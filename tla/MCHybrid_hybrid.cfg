SPECIFICATION FairSpec
CONSTANTS
    a1 = a1
    o1 = o1
    Absent = Absent
    App = {a1}
    Hub = {o1}
    Wants <- MCWants
    Lists <- MCLists
    Depth = 2
    Event = {"apply", "list", "edit", "unlist", "drop", "gone", "collect", "fault", "crash"}
    MaxEvents = 2
INVARIANTS TypeOK TakenAtRest ListedAtRest
PROPERTIES WritesKept EventuallyListed EventuallyTaken
CHECK_DEADLOCK FALSE

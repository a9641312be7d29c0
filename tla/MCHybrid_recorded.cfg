SPECIFICATION FairSpec
CONSTANTS
    a1 = a1
    o1 = o1
    Absent = Absent
    App = {a1}
    Hub = {o1}
    Wants <- MCWants
    Lists <- MCLists
    Depth = 2
    Event = {}
    MaxEvents = 0
PROPERTY EventuallyCompleted
CHECK_DEADLOCK FALSE

SPECIFICATION FairSpec
CONSTANTS
    k1 = k1
    k2 = k2
    Kind = {k1, k2}
    Version = {1, 2}
    Event = {"define", "version", "remove", "lag", "fault", "crash"}
    MaxEvents = 3
INVARIANTS TypeOK NoneForgotten
PROPERTY EventuallyInStep
CHECK_DEADLOCK FALSE

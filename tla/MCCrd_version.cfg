SPECIFICATION FairSpec
CONSTANTS
    k1 = k1
    k2 = k2
    Kind = {k1, k2}
    Version = {1, 2}
    Event = {"define", "version"}
    MaxEvents = 2
CHECK_DEADLOCK FALSE
PROPERTY EventuallyRefreshed

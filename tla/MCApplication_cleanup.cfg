SPECIFICATION FairSpec
CONSTANTS
    a1 = a1
    c1 = c1
    local = local
    h1 = h1
    h2 = h2
    f1 = f1
    f2 = f2
    d1 = d1
    d2 = d2
    Absent = Absent
    App = {a1}
    Cluster = {c1}
    Ignored = {}
    Hdpl = {h1}
    Found = {f1}
    ClusterOf <- MCClusterOf
    Selector <- MCSelector
    Bare = {}
    Anchored = {}
    Delivered = {}
    DeliveryOf <- MCNone
    PlaceOf <- MCNone
    Hollow = {}
    Copy = {1, 2}
    Request <- Requests
    Event = {"delete"}
    MaxEvents = 1
PROPERTY EventuallyCleaned
CHECK_DEADLOCK FALSE

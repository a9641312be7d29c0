SPECIFICATION Spec
CONSTANTS
    a1 = a1
    c1 = c1
    local = local
    h1 = h1
    h2 = h2
    f1 = f1
    f2 = f2
    d1 = d1
    d2 = d2
    Absent = Absent
    App = {a1}
    Cluster = {c1, local}
    Ignored = {local}
    Hdpl = {h1}
    Found = {f1, f2}
    ClusterOf <- MCClusterOf
    Selector <- MCSelector
    Bare = {}
    Anchored = {h1}
    Delivered = {d1, d2}
    DeliveryOf <- MCDelivery
    PlaceOf <- MCPlace
    Hollow = {f2, d2}
    Copy = {1, 2}
    Request <- Targeting
    Event = {"create", "edit", "delete", "hdpl", "unassemble", "work", "configmap", "cluster", "fault", "tolerated", "crash"}
    MaxEvents = 2
INVARIANTS TypeOK CompletionSound RelationsRooted
PROPERTY EditsKept
ACTION_CONSTRAINT JustInTime
CHECK_DEADLOCK FALSE

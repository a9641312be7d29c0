SPECIFICATION FairSpec
CONSTANTS
    a1 = a1
    a2 = a2
    o1 = o1
    r1 = r1
    w1 = w1
    nO = nO
    nR = nR
    nW = nW
    c1 = c1
    kubernetes = kubernetes
    other = other
    d1 = d1
    Absent = Absent
    Assembler = {a1}
    HubObject = {o1}
    RemoteObject = {r1}
    Work = {}
    HdplName = {nO, nR}
    NameOf <- MCNameOf
    Cluster = {c1}
    ClusterOf <- MCClusterOf
    DeployerType = {kubernetes, other}
    DefaultType = kubernetes
    Deployer = {}
    TypeOf <- MCTypeOf
    Serves <- MCServes
    Override <- MCOverride
    Layout <- ShrinkingComponents
    Manifests = {}
    Adopted = {}
    Event = {"create", "edit", "delete", "collect", "apply", "override", "drop", "kind", "cluster", "fault", "crash"}
    MaxEvents = 2

INVARIANT AssembledAtRest
PROPERTY EventuallyAssembled
CHECK_DEADLOCK FALSE

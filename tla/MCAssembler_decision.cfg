SPECIFICATION Spec
CONSTANTS
    a1 = a1
    a2 = a2
    o1 = o1
    r1 = r1
    w1 = w1
    nO = nO
    nR = nR
    nW = nW
    c1 = c1
    kubernetes = kubernetes
    other = other
    d1 = d1
    Absent = Absent
    Assembler = {a1}
    HubObject = {o1}
    RemoteObject = {r1}
    Work = {w1}
    HdplName = {nO, nR, nW}
    NameOf <- MCNameOf
    Cluster = {c1}
    ClusterOf <- MCClusterOf
    DeployerType = {kubernetes, other}
    DefaultType = kubernetes
    Deployer = {d1}
    TypeOf <- MCTypeOf
    Serves <- MCServes
    Override <- MCOverride
    Layout <- SingleComponents
    Manifests = {"some"}
    Adopted = {}
    Event = {}
    MaxEvents = 0
INVARIANT DecidedBeforeDeployable
CHECK_DEADLOCK FALSE

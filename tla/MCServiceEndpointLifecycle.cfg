SPECIFICATION FairSpec
CONSTANTS
    Members = {m1, m2}
    Federations = {f1}
    Labels = {l1}
    None = None
    NoSelector = NoSelector
    InvalidSelector = InvalidSelector
    m1 = m1
    m2 = m2
    f1 = f1
    l1 = l1
    e1 = e1
    e2 = e2
    w1 = w1
    w2 = w2
    Self = m1
    Endpoints = {e1}
    Workloads = {w1, w2}
    EndpointSpecs <- MovingSpecs
    FederationRefs = {f1}
    Infras <- Joined
    NoMember = NoMember
    NoController = NoController
    Disturbances = {"create", "edit", "delete", "workload", "service", "foreign", "error", "restart"}
    MaxDisturbances = 2
    MaxGeneration = 3
INVARIANTS
    TypeOK
    SettledMeansReady
PROPERTIES
    FinalizerBeforeAnnotations
    ReconcileKeepsTheSpec
    DeletionCompletes
CHECK_DEADLOCK FALSE

SPECIFICATION FairSpec
CONSTANTS
    Members = {m1, m2}
    Federations = {f1}
    Labels = {l1}
    None = None
    NoSelector = NoSelector
    InvalidSelector = InvalidSelector
    m1 = m1
    m2 = m2
    f1 = f1
    l1 = l1
    e1 = e1
    e2 = e2
    w1 = w1
    w2 = w2
    Self = m1
    Endpoints = {e1}
    Workloads = {w1}
    EndpointSpecs <- ModeSpecs
    FederationRefs = {f1}
    Infras <- AllInfras
    NoMember = NoMember
    NoController = NoController
    Disturbances = {"edit", "delete", "infrastructure", "error", "restart"}
    MaxDisturbances = 2
    MaxGeneration = 2
PROPERTIES
    ResolvableBecomesReady
CHECK_DEADLOCK FALSE

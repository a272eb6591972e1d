SPECIFICATION Spec
CONSTANTS
    Members = {m1, m2}
    Federations = {f1}
    Labels = {l1}
    None = None
    NoSelector = NoSelector
    InvalidSelector = InvalidSelector
    m1 = m1
    m2 = m2
    f1 = f1
    l1 = l1
    e1 = e1
    e2 = e2
    w1 = w1
    w2 = w2
    Self = m1
    Endpoints = {e1}
    Workloads = {w1}
    EndpointSpecs <- ModeSpecs
    FederationRefs = {f1}
    Infras <- Joined
    NoMember = NoMember
    NoController = NoController
    Disturbances = {"edit"}
    MaxDisturbances = 2
    MaxGeneration = 3
INVARIANTS
    ReadyMeansAnnotated
CHECK_DEADLOCK FALSE

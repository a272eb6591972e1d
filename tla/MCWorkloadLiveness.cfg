SPECIFICATION FairSpec
CONSTANTS
    Members = {m1, m2}
    Federations = {f1}
    Labels = {l1, l2}
    None = None
    NoSelector = NoSelector
    InvalidSelector = InvalidSelector
    m1 = m1
    m2 = m2
    f1 = f1
    l1 = l1
    l2 = l2
    s1 = s1
    c1 = c1
    i1 = i1
    i2 = i2
    i3 = i3
    p1 = p1
    p2 = p2
    p3 = p3
    Self = m1
    Specs <- PreflightSpecs
    Infras <- SomeInfras
    Secrets = {s1}
    ConfigMaps = {c1}
    Images = {i1, i2, i3}
    PortLists = {p1, p2, p3}
    NoPorts = NoPorts
    RefusedImages = {i3}
    RefusedPorts = {p3}
    NoImage = NoImage
    NoController = NoController
    OtherController = OtherController
    ForeignTemplate = ForeignTemplate
    Disturbances = {"edit", "infrastructure", "addDependency", "removeDependency", "deployment", "error"}
    MaxDisturbances = 1
PROPERTIES
    KeepsThePromise
    EveryVersionIsReported
    AdmissibleBecomesAvailable
CHECK_DEADLOCK FALSE

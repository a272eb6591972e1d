SPECIFICATION FairSpec
CONSTANTS
    Members = {m1, m2}
    Federations = {f1}
    Labels = {l1, l2}
    None = None
    NoSelector = NoSelector
    InvalidSelector = InvalidSelector
    m1 = m1
    m2 = m2
    f1 = f1
    l1 = l1
    l2 = l2
    FederationSpecs <- SomeSpecs
    Infras <- SecondMissing
    Disturbances = {"federation", "member", "label", "error", "restart"}
    MaxDisturbances = 2
INVARIANTS
    TypeOK
    SettledMeansReported
    StatusMatchesSpec
    StatusListsTheAdmittedMembers
    PrimaryIsAdmitted
PROPERTIES
    ReconcileKeepsTheSpec
    FederationConverges
CHECK_DEADLOCK FALSE

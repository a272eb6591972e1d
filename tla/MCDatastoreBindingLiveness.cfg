SPECIFICATION FairSpec
CONSTANTS
    b1 = b1
    b2 = b2
    s1 = s1
    r1 = r1
    r2 = r2
    Bindings = {b1}
    Primary = b1
    TheWorkload = TheWorkload
    OtherWorkload = OtherWorkload
    BindingSpecs <- LiveSpecs
    Delivered <- AllDelivered
    Secrets = {s1}
    Modes = {r1, r2}
    UserEnvs <- SomeEnvs
    None = None
    OtherController = OtherController
    Disturbances = {"edit", "delete", "workload", "secret", "error", "restart"}
    MaxDisturbances = 2
INVARIANTS
    SettledMeansReady
PROPERTIES
    ResolvableBecomesInjected
CHECK_DEADLOCK FALSE

SPECIFICATION Spec
CONSTANTS
    b1 = b1
    b2 = b2
    s1 = s1
    r1 = r1
    r2 = r2
    Bindings = {b1}
    Primary = b1
    TheWorkload = TheWorkload
    OtherWorkload = OtherWorkload
    BindingSpecs <- ModeSpecs
    Delivered <- AllDelivered
    Secrets = {s1}
    Modes = {r1, r2}
    UserEnvs <- SomeEnvs
    None = None
    OtherController = OtherController
    Disturbances = {"deployment"}
    MaxDisturbances = 1
INVARIANTS
    ReadyMeansInjected
CHECK_DEADLOCK FALSE

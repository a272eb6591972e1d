SPECIFICATION FairSpec
CONSTANTS
    b1 = b1
    b2 = b2
    s1 = s1
    r1 = r1
    r2 = r2
    Bindings = {b1}
    Primary = b1
    TheWorkload = TheWorkload
    OtherWorkload = OtherWorkload
    BindingSpecs <- EngineSpecs
    Delivered <- AllDelivered
    Secrets = {s1}
    Modes = {r1, r2}
    UserEnvs <- OneEnv
    None = None
    OtherController = OtherController
    Disturbances = {"create", "edit", "delete", "recreate", "deployment", "error", "restart"}
    MaxDisturbances = 2
INVARIANTS
    TypeOK
    SettledMeansReady
PROPERTIES
    FinalizerBeforeInjection
    ReconcileKeepsTheSpec
    DeletionCompletes
CHECK_DEADLOCK FALSE

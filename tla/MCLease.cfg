SPECIFICATION Spec
CONSTANTS
    Holder = {h1, h2}
    NoHolder = NoHolder
    LeaseDuration = 4
    RenewInterval = 2
    LocalDeadline = 3
    StepDownGrace = 1
    MaxTime = 6
SYMMETRY Symmetry
INVARIANTS
    TypeOK
    OneInCharge
    InChargePassesVerify
    InChargeFences
    ReleasedStaysFree
    PromptNeverRefused
    PromptWorkAlone
PROPERTY
    ImplementsOneHolder
CHECK_DEADLOCK FALSE

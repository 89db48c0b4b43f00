SPECIFICATION Spec
CHECK_DEADLOCK FALSE
CONSTANTS
    Batches = {b1, b2}
    Names = {n1}
    None = None
    AnchorIndexes = {0, 1}
    Failures = {"fund", "sign", "import", "publish", "register", "universe"}
    MaxFailures = 1
    MaxCrashes = 1
    MaxFundings = 3
    MaxCancels = 1
INVARIANTS
    OneGenesisTx
    CancelledStaysOffChain
    ConfirmedIsMinted
PROPERTY
    FrozenIsMinted

SPECIFICATION Spec
CHECK_DEADLOCK FALSE
CONSTANTS
    Assets = {a1, a2}
    Parcels = {p1, p2, p3}
    Homes = {u1, u2}
    None = None
    Failures = {"sign", "anchor", "publish", "register", "store", "deliver"}
    MaxFailures = 1
    MaxCrashes = 1
    LeaseOutlives = TRUE
INVARIANTS
    NoDoubleSpend
    EligibleIsSpendable
PROPERTY
    LoggedIsConfirmed

SPECIFICATION Spec
CONSTANTS
    g1 = g1
    r1 = r1
    r2 = r2
    c1 = c1
    q1 = q1
    q2 = q2
    hash = hash
    url = url
    None = None
    Gateways = {g1}
    Requests = {r1}
    Commands = {c1}
    RecordIds = {q1}
    IndicatorTypes = {hash, url}
    Holds <- MCHoldsOne
    MaxDeliveries = 2
    MayFail = TRUE
INVARIANTS
    NeverReopened
    ExportedWasDelivered
CHECK_DEADLOCK FALSE

SPECIFICATION Spec
CONSTANTS
    g1 = g1
    r1 = r1
    r2 = r2
    c1 = c1
    q1 = q1
    q2 = q2
    hash = hash
    url = url
    None = None
    Gateways = {g1}
    Requests = {r1, r2}
    Commands = {}
    RecordIds = {q1, q2}
    IndicatorTypes = {hash, url}
    Holds <- MCHolds
    MaxDeliveries = 2
    MayFail = FALSE
SYMMETRY RequestSymmetry
INVARIANTS
    ExportedOnce
    AuditMirrorsLog
CHECK_DEADLOCK FALSE

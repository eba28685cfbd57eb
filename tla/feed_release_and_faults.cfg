SPECIFICATION Spec
CONSTANTS
    otx = otx
    misp = misp
    p1 = p1
    p2 = p2
    held = held
    red = red
    e1 = e1
    uri = uri
    link = link
    hash = hash
    host = host
    domain = domain
    loose = loose
    mail = mail
    k1 = k1
    k2 = k2
    k3 = k3
    k4 = k4
    NoPattern = NoPattern
    NoFingerprint = NoFingerprint
    Sources = {otx, misp}
    Items = {p1, p2, held, red, e1}
    Indicators = {uri, link, hash, host, domain, loose, mail}
    Patterns = {"url", "file", "name", "blank", "email"}
    ArtifactKeys = {"url", "sha256", "hostname", "domain", "email"}
    GraphKeys = {k1, k2, k3, k4}
    Entities = {"actor", "tool", "sector"}
    Source <- MCSource
    Found <- MCFound
    Verdict <- MCVerdict
    Carries <- MCCarries
    Pattern <- MCPattern
    Fingerprint <- MCFingerprint
    Graph <- MCGraph
    Entity <- MCEntity
    Bundled = {k1, k2, k4}
    Denied = {red}
    AllowedIndicators = {uri, link, hash, host, domain, loose}
    MaxReviewed <- MCMaxReviewed
    MaxIngested <- MCMaxIngested
    ArtifactDedup = TRUE
    GraphDedup = TRUE
    GraphReplay = {misp}
    DryRun = {misp}
    Releases <- MCReleases
    MaxFaults = 2
INVARIANTS
    TypeOK
    CheckpointedIsDelivered
    IndexesAreHandedOver
    DeniedStaysOut
    AuditTellsTruth

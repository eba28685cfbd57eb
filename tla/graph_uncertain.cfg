SPECIFICATION Spec
CONSTANTS
    x = x  y = y
    Items = {x, y}
    NoItem = NoItem
    Evidence <- EvidenceBundled
    Indicators <- MCIndicators
    Deployments <- Uncertain
    Canonical <- NoKeys
    PlatformPrefix <- MCPlatformPrefix
    KeepsIds = TRUE
    Mode = "export"
    MinEntityConfidence = 50
    MinRelationshipConfidence = 50
    AllowedEntityTypes = {}
    AllowedStixTypes = {}
    SafeEntityTypes <- SafeEnts
    SafeStixTypes <- SafeTypes
    RequireProvenance = TRUE
    AllowVictimology = TRUE
    VictimologyTypes <- Victims
INVARIANT UncertainReadKeeps
CHECK_DEADLOCK FALSE

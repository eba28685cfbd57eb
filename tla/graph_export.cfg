SPECIFICATION MCFairSpec
CONSTANTS
    x = x  y = y
    Items = {x, y}
    NoItem = NoItem
    Evidence <- EvidenceFull
    Indicators <- MCIndicators
    Deployments <- MCDeployments
    Canonical <- Actors
    PlatformPrefix <- MCPlatformPrefix
    KeepsIds = TRUE
    Mode = "export"
    MinEntityConfidence = 50
    MinRelationshipConfidence = 50
    AllowedEntityTypes = {}
    AllowedStixTypes = {}
    SafeEntityTypes <- SafeEnts
    SafeStixTypes <- SafeTypes
    RequireProvenance = TRUE
    AllowVictimology = TRUE
    VictimologyTypes <- Victims
INVARIANTS TypeOK BundleIsClosed ExistingIsReused IndexedIsSent IndexedIsNotResent HeldIsNotDelivered
PROPERTIES FoundTextIsKept AcceptedIsDelivered
CHECK_DEADLOCK FALSE

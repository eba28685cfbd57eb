SPECIFICATION Spec
CONSTANTS
    Facts <- MCFacts
    Networks <- MCNetworks
    Techniques <- MCTechniques
    Aliases <- MCAliases
    MaxOwners = 2
    MaxPairings = 3
    MaxRecords = 4
    Events <- MCEvents
    Signals <- MCSignals
    SourceConfidence = 60
    ScoringMode = "enforce"
    MaxImpact = 100
    Impacts <- MCImpacts
    QuarantineThreshold = 50
    EnableQuarantine = TRUE
    MinScore = 60
    MaxDaysOld = 1095
    MinScoreOld = 80
    HardFilter = 1500
    AllowedTlp = {"white", "amber"}
    Pulses <- MCPulses
    Mode = "export"
    MinEntityConfidence = 60
    MinRelationshipConfidence = 60
    AllowedEntityTypes = {}
    AllowedStixTypes = {}
    SafeEntityTypes <- SafeEnts
    SafeStixTypes <- SafeTypes
    RequireProvenance = TRUE
    AllowVictimology = FALSE
    VictimologyTypes <- Victims
INVARIANTS TypeOK NoEdgeTwice OneAdversary ContextNotSurer OrderIndependent VictimsWait OneNameForAs ContextOnlyLifts InferenceScoresNothing
CHECK_DEADLOCK FALSE

SPECIFICATION Spec
CONSTANTS
    Plans <- MCPlans
    ObjectPool <- MCObjects
    EdgePool <- MCEdges
    Curated <- MCCurated
    Codes <- MCCodes
    PageSize = 2
    MaxFailures = 1
    MaxChanges = 1
INVARIANTS TypeOK NothingAskedTwice KnownRelationshipExists PresentIsKnown
PROPERTIES TakenIsTheOne LookupEnds
CHECK_DEADLOCK FALSE

CONSTANTS
    Models <- MCModels
    Facts <- MCFacts
    Populations <- MCPopulations
    Fields <- MCFields
    Conds <- MCConds
    Relations <- MCRelations
    Slices <- MCSlices
    FoundRows = TRUE
    FirstGenerated = 3
    MaxCalls = 3
SPECIFICATION Spec
INVARIANTS  VettedInsertsFit
PROPERTIES WritesLand RelationsExact
CHECK_DEADLOCK FALSE

SPECIFICATION SpecR
CONSTANTS
    None = None
    Workbooks <- MCWorkbooks
    Assumptions <- MCAssumptions
    MaxAssumptions = 1
    ReadLimit = 1000
    Goals <- MCGoals
    PoolMinimum = 1
    Halvings = 9
    Searches = {0, 1, 5}
INVARIANTS
    RecommendationDelivers
    TrialsStartAtBaseline
    FallbackOnlyWhenNeeded
    OnlyFirstIsCorrected
CHECK_DEADLOCK FALSE

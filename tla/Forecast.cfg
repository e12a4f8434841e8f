SPECIFICATION Spec
CONSTANTS
    None = None
    Workbooks <- MCWorkbooks
    Assumptions <- Catalogue
    MaxAssumptions = 2
    ReadLimit = 50
INVARIANTS
    TypeOK
    LifeEndsAtResidual
    PoolChargesItsTotal
    ChainUnbroken
    StaysWithinCost
    OneLineAMonth
    OnlyTargetsMove
    DifferencesAgree
    AttributionsFollowChanges
    ViewsAgree
PROPERTIES
    BalancesOnlyFall
CHECK_DEADLOCK FALSE

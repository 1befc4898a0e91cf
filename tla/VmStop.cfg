SPECIFICATION FairSpec
CONSTANTS
    Trimmed <- MCTrimmed
    Lowered <- MCLowered
    Objs = {"vm"}
    Ids = {"id1", "id2"}
    KindOf <- MCKindOf
    SpecsOf <- Stopping
    MetaName <- MCMetaName
    Workers = {w1}
    ProcessOf <- MCProcessOf
    Budget <- BudgetCalm
    NoSpec = NoSpec
    NoObj = NoObj
PROPERTIES
    VmRunsAsDesired
CHECK_DEADLOCK FALSE

SPECIFICATION Spec
CONSTANTS
    Trimmed <- MCTrimmed
    Lowered <- MCLowered
    Objs = {"vm"}
    Ids = {"id1", "id2"}
    KindOf <- MCKindOf
    SpecsOf <- Rejected
    MetaName <- MCMetaName
    Workers = {w1}
    ProcessOf <- MCProcessOf
    Budget <- BudgetCalm
    NoSpec = NoSpec
    NoObj = NoObj
INVARIANTS
    DeletedVmIsGone
CHECK_DEADLOCK FALSE

SPECIFICATION FairSpec
CONSTANTS
    Trimmed <- MCTrimmed
    Lowered <- MCLowered
    Objs = {"key", "alice"}
    Ids = {"id1"}
    KindOf <- MCKindOf
    SpecsOf <- MCSpecsOf
    MetaName <- MCMetaName
    Workers = {w1}
    ProcessOf <- MCProcessOf
    Budget <- BudgetCalm
    NoSpec = NoSpec
    NoObj = NoObj
PROPERTIES
    KeyIsRegistered
CHECK_DEADLOCK FALSE

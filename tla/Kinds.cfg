SPECIFICATION FairSpec
CONSTANTS
    Trimmed <- MCTrimmed
    Lowered <- MCLowered
    Objs = {"sg", "att", "wl", "net", "key"}
    Ids = {"id1", "id2"}
    KindOf <- MCKindOf
    SpecsOf <- MCSpecsOf
    MetaName <- MCMetaName
    Workers = {w1}
    ProcessOf <- MCProcessOf
    Budget <- BudgetKinds
    NoSpec = NoSpec
    NoObj = NoObj
PROPERTIES
    Converges
CHECK_DEADLOCK FALSE

SPECIFICATION FairSpec
CONSTANTS
    Trimmed <- MCTrimmed
    Lowered <- MCLowered
    Objs = {"sg", "att1", "att2"}
    Ids = {"id1"}
    KindOf <- MCKindOf
    SpecsOf <- MCSpecsOf
    MetaName <- MCMetaName
    Workers = {w1}
    ProcessOf <- MCProcessOf
    Budget <- BudgetCalm
    NoSpec = NoSpec
    NoObj = NoObj
PROPERTIES
    AttachedOnItsNode
CHECK_DEADLOCK FALSE

SPECIFICATION FairSpec
CONSTANTS
    Trimmed <- MCTrimmed
    Lowered <- MCLowered
    Objs = {"vm"}
    Ids = {"id1", "id2", "id3", "id4"}
    KindOf <- MCKindOf
    SpecsOf <- Renamed
    MetaName <- MCMetaName
    Workers = {w1, w2}
    ProcessOf <- MCProcessOf
    Budget <- BudgetLive
    NoSpec = NoSpec
    NoObj = NoObj
PROPERTIES
    NeverForgets
    Converges
    DeletionCompletes
CHECK_DEADLOCK FALSE

SPECIFICATION Spec
CONSTANTS
    Trimmed <- MCTrimmed
    Lowered <- MCLowered
    Objs = {"vm"}
    Ids = {"id1", "id2", "id3"}
    KindOf <- MCKindOf
    SpecsOf <- Renamed
    MetaName <- MCMetaName
    Workers = {w1, w2}
    ProcessOf <- MCProcessOf
    Budget <- BudgetCreate
    NoSpec = NoSpec
    NoObj = NoObj
SYMMETRY Alike
INVARIANTS
    TypeOK
    CreateExclusive
    CreateProtected
PROPERTIES
    LossIsFlagged
    LockingIsSound
CHECK_DEADLOCK FALSE

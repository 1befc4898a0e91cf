SPECIFICATION Spec
CONSTANTS
    Trimmed <- MCTrimmed
    Lowered <- MCLowered
    Objs = {"net3"}
    Ids = {"id1"}
    KindOf <- MCKindOf
    SpecsOf <- MCSpecsOf
    MetaName <- MCMetaName
    Teams <- Alone
    Budget <- Calm
INVARIANTS
    NetworkIsDeleted
CHECK_DEADLOCK FALSE

SPECIFICATION Spec
CONSTANTS
    Trimmed <- MCTrimmed
    Lowered <- MCLowered
    Objs = {"vm", "wl", "wv", "net1", "net2", "net3", "sg", "sg2", "sg3", "att", "att2", "key"}
    Ids = {"id1", "id2"}
    KindOf <- MCKindOf
    SpecsOf <- MCSpecsOf
    MetaName <- MCMetaName
    Teams <- MCTeams
    Budget <- MCBudget
INVARIANTS
    TypeOK
    CreatedIsFound
    DeleteIsIdempotent
    
    ReadyIsBacked
PROPERTIES
    DeletedIsGone
    DeleteSpares
    ShownStateIsOwn
CHECK_DEADLOCK FALSE

SPECIFICATION FairSpec
CONSTANTS
    Trimmed <- MCTrimmed
    Lowered <- MCLowered
    Objs = {u1}
    Configs = {"default"}
    ConfigKind <- OfCluster
    SpecOf <- MCSpecOf
    SecretsIn <- MCSecretsIn
    Refs <- MCRefs
    Namespace = "ns"
    Settled = {}
    Budget <- Calm
    None = None
INVARIANTS
    ConsumersAreTracked
CHECK_DEADLOCK FALSE

SPECIFICATION FairSpec
CONSTANTS
    Trimmed <- MCTrimmed
    Lowered <- MCLowered
    Objs = {u1}
    Configs = {"dev", "prod"}
    ConfigKind <- Namespaced
    SpecOf <- MCSpecOf
    SecretsIn <- MCSecretsIn
    Refs <- MCRefs
    Namespace = "ns"
    Settled = {"prod"}
    Budget <- MCBudget
    None = None
INVARIANTS
    TypeOK
    KnownUseProtects
PROPERTIES
    UsageFollows
    UnusedConfigGoes
    ConnectsAsConfigured
CHECK_DEADLOCK FALSE

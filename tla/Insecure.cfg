SPECIFICATION FairSpec
CONSTANTS
    Trimmed <- MCTrimmed
    Lowered <- MCLowered
    Objs = {u1}
    Configs = {"dev"}
    ConfigKind <- Namespaced
    SpecOf <- WithoutCredentials
    SecretsIn <- MCSecretsIn
    Refs <- MCRefs
    Namespace = "ns"
    Settled = {}
    Budget <- Calm
    None = None
PROPERTIES
    InsecureConnects
CHECK_DEADLOCK FALSE

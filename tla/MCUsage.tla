------------------------------- MODULE MCUsage -------------------------------
(***************************************************************************)
(* A resource and two provider configs: a plaintext one and one whose      *)
(* secret is in its own namespace, under the alternative key names.        *)
(***************************************************************************)
EXTENDS ProviderUsage

MCTrimmed == [s \in {" prod:9090 ", " "} |-> IF s = " " THEN "" ELSE "prod:9090"]
MCLowered == [s \in {} |-> ""]

Namespaced == [c \in Configs |-> "ProviderConfig"]
OfCluster  == [c \in Configs |-> "ClusterProviderConfig"]

NoSecret == {}
SecretRef == {[name |-> "tls", namespace |-> ""]}

MCSpecOf ==
    [c \in Configs |->
        IF c = "prod"
        THEN [endpoint |-> " prod:9090 ", insecure |-> FALSE, source |-> "Secret",
              secretRef |-> SecretRef]
        ELSE [endpoint |-> "dev:9090", insecure |-> TRUE, source |-> "None",
              secretRef |-> NoSecret]]

\* Plaintext, and nothing said about credentials.
WithoutCredentials ==
    [c \in Configs |-> [endpoint |-> "dev:9090", insecure |-> TRUE, source |-> "",
                        secretRef |-> NoSecret]]

MCSecretsIn ==
    {[namespace |-> "ns", name |-> "tls",
      data |-> [k \in SecretKeys |-> IF k \in {"client.crt", "client.key"} THEN "good"
                                    ELSE ""]]}

MCRefs == {[kind |-> ConfigKind[c], name |-> c] : c \in Configs}

MCBudget == [edit |-> 3, mishap |-> 1]
Calm     == [edit |-> 2, mishap |-> 0]

=============================================================================

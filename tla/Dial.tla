--------------------------------- MODULE Dial ---------------------------------
(***************************************************************************)
(* internal/controller/kcore/dial.go: from the provider config reference   *)
(* of a resource to a gRPC connection to the kcore controller.  A pointer  *)
(* is a set with at most one element, and so is a result that may be an    *)
(* error: empty for nil and for every error, which all have the reconcile  *)
(* start over.  The PEM data of a secret is "", good or bad.  grpc.NewClient*)
(* does not connect yet; what fails later is Unavailable.                  *)
(***************************************************************************)
EXTENDS Enums

Pems == {"", "good", "bad"}

SecretKeys == {"ca.crt", "ca.pem", "tls.crt", "client.crt", "tls.key", "client.key"}

Secrets == [namespace : STRING, name : STRING, data : [SecretKeys -> Pems]]

\* xpv1.ProviderConfigReference
References == [kind : STRING, name : STRING]

ConfigKinds == {"ProviderConfig", "ClusterProviderConfig"}

\* A ProviderConfig or (with namespace "") a ClusterProviderConfig, with its
\* ProviderConfigSpec and ProviderCredentials.
ConfigsOf(secretRefs) ==
    [kind : ConfigKinds, namespace : STRING, name : STRING,
     endpoint : STRING, insecure : BOOLEAN, source : STRING,
     secretRef : secretRefs]

Material == [ca : Pems, cert : Pems, key : Pems]

\* A connection: to which endpoint, in the clear or not, with which roots (""
\* for those of the system) and with a client certificate or not.
Connections == [endpoint : STRING, tls : BOOLEAN, roots : Pems, mutual : BOOLEAN]

-----------------------------------------------------------------------------

\* The kind of config a reference is about; "" is every kind Dial refuses.
RefKind(ref) ==
    CASE TrimSpace(ref.kind) \in {"", "ProviderConfig"}     -> "ProviderConfig"
      [] TrimSpace(ref.kind) = "ClusterProviderConfig"      -> "ClusterProviderConfig"
      [] OTHER                                              -> ""

\* What kube.Get finds for a reference from that namespace.
Referenced(configs, ref, namespace) ==
    {c \in configs : /\ c.kind = RefKind(ref)
                     /\ c.name = ref.name
                     /\ c.kind = "ProviderConfig" => c.namespace = namespace}

\* The first key that is filled.
firstKey(data, first, second) == IF data[first] # "" THEN data[first] ELSE data[second]

SecretMaterial(data) ==
    [ca   |-> firstKey(data, "ca.crt", "ca.pem"),
     cert |-> firstKey(data, "tls.crt", "client.crt"),
     key  |-> firstKey(data, "tls.key", "client.key")]

\* A slip: a reference without a namespace is taken as it is.
CredentialsSecretAsNamed(secrets, c) ==
    {s \in secrets : \E ref \in c.secretRef :
        s.name = ref.name /\ s.namespace = ref.namespace}

\* The secret a config names; without a namespace, in that of the config.
CredentialsSecret(secrets, c) ==
    {s \in secrets : \E ref \in c.secretRef :
        /\ s.name = ref.name
        /\ s.namespace = IF ref.namespace = "" THEN c.namespace ELSE ref.namespace}

\* Credentials are loaded whether TLS is used or not.
loadTLSMaterial(secrets, c) ==
    IF c.source = "None" THEN {[ca |-> "", cert |-> "", key |-> ""]}
    ELSE IF c.source = "Secret"
         THEN {SecretMaterial(s.data) : s \in CredentialsSecret(secrets, c)}
         ELSE {}

\* Half a key pair is no pair: the client then has no certificate.
HasPair(m) == m.cert # "" /\ m.key # ""

\* No PEM data that would be used is bad.
Usable(c, m) ==
    c.insecure \/ (m.ca # "bad" /\ (HasPair(m) => "bad" \notin {m.cert, m.key}))

Connection(c, m) ==
    [endpoint |-> TrimSpace(c.endpoint), tls |-> ~ c.insecure,
     roots    |-> IF c.insecure THEN "" ELSE m.ca,
     mutual   |-> ~ c.insecure /\ HasPair(m)]

Open(configs, secrets, ref, namespace) ==
    UNION {{Connection(c, m) : m \in {x \in loadTLSMaterial(secrets, c) : Usable(c, x)}} :
              c \in {x \in Referenced(configs, ref, namespace) : TrimSpace(x.endpoint) # ""}}

=============================================================================

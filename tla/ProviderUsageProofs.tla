------------------------- MODULE ProviderUsageProofs -------------------------
(***************************************************************************)
(* A deleted config outlives the usages the provider knows of, and no      *)
(* connection is made but as a config says, for any number of resources and*)
(* configs, any references and any budget.                                 *)
(***************************************************************************)
EXTENDS ProviderUsage, TLAPS

\* The usages that are tracked are of the kind c's controller lists.
Tracked(c) == UsageKind(c) = TrackedUsage

\* What protects the known usages of c: they are stored, owned and in the cache;
\* c is still there; a reconcile that saw it deleted saw them too; and whoever
\* saw it deleted did so after it was.
Guarded(c) ==
    /\ \A o \in known[c] : Seen(o, c)
    /\ known[c] # {} => pc[c].present /\ pc[c].deleting
    /\ recon[c] # None /\ recon[c].config.deleting => known[c] \subseteq recon[c].users
    /\ pc[c].present /\ ~ pc[c].deleting =>
          /\ ~ pcCache[c].deleting
          /\ recon[c] # None => ~ recon[c].config.deleting

IInv == TypeOK /\ \A c \in Configs : Tracked(c) => Guarded(c)

-----------------------------------------------------------------------------
(* Types                                                                    *)

\* A connection is made of the config and of its secret.
LEMMA OpenTyped ==
    ASSUME NEW ref, NEW configs \in SUBSET {ConfigRecord(c) : c \in Configs}
    PROVE  Open(configs, SecretsIn, ref, Namespace) \subseteq Connections
<1>1. \A c \in configs : \A m \in loadTLSMaterial(SecretsIn, c) : m \in Material
  <2> SUFFICES ASSUME NEW c \in configs, NEW m \in loadTLSMaterial(SecretsIn, c)
               PROVE  m \in Material
    OBVIOUS
  <2>1. CASE c.source = "None"
    <3>1. loadTLSMaterial(SecretsIn, c) = {[ca |-> "", cert |-> "", key |-> ""]}
      BY <2>1, Zenon DEF loadTLSMaterial
    <3>2. m = [ca |-> "", cert |-> "", key |-> ""]
      BY <3>1, Zenon
    <3> QED BY <3>2 DEF Material, Pems
  <2>2. CASE c.source = "Secret"
    <3>1. PICK x \in CredentialsSecret(SecretsIn, c) : m = SecretMaterial(x.data)
      BY <2>2 DEF loadTLSMaterial
    <3>2. x.data \in [SecretKeys -> Pems]
      BY <3>1, SecretsAssumption DEF CredentialsSecret, Secrets
    <3> QED BY <3>1, <3>2 DEF SecretMaterial, firstKey, SecretKeys, Material
  <2>3. CASE c.source \notin {"None", "Secret"}
    <3>1. loadTLSMaterial(SecretsIn, c) = {}
      BY <2>3 DEF loadTLSMaterial
    <3> QED BY <3>1
  <2> QED BY <2>1, <2>2, <2>3
<1>2. \A c \in configs : c.endpoint \in STRING
  <2> TAKE c \in configs
  <2>1. PICK d \in Configs : c = ConfigRecord(d)
    OBVIOUS
  <2> QED BY <2>1, SpecAssumption DEF ConfigRecord
<1>3. \A c \in configs : \A m \in Material : Connection(c, m) \in Connections
  <2> SUFFICES ASSUME NEW c \in configs, NEW m \in Material
               PROVE  Connection(c, m) \in Connections
    OBVIOUS
  <2>1. TrimSpace(c.endpoint) \in STRING
    BY <1>2, TrimmedAssumption DEF TrimSpace
  <2>2. (IF c.insecure THEN "" ELSE m.ca) \in Pems
    BY DEF Material, Pems
  <2>3. (~ c.insecure) \in BOOLEAN /\ (~ c.insecure /\ HasPair(m)) \in BOOLEAN
    OBVIOUS
  <2> QED BY <2>1, <2>2, <2>3 DEF Connection, Connections
<1> SUFFICES ASSUME NEW k \in Open(configs, SecretsIn, ref, Namespace)
             PROVE  k \in Connections
  OBVIOUS
<1>4. PICK c \in configs : \E m \in loadTLSMaterial(SecretsIn, c) : k = Connection(c, m)
  BY DEF Open, Referenced
<1> QED BY <1>1, <1>3, <1>4

\* A reconcile makes of a config what a config can be.
LEMMA OutcomeTyped ==
    ASSUME TypeOK, NEW c \in Configs, recon[c] # None
    PROVE  Outcome(c) \in ConfigStates
<1>1. recon[c].config \in ConfigStates /\ recon[c].config # Gone
  BY DEF TypeOK, Reconciles
<1>2. recon[c].config.present
  BY <1>1 DEF ConfigStates, Gone, Bare, Kept
<1> QED BY <1>1, <1>2 DEF Outcome, ConfigStates, Gone, Bare, Kept

\* It all begins well-formed.
LEMMA InitTyped == Init => TypeOK
<1> SUFFICES ASSUME Init PROVE TypeOK
  OBVIOUS
<1>1. pc \in [Configs -> ConfigStates] /\ pcCache \in [Configs -> ConfigStates]
  BY DEF Init, ConfigStates
<1>2. /\ usage \in [Objs -> Usages] /\ usageCache \in [Objs -> Usages]
      /\ mr \in [Objs -> [life : {"new", "gone"}, ref : {None}]
                            \cup [life : {"present"}, ref : Refs]]
      /\ job \in [Objs -> {Quiet} \cup [at : {"track", "dial"}, ref : Refs]]
      /\ conn \in [Objs -> SUBSET Connections]
  BY DEF Init, Usages
<1>3. /\ queue \subseteq Configs
      /\ recon \in [Configs -> Reconciles]
      /\ known \in [Configs -> SUBSET Objs]
      /\ budget \in [{"edit", "mishap"} -> Nat]
  BY BudgetAssumption DEF Init, Reconciles
<1> QED BY <1>1, <1>2, <1>3 DEF TypeOK, Reconciles

\* Spending leaves the budget a budget.
LEMMA SpendTyped ==
    ASSUME TypeOK, NEW kind \in {"edit", "mishap"}, Spend(kind)
    PROVE  budget' \in [{"edit", "mishap"} -> Nat]
<1>1. budget \in [{"edit", "mishap"} -> Nat] /\ budget[kind] > 0
      /\ budget' = [budget EXCEPT ![kind] = @ - 1]
  BY DEF TypeOK, Spend
<1> QED BY <1>1

\* Everything but the history, which no action but Remember sets.
RestTyped ==
    /\ pc \in [Configs -> ConfigStates] /\ usage \in [Objs -> Usages]
    /\ pcCache \in [Configs -> ConfigStates] /\ usageCache \in [Objs -> Usages]
    /\ mr \in [Objs -> [life : {"new", "gone"}, ref : {None}]
                          \cup [life : {"present"}, ref : Refs]]
    /\ job \in [Objs -> {Quiet} \cup [at : {"track", "dial"}, ref : Refs]]
    /\ conn \in [Objs -> SUBSET Connections]
    /\ queue \subseteq Configs
    /\ recon \in [Configs -> Reconciles]
    /\ budget \in [{"edit", "mishap"} -> Nat]

\* The steps of a connect leave well-formed usages, jobs and connections.
LEMMA ConnectTyped ==
    ASSUME TypeOK, NEW o \in Objs, Connect(o) \/ ConnectFails(o)
    PROVE  RestTyped'
<1> USE DEF TypeOK, RestTyped, stored, caches, users, loop
<1>1. CASE Begin(o)
  <2>1. mr[o].ref \in Refs
    BY <1>1 DEF Begin
  <2> QED BY <1>1, <2>1 DEF Begin
<1>2. CASE Track(o)
  <2>1. job[o] \in [at : {"track", "dial"}, ref : Refs]
    BY <1>2 DEF Track, Quiet
  <2>2. [ref |-> job[o].ref, owned |-> TRUE] \in Usages
    BY <2>1 DEF Usages
  <2>3. [job[o] EXCEPT !.at = "dial"] \in [at : {"track", "dial"}, ref : Refs]
    BY <2>1
  <2>4. usage' \in [Objs -> Usages]
    BY <1>2, <2>2 DEF Track
  <2> QED BY <1>2, <2>3, <2>4 DEF Track
<1>3. CASE TrackConflict(o)
  BY <1>3 DEF TrackConflict
<1>4. CASE Dial(o)
  <2>1. Open(CachedConfigs, SecretsIn, job[o].ref, Namespace) \subseteq Connections
    <3>1. CachedConfigs \in SUBSET {ConfigRecord(c) : c \in Configs}
      BY DEF CachedConfigs
    <3> QED BY <3>1, OpenTyped
  <2> DEFINE found == Open(CachedConfigs, SecretsIn, job[o].ref, Namespace)
  <2>2. conn' = [conn EXCEPT ![o] = found] /\ found \subseteq Connections
    BY <1>4, <2>1 DEF Dial
  <2> HIDE DEF found
  <2> QED BY <1>4, <2>2 DEF Dial
<1>5. CASE ConnectFails(o)
  <2>1. budget' \in [{"edit", "mishap"} -> Nat]
    BY <1>5, SpendTyped DEF ConnectFails
  <2> QED BY <1>5, <2>1 DEF ConnectFails
<1> QED BY <1>1, <1>2, <1>3, <1>4, <1>5 DEF Connect

\* A cache of usages that catches up holds usages.
LEMMA UsageSyncTyped ==
    ASSUME TypeOK, NEW o \in Objs, SyncUsage(o)
    PROVE  RestTyped'
BY DEF SyncUsage, TypeOK, RestTyped, stored, users

\* A cache of configs that catches up holds configs.
LEMMA ConfigSyncTyped ==
    ASSUME TypeOK, NEW c \in Configs, SyncConfig(c)
    PROVE  RestTyped'
BY DEF SyncConfig, TypeOK, RestTyped, stored, users

\* A reconcile leaves configs, usages and what it has read well-formed.
LEMMA ReconcileTyped ==
    ASSUME TypeOK, NEW c \in Configs, Reconcile(c) \/ ReconcileFails(c)
    PROVE  RestTyped'
<1> USE DEF TypeOK, RestTyped, stored, caches, users
<1>1. CASE List(c)
  <2> DEFINE unowned == {o \in Listed(c) : ~ usageCache[o].owned}
             read == [config |-> pcCache[c], users |-> Listed(c) \ unowned]
  <2>1. CASE pcCache[c].present
    <3>1. read \in Reconciles
      <4>1. pcCache[c] \in ConfigStates \ {Gone}
        BY <2>1 DEF Gone
      <4>2. Listed(c) \subseteq Objs
        BY DEF Listed
      <4> QED BY <4>1, <4>2 DEF Reconciles
    <3> HIDE DEF read
    <3>2. recon' = [recon EXCEPT ![c] = read]
      BY <1>1, <2>1 DEF List, read
    <3>3. usage' \in [Objs -> Usages]
      BY <1>1, <2>1 DEF List, Usages
    <3> QED BY <1>1, <3>1, <3>2, <3>3 DEF List
  <2>2. CASE ~ pcCache[c].present
    BY <1>1, <2>2 DEF List
  <2> QED BY <2>1, <2>2
<1>2. CASE Conclude(c)
  <2>1. recon' = [recon EXCEPT ![c] = None] /\ None \in Reconciles
    BY <1>2 DEF Conclude, Reconciles
  <2>2. pc' = pc \/ pc' = [pc EXCEPT ![c] = Outcome(c)]
    BY <1>2 DEF Conclude
  <2>3. queue' \subseteq Configs
    BY <1>2 DEF Conclude
  <2>4. Outcome(c) \in ConfigStates
    BY <1>2, OutcomeTyped DEF Conclude
  <2>5. pc' \in [Configs -> ConfigStates]
    BY <2>2, <2>4
  <2> QED BY <1>2, <2>1, <2>3, <2>5 DEF Conclude
<1>3. CASE ReconcileFails(c)
  <2>1. budget' \in [{"edit", "mishap"} -> Nat]
    BY <1>3, SpendTyped DEF ReconcileFails
  <2> QED BY <1>3, <2>1 DEF ReconcileFails, Reconciles
<1> QED BY <1>1, <1>2, <1>3 DEF Reconcile

\* So do users of resources, the garbage collector and a restored backup.
LEMMA ResourceTyped ==
    ASSUME TypeOK, NEW o \in Objs,
           Refer(o) \/ Remove(o) \/ Collect(o) \/ Restore(o)
    PROVE  RestTyped'
<1> USE DEF TypeOK, RestTyped, stored, caches, users, loop
<1>1. CASE Refer(o)
  <2>1. budget' \in [{"edit", "mishap"} -> Nat]
    BY <1>1, SpendTyped DEF Refer
  <2> QED BY <1>1, <2>1 DEF Refer
<1>2. CASE Remove(o)
  BY <1>2 DEF Remove
<1>3. CASE Collect(o)
  BY <1>3 DEF Collect, Usages
<1>4. CASE Restore(o)
  <2>1. usage[o] \in [ref : Refs, owned : BOOLEAN]
    BY <1>4 DEF Restore, Usages
  <2>2. [usage[o] EXCEPT !.owned = FALSE] \in Usages
    BY <2>1 DEF Usages
  <2>3. budget' \in [{"edit", "mishap"} -> Nat]
    BY <1>4, SpendTyped DEF Restore
  <2> QED BY <1>4, <2>2, <2>3 DEF Restore
<1> QED BY <1>1, <1>2, <1>3, <1>4

\* A deleted config is marked, or gone if it has no finalizer.
LEMMA DeletionTyped ==
    ASSUME TypeOK, NEW c \in Configs, MarkDeleted(c)
    PROVE  RestTyped'
<1> USE DEF TypeOK, RestTyped, caches, users, loop
<1> DEFINE k == IF pc[c].finalizer THEN [pc[c] EXCEPT !.deleting = TRUE] ELSE Gone
<1>1. k \in ConfigStates
  <2>1. pc[c] \in ConfigStates /\ pc[c].present /\ ~ pc[c].deleting
    BY DEF MarkDeleted
  <2> DEFINE Dying == [Kept EXCEPT !.deleting = TRUE]
  <2>2. pc[c] \in {Bare, Kept}
    <3>1. ~ Gone.present /\ Dying.deleting
      BY DEF Gone, Bare, Kept
    <3>2. pc[c] \in {Gone, Bare, Kept, Dying}
      BY <2>1 DEF ConfigStates
    <3> HIDE DEF Dying
    <3> QED BY <2>1, <3>1, <3>2
  <2>3. CASE pc[c] = Bare
    BY <2>3 DEF ConfigStates, Bare, Gone
  <2>4. CASE pc[c] = Kept
    <3>1. k = Dying
      BY <2>4 DEF Kept, Bare, Gone
    <3> QED BY <3>1 DEF ConfigStates
  <2> QED BY <2>2, <2>3, <2>4
<1> HIDE DEF k
<1>2. pc' = [pc EXCEPT ![c] = k]
  BY DEF MarkDeleted, k
<1>3. budget' \in [{"edit", "mishap"} -> Nat]
  BY SpendTyped DEF MarkDeleted
<1> QED BY <1>1, <1>2, <1>3 DEF MarkDeleted

\* A restart begins with caches that are well-formed.
LEMMA RestartTyped ==
    ASSUME TypeOK, Restart
    PROVE  RestTyped'
<1> USE DEF TypeOK, RestTyped, stored
<1>1. budget' \in [{"edit", "mishap"} -> Nat]
  BY SpendTyped DEF Restart
<1>2. recon' \in [Configs -> Reconciles]
  BY DEF Restart, Reconciles
<1> QED BY <1>1, <1>2 DEF Restart

\* Every step keeps the types.
LEMMA NextTyped == TypeOK /\ [Next]_vars => TypeOK'
<1> SUFFICES ASSUME TypeOK, [Next]_vars PROVE TypeOK'
  OBVIOUS
<1>1. CASE UNCHANGED vars
  BY <1>1 DEF vars, TypeOK
<1>2. CASE Next
  <2>1. RestTyped'
    <3>1. ASSUME NEW o \in Objs,
                 \/ Connect(o) \/ ConnectFails(o) \/ SyncUsage(o)
                 \/ Refer(o) \/ Remove(o) \/ Collect(o) \/ Restore(o)
          PROVE  RestTyped'
      <4>1. CASE Connect(o) \/ ConnectFails(o)
        BY <4>1, ConnectTyped
      <4>2. CASE SyncUsage(o)
        BY <4>2, UsageSyncTyped
      <4>3. CASE Refer(o) \/ Remove(o) \/ Collect(o) \/ Restore(o)
        BY <4>3, ResourceTyped
      <4> QED BY <3>1, <4>1, <4>2, <4>3
    <3>2. ASSUME NEW c \in Configs,
                 SyncConfig(c) \/ Reconcile(c) \/ ReconcileFails(c) \/ MarkDeleted(c)
          PROVE  RestTyped'
      <4>1. CASE SyncConfig(c)
        BY <4>1, ConfigSyncTyped
      <4>2. CASE Reconcile(c) \/ ReconcileFails(c)
        BY <4>2, ReconcileTyped
      <4>3. CASE MarkDeleted(c)
        BY <4>3, DeletionTyped
      <4> QED BY <3>2, <4>1, <4>2, <4>3
    <3> QED BY <1>2, <3>1, <3>2, RestartTyped DEF Next
  <2>2. known' \in [Configs -> SUBSET Objs]
    <3>1. \A c \in Configs : known[c] \subseteq Objs
      BY DEF TypeOK
    <3> QED BY <1>2, <3>1 DEF Next, Remember
  <2> QED BY <2>1, <2>2 DEF RestTyped, TypeOK
<1> QED BY <1>1, <1>2

-----------------------------------------------------------------------------
(* Protection                                                               *)

\* A step that leaves c alone in the API server keeps the protection if it keeps
\* the known usages in the cache and a reconcile of c goes on, stops or starts.
LEMMA GuardKept ==
    ASSUME TypeOK, NEW c \in Configs, Guarded(c), Remember,
           pc'[c] = pc[c],
           pcCache'[c] \in {pcCache[c], pc[c]},
           \A o \in known[c] : usage'[o] = usage[o] => usageCache'[o] = usage[o],
           \/ recon'[c] = recon[c]
           \/ recon'[c] = None
           \/ /\ recon'[c].config = pcCache[c]
              /\ known[c] \subseteq recon'[c].users
    PROVE  Guarded(c)'
<1>1. known'[c] = {o \in known[c] : usage'[o] = usage[o]}
  BY DEF Remember
<1>2. \A o \in known'[c] : Seen(o, c)'
  BY <1>1 DEF Guarded, Seen, Names
<1>3. known'[c] # {} => pc'[c].present /\ pc'[c].deleting
  BY <1>1 DEF Guarded
<1>4. recon'[c] # None /\ recon'[c].config.deleting => known'[c] \subseteq recon'[c].users
  BY <1>1 DEF Guarded
<1>5. pc'[c].present /\ ~ pc'[c].deleting =>
          /\ ~ pcCache'[c].deleting
          /\ recon'[c] # None => ~ recon'[c].config.deleting
  BY DEF Guarded
<1> QED BY <1>2, <1>3, <1>4, <1>5 DEF Guarded

\* Connects, users, the garbage collector and a cache that catches up keep it.
LEMMA ResourceGuards ==
    ASSUME TypeOK, NEW c \in Configs, Guarded(c), Remember, NEW o \in Objs,
           \/ Connect(o) \/ ConnectFails(o) \/ SyncUsage(o)
           \/ Refer(o) \/ Remove(o) \/ Collect(o) \/ Restore(o)
    PROVE  Guarded(c)'
<1>1. pc' = pc /\ pcCache' = pcCache /\ recon' = recon
  BY DEF Connect, Begin, Track, TrackConflict, Dial, ConnectFails, SyncUsage, Refer,
         Remove, Collect, Restore, stored, caches, users, loop
<1>2. \A p \in known[c] : usageCache[p] = usage[p]
  BY DEF Guarded, Seen
<1>3. usageCache' = usageCache \/ SyncUsage(o)
  BY DEF Connect, Begin, Track, TrackConflict, Dial, ConnectFails, Refer,
         Remove, Collect, Restore, caches
<1>4. \A p \in known[c] : usageCache'[p] = usage[p]
  BY <1>2, <1>3 DEF SyncUsage, TypeOK
<1> QED BY <1>1, <1>4, GuardKept

\* A config's controller counts a known usage among the users.
LEMMA ListGuards ==
    ASSUME TypeOK, NEW c \in Configs, Tracked(c), Guarded(c), Remember,
           NEW d \in Configs, List(d)
    PROVE  Guarded(c)'
<1>1. pc' = pc /\ pcCache' = pcCache /\ usageCache' = usageCache
  BY DEF List, caches
<1>2. \A o \in known[c] : usageCache'[o] = usage[o]
  BY <1>1 DEF Guarded, Seen
<1>3. CASE recon' = recon \/ c # d
  <2>1. recon'[c] = recon[c]
    BY <1>3 DEF List, TypeOK
  <2> QED BY <1>1, <1>2, <2>1, GuardKept
<1>4. CASE recon' # recon /\ c = d
  <2> DEFINE unowned == {o \in Listed(c) : ~ usageCache[o].owned}
             read == [config |-> pcCache[c], users |-> Listed(c) \ unowned]
  <2>1. recon' = [recon EXCEPT ![c] = read]
    BY <1>4 DEF List
  <2>2. recon'[c] = read
    BY <2>1 DEF TypeOK
  <2>3. known[c] \subseteq Listed(c) \ unowned
    <3> SUFFICES ASSUME NEW o \in known[c]
                 PROVE  o \in Listed(c) \ unowned
      OBVIOUS
    <3>1. Seen(o, c) /\ o \in Objs
      BY DEF Guarded, TypeOK
    <3>2. o \in Listed(c) /\ usageCache[o].owned
      BY <3>1 DEF Seen, Names, Listed, Tracked
    <3> QED BY <3>2
  <2>4. recon'[c].config = pcCache[c] /\ known[c] \subseteq recon'[c].users
    BY <2>2, <2>3
  <2> QED BY <1>1, <1>2, <2>4, GuardKept
<1> QED BY <1>3, <1>4

\* A write that goes through replaces what was read, and a deleted config is let
\* go if nobody used it then.
LEMMA ConcludeGuards ==
    ASSUME TypeOK, NEW c \in Configs, Guarded(c), Remember,
           NEW d \in Configs, Conclude(d)
    PROVE  Guarded(c)'
<1>1. pcCache' = pcCache /\ usageCache' = usageCache /\ usage' = usage
  BY DEF Conclude, caches
<1>2. recon' = [recon EXCEPT ![d] = None]
  BY DEF Conclude
<1>3. recon'[c] = recon[c] \/ recon'[c] = None
  BY <1>2 DEF TypeOK
<1>4. \A o \in known[c] : usageCache'[o] = usage[o]
  BY <1>1 DEF Guarded, Seen
<1>5. CASE pc'[c] = pc[c]
  BY <1>1, <1>3, <1>4, <1>5, GuardKept
<1>6. CASE pc'[c] # pc[c]
  <2>1. /\ c = d /\ recon[c] # None /\ recon[c].config = pc[c]
        /\ pc'[c] = Outcome(c)
    BY <1>6 DEF Conclude, TypeOK
  <2>2. pc[c] \in ConfigStates \ {Gone} /\ pc[c].present
    <3>1. pc[c] \in ConfigStates /\ pc[c] # Gone
      BY <2>1 DEF TypeOK, Reconciles
    <3> QED BY <3>1 DEF ConfigStates, Gone, Bare, Kept
  <2>3. recon'[c] = None
    BY <1>2, <2>1 DEF TypeOK
  <2>4. CASE ~ pc[c].deleting
    <3>1. known[c] = {}
      BY <2>4 DEF Guarded
    <3>2. pc'[c] = [pc[c] EXCEPT !.finalizer = TRUE]
      BY <2>1, <2>4 DEF Outcome
    <3>3. ~ pc'[c].deleting /\ pc'[c].present
      BY <2>2, <2>4, <3>2 DEF ConfigStates, Gone, Bare, Kept
    <3>4. known'[c] = {}
      BY <3>1, <3>3 DEF Remember
    <3> QED BY <1>1, <2>2, <2>3, <2>4, <3>3, <3>4 DEF Guarded
  <2>5. CASE pc[c].deleting
    <3>1. pc'[c] = Gone /\ recon[c].users = {}
      BY <1>6, <2>1, <2>5 DEF Outcome
    <3>2. ~ pc'[c].deleting /\ ~ pc'[c].present
      BY <3>1 DEF Gone
    <3>3. known[c] = {}
      BY <2>1, <2>5, <3>1 DEF Guarded
    <3>4. known'[c] = {}
      BY <3>2, <3>3 DEF Remember
    <3> QED BY <2>3, <3>2, <3>4 DEF Guarded
  <2> QED BY <2>4, <2>5
<1> QED BY <1>5, <1>6

\* When a config is marked deleted nobody has seen it deleted yet.
LEMMA DeletionGuards ==
    ASSUME TypeOK, NEW c \in Configs, Guarded(c), Remember,
           NEW d \in Configs, MarkDeleted(d)
    PROVE  Guarded(c)'
<1>1. /\ pcCache' = pcCache /\ usageCache' = usageCache /\ usage' = usage
      /\ recon' = recon
  BY DEF MarkDeleted, caches, loop
<1>2. CASE c # d
  <2>1. pc'[c] = pc[c]
    BY <1>2 DEF MarkDeleted, TypeOK
  <2>2. \A o \in known[c] : usageCache'[o] = usage[o]
    BY <1>1 DEF Guarded, Seen
  <2> QED BY <1>1, <2>1, <2>2, GuardKept
<1>3. CASE c = d
  <2>1. pc[c].present /\ ~ pc[c].deleting
    BY <1>3 DEF MarkDeleted
  <2>2. ~ pcCache[c].deleting /\ (recon[c] # None => ~ recon[c].config.deleting)
    BY <2>1 DEF Guarded
  <2>3. pc[c] \in ConfigStates
    BY DEF TypeOK
  <2>4. CASE pc[c].finalizer
    <3>1. pc'[c] = [pc[c] EXCEPT !.deleting = TRUE]
      BY <1>3, <2>4 DEF MarkDeleted, TypeOK
    <3>2. pc'[c].deleting /\ pc'[c].present
      BY <2>1, <2>3, <3>1 DEF ConfigStates, Gone, Bare, Kept
    <3>3. known'[c] = {o \in Objs : Seen(o, c)}
      BY <2>1, <3>2 DEF Remember
    <3>4. \A o \in known'[c] : Seen(o, c)'
      BY <1>1, <3>3 DEF Seen, Names
    <3> QED BY <1>1, <2>2, <3>2, <3>4 DEF Guarded
  <2>5. CASE ~ pc[c].finalizer
    <3>1. pc'[c] = Gone
      BY <1>3, <2>5 DEF MarkDeleted, TypeOK
    <3>2. ~ pc'[c].deleting /\ ~ pc'[c].present
      BY <3>1 DEF Gone
    <3>3. known'[c] = {}
      BY <2>1, <3>2 DEF Remember, Guarded
    <3> QED BY <1>1, <2>2, <3>2, <3>3 DEF Guarded
  <2> QED BY <2>4, <2>5
<1> QED BY <1>2, <1>3

\* So do a cache of configs, a failed reconcile and a restart.
LEMMA OtherGuards ==
    ASSUME TypeOK, NEW c \in Configs, Guarded(c), Remember,
           \/ \E d \in Configs : SyncConfig(d) \/ ReconcileFails(d)
           \/ Restart
    PROVE  Guarded(c)'
<1>1. pc' = pc /\ usage' = usage
  BY DEF SyncConfig, ReconcileFails, Restart, stored
<1>2. pcCache'[c] \in {pcCache[c], pc[c]}
  BY DEF SyncConfig, ReconcileFails, Restart, caches, TypeOK
<1>3. recon'[c] \in {recon[c], None}
  BY DEF SyncConfig, ReconcileFails, Restart, TypeOK
<1>4. usageCache' \in {usageCache, usage}
  BY DEF SyncConfig, ReconcileFails, Restart, caches
<1>5. \A o \in known[c] : usageCache'[o] = usage[o]
  BY <1>4 DEF Guarded, Seen
<1> QED BY <1>1, <1>2, <1>3, <1>5, GuardKept

-----------------------------------------------------------------------------
(* Results                                                                  *)

\* Every step keeps what protects the known usages.
LEMMA NextGuards ==
    ASSUME IInv, [Next]_vars, NEW c \in Configs, Tracked(c)
    PROVE  Guarded(c)'
<1> USE DEF IInv
<1>1. CASE UNCHANGED vars
  BY <1>1 DEF vars, Guarded, Seen, Names
<1>2. CASE Next
  <2> USE <1>2 DEF Next
  <2>1. ASSUME NEW o \in Objs,
               \/ Connect(o) \/ ConnectFails(o) \/ SyncUsage(o)
               \/ Refer(o) \/ Remove(o) \/ Collect(o) \/ Restore(o)
        PROVE  Guarded(c)'
    BY <2>1, ResourceGuards
  <2>2. ASSUME NEW d \in Configs, List(d)
        PROVE  Guarded(c)'
    BY <2>2, ListGuards
  <2>3. ASSUME NEW d \in Configs, Conclude(d)
        PROVE  Guarded(c)'
    BY <2>3, ConcludeGuards
  <2>4. ASSUME NEW d \in Configs, MarkDeleted(d)
        PROVE  Guarded(c)'
    BY <2>4, DeletionGuards
  <2>5. ASSUME \/ \E d \in Configs : SyncConfig(d) \/ ReconcileFails(d)
               \/ Restart
        PROVE  Guarded(c)'
    BY <2>5, OtherGuards
  <2> QED BY <2>1, <2>2, <2>3, <2>4, <2>5 DEF Reconcile
<1> QED BY <1>1, <1>2

\* At first no usage is known and none needs to be protected.
LEMMA InitGuards == Init => \A c \in Configs : Guarded(c)
BY DEF Init, Guarded, Gone, Bare, Kept

\* The inductive invariant holds in every behaviour.
LEMMA Invariance == Spec => []IInv
<1>1. Init => IInv
  BY InitTyped, InitGuards DEF IInv
<1>2. IInv /\ [Next]_vars => IInv'
  <2> SUFFICES ASSUME IInv, [Next]_vars PROVE IInv'
    OBVIOUS
  <2>1. TypeOK'
    BY NextTyped DEF IInv
  <2>2. \A c \in Configs : Tracked(c) => Guarded(c)'
    BY NextGuards
  <2>3. \A c \in Configs : Tracked(c)' = Tracked(c)
    BY DEF Tracked, UsageKind, TrackedUsage
  <2> QED BY <2>1, <2>2, <2>3 DEF IInv
<1> QED BY <1>1, <1>2, PTL DEF Spec

\* The state of configs, usages, caches, connects and reconciles stays well-formed.
THEOREM UsageTypeCorrect == Spec => []TypeOK
<1>1. IInv => TypeOK
  BY DEF IInv
<1> QED BY <1>1, Invariance, PTL

\* A deleted config stays as long as a usage does that the provider knew of, if
\* the configs are namespaced, as those are whose consumers are tracked.
THEOREM KnownUseIsProtected ==
    ASSUME \A c \in Configs : ConfigKind[c] = "ProviderConfig"
    PROVE  Spec => []KnownUseProtects
<1>1. \A c \in Configs : Tracked(c)
  BY DEF Tracked, UsageKind, TrackedUsage
<1>2. IInv => KnownUseProtects
  BY <1>1 DEF IInv, Guarded, KnownUseProtects
<1> QED BY <1>2, Invariance, PTL



-----------------------------------------------------------------------------
(* Connections                                                              *)

\* The connection k is one config c allows: to its endpoint, in the clear only if
\* it says insecure, with roots and a client certificate that are usable and that
\* come from the secret it names, in the namespace it names.
Allowed(k, c) ==
    /\ k.endpoint = TrimSpace(SpecOf[c].endpoint)
    /\ k.tls = ~ SpecOf[c].insecure
    /\ k.roots # "" \/ k.mutual =>
          /\ k.tls
          /\ \E s \in CredentialsSecret(SecretsIn, ConfigRecord(c)) :
                /\ k.roots # "" => /\ k.roots = "good"
                                   /\ k.roots \in {s.data["ca.crt"], s.data["ca.pem"]}
                /\ k.mutual => /\ "good" \in {s.data["tls.crt"], s.data["client.crt"]}
                               /\ "good" \in {s.data["tls.key"], s.data["client.key"]}

ConnectionsAllowed == \A o \in Objs : \A k \in conn[o] : \E c \in Configs : Allowed(k, c)

\* What Dial opens is what the config it reads allows.
LEMMA OpenAllowed ==
    ASSUME NEW c \in Configs,
           NEW m \in loadTLSMaterial(SecretsIn, ConfigRecord(c)),
           Usable(ConfigRecord(c), m)
    PROVE  Allowed(Connection(ConfigRecord(c), m), c)
<1> DEFINE d == ConfigRecord(c)
           k == Connection(d, m)
<1>1. /\ d.endpoint = SpecOf[c].endpoint /\ d.insecure = SpecOf[c].insecure
      /\ SpecOf[c].insecure \in BOOLEAN
  BY SpecAssumption DEF ConfigRecord
<1>2. /\ k.endpoint = TrimSpace(d.endpoint)
      /\ k.tls = ~ d.insecure
      /\ k.roots = (IF d.insecure THEN "" ELSE m.ca)
      /\ k.mutual = (~ d.insecure /\ HasPair(m))
  BY DEF Connection
<1> HIDE DEF d, k
<1>3. ASSUME k.roots # "" \/ k.mutual
      PROVE  /\ ~ d.insecure
             /\ m.ca # "" \/ HasPair(m)
             /\ k.roots = m.ca
             /\ k.mutual = HasPair(m)
  <2>1. ~ d.insecure
    BY <1>2, <1>3, Zenon
  <2>2. k.roots = m.ca
    BY <1>2, <2>1, Zenon
  <2>3. k.mutual = HasPair(m)
    BY <1>2, <2>1, Zenon DEF HasPair
  <2> QED BY <1>3, <2>1, <2>2, <2>3, Zenon
<1>4. ASSUME ~ d.insecure, m.ca # "" \/ HasPair(m)
      PROVE  \E s \in CredentialsSecret(SecretsIn, d) : m = SecretMaterial(s.data)
  <2>1. CASE d.source = "None"
    <3>1. loadTLSMaterial(SecretsIn, d) = {[ca |-> "", cert |-> "", key |-> ""]}
      BY <2>1, Zenon DEF loadTLSMaterial
    <3>2. m = [ca |-> "", cert |-> "", key |-> ""]
      BY <3>1, Zenon DEF d
    <3>3. m.ca = "" /\ m.cert = ""
      BY <3>2, Zenon
    <3> QED BY <1>4, <3>3, Zenon DEF HasPair
  <2>2. CASE d.source = "Secret"
    BY <2>2 DEF loadTLSMaterial, d
  <2>3. CASE d.source \notin {"None", "Secret"}
    BY <2>3 DEF loadTLSMaterial, d
  <2> QED BY <2>1, <2>2, <2>3
<1>5. ASSUME k.roots # "" \/ k.mutual
      PROVE  /\ k.tls
             /\ \E s \in CredentialsSecret(SecretsIn, d) :
                   /\ k.roots # "" => /\ k.roots = "good"
                                      /\ k.roots \in {s.data["ca.crt"], s.data["ca.pem"]}
                   /\ k.mutual => /\ "good" \in {s.data["tls.crt"], s.data["client.crt"]}
                                  /\ "good" \in {s.data["tls.key"], s.data["client.key"]}
  <2>1. ~ d.insecure /\ (m.ca # "" \/ HasPair(m))
    BY <1>3, <1>5
  <2>2. PICK s \in CredentialsSecret(SecretsIn, d) : m = SecretMaterial(s.data)
    BY <1>4, <2>1
  <2>3. s.data \in [SecretKeys -> Pems]
    BY <2>2, SecretsAssumption DEF CredentialsSecret, Secrets
  <2>4. /\ m.ca \in {s.data["ca.crt"], s.data["ca.pem"]}
        /\ m.cert \in {s.data["tls.crt"], s.data["client.crt"]}
        /\ m.key \in {s.data["tls.key"], s.data["client.key"]}
    BY <2>2, Zenon DEF SecretMaterial, firstKey
  <2>5. m.ca \in Pems /\ m.cert \in Pems /\ m.key \in Pems
    BY <2>3, <2>4 DEF SecretKeys
  <2>6. m.ca # "bad" /\ (HasPair(m) => m.cert # "bad" /\ m.key # "bad")
    BY <2>1, Zenon DEF Usable, d
  <2>7. m.ca # "" => m.ca = "good"
    BY <2>5, <2>6, Zenon DEF Pems
  <2>8. HasPair(m) => m.cert = "good" /\ m.key = "good"
    BY <2>5, <2>6, Zenon DEF Pems, HasPair
  <2>9. k.roots = m.ca /\ k.mutual = HasPair(m)
    BY <1>3, <1>5
  <2>10. k.tls
    BY <1>2, <2>1
  <2> QED BY <2>2, <2>4, <2>7, <2>8, <2>9, <2>10, Zenon
<1>6. k.endpoint = TrimSpace(SpecOf[c].endpoint) /\ k.tls = ~ SpecOf[c].insecure
  BY <1>1, <1>2, Zenon
<1>7. Allowed(k, c)
  BY <1>5, <1>6, Zenon DEF Allowed, d
<1> QED BY <1>7, Zenon DEF k, d

\* No resource is ever connected but as one of the configs says: no credentials leave
\* in the clear, none come from a secret of another name or namespace, and unusable
\* ones open nothing, whatever caches, references and restarts do.
THEOREM ConnectionsAreAllowed == Spec => []ConnectionsAllowed
<1>1. Init => ConnectionsAllowed
  BY DEF Init, ConnectionsAllowed
<1>2. ConnectionsAllowed /\ [Next]_vars => ConnectionsAllowed'
  <2> SUFFICES ASSUME ConnectionsAllowed, [Next]_vars
               PROVE  ConnectionsAllowed'
    OBVIOUS
  <2>1. CASE UNCHANGED conn
    BY <2>1 DEF ConnectionsAllowed
  <2>2. ASSUME NEW o \in Objs, Dial(o)
        PROVE  ConnectionsAllowed'
    <3>1. conn' = [conn EXCEPT ![o] = Open(CachedConfigs, SecretsIn, job[o].ref, Namespace)]
      BY <2>2 DEF Dial
    <3>2. ASSUME NEW k \in Open(CachedConfigs, SecretsIn, job[o].ref, Namespace)
          PROVE  \E c \in Configs : Allowed(k, c)
      <4>1. PICK d \in CachedConfigs : \E m \in loadTLSMaterial(SecretsIn, d) :
               Usable(d, m) /\ k = Connection(d, m)
        BY <3>2 DEF Open, Referenced
      <4>2. PICK c \in Configs : d = ConfigRecord(c)
        BY DEF CachedConfigs
      <4>3. PICK m \in loadTLSMaterial(SecretsIn, d) : Usable(d, m) /\ k = Connection(d, m)
        BY <4>1
      <4>4. Allowed(Connection(ConfigRecord(c), m), c)
        BY <4>2, <4>3, OpenAllowed
      <4> QED BY <4>2, <4>3, <4>4
    <3>3. \A p \in Objs : \A k \in conn'[p] : k \in conn[p]
             \/ k \in Open(CachedConfigs, SecretsIn, job[o].ref, Namespace)
      BY <3>1
    <3> QED BY <3>2, <3>3 DEF ConnectionsAllowed
  <2> QED BY <2>1, <2>2 DEF Next, Connect, Begin, Track, TrackConflict, ConnectFails,
             SyncUsage, Refer, Remove, Collect, Restore, SyncConfig, Reconcile, List,
             Conclude, ReconcileFails, MarkDeleted, Restart, users, vars
<1> QED BY <1>1, <1>2, PTL DEF Spec

=============================================================================

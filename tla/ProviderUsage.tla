---------------------------- MODULE ProviderUsage ----------------------------
(***************************************************************************)
(* Provider configs and the resources that connect through them: Connect of*)
(* the six controllers records a usage and dials; the controllers of       *)
(* internal/controller/config keep a deleted config while it has usages.   *)
(* Both work from the caches of one manager, which lag behind the API      *)
(* server.  Everything is in one namespace, and configs have distinct      *)
(* names.  A resource that is created anew is another resource: usages are *)
(* named after the uid.                                                    *)
(*                                                                         *)
(*   pc, usage    configs and usages in the API server (usages by uid)     *)
(*   pcCache, usageCache   what the manager's caches hold of them          *)
(*   mr      the managed resources and the configs they refer to           *)
(*   job     the connect of each resource: where it is, for which reference*)
(*   conn    the connection it has led to, if any                          *)
(*   queue   configs waiting to be reconciled                              *)
(*   recon   what a reconcile of a config has read                         *)
(*   known   history: of a deleted config, the usages that were in API     *)
(*           server and cache when it was deleted and are unchanged        *)
(*   budget  how many edits and mishaps are left                           *)
(*                                                                         *)
(* A write goes through if the cached object is the stored one: no config  *)
(* or usage ever comes back to contents the cache has not caught up with.  *)
(***************************************************************************)
EXTENDS Integers, Dial

CONSTANTS
    Objs,       \* the managed resources, by uid
    Configs,    \* the names of the provider configs
    ConfigKind, \* their kinds
    SpecOf,     \* their endpoint, insecure flag and credentials
    SecretsIn,  \* the secrets of the cluster
    Refs,       \* the references a user may write to a resource (a bound)
    Namespace,  \* the namespace of it all
    Settled,    \* the configs that have been reconciled before it begins
    Budget,     \* the initial budget (a bound)
    None

ASSUME ConfigAssumption == ConfigKind \in [Configs -> ConfigKinds]

ASSUME SpecAssumption ==
    SpecOf \in [Configs -> [endpoint : STRING, insecure : BOOLEAN, source : STRING,
                            secretRef : SUBSET [name : STRING, namespace : STRING]]]

ASSUME SecretsAssumption == SecretsIn \subseteq Secrets

ASSUME SettledAssumption == Settled \subseteq Configs

ASSUME RefsAssumption ==
    /\ Refs \subseteq References
    /\ \A ref \in Refs : ref.name \in Configs

ASSUME BudgetAssumption == Budget \in [{"edit", "mishap"} -> Nat]

VARIABLES pc, usage, pcCache, usageCache, mr, job, conn, queue, recon, known, budget

stored == <<pc, usage>>
caches == <<pcCache, usageCache>>
users  == <<mr, job, conn>>
loop   == <<queue, recon>>
vars   == <<pc, usage, pcCache, usageCache, mr, job, conn, queue, recon, known, budget>>

-----------------------------------------------------------------------------

Gone  == [present |-> FALSE, deleting |-> FALSE, finalizer |-> FALSE]
Bare  == [Gone EXCEPT !.present = TRUE]
Kept  == [Bare EXCEPT !.finalizer = TRUE]
Quiet == [at |-> "idle", ref |-> None]

Init ==
    /\ pc = [c \in Configs |-> IF c \in Settled THEN Kept ELSE Bare]
    /\ usage = [o \in Objs |-> None]
    /\ pcCache = [c \in Configs |-> IF c \in Settled THEN Kept ELSE Gone]
    /\ usageCache = [o \in Objs |-> None]
    /\ mr = [o \in Objs |-> [life |-> "new", ref |-> None]]
    /\ job = [o \in Objs |-> Quiet]
    /\ conn = [o \in Objs |-> {}]
    /\ queue = {}
    /\ recon = [c \in Configs |-> None]
    /\ known = [c \in Configs |-> {}]
    /\ budget = Budget

Spend(kind) == budget[kind] > 0 /\ budget' = [budget EXCEPT ![kind] = @ - 1]

\* The kind of usage each connector is given by its Setup.
TrackedUsage == "ProviderConfigUsage"

\* A slip: the controllers of the two kinds of config have their usages swapped.
UsageKindSwapped(c) ==
    IF ConfigKind[c] = "ProviderConfig" THEN "ClusterProviderConfigUsage"
    ELSE "ProviderConfigUsage"

\* The kind of usage a config's controller lists and watches.
UsageKind(c) ==
    IF ConfigKind[c] = "ProviderConfig" THEN "ProviderConfigUsage"
    ELSE "ClusterProviderConfigUsage"

\* The usage of o among those is one of config c.
Names(usages, o, c) == usages[o] # None /\ usages[o].ref.name = c

\* The usages the cache lists for a config's controller.
Listed(c) == {o \in Objs : UsageKind(c) = TrackedUsage /\ Names(usageCache, o, c)}

-----------------------------------------------------------------------------
(* Connect                                                                  *)

\* The resource's turn in the managed reconcile, up to Connect.
Begin(o) ==
    /\ job[o].at = "idle"
    /\ mr[o].life = "present"
    /\ job' = [job EXCEPT ![o] = [at |-> "track", ref |-> mr[o].ref]]
    /\ UNCHANGED <<stored, caches, mr, conn, loop, budget>>

\* The usage has to be written: there is none, or it is of another reference.
Writes(o) == usageCache[o] \notin [ref : {job[o].ref}, owned : BOOLEAN]

\* A slip: a usage is there, of whatever reference, and is left alone.
TrackOnce(o) ==
    /\ job[o].at = "track"
    /\ \/ /\ usageCache[o] = None
          /\ usage[o] = None
          /\ usage' = [usage EXCEPT ![o] = [ref |-> job[o].ref, owned |-> TRUE]]
       \/ usageCache[o] # None /\ UNCHANGED usage
    /\ job' = [job EXCEPT ![o].at = "dial"]
    /\ UNCHANGED <<pc, caches, mr, conn, loop, budget>>

\* c.usage.Track: one usage per resource, owned by it.
Track(o) ==
    /\ job[o].at = "track"
    /\ \/ /\ Writes(o)
          /\ usageCache[o] = usage[o]
          /\ usage' = [usage EXCEPT ![o] = [ref |-> job[o].ref, owned |-> TRUE]]
       \/ ~ Writes(o) /\ UNCHANGED usage
    /\ job' = [job EXCEPT ![o].at = "dial"]
    /\ UNCHANGED <<pc, caches, mr, conn, loop, budget>>

\* The usage exists already or is not the one in the cache: try again later.
TrackConflict(o) ==
    /\ job[o].at = "track"
    /\ Writes(o)
    /\ usageCache[o] # usage[o]
    /\ job' = [job EXCEPT ![o] = Quiet]
    /\ UNCHANGED <<stored, caches, mr, conn, loop, budget>>

\* The configs as Dial's kube client reads them.
ConfigRecord(c) ==
    [kind |-> ConfigKind[c], name |-> c,
     namespace |-> IF ConfigKind[c] = "ProviderConfig" THEN Namespace ELSE "",
     endpoint |-> SpecOf[c].endpoint, insecure |-> SpecOf[c].insecure,
     source |-> SpecOf[c].source, secretRef |-> SpecOf[c].secretRef]

CachedConfigs == {ConfigRecord(c) : c \in {x \in Configs : pcCache[x].present}}

Dial(o) ==
    /\ job[o].at = "dial"
    /\ conn' = [conn EXCEPT ![o] = Open(CachedConfigs, SecretsIn, job[o].ref, Namespace)]
    /\ job' = [job EXCEPT ![o] = Quiet]
    /\ UNCHANGED <<stored, caches, mr, loop, budget>>

ConnectFails(o) ==
    /\ job[o].at \in {"track", "dial"}
    /\ Spend("mishap")
    /\ job' = [job EXCEPT ![o] = Quiet]
    /\ UNCHANGED <<stored, caches, mr, conn, loop>>

-----------------------------------------------------------------------------
(* The caches, and the events they give rise to.                            *)

SyncConfig(c) ==
    /\ pcCache[c] # pc[c]
    /\ pcCache' = [pcCache EXCEPT ![c] = pc[c]]
    /\ queue' = queue \cup {c}
    /\ UNCHANGED <<stored, usageCache, users, recon, budget>>

\* A slip: a config's controller does not watch the usages.
SyncUsageUnwatched(o) ==
    /\ usageCache[o] # usage[o]
    /\ usageCache' = [usageCache EXCEPT ![o] = usage[o]]
    /\ UNCHANGED <<stored, pcCache, users, loop, budget>>

\* A watched usage that appears, changes or goes enqueues the configs it named
\* before and names now.
SyncUsage(o) ==
    /\ usageCache[o] # usage[o]
    /\ usageCache' = [usageCache EXCEPT ![o] = usage[o]]
    /\ queue' = queue \cup {c \in Configs :
                               /\ UsageKind(c) = TrackedUsage
                               /\ Names(usageCache, o, c) \/ Names(usage, o, c)}
    /\ UNCHANGED <<stored, pcCache, users, recon, budget>>

-----------------------------------------------------------------------------
(* The reconciler of crossplane-runtime's providerconfig package.           *)

\* Read the config and list its usages.  One without an owner is deleted: it
\* comes from a restored backup and is made anew if it is needed.
List(c) ==
    LET unowned == {o \in Listed(c) : ~ usageCache[o].owned}
    IN  /\ c \in queue
        /\ recon[c] = None
        /\ queue' = queue \ {c}
        /\ IF pcCache[c].present
           THEN /\ recon' = [recon EXCEPT ![c] = [config |-> pcCache[c],
                                                  users  |-> Listed(c) \ unowned]]
                /\ usage' = [o \in Objs |-> IF o \in unowned THEN None ELSE usage[o]]
           ELSE UNCHANGED <<recon, usage>>
        /\ UNCHANGED <<pc, caches, users, budget>>

\* A slip: the finalizer of a deleted config is taken away by an update only.
OutcomeWithoutEnd(c) ==
    LET k == recon[c].config
    IN  IF ~ k.deleting THEN [k EXCEPT !.finalizer = TRUE]
        ELSE [k EXCEPT !.finalizer = recon[c].users # {}]

\* What the reconcile wants the config to be.
Outcome(c) ==
    LET k == recon[c].config
    IN  IF ~ k.deleting THEN [k EXCEPT !.finalizer = TRUE]
        ELSE IF recon[c].users = {} THEN Gone ELSE k

\* A deleted config with users stays, and nobody looks again until an event of
\* one of its usages.  A write from an old copy fails and is tried again.
Conclude(c) ==
    /\ recon[c] # None
    /\ \/ /\ Outcome(c) = recon[c].config
          /\ UNCHANGED <<pc, queue>>
       \/ /\ Outcome(c) # recon[c].config
          /\ recon[c].config = pc[c]
          /\ pc' = [pc EXCEPT ![c] = Outcome(c)]
          /\ UNCHANGED queue
       \/ /\ Outcome(c) # recon[c].config
          /\ recon[c].config # pc[c]
          /\ queue' = queue \cup {c}
          /\ UNCHANGED pc
    /\ recon' = [recon EXCEPT ![c] = None]
    /\ UNCHANGED <<usage, caches, users, budget>>

ReconcileFails(c) ==
    /\ recon[c] # None
    /\ Spend("mishap")
    /\ queue' = queue \cup {c}
    /\ recon' = [recon EXCEPT ![c] = None]
    /\ UNCHANGED <<stored, caches, users>>

\* The provider restarts: it lists everything and reconciles every config.
Restart ==
    /\ Spend("mishap")
    /\ pcCache' = pc
    /\ usageCache' = usage
    /\ job' = [o \in Objs |-> Quiet]
    /\ queue' = {c \in Configs : pc[c].present}
    /\ recon' = [c \in Configs |-> None]
    /\ UNCHANGED <<stored, mr, conn>>

-----------------------------------------------------------------------------
(* Users and the rest of the cluster                                        *)

\* A resource is applied, or its reference edited.
Refer(o) ==
    /\ mr[o].life \in {"new", "present"}
    /\ Spend("edit")
    /\ \E ref \in Refs \ {mr[o].ref} :
          mr' = [mr EXCEPT ![o] = [life |-> "present", ref |-> ref]]
    /\ UNCHANGED <<stored, caches, job, conn, loop>>

\* It is deleted, and its finalizer has gone.
Remove(o) ==
    /\ mr[o].life = "present"
    /\ mr' = [mr EXCEPT ![o] = [life |-> "gone", ref |-> None]]
    /\ UNCHANGED <<stored, caches, job, conn, loop, budget>>

MarkDeleted(c) ==
    /\ pc[c].present
    /\ ~ pc[c].deleting
    /\ Spend("edit")
    /\ pc' = [pc EXCEPT ![c] = IF @.finalizer THEN [@ EXCEPT !.deleting = TRUE] ELSE Gone]
    /\ UNCHANGED <<usage, caches, users, loop>>

\* Kubernetes' garbage collector removes what belonged to a resource.
Collect(o) ==
    /\ mr[o].life = "gone"
    /\ usage[o] # None
    /\ usage[o].owned
    /\ usage' = [usage EXCEPT ![o] = None]
    /\ UNCHANGED <<pc, caches, users, loop, budget>>

\* A usage is restored from a backup, without its owner.
Restore(o) ==
    /\ usage[o] # None
    /\ usage[o].owned
    /\ Spend("mishap")
    /\ usage' = [usage EXCEPT ![o].owned = FALSE]
    /\ UNCHANGED <<pc, caches, users, loop>>

-----------------------------------------------------------------------------

\* Stored, owned, and in the cache as well.
Seen(o, c) == Names(usage, o, c) /\ usage[o].owned /\ usageCache[o] = usage[o]

Remember ==
    known' = [c \in Configs |->
                 IF pc'[c].deleting /\ ~ pc[c].deleting
                 THEN {o \in Objs : Seen(o, c)}
                 ELSE {o \in known[c] : usage'[o] = usage[o]}]

Connect(o) == Begin(o) \/ Track(o) \/ TrackConflict(o) \/ Dial(o)

Reconcile(c) == List(c) \/ Conclude(c)

Next ==
    /\ \/ \E o \in Objs : \/ Connect(o) \/ ConnectFails(o) \/ SyncUsage(o)
                          \/ Refer(o) \/ Remove(o) \/ Collect(o) \/ Restore(o)
       \/ \E c \in Configs : \/ SyncConfig(c) \/ Reconcile(c) \/ ReconcileFails(c)
                             \/ MarkDeleted(c)
       \/ Restart
    /\ Remember

Spec == Init /\ [][Next]_vars

\* Every resource is connected again and again (watches and the poll interval),
\* the caches catch up, queued configs are reconciled, and Kubernetes collects
\* its garbage.  The hourly resync of the caches is left out: nothing waits for it.
Fairness ==
    /\ \A o \in Objs : /\ WF_vars(Connect(o) /\ Remember)
                       /\ WF_vars(SyncUsage(o) /\ Remember)
                       /\ WF_vars(Collect(o) /\ Remember)
    /\ \A c \in Configs : /\ WF_vars(SyncConfig(c) /\ Remember)
                          /\ WF_vars(Reconcile(c) /\ Remember)

FairSpec == Spec /\ Fairness

-----------------------------------------------------------------------------
(* Correctness                                                              *)

\* Only a config with its finalizer is there and deleted.
ConfigStates == {Gone, Bare, Kept, [Kept EXCEPT !.deleting = TRUE]}

Usages == {None} \cup [ref : Refs, owned : BOOLEAN]

\* Configs that are not there are not reconciled.
Reconciles == {None} \cup [config : ConfigStates \ {Gone}, users : SUBSET Objs]

TypeOK ==
    /\ pc \in [Configs -> ConfigStates]
    /\ usage \in [Objs -> Usages]
    /\ pcCache \in [Configs -> ConfigStates]
    /\ usageCache \in [Objs -> Usages]
    /\ mr \in [Objs -> [life : {"new", "gone"}, ref : {None}]
                          \cup [life : {"present"}, ref : Refs]]
    /\ job \in [Objs -> {Quiet} \cup [at : {"track", "dial"}, ref : Refs]]
    /\ conn \in [Objs -> SUBSET Connections]
    /\ queue \subseteq Configs
    /\ recon \in [Configs -> Reconciles]
    /\ known \in [Configs -> SUBSET Objs]
    /\ budget \in [{"edit", "mishap"} -> Nat]

\* A deleted config stays as long as a usage does that the provider knew of when
\* the config was deleted, through lagging caches, conflicts, references that
\* move to other configs and back, failures and restarts.
KnownUseProtects ==
    \A c \in Configs : known[c] # {} => pc[c].present

\* Whatever config a resource refers to in the end, its usage says so: it follows
\* an edited reference, and comes back when it was lost.
UsageFollows ==
    \A o \in Objs : <>[](mr[o].life = "present" =>
        usage[o] # None /\ usage[o].ref = mr[o].ref)

\* A deleted config goes when its last usage has gone.
UnusedConfigGoes ==
    \A c \in Configs : <>[](pc[c].deleting => \E o \in Objs : Names(usage, o, c))

\* A config's secret has both halves of a key pair, under whichever names.
HasKeyPair(c) ==
    \E s \in SecretsIn :
        /\ s.name \in {r.name : r \in SpecOf[c].secretRef}
        /\ "good" \in {s.data["tls.crt"], s.data["client.crt"]}
        /\ "good" \in {s.data["tls.key"], s.data["client.key"]}

\* README.md:44: in the end a resource is connected through the config it refers
\* to, in plaintext if and only if that says insecure, and with the client
\* certificate of its secret otherwise.
ConnectsAsConfigured ==
    \A o \in Objs : \A c \in Configs :
        <>[](mr[o].life = "present" /\ mr[o].ref.name = c /\ pc[c].present =>
                \E k \in conn[o] : /\ k.endpoint = TrimSpace(SpecOf[c].endpoint)
                                   /\ k.tls = ~ SpecOf[c].insecure
                                   /\ k.mutual = (k.tls /\ HasKeyPair(c)))

-----------------------------------------------------------------------------
(* What documents of the repository say and the code does not do            *)

\* types_provider.go:112: a ClusterProviderConfig has its consumers tracked, so
\* one that is in use is not removed.
ConsumersAreTracked ==
    \A c \in Configs : ConfigKind[c] = "ClusterProviderConfig" /\ known[c] # {} =>
        pc[c].present

\* types_provider.go:32: with insecure set, credentials are optional.
InsecureConnects ==
    \A o \in Objs : \A c \in Configs :
        <>[](mr[o].life = "present" /\ mr[o].ref.name = c /\ pc[c].present
                /\ SpecOf[c].insecure => conn[o] # {})

=============================================================================

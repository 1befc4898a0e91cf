# A verification of kcore-crossplane

TLA+ models of the Crossplane provider for kcore, the TLC configurations that check them and
TLAPS proofs about them. Paths are relative to the root of the repository.

## The system

The provider is a Kubernetes controller manager. Users write custom resources (VirtualMachine,
Workload, Network, SecurityGroup, SecurityGroupAttachment, SSHKey); the provider makes the kcore
controller, a gRPC service, hold what they ask for. Each kind has an *external client* with the
handlers Connect, Observe, Create, Update, Delete. The *managed reconciler* of crossplane-runtime
(v2.0.0, a dependency) calls them and reads and writes the resource in the Kubernetes API server.

| component | source | state | operations | talks to |
|---|---|---|---|---|
| manager start-up | `cmd/provider/main.go`, `internal/controller/register.go` | flags, work queues | start the controllers | everything |
| managed reconcile loop | `Setup` of each controller (loop in crossplane-runtime) | the resource's finalizer, external-name and create-pending/succeeded/failed annotations; one copy per worker | initialise, observe, create, update, finalize, requeue | API server, external client |
| VirtualMachine | `internal/controller/vm` | id in the external name, status | GetVm, CreateVm, UpdateVm, DeleteVm | kcore controller |
| Workload | `internal/controller/workload` | id in the external name, status | GetWorkload, CreateWorkload, DeleteWorkload | kcore controller |
| Network | `internal/controller/network` | name in the external name, status | ListNetworks, CreateNetwork, DeleteNetwork | kcore controller |
| SecurityGroup | `internal/controller/securitygroup` | name, status | GetSecurityGroup, CreateSecurityGroup, DeleteSecurityGroup | kcore controller |
| SecurityGroupAttachment | `internal/controller/securitygroupattachment` | a key made of the spec, status | GetSecurityGroup, AttachSecurityGroup, DetachSecurityGroup | kcore controller |
| SSHKey | `internal/controller/sshkey` | name, status | GetSshKey, CreateSshKey, DeleteSshKey | kcore controller |
| enum mapping | `internal/controller/kcore/enum.go` | - | five pure functions from free text to enums | the controllers |
| connection | `Connect` of each controller, `internal/controller/kcore/dial.go` | a usage per resource, a connection | track the usage; pick the provider config, its secret and TLS material; dial | API server, kcore controller |
| ProviderConfig controllers | `internal/controller/config/setup.go` | a finalizer on the config | keep a deleted config while it has usages | API server |
| kcore controller | `proto/kcore/controller/v1` (service not in the repository) | tables of VMs, workloads, networks, groups, attachments, keys | idempotent upserts, lookups, deletions | the provider and other clients |

What is hard: several workers, and several provider processes during a rolling update, because
leader election is off by default (`main.go:42`); calls whose answer is lost or whose effect comes
late; a crash between a creation and its record; copies of a resource, and caches, that are stale
when they are used; edits and deletions in the middle of a reconcile; other clients of the same
service; the order in which a group and its attachment appear; names that are trimmed in one place
and not in another; and handlers that compare other fields than they send. `PROJECT.json` lists
these hazards with their lines.

What makes each part correct:

- *reconcile loop*: one creation of a resource at a time, recorded in a resource that still
  exists; no second VM after a lost answer or a crash; convergence; a deletion ends.
- *controllers*: an observation says "absent" only if the thing is absent; what is created is found
  again, in full; what is deleted is gone, and nothing else with it; what is shown is true.
- *enum mapping*: every string has an enum.
- *connection*: the connection is to the endpoint and with the credentials of the config; the usage
  follows the reference.
- *ProviderConfig controllers*: a config in use is not removed, an unused one is.

## The modules

    Enums <- Messages <- KcoreController <- VirtualMachine, Workload, Network,
                             SecurityGroup, SecurityGroupAttachment, SSHKey
                               <- (INSTANCE) Handlers <- ManagedReconcile <- Correctness
                                                 |            CreationLock <- (INSTANCE) '
                                                 |                           <- MCVm, MCKinds
                                                 ` <- ExternalClient <- MCClient
    Enums <- Dial <- ProviderUsage <- MCUsage

    ServiceProofs <- HandlersProofs <- ManagedReconcileProofs <- LockingProofs
                                    |                         <- OwnershipProofs
                                    ` <- ExternalClientProofs
    CreationLockProofs, ProviderUsageProofs

**Enums** is `enum.go`. Strings are opaque; `Trimmed` and `Lowered` say what
`strings.TrimSpace` and `strings.ToLower` make of the raw strings an instance uses, so that
conversions are modelled where properties can tell (" Stopped " is STOPPED).

**Messages** has the requests, answers and rows as record sets, from the proto file and its
generated code: the fields the handlers fill or read.

**KcoreController** is the service as the provider uses it: tables as sets of records, one operator
per RPC that yields the possible pairs of a new database and an answer. Create RPCs are upserts
(`controller.proto:188`), VMs and workloads are found again by name and keep their id. UpdateVm
leaves a field alone that is 0 (`:241`). Deleting what is not there answers NotFound. `Interference`
is what other clients do: remove a row, stop or start a VM or a workload, resize a VM; `Failures`
puts a VM into ERROR. The ghost field `by` remembers the custom resource a row was written for; only
properties read it. This module is an assumption about a program that is not here; everything else
is translated from the repository or from what it calls.

**VirtualMachine, ..., SSHKey** hold one operator per handler: `lookupRequest` is the call Observe
makes, `Observe` turns its answer into "error", "absent", "drifted" or "current" (the
ExternalObservation and the error), `CreateValid` the checks before the call, `createRequest` the
request with its conversions, `CreatedName` the external name Create sets, `Update` and `Delete` the
sets of calls these make (empty when they make none), `DeleteDone` whether Delete reports success,
`Observed` and `Created` the states they put into the status. **Handlers** picks by kind and adds
the Ready condition.

**ManagedReconcile** is the core. Its state:

| variable | stands for |
|---|---|
| `kube` | each custom resource in the API server: deletion mark, finalizer, external name, the newest of the three create annotations, the spec |
| `work` | each worker: its phase, its copy of one resource, whether that copy is still the stored version |
| `db` | the service's tables |
| `stray` | calls whose client gave up and that may still take effect |
| `budget` | what is left of edits, faults, crashes and outside interference (a bound) |

A reconcile is a sequence of actions, one per read, write or call: `Get` (stops at an incomplete
creation), `Initialize` (metadata.name becomes the external name), `ObserveExternal`,
`AddFinalizer`, then `MarkPending`, a `Create...` action and a `Record...` action, or an
`Update...`, or `RemoveFinalizer`. Writes of a whole copy need a fresh one (the API server's
resourceVersion check), otherwise `Conflict`; `Record...` merge the critical annotations into the
newest version with retries, as crossplane-runtime does. Failures are actions of their own:
`ObserveFaulty`, `CreateUnanswered`, `UpdateUnanswered` (the call took effect, will, or never
does), `GiveUp` (connecting, any write, or the record of a creation), `Crash`. Users apply, edit
and delete resources; `Drift` is the outside interference.

One operation is an assumption about people: `ClearPending`. A creation that stopped between its
two annotations blocks its resource until somebody takes the pending annotation away; the model
lets them, when no worker is still inside that creation. If somebody did it earlier, exclusion
would not hold, by design of crossplane-runtime.

**CreationLock** is the abstract specification of what these annotations promise, without copies,
versions, calls or answers: the pending annotation is a lock, nobody takes the lock of a resource
that is not under its finalizer, a locked resource does not go, and only the holder, as it returns
the lock, writes a name over another. A holder that dies leaves the lock behind. `Correctness`
instantiates it with a refinement mapping (`life`, `locked`, `extName`, `holds` are read off `kube`
and `work`).

**ExternalClient** is the contract of `managed.TypedExternalClient` without the reconciler: the
handlers of a *team* of resources, each called whenever the interface allows. The reconciler never
calls Delete (first disagreement below), so this is where the Delete handlers are checked. It
also has the status: the Ready condition and the states of VM and container. A handler leaves a
status in its copy; `WriteStatus` writes it later, when the tables may have changed, and
`LoseStatus` is a write that fails. A user's write (`UserStore`) makes every copy an old one.

| variable | stands for |
|---|---|
| `team` | the resources of this behaviour |
| `cr`, `status` | the resources as the handlers get them; their status as last written |
| `left` | the status a handler left in its copy and that is not written yet |
| `db`, `stray` | as above |
| `made`, `gone` | history: acknowledged creations and deletions |
| `budget` | what is left of edits, faults and outside interference (a bound) |

**Dial** is `dial.go` as pure operators: `Referenced` (the config of a reference, by kind),
`CredentialsSecret`, `SecretMaterial` (two names for each key), `loadTLSMaterial`, `Open` (the
connection, or none for every error).

**ProviderUsage** is `Connect` (`Track`, then `Dial`) against the ProviderConfig controllers, with
the manager's two lagging caches between them and the API server. A reconcile of a config is `List`
and `Conclude`; the write fails if its copy is old. `SyncConfig` and `SyncUsage` bring a cache up to
date and put configs into the queue, as the two watches do. `Restart`, `ReconcileFails`,
`ConnectFails`, `TrackConflict`, `Collect` (Kubernetes' garbage collector) and `Restore` (a backup
without owners, which the reconciler deletes) surround them. `known` is history: for a deleted
config, the usages that were in the API server and in the cache when it was deleted.

**MCVm**, **MCKinds**, **MCClient** and **MCUsage** give the constants their values.

## Runs

| run | question | bounds |
|---|---|---|
| `vm_create` | Can creations overlap, lose their resource or lose a VM unnoticed; do the reconcilers implement CreationLock? | 1 VM, 2 processes, 4 edits (applying and deleting count), 2 faults, 1 crash, 2 specs with different names and sizes, 3 ids; 961,000 states |
| `vm_live` | Does a resource ever let go of its VM, does it converge, does deletion end? | 1 VM, 2 processes, 2 edits, 1 fault, 1 crash, 1 interference, the same 2 specs, 4 ids; 299,000 states |
| `kinds` | Do the other five kinds converge, in any order? | 5 resources, one of them with a version that Create rejects, 1 worker, 3 edits, 1 fault, 1 interference; 159,000 states |
| `contract` | Do Observe, Create, Update and Delete of each kind agree? | eight teams of one or two resources, 2 edits, 2 faults, 1 interference; 647,000 states |
| `usage` | Is a used config kept and an unused one removed; is the connection the one configured? | 1 resource, 2 ProviderConfigs, 3 edits, 1 mishap; 271,000 states |
| `vm_delete` | Is a deleted VM gone? **No.** | no faults |
| `vm_stop` | Does desiredState have an effect after creation? **No.** | no faults |
| `attach_node` | Is an attachment made on its node? **No.** | no faults |
| `key_name` | Is a key registered under its name? **No.** | no faults |
| `network_node` | Is a network whose node has blanks around it deleted? **No.** | no faults |
| `cluster_usage` | Is a ClusterProviderConfig in use kept? **No.** | no mishaps |
| `insecure` | Are credentials optional with `insecure`? **No.** | no mishaps |

Passing runs:

- `CreateExclusive`, `CreateProtected`: two processes and every interleaving of their writes, with
  users in between. Two processes are enough for a race on one resource, and the theorems below
  cover any number.
- `LossIsFlagged`: a VM the service made for a resource, that the resource does not know of and no
  running creation will report, comes about in three ways only: a creation call had no answer, or
  took effect late (which the run has twice, next to a third call that is answered); a creation was
  cut off before its record, and the pending annotation stays and stops the resource until somebody
  looks; or the resource itself is gone. No race of two processes, stale copy, conflict, rename or
  early retry does it. The first way has no defence but the service's upsert by name, and a rename
  before the retry defeats that; this run has the rename.
- `NeverForgets`: the external name of a VM that exists does not change, with renames, faults and
  two processes. An id the provider let go of would be a VM nobody manages.
- `LockingIsSound` (in `vm_create`): every step of the reconcilers is one of the abstract lock or changes nothing it
  speaks of, conflicts and crashes included. It is `Lock!Spec` itself, as a property.
- `CreatedIsFound`: what an acknowledged creation left in the tables, Observe finds under the name
  that Create recorded, for names with blanks, networks of one name on two nodes, after edits, lost
  answers and late calls. Blanks around a network's *node* are excepted, in the property itself
  (`SentAsLookedUp`): Create sends the node untrimmed, lookups trim it, and `network_node` shows
  where that ends. The contract run has such a network, and the other properties hold of it.
- `DeletedIsGone`, `DeleteIsIdempotent`, `DeleteSpares`: an acknowledged Delete leaves nothing of
  its resource (with the same exception), and afterwards only a creation that was still on its way
  brings something back, against which the code has no defence; once nothing is left, repeated calls
  succeed and do no harm; and nobody else's object goes with it (except the attachments of a deleted
  group, which the service removes).
- `WrittenThrough`: every row, of all six kinds, is what one version of its resource's spec asks for,
  field by field: names, backends, disks, NICs, rules with their two ports, source and target VM,
  nodes, addresses, targets, keys. No conversion confuses two fields and no late call mixes
  versions. Left out are what other clients change (a VM's size, what is to run), and ids and states,
  which are the service's.
- `ReadyIsBacked`, `ShownStateIsOwn`: Ready means that the thing exists, through failed and
  unanswered creations and lost status writes, as long as nobody else interferes. A state a handler
  newly leaves is that of the row under the resource's own external name when it looks, and of the
  right sort; what is written later is what some handler left. Neither speaks of a state that merely
  stays from before.
- `KnownUseProtects`: a ProviderConfig with a usage that the provider knew of when it was deleted
  stays, with lagging caches, references that move to another config and back, conflicts, failures,
  restarts and restored backups. A usage the cache had not shown yet is not protected; that window is
  crossplane-runtime's.
- `UsageFollows`, `UnusedConfigGoes`, `ConnectsAsConfigured`: liveness of the same.
- `Converges`, `DeletionCompletes`: liveness of the reconcile loop. `Converges` speaks of resources
  whose spec Create accepts, after any number of versions it did not.

Violated runs, the disagreements between code and documents:

1. `vm_delete`: `Observe` reports any resource with a deletion timestamp as absent, so
   crossplane-runtime drops the finalizer and never calls `Delete`, in all six controllers.
   `README.md:37` promises create, update and delete.
2. `vm_stop`: `Observe` compares desiredState, `Update` does not send it.
   `types_virtualmachine.go:33` offers running and stopped.
3. `attach_node`: `findAttachment` ignores the node that Create sends and that
   `controller.proto:447` calls the scope of network attachments.
4. `key_name`: the external name is metadata.name from the first reconcile on, so Observe looks for
   that name and adopts a key of somebody else. `types_sshkey.go:44`: "registers an SSH public key".
5. `network_node`: Create sends a network's node as it is written (`network/controller.go:151`),
   Observe and Delete trim it (`:111`, `:185`). With blanks around the node the network is never
   found again, and Delete takes NotFound for success and leaves it. `README.md:34`: "create/list/delete
   networks". It rests on the service keeping the node as it is given; one that trims it would hide
   the difference.
6. `cluster_usage`: every connector tracks `ProviderConfigUsage`, the controller of
   ClusterProviderConfigs counts `ClusterProviderConfigUsage`, of which there never is one: a
   cluster-wide config in use is removed as soon as it is deleted. `types_provider.go:112`:
   "tracks ClusterProviderConfig consumers"; the CRDs default to that kind.
7. `insecure`: `Dial` loads credentials before it looks at `insecure`, and refuses a config without
   a source. `types_provider.go:32`: "Optional when Insecure is true."

One more disagreement has no run of its own: `types_network.go:24` says of `enableOutboundNat` that the
default is true when it is omitted, but the field is a plain bool and Create sends it as it is for a
VXLAN network (`network/controller.go:158-160`), so that an omitted one is sent as false.
`WrittenThrough` pins down what is sent, for a spec without the field, too.

The bounds: the service issues a new id only for a name it has no row of, so a run needs at most
one id per name and one more per removal, and each run has that many: a creation is never stuck for
want of an id. The budgets bound what the environment does, never what the provider does; late
effects are bounded by the faults. `contract` puts together only resources that share a table or
depend on each other, since the handlers share nothing else: a VM; workloads of both kinds with one
name; two networks of one name on two nodes, and one with blanks around its node; a group with an
attachment of either kind, and one whose name has blanks; a key. Two faults and two edits there let a stray creation of an old spec meet a stray
deletion. One resource is enough in `usage`: resources meet only in the set of usages of a config,
and the theorem covers any number; the two configs differ in kind of transport, in where their
secret is and in whether they have been reconciled before. Every run says `CHECK_DEADLOCK FALSE`:
with nothing applied and the budget spent there is nothing to do. In `vm_create` the processes are
interchangeable (symmetry); the liveness runs use none. `vm_create` has no interference from outside
(`vm_live` and `kinds` have) and `usage` one manager process, although leader election is off by
default.

**Fairness.** In ManagedReconcile, `WF` on the steps of each worker: a goroutine that started a
reconcile goes on, every call has a deadline. `SF` on `Get` of each resource: the watch, the
rate-limited retries and the poll interval (one minute by default, `main.go:45`) put a resource into
the queue again and again, even if it is being worked on at times. In ProviderUsage, `WF` on the
connects of each resource (they come with its reconciles), on each cache catching up, on the
reconciles of a queued config and on garbage collection. A config that is not in the queue is *not*
assumed to be reconciled: its controller asks for no requeue and the hourly resync is left out, so
that `UnusedConfigGoes` rests on the watches alone. Nothing is assumed of faults, crashes, users,
outside interference, stray calls or ClearPending; convergence and completion of deletions are
therefore stated for resources that no incomplete creation holds up.

## Proofs

For every set of resources, kinds, specs, ids, workers, processes and every budget:

| theorem | module | says | if |
|---|---|---|---|
| `TypeCorrect` | ManagedReconcileProofs | `Spec => []TypeOK` | |
| `CreationIsExclusive` | ManagedReconcileProofs | `Spec => []CreateExclusive` | |
| `CreationIsProtected` | ManagedReconcileProofs | `Spec => []CreateProtected` | |
| `LockingImplemented` | LockingProofs | `Spec => LockingIsSound`, the refinement | |
| `LockExcludes` | CreationLockProofs | the abstract lock excludes, and protects what it locks | |
| `TablesAreSane` | OwnershipProofs | ids and names tell rows apart; each row is what one spec asks for | |
| `LossesAreFlagged` | OwnershipProofs | `Spec => LossIsFlagged` | `Apart`, `KindKept` |
| `NothingForgotten` | OwnershipProofs | `Spec => NeverForgets` | `Apart`, `KindKept` |
| `ContractTypeCorrect` | ExternalClientProofs | `Spec => []TypeOK` | |
| `SpecsAreWrittenThrough` | ExternalClientProofs | `Spec => []WrittenThrough` | |
| `ShownStatesAreOwn` | ExternalClientProofs | `Spec => ShownStateIsOwn` | |
| `CreationsAreFound` | ExternalClientProofs | `Spec => []CreatedIsFound` | `Steady` |
| `DeletionsAreComplete` | ExternalClientProofs | `Spec => DeletedIsGone` | `Steady` |
| `DeletionsSpareOthers` | ExternalClientProofs | `Spec => DeleteSpares` | `Separate` |
| `ReadyMeansBacked` | ExternalClientProofs | `Spec => []ReadyIsBacked` | `Separate` |
| `DeletionsAreRepeatable` | ExternalClientProofs | `Spec => []DeleteIsIdempotent` | `Steady`, `Separate` |
| `UsageTypeCorrect` | ProviderUsageProofs | `Spec => []TypeOK` | |
| `KnownUseIsProtected` | ProviderUsageProofs | `Spec => []KnownUseProtects` | all configs are ProviderConfigs |
| `ConnectionsAreAllowed` | ProviderUsageProofs | a connection is one that a config allows | |

Every invariant and every action property of the passing runs is a theorem.

*ManagedReconcile.* None of the three is inductive alone. The invariant `IInv` adds what makes the
resourceVersion check do its work: a copy that is fresh *is* the stored resource (except inside a
creation, where Create has changed its external name); before a creation a worker's copy shows no
pending one; a worker about to mark one pending has the finalizer; and while a creation runs the
stored resource shows the pending annotation, the finalizer, and exists. So a fresh copy without a
pending creation means that nobody creates (`FreshAlone`), and every write of a whole copy needs
one. Three lemmas say what the three ways of writing the variables keep (`StoreKeeps`,
`ProceedKeeps`, `UserStoreKeeps`); one lemma per action applies them.

*The refinement.* `LInv` adds to `IInv` that a resource that is gone leaves nothing behind and that a
pending creation keeps its finalizer even when nobody works on it (`Whole`), and that a worker on
its way to a creation, or to dropping the finalizer, has seen the matching deletion mark (`OnPath`).
Under `LInv` every action is mapped to an action of the lock or to a stutter, again one lemma per
action. `LockExcludes` then is what the lock gives in the abstract.

*The tables.* `ServiceProofs` shows of every RPC, of interference and of failures that the tables
stay *coherent* (ids and names tell rows apart, every id is an issued one) and that ids are never
issued twice (`NoReturn`); `HandlersProofs` adds that they stay *rooted*: each row is what one version
of its resource's spec asks for, because the requests are. A call that is late was rooted when it
was sent and the specs a resource may have do not change, so late effects need no case of their own.
`TablesAreSane` and `ContractTables` are these facts for the two systems.

*Ownership.* `Moved` says what a step can do to a stored resource and to a worker: a name is kept,
filled in, given by the creation that ends, or starts over with the resource. `NothingForgotten` needs
that no worker or resource knows an id before it is issued and that, from the observation that
found nothing to the end of the creation, the stored name stands for something that is gone *for
good* (`Faithful`); ids that never come back make it stay gone, and a fresh copy and the lock make
it the same name all along. `LossesAreFlagged` rests on the same invariant: a row comes to a
resource by its own creation only; an answered one leaves its worker with the id until the record
has it (`AnsweredIsHeld`), a record is not forgotten while its row exists, and a worker that goes
without recording leaves the pending annotation behind.

*The contract.* `Records` says that what a resource with an acknowledged creation owns is under its
external name (for a VM or workload the id, otherwise a name one version of its spec asks for), that
an attachment has a key from the first reconcile on, and that a resource with an acknowledged
deletion is marked deleted. That nothing is left of it is a fact about steps: what an acknowledged
Delete looked up was all there was (`NewlyGone`), and only a creation brings something back
(`ComesBack`). Each RPC either takes nobody away from the id on record
(`Kept`) or is a call of the resource itself, for which the upsert has to find by name what the
record has by id. `OwnNames` is the other half: an external name leads to no row of another resource,
and a deletion on its way is one its own resource would still ask for; `SameOwners` is what every
RPC keeps of it. For `ReadyMeansBacked` the status that waits to be written has to be backed as well
as the one that is shown (`SaidIsBacked`).

*ProviderUsage.* The invariant is `Guarded`, for each config whose usages are tracked under the kind
its controller lists: known usages are still stored, owned and cached; their config is there and in
deletion; a reconcile that saw it in deletion has listed all of them; and neither cache nor
reconcile calls a config deleted that is not. The last part is why it matters that a write from an
old copy fails. The assumption on the kinds is needed: without it the statement is what
`cluster_usage` refutes. `ConnectionsAreAllowed` is about credentials: they are used over TLS only and
come from the secret that the config names, in the namespace it names; unusable ones open nothing.
It is proved and not run, since `ConnectsAsConfigured` checks the same operators with liveness.

*Types.* `HandlersProofs` supplies that the handlers of all six kinds send well-formed requests,
leave well-formed statuses and call a deleting resource absent, which is why no reconcile ever calls
Delete (lemma `NothingIsDeleted`, the ground of the first disagreement); `ServiceProofs` that no call and no
interference leaves a malformed row in the tables.

**Hypotheses.** The theorems with an entry in the last column assume something of the people who
write resources, since nothing in the code or in the CRDs enforces it. Each is a statement about
constants, and the instances TLC checks the same property on satisfy it.

- `Apart`, `KindKept`: no resource is called in Kubernetes like an id of the service (the reconciler
  puts metadata.name where an id goes until Create has one), and a workload's kind is not edited
  (Observe looks in the table of the kind of the moment).
- `Steady`: edits leave alone what identifies a thing: a name, a workload's kind, a network's node,
  all of an attachment. Network, group and key are looked up by what the spec says now. Blanks around
  a network's node are allowed here; that such a network is not found and not deleted is what the
  properties themselves except (`SentAsLookedUp`).
- `Separate`: no two resources of one kind ask for the same thing, and none is called like an id or
  like what another asks for. The service has one namespace of names and the provider adopts what it
  finds; resources that clash take each other's things. `key_name` is such a case.

The other assumptions are those of the modules: `Trimmed` and `Lowered` are idempotent string
functions and nothing is trimmed from an empty string; ids are strings and not empty (a response
without an id reads as ""); every resource has a kind and specs of its kind and a name in Kubernetes,
which is neither empty nor has a slash; configs and secrets have the fields of the API types. One of
them, `LiteralAssumption`, states a fact of TLA+ itself, that the string literals the proofs meet are
in `STRING`; the provers have no rule for it. TLC evaluates all of them in every run.

**Only model-checked**: the liveness properties (`Converges`, `DeletionCompletes`, `UsageFollows`,
`UnusedConfigGoes`, `ConnectsAsConfigured`). Liveness under fairness and ENABLED are out of the
prover's reach.

## Not modelled

- In ManagedReconcile: status and conditions (nothing reads them back; ExternalClient has them),
  events, metrics, logging, rate limits, pausing and management policies other than the default.
- Of the status, the copies of names, nodes, addresses and keys, which are written from the answer
  and never read.
- Fields that are only passed through: a VM's image, cloud-init, ports of a network, the VM's node and
  datacenter. The three addresses of a network are one value.
- The grace period after a creation, in which the runtime requeues instead of creating again, looks
  like `GiveUp`; a lagging cache of the resources looks like another worker with an old copy. The
  annotations' timestamps have a resolution of one second; the model orders them exactly.
- In ExternalClient: an attachment whose spec is edited (Delete reads the spec of the moment, a
  hazard on the list), a workload whose kind is edited, two attachments of one group at once.
- In ProviderUsage: several manager processes (leader election is off by default), several namespaces, a ProviderConfig and a ClusterProviderConfig of one name,
  and the user count in a config's status.
- Manager start-up beyond what it does to state: flags, scheme registration and the gate that waits
  for the CRDs are wiring. With leader election on there is one process at a time, a special case
  of what is modelled.
- Generated code beyond the messages and fields the provider uses (deep copies, descriptors,
  marshalling, the server side of the service): copying a value or encoding a message is the value
  itself at this level, and RPCs without a caller have nothing to say about the provider. It is most
  of the repository's lines.
- CRD manifests, examples and packaging: declarative data.

## Open

- Theorems with weaker hypotheses: `Steady` and `Separate` are stated once for all kinds and ask more
  of a kind than its own handlers need.
- Sizes of 0, edited attachments and a rename before the retry of an unanswered creation each break a
  promise one could make; they are on the hazards list, and become runs once a document says what
  should happen.
- Two manager processes in ProviderUsage, and a network without a node next to another of its name.

----------------------------- MODULE Correctness -----------------------------
(***************************************************************************)
(* What the provider promises about the life of its resources, stated over *)
(* ManagedReconcile.                                                       *)
(***************************************************************************)
EXTENDS ManagedReconcile

Phases == {"idle", "init", "observe", "adopt", "pend", "create", "record",
           "fail", "update", "finalize", "delete"}

Specs == {NoSpec} \cup UNION {SpecsOf[o] : o \in Objs}

\* A resource in the API server, or a worker's copy of one.
Copies == [present : BOOLEAN, deleting : BOOLEAN, finalizer : BOOLEAN,
           ext : STRING, create : {"none", "pending", "succeeded", "failed"},
           spec : Specs]

Jobs == [phase : Phases, obj : Objs \cup {NoObj}, cr : Copies, fresh : BOOLEAN,
         obs : {"none", "absent", "drifted", "current"}]

\* A resource that exists has a spec of its kind, and so has a worker's copy.
KubeTyped ==
    /\ kube \in [Objs -> Copies]
    /\ \A o \in Objs : kube[o].present => kube[o].spec \in SpecsOf[o]

JobTyped(s) ==
    /\ s \in Jobs
    /\ s.phase # "idle" => s.obj \in Objs /\ s.cr.spec \in SpecsOf[s.obj]

WorkTyped == work \in [Workers -> Jobs] /\ \A w \in Workers : JobTyped(work[w])

RestTyped ==
    /\ db \in Databases
    /\ stray \in SUBSET Requests
    /\ budget \in [{"edit", "fault", "crash", "drift"} -> Nat]

\* Every variable has its type: what the handlers send, what the service stores
\* and what comes back as an external name have the form the next handler expects.
TypeOK == KubeTyped /\ WorkTyped /\ RestTyped

-----------------------------------------------------------------------------
(* Safety                                                                   *)

\* At most one worker of all processes is between the pending annotation and
\* the end of a creation of one resource, and the annotation is there for the
\* whole time: two processes of a rolling update (leader election is off by
\* default, main.go:42) never run Create for one resource at once.
CreateExclusive ==
    \A w \in Workers : Creating(w) =>
        /\ kube[work[w].obj].create = "pending"
        /\ \A v \in Workers \ {w} : ~ (Creating(v) /\ work[v].obj = work[w].obj)

\* While a creation runs, its resource stays in the API server under its
\* finalizer, so that the id Create returns has a place to be recorded in,
\* whoever deletes the resource in the meantime.
CreateProtected ==
    \A w \in Workers : Creating(w) =>
        kube[work[w].obj].present /\ kube[work[w].obj].finalizer

\* The ids of the VMs and workloads the kcore controller holds for a resource.
OwnedIds(o) == {v.id : v \in {x \in db.vms : x.by = o}}
                 \cup {l.id : l \in {x \in db.workloads : x.by = o}}

\* The VMs and workloads of a resource that are neither on record as its external
\* name nor about to be recorded: nothing leads the provider back to them.
Orphans(o) ==
    OwnedIds(o) \ ({kube[o].ext} \cup {work[w].cr.ext : w \in {v \in Workers :
                                        At(v, "record") /\ work[v].obj = o}})

\* A creation of o is between its two annotations.
InCreation(o) == \E w \in Workers : Creating(w) /\ work[w].obj = o

\* How a VM may be lost: its creation gets no answer or takes effect after its
\* client gave up; or the creation is cut off before its record, and the pending
\* annotation stays and stops every later reconcile; or the resource is gone.
LossFlagged(o) ==
    \/ \E w \in Workers :
          At(w, "create") /\ work[w].obj = o /\ budget'.fault < budget.fault
    \/ \E r \in stray \ stray' : r \in CreateRequests /\ r.by = o
    \/ kube'[o].create = "pending" /\ ~ InCreation(o)'
    \/ ~ kube'[o].present

\* Nothing else loses a VM: no order of the steps of several processes, with old
\* copies, conflicts, failures between Create and its record, renames and users
\* who take a pending annotation away, leaves one behind without a sign of it.
LossIsFlagged ==
    [][\A o \in Objs : Orphans(o)' \subseteq Orphans(o) \/ LossFlagged(o)]_vars

\* A resource never turns away from a VM that is still there, whatever errors
\* its calls meet and however it is renamed: while the VM on record exists, the
\* external name does not change (until the resource itself is gone).
NeverForgets ==
    [][\A o \in Objs :
          /\ kube[o].ext \in OwnedIds(o)
          /\ kube'[o].present
          => kube'[o].ext = kube[o].ext]_vars

-----------------------------------------------------------------------------
(* Refinement                                                               *)

\* Where a resource is in its life.
LifeOf(k) == IF ~ k.present THEN "absent" ELSE IF k.deleting THEN "dying"
             ELSE IF k.finalizer THEN "kept" ELSE "bare"

life == [o \in Objs |-> LifeOf(kube[o])]

locked == {o \in Objs : kube[o].create = "pending"}

extName == [o \in Objs |-> kube[o].ext]

holds == [w \in Workers |-> IF Creating(w) THEN work[w].obj ELSE NoObj]

Lock == INSTANCE CreationLock WITH Names <- STRING, NoName <- "", name <- extName

\* The reconcilers, with their copies, conflicts, failed and unanswered calls and
\* crashes, use the annotations as a lock and the finalizer as a guard of it.
LockingIsSound == Lock!Spec

-----------------------------------------------------------------------------
(* Liveness, under FairSpec                                                 *)

\* Present, not being deleted, and not stopped by an incomplete creation.
Managed(o) ==
    kube[o].present /\ ~ kube[o].deleting /\ ~ ExternalCreateIncomplete(kube[o])

GroupExists(p) == \E g \in db.groups : g.name = TrimSpace(p.group)

Attached(p) ==
    {a \in db.attachments : /\ a.group = TrimSpace(p.group)
                            /\ a.kind = SecurityGroupTargetKind(p.kind)
                            /\ a.target = TrimSpace(p.target)}

\* The kcore controller holds what the resource's spec asks for, as far as the
\* provider looks after it: a VM has its size; a workload, a network, a group
\* and a key exist; an attachment exists if its group does.
Provided(o) ==
    LET p    == kube[o].spec
        kind == KindOf[o]
    IN  /\ kind = "VirtualMachine" =>
              \E v \in db.vms : /\ v.id = kube[o].ext
                                /\ v.cpus = p.cpus
                                /\ v.memory = p.memory
        /\ kind = "Workload" =>
              \E l \in db.workloads : /\ l.id = kube[o].ext
                                      /\ l.kind = WorkloadKind(p.kind)
        /\ kind = "Network" =>
              \E n \in db.networks : n.name = p.name /\ n.node = p.node
        /\ kind = "SecurityGroup" => \E g \in db.groups : g.name = p.name
        /\ kind = "SSHKey" => \E k \in db.keys : k.name = TrimSpace(p.name)
        /\ kind = "SecurityGroupAttachment" /\ GroupExists(p) => Attached(p) # {}

\* In the end every managed resource whose spec Create does not reject is provided
\* for, through failed and unanswered calls, crashes, edits (from a rejected spec,
\* too) and removals behind the provider's back.
Converges ==
    \A o \in Objs :
        <>[](Managed(o) /\ CreateValid(o, kube[o].spec) => Provided(o))

\* A deleted resource leaves the API server, unless it stops at an incomplete
\* creation: neither conflicts nor failures keep its finalizer in place.
DeletionCompletes ==
    \A o \in Objs : kube[o].deleting ~>
        (~ kube[o].deleting \/ ExternalCreateIncomplete(kube[o]))

-----------------------------------------------------------------------------
(* What documents of the repository say and the code does not do            *)

\* README.md:37 has the provider create, update and delete VMs: when a
\* VirtualMachine is gone, so is its VM.
DeletedVmIsGone == \A o \in Objs : ~ kube[o].present => OwnedIds(o) = {}

\* types_virtualmachine.go:33 has desiredState choose running or stopped: in
\* the end the VM is in the state its resource names.
VmRunsAsDesired ==
    \A o \in Objs : <>[](Managed(o) =>
        \E v \in db.vms :
            /\ v.id = kube[o].ext
            /\ VmDesiredState(kube[o].spec.desired) \in {"UNSPECIFIED", v.desired})

\* controller.proto:447 scopes an attachment to a network by a node, and the
\* resource has that field: in the end the attachment exists on that node.
AttachedOnItsNode ==
    \A o \in {x \in Objs : KindOf[x] = "SecurityGroupAttachment"} :
        <>[](Managed(o) /\ GroupExists(kube[o].spec) =>
                \E a \in Attached(kube[o].spec) : a.node = TrimSpace(kube[o].spec.node))

\* types_sshkey.go:44 has SSHKey register a public key: in the end the key is
\* registered under the name its resource gives it.
KeyIsRegistered ==
    \A o \in Objs : <>[](Managed(o) =>
        \E k \in db.keys : k.name = TrimSpace(kube[o].spec.name))

=============================================================================

---------------------------- MODULE VirtualMachine ----------------------------
(***************************************************************************)
(* internal/controller/vm: the external client of VirtualMachine.  A       *)
(* reconcile hands each operator a copy cr of the custom resource: its     *)
(* deletion mark, its external-name annotation cr.ext ("" when missing)    *)
(* and spec.forProvider as cr.spec.                                        *)
(*                                                                         *)
(* An observation is one word for managed.ExternalObservation and its      *)
(* error: "error", "absent", "drifted" (exists, not up to date), "current".*)
(***************************************************************************)
EXTENDS KcoreController

\* spec.forProvider.  Left out: fields that are only passed through.
Params == [name : STRING, cpus : Int, memory : Int, storage : Int,
           desired : STRING, backend : STRING,
           disks : SUBSET Disks, nics : SUBSET Nics]

vmExternalID(cr) == cr.ext

\* The GetVm call of Observe.
lookupRequest(cr) == [rpc |-> "GetVm", id |-> vmExternalID(cr)]

\* A slip: the number of CPUs is not compared.
upToDateWithoutCpus(v, p) ==
    /\ v.memory = p.memory
    /\ p.desired = "" \/ v.desired = VmDesiredState(p.desired)

upToDate(v, p) ==
    /\ v.cpus = p.cpus
    /\ v.memory = p.memory
    /\ p.desired = "" \/ v.desired = VmDesiredState(p.desired)

\* A slip: every error means that there is no VM.
ObserveErrorAsAbsent(cr, reply) ==
    IF cr.deleting \/ vmExternalID(cr) = "" \/ reply.code # "OK" THEN "absent"
    ELSE IF \A v \in reply.content : upToDate(v, cr.spec) THEN "current"
    ELSE "drifted"

\* A response without a spec counts as up to date.
Observe(cr, reply) ==
    IF cr.deleting \/ vmExternalID(cr) = "" \/ reply.code = "NotFound" THEN "absent"
    ELSE IF reply.code # "OK" THEN "error"
    ELSE IF \A v \in reply.content : upToDate(v, cr.spec) THEN "current"
    ELSE "drifted"

\* The status Observe leaves of a VM it has found; a response without a VmStatus
\* leaves the old state in place.
Observed(status, reply) ==
    [status EXCEPT !.ready = "Available",
                   !.vm = The({v.status.state : v \in reply.content}, @)]

\* The checks Create makes before it calls.
CreateValid(p) == TrimSpace(p.name) # "" /\ p.storage > 0

createVMRequest(o, p) ==
    [rpc |-> "CreateVm", by |-> o, name |-> p.name, cpus |-> p.cpus,
     memory |-> p.memory, desired |-> VmDesiredState(p.desired),
     backend |-> StorageBackend(p.backend), disks |-> p.disks, nics |-> p.nics]

\* A slip: the id in the response is not recorded.
CreatedNameKept(cr, reply) == cr.ext

\* The external name Create leaves in its copy: the id in the response.
CreatedName(cr, reply) == NewId(reply)

\* The status Create leaves of a VM it has made.
Created(status, reply) ==
    [status EXCEPT !.ready = "Available",
                   !.vm = The({c.state : c \in reply.content}, "UNKNOWN")]

\* The calls of Update: none without an id, else size only.
Update(o, cr) ==
    IF vmExternalID(cr) = "" THEN {}
    ELSE {[rpc |-> "UpdateVm", by |-> o, id |-> vmExternalID(cr),
           cpus |-> cr.spec.cpus, memory |-> cr.spec.memory]}

\* The calls of Delete: none without an id.
Delete(o, cr) ==
    IF vmExternalID(cr) = "" THEN {}
    ELSE {[rpc |-> "DeleteVm", by |-> o, id |-> vmExternalID(cr)]}

\* A slip: NotFound is a failure like the others.
DeleteDoneStrict(reply) == reply.code = "OK"

\* The answers Delete takes for success: what is not there need not go.
DeleteDone(reply) == reply.code \in {"OK", "NotFound"}

=============================================================================

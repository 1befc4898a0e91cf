------------------------------- MODULE Workload -------------------------------
(***************************************************************************)
(* internal/controller/workload: the external client of Workload.  Copies, *)
(* observations and answers as in VirtualMachine.                          *)
(***************************************************************************)
EXTENDS KcoreController

Params == [kind : STRING, storage : Int,
           vm : [name : STRING, desired : STRING],
           container : [name : STRING, image : STRING, desired : STRING]]

wlID(cr) == cr.ext

lookupRequest(cr) ==
    [rpc |-> "GetWorkload", kind |-> WorkloadKind(cr.spec.kind), id |-> wlID(cr)]

\* The kind is checked after the id and before the call.  An existing workload
\* is always up to date: nothing of its content is compared.
Observe(cr, reply) ==
    IF cr.deleting \/ wlID(cr) = "" THEN "absent"
    ELSE IF WorkloadKind(cr.spec.kind) = "UNSPECIFIED" THEN "error"
    ELSE IF reply.code = "NotFound" THEN "absent"
    ELSE IF reply.code # "OK" THEN "error"
    ELSE "current"

\* A slip: whatever runs is shown as a VM.
ObservedAsVm(status, reply) ==
    [status EXCEPT !.ready = "Available",
                   !.vm = The({l.status.state : l \in reply.content}, @)]

\* The status Observe leaves: the answer has a VmStatus or a ContainerInfo.
Observed(status, reply) ==
    LET states(vms) == {l.status.state : l \in {x \in reply.content : (x.kind = "VM") = vms}}
    IN  [status EXCEPT !.ready = "Available",
                       !.vm = The(states(TRUE), @),
                       !.container = The(states(FALSE), @)]

CreateValid(p) == WorkloadKind(p.kind) # "UNSPECIFIED" /\ p.storage > 0

\* A container with neither name nor image is sent as no container at all.
containerProto(c) ==
    IF TrimSpace(c.name) = "" /\ c.image = ""
    THEN [name |-> "", image |-> "", desired |-> "UNSPECIFIED"]
    ELSE [name |-> c.name, image |-> c.image,
          desired |-> WorkloadDesiredState(c.desired)]

createRequest(o, p) ==
    LET kind == WorkloadKind(p.kind)
        c    == containerProto(p.container)
    IN  [rpc |-> "CreateWorkload", by |-> o, kind |-> kind,
         name    |-> IF kind = "VM" THEN p.vm.name ELSE c.name,
         image   |-> IF kind = "VM" THEN "" ELSE c.image,
         desired |-> IF kind = "VM" THEN VmDesiredState(p.vm.desired)
                     ELSE c.desired]

CreatedName(cr, reply) == NewId(reply)

\* The status Create leaves: both states, the one that is not set as UNKNOWN.
Created(status, reply) ==
    [status EXCEPT !.ready = "Available",
                   !.vm = The({c.vmState : c \in reply.content}, "UNKNOWN"),
                   !.container = The({c.containerState : c \in reply.content},
                                     "UNKNOWN")]

\* Update is empty.
Update(o, cr) == {}

\* The kind is that of the spec as it is now.
Delete(o, cr) ==
    IF wlID(cr) = "" THEN {}
    ELSE {[rpc |-> "DeleteWorkload", by |-> o, kind |-> WorkloadKind(cr.spec.kind),
           id |-> wlID(cr)]}

\* The answers Delete takes for success: what is not there need not go.
DeleteDone(reply) == reply.code \in {"OK", "NotFound"}

=============================================================================

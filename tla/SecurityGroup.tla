----------------------------- MODULE SecurityGroup -----------------------------
(***************************************************************************)
(* internal/controller/securitygroup: the external client of               *)
(* SecurityGroup.  Copies, observations and answers as in VirtualMachine.  *)
(***************************************************************************)
EXTENDS KcoreController

Params == [name : STRING, rules : SUBSET Rules]

sgName(cr) == IF cr.ext # "" THEN cr.ext ELSE TrimSpace(cr.spec.name)

lookupRequest(cr) == [rpc |-> "GetSecurityGroup", name |-> sgName(cr)]

\* A slip: NotFound is an error like the others.
ObserveNotFoundAsError(cr, reply) ==
    IF cr.deleting \/ sgName(cr) = "" THEN "absent"
    ELSE IF reply.code # "OK" THEN "error"
    ELSE IF reply.content = {} THEN "absent"
    ELSE "current"

\* A group that exists is up to date, whatever its rules.
Observe(cr, reply) ==
    IF cr.deleting \/ sgName(cr) = "" \/ reply.code = "NotFound" THEN "absent"
    ELSE IF reply.code # "OK" THEN "error"
    ELSE IF reply.content = {} THEN "absent"
    ELSE "current"

CreateValid(p) == TrimSpace(p.name) # ""

\* A slip: the two names of a rule are exchanged.
rulesProtoExchanged(rules) ==
    {[r EXCEPT !.source = r.vm, !.vm = r.source] : r \in rules}

\* Rule by rule and field by field.
rulesProto(rules) ==
    {[id |-> r.id, protocol |-> r.protocol, hostPort |-> r.hostPort,
      targetPort |-> r.targetPort, source |-> r.source, vm |-> r.vm,
      dnat |-> r.dnat] : r \in rules}

createRequest(o, p) ==
    [rpc |-> "CreateSecurityGroup", by |-> o, name |-> p.name,
     rules |-> rulesProto(p.rules)]

CreatedName(cr, reply) == cr.spec.name

Update(o, cr) == {}

\* A slip: the name in the spec, not the one the group was created under.
DeleteBySpec(o, cr) ==
    IF TrimSpace(cr.spec.name) = "" THEN {}
    ELSE {[rpc |-> "DeleteSecurityGroup", by |-> o, name |-> TrimSpace(cr.spec.name)]}

Delete(o, cr) ==
    IF sgName(cr) = "" THEN {}
    ELSE {[rpc |-> "DeleteSecurityGroup", by |-> o, name |-> sgName(cr)]}

\* The answers Delete takes for success: what is not there need not go.
DeleteDone(reply) == reply.code \in {"OK", "NotFound"}

=============================================================================

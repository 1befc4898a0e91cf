------------------------ MODULE SecurityGroupAttachment ------------------------
(***************************************************************************)
(* internal/controller/securitygroupattachment: the external client of     *)
(* SecurityGroupAttachment.  Copies, observations and answers as in        *)
(* VirtualMachine.                                                         *)
(***************************************************************************)
EXTENDS KcoreController

Params == [group : STRING, kind : STRING, target : STRING, node : STRING]

\* The three parts joined by "/" matter in one respect only: whether all of
\* them are empty.  Any other key stands for itself as "group/kind/target".
attachmentKey(cr) ==
    LET p == cr.spec
    IN  IF cr.ext # "" THEN cr.ext
        ELSE IF TrimSpace(p.group) = "" /\ Word(p.kind) = "" /\ TrimSpace(p.target) = ""
        THEN "//" ELSE "group/kind/target"

lookupRequest(cr) ==
    [rpc |-> "GetSecurityGroup", name |-> TrimSpace(cr.spec.group)]

\* The attachments of the group that match the spec.  The node is not compared.
findAttachment(reply, p) ==
    {a \in UNION {g.attachments : g \in reply.content} :
        /\ a.group = TrimSpace(p.group)
        /\ a.kind = SecurityGroupTargetKind(p.kind)
        /\ a.target = TrimSpace(p.target)}

Observe(cr, reply) ==
    IF cr.deleting \/ attachmentKey(cr) = "//" THEN "absent"
    ELSE IF TrimSpace(cr.spec.group) = "" THEN "error"
    ELSE IF reply.code = "NotFound" THEN "absent"
    ELSE IF reply.code # "OK" THEN "error"
    ELSE IF findAttachment(reply, cr.spec) = {} THEN "absent"
    ELSE "current"

\* Create checks nothing.
CreateValid(p) == TRUE

createRequest(o, p) ==
    [rpc |-> "AttachSecurityGroup", by |-> o, group |-> TrimSpace(p.group),
     kind |-> SecurityGroupTargetKind(p.kind), target |-> TrimSpace(p.target),
     node |-> TrimSpace(p.node)]

CreatedName(cr, reply) == attachmentKey(cr)

Update(o, cr) == {}

\* A slip: the kind is sent as it was written.
DeleteRaw(o, cr) ==
    LET p == cr.spec
    IN  {[rpc |-> "DetachSecurityGroup", by |-> o, group |-> TrimSpace(p.group),
          kind |-> Word(p.kind), target |-> TrimSpace(p.target),
          node |-> TrimSpace(p.node)]}

\* What is detached is what the spec says now, not what was attached.
Delete(o, cr) ==
    LET p == cr.spec
    IN  {[rpc |-> "DetachSecurityGroup", by |-> o, group |-> TrimSpace(p.group),
          kind |-> SecurityGroupTargetKind(p.kind), target |-> TrimSpace(p.target),
          node |-> TrimSpace(p.node)]}

\* The answers Delete takes for success: what is not there need not go.
DeleteDone(reply) == reply.code \in {"OK", "NotFound"}

=============================================================================

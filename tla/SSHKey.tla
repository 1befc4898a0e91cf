-------------------------------- MODULE SSHKey --------------------------------
(***************************************************************************)
(* internal/controller/sshkey: the external client of SSHKey.  Copies,     *)
(* observations and answers as in VirtualMachine.                          *)
(***************************************************************************)
EXTENDS KcoreController

Params == [name : STRING, key : STRING]

externalName(cr) == IF cr.ext # "" THEN cr.ext ELSE TrimSpace(cr.spec.name)

lookupRequest(cr) == [rpc |-> "GetSshKey", name |-> externalName(cr)]

\* A registered key is up to date, whatever public key it holds.
Observe(cr, reply) ==
    IF cr.deleting \/ externalName(cr) = "" \/ reply.code = "NotFound" THEN "absent"
    ELSE IF reply.code # "OK" THEN "error"
    ELSE IF reply.content = {} THEN "absent"
    ELSE "current"

CreateValid(p) == TrimSpace(p.name) # ""

createRequest(o, p) ==
    [rpc |-> "CreateSshKey", by |-> o, name |-> TrimSpace(p.name), key |-> p.key]

\* A slip: the name is recorded as it was written.
CreatedNameRaw(cr, reply) == cr.spec.name

CreatedName(cr, reply) == TrimSpace(cr.spec.name)

Update(o, cr) == {}

Delete(o, cr) ==
    IF externalName(cr) = "" THEN {}
    ELSE {[rpc |-> "DeleteSshKey", by |-> o, name |-> externalName(cr)]}

\* The answers Delete takes for success: what is not there need not go.
DeleteDone(reply) == reply.code \in {"OK", "NotFound"}

=============================================================================

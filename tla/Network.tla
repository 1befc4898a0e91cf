-------------------------------- MODULE Network --------------------------------
(***************************************************************************)
(* internal/controller/network: the external client of Network.  The three *)
(* address fields Observe compares (external IP, gateway IP, netmask) are  *)
(* one value, addr.  Copies, observations and answers as in VirtualMachine.*)
(***************************************************************************)
EXTENDS KcoreController

\* enableOutboundNat may be left out of a spec: nat is empty then.
Params == [name : STRING, node : STRING, addr : STRING, type : STRING,
           nat : {{}, {TRUE}, {FALSE}}]

netName(cr) == IF cr.ext # "" THEN cr.ext ELSE TrimSpace(cr.spec.name)

lookupRequest(cr) == [rpc |-> "ListNetworks", node |-> TrimSpace(cr.spec.node)]

networkUpToDate(n, p) ==
    /\ n.addr = p.addr
    /\ p.type = "" \/ TrimSpace(n.type) = TrimSpace(p.type)

\* What Observe may say.  The first network of that name in the list decides, and
\* of several with one name (on different nodes) any may come first.  NotFound is
\* an error here.
Observe(cr, reply) ==
    LET named == {n \in reply.content : n.name = netName(cr)}
    IN  IF cr.deleting \/ netName(cr) = "" THEN {"absent"}
        ELSE IF reply.code # "OK" THEN {"error"}
        ELSE IF named = {} THEN {"absent"}
        ELSE {IF networkUpToDate(n, cr.spec) THEN "current" ELSE "drifted" : n \in named}

CreateValid(p) == TrimSpace(p.name) # ""

\* Outbound NAT is always on, except for vxlan, where the field decides; one that
\* was left out reads as false.
createRequest(o, p) ==
    [rpc |-> "CreateNetwork", by |-> o, name |-> p.name, node |-> p.node,
     addr |-> p.addr, type |-> p.type,
     nat |-> Word(p.type) = "vxlan" => p.nat = {TRUE}]

CreatedName(cr, reply) == cr.spec.name

\* No Update RPC: drift is reported by Observe and never repaired.
Update(o, cr) == {}

\* A slip: without the target node.
DeleteAnywhere(o, cr) ==
    IF netName(cr) = "" THEN {}
    ELSE {[rpc |-> "DeleteNetwork", by |-> o, name |-> netName(cr), node |-> ""]}

Delete(o, cr) ==
    IF netName(cr) = "" THEN {}
    ELSE {[rpc |-> "DeleteNetwork", by |-> o, name |-> netName(cr),
           node |-> TrimSpace(cr.spec.node)]}

\* The answers Delete takes for success: what is not there need not go.
DeleteDone(reply) == reply.code \in {"OK", "NotFound"}

=============================================================================

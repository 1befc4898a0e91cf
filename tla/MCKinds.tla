------------------------------- MODULE MCKinds -------------------------------
(***************************************************************************)
(* Resources of the other kinds; each run takes some of them as Objs.  One *)
(* version of "key" has a name that Create rejects.                        *)
(***************************************************************************)
EXTENDS Correctness

MCTrimmed == [s \in {" ", " Vm "} |-> IF s = " " THEN "" ELSE "Vm"]
MCLowered == [s \in {"Vm", "VXLAN"} |-> IF s = "Vm" THEN "vm" ELSE "vxlan"]

MCKindOf ==
    [o \in Objs |->
        CASE o = "sg"                     -> "SecurityGroup"
          [] o \in {"att", "att1", "att2"} -> "SecurityGroupAttachment"
          [] o \in {"key", "alice"}       -> "SSHKey"
          [] o = "wl"                     -> "Workload"
          [] o = "net"                    -> "Network"]

MCMetaName == [o \in Objs |-> o]

MCProcessOf == [w \in Workers |-> w]

Attach(kind, target, node) ==
    [group |-> "web", kind |-> kind, target |-> target, node |-> node]

Container(image) ==
    [kind |-> "container", storage |-> 1, vm |-> [name |-> "", desired |-> ""],
     container |-> [name |-> "c1", image |-> image, desired |-> "running"]]

Rule(host, target) ==
    {[id |-> "r", protocol |-> "tcp", hostPort |-> host, targetPort |-> target,
      source |-> "10.0.0.0/8", vm |-> "vm1", dnat |-> TRUE]}

MCNet(addr, type) ==
    [name |-> "lan", node |-> "n1", addr |-> addr, type |-> type, nat |-> {TRUE}]

MCSpecsOf ==
    [o \in Objs |->
        CASE o = "sg"   -> {[name |-> "web", rules |-> Rule(80, 80)]}
          [] o = "att"  -> {Attach(" Vm ", "vm1", "")}
          [] o = "att1" -> {Attach("network", "lan", "n1")}
          [] o = "att2" -> {Attach("network", "lan", "n2")}
          [] o = "key"  -> {[name |-> n, key |-> "rsa"] : n \in {"alice", " "}}
          [] o = "alice" -> {[name |-> "bob", key |-> "ed25519"]}
          [] o = "wl"   -> {Container("nginx")}
          [] o = "net"  -> {MCNet("10.0.0.1", "VXLAN")}]

BudgetKinds == [edit |-> 3, fault |-> 1, crash |-> 0, drift |-> 1]
BudgetCalm  == [edit |-> 3, fault |-> 0, crash |-> 0, drift |-> 0]

=============================================================================

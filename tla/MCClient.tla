------------------------------- MODULE MCClient -------------------------------
(***************************************************************************)
(* Resources of every kind, with the names, blanks and capitals that the   *)
(* handlers treat in different ways.  Two networks share a name on         *)
(* different nodes, a third has blanks around its node and says nothing of *)
(* NAT in one of its versions; otherwise names are distinct, and no        *)
(* resource's metadata.name is the external name of another one.           *)
(***************************************************************************)
EXTENDS ExternalClient

MCTrimmed ==
    [s \in {" ", " Vm ", " web ", " lan ", " alice ", " n1 "} |->
        CASE s = " "       -> ""
          [] s = " Vm "    -> "Vm"
          [] s = " web "   -> "web"
          [] s = " lan "   -> "lan"
          [] s = " alice " -> "alice"
          [] s = " n1 "    -> "n1"]

MCLowered == [s \in {"Vm", "VXLAN"} |-> IF s = "Vm" THEN "vm" ELSE "vxlan"]

MCKindOf ==
    [o \in Objs |->
        CASE o = "vm"              -> "VirtualMachine"
          [] o \in {"wl", "wv"}    -> "Workload"
          [] o \in {"net1", "net2", "net3"} -> "Network"
          [] o \in {"sg", "sg2", "sg3"} -> "SecurityGroup"
          [] o \in {"att", "att2"} -> "SecurityGroupAttachment"
          [] o = "key"             -> "SSHKey"]

MCMetaName == [o \in Objs |-> o]

MCTeams == {{"vm"}, {"wl", "wv"}, {"key"}, {"net1", "net2"}, {"sg", "att"},
            {"sg2", "att2"}, {"sg3"}, {"net3"}}

VmParams(cpus, desired, disk) ==
    [name |-> "a", cpus |-> cpus, memory |-> 1, storage |-> 1,
     desired |-> desired, backend |-> "lvm",
     disks |-> {[name |-> disk, bus |-> "virtio"]},
     nics |-> {[network |-> "lan", mac |-> ""]}]

Container(image) ==
    [kind |-> "container", storage |-> 1, vm |-> [name |-> "", desired |-> ""],
     container |-> [name |-> "c1", image |-> image, desired |-> "running"]]

VmWorkload ==
    [kind |-> " Vm ", storage |-> 1, vm |-> [name |-> "c1", desired |-> "stopped"],
     container |-> [name |-> "", image |-> "", desired |-> ""]]

Rule(host, target) ==
    {[id |-> "r", protocol |-> "tcp", hostPort |-> host, targetPort |-> target,
      source |-> "10.0.0.0/8", vm |-> "vm1", dnat |-> TRUE]}

MCNet(name, node, addr) ==
    [name |-> name, node |-> node, addr |-> addr, type |-> "VXLAN", nat |-> {TRUE}]

Attach(kind, target) ==
    [group |-> "web", kind |-> kind, target |-> target, node |-> " n1 "]

MCSpecsOf ==
    [o \in Objs |->
        CASE o = "vm"   -> {VmParams(1, "", "vda"), VmParams(2, "stopped", "vdb")}
          [] o = "wl"   -> {Container("nginx")}
          [] o = "wv"   -> {VmWorkload}
          [] o = "net1" -> {MCNet(" lan ", "n1", "10.0.0.1")}
          [] o = "net2" -> {MCNet(" lan ", "n2", "10.0.0.1")}
          [] o = "net3" -> {MCNet("lan", " n1 ", "10.0.0.1"),
                            [MCNet("lan", " n1 ", "10.0.0.2") EXCEPT !.nat = {}]}
          [] o = "sg"   -> {[name |-> "web", rules |-> Rule(80, t)] : t \in {8080, 8081}}
          [] o = "sg2"  -> {[name |-> "web", rules |-> Rule(80, 80)]}
          [] o = "sg3"  -> {[name |-> " web ", rules |-> Rule(80, 80)]}
          [] o = "att"  -> {Attach(" Vm ", "vm1")}
          [] o = "att2" -> {Attach("network", " lan ")}
          [] o = "key"  -> {[name |-> n, key |-> "rsa"] : n \in {" alice ", " "}}]

\* For a run about one resource.
Alone == {Objs}
Calm  == [edit |-> 0, fault |-> 0, drift |-> 0]

MCBudget == [edit |-> 2, fault |-> 2, drift |-> 1]

=============================================================================

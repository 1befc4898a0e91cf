-------------------------------- MODULE MCVm --------------------------------
(***************************************************************************)
(* One VirtualMachine and provider processes with one worker each.         *)
(***************************************************************************)
EXTENDS Correctness, TLC

MCTrimmed == [s \in {" ", " Stopped "} |-> IF s = " " THEN "" ELSE "Stopped"]
MCLowered == [s \in {"Stopped"} |-> "stopped"]

MCKindOf == [o \in Objs |-> "VirtualMachine"]
MCMetaName == [o \in Objs |-> "meta"]
MCProcessOf == [w \in Workers |-> w]

VmParams(name, cpus, desired) ==
    [name |-> name, cpus |-> cpus, memory |-> 1, storage |-> 1,
     desired |-> desired, backend |-> "lvm",
     disks |-> {}, nics |-> {}]

\* The size changes, together with the name to one that Create rejects.
Rejected == [o \in Objs |-> {VmParams(o, 1, ""), VmParams(" ", 2, "")}]

\* Sizes and names change.
Renamed == [o \in Objs |-> {VmParams("a", 1, ""), VmParams("b", 2, "")}]

\* The desired state changes, written in capitals and between blanks.
Stopping == [o \in Objs |-> {VmParams("a", 1, ""), VmParams("a", 1, " Stopped ")}]

BudgetCreate == [edit |-> 4, fault |-> 2, crash |-> 1, drift |-> 0]
BudgetLive   == [edit |-> 2, fault |-> 1, crash |-> 1, drift |-> 1]
BudgetCalm   == [edit |-> 3, fault |-> 0, crash |-> 0, drift |-> 0]

\* The processes are alike.
Alike == Permutations(Workers)

=============================================================================

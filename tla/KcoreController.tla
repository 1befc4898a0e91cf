--------------------------- MODULE KcoreController ---------------------------
(***************************************************************************)
(* The kcore controller as this provider uses it: its tables and the       *)
(* effect and the answer of the RPCs the provider calls.  The service is   *)
(* not in this repository; it is modelled from proto/kcore/controller/v1   *)
(* and from what internal/controller expects of it:                        *)
(*                                                                         *)
(*   - every Create* RPC is an idempotent upsert (controller.proto:188);   *)
(*     VMs and workloads are found again by name and keep their id,        *)
(*     networks (:386) and SSH keys (:721) keep their first content;       *)
(*   - ids of VMs and workloads are issued by the service, never reused;   *)
(*   - UpdateVm leaves a field alone that it is given as 0 (:241);         *)
(*   - a Delete* RPC of something that is not there answers NotFound, which*)
(*     every Delete handler expects; a network is resolved by its name when*)
(*     no node is given and the name is unique (:392);                     *)
(*   - what is asked to run runs and what is asked to stop stops, at once.  *)
(*                                                                         *)
(* An empty node stands for the node the controller picks.                 *)
(***************************************************************************)
EXTENDS Messages

Databases == [vms : SUBSET Vms, workloads : SUBSET Workloads,
              networks : SUBSET Networks, groups : SUBSET Groups,
              attachments : SUBSET Attachments, keys : SUBSET SshKeys,
              issued : SUBSET Ids]

EmptyDatabase == [vms |-> {}, workloads |-> {}, networks |-> {}, groups |-> {},
                  attachments |-> {}, keys |-> {}, issued |-> {}]

-----------------------------------------------------------------------------
(* Calls that only read                                                     *)

Found(rows) == IF rows = {} THEN Error("NotFound") ELSE Ok(rows)

GetVm(db, id) == Found({v \in db.vms : v.id = id})

GetWorkload(db, kind, id) ==
    Found({l \in db.workloads : l.kind = kind /\ l.id = id})

\* With an empty target node the networks of every node.
ListNetworks(db, node) == Ok({n \in db.networks : node \in {"", n.node}})

GetSecurityGroup(db, name) ==
    Found({[name |-> g.name,
            attachments |-> {a \in db.attachments : a.group = name}] :
               g \in {h \in db.groups : h.name = name}})

GetSshKey(db, name) == Found({k \in db.keys : k.name = name})

Read(db, q) ==
    CASE q.rpc = "GetVm"            -> GetVm(db, q.id)
      [] q.rpc = "GetWorkload"      -> GetWorkload(db, q.kind, q.id)
      [] q.rpc = "ListNetworks"     -> ListNetworks(db, q.node)
      [] q.rpc = "GetSecurityGroup" -> GetSecurityGroup(db, q.name)
      [] q.rpc = "GetSshKey"        -> GetSshKey(db, q.name)

-----------------------------------------------------------------------------
(* Calls that change the tables.  Each yields the set of [db, answer] the
   service may produce.                                                     *)

Outcome(db, answer) == [db |-> db, answer |-> answer]

\* The id of the row of that name, or one never issued before.  Which one makes
\* no difference: an id is only ever compared with itself.
IdsFor(db, rows) ==
    LET unused == Ids \ db.issued
    IN  IF rows # {} THEN {v.id : v \in rows}
        ELSE {CHOOSE id \in unused : TRUE : n \in unused}

StateFor(desired) == IF desired = "STOPPED" THEN "STOPPED" ELSE "RUNNING"

StatusFor(desired) == [state |-> StateFor(desired)]

VmRow(r, id) ==
    [id |-> id, name |-> r.name, cpus |-> r.cpus, memory |-> r.memory,
     desired |-> r.desired, backend |-> r.backend, disks |-> r.disks,
     nics |-> r.nics, status |-> StatusFor(r.desired), by |-> r.by]

CreateVm(db, r) ==
    LET same == {v \in db.vms : v.name = r.name}
    IN  {Outcome([db EXCEPT !.vms = (@ \ same) \cup {VmRow(r, id)},
                            !.issued = @ \cup {id}],
                 Ok({[id |-> id, state |-> StateFor(r.desired)]})) :
           id \in IdsFor(db, same)}

Resized(v, r) == [v EXCEPT !.cpus   = IF r.cpus = 0 THEN @ ELSE r.cpus,
                           !.memory = IF r.memory = 0 THEN @ ELSE r.memory]

UpdateVm(db, r) ==
    LET hit == {v \in db.vms : v.id = r.id}
    IN  IF hit = {} THEN {Outcome(db, Error("NotFound"))}
        ELSE {Outcome([db EXCEPT !.vms = (@ \ hit) \cup {Resized(v, r) : v \in hit}],
                      Ok({}))}

\* The rows that are to run or to stop.
Switched(rows, r) ==
    {[x EXCEPT !.desired = r.desired, !.status = StatusFor(r.desired)] : x \in rows}

SetVmDesiredState(db, r) ==
    LET hit == {v \in db.vms : v.id = r.id}
    IN  IF hit = {} THEN {Outcome(db, Error("NotFound"))}
        ELSE {Outcome([db EXCEPT !.vms = (@ \ hit) \cup Switched(hit, r)], Ok({}))}

\* What a Delete RPC leaves of the tables, and its answer.
Removed(db, hit, next) == {IF hit = {} THEN Outcome(db, Error("NotFound"))
                           ELSE Outcome(next, Ok({}))}

DeleteVm(db, r) ==
    LET hit == {v \in db.vms : v.id = r.id}
    IN  Removed(db, hit, [db EXCEPT !.vms = @ \ hit])

WorkloadRow(r, id) ==
    [id |-> id, kind |-> r.kind, name |-> r.name, image |-> r.image,
     desired |-> r.desired, status |-> StatusFor(r.desired), by |-> r.by]

\* The state of the kind that was created; the other one is not set.
NewWorkload(r, id) ==
    LET state == StateFor(r.desired)
    IN  [id |-> id,
         vmState        |-> IF r.kind = "VM" THEN state ELSE "UNKNOWN",
         containerState |-> IF r.kind = "VM" THEN "UNKNOWN" ELSE state]

\* Without a VM spec or a container spec there is nothing to create.
CreateWorkload(db, r) ==
    LET same == {l \in db.workloads : l.kind = r.kind /\ l.name = r.name}
    IN  IF r.name = "" THEN {Outcome(db, Error("InvalidArgument"))}
        ELSE {Outcome([db EXCEPT !.workloads = (@ \ same) \cup {WorkloadRow(r, id)},
                                 !.issued = @ \cup {id}],
                      Ok({NewWorkload(r, id)})) : id \in IdsFor(db, same)}

SetWorkloadDesiredState(db, r) ==
    LET hit == {l \in db.workloads : l.kind = r.kind /\ l.id = r.id}
    IN  IF hit = {} THEN {Outcome(db, Error("NotFound"))}
        ELSE {Outcome([db EXCEPT !.workloads = (@ \ hit) \cup Switched(hit, r)],
                      Ok({}))}

DeleteWorkload(db, r) ==
    LET hit == {l \in db.workloads : l.kind = r.kind /\ l.id = r.id}
    IN  IF r.kind = "UNSPECIFIED" THEN {Outcome(db, Error("InvalidArgument"))}
        ELSE Removed(db, hit, [db EXCEPT !.workloads = @ \ hit])

\* All fields of a network are immutable: a second create changes nothing.
CreateNetwork(db, r) ==
    LET row  == [name |-> r.name, node |-> r.node, addr |-> r.addr,
                 type |-> r.type, nat |-> r.nat, by |-> r.by]
        same == {n \in db.networks : n.name = r.name /\ n.node = r.node}
    IN  {Outcome(IF same = {} THEN [db EXCEPT !.networks = @ \cup {row}] ELSE db,
                 Ok({}))}

\* Without a node, a name that is on several nodes cannot be resolved.
DeleteNetwork(db, r) ==
    LET hit == {n \in db.networks : n.name = r.name /\ r.node \in {"", n.node}}
    IN  IF \E m, n \in hit : m # n
        THEN {Outcome(db, Error("InvalidArgument"))}
        ELSE Removed(db, hit, [db EXCEPT !.networks = @ \ hit])

CreateSecurityGroup(db, r) ==
    LET row  == [name |-> r.name, rules |-> r.rules, by |-> r.by]
        same == {g \in db.groups : g.name = r.name}
    IN  {Outcome([db EXCEPT !.groups = (@ \ same) \cup {row}], Ok({}))}

\* A group takes its attachments with it.
DeleteSecurityGroup(db, r) ==
    LET hit == {g \in db.groups : g.name = r.name}
    IN  Removed(db, hit, [db EXCEPT !.groups = @ \ hit,
                                    !.attachments = {a \in @ : a.group # r.name}])

\* The attachments a request to attach or to detach is about.
Addressed(db, r) == {a \in db.attachments : /\ a.group = r.group
                                            /\ a.kind = r.kind
                                            /\ a.target = r.target
                                            /\ a.node = r.node}

AttachSecurityGroup(db, r) ==
    LET row == [group |-> r.group, kind |-> r.kind, target |-> r.target,
                node |-> r.node, by |-> r.by]
        same == Addressed(db, r)
    IN  IF \E g \in db.groups : g.name = r.group
        THEN {Outcome([db EXCEPT !.attachments = (@ \ same) \cup {row}], Ok({}))}
        ELSE {Outcome(db, Error("NotFound"))}

DetachSecurityGroup(db, r) ==
    LET hit == Addressed(db, r)
    IN  Removed(db, hit, [db EXCEPT !.attachments = @ \ hit])

\* The public key of a name is immutable as well.
CreateSshKey(db, r) ==
    LET row  == [name |-> r.name, key |-> r.key, by |-> r.by]
        same == {k \in db.keys : k.name = r.name}
    IN  {Outcome(IF same = {} THEN [db EXCEPT !.keys = @ \cup {row}] ELSE db, Ok({}))}

DeleteSshKey(db, r) ==
    LET hit == {k \in db.keys : k.name = r.name}
    IN  Removed(db, hit, [db EXCEPT !.keys = @ \ hit])

Serve(db, r) ==
    CASE r.rpc = "CreateVm"            -> CreateVm(db, r)
      [] r.rpc = "UpdateVm"            -> UpdateVm(db, r)
      [] r.rpc = "SetVmDesiredState"   -> SetVmDesiredState(db, r)
      [] r.rpc = "DeleteVm"            -> DeleteVm(db, r)
      [] r.rpc = "CreateWorkload"      -> CreateWorkload(db, r)
      [] r.rpc = "SetWorkloadDesiredState" -> SetWorkloadDesiredState(db, r)
      [] r.rpc = "DeleteWorkload"      -> DeleteWorkload(db, r)
      [] r.rpc = "CreateNetwork"       -> CreateNetwork(db, r)
      [] r.rpc = "DeleteNetwork"       -> DeleteNetwork(db, r)
      [] r.rpc = "CreateSecurityGroup" -> CreateSecurityGroup(db, r)
      [] r.rpc = "DeleteSecurityGroup" -> DeleteSecurityGroup(db, r)
      [] r.rpc = "AttachSecurityGroup" -> AttachSecurityGroup(db, r)
      [] r.rpc = "DetachSecurityGroup" -> DetachSecurityGroup(db, r)
      [] r.rpc = "CreateSshKey"        -> CreateSshKey(db, r)
      [] r.rpc = "DeleteSshKey"        -> DeleteSshKey(db, r)

-----------------------------------------------------------------------------
(* What somebody else may do to the tables: remove a row (a group takes its
   attachments with it), stop, start or resize what this provider created.  *)

Removals(db) ==
    {[db EXCEPT !.vms = @ \ {v}] : v \in db.vms}
    \cup {[db EXCEPT !.workloads = @ \ {l}] : l \in db.workloads}
    \cup {[db EXCEPT !.networks = @ \ {n}] : n \in db.networks}
    \cup {[db EXCEPT !.groups = @ \ {g},
                     !.attachments = {a \in @ : a.group # g.name}] : g \in db.groups}
    \cup {[db EXCEPT !.attachments = @ \ {a}] : a \in db.attachments}
    \cup {[db EXCEPT !.keys = @ \ {k}] : k \in db.keys}

Opposite(x) == IF x.status.state = "STOPPED" THEN "RUNNING" ELSE "STOPPED"

OthersCalls(db) ==
    {[rpc |-> "SetVmDesiredState", by |-> v.by, id |-> v.id,
      desired |-> Opposite(v)] : v \in db.vms}
    \cup {[rpc |-> "UpdateVm", by |-> v.by, id |-> v.id, cpus |-> v.cpus + 1,
            memory |-> 0] : v \in db.vms}
    \cup {[rpc |-> "SetWorkloadDesiredState", by |-> l.by, kind |-> l.kind,
            id |-> l.id, desired |-> Opposite(l)] : l \in db.workloads}

Interference(db) ==
    Removals(db)
      \cup {out.db : out \in UNION {Serve(db, r) : r \in OthersCalls(db)}}

\* A VM fails.
Failures(db) ==
    {[db EXCEPT !.vms = (@ \ {v}) \cup {[v EXCEPT !.status = [state |-> "ERROR"]]}] :
        v \in db.vms}

=============================================================================

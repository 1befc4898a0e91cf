----------------------------- MODULE ServiceProofs -----------------------------
(***************************************************************************)
(* The tables keep their types under every call and every removal, and     *)
(* every answer is one of those its RPC can come back with.  They stay     *)
(* coherent: ids and names tell rows apart, and an id that is gone does not *)
(* come back.                                                              *)
(***************************************************************************)
EXTENDS KcoreController, TLAPS

\* An id for a row comes from the table or was never issued; it is an id.
LEMMA IdsForTyped ==
    ASSUME NEW db, db.issued \subseteq Ids, NEW rows,
           \A v \in rows : v.id \in Ids,
           NEW id \in IdsFor(db, rows)
    PROVE  id \in Ids
<1>1. CASE rows # {}
  BY <1>1 DEF IdsFor
<1>2. CASE rows = {}
  <2> DEFINE unused == Ids \ db.issued
  <2>1. id = CHOOSE i \in unused : TRUE
    BY <1>2 DEF IdsFor
  <2>2. unused # {}
    BY <1>2 DEF IdsFor
  <2>3. (CHOOSE i \in unused : TRUE) \in unused
    BY <2>2
  <2> QED BY <2>1, <2>3
<1> QED BY <1>1, <1>2

\* Every RPC may fail with each of the codes.
LEMMA ErrorAnswers ==
    ASSUME NEW rpc, NEW code \in {"NotFound", "InvalidArgument", "Unavailable"}
    PROVE  Error(code) \in Answers(rpc)
BY DEF Answers, Errors

\* The RPCs that only tell whether they succeeded.
PlainRpcs == {"UpdateVm", "DeleteVm", "DeleteWorkload", "CreateNetwork",
              "DeleteNetwork", "CreateSecurityGroup", "DeleteSecurityGroup",
              "AttachSecurityGroup", "DetachSecurityGroup", "CreateSshKey",
              "DeleteSshKey", "SetVmDesiredState", "SetWorkloadDesiredState"}

\* They answer with nothing to read.
LEMMA PlainAnswers ==
    ASSUME NEW rpc \in PlainRpcs
    PROVE  Ok({}) \in Answers(rpc)
<1>1. CASE rpc = "UpdateVm"
  BY <1>1 DEF Answers, Response, UpdateVmResponses, Ok, Oks
<1>2. CASE rpc = "DeleteVm"
  BY <1>2 DEF Answers, Response, DeleteVmResponses, Ok, Oks
<1>3. CASE rpc = "DeleteWorkload"
  BY <1>3 DEF Answers, Response, DeleteWorkloadResponses, Ok, Oks
<1>4. CASE rpc = "CreateNetwork"
  BY <1>4 DEF Answers, Response, CreateNetworkResponses, Ok, Oks
<1>5. CASE rpc = "DeleteNetwork"
  BY <1>5 DEF Answers, Response, DeleteNetworkResponses, Ok, Oks
<1>6. CASE rpc = "CreateSecurityGroup"
  BY <1>6 DEF Answers, Response, CreateSecurityGroupResponses, Ok, Oks
<1>7. CASE rpc = "DeleteSecurityGroup"
  BY <1>7 DEF Answers, Response, DeleteSecurityGroupResponses, Ok, Oks
<1>8. CASE rpc = "AttachSecurityGroup"
  BY <1>8 DEF Answers, Response, AttachSecurityGroupResponses, Ok, Oks
<1>9. CASE rpc = "DetachSecurityGroup"
  BY <1>9 DEF Answers, Response, DetachSecurityGroupResponses, Ok, Oks
<1>10. CASE rpc = "CreateSshKey"
  BY <1>10 DEF Answers, Response, CreateSshKeyResponses, Ok, Oks
<1>11. CASE rpc = "DeleteSshKey"
  BY <1>11 DEF Answers, Response, DeleteSshKeyResponses, Ok, Oks
<1>12. CASE rpc = "SetVmDesiredState"
  BY <1>12 DEF Answers, Response, SetVmDesiredStateResponses, Ok, Oks
<1>13. CASE rpc = "SetWorkloadDesiredState"
  BY <1>13 DEF Answers, Response, SetWorkloadDesiredStateResponses, Ok, Oks
<1> QED BY <1>1, <1>2, <1>3, <1>4, <1>5, <1>6, <1>7, <1>8, <1>9, <1>10, <1>11, <1>12,
           <1>13 DEF PlainRpcs

\* A Delete RPC that finds nothing changes nothing.
LEMMA RemovedTyped ==
    ASSUME NEW db \in Databases, NEW next \in Databases, NEW hit, NEW rpc,
           Ok({}) \in Answers(rpc), NEW out \in Removed(db, hit, next)
    PROVE  out.db \in Databases /\ out.answer \in Answers(rpc)
<1>1. CASE hit = {}
  BY <1>1, ErrorAnswers DEF Removed, Outcome
<1>2. CASE hit # {}
  BY <1>2 DEF Removed, Outcome
<1> QED BY <1>1, <1>2

\* What is asked to run or to stop does, which is a state of a VM and of a
\* container.
LEMMA StatusForTyped ==
    ASSUME NEW desired
    PROVE  /\ StateFor(desired) \in VmStates \cap ContainerStates
           /\ StatusFor(desired) \in VmStatus \cap ContainerInfo
<1>1. StateFor(desired) \in VmStates \cap ContainerStates
  BY DEF StateFor, VmStates, ContainerStates
<1> QED BY <1>1 DEF StatusFor, VmStatus, ContainerInfo

\* CreateVm answers with one id and stores a row of the table's type.
LEMMA CreateVmTyped ==
    ASSUME NEW db \in Databases, NEW r \in CreateVmRequests,
           NEW out \in CreateVm(db, r)
    PROVE  /\ out.db \in Databases
           /\ out.answer \in Answers("CreateVm")
<1> DEFINE same == {v \in db.vms : v.name = r.name}
<1>1. PICK id \in IdsFor(db, same) :
         out = Outcome([db EXCEPT !.vms = (@ \ same) \cup {VmRow(r, id)},
                                  !.issued = @ \cup {id}],
                       Ok({[id |-> id, state |-> StateFor(r.desired)]}))
  BY DEF CreateVm
<1>2. id \in Ids
  BY IdsForTyped DEF Databases, Vms
<1>3. VmRow(r, id) \in Vms
  BY <1>2, StatusForTyped DEF VmRow, Vms, CreateVmRequests
<1>4. out.db \in Databases
  BY <1>1, <1>2, <1>3 DEF Outcome, Databases
<1>5. out.answer \in Answers("CreateVm")
  BY <1>1, <1>2, StatusForTyped
     DEF Outcome, Ok, Oks, Answers, Response, CreateVmResponses
<1> QED BY <1>4, <1>5

\* UpdateVm keeps the rows' type.
LEMMA UpdateVmTyped ==
    ASSUME NEW db \in Databases, NEW r \in UpdateVmRequests,
           NEW out \in UpdateVm(db, r)
    PROVE  out.db \in Databases /\ out.answer \in Answers("UpdateVm")
<1> DEFINE hit  == {v \in db.vms : v.id = r.id}
           next == [db EXCEPT !.vms = (@ \ hit) \cup {Resized(v, r) : v \in hit}]
<1>1. out = Outcome(db, Error("NotFound")) \/ out = Outcome(next, Ok({}))
  <2>1. CASE hit = {}
    BY <2>1 DEF UpdateVm
  <2>2. CASE hit # {}
    BY <2>2 DEF UpdateVm
  <2> QED BY <2>1, <2>2
<1>2. \A v \in Vms : Resized(v, r) \in Vms
  BY DEF Resized, Vms, UpdateVmRequests
<1>3. next \in Databases
  BY <1>2 DEF Databases
<1> HIDE DEF next
<1>4. out.db \in {db, next} /\ out.answer \in {Error("NotFound"), Ok({})}
  BY <1>1 DEF Outcome
<1> QED BY <1>3, <1>4, ErrorAnswers, PlainAnswers DEF PlainRpcs

\* SetVmDesiredState keeps the rows' type.
LEMMA SetVmDesiredStateTyped ==
    ASSUME NEW db \in Databases, NEW r \in SetVmDesiredStateRequests,
           NEW out \in SetVmDesiredState(db, r)
    PROVE  out.db \in Databases /\ out.answer \in Answers("SetVmDesiredState")
<1> DEFINE hit  == {v \in db.vms : v.id = r.id}
           next == [db EXCEPT !.vms = (@ \ hit) \cup Switched(hit, r)]
<1>1. out = Outcome(db, Error("NotFound")) \/ out = Outcome(next, Ok({}))
  <2>1. CASE hit = {}
    BY <2>1 DEF SetVmDesiredState
  <2>2. CASE hit # {}
    BY <2>2 DEF SetVmDesiredState
  <2> QED BY <2>1, <2>2
<1>2. Switched(hit, r) \subseteq Vms
  <2>1. r.desired \in States /\ StatusFor(r.desired) \in VmStatus
    BY StatusForTyped DEF SetVmDesiredStateRequests
  <2>2. \A v \in Vms :
           [v EXCEPT !.desired = r.desired, !.status = StatusFor(r.desired)] \in Vms
    BY <2>1 DEF Vms
  <2> QED BY <2>2 DEF Switched, Databases
<1>3. next \in Databases
  BY <1>2 DEF Databases
<1> HIDE DEF next
<1>4. out.db \in {db, next} /\ out.answer \in {Error("NotFound"), Ok({})}
  BY <1>1 DEF Outcome
<1> QED BY <1>3, <1>4, ErrorAnswers, PlainAnswers DEF PlainRpcs

\* DeleteVm removes rows.
LEMMA DeleteVmTyped ==
    ASSUME NEW db \in Databases, NEW r \in DeleteVmRequests,
           NEW out \in DeleteVm(db, r)
    PROVE  out.db \in Databases /\ out.answer \in Answers("DeleteVm")
<1> DEFINE hit  == {v \in db.vms : v.id = r.id}
           next == [db EXCEPT !.vms = @ \ hit]
<1>1. next \in Databases
  BY DEF Databases
<1>2. out \in Removed(db, hit, next)
  BY DEF DeleteVm
<1> QED BY <1>1, <1>2, RemovedTyped, PlainAnswers DEF PlainRpcs

\* CreateWorkload fails, or answers with one id and stores a row of its type.
LEMMA CreateWorkloadTyped ==
    ASSUME NEW db \in Databases, NEW r \in CreateWorkloadRequests,
           NEW out \in CreateWorkload(db, r)
    PROVE  out.db \in Databases /\ out.answer \in Answers("CreateWorkload")
<1> DEFINE same == {l \in db.workloads : l.kind = r.kind /\ l.name = r.name}
<1>1. CASE r.name = ""
  <2>1. out = Outcome(db, Error("InvalidArgument"))
    BY <1>1 DEF CreateWorkload
  <2> QED BY <2>1, ErrorAnswers DEF Outcome
<1>2. CASE r.name # ""
  <2>1. PICK id \in IdsFor(db, same) :
           out = Outcome([db EXCEPT !.workloads = (@ \ same) \cup {WorkloadRow(r, id)},
                                    !.issued = @ \cup {id}],
                         Ok({NewWorkload(r, id)}))
    BY <1>2 DEF CreateWorkload
  <2>2. id \in Ids
    BY IdsForTyped DEF Databases, Workloads, WorkloadsOf
  <2>3. WorkloadRow(r, id) \in Workloads
    BY <2>2, StatusForTyped
       DEF WorkloadRow, Workloads, WorkloadsOf, CreateWorkloadRequests
  <2>4. out.db \in Databases
    BY <2>1, <2>2, <2>3 DEF Outcome, Databases
  <2>5. out.answer \in Answers("CreateWorkload")
    <3>1. NewWorkload(r, id) \in
             [id : Ids, vmState : VmStates, containerState : ContainerStates]
      BY <2>2, StatusForTyped DEF NewWorkload, VmStates, ContainerStates
    <3> QED BY <2>1, <3>1
            DEF Outcome, Ok, Oks, Answers, Response, CreateWorkloadResponses
  <2> QED BY <2>4, <2>5
<1> QED BY <1>1, <1>2

\* SetWorkloadDesiredState keeps the rows' type, whatever their kind.
LEMMA SetWorkloadDesiredStateTyped ==
    ASSUME NEW db \in Databases, NEW r \in SetWorkloadDesiredStateRequests,
           NEW out \in SetWorkloadDesiredState(db, r)
    PROVE  /\ out.db \in Databases
           /\ out.answer \in Answers("SetWorkloadDesiredState")
<1> DEFINE hit  == {l \in db.workloads : l.kind = r.kind /\ l.id = r.id}
           next == [db EXCEPT !.workloads = (@ \ hit) \cup Switched(hit, r)]
<1>1. out = Outcome(db, Error("NotFound")) \/ out = Outcome(next, Ok({}))
  <2>1. CASE hit = {}
    BY <2>1 DEF SetWorkloadDesiredState
  <2>2. CASE hit # {}
    BY <2>2 DEF SetWorkloadDesiredState
  <2> QED BY <2>1, <2>2
<1>2. \A l \in Workloads :
         [l EXCEPT !.desired = r.desired, !.status = StatusFor(r.desired)] \in Workloads
  BY StatusForTyped DEF Workloads, WorkloadsOf, SetWorkloadDesiredStateRequests
<1>3. Switched(hit, r) \subseteq Workloads
  BY <1>2 DEF Switched, Databases
<1>4. next \in Databases
  BY <1>3 DEF Databases
<1> HIDE DEF next
<1>5. out.db \in {db, next} /\ out.answer \in {Error("NotFound"), Ok({})}
  BY <1>1 DEF Outcome
<1> QED BY <1>4, <1>5, ErrorAnswers, PlainAnswers DEF PlainRpcs

\* DeleteWorkload removes rows of the kind it is given.
LEMMA DeleteWorkloadTyped ==
    ASSUME NEW db \in Databases, NEW r \in DeleteWorkloadRequests,
           NEW out \in DeleteWorkload(db, r)
    PROVE  out.db \in Databases /\ out.answer \in Answers("DeleteWorkload")
<1> DEFINE hit  == {l \in db.workloads : l.kind = r.kind /\ l.id = r.id}
           next == [db EXCEPT !.workloads = @ \ hit]
<1>1. CASE r.kind = "UNSPECIFIED"
  BY <1>1, ErrorAnswers DEF DeleteWorkload, Outcome
<1>2. CASE r.kind # "UNSPECIFIED"
  <2>1. next \in Databases
    BY DEF Databases
  <2>2. out \in Removed(db, hit, next)
    BY <1>2 DEF DeleteWorkload
  <2> QED BY <2>1, <2>2, RemovedTyped, PlainAnswers DEF PlainRpcs
<1> QED BY <1>1, <1>2

\* A network is stored unless its name is taken on its node.
LEMMA CreateNetworkTyped ==
    ASSUME NEW db \in Databases, NEW r \in CreateNetworkRequests,
           NEW out \in CreateNetwork(db, r)
    PROVE  out.db \in Databases /\ out.answer \in Answers("CreateNetwork")
<1> DEFINE row == [name |-> r.name, node |-> r.node, addr |-> r.addr,
                   type |-> r.type, nat |-> r.nat, by |-> r.by]
<1>1. /\ out.db = db \/ out.db = [db EXCEPT !.networks = @ \cup {row}]
      /\ out.answer = Ok({})
  BY DEF CreateNetwork, Outcome
<1>2. row \in Networks
  BY DEF Networks, CreateNetworkRequests
<1>3. out.db \in Databases
  BY <1>1, <1>2 DEF Databases
<1> QED BY <1>1, <1>3, PlainAnswers DEF PlainRpcs

\* DeleteNetwork removes a network it can resolve.
LEMMA DeleteNetworkTyped ==
    ASSUME NEW db \in Databases, NEW r \in DeleteNetworkRequests,
           NEW out \in DeleteNetwork(db, r)
    PROVE  out.db \in Databases /\ out.answer \in Answers("DeleteNetwork")
<1> DEFINE hit  == {n \in db.networks : n.name = r.name /\ r.node \in {"", n.node}}
           next == [db EXCEPT !.networks = @ \ hit]
<1>1. CASE \E m, n \in hit : m # n
  <2>1. DeleteNetwork(db, r) = {Outcome(db, Error("InvalidArgument"))}
    BY <1>1 DEF DeleteNetwork
  <2> QED BY <2>1, ErrorAnswers DEF Outcome
<1>2. CASE ~ \E m, n \in hit : m # n
  <2>1. next \in Databases
    BY DEF Databases
  <2>2. out \in Removed(db, hit, next)
    BY <1>2 DEF DeleteNetwork
  <2> QED BY <2>1, <2>2, RemovedTyped, PlainAnswers DEF PlainRpcs
<1> QED BY <1>1, <1>2

\* A group is stored or replaced under its name.
LEMMA CreateSecurityGroupTyped ==
    ASSUME NEW db \in Databases, NEW r \in CreateSecurityGroupRequests,
           NEW out \in CreateSecurityGroup(db, r)
    PROVE  out.db \in Databases /\ out.answer \in Answers("CreateSecurityGroup")
<1> DEFINE row  == [name |-> r.name, rules |-> r.rules, by |-> r.by]
           same == {g \in db.groups : g.name = r.name}
<1>1. /\ out.db = [db EXCEPT !.groups = (@ \ same) \cup {row}]
      /\ out.answer = Ok({})
  BY DEF CreateSecurityGroup, Outcome
<1>2. row \in Groups
  BY DEF Groups, CreateSecurityGroupRequests
<1>3. out.db \in Databases
  BY <1>1, <1>2 DEF Databases
<1> QED BY <1>1, <1>3, PlainAnswers DEF PlainRpcs

\* DeleteSecurityGroup removes a group and the attachments that name it.
LEMMA DeleteSecurityGroupTyped ==
    ASSUME NEW db \in Databases, NEW r \in DeleteSecurityGroupRequests,
           NEW out \in DeleteSecurityGroup(db, r)
    PROVE  out.db \in Databases /\ out.answer \in Answers("DeleteSecurityGroup")
<1> DEFINE hit  == {g \in db.groups : g.name = r.name}
           next == [db EXCEPT !.groups = @ \ hit,
                              !.attachments = {a \in @ : a.group # r.name}]
<1>1. next \in Databases
  BY DEF Databases
<1>2. out \in Removed(db, hit, next)
  BY DEF DeleteSecurityGroup
<1> QED BY <1>1, <1>2, RemovedTyped, PlainAnswers DEF PlainRpcs

\* An attachment is stored or replaced, if its group exists.
LEMMA AttachSecurityGroupTyped ==
    ASSUME NEW db \in Databases, NEW r \in AttachSecurityGroupRequests,
           NEW out \in AttachSecurityGroup(db, r)
    PROVE  out.db \in Databases /\ out.answer \in Answers("AttachSecurityGroup")
<1> DEFINE row  == [group |-> r.group, kind |-> r.kind, target |-> r.target,
                    node |-> r.node, by |-> r.by]
           next == [db EXCEPT !.attachments = (@ \ Addressed(db, r)) \cup {row}]
<1>1. out = Outcome(db, Error("NotFound")) \/ out = Outcome(next, Ok({}))
  <2>1. CASE \E g \in db.groups : g.name = r.group
    BY <2>1 DEF AttachSecurityGroup
  <2>2. CASE ~ \E g \in db.groups : g.name = r.group
    BY <2>2 DEF AttachSecurityGroup
  <2> QED BY <2>1, <2>2
<1>2. row \in Attachments
  BY DEF Attachments, AttachSecurityGroupRequests
<1>3. next \in Databases
  BY <1>2 DEF Databases
<1> HIDE DEF next
<1>4. out.db \in {db, next} /\ out.answer \in {Error("NotFound"), Ok({})}
  BY <1>1 DEF Outcome
<1> QED BY <1>3, <1>4, ErrorAnswers, PlainAnswers DEF PlainRpcs

\* DetachSecurityGroup removes the attachment it addresses.
LEMMA DetachSecurityGroupTyped ==
    ASSUME NEW db \in Databases, NEW r \in DetachSecurityGroupRequests,
           NEW out \in DetachSecurityGroup(db, r)
    PROVE  out.db \in Databases /\ out.answer \in Answers("DetachSecurityGroup")
<1> DEFINE next == [db EXCEPT !.attachments = @ \ Addressed(db, r)]
<1>1. next \in Databases
  BY DEF Databases
<1>2. out \in Removed(db, Addressed(db, r), next)
  BY DEF DetachSecurityGroup
<1> QED BY <1>1, <1>2, RemovedTyped, PlainAnswers DEF PlainRpcs

\* A key is stored unless its name is taken.
LEMMA CreateSshKeyTyped ==
    ASSUME NEW db \in Databases, NEW r \in CreateSshKeyRequests,
           NEW out \in CreateSshKey(db, r)
    PROVE  out.db \in Databases /\ out.answer \in Answers("CreateSshKey")
<1> DEFINE row == [name |-> r.name, key |-> r.key, by |-> r.by]
<1>1. /\ out.db = db \/ out.db = [db EXCEPT !.keys = @ \cup {row}]
      /\ out.answer = Ok({})
  BY DEF CreateSshKey, Outcome
<1>2. row \in SshKeys
  BY DEF SshKeys, CreateSshKeyRequests
<1>3. out.db \in Databases
  BY <1>1, <1>2 DEF Databases
<1> QED BY <1>1, <1>3, PlainAnswers DEF PlainRpcs

\* DeleteSshKey removes rows.
LEMMA DeleteSshKeyTyped ==
    ASSUME NEW db \in Databases, NEW r \in DeleteSshKeyRequests,
           NEW out \in DeleteSshKey(db, r)
    PROVE  out.db \in Databases /\ out.answer \in Answers("DeleteSshKey")
<1> DEFINE hit  == {k \in db.keys : k.name = r.name}
           next == [db EXCEPT !.keys = @ \ hit]
<1>1. next \in Databases
  BY DEF Databases
<1>2. out \in Removed(db, hit, next)
  BY DEF DeleteSshKey
<1> QED BY <1>1, <1>2, RemovedTyped, PlainAnswers DEF PlainRpcs

-----------------------------------------------------------------------------

\* A request to create is of one of six forms.
LEMMA CreateCases ==
    ASSUME NEW db, NEW r \in CreateRequests
    PROVE  \/ r \in CreateVmRequests /\ Serve(db, r) = CreateVm(db, r)
           \/ r \in CreateWorkloadRequests /\ Serve(db, r) = CreateWorkload(db, r)
           \/ r \in CreateNetworkRequests /\ Serve(db, r) = CreateNetwork(db, r)
           \/ r \in CreateSecurityGroupRequests
              /\ Serve(db, r) = CreateSecurityGroup(db, r)
           \/ r \in AttachSecurityGroupRequests
              /\ Serve(db, r) = AttachSecurityGroup(db, r)
           \/ r \in CreateSshKeyRequests /\ Serve(db, r) = CreateSshKey(db, r)
<1>1. CASE r \in CreateVmRequests
  BY <1>1 DEF CreateVmRequests, Serve
<1>2. CASE r \in CreateWorkloadRequests
  BY <1>2 DEF CreateWorkloadRequests, Serve
<1>3. CASE r \in CreateNetworkRequests
  BY <1>3 DEF CreateNetworkRequests, Serve
<1>4. CASE r \in CreateSecurityGroupRequests
  BY <1>4 DEF CreateSecurityGroupRequests, Serve
<1>5. CASE r \in AttachSecurityGroupRequests
  BY <1>5 DEF AttachSecurityGroupRequests, Serve
<1>6. CASE r \in CreateSshKeyRequests
  BY <1>6 DEF CreateSshKeyRequests, Serve
<1> QED BY <1>1, <1>2, <1>3, <1>4, <1>5, <1>6 DEF CreateRequests

\* So is a request to delete.
LEMMA DeleteCases ==
    ASSUME NEW db, NEW r \in DeleteRequests
    PROVE  \/ r \in DeleteVmRequests /\ Serve(db, r) = DeleteVm(db, r)
           \/ r \in DeleteWorkloadRequests /\ Serve(db, r) = DeleteWorkload(db, r)
           \/ r \in DeleteNetworkRequests /\ Serve(db, r) = DeleteNetwork(db, r)
           \/ r \in DeleteSecurityGroupRequests
              /\ Serve(db, r) = DeleteSecurityGroup(db, r)
           \/ r \in DetachSecurityGroupRequests
              /\ Serve(db, r) = DetachSecurityGroup(db, r)
           \/ r \in DeleteSshKeyRequests /\ Serve(db, r) = DeleteSshKey(db, r)
<1>1. CASE r \in DeleteVmRequests
  BY <1>1 DEF DeleteVmRequests, Serve
<1>2. CASE r \in DeleteWorkloadRequests
  BY <1>2 DEF DeleteWorkloadRequests, Serve
<1>3. CASE r \in DeleteNetworkRequests
  BY <1>3 DEF DeleteNetworkRequests, Serve
<1>4. CASE r \in DeleteSecurityGroupRequests
  BY <1>4 DEF DeleteSecurityGroupRequests, Serve
<1>5. CASE r \in DetachSecurityGroupRequests
  BY <1>5 DEF DetachSecurityGroupRequests, Serve
<1>6. CASE r \in DeleteSshKeyRequests
  BY <1>6 DEF DeleteSshKeyRequests, Serve
<1> QED BY <1>1, <1>2, <1>3, <1>4, <1>5, <1>6 DEF DeleteRequests

\* So is a request that changes what is there.
LEMMA UpdateCases ==
    ASSUME NEW db, NEW r \in UpdateRequests
    PROVE  \/ /\ r \in UpdateVmRequests
              /\ r.rpc = "UpdateVm" /\ Serve(db, r) = UpdateVm(db, r)
           \/ /\ r \in SetVmDesiredStateRequests
              /\ r.rpc = "SetVmDesiredState" /\ Serve(db, r) = SetVmDesiredState(db, r)
           \/ /\ r \in SetWorkloadDesiredStateRequests
              /\ r.rpc = "SetWorkloadDesiredState"
              /\ Serve(db, r) = SetWorkloadDesiredState(db, r)
<1>1. CASE r \in UpdateVmRequests
  BY <1>1 DEF UpdateVmRequests, Serve
<1>2. CASE r \in SetVmDesiredStateRequests
  BY <1>2 DEF SetVmDesiredStateRequests, Serve
<1>3. CASE r \in SetWorkloadDesiredStateRequests
  BY <1>3 DEF SetWorkloadDesiredStateRequests, Serve
<1> QED BY <1>1, <1>2, <1>3 DEF UpdateRequests

\* Whatever the provider asks for, the tables keep their types and the answer is
\* one of those the generated client can return for that RPC.
THEOREM ServeTyped ==
    ASSUME NEW db \in Databases, NEW r \in Requests, NEW out \in Serve(db, r)
    PROVE  out.db \in Databases /\ out.answer \in Answers(r.rpc)
<1>1. CASE r \in CreateRequests
  BY <1>1, CreateCases, CreateVmTyped, CreateWorkloadTyped, CreateNetworkTyped,
     CreateSecurityGroupTyped, AttachSecurityGroupTyped, CreateSshKeyTyped
     DEF CreateVmRequests, CreateWorkloadRequests, CreateNetworkRequests,
         CreateSecurityGroupRequests, AttachSecurityGroupRequests,
         CreateSshKeyRequests
<1>2. CASE r \in UpdateRequests
  BY <1>2, UpdateCases, UpdateVmTyped, SetVmDesiredStateTyped,
     SetWorkloadDesiredStateTyped
<1>3. CASE r \in DeleteRequests
  BY <1>3, DeleteCases, DeleteVmTyped, DeleteWorkloadTyped, DeleteNetworkTyped,
     DeleteSecurityGroupTyped, DetachSecurityGroupTyped, DeleteSshKeyTyped
     DEF DeleteVmRequests, DeleteWorkloadRequests, DeleteNetworkRequests,
         DeleteSecurityGroupRequests, DetachSecurityGroupRequests,
         DeleteSshKeyRequests
<1> QED BY <1>1, <1>2, <1>3 DEF Requests

\* A lookup answers NotFound or with rows of its type.
LEMMA FoundTyped ==
    ASSUME NEW rpc, NEW Rows, Response(rpc) = Oks(SUBSET Rows), NEW rows \in SUBSET Rows
    PROVE  Found(rows) \in Answers(rpc)
<1>1. CASE rows = {}
  BY <1>1, ErrorAnswers DEF Found
<1>2. CASE rows # {}
  BY <1>2 DEF Found, Ok, Oks, Answers
<1> QED BY <1>1, <1>2

\* The calls that only read answer with what their RPC can return.
THEOREM ReadTyped ==
    ASSUME NEW db \in Databases, NEW q \in Queries
    PROVE  Read(db, q) \in Answers(q.rpc)
<1>1. CASE q \in GetVmRequests
  <2>1. q.rpc = "GetVm" /\ Read(db, q) = Found({v \in db.vms : v.id = q.id})
    BY <1>1 DEF GetVmRequests, Read, GetVm
  <2>2. Response("GetVm") = Oks(SUBSET Vms)
    BY DEF Response, GetVmResponses
  <2> QED BY <2>1, <2>2, FoundTyped DEF Databases
<1>2. CASE q \in GetWorkloadRequests
  <2>1. /\ q.rpc = "GetWorkload"
        /\ Read(db, q) = Found({l \in db.workloads : l.kind = q.kind /\ l.id = q.id})
    BY <1>2 DEF GetWorkloadRequests, Read, GetWorkload
  <2>2. Response("GetWorkload") = Oks(SUBSET Workloads)
    BY DEF Response, GetWorkloadResponses
  <2> QED BY <2>1, <2>2, FoundTyped DEF Databases
<1>3. CASE q \in ListNetworksRequests
  <2>1. /\ q.rpc = "ListNetworks"
        /\ Read(db, q) = Ok({n \in db.networks : q.node \in {"", n.node}})
    BY <1>3 DEF ListNetworksRequests, Read, ListNetworks
  <2>2. Response("ListNetworks") = Oks(SUBSET Networks)
    BY DEF Response, ListNetworksResponses
  <2> QED BY <2>1, <2>2 DEF Databases, Ok, Oks, Answers
<1>4. CASE q \in GetSecurityGroupRequests
  <2> DEFINE group(g) == [name |-> g.name,
                          attachments |-> {a \in db.attachments : a.group = q.name}]
             rows == {group(g) : g \in {h \in db.groups : h.name = q.name}}
  <2>1. q.rpc = "GetSecurityGroup" /\ Read(db, q) = Found(rows)
    BY <1>4 DEF GetSecurityGroupRequests, Read, GetSecurityGroup
  <2>2. Response("GetSecurityGroup") =
          Oks(SUBSET [name : STRING, attachments : SUBSET Attachments])
    BY DEF Response, GetSecurityGroupResponses
  <2>3. rows \in SUBSET [name : STRING, attachments : SUBSET Attachments]
    BY DEF Databases, Groups
  <2> QED BY <2>1, <2>2, <2>3, FoundTyped
<1>5. CASE q \in GetSshKeyRequests
  <2>1. q.rpc = "GetSshKey" /\ Read(db, q) = Found({k \in db.keys : k.name = q.name})
    BY <1>5 DEF GetSshKeyRequests, Read, GetSshKey
  <2>2. Response("GetSshKey") = Oks(SUBSET SshKeys)
    BY DEF Response, GetSshKeyResponses
  <2> QED BY <2>1, <2>2, FoundTyped DEF Databases
<1> QED BY <1>1, <1>2, <1>3, <1>4, <1>5 DEF Queries

\* The tables keep their types when somebody else removes a row.
THEOREM RemovalsTyped ==
    ASSUME NEW db \in Databases, NEW next \in Removals(db)
    PROVE  next \in Databases
<1>1. CASE \E v \in db.vms : next = [db EXCEPT !.vms = @ \ {v}]
  BY <1>1 DEF Databases
<1>2. CASE \E l \in db.workloads : next = [db EXCEPT !.workloads = @ \ {l}]
  BY <1>2 DEF Databases
<1>3. CASE \E n \in db.networks : next = [db EXCEPT !.networks = @ \ {n}]
  BY <1>3 DEF Databases
<1>4. CASE \E g \in db.groups :
             next = [db EXCEPT !.groups = @ \ {g},
                               !.attachments = {a \in @ : a.group # g.name}]
  BY <1>4 DEF Databases
<1>5. CASE \E a \in db.attachments : next = [db EXCEPT !.attachments = @ \ {a}]
  BY <1>5 DEF Databases
<1>6. CASE \E k \in db.keys : next = [db EXCEPT !.keys = @ \ {k}]
  BY <1>6 DEF Databases
<1> QED BY <1>1, <1>2, <1>3, <1>4, <1>5, <1>6 DEF Removals

\* Other clients only change what is there.
LEMMA OthersCallsTyped ==
    ASSUME NEW db \in Databases
    PROVE  OthersCalls(db) \subseteq UpdateRequests
<1>1. \A x : Opposite(x) \in States
  BY DEF Opposite, States
<1>2. \A v \in db.vms :
         [rpc |-> "SetVmDesiredState", by |-> v.by, id |-> v.id,
          desired |-> Opposite(v)] \in SetVmDesiredStateRequests
  BY <1>1, IdsAssumption DEF Databases, Vms, SetVmDesiredStateRequests
<1>3. \A v \in db.vms :
         [rpc |-> "UpdateVm", by |-> v.by, id |-> v.id, cpus |-> v.cpus + 1,
          memory |-> 0] \in UpdateVmRequests
  <2> TAKE v \in db.vms
  <2>1. v.by \in Objs /\ v.id \in STRING /\ v.cpus \in Int
    BY IdsAssumption DEF Databases, Vms
  <2> QED BY <2>1 DEF UpdateVmRequests
<1>4. \A l \in db.workloads :
         [rpc |-> "SetWorkloadDesiredState", by |-> l.by, kind |-> l.kind,
          id |-> l.id, desired |-> Opposite(l)] \in SetWorkloadDesiredStateRequests
  <2> TAKE l \in db.workloads
  <2>1. l.by \in Objs /\ l.id \in STRING /\ l.kind \in WorkloadKinds
    BY IdsAssumption DEF Databases, Workloads, WorkloadsOf, WorkloadKinds
  <2> QED BY <1>1, <2>1 DEF SetWorkloadDesiredStateRequests
<1> QED BY <1>2, <1>3, <1>4 DEF OthersCalls, UpdateRequests

\* The tables keep their types when other clients work on them.
THEOREM InterferenceTyped ==
    ASSUME NEW db \in Databases, NEW next \in Interference(db)
    PROVE  next \in Databases
<1>1. CASE next \in Removals(db)
  BY <1>1, RemovalsTyped
<1>2. CASE \E r \in OthersCalls(db) : \E out \in Serve(db, r) : next = out.db
  BY <1>2, OthersCallsTyped, ServeTyped DEF Requests
<1> QED BY <1>1, <1>2 DEF Interference

\* They keep them when a VM fails.
THEOREM FailuresTyped ==
    ASSUME NEW db \in Databases, NEW next \in Failures(db)
    PROVE  next \in Databases
<1>1. [state |-> "ERROR"] \in VmStatus
  BY DEF VmStatus, VmStates
<1>2. \A v \in Vms : [v EXCEPT !.status = [state |-> "ERROR"]] \in Vms
  BY <1>1 DEF Vms
<1> QED BY <1>2 DEF Failures, Databases

-----------------------------------------------------------------------------
(* Ids and names                                                            *)

\* A VM or a workload has an issued id that no other one has, VMs differ in
\* their names and workloads in kind or name; attachments have their group.
Coherent(db) ==
    /\ \A x \in db.vms \cup db.workloads : x.id \in db.issued
    /\ \A x, y \in db.vms : x.id = y.id \/ x.name = y.name => x = y
    /\ \A x, y \in db.workloads :
          x.id = y.id \/ (x.kind = y.kind /\ x.name = y.name) => x = y
    /\ \A x \in db.vms, y \in db.workloads : x.id # y.id
    /\ \A a \in db.attachments : \E g \in db.groups : g.name = a.group

\* What neither updates nor other clients change in a row.
VmKept(u, v) ==
    /\ u.id = v.id /\ u.name = v.name /\ u.backend = v.backend
    /\ u.disks = v.disks /\ u.nics = v.nics /\ u.by = v.by

WorkloadKept(k, l) ==
    /\ k.id = l.id /\ k.kind = l.kind /\ k.name = l.name /\ k.image = l.image
    /\ k.by = l.by

\* Every row that is there next was there before.
NothingNew(db, next) ==
    /\ next.issued = db.issued
    /\ \A v \in next.vms : \E u \in db.vms : VmKept(u, v)
    /\ \A l \in next.workloads : \E k \in db.workloads : WorkloadKept(k, l)
    /\ next.networks \subseteq db.networks
    /\ next.groups \subseteq db.groups
    /\ next.attachments \subseteq db.attachments
    /\ next.keys \subseteq db.keys

\* Every row that is there next was there before or is what r asks for.
NewByRequest(db, r, next) ==
    /\ db.issued \subseteq next.issued
    /\ \A v \in next.vms :
          \/ \E u \in db.vms : VmKept(u, v)
          \/ r.rpc = "CreateVm" /\ v = VmRow(r, v.id)
    /\ \A l \in next.workloads :
          \/ \E k \in db.workloads : WorkloadKept(k, l)
          \/ r.rpc = "CreateWorkload" /\ l = WorkloadRow(r, l.id)
    /\ \A n \in next.networks :
          \/ n \in db.networks
          \/ /\ r.rpc = "CreateNetwork"
             /\ n.name = r.name /\ n.node = r.node /\ n.addr = r.addr
             /\ n.type = r.type /\ n.nat = r.nat /\ n.by = r.by
    /\ \A g \in next.groups :
          \/ g \in db.groups
          \/ /\ r.rpc = "CreateSecurityGroup"
             /\ g.name = r.name /\ g.rules = r.rules /\ g.by = r.by
    /\ \A a \in next.attachments :
          \/ a \in db.attachments
          \/ /\ r.rpc = "AttachSecurityGroup"
             /\ a.group = r.group /\ a.kind = r.kind /\ a.target = r.target
             /\ a.node = r.node /\ a.by = r.by
    /\ \A k \in next.keys :
          \/ k \in db.keys
          \/ r.rpc = "CreateSshKey" /\ k.name = r.name /\ k.key = r.key /\ k.by = r.by

\* The ids next in use were in use before, for the same kind of thing, or were
\* never issued.
NoReturn(db, next) ==
    /\ db.issued \subseteq next.issued
    /\ \A v \in next.vms :
          v.id \in Ids \ db.issued \/ \E u \in db.vms : u.id = v.id
    /\ \A l \in next.workloads :
          \/ l.id \in Ids \ db.issued
          \/ \E k \in db.workloads : k.id = l.id /\ k.kind = l.kind

\* Rows that were there keep their ids.
LEMMA NothingNewNoReturn ==
    ASSUME NEW db, NEW next, NothingNew(db, next)
    PROVE  NoReturn(db, next)
BY DEF NothingNew, NoReturn, VmKept, WorkloadKept

\* The id for rows that exist is theirs; without rows it is one never issued.
LEMMA IdsForChosen ==
    ASSUME NEW db, NEW rows, NEW id \in IdsFor(db, rows)
    PROVE  \/ \E v \in rows : id = v.id
           \/ rows = {} /\ id \in Ids \ db.issued
<1>1. CASE rows # {}
  BY <1>1 DEF IdsFor
<1>2. CASE rows = {}
  <2> DEFINE unused == Ids \ db.issued
  <2>1. id = CHOOSE i \in unused : TRUE
    BY <1>2 DEF IdsFor
  <2>2. unused # {}
    BY <1>2 DEF IdsFor
  <2>3. (CHOOSE i \in unused : TRUE) \in unused
    BY <2>2
  <2> QED BY <1>2, <2>1, <2>3
<1> QED BY <1>1, <1>2

\* Tables with fewer rows are coherent, if attachments go with their group.
LEMMA FewerCoherent ==
    ASSUME NEW db, Coherent(db), NEW next,
           next.issued = db.issued, next.vms \subseteq db.vms,
           next.workloads \subseteq db.workloads,
           \A a \in next.attachments : \E g \in next.groups : g.name = a.group
    PROVE  Coherent(next)
BY DEF Coherent

\* A call that rewrites some VMs keeps what tells them apart.
LEMMA VmsRewritten ==
    ASSUME NEW db \in Databases, Coherent(db), NEW hit, hit \subseteq db.vms,
           NEW f, \A v \in hit : VmKept(v, f[v]),
           NEW next, next = [db EXCEPT !.vms = (@ \ hit) \cup {f[v] : v \in hit}]
    PROVE  Coherent(next) /\ NothingNew(db, next)
<1>1. /\ next.vms = (db.vms \ hit) \cup {f[v] : v \in hit}
      /\ next.issued = db.issued /\ next.workloads = db.workloads
      /\ next.networks = db.networks /\ next.groups = db.groups
      /\ next.attachments = db.attachments /\ next.keys = db.keys
  BY DEF Databases
<1> DEFINE from(v) == IF v \in hit THEN f[v] ELSE v
<1>2. \A v \in next.vms : \E u \in db.vms : v = from(u) /\ VmKept(u, v)
  BY <1>1 DEF VmKept
<1>3. NothingNew(db, next)
  BY <1>1, <1>2 DEF NothingNew, WorkloadKept
<1> HIDE DEF from
<1>4. \A x, y \in next.vms : x.id = y.id \/ x.name = y.name => x = y
  BY <1>2 DEF Coherent, VmKept
<1> QED BY <1>1, <1>2, <1>3, <1>4 DEF Coherent, VmKept

\* So does one that rewrites some workloads.
LEMMA WorkloadsRewritten ==
    ASSUME NEW db \in Databases, Coherent(db), NEW hit, hit \subseteq db.workloads,
           NEW f, \A l \in hit : WorkloadKept(l, f[l]),
           NEW next,
           next = [db EXCEPT !.workloads = (@ \ hit) \cup {f[l] : l \in hit}]
    PROVE  Coherent(next) /\ NothingNew(db, next)
<1>1. /\ next.workloads = (db.workloads \ hit) \cup {f[l] : l \in hit}
      /\ next.issued = db.issued /\ next.vms = db.vms
      /\ next.networks = db.networks /\ next.groups = db.groups
      /\ next.attachments = db.attachments /\ next.keys = db.keys
  BY DEF Databases
<1> DEFINE from(l) == IF l \in hit THEN f[l] ELSE l
<1>2. \A l \in next.workloads :
         \E k \in db.workloads : l = from(k) /\ WorkloadKept(k, l)
  BY <1>1 DEF WorkloadKept
<1>3. NothingNew(db, next)
  BY <1>1, <1>2 DEF NothingNew, VmKept
<1> HIDE DEF from
<1>4. \A x, y \in next.workloads :
         x.id = y.id \/ (x.kind = y.kind /\ x.name = y.name) => x = y
  BY <1>2 DEF Coherent, WorkloadKept
<1> QED BY <1>1, <1>2, <1>3, <1>4 DEF Coherent, WorkloadKept

\* CreateVm replaces the row of that name, which keeps its id.
LEMMA CreateVmCoherent ==
    ASSUME NEW db \in Databases, Coherent(db), NEW r \in CreateVmRequests,
           NEW out \in CreateVm(db, r)
    PROVE  /\ Coherent(out.db) /\ NoReturn(db, out.db)
           /\ NewByRequest(db, r, out.db)
<1> DEFINE same == {v \in db.vms : v.name = r.name}
<1>1. PICK id \in IdsFor(db, same) :
         out = Outcome([db EXCEPT !.vms = (@ \ same) \cup {VmRow(r, id)},
                                  !.issued = @ \cup {id}],
                       Ok({[id |-> id, state |-> StateFor(r.desired)]}))
  BY DEF CreateVm
<1>2. /\ out.db.vms = (db.vms \ same) \cup {VmRow(r, id)}
      /\ out.db.issued = db.issued \cup {id}
      /\ out.db.workloads = db.workloads /\ out.db.networks = db.networks
      /\ out.db.groups = db.groups /\ out.db.attachments = db.attachments
      /\ out.db.keys = db.keys
  BY <1>1 DEF Databases, Outcome
<1>3. (\E v \in same : id = v.id) \/ (same = {} /\ id \in Ids \ db.issued)
  BY IdsForChosen
<1>4. VmRow(r, id).id = id /\ VmRow(r, id).name = r.name
  BY DEF VmRow
<1>5. r.rpc = "CreateVm"
  BY DEF CreateVmRequests
<1>6. Coherent(out.db)
  <2>1. \A v \in db.vms \ same : v.id # id /\ v.name # r.name
    BY <1>3 DEF Coherent
  <2>2. \A l \in db.workloads : l.id # id
    BY <1>3 DEF Coherent
  <2> QED BY <1>2, <1>4, <2>1, <2>2 DEF Coherent
<1>7. NoReturn(db, out.db)
  BY <1>2, <1>3, <1>4 DEF NoReturn
<1>8. NewByRequest(db, r, out.db)
  <2>1. \A v \in out.db.vms : v \in db.vms \/ v = VmRow(r, v.id)
    BY <1>2, <1>4
  <2> QED BY <1>2, <1>5, <2>1 DEF NewByRequest, VmKept, WorkloadKept
<1> QED BY <1>6, <1>7, <1>8

\* So does CreateWorkload with that of its kind and name.
LEMMA CreateWorkloadCoherent ==
    ASSUME NEW db \in Databases, Coherent(db), NEW r \in CreateWorkloadRequests,
           NEW out \in CreateWorkload(db, r)
    PROVE  /\ Coherent(out.db) /\ NoReturn(db, out.db)
           /\ NewByRequest(db, r, out.db)
<1> DEFINE same == {l \in db.workloads : l.kind = r.kind /\ l.name = r.name}
<1>1. \/ out = Outcome(db, Error("InvalidArgument"))
      \/ \E id \in IdsFor(db, same) :
            out = Outcome([db EXCEPT !.workloads = (@ \ same) \cup {WorkloadRow(r, id)},
                                     !.issued = @ \cup {id}],
                          Ok({NewWorkload(r, id)}))
  <2>1. CASE r.name = ""
    BY <2>1, Zenon DEF CreateWorkload
  <2>2. CASE r.name # ""
    BY <2>2, Zenon DEF CreateWorkload
  <2> QED BY <2>1, <2>2, Zenon
<1>2. CASE out = Outcome(db, Error("InvalidArgument"))
  <2>1. out.db = db
    BY <1>2 DEF Outcome
  <2> QED BY <2>1 DEF NoReturn, NewByRequest, VmKept, WorkloadKept
<1>3. ASSUME NEW id \in IdsFor(db, same),
             out = Outcome([db EXCEPT !.workloads = (@ \ same) \cup {WorkloadRow(r, id)},
                                      !.issued = @ \cup {id}],
                           Ok({NewWorkload(r, id)}))
      PROVE  /\ Coherent(out.db) /\ NoReturn(db, out.db)
             /\ NewByRequest(db, r, out.db)
  <2>2. /\ out.db.workloads = (db.workloads \ same) \cup {WorkloadRow(r, id)}
        /\ out.db.issued = db.issued \cup {id}
        /\ out.db.vms = db.vms /\ out.db.networks = db.networks
        /\ out.db.groups = db.groups /\ out.db.attachments = db.attachments
        /\ out.db.keys = db.keys
    BY <1>3 DEF Databases, Outcome
  <2>3. (\E l \in same : id = l.id) \/ (same = {} /\ id \in Ids \ db.issued)
    BY IdsForChosen
  <2>4. /\ WorkloadRow(r, id).id = id /\ WorkloadRow(r, id).kind = r.kind
        /\ WorkloadRow(r, id).name = r.name
    BY DEF WorkloadRow
  <2>5. r.rpc = "CreateWorkload"
    BY DEF CreateWorkloadRequests
  <2>6. Coherent(out.db)
    <3>1. \A l \in db.workloads \ same :
             l.id # id /\ ~ (l.kind = r.kind /\ l.name = r.name)
      BY <2>3 DEF Coherent
    <3>2. \A v \in db.vms : v.id # id
      BY <2>3 DEF Coherent
    <3> QED BY <2>2, <2>4, <3>1, <3>2 DEF Coherent
  <2>7. NoReturn(db, out.db)
    BY <2>2, <2>3, <2>4 DEF NoReturn
  <2>8. NewByRequest(db, r, out.db)
    <3>1. \A l \in out.db.workloads : l \in db.workloads \/ l = WorkloadRow(r, l.id)
      BY <2>2, <2>4
    <3> QED BY <2>2, <2>5, <3>1 DEF NewByRequest, VmKept, WorkloadKept
  <2> QED BY <2>6, <2>7, <2>8
<1> QED BY <1>1, <1>2, <1>3

\* The other creations leave VMs and workloads alone, and no group goes.
LEMMA NamedCreatedCoherent ==
    ASSUME NEW db \in Databases, Coherent(db), NEW r, NEW out,
           \/ r \in CreateNetworkRequests /\ out \in CreateNetwork(db, r)
           \/ r \in CreateSecurityGroupRequests /\ out \in CreateSecurityGroup(db, r)
           \/ r \in AttachSecurityGroupRequests /\ out \in AttachSecurityGroup(db, r)
           \/ r \in CreateSshKeyRequests /\ out \in CreateSshKey(db, r)
    PROVE  /\ Coherent(out.db) /\ NoReturn(db, out.db)
           /\ NewByRequest(db, r, out.db)
<1>1. CASE r \in CreateNetworkRequests /\ out \in CreateNetwork(db, r)
  <2> DEFINE row == [name |-> r.name, node |-> r.node, addr |-> r.addr,
                     type |-> r.type, nat |-> r.nat, by |-> r.by]
  <2>1. out.db = db \/ out.db = [db EXCEPT !.networks = @ \cup {row}]
    BY <1>1 DEF CreateNetwork, Outcome
  <2>2. /\ out.db.networks \subseteq db.networks \cup {row}
        /\ out.db.issued = db.issued /\ out.db.vms = db.vms
        /\ out.db.workloads = db.workloads /\ out.db.groups = db.groups
        /\ out.db.attachments = db.attachments /\ out.db.keys = db.keys
    BY <2>1 DEF Databases
  <2>3. r.rpc = "CreateNetwork"
    BY <1>1 DEF CreateNetworkRequests
  <2> QED BY <2>2, <2>3 DEF Coherent, NoReturn, NewByRequest, VmKept, WorkloadKept
<1>2. CASE r \in CreateSecurityGroupRequests /\ out \in CreateSecurityGroup(db, r)
  <2> DEFINE row  == [name |-> r.name, rules |-> r.rules, by |-> r.by]
             same == {g \in db.groups : g.name = r.name}
  <2>1. out.db = [db EXCEPT !.groups = (@ \ same) \cup {row}]
    BY <1>2 DEF CreateSecurityGroup, Outcome
  <2>2. /\ out.db.groups = (db.groups \ same) \cup {row}
        /\ out.db.issued = db.issued /\ out.db.vms = db.vms
        /\ out.db.workloads = db.workloads /\ out.db.networks = db.networks
        /\ out.db.attachments = db.attachments /\ out.db.keys = db.keys
    BY <2>1 DEF Databases
  <2>3. r.rpc = "CreateSecurityGroup"
    BY <1>2 DEF CreateSecurityGroupRequests
  <2>4. \A g \in db.groups : \E h \in out.db.groups : h.name = g.name
    <3>1. row.name = r.name /\ row \in out.db.groups
      BY <2>2
    <3> HIDE DEF row
    <3>2. \A g \in db.groups : g \in out.db.groups \/ g.name = row.name
      BY <2>2, <3>1
    <3> QED BY <3>1, <3>2
  <2>5. Coherent(out.db)
    BY <2>2, <2>4 DEF Coherent
  <2> QED BY <2>2, <2>3, <2>5 DEF NoReturn, NewByRequest, VmKept, WorkloadKept
<1>3. CASE r \in AttachSecurityGroupRequests /\ out \in AttachSecurityGroup(db, r)
  <2> DEFINE row == [group |-> r.group, kind |-> r.kind, target |-> r.target,
                     node |-> r.node, by |-> r.by]
  <2>1. CASE \E g \in db.groups : g.name = r.group
    <3>1. out.db = [db EXCEPT !.attachments = (@ \ Addressed(db, r)) \cup {row}]
      BY <1>3, <2>1 DEF AttachSecurityGroup, Outcome
    <3>2. /\ out.db.attachments \subseteq db.attachments \cup {row}
          /\ out.db.issued = db.issued /\ out.db.vms = db.vms
          /\ out.db.workloads = db.workloads /\ out.db.groups = db.groups
          /\ out.db.networks = db.networks /\ out.db.keys = db.keys
      BY <3>1 DEF Databases
    <3>3. r.rpc = "AttachSecurityGroup"
      BY <1>3 DEF AttachSecurityGroupRequests
    <3>4. Coherent(out.db)
      BY <2>1, <3>2 DEF Coherent
    <3> QED BY <3>2, <3>3, <3>4 DEF NoReturn, NewByRequest, VmKept, WorkloadKept
  <2>2. CASE ~ \E g \in db.groups : g.name = r.group
    <3>1. out.db = db
      BY <1>3, <2>2 DEF AttachSecurityGroup, Outcome
    <3> QED BY <3>1 DEF NoReturn, NewByRequest, VmKept, WorkloadKept
  <2> QED BY <2>1, <2>2
<1>4. CASE r \in CreateSshKeyRequests /\ out \in CreateSshKey(db, r)
  <2> DEFINE row == [name |-> r.name, key |-> r.key, by |-> r.by]
  <2>1. out.db = db \/ out.db = [db EXCEPT !.keys = @ \cup {row}]
    BY <1>4 DEF CreateSshKey, Outcome
  <2>2. /\ out.db.keys \subseteq db.keys \cup {row}
        /\ out.db.issued = db.issued /\ out.db.vms = db.vms
        /\ out.db.workloads = db.workloads /\ out.db.groups = db.groups
        /\ out.db.attachments = db.attachments /\ out.db.networks = db.networks
    BY <2>1 DEF Databases
  <2>3. r.rpc = "CreateSshKey"
    BY <1>4 DEF CreateSshKeyRequests
  <2> QED BY <2>2, <2>3 DEF Coherent, NoReturn, NewByRequest, VmKept, WorkloadKept
<1> QED BY <1>1, <1>2, <1>3, <1>4

\* A creation stores what it asks for, under an id no other row has.
THEOREM CreateCoherent ==
    ASSUME NEW db \in Databases, Coherent(db), NEW r \in CreateRequests,
           NEW out \in Serve(db, r)
    PROVE  /\ Coherent(out.db) /\ NoReturn(db, out.db)
           /\ NewByRequest(db, r, out.db)
BY CreateCases, CreateVmCoherent, CreateWorkloadCoherent, NamedCreatedCoherent

\* Setting a size or a state rewrites one row.
LEMMA UpdateCoherent ==
    ASSUME NEW db \in Databases, Coherent(db), NEW r \in UpdateRequests,
           NEW out \in Serve(db, r)
    PROVE  Coherent(out.db) /\ NothingNew(db, out.db)
<1>1. NothingNew(db, db)
  BY DEF NothingNew, VmKept, WorkloadKept
<1>2. CASE r \in UpdateVmRequests /\ out \in UpdateVm(db, r)
  <2> DEFINE hit == {v \in db.vms : v.id = r.id}
             f == [v \in hit |-> Resized(v, r)]
             next == [db EXCEPT !.vms = (@ \ hit) \cup {Resized(v, r) : v \in hit}]
  <2>1. out.db = db \/ out.db = next
    <3>1. out = Outcome(db, Error("NotFound")) \/ out = Outcome(next, Ok({}))
      <4>1. CASE hit = {}
        BY <1>2, <4>1 DEF UpdateVm
      <4>2. CASE hit # {}
        BY <1>2, <4>2 DEF UpdateVm
      <4> QED BY <4>1, <4>2
    <3> HIDE DEF next
    <3> QED BY <3>1 DEF Outcome
  <2>2. \A v \in hit : f[v] = Resized(v, r) /\ VmKept(v, Resized(v, r))
    BY DEF Resized, VmKept, Databases, Vms
  <2> HIDE DEF f
  <2>3. {f[v] : v \in hit} = {Resized(v, r) : v \in hit}
    BY <2>2
  <2>4. next = [db EXCEPT !.vms = (@ \ hit) \cup {f[v] : v \in hit}]
    BY <2>3
  <2> HIDE DEF next, hit
  <2>5. hit \subseteq db.vms
    BY DEF hit
  <2>6. Coherent(next) /\ NothingNew(db, next)
    BY <2>2, <2>4, <2>5, VmsRewritten
  <2> QED BY <1>1, <2>1, <2>6
<1>3. CASE r \in SetVmDesiredStateRequests /\ out \in SetVmDesiredState(db, r)
  <2> DEFINE hit == {v \in db.vms : v.id = r.id}
             switched(v) == [v EXCEPT !.desired = r.desired,
                                      !.status = StatusFor(r.desired)]
             f == [v \in hit |-> switched(v)]
             next == [db EXCEPT !.vms = (@ \ hit) \cup Switched(hit, r)]
  <2>1. out.db = db \/ out.db = next
    <3>1. out = Outcome(db, Error("NotFound")) \/ out = Outcome(next, Ok({}))
      <4>1. CASE hit = {}
        BY <1>3, <4>1 DEF SetVmDesiredState
      <4>2. CASE hit # {}
        BY <1>3, <4>2 DEF SetVmDesiredState
      <4> QED BY <4>1, <4>2
    <3> HIDE DEF next
    <3> QED BY <3>1 DEF Outcome
  <2>2. \A v \in hit : f[v] = switched(v) /\ VmKept(v, switched(v))
    BY DEF VmKept, Databases, Vms
  <2> HIDE DEF f
  <2>3. {f[v] : v \in hit} = Switched(hit, r)
    BY <2>2 DEF Switched
  <2>4. next = [db EXCEPT !.vms = (@ \ hit) \cup {f[v] : v \in hit}]
    BY <2>3
  <2> HIDE DEF next, hit, switched
  <2>5. hit \subseteq db.vms
    BY DEF hit
  <2>6. Coherent(next) /\ NothingNew(db, next)
    BY <2>2, <2>4, <2>5, VmsRewritten
  <2> QED BY <1>1, <2>1, <2>6
<1>4. CASE /\ r \in SetWorkloadDesiredStateRequests
           /\ out \in SetWorkloadDesiredState(db, r)
  <2> DEFINE hit == {l \in db.workloads : l.kind = r.kind /\ l.id = r.id}
             switched(l) == [l EXCEPT !.desired = r.desired,
                                      !.status = StatusFor(r.desired)]
             f == [l \in hit |-> switched(l)]
             next == [db EXCEPT !.workloads = (@ \ hit) \cup Switched(hit, r)]
  <2>1. out.db = db \/ out.db = next
    <3>1. out = Outcome(db, Error("NotFound")) \/ out = Outcome(next, Ok({}))
      <4>1. CASE hit = {}
        BY <1>4, <4>1 DEF SetWorkloadDesiredState
      <4>2. CASE hit # {}
        BY <1>4, <4>2 DEF SetWorkloadDesiredState
      <4> QED BY <4>1, <4>2
    <3> HIDE DEF next
    <3> QED BY <3>1 DEF Outcome
  <2>2. \A l \in hit : f[l] = switched(l) /\ WorkloadKept(l, switched(l))
    BY DEF WorkloadKept, Databases, Workloads, WorkloadsOf
  <2> HIDE DEF f
  <2>3. {f[l] : l \in hit} = Switched(hit, r)
    BY <2>2 DEF Switched
  <2>4. next = [db EXCEPT !.workloads = (@ \ hit) \cup {f[l] : l \in hit}]
    BY <2>3
  <2> HIDE DEF next, hit, switched
  <2>5. hit \subseteq db.workloads
    BY DEF hit
  <2>6. Coherent(next) /\ NothingNew(db, next)
    BY <2>2, <2>4, <2>5, WorkloadsRewritten
  <2> QED BY <1>1, <2>1, <2>6
<1> QED BY <1>2, <1>3, <1>4, UpdateCases

\* What is removed may be anything, but groups go with their attachments.
LEMMA RemovalCoherent ==
    ASSUME NEW db \in Databases, Coherent(db), NEW next \in Databases,
           next.issued = db.issued, next.vms \subseteq db.vms,
           next.workloads \subseteq db.workloads,
           next.networks \subseteq db.networks, next.groups \subseteq db.groups,
           next.attachments \subseteq db.attachments, next.keys \subseteq db.keys,
           \A a \in next.attachments : \A g \in db.groups :
               g.name = a.group => g \in next.groups
    PROVE  Coherent(next) /\ NothingNew(db, next)
<1>1. \A a \in next.attachments : \E g \in next.groups : g.name = a.group
  BY DEF Coherent
<1>2. Coherent(next)
  BY <1>1, FewerCoherent
<1> QED BY <1>2 DEF NothingNew, VmKept, WorkloadKept

\* A deletion only takes rows away.
LEMMA DeleteCoherent ==
    ASSUME NEW db \in Databases, Coherent(db), NEW r \in DeleteRequests,
           NEW out \in Serve(db, r)
    PROVE  Coherent(out.db) /\ NothingNew(db, out.db)
<1>1. \A hit, next : out \in Removed(db, hit, next) => out.db \in {db, next}
  BY DEF Removed, Outcome
<1>2. NothingNew(db, db)
  BY DEF NothingNew, VmKept, WorkloadKept
<1>3. CASE r \in DeleteVmRequests /\ out \in DeleteVm(db, r)
  <2> DEFINE next == [db EXCEPT !.vms = @ \ {v \in db.vms : v.id = r.id}]
  <2>1. out.db \in {db, next}
    BY <1>1, <1>3 DEF DeleteVm
  <2>2. Coherent(next) /\ NothingNew(db, next)
    BY DEF Databases, Coherent, NothingNew, VmKept, WorkloadKept
  <2> QED BY <1>2, <2>1, <2>2
<1>4. CASE r \in DeleteWorkloadRequests /\ out \in DeleteWorkload(db, r)
  <2> DEFINE hit  == {l \in db.workloads : l.kind = r.kind /\ l.id = r.id}
             next == [db EXCEPT !.workloads = @ \ hit]
  <2>1. out.db \in {db, next}
    <3>1. CASE r.kind = "UNSPECIFIED"
      BY <1>4, <3>1 DEF DeleteWorkload, Outcome
    <3>2. CASE r.kind # "UNSPECIFIED"
      BY <1>1, <1>4, <3>2 DEF DeleteWorkload
    <3> QED BY <3>1, <3>2
  <2>2. Coherent(next) /\ NothingNew(db, next)
    BY DEF Databases, Coherent, NothingNew, VmKept, WorkloadKept
  <2> QED BY <1>2, <2>1, <2>2
<1>5. CASE r \in DeleteNetworkRequests /\ out \in DeleteNetwork(db, r)
  <2> DEFINE hit  == {n \in db.networks : n.name = r.name /\ r.node \in {"", n.node}}
             next == [db EXCEPT !.networks = @ \ hit]
  <2>1. out.db \in {db, next}
    <3>1. CASE \E m, n \in hit : m # n
      <4>1. out = Outcome(db, Error("InvalidArgument"))
        BY <1>5, <3>1 DEF DeleteNetwork
      <4> HIDE DEF next
      <4> QED BY <4>1 DEF Outcome
    <3>2. CASE ~ \E m, n \in hit : m # n
      BY <1>1, <1>5, <3>2 DEF DeleteNetwork
    <3> QED BY <3>1, <3>2
  <2> HIDE DEF hit
  <2>2. Coherent(next) /\ NothingNew(db, next)
    BY DEF Databases, Coherent, NothingNew, VmKept, WorkloadKept
  <2> QED BY <1>2, <2>1, <2>2
<1>6. CASE r \in DeleteSecurityGroupRequests /\ out \in DeleteSecurityGroup(db, r)
  <2> DEFINE hit  == {g \in db.groups : g.name = r.name}
             next == [db EXCEPT !.groups = @ \ hit,
                                !.attachments = {a \in @ : a.group # r.name}]
  <2>1. out.db \in {db, next}
    BY <1>1, <1>6 DEF DeleteSecurityGroup
  <2>2. Coherent(next) /\ NothingNew(db, next)
    BY DEF Databases, Coherent, NothingNew, VmKept, WorkloadKept
  <2> QED BY <1>2, <2>1, <2>2
<1>7. CASE r \in DetachSecurityGroupRequests /\ out \in DetachSecurityGroup(db, r)
  <2> DEFINE next == [db EXCEPT !.attachments = @ \ Addressed(db, r)]
  <2>1. out.db \in {db, next}
    BY <1>1, <1>7 DEF DetachSecurityGroup
  <2>2. Coherent(next) /\ NothingNew(db, next)
    BY DEF Databases, Coherent, NothingNew, VmKept, WorkloadKept
  <2> QED BY <1>2, <2>1, <2>2
<1>8. CASE r \in DeleteSshKeyRequests /\ out \in DeleteSshKey(db, r)
  <2> DEFINE next == [db EXCEPT !.keys = @ \ {k \in db.keys : k.name = r.name}]
  <2>1. out.db \in {db, next}
    BY <1>1, <1>8 DEF DeleteSshKey
  <2>2. Coherent(next) /\ NothingNew(db, next)
    BY DEF Databases, Coherent, NothingNew, VmKept, WorkloadKept
  <2> QED BY <1>2, <2>1, <2>2
<1> QED BY <1>3, <1>4, <1>5, <1>6, <1>7, <1>8, DeleteCases

\* The calls that create nothing bring no row.
THEOREM ChangeCoherent ==
    ASSUME NEW db \in Databases, Coherent(db),
           NEW r \in UpdateRequests \cup DeleteRequests, NEW out \in Serve(db, r)
    PROVE  Coherent(out.db) /\ NothingNew(db, out.db)
BY UpdateCoherent, DeleteCoherent

\* Nor does anybody else who works on the tables, or a VM that fails.
THEOREM WorldCoherent ==
    ASSUME NEW db \in Databases, Coherent(db),
           NEW next \in Interference(db) \cup Failures(db)
    PROVE  Coherent(next) /\ NothingNew(db, next)
<1>1. CASE next \in Removals(db)
  <2>1. next \in Databases
    BY <1>1, RemovalsTyped
  <2>2. /\ next.issued = db.issued /\ next.vms \subseteq db.vms
        /\ next.workloads \subseteq db.workloads
        /\ next.networks \subseteq db.networks /\ next.groups \subseteq db.groups
        /\ next.attachments \subseteq db.attachments /\ next.keys \subseteq db.keys
        /\ \A a \in next.attachments : \A g \in db.groups :
              g.name = a.group => g \in next.groups
    <3>1. CASE \E v \in db.vms : next = [db EXCEPT !.vms = @ \ {v}]
      BY <3>1 DEF Databases
    <3>2. CASE \E l \in db.workloads : next = [db EXCEPT !.workloads = @ \ {l}]
      BY <3>2 DEF Databases
    <3>3. CASE \E n \in db.networks : next = [db EXCEPT !.networks = @ \ {n}]
      BY <3>3 DEF Databases
    <3>4. CASE \E g \in db.groups :
                 next = [db EXCEPT !.groups = @ \ {g},
                                   !.attachments = {a \in @ : a.group # g.name}]
      BY <3>4 DEF Databases
    <3>5. CASE \E a \in db.attachments : next = [db EXCEPT !.attachments = @ \ {a}]
      BY <3>5 DEF Databases
    <3>6. CASE \E k \in db.keys : next = [db EXCEPT !.keys = @ \ {k}]
      BY <3>6 DEF Databases
    <3> QED BY <1>1, <3>1, <3>2, <3>3, <3>4, <3>5, <3>6 DEF Removals
  <2> QED BY <2>1, <2>2, RemovalCoherent
<1>2. CASE \E r \in OthersCalls(db) : \E out \in Serve(db, r) : next = out.db
  BY <1>2, OthersCallsTyped, ChangeCoherent
<1>3. CASE next \in Failures(db)
  <2>1. PICK v \in db.vms :
          next = [db EXCEPT !.vms = (@ \ {v})
                                      \cup {[v EXCEPT !.status = [state |-> "ERROR"]]}]
    BY <1>3 DEF Failures
  <2> DEFINE failed == [v EXCEPT !.status = [state |-> "ERROR"]]
             hit == {v}
             f == [u \in hit |-> failed]
  <2>2. {f[u] : u \in hit} = {failed} /\ VmKept(v, failed)
    BY DEF VmKept, Databases, Vms
  <2>3. \A u \in hit : f[u] = failed /\ u = v
    OBVIOUS
  <2> HIDE DEF f, failed
  <2>4. next = [db EXCEPT !.vms = (@ \ hit) \cup {f[u] : u \in hit}]
    BY <2>1, <2>2 DEF failed
  <2>5. hit \subseteq db.vms /\ \A u \in hit : VmKept(u, f[u])
    BY <2>2, <2>3
  <2> HIDE DEF hit
  <2> QED BY <2>4, <2>5, VmsRewritten
<1> QED BY <1>1, <1>2, <1>3 DEF Interference

=============================================================================

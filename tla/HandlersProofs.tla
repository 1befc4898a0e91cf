---------------------------- MODULE HandlersProofs ----------------------------
(***************************************************************************)
(* The handlers of every kind stay within the interface the reconciler and *)
(* the service expect.                                                     *)
(***************************************************************************)
EXTENDS Handlers, ServiceProofs

Observations == {"error", "absent", "drifted", "current"}

\* Observe says nothing but the four observations, whatever the reply.
THEOREM ObserveTyped ==
    ASSUME NEW o \in Objs, NEW cr, NEW reply
    PROVE  Observe(o, cr, reply) \subseteq Observations
<1> USE KindAssumption DEF Observations
<1>1. CASE KindOf[o] = "VirtualMachine"
  BY <1>1 DEF Observe, VM!Observe
<1>2. CASE KindOf[o] = "Workload"
  BY <1>2 DEF Observe, WL!Observe
<1>3. CASE KindOf[o] = "Network"
  BY <1>3 DEF Observe, Net!Observe
<1>4. CASE KindOf[o] = "SecurityGroup"
  BY <1>4 DEF Observe, SG!Observe
<1>5. CASE KindOf[o] = "SecurityGroupAttachment"
  BY <1>5 DEF Observe, SGA!Observe
<1>6. CASE KindOf[o] = "SSHKey"
  BY <1>6 DEF Observe, Key!Observe
<1> QED BY <1>1, <1>2, <1>3, <1>4, <1>5, <1>6 DEF Kinds

\* A resource that is being deleted is reported absent by every kind that gives
\* an answer at all, so that no reconcile goes on to Delete.
THEOREM DeletingIsAbsent ==
    ASSUME NEW o \in Objs, NEW cr, NEW reply, cr.deleting = TRUE
    PROVE  Observe(o, cr, reply) = {"absent"}
<1> USE KindAssumption
<1>1. CASE KindOf[o] = "VirtualMachine"
  BY <1>1 DEF Observe, VM!Observe
<1>2. CASE KindOf[o] = "Workload"
  BY <1>2 DEF Observe, WL!Observe
<1>3. CASE KindOf[o] = "Network"
  BY <1>3 DEF Observe, Net!Observe
<1>4. CASE KindOf[o] = "SecurityGroup"
  BY <1>4 DEF Observe, SG!Observe
<1>5. CASE KindOf[o] = "SecurityGroupAttachment"
  BY <1>5 DEF Observe, SGA!Observe
<1>6. CASE KindOf[o] = "SSHKey"
  BY <1>6 DEF Observe, Key!Observe
<1> QED BY <1>1, <1>2, <1>3, <1>4, <1>5, <1>6 DEF Kinds

-----------------------------------------------------------------------------

\* strings.TrimSpace gives a string.
LEMMA TrimSpaceTyped ==
    ASSUME NEW s \in STRING
    PROVE  TrimSpace(s) \in STRING
BY TrimmedAssumption DEF TrimSpace

\* The requests of Create have the form the service expects of their rpc.
THEOREM CreateRequestTyped ==
    ASSUME NEW o \in Objs, NEW p \in SpecsOf[o]
    PROVE  createRequest(o, p) \in CreateRequests
<1>1. p \in Params(KindOf[o])
  BY SpecAssumption
<1> USE KindAssumption
<1>2. CASE KindOf[o] = "VirtualMachine"
  <2>1. VM!createVMRequest(o, p) \in CreateVmRequests
    BY <1>1, <1>2 DEF Params, VM!Params, VM!createVMRequest, CreateVmRequests,
       VM!VmDesiredState, States, VM!StorageBackend, Backends, VM!Disks, Disks,
       VM!Nics, Nics
  <2> QED BY <1>2, <2>1 DEF createRequest, CreateRequests
<1>3. CASE KindOf[o] = "Workload"
  <2>1. p \in WL!Params
    BY <1>1, <1>3 DEF Params
  <2>2. WL!WorkloadKind(p.kind) \in WorkloadKinds
    BY DEF WL!WorkloadKind, WorkloadKinds
  <2>3. /\ WL!VmDesiredState(p.vm.desired) \in States
        /\ WL!WorkloadDesiredState(p.container.desired) \in States
    BY DEF WL!VmDesiredState, WL!WorkloadDesiredState, States
  <2>4. /\ WL!containerProto(p.container).name \in STRING
        /\ WL!containerProto(p.container).image \in STRING
        /\ WL!containerProto(p.container).desired \in States
    BY <2>1, <2>3, LiteralAssumption DEF WL!containerProto, WL!Params, States
  <2>5. WL!createRequest(o, p) \in CreateWorkloadRequests
    <3>1. CASE WL!WorkloadKind(p.kind) = "VM"
      <4>1. WL!createRequest(o, p) =
              [rpc |-> "CreateWorkload", by |-> o, kind |-> WL!WorkloadKind(p.kind),
               name |-> p.vm.name, image |-> "",
               desired |-> WL!VmDesiredState(p.vm.desired)]
        BY <3>1 DEF WL!createRequest
      <4>2. p.vm.name \in STRING
        BY <2>1 DEF WL!Params
      <4>3. [rpc |-> "CreateWorkload", by |-> o, kind |-> WL!WorkloadKind(p.kind),
             name |-> p.vm.name, image |-> "",
             desired |-> WL!VmDesiredState(p.vm.desired)] \in CreateWorkloadRequests
        BY <2>2, <2>3, <4>2, LiteralAssumption DEF CreateWorkloadRequests
      <4> QED BY <4>1, <4>3
    <3>2. CASE WL!WorkloadKind(p.kind) # "VM"
      BY <2>2, <2>4, <3>2 DEF WL!createRequest, CreateWorkloadRequests
    <3> QED BY <3>1, <3>2
  <2> QED BY <1>3, <2>5 DEF createRequest, CreateRequests
<1>4. CASE KindOf[o] = "Network"
  <2>1. Net!createRequest(o, p) \in CreateNetworkRequests
    BY <1>1, <1>4 DEF Params, Net!Params, Net!createRequest, CreateNetworkRequests
  <2> QED BY <1>4, <2>1 DEF createRequest, CreateRequests
<1>5. CASE KindOf[o] = "SecurityGroup"
  <2>1. SG!createRequest(o, p) \in CreateSecurityGroupRequests
    <3>1. \A r \in Rules :
             [id |-> r.id, protocol |-> r.protocol, hostPort |-> r.hostPort,
              targetPort |-> r.targetPort, source |-> r.source, vm |-> r.vm,
              dnat |-> r.dnat] \in Rules
      BY DEF Rules
    <3>2. p.name \in STRING /\ p.rules \subseteq Rules
      BY <1>1, <1>5 DEF Params, SG!Params, SG!Rules, Rules
    <3>3. SG!rulesProto(p.rules) \subseteq Rules
      BY <3>1, <3>2 DEF SG!rulesProto
    <3> QED BY <3>2, <3>3 DEF SG!createRequest, CreateSecurityGroupRequests
  <2> QED BY <1>5, <2>1 DEF createRequest, CreateRequests
<1>6. CASE KindOf[o] = "SecurityGroupAttachment"
  <2>1. SGA!SecurityGroupTargetKind(p.kind) \in TargetKinds
    BY DEF SGA!SecurityGroupTargetKind, TargetKinds
  <2>2. SGA!createRequest(o, p) \in AttachSecurityGroupRequests
    BY <1>1, <1>6, <2>1, TrimSpaceTyped
       DEF Params, SGA!Params, SGA!createRequest, SGA!TrimSpace, TrimSpace,
           AttachSecurityGroupRequests
  <2> QED BY <1>6, <2>2 DEF createRequest, CreateRequests
<1>7. CASE KindOf[o] = "SSHKey"
  <2>1. Key!createRequest(o, p) \in CreateSshKeyRequests
    BY <1>1, <1>7, TrimSpaceTyped
       DEF Params, Key!Params, Key!createRequest, Key!TrimSpace, TrimSpace,
           CreateSshKeyRequests
  <2> QED BY <1>7, <2>1 DEF createRequest, CreateRequests
<1> QED BY <1>2, <1>3, <1>4, <1>5, <1>6, <1>7 DEF Kinds

\* So have those of Update.
THEOREM UpdateTyped ==
    ASSUME NEW o \in Objs, NEW cr, cr.ext \in STRING, cr.spec \in SpecsOf[o]
    PROVE  Update(o, cr) \subseteq UpdateRequests
<1> USE KindAssumption
<1>1. CASE KindOf[o] = "VirtualMachine"
  <2>1. cr.spec \in VM!Params
    BY <1>1, SpecAssumption DEF Params
  <2>2. VM!Update(o, cr) \subseteq UpdateVmRequests
    <3>1. CASE cr.ext = ""
      BY <3>1 DEF VM!Update, VM!vmExternalID
    <3>2. CASE cr.ext # ""
      <4>1. VM!Update(o, cr) =
              {[rpc |-> "UpdateVm", by |-> o, id |-> cr.ext,
                cpus |-> cr.spec.cpus, memory |-> cr.spec.memory]}
        BY <3>2 DEF VM!Update, VM!vmExternalID
      <4>2. cr.spec.cpus \in Int /\ cr.spec.memory \in Int
        BY <2>1 DEF VM!Params
      <4> QED BY <4>1, <4>2 DEF UpdateVmRequests
    <3> QED BY <3>1, <3>2
  <2> QED BY <1>1, <2>2 DEF Update, UpdateRequests
<1>2. CASE KindOf[o] # "VirtualMachine"
  BY <1>2 DEF Update, Kinds, WL!Update, Net!Update, SG!Update, SGA!Update, Key!Update
<1> QED BY <1>1, <1>2

\* What Delete asks for is a request to delete, whatever the spec holds by then.
THEOREM DeleteTyped ==
    ASSUME NEW o \in Objs, NEW cr, cr.ext \in STRING, cr.spec \in SpecsOf[o]
    PROVE  Delete(o, cr) \subseteq DeleteRequests
<1> USE KindAssumption
<1>1. cr.spec \in Params(KindOf[o])
  BY SpecAssumption
<1>2. CASE KindOf[o] = "VirtualMachine"
  <2>1. VM!Delete(o, cr) \subseteq DeleteVmRequests
    <3>1. CASE cr.ext = ""
      BY <3>1 DEF VM!Delete, VM!vmExternalID
    <3>2. CASE cr.ext # ""
      <4>1. VM!Delete(o, cr) = {[rpc |-> "DeleteVm", by |-> o, id |-> cr.ext]}
        BY <3>2 DEF VM!Delete, VM!vmExternalID
      <4> QED BY <4>1 DEF DeleteVmRequests
    <3> QED BY <3>1, <3>2
  <2> QED BY <1>2, <2>1 DEF Delete, DeleteRequests
<1>3. CASE KindOf[o] = "Workload"
  <2>1. WL!WorkloadKind(cr.spec.kind) \in WorkloadKinds
    BY DEF WL!WorkloadKind, WorkloadKinds
  <2>2. WL!Delete(o, cr) \subseteq DeleteWorkloadRequests
    <3>1. CASE cr.ext = ""
      BY <3>1 DEF WL!Delete, WL!wlID
    <3>2. CASE cr.ext # ""
      <4>1. WL!Delete(o, cr) = {[rpc |-> "DeleteWorkload", by |-> o,
                                 kind |-> WL!WorkloadKind(cr.spec.kind),
                                 id |-> cr.ext]}
        BY <3>2 DEF WL!Delete, WL!wlID
      <4> QED BY <2>1, <4>1 DEF DeleteWorkloadRequests
    <3> QED BY <3>1, <3>2
  <2> QED BY <1>3, <2>2 DEF Delete, DeleteRequests
<1>4. CASE KindOf[o] = "Network"
  <2>1. Net!netName(cr) \in STRING /\ Net!TrimSpace(cr.spec.node) \in STRING
    BY <1>1, <1>4, TrimSpaceTyped DEF Params, Net!Params, Net!netName,
       Net!TrimSpace, TrimSpace
  <2>2. Net!Delete(o, cr) \subseteq DeleteNetworkRequests
    <3>1. CASE Net!netName(cr) = ""
      BY <3>1 DEF Net!Delete
    <3>2. CASE Net!netName(cr) # ""
      <4>1. Net!Delete(o, cr) = {[rpc |-> "DeleteNetwork", by |-> o,
                                  name |-> Net!netName(cr),
                                  node |-> Net!TrimSpace(cr.spec.node)]}
        BY <3>2 DEF Net!Delete
      <4> QED BY <2>1, <4>1 DEF DeleteNetworkRequests
    <3> QED BY <3>1, <3>2
  <2> QED BY <1>4, <2>2 DEF Delete, DeleteRequests
<1>5. CASE KindOf[o] = "SecurityGroup"
  <2>1. SG!sgName(cr) \in STRING
    BY <1>1, <1>5, TrimSpaceTyped DEF Params, SG!Params, SG!sgName, SG!TrimSpace,
       TrimSpace
  <2>2. SG!Delete(o, cr) \subseteq DeleteSecurityGroupRequests
    <3>1. CASE SG!sgName(cr) = ""
      BY <3>1 DEF SG!Delete
    <3>2. CASE SG!sgName(cr) # ""
      <4>1. SG!Delete(o, cr) = {[rpc |-> "DeleteSecurityGroup", by |-> o,
                                 name |-> SG!sgName(cr)]}
        BY <3>2 DEF SG!Delete
      <4> QED BY <2>1, <4>1 DEF DeleteSecurityGroupRequests
    <3> QED BY <3>1, <3>2
  <2> QED BY <1>5, <2>2 DEF Delete, DeleteRequests
<1>6. CASE KindOf[o] = "SecurityGroupAttachment"
  <2>1. SGA!SecurityGroupTargetKind(cr.spec.kind) \in TargetKinds
    BY DEF SGA!SecurityGroupTargetKind, TargetKinds
  <2>2. SGA!Delete(o, cr) \subseteq DetachSecurityGroupRequests
    BY <1>1, <1>6, <2>1, TrimSpaceTyped
       DEF Params, SGA!Params, SGA!Delete, SGA!TrimSpace, TrimSpace,
           DetachSecurityGroupRequests
  <2> QED BY <1>6, <2>2 DEF Delete, DeleteRequests
<1>7. CASE KindOf[o] = "SSHKey"
  <2>1. Key!externalName(cr) \in STRING
    BY <1>1, <1>7, TrimSpaceTyped DEF Params, Key!Params, Key!externalName,
       Key!TrimSpace, TrimSpace
  <2>2. Key!Delete(o, cr) \subseteq DeleteSshKeyRequests
    <3>1. CASE Key!externalName(cr) = ""
      BY <3>1 DEF Key!Delete
    <3>2. CASE Key!externalName(cr) # ""
      <4>1. Key!Delete(o, cr) = {[rpc |-> "DeleteSshKey", by |-> o,
                                  name |-> Key!externalName(cr)]}
        BY <3>2 DEF Key!Delete
      <4> QED BY <2>1, <4>1 DEF DeleteSshKeyRequests
    <3> QED BY <3>1, <3>2
  <2> QED BY <1>7, <2>2 DEF Delete, DeleteRequests
<1> QED BY <1>2, <1>3, <1>4, <1>5, <1>6, <1>7 DEF Kinds

\* Every call Observe makes is one the service knows.
THEOREM LookupRequestTyped ==
    ASSUME NEW o \in Objs, NEW cr, cr.ext \in STRING, cr.spec \in SpecsOf[o]
    PROVE  lookupRequest(o, cr) \in Queries
<1> USE KindAssumption
<1>1. cr.spec \in Params(KindOf[o])
  BY SpecAssumption
<1>2. CASE KindOf[o] = "VirtualMachine"
  BY <1>2 DEF lookupRequest, VM!lookupRequest, VM!vmExternalID, GetVmRequests, Queries
<1>3. CASE KindOf[o] = "Workload"
  <2>1. WL!WorkloadKind(cr.spec.kind) \in WorkloadKinds
    BY DEF WL!WorkloadKind, WorkloadKinds
  <2> QED BY <1>3, <2>1 DEF lookupRequest, WL!lookupRequest, WL!wlID,
         GetWorkloadRequests, Queries
<1>4. CASE KindOf[o] = "Network"
  <2>1. Net!TrimSpace(cr.spec.node) \in STRING
    BY <1>1, <1>4, TrimSpaceTyped DEF Params, Net!Params, Net!TrimSpace, TrimSpace
  <2> QED BY <1>4, <2>1 DEF lookupRequest, Net!lookupRequest, ListNetworksRequests,
         Queries
<1>5. CASE KindOf[o] = "SecurityGroup"
  <2>1. SG!sgName(cr) \in STRING
    BY <1>1, <1>5, TrimSpaceTyped DEF Params, SG!Params, SG!sgName, SG!TrimSpace,
       TrimSpace
  <2> QED BY <1>5, <2>1 DEF lookupRequest, SG!lookupRequest,
         GetSecurityGroupRequests, Queries
<1>6. CASE KindOf[o] = "SecurityGroupAttachment"
  <2>1. SGA!TrimSpace(cr.spec.group) \in STRING
    BY <1>1, <1>6, TrimSpaceTyped DEF Params, SGA!Params, SGA!TrimSpace, TrimSpace
  <2> QED BY <1>6, <2>1 DEF lookupRequest, SGA!lookupRequest,
         GetSecurityGroupRequests, Queries
<1>7. CASE KindOf[o] = "SSHKey"
  <2>1. Key!externalName(cr) \in STRING
    BY <1>1, <1>7, TrimSpaceTyped DEF Params, Key!Params, Key!externalName,
       Key!TrimSpace, TrimSpace
  <2> QED BY <1>7, <2>1 DEF lookupRequest, Key!lookupRequest, GetSshKeyRequests,
         Queries
<1> QED BY <1>2, <1>3, <1>4, <1>5, <1>6, <1>7 DEF Kinds

\* A getter gives what is set or the zero value.
LEMMA TheTyped ==
    ASSUME NEW S, NEW set, set \subseteq S, NEW zero \in S
    PROVE  The(set, zero) \in S
<1>1. CASE set = {}
  BY <1>1 DEF The
<1>2. CASE set # {}
  <2>1. (CHOOSE x \in set : TRUE) \in set
    BY <1>2
  <2> QED BY <1>2, <2>1 DEF The
<1> QED BY <1>1, <1>2

\* What the getters of a create response give for the id: an issued id or "".
LEMMA NewIdTyped ==
    ASSUME NEW reply, \A c \in reply.content : c.id \in Ids
    PROVE  NewId(reply) \in STRING
<1>1. {c.id : c \in reply.content} \subseteq STRING
  BY IdsAssumption
<1> QED BY <1>1, TheTyped, LiteralAssumption DEF NewId

\* An answer without an error carries what its response type carries.
LEMMA OkContent ==
    ASSUME NEW rpc, NEW contents, Response(rpc) = Oks(contents),
           NEW answer \in Answers(rpc), answer.code = "OK"
    PROVE  answer.content \in contents
BY DEF Answers, Oks, Errors, Error

\* The external name Create leaves is a string: an issued id, or a name taken
\* from the spec.
THEOREM CreatedNameTyped ==
    ASSUME NEW db \in Databases, NEW o \in Objs, NEW cr,
           cr.ext \in STRING, cr.spec \in SpecsOf[o],
           NEW out \in Serve(db, createRequest(o, cr.spec)),
           out.answer.code = "OK"
    PROVE  CreatedName(o, cr, out.answer) \in STRING
<1> USE KindAssumption
<1>1. cr.spec \in Params(KindOf[o])
  BY SpecAssumption
<1>2. out.answer \in Answers(createRequest(o, cr.spec).rpc)
  BY CreateRequestTyped, ServeTyped DEF Requests
<1>3. CASE KindOf[o] = "VirtualMachine"
  <2>1. createRequest(o, cr.spec).rpc = "CreateVm"
    BY <1>3 DEF createRequest, VM!createVMRequest
  <2>2. Response("CreateVm") = Oks(SUBSET [id : Ids, state : VmStates])
    BY DEF Response, CreateVmResponses
  <2>3. NewId(out.answer) \in STRING
    BY <1>2, <2>1, <2>2, OkContent, NewIdTyped
  <2> QED BY <1>3, <2>3 DEF CreatedName, VM!CreatedName, VM!NewId, NewId, VM!The, The
<1>4. CASE KindOf[o] = "Workload"
  <2>1. createRequest(o, cr.spec).rpc = "CreateWorkload"
    BY <1>4 DEF createRequest, WL!createRequest
  <2>2. Response("CreateWorkload") =
          Oks(SUBSET [id : Ids, vmState : VmStates, containerState : ContainerStates])
    BY DEF Response, CreateWorkloadResponses
  <2>3. NewId(out.answer) \in STRING
    BY <1>2, <2>1, <2>2, OkContent, NewIdTyped
  <2> QED BY <1>4, <2>3 DEF CreatedName, WL!CreatedName, WL!NewId, NewId, WL!The, The
<1>5. CASE KindOf[o] = "Network"
  BY <1>1, <1>5 DEF CreatedName, Net!CreatedName, Params, Net!Params
<1>6. CASE KindOf[o] = "SecurityGroup"
  BY <1>1, <1>6 DEF CreatedName, SG!CreatedName, Params, SG!Params
<1>7. CASE KindOf[o] = "SecurityGroupAttachment"
  <2>1. SGA!attachmentKey(cr) \in STRING
    <3>1. CASE cr.ext # ""
      BY <3>1 DEF SGA!attachmentKey
    <3>2. CASE cr.ext = ""
      BY <3>2, LiteralAssumption DEF SGA!attachmentKey
    <3> QED BY <3>1, <3>2
  <2> QED BY <1>7, <2>1 DEF CreatedName, SGA!CreatedName
<1>8. CASE KindOf[o] = "SSHKey"
  BY <1>1, <1>8, TrimSpaceTyped DEF CreatedName, Key!CreatedName, Params, Key!Params,
     Key!TrimSpace, TrimSpace
<1> QED BY <1>3, <1>4, <1>5, <1>6, <1>7, <1>8 DEF Kinds

\* The status Observe leaves: a state is one of its kind, and what was there
\* before stays when the answer does not tell.
THEOREM ObservedTyped ==
    ASSUME NEW db \in Databases, NEW o \in Objs, NEW cr,
           cr.ext \in STRING, cr.spec \in SpecsOf[o], NEW status \in Statuses
    PROVE  Observed(o, status, Lookup(o, db, cr)) \in Statuses
<1> USE KindAssumption
<1> DEFINE reply == Lookup(o, db, cr)
<1>1. CASE KindOf[o] = "VirtualMachine"
  <2>1. reply = Found({v \in db.vms : v.id = cr.ext})
    BY <1>1 DEF Lookup, lookupRequest, VM!lookupRequest, VM!vmExternalID, Read, GetVm
  <2>2. reply.content \subseteq db.vms
    BY <2>1 DEF Found, Ok, Error
  <2>3. {v.status.state : v \in reply.content} \subseteq {""} \cup VmStates
    <3>1. \A v \in Vms : v.status.state \in VmStates
      BY DEF Vms, VmStatus
    <3> QED BY <2>2, <3>1 DEF Databases
  <2>4. The({v.status.state : v \in reply.content}, status.vm) \in {""} \cup VmStates
    BY <2>3, TheTyped DEF Statuses
  <2> HIDE DEF reply
  <2>5. Observed(o, status, reply) =
          [status EXCEPT !.ready = "Available",
                         !.vm = The({v.status.state : v \in reply.content}, status.vm)]
    BY <1>1 DEF Observed, VM!Observed, VM!The, The, Statuses
  <2> QED BY <2>4, <2>5 DEF Statuses, reply
<1>2. CASE KindOf[o] = "Workload"
  <2> DEFINE vm   == {l.status.state : l \in {x \in reply.content : (x.kind = "VM") = TRUE}}
             rest == {l.status.state : l \in {x \in reply.content : (x.kind = "VM") = FALSE}}
  <2>1. reply = Found({l \in db.workloads : l.kind = lookupRequest(o, cr).kind
                                          /\ l.id = lookupRequest(o, cr).id})
    BY <1>2 DEF Lookup, lookupRequest, WL!lookupRequest, Read, GetWorkload
  <2>2. reply.content \subseteq db.workloads
    BY <2>1 DEF Found, Ok, Error
  <2>3. \A l \in db.workloads :
           /\ l.kind = "VM" => l.status.state \in VmStates
           /\ l.kind # "VM" => l.status.state \in ContainerStates
    BY DEF Databases, Workloads, WorkloadsOf, VmStatus, ContainerInfo
  <2> HIDE DEF reply
  <2>4. vm \subseteq {""} \cup VmStates /\ rest \subseteq {""} \cup ContainerStates
    <3>1. vm \subseteq VmStates
      BY <2>2, <2>3
    <3>2. rest \subseteq ContainerStates
      BY <2>2, <2>3
    <3> QED BY <3>1, <3>2
  <2>5. /\ The(vm, status.vm) \in {""} \cup VmStates
        /\ The(rest, status.container) \in {""} \cup ContainerStates
    BY <2>4, TheTyped DEF Statuses
  <2>6. Observed(o, status, reply) =
          [status EXCEPT !.ready = "Available", !.vm = The(vm, status.vm),
                         !.container = The(rest, status.container)]
    BY <1>2 DEF Observed, WL!Observed, WL!The, The, Statuses
  <2> QED BY <2>5, <2>6 DEF Statuses, reply
<1>3. CASE KindOf[o] \notin {"VirtualMachine", "Workload"}
  BY <1>3 DEF Observed, Statuses
<1> QED BY <1>1, <1>2, <1>3

\* The status Create leaves, of an answer its RPC can come back with.
THEOREM CreatedTyped ==
    ASSUME NEW db \in Databases, NEW o \in Objs, NEW p \in SpecsOf[o],
           NEW out \in Serve(db, createRequest(o, p)), NEW status \in Statuses
    PROVE  Created(o, status, out.answer) \in Statuses
<1> USE KindAssumption
<1>1. out.answer \in Answers(createRequest(o, p).rpc)
  BY CreateRequestTyped, ServeTyped DEF Requests
<1>2. Creation(status) \in Statuses
  BY DEF Creation, Statuses
<1>3. CASE out.answer.code # "OK"
  BY <1>2, <1>3 DEF Created
<1>4. CASE out.answer.code = "OK" /\ KindOf[o] = "VirtualMachine"
  <2> DEFINE states == {c.state : c \in out.answer.content}
  <2>1. createRequest(o, p).rpc = "CreateVm"
    BY <1>4 DEF createRequest, VM!createVMRequest
  <2>2. out.answer.content \in SUBSET [id : Ids, state : VmStates]
    BY <1>1, <1>4, <2>1, OkContent DEF Response, CreateVmResponses
  <2>3. states \subseteq VmStates
    BY <2>2
  <2>4. The(states, "UNKNOWN") \in VmStates
    BY <2>3, TheTyped DEF VmStates
  <2>5. Created(o, status, out.answer) =
          [status EXCEPT !.ready = "Available", !.vm = The(states, "UNKNOWN")]
    BY <1>4 DEF Created, VM!Created, VM!The, The
  <2> QED BY <2>4, <2>5 DEF Statuses
<1>5. CASE out.answer.code = "OK" /\ KindOf[o] = "Workload"
  <2> DEFINE vm   == {c.vmState : c \in out.answer.content}
             rest == {c.containerState : c \in out.answer.content}
  <2>1. createRequest(o, p).rpc = "CreateWorkload"
    BY <1>5 DEF createRequest, WL!createRequest
  <2>2. out.answer.content \in SUBSET [id : Ids, vmState : VmStates,
                                      containerState : ContainerStates]
    BY <1>1, <1>5, <2>1, OkContent DEF Response, CreateWorkloadResponses
  <2>3. vm \subseteq VmStates /\ rest \subseteq ContainerStates
    BY <2>2
  <2>4. The(vm, "UNKNOWN") \in VmStates /\ The(rest, "UNKNOWN") \in ContainerStates
    BY <2>3, TheTyped DEF VmStates, ContainerStates
  <2>5. Created(o, status, out.answer) =
          [status EXCEPT !.ready = "Available", !.vm = The(vm, "UNKNOWN"),
                         !.container = The(rest, "UNKNOWN")]
    BY <1>5 DEF Created, WL!Created, WL!The, The
  <2> QED BY <2>4, <2>5 DEF Statuses
<1>6. CASE out.answer.code = "OK" /\ KindOf[o] \notin {"VirtualMachine", "Workload"}
  BY <1>6 DEF Created, Statuses
<1> QED BY <1>3, <1>4, <1>5, <1>6

-----------------------------------------------------------------------------
(* Where the rows come from                                                 *)

\* The calls Create makes for a resource, in any version of its spec.
CreationsOf(o) ==
    {createRequest(o, p) : p \in {s \in SpecsOf[o] : CreateValid(o, s)}}

Asked(r) == r \in CreateRequests => r \in CreationsOf(r.by)

\* Every row is what some version of its resource's spec asks for.
Rooted(db) ==
    /\ \A v \in db.vms : \E r \in CreationsOf(v.by) :
          /\ r.rpc = "CreateVm" /\ r.name = v.name
          /\ r.backend = v.backend /\ r.disks = v.disks /\ r.nics = v.nics
    /\ \A l \in db.workloads : \E r \in CreationsOf(l.by) :
          /\ r.rpc = "CreateWorkload" /\ r.kind = l.kind
          /\ r.name = l.name /\ r.image = l.image
    /\ \A n \in db.networks : \E r \in CreationsOf(n.by) :
          /\ r.rpc = "CreateNetwork" /\ r.name = n.name /\ r.node = n.node
          /\ r.addr = n.addr /\ r.type = n.type /\ r.nat = n.nat
    /\ \A g \in db.groups : \E r \in CreationsOf(g.by) :
          r.rpc = "CreateSecurityGroup" /\ r.name = g.name /\ r.rules = g.rules
    /\ \A a \in db.attachments : \E r \in CreationsOf(a.by) :
          /\ r.rpc = "AttachSecurityGroup" /\ r.group = a.group
          /\ r.kind = a.kind /\ r.target = a.target /\ r.node = a.node
    /\ \A k \in db.keys : \E r \in CreationsOf(k.by) :
          r.rpc = "CreateSshKey" /\ r.name = k.name /\ r.key = k.key

\* What the calls of a resource have of it: its name, and the rpc of its kind.
LEMMA CreationFields ==
    ASSUME NEW o \in Objs, NEW p
    PROVE  LET r == createRequest(o, p)
           IN  /\ r.by = o
               /\ r.rpc = "CreateVm" <=> KindOf[o] = "VirtualMachine"
               /\ r.rpc = "CreateWorkload" <=> KindOf[o] = "Workload"
               /\ r.rpc = "CreateNetwork" <=> KindOf[o] = "Network"
               /\ r.rpc = "CreateSecurityGroup" <=> KindOf[o] = "SecurityGroup"
               /\ r.rpc = "AttachSecurityGroup" <=>
                     KindOf[o] = "SecurityGroupAttachment"
               /\ r.rpc = "CreateSshKey" <=> KindOf[o] = "SSHKey"
<1> USE KindAssumption
<1>1. CASE KindOf[o] = "VirtualMachine"
  BY <1>1 DEF createRequest, VM!createVMRequest
<1>2. CASE KindOf[o] = "Workload"
  <2>1. createRequest(o, p) = WL!createRequest(o, p)
    BY <1>2 DEF createRequest
  <2>2. /\ WL!createRequest(o, p).by = o
        /\ WL!createRequest(o, p).rpc = "CreateWorkload"
    BY Zenon DEF WL!createRequest
  <2> QED BY <1>2, <2>1, <2>2
<1>3. CASE KindOf[o] = "Network"
  BY <1>3 DEF createRequest, Net!createRequest
<1>4. CASE KindOf[o] = "SecurityGroup"
  BY <1>4 DEF createRequest, SG!createRequest
<1>5. CASE KindOf[o] = "SecurityGroupAttachment"
  BY <1>5 DEF createRequest, SGA!createRequest
<1>6. CASE KindOf[o] = "SSHKey"
  BY <1>6 DEF createRequest, Key!createRequest
<1> QED BY <1>1, <1>2, <1>3, <1>4, <1>5, <1>6 DEF Kinds

\* Create sends what it was asked for.
LEMMA CreationAsked ==
    ASSUME NEW o \in Objs, NEW p \in SpecsOf[o], CreateValid(o, p)
    PROVE  Asked(createRequest(o, p))
BY CreationFields DEF Asked, CreationsOf

\* The calls that create nothing ask for nothing.
LEMMA ChangeAsked ==
    ASSUME NEW r \in UpdateRequests \cup DeleteRequests
    PROVE  r \notin CreateRequests
<1>1. \A q \in CreateRequests :
         q.rpc \in {"CreateVm", "CreateWorkload", "CreateNetwork",
                    "CreateSecurityGroup", "AttachSecurityGroup", "CreateSshKey"}
  BY DEF CreateRequests, CreateVmRequests, CreateWorkloadRequests,
         CreateNetworkRequests, CreateSecurityGroupRequests,
         AttachSecurityGroupRequests, CreateSshKeyRequests
<1>2. \A q \in UpdateRequests :
         q.rpc \in {"UpdateVm", "SetVmDesiredState", "SetWorkloadDesiredState"}
  BY DEF UpdateRequests, UpdateVmRequests, SetVmDesiredStateRequests,
         SetWorkloadDesiredStateRequests
<1>3. \A q \in DeleteRequests :
         q.rpc \in {"DeleteVm", "DeleteWorkload", "DeleteNetwork",
                    "DeleteSecurityGroup", "DetachSecurityGroup", "DeleteSshKey"}
  BY DEF DeleteRequests, DeleteVmRequests, DeleteWorkloadRequests,
         DeleteNetworkRequests, DeleteSecurityGroupRequests,
         DetachSecurityGroupRequests, DeleteSshKeyRequests
<1> QED BY <1>1, <1>2, <1>3

\* Rows that were there keep their origin.
LEMMA NothingNewRooted ==
    ASSUME NEW db, Rooted(db), NEW next, NothingNew(db, next)
    PROVE  Rooted(next)
<1>1. \A v \in next.vms : \E r \in CreationsOf(v.by) :
         /\ r.rpc = "CreateVm" /\ r.name = v.name
         /\ r.backend = v.backend /\ r.disks = v.disks /\ r.nics = v.nics
  BY DEF Rooted, NothingNew, VmKept
<1>2. \A l \in next.workloads : \E r \in CreationsOf(l.by) :
         /\ r.rpc = "CreateWorkload" /\ r.kind = l.kind
         /\ r.name = l.name /\ r.image = l.image
  BY DEF Rooted, NothingNew, WorkloadKept
<1> QED BY <1>1, <1>2 DEF Rooted, NothingNew

\* A new one has the spec behind the call.
LEMMA CreateRooted ==
    ASSUME NEW db, Rooted(db), NEW r \in CreateRequests, Asked(r),
           NEW next, NewByRequest(db, r, next)
    PROVE  Rooted(next)
<1>1. r \in CreationsOf(r.by)
  BY DEF Asked
<1>2. ASSUME NEW v \in next.vms
      PROVE  \E q \in CreationsOf(v.by) :
                /\ q.rpc = "CreateVm" /\ q.name = v.name
                /\ q.backend = v.backend /\ q.disks = v.disks /\ q.nics = v.nics
  <2>1. CASE \E u \in db.vms : VmKept(u, v)
    BY <2>1 DEF Rooted, VmKept
  <2>2. CASE r.rpc = "CreateVm" /\ v = VmRow(r, v.id)
    <3>1. \A id : LET row == VmRow(r, id)
                   IN  /\ row.by = r.by /\ row.name = r.name
                       /\ row.backend = r.backend /\ row.disks = r.disks
                       /\ row.nics = r.nics
      BY DEF VmRow
    <3> QED BY <1>1, <2>2, <3>1
  <2> QED BY <2>1, <2>2 DEF NewByRequest
<1>3. ASSUME NEW l \in next.workloads
      PROVE  \E q \in CreationsOf(l.by) :
                /\ q.rpc = "CreateWorkload" /\ q.kind = l.kind
                /\ q.name = l.name /\ q.image = l.image
  <2>1. CASE \E k \in db.workloads : WorkloadKept(k, l)
    BY <2>1 DEF Rooted, WorkloadKept
  <2>2. CASE r.rpc = "CreateWorkload" /\ l = WorkloadRow(r, l.id)
    <3>1. \A id : LET row == WorkloadRow(r, id)
                   IN  /\ row.by = r.by /\ row.kind = r.kind
                       /\ row.name = r.name /\ row.image = r.image
      BY DEF WorkloadRow
    <3> QED BY <1>1, <2>2, <3>1
  <2> QED BY <2>1, <2>2 DEF NewByRequest
<1>4. \A n \in next.networks : \E q \in CreationsOf(n.by) :
         /\ q.rpc = "CreateNetwork" /\ q.name = n.name /\ q.node = n.node
         /\ q.addr = n.addr /\ q.type = n.type /\ q.nat = n.nat
  BY <1>1 DEF Rooted, NewByRequest
<1>5. \A g \in next.groups : \E q \in CreationsOf(g.by) :
         q.rpc = "CreateSecurityGroup" /\ q.name = g.name /\ q.rules = g.rules
  BY <1>1 DEF Rooted, NewByRequest
<1>6. \A a \in next.attachments : \E q \in CreationsOf(a.by) :
         /\ q.rpc = "AttachSecurityGroup" /\ q.group = a.group
         /\ q.kind = a.kind /\ q.target = a.target /\ q.node = a.node
  BY <1>1 DEF Rooted, NewByRequest
<1>7. \A k \in next.keys : \E q \in CreationsOf(k.by) :
         q.rpc = "CreateSshKey" /\ q.name = k.name /\ q.key = k.key
  BY <1>1 DEF Rooted, NewByRequest
<1> QED BY <1>2, <1>3, <1>4, <1>5, <1>6, <1>7 DEF Rooted

\* Tables that are typed, coherent and rooted.
Sane(db) == db \in Databases /\ Coherent(db) /\ Rooted(db)

\* Whatever call takes effect, late or not, answered or not, the tables stay sane
\* and no id comes back.
THEOREM ServeSane ==
    ASSUME NEW db, Sane(db), NEW r \in Requests, Asked(r), NEW out \in Serve(db, r)
    PROVE  Sane(out.db) /\ NoReturn(db, out.db)
<1>1. out.db \in Databases
  BY ServeTyped DEF Sane
<1>2. CASE r \in CreateRequests
  BY <1>1, <1>2, CreateCoherent, CreateRooted DEF Sane
<1>3. CASE r \in UpdateRequests \cup DeleteRequests
  BY <1>1, <1>3, ChangeCoherent, NothingNewRooted, NothingNewNoReturn DEF Sane
<1> QED BY <1>2, <1>3 DEF Requests

\* They stay sane when others work on them and when VMs fail.
THEOREM WorldSane ==
    ASSUME NEW db, Sane(db), NEW next \in Interference(db) \cup Failures(db)
    PROVE  Sane(next) /\ NoReturn(db, next)
BY WorldCoherent, NothingNewRooted, NothingNewNoReturn, InterferenceTyped,
   FailuresTyped DEF Sane

\* They are, before there is anything in them.
LEMMA EmptySane == Sane(EmptyDatabase)
BY DEF Sane, EmptyDatabase, Databases, Coherent, Rooted

=============================================================================

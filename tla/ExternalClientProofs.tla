------------------------- MODULE ExternalClientProofs -------------------------
(***************************************************************************)
(* The contract of the handlers, called as the interface allows, for any   *)
(* resources, edits, lost calls and interference: every message keeps the  *)
(* types of the kcore API; the tables hold what one version of a spec asks *)
(* for; only states of a resource's own VM or workload are shown; what is  *)
(* created is found again, what is deleted is gone, and nothing of another *)
(* resource is found or deleted for it.                                    *)
(***************************************************************************)
EXTENDS ExternalClient, HandlersProofs

\* The calls of a resource are requests of the API.
LEMMA CallsTyped ==
    ASSUME TypeOK, NEW o \in team
    PROVE  /\ Creating(o) \subseteq Requests
           /\ Updating(o) \subseteq Requests
           /\ Deleting(o) \subseteq Requests
<1>1. o \in Objs
  BY TeamAssumption DEF TypeOK
<1>2. cr[o].ext \in STRING /\ cr[o].spec \in SpecsOf[o]
  BY DEF TypeOK, Copies
<1>3. createRequest(o, cr[o].spec) \in CreateRequests
  BY <1>1, <1>2, CreateRequestTyped
<1>4. Update(o, cr[o]) \subseteq UpdateRequests /\ Delete(o, cr[o]) \subseteq DeleteRequests
  BY <1>1, <1>2, UpdateTyped, DeleteTyped
<1> QED BY <1>3, <1>4 DEF Creating, Updating, Deleting, Requests

\* A copy stays one when its parts change.
LEMMA CopyTyped ==
    ASSUME TypeOK, NEW o \in team, NEW k \in Copies(o), cr' = [cr EXCEPT ![o] = k]
    PROVE  DOMAIN cr' = team /\ \A p \in team : cr'[p] \in Copies(p)
BY DEF TypeOK

\* What the environment spends leaves a budget.
LEMMA SpendTyped ==
    ASSUME TypeOK, NEW kind \in {"edit", "fault", "drift"}, Spend(kind)
    PROVE  budget' \in [{"edit", "fault", "drift"} -> Nat]
<1>1. budget[kind] \in Nat /\ budget[kind] > 0
  BY DEF TypeOK, Spend
<1> QED BY <1>1 DEF TypeOK, Spend

\* A call that takes effect unnoticed leaves well-formed tables and no new record.
LEMMA UnnoticedTyped ==
    ASSUME TypeOK, NEW r \in Requests, Unnoticed(r)
    PROVE  db' \in Databases /\ made' \subseteq team
<1>1. db' \in Databases
  BY ServeTyped DEF TypeOK, Unnoticed
<1> QED BY <1>1 DEF TypeOK, Unnoticed

\* What each handler leaves of the status is a status.
LEMMA StatusTyped ==
    ASSUME TypeOK, NEW o \in team
    PROVE  /\ status[o] \in Statuses
           /\ Shown(o) \in Statuses
           /\ Creation(status[o]) \in Statuses
           /\ Deletion(status[o]) \in Statuses
<1>1. status[o] \in Statuses
  BY DEF TypeOK
<1>2. Shown(o) \in Statuses
  <2>1. o \in Objs /\ cr[o].ext \in STRING /\ cr[o].spec \in SpecsOf[o]
    BY TeamAssumption DEF TypeOK, Copies
  <2> QED BY <1>1, <2>1, ObservedTyped DEF Shown, TypeOK
<1> QED BY <1>1, <1>2 DEF Creation, Deletion, Statuses

\* So a copy that a handler leaves has one, and so has the resource.
LEMMA PublishTyped ==
    ASSUME TypeOK, NEW o \in team, NEW s \in Statuses, Publish(o, s)
    PROVE  status' \in [team -> Statuses] /\ left' \in [team -> SUBSET Statuses]
BY DEF Publish, TypeOK

\* An observation, or a creation that is rejected, leaves a copy and a status.
LEMMA LookTyped ==
    ASSUME TypeOK, NEW o \in team, ObserveFound(o) \/ CreateRejected(o)
    PROVE  TypeOK'
<1>1. status' \in [team -> Statuses] /\ left' \in [team -> SUBSET Statuses]
  <2>1. CASE ObserveFound(o)
    BY <2>1, StatusTyped, PublishTyped DEF ObserveFound
  <2>2. CASE CreateRejected(o)
    BY <2>2, StatusTyped, PublishTyped DEF CreateRejected
  <2> QED BY <2>1, <2>2
<1> QED BY <1>1 DEF ObserveFound, CreateRejected, TypeOK

\* A status that is written is one a handler left.
LEMMA WriteTyped ==
    ASSUME TypeOK, NEW o \in team, WriteStatus(o) \/ LoseStatus(o)
    PROVE  TypeOK'
<1>1. left' \in [team -> SUBSET Statuses]
  BY DEF WriteStatus, LoseStatus, TypeOK
<1>2. status' \in [team -> Statuses]
  BY DEF WriteStatus, LoseStatus, TypeOK
<1> QED BY <1>1, <1>2 DEF WriteStatus, LoseStatus, TypeOK

\* An answered creation leaves a well-formed name, record and status.
LEMMA CreateAnsweredTyped ==
    ASSUME TypeOK, NEW o \in team, CreateAnswered(o)
    PROVE  TypeOK'
<1>1. PICK r \in Creating(o) : \E out \in Serve(db, r) :
          /\ db' = out.db
          /\ Publish(o, Created(o, status[o], out.answer))
          /\ IF out.answer.code = "OK"
             THEN /\ cr' = [cr EXCEPT ![o].ext = CreatedName(o, cr[o], out.answer)]
                  /\ made' = made \cup {o}
             ELSE UNCHANGED <<cr, made>>
  BY DEF CreateAnswered
<1>2. PICK out \in Serve(db, r) :
          /\ db' = out.db
          /\ Publish(o, Created(o, status[o], out.answer))
          /\ IF out.answer.code = "OK"
             THEN /\ cr' = [cr EXCEPT ![o].ext = CreatedName(o, cr[o], out.answer)]
                  /\ made' = made \cup {o}
             ELSE UNCHANGED <<cr, made>>
  BY <1>1
<1>3. db' \in Databases
  BY <1>2, CallsTyped, ServeTyped DEF TypeOK
<1>4. r = createRequest(o, cr[o].spec)
  BY DEF Creating
<1>5. cr[o] \in Copies(o) /\ o \in Objs
  BY TeamAssumption DEF TypeOK
<1>6. DOMAIN cr' = team /\ \A p \in team : cr'[p] \in Copies(p)
  <2>1. CASE out.answer.code = "OK"
    <3> DEFINE name == CreatedName(o, cr[o], out.answer)
               k == [cr[o] EXCEPT !.ext = name]
    <3>1. name \in STRING
      BY <1>2, <1>4, <1>5, <2>1, CreatedNameTyped DEF TypeOK, Copies
    <3>2. cr' = [cr EXCEPT ![o].ext = name]
      BY <1>2, <2>1
    <3> HIDE DEF name
    <3>3. k \in Copies(o)
      BY <1>5, <3>1 DEF Copies
    <3>4. cr' = [cr EXCEPT ![o] = k]
      BY <3>2
    <3> HIDE DEF k
    <3> QED BY <3>3, <3>4, CopyTyped
  <2>2. CASE out.answer.code # "OK"
    BY <1>2, <2>2 DEF TypeOK
  <2> QED BY <2>1, <2>2
<1>7. made' \subseteq team
  BY <1>2 DEF CreateAnswered, TypeOK
<1>8. status' \in [team -> Statuses] /\ left' \in [team -> SUBSET Statuses]
  <2>1. Created(o, status[o], out.answer) \in Statuses
    BY <1>2, <1>4, <1>5, StatusTyped, CreatedTyped DEF TypeOK, Copies
  <2> QED BY <1>2, <2>1, PublishTyped
<1> QED BY <1>3, <1>6, <1>7, <1>8 DEF CreateAnswered, TypeOK

\* So do an answered update and an answered deletion.
LEMMA AnsweredTyped ==
    ASSUME TypeOK, NEW o \in team, UpdateAnswered(o) \/ DeleteAnswered(o)
    PROVE  TypeOK'
<1>1. db' \in Databases
  <2>1. CASE UpdateAnswered(o)
    BY <2>1, CallsTyped, ServeTyped DEF UpdateAnswered, TypeOK
  <2>2. CASE DeleteAnswered(o)
    BY <2>2, CallsTyped, ServeTyped DEF DeleteAnswered, TypeOK
  <2> QED BY <2>1, <2>2
<1>2. gone' \subseteq team
  BY DEF UpdateAnswered, DeleteAnswered, TypeOK
<1>3. status' \in [team -> Statuses] /\ left' \in [team -> SUBSET Statuses]
  <2>1. CASE UpdateAnswered(o)
    BY <2>1, StatusTyped, PublishTyped DEF UpdateAnswered
  <2>2. CASE DeleteAnswered(o)
    BY <2>2, StatusTyped, PublishTyped DEF DeleteAnswered
  <2> QED BY <2>1, <2>2
<1> QED BY <1>1, <1>2, <1>3 DEF UpdateAnswered, DeleteAnswered, TypeOK

\* A call without an answer takes effect, is still to come, or is lost.
LEMMA UnansweredTyped ==
    ASSUME TypeOK, NEW o \in team, Unanswered(o)
    PROVE  TypeOK'
<1>1. budget' \in [{"edit", "fault", "drift"} -> Nat]
  BY SpendTyped DEF Unanswered
<1>2. PICK r \in Creating(o) \cup Updating(o) \cup Deleting(o) :
          /\ Publish(o, Unsettled(o, r))
          /\ \/ Unnoticed(r) /\ UNCHANGED stray
             \/ stray' = stray \cup {r} /\ UNCHANGED <<db, made>>
  BY DEF Unanswered
<1>3. r \in Requests
  BY <1>2, CallsTyped
<1>4. db' \in Databases /\ stray' \subseteq Requests /\ made' \subseteq team
  <2>1. CASE Unnoticed(r) /\ UNCHANGED stray
    BY <1>3, <2>1, UnnoticedTyped DEF TypeOK
  <2>2. CASE stray' = stray \cup {r} /\ UNCHANGED <<db, made>>
    BY <1>3, <2>2 DEF TypeOK
  <2> QED BY <1>2, <2>1, <2>2
<1>5. status' \in [team -> Statuses] /\ left' \in [team -> SUBSET Statuses]
  <2>1. Unsettled(o, r) \in Statuses
    BY StatusTyped DEF Unsettled
  <2> QED BY <1>2, <2>1, PublishTyped
<1> QED BY <1>1, <1>4, <1>5 DEF Unanswered, TypeOK

\* Users leave copies whose specs are their own.
LEMMA UserTyped ==
    ASSUME TypeOK, NEW o \in team, Edit(o) \/ MarkDeleted(o)
    PROVE  TypeOK'
<1>1. cr[o] \in Copies(o)
  BY DEF TypeOK
<1>2. ASSUME NEW k \in Copies(o), UserStore(o, k)
      PROVE  /\ DOMAIN cr' = team /\ \A p \in team : cr'[p] \in Copies(p)
             /\ left' \in [team -> SUBSET Statuses]
  BY <1>2, CopyTyped DEF UserStore, TypeOK
<1>3. CASE Edit(o)
  <2>1. PICK s \in SpecsOf[o] : UserStore(o, [cr[o] EXCEPT !.spec = s])
    BY <1>3 DEF Edit
  <2>2. [cr[o] EXCEPT !.spec = s] \in Copies(o)
    BY <1>1 DEF Copies
  <2>3. budget' \in [{"edit", "fault", "drift"} -> Nat]
    BY <1>3, SpendTyped DEF Edit
  <2> QED BY <1>2, <2>1, <2>2, <2>3 DEF UserStore, TypeOK
<1>4. CASE MarkDeleted(o)
  <2>1. UserStore(o, [cr[o] EXCEPT !.deleting = TRUE]) /\ UNCHANGED budget
    BY <1>4 DEF MarkDeleted
  <2>2. [cr[o] EXCEPT !.deleting = TRUE] \in Copies(o)
    BY <1>1 DEF Copies
  <2> QED BY <1>2, <2>1, <2>2 DEF UserStore, TypeOK
<1> QED BY <1>3, <1>4

\* Late calls and interference leave well-formed tables.
LEMMA ServiceStepTyped ==
    ASSUME TypeOK, LateEffect \/ Drift
    PROVE  TypeOK'
<1>1. CASE LateEffect
  <2>1. PICK r \in stray : /\ Unnoticed(r)
                           /\ stray' = stray \ {r}
                           /\ UNCHANGED <<team, cr, status, left, gone, budget>>
    BY <1>1 DEF LateEffect
  <2>2. r \in Requests
    BY DEF TypeOK
  <2>3. db' \in Databases /\ made' \subseteq team
    BY <2>1, <2>2, UnnoticedTyped
  <2> QED BY <2>1, <2>3 DEF TypeOK
<1>2. CASE Drift
  <2>1. db' \in Databases
    BY <1>2, InterferenceTyped, FailuresTyped DEF Drift, TypeOK
  <2>2. budget' \in [{"edit", "fault", "drift"} -> Nat]
    BY <1>2, SpendTyped DEF Drift
  <2> QED BY <1>2, <2>1, <2>2 DEF Drift, TypeOK
<1> QED BY <1>1, <1>2

\* Copies, calls, tables and records of what was acknowledged stay well-formed,
\* with the handlers of all six kinds, lost answers and late calls.
THEOREM ContractTypeCorrect == Spec => []TypeOK
<1>1. Init => TypeOK
  <2> SUFFICES ASSUME Init PROVE TypeOK
    OBVIOUS
  <2>1. db \in Databases
    BY DEF Init, EmptyDatabase, Databases
  <2>2. DOMAIN cr = team /\ \A o \in team : cr[o] \in Copies(o)
    <3>1. DOMAIN cr = team
      BY DEF Init
    <3> SUFFICES ASSUME NEW o \in team PROVE cr[o] \in Copies(o)
      BY <3>1
    <3>2. cr[o] \in Initialized(o) /\ MetaName[o] \in STRING
      BY MetaNameAssumption, TeamAssumption DEF Init
    <3> QED BY <3>2 DEF Initialized, Copies
  <2>3. status \in [team -> Statuses] /\ left \in [team -> SUBSET Statuses]
    BY DEF Init, Statuses
  <2> QED BY <2>1, <2>2, <2>3, BudgetAssumption DEF Init, TypeOK
<1>2. TypeOK /\ [Next]_vars => TypeOK'
  <2> SUFFICES ASSUME TypeOK, [Next]_vars PROVE TypeOK'
    OBVIOUS
  <2>1. CASE UNCHANGED vars
    BY <2>1 DEF vars, TypeOK
  <2>2. ASSUME NEW o \in team, CreateAnswered(o)
        PROVE  TypeOK'
    BY <2>2, CreateAnsweredTyped
  <2>3. ASSUME NEW o \in team, UpdateAnswered(o) \/ DeleteAnswered(o)
        PROVE  TypeOK'
    BY <2>3, AnsweredTyped
  <2>4. ASSUME NEW o \in team, Unanswered(o)
        PROVE  TypeOK'
    BY <2>4, UnansweredTyped
  <2>5. ASSUME NEW o \in team, Edit(o) \/ MarkDeleted(o)
        PROVE  TypeOK'
    BY <2>5, UserTyped
  <2>6. CASE LateEffect \/ Drift
    BY <2>6, ServiceStepTyped
  <2>7. ASSUME NEW o \in team, ObserveFound(o) \/ CreateRejected(o)
        PROVE  TypeOK'
    BY <2>7, LookTyped
  <2>8. ASSUME NEW o \in team, WriteStatus(o) \/ LoseStatus(o)
        PROVE  TypeOK'
    BY <2>8, WriteTyped
  <2> QED BY <2>1, <2>2, <2>3, <2>4, <2>5, <2>6, <2>7, <2>8 DEF Next
<1> QED BY <1>1, <1>2, PTL DEF Spec


-----------------------------------------------------------------------------
(* The tables                                                               *)

\* The tables are sane and no call on its way asks for what no spec asks for.
Tables == Sane(db) /\ \A r \in stray : Asked(r)

\* The calls of a resource carry its name and ask for no more than its spec.
LEMMA CallsAsked ==
    ASSUME TypeOK, NEW o \in team, NEW r \in Creating(o) \cup Updating(o) \cup Deleting(o)
    PROVE  r \in Requests /\ Asked(r)
<1>1. /\ o \in Objs /\ cr[o].ext \in STRING /\ cr[o].spec \in SpecsOf[o]
  BY TeamAssumption DEF TypeOK, Copies
<1>2. r \in Requests
  BY CallsTyped
<1>3. CASE r \in Creating(o)
  <2>1. r = createRequest(o, cr[o].spec) /\ CreateValid(o, cr[o].spec)
    BY <1>3 DEF Creating
  <2> QED BY <1>1, <1>2, <2>1, CreationAsked
<1>4. CASE r \in Updating(o) \cup Deleting(o)
  <2>1. r \in UpdateRequests \cup DeleteRequests
    BY <1>1, <1>4, UpdateTyped, DeleteTyped DEF Updating, Deleting
  <2> QED BY <1>2, <2>1, ChangeAsked DEF Asked
<1> QED BY <1>2, <1>3, <1>4

\* What becomes of the tables in one step: a call takes effect, the world
\* interferes, or nothing happens to them.
TablesMove ==
    \/ \E r \in Requests : Asked(r) /\ \E out \in Serve(db, r) : db' = out.db
    \/ db' \in Interference(db) \cup Failures(db)
    \/ db' = db

\* Every step moves the tables in one of these ways, and only calls that some
\* spec asks for are on their way.
LEMMA EveryTablesMove ==
    ASSUME TypeOK, Tables, [Next]_vars
    PROVE  TablesMove /\ \A r \in stray' : Asked(r)
<1>1. ASSUME NEW o \in team,
             CreateAnswered(o) \/ UpdateAnswered(o) \/ DeleteAnswered(o)
      PROVE  TablesMove /\ stray' = stray
  BY <1>1, CallsAsked DEF CreateAnswered, UpdateAnswered, DeleteAnswered, TablesMove
<1>2. ASSUME NEW o \in team, Unanswered(o)
      PROVE  TablesMove /\ \A r \in stray' : Asked(r)
  <2>1. PICK r \in Creating(o) \cup Updating(o) \cup Deleting(o) :
           \/ Unnoticed(r) /\ UNCHANGED stray
           \/ stray' = stray \cup {r} /\ UNCHANGED db
    BY <1>2 DEF Unanswered
  <2>2. r \in Requests /\ Asked(r)
    BY <2>1, CallsAsked
  <2> QED BY <2>1, <2>2 DEF Unnoticed, TablesMove, Tables
<1>3. CASE LateEffect
  <2>1. PICK r \in stray : Unnoticed(r) /\ stray' = stray \ {r}
    BY <1>3 DEF LateEffect
  <2>2. r \in Requests /\ Asked(r)
    BY DEF TypeOK, Tables
  <2> QED BY <2>1, <2>2 DEF Unnoticed, TablesMove, Tables
<1>4. CASE Drift
  BY <1>4 DEF Drift, TablesMove, Tables
<1>5. CASE UNCHANGED <<db, stray>>
  BY <1>5 DEF TablesMove, Tables
<1> QED BY <1>1, <1>2, <1>3, <1>4, <1>5 DEF Next, ObserveFound, WriteStatus,
       LoseStatus, CreateRejected, Edit, MarkDeleted, UserStore, vars, Tables

\* They stay sane, and no id comes back.
LEMMA TablesKept ==
    ASSUME TypeOK, Tables, [Next]_vars
    PROVE  Tables' /\ NoReturn(db, db')
<1>1. TablesMove /\ \A r \in stray' : Asked(r)
  BY EveryTablesMove
<1>2. CASE \E r \in Requests : Asked(r) /\ \E out \in Serve(db, r) : db' = out.db
  <2>1. Sane(db') /\ NoReturn(db, db')
    BY <1>2, ServeSane DEF Tables
  <2> QED BY <1>1, <2>1 DEF Tables
<1>3. CASE db' \in Interference(db) \cup Failures(db)
  <2>1. Sane(db') /\ NoReturn(db, db')
    BY <1>3, WorldSane DEF Tables
  <2> QED BY <1>1, <2>1 DEF Tables
<1>4. CASE db' = db
  <2>1. Sane(db')
    BY <1>4 DEF Tables
  <2> QED BY <1>1, <1>4, <2>1 DEF Tables, NoReturn
<1> QED BY <1>1, <1>2, <1>3, <1>4 DEF TablesMove

\* In every behaviour ids and names tell the rows apart, and each row is what one
\* version of its resource's spec asks for.
THEOREM ContractTables == Spec => []Tables
<1>1. Init => Tables
  BY EmptySane DEF Init, Tables
<1>2. TypeOK /\ Tables /\ [Next]_vars => Tables'
  BY TablesKept
<1> QED BY <1>1, <1>2, ContractTypeCorrect, PTL DEF Spec

\* The conversion of the rules loses nothing and confuses no fields.
LEMMA RulesUnchanged ==
    ASSUME NEW rules, rules \subseteq Rules
    PROVE  SG!rulesProto(rules) = rules
<1>1. \A r \in rules :
         [id |-> r.id, protocol |-> r.protocol, hostPort |-> r.hostPort,
          targetPort |-> r.targetPort, source |-> r.source, vm |-> r.vm,
          dnat |-> r.dnat] = r
  BY DEF Rules
<1> QED BY <1>1 DEF SG!rulesProto

\* What the tables hold of all six kinds is what one version of its resource's spec
\* asks for, in every field the handlers convert or copy, through any edits, lost
\* answers, late calls and removals.
THEOREM SpecsAreWrittenThrough == Spec => []WrittenThrough
<1>1. Tables => WrittenThrough
  <2> SUFFICES ASSUME Tables PROVE WrittenThrough
    OBVIOUS
  <2>1. \A o \in Objs : \A r \in CreationsOf(o) :
           \E s \in SpecsOf[o] : r = createRequest(o, s)
    BY DEF CreationsOf
  <2>2. ASSUME NEW v \in db.vms
        PROVE  \E s \in SpecsOf[v.by] : /\ v.name = s.name
                                        /\ v.backend = StorageBackend(s.backend)
                                        /\ v.disks = s.disks /\ v.nics = s.nics
    <3>1. v.by \in Objs
      BY DEF Tables, Sane, Databases, Vms
    <3>2. PICK r \in CreationsOf(v.by) :
             /\ r.rpc = "CreateVm" /\ r.name = v.name
             /\ r.backend = v.backend /\ r.disks = v.disks /\ r.nics = v.nics
      BY DEF Tables, Sane, Rooted
    <3>3. PICK s \in SpecsOf[v.by] : r = createRequest(v.by, s)
      BY <2>1, <3>1
    <3>4. KindOf[v.by] = "VirtualMachine"
      BY <3>1, <3>2, <3>3, CreationFields
    <3>5. r = VM!createVMRequest(v.by, s)
      BY <3>3, <3>4 DEF createRequest
    <3>6. /\ r.name = s.name /\ r.backend = VM!StorageBackend(s.backend)
          /\ r.disks = s.disks /\ r.nics = s.nics
      BY <3>5 DEF VM!createVMRequest
    <3>7. VM!StorageBackend(s.backend) = StorageBackend(s.backend)
      BY DEF VM!StorageBackend, StorageBackend, VM!Word, Word, VM!ToLower, ToLower,
         VM!TrimSpace, TrimSpace
    <3> QED BY <3>2, <3>6, <3>7
  <2>3. ASSUME NEW l \in db.workloads
        PROVE  \E s \in SpecsOf[l.by] :
                  /\ l.kind = WorkloadKind(s.kind)
                  /\ l.kind = "VM" => l.name = s.vm.name
                  /\ l.kind # "VM" =>
                        /\ l.image = s.container.image
                        /\ \/ l.name = s.container.name
                           \/ l.name = "" /\ TrimSpace(s.container.name) = ""
    <3>1. l.by \in Objs
      BY DEF Tables, Sane, Databases, Workloads, WorkloadsOf
    <3>2. PICK r \in CreationsOf(l.by) :
             /\ r.rpc = "CreateWorkload" /\ r.kind = l.kind
             /\ r.name = l.name /\ r.image = l.image
      BY DEF Tables, Sane, Rooted
    <3>3. PICK s \in SpecsOf[l.by] : r = createRequest(l.by, s)
      BY <2>1, <3>1
    <3>4. KindOf[l.by] = "Workload"
      BY <3>1, <3>2, <3>3, CreationFields
    <3>5. r = WL!createRequest(l.by, s)
      BY <3>3, <3>4 DEF createRequest
    <3>6. WL!WorkloadKind(s.kind) = WorkloadKind(s.kind)
      BY DEF WL!WorkloadKind, WorkloadKind, WL!Word, Word, WL!ToLower, ToLower,
         WL!TrimSpace, TrimSpace
    <3> DEFINE c == WL!containerProto(s.container)
               vm == WorkloadKind(s.kind) = "VM"
    <3>7. /\ r.kind = WorkloadKind(s.kind)
          /\ vm => r.name = s.vm.name
          /\ ~ vm => r.name = c.name /\ r.image = c.image
      BY <3>5, <3>6, Zenon DEF WL!createRequest
    <3>8. /\ c.image = s.container.image
          /\ \/ c.name = s.container.name
             \/ c.name = "" /\ TrimSpace(s.container.name) = ""
      BY Zenon DEF WL!containerProto, WL!TrimSpace, TrimSpace
    <3> HIDE DEF c, vm
    <3> QED BY <3>2, <3>7, <3>8, Zenon DEF vm
  <2>4. ASSUME NEW n \in db.networks
        PROVE  \E s \in SpecsOf[n.by] :
                  /\ n.name = s.name /\ n.node = s.node /\ n.addr = s.addr
                  /\ n.type = s.type
                  /\ n.nat = (Word(s.type) = "vxlan" => s.nat = {TRUE})
    <3>1. n.by \in Objs
      BY DEF Tables, Sane, Databases, Networks
    <3>2. PICK r \in CreationsOf(n.by) :
             /\ r.rpc = "CreateNetwork" /\ r.name = n.name /\ r.node = n.node
             /\ r.addr = n.addr /\ r.type = n.type /\ r.nat = n.nat
      BY DEF Tables, Sane, Rooted
    <3>3. PICK s \in SpecsOf[n.by] : r = createRequest(n.by, s)
      BY <2>1, <3>1
    <3>4. KindOf[n.by] = "Network"
      BY <3>1, <3>2, <3>3, CreationFields
    <3>5. r = Net!createRequest(n.by, s)
      BY <3>3, <3>4 DEF createRequest
    <3>6. Net!Word(s.type) = Word(s.type)
      BY DEF Net!Word, Word, Net!ToLower, ToLower, Net!TrimSpace, TrimSpace
    <3>7. /\ r.name = s.name /\ r.node = s.node /\ r.addr = s.addr
          /\ r.type = s.type
          /\ r.nat = (Word(s.type) = "vxlan" => s.nat = {TRUE})
      BY <3>5, <3>6 DEF Net!createRequest
    <3> QED BY <3>2, <3>7
  <2>5. ASSUME NEW g \in db.groups
        PROVE  \E s \in SpecsOf[g.by] : g.name = s.name /\ g.rules = s.rules
    <3>1. g.by \in Objs
      BY DEF Tables, Sane, Databases, Groups
    <3>2. PICK r \in CreationsOf(g.by) :
             r.rpc = "CreateSecurityGroup" /\ r.name = g.name /\ r.rules = g.rules
      BY DEF Tables, Sane, Rooted
    <3>3. PICK s \in SpecsOf[g.by] : r = createRequest(g.by, s)
      BY <2>1, <3>1
    <3>4. KindOf[g.by] = "SecurityGroup"
      BY <3>1, <3>2, <3>3, CreationFields
    <3>5. r = SG!createRequest(g.by, s)
      BY <3>3, <3>4 DEF createRequest
    <3>6. s.rules \subseteq Rules
      BY <3>1, <3>4, SpecAssumption DEF Params, SG!Params, SG!Rules, Rules
    <3>7. r.name = s.name /\ r.rules = s.rules
      BY <3>5, <3>6, RulesUnchanged DEF SG!createRequest
    <3> QED BY <3>2, <3>7
  <2>6. ASSUME NEW a \in db.attachments
        PROVE  \E s \in SpecsOf[a.by] :
                  /\ a.group = TrimSpace(s.group) /\ a.target = TrimSpace(s.target)
                  /\ a.kind = SecurityGroupTargetKind(s.kind)
                  /\ a.node = TrimSpace(s.node)
    <3>1. a.by \in Objs
      BY DEF Tables, Sane, Databases, Attachments
    <3>2. PICK r \in CreationsOf(a.by) :
             /\ r.rpc = "AttachSecurityGroup" /\ r.group = a.group
             /\ r.kind = a.kind /\ r.target = a.target /\ r.node = a.node
      BY DEF Tables, Sane, Rooted
    <3>3. PICK s \in SpecsOf[a.by] : r = createRequest(a.by, s)
      BY <2>1, <3>1
    <3>4. KindOf[a.by] = "SecurityGroupAttachment"
      BY <3>1, <3>2, <3>3, CreationFields
    <3>5. r = SGA!createRequest(a.by, s)
      BY <3>3, <3>4 DEF createRequest
    <3>6. /\ r.group = TrimSpace(s.group) /\ r.target = TrimSpace(s.target)
          /\ r.kind = SecurityGroupTargetKind(s.kind) /\ r.node = TrimSpace(s.node)
      BY <3>5 DEF SGA!createRequest, SGA!SecurityGroupTargetKind,
         SecurityGroupTargetKind, SGA!Word, Word, SGA!ToLower, ToLower,
         SGA!TrimSpace, TrimSpace
    <3> QED BY <3>2, <3>6
  <2>7. ASSUME NEW k \in db.keys
        PROVE  \E s \in SpecsOf[k.by] : k.name = TrimSpace(s.name) /\ k.key = s.key
    <3>1. k.by \in Objs
      BY DEF Tables, Sane, Databases, SshKeys
    <3>2. PICK r \in CreationsOf(k.by) :
             r.rpc = "CreateSshKey" /\ r.name = k.name /\ r.key = k.key
      BY DEF Tables, Sane, Rooted
    <3>3. PICK s \in SpecsOf[k.by] : r = createRequest(k.by, s)
      BY <2>1, <3>1
    <3>4. KindOf[k.by] = "SSHKey"
      BY <3>1, <3>2, <3>3, CreationFields
    <3>5. r = Key!createRequest(k.by, s)
      BY <3>3, <3>4 DEF createRequest
    <3>6. r.name = TrimSpace(s.name) /\ r.key = s.key
      BY <3>5 DEF Key!createRequest, Key!TrimSpace, TrimSpace
    <3> QED BY <3>2, <3>6
  <2> QED BY <2>2, <2>3, <2>4, <2>5, <2>6, <2>7 DEF WrittenThrough
<1> QED BY <1>1, ContractTables, PTL

-----------------------------------------------------------------------------
(* What is shown                                                            *)

\* A new state in the status of o is that of a row of its kind under that name.
Own(o, tables, name, old, new) ==
    /\ new.vm \notin {"UNKNOWN", old.vm} =>
          \/ /\ KindOf[o] = "VirtualMachine"
             /\ \E v \in tables.vms : v.id = name /\ v.status.state = new.vm
          \/ \E l \in tables.workloads :
                l.id = name /\ l.kind = "VM" /\ l.status.state = new.vm
    /\ new.container \notin {"UNKNOWN", old.container} =>
          /\ KindOf[o] # "VirtualMachine"
          /\ \E l \in tables.workloads :
                l.id = name /\ l.kind # "VM" /\ l.status.state = new.container

\* One that says what it said before shows nothing new.
LEMMA OwnUnchanged ==
    ASSUME NEW o, NEW tables, NEW name, NEW old, NEW new,
           new.vm = old.vm, new.container = old.container
    PROVE  Own(o, tables, name, old, new)
BY DEF Own

\* What is shown stays so in tables that keep ids and states.
LEMMA OwnKept ==
    ASSUME NEW o, NEW tables, NEW name, NEW old, NEW new,
           Own(o, tables, name, old, new), NEW next,
           next.workloads = tables.workloads,
           \A v \in tables.vms : \E w \in next.vms : w.id = v.id /\ w.status = v.status
    PROVE  Own(o, next, name, old, new)
<1>1. \A v \in tables.vms : \E w \in next.vms :
         w.id = v.id /\ w.status.state = v.status.state
  OBVIOUS
<1> QED BY <1>1 DEF Own

\* The element of a set that is not empty is one of its elements.
LEMMA TheElement ==
    ASSUME NEW set, NEW zero
    PROVE  set # {} => The(set, zero) \in set
BY DEF The

\* Of an empty set the zero value is read.
LEMMA TheZero ==
    ASSUME NEW zero
    PROVE  The({}, zero) = zero
BY DEF The

\* What an observation shows is what it has found under the external name.
LEMMA ShownOwn ==
    ASSUME TypeOK, NEW o \in team
    PROVE  Own(o, db, cr[o].ext, status[o], Shown(o))
<1> DEFINE reply == Lookup(o, db, cr[o])
<1>1. status[o] \in Statuses
  BY DEF TypeOK
<1>2. CASE KindOf[o] = "VirtualMachine"
  <2> DEFINE states == {v.status.state : v \in reply.content}
  <2>1. reply = Found({v \in db.vms : v.id = cr[o].ext})
    BY <1>2 DEF Lookup, lookupRequest, VM!lookupRequest, VM!vmExternalID, Read, GetVm
  <2>2. reply.content \subseteq {v \in db.vms : v.id = cr[o].ext}
    BY <2>1 DEF Found, Ok, Error
  <2>3. Shown(o) = [status[o] EXCEPT !.ready = "Available",
                                     !.vm = The(states, status[o].vm)]
    BY <1>1, <1>2 DEF Shown, Observed, VM!Observed, VM!The, The, Statuses
  <2> HIDE DEF reply
  <2>4. /\ Shown(o).vm = The(states, status[o].vm)
        /\ Shown(o).container = status[o].container
    BY <1>1, <2>3 DEF Statuses
  <2>5. Shown(o).vm = status[o].vm
          \/ \E v \in db.vms : v.id = cr[o].ext /\ v.status.state = Shown(o).vm
    <3>1. CASE states = {}
      BY <2>4, <3>1, TheZero
    <3>2. CASE states # {}
      <4>1. The(states, status[o].vm) \in states
        BY <3>2, TheElement
      <4> QED BY <2>2, <2>4, <4>1
    <3> QED BY <3>1, <3>2
  <2> QED BY <1>2, <2>4, <2>5 DEF Own
<1>3. CASE KindOf[o] = "Workload"
  <2> DEFINE vm   == {l.status.state : l \in {x \in reply.content : (x.kind = "VM") = TRUE}}
             rest == {l.status.state : l \in {x \in reply.content : (x.kind = "VM") = FALSE}}
  <2>1. reply = Found({l \in db.workloads : l.kind = WL!WorkloadKind(cr[o].spec.kind)
                                          /\ l.id = cr[o].ext})
    BY <1>3 DEF Lookup, lookupRequest, WL!lookupRequest, WL!wlID, Read, GetWorkload
  <2>2. reply.content \subseteq {l \in db.workloads : l.id = cr[o].ext}
    BY <2>1 DEF Found, Ok, Error
  <2>3. Shown(o) = [status[o] EXCEPT !.ready = "Available",
                                     !.vm = The(vm, status[o].vm),
                                     !.container = The(rest, status[o].container)]
    BY <1>1, <1>3 DEF Shown, Observed, WL!Observed, WL!The, The, Statuses
  <2> HIDE DEF reply
  <2>4. /\ Shown(o).vm = The(vm, status[o].vm)
        /\ Shown(o).container = The(rest, status[o].container)
    BY <1>1, <2>3 DEF Statuses
  <2>5. \/ Shown(o).vm = status[o].vm
        \/ \E l \in db.workloads : l.id = cr[o].ext /\ l.kind = "VM"
                                     /\ l.status.state = Shown(o).vm
    <3>1. CASE vm = {}
      BY <2>4, <3>1, TheZero
    <3>2. CASE vm # {}
      <4>1. The(vm, status[o].vm) \in vm
        BY <3>2, TheElement
      <4> QED BY <2>2, <2>4, <4>1
    <3> QED BY <3>1, <3>2
  <2>6. \/ Shown(o).container = status[o].container
        \/ \E l \in db.workloads : l.id = cr[o].ext /\ l.kind # "VM"
                                     /\ l.status.state = Shown(o).container
    <3>1. CASE rest = {}
      BY <2>4, <3>1, TheZero
    <3>2. CASE rest # {}
      <4>1. The(rest, status[o].container) \in rest
        BY <3>2, TheElement
      <4> QED BY <2>2, <2>4, <4>1
    <3> QED BY <3>1, <3>2
  <2> QED BY <1>3, <2>5, <2>6 DEF Own
<1>4. CASE KindOf[o] \notin {"VirtualMachine", "Workload"}
  <2>1. Shown(o).vm = status[o].vm /\ Shown(o).container = status[o].container
    BY <1>1, <1>4 DEF Shown, Observed, Statuses
  <2> QED BY <2>1, OwnUnchanged
<1> QED BY <1>2, <1>3, <1>4

\* An update changes the size of a VM, not its id or its state.
LEMMA UpdateKeepsStates ==
    ASSUME TypeOK, NEW o \in team, NEW r \in Updating(o), NEW out \in Serve(db, r)
    PROVE  /\ out.db.workloads = db.workloads
           /\ \A v \in db.vms : \E w \in out.db.vms : w.id = v.id /\ w.status = v.status
<1> DEFINE hit == {v \in db.vms : v.id = r.id}
           next == [db EXCEPT !.vms = (@ \ hit) \cup {Resized(v, r) : v \in hit}]
<1>1. KindOf[o] = "VirtualMachine" /\ r \in VM!Update(o, cr[o])
  <2>1. o \in Objs
    BY TeamAssumption DEF TypeOK
  <2> QED BY <2>1, KindAssumption DEF Updating, Update, WL!Update, Net!Update, SG!Update,
       SGA!Update, Key!Update, Kinds
<1>2. r.rpc = "UpdateVm"
  <2>1. r \in {[rpc |-> "UpdateVm", by |-> o, id |-> VM!vmExternalID(cr[o]),
                cpus |-> cr[o].spec.cpus, memory |-> cr[o].spec.memory]}
    BY <1>1, Zenon DEF VM!Update
  <2> QED BY <2>1
<1>3. out \in UpdateVm(db, r)
  BY <1>2 DEF Serve
<1>4. CASE hit = {}
  BY <1>3, <1>4 DEF UpdateVm, Outcome
<1>5. CASE hit # {}
  <2>1. out.db = next
    BY <1>3, <1>5 DEF UpdateVm, Outcome
  <2>2. out.db.workloads = db.workloads
        /\ out.db.vms = (db.vms \ hit) \cup {Resized(v, r) : v \in hit}
    BY <2>1 DEF TypeOK, Databases
  <2>3. \A v \in hit : Resized(v, r).id = v.id /\ Resized(v, r).status = v.status
    BY DEF Resized, TypeOK, Databases, Vms
  <2> QED BY <2>2, <2>3
<1> QED BY <1>4, <1>5

\* A VM is created under the name Create records, with the state it shows.
LEMMA VmCreated ==
    ASSUME TypeOK, NEW o \in team, NEW r \in Creating(o), NEW out \in Serve(db, r),
           KindOf[o] = "VirtualMachine"
    PROVE  LET id == CreatedName(o, cr[o], out.answer)
           IN  /\ out.db.vms = (db.vms \ {v \in db.vms : v.name = r.name})
                                  \cup {VmRow(r, id)}
               /\ out.answer.content = {[id |-> id, state |-> StateFor(r.desired)]}
<1> DEFINE state == StateFor(r.desired)
<1>1. r = createRequest(o, cr[o].spec) /\ o \in Objs
  BY TeamAssumption DEF Creating, TypeOK
<1>2. out \in CreateVm(db, r)
  <2>1. r.rpc = "CreateVm"
    BY <1>1, CreationFields
  <2> QED BY <2>1 DEF Serve
<1>3. PICK id : out = Outcome([db EXCEPT
                    !.vms = (@ \ {v \in db.vms : v.name = r.name}) \cup {VmRow(r, id)},
                    !.issued = @ \cup {id}],
                  Ok({[id |-> id, state |-> state]}))
  BY <1>2 DEF CreateVm
<1>4. /\ out.db.vms = (db.vms \ {v \in db.vms : v.name = r.name}) \cup {VmRow(r, id)}
      /\ out.answer = Ok({[id |-> id, state |-> state]})
  BY <1>3 DEF Outcome, TypeOK, Databases
<1>5. out.answer.content = {[id |-> id, state |-> state]}
  BY <1>4 DEF Ok
<1>6. CreatedName(o, cr[o], out.answer) = id
  <2>1. CreatedName(o, cr[o], out.answer) = The({c.id : c \in out.answer.content}, "")
    BY Zenon DEF CreatedName, VM!CreatedName, VM!NewId, VM!The, The
  <2>2. {c.id : c \in out.answer.content} = {id}
    BY <1>5
  <2> QED BY <2>1, <2>2, TheElement
<1> QED BY <1>4, <1>5, <1>6

\* So is a workload, unless the call is answered with an error.
LEMMA WorkloadCreated ==
    ASSUME TypeOK, NEW o \in team, NEW r \in Creating(o), NEW out \in Serve(db, r),
           KindOf[o] = "Workload", out.answer.code = "OK"
    PROVE  LET id   == CreatedName(o, cr[o], out.answer)
               same == {l \in db.workloads : l.kind = r.kind /\ l.name = r.name}
           IN  /\ out.db.workloads = (db.workloads \ same) \cup {WorkloadRow(r, id)}
               /\ out.answer.content = {NewWorkload(r, id)}
<1> DEFINE same == {l \in db.workloads : l.kind = r.kind /\ l.name = r.name}
<1>1. r = createRequest(o, cr[o].spec) /\ o \in Objs
  BY TeamAssumption DEF Creating, TypeOK
<1>2. out \in CreateWorkload(db, r)
  <2>1. r.rpc = "CreateWorkload"
    BY <1>1, CreationFields
  <2> QED BY <2>1 DEF Serve
<1>3. PICK id : out = Outcome([db EXCEPT
                    !.workloads = (@ \ same) \cup {WorkloadRow(r, id)},
                    !.issued = @ \cup {id}],
                  Ok({NewWorkload(r, id)}))
  <2>1. out # Outcome(db, Error("InvalidArgument"))
    BY DEF Outcome, Error
  <2> QED BY <1>2, <2>1, Zenon DEF CreateWorkload
<1>4. /\ out.db.workloads = (db.workloads \ same) \cup {WorkloadRow(r, id)}
      /\ out.answer = Ok({NewWorkload(r, id)})
  BY <1>3 DEF Outcome, TypeOK, Databases
<1>5. out.answer.content = {NewWorkload(r, id)}
  BY <1>4 DEF Ok
<1>6. CreatedName(o, cr[o], out.answer) = id
  <2>1. CreatedName(o, cr[o], out.answer) = The({c.id : c \in out.answer.content}, "")
    BY Zenon DEF CreatedName, WL!CreatedName, WL!NewId, WL!The, The
  <2>2. NewWorkload(r, id).id = id
    BY DEF NewWorkload
  <2>3. {c.id : c \in out.answer.content} = {id}
    BY <1>5, <2>2
  <2> QED BY <2>1, <2>3, TheElement
<1> QED BY <1>4, <1>5, <1>6

\* What Create shows of what it has made is what the answer says, and the row is
\* under the name it records.
LEMMA CreatedOwn ==
    ASSUME TypeOK, NEW o \in team, NEW r \in Creating(o), NEW out \in Serve(db, r),
           out.answer.code = "OK"
    PROVE  Own(o, out.db, CreatedName(o, cr[o], out.answer), status[o],
               Created(o, status[o], out.answer))
<1> DEFINE new == Created(o, status[o], out.answer)
           id == CreatedName(o, cr[o], out.answer)
           state == StateFor(r.desired)
<1>1. status[o] \in Statuses
  BY DEF TypeOK
<1>2. CASE KindOf[o] = "VirtualMachine"
  <2>1. out.answer.content = {[id |-> id, state |-> state]}
    BY <1>2, VmCreated
  <2>2. VmRow(r, id) \in out.db.vms
    BY <1>2, VmCreated
  <2>3. VmRow(r, id).id = id /\ VmRow(r, id).status.state = state
    BY DEF VmRow, StatusFor
  <2>4. new.vm = state /\ new.container = status[o].container
    <3> DEFINE states == {c.state : c \in out.answer.content}
    <3>1. states = {state}
      BY <2>1
    <3>2. The(states, "UNKNOWN") = state
      BY <3>1, TheElement
    <3>3. new = [status[o] EXCEPT !.ready = "Available", !.vm = The(states, "UNKNOWN")]
      BY <1>2 DEF Created, VM!Created, VM!The, The
    <3> HIDE DEF states, state
    <3> QED BY <1>1, <3>2, <3>3 DEF Statuses
  <2> HIDE DEF new, id
  <2>5. Own(o, out.db, id, status[o], new)
    BY <1>2, <2>2, <2>3, <2>4 DEF Own
  <2> QED BY <2>5 DEF new, id
<1>3. CASE KindOf[o] = "Workload"
  <2> DEFINE vm == IF r.kind = "VM" THEN state ELSE "UNKNOWN"
             container == IF r.kind = "VM" THEN "UNKNOWN" ELSE state
  <2>1. out.answer.content = {NewWorkload(r, id)}
    BY <1>3, WorkloadCreated
  <2>2. NewWorkload(r, id).vmState = vm /\ NewWorkload(r, id).containerState = container
    BY DEF NewWorkload
  <2>3. WorkloadRow(r, id) \in out.db.workloads
    BY <1>3, WorkloadCreated
  <2>4. WorkloadRow(r, id).id = id /\ WorkloadRow(r, id).kind = r.kind
          /\ WorkloadRow(r, id).status.state = state
    BY DEF WorkloadRow, StatusFor
  <2> HIDE DEF vm, container
  <2>5. new.vm = vm /\ new.container = container
    <3> DEFINE vms == {c.vmState : c \in out.answer.content}
               rest == {c.containerState : c \in out.answer.content}
    <3>1. vms = {vm} /\ rest = {container}
      BY <2>1, <2>2
    <3>2. The(vms, "UNKNOWN") = vm /\ The(rest, "UNKNOWN") = container
      BY <3>1, TheElement
    <3>3. new = [status[o] EXCEPT !.ready = "Available", !.vm = The(vms, "UNKNOWN"),
                                  !.container = The(rest, "UNKNOWN")]
      BY <1>3 DEF Created, WL!Created, WL!The, The
    <3> HIDE DEF vms, rest
    <3> QED BY <1>1, <3>2, <3>3 DEF Statuses
  <2> HIDE DEF new, id, state
  <2>6. Own(o, out.db, id, status[o], new)
    <3>1. r.kind = "VM" => vm = state /\ container = "UNKNOWN"
      BY DEF vm, container
    <3>2. r.kind # "VM" => vm = "UNKNOWN" /\ container = state
      BY DEF vm, container
    <3> QED BY <1>3, <2>3, <2>4, <2>5, <3>1, <3>2 DEF Own
  <2> QED BY <2>6 DEF new, id
<1>4. CASE KindOf[o] \notin {"VirtualMachine", "Workload"}
  <2>1. new.vm = status[o].vm /\ new.container = status[o].container
    BY <1>1, <1>4 DEF Created, Statuses
  <2> QED BY <2>1, OwnUnchanged
<1> QED BY <1>2, <1>3, <1>4

\* Of a creation or a deletion that fails or has no answer the states stay.
LEMMA ReadyOnly ==
    ASSUME NEW s \in Statuses
    PROVE  /\ Creation(s).vm = s.vm /\ Creation(s).container = s.container
           /\ Deletion(s).vm = s.vm /\ Deletion(s).container = s.container
BY DEF Creation, Deletion, Statuses

\* Every step leaves nothing new in a copy but what is so after it.
LEMMA StepOwn ==
    ASSUME TypeOK, Next, NEW o \in team, NEW s \in left'[o], s \notin left[o]
    PROVE  Own(o, db', cr'[o].ext, status[o], s)
<1>1. status[o] \in Statuses
  BY DEF TypeOK
<1>2. ASSUME NEW p \in team, NEW new, Publish(p, new)
      PROVE  p = o /\ s = new
  <2>1. left' = [left EXCEPT ![p] = {new}] /\ DOMAIN left = team
    BY <1>2 DEF Publish, TypeOK
  <2>2. p = o
    BY <2>1
  <2> QED BY <2>1, <2>2
<1>3. ASSUME s \in {Creation(status[o]), Deletion(status[o])}
      PROVE  Own(o, db', cr'[o].ext, status[o], s)
  <2>1. s.vm = status[o].vm /\ s.container = status[o].container
    BY <1>1, <1>3, ReadyOnly
  <2> QED BY <2>1, OwnUnchanged
<1>4. ASSUME cr' = cr, s = Shown(o),
             db' = db \/ \E r \in Updating(o) : \E out \in Serve(db, r) : db' = out.db
      PROVE  Own(o, db', cr'[o].ext, status[o], s)
  <2>1. Own(o, db, cr[o].ext, status[o], Shown(o))
    BY ShownOwn
  <2>2. /\ db'.workloads = db.workloads
        /\ \A v \in db.vms : \E w \in db'.vms : w.id = v.id /\ w.status = v.status
    BY <1>4, UpdateKeepsStates
  <2> QED BY <1>4, <2>1, <2>2, OwnKept
<1>5. ~ \E p \in team : WriteStatus(p) \/ LoseStatus(p) \/ Edit(p) \/ MarkDeleted(p)
  <2>1. \A p \in team : left' = [left EXCEPT ![p] = {}] => left'[o] \subseteq left[o]
    BY DEF TypeOK
  <2> QED BY <2>1 DEF WriteStatus, LoseStatus, Edit, MarkDeleted, UserStore
<1>6. ~ (LateEffect \/ Drift)
  BY DEF LateEffect, Drift
<1>7. ASSUME NEW p \in team, ObserveFound(p)
      PROVE  Own(o, db', cr'[o].ext, status[o], s)
  BY <1>2, <1>4, <1>7 DEF ObserveFound
<1>8. ASSUME NEW p \in team, CreateRejected(p)
      PROVE  Own(o, db', cr'[o].ext, status[o], s)
  BY <1>2, <1>3, <1>8 DEF CreateRejected
<1>9. ASSUME NEW p \in team, UpdateAnswered(p)
      PROVE  Own(o, db', cr'[o].ext, status[o], s)
  BY <1>2, <1>4, <1>9 DEF UpdateAnswered
<1>10. ASSUME NEW p \in team, DeleteAnswered(p)
      PROVE  Own(o, db', cr'[o].ext, status[o], s)
  BY <1>2, <1>3, <1>10 DEF DeleteAnswered
<1>11. ASSUME NEW p \in team, CreateAnswered(p)
      PROVE  Own(o, db', cr'[o].ext, status[o], s)
  <2>1. PICK r \in Creating(p) : \E out \in Serve(db, r) :
           /\ db' = out.db
           /\ Publish(p, Created(p, status[p], out.answer))
           /\ out.answer.code = "OK" =>
                 cr' = [cr EXCEPT ![p].ext = CreatedName(p, cr[p], out.answer)]
    BY <1>11 DEF CreateAnswered
  <2>2. PICK out \in Serve(db, r) :
           /\ db' = out.db
           /\ Publish(p, Created(p, status[p], out.answer))
           /\ out.answer.code = "OK" =>
                 cr' = [cr EXCEPT ![p].ext = CreatedName(p, cr[p], out.answer)]
    BY <2>1
  <2>3. p = o /\ s = Created(o, status[o], out.answer)
    BY <1>2, <2>2
  <2>4. CASE out.answer.code = "OK"
    <3>1. cr[o] \in Copies(o) /\ DOMAIN cr = team
      BY DEF TypeOK
    <3> DEFINE name == CreatedName(o, cr[o], out.answer)
    <3>2. cr' = [cr EXCEPT ![o].ext = name]
      BY <2>2, <2>3, <2>4
    <3>3. Own(o, out.db, name, status[o], Created(o, status[o], out.answer))
      BY <2>3, <2>4, CreatedOwn
    <3> HIDE DEF name
    <3>4. cr'[o].ext = name
      BY <3>1, <3>2 DEF Copies
    <3> QED BY <2>2, <2>3, <3>3, <3>4
  <2>5. CASE out.answer.code # "OK"
    BY <1>3, <2>3, <2>5 DEF Created
  <2> QED BY <2>4, <2>5
<1>12. ASSUME NEW p \in team, Unanswered(p)
      PROVE  Own(o, db', cr'[o].ext, status[o], s)
  <2>1. PICK r \in Creating(p) \cup Updating(p) \cup Deleting(p) :
           /\ Publish(p, Unsettled(p, r))
           /\ Unnoticed(r) \/ UNCHANGED db
    BY <1>12 DEF Unanswered
  <2>2. cr' = cr
    BY <1>12 DEF Unanswered
  <2>3. p = o /\ s = Unsettled(o, r)
    BY <1>2, <2>1
  <2>4. CASE r \in CreateRequests \cup DeleteRequests
    BY <1>3, <2>3, <2>4 DEF Unsettled
  <2>5. CASE r \notin CreateRequests \cup DeleteRequests
    <3>1. Unsettled(o, r) = Shown(o)
      BY <2>5 DEF Unsettled
    <3>2. r \in Updating(o)
      <4>1. o \in Objs /\ cr[o].ext \in STRING /\ cr[o].spec \in SpecsOf[o]
        BY TeamAssumption DEF TypeOK, Copies
      <4>2. r \notin Creating(o)
        BY <2>5, <4>1, CreateRequestTyped DEF Creating
      <4>3. r \notin Deleting(o)
        BY <2>5, <4>1, DeleteTyped DEF Deleting
      <4> QED BY <2>1, <2>3, <4>2, <4>3
    <3>3. db' = db \/ \E out \in Serve(db, r) : db' = out.db
      BY <2>1 DEF Unnoticed
    <3> QED BY <1>4, <2>2, <2>3, <3>1, <3>2, <3>3
  <2> QED BY <2>4, <2>5
<1> QED BY <1>5, <1>6, <1>7, <1>8, <1>9, <1>10, <1>11, <1>12 DEF Next

\* What is shown is nothing else than what a handler left.
LEMMA ShownWasLeft ==
    ASSUME TypeOK, Next, NEW o \in team, status'[o] # status[o]
    PROVE  status'[o] \in left[o]
<1>1. CASE \E p \in team : WriteStatus(p)
  BY <1>1 DEF WriteStatus, TypeOK
<1>2. CASE UNCHANGED status
  BY <1>2
<1> QED BY <1>1, <1>2 DEF Next, ObserveFound, LoseStatus, CreateRejected,
       CreateAnswered, UpdateAnswered, DeleteAnswered, Unanswered, Publish, Edit,
       MarkDeleted, UserStore, LateEffect, Drift

\* No state ever comes to be shown that the resource under the external name was
\* not in when its handler looked: none from an answered creation, none of the
\* wrong kind, and none that no handler left.
THEOREM ShownStatesAreOwn == Spec => ShownStateIsOwn
<1>1. ASSUME TypeOK, Tables, TypeOK', Tables',
             [Next]_vars
      PROVE  [\A o \in team :
          LET rows == {v \in db'.vms \cup db'.workloads : v.id = cr'[o].ext}
              ofVm == KindOf[o] = "VirtualMachine"
                        \/ \E v \in rows \cap db'.workloads : v.kind = "VM"
          IN  /\ \A s \in left'[o] \ left[o] :
                    /\ s.vm \notin {"UNKNOWN", status[o].vm} =>
                          ofVm /\ \E v \in rows : v.status.state = s.vm
                    /\ s.container \notin {"UNKNOWN", status[o].container} =>
                          ~ ofVm /\ \E v \in rows : v.status.state = s.container
              /\ status'[o] # status[o] => status'[o] \in left[o]]_vars
  <2> SUFFICES ASSUME Next, NEW o \in team
               PROVE  LET rows == {v \in db'.vms \cup db'.workloads : v.id = cr'[o].ext}
                          ofVm == KindOf[o] = "VirtualMachine"
                                    \/ \E v \in rows \cap db'.workloads : v.kind = "VM"
                      IN  /\ \A s \in left'[o] \ left[o] :
                                /\ s.vm \notin {"UNKNOWN", status[o].vm} =>
                                      ofVm /\ \E v \in rows : v.status.state = s.vm
                                /\ s.container \notin {"UNKNOWN", status[o].container} =>
                                      ~ ofVm /\ \E v \in rows :
                                                  v.status.state = s.container
                          /\ status'[o] # status[o] => status'[o] \in left[o]
    BY <1>1
  <2>1. \A s \in left'[o] \ left[o] : Own(o, db', cr'[o].ext, status[o], s)
    BY <1>1, StepOwn
  <2>2. Coherent(db)'
    BY <1>1 DEF Tables, Sane
  <2>3. \A k, l \in db'.workloads : k.id = l.id => k = l
    BY <2>2 DEF Coherent
  <2>4. status'[o] # status[o] => status'[o] \in left[o]
    BY <1>1, ShownWasLeft
  <2> QED BY <2>1, <2>3, <2>4 DEF Own
<1> QED BY <1>1, ContractTypeCorrect, ContractTables, PTL DEF Spec, ShownStateIsOwn

-----------------------------------------------------------------------------
(* What is found again                                                      *)

\* Two requests create the same thing.
SameThing(q, r) ==
    /\ q.rpc # "AttachSecurityGroup" => q.name = r.name
    /\ q.rpc = "CreateWorkload" => q.kind = r.kind
    /\ q.rpc = "CreateNetwork" => q.node = r.node
    /\ q.rpc = "AttachSecurityGroup" =>
          /\ q.group = r.group /\ q.kind = r.kind
          /\ q.target = r.target /\ q.node = r.node

\* Edits leave alone what identifies a thing at the kcore controller: its name,
\* the kind of a workload, the node of a network, all of an attachment.  Nothing
\* in the code sees to it; a user who does edit them loses track of the thing.
Steady ==
    \A o \in Objs : \A r \in CreationsOf(o) :
        /\ \A q \in CreationsOf(o) : SameThing(q, r)
        /\ \A s \in SpecsOf[o] :
              /\ KindOf[o] = "Workload" => WorkloadKind(s.kind) = r.kind
              /\ KindOf[o] = "Network" => s.node = r.node

\* A row is in the table of its resource's kind.
LEMMA RowKinds ==
    ASSUME NEW tables, Sane(tables)
    PROVE  /\ \A v \in tables.vms : v.by \in Objs /\ KindOf[v.by] = "VirtualMachine"
           /\ \A l \in tables.workloads : l.by \in Objs /\ KindOf[l.by] = "Workload"
           /\ \A n \in tables.networks : n.by \in Objs /\ KindOf[n.by] = "Network"
           /\ \A g \in tables.groups : g.by \in Objs /\ KindOf[g.by] = "SecurityGroup"
           /\ \A a \in tables.attachments :
                 a.by \in Objs /\ KindOf[a.by] = "SecurityGroupAttachment"
           /\ \A k \in tables.keys : k.by \in Objs /\ KindOf[k.by] = "SSHKey"
<1>1. /\ \A v \in tables.vms : v.by \in Objs
      /\ \A l \in tables.workloads : l.by \in Objs
      /\ \A n \in tables.networks : n.by \in Objs
      /\ \A g \in tables.groups : g.by \in Objs
      /\ \A a \in tables.attachments : a.by \in Objs
      /\ \A k \in tables.keys : k.by \in Objs
  BY DEF Sane, Databases, Vms, Workloads, WorkloadsOf, Networks, Groups,
     Attachments, SshKeys
<1>2. \A o \in Objs : \A r \in CreationsOf(o) :
         /\ r.rpc = "CreateVm" => KindOf[o] = "VirtualMachine"
         /\ r.rpc = "CreateWorkload" => KindOf[o] = "Workload"
         /\ r.rpc = "CreateNetwork" => KindOf[o] = "Network"
         /\ r.rpc = "CreateSecurityGroup" => KindOf[o] = "SecurityGroup"
         /\ r.rpc = "AttachSecurityGroup" => KindOf[o] = "SecurityGroupAttachment"
         /\ r.rpc = "CreateSshKey" => KindOf[o] = "SSHKey"
  BY CreationFields DEF CreationsOf
<1> QED BY <1>1, <1>2 DEF Sane, Rooted

\* What a resource owns is in the table of its kind.
LEMMA OwnedByKind ==
    ASSUME NEW tables, Sane(tables), NEW o
    PROVE  /\ KindOf[o] # "VirtualMachine" => \A v \in tables.vms : v.by # o
           /\ KindOf[o] # "Workload" => \A l \in tables.workloads : l.by # o
           /\ KindOf[o] # "Network" => \A n \in tables.networks : n.by # o
           /\ KindOf[o] # "SecurityGroup" => \A g \in tables.groups : g.by # o
           /\ KindOf[o] # "SecurityGroupAttachment" => \A a \in tables.attachments : a.by # o
           /\ KindOf[o] # "SSHKey" => \A k \in tables.keys : k.by # o
BY RowKinds

\* A creation that finds a row of that name gives the new row its id.
LEMMA UpsertKeepsVm ==
    ASSUME db \in Databases, Coherent(db), NEW r, NEW out \in CreateVm(db, r),
           NEW u \in db.vms, u.name = r.name,
           NEW v \in out.db.vms, v.name = r.name
    PROVE  v.id = u.id
<1> DEFINE same == {w \in db.vms : w.name = r.name}
<1>1. PICK id \in IdsFor(db, same) :
         out = Outcome([db EXCEPT !.vms = (@ \ same) \cup {VmRow(r, id)},
                                  !.issued = @ \cup {id}],
                       Ok({[id |-> id, state |-> StateFor(r.desired)]}))
  BY DEF CreateVm
<1>2. out.db.vms = (db.vms \ same) \cup {VmRow(r, id)}
  BY <1>1 DEF Outcome, Databases
<1>3. v.id = id
  BY <1>2 DEF VmRow
<1>4. same = {u}
  BY DEF Coherent
<1>5. id = u.id
  <2> HIDE DEF same
  <2> QED BY <1>4 DEF IdsFor
<1> QED BY <1>3, <1>5

\* A creation that finds its workload by kind and name keeps its id.
LEMMA UpsertKeepsWorkload ==
    ASSUME db \in Databases, Coherent(db), NEW r, NEW out \in CreateWorkload(db, r),
           NEW k \in db.workloads, k.kind = r.kind, k.name = r.name,
           NEW l \in out.db.workloads, l.kind = r.kind, l.name = r.name
    PROVE  l.id = k.id
<1> DEFINE same == {x \in db.workloads : x.kind = r.kind /\ x.name = r.name}
<1>1. CASE out = Outcome(db, Error("InvalidArgument"))
  BY <1>1 DEF Outcome, Coherent
<1>2. CASE out # Outcome(db, Error("InvalidArgument"))
  <2>1. PICK id \in IdsFor(db, same) :
           out = Outcome([db EXCEPT !.workloads = (@ \ same) \cup {WorkloadRow(r, id)},
                                    !.issued = @ \cup {id}],
                         Ok({NewWorkload(r, id)}))
    BY <1>2, Zenon DEF CreateWorkload
  <2>2. out.db.workloads = (db.workloads \ same) \cup {WorkloadRow(r, id)}
    BY <2>1 DEF Outcome, Databases
  <2>3. l.id = id
    BY <2>2 DEF WorkloadRow
  <2>4. same = {k}
    BY DEF Coherent
  <2>5. id = k.id
    <3> HIDE DEF same
    <3> QED BY <2>4 DEF IdsFor
  <2> QED BY <2>3, <2>5
<1> QED BY <1>1, <1>2

\* The VMs and workloads of o in next have the ids they had, and what o owns there
\* it does not own for the first time.
Kept(o, tables, next) ==
    /\ \A v \in next.vms : v.by = o => \E u \in tables.vms : u.by = o /\ u.id = v.id
    /\ \A l \in next.workloads :
          l.by = o => \E k \in tables.workloads : k.by = o /\ k.id = l.id
    /\ Owned(tables, o) = {} => Owned(next, o) = {}

\* Calls that create nothing take nobody away from the id on record.
LEMMA NothingNewKept ==
    ASSUME NEW o, NEW next, NothingNew(db, next)
    PROVE  Kept(o, db, next)
<1>1. Owned(next, o) # {} => Owned(db, o) # {}
  <2> SUFFICES ASSUME NEW row \in Owned(next, o) PROVE Owned(db, o) # {}
    OBVIOUS
  <2> QED BY DEF Owned, NothingNew, VmKept, WorkloadKept
<1> QED BY <1>1 DEF Kept, NothingNew, VmKept, WorkloadKept

\* The creations of others are nothing to it.
LEMMA OthersCreationKept ==
    ASSUME NEW o, NEW r, r.by # o, NEW next, NewByRequest(db, r, next)
    PROVE  Kept(o, db, next)
<1>1. /\ \A v \in next.vms : v.by = o => \E u \in db.vms : VmKept(u, v)
      /\ \A l \in next.workloads : l.by = o => \E k \in db.workloads : WorkloadKept(k, l)
  BY DEF NewByRequest, VmRow, WorkloadRow
<1>2. Owned(next, o) # {} => Owned(db, o) # {}
  <2> SUFFICES ASSUME NEW row \in Owned(next, o) PROVE Owned(db, o) # {}
    OBVIOUS
  <2>1. CASE row \in next.vms \cup next.workloads
    BY <1>1, <2>1 DEF Owned, VmKept, WorkloadKept
  <2>2. CASE row \in next.networks \cup next.groups \cup next.attachments \cup next.keys
    BY <2>2 DEF Owned, NewByRequest
  <2> QED BY <2>1, <2>2 DEF Owned
<1> QED BY <1>1, <1>2 DEF Kept, VmKept, WorkloadKept

\* Nor is a second creation of its own.
LEMMA OwnCreationKept ==
    ASSUME Sane(db), Steady, NEW o \in Objs, NEW r \in CreationsOf(o),
           r \in CreateRequests, NEW out \in Serve(db, r), Sane(out.db),
           Owned(db, o) # {}
    PROVE  Kept(o, db, out.db)
<1>1. \A q \in CreationsOf(o) : SameThing(q, r)
  BY DEF Steady
<1>2. PICK row : row \in Owned(db, o)
  OBVIOUS
<1>3. ASSUME NEW v \in out.db.vms, v.by = o
      PROVE  \E u \in db.vms : u.by = o /\ u.id = v.id
  <2>1. KindOf[o] = "VirtualMachine"
    BY <1>3, RowKinds
  <2>2. row \in db.vms /\ row.by = o
    BY <1>2, <2>1, OwnedByKind DEF Owned
  <2>3. row.name = r.name /\ v.name = r.name /\ r.rpc = "CreateVm"
    <3>1. PICK q \in CreationsOf(o) : q.rpc = "CreateVm" /\ q.name = row.name
      BY <2>2 DEF Sane, Rooted
    <3>2. PICK p \in CreationsOf(o) : p.rpc = "CreateVm" /\ p.name = v.name
      BY <1>3 DEF Sane, Rooted
    <3>3. r.rpc = "CreateVm"
      BY <2>1, CreationFields DEF CreationsOf
    <3> QED BY <1>1, <3>1, <3>2, <3>3 DEF SameThing
  <2>4. out \in CreateVm(db, r)
    BY <2>3 DEF Serve
  <2>5. v.id = row.id
    BY <2>2, <2>3, <2>4, UpsertKeepsVm DEF Sane
  <2> QED BY <2>2, <2>5
<1>4. ASSUME NEW l \in out.db.workloads, l.by = o
      PROVE  \E k \in db.workloads : k.by = o /\ k.id = l.id
  <2>1. KindOf[o] = "Workload"
    BY <1>4, RowKinds
  <2>2. row \in db.workloads /\ row.by = o
    BY <1>2, <2>1, OwnedByKind DEF Owned
  <2>3. /\ row.name = r.name /\ row.kind = r.kind
        /\ l.name = r.name /\ l.kind = r.kind
        /\ r.rpc = "CreateWorkload"
    <3>1. PICK q \in CreationsOf(o) :
             q.rpc = "CreateWorkload" /\ q.name = row.name /\ q.kind = row.kind
      BY <2>2 DEF Sane, Rooted
    <3>2. PICK p \in CreationsOf(o) :
             p.rpc = "CreateWorkload" /\ p.name = l.name /\ p.kind = l.kind
      BY <1>4 DEF Sane, Rooted
    <3>3. r.rpc = "CreateWorkload"
      BY <2>1, CreationFields DEF CreationsOf
    <3> QED BY <1>1, <3>1, <3>2, <3>3 DEF SameThing
  <2>4. out \in CreateWorkload(db, r)
    BY <2>3 DEF Serve
  <2>5. l.id = row.id
    BY <2>2, <2>3, <2>4, UpsertKeepsWorkload DEF Sane
  <2> QED BY <2>2, <2>5
<1> QED BY <1>3, <1>4 DEF Kept

\* A call disturbs what o owns only by making it own something (again).
LEMMA EffectKept ==
    ASSUME Sane(db), Steady, NEW o \in Objs, NEW r \in Requests, Asked(r),
           NEW out \in Serve(db, r)
    PROVE  \/ Kept(o, db, out.db)
           \/ r \in CreateRequests /\ r.by = o /\ Owned(db, o) = {}
<1>1. Sane(out.db)
  BY ServeSane
<1>2. CASE r \in CreateRequests /\ r.by # o
  BY <1>2, CreateCoherent, OthersCreationKept DEF Sane
<1>3. CASE r \in CreateRequests /\ r.by = o
  BY <1>1, <1>3, OwnCreationKept DEF Asked
<1>4. CASE r \in UpdateRequests \cup DeleteRequests
  BY <1>4, ChangeCoherent, NothingNewKept DEF Sane
<1> QED BY <1>2, <1>3, <1>4 DEF Requests

\* A creation that is answered with an error has changed nothing.
LEMMA FailedCreation ==
    ASSUME db \in Databases, NEW r \in CreateRequests, NEW out \in Serve(db, r),
           out.answer.code # "OK"
    PROVE  out.db = db
<1>1. \A tables, content : Outcome(tables, Ok(content)).answer.code = "OK"
  BY DEF Outcome, Ok
<1>2. \A code : Outcome(db, Error(code)).db = db
  BY DEF Outcome
<1>3. CASE out \in CreateVm(db, r)
  BY <1>1, <1>3 DEF CreateVm
<1>4. CASE out \in CreateWorkload(db, r)
  <2>1. out = Outcome(db, Error("InvalidArgument"))
    BY <1>1, <1>4, Zenon DEF CreateWorkload
  <2> QED BY <1>2, <2>1
<1>5. CASE out \in CreateNetwork(db, r)
  BY <1>1, <1>5, Zenon DEF CreateNetwork
<1>6. CASE out \in CreateSecurityGroup(db, r)
  BY <1>1, <1>6 DEF CreateSecurityGroup
<1>7. CASE out \in AttachSecurityGroup(db, r)
  <2>1. out = Outcome(db, Error("NotFound"))
    BY <1>1, <1>7, Zenon DEF AttachSecurityGroup
  <2> QED BY <1>2, <2>1
<1>8. CASE out \in CreateSshKey(db, r)
  BY <1>1, <1>8, Zenon DEF CreateSshKey
<1> QED BY <1>3, <1>4, <1>5, <1>6, <1>7, <1>8, CreateCases

\* The kinds whose things have an id of the service.
HasId(o) == KindOf[o] \in {"VirtualMachine", "Workload"}

\* Where what o has created is to be looked for.
Recorded(o) ==
    /\ KindOf[o] = "VirtualMachine" => \A v \in db.vms : v.by = o => v.id = cr[o].ext
    /\ KindOf[o] = "Workload" => \A l \in db.workloads : l.by = o => l.id = cr[o].ext
    /\ KindOf[o] \in {"Network", "SecurityGroup", "SSHKey"} =>
          \E r \in CreationsOf(o) : cr[o].ext = r.name

\* The external name of a resource whose creation was acknowledged is that of what
\* it owns, no attachment has an empty one, and what is gone is marked as deleted.
Records ==
    /\ \A o \in made : Recorded(o)
    /\ \A o \in team :
          KindOf[o] = "SecurityGroupAttachment" => cr[o].ext \notin {"", "//"}
    /\ \A o \in gone : cr[o].deleting

\* A trimmed name that is not empty comes from one that is not empty.
LEMMA NotEmpty ==
    ASSUME NEW s, TrimSpace(s) # ""
    PROVE  s # ""
BY TrimmedAssumption, Zenon DEF TrimSpace

\* What has a name is not created under the empty one.
LEMMA CreationNamed ==
    ASSUME NEW o \in Objs, NEW r \in CreationsOf(o),
           KindOf[o] \in {"Network", "SecurityGroup", "SSHKey"}
    PROVE  r.name # ""
<1> DEFINE empty == ""
<1>1. PICK p \in SpecsOf[o] : CreateValid(o, p) /\ r = createRequest(o, p)
  BY DEF CreationsOf
<1>2. CASE KindOf[o] = "Network"
  <2>1. r = Net!createRequest(o, p) /\ TrimSpace(p.name) # empty
    BY <1>1, <1>2, Zenon DEF createRequest, CreateValid, Net!CreateValid, Net!TrimSpace,
       TrimSpace
  <2>2. p.name # empty
    BY <2>1, NotEmpty
  <2> HIDE DEF empty
  <2>3. r.name # empty
    BY <2>1, <2>2 DEF Net!createRequest
  <2> QED BY <2>3 DEF empty
<1>3. CASE KindOf[o] = "SecurityGroup"
  <2>1. r = SG!createRequest(o, p) /\ TrimSpace(p.name) # empty
    BY <1>1, <1>3, Zenon DEF createRequest, CreateValid, SG!CreateValid, SG!TrimSpace,
       TrimSpace
  <2>2. p.name # empty
    BY <2>1, NotEmpty
  <2> HIDE DEF empty
  <2>3. r.name # empty
    BY <2>1, <2>2 DEF SG!createRequest
  <2> QED BY <2>3 DEF empty
<1>4. CASE KindOf[o] = "SSHKey"
  <2>1. r = Key!createRequest(o, p) /\ Key!TrimSpace(p.name) # empty
    BY <1>1, <1>4, Zenon DEF createRequest, CreateValid, Key!CreateValid
  <2> HIDE DEF empty
  <2>2. r.name # empty
    BY <2>1 DEF Key!createRequest
  <2> QED BY <2>2 DEF empty
<1> QED BY <1>2, <1>3, <1>4

\* The name Create records is that of its call.
LEMMA NameCreated ==
    ASSUME NEW o \in Objs, NEW k, NEW reply,
           KindOf[o] \in {"Network", "SecurityGroup", "SSHKey"}
    PROVE  CreatedName(o, k, reply) = createRequest(o, k.spec).name
<1>1. CASE KindOf[o] = "Network"
  BY <1>1 DEF CreatedName, createRequest, Net!CreatedName, Net!createRequest
<1>2. CASE KindOf[o] = "SecurityGroup"
  BY <1>2 DEF CreatedName, createRequest, SG!CreatedName, SG!createRequest
<1>3. CASE KindOf[o] = "SSHKey"
  BY <1>3 DEF CreatedName, createRequest, Key!CreatedName, Key!createRequest
<1> QED BY <1>1, <1>2, <1>3

\* What creation leaves on record is where the thing is.
LEMMA CreationRecorded ==
    ASSUME TypeOK, Tables, Steady, NEW o \in team, NEW r \in Creating(o),
           NEW out \in Serve(db, r), out.answer.code = "OK",
           db' = out.db, cr'[o].ext = CreatedName(o, cr[o], out.answer)
    PROVE  Recorded(o)'
<1>1. /\ o \in Objs /\ r = createRequest(o, cr[o].spec)
      /\ r \in CreationsOf(o)
  BY TeamAssumption DEF TypeOK, Creating, Copies, CreationsOf
<1>2. \A q \in CreationsOf(o) : SameThing(q, r)
  BY <1>1 DEF Steady
<1>3. CASE KindOf[o] = "VirtualMachine"
  <2> DEFINE id == CreatedName(o, cr[o], out.answer)
  <2>1. db'.vms = (db.vms \ {v \in db.vms : v.name = r.name}) \cup {VmRow(r, id)}
    BY <1>3, VmCreated
  <2>2. \A v \in db.vms : v.by = o => v.name = r.name
    <3> SUFFICES ASSUME NEW v \in db.vms, v.by = o PROVE v.name = r.name
      OBVIOUS
    <3>1. PICK q \in CreationsOf(o) : q.rpc = "CreateVm" /\ q.name = v.name
      BY DEF Tables, Sane, Rooted
    <3> QED BY <1>2, <3>1 DEF SameThing
  <2>3. \A v \in db'.vms : v.by = o => v.id = id
    BY <2>1, <2>2 DEF VmRow
  <2> QED BY <1>3, <2>3 DEF Recorded
<1>4. CASE KindOf[o] = "Workload"
  <2> DEFINE id == CreatedName(o, cr[o], out.answer)
  <2>1. db'.workloads = (db.workloads \ {l \in db.workloads :
                                            l.kind = r.kind /\ l.name = r.name})
                           \cup {WorkloadRow(r, id)}
    BY <1>4, WorkloadCreated
  <2>2. \A l \in db.workloads : l.by = o => l.kind = r.kind /\ l.name = r.name
    <3> SUFFICES ASSUME NEW l \in db.workloads, l.by = o
                 PROVE  l.kind = r.kind /\ l.name = r.name
      OBVIOUS
    <3>1. PICK q \in CreationsOf(o) :
             q.rpc = "CreateWorkload" /\ q.kind = l.kind /\ q.name = l.name
      BY DEF Tables, Sane, Rooted
    <3> QED BY <1>2, <3>1 DEF SameThing
  <2>3. \A l \in db'.workloads : l.by = o => l.id = id
    BY <2>1, <2>2 DEF WorkloadRow
  <2> QED BY <1>4, <2>3 DEF Recorded
<1>5. CASE KindOf[o] \in {"Network", "SecurityGroup", "SSHKey"}
  BY <1>1, <1>5, NameCreated DEF Recorded
<1>6. CASE KindOf[o] = "SecurityGroupAttachment"
  BY <1>6 DEF Recorded
<1> QED BY <1>1, <1>3, <1>4, <1>5, <1>6, KindAssumption DEF Kinds

\* It stays there as long as the name stays and no second VM or workload is made.
LEMMA RecordedKept ==
    ASSUME NEW o, Recorded(o), cr'[o].ext = cr[o].ext, HasId(o) => Kept(o, db, db')
    PROVE  Recorded(o)'
BY DEF Recorded, Kept, HasId

\* The attachment's key stays the one it has been given.
LEMMA KeyStays ==
    ASSUME Records, NEW o \in team, KindOf[o] = "SecurityGroupAttachment", NEW reply
    PROVE  CreatedName(o, cr[o], reply) = cr[o].ext
<1>1. cr[o].ext # ""
  BY Zenon DEF Records
<1>2. CreatedName(o, cr[o], reply) = SGA!attachmentKey(cr[o])
  BY DEF CreatedName, SGA!CreatedName
<1> QED BY <1>1, <1>2, Zenon DEF SGA!attachmentKey

\* Success of a Delete RPC: there was nothing of that kind, or it is gone.
LEMMA RemovedDone ==
    ASSUME NEW hit, NEW next, NEW out \in Removed(db, hit, next)
    PROVE  out.db = next \/ (hit = {} /\ out.db = db)
BY DEF Removed, Outcome

\* The calls of Delete: by the external name, or by the spec for an attachment.
LEMMA DeletionCall ==
    ASSUME NEW o \in Objs, NEW k, NEW r \in Delete(o, k),
           KindOf[o] \in {"Network", "SecurityGroup", "SSHKey"} => k.ext # ""
    PROVE  /\ KindOf[o] = "VirtualMachine" =>
                 r = [rpc |-> "DeleteVm", by |-> o, id |-> k.ext]
           /\ KindOf[o] = "Workload" =>
                 r = [rpc |-> "DeleteWorkload", by |-> o,
                      kind |-> WorkloadKind(k.spec.kind), id |-> k.ext]
           /\ KindOf[o] = "Network" =>
                 r = [rpc |-> "DeleteNetwork", by |-> o, name |-> k.ext,
                      node |-> TrimSpace(k.spec.node)]
           /\ KindOf[o] = "SecurityGroup" =>
                 r = [rpc |-> "DeleteSecurityGroup", by |-> o, name |-> k.ext]
           /\ KindOf[o] = "SecurityGroupAttachment" =>
                 LET call == createRequest(o, k.spec)
                 IN  /\ r.rpc = "DetachSecurityGroup"
                     /\ r.group = call.group /\ r.kind = call.kind
                     /\ r.target = call.target /\ r.node = call.node
           /\ KindOf[o] = "SSHKey" =>
                 r = [rpc |-> "DeleteSshKey", by |-> o, name |-> k.ext]
<1> DEFINE empty == ""
<1>1. CASE KindOf[o] = "VirtualMachine"
  BY <1>1, Zenon DEF Delete, VM!Delete, VM!vmExternalID
<1>2. CASE KindOf[o] = "Workload"
  <2>1. r = [rpc |-> "DeleteWorkload", by |-> o,
             kind |-> WL!WorkloadKind(k.spec.kind), id |-> k.ext]
    BY <1>2, Zenon DEF Delete, WL!Delete, WL!wlID
  <2>2. WL!WorkloadKind(k.spec.kind) = WorkloadKind(k.spec.kind)
    BY DEF WL!WorkloadKind, WorkloadKind, WL!Word, Word, WL!ToLower, ToLower,
       WL!TrimSpace, TrimSpace
  <2> QED BY <1>2, <2>1, <2>2, Zenon
<1>3. CASE KindOf[o] = "Network"
  <2>1. k.ext # empty
    BY <1>3, Zenon
  <2>2. Net!netName(k) = k.ext
    BY <2>1, Zenon DEF Net!netName
  <2>3. r \in Net!Delete(o, k)
    BY <1>3 DEF Delete
  <2>4. r = [rpc |-> "DeleteNetwork", by |-> o, name |-> k.ext,
             node |-> TrimSpace(k.spec.node)]
    BY <2>1, <2>2, <2>3, Zenon DEF Net!Delete, Net!TrimSpace, TrimSpace
  <2> QED BY <1>3, <2>4, Zenon
<1>4. CASE KindOf[o] = "SecurityGroup"
  <2>1. k.ext # empty
    BY <1>4, Zenon
  <2>2. SG!sgName(k) = k.ext
    BY <2>1, Zenon DEF SG!sgName
  <2>3. r \in SG!Delete(o, k)
    BY <1>4 DEF Delete
  <2>4. r = [rpc |-> "DeleteSecurityGroup", by |-> o, name |-> k.ext]
    BY <2>1, <2>2, <2>3, Zenon DEF SG!Delete
  <2> QED BY <1>4, <2>4, Zenon
<1>5. CASE KindOf[o] = "SecurityGroupAttachment"
  BY <1>5 DEF Delete, SGA!Delete, createRequest, SGA!createRequest
<1>6. CASE KindOf[o] = "SSHKey"
  <2>1. k.ext # empty
    BY <1>6, Zenon
  <2>2. Key!externalName(k) = k.ext
    BY <2>1, Zenon DEF Key!externalName
  <2>3. r \in Key!Delete(o, k)
    BY <1>6 DEF Delete
  <2>4. r = [rpc |-> "DeleteSshKey", by |-> o, name |-> k.ext]
    BY <2>1, <2>2, <2>3, Zenon DEF Key!Delete
  <2> QED BY <1>6, <2>4, Zenon
<1> QED BY <1>1, <1>2, <1>3, <1>4, <1>5, <1>6, KindAssumption, Zenon DEF Kinds

\* The calls of Delete find all that is on record, so their success leaves nothing:
\* a network whose node has blanks around it excepted.
LEMMA DeletionComplete ==
    ASSUME TypeOK, Tables, Steady, Records, NEW o \in made, SentAsLookedUp(o),
           NEW r \in Deleting(o), NEW out \in Serve(db, r), DeleteDone(o, out.answer)
    PROVE  Owned(out.db, o) = {}
<1>1. /\ o \in Objs /\ o \in team /\ Recorded(o)
      /\ r \in Delete(o, cr[o]) /\ cr[o].spec \in SpecsOf[o]
  BY TeamAssumption DEF TypeOK, Records, Copies, Deleting
<1>2. Sane(db) /\ db \in Databases
  BY DEF Tables, Sane
<1>3. ASSUME NEW q \in CreationsOf(o)
      PROVE  \A p \in CreationsOf(o) : SameThing(p, q)
  BY <1>1 DEF Steady
<1>4. out.answer.code # "InvalidArgument"
  BY <1>1, KindAssumption DEF DeleteDone, Kinds, VM!DeleteDone, WL!DeleteDone,
     Net!DeleteDone, SG!DeleteDone, SGA!DeleteDone, Key!DeleteDone
<1>5. out # Outcome(db, Error("InvalidArgument"))
  BY <1>4 DEF Outcome, Error
<1> DEFINE empty == ""
<1>0. KindOf[o] \in {"Network", "SecurityGroup", "SSHKey"} => cr[o].ext # empty
  BY <1>1, CreationNamed DEF Recorded
<1>6. CASE KindOf[o] = "VirtualMachine"
  <2> DEFINE hit == {v \in db.vms : v.id = r.id}
             next == [db EXCEPT !.vms = @ \ hit]
  <2>1. r = [rpc |-> "DeleteVm", by |-> o, id |-> cr[o].ext]
    BY <1>1, <1>6, DeletionCall
  <2>2. out \in Removed(db, hit, next)
    BY <2>1 DEF Serve, DeleteVm
  <2>3. \A v \in db.vms : v.by = o => v \in hit
    BY <1>1, <1>6, <2>1 DEF Recorded
  <2>4. next.vms = db.vms \ hit /\ next.workloads = db.workloads
          /\ next.networks = db.networks /\ next.groups = db.groups
          /\ next.attachments = db.attachments /\ next.keys = db.keys
    BY <1>2 DEF Databases
  <2> HIDE DEF hit, next
  <2>5. out.db = next \/ (hit = {} /\ out.db = db)
    BY <2>2, RemovedDone
  <2> QED BY <1>2, <1>6, <2>3, <2>4, <2>5, OwnedByKind DEF Owned
<1>7. CASE KindOf[o] = "Workload"
  <2> DEFINE hit == {l \in db.workloads : l.kind = r.kind /\ l.id = r.id}
             next == [db EXCEPT !.workloads = @ \ hit]
  <2>1. r = [rpc |-> "DeleteWorkload", by |-> o,
             kind |-> WorkloadKind(cr[o].spec.kind), id |-> cr[o].ext]
    BY <1>1, <1>7, DeletionCall
  <2>2. out \in Removed(db, hit, next)
    <3>1. out \in DeleteWorkload(db, r)
      BY <2>1 DEF Serve
    <3> QED BY <1>5, <3>1, Zenon DEF DeleteWorkload
  <2>3. \A l \in db.workloads : l.by = o => l \in hit
    <3> SUFFICES ASSUME NEW l \in db.workloads, l.by = o PROVE l \in hit
      OBVIOUS
    <3>1. PICK q \in CreationsOf(o) : q.rpc = "CreateWorkload" /\ q.kind = l.kind
      BY <1>2 DEF Sane, Rooted
    <3>2. WorkloadKind(cr[o].spec.kind) = q.kind
      BY <1>1, <1>7 DEF Steady
    <3> QED BY <1>1, <1>7, <2>1, <3>1, <3>2 DEF Recorded
  <2>4. next.vms = db.vms /\ next.workloads = db.workloads \ hit
          /\ next.networks = db.networks /\ next.groups = db.groups
          /\ next.attachments = db.attachments /\ next.keys = db.keys
    BY <1>2 DEF Databases
  <2> HIDE DEF hit, next
  <2>5. out.db = next \/ (hit = {} /\ out.db = db)
    BY <2>2, RemovedDone
  <2> QED BY <1>2, <1>7, <2>3, <2>4, <2>5, OwnedByKind DEF Owned
<1>8. CASE KindOf[o] = "Network"
  <2> DEFINE hit == {n \in db.networks : n.name = r.name /\ r.node \in {"", n.node}}
             next == [db EXCEPT !.networks = @ \ hit]
  <2>1. PICK c \in CreationsOf(o) : cr[o].ext = c.name
    BY <1>1, <1>8 DEF Recorded
  <2>3. r = [rpc |-> "DeleteNetwork", by |-> o, name |-> cr[o].ext,
             node |-> TrimSpace(cr[o].spec.node)]
    BY <1>0, <1>1, <1>8, DeletionCall
  <2>4. out \in Removed(db, hit, next)
    <3>1. out \in DeleteNetwork(db, r)
      BY <2>3 DEF Serve
    <3> QED BY <1>5, <3>1, Zenon DEF DeleteNetwork
  <2>5. \A n \in db.networks : n.by = o => n \in hit
    <3> SUFFICES ASSUME NEW n \in db.networks, n.by = o PROVE n \in hit
      OBVIOUS
    <3>1. PICK q \in CreationsOf(o) :
             q.rpc = "CreateNetwork" /\ q.name = n.name /\ q.node = n.node
      BY <1>2 DEF Sane, Rooted
    <3>2. n.name = r.name
      BY <1>3, <2>1, <2>3, <3>1 DEF SameThing
    <3>3. TrimSpace(cr[o].spec.node) \in {empty, q.node}
      <4>1. cr[o].spec.node = q.node
        BY <1>1, <1>8 DEF Steady
      <4> QED BY <1>8, <4>1, Zenon DEF SentAsLookedUp
    <3>4. r.node \in {empty, n.node}
      <4> HIDE DEF empty
      <4> QED BY <2>3, <3>1, <3>3
    <3> QED BY <3>2, <3>4
  <2>6. next.vms = db.vms /\ next.workloads = db.workloads
          /\ next.networks = db.networks \ hit /\ next.groups = db.groups
          /\ next.attachments = db.attachments /\ next.keys = db.keys
    <3> HIDE DEF hit
    <3> QED BY <1>2 DEF Databases
  <2> HIDE DEF hit, next
  <2>7. out.db = next \/ (hit = {} /\ out.db = db)
    BY <2>4, RemovedDone
  <2> QED BY <1>2, <1>8, <2>5, <2>6, <2>7, OwnedByKind DEF Owned
<1>9. CASE KindOf[o] = "SecurityGroup"
  <2> DEFINE hit == {g \in db.groups : g.name = r.name}
             next == [db EXCEPT !.groups = @ \ hit,
                                !.attachments = {a \in @ : a.group # r.name}]
  <2>1. PICK c \in CreationsOf(o) : cr[o].ext = c.name
    BY <1>1, <1>9 DEF Recorded
  <2>3. r = [rpc |-> "DeleteSecurityGroup", by |-> o, name |-> cr[o].ext]
    BY <1>0, <1>1, <1>9, DeletionCall
  <2>4. out \in Removed(db, hit, next)
    BY <2>3 DEF Serve, DeleteSecurityGroup
  <2>5. \A g \in db.groups : g.by = o => g \in hit
    <3> SUFFICES ASSUME NEW g \in db.groups, g.by = o PROVE g \in hit
      OBVIOUS
    <3>1. PICK q \in CreationsOf(o) : q.rpc = "CreateSecurityGroup" /\ q.name = g.name
      BY <1>2 DEF Sane, Rooted
    <3> QED BY <1>3, <2>1, <2>3, <3>1 DEF SameThing
  <2>6. next.vms = db.vms /\ next.workloads = db.workloads
          /\ next.networks = db.networks /\ next.groups = db.groups \ hit
          /\ next.attachments \subseteq db.attachments /\ next.keys = db.keys
    BY <1>2 DEF Databases
  <2> HIDE DEF hit, next
  <2>7. out.db = next \/ (hit = {} /\ out.db = db)
    BY <2>4, RemovedDone
  <2> QED BY <1>2, <1>9, <2>5, <2>6, <2>7, OwnedByKind DEF Owned
<1>10. CASE KindOf[o] = "SecurityGroupAttachment"
  <2> DEFINE hit == Addressed(db, r)
             next == [db EXCEPT !.attachments = @ \ hit]
             call == createRequest(o, cr[o].spec)
  <2>1. call \in CreationsOf(o)
    BY <1>1, <1>10 DEF CreationsOf, CreateValid, SGA!CreateValid
  <2>2. /\ r.rpc = "DetachSecurityGroup"
        /\ r.group = call.group /\ r.kind = call.kind
        /\ r.target = call.target /\ r.node = call.node
    BY <1>1, <1>10, DeletionCall
  <2> HIDE DEF call
  <2>3. out \in Removed(db, hit, next)
    BY <2>2 DEF Serve, DetachSecurityGroup
  <2>4. \A a \in db.attachments : a.by = o => a \in hit
    <3> SUFFICES ASSUME NEW a \in db.attachments, a.by = o PROVE a \in hit
      OBVIOUS
    <3>1. PICK q \in CreationsOf(o) :
             /\ q.rpc = "AttachSecurityGroup" /\ q.group = a.group
             /\ q.kind = a.kind /\ q.target = a.target /\ q.node = a.node
      BY <1>2 DEF Sane, Rooted
    <3> QED BY <1>3, <2>1, <2>2, <3>1 DEF SameThing, Addressed
  <2>5. next.vms = db.vms /\ next.workloads = db.workloads
          /\ next.networks = db.networks /\ next.groups = db.groups
          /\ next.attachments = db.attachments \ hit /\ next.keys = db.keys
    BY <1>2 DEF Databases
  <2> HIDE DEF hit, next
  <2>6. out.db = next \/ (hit = {} /\ out.db = db)
    BY <2>3, RemovedDone
  <2> QED BY <1>2, <1>10, <2>4, <2>5, <2>6, OwnedByKind DEF Owned
<1>11. CASE KindOf[o] = "SSHKey"
  <2> DEFINE hit == {k \in db.keys : k.name = r.name}
             next == [db EXCEPT !.keys = @ \ hit]
  <2>1. PICK c \in CreationsOf(o) : cr[o].ext = c.name
    BY <1>1, <1>11 DEF Recorded
  <2>3. r = [rpc |-> "DeleteSshKey", by |-> o, name |-> cr[o].ext]
    BY <1>0, <1>1, <1>11, DeletionCall
  <2>4. out \in Removed(db, hit, next)
    BY <2>3 DEF Serve, DeleteSshKey
  <2>5. \A k \in db.keys : k.by = o => k \in hit
    <3> SUFFICES ASSUME NEW k \in db.keys, k.by = o PROVE k \in hit
      OBVIOUS
    <3>1. PICK q \in CreationsOf(o) : q.rpc = "CreateSshKey" /\ q.name = k.name
      BY <1>2 DEF Sane, Rooted
    <3> QED BY <1>3, <2>1, <2>3, <3>1 DEF SameThing
  <2>6. next.vms = db.vms /\ next.workloads = db.workloads
          /\ next.networks = db.networks /\ next.groups = db.groups
          /\ next.attachments = db.attachments /\ next.keys = db.keys \ hit
    BY <1>2 DEF Databases
  <2> HIDE DEF hit, next
  <2>7. out.db = next \/ (hit = {} /\ out.db = db)
    BY <2>4, RemovedDone
  <2> QED BY <1>2, <1>11, <2>5, <2>6, <2>7, OwnedByKind DEF Owned
<1> QED BY <1>1, <1>6, <1>7, <1>8, <1>9, <1>10, <1>11, KindAssumption DEF Kinds

\* Records stay right when names and marks stay and no VM or workload is made
\* unnoticed.
LEMMA RecordsStay ==
    ASSUME TypeOK, Records, TypeOK', team' = team, made' \subseteq made, gone' \subseteq gone,
           \A o \in team : /\ cr'[o].ext = cr[o].ext
                           /\ cr[o].deleting => cr'[o].deleting,
           \A o \in made' : HasId(o) => Kept(o, db, db')
    PROVE  Records'
<1>1. \A o \in made' : Recorded(o)'
  <2> SUFFICES ASSUME NEW o \in made' PROVE Recorded(o)'
    OBVIOUS
  <2>1. o \in team /\ Recorded(o) /\ (HasId(o) => Kept(o, db, db'))
    BY DEF Records, TypeOK
  <2> QED BY <2>1, RecordedKept
<1>2. \A o \in team' : KindOf[o] = "SecurityGroupAttachment" => cr'[o].ext \notin {"", "//"}
  BY Zenon DEF Records
<1>3. \A o \in gone' : cr'[o].deleting
  BY DEF TypeOK, Records
<1> QED BY <1>1, <1>2, <1>3 DEF Records

\* A VM or a workload that is made unnoticed is of a resource whose creation is no
\* longer on record.
LEMMA UnnoticedKept ==
    ASSUME TypeOK, Tables, Steady, NEW r \in Requests, Asked(r), Unnoticed(r)
    PROVE  made' \subseteq made /\ \A o \in made' : HasId(o) => Kept(o, db, db')
<1>1. PICK out \in Serve(db, r) : db' = out.db
  BY DEF Unnoticed
<1>2. ASSUME NEW o \in made', HasId(o)
      PROVE  Kept(o, db, db')
  <2>1. ~ (r \in CreateRequests /\ r.by = o /\ Owned(db, o) = {})
    BY <1>2 DEF Unnoticed, HasId
  <2>2. o \in Objs
    BY TeamAssumption DEF Unnoticed, TypeOK
  <2> QED BY <1>1, <2>1, <2>2, EffectKept DEF Tables
<1> QED BY <1>2 DEF Unnoticed

\* An acknowledged creation leaves on record what it has made, for good.
LEMMA CreationKeepsRecords ==
    ASSUME TypeOK, TypeOK', Tables, Steady, Records, NEW o \in team, CreateAnswered(o)
    PROVE  Records'
<1>1. PICK r \in Creating(o) : \E out \in Serve(db, r) :
          /\ db' = out.db
          /\ IF out.answer.code = "OK"
             THEN /\ cr' = [cr EXCEPT ![o].ext = CreatedName(o, cr[o], out.answer)]
                  /\ made' = made \cup {o}
             ELSE UNCHANGED <<cr, made>>
  BY DEF CreateAnswered
<1>2. PICK out \in Serve(db, r) :
          /\ db' = out.db
          /\ IF out.answer.code = "OK"
             THEN /\ cr' = [cr EXCEPT ![o].ext = CreatedName(o, cr[o], out.answer)]
                  /\ made' = made \cup {o}
             ELSE UNCHANGED <<cr, made>>
  BY <1>1
<1>3. team' = team /\ gone' = gone
  BY DEF CreateAnswered
<1>4. /\ r \in Requests /\ Asked(r) /\ r \in CreateRequests /\ r.by = o
      /\ o \in Objs /\ cr[o].spec \in SpecsOf[o] /\ ~ cr[o].deleting
  <2>1. o \in Objs /\ cr[o].spec \in SpecsOf[o]
    BY TeamAssumption DEF TypeOK, Copies
  <2>2. r = createRequest(o, cr[o].spec) /\ ~ cr[o].deleting
    BY DEF Creating
  <2> QED BY <2>1, <2>2, CallsAsked, CreateRequestTyped, CreationFields
<1>5. CASE out.answer.code # "OK"
  <2>1. db' = db
    BY <1>2, <1>4, <1>5, FailedCreation DEF TypeOK
  <2>2. \A p \in made' : Kept(p, db, db')
    BY <2>1 DEF Kept
  <2> QED BY <1>2, <1>3, <1>5, <2>2, RecordsStay
<1>6. CASE out.answer.code = "OK"
  <2> DEFINE name == CreatedName(o, cr[o], out.answer)
  <2>1. cr' = [cr EXCEPT ![o].ext = name] /\ made' = made \cup {o}
    BY <1>2, <1>6
  <2>2. cr[o] \in Copies(o) /\ DOMAIN cr = team
    BY DEF TypeOK
  <2> HIDE DEF name
  <2>3. /\ cr'[o].ext = name
        /\ \A p \in team \ {o} : cr'[p] = cr[p]
        /\ \A p \in team : cr'[p].deleting = cr[p].deleting
    BY <2>1, <2>2 DEF Copies
  <2>4. Recorded(o)'
    BY <1>2, <1>6, <2>3, CreationRecorded DEF name
  <2>5. \A p \in team \ {o} : Kept(p, db, db')
    <3> SUFFICES ASSUME NEW p \in team \ {o} PROVE Kept(p, db, db')
      OBVIOUS
    <3>1. NewByRequest(db, r, db')
      BY <1>2, <1>4, CreateCoherent DEF Tables, Sane
    <3> QED BY <1>4, <3>1, OthersCreationKept
  <2>6. \A p \in made' : Recorded(p)'
    <3> SUFFICES ASSUME NEW p \in made, p # o PROVE Recorded(p)'
      BY <2>1, <2>4
    <3>1. p \in team \ {o} /\ Recorded(p) /\ cr'[p].ext = cr[p].ext
      BY <2>3 DEF Records, TypeOK
    <3> QED BY <2>5, <3>1, RecordedKept
  <2>7. \A p \in team' :
           KindOf[p] = "SecurityGroupAttachment" => cr'[p].ext \notin {"", "//"}
    <3>1. KindOf[o] = "SecurityGroupAttachment" => name = cr[o].ext
      BY KeyStays DEF name
    <3>2. \A p \in team : KindOf[p] = "SecurityGroupAttachment" => cr'[p].ext = cr[p].ext
      BY <2>3, <3>1
    <3> QED BY <1>3, <3>2, Zenon DEF Records
  <2>8. \A p \in gone' : cr'[p].deleting
    BY <1>3, <2>3 DEF Records, TypeOK
  <2> QED BY <2>6, <2>7, <2>8 DEF Records
<1> QED BY <1>5, <1>6

\* A deletion is acknowledged to what is marked as deleted, and renames nothing.
LEMMA DeletionKeepsRecords ==
    ASSUME TypeOK, TypeOK', Tables, Steady, Records, NEW o \in team, DeleteAnswered(o)
    PROVE  Records'
<1>1. PICK r \in Deleting(o) : \E out \in Serve(db, r) :
          /\ db' = out.db
          /\ gone' = IF DeleteDone(o, out.answer) /\ o \in made
                     THEN gone \cup {o} ELSE gone
  BY DEF DeleteAnswered
<1>2. PICK out \in Serve(db, r) :
          /\ db' = out.db
          /\ gone' = IF DeleteDone(o, out.answer) /\ o \in made
                     THEN gone \cup {o} ELSE gone
  BY <1>1
<1>3. UNCHANGED <<team, cr, made>>
  BY DEF DeleteAnswered
<1>4. /\ r \in Requests /\ Asked(r) /\ r \notin CreateRequests /\ cr[o].deleting
  <2>1. o \in Objs /\ cr[o].ext \in STRING /\ cr[o].spec \in SpecsOf[o]
    BY TeamAssumption DEF TypeOK, Copies
  <2>2. r \in Delete(o, cr[o]) /\ cr[o].deleting
    BY DEF Deleting
  <2> QED BY <2>1, <2>2, CallsAsked, DeleteTyped, ChangeAsked
<1>5. \A p \in team : Kept(p, db, db')
  BY <1>2, <1>4, EffectKept, TeamAssumption DEF Tables, TypeOK
<1>6. \A p \in gone' : cr'[p].deleting
  BY <1>2, <1>3, <1>4 DEF Records
<1>7. \A p \in made' : Recorded(p)'
  <2> SUFFICES ASSUME NEW p \in made PROVE Recorded(p)'
    BY <1>3
  <2>1. p \in team /\ Recorded(p) /\ cr'[p].ext = cr[p].ext
    BY <1>3 DEF Records, TypeOK
  <2> QED BY <1>5, <2>1, RecordedKept
<1>8. \A p \in team' :
         KindOf[p] = "SecurityGroupAttachment" => cr'[p].ext \notin {"", "//"}
  BY <1>3, Zenon DEF Records
<1> QED BY <1>6, <1>7, <1>8 DEF Records

\* Every step keeps the records right.
LEMMA RecordsKept ==
    ASSUME TypeOK, TypeOK', Tables, Steady, Records, [Next]_vars
    PROVE  Records'
<1>1. ASSUME UNCHANGED <<team, db, made, gone>>,
             \A o \in team : /\ cr'[o].ext = cr[o].ext
                             /\ cr[o].deleting => cr'[o].deleting
      PROVE  Records'
  <2>1. \A o \in made' : Kept(o, db, db')
    BY <1>1 DEF Kept
  <2> QED BY <1>1, <2>1, RecordsStay
<1>2. CASE UNCHANGED vars
  BY <1>1, <1>2 DEF vars
<1>3. ASSUME NEW o \in team, \/ ObserveFound(o) \/ WriteStatus(o)
                              \/ LoseStatus(o) \/ CreateRejected(o)
      PROVE  Records'
  BY <1>1, <1>3 DEF ObserveFound, WriteStatus, LoseStatus, CreateRejected
<1>4. ASSUME NEW o \in team, Edit(o) \/ MarkDeleted(o)
      PROVE  Records'
  <2>1. \A p \in team : /\ cr'[p].ext = cr[p].ext
                        /\ cr[p].deleting => cr'[p].deleting
    BY <1>4 DEF Edit, MarkDeleted, UserStore, TypeOK, Copies
  <2> QED BY <1>1, <1>4, <2>1 DEF Edit, MarkDeleted, UserStore
<1>5. ASSUME NEW o \in team, UpdateAnswered(o)
      PROVE  Records'
  <2>1. PICK r \in Updating(o) : \E out \in Serve(db, r) : db' = out.db
    BY <1>5 DEF UpdateAnswered
  <2>2. /\ r \in Requests /\ Asked(r) /\ r \notin CreateRequests
    <3>1. o \in Objs /\ cr[o].ext \in STRING /\ cr[o].spec \in SpecsOf[o]
      BY TeamAssumption DEF TypeOK, Copies
    <3>2. r \in Update(o, cr[o])
      BY DEF Updating
    <3> QED BY <3>1, <3>2, CallsAsked, UpdateTyped, ChangeAsked
  <2>3. UNCHANGED <<team, cr, made, gone>>
    BY <1>5 DEF UpdateAnswered
  <2>4. \A p \in made' : Kept(p, db, db')
    BY <2>1, <2>2, <2>3, EffectKept, TeamAssumption DEF Tables, TypeOK
  <2> QED BY <2>3, <2>4, RecordsStay
<1>6. ASSUME NEW o \in team, Unanswered(o)
      PROVE  Records'
  <2>1. PICK r \in Creating(o) \cup Updating(o) \cup Deleting(o) :
           Unnoticed(r) \/ UNCHANGED <<db, made>>
    BY <1>6 DEF Unanswered
  <2>2. UNCHANGED <<team, cr, gone>>
    BY <1>6 DEF Unanswered
  <2>3. CASE Unnoticed(r)
    <3>1. r \in Requests /\ Asked(r)
      BY CallsAsked
    <3> QED BY <2>2, <2>3, <3>1, UnnoticedKept, RecordsStay
  <2>4. CASE UNCHANGED <<db, made>>
    BY <1>1, <2>2, <2>4
  <2> QED BY <2>1, <2>3, <2>4
<1>7. CASE LateEffect
  <2>1. PICK r \in stray : Unnoticed(r) /\ UNCHANGED <<team, cr, gone>>
    BY <1>7 DEF LateEffect
  <2>2. r \in Requests /\ Asked(r)
    BY DEF TypeOK, Tables
  <2> QED BY <2>1, <2>2, UnnoticedKept, RecordsStay
<1>8. CASE Drift
  <2>1. UNCHANGED <<team, cr, made, gone>> /\ db' \in Interference(db) \cup Failures(db)
    BY <1>8 DEF Drift
  <2>2. \A o \in made' : Kept(o, db, db')
    BY <2>1, WorldCoherent, NothingNewKept DEF Tables, Sane
  <2> QED BY <2>1, <2>2, RecordsStay
<1> QED BY <1>2, <1>3, <1>4, <1>5, <1>6, <1>7, <1>8, CreationKeepsRecords,
       DeletionKeepsRecords DEF Next

\* As long as edits leave alone what identifies a thing (the hypothesis Steady), the
\* external name of whatever is created is the id or the name under which the kcore
\* controller has it: in every behaviour, with lost answers, late calls and
\* interference.
THEOREM RecordsAreRight ==
    ASSUME Steady
    PROVE  Spec => []Records
<1>1. Init => Records
  <2> SUFFICES ASSUME Init PROVE Records
    OBVIOUS
  <2>1. \A o \in team : o \in Objs /\ cr[o].ext = MetaName[o]
    BY TeamAssumption DEF Init, Initialized
  <2>2. \A o \in team : cr[o].ext \notin {"", "//"}
    BY <2>1, MetaNameAssumption, Zenon
  <2> QED BY <2>2, Zenon DEF Init, Records
<1>2. TypeOK /\ TypeOK' /\ Tables /\ Records /\ [Next]_vars => Records'
  BY RecordsKept
<1> QED BY <1>1, <1>2, ContractTypeCorrect, ContractTables, PTL DEF Spec

\* A deletion is acknowledged by an answered Delete, which leaves nothing.
LEMMA NewlyGone ==
    ASSUME TypeOK, Tables, Steady, Records, Next, NEW o \in gone' \ gone,
           SentAsLookedUp(o)
    PROVE  Owned(db', o) = {}
<1>1. PICK p \in team : DeleteAnswered(p)
  BY DEF Next, ObserveFound, WriteStatus, LoseStatus, CreateRejected, CreateAnswered,
     UpdateAnswered, Unanswered, Edit, MarkDeleted, UserStore, LateEffect, Drift
<1>2. PICK r \in Deleting(p) : \E out \in Serve(db, r) :
          /\ db' = out.db
          /\ gone' = IF DeleteDone(p, out.answer) /\ p \in made
                     THEN gone \cup {p} ELSE gone
  BY <1>1 DEF DeleteAnswered
<1>3. PICK out \in Serve(db, r) :
          /\ db' = out.db
          /\ gone' = IF DeleteDone(p, out.answer) /\ p \in made
                     THEN gone \cup {p} ELSE gone
  BY <1>2
<1>4. o = p /\ DeleteDone(o, out.answer) /\ o \in made
  BY <1>3
<1> QED BY <1>2, <1>3, <1>4, DeletionComplete

\* What is gone comes back only by a creation that was still on its way.
LEMMA ComesBack ==
    ASSUME TypeOK, Tables, Steady, Records, Next, NEW o \in gone,
           Owned(db, o) = {}, Owned(db', o) # {}
    PROVE  \E r \in stray \ stray' : r \in CreateRequests /\ r.by = o
<1>1. cr[o].deleting /\ o \in team /\ o \in Objs
  BY TeamAssumption DEF Records, TypeOK
<1>2. ~ Kept(o, db, db')
  BY DEF Kept
<1>3. db' # db
  BY <1>2 DEF Kept
<1>4. ASSUME NEW r \in Requests, Asked(r), NEW out \in Serve(db, r), db' = out.db
      PROVE  r \in CreateRequests /\ r.by = o
  BY <1>1, <1>2, <1>4, EffectKept DEF Tables
<1>5. ASSUME NEW p \in team, NEW r \in Creating(p) \cup Updating(p) \cup Deleting(p),
             NEW out \in Serve(db, r), db' = out.db
      PROVE  FALSE
  <2>1. r \in CreateRequests /\ r.by = o
    BY <1>4, <1>5, CallsAsked
  <2>2. p \in Objs /\ cr[p].ext \in STRING /\ cr[p].spec \in SpecsOf[p]
    BY TeamAssumption DEF TypeOK, Copies
  <2>3. r \in Creating(p)
    BY <2>1, <2>2, UpdateTyped, DeleteTyped, ChangeAsked DEF Updating, Deleting
  <2>4. p = o
    BY <2>1, <2>2, <2>3, CreationFields DEF Creating
  <2> QED BY <1>1, <2>3, <2>4 DEF Creating
<1>6. ASSUME NEW p \in team,
             CreateAnswered(p) \/ UpdateAnswered(p) \/ DeleteAnswered(p) \/ Unanswered(p)
      PROVE  FALSE
  <2>1. CASE CreateAnswered(p)
    BY <1>5, <2>1 DEF CreateAnswered
  <2>2. CASE UpdateAnswered(p)
    BY <1>5, <2>2 DEF UpdateAnswered
  <2>3. CASE DeleteAnswered(p)
    BY <1>5, <2>3 DEF DeleteAnswered
  <2>4. CASE Unanswered(p)
    BY <1>3, <1>5, <2>4 DEF Unanswered, Unnoticed
  <2> QED BY <1>6, <2>1, <2>2, <2>3, <2>4
<1>7. CASE LateEffect
  <2>1. PICK r \in stray : Unnoticed(r) /\ stray' = stray \ {r}
    BY <1>7 DEF LateEffect
  <2>2. r \in Requests /\ Asked(r)
    BY DEF TypeOK, Tables
  <2>3. r \in CreateRequests /\ r.by = o
    BY <1>4, <2>1, <2>2 DEF Unnoticed
  <2> QED BY <2>1, <2>3
<1>8. CASE Drift
  BY <1>2, <1>8, WorldCoherent, NothingNewKept DEF Drift, Tables, Sane
<1> QED BY <1>3, <1>6, <1>7, <1>8 DEF Next, ObserveFound, WriteStatus, LoseStatus,
       CreateRejected, Edit, MarkDeleted, UserStore

\* Deletion is complete, as long as edits leave alone what identifies a thing
\* (Steady): when it is acknowledged, nothing is left, and afterwards only a creation
\* that was still on its way brings something back.  As in the property, a network
\* whose node has blanks around it is excepted.
THEOREM DeletionsAreComplete ==
    ASSUME Steady
    PROVE  Spec => DeletedIsGone
<1>1. TypeOK /\ Tables /\ Records /\ [Next]_vars =>
        [\A o \in gone' : SentAsLookedUp(o) /\ Owned(db', o) # {} =>
            /\ o \in gone
            /\ \/ Owned(db, o) # {}
               \/ \E r \in stray \ stray' : r \in CreateRequests /\ r.by = o]_vars
  BY NewlyGone, ComesBack
<1> QED BY <1>1, RecordsAreRight, ContractTypeCorrect, ContractTables, PTL
       DEF Spec, DeletedIsGone

\* An answer that has found something.
LEMMA SomethingFound ==
    ASSUME NEW rows, NEW row \in rows
    PROVE  Found(rows).code = "OK" /\ Found(rows).content = rows
BY DEF Found, Ok

\* Observe sees what is on record: a network whose node has blanks around it excepted.
LEMMA RecordedSeen ==
    ASSUME TypeOK, Tables, Steady, Records, NEW o \in made, ~ cr[o].deleting,
           SentAsLookedUp(o), NEW row \in Owned(db, o)
    PROVE  Seen(o) \subseteq {"current", "drifted"}
<1> DEFINE empty == ""
           reply == Lookup(o, db, cr[o])
<1>1. /\ o \in Objs /\ o \in team /\ Recorded(o) /\ cr[o].spec \in SpecsOf[o]
  BY TeamAssumption DEF TypeOK, Records, Copies
<1>2. Sane(db) /\ db \in Databases
  BY DEF Tables, Sane
<1>3. row.by = o
  BY DEF Owned
<1>4. ASSUME NEW q \in CreationsOf(o)
      PROVE  \A p \in CreationsOf(o) : SameThing(p, q)
  BY <1>1 DEF Steady
<1>5. CASE KindOf[o] = "VirtualMachine"
  <2> DEFINE rows == {v \in db.vms : v.id = cr[o].ext}
  <2>1. row \in db.vms
    BY <1>2, <1>5, OwnedByKind DEF Owned
  <2>2. row \in rows
    BY <1>1, <1>3, <1>5, <2>1 DEF Recorded
  <2>3. reply = Found(rows)
    BY <1>5 DEF Lookup, lookupRequest, VM!lookupRequest, VM!vmExternalID, Read, GetVm
  <2>4. cr[o].ext \in Ids
    BY <1>2, <2>1, <2>2 DEF Databases, Vms
  <2>5. cr[o].ext # empty
    BY <2>4, IdNotEmpty
  <2> HIDE DEF rows, reply
  <2>6. reply.code = "OK"
    BY <2>2, <2>3, SomethingFound
  <2>7. VM!vmExternalID(cr[o]) # empty
    BY <2>5, Zenon DEF VM!vmExternalID
  <2>8. reply.code # "NotFound"
    BY <2>6
  <2>9. VM!Observe(cr[o], reply) \in {"current", "drifted"}
    BY <2>6, <2>7, <2>8, Zenon DEF VM!Observe
  <2> QED BY <1>5, <2>9 DEF Seen, Observe, reply
<1>6. CASE KindOf[o] = "Workload"
  <2> DEFINE kind == WL!WorkloadKind(cr[o].spec.kind)
             rows == {l \in db.workloads : l.kind = kind /\ l.id = cr[o].ext}
  <2>1. row \in db.workloads
    BY <1>2, <1>6, OwnedByKind DEF Owned
  <2>2. row.kind = kind /\ kind # "UNSPECIFIED"
    <3>1. PICK q \in CreationsOf(o) : q.rpc = "CreateWorkload" /\ q.kind = row.kind
      BY <1>2, <1>3, <2>1 DEF Sane, Rooted
    <3>2. WorkloadKind(cr[o].spec.kind) = q.kind
      BY <1>1, <1>6 DEF Steady
    <3>3. kind = WorkloadKind(cr[o].spec.kind)
      BY DEF WL!WorkloadKind, WorkloadKind, WL!Word, Word, WL!ToLower, ToLower,
         WL!TrimSpace, TrimSpace
    <3>4. PICK p \in SpecsOf[o] : q = createRequest(o, p) /\ CreateValid(o, p)
      BY DEF CreationsOf
    <3>5. q.kind = WL!WorkloadKind(p.kind) /\ WL!WorkloadKind(p.kind) # "UNSPECIFIED"
      BY <1>6, <3>4 DEF createRequest, WL!createRequest, CreateValid, WL!CreateValid
    <3> QED BY <3>1, <3>2, <3>3, <3>5
  <2>3. row \in rows
    BY <1>1, <1>3, <1>6, <2>1, <2>2 DEF Recorded
  <2>4. reply = Found(rows)
    BY <1>6 DEF Lookup, lookupRequest, WL!lookupRequest, WL!wlID, Read, GetWorkload
  <2>5. cr[o].ext \in Ids
    BY <1>2, <2>1, <2>3 DEF Databases, Workloads, WorkloadsOf
  <2>6. cr[o].ext # empty
    BY <2>5, IdNotEmpty
  <2> HIDE DEF rows, reply
  <2>7. reply.code = "OK"
    BY <2>3, <2>4, SomethingFound
  <2>8. reply.code # "NotFound"
    BY <2>7
  <2>9. WL!Observe(cr[o], reply) = "current"
    BY <2>2, <2>6, <2>7, <2>8, Zenon DEF WL!Observe, WL!wlID
  <2> QED BY <1>6, <2>9 DEF Seen, Observe, reply
<1>7. CASE KindOf[o] = "Network"
  <2> DEFINE node == TrimSpace(cr[o].spec.node)
             rows == {n \in db.networks : node \in {"", n.node}}
  <2>1. row \in db.networks
    BY <1>2, <1>7, OwnedByKind DEF Owned
  <2>2. PICK c \in CreationsOf(o) : cr[o].ext = c.name
    BY <1>1, <1>7 DEF Recorded
  <2>3. cr[o].ext # empty
    BY <1>1, <1>7, <2>2, CreationNamed
  <2>4. PICK q \in CreationsOf(o) :
           q.rpc = "CreateNetwork" /\ q.name = row.name /\ q.node = row.node
    BY <1>2, <1>3, <2>1 DEF Sane, Rooted
  <2>5. row.name = cr[o].ext
    BY <1>4, <2>2, <2>4 DEF SameThing
  <2>6. node \in {empty, row.node}
    <3>1. cr[o].spec.node = q.node
      BY <1>1, <1>7 DEF Steady
    <3> QED BY <1>7, <2>4, <3>1, Zenon DEF SentAsLookedUp
  <2>7. row \in rows
    BY <2>1, <2>6, Zenon
  <2>8. reply = Ok(rows)
    BY <1>7 DEF Lookup, lookupRequest, Net!lookupRequest, Read, ListNetworks,
       Net!TrimSpace, TrimSpace
  <2>9. Net!netName(cr[o]) = cr[o].ext
    BY <2>3, Zenon DEF Net!netName
  <2> HIDE DEF rows, reply, node
  <2>10. reply.code = "OK" /\ reply.content = rows
    BY <2>8 DEF Ok
  <2> DEFINE named == {n \in reply.content : n.name = Net!netName(cr[o])}
  <2>11. row \in named
    BY <2>5, <2>7, <2>9, <2>10
  <2>12. Net!Observe(cr[o], reply) \subseteq {"current", "drifted"}
    <3>1. named # {}
      BY <2>11
    <3>2. Net!netName(cr[o]) # empty
      BY <2>3, <2>9
    <3>3. Net!Observe(cr[o], reply) =
             {IF Net!networkUpToDate(n, cr[o].spec) THEN "current" ELSE "drifted" :
                 n \in named}
      BY <2>10, <3>1, <3>2, Zenon DEF Net!Observe
    <3> HIDE DEF named
    <3> QED BY <3>3
  <2> QED BY <1>7, <2>12 DEF Seen, Observe, reply
<1>8. CASE KindOf[o] = "SecurityGroup"
  <2> DEFINE entry(g) == [name |-> g.name,
                          attachments |-> {a \in db.attachments : a.group = cr[o].ext}]
             rows == {entry(g) : g \in {h \in db.groups : h.name = cr[o].ext}}
  <2>1. row \in db.groups
    BY <1>2, <1>8, OwnedByKind DEF Owned
  <2>2. PICK c \in CreationsOf(o) : cr[o].ext = c.name
    BY <1>1, <1>8 DEF Recorded
  <2>3. cr[o].ext # empty
    BY <1>1, <1>8, <2>2, CreationNamed
  <2>4. PICK q \in CreationsOf(o) : q.rpc = "CreateSecurityGroup" /\ q.name = row.name
    BY <1>2, <1>3, <2>1 DEF Sane, Rooted
  <2>5. row.name = cr[o].ext
    BY <1>4, <2>2, <2>4 DEF SameThing
  <2>6. SG!sgName(cr[o]) = cr[o].ext
    BY <2>3, Zenon DEF SG!sgName
  <2>7. reply = Found(rows)
    BY <1>8, <2>6 DEF Lookup, lookupRequest, SG!lookupRequest, Read, GetSecurityGroup
  <2>8. entry(row) \in rows
    BY <2>1, <2>5
  <2> HIDE DEF rows, reply, entry
  <2>9. reply.code = "OK" /\ reply.content # {}
    BY <2>7, <2>8, SomethingFound
  <2>10. SG!sgName(cr[o]) # empty /\ reply.code # "NotFound"
    BY <2>3, <2>6, <2>9
  <2>11. SG!Observe(cr[o], reply) = "current"
    BY <2>9, <2>10, Zenon DEF SG!Observe
  <2> QED BY <1>8, <2>11 DEF Seen, Observe, reply
<1>9. CASE KindOf[o] = "SecurityGroupAttachment"
  <2> DEFINE p == cr[o].spec
             call == createRequest(o, p)
             entry(g) == [name |-> g.name,
                          attachments |-> {a \in db.attachments : a.group = call.group}]
             rows == {entry(g) : g \in {h \in db.groups : h.name = call.group}}
  <2>1. row \in db.attachments
    BY <1>2, <1>9, OwnedByKind DEF Owned
  <2>2. call \in CreationsOf(o)
    BY <1>1, <1>9 DEF CreationsOf, CreateValid, SGA!CreateValid
  <2>3. /\ call.group = SGA!TrimSpace(p.group) /\ call.target = SGA!TrimSpace(p.target)
        /\ call.kind = SGA!SecurityGroupTargetKind(p.kind)
    BY <1>9 DEF createRequest, SGA!createRequest
  <2>4. reply = Found(rows)
    BY <1>9, <2>3 DEF Lookup, lookupRequest, SGA!lookupRequest, Read, GetSecurityGroup
  <2> HIDE DEF call
  <2>5. row.group = call.group /\ row.kind = call.kind /\ row.target = call.target
    <3>1. PICK q \in CreationsOf(o) :
             /\ q.rpc = "AttachSecurityGroup" /\ q.group = row.group
             /\ q.kind = row.kind /\ q.target = row.target
      BY <1>2, <1>3, <2>1 DEF Sane, Rooted
    <3> QED BY <1>4, <2>2, <3>1 DEF SameThing
  <2>6. PICK g \in db.groups : g.name = call.group
    BY <1>2, <2>1, <2>5 DEF Sane, Coherent
  <2>7. call.group # empty
    <3>1. g.by \in Objs /\ KindOf[g.by] = "SecurityGroup"
      BY <1>2, <2>6, RowKinds
    <3>2. PICK q \in CreationsOf(g.by) : q.name = g.name
      BY <1>2, <2>6 DEF Sane, Rooted
    <3>3. q.name # empty
      BY <3>1, <3>2, CreationNamed
    <3> QED BY <2>6, <3>2, <3>3
  <2>8. entry(g) \in rows
    BY <2>6
  <2>9. row \in entry(g).attachments
    BY <2>1, <2>5
  <2> HIDE DEF rows, reply, entry
  <2>10. reply.code = "OK" /\ reply.content = rows
    BY <2>4, <2>8, SomethingFound
  <2>11. reply.code # "NotFound"
    BY <2>10
  <2>12. SGA!findAttachment(reply, p) # {}
    <3>1. row \in SGA!findAttachment(reply, p)
      BY <2>3, <2>5, <2>8, <2>9, <2>10 DEF SGA!findAttachment
    <3> QED BY <3>1
  <2>13. SGA!attachmentKey(cr[o]) # "//"
    BY <1>1, <1>9, Zenon DEF Records, SGA!attachmentKey
  <2>14. SGA!TrimSpace(p.group) # empty
    BY <2>3, <2>7
  <2>15. SGA!Observe(cr[o], reply) = "current"
    BY <2>10, <2>11, <2>12, <2>13, <2>14, Zenon DEF SGA!Observe
  <2> QED BY <1>9, <2>15 DEF Seen, Observe, reply
<1>10. CASE KindOf[o] = "SSHKey"
  <2> DEFINE rows == {k \in db.keys : k.name = cr[o].ext}
  <2>1. row \in db.keys
    BY <1>2, <1>10, OwnedByKind DEF Owned
  <2>2. PICK c \in CreationsOf(o) : cr[o].ext = c.name
    BY <1>1, <1>10 DEF Recorded
  <2>3. cr[o].ext # empty
    BY <1>1, <1>10, <2>2, CreationNamed
  <2>4. PICK q \in CreationsOf(o) : q.rpc = "CreateSshKey" /\ q.name = row.name
    BY <1>2, <1>3, <2>1 DEF Sane, Rooted
  <2>5. row \in rows
    BY <1>4, <2>1, <2>2, <2>4 DEF SameThing
  <2>6. Key!externalName(cr[o]) = cr[o].ext
    BY <2>3, Zenon DEF Key!externalName
  <2>7. reply = Found(rows)
    BY <1>10, <2>6 DEF Lookup, lookupRequest, Key!lookupRequest, Read, GetSshKey
  <2> HIDE DEF rows, reply
  <2>8. reply.code = "OK" /\ reply.content # {}
    BY <2>5, <2>7, SomethingFound
  <2>9. Key!externalName(cr[o]) # empty /\ reply.code # "NotFound"
    BY <2>3, <2>6, <2>8
  <2>10. Key!Observe(cr[o], reply) = "current"
    BY <2>8, <2>9, Zenon DEF Key!Observe
  <2> QED BY <1>10, <2>10 DEF Seen, Observe, reply
<1> QED BY <1>1, <1>5, <1>6, <1>7, <1>8, <1>9, <1>10, KindAssumption DEF Kinds

\* What a resource has created it finds again, whatever answers are lost and
\* whatever calls come late, as long as edits leave alone what identifies a thing
\* (Steady).  As in the property, a network whose node has blanks around it is
\* excepted.
THEOREM CreationsAreFound ==
    ASSUME Steady
    PROVE  Spec => []CreatedIsFound
<1>1. TypeOK /\ Tables /\ Records => CreatedIsFound
  BY RecordedSeen DEF CreatedIsFound, Exists
<1> QED BY <1>1, RecordsAreRight, ContractTypeCorrect, ContractTables, PTL

-----------------------------------------------------------------------------
(* What is nobody else's                                                    *)

Named(o) == KindOf[o] \in {"Network", "SecurityGroup", "SSHKey"}

\* Two requests create what is found under the same name: the node of an attachment
\* is not looked at.
Alike(q, r) ==
    /\ q.rpc # "AttachSecurityGroup" => q.name = r.name
    /\ q.rpc = "CreateWorkload" => q.kind = r.kind
    /\ q.rpc = "CreateNetwork" => q.node = r.node
    /\ q.rpc = "AttachSecurityGroup" =>
          q.group = r.group /\ q.kind = r.kind /\ q.target = r.target

\* No two resources of a kind ask for the same thing, and none is named in
\* Kubernetes like an id of the service or like what another one asks for.  Nothing
\* in the code sees to it; resources that clash adopt and delete each other's things.
Separate ==
    /\ \A o \in Objs : HasId(o) => MetaName[o] \notin Ids
    /\ \A o, p \in Objs : o # p /\ KindOf[o] = KindOf[p] =>
          /\ \A q \in CreationsOf(o), r \in CreationsOf(p) : ~ Alike(q, r)
          /\ Named(o) => \A q \in CreationsOf(o) : q.name # MetaName[p]
          /\ KindOf[o] = "Network" =>
                \A q \in CreationsOf(o), r \in CreationsOf(p), s \in SpecsOf[p] :
                    q.name = r.name => TrimSpace(s.node) \notin {"", q.node}

\* The external name of a resource leads to nobody else's things, and a deletion on
\* its way is one its resource would still ask for.
OwnNames ==
    /\ \A p \in team :
          /\ HasId(p) =>
                /\ cr[p].ext \notin Ids \ db.issued
                /\ \A x \in db.vms \cup db.workloads : x.id = cr[p].ext => x.by = p
          /\ Named(p) =>
                \/ cr[p].ext = MetaName[p]
                \/ \E c \in CreationsOf(p) : cr[p].ext = c.name
    /\ \A r \in stray \cap DeleteRequests : r.by \in team /\ r \in Deleting(r.by)

\* What a call to create finds under its name is its resource's own.
LEMMA SameOwner ==
    ASSUME NEW tables, Sane(tables), Separate, NEW o \in Objs, NEW r \in CreationsOf(o)
    PROVE  /\ r.rpc = "CreateVm" => \A v \in tables.vms : v.name = r.name => v.by = o
           /\ r.rpc = "CreateWorkload" =>
                 \A l \in tables.workloads : l.kind = r.kind /\ l.name = r.name => l.by = o
           /\ r.rpc = "CreateNetwork" =>
                 \A n \in tables.networks : n.name = r.name /\ n.node = r.node => n.by = o
           /\ r.rpc = "CreateSecurityGroup" =>
                 \A g \in tables.groups : g.name = r.name => g.by = o
           /\ r.rpc = "AttachSecurityGroup" =>
                 \A a \in tables.attachments :
                     a.group = r.group /\ a.kind = r.kind /\ a.target = r.target => a.by = o
           /\ r.rpc = "CreateSshKey" =>
                 \A k \in tables.keys : k.name = r.name => k.by = o
<1>1. \A p \in Objs : p # o /\ KindOf[p] = KindOf[o] =>
         \A q \in CreationsOf(p) : ~ Alike(q, r)
  BY DEF Separate
<1>2. /\ r.rpc = "CreateVm" => KindOf[o] = "VirtualMachine"
      /\ r.rpc = "CreateWorkload" => KindOf[o] = "Workload"
      /\ r.rpc = "CreateNetwork" => KindOf[o] = "Network"
      /\ r.rpc = "CreateSecurityGroup" => KindOf[o] = "SecurityGroup"
      /\ r.rpc = "AttachSecurityGroup" => KindOf[o] = "SecurityGroupAttachment"
      /\ r.rpc = "CreateSshKey" => KindOf[o] = "SSHKey"
  BY CreationFields DEF CreationsOf
<1>3. CASE r.rpc = "CreateVm"
  <2> SUFFICES ASSUME NEW v \in tables.vms, v.name = r.name PROVE v.by = o
    BY <1>3
  <2>1. PICK q \in CreationsOf(v.by) : q.rpc = "CreateVm" /\ q.name = v.name
    BY DEF Sane, Rooted
  <2>2. Alike(q, r)
    BY <2>1 DEF Alike
  <2> QED BY <1>1, <1>2, <1>3, <2>2, RowKinds
<1>4. CASE r.rpc = "CreateWorkload"
  <2> SUFFICES ASSUME NEW l \in tables.workloads, l.kind = r.kind, l.name = r.name
               PROVE  l.by = o
    BY <1>4
  <2>1. PICK q \in CreationsOf(l.by) :
           q.rpc = "CreateWorkload" /\ q.kind = l.kind /\ q.name = l.name
    BY DEF Sane, Rooted
  <2>2. Alike(q, r)
    BY <2>1 DEF Alike
  <2> QED BY <1>1, <1>2, <1>4, <2>2, RowKinds
<1>5. CASE r.rpc = "CreateNetwork"
  <2> SUFFICES ASSUME NEW n \in tables.networks, n.name = r.name, n.node = r.node
               PROVE  n.by = o
    BY <1>5
  <2>1. PICK q \in CreationsOf(n.by) :
           q.rpc = "CreateNetwork" /\ q.name = n.name /\ q.node = n.node
    BY DEF Sane, Rooted
  <2>2. Alike(q, r)
    BY <2>1 DEF Alike
  <2> QED BY <1>1, <1>2, <1>5, <2>2, RowKinds
<1>6. CASE r.rpc = "CreateSecurityGroup"
  <2> SUFFICES ASSUME NEW g \in tables.groups, g.name = r.name PROVE g.by = o
    BY <1>6
  <2>1. PICK q \in CreationsOf(g.by) : q.rpc = "CreateSecurityGroup" /\ q.name = g.name
    BY DEF Sane, Rooted
  <2>2. Alike(q, r)
    BY <2>1 DEF Alike
  <2> QED BY <1>1, <1>2, <1>6, <2>2, RowKinds
<1>7. CASE r.rpc = "AttachSecurityGroup"
  <2> SUFFICES ASSUME NEW a \in tables.attachments,
                      a.group = r.group, a.kind = r.kind, a.target = r.target
               PROVE  a.by = o
    BY <1>7
  <2>1. PICK q \in CreationsOf(a.by) :
           /\ q.rpc = "AttachSecurityGroup" /\ q.group = a.group
           /\ q.kind = a.kind /\ q.target = a.target
    BY DEF Sane, Rooted
  <2>2. Alike(q, r)
    BY <2>1 DEF Alike
  <2> QED BY <1>1, <1>2, <1>7, <2>2, RowKinds
<1>8. CASE r.rpc = "CreateSshKey"
  <2> SUFFICES ASSUME NEW k \in tables.keys, k.name = r.name PROVE k.by = o
    BY <1>8
  <2>1. PICK q \in CreationsOf(k.by) : q.rpc = "CreateSshKey" /\ q.name = k.name
    BY DEF Sane, Rooted
  <2>2. Alike(q, r)
    BY <2>1 DEF Alike
  <2> QED BY <1>1, <1>2, <1>8, <2>2, RowKinds
<1> QED BY <1>3, <1>4, <1>5, <1>6, <1>7, <1>8

\* A VM or a workload has an id never issued, or that of one of the same resource.
SameOwners(tables, next) ==
    /\ \A v \in next.vms : \/ v.id \in Ids \ tables.issued
                           \/ \E u \in tables.vms : u.id = v.id /\ u.by = v.by
    /\ \A l \in next.workloads :
          \/ l.id \in Ids \ tables.issued
          \/ \E k \in tables.workloads : k.id = l.id /\ k.by = l.by

\* A creation takes nothing away from anybody, and gives something to its resource.
LEMMA CreationOwners ==
    ASSUME Sane(db), Separate, NEW r \in CreateRequests, Asked(r), r.by \in Objs,
           NEW out \in Serve(db, r)
    PROVE  /\ \A o : Owned(db, o) # {} => Owned(out.db, o) # {}
           /\ out.answer.code = "OK" => Owned(out.db, r.by) # {}
           /\ SameOwners(db, out.db)
<1>1. db \in Databases /\ r \in CreationsOf(r.by)
  BY DEF Sane, Asked
<1>2. CASE out.db = db /\ out.answer.code # "OK"
  BY <1>2 DEF SameOwners
<1>3. CASE r \in CreateVmRequests /\ out \in CreateVm(db, r)
  <2> DEFINE same == {v \in db.vms : v.name = r.name}
  <2>1. PICK id \in IdsFor(db, same) :
           out = Outcome([db EXCEPT !.vms = (@ \ same) \cup {VmRow(r, id)},
                                    !.issued = @ \cup {id}],
                         Ok({[id |-> id, state |-> StateFor(r.desired)]}))
    BY <1>3 DEF CreateVm
  <2>2. /\ out.db.vms = (db.vms \ same) \cup {VmRow(r, id)}
        /\ out.db.workloads = db.workloads /\ out.db.networks = db.networks
        /\ out.db.groups = db.groups /\ out.db.attachments = db.attachments
        /\ out.db.keys = db.keys
    BY <1>1, <2>1 DEF Outcome, Databases
  <2>3. VmRow(r, id).by = r.by /\ VmRow(r, id).id = id
    BY DEF VmRow
  <2>4. \A v \in same : v.by = r.by
    <3>1. r.rpc = "CreateVm"
      BY <1>3 DEF CreateVmRequests
    <3> QED BY <1>1, <3>1, SameOwner
  <2> HIDE DEF same
  <2>5. (\E v \in same : id = v.id) \/ id \in Ids \ db.issued
    BY IdsForChosen
  <2>6. same \subseteq db.vms
    BY DEF same
  <2>7. ASSUME NEW o, NEW row \in Owned(db, o)
        PROVE  Owned(out.db, o) # {}
    <3>1. row \in Owned(out.db, o) \/ VmRow(r, id) \in Owned(out.db, o)
      BY <2>2, <2>3, <2>4, <2>7 DEF Owned
    <3> QED BY <3>1
  <2>8. Owned(out.db, r.by) # {}
    <3>1. VmRow(r, id) \in Owned(out.db, r.by)
      BY <2>2, <2>3 DEF Owned
    <3> QED BY <3>1
  <2>9. SameOwners(db, out.db)
    BY <2>2, <2>3, <2>4, <2>5, <2>6 DEF SameOwners
  <2> QED BY <2>7, <2>8, <2>9
<1>4. CASE r \in CreateWorkloadRequests /\ out \in CreateWorkload(db, r)
  <2> DEFINE same == {l \in db.workloads : l.kind = r.kind /\ l.name = r.name}
  <2>1. CASE out = Outcome(db, Error("InvalidArgument"))
    BY <1>2, <2>1 DEF Outcome, Error
  <2>2. CASE out # Outcome(db, Error("InvalidArgument"))
    <3>1. PICK id \in IdsFor(db, same) :
             out = Outcome([db EXCEPT !.workloads = (@ \ same) \cup {WorkloadRow(r, id)},
                                      !.issued = @ \cup {id}],
                           Ok({NewWorkload(r, id)}))
      BY <1>4, <2>2, Zenon DEF CreateWorkload
    <3>2. /\ out.db.workloads = (db.workloads \ same) \cup {WorkloadRow(r, id)}
          /\ out.db.vms = db.vms /\ out.db.networks = db.networks
          /\ out.db.groups = db.groups /\ out.db.attachments = db.attachments
          /\ out.db.keys = db.keys
      BY <1>1, <3>1 DEF Outcome, Databases
    <3>3. WorkloadRow(r, id).by = r.by /\ WorkloadRow(r, id).id = id
      BY DEF WorkloadRow
    <3>4. \A l \in same : l.by = r.by
      <4>1. r.rpc = "CreateWorkload"
        BY <1>4 DEF CreateWorkloadRequests
      <4> QED BY <1>1, <4>1, SameOwner
    <3> HIDE DEF same
    <3>5. (\E l \in same : id = l.id) \/ id \in Ids \ db.issued
      BY IdsForChosen
    <3>6. same \subseteq db.workloads
      BY DEF same
    <3>7. ASSUME NEW o, NEW row \in Owned(db, o)
          PROVE  Owned(out.db, o) # {}
      <4>1. row \in Owned(out.db, o) \/ WorkloadRow(r, id) \in Owned(out.db, o)
        BY <3>2, <3>3, <3>4, <3>7 DEF Owned
      <4> QED BY <4>1
    <3>8. Owned(out.db, r.by) # {}
      <4>1. WorkloadRow(r, id) \in Owned(out.db, r.by)
        BY <3>2, <3>3 DEF Owned
      <4> QED BY <4>1
    <3>9. SameOwners(db, out.db)
      BY <3>2, <3>3, <3>4, <3>5, <3>6 DEF SameOwners
    <3> QED BY <3>7, <3>8, <3>9
  <2> QED BY <2>1, <2>2
<1>5. CASE r \in CreateNetworkRequests /\ out \in CreateNetwork(db, r)
  <2> DEFINE row == [name |-> r.name, node |-> r.node, addr |-> r.addr,
                     type |-> r.type, nat |-> r.nat, by |-> r.by]
             same == {n \in db.networks : n.name = r.name /\ n.node = r.node}
  <2>1. out = Outcome(IF same = {} THEN [db EXCEPT !.networks = @ \cup {row}] ELSE db,
                      Ok({}))
    BY <1>5 DEF CreateNetwork
  <2>2. /\ \/ out.db.networks = db.networks \cup {row}
           \/ out.db.networks = db.networks /\ same # {}
        /\ out.db.workloads = db.workloads /\ out.db.vms = db.vms
        /\ out.db.groups = db.groups /\ out.db.attachments = db.attachments
        /\ out.db.keys = db.keys
    <3> HIDE DEF same, row
    <3> QED BY <1>1, <2>1 DEF Outcome, Databases
  <2>3. \A n \in same : n.by = r.by /\ n \in db.networks
    <3>1. r.rpc = "CreateNetwork"
      BY <1>5 DEF CreateNetworkRequests
    <3> QED BY <1>1, <3>1, SameOwner
  <2>4. row.by = r.by
    OBVIOUS
  <2> HIDE DEF same, row
  <2>5. Owned(out.db, r.by) # {}
    <3>1. row \in Owned(out.db, r.by) \/ \E n \in same : n \in Owned(out.db, r.by)
      BY <2>2, <2>3, <2>4 DEF Owned
    <3> QED BY <3>1
  <2> QED BY <2>2, <2>5 DEF Owned, SameOwners
<1>6. CASE r \in CreateSecurityGroupRequests /\ out \in CreateSecurityGroup(db, r)
  <2> DEFINE row == [name |-> r.name, rules |-> r.rules, by |-> r.by]
             same == {g \in db.groups : g.name = r.name}
  <2>1. out = Outcome([db EXCEPT !.groups = (@ \ same) \cup {row}], Ok({}))
    BY <1>6 DEF CreateSecurityGroup
  <2>2. /\ out.db.groups = (db.groups \ same) \cup {row}
        /\ out.db.workloads = db.workloads /\ out.db.vms = db.vms
        /\ out.db.networks = db.networks /\ out.db.attachments = db.attachments
        /\ out.db.keys = db.keys
    BY <1>1, <2>1 DEF Outcome, Databases
  <2>3. \A g \in same : g.by = r.by
    <3>1. r.rpc = "CreateSecurityGroup"
      BY <1>6 DEF CreateSecurityGroupRequests
    <3> QED BY <1>1, <3>1, SameOwner
  <2>4. row.by = r.by
    OBVIOUS
  <2> HIDE DEF same, row
  <2>5. ASSUME NEW o, NEW x \in Owned(db, o)
        PROVE  Owned(out.db, o) # {}
    <3>1. x \in Owned(out.db, o) \/ row \in Owned(out.db, o)
      BY <2>2, <2>3, <2>4 DEF Owned
    <3> QED BY <3>1
  <2>6. Owned(out.db, r.by) # {}
    <3>1. row \in Owned(out.db, r.by)
      BY <2>2, <2>4 DEF Owned
    <3> QED BY <3>1
  <2>7. SameOwners(db, out.db)
    BY <2>2 DEF SameOwners
  <2> QED BY <2>5, <2>6, <2>7
<1>7. CASE r \in AttachSecurityGroupRequests /\ out \in AttachSecurityGroup(db, r)
  <2> DEFINE row == [group |-> r.group, kind |-> r.kind, target |-> r.target,
                     node |-> r.node, by |-> r.by]
             same == Addressed(db, r)
  <2>1. CASE out = Outcome(db, Error("NotFound"))
    BY <1>2, <2>1 DEF Outcome, Error
  <2>2. CASE out # Outcome(db, Error("NotFound"))
    <3>1. out = Outcome([db EXCEPT !.attachments = (@ \ same) \cup {row}], Ok({}))
      BY <1>7, <2>2, Zenon DEF AttachSecurityGroup
    <3>2. /\ out.db.attachments = (db.attachments \ same) \cup {row}
          /\ out.db.workloads = db.workloads /\ out.db.vms = db.vms
          /\ out.db.networks = db.networks /\ out.db.groups = db.groups
          /\ out.db.keys = db.keys
      BY <1>1, <3>1 DEF Outcome, Databases
    <3>3. \A a \in same : a.by = r.by
      <4>1. r.rpc = "AttachSecurityGroup"
        BY <1>7 DEF AttachSecurityGroupRequests
      <4> QED BY <1>1, <4>1, SameOwner DEF Addressed
    <3>4. row.by = r.by
      OBVIOUS
    <3> HIDE DEF same, row
    <3>5. ASSUME NEW o, NEW x \in Owned(db, o)
          PROVE  Owned(out.db, o) # {}
      <4>1. x \in Owned(out.db, o) \/ row \in Owned(out.db, o)
        BY <3>2, <3>3, <3>4 DEF Owned
      <4> QED BY <4>1
    <3>6. Owned(out.db, r.by) # {}
      <4>1. row \in Owned(out.db, r.by)
        BY <3>2, <3>4 DEF Owned
      <4> QED BY <4>1
    <3>7. SameOwners(db, out.db)
      BY <3>2 DEF SameOwners
    <3> QED BY <3>5, <3>6, <3>7
  <2> QED BY <2>1, <2>2
<1>8. CASE r \in CreateSshKeyRequests /\ out \in CreateSshKey(db, r)
  <2> DEFINE row == [name |-> r.name, key |-> r.key, by |-> r.by]
             same == {k \in db.keys : k.name = r.name}
  <2>1. out = Outcome(IF same = {} THEN [db EXCEPT !.keys = @ \cup {row}] ELSE db, Ok({}))
    BY <1>8 DEF CreateSshKey
  <2>2. /\ \/ out.db.keys = db.keys \cup {row}
           \/ out.db.keys = db.keys /\ same # {}
        /\ out.db.workloads = db.workloads /\ out.db.vms = db.vms
        /\ out.db.groups = db.groups /\ out.db.attachments = db.attachments
        /\ out.db.networks = db.networks
    <3> HIDE DEF same, row
    <3> QED BY <1>1, <2>1 DEF Outcome, Databases
  <2>3. \A k \in same : k.by = r.by /\ k \in db.keys
    <3>1. r.rpc = "CreateSshKey"
      BY <1>8 DEF CreateSshKeyRequests
    <3> QED BY <1>1, <3>1, SameOwner
  <2>4. row.by = r.by
    OBVIOUS
  <2> HIDE DEF same, row
  <2>5. Owned(out.db, r.by) # {}
    <3>1. row \in Owned(out.db, r.by) \/ \E k \in same : k \in Owned(out.db, r.by)
      BY <2>2, <2>3, <2>4 DEF Owned
    <3> QED BY <3>1
  <2> QED BY <2>2, <2>5 DEF Owned, SameOwners
<1> QED BY <1>3, <1>4, <1>5, <1>6, <1>7, <1>8, CreateCases

\* Nor does a change of size or state.
LEMMA UpdateOwners ==
    ASSUME db \in Databases, NEW r \in UpdateRequests, NEW out \in Serve(db, r), NEW o,
           Owned(db, o) # {}
    PROVE  Owned(out.db, o) # {}
<1>1. PICK row : row \in Owned(db, o)
  OBVIOUS
<1>2. /\ \A x \in Vms : Resized(x, r).by = x.by
      /\ \A x \in Vms \cup Workloads :
            [x EXCEPT !.desired = r.desired, !.status = StatusFor(r.desired)].by = x.by
  BY DEF Resized, Vms, Workloads, WorkloadsOf
<1>3. CASE out \in UpdateVm(db, r)
  <2> DEFINE hit == {v \in db.vms : v.id = r.id}
  <2>1. CASE out = Outcome(db, Error("NotFound"))
    BY <2>1 DEF Outcome
  <2>2. CASE out # Outcome(db, Error("NotFound"))
    <3>1. out = Outcome([db EXCEPT !.vms = (@ \ hit) \cup {Resized(v, r) : v \in hit}],
                        Ok({}))
      BY <1>3, <2>2, Zenon DEF UpdateVm
    <3>2. /\ out.db.vms = (db.vms \ hit) \cup {Resized(v, r) : v \in hit}
          /\ out.db.workloads = db.workloads /\ out.db.networks = db.networks
          /\ out.db.groups = db.groups /\ out.db.attachments = db.attachments
          /\ out.db.keys = db.keys
      BY <3>1 DEF Outcome, Databases
    <3>3. hit \subseteq Vms
      BY DEF Databases
    <3> HIDE DEF hit
    <3>4. row \in Owned(out.db, o) \/ Resized(row, r) \in Owned(out.db, o)
      BY <1>1, <1>2, <3>2, <3>3 DEF Owned
    <3> QED BY <3>4
  <2> QED BY <2>1, <2>2
<1>4. CASE out \in SetVmDesiredState(db, r)
  <2> DEFINE hit == {v \in db.vms : v.id = r.id}
             next(x) == [x EXCEPT !.desired = r.desired, !.status = StatusFor(r.desired)]
  <2>1. CASE out = Outcome(db, Error("NotFound"))
    BY <2>1 DEF Outcome
  <2>2. CASE out # Outcome(db, Error("NotFound"))
    <3>1. out = Outcome([db EXCEPT !.vms = (@ \ hit) \cup Switched(hit, r)], Ok({}))
      BY <1>4, <2>2, Zenon DEF SetVmDesiredState
    <3>2. /\ out.db.vms = (db.vms \ hit) \cup Switched(hit, r)
          /\ out.db.workloads = db.workloads /\ out.db.networks = db.networks
          /\ out.db.groups = db.groups /\ out.db.attachments = db.attachments
          /\ out.db.keys = db.keys
      BY <3>1 DEF Outcome, Databases
    <3>3. hit \subseteq Vms
      BY DEF Databases
    <3> HIDE DEF hit
    <3>4. \A x \in hit : next(x) \in Switched(hit, r) /\ next(x).by = x.by
      BY <1>2, <3>3 DEF Switched
    <3> HIDE DEF next
    <3>5. row \in Owned(out.db, o) \/ next(row) \in Owned(out.db, o)
      BY <1>1, <3>2, <3>4 DEF Owned
    <3> QED BY <3>5
  <2> QED BY <2>1, <2>2
<1>5. CASE out \in SetWorkloadDesiredState(db, r)
  <2> DEFINE hit == {l \in db.workloads : l.kind = r.kind /\ l.id = r.id}
             next(x) == [x EXCEPT !.desired = r.desired, !.status = StatusFor(r.desired)]
  <2>1. CASE out = Outcome(db, Error("NotFound"))
    BY <2>1 DEF Outcome
  <2>2. CASE out # Outcome(db, Error("NotFound"))
    <3>1. out = Outcome([db EXCEPT !.workloads = (@ \ hit) \cup Switched(hit, r)], Ok({}))
      BY <1>5, <2>2, Zenon DEF SetWorkloadDesiredState
    <3>2. /\ out.db.workloads = (db.workloads \ hit) \cup Switched(hit, r)
          /\ out.db.vms = db.vms /\ out.db.networks = db.networks
          /\ out.db.groups = db.groups /\ out.db.attachments = db.attachments
          /\ out.db.keys = db.keys
      BY <3>1 DEF Outcome, Databases
    <3>3. hit \subseteq Workloads
      BY DEF Databases
    <3> HIDE DEF hit
    <3>4. \A x \in hit : next(x) \in Switched(hit, r) /\ next(x).by = x.by
      BY <1>2, <3>3 DEF Switched
    <3> HIDE DEF next
    <3>5. row \in Owned(out.db, o) \/ next(row) \in Owned(out.db, o)
      BY <1>1, <3>2, <3>4 DEF Owned
    <3> QED BY <3>5
  <2> QED BY <2>1, <2>2
<1> QED BY <1>3, <1>4, <1>5, UpdateCases

\* What the handlers look up and delete under the external name and the spec of a
\* resource is its own.
LEMMA NameIsOwn ==
    ASSUME TypeOK, Tables, Separate, OwnNames, NEW p \in team
    PROVE  /\ KindOf[p] = "VirtualMachine" =>
                 \A v \in db.vms : v.id = cr[p].ext => v.by = p
           /\ KindOf[p] = "Workload" =>
                 \A l \in db.workloads : l.id = cr[p].ext => l.by = p
           /\ KindOf[p] = "Network" =>
                 \A n \in db.networks :
                     n.name = cr[p].ext /\ TrimSpace(cr[p].spec.node) \in {"", n.node} =>
                        n.by = p
           /\ KindOf[p] = "SecurityGroup" =>
                 \A g \in db.groups : g.name = cr[p].ext => g.by = p
           /\ KindOf[p] = "SecurityGroupAttachment" =>
                 LET call == createRequest(p, cr[p].spec)
                 IN  \A a \in db.attachments :
                        a.group = call.group /\ a.kind = call.kind
                           /\ a.target = call.target => a.by = p
           /\ KindOf[p] = "SSHKey" =>
                 \A k \in db.keys : k.name = cr[p].ext => k.by = p
           /\ Named(p) => cr[p].ext # ""
<1> DEFINE empty == ""
<1>1. p \in Objs /\ cr[p].spec \in SpecsOf[p] /\ Sane(db)
  BY TeamAssumption DEF TypeOK, Copies, Tables
<1>2. ASSUME NEW o \in Objs, KindOf[o] = KindOf[p], o # p
      PROVE  /\ \A q \in CreationsOf(o), r \in CreationsOf(p) : ~ Alike(q, r)
             /\ Named(o) => \A q \in CreationsOf(o) : q.name # MetaName[p]
  BY <1>1, <1>2 DEF Separate
<1>3. CASE HasId(p)
  BY <1>3 DEF OwnNames, HasId, Named
<1>4. ASSUME Named(p)
      PROVE  \/ cr[p].ext = MetaName[p]
             \/ \E c \in CreationsOf(p) : cr[p].ext = c.name
  BY <1>4 DEF OwnNames
<1>5. Named(p) => cr[p].ext # empty
  <2> SUFFICES ASSUME Named(p) PROVE cr[p].ext # empty
    OBVIOUS
  <2>1. CASE cr[p].ext = MetaName[p]
    BY <1>1, <2>1, MetaNameAssumption, Zenon
  <2>2. ASSUME NEW c \in CreationsOf(p), cr[p].ext = c.name PROVE cr[p].ext # empty
    BY <1>1, <2>2, CreationNamed DEF Named
  <2> QED BY <1>4, <2>1, <2>2
<1>6. CASE KindOf[p] = "Network"
  <2> DEFINE node == TrimSpace(cr[p].spec.node)
  <2> SUFFICES ASSUME NEW n \in db.networks, n.name = cr[p].ext, node \in {empty, n.node},
                      n.by # p
               PROVE  FALSE
    BY <1>5, <1>6 DEF Named
  <2>1. PICK q \in CreationsOf(n.by) :
           q.rpc = "CreateNetwork" /\ q.name = n.name /\ q.node = n.node
    BY <1>1 DEF Sane, Rooted
  <2>2. n.by \in Objs /\ KindOf[n.by] = "Network"
    BY <1>1, RowKinds
  <2>3. \A c \in CreationsOf(p) : q.name = c.name => node \notin {empty, q.node}
    <3>1. \A c \in CreationsOf(p), s \in SpecsOf[p] :
             q.name = c.name => TrimSpace(s.node) \notin {empty, q.node}
      <4> HIDE DEF empty
      <4>1. \A c \in CreationsOf(p), s \in SpecsOf[p] :
             q.name = c.name => TrimSpace(s.node) \notin {"", q.node}
        BY <1>1, <1>6, <2>2, Zenon DEF Separate
      <4> QED BY <4>1, Zenon DEF empty
    <3> QED BY <1>1, <3>1, Zenon
  <2>4. PICK c \in CreationsOf(p) : cr[p].ext = c.name
    BY <1>2, <1>4, <1>6, <2>1, <2>2 DEF Named
  <2> QED BY <2>1, <2>3, <2>4, Zenon
<1>7. CASE KindOf[p] = "SecurityGroup"
  <2> SUFFICES ASSUME NEW g \in db.groups, g.name = cr[p].ext, g.by # p
               PROVE  FALSE
    BY <1>5, <1>7 DEF Named
  <2>1. PICK q \in CreationsOf(g.by) : q.rpc = "CreateSecurityGroup" /\ q.name = g.name
    BY <1>1 DEF Sane, Rooted
  <2>2. g.by \in Objs /\ KindOf[g.by] = "SecurityGroup"
    BY <1>1, RowKinds
  <2>3. PICK c \in CreationsOf(p) : cr[p].ext = c.name
    BY <1>2, <1>4, <1>7, <2>1, <2>2 DEF Named
  <2>4. Alike(q, c)
    BY <2>1, <2>3 DEF Alike
  <2> QED BY <1>2, <1>7, <2>2, <2>4
<1>8. CASE KindOf[p] = "SecurityGroupAttachment"
  <2> DEFINE call == createRequest(p, cr[p].spec)
  <2>1. call \in CreationsOf(p) /\ call.rpc = "AttachSecurityGroup"
    BY <1>1, <1>8, CreationFields DEF CreationsOf, CreateValid, SGA!CreateValid
  <2> HIDE DEF call
  <2>2. \A a \in db.attachments :
           a.group = call.group /\ a.kind = call.kind /\ a.target = call.target => a.by = p
    BY <1>1, <2>1, SameOwner
  <2> QED BY <1>8, <2>2 DEF Named, call
<1>9. CASE KindOf[p] = "SSHKey"
  <2> SUFFICES ASSUME NEW k \in db.keys, k.name = cr[p].ext, k.by # p
               PROVE  FALSE
    BY <1>5, <1>9 DEF Named
  <2>1. PICK q \in CreationsOf(k.by) : q.rpc = "CreateSshKey" /\ q.name = k.name
    BY <1>1 DEF Sane, Rooted
  <2>2. k.by \in Objs /\ KindOf[k.by] = "SSHKey"
    BY <1>1, RowKinds
  <2>3. PICK c \in CreationsOf(p) : cr[p].ext = c.name
    BY <1>2, <1>4, <1>9, <2>1, <2>2 DEF Named
  <2>4. Alike(q, c)
    BY <2>1, <2>3 DEF Alike
  <2> QED BY <1>2, <1>9, <2>2, <2>4
<1> QED BY <1>1, <1>3, <1>6, <1>7, <1>8, <1>9, KindAssumption DEF Kinds, HasId

\* A deletion takes from the others nothing but the attachments of a group that goes.
LEMMA DeletionSpares ==
    ASSUME TypeOK, Tables, Separate, OwnNames, NEW p \in team, NEW r \in Deleting(p),
           NEW out \in Serve(db, r), NEW o, o # p, NEW row \in Owned(db, o)
    PROVE  \/ row \in Owned(out.db, o)
           \/ /\ KindOf[p] = "SecurityGroup"
              /\ row \in db.attachments
              /\ row.group \notin {g.name : g \in out.db.groups}
<1> DEFINE empty == ""
<1>1. /\ p \in Objs /\ r \in Delete(p, cr[p]) /\ db \in Databases
      /\ Named(p) => cr[p].ext # empty
  BY NameIsOwn, TeamAssumption DEF Deleting, TypeOK
<1>2. CASE out = Outcome(db, Error("InvalidArgument"))
  BY <1>2 DEF Outcome
<1>3. CASE KindOf[p] = "VirtualMachine"
  <2> DEFINE hit == {v \in db.vms : v.id = r.id}
             next == [db EXCEPT !.vms = @ \ hit]
  <2>1. r = [rpc |-> "DeleteVm", by |-> p, id |-> cr[p].ext]
    BY <1>1, <1>3, DeletionCall
  <2>2. out \in Removed(db, hit, next)
    BY <2>1 DEF Serve, DeleteVm
  <2>3. \A v \in hit : v.by = p
    BY <1>3, <2>1, NameIsOwn
  <2>4. /\ next.vms = db.vms \ hit /\ next.workloads = db.workloads
        /\ next.networks = db.networks /\ next.groups = db.groups
        /\ next.attachments = db.attachments /\ next.keys = db.keys
    BY <1>1 DEF Databases
  <2> HIDE DEF hit, next
  <2>5. out.db = next \/ (hit = {} /\ out.db = db)
    BY <2>2, RemovedDone
  <2> QED BY <2>3, <2>4, <2>5 DEF Owned
<1>4. CASE KindOf[p] = "Workload" /\ out # Outcome(db, Error("InvalidArgument"))
  <2> DEFINE hit == {l \in db.workloads : l.kind = r.kind /\ l.id = r.id}
             next == [db EXCEPT !.workloads = @ \ hit]
  <2>1. r = [rpc |-> "DeleteWorkload", by |-> p,
             kind |-> WorkloadKind(cr[p].spec.kind), id |-> cr[p].ext]
    BY <1>1, <1>4, DeletionCall
  <2>2. out \in Removed(db, hit, next)
    <3>1. out \in DeleteWorkload(db, r)
      BY <2>1 DEF Serve
    <3> QED BY <1>4, <3>1, Zenon DEF DeleteWorkload
  <2>3. \A l \in hit : l.by = p
    BY <1>4, <2>1, NameIsOwn
  <2>4. /\ next.vms = db.vms /\ next.workloads = db.workloads \ hit
        /\ next.networks = db.networks /\ next.groups = db.groups
        /\ next.attachments = db.attachments /\ next.keys = db.keys
    BY <1>1 DEF Databases
  <2> HIDE DEF hit, next
  <2>5. out.db = next \/ (hit = {} /\ out.db = db)
    BY <2>2, RemovedDone
  <2> QED BY <2>3, <2>4, <2>5 DEF Owned
<1>5. CASE KindOf[p] = "Network" /\ out # Outcome(db, Error("InvalidArgument"))
  <2> DEFINE hit == {n \in db.networks : n.name = r.name /\ r.node \in {"", n.node}}
             next == [db EXCEPT !.networks = @ \ hit]
  <2>1. r = [rpc |-> "DeleteNetwork", by |-> p, name |-> cr[p].ext,
             node |-> TrimSpace(cr[p].spec.node)]
    BY <1>1, <1>5, DeletionCall DEF Named
  <2>2. out \in Removed(db, hit, next)
    <3>1. out \in DeleteNetwork(db, r)
      BY <2>1 DEF Serve
    <3> QED BY <1>5, <3>1, Zenon DEF DeleteNetwork
  <2>3. \A n \in hit : n.by = p
    <3>1. r.name = cr[p].ext /\ r.node = TrimSpace(cr[p].spec.node)
      BY <2>1
    <3> QED BY <1>5, <3>1, NameIsOwn, Zenon
  <2> HIDE DEF hit
  <2>4. /\ next.vms = db.vms /\ next.workloads = db.workloads
        /\ next.networks = db.networks \ hit /\ next.groups = db.groups
        /\ next.attachments = db.attachments /\ next.keys = db.keys
    BY <1>1 DEF Databases
  <2> HIDE DEF next
  <2>5. out.db = next \/ (hit = {} /\ out.db = db)
    BY <2>2, RemovedDone
  <2> QED BY <2>3, <2>4, <2>5 DEF Owned
<1>6. CASE KindOf[p] = "SecurityGroup"
  <2> DEFINE hit == {g \in db.groups : g.name = r.name}
             rest == {a \in db.attachments : a.group # r.name}
             next == [db EXCEPT !.groups = @ \ hit,
                                !.attachments = {a \in @ : a.group # r.name}]
  <2>1. r = [rpc |-> "DeleteSecurityGroup", by |-> p, name |-> cr[p].ext]
    BY <1>1, <1>6, DeletionCall DEF Named
  <2>2. out \in Removed(db, hit, next)
    BY <2>1 DEF Serve, DeleteSecurityGroup
  <2>3. \A g \in hit : g.by = p
    BY <1>6, <2>1, NameIsOwn
  <2>4. /\ next.vms = db.vms /\ next.workloads = db.workloads
        /\ next.networks = db.networks /\ next.groups = db.groups \ hit
        /\ next.attachments = rest /\ next.keys = db.keys
    BY <1>1 DEF Databases
  <2>5. r.name \notin {g.name : g \in db.groups \ hit}
    OBVIOUS
  <2>6. \A a \in db.attachments \ rest : a.group = r.name
    OBVIOUS
  <2> HIDE DEF hit, next, rest
  <2>7. out.db = next \/ (hit = {} /\ out.db = db)
    BY <2>2, RemovedDone
  <2> QED BY <1>6, <2>3, <2>4, <2>5, <2>6, <2>7 DEF Owned
<1>7. CASE KindOf[p] = "SecurityGroupAttachment"
  <2> DEFINE hit == Addressed(db, r)
             next == [db EXCEPT !.attachments = @ \ hit]
  <2>1. LET call == createRequest(p, cr[p].spec)
        IN  /\ r.rpc = "DetachSecurityGroup"
            /\ r.group = call.group /\ r.kind = call.kind
            /\ r.target = call.target /\ r.node = call.node
    BY <1>1, <1>7, DeletionCall
  <2>2. out \in Removed(db, hit, next)
    BY <2>1 DEF Serve, DetachSecurityGroup
  <2>3. \A a \in hit : a.by = p
    BY <1>7, <2>1, NameIsOwn DEF Addressed
  <2>4. /\ next.vms = db.vms /\ next.workloads = db.workloads
        /\ next.networks = db.networks /\ next.groups = db.groups
        /\ next.attachments = db.attachments \ hit /\ next.keys = db.keys
    BY <1>1 DEF Databases
  <2> HIDE DEF hit, next
  <2>5. out.db = next \/ (hit = {} /\ out.db = db)
    BY <2>2, RemovedDone
  <2> QED BY <2>3, <2>4, <2>5 DEF Owned
<1>8. CASE KindOf[p] = "SSHKey"
  <2> DEFINE hit == {k \in db.keys : k.name = r.name}
             next == [db EXCEPT !.keys = @ \ hit]
  <2>1. r = [rpc |-> "DeleteSshKey", by |-> p, name |-> cr[p].ext]
    BY <1>1, <1>8, DeletionCall DEF Named
  <2>2. out \in Removed(db, hit, next)
    BY <2>1 DEF Serve, DeleteSshKey
  <2>3. \A k \in hit : k.by = p
    BY <1>8, <2>1, NameIsOwn
  <2>4. /\ next.vms = db.vms /\ next.workloads = db.workloads
        /\ next.networks = db.networks /\ next.groups = db.groups
        /\ next.attachments = db.attachments /\ next.keys = db.keys \ hit
    BY <1>1 DEF Databases
  <2> HIDE DEF hit, next
  <2>5. out.db = next \/ (hit = {} /\ out.db = db)
    BY <2>2, RemovedDone
  <2> QED BY <2>3, <2>4, <2>5 DEF Owned
<1> QED BY <1>1, <1>2, <1>3, <1>4, <1>5, <1>6, <1>7, <1>8, KindAssumption DEF Kinds

\* An answer without rows is NotFound.
LEMMA NothingFound == Found({}).code = "NotFound"
BY DEF Found, Error

\* What Observe reports as there belongs to the resource.
LEMMA FoundIsOwn ==
    ASSUME TypeOK, Tables, Separate, OwnNames, NEW o \in team, Exists(o)
    PROVE  Owned(db, o) # {}
<1> DEFINE empty == ""
           reply == Lookup(o, db, cr[o])
<1>1. /\ o \in Objs /\ Seen(o) = Observe(o, cr[o], reply)
      /\ Observe(o, cr[o], reply) \subseteq {"current", "drifted"}
      /\ Named(o) => cr[o].ext # empty
  BY NameIsOwn, TeamAssumption DEF TypeOK, Exists, Seen
<1>2. CASE KindOf[o] = "VirtualMachine"
  <2> DEFINE rows == {v \in db.vms : v.id = cr[o].ext}
  <2>1. reply = Found(rows)
    BY <1>2 DEF Lookup, lookupRequest, VM!lookupRequest, VM!vmExternalID, Read, GetVm
  <2> HIDE DEF rows, reply
  <2>2. VM!Observe(cr[o], reply) # "absent"
    BY <1>1, <1>2 DEF Observe
  <2>3. reply.code # "NotFound"
    BY <2>2, Zenon DEF VM!Observe
  <2>4. PICK v : v \in rows
    BY <2>1, <2>3, NothingFound
  <2>5. v \in Owned(db, o)
    BY <1>2, <2>4, NameIsOwn DEF Owned, rows
  <2> QED BY <2>5
<1>3. CASE KindOf[o] = "Workload"
  <2> DEFINE kind == WL!WorkloadKind(cr[o].spec.kind)
             rows == {l \in db.workloads : l.kind = kind /\ l.id = cr[o].ext}
  <2>1. reply = Found(rows)
    BY <1>3 DEF Lookup, lookupRequest, WL!lookupRequest, WL!wlID, Read, GetWorkload
  <2> HIDE DEF rows, reply
  <2>2. WL!Observe(cr[o], reply) \notin {"absent", "error"}
    BY <1>1, <1>3 DEF Observe
  <2>3. reply.code # "NotFound"
    BY <2>2, Zenon DEF WL!Observe
  <2>4. PICK l : l \in rows
    BY <2>1, <2>3, NothingFound
  <2>5. l \in Owned(db, o)
    BY <1>3, <2>4, NameIsOwn DEF Owned, rows
  <2> QED BY <2>5
<1>4. CASE KindOf[o] = "Network"
  <2> DEFINE node == TrimSpace(cr[o].spec.node)
             rows == {n \in db.networks : node \in {"", n.node}}
             named == {n \in reply.content : n.name = Net!netName(cr[o])}
  <2>1. reply = Ok(rows)
    BY <1>4 DEF Lookup, lookupRequest, Net!lookupRequest, Read, ListNetworks,
       Net!TrimSpace, TrimSpace
  <2>2. Net!netName(cr[o]) = cr[o].ext
    BY <1>1, <1>4, Zenon DEF Net!netName, Named
  <2>3. Net!Observe(cr[o], reply) \subseteq {"current", "drifted"}
    BY <1>1, <1>4 DEF Observe
  <2> HIDE DEF reply
  <2>4. named # {}
    <3> SUFFICES ASSUME named = {} PROVE FALSE
      OBVIOUS
    <3>1. Net!Observe(cr[o], reply) \in {{"absent"}, {"error"}}
      BY Zenon DEF Net!Observe
    <3> QED BY <2>3, <3>1
  <2>5. PICK n : n \in reply.content /\ n.name = Net!netName(cr[o])
    BY <2>4
  <2>6. reply.content = rows
    <3> HIDE DEF rows
    <3> QED BY <2>1 DEF Ok
  <2>7. n \in db.networks /\ node \in {"", n.node} /\ n.name = cr[o].ext
    BY <2>2, <2>5, <2>6, Zenon
  <2>8. n.by = o
    BY <1>4, <2>7, NameIsOwn, Zenon
  <2>9. n \in Owned(db, o)
    <3> HIDE DEF node
    <3>1. n \in db.networks
      BY <2>7
    <3> QED BY <2>8, <3>1 DEF Owned
  <2> QED BY <2>9
<1>5. CASE KindOf[o] = "SecurityGroup"
  <2> DEFINE rows == {h \in db.groups : h.name = cr[o].ext}
             entry(g) == [name |-> g.name,
                          attachments |-> {a \in db.attachments : a.group = cr[o].ext}]
             found == {entry(g) : g \in rows}
  <2>1. SG!sgName(cr[o]) = cr[o].ext
    BY <1>1, <1>5, Zenon DEF SG!sgName, Named
  <2>2. reply = Found(found)
    BY <1>5, <2>1 DEF Lookup, lookupRequest, SG!lookupRequest, Read, GetSecurityGroup
  <2>3. SG!Observe(cr[o], reply) # "absent"
    BY <1>1, <1>5 DEF Observe
  <2> HIDE DEF reply
  <2>4. reply.code # "NotFound"
    BY <2>3, Zenon DEF SG!Observe
  <2>5. found # {}
    <3> HIDE DEF found
    <3> QED BY <2>2, <2>4, NothingFound
  <2>6. PICK g : g \in rows
    BY <2>5
  <2>7. g \in Owned(db, o)
    BY <1>5, <2>6, NameIsOwn DEF Owned
  <2> QED BY <2>7
<1>6. CASE KindOf[o] = "SecurityGroupAttachment"
  <2> DEFINE p == cr[o].spec
             call == createRequest(o, p)
             entry(g) == [name |-> g.name,
                          attachments |-> {a \in db.attachments : a.group = call.group}]
             found == {entry(g) : g \in {h \in db.groups : h.name = call.group}}
             match(a) == /\ a.group = SGA!TrimSpace(p.group)
                         /\ a.kind = SGA!SecurityGroupTargetKind(p.kind)
                         /\ a.target = SGA!TrimSpace(p.target)
  <2>1. /\ call.group = SGA!TrimSpace(p.group) /\ call.target = SGA!TrimSpace(p.target)
        /\ call.kind = SGA!SecurityGroupTargetKind(p.kind)
    BY <1>6 DEF createRequest, SGA!createRequest
  <2>2. reply = Found(found)
    BY <1>6, <2>1 DEF Lookup, lookupRequest, SGA!lookupRequest, Read, GetSecurityGroup
  <2>3. SGA!Observe(cr[o], reply) \notin {"absent", "error"}
    BY <1>1, <1>6 DEF Observe
  <2> HIDE DEF reply, call
  <2>4. reply.code = "OK" /\ SGA!findAttachment(reply, p) # {}
    BY <2>3, Zenon DEF SGA!Observe
  <2>5. reply.content = found
    <3> HIDE DEF found
    <3> QED BY <2>2, <2>4 DEF Found, Ok, Error
  <2>6. PICK a \in UNION {g.attachments : g \in reply.content} : match(a)
    BY <2>4 DEF SGA!findAttachment
  <2>7. a \in db.attachments
    BY <2>5, <2>6
  <2>8. a.by = o
    BY <1>6, <2>1, <2>6, <2>7, NameIsOwn DEF call
  <2>9. a \in Owned(db, o)
    BY <2>7, <2>8 DEF Owned
  <2> QED BY <2>9
<1>7. CASE KindOf[o] = "SSHKey"
  <2> DEFINE rows == {k \in db.keys : k.name = cr[o].ext}
  <2>1. Key!externalName(cr[o]) = cr[o].ext
    BY <1>1, <1>7, Zenon DEF Key!externalName, Named
  <2>2. reply = Found(rows)
    BY <1>7, <2>1 DEF Lookup, lookupRequest, Key!lookupRequest, Read, GetSshKey
  <2>3. Key!Observe(cr[o], reply) # "absent"
    BY <1>1, <1>7 DEF Observe
  <2> HIDE DEF rows, reply
  <2>4. reply.code # "NotFound"
    BY <2>3, Zenon DEF Key!Observe
  <2>5. PICK k : k \in rows
    BY <2>2, <2>4, NothingFound
  <2>6. k \in Owned(db, o)
    BY <1>7, <2>5, NameIsOwn DEF Owned, rows
  <2> QED BY <2>6
<1> QED BY <1>1, <1>2, <1>3, <1>4, <1>5, <1>6, <1>7, KindAssumption DEF Kinds

\* The calls of Delete carry its resource's name.
LEMMA DeletionBy ==
    ASSUME NEW o \in Objs, NEW k, NEW r \in Delete(o, k)
    PROVE  r.by = o
<1>1. CASE KindOf[o] = "VirtualMachine"
  <2>1. r = [rpc |-> "DeleteVm", by |-> o, id |-> VM!vmExternalID(k)]
    BY <1>1, Zenon DEF Delete, VM!Delete
  <2> QED BY <2>1
<1>2. CASE KindOf[o] = "Workload"
  <2>1. r = [rpc |-> "DeleteWorkload", by |-> o,
             kind |-> WL!WorkloadKind(k.spec.kind), id |-> WL!wlID(k)]
    BY <1>2, Zenon DEF Delete, WL!Delete
  <2> QED BY <2>1
<1>3. CASE KindOf[o] = "Network"
  <2>1. r = [rpc |-> "DeleteNetwork", by |-> o, name |-> Net!netName(k),
             node |-> Net!TrimSpace(k.spec.node)]
    BY <1>3, Zenon DEF Delete, Net!Delete
  <2> QED BY <2>1
<1>4. CASE KindOf[o] = "SecurityGroup"
  <2>1. r = [rpc |-> "DeleteSecurityGroup", by |-> o, name |-> SG!sgName(k)]
    BY <1>4, Zenon DEF Delete, SG!Delete
  <2> QED BY <2>1
<1>5. CASE KindOf[o] = "SecurityGroupAttachment"
  BY <1>5 DEF Delete, SGA!Delete
<1>6. CASE KindOf[o] = "SSHKey"
  <2>1. r = [rpc |-> "DeleteSshKey", by |-> o, name |-> Key!externalName(k)]
    BY <1>6, Zenon DEF Delete, Key!Delete
  <2> QED BY <2>1
<1> QED BY <1>1, <1>2, <1>3, <1>4, <1>5, <1>6, KindAssumption DEF Kinds

\* A call that deletes is one of Delete.
LEMMA DeletionOfDelete ==
    ASSUME TypeOK, NEW o \in team, NEW r \in Creating(o) \cup Updating(o) \cup Deleting(o),
           r \in DeleteRequests
    PROVE  r \in Deleting(o) /\ r.by = o
<1>1. o \in Objs /\ cr[o].ext \in STRING /\ cr[o].spec \in SpecsOf[o]
  BY TeamAssumption DEF TypeOK, Copies
<1>2. r \notin CreateRequests
  BY ChangeAsked
<1>3. r \notin UpdateRequests
  <2>1. r.rpc \notin {"UpdateVm", "SetVmDesiredState", "SetWorkloadDesiredState"}
    BY DEF DeleteRequests, DeleteVmRequests, DeleteWorkloadRequests, DeleteNetworkRequests,
       DeleteSecurityGroupRequests, DetachSecurityGroupRequests, DeleteSshKeyRequests
  <2> QED BY <2>1, UpdateCases
<1>4. r \in Deleting(o)
  BY <1>1, <1>2, <1>3, CreateRequestTyped, UpdateTyped DEF Creating, Updating
<1> QED BY <1>1, <1>4, DeletionBy DEF Deleting

\* No id comes to belong to another resource.
LEMMA OwnersMove ==
    ASSUME TypeOK, Tables, Separate, [Next]_vars
    PROVE  SameOwners(db, db') /\ db.issued \subseteq db'.issued
<1>1. ASSUME NEW next, NothingNew(db, next)
      PROVE  SameOwners(db, next)
  BY <1>1 DEF NothingNew, VmKept, WorkloadKept, SameOwners
<1>2. ASSUME NEW r \in Requests, Asked(r), NEW out \in Serve(db, r), db' = out.db
      PROVE  SameOwners(db, db')
  <2>1. CASE r \in CreateRequests
    <3>1. r.by \in Objs
      BY <2>1 DEF CreateRequests, CreateVmRequests, CreateWorkloadRequests,
         CreateNetworkRequests, CreateSecurityGroupRequests,
         AttachSecurityGroupRequests, CreateSshKeyRequests
    <3> QED BY <1>2, <2>1, <3>1, CreationOwners DEF Tables
  <2>2. CASE r \in UpdateRequests \cup DeleteRequests
    BY <1>1, <1>2, <2>2, ChangeCoherent DEF Tables, Sane
  <2> QED BY <2>1, <2>2 DEF Requests
<1>3. ASSUME db' \in Interference(db) \cup Failures(db)
      PROVE  SameOwners(db, db')
  <2>1. db \in Databases /\ Coherent(db)
    BY DEF Tables, Sane
  <2>2. NothingNew(db, db')
    BY <1>3, <2>1, WorldCoherent
  <2> QED BY <1>1, <2>2
<1>4. ASSUME db' = db
      PROVE  SameOwners(db, db')
  BY <1>4 DEF SameOwners
<1>5. SameOwners(db, db')
  BY <1>2, <1>3, <1>4, EveryTablesMove DEF TablesMove
<1> QED BY <1>5, TablesKept DEF NoReturn

\* Names stay own when nothing is renamed and what is being deleted stays as it is.
LEMMA NamesStay ==
    ASSUME OwnNames, team' = team, SameOwners(db, db'), db.issued \subseteq db'.issued,
           \A p \in team : /\ cr'[p].ext = cr[p].ext
                           /\ cr[p].deleting => cr'[p] = cr[p],
           \A r \in (stray' \ stray) \cap DeleteRequests :
               r.by \in team /\ r \in Deleting(r.by)
    PROVE  OwnNames'
<1>1. ASSUME NEW p \in team, HasId(p)
      PROVE  /\ cr'[p].ext \notin Ids \ db'.issued
             /\ \A x \in db'.vms \cup db'.workloads : x.id = cr'[p].ext => x.by = p
  <2>1. /\ cr[p].ext \notin Ids \ db.issued
        /\ \A x \in db.vms \cup db.workloads : x.id = cr[p].ext => x.by = p
    BY <1>1 DEF OwnNames
  <2> QED BY <2>1 DEF SameOwners
<1>2. ASSUME NEW p \in team, Named(p)
      PROVE  \/ cr'[p].ext = MetaName[p]
             \/ \E c \in CreationsOf(p) : cr'[p].ext = c.name
  BY <1>2 DEF OwnNames
<1>3. ASSUME NEW r \in stray' \cap DeleteRequests
      PROVE  r.by \in team /\ r \in Deleting(r.by)'
  <2>1. r.by \in team /\ r \in Deleting(r.by)
    BY DEF OwnNames
  <2>2. cr'[r.by] = cr[r.by]
    BY <2>1 DEF Deleting
  <2> QED BY <2>1, <2>2 DEF Deleting
<1> QED BY <1>1, <1>2, <1>3 DEF OwnNames, HasId, Named

\* The name a creation leaves is that of what it has made, or what it asked for.
LEMMA CreationKeepsNames ==
    ASSUME TypeOK, Tables, Separate, OwnNames, NEW o \in team, CreateAnswered(o),
           Tables', SameOwners(db, db'), db.issued \subseteq db'.issued
    PROVE  OwnNames'
<1>1. PICK r \in Creating(o) : \E out \in Serve(db, r) :
          /\ db' = out.db
          /\ IF out.answer.code = "OK"
             THEN /\ cr' = [cr EXCEPT ![o].ext = CreatedName(o, cr[o], out.answer)]
                  /\ made' = made \cup {o}
             ELSE UNCHANGED <<cr, made>>
  BY DEF CreateAnswered
<1>2. PICK out \in Serve(db, r) :
          /\ db' = out.db
          /\ IF out.answer.code = "OK"
             THEN /\ cr' = [cr EXCEPT ![o].ext = CreatedName(o, cr[o], out.answer)]
                  /\ made' = made \cup {o}
             ELSE UNCHANGED <<cr, made>>
  BY <1>1
<1>3. team' = team /\ stray' = stray
  BY DEF CreateAnswered
<1>4. CASE out.answer.code # "OK"
  BY <1>2, <1>3, <1>4, NamesStay
<1>5. CASE out.answer.code = "OK"
  <2> DEFINE name == CreatedName(o, cr[o], out.answer)
  <2>1. cr' = [cr EXCEPT ![o].ext = name]
    BY <1>2, <1>5
  <2>2. cr[o] \in Copies(o) /\ DOMAIN cr = team
    BY DEF TypeOK
  <2>3. /\ o \in Objs /\ ~ cr[o].deleting /\ r = createRequest(o, cr[o].spec)
        /\ r \in CreationsOf(o) /\ r.by = o
    BY <2>2, TeamAssumption, CreationFields DEF TypeOK, Creating, CreationsOf, Copies
  <2> HIDE DEF name
  <2>4. /\ cr'[o].ext = name
        /\ \A p \in team \ {o} : cr'[p] = cr[p]
    BY <2>1, <2>2 DEF Copies
  <2>5. ASSUME HasId(o)
        PROVE  /\ name \in db'.issued
               /\ \A x \in db'.vms \cup db'.workloads : x.id = name => x.by = o
    <3>1. CASE KindOf[o] = "VirtualMachine"
      <4>1. VmRow(r, name) \in db'.vms
        BY <1>2, <3>1, VmCreated DEF name
      <4>2. VmRow(r, name).id = name /\ VmRow(r, name).by = o
        BY <2>3 DEF VmRow
      <4>3. Coherent(db)'
        BY DEF Tables, Sane
      <4> QED BY <4>1, <4>2, <4>3 DEF Coherent
    <3>2. CASE KindOf[o] = "Workload"
      <4>1. WorkloadRow(r, name) \in db'.workloads
        BY <1>2, <1>5, <3>2, WorkloadCreated DEF name
      <4>2. WorkloadRow(r, name).id = name /\ WorkloadRow(r, name).by = o
        BY <2>3 DEF WorkloadRow
      <4>3. Coherent(db)'
        BY DEF Tables, Sane
      <4> QED BY <4>1, <4>2, <4>3 DEF Coherent
    <3> QED BY <2>5, <3>1, <3>2 DEF HasId
  <2>6. ASSUME Named(o)
        PROVE  \E c \in CreationsOf(o) : name = c.name
    BY <2>3, <2>6, NameCreated DEF name, Named
  <2>7. ASSUME NEW p \in team, HasId(p)
        PROVE  /\ cr'[p].ext \notin Ids \ db'.issued
               /\ \A x \in db'.vms \cup db'.workloads : x.id = cr'[p].ext => x.by = p
    <3>1. CASE p = o
      BY <2>4, <2>5, <2>7, <3>1
    <3>2. CASE p # o
      <4>1. /\ cr[p].ext \notin Ids \ db.issued
            /\ \A x \in db.vms \cup db.workloads : x.id = cr[p].ext => x.by = p
        BY <2>7 DEF OwnNames
      <4> QED BY <2>4, <3>2, <4>1 DEF SameOwners
    <3> QED BY <3>1, <3>2
  <2>8. ASSUME NEW p \in team, Named(p)
        PROVE  \/ cr'[p].ext = MetaName[p]
               \/ \E c \in CreationsOf(p) : cr'[p].ext = c.name
    BY <2>4, <2>6, <2>8 DEF OwnNames
  <2>9. ASSUME NEW d \in stray' \cap DeleteRequests
        PROVE  d.by \in team /\ d \in Deleting(d.by)'
    <3>1. d.by \in team /\ d \in Deleting(d.by)
      BY <1>3 DEF OwnNames
    <3>2. cr'[d.by] = cr[d.by]
      BY <2>3, <2>4, <3>1 DEF Deleting
    <3> QED BY <3>1, <3>2 DEF Deleting
  <2> QED BY <1>3, <2>7, <2>8, <2>9 DEF OwnNames, HasId, Named
<1> QED BY <1>4, <1>5

\* Every step keeps names from leading to what is another resource's.
LEMMA NamesKept ==
    ASSUME TypeOK, Tables, Separate, OwnNames, [Next]_vars
    PROVE  OwnNames'
<1>1. SameOwners(db, db') /\ db.issued \subseteq db'.issued
  BY OwnersMove
<1>2. ASSUME UNCHANGED <<team, cr>>, stray' \subseteq stray
      PROVE  OwnNames'
  BY <1>1, <1>2, NamesStay
<1>3. ASSUME NEW o \in team, Edit(o) \/ MarkDeleted(o)
      PROVE  OwnNames'
  <2>1. \A p \in team : /\ cr'[p].ext = cr[p].ext
                        /\ cr[p].deleting => cr'[p] = cr[p]
    BY <1>3 DEF Edit, MarkDeleted, UserStore, TypeOK, Copies
  <2> QED BY <1>1, <1>3, <2>1, NamesStay DEF Edit, MarkDeleted, UserStore
<1>4. ASSUME NEW o \in team, Unanswered(o)
      PROVE  OwnNames'
  <2>1. PICK r \in Creating(o) \cup Updating(o) \cup Deleting(o) :
           UNCHANGED stray \/ stray' = stray \cup {r}
    BY <1>4 DEF Unanswered
  <2>2. UNCHANGED <<team, cr>>
    BY <1>4 DEF Unanswered
  <2>3. \A d \in (stray' \ stray) \cap DeleteRequests : d.by \in team /\ d \in Deleting(d.by)
    BY <2>1, DeletionOfDelete
  <2> QED BY <1>1, <2>2, <2>3, NamesStay
<1>5. ASSUME NEW o \in team, CreateAnswered(o)
      PROVE  OwnNames'
  BY <1>1, <1>5, CreationKeepsNames, TablesKept
<1> QED BY <1>2, <1>3, <1>4, <1>5 DEF Next, ObserveFound, WriteStatus, LoseStatus,
       CreateRejected, UpdateAnswered, DeleteAnswered, LateEffect, Drift, vars

\* As long as resources are kept apart, their names are their own: in every
\* behaviour, with late creations and deletions.
THEOREM NamesAreOwn ==
    ASSUME Separate
    PROVE  Spec => []OwnNames
<1>1. Init => OwnNames
  <2> SUFFICES ASSUME Init PROVE OwnNames
    OBVIOUS
  <2>1. \A p \in team : p \in Objs /\ cr[p].ext = MetaName[p]
    BY TeamAssumption DEF Init, Initialized
  <2>2. db.vms = {} /\ db.workloads = {} /\ stray = {}
    BY DEF Init, EmptyDatabase
  <2>3. \A p \in team : HasId(p) => cr[p].ext \notin Ids
    BY <2>1 DEF Separate
  <2> QED BY <2>1, <2>2, <2>3 DEF OwnNames
<1>2. TypeOK /\ Tables /\ OwnNames /\ [Next]_vars => OwnNames'
  BY NamesKept
<1> QED BY <1>1, <1>2, ContractTypeCorrect, ContractTables, PTL DEF Spec

\* The group of an attachment that goes with it is one somebody deletes.
TakenWithGroup(o) ==
    /\ \E a \in Owned(db, o) \cap db.attachments :
          a.group \notin {g.name : g \in db'.groups}
    /\ \E p \in team : KindOf[p] = "SecurityGroup" /\ cr[p].deleting

\* A call takes away the last thing of a resource only when that one deletes it, or
\* with its group.
LEMMA CallSpares ==
    ASSUME TypeOK, Tables, Separate, OwnNames, NEW r \in Requests, Asked(r),
           r \in DeleteRequests => r.by \in team /\ r \in Deleting(r.by),
           NEW out \in Serve(db, r), db' = out.db,
           NEW o \in team, Owned(db, o) # {}, Owned(db', o) = {}
    PROVE  cr[o].deleting \/ TakenWithGroup(o)
<1>1. CASE r \in CreateRequests
  <2>1. r.by \in Objs
    BY <1>1 DEF CreateRequests, CreateVmRequests, CreateWorkloadRequests,
       CreateNetworkRequests, CreateSecurityGroupRequests,
       AttachSecurityGroupRequests, CreateSshKeyRequests
  <2> QED BY <1>1, <2>1, CreationOwners DEF Tables
<1>2. CASE r \in UpdateRequests
  BY <1>2, UpdateOwners DEF TypeOK
<1>3. CASE r \in DeleteRequests
  <2>1. r.by \in team /\ r \in Deleting(r.by) /\ cr[r.by].deleting
    BY <1>3 DEF Deleting
  <2>2. CASE r.by = o
    BY <2>1, <2>2
  <2>3. CASE r.by # o
    <3>1. PICK row : row \in Owned(db, o)
      OBVIOUS
    <3>2. /\ KindOf[r.by] = "SecurityGroup"
          /\ row \in db.attachments
          /\ row.group \notin {g.name : g \in db'.groups}
      BY <2>1, <2>3, <3>1, DeletionSpares
    <3> QED BY <2>1, <3>1, <3>2 DEF TakenWithGroup
  <2> QED BY <2>2, <2>3
<1> QED BY <1>1, <1>2, <1>3 DEF Requests

\* In a step of any kind there is one more reason: somebody from outside.
LEMMA StepSpares ==
    ASSUME TypeOK, Tables, Separate, OwnNames, Next, NEW o \in team,
           Owned(db, o) # {}, Owned(db', o) = {}
    PROVE  \/ cr[o].deleting
           \/ budget'.drift # budget.drift
           \/ TakenWithGroup(o)
<1>1. db' # db
  OBVIOUS
<1>2. ASSUME NEW p \in team, NEW r \in Creating(p) \cup Updating(p) \cup Deleting(p),
             NEW out \in Serve(db, r), db' = out.db
      PROVE  cr[o].deleting \/ TakenWithGroup(o)
  <2>1. r \in Requests /\ Asked(r)
    BY CallsAsked
  <2>2. r \in DeleteRequests => r.by \in team /\ r \in Deleting(r.by)
    BY DeletionOfDelete
  <2> QED BY <1>2, <2>1, <2>2, CallSpares
<1>3. ASSUME NEW p \in team, CreateAnswered(p) \/ UpdateAnswered(p) \/ DeleteAnswered(p)
      PROVE  cr[o].deleting \/ TakenWithGroup(o)
  <2>1. CASE CreateAnswered(p)
    BY <1>2, <2>1 DEF CreateAnswered
  <2>2. CASE UpdateAnswered(p)
    BY <1>2, <2>2 DEF UpdateAnswered
  <2>3. CASE DeleteAnswered(p)
    BY <1>2, <2>3 DEF DeleteAnswered
  <2> QED BY <1>3, <2>1, <2>2, <2>3
<1>4. ASSUME NEW p \in team, Unanswered(p)
      PROVE  cr[o].deleting \/ TakenWithGroup(o)
  BY <1>1, <1>2, <1>4 DEF Unanswered, Unnoticed
<1>5. CASE LateEffect
  <2>1. PICK r \in stray : Unnoticed(r)
    BY <1>5 DEF LateEffect
  <2>2. r \in Requests /\ Asked(r)
    BY DEF TypeOK, Tables
  <2>3. r \in DeleteRequests => r.by \in team /\ r \in Deleting(r.by)
    BY DEF OwnNames
  <2> QED BY <2>1, <2>2, <2>3, CallSpares DEF Unnoticed
<1>6. CASE Drift
  <2>1. budget["drift"] \in Nat /\ budget' = [budget EXCEPT !["drift"] = @ - 1]
    BY <1>6 DEF Drift, Spend, TypeOK
  <2>2. budget'["drift"] = budget["drift"] - 1
    BY <2>1 DEF TypeOK
  <2> QED BY <2>1, <2>2
<1> QED BY <1>1, <1>3, <1>4, <1>5, <1>6 DEF Next, ObserveFound, WriteStatus, LoseStatus,
       CreateRejected, Edit, MarkDeleted, UserStore

\* Resources that are kept apart spare each other: what one owns disappears by its own
\* deletion, by a removal from outside, or with its security group.
THEOREM DeletionsSpareOthers ==
    ASSUME Separate
    PROVE  Spec => DeleteSpares
<1>1. TypeOK /\ Tables /\ OwnNames /\ [Next]_vars =>
        [\A o \in team : Owned(db, o) # {} /\ Owned(db', o) = {} =>
          \/ cr[o].deleting
          \/ budget'.drift # budget.drift
          \/ \E a \in Owned(db, o) \cap db.attachments :
                a.group \notin {g.name : g \in db'.groups}]_vars
  BY StepSpares DEF TakenWithGroup
<1> QED BY <1>1, NamesAreOwn, ContractTypeCorrect, ContractTables, PTL
       DEF Spec, DeleteSpares

\* Deletion marks stay, and the budget only shrinks.
LEMMA MarksStay ==
    ASSUME TypeOK, [Next]_vars
    PROVE  /\ team' = team
           /\ \A p \in team : cr[p].deleting => cr'[p].deleting
           /\ budget'["drift"] \in Nat /\ budget'["drift"] <= budget["drift"]
<1>1. ASSUME UNCHANGED <<team, cr>>
      PROVE  team' = team /\ \A p \in team : cr[p].deleting => cr'[p].deleting
  BY <1>1
<1>2. ASSUME NEW p \in team, Edit(p) \/ MarkDeleted(p)
      PROVE  team' = team /\ \A q \in team : cr[q].deleting => cr'[q].deleting
  BY <1>2 DEF Edit, MarkDeleted, UserStore, TypeOK, Copies
<1>3. ASSUME NEW o \in team, CreateAnswered(o)
      PROVE  team' = team /\ \A q \in team : cr[q].deleting => cr'[q].deleting
  <2>1. PICK name : cr' = cr \/ cr' = [cr EXCEPT ![o].ext = name]
    BY <1>3 DEF CreateAnswered
  <2> QED BY <1>3, <2>1 DEF CreateAnswered, TypeOK, Copies
<1>4. team' = team /\ \A p \in team : cr[p].deleting => cr'[p].deleting
  BY <1>1, <1>2, <1>3 DEF Next, ObserveFound, WriteStatus, LoseStatus, CreateRejected,
     UpdateAnswered, DeleteAnswered, Unanswered, LateEffect, Drift, vars
<1>5. budget' = budget \/ \E kind \in {"edit", "fault", "drift"} : Spend(kind)
  BY DEF Next, ObserveFound, WriteStatus, LoseStatus, CreateRejected, CreateAnswered,
     UpdateAnswered, DeleteAnswered, Unanswered, Edit, MarkDeleted, LateEffect, Drift,
     vars
<1>6. budget["drift"] \in Nat
  BY DEF TypeOK
<1>7. budget'["drift"] \in Nat /\ budget'["drift"] <= budget["drift"]
  <2>1. CASE budget' = budget
    BY <1>6, <2>1
  <2>2. ASSUME NEW kind \in {"edit", "fault", "drift"}, Spend(kind)
        PROVE  budget'["drift"] \in Nat /\ budget'["drift"] <= budget["drift"]
    BY <1>6, <2>2 DEF Spend, TypeOK
  <2> QED BY <1>5, <2>1, <2>2
<1> QED BY <1>4, <1>7

\* Update follows an observation that found the resource.
LEMMA UpdatedExists ==
    ASSUME NEW o \in Objs, NEW r \in Updating(o)
    PROVE  Exists(o)
<1>1. ~ cr[o].deleting /\ "drifted" \in Seen(o) /\ r \in Update(o, cr[o])
  BY DEF Updating
<1>2. KindOf[o] # "Network"
  BY <1>1 DEF Update, Net!Update
<1>3. \E x : Seen(o) = {x}
  BY <1>2, KindAssumption DEF Seen, Observe, Kinds
<1> QED BY <1>1, <1>3 DEF Exists

\* The status of o, or one that waits to be written, says it is available.
SaidReady(o) ==
    status[o].ready = "Available" \/ \E s \in left[o] : s.ready = "Available"

\* What comes to be called available was seen, or has just been made.
LEMMA ComesReady ==
    ASSUME TypeOK, Tables, Separate, OwnNames, Next, NEW o \in team,
           SaidReady(o)', ~ SaidReady(o)
    PROVE  Owned(db, o) # {} \/ Owned(db', o) # {}
<1>1. PICK s \in left'[o] : s.ready = "Available"
  BY ShownWasLeft DEF SaidReady
<1>0. s \notin left[o]
  BY <1>1 DEF SaidReady
<1>2. ASSUME NEW p \in team, NEW t, Publish(p, t)
      PROVE  p = o /\ s = t
  BY <1>0, <1>1, <1>2 DEF Publish, TypeOK
<1>3. /\ o \in Objs /\ cr[o].ext \in STRING /\ cr[o].spec \in SpecsOf[o]
      /\ Creation(status[o]).ready # "Available"
      /\ Deletion(status[o]).ready # "Available"
  <2>1. status[o] \in Statuses
    BY DEF TypeOK
  <2>2. o \in Objs /\ cr[o].ext \in STRING /\ cr[o].spec \in SpecsOf[o]
    BY TeamAssumption DEF TypeOK, Copies
  <2> QED BY <2>1, <2>2 DEF Creation, Deletion, Statuses
<1>4. ASSUME NEW p \in team, ObserveFound(p)
      PROVE  Owned(db, o) # {}
  BY <1>2, <1>4, FoundIsOwn DEF ObserveFound
<1>5. ASSUME NEW p \in team, CreateRejected(p)
      PROVE  FALSE
  BY <1>1, <1>2, <1>3, <1>5 DEF CreateRejected
<1>6. ASSUME NEW p \in team, CreateAnswered(p)
      PROVE  Owned(db', o) # {}
  <2>1. PICK r \in Creating(p) : \E out \in Serve(db, r) :
           db' = out.db /\ Publish(p, Created(p, status[p], out.answer))
    BY <1>6 DEF CreateAnswered
  <2>2. PICK out \in Serve(db, r) :
           db' = out.db /\ Publish(p, Created(p, status[p], out.answer))
    BY <2>1
  <2>3. p = o /\ s = Created(o, status[o], out.answer)
    BY <1>2, <2>2
  <2>4. out.answer.code = "OK"
    BY <1>1, <1>3, <2>3, Zenon DEF Created
  <2>5. r = createRequest(o, cr[o].spec)
    BY <2>3 DEF Creating
  <2>6. r \in CreateRequests /\ r.by = o /\ Asked(r)
    BY <1>3, <2>3, <2>5, CreateRequestTyped, CreationFields, CallsAsked
  <2> QED BY <1>3, <2>2, <2>4, <2>6, CreationOwners DEF Tables
<1>7. ASSUME NEW p \in team, UpdateAnswered(p)
      PROVE  Owned(db, o) # {}
  <2>1. p = o
    BY <1>2, <1>7 DEF UpdateAnswered
  <2>2. Exists(o)
    BY <1>3, <1>7, <2>1, UpdatedExists DEF UpdateAnswered
  <2> QED BY <2>2, FoundIsOwn
<1>8. ASSUME NEW p \in team, DeleteAnswered(p)
      PROVE  FALSE
  BY <1>1, <1>2, <1>3, <1>8 DEF DeleteAnswered
<1>9. ASSUME NEW p \in team, Unanswered(p)
      PROVE  Owned(db, o) # {}
  <2>1. PICK r \in Creating(p) \cup Updating(p) \cup Deleting(p) :
           Publish(p, Unsettled(p, r))
    BY <1>9 DEF Unanswered
  <2>2. p = o /\ s = Unsettled(o, r)
    BY <1>2, <2>1
  <2>3. r \notin CreateRequests /\ r \notin DeleteRequests
    BY <1>1, <1>3, <2>2, Zenon DEF Unsettled
  <2>4. r \in Updating(o)
    BY <1>3, <2>1, <2>2, <2>3, CreateRequestTyped, DeleteTyped DEF Creating, Deleting
  <2>5. Exists(o)
    BY <1>3, <2>4, UpdatedExists
  <2> QED BY <2>5, FoundIsOwn
<1>10. ASSUME left'[o] \subseteq left[o]
       PROVE  FALSE
  BY <1>0, <1>10
<1>11. ASSUME NEW p \in team, \/ WriteStatus(p) \/ LoseStatus(p)
                              \/ Edit(p) \/ MarkDeleted(p)
       PROVE  FALSE
  BY <1>10, <1>11 DEF WriteStatus, LoseStatus, Edit, MarkDeleted, UserStore, TypeOK
<1>12. CASE LateEffect \/ Drift
  BY <1>10, <1>12 DEF LateEffect, Drift
<1> QED BY <1>4, <1>5, <1>6, <1>7, <1>8, <1>9, <1>11, <1>12 DEF Next

\* Not only what is shown: what waits to be written is backed as well.
SaidIsBacked ==
    \A o \in team :
        /\ SaidReady(o)
        /\ ~ cr[o].deleting
        /\ budget["drift"] = Budget["drift"]
        /\ ~ LosesItsGroup(o)
        => Owned(db, o) # {}

\* What is shown as ready is backed by something at the kcore controller, as long as
\* resources are kept apart (Separate): through creations that fail or come late and
\* status writes that come late or are lost.
THEOREM ReadyMeansBacked ==
    ASSUME Separate
    PROVE  Spec => []ReadyIsBacked
<1> DEFINE Spent == budget["drift"] <= Budget["drift"]
<1>1. Init => SaidIsBacked /\ Spent
  <2> SUFFICES ASSUME Init PROVE SaidIsBacked /\ Spent
    OBVIOUS
  <2>1. \A o \in team : ~ SaidReady(o)
    BY DEF Init, SaidReady
  <2>2. Spent
    <3>1. budget = Budget
      BY Zenon DEF Init
    <3> QED BY <3>1, BudgetAssumption
  <2> QED BY <2>1, <2>2 DEF SaidIsBacked
<1>2. TypeOK /\ Tables /\ OwnNames /\ SaidIsBacked /\ Spent /\ [Next]_vars =>
        (SaidIsBacked /\ Spent)'
  <2> SUFFICES ASSUME TypeOK, Tables, OwnNames, SaidIsBacked, Spent, [Next]_vars
               PROVE  SaidIsBacked' /\ Spent'
    OBVIOUS
  <2>1. /\ team' = team
        /\ \A p \in team : cr[p].deleting => cr'[p].deleting
        /\ budget'["drift"] \in Nat /\ budget'["drift"] <= budget["drift"]
    BY MarksStay
  <2>2. budget["drift"] \in Nat /\ Budget["drift"] \in Nat
    BY BudgetAssumption DEF TypeOK
  <2>3. Spent'
    BY <2>1, <2>2
  <2>4. ASSUME NEW o \in team, SaidReady(o)', ~ cr'[o].deleting,
               budget'["drift"] = Budget["drift"], ~ LosesItsGroup(o)', Owned(db', o) = {}
        PROVE  FALSE
    <3>1. /\ ~ cr[o].deleting
          /\ budget["drift"] = Budget["drift"] /\ budget'["drift"] = budget["drift"]
          /\ ~ LosesItsGroup(o)
      BY <2>1, <2>2, <2>4 DEF LosesItsGroup
    <3>2. CASE UNCHANGED vars
      <4>1. SaidReady(o) /\ Owned(db, o) = {}
        BY <2>4, <3>2 DEF SaidReady, vars
      <4> QED BY <3>1, <4>1 DEF SaidIsBacked
    <3>3. CASE Next
      <4>1. Owned(db, o) # {}
        <5>1. CASE SaidReady(o)
          BY <3>1, <5>1 DEF SaidIsBacked
        <5>2. CASE ~ SaidReady(o)
          BY <2>4, <3>3, <5>2, ComesReady
        <5> QED BY <5>1, <5>2
      <4>2. TakenWithGroup(o)
        BY <2>4, <3>1, <3>3, <4>1, StepSpares
      <4>3. KindOf[o] = "SecurityGroupAttachment"
        BY <4>2, RowKinds DEF TakenWithGroup, Owned, Tables
      <4> QED BY <3>1, <4>2, <4>3 DEF TakenWithGroup, LosesItsGroup
    <3> QED BY <3>2, <3>3
  <2>5. SaidIsBacked'
    BY <2>1, <2>4 DEF SaidIsBacked
  <2> QED BY <2>3, <2>5
<1>3. SaidIsBacked => ReadyIsBacked
  BY DEF SaidIsBacked, SaidReady, ReadyIsBacked
<1> QED BY <1>1, <1>2, <1>3, NamesAreOwn, ContractTypeCorrect, ContractTables, PTL
       DEF Spec

\* What was made, some version of its spec asks for.
MadeIsAsked == \A o \in made \cup gone : CreationsOf(o) # {}

\* No creation is acknowledged to a resource whose spec Create rejects in every
\* version of it, and no deletion counts as one of what was created.
THEOREM WhatIsMadeIsAsked == Spec => []MadeIsAsked
<1>1. Init => MadeIsAsked
  BY DEF Init, MadeIsAsked
<1>2. TypeOK /\ MadeIsAsked /\ [Next]_vars => MadeIsAsked'
  <2> SUFFICES ASSUME TypeOK, MadeIsAsked, [Next]_vars PROVE MadeIsAsked'
    OBVIOUS
  <2>1. ASSUME NEW o \in team, CreateAnswered(o)
        PROVE  MadeIsAsked'
    <3>1. cr[o].spec \in SpecsOf[o]
      BY DEF TypeOK, Copies
    <3>2. createRequest(o, cr[o].spec) \in CreationsOf(o)
      BY <2>1, <3>1 DEF CreateAnswered, Creating, CreationsOf
    <3>3. made' \subseteq made \cup {o} /\ gone' = gone
      BY <2>1 DEF CreateAnswered
    <3> QED BY <3>2, <3>3 DEF MadeIsAsked
  <2>2. ASSUME made' \subseteq made, gone' \subseteq gone \cup made
        PROVE  MadeIsAsked'
    BY <2>2 DEF MadeIsAsked
  <2>3. ASSUME NEW o \in team, DeleteAnswered(o)
        PROVE  MadeIsAsked'
    BY <2>2, <2>3 DEF DeleteAnswered
  <2> QED BY <2>1, <2>2, <2>3 DEF Next, ObserveFound, WriteStatus, LoseStatus,
         CreateRejected, UpdateAnswered, Unanswered, Unnoticed, Edit, MarkDeleted,
         UserStore, LateEffect, Drift, vars
<1> QED BY <1>1, <1>2, ContractTypeCorrect, PTL DEF Spec

\* A Delete RPC that finds nothing says so and changes nothing.
LEMMA NothingRemoved ==
    ASSUME NEW next, NEW out \in Removed(db, {}, next)
    PROVE  out.db = db /\ out.answer.code = "NotFound"
BY DEF Removed, Outcome, Error

\* The calls of Delete find nothing when nothing is owned.
LEMMA DeletionRepeated ==
    ASSUME TypeOK, Tables, Separate, Steady, OwnNames, NEW o \in team, Owned(db, o) = {},
           CreationsOf(o) # {}, NEW r \in Delete(o, cr[o]), NEW out \in Serve(db, r)
    PROVE  out.db = db /\ DeleteDone(o, out.answer)
<1> DEFINE empty == ""
<1>1. /\ o \in Objs /\ cr[o].spec \in SpecsOf[o]
      /\ Named(o) => cr[o].ext # empty
  BY NameIsOwn, TeamAssumption DEF TypeOK, Copies
<1>2. /\ \A x \in db.vms : x.by # o
      /\ \A x \in db.workloads : x.by # o
      /\ \A x \in db.networks : x.by # o
      /\ \A x \in db.groups : x.by # o
      /\ \A x \in db.attachments : x.by # o
      /\ \A x \in db.keys : x.by # o
  BY DEF Owned
<1>3. SUFFICES out.db = db /\ out.answer.code = "NotFound"
  BY <1>1, KindAssumption DEF DeleteDone, Kinds, VM!DeleteDone, WL!DeleteDone,
     Net!DeleteDone, SG!DeleteDone, SGA!DeleteDone, Key!DeleteDone
<1>4. CASE KindOf[o] = "VirtualMachine"
  <2> DEFINE hit == {v \in db.vms : v.id = r.id}
  <2>1. r = [rpc |-> "DeleteVm", by |-> o, id |-> cr[o].ext]
    BY <1>1, <1>4, DeletionCall
  <2>2. PICK next : out \in Removed(db, hit, next)
    BY <2>1 DEF Serve, DeleteVm
  <2>3. hit = {}
    BY <1>2, <1>4, <2>1, NameIsOwn
  <2> QED BY <2>2, <2>3, NothingRemoved
<1>5. CASE KindOf[o] = "Workload"
  <2> DEFINE hit == {l \in db.workloads : l.kind = r.kind /\ l.id = r.id}
  <2>1. r = [rpc |-> "DeleteWorkload", by |-> o,
             kind |-> WorkloadKind(cr[o].spec.kind), id |-> cr[o].ext]
    BY <1>1, <1>5, DeletionCall
  <2>2. r.kind # "UNSPECIFIED"
    <3>1. PICK q : q \in CreationsOf(o)
      OBVIOUS
    <3>2. WorkloadKind(cr[o].spec.kind) = q.kind
      BY <1>1, <1>5, <3>1 DEF Steady
    <3>3. PICK p \in SpecsOf[o] : q = createRequest(o, p) /\ CreateValid(o, p)
      BY <3>1 DEF CreationsOf
    <3>4. q.kind = WL!WorkloadKind(p.kind) /\ WL!WorkloadKind(p.kind) # "UNSPECIFIED"
      BY <1>5, <3>3 DEF createRequest, WL!createRequest, CreateValid, WL!CreateValid
    <3> QED BY <2>1, <3>2, <3>4
  <2>3. PICK next : out \in Removed(db, hit, next)
    <3>1. out \in DeleteWorkload(db, r)
      BY <2>1 DEF Serve
    <3> QED BY <2>2, <3>1, Zenon DEF DeleteWorkload
  <2>4. hit = {}
    BY <1>2, <1>5, <2>1, NameIsOwn
  <2> QED BY <2>3, <2>4, NothingRemoved
<1>6. CASE KindOf[o] = "Network"
  <2> DEFINE hit == {n \in db.networks : n.name = r.name /\ r.node \in {"", n.node}}
  <2>1. r = [rpc |-> "DeleteNetwork", by |-> o, name |-> cr[o].ext,
             node |-> TrimSpace(cr[o].spec.node)]
    BY <1>1, <1>6, DeletionCall DEF Named
  <2>2. hit = {}
    <3>1. r.name = cr[o].ext /\ r.node = TrimSpace(cr[o].spec.node)
      BY <2>1
    <3>2. \A n \in hit : n.by = o /\ n \in db.networks
      BY <1>6, <3>1, NameIsOwn, Zenon
    <3> HIDE DEF hit
    <3> QED BY <1>2, <3>2
  <2>3. PICK next : out \in Removed(db, hit, next)
    <3>1. out \in DeleteNetwork(db, r)
      BY <2>1 DEF Serve
    <3> QED BY <2>2, <3>1, Zenon DEF DeleteNetwork
  <2> HIDE DEF hit
  <2> QED BY <2>2, <2>3, NothingRemoved
<1>7. CASE KindOf[o] = "SecurityGroup"
  <2> DEFINE hit == {g \in db.groups : g.name = r.name}
  <2>1. r = [rpc |-> "DeleteSecurityGroup", by |-> o, name |-> cr[o].ext]
    BY <1>1, <1>7, DeletionCall DEF Named
  <2>2. PICK next : out \in Removed(db, hit, next)
    BY <2>1 DEF Serve, DeleteSecurityGroup
  <2>3. hit = {}
    BY <1>2, <1>7, <2>1, NameIsOwn
  <2> QED BY <2>2, <2>3, NothingRemoved
<1>8. CASE KindOf[o] = "SecurityGroupAttachment"
  <2> DEFINE hit == Addressed(db, r)
  <2>1. LET call == createRequest(o, cr[o].spec)
        IN  /\ r.rpc = "DetachSecurityGroup"
            /\ r.group = call.group /\ r.kind = call.kind
            /\ r.target = call.target /\ r.node = call.node
    BY <1>1, <1>8, DeletionCall
  <2>2. PICK next : out \in Removed(db, hit, next)
    BY <2>1 DEF Serve, DetachSecurityGroup
  <2>3. hit = {}
    <3> DEFINE call == createRequest(o, cr[o].spec)
    <3>1. \A a \in db.attachments :
             a.group = call.group /\ a.kind = call.kind /\ a.target = call.target => a.by = o
      BY <1>8, NameIsOwn, Zenon
    <3>2. r.group = call.group /\ r.kind = call.kind /\ r.target = call.target
      BY <2>1
    <3> HIDE DEF call
    <3> QED BY <1>2, <3>1, <3>2 DEF Addressed
  <2> QED BY <2>2, <2>3, NothingRemoved
<1>9. CASE KindOf[o] = "SSHKey"
  <2> DEFINE hit == {k \in db.keys : k.name = r.name}
  <2>1. r = [rpc |-> "DeleteSshKey", by |-> o, name |-> cr[o].ext]
    BY <1>1, <1>9, DeletionCall DEF Named
  <2>2. PICK next : out \in Removed(db, hit, next)
    BY <2>1 DEF Serve, DeleteSshKey
  <2>3. hit = {}
    BY <1>2, <1>9, <2>1, NameIsOwn
  <2> QED BY <2>2, <2>3, NothingRemoved
<1> QED BY <1>1, <1>4, <1>5, <1>6, <1>7, <1>8, <1>9, KindAssumption DEF Kinds

\* Deletion can be repeated: once it is acknowledged, and nothing is left, another call
\* changes nothing and succeeds.  Resources are kept apart (Separate), and no edit
\* makes the kind of a workload one the kcore controller refuses (Steady).
THEOREM DeletionsAreRepeatable ==
    ASSUME Steady, Separate
    PROVE  Spec => []DeleteIsIdempotent
<1>1. TypeOK /\ Tables /\ OwnNames /\ MadeIsAsked => DeleteIsIdempotent
  <2> SUFFICES ASSUME TypeOK, Tables, OwnNames, MadeIsAsked, NEW o \in gone,
                      Owned(db, o) = {}, NEW r \in Delete(o, cr[o]),
                      NEW out \in Serve(db, r)
               PROVE  out.db = db /\ DeleteDone(o, out.answer)
    BY DEF DeleteIsIdempotent
  <2>1. o \in team /\ CreationsOf(o) # {}
    BY DEF TypeOK, MadeIsAsked
  <2> QED BY <2>1, DeletionRepeated
<1> QED BY <1>1, NamesAreOwn, WhatIsMadeIsAsked, ContractTypeCorrect, ContractTables,
       PTL

=============================================================================

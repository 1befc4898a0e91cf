---------------------------- MODULE OwnershipProofs ----------------------------
(***************************************************************************)
(* Whose the VMs and workloads of the kcore controller are: a resource     *)
(* does not turn away from the one on record (NeverForgets), and what is   *)
(* left behind is flagged (LossIsFlagged), for any number of resources,    *)
(* workers, processes and ids and any budget.                              *)
(***************************************************************************)
EXTENDS ManagedReconcileProofs

\* The tables are sane and no call on its way asks for what no spec asks for.
Tables == Sane(db) /\ \A r \in stray : Asked(r)

\* A step of the tables: a call takes effect, is lost on its way, or the world
\* interferes.
LEMMA EffectKeeps ==
    ASSUME Tables, NEW r \in Requests, Asked(r), NEW out \in Serve(db, r),
           db' = out.db, stray' \subseteq stray
    PROVE  Tables' /\ NoReturn(db, db')
<1>1. Sane(out.db) /\ NoReturn(db, out.db)
  BY ServeSane DEF Tables
<1>2. Sane(db') /\ NoReturn(db, db')
  BY <1>1
<1> QED BY <1>2 DEF Tables

\* Nothing happens to the tables, and a call may be sent on its way.
LEMMA NoEffectKeeps ==
    ASSUME Tables, db' = db, \A r \in stray' : r \in stray \/ Asked(r)
    PROVE  Tables' /\ NoReturn(db, db')
<1>1. Sane(db')
  BY DEF Tables
<1> QED BY <1>1 DEF Tables, NoReturn

\* A call without an answer took effect, will, or never does.
LEMMA UnansweredKeeps ==
    ASSUME Tables, NEW r \in Requests, Asked(r), Unanswered(r)
    PROVE  Tables' /\ NoReturn(db, db')
<1>1. CASE (\E out \in Serve(db, r) : db' = out.db) /\ UNCHANGED stray
  BY <1>1, EffectKeeps
<1>2. CASE stray' = stray \cup {r} /\ UNCHANGED db
  BY <1>2, NoEffectKeeps
<1>3. CASE UNCHANGED <<db, stray>>
  BY <1>3, NoEffectKeeps
<1> QED BY <1>1, <1>2, <1>3 DEF Unanswered

\* Create's call is asked for by the spec in the worker's copy.
LEMMA CreateCall ==
    ASSUME IInv, NEW w \in Workers, At(w, "create"),
           CreateValid(work[w].obj, work[w].cr.spec)
    PROVE  LET r == createRequest(work[w].obj, work[w].cr.spec)
           IN  r \in Requests /\ Asked(r)
<1>1. work[w].obj \in Objs /\ work[w].cr.spec \in SpecsOf[work[w].obj]
  BY Busy DEF IInv, At
<1> QED BY <1>1, CreateRequestTyped, CreationAsked DEF Requests

\* Update's call asks for nothing new.
LEMMA UpdateCall ==
    ASSUME IInv, NEW w \in Workers, At(w, "update"),
           NEW r \in Update(work[w].obj, work[w].cr)
    PROVE  r \in Requests /\ Asked(r)
<1>1. /\ work[w].obj \in Objs /\ work[w].cr.ext \in STRING
      /\ work[w].cr.spec \in SpecsOf[work[w].obj]
  BY Busy DEF IInv, At, Copies
<1>2. r \in UpdateRequests
  BY <1>1, UpdateTyped
<1> QED BY <1>2, ChangeAsked DEF Requests, Asked

\* No step makes the tables insane, and an id that is gone does not come back.
LEMMA TablesKept ==
    ASSUME IInv, Tables, [Next]_vars
    PROVE  Tables' /\ NoReturn(db, db')
<1>1. ASSUME NEW w \in Workers, Step(w)
      PROVE  Tables' /\ NoReturn(db, db')
  <2>1. CASE CreateAnswered(w)
    <3>1. PICK out \in Serve(db, createRequest(work[w].obj, work[w].cr.spec)) :
             db' = out.db
      BY <2>1 DEF CreateAnswered
    <3> QED BY <2>1, <3>1, CreateCall, EffectKeeps DEF CreateAnswered
  <2>2. CASE UpdateAnswered(w)
    <3>1. CASE UNCHANGED db
      BY <2>2, <3>1, NoEffectKeeps DEF UpdateAnswered
    <3>2. CASE \E r \in Update(work[w].obj, work[w].cr) :
                  \E out \in Serve(db, r) : db' = out.db
      BY <2>2, <3>2, UpdateCall, EffectKeeps DEF UpdateAnswered
    <3> QED BY <2>2, <3>1, <3>2 DEF UpdateAnswered
  <2>3. CASE UNCHANGED <<db, stray>>
    BY <2>3, NoEffectKeeps
  <2> QED BY <1>1, <2>1, <2>2, <2>3 DEF Step, Initialize, ObserveExternal,
         AddFinalizer, MarkPending, CreateRejected, RecordCreated, RecordFailed,
         RemoveFinalizer, Conflict
<1>2. ASSUME NEW w \in Workers, Fault(w)
      PROVE  Tables' /\ NoReturn(db, db')
  <2>1. CASE CreateUnanswered(w)
    BY <2>1, CreateCall, UnansweredKeeps DEF CreateUnanswered
  <2>2. CASE UpdateUnanswered(w)
    BY <2>2, UpdateCall, UnansweredKeeps DEF UpdateUnanswered
  <2>3. CASE UNCHANGED <<db, stray>>
    BY <2>3, NoEffectKeeps
  <2> QED BY <1>2, <2>1, <2>2, <2>3 DEF Fault, ObserveFaulty, GiveUp
<1>3. CASE LateEffect
  <2>1. PICK r \in stray : (\E out \in Serve(db, r) : db' = out.db)
                             /\ stray' = stray \ {r}
    BY <1>3 DEF LateEffect
  <2>2. r \in Requests /\ Asked(r)
    BY DEF IInv, RestTyped, Tables
  <2> QED BY <2>1, <2>2, EffectKeeps
<1>4. CASE Drift
  <2>1. db' \in Interference(db) /\ UNCHANGED stray
    BY <1>4 DEF Drift
  <2>2. Sane(db') /\ NoReturn(db, db')
    BY <2>1, WorldSane DEF Tables
  <2> QED BY <2>1, <2>2 DEF Tables
<1>5. CASE UNCHANGED <<db, stray>>
  BY <1>5, NoEffectKeeps
<1> QED BY <1>1, <1>2, <1>3, <1>4, <1>5 DEF Next, Get, User, Apply, Edit,
       MarkDeleted, ClearPending, UserStore, Crash, vars

\* In every behaviour ids and names tell the rows of the kcore controller apart,
\* and each row is what one version of its resource's spec asks for.
THEOREM TablesAreSane == Spec => []Tables
<1>1. Init => Tables
  BY EmptySane DEF Init, Tables
<1>2. IInv /\ Tables /\ [Next]_vars => Tables'
  BY TablesKept
<1> QED BY <1>1, <1>2, Invariance, PTL DEF Spec

-----------------------------------------------------------------------------
(* What becomes of a resource and of a worker in one step                   *)

\* VirtualMachines and Workloads have an id of the kcore controller for name.
HasId(o) == KindOf[o] \in {"VirtualMachine", "Workload"}

\* The ways a resource k becomes n: its external name stays, or is filled in;
\* its creation ends on record, or it starts over.
NameKept(k, n) ==
    /\ n.ext = k.ext /\ n.present = k.present
    /\ n.create \in {k.create, "pending", "none"}

NameFilled(o, k, n) ==
    /\ k.ext = "" /\ n.ext = MetaName[o]
    /\ k.present /\ n.present
    /\ n.create = k.create /\ k.create # "pending"

StartsOver(k, n) == ~ (k.present /\ n.present) /\ n.ext = "" /\ n.create = "none"

Ended(o, k, n) ==
    \E w \in Workers :
        /\ work[w].obj = o
        /\ \/ work[w].phase = "record" /\ n.create = "succeeded"
           \/ work[w].phase = "fail" /\ n.create = "failed"
        /\ work'[w].phase = "idle"
        /\ n.ext = work[w].cr.ext /\ k.present /\ n.present

KubeMove(o) ==
    \/ NameKept(kube[o], kube'[o])
    \/ NameFilled(o, kube[o], kube'[o])
    \/ StartsOver(kube[o], kube'[o])
    \/ Ended(o, kube[o], kube'[o])

\* Nothing but the freshness of a job's copy changes.
SameJob(j, n) == n.phase = j.phase /\ n.obj = j.obj /\ n.cr = j.cr /\ n.obs = j.obs

\* The kcore controller does not have what a reconcile of o looks up.
Missing(o, cr) ==
    /\ KindOf[o] = "VirtualMachine" => ~ \E v \in db.vms : v.id = cr.ext
    /\ KindOf[o] = "Workload" =>
          ~ \E l \in db.workloads : l.id = cr.ext /\ l.kind = WorkloadKind(cr.spec.kind)

\* The ways a job goes on.
Reads(n) == n.phase = "init" /\ n.obj \in Objs /\ n.cr = kube[n.obj]

Names(j, n) ==
    /\ j.phase = "init" /\ n.phase = "observe"
    /\ n.cr.ext \in {j.cr.ext, MetaName[j.obj]}

Looks(j, n) ==
    /\ j.phase = "observe" /\ n.phase \in {"adopt", "finalize"}
    /\ n.cr = j.cr
    /\ HasId(j.obj) /\ n.phase = "adopt" /\ n.obs = "absent" => Missing(j.obj, j.cr)

Adopts(j, n) ==
    /\ j.phase = "adopt" /\ n.phase \in {"pend", "update"}
    /\ n.cr.ext = j.cr.ext
    /\ n.phase = "pend" => j.obs = "absent" /\ n.obs = "absent"

Begins(j, n) ==
    /\ j.phase = "pend" /\ n.phase = "create"
    /\ n.cr.ext = j.cr.ext /\ kube'[j.obj].ext = j.cr.ext

Fails(j, n) == j.phase = "create" /\ n.phase = "fail" /\ n.cr.ext = j.cr.ext

Creates(j, n) ==
    /\ j.phase = "create" /\ n.phase = "record"
    /\ HasId(j.obj) => n.cr.ext \in db'.issued

GoesOn(j, n) ==
    Names(j, n) \/ Looks(j, n) \/ Adopts(j, n) \/ Begins(j, n) \/ Fails(j, n)
      \/ Creates(j, n)

JobMove(w) ==
    \/ SameJob(work[w], work'[w])
    \/ work'[w].phase = "idle"
    \/ Reads(work'[w])
    \/ work'[w].obj = work[w].obj /\ GoesOn(work[w], work'[w])

Moved == (\A o \in Objs : KubeMove(o)) /\ \A w \in Workers : JobMove(w)

\* A resource nobody writes.
LEMMA UnwrittenMove ==
    ASSUME Consistent, NEW o \in Objs, kube'[o] = kube[o]
    PROVE  KubeMove(o)
BY DEF KubeMove, NameKept

\* A job that is only outdated.
LEMMA OutdatedMove ==
    ASSUME Consistent, NEW w \in Workers, NEW o,
           work'[w] = Outdated(w, o) \/ work'[w] = work[w]
    PROVE  JobMove(w)
<1>1. work[w] \in Jobs
  BY DEF Consistent, WorkTyped
<1> QED BY <1>1 DEF JobMove, SameJob, Outdated, Jobs

\* The three ways of writing the variables.
LEMMA StoreMoves ==
    ASSUME Consistent, NEW w \in Workers, NEW o \in Objs, NEW k, NEW next,
           Store(w, o, k, next),
           kube'[o] = k /\ work'[w] = next => KubeMove(o) /\ JobMove(w)
    PROVE  Moved
<1>1. /\ kube' = [kube EXCEPT ![o] = k]
      /\ work' = [v \in Workers |-> IF v = w THEN next ELSE Outdated(v, o)]
  BY DEF Store
<1>2. kube'[o] = k /\ \A x \in Objs \ {o} : kube'[x] = kube[x]
  BY <1>1 DEF Consistent, KubeTyped
<1>3. work'[w] = next /\ \A v \in Workers \ {w} : work'[v] = Outdated(v, o)
  BY <1>1
<1>4. KubeMove(o) /\ JobMove(w)
  BY <1>2, <1>3
<1>5. \A x \in Objs \ {o} : KubeMove(x)
  BY <1>2, UnwrittenMove
<1>6. \A v \in Workers \ {w} : JobMove(v)
  BY <1>3, OutdatedMove
<1> QED BY <1>4, <1>5, <1>6 DEF Moved

\* A step that writes only its worker's own state is the move of that worker.
LEMMA ProceedMoves ==
    ASSUME Consistent, NEW w \in Workers, NEW next, Proceed(w, next),
           work'[w] = next => JobMove(w)
    PROVE  Moved
<1>1. kube' = kube /\ work' = [work EXCEPT ![w] = next]
  BY DEF Proceed
<1>2. \A x \in Objs : KubeMove(x)
  BY <1>1, UnwrittenMove
<1>3. work'[w] = next /\ \A v \in Workers \ {w} : work'[v] = work[v]
  BY <1>1 DEF Consistent, WorkTyped
<1>4. \A v \in Workers \ {w} : JobMove(v)
  BY <1>3, OutdatedMove
<1> QED BY <1>2, <1>3, <1>4 DEF Moved

\* A user's write outdates every copy and moves no worker on.
LEMMA UserStoreMoves ==
    ASSUME Consistent, NEW o \in Objs, NEW k, UserStore(o, k),
           NameKept(kube[o], k) \/ StartsOver(kube[o], k)
    PROVE  Moved
<1>1. /\ kube' = [kube EXCEPT ![o] = k]
      /\ work' = [v \in Workers |-> Outdated(v, o)]
  BY DEF UserStore
<1>2. kube'[o] = k /\ \A x \in Objs \ {o} : kube'[x] = kube[x]
  BY <1>1 DEF Consistent, KubeTyped
<1>3. \A x \in Objs : KubeMove(x)
  BY <1>2, UnwrittenMove DEF KubeMove
<1>4. \A v \in Workers : work'[v] = Outdated(v, o)
  BY <1>1
<1>5. \A v \in Workers : JobMove(v)
  BY <1>4, OutdatedMove
<1> QED BY <1>3, <1>5 DEF Moved

\* Whatever a worker was doing, it may drop it, and a process may forget.
LEMMA DropMoves ==
    ASSUME Consistent, NEW w \in Workers, Proceed(w, Idle)
    PROVE  Moved
BY IdleSound, ProceedMoves DEF JobMove

\* A crash leaves workers idle or as they are.
LEMMA CrashMoves ==
    ASSUME Consistent, NEW p, Crash(p)
    PROVE  Moved
<1>1. kube' = kube /\ \A w \in Workers : work'[w] = Idle \/ work'[w] = work[w]
  BY DEF Crash
<1>2. \A o \in Objs : KubeMove(o)
  BY <1>1, UnwrittenMove
<1>3. \A w \in Workers : JobMove(w)
  BY <1>1, IdleSound DEF JobMove, SameJob
<1> QED BY <1>2, <1>3 DEF Moved

\* A step that moves no resource and no worker.
LEMMA StutterMoves ==
    ASSUME Consistent, UNCHANGED <<kube, work>>
    PROVE  Moved
BY DEF Moved, KubeMove, NameKept, JobMove, SameJob

\* A reconcile starts.
LEMMA GetMoves ==
    ASSUME IInv, NEW w \in Workers, NEW o \in Objs, Get(w, o)
    PROVE  Moved
<1> DEFINE next == [phase |-> "init", obj |-> o, cr |-> kube[o], fresh |-> TRUE,
                    obs |-> "none"]
<1>1. Proceed(w, next)
  BY DEF Get, Proceed
<1>2. Reads(next)
  BY DEF Reads
<1> HIDE DEF next
<1> QED BY <1>1, <1>2, ProceedMoves DEF IInv, JobMove

\* The name is filled in from a fresh copy, which shows that there is none.
LEMMA InitializeMoves ==
    ASSUME IInv, NEW w \in Workers, Initialize(w)
    PROVE  Moved
<1> DEFINE s == work[w]
           k == [s.cr EXCEPT !.ext = MetaName[s.obj]]
<1>1. s.phase = "init" /\ ~ At(w, "idle")
  BY DEF Initialize, At
<1>2. /\ s \in Jobs /\ s.obj \in Objs /\ s.cr \in Copies
      /\ Sound(s, kube[s.obj])
  BY <1>1, Busy DEF IInv
<1>3. CASE s.cr.ext = ""
  <2> DEFINE next == [s EXCEPT !.cr = k, !.phase = "observe"]
  <2>1. s.fresh /\ Store(w, s.obj, k, next)
    BY <1>3 DEF Initialize
  <2>2. s.cr = kube[s.obj] /\ s.cr.create # "pending" /\ s.cr.present
    BY <1>1, <1>2, <2>1 DEF Sound, CreatingPhases
  <2>3. /\ k.ext = MetaName[s.obj] /\ k.present = s.cr.present
        /\ k.create = s.cr.create
    BY <1>2 DEF Copies
  <2>4. NameFilled(s.obj, kube[s.obj], k)
    BY <1>3, <2>2, <2>3 DEF NameFilled
  <2>5. next.phase = "observe" /\ next.obj = s.obj /\ next.cr = k
    BY <1>2 DEF Jobs
  <2>6. next.obj = s.obj /\ GoesOn(s, next)
    BY <1>1, <2>3, <2>5 DEF GoesOn, Names
  <2> HIDE DEF next, k
  <2> QED BY <1>2, <2>1, <2>4, <2>6, StoreMoves DEF IInv, KubeMove, JobMove
<1>4. CASE s.cr.ext # ""
  <2> DEFINE next == [s EXCEPT !.phase = "observe"]
  <2>1. Proceed(w, next)
    BY <1>4 DEF Initialize
  <2>2. next.phase = "observe" /\ next.obj = s.obj /\ next.cr = s.cr
    BY <1>2 DEF Jobs
  <2>3. next.obj = s.obj /\ GoesOn(s, next)
    BY <1>1, <2>2 DEF GoesOn, Names
  <2> HIDE DEF next
  <2> QED BY <2>1, <2>3, ProceedMoves DEF IInv, JobMove
<1> QED BY <1>3, <1>4

\* Observe may report a resource with an id as absent only if what it looks up is
\* not there: an error, or an answer without a VM, is no proof of absence.
LEMMA AbsentIsMissing ==
    ASSUME db \in Databases, NEW o \in Objs, HasId(o), NEW cr, ~ cr.deleting,
           NEW reply, reply = Lookup(o, db, cr) \/ reply \in FaultyReplies(o),
           "absent" \in Observe(o, cr, reply)
    PROVE  Missing(o, cr)
<1>1. /\ \A v \in db.vms : v.id \in Ids
      /\ \A l \in db.workloads : l.id \in Ids
  BY DEF Databases, Vms, Workloads, WorkloadsOf
<1>2. \A rows : Found(rows).code = "NotFound" => rows = {}
  BY DEF Found, Ok
<1>3. \A q \in FaultyReplies(o) : q.code # "NotFound"
  BY DEF FaultyReplies, Unavailable, Error, Ok
<1>4. CASE KindOf[o] = "VirtualMachine"
  <2>1. cr.ext = "" \/ reply.code = "NotFound"
    BY <1>4 DEF Observe, VM!Observe, VM!vmExternalID
  <2>2. CASE cr.ext = ""
    BY <1>1, <1>4, <2>2, IdNotEmpty, Zenon DEF Missing
  <2>3. CASE reply.code = "NotFound"
    <3>1. reply = Found({v \in db.vms : v.id = cr.ext})
      BY <1>3, <1>4, <2>3 DEF Lookup, lookupRequest, VM!lookupRequest,
         VM!vmExternalID, Read, GetVm
    <3> QED BY <1>2, <1>4, <2>3, <3>1 DEF Missing
  <2> QED BY <2>1, <2>2, <2>3
<1>5. CASE KindOf[o] = "Workload"
  <2>1. cr.ext = "" \/ reply.code = "NotFound"
    BY <1>5 DEF Observe, WL!Observe, WL!wlID
  <2>2. CASE cr.ext = ""
    BY <1>1, <1>5, <2>2, IdNotEmpty, Zenon DEF Missing
  <2>3. CASE reply.code = "NotFound"
    <3>1. WL!WorkloadKind(cr.spec.kind) = WorkloadKind(cr.spec.kind)
      BY DEF WL!WorkloadKind, WorkloadKind, WL!Word, Word, WL!ToLower, ToLower,
         WL!TrimSpace, TrimSpace
    <3>2. reply = Found({l \in db.workloads : /\ l.kind = WorkloadKind(cr.spec.kind)
                                              /\ l.id = cr.ext})
      BY <1>3, <1>5, <2>3, <3>1 DEF Lookup, lookupRequest, WL!lookupRequest,
         WL!wlID, Read, GetWorkload
    <3> QED BY <1>2, <1>5, <2>3, <3>2 DEF Missing
  <2> QED BY <2>1, <2>2, <2>3
<1> QED BY <1>4, <1>5 DEF HasId

\* A reconcile goes on from what it observed, with or without a fault.
LEMMA ObservedMoves ==
    ASSUME IInv, NEW w \in Workers, At(w, "observe"), NEW reply,
           \/ reply = Lookup(work[w].obj, db, work[w].cr)
           \/ reply \in FaultyReplies(work[w].obj),
           NEW seen \in Observe(work[w].obj, work[w].cr, reply),
           Proceed(w, AfterObserve(work[w], seen))
    PROVE  Moved
<1> DEFINE s    == work[w]
           next == AfterObserve(s, seen)
<1>1. /\ s \in Jobs /\ s.obj \in Objs /\ s.cr \in Copies /\ s.phase = "observe"
      /\ s.cr.spec \in SpecsOf[s.obj]
  BY Busy DEF IInv, At
<1>2. seen \in Observations
  BY <1>1, ObserveTyped
<1>3. s.cr.deleting => seen = "absent"
  BY <1>1, DeletingIsAbsent DEF Copies
<1>4. HasId(s.obj) /\ ~ s.cr.deleting /\ seen = "absent" => Missing(s.obj, s.cr)
  BY <1>1, AbsentIsMissing DEF IInv, RestTyped
<1>5. Proceed(w, next)
  OBVIOUS
<1>6. CASE seen = "error"
  BY <1>5, <1>6, DropMoves DEF IInv, AfterObserve
<1>7. CASE seen # "error"
  <2> DEFINE phase == IF s.cr.deleting THEN "finalize" ELSE "adopt"
  <2>1. next = [s EXCEPT !.obs = seen, !.phase = phase]
    BY <1>3, <1>7 DEF AfterObserve
  <2>2. next.obj = s.obj /\ next.phase = phase /\ next.cr = s.cr /\ next.obs = seen
    BY <1>1, <2>1 DEF Jobs
  <2> HIDE DEF next
  <2>3. GoesOn(s, next)
    BY <1>1, <1>4, <2>2 DEF GoesOn, Looks
  <2> QED BY <1>5, <2>2, <2>3, ProceedMoves DEF IInv, JobMove
<1> QED BY <1>6, <1>7

\* With its finalizer a reconcile goes on to what it observed the need of.
LEMMA AdoptedMoves ==
    ASSUME NEW s \in Jobs, s.phase = "adopt"
    PROVE  LET n == AfterAdopt(s)
           IN  \/ n.phase = "idle"
               \/ n.obj = s.obj /\ Adopts(s, n) /\ n.cr = s.cr
<1> DEFINE n == AfterAdopt(s)
<1>1. CASE s.obs = "absent"
  <2>1. n = [s EXCEPT !.phase = "pend"]
    BY <1>1 DEF AfterAdopt
  <2> QED BY <1>1, <2>1 DEF Jobs, Adopts
<1>2. CASE s.obs = "drifted"
  <2>1. n = [s EXCEPT !.phase = "update"]
    BY <1>2 DEF AfterAdopt
  <2> QED BY <1>2, <2>1 DEF Jobs, Adopts
<1>3. CASE s.obs \notin {"absent", "drifted"}
  BY <1>3, IdleSound DEF AfterAdopt
<1> QED BY <1>1, <1>2, <1>3

\* The finalizer is written from a fresh copy, with the name that is there.
LEMMA AddFinalizerMoves ==
    ASSUME IInv, NEW w \in Workers, AddFinalizer(w)
    PROVE  Moved
<1> DEFINE s == work[w]
           k == [s.cr EXCEPT !.finalizer = TRUE]
           t == [s EXCEPT !.cr = k]
<1>1. s.phase = "adopt" /\ ~ At(w, "idle")
  BY DEF AddFinalizer, At
<1>2. /\ s \in Jobs /\ s.obj \in Objs /\ s.cr \in Copies
      /\ Sound(s, kube[s.obj])
  BY <1>1, Busy DEF IInv
<1>3. CASE ~ s.cr.finalizer
  <2>1. s.fresh /\ Store(w, s.obj, k, AfterAdopt(t))
    BY <1>3 DEF AddFinalizer
  <2>2. s.cr = kube[s.obj]
    BY <1>1, <1>2, <2>1 DEF Sound, CreatingPhases
  <2>3. /\ k \in Copies /\ k.ext = s.cr.ext /\ k.present = s.cr.present
        /\ k.create = s.cr.create
    BY <1>2 DEF Copies
  <2>4. NameKept(kube[s.obj], k)
    BY <2>2, <2>3 DEF NameKept
  <2>5. /\ t \in Jobs /\ t.phase = "adopt" /\ t.obj = s.obj /\ t.cr = k
        /\ t.obs = s.obs
    BY <1>1, <1>2, <2>3 DEF Jobs
  <2> HIDE DEF k, t
  <2>6. \/ AfterAdopt(t).phase = "idle"
        \/ AfterAdopt(t).obj = s.obj /\ GoesOn(s, AfterAdopt(t))
    BY <1>1, <2>3, <2>5, AdoptedMoves DEF GoesOn, Adopts
  <2> QED BY <1>2, <2>1, <2>4, <2>6, StoreMoves DEF IInv, KubeMove, JobMove
<1>4. CASE s.cr.finalizer
  <2>1. Proceed(w, AfterAdopt(s))
    BY <1>4 DEF AddFinalizer
  <2>2. \/ AfterAdopt(s).phase = "idle"
        \/ AfterAdopt(s).obj = s.obj /\ GoesOn(s, AfterAdopt(s))
    BY <1>1, <1>2, AdoptedMoves DEF GoesOn
  <2> QED BY <2>1, <2>2, ProceedMoves DEF IInv, JobMove
<1> QED BY <1>3, <1>4

\* A creation begins from a fresh copy, with the name that is there.
LEMMA MarkPendingMoves ==
    ASSUME IInv, NEW w \in Workers, MarkPending(w)
    PROVE  Moved
<1> DEFINE s    == work[w]
           k    == [s.cr EXCEPT !.create = "pending"]
           next == [s EXCEPT !.cr = k, !.phase = "create"]
<1>1. s.phase = "pend" /\ s.fresh /\ ~ At(w, "idle")
  BY DEF MarkPending, At
<1>2. /\ s \in Jobs /\ s.obj \in Objs /\ s.cr \in Copies
      /\ Sound(s, kube[s.obj])
  BY <1>1, Busy DEF IInv
<1>3. s.cr = kube[s.obj]
  BY <1>1, <1>2 DEF Sound, CreatingPhases
<1>4. k.ext = s.cr.ext /\ k.present = s.cr.present /\ k.create = "pending"
  BY <1>2 DEF Copies
<1>5. NameKept(kube[s.obj], k)
  BY <1>3, <1>4 DEF NameKept
<1>6. next.obj = s.obj /\ next.phase = "create" /\ next.cr = k
  BY <1>2 DEF Jobs
<1>7. Store(w, s.obj, k, next)
  BY DEF MarkPending
<1> HIDE DEF k, next
<1>8. kube'[s.obj] = k => GoesOn(s, next)
  BY <1>1, <1>4, <1>6 DEF GoesOn, Begins
<1> QED BY <1>2, <1>5, <1>6, <1>7, <1>8, StoreMoves DEF IInv, KubeMove, JobMove

\* The id in the answer to a create is one the kcore controller has issued, and
\* every new row has it; an error leaves the tables as they are.
LEMMA CreationOutcome ==
    ASSUME db \in Databases, NEW o \in Objs, HasId(o), NEW cr,
           NEW out \in Serve(db, createRequest(o, cr.spec))
    PROVE  \/ out.answer.code # "OK" /\ out.db = db
           \/ /\ out.answer.code = "OK"
              /\ CreatedName(o, cr, out.answer) \in out.db.issued
              /\ \A x \in (out.db.vms \ db.vms) \cup (out.db.workloads \ db.workloads) :
                    x.id = CreatedName(o, cr, out.answer)
<1> DEFINE r == createRequest(o, cr.spec)
<1>1. ASSUME NEW c, out.answer = Ok({c})
      PROVE  out.answer.code = "OK" /\ CreatedName(o, cr, out.answer) = c.id
  <2>1. {x.id : x \in out.answer.content} = {c.id}
    BY <1>1 DEF Ok
  <2>2. \A id, zero : The({id}, zero) = id
    BY DEF The
  <2>3. NewId(out.answer) = c.id
    BY <2>1, <2>2, Zenon DEF NewId
  <2>4. CreatedName(o, cr, out.answer) = NewId(out.answer)
    <3>1. CASE KindOf[o] = "VirtualMachine"
      BY <3>1 DEF CreatedName, VM!CreatedName, VM!NewId, NewId, VM!The, The
    <3>2. CASE KindOf[o] = "Workload"
      BY <3>2 DEF CreatedName, WL!CreatedName, WL!NewId, NewId, WL!The, The
    <3> QED BY <3>1, <3>2 DEF HasId
  <2> QED BY <1>1, <2>3, <2>4 DEF Ok
<1>2. CASE KindOf[o] = "VirtualMachine"
  <2>1. r.rpc = "CreateVm"
    BY <1>2, CreationFields
  <2> HIDE DEF r
  <2>2. out \in CreateVm(db, r)
    BY <2>1 DEF Serve, r
  <2> DEFINE same == {v \in db.vms : v.name = r.name}
  <2>3. PICK id \in IdsFor(db, same) :
           out = Outcome([db EXCEPT !.vms = (@ \ same) \cup {VmRow(r, id)},
                                    !.issued = @ \cup {id}],
                         Ok({[id |-> id, state |-> StateFor(r.desired)]}))
    BY <2>2 DEF CreateVm
  <2>4. /\ id \in out.db.issued /\ out.db.workloads = db.workloads
        /\ out.db.vms \subseteq db.vms \cup {VmRow(r, id)}
    BY <2>3 DEF Databases, Outcome
  <2>5. VmRow(r, id).id = id
    BY DEF VmRow
  <2> DEFINE c == [id |-> id, state |-> StateFor(r.desired)]
  <2>6. out.answer = Ok({c}) /\ c.id = id
    BY <2>3 DEF Outcome
  <2> HIDE DEF c
  <2> QED BY <1>1, <2>4, <2>5, <2>6
<1>3. CASE KindOf[o] = "Workload"
  <2>1. r.rpc = "CreateWorkload"
    BY <1>3, CreationFields
  <2> HIDE DEF r
  <2>2. out \in CreateWorkload(db, r)
    BY <2>1 DEF Serve, r
  <2> DEFINE same == {l \in db.workloads : l.kind = r.kind /\ l.name = r.name}
  <2>3. \/ out = Outcome(db, Error("InvalidArgument"))
        \/ \E id \in IdsFor(db, same) :
              out = Outcome([db EXCEPT !.workloads = (@ \ same) \cup {WorkloadRow(r, id)},
                                       !.issued = @ \cup {id}],
                            Ok({NewWorkload(r, id)}))
    <3>1. CASE r.name = ""
      BY <2>2, <3>1, Zenon DEF CreateWorkload
    <3>2. CASE r.name # ""
      BY <2>2, <3>2, Zenon DEF CreateWorkload
    <3> QED BY <3>1, <3>2, Zenon
  <2>4. CASE out = Outcome(db, Error("InvalidArgument"))
    BY <2>4 DEF Outcome, Error
  <2>5. ASSUME NEW id \in IdsFor(db, same),
               out = Outcome([db EXCEPT !.workloads = (@ \ same) \cup {WorkloadRow(r, id)},
                                        !.issued = @ \cup {id}],
                             Ok({NewWorkload(r, id)}))
        PROVE  /\ out.answer.code = "OK"
               /\ CreatedName(o, cr, out.answer) \in out.db.issued
               /\ \A x \in (out.db.vms \ db.vms) \cup (out.db.workloads \ db.workloads) :
                     x.id = CreatedName(o, cr, out.answer)
    <3>1. /\ id \in out.db.issued /\ out.db.vms = db.vms
          /\ out.db.workloads \subseteq db.workloads \cup {WorkloadRow(r, id)}
          /\ out.answer = Ok({NewWorkload(r, id)})
      BY <2>5 DEF Databases, Outcome
    <3>2. NewWorkload(r, id).id = id
      BY DEF NewWorkload
    <3>3. WorkloadRow(r, id).id = id
      BY DEF WorkloadRow
    <3> QED BY <1>1, <3>1, <3>2, <3>3
  <2> QED BY <2>3, <2>4, <2>5
<1> QED BY <1>2, <1>3 DEF HasId

\* A creation that is rejected, fails or is not answered leaves the name alone;
\* one that succeeds goes on with the id it was given.
LEMMA FailureMoves ==
    ASSUME IInv, NEW w \in Workers, At(w, "create"),
           Proceed(w, [work[w] EXCEPT !.phase = "fail"])
    PROVE  Moved
<1> DEFINE s    == work[w]
           next == [s EXCEPT !.phase = "fail"]
<1>1. s \in Jobs /\ s.phase = "create"
  BY Busy DEF IInv, At
<1>2. next.obj = s.obj /\ next.phase = "fail" /\ next.cr = s.cr
  BY <1>1 DEF Jobs
<1>3. Proceed(w, next)
  OBVIOUS
<1> HIDE DEF next
<1>4. GoesOn(s, next)
  BY <1>1, <1>2 DEF GoesOn, Fails
<1> QED BY <1>2, <1>3, <1>4, ProceedMoves DEF IInv, JobMove

\* An answered creation goes on to its record, under the id it was given.
LEMMA CreateAnsweredMoves ==
    ASSUME IInv, NEW w \in Workers, CreateAnswered(w)
    PROVE  Moved
<1> DEFINE s == work[w]
<1>1. At(w, "create")
  BY DEF CreateAnswered
<1>2. s \in Jobs /\ s.obj \in Objs /\ s.cr \in Copies /\ s.phase = "create"
  BY <1>1, Busy DEF IInv, At
<1>3. PICK out \in Serve(db, createRequest(s.obj, s.cr.spec)) :
         /\ db' = out.db
         /\ Proceed(w, IF out.answer.code = "OK"
                       THEN [s EXCEPT !.phase = "record",
                               !.cr.ext = CreatedName(s.obj, s.cr, out.answer)]
                       ELSE [s EXCEPT !.phase = "fail"])
  BY DEF CreateAnswered
<1>4. CASE out.answer.code # "OK"
  BY <1>1, <1>3, <1>4, FailureMoves
<1>5. CASE out.answer.code = "OK"
  <2> DEFINE ext  == CreatedName(s.obj, s.cr, out.answer)
             next == [s EXCEPT !.phase = "record", !.cr.ext = ext]
  <2>1. Proceed(w, next)
    BY <1>3, <1>5
  <2>2. HasId(s.obj) => ext \in db'.issued
    BY <1>2, <1>3, <1>5, CreationOutcome DEF IInv, RestTyped
  <2> HIDE DEF ext
  <2>3. next.obj = s.obj /\ next.phase = "record" /\ next.cr.ext = ext
    BY <1>2 DEF Jobs, Copies
  <2> HIDE DEF next
  <2>4. GoesOn(s, next)
    BY <1>2, <2>2, <2>3 DEF GoesOn, Creates
  <2> QED BY <2>1, <2>3, <2>4, ProceedMoves DEF IInv, JobMove
<1> QED BY <1>4, <1>5

\* The end of a creation writes the name the copy has.
LEMMA RecordMoves ==
    ASSUME IInv, NEW w \in Workers, RecordCreated(w) \/ RecordFailed(w)
    PROVE  Moved
<1> DEFINE s == work[w]
<1>1. s.phase \in {"record", "fail"} /\ ~ At(w, "idle")
  BY DEF RecordCreated, RecordFailed, At
<1>2. s.obj \in Objs /\ kube[s.obj] \in Copies
  BY <1>1, Busy DEF IInv
<1>3. ASSUME NEW how, Store(w, s.obj, Recorded(s, how), Idle), kube[s.obj].present,
             \/ s.phase = "record" /\ how = "succeeded"
             \/ s.phase = "fail" /\ how = "failed"
      PROVE  Moved
  <2> DEFINE k == Recorded(s, how)
  <2>1. k.ext = s.cr.ext /\ k.create = how /\ k.present = kube[s.obj].present
    BY <1>2 DEF Recorded, Copies
  <2> HIDE DEF k
  <2>2. work'[w] = Idle => Ended(s.obj, kube[s.obj], k)
    BY <1>3, <2>1, IdleSound DEF Ended
  <2>3. Store(w, s.obj, k, Idle)
    BY <1>3 DEF k
  <2> QED BY <1>2, <2>2, <2>3, IdleSound, StoreMoves DEF IInv, KubeMove, JobMove
<1> QED BY <1>3 DEF RecordCreated, RecordFailed, At

\* A deleted resource is gone, with its name.
LEMMA RemoveFinalizerMoves ==
    ASSUME IInv, NEW w \in Workers, RemoveFinalizer(w)
    PROVE  Moved
<1>1. work[w].obj \in Objs
  BY Busy DEF IInv, RemoveFinalizer, At
<1>2. \A k : StartsOver(k, Absent)
  BY DEF StartsOver, Absent
<1>3. Store(w, work[w].obj, Absent, Idle)
  BY DEF RemoveFinalizer
<1> QED BY <1>1, <1>2, <1>3, IdleSound, StoreMoves DEF IInv, KubeMove, JobMove

\* Users leave the name alone, unless they create or remove the resource.
LEMMA UserMoves ==
    ASSUME IInv, NEW o \in Objs, User(o)
    PROVE  Moved
<1>1. kube[o] \in Copies
  BY DEF IInv, Consistent, KubeTyped
<1>2. CASE Apply(o)
  <2>1. PICK p \in SpecsOf[o] : UserStore(o, Applied(p))
    BY <1>2 DEF Apply
  <2>2. StartsOver(kube[o], Applied(p))
    BY <1>2 DEF Apply, StartsOver, Applied, Absent
  <2> QED BY <2>1, <2>2, UserStoreMoves DEF IInv
<1>3. CASE Edit(o)
  <2>1. PICK p \in SpecsOf[o] : UserStore(o, [kube[o] EXCEPT !.spec = p])
    BY <1>3 DEF Edit
  <2>2. NameKept(kube[o], [kube[o] EXCEPT !.spec = p])
    BY <1>1 DEF NameKept, Copies
  <2> QED BY <2>1, <2>2, UserStoreMoves DEF IInv
<1>4. CASE MarkDeleted(o)
  <2>1. CASE kube[o].finalizer
    <3>1. UserStore(o, [kube[o] EXCEPT !.deleting = TRUE])
      BY <1>4, <2>1 DEF MarkDeleted
    <3>2. NameKept(kube[o], [kube[o] EXCEPT !.deleting = TRUE])
      BY <1>1 DEF NameKept, Copies
    <3> QED BY <3>1, <3>2, UserStoreMoves DEF IInv
  <2>2. CASE ~ kube[o].finalizer
    <3>1. UserStore(o, Absent)
      BY <1>4, <2>2 DEF MarkDeleted
    <3>2. StartsOver(kube[o], Absent)
      BY DEF StartsOver, Absent
    <3> QED BY <3>1, <3>2, UserStoreMoves DEF IInv
  <2> QED BY <2>1, <2>2
<1>5. CASE ClearPending(o)
  <2>1. UserStore(o, [kube[o] EXCEPT !.create = "none"])
    BY <1>5 DEF ClearPending
  <2>2. NameKept(kube[o], [kube[o] EXCEPT !.create = "none"])
    BY <1>1 DEF NameKept, Copies
  <2> QED BY <2>1, <2>2, UserStoreMoves DEF IInv
<1> QED BY <1>2, <1>3, <1>4, <1>5 DEF User

\* Those are all the moves there are.
LEMMA EveryMove ==
    ASSUME IInv, [Next]_vars
    PROVE  Moved
<1>1. ASSUME NEW w \in Workers, Step(w)
      PROVE  Moved
  <2>1. CASE ObserveExternal(w)
    BY <2>1, ObservedMoves DEF ObserveExternal
  <2>2. CASE CreateRejected(w)
    BY <2>2, FailureMoves DEF CreateRejected
  <2>3. CASE UpdateAnswered(w) \/ Conflict(w)
    BY <2>3, DropMoves DEF UpdateAnswered, Conflict, IInv
  <2> QED BY <1>1, <2>1, <2>2, <2>3, InitializeMoves, AddFinalizerMoves,
         MarkPendingMoves, CreateAnsweredMoves, RecordMoves, RemoveFinalizerMoves
         DEF Step
<1>2. ASSUME NEW w \in Workers, Fault(w)
      PROVE  Moved
  <2>1. CASE ObserveFaulty(w)
    BY <2>1, ObservedMoves DEF ObserveFaulty
  <2>2. CASE CreateUnanswered(w)
    BY <2>2, FailureMoves DEF CreateUnanswered
  <2>3. CASE UpdateUnanswered(w) \/ GiveUp(w)
    BY <2>3, DropMoves DEF UpdateUnanswered, GiveUp, IInv
  <2> QED BY <1>2, <2>1, <2>2, <2>3 DEF Fault
<1>3. CASE LateEffect \/ Drift \/ UNCHANGED vars
  BY <1>3, StutterMoves DEF LateEffect, Drift, vars, IInv
<1>4. ASSUME NEW w \in Workers, Crash(ProcessOf[w])
      PROVE  Moved
  BY <1>4, CrashMoves DEF IInv
<1> QED BY <1>1, <1>2, <1>3, <1>4, GetMoves, UserMoves DEF Next

-----------------------------------------------------------------------------
(* Never away from what is still there                                      *)

\* Two hypotheses.  No resource is called like an id the kcore controller may
\* issue, and no edit of a Workload changes what kind of workload it is, which
\* would have Observe look for its id in the other table.
Apart == \A o \in Objs : MetaName[o] \notin Ids

KindKept ==
    \A o \in Objs : KindOf[o] = "Workload" =>
        \A p, q \in SpecsOf[o] : WorkloadKind(p.kind) = WorkloadKind(q.kind)

\* The tables hold what a resource of that external name refers to.
Held(tables, o, id) ==
    \/ KindOf[o] = "VirtualMachine" /\ \E v \in tables.vms : v.id = id
    \/ /\ KindOf[o] = "Workload"
       /\ \E l \in tables.workloads : \E p \in SpecsOf[o] :
             l.id = id /\ l.kind = WorkloadKind(p.kind)

\* It is gone for good: not there, and not going to be issued.
Lost(tables, o, id) ==
    (id \in Ids => id \in tables.issued) /\ ~ Held(tables, o, id)

\* Nobody has a name that is yet to be issued, and a creation runs only for a
\* resource whose name stands for nothing.
Faithful ==
    /\ \A o \in Objs :
          /\ HasId(o) /\ kube[o].ext \in Ids => kube[o].ext \in db.issued
          /\ ~ kube[o].present => kube[o].ext = ""
    /\ \A w \in Workers : HasId(work[w].obj) =>
          /\ ~ At(w, "idle") /\ work[w].cr.ext \in Ids => work[w].cr.ext \in db.issued
          /\ (At(w, "adopt") /\ work[w].obs = "absent") \/ At(w, "pend") =>
                Lost(db, work[w].obj, work[w].cr.ext)
          /\ Creating(w) => Lost(db, work[w].obj, kube[work[w].obj].ext)
          /\ At(w, "create") \/ At(w, "fail") =>
                work[w].cr.ext = kube[work[w].obj].ext

\* What is lost stays lost.
LEMMA LostKept ==
    ASSUME NEW tables, NEW next, next \in Databases, NoReturn(tables, next),
           NEW o, NEW id, Lost(tables, o, id)
    PROVE  Lost(next, o, id)
<1>1. CASE id \in Ids
  BY <1>1 DEF Lost, Held, NoReturn
<1>2. CASE id \notin Ids
  BY <1>2 DEF Lost, Held, Databases, Vms, Workloads, WorkloadsOf
<1> QED BY <1>1, <1>2

\* What Observe misses is lost.
LEMMA MissingIsLost ==
    ASSUME KindKept, NEW o \in Objs, HasId(o), NEW cr, cr.spec \in SpecsOf[o],
           cr.ext \in Ids => cr.ext \in db.issued, Missing(o, cr)
    PROVE  Lost(db, o, cr.ext)
<1>1. KindOf[o] = "Workload" =>
         \A p \in SpecsOf[o] : WorkloadKind(p.kind) = WorkloadKind(cr.spec.kind)
  BY DEF KindKept
<1> QED BY <1>1 DEF Lost, Held, Missing

\* What a resource owns is an id, and the tables hold what it refers to.
LEMMA OwnedIsHeld ==
    ASSUME Tables, NEW o \in Objs, NEW id \in OwnedIds(o)
    PROVE  HasId(o) /\ id \in Ids /\ Held(db, o, id)
<1>1. \A r \in CreationsOf(o) :
         /\ r.rpc = "CreateVm" <=> KindOf[o] = "VirtualMachine"
         /\ r.rpc = "CreateWorkload" <=> KindOf[o] = "Workload"
  BY CreationFields DEF CreationsOf
<1>2. CASE \E v \in db.vms : v.by = o /\ v.id = id
  <2>1. PICK v \in db.vms : v.by = o /\ v.id = id
    BY <1>2
  <2>2. KindOf[o] = "VirtualMachine"
    BY <1>1, <2>1 DEF Tables, Sane, Rooted
  <2>3. id \in Ids
    BY <2>1 DEF Tables, Sane, Databases, Vms
  <2> QED BY <2>1, <2>2, <2>3 DEF HasId, Held
<1>3. CASE \E l \in db.workloads : l.by = o /\ l.id = id
  <2>1. PICK l \in db.workloads : l.by = o /\ l.id = id
    BY <1>3
  <2>2. PICK r \in CreationsOf(o) : r.rpc = "CreateWorkload" /\ r.kind = l.kind
    BY <2>1 DEF Tables, Sane, Rooted
  <2>3. PICK p \in SpecsOf[o] : r = createRequest(o, p)
    BY DEF CreationsOf
  <2>4. KindOf[o] = "Workload"
    BY <1>1, <2>2
  <2>5. r.kind = WorkloadKind(p.kind)
    <3>1. r = WL!createRequest(o, p)
      BY <2>3, <2>4 DEF createRequest
    <3>2. WL!createRequest(o, p).kind = WL!WorkloadKind(p.kind)
      BY Zenon DEF WL!createRequest
    <3>3. WL!WorkloadKind(p.kind) = WorkloadKind(p.kind)
      BY DEF WL!WorkloadKind, WorkloadKind, WL!Word, Word, WL!ToLower, ToLower,
         WL!TrimSpace, TrimSpace
    <3> QED BY <3>1, <3>2, <3>3
  <2>6. id \in Ids
    BY <2>1 DEF Tables, Sane, Databases, Workloads, WorkloadsOf
  <2> QED BY <2>1, <2>2, <2>4, <2>5, <2>6 DEF HasId, Held
<1> QED BY <1>2, <1>3 DEF OwnedIds

\* While a creation goes on nobody changes the name of its resource.
LEMMA CreationKeepsName ==
    ASSUME IInv, IInv', Moved, NEW w \in Workers, Creating(w), Creating(w)',
           work'[w].obj = work[w].obj
    PROVE  kube'[work[w].obj].ext = kube[work[w].obj].ext
<1> DEFINE o == work[w].obj
<1>1. o \in Objs /\ kube[o].create = "pending" /\ kube[o].present
  <2>1. ~ At(w, "idle") /\ work[w].phase \in CreatingPhases
    BY DEF At, Creating, CreatingPhases
  <2> QED BY <2>1, Busy DEF IInv, Sound, Protected, At
<1>2. kube'[o].present
  BY DEF IInv, Consistent, AllSound, Sound, Protected, Creating, CreatingPhases
<1>3. ~ Ended(o, kube[o], kube'[o])
  <2>1. \A v \in Workers : Creating(v) /\ work[v].obj = o => v = w
    BY DEF IInv, Consistent, Exclusive
  <2>2. work'[w].phase # "idle"
    BY DEF Creating
  <2> QED BY <2>1, <2>2 DEF Ended, Creating
<1>4. ~ NameFilled(o, kube[o], kube'[o])
  BY <1>1 DEF NameFilled
<1>5. ~ StartsOver(kube[o], kube'[o])
  BY <1>1, <1>2 DEF StartsOver
<1>6. NameKept(kube[o], kube'[o])
  BY <1>1, <1>3, <1>4, <1>5 DEF Moved, KubeMove
<1> QED BY <1>6 DEF NameKept

\* Faithful part by part: the names of the resources and of the copies,
LEMMA NamesKept ==
    ASSUME Apart, IInv, Tables, Faithful, Moved, NoReturn(db, db'),
           NEW o \in Objs
    PROVE  /\ HasId(o) /\ kube'[o].ext \in Ids => kube'[o].ext \in db'.issued
           /\ ~ kube'[o].present => kube'[o].ext = ""
<1>1. db.issued \subseteq db'.issued
  BY DEF NoReturn
<1>2. CASE NameKept(kube[o], kube'[o])
  BY <1>1, <1>2 DEF NameKept, Faithful
<1>3. CASE NameFilled(o, kube[o], kube'[o])
  BY <1>3 DEF NameFilled, Apart
<1>4. CASE StartsOver(kube[o], kube'[o])
  BY <1>4, IdNotEmpty, Zenon DEF StartsOver
<1>5. CASE Ended(o, kube[o], kube'[o])
  BY <1>1, <1>5 DEF Ended, Faithful, At
<1> QED BY <1>2, <1>3, <1>4, <1>5 DEF Moved, KubeMove

\* No worker's copy has a name that is yet to be issued.
LEMMA CopiesKept ==
    ASSUME Apart, IInv, Faithful, Moved, NoReturn(db, db'),
           NEW w \in Workers, HasId(work'[w].obj), ~ At(w, "idle")',
           work'[w].cr.ext \in Ids
    PROVE  work'[w].cr.ext \in db'.issued
<1> DEFINE j == work[w]
           n == work'[w]
<1>1. db.issued \subseteq db'.issued
  BY DEF NoReturn
<1>2. n.phase # "idle"
  BY DEF At
<1>3. CASE SameJob(j, n)
  BY <1>1, <1>2, <1>3 DEF SameJob, Faithful, At
<1>4. CASE Reads(n)
  BY <1>1, <1>4 DEF Reads, Faithful
<1>5. CASE n.obj = j.obj /\ GoesOn(j, n)
  <2>1. CASE Creates(j, n)
    BY <1>5, <2>1 DEF Creates
  <2>2. CASE ~ Creates(j, n)
    <3>1. j.phase # "idle" /\ n.cr.ext \in {j.cr.ext, MetaName[j.obj]}
      BY <1>5, <2>2 DEF GoesOn, Names, Looks, Adopts, Begins, Fails
    <3>2. j.obj \in Objs
      BY <3>1, Busy DEF IInv, At
    <3>3. n.cr.ext = j.cr.ext
      BY <3>1, <3>2 DEF Apart
    <3> QED BY <1>1, <1>5, <3>1, <3>3 DEF Faithful, At
  <2> QED BY <2>1, <2>2
<1> QED BY <1>2, <1>3, <1>4, <1>5 DEF Moved, JobMove

\* The absence that lets a creation begin is for good.
LEMMA AbsenceKept ==
    ASSUME KindKept, IInv, Tables', Faithful, Moved, NoReturn(db, db'),
           NEW w \in Workers, HasId(work'[w].obj),
           ((At(w, "adopt") /\ work[w].obs = "absent") \/ At(w, "pend"))'
    PROVE  Lost(db', work'[w].obj, work'[w].cr.ext)
<1> DEFINE j == work[w]
           n == work'[w]
<1>1. db' \in Databases
  BY DEF Tables, Sane
<1>2. (n.phase = "adopt" /\ n.obs = "absent") \/ n.phase = "pend"
  BY DEF At
<1>3. \/ SameJob(j, n)
      \/ n.obj = j.obj /\ (Looks(j, n) \/ Adopts(j, n))
  BY <1>2 DEF Moved, JobMove, Reads, GoesOn, Names, Begins, Fails, Creates
<1>4. CASE SameJob(j, n)
  <2>1. Lost(db, j.obj, j.cr.ext)
    BY <1>2, <1>4 DEF SameJob, Faithful, At
  <2> QED BY <1>1, <1>4, <2>1, LostKept DEF SameJob
<1>5. CASE n.obj = j.obj /\ Looks(j, n)
  <2>1. j.phase = "observe" /\ n.phase = "adopt" /\ n.obs = "absent" /\ n.cr = j.cr
    BY <1>2, <1>5 DEF Looks
  <2>2. j.obj \in Objs /\ j.cr.spec \in SpecsOf[j.obj]
    BY <2>1, Busy DEF IInv, At
  <2>3. Missing(j.obj, j.cr) /\ (j.cr.ext \in Ids => j.cr.ext \in db.issued)
    BY <1>5, <2>1 DEF Looks, Faithful, At
  <2>4. Lost(db, j.obj, j.cr.ext)
    BY <1>5, <2>2, <2>3, MissingIsLost
  <2> QED BY <1>1, <1>5, <2>1, <2>4, LostKept
<1>6. CASE n.obj = j.obj /\ Adopts(j, n)
  <2>1. j.phase = "adopt" /\ j.obs = "absent" /\ n.cr.ext = j.cr.ext
    BY <1>2, <1>6 DEF Adopts
  <2>2. Lost(db, j.obj, j.cr.ext)
    BY <1>6, <2>1 DEF Faithful, At
  <2> QED BY <1>1, <1>6, <2>1, <2>2, LostKept
<1> QED BY <1>3, <1>4, <1>5, <1>6

\* As long as a creation runs, the stored name stands for nothing.
LEMMA CreationKept ==
    ASSUME IInv, IInv', Tables', Faithful, Moved, NoReturn(db, db'),
           NEW w \in Workers, HasId(work'[w].obj)
    PROVE  /\ Creating(w)' => Lost(db', work'[w].obj, kube'[work'[w].obj].ext)
           /\ (At(w, "create") \/ At(w, "fail"))' =>
                 work'[w].cr.ext = kube'[work'[w].obj].ext
<1> SUFFICES ASSUME Creating(w)'
             PROVE  /\ Lost(db', work'[w].obj, kube'[work'[w].obj].ext)
                    /\ (At(w, "create") \/ At(w, "fail"))' =>
                          work'[w].cr.ext = kube'[work'[w].obj].ext
  BY DEF Creating, At
<1> DEFINE j == work[w]
           n == work'[w]
<1>1. db' \in Databases
  BY DEF Tables, Sane
<1>2. n.phase \in {"create", "record", "fail"}
  BY DEF Creating
<1>3. \/ SameJob(j, n)
      \/ n.obj = j.obj /\ (Begins(j, n) \/ Fails(j, n) \/ Creates(j, n))
  BY <1>2 DEF Moved, JobMove, Reads, GoesOn, Names, Looks, Adopts
<1>4. CASE n.obj = j.obj /\ Begins(j, n)
  <2>1. j.phase = "pend" /\ kube'[n.obj].ext = j.cr.ext /\ n.cr.ext = j.cr.ext
    BY <1>4 DEF Begins
  <2>2. Lost(db, j.obj, j.cr.ext)
    BY <1>4, <2>1 DEF Faithful, At
  <2> QED BY <1>1, <1>4, <2>1, <2>2, LostKept
<1>5. CASE SameJob(j, n) \/ (n.obj = j.obj /\ (Fails(j, n) \/ Creates(j, n)))
  <2>1. n.obj = j.obj /\ Creating(w)
    BY <1>2, <1>5 DEF SameJob, Fails, Creates, Creating
  <2>2. kube'[j.obj].ext = kube[j.obj].ext
    BY <2>1, CreationKeepsName
  <2>3. Lost(db', j.obj, kube[j.obj].ext)
    BY <1>1, <2>1, LostKept DEF Faithful
  <2>4. n.phase \in {"create", "fail"} => n.cr.ext = kube[j.obj].ext
    BY <1>5, <2>1 DEF SameJob, Fails, Creates, Faithful, At
  <2> QED BY <2>1, <2>2, <2>3, <2>4 DEF At
<1> QED BY <1>3, <1>4, <1>5

\* Faithful is kept,
LEMMA FaithfulKept ==
    ASSUME Apart, KindKept, IInv, Tables, Faithful, [Next]_vars
    PROVE  Faithful'
<1>1. IInv' /\ Tables' /\ Moved /\ NoReturn(db, db')
  BY NextIInv, TablesKept, EveryMove
<1>2. \A o \in Objs :
         /\ HasId(o) /\ kube'[o].ext \in Ids => kube'[o].ext \in db'.issued
         /\ ~ kube'[o].present => kube'[o].ext = ""
  BY <1>1, NamesKept
<1>3. ASSUME NEW w \in Workers, HasId(work'[w].obj)
      PROVE  /\ ~ At(w, "idle")' /\ work'[w].cr.ext \in Ids =>
                   work'[w].cr.ext \in db'.issued
             /\ ((At(w, "adopt") /\ work[w].obs = "absent") \/ At(w, "pend"))' =>
                   Lost(db', work'[w].obj, work'[w].cr.ext)
             /\ Creating(w)' => Lost(db', work'[w].obj, kube'[work'[w].obj].ext)
             /\ (At(w, "create") \/ At(w, "fail"))' =>
                   work'[w].cr.ext = kube'[work'[w].obj].ext
  BY <1>1, <1>3, CopiesKept, AbsenceKept, CreationKept
<1> QED BY <1>2, <1>3 DEF Faithful, HasId, Lost, Held

\* and what is faithful forgets nothing.
LEMMA FaithfulRemembers ==
    ASSUME IInv, Tables, Faithful, [Next]_vars,
           NEW o \in Objs, kube[o].ext \in OwnedIds(o), kube'[o].present
    PROVE  kube'[o].ext = kube[o].ext
<1>1. Moved
  BY EveryMove
<1>2. HasId(o) /\ kube[o].ext \in Ids /\ Held(db, o, kube[o].ext)
  BY OwnedIsHeld
<1>3. kube[o].ext # ""
  BY <1>2, IdNotEmpty, Zenon
<1>4. CASE NameKept(kube[o], kube'[o])
  BY <1>4 DEF NameKept
<1>5. ~ NameFilled(o, kube[o], kube'[o])
  BY <1>3, Zenon DEF NameFilled
<1>6. ~ StartsOver(kube[o], kube'[o])
  BY <1>3, Zenon DEF StartsOver, Faithful
<1>7. CASE Ended(o, kube[o], kube'[o])
  <2>1. PICK w \in Workers :
           /\ work[w].obj = o /\ work[w].phase \in {"record", "fail"}
           /\ kube'[o].ext = work[w].cr.ext
    BY <1>7 DEF Ended
  <2>2. Lost(db, o, kube[o].ext)
    BY <1>2, <2>1 DEF Faithful, Creating
  <2> QED BY <1>2, <2>2 DEF Lost
<1> QED BY <1>1, <1>4, <1>5, <1>6, <1>7 DEF Moved, KubeMove

\* They are faithful before there is anything in them.
LEMMA InitFaithful == Init => Faithful
<1>1. Absent.ext = "" /\ "" \notin Ids /\ Idle.phase = "idle"
  BY IdNotEmpty, IdleSound DEF Absent
<1> HIDE DEF Absent
<1> QED BY <1>1, Zenon DEF Init, Faithful, At, Creating

\* While the VM or workload on record exists, its resource keeps the name of it,
\* through failed observations, conflicts, crashes and late calls: a creation,
\* which alone changes a name, begins only when what it stands for is gone for
\* good.
THEOREM NothingForgotten ==
    ASSUME Apart, KindKept
    PROVE  Spec => NeverForgets
<1>1. Init => Faithful
  BY InitFaithful
<1>2. IInv /\ Tables /\ Faithful /\ [Next]_vars => Faithful'
  BY FaithfulKept
<1>3. IInv /\ Tables /\ Faithful /\ [Next]_vars =>
         [\A o \in Objs :
             /\ kube[o].ext \in OwnedIds(o)
             /\ kube'[o].present
             => kube'[o].ext = kube[o].ext]_vars
  BY FaithfulRemembers
<1> QED BY <1>1, <1>2, <1>3, Invariance, TablesAreSane, PTL DEF Spec, NeverForgets

-----------------------------------------------------------------------------
(* What is left behind is flagged                                           *)

\* A resource comes to own something only by a creation that was asked for it.
LEMMA NewlyOwned ==
    ASSUME Tables, NEW r \in Requests, NEW out \in Serve(db, r), db' = out.db,
           NEW o \in Objs, NEW id \in OwnedIds(o)', id \notin OwnedIds(o)
    PROVE  /\ r \in CreateRequests /\ r.by = o
           /\ r.rpc \in {"CreateVm", "CreateWorkload"}
<1>1. CASE r \in CreateRequests
  <2>1. NewByRequest(db, r, db')
    BY <1>1, CreateCoherent DEF Tables, Sane
  <2>2. CASE \E v \in db'.vms : v.by = o /\ v.id = id
    <3>1. PICK v \in db'.vms : v.by = o /\ v.id = id
      BY <2>2
    <3>2. ~ \E u \in db.vms : VmKept(u, v)
      BY <3>1 DEF OwnedIds, VmKept
    <3>3. v = VmRow(r, v.id) /\ r.rpc = "CreateVm"
      BY <2>1, <3>2 DEF NewByRequest
    <3> QED BY <1>1, <3>1, <3>3 DEF VmRow
  <2>3. CASE \E l \in db'.workloads : l.by = o /\ l.id = id
    <3>1. PICK l \in db'.workloads : l.by = o /\ l.id = id
      BY <2>3
    <3>2. ~ \E k \in db.workloads : WorkloadKept(k, l)
      BY <3>1 DEF OwnedIds, WorkloadKept
    <3>3. l = WorkloadRow(r, l.id) /\ r.rpc = "CreateWorkload"
      BY <2>1, <3>2 DEF NewByRequest
    <3> QED BY <1>1, <3>1, <3>3 DEF WorkloadRow
  <2> QED BY <2>2, <2>3 DEF OwnedIds
<1>2. CASE r \in UpdateRequests \cup DeleteRequests
  <2>1. NothingNew(db, db')
    BY <1>2, ChangeCoherent DEF Tables, Sane
  <2> QED BY <2>1 DEF NothingNew, VmKept, WorkloadKept, OwnedIds
<1> QED BY <1>1, <1>2 DEF Requests

\* A creation of o that gets no answer is a loss that is flagged, and so is one
\* that takes effect after its client gave up.
LEMMA ComesFlagged ==
    ASSUME IInv, Tables, [Next]_vars, NEW o \in Objs,
           NEW id \in OwnedIds(o)', id \notin OwnedIds(o)
    PROVE  \/ LossFlagged(o)
           \/ \E w \in Workers : CreateAnswered(w) /\ work[w].obj = o
<1> USE DEF IInv, RestTyped
<1>1. db' # db
  BY DEF OwnedIds
<1>2. ASSUME NEW r \in Requests, NEW out \in Serve(db, r), db' = out.db
      PROVE  r \in CreateRequests /\ r.by = o
  BY <1>2, NewlyOwned
<1>3. ASSUME NEW w \in Workers, At(w, "create"),
             CreateValid(work[w].obj, work[w].cr.spec),
             \E out \in Serve(db, createRequest(work[w].obj, work[w].cr.spec)) :
                db' = out.db
      PROVE  work[w].obj = o
  <2> DEFINE r == createRequest(work[w].obj, work[w].cr.spec)
  <2>1. work[w].obj \in Objs
    BY <1>3, Busy DEF At
  <2>2. r \in Requests /\ r.by = work[w].obj
    BY <1>3, <2>1, CreateCall, CreationFields
  <2> HIDE DEF r
  <2>3. \E out \in Serve(db, r) : db' = out.db
    BY <1>3 DEF r
  <2> QED BY <1>2, <2>2, <2>3
<1>4. ASSUME NEW r \in UpdateRequests, NEW out \in Serve(db, r), db' = out.db
      PROVE  FALSE
  <2>1. NothingNew(db, db')
    BY <1>4, ChangeCoherent DEF Tables, Sane
  <2> QED BY <2>1 DEF NothingNew, VmKept, WorkloadKept, OwnedIds
<1>5. ASSUME NEW w \in Workers, At(w, "update")
      PROVE  Update(work[w].obj, work[w].cr) \subseteq UpdateRequests
  <2>1. /\ work[w].obj \in Objs /\ work[w].cr.ext \in STRING
        /\ work[w].cr.spec \in SpecsOf[work[w].obj]
    BY <1>5, Busy DEF At, Copies
  <2> QED BY <2>1, UpdateTyped
<1>6. ASSUME NEW w \in Workers, Step(w)
      PROVE  CreateAnswered(w) /\ work[w].obj = o
  <2>1. CASE CreateAnswered(w)
    BY <1>3, <2>1 DEF CreateAnswered
  <2>2. CASE UpdateAnswered(w)
    BY <1>1, <1>4, <1>5, <2>2 DEF UpdateAnswered
  <2> QED BY <1>1, <1>6, <2>1, <2>2 DEF Step, Initialize, ObserveExternal,
         AddFinalizer, MarkPending, CreateRejected, RecordCreated, RecordFailed,
         RemoveFinalizer, Conflict
<1>7. ASSUME NEW w \in Workers, Fault(w)
      PROVE  LossFlagged(o)
  <2>1. CASE CreateUnanswered(w)
    <3>1. work[w].obj = o
      BY <1>1, <1>3, <2>1 DEF CreateUnanswered, Unanswered
    <3>2. budget'.fault < budget.fault
      BY <2>1 DEF CreateUnanswered, Spend
    <3> QED BY <2>1, <3>1, <3>2 DEF CreateUnanswered, LossFlagged
  <2>2. CASE UpdateUnanswered(w)
    BY <1>1, <1>4, <1>5, <2>2 DEF UpdateUnanswered, Unanswered
  <2> QED BY <1>1, <1>7, <2>1, <2>2 DEF Fault, ObserveFaulty, GiveUp
<1>8. CASE LateEffect
  <2>1. PICK r \in stray : (\E out \in Serve(db, r) : db' = out.db)
                             /\ stray' = stray \ {r}
    BY <1>8 DEF LateEffect
  <2>2. r \in CreateRequests /\ r.by = o
    BY <1>2, <2>1
  <2> QED BY <2>1, <2>2 DEF LossFlagged
<1>9. ~ Drift
  <2> SUFFICES ASSUME Drift
               PROVE  FALSE
    OBVIOUS
  <2>1. NothingNew(db, db')
    BY WorldCoherent DEF Drift, Tables, Sane
  <2> QED BY <2>1 DEF NothingNew, VmKept, WorkloadKept, OwnedIds
<1> QED BY <1>1, <1>6, <1>7, <1>8, <1>9 DEF Next, Get, User, Apply, Edit,
       MarkDeleted, ClearPending, UserStore, Crash, vars

\* An answered creation goes on with the id of what it made.
LEMMA AnsweredIsHeld ==
    ASSUME IInv, Tables, [Next]_vars, NEW w \in Workers, CreateAnswered(w),
           NEW o \in Objs, work[w].obj = o,
           NEW id \in OwnedIds(o)', id \notin OwnedIds(o)
    PROVE  At(w, "record")' /\ work'[w].obj = o /\ work'[w].cr.ext = id
<1> DEFINE s == work[w]
<1>1. s \in Jobs /\ s.cr \in Copies
  BY Busy DEF IInv, CreateAnswered, At
<1>2. PICK out \in Serve(db, createRequest(o, s.cr.spec)) :
         /\ db' = out.db
         /\ Proceed(w, IF out.answer.code = "OK"
                       THEN [s EXCEPT !.phase = "record",
                               !.cr.ext = CreatedName(o, s.cr, out.answer)]
                       ELSE [s EXCEPT !.phase = "fail"])
  BY DEF CreateAnswered
<1>3. HasId(o)
  <2> DEFINE r == createRequest(o, s.cr.spec)
  <2>1. At(w, "create") /\ CreateValid(o, s.cr.spec)
    BY DEF CreateAnswered
  <2>2. r \in Requests
    BY <2>1, CreateCall
  <2>3. r.rpc \in {"CreateVm", "CreateWorkload"}
    BY <1>2, <2>2, NewlyOwned
  <2> QED BY <2>3, CreationFields DEF HasId
<1>4. out.db # db
  BY <1>2 DEF OwnedIds
<1> DEFINE ext == CreatedName(o, s.cr, out.answer)
<1>5. /\ out.answer.code = "OK"
      /\ \A x \in (out.db.vms \ db.vms) \cup (out.db.workloads \ db.workloads) :
            x.id = ext
  <2>1. db \in Databases
    BY DEF IInv, RestTyped
  <2>2. \/ out.answer.code # "OK" /\ out.db = db
        \/ /\ out.answer.code = "OK"
           /\ ext \in out.db.issued
           /\ \A x \in (out.db.vms \ db.vms) \cup (out.db.workloads \ db.workloads) :
                 x.id = ext
    BY <1>3, <2>1, CreationOutcome
  <2> HIDE DEF ext
  <2> QED BY <1>4, <2>2
<1> HIDE DEF ext
<1>6. id = ext
  BY <1>2, <1>5 DEF OwnedIds
<1>7. work'[w] = [s EXCEPT !.phase = "record", !.cr.ext = ext]
  BY <1>2, <1>5 DEF Proceed, ext, IInv, Consistent, WorkTyped
<1> QED BY <1>1, <1>6, <1>7 DEF Jobs, Copies, At

\* A worker on its way to the record of a creation goes on to it, or drops it.
LEMMA RecordMove ==
    ASSUME IInv, [Next]_vars, NEW w \in Workers, At(w, "record")
    PROVE  \/ SameJob(work[w], work'[w])
           \/ RecordCreated(w)
           \/ /\ kube' = kube /\ work'[w] = Idle
              /\ \A v \in Workers : work'[v] \in {work[v], Idle}
<1>1. \A o : SameJob(work[w], Outdated(w, o))
  <2>1. work[w] \in Jobs
    BY DEF IInv, Consistent, WorkTyped
  <2> QED BY <2>1 DEF SameJob, Outdated, Jobs
<1>2. SameJob(work[w], work[w])
  BY DEF SameJob
<1>3. ASSUME NEW v \in Workers, v # w
      PROVE  /\ \A next : Proceed(v, next) => SameJob(work[w], work'[w])
             /\ \A o, k, next : Store(v, o, k, next) => SameJob(work[w], work'[w])
  BY <1>1, <1>2, <1>3 DEF Proceed, Store, IInv, Consistent, WorkTyped
<1>4. ASSUME NEW v \in Workers, v # w, Step(v) \/ Fault(v)
      PROVE  SameJob(work[w], work'[w])
  <2>1. CASE Step(v)
    <3>1. CASE Initialize(v) \/ AddFinalizer(v) \/ ObserveExternal(v)
      BY <1>3, <1>4, <3>1 DEF Initialize, AddFinalizer, ObserveExternal
    <3>2. CASE MarkPending(v) \/ CreateRejected(v) \/ CreateAnswered(v)
                 \/ RecordCreated(v) \/ RecordFailed(v)
      BY <1>3, <1>4, <3>2 DEF MarkPending, CreateRejected, CreateAnswered,
         RecordCreated, RecordFailed
    <3>3. CASE UpdateAnswered(v) \/ RemoveFinalizer(v) \/ Conflict(v)
      BY <1>3, <1>4, <3>3 DEF UpdateAnswered, RemoveFinalizer, Conflict
    <3> QED BY <2>1, <3>1, <3>2, <3>3 DEF Step
  <2>2. CASE Fault(v)
    BY <1>3, <1>4, <2>2 DEF Fault, ObserveFaulty, CreateUnanswered,
       UpdateUnanswered, GiveUp
  <2> QED BY <1>4, <2>1, <2>2
<1>5. CASE Step(w)
  BY <1>5 DEF Step, At, Initialize, ObserveExternal, AddFinalizer, MarkPending,
     CreateRejected, CreateAnswered, RecordFailed, UpdateAnswered, RemoveFinalizer,
     Conflict, Writing
<1>6. CASE Fault(w)
  <2>1. Proceed(w, Idle)
    BY <1>6 DEF Fault, At, ObserveFaulty, CreateUnanswered, UpdateUnanswered, GiveUp
  <2> QED BY <2>1 DEF Proceed, IInv, Consistent, WorkTyped
<1>7. ASSUME NEW v \in Workers, NEW o \in Objs, Get(v, o)
      PROVE  SameJob(work[w], work'[w])
  <2>1. v # w
    BY <1>7 DEF Get, At
  <2> QED BY <1>2, <1>7, <2>1 DEF Get, IInv, Consistent, WorkTyped
<1>8. ASSUME NEW o \in Objs, User(o)
      PROVE  SameJob(work[w], work'[w])
  BY <1>1, <1>8 DEF User, Apply, Edit, MarkDeleted, ClearPending, UserStore
<1>9. ASSUME NEW p, Crash(p)
      PROVE  \/ SameJob(work[w], work'[w])
             \/ /\ kube' = kube /\ work'[w] = Idle
                /\ \A v \in Workers : work'[v] \in {work[v], Idle}
  BY <1>2, <1>9 DEF Crash
<1>10. CASE LateEffect \/ Drift \/ UNCHANGED vars
  BY <1>2, <1>10 DEF LateEffect, Drift, vars
<1> QED BY <1>4, <1>5, <1>6, <1>7, <1>8, <1>9, <1>10 DEF Next

\* What a worker was about to record is recorded, or its resource stays pending
\* with nobody at work on it.
LEMMA DroppedIsFlagged ==
    ASSUME IInv, [Next]_vars, NEW w \in Workers, At(w, "record"),
           NEW o \in Objs, work[w].obj = o
    PROVE  \/ At(w, "record")' /\ work'[w].obj = o
                /\ work'[w].cr.ext = work[w].cr.ext
           \/ kube'[o].ext = work[w].cr.ext
           \/ LossFlagged(o)
<1>1.  kube[o] \in Copies /\ Creating(w)
  BY Busy DEF IInv, At, Creating
<1>2. CASE SameJob(work[w], work'[w])
  BY <1>2 DEF SameJob, At
<1>3. CASE RecordCreated(w)
  <2>1. kube' = [kube EXCEPT ![o] = Recorded(work[w], "succeeded")]
    BY <1>3 DEF RecordCreated, Store
  <2>2. kube'[o] = Recorded(work[w], "succeeded")
    BY <1>1, <2>1 DEF IInv, Consistent, KubeTyped
  <2> QED BY <1>1, <2>2 DEF Recorded, Copies
<1>4. CASE /\ kube' = kube /\ work'[w] = Idle
           /\ \A v \in Workers : work'[v] \in {work[v], Idle}
  <2>1. kube'[o].create = "pending"
    BY <1>1, <1>4 DEF IInv, Consistent, AllSound, Sound, Protected, CreatingPhases,
       Creating
  <2>2. \A v \in Workers : Creating(v)' => Creating(v) /\ work'[v] = work[v] /\ v # w
    BY <1>4, IdleSound DEF Creating
  <2>3. ~ InCreation(o)'
    BY <1>1, <2>2 DEF InCreation, IInv, Consistent, Exclusive
  <2> QED BY <2>1, <2>3 DEF LossFlagged
<1> QED BY <1>2, <1>3, <1>4, RecordMove

\* A VM or a workload is left behind only where that is flagged: an answered
\* creation holds the id until it is on record, the record keeps it, and what
\* takes it away leaves the pending annotation or no resource at all.
THEOREM LossesAreFlagged ==
    ASSUME Apart, KindKept
    PROVE  Spec => LossIsFlagged
<1>1. Init => Faithful
  BY InitFaithful
<1>2. IInv /\ Tables /\ Faithful /\ [Next]_vars => Faithful'
  BY FaithfulKept
<1>3. IInv /\ Tables /\ Faithful /\ [Next]_vars =>
         [\A o \in Objs : Orphans(o)' \subseteq Orphans(o) \/ LossFlagged(o)]_vars
  <2> SUFFICES ASSUME IInv, Tables, Faithful, [Next]_vars, NEW o \in Objs,
                      ~ LossFlagged(o), NEW id \in Orphans(o)'
               PROVE  id \in Orphans(o)
    OBVIOUS
  <2>1. /\ id \in OwnedIds(o)' /\ id # kube'[o].ext
        /\ \A w \in Workers : At(w, "record")' /\ work'[w].obj = o =>
              id # work'[w].cr.ext
    BY DEF Orphans, At
  <2>2. id \in OwnedIds(o)
    <3> SUFFICES ASSUME id \notin OwnedIds(o)
                 PROVE  FALSE
      OBVIOUS
    <3>1. PICK w \in Workers : CreateAnswered(w) /\ work[w].obj = o
      BY <2>1, ComesFlagged
    <3> QED BY <2>1, <3>1, AnsweredIsHeld
  <2>3. id # kube[o].ext
    BY <2>1, <2>2, FaithfulRemembers DEF LossFlagged
  <2>4. \A w \in Workers : At(w, "record") /\ work[w].obj = o => id # work[w].cr.ext
    BY <2>1, DroppedIsFlagged
  <2> QED BY <2>2, <2>3, <2>4 DEF Orphans
<1> QED BY <1>1, <1>2, <1>3, Invariance, TablesAreSane, PTL DEF Spec, LossIsFlagged

=============================================================================

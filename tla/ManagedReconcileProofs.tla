------------------------ MODULE ManagedReconcileProofs ------------------------
(***************************************************************************)
(* The safety of creation and deletion, for any number of resources,       *)
(* workers and processes and any budget.                                   *)
(***************************************************************************)
EXTENDS Correctness, HandlersProofs

CreatingPhases == {"create", "record", "fail"}

\* The resource a running creation works for.
Protected(k) == k.create = "pending" /\ k.present /\ k.finalizer

\* A job whose resource is now k.  A copy that is fresh is the resource itself,
\* except that Create changes its external name; until a creation starts, the
\* copy shows no pending one; and it starts under the finalizer only.
Sound(s, k) ==
    s.phase # "idle" =>
        /\ s.phase # "delete"
        /\ s.cr.present
        /\ s.phase \in CreatingPhases => Protected(k)
        /\ s.phase \notin CreatingPhases /\ s.fresh => s.cr = k
        /\ s.phase \in {"init", "observe", "adopt", "pend", "finalize"} =>
              s.cr.create # "pending"
        /\ s.phase = "pend" => s.cr.finalizer

AllSound == \A w \in Workers : Sound(work[w], kube[work[w].obj])

Exclusive ==
    \A v, w \in Workers :
        v # w /\ Creating(v) /\ Creating(w) => work[v].obj # work[w].obj

\* The part of the invariant that is about the resources and the workers.
Consistent == KubeTyped /\ WorkTyped /\ AllSound /\ Exclusive

IInv == Consistent /\ RestTyped

-----------------------------------------------------------------------------
(* What the three ways of writing the variables keep                        *)

\* An outdated job keeps its type and stays sound, if its creation may go on.
LEMMA OutdatedSound ==
    ASSUME NEW v, NEW o, NEW k, JobTyped(work[v]),
           Sound(work[v], kube[work[v].obj]),
           work[v].obj # o => k = kube[work[v].obj],
           Creating(v) /\ work[v].obj = o => Protected(k)
    PROVE  /\ JobTyped(Outdated(v, o))
           /\ Outdated(v, o).obj = work[v].obj
           /\ Outdated(v, o).phase = work[v].phase
           /\ Sound(Outdated(v, o), k)
<1>1. CASE work[v].obj = o
  <2>1. Outdated(v, o) = [work[v] EXCEPT !.fresh = FALSE]
    BY <1>1 DEF Outdated
  <2>2. work[v] \in Jobs
    BY DEF JobTyped
  <2>3. /\ Outdated(v, o) \in Jobs
        /\ Outdated(v, o).fresh = FALSE
        /\ Outdated(v, o).obj = work[v].obj
        /\ Outdated(v, o).phase = work[v].phase
        /\ Outdated(v, o).cr = work[v].cr
    BY <2>1, <2>2 DEF Jobs
  <2> QED BY <1>1, <2>3 DEF JobTyped, Sound, Creating, CreatingPhases
<1>2. CASE work[v].obj # o
  BY <1>2 DEF Outdated
<1> QED BY <1>1, <1>2

\* An idle job is sound, whatever becomes of the resources.
LEMMA IdleSound == JobTyped(Idle) /\ Idle.phase = "idle" /\ \A k : Sound(Idle, k)
<1>1. Absent \in Copies
  BY LiteralAssumption DEF Absent, Copies, Specs
<1>2. Idle \in Jobs /\ Idle.phase = "idle"
  BY <1>1 DEF Idle, Jobs, Phases
<1> QED BY <1>2 DEF JobTyped, Sound

\* A worker stores k as o.
LEMMA StoreKeeps ==
    ASSUME Consistent, NEW w \in Workers, NEW o \in Objs, NEW k \in Copies,
           k.present => k.spec \in SpecsOf[o],
           NEW next, JobTyped(next), Sound(next, k),
           next.phase = "idle" \/ next.obj = o,
           \A v \in Workers \ {w} : Creating(v) /\ work[v].obj = o =>
               Protected(k) /\ next.phase \notin CreatingPhases,
           Store(w, o, k, next)
    PROVE  Consistent'
<1>1. /\ kube' = [kube EXCEPT ![o] = k]
      /\ work' = [v \in Workers |-> IF v = w THEN next ELSE Outdated(v, o)]
  BY DEF Store
<1>2. KubeTyped'
  BY <1>1 DEF Consistent, KubeTyped
<1>3. ASSUME NEW v \in Workers \ {w}
      PROVE  /\ work'[v].obj = work[v].obj
             /\ work'[v].phase = work[v].phase
             /\ JobTyped(work'[v])
             /\ Sound(work'[v], kube'[work'[v].obj])
  <2>1. JobTyped(work[v]) /\ Sound(work[v], kube[work[v].obj])
    BY DEF Consistent, WorkTyped, AllSound
  <2>2. work'[v] = Outdated(v, o)
    BY <1>1
  <2>3. CASE work[v].phase = "idle"
    <3>1. /\ JobTyped(Outdated(v, o))
          /\ Outdated(v, o).obj = work[v].obj
          /\ Outdated(v, o).phase = "idle"
      BY <2>1, <2>3 DEF JobTyped, Outdated, Jobs
    <3> QED BY <2>2, <2>3, <3>1 DEF Sound
  <2>4. CASE work[v].phase # "idle"
    <3>1. work[v].obj \in Objs
      BY <2>1, <2>4 DEF JobTyped
    <3>2. /\ work[v].obj # o => kube'[work[v].obj] = kube[work[v].obj]
          /\ kube'[o] = k
      BY <1>1, <3>1 DEF Consistent, KubeTyped
    <3>3. Creating(v) /\ work[v].obj = o => Protected(k)
      OBVIOUS
    <3> QED BY <2>1, <2>2, <3>2, <3>3, OutdatedSound
  <2> QED BY <2>3, <2>4
<1>4. work'[w] = next /\ (next.phase = "idle" \/ kube'[next.obj] = k)
  BY <1>1 DEF Consistent, KubeTyped
<1>5. WorkTyped'
  <2>1. \A v \in Workers : JobTyped(work'[v])
    BY <1>3, <1>4
  <2>2. work' \in [Workers -> Jobs]
    BY <1>1, <2>1 DEF JobTyped
  <2> QED BY <2>1, <2>2 DEF WorkTyped, JobTyped
<1>6. AllSound'
  <2>1. Sound(work'[w], kube'[work'[w].obj])
    BY <1>4 DEF Sound
  <2>2. \A v \in Workers : Sound(work'[v], kube'[work'[v].obj])
    BY <1>3, <2>1
  <2> QED BY <2>2 DEF AllSound, Sound, Protected
<1>7. Exclusive'
  BY <1>3, <1>4 DEF Consistent, Exclusive, Creating, CreatingPhases
<1> QED BY <1>2, <1>5, <1>6, <1>7 DEF Consistent

\* A worker goes on without writing its resource.
LEMMA ProceedKeeps ==
    ASSUME Consistent, NEW w \in Workers,
           NEW next, JobTyped(next), Sound(next, kube[next.obj]),
           next.phase \in CreatingPhases => Creating(w) /\ next.obj = work[w].obj,
           Proceed(w, next)
    PROVE  Consistent'
<1>1. kube' = kube /\ work' = [work EXCEPT ![w] = next]
  BY DEF Proceed
<1>2. \A v \in Workers : work'[v] = IF v = w THEN next ELSE work[v]
  BY <1>1 DEF Consistent, WorkTyped
<1>3. KubeTyped'
  BY <1>1 DEF Consistent, KubeTyped
<1>4. WorkTyped'
  <2>1. \A v \in Workers : JobTyped(work'[v])
    BY <1>2 DEF Consistent, WorkTyped
  <2>2. work' \in [Workers -> Jobs]
    BY <1>1 DEF Consistent, WorkTyped, JobTyped
  <2> QED BY <2>1, <2>2 DEF WorkTyped, JobTyped
<1>5. AllSound'
  <2>1. \A v \in Workers : Sound(work'[v], kube'[work'[v].obj])
    BY <1>1, <1>2 DEF Consistent, AllSound
  <2> QED BY <2>1 DEF AllSound, Sound, Protected
<1>6. Exclusive'
  BY <1>2 DEF Consistent, Exclusive, Creating, CreatingPhases
<1> QED BY <1>3, <1>4, <1>5, <1>6 DEF Consistent

\* A user writes a resource.
LEMMA UserStoreKeeps ==
    ASSUME Consistent, NEW o \in Objs, NEW k \in Copies,
           k.present => k.spec \in SpecsOf[o],
           \A v \in Workers : Creating(v) /\ work[v].obj = o => Protected(k),
           UserStore(o, k)
    PROVE  Consistent'
<1>1. /\ kube' = [kube EXCEPT ![o] = k]
      /\ work' = [v \in Workers |-> Outdated(v, o)]
  BY DEF UserStore
<1>2. KubeTyped'
  BY <1>1 DEF Consistent, KubeTyped
<1>3. ASSUME NEW v \in Workers
      PROVE  /\ work'[v].obj = work[v].obj
             /\ work'[v].phase = work[v].phase
             /\ JobTyped(work'[v])
             /\ Sound(work'[v], kube'[work'[v].obj])
  <2>1. JobTyped(work[v]) /\ Sound(work[v], kube[work[v].obj])
    BY DEF Consistent, WorkTyped, AllSound
  <2>2. work'[v] = Outdated(v, o)
    BY <1>1
  <2>3. CASE work[v].phase = "idle"
    <3>1. /\ JobTyped(Outdated(v, o))
          /\ Outdated(v, o).obj = work[v].obj
          /\ Outdated(v, o).phase = "idle"
      BY <2>1, <2>3 DEF JobTyped, Outdated, Jobs
    <3> QED BY <2>2, <2>3, <3>1 DEF Sound
  <2>4. CASE work[v].phase # "idle"
    <3>1. work[v].obj \in Objs
      BY <2>1, <2>4 DEF JobTyped
    <3>2. /\ work[v].obj # o => kube'[work[v].obj] = kube[work[v].obj]
          /\ kube'[o] = k
      BY <1>1, <3>1 DEF Consistent, KubeTyped
    <3> QED BY <2>1, <2>2, <3>2, OutdatedSound
  <2> QED BY <2>3, <2>4
<1>4. WorkTyped'
  <2>1. \A v \in Workers : JobTyped(work'[v])
    BY <1>3
  <2>2. work' \in [Workers -> Jobs]
    BY <1>1, <2>1 DEF JobTyped
  <2> QED BY <2>1, <2>2 DEF WorkTyped, JobTyped
<1>5. AllSound'
  <2>1. \A v \in Workers : Sound(work'[v], kube'[work'[v].obj])
    BY <1>3
  <2> QED BY <2>1 DEF AllSound, Sound, Protected
<1>6. Exclusive'
  BY <1>3 DEF Consistent, Exclusive, Creating
<1> QED BY <1>2, <1>4, <1>5, <1>6 DEF Consistent

\* Nobody writes a resource and no worker moves.
LEMMA StutterKeeps ==
    ASSUME Consistent, UNCHANGED <<kube, work>>
    PROVE  Consistent'
BY DEF Consistent, KubeTyped, WorkTyped, AllSound, Exclusive, Creating, JobTyped,
       Sound, Protected

-----------------------------------------------------------------------------
(* What is known of a worker that is not idle                               *)

\* Its job, its copy and its resource have their types, and it is sound.
LEMMA Busy ==
    ASSUME Consistent, NEW w \in Workers, ~ At(w, "idle")
    PROVE  /\ work[w] \in Jobs
           /\ work[w].obj \in Objs
           /\ work[w].cr \in Copies
           /\ work[w].cr.spec \in SpecsOf[work[w].obj]
           /\ kube[work[w].obj] \in Copies
           /\ kube[work[w].obj].present =>
                 kube[work[w].obj].spec \in SpecsOf[work[w].obj]
           /\ Sound(work[w], kube[work[w].obj])
<1>1. /\ JobTyped(work[w])
      /\ Sound(work[w], kube[work[w].obj])
  BY DEF Consistent, WorkTyped, AllSound
<1>2. work[w] \in Jobs /\ work[w].obj \in Objs
  BY <1>1 DEF JobTyped, At
<1> QED BY <1>1, <1>2 DEF JobTyped, At, Jobs, Consistent, KubeTyped

\* A job keeps its type when its phase, its copy or its observation change.
LEMMA MovedTyped ==
    ASSUME NEW s \in Jobs, s.obj \in Objs,
           NEW phase \in Phases, NEW cr \in Copies, cr.spec \in SpecsOf[s.obj],
           NEW obs \in {"none", "absent", "drifted", "current"}
    PROVE  LET n == [s EXCEPT !.phase = phase, !.cr = cr, !.obs = obs]
           IN  /\ JobTyped(n)
               /\ n.phase = phase /\ n.cr = cr /\ n.obs = obs
               /\ n.obj = s.obj /\ n.fresh = s.fresh
BY DEF Jobs, JobTyped

\* Whoever holds a fresh copy that shows no pending creation is alone: nobody
\* creates the resource.
LEMMA FreshAlone ==
    ASSUME Consistent, NEW w \in Workers, work[w].fresh,
           work[w].phase \in {"init", "adopt", "pend", "finalize"},
           NEW v \in Workers, Creating(v)
    PROVE  work[v].obj # work[w].obj
<1>1. ~ At(w, "idle") /\ ~ At(v, "idle")
  BY DEF At, Creating
<1>2. /\ work[w].cr = kube[work[w].obj]
      /\ work[w].cr.create # "pending"
  BY <1>1, Busy DEF Sound, CreatingPhases, At
<1>3. Protected(kube[work[v].obj])
  BY <1>1, Busy DEF Sound, CreatingPhases, Creating, At
<1> QED BY <1>2, <1>3 DEF Protected

-----------------------------------------------------------------------------
(* The steps of a reconcile                                                 *)

\* Spending leaves a budget, and what does not touch the service's side keeps it.
LEMMA SpendTyped ==
    ASSUME RestTyped, NEW kind \in {"edit", "fault", "crash", "drift"}, Spend(kind)
    PROVE  budget' \in [{"edit", "fault", "crash", "drift"} -> Nat]
BY DEF RestTyped, Spend

\* A step that only spends keeps the types of the service's side.
LEMMA RestKept ==
    ASSUME RestTyped, UNCHANGED <<db, stray>>,
           budget' \in [{"edit", "fault", "crash", "drift"} -> Nat]
    PROVE  RestTyped'
BY DEF RestTyped

\* Get starts from the resource as it is, without a pending creation.
LEMMA GetKeeps ==
    ASSUME IInv, NEW w \in Workers, NEW o \in Objs, Get(w, o)
    PROVE  IInv'
<1> DEFINE next == [phase |-> "init", obj |-> o, cr |-> kube[o], fresh |-> TRUE,
                    obs |-> "none"]
<1>1. /\ kube[o] \in Copies
      /\ kube[o].spec \in SpecsOf[o]
      /\ kube[o].present
      /\ kube[o].create # "pending"
  BY DEF IInv, Consistent, KubeTyped, Get, ExternalCreateIncomplete
<1>2. JobTyped(next)
  BY <1>1 DEF JobTyped, Jobs, Phases
<1>3. Sound(next, kube[next.obj])
  BY <1>1 DEF Sound, CreatingPhases
<1>4. Proceed(w, next)
  BY DEF Get, Proceed
<1>5. next.phase \notin CreatingPhases
  BY DEF CreatingPhases
<1> HIDE DEF next
<1>6. Consistent'
  BY <1>2, <1>3, <1>4, <1>5, ProceedKeeps DEF IInv
<1> QED BY <1>6 DEF IInv, Get, RestTyped

\* Initialize writes from a fresh copy, or only moves on.
LEMMA InitializeKeeps ==
    ASSUME IInv, NEW w \in Workers, Initialize(w)
    PROVE  IInv'
<1> DEFINE s == work[w]
           k == [s.cr EXCEPT !.ext = MetaName[s.obj]]
<1>1. s.phase = "init" /\ ~ At(w, "idle")
  BY DEF Initialize, At
<1>2. /\ s \in Jobs /\ s.obj \in Objs /\ s.cr \in Copies
      /\ s.cr.spec \in SpecsOf[s.obj]
      /\ Sound(s, kube[s.obj])
  BY <1>1, Busy DEF IInv
<1>3. /\ k \in Copies /\ k.spec = s.cr.spec /\ k.present = s.cr.present
      /\ k.create = s.cr.create
  BY <1>2, MetaNameAssumption DEF Copies
<1>4. ASSUME s.fresh, Store(w, s.obj, k, [s EXCEPT !.cr = k, !.phase = "observe"])
      PROVE  Consistent'
  <2> DEFINE next == [s EXCEPT !.cr = k, !.phase = "observe"]
  <2>1. /\ JobTyped(next) /\ next.phase = "observe" /\ next.cr = k
        /\ next.obj = s.obj
    BY <1>2, <1>3 DEF Jobs, JobTyped, Phases
  <2>2. Sound(next, k)
    BY <1>1, <1>2, <1>3, <2>1 DEF Sound, CreatingPhases
  <2>3. \A v \in Workers \ {w} : ~ (Creating(v) /\ work[v].obj = s.obj)
    BY <1>1, <1>4, FreshAlone DEF IInv
  <2> HIDE DEF next, k
  <2>4. Store(w, s.obj, k, next)
    BY <1>4 DEF next
  <2> QED BY <1>2, <1>3, <2>1, <2>2, <2>3, <2>4, StoreKeeps DEF IInv
<1>5. ASSUME Proceed(w, [s EXCEPT !.phase = "observe"])
      PROVE  Consistent'
  <2> DEFINE next == [s EXCEPT !.phase = "observe"]
  <2>1. /\ JobTyped(next) /\ next.phase = "observe" /\ next.cr = s.cr
        /\ next.obj = s.obj /\ next.fresh = s.fresh
    BY <1>2 DEF Jobs, JobTyped, Phases
  <2>2. Sound(next, kube[next.obj]) /\ next.phase \notin CreatingPhases
    BY <1>1, <1>2, <2>1 DEF Sound, CreatingPhases
  <2> HIDE DEF next
  <2>3. Proceed(w, next)
    BY <1>5 DEF next
  <2> QED BY <2>1, <2>2, <2>3, ProceedKeeps DEF IInv
<1>6. Consistent'
  BY <1>4, <1>5 DEF Initialize
<1>7. UNCHANGED <<db, stray, budget>>
  BY DEF Initialize
<1> QED BY <1>6, <1>7 DEF IInv, RestTyped

\* What follows an observation, with or without a fault.
LEMMA ObservedKeeps ==
    ASSUME IInv, NEW w \in Workers, At(w, "observe"), NEW reply,
           NEW seen \in Observe(work[w].obj, work[w].cr, reply),
           Proceed(w, AfterObserve(work[w], seen))
    PROVE  Consistent'
<1> DEFINE s    == work[w]
           next == AfterObserve(s, seen)
<1>1. /\ s \in Jobs /\ s.obj \in Objs /\ s.cr \in Copies
      /\ s.cr.spec \in SpecsOf[s.obj]
      /\ Sound(s, kube[s.obj])
      /\ s.phase = "observe"
  BY Busy DEF IInv, At
<1>2. seen \in Observations
  BY <1>1, ObserveTyped
<1>3. s.cr.deleting => seen = "absent"
  BY <1>1, DeletingIsAbsent DEF Copies
<1>4. CASE seen = "error"
  <2>1. next = Idle
    BY <1>4 DEF AfterObserve
  <2> QED BY <2>1, IdleSound, ProceedKeeps DEF IInv, CreatingPhases
<1>5. CASE seen # "error"
  <2> DEFINE phase == IF s.cr.deleting THEN "finalize" ELSE "adopt"
  <2>1. next = [s EXCEPT !.obs = seen, !.phase = phase]
    BY <1>3, <1>5 DEF AfterObserve
  <2>2. phase \in {"finalize", "adopt"}
    OBVIOUS
  <2> HIDE DEF phase
  <2>3. /\ JobTyped(next) /\ next.phase = phase /\ next.cr = s.cr
        /\ next.obj = s.obj /\ next.fresh = s.fresh
    BY <1>1, <1>2, <1>5, <2>1, <2>2 DEF Jobs, JobTyped, Phases, Observations
  <2>4. Sound(next, kube[next.obj]) /\ next.phase \notin CreatingPhases
    BY <1>1, <2>2, <2>3 DEF Sound, CreatingPhases
  <2>5. Proceed(w, next)
    OBVIOUS
  <2> HIDE DEF next
  <2> QED BY <2>3, <2>4, <2>5, ProceedKeeps DEF IInv
<1> QED BY <1>4, <1>5

\* ObserveExternal only moves on.
LEMMA ObserveExternalKeeps ==
    ASSUME IInv, NEW w \in Workers, ObserveExternal(w)
    PROVE  IInv'
<1>1. Consistent'
  BY ObservedKeeps DEF ObserveExternal
<1> QED BY <1>1 DEF IInv, ObserveExternal, RestTyped

\* So does ObserveFaulty.
LEMMA ObserveFaultyKeeps ==
    ASSUME IInv, NEW w \in Workers, ObserveFaulty(w)
    PROVE  IInv'
<1>1. Consistent'
  BY ObservedKeeps DEF ObserveFaulty
<1> QED BY <1>1, SpendTyped, RestKept DEF IInv, ObserveFaulty

\* Where a reconcile goes on with its finalizer in place.
LEMMA AfterAdoptSound ==
    ASSUME NEW s \in Jobs, s.obj \in Objs, s.cr.spec \in SpecsOf[s.obj],
           s.phase = "adopt", s.cr.finalizer, NEW k, Sound(s, k)
    PROVE  LET n == AfterAdopt(s)
           IN  /\ JobTyped(n) /\ Sound(n, k)
               /\ n.phase = "idle" \/ n.obj = s.obj
               /\ n.phase \notin CreatingPhases
<1> DEFINE n == AfterAdopt(s)
<1>1. ASSUME NEW phase \in {"pend", "update"}, n = [s EXCEPT !.phase = phase]
      PROVE  /\ JobTyped(n) /\ Sound(n, k)
             /\ n.obj = s.obj
             /\ n.phase \notin CreatingPhases
  <2> HIDE DEF n
  <2>1. /\ JobTyped(n) /\ n.phase = phase /\ n.cr = s.cr
        /\ n.obj = s.obj /\ n.fresh = s.fresh
    BY <1>1 DEF Jobs, JobTyped, Phases
  <2> QED BY <2>1 DEF Sound, CreatingPhases
<1>2. CASE s.obs = "absent"
  BY <1>1, <1>2 DEF AfterAdopt
<1>3. CASE s.obs = "drifted"
  BY <1>1, <1>3 DEF AfterAdopt
<1>4. CASE s.obs \notin {"absent", "drifted"}
  BY <1>4, IdleSound DEF AfterAdopt, CreatingPhases
<1> QED BY <1>2, <1>3, <1>4

\* AddFinalizer writes from a fresh copy, or only moves on.
LEMMA AddFinalizerKeeps ==
    ASSUME IInv, NEW w \in Workers, AddFinalizer(w)
    PROVE  IInv'
<1> DEFINE s == work[w]
           k == [s.cr EXCEPT !.finalizer = TRUE]
<1>1. s.phase = "adopt" /\ ~ At(w, "idle")
  BY DEF AddFinalizer, At
<1>2. /\ s \in Jobs /\ s.obj \in Objs /\ s.cr \in Copies
      /\ s.cr.spec \in SpecsOf[s.obj]
      /\ Sound(s, kube[s.obj])
  BY <1>1, Busy DEF IInv
<1>3. ASSUME s.fresh, Store(w, s.obj, k, AfterAdopt([s EXCEPT !.cr = k]))
      PROVE  Consistent'
  <2> DEFINE t    == [s EXCEPT !.cr = k]
             next == AfterAdopt(t)
  <2>1. /\ k \in Copies /\ k.spec = s.cr.spec /\ k.present = s.cr.present
        /\ k.create = s.cr.create /\ k.finalizer
    BY <1>2 DEF Copies
  <2>2. /\ t \in Jobs /\ t.phase = "adopt" /\ t.cr = k /\ t.obj = s.obj
    BY <1>1, <1>2, <2>1 DEF Jobs
  <2>3. Sound(t, k)
    BY <1>1, <1>2, <2>1, <2>2 DEF Sound, CreatingPhases
  <2>4. \A v \in Workers \ {w} : ~ (Creating(v) /\ work[v].obj = s.obj)
    BY <1>1, <1>3, FreshAlone DEF IInv
  <2> HIDE DEF k, t
  <2>5. /\ JobTyped(next) /\ Sound(next, k)
        /\ next.phase = "idle" \/ next.obj = s.obj
    BY <1>2, <2>1, <2>2, <2>3, AfterAdoptSound
  <2>6. Store(w, s.obj, k, next)
    BY <1>3 DEF k, t
  <2> HIDE DEF next
  <2> QED BY <1>2, <2>1, <2>4, <2>5, <2>6, StoreKeeps DEF IInv
<1>4. ASSUME s.cr.finalizer, Proceed(w, AfterAdopt(s))
      PROVE  Consistent'
  <2> DEFINE next == AfterAdopt(s)
  <2>1. /\ JobTyped(next) /\ Sound(next, kube[s.obj])
        /\ next.phase = "idle" \/ next.obj = s.obj
        /\ next.phase \notin CreatingPhases
    BY <1>1, <1>2, <1>4, AfterAdoptSound
  <2>2. Proceed(w, next)
    BY <1>4
  <2> HIDE DEF next
  <2>3. Sound(next, kube[next.obj])
    BY <2>1 DEF Sound
  <2> QED BY <2>1, <2>2, <2>3, ProceedKeeps DEF IInv
<1>5. Consistent' /\ UNCHANGED <<db, stray, budget>>
  BY <1>3, <1>4 DEF AddFinalizer
<1> QED BY <1>5 DEF IInv, RestTyped

\* MarkPending starts a creation: from a fresh copy, so nobody else has one.
LEMMA MarkPendingKeeps ==
    ASSUME IInv, NEW w \in Workers, MarkPending(w)
    PROVE  IInv'
<1> DEFINE s    == work[w]
           k    == [s.cr EXCEPT !.create = "pending"]
           next == [s EXCEPT !.cr = k, !.phase = "create"]
<1>1. s.phase = "pend" /\ s.fresh /\ ~ At(w, "idle")
  BY DEF MarkPending, At
<1>2. /\ s \in Jobs /\ s.obj \in Objs /\ s.cr \in Copies
      /\ s.cr.spec \in SpecsOf[s.obj]
      /\ Sound(s, kube[s.obj])
  BY <1>1, Busy DEF IInv
<1>3. /\ k \in Copies /\ k.spec = s.cr.spec /\ k.present = s.cr.present
      /\ k.create = "pending" /\ k.finalizer = s.cr.finalizer
  BY <1>2 DEF Copies
<1>4. /\ JobTyped(next) /\ next.phase = "create" /\ next.cr = k
      /\ next.obj = s.obj
  BY <1>2, <1>3 DEF Jobs, JobTyped, Phases
<1>5. Sound(next, k)
  BY <1>1, <1>2, <1>3, <1>4 DEF Sound, Protected, CreatingPhases
<1>6. \A v \in Workers \ {w} : ~ (Creating(v) /\ work[v].obj = s.obj)
  BY <1>1, FreshAlone DEF IInv
<1>7. Store(w, s.obj, k, next) /\ UNCHANGED <<db, stray, budget>>
  BY DEF MarkPending
<1> HIDE DEF k, next
<1>8. Consistent'
  BY <1>2, <1>3, <1>4, <1>5, <1>6, <1>7, StoreKeeps DEF IInv
<1> QED BY <1>7, <1>8 DEF IInv, RestTyped

\* A creation goes on to its next phase, with any external name in its copy.
LEMMA CreationKeeps ==
    ASSUME IInv, NEW w \in Workers, At(w, "create"),
           NEW phase \in {"record", "fail"}, NEW ext \in STRING,
           NEW next, next = [work[w] EXCEPT !.phase = phase, !.cr.ext = ext],
           Proceed(w, next)
    PROVE  Consistent'
<1> DEFINE s == work[w]
           k == [s.cr EXCEPT !.ext = ext]
<1>1. /\ s \in Jobs /\ s.obj \in Objs /\ s.cr \in Copies
      /\ s.cr.spec \in SpecsOf[s.obj]
      /\ Sound(s, kube[s.obj])
      /\ s.phase = "create"
  BY Busy DEF IInv, At
<1>2. k \in Copies /\ k.spec = s.cr.spec /\ k.present = s.cr.present
  BY <1>1 DEF Copies
<1>3. /\ JobTyped(next) /\ next.phase = phase /\ next.cr = k /\ next.obj = s.obj
  BY <1>1, <1>2 DEF Jobs, JobTyped, Phases
<1>4. Sound(next, kube[next.obj])
  BY <1>1, <1>2, <1>3 DEF Sound, CreatingPhases
<1>5. Creating(w)
  BY <1>1 DEF Creating
<1> QED BY <1>3, <1>4, <1>5, ProceedKeeps DEF IInv

\* A rejected creation goes on to its failure.
LEMMA CreateRejectedKeeps ==
    ASSUME IInv, NEW w \in Workers, CreateRejected(w)
    PROVE  IInv'
<1> DEFINE s == work[w]
<1>1. At(w, "create") /\ ~ At(w, "idle")
  BY DEF CreateRejected, At
<1>2. s \in Jobs /\ s.cr \in Copies
  BY <1>1, Busy DEF IInv
<1>3. /\ s.cr.ext \in STRING
      /\ [s EXCEPT !.phase = "fail"] = [s EXCEPT !.phase = "fail", !.cr.ext = s.cr.ext]
  BY <1>2 DEF Jobs, Copies
<1>4. Proceed(w, [s EXCEPT !.phase = "fail"]) /\ UNCHANGED <<db, stray, budget>>
  BY DEF CreateRejected
<1>5. Consistent'
  BY <1>1, <1>3, <1>4, CreationKeeps
<1> QED BY <1>4, <1>5 DEF IInv, RestTyped

\* An answered creation goes on with the name it got, or to its failure.
LEMMA CreateAnsweredKeeps ==
    ASSUME IInv, NEW w \in Workers, CreateAnswered(w)
    PROVE  IInv'
<1> DEFINE s == work[w]
           r == createRequest(s.obj, s.cr.spec)
<1>1. At(w, "create") /\ ~ At(w, "idle")
  BY DEF CreateAnswered, At
<1>2. /\ s \in Jobs /\ s.obj \in Objs /\ s.cr \in Copies
      /\ s.cr.spec \in SpecsOf[s.obj]
      /\ s.cr.ext \in STRING
  BY <1>1, Busy DEF IInv, Copies
<1>3. PICK out \in Serve(db, r) :
         /\ db' = out.db
         /\ Proceed(w, IF out.answer.code = "OK"
                       THEN [s EXCEPT !.phase = "record",
                               !.cr.ext = CreatedName(s.obj, s.cr, out.answer)]
                       ELSE [s EXCEPT !.phase = "fail"])
  BY DEF CreateAnswered
<1>4. ASSUME out.answer.code = "OK"
      PROVE  Consistent'
  <2> DEFINE ext == CreatedName(s.obj, s.cr, out.answer)
  <2>1. ext \in STRING
    BY <1>2, <1>4, CreatedNameTyped DEF IInv, RestTyped
  <2>2. Proceed(w, [s EXCEPT !.phase = "record", !.cr.ext = ext])
    BY <1>3, <1>4
  <2> HIDE DEF ext
  <2> QED BY <1>1, <2>1, <2>2, CreationKeeps
<1>5. ASSUME out.answer.code # "OK"
      PROVE  Consistent'
  <2>1. [s EXCEPT !.phase = "fail"] = [s EXCEPT !.phase = "fail", !.cr.ext = s.cr.ext]
    BY <1>2 DEF Jobs, Copies
  <2>2. Proceed(w, [s EXCEPT !.phase = "fail"])
    BY <1>3, <1>5
  <2> QED BY <1>1, <1>2, <2>1, <2>2, CreationKeeps
<1>6. db' \in Databases
  BY <1>2, <1>3, CreateRequestTyped, ServeTyped DEF IInv, RestTyped, Requests
<1>7. UNCHANGED <<stray, budget>>
  BY DEF CreateAnswered
<1> QED BY <1>4, <1>5, <1>6, <1>7 DEF IInv, RestTyped

\* A call without an answer leaves the service's side typed.
LEMMA UnansweredTyped ==
    ASSUME RestTyped, NEW r \in Requests, Unanswered(r)
    PROVE  db' \in Databases /\ stray' \in SUBSET Requests
<1>1. CASE (\E out \in Serve(db, r) : db' = out.db) /\ UNCHANGED stray
  BY <1>1, ServeTyped DEF RestTyped
<1>2. CASE stray' = stray \cup {r} /\ UNCHANGED db
  BY <1>2 DEF RestTyped
<1>3. CASE UNCHANGED <<db, stray>>
  BY <1>3 DEF RestTyped
<1> QED BY <1>1, <1>2, <1>3 DEF Unanswered

\* An unanswered creation goes on to its failure.
LEMMA CreateUnansweredKeeps ==
    ASSUME IInv, NEW w \in Workers, CreateUnanswered(w)
    PROVE  IInv'
<1> DEFINE s == work[w]
<1>1. At(w, "create") /\ ~ At(w, "idle")
  BY DEF CreateUnanswered, At
<1>2. /\ s \in Jobs /\ s.obj \in Objs /\ s.cr \in Copies
      /\ s.cr.spec \in SpecsOf[s.obj]
  BY <1>1, Busy DEF IInv
<1>3. /\ s.cr.ext \in STRING
      /\ [s EXCEPT !.phase = "fail"] = [s EXCEPT !.phase = "fail", !.cr.ext = s.cr.ext]
  BY <1>2 DEF Jobs, Copies
<1>4. Proceed(w, [s EXCEPT !.phase = "fail"])
  BY DEF CreateUnanswered
<1>5. Consistent'
  BY <1>1, <1>3, <1>4, CreationKeeps
<1>6. db' \in Databases /\ stray' \in SUBSET Requests
  BY <1>2, CreateRequestTyped, UnansweredTyped DEF IInv, CreateUnanswered, Requests
<1>7. budget' \in [{"edit", "fault", "crash", "drift"} -> Nat]
  BY SpendTyped DEF IInv, CreateUnanswered
<1> QED BY <1>5, <1>6, <1>7 DEF IInv, RestTyped

\* A creation ends with its annotation, whatever was written meanwhile.
LEMMA RecordKeeps ==
    ASSUME IInv, NEW w \in Workers, work[w].phase \in {"record", "fail"},
           NEW how \in {"succeeded", "failed"},
           Store(w, work[w].obj, Recorded(work[w], how), Idle)
    PROVE  Consistent'
<1> DEFINE s == work[w]
           k == Recorded(s, how)
<1>1. /\ ~ At(w, "idle")
      /\ Creating(w)
  BY DEF At, Creating
<1>2. /\ s.obj \in Objs /\ s.cr.ext \in STRING
      /\ kube[s.obj] \in Copies
      /\ kube[s.obj].present => kube[s.obj].spec \in SpecsOf[s.obj]
  BY <1>1, Busy DEF IInv, Copies
<1>3. /\ k \in Copies /\ k.present = kube[s.obj].present
      /\ k.spec = kube[s.obj].spec
  BY <1>2 DEF Recorded, Copies
<1>4. \A v \in Workers \ {w} : ~ (Creating(v) /\ work[v].obj = s.obj)
  BY <1>1 DEF IInv, Consistent, Exclusive
<1> HIDE DEF k
<1>5. Store(w, s.obj, k, Idle)
  BY DEF k
<1> QED BY <1>2, <1>3, <1>4, <1>5, IdleSound, StoreKeeps DEF IInv

\* RecordCreated ends a creation.
LEMMA RecordCreatedKeeps ==
    ASSUME IInv, NEW w \in Workers, RecordCreated(w)
    PROVE  IInv'
<1>1. Consistent' /\ UNCHANGED <<db, stray, budget>>
  BY RecordKeeps DEF RecordCreated, At
<1> QED BY <1>1 DEF IInv, RestTyped

\* RecordFailed ends a creation.
LEMMA RecordFailedKeeps ==
    ASSUME IInv, NEW w \in Workers, RecordFailed(w)
    PROVE  IInv'
<1>1. Consistent' /\ UNCHANGED <<db, stray, budget>>
  BY RecordKeeps DEF RecordFailed, At
<1> QED BY <1>1 DEF IInv, RestTyped

\* Whatever a worker was doing, it may drop it.
LEMMA DropKeeps ==
    ASSUME IInv, NEW w \in Workers, Proceed(w, Idle)
    PROVE  Consistent'
BY IdleSound, ProceedKeeps DEF IInv, CreatingPhases

\* An update changes rows of the service only.
LEMMA UpdateAnsweredKeeps ==
    ASSUME IInv, NEW w \in Workers, UpdateAnswered(w)
    PROVE  IInv'
<1> DEFINE s == work[w]
<1>1. ~ At(w, "idle")
  BY DEF UpdateAnswered, At
<1>2. s.obj \in Objs /\ s.cr.ext \in STRING /\ s.cr.spec \in SpecsOf[s.obj]
  BY <1>1, Busy DEF IInv, Copies
<1>3. Update(s.obj, s.cr) \subseteq Requests
  BY <1>2, UpdateTyped DEF Requests
<1>4. db' = db \/ \E r \in Requests : \E out \in Serve(db, r) : db' = out.db
  BY <1>3 DEF UpdateAnswered
<1>5. db' \in Databases
  BY <1>4, ServeTyped DEF IInv, RestTyped
<1>6. Consistent' /\ UNCHANGED <<stray, budget>>
  BY DropKeeps DEF UpdateAnswered
<1> QED BY <1>5, <1>6 DEF IInv, RestTyped

\* So does one without an answer.
LEMMA UpdateUnansweredKeeps ==
    ASSUME IInv, NEW w \in Workers, UpdateUnanswered(w)
    PROVE  IInv'
<1> DEFINE s == work[w]
<1>1. ~ At(w, "idle")
  BY DEF UpdateUnanswered, At
<1>2. s.obj \in Objs /\ s.cr.ext \in STRING /\ s.cr.spec \in SpecsOf[s.obj]
  BY <1>1, Busy DEF IInv, Copies
<1>3. Update(s.obj, s.cr) \subseteq Requests
  BY <1>2, UpdateTyped DEF Requests
<1>4. db' \in Databases /\ stray' \in SUBSET Requests
  BY <1>3, UnansweredTyped DEF IInv, UpdateUnanswered
<1>5. budget' \in [{"edit", "fault", "crash", "drift"} -> Nat]
  BY SpendTyped DEF IInv, UpdateUnanswered
<1>6. Consistent'
  BY DropKeeps DEF UpdateUnanswered
<1> QED BY <1>4, <1>5, <1>6 DEF IInv, RestTyped

\* The resource a worker removes is one nobody creates.
LEMMA RemoveFinalizerKeeps ==
    ASSUME IInv, NEW w \in Workers, RemoveFinalizer(w)
    PROVE  IInv'
<1> DEFINE s == work[w]
<1>1. s.phase = "finalize" /\ s.fresh /\ ~ At(w, "idle")
  BY DEF RemoveFinalizer, At
<1>2. s.obj \in Objs
  BY <1>1, Busy DEF IInv
<1>3. Absent \in Copies /\ ~ Absent.present
  BY LiteralAssumption DEF Absent, Copies, Specs
<1>4. \A v \in Workers \ {w} : ~ (Creating(v) /\ work[v].obj = s.obj)
  BY <1>1, FreshAlone DEF IInv
<1>5. Store(w, s.obj, Absent, Idle) /\ UNCHANGED <<db, stray, budget>>
  BY DEF RemoveFinalizer
<1>6. Consistent'
  BY <1>2, <1>3, <1>4, <1>5, IdleSound, StoreKeeps DEF IInv
<1> QED BY <1>5, <1>6 DEF IInv, RestTyped

\* After a conflict the worker drops its job.
LEMMA ConflictKeeps ==
    ASSUME IInv, NEW w \in Workers, Conflict(w)
    PROVE  IInv'
<1>1. Consistent' /\ UNCHANGED <<db, stray, budget>>
  BY DropKeeps DEF Conflict
<1> QED BY <1>1 DEF IInv, RestTyped

\* So it does after any other failure.
LEMMA GiveUpKeeps ==
    ASSUME IInv, NEW w \in Workers, GiveUp(w)
    PROVE  IInv'
<1>1. Consistent'
  BY DropKeeps DEF GiveUp
<1> QED BY <1>1, SpendTyped, RestKept DEF IInv, GiveUp

-----------------------------------------------------------------------------
(* The steps of the world around                                            *)

\* A crash makes the workers of a process idle.
LEMMA CrashKeeps ==
    ASSUME IInv, NEW p, Crash(p)
    PROVE  IInv'
<1>1. /\ kube' = kube
      /\ \A w \in Workers : work'[w] = Idle \/ work'[w] = work[w]
      /\ work' \in [Workers -> Jobs]
  BY IdleSound DEF Crash, IInv, Consistent, WorkTyped, JobTyped
<1>2. \A w \in Workers : JobTyped(work'[w]) /\ Sound(work'[w], kube'[work'[w].obj])
  BY <1>1, IdleSound DEF IInv, Consistent, WorkTyped, AllSound
<1>3. KubeTyped'
  BY <1>1 DEF IInv, Consistent, KubeTyped
<1>4. WorkTyped'
  BY <1>1, <1>2 DEF WorkTyped, JobTyped
<1>5. AllSound'
  BY <1>2 DEF AllSound, Sound, Protected
<1>6. Exclusive'
  BY <1>1, IdleSound DEF IInv, Consistent, Exclusive, Creating
<1>7. Consistent'
  BY <1>3, <1>4, <1>5, <1>6 DEF Consistent
<1> QED BY <1>7, SpendTyped, RestKept DEF IInv, Crash

\* A late call changes the service only.
LEMMA LateEffectKeeps ==
    ASSUME IInv, LateEffect
    PROVE  IInv'
<1>1. Consistent'
  BY StutterKeeps DEF IInv, LateEffect
<1>2. PICK r \in stray : \E out \in Serve(db, r) : db' = out.db /\ stray' = stray \ {r}
  BY DEF LateEffect
<1>3. db' \in Databases /\ stray' \in SUBSET Requests /\ UNCHANGED budget
  BY <1>2, ServeTyped DEF IInv, RestTyped, LateEffect
<1> QED BY <1>1, <1>3 DEF IInv, RestTyped

\* Nobody creates a resource that did not exist.
LEMMA ApplyKeeps ==
    ASSUME IInv, NEW o \in Objs, Apply(o)
    PROVE  IInv'
<1>1. PICK s \in SpecsOf[o] : UserStore(o, Applied(s))
  BY DEF Apply
<1>2. Applied(s) \in Copies /\ Applied(s).spec = s
  BY LiteralAssumption DEF Applied, Absent, Copies, Specs
<1>3. \A v \in Workers : ~ (Creating(v) /\ work[v].obj = o)
  BY Busy DEF IInv, Apply, Creating, At, Sound, Protected, CreatingPhases
<1>4. Consistent'
  BY <1>1, <1>2, <1>3, UserStoreKeeps DEF IInv
<1>5. UNCHANGED <<db, stray>>
  BY <1>1 DEF UserStore
<1> QED BY <1>4, <1>5, SpendTyped, RestKept DEF IInv, Apply

\* An edit leaves a running creation its annotation and finalizer.
LEMMA EditKeeps ==
    ASSUME IInv, NEW o \in Objs, Edit(o)
    PROVE  IInv'
<1>1. PICK s \in SpecsOf[o] : UserStore(o, [kube[o] EXCEPT !.spec = s])
  BY DEF Edit
<1> DEFINE k == [kube[o] EXCEPT !.spec = s]
<1>2. /\ k \in Copies /\ k.spec = s /\ k.create = kube[o].create
      /\ k.present = kube[o].present /\ k.finalizer = kube[o].finalizer
  BY DEF IInv, Consistent, KubeTyped, Copies, Specs
<1>3. \A v \in Workers : Creating(v) /\ work[v].obj = o => Protected(k)
  BY <1>2, Busy DEF IInv, Creating, At, Sound, Protected, CreatingPhases
<1>4. UserStore(o, k)
  BY <1>1
<1> HIDE DEF k
<1>5. Consistent'
  BY <1>2, <1>3, <1>4, UserStoreKeeps DEF IInv
<1>6. UNCHANGED <<db, stray>>
  BY <1>1 DEF UserStore
<1> QED BY <1>5, <1>6, SpendTyped, RestKept DEF IInv, Edit

\* So does a deletion; without a finalizer there is no creation.
LEMMA MarkDeletedKeeps ==
    ASSUME IInv, NEW o \in Objs, MarkDeleted(o)
    PROVE  IInv'
<1>1. ASSUME kube[o].finalizer, UserStore(o, [kube[o] EXCEPT !.deleting = TRUE])
      PROVE  Consistent'
  <2> DEFINE k == [kube[o] EXCEPT !.deleting = TRUE]
  <2>1. /\ k \in Copies /\ k.spec = kube[o].spec /\ k.create = kube[o].create
        /\ k.present = kube[o].present /\ k.finalizer = kube[o].finalizer
    BY DEF IInv, Consistent, KubeTyped, Copies
  <2>2. k.present => k.spec \in SpecsOf[o]
    BY <2>1 DEF IInv, Consistent, KubeTyped
  <2>3. \A v \in Workers : Creating(v) /\ work[v].obj = o => Protected(k)
    BY <2>1, Busy DEF IInv, Creating, At, Sound, Protected, CreatingPhases
  <2>4. UserStore(o, k)
    BY <1>1
  <2> HIDE DEF k
  <2> QED BY <2>1, <2>2, <2>3, <2>4, UserStoreKeeps DEF IInv
<1>2. ASSUME ~ kube[o].finalizer, UserStore(o, Absent)
      PROVE  Consistent'
  <2>1. Absent \in Copies /\ ~ Absent.present
    BY LiteralAssumption DEF Absent, Copies, Specs
  <2>2. \A v \in Workers : ~ (Creating(v) /\ work[v].obj = o)
    BY <1>2, Busy DEF IInv, Creating, At, Sound, Protected, CreatingPhases
  <2> QED BY <1>2, <2>1, <2>2, UserStoreKeeps DEF IInv
<1>3. Consistent'
  BY <1>1, <1>2 DEF MarkDeleted
<1>4. UNCHANGED <<db, stray>>
  BY DEF MarkDeleted, UserStore
<1> QED BY <1>3, <1>4, SpendTyped, RestKept DEF IInv, MarkDeleted

\* ClearPending waits for the end of the creation.
LEMMA ClearPendingKeeps ==
    ASSUME IInv, NEW o \in Objs, ClearPending(o)
    PROVE  IInv'
<1> DEFINE k == [kube[o] EXCEPT !.create = "none"]
<1>1. /\ k \in Copies /\ k.spec = kube[o].spec /\ k.present = kube[o].present
  BY DEF IInv, Consistent, KubeTyped, Copies
<1>2. k.present => k.spec \in SpecsOf[o]
  BY <1>1 DEF IInv, Consistent, KubeTyped
<1>3. \A v \in Workers : ~ (Creating(v) /\ work[v].obj = o)
  BY DEF ClearPending
<1>4. UserStore(o, k) /\ UNCHANGED budget
  BY DEF ClearPending
<1> HIDE DEF k
<1>5. Consistent'
  BY <1>1, <1>2, <1>3, <1>4, UserStoreKeeps DEF IInv
<1>6. UNCHANGED <<db, stray>>
  BY <1>4 DEF UserStore
<1> QED BY <1>4, <1>5, <1>6 DEF IInv, RestTyped

\* Somebody else changes the service only.
LEMMA DriftKeeps ==
    ASSUME IInv, Drift
    PROVE  IInv'
<1>1. Consistent'
  BY StutterKeeps DEF IInv, Drift
<1>2. db' \in Databases /\ UNCHANGED stray
  BY InterferenceTyped DEF IInv, RestTyped, Drift
<1>3. budget' \in [{"edit", "fault", "crash", "drift"} -> Nat]
  BY SpendTyped DEF IInv, Drift
<1> QED BY <1>1, <1>2, <1>3 DEF IInv, RestTyped

-----------------------------------------------------------------------------
(* The invariant and what follows from it                                   *)

\* Nothing exists and nobody works: the invariant holds.
LEMMA InitIInv == Init => IInv
<1> SUFFICES ASSUME Init
             PROVE  IInv
  OBVIOUS
<1>1. KubeTyped
  BY LiteralAssumption DEF Init, KubeTyped, Absent, Copies, Specs
<1>2. /\ work = [w \in Workers |-> Idle]
      /\ \A w \in Workers : work[w].phase = "idle"
  BY IdleSound DEF Init
<1>3. WorkTyped
  BY <1>2, IdleSound DEF WorkTyped, JobTyped
<1>4. AllSound /\ Exclusive
  BY <1>2 DEF AllSound, Sound, Exclusive, Creating
<1>5. RestTyped
  BY BudgetAssumption DEF Init, RestTyped, EmptyDatabase, Databases
<1> QED BY <1>1, <1>3, <1>4, <1>5 DEF IInv, Consistent

\* Every step keeps it.
LEMMA NextIInv == IInv /\ [Next]_vars => IInv'
<1> SUFFICES ASSUME IInv, [Next]_vars
             PROVE  IInv'
  OBVIOUS
<1>1. ASSUME NEW w \in Workers, Step(w)
      PROVE  IInv'
  BY <1>1, InitializeKeeps, ObserveExternalKeeps, AddFinalizerKeeps, MarkPendingKeeps,
     CreateRejectedKeeps, CreateAnsweredKeeps, RecordCreatedKeeps, RecordFailedKeeps,
     UpdateAnsweredKeeps, RemoveFinalizerKeeps, ConflictKeeps DEF Step
<1>2. ASSUME NEW w \in Workers, Fault(w)
      PROVE  IInv'
  BY <1>2, ObserveFaultyKeeps, CreateUnansweredKeeps, UpdateUnansweredKeeps,
     GiveUpKeeps DEF Fault
<1>3. ASSUME NEW o \in Objs, User(o)
      PROVE  IInv'
  BY <1>3, ApplyKeeps, EditKeeps, MarkDeletedKeeps, ClearPendingKeeps DEF User
<1>4. CASE UNCHANGED vars
  <2>1. UNCHANGED <<kube, work>> /\ UNCHANGED <<db, stray, budget>>
    BY <1>4 DEF vars
  <2>2. Consistent'
    BY <2>1, StutterKeeps DEF IInv
  <2> QED BY <2>1, <2>2 DEF IInv, RestTyped
<1> QED BY <1>1, <1>2, <1>3, <1>4, GetKeeps, CrashKeeps, LateEffectKeeps, DriftKeeps
    DEF Next

\* The inductive invariant holds in every behaviour: what the provider's workers
\* believe of a resource agrees with the API server where it matters.
THEOREM Invariance == Spec => []IInv
BY InitIInv, NextIInv, PTL DEF Spec

\* The variables keep their types, whatever the handlers of the six kinds send,
\* get back and store.
THEOREM TypeCorrect == Spec => []TypeOK
<1>1. IInv => TypeOK
  BY DEF IInv, Consistent, TypeOK
<1> QED BY <1>1, Invariance, PTL

\* No two workers, of one process or of several, run Create for one resource,
\* and its pending annotation is there as long as one does.
THEOREM CreationIsExclusive == Spec => []CreateExclusive
<1>1. IInv => CreateExclusive
  BY Busy DEF IInv, Consistent, Exclusive, CreateExclusive, Creating, At, Sound,
     Protected, CreatingPhases
<1> QED BY <1>1, Invariance, PTL

\* A resource cannot leave the API server while one of its creations runs.
THEOREM CreationIsProtected == Spec => []CreateProtected
<1>1. IInv => CreateProtected
  BY Busy DEF IInv, CreateProtected, Creating, At, Sound, Protected, CreatingPhases
<1> QED BY <1>1, Invariance, PTL

\* No reconcile comes to call Delete, which is why ManagedReconcile has no action
\* for it: Observe says "absent" of what is being deleted.
LEMMA NothingIsDeleted == Spec => [](\A w \in Workers : ~ At(w, "delete"))
<1>1. IInv => \A w \in Workers : ~ At(w, "delete")
  BY DEF IInv, Consistent, AllSound, Sound, At
<1> QED BY <1>1, Invariance, PTL

=============================================================================

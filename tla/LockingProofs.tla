---------------------------- MODULE LockingProofs ----------------------------
(***************************************************************************)
(* ManagedReconcile implements CreationLock, for any number of resources,  *)
(* workers and processes and any budget.                                   *)
(***************************************************************************)
EXTENDS ManagedReconcileProofs

\* A resource that is gone leaves nothing behind, and a started creation keeps
\* its finalizer even when nobody works on it any more.
Whole(k) ==
    /\ ~ k.present => k = Absent
    /\ k.create = "pending" => k.finalizer

\* A deleted resource is never adopted, and only a deleted one is let go.
OnPath(s) ==
    /\ s.phase \in {"adopt", "pend"} => ~ s.cr.deleting
    /\ s.phase = "finalize" => s.cr.deleting

LInv ==
    /\ IInv
    /\ \A o \in Objs : Whole(kube[o])
    /\ \A w \in Workers : OnPath(work[w])

\* What is gone leaves nothing behind.
LEMMA AbsentFacts ==
    /\ Absent.present = FALSE /\ Absent.ext = "" /\ Absent.create = "none"
    /\ Whole(Absent) /\ LifeOf(Absent) = "absent"
<1>1. Absent.present = FALSE /\ Absent.ext = "" /\ Absent.create = "none"
  BY DEF Absent
<1> QED BY <1>1 DEF Whole, LifeOf

HeldBy(s) == IF s.phase \in CreatingPhases THEN s.obj ELSE NoObj

-----------------------------------------------------------------------------
(* What a write of a resource means for the lock                            *)

\* A job that becomes outdated stays where it is.
LEMMA OutdatedOnPath ==
    ASSUME LInv, NEW v \in Workers, NEW o
    PROVE  /\ OnPath(Outdated(v, o))
           /\ HeldBy(Outdated(v, o)) = HeldBy(work[v])
<1>1. work[v] \in Jobs /\ OnPath(work[v])
  BY DEF LInv, IInv, Consistent, WorkTyped
<1>2. CASE work[v].obj = o
  <2>1. Outdated(v, o) = [work[v] EXCEPT !.fresh = FALSE]
    BY <1>2 DEF Outdated
  <2>2. /\ Outdated(v, o).phase = work[v].phase
        /\ Outdated(v, o).obj = work[v].obj
        /\ Outdated(v, o).cr = work[v].cr
    BY <1>1, <2>1 DEF Jobs
  <2> QED BY <1>1, <2>2 DEF OnPath, HeldBy
<1>3. CASE work[v].obj # o
  BY <1>1, <1>3 DEF Outdated
<1> QED BY <1>2, <1>3

\* The lock's side of the variables, in terms of resources and jobs.
LEMMA Mapped ==
    /\ holds = [w \in Workers |-> HeldBy(work[w])]
    /\ holds' = [w \in Workers |-> HeldBy(work'[w])]
<1>1. holds = [w \in Workers |-> HeldBy(work[w])]
  BY DEF holds, HeldBy, Creating, CreatingPhases
<1>2. holds' = [w \in Workers |-> HeldBy(work'[w])]
  BY DEF holds, HeldBy, Creating, CreatingPhases
<1> QED BY <1>1, <1>2

\* One resource is written.
LEMMA WriteMapped ==
    ASSUME LInv, NEW o \in Objs, NEW k, kube' = [kube EXCEPT ![o] = k]
    PROVE  /\ life' = [life EXCEPT ![o] = LifeOf(k)]
           /\ extName' = [extName EXCEPT ![o] = k.ext]
           /\ k.create = "pending" => locked' = locked \cup {o}
           /\ k.create # "pending" => locked' = locked \ {o}
           /\ Whole(k) => \A p \in Objs : Whole(kube'[p])
<1>1. DOMAIN kube = Objs /\ \A p \in Objs : kube'[p] = IF p = o THEN k ELSE kube[p]
  BY DEF LInv, IInv, Consistent, KubeTyped
<1>2. life' = [life EXCEPT ![o] = LifeOf(k)]
  BY <1>1 DEF life
<1>3. extName' = [extName EXCEPT ![o] = k.ext]
  BY <1>1 DEF extName
<1>4. /\ k.create = "pending" => locked' = locked \cup {o}
      /\ k.create # "pending" => locked' = locked \ {o}
  BY <1>1 DEF locked
<1>5. Whole(k) => \A p \in Objs : Whole(kube'[p])
  BY <1>1 DEF LInv
<1> QED BY <1>2, <1>3, <1>4, <1>5

\* A worker writes k as o and goes on as next.
LEMMA StoreMapped ==
    ASSUME LInv, NEW w \in Workers, NEW o \in Objs, NEW k, NEW next,
           Whole(k), OnPath(next), Store(w, o, k, next), IInv'
    PROVE  /\ LInv'
           /\ life' = [life EXCEPT ![o] = LifeOf(k)]
           /\ extName' = [extName EXCEPT ![o] = k.ext]
           /\ k.create = "pending" => locked' = locked \cup {o}
           /\ k.create # "pending" => locked' = locked \ {o}
           /\ holds' = [holds EXCEPT ![w] = HeldBy(next)]
<1>1. /\ kube' = [kube EXCEPT ![o] = k]
      /\ work' = [v \in Workers |-> IF v = w THEN next ELSE Outdated(v, o)]
  BY DEF Store
<1>2. \A v \in Workers : OnPath(work'[v])
  BY <1>1, OutdatedOnPath
<1>3. holds' = [holds EXCEPT ![w] = HeldBy(next)]
  BY <1>1, Mapped, OutdatedOnPath
<1>4. LInv'
  BY <1>1, <1>2, WriteMapped DEF LInv, Whole, OnPath
<1> QED BY <1>1, <1>3, <1>4, WriteMapped

\* A user writes k as o.
LEMMA UserStoreMapped ==
    ASSUME LInv, NEW o \in Objs, NEW k, Whole(k), UserStore(o, k), IInv'
    PROVE  /\ LInv'
           /\ life' = [life EXCEPT ![o] = LifeOf(k)]
           /\ extName' = [extName EXCEPT ![o] = k.ext]
           /\ k.create = "pending" => locked' = locked \cup {o}
           /\ k.create # "pending" => locked' = locked \ {o}
           /\ holds' = holds
<1>1. /\ kube' = [kube EXCEPT ![o] = k]
      /\ work' = [v \in Workers |-> Outdated(v, o)]
  BY DEF UserStore
<1>2. \A v \in Workers : OnPath(work'[v])
  BY <1>1, OutdatedOnPath
<1>3. holds' = holds
  BY <1>1, Mapped, OutdatedOnPath
<1>4. LInv'
  BY <1>1, <1>2, WriteMapped DEF LInv, Whole, OnPath
<1> QED BY <1>1, <1>3, <1>4, WriteMapped

\* Nobody writes a resource.
LEMMA UnwrittenMapped ==
    ASSUME UNCHANGED kube
    PROVE  UNCHANGED <<life, locked, extName>>
BY DEF life, locked, extName

\* A worker goes on as next.
LEMMA ProceedMapped ==
    ASSUME LInv, NEW w \in Workers, NEW next, OnPath(next), Proceed(w, next), IInv'
    PROVE  /\ LInv'
           /\ UNCHANGED <<life, locked, extName>>
           /\ holds' = [holds EXCEPT ![w] = HeldBy(next)]
<1>1. kube' = kube /\ work' = [work EXCEPT ![w] = next]
  BY DEF Proceed
<1>2. \A v \in Workers : work'[v] = IF v = w THEN next ELSE work[v]
  BY <1>1 DEF LInv, IInv, Consistent, WorkTyped
<1>3. holds' = [holds EXCEPT ![w] = HeldBy(next)]
  BY <1>2, Mapped
<1>4. LInv'
  BY <1>1, <1>2 DEF LInv, OnPath
<1> QED BY <1>1, <1>3, <1>4, UnwrittenMapped

-----------------------------------------------------------------------------
(* The steps of the reconcilers                                             *)

Implements == LInv' /\ [Lock!Next]_(Lock!vars)

\* A step of one worker that does not change what it holds.
LEMMA QuietImplements ==
    ASSUME LInv, NEW w \in Workers, NEW next, OnPath(next), Proceed(w, next), IInv',
           HeldBy(next) = HeldBy(work[w])
    PROVE  Implements
<1>1. holds' = [holds EXCEPT ![w] = holds[w]] /\ holds = [v \in Workers |-> holds[v]]
  BY ProceedMapped, Mapped
<1>2. holds' = holds
  BY <1>1
<1>3. LInv' /\ UNCHANGED <<life, locked, extName>>
  BY ProceedMapped
<1> QED BY <1>2, <1>3 DEF Implements, Lock!vars

\* A worker drops its job, and with it what it holds.
LEMMA DropImplements ==
    ASSUME LInv, NEW w \in Workers, Proceed(w, Idle), IInv'
    PROVE  Implements
<1>1. OnPath(Idle) /\ HeldBy(Idle) = NoObj
  BY IdleSound DEF OnPath, HeldBy, CreatingPhases
<1>2. LInv' /\ UNCHANGED <<life, locked, extName>> /\ holds' = [holds EXCEPT ![w] = NoObj]
  BY <1>1, ProceedMapped
<1>3. holds' = [v \in Workers |-> IF v \in {w} THEN NoObj ELSE holds[v]]
  BY <1>2, Mapped
<1>4. Lock!Abandon({w})
  BY <1>2, <1>3 DEF Lock!Abandon
<1> QED BY <1>2, <1>4 DEF Implements, Lock!Next

\* Get takes no lock.
LEMMA GetImplements ==
    ASSUME LInv, NEW w \in Workers, NEW o \in Objs, Get(w, o)
    PROVE  Implements
<1> DEFINE next == [phase |-> "init", obj |-> o, cr |-> kube[o], fresh |-> TRUE,
                    obs |-> "none"]
<1>1. OnPath(next) /\ HeldBy(next) = NoObj
  BY DEF OnPath, HeldBy, CreatingPhases
<1>2. HeldBy(work[w]) = NoObj
  BY DEF Get, At, HeldBy, CreatingPhases
<1>3. Proceed(w, next)
  BY DEF Get, Proceed
<1> HIDE DEF next
<1> QED BY <1>1, <1>2, <1>3, GetKeeps, QuietImplements DEF LInv

\* Initialize gives a first name, to a resource that is not locked.
LEMMA InitializeImplements ==
    ASSUME LInv, NEW w \in Workers, Initialize(w)
    PROVE  Implements
<1> DEFINE s == work[w]
           k == [s.cr EXCEPT !.ext = MetaName[s.obj]]
<1>1. s.phase = "init" /\ ~ At(w, "idle") /\ HeldBy(s) = NoObj
  BY DEF Initialize, At, HeldBy, CreatingPhases
<1>2. /\ s \in Jobs /\ s.obj \in Objs /\ s.cr \in Copies
      /\ Sound(s, kube[s.obj])
  BY <1>1, Busy DEF LInv, IInv
<1>3. IInv'
  BY InitializeKeeps DEF LInv
<1>4. ASSUME s.cr.ext = "", s.fresh,
             Store(w, s.obj, k, [s EXCEPT !.cr = k, !.phase = "observe"])
      PROVE  Implements
  <2> DEFINE next == [s EXCEPT !.cr = k, !.phase = "observe"]
  <2>1. /\ s.cr = kube[s.obj] /\ s.cr.present /\ s.cr.create # "pending"
    BY <1>1, <1>2, <1>4 DEF Sound, CreatingPhases
  <2>2. /\ k.present /\ k.create = s.cr.create /\ LifeOf(k) = LifeOf(s.cr)
        /\ k.ext = MetaName[s.obj] /\ Whole(k)
    BY <1>2, <2>1 DEF Copies, LifeOf, Whole
  <2>3. OnPath(next) /\ HeldBy(next) = NoObj
    BY <1>2 DEF Jobs, OnPath, HeldBy, CreatingPhases
  <2> HIDE DEF next, k
  <2>4. Store(w, s.obj, k, next)
    BY <1>4 DEF next, k
  <2>5. /\ LInv'
        /\ life' = [life EXCEPT ![s.obj] = LifeOf(k)]
        /\ extName' = [extName EXCEPT ![s.obj] = MetaName[s.obj]]
        /\ locked' = locked \ {s.obj}
        /\ holds' = [holds EXCEPT ![w] = NoObj]
    BY <1>2, <1>3, <2>1, <2>2, <2>3, <2>4, StoreMapped
  <2>6. /\ life[s.obj] # "absent" /\ life[s.obj] = LifeOf(k)
        /\ s.obj \notin locked /\ extName[s.obj] = ""
    BY <1>2, <1>4, <2>1, <2>2 DEF life, LifeOf, locked, extName
  <2>7. extName \in [Objs -> STRING]
    BY DEF extName, LInv, IInv, Consistent, KubeTyped, Copies
  <2>8. Lock!Rename(s.obj)
    BY <1>2, <2>5, <2>7, MetaNameAssumption DEF Lock!Rename
  <2>9. UNCHANGED <<life, locked, holds>>
    <3>1. life' = life
      BY <2>5, <2>6 DEF life
    <3>2. holds' = holds
      BY <1>1, <2>5, Mapped
    <3>3. locked' = locked
      BY <2>5, <2>6
    <3> QED BY <3>1, <3>2, <3>3
  <2>10. Lock!Name(s.obj)
    BY <2>6, <2>8, <2>9 DEF Lock!Name
  <2> QED BY <1>2, <2>5, <2>10 DEF Implements, Lock!Next
<1>5. ASSUME Proceed(w, [s EXCEPT !.phase = "observe"])
      PROVE  Implements
  <2> DEFINE next == [s EXCEPT !.phase = "observe"]
  <2>1. OnPath(next) /\ HeldBy(next) = NoObj
    BY <1>2 DEF Jobs, OnPath, HeldBy, CreatingPhases
  <2>2. Proceed(w, next)
    BY <1>5
  <2> HIDE DEF next
  <2> QED BY <1>1, <1>3, <2>1, <2>2, QuietImplements
<1> QED BY <1>4, <1>5 DEF Initialize

\* What follows an observation keeps a deleted resource from being adopted.
LEMMA ObservedImplements ==
    ASSUME LInv, NEW w \in Workers, At(w, "observe"), NEW reply, IInv',
           NEW seen \in Observe(work[w].obj, work[w].cr, reply),
           Proceed(w, AfterObserve(work[w], seen))
    PROVE  Implements
<1> DEFINE s    == work[w]
           next == AfterObserve(s, seen)
<1>1. s \in Jobs /\ s.obj \in Objs /\ s.cr \in Copies /\ s.cr.spec \in SpecsOf[s.obj]
  BY Busy DEF LInv, IInv, At
<1>2. s.cr.deleting => seen = "absent"
  BY <1>1, DeletingIsAbsent DEF Copies
<1>3. CASE seen = "error"
  <2>1. next = Idle
    BY <1>3 DEF AfterObserve
  <2> QED BY <2>1, DropImplements
<1>4. CASE seen # "error"
  <2>1. next = [s EXCEPT !.obs = seen,
                         !.phase = IF s.cr.deleting THEN "finalize" ELSE "adopt"]
    BY <1>2, <1>4 DEF AfterObserve
  <2>2. next.cr = s.cr /\ next.phase = IF s.cr.deleting THEN "finalize" ELSE "adopt"
    BY <1>1, <2>1 DEF Jobs
  <2>3. OnPath(next) /\ HeldBy(next) = HeldBy(s)
    BY <2>2 DEF OnPath, HeldBy, CreatingPhases, At
  <2>4. Proceed(w, next)
    OBVIOUS
  <2> HIDE DEF next
  <2> QED BY <2>3, <2>4, QuietImplements
<1> QED BY <1>3, <1>4

\* AddFinalizer keeps a resource, or only moves on.
LEMMA AddFinalizerImplements ==
    ASSUME LInv, NEW w \in Workers, AddFinalizer(w)
    PROVE  Implements
<1> DEFINE s == work[w]
           k == [s.cr EXCEPT !.finalizer = TRUE]
<1>1. s.phase = "adopt" /\ ~ At(w, "idle") /\ HeldBy(s) = NoObj
  BY DEF AddFinalizer, At, HeldBy, CreatingPhases
<1>2. /\ s \in Jobs /\ s.obj \in Objs /\ s.cr \in Copies
      /\ Sound(s, kube[s.obj])
      /\ ~ s.cr.deleting
  BY <1>1, Busy DEF LInv, IInv, OnPath
<1>3. IInv'
  BY AddFinalizerKeeps DEF LInv
<1>4. ASSUME NEW t \in Jobs, t.phase = "adopt", t.cr.deleting = FALSE
      PROVE  OnPath(AfterAdopt(t)) /\ HeldBy(AfterAdopt(t)) = NoObj
  <2>1. CASE t.obs = "absent"
    BY <1>4, <2>1 DEF AfterAdopt, OnPath, HeldBy, CreatingPhases, Jobs
  <2>2. CASE t.obs = "drifted"
    BY <1>4, <2>2 DEF AfterAdopt, OnPath, HeldBy, CreatingPhases, Jobs
  <2>3. CASE t.obs \notin {"absent", "drifted"}
    BY <2>3, IdleSound DEF AfterAdopt, OnPath, HeldBy, CreatingPhases
  <2> QED BY <2>1, <2>2, <2>3
<1>5. ASSUME ~ s.cr.finalizer, s.fresh,
             Store(w, s.obj, k, AfterAdopt([s EXCEPT !.cr = k]))
      PROVE  Implements
  <2> DEFINE t    == [s EXCEPT !.cr = k]
             next == AfterAdopt(t)
  <2>1. s.cr = kube[s.obj] /\ s.cr.present /\ s.cr.create # "pending"
    BY <1>1, <1>2, <1>5 DEF Sound, CreatingPhases
  <2>2. /\ k \in Copies /\ k.create = s.cr.create /\ LifeOf(k) = "kept"
        /\ k.ext = s.cr.ext /\ Whole(k) /\ k.deleting = FALSE
    BY <1>2, <2>1 DEF Copies, LifeOf, Whole
  <2>3. t \in Jobs /\ t.phase = "adopt" /\ t.cr.deleting = FALSE
    BY <1>1, <1>2, <2>2 DEF Jobs
  <2> HIDE DEF k, t
  <2>4. OnPath(next) /\ HeldBy(next) = NoObj
    BY <1>4, <2>3
  <2>5. Store(w, s.obj, k, next)
    BY <1>5 DEF k, t
  <2> HIDE DEF next
  <2>6. /\ LInv'
        /\ life' = [life EXCEPT ![s.obj] = "kept"]
        /\ extName' = [extName EXCEPT ![s.obj] = k.ext]
        /\ locked' = locked \ {s.obj}
        /\ holds' = [holds EXCEPT ![w] = NoObj]
    BY <1>2, <1>3, <2>1, <2>2, <2>4, <2>5, StoreMapped
  <2>7. life[s.obj] = "bare" /\ s.obj \notin locked /\ extName[s.obj] = k.ext
    BY <1>2, <1>5, <2>1, <2>2 DEF life, LifeOf, locked, extName
  <2>8. UNCHANGED <<locked, extName, holds>>
    BY <1>1, <2>6, <2>7, Mapped DEF extName
  <2>9. Lock!Keep(s.obj)
    BY <2>6, <2>7, <2>8 DEF Lock!Keep, Lock!Move
  <2> QED BY <1>2, <2>6, <2>9 DEF Implements, Lock!Next
<1>6. ASSUME Proceed(w, AfterAdopt(s))
      PROVE  Implements
  <2>1. OnPath(AfterAdopt(s)) /\ HeldBy(AfterAdopt(s)) = NoObj
    BY <1>1, <1>2, <1>4 DEF Copies
  <2> QED BY <1>1, <1>3, <1>6, <2>1, QuietImplements
<1> QED BY <1>5, <1>6 DEF AddFinalizer

\* MarkPending acquires the lock.
LEMMA MarkPendingImplements ==
    ASSUME LInv, NEW w \in Workers, MarkPending(w)
    PROVE  Implements
<1> DEFINE s    == work[w]
           k    == [s.cr EXCEPT !.create = "pending"]
           next == [s EXCEPT !.cr = k, !.phase = "create"]
<1>1. s.phase = "pend" /\ s.fresh /\ ~ At(w, "idle") /\ HeldBy(s) = NoObj
  BY DEF MarkPending, At, HeldBy, CreatingPhases
<1>2. /\ s \in Jobs /\ s.obj \in Objs /\ s.cr \in Copies
      /\ Sound(s, kube[s.obj])
      /\ ~ s.cr.deleting
  BY <1>1, Busy DEF LInv, IInv, OnPath
<1>3. /\ s.cr = kube[s.obj] /\ s.cr.present /\ s.cr.create # "pending"
      /\ s.cr.finalizer
  BY <1>1, <1>2 DEF Sound, CreatingPhases
<1>4. /\ k.create = "pending" /\ LifeOf(k) = "kept" /\ k.ext = s.cr.ext /\ Whole(k)
      /\ OnPath(next) /\ HeldBy(next) = s.obj
  BY <1>2, <1>3 DEF Copies, LifeOf, Whole, Jobs, OnPath, HeldBy, CreatingPhases
<1>5. Store(w, s.obj, k, next)
  BY DEF MarkPending
<1>6. IInv'
  BY MarkPendingKeeps DEF LInv
<1> HIDE DEF k, next
<1>7. /\ LInv'
      /\ life' = [life EXCEPT ![s.obj] = "kept"]
      /\ extName' = [extName EXCEPT ![s.obj] = k.ext]
      /\ locked' = locked \cup {s.obj}
      /\ holds' = [holds EXCEPT ![w] = s.obj]
  BY <1>2, <1>4, <1>5, <1>6, StoreMapped
<1>8. /\ life[s.obj] = "kept" /\ s.obj \notin locked /\ extName[s.obj] = k.ext
      /\ holds[w] = NoObj
  BY <1>1, <1>2, <1>3, <1>4, Mapped DEF life, LifeOf, locked, extName
<1>9. UNCHANGED <<life, extName>>
  BY <1>7, <1>8 DEF life, extName
<1>10. Lock!Acquire(w, s.obj)
  BY <1>7, <1>8, <1>9 DEF Lock!Acquire
<1> QED BY <1>2, <1>7, <1>10 DEF Implements, Lock!Next

\* The end of a creation releases the lock.
LEMMA RecordImplements ==
    ASSUME LInv, NEW w \in Workers, work[w].phase \in {"record", "fail"},
           NEW how \in {"succeeded", "failed"}, IInv',
           kube[work[w].obj].present,
           Store(w, work[w].obj, Recorded(work[w], how), Idle)
    PROVE  Implements
<1> DEFINE s == work[w]
           k == Recorded(s, how)
<1>1. ~ At(w, "idle") /\ HeldBy(s) = s.obj
  BY DEF At, HeldBy, CreatingPhases
<1>2. /\ s.obj \in Objs /\ s.cr.ext \in STRING /\ kube[s.obj] \in Copies
  BY <1>1, Busy DEF LInv, IInv, Copies
<1>3. /\ k.create # "pending" /\ k.ext = s.cr.ext /\ LifeOf(k) = LifeOf(kube[s.obj])
      /\ Whole(k)
  BY <1>2 DEF Recorded, Copies, LifeOf, Whole
<1>4. OnPath(Idle) /\ HeldBy(Idle) = NoObj
  BY IdleSound DEF OnPath, HeldBy, CreatingPhases
<1> HIDE DEF k
<1>5. Store(w, s.obj, k, Idle)
  BY DEF k
<1>6. /\ LInv'
      /\ life' = [life EXCEPT ![s.obj] = LifeOf(k)]
      /\ extName' = [extName EXCEPT ![s.obj] = s.cr.ext]
      /\ locked' = locked \ {s.obj}
      /\ holds' = [holds EXCEPT ![w] = NoObj]
  BY <1>2, <1>3, <1>4, <1>5, StoreMapped
<1>7. life' = life
  BY <1>2, <1>3, <1>6 DEF life
<1>8. holds[w] = s.obj /\ s.obj # NoObj
  BY <1>1, <1>2, Mapped, NullAssumption
<1>9. extName \in [Objs -> STRING]
  BY DEF extName, LInv, IInv, Consistent, KubeTyped, Copies
<1>10. Lock!Rename(holds[w])
  BY <1>2, <1>6, <1>8, <1>9 DEF Lock!Rename
<1>11. Lock!Release(w)
  BY <1>6, <1>7, <1>8, <1>10 DEF Lock!Release
<1> QED BY <1>6, <1>11 DEF Implements, Lock!Next

\* The resource whose finalizer goes is not locked.
LEMMA RemoveFinalizerImplements ==
    ASSUME LInv, NEW w \in Workers, RemoveFinalizer(w)
    PROVE  Implements
<1> DEFINE s == work[w]
<1>1. s.phase = "finalize" /\ s.fresh /\ ~ At(w, "idle") /\ HeldBy(s) = NoObj
  BY DEF RemoveFinalizer, At, HeldBy, CreatingPhases
<1>2. s.obj \in Objs /\ Sound(s, kube[s.obj]) /\ s.cr.deleting
  BY <1>1, Busy DEF LInv, IInv, OnPath
<1>3. life[s.obj] = "dying" /\ s.obj \notin locked
  BY <1>1, <1>2 DEF Sound, CreatingPhases, life, LifeOf, locked
<1> DEFINE k == Absent
<1>4. Whole(k) /\ LifeOf(k) = "absent" /\ k.ext = "" /\ k.create # "pending"
  BY AbsentFacts
<1>5. OnPath(Idle) /\ HeldBy(Idle) = NoObj
  BY IdleSound DEF OnPath, HeldBy, CreatingPhases
<1>11. Store(w, s.obj, k, Idle) /\ IInv'
  BY RemoveFinalizerKeeps DEF RemoveFinalizer, LInv
<1> HIDE DEF k
<1>12. /\ LInv'
       /\ life' = [life EXCEPT ![s.obj] = LifeOf(k)]
       /\ extName' = [extName EXCEPT ![s.obj] = k.ext]
       /\ locked' = locked \ {s.obj}
       /\ holds' = [holds EXCEPT ![w] = HeldBy(Idle)]
  <2>1. s.obj \in Objs /\ Whole(k) /\ OnPath(Idle) /\ k.create # "pending"
    BY <1>2, <1>4, <1>5
  <2> QED BY <1>11, <2>1, StoreMapped
<1>6. /\ LInv'
      /\ life' = [life EXCEPT ![s.obj] = "absent"]
      /\ extName' = [extName EXCEPT ![s.obj] = ""]
      /\ locked' = locked \ {s.obj}
      /\ holds' = [holds EXCEPT ![w] = NoObj]
  BY <1>4, <1>5, <1>12
<1>7. locked' = locked
  BY <1>3, <1>6
<1>8. holds' = holds
  BY <1>1, <1>6, Mapped
<1>9. Lock!End(s.obj)
  BY <1>3, <1>6, <1>7, <1>8 DEF Lock!End, Lock!Move
<1> QED BY <1>2, <1>6, <1>9 DEF Implements, Lock!Next

\* A creation that goes on holds what it held.
LEMMA CreateImplements ==
    ASSUME LInv, NEW w \in Workers, At(w, "create"), IInv',
           NEW next, Proceed(w, next),
           next.phase \in {"record", "fail"}, next.obj = work[w].obj
    PROVE  Implements
<1>1. OnPath(next) /\ HeldBy(next) = HeldBy(work[w])
  BY DEF OnPath, HeldBy, CreatingPhases, At
<1> QED BY <1>1, QuietImplements

\* Rejected, answered or not, a creation goes on holding the lock.
LEMMA CreationImplements ==
    ASSUME LInv, NEW w \in Workers,
           CreateRejected(w) \/ CreateAnswered(w) \/ CreateUnanswered(w)
    PROVE  Implements
<1> DEFINE s == work[w]
<1>1. At(w, "create")
  BY DEF CreateRejected, CreateAnswered, CreateUnanswered
<1>2. s \in Jobs
  BY <1>1, Busy DEF LInv, IInv, At
<1>3. IInv'
  BY CreateRejectedKeeps, CreateAnsweredKeeps, CreateUnansweredKeeps DEF LInv
<1>4. ASSUME Proceed(w, [s EXCEPT !.phase = "fail"])
      PROVE  Implements
  <2> DEFINE next == [s EXCEPT !.phase = "fail"]
  <2>1. next.phase = "fail" /\ next.obj = s.obj /\ Proceed(w, next)
    BY <1>2, <1>4 DEF Jobs
  <2> HIDE DEF next
  <2> QED BY <1>1, <1>3, <2>1, CreateImplements
<1>5. ASSUME NEW ext, Proceed(w, [s EXCEPT !.phase = "record", !.cr.ext = ext])
      PROVE  Implements
  <2> DEFINE next == [s EXCEPT !.phase = "record", !.cr.ext = ext]
  <2>1. next.phase = "record" /\ next.obj = s.obj /\ Proceed(w, next)
    BY <1>2, <1>5 DEF Jobs
  <2> HIDE DEF next
  <2> QED BY <1>1, <1>3, <2>1, CreateImplements
<1>6. CASE CreateAnswered(w)
  <2>1. PICK out \in Serve(db, createRequest(s.obj, s.cr.spec)) :
          Proceed(w, IF out.answer.code = "OK"
                     THEN [s EXCEPT !.phase = "record",
                             !.cr.ext = CreatedName(s.obj, s.cr, out.answer)]
                     ELSE [s EXCEPT !.phase = "fail"])
    BY <1>6 DEF CreateAnswered
  <2> DEFINE ext == CreatedName(s.obj, s.cr, out.answer)
  <2>2. \/ Proceed(w, [s EXCEPT !.phase = "record", !.cr.ext = ext])
        \/ Proceed(w, [s EXCEPT !.phase = "fail"])
    BY <2>1
  <2> HIDE DEF ext
  <2> QED BY <1>4, <1>5, <2>2
<1> QED BY <1>4, <1>6 DEF CreateRejected, CreateUnanswered

\* Every other step of a worker.
LEMMA StepImplements ==
    ASSUME LInv, NEW w \in Workers, Step(w) \/ Fault(w)
    PROVE  Implements
<1>1. CASE ObserveExternal(w)
  BY <1>1, ObserveExternalKeeps, ObservedImplements DEF ObserveExternal, LInv
<1>2. CASE ObserveFaulty(w)
  BY <1>2, ObserveFaultyKeeps, ObservedImplements DEF ObserveFaulty, LInv
<1>3. CASE RecordCreated(w)
  BY <1>3, RecordCreatedKeeps, RecordImplements DEF RecordCreated, LInv, At
<1>4. CASE RecordFailed(w)
  BY <1>4, RecordFailedKeeps, RecordImplements DEF RecordFailed, LInv, At
<1>5. CASE UpdateAnswered(w)
  BY <1>5, UpdateAnsweredKeeps, DropImplements DEF UpdateAnswered, LInv
<1>6. CASE UpdateUnanswered(w)
  BY <1>6, UpdateUnansweredKeeps, DropImplements DEF UpdateUnanswered, LInv
<1>7. CASE Conflict(w)
  BY <1>7, ConflictKeeps, DropImplements DEF Conflict, LInv
<1>8. CASE GiveUp(w)
  BY <1>8, GiveUpKeeps, DropImplements DEF GiveUp, LInv
<1> QED BY <1>1, <1>2, <1>3, <1>4, <1>5, <1>6, <1>7, <1>8, InitializeImplements,
         AddFinalizerImplements, MarkPendingImplements, CreationImplements,
         RemoveFinalizerImplements DEF Step, Fault

-----------------------------------------------------------------------------
(* The steps of the world around                                            *)

\* Nobody moves and nobody writes.
LEMMA StutterImplements ==
    ASSUME LInv, UNCHANGED <<kube, work>>, IInv'
    PROVE  Implements
<1>1. UNCHANGED <<life, locked, extName, holds>>
  BY DEF life, locked, extName, holds, Creating
<1>2. LInv'
  BY DEF LInv, Whole, OnPath
<1> QED BY <1>1, <1>2 DEF Implements, Lock!vars

\* The workers of a process that dies abandon what they hold.
LEMMA CrashImplements ==
    ASSUME LInv, NEW p, Crash(p)
    PROVE  Implements
<1> DEFINE S == {w \in Workers : ProcessOf[w] = p}
<1>1. /\ UNCHANGED kube
      /\ work' = [w \in Workers |-> IF w \in S THEN Idle ELSE work[w]]
  BY DEF Crash
<1>2. OnPath(Idle) /\ HeldBy(Idle) = NoObj
  BY IdleSound DEF OnPath, HeldBy, CreatingPhases
<1>3. holds' = [w \in Workers |-> IF w \in S THEN NoObj ELSE holds[w]]
  BY <1>1, <1>2, Mapped
<1>4. IInv' /\ LInv'
  BY <1>1, <1>2, CrashKeeps DEF LInv, Whole
<1>5. Lock!Abandon(S) /\ S \in SUBSET Workers
  BY <1>1, <1>3, UnwrittenMapped DEF Lock!Abandon
<1> HIDE DEF S
<1> QED BY <1>4, <1>5 DEF Implements, Lock!Next

\* Users begin, edit and end lives, and take locks away that nobody holds.
LEMMA UserImplements ==
    ASSUME LInv, NEW o \in Objs, User(o)
    PROVE  Implements
<1>1. IInv' /\ kube[o] \in Copies /\ Whole(kube[o])
  BY ApplyKeeps, EditKeeps, MarkDeletedKeeps, ClearPendingKeeps
     DEF User, LInv, IInv, Consistent, KubeTyped
<1>2. CASE Apply(o)
  <2>1. PICK s \in SpecsOf[o] : UserStore(o, Applied(s))
    BY <1>2 DEF Apply
  <2> DEFINE k == Applied(s)
  <2>2. /\ Whole(k) /\ LifeOf(k) = "bare" /\ k.ext = "" /\ k.create # "pending"
    BY DEF Applied, Absent, Whole, LifeOf
  <2>3. kube[o] = Absent /\ ~ kube[o].present
    BY <1>1, <1>2 DEF Apply, Whole
  <2>4. life[o] = "absent" /\ o \notin locked /\ extName[o] = ""
    BY <2>3, AbsentFacts DEF life, LifeOf, locked, extName
  <2> HIDE DEF k
  <2>5. UserStore(o, k)
    BY <2>1 DEF k
  <2>8. /\ LInv'
        /\ life' = [life EXCEPT ![o] = LifeOf(k)]
        /\ extName' = [extName EXCEPT ![o] = k.ext]
        /\ locked' = locked \ {o}
        /\ holds' = holds
    BY <1>1, <2>2, <2>5, UserStoreMapped
  <2>6. /\ LInv'
        /\ life' = [life EXCEPT ![o] = "bare"]
        /\ extName' = [extName EXCEPT ![o] = ""]
        /\ locked' = locked \ {o}
        /\ holds' = holds
    BY <2>2, <2>8
  <2>7. UNCHANGED <<locked, extName>>
    BY <2>4, <2>6 DEF extName
  <2> QED BY <2>4, <2>6, <2>7 DEF Implements, Lock!Next, Lock!Apply, Lock!Move
<1>3. CASE Edit(o)
  <2>1. PICK s \in SpecsOf[o] : UserStore(o, [kube[o] EXCEPT !.spec = s])
    BY <1>3 DEF Edit
  <2> DEFINE k == [kube[o] EXCEPT !.spec = s]
  <2>2. /\ Whole(k) /\ LifeOf(k) = LifeOf(kube[o]) /\ k.ext = kube[o].ext
        /\ k.create = kube[o].create
    BY <1>1, <1>3 DEF Edit, Copies, Whole, LifeOf
  <2> HIDE DEF k
  <2>3. UserStore(o, k)
    BY <2>1 DEF k
  <2>4. /\ LInv' /\ holds' = holds
        /\ life' = [life EXCEPT ![o] = LifeOf(k)]
        /\ extName' = [extName EXCEPT ![o] = k.ext]
        /\ k.create = "pending" => locked' = locked \cup {o}
        /\ k.create # "pending" => locked' = locked \ {o}
    BY <1>1, <2>2, <2>3, UserStoreMapped
  <2>5. life' = life
    BY <2>2, <2>4 DEF life
  <2>6. extName' = extName
    BY <2>2, <2>4 DEF extName
  <2>7. locked' = locked
    BY <2>2, <2>4 DEF locked
  <2> QED BY <2>4, <2>5, <2>6, <2>7 DEF Implements, Lock!vars
<1>4. CASE MarkDeleted(o) /\ kube[o].finalizer
  <2> DEFINE k == [kube[o] EXCEPT !.deleting = TRUE]
  <2>1. /\ Whole(k) /\ LifeOf(k) = "dying" /\ k.ext = kube[o].ext
        /\ k.create = kube[o].create
    BY <1>1, <1>4 DEF MarkDeleted, Copies, Whole, LifeOf
  <2>2. UserStore(o, k)
    BY <1>4 DEF MarkDeleted
  <2>3. life[o] = "kept"
    BY <1>4 DEF MarkDeleted, life, LifeOf
  <2> HIDE DEF k
  <2>4. /\ LInv' /\ holds' = holds
        /\ life' = [life EXCEPT ![o] = "dying"]
        /\ extName' = [extName EXCEPT ![o] = k.ext]
        /\ k.create = "pending" => locked' = locked \cup {o}
        /\ k.create # "pending" => locked' = locked \ {o}
    BY <1>1, <2>1, <2>2, UserStoreMapped
  <2>5. extName' = extName
    BY <2>1, <2>4 DEF extName
  <2>6. locked' = locked
    BY <2>1, <2>4 DEF locked
  <2> QED BY <2>3, <2>4, <2>5, <2>6 DEF Implements, Lock!Next, Lock!Delete, Lock!Move
<1>5. CASE MarkDeleted(o) /\ ~ kube[o].finalizer
  <2> DEFINE k == Absent
  <2>1. Whole(k) /\ LifeOf(k) = "absent" /\ k.ext = "" /\ k.create # "pending"
    BY AbsentFacts
  <2>2. UserStore(o, k)
    BY <1>5 DEF MarkDeleted
  <2> HIDE DEF k
  <2>3. life[o] = "bare" /\ o \notin locked
    BY <1>1, <1>5 DEF MarkDeleted, life, LifeOf, locked, Whole
  <2>6. /\ LInv' /\ holds' = holds
        /\ life' = [life EXCEPT ![o] = LifeOf(k)]
        /\ extName' = [extName EXCEPT ![o] = k.ext]
        /\ locked' = locked \ {o}
    BY <1>1, <2>1, <2>2, UserStoreMapped
  <2>4. /\ LInv' /\ holds' = holds
        /\ life' = [life EXCEPT ![o] = "absent"]
        /\ extName' = [extName EXCEPT ![o] = ""]
        /\ locked' = locked \ {o}
    BY <2>1, <2>6
  <2>5. locked' = locked
    BY <2>3, <2>4
  <2> QED BY <2>3, <2>4, <2>5 DEF Implements, Lock!Next, Lock!End, Lock!Move
<1>6. CASE ClearPending(o)
  <2> DEFINE k == [kube[o] EXCEPT !.create = "none"]
  <2>1. kube[o].present
    BY <1>1, <1>6, AbsentFacts DEF ClearPending, Whole
  <2>2. /\ Whole(k) /\ LifeOf(k) = LifeOf(kube[o]) /\ k.ext = kube[o].ext
        /\ k.create # "pending"
    BY <1>1, <2>1 DEF Copies, Whole, LifeOf
  <2>3. UserStore(o, k)
    BY <1>6 DEF ClearPending
  <2>4. o \in locked /\ o # NoObj /\ \A w \in Workers : holds[w] # o
    BY <1>6, NullAssumption DEF ClearPending, locked, holds
  <2> HIDE DEF k
  <2>5. /\ LInv' /\ holds' = holds
        /\ life' = [life EXCEPT ![o] = LifeOf(k)]
        /\ extName' = [extName EXCEPT ![o] = k.ext]
        /\ locked' = locked \ {o}
    BY <1>1, <2>2, <2>3, UserStoreMapped
  <2>6. life' = life
    BY <2>2, <2>5 DEF life
  <2>7. extName' = extName
    BY <2>2, <2>5 DEF extName
  <2> QED BY <2>4, <2>5, <2>6, <2>7 DEF Implements, Lock!Next, Lock!Clear
<1> QED BY <1>2, <1>3, <1>4, <1>5, <1>6 DEF User

-----------------------------------------------------------------------------

\* Nothing exists at first, on either side.
LEMMA InitImplements == Init => LInv /\ Lock!Init
<1> SUFFICES ASSUME Init
             PROVE  LInv /\ Lock!Init
  OBVIOUS
<1>1. \A o \in Objs : kube[o] = Absent
  BY DEF Init
<1>2. \A w \in Workers : work[w].phase = "idle"
  BY IdleSound DEF Init
<1>3. LInv
  BY <1>1, <1>2, InitIInv, AbsentFacts DEF LInv, OnPath
<1>4. Lock!Init
  BY <1>1, <1>2, AbsentFacts DEF Lock!Init, life, locked, extName, holds, Creating
<1> QED BY <1>3, <1>4

\* Every step is a step of the lock, or none.
LEMMA NextImplements == LInv /\ [Next]_vars => Implements
<1> SUFFICES ASSUME LInv, [Next]_vars
             PROVE  Implements
  OBVIOUS
<1>1. CASE LateEffect
  BY <1>1, LateEffectKeeps, StutterImplements DEF LateEffect, LInv
<1>2. CASE Drift
  BY <1>2, DriftKeeps, StutterImplements DEF Drift, LInv
<1>3. CASE UNCHANGED vars
  BY <1>3, NextIInv, StutterImplements DEF vars, LInv
<1> QED BY <1>1, <1>2, <1>3, GetImplements, StepImplements, UserImplements,
         CrashImplements DEF Next

\* The reconcilers implement the creation lock: whatever conflicts, failed or
\* unanswered calls, crashes, edits and deletions they meet, the pending
\* annotation is taken only while the resource is kept, given back or left behind
\* only by who took it, and no resource goes away or is renamed under it.
THEOREM LockingImplemented == Spec => LockingIsSound
<1>1. Spec => Lock!Init /\ [][Lock!Next]_(Lock!vars)
  BY InitImplements, NextImplements, PTL DEF Spec, Implements
<1> QED BY <1>1 DEF LockingIsSound, Lock!Spec

=============================================================================

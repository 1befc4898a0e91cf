--------------------------- MODULE ManagedReconcile ---------------------------
(***************************************************************************)
(* The life of the provider's custom resources: worker goroutines of the   *)
(* managed reconciler (crossplane-runtime v2.0.0, not in this repository)  *)
(* drive the six external clients of internal/controller against the       *)
(* Kubernetes API server on one side and the kcore controller on the other.*)
(*                                                                         *)
(*   kube    the custom resources in the API server                        *)
(*   work    what each worker is doing, with its copy of one resource      *)
(*   db      the tables of the kcore controller                            *)
(*   stray   calls whose client gave up and that may still take effect     *)
(*   budget  how many edits, faults, crashes and outside removals are left *)
(*                                                                         *)
(* A copy is "fresh" while nobody has written the resource since it was    *)
(* read: that is what the API server's resourceVersion check tests.        *)
(* Status and conditions are left out: nothing reads them back.            *)
(***************************************************************************)
EXTENDS Handlers

CONSTANTS
    Workers,    \* reconciling goroutines (a bound)
    ProcessOf,  \* the provider process of each worker
    MetaName,   \* metadata.name of each custom resource
    Budget,     \* the initial budget (a bound)
    NoSpec, NoObj

ASSUME MetaNameAssumption ==
    MetaName \in [Objs -> STRING] /\ \A o \in Objs : MetaName[o] # ""

ASSUME BudgetAssumption == Budget \in [{"edit", "fault", "crash", "drift"} -> Nat]

ASSUME NullAssumption == NoObj \notin Objs

VARIABLES kube, work, db, stray, budget

vars == <<kube, work, db, stray, budget>>

-----------------------------------------------------------------------------

\* A resource that does not exist.
Absent == [present |-> FALSE, deleting |-> FALSE, finalizer |-> FALSE,
           ext |-> "", create |-> "none", spec |-> NoSpec]

\* A resource as "kubectl apply" creates it.
Applied(s) == [Absent EXCEPT !.present = TRUE, !.spec = s]

Idle == [phase |-> "idle", obj |-> NoObj, cr |-> Absent, fresh |-> FALSE,
         obs |-> "none"]

Init ==
    /\ kube = [o \in Objs |-> Absent]
    /\ work = [w \in Workers |-> Idle]
    /\ db = EmptyDatabase
    /\ stray = {}
    /\ budget = Budget

Spend(kind) == budget[kind] > 0 /\ budget' = [budget EXCEPT ![kind] = @ - 1]

\* The copies of o that other workers hold are no longer fresh.
Outdated(v, o) ==
    IF work[v].obj = o THEN [work[v] EXCEPT !.fresh = FALSE] ELSE work[v]

\* Worker w stores k as o and goes on as next.
Store(w, o, k, next) ==
    /\ kube' = [kube EXCEPT ![o] = k]
    /\ work' = [v \in Workers |-> IF v = w THEN next ELSE Outdated(v, o)]

\* Worker w goes on as next without writing its resource.
Proceed(w, next) == work' = [work EXCEPT ![w] = next] /\ UNCHANGED kube

At(w, phase) == work[w].phase = phase

\* Between the pending annotation and the one that ends the creation.
Creating(w) == work[w].phase \in {"create", "record", "fail"}

\* meta.ExternalCreateIncomplete: pending is newer than succeeded and failed.
ExternalCreateIncomplete(cr) == cr.create = "pending"

-----------------------------------------------------------------------------
(* The reconcile, in the order of its writes and calls.                     *)

\* A slip: an incomplete creation does not stop the reconcile.
GetIncomplete(w, o) ==
    /\ At(w, "idle")
    /\ \A v \in Workers : ProcessOf[v] = ProcessOf[w] => work[v].obj # o
    /\ kube[o].present
    /\ work' = [work EXCEPT ![w] = [phase |-> "init", obj |-> o, cr |-> kube[o],
                                    fresh |-> TRUE, obs |-> "none"]]
    /\ UNCHANGED <<kube, db, stray, budget>>

\* Read the resource.  One process never works on it twice at a time.  A
\* reconcile that finds an incomplete creation stops there, deleted or not.
Get(w, o) ==
    /\ At(w, "idle")
    /\ \A v \in Workers : ProcessOf[v] = ProcessOf[w] => work[v].obj # o
    /\ kube[o].present
    /\ ~ ExternalCreateIncomplete(kube[o])
    /\ work' = [work EXCEPT ![w] = [phase |-> "init", obj |-> o, cr |-> kube[o],
                                    fresh |-> TRUE, obs |-> "none"]]
    /\ UNCHANGED <<kube, db, stray, budget>>

\* The default initializer names the external resource after metadata.name.
Initialize(w) ==
    LET s == work[w]
        k == [s.cr EXCEPT !.ext = MetaName[s.obj]]
    IN  /\ At(w, "init")
        /\ \/ /\ s.cr.ext = ""
              /\ s.fresh
              /\ Store(w, s.obj, k, [s EXCEPT !.cr = k, !.phase = "observe"])
           \/ /\ s.cr.ext # ""
              /\ Proceed(w, [s EXCEPT !.phase = "observe"])
        /\ UNCHANGED <<db, stray, budget>>

\* What follows an observation.  No action starts from phase "delete": a worker
\* does not get there (NothingIsDeleted in ManagedReconcileProofs).
AfterObserve(s, seen) ==
    IF seen = "error" THEN Idle
    ELSE [s EXCEPT !.obs = seen,
                   !.phase = IF ~ s.cr.deleting THEN "adopt"
                             ELSE IF seen = "absent" THEN "finalize" ELSE "delete"]

ObserveExternal(w) ==
    LET s == work[w]
    IN  /\ At(w, "observe")
        /\ \E seen \in Observe(s.obj, s.cr, Lookup(s.obj, db, s.cr)) :
              Proceed(w, AfterObserve(s, seen))
        /\ UNCHANGED <<db, stray, budget>>

\* The call fails, or its answer lacks the message field the handler reads.
FaultyReplies(o) ==
    {Unavailable} \cup {Ok({}) : k \in {"VirtualMachine", "SecurityGroup", "SSHKey"}
                                           \cap {KindOf[o]}}

ObserveFaulty(w) ==
    LET s == work[w]
    IN  /\ At(w, "observe")
        /\ Spend("fault")
        /\ \E reply \in FaultyReplies(s.obj) : \E seen \in Observe(s.obj, s.cr, reply) :
              Proceed(w, AfterObserve(s, seen))
        /\ UNCHANGED <<db, stray>>

\* With its finalizer in place an absent resource is created, a drifted one
\* updated; a current one ends the reconcile until the next poll.
AfterAdopt(s) ==
    CASE s.obs = "absent"  -> [s EXCEPT !.phase = "pend"]
      [] s.obs = "drifted" -> [s EXCEPT !.phase = "update"]
      [] OTHER             -> Idle

\* A slip: the finalizer is not written.
AddFinalizerForgotten(w) ==
    /\ At(w, "adopt")
    /\ Proceed(w, AfterAdopt(work[w]))
    /\ UNCHANGED <<db, stray, budget>>

AddFinalizer(w) ==
    LET s == work[w]
        k == [s.cr EXCEPT !.finalizer = TRUE]
    IN  /\ At(w, "adopt")
        /\ \/ /\ ~ s.cr.finalizer
              /\ s.fresh
              /\ Store(w, s.obj, k, AfterAdopt([s EXCEPT !.cr = k]))
           \/ /\ s.cr.finalizer
              /\ Proceed(w, AfterAdopt(s))
        /\ UNCHANGED <<db, stray, budget>>

\* A slip: the pending annotation is merged into whatever version is there.
MarkPendingMerged(w) ==
    LET s == work[w]
        k == [kube[s.obj] EXCEPT !.create = "pending"]
    IN  /\ At(w, "pend")
        /\ k.present
        /\ Store(w, s.obj, k, [s EXCEPT !.cr = k, !.phase = "create"])
        /\ UNCHANGED <<db, stray, budget>>

\* The write that must not succeed from a stale copy.
MarkPending(w) ==
    LET s == work[w]
        k == [s.cr EXCEPT !.create = "pending"]
    IN  /\ At(w, "pend")
        /\ s.fresh
        /\ Store(w, s.obj, k, [s EXCEPT !.cr = k, !.phase = "create"])
        /\ UNCHANGED <<db, stray, budget>>

CreateRejected(w) ==
    LET s == work[w]
    IN  /\ At(w, "create")
        /\ ~ CreateValid(s.obj, s.cr.spec)
        /\ Proceed(w, [s EXCEPT !.phase = "fail"])
        /\ UNCHANGED <<db, stray, budget>>

\* Create's call is answered, with an error or with the new resource.
CreateAnswered(w) ==
    LET s == work[w]
    IN  /\ At(w, "create")
        /\ CreateValid(s.obj, s.cr.spec)
        /\ \E out \in Serve(db, createRequest(s.obj, s.cr.spec)) :
              /\ db' = out.db
              /\ Proceed(w, IF out.answer.code = "OK"
                            THEN [s EXCEPT !.phase = "record",
                                    !.cr.ext = CreatedName(s.obj, s.cr, out.answer)]
                            ELSE [s EXCEPT !.phase = "fail"])
        /\ UNCHANGED <<stray, budget>>

\* A call without an answer took effect, will do so later, or never does.
Unanswered(r) ==
    \/ (\E out \in Serve(db, r) : db' = out.db) /\ UNCHANGED stray
    \/ stray' = stray \cup {r} /\ UNCHANGED db
    \/ UNCHANGED <<db, stray>>

CreateUnanswered(w) ==
    LET s == work[w]
    IN  /\ At(w, "create")
        /\ CreateValid(s.obj, s.cr.spec)
        /\ Spend("fault")
        /\ Unanswered(createRequest(s.obj, s.cr.spec))
        /\ Proceed(w, [s EXCEPT !.phase = "fail"])

\* The critical annotations of the copy are merged into the latest version,
\* with a new read after every conflict.
Recorded(s, how) == [kube[s.obj] EXCEPT !.ext = s.cr.ext, !.create = how]

RecordCreated(w) ==
    LET s == work[w]
    IN  /\ At(w, "record")
        /\ kube[s.obj].present
        /\ Store(w, s.obj, Recorded(s, "succeeded"), Idle)
        /\ UNCHANGED <<db, stray, budget>>

RecordFailed(w) ==
    LET s == work[w]
    IN  /\ At(w, "fail")
        /\ kube[s.obj].present
        /\ Store(w, s.obj, Recorded(s, "failed"), Idle)
        /\ UNCHANGED <<db, stray, budget>>

UpdateAnswered(w) ==
    LET s == work[w]
        calls == Update(s.obj, s.cr)
    IN  /\ At(w, "update")
        /\ \/ calls = {} /\ UNCHANGED db
           \/ \E r \in calls : \E out \in Serve(db, r) : db' = out.db
        /\ Proceed(w, Idle)
        /\ UNCHANGED <<stray, budget>>

UpdateUnanswered(w) ==
    LET s == work[w]
    IN  /\ At(w, "update")
        /\ Spend("fault")
        /\ \E r \in Update(s.obj, s.cr) : Unanswered(r)
        /\ Proceed(w, Idle)

\* A slip: the copy is written back with its finalizer.
RemoveFinalizerForgotten(w) ==
    LET s == work[w]
    IN  /\ At(w, "finalize")
        /\ s.fresh
        /\ Store(w, s.obj, s.cr, Idle)
        /\ UNCHANGED <<db, stray, budget>>

\* Without its only finalizer a deleted resource is gone.
RemoveFinalizer(w) ==
    LET s == work[w]
    IN  /\ At(w, "finalize")
        /\ s.fresh
        /\ Store(w, s.obj, Absent, Idle)
        /\ UNCHANGED <<db, stray, budget>>

\* The next step writes the copy as a whole.
Writing(s) ==
    \/ s.phase = "init" /\ s.cr.ext = ""
    \/ s.phase = "adopt" /\ ~ s.cr.finalizer
    \/ s.phase \in {"pend", "finalize"}

\* The API server refuses a stale write; the reconcile starts over.
Conflict(w) ==
    /\ Writing(work[w])
    /\ ~ work[w].fresh
    /\ Proceed(w, Idle)
    /\ UNCHANGED <<db, stray, budget>>

\* Any other failure: a write, the connection (usage tracking, credentials,
\* dial), or the annotations that should have ended a creation.  Requeueing
\* within the runtime's grace period after a creation looks the same.
GiveUp(w) ==
    /\ \/ Writing(work[w]) /\ work[w].fresh
       \/ work[w].phase \in {"observe", "adopt", "record", "fail"}
    /\ Spend("fault")
    /\ Proceed(w, Idle)
    /\ UNCHANGED <<db, stray>>

-----------------------------------------------------------------------------
(* The world around the reconcilers.                                        *)

\* A provider process dies and its workers forget what they were doing.
Crash(p) ==
    /\ \E w \in Workers : ProcessOf[w] = p /\ ~ At(w, "idle")
    /\ Spend("crash")
    /\ work' = [w \in Workers |-> IF ProcessOf[w] = p THEN Idle ELSE work[w]]
    /\ UNCHANGED <<kube, db, stray>>

\* A call nobody waits for takes effect at last.
LateEffect ==
    \E r \in stray :
        /\ \E out \in Serve(db, r) : db' = out.db
        /\ stray' = stray \ {r}
        /\ UNCHANGED <<kube, work, budget>>

UserStore(o, k) ==
    /\ kube' = [kube EXCEPT ![o] = k]
    /\ work' = [v \in Workers |-> Outdated(v, o)]
    /\ UNCHANGED <<db, stray>>

Apply(o) ==
    /\ ~ kube[o].present
    /\ Spend("edit")
    /\ \E s \in SpecsOf[o] : UserStore(o, Applied(s))

Edit(o) ==
    /\ kube[o].present
    /\ Spend("edit")
    /\ \E s \in SpecsOf[o] \ {kube[o].spec} : UserStore(o, [kube[o] EXCEPT !.spec = s])

MarkDeleted(o) ==
    /\ kube[o].present
    /\ ~ kube[o].deleting
    /\ Spend("edit")
    /\ UserStore(o, IF kube[o].finalizer THEN [kube[o] EXCEPT !.deleting = TRUE]
                    ELSE Absent)

\* An operator looks into a creation that stopped and takes the pending
\* annotation away, when no reconcile is still in the middle of it.
ClearPending(o) ==
    /\ kube[o].create = "pending"
    /\ \A w \in Workers : Creating(w) => work[w].obj # o
    /\ UserStore(o, [kube[o] EXCEPT !.create = "none"])
    /\ UNCHANGED budget

\* Somebody else works on the tables of the kcore controller.
Drift ==
    /\ Spend("drift")
    /\ db' \in Interference(db)
    /\ UNCHANGED <<kube, work, stray>>

-----------------------------------------------------------------------------

Step(w) ==
    \/ Initialize(w) \/ ObserveExternal(w) \/ AddFinalizer(w) \/ MarkPending(w)
    \/ CreateRejected(w) \/ CreateAnswered(w) \/ RecordCreated(w) \/ RecordFailed(w)
    \/ UpdateAnswered(w) \/ RemoveFinalizer(w) \/ Conflict(w)

Fault(w) ==
    ObserveFaulty(w) \/ CreateUnanswered(w) \/ UpdateUnanswered(w) \/ GiveUp(w)

User(o) == Apply(o) \/ Edit(o) \/ MarkDeleted(o) \/ ClearPending(o)

Next ==
    \/ \E w \in Workers : \E o \in Objs : Get(w, o)
    \/ \E w \in Workers : Step(w) \/ Fault(w)
    \/ \E o \in Objs : User(o)
    \/ \E w \in Workers : Crash(ProcessOf[w])
    \/ LateEffect
    \/ Drift

Spec == Init /\ [][Next]_vars

\* A started reconcile goes on, and every resource's turn comes: watches and
\* the poll interval put it into the work queue again and again.
Fairness ==
    /\ \A w \in Workers : WF_vars(Step(w))
    /\ \A o \in Objs : SF_vars(\E w \in Workers : Get(w, o))

FairSpec == Spec /\ Fairness

=============================================================================

---------------------------- MODULE CreationLock ----------------------------
(***************************************************************************)
(* What the annotations and the finalizer of a custom resource promise,    *)
(* without copies, versions, calls or answers.  The external-create-pending*)
(* annotation is a lock on the creation of the external resource.  Nobody  *)
(* takes the lock of a resource that is about to go, a locked resource does*)
(* not go, and its external name is written by the holder of the lock as   *)
(* it returns it.  A holder that dies leaves the lock behind, for a human  *)
(* to take away.                                                           *)
(*                                                                         *)
(*   life    where each resource is between its creation and its end: with *)
(*           ("kept") or still without ("bare") the finalizer, or deleted  *)
(*           and waiting for the finalizer to go ("dying")                 *)
(*   locked  the resources whose lock is taken                             *)
(*   name    their external names                                          *)
(*   holds   the resource whose lock a worker holds, if any                *)
(***************************************************************************)

CONSTANTS
    Objs, Workers, NoObj,
    Names, NoName       \* external names, and that of a resource without one

VARIABLES life, locked, name, holds

vars == <<life, locked, name, holds>>

-----------------------------------------------------------------------------

Init ==
    /\ life = [o \in Objs |-> "absent"]
    /\ locked = {}
    /\ name = [o \in Objs |-> NoName]
    /\ holds = [w \in Workers |-> NoObj]

Move(o, from, to) == life[o] = from /\ life' = [life EXCEPT ![o] = to]

Apply(o) == Move(o, "absent", "bare") /\ UNCHANGED <<locked, name, holds>>

Keep(o) == Move(o, "bare", "kept") /\ UNCHANGED <<locked, name, holds>>

Delete(o) == Move(o, "kept", "dying") /\ UNCHANGED <<locked, name, holds>>

\* An end, and the name goes with it.
End(o) ==
    /\ o \notin locked
    /\ Move(o, "bare", "absent") \/ Move(o, "dying", "absent")
    /\ name' = [name EXCEPT ![o] = NoName]
    /\ UNCHANGED <<locked, holds>>

Rename(o) == name' \in [Objs -> Names] /\ \A p \in Objs \ {o} : name'[p] = name[p]

\* A first name, before anything is created.
Name(o) ==
    /\ life[o] # "absent"
    /\ o \notin locked
    /\ name[o] = NoName
    /\ Rename(o)
    /\ UNCHANGED <<life, locked, holds>>

Acquire(w, o) ==
    /\ life[o] = "kept"
    /\ o \notin locked
    /\ holds[w] = NoObj
    /\ locked' = locked \cup {o}
    /\ holds' = [holds EXCEPT ![w] = o]
    /\ UNCHANGED <<life, name>>

Release(w) ==
    /\ holds[w] # NoObj
    /\ Rename(holds[w])
    /\ locked' = locked \ {holds[w]}
    /\ holds' = [holds EXCEPT ![w] = NoObj]
    /\ UNCHANGED life

\* The workers of S are no longer there to return what they hold.
Abandon(S) ==
    /\ holds' = [w \in Workers |-> IF w \in S THEN NoObj ELSE holds[w]]
    /\ UNCHANGED <<life, locked, name>>

Clear(o) ==
    /\ o \in locked
    /\ \A w \in Workers : holds[w] # o
    /\ locked' = locked \ {o}
    /\ UNCHANGED <<life, name, holds>>

Next ==
    \/ \E o \in Objs : Apply(o) \/ Keep(o) \/ Delete(o) \/ End(o) \/ Name(o) \/ Clear(o)
    \/ \E w \in Workers : Release(w) \/ \E o \in Objs : Acquire(w, o)
    \/ \E S \in SUBSET Workers : Abandon(S)

Spec == Init /\ [][Next]_vars

-----------------------------------------------------------------------------

\* A lock has one holder at most, and what is held is locked and does not go.
Exclusive ==
    \A w \in Workers : holds[w] # NoObj =>
        /\ holds[w] \in locked
        /\ life[holds[w]] \in {"kept", "dying"}
        /\ \A v \in Workers \ {w} : holds[v] # holds[w]

=============================================================================

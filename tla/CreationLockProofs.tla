-------------------------- MODULE CreationLockProofs --------------------------
(***************************************************************************)
(* What the lock of CreationLock is good for.                              *)
(***************************************************************************)
EXTENDS CreationLock, TLAPS

Lives == {"absent", "bare", "kept", "dying"}

Typed ==
    /\ life \in [Objs -> Lives]
    /\ holds \in [Workers -> Objs \cup {NoObj}]

\* Who takes a lock finds it free, and nothing that is locked goes away.
LEMMA NextExclusive ==
    ASSUME NoObj \notin Objs, Typed, Exclusive, [Next]_vars
    PROVE  Typed' /\ Exclusive'
<1>1. CASE UNCHANGED vars
  BY <1>1 DEF vars, Typed, Exclusive
<1>2. ASSUME NEW o \in Objs, Apply(o) \/ Keep(o) \/ Delete(o)
      PROVE  Typed' /\ Exclusive'
  BY <1>2 DEF Apply, Keep, Delete, Move, Typed, Exclusive, Lives
<1>3. ASSUME NEW o \in Objs, End(o)
      PROVE  Typed' /\ Exclusive'
  <2>1. \A w \in Workers : holds[w] # o
    BY <1>3 DEF End, Exclusive
  <2> QED BY <1>3, <2>1 DEF End, Move, Typed, Exclusive, Lives
<1>4. ASSUME NEW o \in Objs, Name(o) \/ Clear(o)
      PROVE  Typed' /\ Exclusive'
  BY <1>4 DEF Name, Clear, Typed, Exclusive
<1>5. ASSUME NEW w \in Workers, NEW o \in Objs, Acquire(w, o)
      PROVE  Typed' /\ Exclusive'
  <2>1. \A v \in Workers : holds[v] # o
    BY <1>5 DEF Acquire, Exclusive
  <2>2. /\ holds' = [holds EXCEPT ![w] = o] /\ locked' = locked \cup {o}
        /\ life' = life /\ life[o] = "kept"
    BY <1>5 DEF Acquire
  <2>3. \A v \in Workers : holds'[v] = IF v = w THEN o ELSE holds[v]
    BY <2>2 DEF Typed
  <2> QED BY <2>1, <2>2, <2>3 DEF Typed, Exclusive
<1>6. ASSUME NEW w \in Workers, Release(w)
      PROVE  Typed' /\ Exclusive'
  <2>1. /\ holds' = [holds EXCEPT ![w] = NoObj] /\ locked' = locked \ {holds[w]}
        /\ life' = life /\ holds[w] # NoObj
    BY <1>6 DEF Release
  <2>2. \A v \in Workers : holds'[v] = IF v = w THEN NoObj ELSE holds[v]
    BY <2>1 DEF Typed
  <2> QED BY <2>1, <2>2 DEF Typed, Exclusive
<1>7. ASSUME NEW S \in SUBSET Workers, Abandon(S)
      PROVE  Typed' /\ Exclusive'
  BY <1>7 DEF Abandon, Typed, Exclusive
<1> QED BY <1>1, <1>2, <1>3, <1>4, <1>5, <1>6, <1>7 DEF Next

\* The lock excludes: a creation has one worker at most, and as long as it has one
\* the resource is locked and does not go.
THEOREM LockExcludes ==
    ASSUME NoObj \notin Objs
    PROVE  Spec => []Exclusive
<1>1. Init => Typed /\ Exclusive
  BY DEF Init, Typed, Exclusive, Lives
<1>2. Typed /\ Exclusive /\ [Next]_vars => Typed' /\ Exclusive'
  BY NextExclusive
<1> QED BY <1>1, <1>2, PTL DEF Spec

=============================================================================

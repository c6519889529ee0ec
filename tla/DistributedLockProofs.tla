------------------------- MODULE DistributedLockProofs -------------------------
(***************************************************************************)
(* Theorems about DistributedLock for any workers, any lifetime of the key *)
(* and bodies of any length.  What the lock promises holds of every        *)
(* behaviour, and of every beginning of one, in which nobody overstays the *)
(* life of the key; nothing in locks.py sees to that, and without it       *)
(* MutualExclusion fails (run lock_overrun).                               *)
(***************************************************************************)
EXTENDS DistributedLock, TLAPS

LEMMA TypeInit == Init => TypeOK
BY LockAssumption DEF Init, TypeOK, Location, Holding

LEMMA TypeNext == TypeOK /\ [Next]_vars => TypeOK'
<1>. SUFFICES ASSUME TypeOK, [Next]_vars PROVE TypeOK' OBVIOUS
<1>. USE LockAssumption DEF TypeOK, Location, Holding
<1>1. CASE Tick BY <1>1 DEF Tick, Remaining
<1>2. ASSUME NEW w \in Worker, Acquire(w) PROVE TypeOK'
  BY <1>2 DEF Acquire, Goto
<1>3. ASSUME NEW w \in Worker, ExecuteSet(w) PROVE TypeOK'
  BY <1>3 DEF ExecuteSet, Goto
<1>4. ASSUME NEW w \in Worker, Yield(w) PROVE TypeOK'
  BY <1>4 DEF Yield, Goto, Enters
<1>5. ASSUME NEW w \in Worker, Leave(w) PROVE TypeOK'
  BY <1>5 DEF Leave, Goto, Finally
<1>6. ASSUME NEW w \in Worker, ExecuteDelete(w) PROVE TypeOK'
  BY <1>6 DEF ExecuteDelete, Goto
<1>7. ASSUME NEW w \in Worker, Return(w) PROVE TypeOK'
  BY <1>7 DEF Return, Goto
<1>8. ASSUME NEW w \in Worker, Abort(w) PROVE TypeOK'
  BY <1>8 DEF Abort, Goto
<1>9. CASE UNCHANGED vars BY <1>9 DEF vars
<1>. QED BY <1>1, <1>2, <1>3, <1>4, <1>5, <1>6, <1>7, <1>8, <1>9 DEF Next

\* The key and the timers stay in range, also when bodies outlive the key.
THEOREM TypeCorrect == Spec => []TypeOK
BY TypeInit, TypeNext, PTL DEF Spec

\* No key outlives the Ttl seconds of the SET that made it, with bodies of any
\* length: what KeyFreed promises in the end is bounded.
THEOREM KeyIsNeverProlonged == Spec => NeverProlonged
<1>1. TypeOK /\ [Next]_vars => [ttl > 0 => ttl' <= ttl - (IF Tick THEN 1 ELSE 0)]_vars
  <2>. SUFFICES ASSUME TypeOK, [Next]_vars, vars' # vars, ttl > 0
                PROVE  ttl' <= ttl - (IF Tick THEN 1 ELSE 0)
    OBVIOUS
  <2>1. ttl \in Nat BY LockAssumption DEF TypeOK
  <2>2. CASE Tick
    <3>1. ttl' = ttl - 1 BY <2>1, <2>2 DEF Tick, Remaining
    <3>. QED BY <2>1, <2>2, <3>1
  <2>3. CASE ~Tick
    <3>1. ttl' = ttl \/ ttl' = 0
      BY <2>3 DEF Next, vars, Acquire, ExecuteSet, Vacant, Yield, Leave, ExecuteDelete,
                  Return, Abort
    <3>. QED BY <2>1, <2>3, <3>1
  <2>. QED BY <2>2, <2>3
<1>. QED BY <1>1, TypeCorrect, PTL DEF Spec, NeverProlonged

--------------------------------------------------------------------------------
(***************************************************************************)
(* MutualExclusion is not inductive, and neither is DeletesOwnKey: both    *)
(* follow from what every worker that counts on the key may rely on.  The  *)
(* key is its own, and as old as its timer says, so that it is still there *)
(* while the worker is in time.  One that is not takes the others with it: *)
(* its DEL removes a key on which a worker in time counts.                 *)
(***************************************************************************)
KeyIsMine ==
  \A w \in Worker : Holding(w) => owner = w /\ ttl = Ttl - held[w]

LEMMA ShortBodies ==
  ASSUME MaxHold < Ttl, TypeOK PROVE InTime
BY LockAssumption DEF TypeOK, InTime

LEMMA KeyInit == Init => KeyIsMine
BY DEF Init, KeyIsMine, Holding

\* A worker that counts on the key finds it.
LEMMA KeyAlive ==
  ASSUME InTime, TypeOK, KeyIsMine, NEW w \in Worker, Holding(w)
  PROVE  ttl > 0 /\ owner = w
BY LockAssumption DEF TypeOK, KeyIsMine, InTime

LEMMA KeyNext ==
  ASSUME InTime, InTime', TypeOK, KeyIsMine, [Next]_vars
  PROVE  KeyIsMine'
<1>. USE LockAssumption DEF TypeOK, Location
<1>1. CASE Tick
  <2>1. ASSUME NEW w \in Worker
        PROVE  Holding(w)' => owner' = w /\ ttl' = Ttl - held'[w]
    BY <1>1, <2>1 DEF Tick, Remaining, Holding, KeyIsMine, InTime
  <2>. QED BY <2>1 DEF KeyIsMine
<1>2. ASSUME NEW w \in Worker, Acquire(w) PROVE KeyIsMine'
  BY <1>2 DEF Acquire, Goto, Holding, KeyIsMine
<1>3. ASSUME NEW w \in Worker, ExecuteSet(w) PROVE KeyIsMine'
  <2>1. ~Holding(w) /\ held[w] = 0 BY <1>3 DEF ExecuteSet, Holding, KeyIsMine
  <2>2. CASE ~Vacant
    BY <1>3, <2>1, <2>2 DEF ExecuteSet, Goto, Holding, KeyIsMine
  <2>3. CASE Vacant
    <3>1. \A v \in Worker : ~Holding(v) BY <2>3, KeyAlive DEF Vacant
    <3>. QED BY <1>3, <2>1, <2>3, <3>1 DEF ExecuteSet, Goto, Holding, KeyIsMine
  <2>. QED BY <2>2, <2>3
<1>4. ASSUME NEW w \in Worker, Yield(w) PROVE KeyIsMine'
  BY <1>4 DEF Yield, Goto, Enters, Holding, KeyIsMine
<1>5. ASSUME NEW w \in Worker, Leave(w) PROVE KeyIsMine'
  BY <1>5 DEF Leave, Goto, Finally, Holding, KeyIsMine
<1>6. ASSUME NEW w \in Worker, ExecuteDelete(w) PROVE KeyIsMine'
  <2>1. Holding(w) BY <1>6 DEF ExecuteDelete, Holding
  <2>2. \A v \in Worker : Holding(v) => v = w BY <2>1, KeyAlive
  <2>. QED BY <1>6, <2>2 DEF ExecuteDelete, Goto, Holding, KeyIsMine
<1>7. ASSUME NEW w \in Worker, Return(w) PROVE KeyIsMine'
  BY <1>7 DEF Return, Goto, Holding, KeyIsMine
<1>8. ASSUME NEW w \in Worker, Abort(w) PROVE KeyIsMine'
  BY <1>8 DEF Abort, Goto, Holding, KeyIsMine
<1>9. CASE UNCHANGED vars BY <1>9 DEF vars, Holding, KeyIsMine
<1>. QED BY <1>1, <1>2, <1>3, <1>4, <1>5, <1>6, <1>7, <1>8, <1>9 DEF Next

LEMMA KeyInvariant == Spec /\ []InTime => [](TypeOK /\ KeyIsMine)
<1>1. TypeOK /\ KeyIsMine /\ InTime /\ InTime' /\ [Next]_vars => TypeOK' /\ KeyIsMine'
  BY TypeNext, KeyNext
<1>. QED BY <1>1, TypeInit, KeyInit, PTL DEF Spec

LEMMA ShortBodiesInTime == ASSUME MaxHold < Ttl PROVE Spec => []InTime
<1>1. TypeOK => InTime BY ShortBodies
<1>. QED BY <1>1, TypeCorrect, PTL

\* The job runs on two workers at once only after somebody has overstayed the
\* life of its key, in the body or in the commands around it.
THEOREM ExclusiveUnlessOverrun == Spec /\ []InTime => []MutualExclusion
<1>1. TypeOK /\ KeyIsMine /\ InTime => MutualExclusion
  BY KeyAlive DEF MutualExclusion, Holding
<1>. QED BY <1>1, KeyInvariant, PTL

\* Nor does before that a worker delete another's key, although the key does
\* not say whose it is.
THEOREM DeletesOwnUnlessOverrun == Spec /\ []InTime => []DeletesOwnKey
<1>1. TypeOK /\ KeyIsMine /\ InTime => DeletesOwnKey
  BY KeyAlive DEF DeletesOwnKey, Holding
<1>. QED BY <1>1, KeyInvariant, PTL

\* The job never runs on two workers at once if all bodies are shorter than the
\* life of the key.
THEOREM LockExcludes ==
  ASSUME MaxHold < Ttl
  PROVE  Spec => []MutualExclusion
BY ShortBodiesInTime, ExclusiveUnlessOverrun, PTL

\* Under the same assumption every DEL finds its sender's key.
THEOREM DeletesOwn ==
  ASSUME MaxHold < Ttl
  PROVE  Spec => []DeletesOwnKey
BY ShortBodiesInTime, DeletesOwnUnlessOverrun, PTL

--------------------------------------------------------------------------------
\* A step of the lock is a step of the abstract job, or none.
LEMMA RefinesStep ==
  ASSUME InTime, TypeOK, KeyIsMine, [Next]_vars
  PROVE  [Job!Next]_Running
<1>. USE DEF TypeOK, Location
<1>. SUFFICES ASSUME Running' # Running PROVE Job!Next OBVIOUS
<1>1. CASE Tick BY <1>1 DEF Tick, Running
<1>2. ASSUME NEW w \in Worker, Yield(w) PROVE Job!Next
  <2>1. pc[w] = "granted" /\ pc' = [pc EXCEPT ![w] = "critical"]
    BY <1>2 DEF Yield, Goto, Enters, Running
  <2>2. \A v \in Worker : Holding(v) => v = w
    BY <2>1, KeyAlive DEF Holding
  <2>3. Running = {} /\ Running' = {w} BY <2>1, <2>2 DEF Running, Holding
  <2>4. Job!Enter(w) BY <2>3 DEF Job!Enter
  <2>. QED BY <2>4 DEF Job!Next
<1>3. ASSUME NEW w \in Worker, NEW l \in Location \ {"critical"},
             pc' = [pc EXCEPT ![w] = l]
      PROVE  Job!Next
  <2>1. w \in Running /\ Running' = Running \ {w} BY <1>3 DEF Running
  <2>2. Job!Leave(w) BY <2>1 DEF Job!Leave
  <2>. QED BY <2>2 DEF Job!Next
<1>4. ASSUME NEW w \in Worker, Leave(w) \/ Abort(w) PROVE Job!Next
  BY <1>3, <1>4 DEF Leave, Abort, Goto, Finally
<1>5. ASSUME NEW w \in Worker,
             Acquire(w) \/ ExecuteSet(w) \/ ExecuteDelete(w) \/ Return(w)
      PROVE  Job!Next
  BY <1>3, <1>5 DEF Acquire, ExecuteSet, ExecuteDelete, Return, Goto
<1>6. CASE UNCHANGED vars BY <1>6 DEF vars, Running
<1>. QED BY <1>1, <1>2, <1>4, <1>5, <1>6 DEF Next

\* The lock implements the abstract job until somebody overstays.
THEOREM RefinesUnlessOverrun == Spec /\ []InTime => Job!Spec
<1>1. Init => Job!Init BY DEF Init, Job!Init, Running
<1>2. TypeOK /\ KeyIsMine /\ InTime /\ [Next]_vars => [Job!Next]_Running
  BY RefinesStep
<1>. QED BY <1>1, <1>2, KeyInvariant, PTL DEF Spec, Job!Spec

\* The lock implements the abstract job if bodies are short.
THEOREM LockRefinesJob ==
  ASSUME MaxHold < Ttl
  PROVE  Spec => Job!Spec
BY ShortBodiesInTime, RefinesUnlessOverrun, PTL
================================================================================

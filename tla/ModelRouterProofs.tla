--------------------------- MODULE ModelRouterProofs ---------------------------
(***************************************************************************)
(* Theorems about ModelRouter, for any models, chains, number of           *)
(* coroutines and parameters.  Spec contains no fairness: what is proved   *)
(* here needs neither a fair event loop nor a clock that advances.         *)
(***************************************************************************)
EXTENDS ModelRouter, FiniteSetTheorems, TLAPS

\* The parts of TypeOK.
BreakersOK ==
  /\ failures \in [Model -> Nat]
  /\ opened_at \in [Model -> 0..RecoverySeconds \cup {None}]

CallRecord ==
  [pc : {"calling", "backoff"} \cup Outcome, task : Complexity,
   pos : Nat, attempt : 0..MaxRetries, timer : Nat]

InRange(r) ==
  r.pc \in {"calling", "backoff"} =>
    /\ r.pos \in 1..Len(Chain[r.task])
    /\ r.timer <= IF r.pc = "calling" THEN RequestTimeout ELSE 8
    /\ r.pc = "backoff" => r.attempt < MaxRetries

\* One invariant per coroutine is what the proofs work with.
LEMMA TypeParts ==
  TypeOK <=> /\ BreakersOK
             /\ call \in [Caller -> CallRecord]
             /\ \A c \in Caller : InRange(call[c])
BY DEF TypeOK, BreakersOK, CallRecord, InRange, Working

\* asyncio.sleep is asked for one to eight seconds.
LEMMA BackoffRange ==
  ASSUME NEW a \in Nat
  PROVE  Backoff(a) \in Nat /\ Backoff(a) >= 1 /\ Backoff(a) <= 8
<1>1. CASE a = 0  BY <1>1 DEF Backoff
<1>2. CASE a = 1  BY <1>2 DEF Backoff
<1>3. CASE a = 2  BY <1>3 DEF Backoff
<1>4. CASE a >= 3 BY <1>4 DEF Backoff
<1>. QED BY <1>1, <1>2, <1>3, <1>4

\* A coroutine's record replaced by a good one keeps all of them good.
LEMMA ReplaceCall ==
  ASSUME call \in [Caller -> CallRecord],
         \A d \in Caller : InRange(call[d]),
         NEW c \in Caller, NEW r \in CallRecord, InRange(r),
         call' = [call EXCEPT ![c] = r]
  PROVE  /\ call' \in [Caller -> CallRecord]
         /\ \A d \in Caller : InRange(call'[d])
BY DEF InRange

LEMMA FinishedOK ==
  ASSUME NEW how \in Outcome, NEW k \in Complexity
  PROVE  Finished(how, k) \in CallRecord /\ InRange(Finished(how, k))
BY ParameterAssumption DEF Finished, CallRecord, InRange, Outcome

LEMMA CallingOK ==
  ASSUME NEW k \in Complexity, NEW j \in 1..Len(Chain[k]), NEW a \in 0..MaxRetries
  PROVE  Calling(k, j, a) \in CallRecord /\ InRange(Calling(k, j, a))
<1>. Len(Chain[k]) \in Nat BY ChainAssumption
<1>. QED BY ParameterAssumption DEF Calling, CallRecord, InRange

\* Resuming the walk over the chain keeps the types.
LEMMA TryFromTyped ==
  ASSUME call \in [Caller -> CallRecord],
         \A d \in Caller : InRange(call[d]),
         NEW c \in Caller, NEW k \in Complexity, NEW i \in Nat \ {0},
         NEW f \in [Model -> Nat],
         NEW o \in [Model -> 0..RecoverySeconds \cup {None}],
         TryFrom(c, k, i, f, o)
  PROVE  TypeOK'
<1>1. CASE Admissible(k, i, o) = {} /\ failures' = f /\ opened_at' = o
           /\ call' = [call EXCEPT ![c] = Finished("error", k)]
  <2>1. Finished("error", k) \in CallRecord /\ InRange(Finished("error", k))
    BY FinishedOK DEF Outcome
  <2>2. /\ call' \in [Caller -> CallRecord]
        /\ \A d \in Caller : InRange(call'[d])
    BY <1>1, <2>1, ReplaceCall
  <2>3. BreakersOK' BY <1>1 DEF BreakersOK
  <2>. QED BY <2>2, <2>3, TypeParts DEF TypeOK, BreakersOK, CallRecord, InRange, Working
<1>2. ASSUME NEW j \in Admissible(k, i, o),
             failures' = [f EXCEPT ![Chain[k][j]] =
                            IF o[Chain[k][j]] = None THEN @ ELSE 0],
             opened_at' = [o EXCEPT ![Chain[k][j]] = None],
             call' = [call EXCEPT ![c] = Calling(k, j, 0)]
      PROVE  TypeOK'
  <2>1. Len(Chain[k]) \in Nat /\ j \in 1..Len(Chain[k])
    BY ChainAssumption DEF Admissible
  <2>2. 0 \in 0..MaxRetries BY ParameterAssumption
  <2>3. Calling(k, j, 0) \in CallRecord /\ InRange(Calling(k, j, 0))
    BY <2>1, <2>2, CallingOK
  <2>4. /\ call' \in [Caller -> CallRecord]
        /\ \A d \in Caller : InRange(call'[d])
    BY <1>2, <2>3, ReplaceCall
  <2>5. BreakersOK' BY <1>2 DEF BreakersOK
  <2>. QED BY <2>4, <2>5 DEF TypeOK, BreakersOK, CallRecord, InRange, Working
<1>. QED BY <1>1, <1>2 DEF TryFrom

\* A second more or less leaves a record good while nothing is due.
LEMMA ElapseOK ==
  ASSUME NEW r \in CallRecord, InRange(r),
         r.pc = "calling" => r.timer < RequestTimeout,
         r.pc = "backoff" => r.timer > 0
  PROVE  Elapse(r) \in CallRecord /\ InRange(Elapse(r))
<1>1. CASE r.pc = "calling"
  <2>1. Elapse(r) = [r EXCEPT !.timer = @ + 1] BY <1>1 DEF Elapse
  <2>. QED BY <1>1, <2>1, ParameterAssumption DEF CallRecord, InRange
<1>2. CASE r.pc = "backoff"
  <2>1. Elapse(r) = [r EXCEPT !.timer = @ - 1] BY <1>2 DEF Elapse
  <2>. QED BY <1>2, <2>1 DEF CallRecord, InRange
<1>3. CASE r.pc \notin {"calling", "backoff"} BY <1>3 DEF Elapse
<1>. QED BY <1>1, <1>2, <1>3

LEMMA TypeInit == Init => TypeOK
<1>. SUFFICES ASSUME Init PROVE TypeOK OBVIOUS
<1>1. BreakersOK BY ParameterAssumption DEF Init, BreakersOK
<1>2. \A k \in Complexity :
        Finished("idle", k) \in CallRecord /\ InRange(Finished("idle", k))
  BY FinishedOK DEF Outcome
<1>3. call \in [Caller -> CallRecord] /\ \A c \in Caller : InRange(call[c])
  BY <1>2 DEF Init
<1>. QED BY <1>1, <1>3, TypeParts

LEMMA TypeNext == TypeOK /\ [Next]_vars => TypeOK'
<1>. SUFFICES ASSUME TypeOK, [Next]_vars PROVE TypeOK' OBVIOUS
<1>1. BreakersOK /\ call \in [Caller -> CallRecord] /\ \A c \in Caller : InRange(call[c])
  BY TypeParts
<1>2. ASSUME BreakersOK',
             call' \in [Caller -> CallRecord], \A c \in Caller : InRange(call'[c])
      PROVE  TypeOK'
  BY <1>2 DEF TypeOK, BreakersOK, CallRecord, InRange, Working
<1>3. CASE Tick
  <2>1. BreakersOK' BY <1>1, <1>3, ParameterAssumption DEF Tick, BreakersOK
  <2>2. ASSUME NEW c \in Caller
        PROVE  Elapse(call[c]) \in CallRecord /\ InRange(Elapse(call[c]))
    BY <1>1, <1>3, ElapseOK DEF Tick
  <2>. QED BY <1>2, <1>3, <2>1, <2>2 DEF Tick
<1>4. ASSUME NEW c \in Caller, NEW k \in Complexity, Complete(c, k) PROVE TypeOK'
  BY <1>1, <1>4, TryFromTyped DEF Complete, BreakersOK
<1>5. ASSUME NEW c \in Caller, Working(c)
      PROVE  /\ call[c] \in CallRecord
             /\ call[c].task \in Complexity
             /\ call[c].pos \in 1..Len(Chain[call[c].task])
             /\ Len(Chain[call[c].task]) \in Nat
             /\ CurrentModel(c) \in Model
             /\ call[c].attempt \in 0..MaxRetries
  BY <1>1, <1>5, ChainAssumption DEF Working, CallRecord, InRange, CurrentModel
<1>6. ASSUME NEW c \in Caller, Answer(c) PROVE TypeOK'
  <2>1. Working(c) BY <1>6 DEF Answer, Working
  <2>2. BreakersOK' BY <1>1, <1>5, <1>6, <2>1 DEF Answer, BreakersOK
  <2>3. /\ Finished("ok", call[c].task) \in CallRecord
        /\ InRange(Finished("ok", call[c].task))
    BY <1>5, <2>1, FinishedOK DEF Outcome
  <2>. QED BY <1>1, <1>2, <1>6, <2>2, <2>3, ReplaceCall DEF Answer
<1>7. ASSUME NEW c \in Caller, Fail(c) PROVE TypeOK'
  <2>. DEFINE m == CurrentModel(c)
              f == [failures EXCEPT ![m] = @ + 1]
              o == [opened_at EXCEPT ![m] = IF Trips(f[m]) THEN 0 ELSE @]
  <2>1. Working(c) BY <1>7 DEF Fail, Working
  <2>2. f \in [Model -> Nat] BY <1>1, <1>5, <2>1 DEF BreakersOK
  <2>3. o \in [Model -> 0..RecoverySeconds \cup {None}]
    BY <1>1, <1>5, <2>1, ParameterAssumption DEF BreakersOK
  <2>4. CASE /\ Retries(call[c].attempt)
             /\ failures' = f
             /\ opened_at' = o
             /\ call' = [call EXCEPT ![c].pc = "backoff",
                                     ![c].timer = Backoff(call[c].attempt)]
    <3>. DEFINE r == [call[c] EXCEPT !.pc = "backoff",
                                     !.timer = Backoff(call[c].attempt)]
    <3>1. call' = [call EXCEPT ![c] = r] BY <1>1, <2>4
    <3>. call[c].attempt \in Nat BY <1>5, <2>1, ParameterAssumption
    <3>2. Backoff(call[c].attempt) \in Nat /\ Backoff(call[c].attempt) <= 8
      BY ONLY BackoffRange, call[c].attempt \in Nat
    <3>3. r \in CallRecord /\ InRange(r)
      BY <1>5, <2>1, <2>4, <3>2, ParameterAssumption
      DEF CallRecord, InRange, Retries
    <3>4. BreakersOK' BY <2>2, <2>3, <2>4 DEF BreakersOK
    <3>5. call' \in [Caller -> CallRecord] /\ \A d \in Caller : InRange(call'[d])
      BY <1>1, <3>1, <3>3, ReplaceCall
    <3>. QED BY <1>2, <3>4, <3>5
  <2>5. CASE TryFrom(c, call[c].task, call[c].pos + 1, f, o)
    <3>1. call[c].pos + 1 \in Nat \ {0} BY <1>5, <2>1
    <3>. HIDE DEF f, o
    <3>. QED BY <1>1, <1>5, <2>1, <2>2, <2>3, <2>5, <3>1, TryFromTyped
  <2>. QED BY <1>7, <2>4, <2>5 DEF Fail
<1>8. ASSUME NEW c \in Caller, Wake(c) PROVE TypeOK'
  <2>. DEFINE r == Calling(call[c].task, call[c].pos, NextAttempt(call[c].attempt))
  <2>1. Working(c) BY <1>8 DEF Wake, Working
  <2>2. NextAttempt(call[c].attempt) \in 0..MaxRetries
    BY <1>1, <1>5, <1>8, <2>1, ParameterAssumption DEF Wake, InRange, NextAttempt
  <2>3. r \in CallRecord /\ InRange(r) BY <1>5, <2>1, <2>2, CallingOK
  <2>4. BreakersOK' BY <1>1, <1>8 DEF Wake, BreakersOK
  <2>. QED BY <1>1, <1>2, <1>8, <2>3, <2>4, ReplaceCall DEF Wake
<1>9. ASSUME NEW c \in Caller, Cancel(c) PROVE TypeOK'
  <2>1. BreakersOK' BY <1>1, <1>9 DEF Cancel, BreakersOK
  <2>2. /\ Finished("cancelled", call[c].task) \in CallRecord
        /\ InRange(Finished("cancelled", call[c].task))
    BY <1>5, <1>9, FinishedOK DEF Cancel, Outcome
  <2>. QED BY <1>1, <1>2, <1>9, <2>1, <2>2, ReplaceCall DEF Cancel
<1>10. CASE UNCHANGED vars
  BY <1>1, <1>2, <1>10 DEF vars, BreakersOK
<1>. QED BY <1>3, <1>4, <1>6, <1>7, <1>8, <1>9, <1>10 DEF Next

\* Attempts never exceed the retries, timers their deadlines, ages the window.
THEOREM TypeCorrect == Spec => []TypeOK
BY TypeInit, TypeNext, PTL DEF Spec

--------------------------------------------------------------------------------
\* The breaker's two fields, for any pair of functions: what the walk over the
\* chain starts from may be one failure ahead of the variables.
Agree(f, o) == \A m \in Model : o[m] # None <=> f[m] >= FailureThreshold

LEMMA TryFromAgrees ==
  ASSUME NEW c \in Caller, NEW k \in Complexity, NEW i \in Nat \ {0},
         NEW f \in [Model -> Nat],
         NEW o \in [Model -> 0..RecoverySeconds \cup {None}],
         Agree(f, o),
         TryFrom(c, k, i, f, o)
  PROVE  Agree(failures, opened_at)'
<1>1. CASE failures' = f /\ opened_at' = o BY <1>1 DEF Agree
<1>2. ASSUME NEW j \in Admissible(k, i, o),
             failures' = [f EXCEPT ![Chain[k][j]] =
                            IF o[Chain[k][j]] = None THEN @ ELSE 0],
             opened_at' = [o EXCEPT ![Chain[k][j]] = None]
      PROVE  Agree(failures, opened_at)'
  <2>1. Chain[k][j] \in Model BY ChainAssumption DEF Admissible
  <2>. QED BY <1>2, <2>1, ParameterAssumption DEF Agree
<1>. QED BY <1>1, <1>2 DEF TryFrom

\* What _record_failure writes agrees, and is typed.
LEMMA RecordFailure ==
  ASSUME TypeOK, NEW c \in Caller, Working(c)
  PROVE  LET m == CurrentModel(c)
             f == [failures EXCEPT ![m] = @ + 1]
             o == [opened_at EXCEPT ![m] = IF Trips(f[m]) THEN 0 ELSE @]
         IN  /\ m \in Model
             /\ f \in [Model -> Nat]
             /\ o \in [Model -> 0..RecoverySeconds \cup {None}]
             /\ call[c].task \in Complexity
             /\ call[c].pos + 1 \in Nat \ {0}
             /\ Agree(failures, opened_at) => Agree(f, o)
<1>1. /\ call[c].task \in Complexity
      /\ call[c].pos \in 1..Len(Chain[call[c].task])
      /\ failures \in [Model -> Nat]
      /\ opened_at \in [Model -> 0..RecoverySeconds \cup {None}]
  BY DEF TypeOK
<1>2. CurrentModel(c) \in Model BY <1>1, ChainAssumption DEF CurrentModel
<1>. QED BY <1>1, <1>2, ParameterAssumption DEF Agree, Trips

LEMMA AgreeNext ==
  TypeOK /\ Agree(failures, opened_at) /\ [Next]_vars
    => Agree(failures, opened_at)'
<1>. SUFFICES ASSUME TypeOK, Agree(failures, opened_at), [Next]_vars
              PROVE  Agree(failures, opened_at)'
  OBVIOUS
<1>1. /\ failures \in [Model -> Nat]
      /\ opened_at \in [Model -> 0..RecoverySeconds \cup {None}]
  BY DEF TypeOK
<1>2. CASE Tick
  BY <1>1, <1>2, ParameterAssumption DEF Tick, Agree
<1>3. ASSUME NEW c \in Caller, NEW k \in Complexity, Complete(c, k)
      PROVE  Agree(failures, opened_at)'
  BY <1>1, <1>3, TryFromAgrees DEF Complete
<1>4. ASSUME NEW c \in Caller, Answer(c) PROVE Agree(failures, opened_at)'
  BY <1>1, <1>4, ParameterAssumption DEF Answer, Agree
<1>5. ASSUME NEW c \in Caller, Fail(c) PROVE Agree(failures, opened_at)'
  <2>. DEFINE m == CurrentModel(c)
              f == [failures EXCEPT ![m] = @ + 1]
              o == [opened_at EXCEPT ![m] = IF Trips(f[m]) THEN 0 ELSE @]
  <2>1. Working(c) BY <1>5 DEF Fail, Working
  <2>2. /\ f \in [Model -> Nat]
        /\ o \in [Model -> 0..RecoverySeconds \cup {None}]
        /\ call[c].task \in Complexity
        /\ call[c].pos + 1 \in Nat \ {0}
        /\ Agree(f, o)
    BY <2>1, RecordFailure
  <2>3. \/ failures' = f /\ opened_at' = o
        \/ TryFrom(c, call[c].task, call[c].pos + 1, f, o)
    BY <1>5 DEF Fail
  <2>. HIDE DEF f, o
  <2>4. CASE failures' = f /\ opened_at' = o BY <2>2, <2>4 DEF Agree
  <2>5. CASE TryFrom(c, call[c].task, call[c].pos + 1, f, o)
    BY <2>2, <2>5, TryFromAgrees
  <2>. QED BY <2>3, <2>4, <2>5
<1>6. ASSUME NEW c \in Caller, Wake(c) \/ Cancel(c)
      PROVE  Agree(failures, opened_at)'
  BY <1>6 DEF Wake, Cancel, Agree
<1>7. CASE UNCHANGED vars BY <1>7 DEF vars, Agree
<1>. QED BY <1>2, <1>3, <1>4, <1>5, <1>6, <1>7 DEF Next

\* The two fields of a breaker agree at every await of every coroutine.
THEOREM BreakersAgree == Spec => []BreakerConsistent
<1>1. Init => Agree(failures, opened_at)
  BY ParameterAssumption DEF Init, Agree
<1>2. Agree(failures, opened_at) => BreakerConsistent
  BY DEF Agree, BreakerConsistent
<1>. QED BY <1>1, <1>2, TypeCorrect, AgreeNext, PTL DEF Spec

--------------------------------------------------------------------------------
(***************************************************************************)
(* The fallback.  ReliableChainNeverFails is not inductive: that a         *)
(* coroutine does not reach the end of a chain with a reliable model rests *)
(* on that model's breaker, which no coroutine may have touched, and on    *)
(* the positions a coroutine has left behind.                              *)
(***************************************************************************)
Untouched(f) == \A m \in Reliable : f[m] = 0

PassedUnreliable(r) ==
  /\ r.pc \in {"calling", "backoff"} =>
       \A j \in 1..(r.pos - 1) : Chain[r.task][j] \notin Reliable
  /\ r.pc = "error" =>
       \A j \in 1..Len(Chain[r.task]) : Chain[r.task][j] \notin Reliable

FallbackInv ==
  /\ Agree(failures, opened_at)
  /\ Untouched(failures)
  /\ \A c \in Caller : PassedUnreliable(call[c])

\* A walk that starts behind unreliable models stops at one before which there
\* are only unreliable models, for a reliable one is never skipped.
LEMMA TryFromFallback ==
  ASSUME call \in [Caller -> CallRecord],
         \A d \in Caller : PassedUnreliable(call[d]),
         NEW c \in Caller, NEW k \in Complexity, NEW i \in Nat \ {0},
         NEW f \in [Model -> Nat],
         NEW o \in [Model -> 0..RecoverySeconds \cup {None}],
         Agree(f, o), Untouched(f),
         i <= Len(Chain[k]) + 1,
         \A j \in 1..(i - 1) : Chain[k][j] \notin Reliable,
         TryFrom(c, k, i, f, o)
  PROVE  FallbackInv'
<1>1. Len(Chain[k]) \in Nat /\ \A j \in 1..Len(Chain[k]) : Chain[k][j] \in Model
  BY ChainAssumption
<1>2. ASSUME NEW j \in i..Len(Chain[k]), Chain[k][j] \in Reliable
      PROVE  j \in Admissible(k, i, o)
  <2>1. o[Chain[k][j]] = None
    BY <1>1, <1>2, ParameterAssumption DEF Agree, Untouched
  <2>. QED BY <2>1 DEF Admissible, IsOpen
<1>3. Agree(failures, opened_at)' BY TryFromAgrees
<1>4. CASE /\ Admissible(k, i, o) = {}
           /\ failures' = f
           /\ call' = [call EXCEPT ![c] = Finished("error", k)]
  <2>1. \A j \in 1..Len(Chain[k]) : Chain[k][j] \notin Reliable
    BY <1>1, <1>2, <1>4
  <2>2. PassedUnreliable(Finished("error", k))
    BY <2>1 DEF PassedUnreliable, Finished
  <2>. QED BY <1>3, <1>4, <2>2 DEF FallbackInv, Untouched, PassedUnreliable
<1>5. ASSUME NEW j \in Admissible(k, i, o),
             \A other \in Admissible(k, i, o) : j <= other,
             failures' = [f EXCEPT ![Chain[k][j]] =
                            IF o[Chain[k][j]] = None THEN @ ELSE 0],
             call' = [call EXCEPT ![c] = Calling(k, j, 0)]
      PROVE  FallbackInv'
  <2>1. j \in i..Len(Chain[k]) BY DEF Admissible
  <2>2. \A n \in 1..(j - 1) : Chain[k][n] \notin Reliable
    BY <1>1, <1>2, <1>5, <2>1
  <2>3. PassedUnreliable(Calling(k, j, 0))
    BY <2>2 DEF PassedUnreliable, Calling
  <2>4. Untouched(failures)'
    BY <1>5, ParameterAssumption DEF Untouched
  <2>. QED BY <1>3, <1>5, <2>3, <2>4 DEF FallbackInv, PassedUnreliable
<1>. QED BY <1>4, <1>5 DEF TryFrom

LEMMA FallbackInit == Init => FallbackInv
<1>1. \A k \in Complexity : PassedUnreliable(Finished("idle", k))
  BY DEF PassedUnreliable, Finished
<1>. QED BY <1>1, ParameterAssumption
  DEF Init, FallbackInv, Agree, Untouched, PassedUnreliable

LEMMA FallbackNext == TypeOK /\ FallbackInv /\ [Next]_vars => FallbackInv'
<1>. SUFFICES ASSUME TypeOK, FallbackInv, [Next]_vars PROVE FallbackInv'
  OBVIOUS
<1>1. /\ failures \in [Model -> Nat]
      /\ opened_at \in [Model -> 0..RecoverySeconds \cup {None}]
      /\ call \in [Caller -> CallRecord]
      /\ \A c \in Caller : InRange(call[c])
  BY TypeParts DEF BreakersOK
<1>2. Agree(failures, opened_at)' BY AgreeNext DEF FallbackInv
<1>3. ASSUME NEW c \in Caller, NEW r \in CallRecord, PassedUnreliable(r),
             call' = [call EXCEPT ![c] = r]
      PROVE  \A d \in Caller : PassedUnreliable(call'[d])
  BY <1>1, <1>3 DEF FallbackInv, PassedUnreliable
<1>4. CASE Tick
  <2>1. ASSUME NEW c \in Caller PROVE PassedUnreliable(Elapse(call[c]))
    <3>1. call[c] \in CallRecord /\ PassedUnreliable(call[c])
      BY <1>1 DEF FallbackInv
    <3>2. /\ Elapse(call[c]).pc = call[c].pc
          /\ Elapse(call[c]).pos = call[c].pos
          /\ Elapse(call[c]).task = call[c].task
      BY <3>1 DEF Elapse, CallRecord
    <3>. QED BY <3>1, <3>2 DEF PassedUnreliable
  <2>. QED BY <1>2, <1>4, <2>1 DEF Tick, FallbackInv, Untouched
<1>5. ASSUME NEW c \in Caller, NEW k \in Complexity, Complete(c, k)
      PROVE  FallbackInv'
  <2>1. Len(Chain[k]) \in Nat BY ChainAssumption
  <2>. QED BY <1>1, <1>5, <2>1, TryFromFallback DEF Complete, FallbackInv
<1>6. ASSUME NEW c \in Caller, Answer(c) PROVE FallbackInv'
  <2>1. Untouched(failures)'
    BY <1>1, <1>6, ParameterAssumption DEF Answer, FallbackInv, Untouched
  <2>2. PassedUnreliable(Finished("ok", call[c].task))
    BY DEF PassedUnreliable, Finished
  <2>3. Finished("ok", call[c].task) \in CallRecord
    BY <1>1, FinishedOK DEF CallRecord, Outcome
  <2>. QED BY <1>2, <1>3, <1>6, <2>1, <2>2, <2>3 DEF Answer, FallbackInv
<1>7. ASSUME NEW c \in Caller, Fail(c) PROVE FallbackInv'
  <2>. DEFINE k == call[c].task
              i == call[c].pos + 1
              m == CurrentModel(c)
              f == [failures EXCEPT ![m] = @ + 1]
              o == [opened_at EXCEPT ![m] = IF Trips(f[m]) THEN 0 ELSE @]
  <2>1. Working(c) /\ m \notin Reliable BY <1>7 DEF Fail, Working
  <2>2. /\ m \in Model
        /\ f \in [Model -> Nat]
        /\ o \in [Model -> 0..RecoverySeconds \cup {None}]
        /\ k \in Complexity
        /\ i \in Nat \ {0}
        /\ Agree(f, o)
    BY <2>1, RecordFailure DEF FallbackInv
  <2>3. Untouched(f)
    BY <1>1, <2>1, <2>2, ParameterAssumption DEF FallbackInv, Untouched
  <2>4. call[c].pos \in 1..Len(Chain[k]) /\ Len(Chain[k]) \in Nat
    BY <1>1, <2>1, <2>2, ChainAssumption DEF InRange, Working
  <2>5. \A j \in 1..(i - 1) : Chain[k][j] \notin Reliable
    BY <2>1, <2>4 DEF FallbackInv, PassedUnreliable, Working, CurrentModel
  <2>6. CASE /\ failures' = f
             /\ call' = [call EXCEPT ![c].pc = "backoff",
                                     ![c].timer = Backoff(call[c].attempt)]
    <3>. DEFINE r == [call[c] EXCEPT !.pc = "backoff",
                                     !.timer = Backoff(call[c].attempt)]
    <3>1. call' = [call EXCEPT ![c] = r] BY <1>1, <2>6
    <3>2. /\ r.pc = "backoff"
          /\ r.pos = call[c].pos
          /\ r.task = call[c].task
      BY <1>1 DEF CallRecord
    <3>3. PassedUnreliable(r)
      BY <2>1, <3>2 DEF FallbackInv, PassedUnreliable, Working
    <3>4. \A d \in Caller : PassedUnreliable(call'[d])
      <4>. HIDE DEF r
      <4>. QED BY <1>1, <3>1, <3>3 DEF FallbackInv, PassedUnreliable
    <3>. QED BY <1>2, <2>3, <2>6, <3>4 DEF FallbackInv
  <2>7. CASE TryFrom(c, k, i, f, o)
    <3>1. i <= Len(Chain[k]) + 1 BY <2>4
    <3>2. \A d \in Caller : PassedUnreliable(call[d]) BY DEF FallbackInv
    <3>. HIDE DEF f, o, i, k, m
    <3>. QED BY <1>1, <2>2, <2>3, <2>5, <2>7, <3>1, <3>2, TryFromFallback
  <2>. QED BY <1>7, <2>6, <2>7 DEF Fail
<1>8. ASSUME NEW c \in Caller, Wake(c) PROVE FallbackInv'
  <2>. DEFINE r == Calling(call[c].task, call[c].pos, NextAttempt(call[c].attempt))
  <2>1. PassedUnreliable(r)
    BY <1>8 DEF Wake, Calling, FallbackInv, PassedUnreliable
  <2>2. \A d \in Caller : PassedUnreliable(call'[d])
    <3>. HIDE DEF r
    <3>1. call' = [call EXCEPT ![c] = r] BY <1>8 DEF Wake, r
    <3>. QED BY <1>1, <2>1, <3>1 DEF FallbackInv, PassedUnreliable
  <2>. QED BY <1>2, <1>8, <2>2 DEF Wake, FallbackInv, Untouched
<1>9. ASSUME NEW c \in Caller, Cancel(c) PROVE FallbackInv'
  <2>1. PassedUnreliable(Finished("cancelled", call[c].task))
    BY DEF PassedUnreliable, Finished
  <2>2. Finished("cancelled", call[c].task) \in CallRecord
    BY <1>1, FinishedOK DEF CallRecord, Outcome
  <2>. QED BY <1>2, <1>3, <1>9, <2>1, <2>2 DEF Cancel, FallbackInv, Untouched
<1>10. CASE UNCHANGED vars
  BY <1>2, <1>10 DEF vars, FallbackInv, Untouched, PassedUnreliable
<1>. QED BY <1>4, <1>5, <1>6, <1>7, <1>8, <1>9, <1>10 DEF Next

\* One model that answers is enough: no CircuitOpenError on its chains.
THEOREM FallbackWorks == Spec => []ReliableChainNeverFails
<1>1. FallbackInv => ReliableChainNeverFails
  BY DEF FallbackInv, PassedUnreliable, ReliableChainNeverFails
<1>. QED BY <1>1, TypeCorrect, FallbackInit, FallbackNext, PTL DEF Spec

--------------------------------------------------------------------------------
(***************************************************************************)
(* What an open breaker means to the coroutines: only TryFrom brings one   *)
(* to a model, and only past _is_open.  The breakers it looks at may be    *)
(* one failure ahead of the variables, but only in the model its coroutine *)
(* is leaving.                                                             *)
(***************************************************************************)
\* The models of a chain from position i on.
Ahead(k, i) == {Chain[k][j] : j \in i..Len(Chain[k])}

\* TryFrom moves only its coroutine, past _is_open, and resets only what it passes.
LEMMA TryFromVisits ==
  ASSUME call \in [Caller -> CallRecord],
         NEW c \in Caller, NEW k \in Complexity, NEW i \in Nat \ {0},
         NEW f \in [Model -> Nat],
         NEW o \in [Model -> 0..RecoverySeconds \cup {None}],
         TryFrom(c, k, i, f, o)
  PROVE  /\ \A d \in Caller : d # c => call'[d] = call[d]
         /\ Working(c)' => CurrentModel(c)' \in Model /\ ~IsOpen(o[CurrentModel(c)'])
         /\ \A m \in Model : failures'[m] # f[m] =>
              /\ o[m] # None /\ ~IsOpen(o[m])
              /\ m \in Ahead(k, i)
<1>1. CASE failures' = f /\ call' = [call EXCEPT ![c] = Finished("error", k)]
  BY <1>1 DEF Finished, Working
<1>2. ASSUME NEW j \in Admissible(k, i, o),
             failures' = [f EXCEPT ![Chain[k][j]] =
                            IF o[Chain[k][j]] = None THEN @ ELSE 0],
             call' = [call EXCEPT ![c] = Calling(k, j, 0)]
      PROVE  /\ \A d \in Caller : d # c => call'[d] = call[d]
             /\ CurrentModel(c)' \in Model /\ ~IsOpen(o[CurrentModel(c)'])
             /\ \A m \in Model : failures'[m] # f[m] =>
                  /\ o[m] # None /\ ~IsOpen(o[m])
                  /\ m \in Ahead(k, i)
  <2>1. /\ j \in i..Len(Chain[k]) /\ ~IsOpen(o[Chain[k][j]])
        /\ Chain[k][j] \in Model
    BY ChainAssumption DEF Admissible
  <2>2. CurrentModel(c)' = Chain[k][j] BY <1>2 DEF CurrentModel, Calling
  <2>3. \A m \in Model : failures'[m] # f[m] => m = Chain[k][j] /\ o[m] # None
    BY <1>2, <2>1
  <2>4. Chain[k][j] \in Ahead(k, i) BY <2>1 DEF Ahead
  <2>. QED BY <1>2, <2>1, <2>2, <2>3, <2>4
<1>. QED BY <1>1, <1>2 DEF TryFrom

\* A step that leaves the others where they are and takes c to no new model.
LEMMA NoNewVisitor ==
  ASSUME NEW c \in Caller, NEW m \in Model,
         \A d \in Caller : d # c => call'[d] = call[d],
         Working(c)' /\ CurrentModel(c)' = m => Working(c) /\ CurrentModel(c) = m
  PROVE  Visitors(m)' \subseteq Visitors(m)
BY DEF Visitors, Working, CurrentModel

LEMMA OpenKeepsAway ==
  ASSUME TypeOK, [Next]_vars, NEW m \in Model,
         opened_at[m] # None, opened_at[m] < RecoverySeconds
  PROVE  Visitors(m)' \subseteq Visitors(m)
<1>1. /\ failures \in [Model -> Nat]
      /\ opened_at \in [Model -> 0..RecoverySeconds \cup {None}]
      /\ call \in [Caller -> CallRecord]
  BY TypeParts DEF BreakersOK
<1>2. IsOpen(opened_at[m]) BY DEF IsOpen
<1>3. CASE Tick
  <2>1. ASSUME NEW c \in Caller
        PROVE  /\ call'[c].pc = call[c].pc
               /\ call'[c].task = call[c].task
               /\ call'[c].pos = call[c].pos
    BY <1>1, <1>3 DEF Tick, Elapse, CallRecord
  <2>. QED BY <2>1 DEF Visitors, Working, CurrentModel
<1>4. ASSUME NEW c \in Caller, NEW k \in Complexity, Complete(c, k)
      PROVE  Visitors(m)' \subseteq Visitors(m)
  BY <1>1, <1>2, <1>4, TryFromVisits, NoNewVisitor DEF Complete
<1>5. ASSUME NEW c \in Caller, Fail(c) PROVE Visitors(m)' \subseteq Visitors(m)
  <2>. DEFINE n == CurrentModel(c)
              f == [failures EXCEPT ![n] = @ + 1]
              o == [opened_at EXCEPT ![n] = IF Trips(f[n]) THEN 0 ELSE @]
  <2>1. Working(c) BY <1>5 DEF Fail, Working
  <2>2. /\ n \in Model
        /\ f \in [Model -> Nat]
        /\ o \in [Model -> 0..RecoverySeconds \cup {None}]
        /\ call[c].task \in Complexity
        /\ call[c].pos + 1 \in Nat \ {0}
    BY <2>1, RecordFailure
  <2>3. m # n => o[m] = opened_at[m] BY <1>1
  <2>4. CASE call' = [call EXCEPT ![c].pc = "backoff",
                                  ![c].timer = Backoff(call[c].attempt)]
    <3>1. /\ call'[c].task = call[c].task
          /\ call'[c].pos = call[c].pos
          /\ \A d \in Caller : d # c => call'[d] = call[d]
      BY <1>1, <2>4 DEF CallRecord
    <3>. QED BY <2>1, <3>1, NoNewVisitor DEF CurrentModel
  <2>5. CASE TryFrom(c, call[c].task, call[c].pos + 1, f, o)
    <3>. HIDE DEF f, o
    <3>1. /\ \A d \in Caller : d # c => call'[d] = call[d]
          /\ Working(c)' => ~IsOpen(o[CurrentModel(c)'])
      BY <1>1, <2>2, <2>5, TryFromVisits
    <3>. QED BY <1>2, <2>1, <2>3, <3>1, NoNewVisitor
  <2>. QED BY <1>5, <2>4, <2>5 DEF Fail
<1>6. ASSUME NEW c \in Caller, Answer(c) \/ Cancel(c)
      PROVE  Visitors(m)' \subseteq Visitors(m)
  <2>1. /\ \A d \in Caller : d # c => call'[d] = call[d]
        /\ ~Working(c)'
    BY <1>1, <1>6 DEF Answer, Cancel, Finished, Working
  <2>. QED BY <2>1, NoNewVisitor
<1>7. ASSUME NEW c \in Caller, Wake(c) PROVE Visitors(m)' \subseteq Visitors(m)
  <2>1. /\ call'[c].task = call[c].task
        /\ call'[c].pos = call[c].pos
        /\ \A d \in Caller : d # c => call'[d] = call[d]
        /\ Working(c)
    BY <1>1, <1>7 DEF Wake, Calling, Working
  <2>. QED BY <2>1, NoNewVisitor DEF CurrentModel
<1>8. CASE UNCHANGED vars BY <1>8 DEF vars, Visitors, Working, CurrentModel
<1>. QED BY <1>3, <1>4, <1>5, <1>6, <1>7, <1>8 DEF Next

\* While a window runs, coroutines only leave its model.
THEOREM NobodyVisitsOpen == Spec => OpenModelGetsNoVisitor
<1>1. TypeOK /\ [Next]_vars =>
        [\A m \in Model :
           opened_at[m] # None /\ opened_at[m] < RecoverySeconds
             => Visitors(m)' \subseteq Visitors(m)]_vars
  BY OpenKeepsAway
<1>. QED BY <1>1, TypeCorrect, PTL DEF Spec, OpenModelGetsNoVisitor

\* Whoever forgets failures has seen the whole window pass or an answer.  A
\* coroutine that records a failure does not come back to the same model, since
\* the models of a chain are distinct: what it adds is not taken away again.
LEMMA ForgetsForReason ==
  ASSUME TypeOK, [Next]_vars, NEW m \in Model, failures'[m] < failures[m]
  PROVE  \/ opened_at[m] = RecoverySeconds
         \/ \E c \in Visitors(m) : call[c].pc = "calling" /\ call'[c].pc = "ok"
<1>1. /\ failures \in [Model -> Nat]
      /\ opened_at \in [Model -> 0..RecoverySeconds \cup {None}]
      /\ call \in [Caller -> CallRecord]
  BY TypeParts DEF BreakersOK
<1>2. failures'[m] # failures[m] BY <1>1
<1>3. ASSUME opened_at[m] # None, ~IsOpen(opened_at[m])
      PROVE  opened_at[m] = RecoverySeconds
  BY <1>1, <1>3, ParameterAssumption DEF IsOpen
<1>4. ASSUME NEW c \in Caller, NEW k \in Complexity, Complete(c, k)
      PROVE  opened_at[m] = RecoverySeconds
  BY <1>1, <1>2, <1>3, <1>4, TryFromVisits DEF Complete
<1>5. ASSUME NEW c \in Caller, Answer(c)
      PROVE  \E d \in Visitors(m) : call[d].pc = "calling" /\ call'[d].pc = "ok"
  <2>1. m = CurrentModel(c) BY <1>1, <1>2, <1>5 DEF Answer
  <2>2. call'[c].pc = "ok" BY <1>1, <1>5 DEF Answer, Finished
  <2>. QED BY <1>5, <2>1, <2>2 DEF Answer, Visitors, Working
<1>6. ASSUME NEW c \in Caller, Fail(c) PROVE opened_at[m] = RecoverySeconds
  <2>. DEFINE n == CurrentModel(c)
              k == call[c].task
              i == call[c].pos + 1
              f == [failures EXCEPT ![n] = @ + 1]
              o == [opened_at EXCEPT ![n] = IF Trips(f[n]) THEN 0 ELSE @]
  <2>1. Working(c) BY <1>6 DEF Fail, Working
  <2>2. /\ n \in Model
        /\ f \in [Model -> Nat]
        /\ o \in [Model -> 0..RecoverySeconds \cup {None}]
        /\ k \in Complexity
        /\ i \in Nat \ {0}
    BY <2>1, RecordFailure
  <2>3. f[m] >= failures[m] /\ f[m] \in Nat BY <1>1, <2>2
  <2>4. failures'[m] # f[m] BY <1>1, <2>3
  <2>5. TryFrom(c, k, i, f, o) BY <1>6, <2>4 DEF Fail
  <2>6. /\ o[m] # None /\ ~IsOpen(o[m])
        /\ m \in Ahead(k, i)
    <3>. HIDE DEF f, o, i, k
    <3>1. \A x \in Model : failures'[x] # f[x] =>
            /\ o[x] # None /\ ~IsOpen(o[x])
            /\ x \in Ahead(k, i)
      BY <1>1, <2>2, <2>5, TryFromVisits
    <3>. QED BY <2>4, <3>1
  <2>7. call[c].pos \in 1..Len(Chain[k]) /\ Len(Chain[k]) \in Nat
    BY <2>1, <2>2, ChainAssumption DEF TypeOK
  <2>8. m # n
    <3>1. PICK j \in i..Len(Chain[k]) : m = Chain[k][j] BY <2>6 DEF Ahead
    <3>2. j \in 1..Len(Chain[k]) /\ j # call[c].pos BY <2>7, <3>1
    <3>. QED BY <2>2, <2>7, <3>1, <3>2, ChainAssumption DEF CurrentModel
  <2>9. o[m] = opened_at[m] BY <1>1, <2>8
  <2>. QED BY <1>3, <2>6, <2>9
<1>7. CASE \/ Tick
           \/ \E c \in Caller : Wake(c) \/ Cancel(c)
           \/ UNCHANGED vars
  BY <1>2, <1>7 DEF Tick, Wake, Cancel, vars
<1>. QED BY <1>4, <1>5, <1>6, <1>7 DEF Next

\* No failure is forgotten before the window is over or the model has answered.
THEOREM ForgetsForAReason == Spec => ForgetsOnlyOnProof
<1>1. TypeOK /\ [Next]_vars =>
        [\A m \in Model :
           failures'[m] < failures[m] =>
             \/ opened_at[m] = RecoverySeconds
             \/ \E c \in Visitors(m) :
                  call[c].pc = "calling" /\ call'[c].pc = "ok"]_vars
  BY ForgetsForReason
<1>. QED BY <1>1, TypeCorrect, PTL DEF Spec, ForgetsOnlyOnProof

--------------------------------------------------------------------------------
(***************************************************************************)
(* How far a breaker can overshoot.  An attempt is a pair of a coroutine   *)
(* and a number; those that the coroutines on a model still have pay for   *)
(* the failures that an open breaker is yet to count.                      *)
(***************************************************************************)
Attempt == Caller \X (0..MaxRetries)

Remaining(m) ==
  {p \in Attempt :
     /\ Working(p[1]) /\ CurrentModel(p[1]) = m
     /\ \/ call[p[1]].pc = "calling" /\ p[2] >= call[p[1]].attempt
        \/ call[p[1]].pc = "backoff" /\ p[2] > call[p[1]].attempt}

AttemptsPay ==
  \A m \in Model : opened_at[m] # None =>
    failures[m] + Cardinality(Remaining(m)) <= FailureThreshold - 1 + Cardinality(Attempt)

LEMMA AttemptCount ==
  /\ IsFiniteSet(Attempt)
  /\ Cardinality(Attempt) = Cardinality(Caller) * (MaxRetries + 1)
  /\ Cardinality(Attempt) \in Nat
<1>1. IsFiniteSet(0..MaxRetries) /\ Cardinality(0..MaxRetries) = MaxRetries + 1
  BY FS_Interval, ParameterAssumption
<1>2. /\ IsFiniteSet(Attempt)
      /\ Cardinality(Attempt) = Cardinality(Caller) * Cardinality(0..MaxRetries)
  BY <1>1, FS_Product, CallerAssumption DEF Attempt
<1>. QED BY <1>1, <1>2, FS_CardinalityType

LEMMA SubsetCount ==
  ASSUME NEW R \in SUBSET Attempt, NEW S \in SUBSET R
  PROVE  /\ IsFiniteSet(R)
         /\ Cardinality(R) \in Nat /\ Cardinality(S) \in Nat
         /\ Cardinality(S) <= Cardinality(R)
         /\ \A p \in R \ S : Cardinality(S) + 1 <= Cardinality(R)
<1>1. IsFiniteSet(R) BY AttemptCount, FS_Subset
<1>2. IsFiniteSet(S) /\ Cardinality(S) <= Cardinality(R) BY <1>1, FS_Subset
<1>3. Cardinality(R) \in Nat /\ Cardinality(S) \in Nat BY <1>1, <1>2, FS_CardinalityType
<1>4. ASSUME NEW p \in R \ S PROVE Cardinality(S) + 1 <= Cardinality(R)
  <2>1. Cardinality(S) # Cardinality(R) BY <1>1, <1>4, FS_Subset
  <2>. QED BY <1>2, <1>3, <2>1
<1>. QED BY <1>1, <1>2, <1>3, <1>4

\* Whatever is open after TryFrom was so before it, and is not where it has gone.
LEMMA TryFromOpen ==
  ASSUME call \in [Caller -> CallRecord],
         NEW c \in Caller, NEW k \in Complexity, NEW i \in Nat \ {0},
         NEW f \in [Model -> Nat],
         NEW o \in [Model -> 0..RecoverySeconds \cup {None}],
         TryFrom(c, k, i, f, o)
  PROVE  /\ \A d \in Caller : d # c => call'[d] = call[d]
         /\ \A m \in Model : opened_at'[m] # None =>
              /\ failures'[m] = f[m] /\ opened_at'[m] = o[m]
              /\ ~(Working(c)' /\ CurrentModel(c)' = m)
<1>1. CASE /\ failures' = f /\ opened_at' = o
           /\ call' = [call EXCEPT ![c] = Finished("error", k)]
  BY <1>1 DEF Finished, Working
<1>2. ASSUME NEW j \in Admissible(k, i, o),
             failures' = [f EXCEPT ![Chain[k][j]] =
                            IF o[Chain[k][j]] = None THEN @ ELSE 0],
             opened_at' = [o EXCEPT ![Chain[k][j]] = None],
             call' = [call EXCEPT ![c] = Calling(k, j, 0)]
      PROVE  /\ \A d \in Caller : d # c => call'[d] = call[d]
             /\ \A m \in Model : opened_at'[m] # None =>
                  /\ failures'[m] = f[m] /\ opened_at'[m] = o[m]
                  /\ CurrentModel(c)' # m
  <2>1. Chain[k][j] \in Model BY ChainAssumption DEF Admissible
  <2>2. CurrentModel(c)' = Chain[k][j] BY <1>2 DEF CurrentModel, Calling
  <2>3. \A m \in Model : opened_at'[m] # None => m # Chain[k][j] BY <1>2, <2>1
  <2>. QED BY <1>2, <2>1, <2>2, <2>3
<1>. QED BY <1>1, <1>2 DEF TryFrom

\* A coroutine that moves has no more attempts on m than before.
LEMMA FewerAttempts ==
  ASSUME NEW c \in Caller, NEW m \in Model,
         \A d \in Caller : d # c => call'[d] = call[d],
         Working(c)' /\ CurrentModel(c)' = m =>
           /\ Working(c) /\ CurrentModel(c) = m
           /\ \A a \in 0..MaxRetries :
                \/ call'[c].pc = "calling" /\ a >= call'[c].attempt
                \/ call'[c].pc = "backoff" /\ a > call'[c].attempt
                => \/ call[c].pc = "calling" /\ a >= call[c].attempt
                   \/ call[c].pc = "backoff" /\ a > call[c].attempt
  PROVE  Remaining(m)' \subseteq Remaining(m)
<1>. SUFFICES ASSUME NEW p \in Remaining(m)' PROVE p \in Remaining(m) OBVIOUS
<1>1. p \in Attempt /\ p[1] \in Caller /\ p[2] \in 0..MaxRetries
  BY DEF Remaining, Attempt
<1>2. CASE p[1] = c BY <1>1, <1>2 DEF Remaining
<1>3. CASE p[1] # c
  <2>1. call'[p[1]] = call[p[1]] BY <1>1, <1>3
  <2>. QED BY <1>1, <2>1 DEF Remaining, Working, CurrentModel
<1>. QED BY <1>2, <1>3

LEMMA StillPaid ==
  ASSUME AttemptsPay, failures \in [Model -> Nat], NEW m \in Model, opened_at[m] # None,
         failures'[m] = failures[m], Remaining(m)' \subseteq Remaining(m)
  PROVE  failures'[m] + Cardinality(Remaining(m)') <= FailureThreshold - 1 + Cardinality(Attempt)
<1>1. Remaining(m) \in SUBSET Attempt BY DEF Remaining
<1>2. /\ Cardinality(Remaining(m)') <= Cardinality(Remaining(m))
      /\ Cardinality(Remaining(m)') \in Nat /\ Cardinality(Remaining(m)) \in Nat
  BY <1>1, SubsetCount
<1>3. failures[m] + Cardinality(Remaining(m)) <= FailureThreshold - 1 + Cardinality(Attempt)
  BY DEF AttemptsPay
<1>4. failures[m] \in Nat /\ Cardinality(Attempt) \in Nat /\ FailureThreshold \in Nat
  BY AttemptCount, ParameterAssumption
<1>. QED BY <1>2, <1>3, <1>4

LEMMA AttemptsPayNext ==
  TypeOK /\ Agree(failures, opened_at) /\ AttemptsPay /\ [Next]_vars => AttemptsPay'
<1>. SUFFICES ASSUME TypeOK, Agree(failures, opened_at), AttemptsPay, [Next]_vars,
                     NEW m \in Model, opened_at'[m] # None
              PROVE  failures'[m] + Cardinality(Remaining(m)')
                       <= FailureThreshold - 1 + Cardinality(Attempt)
  BY DEF AttemptsPay, Attempt
<1>. DEFINE Paid == failures'[m] + Cardinality(Remaining(m)')
                      <= FailureThreshold - 1 + Cardinality(Attempt)
<1>1. /\ failures \in [Model -> Nat]
      /\ opened_at \in [Model -> 0..RecoverySeconds \cup {None}]
      /\ call \in [Caller -> CallRecord]
      /\ \A c \in Caller : InRange(call[c])
  BY TypeParts DEF BreakersOK
<1>2. ASSUME opened_at[m] # None, failures'[m] = failures[m],
             Remaining(m)' \subseteq Remaining(m)
      PROVE  Paid
  BY <1>1, <1>2, StillPaid
<1>. HIDE DEF Paid
<1>3. CASE Tick
  <2>1. opened_at[m] # None /\ failures'[m] = failures[m] BY <1>1, <1>3 DEF Tick
  <2>2. ASSUME NEW c \in Caller
        PROVE  /\ call'[c].pc = call[c].pc
               /\ call'[c].task = call[c].task
               /\ call'[c].pos = call[c].pos
               /\ call'[c].attempt = call[c].attempt
    BY <1>1, <1>3 DEF Tick, Elapse, CallRecord
  <2>3. Remaining(m)' \subseteq Remaining(m)
    BY <2>2 DEF Remaining, Attempt, Working, CurrentModel
  <2>. QED BY <1>2, <2>1, <2>3 DEF Paid
<1>4. ASSUME NEW c \in Caller, NEW k \in Complexity, Complete(c, k) PROVE Paid
  <2>1. /\ failures'[m] = failures[m] /\ opened_at'[m] = opened_at[m]
        /\ \A d \in Caller : d # c => call'[d] = call[d]
        /\ ~(Working(c)' /\ CurrentModel(c)' = m)
    <3>1. TryFrom(c, k, 1, failures, opened_at) BY <1>4 DEF Complete
    <3>2. /\ \A d \in Caller : d # c => call'[d] = call[d]
          /\ \A x \in Model : opened_at'[x] # None =>
               /\ failures'[x] = failures[x] /\ opened_at'[x] = opened_at[x]
               /\ ~(Working(c)' /\ CurrentModel(c)' = x)
      BY <1>1, <3>1, TryFromOpen
    <3>. QED BY <3>2
  <2>2. Remaining(m)' \subseteq Remaining(m) BY <2>1, FewerAttempts
  <2>. QED BY <1>2, <2>1, <2>2
<1>5. ASSUME NEW c \in Caller, Answer(c) \/ Cancel(c) PROVE Paid
  <2>1. opened_at[m] # None /\ failures'[m] = failures[m]
    BY <1>1, <1>5 DEF Answer, Cancel
  <2>2. /\ \A d \in Caller : d # c => call'[d] = call[d]
        /\ ~Working(c)'
    BY <1>1, <1>5 DEF Answer, Cancel, Finished, Working
  <2>3. Remaining(m)' \subseteq Remaining(m) BY <2>2, FewerAttempts
  <2>. QED BY <1>2, <2>1, <2>3
<1>6. ASSUME NEW c \in Caller, Wake(c) PROVE Paid
  <2>1. opened_at[m] # None /\ failures'[m] = failures[m] BY <1>6 DEF Wake
  <2>2. /\ call'[c] = Calling(call[c].task, call[c].pos, NextAttempt(call[c].attempt))
        /\ \A d \in Caller : d # c => call'[d] = call[d]
        /\ call[c].pc = "backoff" /\ call[c].attempt \in Nat
    BY <1>1, <1>6, ParameterAssumption DEF Wake, CallRecord
  <2>3. /\ call'[c].pc = "calling" /\ call'[c].attempt = call[c].attempt + 1
        /\ call'[c].task = call[c].task /\ call'[c].pos = call[c].pos
    BY <2>2 DEF Calling, NextAttempt
  <2>4. Remaining(m)' \subseteq Remaining(m)
    BY <2>2, <2>3, FewerAttempts DEF Working, CurrentModel
  <2>. QED BY <1>2, <2>1, <2>4
<1>7. ASSUME NEW c \in Caller, Fail(c) PROVE Paid
  <2>. DEFINE n == CurrentModel(c)
              k == call[c].task
              i == call[c].pos + 1
              a == call[c].attempt
              f == [failures EXCEPT ![n] = @ + 1]
              o == [opened_at EXCEPT ![n] = IF Trips(f[n]) THEN 0 ELSE @]
  <2>1. Working(c) /\ call[c].pc = "calling" BY <1>7 DEF Fail, Working
  <2>2. /\ n \in Model
        /\ f \in [Model -> Nat]
        /\ o \in [Model -> 0..RecoverySeconds \cup {None}]
        /\ k \in Complexity
        /\ i \in Nat \ {0}
        /\ a \in 0..MaxRetries
    BY <1>1, <2>1, RecordFailure DEF CallRecord
  <2>3. /\ failures'[m] = f[m] /\ opened_at'[m] = o[m]
        /\ \A d \in Caller : d # c => call'[d] = call[d]
        /\ Working(c)' /\ CurrentModel(c)' = m =>
             m = n /\ call'[c].pc = "backoff" /\ call'[c].attempt = a
    <3>1. CASE /\ failures' = f /\ opened_at' = o
               /\ call' = [call EXCEPT ![c].pc = "backoff",
                                       ![c].timer = Backoff(call[c].attempt)]
      <4>1. /\ call'[c].task = call[c].task /\ call'[c].pos = call[c].pos
            /\ call'[c].pc = "backoff" /\ call'[c].attempt = a
        BY <1>1, <3>1 DEF CallRecord
      <4>. QED BY <1>1, <3>1, <4>1 DEF CurrentModel
    <3>2. CASE TryFrom(c, k, i, f, o)
      <4>. HIDE DEF f, o, i, k, a, n
      <4>1. /\ \A d \in Caller : d # c => call'[d] = call[d]
            /\ \A x \in Model : opened_at'[x] # None =>
                 /\ failures'[x] = f[x] /\ opened_at'[x] = o[x]
                 /\ ~(Working(c)' /\ CurrentModel(c)' = x)
        BY <1>1, <2>2, <3>2, TryFromOpen
      <4>. QED BY <4>1
    <3>. QED BY <1>7, <3>1, <3>2 DEF Fail
  <2>4. Remaining(m)' \subseteq Remaining(m)
    <3>1. Working(c)' /\ CurrentModel(c)' = m =>
             /\ Working(c) /\ CurrentModel(c) = m
             /\ call[c].pc = "calling" /\ call'[c].pc = "backoff"
             /\ call'[c].attempt = call[c].attempt
      BY <2>1, <2>3
    <3>. QED BY <2>2, <2>3, <3>1, FewerAttempts
  <2>5. CASE m # n
    <3>1. opened_at[m] # None /\ failures'[m] = failures[m]
      BY <1>1, <2>3, <2>5
    <3>. QED BY <1>2, <2>4, <3>1
  <2>6. CASE m = n
    <3>1. failures'[m] = failures[m] + 1 BY <1>1, <2>3, <2>6
    <3>2. <<c, a>> \in Remaining(m) BY <2>1, <2>2, <2>6 DEF Remaining, Attempt
    <3>3. <<c, a>> \notin Remaining(m)'
      <4>1. a \in Nat BY <2>2, ParameterAssumption
      <4>. QED BY <2>3, <4>1 DEF Remaining
    <3>4. Remaining(m) \in SUBSET Attempt BY DEF Remaining
    <3>5. /\ Cardinality(Remaining(m)') + 1 <= Cardinality(Remaining(m))
          /\ Cardinality(Remaining(m)') \in Nat /\ Cardinality(Remaining(m)) \in Nat
      BY <2>4, <3>2, <3>3, <3>4, SubsetCount
    <3>6. Cardinality(Remaining(m)) <= Cardinality(Attempt) /\ Cardinality(Attempt) \in Nat
      BY <3>4, AttemptCount, SubsetCount
    <3>7. failures[m] \in Nat /\ FailureThreshold \in Nat
      BY <1>1, ParameterAssumption
    <3>8. CASE opened_at[m] # None
      <4>1. failures[m] + Cardinality(Remaining(m))
              <= FailureThreshold - 1 + Cardinality(Attempt)
        BY <3>8 DEF AttemptsPay
      <4>. QED BY <3>1, <3>5, <3>6, <3>7, <4>1 DEF Paid
    <3>9. CASE opened_at[m] = None
      <4>1. failures[m] < FailureThreshold BY <3>7, <3>9 DEF Agree
      <4>. QED BY <3>1, <3>5, <3>6, <3>7, <4>1 DEF Paid
    <3>. QED BY <3>8, <3>9
  <2>. QED BY <2>5, <2>6
<1>8. CASE UNCHANGED vars
  <2>1. opened_at[m] # None /\ failures'[m] = failures[m] BY <1>8 DEF vars
  <2>2. Remaining(m)' \subseteq Remaining(m)
    BY <1>8 DEF vars, Remaining, Attempt, Working, CurrentModel
  <2>. QED BY <1>2, <2>1, <2>2 DEF Paid
<1>. QED BY <1>3, <1>4, <1>5, <1>6, <1>7, <1>8 DEF Next, Paid

\* A breaker overshoots by no more than the attempts of the coroutines that
\* were inside when it opened, for any number of them.
THEOREM OvershootBounded == Spec => []OvershootBound
<1>1. Init => Agree(failures, opened_at) /\ AttemptsPay
  BY ParameterAssumption DEF Init, Agree, AttemptsPay
<1>2. TypeOK /\ Agree(failures, opened_at) /\ AttemptsPay => OvershootBound
  <2>. SUFFICES ASSUME TypeOK, Agree(failures, opened_at), AttemptsPay, NEW m \in Model
                PROVE  failures[m] <= FailureThreshold - 1
                                        + Cardinality(Caller) * (MaxRetries + 1)
    BY DEF OvershootBound
  <2>1. failures[m] \in Nat /\ FailureThreshold \in Nat
    BY ParameterAssumption DEF TypeOK
  <2>2. Cardinality(Attempt) \in Nat BY AttemptCount
  <2>3. failures[m] <= FailureThreshold - 1 + Cardinality(Attempt)
    <3>1. CASE opened_at[m] = None
      <4>1. failures[m] < FailureThreshold BY <2>1, <3>1 DEF Agree
      <4>. QED BY <2>1, <2>2, <4>1
    <3>2. CASE opened_at[m] # None
      <4>1. Remaining(m) \in SUBSET Attempt BY DEF Remaining
      <4>2. Cardinality(Remaining(m)) \in Nat BY <4>1, SubsetCount
      <4>. QED BY <2>1, <2>2, <3>2, <4>2 DEF AttemptsPay
    <3>. QED BY <3>1, <3>2
  <2>. QED BY <2>3, AttemptCount
<1>. QED BY <1>1, <1>2, TypeCorrect, AgreeNext, AttemptsPayNext, PTL DEF Spec
--------------------------------------------------------------------------------
(***************************************************************************)
(* Each breaker on its own.  A step of the router touches two breakers at  *)
(* most: a failed last attempt leaves one model, as its Fail, and turns to *)
(* another, as its Enter, which the chain's models being distinct keeps    *)
(* apart.  To all others the step is a stutter.                            *)
(***************************************************************************)
\* What a walk over the chain does to one model's breaker: pass it by or enter.
LEMMA TryFromBreaker ==
  ASSUME call \in [Caller -> CallRecord],
         NEW c \in Caller, NEW k \in Complexity, NEW i \in Nat \ {0},
         NEW f \in [Model -> Nat],
         NEW o \in [Model -> 0..RecoverySeconds \cup {None}],
         TryFrom(c, k, i, f, o), NEW m \in Model
  PROVE  \/ /\ failures'[m] = f[m] /\ opened_at'[m] = o[m]
            /\ ~(Working(c)' /\ CurrentModel(c)' = m)
         \/ /\ m \in Ahead(k, i)
            /\ Working(c)' /\ CurrentModel(c)' = m /\ call'[c].pc = "calling"
            /\ opened_at'[m] = None
            /\ \/ o[m] = None /\ failures'[m] = f[m]
               \/ o[m] = RecoverySeconds /\ failures'[m] = 0
<1>1. CASE /\ failures' = f /\ opened_at' = o
           /\ call' = [call EXCEPT ![c] = Finished("error", k)]
  BY <1>1 DEF Finished, Working
<1>2. ASSUME NEW j \in Admissible(k, i, o),
             failures' = [f EXCEPT ![Chain[k][j]] =
                            IF o[Chain[k][j]] = None THEN @ ELSE 0],
             opened_at' = [o EXCEPT ![Chain[k][j]] = None],
             call' = [call EXCEPT ![c] = Calling(k, j, 0)]
      PROVE  \/ /\ failures'[m] = f[m] /\ opened_at'[m] = o[m]
                /\ CurrentModel(c)' # m
             \/ /\ m \in Ahead(k, i)
                /\ Working(c)' /\ CurrentModel(c)' = m /\ call'[c].pc = "calling"
                /\ opened_at'[m] = None
                /\ \/ o[m] = None /\ failures'[m] = f[m]
                   \/ o[m] = RecoverySeconds /\ failures'[m] = 0
  <2>1. /\ j \in i..Len(Chain[k]) /\ ~IsOpen(o[Chain[k][j]])
        /\ Chain[k][j] \in Model /\ Chain[k][j] \in Ahead(k, i)
    BY ChainAssumption DEF Admissible, Ahead
  <2>2. CurrentModel(c)' = Chain[k][j] /\ call'[c].pc = "calling" /\ Working(c)'
    BY <1>2 DEF CurrentModel, Calling, Working
  <2>3. CASE m # Chain[k][j] BY <1>2, <2>1, <2>2, <2>3
  <2>4. CASE m = Chain[k][j]
    <3>1. o[m] = None \/ o[m] = RecoverySeconds
      BY <2>1, <2>4, ParameterAssumption DEF IsOpen
    <3>2. opened_at'[m] = None /\ failures'[m] = IF o[m] = None THEN f[m] ELSE 0
      BY <1>2, <2>4
    <3>3. RecoverySeconds # None BY ParameterAssumption
    <3>. QED BY <2>1, <2>2, <2>4, <3>1, <3>2, <3>3
  <2>. QED BY <2>3, <2>4
<1>. QED BY <1>1, <1>2 DEF TryFrom

\* Where c goes decides who is inside and who is out, if nobody else moves.
LEMMA OneMoves ==
  ASSUME NEW c \in Caller, NEW m \in Model,
         \A d \in Caller : d # c => call'[d] = call[d]
  PROVE  /\ ~(Working(c)' /\ CurrentModel(c)' = m) =>
              Visitors(m)' = Visitors(m) \ {c} /\ Out(m)' = Out(m) \ {c}
         /\ Working(c)' /\ CurrentModel(c)' = m =>
              /\ Visitors(m)' = Visitors(m) \cup {c}
              /\ Out(m)' = IF call'[c].pc = "calling" THEN Out(m) \cup {c}
                                                     ELSE Out(m) \ {c}
<1>1. \A d \in Caller : d # c =>
        /\ d \in Visitors(m)' <=> d \in Visitors(m)
        /\ d \in Out(m)' <=> d \in Out(m)
  BY DEF Visitors, Out, Working, CurrentModel
<1>2. Visitors(m) \subseteq Caller /\ Out(m) \subseteq Caller BY DEF Visitors, Out
<1>3. Visitors(m)' \subseteq Caller /\ Out(m)' \subseteq Caller BY DEF Visitors, Out
<1>4. c \in Visitors(m)' <=> Working(c)' /\ CurrentModel(c)' = m BY DEF Visitors
<1>5. c \in Out(m)' <=> c \in Visitors(m)' /\ call'[c].pc = "calling" BY DEF Out
<1>. QED BY <1>1, <1>2, <1>3, <1>4, <1>5

\* For who walks on from a breaker it has not been on: pass by or enter.
LEMMA WalkIsStep ==
  ASSUME call \in [Caller -> CallRecord],
         NEW c \in Caller, NEW k \in Complexity, NEW i \in Nat \ {0},
         NEW f \in [Model -> Nat],
         NEW o \in [Model -> 0..RecoverySeconds \cup {None}],
         TryFrom(c, k, i, f, o),
         NEW m \in Model, c \notin Visitors(m),
         f[m] = failures[m], o[m] = opened_at[m]
  PROVE  Breaker(m)!Step
<1>1. \A d \in Caller : d # c => call'[d] = call[d] BY TryFromVisits
<1>2. c \notin Out(m) BY DEF Out
<1>3. CASE /\ failures'[m] = f[m] /\ opened_at'[m] = o[m]
           /\ ~(Working(c)' /\ CurrentModel(c)' = m)
  <2>1. Visitors(m)' = Visitors(m) \ {c} /\ Out(m)' = Out(m) \ {c}
    BY <1>1, <1>3, OneMoves
  <2>2. Visitors(m)' = Visitors(m) /\ Out(m)' = Out(m) BY <1>2, <2>1
  <2>. QED BY <1>3, <2>2 DEF Breaker!Step, Breaker!breaker
<1>4. CASE /\ Working(c)' /\ CurrentModel(c)' = m /\ call'[c].pc = "calling"
           /\ opened_at'[m] = None
           /\ \/ o[m] = None /\ failures'[m] = f[m]
              \/ o[m] = RecoverySeconds /\ failures'[m] = 0
  <2>1. Visitors(m)' = Visitors(m) \cup {c} /\ Out(m)' = Out(m) \cup {c}
    BY <1>1, <1>4, OneMoves
  <2>2. Breaker(m)!Enter(c) BY <1>4, <2>1 DEF Breaker!Enter, Breaker!Closed
  <2>. QED BY <2>2 DEF Breaker!Step, Breaker!Next
<1>. QED BY <1>3, <1>4, TryFromBreaker

LEMMA BreakerInit == ASSUME Init, NEW m \in Model PROVE Breaker(m)!Init
<1>1. \A c \in Caller : ~Working(c) BY DEF Init, Finished, Working
<1>. QED BY <1>1 DEF Init, Breaker!Init, Visitors, Out

LEMMA BreakerStep ==
  ASSUME TypeOK, [Next]_vars, NEW m \in Model PROVE Breaker(m)!Step
<1>1. /\ failures \in [Model -> Nat]
      /\ opened_at \in [Model -> 0..RecoverySeconds \cup {None}]
      /\ call \in [Caller -> CallRecord]
  BY TypeParts DEF BreakersOK
<1>2. CASE Tick
  <2>1. ASSUME NEW c \in Caller
        PROVE  /\ call'[c].pc = call[c].pc
               /\ call'[c].task = call[c].task
               /\ call'[c].pos = call[c].pos
    BY <1>1, <1>2 DEF Tick, Elapse, CallRecord
  <2>2. Visitors(m)' = Visitors(m) /\ Out(m)' = Out(m)
    BY <2>1 DEF Visitors, Out, Working, CurrentModel
  <2>3. /\ failures'[m] = failures[m]
        /\ opened_at'[m] = IF opened_at[m] # None /\ opened_at[m] < RecoverySeconds
                           THEN opened_at[m] + 1 ELSE opened_at[m]
    BY <1>2 DEF Tick
  <2>. QED BY <2>2, <2>3
    DEF Breaker!Step, Breaker!Next, Breaker!Age, Breaker!breaker
<1>3. ASSUME NEW c \in Caller, NEW k \in Complexity, Complete(c, k)
      PROVE  Breaker(m)!Step
  <2>1. c \notin Visitors(m) BY <1>3 DEF Complete, Visitors
  <2>2. TryFrom(c, k, 1, failures, opened_at) BY <1>3 DEF Complete
  <2>. QED BY <1>1, <2>1, <2>2, WalkIsStep
<1>4. ASSUME NEW c \in Caller, Answer(c) PROVE Breaker(m)!Step
  <2>1. /\ \A d \in Caller : d # c => call'[d] = call[d]
        /\ ~Working(c)'
    BY <1>1, <1>4 DEF Answer, Finished, Working
  <2>2. Visitors(m)' = Visitors(m) \ {c} /\ Out(m)' = Out(m) \ {c}
    BY <2>1, OneMoves
  <2>3. CASE m = CurrentModel(c)
    <3>1. c \in Out(m) BY <1>4, <2>3 DEF Answer, Out, Visitors, Working
    <3>2. failures'[m] = 0 /\ opened_at'[m] = None BY <1>1, <1>4, <2>3 DEF Answer
    <3>3. Breaker(m)!Succeed(c)
      BY <2>2, <3>1, <3>2 DEF Breaker!Succeed, Breaker!Leave, Breaker!Closed
    <3>. QED BY <3>3 DEF Breaker!Step, Breaker!Next
  <2>4. CASE m # CurrentModel(c)
    <3>1. c \notin Visitors(m) /\ c \notin Out(m) BY <2>4 DEF Visitors, Out
    <3>2. failures'[m] = failures[m] /\ opened_at'[m] = opened_at[m]
      BY <1>1, <1>4, <2>4 DEF Answer
    <3>3. Visitors(m)' = Visitors(m) /\ Out(m)' = Out(m) BY <2>2, <3>1
    <3>. QED BY <3>2, <3>3 DEF Breaker!Step, Breaker!breaker
  <2>. QED BY <2>3, <2>4
<1>5. ASSUME NEW c \in Caller, Fail(c) PROVE Breaker(m)!Step
  <2>. DEFINE n == CurrentModel(c)
              k == call[c].task
              i == call[c].pos + 1
              f == [failures EXCEPT ![n] = @ + 1]
              o == [opened_at EXCEPT ![n] = IF Trips(f[n]) THEN 0 ELSE @]
  <2>1. Working(c) /\ call[c].pc = "calling" BY <1>5 DEF Fail, Working
  <2>2. /\ n \in Model
        /\ f \in [Model -> Nat]
        /\ o \in [Model -> 0..RecoverySeconds \cup {None}]
        /\ k \in Complexity
        /\ i \in Nat \ {0}
    BY <2>1, RecordFailure
  <2>3. /\ m = n => /\ f[m] = failures[m] + 1
                    /\ o[m] = IF f[m] >= FailureThreshold THEN 0 ELSE opened_at[m]
        /\ m # n => f[m] = failures[m] /\ o[m] = opened_at[m]
    BY <1>1, <2>2 DEF Trips
  <2>4. m = n => c \in Out(m) BY <2>1 DEF Out, Visitors
  <2>5. m # n => c \notin Visitors(m) /\ c \notin Out(m) BY DEF Visitors, Out
  <2>6. ASSUME m = n, failures'[m] = f[m], opened_at'[m] = o[m],
               Out(m)' = Out(m) \ {c}, Visitors(m)' \in {Visitors(m), Visitors(m) \ {c}}
        PROVE  Breaker(m)!Step
    <3>1. Breaker(m)!Fail(c) BY <2>3, <2>4, <2>6 DEF Breaker!Fail
    <3>. QED BY <3>1 DEF Breaker!Step, Breaker!Next
  <2>7. CASE /\ failures' = f /\ opened_at' = o
             /\ call' = [call EXCEPT ![c].pc = "backoff",
                                     ![c].timer = Backoff(call[c].attempt)]
    <3>1. /\ \A d \in Caller : d # c => call'[d] = call[d]
          /\ call'[c].task = call[c].task /\ call'[c].pos = call[c].pos
          /\ call'[c].pc = "backoff"
      BY <1>1, <2>7 DEF CallRecord
    <3>2. Working(c)' /\ CurrentModel(c)' = n BY <3>1 DEF Working, CurrentModel
    <3>3. CASE m = n
      <4>1. Visitors(m)' = Visitors(m) \cup {c} /\ Out(m)' = Out(m) \ {c}
        BY <3>1, <3>2, <3>3, OneMoves
      <4>2. c \in Visitors(m) BY <2>4, <3>3 DEF Out
      <4>3. Visitors(m)' = Visitors(m) BY <4>1, <4>2
      <4>. QED BY <2>6, <2>7, <3>3, <4>1, <4>3
    <3>4. CASE m # n
      <4>1. Visitors(m)' = Visitors(m) \ {c} /\ Out(m)' = Out(m) \ {c}
        BY <3>1, <3>2, <3>4, OneMoves
      <4>2. Visitors(m)' = Visitors(m) /\ Out(m)' = Out(m) BY <2>5, <3>4, <4>1
      <4>. QED BY <2>3, <2>7, <3>4, <4>2 DEF Breaker!Step, Breaker!breaker
    <3>. QED BY <3>3, <3>4
  <2>8. CASE TryFrom(c, k, i, f, o)
    <3>. HIDE DEF f, o
    <3>1. CASE m # n
      <4>. HIDE DEF n, k, i
      <4>. QED BY <1>1, <2>2, <2>3, <2>5, <2>8, <3>1, WalkIsStep
    <3>2. CASE m = n
      <4>1. m \notin Ahead(k, i)
        <5>1. call[c].pos \in 1..Len(Chain[k]) /\ Len(Chain[k]) \in Nat
          BY <2>1, <2>2, ChainAssumption DEF TypeOK
        <5>2. \A j \in i..Len(Chain[k]) :
                j \in 1..Len(Chain[k]) /\ j # call[c].pos
          BY <5>1
        <5>3. m = Chain[k][call[c].pos] BY <3>2 DEF CurrentModel
        <5>4. \A j \in i..Len(Chain[k]) : Chain[k][j] # m
          <6>. HIDE DEF k, i, n
          <6>. QED BY <2>2, <5>1, <5>2, <5>3, ChainAssumption
        <5>. QED BY <5>4 DEF Ahead
      <4>. HIDE DEF n, k, i
      <4>2. /\ failures'[m] = f[m] /\ opened_at'[m] = o[m]
            /\ ~(Working(c)' /\ CurrentModel(c)' = m)
        BY <1>1, <2>2, <2>8, <4>1, TryFromBreaker
      <4>3. \A d \in Caller : d # c => call'[d] = call[d]
        BY <1>1, <2>2, <2>8, TryFromVisits
      <4>4. Visitors(m)' = Visitors(m) \ {c} /\ Out(m)' = Out(m) \ {c}
        BY <4>2, <4>3, OneMoves
      <4>. QED BY <2>6, <3>2, <4>2, <4>4
    <3>. QED BY <3>1, <3>2
  <2>. QED BY <1>5, <2>7, <2>8 DEF Fail
<1>6. ASSUME NEW c \in Caller, Wake(c) PROVE Breaker(m)!Step
  <2>1. /\ \A d \in Caller : d # c => call'[d] = call[d]
        /\ call'[c].task = call[c].task /\ call'[c].pos = call[c].pos
        /\ call[c].pc = "backoff" /\ call'[c].pc = "calling"
        /\ failures'[m] = failures[m] /\ opened_at'[m] = opened_at[m]
    BY <1>1, <1>6 DEF Wake, Calling
  <2>2. Working(c) /\ Working(c)' /\ CurrentModel(c)' = CurrentModel(c)
    BY <2>1 DEF Working, CurrentModel
  <2>3. CASE CurrentModel(c) = m
    <3>1. Visitors(m)' = Visitors(m) \cup {c} /\ Out(m)' = Out(m) \cup {c}
      BY <2>1, <2>2, <2>3, OneMoves
    <3>2. c \in Visitors(m) \ Out(m) BY <2>1, <2>2, <2>3 DEF Visitors, Out
    <3>3. Visitors(m)' = Visitors(m) BY <3>1, <3>2
    <3>4. Breaker(m)!TryAgain(c) BY <2>1, <3>1, <3>2, <3>3 DEF Breaker!TryAgain
    <3>. QED BY <3>4 DEF Breaker!Step, Breaker!Next
  <2>4. CASE CurrentModel(c) # m
    <3>1. c \notin Visitors(m) /\ c \notin Out(m) BY <2>4 DEF Visitors, Out
    <3>2. Visitors(m)' = Visitors(m) \ {c} /\ Out(m)' = Out(m) \ {c}
      BY <2>1, <2>2, <2>4, OneMoves
    <3>3. Visitors(m)' = Visitors(m) /\ Out(m)' = Out(m) BY <3>1, <3>2
    <3>. QED BY <2>1, <3>3 DEF Breaker!Step, Breaker!breaker
  <2>. QED BY <2>3, <2>4
<1>7. ASSUME NEW c \in Caller, Cancel(c) PROVE Breaker(m)!Step
  <2>1. /\ \A d \in Caller : d # c => call'[d] = call[d]
        /\ ~Working(c)'
        /\ failures'[m] = failures[m] /\ opened_at'[m] = opened_at[m]
    BY <1>1, <1>7 DEF Cancel, Finished, Working
  <2>2. Visitors(m)' = Visitors(m) \ {c} /\ Out(m)' = Out(m) \ {c}
    BY <2>1, OneMoves
  <2>3. CASE c \in Visitors(m)
    <3>1. Breaker(m)!GiveUp(c) BY <2>1, <2>2, <2>3 DEF Breaker!GiveUp, Breaker!Leave
    <3>. QED BY <3>1 DEF Breaker!Step, Breaker!Next
  <2>4. CASE c \notin Visitors(m)
    <3>1. c \notin Out(m) BY <2>4 DEF Out
    <3>2. Visitors(m)' = Visitors(m) /\ Out(m)' = Out(m) BY <2>2, <2>4, <3>1
    <3>. QED BY <2>1, <3>2 DEF Breaker!Step, Breaker!breaker
  <2>. QED BY <2>3, <2>4
<1>8. CASE UNCHANGED vars
  BY <1>8 DEF vars, Breaker!Step, Breaker!breaker, Visitors, Out, Working, CurrentModel
<1>. QED BY <1>2, <1>3, <1>4, <1>5, <1>6, <1>7, <1>8 DEF Next

\* However the coroutines interleave, each breaker behaves as one that is alone.
THEOREM BreakersAreAlone == Spec => ImplementsBreakers
<1>1. Init => \A m \in Model : Breaker(m)!Init BY BreakerInit
<1>2. TypeOK /\ [Next]_vars => [\A m \in Model : Breaker(m)!Step]_vars
  BY BreakerStep
<1>. QED BY <1>1, <1>2, TypeCorrect, PTL DEF Spec, ImplementsBreakers

\* The same, for one breaker at a time and as the abstract specification has it.
THEOREM EachBreaker == ASSUME NEW m \in Model PROVE Spec => Breaker(m)!Spec
<1>1. Init => Breaker(m)!Init BY BreakerInit
<1>2. TypeOK /\ [Next]_vars => [Breaker(m)!Next]_(Breaker(m)!breaker)
  BY BreakerStep DEF Breaker!Step
<1>. QED BY <1>1, <1>2, TypeCorrect, PTL DEF Spec, Breaker!Spec
--------------------------------------------------------------------------------
(***************************************************************************)
(* The safety half of Terminates: no step lets a complete() repeat itself. *)
(* With fairness it must end, since Later has no infinite chain within the *)
(* types; that last step is beyond these provers and stays with TLC.       *)
(***************************************************************************)
LEMMA WalkAdvances ==
  ASSUME call \in [Caller -> CallRecord],
         NEW c \in Caller, NEW k \in Complexity, NEW i \in Nat \ {0},
         NEW f, NEW o, TryFrom(c, k, i, f, o), Working(c)'
  PROVE  call'[c].task = k /\ call'[c].pos >= i
<1>1. Len(Chain[k]) \in Nat BY ChainAssumption
<1>2. CASE call' = [call EXCEPT ![c] = Finished("error", k)]
  BY <1>2 DEF Finished, Working
<1>3. ASSUME NEW j \in Admissible(k, i, o), call' = [call EXCEPT ![c] = Calling(k, j, 0)]
      PROVE  call'[c].task = k /\ call'[c].pos >= i
  BY <1>1, <1>3 DEF Admissible, Calling
<1>. QED BY <1>2, <1>3 DEF TryFrom

LEMMA ForwardStep ==
  ASSUME TypeOK, [Next]_vars, NEW e \in Caller, Working(e), Working(e)', call'[e] # call[e]
  PROVE  call'[e].task = call[e].task /\ Later(call[e], call'[e])
<1>1. call \in [Caller -> CallRecord] BY TypeParts
<1>2. call[e] \in CallRecord /\ call[e].pos \in Nat /\ call[e].attempt \in Nat
  BY <1>1, ParameterAssumption DEF CallRecord
<1>3. CASE Tick
  <2>1. call'[e] = Elapse(call[e]) BY <1>1, <1>3 DEF Tick
  <2>2. CASE call[e].pc = "calling"
    <3>1. call'[e] = [call[e] EXCEPT !.timer = @ + 1] BY <2>1, <2>2 DEF Elapse
    <3>. QED BY <1>2, <2>2, <3>1 DEF CallRecord, Later
  <2>3. CASE call[e].pc = "backoff"
    <3>1. call'[e] = [call[e] EXCEPT !.timer = @ - 1] BY <2>1, <2>3 DEF Elapse
    <3>. QED BY <1>2, <2>3, <3>1 DEF CallRecord, Later
  <2>. QED BY <2>2, <2>3 DEF Working
<1>4. ASSUME NEW c \in Caller, NEW k \in Complexity, Complete(c, k)
      PROVE  FALSE
  <2>1. c # e BY <1>4 DEF Complete
  <2>2. TryFrom(c, k, 1, failures, opened_at) BY <1>4 DEF Complete
  <2>3. call'[e] = call[e] BY <1>1, <2>1, <2>2 DEF TryFrom
  <2>. QED BY <2>3
<1>5. ASSUME NEW c \in Caller, Answer(c) \/ Cancel(c) PROVE FALSE
  BY <1>1, <1>5 DEF Answer, Cancel, Finished, Working
<1>6. ASSUME NEW c \in Caller, Wake(c)
      PROVE  call'[e].task = call[e].task /\ Later(call[e], call'[e])
  <2>1. c = e BY <1>1, <1>6 DEF Wake
  <2>2. call'[e] = Calling(call[e].task, call[e].pos, NextAttempt(call[e].attempt))
    BY <1>1, <1>6, <2>1 DEF Wake
  <2>. QED BY <1>2, <2>2 DEF Calling, NextAttempt, Later
<1>7. ASSUME NEW c \in Caller, Fail(c)
      PROVE  call'[e].task = call[e].task /\ Later(call[e], call'[e])
  <2>1. c = e /\ call[e].pc = "calling"
    <3>1. \A d \in Caller : d # c => call'[d] = call[d]
      BY <1>1, <1>7 DEF Fail, TryFrom
    <3>. QED BY <1>7, <3>1 DEF Fail
  <2>2. CASE call' = [call EXCEPT ![c].pc = "backoff",
                                  ![c].timer = Backoff(call[c].attempt)]
    <3>1. /\ call'[e].task = call[e].task /\ call'[e].pos = call[e].pos
          /\ call'[e].attempt = call[e].attempt /\ call'[e].pc = "backoff"
      BY <1>1, <2>1, <2>2 DEF CallRecord
    <3>. QED BY <2>1, <3>1 DEF Later
  <2>3. ASSUME NEW f, NEW o, TryFrom(c, call[c].task, call[c].pos + 1, f, o)
        PROVE  call'[e].task = call[e].task /\ Later(call[e], call'[e])
    <3>1. call[e].task \in Complexity /\ call[e].pos + 1 \in Nat \ {0}
      BY <1>2 DEF CallRecord
    <3>2. call'[e].task = call[e].task /\ call'[e].pos >= call[e].pos + 1
      BY <1>1, <2>1, <2>3, <3>1, WalkAdvances
    <3>3. call'[e].pos \in Nat
      <4>1. TypeOK' BY TypeNext
      <4>. QED BY <4>1 DEF TypeOK
    <3>4. call'[e].pos > call[e].pos BY <1>2, <3>2, <3>3
    <3>. QED BY <3>2, <3>4 DEF Later
  <2>. QED BY <1>7, <2>2, <2>3 DEF Fail
<1>8. CASE UNCHANGED vars BY <1>8 DEF vars
<1>. QED BY <1>3, <1>4, <1>5, <1>6, <1>7, <1>8 DEF Next

\* A complete() never goes back: to a model it has left, or to an earlier attempt.
THEOREM NeverGoesBack == Spec => MovesForward
<1>1. TypeOK /\ [Next]_vars =>
        [\A c \in Caller : Working(c) /\ Working(c)' /\ call'[c] # call[c] =>
           call'[c].task = call[c].task /\ Later(call[c], call'[c])]_vars
  BY ForwardStep
<1>. QED BY <1>1, TypeCorrect, PTL DEF Spec, MovesForward
--------------------------------------------------------------------------------
(***************************************************************************)
(* The time a complete() has: what is left for the models behind the one   *)
(* it is on, which is a multiple of WorstOfModel, and what is left for     *)
(* that one.  The products of parameters are kept apart from the rest of   *)
(* the arithmetic, which is then linear.                                   *)
(***************************************************************************)
ModelLeft(r) ==
  (MaxRetries - r.attempt) * RequestTimeout + Waits(MaxRetries)
    + IF r.pc = "calling" THEN RequestTimeout - r.timer - Waits(r.attempt)
                          ELSE r.timer - Waits(r.attempt + 1)

LEMMA Distributes ==
  ASSUME NEW x \in Int, NEW y \in Int, NEW z \in Int
  PROVE  (x + y) * z = x * z + y * z
OBVIOUS

LEMMA ProductNat ==
  ASSUME NEW x \in Nat, NEW y \in Nat
  PROVE  x * y \in Nat
OBVIOUS

LEMMA ProductGrows ==
  ASSUME NEW x \in Int, NEW y \in Int, x <= y, NEW z \in Nat
  PROVE  x * z \in Int /\ y * z \in Int /\ x * z <= y * z
<1>. DEFINE d == y - x
<1>1. d \in Nat /\ y = x + d OBVIOUS
<1>2. x * z \in Int /\ d * z \in Nat BY <1>1, ProductNat
<1>. HIDE DEF d
<1>3. (x + d) * z = x * z + d * z BY <1>1, Distributes
<1>. QED BY <1>1, <1>2, <1>3

\* Waits adds up the back-offs.
LEMMA WaitsSum ==
  ASSUME NEW a \in Nat
  PROVE  /\ Waits(a) \in Nat /\ Waits(a + 1) \in Nat
         /\ Waits(a + 1) = Waits(a) + Backoff(a)
<1>1. CASE a = 0  BY <1>1 DEF Waits, Backoff
<1>2. CASE a = 1  BY <1>2 DEF Waits, Backoff
<1>3. CASE a = 2  BY <1>3 DEF Waits, Backoff
<1>4. CASE a >= 3 BY <1>4 DEF Waits, Backoff
<1>. QED BY <1>1, <1>2, <1>3, <1>4

LEMMA WaitsGrow ==
  ASSUME NEW a \in Nat, NEW b \in Nat, a <= b
  PROVE  Waits(a) <= Waits(b)
<1>1. CASE b >= 3
  <2>1. Waits(b) = 8 * b - 17 BY <1>1 DEF Waits
  <2>2. CASE a >= 3 BY <2>1, <2>2 DEF Waits
  <2>3. CASE a \in {0, 1, 2}
    <3>1. Waits(a) \in {0, 1, 3} BY <2>3 DEF Waits
    <3>. QED BY <1>1, <2>1, <3>1
  <2>. QED BY <2>2, <2>3
<1>2. CASE b = 0 BY <1>2 DEF Waits
<1>3. CASE b = 1 BY <1>3 DEF Waits
<1>4. CASE b = 2
  <2>1. Waits(b) = 3 BY <1>4 DEF Waits
  <2>2. a \in {0, 1, 2} BY <1>4
  <2>3. Waits(a) \in {0, 1, 3} BY <2>2 DEF Waits
  <2>. QED BY <2>1, <2>3
<1>. QED BY <1>1, <1>2, <1>3, <1>4

LEMMA WorstNat == WorstOfModel \in Nat
<1>1. Waits(MaxRetries) \in Nat BY WaitsSum, ParameterAssumption
<1>2. (MaxRetries + 1) * RequestTimeout \in Nat
  BY ProductNat, ParameterAssumption
<1>. QED BY <1>1, <1>2 DEF WorstOfModel

\* The attempts left on a model: one fewer is RequestTimeout less.
LEMMA AttemptsLeft ==
  ASSUME NEW a \in 0..MaxRetries
  PROVE  /\ (MaxRetries - a) * RequestTimeout \in Nat
         /\ (MaxRetries - a) * RequestTimeout
              = (MaxRetries - (a + 1)) * RequestTimeout + RequestTimeout
<1>. DEFINE n == MaxRetries - (a + 1)
<1>1. /\ MaxRetries - a \in Nat /\ n \in Int /\ MaxRetries - a = n + 1
      /\ RequestTimeout \in Nat
  BY ParameterAssumption
<1>2. (MaxRetries - a) * RequestTimeout \in Nat BY <1>1, ProductNat
<1>. HIDE DEF n
<1>3. (n + 1) * RequestTimeout = n * RequestTimeout + 1 * RequestTimeout
  BY <1>1, Distributes
<1>. QED BY <1>1, <1>2, <1>3 DEF n

\* Nobody is on a model for longer than it has.
LEMMA ModelLeftNat ==
  ASSUME NEW r \in CallRecord, InRange(r), r.pc \in {"calling", "backoff"}
  PROVE  ModelLeft(r) \in Nat
<1>. DEFINE p == (MaxRetries - r.attempt) * RequestTimeout
<1>1. /\ r.attempt \in 0..MaxRetries /\ r.timer \in Nat
      /\ MaxRetries \in Nat /\ RequestTimeout \in Nat
  BY ParameterAssumption DEF CallRecord
<1>2. p \in Nat BY <1>1, AttemptsLeft
<1>3. Waits(MaxRetries) \in Nat BY <1>1, WaitsSum
<1>. HIDE DEF p
<1>4. CASE r.pc = "calling"
  <2>1. r.timer <= RequestTimeout BY <1>4 DEF InRange
  <2>2. r.attempt \in Nat /\ r.attempt <= MaxRetries BY <1>1
  <2>3. Waits(r.attempt) \in Nat BY <2>2, WaitsSum
  <2>4. Waits(r.attempt) <= Waits(MaxRetries) BY <1>1, <2>2, WaitsGrow
  <2>5. ModelLeft(r) = p + Waits(MaxRetries) + (RequestTimeout - r.timer - Waits(r.attempt))
    BY <1>4 DEF ModelLeft, p
  <2>. QED BY <1>1, <1>2, <1>3, <2>1, <2>3, <2>4, <2>5
<1>5. CASE r.pc = "backoff"
  <2>1. r.attempt + 1 \in Nat /\ r.attempt + 1 <= MaxRetries
    BY <1>1, <1>5 DEF InRange
  <2>2. Waits(r.attempt + 1) \in Nat /\ Waits(r.attempt + 1) <= Waits(MaxRetries)
    BY <1>1, <2>1, WaitsSum, WaitsGrow
  <2>3. ModelLeft(r) = p + Waits(MaxRetries) + (r.timer - Waits(r.attempt + 1))
    BY <1>5 DEF ModelLeft, p
  <2>. QED BY <1>1, <1>2, <1>3, <2>2, <2>3
<1>. QED BY <1>4, <1>5

LEMMA SecondsSplit ==
  ASSUME NEW r \in CallRecord, InRange(r), r.pc \in {"calling", "backoff"}
  PROVE  LET behind == (Len(Chain[r.task]) - r.pos) * WorstOfModel
         IN  /\ behind \in Nat /\ ModelLeft(r) \in Nat
             /\ SecondsLeft(r) = behind + ModelLeft(r)
<1>. DEFINE n == Len(Chain[r.task]) - r.pos
            p == (MaxRetries - r.attempt) * RequestTimeout
            t == IF r.pc = "calling" THEN RequestTimeout - r.timer - Waits(r.attempt)
                                     ELSE r.timer - Waits(r.attempt + 1)
<1>1. r.task \in Complexity /\ r.attempt \in 0..MaxRetries /\ r.timer \in Nat
  BY DEF CallRecord
<1>2. n \in Nat BY <1>1, ChainAssumption DEF InRange
<1>3. n * WorstOfModel \in Nat BY <1>2, WorstNat, ProductNat
<1>4. p \in Int BY <1>1, AttemptsLeft
<1>5. r.attempt \in Nat /\ Waits(MaxRetries) \in Nat /\ RequestTimeout \in Nat
  BY <1>1, WaitsSum, ParameterAssumption
<1>6. t \in Int BY <1>1, <1>5, WaitsSum
<1>7. /\ SecondsLeft(r) = n * WorstOfModel + p + Waits(MaxRetries) + t
      /\ ModelLeft(r) = p + Waits(MaxRetries) + t
  BY DEF SecondsLeft, ModelLeft
<1>8. ModelLeft(r) \in Nat BY ModelLeftNat
<1>. HIDE DEF n, p, t
<1>9. SecondsLeft(r) = n * WorstOfModel + ModelLeft(r)
  BY <1>3, <1>4, <1>5, <1>6, <1>7
<1>. QED BY <1>3, <1>8, <1>9 DEF n

\* Who turns to model j of the chain has the worst of that one and of those
\* behind it.
LEMMA FirstAttempt ==
  ASSUME NEW k \in Complexity, NEW j \in 1..Len(Chain[k])
  PROVE  /\ SecondsLeft(Calling(k, j, 0)) \in Nat
         /\ SecondsLeft(Calling(k, j, 0)) = (Len(Chain[k]) - (j - 1)) * WorstOfModel
<1>. DEFINE r == Calling(k, j, 0)
            n == Len(Chain[k]) - j
<1>1. Len(Chain[k]) \in Nat /\ 0 \in 0..MaxRetries
  BY ChainAssumption, ParameterAssumption
<1>2. r \in CallRecord /\ InRange(r) BY <1>1, CallingOK
<1>3. /\ r.pc = "calling" /\ r.task = k /\ r.pos = j
      /\ r.attempt = 0 /\ r.timer = 0
  BY DEF Calling
<1>. HIDE DEF r
<1>4. SecondsLeft(r) \in Nat /\ SecondsLeft(r) = n * WorstOfModel + ModelLeft(r)
  BY <1>2, <1>3, SecondsSplit
<1>5. ModelLeft(r) = WorstOfModel
  <2>. DEFINE p == MaxRetries * RequestTimeout
  <2>1. p \in Int /\ RequestTimeout \in Int /\ Waits(MaxRetries) \in Nat
    <3>1. MaxRetries \in Nat /\ RequestTimeout \in Nat BY ParameterAssumption
    <3>2. p \in Nat BY <3>1, ProductNat
    <3>3. Waits(MaxRetries) \in Nat BY <3>1, WaitsSum
    <3>. QED BY <3>1, <3>2, <3>3
  <2>2. (MaxRetries + 1) * RequestTimeout = p + RequestTimeout
    <3>1. MaxRetries \in Int /\ 1 \in Int /\ RequestTimeout \in Int
      BY ParameterAssumption
    <3>2. (MaxRetries + 1) * RequestTimeout
            = MaxRetries * RequestTimeout + 1 * RequestTimeout
      BY ONLY <3>1, Distributes
    <3>. QED BY <3>1, <3>2
  <2>3. Waits(0) = 0 BY DEF Waits
  <2>4. (MaxRetries - 0) * RequestTimeout = p BY ParameterAssumption
  <2>5. ModelLeft(r) = p + Waits(MaxRetries) + (RequestTimeout - 0 - Waits(0))
    BY <1>3, <2>4 DEF ModelLeft
  <2>. HIDE DEF p
  <2>. QED BY <2>1, <2>2, <2>3, <2>5 DEF WorstOfModel
<1>6. n \in Int /\ Len(Chain[k]) - (j - 1) = n + 1 BY <1>1
<1>7. n * WorstOfModel \in Int BY <1>6, WorstNat
<1>. HIDE DEF n
<1>8. (n + 1) * WorstOfModel = n * WorstOfModel + WorstOfModel
  <2>1. 1 \in Int /\ WorstOfModel \in Int /\ 1 * WorstOfModel = WorstOfModel
    BY WorstNat
  <2>. QED BY <1>6, <2>1, Distributes
<1>9. SecondsLeft(r) = (n + 1) * WorstOfModel
  BY <1>4, <1>5, <1>7, <1>8, WorstNat
<1>. QED BY <1>4, <1>6, <1>9 DEF r

\* Where a walk from position i on ends, if it finds a model.
LEMMA WalkStops ==
  ASSUME call \in [Caller -> CallRecord],
         NEW c \in Caller, NEW k \in Complexity, NEW i \in Nat \ {0},
         NEW f, NEW o, TryFrom(c, k, i, f, o), Working(c)'
  PROVE  \E j \in 1..Len(Chain[k]) : j >= i /\ call'[c] = Calling(k, j, 0)
<1>1. Len(Chain[k]) \in Nat BY ChainAssumption
<1>2. CASE call' = [call EXCEPT ![c] = Finished("error", k)]
  BY <1>2 DEF Finished, Working
<1>3. ASSUME NEW j \in Admissible(k, i, o), call' = [call EXCEPT ![c] = Calling(k, j, 0)]
      PROVE  \E n \in 1..Len(Chain[k]) : n >= i /\ call'[c] = Calling(k, n, 0)
  BY <1>1, <1>3 DEF Admissible
<1>. QED BY <1>2, <1>3 DEF TryFrom

\* A second is taken from the call or from the back-off that is running.
LEMMA SecondPasses ==
  ASSUME NEW r \in CallRecord, InRange(r), r.pc \in {"calling", "backoff"},
         InRange(Elapse(r)), Elapse(r) \in CallRecord
  PROVE  SecondsLeft(Elapse(r)) = SecondsLeft(r) - 1
<1>. DEFINE s == Elapse(r)
            b == (Len(Chain[r.task]) - r.pos) * WorstOfModel
            p == (MaxRetries - r.attempt) * RequestTimeout + Waits(MaxRetries)
<1>1. /\ s.pc = r.pc /\ s.task = r.task /\ s.pos = r.pos /\ s.attempt = r.attempt
      /\ s.timer = IF r.pc = "calling" THEN r.timer + 1 ELSE r.timer - 1
  BY DEF Elapse, CallRecord
<1>2. /\ b \in Nat /\ SecondsLeft(r) = b + ModelLeft(r) /\ ModelLeft(r) \in Nat
  BY SecondsSplit
<1>3. SecondsLeft(s) = b + ModelLeft(s) BY <1>1, SecondsSplit
<1>4. /\ r.attempt \in 0..MaxRetries /\ r.attempt \in Nat /\ r.timer \in Nat
      /\ MaxRetries \in Nat /\ RequestTimeout \in Nat
  BY ParameterAssumption DEF CallRecord
<1>5. /\ Waits(MaxRetries) \in Nat /\ Waits(r.attempt) \in Nat
      /\ Waits(r.attempt + 1) \in Nat
  BY <1>4, WaitsSum
<1>6. p \in Int BY <1>4, <1>5, AttemptsLeft
<1>. HIDE DEF s, b
<1>7. /\ ModelLeft(r) = p + IF r.pc = "calling"
                            THEN RequestTimeout - r.timer - Waits(r.attempt)
                            ELSE r.timer - Waits(r.attempt + 1)
      /\ ModelLeft(s) = p + IF r.pc = "calling"
                            THEN RequestTimeout - s.timer - Waits(r.attempt)
                            ELSE s.timer - Waits(r.attempt + 1)
  BY <1>1 DEF ModelLeft
<1>. HIDE DEF p
<1>8. ModelLeft(s) = ModelLeft(r) - 1
  <2>1. CASE r.pc = "calling" BY <1>1, <1>4, <1>5, <1>6, <1>7, <2>1
  <2>2. CASE r.pc # "calling" BY <1>1, <1>4, <1>5, <1>6, <1>7, <2>2
  <2>. QED BY <2>1, <2>2
<1>. QED BY <1>2, <1>3, <1>8 DEF s

\* Between two attempts on a model nothing is gained: the back-off was in it.
LEMMA BetweenAttempts ==
  ASSUME NEW r \in CallRecord, InRange(r), NEW s \in CallRecord, InRange(s),
         s.task = r.task, s.pos = r.pos,
         \/ /\ r.pc = "calling" /\ s.pc = "backoff" /\ s.attempt = r.attempt
            /\ s.timer = Backoff(r.attempt)
         \/ /\ r.pc = "backoff" /\ r.timer = 0
            /\ s.pc = "calling" /\ s.attempt = r.attempt + 1 /\ s.timer = 0
  PROVE  SecondsLeft(s) <= SecondsLeft(r)
<1>. DEFINE b == (Len(Chain[r.task]) - r.pos) * WorstOfModel
            p == (MaxRetries - r.attempt) * RequestTimeout
            q == (MaxRetries - (r.attempt + 1)) * RequestTimeout
<1>1. b \in Nat /\ SecondsLeft(r) = b + ModelLeft(r) /\ SecondsLeft(s) = b + ModelLeft(s)
  <2>1. r.pc \in {"calling", "backoff"} /\ s.pc \in {"calling", "backoff"} OBVIOUS
  <2>. QED BY <2>1, SecondsSplit
<1>2. /\ r.attempt \in 0..MaxRetries /\ r.attempt \in Nat /\ r.timer \in Nat
      /\ MaxRetries \in Nat /\ RequestTimeout \in Nat
  BY ParameterAssumption DEF CallRecord
<1>3. /\ Waits(MaxRetries) \in Nat /\ Waits(r.attempt) \in Nat
      /\ Waits(r.attempt + 1) \in Nat
      /\ Waits(r.attempt + 1) = Waits(r.attempt) + Backoff(r.attempt)
  BY <1>2, WaitsSum
<1>4. p \in Nat /\ p = q + RequestTimeout BY <1>2, AttemptsLeft
<1>5. q \in Int BY <1>2
<1>6. Backoff(r.attempt) \in Nat BY <1>2, BackoffRange
<1>7. CASE /\ r.pc = "calling" /\ s.pc = "backoff" /\ s.attempt = r.attempt
           /\ s.timer = Backoff(r.attempt)
  <2>1. /\ ModelLeft(r) = p + Waits(MaxRetries)
                            + (RequestTimeout - r.timer - Waits(r.attempt))
        /\ ModelLeft(s) = p + Waits(MaxRetries)
                            + (Backoff(r.attempt) - Waits(r.attempt + 1))
    BY <1>7 DEF ModelLeft
  <2>2. r.timer <= RequestTimeout BY <1>7 DEF InRange
  <2>. HIDE DEF b, p, q
  <2>. QED BY <1>1, <1>2, <1>3, <1>4, <1>6, <2>1, <2>2
<1>8. CASE /\ r.pc = "backoff" /\ r.timer = 0
           /\ s.pc = "calling" /\ s.attempt = r.attempt + 1 /\ s.timer = 0
  <2>1. /\ ModelLeft(r) = p + Waits(MaxRetries) + (0 - Waits(r.attempt + 1))
        /\ ModelLeft(s) = q + Waits(MaxRetries)
                            + (RequestTimeout - 0 - Waits(r.attempt + 1))
    BY <1>8 DEF ModelLeft
  <2>. HIDE DEF b, p, q
  <2>. QED BY <1>1, <1>2, <1>3, <1>4, <1>5, <2>1
<1>. QED BY <1>7, <1>8

\* A later model takes no more than was reserved for it.
LEMMA LaterModel ==
  ASSUME NEW r \in CallRecord, InRange(r), r.pc \in {"calling", "backoff"},
         NEW j \in 1..Len(Chain[r.task]), j >= r.pos + 1
  PROVE  SecondsLeft(Calling(r.task, j, 0)) <= SecondsLeft(r)
<1>. DEFINE n == Len(Chain[r.task])
            x == n - (j - 1)
            y == n - r.pos
<1>1. r.task \in Complexity BY DEF CallRecord
<1>2. n \in Nat /\ j \in 1..n /\ r.pos \in Nat /\ WorstOfModel \in Nat
  BY <1>1, ChainAssumption, WorstNat DEF CallRecord
<1>3. SecondsLeft(Calling(r.task, j, 0)) = x * WorstOfModel
  BY <1>1, FirstAttempt
<1>4. /\ y * WorstOfModel \in Nat /\ ModelLeft(r) \in Nat
      /\ SecondsLeft(r) = y * WorstOfModel + ModelLeft(r)
  BY SecondsSplit
<1>5. x \in Int /\ y \in Int /\ x <= y BY <1>2
<1>. HIDE DEF x, y
<1>6. x * WorstOfModel \in Int /\ x * WorstOfModel <= y * WorstOfModel
  BY <1>2, <1>5, ProductGrows
<1>. QED BY <1>3, <1>4, <1>6

LEMMA BudgetStep ==
  ASSUME TypeOK, [Next]_vars, NEW e \in Caller, Working(e)'
  PROVE  /\ SecondsLeft(call'[e]) >= 0
         /\ ~Working(e) =>
              SecondsLeft(call'[e]) <= Len(Chain[call'[e].task]) * WorstOfModel
         /\ Working(e) =>
              SecondsLeft(call'[e]) <= SecondsLeft(call[e]) - IF Tick THEN 1 ELSE 0
<1>1. /\ call \in [Caller -> CallRecord] /\ \A c \in Caller : InRange(call[c])
      /\ call[e] \in CallRecord /\ InRange(call[e])
  BY TypeParts
<1>2. call'[e] \in CallRecord /\ InRange(call'[e])
  <2>1. TypeOK' BY TypeNext
  <2>. QED BY <2>1 DEF TypeOK, CallRecord, InRange, Working
<1>3. call'[e].pc \in {"calling", "backoff"} BY DEF Working
<1>4. SecondsLeft(call'[e]) \in Nat BY <1>2, <1>3, SecondsSplit
<1>5. Working(e) =>
        /\ call[e].pc \in {"calling", "backoff"}
        /\ SecondsLeft(call[e]) \in Nat
        /\ call[e].task \in Complexity /\ call[e].pos \in Nat
  <2>1. ASSUME Working(e)
        PROVE  call[e].pc \in {"calling", "backoff"}
    BY <2>1 DEF Working
  <2>2. call[e].task \in Complexity /\ call[e].pos \in Nat BY <1>1 DEF CallRecord
  <2>. QED BY <1>1, <2>1, <2>2, SecondsSplit
<1>6. CASE Tick
  <2>1. call'[e] = Elapse(call[e]) BY <1>6 DEF Tick
  <2>2. Working(e)
    <3>1. call'[e].pc = call[e].pc BY <1>1, <2>1 DEF Elapse, CallRecord
    <3>. QED BY <1>3, <3>1 DEF Working
  <2>3. SecondsLeft(call'[e]) = SecondsLeft(call[e]) - 1
    BY <1>1, <1>2, <1>5, <2>1, <2>2, SecondPasses
  <2>. QED BY <1>4, <1>5, <1>6, <2>2, <2>3
<1>7. ASSUME ~Tick,
             ~Working(e) =>
               SecondsLeft(call'[e]) <= Len(Chain[call'[e].task]) * WorstOfModel,
             Working(e) => SecondsLeft(call'[e]) <= SecondsLeft(call[e])
      PROVE  /\ SecondsLeft(call'[e]) >= 0
             /\ ~Working(e) =>
                  SecondsLeft(call'[e]) <= Len(Chain[call'[e].task]) * WorstOfModel
             /\ Working(e) =>
                  SecondsLeft(call'[e]) <= SecondsLeft(call[e]) - IF Tick THEN 1 ELSE 0
  BY <1>4, <1>5, <1>7
<1>8. ASSUME call'[e] = call[e]
      PROVE  /\ ~Working(e) =>
                  SecondsLeft(call'[e]) <= Len(Chain[call'[e].task]) * WorstOfModel
             /\ Working(e) => SecondsLeft(call'[e]) <= SecondsLeft(call[e])
  <2>1. Working(e) BY <1>3, <1>8 DEF Working
  <2>. QED BY <1>5, <1>8, <2>1
<1>9. ASSUME NEW k \in Complexity, NEW j \in 1..Len(Chain[k]), call'[e] = Calling(k, j, 0)
      PROVE  SecondsLeft(call'[e]) <= Len(Chain[call'[e].task]) * WorstOfModel
  <2>. DEFINE n == Len(Chain[k])
              x == n - (j - 1)
  <2>1. n \in Nat /\ WorstOfModel \in Nat BY ChainAssumption, WorstNat
  <2>2. x \in Int /\ x <= n BY <2>1
  <2>3. SecondsLeft(call'[e]) = x * WorstOfModel BY <1>9, FirstAttempt
  <2>4. call'[e].task = k BY <1>9 DEF Calling
  <2>. HIDE DEF n, x
  <2>5. x * WorstOfModel <= n * WorstOfModel BY <2>1, <2>2, ProductGrows
  <2>. QED BY <2>3, <2>4, <2>5 DEF n
<1>10. ASSUME NEW c \in Caller, NEW k \in Complexity, Complete(c, k)
       PROVE  /\ ~Working(e) =>
                   SecondsLeft(call'[e]) <= Len(Chain[call'[e].task]) * WorstOfModel
              /\ Working(e) => SecondsLeft(call'[e]) <= SecondsLeft(call[e])
  <2>1. TryFrom(c, k, 1, failures, opened_at) /\ ~Working(c) BY <1>10 DEF Complete
  <2>2. CASE c # e
    <3>1. call'[e] = call[e] BY <1>1, <2>1, <2>2 DEF TryFrom
    <3>. QED BY <1>8, <3>1
  <2>3. CASE c = e
    <3>1. PICK j \in 1..Len(Chain[k]) : call'[e] = Calling(k, j, 0)
      BY <1>1, <2>1, <2>3, WalkStops
    <3>. QED BY <1>9, <2>1, <2>3, <3>1
  <2>. QED BY <2>2, <2>3
<1>11. ASSUME NEW c \in Caller, Answer(c) \/ Cancel(c) PROVE call'[e] = call[e]
  <2>1. CASE c # e BY <1>1, <1>11, <2>1 DEF Answer, Cancel
  <2>2. CASE c = e
    <3>1. call'[e].pc \in {"ok", "cancelled"}
      BY <1>1, <1>11, <2>2 DEF Answer, Cancel, Finished
    <3>. QED BY <1>3, <3>1
  <2>. QED BY <2>1, <2>2
<1>12. ASSUME NEW c \in Caller, Wake(c)
       PROVE  /\ ~Working(e) =>
                   SecondsLeft(call'[e]) <= Len(Chain[call'[e].task]) * WorstOfModel
              /\ Working(e) => SecondsLeft(call'[e]) <= SecondsLeft(call[e])
  <2>1. CASE c # e
    <3>1. call'[e] = call[e] BY <1>1, <1>12, <2>1 DEF Wake
    <3>. QED BY <1>8, <3>1
  <2>2. CASE c = e
    <3>1. Working(e) /\ call[e].pc = "backoff" /\ call[e].timer = 0
      BY <1>12, <2>2 DEF Wake, Working
    <3>2. call'[e] = Calling(call[e].task, call[e].pos, call[e].attempt + 1)
      BY <1>1, <1>12, <2>2 DEF Wake, NextAttempt
    <3>3. /\ call'[e].pc = "calling" /\ call'[e].task = call[e].task
          /\ call'[e].pos = call[e].pos /\ call'[e].attempt = call[e].attempt + 1
          /\ call'[e].timer = 0
      BY <3>2 DEF Calling
    <3>. QED BY <1>1, <1>2, <3>1, <3>3, BetweenAttempts
  <2>. QED BY <2>1, <2>2
<1>13. ASSUME NEW c \in Caller, Fail(c)
       PROVE  /\ ~Working(e) =>
                   SecondsLeft(call'[e]) <= Len(Chain[call'[e].task]) * WorstOfModel
              /\ Working(e) => SecondsLeft(call'[e]) <= SecondsLeft(call[e])
  <2>1. CASE c # e
    <3>1. call'[e] = call[e] BY <1>1, <1>13, <2>1 DEF Fail, TryFrom
    <3>. QED BY <1>8, <3>1
  <2>2. ASSUME c = e,
               call' = [call EXCEPT ![c].pc = "backoff",
                                    ![c].timer = Backoff(call[c].attempt)]
        PROVE  Working(e) /\ SecondsLeft(call'[e]) <= SecondsLeft(call[e])
    <3>1. Working(e) /\ call[e].pc = "calling" BY <1>13, <2>2 DEF Fail, Working
    <3>2. /\ call'[e].pc = "backoff" /\ call'[e].task = call[e].task
          /\ call'[e].pos = call[e].pos /\ call'[e].attempt = call[e].attempt
          /\ call'[e].timer = Backoff(call[e].attempt)
      BY <1>1, <2>2 DEF CallRecord
    <3>. QED BY <1>1, <1>2, <3>1, <3>2, BetweenAttempts
  <2>3. ASSUME c = e, NEW f, NEW o, TryFrom(c, call[c].task, call[c].pos + 1, f, o)
        PROVE  Working(e) /\ SecondsLeft(call'[e]) <= SecondsLeft(call[e])
    <3>1. Working(e) BY <1>13, <2>3 DEF Fail, Working
    <3>2. call[e].task \in Complexity /\ call[e].pos + 1 \in Nat \ {0} BY <1>5, <3>1
    <3>3. PICK j \in 1..Len(Chain[call[e].task]) :
            j >= call[e].pos + 1 /\ call'[e] = Calling(call[e].task, j, 0)
      BY <1>1, <2>3, <3>2, WalkStops
    <3>. QED BY <1>1, <1>5, <3>1, <3>3, LaterModel
  <2>. QED BY <1>13, <2>1, <2>2, <2>3 DEF Fail
<1>14. ASSUME UNCHANGED vars PROVE call'[e] = call[e] BY <1>14 DEF vars
<1>. QED BY <1>6, <1>7, <1>8, <1>10, <1>11, <1>12, <1>13, <1>14 DEF Next

\* A complete() ends within the worst of each model of its chain, however the
\* coroutines interleave and whatever the models do: every second it is given is
\* taken from a budget that nothing refills.
THEOREM BudgetKept == Spec => WithinBudget
<1>1. TypeOK /\ [Next]_vars =>
        [\A c \in Caller : Working(c)' =>
           /\ SecondsLeft(call'[c]) >= 0
           /\ ~Working(c) =>
                SecondsLeft(call'[c]) <= Len(Chain[call'[c].task]) * WorstOfModel
           /\ Working(c) =>
                SecondsLeft(call'[c]) <= SecondsLeft(call[c]) - IF Tick THEN 1 ELSE 0]_vars
  BY BudgetStep
<1>. QED BY <1>1, TypeCorrect, PTL DEF Spec, WithinBudget
================================================================================

------------------------------ MODULE ModelRouter ------------------------------
(***************************************************************************)
(* vills/core/model_router.py: concurrent coroutines call complete(), each *)
(* walks the chain of its task's models, and all of them share one circuit *)
(* breaker per model.  A step is what the event loop runs between two      *)
(* awaits.  Time is counted in seconds; an age that only matters up to a   *)
(* threshold is kept up to that threshold, which makes the model finite    *)
(* without a bound on the length of a behaviour.                           *)
(***************************************************************************)
EXTENDS Integers, Sequences, FiniteSets

CONSTANTS
  Model, Complexity, Caller,  \* model names, task complexities, coroutines
  Chain,                      \* MODEL_CHAINS: complexity -> sequence of models
  MaxRetries, FailureThreshold, RecoverySeconds, RequestTimeout,
  Reliable,                   \* models assumed to answer every call in time
  None

ASSUME ChainAssumption ==
  /\ Chain \in [Complexity -> Seq(Model)]
  /\ \A k \in Complexity : \A i, j \in 1..Len(Chain[k]) :
       Chain[k][i] = Chain[k][j] => i = j

ASSUME ParameterAssumption ==
  /\ MaxRetries \in Nat
  /\ FailureThreshold \in Nat \ {0}
  /\ RecoverySeconds \in Nat
  /\ RequestTimeout \in Nat \ {0}
  /\ Reliable \subseteq Model
  /\ None \notin Nat

ASSUME CallerAssumption == IsFiniteSet(Caller)

VARIABLES
  failures,   \* model -> _BreakerState.failures
  opened_at,  \* model -> None, or the seconds since _BreakerState.opened_at
  call        \* caller -> the progress of its complete()

vars == <<failures, opened_at, call>>

Outcome == {"idle", "ok", "error", "cancelled"}

\* A coroutine with no complete() in progress: how the last one ended.
Finished(how, k) ==
  [pc |-> how, task |-> k, pos |-> 0, attempt |-> 0, timer |-> 0]

\* Awaiting messages.create on model number j of the chain.
Calling(k, j, a) ==
  [pc |-> "calling", task |-> k, pos |-> j, attempt |-> a, timer |-> 0]

Working(c) == call[c].pc \in {"calling", "backoff"}
CurrentModel(c) == Chain[call[c].task][call[c].pos]

--------------------------------------------------------------------------------
\* asyncio.sleep(min(2**attempt, 8)).
Backoff(a) == <<1, 2, 4, 8>>[IF a < 3 THEN a + 1 ELSE 4]

MutRetries(a) == a <= MaxRetries
Retries(a) == a < MaxRetries

\* _record_failure opens the breaker once this holds of the new count.
MutTrips(n) == n > FailureThreshold
Trips(n) == n >= FailureThreshold

\* _is_open, before its side effect: since is the breaker's opened_at.
MutNeverRecovers(since) == since # None
IsOpen(since) == since # None /\ since < RecoverySeconds

\* The chain positions from i on whose model the loop would not skip.
MutFirstOnly(k, i, o) ==
  {j \in i..Len(Chain[k]) : j = i /\ ~IsOpen(o[Chain[k][j]])}
Admissible(k, i, o) == {j \in i..Len(Chain[k]) : ~IsOpen(o[Chain[k][j]])}

(***************************************************************************)
(* "for model in chain" resumed at position i with breakers f and o: skip  *)
(* the open ones, reset the breaker whose window has passed (_is_open) and *)
(* start calling its model, or raise CircuitOpenError at the end.          *)
(***************************************************************************)
TryFrom(c, k, i, f, o) ==
  \/ /\ Admissible(k, i, o) = {}
     /\ failures' = f
     /\ opened_at' = o
     /\ call' = [call EXCEPT ![c] = Finished("error", k)]
  \/ \E j \in Admissible(k, i, o) :
       /\ \A other \in Admissible(k, i, o) : j <= other
       /\ LET m == Chain[k][j]
          IN  /\ failures' = [f EXCEPT ![m] = IF o[m] = None THEN @ ELSE 0]
              /\ opened_at' = [o EXCEPT ![m] = None]
       /\ call' = [call EXCEPT ![c] = Calling(k, j, 0)]

--------------------------------------------------------------------------------
Init ==
  /\ failures = [m \in Model |-> 0]
  /\ opened_at = [m \in Model |-> None]
  /\ call \in [Caller -> {Finished("idle", k) : k \in Complexity}]

\* complete(complexity, ...) runs up to its first await, or raises.
Complete(c, k) ==
  /\ ~Working(c)
  /\ TryFrom(c, k, 1, failures, opened_at)

\* The model answers: _record_success and return.
Answer(c) ==
  /\ call[c].pc = "calling"
  /\ failures' = [failures EXCEPT ![CurrentModel(c)] = 0]
  /\ opened_at' = [opened_at EXCEPT ![CurrentModel(c)] = None]
  /\ call' = [call EXCEPT ![c] = Finished("ok", @.task)]

\* The call raises or times out: _record_failure, then the back-off of the
\* next attempt or the next model of the chain.
Fail(c) ==
  /\ call[c].pc = "calling"
  /\ CurrentModel(c) \notin Reliable
  /\ LET m == CurrentModel(c)
         f == [failures EXCEPT ![m] = @ + 1]
         o == [opened_at EXCEPT ![m] = IF Trips(f[m]) THEN 0 ELSE @]
     IN  \/ /\ Retries(call[c].attempt)
            /\ failures' = f
            /\ opened_at' = o
            /\ call' = [call EXCEPT ![c].pc = "backoff",
                                    ![c].timer = Backoff(call[c].attempt)]
         \/ /\ ~Retries(call[c].attempt)
            /\ TryFrom(c, call[c].task, call[c].pos + 1, f, o)

\* The back-off ends: the next attempt starts, whatever the breaker says now.
MutSameAttempt(a) == a
NextAttempt(a) == a + 1

Wake(c) ==
  /\ call[c].pc = "backoff"
  /\ call[c].timer = 0
  /\ call' = [call EXCEPT
                ![c] = Calling(@.task, @.pos, NextAttempt(@.attempt))]
  /\ UNCHANGED <<failures, opened_at>>

\* The task that runs complete() is cancelled: CancelledError is no Exception,
\* so the breaker learns nothing.
Cancel(c) ==
  /\ Working(c)
  /\ call' = [call EXCEPT ![c] = Finished("cancelled", @.task)]
  /\ UNCHANGED <<failures, opened_at>>

\* A second passes.  asyncio.timeout ends a call at its deadline and a sleep
\* ends when due, so time does not pass either; ages stop at RecoverySeconds,
\* from where on they make no difference.
Elapse(call_) ==
  IF call_.pc = "calling" THEN [call_ EXCEPT !.timer = @ + 1]
  ELSE IF call_.pc = "backoff" THEN [call_ EXCEPT !.timer = @ - 1]
  ELSE call_

Tick ==
  /\ \A c \in Caller :
       /\ call[c].pc = "calling" => call[c].timer < RequestTimeout
       /\ call[c].pc = "backoff" => call[c].timer > 0
  /\ call' = [c \in Caller |-> Elapse(call[c])]
  /\ opened_at' = [m \in Model |->
                     IF opened_at[m] # None /\ opened_at[m] < RecoverySeconds
                     THEN opened_at[m] + 1 ELSE opened_at[m]]
  /\ UNCHANGED failures

Next ==
  \/ Tick
  \/ \E c \in Caller :
       \/ \E k \in Complexity : Complete(c, k)
       \/ Answer(c) \/ Fail(c) \/ Wake(c) \/ Cancel(c)

Spec == Init /\ [][Next]_vars

(***************************************************************************)
(* The event loop runs what is due, a call ends by an answer, an error or  *)
(* its timeout, and time goes on.  No request has to arrive.               *)
(***************************************************************************)
FairSpec ==
  /\ Spec
  /\ WF_vars(Tick)
  /\ \A c \in Caller : WF_vars(Answer(c) \/ Fail(c)) /\ WF_vars(Wake(c))

\* Every kind of task keeps being requested.
BusySpec ==
  /\ FairSpec
  /\ \A k \in Complexity : SF_vars(\E c \in Caller : Complete(c, k))

--------------------------------------------------------------------------------
\* Properties.

Visitors(m) == {c \in Caller : Working(c) /\ CurrentModel(c) = m}

\* Every variable keeps its type: attempts, timers and ages stay in range.
TypeOK ==
  /\ failures \in [Model -> Nat]
  /\ opened_at \in [Model -> 0..RecoverySeconds \cup {None}]
  /\ call \in [Caller ->
       [pc : {"calling", "backoff"} \cup Outcome, task : Complexity,
        pos : Nat, attempt : 0..MaxRetries, timer : Nat]]
  /\ \A c \in Caller : Working(c) =>
       /\ call[c].pos \in 1..Len(Chain[call[c].task])
       /\ call[c].timer <= IF call[c].pc = "calling" THEN RequestTimeout ELSE 8
       /\ call[c].pc = "backoff" => call[c].attempt < MaxRetries

\* The two fields of _BreakerState agree at every await, whichever coroutine
\* wrote them last: the breaker is open exactly while its count has reached
\* the threshold.
BreakerConsistent ==
  \A m \in Model : opened_at[m] # None <=> failures[m] >= FailureThreshold

\* Sharing takes nothing from it: however the coroutines walk their chains and
\* overtake one another, each model's breaker behaves as one that is alone.
Out(m) == {c \in Visitors(m) : call[c].pc = "calling"}
Breaker(m) == INSTANCE CircuitBreaker WITH
  Threshold <- FailureThreshold, Window <- RecoverySeconds,
  count <- failures[m], since <- opened_at[m], inside <- Visitors(m), out <- Out(m)
ImplementsBreakers ==
  /\ \A m \in Model : Breaker(m)!Init
  /\ [][\A m \in Model : Breaker(m)!Step]_vars

\* What is left of a complete() only shrinks: it goes on to a later model of its
\* chain, to a later attempt, from the call to its back-off, or towards the end
\* of either.
Later(r, s) ==
  \/ s.pos > r.pos
  \/ s.pos = r.pos /\ s.attempt > r.attempt
  \/ s.pos = r.pos /\ s.attempt = r.attempt /\ r.pc = "calling" /\ s.pc = "backoff"
  \/ /\ s.pos = r.pos /\ s.attempt = r.attempt /\ s.pc = r.pc
     /\ IF r.pc = "calling" THEN s.timer > r.timer ELSE s.timer < r.timer
MovesForward ==
  [][\A c \in Caller : Working(c) /\ Working(c)' /\ call'[c] # call[c] =>
       call'[c].task = call[c].task /\ Later(call[c], call'[c])]_vars

\* How long a complete() may still take: every model after this one at its worst,
\* the attempts that are left on this one with the back-offs between them, and
\* the rest of the call or of the back-off that it is in.
Waits(a) == IF a < 3 THEN <<0, 1, 3>>[a + 1] ELSE 8 * a - 17  \* before attempt a
WorstOfModel == (MaxRetries + 1) * RequestTimeout + Waits(MaxRetries)
SecondsLeft(r) ==
  (Len(Chain[r.task]) - r.pos) * WorstOfModel
    + (MaxRetries - r.attempt) * RequestTimeout + Waits(MaxRetries)
    + IF r.pc = "calling" THEN RequestTimeout - r.timer - Waits(r.attempt)
                          ELSE r.timer - Waits(r.attempt + 1)

\* A complete() has so many seconds and no more, the worst of each model of its
\* chain: every second that passes is taken from them, whatever it does, and no
\* error, retry or change of model ever gives it one back.
WithinBudget ==
  [][\A c \in Caller : Working(c)' =>
       /\ SecondsLeft(call'[c]) >= 0
       /\ ~Working(c) => SecondsLeft(call'[c]) <= Len(Chain[call'[c].task]) * WorstOfModel
       /\ Working(c) => SecondsLeft(call'[c]) <= SecondsLeft(call[c]) - IF Tick THEN 1 ELSE 0
    ]_vars

\* A breaker may overshoot its threshold, since complete() asks _is_open once
\* per model and not once per attempt, but only by the attempts of the
\* coroutines that were already inside when it opened.
OvershootBound ==
  \A m \in Model :
    failures[m] <= FailureThreshold - 1 + Cardinality(Caller) * (MaxRetries + 1)

\* The fallback works: while one model of a chain answers every call, complete()
\* on that chain never raises CircuitOpenError, whatever the other models do
\* and whatever the other coroutines have recorded on the shared breakers.
ReliableChainNeverFails ==
  \A c \in Caller : call[c].pc = "error" =>
    \A j \in 1..Len(Chain[call[c].task]) : Chain[call[c].task][j] \notin Reliable

\* While a breaker's window runs, nobody turns to its model: the coroutines
\* that are on it can only leave.
OpenModelGetsNoVisitor ==
  [][\A m \in Model :
       opened_at[m] # None /\ opened_at[m] < RecoverySeconds
         => Visitors(m)' \subseteq Visitors(m)]_vars

\* A breaker closes only after its whole window or because its model answered
\* one of the calls that were out; and it forgets failures only in these ways.
ForgetsOnlyOnProof ==
  [][\A m \in Model :
       failures'[m] < failures[m] =>
         \/ opened_at[m] = RecoverySeconds
         \/ \E c \in Visitors(m) : call[c].pc = "calling" /\ call'[c].pc = "ok"]_vars

\* Every complete() ends: retries, fallback and skipping are bounded.
Terminates == \A c \in Caller : Working(c) ~> ~Working(c)

\* No breaker stays open for ever while requests for every task arrive: late
\* failures push the window only finitely often.
Recovers == \A m \in Model : opened_at[m] # None ~> opened_at[m] = None
================================================================================

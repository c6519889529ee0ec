----------------------------- MODULE LifecycleProofs -----------------------------
(***************************************************************************)
(* Theorems about Lifecycle for any number of coroutines, any pool and any *)
(* timeout.  The safety properties of the run hold of Spec, without the    *)
(* fairness; ProbeAnswers is left to TLC.                                  *)
(***************************************************************************)
EXTENDS Lifecycle, FiniteSetTheorems, TLAPS

At == Resting \cup {"connect", "select", "redis", "session"}
Progress == [at : At, on : Nat, age : 0..PingTimeout, holds : BOOLEAN,
             db : BOOLEAN, troubled : BOOLEAN]

\* The types of the globals, and of everything else.
GlobalsTyped ==
  /\ handle \in [Store -> Nat \cup {None}]
  /\ sessionmaker \in Nat \cup {None}
  /\ made \in [Store -> Nat]
  /\ open \in [Store -> SUBSET Nat]
  /\ \A s \in Store : open[s] \subseteq 1..made[s]
LifespanTyped ==
  lifespan \in [at : {"off", "serving", "failed"} \cup Store,
                releasing : Nat \cup {None}, owed : [Store -> SUBSET Nat]]
OutageTyped == outage \in [Store -> 0..(PingTimeout + 1) \cup {None}]
TasksTyped ==
  /\ task \in [Task -> Progress]
  /\ \A t \in Task : task[t].holds => task[t].at \in {"select", "session"}
Typed == GlobalsTyped /\ LifespanTyped /\ OutageTyped /\ TasksTyped

\* What is being released is what the global still points at: nobody replaces
\* a global that is not None.
ReleasesTheGlobal ==
  lifespan.at \in Store =>
    handle[lifespan.at] # None /\ lifespan.releasing = handle[lifespan.at]

Sound == Typed /\ GlobalsAreWhatIsOpen /\ ReleasesTheGlobal

LEMMA TypedIsTypeOK == Typed => TypeOK
BY DEF Typed, GlobalsTyped, LifespanTyped, OutageTyped, TasksTyped, TypeOK, Progress, At

--------------------------------------------------------------------------------
\* The globals after an initialisation: nothing that is there is replaced.
Kept ==
  \A s \in Store :
    /\ handle[s] # None => handle'[s] = handle[s]
    /\ made'[s] >= made[s]
    /\ open[s] \subseteq open'[s]
    /\ open'[s] \subseteq open[s] \cup {made[s] + 1}
Present(S) == \A s \in S : handle'[s] # None /\ handle'[s] = Get(s) /\ Get(s) \in open'[s]

LEMMA InitializeGlobals ==
  ASSUME GlobalsTyped, GlobalsAreWhatIsOpen, NEW S \in SUBSET Store, Initialize(S)
  PROVE  GlobalsTyped' /\ GlobalsAreWhatIsOpen' /\ Kept /\ Present(S)
<1>. USE LifecycleAssumption
<1>. DEFINE fresh == {s \in S : Get(s) # handle[s]}
<1>1. \A s \in Store : /\ Get(s) \in Nat /\ Get(s) # None
                       /\ Get(s) = handle[s] \/ Get(s) = made[s] + 1
                       /\ Get(s) # handle[s] <=> handle[s] = None
  BY DEF GlobalsTyped, Get
<1>2. \A s \in Store : s \in fresh <=> s \in S /\ handle[s] = None
  BY <1>1
<1>3. /\ handle' = [s \in Store |-> IF s \in fresh THEN Get(s) ELSE handle[s]]
      /\ made' = [s \in Store |-> IF s \in fresh THEN made[s] + 1 ELSE made[s]]
      /\ open' = [s \in Store |->
                    IF s \in fresh THEN open[s] \cup {Get(s)} ELSE open[s]]
      /\ sessionmaker' = IF "database" \in fresh THEN Get("database") ELSE sessionmaker
  BY DEF Initialize
<1>. HIDE DEF fresh
<1>4. \A s \in Store : handle[s] = None => open[s] = {} /\ Get(s) = made[s] + 1
  BY DEF GlobalsAreWhatIsOpen, Get
<1>5. GlobalsTyped'
  <2>1. \A s \in Store : open'[s] \subseteq 1..made'[s]
    BY <1>1, <1>2, <1>3, <1>4 DEF GlobalsTyped
  <2>2. /\ handle' \in [Store -> Nat \cup {None}]
        /\ made' \in [Store -> Nat]
        /\ open' \in [Store -> SUBSET Nat]
    BY <1>1, <1>3 DEF GlobalsTyped
  <2>3. sessionmaker' \in Nat \cup {None}
    BY <1>1, <1>3 DEF GlobalsTyped, Store
  <2>. QED BY <2>1, <2>2, <2>3 DEF GlobalsTyped
<1>6. GlobalsAreWhatIsOpen'
  <2>1. \A s \in Store : open'[s] = {handle'[s]} \ {None}
    BY <1>1, <1>2, <1>3, <1>4 DEF GlobalsAreWhatIsOpen
  <2>2. sessionmaker' = handle'["database"]
    BY <1>3 DEF GlobalsAreWhatIsOpen, Store
  <2>. QED BY <2>1, <2>2 DEF GlobalsAreWhatIsOpen
<1>7. Kept
  <2>1. \A s \in Store : handle[s] # None => handle'[s] = handle[s]
    BY <1>2, <1>3
  <2>2. \A s \in Store : made'[s] >= made[s]
    BY <1>3 DEF GlobalsTyped
  <2>3. \A s \in Store : /\ open[s] \subseteq open'[s]
                         /\ open'[s] \subseteq open[s] \cup {made[s] + 1}
    BY <1>2, <1>3, <1>4
  <2>. QED BY <2>1, <2>2, <2>3 DEF Kept
<1>8. Present(S)
  <2>. SUFFICES ASSUME NEW s \in S PROVE /\ handle'[s] # None /\ handle'[s] = Get(s)
                                        /\ Get(s) \in open'[s]
    BY DEF Present
  <2>1. CASE handle[s] = None BY <2>1, <1>1, <1>2, <1>3
  <2>2. CASE handle[s] # None
    <3>1. handle'[s] = handle[s] /\ open'[s] = open[s] BY <2>2, <1>2, <1>3
    <3>2. handle[s] \in open[s] BY <2>2 DEF GlobalsAreWhatIsOpen
    <3>. QED BY <3>1, <3>2, <2>2, <1>1
  <2>. QED BY <2>1, <2>2
<1>. QED BY <1>5, <1>6, <1>7, <1>8

--------------------------------------------------------------------------------
\* The tasks and the lifespan keep their types, whatever the globals do.

LEMMA NotingTyped ==
  ASSUME TasksTyped, NEW T
  PROVE  /\ Noting(T) \in [Task -> Progress]
         /\ \A t \in Task : Noting(T)[t].holds => Noting(T)[t].at \in {"select", "session"}
BY DEF TasksTyped, Noting, Progress

LEMMA ReleaseTyped ==
  ASSUME GlobalsTyped, TasksTyped, NEW S \in SUBSET Store,
         NEW owed \in [Store -> SUBSET Nat], Release(S, owed)
  PROVE  /\ LifespanTyped' /\ TasksTyped'
         /\ lifespan'.at \in Store =>
              /\ lifespan'.at \in S /\ handle[lifespan'.at] # None
              /\ lifespan'.releasing = handle[lifespan'.at]
<1>. DEFINE next == IF "database" \in Pending(S) THEN "database" ELSE "redis"
<1>1. Pending(S) \subseteq S /\ \A s \in Pending(S) : handle[s] # None
  BY DEF Pending
<1>2. TasksTyped'
  BY NotingTyped DEF Release, TasksTyped
<1>3. CASE Pending(S) = {}
  <2>1. lifespan' = Between("off") BY <1>3 DEF Release
  <2>. QED BY <2>1, <1>2 DEF Between, LifespanTyped, Store
<1>4. CASE Pending(S) # {}
  <2>1. next \in Pending(S) BY <1>1, <1>4 DEF Store
  <2>2. lifespan' = [at |-> next, releasing |-> handle[next], owed |-> owed]
    BY <1>4 DEF Release
  <2>3. next \in Store /\ handle[next] \in Nat \cup {None}
    BY <2>1, <1>1 DEF GlobalsTyped
  <2>. QED BY <2>1, <2>2, <2>3, <1>1, <1>2 DEF LifespanTyped
<1>. QED BY <1>3, <1>4

LEMMA PingTyped ==
  ASSUME GlobalsTyped, NEW s \in Store, NEW at \in {"connect", "redis"}, NEW db \in BOOLEAN
  PROVE  /\ Ping(s, at, db) \in Progress
         /\ ~Ping(s, at, db).holds
<1>1. Get(s) \in Nat BY DEF Get, GlobalsTyped
<1>2. 0 \in 0..PingTimeout BY LifecycleAssumption
<1>. DEFINE trouble == \/ outage[s] # None
                       \/ s = "database" /\ ~(Cardinality(Holders(Get(s))) < PoolLimit)
                       \/ s = "redis" /\ lifespan.at = s /\ Get(s) = lifespan.releasing
<1>3. Ping(s, at, db) = [at |-> at, on |-> Get(s), age |-> 0, holds |-> FALSE, db |-> db,
                         troubled |-> trouble]
  BY DEF Ping
<1>4. trouble \in BOOLEAN OBVIOUS
<1>. HIDE DEF trouble
<1>. QED BY <1>1, <1>2, <1>3, <1>4 DEF Progress, At

LEMMA PingFields ==
  ASSUME NEW s, NEW at, NEW db
  PROVE  /\ Ping(s, at, db).at = at /\ Ping(s, at, db).on = Get(s)
         /\ Ping(s, at, db).db = db /\ Ping(s, at, db).age = 0
         /\ ~Ping(s, at, db).holds
         /\ Ping(s, at, db).troubled <=>
              \/ outage[s] # None
              \/ s = "database" /\ ~(Cardinality(Holders(Get(s))) < PoolLimit)
              \/ s = "redis" /\ lifespan.at = s /\ Get(s) = lifespan.releasing
<1>. DEFINE trouble == \/ outage[s] # None
                       \/ s = "database" /\ ~(Cardinality(Holders(Get(s))) < PoolLimit)
                       \/ s = "redis" /\ lifespan.at = s /\ Get(s) = lifespan.releasing
<1>1. Ping(s, at, db) = [at |-> at, on |-> Get(s), age |-> 0, holds |-> FALSE, db |-> db,
                         troubled |-> trouble]
  BY DEF Ping
<1>. HIDE DEF trouble
<1>2. /\ Ping(s, at, db).at = at /\ Ping(s, at, db).on = Get(s)
      /\ Ping(s, at, db).db = db /\ Ping(s, at, db).age = 0
      /\ ~Ping(s, at, db).holds
      /\ Ping(s, at, db).troubled = trouble
  BY <1>1
<1>. QED BY <1>2 DEF trouble

\* A task whose ping of s has just begun.
Begins(t, s) ==
  /\ task'[t].on = Get(s) /\ task'[t].age = 0 /\ ~task'[t].holds
  /\ task'[t].troubled <=>
       \/ outage[s] # None
       \/ s = "database" /\ ~(Cardinality(Holders(Get(s))) < PoolLimit)
       \/ s = "redis" /\ lifespan.at = s /\ Get(s) = lifespan.releasing

LEMMA ProbeTask ==
  ASSUME TasksTyped, NEW t \in Task, Probe(t)
  PROVE  Begins(t, "database") /\ task'[t].at = "connect" /\ ~task'[t].db
<1>. DEFINE p == Ping("database", "connect", FALSE)
<1>1. task'[t] = p BY DEF Probe, TasksTyped
<1>2. \A db \in BOOLEAN :
        LET q == Ping("database", "connect", db)
        IN  /\ q.at = "connect" /\ q.on = Get("database") /\ q.db = db /\ q.age = 0
            /\ ~q.holds
            /\ q.troubled <=>
                 \/ outage["database"] # None
                 \/ ~(Cardinality(Holders(Get("database"))) < PoolLimit)
  BY PingFields
<1>. QED BY <1>1, <1>2 DEF Begins

LEMMA PingRedisTask ==
  ASSUME TasksTyped, NEW t \in Task, NEW db \in BOOLEAN, PingRedis(t, db)
  PROVE  Begins(t, "redis") /\ task'[t].at = "redis" /\ task'[t].db = db
<1>. DEFINE p == Ping("redis", "redis", db)
<1>1. task'[t] = p BY DEF PingRedis, TasksTyped
<1>2. /\ p.at = "redis" /\ p.on = Get("redis") /\ p.db = db /\ p.age = 0
      /\ ~p.holds
      /\ p.troubled <=>
           \/ outage["redis"] # None
           \/ lifespan.at = "redis" /\ Get("redis") = lifespan.releasing
  BY PingFields
<1>. HIDE DEF p
<1>. QED BY <1>1, <1>2 DEF Begins

LEMMA RestTyped ==
  ASSUME NEW at \in Resting \cup {"session"}
  PROVE  Rest(at) \in Progress /\ ~Rest(at).holds /\ Rest(at).at = at
BY LifecycleAssumption DEF Rest, Progress, At

\* One task changes, to something of the right type.
LEMMA OneTaskTyped ==
  ASSUME TasksTyped, NEW t \in Task, NEW p \in Progress,
         p.holds => p.at \in {"select", "session"},
         task' = [task EXCEPT ![t] = p]
  PROVE  TasksTyped'
BY DEF TasksTyped

LEMMA PingRedisTyped ==
  ASSUME Typed, GlobalsAreWhatIsOpen, NEW t \in Task, NEW db \in BOOLEAN, PingRedis(t, db)
  PROVE  Typed' /\ GlobalsAreWhatIsOpen' /\ Kept
<1>1. GlobalsTyped' /\ GlobalsAreWhatIsOpen' /\ Kept
  BY InitializeGlobals DEF PingRedis, Typed, Store
<1>2. TasksTyped'
  BY PingTyped, OneTaskTyped DEF PingRedis, Typed, Store
<1>3. LifespanTyped' /\ OutageTyped'
  BY DEF PingRedis, Typed, LifespanTyped, OutageTyped
<1>. QED BY <1>1, <1>2, <1>3 DEF Typed

LEMMA CheckOutTyped ==
  ASSUME TasksTyped, NEW t \in Task, NEW at \in {"select", "session"}, CheckOut(t, at)
  PROVE  TasksTyped'
<1>1. PICK T : task' = [Noting(T) EXCEPT ![t].at = at, ![t].holds = TRUE]
  BY DEF CheckOut
<1>. DEFINE n == Noting(T)
<1>2. /\ n \in [Task -> Progress]
      /\ \A u \in Task : n[u].holds => n[u].at \in {"select", "session"}
  BY NotingTyped
<1>3. task' = [n EXCEPT ![t] = [n[t] EXCEPT !.at = at, !.holds = TRUE]]
  BY <1>1
<1>. HIDE DEF n
<1>4. n[t] \in Progress BY <1>2
<1>5. /\ [n[t] EXCEPT !.at = at, !.holds = TRUE] \in Progress
      /\ [n[t] EXCEPT !.at = at, !.holds = TRUE].at = at
  BY <1>4 DEF Progress, At
<1>. QED BY <1>2, <1>3, <1>5 DEF TasksTyped

--------------------------------------------------------------------------------
\* The invariant of the globals.

LEMMA SoundInit == Init => Sound
<1>. SUFFICES ASSUME Init PROVE Sound OBVIOUS
<1>1. Rest("idle") \in Progress /\ ~Rest("idle").holds BY RestTyped DEF Resting
<1>2. TasksTyped BY <1>1 DEF Init, TasksTyped
<1>3. GlobalsTyped /\ OutageTyped BY DEF Init, GlobalsTyped, OutageTyped, Store
<1>4. LifespanTyped BY DEF Init, LifespanTyped, Between
<1>5. GlobalsAreWhatIsOpen BY DEF Init, GlobalsAreWhatIsOpen, Store
<1>6. ReleasesTheGlobal BY DEF Init, ReleasesTheGlobal, Between, Store
<1>. QED BY <1>2, <1>3, <1>4, <1>5, <1>6 DEF Sound, Typed

\* What is being released stays so while others initialise.
LEMMA StillReleased ==
  ASSUME LifespanTyped, ReleasesTheGlobal, Kept, UNCHANGED lifespan
  PROVE  ReleasesTheGlobal'
BY DEF ReleasesTheGlobal, Kept, LifespanTyped

\* Steps that only one task takes, and that at most initialise.
LEMMA TaskSound ==
  ASSUME Sound, NEW t \in Task,
         \/ Probe(t) \/ PingStep(t) \/ OpenSession(t) \/ Statement(t) \/ CloseSession(t)
  PROVE  /\ Sound'
         /\ UNCHANGED <<lifespan, outage>>
         /\ Kept
<1>. USE DEF Sound, Typed
<1>. DEFINE Frame == UNCHANGED <<handle, sessionmaker, made, open, lifespan, outage>>
<1>1. Frame /\ TasksTyped' =>
        Sound' /\ UNCHANGED <<lifespan, outage>> /\ Kept
  <2>. SUFFICES ASSUME Frame, TasksTyped'
                PROVE  Sound' /\ UNCHANGED <<lifespan, outage>> /\ Kept
    OBVIOUS
  <2>1. GlobalsTyped' BY DEF GlobalsTyped
  <2>2. LifespanTyped' /\ OutageTyped' BY DEF LifespanTyped, OutageTyped
  <2>3. GlobalsAreWhatIsOpen' BY DEF GlobalsAreWhatIsOpen
  <2>4. ReleasesTheGlobal' BY DEF ReleasesTheGlobal
  <2>5. Kept BY DEF Kept, GlobalsTyped
  <2>. QED BY <2>1, <2>2, <2>3, <2>4, <2>5
<1>2. CASE Probe(t)
  <2>1. GlobalsTyped' /\ GlobalsAreWhatIsOpen' /\ Kept
    BY <1>2, InitializeGlobals DEF Probe, Store
  <2>2. TasksTyped'
    BY <1>2, PingTyped, OneTaskTyped DEF Probe, Store
  <2>3. LifespanTyped' /\ OutageTyped' /\ UNCHANGED <<lifespan, outage>>
    BY <1>2 DEF Probe, LifespanTyped, OutageTyped
  <2>. QED BY <2>1, <2>2, <2>3, StillReleased
<1>3. ASSUME NEW db \in BOOLEAN, PingRedis(t, db)
      PROVE  Sound' /\ UNCHANGED <<lifespan, outage>> /\ Kept
  <2>1. Typed' /\ GlobalsAreWhatIsOpen' /\ Kept BY <1>3, PingRedisTyped
  <2>2. UNCHANGED <<lifespan, outage>> BY <1>3 DEF PingRedis
  <2>. QED BY <2>1, <2>2, StillReleased
<1>4. CASE Connect(t)
  BY <1>1, <1>4, CheckOutTyped DEF Connect
<1>5. CASE Selected(t) BY <1>3, <1>5 DEF Selected
<1>6. CASE DbPingFails(t) BY <1>3, <1>6 DEF DbPingFails
<1>7. ASSUME NEW at \in Resting, task' = [task EXCEPT ![t] = Rest(at)]
      PROVE  TasksTyped'
  BY <1>7, RestTyped, OneTaskTyped
<1>8. CASE Pong(t)
  <2>1. Verdict(task[t].db, TRUE) \in Resting BY DEF Verdict, Resting
  <2>. QED BY <1>1, <1>7, <1>8, <2>1 DEF Pong
<1>9. CASE RedisPingFails(t)
  <2>1. Verdict(task[t].db, FALSE) \in Resting BY DEF Verdict, Resting
  <2>. QED BY <1>1, <1>7, <1>9, <2>1 DEF RedisPingFails
<1>10. CASE OpenSession(t)
  <2>1. GlobalsTyped' /\ GlobalsAreWhatIsOpen' /\ Kept /\ Present({"database"})
    BY <1>10, InitializeGlobals DEF OpenSession, Store
  <2>2. sessionmaker' \in Nat
    BY <2>1 DEF Present, GlobalsAreWhatIsOpen, GlobalsTyped, Store
  <2>3. TasksTyped'
    <3>. DEFINE p == [Rest("session") EXCEPT !.on = sessionmaker']
    <3>1. p \in Progress /\ ~p.holds BY <2>2, RestTyped DEF Progress
    <3>2. task' = [task EXCEPT ![t] = p] BY <1>10 DEF OpenSession
    <3>. QED BY <3>1, <3>2 DEF TasksTyped
  <2>4. LifespanTyped' /\ OutageTyped' /\ UNCHANGED <<lifespan, outage>>
    BY <1>10 DEF OpenSession, LifespanTyped, OutageTyped
  <2>. QED BY <2>1, <2>3, <2>4, StillReleased
<1>11. CASE Statement(t)
  BY <1>1, <1>11, CheckOutTyped DEF Statement
<1>12. CASE CloseSession(t)
  BY <1>1, <1>7, <1>12 DEF CloseSession, Resting
<1>. QED BY <1>2, <1>4, <1>5, <1>6, <1>8, <1>9, <1>10, <1>11, <1>12 DEF PingStep

LEMMA ReleasedGlobals ==
  ASSUME Sound, NEW s \in Store, Released(s)
  PROVE  /\ GlobalsTyped' /\ GlobalsAreWhatIsOpen'
         /\ handle'[s] = None /\ open'[s] = {}
         /\ \A r \in Store \ {s} : handle'[r] = handle[r] /\ open'[r] = open[r]
<1>. USE DEF Sound, Typed
<1>1. open[s] = {handle[s]} \ {None} /\ lifespan.releasing = handle[s]
  BY DEF Released, ReleasesTheGlobal, GlobalsAreWhatIsOpen
<1>2. /\ open' = [open EXCEPT ![s] = @ \ {lifespan.releasing}]
      /\ handle' = [handle EXCEPT ![s] = None]
      /\ sessionmaker' = IF s = "database" THEN None ELSE sessionmaker
      /\ UNCHANGED made
  BY DEF Released
<1>3. /\ handle'[s] = None /\ open'[s] = {}
      /\ \A r \in Store \ {s} : handle'[r] = handle[r] /\ open'[r] = open[r]
  BY <1>1, <1>2 DEF GlobalsTyped
<1>4. GlobalsTyped'
  BY <1>2 DEF GlobalsTyped
<1>5. GlobalsAreWhatIsOpen'
  <2>1. \A r \in Store : open'[r] = {handle'[r]} \ {None}
    BY <1>3 DEF GlobalsAreWhatIsOpen
  <2>2. sessionmaker' = handle'["database"]
    BY <1>2, <1>3 DEF GlobalsAreWhatIsOpen, Store
  <2>. QED BY <2>1, <2>2 DEF GlobalsAreWhatIsOpen
<1>. QED BY <1>3, <1>4, <1>5

LEMMA SoundNext == Sound /\ [Next]_vars => Sound'
<1>. SUFFICES ASSUME Sound, [Next]_vars PROVE Sound' OBVIOUS
<1>. USE DEF Sound, Typed
<1>1. CASE Start
  <2>1. GlobalsTyped' /\ GlobalsAreWhatIsOpen'
    BY <1>1, InitializeGlobals DEF Start
  <2>2. TasksTyped' /\ OutageTyped' BY <1>1 DEF Start, TasksTyped, OutageTyped
  <2>3. LifespanTyped' BY <1>1 DEF Start, LifespanTyped, Between
  <2>4. ReleasesTheGlobal' BY <1>1 DEF Start, ReleasesTheGlobal, Between, Store
  <2>. QED BY <2>1, <2>2, <2>3, <2>4
<1>2. CASE Stop
  <2>1. open \in [Store -> SUBSET Nat] BY DEF GlobalsTyped
  <2>2. /\ LifespanTyped' /\ TasksTyped'
        /\ lifespan'.at \in Store =>
             /\ handle[lifespan'.at] # None
             /\ lifespan'.releasing = handle[lifespan'.at]
    BY <1>2, <2>1, ReleaseTyped DEF Stop
  <2>3. GlobalsTyped' /\ OutageTyped' /\ GlobalsAreWhatIsOpen'
    BY <1>2 DEF Stop, GlobalsTyped, OutageTyped, GlobalsAreWhatIsOpen
  <2>4. ReleasesTheGlobal' BY <1>2, <2>2 DEF Stop, ReleasesTheGlobal
  <2>. QED BY <2>2, <2>3, <2>4
<1>3. CASE ReleaseFails
  <2>1. GlobalsTyped' /\ OutageTyped' /\ TasksTyped' /\ GlobalsAreWhatIsOpen'
    BY <1>3 DEF ReleaseFails, GlobalsTyped, OutageTyped, TasksTyped, GlobalsAreWhatIsOpen
  <2>2. LifespanTyped' BY <1>3 DEF ReleaseFails, LifespanTyped, Between
  <2>3. ReleasesTheGlobal' BY <1>3 DEF ReleaseFails, ReleasesTheGlobal, Between, Store
  <2>. QED BY <2>1, <2>2, <2>3
<1>4. ASSUME NEW s \in Store, Released(s) PROVE Sound'
  <2>. DEFINE S == {"redis"} \ {s}
  <2>1. lifespan.owed \in [Store -> SUBSET Nat] BY DEF LifespanTyped
  <2>2. Release(S, lifespan.owed) BY <1>4 DEF Released
  <2>3. S \in SUBSET Store BY DEF Store
  <2>. HIDE DEF S
  <2>4. /\ LifespanTyped' /\ TasksTyped'
        /\ lifespan'.at \in Store =>
             /\ lifespan'.at \in S
             /\ handle[lifespan'.at] # None
             /\ lifespan'.releasing = handle[lifespan'.at]
    BY <2>1, <2>2, <2>3, ReleaseTyped
  <2>5. /\ GlobalsTyped' /\ GlobalsAreWhatIsOpen'
        /\ \A r \in Store \ {s} : handle'[r] = handle[r]
    BY <1>4, ReleasedGlobals
  <2>6. ReleasesTheGlobal' BY <2>4, <2>5 DEF S, ReleasesTheGlobal
  <2>7. OutageTyped' BY <1>4 DEF Released, OutageTyped
  <2>. QED BY <2>4, <2>5, <2>6, <2>7
<1>5. ASSUME UNCHANGED <<handle, sessionmaker, made, open, lifespan>>,
             TasksTyped', OutageTyped'
      PROVE  Sound'
  <2>1. GlobalsTyped' BY <1>5 DEF GlobalsTyped
  <2>2. LifespanTyped' BY <1>5 DEF LifespanTyped
  <2>3. GlobalsAreWhatIsOpen' BY <1>5 DEF GlobalsAreWhatIsOpen
  <2>4. ReleasesTheGlobal' BY <1>5 DEF ReleasesTheGlobal
  <2>. QED BY <1>5, <2>1, <2>2, <2>3, <2>4
<1>6. ASSUME NEW s \in Store, Fails(s) PROVE Sound'
  <2>1. TasksTyped' BY <1>6, NotingTyped DEF Fails, TasksTyped
  <2>2. OutageTyped' BY <1>6, LifecycleAssumption DEF Fails, OutageTyped
  <2>. QED BY <1>5, <1>6, <2>1, <2>2 DEF Fails
<1>7. ASSUME NEW s \in Store, Recovers(s) PROVE Sound'
  <2>1. TasksTyped' BY <1>7 DEF Recovers, TasksTyped
  <2>2. OutageTyped' BY <1>7 DEF Recovers, OutageTyped
  <2>. QED BY <1>5, <1>7, <2>1, <2>2 DEF Recovers
<1>8. CASE Tick
  <2>1. TasksTyped'
    <3>1. \A t \in Task : Waiting(t) => task[t].age # PingTimeout
      BY <1>8 DEF Tick, Due
    <3>2. \A t \in Task : task'[t] = IF Waiting(t) THEN [task[t] EXCEPT !.age = @ + 1]
                                     ELSE task[t]
      BY <1>8 DEF Tick
    <3>3. ASSUME NEW t \in Task
          PROVE  /\ task'[t] \in Progress
                 /\ task'[t].holds = task[t].holds /\ task'[t].at = task[t].at
      <4>1. task[t] \in Progress BY DEF TasksTyped
      <4>2. CASE Waiting(t)
        <5>1. task[t].age + 1 \in 0..PingTimeout
          BY <4>1, <4>2, <3>1, LifecycleAssumption DEF Progress
        <5>. QED BY <5>1, <4>1, <4>2, <3>2 DEF Progress
      <4>. QED BY <4>1, <4>2, <3>2
    <3>4. task' \in [Task -> Progress] BY <1>8, <3>3 DEF Tick
    <3>. QED BY <3>3, <3>4 DEF TasksTyped
  <2>2. OutageTyped'
    <3>1. \A s \in Store : outage[s] \in 0..(PingTimeout + 1) \cup {None}
      BY DEF OutageTyped
    <3>2. ASSUME NEW s \in Store
          PROVE  (IF outage[s] # None /\ outage[s] <= PingTimeout
                  THEN outage[s] + 1 ELSE outage[s]) \in 0..(PingTimeout + 1) \cup {None}
      BY <3>1, LifecycleAssumption
    <3>. QED BY <1>8, <3>2 DEF Tick, OutageTyped
  <2>. QED BY <1>5, <1>8, <2>1, <2>2 DEF Tick
<1>9. ASSUME NEW t \in Task,
             \/ Probe(t) \/ PingStep(t) \/ OpenSession(t) \/ Statement(t) \/ CloseSession(t)
      PROVE  Sound'
  BY <1>9, TaskSound
<1>10. CASE UNCHANGED vars
  BY <1>5, <1>10 DEF vars, TasksTyped, OutageTyped
<1>. QED BY <1>1, <1>2, <1>3, <1>4, <1>6, <1>7, <1>8, <1>9, <1>10 DEF Next

LEMMA SoundInvariant == Spec => []Sound
BY SoundInit, SoundNext, PTL DEF Spec

\* Types, and connections held only where they are used, for any number of
\* coroutines.
THEOREM TypeCorrect == Spec => []TypeOK
<1>1. Sound => TypeOK BY TypedIsTypeOK DEF Sound
<1>. QED BY <1>1, SoundInvariant, PTL

\* The globals point at exactly what has not been disposed of, in any order of
\* lazy initialisations, stops and failures.
THEOREM GlobalsSound == Spec => []GlobalsAreWhatIsOpen
<1>1. Sound => GlobalsAreWhatIsOpen BY DEF Sound
<1>. QED BY <1>1, SoundInvariant, PTL

--------------------------------------------------------------------------------
(***************************************************************************)
(* StopReleases: the engine is replaced, if at all, by one with a higher   *)
(* number, so that what the stop owes stays released while it closes Redis.*)
(***************************************************************************)
EngineIsGone ==
  lifespan.at \in Store =>
    /\ \A s \in Store : lifespan.owed[s] \subseteq 1..made[s]
    /\ lifespan.at = "redis" => open["database"] \cap lifespan.owed["database"] = {}

\* Where a release goes on.
LEMMA ReleaseNext ==
  ASSUME NEW S \in SUBSET Store, NEW owed, Release(S, owed)
  PROVE  /\ lifespan'.at \in Store => lifespan'.owed = owed
         /\ lifespan'.at = "redis" => "database" \notin Pending(S)
         /\ lifespan'.at = "off" => Pending(S) = {}
BY DEF Release, Between, Store, Pending

LEMMA GoneInit == Init => EngineIsGone
BY DEF Init, EngineIsGone, Between, Store

LEMMA GoneNext == Sound /\ EngineIsGone /\ [Next]_vars => EngineIsGone'
<1>. SUFFICES ASSUME Sound, EngineIsGone, [Next]_vars PROVE EngineIsGone' OBVIOUS
<1>. USE DEF Sound, Typed
<1>1. CASE Start BY <1>1 DEF Start, Between, EngineIsGone, Store
<1>2. CASE Stop
  <2>1. UNCHANGED <<handle, made, open>> /\ Release(Store, open) BY <1>2 DEF Stop
  <2>2. /\ lifespan'.at \in Store => lifespan'.owed = open
        /\ lifespan'.at = "redis" => handle["database"] = None
    BY <2>1, ReleaseNext DEF Pending, Store
  <2>3. handle["database"] = None => open["database"] = {}
    BY DEF GlobalsAreWhatIsOpen, Store
  <2>. QED BY <2>1, <2>2, <2>3 DEF EngineIsGone, GlobalsTyped
<1>3. CASE ReleaseFails BY <1>3 DEF ReleaseFails, Between, EngineIsGone, Store
<1>4. ASSUME NEW s \in Store, Released(s) PROVE EngineIsGone'
  <2>1. /\ Release({"redis"} \ {s}, lifespan.owed)
        /\ lifespan.at = s
        /\ UNCHANGED made
    BY <1>4 DEF Released
  <2>2. /\ lifespan'.at \in Store => lifespan'.owed = lifespan.owed /\ lifespan'.at # s
    BY <2>1, ReleaseNext, <1>4 DEF Release, Between, Pending, Store
  <2>3. open'[s] = {} BY <1>4, ReleasedGlobals
  <2>. QED BY <2>1, <2>2, <2>3 DEF EngineIsGone, Store
<1>5. ASSUME UNCHANGED <<made, open, lifespan>> PROVE EngineIsGone'
  BY <1>5 DEF EngineIsGone
<1>6. ASSUME NEW t \in Task,
             \/ Probe(t) \/ PingStep(t) \/ OpenSession(t) \/ Statement(t) \/ CloseSession(t)
      PROVE  EngineIsGone'
  <2>1. Sound' /\ UNCHANGED lifespan /\ Kept BY <1>6, TaskSound
  <2>2. \A s \in Store : /\ made[s] \in Nat /\ made'[s] \in Nat /\ made[s] <= made'[s]
                         /\ open'[s] \subseteq open[s] \cup {made[s] + 1}
    BY <2>1 DEF Kept, GlobalsTyped
  <2>3. lifespan.at \in Store => \A s \in Store : /\ lifespan.owed[s] \subseteq 1..made'[s]
                                                 /\ made[s] + 1 \notin lifespan.owed[s]
    BY <2>2 DEF EngineIsGone
  <2>. QED BY <2>1, <2>2, <2>3 DEF EngineIsGone, Store
<1>. QED BY <1>1, <1>2, <1>3, <1>4, <1>5, <1>6
         DEF Next, Tick, Fails, Recovers, vars

\* A stop that ends without an error leaves neither the engine nor the client
\* open that were so when it began, whoever makes new ones meanwhile.
THEOREM StopReleasesAll == Spec => StopReleases
<1>. DEFINE Leaves ==
       lifespan.at \in Store /\ lifespan'.at = "off"
         => \A s \in Store : open'[s] \cap lifespan.owed[s] = {}
<1>1. Sound /\ EngineIsGone /\ [Next]_vars => Leaves
  <2>. SUFFICES ASSUME Sound, EngineIsGone, [Next]_vars,
                       lifespan.at \in Store, lifespan'.at = "off"
                PROVE  \A s \in Store : open'[s] \cap lifespan.owed[s] = {}
    OBVIOUS
  <2>1. ASSUME NEW s \in Store, Released(s)
        PROVE  \A r \in Store : open'[r] \cap lifespan.owed[r] = {}
    <3>1. /\ open'[s] = {}
          /\ \A r \in Store \ {s} : open'[r] = open[r]
      BY <2>1, ReleasedGlobals
    <3>2. Pending({"redis"} \ {s}) = {} BY <2>1, ReleaseNext DEF Released, Store
    <3>3. CASE s = "database"
      <4>1. handle["redis"] = None BY <3>2, <3>3 DEF Pending
      <4>2. open["redis"] = {} BY <4>1 DEF Sound, GlobalsAreWhatIsOpen, Store
      <4>. QED BY <3>1, <3>3, <4>2 DEF Store
    <3>4. CASE s = "redis"
      <4>1. lifespan.at = "redis" BY <2>1, <3>4 DEF Released
      <4>. QED BY <3>1, <3>4, <4>1 DEF EngineIsGone, Store
    <3>. QED BY <3>3, <3>4 DEF Store
  <2>2. ASSUME NEW t \in Task,
               \/ Probe(t) \/ PingStep(t) \/ OpenSession(t) \/ Statement(t) \/ CloseSession(t)
        PROVE  UNCHANGED lifespan
    BY <2>2, TaskSound
  <2>. QED BY <2>1, <2>2
           DEF Next, Start, Stop, ReleaseFails, Between, Tick, Fails, Recovers, vars, Store
<1>. QED BY <1>1, SoundInit, SoundNext, GoneInit, GoneNext, PTL DEF Spec, StopReleases

--------------------------------------------------------------------------------
(***************************************************************************)
(* ReadyIsFresh: while a probe that has found the database waits for       *)
(* Redis, the outage of the database is no older than its ping of Redis.   *)
(***************************************************************************)
FreshCheck(t) ==
  task[t].at = "redis" /\ task[t].db =>
    outage["database"] = None \/ outage["database"] <= task[t].age
FreshChecks == \A t \in Task : FreshCheck(t)

LEMMA FreshInit == Init => FreshChecks
BY DEF Init, Rest, FreshChecks, FreshCheck

\* A step that leaves the place, the check and the age of a task alone.
SameCheck(t) ==
  /\ task'[t].at = task[t].at
  /\ task'[t].age = task[t].age
  /\ task'[t].db = task[t].db

LEMMA NotingSame ==
  ASSUME TasksTyped, NEW T, task' = Noting(T), NEW t \in Task
  PROVE  SameCheck(t)
BY DEF TasksTyped, Noting, SameCheck, Progress

LEMMA CheckOutSame ==
  ASSUME TasksTyped, NEW t \in Task, NEW at, CheckOut(t, at), NEW u \in Task \ {t}
  PROVE  SameCheck(u)
<1>1. PICK T : task' = [Noting(T) EXCEPT ![t].at = at, ![t].holds = TRUE]
  BY DEF CheckOut
<1>2. task'[u] = Noting(T)[u] BY <1>1 DEF Noting
<1>. QED BY <1>2 DEF TasksTyped, Noting, SameCheck, Progress

LEMMA CheckOutAt ==
  ASSUME TasksTyped, NEW t \in Task, NEW at, CheckOut(t, at)
  PROVE  /\ task'[t].at = at /\ task'[t].on = task[t].on /\ task'[t].holds
         /\ task'[t].age = task[t].age
         /\ task[t].troubled => task'[t].troubled
<1>1. PICK T : task' = [Noting(T) EXCEPT ![t].at = at, ![t].holds = TRUE]
  BY DEF CheckOut
<1>2. Noting(T) \in [Task -> Progress] BY NotingTyped
<1>3. /\ Noting(T)[t].on = task[t].on /\ Noting(T)[t].age = task[t].age
      /\ task[t].troubled => Noting(T)[t].troubled
  BY DEF TasksTyped, Noting, Progress
<1>4. task'[t] = [Noting(T)[t] EXCEPT !.at = at, !.holds = TRUE] BY <1>1, <1>2
<1>. QED BY <1>2, <1>3, <1>4 DEF Progress

LEMMA FreshNext == Sound /\ FreshChecks /\ [Next]_vars => FreshChecks'
<1>. SUFFICES ASSUME Sound, FreshChecks, [Next]_vars, NEW u \in Task
              PROVE  FreshCheck(u)'
  BY DEF FreshChecks
<1>. USE DEF Sound, Typed
<1>1. FreshCheck(u) BY DEF FreshChecks
<1>2. ASSUME SameCheck(u), UNCHANGED outage PROVE FreshCheck(u)'
  BY <1>1, <1>2 DEF FreshCheck, SameCheck
<1>3. ASSUME UNCHANGED <<task, outage>> PROVE FreshCheck(u)'
  BY <1>1, <1>3 DEF FreshCheck
<1>4. CASE Stop
  BY <1>4, <1>2, <1>3, NotingSame DEF Stop, Release
<1>5. ASSUME NEW s \in Store, Released(s) PROVE FreshCheck(u)'
  BY <1>5, <1>2, <1>3, NotingSame DEF Released, Release
<1>6. ASSUME NEW s \in Store, Fails(s) PROVE FreshCheck(u)'
  <2>1. SameCheck(u) BY <1>6, NotingSame DEF Fails
  <2>2. outage'["database"] = IF s = "database" THEN 0 ELSE outage["database"]
    BY <1>6 DEF Fails, OutageTyped, Store
  <2>3. task[u].age \in Nat BY DEF TasksTyped, Progress
  <2>. QED BY <2>1, <2>2, <2>3, <1>1 DEF FreshCheck, SameCheck
<1>7. ASSUME NEW s \in Store, Recovers(s) PROVE FreshCheck(u)'
  BY <1>1, <1>7 DEF Recovers, FreshCheck, OutageTyped, Store
<1>8. CASE Tick
  <2>1. task'[u] = IF Waiting(u) THEN [task[u] EXCEPT !.age = @ + 1] ELSE task[u]
    BY <1>8 DEF Tick
  <2>2. task[u] \in Progress BY DEF TasksTyped
  <2>3. /\ task'[u].at = task[u].at /\ task'[u].db = task[u].db
        /\ task[u].at = "redis" => task'[u].age = task[u].age + 1
    BY <2>1, <2>2 DEF Progress, Waiting
  <2>4. outage'["database"] =
          IF outage["database"] # None /\ outage["database"] <= PingTimeout
          THEN outage["database"] + 1 ELSE outage["database"]
    BY <1>8 DEF Tick, Store
  <2>5. outage["database"] \in Nat \cup {None} BY DEF OutageTyped, Store
  <2>6. task[u].age \in Nat BY <2>2 DEF Progress
  <2>. QED BY <1>1, <2>3, <2>4, <2>5, <2>6, LifecycleAssumption DEF FreshCheck
<1>9. ASSUME NEW t \in Task,
             \/ Probe(t) \/ PingStep(t) \/ OpenSession(t) \/ Statement(t) \/ CloseSession(t)
      PROVE  FreshCheck(u)'
  <2>1. UNCHANGED outage BY <1>9, TaskSound
  <2>2. ASSUME t # u PROVE SameCheck(u)
    <3>1. ASSUME NEW p, task' = [task EXCEPT ![t] = p] PROVE SameCheck(u)
      BY <2>2, <3>1 DEF SameCheck, TasksTyped
    <3>. QED BY <1>9, <2>2, <3>1, CheckOutSame
             DEF Probe, PingStep, Connect, Selected, DbPingFails, PingRedis, Pong,
                 RedisPingFails, OpenSession, Statement, CloseSession
  <2>3. CASE t # u BY <1>2, <2>1, <2>2, <2>3
  <2>4. CASE t = u
    <3>1. ASSUME NEW p, task' = [task EXCEPT ![u] = p], p.at # "redis" \/ ~p.db
          PROVE  FreshCheck(u)'
      BY <3>1 DEF FreshCheck, TasksTyped
    <3>2. CASE Probe(u) BY <3>2, ProbeTask DEF FreshCheck
    <3>3. CASE Connect(u)
      BY <3>3, CheckOutAt DEF Connect, FreshCheck
    <3>4. CASE Selected(u)
      BY <2>1, <3>4 DEF Selected, FreshCheck
    <3>5. CASE DbPingFails(u) BY <3>5, PingRedisTask DEF DbPingFails, FreshCheck
    <3>6. CASE Pong(u) BY <3>1, <3>6 DEF Pong, Rest
    <3>7. CASE RedisPingFails(u) BY <3>1, <3>7 DEF RedisPingFails, Rest
    <3>8. CASE OpenSession(u) BY <3>1, <3>8 DEF OpenSession, Rest
    <3>9. CASE Statement(u)
      BY <3>9, CheckOutAt DEF Statement, FreshCheck
    <3>10. CASE CloseSession(u) BY <3>1, <3>10 DEF CloseSession, Rest
    <3>. QED BY <1>9, <2>4, <3>2, <3>3, <3>4, <3>5, <3>6, <3>7, <3>8, <3>9, <3>10
             DEF PingStep
  <2>. QED BY <2>3, <2>4
<1>. QED BY <1>3, <1>4, <1>5, <1>6, <1>7, <1>8, <1>9
         DEF Next, Start, ReleaseFails, vars

\* "ready" is at most PING_TIMEOUT old, for any number of coroutines.
THEOREM ReadinessFresh == Spec => ReadyIsFresh
<1>. DEFINE Fresh(t) ==
       Waiting(t) /\ task'[t].at = "ready" =>
         /\ outage["redis"] = None
         /\ outage["database"] = None \/ outage["database"] <= PingTimeout
<1>1. Sound /\ FreshChecks /\ [Next]_vars => \A t \in Task : Fresh(t)
  <2>. SUFFICES ASSUME Sound, FreshChecks, [Next]_vars, NEW u \in Task,
                       Waiting(u), task'[u].at = "ready"
                PROVE  /\ outage["redis"] = None
                       /\ outage["database"] = None \/ outage["database"] <= PingTimeout
    OBVIOUS
  <2>. USE DEF Sound, Typed
  <2>1. task[u].at # "ready" /\ task[u].age <= PingTimeout /\ task[u].age \in Nat
    BY DEF Waiting, PingsDb, TasksTyped, Progress
  <2>2. ~SameCheck(u) /\ task' # task
    BY <2>1 DEF SameCheck
  <2>3. CASE Pong(u)
    <3>1. task'[u].at = Verdict(task[u].db, TRUE)
      BY <2>3 DEF Pong, Rest, TasksTyped
    <3>2. task[u].db /\ task[u].at = "redis" /\ outage["redis"] = None
      BY <2>3, <3>1 DEF Pong, Verdict
    <3>3. outage["database"] = None \/ outage["database"] <= task[u].age
      BY <3>2 DEF FreshChecks, FreshCheck
    <3>4. outage["database"] \in Nat \cup {None} BY DEF OutageTyped, Store
    <3>. QED BY <2>1, <3>2, <3>3, <3>4, LifecycleAssumption
  <2>4. ASSUME NEW t \in Task, t # u,
               \/ Probe(t) \/ PingStep(t) \/ OpenSession(t) \/ Statement(t)
               \/ CloseSession(t)
        PROVE FALSE
    <3>1. ASSUME NEW p, task' = [task EXCEPT ![t] = p] PROVE SameCheck(u)
      BY <2>4, <3>1 DEF SameCheck, TasksTyped
    <3>. QED BY <2>2, <2>4, <3>1, CheckOutSame
             DEF Probe, PingStep, Connect, Selected, DbPingFails, PingRedis, Pong,
                 RedisPingFails, OpenSession, Statement, CloseSession
  <2>5. ~Probe(u) /\ ~OpenSession(u) /\ ~Statement(u) /\ ~CloseSession(u)
    BY DEF Waiting, PingsDb, Probe, OpenSession, Statement, CloseSession, Resting
  <2>6. ASSUME NEW p, task' = [task EXCEPT ![u] = p], p.at # "ready" PROVE FALSE
    BY <2>6 DEF TasksTyped
  <2>7. ~Connect(u) BY CheckOutAt DEF Connect
  <2>8. ~Selected(u) /\ ~DbPingFails(u) /\ ~RedisPingFails(u)
    BY <2>6, PingRedisTask DEF Selected, DbPingFails, RedisPingFails, Rest, Verdict
  <2>9. ~Tick
    <3>. SUFFICES ASSUME Tick PROVE FALSE OBVIOUS
    <3>1. task'[u] = [task[u] EXCEPT !.age = @ + 1] BY DEF Tick
    <3>. QED BY <2>1, <3>1 DEF TasksTyped, Progress
  <2>10. ~Stop /\ \A s \in Store : ~Released(s) /\ ~Fails(s)
    BY <2>2, NotingSame DEF Stop, Released, Release, Fails
  <2>. QED BY <2>2, <2>3, <2>4, <2>5, <2>7, <2>8, <2>9, <2>10
           DEF Next, PingStep, Start, ReleaseFails, Recovers, vars
<1>. QED BY <1>1, SoundInit, SoundNext, FreshInit, FreshNext, PTL DEF Spec, ReadyIsFresh

--------------------------------------------------------------------------------
(***************************************************************************)
(* UnreadyForAReason: whatever can make a ping fail has been noted in its  *)
(* history by the time it does.                                            *)
(***************************************************************************)
FullPoolNoted(t) ==
  task[t].at = "connect" /\ ~Room(task[t].on) => task[t].troubled
OutageNoted(t) ==
  \A s \in Store : Pings(t, s) /\ outage[s] # None => task[t].troubled
DelayNoted(t) == Waiting(t) /\ task[t].age > 0 => task[t].troubled
ClosingNoted(t) == task[t].at = "redis" /\ Closed(task[t].on) => task[t].troubled
Noted(t) == FullPoolNoted(t) /\ OutageNoted(t) /\ DelayNoted(t) /\ ClosingNoted(t)
AllNoted == \A t \in Task : Noted(t)

LEMMA NotedInit == Init => AllNoted
BY DEF Init, Rest, AllNoted, Noted, FullPoolNoted, OutageNoted, DelayNoted,
       ClosingNoted, Pings, PingsDb, Waiting

\* A task that does not ping has nothing to note.
LEMMA NothingToNote ==
  ASSUME NEW t \in Task, task[t].at \notin {"connect", "select", "redis"}
  PROVE  Noted(t)
BY DEF Noted, FullPoolNoted, OutageNoted, DelayNoted, ClosingNoted, Pings, PingsDb, Waiting

\* A pool gets full only by a checkout.
LEMMA RoomStays ==
  ASSUME \A u \in Task : task'[u].holds => task[u].holds /\ task'[u].on = task[u].on,
         NEW e, Room(e)
  PROVE  Room(e)'
<1>1. Holders(e) \in SUBSET Task /\ IsFiniteSet(Task)
  BY LifecycleAssumption DEF Holders
<1>2. IsFiniteSet(Holders(e)) BY <1>1, FS_Subset
<1>3. Holders(e)' \in SUBSET Holders(e) BY DEF Holders
<1>4. /\ Cardinality(Holders(e)') <= Cardinality(Holders(e))
      /\ IsFiniteSet(Holders(e)')
  BY <1>2, <1>3, FS_Subset
<1>5. Cardinality(Holders(e)') \in Nat /\ Cardinality(Holders(e)) \in Nat
  BY <1>2, <1>4, FS_CardinalityType
<1>. QED BY <1>4, <1>5, LifecycleAssumption DEF Room

\* What a step by another may do to the progress of a task: add to its history.
Onlooker(t) ==
  /\ task'[t].at = task[t].at /\ task'[t].age = task[t].age
  /\ task'[t].on = task[t].on /\ task'[t].holds = task[t].holds
  /\ task[t].troubled => task'[t].troubled

LEMMA NotingOnlooker ==
  ASSUME TasksTyped, NEW T, task' = Noting(T), NEW t \in Task
  PROVE  Onlooker(t) /\ (t \in T => task'[t].troubled)
BY DEF TasksTyped, Noting, Onlooker, Progress

LEMMA CheckOutOnlooker ==
  ASSUME TasksTyped, NEW t \in Task, NEW at, CheckOut(t, at), NEW u \in Task \ {t}
  PROVE  /\ Onlooker(u)
         /\ task[u].at = "connect" /\ ~Room(task[u].on)' =>
              ~Room(task[u].on) \/ task'[u].troubled
<1>. DEFINE e == task[t].on
            full == Cardinality(Holders(e)) + 1 >= PoolLimit
            T == {v \in Task \ {t} : full /\ task[v].at = "connect" /\ task[v].on = e}
<1>1. task' = [Noting(T) EXCEPT ![t].at = at, ![t].holds = TRUE]
  BY DEF CheckOut
<1>2. \A v \in Task \ {t} : task'[v] = Noting(T)[v] BY <1>1 DEF Noting
<1>3. \A v \in Task \ {t} : Onlooker(v) /\ (v \in T => task'[v].troubled)
  <2>. SUFFICES ASSUME NEW v \in Task \ {t} PROVE Onlooker(v) /\ (v \in T => task'[v].troubled)
    OBVIOUS
  <2>1. task'[v] = IF v \in T THEN [task[v] EXCEPT !.troubled = TRUE] ELSE task[v]
    BY <1>2 DEF Noting
  <2>2. task[v] \in Progress BY DEF TasksTyped
  <2>. HIDE DEF T
  <2>3. CASE v \in T BY <2>1, <2>2, <2>3 DEF Onlooker, Progress
  <2>4. CASE v \notin T BY <2>1, <2>4 DEF Onlooker
  <2>. QED BY <2>3, <2>4
<1>4. task'[t].on = e BY CheckOutAt
<1>5. ASSUME task[u].at = "connect", ~Room(task[u].on)', Room(task[u].on)
      PROVE  u \in T
  <2>. DEFINE d == task[u].on
  <2>1. Holders(d) \in SUBSET Task /\ IsFiniteSet(Task)
    BY LifecycleAssumption DEF Holders
  <2>2. IsFiniteSet(Holders(d)) /\ Cardinality(Holders(d)) \in Nat
    BY <2>1, FS_Subset, FS_CardinalityType
  <2>3. CASE d # e
    <3>1. Holders(d)' = {v \in Task : task'[v].holds /\ task'[v].on = task'[u].on}
      BY <1>3 DEF Holders, Onlooker
    <3>2. \A v \in Task : task'[v].holds /\ task'[v].on = d => task[v].holds /\ task[v].on = d
      BY <1>3, <1>4, <2>3 DEF Onlooker
    <3>3. {v \in Task : task'[v].holds /\ task'[v].on = d} \in SUBSET Holders(d)
      BY <3>2 DEF Holders
    <3>4. Cardinality({v \in Task : task'[v].holds /\ task'[v].on = d})
            <= Cardinality(Holders(d))
      BY <2>2, <3>3, FS_Subset
    <3>5. IsFiniteSet({v \in Task : task'[v].holds /\ task'[v].on = d})
      BY <2>2, <3>3, FS_Subset
    <3>6. Cardinality({v \in Task : task'[v].holds /\ task'[v].on = d}) \in Nat
      BY <3>5, FS_CardinalityType
    <3>7. task'[u].on = d BY <1>3 DEF Onlooker
    <3>. QED BY <3>1, <3>4, <3>6, <3>7, <2>2, <1>5, LifecycleAssumption DEF Room
  <2>4. CASE d = e
    <3>. DEFINE H == {v \in Task : task'[v].holds /\ task'[v].on = d}
    <3>1. H \in SUBSET (Holders(d) \cup {t})
      BY <1>3 DEF Holders, Onlooker
    <3>2. /\ IsFiniteSet(Holders(d) \cup {t})
          /\ Cardinality(Holders(d) \cup {t}) <= Cardinality(Holders(d)) + 1
      <4>. DEFINE C == Holders(d)
      <4>. HIDE DEF C
      <4>1. IsFiniteSet(C) /\ Cardinality(C) \in Nat BY <2>2 DEF C
      <4>2. /\ IsFiniteSet(C \cup {t})
            /\ Cardinality(C \cup {t}) = IF t \in C THEN Cardinality(C) ELSE Cardinality(C) + 1
        BY <4>1, FS_AddElement
      <4>3. Cardinality(C \cup {t}) <= Cardinality(C) + 1 BY <4>1, <4>2
      <4>. QED BY <4>2, <4>3 DEF C
    <3>3. IsFiniteSet(H) /\ Cardinality(H) <= Cardinality(Holders(d) \cup {t})
      BY <3>1, <3>2, FS_Subset
    <3>4. Cardinality(H) \in Nat /\ Cardinality(Holders(d) \cup {t}) \in Nat
      BY <3>2, <3>3, FS_CardinalityType
    <3>5. Holders(d)' = H BY <1>3 DEF Holders, Onlooker
    <3>6. Cardinality(H) >= PoolLimit
      BY <3>4, <3>5, <1>5, LifecycleAssumption DEF Room
    <3>7. full BY <3>2, <3>3, <3>4, <3>6, <2>2, <2>4, LifecycleAssumption
    <3>. QED BY <3>7, <2>4, <1>5
  <2>. QED BY <2>3, <2>4
<1>. QED BY <1>3, <1>5

--------------------------------------------------------------------------------
\* What a task has noted survives what others do.
LEMMA OnlookerNoted ==
  ASSUME NEW t \in Task, Noted(t), Onlooker(t),
         task[t].at = "connect" /\ ~Room(task[t].on)' =>
           ~Room(task[t].on) \/ task'[t].troubled,
         \A s \in Store : Pings(t, s) /\ outage'[s] # None =>
           outage[s] # None \/ task'[t].troubled,
         task[t].at = "redis" /\ Closed(task[t].on)' =>
           Closed(task[t].on) \/ task'[t].troubled
  PROVE  Noted(t)'
<1>1. FullPoolNoted(t)' BY DEF Noted, FullPoolNoted, Onlooker
<1>2. OutageNoted(t)' BY DEF Noted, OutageNoted, Onlooker, Pings, PingsDb
<1>3. DelayNoted(t)' BY DEF Noted, DelayNoted, Onlooker, Waiting, PingsDb
<1>4. ClosingNoted(t)' BY DEF Noted, ClosingNoted, Onlooker
<1>. QED BY <1>1, <1>2, <1>3, <1>4 DEF Noted

\* The cases of the step of the task itself.
LEMMA BeginsNoted ==
  ASSUME Sound, NEW t \in Task,
         UNCHANGED <<lifespan, outage>>,
         \A u \in Task : task'[u].holds => task[u].holds /\ task'[u].on = task[u].on,
         \/ task'[t].at = "connect" /\ Begins(t, "database")
         \/ task'[t].at = "redis" /\ Begins(t, "redis") /\ Get("redis") \in open'["redis"]
  PROVE  Noted(t)'
<1>1. FullPoolNoted(t)'
  BY RoomStays DEF FullPoolNoted, Begins, Room
<1>2. OutageNoted(t)' BY DEF OutageNoted, Begins, Pings, PingsDb, Store
<1>3. DelayNoted(t)' BY DEF DelayNoted, Begins
<1>4. ClosingNoted(t)' BY DEF ClosingNoted, Closed, Begins
<1>. QED BY <1>1, <1>2, <1>3, <1>4 DEF Noted

LEMMA RestingTask ==
  ASSUME TasksTyped, NEW t \in Task,
         Pong(t) \/ RedisPingFails(t) \/ OpenSession(t) \/ CloseSession(t)
  PROVE  ~task'[t].holds /\ task'[t].at \notin {"connect", "select", "redis"}
<1>1. ASSUME NEW at \in Resting, task' = [task EXCEPT ![t] = Rest(at)]
      PROVE  ~task'[t].holds /\ task'[t].at \notin {"connect", "select", "redis"}
  <2>1. task'[t] = Rest(at) BY <1>1 DEF TasksTyped
  <2>. QED BY <2>1, RestTyped DEF Resting
<1>2. CASE Pong(t)
  BY <1>1, <1>2 DEF Pong, Verdict, Resting
<1>3. CASE RedisPingFails(t)
  BY <1>1, <1>3 DEF RedisPingFails, Verdict, Resting
<1>4. CASE OpenSession(t)
  <2>. DEFINE r == Rest("session")
  <2>1. task'[t] = [r EXCEPT !.on = sessionmaker']
    BY <1>4 DEF OpenSession, TasksTyped
  <2>2. r \in Progress /\ ~r.holds /\ r.at = "session" BY RestTyped
  <2>. HIDE DEF r
  <2>. QED BY <2>1, <2>2 DEF Progress
<1>5. CASE CloseSession(t)
  BY <1>1, <1>5 DEF CloseSession, Resting
<1>. QED BY <1>2, <1>3, <1>4, <1>5

LEMMA NotedNext == Sound /\ AllNoted /\ [Next]_vars => AllNoted'
<1>. SUFFICES ASSUME Sound, AllNoted, [Next]_vars, NEW u \in Task PROVE Noted(u)'
  BY DEF AllNoted
<1>. USE DEF Sound, Typed
<1>1. Noted(u) BY DEF AllNoted
<1>2. ASSUME \A v \in Task : Onlooker(v) PROVE Room(task[u].on)' \/ ~Room(task[u].on)
  <2>1. task'[u].on = task[u].on BY <1>2 DEF Onlooker
  <2>2. Room(task[u].on) => {v \in Task : task'[v].holds /\ task'[v].on = task[u].on}
                              = Holders(task[u].on)
    BY <1>2 DEF Onlooker, Holders
  <2>. QED BY <2>1, <2>2 DEF Room, Holders
<1>3. ASSUME \A v \in Task : Onlooker(v),
             \A s \in Store : Pings(u, s) /\ outage'[s] # None =>
               outage[s] # None \/ task'[u].troubled,
             task[u].at = "redis" /\ Closed(task[u].on)' =>
               Closed(task[u].on) \/ task'[u].troubled
      PROVE  Noted(u)'
  BY <1>1, <1>2, <1>3, OnlookerNoted
<1>4. UNCHANGED task => \A v \in Task : Onlooker(v) BY DEF Onlooker
<1>5. CASE Start
  <2>1. Kept BY <1>5, InitializeGlobals DEF Start
  <2>2. lifespan'.at # "redis" BY <1>5 DEF Start, Between
  <2>3. Closed(task[u].on)' => Closed(task[u].on)
    BY <1>5, <2>1, <2>2 DEF Start, Closed, Kept, Store
  <2>. QED BY <1>3, <1>4, <1>5, <2>3 DEF Start
<1>6. CASE Stop
  <2>1. \A v \in Task : Onlooker(v)
    BY <1>4, <1>6, NotingOnlooker DEF Stop, Release
  <2>2. task[u].at = "redis" /\ Closed(task[u].on)' =>
          Closed(task[u].on) \/ task'[u].troubled
    <3>. SUFFICES ASSUME task[u].at = "redis", Closed(task[u].on)', ~Closed(task[u].on)
                  PROVE  task'[u].troubled
      OBVIOUS
    <3>1. task'[u].on = task[u].on BY <2>1 DEF Onlooker
    <3>2. lifespan'.at = "redis" /\ lifespan'.releasing = task[u].on
      BY <1>6, <3>1 DEF Stop, Closed
    <3>3. Pending(Store) # {} /\ "database" \notin Pending(Store)
      BY <1>6, <3>2 DEF Stop, Release, Between
    <3>4. Pending(Store) = {"redis"} BY <3>3 DEF Pending, Store
    <3>5. lifespan' = [at |-> "redis", releasing |-> handle["redis"], owed |-> open]
      BY <1>6, <3>4 DEF Stop, Release
    <3>6. task' = Noting({t \in Task : task[t].at = "redis" /\ task[t].on = handle["redis"]})
      BY <1>6, <3>4 DEF Stop, Release
    <3>. QED BY <3>2, <3>5, <3>6, NotingOnlooker
  <2>. QED BY <1>3, <1>6, <2>1, <2>2 DEF Stop
<1>7. ASSUME NEW s \in Store, Released(s) PROVE Noted(u)'
  <2>. DEFINE S == {"redis"} \ {s}
  <2>1. \A v \in Task : Onlooker(v)
    BY <1>4, <1>7, NotingOnlooker DEF Released, Release
  <2>2. task[u].at = "redis" /\ Closed(task[u].on)' =>
          Closed(task[u].on) \/ task'[u].troubled
    <3>. SUFFICES ASSUME task[u].at = "redis", Closed(task[u].on)', ~Closed(task[u].on)
                  PROVE  task'[u].troubled
      OBVIOUS
    <3>1. task'[u].on = task[u].on BY <2>1 DEF Onlooker
    <3>2. open'["redis"] = IF s = "redis" THEN open["redis"] \ {lifespan.releasing}
                           ELSE open["redis"]
      BY <1>7 DEF Released, GlobalsTyped, Store
    <3>3. lifespan.at = s BY <1>7 DEF Released
    <3>4. lifespan'.at = "redis" /\ lifespan'.releasing = task[u].on
      BY <3>1, <3>2, <3>3 DEF Closed
    <3>5. Release(S, lifespan.owed) BY <1>7 DEF Released
    <3>6. Pending(S) # {} /\ Pending(S) \subseteq {"redis"}
      BY <3>4, <3>5 DEF Release, Between, Pending
    <3>7. Pending(S) = {"redis"} BY <3>6
    <3>8. lifespan' = [at |-> "redis", releasing |-> handle["redis"], owed |-> lifespan.owed]
      BY <3>5, <3>7 DEF Release
    <3>9. task' = Noting({t \in Task : task[t].at = "redis" /\ task[t].on = handle["redis"]})
      BY <3>5, <3>7 DEF Release
    <3>. QED BY <3>4, <3>8, <3>9, NotingOnlooker
  <2>. QED BY <1>3, <1>7, <2>1, <2>2 DEF Released
<1>8. CASE ReleaseFails
  <2>1. Closed(task[u].on)' => Closed(task[u].on)
    BY <1>8 DEF ReleaseFails, Closed, Between
  <2>. QED BY <1>3, <1>4, <1>8, <2>1 DEF ReleaseFails
<1>9. ASSUME NEW s \in Store, Fails(s) PROVE Noted(u)'
  <2>1. /\ \A v \in Task : Onlooker(v)
        /\ Pings(u, s) => task'[u].troubled
    BY <1>9, NotingOnlooker DEF Fails
  <2>2. \A r \in Store \ {s} : outage'[r] = outage[r] BY <1>9 DEF Fails
  <2>3. Closed(task[u].on)' => Closed(task[u].on)
    BY <1>9, <2>1 DEF Fails, Closed, Onlooker
  <2>. QED BY <1>3, <2>1, <2>2, <2>3
<1>10. ASSUME NEW s \in Store, Recovers(s) PROVE Noted(u)'
  <2>1. \A r \in Store : outage'[r] # None => outage[r] # None
    BY <1>10 DEF Recovers, OutageTyped
  <2>2. Closed(task[u].on)' => Closed(task[u].on) BY <1>10 DEF Recovers, Closed
  <2>. QED BY <1>3, <1>4, <1>10, <2>1, <2>2 DEF Recovers
<1>11. CASE Tick
  <2>1. \A v \in Task : task'[v] = IF Waiting(v) THEN [task[v] EXCEPT !.age = @ + 1]
                                   ELSE task[v]
    BY <1>11 DEF Tick
  <2>2. \A v \in Task : /\ task'[v].at = task[v].at /\ task'[v].on = task[v].on
                        /\ task'[v].holds = task[v].holds
                        /\ task'[v].troubled = task[v].troubled
    BY <2>1 DEF TasksTyped, Progress
  <2>3. ~Answering(u) BY <1>11 DEF Tick
  <2>4. Waiting(u) => task[u].troubled
    BY <1>1, <2>3
       DEF Noted, FullPoolNoted, OutageNoted, Waiting, Answering, Pings, PingsDb, Store
  <2>5. Waiting(u)' => task'[u].troubled
    BY <2>2, <2>4 DEF Waiting, PingsDb
  <2>6. CASE Waiting(u)'
    BY <2>5, <2>6 DEF Noted, FullPoolNoted, OutageNoted, DelayNoted, ClosingNoted,
                      Waiting, Pings, PingsDb, Store
  <2>7. CASE ~Waiting(u)'
    BY <2>7 DEF Noted, FullPoolNoted, OutageNoted, DelayNoted, ClosingNoted,
                      Waiting, Pings, PingsDb, Store
  <2>. QED BY <2>6, <2>7
<1>12. ASSUME NEW t \in Task,
              \/ Probe(t) \/ PingStep(t) \/ OpenSession(t) \/ Statement(t) \/ CloseSession(t)
       PROVE  Noted(u)'
  <2>1. Sound' /\ UNCHANGED <<lifespan, outage>> /\ Kept BY <1>12, TaskSound
  <2>2. Closed(task[u].on)' /\ task'[u].on = task[u].on => Closed(task[u].on)
    BY <2>1 DEF Closed, Kept, Store
  <2>3. ASSUME \/ Probe(t) \/ Selected(t) \/ DbPingFails(t) \/ Pong(t)
               \/ RedisPingFails(t) \/ OpenSession(t) \/ CloseSession(t)
        PROVE  /\ \A v \in Task : task'[v].holds => task[v].holds /\ task'[v].on = task[v].on
               /\ \A v \in Task \ {t} : task'[v] = task[v]
    <3>1. \A v \in Task \ {t} : task'[v] = task[v]
      BY <2>3 DEF Probe, Selected, DbPingFails, PingRedis, Pong, RedisPingFails,
                  OpenSession, CloseSession, TasksTyped
    <3>2. ~task'[t].holds
      <4>1. Probe(t) => ~task'[t].holds BY ProbeTask DEF Begins
      <4>2. Selected(t) \/ DbPingFails(t) => ~task'[t].holds
        BY PingRedisTask DEF Selected, DbPingFails, Begins
      <4>3. Pong(t) \/ RedisPingFails(t) \/ OpenSession(t) \/ CloseSession(t)
              => ~task'[t].holds
        BY RestingTask
      <4>. QED BY <2>3, <4>1, <4>2, <4>3
    <3>. QED BY <3>1, <3>2
  <2>4. CASE t # u
    <3>1. CASE Connect(t) \/ Statement(t)
      <4>1. PICK at : CheckOut(t, at) BY <3>1 DEF Connect, Statement
      <4>2. /\ Onlooker(u)
            /\ task[u].at = "connect" /\ ~Room(task[u].on)' =>
                 ~Room(task[u].on) \/ task'[u].troubled
        BY <2>4, <4>1, CheckOutOnlooker
      <4>. QED BY <1>1, <2>1, <2>2, <4>2, OnlookerNoted DEF Onlooker
    <3>2. CASE ~(Connect(t) \/ Statement(t))
      <4>1. /\ \A v \in Task : task'[v].holds => task[v].holds /\ task'[v].on = task[v].on
            /\ task'[u] = task[u]
        BY <1>12, <2>3, <2>4, <3>2 DEF PingStep
      <4>2. Onlooker(u) BY <4>1 DEF Onlooker
      <4>3. Room(task[u].on) => Room(task[u].on)'
        <5>. DEFINE e == task[u].on
        <5>1. task'[u].on = e BY <4>1
        <5>2. {v \in Task : task'[v].holds /\ task'[v].on = e} =
                {v \in Task : task'[v].holds /\ task'[v].on = task'[u].on}
          BY <5>1
        <5>3. Holders(task[u].on)' = {v \in Task : task'[v].holds /\ task'[v].on = e}
          BY <5>2 DEF Holders
        <5>. HIDE DEF e
        <5>4. Room(e) => Cardinality({v \in Task : task'[v].holds /\ task'[v].on = e}) < PoolLimit
          BY <4>1, RoomStays DEF Room, Holders
        <5>. QED BY <5>3, <5>4 DEF Room, e
      <4>. QED BY <1>1, <2>1, <2>2, <4>2, <4>3, OnlookerNoted DEF Onlooker
    <3>. QED BY <3>1, <3>2
  <2>5. CASE t = u
    <3>1. ASSUME task'[u].at \notin {"connect", "select", "redis"} PROVE Noted(u)'
      BY <3>1 DEF Noted, FullPoolNoted, OutageNoted, DelayNoted, ClosingNoted, Pings,
                  PingsDb, Waiting
    <3>2. CASE Probe(u)
      BY <2>1, <2>3, <2>5, <3>2, ProbeTask, BeginsNoted
    <3>3. CASE Selected(u) \/ DbPingFails(u)
      <4>1. PICK db \in BOOLEAN : PingRedis(u, db) BY <3>3 DEF Selected, DbPingFails
      <4>2. Begins(u, "redis") /\ task'[u].at = "redis" BY <4>1, PingRedisTask
      <4>3. Get("redis") \in open'["redis"]
        BY <4>1, InitializeGlobals DEF PingRedis, Present, Store
      <4>. QED BY <2>1, <2>3, <2>5, <3>3, <4>2, <4>3, BeginsNoted
    <3>4. CASE Connect(u)
      <4>1. /\ task'[u].at = "select" /\ task'[u].age = task[u].age
            /\ task[u].troubled => task'[u].troubled
        BY <3>4, CheckOutAt DEF Connect
      <4>2. task[u].at = "connect" /\ outage'["database"] = None
        BY <2>1, <3>4 DEF Connect
      <4>3. FullPoolNoted(u)' /\ ClosingNoted(u)'
        BY <4>1 DEF FullPoolNoted, ClosingNoted
      <4>4. OutageNoted(u)'
        BY <4>1, <4>2 DEF OutageNoted, Pings, PingsDb, Store
      <4>5. DelayNoted(u)'
        BY <1>1, <4>1, <4>2 DEF Noted, DelayNoted, Waiting, PingsDb
      <4>. QED BY <4>3, <4>4, <4>5 DEF Noted
    <3>5. CASE Statement(u)
      <4>1. task'[u].at = "session" BY <3>5, CheckOutAt DEF Statement
      <4>. QED BY <3>1, <4>1
    <3>6. CASE Pong(u) \/ RedisPingFails(u) \/ OpenSession(u) \/ CloseSession(u)
      <4>1. task'[u].at \notin {"connect", "select", "redis"} BY <3>6, RestingTask
      <4>. QED BY <3>1, <4>1
    <3>7. Probe(u) \/ PingStep(u) \/ OpenSession(u) \/ Statement(u) \/ CloseSession(u)
      BY <1>12, <2>5
    <3>. QED BY <3>2, <3>3, <3>4, <3>5, <3>6, <3>7 DEF PingStep
  <2>. QED BY <2>4, <2>5
<1>13. CASE UNCHANGED vars
  BY <1>3, <1>4, <1>13 DEF vars, Closed
<1>. QED BY <1>5, <1>6, <1>7, <1>8, <1>9, <1>10, <1>11, <1>12, <1>13 DEF Next

\* Both checks, the one that has just failed and the one that spoils "ready", for
\* any number of coroutines and any pool.
THEOREM UnreadyExplained == Spec => UnreadyForAReason
<1>. DEFINE Explained(t) ==
       /\ PingsDb(t) /\ task'[t].at = "redis" /\ ~task'[t].db => task[t].troubled
       /\ task[t].at = "redis" /\ task[t].db /\ task'[t].at = "not_ready"
            => task[t].troubled
<1>1. Sound /\ AllNoted /\ [Next]_vars => \A t \in Task : Explained(t)
  <2>. SUFFICES ASSUME Sound, AllNoted, [Next]_vars, NEW u \in Task PROVE Explained(u)
    OBVIOUS
  <2>. USE DEF Sound, Typed
  <2>1. Noted(u) BY DEF AllNoted
  <2>2. Waiting(u) /\ GivesUp(u, IF PingsDb(u) THEN "database" ELSE "redis")
          => task[u].troubled
    BY <2>1, LifecycleAssumption
       DEF Noted, OutageNoted, DelayNoted, Waiting, GivesUp, Pings, PingsDb, Store
  <2>3. CASE task'[u].at = task[u].at BY <2>3 DEF PingsDb
  <2>4. CASE DbPingFails(u)
    <3>1. task[u].troubled BY <2>2, <2>4 DEF DbPingFails, Waiting
    <3>. QED BY <3>1
  <2>5. CASE Selected(u)
    <3>1. task'[u].db = TRUE /\ PingsDb(u)
      BY <2>5, PingRedisTask DEF Selected, PingsDb
    <3>. QED BY <3>1 DEF PingsDb
  <2>6. CASE Pong(u)
    <3>1. task'[u].at = Verdict(task[u].db, TRUE) /\ task[u].at = "redis"
      BY <2>6 DEF Pong, Rest, TasksTyped
    <3>. QED BY <3>1 DEF Verdict, PingsDb
  <2>7. CASE RedisPingFails(u)
    <3>1. task[u].at = "redis" /\ (GivesUp(u, "redis") \/ Closed(task[u].on))
      BY <2>7 DEF RedisPingFails
    <3>2. task[u].troubled
      BY <2>1, <2>2, <3>1 DEF Noted, ClosingNoted, Waiting, PingsDb
    <3>. QED BY <3>2
  <2>8. CASE Connect(u)
    <3>1. task'[u].at = "select" /\ task[u].at = "connect"
      BY <2>8, CheckOutAt DEF Connect
    <3>. QED BY <3>1
  <2>9. CASE Probe(u) \/ OpenSession(u) \/ Statement(u) \/ CloseSession(u)
    BY <2>9 DEF Probe, OpenSession, Statement, CloseSession, Resting, PingsDb
  <2>10. ASSUME NEW t \in Task, t # u,
                \/ Probe(t) \/ PingStep(t) \/ OpenSession(t) \/ Statement(t)
                \/ CloseSession(t)
         PROVE  task'[u].at = task[u].at
    <3>1. ASSUME NEW p, task' = [task EXCEPT ![t] = p] PROVE task'[u].at = task[u].at
      BY <2>10, <3>1 DEF TasksTyped
    <3>. QED BY <2>10, <3>1, CheckOutOnlooker
             DEF Probe, PingStep, Connect, Selected, DbPingFails, PingRedis, Pong,
                 RedisPingFails, OpenSession, Statement, CloseSession, Onlooker
  <2>11. Tick => task'[u].at = task[u].at
    BY DEF Tick, TasksTyped, Progress
  <2>12. Stop \/ (\E s \in Store : Released(s) \/ Fails(s)) => task'[u].at = task[u].at
    BY NotingOnlooker DEF Stop, Released, Release, Fails, Onlooker
  <2>. QED BY <2>3, <2>4, <2>5, <2>6, <2>7, <2>8, <2>9, <2>10, <2>11, <2>12
           DEF Next, PingStep, Start, ReleaseFails, Recovers, vars
<1>. QED BY <1>1, SoundInit, SoundNext, NotedInit, NotedNext, PTL DEF Spec, UnreadyForAReason

--------------------------------------------------------------------------------
(***************************************************************************)
(* How long a probe can take.  What ProbeAnswers says needs fairness and   *)
(* is left to TLC; that no probe ever waits for more than its two timeouts *)
(* does not.                                                               *)
(***************************************************************************)
\* What ProbeWithinTimeouts says of one step of one coroutine.
InBudget(t) ==
  \/ task'[t].at \in {"ready", "not_ready"}
  \/ Waiting(t)' /\ 0 <= Left(t)' /\ Left(t)' <= Left(t) - (IF Tick THEN 1 ELSE 0)

\* Two timeouts before the second ping, one in it.
LEMMA LeftIs ==
  ASSUME TasksTyped, NEW t \in Task
  PROVE  /\ Left(t) \in Int /\ PingTimeout \in Nat /\ task[t].age \in 0..PingTimeout
         /\ Left(t) >= 0
         /\ task[t].at \in {"connect", "select"} => Left(t) = 2 * PingTimeout - task[t].age
         /\ task[t].at = "redis" => Left(t) = PingTimeout - task[t].age
         /\ Waiting(t) <=> task[t].at \in {"connect", "select", "redis"}
<1>1. task[t].age \in 0..PingTimeout /\ PingTimeout \in Nat
  BY LifecycleAssumption DEF TasksTyped, Progress
<1>. QED BY <1>1 DEF Left, PingsDb, Waiting

LEMMA SameCheckInBudget ==
  ASSUME TasksTyped, TasksTyped', ~Tick, NEW t \in Task, Waiting(t), SameCheck(t)
  PROVE  InBudget(t)
<1>1. Left(t)' = Left(t) /\ Waiting(t)' BY DEF SameCheck, Left, Waiting, PingsDb
<1>. QED BY <1>1, LeftIs DEF InBudget

\* Where a waiting probe may go next, and at what age.
LEMMA OwnStepInBudget ==
  ASSUME TasksTyped, TasksTyped', ~Tick, NEW t \in Task, Waiting(t),
         \/ task'[t].at \in {"ready", "not_ready"}
         \/ PingsDb(t) /\ task'[t].at = "redis" /\ task'[t].age = 0
         \/ PingsDb(t) /\ task'[t].at = "select" /\ task'[t].age = task[t].age
  PROVE  InBudget(t)
<1>1. CASE PingsDb(t) /\ task'[t].at = "redis" /\ task'[t].age = 0
  <2>1. Left(t)' = PingTimeout BY <1>1, LifecycleAssumption DEF Left, PingsDb
  <2>2. Left(t) >= PingTimeout /\ PingTimeout \in Nat /\ Left(t) \in Int
    BY <1>1, LeftIs DEF PingsDb
  <2>. QED BY <1>1, <2>1, <2>2 DEF InBudget, Waiting
<1>2. CASE PingsDb(t) /\ task'[t].at = "select" /\ task'[t].age = task[t].age
  <2>1. Left(t)' = Left(t) /\ Waiting(t)' BY <1>2 DEF Left, PingsDb, Waiting
  <2>. QED BY <2>1, LeftIs DEF InBudget
<1>. QED BY <1>1, <1>2 DEF InBudget

\* No probe takes longer than its two timeouts, however many share the pool.
THEOREM ProbesAreBounded == Spec => ProbeWithinTimeouts
<1>1. Sound /\ [Next]_vars =>
        [\A t \in Task : Waiting(t) =>
           \/ task'[t].at \in {"ready", "not_ready"}
           \/ Waiting(t)' /\ 0 <= Left(t)' /\ Left(t)' <= Left(t) - (IF Tick THEN 1 ELSE 0)]_vars
  <2>. SUFFICES ASSUME Sound, [Next]_vars, NEW u \in Task, Waiting(u), vars' # vars
                PROVE  InBudget(u)
    BY DEF InBudget
  <2>. USE DEF Sound, Typed
  <2>1. TasksTyped /\ TasksTyped'
    <3>1. Sound' BY SoundNext
    <3>. QED BY <3>1
  <2>2. CASE Tick
    <3>1. task'[u] = [task[u] EXCEPT !.age = @ + 1] BY <2>2 DEF Tick
    <3>2. task'[u].at = task[u].at /\ task'[u].age = task[u].age + 1
      BY <2>1, <3>1 DEF TasksTyped, Progress
    <3>3. Waiting(u)' /\ Left(u)' = Left(u) - 1
      BY <2>1, <3>2, LeftIs DEF Left, Waiting, PingsDb
    <3>4. Left(u)' >= 0
      <4>1. task'[u].age \in 0..PingTimeout BY <2>1 DEF TasksTyped, Progress
      <4>. QED BY <4>1, LifecycleAssumption DEF Left
    <3>5. (IF Tick THEN 1 ELSE 0) = 1 BY <2>2
    <3>. QED BY <3>3, <3>4, <3>5, <2>1, LeftIs DEF InBudget
  <2>3. CASE ~Tick
    <3>1. ASSUME SameCheck(u) PROVE InBudget(u)
      BY <2>1, <2>3, <3>1, SameCheckInBudget
    <3>2. CASE UNCHANGED task
      BY <3>1, <3>2 DEF SameCheck
    <3>3. CASE Stop \/ \E s \in Store : Released(s) \/ Fails(s)
      BY <3>1, <3>2, <3>3, NotingSame DEF Stop, Released, Release, Fails
    <3>4. ASSUME NEW t \in Task, t # u,
                 \/ Probe(t) \/ PingStep(t) \/ OpenSession(t) \/ Statement(t)
                 \/ CloseSession(t)
          PROVE InBudget(u)
      <4>1. ASSUME NEW p, task' = [task EXCEPT ![t] = p] PROVE SameCheck(u)
        BY <3>4, <4>1 DEF SameCheck, TasksTyped
      <4>2. SameCheck(u)
        BY <3>4, <4>1, CheckOutSame
           DEF Probe, PingStep, Connect, Selected, DbPingFails, PingRedis, Pong,
               RedisPingFails, OpenSession, Statement, CloseSession
      <4>. QED BY <3>1, <4>2
    <3>5. ~Probe(u) /\ ~OpenSession(u) /\ ~Statement(u) /\ ~CloseSession(u)
      BY DEF Waiting, PingsDb, Probe, OpenSession, Statement, CloseSession, Resting
    <3>6. CASE Connect(u)
      <4>1. task'[u].at = "select" /\ task'[u].age = task[u].age /\ PingsDb(u)
        BY <2>1, <3>6, CheckOutAt DEF Connect, PingsDb
      <4>. QED BY <2>1, <2>3, <4>1, OwnStepInBudget
    <3>7. CASE Selected(u) \/ DbPingFails(u)
      <4>1. PingsDb(u) /\ (PingRedis(u, TRUE) \/ PingRedis(u, FALSE))
        BY <3>7 DEF Selected, DbPingFails, PingsDb
      <4>2. task'[u].at = "redis" /\ task'[u].age = 0
        BY <2>1, <4>1, PingRedisTask DEF Begins
      <4>. QED BY <2>1, <2>3, <4>1, <4>2, OwnStepInBudget
    <3>8. CASE Pong(u) \/ RedisPingFails(u)
      <4>1. task'[u].at \in {"ready", "not_ready"}
        BY <2>1, <3>8 DEF Pong, RedisPingFails, Rest, Verdict, TasksTyped
      <4>. QED BY <2>1, <2>3, <4>1, OwnStepInBudget
    <3>. QED BY <2>3, <3>2, <3>3, <3>4, <3>5, <3>6, <3>7, <3>8
             DEF Next, PingStep, Start, ReleaseFails, Recovers, vars
  <2>. QED BY <2>2, <2>3
<1>. QED BY <1>1, SoundInit, SoundNext, PTL DEF Spec, ProbeWithinTimeouts
================================================================================

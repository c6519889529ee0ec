------------------------------- MODULE Lifecycle -------------------------------
(***************************************************************************)
(* One process of the API on its event loop: the engine and the Redis      *)
(* client as module globals (vills/db/session.py, vills/cache/client.py),  *)
(* the lifespan that creates and releases them (vills/core/main.py), the   *)
(* readiness probe (vills/api/v1/health.py) and requests with a session.   *)
(* A step is what the loop runs between two awaits.  A store that is up    *)
(* answers before time goes on; one that is down refuses or keeps silent.  *)
(* An engine or client that has been disposed of can still be used, as in  *)
(* SQLAlchemy and redis-py, by whoever got hold of it before.              *)
(***************************************************************************)
EXTENDS Integers, FiniteSets

CONSTANTS
  Task,         \* coroutines that serve requests or run in the background
  None,
  PingTimeout,  \* PING_TIMEOUT of both stores, in seconds
  PoolLimit,    \* connections an engine may have checked out
  MaxHandles    \* bound: the lifespan starts while fewer engines were made

ASSUME LifecycleAssumption ==
  /\ PingTimeout \in Nat \ {0}
  /\ PoolLimit \in Nat
  /\ MaxHandles \in Nat
  /\ None \notin Nat
  /\ IsFiniteSet(Task)

VARIABLES
  handle,        \* store -> _engine or _client: the number of an object, or None
  sessionmaker,  \* _sessionmaker: the number of the engine it is bound to, or None
  made,          \* store -> objects created so far, numbered 1, 2, ...
  open,          \* store -> objects created and not yet disposed of
  lifespan,      \* where the lifespan is, and what it is releasing
  outage,        \* store -> seconds since it last answered, None while it is up
  task           \* coroutine -> its progress

vars == <<handle, sessionmaker, made, open, lifespan, outage, task>>

Store == {"database", "redis"}
Resting == {"idle", "ready", "not_ready"}

\* on: the engine or client in use; holds: a connection is checked out; db: the
\* first check of a probe; troubled (history): since its ping began the store
\* has been down, its pool full or its client being closed.
Rest(result) == [at |-> result, on |-> 0, age |-> 0, holds |-> FALSE,
                 db |-> FALSE, troubled |-> FALSE]

PingsDb(t) == task[t].at \in {"connect", "select"}
Pings(t, s) == IF s = "redis" THEN task[t].at = "redis" ELSE PingsDb(t)

--------------------------------------------------------------------------------
\* The globals.

\* What get_engine and get_redis return.
MutGet(s) == made[s] + 1
Get(s) == IF handle[s] # None THEN handle[s] ELSE made[s] + 1

\* init_engine and init_redis on each store of S: create what is not there.
Initialize(S) ==
  LET fresh == {s \in S : Get(s) # handle[s]}
  IN  /\ handle' = [s \in Store |-> IF s \in fresh THEN Get(s) ELSE handle[s]]
      /\ made' = [s \in Store |-> IF s \in fresh THEN made[s] + 1 ELSE made[s]]
      /\ open' = [s \in Store |->
                    IF s \in fresh THEN open[s] \cup {Get(s)} ELSE open[s]]
      /\ sessionmaker' = IF "database" \in fresh THEN Get("database") ELSE sessionmaker

Holders(e) == {t \in Task : task[t].holds /\ task[t].on = e}
MutRoom(e) == Cardinality(Holders(e)) + 1 < PoolLimit
Room(e) == Cardinality(Holders(e)) < PoolLimit

\* aclose disconnects the client under those who use it.
Closed(c) ==
  \/ c \notin open["redis"]
  \/ lifespan.at = "redis" /\ lifespan.releasing = c

\* The lifespan while it releases nothing.  owed (history): what was open when
\* the stop began.
Between(at) == [at |-> at, releasing |-> None, owed |-> [s \in Store |-> {}]]

Init ==
  /\ handle = [s \in Store |-> None]
  /\ sessionmaker = None
  /\ made = [s \in Store |-> 0]
  /\ open = [s \in Store |-> {}]
  /\ lifespan = Between("off")
  /\ outage = [s \in Store |-> None]
  /\ task = [t \in Task |-> Rest("idle")]

\* The pings among T note in their histories that there is trouble.
Noting(T) == [t \in Task |-> IF t \in T THEN [task[t] EXCEPT !.troubled = TRUE]
                             ELSE task[t]]

--------------------------------------------------------------------------------
\* The lifespan.

Start ==
  /\ lifespan.at = "off"
  /\ made["database"] < MaxHandles
  /\ Initialize(Store)
  /\ lifespan' = Between("serving")
  /\ UNCHANGED <<outage, task>>

\* Which of the stores still to be released is not None.
MutPending(stores) == {s \in stores \cap {"database"} : handle[s] # None}
Pending(stores) == {s \in stores : handle[s] # None}

\* dispose_engine, then close_redis, each up to its await.
Release(stores, owed) ==
  LET pending == Pending(stores)
      next == IF "database" \in pending THEN "database" ELSE "redis"
  IN  /\ lifespan' = IF pending = {}
                     THEN Between("off")
                     ELSE [at |-> next, releasing |-> handle[next], owed |-> owed]
      /\ task' = IF pending = {"redis"}
                 THEN Noting({t \in Task : /\ task[t].at = "redis"
                                           /\ task[t].on = handle["redis"]})
                 ELSE task

Stop ==
  /\ lifespan.at = "serving"
  /\ Release(Store, open)
  /\ UNCHANGED <<handle, sessionmaker, made, open, outage>>

\* await dispose() or aclose() returns, and the globals are forgotten.
Released(s) ==
  /\ lifespan.at = s
  /\ open' = [open EXCEPT ![s] = @ \ {lifespan.releasing}]
  /\ handle' = [handle EXCEPT ![s] = None]
  /\ sessionmaker' = IF s = "database" THEN None ELSE sessionmaker
  /\ Release({"redis"} \ {s}, lifespan.owed)
  /\ UNCHANGED <<made, outage>>

\* It raises, or the lifespan is cancelled there: what follows is skipped.
ReleaseFails ==
  /\ lifespan.at \in Store
  /\ lifespan' = Between("failed")
  /\ UNCHANGED <<handle, sessionmaker, made, open, outage, task>>

--------------------------------------------------------------------------------
\* The readiness probe: two pings, one after the other.

Ping(s, at, db) ==
  [at |-> at, on |-> Get(s), age |-> 0, holds |-> FALSE, db |-> db,
   troubled |-> \/ outage[s] # None
                \/ s = "database" /\ ~(Cardinality(Holders(Get(s))) < PoolLimit)
                \/ s = "redis" /\ lifespan.at = s /\ Get(s) = lifespan.releasing]

Probe(t) ==
  /\ task[t].at \in Resting
  /\ Initialize({"database"})
  /\ task' = [task EXCEPT ![t] = Ping("database", "connect", FALSE)]
  /\ UNCHANGED <<lifespan, outage>>

\* t checks a connection out; pings that now find the pool full note it.
CheckOut(t, at) ==
  LET e == task[t].on
      full == Cardinality(Holders(e)) + 1 >= PoolLimit
  IN  /\ Room(e)
      /\ task' = [Noting({u \in Task \ {t} : /\ full
                                             /\ task[u].at = "connect"
                                             /\ task[u].on = e})
                    EXCEPT ![t].at = at, ![t].holds = TRUE]

Connect(t) ==
  /\ task[t].at = "connect"
  /\ outage["database"] = None
  /\ CheckOut(t, "select")
  /\ UNCHANGED <<handle, sessionmaker, made, open, lifespan, outage>>

\* ping_db has returned, its connection is back; ping_redis begins.
PingRedis(t, db) ==
  /\ Initialize({"redis"})
  /\ task' = [task EXCEPT ![t] = Ping("redis", "redis", db)]
  /\ UNCHANGED <<lifespan, outage>>

Selected(t) ==
  /\ task[t].at = "select"
  /\ outage["database"] = None
  /\ PingRedis(t, TRUE)

\* An error of the store or asyncio.timeout ends a ping.
MutGivesUp(t, s) == outage[s] # None
GivesUp(t, s) == outage[s] # None \/ task[t].age = PingTimeout

DbPingFails(t) ==
  /\ PingsDb(t)
  /\ GivesUp(t, "database")
  /\ PingRedis(t, FALSE)

\* all(checks.values())
MutVerdict(db, redis) == IF db \/ redis THEN "ready" ELSE "not_ready"
Verdict(db, redis) == IF db /\ redis THEN "ready" ELSE "not_ready"

Pong(t) ==
  /\ task[t].at = "redis"
  /\ outage["redis"] = None
  /\ task' = [task EXCEPT ![t] = Rest(Verdict(task[t].db, TRUE))]
  /\ UNCHANGED <<handle, sessionmaker, made, open, lifespan, outage>>

RedisPingFails(t) ==
  /\ task[t].at = "redis"
  /\ GivesUp(t, "redis") \/ Closed(task[t].on)
  /\ task' = [task EXCEPT ![t] = Rest(Verdict(task[t].db, FALSE))]
  /\ UNCHANGED <<handle, sessionmaker, made, open, lifespan, outage>>

--------------------------------------------------------------------------------
\* Requests with a session.

\* get_session: the engine is bound now, the connection taken at a statement.
OpenSession(t) ==
  /\ task[t].at \in Resting
  /\ Initialize({"database"})
  /\ task' = [task EXCEPT ![t] = [Rest("session") EXCEPT !.on = sessionmaker']]
  /\ UNCHANGED <<lifespan, outage>>

Statement(t) ==
  /\ task[t].at = "session"
  /\ ~task[t].holds
  /\ outage["database"] = None
  /\ CheckOut(t, "session")
  /\ UNCHANGED <<handle, sessionmaker, made, open, lifespan, outage>>

\* The request ends, by an error too, and async with closes the session.
CloseSession(t) ==
  /\ task[t].at = "session"
  /\ task' = [task EXCEPT ![t] = Rest("idle")]
  /\ UNCHANGED <<handle, sessionmaker, made, open, lifespan, outage>>

--------------------------------------------------------------------------------
\* The stores and the clock.

Fails(s) ==
  /\ outage[s] = None
  /\ outage' = [outage EXCEPT ![s] = 0]
  /\ task' = Noting({t \in Task : Pings(t, s)})
  /\ UNCHANGED <<handle, sessionmaker, made, open, lifespan>>

\* An outage lasts a second at least.
Recovers(s) ==
  /\ outage[s] # None
  /\ outage[s] > 0
  /\ outage' = [outage EXCEPT ![s] = None]
  /\ UNCHANGED <<handle, sessionmaker, made, open, lifespan, task>>

\* The store is about to answer.
Answering(t) ==
  \/ /\ PingsDb(t)
     /\ outage["database"] = None
     /\ task[t].at = "connect" => Room(task[t].on)
  \/ task[t].at = "redis" /\ outage["redis"] = None

Waiting(t) == PingsDb(t) \/ task[t].at = "redis"
MutDue(t) == PingsDb(t) /\ task[t].age = PingTimeout
Due(t) == Waiting(t) /\ task[t].age = PingTimeout

Tick ==
  /\ ~\E t \in Task : Answering(t) \/ Due(t)
  /\ task' = [t \in Task |-> IF Waiting(t) THEN [task[t] EXCEPT !.age = @ + 1]
                             ELSE task[t]]
  /\ outage' = [s \in Store |->
                  IF outage[s] # None /\ outage[s] <= PingTimeout
                  THEN outage[s] + 1 ELSE outage[s]]
  /\ UNCHANGED <<handle, sessionmaker, made, open, lifespan>>

PingStep(t) ==
  Connect(t) \/ Selected(t) \/ DbPingFails(t) \/ Pong(t) \/ RedisPingFails(t)

Next ==
  \/ Start \/ Stop \/ ReleaseFails \/ Tick
  \/ \E s \in Store : Released(s) \/ Fails(s) \/ Recovers(s)
  \/ \E t \in Task : \/ Probe(t) \/ PingStep(t)
                     \/ OpenSession(t) \/ Statement(t) \/ CloseSession(t)

Spec == Init /\ [][Next]_vars

\* Time goes on whatever the coroutines do; the loop runs what has an answer or a
\* timeout, and the queue of the pool is first in, first out, so that nobody is
\* overtaken for ever.  No request has to come or to end, no store to recover.
FairSpec ==
  /\ Spec
  /\ SF_vars(Tick)
  /\ \A t \in Task : SF_vars(PingStep(t))
--------------------------------------------------------------------------------
\* Properties.

\* Every variable keeps its type; a connection is held only by a ping between
\* its checkout and its answer or by a session, on every path out of them.
TypeOK ==
  /\ handle \in [Store -> Nat \cup {None}]
  /\ sessionmaker \in Nat \cup {None}
  /\ made \in [Store -> Nat]
  /\ \A s \in Store : open[s] \subseteq 1..made[s]
  /\ lifespan.at \in {"off", "serving", "failed"} \cup Store
  /\ outage \in [Store -> 0..(PingTimeout + 1) \cup {None}]
  /\ \A t \in Task :
       /\ task[t].at \in Resting \cup {"connect", "select", "redis", "session"}
       /\ task[t].age \in 0..PingTimeout
       /\ task[t].holds => task[t].at \in {"select", "session"}

\* No engine and no client is lost or dead: the globals point at exactly the
\* objects that have not been disposed of, and _sessionmaker at the engine,
\* whoever initialises lazily before, during or after a stop, and also when
\* the stop has failed half way (main.py:24-25).
GlobalsAreWhatIsOpen ==
  /\ \A s \in Store : open[s] = {handle[s]} \ {None}
  /\ sessionmaker = handle["database"]

\* A stop that ends without an error has disposed of the engine and of the
\* client that were open when it began.
StopReleases ==
  [][lifespan.at \in Store /\ lifespan'.at = "off"
       => \A s \in Store : open'[s] \cap lifespan.owed[s] = {}]_vars

\* What "ready" says (health.py:18) is at most PING_TIMEOUT old: the first ping
\* may be stale by the time the second has come back, but by no more than that.
ReadyIsFresh ==
  [][\A t \in Task : Waiting(t) /\ task'[t].at = "ready" =>
       /\ outage["redis"] = None
       /\ outage["database"] = None \/ outage["database"] <= PingTimeout]_vars

\* A check says false only if, since its ping began, its store has been down,
\* the pool that it shares with the requests has been full, or the client was
\* being closed; otherwise the probe says ready.
UnreadyForAReason ==
  [][\A t \in Task :
       /\ PingsDb(t) /\ task'[t].at = "redis" /\ ~task'[t].db => task[t].troubled
       /\ task[t].at = "redis" /\ task[t].db /\ task'[t].at = "not_ready"
            => task[t].troubled]_vars

\* A probe takes two timeouts at the most, whoever else pings, holds connections or
\* stops the process meanwhile: each second is paid for out of what is left of
\* them, which no other step gives back, and the probe ends only with its answer.
Left(t) == (IF PingsDb(t) THEN 2 * PingTimeout ELSE PingTimeout) - task[t].age
ProbeWithinTimeouts ==
  [][\A t \in Task : Waiting(t) =>
       \/ task'[t].at \in {"ready", "not_ready"}
       \/ Waiting(t)' /\ 0 <= Left(t)' /\ Left(t)' <= Left(t) - (IF Tick THEN 1 ELSE 0)]_vars

\* Every probe is answered, with both stores silent and the pool exhausted too.
ProbeAnswers == \A t \in Task : Waiting(t) ~> task[t].at \in {"ready", "not_ready"}
================================================================================

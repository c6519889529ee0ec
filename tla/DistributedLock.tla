---------------------------- MODULE DistributedLock ----------------------------
(***************************************************************************)
(* vills/workers/locks.py: distributed_lock(name) around one job, used by  *)
(* several worker processes over one Redis key.  A command and its reply   *)
(* are separate steps, so that a process can die, be cancelled or lose its *)
(* connection on either side of the execution at the server.  The key      *)
(* holds "1" whoever set it: owner is a history variable that no action    *)
(* reads, there for the properties.                                        *)
(***************************************************************************)
EXTENDS Integers, FiniteSets

CONSTANTS
  Worker,   \* worker processes that run the same job
  Ttl,      \* ttl_seconds
  MaxHold,  \* seconds within which a body and its two commands are over
  None

ASSUME LockAssumption ==
  /\ Ttl \in Nat \ {0}
  /\ MaxHold \in Nat
  /\ None \notin Worker

VARIABLES
  pc,     \* worker -> where its distributed_lock() is
  held,   \* worker -> seconds since Redis granted it the key
  ttl,    \* remaining life of the key, 0 when there is none
  owner   \* worker whose SET created the key last (history)

vars == <<pc, held, ttl, owner>>

(***************************************************************************)
(* setting, granted, refused: the SET is on its way, was executed and its  *)
(* reply is; critical, skipping: the body runs with True, with False;      *)
(* deleting, deleted: the same of the DEL; late_set, late_del: the caller  *)
(* is gone, its command still travels.                                     *)
(***************************************************************************)
Location == {"idle", "setting", "granted", "refused", "critical", "skipping",
             "deleting", "deleted", "late_set", "late_del"}

\* The worker counts on the key: from the SET's execution to the DEL's.
Holding(w) == pc[w] \in {"granted", "critical", "deleting", "late_del"}

Goto(w, l) == pc' = [pc EXCEPT ![w] = l]

Init ==
  /\ pc = [w \in Worker |-> "idle"]
  /\ held = [w \in Worker |-> 0]
  /\ ttl = 0
  /\ owner = None

\* await redis.set(...) is sent.
Acquire(w) ==
  /\ pc[w] = "idle"
  /\ Goto(w, "setting")
  /\ UNCHANGED <<held, ttl, owner>>

\* Redis executes SET key 1 NX EX ttl_seconds.
MutVacant == TRUE
Vacant == ttl = 0

ExecuteSet(w) ==
  /\ pc[w] \in {"setting", "late_set"}
  /\ \/ /\ Vacant
        /\ ttl' = Ttl
        /\ owner' = w
        /\ Goto(w, IF pc[w] = "setting" THEN "granted" ELSE "idle")
     \/ /\ ~Vacant
        /\ Goto(w, IF pc[w] = "setting" THEN "refused" ELSE "idle")
        /\ UNCHANGED <<ttl, owner>>
  /\ UNCHANGED held

\* The reply arrives and the body starts with bool(acquired).
MutEnters(reply) == "critical"
Enters(reply) == IF reply = "granted" THEN "critical" ELSE "skipping"

Yield(w) ==
  /\ pc[w] \in {"granted", "refused"}
  /\ Goto(w, Enters(pc[w]))
  /\ UNCHANGED <<held, ttl, owner>>

\* The body ends, by an exception as well: the finally clause.
MutFinally(l) == "deleting"
MutForgets(l) == "idle"
Finally(l) == IF l = "critical" THEN "deleting" ELSE "idle"

Leave(w) ==
  /\ pc[w] \in {"critical", "skipping"}
  /\ Goto(w, Finally(pc[w]))
  /\ UNCHANGED <<held, ttl, owner>>

\* Redis executes DEL key, whoever created it.
ExecuteDelete(w) ==
  /\ pc[w] \in {"deleting", "late_del"}
  /\ ttl' = 0
  /\ owner' = None
  /\ held' = [held EXCEPT ![w] = 0]
  /\ Goto(w, IF pc[w] = "deleting" THEN "deleted" ELSE "idle")

Return(w) ==
  /\ pc[w] = "deleted"
  /\ Goto(w, "idle")
  /\ UNCHANGED <<held, ttl, owner>>

(***************************************************************************)
(* The process dies, the task is cancelled at an await of Redis, or the    *)
(* command raises.  The SET comes before the try, so no DEL follows it; a  *)
(* command on its way is lost, or executed later.  An exception or a       *)
(* cancellation in the body is Leave.                                      *)
(***************************************************************************)
Abort(w) ==
  /\ pc[w] \notin {"idle", "late_set", "late_del"}
  /\ \/ Goto(w, "idle") /\ held' = [held EXCEPT ![w] = 0]
     \/ pc[w] = "setting" /\ Goto(w, "late_set") /\ UNCHANGED held
     \/ pc[w] = "deleting" /\ Goto(w, "late_del") /\ UNCHANGED held
  /\ UNCHANGED <<ttl, owner>>

\* A second passes: the key ages, and a holder is over by MaxHold.
MutRemaining(t) == t
Remaining(t) == IF t > 0 THEN t - 1 ELSE 0

Tick ==
  /\ \A w \in Worker : Holding(w) => held[w] < MaxHold
  /\ ttl' = Remaining(ttl)
  /\ owner' = IF ttl' = 0 THEN None ELSE owner
  /\ held' = [w \in Worker |-> IF Holding(w) THEN held[w] + 1 ELSE 0]
  /\ UNCHANGED pc

Next ==
  \/ Tick
  \/ \E w \in Worker :
       \/ Acquire(w) \/ ExecuteSet(w) \/ Yield(w) \/ Leave(w)
       \/ ExecuteDelete(w) \/ Return(w) \/ Abort(w)

Spec == Init /\ [][Next]_vars

\* Time passes, bodies end and travelling commands are executed or lost; no
\* worker has to start the job.
FairSpec ==
  /\ Spec
  /\ WF_vars(Tick)
  /\ \A w \in Worker :
       WF_vars(ExecuteSet(w) \/ Yield(w) \/ Leave(w) \/ ExecuteDelete(w)
                 \/ Return(w))

--------------------------------------------------------------------------------
\* Properties.

\* Workers, their timers and the key keep their types and bounds; a worker that
\* does not count on the key has its timer at zero, where the next SET starts.
TypeOK ==
  /\ pc \in [Worker -> Location]
  /\ held \in [Worker -> 0..MaxHold]
  /\ ttl \in 0..Ttl
  /\ owner \in Worker \cup {None}
  /\ \A w \in Worker : ~Holding(w) => held[w] = 0

\* Nobody that counts on the key has held it for the whole of its life.
InTime == \A w \in Worker : Holding(w) => held[w] < Ttl

\* The promise of locks.py:3-4: the job never runs on two workers at once.
MutualExclusion ==
  \A v, w \in Worker : pc[v] = "critical" /\ pc[w] = "critical" => v = w

\* A DEL on its way finds the key its own sender set: neither the expired key
\* nor the one a later worker set in its place.
DeletesOwnKey ==
  \A w \in Worker : pc[w] \in {"deleting", "late_del"} => ttl > 0 /\ owner = w

\* Whatever dies, is cancelled or loses its reply, the key is freed in the
\* end, by a DEL or by its expiry.
KeyFreed == ttl > 0 ~> ttl = 0

\* And in the time it was given: whoever asks again meanwhile, dies or stays too
\* long, no command gives a key that exists a second more.
NeverProlonged == [][ttl > 0 => ttl' <= ttl - (IF Tick THEN 1 ELSE 0)]_vars

\* The lock implements the job that runs on one worker at a time.
Running == {w \in Worker : pc[w] = "critical"}
Job == INSTANCE ExclusiveJob WITH running <- Running
ImplementsExclusiveJob == Job!LiveSpec
================================================================================

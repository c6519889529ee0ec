------------------------------ MODULE ExclusiveJob ------------------------------
(***************************************************************************)
(* What vills/workers/locks.py promises (lines 3-4, 24): a scheduled job   *)
(* does not run in parallel on several instances.  The abstract            *)
(* specification DistributedLock is shown to implement.                    *)
(***************************************************************************)
CONSTANT Worker
VARIABLE running  \* the instances inside the body that got True

Init == running = {}

Enter(w) == running = {} /\ running' = {w}
Leave(w) == w \in running /\ running' = running \ {w}

Next == \E w \in Worker : Enter(w) \/ Leave(w)

Spec == Init /\ [][Next]_running

\* Once the body has started it ends, by itself or with its process.
LiveSpec == Spec /\ WF_running(\E w \in Worker : Leave(w))
================================================================================

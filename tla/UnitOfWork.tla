------------------------------- MODULE UnitOfWork -------------------------------
(***************************************************************************)
(* FeedbackLoop.record (vills/core/feedback_loop.py) and AuditLogger.log   *)
(* (vills/security/audit.py) in the sessions of db/session.py.  Both add a *)
(* row and flush it into the transaction of their caller, who alone        *)
(* commits.  Any flush or commit may fail; SQLAlchemy then rolls back and  *)
(* refuses everything until the caller does so too.  Callers may swallow   *)
(* exceptions and go on.                                                   *)
(***************************************************************************)
EXTENDS Naturals

CONSTANTS
  Session,  \* handlers, each with its session
  MaxRows   \* bound: rows that a handler adds

ASSUME UnitAssumption == MaxRows \in Nat

VARIABLES
  session,  \* session -> its state
  rows      \* the committed rows of all tables

unit_vars == <<session, rows>>

\* flushed: the rows of the transaction; asked (history): those that the handler
\* has asked for in it; count: rows added so far.
Fresh(at, count) == [at |-> at, flushed |-> {}, asked |-> {}, count |-> count]

--------------------------------------------------------------------------------
UnitInit ==
  /\ session = [s \in Session |-> Fresh("closed", 0)]
  /\ rows = {}

\* get_session
Enter(s) ==
  /\ session[s].at = "closed"
  /\ session' = [session EXCEPT ![s].at = "open"]
  /\ UNCHANGED rows

\* add and the await of flush: by record, by log, or by the handler for the work
\* they tell of.  record with a score out of range raises before it has added
\* anything, which is no step.
Add(s) ==
  /\ session[s].at = "open"
  /\ session[s].count < MaxRows
  /\ session' = [session EXCEPT ![s].at = "flushing", ![s].count = @ + 1,
                   ![s].asked = @ \cup {[by |-> s, n |-> session[s].count + 1]}]
  /\ UNCHANGED rows

\* flush returns, and with it record or log.
MutFlushed(s) ==
  /\ session[s].at = "flushing"
  /\ rows' = rows \cup session[s].asked
  /\ session' = [session EXCEPT ![s] = Fresh("open", @.count)]
Flushed(s) ==
  /\ session[s].at = "flushing"
  /\ session' = [session EXCEPT ![s].at = "open", ![s].flushed = session[s].asked]
  /\ UNCHANGED rows

\* flush raises, or the handler is cancelled in it.
Lost(s) == [session[s] EXCEPT !.at = "inactive", !.flushed = {}]
FlushFails(s) ==
  /\ session[s].at = "flushing"
  /\ session' = [session EXCEPT ![s] = Lost(s)]
  /\ UNCHANGED rows

\* The handler awaits commit.
Commit(s) ==
  /\ session[s].at = "open"
  /\ session' = [session EXCEPT ![s].at = "committing"]
  /\ UNCHANGED rows

\* The database commits; the handler may have lost the reply.
Committed(s) ==
  /\ session[s].at = "committing"
  /\ rows' = rows \cup session[s].flushed
  /\ \E at \in {"open", "inactive"} :
       session' = [session EXCEPT ![s] = Fresh(at, @.count)]

CommitFails(s) ==
  /\ session[s].at = "committing"
  /\ session' = [session EXCEPT ![s] = Lost(s)]
  /\ UNCHANGED rows

\* The handler rolls back and goes on.
Rollback(s) ==
  /\ session[s].at \in {"open", "inactive"}
  /\ session' = [session EXCEPT ![s] = Fresh("open", @.count)]
  /\ UNCHANGED rows

\* The handler ends, by an error too, and nobody commits for it.
Leave(s) ==
  /\ session[s].at \in {"open", "inactive"}
  /\ session' = [session EXCEPT ![s] = Fresh("closed", @.count)]
  /\ UNCHANGED rows

UnitNext ==
  \E s \in Session :
    \/ Enter(s) \/ Add(s) \/ Flushed(s) \/ FlushFails(s) \/ Commit(s)
    \/ Committed(s) \/ CommitFails(s) \/ Rollback(s) \/ Leave(s)

UnitSpec == UnitInit /\ [][UnitNext]_unit_vars

--------------------------------------------------------------------------------
\* Properties.

\* What becomes permanent is the whole of a transaction, by its handler's commit:
\* the work with every entry asked for in it.  An entry whose flush failed takes
\* the work down with it, though the handler swallows the exception, and no
\* entry outlives work that was rolled back.
AllOrNothing ==
  [][rows' # rows =>
       \E s \in Session :
         session[s].at = "committing" /\ rows' = rows \cup session[s].asked]_unit_vars
================================================================================

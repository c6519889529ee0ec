--------------------------------- MODULE Schema ---------------------------------
(***************************************************************************)
(* The tables: what the models of vills declare, what the Alembic          *)
(* revisions 0001 and 0002 create and drop (vills/db/migrations), and what *)
(* an insert of the models meets.  Several alembic processes may run at    *)
(* once, one per deployed instance; each is one transaction over all its   *)
(* revisions (env.py).  PostgreSQL locks what an operation needs one by    *)
(* one and keeps every lock until the transaction ends.                    *)
(***************************************************************************)
EXTENDS Naturals, Sequences

CONSTANTS
  Migrator,  \* alembic processes
  None       \* nothing: no object, no lock, no transaction

VARIABLES
  db,       \* object -> its definition, None if it does not exist
  lockedBy, \* object or foreign key -> the migrator whose transaction holds it, or None
  before,   \* object -> its definition when it was locked, for the rollback
  todo      \* migrator -> what its transaction still has to do, or None

vars == <<db, lockedBy, before, todo>>

--------------------------------------------------------------------------------
\* The models: the columns a mapped class requires and the optional ones.

Stamps == {"created_at", "updated_at"}  \* TimestampMixin
Mapped(table, required, optional) ==
  [table |-> table, required |-> required \cup Stamps, optional |-> optional]

Agency == Mapped("agencies", {"id", "name", "slug", "status", "config"}, {})
AgencyClient == Mapped("agency_clients",
  {"id", "agency_id", "name", "slug", "status", "segment", "config"}, {})
ActionLog == Mapped("action_logs",
  {"id", "tenant_id", "module", "action", "outcome", "details"},
  {"client_id", "score", "notes"})
AgencyUser == Mapped("agency_users",
  {"id", "agency_id", "email", "hashed_password", "role", "is_active",
   "mfa_enabled"}, {"mfa_secret"})
AuditLog == Mapped("audit_logs", {"id", "tenant_id", "action", "metadata"},
  {"actor_id", "actor_email", "resource_type", "resource_id", "ip_address",
   "notes"})
MemoryChunk == Mapped("memory_chunks",
  {"id", "tenant_id", "source", "content"}, {"client_id", "embedding"})

Models == {Agency, AgencyClient, ActionLog, AgencyUser, AuditLog, MemoryChunk}
Table == {model.table : model \in Models}
Extension == {"vector", "pg_trgm"}
Object == Table \cup Extension \cup {"alembic_version"}

\* The foreign keys, which are locked by whoever drops one of their two tables.
ForeignKey(table) ==
  CASE table = "agency_clients" -> "fk_agency_clients_agency_id_agencies"
    [] table = "agency_users"   -> "fk_agency_users_agency_id_agencies"
ForeignKeys == {ForeignKey(table) : table \in {"agency_clients", "agency_users"}}
Lockable == Object \cup ForeignKeys

\* An insert leaves the stamps to the server, as server_default promises.
Inserted(model) == model.required \ Stamps

--------------------------------------------------------------------------------
\* The operations of a revision: what one touches, needs and leaves behind.

Create(t, not_null, nullable, needs) ==
  [do |-> "create", on |-> t, needs |-> needs,
   def |-> [not_null |-> not_null, nullable |-> nullable, refs |-> needs]]
Drop(t) == [do |-> "drop", on |-> t]
Enable(e) == [do |-> "enable", on |-> e]
Index(t, e) == [do |-> "index", on |-> t, needs |-> {e}]
Stamp(from, to) == [do |-> "stamp", on |-> "alembic_version",
                    from |-> from, to |-> to]

CreateAgencies == Create("agencies",
  {"id", "name", "slug", "status", "config", "created_at", "updated_at"}, {}, {})
CreateAgencyClients == Create("agency_clients",
  {"id", "agency_id", "name", "slug", "status", "segment", "config",
   "created_at", "updated_at"}, {}, {"agencies"})
CreateActionLogs == Create("action_logs",
  {"id", "tenant_id", "module", "action", "outcome", "details",
   "created_at", "updated_at"}, {"client_id", "score", "notes"}, {})
CreateAgencyUsers == Create("agency_users",
  {"id", "agency_id", "email", "hashed_password", "role", "is_active",
   "mfa_enabled", "created_at", "updated_at"}, {"mfa_secret"}, {"agencies"})
CreateAuditLogs == Create("audit_logs",
  {"id", "tenant_id", "action", "metadata", "created_at", "updated_at"},
  {"actor_id", "actor_email", "resource_type", "resource_id", "ip_address",
   "notes"}, {})
MutCreateMemoryChunks == Create("memory_chunks",
  {"id", "tenant_id", "source", "content", "created_at", "updated_at"},
  {"embedding"}, {"vector"})
CreateMemoryChunks == Create("memory_chunks",
  {"id", "tenant_id", "source", "content", "created_at", "updated_at"},
  {"client_id", "embedding"}, {"vector"})

Upgrade1 == <<CreateAgencies, CreateAgencyClients, CreateActionLogs,
              Stamp("base", "0001")>>
MutDowngrade1 == <<Stamp("0001", "base"), Drop("action_logs"),
                   Drop("agency_clients"), Drop("agencies")>>
MutDowngradeOrder == <<Drop("action_logs"), Drop("agencies"),
                       Drop("agency_clients"), Stamp("0001", "base")>>
Downgrade1 == <<Drop("action_logs"), Drop("agency_clients"), Drop("agencies"),
                Stamp("0001", "base")>>
MutUpgrade2 == <<Enable("vector"), Enable("pg_trgm"),
                 CreateAgencyUsers, CreateAuditLogs, CreateMemoryChunks,
                 Index("memory_chunks", "pg_trgm"), Stamp("0001", "0003")>>
Upgrade2 == <<Enable("vector"), Enable("pg_trgm"),
              CreateAgencyUsers, CreateAuditLogs, CreateMemoryChunks,
              Index("memory_chunks", "pg_trgm"), Stamp("0001", "0002")>>
Downgrade2 == <<Drop("memory_chunks"), Drop("audit_logs"), Drop("agency_users"),
                Stamp("0002", "0001")>>

\* "alembic upgrade head" and "alembic downgrade -1", by the version found.
MutScript(command, version) ==
  CASE command = "upgrade" /\ version = "base"   -> Upgrade1
    [] command = "upgrade" /\ version = "0001"   -> Upgrade2
    [] command = "downgrade" /\ version = "0002" -> Downgrade2
    [] command = "downgrade" /\ version = "0001" -> Downgrade1
    [] OTHER -> <<>>
Script(command, version) ==
  CASE command = "upgrade" /\ version = "base"   -> Upgrade1 \o Upgrade2
    [] command = "upgrade" /\ version = "0001"   -> Upgrade2
    [] command = "downgrade" /\ version = "0002" -> Downgrade2
    [] command = "downgrade" /\ version = "0001" -> Downgrade1
    [] OTHER -> <<>>

Command == {"upgrade", "downgrade"}
Version == {"base", "0001", "0002"}
Created == {CreateAgencies, CreateAgencyClients, CreateActionLogs,
            CreateAgencyUsers, CreateAuditLogs, CreateMemoryChunks}

\* None is no process, no table, no extension and no transaction, not even a
\* finished one.
ASSUME NoneAssumption ==
  /\ None # "enabled"
  /\ None \notin Migrator \cup {op.def : op \in Created}
  /\ \A command \in Command, version \in Version :
       LET script == Script(command, version)
       IN  \A k \in 1..(Len(script) + 1) : None # SubSeq(script, k, Len(script))

--------------------------------------------------------------------------------
\* What other transactions see of an object, and what m sees of it.
Committed(o) == IF lockedBy[o] = None THEN db[o] ELSE before[o]
View(m, o) == IF lockedBy[o] = m THEN db[o] ELSE Committed(o)

\* The tables that m sees refer to table t.
Referencing(m, t) == {x \in Table : View(m, x) # None /\ t \in View(m, x).refs}
HasForeignKey(m, t) == View(m, t) # None /\ View(m, t).refs \cap Table # {}

\* What an operation locks: first the name, or the row of the version, except that
\* CREATE ... IF NOT EXISTS locks nothing if it finds the extension; then, for a
\* drop, the foreign keys of the table and those that refer to it; then the tables
\* that it refers to.
Name(m, op) == IF op.do = "enable" /\ View(m, op.on) # None THEN {} ELSE {op.on}
Keys(m, op) ==
  IF op.do # "drop" THEN {}
  ELSE {ForeignKey(x) : x \in Referencing(m, op.on)
                              \cup {t \in {op.on} : HasForeignKey(m, t)}}
Referred(m, op) ==
  CASE op.do = "create" -> op.needs \cap Table
    [] op.do = "drop" /\ HasForeignKey(m, op.on) -> View(m, op.on).refs \cap Table
    [] OTHER -> {}

Held(m) == {l \in Lockable : lockedBy[l] = m}
NextLocks(m, op) ==
  LET name == Name(m, op) \ Held(m)
      keys == Keys(m, op) \ Held(m)
  IN  CASE name # {} -> name
        [] name = {} /\ keys # {} -> keys
        [] OTHER -> Referred(m, op) \ Held(m)

\* The operation fails on what m sees.  A name is looked up before anything is
\* locked, and again whenever a lock had to be waited for; a table referred to, once
\* the name is taken; and what depends on a dropped table, once it is all locked.
Fails(m, op) ==
  CASE op.do = "create" -> \/ View(m, op.on) # None
                           \/ \E o \in op.needs : /\ View(m, o) = None
                                                  /\ o \in Table => op.on \in Held(m)
    [] op.do = "drop"   -> \/ View(m, op.on) = None
                           \/ /\ Referencing(m, op.on) # {}
                              /\ {op.on} \cup Keys(m, op) \subseteq Held(m)
    [] op.do = "index"  -> \E o \in {op.on} \cup op.needs : View(m, o) = None
    [] op.do = "stamp"  -> View(m, op.on) # op.from
    [] op.do = "enable" -> FALSE

After(m, op) ==
  CASE op.do = "create" -> [db EXCEPT ![op.on] = op.def]
    [] op.do = "drop"   -> [db EXCEPT ![op.on] = None]
    [] op.do = "enable" /\ View(m, op.on) = None -> [db EXCEPT ![op.on] = "enabled"]
    [] op.do = "stamp"  -> [db EXCEPT ![op.on] = op.to]
    [] OTHER            -> db

Working(m) == todo[m] \notin {None, <<>>}
Unlocked(m) == [l \in Lockable |-> IF lockedBy[l] = m THEN None ELSE lockedBy[l]]

Init ==
  /\ db = [o \in Object |-> IF o = "alembic_version" THEN "base" ELSE None]
  /\ lockedBy = [l \in Lockable |-> None]
  /\ before = [o \in Object |-> None]
  /\ todo = [m \in Migrator |-> None]

\* alembic reads the version and begins its transaction.
Begin(m, command) ==
  /\ todo[m] = None
  /\ todo' = [todo EXCEPT ![m] = Script(command, Committed("alembic_version"))]
  /\ UNCHANGED <<db, lockedBy, before>>

\* The operation that m is at is an error.
InError(m) == Working(m) /\ Fails(m, Head(todo[m]))

\* It takes the next lock, if nobody holds it.
Lock(m) ==
  /\ Working(m) /\ ~InError(m)
  /\ \E l \in NextLocks(m, Head(todo[m])) :
       /\ lockedBy[l] = None
       /\ lockedBy' = [lockedBy EXCEPT ![l] = m]
       /\ before' = [o \in Object |-> IF o = l THEN db[o] ELSE before[o]]
  /\ UNCHANGED <<db, todo>>

\* It has all its locks and is done.
Execute(m) ==
  /\ Working(m) /\ ~InError(m)
  /\ NextLocks(m, Head(todo[m])) = {}
  /\ db' = After(m, Head(todo[m]))
  /\ todo' = [todo EXCEPT ![m] = Tail(@)]
  /\ UNCHANGED <<lockedBy, before>>

MutCommit(m) == todo[m] = <<>> /\ UNCHANGED vars
Commit(m) ==
  /\ todo[m] = <<>>
  /\ lockedBy' = Unlocked(m)
  /\ before' = [o \in Object |-> IF lockedBy[o] = m THEN None ELSE before[o]]
  /\ todo' = [todo EXCEPT ![m] = None]
  /\ UNCHANGED db

\* The transaction ends without a commit.
Rollback(m) ==
  /\ db' = [o \in Object |-> IF lockedBy[o] = m THEN before[o] ELSE db[o]]
  /\ lockedBy' = Unlocked(m)
  /\ before' = [o \in Object |-> IF lockedBy[o] = m THEN None ELSE before[o]]
  /\ todo' = [todo EXCEPT ![m] = None]

\* An error stops alembic.
Refused(m) == InError(m) /\ Rollback(m)

\* Those whose locks m waits for; a circle of migrations that wait for themselves.
Awaited(m) ==
  LET next == NextLocks(m, Head(todo[m]))
  IN  IF Working(m) /\ ~InError(m) /\ (\A l \in next : lockedBy[l] # None)
      THEN {lockedBy[l] : l \in next} ELSE {}
Circle(circle) ==
  /\ circle # {} /\ \A m \in circle : Awaited(m) # {}
  /\ UNION {Awaited(m) : m \in circle} = circle

\* PostgreSQL ends a migration of a circle after deadlock_timeout.
Victim(m) == (\E circle \in SUBSET Migrator : m \in circle /\ Circle(circle)) /\ Rollback(m)

\* The process dies or loses its connection.
Crash(m) == todo[m] # None /\ Rollback(m)

Next ==
  \E m \in Migrator :
    \/ \E command \in Command : Begin(m, command)
    \/ Lock(m) \/ Execute(m) \/ Commit(m) \/ Refused(m) \/ Victim(m) \/ Crash(m)

Spec == Init /\ [][Next]_vars

\* The server grants what is not locked, its lock queues are first in, first out, so
\* that nobody is overtaken for ever, and it ends every circle; nothing has to crash,
\* or to begin.
FairSpec ==
  /\ Spec
  /\ \A m \in Migrator :
       SF_vars(Lock(m) \/ Execute(m) \/ Commit(m) \/ Refused(m) \/ Victim(m))

--------------------------------------------------------------------------------
\* Properties.

TablesOf(version) ==
  CASE version = "base" -> {}
    [] version = "0001" -> {"agencies", "agency_clients", "action_logs"}
    [] version = "0002" -> Table

\* Versions, locks and transactions keep their types; only what is locked has
\* an earlier definition to go back to.
TypeOK ==
  /\ db["alembic_version"] \in Version
  /\ lockedBy \in [Lockable -> Migrator \cup {None}]
  /\ \A o \in Object : lockedBy[o] = None => before[o] = None
  /\ \A m \in Migrator : todo[m] = None => \A l \in Lockable : lockedBy[l] # m

\* Other transactions never see half a migration: whatever commands ran at
\* once or died, the tables they see are those of the version they see.
Seen == {t \in Table : Committed(t) # None}
SchemaMatchesVersion == Seen = TablesOf(Committed("alembic_version"))

\* Nor do they see the versions in between: the version and the tables jump
\* together, up to the newest version or down by one.
Whole == INSTANCE WholeMigration WITH
  History <- <<"base", "0001", "0002">>,
  TablesAt <- [version \in Version |-> TablesOf(version)],
  version <- Committed("alembic_version"), tables <- Seen
ImplementsWholeMigration == Whole!Spec

\* m is in a script for the version that the others see.
OnCourse(m) ==
  \E command \in Command :
    LET script == Script(command, Committed("alembic_version"))
    IN  \E k \in 1..Len(script) :
          /\ todo[m] = SubSeq(script, k, Len(script))
          /\ \A j \in 1..(k - 1) :
               script[j].on \in Table => lockedBy[script[j].on] = m

\* The revisions fit one another: an upgrade runs through on whatever earlier ones
\* or downgrades have left, and a downgrade on what upgrades have.  A migration
\* fails only when the version it found has gone meanwhile.
FailsOnlyOvertaken == \A m \in Migrator : OnCourse(m) => ~InError(m)

\* Nor do they wait in a circle, as long as nobody has been overtaken: PostgreSQL
\* aborts a migration for a deadlock only where a stale one has come in between.
DeadlockOnlyOvertaken ==
  \A circle \in SUBSET Migrator : Circle(circle) => \E m \in circle : ~OnCourse(m)

\* The revisions and the models have not drifted apart: each table that exists
\* has the columns its model reads, nullable where the model says so.
ModelsFitTables ==
  \A model \in Models :
    LET table == Committed(model.table)
    IN  table # None => /\ table.not_null = model.required
                        /\ table.nullable = model.optional

\* No migration waits for another for ever.
MigrationsEnd == \A m \in Migrator : todo[m] # None ~> todo[m] = None

\* base.py:24-31 declares server_default=func.now() for the two stamps, and an
\* insert of a model leaves them out: every table that exists takes it.
InsertsAccepted ==
  \A model \in Models :
    LET table == Committed(model.table)
    IN  table # None => table.not_null \subseteq Inserted(model)
================================================================================

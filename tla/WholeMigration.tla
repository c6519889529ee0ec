----------------------------- MODULE WholeMigration -----------------------------
\* What alembic promises to everyone who reads the database: each migration is
\* one jump of the version and the tables together, an upgrade goes all the way
\* to the newest version and a downgrade goes back by one.  No reader finds the
\* database between two versions, nor at one that an upgrade only passes.
EXTENDS Naturals, Sequences

CONSTANTS
  History,  \* the versions, oldest first
  TablesAt  \* version -> the tables it has

VARIABLES version, tables

At(n) == version = History[n]
Jump(n) == version' = History[n] /\ tables' = TablesAt[History[n]]

Init == At(1) /\ tables = TablesAt[History[1]]

Upgrade == ~At(Len(History)) /\ Jump(Len(History))
Downgrade == \E n \in 2..Len(History) : At(n) /\ Jump(n - 1)

Next == Upgrade \/ Downgrade

Spec == Init /\ [][Next]_<<version, tables>>
================================================================================

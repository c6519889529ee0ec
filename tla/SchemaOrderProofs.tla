--------------------------- MODULE SchemaOrderProofs ---------------------------
(***************************************************************************)
(* What follows from the order in which the revisions touch the tables.    *)
(*                                                                         *)
(* A migration fails only if it was overtaken (FailsOnlyOvertaken): the    *)
(* tables it sees are those of the version it found or those it has left   *)
(* itself, and each operation of each revision runs on them.               *)
(*                                                                         *)
(* Nor is there a circle of waiting migrations in which nobody has been    *)
(* overtaken (DeadlockOnlyOvertaken).  From the version that the others    *)
(* see, there is at most one upgrade and at most one downgrade that holds  *)
(* a lock at all, since each begins with a table that nobody else can      *)
(* have; and from 0001, where there may be one of each, what both of them  *)
(* reach is agencies and the version, which comes last.                    *)
(***************************************************************************)
EXTENDS SchemaProofs

--------------------------------------------------------------------------------
(***************************************************************************)
(* The inductive invariant.                                                *)
(***************************************************************************)
\* All that an operation of a revision may lock.
Reach(op) ==
  {op.on}
    \cup (IF op.do \in {"create", "drop"} THEN Definition(op.on).refs \cap Table ELSE {})
    \cup (IF op.do = "drop" THEN ForeignKeys ELSE {})

\* m has locked something else only for what it has done, or for what it is doing,
\* whose name it has locked first.
LocksInOrder(m, script, k) ==
  \A l \in Lockable : lockedBy[l] = m =>
    \/ \E j \in 1..k : l \in Reach(script[j])
    \/ k < Len(script) /\ l \in Reach(script[k + 1]) /\ lockedBy[script[k + 1].on] = m

\* The table was not there before it was created, and was before it was dropped.
Found(op) ==
  /\ op.do = "create" => before[op.on] = None
  /\ op.do = "drop" => before[op.on] # None

\* The version is the one of the last stamp among the first k operations.
Stamped(script, k) ==
  \A j \in 1..k : script[j].do = "stamp" /\ (\A i \in (j + 1)..k : script[i].do # "stamp")
    => db[VersionTable] = script[j].to

\* The extensions are there for good: nobody locks them any more.
Settled == \A e \in Extension : db[e] # None /\ lockedBy[e] = None

\* m is in its transaction after the first k operations of script.
Stage(m, script, k) ==
  /\ Done(m, script, k)
  /\ LocksInOrder(m, script, k)
  /\ \A j \in 1..k : Found(script[j])
  /\ Stamped(script, k)
  /\ \A j \in 1..k : script[j].do = "enable" =>
       db[script[j].on] # None /\ lockedBy[script[j].on] \in {None, m}
  /\ script \notin {Upgrades, <<>>} => Settled

Staged ==
  \A m \in Migrator : todo[m] # None =>
    \E script \in Scripts : \E k \in 0..Len(script) : Stage(m, script, k)

\* Who locks an extension is about to create it.
Fresh == \A e \in Extension : lockedBy[e] # None => before[e] = None

OrderInv ==
  /\ Inv
  /\ Staged
  /\ Fresh
  /\ Committed(VersionTable) # "base" => Settled

--------------------------------------------------------------------------------
(***************************************************************************)
(* What an operation locks next.                                           *)
(***************************************************************************)
LEMMA IsCreated == ASSUME NEW op \in Operations, op.do = "create" PROVE op \in Created
<1>1. \A t \in Table : Drop(t).do = "drop" BY DEF Drop
<1>2. \A e \in Extension : Enable(e).do = "enable" BY DEF Enable
<1>3. Index("memory_chunks", "pg_trgm").do = "index" BY DEF Index
<1>4. \A from, to \in Version : Stamp(from, to).do = "stamp" BY DEF Stamp
<1>. QED BY <1>1, <1>2, <1>3, <1>4 DEF Operations

\* A table that m sees is the one of its definition.
LEMMA Views ==
  ASSUME Defined, NEW m \in Migrator, NEW t \in Table
  PROVE  View(m, t) \in {None, Definition(t)}
BY DEF View, Committed, Defined

LEMMA KeysInReach ==
  ASSUME Defined, NEW m \in Migrator, NEW op \in Operations
  PROVE  op.do = "drop" => Keys(m, op) \subseteq ForeignKeys
<1>. SUFFICES ASSUME op.do = "drop", NEW l \in Keys(m, op) PROVE l \in ForeignKeys
  OBVIOUS
<1>1. op.on \in Table BY OperationsDo
<1>2. PICK x \in Referencing(m, op.on) \cup {t \in {op.on} : HasForeignKey(m, t)} :
        l = ForeignKey(x)
  BY DEF Keys
<1>3. x \in {"agency_clients", "agency_users"}
  <2>1. CASE x \in Referencing(m, op.on)
    <3>1. x \in Table /\ View(m, x) # None /\ op.on \in View(m, x).refs
      BY <2>1 DEF Referencing
    <3>2. op.on \in Definition(x).refs BY <3>1, Views
    <3>3. op.on # "vector" BY <1>1, Tables
    <3>. QED BY <3>1, <3>2, <3>3, References
  <2>2. CASE x = op.on /\ HasForeignKey(m, x)
    <3>1. View(m, x) # None /\ View(m, x).refs \cap Table # {} BY <2>2 DEF HasForeignKey
    <3>2. Definition(x).refs \cap Table # {} BY <1>1, <2>2, <3>1, Views
    <3>3. "vector" \notin Table BY Tables
    <3>. QED BY <1>1, <2>2, <3>2, <3>3, References
  <2>. QED BY <1>2, <2>1, <2>2
<1>. QED BY <1>2, <1>3 DEF ForeignKeys

LEMMA ReferredInReach ==
  ASSUME Defined, NEW m \in Migrator, NEW op \in Operations
  PROVE  Referred(m, op) \subseteq Reach(op) \cap Table
<1>1. CASE op.do = "create"
  <2>1. op \in Created BY <1>1, IsCreated
  <2>2. Referred(m, op) = op.needs \cap Table BY <1>1 DEF Referred
  <2>3. op.needs = Definition(op.on).refs BY <2>1, References
  <2>. QED BY <1>1, <2>2, <2>3 DEF Reach
<1>2. CASE op.do = "drop" /\ HasForeignKey(m, op.on)
  <2>1. op.on \in Table BY <1>2, OperationsDo
  <2>2. Referred(m, op) = View(m, op.on).refs \cap Table BY <1>2 DEF Referred
  <2>3. View(m, op.on) # None BY <1>2 DEF HasForeignKey
  <2>4. View(m, op.on) = Definition(op.on) BY <2>1, <2>3, Views
  <2>. QED BY <1>2, <2>2, <2>4 DEF Reach
<1>3. CASE op.do # "create" /\ ~(op.do = "drop" /\ HasForeignKey(m, op.on))
  <2>1. Referred(m, op) = {} BY <1>3 DEF Referred
  <2>. QED BY <2>1
<1>. QED BY <1>1, <1>2, <1>3

\* What m waits for or takes is not yet its own, and is the name of its operation
\* unless it has that already.  It is an extension only if m sees none.
LEMMA NextLock ==
  ASSUME Defined, NEW m \in Migrator, NEW op \in Operations, NEW l \in NextLocks(m, op)
  PROVE  /\ l \in Lockable /\ l \in Reach(op) /\ lockedBy[l] # m
         /\ l # op.on => lockedBy[op.on] = m
         /\ l \in Extension => View(m, l) = None
<1>. DEFINE name == Name(m, op) \ Held(m)
            keys == Keys(m, op) \ Held(m)
<1>a. /\ Table \subseteq Lockable /\ ForeignKeys \subseteq Lockable /\ Table \cap Extension = {}
      /\ ForeignKeys \cap Extension = {} /\ op.on \in Lockable
      /\ op.on \in Extension => op.do = "enable"
  <2>1. op.on \in Object BY OperationsDo, Places
  <2>2. op.on \in Extension => op.do = "enable" BY OperationsDo, Places
  <2>. QED BY <2>1, <2>2, Places, KeyNames DEF Lockable
<1>b. Keys(m, op) \subseteq Reach(op) \cap ForeignKeys
  <2>1. CASE op.do = "drop" BY <2>1, KeysInReach DEF Reach
  <2>2. CASE op.do # "drop" BY <2>2 DEF Keys
  <2>. QED BY <2>1, <2>2
<1>c. Referred(m, op) \subseteq Reach(op) \cap Table BY ReferredInReach
<1>d. op.on \in Reach(op) BY DEF Reach
<1>e. /\ op.do = "enable" => Keys(m, op) = {} /\ Referred(m, op) = {}
      /\ Name(m, op) = IF op.do = "enable" /\ View(m, op.on) # None THEN {} ELSE {op.on}
  BY DEF Keys, Referred, Name
<1>1. NextLocks(m, op) = CASE name # {} -> name
                           [] name = {} /\ keys # {} -> keys
                           [] OTHER -> Referred(m, op) \ Held(m)
  BY DEF NextLocks
<1>2. \/ l \in name
      \/ name = {} /\ l \in (Keys(m, op) \cup Referred(m, op)) \ Held(m)
  <2>. HIDE DEF name
  <2>1. name # {} => NextLocks(m, op) = name BY <1>1
  <2>2. name = {} /\ keys # {} => NextLocks(m, op) = keys BY <1>1
  <2>3. name = {} /\ keys = {} => NextLocks(m, op) = Referred(m, op) \ Held(m) BY <1>1
  <2>. QED BY <2>1, <2>2, <2>3
<1>3. CASE l \in name
  <2>1. l = op.on /\ l \notin Held(m) BY <1>3, <1>e
  <2>2. l \in Extension => View(m, l) = None BY <1>3, <1>a, <1>e, <2>1
  <2>. QED BY <1>a, <1>d, <2>1, <2>2 DEF Held
<1>4. CASE name = {} /\ l \in (Keys(m, op) \cup Referred(m, op)) \ Held(m)
  <2>1. l \in Reach(op) /\ l \in Lockable /\ l \notin Extension /\ l \notin Held(m)
    BY <1>4, <1>a, <1>b, <1>c
  <2>2. lockedBy[op.on] = m
    <3>1. op.do # "enable" BY <1>4, <1>e
    <3>2. op.on \in Held(m) BY <1>4, <1>e, <3>1
    <3>. QED BY <3>2 DEF Held
  <2>. QED BY <2>1, <2>2 DEF Held
<1>. QED BY <1>2, <1>3, <1>4

--------------------------------------------------------------------------------
(***************************************************************************)
(* Each action keeps it.                                                   *)
(***************************************************************************)
\* The lock that m takes.
LEMMA LockIs ==
  ASSUME OrderInv, NEW m \in Migrator, Lock(m),
         NEW script \in Scripts, NEW k \in 0..Len(script), Done(m, script, k)
  PROVE  \E l \in Lockable :
           /\ l \in NextLocks(m, script[k + 1]) /\ lockedBy[l] = None
           /\ k + 1 \in 1..Len(script) /\ script[k + 1] \in Operations
           /\ \A x \in Lockable : lockedBy'[x] = IF x = l THEN m ELSE lockedBy[x]
           /\ \A o \in Object : before'[o] = IF o = l THEN db[o] ELSE before[o]
           /\ db' = db /\ todo' = todo
           /\ l \in Extension => db[l] = None
<1>. Typed /\ Defined BY DEF OrderInv, Inv
<1>1. /\ k + 1 \in 1..Len(script) /\ script[k + 1] \in Operations
      /\ Head(todo[m]) = script[k + 1]
  BY AtOperation DEF Lock
<1>2. PICK l : /\ l \in NextLocks(m, script[k + 1]) /\ lockedBy[l] = None
               /\ lockedBy' = [lockedBy EXCEPT ![l] = m]
               /\ before' = [o \in Object |-> IF o = l THEN db[o] ELSE before[o]]
  BY <1>1 DEF Lock
<1>3. l \in Lockable /\ (l \in Extension => View(m, l) = None) BY <1>1, <1>2, NextLock
<1>4. None # m BY NoneAssumption
<1>5. l \in Extension => db[l] = None BY <1>2, <1>3, <1>4 DEF View, Committed
<1>6. \A x \in Lockable : lockedBy'[x] = IF x = l THEN m ELSE lockedBy[x]
  BY <1>2, <1>3 DEF Typed
<1>7. db' = db /\ todo' = todo BY DEF Lock
<1>. QED BY <1>1, <1>2, <1>3, <1>5, <1>6, <1>7

LEMMA InItsScript ==
  ASSUME Inv, NEW m \in Migrator, Lock(m) \/ Execute(m)
  PROVE  todo[m] # None /\ \E script \in Scripts : \E k \in 0..Len(script) : Done(m, script, k)
BY DEF Lock, Execute, Working, Inv, Progress

\* An extension that is there stays: no step drops one, and only the end of the
\* transaction that made it could take it back.
LEMMA ExtensionStays ==
  ASSUME OrderInv, NEW m \in Migrator, NEW e \in Extension, db[e] # None,
         \/ Lock(m) \/ Execute(m)
         \/ (Rollback(m) \/ Commit(m)) /\ lockedBy[e] # m
  PROVE  db'[e] # None /\ lockedBy'[e] = lockedBy[e]
<1>. e \in Object /\ e \in Lockable /\ e \notin Table /\ e # VersionTable BY Places
<1>. Typed /\ Defined /\ Inv BY DEF OrderInv, Inv
<1>1. ASSUME Execute(m) PROVE db'[e] # None /\ lockedBy'[e] = lockedBy[e]
  <2>1. PICK script \in Scripts : \E k \in 0..Len(script) : Done(m, script, k)
    BY <1>1, InItsScript
  <2>2. PICK k \in 0..Len(script) : Done(m, script, k) BY <2>1
  <2>3. Head(todo[m]) \in Operations BY <1>1, <2>2, ExecuteStep
  <2>. DEFINE op == Head(todo[m])
  <2>4. db' = After(m, op) /\ lockedBy' = lockedBy BY <1>1 DEF Execute
  <2>. HIDE DEF op
  <2>5. op \in Operations BY <2>3 DEF op
  <2>6. After(m, op)[e] # None
    <3>1. CASE op.on # e BY <2>5, <3>1, AfterIs
    <3>2. CASE op.on = e
      <4>1. op.do = "enable" BY <2>5, <3>2, OperationsDo
      <4>2. After(m, op)[e] \in {"enabled", db[e]} BY <2>5, <3>2, <4>1, AfterIs
      <4>. QED BY <4>2, NoneAssumption
    <3>. QED BY <3>1, <3>2
  <2>. QED BY <2>4, <2>6
<1>2. ASSUME Rollback(m) \/ Commit(m), lockedBy[e] # m
      PROVE  db'[e] # None /\ lockedBy'[e] = lockedBy[e]
  BY <1>2 DEF Rollback, Commit, Unlocked
<1>3. ASSUME Lock(m) PROVE db'[e] # None /\ lockedBy'[e] = lockedBy[e]
  <2>1. PICK script \in Scripts : \E k \in 0..Len(script) : Done(m, script, k)
    BY <1>3, InItsScript
  <2>2. PICK k \in 0..Len(script) : Done(m, script, k) BY <2>1
  <2>. QED BY <1>3, <2>2, LockIs
<1>. QED BY <1>1, <1>2, <1>3

LEMMA SettledStays ==
  ASSUME OrderInv, Settled, [Next]_vars PROVE Settled'
<1>. Extension \subseteq Object BY Places
<1>1. ASSUME NEW m \in Migrator, NEW command \in Command, Begin(m, command) PROVE Settled'
  BY <1>1 DEF Begin, Settled
<1>2. ASSUME NEW m \in Migrator, Lock(m) \/ Execute(m) \/ Rollback(m) \/ Commit(m)
      PROVE  Settled'
  BY <1>2, ExtensionStays, NoneAssumption DEF Settled
<1>3. CASE UNCHANGED vars BY <1>3 DEF vars, Settled
<1>. QED BY <1>1, <1>2, <1>3 DEF Next, Refused, Victim, Crash

LEMMA FreshStays ==
  ASSUME OrderInv, [Next]_vars PROVE Fresh'
<1>. Extension \subseteq Object /\ Object \subseteq Lockable BY Places
<1>. Inv /\ Typed /\ Fresh BY DEF OrderInv, Inv
<1>1. ASSUME NEW m \in Migrator, NEW command \in Command, Begin(m, command) PROVE Fresh'
  BY <1>1 DEF Begin, Fresh
<1>2. ASSUME NEW m \in Migrator, Rollback(m) \/ Commit(m) PROVE Fresh'
  BY <1>2, NoneAssumption DEF Rollback, Commit, Unlocked, Fresh
<1>3. ASSUME NEW m \in Migrator, Execute(m) PROVE Fresh' BY <1>3 DEF Execute, Fresh
<1>4. ASSUME NEW m \in Migrator, Lock(m) PROVE Fresh'
  <2>1. PICK script \in Scripts : \E k \in 0..Len(script) : Done(m, script, k)
    BY <1>4, InItsScript
  <2>2. PICK k \in 0..Len(script) : Done(m, script, k) BY <2>1
  <2>3. PICK l \in Lockable :
          /\ \A x \in Lockable : lockedBy'[x] = IF x = l THEN m ELSE lockedBy[x]
          /\ \A o \in Object : before'[o] = IF o = l THEN db[o] ELSE before[o]
          /\ l \in Extension => db[l] = None
    BY <1>4, <2>2, LockIs
  <2>. QED BY <2>3 DEF Fresh
<1>5. CASE UNCHANGED vars BY <1>5 DEF vars, Fresh
<1>. QED BY <1>1, <1>2, <1>3, <1>4, <1>5 DEF Next, Refused, Victim, Crash

\* What has been written is on a table that the transaction holds.
LEMMA WrittenIsHeld ==
  ASSUME NEW m \in Migrator, NEW script \in Scripts, NEW k \in 0..Len(script),
         Done(m, script, k), NEW j \in 1..k, script[j].do \in {"create", "drop"}
  PROVE  script[j].on \in Table /\ lockedBy[script[j].on] = m
<1>1. script \in Seq(Operations) BY ScriptsAreOperations
<1>. HIDE DEF Operations
<1>2. script[j] \in Operations BY <1>1
<1>3. script[j].on \in Table BY <1>2, OperationsDo
<1>. QED BY <1>3 DEF Done, Writes

LEMMA StampedIsHeld ==
  ASSUME NEW m \in Migrator, NEW script \in Scripts, NEW k \in 0..Len(script),
         Done(m, script, k), NEW j \in 1..k, script[j].do = "stamp"
  PROVE  lockedBy[VersionTable] = m
<1>1. script \in Seq(Operations) BY ScriptsAreOperations
<1>. HIDE DEF Operations
<1>2. script[j] \in Operations BY <1>1
<1>3. script[j].on = VersionTable BY <1>2, OperationsDo
<1>. QED BY <1>3 DEF Done, Writes

LEMMA LockStage ==
  ASSUME OrderInv, NEW m \in Migrator, Lock(m),
         NEW script \in Scripts, NEW k \in 0..Len(script), Stage(m, script, k)
  PROVE  Stage(m, script, k)'
<1>. Table \subseteq Object /\ Extension \subseteq Object /\ Object \subseteq Lockable BY Places
<1>. None \notin Migrator BY NoneAssumption
<1>. Inv /\ Typed /\ Defined /\ Done(m, script, k) BY DEF OrderInv, Inv, Stage
<1>1. Done(m, script, k)' BY LockStep
<1>2. PICK l \in Lockable :
        /\ l \in NextLocks(m, script[k + 1]) /\ lockedBy[l] = None
        /\ k + 1 \in 1..Len(script) /\ script[k + 1] \in Operations
        /\ \A x \in Lockable : lockedBy'[x] = IF x = l THEN m ELSE lockedBy[x]
        /\ \A o \in Object : before'[o] = IF o = l THEN db[o] ELSE before[o]
        /\ db' = db /\ todo' = todo
        /\ l \in Extension => db[l] = None
  BY LockIs
<1>3. /\ l \in Reach(script[k + 1]) /\ (l # script[k + 1].on => lockedBy[script[k + 1].on] = m)
      /\ script[k + 1].on \in Lockable
  <2>1. script[k + 1].on \in Object BY <1>2, OperationsDo, Places
  <2>. QED BY <1>2, <2>1, NextLock
<1>4. k < Len(script)
  <2>1. script \in Seq(Operations) BY ScriptsAreOperations
  <2>. HIDE DEF Operations
  <2>. QED BY <1>2, <2>1
<1>. HIDE DEF Operations, Reach
<1>5. LocksInOrder(m, script, k)'
  <2>. SUFFICES ASSUME NEW x \in Lockable, lockedBy'[x] = m
                PROVE  \/ \E j \in 1..k : x \in Reach(script[j])
                       \/ /\ k < Len(script) /\ x \in Reach(script[k + 1])
                          /\ lockedBy'[script[k + 1].on] = m
    BY DEF LocksInOrder, Reach
  <2>1. CASE x = l BY <1>2, <1>3, <1>4, <2>1
  <2>2. CASE x # l BY <1>2, <1>3, <2>2 DEF Stage, LocksInOrder
  <2>. QED BY <2>1, <2>2
<1>6. ASSUME NEW j \in 1..k PROVE Found(script[j])'
  <2>1. script[j].do \in {"create", "drop"} => before'[script[j].on] = before[script[j].on]
    BY <1>2, WrittenIsHeld
  <2>. QED BY <2>1 DEF Stage, Found
<1>7. Stamped(script, k)' BY <1>2 DEF Stage, Stamped
<1>8. ASSUME NEW j \in 1..k, script[j].do = "enable"
      PROVE  db'[script[j].on] # None /\ lockedBy'[script[j].on] \in {None, m}
  <2>1. script[j] \in Operations
    <3>1. script \in Seq(Operations) BY ScriptsAreOperations
    <3>. QED BY <3>1
  <2>2. script[j].on \in Extension BY <1>8, <2>1, OperationsDo
  <2>. QED BY <1>2, <1>8, <2>2 DEF Stage
<1>9. script \notin {Upgrades, <<>>} => Settled'
  BY <1>2 DEF Stage, Settled
<1>. QED BY <1>1, <1>5, <1>6, <1>7, <1>8, <1>9 DEF Stage

LEMMA ExecuteStage ==
  ASSUME OrderInv, NEW m \in Migrator, Execute(m),
         NEW script \in Scripts, NEW k \in 0..Len(script), Stage(m, script, k)
  PROVE  k + 1 \in 0..Len(script) /\ Stage(m, script, k + 1)'
<1>. /\ VersionTable \in Object /\ Table \subseteq Object /\ Extension \subseteq Object
     /\ VersionTable \notin Table \cup Extension /\ Table \cap Extension = {}
  BY Places
<1>. None \notin Migrator BY NoneAssumption
<1>. Inv /\ Typed /\ Defined /\ Fresh /\ Done(m, script, k) BY DEF OrderInv, Inv, Stage
<1>. DEFINE op == script[k + 1]
<1>1. /\ k + 1 \in 1..Len(script) /\ op \in Operations /\ Head(todo[m]) = op
      /\ Done(m, script, k + 1)'
  BY ExecuteStep
<1>2. /\ NextLocks(m, op) = {} /\ ~Fails(m, op)
      /\ db' = After(m, op) /\ lockedBy' = lockedBy /\ before' = before
  BY <1>1 DEF Execute, InError
<1>3. script \in Seq(Operations) /\ script # <<>> /\ k \in Nat
  <2>1. script \in Seq(Operations) BY ScriptsAreOperations
  <2>. HIDE DEF Operations
  <2>. QED BY <1>1, <2>1
<1>. HIDE DEF Operations, op, Reach
<1>4. (op.do = "enable" => View(m, op.on) = None) => lockedBy[op.on] = m
  BY <1>1, <1>2, HoldsItsName
<1>5. /\ \A o \in Object : o # op.on => db'[o] = db[o]
      /\ op.do = "enable" => /\ op.on \in Extension
                             /\ db'[op.on] = IF View(m, op.on) = None THEN "enabled" ELSE db[op.on]
  BY <1>1, <1>2, AfterIs
<1>6. LocksInOrder(m, script, k + 1)'
  <2>. SUFFICES ASSUME NEW l \in Lockable, lockedBy[l] = m
                PROVE  \E j \in 1..(k + 1) : l \in Reach(script[j])
    BY <1>2 DEF LocksInOrder, Reach
  <2>1. k + 1 \in 1..(k + 1) /\ 1..k \subseteq 1..(k + 1) BY <1>3
  <2>. QED BY <2>1 DEF Stage, LocksInOrder
<1>7. ASSUME NEW j \in 1..(k + 1) PROVE Found(script[j])'
  <2>1. CASE j \in 1..k BY <1>2, <2>1 DEF Stage, Found
  <2>2. CASE j = k + 1
    <3>. SUFFICES ASSUME op.do \in {"create", "drop"} PROVE Found(op)'
      BY <2>2 DEF op, Found
    <3>1. op.on \in Table /\ Writes(op) BY <1>1, OperationsDo DEF Writes
    <3>2. lockedBy[op.on] = m BY <1>4
    <3>3. ASSUME NEW i \in 1..k PROVE ~WritesOn(script, i, op.on)
      <4>1. i \in Position(script) /\ k + 1 \in Position(script) /\ i < k + 1
        BY <1>1, <1>3 DEF Position
      <4>2. OnceEach(script) BY <1>3, ScriptsLead
      <4>. QED BY <3>1, <4>1, <4>2 DEF OnceEach, WritesOn, op
    <3>4. db[op.on] = before[op.on] BY <3>1, <3>2, <3>3 DEF Done
    <3>5. (op.do = "create" => db[op.on] = None) /\ (op.do = "drop" => db[op.on] # None)
      <4>1. View(m, op.on) = db[op.on] BY <3>2 DEF View
      <4>2. CASE op.do = "create" BY <1>2, <4>1, <4>2 DEF Fails
      <4>3. CASE op.do = "drop" BY <1>2, <4>1, <4>3 DEF Fails
      <4>. QED BY <4>2, <4>3
    <3>. QED BY <1>2, <3>4, <3>5 DEF Found
  <2>. QED BY <1>3, <2>1, <2>2
<1>8. Stamped(script, k + 1)'
  <2>. SUFFICES ASSUME NEW j \in 1..(k + 1), script[j].do = "stamp",
                       \A i \in (j + 1)..(k + 1) : script[i].do # "stamp"
                PROVE  db'[VersionTable] = script[j].to
    BY DEF Stamped
  <2>1. CASE j = k + 1
    <3>1. k + 1 >= 1 BY <1>3
    <3>. QED BY <1>1, <2>1, <3>1 DEF Done
  <2>2. CASE j \in 1..k
    <3>1. k + 1 \in (j + 1)..(k + 1) /\ (j + 1)..k \subseteq (j + 1)..(k + 1) BY <1>3, <2>2
    <3>2. op.do # "stamp" BY <3>1 DEF op
    <3>3. op.on # VersionTable BY <1>1, <3>2, OperationsDo
    <3>4. db[VersionTable] = script[j].to BY <2>2, <3>1 DEF Stage, Stamped
    <3>. QED BY <1>5, <3>3, <3>4
  <2>. QED BY <1>3, <2>1, <2>2
<1>9. ASSUME NEW j \in 1..(k + 1), script[j].do = "enable"
      PROVE  db'[script[j].on] # None /\ lockedBy'[script[j].on] \in {None, m}
  <2>1. CASE j \in 1..k
    <3>1. script[j] \in Operations BY <1>3, <2>1
    <3>2. script[j].on \in Extension BY <1>9, <3>1, OperationsDo
    <3>3. db[script[j].on] # None /\ lockedBy[script[j].on] \in {None, m}
      BY <1>9, <2>1 DEF Stage
    <3>. QED BY <3>2, <3>3, ExtensionStays
  <2>2. CASE j = k + 1
    <3>1. op.do = "enable" /\ op.on \in Extension BY <1>5, <1>9, <2>2 DEF op
    <3>2. CASE View(m, op.on) = None
      BY <1>2, <1>4, <1>5, <2>2, <3>1, <3>2, NoneAssumption DEF op
    <3>3. CASE View(m, op.on) # None
      <4>1. lockedBy[op.on] \in {None, m} /\ View(m, op.on) = db[op.on]
        BY <3>1, <3>3 DEF View, Committed, Fresh
      <4>. QED BY <1>2, <1>5, <2>2, <3>1, <3>3, <4>1 DEF op
    <3>. QED BY <3>2, <3>3
  <2>. QED BY <1>3, <2>1, <2>2
<1>10. script \notin {Upgrades, <<>>} => Settled'
  BY SettledStays DEF Stage, Next
<1>11. k + 1 \in 0..Len(script) BY <1>1, <1>3
<1>. QED BY <1>1, <1>6, <1>7, <1>8, <1>9, <1>10, <1>11 DEF Stage

\* The step of another process leaves n at its stage.
LEMMA OthersStage ==
  ASSUME OrderInv, NEW m \in Migrator, NEW n \in Migrator \ {m}, Untouched(n),
         \/ \E command \in Command : Begin(m, command)
         \/ Lock(m) \/ Execute(m) \/ Rollback(m) \/ Commit(m),
         NEW script \in Scripts, NEW k \in 0..Len(script), Stage(n, script, k)
  PROVE  Stage(n, script, k)'
<1>. /\ VersionTable \in Object /\ Table \subseteq Object /\ Extension \subseteq Object
     /\ Object \subseteq Lockable
  BY Places
<1>. None \notin Migrator BY NoneAssumption
<1>. Typed /\ Done(n, script, k) BY DEF OrderInv, Inv, Stage
<1>a. script \in Seq(Operations) BY ScriptsAreOperations
<1>1. Done(n, script, k)' BY OthersKeep
<1>. HIDE DEF Operations, Reach
<1>2. LocksInOrder(n, script, k)'
  <2>. SUFFICES ASSUME NEW l \in Lockable, lockedBy'[l] = n
                PROVE  \/ \E j \in 1..k : l \in Reach(script[j])
                       \/ /\ k < Len(script) /\ l \in Reach(script[k + 1])
                          /\ lockedBy'[script[k + 1].on] = n
    BY DEF LocksInOrder, Reach
  <2>1. ASSUME k < Len(script) PROVE script[k + 1].on \in Lockable
    <3>1. script[k + 1] \in Operations BY <1>a, <2>1
    <3>. QED BY <3>1, OperationsDo, Places
  <2>. QED BY <2>1 DEF Stage, LocksInOrder, Untouched
<1>4. ASSUME NEW j \in 1..k PROVE Found(script[j])'
  <2>1. script[j].do \in {"create", "drop"} => before'[script[j].on] = before[script[j].on]
    BY WrittenIsHeld DEF Untouched
  <2>. QED BY <2>1 DEF Stage, Found
<1>5. Stamped(script, k)'
  <2>1. ASSUME NEW j \in 1..k, script[j].do = "stamp" PROVE db'[VersionTable] = db[VersionTable]
    BY <2>1, StampedIsHeld DEF Untouched
  <2>. QED BY <2>1 DEF Stage, Stamped
<1>6. ASSUME NEW j \in 1..k, script[j].do = "enable"
      PROVE  db'[script[j].on] # None /\ lockedBy'[script[j].on] \in {None, n}
  <2>1. script[j] \in Operations BY <1>a
  <2>2. script[j].on \in Extension BY <1>6, <2>1, OperationsDo
  <2>3. db[script[j].on] # None /\ lockedBy[script[j].on] \in {None, n} BY <1>6 DEF Stage
  <2>4. CASE \E command \in Command : Begin(m, command) BY <2>3, <2>4 DEF Begin
  <2>5. CASE Lock(m) \/ Execute(m) \/ Rollback(m) \/ Commit(m)
    BY <2>2, <2>3, <2>5, ExtensionStays
  <2>. QED BY <2>4, <2>5
<1>7. script \notin {Upgrades, <<>>} => Settled'
  <2>. SUFFICES ASSUME Settled PROVE Settled' BY DEF Stage
  <2>1. CASE \E command \in Command : Begin(m, command) BY <2>1 DEF Begin, Settled
  <2>2. CASE Lock(m) \/ Execute(m) \/ Rollback(m) \/ Commit(m)
    BY <2>2, ExtensionStays DEF Settled
  <2>. QED BY <2>1, <2>2
<1>. QED BY <1>1, <1>2, <1>4, <1>5, <1>6, <1>7 DEF Stage

LEMMA StagedStays ==
  ASSUME OrderInv, NEW m \in Migrator,
         \/ \E command \in Command : Begin(m, command)
         \/ Lock(m) \/ Execute(m) \/ Rollback(m) \/ Commit(m)
  PROVE  Staged'
<1>. SUFFICES ASSUME NEW n \in Migrator, todo'[n] # None
              PROVE  \E script \in Scripts : \E k \in 0..Len(script) : Stage(n, script, k)'
  BY DEF Staged
<1>. Inv /\ Typed BY DEF OrderInv, Inv
<1>1. ASSUME NEW command \in Command, Begin(m, command), n = m
      PROVE  \E script \in Scripts : \E k \in 0..Len(script) : Stage(n, script, k)'
  <2>1. PICK script : script = Script(command, Committed(VersionTable)) OBVIOUS
  <2>2. /\ script \in Scripts /\ 0 \in 0..Len(script) /\ Done(m, script, 0)'
        /\ db' = db /\ lockedBy' = lockedBy /\ todo[m] = None
    BY <1>1, <2>1, BeginStep
  <2>3. \A l \in Lockable : lockedBy'[l] # m BY <2>2 DEF Typed
  <2>4. 1..0 = {} OBVIOUS
  <2>5. script \notin {Upgrades, <<>>} => Settled'
    <3>1. Committed(VersionTable) = "base" => script \in {Upgrades, <<>>}
      BY <2>1 DEF Script, Upgrades
    <3>. QED BY <2>2, <3>1 DEF OrderInv, Settled
  <2>6. LocksInOrder(m, script, 0)' BY <2>3 DEF LocksInOrder
  <2>7. Stamped(script, 0)' BY <2>4 DEF Stamped
  <2>. QED BY <1>1, <2>2, <2>4, <2>5, <2>6, <2>7 DEF Stage
<1>2. ASSUME Lock(m) \/ Execute(m), n = m
      PROVE  \E script \in Scripts : \E k \in 0..Len(script) : Stage(n, script, k)'
  <2>1. todo[m] # None BY <1>2, InItsScript
  <2>2. PICK script \in Scripts : \E k \in 0..Len(script) : Stage(m, script, k)
    BY <2>1 DEF OrderInv, Staged
  <2>3. PICK k \in 0..Len(script) : Stage(m, script, k) BY <2>2
  <2>. QED BY <1>2, <2>3, LockStage, ExecuteStage
<1>3. CASE (Rollback(m) \/ Commit(m)) /\ n = m
  BY <1>3 DEF Rollback, Commit, Typed
<1>4. CASE n # m
  <2>1. Untouched(n)
    <3>1. ASSUME NEW command \in Command, Begin(m, command) PROVE Untouched(n)
      BY <1>4, <3>1, BeginStep
    <3>2. ASSUME Lock(m) \/ Execute(m) PROVE Untouched(n)
      <4>1. PICK script \in Scripts : \E k \in 0..Len(script) : Done(m, script, k)
        BY <3>2, InItsScript
      <4>2. PICK k \in 0..Len(script) : Done(m, script, k) BY <4>1
      <4>. QED BY <1>4, <3>2, <4>2, LockStep, ExecuteStep
    <3>. QED BY <1>4, <3>1, <3>2, EndLeavesOthers
  <2>2. todo[n] # None BY <2>1 DEF Untouched
  <2>3. PICK script \in Scripts : \E k \in 0..Len(script) : Stage(n, script, k)
    BY <2>2 DEF OrderInv, Staged
  <2>4. PICK k \in 0..Len(script) : Stage(n, script, k) BY <2>3
  <2>. QED BY <1>4, <2>1, <2>4, OthersStage
<1>. QED BY <1>1, <1>2, <1>3, <1>4

\* A commit that leads away from base is that of the whole upgrade, which has seen
\* to the extensions.
LEMMA CommitSettles ==
  ASSUME OrderInv, NEW m \in Migrator, Commit(m),
         Committed(VersionTable) = "base", Committed(VersionTable)' # "base"
  PROVE  Settled'
<1>. /\ VersionTable \in Lockable /\ Extension \subseteq Lockable BY Places
<1>. None \notin Migrator BY NoneAssumption
<1>. Inv /\ Typed BY DEF OrderInv, Inv
<1>1. todo[m] = <<>> /\ lockedBy' = Unlocked(m) /\ db' = db BY DEF Commit
<1>2. <<>> # None
  <2>1. <<>> \in Scripts BY DEF Scripts
  <2>2. SubSeq(<<>>, 1, Len(<<>>)) = <<>> /\ 1 \in 1..(Len(<<>>) + 1) OBVIOUS
  <2>. QED BY <2>1, <2>2, RemainingIsSome
<1>3. PICK script \in Scripts : \E k \in 0..Len(script) : Stage(m, script, k)
  BY <1>1, <1>2 DEF OrderInv, Staged
<1>4. PICK k \in 0..Len(script) : Stage(m, script, k) BY <1>3
<1>5. script \in Seq(Operations) BY ScriptsAreOperations
<1>. HIDE DEF Operations
<1>6. k = Len(script) /\ Len(script) \in Nat
  <2>1. SubSeq(script, k + 1, Len(script)) = <<>> BY <1>1, <1>4 DEF Stage, Done
  <2>2. Len(SubSeq(script, k + 1, Len(script))) = Len(script) - k /\ Len(script) \in Nat
    BY <1>5
  <2>3. Len(script) - k = 0 BY <2>1, <2>2
  <2>. QED BY <2>2, <2>3
<1>7. CASE script \notin {Upgrades, <<>>}
  BY <1>4, <1>7, SettledStays DEF Stage, Next
<1>8. CASE script = <<>>
  <2>1. k = 0 BY <1>6, <1>8
  <2>2. lockedBy[VersionTable] # m
    <3>1. ~(k < Len(script)) /\ 1..k = {} BY <1>6, <2>1
    <3>. QED BY <1>4, <3>1 DEF Stage, LocksInOrder
  <2>3. Committed(VersionTable)' = Committed(VersionTable)
    <3>1. VersionTable \in Object BY Places
    <3>. QED BY <2>2, <3>1 DEF Commit, Committed, Unlocked
  <2>. QED BY <2>3
<1>9. CASE script = Upgrades
  <2>1. k = 11 /\ Upgrades[5] = Enable("vector") /\ Upgrades[6] = Enable("pg_trgm")
    BY <1>6, <1>9, UpgradesOperations, Upgrade2Operations
  <2>2. \A e \in Extension : Enable(e).do = "enable" /\ Enable(e).on = e BY DEF Enable
  <2>3. 5 \in 1..k /\ 6 \in 1..k BY <2>1
  <2>4. \A e \in Extension : db[e] # None /\ lockedBy[e] \in {None, m}
    BY <1>4, <1>9, <2>1, <2>2, <2>3 DEF Stage, Extension
  <2>. QED BY <1>1, <2>4 DEF Settled, Unlocked
<1>. QED BY <1>7, <1>8, <1>9

LEMMA OrderInvAlways == Spec => []OrderInv
<1>1. ASSUME Init PROVE OrderInv
  <2>1. Inv BY <1>1, InvInit
  <2>2. Staged BY <1>1 DEF Init, Staged
  <2>3. Committed(VersionTable) = "base" BY <1>1, Places DEF Init, Committed, VersionTable
  <2>4. Fresh BY <1>1, Places DEF Init, Fresh
  <2>. QED BY <2>1, <2>2, <2>3, <2>4 DEF OrderInv
<1>2. ASSUME OrderInv, [Next]_vars PROVE OrderInv'
  <2>. Inv BY <1>2 DEF OrderInv
  <2>1. Inv' BY <1>2, InvNext
  <2>2. Staged'
    <3>1. CASE UNCHANGED vars
      <4>1. \A m, script, k : Stage(m, script, k)' = Stage(m, script, k)
        BY <3>1 DEF vars, Stage, Done, Found, Settled, Stamped, LocksInOrder
      <4>. QED BY <1>2, <3>1, <4>1 DEF vars, OrderInv, Staged
    <3>2. CASE Next BY <1>2, <3>2, StagedStays DEF Next, Refused, Victim, Crash
    <3>. QED BY <1>2, <3>1, <3>2
  <2>3. ASSUME Committed(VersionTable)' # "base" PROVE Settled'
    <3>1. CASE Committed(VersionTable) # "base" BY <1>2, <3>1, SettledStays DEF OrderInv
    <3>2. CASE Committed(VersionTable) = "base"
      <4>1. PICK m \in Migrator : Commit(m)
        <5>1. ASSUME NEW m \in Migrator,
                     \/ \E command \in Command : Begin(m, command)
                     \/ Lock(m) \/ Execute(m) \/ Rollback(m)
              PROVE  Committed(VersionTable)' = Committed(VersionTable)
          BY <5>1, HidesUntilCommit
        <5>2. CASE UNCHANGED vars BY <2>3, <3>2, <5>2 DEF vars, Committed
        <5>. QED BY <1>2, <2>3, <3>2, <5>1, <5>2 DEF Next, Refused, Victim, Crash
      <4>. QED BY <1>2, <2>3, <3>2, <4>1, CommitSettles
    <3>. QED BY <3>1, <3>2
  <2>4. Fresh' BY <1>2, FreshStays
  <2>. QED BY <2>1, <2>2, <2>3, <2>4 DEF OrderInv
<1>. QED BY <1>1, <1>2, PTL DEF Spec

--------------------------------------------------------------------------------
(***************************************************************************)
(* Where a migration is that nobody has overtaken.                         *)
(***************************************************************************)
\* What a holder found in a table tells which version others see.
LEMMA FoundTells ==
  ASSUME OrderInv, NEW m \in Migrator, NEW script \in Scripts, NEW k \in 0..Len(script),
         Stage(m, script, k), NEW j \in 1..k
  PROVE  /\ script[j].do = "create" => script[j].on \notin TablesOf(Committed(VersionTable))
         /\ script[j].do = "drop" => script[j].on \in TablesOf(Committed(VersionTable))
<1>. SUFFICES ASSUME script[j].do \in {"create", "drop"}
              PROVE  /\ script[j].do = "create" => script[j].on \notin TablesOf(Committed(VersionTable))
                     /\ script[j].do = "drop" => script[j].on \in TablesOf(Committed(VersionTable))
  OBVIOUS
<1>1. script[j].on \in Table /\ lockedBy[script[j].on] = m BY WrittenIsHeld DEF Stage
<1>2. Committed(script[j].on) = before[script[j].on] BY <1>1, NoneAssumption DEF Committed
<1>3. Found(script[j]) BY DEF Stage
<1>4. Seen = TablesOf(Committed(VersionTable)) BY SeenIs DEF OrderInv, SeenFits
<1>. QED BY <1>1, <1>2, <1>3, <1>4 DEF Found, Seen

LEMMA SecondRevision ==
  \A i \in 1..6 : Upgrade2[i].do # "stamp" /\ Upgrade2[i].on # "agencies"
<1>1. /\ Enable("vector").on = "vector" /\ Enable("vector").do = "enable"
      /\ Enable("pg_trgm").on = "pg_trgm" /\ Enable("pg_trgm").do = "enable"
      /\ Index("memory_chunks", "pg_trgm").on = "memory_chunks"
      /\ Index("memory_chunks", "pg_trgm").do = "index"
  BY DEF Enable, Index
<1>2. /\ CreateAgencyUsers.do = "create" /\ CreateAuditLogs.do = "create"
      /\ CreateMemoryChunks.do = "create"
  BY References DEF Created
<1>3. \A i \in 1..6 : i = 1 \/ i = 2 \/ i = 3 \/ i = 4 \/ i = 5 \/ i = 6 OBVIOUS
<1>. QED BY <1>1, <1>2, <1>3, CreatedOn, Upgrade2Operations

\* What the operations of the second revision, and those of the first one's
\* downgrade, may lock.
LEMMA ReachOf ==
  /\ \A t \in Table : Definition(t).refs \cap Table =
       IF t \in {"agency_clients", "agency_users"} THEN {"agencies"} ELSE {}
  /\ \A c \in Created : Reach(c) = {c.on} \cup (Definition(c.on).refs \cap Table)
  /\ \A t \in Table : Reach(Drop(t)) = {t} \cup (Definition(t).refs \cap Table) \cup ForeignKeys
  /\ \A e \in Extension : Reach(Enable(e)) = {e}
  /\ Reach(Index("memory_chunks", "pg_trgm")) = {"memory_chunks"}
  /\ \A from, to \in Version : Reach(Stamp(from, to)) = {VersionTable}
<1>1. \A t \in Table : Definition(t).refs \cap Table =
        IF t \in {"agency_clients", "agency_users"} THEN {"agencies"} ELSE {}
  <2>1. "vector" \notin Table /\ "agencies" \in Table BY Tables
  <2>. QED BY <2>1, References
<1>2. ASSUME NEW op
      PROVE  /\ op.do = "create" => Reach(op) = {op.on} \cup (Definition(op.on).refs \cap Table)
             /\ op.do = "drop" => Reach(op) = {op.on} \cup (Definition(op.on).refs \cap Table)
                                                \cup ForeignKeys
             /\ op.do \in {"enable", "index", "stamp"} => Reach(op) = {op.on}
  BY DEF Reach
<1>3. \A c \in Created : c.do = "create" BY References
<1>4. \A t : Drop(t).do = "drop" /\ Drop(t).on = t BY DEF Drop
<1>5. \A e : Enable(e).do = "enable" /\ Enable(e).on = e BY DEF Enable
<1>6. /\ Index("memory_chunks", "pg_trgm").do = "index"
      /\ Index("memory_chunks", "pg_trgm").on = "memory_chunks"
  BY DEF Index
<1>7. \A from, to : Stamp(from, to).do = "stamp" /\ Stamp(from, to).on = VersionTable
  BY DEF Stamp, VersionTable
<1>. QED BY <1>1, <1>2, <1>3, <1>4, <1>5, <1>6, <1>7

LEMMA ReachOfUpgrade2 ==
  /\ Reach(Upgrade2[1]) = {"vector"} /\ Reach(Upgrade2[2]) = {"pg_trgm"}
  /\ Reach(Upgrade2[3]) = {"agency_users", "agencies"}
  /\ Reach(Upgrade2[4]) = {"audit_logs"} /\ Reach(Upgrade2[5]) = {"memory_chunks"}
  /\ Reach(Upgrade2[6]) = {"memory_chunks"} /\ Reach(Upgrade2[7]) = {VersionTable}
<1>1. /\ CreateAgencyUsers \in Created /\ CreateAuditLogs \in Created
      /\ CreateMemoryChunks \in Created
  BY DEF Created
<1>2. /\ "agency_users" \in Table /\ "audit_logs" \in Table /\ "memory_chunks" \in Table
      /\ "vector" \in Extension /\ "pg_trgm" \in Extension
      /\ "0001" \in Version /\ "0002" \in Version
  BY Tables DEF Extension, Version
<1>3. /\ CreateAgencyUsers.on = "agency_users" /\ CreateAuditLogs.on = "audit_logs"
      /\ CreateMemoryChunks.on = "memory_chunks"
  BY CreatedOn
<1>4. /\ Reach(CreateAgencyUsers) = {"agency_users", "agencies"}
      /\ Reach(CreateAuditLogs) = {"audit_logs"} /\ Reach(CreateMemoryChunks) = {"memory_chunks"}
  BY <1>1, <1>2, <1>3, ReachOf
<1>. QED BY <1>2, <1>4, ReachOf, Upgrade2Operations

LEMMA ReachOfDowngrade1 ==
  /\ Reach(Downgrade1[1]) = {"action_logs"} \cup ForeignKeys
  /\ Reach(Downgrade1[2]) = {"agency_clients", "agencies"} \cup ForeignKeys
  /\ Reach(Downgrade1[3]) = {"agencies"} \cup ForeignKeys
  /\ Reach(Downgrade1[4]) = {VersionTable}
<1>1. /\ "action_logs" \in Table /\ "agency_clients" \in Table /\ "agencies" \in Table
      /\ "0001" \in Version /\ "base" \in Version
  BY Tables DEF Version
<1>2. /\ Reach(Drop("action_logs")) = {"action_logs"} \cup ForeignKeys
      /\ Reach(Drop("agency_clients")) = {"agency_clients", "agencies"} \cup ForeignKeys
      /\ Reach(Drop("agencies")) = {"agencies"} \cup ForeignKeys
  BY <1>1, ReachOf
<1>. QED BY <1>1, <1>2, ReachOf, Downgrade1Operations

\* The new tables are not those of the first revision.
LEMMA NotInUpgrade2 == \A i \in 1..7 : "action_logs" \notin Reach(Upgrade2[i])
<1>1. \A i \in 1..7 : i = 1 \/ i = 2 \/ i = 3 \/ i = 4 \/ i = 5 \/ i = 6 \/ i = 7 OBVIOUS
<1>2. ASSUME NEW i \in 1..7 PROVE "action_logs" \notin Reach(Upgrade2[i])
  BY <1>1, ReachOfUpgrade2 DEF VersionTable
<1>. QED BY <1>2

\* The scripts that lead from a version.
From(version, script) ==
  \/ version = "base" /\ script = Upgrades
  \/ version = "0001" /\ script \in {Upgrade2, Downgrade1}
  \/ version = "0002" /\ script = Downgrade2

LEMMA CommandsLeadFrom ==
  ASSUME NEW command \in Command, NEW version \in Version
  PROVE  From(version, Script(command, version)) \/ Script(command, version) = <<>>
BY DEF Command, Version, Script, From, Upgrades

\* A rest of a script is as long as what is left, and ends as the script does.
LEMMA RestIs ==
  ASSUME NEW S, NEW s \in Seq(S), NEW k \in 1..(Len(s) + 1), NEW rest, rest = SubSeq(s, k, Len(s))
  PROVE  Len(rest) = Len(s) - k + 1 /\ (k <= Len(s) => rest[Len(s) - k + 1] = s[Len(s)])
<1>1. k \in Int /\ k >= 1 /\ Len(s) \in Int /\ k <= Len(s) + 1 OBVIOUS
<1>2. \A i \in k..Len(s) : s[i] \in S BY <1>1
<1>3. /\ Len(rest) = IF k <= Len(s) THEN Len(s) - k + 1 ELSE 0
      /\ \A i \in 1..(Len(s) - k + 1) : rest[i] = s[k + i - 1]
  BY <1>1, <1>2, SubSeqProperties
<1>4. Len(rest) = Len(s) - k + 1 BY <1>1, <1>3
<1>5. ASSUME k <= Len(s) PROVE rest[Len(s) - k + 1] = s[Len(s)]
  <2>1. Len(s) - k + 1 \in 1..(Len(s) - k + 1) /\ k + (Len(s) - k + 1) - 1 = Len(s) BY <1>1, <1>5
  <2>. QED BY <1>3, <2>1
<1>. QED BY <1>4, <1>5

\* Two equal rests are of the same length and end in the same operation.
LEMMA SameRest ==
  ASSUME NEW S, NEW s \in Seq(S), NEW t \in Seq(S), NEW k \in 1..Len(s), NEW j \in 0..Len(t),
         SubSeq(s, k, Len(s)) = SubSeq(t, j + 1, Len(t))
  PROVE  k + Len(t) = j + 1 + Len(s) /\ j < Len(t) /\ s[Len(s)] = t[Len(t)]
<1>1. PICK rest : rest = SubSeq(s, k, Len(s)) OBVIOUS
<1>2. /\ Len(s) \in Nat /\ Len(t) \in Nat /\ k \in Nat /\ j \in Nat /\ k <= Len(s)
      /\ k \in 1..(Len(s) + 1) /\ j + 1 \in 1..(Len(t) + 1)
  OBVIOUS
<1>3. Len(rest) = Len(s) - k + 1 /\ rest[Len(s) - k + 1] = s[Len(s)] BY <1>1, <1>2, RestIs
<1>4. /\ Len(rest) = Len(t) - (j + 1) + 1
      /\ j + 1 <= Len(t) => rest[Len(t) - (j + 1) + 1] = t[Len(t)]
  BY <1>1, <1>2, RestIs
<1>5. Len(s) - k + 1 = Len(t) - (j + 1) + 1 BY <1>3, <1>4, Zenon
<1>6. k + Len(t) = j + 1 + Len(s) /\ j < Len(t) /\ j + 1 <= Len(t) BY <1>2, <1>5
<1>. QED BY <1>3, <1>4, <1>5, <1>6

LEMMA LastOperations ==
  /\ Upgrades[Len(Upgrades)] = Stamp("0001", "0002")
  /\ Upgrade2[Len(Upgrade2)] = Stamp("0001", "0002")
  /\ Downgrade1[Len(Downgrade1)] = Stamp("0001", "base")
  /\ Downgrade2[Len(Downgrade2)] = Stamp("0002", "0001")
  /\ Stamp("0001", "base") # Stamp("0001", "0002")
  /\ Stamp("0002", "0001") \notin {Stamp("0001", "0002"), Stamp("0001", "base")}
<1>1. /\ Stamp("0001", "base").to = "base" /\ Stamp("0001", "0002").to = "0002"
      /\ Stamp("0002", "0001").to = "0001"
  BY DEF Stamp
<1>2. Upgrades[7 + 4] = Upgrade2[7] /\ 7 + 4 = 11 BY UpgradesOperations
<1>. QED BY <1>1, <1>2, UpgradesOperations, Upgrade2Operations, Downgrade1Operations,
            Downgrade2Operations

\* A migration on course is at the stage that its script has there.  Only the two
\* upgrades could be mistaken for one another, as one ends like the other; the
\* tables of the first revision tell them apart.
LEMMA CourseStage ==
  ASSUME OrderInv, NEW m \in Migrator, OnCourse(m), todo[m] # <<>>
  PROVE  \E script \in Scripts : \E k \in 0..Len(script) :
           /\ From(Committed(VersionTable), script) /\ k + 1 \in 1..Len(script)
           /\ Stage(m, script, k) /\ todo[m] = SubSeq(script, k + 1, Len(script))
<1>. None \notin Migrator BY NoneAssumption
<1>1. Committed(VersionTable) \in Version BY DEF OrderInv, Inv, Consistent
<1>2. PICK command \in Command :
        \E k \in 1..Len(Script(command, Committed(VersionTable))) :
          /\ todo[m] = SubSeq(Script(command, Committed(VersionTable)), k,
                              Len(Script(command, Committed(VersionTable))))
          /\ \A j \in 1..(k - 1) :
               Script(command, Committed(VersionTable))[j].on \in Table =>
                 lockedBy[Script(command, Committed(VersionTable))[j].on] = m
  BY DEF OnCourse, VersionTable
<1>. DEFINE course == Script(command, Committed(VersionTable))
<1>3. course \in Scripts BY <1>1, ScriptIsScript
<1>4. From(Committed(VersionTable), course) \/ course = <<>> BY <1>1, CommandsLeadFrom
<1>. HIDE DEF course
<1>5. PICK k \in 1..Len(course) :
        /\ todo[m] = SubSeq(course, k, Len(course))
        /\ \A j \in 1..(k - 1) : course[j].on \in Table => lockedBy[course[j].on] = m
  BY <1>2 DEF course
<1>6. course \in Seq(Operations) /\ Len(course) \in Nat
  <2>1. course \in Seq(Operations) BY <1>3, ScriptsAreOperations
  <2>. HIDE DEF Operations
  <2>. QED BY <2>1
<1>7. From(Committed(VersionTable), course)
  <2>1. course # <<>> BY <1>5
  <2>. QED BY <1>4, <2>1
<1>8. todo[m] # None
  <2>1. k \in 1..(Len(course) + 1) BY <1>6
  <2>. QED BY <1>3, <1>5, <2>1, RemainingIsSome
<1>9. PICK script \in Scripts : \E j \in 0..Len(script) : Stage(m, script, j)
  BY <1>8 DEF OrderInv, Staged
<1>10. PICK j \in 0..Len(script) : Stage(m, script, j) BY <1>9
<1>11. script \in Seq(Operations) BY ScriptsAreOperations
<1>12. todo[m] = SubSeq(script, j + 1, Len(script)) BY <1>10 DEF Stage, Done
<1>13. /\ k + Len(script) = j + 1 + Len(course) /\ j < Len(script)
       /\ course[Len(course)] = script[Len(script)]
  <2>1. SubSeq(course, k, Len(course)) = SubSeq(script, j + 1, Len(script)) BY <1>5, <1>12
  <2>. HIDE DEF Operations
  <2>. QED BY <1>6, <1>11, <2>1, SameRest
<1>14. j + 1 \in 1..Len(script)
  <2>. HIDE DEF Operations
  <2>. QED BY <1>11, <1>13
<1>b. k + Len(script) = j + 1 + Len(course) /\ j < Len(script)
      /\ j \in Nat /\ k \in Nat /\ k >= 1
  <2>. HIDE DEF Operations
  <2>. QED BY <1>6, <1>11, <1>13
<1>15. CASE script = course
  BY <1>3, <1>7, <1>10, <1>12, <1>14, <1>15
<1>16. CASE script # course
  <2>1. script # <<>> /\ course # <<>> BY <1>5, <1>14
  <2>2. \/ course = Upgrades /\ script = Upgrade2
        \/ course = Upgrade2 /\ script = Upgrades
    BY <1>3, <1>13, <1>16, <2>1, LastOperations, Zenon DEF Scripts
  <2>3. Len(Upgrades) = 11 /\ Len(Upgrade2) = 7 BY UpgradesOperations, Upgrade2Operations
  <2>4. CASE course = Upgrades /\ script = Upgrade2
    <3>1. 3 \in 1..(k - 1) /\ j \in 0..7
      <4>1. k + 7 = j + 1 + 11 /\ j < 7 BY <1>b, <2>3, <2>4
      <4>. QED BY <1>b, <4>1
    <3>2. Upgrades[3].on = "action_logs" /\ "action_logs" \in Table
      BY UpgradesOperations, Upgrade1Operations, CreatedOn, Tables
    <3>3. lockedBy["action_logs"] = m BY <1>5, <2>4, <3>1, <3>2
    <3>4. j + 1 \in 1..7 /\ \A i \in 1..j : i \in 1..7
      <4>1. j + 1 \in 1..7 BY <1>14, <2>3, <2>4
      <4>2. \A i \in 1..j : i \in 1..7 BY <3>1
      <4>. QED BY <4>1, <4>2
    <3>5. \E i \in 1..7 : "action_logs" \in Reach(Upgrade2[i])
      <4>1. "action_logs" \in Lockable BY <3>2, Places
      <4>2. LocksInOrder(m, Upgrade2, j) BY <1>10, <2>4 DEF Stage
      <4>. HIDE DEF Reach
      <4>. QED BY <2>3, <3>3, <3>4, <4>1, <4>2 DEF LocksInOrder
    <3>. QED BY <3>5, NotInUpgrade2
  <2>5. CASE course = Upgrade2 /\ script = Upgrades
    <3>1. 1 \in 1..j
      <4>1. k + 11 = j + 1 + 7 /\ k >= 1 BY <1>b, <2>3, <2>5
      <4>. QED BY <1>b, <4>1
    <3>2. Upgrades[1].do = "create" /\ Upgrades[1].on = "agencies"
      BY UpgradesOperations, Upgrade1Operations, References, CreatedOn DEF Created
    <3>3. "agencies" \notin TablesOf(Committed(VersionTable))
      BY <1>10, <2>5, <3>1, <3>2, FoundTells
    <3>4. Committed(VersionTable) = "0001"
      <4>1. Upgrade2 # Upgrades
        <5>1. Len(Upgrade2) # Len(Upgrades) BY <2>3
        <5>. QED BY <5>1, Zenon
      <4>2. Upgrade2 # Downgrade2
        <5>1. Upgrade2[Len(Upgrade2)] # Downgrade2[Len(Downgrade2)] BY LastOperations
        <5>. QED BY <5>1, Zenon
      <4>. QED BY <1>7, <2>5, <4>1, <4>2 DEF From
    <3>5. "agencies" \in TablesOf("0001") BY DEF TablesOf
    <3>. QED BY <3>3, <3>4, <3>5
  <2>. QED BY <2>2, <2>4, <2>5
<1>. QED BY <1>15, <1>16

--------------------------------------------------------------------------------
(***************************************************************************)
(* A migration fails only if it was overtaken.                             *)
(***************************************************************************)
\* What m sees in a table that it has not worked on.
LEMMA SeesTheImage ==
  ASSUME OrderInv, NEW m \in Migrator, NEW script \in Scripts, NEW k \in 0..Len(script),
         Stage(m, script, k), NEW t \in Table, \A j \in 1..k : script[j].on # t
  PROVE  View(m, t) = Image(Committed(VersionTable), t)
<1>. None \notin Migrator BY NoneAssumption
<1>1. Committed(t) = Image(Committed(VersionTable), t) BY DEF OrderInv, Inv, Consistent
<1>2. \A j \in 1..k : ~WritesOn(script, j, t) BY DEF WritesOn
<1>3. lockedBy[t] = m => db[t] = before[t] BY <1>2 DEF Stage, Done
<1>. QED BY <1>1, <1>3 DEF View, Committed

\* What it sees in one that it has created or dropped.
LEMMA SeesItsWork ==
  ASSUME NEW m \in Migrator, NEW script, NEW k, Stage(m, script, k),
         NEW j \in 1..k, script[j].do \in {"create", "drop"}, script[j].on \in Table
  PROVE  View(m, script[j].on) = Value(script[j])
BY DEF Stage, Done, Writes, View

\* Before its first stamp it sees the version that the others see.
LEMMA SeesTheVersion ==
  ASSUME OrderInv, NEW m \in Migrator, NEW script \in Scripts, NEW k \in 0..Len(script),
         Stage(m, script, k), \A j \in 1..k : script[j].do # "stamp"
  PROVE  View(m, VersionTable) = Committed(VersionTable)
<1>. None \notin Migrator BY NoneAssumption
<1>1. script \in Seq(Operations) BY ScriptsAreOperations
<1>2. ASSUME NEW j \in 1..k PROVE ~WritesOn(script, j, VersionTable)
  <2>. HIDE DEF Operations
  <2>1. script[j] \in Operations BY <1>1
  <2>2. script[j].do # "stamp" OBVIOUS
  <2>. QED BY <2>1, <2>2, OperationsDo, Places DEF WritesOn, Writes
<1>3. lockedBy[VersionTable] = m => db[VersionTable] = before[VersionTable]
  BY <1>2 DEF Stage, Done
<1>. QED BY <1>3 DEF View, Committed

\* What each kind of operation needs.
LEMMA Needs ==
  ASSUME Defined, NEW m \in Migrator
  PROVE  /\ \A c \in Created :
              View(m, c.on) = None /\ (\A o \in Definition(c.on).refs : View(m, o) # None)
                => ~Fails(m, c)
         /\ \A t \in Table \ {"agencies"} : View(m, t) # None => ~Fails(m, Drop(t))
         /\ /\ View(m, "agencies") # None
            /\ View(m, "agency_clients") = None /\ View(m, "agency_users") = None
            => ~Fails(m, Drop("agencies"))
         /\ \A e \in Extension : ~Fails(m, Enable(e))
         /\ View(m, "memory_chunks") # None /\ View(m, "pg_trgm") # None
              => ~Fails(m, Index("memory_chunks", "pg_trgm"))
         /\ \A from, to \in Version :
              View(m, VersionTable) = from => ~Fails(m, Stamp(from, to))
<1>1. \A c \in Created :
        View(m, c.on) = None /\ (\A o \in Definition(c.on).refs : View(m, o) # None)
          => ~Fails(m, c)
  BY References DEF Fails
<1>2. ASSUME NEW t \in Table, View(m, t) # None,
             \A u \in Table : View(m, u) # None => t \notin Definition(u).refs
      PROVE  ~Fails(m, Drop(t))
  <2>1. Drop(t).do = "drop" /\ Drop(t).on = t BY DEF Drop
  <2>2. Referencing(m, t) = {} BY <1>2, Views DEF Referencing
  <2>. QED BY <1>2, <2>1, <2>2 DEF Fails
<1>3. \A t \in Table \ {"agencies"} : \A u \in Table : t \notin Definition(u).refs
  BY References, Tables
<1>4. \A u \in Table : "agencies" \in Definition(u).refs => u \in {"agency_clients", "agency_users"}
  BY References
<1>5. ASSUME NEW e \in Extension PROVE ~Fails(m, Enable(e))
  <2>1. Enable(e).do = "enable" BY DEF Enable
  <2>. QED BY <2>1 DEF Fails
<1>6. ASSUME View(m, "memory_chunks") # None, View(m, "pg_trgm") # None
      PROVE  ~Fails(m, Index("memory_chunks", "pg_trgm"))
  <2>. DEFINE index == Index("memory_chunks", "pg_trgm")
  <2>1. index.do = "index" /\ index.on = "memory_chunks" /\ index.needs = {"pg_trgm"} BY DEF Index
  <2>. HIDE DEF index
  <2>2. ~Fails(m, index) BY <1>6, <2>1 DEF Fails
  <2>. QED BY <2>2 DEF index
<1>7. ASSUME NEW from \in Version, NEW to \in Version, View(m, VersionTable) = from
      PROVE  ~Fails(m, Stamp(from, to))
  <2>1. /\ Stamp(from, to).do = "stamp" /\ Stamp(from, to).on = VersionTable
        /\ Stamp(from, to).from = from
    BY DEF Stamp, VersionTable
  <2>. QED BY <1>7, <2>1 DEF Fails
<1>8. "agencies" \in Table BY Tables
<1>. QED BY <1>1, <1>2, <1>3, <1>4, <1>5, <1>6, <1>7, <1>8

\* Definitions are something.
LEMMA DefinitionIsSome == \A t \in Table : Definition(t) # None
<1>1. \A c \in Created : c.def # None BY NoneAssumption
<1>. QED BY <1>1, Tables DEF Created, Definition

LEMMA DropIs ==
  \A t \in Table : Drop(t).do = "drop" /\ Drop(t).on = t /\ Value(Drop(t)) = None
<1>1. \A t : Drop(t).do = "drop" /\ Drop(t).on = t BY DEF Drop
<1>. QED BY <1>1, Writing

\* Nobody else can have made agency_users anew while a downgrade to base is under way:
\* what it sees there is what 0001 has.
LEMMA Downgrade1RunsOn ==
  ASSUME OrderInv, NEW m \in Migrator, NEW k \in 0..3, Stage(m, Downgrade1, k),
         Committed(VersionTable) = "0001"
  PROVE  ~Fails(m, Downgrade1[k + 1])
<1>. DEFINE s == Downgrade1
<1>. Defined /\ s \in Scripts BY DEF OrderInv, Inv, Scripts
<1>1. /\ s[1] = Drop("action_logs") /\ s[2] = Drop("agency_clients")
      /\ s[3] = Drop("agencies") /\ s[4] = Stamp("0001", "base") /\ Len(s) = 4
  BY Downgrade1Operations
<1>. /\ "action_logs" \in Table /\ "agency_clients" \in Table /\ "agencies" \in Table
     /\ "agency_users" \in Table
  BY Tables
<1>2. \A t \in Table : Drop(t).do = "drop" /\ Drop(t).on = t /\ Value(Drop(t)) = None
  BY DropIs
<1>3. /\ \A t \in {"action_logs", "agency_clients", "agencies"} : Image("0001", t) # None
      /\ Image("0001", "agency_users") = None
  BY Images, NoneAssumption DEF Created
<1>. HIDE DEF s
<1>4. ASSUME NEW t \in Table, \A j \in 1..k : s[j].on # t
      PROVE  View(m, t) = Image("0001", t)
  <2>1. k \in 0..Len(s) /\ Stage(m, s, k) BY <1>1 DEF s
  <2>. QED BY <1>4, <2>1, SeesTheImage
<1>5. CASE k = 0
  <2>1. View(m, "action_logs") # None BY <1>3, <1>4, <1>5
  <2>. QED BY <1>1, <1>5, <2>1, Needs DEF s
<1>6. CASE k = 1
  <2>1. \A j \in 1..k : s[j].on # "agency_clients" BY <1>1, <1>2, <1>6
  <2>2. View(m, "agency_clients") # None BY <1>3, <1>4, <2>1
  <2>. QED BY <1>1, <1>6, <2>2, Needs DEF s
<1>7. CASE k = 2
  <2>1. \A j \in 1..k : s[j].on \notin {"agencies", "agency_users"} BY <1>1, <1>2, <1>7
  <2>2. View(m, "agencies") # None /\ View(m, "agency_users") = None BY <1>3, <1>4, <2>1
  <2>3. View(m, "agency_clients") = None
    <3>1. s[2].do = "drop" /\ s[2].on = "agency_clients" /\ Value(s[2]) = None /\ 2 \in 1..k
      BY <1>1, <1>2, <1>7
    <3>. QED BY <3>1, SeesItsWork DEF s
  <2>. QED BY <1>1, <1>7, <2>2, <2>3, Needs DEF s
<1>8. CASE k = 3
  <2>1. \A j \in 1..k : s[j].do # "stamp" BY <1>1, <1>2, <1>8
  <2>2. View(m, VersionTable) = "0001"
    <3>1. k \in 0..Len(s) /\ Stage(m, s, k) BY <1>1 DEF s
    <3>. QED BY <2>1, <3>1, SeesTheVersion
  <2>. QED BY <1>1, <1>8, <2>2, Needs DEF s, Version
<1>. QED BY <1>5, <1>6, <1>7, <1>8

LEMMA Downgrade2RunsOn ==
  ASSUME OrderInv, NEW m \in Migrator, NEW k \in 0..3, Stage(m, Downgrade2, k),
         Committed(VersionTable) = "0002"
  PROVE  ~Fails(m, Downgrade2[k + 1])
<1>. DEFINE s == Downgrade2
<1>. Defined /\ s \in Scripts BY DEF OrderInv, Inv, Scripts
<1>1. /\ s[1] = Drop("memory_chunks") /\ s[2] = Drop("audit_logs")
      /\ s[3] = Drop("agency_users") /\ s[4] = Stamp("0002", "0001") /\ Len(s) = 4
  BY Downgrade2Operations
<1>. /\ "memory_chunks" \in Table /\ "audit_logs" \in Table /\ "agency_users" \in Table BY Tables
<1>2. \A t \in Table : Drop(t).do = "drop" /\ Drop(t).on = t
  BY DropIs
<1>3. \A t \in {"memory_chunks", "audit_logs", "agency_users"} : Image("0002", t) # None
  BY Images, NoneAssumption DEF Created
<1>. HIDE DEF s
<1>4. k \in 0..Len(s) /\ Stage(m, s, k) BY <1>1 DEF s
<1>5. ASSUME NEW t \in {"memory_chunks", "audit_logs", "agency_users"}, s[k + 1] = Drop(t),
             \A j \in 1..k : s[j].on # t
      PROVE  ~Fails(m, s[k + 1])
  <2>1. View(m, t) # None BY <1>3, <1>4, <1>5, SeesTheImage
  <2>. QED BY <1>5, <2>1, Needs
<1>6. CASE k = 0 BY <1>1, <1>5, <1>6 DEF s
<1>7. CASE k = 1 BY <1>1, <1>2, <1>5, <1>7 DEF s
<1>8. CASE k = 2 BY <1>1, <1>2, <1>5, <1>8 DEF s
<1>9. CASE k = 3
  <2>1. \A j \in 1..k : s[j].do # "stamp" BY <1>1, <1>2, <1>9
  <2>2. View(m, VersionTable) = "0002" BY <1>4, <2>1, SeesTheVersion
  <2>. QED BY <1>1, <1>9, <2>2, Needs DEF s, Version
<1>. QED BY <1>6, <1>7, <1>8, <1>9

LEMMA FromTo ==
  ASSUME NEW d \in Nat
  PROVE  /\ (d + 1)..(d + 2) = {d + 1, d + 2}
         /\ (d + 1)..(d + 3) = {d + 1, d + 2, d + 3}
         /\ (d + 1)..(d + 4) = {d + 1, d + 2, d + 3, d + 4}
<1>1. (d + 1)..(d + 2) = {d + 1, d + 2} OBVIOUS
<1>2. (d + 1)..(d + 3) = {d + 1, d + 2, d + 3} OBVIOUS
<1>3. (d + 1)..(d + 4) = {d + 1, d + 2, d + 3, d + 4} OBVIOUS
<1>. QED BY <1>1, <1>2, <1>3

NewTable == {"agency_users", "audit_logs", "memory_chunks"}

\* The operations of the second revision, as d operations of the first have gone
\* before them in the same transaction.
LEMMA SecondRunsOn ==
  ASSUME OrderInv, NEW m \in Migrator, NEW script \in Scripts, NEW d \in {0, 4},
         Len(script) = d + 7, \A i \in 1..7 : script[d + i] = Upgrade2[i],
         \A j \in 1..d : script[j].on \notin NewTable,
         \A t \in NewTable : Image(Committed(VersionTable), t) = None,
         View(m, "agencies") # None,
         NEW k \in 0..5, Stage(m, script, d + k)
  PROVE  ~Fails(m, script[d + (k + 1)])
<1>. DEFINE s == script
            p == d + k
<1>. Defined /\ None \notin Migrator BY NoneAssumption DEF OrderInv, Inv
<1>1. /\ s[d + 1] = Enable("vector") /\ s[d + 2] = Enable("pg_trgm")
      /\ s[d + 3] = CreateAgencyUsers /\ s[d + 4] = CreateAuditLogs
      /\ s[d + 5] = CreateMemoryChunks /\ s[d + 6] = Index("memory_chunks", "pg_trgm")
  BY Upgrade2Operations
<1>2. /\ "vector" \in Extension /\ "pg_trgm" \in Extension
      /\ CreateAgencyUsers \in Created /\ CreateAuditLogs \in Created
      /\ CreateMemoryChunks \in Created /\ NewTable \subseteq Table
      /\ NewTable \cap Extension = {}
  BY Tables, Places DEF Extension, Created, NewTable
<1>3. \A e \in Extension : Enable(e).do = "enable" /\ Enable(e).on = e BY DEF Enable
<1>4. /\ CreateAgencyUsers.on = "agency_users" /\ Definition("agency_users").refs = {"agencies"}
      /\ CreateAuditLogs.on = "audit_logs" /\ Definition("audit_logs").refs = {}
      /\ CreateMemoryChunks.on = "memory_chunks" /\ Definition("memory_chunks").refs = {"vector"}
  BY <1>2, CreatedOn, References DEF NewTable
<1>5. /\ p \in 0..Len(s) /\ p \in Nat /\ d \in Nat /\ d + (k + 1) = p + 1 OBVIOUS
<1>. HIDE DEF s
<1>6. ASSUME NEW t \in NewTable, \A j \in (d + 1)..p : s[j].on # t PROVE View(m, t) = None
  <2>1. \A j \in 1..p : s[j].on # t
    <3>1. \A j \in 1..p : j \in 1..d \/ j \in (d + 1)..p BY <1>5
    <3>. QED BY <1>6, <3>1 DEF s
  <2>. QED BY <1>2, <1>5, <2>1, SeesTheImage DEF s
<1>7. k >= 2 => View(m, "vector") # None /\ View(m, "pg_trgm") # None
  <2>. SUFFICES ASSUME k >= 2 PROVE View(m, "vector") # None /\ View(m, "pg_trgm") # None
    OBVIOUS
  <2>1. d + 1 \in 1..p /\ d + 2 \in 1..p BY <1>5
  <2>2. \A j \in 1..p : s[j].do = "enable" => db[s[j].on] # None /\ lockedBy[s[j].on] \in {None, m}
    BY DEF Stage, s
  <2>3. \A e \in {"vector", "pg_trgm"} : db[e] # None /\ lockedBy[e] \in {None, m}
    BY <1>1, <1>2, <1>3, <2>1, <2>2
  <2>. QED BY <2>3 DEF View, Committed
<1>8. CASE k \in {0, 1} BY <1>1, <1>2, <1>8, Needs DEF s
<1>9. CASE k = 2
  <2>1. p + 1 = d + 3 /\ (d + 1)..p = {d + 1, d + 2}
    <3>1. p = d + 2 /\ p + 1 = d + 3 BY <1>5, <1>9
    <3>. QED BY <1>5, <3>1, FromTo
  <2>2. s[p + 1] = CreateAgencyUsers /\ \A j \in (d + 1)..p : s[j].on # "agency_users"
    BY <1>1, <1>2, <1>3, <2>1 DEF NewTable
  <2>3. View(m, "agency_users") = None BY <1>6, <2>2 DEF NewTable
  <2>. QED BY <1>2, <1>4, <1>5, <2>2, <2>3, Needs DEF s
<1>10. CASE k = 3
  <2>1. p + 1 = d + 4 /\ (d + 1)..p = {d + 1, d + 2, d + 3}
    <3>1. p = d + 3 /\ p + 1 = d + 4 BY <1>5, <1>10
    <3>. QED BY <1>5, <3>1, FromTo
  <2>2. s[p + 1] = CreateAuditLogs /\ \A j \in (d + 1)..p : s[j].on # "audit_logs"
    BY <1>1, <1>2, <1>3, <1>4, <2>1 DEF NewTable
  <2>3. View(m, "audit_logs") = None BY <1>6, <2>2 DEF NewTable
  <2>. QED BY <1>2, <1>4, <1>5, <2>2, <2>3, Needs DEF s
<1>11. CASE k = 4
  <2>1. p + 1 = d + 5 /\ (d + 1)..p = {d + 1, d + 2, d + 3, d + 4}
    <3>1. p = d + 4 /\ p + 1 = d + 5 BY <1>5, <1>11
    <3>. QED BY <1>5, <3>1, FromTo
  <2>2. s[p + 1] = CreateMemoryChunks /\ \A j \in (d + 1)..p : s[j].on # "memory_chunks"
    BY <1>1, <1>2, <1>3, <1>4, <2>1 DEF NewTable
  <2>3. View(m, "memory_chunks") = None BY <1>6, <2>2 DEF NewTable
  <2>4. View(m, "vector") # None BY <1>7, <1>11
  <2>. QED BY <1>2, <1>4, <1>5, <2>2, <2>3, <2>4, Needs DEF s
<1>12. CASE k = 5
  <2>1. d + 5 \in 1..p BY <1>5, <1>12
  <2>2. /\ s[d + 5].do = "create" /\ s[d + 5].on = "memory_chunks"
        /\ Value(s[d + 5]) = Definition("memory_chunks")
    BY <1>1, <1>2, <1>4, References, Writing
  <2>3. View(m, "memory_chunks") = Definition("memory_chunks")
    BY <1>2, <2>1, <2>2, SeesItsWork DEF s, NewTable
  <2>4. View(m, "memory_chunks") # None /\ View(m, "pg_trgm") # None
    BY <1>2, <1>7, <1>12, <2>3, DefinitionIsSome DEF NewTable
  <2>. QED BY <1>1, <1>12, <2>4, Needs DEF s
<1>. QED BY <1>8, <1>9, <1>10, <1>11, <1>12

LEMMA Upgrade2RunsOn ==
  ASSUME OrderInv, NEW m \in Migrator, NEW k \in 0..6, Stage(m, Upgrade2, k),
         Committed(VersionTable) = "0001"
  PROVE  ~Fails(m, Upgrade2[k + 1])
<1>. DEFINE s == Upgrade2
<1>. Defined /\ s \in Scripts BY DEF OrderInv, Inv, Scripts
<1>1. Len(s) = 7 /\ s[7] = Stamp("0001", "0002") BY Upgrade2Operations
<1>2. \A i \in 1..6 : s[i].do # "stamp" /\ s[i].on # "agencies" BY SecondRevision
<1>3. CASE k \in 0..5
  <2>1. View(m, "agencies") # None
    <3>1. \A j \in 1..k : s[j].on # "agencies" BY <1>2, <1>3
    <3>2. View(m, "agencies") = Image("0001", "agencies")
      <4>1. k \in 0..Len(s) /\ Stage(m, s, k) BY <1>1, <1>3
      <4>2. "agencies" \in Table BY Tables
      <4>. HIDE DEF s
      <4>. QED BY <3>1, <4>1, <4>2, SeesTheImage
    <3>. QED BY <3>2, Images, NoneAssumption DEF Created
  <2>2. \A t \in NewTable : Image("0001", t) = None BY Images DEF NewTable
  <2>3. /\ 0 + k = k /\ 0 + (k + 1) = k + 1 /\ 1..0 = {} /\ \A i \in 1..7 : 0 + i = i OBVIOUS
  <2>. QED BY <1>1, <1>3, <2>1, <2>2, <2>3, SecondRunsOn
<1>4. CASE k = 6
  <2>1. k \in 0..Len(s) /\ Stage(m, s, k) BY <1>1, <1>4
  <2>2. View(m, VersionTable) = "0001"
    <3>. HIDE DEF s
    <3>. QED BY <1>2, <1>4, <2>1, SeesTheVersion
  <2>. QED BY <1>1, <1>4, <2>2, Needs DEF Version
<1>. QED BY <1>3, <1>4

LEMMA UpgradesRunOn ==
  ASSUME OrderInv, NEW m \in Migrator, NEW k \in 0..10, Stage(m, Upgrades, k),
         Committed(VersionTable) = "base"
  PROVE  ~Fails(m, Upgrades[k + 1])
<1>. DEFINE s == Upgrades
<1>. Defined /\ s \in Scripts BY DEF OrderInv, Inv, Scripts
<1>. /\ "agencies" \in Table /\ "agency_clients" \in Table /\ "action_logs" \in Table
     /\ NewTable \subseteq Table
  BY Tables DEF NewTable
<1>1. /\ Len(s) = 11 /\ \A i \in 1..7 : s[i + 4] = Upgrade2[i]
      /\ s[1] = CreateAgencies /\ s[2] = CreateAgencyClients
      /\ s[3] = CreateActionLogs /\ s[4] = Stamp("base", "0001")
  BY UpgradesOperations, Upgrade1Operations
<1>2. /\ CreateAgencies \in Created /\ CreateAgencyClients \in Created
      /\ CreateActionLogs \in Created
  BY DEF Created
<1>3. /\ s[1].on = "agencies" /\ Definition("agencies").refs = {}
      /\ s[2].on = "agency_clients" /\ Definition("agency_clients").refs = {"agencies"}
      /\ s[3].on = "action_logs" /\ Definition("action_logs").refs = {}
      /\ \A j \in 1..3 : s[j].do = "create"
  <2>1. \A j \in 1..3 : j = 1 \/ j = 2 \/ j = 3 OBVIOUS
  <2>. QED BY <1>1, <1>2, <2>1, CreatedOn, References
<1>4. /\ s[4].on = VersionTable /\ s[4].do = "stamp" /\ s[4].to = "0001" /\ Writes(s[4])
  <2>1. /\ Stamp("base", "0001").on = VersionTable /\ Stamp("base", "0001").do = "stamp"
        /\ Stamp("base", "0001").to = "0001"
    BY DEF Stamp, VersionTable
  <2>. QED BY <1>1, <2>1 DEF Writes
<1>. HIDE DEF s
<1>5. k \in 0..Len(s) /\ Stage(m, s, k) BY <1>1 DEF s
<1>6. ASSUME NEW t \in Table, \A j \in 1..k : s[j].on # t
      PROVE  View(m, t) = None
  <2>1. View(m, t) = Image("base", t) BY <1>5, <1>6, SeesTheImage
  <2>. QED BY <2>1, Images
<1>7. k >= 1 => View(m, "agencies") # None
  <2>1. ASSUME k >= 1 PROVE View(m, "agencies") = Value(s[1])
    <3>1. 1 \in 1..k /\ 1 \in 1..3 BY <2>1
    <3>. QED BY <1>3, <1>5, <3>1, SeesItsWork
  <2>2. Value(s[1]) = Definition("agencies") BY <1>1, <1>2, <1>3, Writing, References
  <2>. QED BY <2>1, <2>2, DefinitionIsSome
<1>8. ASSUME NEW c \in Created, s[k + 1] = c, \A j \in 1..k : s[j].on # c.on,
             \A o \in Definition(c.on).refs : View(m, o) # None
      PROVE  ~Fails(m, s[k + 1])
  <2>1. c.on \in Table BY References
  <2>2. View(m, c.on) = None BY <1>6, <1>8, <2>1
  <2>. QED BY <1>8, <2>2, Needs
<1>9. CASE k = 0
  <2>1. s[k + 1] = CreateAgencies /\ 1..k = {} BY <1>1, <1>9
  <2>. QED BY <1>1, <1>2, <1>3, <1>8, <2>1 DEF s
<1>10. CASE k = 1
  <2>1. s[k + 1] = CreateAgencyClients /\ 1..k = {1} /\ View(m, "agencies") # None
    BY <1>1, <1>7, <1>10
  <2>. QED BY <1>1, <1>2, <1>3, <1>8, <2>1 DEF s
<1>11. CASE k = 2
  <2>1. s[k + 1] = CreateActionLogs /\ 1..k = {1, 2} BY <1>1, <1>11
  <2>. QED BY <1>1, <1>2, <1>3, <1>8, <2>1 DEF s
<1>12. CASE k = 3
  <2>1. s[k + 1] = Stamp("base", "0001") /\ \A j \in 1..k : s[j].do # "stamp"
    BY <1>1, <1>3, <1>12
  <2>2. View(m, VersionTable) = "base" BY <1>5, <2>1, SeesTheVersion
  <2>. QED BY <2>1, <2>2, Needs DEF s, Version
<1>13. CASE k \in 4..9
  <2>. DEFINE i == k - 4
  <2>1. /\ i \in 0..5 /\ 4 + i = k /\ 4 + (i + 1) = k + 1 BY <1>13
  <2>2. Len(s) = 4 + 7 /\ \A j \in 1..7 : s[4 + j] = Upgrade2[j]
    <3>1. \A j \in 1..7 : 4 + j = j + 4 OBVIOUS
    <3>. QED BY <1>1, <3>1
  <2>3. \A j \in 1..4 : s[j].on \notin NewTable
    <3>1. \A j \in 1..4 : j = 1 \/ j = 2 \/ j = 3 \/ j = 4 OBVIOUS
    <3>. QED BY <1>3, <1>4, <3>1 DEF NewTable, VersionTable
  <2>4. \A t \in NewTable : Image("base", t) = None BY Images
  <2>5. View(m, "agencies") # None BY <1>7, <1>13
  <2>6. Stage(m, s, 4 + i) BY <1>5, <2>1
  <2>. HIDE DEF i
  <2>. QED BY <2>1, <2>2, <2>3, <2>4, <2>5, <2>6, SecondRunsOn DEF s
<1>14. CASE k = 10
  <2>1. s[k + 1] = Stamp("0001", "0002")
    <3>1. k + 1 = 7 + 4 BY <1>14
    <3>. QED BY <1>1, <3>1, Upgrade2Operations
  <2>2. 4 \in 1..k BY <1>14
  <2>3. lockedBy[VersionTable] = m BY <1>4, <1>5, <2>2 DEF Stage, Done
  <2>4. \A i \in (4 + 1)..k : s[i].do # "stamp"
    <3>1. \A i \in (4 + 1)..k : i - 4 \in 1..6 /\ i - 4 \in 1..7 /\ (i - 4) + 4 = i BY <1>14
    <3>2. \A i \in (4 + 1)..k : s[i] = Upgrade2[i - 4] BY <1>1, <3>1
    <3>. QED BY <3>1, <3>2, SecondRevision
  <2>5. db[VersionTable] = "0001" BY <1>4, <1>5, <2>2, <2>4 DEF Stage, Stamped
  <2>6. View(m, VersionTable) = "0001" BY <2>3, <2>5 DEF View
  <2>. QED BY <2>1, <2>6, Needs DEF s, Version
<1>. QED BY <1>9, <1>10, <1>11, <1>12, <1>13, <1>14

LEMMA RunsOn ==
  ASSUME OrderInv, NEW m \in Migrator, OnCourse(m) PROVE ~InError(m)
<1>. SUFFICES ASSUME InError(m) PROVE FALSE OBVIOUS
<1>1. Working(m) /\ todo[m] # <<>> BY DEF InError, Working
<1>2. PICK script \in Scripts : \E k \in 0..Len(script) :
        /\ From(Committed(VersionTable), script) /\ k + 1 \in 1..Len(script)
        /\ Stage(m, script, k) /\ todo[m] = SubSeq(script, k + 1, Len(script))
  BY <1>1, CourseStage
<1>3. PICK k \in 0..Len(script) :
        /\ From(Committed(VersionTable), script) /\ k + 1 \in 1..Len(script)
        /\ Stage(m, script, k) /\ todo[m] = SubSeq(script, k + 1, Len(script))
  BY <1>2
<1>4. Head(todo[m]) = script[k + 1] BY <1>1, <1>3, AtOperation DEF Stage
<1>5. Fails(m, script[k + 1]) BY <1>4 DEF InError
<1>6. k \in Nat BY <1>3
<1>7. CASE Committed(VersionTable) = "base" /\ script = Upgrades
  <2>1. k \in 0..10 BY <1>3, <1>6, <1>7, UpgradesOperations
  <2>. QED BY <1>3, <1>5, <1>7, <2>1, UpgradesRunOn
<1>8. CASE Committed(VersionTable) = "0001" /\ script = Upgrade2
  <2>1. k \in 0..6 BY <1>3, <1>6, <1>8, Upgrade2Operations
  <2>. QED BY <1>3, <1>5, <1>8, <2>1, Upgrade2RunsOn
<1>9. CASE Committed(VersionTable) = "0001" /\ script = Downgrade1
  <2>1. k \in 0..3 BY <1>3, <1>6, <1>9, Downgrade1Operations
  <2>. QED BY <1>3, <1>5, <1>9, <2>1, Downgrade1RunsOn
<1>10. CASE Committed(VersionTable) = "0002" /\ script = Downgrade2
  <2>1. k \in 0..3 BY <1>3, <1>6, <1>10, Downgrade2Operations
  <2>. QED BY <1>3, <1>5, <1>10, <2>1, Downgrade2RunsOn
<1>. QED BY <1>3, <1>7, <1>8, <1>9, <1>10 DEF From

\* The revisions fit one another, in whatever order upgrades and downgrades are run,
\* by however many alembic processes, and wherever some of them died: a migration
\* meets an error only if another one has changed the version that it found.
THEOREM MigrationsFit == Spec => []FailsOnlyOvertaken
<1>1. OrderInv => FailsOnlyOvertaken BY RunsOn DEF FailsOnlyOvertaken
<1>. QED BY <1>1, OrderInvAlways, PTL

--------------------------------------------------------------------------------
(***************************************************************************)
(* Migrations wait in a circle only if one of them was overtaken.          *)
(***************************************************************************)
\* m holds some lock.
Holding(m) == \E l \in Lockable : lockedBy[l] = m

\* A wait is for something that the next operation may lock and another has locked.
LEMMA WaitsAt ==
  ASSUME OrderInv, NEW m \in Migrator, NEW n \in Awaited(m),
         NEW script \in Scripts, NEW k \in 0..Len(script), Stage(m, script, k)
  PROVE  /\ n \in Migrator /\ n # m /\ Holding(n) /\ k + 1 \in 1..Len(script)
         /\ \E l \in Lockable : /\ l \in Reach(script[k + 1]) /\ lockedBy[l] = n
                                /\ l # script[k + 1].on => lockedBy[script[k + 1].on] = m
<1>. None \notin Migrator BY NoneAssumption
<1>. Defined /\ Typed /\ Done(m, script, k) BY DEF OrderInv, Inv, Stage
<1>1. /\ Working(m) /\ \A l \in NextLocks(m, Head(todo[m])) : lockedBy[l] # None
      /\ \E l \in NextLocks(m, Head(todo[m])) : lockedBy[l] = n
  BY DEF Awaited
<1>2. /\ k + 1 \in 1..Len(script) /\ script[k + 1] \in Operations
      /\ Head(todo[m]) = script[k + 1]
  BY <1>1, AtOperation
<1>3. PICK l \in NextLocks(m, script[k + 1]) : lockedBy[l] = n BY <1>1, <1>2
<1>4. /\ l \in Lockable /\ l \in Reach(script[k + 1]) /\ lockedBy[l] # m
      /\ l # script[k + 1].on => lockedBy[script[k + 1].on] = m
  <2>. HIDE DEF Operations, Reach
  <2>. QED BY <1>2, NextLock
<1>5. lockedBy[l] # None BY <1>1, <1>2
<1>6. n \in Migrator /\ n # m BY <1>3, <1>4, <1>5 DEF Typed
<1>. QED BY <1>2, <1>3, <1>4, <1>6 DEF Holding

\* Who begins with a table holds it before anything else.
LEMMA HoldsTheFirst ==
  ASSUME NEW m \in Migrator, Holding(m), NEW script \in Scripts, NEW k \in 0..Len(script),
         Stage(m, script, k), script # <<>>, Writes(script[1])
  PROVE  lockedBy[script[1].on] = m
<1>1. CASE k = 0
  <2>1. 1..k = {} /\ k + 1 = 1 BY <1>1
  <2>. QED BY <2>1 DEF Holding, Stage, LocksInOrder
<1>2. CASE k # 0
  <2>1. script \in Seq(Operations) BY ScriptsAreOperations
  <2>. HIDE DEF Operations
  <2>2. 1 \in 1..k BY <1>2, <2>1
  <2>. QED BY <2>2 DEF Stage, Done
<1>. QED BY <1>1, <1>2

\* The second revision begins with the extensions, which are there and which nobody
\* locks: whoever holds anything in it has agency_users.
LEMMA HoldsUsers ==
  ASSUME NEW m \in Migrator, Holding(m), NEW k \in 0..Len(Upgrade2), Stage(m, Upgrade2, k)
  PROVE  lockedBy["agency_users"] = m
<1>. None \notin Migrator BY NoneAssumption
<1>1. Len(Upgrade2) = 7 /\ Upgrade2[3] = CreateAgencyUsers BY Upgrade2Operations
<1>2. Writes(CreateAgencyUsers) /\ CreateAgencyUsers.on = "agency_users"
  BY Writing, CreatedOn DEF Created
<1>3. Settled
  <2>1. Len(Upgrade2) # Len(Upgrades) /\ Len(Upgrade2) # Len(<<>>)
    BY <1>1, UpgradesOperations
  <2>2. Upgrade2 # Upgrades /\ Upgrade2 # <<>> BY <2>1, Zenon
  <2>. QED BY <2>2 DEF Stage
<1>4. CASE k >= 3
  <2>1. 3 \in 1..k BY <1>1, <1>4
  <2>. QED BY <1>1, <1>2, <2>1 DEF Stage, Done
<1>5. CASE k < 3
  <2>1. PICK l \in Lockable : lockedBy[l] = m BY DEF Holding
  <2>2. \/ \E j \in 1..k : l \in Reach(Upgrade2[j])
        \/ l \in Reach(Upgrade2[k + 1]) /\ lockedBy[Upgrade2[k + 1].on] = m
    <3>. HIDE DEF Reach
    <3>. QED BY <2>1 DEF Stage, LocksInOrder
  <2>3. l \notin {"vector", "pg_trgm"} BY <1>3, <2>1 DEF Settled, Extension
  <2>4. \A j \in 1..k : j = 1 \/ j = 2 BY <1>1, <1>5
  <2>5. \A j \in 1..k : l \notin Reach(Upgrade2[j])
    BY <2>3, <2>4, ReachOfUpgrade2
  <2>6. k + 1 = 1 \/ k + 1 = 2 \/ k + 1 = 3 BY <1>1, <1>5
  <2>7. k + 1 = 3 BY <2>2, <2>3, <2>5, <2>6, ReachOfUpgrade2
  <2>. QED BY <1>1, <1>2, <2>2, <2>5, <2>7
<1>. QED BY <1>1, <1>4, <1>5

\* Where a migration of such a circle is, and what it holds for that.
OnUpgrade(m) ==
  /\ Committed(VersionTable) = "0001" /\ lockedBy["agency_users"] = m
  /\ \E k \in 0..6 : Stage(m, Upgrade2, k)
OnDowngrade(m) ==
  /\ Committed(VersionTable) = "0001" /\ lockedBy["action_logs"] = m
  /\ \E k \in 0..3 : Stage(m, Downgrade1, k)
Alone(m) ==
  \/ Committed(VersionTable) = "base" /\ lockedBy["agencies"] = m
  \/ Committed(VersionTable) = "0002" /\ lockedBy["memory_chunks"] = m

LEMMA CircleKinds ==
  ASSUME OrderInv, NEW m \in Migrator, OnCourse(m), Awaited(m) # {}, Holding(m)
  PROVE  OnUpgrade(m) \/ OnDowngrade(m) \/ Alone(m)
<1>1. Working(m) /\ todo[m] # <<>> BY DEF Awaited, Working
<1>2. PICK script \in Scripts : \E k \in 0..Len(script) :
        /\ From(Committed(VersionTable), script) /\ k + 1 \in 1..Len(script)
        /\ Stage(m, script, k) /\ todo[m] = SubSeq(script, k + 1, Len(script))
  BY <1>1, CourseStage
<1>3. PICK k \in 0..Len(script) :
        /\ From(Committed(VersionTable), script) /\ k + 1 \in 1..Len(script)
        /\ Stage(m, script, k)
  BY <1>2
<1>4. k \in Nat BY <1>3
<1>5. /\ CreateAgencies.on = "agencies" /\ Writes(CreateAgencies)
      /\ \A t \in Table : Drop(t).on = t /\ Writes(Drop(t))
      /\ "action_logs" \in Table /\ "memory_chunks" \in Table
  BY Writing, CreatedOn, Tables DEF Created
<1>6. CASE Committed(VersionTable) = "base" /\ script = Upgrades
  <2>1. script[1] = CreateAgencies /\ script # <<>>
    <3>1. 1 \in 1..4 OBVIOUS
    <3>2. Upgrades[1] = CreateAgencies /\ Len(Upgrades) = 11
      BY <3>1, UpgradesOperations, Upgrade1Operations
    <3>3. script # <<>> BY <1>3
    <3>. QED BY <1>6, <3>2, <3>3
  <2>2. Writes(script[1]) /\ script[1].on = "agencies" BY <1>5, <2>1
  <2>. QED BY <1>3, <1>6, <2>1, <2>2, HoldsTheFirst DEF Alone
<1>7. CASE Committed(VersionTable) = "0001" /\ script = Upgrade2
  <2>1. k \in 0..6 BY <1>3, <1>4, <1>7, Upgrade2Operations
  <2>. QED BY <1>3, <1>7, <2>1, HoldsUsers DEF OnUpgrade
<1>8. CASE Committed(VersionTable) = "0001" /\ script = Downgrade1
  <2>1. k \in 0..3 BY <1>3, <1>4, <1>8, Downgrade1Operations
  <2>2. script[1] = Drop("action_logs") /\ script # <<>> BY <1>3, <1>8, Downgrade1Operations
  <2>3. Writes(script[1]) /\ script[1].on = "action_logs" BY <1>5, <2>2
  <2>. QED BY <1>3, <1>8, <2>1, <2>2, <2>3, HoldsTheFirst DEF OnDowngrade
<1>9. CASE Committed(VersionTable) = "0002" /\ script = Downgrade2
  <2>1. script[1] = Drop("memory_chunks") /\ script # <<>> BY <1>3, <1>9, Downgrade2Operations
  <2>2. Writes(script[1]) /\ script[1].on = "memory_chunks" BY <1>5, <2>1
  <2>. QED BY <1>3, <1>9, <2>1, <2>2, HoldsTheFirst DEF Alone
<1>. QED BY <1>3, <1>6, <1>7, <1>8, <1>9 DEF From

\* Both may lock agencies and the version, and nothing else.
LEMMA TheyMeet ==
  ASSUME NEW i \in 1..7, NEW j \in 1..4, NEW l \in Lockable,
         l \in Reach(Upgrade2[i]), l \in Reach(Downgrade1[j])
  PROVE  l = "agencies" \/ (l = VersionTable /\ i = 7 /\ j = 4)
<1>1. i = 1 \/ i = 2 \/ i = 3 \/ i = 4 \/ i = 5 \/ i = 6 \/ i = 7 OBVIOUS
<1>2. j = 1 \/ j = 2 \/ j = 3 \/ j = 4 OBVIOUS
<1>3. /\ l \in {"vector", "pg_trgm", "agency_users", "agencies", "audit_logs", "memory_chunks",
                VersionTable}
      /\ l = VersionTable => i = 7
  BY <1>1, ReachOfUpgrade2 DEF VersionTable
<1>4. /\ l \in {"action_logs", "agency_clients", "agencies", VersionTable} \cup ForeignKeys
      /\ l = VersionTable => j = 4
  BY <1>2, ReachOfDowngrade1, KeyNames, Places DEF VersionTable
<1>5. l \notin ForeignKeys
  BY <1>3, KeyNames DEF VersionTable
<1>. QED BY <1>3, <1>4, <1>5 DEF VersionTable

\* An upgrade from 0001 and a downgrade do not wait for one another.
LEMMA TheyPass ==
  ASSUME OrderInv, NEW u \in Migrator, NEW d \in Migrator, OnUpgrade(u), OnDowngrade(d),
         d \in Awaited(u), u \in Awaited(d)
  PROVE  FALSE
<1>1. PICK k \in 0..6 : Stage(u, Upgrade2, k) BY DEF OnUpgrade
<1>2. PICK j \in 0..3 : Stage(d, Downgrade1, j) BY DEF OnDowngrade
<1>3. /\ Upgrade2 \in Scripts /\ Downgrade1 \in Scripts
      /\ Len(Upgrade2) = 7 /\ Len(Downgrade1) = 4
  BY Upgrade2Operations, Downgrade1Operations DEF Scripts
<1>4. k \in 0..Len(Upgrade2) /\ j \in 0..Len(Downgrade1) BY <1>3
<1>a. ASSUME NEW m \in Migrator, NEW n \in Awaited(m),
             NEW script \in Scripts, NEW i \in 0..Len(script), Stage(m, script, i)
      PROVE  n # m /\ \E l \in Lockable : l \in Reach(script[i + 1]) /\ lockedBy[l] = n
  BY <1>a, WaitsAt
<1>. HIDE DEF Reach
<1>5. PICK l \in Lockable : l \in Reach(Upgrade2[k + 1]) /\ lockedBy[l] = d
  <2>1. Upgrade2 \in Scripts /\ k \in 0..Len(Upgrade2) /\ Stage(u, Upgrade2, k)
    BY <1>1, <1>3, <1>4
  <2>2. u \in Migrator /\ d \in Awaited(u) OBVIOUS
  <2>. QED BY <2>1, <2>2, <1>a
<1>6. PICK h \in Lockable : h \in Reach(Downgrade1[j + 1]) /\ lockedBy[h] = u
  <2>1. Downgrade1 \in Scripts /\ j \in 0..Len(Downgrade1) /\ Stage(d, Downgrade1, j)
    BY <1>2, <1>3, <1>4
  <2>2. d \in Migrator /\ u \in Awaited(d) OBVIOUS
  <2>. QED BY <2>1, <2>2, <1>a
<1>7. PICK a \in 1..4 : l \in Reach(Downgrade1[a]) /\ a <= j + 1
                        /\ (a = j + 1 => lockedBy[Downgrade1[j + 1].on] = d)
  <2>1. \/ \E i \in 1..j : l \in Reach(Downgrade1[i])
        \/ l \in Reach(Downgrade1[j + 1]) /\ lockedBy[Downgrade1[j + 1].on] = d
    BY <1>2, <1>5 DEF Stage, LocksInOrder
  <2>2. \A i \in 1..j : i \in 1..4 /\ i <= j + 1 /\ i # j + 1 OBVIOUS
  <2>3. j + 1 \in 1..4 /\ j + 1 <= j + 1 OBVIOUS
  <2>. QED BY <2>1, <2>2, <2>3
<1>8. PICK b \in 1..7 : h \in Reach(Upgrade2[b]) /\ b <= k + 1
                        /\ (b = k + 1 => lockedBy[Upgrade2[k + 1].on] = u)
  <2>1. \/ \E i \in 1..k : h \in Reach(Upgrade2[i])
        \/ h \in Reach(Upgrade2[k + 1]) /\ lockedBy[Upgrade2[k + 1].on] = u
    BY <1>1, <1>6 DEF Stage, LocksInOrder
  <2>2. \A i \in 1..k : i \in 1..7 /\ i <= k + 1 /\ i # k + 1 OBVIOUS
  <2>3. k + 1 \in 1..7 /\ k + 1 <= k + 1 OBVIOUS
  <2>. QED BY <2>1, <2>2, <2>3
<1>9. k + 1 \in 1..7 /\ j + 1 \in 1..4 OBVIOUS
<1>10. l = "agencies" \/ (l = VersionTable /\ k + 1 = 7 /\ a = 4)
  BY <1>5, <1>7, <1>9, TheyMeet
<1>11. h = "agencies" \/ (h = VersionTable /\ b = 7 /\ j + 1 = 4)
  BY <1>6, <1>8, <1>9, TheyMeet
<1>12. u # d
  <2>1. d # u BY <1>1, <1>3, <1>4, <1>a
  <2>. QED BY <2>1
<1>13. l # h BY <1>5, <1>6, <1>12
<1>14. CASE l = VersionTable /\ k + 1 = 7 /\ a = 4
  <2>1. j + 1 = 4 BY <1>7, <1>9, <1>14
  <2>2. lockedBy[VersionTable] = d BY <1>5, <1>14
  <2>3. Reach(Downgrade1[4]) = {VersionTable} BY ReachOfDowngrade1
  <2>4. h = VersionTable BY <1>6, <2>1, <2>3
  <2>. QED BY <1>13, <1>14, <2>4
<1>15. CASE h = VersionTable /\ b = 7 /\ j + 1 = 4
  <2>1. k + 1 = 7 BY <1>8, <1>9, <1>15
  <2>2. Reach(Upgrade2[7]) = {VersionTable} BY ReachOfUpgrade2
  <2>3. l = VersionTable BY <1>5, <2>1, <2>2
  <2>. QED BY <1>13, <1>15, <2>3
<1>. QED BY <1>10, <1>11, <1>13, <1>14, <1>15

LEMMA NoCircleOnCourse ==
  ASSUME OrderInv, NEW circle \in SUBSET Migrator, Circle(circle),
         \A m \in circle : OnCourse(m)
  PROVE  FALSE
<1>1. ASSUME NEW m \in circle, NEW n \in Awaited(m) PROVE n \in circle /\ n # m /\ Holding(n)
  <2>1. n \in circle BY <1>1 DEF Circle
  <2>2. Working(m) /\ todo[m] # None BY <1>1 DEF Awaited, Working
  <2>3. PICK script \in Scripts : \E k \in 0..Len(script) : Stage(m, script, k)
    BY <2>2 DEF OrderInv, Staged
  <2>4. PICK k \in 0..Len(script) : Stage(m, script, k) BY <2>3
  <2>. QED BY <1>1, <2>1, <2>4, WaitsAt
<1>2. ASSUME NEW n \in circle PROVE OnUpgrade(n) \/ OnDowngrade(n) \/ Alone(n)
  <2>1. PICK m \in circle : n \in Awaited(m) BY <1>2 DEF Circle
  <2>2. Holding(n) BY <1>1, <2>1
  <2>. QED BY <2>2, CircleKinds DEF Circle
<1>3. ASSUME NEW m \in circle, NEW n \in circle, m # n
      PROVE  \/ OnUpgrade(m) /\ OnDowngrade(n)
             \/ OnDowngrade(m) /\ OnUpgrade(n)
  BY <1>2, <1>3 DEF OnUpgrade, OnDowngrade, Alone
<1>4. PICK m \in circle : TRUE BY DEF Circle
<1>5. PICK n \in Awaited(m) : TRUE BY DEF Circle
<1>6. n \in circle /\ n # m BY <1>1, <1>5
<1>7. PICK p \in Awaited(n) : TRUE BY <1>6 DEF Circle
<1>8. p \in circle /\ p # n BY <1>1, <1>6, <1>7
<1>9. p = m
  <2>1. /\ \/ OnUpgrade(m) /\ OnDowngrade(n)
           \/ OnDowngrade(m) /\ OnUpgrade(n)
        /\ \/ OnUpgrade(n) /\ OnDowngrade(p)
           \/ OnDowngrade(n) /\ OnUpgrade(p)
    BY <1>3, <1>6, <1>8
  <2>. QED BY <1>3, <1>8, <2>1 DEF OnUpgrade, OnDowngrade
<1>. QED BY <1>3, <1>5, <1>6, <1>7, <1>9, TheyPass

\* Whenever migrations wait for one another in a circle, however many there are, one
\* of them was overtaken: PostgreSQL never has to abort a migration because of others
\* that are all on course.
THEOREM OnlyTheOvertakenDeadlock == Spec => []DeadlockOnlyOvertaken
<1>1. OrderInv => DeadlockOnlyOvertaken BY NoCircleOnCourse DEF DeadlockOnlyOvertaken
<1>. QED BY <1>1, OrderInvAlways, PTL

================================================================================

------------------------------ MODULE SchemaProofs ------------------------------
(***************************************************************************)
(* Theorems of Schema, for any number of alembic processes.  What a        *)
(* transaction has done is told by its script and how far it is: that      *)
(* determines what it leaves in the objects it has locked, and its first   *)
(* stamp has checked the version that all of it was written for.           *)
(***************************************************************************)
EXTENDS Schema, SequenceTheorems, TLAPS

--------------------------------------------------------------------------------
(***************************************************************************)
(* The scripts.                                                            *)
(***************************************************************************)
VersionTable == "alembic_version"

Operations ==
  Created \cup {Drop(t) : t \in Table} \cup {Enable(e) : e \in Extension}
  \cup {Index("memory_chunks", "pg_trgm")}
  \cup {Stamp(from, to) : from \in Version, to \in Version}
Upgrades == Upgrade1 \o Upgrade2
Scripts == {Upgrades, Upgrade2, Downgrade2, Downgrade1, <<>>}

\* What an operation changes for good, extensions aside.
Writes(op) == op.do \in {"create", "drop", "stamp"}
Value(op) == IF op.do = "create" THEN op.def ELSE IF op.do = "drop" THEN None ELSE op.to

\* The definition of a table in a version.
Definition(t) ==
  IF t = "agencies" THEN CreateAgencies.def
  ELSE IF t = "agency_clients" THEN CreateAgencyClients.def
  ELSE IF t = "action_logs" THEN CreateActionLogs.def
  ELSE IF t = "agency_users" THEN CreateAgencyUsers.def
  ELSE IF t = "audit_logs" THEN CreateAuditLogs.def
  ELSE CreateMemoryChunks.def
Image(version, t) == IF t \in TablesOf(version) THEN Definition(t) ELSE None

LEMMA Tables ==
  Table = {"agencies", "agency_clients", "action_logs", "agency_users", "audit_logs",
           "memory_chunks"}
BY DEF Table, Models, Mapped, Agency, AgencyClient, ActionLog, AgencyUser, AuditLog, MemoryChunk

LEMMA Places == /\ VersionTable \notin Table \cup Extension
                /\ Table \cap Extension = {}
                /\ Object = Table \cup Extension \cup {VersionTable}
                /\ Object \subseteq Lockable
BY Tables DEF VersionTable, Extension, Object, Lockable

LEMMA KeyNames ==
  /\ ForeignKeys = {"fk_agency_clients_agency_id_agencies", "fk_agency_users_agency_id_agencies"}
  /\ ForeignKeys \cap Object = {}
<1>1. ForeignKeys = {"fk_agency_clients_agency_id_agencies", "fk_agency_users_agency_id_agencies"}
  BY DEF ForeignKeys, ForeignKey
<1>. QED BY <1>1, Tables DEF Object, Extension

\* Where each kind of operation is done.
LEMMA OperationsDo ==
  ASSUME NEW op \in Operations
  PROVE  \/ op.do \in {"create", "drop", "index"} /\ op.on \in Table
         \/ op.do = "enable" /\ op.on \in Extension
         \/ op.do = "stamp" /\ op.on = VersionTable /\ op.to \in Version
<1>1. ASSUME NEW c \in Created PROVE c.do = "create" /\ c.on \in Table
  BY Tables DEF Created, Create, CreateAgencies, CreateAgencyClients, CreateActionLogs,
     CreateAgencyUsers, CreateAuditLogs, CreateMemoryChunks
<1>2. ASSUME NEW t \in Table PROVE Drop(t).do = "drop" /\ Drop(t).on = t
  BY DEF Drop
<1>3. ASSUME NEW e \in Extension PROVE Enable(e).do = "enable" /\ Enable(e).on = e
  BY DEF Enable
<1>4. Index("memory_chunks", "pg_trgm").do = "index" /\ Index("memory_chunks", "pg_trgm").on \in Table
  BY Tables DEF Index
<1>5. ASSUME NEW from \in Version, NEW to \in Version
      PROVE  Stamp(from, to).do = "stamp" /\ Stamp(from, to).on = VersionTable /\ Stamp(from, to).to = to
  BY DEF Stamp, VersionTable
<1>. QED BY <1>1, <1>2, <1>3, <1>4, <1>5 DEF Operations

LEMMA Upgrade1Operations ==
  /\ Upgrade1 \in Seq(Operations) /\ Len(Upgrade1) = 4
  /\ Upgrade1[1] = CreateAgencies /\ Upgrade1[2] = CreateAgencyClients
  /\ Upgrade1[3] = CreateActionLogs /\ Upgrade1[4] = Stamp("base", "0001")
<1>1. {CreateAgencies, CreateAgencyClients, CreateActionLogs, Stamp("base", "0001")}
        \subseteq Operations
  BY DEF Operations, Created, Version
<1>. QED BY <1>1 DEF Upgrade1

LEMMA Upgrade2Operations ==
  /\ Upgrade2 \in Seq(Operations) /\ Len(Upgrade2) = 7
  /\ Upgrade2[1] = Enable("vector") /\ Upgrade2[2] = Enable("pg_trgm")
  /\ Upgrade2[3] = CreateAgencyUsers /\ Upgrade2[4] = CreateAuditLogs
  /\ Upgrade2[5] = CreateMemoryChunks /\ Upgrade2[6] = Index("memory_chunks", "pg_trgm")
  /\ Upgrade2[7] = Stamp("0001", "0002")
<1>1. {Enable("vector"), Enable("pg_trgm"), CreateAgencyUsers, CreateAuditLogs,
       CreateMemoryChunks, Index("memory_chunks", "pg_trgm"), Stamp("0001", "0002")}
        \subseteq Operations
  BY DEF Operations, Created, Version, Extension
<1>. QED BY <1>1 DEF Upgrade2

LEMMA Downgrade1Operations ==
  /\ Downgrade1 \in Seq(Operations) /\ Len(Downgrade1) = 4
  /\ Downgrade1[1] = Drop("action_logs") /\ Downgrade1[2] = Drop("agency_clients")
  /\ Downgrade1[3] = Drop("agencies") /\ Downgrade1[4] = Stamp("0001", "base")
<1>1. {Drop("action_logs"), Drop("agency_clients"), Drop("agencies"), Stamp("0001", "base")}
        \subseteq Operations
  BY Tables DEF Operations, Version
<1>. QED BY <1>1 DEF Downgrade1

LEMMA Downgrade2Operations ==
  /\ Downgrade2 \in Seq(Operations) /\ Len(Downgrade2) = 4
  /\ Downgrade2[1] = Drop("memory_chunks") /\ Downgrade2[2] = Drop("audit_logs")
  /\ Downgrade2[3] = Drop("agency_users") /\ Downgrade2[4] = Stamp("0002", "0001")
<1>1. {Drop("memory_chunks"), Drop("audit_logs"), Drop("agency_users"), Stamp("0002", "0001")}
        \subseteq Operations
  BY Tables DEF Operations, Version
<1>. QED BY <1>1 DEF Downgrade2

LEMMA Joined ==
  ASSUME NEW S, NEW s \in Seq(S), NEW t \in Seq(S)
  PROVE  /\ s \o t \in Seq(S)
         /\ Len(s \o t) = Len(s) + Len(t)
         /\ \A i \in 1..Len(s) : (s \o t)[i] = s[i]
         /\ \A i \in 1..Len(t) : (s \o t)[Len(s) + i] = t[i]
<1>1. s \o t \in Seq(S) /\ Len(s \o t) = Len(s) + Len(t) OBVIOUS
<1>2. \A i \in 1..Len(s) : (s \o t)[i] = s[i] OBVIOUS
<1>3. \A i \in 1..Len(t) : (s \o t)[Len(s) + i] = t[i] OBVIOUS
<1>. QED BY <1>1, <1>2, <1>3

LEMMA UpgradesOperations ==
  /\ Upgrades \in Seq(Operations) /\ Len(Upgrades) = 11
  /\ \A i \in 1..4 : Upgrades[i] = Upgrade1[i]
  /\ \A i \in 1..7 : Upgrades[i + 4] = Upgrade2[i]
<1>1. Upgrade1 \in Seq(Operations) /\ Len(Upgrade1) = 4 BY Upgrade1Operations
<1>2. Upgrade2 \in Seq(Operations) /\ Len(Upgrade2) = 7 BY Upgrade2Operations
<1>3. /\ Upgrades \in Seq(Operations)
      /\ Len(Upgrades) = Len(Upgrade1) + Len(Upgrade2)
      /\ \A i \in 1..Len(Upgrade1) : Upgrades[i] = Upgrade1[i]
      /\ \A i \in 1..Len(Upgrade2) : Upgrades[Len(Upgrade1) + i] = Upgrade2[i]
  <2>1. Upgrade1 \in Seq(Operations) /\ Upgrade2 \in Seq(Operations) BY <1>1, <1>2
  <2>2. ASSUME NEW s \in Seq(Operations), NEW t \in Seq(Operations)
        PROVE  /\ s \o t \in Seq(Operations)
               /\ Len(s \o t) = Len(s) + Len(t)
               /\ \A i \in 1..Len(s) : (s \o t)[i] = s[i]
               /\ \A i \in 1..Len(t) : (s \o t)[Len(s) + i] = t[i]
    <3>. HIDE DEF Operations
    <3>. QED BY Joined
  <2>3. /\ Upgrade1 \o Upgrade2 \in Seq(Operations)
        /\ Len(Upgrade1 \o Upgrade2) = Len(Upgrade1) + Len(Upgrade2)
        /\ \A i \in 1..Len(Upgrade1) : (Upgrade1 \o Upgrade2)[i] = Upgrade1[i]
        /\ \A i \in 1..Len(Upgrade2) : (Upgrade1 \o Upgrade2)[Len(Upgrade1) + i] = Upgrade2[i]
    BY <2>1, <2>2
  <2>. QED BY <2>3 DEF Upgrades
<1>4. \A i \in 1..7 : i + 4 = Len(Upgrade1) + i BY <1>1
<1>. HIDE DEF Operations
<1>. QED BY <1>1, <1>2, <1>3, <1>4

LEMMA ScriptsAreOperations == \A script \in Scripts : script \in Seq(Operations)
<1>1. <<>> \in Seq(Operations) OBVIOUS
<1>2. Upgrades \in Seq(Operations) BY UpgradesOperations
<1>3. Upgrade2 \in Seq(Operations) BY Upgrade2Operations
<1>4. Downgrade1 \in Seq(Operations) BY Downgrade1Operations
<1>5. Downgrade2 \in Seq(Operations) BY Downgrade2Operations
<1>. QED BY <1>1, <1>2, <1>3, <1>4, <1>5, Zenon DEF Scripts

LEMMA ScriptIsScript == \A command \in Command, version \in Version : Script(command, version) \in Scripts
BY DEF Script, Scripts, Upgrades, Command, Version

\* Every script is that of some command, whose transactions are not None.
LEMMA RemainingIsSome ==
  ASSUME NEW script \in Scripts, NEW k \in 1..(Len(script) + 1)
  PROVE  SubSeq(script, k, Len(script)) # None
<1>1. PICK command \in Command, version \in Version : script = Script(command, version)
  <2>1. Script("upgrade", "base") = Upgrades BY DEF Script, Upgrades
  <2>2. Script("upgrade", "0001") = Upgrade2 BY DEF Script
  <2>3. Script("downgrade", "0002") = Downgrade2 BY DEF Script
  <2>4. Script("downgrade", "0001") = Downgrade1 BY DEF Script
  <2>5. Script("downgrade", "base") = <<>> BY DEF Script
  <2>6. {"upgrade", "downgrade"} \subseteq Command /\ {"base", "0001", "0002"} \subseteq Version
    BY DEF Command, Version
  <2>. QED BY <2>1, <2>2, <2>3, <2>4, <2>5, <2>6 DEF Scripts
<1>. QED BY <1>1, NoneAssumption

--------------------------------------------------------------------------------
(***************************************************************************)
(* What a whole script does: between its first stamp and its last one.     *)
(***************************************************************************)
WritesOn(script, j, o) == Writes(script[j]) /\ script[j].on = o
Position(script) == 1..Len(script)
IsFirstStamp(script, j) ==
  script[j].do = "stamp" /\ \A i \in 1..(j - 1) : script[i].do # "stamp"

\* No table is written twice.
OnceEach(script) ==
  \A i, j \in Position(script) :
    i < j /\ Writes(script[i]) /\ Writes(script[j]) => script[i].on # script[j].on \/ script[i].on \notin Table

\* From one version to another: the first stamp checks from, the last operation
\* stamps to; what is not written is the same in both.
Leads(script, from, to) ==
  /\ \E j \in Position(script) : IsFirstStamp(script, j) /\ script[j].from = from
  /\ Len(script) \in Position(script)
  /\ script[Len(script)].do = "stamp" /\ script[Len(script)].to = to
  /\ \A t \in Table :
       (\A j \in Position(script) : ~WritesOn(script, j, t)) => Image(to, t) = Image(from, t)
  /\ \A t \in Table, j \in Position(script) :
       WritesOn(script, j, t) => Image(to, t) = Value(script[j])

LEMMA Writing ==
  /\ \A c \in Created : Writes(c) /\ Value(c) = c.def /\ c.do # "stamp"
  /\ \A t \in Table : Writes(Drop(t)) /\ Value(Drop(t)) = None /\ Drop(t).on = t
                     /\ Drop(t).do # "stamp"
  /\ \A e \in Extension : ~Writes(Enable(e)) /\ Enable(e).do # "stamp"
  /\ ~Writes(Index("memory_chunks", "pg_trgm")) /\ Index("memory_chunks", "pg_trgm").do # "stamp"
  /\ \A from, to \in Version : /\ Stamp(from, to).do = "stamp" /\ Stamp(from, to).on = VersionTable
                              /\ Stamp(from, to).from = from /\ Stamp(from, to).to = to
<1>1. ASSUME NEW c \in Created PROVE c.do = "create"
  BY DEF Created, Create, CreateAgencies, CreateAgencyClients, CreateActionLogs,
     CreateAgencyUsers, CreateAuditLogs, CreateMemoryChunks
<1>2. ASSUME NEW t \in Table PROVE Drop(t).do = "drop" /\ Drop(t).on = t
  BY DEF Drop
<1>3. ASSUME NEW e \in Extension PROVE Enable(e).do = "enable"
  BY DEF Enable
<1>4. Index("memory_chunks", "pg_trgm").do = "index"
  BY DEF Index
<1>5. ASSUME NEW from \in Version, NEW to \in Version
      PROVE  /\ Stamp(from, to).do = "stamp" /\ Stamp(from, to).on = VersionTable
             /\ Stamp(from, to).from = from /\ Stamp(from, to).to = to
  BY DEF Stamp, VersionTable
<1>. QED BY <1>1, <1>2, <1>3, <1>4, <1>5 DEF Writes, Value

LEMMA CreatedOn ==
  /\ CreateAgencies.on = "agencies" /\ CreateAgencyClients.on = "agency_clients"
  /\ CreateActionLogs.on = "action_logs" /\ CreateAgencyUsers.on = "agency_users"
  /\ CreateAuditLogs.on = "audit_logs" /\ CreateMemoryChunks.on = "memory_chunks"
BY DEF Create, CreateAgencies, CreateAgencyClients, CreateActionLogs, CreateAgencyUsers,
   CreateAuditLogs, CreateMemoryChunks

\* The tables that the versions have.
LEMMA Images ==
  /\ \A t \in Table : Image("base", t) = None
  /\ Image("0001", "agencies") = CreateAgencies.def
  /\ Image("0001", "agency_clients") = CreateAgencyClients.def
  /\ Image("0001", "action_logs") = CreateActionLogs.def
  /\ \A t \in {"agency_users", "audit_logs", "memory_chunks"} : Image("0001", t) = None
  /\ \A t \in {"agencies", "agency_clients", "action_logs"} : Image("0002", t) = Image("0001", t)
  /\ Image("0002", "agency_users") = CreateAgencyUsers.def
  /\ Image("0002", "audit_logs") = CreateAuditLogs.def
  /\ Image("0002", "memory_chunks") = CreateMemoryChunks.def
<1>1. TablesOf("base") = {} BY DEF TablesOf
<1>2. TablesOf("0001") = {"agencies", "agency_clients", "action_logs"} BY DEF TablesOf
<1>3. TablesOf("0002") = Table BY DEF TablesOf
<1>. QED BY <1>1, <1>2, <1>3, Tables DEF Image, Definition

\* What the operations of the revisions write, in one place for the scripts below.
LEMMA WhatIsWritten ==
  /\ \A t \in Table : /\ Writes(Drop(t)) /\ Drop(t).on = t /\ Value(Drop(t)) = None
                     /\ Drop(t).do # "stamp"
  /\ \A c \in Created : Writes(c) /\ Value(c) = c.def /\ c.do # "stamp"
  /\ \A op \in {Enable("vector"), Enable("pg_trgm"), Index("memory_chunks", "pg_trgm")} :
       ~Writes(op) /\ op.do # "stamp"
  /\ \A from, to \in Version : /\ Stamp(from, to).on \notin Table
                              /\ Stamp(from, to).do = "stamp"
                              /\ Stamp(from, to).from = from /\ Stamp(from, to).to = to
BY Writing, Places DEF Extension

LEMMA Downgrade1Leads == OnceEach(Downgrade1) /\ Leads(Downgrade1, "0001", "base")
<1>. DEFINE s == Downgrade1
<1>1. /\ Len(s) = 4
      /\ \A j \in 1..4 : j = 1 \/ j = 2 \/ j = 3 \/ j = 4
      /\ Writes(s[1]) /\ s[1].on = "action_logs" /\ Value(s[1]) = None /\ s[1].do # "stamp"
      /\ Writes(s[2]) /\ s[2].on = "agency_clients" /\ Value(s[2]) = None /\ s[2].do # "stamp"
      /\ Writes(s[3]) /\ s[3].on = "agencies" /\ Value(s[3]) = None /\ s[3].do # "stamp"
      /\ s[4].on \notin Table /\ s[4].do = "stamp" /\ s[4].from = "0001" /\ s[4].to = "base"
  BY Downgrade1Operations, WhatIsWritten, Tables DEF Version
<1>2. /\ \A t \in Table : Image("base", t) = None
      /\ \A t \in Table : t \notin {"action_logs", "agency_clients", "agencies"}
           => Image("0001", t) = None
  BY Images, Tables
<1>. HIDE DEF s
<1>3. OnceEach(s) BY <1>1, Tables DEF OnceEach, Position
<1>4. IsFirstStamp(s, 4) BY <1>1 DEF IsFirstStamp
<1>5. ASSUME NEW t \in Table, \A j \in 1..4 : ~WritesOn(s, j, t)
      PROVE  Image("base", t) = Image("0001", t)
  BY <1>1, <1>2, <1>5 DEF WritesOn
<1>6. ASSUME NEW t \in Table, NEW j \in 1..4, WritesOn(s, j, t)
      PROVE  Image("base", t) = Value(s[j])
  BY <1>1, <1>2, <1>6 DEF WritesOn
<1>. QED BY <1>1, <1>3, <1>4, <1>5, <1>6 DEF Leads, Position, s

LEMMA Downgrade2Leads == OnceEach(Downgrade2) /\ Leads(Downgrade2, "0002", "0001")
<1>. DEFINE s == Downgrade2
<1>1. /\ Len(s) = 4
      /\ \A j \in 1..4 : j = 1 \/ j = 2 \/ j = 3 \/ j = 4
      /\ Writes(s[1]) /\ s[1].on = "memory_chunks" /\ Value(s[1]) = None /\ s[1].do # "stamp"
      /\ Writes(s[2]) /\ s[2].on = "audit_logs" /\ Value(s[2]) = None /\ s[2].do # "stamp"
      /\ Writes(s[3]) /\ s[3].on = "agency_users" /\ Value(s[3]) = None /\ s[3].do # "stamp"
      /\ s[4].on \notin Table /\ s[4].do = "stamp" /\ s[4].from = "0002" /\ s[4].to = "0001"
  BY Downgrade2Operations, WhatIsWritten, Tables DEF Version
<1>2. /\ \A t \in {"memory_chunks", "audit_logs", "agency_users"} : Image("0001", t) = None
      /\ \A t \in Table : t \notin {"memory_chunks", "audit_logs", "agency_users"}
           => Image("0002", t) = Image("0001", t)
  BY Images, Tables
<1>. HIDE DEF s
<1>3. OnceEach(s) BY <1>1, Tables DEF OnceEach, Position
<1>4. IsFirstStamp(s, 4) BY <1>1 DEF IsFirstStamp
<1>5. ASSUME NEW t \in Table, \A j \in 1..4 : ~WritesOn(s, j, t)
      PROVE  Image("0001", t) = Image("0002", t)
  BY <1>1, <1>2, <1>5 DEF WritesOn
<1>6. ASSUME NEW t \in Table, NEW j \in 1..4, WritesOn(s, j, t)
      PROVE  Image("0001", t) = Value(s[j])
  BY <1>1, <1>2, <1>6 DEF WritesOn
<1>. QED BY <1>1, <1>3, <1>4, <1>5, <1>6 DEF Leads, Position, s

LEMMA Upgrade2Leads == OnceEach(Upgrade2) /\ Leads(Upgrade2, "0001", "0002")
<1>. DEFINE s == Upgrade2
<1>1. /\ Len(s) = 7
      /\ \A j \in 1..7 : j = 1 \/ j = 2 \/ j = 3 \/ j = 4 \/ j = 5 \/ j = 6 \/ j = 7
      /\ ~Writes(s[1]) /\ s[1].do # "stamp" /\ ~Writes(s[2]) /\ s[2].do # "stamp"
      /\ Writes(s[3]) /\ s[3].on = "agency_users" /\ Value(s[3]) = CreateAgencyUsers.def
      /\ Writes(s[4]) /\ s[4].on = "audit_logs" /\ Value(s[4]) = CreateAuditLogs.def
      /\ Writes(s[5]) /\ s[5].on = "memory_chunks" /\ Value(s[5]) = CreateMemoryChunks.def
      /\ s[3].do # "stamp" /\ s[4].do # "stamp" /\ s[5].do # "stamp"
      /\ ~Writes(s[6]) /\ s[6].do # "stamp"
      /\ s[7].on \notin Table /\ s[7].do = "stamp" /\ s[7].from = "0001" /\ s[7].to = "0002"
  BY Upgrade2Operations, WhatIsWritten, CreatedOn DEF Version, Created
<1>2. /\ Image("0002", "agency_users") = CreateAgencyUsers.def
      /\ Image("0002", "audit_logs") = CreateAuditLogs.def
      /\ Image("0002", "memory_chunks") = CreateMemoryChunks.def
      /\ \A t \in Table : t \notin {"memory_chunks", "audit_logs", "agency_users"}
           => Image("0002", t) = Image("0001", t)
  BY Images, Tables
<1>. HIDE DEF s
<1>3. OnceEach(s) BY <1>1, Tables DEF OnceEach, Position
<1>4. IsFirstStamp(s, 7) BY <1>1 DEF IsFirstStamp
<1>5. ASSUME NEW t \in Table, \A j \in 1..7 : ~WritesOn(s, j, t)
      PROVE  Image("0002", t) = Image("0001", t)
  BY <1>1, <1>2, <1>5 DEF WritesOn
<1>6. ASSUME NEW t \in Table, NEW j \in 1..7, WritesOn(s, j, t)
      PROVE  Image("0002", t) = Value(s[j])
  BY <1>1, <1>2, <1>6 DEF WritesOn
<1>. QED BY <1>1, <1>3, <1>4, <1>5, <1>6 DEF Leads, Position, s

LEMMA UpgradesLead == OnceEach(Upgrades) /\ Leads(Upgrades, "base", "0002")
<1>. DEFINE s == Upgrades
<1>1. /\ Len(s) = 11
      /\ s[1] = Upgrade1[1] /\ s[2] = Upgrade1[2] /\ s[3] = Upgrade1[3] /\ s[4] = Upgrade1[4]
      /\ s[5] = Upgrade2[1] /\ s[6] = Upgrade2[2] /\ s[7] = Upgrade2[3] /\ s[8] = Upgrade2[4]
      /\ s[9] = Upgrade2[5] /\ s[10] = Upgrade2[6] /\ s[11] = Upgrade2[7]
  BY UpgradesOperations
<1>. HIDE DEF s
<1>2. \A j \in 1..11 : \/ j = 1 \/ j = 2 \/ j = 3 \/ j = 4 \/ j = 5 \/ j = 6 \/ j = 7
                      \/ j = 8 \/ j = 9 \/ j = 10 \/ j = 11
  OBVIOUS
<1>3. /\ Writes(s[1]) /\ s[1].on = "agencies" /\ Value(s[1]) = CreateAgencies.def
      /\ Writes(s[2]) /\ s[2].on = "agency_clients" /\ Value(s[2]) = CreateAgencyClients.def
      /\ Writes(s[3]) /\ s[3].on = "action_logs" /\ Value(s[3]) = CreateActionLogs.def
      /\ s[1].do # "stamp" /\ s[2].do # "stamp" /\ s[3].do # "stamp"
      /\ s[4].on \notin Table /\ s[4].do = "stamp" /\ s[4].from = "base"
  BY <1>1, Upgrade1Operations, WhatIsWritten, CreatedOn DEF Version, Created
<1>4. /\ ~Writes(s[5]) /\ ~Writes(s[6]) /\ ~Writes(s[10])
      /\ Writes(s[7]) /\ s[7].on = "agency_users" /\ Value(s[7]) = CreateAgencyUsers.def
      /\ Writes(s[8]) /\ s[8].on = "audit_logs" /\ Value(s[8]) = CreateAuditLogs.def
      /\ Writes(s[9]) /\ s[9].on = "memory_chunks" /\ Value(s[9]) = CreateMemoryChunks.def
      /\ s[11].on \notin Table /\ s[11].do = "stamp" /\ s[11].to = "0002"
  BY <1>1, Upgrade2Operations, WhatIsWritten, CreatedOn DEF Version, Created
<1>5. /\ Image("0002", "agencies") = CreateAgencies.def
      /\ Image("0002", "agency_clients") = CreateAgencyClients.def
      /\ Image("0002", "action_logs") = CreateActionLogs.def
      /\ Image("0002", "agency_users") = CreateAgencyUsers.def
      /\ Image("0002", "audit_logs") = CreateAuditLogs.def
      /\ Image("0002", "memory_chunks") = CreateMemoryChunks.def
  BY Images
<1>6. OnceEach(s)
  <2>. SUFFICES ASSUME NEW i \in 1..11, NEW j \in 1..11, i < j, Writes(s[i]), Writes(s[j]),
                       s[i].on \in Table
                PROVE  s[i].on # s[j].on
    BY <1>1 DEF OnceEach, Position
  <2>1. i \in {1, 2, 3, 7, 8, 9} BY <1>2, <1>3, <1>4
  <2>2. j \in {1, 2, 3, 4, 7, 8, 9, 11} BY <1>2, <1>3, <1>4
  <2>. QED BY <2>1, <2>2, <1>3, <1>4
<1>7. IsFirstStamp(s, 4) BY <1>3 DEF IsFirstStamp
<1>8. ASSUME NEW t \in Table PROVE ~\A j \in 1..11 : ~WritesOn(s, j, t)
  BY <1>3, <1>4, Tables DEF WritesOn
<1>9. ASSUME NEW t \in Table, NEW j \in 1..11, WritesOn(s, j, t)
      PROVE  Image("0002", t) = Value(s[j])
  BY <1>2, <1>3, <1>4, <1>5, <1>9 DEF WritesOn
<1>. QED BY <1>1, <1>3, <1>4, <1>6, <1>7, <1>8, <1>9 DEF Leads, Position, s

\* An upgrade leads to the newest version, a downgrade to the one before.
Follows(from, to) ==
  \/ from # "0002" /\ to = "0002"
  \/ from = "0002" /\ to = "0001"
  \/ from = "0001" /\ to = "base"

LEMMA ScriptsLead ==
  ASSUME NEW script \in Scripts, script # <<>>
  PROVE  /\ OnceEach(script)
         /\ \E from, to \in Version : Leads(script, from, to) /\ Follows(from, to)
BY UpgradesLead, Upgrade2Leads, Downgrade1Leads, Downgrade2Leads DEF Scripts, Version, Follows

--------------------------------------------------------------------------------
(***************************************************************************)
(* The inductive invariant.                                                *)
(***************************************************************************)
Typed ==
  /\ db = [o \in Object |-> db[o]]
  /\ before = [o \in Object |-> before[o]]
  /\ lockedBy \in [Lockable -> Migrator \cup {None}]
  /\ todo = [m \in Migrator |-> todo[m]]
  /\ \A o \in Object : lockedBy[o] = None => before[o] = None
  /\ \A m \in Migrator : todo[m] = None => \A l \in Lockable : lockedBy[l] # m

\* What others see is the image of a version.
Consistent ==
  /\ db[VersionTable] \in Version /\ Committed(VersionTable) \in Version
  /\ \A t \in Table : Committed(t) = Image(Committed(VersionTable), t)

\* A table is the one of its definition, wherever it is, and so is the one that a
\* rollback would bring back.
Defined ==
  \A t \in Table : /\ db[t] \in {None, Definition(t)}
                   /\ before[t] \in {None, Definition(t)}

\* m has done the first k operations of script: what they wrote is locked by m and
\* in place, what it has locked else is as it was, and the first stamp has seen the
\* version it asks for.
Done(m, script, k) ==
  /\ todo[m] = SubSeq(script, k + 1, Len(script))
  /\ \A j \in 1..k : Writes(script[j]) => lockedBy[script[j].on] = m
  /\ \A j \in 1..k : Writes(script[j]) /\ script[j].on \in Table
                      => db[script[j].on] = Value(script[j])
  /\ \A o \in Table \cup {VersionTable} :
       lockedBy[o] = m /\ (\A j \in 1..k : ~WritesOn(script, j, o)) => db[o] = before[o]
  /\ \A j \in 1..k : IsFirstStamp(script, j) => before[VersionTable] = script[j].from
  /\ k >= 1 /\ script[k].do = "stamp" => db[VersionTable] = script[k].to

Progress ==
  \A m \in Migrator : todo[m] # None =>
    \E script \in Scripts : \E k \in 0..Len(script) : Done(m, script, k)

Inv == Typed /\ Consistent /\ Defined /\ Progress

LEMMA InvInit == Init => Inv
<1>. SUFFICES ASSUME Init PROVE Inv
  OBVIOUS
<1>1. /\ VersionTable \in Object /\ Table \subseteq Object /\ VersionTable \notin Table
      /\ Object \subseteq Lockable
  BY Places
<1>2. Typed BY NoneAssumption DEF Init, Typed
<1>3. Consistent
  <2>1. Committed(VersionTable) = "base" /\ \A t \in Table : Committed(t) = None
    BY <1>1 DEF Init, Committed, VersionTable
  <2>2. db[VersionTable] = "base" BY <1>1 DEF Init, VersionTable
  <2>. QED BY <2>1, <2>2, Images DEF Consistent, Version
<1>4. Progress BY DEF Init, Progress
<1>5. Defined BY <1>1, NoneAssumption DEF Init, Defined, VersionTable
<1>. QED BY <1>2, <1>3, <1>4, <1>5 DEF Inv

\* A step leaves n alone: its transaction, its locks and what they protect.
Untouched(n) ==
  /\ todo'[n] = todo[n]
  /\ \A l \in Lockable : (lockedBy'[l] = n) = (lockedBy[l] = n)
  /\ \A o \in Object : lockedBy[o] = n => db'[o] = db[o] /\ before'[o] = before[o]

\* A step of another process that leaves m's locks, and what they protect, leaves
\* m as far as it was.
LEMMA OthersKeep ==
  ASSUME Typed, NEW m \in Migrator, NEW script \in Scripts, NEW k \in 0..Len(script),
         Done(m, script, k), Untouched(m)
  PROVE  Done(m, script, k)'
<1>. USE DEF Untouched
<1>. /\ VersionTable \in Object /\ Table \subseteq Object /\ Object \subseteq Lockable BY Places
<1>. script \in Seq(Operations) BY ScriptsAreOperations
<1>. k \in 0..Len(script) /\ Len(script) \in Nat OBVIOUS
<1>. HIDE DEF Operations
<1>1. ASSUME NEW j \in 1..k, Writes(script[j]) PROVE script[j].on \in Object
  <2>1. script[j] \in Operations OBVIOUS
  <2>. QED BY <1>1, <2>1, OperationsDo, Places
<1>2. ASSUME NEW j \in 1..k, Writes(script[j]) PROVE lockedBy'[script[j].on] = m
  BY <1>1, <1>2 DEF Done
<1>3. ASSUME NEW j \in 1..k, Writes(script[j]), script[j].on \in Table
      PROVE  db'[script[j].on] = Value(script[j])
  BY <1>1, <1>3 DEF Done
<1>4. ASSUME NEW o \in Table \cup {VersionTable}, lockedBy'[o] = m,
             \A j \in 1..k : ~WritesOn(script, j, o)
      PROVE  db'[o] = before'[o]
  BY <1>4 DEF Done
<1>6. ASSUME NEW j \in 1..k, script[j].do = "stamp" PROVE lockedBy[VersionTable] = m
  <2>1. script[j] \in Operations OBVIOUS
  <2>2. script[j].on = VersionTable BY <1>6, <2>1, OperationsDo
  <2>3. Writes(script[j]) BY <1>6 DEF Writes
  <2>. QED BY <2>2, <2>3 DEF Done
<1>7. ASSUME NEW j \in 1..k, IsFirstStamp(script, j)
      PROVE  before'[VersionTable] = script[j].from
  BY <1>6, <1>7 DEF Done, IsFirstStamp
<1>8. ASSUME k >= 1, script[k].do = "stamp" PROVE db'[VersionTable] = script[k].to
  BY <1>6, <1>8 DEF Done
<1>. QED BY <1>2, <1>3, <1>4, <1>7, <1>8 DEF Done

LEMMA ProgressOf ==
  ASSUME Inv, NEW m \in Migrator,
         \A n \in Migrator \ {m} : Untouched(n),
         todo'[m] # None =>
           \E script \in Scripts : \E k \in 0..Len(script) : Done(m, script, k)'
  PROVE  Progress'
<1>. SUFFICES ASSUME NEW n \in Migrator, todo'[n] # None
              PROVE  \E script \in Scripts : \E k \in 0..Len(script) : Done(n, script, k)'
  BY DEF Progress
<1>1. CASE n = m BY <1>1
<1>2. CASE n # m
  <2>1. todo[n] # None BY <1>2 DEF Untouched
  <2>a. PICK script \in Scripts : \E k \in 0..Len(script) : Done(n, script, k)
    BY <2>1 DEF Inv, Progress
  <2>2. PICK k \in 0..Len(script) : Done(n, script, k) BY <2>a
  <2>3. Done(n, script, k)' BY <1>2, <2>2, OthersKeep DEF Inv
  <2>. QED BY <2>3
<1>. QED BY <1>1, <1>2

LEMMA BeginStep ==
  ASSUME Inv, NEW m \in Migrator, NEW command \in Command, Begin(m, command),
         NEW script, script = Script(command, Committed(VersionTable))
  PROVE  /\ script \in Scripts /\ 0 \in 0..Len(script) /\ Done(m, script, 0)'
         /\ db' = db /\ lockedBy' = lockedBy /\ before' = before
         /\ todo[m] = None /\ todo'[m] # None /\ todo' = [n \in Migrator |-> todo'[n]]
         /\ \A n \in Migrator \ {m} : Untouched(n)
<1>. /\ VersionTable \in Object /\ Table \subseteq Object BY Places
<1>1. script \in Scripts BY ScriptIsScript DEF Inv, Consistent
<1>2. /\ db' = db /\ lockedBy' = lockedBy /\ before' = before
      /\ todo' = [todo EXCEPT ![m] = script] /\ todo[m] = None
  BY <1>1 DEF Begin, VersionTable
<1>3. script \in Seq(Operations) BY <1>1, ScriptsAreOperations
<1>4. script = SubSeq(script, 1, Len(script)) /\ 0 \in 0..Len(script) /\ Len(script) \in Nat
  <2>. HIDE DEF Operations
  <2>. QED BY <1>3, SubSeqFull
<1>5. todo'[m] = script BY <1>2 DEF Inv, Typed
<1>6. todo'[m] # None /\ todo' = [n \in Migrator |-> todo'[n]]
  <2>1. 1 \in 1..(Len(script) + 1) BY <1>4
  <2>2. SubSeq(script, 1, Len(script)) # None BY <1>1, <2>1, RemainingIsSome
  <2>. QED BY <1>2, <1>4, <1>5, <2>2 DEF Inv, Typed
<1>8. Done(m, script, 0)'
  <2>1. \A l \in Lockable : lockedBy[l] # m BY <1>2 DEF Inv, Typed
  <2>2. todo'[m] = SubSeq(script, 0 + 1, Len(script)) BY <1>4, <1>5
  <2>3. 1..0 = {} OBVIOUS
  <2>. QED BY <1>2, <2>1, <2>2, <2>3, Places DEF Done
<1>9. \A n \in Migrator \ {m} : Untouched(n) BY <1>2 DEF Inv, Typed, Untouched
<1>. QED BY <1>1, <1>2, <1>4, <1>6, <1>8, <1>9

LEMMA BeginKeeps ==
  ASSUME Inv, NEW m \in Migrator, NEW command \in Command, Begin(m, command) PROVE Inv'
<1>1. PICK script : script = Script(command, Committed(VersionTable)) OBVIOUS
<1>2. /\ script \in Scripts /\ 0 \in 0..Len(script) /\ Done(m, script, 0)'
      /\ db' = db /\ lockedBy' = lockedBy /\ before' = before
      /\ todo[m] = None /\ todo'[m] # None /\ todo' = [n \in Migrator |-> todo'[n]]
      /\ \A n \in Migrator \ {m} : Untouched(n)
  BY <1>1, BeginStep
<1>3. Typed'
  <2>1. ASSUME NEW n \in Migrator, todo'[n] = None, NEW l \in Lockable PROVE lockedBy'[l] # n
    BY <1>2, <2>1 DEF Inv, Typed, Untouched
  <2>. QED BY <1>2, <2>1 DEF Inv, Typed
<1>4. Consistent' /\ Defined' BY <1>2 DEF Inv, Consistent, Committed, Defined
<1>5. Progress' BY <1>2, ProgressOf
<1>. QED BY <1>3, <1>4, <1>5 DEF Inv

\* What m's end leaves of the locks.
LEMMA UnlockedIs ==
  ASSUME Typed, NEW m \in Migrator, lockedBy' = Unlocked(m)
  PROVE  /\ lockedBy' \in [Lockable -> Migrator \cup {None}]
         /\ \A l \in Lockable : lockedBy'[l] = IF lockedBy[l] = m THEN None ELSE lockedBy[l]
         /\ \A n \in Migrator \ {m} : \A l \in Lockable : (lockedBy'[l] = n) = (lockedBy[l] = n)
         /\ \A l \in Lockable : lockedBy'[l] # m
<1>1. None \notin Migrator BY NoneAssumption
<1>2. \A l \in Lockable : lockedBy'[l] = IF lockedBy[l] = m THEN None ELSE lockedBy[l]
  BY DEF Unlocked
<1>3. lockedBy' \in [Lockable -> Migrator \cup {None}] BY DEF Unlocked, Typed
<1>. QED BY <1>1, <1>2, <1>3

LEMMA EndLeavesOthers ==
  ASSUME Typed, NEW m \in Migrator, Rollback(m) \/ Commit(m), NEW n \in Migrator \ {m}
  PROVE  Untouched(n)
<1>1. lockedBy' = Unlocked(m) /\ todo'[n] = todo[n] BY DEF Rollback, Commit, Typed
<1>2. \A l \in Lockable : (lockedBy'[l] = n) = (lockedBy[l] = n) BY <1>1, UnlockedIs
<1>3. ASSUME NEW o \in Object, lockedBy[o] = n PROVE db'[o] = db[o] /\ before'[o] = before[o]
  BY <1>3 DEF Rollback, Commit
<1>. QED BY <1>1, <1>2, <1>3 DEF Untouched

LEMMA RollbackKeeps ==
  ASSUME Inv, NEW m \in Migrator, Rollback(m) PROVE Inv'
<1>. /\ VersionTable \in Object /\ Table \subseteq Object /\ Object \subseteq Lockable BY Places
<1>. Typed BY DEF Inv
<1>1. /\ db' = [o \in Object |-> IF lockedBy[o] = m THEN before[o] ELSE db[o]]
      /\ lockedBy' = Unlocked(m)
      /\ before' = [o \in Object |-> IF lockedBy[o] = m THEN None ELSE before[o]]
      /\ todo' = [todo EXCEPT ![m] = None]
  BY DEF Rollback
<1>2. None \notin Migrator BY NoneAssumption
<1>3. /\ lockedBy' \in [Lockable -> Migrator \cup {None}]
      /\ \A l \in Lockable : lockedBy'[l] = IF lockedBy[l] = m THEN None ELSE lockedBy[l]
      /\ \A n \in Migrator \ {m} : \A l \in Lockable : (lockedBy'[l] = n) = (lockedBy[l] = n)
      /\ \A l \in Lockable : lockedBy'[l] # m
  BY <1>1, UnlockedIs
<1>4. todo'[m] = None /\ \A n \in Migrator \ {m} : todo'[n] = todo[n] BY <1>1 DEF Typed
<1>5. Typed'
  <2>1. db' = [o \in Object |-> db'[o]] /\ before' = [o \in Object |-> before'[o]]
        /\ todo' = [n \in Migrator |-> todo'[n]]
    BY <1>1 DEF Typed
  <2>2. \A o \in Object : lockedBy'[o] = None => before'[o] = None
    BY <1>1, <1>2, <1>3 DEF Typed
  <2>3. ASSUME NEW n \in Migrator, todo'[n] = None, NEW l \in Lockable PROVE lockedBy'[l] # n
    BY <1>3, <1>4, <2>3 DEF Typed
  <2>. QED BY <1>3, <2>1, <2>2, <2>3 DEF Typed
<1>6. \A o \in Object : Committed(o)' = Committed(o)
  BY <1>1, <1>2, <1>3 DEF Committed
<1>7. db'[VersionTable] \in Version
  <2>1. CASE lockedBy[VersionTable] = m
    BY <1>1, <1>2, <2>1 DEF Inv, Consistent, Committed
  <2>2. CASE lockedBy[VersionTable] # m BY <1>1, <2>2 DEF Inv, Consistent
  <2>. QED BY <2>1, <2>2
<1>8. Consistent' BY <1>6, <1>7 DEF Inv, Consistent
<1>9. Progress' BY <1>4, EndLeavesOthers, ProgressOf
<1>10. Defined' BY <1>1 DEF Inv, Defined
<1>. QED BY <1>5, <1>8, <1>9, <1>10 DEF Inv

\* A commit shows the others nothing, or one whole migration.
Shows(from, to) ==
  /\ Follows(from, to)
  /\ Committed(VersionTable) = from /\ Committed(VersionTable)' = to
  /\ \A t \in Table : Committed(t)' = Image(to, t)

LEMMA CommitStep ==
  ASSUME Inv, NEW m \in Migrator, Commit(m)
  PROVE  \/ \A o \in Table \cup {VersionTable} : Committed(o)' = Committed(o)
         \/ \E from, to \in Version : Shows(from, to)
<1>. /\ VersionTable \in Object /\ Table \subseteq Object /\ Object \subseteq Lockable BY Places
<1>. Typed BY DEF Inv
<1>1. /\ db' = db /\ lockedBy' = Unlocked(m) /\ todo[m] = <<>>
      /\ before' = [o \in Object |-> IF lockedBy[o] = m THEN None ELSE before[o]]
      /\ todo' = [todo EXCEPT ![m] = None]
  BY DEF Commit
<1>2. None \notin Migrator BY NoneAssumption
<1>3. /\ lockedBy' \in [Lockable -> Migrator \cup {None}]
      /\ \A l \in Lockable : lockedBy'[l] = IF lockedBy[l] = m THEN None ELSE lockedBy[l]
      /\ \A n \in Migrator \ {m} : \A l \in Lockable : (lockedBy'[l] = n) = (lockedBy[l] = n)
      /\ \A l \in Lockable : lockedBy'[l] # m
  BY <1>1, UnlockedIs
<1>6. \A o \in Object : Committed(o)' = IF lockedBy[o] = m THEN db[o] ELSE Committed(o)
  BY <1>1, <1>2, <1>3 DEF Committed
<1>11. <<>> # None
  <2>1. <<>> \in Scripts BY DEF Scripts
  <2>2. SubSeq(<<>>, 1, Len(<<>>)) = <<>> /\ 1 \in 1..(Len(<<>>) + 1) OBVIOUS
  <2>. QED BY <2>1, <2>2, RemainingIsSome
<1>a. PICK script \in Scripts : \E k \in 0..Len(script) : Done(m, script, k)
  BY <1>1, <1>11 DEF Inv, Progress
<1>12. PICK k \in 0..Len(script) : Done(m, script, k) BY <1>a
<1>13. script \in Seq(Operations) BY ScriptsAreOperations
<1>. HIDE DEF Operations
<1>14. k = Len(script) /\ Len(script) \in Nat
  <2>1. SubSeq(script, k + 1, Len(script)) = <<>> BY <1>1, <1>12 DEF Done
  <2>2. Len(SubSeq(script, k + 1, Len(script))) = Len(script) - k /\ Len(script) \in Nat
    BY <1>13
  <2>3. Len(script) - k = 0 BY <2>1, <2>2
  <2>. QED BY <2>2, <2>3
<1>15. CASE script = <<>>
  <2>1. k = 0 BY <1>14, <1>15
  <2>2. 1..k = {} BY <2>1
  <2>3. \A o \in Table \cup {VersionTable} : lockedBy[o] = m => db[o] = before[o]
    BY <1>12, <2>2 DEF Done
  <2>. QED BY <1>2, <1>6, <2>3 DEF Committed
<1>16. CASE script # <<>>
  <2>1. PICK from \in Version, to \in Version : Leads(script, from, to) /\ Follows(from, to)
    BY <1>16, ScriptsLead
  <2>2. PICK f \in 1..k : IsFirstStamp(script, f) /\ script[f].from = from
    BY <1>14, <2>1 DEF Leads, Position
  <2>3. lockedBy[VersionTable] = m
    <3>1. script[f] \in Operations BY <1>13, <1>14
    <3>2. script[f].on = VersionTable BY <2>2, <3>1, OperationsDo DEF IsFirstStamp
    <3>3. Writes(script[f]) BY <2>2 DEF Writes, IsFirstStamp
    <3>. QED BY <1>12, <3>2, <3>3 DEF Done
  <2>4. Committed(VersionTable) = from
    BY <1>2, <1>12, <2>2, <2>3 DEF Done, Committed
  <2>5. db[VersionTable] = to BY <1>12, <1>14, <2>1 DEF Done, Leads, Position
  <2>6. Committed(VersionTable)' = to BY <1>6, <2>3, <2>5
  <2>7. ASSUME NEW t \in Table PROVE Committed(t)' = Image(to, t)
    <3>1. Committed(t) = Image(from, t) BY <2>4 DEF Inv, Consistent
    <3>2. CASE \A j \in 1..k : ~WritesOn(script, j, t)
      <4>1. Image(to, t) = Image(from, t) BY <1>14, <2>1, <3>2 DEF Leads, Position
      <4>2. lockedBy[t] = m => db[t] = before[t] BY <1>12, <3>2 DEF Done
      <4>3. Committed(t)' = Committed(t) BY <1>2, <1>6, <4>2 DEF Committed
      <4>. QED BY <3>1, <4>1, <4>3
    <3>3. ASSUME NEW j \in 1..k, WritesOn(script, j, t) PROVE Committed(t)' = Image(to, t)
      <4>1. Image(to, t) = Value(script[j]) BY <1>14, <2>1, <3>3 DEF Leads, Position
      <4>2. lockedBy[t] = m /\ db[t] = Value(script[j]) BY <1>12, <3>3 DEF Done, WritesOn
      <4>. QED BY <1>6, <4>1, <4>2
    <3>. QED BY <3>2, <3>3
  <2>8. Shows(from, to) BY <2>1, <2>4, <2>6, <2>7 DEF Shows
  <2>. QED BY <2>8
<1>. QED BY <1>15, <1>16

LEMMA CommitKeeps ==
  ASSUME Inv, NEW m \in Migrator, Commit(m) PROVE Inv'
<1>. VersionTable \in Object /\ Table \subseteq Object /\ Object \subseteq Lockable BY Places
<1>. Typed BY DEF Inv
<1>1. /\ db' = db /\ lockedBy' = Unlocked(m) /\ todo[m] = <<>>
      /\ before' = [o \in Object |-> IF lockedBy[o] = m THEN None ELSE before[o]]
      /\ todo' = [todo EXCEPT ![m] = None]
  BY DEF Commit
<1>2. None \notin Migrator BY NoneAssumption
<1>3. /\ lockedBy' \in [Lockable -> Migrator \cup {None}]
      /\ \A l \in Lockable : lockedBy'[l] = IF lockedBy[l] = m THEN None ELSE lockedBy[l]
      /\ \A n \in Migrator \ {m} : \A l \in Lockable : (lockedBy'[l] = n) = (lockedBy[l] = n)
      /\ \A l \in Lockable : lockedBy'[l] # m
  BY <1>1, UnlockedIs
<1>4. todo'[m] = None /\ \A n \in Migrator \ {m} : todo'[n] = todo[n] BY <1>1 DEF Typed
<1>5. Typed'
  <2>1. db' = [o \in Object |-> db'[o]] /\ before' = [o \in Object |-> before'[o]]
        /\ todo' = [n \in Migrator |-> todo'[n]]
    BY <1>1 DEF Typed
  <2>2. \A o \in Object : lockedBy'[o] = None => before'[o] = None
    BY <1>1, <1>2, <1>3 DEF Typed
  <2>3. ASSUME NEW n \in Migrator, todo'[n] = None, NEW l \in Lockable PROVE lockedBy'[l] # n
    BY <1>3, <1>4, <2>3 DEF Typed
  <2>. QED BY <1>3, <2>1, <2>2, <2>3 DEF Typed
<1>7. Consistent'
  <2>1. CASE \A o \in Table \cup {VersionTable} : Committed(o)' = Committed(o)
    BY <1>1, <2>1 DEF Inv, Consistent
  <2>2. ASSUME NEW from \in Version, NEW to \in Version, Shows(from, to) PROVE Consistent'
    BY <1>1, <2>2 DEF Inv, Consistent, Shows
  <2>. QED BY <2>1, <2>2, CommitStep
<1>8. Progress' BY <1>4, EndLeavesOthers, ProgressOf
<1>9. Defined' BY <1>1 DEF Inv, Defined
<1>. QED BY <1>5, <1>7, <1>8, <1>9 DEF Inv

\* What a definition refers to.
LEMMA References ==
  /\ \A t \in Table : Definition(t).refs =
       IF t \in {"agency_clients", "agency_users"} THEN {"agencies"}
       ELSE IF t = "memory_chunks" THEN {"vector"} ELSE {}
  /\ \A c \in Created : c.do = "create" /\ c.on \in Table /\ c.def = Definition(c.on)
                        /\ c.needs = Definition(c.on).refs
<1>1. \A t \in Table : Definition(t).refs =
        IF t \in {"agency_clients", "agency_users"} THEN {"agencies"}
        ELSE IF t = "memory_chunks" THEN {"vector"} ELSE {}
  BY Tables DEF Definition, Create, CreateAgencies, CreateAgencyClients, CreateActionLogs,
     CreateAgencyUsers, CreateAuditLogs, CreateMemoryChunks
<1>2. ASSUME NEW c \in Created
      PROVE  c.do = "create" /\ c.on \in Table /\ c.needs = c.def.refs
  BY Tables DEF Created, Create, CreateAgencies, CreateAgencyClients, CreateActionLogs,
     CreateAgencyUsers, CreateAuditLogs, CreateMemoryChunks
<1>3. ASSUME NEW c \in Created PROVE c.def = Definition(c.on)
  BY CreatedOn DEF Created, Definition
<1>. QED BY <1>1, <1>2, <1>3

\* An operation that waits for no lock has that of its name, unless it found the
\* extension that it asks for.
LEMMA HoldsItsName ==
  ASSUME NEW m \in Migrator, NEW op \in Operations, NextLocks(m, op) = {},
         op.do = "enable" => View(m, op.on) = None
  PROVE  lockedBy[op.on] = m
<1>1. Name(m, op) = {op.on} BY DEF Name
<1>2. Name(m, op) \ Held(m) = {}
  <2>. DEFINE name == Name(m, op) \ Held(m)
              keys == Keys(m, op) \ Held(m)
  <2>1. NextLocks(m, op) = CASE name # {} -> name
                             [] name = {} /\ keys # {} -> keys
                             [] OTHER -> Referred(m, op) \ Held(m)
    BY DEF NextLocks
  <2>. HIDE DEF name, keys
  <2>2. name # {} => NextLocks(m, op) = name BY <2>1
  <2>. QED BY <2>2 DEF name
<1>. QED BY <1>1, <1>2 DEF Held

\* A table is created as its definition says.
LEMMA CreatesTheDefinition ==
  ASSUME NEW op \in Operations, op.do = "create" PROVE op.on \in Table /\ op.def = Definition(op.on)
<1>1. op \in Created
  <2>1. \A t \in Table : Drop(t).do = "drop" BY DEF Drop
  <2>2. \A e \in Extension : Enable(e).do = "enable" BY DEF Enable
  <2>3. Index("memory_chunks", "pg_trgm").do = "index" BY DEF Index
  <2>4. \A from, to \in Version : Stamp(from, to).do = "stamp" BY DEF Stamp
  <2>. QED BY <2>1, <2>2, <2>3, <2>4 DEF Operations
<1>. QED BY <1>1, References

\* What an operation does to the database: the tables and the version.
LEMMA AfterIs ==
  ASSUME Typed, NEW m \in Migrator, NEW op \in Operations
  PROVE  /\ After(m, op) = [o \in Object |-> After(m, op)[o]]
         /\ Writes(op) => /\ op.on \in Table \cup {VersionTable}
                          /\ After(m, op)[op.on] = Value(op)
         /\ \A o \in Table \cup {VersionTable} :
              ~(Writes(op) /\ op.on = o) => After(m, op)[o] = db[o]
         /\ \A o \in Object : o # op.on => After(m, op)[o] = db[o]
         /\ op.do = "enable" => /\ op.on \in Extension
                                /\ After(m, op)[op.on] =
                                     IF View(m, op.on) = None THEN "enabled" ELSE db[op.on]
         /\ op.do = "index" => After(m, op) = db
<1>. /\ VersionTable \in Object /\ Table \subseteq Object /\ Extension \subseteq Object
     /\ Table \cap Extension = {} /\ VersionTable \notin Extension
  BY Places
<1>. db = [o \in Object |-> db[o]] BY DEF Typed
<1>. HIDE DEF Operations
<1>1. CASE op.do = "create"
  <2>1. op.on \in Table BY <1>1, OperationsDo
  <2>2. After(m, op) = [db EXCEPT ![op.on] = op.def] BY <1>1 DEF After
  <2>. QED BY <1>1, <2>1, <2>2 DEF Writes, Value
<1>2. CASE op.do = "drop"
  <2>1. op.on \in Table BY <1>2, OperationsDo
  <2>2. After(m, op) = [db EXCEPT ![op.on] = None] BY <1>2 DEF After
  <2>. QED BY <1>2, <2>1, <2>2 DEF Writes, Value
<1>3. CASE op.do = "enable"
  <2>1. op.on \in Extension BY <1>3, OperationsDo
  <2>2. View(m, op.on) = None => After(m, op) = [db EXCEPT ![op.on] = "enabled"]
    BY <1>3 DEF After
  <2>3. View(m, op.on) # None => After(m, op) = db BY <1>3 DEF After
  <2>. QED BY <1>3, <2>1, <2>2, <2>3 DEF Writes
<1>4. CASE op.do = "stamp"
  <2>1. op.on = VersionTable BY <1>4, OperationsDo
  <2>2. After(m, op) = [db EXCEPT ![op.on] = op.to] BY <1>4 DEF After
  <2>. QED BY <1>4, <2>1, <2>2 DEF Writes, Value
<1>5. CASE op.do = "index"
  <2>1. After(m, op) = db BY <1>5 DEF After
  <2>. QED BY <1>5, <2>1 DEF Writes
<1>. QED BY <1>1, <1>2, <1>3, <1>4, <1>5, OperationsDo

\* A lock protects what is there and changes nothing.
LEMMA LockStep ==
  ASSUME Inv, NEW m \in Migrator, Lock(m),
         NEW script \in Scripts, NEW k \in 0..Len(script), Done(m, script, k)
  PROVE  /\ Typed' /\ Consistent' /\ Defined'
         /\ Done(m, script, k)'
         /\ \A o \in Object : Committed(o)' = Committed(o)
         /\ \A n \in Migrator \ {m} : Untouched(n)
<1>. /\ VersionTable \in Object /\ Table \subseteq Object /\ Object \subseteq Lockable
     /\ VersionTable \notin Table
  BY Places
<1>. Typed /\ None \notin Migrator BY NoneAssumption DEF Inv
<1>1. PICK l : /\ lockedBy[l] = None /\ l \in NextLocks(m, Head(todo[m]))
               /\ lockedBy' = [lockedBy EXCEPT ![l] = m]
               /\ before' = [o \in Object |-> IF o = l THEN db[o] ELSE before[o]]
  BY DEF Lock
<1>2. db' = db /\ todo' = todo /\ todo[m] # None BY DEF Lock, Working
<1>3. /\ \A x \in Lockable : lockedBy'[x] = IF x = l THEN m ELSE lockedBy[x]
      /\ \A o \in Object : before'[o] = IF o = l THEN db[o] ELSE before[o]
      /\ lockedBy' \in [Lockable -> Migrator \cup {None}]
  BY <1>1 DEF Typed
<1>4. Typed'
  <2>1. \A o \in Object : lockedBy'[o] = None => before'[o] = None BY <1>3 DEF Typed
  <2>2. ASSUME NEW n \in Migrator, todo'[n] = None, NEW x \in Lockable PROVE lockedBy'[x] # n
    BY <1>2, <1>3, <2>2 DEF Typed
  <2>. QED BY <1>1, <1>2, <1>3, <2>1, <2>2 DEF Typed
<1>5. \A o \in Object : Committed(o)' = Committed(o) BY <1>1, <1>2, <1>3 DEF Committed
<1>6. Consistent' BY <1>2, <1>5 DEF Inv, Consistent
<1>7. Defined' BY <1>2, <1>3 DEF Inv, Defined
<1>8. ASSUME NEW n \in Migrator \ {m} PROVE Untouched(n) BY <1>1, <1>2, <1>3 DEF Untouched
<1>9. script \in Seq(Operations) BY ScriptsAreOperations
<1>10. ASSUME NEW j \in 1..k, Writes(script[j])
       PROVE  script[j].on \in Object /\ lockedBy[script[j].on] = m
  <2>. HIDE DEF Operations
  <2>1. script[j] \in Operations BY <1>9
  <2>2. script[j].on \in Table \cup {VersionTable} BY <1>10, <2>1, OperationsDo DEF Writes
  <2>. QED BY <1>10, <2>2 DEF Done
<1>11. ASSUME NEW j \in 1..k, IsFirstStamp(script, j)
       PROVE  before'[VersionTable] = script[j].from
  <2>. HIDE DEF Operations
  <2>1. Writes(script[j]) /\ script[j] \in Operations BY <1>9, <1>11 DEF Writes, IsFirstStamp
  <2>2. script[j].on = VersionTable BY <1>11, <2>1, OperationsDo DEF IsFirstStamp
  <2>3. lockedBy[VersionTable] = m BY <1>10, <2>1, <2>2
  <2>4. l # VersionTable BY <1>1, <2>3
  <2>5. before'[VersionTable] = before[VersionTable] BY <1>3, <2>4
  <2>. QED BY <1>11, <2>5 DEF Done
<1>12. ASSUME NEW o \in Table \cup {VersionTable}, lockedBy'[o] = m,
              \A j \in 1..k : ~WritesOn(script, j, o)
       PROVE  db'[o] = before'[o]
  BY <1>2, <1>3, <1>12 DEF Done
<1>13. \A j \in 1..k : Writes(script[j]) => lockedBy'[script[j].on] = m BY <1>3, <1>10
<1>14. Done(m, script, k)' BY <1>2, <1>11, <1>12, <1>13 DEF Done
<1>. QED BY <1>4, <1>5, <1>6, <1>7, <1>8, <1>14

LEMMA LockKeeps ==
  ASSUME Inv, NEW m \in Migrator, Lock(m) PROVE Inv'
<1>a. PICK script \in Scripts : \E k \in 0..Len(script) : Done(m, script, k)
  BY DEF Lock, Working, Inv, Progress
<1>1. PICK k \in 0..Len(script) : Done(m, script, k) BY <1>a
<1>2. Done(m, script, k)' /\ Typed' /\ Consistent' /\ Defined' BY <1>1, LockStep
<1>3. \A n \in Migrator \ {m} : Untouched(n) BY <1>1, LockStep
<1>4. Progress' BY <1>2, <1>3, ProgressOf
<1>. QED BY <1>2, <1>4 DEF Inv

\* Where a migration is in its script.
LEMMA AtOperation ==
  ASSUME NEW m \in Migrator, Working(m),
         NEW script \in Scripts, NEW k \in 0..Len(script), Done(m, script, k)
  PROVE  /\ k + 1 \in 1..Len(script) /\ script # <<>> /\ script[k + 1] \in Operations
         /\ Head(todo[m]) = script[k + 1] /\ Tail(todo[m]) = SubSeq(script, k + 2, Len(script))
<1>1. script \in Seq(Operations) BY ScriptsAreOperations
<1>. HIDE DEF Operations
<1>2. SubSeq(script, k + 1, Len(script)) # <<>> /\ todo[m] = SubSeq(script, k + 1, Len(script))
  BY DEF Working, Done
<1>3. Len(script) \in Nat /\ k \in 0..Len(script) BY <1>1
<1>4. k # Len(script) BY <1>2, <1>3, SubSeqEmpty
<1>5. k + 1 \in 1..Len(script) /\ k + 1 <= Len(script) /\ (k + 1) + 1 = k + 2 BY <1>3, <1>4
<1>6. Head(todo[m]) = script[k + 1] /\ Tail(todo[m]) = SubSeq(script, k + 2, Len(script))
  BY <1>1, <1>2, <1>3, <1>5, HeadTailOfSubSeq
<1>. QED BY <1>1, <1>3, <1>5, <1>6

LEMMA ExecuteStep ==
  ASSUME Inv, NEW m \in Migrator, Execute(m),
         NEW script \in Scripts, NEW k \in 0..Len(script), Done(m, script, k)
  PROVE  /\ k + 1 \in 1..Len(script) /\ script[k + 1] \in Operations
         /\ Head(todo[m]) = script[k + 1]
         /\ Typed' /\ Consistent' /\ Defined'
         /\ Done(m, script, k + 1)'
         /\ \A o \in Table \cup {VersionTable} : Committed(o)' = Committed(o)
         /\ \A n \in Migrator \ {m} : Untouched(n)
<1>. /\ VersionTable \in Object /\ Table \subseteq Object /\ VersionTable \notin Table
     /\ Table \cap Extension = {} /\ VersionTable \notin Extension /\ Extension \subseteq Object
     /\ Object \subseteq Lockable
  BY Places
<1>. Typed BY DEF Inv
<1>. None \notin Migrator BY NoneAssumption
<1>b. Done(m, script, k) OBVIOUS
<1>1. script \in Seq(Operations) BY ScriptsAreOperations
<1>. HIDE DEF Operations
<1>2. /\ k \in Nat /\ k + 1 \in 1..Len(script) /\ script # <<>> /\ script[k + 1] \in Operations
      /\ Head(todo[m]) = script[k + 1] /\ Tail(todo[m]) = SubSeq(script, k + 2, Len(script))
  BY AtOperation DEF Execute
<1>. DEFINE op == script[k + 1]
<1>3. /\ NextLocks(m, op) = {} /\ ~Fails(m, op)
      /\ db' = After(m, op) /\ lockedBy' = lockedBy /\ before' = before
      /\ todo' = [todo EXCEPT ![m] = Tail(@)]
  BY <1>2 DEF Execute, InError
<1>4. op \in Operations BY <1>2
<1>5. (op.do = "enable" => View(m, op.on) = None) => lockedBy[op.on] = m
  BY <1>3, <1>4, HoldsItsName
<1>6. /\ db' = [o \in Object |-> db'[o]]
      /\ Writes(op) => op.on \in Table \cup {VersionTable} /\ db'[op.on] = Value(op)
      /\ \A o \in Table \cup {VersionTable} : ~(Writes(op) /\ op.on = o) => db'[o] = db[o]
      /\ \A o \in Object : o # op.on => db'[o] = db[o]
      /\ op.do = "enable" /\ View(m, op.on) # None => db'[op.on] = db[op.on]
      /\ op.do = "index" => db' = db
  BY <1>3, <1>4, AfterIs
<1>. HIDE DEF op
<1>7. op.do = "stamp" => Writes(op) /\ op.on = VersionTable /\ op.to \in Version /\ Value(op) = op.to
                         /\ lockedBy[VersionTable] = m /\ db[VersionTable] = op.from
  <2>1. ASSUME op.do = "stamp" PROVE lockedBy[op.on] = m /\ db[op.on] = op.from
    BY <1>3, <1>5, <2>1 DEF Fails, View
  <2>. QED BY <1>4, <2>1, OperationsDo DEF Writes, Value
<1>8. Writes(op) => lockedBy[op.on] = m /\ (op.on = VersionTable => op.do = "stamp")
  BY <1>4, <1>5, OperationsDo DEF Writes
<1>10. OnceEach(script) BY <1>2, ScriptsLead
<1>11. /\ todo'[m] = SubSeq(script, k + 2, Len(script)) /\ todo'[m] # None
       /\ todo' = [n \in Migrator |-> todo'[n]]
       /\ \A n \in Migrator \ {m} : todo'[n] = todo[n]
  <2>1. todo'[m] = SubSeq(script, k + 2, Len(script)) BY <1>2, <1>3 DEF Typed
  <2>2. k + 2 \in 1..(Len(script) + 1) BY <1>2
  <2>. QED BY <1>3, <2>1, <2>2, RemainingIsSome DEF Typed
<1>12. Typed'
  <2>1. ASSUME NEW n \in Migrator, todo'[n] = None, NEW l \in Lockable PROVE lockedBy'[l] # n
    BY <1>3, <1>11, <2>1 DEF Typed
  <2>. QED BY <1>3, <1>6, <1>11, <2>1 DEF Typed
<1>16. ASSUME NEW o \in Table \cup {VersionTable} PROVE Committed(o)' = Committed(o)
  <2>1. CASE Writes(op) /\ op.on = o BY <1>3, <1>8, <2>1 DEF Committed
  <2>2. CASE ~(Writes(op) /\ op.on = o) BY <1>3, <1>6, <2>2 DEF Committed
  <2>. QED BY <2>1, <2>2
<1>13. Consistent'
  <2>2. db'[VersionTable] \in Version BY <1>6, <1>7, <1>8 DEF Inv, Consistent
  <2>. QED BY <1>16, <2>2 DEF Inv, Consistent
<1>17. Defined'
  <2>. SUFFICES ASSUME NEW t \in Table
                PROVE  db'[t] \in {None, Definition(t)} /\ before'[t] \in {None, Definition(t)}
    BY DEF Defined
  <2>1. db[t] \in {None, Definition(t)} /\ before[t] \in {None, Definition(t)} BY DEF Inv, Defined
  <2>2. CASE Writes(op) /\ op.on = t
    <3>1. op.do # "stamp" BY <1>7, <2>2
    <3>2. Value(op) \in {None, Definition(t)}
      BY <1>4, <2>2, <3>1, CreatesTheDefinition DEF Writes, Value
    <3>. QED BY <1>3, <1>6, <2>1, <2>2, <3>2
  <2>3. CASE ~(Writes(op) /\ op.on = t) BY <1>3, <1>6, <2>1, <2>3
  <2>. QED BY <2>2, <2>3
<1>14. Done(m, script, k + 1)'
  <2>0. \A j \in 1..(k + 1) : j \in 1..k \/ (j = k + 1 /\ script[j] = op)
    BY <1>2 DEF op
  <2>1. todo'[m] = SubSeq(script, (k + 1) + 1, Len(script))
    <3>1. (k + 1) + 1 = k + 2 BY <1>2
    <3>. QED BY <1>11, <3>1
  <2>2. ASSUME NEW j \in 1..(k + 1), Writes(script[j]) PROVE lockedBy'[script[j].on] = m
    <3>1. CASE j \in 1..k BY <1>3, <1>b, <2>2, <3>1 DEF Done
    <3>2. CASE script[j] = op BY <1>3, <1>8, <2>2, <3>2
    <3>. QED BY <2>0, <3>1, <3>2
  <2>3. ASSUME NEW j \in 1..(k + 1), Writes(script[j]), script[j].on \in Table
        PROVE  db'[script[j].on] = Value(script[j])
    <3>1. CASE j \in 1..k
      <4>1. db[script[j].on] = Value(script[j]) BY <1>b, <2>3, <3>1 DEF Done
      <4>2. j \in Position(script) /\ k + 1 \in Position(script) /\ j < k + 1
        BY <1>2, <3>1 DEF Position
      <4>3. ~(Writes(op) /\ op.on = script[j].on) BY <1>10, <2>3, <4>2 DEF OnceEach, op
      <4>. QED BY <1>6, <2>3, <4>1, <4>3
    <3>2. CASE script[j] = op BY <1>6, <2>3, <3>2
    <3>. QED BY <2>0, <3>1, <3>2
  <2>4. ASSUME NEW o \in Table \cup {VersionTable}, lockedBy'[o] = m,
               \A j \in 1..(k + 1) : ~WritesOn(script, j, o)
        PROVE  db'[o] = before'[o]
    <3>1. /\ \A j \in 1..k : ~WritesOn(script, j, o)
          /\ ~(Writes(op) /\ op.on = o)
      BY <1>2, <2>4 DEF WritesOn, op
    <3>2. db'[o] = db[o] BY <1>6, <3>1
    <3>3. db[o] = before[o] BY <1>3, <1>b, <2>4, <3>1 DEF Done
    <3>. QED BY <1>3, <3>2, <3>3
  <2>6. ASSUME NEW j \in 1..(k + 1), IsFirstStamp(script, j)
        PROVE  before'[VersionTable] = script[j].from
    <3>1. CASE j \in 1..k BY <1>3, <1>b, <2>6, <3>1 DEF Done
    <3>2. CASE j = k + 1 /\ script[j] = op
      <4>1. \A i \in 1..k : script[i].do # "stamp" BY <1>2, <2>6, <3>2 DEF IsFirstStamp
      <4>2. op.do = "stamp" BY <2>6, <3>2 DEF IsFirstStamp
      <4>3. ASSUME NEW i \in 1..k PROVE ~WritesOn(script, i, VersionTable)
        <5>1. script[i] \in Operations BY <1>1, <1>2
        <5>. QED BY <4>1, <5>1, OperationsDo DEF WritesOn, Writes
      <4>4. db[VersionTable] = before[VersionTable] BY <1>b, <1>7, <4>2, <4>3 DEF Done
      <4>. QED BY <1>3, <1>7, <3>2, <4>2, <4>4
    <3>. QED BY <2>0, <3>1, <3>2
  <2>7. ASSUME script[k + 1].do = "stamp" PROVE db'[VersionTable] = script[k + 1].to
    BY <1>6, <1>7, <2>7 DEF op
  <2>. QED BY <2>1, <2>2, <2>3, <2>4, <2>6, <2>7 DEF Done
<1>15. ASSUME NEW n \in Migrator \ {m} PROVE Untouched(n)
  <2>1. ASSUME NEW o \in Object, lockedBy[o] = n PROVE db'[o] = db[o]
    <3>1. CASE op.do = "enable" /\ View(m, op.on) # None BY <1>6, <3>1
    <3>2. CASE ~(op.do = "enable" /\ View(m, op.on) # None)
      <4>1. o # op.on BY <1>5, <2>1, <3>2
      <4>. QED BY <1>6, <4>1
    <3>. QED BY <3>1, <3>2
  <2>. QED BY <1>3, <1>11, <2>1 DEF Untouched
<1>. QED BY <1>2, <1>12, <1>13, <1>14, <1>15, <1>16, <1>17 DEF op

LEMMA ExecuteKeeps ==
  ASSUME Inv, NEW m \in Migrator, Execute(m) PROVE Inv'
<1>a. PICK script \in Scripts : \E k \in 0..Len(script) : Done(m, script, k)
  BY DEF Execute, Working, Inv, Progress
<1>1. PICK k \in 0..Len(script) : Done(m, script, k) BY <1>a
<1>2. k + 1 \in 1..Len(script) /\ Done(m, script, k + 1)' /\ Typed' /\ Consistent' /\ Defined'
  BY <1>1, ExecuteStep
<1>3. \A n \in Migrator \ {m} : Untouched(n) BY <1>1, ExecuteStep
<1>4. k + 1 \in 0..Len(script) BY <1>2
<1>5. Progress' BY <1>2, <1>3, <1>4, ProgressOf
<1>. QED BY <1>2, <1>5 DEF Inv

LEMMA StutterKeeps ==
  ASSUME Inv, UNCHANGED vars PROVE Inv'
<1>. db' = db /\ lockedBy' = lockedBy /\ before' = before /\ todo' = todo BY DEF vars
<1>1. Typed' /\ Consistent' /\ Defined' BY DEF Inv, Typed, Consistent, Committed, Defined
<1>2. Progress'
  <2>1. ASSUME NEW m \in Migrator, NEW script \in Scripts, NEW k \in 0..Len(script),
               Done(m, script, k)
        PROVE  Done(m, script, k)'
    BY <2>1 DEF Done
  <2>. QED BY <2>1 DEF Inv, Progress
<1>. QED BY <1>1, <1>2 DEF Inv

LEMMA InvNext == Inv /\ [Next]_vars => Inv'
<1>. SUFFICES ASSUME Inv, [Next]_vars PROVE Inv'
  OBVIOUS
<1>1. ASSUME NEW m \in Migrator, NEW command \in Command, Begin(m, command) PROVE Inv'
  BY <1>1, BeginKeeps
<1>2. ASSUME NEW m \in Migrator, Execute(m) PROVE Inv'
  BY <1>2, ExecuteKeeps
<1>3. ASSUME NEW m \in Migrator, Commit(m) PROVE Inv'
  BY <1>3, CommitKeeps
<1>4. ASSUME NEW m \in Migrator, Refused(m) \/ Victim(m) \/ Crash(m) PROVE Inv'
  BY <1>4, RollbackKeeps DEF Refused, Victim, Crash
<1>5. ASSUME NEW m \in Migrator, Lock(m) PROVE Inv'
  BY <1>5, LockKeeps
<1>6. CASE UNCHANGED vars BY <1>6, StutterKeeps
<1>. QED BY <1>1, <1>2, <1>3, <1>4, <1>5, <1>6 DEF Next

LEMMA InvAlways == Spec => []Inv
BY InvInit, InvNext, PTL DEF Spec

--------------------------------------------------------------------------------
(***************************************************************************)
(* The theorems.                                                           *)
(***************************************************************************)
\* Versions, locks and transactions keep their types.
THEOREM SchemaTyped == Spec => []TypeOK
<1>1. Inv => TypeOK BY DEF Inv, Typed, Consistent, TypeOK, VersionTable
<1>. QED BY <1>1, InvAlways, PTL

\* What others see is what the invariant calls the image of a version.
SeenFits == Committed(VersionTable) \in Version /\ Seen = TablesOf(Committed(VersionTable))

LEMMA SeenIs == ASSUME Inv PROVE SeenFits
<1>. DEFINE version == Committed(VersionTable)
<1>1. version \in Version /\ \A t \in Table : Committed(t) = Image(version, t)
  BY DEF Inv, Consistent
<1>2. \A t \in Table : Definition(t) # None
  <2>1. \A t \in Table : Definition(t) \in {op.def : op \in Created}
    BY Tables DEF Definition, Created
  <2>. QED BY <2>1, NoneAssumption
<1>3. TablesOf(version) \subseteq Table BY <1>1, Tables DEF TablesOf, Version
<1>4. \A t \in Table : Committed(t) # None <=> t \in TablesOf(version)
  BY <1>1, <1>2 DEF Image
<1>. QED BY <1>1, <1>3, <1>4 DEF Seen, SeenFits

\* What other transactions see is never half a migration, however many run at once.
THEOREM NeverHalfMigrated == Spec => []SchemaMatchesVersion
<1>1. Inv => SchemaMatchesVersion BY SeenIs DEF SchemaMatchesVersion, SeenFits, VersionTable
<1>. QED BY <1>1, InvAlways, PTL

\* Only a commit shows others anything.
LEMMA HidesUntilCommit ==
  ASSUME Inv, NEW m \in Migrator,
         \/ \E command \in Command : Begin(m, command)
         \/ Lock(m) \/ Execute(m) \/ Rollback(m)
  PROVE  \A o \in Table \cup {VersionTable} : Committed(o)' = Committed(o)
<1>. /\ VersionTable \in Object /\ Table \subseteq Object /\ Object \subseteq Lockable BY Places
<1>. None \notin Migrator BY NoneAssumption
<1>1. CASE \E command \in Command : Begin(m, command) BY <1>1 DEF Begin, Committed
<1>2. CASE Execute(m)
  <2>1. PICK script \in Scripts : \E k \in 0..Len(script) : Done(m, script, k)
    BY <1>2 DEF Execute, Working, Inv, Progress
  <2>2. PICK k \in 0..Len(script) : Done(m, script, k) BY <2>1
  <2>. QED BY <1>2, <2>2, ExecuteStep
<1>3. CASE Lock(m)
  <2>1. PICK script \in Scripts : \E k \in 0..Len(script) : Done(m, script, k)
    BY <1>3 DEF Lock, Working, Inv, Progress
  <2>2. PICK k \in 0..Len(script) : Done(m, script, k) BY <2>1
  <2>. QED BY <1>3, <2>2, LockStep
<1>4. CASE Rollback(m) BY <1>4 DEF Rollback, Committed, Unlocked
<1>. QED BY <1>1, <1>2, <1>3, <1>4

LEMMA OnlyCommitsShow ==
  ASSUME Inv, [Next]_vars
  PROVE  \/ \A o \in Table \cup {VersionTable} : Committed(o)' = Committed(o)
         \/ \E from, to \in Version : Shows(from, to)
<1>1. CASE UNCHANGED vars BY <1>1 DEF vars, Committed
<1>. QED BY <1>1, HidesUntilCommit, CommitStep DEF Next, Refused, Victim, Crash

\* To everyone who reads the database, every migration is one jump of the version
\* and its tables, up to the newest version or down by one, however many alembic
\* processes run, are refused, or die half way.
THEOREM MigrationsAreWhole == Spec => ImplementsWholeMigration
<1>. DEFINE History == <<"base", "0001", "0002">>
            TablesAt == [version \in Version |-> TablesOf(version)]
<1>1. /\ Len(History) = 3
      /\ History[1] = "base" /\ History[2] = "0001" /\ History[3] = "0002"
      /\ \A version \in Version : TablesAt[version] = TablesOf(version)
      /\ Version = {"base", "0001", "0002"}
  BY DEF Version
<1>2. ASSUME Init PROVE Whole!Init
  <2>1. Inv BY <1>2, InvInit
  <2>2. Committed(VersionTable) = "base" BY <1>2, Places DEF Init, Committed, VersionTable
  <2>. QED BY <1>1, <2>1, <2>2, SeenIs DEF SeenFits, Whole!Init, Whole!At, VersionTable
<1>3. ASSUME Inv, SeenFits, SeenFits', [Next]_vars
      PROVE  [Whole!Next]_<<Committed("alembic_version"), Seen>>
  <2>1. /\ Seen = TablesOf(Committed(VersionTable)) /\ Committed(VersionTable) \in Version
        /\ Seen' = TablesOf(Committed(VersionTable)')
    BY <1>3 DEF SeenFits
  <2>2. CASE \A o \in Table \cup {VersionTable} : Committed(o)' = Committed(o)
    BY <2>1, <2>2 DEF VersionTable
  <2>3. ASSUME NEW from \in Version, NEW to \in Version, Shows(from, to) PROVE Whole!Next
    <3>1. /\ Committed("alembic_version") = from /\ Committed("alembic_version")' = to
          /\ Seen' = TablesAt[to] /\ Follows(from, to)
      BY <1>1, <2>1, <2>3 DEF Shows, VersionTable
    <3>2. CASE from # "0002" /\ to = "0002"
      BY <1>1, <3>1, <3>2 DEF Whole!Next, Whole!Upgrade, Whole!At, Whole!Jump
    <3>3. ASSUME NEW n \in {2, 3}, from = History[n], to = History[n - 1] PROVE Whole!Next
      BY <1>1, <3>1, <3>3 DEF Whole!Next, Whole!Downgrade, Whole!At, Whole!Jump
    <3>. QED BY <1>1, <3>1, <3>2, <3>3 DEF Follows
  <2>. QED BY <1>3, <2>2, <2>3, OnlyCommitsShow
<1>4. Inv => SeenFits BY SeenIs
<1>. QED BY <1>2, <1>3, <1>4, InvAlways, PTL DEF Spec, ImplementsWholeMigration, Whole!Spec

\* Whatever revisions have run, a table that exists is the one its model declares.
THEOREM NoDrift == Spec => []ModelsFitTables
<1>1. ASSUME Inv PROVE ModelsFitTables
  <2>1. \A t \in Table : Committed(t) # None => Committed(t) = Definition(t)
    BY <1>1 DEF Inv, Consistent, Image
  <2>2. ASSUME NEW model \in Models
        PROVE  /\ model.table \in Table
               /\ Definition(model.table).not_null = model.required
               /\ Definition(model.table).nullable = model.optional
    <3>1. model.table \in Table BY DEF Table
    <3>2. CASE model = Agency
      BY <3>1, <3>2 DEF Agency, Mapped, Stamps, Definition, CreateAgencies, Create
    <3>3. CASE model = AgencyClient
      BY <3>1, <3>3 DEF AgencyClient, Mapped, Stamps, Definition, CreateAgencyClients, Create
    <3>4. CASE model = ActionLog
      BY <3>1, <3>4 DEF ActionLog, Mapped, Stamps, Definition, CreateActionLogs, Create
    <3>5. CASE model = AgencyUser
      BY <3>1, <3>5 DEF AgencyUser, Mapped, Stamps, Definition, CreateAgencyUsers, Create
    <3>6. CASE model = AuditLog
      BY <3>1, <3>6 DEF AuditLog, Mapped, Stamps, Definition, CreateAuditLogs, Create
    <3>7. CASE model = MemoryChunk
      BY <3>1, <3>7 DEF MemoryChunk, Mapped, Stamps, Definition, CreateMemoryChunks, Create
    <3>. QED BY <3>2, <3>3, <3>4, <3>5, <3>6, <3>7 DEF Models
  <2>. QED BY <2>1, <2>2 DEF ModelsFitTables
<1>. QED BY <1>1, InvAlways, PTL

\* The disagreement about the stamps is no accident of an instance: no table that
\* the revisions ever leave accepts an insert of its model.
InsertsRefused ==
  \A model \in Models :
    LET table == Committed(model.table)
    IN  table # None => ~(table.not_null \subseteq Inserted(model))

THEOREM NoInsertIsEverAccepted == Spec => []InsertsRefused
<1>1. ASSUME ModelsFitTables PROVE InsertsRefused
  <2>1. ASSUME NEW model \in Models PROVE Stamps \subseteq model.required
    BY DEF Models, Mapped, Agency, AgencyClient, ActionLog, AgencyUser, AuditLog, MemoryChunk
  <2>2. Stamps # {} BY DEF Stamps
  <2>. QED BY <1>1, <2>1, <2>2 DEF ModelsFitTables, InsertsRefused, Inserted
<1>. QED BY <1>1, NoDrift, PTL

================================================================================

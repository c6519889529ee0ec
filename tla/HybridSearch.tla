------------------------------ MODULE HybridSearch ------------------------------
(***************************************************************************)
(* A search over the chunks of memory (vills/memory/hybrid_search.py,      *)
(* embeddings.py, models.py), beside sessions that add and delete chunks.  *)
(* The query is embedded at one await and executed at the next, as one     *)
(* statement on one snapshot.  A chunk's similarities to the query are     *)
(* small integers; an embedding may be missing, as its column is nullable. *)
(***************************************************************************)
EXTENDS Integers, FiniteSets, Sequences

CONSTANTS
  Chunk, Tenant, Client,
  Level,                        \* values of a similarity
  VectorWeight, LexicalWeight,  \* in tenths
  MaxTop,                       \* bound: top_k
  Nobody,                       \* client_id None: the agency itself
  Missing                       \* an embedding or a row that is not there

Row == [tenant : Tenant, client : Client \cup {Nobody},
        vector : Level \cup {Missing}, lexical : Level]

\* The constructor raises for other weights.
ASSUME SearchAssumption ==
  /\ VectorWeight \in 0..10 /\ LexicalWeight \in 0..10
  /\ Level \subseteq Int
  /\ MaxTop \in Nat
  /\ Nobody \notin Client
  /\ Missing \notin Level \cup Row

VARIABLES
  table,   \* chunk -> its row in memory_chunks, Missing if there is none
  search,  \* the search: its arguments and what it waits for
  found    \* the rows that it returned, in order

search_vars == <<table, search, found>>

Idle == [at |-> "idle"]

--------------------------------------------------------------------------------
\* The WHERE clause.
MutInScope(c) ==
  /\ table[c] # Missing
  /\ \/ table[c].tenant = search.tenant /\ search.client = Nobody
     \/ table[c].client = search.client
InScope(c) ==
  /\ table[c] # Missing
  /\ table[c].tenant = search.tenant
  /\ search.client = Nobody \/ table[c].client = search.client

Scope == {c \in Chunk : InScope(c)}

\* NULL when the embedding is missing, and DESC puts NULL first.
Unscored(c) == table[c].vector = Missing
Score(c) == VectorWeight * table[c].vector + LexicalWeight * table[c].lexical
MutBefore(c, d) == Unscored(d) \/ (~Unscored(c) /\ Score(c) >= Score(d))
Before(c, d) == Unscored(c) \/ (~Unscored(d) /\ Score(c) >= Score(d))

\* ORDER BY score DESC LIMIT top_k: rows of equal score come in any order.
Ranking(r) ==
  /\ \A i \in DOMAIN r : r[i] \in Scope
  /\ \A i, j \in DOMAIN r : i < j => r[i] # r[j] /\ Before(r[i], r[j])
  /\ \A c \in Scope : \/ \E i \in DOMAIN r : r[i] = c
                      \/ Len(r) = search.top /\ \A i \in DOMAIN r : Before(r[i], c)
Rankings == UNION {{r \in [1..n -> Chunk] : Ranking(r)} : n \in 0..search.top}

SearchInit ==
  /\ table = [c \in Chunk |-> Missing]
  /\ search = Idle
  /\ found = <<>>

BeginSearch(t, c, top) ==
  /\ search = Idle
  /\ search' = [at |-> "embed", tenant |-> t, client |-> c, top |-> top]
  /\ UNCHANGED <<table, found>>

\* embed_one
Embed ==
  /\ search.at = "embed"
  /\ search' = [search EXCEPT !.at = "execute"]
  /\ UNCHANGED <<table, found>>

\* The provider of embeddings or the database fails.
SearchFails ==
  /\ search.at \in {"embed", "execute"}
  /\ search' = [search EXCEPT !.at = "failed"]
  /\ UNCHANGED <<table, found>>

\* float(r[3]) raises on NULL, for one row of the result.
Execute ==
  /\ search.at = "execute"
  /\ \E r \in Rankings :
       \/ /\ \E i \in DOMAIN r : Unscored(r[i])
          /\ search' = [search EXCEPT !.at = "raised"]
          /\ UNCHANGED found
       \/ /\ \A i \in DOMAIN r : ~Unscored(r[i])
          /\ search' = [search EXCEPT !.at = "done"]
          /\ found' = [i \in DOMAIN r |-> [chunk |-> r[i], row |-> table[r[i]]]]
  /\ UNCHANGED table

\* The caller takes the result.
Return ==
  /\ search.at \in {"done", "raised", "failed"}
  /\ search' = Idle
  /\ found' = <<>>
  /\ UNCHANGED table

\* Other sessions insert and delete chunks.
AddChunk(c, row) ==
  /\ table[c] = Missing
  /\ table' = [table EXCEPT ![c] = row]
  /\ UNCHANGED <<search, found>>

DeleteChunk(c) ==
  /\ table[c] # Missing
  /\ table' = [table EXCEPT ![c] = Missing]
  /\ UNCHANGED <<search, found>>

SearchNext ==
  \/ \E t \in Tenant, c \in Client \cup {Nobody}, top \in 0..MaxTop : BeginSearch(t, c, top)
  \/ Embed \/ SearchFails \/ Execute \/ Return
  \/ \E c \in Chunk : DeleteChunk(c) \/ \E row \in Row : AddChunk(c, row)

SearchSpec == SearchInit /\ [][SearchNext]_search_vars

--------------------------------------------------------------------------------
\* Properties.

\* Isolation (hybrid_search.py:3-4): every row returned is of the tenant that
\* asked, and of its client if it asked for one, whatever is added and deleted
\* while the query is being embedded.
SearchStaysInTenant ==
  search.at = "done" =>
    \A i \in DOMAIN found :
      /\ found[i].row.tenant = search.tenant
      /\ search.client # Nobody => found[i].row.client = search.client

\* One chunk without an embedding makes every search of its scope end in an
\* error, however many good chunks there are; and nothing else in the table does.
GapBreaksScope ==
  [][search.at = "execute" /\ search'.at \in {"done", "raised"} /\ search.top > 0
       => (search'.at = "raised" <=> \E c \in Scope : Unscored(c))]_search_vars
================================================================================

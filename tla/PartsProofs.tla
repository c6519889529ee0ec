------------------------------- MODULE PartsProofs -------------------------------
(***************************************************************************)
(* Theorems about the four components that MCParts instantiates, for any   *)
(* values of their constants.                                              *)
(***************************************************************************)
EXTENDS Settings, ContextCompressor, HybridSearch, UnitOfWork, TLAPS

--------------------------------------------------------------------------------
(***************************************************************************)
(* Settings.                                                               *)
(***************************************************************************)
\* Whoever has been configured holds what get_settings has cached.
HoldsTheCache ==
  /\ holds = [c \in Component |-> holds[c]]
  /\ \A c \in Component : holds[c] # Unread => holds[c] = settings

LEMMA HoldsInit == SettingsInit => HoldsTheCache
BY DEF SettingsInit, HoldsTheCache

LEMMA HoldsNext == HoldsTheCache /\ [SettingsNext]_settings_vars => HoldsTheCache'
<1>. SUFFICES ASSUME HoldsTheCache, [SettingsNext]_settings_vars PROVE HoldsTheCache'
  OBVIOUS
<1>1. ASSUME NEW c \in Component, Configure(c) PROVE HoldsTheCache'
  BY <1>1 DEF Configure, Cached, HoldsTheCache
<1>2. ASSUME NEW source \in Source, EditDotenv(source) PROVE HoldsTheCache'
  BY <1>2 DEF EditDotenv, HoldsTheCache
<1>3. ASSUME NEW source \in Source, NEW spelling \in BOOLEAN, Restart(source, spelling)
      PROVE  HoldsTheCache'
  BY <1>3 DEF Restart, HoldsTheCache
<1>4. CASE UNCHANGED settings_vars BY <1>4 DEF settings_vars, HoldsTheCache
<1>. QED BY <1>1, <1>2, <1>3, <1>4 DEF SettingsNext

\* One configuration for all components of a process, whatever is edited.
THEOREM OneConfigurationHolds == SettingsSpec => []OneConfiguration
<1>1. HoldsTheCache => OneConfiguration BY DEF HoldsTheCache, OneConfiguration
<1>. QED BY <1>1, HoldsInit, HoldsNext, PTL DEF SettingsSpec

\* Two sources of the environment's name: what they may say.
SourcesTyped == environ \in Source /\ dotenv \in Source /\ exact \in BOOLEAN

LEMMA SourcesInit == SettingsInit => SourcesTyped
BY DEF SettingsInit, SourcesTyped, Source, Written

LEMMA SourcesNext == SourcesTyped /\ [SettingsNext]_settings_vars => SourcesTyped'
BY DEF SourcesTyped, SettingsNext, Configure, EditDotenv, Restart, settings_vars

\* The first source that has a value decides.
LEMMA FirstDecides ==
  ASSUME NEW f \in Field
  PROVE  /\ environ[f] # Unset => ValueOf(f) = environ[f]
         /\ environ[f] = Unset /\ dotenv[f] # Unset => ValueOf(f) = dotenv[f]
         /\ environ[f] = Unset /\ dotenv[f] = Unset /\ Yaml(f) # Unset => ValueOf(f) = Yaml(f)
         /\ environ[f] = Unset /\ dotenv[f] = Unset /\ Yaml(f) = Unset
              => ValueOf(f) = Default(f)
<1>. DEFINE given == <<environ[f], dotenv[f], Yaml(f), Default(f)>>
            P(i) == given[i] # Unset /\ \A j \in 1..(i - 1) : given[j] = Unset
            first == CHOOSE i \in 1..4 : P(i)
<1>1. ValueOf(f) = given[first] BY DEF ValueOf
<1>2. ASSUME NEW i \in 1..4, P(i) PROVE given[first] = given[i]
  <2>1. first \in 1..4 /\ P(first) BY <1>2
  <2>2. ~(first < i) /\ ~(i < first)
    <3>. HIDE DEF given, first
    <3>. QED BY <1>2, <2>1
  <2>3. first = i
    <3>. HIDE DEF first
    <3>. QED BY <2>1, <2>2
  <2>. QED BY <2>3
<1>. HIDE DEF first
<1>3. given[4] # Unset BY DEF Default, Unset
<1>4. environ[f] # Unset => P(1) OBVIOUS
<1>5. environ[f] = Unset /\ dotenv[f] # Unset => P(2) OBVIOUS
<1>6. environ[f] = Unset /\ dotenv[f] = Unset /\ Yaml(f) # Unset => P(3) OBVIOUS
<1>7. environ[f] = Unset /\ dotenv[f] = Unset /\ Yaml(f) = Unset => P(4) BY <1>3
<1>. QED BY <1>1, <1>2, <1>4, <1>5, <1>6, <1>7

\* A process has the values of another environment only for the two reasons.
THEOREM FileFitsEnvironment == SettingsSpec => FileOfTheEnvironment
<1>. DEFINE Fits ==
       settings = Unread /\ settings' # Unread
       /\ settings'["cors"] \in Environment \ {settings'["environment"]}
         => \/ environ["environment"] = Unset /\ dotenv["environment"] # Unset
            \/ environ["environment"] # Unset /\ ~exact
<1>1. SourcesTyped /\ [SettingsNext]_settings_vars => Fits
  <2>. SUFFICES ASSUME SourcesTyped, [SettingsNext]_settings_vars,
                       settings = Unread, settings' # Unread,
                       settings'["cors"] \in Environment,
                       settings'["cors"] # settings'["environment"]
                PROVE  \/ environ["environment"] = Unset /\ dotenv["environment"] # Unset
                       \/ environ["environment"] # Unset /\ ~exact
    OBVIOUS
  <2>1. settings' = Read
    BY DEF SettingsNext, Configure, Cached, EditDotenv, Restart, settings_vars
  <2>2. /\ settings'["cors"] = ValueOf("cors")
        /\ settings'["environment"] = ValueOf("environment")
    BY <2>1 DEF Read, Field
  <2>3. environ["cors"] \in {Unset, Empty, "written"} /\ dotenv["cors"] \in {Unset, Empty, "written"}
    BY DEF SourcesTyped, Source, Written, Field
  <2>4. ValueOf("cors") = Yaml("cors") /\ Yaml("cors") # Unset
    BY <2>2, <2>3, FirstDecides DEF Environment, Unset, Empty, Default, Field
  <2>5. ValueOf("cors") = YamlFile BY <2>4 DEF Yaml
  <2>6. Yaml("environment") = Unset BY DEF Yaml
  <2>7. environ["environment"] # Unset => ValueOf("environment") = environ["environment"]
    BY FirstDecides DEF Field
  <2>8. environ["environment"] = Unset /\ dotenv["environment"] = Unset
          => ValueOf("environment") = "dev"
    BY <2>6, FirstDecides DEF Field, Default
  <2>. QED BY <2>2, <2>5, <2>7, <2>8 DEF YamlFile
<1>. QED BY <1>1, SourcesInit, SourcesNext, PTL DEF SettingsSpec, FileOfTheEnvironment

--------------------------------------------------------------------------------
(***************************************************************************)
(* UnitOfWork.                                                             *)
(***************************************************************************)
\* A session flushes all that is asked for in it, before it can do anything else.
Settled == {"closed", "open", "committing"}
SessionState ==
  [at : {"closed", "open", "flushing", "inactive", "committing"},
   flushed : SUBSET [by : Session, n : Nat], asked : SUBSET [by : Session, n : Nat],
   count : Nat]
NothingIsMissing ==
  /\ session \in [Session -> SessionState]
  /\ \A s \in Session : session[s].at \in Settled => session[s].flushed = session[s].asked

LEMMA MissingInit == UnitInit => NothingIsMissing
BY DEF UnitInit, NothingIsMissing, Fresh, SessionState, Settled

\* A step of one session to a good state keeps the invariant.
LEMMA OneSession ==
  ASSUME NothingIsMissing, NEW s \in Session, NEW to \in SessionState,
         to.at \in Settled => to.flushed = to.asked, session' = [session EXCEPT ![s] = to]
  PROVE  NothingIsMissing'
BY DEF NothingIsMissing

LEMMA FreshIsGood ==
  ASSUME NEW at \in {"closed", "open", "inactive"}, NEW count \in Nat
  PROVE  Fresh(at, count) \in SessionState /\ Fresh(at, count).flushed = Fresh(at, count).asked
BY DEF Fresh, SessionState

LEMMA MissingNext == NothingIsMissing /\ [UnitNext]_unit_vars => NothingIsMissing'
<1>. SUFFICES ASSUME NothingIsMissing, [UnitNext]_unit_vars PROVE NothingIsMissing'
  OBVIOUS
<1>1. CASE UNCHANGED unit_vars BY <1>1 DEF unit_vars, NothingIsMissing
<1>2. ASSUME NEW s \in Session,
             \/ Enter(s) \/ Add(s) \/ Flushed(s) \/ FlushFails(s) \/ Commit(s)
             \/ Committed(s) \/ CommitFails(s) \/ Rollback(s) \/ Leave(s)
      PROVE  NothingIsMissing'
  <2>. session[s] \in SessionState /\ session = [t \in Session |-> session[t]]
    BY DEF NothingIsMissing
  <2>1. ASSUME Enter(s) \/ Commit(s) PROVE NothingIsMissing'
    BY <2>1 DEF Enter, Commit, NothingIsMissing, SessionState, Settled
  <2>2. ASSUME Add(s) PROVE NothingIsMissing'
    <3>. DEFINE new == [by |-> s, n |-> session[s].count + 1]
                to == [session[s] EXCEPT !.at = "flushing", !.count = @ + 1,
                         !.asked = @ \cup {new}]
    <3>1. new \in [by : Session, n : Nat] BY DEF SessionState
    <3>. HIDE DEF new
    <3>. DEFINE counted == [[session[s] EXCEPT !.at = "flushing"] EXCEPT !.count = @ + 1]
    <3>2. counted \in SessionState /\ counted.at = "flushing"
      <4>1. session[s].count + 1 \in Nat BY DEF SessionState
      <4>. QED BY <4>1 DEF SessionState
    <3>3. to = [counted EXCEPT !.asked = @ \cup {new}] BY DEF SessionState
    <3>. HIDE DEF counted, to
    <3>4. to \in SessionState /\ to.at \notin Settled
      BY <3>1, <3>2, <3>3 DEF SessionState, Settled
    <3>5. session' = [session EXCEPT ![s] = to] BY <2>2 DEF Add, new, to
    <3>. QED BY <3>4, <3>5, OneSession
  <2>3. ASSUME Flushed(s) PROVE NothingIsMissing'
    BY <2>3 DEF Flushed, NothingIsMissing, SessionState, Settled
  <2>4. ASSUME FlushFails(s) \/ CommitFails(s) PROVE NothingIsMissing'
    <3>1. Lost(s) \in SessionState /\ Lost(s).at \notin Settled
      BY DEF Lost, SessionState, Settled
    <3>. QED BY <2>4, <3>1, OneSession DEF FlushFails, CommitFails
  <2>5. ASSUME NEW at \in {"closed", "open", "inactive"},
               session' = [session EXCEPT ![s] = Fresh(at, @.count)]
        PROVE  NothingIsMissing'
    <3>1. session[s].count \in Nat BY DEF SessionState
    <3>. QED BY <2>5, <3>1, FreshIsGood, OneSession
  <2>6. ASSUME Committed(s) \/ Rollback(s) \/ Leave(s) PROVE NothingIsMissing'
    BY <2>5, <2>6 DEF Committed, Rollback, Leave
  <2>. QED BY <1>2, <2>1, <2>2, <2>3, <2>4, <2>5, <2>6
<1>. QED BY <1>1, <1>2 DEF UnitNext

\* The commit of a handler makes all of its transaction permanent, and nothing
\* else makes anything permanent.
THEOREM CommitsAreWhole == UnitSpec => AllOrNothing
<1>1. NothingIsMissing /\ [UnitNext]_unit_vars
        => (rows' # rows => \E s \in Session :
              session[s].at = "committing" /\ rows' = rows \cup session[s].asked)
  <2>. SUFFICES ASSUME NothingIsMissing, [UnitNext]_unit_vars, rows' # rows
                PROVE  \E s \in Session : /\ session[s].at = "committing"
                                          /\ rows' = rows \cup session[s].asked
    OBVIOUS
  <2>1. PICK s \in Session : Committed(s)
    BY Zenon DEF UnitNext, unit_vars, Enter, Add, Flushed, FlushFails, Commit, CommitFails, Rollback, Leave
  <2>. QED BY <2>1 DEF Committed, NothingIsMissing, Settled
<1>. QED BY <1>1, MissingInit, MissingNext, PTL DEF UnitSpec, AllOrNothing

--------------------------------------------------------------------------------
(***************************************************************************)
(* HybridSearch.                                                           *)
(***************************************************************************)
\* A search keeps its arguments, and its result is of their scope.
Searching == [at : {"embed", "execute", "failed", "raised", "done"}, tenant : Tenant,
              client : Client \cup {Nobody}, top : 0..MaxTop]
FoundIsInScope ==
  /\ search \in Searching \cup {Idle}
  /\ SearchStaysInTenant

LEMMA FoundInit == SearchInit => FoundIsInScope
BY DEF SearchInit, FoundIsInScope, Idle, SearchStaysInTenant

LEMMA FoundNext == FoundIsInScope /\ [SearchNext]_search_vars => FoundIsInScope'
<1>. SUFFICES ASSUME FoundIsInScope, [SearchNext]_search_vars PROVE FoundIsInScope'
  OBVIOUS
<1>1. CASE UNCHANGED search_vars
  BY <1>1 DEF search_vars, FoundIsInScope, SearchStaysInTenant
<1>2. ASSUME NEW t \in Tenant, NEW c \in Client \cup {Nobody}, NEW top \in 0..MaxTop,
             BeginSearch(t, c, top)
      PROVE  FoundIsInScope'
  BY <1>2 DEF BeginSearch, FoundIsInScope, Searching, SearchStaysInTenant
<1>3. ASSUME Embed \/ SearchFails PROVE FoundIsInScope'
  BY <1>3 DEF Embed, SearchFails, FoundIsInScope, Searching, SearchStaysInTenant, Idle
<1>4. ASSUME Return PROVE FoundIsInScope'
  BY <1>4 DEF Return, FoundIsInScope, Idle, SearchStaysInTenant
<1>5. ASSUME NEW c \in Chunk, DeleteChunk(c) \/ \E row \in Row : AddChunk(c, row)
      PROVE  FoundIsInScope'
  BY <1>5 DEF DeleteChunk, AddChunk, FoundIsInScope, SearchStaysInTenant
<1>6. ASSUME Execute PROVE FoundIsInScope'
  <2>1. search \in Searching BY <1>6 DEF Execute, FoundIsInScope, Idle
  <2>2. PICK r \in Rankings :
          \/ search' = [search EXCEPT !.at = "raised"]
          \/ /\ search' = [search EXCEPT !.at = "done"]
             /\ found' = [i \in DOMAIN r |-> [chunk |-> r[i], row |-> table[r[i]]]]
    BY <1>6 DEF Execute
  <2>3. search' \in Searching BY <2>1, <2>2 DEF Searching
  <2>4. CASE search' = [search EXCEPT !.at = "raised"]
    BY <2>1, <2>3, <2>4 DEF FoundIsInScope, SearchStaysInTenant, Searching
  <2>5. CASE /\ search' = [search EXCEPT !.at = "done"]
             /\ found' = [i \in DOMAIN r |-> [chunk |-> r[i], row |-> table[r[i]]]]
    <3>1. \A i \in DOMAIN r : r[i] \in Scope BY DEF Rankings, Ranking
    <3>2. search'.tenant = search.tenant /\ search'.client = search.client
      BY <2>1, <2>5 DEF Searching
    <3>3. ASSUME NEW i \in DOMAIN found'
          PROVE  /\ found'[i].row.tenant = search.tenant
                 /\ search.client # Nobody => found'[i].row.client = search.client
      <4>1. i \in DOMAIN r /\ found'[i].row = table[r[i]] BY <2>5
      <4>. QED BY <3>1, <4>1 DEF Scope, InScope
    <3>. QED BY <2>3, <3>2, <3>3 DEF FoundIsInScope, SearchStaysInTenant
  <2>. QED BY <2>2, <2>4, <2>5
<1>. QED BY <1>1, <1>2, <1>3, <1>4, <1>5, <1>6 DEF SearchNext

\* No search returns a row of another tenant, or of another client than it asked for.
THEOREM SearchIsolated == SearchSpec => []SearchStaysInTenant
<1>. QED BY FoundInit, FoundNext, PTL DEF SearchSpec, FoundIsInScope

\* A chunk without a score comes before all that have one.
LEMMA GapsComeFirst ==
  ASSUME NEW r \in Rankings, NEW c \in Scope, Unscored(c), search \in Searching, search.top > 0
  PROVE  \E i \in DOMAIN r : Unscored(r[i])
<1>1. PICK n \in 0..search.top : r \in [1..n -> Chunk] /\ Ranking(r) BY DEF Rankings
<1>2. n \in Nat /\ search.top \in Nat /\ DOMAIN r = 1..n
  BY <1>1, SearchAssumption DEF Searching
<1>3. CASE \E i \in DOMAIN r : r[i] = c BY <1>3
<1>4. CASE Len(r) = search.top /\ \A i \in DOMAIN r : Before(r[i], c)
  <2>1. Len(r) = n BY <1>1, <1>2
  <2>2. 1 \in DOMAIN r BY <1>2, <1>4, <2>1
  <2>. QED BY <1>4, <2>2 DEF Before
<1>. QED BY <1>1, <1>3, <1>4 DEF Ranking

\* A search of a scope with a chunk without an embedding ends in an error, every
\* time, and one of a scope without such a chunk never does for that reason.
THEOREM GapsBreak == SearchSpec => GapBreaksScope
<1>. DEFINE Breaks ==
       search.at = "execute" /\ search'.at \in {"done", "raised"} /\ search.top > 0
         => (search'.at = "raised" <=> \E c \in Scope : Unscored(c))
<1>1. FoundIsInScope /\ [SearchNext]_search_vars => Breaks
  <2>. SUFFICES ASSUME FoundIsInScope, [SearchNext]_search_vars, search.at = "execute",
                       search'.at \in {"done", "raised"}, search.top > 0
                PROVE  search'.at = "raised" <=> \E c \in Scope : Unscored(c)
    OBVIOUS
  <2>1. search \in Searching BY DEF FoundIsInScope, Idle
  <2>2. Execute
    BY <2>1 DEF SearchNext, search_vars, BeginSearch, Idle, Embed, SearchFails, Return, AddChunk,
              DeleteChunk, Searching
  <2>3. PICK r \in Rankings :
          \/ /\ \E i \in DOMAIN r : Unscored(r[i])
             /\ search' = [search EXCEPT !.at = "raised"]
          \/ /\ \A i \in DOMAIN r : ~Unscored(r[i])
             /\ search' = [search EXCEPT !.at = "done"]
    BY <2>2 DEF Execute
  <2>4. search'.at = "raised" <=> \E i \in DOMAIN r : Unscored(r[i])
    BY <2>1, <2>3 DEF Searching
  <2>5. \A i \in DOMAIN r : r[i] \in Scope BY DEF Rankings, Ranking
  <2>. QED BY <2>1, <2>4, <2>5, GapsComeFirst
<1>. QED BY <1>1, FoundInit, FoundNext, PTL DEF SearchSpec, GapBreaksScope

--------------------------------------------------------------------------------
(***************************************************************************)
(* ContextCompressor.                                                      *)
(***************************************************************************)
Messages == [n : Nat, kind : {"text", "parts", "summary"}, quotes : SUBSET Nat]
Conversation ==
  /\ limits \in [max : Int, keep : Int] /\ limits.keep < limits.max
  /\ said \in Nat
  /\ history \in Seq(Messages)

\* Where the history is cut; nothing is left out and nothing is doubled there.
Cut(s) == SliceIndex(s, -limits.keep)

LEMMA CutBounds ==
  ASSUME NEW s \in Seq(Messages), limits \in [max : Int, keep : Int]
  PROVE  /\ Cut(s) \in 0..Len(s)
         /\ limits.keep >= 1 /\ Len(s) > limits.keep => Cut(s) = Len(s) - limits.keep
         /\ limits.keep < 0 /\ Len(s) >= 1 => Cut(s) >= 1
<1>. DEFINE k == limits.keep
            l == Len(s)
<1>1. k \in Int /\ l \in Nat OBVIOUS
<1>2. Cut(s) = LET j == IF -k < 0 THEN l + -k ELSE -k IN IF j < 0 THEN 0 ELSE IF j > l THEN l ELSE j
  BY DEF Cut, SliceIndex
<1>. HIDE DEF k, l
<1>3. /\ Cut(s) \in 0..l
      /\ k >= 1 /\ l > k => Cut(s) = l - k
      /\ k < 0 /\ l >= 1 => Cut(s) >= 1
  BY <1>1, <1>2
<1>. QED BY <1>3 DEF k, l

LEMMA Halves ==
  ASSUME NEW s \in Seq(Messages), limits \in [max : Int, keep : Int]
  PROVE  /\ Older(s) \in Seq(Messages) /\ Len(Older(s)) = Cut(s)
         /\ \A i \in 1..Cut(s) : Older(s)[i] = s[i]
         /\ Recent(s) \in Seq(Messages) /\ Len(Recent(s)) = Len(s) - Cut(s)
         /\ \A i \in 1..(Len(s) - Cut(s)) : Recent(s)[i] = s[Cut(s) + i]
<1>. DEFINE c == Cut(s)
<1>1. c \in 0..Len(s) /\ Len(s) \in Nat BY CutBounds
<1>2. Older(s) = SubSeq(s, 1, c) /\ Recent(s) = SubSeq(s, c + 1, Len(s))
  BY DEF Older, Recent, Cut
<1>. HIDE DEF c
<1>3. Len(SubSeq(s, 1, c)) = c /\ \A i \in 1..c : SubSeq(s, 1, c)[i] = s[i] BY <1>1
<1>4. /\ Len(SubSeq(s, c + 1, Len(s))) = Len(s) - c
      /\ \A i \in 1..(Len(s) - c) : SubSeq(s, c + 1, Len(s))[i] = s[c + i]
  BY <1>1
<1>5. SubSeq(s, 1, c) \in Seq(Messages) /\ SubSeq(s, c + 1, Len(s)) \in Seq(Messages) BY <1>1
<1>. QED BY <1>2, <1>3, <1>4, <1>5 DEF c

LEMMA SummaryIsMessage ==
  ASSUME NEW s \in Seq(Messages)
  PROVE  /\ Summary(s) \in Messages
         /\ \A i \in 1..Len(s) : s[i].kind = "text" => s[i].n \in Summary(s).quotes
<1>. DEFINE quoted == {s[i].n : i \in {j \in DOMAIN s : s[j].kind = "text"}}
<1>1. ASSUME NEW i \in DOMAIN s PROVE s[i].n \in Nat
  <2>1. s[i] \in Messages OBVIOUS
  <2>. QED BY <2>1 DEF Messages
<1>2. quoted \in SUBSET Nat BY <1>1
<1>3. \A i \in 1..Len(s) : s[i].kind = "text" => s[i].n \in quoted OBVIOUS
<1>4. Summary(s) = [n |-> 0, kind |-> "summary", quotes |-> quoted] BY DEF Summary
<1>. HIDE DEF quoted
<1>. QED BY <1>2, <1>3, <1>4 DEF Messages

\* A history that is too long becomes a summary and its recent half.
LEMMA CompressedParts ==
  ASSUME NEW s \in Seq(Messages), limits \in [max : Int, keep : Int], Len(s) > limits.max
  PROVE  /\ Compressed(s) \in Seq(Messages)
         /\ Len(Compressed(s)) = Len(s) - Cut(s) + 1
         /\ Compressed(s)[1] = Summary(Older(s)) /\ Head(Compressed(s)) = Summary(Older(s))
         /\ \A i \in 1..(Len(s) - Cut(s)) : Compressed(s)[i + 1] = s[Cut(s) + i]
<1>. DEFINE r == Recent(s)
            m == Summary(Older(s))
            d == Len(s) - Cut(s)
<1>1. /\ r \in Seq(Messages) /\ Len(r) = d /\ d \in Nat
      /\ \A i \in 1..d : r[i] = s[Cut(s) + i]
  BY Halves, CutBounds
<1>2. m \in Messages BY Halves, SummaryIsMessage
<1>3. ~(Len(s) <= limits.max) OBVIOUS
<1>4. Compressed(s) = <<m>> \o r BY <1>3 DEF Compressed
<1>. HIDE DEF r, m, d
<1>5. /\ <<m>> \o r \in Seq(Messages) /\ Len(<<m>> \o r) = d + 1
      /\ (<<m>> \o r)[1] = m /\ Head(<<m>> \o r) = m
      /\ \A i \in 1..d : (<<m>> \o r)[i + 1] = r[i]
  BY <1>1, <1>2
<1>. QED BY <1>1, <1>4, <1>5 DEF r, m, d

\* Places counted from the end, before and after.
LEMMA FromTheEnd ==
  ASSUME NEW l \in Int, NEW k \in Int, NEW i \in 0..(k - 1), NEW c, c = l - k, NEW n, n = k + 1
  PROVE  /\ k - i \in 1..(l - c) /\ c + (k - i) = l - i
         /\ n - i = (k - i) + 1 /\ i < n
OBVIOUS

LEMMA ConversationInit == CompressorInit => Conversation /\ RecentIntact
BY CompressorAssumption DEF CompressorInit, Conversation, RecentIntact

LEMMA ConversationNext ==
  Conversation /\ RecentIntact /\ [CompressorNext]_compressor_vars
    => Conversation' /\ RecentIntact'
<1>. SUFFICES ASSUME Conversation, RecentIntact, [CompressorNext]_compressor_vars
              PROVE  Conversation' /\ RecentIntact'
  OBVIOUS
<1>. /\ limits \in [max : Int, keep : Int] /\ limits.keep \in Int /\ limits.max \in Int
     /\ limits.keep < limits.max /\ said \in Nat
     /\ history \in Seq(Messages) /\ Len(history) \in Nat
  BY DEF Conversation
<1>1. CASE UNCHANGED compressor_vars
  BY <1>1 DEF compressor_vars, Conversation, RecentIntact
<1>2. ASSUME NEW kind \in {"text", "parts"}, Say(kind) PROVE Conversation' /\ RecentIntact'
  <2>. DEFINE m == Message(said + 1, kind)
  <2>1. m \in Messages /\ m.n = said + 1 BY DEF Message, Messages
  <2>2. history' = Append(history, m) /\ said' = said + 1 /\ limits' = limits BY <1>2 DEF Say
  <2>. HIDE DEF m
  <2>3. /\ history' \in Seq(Messages) /\ Len(history') = Len(history) + 1
        /\ history'[Len(history) + 1] = m
        /\ \A i \in 1..Len(history) : history'[i] = history[i]
    BY <2>1, <2>2
  <2>4. Conversation' BY <2>2, <2>3 DEF Conversation
  <2>5. ASSUME NEW i \in 0..(limits.keep - 1), i < said + 1
        PROVE  i < Len(history') /\ history'[Len(history') - i].n = said + 1 - i
    <3>1. CASE i = 0 BY <3>1, <2>1, <2>3
    <3>2. CASE i # 0
      <4>1. i - 1 \in 0..(limits.keep - 1) /\ i - 1 < said BY <2>5, <3>2
      <4>2. i - 1 < Len(history) /\ history[Len(history) - (i - 1)].n = said - (i - 1)
        BY <4>1 DEF RecentIntact
      <4>3. Len(history') - i = Len(history) - (i - 1) /\ Len(history) - (i - 1) \in 1..Len(history)
        BY <2>3, <4>1, <4>2
      <4>4. history'[Len(history') - i] = history[Len(history) - (i - 1)] BY <2>3, <4>3
      <4>5. said - (i - 1) = said + 1 - i BY <4>1
      <4>. QED BY <2>3, <4>2, <4>4, <4>5
    <3>. QED BY <3>1, <3>2
  <2>. QED BY <2>2, <2>4, <2>5 DEF RecentIntact
<1>3. ASSUME Compress PROVE Conversation' /\ RecentIntact'
  <2>1. history' = Compressed(history) /\ said' = said /\ limits' = limits BY <1>3 DEF Compress
  <2>2. CASE Len(history) <= limits.max
    BY <2>1, <2>2 DEF Compressed, Conversation, RecentIntact
  <2>3. CASE Len(history) > limits.max
    <3>. DEFINE c == Cut(history)
    <3>1. /\ history' \in Seq(Messages) /\ Len(history') = Len(history) - c + 1
          /\ \A i \in 1..(Len(history) - c) : history'[i + 1] = history[c + i]
      BY <2>1, <2>3, CompressedParts
    <3>2. Conversation' BY <2>1, <3>1 DEF Conversation
    <3>3. ASSUME NEW i \in 0..(limits.keep - 1), i < said
          PROVE  i < Len(history') /\ history'[Len(history') - i].n = said - i
      <4>1. limits.keep >= 1 /\ Len(history) > limits.keep /\ i \in Nat /\ i < limits.keep
        BY <2>3
      <4>2. c = Len(history) - limits.keep BY <4>1, CutBounds
      <4>. HIDE DEF c
      <4>3. Len(history') = limits.keep + 1 BY <3>1, <4>1, <4>2
      <4>4. /\ limits.keep - i \in 1..(Len(history) - c) /\ c + (limits.keep - i) = Len(history) - i
            /\ Len(history') - i = (limits.keep - i) + 1 /\ i < Len(history')
        BY <4>2, <4>3, FromTheEnd
      <4>5. history'[Len(history') - i] = history[Len(history) - i] BY <3>1, <4>4
      <4>. QED BY <3>3, <4>4, <4>5 DEF RecentIntact
    <3>. QED BY <2>1, <3>2, <3>3 DEF RecentIntact
  <2>. QED BY <2>2, <2>3
<1>. QED BY <1>1, <1>2, <1>3 DEF CompressorNext

\* The most recent messages survive any number of compressions.
THEOREM RecentSurvives == CompressorSpec => []RecentIntact
BY ConversationInit, ConversationNext, PTL DEF CompressorSpec

\* A compressed history fits, and only two odd kinds of limits make one longer.
THEOREM CompressionFits == CompressorSpec => []CompressionShrinks
<1>1. Conversation => CompressionShrinks
  <2>. SUFFICES ASSUME Conversation PROVE CompressionShrinks
    OBVIOUS
  <2>. DEFINE l == Len(history)
              c == Cut(history)
  <2>1. /\ limits \in [max : Int, keep : Int] /\ limits.keep \in Int /\ limits.max \in Int
        /\ limits.keep < limits.max /\ history \in Seq(Messages) /\ l \in Nat
    BY DEF Conversation
  <2>2. CASE l <= limits.max BY <2>1, <2>2 DEF Compressed, CompressionShrinks
  <2>3. CASE l > limits.max
    <3>1. Len(Compressed(history)) = l - c + 1 BY <2>1, <2>3, CompressedParts
    <3>2. /\ c \in 0..l
          /\ limits.keep >= 1 /\ l > limits.keep => c = l - limits.keep
          /\ limits.keep < 0 /\ l >= 1 => c >= 1
      BY <2>1, CutBounds
    <3>. HIDE DEF l, c
    <3>3. /\ limits.keep >= 1 => l - c + 1 <= limits.max
          /\ l - c + 1 > l => limits.keep = 0 \/ limits.max < 0
      BY <2>1, <2>3, <3>2
    <3>. QED BY <3>1, <3>3 DEF CompressionShrinks, l
  <2>. QED BY <2>1, <2>2, <2>3
<1>. QED BY <1>1, ConversationInit, ConversationNext, PTL DEF CompressorSpec

\* Every text that leaves the history is quoted by the summary in its place.
THEOREM TextIsQuoted == CompressorSpec => OlderTextQuoted
<1>1. Conversation /\ [CompressorNext]_compressor_vars
        => (said' = said =>
              \A m \in {history[i] : i \in DOMAIN history} :
                m.kind = "text"
                  => m \in {history'[i] : i \in DOMAIN history'} \/ m.n \in Head(history').quotes)
  <2>. SUFFICES ASSUME Conversation, [CompressorNext]_compressor_vars, said' = said,
                       NEW i \in DOMAIN history, history[i].kind = "text"
                PROVE  \/ history[i] \in {history'[j] : j \in DOMAIN history'}
                       \/ history[i].n \in Head(history').quotes
    OBVIOUS
  <2>1. /\ limits \in [max : Int, keep : Int] /\ said \in Nat /\ history \in Seq(Messages)
        /\ Len(history) \in Nat /\ i \in 1..Len(history) /\ limits.max \in Int
    BY DEF Conversation
  <2>2. CASE history' = history BY <2>2
  <2>3. CASE history' # history
    <3>1. Compress BY <2>1, <2>3 DEF CompressorNext, compressor_vars, Say
    <3>2. history' = Compressed(history) /\ Len(history) > limits.max
      BY <2>1, <2>3, <3>1 DEF Compress, Compressed
    <3>. DEFINE c == Cut(history)
    <3>3. /\ c \in 0..Len(history) /\ Len(history') = Len(history) - c + 1
          /\ history' \in Seq(Messages) /\ Head(history') = Summary(Older(history))
          /\ \A j \in 1..(Len(history) - c) : history'[j + 1] = history[c + j]
      BY <2>1, <3>2, CompressedParts, CutBounds
    <3>4. CASE i <= c
      <4>1. /\ Older(history) \in Seq(Messages) /\ Len(Older(history)) = c
            /\ \A j \in 1..c : Older(history)[j] = history[j]
        BY <2>1, Halves
      <4>. HIDE DEF c
      <4>2. i \in 1..c BY <2>1, <3>3, <3>4
      <4>. QED BY <3>3, <4>1, <4>2, SummaryIsMessage
    <3>5. CASE i > c
      <4>. HIDE DEF c
      <4>1. i - c \in 1..(Len(history) - c) /\ c + (i - c) = i BY <2>1, <3>3, <3>5
      <4>2. history'[(i - c) + 1] = history[i] BY <3>3, <4>1
      <4>3. (i - c) + 1 \in DOMAIN history' BY <3>3, <4>1
      <4>. QED BY <4>2, <4>3
    <3>. QED BY <2>1, <3>3, <3>4, <3>5
  <2>. QED BY <2>2, <2>3
<1>. QED BY <1>1, ConversationInit, ConversationNext, PTL DEF CompressorSpec, OlderTextQuoted

\* A cut and a new message keep the run unbroken: places are counted from its end.
LEMMA UnbrokenNext ==
  Conversation /\ Unbroken /\ [CompressorNext]_compressor_vars => Unbroken'
<1>. SUFFICES ASSUME Conversation, Unbroken, [CompressorNext]_compressor_vars,
                     NEW i \in DOMAIN history'
              PROVE  \/ history'[i].n = said' - (Len(history') - i)
                     \/ \A j \in 1..i : history'[j].kind = "summary"
  BY DEF Unbroken
<1>. /\ limits \in [max : Int, keep : Int] /\ limits.max \in Int
     /\ said \in Nat /\ history \in Seq(Messages) /\ Len(history) \in Nat
  BY DEF Conversation
<1>1. CASE history' = history /\ said' = said BY <1>1 DEF Unbroken
<1>2. ASSUME NEW kind \in {"text", "parts"}, Say(kind)
      PROVE  \/ history'[i].n = said' - (Len(history') - i)
             \/ \A j \in 1..i : history'[j].kind = "summary"
  <2>. DEFINE m == Message(said + 1, kind)
  <2>1. m \in Messages /\ m.n = said + 1 BY DEF Message, Messages
  <2>2. history' = Append(history, m) /\ said' = said + 1 BY <1>2 DEF Say
  <2>. HIDE DEF m
  <2>3. /\ history' \in Seq(Messages) /\ Len(history') = Len(history) + 1
        /\ history'[Len(history) + 1] = m
        /\ \A j \in 1..Len(history) : history'[j] = history[j]
    BY <2>1, <2>2
  <2>4. i \in 1..(Len(history) + 1) BY <2>3
  <2>5. CASE i = Len(history) + 1 BY <2>1, <2>2, <2>3, <2>5
  <2>6. CASE i # Len(history) + 1
    <3>1. i \in 1..Len(history) /\ history'[i] = history[i] BY <2>3, <2>4, <2>6
    <3>2. CASE history[i].n = said - (Len(history) - i)
      <4>1. said - (Len(history) - i) = (said + 1) - ((Len(history) + 1) - i) BY <3>1
      <4>. QED BY <2>2, <2>3, <3>1, <3>2, <4>1
    <3>3. CASE \A j \in 1..i : history[j].kind = "summary" BY <2>3, <3>1, <3>3
    <3>4. i \in DOMAIN history BY <3>1
    <3>5. \/ history[i].n = said - (Len(history) - i)
          \/ \A j \in 1..i : history[j].kind = "summary"
      BY <3>4 DEF Unbroken
    <3>. QED BY <3>2, <3>3, <3>5
  <2>. QED BY <2>5, <2>6
<1>3. ASSUME Compress, Len(history) > limits.max
      PROVE  \/ history'[i].n = said' - (Len(history') - i)
             \/ \A j \in 1..i : history'[j].kind = "summary"
  <2>. DEFINE c == Cut(history)
              d == Len(history) - c
  <2>1. history' = Compressed(history) /\ said' = said BY <1>3 DEF Compress
  <2>2. /\ c \in 0..Len(history) /\ Len(history') = d + 1 /\ history' \in Seq(Messages)
        /\ history'[1] = Summary(Older(history))
        /\ \A j \in 1..d : history'[j + 1] = history[c + j]
    BY <1>3, <2>1, CompressedParts, CutBounds
  <2>3. history'[1].kind = "summary" BY <2>2 DEF Summary
  <2>4. d \in Nat BY <2>2
  <2>. HIDE DEF c
  <2>5. i \in 1..(d + 1) BY <2>2, <2>4
  <2>6. CASE i = 1 BY <2>3, <2>6
  <2>7. CASE i # 1
    <3>. DEFINE k == i - 1
    <3>1. k \in 1..d /\ i = k + 1 /\ c + k \in 1..Len(history)
      <4>1. c \in 0..Len(history) BY <2>2
      <4>. QED BY ONLY <4>1, <2>4, <2>5, <2>7, Len(history) \in Nat
    <3>2. history'[i] = history[c + k] BY <2>2, <3>1
    <3>3. CASE history[c + k].n = said - (Len(history) - (c + k))
      <4>1. said - (Len(history) - (c + k)) = said - ((d + 1) - i) BY <2>2, <3>1
      <4>. QED BY <2>1, <2>2, <3>2, <3>3, <4>1
    <3>4. CASE \A j \in 1..(c + k) : history[j].kind = "summary"
      <4>1. ASSUME NEW j \in 1..i, j # 1 PROVE history'[j].kind = "summary"
        <5>1. /\ j - 1 \in 1..d /\ j = (j - 1) + 1
              /\ c + (j - 1) \in 1..(c + k)
          <6>1. c \in Nat /\ k \in 1..d /\ i = k + 1 BY <2>2, <3>1
          <6>2. j \in 2..(k + 1) BY ONLY <2>4, <4>1, <6>1
          <6>. HIDE DEF d
          <6>. QED BY ONLY <2>4, <6>1, <6>2
        <5>2. history'[(j - 1) + 1] = history[c + (j - 1)] BY <2>2, <5>1
        <5>. QED BY <3>4, <5>1, <5>2
      <4>. QED BY <2>3, <4>1
    <3>. HIDE DEF k
    <3>5. DOMAIN history = 1..Len(history) OBVIOUS
    <3>. QED BY <3>1, <3>3, <3>4, <3>5 DEF Unbroken
  <2>. QED BY <2>6, <2>7
<1>4. CASE Compress /\ Len(history) <= limits.max
  BY <1>1, <1>4 DEF Compress, Compressed
<1>. QED BY <1>1, <1>2, <1>3, <1>4 DEF CompressorNext, compressor_vars

\* The history stays its summaries followed by the latest messages without a gap,
\* for all limits, those included with which compressing shortens nothing.
THEOREM HistoryUnbroken == CompressorSpec => []Unbroken
<1>1. CompressorInit => Unbroken BY DEF CompressorInit, Unbroken
<1>. QED BY <1>1, ConversationInit, ConversationNext, UnbrokenNext, PTL DEF CompressorSpec
================================================================================

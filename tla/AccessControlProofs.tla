-------------------------- MODULE AccessControlProofs --------------------------
(***************************************************************************)
(* Tenant isolation of the protected requests, for any users, agencies,    *)
(* clients and slugs, under any commits of other sessions in between.      *)
(***************************************************************************)
EXTENDS AccessControl, TLAPS

Requests ==
  [pc : {"revoked?", "user", "agency", "client", "member", "role"},
   user : User, agency_slug : Slug,
   client_slug : {ClientSlug[c] : c \in Client} \cup {None},
   agency : Agency \cup {None}, client : Client \cup {None}]

\* What the handler knows at each await.  That OwnTenantOnly holds at the role
\* check rests on what was resolved before the membership check, which is why
\* it is not inductive.
Resolved ==
  InProgress =>
    /\ req \in Requests
    /\ req.pc \in {"client", "member", "role"} => req.agency \in Agency
    /\ req.pc \in {"revoked?", "user", "agency", "client"} => req.client = None
    /\ req.pc = "client" => req.client_slug # None
    /\ req.pc \in {"member", "role"} =>
         /\ req.client = None <=> req.client_slug = None
         /\ req.client # None => ClientAgency[req.client] = req.agency
    /\ req.pc = "role" => req.agency = UserAgency[req.user]

\* An answer ends the request.
LEMMA EndResolved ==
  ASSUME NEW answer \in Ended, Proceed(End(answer))
  PROVE  Resolved'
BY DEF Proceed, End, Ended, Resolved, InProgress

LEMMA ResolvedInit == Init => Resolved
BY DEF Init, End, Ended, Resolved, InProgress

LEMMA CommitResolved ==
  ASSUME Resolved, req' = req
  PROVE  Resolved'
BY DEF Resolved, InProgress, Requests

\* What a step of the handler does to the record, one step at a time.
LEMMA ResolvedHandler == Resolved /\ Handler => Resolved'
<1>. SUFFICES ASSUME Resolved, Handler PROVE Resolved' OBVIOUS
<1>. USE DEF Proceed, Resolved, InProgress, Requests
<1>1. ASSUME NEW u \in User, NEW s \in Slug,
             NEW cs \in {ClientSlug[c] : c \in Client} \cup {None},
             Start(u, s, cs)
      PROVE  Resolved'
  <2>1. CASE Proceed(End("401")) BY <2>1, EndResolved DEF Ended
  <2>2. CASE Proceed([pc |-> "revoked?", user |-> u, agency_slug |-> s,
                      client_slug |-> cs, agency |-> None, client |-> None])
    BY <2>2, TenantAssumption DEF Ended
  <2>. QED BY <1>1, <2>1, <2>2 DEF Start
<1>2. ASSUME req.pc \notin Ended, NEW answer \in {"401", "403", "404", "500"},
             Proceed(End(answer))
      PROVE  Resolved'
  BY <1>2, EndResolved DEF Ended
<1>3. CASE CheckRevoked
  <2>1. CASE Proceed([req EXCEPT !.pc = "user"])
    BY <1>3, <2>1 DEF CheckRevoked, Ended
  <2>. QED BY <1>2, <1>3, <2>1 DEF CheckRevoked, Ended
<1>4. CASE LoadUser
  <2>1. CASE Proceed([req EXCEPT !.pc = "agency"])
    BY <1>4, <2>1 DEF LoadUser, Ended
  <2>. QED BY <1>2, <1>4, <2>1 DEF LoadUser, Ended
<1>5. CASE LoadAgency
  <2>1. ASSUME NEW a \in AgencyWith(req.agency_slug),
               Proceed([req EXCEPT !.agency = a, !.pc =
                          IF req.client_slug = None THEN "member" ELSE "client"])
        PROVE  Resolved'
    <3>1. a \in Agency BY DEF AgencyWith
    <3>. QED BY <1>5, <2>1, <3>1, TenantAssumption DEF LoadAgency, Ended
  <2>. QED BY <1>2, <1>5, <2>1 DEF LoadAgency, Ended
<1>6. CASE LoadClient
  <2>1. ASSUME NEW c \in ClientWith(req.agency, req.client_slug),
               Proceed([req EXCEPT !.client = c, !.pc = "member"])
        PROVE  Resolved'
    <3>1. c \in Client /\ c # None /\ ClientAgency[c] = req.agency
      BY TenantAssumption DEF ClientWith
    <3>. QED BY <1>6, <2>1, <3>1 DEF LoadClient, Ended
  <2>. QED BY <1>2, <1>6, <2>1 DEF LoadClient, Ended
<1>7. CASE CheckMember
  <2>1. CASE SameAgency /\ Proceed([req EXCEPT !.pc = "role"])
    BY <1>7, <2>1 DEF CheckMember, SameAgency, Ended
  <2>. QED BY <1>2, <1>7, <2>1 DEF CheckMember, Ended
<1>8. CASE CheckRole BY <1>2, <1>8 DEF CheckRole, Ended
<1>9. CASE StoreFails BY <1>2, <1>9 DEF StoreFails, Ended
<1>. QED BY <1>1, <1>3, <1>4, <1>5, <1>6, <1>7, <1>8, <1>9 DEF Handler

LEMMA ResolvedNext == Resolved /\ [Next]_vars => Resolved'
<1>. SUFFICES ASSUME Resolved, [Next]_vars PROVE Resolved' OBVIOUS
<1>1. CASE Handler BY <1>1, ResolvedHandler
<1>2. CASE Others
  BY <1>2, CommitResolved
  DEF Others, Revoke, SetUser, SetAgency, Rename, SetClient, Commit
<1>3. CASE UNCHANGED vars BY <1>3, CommitResolved DEF vars
<1>. QED BY <1>1, <1>2, <1>3 DEF Next

\* A request reaches the role check only inside its user's own agency, and with
\* a client of that agency, whoever holds the slugs by then.
THEOREM TenantIsolation == Spec => []OwnTenantOnly
<1>1. Resolved => OwnTenantOnly
  BY DEF Resolved, OwnTenantOnly, InProgress, Ended
<1>. QED BY <1>1, ResolvedInit, ResolvedNext, PTL DEF Spec

--------------------------------------------------------------------------------
(***************************************************************************)
(* The tables.  Slugs stay unique because Rename asks for a free one and   *)
(* no row comes back from its deletion.                                    *)
(***************************************************************************)
Unique ==
  \A a, b \in Agency :
    slug[a] = slug[b] /\ "absent" \notin {agencies[a], agencies[b]} => a = b

Tables ==
  /\ users \in [User -> Status]
  /\ agencies \in [Agency -> Status]
  /\ slug \in [Agency -> Slug]
  /\ clients \in [Client -> Status]
  /\ revoked \subseteq User
  /\ Unique

LEMMA TablesInit == Init => Tables
BY DEF Init, Tables, Unique, Status

LEMMA TablesNext == Tables /\ [Next]_vars => Tables'
<1>. SUFFICES ASSUME Tables, [Next]_vars PROVE Tables' OBVIOUS
<1>. USE DEF Tables, Unique
<1>1. CASE UNCHANGED tables BY <1>1 DEF tables
<1>2. ASSUME NEW u \in User, Revoke(u) \/ \E status \in Status : SetUser(u, status)
      PROVE  Tables'
  BY <1>2 DEF Revoke, SetUser, Commit
<1>3. ASSUME NEW a \in Agency, NEW status \in Status, SetAgency(a, status)
      PROVE  Tables'
  <2>1. /\ users' \in [User -> Status] /\ clients' \in [Client -> Status]
        /\ agencies' \in [Agency -> Status]
        /\ slug' = slug /\ revoked' = revoked
    BY <1>3 DEF SetAgency, Commit, Status
  <2>2. \A b \in Agency : agencies'[b] # "absent" => agencies[b] # "absent"
    BY <1>3 DEF SetAgency
  <2>. QED BY <2>1, <2>2
<1>4. ASSUME NEW a \in Agency, NEW s \in Slug, Rename(a, s) PROVE Tables'
  BY <1>4 DEF Rename, Commit, FreeSlug, AgencyWith
<1>5. ASSUME NEW c \in Client, NEW status \in Status, SetClient(c, status)
      PROVE  Tables'
  BY <1>5 DEF SetClient, Commit
<1>6. CASE Handler
  BY <1>1, <1>6 DEF Handler, Start, CheckRevoked, LoadUser, LoadAgency, LoadClient,
                    CheckMember, CheckRole, StoreFails, Proceed
<1>7. CASE UNCHANGED vars BY <1>7 DEF vars
<1>. QED BY <1>2, <1>3, <1>4, <1>5, <1>6, <1>7 DEF Next, Others

\* Types, and one agency per slug whatever sessions rename and delete.
THEOREM TypeCorrect == Spec => []TypeOK
<1>1. Tables /\ Resolved => TypeOK
  BY DEF Tables, Unique, Resolved, Requests, TypeOK
<1>. QED BY <1>1, TablesInit, TablesNext, ResolvedInit, ResolvedNext, PTL DEF Spec

--------------------------------------------------------------------------------
(***************************************************************************)
(* The histories.  Every state of a request has been looked at: what holds *)
(* in it is in held, what does not is in broken.                           *)
(***************************************************************************)
Holding == {n \in Need : Holds(n, req)}

Observed == InProgress => Holding \subseteq held /\ Need \ Holding \subseteq broken

LEMMA StepObserves ==
  ASSUME [Next]_vars
  PROVE  Observe \/ UNCHANGED vars
BY DEF Next, Handler, Others, Start, CheckRevoked, LoadUser, LoadAgency, LoadClient,
       CheckMember, CheckRole, StoreFails, Proceed, Revoke, SetUser, SetAgency,
       Rename, SetClient, Commit

LEMMA ObservedNext ==
  ASSUME Observed, [Next]_vars
  PROVE  /\ Observed'
         /\ InProgress /\ InProgress' => held \subseteq held' /\ broken \subseteq broken'
<1>1. CASE Observe BY <1>1 DEF Observe, Observed, Holding
<1>2. CASE UNCHANGED vars
  <2>1. Holding' = Holding
    BY <1>2 DEF vars, Holding, Holds, AgencyWith, ClientWith
  <2>. QED BY <1>2, <2>1 DEF vars, Observed, InProgress
<1>. QED BY <1>1, <1>2, StepObserves

LEMMA ObservedInit == Init => Observed
BY DEF Init, Observed, InProgress, End, Ended

\* A need that held when its query ran is in held ever after.
Justified ==
  InProgress =>
    /\ req.pc # "revoked?" => "token" \in held
    /\ req.pc \notin {"revoked?", "user"} => "user" \in held
    /\ req.pc \in {"client", "member", "role"} =>
         /\ "agency" \in held
         /\ req.agency = UserAgency[req.user] => "member" \in held

\* The place of a request moves only by a step of the handler, whose query has
\* found what the next place needs.
LEMMA Advance ==
  ASSUME Resolved, [Next]_vars, InProgress', InProgress
  PROVE  \/ req' = req
         \/ /\ req.pc = "revoked?" /\ "token" \in Holding
            /\ req' = [req EXCEPT !.pc = "user"]
         \/ /\ req.pc = "user" /\ "user" \in Holding
            /\ req' = [req EXCEPT !.pc = "agency"]
         \/ /\ req.pc = "agency" /\ "agency" \in Holding
            /\ \E a \in AgencyWith(req.agency_slug) :
                 req' = [req EXCEPT !.agency = a, !.pc =
                           IF req.client_slug = None THEN "member" ELSE "client"]
         \/ /\ req.pc = "client"
            /\ \E c \in Client : req' = [req EXCEPT !.client = c, !.pc = "member"]
         \/ /\ req.pc = "member"
            /\ req' = [req EXCEPT !.pc = "role"]
<1>1. \A answer \in Ended : req' # End(answer) BY DEF InProgress, End
<1>2. CASE Others \/ UNCHANGED vars
  BY <1>2 DEF Others, Revoke, SetUser, SetAgency, Rename, SetClient, Commit, vars
<1>3. ASSUME NEW u, NEW s, NEW cs, Start(u, s, cs) PROVE FALSE
  BY <1>3 DEF Start
<1>4. CASE CheckRevoked
  BY <1>1, <1>4 DEF CheckRevoked, Proceed, Holding, Holds, Need, Ended
<1>5. CASE LoadUser
  BY <1>1, <1>5 DEF LoadUser, UserAccepted, Proceed, Holding, Holds, Need, Ended
<1>6. CASE LoadAgency
  <2>1. PICK a \in AgencyWith(req.agency_slug) :
          /\ Open(agencies[a])
          /\ req' = [req EXCEPT !.agency = a, !.pc =
                       IF req.client_slug = None THEN "member" ELSE "client"]
    BY <1>1, <1>6 DEF LoadAgency, Proceed, Ended
  <2>2. "agency" \in Holding BY <2>1 DEF Open, Holding, Holds, Need
  <2>. QED BY <1>6, <2>1, <2>2 DEF LoadAgency
<1>7. CASE LoadClient
  BY <1>1, <1>7 DEF LoadClient, Proceed, ClientWith, Ended
<1>8. CASE CheckMember
  BY <1>1, <1>8 DEF CheckMember, Proceed, Ended
<1>9. CASE CheckRole \/ StoreFails
  BY <1>1, <1>9 DEF CheckRole, StoreFails, Proceed, Ended
<1>. QED BY <1>2, <1>3, <1>4, <1>5, <1>6, <1>7, <1>8, <1>9 DEF Next, Handler

\* A request begins at its first question.
LEMMA Begins ==
  ASSUME [Next]_vars, ~InProgress, InProgress'
  PROVE  req'.pc = "revoked?"
<1>1. \A answer \in Ended : req' # End(answer) BY DEF InProgress, End
<1>2. req' # req BY DEF InProgress
<1>3. CASE Handler
  <2>1. PICK u, s, cs : Start(u, s, cs)
    BY <1>3 DEF InProgress, Ended, Handler, CheckRevoked, LoadUser, LoadAgency,
                LoadClient, CheckMember, CheckRole, StoreFails
  <2>. QED BY <1>1, <2>1 DEF Start, Proceed, Ended
<1>. QED BY <1>2, <1>3 DEF Next, Others, Revoke, SetUser, SetAgency, Rename,
                          SetClient, Commit, vars

LEMMA JustifiedNext ==
  ASSUME Resolved, Observed, Justified, [Next]_vars
  PROVE  Justified'
<1>. SUFFICES ASSUME InProgress'
              PROVE  /\ req'.pc # "revoked?" => "token" \in held'
                     /\ req'.pc \notin {"revoked?", "user"} => "user" \in held'
                     /\ req'.pc \in {"client", "member", "role"} =>
                          /\ "agency" \in held'
                          /\ req'.agency = UserAgency[req'.user] => "member" \in held'
  BY DEF Justified
<1>1. CASE ~InProgress BY <1>1, Begins
<1>2. CASE InProgress
  <2>1. held \subseteq held' /\ Holding \subseteq held
    BY <1>2, ObservedNext DEF Observed
  <2>2. req \in Requests BY <1>2 DEF Resolved
  <2>3. CASE req' = req BY <1>2, <2>1, <2>3 DEF Justified
  <2>4. CASE /\ req.pc = "revoked?" /\ "token" \in Holding
             /\ req' = [req EXCEPT !.pc = "user"]
    BY <2>1, <2>2, <2>4 DEF Requests
  <2>5. CASE /\ req.pc = "user" /\ "user" \in Holding
             /\ req' = [req EXCEPT !.pc = "agency"]
    BY <1>2, <2>1, <2>2, <2>5 DEF Requests, Justified
  <2>6. ASSUME req.pc = "agency", "agency" \in Holding,
               NEW a \in AgencyWith(req.agency_slug),
               req' = [req EXCEPT !.agency = a, !.pc =
                         IF req.client_slug = None THEN "member" ELSE "client"]
        PROVE  /\ {"token", "user", "agency"} \subseteq held'
               /\ req'.agency = UserAgency[req'.user] => "member" \in held'
    <3>1. req'.user = req.user /\ req'.agency = a BY <2>2, <2>6 DEF Requests
    <3>2. UserAgency[req.user] = a => "member" \in Holding
      BY <2>6 DEF Holding, Holds, Need
    <3>. QED BY <1>2, <2>1, <2>6, <3>1, <3>2 DEF Justified
  <2>7. ASSUME NEW c \in Client, req.pc = "client",
               req' = [req EXCEPT !.client = c, !.pc = "member"]
        PROVE  /\ {"token", "user", "agency"} \subseteq held'
               /\ req'.agency = UserAgency[req'.user] => "member" \in held'
    BY <1>2, <2>1, <2>2, <2>7 DEF Requests, Justified
  <2>8. CASE req.pc = "member" /\ req' = [req EXCEPT !.pc = "role"]
    BY <1>2, <2>1, <2>2, <2>8 DEF Requests, Justified
  <2>. QED BY <1>2, <2>3, <2>4, <2>5, <2>6, <2>7, <2>8, Advance
<1>. QED BY <1>1, <1>2

\* No request is let through that lacked one of its needs all the time.
THEOREM Admission == Spec => []AdmissionJustified
<1>1. Init => Justified BY DEF Init, Justified, InProgress, End, Ended
<1>2. Resolved /\ Justified => AdmissionJustified
  BY DEF Resolved, Justified, AdmissionJustified, InProgress, Ended, Need
<1>3. Resolved /\ Observed /\ Justified /\ [Next]_vars
        => Resolved' /\ Observed' /\ Justified'
  BY ResolvedNext, ObservedNext, JustifiedNext
<1>. QED BY <1>1, <1>2, <1>3, ResolvedInit, ObservedInit, PTL DEF Spec

--------------------------------------------------------------------------------
(***************************************************************************)
(* Denials.  While nothing has been broken, the slug of the request has    *)
(* belonged to its user's agency all along, so this is the agency that     *)
(* LoadAgency found.                                                       *)
(***************************************************************************)
Loaded ==
  InProgress /\ broken = {} /\ req.pc \in {"client", "member"}
    => req.agency = UserAgency[req.user]

\* What the queries of a request find as long as nothing has been broken.
LEMMA AllHold ==
  ASSUME Tables, Resolved, Observed, InProgress, broken = {}
  PROVE  /\ req.user \notin revoked
         /\ users[req.user] = "active"
         /\ AgencyWith(req.agency_slug) = {UserAgency[req.user]}
         /\ agencies[UserAgency[req.user]] = "active"
         /\ req.client_slug # None =>
              LET found == ClientWith(UserAgency[req.user], req.client_slug)
              IN  found # {} /\ \A c \in found : clients[c] = "active"
<1>1. req \in Requests BY DEF Resolved
<1>2. req.user \in User /\ UserAgency[req.user] \in Agency
  BY <1>1, TenantAssumption DEF Requests
<1>3. Need \subseteq Holding BY DEF Observed
<1>4. /\ Holds("token", req) /\ Holds("user", req) /\ Holds("agency", req)
      /\ Holds("member", req) /\ Holds("client", req)
  BY <1>3 DEF Need, Holding
<1>5. UserAgency[req.user] \in AgencyWith(req.agency_slug) BY <1>4 DEF Holds
<1>6. \A a, b \in AgencyWith(req.agency_slug) : a = b
  BY DEF AgencyWith, Tables, Unique
<1>7. AgencyWith(req.agency_slug) = {UserAgency[req.user]} BY <1>5, <1>6
<1>8. agencies[UserAgency[req.user]] = "active" BY <1>4, <1>7 DEF Holds
<1>9. ASSUME req.client_slug # None
      PROVE  LET found == ClientWith(UserAgency[req.user], req.client_slug)
             IN  found # {} /\ \A c \in found : clients[c] = "active"
  <2>1. PICK c \in ClientWith(UserAgency[req.user], req.client_slug) :
          clients[c] = "active"
    BY <1>4, <1>7, <1>9 DEF Holds
  <2>2. \A d \in ClientWith(UserAgency[req.user], req.client_slug) : d = c
    BY TenantAssumption DEF ClientWith
  <2>. QED BY <2>1, <2>2
<1>10. req.user \notin revoked /\ users[req.user] = "active" BY <1>4 DEF Holds
<1>. QED BY <1>7, <1>8, <1>9, <1>10

LEMMA LoadedNext ==
  ASSUME Tables, Resolved, Observed, Loaded, [Next]_vars
  PROVE  Loaded'
<1>. SUFFICES ASSUME InProgress', broken' = {}, req'.pc \in {"client", "member"}
              PROVE  req'.agency = UserAgency[req'.user]
  BY DEF Loaded
<1>1. InProgress BY Begins
<1>2. broken = {} BY <1>1, ObservedNext
<1>3. req \in Requests BY <1>1 DEF Resolved
<1>4. CASE req' = req BY <1>1, <1>2, <1>4 DEF Loaded
<1>5. ASSUME NEW a \in AgencyWith(req.agency_slug),
             req' = [req EXCEPT !.agency = a, !.pc =
                       IF req.client_slug = None THEN "member" ELSE "client"]
      PROVE  req'.agency = UserAgency[req'.user]
  <2>1. req'.agency = a /\ req'.user = req.user BY <1>3, <1>5 DEF Requests
  <2>. QED BY <1>1, <1>2, <1>5, <2>1, AllHold
<1>6. ASSUME NEW c \in Client, req.pc = "client",
             req' = [req EXCEPT !.client = c, !.pc = "member"]
      PROVE  req'.agency = UserAgency[req'.user]
  BY <1>1, <1>2, <1>3, <1>6 DEF Requests, Loaded
<1>7. ASSUME NEW p \in {"user", "agency", "role"}, req' = [req EXCEPT !.pc = p]
      PROVE  FALSE
  BY <1>3, <1>7 DEF Requests
<1>. QED BY <1>1, <1>4, <1>5, <1>6, <1>7, Advance

\* Each query denies only for what is not as it should be.
LEMMA DenialReason ==
  ASSUME Tables, Resolved, Observed, Loaded, Next,
         InProgress, req'.pc \in {"401", "403", "404"}
  PROVE  broken # {}
<1>. SUFFICES ASSUME broken = {} PROVE FALSE OBVIOUS
<1>. DEFINE home == UserAgency[req.user]
<1>1. req \in Requests BY DEF Resolved
<1>2. /\ req.user \notin revoked
      /\ users[req.user] = "active"
      /\ AgencyWith(req.agency_slug) = {home}
      /\ agencies[home] = "active"
      /\ req.client_slug # None =>
           LET found == ClientWith(home, req.client_slug)
           IN  found # {} /\ \A c \in found : clients[c] = "active"
  BY AllHold
<1>. HIDE DEF home
<1>3. \A p \in {"user", "agency", "client", "member", "role"} :
        req' # [req EXCEPT !.pc = p]
  BY <1>1 DEF Requests
<1>4. ASSUME NEW u, NEW s, NEW cs, Start(u, s, cs) PROVE FALSE
  BY <1>4 DEF Start
<1>5. CASE CheckRevoked BY <1>2, <1>3, <1>5 DEF CheckRevoked, Proceed
<1>6. CASE LoadUser BY <1>2, <1>3, <1>6 DEF LoadUser, UserAccepted, Proceed
<1>7. CASE LoadAgency
  <2>1. req' = [req EXCEPT !.agency = home, !.pc =
                  IF req.client_slug = None THEN "member" ELSE "client"]
    BY <1>2, <1>7 DEF LoadAgency, Open, Proceed
  <2>. QED BY <1>1, <2>1 DEF Requests
<1>8. CASE LoadClient
  <2>1. req.agency = home BY <1>8 DEF LoadClient, Loaded, home
  <2>2. req.client_slug # None BY <1>8 DEF LoadClient, Resolved
  <2>3. PICK c : req' = [req EXCEPT !.client = c, !.pc = "member"]
    BY <1>2, <1>8, <2>1, <2>2 DEF LoadClient, Open, Proceed
  <2>. QED BY <1>1, <2>3 DEF Requests
<1>9. CASE CheckMember
  <2>1. SameAgency BY <1>9 DEF CheckMember, Loaded, SameAgency
  <2>. QED BY <1>3, <1>9, <2>1 DEF CheckMember, Proceed
<1>10. CASE CheckRole \/ StoreFails
  BY <1>10 DEF CheckRole, StoreFails, Proceed, End
<1>11. CASE Others
  <2>1. req' = req
    BY <1>11 DEF Others, Revoke, SetUser, SetAgency, Rename, SetClient, Commit
  <2>. QED BY <2>1 DEF InProgress, Ended
<1>. QED BY <1>4, <1>5, <1>6, <1>7, <1>8, <1>9, <1>10, <1>11 DEF Next, Handler

\* 401, 403 and 404 always have a reason in the tables.
THEOREM Denial == Spec => DenialJustified
<1>1. Init => Loaded BY DEF Init, Loaded, InProgress, End, Ended
<1>2. Tables /\ Resolved /\ Observed /\ Loaded /\ [Next]_vars
        => Tables' /\ Resolved' /\ Observed' /\ Loaded'
  BY TablesNext, ResolvedNext, ObservedNext, LoadedNext
<1>3. Tables /\ Resolved /\ Observed /\ Loaded /\ [Next]_vars
        => [InProgress /\ req'.pc \in {"401", "403", "404"} => broken # {}]_vars
  BY DenialReason
<1>. QED BY <1>1, <1>2, <1>3, TablesInit, ResolvedInit, ObservedInit, PTL
     DEF Spec, DenialJustified
================================================================================

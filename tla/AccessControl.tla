----------------------------- MODULE AccessControl -----------------------------
(***************************************************************************)
(* A protected request: get_current_user, get_tenant_context and the       *)
(* checker of require_role (vills/security/rbac.py) over TenantResolver    *)
(* (vills/tenancy/resolver.py).  Each query is a statement of its own,     *)
(* under READ COMMITTED, and other sessions commit changes to the tables   *)
(* between them.  Agencies and clients are found by slug: a slug can be    *)
(* given to another row, an id cannot.  AuthTokens models the tokens; here *)
(* a token that decodes is good until it is revoked.                       *)
(***************************************************************************)
EXTENDS Naturals

CONSTANTS
  User, Agency, Client,      \* ids of rows
  Slug,                      \* slugs of agencies
  UserAgency, ClientAgency,  \* their agency_id, which nothing updates
  ClientSlug,                \* client -> its slug
  None                       \* no client_slug, nothing resolved yet

ASSUME TenantAssumption ==
  /\ UserAgency \in [User -> Agency]
  /\ ClientAgency \in [Client -> Agency]
  /\ \A c, d \in Client :  \* uq_agency_clients_agency_id_slug
       ClientAgency[c] = ClientAgency[d] /\ ClientSlug[c] = ClientSlug[d] => c = d
  /\ None \notin Agency \cup Client
  /\ \A c \in Client : ClientSlug[c] # None

VARIABLES
  users,    \* user -> Status of its row, is_active as "active"
  agencies, \* agency -> Status of its row
  slug,     \* agency -> its slug
  clients,  \* client -> Status of its row
  revoked,  \* the users whose access token is on the revocation list
  req,      \* the request
  held,     \* what has held at some time of the request (history)
  broken    \* what has failed to hold at some time of the request (history)

tables == <<users, agencies, slug, clients, revoked>>
vars == <<users, agencies, slug, clients, revoked, req, held, broken>>

\* "suspended" stands for ARCHIVED and for a user that is not is_active too.
Status == {"active", "suspended", "absent"}

Ended == {"idle", "401", "403", "404", "500"}
End(answer) == [pc |-> answer]
InProgress == req.pc \notin Ended

AgencyWith(s) == {a \in Agency : agencies[a] # "absent" /\ slug[a] = s}
MutClientWith(a, s) ==
  {c \in Client : clients[c] # "absent" /\ ClientSlug[c] = s}
ClientWith(a, s) ==
  {c \in Client : /\ clients[c] # "absent"
                  /\ ClientAgency[c] = a
                  /\ ClientSlug[c] = s}

--------------------------------------------------------------------------------
\* What a request needs, as the tables say at one moment.
Need == {"token", "user", "agency", "member", "client"}

Holds(need, q) ==
  CASE need = "token"  -> q.user \notin revoked
    [] need = "user"   -> users[q.user] = "active"
    [] need = "agency" -> \E a \in AgencyWith(q.agency_slug) :
                            agencies[a] = "active"
    [] need = "member" -> UserAgency[q.user] \in AgencyWith(q.agency_slug)
    [] need = "client" -> \/ q.client_slug = None
                          \/ \E a \in AgencyWith(q.agency_slug) :
                               \E c \in ClientWith(a, q.client_slug) :
                                 clients[c] = "active"

\* The two histories start with the request and end with it.
Observe ==
  LET holding == {n \in Need : Holds(n, req)'}
  IN  IF InProgress'
      THEN /\ held' = (IF InProgress THEN held ELSE {}) \cup holding
           /\ broken' = (IF InProgress THEN broken ELSE {}) \cup (Need \ holding)
      ELSE held' = {} /\ broken' = {}

--------------------------------------------------------------------------------
\* The handler.

Init ==
  /\ users = [u \in User |-> "active"]
  /\ agencies = [a \in Agency |-> "active"]
  /\ slug \in [Agency -> Slug]
  /\ \A a, b \in Agency : slug[a] = slug[b] => a = b
  /\ clients = [c \in Client |-> "active"]
  /\ revoked = {}
  /\ req = End("idle")
  /\ held = {}
  /\ broken = {}

Proceed(new) == req' = new /\ UNCHANGED tables /\ Observe

\* A request with a token of user u arrives; if the token does not decode, or
\* is no access token, the answer is 401 without a look at any table.
Start(u, s, cs) ==
  /\ ~InProgress
  /\ \/ Proceed([pc |-> "revoked?", user |-> u, agency_slug |-> s,
                 client_slug |-> cs, agency |-> None, client |-> None])
     \/ Proceed(End("401"))

\* await is_revoked(jti)
CheckRevoked ==
  /\ req.pc = "revoked?"
  /\ \/ req.user \in revoked /\ Proceed(End("401"))
     \/ req.user \notin revoked /\ Proceed([req EXCEPT !.pc = "user"])

\* await session.get(AgencyUser, ...)
UserAccepted(u) == users[u] = "active"

LoadUser ==
  /\ req.pc = "user"
  /\ \/ ~UserAccepted(req.user) /\ Proceed(End("401"))
     \/ UserAccepted(req.user) /\ Proceed([req EXCEPT !.pc = "agency"])

\* resolve(): the agency, found by its slug.
MutOpen(status) == status # "absent"
Open(status) == status = "active"

LoadAgency ==
  /\ req.pc = "agency"
  /\ \/ AgencyWith(req.agency_slug) = {} /\ Proceed(End("404"))
     \/ \E a \in AgencyWith(req.agency_slug) :
          \/ ~Open(agencies[a]) /\ Proceed(End("403"))
          \/ /\ Open(agencies[a])
             /\ Proceed([req EXCEPT !.agency = a, !.pc =
                  IF req.client_slug = None THEN "member" ELSE "client"])

\* resolve(): the client, found by its slug among those of that agency.
LoadClient ==
  /\ req.pc = "client"
  /\ LET found == ClientWith(req.agency, req.client_slug)
     IN  \/ found = {} /\ Proceed(End("404"))
         \/ \E c \in found :
              \/ ~Open(clients[c]) /\ Proceed(End("403"))
              \/ /\ Open(clients[c])
                 /\ Proceed([req EXCEPT !.client = c, !.pc = "member"])

\* user.agency_id != tenant.agency_id, on what was loaded before.
MutSameAgency == slug[UserAgency[req.user]] = req.agency_slug
SameAgency == UserAgency[req.user] = req.agency

CheckMember ==
  /\ req.pc = "member"
  /\ \/ ~SameAgency /\ Proceed(End("403"))
     \/ SameAgency /\ Proceed([req EXCEPT !.pc = "role"])

\* user.role.satisfies(minimum): the column is a String, so the role of a
\* loaded row is a str, which has no satisfies, whatever it and the minimum
\* are: AttributeError.
CheckRole ==
  /\ req.pc = "role"
  /\ Proceed(End("500"))

\* Redis or the database raises while the request waits for it.
StoreFails ==
  /\ req.pc \in {"revoked?", "user", "agency", "client"}
  /\ Proceed(End("500"))

--------------------------------------------------------------------------------
\* Other sessions, as far as the schema lets them.

Commit(changed) == UNCHANGED <<changed, req>> /\ Observe

\* Logout of the access token.
Revoke(u) ==
  /\ revoked' = revoked \cup {u}
  /\ Commit(<<users, agencies, slug, clients>>)

SetUser(u, status) ==
  /\ users[u] # "absent"
  /\ users' = [users EXCEPT ![u] = status]
  /\ Commit(<<agencies, slug, clients, revoked>>)

\* Deleting an agency deletes its users and its clients.
SetAgency(a, status) ==
  /\ agencies[a] # "absent"
  /\ agencies' = [agencies EXCEPT ![a] = status]
  /\ users' = [u \in User |-> IF status = "absent" /\ UserAgency[u] = a
                              THEN "absent" ELSE users[u]]
  /\ clients' = [c \in Client |-> IF status = "absent" /\ ClientAgency[c] = a
                                  THEN "absent" ELSE clients[c]]
  /\ Commit(<<slug, revoked>>)

\* The slug of an agency is unique.
MutFreeSlug(s) == TRUE
FreeSlug(s) == AgencyWith(s) = {}

Rename(a, s) ==
  /\ agencies[a] # "absent"
  /\ FreeSlug(s)
  /\ slug' = [slug EXCEPT ![a] = s]
  /\ Commit(<<users, agencies, clients, revoked>>)

SetClient(c, status) ==
  /\ clients[c] # "absent"
  /\ clients' = [clients EXCEPT ![c] = status]
  /\ Commit(<<users, agencies, slug, revoked>>)

Handler ==
  \/ \E u \in User, s \in Slug, cs \in {ClientSlug[c] : c \in Client} \cup {None} :
       Start(u, s, cs)
  \/ CheckRevoked \/ LoadUser \/ LoadAgency \/ LoadClient
  \/ CheckMember \/ CheckRole \/ StoreFails

Others ==
  \/ \E u \in User : Revoke(u) \/ \E status \in Status : SetUser(u, status)
  \/ \E a \in Agency : \/ \E status \in Status : SetAgency(a, status)
                       \/ \E s \in Slug : Rename(a, s)
  \/ \E c \in Client, status \in Status : SetClient(c, status)

Next == Handler \/ Others

Spec == Init /\ [][Next]_vars

--------------------------------------------------------------------------------
\* Properties.

\* The tables and the request keep their types, and no two agencies that exist
\* share a slug, so that scalar_one_or_none never finds two rows.
TypeOK ==
  /\ users \in [User -> Status]
  /\ agencies \in [Agency -> Status]
  /\ slug \in [Agency -> Slug]
  /\ clients \in [Client -> Status]
  /\ revoked \subseteq User
  /\ \A a, b \in Agency :
       slug[a] = slug[b] /\ "absent" \notin {agencies[a], agencies[b]} => a = b
  /\ InProgress =>
       req \in [pc : {"revoked?", "user", "agency", "client", "member", "role"},
                user : User, agency_slug : Slug,
                client_slug : {ClientSlug[c] : c \in Client} \cup {None},
                agency : Agency \cup {None}, client : Client \cup {None}]

\* rbac.py:3-5: a request gets to the role check only inside its user's own
\* agency, also when slugs changed hands between the queries, and its client
\* is one of that agency's clients and carries the slug it asked for.
OwnTenantOnly ==
  req.pc = "role" =>
    /\ req.agency = UserAgency[req.user]
    /\ req.client # None => ClientAgency[req.client] = req.agency
    /\ (req.client = None <=> req.client_slug = None)

\* Nothing that was closed from the request's first step to its last is let
\* through: each of the four needs has held at some time of the request.
AdmissionJustified ==
  req.pc = "role" => Need \ {"client"} \subseteq held

\* And nobody is turned away without a reason: of the answers 401, 403 and
\* 404, none is given to a request whose needs have all held all the time.
DenialJustified ==
  [][InProgress /\ req'.pc \in {"401", "403", "404"} => broken # {}]_vars

\* rbac.py:65, require_role "exige papel mínimo E mesma agência": the role
\* check decides, by an admission or by 403.
RoleCheckDecides == [][req.pc = "role" => req'.pc # "500"]_vars
================================================================================

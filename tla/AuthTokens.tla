------------------------------- MODULE AuthTokens -------------------------------
(***************************************************************************)
(* The life of the JWTs: login, refresh and logout of vills/api/v1/auth.py *)
(* and the token half of get_current_user (vills/security/rbac.py), over   *)
(* the revocation list in Redis (vills/security/auth.py).  A handler stops *)
(* at every await; other handlers, the clock and the users table move in   *)
(* between.  exp has whole seconds and Redis keys expire on the            *)
(* millisecond: now counts half seconds, so that truncation shows.         *)
(***************************************************************************)
EXTENDS Integers, Sequences

CONSTANTS
  User, Request,            \* rows of agency_users; requests in progress
  AccessLife, RefreshLife,  \* lifetimes in seconds
  MaxTokens, Horizon        \* bounds: tokens ever issued, half seconds

ASSUME TokenAssumption ==
  /\ AccessLife \in Nat
  /\ RefreshLife \in Nat
  /\ MaxTokens \in Nat
  /\ Horizon \in Nat

VARIABLES
  now,     \* the time in half seconds, shared by the API and Redis
  tokens,  \* every token issued so far; its index is its jti
  listed,  \* jti -> when its "revoked_token:" key expires, 0 if never set
  active,  \* user -> there is a row with is_active
  req      \* request -> its progress

vars == <<now, tokens, listed, active, req>>

Jti == 1..MaxTokens

\* session: the second of the login this token descends from (history).
Token(u, t, e, s) == [user |-> u, type |-> t, exp |-> e, session |-> s]

\* A request that waits at an await.  user: whose row is read; jti: the token
\* presented, 0 if none; ttl: the argument of revoke_token; ever_active: the
\* user was active at some time since the request began (history).
Idle == [op |-> "none", pc |-> "idle"]
Waiting(o, p, u, j, t) ==
  [op |-> o, pc |-> p, user |-> u, jti |-> j, ttl |-> t,
   ever_active |-> active[u]]

Begin(r, waiting) ==
  /\ req[r] = Idle
  /\ req' = [req EXCEPT ![r] = waiting]

Goto(r, p) == req' = [req EXCEPT ![r].pc = p]
Finish(r) == req' = [req EXCEPT ![r] = Idle]

--------------------------------------------------------------------------------
\* jwt.encode keeps the whole seconds of exp = now + lifetime.
Expiry(life) == now \div 2 + life

\* decode_token: python-jose raises once the whole second of now is past exp.
Accepted(j) == now \div 2 <= tokens[j].exp

\* max(int(exp - now), 1) of logout, in seconds.
MutUnclampedTtl(j) == (2 * tokens[j].exp - now) \div 2
MutFixedTtl(j) == 1
RevocationTtl(j) ==
  LET left == (2 * tokens[j].exp - now) \div 2
  IN  IF left > 1 THEN left ELSE 1

\* is_revoked: the key exists.
IsRevoked(j) == now < listed[j]

\* The type claim an endpoint asks for.
MutHasType(j, t) == TRUE
HasType(j, t) == tokens[j].type = t

\* user is None or not user.is_active
MutRowRefused(u) == FALSE
RowRefused(u) == ~active[u]

--------------------------------------------------------------------------------
Init ==
  /\ now = 0
  /\ tokens = <<>>
  /\ listed = [j \in Jti |-> 0]
  /\ active = [u \in User |-> TRUE]
  /\ req = [r \in Request |-> Idle]

\* POST /auth/login with the right password; with a wrong one nothing happens.
Login(r, u) ==
  /\ Begin(r, Waiting("login", "row", u, 0, 0))
  /\ UNCHANGED <<now, tokens, listed, active>>

\* POST /auth/refresh up to the await of the row; is_revoked is not asked.  A
\* request refused here, as in the next two, has changed nothing.
Refresh(r, j) ==
  /\ Accepted(j)
  /\ HasType(j, "refresh")
  /\ Begin(r, Waiting("refresh", "row", tokens[j].user, j, 0))
  /\ UNCHANGED <<now, tokens, listed, active>>

\* A protected request up to the await of is_revoked.
Check(r, j) ==
  /\ Accepted(j)
  /\ HasType(j, "access")
  /\ Begin(r, Waiting("check", "revoked?", tokens[j].user, j, 0))
  /\ UNCHANGED <<now, tokens, listed, active>>

\* POST /auth/logout up to the await of revoke_token, whatever the token's type.
Logout(r, j) ==
  /\ Accepted(j)
  /\ Begin(r, Waiting("logout", "revoking", tokens[j].user, j, RevocationTtl(j)))
  /\ UNCHANGED <<now, tokens, listed, active>>

\* Redis answers is_revoked.
AskRevoked(r) ==
  /\ req[r].pc = "revoked?"
  /\ IF IsRevoked(req[r].jti) THEN Finish(r) ELSE Goto(r, "row")
  /\ UNCHANGED <<now, tokens, listed, active>>

\* Redis executes SETEX.
Revoke(r) ==
  /\ req[r].pc = "revoking"
  /\ listed' = [listed EXCEPT ![req[r].jti] = now + 2 * req[r].ttl]
  /\ Finish(r)
  /\ UNCHANGED <<now, tokens, active>>

\* Redis does not answer: the handler ends with an error, nothing is revoked.
RedisFails(r) ==
  /\ req[r].pc \in {"revoked?", "revoking"}
  /\ Finish(r)
  /\ UNCHANGED <<now, tokens, listed, active>>

\* The database answers with the user's row.
ReadRow(r) ==
  /\ req[r].pc = "row"
  /\ \/ RowRefused(req[r].user) /\ Finish(r)
     \/ ~RowRefused(req[r].user) /\ Goto(r, "granted")
  /\ UNCHANGED <<now, tokens, listed, active>>

\* A protected request goes on with its user (AccessControl).
Authenticated(r) ==
  /\ req[r].pc = "granted"
  /\ req[r].op = "check"
  /\ Finish(r)
  /\ UNCHANGED <<now, tokens, listed, active>>

\* Login mints both tokens, refresh an access token, from the row they read.
Mint(r) ==
  /\ req[r].pc = "granted"
  /\ LET u == req[r].user
         Access(s) == Token(u, "access", Expiry(AccessLife), s)
     IN  \/ /\ req[r].op = "login"
            /\ Len(tokens) + 2 <= MaxTokens
            /\ tokens' = tokens \o <<Access(now \div 2),
                 Token(u, "refresh", Expiry(RefreshLife), now \div 2)>>
         \/ /\ req[r].op = "refresh"
            /\ Len(tokens) < MaxTokens
            /\ tokens' = Append(tokens, Access(tokens[req[r].jti].session))
  /\ Finish(r)
  /\ UNCHANGED <<now, listed, active>>

\* An administrator deactivates a user, or activates it again.
SetActive(u) ==
  /\ active' = [active EXCEPT ![u] = ~@]
  /\ req' = [r \in Request |->
       IF req[r] # Idle /\ req[r].user = u THEN [req[r] EXCEPT !.ever_active = TRUE]
       ELSE req[r]]
  /\ UNCHANGED <<now, tokens, listed>>

Tick ==
  /\ now < Horizon
  /\ now' = now + 1
  /\ UNCHANGED <<tokens, listed, active, req>>

Next ==
  \/ Tick
  \/ \E u \in User : SetActive(u)
  \/ \E r \in Request :
       \/ \E u \in User : Login(r, u)
       \/ \E j \in 1..Len(tokens) :
            Refresh(r, j) \/ Check(r, j) \/ Logout(r, j)
       \/ AskRevoked(r) \/ Revoke(r) \/ RedisFails(r) \/ ReadRow(r)
       \/ Authenticated(r) \/ Mint(r)

Spec == Init /\ [][Next]_vars

--------------------------------------------------------------------------------
\* Properties.

\* Tokens, their expiries, the revocation list and the requests keep their
\* types, and no more than MaxTokens are ever issued.
TypeOK ==
  /\ now \in 0..Horizon
  /\ tokens \in Seq([user : User, type : {"access", "refresh"},
                     exp : Nat, session : Nat])
  /\ Len(tokens) <= MaxTokens
  /\ listed \in [Jti -> Nat]
  /\ active \in [User -> BOOLEAN]
  /\ req \in [Request -> {Idle} \cup
       [op : {"login", "refresh", "check", "logout"},
        pc : {"revoked?", "revoking", "row", "granted"},
        user : User, jti : 0..Len(tokens), ttl : Nat, ever_active : BOOLEAN]]
  /\ \A r \in Request :
       req[r] # Idle => (req[r].op = "login" <=> req[r].jti = 0)

\* Once logout has listed an access token, is_revoked lets it pass only in the
\* last second before exp or later: int() and the whole seconds of exp may
\* free the key that much too early, never more.
RevokedUntilLastSecond ==
  [][\A r \in Request :
       req[r].pc = "revoked?" /\ req'[r].pc = "row" /\ listed[req[r].jti] # 0
         => now >= 2 * tokens[req[r].jti].exp - 1]_vars

\* The revocation list empties itself: however late Redis executes a SETEX, its
\* key is gone when the longest-lived token that could be issued now is.
Longest == CHOOSE n \in {AccessLife, RefreshLife, 1} :
             \A m \in {AccessLife, RefreshLife, 1} : m <= n
ListIsTemporary == \A j \in Jti : listed[j] <= now + 2 * Longest

\* A session ends: no refresh is taken after the lifetime of the refresh token
\* of the login it descends from, by whatever chain of tokens.
SessionBounded ==
  [][\A r \in Request :
       req[r] = Idle /\ req'[r].op = "refresh"
         => now \div 2 <= tokens[req'[r].jti].session + RefreshLife]_vars

\* A user who is not active at any time of a request gets nothing from it: no
\* token and no access.
InactiveGetsNothing ==
  \A r \in Request : req[r].pc = "granted" => req[r].ever_active

\* security/auth.py:1 and api/v1/auth.py:99 call the refresh token revocable:
\* while it is on the revocation list, a refresh does not take it.
RevokedRefreshRefused ==
  [][\A r \in Request :
       req[r] = Idle /\ req'[r].op = "refresh"
         => ~(now < listed[req'[r].jti])]_vars
================================================================================

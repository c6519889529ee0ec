---------------------------- MODULE AuthTokensProofs ----------------------------
(***************************************************************************)
(* The life of the tokens, for any users, lifetimes and numbers of         *)
(* requests: what a session, a revocation and a deactivation guarantee.    *)
(***************************************************************************)
EXTENDS AuthTokens, SequenceTheorems, TLAPS

TokenRecord == [user : User, type : {"access", "refresh"}, exp : Nat, session : Nat]

\* A request in progress while n tokens have been issued.
Wait(n) ==
  [op : {"login", "refresh", "check", "logout"},
   pc : {"revoked?", "revoking", "row", "granted"},
   user : User, jti : 0..n, ttl : Nat, ever_active : BOOLEAN]

\* TypeOK for one request, with the places at which each endpoint may wait.
Placed(q, n) ==
  q = Idle \/ /\ q \in Wait(n)
              /\ q.op = "login" <=> q.jti = 0
              /\ q.pc \in {"revoked?", "revoking"} => q.op # "login"

Typed ==
  /\ now \in Nat /\ now <= Horizon
  /\ tokens \in Seq(TokenRecord)
  /\ Len(tokens) <= MaxTokens
  /\ listed \in [Jti -> Nat]
  /\ active \in [User -> BOOLEAN]
  /\ req = [r \in Request |-> req[r]]
  /\ \A r \in Request : Placed(req[r], Len(tokens))

LEMMA IdleDiffers ==
  ASSUME NEW n, NEW q \in Wait(n)
  PROVE  q # Idle
<1>1. q.pc # "idle" BY DEF Wait
<1>2. Idle.pc = "idle" BY DEF Idle
<1>. QED BY <1>1, <1>2

LEMMA TypedTypes == Typed => TypeOK
<1>. SUFFICES ASSUME Typed PROVE TypeOK OBVIOUS
<1>1. now \in 0..Horizon BY TokenAssumption DEF Typed
<1>2. ASSUME NEW r \in Request
      PROVE  /\ req[r] \in {Idle} \cup Wait(Len(tokens))
             /\ req[r] # Idle => (req[r].op = "login" <=> req[r].jti = 0)
  BY DEF Typed, Placed
<1>3. req \in [Request -> {Idle} \cup Wait(Len(tokens))]
  <2>. req = [r \in Request |-> req[r]] BY DEF Typed
  <2>. QED BY <1>2
<1>4. tokens \in Seq(TokenRecord) BY DEF Typed
<1>. QED BY <1>1, <1>2, <1>3, <1>4 DEF Typed, TypeOK, Wait, TokenRecord

LEMMA TypedInit == Init => Typed
BY TokenAssumption DEF Init, Typed, Placed, Jti

\* What Accepted, HasType and RevocationTtl work on.
LEMMA TokenFields ==
  ASSUME Typed, NEW j \in 1..Len(tokens)
  PROVE  /\ tokens[j].user \in User
         /\ tokens[j].exp \in Nat
         /\ tokens[j].session \in Nat
         /\ RevocationTtl(j) \in Nat
         /\ RevocationTtl(j) >= 1
         /\ 2 * RevocationTtl(j) >= 2 * tokens[j].exp - now - 1
<1>1. tokens[j] \in TokenRecord BY DEF Typed
<1>2. tokens[j].exp \in Nat BY <1>1 DEF TokenRecord
<1>. DEFINE x == 2 * tokens[j].exp - now
<1>3. x \in Int BY <1>2 DEF Typed
<1>4. x \div 2 \in Int /\ 2 * (x \div 2) >= x - 1
  <2>. HIDE DEF x
  <2>. QED BY <1>3
<1>. QED BY <1>1, <1>2, <1>3, <1>4 DEF TokenRecord, RevocationTtl

LEMMA PlacedLater ==
  ASSUME NEW m \in Nat, NEW n \in Nat, m <= n, NEW q, Placed(q, m)
  PROVE  Placed(q, n)
BY DEF Placed, Wait

\* One request moves, while tokens may be appended.
LEMMA OneMoves ==
  ASSUME Typed, NEW r \in Request, NEW q,
         tokens' \in Seq(TokenRecord), Len(tokens) <= Len(tokens'),
         Placed(q, Len(tokens')), req' = [req EXCEPT ![r] = q]
  PROVE  /\ req' = [s \in Request |-> req'[s]]
         /\ \A s \in Request : Placed(req'[s], Len(tokens'))
<1>1. req = [s \in Request |-> req[s]] BY DEF Typed
<1>2. \A s \in Request : req'[s] = IF s = r THEN q ELSE req[s]
  BY <1>1
<1>3. Len(tokens) \in Nat /\ Len(tokens') \in Nat BY DEF Typed
<1>4. \A s \in Request : Placed(req[s], Len(tokens'))
  BY <1>3, PlacedLater DEF Typed
<1>. QED BY <1>1, <1>2, <1>4

LEMMA IdlePlaced == ASSUME NEW n PROVE Placed(Idle, n)
BY DEF Placed

\* The endpoints of a token that exists.
LEMMA WaitingPlaced ==
  ASSUME Typed, NEW j \in 1..Len(tokens), NEW t \in Nat,
         NEW o \in {"refresh", "check", "logout"},
         NEW p \in {"revoked?", "revoking", "row", "granted"}
  PROVE  Placed(Waiting(o, p, tokens[j].user, j, t), Len(tokens))
BY TokenFields DEF Waiting, Placed, Wait, Typed

\* A request that has started is at the place its endpoint says.
LEMMA InProgress ==
  ASSUME Typed, NEW r \in Request, req[r].pc # "idle"
  PROVE  /\ req[r] \in Wait(Len(tokens))
         /\ req[r].op = "login" <=> req[r].jti = 0
         /\ req[r].pc \in {"revoked?", "revoking"} => req[r].op # "login"
BY DEF Typed, Placed, Idle

LEMMA Minted ==
  ASSUME Typed, NEW u \in User, NEW type \in {"access", "refresh"},
         NEW life \in Nat, NEW s \in Nat
  PROVE  Token(u, type, Expiry(life), s) \in TokenRecord
<1>1. now \div 2 \in Nat BY DEF Typed
<1>. QED BY <1>1 DEF Token, Expiry, TokenRecord

\* What a step does to the tokens: they are only ever appended.
LEMMA TokensGrow ==
  ASSUME Typed, [Next]_vars
  PROVE  /\ tokens' \in Seq(TokenRecord)
         /\ Len(tokens) <= Len(tokens')
         /\ Len(tokens') <= MaxTokens
         /\ \A j \in 1..Len(tokens) : tokens'[j] = tokens[j]
<1>. /\ tokens \in Seq(TokenRecord) /\ Len(tokens) <= MaxTokens
     /\ Len(tokens) \in Nat
  BY DEF Typed
<1>1. CASE UNCHANGED tokens BY <1>1
<1>2. ASSUME NEW r \in Request, Mint(r)
      PROVE  /\ tokens' \in Seq(TokenRecord)
             /\ Len(tokens) <= Len(tokens')
             /\ Len(tokens') <= MaxTokens
             /\ \A j \in 1..Len(tokens) : tokens'[j] = tokens[j]
  <2>1. /\ req[r] \in Wait(Len(tokens))
        /\ req[r].op = "login" <=> req[r].jti = 0
    BY <1>2, InProgress DEF Mint
  <2>2. now \div 2 \in Nat BY DEF Typed
  <2>3. req[r].user \in User BY <2>1 DEF Wait
  <2>4. CASE req[r].op = "login"
    <3>. DEFINE a == Token(req[r].user, "access", Expiry(AccessLife), now \div 2)
                b == Token(req[r].user, "refresh", Expiry(RefreshLife), now \div 2)
    <3>1. a \in TokenRecord /\ b \in TokenRecord
      BY <2>2, <2>3, Minted, TokenAssumption
    <3>2. tokens' = tokens \o <<a, b>> /\ Len(tokens) + 2 <= MaxTokens
      BY <1>2, <2>4 DEF Mint
    <3>. HIDE DEF a, b
    <3>3. <<a, b>> \in Seq(TokenRecord) /\ Len(<<a, b>>) = 2 BY <3>1
    <3>. QED BY <3>2, <3>3
  <2>5. CASE req[r].op = "refresh"
    <3>1. req[r].jti \in 1..Len(tokens) BY <2>1, <2>5 DEF Wait
    <3>. DEFINE a == Token(req[r].user, "access", Expiry(AccessLife),
                           tokens[req[r].jti].session)
    <3>2. a \in TokenRecord BY <2>3, <3>1, TokenFields, Minted, TokenAssumption
    <3>3. tokens' = Append(tokens, a) /\ Len(tokens) < MaxTokens
      BY <1>2, <2>5 DEF Mint
    <3>. HIDE DEF a
    <3>. QED BY <3>2, <3>3, TokenAssumption
  <2>. QED BY <1>2, <2>4, <2>5 DEF Mint
<1>. QED BY <1>1, <1>2
     DEF Next, vars, Tick, SetActive, Login, Refresh, Check, Logout, AskRevoked,
         Revoke, RedisFails, ReadRow, Authenticated

LEMMA TypedNext == Typed /\ [Next]_vars => Typed'
<1>. SUFFICES ASSUME Typed, [Next]_vars PROVE Typed' OBVIOUS
<1>. DEFINE Others == now' = now /\ active' = active
            Unissued == tokens' = tokens
            Unlisted == listed' = listed
            ReqOK == /\ req' = [r \in Request |-> req'[r]]
                     /\ \A r \in Request : Placed(req'[r], Len(tokens'))
<1>1. ASSUME Others, listed' \in [Jti -> Nat], ReqOK PROVE Typed'
  BY <1>1, TokensGrow DEF Typed
<1>2. ASSUME NEW r \in Request, NEW q, Others, Unissued, listed' \in [Jti -> Nat],
             Placed(q, Len(tokens)), req' = [req EXCEPT ![r] = q]
      PROVE  Typed'
  <2>1. Len(tokens) <= Len(tokens') /\ tokens' \in Seq(TokenRecord) BY TokensGrow
  <2>2. ReqOK BY <1>2, <2>1, OneMoves
  <2>. QED BY <1>1, <1>2, <2>2
<1>3. ASSUME NEW r \in Request, NEW p \in {"row", "granted"}, req[r].pc # "idle",
             Others, Unissued, Unlisted, Goto(r, p)
      PROVE  Typed'
  <2>. DEFINE q == [req[r] EXCEPT !.pc = p]
  <2>1. Placed(q, Len(tokens)) BY <1>3, InProgress DEF Placed, Wait
  <2>2. req' = [req EXCEPT ![r] = q] BY <1>3 DEF Goto
  <2>. QED BY <1>2, <1>3, <2>1, <2>2 DEF Typed
<1>4. ASSUME NEW r \in Request, Others, Unissued, Unlisted, Finish(r) PROVE Typed'
  BY <1>2, <1>4, IdlePlaced DEF Finish, Typed
<1>5. CASE Tick
  BY <1>5, TokenAssumption DEF Tick, Typed
<1>6. ASSUME NEW u \in User, SetActive(u) PROVE Typed'
  <2>1. ASSUME NEW r \in Request PROVE Placed(req'[r], Len(tokens))
    <3>1. Placed(req[r], Len(tokens)) BY DEF Typed
    <3>2. CASE req'[r] = req[r] BY <3>1, <3>2
    <3>3. CASE req[r] # Idle /\ req'[r] = [req[r] EXCEPT !.ever_active = TRUE]
      BY <3>1, <3>3 DEF Placed, Wait
    <3>. QED BY <1>6, <3>2, <3>3 DEF SetActive
  <2>2. req' = [r \in Request |-> req'[r]] BY <1>6 DEF SetActive
  <2>3. active' \in [User -> BOOLEAN] BY <1>6 DEF SetActive, Typed
  <2>. QED BY <1>6, <2>1, <2>2, <2>3 DEF SetActive, Typed
<1>7. ASSUME NEW r \in Request, NEW u \in User, Login(r, u) PROVE Typed'
  <2>1. Placed(Waiting("login", "row", u, 0, 0), Len(tokens))
    BY DEF Waiting, Placed, Wait, Typed
  <2>. QED BY <1>2, <1>7, <2>1 DEF Login, Begin, Typed
<1>8. ASSUME NEW r \in Request, NEW j \in 1..Len(tokens),
             Refresh(r, j) \/ Check(r, j) \/ Logout(r, j)
      PROVE  Typed'
  <2>1. RevocationTtl(j) \in Nat BY TokenFields
  <2>2. PICK o \in {"refresh", "check", "logout"},
             p \in {"revoked?", "revoking", "row", "granted"}, t \in Nat :
          req' = [req EXCEPT ![r] = Waiting(o, p, tokens[j].user, j, t)]
    BY <1>8, <2>1 DEF Refresh, Check, Logout, Begin
  <2>3. Placed(Waiting(o, p, tokens[j].user, j, t), Len(tokens))
    BY WaitingPlaced
  <2>4. Others /\ Unissued /\ Unlisted BY <1>8 DEF Refresh, Check, Logout
  <2>. QED BY <1>2, <2>2, <2>3, <2>4 DEF Typed
<1>9. ASSUME NEW r \in Request, AskRevoked(r) PROVE Typed'
  BY <1>3, <1>4, <1>9 DEF AskRevoked
<1>10. ASSUME NEW r \in Request, Revoke(r) PROVE Typed'
  <2>1. req[r] \in Wait(Len(tokens)) BY <1>10, InProgress DEF Revoke
  <2>2. now + 2 * req[r].ttl \in Nat BY <2>1 DEF Wait, Typed
  <2>3. listed' \in [Jti -> Nat] BY <1>10, <2>2 DEF Revoke, Typed
  <2>. QED BY <1>2, <1>10, <2>3, IdlePlaced DEF Revoke, Finish
<1>11. ASSUME NEW r \in Request, RedisFails(r) \/ Authenticated(r) PROVE Typed'
  BY <1>4, <1>11 DEF RedisFails, Authenticated
<1>12. ASSUME NEW r \in Request, ReadRow(r) PROVE Typed'
  BY <1>3, <1>4, <1>12 DEF ReadRow
<1>13. ASSUME NEW r \in Request, Mint(r) PROVE Typed'
  <2>1. Len(tokens) <= Len(tokens') /\ tokens' \in Seq(TokenRecord) BY TokensGrow
  <2>2. ReqOK BY <1>13, <2>1, OneMoves, IdlePlaced DEF Mint, Finish
  <2>. QED BY <1>1, <1>13, <2>2 DEF Mint, Typed
<1>14. CASE UNCHANGED vars BY <1>14 DEF vars, Typed
<1>. QED BY <1>5, <1>6, <1>7, <1>8, <1>9, <1>10, <1>11, <1>12, <1>13, <1>14 DEF Next

LEMMA TypedAlways == Spec => []Typed
BY TypedInit, TypedNext, PTL DEF Spec

\* The bound on the tokens, their fields and the endpoints' places.
THEOREM TypeCorrect == Spec => []TypeOK
BY TypedAlways, TypedTypes, PTL

--------------------------------------------------------------------------------
(***************************************************************************)
(* A user who is inactive during the whole of a request gets nothing from  *)
(* it.  The row may be read long after the request began, so the invariant *)
(* speaks of every await: ever_active cannot miss that the user is active. *)
(***************************************************************************)
Witnessed(q, act) ==
  q # Idle => /\ act[q.user] => q.ever_active
              /\ q.pc = "granted" => q.ever_active

Activity == \A r \in Request : Witnessed(req[r], active)

LEMMA ActivityNext == Typed /\ Activity /\ [Next]_vars => Activity'
<1>. SUFFICES ASSUME Typed, Activity, [Next]_vars PROVE Activity' OBVIOUS
<1>. req = [r \in Request |-> req[r]] BY DEF Typed
<1>1. ASSUME NEW r \in Request, NEW q, Witnessed(q, active), active' = active,
             req' = [req EXCEPT ![r] = q]
      PROVE  Activity'
  BY <1>1 DEF Activity
<1>2. ASSUME NEW r \in Request, active' = active, Finish(r) PROVE Activity'
  BY <1>1, <1>2 DEF Finish, Witnessed
<1>3. ASSUME NEW r \in Request, NEW p \in {"row", "granted"}, req[r].pc # "idle",
             p = "granted" => active[req[r].user], active' = active, Goto(r, p)
      PROVE  Activity'
  <2>. DEFINE q == [req[r] EXCEPT !.pc = p]
  <2>1. req[r] \in Wait(Len(tokens)) BY <1>3, InProgress
  <2>2. q.user = req[r].user /\ q.ever_active = req[r].ever_active /\ q.pc = p
    BY <2>1 DEF Wait
  <2>3. Witnessed(req[r], active) /\ req[r] # Idle
    BY <2>1, IdleDiffers DEF Activity
  <2>4. Witnessed(q, active) BY <1>3, <2>2, <2>3 DEF Witnessed
  <2>. QED BY <1>1, <1>3, <2>4 DEF Goto
<1>4. ASSUME NEW r \in Request, NEW o, NEW p, p # "granted", NEW u \in User,
             NEW j, NEW t, active' = active, Begin(r, Waiting(o, p, u, j, t))
      PROVE  Activity'
  <2>1. Witnessed(Waiting(o, p, u, j, t), active)
    BY <1>4 DEF Witnessed, Waiting, Typed
  <2>. QED BY <1>1, <1>4, <2>1 DEF Begin
<1>5. ASSUME NEW u \in User, SetActive(u) PROVE Activity'
  <2>1. ASSUME NEW r \in Request PROVE Witnessed(req'[r], active')
    <3>1. CASE req[r] = Idle BY <1>5, <3>1 DEF SetActive, Witnessed
    <3>2. CASE req[r] # Idle /\ req[r].user = u
      <4>1. req[r] \in Wait(Len(tokens)) BY <3>2 DEF Typed, Placed
      <4>2. req'[r].ever_active = TRUE BY <1>5, <3>2, <4>1 DEF SetActive, Wait
      <4>. QED BY <4>2 DEF Witnessed
    <3>3. CASE req[r] # Idle /\ req[r].user # u
      <4>1. req[r] \in Wait(Len(tokens)) BY <3>3 DEF Typed, Placed
      <4>2. active'[req[r].user] = active[req[r].user]
        BY <1>5, <3>3, <4>1 DEF SetActive, Typed, Wait
      <4>3. req'[r] = req[r] BY <1>5, <3>3 DEF SetActive
      <4>. QED BY <3>3, <4>2, <4>3 DEF Activity, Witnessed
    <3>. QED BY <3>1, <3>2, <3>3
  <2>. QED BY <2>1 DEF Activity
<1>6. ASSUME NEW r \in Request, NEW u \in User, Login(r, u) PROVE Activity'
  BY <1>4, <1>6 DEF Login
<1>7. ASSUME NEW r \in Request, NEW j \in 1..Len(tokens),
             Refresh(r, j) \/ Check(r, j) \/ Logout(r, j)
      PROVE  Activity'
  BY <1>4, <1>7, TokenFields DEF Refresh, Check, Logout
<1>8. ASSUME NEW r \in Request, AskRevoked(r) PROVE Activity'
  BY <1>2, <1>3, <1>8 DEF AskRevoked
<1>9. ASSUME NEW r \in Request, ReadRow(r) PROVE Activity'
  BY <1>2, <1>3, <1>9 DEF ReadRow, RowRefused
<1>10. ASSUME NEW r \in Request,
              Revoke(r) \/ RedisFails(r) \/ Authenticated(r) \/ Mint(r)
       PROVE  Activity'
  BY <1>2, <1>10 DEF Revoke, RedisFails, Authenticated, Mint
<1>11. CASE Tick \/ UNCHANGED vars BY <1>11 DEF Tick, vars, Activity
<1>. QED BY <1>5, <1>6, <1>7, <1>8, <1>9, <1>10, <1>11 DEF Next

\* Deactivated before a request begins, and until its end: no token, no access.
THEOREM InactiveRefused == Spec => []InactiveGetsNothing
<1>1. Init => Activity BY DEF Init, Activity, Witnessed
<1>2. Activity => InactiveGetsNothing
  BY DEF Activity, Witnessed, InactiveGetsNothing, Idle
<1>. QED BY <1>1, <1>2, TypedAlways, ActivityNext, PTL DEF Spec

--------------------------------------------------------------------------------
(***************************************************************************)
(* Sessions end.  Refreshing hands the session on from token to token, but *)
(* only login mints a refresh token, and only those are taken: the life of *)
(* every refresh token is counted from the login itself.                   *)
(***************************************************************************)
Sessions ==
  \A j \in 1..Len(tokens) : tokens[j].type = "refresh" =>
    tokens[j].exp = tokens[j].session + RefreshLife

LEMMA SessionsNext == Typed /\ Sessions /\ [Next]_vars => Sessions'
<1>. SUFFICES ASSUME Typed, Sessions, [Next]_vars,
                     NEW j \in 1..Len(tokens'), tokens'[j].type = "refresh"
              PROVE  tokens'[j].exp = tokens'[j].session + RefreshLife
  BY DEF Sessions
<1>1. CASE j \in 1..Len(tokens)
  BY <1>1, TokensGrow DEF Sessions
<1>2. CASE j \notin 1..Len(tokens)
  <2>1. PICK r \in Request : Mint(r)
    BY <1>2 DEF Next, vars, Tick, SetActive, Login, Refresh, Check, Logout,
                AskRevoked, Revoke, RedisFails, ReadRow, Authenticated
  <2>. DEFINE a(s) == Token(req[r].user, "access", Expiry(AccessLife), s)
              b == Token(req[r].user, "refresh", Expiry(RefreshLife), now \div 2)
  <2>. tokens \in Seq(TokenRecord) /\ Len(tokens) \in Nat BY DEF Typed
  <2>2. \A s : a(s).type = "access" BY DEF Token
  <2>3. b.exp = b.session + RefreshLife BY DEF Token, Expiry
  <2>4. \/ tokens' = tokens \o <<a(now \div 2), b>>
        \/ tokens' = Append(tokens, a(tokens[req[r].jti].session))
    BY <2>1 DEF Mint
  <2>. HIDE DEF a, b
  <2>5. tokens'[j] = b \/ \E s : tokens'[j] = a(s) BY <1>2, <2>4
  <2>. QED BY <2>2, <2>3, <2>5
<1>. QED BY <1>1, <1>2

\* Only the endpoint itself starts a refresh, of a token it accepts.
LEMMA RefreshStarts ==
  ASSUME Typed, [Next]_vars, NEW r \in Request,
         req[r] = Idle, req'[r].op = "refresh"
  PROVE  \E j \in 1..Len(tokens) :
           Accepted(j) /\ HasType(j, "refresh") /\ req'[r].jti = j
<1>. req = [s \in Request |-> req[s]] BY DEF Typed
<1>0. req'[r] # req[r] BY DEF Idle
<1>1. ASSUME NEW s \in Request, req[s] = Idle \/ s # r, NEW q,
             q.op # "refresh", req' = [req EXCEPT ![s] = q]
      PROVE  FALSE
  BY <1>0, <1>1
<1>2. ASSUME NEW s \in Request, req[s].pc # "idle", NEW q,
             req' = [req EXCEPT ![s] = q]
      PROVE  FALSE
  BY <1>0, <1>2 DEF Idle
<1>3. ASSUME NEW u \in User, NEW s \in Request, Login(s, u) PROVE FALSE
  BY <1>0, <1>3 DEF Login, Begin, Waiting
<1>4. ASSUME NEW s \in Request, NEW j \in 1..Len(tokens), Check(s, j) \/ Logout(s, j)
      PROVE  FALSE
  BY <1>0, <1>4 DEF Check, Logout, Begin, Waiting
<1>5. ASSUME NEW s \in Request,
             \/ AskRevoked(s) \/ Revoke(s) \/ RedisFails(s) \/ ReadRow(s)
             \/ Authenticated(s) \/ Mint(s)
      PROVE  FALSE
  BY <1>2, <1>5 DEF AskRevoked, Revoke, RedisFails, ReadRow, Authenticated, Mint,
                    Goto, Finish
<1>6. ASSUME NEW u \in User, SetActive(u) PROVE FALSE
  BY <1>0, <1>6 DEF SetActive
<1>7. CASE Tick \/ UNCHANGED vars BY <1>0, <1>7 DEF Tick, vars
<1>8. ASSUME NEW s \in Request, NEW j \in 1..Len(tokens), Refresh(s, j)
      PROVE  Accepted(j) /\ HasType(j, "refresh") /\ req'[r].jti = j
  BY <1>0, <1>8 DEF Refresh, Begin, Waiting
<1>. QED BY <1>3, <1>4, <1>5, <1>6, <1>7, <1>8 DEF Next

\* No chain of refreshes outlives the login by more than RefreshLife.
THEOREM SessionsEnd == Spec => SessionBounded
<1>1. Init => Sessions BY DEF Init, Sessions
<1>2. Typed /\ Sessions /\ [Next]_vars =>
        [\A r \in Request :
           req[r] = Idle /\ req'[r].op = "refresh"
             => now \div 2 <= tokens[req'[r].jti].session + RefreshLife]_vars
  BY RefreshStarts DEF Sessions, Accepted, HasType
<1>. QED BY <1>1, <1>2, TypedAlways, SessionsNext, PTL DEF Spec, SessionBounded

--------------------------------------------------------------------------------
(***************************************************************************)
(* A revocation lasts.  The TTL is computed when logout begins and applied *)
(* when Redis executes SETEX: the time in between only lengthens it, and   *)
(* its truncation costs less than a second.                                *)
(***************************************************************************)
LongEnough(q) ==
  q.pc = "revoking" => 2 * q.ttl >= 2 * tokens[q.jti].exp - now - 1

Listing ==
  /\ \A r \in Request : LongEnough(req[r])
  /\ \A j \in Jti : listed[j] # 0 =>
       j <= Len(tokens) /\ listed[j] >= 2 * tokens[j].exp - 1

\* LongEnough survives while the request waits: time passes, tokens stay.
LEMMA StillLongEnough ==
  ASSUME Typed, [Next]_vars, NEW r \in Request, LongEnough(req[r]),
         req'[r] = req[r]
  PROVE  LongEnough(req[r])'
<1>. SUFFICES ASSUME req[r].pc = "revoking"
              PROVE  2 * req[r].ttl >= 2 * tokens'[req[r].jti].exp - now' - 1
  BY DEF LongEnough
<1>1. req[r] \in Wait(Len(tokens)) /\ req[r].jti # 0 BY InProgress
<1>2. req[r].jti \in 1..Len(tokens) BY <1>1 DEF Wait
<1>3. tokens'[req[r].jti] = tokens[req[r].jti] /\ tokens[req[r].jti].exp \in Nat
  BY <1>2, TokensGrow, TokenFields
<1>4. now' \in Nat /\ now' >= now
  <2>1. CASE Tick BY <2>1 DEF Tick, Typed
  <2>2. CASE ~Tick
    <3>1. ASSUME NEW s \in Request, Mint(s) PROVE now' = now BY <3>1 DEF Mint
    <3>2. now' = now
      BY <2>2, <3>1 DEF Next, vars, SetActive, Login, Refresh, Check, Logout,
                        AskRevoked, Revoke, RedisFails, ReadRow, Authenticated
    <3>. QED BY <3>2 DEF Typed
  <2>. QED BY <2>1, <2>2
<1>5. req[r].ttl \in Nat /\ now \in Nat BY <1>1 DEF Wait, Typed
<1>6. 2 * req[r].ttl >= 2 * tokens[req[r].jti].exp - now - 1 BY DEF LongEnough
<1>. QED BY <1>3, <1>4, <1>5, <1>6

LEMMA ListingNext == Typed /\ Listing /\ [Next]_vars => Listing'
<1>. SUFFICES ASSUME Typed, Listing, [Next]_vars PROVE Listing' OBVIOUS
<1>. req = [r \in Request |-> req[r]] BY DEF Typed
<1>1. ASSUME listed' = listed, \A r \in Request : LongEnough(req[r])' PROVE Listing'
  <2>. SUFFICES ASSUME NEW j \in Jti, listed[j] # 0
                PROVE  j <= Len(tokens') /\ listed[j] >= 2 * tokens'[j].exp - 1
    BY <1>1 DEF Listing
  <2>1. j \in 1..Len(tokens) /\ listed[j] >= 2 * tokens[j].exp - 1
    BY DEF Listing, Jti, Typed
  <2>2. Len(tokens) \in Nat /\ Len(tokens') \in Nat BY TokensGrow DEF Typed
  <2>. QED BY <2>1, <2>2, TokensGrow
<1>2. ASSUME NEW r \in Request, NEW q, q.pc # "revoking", req' = [req EXCEPT ![r] = q]
      PROVE  \A s \in Request : LongEnough(req[s])'
  <2>. TAKE s \in Request
  <2>1. CASE s = r BY <1>2, <2>1 DEF LongEnough
  <2>2. CASE s # r BY <1>2, <2>2, StillLongEnough DEF Listing
  <2>. QED BY <2>1, <2>2
<1>3. ASSUME NEW r \in Request, NEW j \in 1..Len(tokens), Logout(r, j) PROVE Listing'
  <2>1. ASSUME NEW s \in Request PROVE LongEnough(req[s])'
    <3>1. CASE s = r
      <4>1. /\ req'[r].ttl = RevocationTtl(j) /\ req'[r].jti = j
            /\ tokens' = tokens /\ now' = now
        BY <1>3 DEF Logout, Begin, Waiting
      <4>. QED BY <3>1, <4>1, TokenFields DEF LongEnough
    <3>2. CASE s # r
      BY <1>3, <3>2, StillLongEnough DEF Logout, Begin, Listing
    <3>. QED BY <3>1, <3>2
  <2>. QED BY <1>1, <1>3, <2>1 DEF Logout
<1>4. ASSUME NEW r \in Request, Revoke(r) PROVE Listing'
  <2>. DEFINE i == req[r].jti
  <2>1. \A s \in Request : LongEnough(req[s])'
    BY <1>2, <1>4 DEF Revoke, Finish, Idle
  <2>2. /\ req[r] \in Wait(Len(tokens)) /\ i # 0
        /\ LongEnough(req[r])
    BY <1>4, InProgress DEF Revoke, Listing
  <2>3. i \in 1..Len(tokens) /\ req[r].ttl \in Nat BY <2>2 DEF Wait
  <2>4. tokens[i].exp \in Nat BY <2>3, TokenFields
  <2>. now \in Nat BY DEF Typed
  <2>5. now + 2 * req[r].ttl >= 2 * tokens[i].exp - 1
    <3>1. 2 * req[r].ttl >= 2 * tokens[i].exp - now - 1
      BY <1>4, <2>2 DEF Revoke, LongEnough
    <3>. HIDE DEF i
    <3>. QED BY <2>3, <2>4, <3>1
  <2>6. /\ tokens' = tokens
        /\ listed' = [listed EXCEPT ![i] = now + 2 * req[r].ttl]
    BY <1>4 DEF Revoke
  <2>. HIDE DEF i
  <2>. QED BY <2>1, <2>3, <2>5, <2>6 DEF Listing, Typed
<1>5. ASSUME NEW r \in Request, NEW x,
             Login(r, x) \/ Refresh(r, x) \/ Check(r, x)
      PROVE  Listing'
  BY <1>1, <1>2, <1>5 DEF Login, Refresh, Check, Begin, Waiting
<1>6. ASSUME NEW r \in Request,
             RedisFails(r) \/ Authenticated(r) \/ Mint(r)
      PROVE  Listing'
  BY <1>1, <1>2, <1>6 DEF RedisFails, Authenticated, Mint, Finish, Idle
<1>7. ASSUME NEW r \in Request, AskRevoked(r) \/ ReadRow(r) PROVE Listing'
  <2>1. req[r] \in Wait(Len(tokens)) BY <1>7, InProgress DEF AskRevoked, ReadRow
  <2>2. PICK q : q.pc # "revoking" /\ req' = [req EXCEPT ![r] = q]
    <3>1. CASE Finish(r) BY <3>1 DEF Finish, Idle
    <3>2. ASSUME NEW p \in {"row", "granted"}, Goto(r, p)
          PROVE  \E q : q.pc # "revoking" /\ req' = [req EXCEPT ![r] = q]
      <4>. WITNESS [req[r] EXCEPT !.pc = p]
      <4>. QED BY <2>1, <3>2 DEF Goto, Wait
    <3>. QED BY <1>7, <3>1, <3>2 DEF AskRevoked, ReadRow
  <2>. QED BY <1>1, <1>2, <1>7, <2>2 DEF AskRevoked, ReadRow
<1>8. ASSUME NEW u \in User, SetActive(u) PROVE Listing'
  <2>1. ASSUME NEW s \in Request PROVE LongEnough(req[s])'
    <3>1. CASE req'[s] = req[s] BY <3>1, StillLongEnough DEF Listing
    <3>2. CASE req[s] # Idle /\ req'[s] = [req[s] EXCEPT !.ever_active = TRUE]
      <4>1. req[s] \in Wait(Len(tokens)) BY <3>2 DEF Typed, Placed
      <4>2. /\ req'[s].pc = req[s].pc /\ req'[s].ttl = req[s].ttl
            /\ req'[s].jti = req[s].jti
        BY <3>2, <4>1 DEF Wait
      <4>. QED BY <1>8, <4>2 DEF SetActive, Listing, LongEnough
    <3>. QED BY <1>8, <3>1, <3>2 DEF SetActive
  <2>. QED BY <1>1, <1>8, <2>1 DEF SetActive
<1>9. CASE Tick \/ UNCHANGED vars
  <2>1. \A s \in Request : LongEnough(req[s])'
    BY <1>9, StillLongEnough DEF Tick, vars, Listing
  <2>2. listed' = listed BY <1>9 DEF Tick, vars
  <2>. QED BY <1>1, <2>1, <2>2
<1>. QED BY <1>3, <1>4, <1>5, <1>6, <1>7, <1>8, <1>9 DEF Next

\* Only Redis' answer moves a request on from its question.
LEMMA PassesUnrevoked ==
  ASSUME Typed, [Next]_vars, NEW r \in Request,
         req[r].pc = "revoked?", req'[r].pc = "row"
  PROVE  ~IsRevoked(req[r].jti)
<1>. req = [s \in Request |-> req[s]] BY DEF Typed
<1>0. req[r] # Idle /\ req'[r] # req[r] /\ req[r] \in Wait(Len(tokens))
  BY InProgress DEF Idle
<1>1. ASSUME NEW s \in Request, NEW q, req[s].pc # "revoked?",
             req' = [req EXCEPT ![s] = q]
      PROVE  FALSE
  BY <1>0, <1>1
<1>2. ASSUME NEW s \in Request, Finish(s) PROVE FALSE
  BY <1>0, <1>2 DEF Finish, Idle
<1>3. ASSUME NEW s \in Request, NEW x,
             Login(s, x) \/ Refresh(s, x) \/ Check(s, x) \/ Logout(s, x)
      PROVE  FALSE
  BY <1>1, <1>3 DEF Login, Refresh, Check, Logout, Begin, Idle
<1>4. ASSUME NEW s \in Request,
             Revoke(s) \/ RedisFails(s) \/ Authenticated(s) \/ Mint(s)
      PROVE  FALSE
  BY <1>2, <1>4 DEF Revoke, RedisFails, Authenticated, Mint
<1>5. ASSUME NEW s \in Request, ReadRow(s) PROVE FALSE
  BY <1>1, <1>2, <1>5 DEF ReadRow, Goto
<1>6. ASSUME NEW u \in User, SetActive(u) PROVE FALSE
  <2>1. req'[r] = req[r] \/ req'[r] = [req[r] EXCEPT !.ever_active = TRUE]
    BY <1>6 DEF SetActive
  <2>. QED BY <1>0, <2>1 DEF Wait
<1>7. CASE Tick \/ UNCHANGED vars BY <1>0, <1>7 DEF Tick, vars
<1>8. ASSUME NEW s \in Request, AskRevoked(s) PROVE ~IsRevoked(req[r].jti)
  BY <1>0, <1>2, <1>8 DEF AskRevoked, Goto
<1>. QED BY <1>3, <1>4, <1>5, <1>6, <1>7, <1>8 DEF Next

\* is_revoked lets a listed token pass only when less than a second of it is left.
THEOREM RevocationLasts == Spec => RevokedUntilLastSecond
<1>1. Init => Listing
  BY DEF Init, Listing, LongEnough, Idle
<1>2. Typed /\ Listing /\ [Next]_vars =>
        [\A r \in Request :
           req[r].pc = "revoked?" /\ req'[r].pc = "row" /\ listed[req[r].jti] # 0
             => now >= 2 * tokens[req[r].jti].exp - 1]_vars
  <2>. SUFFICES ASSUME Typed, Listing, [Next]_vars, NEW r \in Request,
                       req[r].pc = "revoked?", req'[r].pc = "row",
                       listed[req[r].jti] # 0
                PROVE  now >= 2 * tokens[req[r].jti].exp - 1
    OBVIOUS
  <2>1. req[r] \in Wait(Len(tokens)) /\ req[r].jti # 0 BY InProgress
  <2>2. req[r].jti \in 1..Len(tokens) BY <2>1 DEF Wait
  <2>3. tokens[req[r].jti].exp \in Nat BY <2>2, TokenFields
  <2>. Len(tokens) \in Nat /\ Len(tokens) <= MaxTokens BY DEF Typed
  <2>4. req[r].jti \in Jti BY <2>2, TokenAssumption DEF Jti
  <2>5. listed[req[r].jti] >= 2 * tokens[req[r].jti].exp - 1 BY <2>4 DEF Listing
  <2>6. ~IsRevoked(req[r].jti) BY PassesUnrevoked
  <2>. QED BY <2>3, <2>4, <2>5, <2>6 DEF IsRevoked, Typed
<1>. QED BY <1>1, <1>2, TypedAlways, ListingNext, PTL DEF Spec, RevokedUntilLastSecond
--------------------------------------------------------------------------------
(***************************************************************************)
(* What keeps the revocation list small.  The ttl is measured before the   *)
(* await and used after it, so the key may outlive its token by the delay; *)
(* it is bounded from the moment of the SETEX, because no token in hand    *)
(* ever had more than its lifetime left.                                   *)
(***************************************************************************)
LEMMA LongestBounds ==
  Longest \in Nat /\ Longest >= 1 /\ AccessLife <= Longest /\ RefreshLife <= Longest
<1>. DEFINE Lives == {AccessLife, RefreshLife, 1}
<1>1. \E n \in Lives : \A m \in Lives : m <= n
  <2>1. AccessLife \in Nat /\ RefreshLife \in Nat BY TokenAssumption
  <2>2. CASE 1 >= AccessLife /\ 1 >= RefreshLife BY <2>1, <2>2
  <2>3. CASE AccessLife >= 1 /\ AccessLife >= RefreshLife BY <2>1, <2>3
  <2>4. CASE RefreshLife >= 1 /\ RefreshLife >= AccessLife BY <2>1, <2>4
  <2>. QED BY <2>1, <2>2, <2>3, <2>4
<1>2. Longest \in Lives /\ \A m \in Lives : m <= Longest BY <1>1 DEF Longest
<1>. QED BY <1>2, TokenAssumption

Brief ==
  /\ \A j \in 1..Len(tokens) : tokens[j].exp <= now \div 2 + Longest
  /\ \A r \in Request : req[r] # Idle => req[r].ttl <= Longest
  /\ ListIsTemporary

\* int(exp - now) of a token in hand is at most a lifetime.
LEMMA TtlBrief ==
  ASSUME Typed, Brief, NEW j \in 1..Len(tokens)
  PROVE  RevocationTtl(j) <= Longest
<1>1. tokens[j].exp \in Nat /\ now \in Nat BY TokenFields DEF Typed
<1>2. tokens[j].exp <= now \div 2 + Longest BY DEF Brief
<1>. DEFINE e == tokens[j].exp
<1>. HIDE DEF e
<1>3. (2 * e - now) \div 2 <= e - now \div 2
  BY <1>1 DEF e
<1>4. (2 * e - now) \div 2 <= Longest BY <1>1, <1>2, <1>3, LongestBounds DEF e
<1>. QED BY <1>4, LongestBounds DEF RevocationTtl, e

\* Every token that a step mints expires within the longest lifetime.
LEMMA MintedBrief ==
  ASSUME Typed, NEW r \in Request, Mint(r),
         NEW j \in 1..Len(tokens'), j \notin 1..Len(tokens)
  PROVE  tokens'[j].exp <= now \div 2 + Longest
<1>. DEFINE Access(s) == Token(req[r].user, "access", Expiry(AccessLife), s)
            fresh == Token(req[r].user, "refresh", Expiry(RefreshLife), now \div 2)
<1>1. now \div 2 \in Nat BY DEF Typed
<1>2. /\ fresh.exp <= now \div 2 + Longest
      /\ \A s : Access(s).exp <= now \div 2 + Longest
  BY <1>1, LongestBounds, TokenAssumption DEF Token, Expiry
<1>3. tokens \in Seq(TokenRecord) /\ Len(tokens) \in Nat BY DEF Typed
<1>4. CASE tokens' = tokens \o <<Access(now \div 2), fresh>>
  <2>. DEFINE a == Access(now \div 2)
  <2>. HIDE DEF a, fresh
  <2>1. tokens' = tokens \o <<a, fresh>> BY <1>4 DEF a
  <2>2. tokens'[j] \in {a, fresh} BY <1>3, <2>1
  <2>. QED BY <1>2, <2>2 DEF a
<1>5. CASE tokens' = Append(tokens, Access(tokens[req[r].jti].session))
  <2>. DEFINE a == Access(tokens[req[r].jti].session)
  <2>. HIDE DEF a
  <2>1. tokens' = Append(tokens, a) BY <1>5 DEF a
  <2>2. tokens'[j] = a BY <1>3, <2>1
  <2>. QED BY <1>2, <2>2 DEF a
<1>. QED BY <1>4, <1>5 DEF Mint

LEMMA BriefNext == Typed /\ Brief /\ [Next]_vars => Brief'
<1>. SUFFICES ASSUME Typed, Brief, [Next]_vars PROVE Brief' OBVIOUS
<1>. req = [r \in Request |-> req[r]] BY DEF Typed
<1>1. now \in Nat /\ now' \in Nat /\ now <= now'
  <2>1. now' = now \/ now' = now + 1
    BY DEF Next, vars, Tick, SetActive, Login, Refresh, Check, Logout,
           AskRevoked, Revoke, RedisFails, ReadRow, Authenticated, Mint
  <2>2. now \in Nat BY DEF Typed
  <2>. QED BY <2>1, <2>2
<1>2. \A j \in 1..Len(tokens') : tokens'[j].exp <= now' \div 2 + Longest
  <2>. SUFFICES ASSUME NEW j \in 1..Len(tokens')
                PROVE  tokens'[j].exp <= now' \div 2 + Longest
    OBVIOUS
  <2>1. now \div 2 <= now' \div 2 /\ now \div 2 \in Nat /\ now' \div 2 \in Nat
    BY <1>1
  <2>2. tokens'[j].exp \in Nat
    <3>1. tokens' \in Seq(TokenRecord) BY TokensGrow
    <3>2. tokens'[j] \in TokenRecord BY <3>1
    <3>. QED BY <3>2 DEF TokenRecord
  <2>3. tokens'[j].exp <= now \div 2 + Longest
    <3>1. CASE j \in 1..Len(tokens) BY <3>1, TokensGrow DEF Brief
    <3>2. CASE tokens' = tokens BY <3>2 DEF Brief
    <3>3. CASE j \notin 1..Len(tokens) /\ \E r \in Request : Mint(r)
      BY <3>3, MintedBrief
    <3>. QED BY <3>1, <3>2, <3>3
         DEF Next, vars, Tick, SetActive, Login, Refresh, Check, Logout,
             AskRevoked, Revoke, RedisFails, ReadRow, Authenticated
  <2>. QED BY <2>1, <2>2, <2>3, LongestBounds
<1>3. \A r \in Request : req'[r] # Idle => req'[r].ttl <= Longest
  <2>1. ASSUME NEW r \in Request, NEW q, q # Idle => q.ttl <= Longest,
               req' = [req EXCEPT ![r] = q]
        PROVE  \A s \in Request : req'[s] # Idle => req'[s].ttl <= Longest
    BY <2>1 DEF Brief
  <2>2. ASSUME NEW r \in Request, Finish(r)
        PROVE  \A s \in Request : req'[s] # Idle => req'[s].ttl <= Longest
    BY <2>1, <2>2 DEF Finish
  <2>3. ASSUME NEW r \in Request, NEW p, req[r].pc # "idle", Goto(r, p)
        PROVE  \A s \in Request : req'[s] # Idle => req'[s].ttl <= Longest
    <3>. DEFINE q == [req[r] EXCEPT !.pc = p]
    <3>1. req[r] \in Wait(Len(tokens)) /\ req[r] # Idle
      BY <2>3, InProgress, IdleDiffers
    <3>2. q.ttl = req[r].ttl BY <3>1 DEF Wait
    <3>3. q.ttl <= Longest BY <3>1, <3>2 DEF Brief
    <3>. QED BY <2>1, <2>3, <3>3 DEF Goto
  <2>4. ASSUME NEW r \in Request, NEW o, NEW p, NEW u, NEW j, NEW t, t <= Longest,
               Begin(r, Waiting(o, p, u, j, t))
        PROVE  \A s \in Request : req'[s] # Idle => req'[s].ttl <= Longest
    <3>1. Waiting(o, p, u, j, t).ttl = t BY DEF Waiting
    <3>. QED BY <2>1, <2>4, <3>1 DEF Begin
  <2>5. ASSUME NEW u \in User, SetActive(u)
        PROVE  \A s \in Request : req'[s] # Idle => req'[s].ttl <= Longest
    <3>. SUFFICES ASSUME NEW s \in Request, req'[s] # Idle PROVE req'[s].ttl <= Longest
      OBVIOUS
    <3>1. \/ req'[s] = req[s]
          \/ req[s] # Idle /\ req'[s] = [req[s] EXCEPT !.ever_active = TRUE]
      BY <2>5 DEF SetActive
    <3>2. CASE req'[s] = req[s] BY <3>2 DEF Brief
    <3>3. CASE req[s] # Idle /\ req'[s] = [req[s] EXCEPT !.ever_active = TRUE]
      <4>1. req[s] \in Wait(Len(tokens)) BY <3>3 DEF Typed, Placed
      <4>2. req'[s].ttl = req[s].ttl BY <3>3, <4>1 DEF Wait
      <4>. QED BY <3>3, <4>2 DEF Brief
    <3>. QED BY <3>1, <3>2, <3>3
  <2>6. 0 <= Longest BY LongestBounds
  <2>7. ASSUME NEW r \in Request, NEW u \in User, Login(r, u)
        PROVE  \A s \in Request : req'[s] # Idle => req'[s].ttl <= Longest
    BY <2>4, <2>6, <2>7 DEF Login
  <2>8. ASSUME NEW r \in Request, NEW j \in 1..Len(tokens),
               Refresh(r, j) \/ Check(r, j) \/ Logout(r, j)
        PROVE  \A s \in Request : req'[s] # Idle => req'[s].ttl <= Longest
    BY <2>4, <2>6, <2>8, TtlBrief DEF Refresh, Check, Logout
  <2>9. ASSUME NEW r \in Request, AskRevoked(r) \/ ReadRow(r)
        PROVE  \A s \in Request : req'[s] # Idle => req'[s].ttl <= Longest
    BY <2>2, <2>3, <2>9 DEF AskRevoked, ReadRow
  <2>10. ASSUME NEW r \in Request,
                Revoke(r) \/ RedisFails(r) \/ Authenticated(r) \/ Mint(r)
         PROVE  \A s \in Request : req'[s] # Idle => req'[s].ttl <= Longest
    BY <2>2, <2>10 DEF Revoke, RedisFails, Authenticated, Mint
  <2>11. CASE Tick \/ UNCHANGED vars BY <2>11 DEF Tick, vars, Brief
  <2>. QED BY <2>5, <2>7, <2>8, <2>9, <2>10, <2>11 DEF Next
<1>4. ListIsTemporary'
  <2>. SUFFICES ASSUME NEW j \in Jti PROVE listed'[j] <= now' + 2 * Longest'
    BY DEF ListIsTemporary
  <2>1. listed[j] \in Nat /\ listed[j] <= now + 2 * Longest
    BY DEF Typed, Brief, ListIsTemporary
  <2>2. Longest' = Longest BY DEF Longest
  <2>3. CASE listed'[j] = listed[j] BY <1>1, <2>1, <2>2, <2>3, LongestBounds
  <2>4. ASSUME NEW r \in Request, Revoke(r) PROVE listed'[j] <= now' + 2 * Longest'
    <3>1. req[r] \in Wait(Len(tokens)) /\ req[r] # Idle
      BY <2>4, InProgress, IdleDiffers DEF Revoke
    <3>2. req[r].ttl \in Nat /\ req[r].ttl <= Longest BY <3>1 DEF Wait, Brief
    <3>3. listed'[j] = listed[j] \/ listed'[j] = now + 2 * req[r].ttl
      BY <2>4 DEF Revoke, Typed
    <3>4. now' = now BY <2>4 DEF Revoke
    <3>. QED BY <1>1, <2>1, <2>2, <3>2, <3>3, <3>4, LongestBounds
  <2>. QED BY <2>3, <2>4
       DEF Next, vars, Tick, SetActive, Login, Refresh, Check, Logout,
           AskRevoked, RedisFails, ReadRow, Authenticated, Mint
<1>. QED BY <1>2, <1>3, <1>4 DEF Brief, Longest

\* Nothing sweeps the revocation list and nothing has to: no key of it is left a
\* lifetime after it was last set, whenever that was.
THEOREM RevocationsExpire == Spec => []ListIsTemporary
<1>1. Init => Brief
  <2>1. Init => now = 0 /\ Len(tokens) = 0 /\ \A j \in Jti : listed[j] = 0
    BY DEF Init
  <2>. QED BY <2>1, LongestBounds DEF Init, Brief, ListIsTemporary
<1>2. Brief => ListIsTemporary BY DEF Brief
<1>. QED BY <1>1, <1>2, TypedAlways, BriefNext, PTL DEF Spec
================================================================================

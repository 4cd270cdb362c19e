---------------------------- MODULE SessionProofs ----------------------------
(***************************************************************************)
(* Proofs about Session for any names, token life and bounds.  VInv is the *)
(* inductive invariant: that of the server, what a response under way may  *)
(* be, and the view that the client will have when it has received it.     *)
(***************************************************************************)
EXTENDS Session, MatchmakerProofs

\* The sweeper leaves whoever has a token that verifies alone.
NotExpired ==
  \A t \in tokens : t.uid \in DOMAIN users => ~Expired(users[t.uid])

Views == [Hosting : BOOLEAN, LinkedLobby : 0..(lobbyIdCounter - 1)]

\* What a response may be; a command's status is used up with its request.
ResponseOK ==
  /\ response.op \in {"none", "connect", "logout", "renew", "checkin", "host",
                      "stop", "link", "unlink"}
  /\ response.op = "none" <=> response = NoResponse
  /\ response.op \in {"connect", "renew"} =>
       response.body \in Token /\ response.body.sub = Me
  /\ response.op = "renew" => response.body.uid = authToken.uid
  /\ response.op = "connect" => authToken = None
  /\ response.op \notin {"none", "connect"} => authToken # None
  /\ response.op = "checkin" => response.body \in Views
  /\ response.op = "link" => response.body.LinkedLobby \in 1..(lobbyIdCounter - 1)
  /\ response.op \notin {"none", "checkin", "renew"} => status = "none"

\* The client's token is its own; without one, it has had no checkin.
ClientOK ==
  /\ authToken # None => authToken.sub = Me
  /\ authToken = None => ~fresh
  /\ smooth /\ authToken = None =>
       lastCheckin = [Hosting |-> FALSE, LinkedLobby |-> 0] /\ relayRole = "idle"

\* The token that the client has, and the one on its way to it.
MyTokens ==
  {authToken} \cup (IF response.op \in {"connect", "renew"} THEN {response.body}
                                                            ELSE {})

\* View v is that of user u, except that a host's logout may have ended its link.
Shows(v, u) ==
  /\ u \in DOMAIN users
  /\ v.Hosting <=> users[u].Hosting > 0
  /\ users[u].Linkedto \in {0, v.LinkedLobby}

\* What the client is about to show is so.
ViewHolds ==
  (fresh \/ smooth \/ response.op = "checkin") /\ response.op # "logout" =>
    \A t \in MyTokens \cap tokens : Shows(ViewAfter(response), t.uid)

RoleOf(v) == IF v.Hosting THEN "hosting"
             ELSE IF v.LinkedLobby > 0 THEN "linked" ELSE "idle"

\* As long as no response is lost, the relay has the role shown, a command goes
\* by that role, and a checkin brings nothing new but the end of a link.
RolesHold ==
  smooth =>
    /\ ~(lastCheckin.Hosting /\ lastCheckin.LinkedLobby > 0)
    /\ relayRole = RoleOf(lastCheckin)
    /\ response.op = "checkin" =>
         /\ response.body.Hosting = lastCheckin.Hosting
         /\ response.body.LinkedLobby \in {0, lastCheckin.LinkedLobby}
    /\ StatusInUse = "idle" => ~lastCheckin.Hosting /\ lastCheckin.LinkedLobby = 0
    /\ StatusInUse = "hosting" => lastCheckin.Hosting
    /\ StatusInUse = "linked" => ~lastCheckin.Hosting

\* The bound on lobbies.
LobbiesBounded == lobbyIdCounter <= MaxLobbies + 1

VInv ==
  /\ MInv
  /\ restarts = 0
  /\ LobbiesBounded
  /\ SessionTypeOK
  /\ NotExpired
  /\ ResponseOK
  /\ ClientOK
  /\ ViewHolds
  /\ RolesHold

-----------------------------------------------------------------------------
(* What the handlers do to the sessions of others. *)

\* Of every session but v, which may go, a step keeps what the client shows;
\* it keeps NotExpired, and lobbies are numbered upwards.
Keeps(v) ==
  /\ \A u \in DOMAIN users \ {v} :
       /\ u \in DOMAIN users'
       /\ users'[u].Hosting = users[u].Hosting
       /\ users'[u].Linkedto \in {0, users[u].Linkedto}
  /\ lobbyIdCounter' \in Nat /\ lobbyIdCounter' >= lobbyIdCounter
  /\ restarts' = restarts
  /\ LobbiesBounded => LobbiesBounded'
  /\ MInv' /\ NotExpired'

LEMMA LoginKeeps ==
  ASSUME MInv, NotExpired, NEW n \in Usernames, HandleLogin(n)
  PROVE  /\ Keeps(userIdCounter)
         /\ userIdCounter \notin DOMAIN users
         /\ NewToken(userIdCounter, n) \in Token
         /\ NewToken(userIdCounter, n).uid = userIdCounter
         /\ NewToken(userIdCounter, n).sub = n
         /\ tokens' = tokens \cup {NewToken(userIdCounter, n)}
         /\ userIdCounter \in DOMAIN users'
         /\ users'[userIdCounter].Hosting = 0
         /\ users'[userIdCounter].Linkedto = 0
<1> DEFINE tok == NewToken(userIdCounter, n)
<1>1. MInv'
  BY LoginStep
<1>2. /\ userIdCounter \notin DOMAIN users /\ userIdCounter \in Nat /\ now \in Nat
      /\ lobbyIdCounter \in Nat /\ TokenLife \in Nat
  BY ConstantsAssumption DEF MInv, TypeOK, ConstantsAssumption
<1>3. /\ DOMAIN users' = DOMAIN users \cup {userIdCounter}
      /\ users'[userIdCounter] = [Username |-> n, Linkedto |-> 0, Hosting |-> 0,
                                  LastTokenAt |-> now]
      /\ \A u \in DOMAIN users : users'[u] = users[u]
      /\ tokens' = tokens \cup {tok}
      /\ UNCHANGED <<lobbyIdCounter, now, restarts>>
  BY <1>2 DEF HandleLogin, NewUserId, Assign
<1>4. tok \in Token /\ tok.uid = userIdCounter /\ tok.sub = n
  BY <1>2, NewTokenFact DEF MInv
<1> HIDE DEF tok
<1>5. NotExpired'
  BY <1>2, <1>3, <1>4 DEF NotExpired, Expired
<1>6. QED
  BY <1>1, <1>2, <1>3, <1>4, <1>5 DEF Keeps, LobbiesBounded, tok

\* What a request that authenticates comes from.
LEMMA RequestFact ==
  ASSUME MInv, AuthStatus(authToken) = OK
  PROVE  /\ authToken \in tokens /\ authToken.uid \in DOMAIN users
         /\ authToken.uid \in Nat /\ users[authToken.uid].Username \in Usernames
         /\ users[authToken.uid].Hosting \in Nat
         /\ users[authToken.uid].Linkedto \in Nat
<1>1. authToken \in tokens
  BY DEF AuthStatus, VerifyToken, OK, Forbidden
<1>2. QED
  BY <1>1, AuthFact DEF MInv

LEMMA LogoutKeeps ==
  ASSUME MInv, NotExpired, NEW t \in tokens, HandleLogout(t)
  PROVE  Keeps(t.uid) /\ tokens' = tokens
<1> DEFINE lid == users[t.uid].Hosting
<1>1. MInv' /\ UNCHANGED <<lobbyIdCounter, now, restarts, tokens>>
  BY LogoutStep DEF HandleLogout
<1>2. /\ DOMAIN users' = DOMAIN users \ {t.uid}
      /\ \A u \in DOMAIN users' :
           /\ users'[u].Hosting = users[u].Hosting
           /\ users'[u].LastTokenAt = users[u].LastTokenAt
           /\ users'[u].Linkedto \in {0, users[u].Linkedto}
  <2>1. /\ DOMAIN GuestsReleased(lid) = DOMAIN users
        /\ \A u \in DOMAIN users :
             LET v == GuestsReleased(lid)[u]
             IN  /\ v.Hosting = users[u].Hosting
                 /\ v.LastTokenAt = users[u].LastTokenAt
                 /\ v.Linkedto \in {0, users[u].Linkedto}
    BY DEF GuestsReleased, MInv, TypeOK, User
  <2>2. users' = Delete(users, {t.uid}) \/ users' = Delete(GuestsReleased(lid), {t.uid})
    BY DEF HandleLogout
  <2>3. QED
    BY <2>1, <2>2 DEF Delete, Restrict
<1>3. NotExpired'
  BY <1>1, <1>2 DEF NotExpired, Expired
<1>4. lobbyIdCounter \in Nat
  BY DEF MInv, TypeOK
<1>5. QED
  BY <1>1, <1>2, <1>3, <1>4 DEF Keeps, LobbiesBounded

LEMMA RenewKeeps ==
  ASSUME MInv, NotExpired, NEW t \in tokens, HandleRenew(t)
  PROVE  LET r == NewToken(t.uid, users[t.uid].Username)
         IN  /\ \A v : Keeps(v)
             /\ tokens' = tokens \cup {r}
             /\ r \in Token /\ r.uid = t.uid /\ r.sub = users[t.uid].Username
<1> DEFINE r == NewToken(t.uid, users[t.uid].Username)
<1>1. MInv' /\ UNCHANGED <<lobbyIdCounter, now, restarts>> /\ tokens' = tokens \cup {r}
  BY RenewStep DEF HandleRenew
<1>2. t.uid \in DOMAIN users /\ t.uid \in Nat /\ users[t.uid].Username \in Usernames
  BY AuthFact DEF MInv, HandleRenew
<1>3. /\ DOMAIN users' = DOMAIN users
      /\ users'[t.uid].LastTokenAt = now
      /\ \A u \in DOMAIN users :
           /\ users'[u].Hosting = users[u].Hosting
           /\ users'[u].Linkedto = users[u].Linkedto
           /\ u # t.uid => users'[u] = users[u]
  BY <1>2 DEF HandleRenew, Renewed, MInv, TypeOK, User
<1>4. r \in Token /\ r.uid = t.uid /\ r.sub = users[t.uid].Username
  BY <1>2, NewTokenFact DEF MInv
<1>5. lobbyIdCounter \in Nat /\ now \in Nat /\ TokenLife \in Nat
  BY ConstantsAssumption DEF MInv, TypeOK, ConstantsAssumption
<1> HIDE DEF r
<1>6. NotExpired'
  BY <1>1, <1>3, <1>4, <1>5 DEF NotExpired, Expired
<1>7. \A v : Keeps(v)
  BY <1>1, <1>3, <1>5, <1>6 DEF Keeps, LobbiesBounded
<1>8. QED
  BY <1>1, <1>4, <1>7 DEF r

LEMMA HostKeeps ==
  ASSUME MInv, NotExpired, NEW t \in tokens, NEW name \in LobbyNames,
         HandleUpdateHostStatus(t, name, FALSE)
  PROVE  /\ Keeps(t.uid) /\ tokens' = tokens
         /\ AuthStatus(t) = OK
         /\ t.uid \in DOMAIN users'
         /\ users'[t.uid].Hosting > 0
         /\ users'[t.uid].Linkedto = users[t.uid].Linkedto
<1>1. MInv' /\ lobbyIdCounter' = lobbyIdCounter + 1 /\ UNCHANGED <<now, restarts, tokens>>
  BY HostStep DEF HandleUpdateHostStatus
<1>2. lobbyIdCounter \in Nat \ {0} /\ lobbyIdCounter <= MaxLobbies /\ MaxLobbies \in Nat
  BY ConstantsAssumption DEF MInv, TypeOK, HandleUpdateHostStatus, ConstantsAssumption
<1>3. AuthStatus(t) = OK
  BY DEF HandleUpdateHostStatus, HostStatus, AuthStatus, OK, NoContent, Forbidden, NotFound
<1>4. t.uid \in DOMAIN users
  BY <1>3, AuthFact DEF MInv
<1>5. /\ DOMAIN users' = DOMAIN users
      /\ users'[t.uid].Hosting = lobbyIdCounter
      /\ \A u \in DOMAIN users :
           /\ u # t.uid => users'[u] = users[u]
           /\ users'[u].Linkedto = users[u].Linkedto
           /\ users'[u].LastTokenAt = users[u].LastTokenAt
  BY <1>4 DEF HandleUpdateHostStatus, NewLobbyId, MInv, TypeOK, User
<1>6. NotExpired'
  BY <1>1, <1>5 DEF NotExpired, Expired
<1>7. QED
  BY <1>1, <1>2, <1>3, <1>4, <1>5, <1>6 DEF Keeps, LobbiesBounded

LEMMA StopHostKeeps ==
  ASSUME MInv, NotExpired, NEW t \in tokens, HandleDeleteHostStatus(t)
  PROVE  /\ Keeps(t.uid) /\ tokens' = tokens
         /\ t.uid \in DOMAIN users'
         /\ users'[t.uid].Hosting = 0
         /\ users'[t.uid].Linkedto = users[t.uid].Linkedto
<1>1. MInv' /\ UNCHANGED <<lobbyIdCounter, now, restarts, tokens>>
  BY StopHostStep DEF HandleDeleteHostStatus
<1>2. lobbyIdCounter \in Nat
  BY DEF MInv, TypeOK
<1>3. AuthStatus(t) = OK
  BY DEF HandleDeleteHostStatus, StopHostStatus, AuthStatus, OK, NoContent, Forbidden, NotFound
<1>4. t.uid \in DOMAIN users
  BY <1>3, AuthFact DEF MInv
<1>5. /\ DOMAIN users' = DOMAIN users
      /\ users'[t.uid].Hosting = 0
      /\ \A u \in DOMAIN users :
           /\ u # t.uid => users'[u] = users[u]
           /\ users'[u].Linkedto = users[u].Linkedto
           /\ users'[u].LastTokenAt = users[u].LastTokenAt
  BY <1>4 DEF HandleDeleteHostStatus, MInv, TypeOK, User
<1>6. NotExpired'
  BY <1>1, <1>5 DEF NotExpired, Expired
<1>7. QED
  BY <1>1, <1>2, <1>4, <1>5, <1>6 DEF Keeps, LobbiesBounded

LEMMA LinkKeeps ==
  ASSUME MInv, NotExpired, NEW t \in tokens, NEW l \in Nat,
         HandleUpdateLinkStatus(t, l)
  PROVE  /\ Keeps(t.uid) /\ tokens' = tokens
         /\ t.uid \in DOMAIN users'
         /\ users'[t.uid].Hosting = users[t.uid].Hosting
         /\ users'[t.uid].Linkedto = l
<1>1. MInv' /\ UNCHANGED <<lobbyIdCounter, now, restarts, tokens>>
  BY LinkStep DEF HandleUpdateLinkStatus
<1>2. lobbyIdCounter \in Nat
  BY DEF MInv, TypeOK
<1>3. AuthStatus(t) = OK
  BY DEF HandleUpdateLinkStatus, LinkStatus, AuthStatus, OK, NoContent,
     Forbidden, NotFound, Conflict, Locked
<1>4. t.uid \in DOMAIN users
  BY <1>3, AuthFact DEF MInv
<1>5. /\ DOMAIN users' = DOMAIN users
      /\ users'[t.uid].Linkedto = l
      /\ \A u \in DOMAIN users :
           /\ u # t.uid => users'[u] = users[u]
           /\ users'[u].Hosting = users[u].Hosting
           /\ users'[u].LastTokenAt = users[u].LastTokenAt
  BY <1>4 DEF HandleUpdateLinkStatus, MInv, TypeOK, User
<1>6. NotExpired'
  BY <1>1, <1>5 DEF NotExpired, Expired
<1>7. QED
  BY <1>1, <1>2, <1>4, <1>5, <1>6 DEF Keeps, LobbiesBounded

LEMMA SweepKeeps ==
  ASSUME MInv, NotExpired, FindExpiredUserSessions
  PROVE  /\ MInv' /\ NotExpired' /\ tokens' = tokens
         /\ UNCHANGED <<lobbyIdCounter, restarts>>
         /\ \A t \in tokens : t.uid \in DOMAIN users =>
              t.uid \in DOMAIN users' /\ users'[t.uid] = users[t.uid]
<1>1. MInv' /\ UNCHANGED <<lobbyIdCounter, now, restarts, tokens>>
  BY SweepStep DEF FindExpiredUserSessions
<1>2. /\ DOMAIN users' = DOMAIN users \ Swept
      /\ \A u \in DOMAIN users' : users'[u] = users[u]
  BY DEF FindExpiredUserSessions, Delete, Restrict
<1>3. \A t \in tokens : t.uid \notin Swept
  BY DEF NotExpired, Swept
<1>4. NotExpired'
  BY <1>1, <1>2 DEF NotExpired, Expired
<1>5. QED
  BY <1>1, <1>2, <1>3, <1>4

LEMMA TickKeeps ==
  ASSUME MInv, NotExpired, Tick
  PROVE  /\ MInv' /\ NotExpired' /\ tokens' \subseteq tokens
         /\ UNCHANGED <<users, lobbyIdCounter, restarts>>
<1>1. /\ MInv' /\ UNCHANGED <<users, lobbyIdCounter, restarts>>
      /\ now' = now + 1 /\ tokens' = {t \in tokens : now' <= t.exp}
  BY TickStep DEF Tick
<1>2. now' \in Nat /\ TokenLife \in Nat
  BY <1>1, ConstantsAssumption DEF MInv, TypeOK, ConstantsAssumption
<1>3. ASSUME NEW t \in tokens', t.uid \in DOMAIN users'
      PROVE  ~Expired(users[t.uid])'
  <2>1. t \in tokens /\ now' <= t.exp /\ t.exp <= users[t.uid].LastTokenAt + TokenLife
    BY <1>1, <1>3 DEF MInv, NoTokenOutlivesSession
  <2>2. t.exp \in Nat /\ users[t.uid].LastTokenAt \in Nat
    BY <1>1, <1>3, <2>1 DEF MInv, TypeOK, Token, User
  <2>3. QED
    BY <1>1, <1>2, <2>1, <2>2 DEF Expired
<1>4. QED
  BY <1>1, <1>3 DEF NotExpired

-----------------------------------------------------------------------------
(* Steps of others. *)

\* A token of the client names a session of the client.
LEMMA MyTokenFact ==
  ASSUME VInv, NEW t \in MyTokens \cap tokens
  PROVE  /\ t \in Token /\ t.sub = Me
         /\ t.uid \in DOMAIN users => users[t.uid].Username = Me
<1>1. t \in Token
  BY DEF VInv, MInv, TypeOK
<1>2. t # None
  BY <1>1, SessionAssumption DEF SessionAssumption
<1>3. t.sub = Me
  BY <1>2 DEF MyTokens, VInv, ResponseOK, ClientOK
<1>4. TokenNamesItsUser
  BY DEF VInv, MInv, TokenNamesItsUserInFirstRun
<1>5. QED
  BY <1>1, <1>3, <1>4 DEF TokenNamesItsUser

\* What others leave of the client's sessions.
OthersLeave ==
  /\ \A t \in MyTokens \cap tokens' :
       /\ t \in tokens
       /\ t.uid \in DOMAIN users =>
            /\ t.uid \in DOMAIN users'
            /\ users'[t.uid].Hosting = users[t.uid].Hosting
            /\ users'[t.uid].Linkedto \in {0, users[t.uid].Linkedto}
  /\ lobbyIdCounter' \in Nat /\ lobbyIdCounter' >= lobbyIdCounter
  /\ restarts' = restarts
  /\ LobbiesBounded => LobbiesBounded'
  /\ MInv' /\ NotExpired'

LEMMA OthersFact ==
  ASSUME VInv, Others
  PROVE  OthersLeave
<1> USE DEF VInv
<1>0. /\ lobbyIdCounter \in Nat
      /\ \A t \in MyTokens \cap tokens : t.sub = Me
      /\ \A t \in MyTokens \cap tokens :
           t.uid \in DOMAIN users => users[t.uid].Username = Me
      /\ \A t \in tokens : t.uid \in DOMAIN users => users[t.uid].Username = t.sub
  BY MyTokenFact DEF MInv, TypeOK, TokenNamesItsUserInFirstRun, TokenNamesItsUser
<1>a. \A t \in MyTokens : t # None => t.sub = Me
  BY DEF MyTokens, ResponseOK, ClientOK
<1>b. ASSUME NEW t \in tokens, t.sub # Me, Keeps(t.uid), tokens' = tokens
      PROVE  OthersLeave
  BY <1>0, <1>b DEF Keeps, OthersLeave
<1>1. ASSUME NEW n \in Usernames \ {Me}, HandleLogin(n) PROVE OthersLeave
  <2> DEFINE r == NewToken(userIdCounter, n)
  <2>1. /\ Keeps(userIdCounter) /\ userIdCounter \notin DOMAIN users
        /\ tokens' = tokens \cup {r} /\ r \in Token /\ r.sub = n
    BY <1>1, LoginKeeps
  <2>2. r \notin MyTokens
    BY <1>a, <2>1, SessionAssumption DEF SessionAssumption
  <2> HIDE DEF r
  <2>3. QED
    BY <2>1, <2>2 DEF Keeps, OthersLeave
<1>2. ASSUME NEW t \in tokens, t.sub # Me, HandleLogout(t) PROVE OthersLeave
  BY <1>2, <1>b, LogoutKeeps
<1>3. ASSUME NEW t \in tokens, t.sub # Me, HandleRenew(t) PROVE OthersLeave
  <2> DEFINE r == NewToken(t.uid, users[t.uid].Username)
  <2>1. /\ Keeps(t.uid)
        /\ tokens' = tokens \cup {r} /\ r \in Token /\ r.sub = users[t.uid].Username
    BY <1>3, RenewKeeps
  <2>2. t.uid \in DOMAIN users
    BY <1>3, AuthFact DEF HandleRenew, MInv
  <2>3. r \notin MyTokens
    BY <1>0, <1>3, <1>a, <2>1, <2>2, SessionAssumption DEF SessionAssumption
  <2> HIDE DEF r
  <2>4. QED
    BY <1>0, <1>3, <2>1, <2>3 DEF Keeps, OthersLeave
<1>4. ASSUME NEW t \in tokens, t.sub # Me, HandleDeleteHostStatus(t) PROVE OthersLeave
  BY <1>4, <1>b, StopHostKeeps
<1>5. ASSUME NEW t \in tokens, t.sub # Me, NEW name \in LobbyNames,
             HandleUpdateHostStatus(t, name, FALSE)
      PROVE  OthersLeave
  BY <1>5, <1>b, HostKeeps
<1>6. ASSUME NEW t \in tokens, t.sub # Me, NEW l \in 0..MaxLobbies,
             HandleUpdateLinkStatus(t, l)
      PROVE  OthersLeave
  <2>1. l \in Nat
    BY ConstantsAssumption DEF ConstantsAssumption
  <2>2. QED
    BY <1>6, <1>b, <2>1, LinkKeeps
<1>7. CASE FindExpiredUserSessions
  BY <1>0, <1>7, SweepKeeps DEF OthersLeave, LobbiesBounded
<1>8. CASE Tick
  BY <1>0, <1>8, TickKeeps DEF OthersLeave, LobbiesBounded
<1>9. QED
  BY <1>1, <1>2, <1>3, <1>4, <1>5, <1>6, <1>7, <1>8 DEF Others

LEMMA OthersStep ==
  ASSUME VInv, Others
  PROVE  VInv'
<1>1. OthersLeave
  BY OthersFact
<1>2. UNCHANGED <<authToken, lastRenewedAt, lastCheckin, relayRole, fresh, smooth,
                  status, response>>
  BY DEF Others, clientVars
<1>3. lobbyIdCounter \in Nat
  BY DEF VInv, MInv, TypeOK
<1>4. SessionTypeOK'
  BY <1>1, <1>2, <1>3 DEF OthersLeave, VInv, SessionTypeOK, MInv
<1>5. ResponseOK'
  BY <1>1, <1>2, <1>3 DEF OthersLeave, VInv, ResponseOK, Views, NoResponse
<1>6. ClientOK' /\ RolesHold'
  BY <1>2 DEF VInv, ClientOK, RolesHold, RoleOf, StatusInUse
<1>7. ViewHolds'
  <2>1. MyTokens' = MyTokens /\ ViewAfter(response)' = ViewAfter(response)
    BY <1>2 DEF MyTokens, ViewAfter
  <2>2. QED
    BY <1>1, <1>2, <2>1 DEF OthersLeave, VInv, ViewHolds, Shows
<1>8. QED
  BY <1>1, <1>4, <1>5, <1>6, <1>7 DEF VInv, OthersLeave

-----------------------------------------------------------------------------
(* The client's requests. *)

LEMMA IdleView ==
  ASSUME VInv, Idle, AuthStatus(authToken) = OK
  PROVE  /\ authToken # None
         /\ users[authToken.uid].Username = Me
         /\ fresh \/ smooth => Shows(lastCheckin, authToken.uid)
<1>1. authToken \in tokens /\ authToken.uid \in DOMAIN users
  BY RequestFact DEF VInv
<1>2. authToken \in MyTokens \cap tokens
  BY <1>1 DEF MyTokens
<1>3. users[authToken.uid].Username = Me /\ authToken \in Token
  BY <1>1, <1>2, MyTokenFact
<1>4. ViewAfter(response) = lastCheckin /\ response.op = "none"
  BY DEF Idle, NoResponse, ViewAfter
<1>5. fresh \/ smooth => Shows(lastCheckin, authToken.uid)
  BY <1>2, <1>4 DEF VInv, ViewHolds
<1>6. QED
  BY <1>3, <1>5, SessionAssumption DEF SessionAssumption

\* A request leaves it to show what response it may get and what that shows.
LEMMA AskStep ==
  ASSUME VInv, NEW o, NEW body, NEW u, Keeps(u), Asks(o, body),
         ResponseOK', ViewHolds', o # "checkin",
         status' \in {status, "none"}, StatusInUse' = StatusInUse
  PROVE  VInv'
<1>1. /\ UNCHANGED <<authToken, lastRenewedAt, lastCheckin, relayRole, fresh, smooth>>
      /\ response'.op = o
  BY DEF Asks, clientVars
<1>2. lobbyIdCounter \in Nat
  BY DEF VInv, MInv, TypeOK
<1>3. SessionTypeOK'
  BY <1>1, <1>2 DEF Keeps, VInv, SessionTypeOK, MInv
<1>4. ClientOK' /\ RolesHold'
  BY <1>1 DEF VInv, ClientOK, RolesHold, RoleOf
<1>5. QED
  BY <1>3, <1>4 DEF VInv, Keeps, LobbiesBounded

LEMMA ConnectStep ==
  ASSUME VInv, Connect
  PROVE  VInv'
<1> DEFINE tok == NewToken(userIdCounter, Me)
<1> USE DEF VInv
<1>1. /\ Keeps(userIdCounter) /\ tok \in Token
      /\ tok.uid = userIdCounter /\ tok.sub = Me
      /\ userIdCounter \in DOMAIN users'
      /\ users'[userIdCounter].Hosting = 0
      /\ users'[userIdCounter].Linkedto = 0
  BY LoginKeeps, SessionAssumption DEF Connect, SessionAssumption
<1>2. /\ Asks("connect", tok) /\ authToken = None
      /\ response' = [op |-> "connect", body |-> tok]
      /\ UNCHANGED <<authToken, lastCheckin, relayRole, fresh, smooth, status>>
      /\ status = "none" /\ Idle
  BY DEF Connect, Connected, NewUserId, Asks, clientVars
<1> HIDE DEF tok
<1>3. ResponseOK'
  BY <1>1, <1>2 DEF ResponseOK, NoResponse
<1>4. ViewHolds'
  <2>1. SUFFICES ASSUME smooth, NEW t \in MyTokens' \cap tokens'
                 PROVE  Shows(ViewAfter(response), t.uid)'
    BY <1>2 DEF ViewHolds, ClientOK
  <2>2. MyTokens' = {None, tok} /\ tokens' \subseteq Token
    BY <1>1, <1>2 DEF MyTokens, Keeps, MInv, TypeOK
  <2>3. t = tok
    BY <2>2, SessionAssumption DEF SessionAssumption
  <2>4. lastCheckin' = [Hosting |-> FALSE, LinkedLobby |-> 0]
    BY <1>2, <2>1 DEF ClientOK
  <2>5. ViewAfter(response)' = lastCheckin'
    BY <1>2 DEF ViewAfter
  <2>6. QED
    BY <1>1, <2>3, <2>4, <2>5 DEF Shows
<1>5. StatusInUse' = StatusInUse
  BY <1>2 DEF StatusInUse, Idle, NoResponse
<1>6. QED
  BY <1>1, <1>2, <1>3, <1>4, <1>5, AskStep

LEMMA OwnLogoutStep ==
  ASSUME VInv, Logout
  PROVE  VInv'
<1> USE DEF VInv
<1>1. /\ AuthStatus(authToken) = OK /\ Asks("logout", None) /\ Idle
      /\ status = "none" /\ UNCHANGED status
  BY DEF Logout, HandleLogout, Asks
<1>2. authToken # None /\ authToken \in tokens
  BY <1>1, IdleView, RequestFact
<1>3. Keeps(authToken.uid)
  BY <1>2, LogoutKeeps DEF Logout
<1>4. response' = [op |-> "logout", body |-> None] /\ UNCHANGED <<authToken, lastCheckin>>
  BY <1>1 DEF Asks, clientVars
<1>5. ResponseOK' /\ ViewHolds'
  BY <1>1, <1>2, <1>4 DEF ResponseOK, ViewHolds, NoResponse
<1>6. StatusInUse' = StatusInUse
  BY <1>1, <1>4 DEF StatusInUse, Idle, NoResponse
<1>7. QED
  BY <1>1, <1>3, <1>5, <1>6, AskStep

LEMMA RenewTokenStep ==
  ASSUME VInv, RenewToken
  PROVE  VInv'
<1> DEFINE r == NewToken(authToken.uid, users[authToken.uid].Username)
<1> USE DEF VInv
<1>1. AuthStatus(authToken) = OK /\ Asks("renew", r) /\ Idle /\ UNCHANGED status
  BY DEF RenewToken, HandleRenew, Asks
<1>2. /\ authToken # None /\ authToken \in tokens
      /\ users[authToken.uid].Username = Me
      /\ fresh \/ smooth => Shows(lastCheckin, authToken.uid)
  BY <1>1, IdleView, RequestFact
<1>3. /\ \A v : Keeps(v)
      /\ r \in Token /\ r.uid = authToken.uid /\ r.sub = Me
  BY <1>2, RenewKeeps DEF RenewToken
<1> HIDE DEF r
<1>4. /\ response' = [op |-> "renew", body |-> r]
      /\ UNCHANGED <<authToken, lastCheckin, fresh, smooth>>
  BY <1>1 DEF Asks, clientVars
<1>5. ResponseOK'
  BY <1>2, <1>3, <1>4 DEF ResponseOK, NoResponse
<1>6. ViewHolds'
  <2>1. SUFFICES ASSUME fresh \/ smooth, NEW t \in MyTokens'
                 PROVE  Shows(ViewAfter(response), t.uid)'
    BY <1>4 DEF ViewHolds
  <2>2. t.uid = authToken.uid /\ ViewAfter(response)' = lastCheckin
    BY <1>3, <1>4 DEF MyTokens, ViewAfter
  <2>3. Shows(lastCheckin, authToken.uid)
    BY <1>2, <2>1
  <2>4. Keeps(authToken.uid + 1) /\ authToken.uid \in Nat
    BY <1>1, <1>3, RequestFact
  <2>5. QED
    BY <2>2, <2>3, <2>4 DEF Shows, Keeps
<1>7. StatusInUse' = StatusInUse
  BY <1>1, <1>4 DEF StatusInUse, Idle, NoResponse
<1>8. QED
  BY <1>1, <1>3, <1>5, <1>6, <1>7, AskStep

LEMMA HostRequestStep ==
  ASSUME VInv, Host
  PROVE  VInv'
<1> USE DEF VInv
<1>1. PICK name \in LobbyNames : HandleUpdateHostStatus(authToken, name, FALSE)
  BY DEF Host
<1>2. /\ AuthStatus(authToken) = OK /\ Asks("host", None) /\ Idle
      /\ status = "idle" /\ status' = "none"
  BY <1>1 DEF Host, Command, Asks, HandleUpdateHostStatus, HostStatus, AuthStatus, OK,
     NoContent, Forbidden, NotFound
<1>3. /\ authToken # None /\ authToken \in tokens
      /\ fresh \/ smooth => Shows(lastCheckin, authToken.uid)
  BY <1>2, IdleView, RequestFact
<1>4. /\ Keeps(authToken.uid)
      /\ authToken.uid \in DOMAIN users'
      /\ users'[authToken.uid].Hosting > 0
      /\ users'[authToken.uid].Linkedto = users[authToken.uid].Linkedto
  BY <1>1, <1>3, HostKeeps
<1>5. /\ response' = [op |-> "host", body |-> None]
      /\ UNCHANGED <<authToken, lastCheckin, fresh, smooth>>
  BY <1>2 DEF Asks, clientVars
<1>6. ResponseOK'
  BY <1>2, <1>3, <1>5 DEF ResponseOK, NoResponse
<1>7. ViewHolds'
  <2>1. MyTokens' = {authToken}
    BY <1>5 DEF MyTokens
  <2>2. /\ ViewAfter(response)'.Hosting
        /\ ViewAfter(response)'.LinkedLobby = lastCheckin.LinkedLobby
    BY <1>5 DEF ViewAfter, SessionTypeOK
  <2>3. QED
    BY <1>3, <1>4, <1>5, <2>1, <2>2 DEF ViewHolds, Shows
<1>8. StatusInUse' = StatusInUse
  BY <1>2, <1>5 DEF StatusInUse, Idle, NoResponse
<1>9. QED
  BY <1>2, <1>4, <1>6, <1>7, <1>8, AskStep

LEMMA StopHostRequestStep ==
  ASSUME VInv, StopHost
  PROVE  VInv'
<1> USE DEF VInv
<1>1. HandleDeleteHostStatus(authToken)
  BY DEF StopHost
<1>2. /\ AuthStatus(authToken) = OK /\ Asks("stop", None) /\ Idle
      /\ status = "hosting" /\ status' = "none"
  BY <1>1 DEF StopHost, Command, Asks, HandleDeleteHostStatus, StopHostStatus, AuthStatus,
     OK, NoContent, Forbidden, NotFound
<1>3. /\ authToken # None /\ authToken \in tokens
      /\ fresh \/ smooth => Shows(lastCheckin, authToken.uid)
  BY <1>2, IdleView, RequestFact
<1>4. /\ Keeps(authToken.uid)
      /\ authToken.uid \in DOMAIN users'
      /\ users'[authToken.uid].Hosting = 0
      /\ users'[authToken.uid].Linkedto = users[authToken.uid].Linkedto
  BY <1>1, <1>3, StopHostKeeps
<1>5. /\ response' = [op |-> "stop", body |-> None]
      /\ UNCHANGED <<authToken, lastCheckin, fresh, smooth>>
  BY <1>2 DEF Asks, clientVars
<1>6. ResponseOK'
  BY <1>2, <1>3, <1>5 DEF ResponseOK, NoResponse
<1>7. ViewHolds'
  <2>1. MyTokens' = {authToken}
    BY <1>5 DEF MyTokens
  <2>2. /\ ~ViewAfter(response)'.Hosting
        /\ ViewAfter(response)'.LinkedLobby = lastCheckin.LinkedLobby
    BY <1>5 DEF ViewAfter, SessionTypeOK
  <2>3. QED
    BY <1>3, <1>4, <1>5, <2>1, <2>2 DEF ViewHolds, Shows
<1>8. StatusInUse' = StatusInUse
  BY <1>2, <1>5 DEF StatusInUse, Idle, NoResponse
<1>9. QED
  BY <1>2, <1>4, <1>6, <1>7, <1>8, AskStep

\* Link and Unlink differ in the lobby asked for.
LEMMA LinkRequestStep ==
  ASSUME VInv, NEW l \in Nat, NEW o, NEW body, Asks(o, body),
         HandleUpdateLinkStatus(authToken, l),
         status' = "none",
         \/ /\ o = "link" /\ body = [LinkedLobby |-> l]
            /\ l \in DOMAIN lobbies /\ status = "idle"
         \/ o = "unlink" /\ l = 0 /\ status = "linked"
  PROVE  VInv'
<1> USE DEF VInv
<1>1. AuthStatus(authToken) = OK /\ Idle
  BY DEF Asks, HandleUpdateLinkStatus, LinkStatus, AuthStatus, OK, NoContent,
     Forbidden, NotFound, Conflict, Locked
<1>2. /\ authToken # None /\ authToken \in tokens
      /\ fresh \/ smooth => Shows(lastCheckin, authToken.uid)
  BY <1>1, IdleView, RequestFact
<1>3. /\ Keeps(authToken.uid)
      /\ authToken.uid \in DOMAIN users'
      /\ users'[authToken.uid].Hosting = users[authToken.uid].Hosting
      /\ users'[authToken.uid].Linkedto = l
  BY <1>2, LinkKeeps
<1>4. /\ response' = [op |-> o, body |-> body]
      /\ UNCHANGED <<authToken, lastCheckin, fresh, smooth>>
  BY DEF Asks, clientVars
<1>5. o = "link" => l \in 1..(lobbyIdCounter' - 1)
  BY <1>3 DEF Keeps, MInv, TypeOK
<1>6. ResponseOK'
  BY <1>2, <1>4, <1>5 DEF ResponseOK, NoResponse
<1>7. ViewHolds'
  <2>1. MyTokens' = {authToken}
    BY <1>4 DEF MyTokens
  <2>2. /\ ViewAfter(response)'.Hosting = lastCheckin.Hosting
        /\ ViewAfter(response)'.LinkedLobby = l
    <3>1. CASE o = "link"
      BY <1>4, <3>1 DEF ViewAfter, SessionTypeOK
    <3>2. CASE o = "unlink"
      BY <1>4, <3>2 DEF ViewAfter, SessionTypeOK
    <3>3. QED
      BY <3>1, <3>2
  <2>3. QED
    BY <1>2, <1>3, <1>4, <2>1, <2>2 DEF ViewHolds, Shows
<1>8. StatusInUse' = StatusInUse
  BY <1>1, <1>4 DEF StatusInUse, Idle, NoResponse
<1>9. QED
  BY <1>3, <1>6, <1>7, <1>8, AskStep

LEMMA ServerSame ==
  ASSUME VInv, UNCHANGED serverVars
  PROVE  /\ MInv' /\ NotExpired' /\ restarts' = 0 /\ LobbiesBounded'
         /\ UNCHANGED <<tokens, lobbyIdCounter>>
         /\ \A v, u : Shows(v, u) => Shows(v, u)'
<1>1. UNCHANGED vars
  BY DEF serverVars, vars
<1>2. MInv'
  BY <1>1, StutterStep DEF VInv
<1>3. QED
  BY <1>2 DEF serverVars, VInv, NotExpired, Expired, LobbiesBounded, Shows

LEMMA CheckinStep ==
  ASSUME VInv, Checkin
  PROVE  VInv'
<1> DEFINE uid == authToken.uid
           view == [Hosting |-> users[uid].Hosting > 0, LinkedLobby |-> users[uid].Linkedto]
<1> USE DEF VInv
<1>1. /\ AuthStatus(authToken) = OK /\ Idle
      /\ UNCHANGED serverVars /\ UNCHANGED status
      /\ Asks("checkin", view)
  BY DEF Checkin, HandleCheckin, Asks, serverVars, vars, View, CheckinResponse
<1>2. /\ authToken # None /\ authToken \in tokens /\ uid \in DOMAIN users
      /\ users[uid].Linkedto \in Nat
      /\ fresh \/ smooth => Shows(lastCheckin, uid)
  BY <1>1, IdleView, RequestFact
<1>3. /\ MInv' /\ NotExpired' /\ restarts' = 0 /\ LobbiesBounded'
      /\ UNCHANGED <<tokens, lobbyIdCounter>>
      /\ \A v, u : Shows(v, u) => Shows(v, u)'
  BY <1>1, ServerSame
<1>4. /\ UNCHANGED <<authToken, lastRenewedAt, lastCheckin, relayRole, fresh, smooth>>
      /\ response' = [op |-> "checkin", body |-> view]
  BY <1>1 DEF Asks, clientVars
<1>5. SessionTypeOK'
  BY <1>1, <1>3, <1>4 DEF SessionTypeOK, MInv
<1>6. view \in Views
  BY <1>2 DEF Views, MInv, LinksArePast, TypeOK
<1>7. ResponseOK'
  BY <1>2, <1>3, <1>4, <1>6 DEF ResponseOK, NoResponse, Views
<1>8. ClientOK'
  BY <1>4 DEF ClientOK
<1>9. ViewHolds'
  <2>1. MyTokens' = {authToken} /\ ViewAfter(response)' = view
    BY <1>4 DEF MyTokens, ViewAfter
  <2>2. Shows(view, uid)
    BY <1>2 DEF Shows
  <2>3. QED
    BY <1>3, <2>1, <2>2 DEF ViewHolds
<1>10. RolesHold'
  <2>1. StatusInUse' = StatusInUse
    BY <1>1, <1>4 DEF StatusInUse, Idle, NoResponse
  <2>2. QED
    BY <1>2, <1>4, <2>1 DEF RolesHold, RoleOf, Shows, SessionTypeOK
<1>11. QED
  BY <1>3, <1>5, <1>7, <1>8, <1>9, <1>10

-----------------------------------------------------------------------------
(* The responses. *)

\* Of the roles: what the relay is told agrees with what the client then shows.
LEMMA ReceiveRoles ==
  ASSUME VInv, Receive
  PROVE  RolesHold'
<1> USE DEF VInv
<1>0. /\ response' = NoResponse
      /\ lastCheckin' = ViewAfter(response)
      /\ relayRole' = RoleAfter(response)
      /\ smooth' => smooth
      /\ status' = status
      /\ lobbyIdCounter \in Nat
  BY DEF Receive, MInv, TypeOK
<1>1. StatusInUse' = status
  BY <1>0 DEF StatusInUse, NoResponse
<1>2. SUFFICES ASSUME smooth'
               PROVE  /\ ~(lastCheckin'.Hosting /\ lastCheckin'.LinkedLobby > 0)
                      /\ relayRole' = RoleOf(lastCheckin')
                      /\ status = "idle" =>
                           ~lastCheckin'.Hosting /\ lastCheckin'.LinkedLobby = 0
                      /\ status = "hosting" => lastCheckin'.Hosting
                      /\ status = "linked" => ~lastCheckin'.Hosting
  BY <1>0, <1>1 DEF RolesHold, NoResponse, RoleOf
<1>3. /\ ~(lastCheckin.Hosting /\ lastCheckin.LinkedLobby > 0)
      /\ relayRole = RoleOf(lastCheckin)
      /\ StatusInUse = "idle" => ~lastCheckin.Hosting /\ lastCheckin.LinkedLobby = 0
      /\ StatusInUse = "hosting" => lastCheckin.Hosting
      /\ StatusInUse = "linked" => ~lastCheckin.Hosting
  BY <1>0, <1>2 DEF RolesHold
<1>4. lastCheckin \in Views
  BY DEF SessionTypeOK, Views
<1>5. response.op \notin {"none", "checkin", "renew"} => status = "none"
  BY DEF ResponseOK
<1>6. CASE response.op = "checkin"
  <2>1. /\ lastCheckin' = response.body /\ response.body \in Views
        /\ response.body.Hosting = lastCheckin.Hosting
        /\ response.body.LinkedLobby \in {0, lastCheckin.LinkedLobby}
        /\ StatusInUse = status
    BY <1>0, <1>2, <1>6 DEF ViewAfter, RolesHold, ResponseOK, StatusInUse
  <2>2. relayRole' = IF LinkGone(response) THEN "idle" ELSE relayRole
    BY <1>0, <1>6 DEF RoleAfter
  <2>3. QED
    BY <1>0, <1>3, <1>4, <1>6, <2>1, <2>2 DEF RoleOf, LinkGone, Views
<1>7. CASE response.op = "host"
  <2>1. /\ lastCheckin' = [lastCheckin EXCEPT !.Hosting = TRUE]
        /\ relayRole' = "hosting" /\ lastCheckin.LinkedLobby = 0
    BY <1>0, <1>3, <1>7 DEF ViewAfter, RoleAfter, LinkGone, StatusInUse
  <2>2. QED
    BY <1>4, <1>5, <1>7, <2>1 DEF RoleOf, Views
<1>8. CASE response.op = "stop"
  <2>1. /\ lastCheckin' = [lastCheckin EXCEPT !.Hosting = FALSE]
        /\ relayRole' = "idle" /\ lastCheckin.Hosting
    BY <1>0, <1>3, <1>8 DEF ViewAfter, RoleAfter, StatusInUse
  <2>2. QED
    BY <1>3, <1>4, <1>5, <1>8, <2>1 DEF RoleOf, Views
<1>9. CASE response.op = "link"
  <2>1. /\ lastCheckin' = [lastCheckin EXCEPT !.LinkedLobby = response.body.LinkedLobby]
        /\ relayRole' = "linked" /\ ~lastCheckin.Hosting
        /\ response.body.LinkedLobby \in 1..(lobbyIdCounter - 1)
    BY <1>0, <1>3, <1>9 DEF ViewAfter, RoleAfter, LinkGone, ResponseOK, StatusInUse
  <2>2. QED
    BY <1>0, <1>4, <1>5, <1>9, <2>1 DEF RoleOf, Views
<1>10. CASE response.op = "unlink"
  <2>1. /\ lastCheckin' = [lastCheckin EXCEPT !.LinkedLobby = 0]
        /\ relayRole' = "idle" /\ ~lastCheckin.Hosting
    BY <1>0, <1>3, <1>10 DEF ViewAfter, RoleAfter, StatusInUse
  <2>2. QED
    BY <1>4, <1>5, <1>10, <2>1 DEF RoleOf, Views
<1>11. CASE response.op \in {"none", "connect", "logout", "renew"}
  <2>1. /\ UNCHANGED <<lastCheckin, relayRole>>
        /\ status \in {"none", StatusInUse}
    BY <1>0, <1>5, <1>11 DEF ViewAfter, RoleAfter, LinkGone, StatusInUse
  <2>2. QED
    BY <1>3, <2>1
<1>12. QED
  BY <1>6, <1>7, <1>8, <1>9, <1>10, <1>11 DEF ResponseOK

LEMMA ReceiveStep ==
  ASSUME VInv, Receive
  PROVE  VInv'
<1> USE DEF VInv
<1>1. /\ MInv' /\ NotExpired' /\ restarts' = 0 /\ LobbiesBounded'
      /\ UNCHANGED <<tokens, lobbyIdCounter>>
      /\ \A v, u : Shows(v, u) => Shows(v, u)'
  BY ServerSame DEF Receive
<1>2. /\ response' = NoResponse /\ response.op # "none"
      /\ lastCheckin' = ViewAfter(response)
      /\ relayRole' = RoleAfter(response)
      /\ UNCHANGED status
      /\ lobbyIdCounter \in Nat
  BY DEF Receive, Idle, ResponseOK, MInv, TypeOK
<1>3. \/ /\ response.op \in {"connect", "renew"}
         /\ authToken' = response.body /\ authToken' \in Token
         /\ authToken' # None /\ authToken'.sub = Me
         /\ lastRenewedAt' = now
         /\ fresh' = (response.op = "renew" /\ fresh)
         /\ UNCHANGED smooth
      \/ /\ response.op = "logout"
         /\ authToken' = None /\ fresh' = FALSE /\ smooth' = FALSE
         /\ UNCHANGED lastRenewedAt
      \/ /\ response.op \in {"checkin", "host", "stop", "link", "unlink"}
         /\ fresh' = (fresh \/ response.op = "checkin")
         /\ authToken # None
         /\ UNCHANGED <<authToken, lastRenewedAt, smooth>>
  BY <1>2, SessionAssumption DEF Receive, ResponseOK, SessionAssumption
<1>4. lastCheckin' \in Views
  <2>1. lastCheckin \in Views
    BY DEF SessionTypeOK, Views
  <2>2. /\ response.op = "checkin" => response.body \in Views
        /\ response.op = "link" => response.body.LinkedLobby \in 0..(lobbyIdCounter - 1)
    BY <1>2 DEF ResponseOK
  <2>3. 0 \in 0..(lobbyIdCounter - 1)
    BY DEF MInv, TypeOK
  <2>4. QED
    BY <1>2, <2>1, <2>2, <2>3 DEF ViewAfter, Views
<1>5. relayRole' \in {"idle", "hosting", "linked"}
  BY <1>2 DEF RoleAfter, SessionTypeOK
<1>6. SessionTypeOK'
  <2>1. /\ TypeOK' /\ now \in Nat
        /\ authToken' \in Token \cup {None}
        /\ fresh' \in BOOLEAN /\ smooth' \in BOOLEAN /\ lastRenewedAt' \in Nat
    BY <1>1, <1>3 DEF SessionTypeOK, MInv, TypeOK
  <2>2. QED
    BY <1>1, <1>2, <1>4, <1>5, <2>1 DEF SessionTypeOK, Views
<1>7. ResponseOK'
  BY <1>2 DEF ResponseOK, NoResponse
<1>8. ClientOK'
  BY <1>3 DEF ClientOK
<1>9. ViewHolds'
  <2>1. SUFFICES ASSUME fresh' \/ smooth', NEW t \in MyTokens' \cap tokens'
                 PROVE  Shows(ViewAfter(response), t.uid)'
    BY <1>2 DEF ViewHolds, NoResponse
  <2>2. t = authToken' /\ t \in tokens
    BY <1>1, <1>2, <2>1 DEF MyTokens, NoResponse
  <2>3. /\ t \in MyTokens /\ response.op # "logout"
        /\ fresh \/ smooth \/ response.op = "checkin"
    <3>1. t \in MyTokens
      BY <1>3, <2>1, <2>2 DEF MyTokens
    <3>2. response.op # "logout"
      BY <1>3, <2>1
    <3>3. fresh \in BOOLEAN /\ smooth \in BOOLEAN
      BY DEF SessionTypeOK
    <3>4. fresh \/ smooth \/ response.op = "checkin"
      BY <1>3, <2>1, <3>3
    <3>5. QED
      BY <3>1, <3>2, <3>4
  <2>4. Shows(ViewAfter(response), t.uid)
    BY <2>2, <2>3 DEF ViewHolds
  <2>5. ViewAfter(response)' = lastCheckin'
    BY <1>2 DEF ViewAfter, NoResponse
  <2>6. QED
    BY <1>1, <1>2, <2>4, <2>5 DEF Shows
<1>10. RolesHold'
  BY ReceiveRoles
<1>11. QED
  BY <1>1, <1>6, <1>7, <1>8, <1>9, <1>10

\* Without a token, nothing is said of the view.
LEMMA DisconnectStep ==
  ASSUME VInv, Disconnect, response' = NoResponse
  PROVE  VInv'
<1> USE DEF VInv
<1>1. /\ MInv' /\ NotExpired' /\ restarts' = 0 /\ LobbiesBounded'
      /\ UNCHANGED lobbyIdCounter
  BY ServerSame DEF Disconnect
<1>2. /\ authToken' = None /\ fresh' = FALSE /\ smooth' = FALSE /\ status' = "none"
      /\ UNCHANGED <<lastRenewedAt, lastCheckin, relayRole>>
  BY DEF Disconnect
<1>3. SessionTypeOK'
  BY <1>1, <1>2 DEF SessionTypeOK, MInv
<1>4. ResponseOK' /\ ClientOK' /\ ViewHolds' /\ RolesHold'
  BY <1>2 DEF ResponseOK, ClientOK, ViewHolds, RolesHold, NoResponse
<1>5. QED
  BY <1>1, <1>3, <1>4

LEMMA LoseResponseStep ==
  ASSUME VInv, LoseResponse
  PROVE  VInv'
<1> USE DEF VInv
<1>0. response' = NoResponse
  BY DEF LoseResponse
<1>1. CASE Disconnect
  BY <1>0, <1>1, DisconnectStep
<1>2. CASE /\ ~DisconnectsOnLoss(response)
           /\ fresh' = (fresh /\ response.op = "renew")
           /\ smooth' = (smooth /\ response.op \in {"renew", "checkin"})
           /\ UNCHANGED <<serverVars, status, authToken, lastRenewedAt, lastCheckin, relayRole>>
  <2>1. /\ MInv' /\ NotExpired' /\ restarts' = 0 /\ LobbiesBounded'
        /\ UNCHANGED <<tokens, lobbyIdCounter>>
        /\ \A v, u : Shows(v, u) => Shows(v, u)'
    BY <1>2, ServerSame
  <2>2. SessionTypeOK'
    BY <1>0, <1>2, <2>1 DEF SessionTypeOK, MInv
  <2>3. ResponseOK'
    BY <1>0 DEF ResponseOK, NoResponse
  <2>4. /\ fresh' => fresh /\ response.op = "renew"
        /\ smooth' => smooth /\ response.op = "renew"
    BY <1>2 DEF DisconnectsOnLoss
  <2>5. ClientOK' /\ RolesHold'
    BY <1>0, <1>2, <2>4 DEF ClientOK, RolesHold, RoleOf, StatusInUse, NoResponse, ResponseOK
  <2>6. ViewHolds'
    <3>1. SUFFICES ASSUME fresh' \/ smooth', NEW t \in MyTokens' \cap tokens'
                   PROVE  Shows(ViewAfter(response), t.uid)'
      BY <1>0 DEF ViewHolds, NoResponse
    <3>2. t \in MyTokens \cap tokens /\ response.op = "renew"
      BY <1>0, <1>2, <2>1, <2>4, <3>1 DEF MyTokens, NoResponse
    <3>3. /\ ViewAfter(response) = lastCheckin
          /\ ViewAfter(response)' = lastCheckin
      BY <1>0, <1>2, <3>2 DEF ViewAfter, NoResponse
    <3>4. Shows(lastCheckin, t.uid)
      BY <2>4, <3>1, <3>2, <3>3 DEF ViewHolds
    <3>5. QED
      BY <2>1, <3>3, <3>4
  <2>7. QED
    BY <2>1, <2>2, <2>3, <2>5, <2>6
<1>3. QED
  BY <1>1, <1>2 DEF LoseResponse

\* A status is the role shown when it is taken.
LEMMA StatusStep ==
  ASSUME VInv, GetStatus \/ CommandFails
  PROVE  VInv'
<1> USE DEF VInv
<1>1. /\ UNCHANGED serverVars /\ UNCHANGED response
      /\ UNCHANGED <<authToken, lastRenewedAt, lastCheckin, relayRole, fresh, smooth>>
      /\ status' \in {"none", Seen}
      /\ response = NoResponse
  BY DEF GetStatus, CommandFails, clientVars, Idle
<1>2. /\ MInv' /\ NotExpired' /\ restarts' = 0 /\ LobbiesBounded'
      /\ UNCHANGED <<tokens, lobbyIdCounter>>
      /\ \A v, u : Shows(v, u) => Shows(v, u)'
  BY <1>1, ServerSame
<1>3. SessionTypeOK'
  BY <1>1, <1>2 DEF SessionTypeOK, MInv, Seen
<1>4. ResponseOK' /\ ClientOK'
  BY <1>1, <1>2 DEF ResponseOK, ClientOK, NoResponse
<1>5. RolesHold'
  <2>1. /\ lastCheckin.Hosting \in BOOLEAN /\ lastCheckin.LinkedLobby \in Nat
        /\ StatusInUse' = status'
    BY <1>1 DEF SessionTypeOK, MInv, TypeOK, StatusInUse, NoResponse
  <2>2. QED
    BY <1>1, <2>1 DEF RolesHold, RoleOf, Seen, NoResponse
<1>6. ViewHolds'
  <2>1. MyTokens' = MyTokens /\ ViewAfter(response)' = ViewAfter(response)
    BY <1>1 DEF MyTokens, ViewAfter
  <2>2. QED
    BY <1>1, <1>2, <2>1 DEF ViewHolds
<1>7. QED
  BY <1>2, <1>3, <1>4, <1>5, <1>6

LEMMA SessionStutter ==
  ASSUME VInv, UNCHANGED sessionVars
  PROVE  VInv'
<1> USE DEF VInv
<1>1. /\ UNCHANGED serverVars /\ UNCHANGED clientVars
      /\ UNCHANGED response /\ UNCHANGED status
  BY DEF sessionVars
<1>2. /\ MInv' /\ NotExpired' /\ restarts' = 0 /\ LobbiesBounded'
      /\ UNCHANGED <<tokens, lobbyIdCounter>>
      /\ \A v, u : Shows(v, u) => Shows(v, u)'
  BY <1>1, ServerSame
<1>3. UNCHANGED <<authToken, lastRenewedAt, lastCheckin, relayRole, fresh, smooth>>
  BY <1>1 DEF clientVars
<1>4. SessionTypeOK'
  BY <1>1, <1>2, <1>3 DEF SessionTypeOK, MInv
<1>5. ResponseOK' /\ ClientOK' /\ RolesHold'
  BY <1>1, <1>2, <1>3 DEF ResponseOK, ClientOK, RolesHold, RoleOf, StatusInUse, Views,
     NoResponse
<1>6. ViewHolds'
  <2>1. MyTokens' = MyTokens /\ ViewAfter(response)' = ViewAfter(response)
    BY <1>1, <1>3 DEF MyTokens, ViewAfter
  <2>2. QED
    BY <1>1, <1>2, <1>3, <2>1 DEF ViewHolds
<1>7. QED
  BY <1>2, <1>4, <1>5, <1>6

-----------------------------------------------------------------------------
(* The invariant. *)

LEMMA SessionInitVInv == SessionInit => VInv
<1> SUFFICES ASSUME SessionInit PROVE VInv
  OBVIOUS
<1> USE DEF SessionInit
<1>1. MInv
  BY InitMInv
<1>2. restarts = 0 /\ tokens = {} /\ lobbyIdCounter = 1
  BY DEF Init
<1>3. SessionTypeOK
  <2>1. 0 \in 0..(lobbyIdCounter - 1)
    BY <1>2
  <2>2. lastCheckin = [Hosting |-> FALSE, LinkedLobby |-> 0]
    OBVIOUS
  <2>3. lastCheckin \in [Hosting : BOOLEAN, LinkedLobby : 0..(lobbyIdCounter - 1)]
    BY <2>1, <2>2
  <2>4. TypeOK
    BY <1>1 DEF MInv
  <2>5. QED
    BY <2>3, <2>4 DEF SessionTypeOK
<1>4. NotExpired /\ ResponseOK /\ ClientOK /\ ViewHolds /\ RolesHold
  BY <1>2 DEF NotExpired, ResponseOK, ClientOK, ViewHolds, RolesHold, RoleOf,
     StatusInUse, NoResponse
<1>5. LobbiesBounded
  BY <1>2, ConstantsAssumption DEF LobbiesBounded, ConstantsAssumption
<1>6. QED
  BY <1>1, <1>2, <1>3, <1>4, <1>5 DEF VInv

LEMMA SessionNextVInv == VInv /\ [SessionNext]_sessionVars => VInv'
<1> SUFFICES ASSUME VInv, [SessionNext]_sessionVars PROVE VInv'
  OBVIOUS
<1>1. CASE Connect
  BY <1>1, ConnectStep
<1>2. CASE Logout
  BY <1>2, OwnLogoutStep
<1>3. CASE RenewToken
  BY <1>3, RenewTokenStep
<1>4. CASE Checkin
  BY <1>4, CheckinStep
<1>5. CASE Host
  BY <1>5, HostRequestStep
<1>6. CASE StopHost
  BY <1>6, StopHostRequestStep
<1>7. ASSUME NEW l \in DOMAIN lobbies, Link(l) PROVE VInv'
  <2>1. l \in Nat
    BY DEF VInv, MInv, TypeOK
  <2>2. QED
    BY <1>7, <2>1, LinkRequestStep DEF Link, Command
<1>8. CASE Unlink
  BY <1>8, LinkRequestStep DEF Unlink, Command
<1>9. CASE Receive
  BY <1>9, ReceiveStep
<1>10. CASE LoseResponse
  BY <1>10, LoseResponseStep
<1>11. CASE CheckinFails \/ TokenExpired
  BY <1>11, DisconnectStep DEF CheckinFails, TokenExpired, Idle
<1>12. CASE Others
  BY <1>12, OthersStep
<1>13. CASE UNCHANGED sessionVars
  BY <1>13, SessionStutter
<1>14. CASE GetStatus \/ CommandFails
  BY <1>14, StatusStep
<1>15. QED
  BY <1>1, <1>2, <1>3, <1>4, <1>5, <1>6, <1>7, <1>8, <1>9, <1>10, <1>11, <1>12, <1>13,
     <1>14 DEF SessionNext

THEOREM SessionInvariance == SessionSpec => []VInv
<1>1. SessionInit => VInv
  BY SessionInitVInv
<1>2. VInv /\ [SessionNext]_sessionVars => VInv'
  BY SessionNextVInv
<1>3. QED
  BY <1>1, <1>2, PTL DEF SessionSpec

\* The client's variables, and the server's, keep the types of their Go fields,
\* whatever is lost (client/rest.go: authToken, lastCheckin).
THEOREM SessionTypeCorrect == SessionSpec => []SessionTypeOK
<1>1. VInv => SessionTypeOK
  BY DEF VInv
<1>2. QED
  BY <1>1, SessionInvariance, PTL

\* While no request is under way, a client that has checked in, and has lost
\* no response since, shows the roles that the server has for it, and its
\* session exists as long as its token verifies (client/rest.go: checkin).
THEOREM ViewIsServers == SessionSpec => []ViewMatchesServer
<1>1. VInv => ViewMatchesServer
  <2> SUFFICES ASSUME VInv, Idle, authToken \in tokens, fresh
               PROVE  Shows(lastCheckin, authToken.uid)
    BY DEF ViewMatchesServer, Quiet, Shows
  <2>1. ViewAfter(response) = lastCheckin /\ response.op = "none"
    BY DEF Idle, NoResponse, ViewAfter
  <2>2. authToken \in MyTokens \cap tokens
    BY DEF MyTokens
  <2>3. QED
    BY <2>1, <2>2 DEF VInv, ViewHolds
<1>2. QED
  BY <1>1, SessionInvariance, PTL

\* The relays at both ends work for the same role until a response is lost or
\* a session ends (client/rest.go and server/rest.go: the onUser... calls).
THEOREM RelaysWorkTogether == SessionSpec => []RelaysAgree
<1>1. VInv => RelaysAgree
  <2> SUFFICES ASSUME VInv, Idle, authToken \in tokens, smooth
               PROVE  RelaysAgree
    BY DEF RelaysAgree, Quiet
  <2> DEFINE uid == authToken.uid
  <2>1. ViewAfter(response) = lastCheckin /\ response.op = "none"
    BY DEF Idle, NoResponse, ViewAfter
  <2>2. authToken \in MyTokens \cap tokens
    BY DEF MyTokens
  <2>3. Shows(lastCheckin, uid)
    BY <2>1, <2>2 DEF VInv, ViewHolds
  <2>4. /\ uid \in DOMAIN users
        /\ users[uid].Hosting \in Nat /\ users[uid].Linkedto \in Nat
        /\ lastCheckin.LinkedLobby \in Nat /\ lastCheckin.Hosting \in BOOLEAN
    BY <2>3 DEF Shows, VInv, SessionTypeOK, TypeOK, User
  <2>5. Told(uid).hosting <=> users[uid].Hosting > 0
    BY <2>4 DEF VInv, MInv, RelayToldUnlessReleased
  <2>6. /\ ~(lastCheckin.Hosting /\ lastCheckin.LinkedLobby > 0)
        /\ relayRole = RoleOf(lastCheckin)
    BY DEF VInv, RolesHold
  <2>7. relayRole = "hosting" <=> Told(uid).hosting
    BY <2>3, <2>4, <2>5, <2>6 DEF Shows, RoleOf
  <2>8. relayRole = "linked" <=> lastCheckin.LinkedLobby > 0
    BY <2>4, <2>6 DEF RoleOf
  <2>9. users[uid].Linkedto > 0 => relayRole = "linked"
    BY <2>3, <2>4, <2>8 DEF Shows
  <2>10. QED
    BY <2>7, <2>8, <2>9 DEF RelaysAgree
<1>2. QED
  BY <1>1, SessionInvariance, PTL
=============================================================================

-------------------------- MODULE MatchmakerProofs --------------------------
(***************************************************************************)
(* Proofs about Matchmaker for any sets of names, any token life and any   *)
(* bounds.  MInv is the inductive invariant: the invariants of the module  *)
(* and what they need to be preserved, namely that ids, links and the      *)
(* relay's records lie in the past of their counters and that no token     *)
(* expires later than a token issued now would.                            *)
(***************************************************************************)
EXTENDS Matchmaker, TLAPS

\* No link names a lobby that has not been created yet.
LinksArePast == \A u \in DOMAIN users : users[u].Linkedto < lobbyIdCounter

\* The relay has only heard of users who have logged in.
ToldArePast == DOMAIN told \subseteq 0..(userIdCounter - 1)

\* No session forwards to a user who has yet to log in.
TargetsArePast ==
  \A u \in DOMAIN users :
    Told(u).forwardTo > 0 => Told(u).forwardTo < userIdCounter

\* No token lasts longer than one issued now.
TokensWithinLife == \A t \in tokens : t.exp <= now + TokenLife

\* Until the first restart, tokens name users of this run of the server.
TokensArePast ==
  restarts = 0 => \A t \in tokens : t.uid < userIdCounter

\* Until the first restart, a token authenticates as the user it is for.
TokenNamesItsUserInFirstRun == restarts = 0 => TokenNamesItsUser

MInv ==
  /\ TypeOK
  /\ LobbiesAndHostsAgree
  /\ HostIsNotLinked
  /\ UniqueUsernames
  /\ NoTokenOutlivesSession
  /\ TokenNamesItsUserInFirstRun
  /\ RelayToldUnlessReleased
  /\ LinksArePast
  /\ ToldArePast
  /\ TargetsArePast
  /\ TokensWithinLife
  /\ TokensArePast

-----------------------------------------------------------------------------
(* What the helpers return. *)

LEMMA AssignType ==
  ASSUME NEW T, NEW m, m \in [DOMAIN m -> T], NEW k, NEW v \in T
  PROVE  Assign(m, k, v) \in [DOMAIN m \cup {k} -> T]
BY DEF Assign

LEMMA DeleteType ==
  ASSUME NEW T, NEW m, m \in [DOMAIN m -> T], NEW ks
  PROVE  Delete(m, ks) \in [DOMAIN m \ ks -> T]
BY DEF Delete, Restrict

\* Dropping the fraction of a second never lengthens a token's life.
LEMMA WholeSecondsFact ==
  ASSUME NEW t \in Nat
  PROVE  WholeSeconds(t) \in Nat /\ WholeSeconds(t) <= t
BY ConstantsAssumption DEF WholeSeconds, ConstantsAssumption

LEMMA NewTokenFact ==
  ASSUME TypeOK, NEW uid \in Nat, NEW name \in Usernames
  PROVE  LET t == NewToken(uid, name)
         IN  t \in Token /\ t.uid = uid /\ t.sub = name
             /\ t.exp <= now + TokenLife
<1>1. now + TokenLife \in Nat
  BY ConstantsAssumption DEF ConstantsAssumption, TypeOK
<1>2. QED
  BY <1>1, WholeSecondsFact DEF NewToken, Token

\* A request that authenticates comes from a user in the map.
LEMMA AuthFact ==
  ASSUME TypeOK, NEW t \in tokens, AuthStatus(t) = OK
  PROVE  /\ t.uid \in DOMAIN users /\ t.uid \in Nat
         /\ users[t.uid] \in User /\ users[t.uid].Username \in Usernames
         /\ users[t.uid].Hosting \in Nat /\ users[t.uid].Linkedto \in Nat
<1>1. t.uid \in DOMAIN users /\ t.uid \in Nat
  BY DEF AuthStatus, OK, Forbidden, NotFound, TypeOK, Token
<1>2. users[t.uid] \in User
  BY <1>1 DEF TypeOK
<1>3. QED
  BY <1>1, <1>2 DEF User

\* A signal, whether the relay was told one or not.
LEMMA ToldFact ==
  ASSUME TypeOK, NEW u
  PROVE  Told(u) \in Signal /\ Told(u).forwardTo \in Nat
BY DEF TypeOK, Told, IdleSignal, Signal

LEMMA InitMInv == Init => MInv
<1> SUFFICES ASSUME Init PROVE MInv
  OBVIOUS
<1>1. DOMAIN users = {} /\ DOMAIN lobbies = {} /\ DOMAIN told = {}
  BY DEF Init
<1>2. TypeOK
  BY <1>1 DEF Init, TypeOK
<1>3. QED
  BY <1>1, <1>2 DEF Init, MInv, LobbiesAndHostsAgree, HostIsNotLinked,
     UniqueUsernames, NoTokenOutlivesSession, TokenNamesItsUserInFirstRun,
     TokenNamesItsUser, RelayToldUnlessReleased, LinksArePast, ToldArePast,
     TargetsArePast, TokensWithinLife, TokensArePast

-----------------------------------------------------------------------------
(* Each action preserves the invariant. *)

LEMMA LoginStep ==
  ASSUME MInv, NEW n \in Usernames, HandleLogin(n)
  PROVE  MInv'
<1> DEFINE uid == userIdCounter
           user == [Username |-> n, Linkedto |-> 0, Hosting |-> 0,
                    LastTokenAt |-> now]
           tok == NewToken(uid, n)
<1>1. /\ \A u \in DOMAIN users : users[u].Username # n
      /\ users' = Assign(users, uid, user)
      /\ tokens' = tokens \cup {tok}
      /\ userIdCounter' = userIdCounter + 1
      /\ UNCHANGED <<lobbies, lobbyIdCounter, told, now, restarts>>
  BY DEF HandleLogin, LoginStatus, NewUserId, Created, Conflict, BadRequest
<1>2. uid \in Nat /\ now \in Nat /\ uid \notin DOMAIN users /\ uid \notin DOMAIN told
  BY DEF MInv, TypeOK, ToldArePast
<1>3. user \in User
  BY <1>2 DEF User
<1>4. /\ DOMAIN users' = DOMAIN users \cup {uid}
      /\ users'[uid] = user
      /\ \A u \in DOMAIN users : users'[u] = users[u]
      /\ users' \in [DOMAIN users' -> User]
  <2> HIDE DEF user
  <2>1. users \in [DOMAIN users -> User]
    BY DEF MInv, TypeOK
  <2>2. Assign(users, uid, user) \in [DOMAIN users \cup {uid} -> User]
    BY <1>3, <2>1, AssignType
  <2>3. QED
    BY <1>1, <1>2, <2>2 DEF Assign
<1>5. tok \in Token /\ tok.uid = uid /\ tok.sub = n /\ tok.exp <= now + TokenLife
  BY <1>2, NewTokenFact DEF MInv
<1> HIDE DEF tok
<1>6. TypeOK'
  BY <1>1, <1>2, <1>4, <1>5 DEF MInv, TypeOK
<1>7. LobbiesAndHostsAgree'
  BY <1>1, <1>2, <1>4 DEF MInv, LobbiesAndHostsAgree
<1>8. HostIsNotLinked'
  BY <1>1, <1>4 DEF MInv, HostIsNotLinked
<1>9. UniqueUsernames'
  BY <1>1, <1>4 DEF MInv, UniqueUsernames
<1>10. NoTokenOutlivesSession'
  BY <1>1, <1>4, <1>5 DEF MInv, NoTokenOutlivesSession, TokensWithinLife
<1>11. TokenNamesItsUserInFirstRun' /\ TokensArePast'
  BY <1>1, <1>2, <1>4, <1>5 DEF MInv, TypeOK, Token, TokensArePast,
     TokenNamesItsUserInFirstRun, TokenNamesItsUser
<1>12. RelayToldUnlessReleased' /\ TargetsArePast'
  <2> HIDE DEF uid
  <2>1. told' = told /\ uid = userIdCounter
    BY <1>1 DEF uid
  <2>2. \A u \in DOMAIN users' :
          /\ u = uid => ~(u \in DOMAIN told')
          /\ u # uid => u \in DOMAIN users /\ users'[u] = users[u]
    BY <1>2, <1>4, <2>1
  <2>3. RelayToldUnlessReleased'
    <3>1. SUFFICES ASSUME NEW u \in DOMAIN users'
                   PROVE  /\ Told(u)'.hosting <=> users'[u].Hosting > 0
                          /\ users'[u].Linkedto \in DOMAIN lobbies =>
                               Told(u)'.forwardTo =
                                 lobbies[users'[u].Linkedto].HostUserID
                          /\ users'[u].Linkedto = 0 /\ Told(u)'.forwardTo > 0 =>
                               Told(u)'.forwardTo \notin DOMAIN users'
      BY <1>1 DEF RelayToldUnlessReleased
    <3>2. CASE u = uid
      <4>1. Told(u)' = IdleSignal
        BY <2>2, <3>2 DEF Told
      <4>2. users'[u].Hosting = 0 /\ users'[u].Linkedto = 0 /\ 0 \notin DOMAIN lobbies
        BY <1>4, <3>2 DEF user, MInv, TypeOK
      <4>3. QED
        BY <4>1, <4>2 DEF IdleSignal
    <3>3. CASE u # uid
      <4>1. Told(u)' = Told(u) /\ u \in DOMAIN users /\ users'[u] = users[u]
        BY <2>1, <2>2, <3>3 DEF Told
      <4>2. Told(u).forwardTo > 0 => Told(u).forwardTo # uid
        BY <1>2, <2>1, <4>1 DEF MInv, TargetsArePast
      <4>3. QED
        BY <1>4, <4>1, <4>2 DEF MInv, RelayToldUnlessReleased
    <3>4. QED
      BY <3>2, <3>3
  <2>4. TargetsArePast'
    <3>1. SUFFICES ASSUME NEW u \in DOMAIN users', Told(u)'.forwardTo > 0
                   PROVE  Told(u)'.forwardTo < userIdCounter'
      BY DEF TargetsArePast
    <3>2. u # uid
      BY <2>2, <3>1 DEF Told, IdleSignal
    <3>3. Told(u)' = Told(u) /\ u \in DOMAIN users
      BY <2>1, <2>2, <3>2 DEF Told
    <3>4. Told(u).forwardTo \in Nat
      BY ToldFact DEF MInv
    <3>5. QED
      BY <1>1, <1>2, <2>1, <3>1, <3>3, <3>4 DEF MInv, TargetsArePast
  <2>5. QED
    BY <2>3, <2>4
<1>13. LinksArePast' /\ ToldArePast' /\ TokensWithinLife'
  BY <1>1, <1>2, <1>4, <1>5 DEF MInv, TypeOK, LinksArePast, ToldArePast,
     TokensWithinLife
<1>14. QED
  BY <1>6, <1>7, <1>8, <1>9, <1>10, <1>11, <1>12, <1>13 DEF MInv

LEMMA RenewStep ==
  ASSUME MInv, NEW t \in tokens, HandleRenew(t)
  PROVE  MInv'
<1> DEFINE uid == t.uid
           tok == NewToken(uid, users[uid].Username)
<1>1. /\ uid \in DOMAIN users /\ uid \in Nat
      /\ users[uid] \in User /\ users[uid].Username \in Usernames
  BY AuthFact DEF HandleRenew, MInv
<1>2. now \in Nat
  BY DEF MInv, TypeOK
<1>3. /\ users' = [users EXCEPT ![uid] = [users[uid] EXCEPT !.LastTokenAt = now]]
      /\ tokens' = tokens \cup {tok}
      /\ UNCHANGED <<lobbies, userIdCounter, lobbyIdCounter, told, now, restarts>>
  BY DEF HandleRenew, Renewed
<1>4. tok \in Token /\ tok.uid = uid /\ tok.sub = users[uid].Username
      /\ tok.exp <= now + TokenLife
  BY <1>1, <1>2, NewTokenFact DEF MInv
<1> HIDE DEF tok
<1>5. /\ DOMAIN users' = DOMAIN users
      /\ users'[uid].LastTokenAt = now
      /\ \A u \in DOMAIN users :
           /\ users'[u].Username = users[u].Username
           /\ users'[u].Linkedto = users[u].Linkedto
           /\ users'[u].Hosting = users[u].Hosting
           /\ u # uid => users'[u] = users[u]
      /\ users' \in [DOMAIN users -> User]
  BY <1>1, <1>2, <1>3 DEF MInv, TypeOK, User
<1>6. TypeOK'
  BY <1>3, <1>4, <1>5 DEF MInv, TypeOK
<1>7. LobbiesAndHostsAgree'
  BY <1>3, <1>5 DEF MInv, LobbiesAndHostsAgree
<1>8. HostIsNotLinked' /\ UniqueUsernames'
  BY <1>5 DEF MInv, HostIsNotLinked, UniqueUsernames
<1>9. NoTokenOutlivesSession'
  BY <1>3, <1>4, <1>5 DEF MInv, NoTokenOutlivesSession, TokensWithinLife
<1>10. TokenNamesItsUserInFirstRun' /\ TokensArePast'
  BY <1>1, <1>3, <1>4, <1>5 DEF MInv, TypeOK, TokensArePast,
     TokenNamesItsUserInFirstRun, TokenNamesItsUser
<1>11. RelayToldUnlessReleased' /\ TargetsArePast'
  BY <1>3, <1>5 DEF MInv, RelayToldUnlessReleased, TargetsArePast, Told
<1>12. LinksArePast' /\ ToldArePast' /\ TokensWithinLife'
  BY <1>3, <1>4, <1>5 DEF MInv, LinksArePast, ToldArePast, TokensWithinLife
<1>13. QED
  BY <1>6, <1>7, <1>8, <1>9, <1>10, <1>11, <1>12 DEF MInv

LEMMA HostStep ==
  ASSUME MInv, NEW t \in tokens, NEW name \in LobbyNames,
         NEW password \in BOOLEAN, HandleUpdateHostStatus(t, name, password)
  PROVE  MInv'
<1> DEFINE uid == t.uid
           lid == lobbyIdCounter
           lobby == [Name |-> name, HostUserID |-> uid, Password |-> password]
<1>1. AuthStatus(t) = OK /\ ~HostConflict(users[uid])
  BY DEF HandleUpdateHostStatus, HostStatus, AuthStatus, OK, NoContent,
     BadRequest, Forbidden, NotFound, Conflict
<1>2. /\ uid \in DOMAIN users /\ uid \in Nat /\ users[uid] \in User
      /\ users[uid].Hosting = 0 /\ users[uid].Linkedto = 0
  BY <1>1, AuthFact DEF MInv, HostConflict
<1>3. /\ lobbies' = Assign(lobbies, lid, lobby)
      /\ users' = [users EXCEPT ![uid].Hosting = lid]
      /\ lobbyIdCounter' = lid + 1
      /\ told' = Assign(told, uid, HostingSignal)
      /\ UNCHANGED <<userIdCounter, tokens, now, restarts>>
  BY DEF HandleUpdateHostStatus, NewLobbyId
<1>4. lid \in Nat \ {0} /\ lid \notin DOMAIN lobbies
  BY DEF MInv, TypeOK
<1>5. /\ DOMAIN lobbies' = DOMAIN lobbies \cup {lid}
      /\ lobbies'[lid] = lobby
      /\ \A l \in DOMAIN lobbies : lobbies'[l] = lobbies[l]
  BY <1>3, <1>4 DEF Assign
<1>6. lobbies' \in [DOMAIN lobbies' -> Lobby]
  <2>1. lobbies \in [DOMAIN lobbies -> Lobby] /\ lobby \in Lobby
    BY <1>2 DEF MInv, TypeOK, Lobby
  <2> HIDE DEF lobby
  <2>2. QED
    BY <1>3, <1>5, <2>1, AssignType
<1>7. /\ DOMAIN users' = DOMAIN users
      /\ users'[uid].Hosting = lid
      /\ \A u \in DOMAIN users :
           /\ users'[u].Username = users[u].Username
           /\ users'[u].Linkedto = users[u].Linkedto
           /\ users'[u].LastTokenAt = users[u].LastTokenAt
           /\ u # uid => users'[u] = users[u]
      /\ users' \in [DOMAIN users -> User]
  BY <1>2, <1>3, <1>4 DEF MInv, TypeOK, User
<1>8. /\ DOMAIN told' = DOMAIN told \cup {uid}
      /\ told' \in [DOMAIN told' -> Signal]
      /\ Told(uid)' = HostingSignal
      /\ \A u \in DOMAIN users \ {uid} : Told(u)' = Told(u)
  <2>1. HostingSignal \in Signal /\ told \in [DOMAIN told -> Signal]
    BY DEF HostingSignal, Signal, MInv, TypeOK
  <2>2. Assign(told, uid, HostingSignal) \in [DOMAIN told \cup {uid} -> Signal]
    BY <2>1, AssignType
  <2>3. QED
    BY <1>3, <2>2 DEF Assign, Told
<1>9. TypeOK'
  BY <1>2, <1>3, <1>4, <1>5, <1>6, <1>7, <1>8 DEF MInv, TypeOK
<1>10. LobbiesAndHostsAgree'
  BY <1>2, <1>4, <1>5, <1>7 DEF MInv, TypeOK, LobbiesAndHostsAgree
<1>11. HostIsNotLinked' /\ UniqueUsernames'
  BY <1>2, <1>7 DEF MInv, HostIsNotLinked, UniqueUsernames
<1>12. NoTokenOutlivesSession' /\ TokenNamesItsUserInFirstRun'
  BY <1>3, <1>7 DEF MInv, NoTokenOutlivesSession, TokenNamesItsUserInFirstRun,
     TokenNamesItsUser
<1>13. RelayToldUnlessReleased' /\ TargetsArePast'
  <2>1. RelayToldUnlessReleased'
    BY <1>2, <1>4, <1>5, <1>7, <1>8 DEF MInv, TypeOK, RelayToldUnlessReleased,
       LinksArePast, HostingSignal
  <2>2. TargetsArePast'
    BY <1>3, <1>7, <1>8 DEF MInv, TargetsArePast, HostingSignal
  <2>3. QED
    BY <2>1, <2>2
<1>14. LinksArePast' /\ ToldArePast' /\ TokensWithinLife' /\ TokensArePast'
  BY <1>2, <1>3, <1>4, <1>7, <1>8 DEF MInv, TypeOK, User, LinksArePast,
     ToldArePast, TokensWithinLife, TokensArePast
<1>15. QED
  BY <1>9, <1>10, <1>11, <1>12, <1>13, <1>14 DEF MInv

LEMMA StopHostStep ==
  ASSUME MInv, NEW t \in tokens, HandleDeleteHostStatus(t)
  PROVE  MInv'
<1> DEFINE uid == t.uid
           lid == users[uid].Hosting
<1>1. AuthStatus(t) = OK /\ ~(users[uid].Hosting < 1)
  BY DEF HandleDeleteHostStatus, StopHostStatus, AuthStatus, OK, NoContent,
     Forbidden, NotFound
<1>2. /\ uid \in DOMAIN users /\ uid \in Nat /\ users[uid] \in User
      /\ lid \in Nat \ {0}
  BY <1>1, AuthFact DEF MInv
<1>3. /\ lobbies' = Delete(lobbies, {lid})
      /\ users' = [users EXCEPT ![uid].Hosting = 0]
      /\ told' = Assign(told, uid, IdleSignal)
      /\ UNCHANGED <<userIdCounter, lobbyIdCounter, tokens, now, restarts>>
  BY DEF HandleDeleteHostStatus
<1>4. lid \in DOMAIN lobbies /\ lobbies[lid].HostUserID = uid
  BY <1>2 DEF MInv, LobbiesAndHostsAgree
<1> HIDE DEF lid
<1>5. /\ DOMAIN lobbies' = DOMAIN lobbies \ {lid}
      /\ \A l \in DOMAIN lobbies \ {lid} : lobbies'[l] = lobbies[l]
      /\ lobbies' \in [DOMAIN lobbies' -> Lobby]
  BY <1>3 DEF Delete, Restrict, MInv, TypeOK
<1>6. /\ DOMAIN users' = DOMAIN users
      /\ users'[uid].Hosting = 0
      /\ \A u \in DOMAIN users :
           /\ users'[u].Username = users[u].Username
           /\ users'[u].Linkedto = users[u].Linkedto
           /\ users'[u].LastTokenAt = users[u].LastTokenAt
           /\ u # uid => users'[u] = users[u]
      /\ users' \in [DOMAIN users -> User]
  BY <1>2, <1>3 DEF MInv, TypeOK, User
<1>7. /\ DOMAIN told' = DOMAIN told \cup {uid}
      /\ told' \in [DOMAIN told' -> Signal]
      /\ Told(uid)' = IdleSignal
      /\ \A u \in DOMAIN users \ {uid} : Told(u)' = Told(u)
  <2>1. IdleSignal \in Signal /\ told \in [DOMAIN told -> Signal]
    BY DEF IdleSignal, Signal, MInv, TypeOK
  <2>2. Assign(told, uid, IdleSignal) \in [DOMAIN told \cup {uid} -> Signal]
    BY <2>1, AssignType
  <2>3. QED
    BY <1>3, <2>2 DEF Assign, Told
<1>8. TypeOK'
  BY <1>2, <1>3, <1>5, <1>6, <1>7 DEF MInv, TypeOK
<1>9. LobbiesAndHostsAgree'
  BY <1>2, <1>4, <1>5, <1>6 DEF MInv, TypeOK, LobbiesAndHostsAgree, lid
<1>10. HostIsNotLinked' /\ UniqueUsernames'
  BY <1>6 DEF MInv, HostIsNotLinked, UniqueUsernames
<1>11. NoTokenOutlivesSession' /\ TokenNamesItsUserInFirstRun'
  BY <1>3, <1>6 DEF MInv, NoTokenOutlivesSession, TokenNamesItsUserInFirstRun,
     TokenNamesItsUser
<1>12. RelayToldUnlessReleased' /\ TargetsArePast'
  <2>1. users[uid].Linkedto = 0 /\ 0 \notin DOMAIN lobbies
    BY <1>2 DEF MInv, TypeOK, HostIsNotLinked, lid
  <2>2. RelayToldUnlessReleased'
    BY <1>5, <1>6, <1>7, <2>1 DEF MInv, RelayToldUnlessReleased, IdleSignal
  <2>3. TargetsArePast'
    BY <1>3, <1>6, <1>7 DEF MInv, TargetsArePast, IdleSignal
  <2>4. QED
    BY <2>2, <2>3
<1>13. LinksArePast' /\ ToldArePast' /\ TokensWithinLife' /\ TokensArePast'
  BY <1>2, <1>3, <1>6, <1>7 DEF MInv, TypeOK, LinksArePast, ToldArePast,
     TokensWithinLife, TokensArePast
<1>14. QED
  BY <1>8, <1>9, <1>10, <1>11, <1>12, <1>13 DEF MInv

LEMMA LinkStep ==
  ASSUME MInv, NEW t \in tokens, NEW l \in Nat, HandleUpdateLinkStatus(t, l)
  PROVE  MInv'
<1> DEFINE uid == t.uid
           signal == IF l = 0 THEN IdleSignal ELSE LinkSignal(l)
<1>1. /\ AuthStatus(t) = OK
      /\ ~(users[uid].Hosting > 0)
      /\ l = 0 \/ l \in DOMAIN lobbies
  BY DEF HandleUpdateLinkStatus, LinkStatus, AuthStatus, OK, NoContent,
     Forbidden, NotFound, Conflict, Locked
<1>2. /\ uid \in DOMAIN users /\ uid \in Nat /\ users[uid] \in User
      /\ users[uid].Hosting = 0
  BY <1>1, AuthFact DEF MInv
<1>3. /\ users' = [users EXCEPT ![uid].Linkedto = l]
      /\ told' = Assign(told, uid, signal)
      /\ UNCHANGED <<lobbies, userIdCounter, lobbyIdCounter, tokens, now,
                     restarts>>
  BY DEF HandleUpdateLinkStatus
<1>4. /\ signal \in Signal
      /\ signal.hosting = FALSE
      /\ l \in DOMAIN lobbies => signal.forwardTo = lobbies[l].HostUserID
  BY <1>1 DEF MInv, TypeOK, Lobby, Signal, IdleSignal, LinkSignal
<1> HIDE DEF signal
<1>5. /\ DOMAIN users' = DOMAIN users
      /\ users'[uid].Linkedto = l
      /\ \A u \in DOMAIN users :
           /\ users'[u].Username = users[u].Username
           /\ users'[u].Hosting = users[u].Hosting
           /\ users'[u].LastTokenAt = users[u].LastTokenAt
           /\ u # uid => users'[u] = users[u]
      /\ users' \in [DOMAIN users -> User]
  BY <1>2, <1>3 DEF MInv, TypeOK, User
<1>6. /\ DOMAIN told' = DOMAIN told \cup {uid}
      /\ told' \in [DOMAIN told' -> Signal]
      /\ Told(uid)' = signal
      /\ \A u \in DOMAIN users \ {uid} : Told(u)' = Told(u)
  <2>1. told \in [DOMAIN told -> Signal]
    BY DEF MInv, TypeOK
  <2>2. Assign(told, uid, signal) \in [DOMAIN told \cup {uid} -> Signal]
    BY <1>4, <2>1, AssignType
  <2>3. QED
    BY <1>3, <2>2 DEF Assign, Told
<1>7. TypeOK'
  BY <1>2, <1>3, <1>5, <1>6 DEF MInv, TypeOK
<1>8. LobbiesAndHostsAgree'
  BY <1>3, <1>5 DEF MInv, LobbiesAndHostsAgree
<1>9. HostIsNotLinked' /\ UniqueUsernames'
  BY <1>2, <1>5 DEF MInv, HostIsNotLinked, UniqueUsernames
<1>10. NoTokenOutlivesSession' /\ TokenNamesItsUserInFirstRun'
  BY <1>3, <1>5 DEF MInv, NoTokenOutlivesSession, TokenNamesItsUserInFirstRun,
     TokenNamesItsUser
<1>11. RelayToldUnlessReleased' /\ TargetsArePast'
  <2>1. l = 0 => signal.forwardTo = 0
    BY DEF signal, IdleSignal
  <2>2. RelayToldUnlessReleased'
    BY <1>2, <1>3, <1>4, <1>5, <1>6, <2>1 DEF MInv, RelayToldUnlessReleased
  <2>3. signal.forwardTo > 0 => signal.forwardTo < userIdCounter
    <3>1. \A k \in DOMAIN lobbies : lobbies[k].HostUserID \in 0..(userIdCounter - 1)
      BY DEF MInv, TypeOK, LobbiesAndHostsAgree
    <3>2. userIdCounter \in Nat
      BY DEF MInv, TypeOK
    <3>3. QED
      BY <1>1, <1>4, <2>1, <3>1, <3>2
  <2>4. TargetsArePast'
    BY <1>3, <1>5, <1>6, <2>3 DEF MInv, TargetsArePast
  <2>5. QED
    BY <2>2, <2>4
<1>12. LinksArePast' /\ ToldArePast' /\ TokensWithinLife' /\ TokensArePast'
  BY <1>1, <1>2, <1>3, <1>5, <1>6 DEF MInv, TypeOK, LinksArePast, ToldArePast,
     TokensWithinLife, TokensArePast
<1>13. QED
  BY <1>7, <1>8, <1>9, <1>10, <1>11, <1>12 DEF MInv

LEMMA LogoutStep ==
  ASSUME MInv, NEW t \in tokens, HandleLogout(t)
  PROVE  MInv'
<1> DEFINE uid == t.uid
           lid == users[uid].Hosting
<1>1. AuthStatus(t) = OK
  BY DEF HandleLogout
<1>2. /\ uid \in DOMAIN users /\ uid \in Nat /\ users[uid] \in User
      /\ lid \in Nat
  BY <1>1, AuthFact DEF MInv
<1>3. UNCHANGED <<userIdCounter, lobbyIdCounter, tokens, now, restarts>>
  BY DEF HandleLogout
\* Whether or not the user hosts, its session goes, its lobby goes and no
\* other session changes but for a link.
<1>4. /\ DOMAIN users' = DOMAIN users \ {uid}
      /\ users' \in [DOMAIN users' -> User]
      /\ \A u \in DOMAIN users' :
           /\ users'[u].Username = users[u].Username
           /\ users'[u].Hosting = users[u].Hosting
           /\ users'[u].LastTokenAt = users[u].LastTokenAt
           /\ \/ users'[u].Linkedto = users[u].Linkedto
              \/ users'[u].Linkedto = 0 /\ users[u].Linkedto = lid /\ lid > 0
  <2>1. CASE lid = 0
    BY <1>2, <2>1 DEF HandleLogout, Delete, Restrict, MInv, TypeOK
  <2>2. CASE lid > 0
    <3>1. users' = Delete(GuestsReleased(lid), {uid})
      BY <2>2 DEF HandleLogout
    <3>2. \A u \in DOMAIN users : users[u] \in User
      BY DEF MInv, TypeOK
    <3>3. /\ DOMAIN GuestsReleased(lid) = DOMAIN users
          /\ \A u \in DOMAIN users :
               LET v == GuestsReleased(lid)[u]
               IN  /\ v \in User
                   /\ v.Username = users[u].Username
                   /\ v.Hosting = users[u].Hosting
                   /\ v.LastTokenAt = users[u].LastTokenAt
                   /\ \/ v.Linkedto = users[u].Linkedto
                      \/ v.Linkedto = 0 /\ users[u].Linkedto = lid
      BY <3>2 DEF GuestsReleased, User
    <3>4. QED
      BY <2>2, <3>1, <3>3 DEF Delete, Restrict
  <2>3. QED
    BY <1>2, <2>1, <2>2
<1>5. /\ DOMAIN lobbies' = DOMAIN lobbies \ {lid}
      /\ \A l \in DOMAIN lobbies \ {lid} : lobbies'[l] = lobbies[l]
      /\ lobbies' \in [DOMAIN lobbies' -> Lobby]
  <2>1. CASE lid = 0
    <3>1. UNCHANGED lobbies
      BY <2>1 DEF HandleLogout
    <3>2. lobbies \in [DOMAIN lobbies -> Lobby] /\ 0 \notin DOMAIN lobbies
      BY DEF MInv, TypeOK
    <3>3. QED
      BY <2>1, <3>1, <3>2
  <2>2. CASE lid > 0
    BY <2>2 DEF HandleLogout, Delete, Restrict, MInv, TypeOK
  <2>3. QED
    BY <1>2, <2>1, <2>2
<1>6. /\ DOMAIN told' \subseteq DOMAIN told \cup {uid}
      /\ told' \in [DOMAIN told' -> Signal]
      /\ \A u \in DOMAIN users \ {uid} : Told(u)' = Told(u)
  <2>1. IdleSignal \in Signal /\ told \in [DOMAIN told -> Signal]
    BY DEF IdleSignal, Signal, MInv, TypeOK
  <2>2. CASE lid = 0
    BY <2>1, <2>2 DEF HandleLogout, Told
  <2>3. CASE lid > 0
    <3>1. told' = Assign(told, uid, IdleSignal)
      BY <2>3 DEF HandleLogout
    <3>2. Assign(told, uid, IdleSignal) \in [DOMAIN told \cup {uid} -> Signal]
      BY <2>1, AssignType
    <3>3. QED
      BY <3>1, <3>2 DEF Assign, Told
  <2>4. QED
    BY <1>2, <2>2, <2>3
<1>7. \A u \in DOMAIN users \ {uid} : users[u].Hosting > 0 => users[u].Hosting # lid
  BY <1>2 DEF MInv, LobbiesAndHostsAgree
<1>8. \A l \in DOMAIN lobbies' : lobbies[l].HostUserID # uid
  BY <1>5 DEF MInv, LobbiesAndHostsAgree
<1>9. \A u \in DOMAIN users : users[u].Hosting \in Nat /\ users[u].Linkedto \in Nat
  BY DEF MInv, TypeOK, User
<1> HIDE DEF lid
<1>10. TypeOK'
  BY <1>2, <1>3, <1>4, <1>5, <1>6 DEF MInv, TypeOK
<1>11. LobbiesAndHostsAgree'
  BY <1>4, <1>5, <1>7, <1>8 DEF MInv, LobbiesAndHostsAgree
<1>12. HostIsNotLinked' /\ UniqueUsernames'
  BY <1>4, <1>9 DEF MInv, HostIsNotLinked, UniqueUsernames
<1>13. NoTokenOutlivesSession' /\ TokenNamesItsUserInFirstRun'
  BY <1>3, <1>4 DEF MInv, NoTokenOutlivesSession, TokenNamesItsUserInFirstRun,
     TokenNamesItsUser
<1>14. RelayToldUnlessReleased' /\ TargetsArePast'
  <2>1. 0 \notin DOMAIN lobbies
    BY DEF MInv, TypeOK
  <2>2. lid > 0 => lid \in DOMAIN lobbies /\ lobbies[lid].HostUserID = uid
    BY <1>2 DEF MInv, LobbiesAndHostsAgree, lid
  <2>3. \A u \in DOMAIN users' :
          /\ u \in DOMAIN users /\ Told(u)' = Told(u)
          /\ users'[u].Linkedto = 0 /\ Told(u).forwardTo > 0 =>
               Told(u).forwardTo \notin DOMAIN users'
    BY <1>4, <1>6, <2>2 DEF MInv, RelayToldUnlessReleased
  <2>4. RelayToldUnlessReleased'
    BY <1>4, <1>5, <2>1, <2>3 DEF MInv, RelayToldUnlessReleased
  <2>5. TargetsArePast'
    BY <1>3, <2>3 DEF MInv, TargetsArePast
  <2>6. QED
    BY <2>4, <2>5
<1>15. LinksArePast' /\ ToldArePast' /\ TokensWithinLife' /\ TokensArePast'
  <2>1. LinksArePast'
    BY <1>3, <1>4, <1>9 DEF MInv, TypeOK, LinksArePast
  <2>2. uid \in 0..(userIdCounter - 1)
    BY <1>2 DEF MInv, TypeOK
  <2>3. QED
    BY <1>3, <1>6, <2>1, <2>2 DEF MInv, ToldArePast, TokensWithinLife,
       TokensArePast
<1>16. QED
  BY <1>10, <1>11, <1>12, <1>13, <1>14, <1>15 DEF MInv

LEMMA SweepStep ==
  ASSUME MInv, FindExpiredUserSessions
  PROVE  MInv'
<1>1. /\ DOMAIN users' = DOMAIN users \ Swept
      /\ \A u \in DOMAIN users' : users'[u] = users[u]
      /\ users' \in [DOMAIN users' -> User]
  BY DEF FindExpiredUserSessions, Delete, Restrict, MInv, TypeOK
<1>2. /\ DOMAIN lobbies' = DOMAIN lobbies \ LobbiesHostedBy(Swept)
      /\ \A l \in DOMAIN lobbies' : lobbies'[l] = lobbies[l]
      /\ lobbies' \in [DOMAIN lobbies' -> Lobby]
  BY DEF FindExpiredUserSessions, Delete, Restrict, MInv, TypeOK
<1>3. UNCHANGED <<userIdCounter, lobbyIdCounter, told, tokens, now, restarts>>
  BY DEF FindExpiredUserSessions
<1>4. Swept \subseteq DOMAIN users
  BY DEF Swept
<1>5. LobbiesHostedBy(Swept) = {users[u].Hosting : u \in Swept}
  BY DEF LobbiesHostedBy
<1> HIDE DEF Swept
<1>6. TypeOK'
  BY <1>1, <1>2, <1>3 DEF MInv, TypeOK
<1>7. LobbiesAndHostsAgree'
  <2>1. ASSUME NEW l \in DOMAIN lobbies'
        PROVE  /\ lobbies[l].HostUserID \in DOMAIN users'
               /\ users[lobbies[l].HostUserID].Hosting = l
    BY <1>1, <1>2, <1>5, <2>1 DEF MInv, LobbiesAndHostsAgree
  <2>2. ASSUME NEW u \in DOMAIN users', users[u].Hosting > 0
        PROVE  /\ users[u].Hosting \in DOMAIN lobbies'
               /\ lobbies[users[u].Hosting].HostUserID = u
    <3>1. /\ users[u].Hosting \in DOMAIN lobbies
          /\ lobbies[users[u].Hosting].HostUserID = u
      BY <1>1, <2>2 DEF MInv, LobbiesAndHostsAgree
    <3>2. ASSUME NEW v \in Swept
          PROVE  users[v].Hosting # users[u].Hosting
      <4>1. users[v].Hosting > 0 => lobbies[users[v].Hosting].HostUserID = v
        BY <1>4 DEF MInv, LobbiesAndHostsAgree
      <4>2. QED
        BY <1>1, <2>2, <3>1, <4>1
    <3>3. QED
      BY <1>2, <1>5, <3>1, <3>2
  <2>3. QED
    BY <1>1, <1>2, <2>1, <2>2 DEF LobbiesAndHostsAgree
<1>8. HostIsNotLinked' /\ UniqueUsernames'
  BY <1>1 DEF MInv, HostIsNotLinked, UniqueUsernames
<1>9. NoTokenOutlivesSession' /\ TokenNamesItsUserInFirstRun'
  BY <1>1, <1>3 DEF MInv, NoTokenOutlivesSession, TokenNamesItsUserInFirstRun,
     TokenNamesItsUser
<1>10. RelayToldUnlessReleased' /\ TargetsArePast'
  BY <1>1, <1>2, <1>3 DEF MInv, RelayToldUnlessReleased, TargetsArePast, Told
<1>11. LinksArePast' /\ ToldArePast' /\ TokensWithinLife' /\ TokensArePast'
  BY <1>1, <1>3 DEF MInv, LinksArePast, ToldArePast, TokensWithinLife,
     TokensArePast
<1>12. QED
  BY <1>6, <1>7, <1>8, <1>9, <1>10, <1>11 DEF MInv

LEMMA TickStep ==
  ASSUME MInv, Tick
  PROVE  MInv'
<1>1. /\ now' = now + 1 /\ now \in Nat
      /\ tokens' \subseteq tokens
      /\ UNCHANGED <<users, lobbies, userIdCounter, lobbyIdCounter, told,
                     restarts>>
  BY DEF Tick, MInv, TypeOK
<1>2. TypeOK'
  BY <1>1 DEF MInv, TypeOK
<1>3. /\ LobbiesAndHostsAgree' /\ HostIsNotLinked' /\ UniqueUsernames'
      /\ LinksArePast' /\ ToldArePast'
  BY <1>1 DEF MInv, LobbiesAndHostsAgree, HostIsNotLinked, UniqueUsernames,
     LinksArePast, ToldArePast
<1>4. /\ NoTokenOutlivesSession' /\ TokenNamesItsUserInFirstRun'
      /\ TokensArePast'
  BY <1>1 DEF MInv, NoTokenOutlivesSession, TokenNamesItsUserInFirstRun,
     TokenNamesItsUser, TokensArePast
<1>5. RelayToldUnlessReleased' /\ TargetsArePast'
  BY <1>1 DEF MInv, RelayToldUnlessReleased, TargetsArePast, Told
<1>6. TokensWithinLife'
  BY <1>1, ConstantsAssumption DEF MInv, TypeOK, Token, TokensWithinLife,
     ConstantsAssumption
<1>7. QED
  BY <1>2, <1>3, <1>4, <1>5, <1>6 DEF MInv

\* A restart empties the maps; of the tokens, which survive it, the invariant
\* keeps only that none lasts longer than one issued now.
LEMMA RestartStep ==
  ASSUME MInv, Restart
  PROVE  MInv'
<1>1. /\ DOMAIN users' = {} /\ DOMAIN lobbies' = {} /\ DOMAIN told' = {}
      /\ userIdCounter' = 0 /\ lobbyIdCounter' = 1 /\ restarts' > 0
      /\ UNCHANGED <<tokens, now>>
  BY DEF Restart, MInv, TypeOK
<1>2. TypeOK'
  BY <1>1 DEF Restart, MInv, TypeOK
<1>3. QED
  BY <1>1, <1>2 DEF MInv, LobbiesAndHostsAgree, HostIsNotLinked,
     UniqueUsernames, NoTokenOutlivesSession, TokenNamesItsUserInFirstRun,
     RelayToldUnlessReleased, LinksArePast, ToldArePast, TargetsArePast,
     TokensWithinLife, TokensArePast

LEMMA StutterStep ==
  ASSUME MInv, UNCHANGED vars
  PROVE  MInv'
BY DEF vars, MInv, TypeOK, LobbiesAndHostsAgree, HostIsNotLinked,
   UniqueUsernames, NoTokenOutlivesSession, TokenNamesItsUserInFirstRun,
   TokenNamesItsUser, RelayToldUnlessReleased, Told, LinksArePast, ToldArePast,
   TargetsArePast, TokensWithinLife, TokensArePast

LEMMA NextMInv == MInv /\ [Next]_vars => MInv'
<1> SUFFICES ASSUME MInv, [Next]_vars PROVE MInv'
  OBVIOUS
<1>1. ASSUME NEW n \in Usernames, HandleLogin(n) PROVE MInv'
  BY <1>1, LoginStep
<1>2. ASSUME NEW t \in tokens, HandleLogout(t) PROVE MInv'
  BY <1>2, LogoutStep
<1>3. ASSUME NEW t \in tokens, HandleRenew(t) PROVE MInv'
  BY <1>3, RenewStep
<1>4. ASSUME NEW t \in tokens, HandleCheckin(t) PROVE MInv'
  BY <1>4, StutterStep DEF HandleCheckin
<1>5. ASSUME NEW t \in tokens, NEW name \in LobbyNames,
             NEW password \in BOOLEAN,
             HandleUpdateHostStatus(t, name, password)
      PROVE  MInv'
  BY <1>5, HostStep
<1>6. ASSUME NEW t \in tokens, HandleDeleteHostStatus(t) PROVE MInv'
  BY <1>6, StopHostStep
<1>7. ASSUME NEW t \in tokens, NEW l \in 0..MaxLobbies,
             HandleUpdateLinkStatus(t, l)
      PROVE  MInv'
  <2>1. l \in Nat
    BY ConstantsAssumption DEF ConstantsAssumption
  <2>2. QED
    BY <1>7, <2>1, LinkStep
<1>8. CASE FindExpiredUserSessions
  BY <1>8, SweepStep
<1>9. CASE Tick
  BY <1>9, TickStep
<1>10. CASE Restart
  BY <1>10, RestartStep
<1>11. CASE UNCHANGED vars
  BY <1>11, StutterStep
<1>12. QED
  BY <1>1, <1>2, <1>3, <1>4, <1>5, <1>6, <1>7, <1>8, <1>9, <1>10, <1>11
  DEF Next

-----------------------------------------------------------------------------
(* The theorems. *)

\* The inductive invariant holds in every reachable state.
THEOREM Invariance == Spec => []MInv
<1>1. Init => MInv
  BY InitMInv
<1>2. MInv /\ [Next]_vars => MInv'
  BY NextMInv
<1>3. QED
  BY <1>1, <1>2, PTL DEF Spec

\* Every variable keeps the type of the Go field it stands for.
THEOREM TypeCorrect == Spec => []TypeOK
<1>1. MInv => TypeOK
  BY DEF MInv
<1>2. QED
  BY <1>1, Invariance, PTL

\* An open lobby has a live host that hosts it, and a host an open lobby,
\* whichever of the three handlers that close lobbies run in what order.
THEOREM LobbiesAgree == Spec => []LobbiesAndHostsAgree
<1>1. MInv => LobbiesAndHostsAgree
  BY DEF MInv
<1>2. QED
  BY <1>1, Invariance, PTL

\* No sequence of requests makes a user host and be linked at once.
THEOREM HostNeverLinked == Spec => []HostIsNotLinked
<1>1. MInv => HostIsNotLinked
  BY DEF MInv
<1>2. QED
  BY <1>1, Invariance, PTL

\* No two sessions have the same username.
THEOREM UsernamesUnique == Spec => []UniqueUsernames
<1>1. MInv => UniqueUsernames
  BY DEF MInv
<1>2. QED
  BY <1>1, Invariance, PTL

\* The sweeper never removes a session that a token could still use.
THEOREM SessionsOutliveTokens == Spec => []NoTokenOutlivesSession
<1>1. MInv => NoTokenOutlivesSession
  BY DEF MInv
<1>2. QED
  BY <1>1, Invariance, PTL

\* Whoever hosts, links, closes lobbies and leaves in whatever order, the relay
\* was last told whether a session hosts, and to whom it forwards as long as the
\* lobby it is linked to is open; a guest released by its host's logout
\* (rest.go:273-277) is left forwarding to a user who is gone for good.
THEOREM RelayToldTheRest == Spec => []RelayToldUnlessReleased
<1>1. MInv => RelayToldUnlessReleased
  BY DEF MInv
<1>2. QED
  BY <1>1, Invariance, PTL

\* Until the server is restarted, a token authenticates only as the user it
\* was signed for (after a restart it need not: ids start again at zero).
THEOREM TokensNameTheirUser == Spec => [](restarts = 0 => TokenNamesItsUser)
<1>1. MInv => (restarts = 0 => TokenNamesItsUser)
  BY DEF MInv, TokenNamesItsUserInFirstRun
<1>2. QED
  BY <1>1, Invariance, PTL

\* A step that keeps a user's link to a closed lobby does not make it a link
\* to an open one: a lobby that opens has a number above every link.
LEMMA NextDangling ==
  ASSUME MInv, MInv', Next,
         NEW u \in DOMAIN users \cap DOMAIN users',
         users[u].Linkedto > 0,
         users[u].Linkedto \notin DOMAIN lobbies,
         users'[u].Linkedto = users[u].Linkedto
  PROVE  users[u].Linkedto \notin DOMAIN lobbies'
<1>1. DOMAIN lobbies' \subseteq DOMAIN lobbies \cup {lobbyIdCounter}
  <2>1. ASSUME NEW t \in tokens, HandleLogout(t)
        PROVE  DOMAIN lobbies' \subseteq DOMAIN lobbies
    BY <2>1 DEF HandleLogout, Delete, Restrict
  <2>2. ASSUME NEW t \in tokens, NEW name \in LobbyNames,
               NEW password \in BOOLEAN,
               HandleUpdateHostStatus(t, name, password)
        PROVE  DOMAIN lobbies' \subseteq DOMAIN lobbies \cup {lobbyIdCounter}
    BY <2>2 DEF HandleUpdateHostStatus, Assign, NewLobbyId
  <2>3. ASSUME NEW t \in tokens, HandleDeleteHostStatus(t)
        PROVE  DOMAIN lobbies' \subseteq DOMAIN lobbies
    BY <2>3 DEF HandleDeleteHostStatus, Delete, Restrict
  <2>4. CASE FindExpiredUserSessions
    BY <2>4 DEF FindExpiredUserSessions, Delete, Restrict
  <2>5. CASE Restart
    BY <2>5 DEF Restart
  <2>6. ASSUME NEW t \in tokens, NEW l \in 0..MaxLobbies,
               HandleUpdateLinkStatus(t, l)
        PROVE  UNCHANGED lobbies
    BY <2>6 DEF HandleUpdateLinkStatus
  <2>7. ASSUME \/ \E n \in Usernames : HandleLogin(n)
               \/ \E t \in tokens : HandleRenew(t) \/ HandleCheckin(t)
               \/ Tick
        PROVE  UNCHANGED lobbies
    BY <2>7 DEF HandleLogin, HandleRenew, HandleCheckin, vars, Tick
  <2>8. QED
    BY <2>1, <2>2, <2>3, <2>4, <2>5, <2>6, <2>7 DEF Next
<1>2. users[u].Linkedto < lobbyIdCounter /\ lobbyIdCounter \in Nat
  BY DEF MInv, LinksArePast, TypeOK
<1>3. users[u].Linkedto # lobbyIdCounter
  <2>1. users[u].Linkedto \in Nat
    BY DEF MInv, TypeOK, User
  <2>2. QED
    BY <1>2, <2>1
<1>4. QED
  BY <1>1, <1>3

\* A dangling link never comes to name a later lobby.
THEOREM LinksStayDangling == Spec => DanglingLinkStaysDangling
<1> DEFINE A == \A u \in DOMAIN users \cap DOMAIN users' :
                 (/\ users[u].Linkedto > 0
                  /\ users[u].Linkedto \notin DOMAIN lobbies
                  /\ users'[u].Linkedto = users[u].Linkedto)
                 => users[u].Linkedto \notin DOMAIN lobbies'
<1>1. MInv /\ MInv' /\ [Next]_vars => [A]_vars
  BY NextDangling
<1>2. QED
  BY <1>1, Invariance, PTL DEF Spec, DanglingLinkStaysDangling
=============================================================================

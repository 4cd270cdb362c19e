----------------------------- MODULE Matchmaker -----------------------------
(***************************************************************************)
(* The control server of vic2-multi-proxy: the users and lobbies maps of   *)
(* server/games.go and the REST handlers of server/rest.go that read and   *)
(* write them.  Every handler holds matchmaker.mutex from its first line   *)
(* to its return, and so does each round of the sweeper, so each of them   *)
(* is one atomic action.  A handler answers with a status; every status    *)
(* but the successful one leaves the server unchanged, so the statuses are *)
(* operators over the state (LoginStatus, HostStatus, ...) and an action   *)
(* is the successful path of its handler.                                  *)
(***************************************************************************)
EXTENDS Naturals, FiniteSets, Functions

CONSTANTS
  Usernames,       \* names clients may log in with
  LobbyNames,      \* non-empty names clients may give a lobby
  Blank,           \* the empty string
  TokenLife,       \* the two minutes a token and a session live, in ticks
  TicksPerSecond,  \* clock ticks in a second: a JWT carries whole seconds
  MaxTime,         \* bound: the clock stops here
  MaxUsers,        \* bound: logins in one run of the server
  MaxLobbies,      \* bound: lobbies created in one run of the server
  MaxRestarts      \* bound: restarts of the server process

ASSUME ConstantsAssumption ==
  /\ Blank \notin Usernames \cup LobbyNames
  /\ TokenLife \in Nat
  /\ TicksPerSecond \in Nat \ {0}
  /\ TokenLife % TicksPerSecond = 0
  /\ {MaxTime, MaxUsers, MaxLobbies, MaxRestarts} \subseteq Nat

VARIABLES
  users,           \* user id -> User: the sessions
  lobbies,         \* lobby id -> Lobby: the open lobbies
  userIdCounter,   \* the id of the next login, from 0
  lobbyIdCounter,  \* the id of the next lobby, from 1
  told,            \* user id -> the last signal its handlers gave the relay
  tokens,          \* the signed tokens that have not expired
  now,             \* the wall clock, in ticks
  restarts         \* how many times the process has been restarted

vars == <<users, lobbies, userIdCounter, lobbyIdCounter, told, tokens, now,
          restarts>>

-----------------------------------------------------------------------------
(* Types.  User.ID and Lobby.ID always equal their keys and User.Address is *)
(* always nil, so the records leave them out; of a password the handlers    *)
(* only test whether it is empty.                                           *)

User == [Username : Usernames, Linkedto : Nat, Hosting : Nat,
         LastTokenAt : Nat]

Lobby == [Name : LobbyNames, HostUserID : Nat, Password : BOOLEAN]

Token == [uid : Nat, sub : Usernames, exp : Nat]

\* proxyClientSignal; no handler sets its field stop.
Signal == [forwardTo : Nat, hosting : BOOLEAN]

-----------------------------------------------------------------------------
(* Helpers. *)

\* Go's m[k] = v.
Assign(m, k, v) == [x \in DOMAIN m \cup {k} |-> IF x = k THEN v ELSE m[x]]

\* Go's delete(m, k) for every k in ks.
Delete(m, ks) == Restrict(m, DOMAIN m \ ks)

\* Unix() drops the fraction of the second.
WholeSeconds(t) == t - (t % TicksPerSecond)

NewToken(uid, name) ==
  [uid |-> uid, sub |-> name, exp |-> WholeSeconds(now + TokenLife)]

RenewedNotWrittenBack(user) == user  \* mutant: only the local copy changes
Renewed(user) == [user EXCEPT !.LastTokenAt = now]

UserIdFromMapSize == Cardinality(DOMAIN users)  \* mutant: ids are reused
NewUserId == userIdCounter

LobbyIdFromMapSize == Cardinality(DOMAIN lobbies) + 1  \* mutant: ids are reused
LobbyIdFromZero == lobbyIdCounter - 1  \* mutant: 0 is given to a lobby
NewLobbyId == lobbyIdCounter

-----------------------------------------------------------------------------
(* The signals the handlers give the relay (server/relay.go, onUser...).    *)

IdleSignal == [forwardTo |-> 0, hosting |-> FALSE]

HostingSignal == [forwardTo |-> 0, hosting |-> TRUE]

LinkSignalOfLobbyId(l) == [forwardTo |-> l, hosting |-> FALSE]  \* mutant
LinkSignal(l) == [forwardTo |-> lobbies[l].HostUserID, hosting |-> FALSE]

\* What the relay was last told about a user; a proxyClient starts out idle.
Told(u) == IF u \in DOMAIN told THEN told[u] ELSE IdleSignal

-----------------------------------------------------------------------------
(* Statuses. *)

OK         == 200
Created    == 201
NoContent  == 204
BadRequest == 400
Forbidden  == 403
NotFound   == 404
Conflict   == 409
Locked     == 423

VerifyToken(t) == t \in tokens /\ now <= t.exp

AuthStatus(t) ==
  CASE ~VerifyToken(t)                            -> Forbidden
    [] VerifyToken(t) /\ t.uid \notin DOMAIN users -> NotFound
    [] OTHER                                      -> OK

LoginStatusUnchecked(n) == IF n = Blank THEN BadRequest ELSE Created  \* mutant
LoginStatus(n) ==
  CASE n = Blank                                             -> BadRequest
    [] n # Blank /\ \E u \in DOMAIN users : users[u].Username = n -> Conflict
    [] OTHER                                                 -> Created

HostConflictIgnoringLink(user) == user.Hosting > 0  \* mutant
HostConflict(user) == user.Hosting > 0 \/ user.Linkedto > 0

HostStatus(t, name) ==
  IF AuthStatus(t) # OK THEN AuthStatus(t)
  ELSE CASE HostConflict(users[t.uid])                    -> Conflict
         [] ~HostConflict(users[t.uid]) /\ name = Blank -> BadRequest
         [] OTHER                                        -> NoContent

StopHostStatus(t) ==
  IF AuthStatus(t) # OK THEN AuthStatus(t)
  ELSE IF users[t.uid].Hosting < 1 THEN NotFound ELSE NoContent

LinkStatus(t, l) ==
  IF AuthStatus(t) # OK THEN AuthStatus(t)
  ELSE IF users[t.uid].Hosting > 0 THEN Conflict
  ELSE IF l = 0 THEN NoContent
  ELSE IF l \notin DOMAIN lobbies THEN NotFound
  ELSE IF lobbies[l].Password THEN Locked ELSE NoContent

-----------------------------------------------------------------------------
(* Handlers. *)

Init ==
  /\ users = <<>>
  /\ lobbies = <<>>
  /\ userIdCounter = 0
  /\ lobbyIdCounter = 1
  /\ told = <<>>
  /\ tokens = {}
  /\ now = 0
  /\ restarts = 0

HandleLogin(n) ==
  /\ userIdCounter < MaxUsers
  /\ LoginStatus(n) = Created
  /\ users' = Assign(users, NewUserId,
                     [Username |-> n, Linkedto |-> 0, Hosting |-> 0,
                      LastTokenAt |-> now])
  /\ tokens' = tokens \cup {NewToken(NewUserId, n)}
  /\ userIdCounter' = userIdCounter + 1
  /\ UNCHANGED <<lobbies, lobbyIdCounter, told, now, restarts>>

\* Every user linked to lobby l is shown as not linked.
GuestsReleased(l) ==
  [u \in DOMAIN users |->
     IF users[u].Linkedto = l THEN [users[u] EXCEPT !.Linkedto = 0]
     ELSE users[u]]

\* A host's lobby closes with its session and its guests are released.
HandleLogout(t) ==
  LET l == users[t.uid].Hosting IN
  /\ AuthStatus(t) = OK
  /\ \/ /\ l = 0
        /\ users' = Delete(users, {t.uid})
        /\ UNCHANGED <<lobbies, told>>
     \/ /\ l > 0
        /\ told' = Assign(told, t.uid, IdleSignal)
        /\ users' = Delete(GuestsReleased(l), {t.uid})
        /\ lobbies' = Delete(lobbies, {l})
  /\ UNCHANGED <<userIdCounter, lobbyIdCounter, tokens, now, restarts>>

HandleRenew(t) ==
  /\ AuthStatus(t) = OK
  /\ users' = [users EXCEPT ![t.uid] = Renewed(@)]
  /\ tokens' = tokens \cup {NewToken(t.uid, users[t.uid].Username)}
  /\ UNCHANGED <<lobbies, userIdCounter, lobbyIdCounter, told, now, restarts>>

\* The body of a successful checkin of user u.
CheckinResponse(u) ==
  LET HostName(h) == IF h \in DOMAIN users THEN users[h].Username ELSE Blank
  IN  [Lobbies     |-> [l \in DOMAIN lobbies |->
                          [Name |-> lobbies[l].Name,
                           Host |-> HostName(lobbies[l].HostUserID)]],
       Hosting     |-> users[u].Hosting > 0,
       LinkedLobby |-> users[u].Linkedto]

\* A checkin reads the server and changes nothing of it.
HandleCheckin(t) ==
  /\ AuthStatus(t) = OK
  /\ UNCHANGED vars

HandleUpdateHostStatus(t, name, password) ==
  /\ lobbyIdCounter <= MaxLobbies
  /\ HostStatus(t, name) = NoContent
  /\ lobbies' = Assign(lobbies, NewLobbyId,
                       [Name |-> name, HostUserID |-> t.uid,
                        Password |-> password])
  /\ users' = [users EXCEPT ![t.uid].Hosting = NewLobbyId]
  /\ lobbyIdCounter' = lobbyIdCounter + 1
  /\ told' = Assign(told, t.uid, HostingSignal)
  /\ UNCHANGED <<userIdCounter, tokens, now, restarts>>

\* Unlike a logout, this leaves the lobby's guests linked to it.
HandleDeleteHostStatus(t) ==
  /\ StopHostStatus(t) = NoContent
  /\ told' = Assign(told, t.uid, IdleSignal)
  /\ lobbies' = Delete(lobbies, {users[t.uid].Hosting})
  /\ users' = [users EXCEPT ![t.uid].Hosting = 0]
  /\ UNCHANGED <<userIdCounter, lobbyIdCounter, tokens, now, restarts>>

\* Lobby id 0 asks to be unlinked.
HandleUpdateLinkStatus(t, l) ==
  /\ LinkStatus(t, l) = NoContent
  /\ users' = [users EXCEPT ![t.uid].Linkedto = l]
  /\ told' = Assign(told, t.uid, IF l = 0 THEN IdleSignal ELSE LinkSignal(l))
  /\ UNCHANGED <<lobbies, userIdCounter, lobbyIdCounter, tokens, now, restarts>>

-----------------------------------------------------------------------------
(* The sweeper, the clock and the process. *)

Expired(user) == now > user.LastTokenAt + TokenLife

LobbiesLeftOpen(S) == {}  \* mutant: the sweeper forgets the lobbies of S
LobbiesHostedBy(S) == {users[u].Hosting : u \in S}

SweptUnlessHosting == {u \in DOMAIN users :
                         Expired(users[u]) /\ users[u].Hosting = 0}  \* mutant
Swept == {u \in DOMAIN users : Expired(users[u])}

\* One round of the ticker.  The ticker runs for ever, but a round may be
\* late by any time, so the model lets it happen at any moment.
FindExpiredUserSessions ==
  /\ users' = Delete(users, Swept)
  /\ lobbies' = Delete(lobbies, LobbiesHostedBy(Swept))
  /\ UNCHANGED <<userIdCounter, lobbyIdCounter, told, tokens, now, restarts>>

\* Time passes; a token that no longer verifies is as good as any other string.
Tick ==
  /\ now < MaxTime
  /\ now' = now + 1
  /\ tokens' = {t \in tokens : now' <= t.exp}
  /\ UNCHANGED <<users, lobbies, userIdCounter, lobbyIdCounter, told, restarts>>

\* The process dies and is started again.  Nothing of its state is stored; the
\* secret is read from server.ini, so tokens issued before still verify.
Restart ==
  /\ restarts < MaxRestarts
  /\ restarts' = restarts + 1
  /\ users' = <<>>
  /\ lobbies' = <<>>
  /\ userIdCounter' = 0
  /\ lobbyIdCounter' = 1
  /\ told' = <<>>
  /\ UNCHANGED <<tokens, now>>

Next ==
  \/ \E n \in Usernames : HandleLogin(n)
  \/ \E t \in tokens : HandleLogout(t)
  \/ \E t \in tokens : HandleRenew(t)
  \/ \E t \in tokens : HandleCheckin(t)
  \/ \E t \in tokens, name \in LobbyNames, password \in BOOLEAN :
       HandleUpdateHostStatus(t, name, password)
  \/ \E t \in tokens : HandleDeleteHostStatus(t)
  \/ \E t \in tokens, l \in 0..MaxLobbies : HandleUpdateLinkStatus(t, l)
  \/ FindExpiredUserSessions
  \/ Tick
  \/ Restart

\* The ticker never stops and the mutex is starvation-free, so a round that
\* would remove something is eventually run.
Spec == Init /\ [][Next]_vars /\ WF_vars(FindExpiredUserSessions)

-----------------------------------------------------------------------------
(* Properties. *)

\* The variables have the types of the Go fields they stand for.
TypeOK ==
  /\ users \in [DOMAIN users -> User]
  /\ DOMAIN users \subseteq 0..(userIdCounter - 1)
  /\ lobbies \in [DOMAIN lobbies -> Lobby]
  /\ DOMAIN lobbies \subseteq 1..(lobbyIdCounter - 1)
  /\ userIdCounter \in Nat
  /\ lobbyIdCounter \in Nat \ {0}
  /\ told \in [DOMAIN told -> Signal]
  /\ tokens \subseteq Token
  /\ now \in Nat
  /\ restarts \in Nat

\* The two maps agree on who hosts what: every open lobby belongs to a live
\* session that is hosting exactly it, and every session that is hosting has
\* its lobby open.  Lobbies are closed in three places (logout, stop hosting,
\* the sweeper), each of which must change both maps.
LobbiesAndHostsAgree ==
  /\ \A l \in DOMAIN lobbies :
       /\ lobbies[l].HostUserID \in DOMAIN users
       /\ users[lobbies[l].HostUserID].Hosting = l
  /\ \A u \in DOMAIN users :
       users[u].Hosting > 0 =>
         /\ users[u].Hosting \in DOMAIN lobbies
         /\ lobbies[users[u].Hosting].HostUserID = u

\* Nobody hosts and is linked at the same time, whatever order of host, link,
\* unlink, stop and of other users' logouts led here (rest.go:525, 410).
HostIsNotLinked ==
  \A u \in DOMAIN users : users[u].Hosting = 0 \/ users[u].Linkedto = 0

\* A username names at most one session (the 409 of handleLogin).
UniqueUsernames ==
  \A u, v \in DOMAIN users : users[u].Username = users[v].Username => u = v

\* No token outlives the session it was issued for: the sweeper, which looks
\* at LastTokenAt alone, never removes a user who could still authenticate.
NoTokenOutlivesSession ==
  \A t \in tokens :
    t.uid \in DOMAIN users => t.exp <= users[t.uid].LastTokenAt + TokenLife

\* A token that authenticates does so as the user it was signed for.
TokenNamesItsUser ==
  \A t \in tokens :
    t.uid \in DOMAIN users => users[t.uid].Username = t.sub

\* The relay was last told what each session is: hosting exactly when it hosts a
\* lobby; while the lobby it is linked to is open, forwarding to that lobby's
\* host; and not linked, forwarding to nobody, but for a guest that was released
\* by its host's logout, of which the relay is not told (rest.go:273): it is left
\* forwarding to a user who is gone, and whose id nobody gets.
RelayToldUnlessReleased ==
  \A u \in DOMAIN users :
    /\ Told(u).hosting <=> users[u].Hosting > 0
    /\ users[u].Linkedto \in DOMAIN lobbies =>
         Told(u).forwardTo = lobbies[users[u].Linkedto].HostUserID
    /\ users[u].Linkedto = 0 /\ Told(u).forwardTo > 0 =>
         Told(u).forwardTo \notin DOMAIN users

\* A link left behind by a closed lobby never comes to name a later lobby:
\* nobody is moved to another host's lobby without asking.
DanglingLinkStaysDangling ==
  [][\A u \in DOMAIN users \cap DOMAIN users' :
       (/\ users[u].Linkedto > 0
        /\ users[u].Linkedto \notin DOMAIN lobbies
        /\ users'[u].Linkedto = users[u].Linkedto)
       => users[u].Linkedto \notin DOMAIN lobbies']_vars

\* A session whose two minutes have passed is eventually removed together
\* with the lobby it hosts, so that its username can log in again.
ExpiredSessionIsRemoved ==
  \A u \in 0..(MaxUsers - 1), l \in 0..MaxLobbies :
    (u \in DOMAIN users /\ Expired(users[u]) /\ users[u].Hosting = l) ~>
      (u \notin DOMAIN users /\ l \notin DOMAIN lobbies)

\* The promise of LobbyDirectory, with people known by their usernames.
Present == {users[u].Username : u \in DOMAIN users}
OpenBy  == [l \in DOMAIN lobbies |-> users[lobbies[l].HostUserID].Username]
Issued  == 1..(lobbyIdCounter - 1)

Directory ==
  INSTANCE LobbyDirectory WITH
    People  <- Usernames,
    Numbers <- 1..MaxLobbies,
    present <- Present,
    openBy  <- OpenBy,
    issued  <- Issued

\* The server implements the lobby directory.
ImplementsDirectory == Directory!Spec

-----------------------------------------------------------------------------
(* What comments of the repository say and the code does not do.            *)

\* rest.go:345: a checkin returns the lobbies on the server and the client's
\* status; so the lobby it says the client is linked to is one it lists.
CheckinLinkIsListed ==
  \A u \in DOMAIN users :
    LET r == CheckinResponse(u)
    IN  r.LinkedLobby = 0 \/ r.LinkedLobby \in DOMAIN r.Lobbies
=============================================================================

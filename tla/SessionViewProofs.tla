-------------------------- MODULE SessionViewProofs --------------------------
(***************************************************************************)
(* Proofs that Session keeps the promises of the abstract specifications   *)
(* at both of its ends: its client that of ClientView, and the server in   *)
(* it, whatever the client and its network do, that of LobbyDirectory.     *)
(***************************************************************************)
EXTENDS SessionProofs, DirectoryProofs

LEMMA ViewInit == SessionInit => Client!Init
  BY DEF SessionInit, Client!Init, Connected, StatusInUse, NoResponse

\* A request, and whatever others do, is not seen: the status that a command
\* used up is known from its response.
LEMMA RequestUnseen ==
  ASSUME VInv,
         \/ Connect \/ Logout \/ RenewToken \/ Checkin \/ Host \/ StopHost
         \/ (\E l \in DOMAIN lobbies : Link(l)) \/ Unlink
         \/ Others \/ UNCHANGED sessionVars
  PROVE  UNCHANGED Client!vars
<1>1. UNCHANGED <<authToken, lastCheckin, relayRole>>
  BY DEF Connect, Logout, RenewToken, Checkin, Host, StopHost, Link, Unlink, Others,
     Asks, clientVars, sessionVars
<1>2. StatusInUse' = StatusInUse
  <2>1. ASSUME NEW o, NEW body, Asks(o, body), status' = status,
               o \in {"connect", "logout", "renew", "checkin"}
        PROVE  StatusInUse' = StatusInUse
    BY <2>1 DEF Asks, Idle, NoResponse, StatusInUse
  <2>2. CASE Connect \/ Logout \/ RenewToken \/ Checkin
    BY <2>1, <2>2 DEF Connect, Logout, RenewToken, Checkin
  <2>3. CASE Host
    BY <2>3 DEF Host, Command, Asks, Idle, NoResponse, StatusInUse
  <2>4. CASE StopHost
    BY <2>4 DEF StopHost, Command, Asks, Idle, NoResponse, StatusInUse
  <2>5. ASSUME NEW l, Link(l) PROVE StatusInUse' = StatusInUse
    BY <2>5 DEF Link, Command, Asks, Idle, NoResponse, StatusInUse
  <2>6. CASE Unlink
    BY <2>6 DEF Unlink, Command, Asks, Idle, NoResponse, StatusInUse
  <2>7. CASE Others \/ UNCHANGED sessionVars
    BY <2>7 DEF Others, sessionVars, StatusInUse
  <2>8. QED
    BY <2>2, <2>3, <2>4, <2>5, <2>6, <2>7
<1>3. QED
  BY <1>1, <1>2 DEF Client!vars, Connected

\* A response is an action of ClientView, of the kind of its request.
LEMMA ResponseSeen ==
  ASSUME VInv, Receive
  PROVE  [Client!Next]_(Client!vars)
<1> USE DEF VInv
<1>1. /\ lastCheckin' = ViewAfter(response) /\ relayRole' = RoleAfter(response)
      /\ StatusInUse' = status
      /\ response.op \in {"connect", "logout", "renew", "checkin", "host", "stop",
                          "link", "unlink"}
  BY DEF Receive, Idle, ResponseOK, StatusInUse, NoResponse
<1>2. /\ lastCheckin \in Views
      /\ response.op \notin {"checkin", "renew"} => status = "none"
      /\ response.op # "connect" => Connected
      /\ response.op = "connect" => ~Connected
      /\ response.op \in {"connect", "renew"} => Connected'
      /\ response.op \in {"checkin", "host", "stop", "link", "unlink"} =>
           Connected' = Connected
  BY <1>1, SessionAssumption
     DEF Receive, ResponseOK, SessionTypeOK, Views, Connected, SessionAssumption
<1>3. CASE response.op = "connect"
  <2>1. UNCHANGED <<lastCheckin, relayRole, StatusInUse>> /\ StatusInUse = "none"
    BY <1>1, <1>2, <1>3 DEF ViewAfter, RoleAfter, LinkGone, StatusInUse
  <2>2. Client!Connect
    BY <1>2, <1>3, <2>1 DEF Client!Connect, Connected
  <2>3. QED
    BY <2>2 DEF Client!Next
<1>4. CASE response.op = "renew"
  <2>1. UNCHANGED <<lastCheckin, relayRole, StatusInUse, Connected>>
    BY <1>1, <1>2, <1>4 DEF ViewAfter, RoleAfter, LinkGone, StatusInUse, Connected
  <2>2. QED
    BY <2>1 DEF Client!vars
<1>5. CASE response.op = "logout"
  <2>1. UNCHANGED <<lastCheckin, relayRole, StatusInUse>> /\ Connected /\ ~Connected'
    BY <1>1, <1>2, <1>5 DEF ViewAfter, RoleAfter, LinkGone, StatusInUse, Receive, Connected
  <2>2. Client!Disconnect
    BY <2>1 DEF Client!Disconnect
  <2>3. QED
    BY <2>2 DEF Client!Next
<1>6. CASE response.op = "checkin"
  <2> DEFINE h == response.body.Hosting
             l == response.body.LinkedLobby
  <2>1. h \in BOOLEAN /\ l \in 0..MaxLobbies
    BY <1>6, ConstantsAssumption
       DEF ResponseOK, Views, LobbiesBounded, MInv, TypeOK, ConstantsAssumption
  <2>2. /\ lastCheckin'.Hosting = h /\ lastCheckin'.LinkedLobby = l
        /\ relayRole' = IF lastCheckin.LinkedLobby > 0 /\ l = 0 THEN "idle" ELSE relayRole
        /\ UNCHANGED StatusInUse
    BY <1>1, <1>6 DEF ViewAfter, RoleAfter, LinkGone, StatusInUse
  <2>3. Client!Checkin(h, l)
    BY <1>2, <1>6, <2>2 DEF Client!Checkin, Connected
  <2>4. l \in 1..MaxLobbies \cup {0}
    BY <2>1, ConstantsAssumption DEF ConstantsAssumption
  <2> HIDE DEF h, l
  <2>5. QED
    BY <2>1, <2>3, <2>4 DEF Client!Next
<1>7. CASE response.op = "host"
  <2>1. /\ lastCheckin'.Hosting = TRUE
        /\ lastCheckin'.LinkedLobby = lastCheckin.LinkedLobby
        /\ relayRole' = "hosting"
        /\ StatusInUse = "idle" /\ StatusInUse' = "none"
    BY <1>1, <1>2, <1>7 DEF ViewAfter, RoleAfter, LinkGone, StatusInUse, Views
  <2>2. Client!Host
    BY <1>2, <1>7, <2>1 DEF Client!Host, Client!Command, Connected
  <2>3. QED
    BY <2>2 DEF Client!Next
<1>8. CASE response.op = "stop"
  <2>1. /\ lastCheckin'.Hosting = FALSE
        /\ lastCheckin'.LinkedLobby = lastCheckin.LinkedLobby
        /\ relayRole' = "idle"
        /\ StatusInUse = "hosting" /\ StatusInUse' = "none"
    BY <1>1, <1>2, <1>8 DEF ViewAfter, RoleAfter, LinkGone, StatusInUse, Views
  <2>2. Client!StopHost
    BY <1>2, <1>8, <2>1 DEF Client!StopHost, Client!Command, Connected
  <2>3. QED
    BY <2>2 DEF Client!Next
<1>9. CASE response.op = "link"
  <2> DEFINE l == response.body.LinkedLobby
  <2>1. l \in 1..MaxLobbies
    BY <1>9, ConstantsAssumption
       DEF ResponseOK, LobbiesBounded, MInv, TypeOK, ConstantsAssumption
  <2>2. /\ lastCheckin'.LinkedLobby = l
        /\ lastCheckin'.Hosting = lastCheckin.Hosting
        /\ relayRole' = "linked"
        /\ StatusInUse = "idle" /\ StatusInUse' = "none"
    BY <1>1, <1>2, <1>9 DEF ViewAfter, RoleAfter, LinkGone, StatusInUse, Views
  <2>3. Client!Link(l)
    BY <1>2, <1>9, <2>2 DEF Client!Link, Client!Command, Connected
  <2> HIDE DEF l
  <2>4. QED
    BY <2>1, <2>3 DEF Client!Next
<1>10. CASE response.op = "unlink"
  <2>1. /\ lastCheckin'.LinkedLobby = 0
        /\ lastCheckin'.Hosting = lastCheckin.Hosting
        /\ relayRole' = "idle"
        /\ StatusInUse = "linked" /\ StatusInUse' = "none"
    BY <1>1, <1>2, <1>10 DEF ViewAfter, RoleAfter, LinkGone, StatusInUse, Views
  <2>2. Client!Unlink
    BY <1>2, <1>10, <2>1 DEF Client!Unlink, Client!Command, Connected
  <2>3. QED
    BY <2>2 DEF Client!Next
<1>11. QED
  BY <1>1, <1>3, <1>4, <1>5, <1>6, <1>7, <1>8, <1>9, <1>10

\* A lost response is a failed command, the end of the connection, or nothing.
LEMMA LossSeen ==
  ASSUME VInv, LoseResponse
  PROVE  [Client!Next]_(Client!vars)
<1> USE DEF VInv
<1>1. /\ UNCHANGED <<lastCheckin, relayRole>> /\ StatusInUse' = status'
      /\ status' \in {status, "none"} /\ (response.op # "checkin" => status' = status)
      /\ response.op \in {"connect", "logout", "renew", "checkin", "host", "stop",
                          "link", "unlink"}
      /\ response.op \notin {"checkin", "renew"} => status = "none"
      /\ response.op # "connect" => Connected
  BY DEF LoseResponse, DisconnectsOnLoss, Disconnect, Idle, ResponseOK, StatusInUse,
     NoResponse, Connected
<1>2. CASE response.op = "checkin"
  <2>1. ~Connected' /\ StatusInUse' \in {StatusInUse, "none"}
    BY <1>1, <1>2 DEF LoseResponse, DisconnectsOnLoss, Disconnect, Connected, StatusInUse
  <2>2. Client!Disconnect
    BY <1>1, <1>2, <2>1 DEF Client!Disconnect, Connected
  <2>3. QED
    BY <2>2 DEF Client!Next
<1>3. CASE response.op \in {"host", "stop", "link", "unlink"}
  <2>1. UNCHANGED authToken /\ StatusInUse # "none" /\ StatusInUse' = "none"
    BY <1>1, <1>3 DEF LoseResponse, DisconnectsOnLoss, StatusInUse
  <2>2. Client!CommandFails
    BY <1>1, <2>1 DEF Client!CommandFails, Connected
  <2>3. QED
    BY <2>2 DEF Client!Next
<1>4. CASE response.op \in {"connect", "logout", "renew"}
  BY <1>1, <1>4 DEF LoseResponse, DisconnectsOnLoss, Client!vars, Connected, StatusInUse
<1>5. QED
  BY <1>1, <1>2, <1>3, <1>4

LEMMA SessionStepSeen ==
  ASSUME VInv, [SessionNext]_sessionVars
  PROVE  [Client!Next]_(Client!vars)
<1>1. CASE GetStatus
  <2>1. Client!GetStatus
    BY <1>1 DEF GetStatus, Usable, Idle, clientVars, NoResponse, StatusInUse, Seen,
       Client!GetStatus, Client!Seen, Connected
  <2>2. QED
    BY <2>1 DEF Client!Next
<1>2. CASE CommandFails
  <2>1. Client!CommandFails
    BY <1>2 DEF CommandFails, Idle, clientVars, NoResponse, StatusInUse,
       Client!CommandFails, Connected
  <2>2. QED
    BY <2>1 DEF Client!Next
<1>3. CASE CheckinFails \/ TokenExpired
  <2>1. Client!Disconnect
    BY <1>3 DEF CheckinFails, TokenExpired, Disconnect, Connected, StatusInUse,
       Client!Disconnect
  <2>2. QED
    BY <2>1 DEF Client!Next
<1>4. CASE Receive
  BY <1>4, ResponseSeen
<1>5. CASE LoseResponse
  BY <1>5, LossSeen
<1>6. QED
  BY <1>1, <1>2, <1>3, <1>4, <1>5, RequestUnseen DEF SessionNext

\* With the server and whatever its network loses, the client shows a role and
\* tells its relay of it in one step, of a connected client, and by a command
\* only when the role shown allowed the command (client/client.go:
\* processCommand; client/rest.go: the onUser... calls).
THEOREM SessionImplementsView == SessionSpec => ImplementsClientView
<1>1. SessionInit => Client!Init
  BY ViewInit
<1>2. VInv /\ [SessionNext]_sessionVars => [Client!Next]_(Client!vars)
  BY SessionStepSeen
<1>3. QED
  BY <1>1, <1>2, SessionInvariance, PTL DEF SessionSpec, ImplementsClientView, Client!Spec

-----------------------------------------------------------------------------
(* The server in the session. *)

\* Each step of the session is a step of the server of Matchmaker or leaves it.
LEMMA SessionServes ==
  ASSUME VInv, [SessionNext]_sessionVars
  PROVE  [Next]_vars
<1>1. ASSUME UNCHANGED serverVars PROVE UNCHANGED vars
  BY <1>1 DEF serverVars, vars
<1>2. CASE Connect
  BY <1>2, SessionAssumption DEF Connect, Next, SessionAssumption
<1>3. ASSUME AuthStatus(authToken) = OK PROVE authToken \in tokens
  BY <1>3, RequestFact DEF VInv
<1>4. CASE Logout
  BY <1>3, <1>4 DEF Logout, HandleLogout, Next
<1>5. CASE RenewToken
  BY <1>3, <1>5 DEF RenewToken, HandleRenew, Next
<1>6. CASE Checkin
  BY <1>3, <1>6 DEF Checkin, HandleCheckin, Next
<1>7. CASE Host
  <2>1. PICK name \in LobbyNames : HandleUpdateHostStatus(authToken, name, FALSE)
    BY <1>7 DEF Host
  <2>2. authToken \in tokens
    BY <1>3, <2>1 DEF HandleUpdateHostStatus, HostStatus, AuthStatus, OK, NoContent,
       Forbidden, NotFound
  <2>3. QED
    BY <2>1, <2>2 DEF Next
<1>8. CASE StopHost
  <2>1. HandleDeleteHostStatus(authToken)
    BY <1>8 DEF StopHost
  <2>2. authToken \in tokens
    BY <1>3, <2>1 DEF HandleDeleteHostStatus, StopHostStatus, AuthStatus, OK, NoContent,
       Forbidden, NotFound
  <2>3. QED
    BY <2>1, <2>2 DEF Next
<1>9. ASSUME NEW l \in 0..MaxLobbies, HandleUpdateLinkStatus(authToken, l) PROVE Next
  <2>1. authToken \in tokens
    BY <1>3, <1>9 DEF HandleUpdateLinkStatus, LinkStatus, AuthStatus, OK, NoContent,
       Forbidden, NotFound, Conflict, Locked
  <2>2. QED
    BY <1>9, <2>1 DEF Next
<1>10. ASSUME NEW l \in DOMAIN lobbies, Link(l) PROVE Next
  <2>1. l \in 0..MaxLobbies
    BY ConstantsAssumption DEF VInv, MInv, TypeOK, LobbiesBounded, ConstantsAssumption
  <2>2. QED
    BY <1>9, <1>10, <2>1 DEF Link
<1>11. CASE Unlink
  <2>1. 0 \in 0..MaxLobbies
    BY ConstantsAssumption DEF ConstantsAssumption
  <2>2. QED
    BY <1>9, <1>11, <2>1 DEF Unlink
<1>12. CASE Others
  BY <1>12 DEF Others, Next
<1>13. CASE \/ GetStatus \/ CommandFails \/ Receive \/ LoseResponse
            \/ CheckinFails \/ TokenExpired \/ UNCHANGED sessionVars
  BY <1>1, <1>13 DEF GetStatus, CommandFails, Receive, LoseResponse, CheckinFails,
     TokenExpired, Disconnect, sessionVars
<1>14. QED
  BY <1>2, <1>4, <1>5, <1>6, <1>7, <1>8, <1>10, <1>11, <1>12, <1>13 DEF SessionNext

\* Whatever the client loses, the server in the session keeps the promise of
\* the lobby directory (server/rest.go: the handlers under its lock).
THEOREM SessionServesDirectory == SessionSpec => ImplementsDirectory
<1>1. SessionInit => Directory!Init
  BY InitMapped DEF SessionInit
<1>2. VInv /\ [SessionNext]_sessionVars => [Directory!Next]_(Directory!vars)
  BY SessionServes, StepMapped DEF VInv
<1>3. QED
  BY <1>1, <1>2, SessionInvariance, PTL DEF SessionSpec, ImplementsDirectory, Directory!Spec
=============================================================================

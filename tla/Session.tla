------------------------------- MODULE Session -------------------------------
(***************************************************************************)
(* One client's session with the control server: the client's view of its  *)
(* roles (client/rest.go) composed with Matchmaker's handlers, with other  *)
(* clients of the server, and with a network that loses requests and       *)
(* responses.  The client's mutex lets it have one request at a time; that *)
(* a handler runs and that its response arrives are two steps, between     *)
(* which others act, the clock runs and sessions are swept.  A request     *)
(* that is lost or refused changes nothing, except that a checkin that     *)
(* fails ends the connection.  A command goes by a status that checkins    *)
(* may have made old before it has the mutex.                              *)
(***************************************************************************)
EXTENDS Matchmaker

CONSTANTS
  Me,   \* the client's username
  None  \* no token

ASSUME SessionAssumption == Me \in Usernames /\ None \notin Token

VARIABLES
  authToken,      \* the client's token
  lastRenewedAt,  \* when it got it
  lastCheckin,    \* its view: Hosting and LinkedLobby of the last checkin
  relayRole,      \* what its game data relay was last told to do
  status,         \* the role in the status that a command goes by, or "none"
  response,       \* the response on its way to it, or NoResponse
  fresh,          \* it has checked in since it connected, and since the response
                  \* to a change of its role, or to a logout, was lost
  smooth          \* no such loss and no end of a session, ever

serverVars == <<users, lobbies, userIdCounter, lobbyIdCounter, told, tokens,
                now, restarts>>
clientVars == <<authToken, lastRenewedAt, lastCheckin, relayRole, fresh, smooth>>
sessionVars == <<serverVars, clientVars, status, response>>

-----------------------------------------------------------------------------
(* The client's requests. *)

NoResponse == [op |-> "none", body |-> None]

\* No request is under way.
Idle == response = NoResponse

Connected == authToken # None

\* checkConnectedNoLock.
Usable == Connected /\ now <= lastRenewedAt + TokenLife

\* The part of a checkin that its roles come from.
View(c) == [Hosting |-> c.Hosting, LinkedLobby |-> c.LinkedLobby]

Asks(o, body) ==
  /\ Idle
  /\ response' = [op |-> o, body |-> body]
  /\ UNCHANGED clientVars

\* The command loop takes a status; until the command is over it takes no other.
Seen == IF lastCheckin.LinkedLobby > 0 THEN "linked"
        ELSE IF lastCheckin.Hosting THEN "hosting" ELSE "idle"

GetStatus ==
  /\ Usable /\ Idle /\ status = "none"
  /\ status' = Seen
  /\ UNCHANGED <<serverVars, clientVars, response>>

\* A command by status role, which checkConnectedNoLock lets go on.
Command(role) == Usable /\ status = role /\ status' = "none"

\* It is not to be, its request is lost, or the server refuses it.
CommandFails ==
  /\ Idle /\ status # "none" /\ status' = "none"
  /\ UNCHANGED <<serverVars, clientVars, response>>

Connect ==
  /\ ~Connected /\ status = "none" /\ UNCHANGED status
  /\ HandleLogin(Me) /\ Asks("connect", NewToken(NewUserId, Me))

Logout ==
  /\ Usable /\ status = "none" /\ UNCHANGED status
  /\ HandleLogout(authToken) /\ Asks("logout", None)

\* The checkin goroutine renews when half a minute has passed (rest.go:66), so
\* not in the tick of its token, when it would only get the same one again.
RenewToken ==
  /\ Connected /\ now > lastRenewedAt
  /\ HandleRenew(authToken) /\ UNCHANGED status
  /\ Asks("renew", NewToken(authToken.uid, users[authToken.uid].Username))

Checkin ==
  /\ Connected /\ HandleCheckin(authToken) /\ UNCHANGED status
  /\ Asks("checkin", View(CheckinResponse(authToken.uid)))

Host ==
  /\ Command("idle")
  /\ \E name \in LobbyNames : HandleUpdateHostStatus(authToken, name, FALSE)
  /\ Asks("host", None)

StopHost ==
  /\ Command("hosting")
  /\ HandleDeleteHostStatus(authToken)
  /\ Asks("stop", None)

Link(l) ==
  /\ Command("idle")
  /\ l > 0 /\ HandleUpdateLinkStatus(authToken, l)
  /\ Asks("link", [LinkedLobby |-> l])

Unlink ==
  /\ Command("linked")
  /\ HandleUpdateLinkStatus(authToken, 0)
  /\ Asks("unlink", None)

-----------------------------------------------------------------------------
(* The responses. *)

ViewAfterCheckinsOnly(r) ==  \* mutant: a change of role is not stored
  IF r.op = "checkin" THEN r.body ELSE lastCheckin

\* What each successful response makes of lastCheckin.
ViewAfter(r) ==
  CASE r.op = "checkin" -> r.body
    [] r.op = "host"    -> [lastCheckin EXCEPT !.Hosting = TRUE]
    [] r.op = "stop"    -> [lastCheckin EXCEPT !.Hosting = FALSE]
    [] r.op = "link"    -> [lastCheckin EXCEPT !.LinkedLobby = r.body.LinkedLobby]
    [] r.op = "unlink"  -> [lastCheckin EXCEPT !.LinkedLobby = 0]
    [] OTHER            -> lastCheckin

\* A checkin that shows that the remote lobby closed.
LinkGoneUnnoticed(r) == FALSE  \* mutant
LinkGone(r) == /\ r.op = "checkin"
               /\ lastCheckin.LinkedLobby > 0 /\ r.body.LinkedLobby = 0

RoleAfter(r) ==
  CASE r.op = "host"                                -> "hosting"
    [] r.op = "link"                                -> "linked"
    [] r.op \in {"stop", "unlink"} \/ LinkGone(r)   -> "idle"
    [] OTHER                                        -> relayRole

\* The relay is called for this response, with the mutex of the REST client held
\* and after the token and lastCheckin are set: nobody sees more of such a
\* receipt than its end, which need not come.
CallsRelay == response.op \in {"host", "stop", "link", "unlink"} \/ LinkGone(response)

Receive ==
  /\ ~Idle /\ response' = NoResponse
  /\ lastCheckin' = ViewAfter(response)
  /\ relayRole' = RoleAfter(response)
  /\ \/ /\ response.op \in {"connect", "renew"}
        /\ authToken' = response.body
        /\ lastRenewedAt' = now
        /\ fresh' = (response.op = "renew" /\ fresh)
        /\ UNCHANGED smooth
     \/ /\ response.op = "logout"
        /\ authToken' = None
        /\ fresh' = FALSE /\ smooth' = FALSE
        /\ UNCHANGED lastRenewedAt
     \/ /\ response.op \notin {"connect", "renew", "logout"}
        /\ fresh' = (fresh \/ response.op = "checkin")
        /\ UNCHANGED <<authToken, lastRenewedAt, smooth>>
  /\ UNCHANGED <<serverVars, status>>

\* completeDisconnect; lastCheckin keeps what it was.  A command that has its
\* status and waits for the mutex is over: it finds no connection.
Disconnect ==
  /\ authToken' = None
  /\ fresh' = FALSE /\ smooth' = FALSE
  /\ status' = "none"
  /\ UNCHANGED <<serverVars, lastRenewedAt, lastCheckin, relayRole>>

NeverDisconnects(r) == FALSE  \* mutant
DisconnectsOnLoss(r) == r.op = "checkin"

\* The response is lost; the client takes the request to have failed.
LoseResponse ==
  /\ ~Idle /\ response' = NoResponse
  /\ \/ DisconnectsOnLoss(response) /\ Disconnect
     \/ /\ ~DisconnectsOnLoss(response)
        /\ fresh' = (fresh /\ response.op = "renew")
        /\ smooth' = (smooth /\ response.op \in {"renew", "checkin"})
        /\ UNCHANGED <<serverVars, status, authToken, lastRenewedAt, lastCheckin, relayRole>>

\* The request of a checkin is lost or refused.
CheckinFails ==
  Idle /\ Connected /\ UNCHANGED response /\ Disconnect

\* The client finds its token expired, when it shows its status or asks; its
\* relay is not told, which makes no difference to its role here.
TokenExpired ==
  /\ Idle /\ Connected /\ ~Usable
  /\ UNCHANGED response /\ Disconnect

-----------------------------------------------------------------------------
SessionInit ==
  /\ Init
  /\ authToken = None /\ lastRenewedAt = 0
  /\ lastCheckin = [Hosting |-> FALSE, LinkedLobby |-> 0]
  /\ relayRole = "idle"
  /\ status = "none"
  /\ response = NoResponse
  /\ fresh = FALSE /\ smooth = TRUE

\* Whoever else uses the server, its clock and its sweeper.
Others ==
  /\ \/ \E n \in Usernames \ {Me} : HandleLogin(n)
     \/ \E t \in {t \in tokens : t.sub # Me} :
          \/ HandleLogout(t) \/ HandleRenew(t) \/ HandleDeleteHostStatus(t)
          \/ \E name \in LobbyNames : HandleUpdateHostStatus(t, name, FALSE)
          \/ \E l \in 0..MaxLobbies : HandleUpdateLinkStatus(t, l)
     \/ FindExpiredUserSessions \/ Tick
  /\ UNCHANGED <<clientVars, status, response>>

SessionNext ==
  \/ GetStatus \/ CommandFails
  \/ Connect \/ Logout \/ RenewToken \/ Checkin
  \/ Host \/ StopHost \/ \E l \in DOMAIN lobbies : Link(l)
  \/ Unlink
  \/ Receive \/ LoseResponse \/ CheckinFails \/ TokenExpired
  \/ Others

\* A request ends, unless its response calls the relay.  The goroutine that
\* checks in each second gets the mutex, however often the commands take it.
SessionSpec ==
  /\ SessionInit /\ [][SessionNext]_sessionVars
  /\ WF_sessionVars(~CallsRelay /\ (Receive \/ LoseResponse))
  /\ SF_sessionVars(Checkin \/ CheckinFails)

-----------------------------------------------------------------------------
(* Properties. *)

SessionTypeOK ==
  /\ TypeOK
  /\ authToken \in Token \cup {None}
  /\ lastRenewedAt \in Nat
  /\ lastCheckin \in [Hosting : BOOLEAN, LinkedLobby : 0..(lobbyIdCounter - 1)]
  /\ relayRole \in {"idle", "hosting", "linked"}
  /\ status \in {"none", "idle", "hosting", "linked"}
  /\ fresh \in BOOLEAN /\ smooth \in BOOLEAN

\* The client and the server can be compared: no request is under way and the
\* client's token still verifies.
Quiet == Idle /\ authToken \in tokens

\* After a checkin of its own session, and until it loses a response, the
\* client knows its roles: it never shows to be hosting when it is not, or
\* the other way about, and its link is the server's or one that the host's
\* logout has ended since.  Its session exists as long as its token verifies.
ViewMatchesServer ==
  Quiet /\ fresh =>
    /\ authToken.uid \in DOMAIN users
    /\ lastCheckin.Hosting <=> users[authToken.uid].Hosting > 0
    /\ users[authToken.uid].Linkedto \in {0, lastCheckin.LinkedLobby}

\* As long as no response has been lost and no session has ended, the relays
\* at both ends work for the same role: the client's hosts when the server's
\* was told that it does, and is linked when the client shows a link.
RelaysAgree ==
  Quiet /\ smooth =>
    /\ relayRole = "hosting" <=> Told(authToken.uid).hosting
    /\ relayRole = "linked" <=> lastCheckin.LinkedLobby > 0
    /\ users[authToken.uid].Linkedto > 0 => relayRole = "linked"

\* The role that the command under way goes by, until its response is there.
StatusInUse ==
  CASE response.op \in {"host", "link"} -> "idle"
    [] response.op = "stop"             -> "hosting"
    [] response.op = "unlink"           -> "linked"
    [] OTHER                            -> status

\* The client of this module is the one that RestClient refines: a response
\* changes what it shows, and its relay's role with it, in one step of a
\* connected client, by a command whose status allowed it.
Client == INSTANCE ClientView WITH
  Lobbies <- 1..MaxLobbies,
  connected <- Connected,
  hosting <- lastCheckin.Hosting,
  link <- lastCheckin.LinkedLobby,
  role <- relayRole,
  status <- StatusInUse

ImplementsClientView == Client!Spec

\* As long as the calls of its relay return, the client makes good a lost
\* response, and what it kept from an earlier session (rest.go:241), or it
\* disconnects.
ViewCatchesUp == []<>~CallsRelay => (Connected ~> (fresh \/ ~Connected))
=============================================================================

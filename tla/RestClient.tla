----------------------------- MODULE RestClient -----------------------------
(***************************************************************************)
(* The client's connection to the control server: client/rest.go, driven   *)
(* by the command loop of client/client.go.  Two goroutines share the      *)
(* restClient: the command loop, which runs one command at a time, and the *)
(* checkin goroutine, which each second receives from checkinChannel if it *)
(* can and, unless told to sleep, checks in and renews the token.  Each    *)
(* holds rc.mutex while it talks to the server, but the receive, the       *)
(* choice of a command by a snapshot of the status and the reading of the  *)
(* lobbies map are outside the mutex, and a send waits, mutex held, while  *)
(* the channel is full.                                                    *)
(*                                                                         *)
(* The server may answer anything that it could answer to some client, but *)
(* a request without a token it never accepts.  The game data relay is     *)
(* represented by the last thing each of its On... methods was told.  They *)
(* are called with rc.mutex held and need not return, but for              *)
(* OnConnectedToServer, whose dial has a timeout.                          *)
(***************************************************************************)
EXTENDS Naturals, Sequences

CONSTANT LobbyIds  \* ids of lobbies on the server

ASSUME LobbyIdsAssumption == LobbyIds \subseteq Nat \ {0}

VARIABLES
  mutex,           \* rc.mutex: "free", or who holds it
  checkinChannel,  \* the buffered channel, as a sequence
  hasToken,        \* rc.authToken is not ""
  age,             \* of the token, by rc.lastRenewedAt
  lastCheckin,     \* rc.lastCheckin
  relayConnected,  \* the relay was told of a connection that is not over
  relayRole,       \* the role it was last told
  command,         \* where the command loop is
  op,              \* the command it runs
  target,          \* the lobby a link command has found
  status,          \* the status the command acts on
  checkin,         \* where the checkin goroutine is
  sleeping         \* its local variable of this name

vars == <<mutex, checkinChannel, hasToken, age, lastCheckin, relayConnected,
          relayRole, command, op, target, status, checkin, sleeping>>

relayVars   == <<relayConnected, relayRole>>
clientVars  == <<hasToken, age, lastCheckin>>
commandVars == <<command, op, target, status>>
checkinVars == <<checkin, sleeping>>

-----------------------------------------------------------------------------
(* Types. *)

\* The bodies of a checkin, and their client-side copy, whose map is nil
\* until the first of them is decoded.
Answers == [Lobbies : SUBSET LobbyIds, Hosting : BOOLEAN,
            LinkedLobby : LobbyIds \cup {0}]

CheckinCopy == [made : BOOLEAN, Lobbies : SUBSET LobbyIds, Hosting : BOOLEAN,
                LinkedLobby : LobbyIds \cup {0}]

NoCheckin == [made |-> FALSE, Lobbies |-> {}, Hosting |-> FALSE,
              LinkedLobby |-> 0]

\* What GetStatus returns.
Status == [connected : BOOLEAN, checkin : CheckinCopy]

NotConnected == [connected |-> FALSE, checkin |-> NoCheckin]

Ops == {"connect", "disconnect", "list", "link", "unlink", "host start",
        "host stop"}

\* Where the command loop holds the mutex, and where it sends while it does.
CommandHolds == {"expired status", "expired op", "request", "start", "stop",
                 "logout again", "relay"}

CommandSends == {"expired status", "expired op", "start", "stop"}

CommandPlaces ==
  {"idle", "status", "choose", "scan", "lock", "crashed"} \cup CommandHolds

CheckinHolds == {"request", "decode", "renew", "stop", "relay"}

CheckinPlaces == {"ticker", "lock", "crashed"} \cup CheckinHolds

-----------------------------------------------------------------------------
(* Helpers. *)

HasRoomForTwo == Len(checkinChannel) < 2  \* mutant: a wider buffer
HasRoom == Len(checkinChannel) < 1

Send(v) == HasRoom /\ checkinChannel' = Append(checkinChannel, v)

CanReceiveUnlessSleeping == Len(checkinChannel) > 0 /\ ~sleeping  \* mutant
CanReceive == Len(checkinChannel) > 0

Expired == age = "expired"

\* The two minutes are over: stop checkins, forget the token.  Nothing else.
StopExpiredSilently == HasRoom /\ UNCHANGED checkinChannel  \* mutant: no send
StopExpired == Send(FALSE)

\* json.Unmarshal into the old value: fields are overwritten, but entries are
\* only ever added to a map that is there.
Unmarshal(old, answer) ==
  [made |-> TRUE, Lobbies |-> old.Lobbies \cup answer.Lobbies,
   Hosting |-> answer.Hosting, LinkedLobby |-> answer.LinkedLobby]

\* "Remote Lobby closed."
LinkLostAfterDecode(answer) == FALSE  \* mutant: compares after decoding
LinkLost(answer) == lastCheckin.LinkedLobby > 0 /\ answer.LinkedLobby = 0

AcceptsIfConnected(c, s) == (c = "connect") = ~s.connected  \* mutant: no look at the role

\* What the command loop does with a command, by the status it was given.
Accepts(c, s) ==
  LET linked == s.checkin.LinkedLobby > 0
  IN  CASE c = "connect"    -> ~s.connected
        [] c = "disconnect" -> s.connected
        [] c = "list"       -> s.connected
        [] c = "link"       -> s.connected /\ ~s.checkin.Hosting /\ ~linked
        [] c = "unlink"     -> s.connected /\ linked
        [] c = "host start" -> s.connected /\ ~linked /\ ~s.checkin.Hosting
        [] c = "host stop"  -> s.connected /\ ~linked /\ s.checkin.Hosting

\* Whether an operation that has the mutex goes on to its request.
GoesOnByStatus(c, connected) == c = "connect" => ~connected  \* mutant
GoesOn(c, connected) == (c = "connect") = ~connected

\* The operation is over: the mutex is released and the result is ignored.
Return ==
  /\ mutex' = "free"
  /\ command' = "idle"
  /\ op' = "list"
  /\ target' = 0
  /\ UNCHANGED status

\* A method of the relay is called, with the mutex.
CallRelay ==
  /\ command' = "relay"
  /\ UNCHANGED <<mutex, op, target, status>>

-----------------------------------------------------------------------------
Init ==
  /\ mutex = "free"
  /\ checkinChannel = <<FALSE>>
  /\ hasToken = FALSE
  /\ age = "fresh"
  /\ lastCheckin = NoCheckin
  /\ relayConnected = FALSE
  /\ relayRole = "none"
  /\ command = "idle"
  /\ op = "list"
  /\ target = 0
  /\ status = NotConnected
  /\ checkin = "ticker"
  /\ sleeping = FALSE

-----------------------------------------------------------------------------
(* The command loop: the status and the choice. *)

GetNextCommand(c) ==
  /\ command = "idle"
  /\ command' = "status"
  /\ op' = c
  /\ UNCHANGED <<mutex, checkinChannel, target, status>>
  /\ UNCHANGED <<clientVars, relayVars, checkinVars>>

GetStatus ==
  /\ command = "status"
  /\ mutex = "free"
  /\ \/ /\ hasToken /\ Expired
        /\ mutex' = "command"
        /\ command' = "expired status"
        /\ UNCHANGED status
     \/ /\ ~(hasToken /\ Expired)
        /\ command' = "choose"
        /\ status' = IF hasToken
                     THEN [connected |-> TRUE, checkin |-> lastCheckin]
                     ELSE NotConnected
        /\ UNCHANGED mutex
  /\ UNCHANGED <<checkinChannel, op, target, clientVars, relayVars, checkinVars>>

GetStatusExpired ==
  /\ command = "expired status"
  /\ StopExpired
  /\ hasToken' = FALSE
  /\ mutex' = "free"
  /\ command' = "choose"
  /\ status' = NotConnected
  /\ UNCHANGED <<age, lastCheckin, op, target, relayVars, checkinVars>>

ProcessCommand ==
  /\ command = "choose"
  /\ command' = IF ~Accepts(op, status) THEN "idle"
                ELSE IF op \in {"list", "link"} THEN "scan" ELSE "lock"
  /\ op' = IF command' = "idle" THEN "list" ELSE op
  /\ status' = IF command' = "scan" THEN status ELSE NotConnected
  /\ UNCHANGED <<mutex, checkinChannel, target>>
  /\ UNCHANGED <<clientVars, relayVars, checkinVars>>

\* The loop over the lobbies of the status, without the mutex.  The status
\* is a copy, but its map is the one that checkins are decoded into.
ScanLobbies ==
  /\ command = "scan"
  /\ \/ /\ op = "link"
        /\ status.checkin.made
        /\ \E l \in lastCheckin.Lobbies : target' = l
        /\ command' = "lock"
        /\ UNCHANGED op
     \/ /\ command' = "idle"
        /\ op' = "list"
        /\ UNCHANGED target
  /\ status' = NotConnected
  /\ UNCHANGED <<mutex, checkinChannel>>
  /\ UNCHANGED <<clientVars, relayVars, checkinVars>>

\* The loop and a decoding use the same map at the same time.
MapShared == command = "scan" /\ status.checkin.made /\ checkin = "decode"

\* The Go runtime ends a program that it sees doing that.
ConcurrentMapFault ==
  /\ MapShared
  /\ command' = "crashed"
  /\ checkin' = "crashed"
  /\ UNCHANGED <<mutex, checkinChannel, clientVars, relayVars, op, target,
                 status, sleeping>>

-----------------------------------------------------------------------------
(* The command loop: the operations of restClient. *)

\* Lock, then checkConnectedNoLock.
LockForOp ==
  /\ command = "lock"
  /\ mutex = "free"
  /\ \/ /\ hasToken /\ Expired
        /\ mutex' = "command"
        /\ command' = "expired op"
        /\ UNCHANGED <<op, target, status>>
     \/ /\ ~(hasToken /\ Expired)
        /\ GoesOn(op, hasToken)
        /\ mutex' = "command"
        /\ command' = "request"
        /\ UNCHANGED <<op, target, status>>
     \/ /\ ~(hasToken /\ Expired)
        /\ ~GoesOn(op, hasToken)
        /\ Return
  /\ UNCHANGED <<checkinChannel, clientVars, relayVars, checkinVars>>

\* A connect goes on to log in again; any other operation returns.
OpExpired ==
  /\ command = "expired op"
  /\ StopExpired
  /\ hasToken' = FALSE
  /\ \/ /\ op = "connect"
        /\ command' = "request"
        /\ UNCHANGED <<mutex, op, target, status>>
     \/ op # "connect" /\ Return
  /\ UNCHANGED <<age, lastCheckin, relayVars, checkinVars>>

\* No response, or not the expected status code.
RequestFails ==
  /\ command = "request"
  /\ Return
  /\ UNCHANGED <<checkinChannel, clientVars, relayVars, checkinVars>>

\* A login whose URL does not parse, by the name in it, gives no response to
\* log the status of.
RequestPanics ==
  /\ command = "request"
  /\ op = "connect"
  /\ command' = "crashed" /\ checkin' = "crashed"
  /\ UNCHANGED <<mutex, checkinChannel, clientVars, relayVars, op, target,
                 status, sleeping>>

AfterRelayUnchecked(ok) == "start"  \* mutant: connected without a relay
AfterRelay(ok) == IF ok THEN "start" ELSE "logout again"

\* The relay is given rc.authToken, which the login has not yet set.  When it
\* fails, Connect calls Logout, which locks the mutex that Connect holds: the
\* command loop stays at "logout again".
LoginAccepted ==
  /\ command = "request"
  /\ op = "connect"
  /\ \E ok \in BOOLEAN :
       /\ command' = AfterRelay(ok)
       /\ relayConnected' = (ok \/ relayConnected)
  /\ UNCHANGED <<mutex, checkinChannel, clientVars, relayRole, op, target,
                 status, checkinVars>>

CheckinsStayOff == FALSE  \* mutant: the wrong value is sent
CheckinsOn == TRUE

Connected ==
  /\ command = "start"
  /\ Send(CheckinsOn)
  /\ hasToken' = TRUE
  /\ age' = "fresh"
  /\ Return
  /\ UNCHANGED <<lastCheckin, relayVars, checkinVars>>

LogoutAccepted ==
  /\ command = "request"
  /\ op = "disconnect"
  /\ command' = "stop"
  /\ UNCHANGED <<mutex, checkinChannel, clientVars, relayVars, op, target,
                 status, checkinVars>>

\* completeDisconnect, up to its call of the relay; lastCheckin is left as it
\* was.
CompleteDisconnect ==
  /\ Send(FALSE)
  /\ hasToken' = FALSE
  /\ relayConnected' = FALSE
  /\ UNCHANGED <<age, lastCheckin, relayRole>>

LoggedOut ==
  /\ command = "stop"
  /\ CompleteDisconnect
  /\ CallRelay
  /\ UNCHANGED checkinVars

\* Link, Unlink, Host and StopHost: their effect on lastCheckin, and the call
\* of the relay that comes last.
RoleAccepted ==
  /\ command = "request"
  /\ \/ /\ op = "link"
        /\ lastCheckin' = [lastCheckin EXCEPT !.LinkedLobby = target]
        /\ relayRole' = "linked"
     \/ /\ op = "unlink"
        /\ lastCheckin' = [lastCheckin EXCEPT !.LinkedLobby = 0]
        /\ relayRole' = "none"
     \/ /\ op = "host start"
        /\ lastCheckin' = [lastCheckin EXCEPT !.Hosting = TRUE]
        /\ relayRole' = "hosting"
     \/ /\ op = "host stop"
        /\ lastCheckin' = [lastCheckin EXCEPT !.Hosting = FALSE]
        /\ relayRole' = "none"
  /\ CallRelay
  /\ UNCHANGED <<checkinChannel, hasToken, age, relayConnected,
                 checkinVars>>

CommandRelayReturns ==
  /\ command = "relay"
  /\ Return
  /\ UNCHANGED <<checkinChannel, clientVars, relayVars, checkinVars>>

-----------------------------------------------------------------------------
(* The checkin goroutine. *)

\* A tick: a receive that does not wait.
CheckinTick ==
  /\ checkin = "ticker"
  /\ \/ /\ CanReceive
        /\ sleeping' = ~Head(checkinChannel)
        /\ checkinChannel' = Tail(checkinChannel)
     \/ /\ ~CanReceive
        /\ UNCHANGED <<sleeping, checkinChannel>>
  /\ checkin' = IF sleeping' THEN "ticker" ELSE "lock"
  /\ UNCHANGED <<mutex, clientVars, relayVars, commandVars>>

CheckinLock ==
  /\ checkin = "lock"
  /\ mutex = "free"
  /\ mutex' = "checkin"
  /\ checkin' = "request"
  /\ UNCHANGED <<checkinChannel, clientVars, relayVars, commandVars, sleeping>>

CheckinReturn ==
  /\ mutex' = "free"
  /\ checkin' = "ticker"
  /\ UNCHANGED sleeping

CheckinAnswered ==
  /\ checkin = "request"
  /\ hasToken
  /\ checkin' = "decode"
  /\ UNCHANGED <<mutex, checkinChannel, clientVars, relayVars, commandVars,
                 sleeping>>

CheckinFails ==
  /\ checkin = "request"
  /\ checkin' = "stop"
  /\ UNCHANGED <<mutex, checkinChannel, clientVars, relayVars, commandVars,
                 sleeping>>

\* The rest of a successful checkin, after the relay was called if it was.
ThenRenew ==
  \/ /\ age = "fresh"
     /\ CheckinReturn
  \/ /\ age # "fresh"
     /\ checkin' = "renew"
     /\ UNCHANGED <<mutex, sleeping>>

CheckinDecode(answer) ==
  /\ checkin = "decode"
  /\ lastCheckin' = Unmarshal(lastCheckin, answer)
  /\ \/ /\ LinkLost(answer)
        /\ relayRole' = "none"
        /\ checkin' = "relay"
        /\ UNCHANGED <<mutex, sleeping>>
     \/ /\ ~LinkLost(answer)
        /\ ThenRenew
        /\ UNCHANGED relayRole
  /\ UNCHANGED <<checkinChannel, hasToken, age, relayConnected,
                 commandVars>>

RenewToken ==
  /\ checkin = "renew"
  /\ age' \in {"fresh", age}
  /\ CheckinReturn
  /\ UNCHANGED <<checkinChannel, hasToken, lastCheckin, relayVars, commandVars>>

CheckinStop ==
  /\ checkin = "stop"
  /\ CompleteDisconnect
  /\ checkin' = "relay"
  /\ UNCHANGED <<mutex, sleeping, commandVars>>

\* It was called for a lost link, or at last for a failed checkin.
CheckinRelayReturns ==
  /\ checkin = "relay"
  /\ \/ hasToken /\ ThenRenew
     \/ ~hasToken /\ CheckinReturn
  /\ UNCHANGED <<checkinChannel, clientVars, relayVars, commandVars>>

-----------------------------------------------------------------------------
\* Time passes for the token: thirty seconds, then two minutes.
Age ==
  /\ hasToken
  /\ \/ age = "fresh" /\ age' = "due"
     \/ age = "due" /\ age' = "expired"
  /\ UNCHANGED <<mutex, checkinChannel, hasToken, lastCheckin, relayVars,
                 commandVars, checkinVars>>

CommandStep ==
  \/ GetStatusExpired \/ ProcessCommand \/ ScanLobbies \/ OpExpired
  \/ RequestFails \/ RequestPanics \/ LoginAccepted \/ Connected
  \/ LogoutAccepted \/ LoggedOut \/ RoleAccepted

CheckinStep ==
  \/ CheckinTick \/ CheckinAnswered \/ CheckinFails
  \/ \E answer \in Answers : CheckinDecode(answer)
  \/ RenewToken \/ CheckinStop

Next ==
  \/ \E c \in Ops : GetNextCommand(c)
  \/ GetStatus \/ LockForOp \/ CommandStep
  \/ CheckinLock \/ CheckinStep
  \/ CommandRelayReturns \/ CheckinRelayReturns
  \/ ConcurrentMapFault
  \/ Age

\* A goroutine that can run does, a request is answered or fails, and a Go
\* mutex that becomes free again and again is given to whoever waits for it.
\* The calls of the relay are not among the steps that are certain to end.
Fairness ==
  /\ WF_vars(CommandStep)
  /\ WF_vars(CheckinStep)
  /\ SF_vars(GetStatus \/ LockForOp)
  /\ SF_vars(CheckinLock)

Spec == Init /\ [][Next]_vars /\ Fairness

-----------------------------------------------------------------------------
(* Properties. *)

\* The variables have their types; the channel never holds more than one.
TypeOK ==
  /\ mutex \in {"free", "command", "checkin"}
  /\ checkinChannel \in {<<>>, <<TRUE>>, <<FALSE>>}
  /\ hasToken \in BOOLEAN
  /\ age \in {"fresh", "due", "expired"}
  /\ lastCheckin \in CheckinCopy
  /\ relayConnected \in BOOLEAN
  /\ relayRole \in {"none", "hosting", "linked"}
  /\ command \in CommandPlaces
  /\ op \in Ops
  /\ target \in LobbyIds \cup {0}
  /\ status \in Status
  /\ checkin \in CheckinPlaces
  /\ sleeping \in BOOLEAN

\* The last word sent to the checkin goroutine, received or not.
LastSent == IF checkinChannel = <<>> THEN ~sleeping ELSE Head(checkinChannel)

\* Whenever the mutex is free, the last word sent to the checkin goroutine is
\* to check in if and only if the client has a token: each way of getting or
\* losing one (connect, logout, expiry, a failed checkin) sends the word.
\* Before the first tick the word in the channel says to sleep.
CheckinFollowsConnection == mutex = "free" => (LastSent <=> hasToken)

\* Outside its operations the client is only connected with a relay connected.
ConnectedOnlyWithRelay == mutex = "free" /\ hasToken => relayConnected

\* A command acts on a status that may be old by the time it has the mutex;
\* still no request but a checkin is sent without a token, and no login with
\* one, which would leave a session on the server that nobody can log out.
RequestsCarryToken ==
  /\ command \in {"request", "stop"} => (hasToken <=> op # "connect")
  /\ checkin \in {"decode", "renew"} => hasToken

\* The relay never works for a link that the client shows as gone.
RelayStopsWithLink == relayRole = "linked" => lastCheckin.LinkedLobby > 0

\* The role that the command under way goes by, if it is connected and a
\* command for a role: at first its status says, then what it was chosen to do.
StatusInUse ==
  LET s == status.checkin
  IN  CASE command \in {"choose", "scan"} /\ status.connected ->
             IF s.LinkedLobby > 0 THEN "linked"
             ELSE IF s.Hosting THEN "hosting" ELSE "idle"
        [] command \in {"lock", "expired op", "request"} ->
             CASE op \in {"link", "host start"} -> "idle"
               [] op = "host stop"              -> "hosting"
               [] op = "unlink"                 -> "linked"
               [] OTHER                         -> "none"
        [] OTHER -> "none"

\* Whatever the two goroutines do between their locks, the client connects,
\* disconnects and changes its role, and its relay's, in single steps of a
\* connected client, each by a status that allowed it.
Client == INSTANCE ClientView WITH
  Lobbies <- LobbyIds,
  connected <- hasToken,
  hosting <- lastCheckin.Hosting,
  link <- lastCheckin.LinkedLobby,
  role <- IF relayRole = "none" THEN "idle" ELSE relayRole,
  status <- StatusInUse

ImplementsClientView == Client!Spec

\* The mutex is never given back: by a connect that calls Logout, which waits
\* for it (rest.go:206), or by a send to a full channel whose receiver waits
\* for it, or is the sender.
Hangs ==
  \/ command = "logout again"
  \/ ~HasRoom /\ (checkin = "stop" \/ (command \in CommandSends /\ checkin = "lock"))

\* A call of the relay is under way, with the mutex held.
InRelay == command = "relay" \/ checkin = "relay"

\* As long as the calls of the relay return, whoever has the mutex gives it
\* back, with the request answered and the word sent, but for these ways to hang
\* and for the end of the program: a send to a full channel always meets a
\* checkin goroutine that has yet to tick.
MutexIsReleased ==
  []<>~InRelay =>
    (mutex # "free" ~> (mutex = "free" \/ Hangs \/ command = "crashed"))

\* As long as they return, a client that is logged in checks in, unless it stops
\* being logged in or the whole program ends.
LoggedInClientChecksIn ==
  []<>~InRelay => (hasToken ~> (checkin \in {"request", "crashed"} \/ ~hasToken))

-----------------------------------------------------------------------------
(* What comments of the repository say and the code does not do.            *)

\* rest.go:34: the buffer makes sends non-blocking; so the checkin goroutine,
\* the only receiver, never waits to send to itself.
CheckinSendIsNonBlocking == checkin = "stop" => HasRoom

\* rest.go:137: a checkin is not thread safe and needs the mutex; so nobody
\* reads without it the map that a checkin writes.
MapNotReadDuringDecode == ~MapShared
=============================================================================

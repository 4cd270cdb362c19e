----------------------------- MODULE ClientRelay -----------------------------
(***************************************************************************)
(* The game data relay of the client: client/relay.go.  The REST client    *)
(* calls its methods one at a time, with its own mutex held.  One          *)
(* goroutine, the reader, takes a signal of the methods and then reads a   *)
(* message of the server, in turn; each proxied game has a goroutine that  *)
(* sends the packets of the local game to the server.  The methods and     *)
(* parts of the reader hold relay.mutex; the websocket connection is set   *)
(* with it and cleared without it.  A packet is the identifier it carries. *)
(***************************************************************************)
EXTENDS Naturals, Sequences, Functions

CONSTANTS
  Ids,     \* identifiers of packets: ids of users, from 0
  Proxies  \* bound: the virtualGameProxy objects there can be at one time

ASSUME IdsAssumption == 0 \in Ids

VARIABLES
  mutex,         \* relay.mutex: "free", or who holds it
  connection,    \* remoteConnection: "none" is nil, and only "open" is good;
                 \* "closed" is by the reader, at its end
  signals,       \* what remoteSignalChannel, of one place, holds
  signalsClosed, \* it has been closed
  localProxies,  \* identifier -> proxy
  place,         \* proxy -> where its goroutine is
  told,          \* the proxies whose signalChannel has been closed
  sockets,       \* the proxies whose UDP socket is open
  reader,        \* where the reader is
  forwarding,    \* its local variables
  hosting,
  method,        \* the method that is called, and where it is
  session,       \* the REST client has a token
  shown,         \* the role that it shows, by its last checkin or command
  crashed        \* a panic has ended the program

remoteVars == <<connection, signals, signalsClosed>>
proxyVars  == <<localProxies, place, told, sockets>>
readerVars == <<reader, forwarding, hosting>>
clientVars == <<session, shown>>

vars == <<mutex, remoteVars, proxyVars, readerVars, method, clientVars, crashed>>

-----------------------------------------------------------------------------
(* Helpers. *)

\* A method holds the mutex unless it is idle, or the REST client waits for
\* itself after a failed connect (client/rest.go:206).
Sends  == {"begin hosting", "begin linked", "stop hosting", "stop linked"}
Closes == {"close all", "close linked"}
MethodPlaces == {"idle", "write close", "stuck"} \cup Sends \cup Closes

\* What a channel of one place holds; a STOP_FORWARDING is a "stop".
SignalValues == {<<>>, <<"begin hosting">>, <<"begin linked">>, <<"stop">>}

ReaderPlaces ==
  {"none", "receive", "read", "packet", "lost", "close", "wait", "exit", "closed"}

ProxyPlaces ==
  {"none", "starting", "reading", "got", "failed", "shut", "sending"}

\* The status of a command under way may be from before the last checkin, and so
\* show a link that is "gone", or none although one is "found".
Shown == {"nothing", "hosting", "gone", "found", "linked"}

Lock(m) == mutex = "free" /\ mutex' = "method" /\ method' = m

Return == mutex' = "free" /\ method' = "idle"

InMap == Range(localProxies)

\* A new virtualGameProxy in the map, its socket and its goroutine.
AddProxy(id, p) ==
  /\ place[p] = "none" /\ p \notin InMap
  /\ localProxies' = [i \in DOMAIN localProxies \cup {id} |->
                        IF i = id THEN p ELSE localProxies[i]]
  /\ place' = [place EXCEPT ![p] = "starting"]
  /\ told' = told \ {p}
  /\ sockets' = sockets \cup {p}

FoundNever(id) == FALSE  \* mutant
Found(id) == id \in DOMAIN localProxies

FullWithTwo == Len(signals) > 1  \* mutant
Full == signals # <<>>

\* The proxies that the waitgroup counts: each has added itself.
CountedWithoutDone == told  \* mutant
Counted == {p \in Proxies : place[p] \notin {"none", "starting"}}

Sending == {p \in Proxies : place[p] = "sending"}

\* The holder of the mutex is closing proxies, and which.
Closing == method \in Closes \/ reader = "close"

LinkedProxies == {localProxies[i] : i \in {0} \cap DOMAIN localProxies}
ToClose == IF method = "close linked" THEN LinkedProxies ELSE InMap

ClosedButForSockets(S) == S \subseteq told  \* mutant: reads go on
Closed(S) == S \subseteq told /\ S \cap sockets = {}

\* A proxy's channel is closed before its socket.
MayCloseSocketFirst(p) == TRUE  \* mutant
MayCloseSocketLast(p) == place[p] = "none"  \* mutant: waits for the goroutine
MayCloseSocket(p) == p \in told

-----------------------------------------------------------------------------
Init ==
  /\ mutex = "free"
  /\ connection = "none" /\ signals = <<>> /\ signalsClosed = FALSE
  /\ localProxies = <<>> /\ place = [p \in Proxies |-> "none"]
  /\ told = {} /\ sockets = {}
  /\ reader = "none" /\ forwarding = FALSE /\ hosting = FALSE
  /\ method = "idle"
  /\ session = FALSE /\ shown = "nothing"
  /\ crashed = FALSE

-----------------------------------------------------------------------------
(* The methods; the first step of each is its call and its Lock.            *)

CallFrame == UNCHANGED <<readerVars, crashed>>

\* A command is over, and the next takes its status anew.
Shows(role) == shown' = IF shown \in {"found", "linked"} THEN "linked" ELSE role

\* Called by Connect, without a token.  A connection that there still is will
\* do, whatever its state; a failure leaves the REST client hanging.
OnConnectedToServer ==
  /\ method = "idle" /\ mutex = "free" /\ ~session
  /\ \/ connection # "none" /\ UNCHANGED <<connection, readerVars>>
     \/ /\ connection = "none" /\ connection' = "open"
        /\ reader' = "receive" /\ forwarding' = FALSE /\ hosting' = FALSE
  /\ session' = TRUE /\ Shows(IF shown = "hosting" THEN shown ELSE "nothing")
  /\ UNCHANGED <<mutex, signals, signalsClosed, proxyVars, method, crashed>>

ConnectFails ==
  /\ method = "idle" /\ mutex = "free" /\ ~session
  /\ connection = "none"
  /\ method' = "stuck"
  /\ UNCHANGED <<mutex, remoteVars, proxyVars, clientVars>> /\ CallFrame

\* Called when logged out and when a checkin fails, with a token or without.
\* The role shown stays as it was.
OnDisconnectedFromServer ==
  /\ method = "idle"
  /\ session' = FALSE
  /\ \/ connection # "none" /\ Lock("write close")
     \/ connection = "none" /\ mutex = "free" /\ UNCHANGED <<mutex, method>>
  /\ UNCHANGED <<remoteVars, proxyVars, shown>> /\ CallFrame

WriteClose ==
  /\ method = "write close"
  /\ connection \in {"open", "lost"}
  /\ connection' = IF connection = "open" THEN "closing" ELSE "lost"
  /\ Return
  /\ UNCHANGED <<signals, signalsClosed, proxyVars, clientVars>> /\ CallFrame

\* A command to host or to link goes by a status without a role, and the server
\* refuses both to a client that hosts.
MayBegin == session /\ shown \in {"nothing", "gone", "found"}

OnBeginHosting ==
  /\ method = "idle" /\ MayBegin /\ Shows("hosting")
  /\ \/ InMap = {} /\ Lock("begin hosting")
     \/ InMap # {} /\ mutex = "free" /\ UNCHANGED <<mutex, method>>
  /\ UNCHANGED <<remoteVars, proxyVars, session>> /\ CallFrame

OnStopHosting ==
  /\ method = "idle" /\ session /\ shown # "linked" /\ Shows("nothing")
  /\ Lock("stop hosting")
  /\ UNCHANGED <<remoteVars, proxyVars, session>> /\ CallFrame

OnBeginLinked ==
  /\ method = "idle" /\ MayBegin /\ shown' = "linked"
  /\ \/ InMap = {} /\ Lock("begin linked") /\ \E p \in Proxies : AddProxy(0, p)
     \/ InMap # {} /\ mutex = "free" /\ UNCHANGED <<mutex, method, proxyVars>>
  /\ UNCHANGED <<remoteVars, session>> /\ CallFrame

\* By a command to unlink, even from a link that is gone, or by the checkin that
\* shows that it is gone.
OnStopLinked ==
  /\ method = "idle" /\ session
  /\ \/ shown \in {"found", "linked"} /\ shown' \in {"nothing", "gone"}
     \/ shown = "gone" /\ shown' = "nothing"
  /\ Lock("stop linked")
  /\ UNCHANGED <<remoteVars, proxyVars, session>> /\ CallFrame

\* Waits, with the mutex, while the channel is full.
SendSignal ==
  /\ method \in Sends
  /\ ~signalsClosed /\ ~Full
  /\ \/ /\ method \in {"begin hosting", "begin linked"}
        /\ signals' = Append(signals, method) /\ Return
     \/ /\ method \in {"stop hosting", "stop linked"}
        /\ signals' = Append(signals, "stop")
        /\ method' = IF method = "stop hosting" THEN "close all"
                                                ELSE "close linked"
        /\ UNCHANGED mutex
  /\ UNCHANGED <<connection, signalsClosed, proxyVars, clientVars>> /\ CallFrame

\* The loops that close proxies one by one, in the methods and in shutdown.
CloseProxy(p) ==
  /\ Closing
  /\ \/ /\ p \in ToClose \ told /\ ToClose \cap told \cap sockets = {}
        /\ told' = told \cup {p} /\ UNCHANGED sockets
     \/ /\ p \in ToClose \cap sockets /\ MayCloseSocket(p)
        /\ sockets' = sockets \ {p} /\ UNCHANGED told
  /\ UNCHANGED <<mutex, remoteVars, localProxies, place, method, clientVars>>
  /\ CallFrame

\* The end of OnStopHosting and OnStopLinked.
RemoveProxies ==
  /\ method \in Closes
  /\ Closed(ToClose)
  /\ localProxies' = RestrictValues(localProxies, LAMBDA p : p \notin ToClose)
  /\ Return
  /\ UNCHANGED <<remoteVars, place, told, sockets, clientVars>> /\ CallFrame

-----------------------------------------------------------------------------
(* The reader. *)

ReaderFrame == UNCHANGED <<method, clientVars, crashed>>

\* A receive that does not wait; what a closed channel holds comes first.
ReceiveSignal ==
  /\ reader = "receive"
  /\ \/ /\ signals # <<>>
        /\ forwarding' = (Head(signals) # "stop")
        /\ hosting' = (hosting \/ Head(signals) = "begin hosting")
        /\ signals' = Tail(signals)
        /\ reader' = "read"
     \/ /\ signals = <<>>
        /\ reader' = IF signalsClosed THEN "exit" ELSE "read"
        /\ UNCHANGED <<signals, forwarding, hosting>>
  /\ UNCHANGED <<mutex, connection, signalsClosed, proxyVars>> /\ ReaderFrame

ReadMessage ==
  /\ reader = "read"
  /\ connection # "lost"
  /\ reader' = IF forwarding THEN "packet" ELSE "receive"
  /\ UNCHANGED <<mutex, remoteVars, proxyVars, forwarding, hosting>>
  /\ ReaderFrame

ReadFails ==
  /\ reader = "read"
  /\ connection = "lost"
  /\ reader' = "lost"
  /\ UNCHANGED <<mutex, remoteVars, proxyVars, forwarding, hosting>>
  /\ ReaderFrame

\* Lock, find or make the proxy, give it the packet, unlock.
RelayPacket(id) ==
  /\ reader = "packet"
  /\ mutex = "free"
  /\ \/ /\ hosting /\ ~Found(id)
        /\ \E p \in Proxies : AddProxy(id, p)
     \/ /\ ~hosting \/ Found(id)
        /\ UNCHANGED proxyVars
  /\ reader' = "receive"
  /\ UNCHANGED <<mutex, remoteVars, forwarding, hosting>> /\ ReaderFrame

OnRemoteDisconnected ==
  /\ reader = "lost" /\ reader' = "close"
  /\ mutex = "free" /\ mutex' = "reader"
  /\ UNCHANGED <<remoteVars, proxyVars, forwarding, hosting>> /\ ReaderFrame

CloseSignals ==
  /\ reader = "close" /\ reader' = "wait"
  /\ Closed(InMap)
  /\ ~signalsClosed /\ signalsClosed' = TRUE
  /\ UNCHANGED <<mutex, connection, signals, proxyVars, forwarding, hosting>>
  /\ ReaderFrame

\* The wait does not count the goroutines that have yet to start.
ShutdownDone ==
  /\ reader = "wait" /\ reader' = "receive"
  /\ Counted = {}
  /\ localProxies' = <<>>
  /\ mutex' = "free"
  /\ UNCHANGED <<remoteVars, place, told, sockets, forwarding, hosting>>
  /\ ReaderFrame

\* Its deferred function, without the mutex: it closes the connection, and then
\* forgets it.
ReaderExit ==
  /\ reader = "exit" /\ reader' = "closed"
  /\ connection' = "closed"
  /\ UNCHANGED <<mutex, signals, signalsClosed, proxyVars, forwarding, hosting>>
  /\ ReaderFrame

ReaderGone ==
  /\ reader = "closed" /\ reader' = "none"
  /\ connection' = "none"
  /\ UNCHANGED <<mutex, signals, signalsClosed, proxyVars, forwarding, hosting>>
  /\ ReaderFrame

-----------------------------------------------------------------------------
(* The goroutine of a proxy. *)

ProxyMoves(p, to) ==
  /\ place' = [place EXCEPT ![p] = to]
  /\ UNCHANGED <<mutex, remoteVars, localProxies, told, readerVars, method>>
  /\ UNCHANGED <<clientVars, crashed>>

WaitgroupAdd(p) ==
  place[p] = "starting" /\ ProxyMoves(p, "reading") /\ UNCHANGED sockets

\* An open socket waits for the local game, and may fail or give an empty
\* datagram, which both leave a length of 0; a closed one fails every read.
ReadFromUDP(p) ==
  /\ place[p] = "reading"
  /\ \/ p \in sockets /\ \E result \in {"got", "failed"} : ProxyMoves(p, result)
     \/ p \notin sockets /\ ProxyMoves(p, "shut")
  /\ UNCHANGED sockets

CheckSignal(p) ==
  \/ /\ place[p] \in {"got", "failed", "shut"} /\ p \in told
     /\ ProxyMoves(p, "none") /\ sockets' = sockets \ {p}
  \/ /\ place[p] = "got" /\ p \notin told
     /\ ProxyMoves(p, "sending") /\ UNCHANGED sockets

\* An error is only logged.
SendContainerToServer(p) ==
  /\ place[p] = "sending" /\ connection # "none"
  /\ ProxyMoves(p, "reading") /\ UNCHANGED sockets

-----------------------------------------------------------------------------
(* Panics. *)

SendPanics == method \in Sends /\ signalsClosed

ClosePanics == reader = "close" /\ Closed(InMap) /\ signalsClosed

\* buf[0:length-1] when nothing was read.
SlicePanics == \E p \in Proxies : place[p] \in {"failed", "shut"} /\ p \notin told

NilPanics == (Sending # {} \/ method = "write close") /\ connection = "none"

\* On a closed connection, or after a close message, a write fails; on a lost
\* one it may.
WriteCloseFails == method = "write close" /\ connection \in {"closing", "closed"}
WriteClosePanics == WriteCloseFails \/ (method = "write close" /\ connection = "lost")

\* The websocket library panics when it sees two writes at the same time.
TwoWriters == \E p \in Sending : method = "write close" \/ Sending # {p}

MustPanic ==
  SendPanics \/ ClosePanics \/ SlicePanics \/ NilPanics \/ WriteCloseFails

\* The program ends, and nothing of it is left.
Panic ==
  /\ MustPanic \/ WriteClosePanics \/ TwoWriters
  /\ crashed' = TRUE
  /\ mutex' = "free" /\ method' = "idle"
  /\ connection' = "none" /\ signals' = <<>> /\ signalsClosed' = FALSE
  /\ localProxies' = <<>> /\ place' = [p \in Proxies |-> "none"]
  /\ told' = {} /\ sockets' = {}
  /\ reader' = "none" /\ forwarding' = FALSE /\ hosting' = FALSE
  /\ session' = FALSE /\ shown' = "nothing"

-----------------------------------------------------------------------------
(* The rest of the client and the network. *)

\* The server, or the network, ends the connection.
ConnectionLost ==
  /\ connection \in {"open", "closing"} /\ connection' = "lost"
  /\ UNCHANGED <<mutex, signals, signalsClosed, proxyVars, method, clientVars>>
  /\ CallFrame

\* The token expires, which the relay is not told.
TokenExpires ==
  /\ method = "idle" /\ session /\ session' = FALSE
  /\ UNCHANGED <<mutex, remoteVars, proxyVars, method, shown>>
  /\ CallFrame

\* A checkin shows another role: the response to the request for it was lost, so
\* that the relay was not called.
RoleFound ==
  /\ method = "idle" /\ session
  /\ \/ shown \in {"nothing", "gone"} /\ shown' \in {"found", "hosting"}
     \/ shown = "hosting" /\ shown' = "nothing"
  /\ UNCHANGED <<mutex, remoteVars, proxyVars, method, session>> /\ CallFrame

MethodCall ==
  \/ OnConnectedToServer \/ ConnectFails \/ OnDisconnectedFromServer
  \/ OnBeginHosting \/ OnStopHosting \/ OnBeginLinked \/ OnStopLinked

MethodStep == SendSignal \/ RemoveProxies \/ \E p \in Proxies : CloseProxy(p)

ReaderStep == ReceiveSignal \/ ReadFails \/ CloseSignals \/ ShutdownDone
              \/ ReaderExit \/ ReaderGone

LockingStep == OnRemoteDisconnected \/ \E id \in Ids : RelayPacket(id)

ProxyStep(p) == WaitgroupAdd(p) \/ CheckSignal(p)

Next ==
  /\ ~crashed
  /\ \/ MethodCall \/ MethodStep \/ WriteClose
     \/ ReaderStep \/ LockingStep \/ ReadMessage
     \/ \E p \in Proxies :
          ProxyStep(p) \/ ReadFromUDP(p) \/ SendContainerToServer(p)
     \/ Panic
     \/ ConnectionLost \/ TokenExpires \/ RoleFound

\* A write to the server ends when the connection is not open any more: it has
\* no deadline, and the server may not read.
WriteEnds(p) == connection # "open" /\ SendContainerToServer(p)

\* A goroutine that can run does, and a mutex that becomes free again and
\* again is given to the reader that waits for it.  Nobody has to send.
Fairness ==
  /\ WF_vars(~crashed /\ (MethodStep \/ (connection = "lost" /\ WriteClose)))
  /\ WF_vars(~crashed /\ ReaderStep)
  /\ SF_vars(~crashed /\ LockingStep)
  /\ \A p \in Proxies :
       WF_vars(/\ ~crashed
               /\ \/ ProxyStep(p) \/ WriteEnds(p)
                  \/ p \notin sockets /\ ReadFromUDP(p))
  /\ WF_vars(~crashed /\ MustPanic /\ Panic)

Spec == Init /\ [][Next]_vars /\ Fairness

-----------------------------------------------------------------------------
(* Properties. *)

TypeOK ==
  /\ mutex \in {"free", "method", "reader"}
  /\ connection \in {"none", "open", "closing", "lost", "closed"}
  /\ signals \in SignalValues
  /\ signalsClosed \in BOOLEAN
  /\ localProxies \in [DOMAIN localProxies -> Proxies]
  /\ DOMAIN localProxies \subseteq Ids
  /\ place \in [Proxies -> ProxyPlaces]
  /\ told \subseteq Proxies /\ sockets \subseteq Proxies
  /\ reader \in ReaderPlaces
  /\ forwarding \in BOOLEAN /\ hosting \in BOOLEAN
  /\ method \in MethodPlaces
  /\ session \in BOOLEAN /\ shown \in Shown
  /\ crashed \in BOOLEAN

\* Whenever the mutex is free, the proxies in the map are distinct, have not
\* been told to stop and have their port, and any other proxy has been told
\* and has given up its port: none is left behind, none is closed twice, and a
\* new link can bind the game's port again.
MapIsWhoRuns ==
  mutex = "free" =>
    /\ IsInjective(localProxies)
    /\ InMap \cap told = {}
    /\ InMap \subseteq sockets
    /\ \A p \in Proxies \ InMap : place[p] # "none" => Closed({p})

\* A read that fails because its socket was closed is a read of a proxy that
\* has been told to stop, so that nobody takes the data of it, which panics:
\* channel and socket are closed by one goroutine, read and channel looked at by
\* another, in the opposite order.
ClosedReadMeansTold == \A p \in Proxies : place[p] = "shut" => p \in told

\* While the reader waits for the proxies to end, none that it waits for can
\* keep it: each has been told to stop, and its port is closed.
WaitsForClosedOnly ==
  reader = "wait" => Counted \subseteq told /\ Counted \cap sockets = {}

\* The send of a method waits for a reader that waits for the method's mutex.
Deadlocked == method \in Sends /\ Full /\ reader \in {"packet", "lost"}

\* What a method can wait for: a connect that failed, a server that does not
\* read, or with the channel full a reader that waits for the server or for the
\* method's mutex.
MethodWaits ==
  \/ method = "stuck"
  \/ method = "write close" /\ connection = "open"
  \/ method \in Sends /\ Full /\ reader = "read" /\ connection # "lost"
  \/ Deadlocked

\* A method that never returns, and so never gives back the mutex of the REST
\* client, ends in one of these waits: neither the proxies that it closes nor a
\* reader that is gone keep it.
MethodReturns == <>[](method # "idle" /\ ~crashed) => <>[]MethodWaits

\* A proxy that is told to stop ends, wherever it was, unless the server does
\* not take what it sends: closing its socket ends its read (relay.go:176).
ToldProxyEnds ==
  \A p \in Proxies :
    []<>(place[p] # "sending") => (p \in told ~> (place[p] = "none" \/ crashed))

\* After the connection is lost the reader closes every proxy, waits for them
\* and ends: nothing but a panic or the deadlock of a method's send with the
\* reader's lock keeps it, and in particular no proxy it waits for.
ReaderEndsWhenLost ==
  connection = "lost" ~> (reader = "none" \/ crashed \/ Deadlocked)

-----------------------------------------------------------------------------
(* What a comment of the repository says and the code does not do.          *)

\* relay.go:336: "There shouldn't be any virtualgameproxys on host start, or
\* link start either".
NoProxiesOnStart ==
  [][OnBeginHosting \/ OnBeginLinked => InMap = {}]_vars
=============================================================================

----------------------------- MODULE RelayServer -----------------------------
(***************************************************************************)
(* The relay server: server/relay.go.  Each websocket client has a reader  *)
(* goroutine, which authenticates it, forwards its packets to the writer   *)
(* goroutines of other clients, and takes a signal of the matchmaker's     *)
(* handlers after each message.  The channels have no buffer, so a send    *)
(* and its receive are one step.  Readers and handlers look clients up in  *)
(* connections with its lock held for reading, during their sends too; a   *)
(* reader that ends takes the lock for writing.                            *)
(*                                                                         *)
(* Nothing in this repository puts a client into connections, though all   *)
(* the rest is written for clients that are in it.  With Registers, a      *)
(* reader that has authenticated its client puts it there.                 *)
(***************************************************************************)
EXTENDS Naturals, Functions

CONSTANTS
  Clients,   \* bound: the websocket connections there can be at one time
  Users,     \* ids of users, from 0
  None,      \* no client, no signal
  Registers  \* FALSE is the repository as it is

\* proxyClientSignal without stop, which no handler sets.
Role == [forwardTo : Users \cup {0}, hosting : BOOLEAN]

Signal == [client : Clients, role : Role]

ASSUME ConstantsAssumption ==
  /\ Users \subseteq Nat
  /\ None \notin Clients \cup Signal
  /\ Registers \in BOOLEAN

VARIABLES
  connections,    \* user id -> client
  reader,         \* client -> where its reader is
  writer,         \* client -> where its writer is
  to,             \* client -> the client its reader is sending to
  open,           \* the clients whose sendChannel is not closed
  running,        \* those with forwardRoutineRunning
  authenticated,  \* those with authenticated
  userId,         \* client -> the user it is, 0 at first
  role,           \* client -> forwardingTo and hosting
  signal,         \* the signal a handler is sending, and to whom
  told,           \* user id -> the last role a handler gave a signal of
  crashed         \* a panic has ended the server

clientVars == <<connections, open, running, authenticated, userId>>

vars == <<clientVars, reader, writer, to, role, signal, told, crashed>>

-----------------------------------------------------------------------------
(* Types and helpers. *)

ReaderPlaces == {"none", "read", "register", "rlock", "sending", "select", "exit"}

WriterPlaces == {"none", "loop", "receive", "write"}

Idle    == [forwardTo |-> 0, hosting |-> FALSE]
Host    == [forwardTo |-> 0, hosting |-> TRUE]
Link(h) == [forwardTo |-> h, hosting |-> FALSE]

Connected == {c \in Clients : reader[c] # "none"}

Registered == Range(connections)

Goes(c, place) == reader' = [reader EXCEPT ![c] = place]

\* The lock of connections.  A step that takes and gives it back at once only
\* needs that it can be taken; one that waits to write stops new readers.  Go
\* lets those that wait already in before a second writer: here they wait on.
Holding == {c \in Clients : reader[c] = "sending"}
MayRLock == \A c \in Clients : reader[c] \notin {"register", "exit"}
MayLockAnyTime == TRUE  \* mutant
MayLock == Holding = {} /\ signal = None

\* A client names its user once.
MayAuthenticateAgain(c) == TRUE  \* mutant
MayAuthenticate(c) == c \notin authenticated

StoppedByReader(c) == running \ {c}  \* mutant: before the lock is taken
StillRunning(c) == running

NotClosed(c) == open  \* mutant
Closed(c) == open \ {c}

ConnectionsKept(c) == connections  \* mutant
Without(c) == Restrict(connections, DOMAIN connections \ {userId[c]})

AuthenticatedKept(c) == authenticated  \* mutant
NotAuthenticated(c) == authenticated \ {c}

-----------------------------------------------------------------------------
Init ==
  /\ connections = <<>>
  /\ reader = [c \in Clients |-> "none"]
  /\ writer = [c \in Clients |-> "none"]
  /\ to = [c \in Clients |-> None]
  /\ open = {} /\ running = {} /\ authenticated = {}
  /\ userId = [c \in Clients |-> 0]
  /\ role = [c \in Clients |-> Idle]
  /\ signal = None
  /\ told = [u \in Users |-> Idle]
  /\ crashed = FALSE

RegisterNewConnection(c) ==
  /\ reader[c] = "none" /\ writer[c] = "none"
  /\ Goes(c, "read")
  /\ writer' = [writer EXCEPT ![c] = "loop"]
  /\ open' = open \cup {c} /\ running' = running \cup {c}
  /\ userId' = [userId EXCEPT ![c] = 0]
  /\ role' = [role EXCEPT ![c] = Idle]
  /\ UNCHANGED <<connections, authenticated, to, signal, told, crashed>>

-----------------------------------------------------------------------------
(* The reader. *)

\* A text message with a valid token of user u.
ReadToken(c, u) ==
  /\ reader[c] = "read"
  /\ MayAuthenticate(c)
  /\ authenticated' = authenticated \cup {c}
  /\ userId' = [userId EXCEPT ![c] = u]
  /\ Goes(c, IF Registers THEN "register" ELSE "select")
  /\ UNCHANGED <<connections, open, running, writer, to, role, signal, told, crashed>>

\* Not in this repository.
Register(c) ==
  /\ reader[c] = "register"
  /\ MayLock
  /\ connections' = [u \in DOMAIN connections \cup {userId[c]} |->
                       IF u = userId[c] THEN c ELSE connections[u]]
  /\ Goes(c, "select")
  /\ UNCHANGED <<open, running, authenticated, userId>>
  /\ UNCHANGED <<writer, to, role, signal, told, crashed>>

\* A packet; a message that is nothing; the end of the connection.
ReadMessage(c) ==
  /\ reader[c] = "read"
  /\ \/ Goes(c, "rlock") /\ UNCHANGED running
     \/ Goes(c, "select") /\ UNCHANGED running
     \/ Goes(c, "exit") /\ running' = StillRunning(c)
  /\ UNCHANGED <<connections, open, authenticated, userId>>
  /\ UNCHANGED <<writer, to, role, signal, told, crashed>>

\* A binary message that is too short for an identifier.
DecodePanics(c) ==
  /\ reader[c] = "read"
  /\ crashed' = TRUE
  /\ UNCHANGED <<clientVars, reader, writer, to, role, signal, told>>

\* The packet of a guest goes to its host, that of a host to the user its
\* identifier id names, if that user is there.
Target(c, id) == IF role[c].forwardTo > 0 THEN role[c].forwardTo ELSE id

SendsTo(c, u) ==
  /\ u \in DOMAIN connections
  /\ \/ role[c].forwardTo > 0
     \/ (role[c].hosting /\ connections[u] \in authenticated)

ForwardPacket(c, id) ==
  /\ reader[c] = "rlock"
  /\ MayRLock
  /\ \/ /\ SendsTo(c, Target(c, id))
        /\ to' = [to EXCEPT ![c] = connections[Target(c, id)]]
        /\ Goes(c, "sending") /\ UNCHANGED crashed
     \/ /\ ~SendsTo(c, Target(c, id)) /\ role[c].forwardTo = 0
        /\ Goes(c, "select") /\ UNCHANGED <<to, crashed>>
     \/ /\ ~SendsTo(c, Target(c, id)) /\ role[c].forwardTo > 0
        /\ crashed' = TRUE /\ UNCHANGED <<reader, to>>
  /\ UNCHANGED <<clientVars, writer, role, signal, told>>

\* The writer of the other client receives; the lock is given back.
SendPacket(c) ==
  /\ reader[c] = "sending"
  /\ to[c] \in open /\ writer[to[c]] = "receive"
  /\ writer' = [writer EXCEPT ![to[c]] = "write"]
  /\ to' = [to EXCEPT ![c] = None]
  /\ Goes(c, "select")
  /\ UNCHANGED <<clientVars, role, signal, told, crashed>>

SendToClosed(c) ==
  /\ reader[c] = "sending" /\ to[c] \notin open
  /\ crashed' = TRUE
  /\ UNCHANGED <<clientVars, reader, writer, to, role, signal, told>>

\* A receive that does not wait: it takes the signal of a handler that does.
SignalSkipped(c) == FALSE  \* mutant
SignalWaits(c) == signal # None /\ signal.client = c

ReceiveSignal(c) ==
  /\ reader[c] = "select"
  /\ Goes(c, "read")
  /\ \/ /\ SignalWaits(c)
        /\ role' = [role EXCEPT ![c] = signal.role]
        /\ signal' = None
     \/ ~SignalWaits(c) /\ UNCHANGED <<role, signal>>
  /\ UNCHANGED <<clientVars, writer, to, told, crashed>>

\* The deferred function, in which an unauthenticated client is user 0.
Exit(c) ==
  /\ reader[c] = "exit"
  /\ MayLock
  /\ authenticated' = NotAuthenticated(c)
  /\ running' = running \ {c}
  /\ open' = Closed(c)
  /\ connections' = Without(c)
  /\ Goes(c, "none")
  /\ UNCHANGED <<userId, writer, to, role, signal, told, crashed>>

-----------------------------------------------------------------------------
(* The writer, and the signals of the handlers. *)

\* The loop's condition; a closed channel; the write, whose error is logged and
\* which ends when the peer reads or the connection is closed.
WriterStep(c) ==
  /\ \/ writer[c] = "loop" /\ c \in running
        /\ writer' = [writer EXCEPT ![c] = "receive"]
     \/ writer[c] = "loop" /\ c \notin running
        /\ writer' = [writer EXCEPT ![c] = "none"]
     \/ (writer[c] = "write" \/ (writer[c] = "receive" /\ c \notin open))
        /\ writer' = [writer EXCEPT ![c] = "loop"]
  /\ UNCHANGED <<clientVars, reader, to, role, signal, told, crashed>>

\* The four onUser... calls, made one at a time with the matchmaker's mutex
\* held.  A user begins to host when idle, and to be linked unless hosting.
SendSignal(u, r) ==
  /\ signal = None
  /\ MayRLock
  /\ told' = [told EXCEPT ![u] = r]
  /\ signal' = IF u \in DOMAIN connections
               THEN [client |-> connections[u], role |-> r]
               ELSE None
  /\ UNCHANGED <<clientVars, reader, writer, to, role, crashed>>

OnUserStartHosting(u) == told[u] = Idle /\ SendSignal(u, Host)

OnUserLinkLobby(u, h) == u # h /\ told[u] # Host /\ SendSignal(u, Link(h))

\* OnUserStopHosting and OnUserUnlinkLobby.
OnUserStop(u) == SendSignal(u, Idle)

-----------------------------------------------------------------------------
ReaderStep(c) ==
  \/ Register(c) \/ SendPacket(c) \/ SendToClosed(c) \/ ReceiveSignal(c)
  \/ Exit(c) \/ \E id \in Users : ForwardPacket(c, id)

Next ==
  /\ ~crashed
  /\ \/ \E c \in Clients :
          \/ RegisterNewConnection(c)
          \/ ReadMessage(c) \/ DecodePanics(c) \/ \E u \in Users : ReadToken(c, u)
          \/ ReaderStep(c) \/ WriterStep(c)
     \/ \E u \in Users :
          \/ OnUserStartHosting(u) \/ OnUserStop(u)
          \/ \E h \in Users : OnUserLinkLobby(u, h)

\* A write has no deadline: it can wait until its reader has closed the
\* connection.
Waiting(c) == writer[c] = "write" /\ reader[c] # "none"

\* A goroutine that can run does, and Go's lock starves nobody who waits for
\* it.  No client has to send or to read, and no handler has to run.
Fairness ==
  \A c \in Clients : /\ SF_vars(~crashed /\ ReaderStep(c))
                     /\ WF_vars(~crashed /\ ~Waiting(c) /\ WriterStep(c))

Spec == Init /\ [][Next]_vars /\ Fairness

-----------------------------------------------------------------------------
(* Properties. *)

TypeOK ==
  /\ connections \in [DOMAIN connections -> Clients]
  /\ DOMAIN connections \subseteq Users
  /\ reader \in [Clients -> ReaderPlaces]
  /\ writer \in [Clients -> WriterPlaces]
  /\ to \in [Clients -> Clients \cup {None}]
  /\ open \subseteq Clients /\ running \subseteq Clients
  /\ authenticated \subseteq Connected
  /\ userId \in [Clients -> Users \cup {0}]
  /\ role \in [Clients -> Role]
  /\ signal \in Signal \cup {None}
  /\ told \in [Users -> Role]
  /\ crashed \in BOOLEAN

\* connections holds clients whose send channel is open, under their own id,
\* whatever messages of theirs came and whichever connections of the same
\* user came and went: a reader that ends takes out itself or nobody else who
\* would be left there closed.
MapHoldsOpenClients ==
  \A u \in DOMAIN connections :
    connections[u] \in open /\ userId[connections[u]] = u

\* relay.go:52, 58: no goroutine sends to a channel that is closed.
NoSendToClosed == \A c \in Clients : reader[c] = "sending" => to[c] \in open

\* Whoever a packet is being sent to has a writer, whose loop goes on: the
\* connection that ends can stop neither before the sender gives back the lock.
SendersHaveWriters ==
  \A c \in Clients :
    reader[c] = "sending" => to[c] \in running /\ writer[to[c]] # "none"

\* A handler waits for a client that reads, the one of its user, with the
\* user's last role: connections come and go, but not under a handler's send.
HandlerWaitsForReader ==
  signal # None =>
    /\ reader[signal.client] # "none"
    /\ \E u \in DOMAIN connections :
         signal = [client |-> connections[u], role |-> told[u]]

\* A client in connections works by the last role that its user was given, or
\* is idle still, unless a handler is about to tell it: not by the role of a
\* user that it was in an earlier connection, nor by one that was revoked.
ClientsWorkAsTold ==
  \A u \in DOMAIN connections :
    LET c == connections[u]
    IN  SignalWaits(c) \/ role[c] \in {Idle, told[u]}

\* No write waits for ever: the clients read what they are sent.
WritesEnd == \A c \in Clients : []<>(writer[c] # "write")

\* While clients read, a packet that is being sent gets through to a writer,
\* however its client and the sender come and go; else the lock would be held
\* for ever, as it is for a client that does not read.
SendCompletes ==
  WritesEnd =>
    \A c \in Clients :
      reader[c] = "sending" ~> (reader[c] # "sending" \/ crashed)

\* Closing the channel ends the forwarding goroutine (relay.go:57), wherever
\* it was.
WriterEnds ==
  \A c \in Clients :
    reader[c] = "none" ~> (writer[c] = "none" \/ crashed)

\* The client a handler waits for ends, or waits behind one that does, while
\* the handler keeps both from the lock.
Deadlocked ==
  /\ signal # None
  /\ \/ reader[signal.client] = "exit"
     \/ (reader[signal.client] = "rlock" /\ ~MayRLock)

\* While clients read, and go on sending messages, the signal of a handler is
\* taken, so that the matchmaker's mutex is free again, unless that deadlock
\* occurs.
HandlerReturns ==
  WritesEnd /\ (\A c \in Clients : []<>(reader[c] # "read")) =>
    (signal # None ~> (signal = None \/ crashed \/ Deadlocked))

-----------------------------------------------------------------------------
(* What a comment of the repository says and the code does not do.          *)

\* relay.go:125: the packets of a client that is linked to a lobby are sent
\* to the lobby's host, the one the handlers' last signal named.
LinkedPacketsGoToHost ==
  [][\A c \in Clients :
       (/\ reader[c] = "rlock" /\ reader'[c] # "rlock"
        /\ c \in authenticated /\ told[userId[c]].forwardTo > 0)
       => reader'[c] = "sending"]_vars
=============================================================================

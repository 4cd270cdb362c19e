# A verification of vic2-multi-proxy

vic2-multi-proxy lets players of Victoria II meet through a server on the
Internet.  One Go program is both the server (`server/`) and the client
(`client/`).  This directory holds TLA+ models of it, the TLC runs that check
them and TLAPS proofs about them.

## The system

| Component | State | Operations | Talks to |
|---|---|---|---|
| Matchmaker and control server (`server/games.go`, `server/rest.go`) | `users`, `lobbies`, two id counters; one mutex | `/login`, `/logout`, `/renew`, `/checkin`, `/host` (PUT, DELETE), `/link`; a sweeper every 20 s | the relay server, by the four `onUser...` calls, made with the mutex held |
| Relay server (`server/relay.go`) | per websocket: user id, `forwardingTo`, `hosting`, two channels; a map of connections | read a message, forward a packet, receive a signal | the matchmaker's maps and mutex; other connections' channels |
| REST client (`client/rest.go`) | `authToken`, `lastRenewedAt`, `lastCheckin`, a one-place channel; one mutex | Connect, Logout, Link, Unlink, Host, StopHost, GetStatus; a goroutine that checks in each second and renews each 30 s | the control server by HTTP; the game data relay by its interface |
| Command loop (`client/client.go`) | none of its own | one command at a time, on a snapshot of the status | the REST client |
| Game data relay (`client/relay.go`) | the websocket, `localProxies`, a one-place signal channel; one mutex | six `On...` calls, one reader goroutine, one goroutine per proxied game | the relay server; the local game by UDP |
| Message connections and containers (`common/network.go`) | closed flag, peer address | read, write, close, encode, decode | sockets |
| Entry point (`main.go`) | none | flags, `server.ini` | starts one of the two programs |

### Hard behaviours and what makes each part correct

**Matchmaker.** Sessions, lobbies, tokens and the relay's idea of each user are
four views of one fact, changed by seven handlers and a sweeper.  Handlers hold
one mutex throughout, so the difficulty is not interleaving within a handler
but sequences of whole handlers by several users, expiry between any two of
them, and restarts that lose the maps and keep the signing secret.  Correct
means: the two maps agree on who hosts what; nobody hosts and is linked;
usernames are unique; no token outlives its session; the relay was told each
user's role, but for a guest released by its host's logout, which it is not told
of; a lobby's id is never used again while a link to it is left.

**REST client and command loop.** Two goroutines, one mutex, one channel with
one place, and a status that the command loop uses after the mutex is released.
Correct means: the checkin goroutine is told to run exactly while there is a
token, no request goes out without one, the relay hears of the end of a link,
the mutex is given back but for named ways to hang, a logged in client checks in
as long as the relay's methods return.

**A client's session.** The client's idea of its roles and the server's are
changed by one request, in two places, with others' requests, expiry and the
loss of a response between.  Correct means: after a checkin and until a loss the
client knows its roles; the relays of both ends work for the same role; a loss
is made good as long as the relay's methods return; the client changes its role
only by a command that its status allowed, however old that status is.

**Relay server.** Two goroutines per websocket, signals from the handlers on
channels without a buffer, and a map under a read-write lock.  Correct means:
the map holds only clients that can be sent to, nothing is sent to a closed
channel, writers end, no handler waits for a reader that has gone, and while
clients read what they are sent a packet under way gets through and no handler
waits, but for one deadlock, for ever for a client that goes on sending; the
role a client's packets are forwarded by is the last its user was given.  In
this commit nothing puts a client into `connections` (`registerNewConnection`,
`server/relay.go:194`, does not), so no signal and no packet is delivered.

**Game data relay of the client.** A reader goroutine that takes a signal once
per websocket message, a goroutine per proxied game, and methods that send
signals with two mutexes held.  Correct means: one reader exactly while there is
a connection, no proxy is left behind or closed twice, a read that fails because
the socket was closed is of a proxy told to stop, a reader that ends waits only
for proxies that were closed, proxies that are told to stop end unless the server
does not take what they send, so does the reader of a lost connection, and a
method returns but for four named waits.

**Connection types and containers.** Used by nothing but their tests, save the
containers, which are eight bytes of identifier and the data.

Every hazard is listed with its line in `PROJECT.json`.

## The modules

| Module | What it is |
|---|---|
| `Matchmaker` | `server/games.go` and the handlers of `server/rest.go` |
| `LobbyDirectory` | what the server promises: who is present, which lobbies are open and whose, numbers never reused |
| `MatchmakerProofs` | proofs about `Matchmaker` |
| `DirectoryProofs` | the proof that `Matchmaker` implements `LobbyDirectory` |
| `RestClient` | `client/rest.go`, driven by `client/client.go` |
| `RestClientProofs` | proofs about `RestClient` |
| `Session` | one client's view of its roles, composed with `Matchmaker` |
| `SessionProofs` | proofs about `Session` |
| `ClientView` | what the client is to its user and its relay: connected, the role it shows, the role its relay has |
| `SessionViewProofs` | the proofs that `Session` implements `ClientView` and `LobbyDirectory` |
| `ClientRelay` | `client/relay.go`, as `client/rest.go` calls it |
| `ClientRelayProofs` | proofs about `ClientRelay` |
| `RelayServer` | `server/relay.go`, as `server/rest.go` calls it |
| `RelayServerProofs` | proofs about `RelayServer` |
| `MCMatchmaker`, `MCRestClient`, `MCSession`, `MCClientRelay`, `MCRelayServer` | values for the constants |

### Matchmaker and LobbyDirectory

`users` and `lobbies` are functions from ids to records, as the Go maps; the
fields a record leaves out are the id, always its key, and the address, always
nil.  `tokens` are the signed tokens that still verify, `now` is the clock in
ticks, `told` the last signal each user's handlers gave the relay, whether or
not the relay could deliver it.  A logout ends the links of the lobby's guests in
the map and gives the relay no signal (`server/rest.go:273`), so
`RelayToldUnlessReleased` lets such a guest's last signal stand: it names a user
who is gone, and whose id nobody gets.  Each handler is one action because it holds
`matchmaker.mutex` from start to end; what it answers is an operator
(`LoginStatus`, `HostStatus`, ...), and only its successful answer changes
state.  `FindExpiredUserSessions` is one round of the sweeper.  `Restart`
empties the maps, resets both counters and keeps the tokens, because the secret
comes from `server.ini`.  A JWT carries whole seconds, so `NewToken` cuts the
time of expiry; `TicksPerSecond` sets how many ticks a second has.

`LobbyDirectory` knows neither tokens, ids of users, time nor the relay.
`Matchmaker!ImplementsDirectory` maps it to the usernames with a session, the
lobbies with their host's username and the lobby ids issued.  A logout or a
sweep is one departure that also closes the lobby; were a lobby left open
without a host, or an id used again, the mapped step would not be one.

### RestClient

Each goroutine has a place (`command`, `checkin`) and an action for each stretch
of code between two points where the other can intervene: a lock, an unlock, a
send or receive, a request, a decode.  `checkinChannel` is a sequence, `mutex`
its holder.  A send waits while the channel is full.  `status` is the snapshot
a command was chosen by; its map is the one in `lastCheckin`, since Go copies
the reference, and a decode into a map only adds entries.  `age` is the token's:
fresh, due for renewal, expired.  The server is any server: it may refuse or
fail any request, and accept one that carries a token or is a login.  A request
is taken to end, as the Go client returns an error when the connection fails;
when the URL of a login does not parse there is no response, whose status the
code logs all the same, and the program panics (`RequestPanics`,
`client/rest.go:183`).

The game data relay is what its methods were last told.  Each call but
`OnConnectedToServer`, whose dial has a timeout, is made with `rc.mutex` held and
is a place of its own, `relay`, which `CommandRelayReturns` and
`CheckinRelayReturns` leave without any fairness: it need not return.  It
need not because a method sends to a channel of one place
(`client/relay.go:339`, `347`, `371`, `379`) whose reader takes one value a
message of the server, and in this commit the server sends none: to link and then
to unlink is enough to hang the client with its mutex held.  What the methods
can wait for is in `ClientRelay`.  The relay is given `authToken` before a login
has set it, so always the empty string; the model does not repeat it.  The loops
over the shared map are one step in the model, `scan`, that a decode may overlap;
`ConcurrentMapFault` is the end of the program when the runtime notices, which it
need not.

### Session

`Session` extends `Matchmaker` with one client, `Me`: its token, the two fields
of `lastCheckin` that its commands go by, and what its relay was last told.  The
mutex of the REST client lets it have one request at a time, so a request is two
steps: the handler runs (`Host` is `Matchmaker!HandleUpdateHostStatus` with the
client's guard) and `Receive` or `LoseResponse` ends it.  A request that is lost
before the handler, or that the handler refuses, changes nothing and is no step,
except that a checkin that fails disconnects (`CheckinFails`).  `Others` are the
handlers with tokens of other users, the sweeper and the clock.  Two history
variables say what the properties are about: `fresh`, that a checkin of this
connection has come and no response to a change of role was lost since, and
`smooth`, that no such response was ever lost and no session has ended.  The
relay of the client is taken to connect; what a failed connection does to a
login is in `RestClient`.  A response to a change of role, or a checkin that
shows a link gone, calls the relay before the request is over (`CallsRelay`);
that call need not return, so such a receipt has no fairness.  The command loop
takes a snapshot of the status (`client/client.go:71`) and only then locks the
mutex, so a command is two steps before its request: `GetStatus` stores the role
seen in `status`, and `Host`, `StopHost`, `Link` and `Unlink` go by it, while
checkins come between, or the loss of the connection, which ends the command.

### ClientView

The client with its goroutines, locks and requests left out: it connects and
disconnects; a command takes a status and later, if the status allowed it, sets
in one step the role shown and the relay's role; a checkin sets the role shown,
and the relay's only if a link is gone.  Two models of the same code, at two
grains, implement it.  In `RestClient` the place of the command loop says by which
status it goes (`StatusInUse`), and the server answers anything; in `Session` the
response under way says so too, and the server is `Matchmaker`.  Were a role
stored without the relay being told, or a command done without a look at the
status, the mapped step would not be one.

### ClientRelay

The methods are called one at a time, as the REST client calls them with its
mutex held.  `method` says which one runs and where it is: the step that calls
one also locks `relay.mutex`, a send waits while the one-place channel is full,
and a loop that closes proxies closes one channel or one socket a step
(`CloseProxy`), channel before socket, since a proxy's goroutine may look in
between.  `shutdown` is the same loop, run by the reader.  The reader is in turn
at its receive, its read, a packet, or the steps of a lost connection.  A proxy
is an object of `Proxies`, used again when its goroutine has ended; `place` is
where that goroutine is.  A read of a closed socket fails (`shut`); one of an open
socket gives a packet (`got`), or fails or gives an empty datagram (`failed`),
which the code treats alike: it logs an error and goes on to `buf[0:length-1]`
(`client/relay.go:120-142`), which panics unless the proxy was told to stop.  A
write to the server has no deadline, so it is only certain to end when the
connection is not open.  The reader that ends closes the connection
(`ReaderExit`) and then forgets it (`ReaderGone`), without the mutex, and others
may write between.

`session` and `shown` are what the REST client goes by when it calls: whether it
has a token, and the role that it shows.  A command goes by a status that may be
older than the last checkin, as `ClientView` has it, so `shown` also tells a link
that a checkin has shown to be `gone` while an unlink is under way, and one
`found` while a command to begin is.  `RoleFound` is a checkin that shows a role
whose change the relay was not told of, because the response to the request was
lost (`client/rest.go:346` returns without calling `OnStopHosting`).  A role
begins only from a status without one (`MayBegin`), so after a link only once
`OnStopLinked` was called.

Each panic of the code (a send or a close of a closed channel, a slice below
zero, a nil connection, a second close message, two writers) is a disjunct of
`Panic`, which ends the program; since nothing of the program is left, it sets
every variable to its initial value, so that states after it are not told
apart.  `WriteClosePanics` on a lost connection and `TwoWriters` may or may not
happen.  The server only sends containers it has encoded, of eight bytes or more,
so decoding does not fail here.

### RelayServer

A reader is at its read, its `RLock`, a send, the receive of a signal, or its
deferred function; a writer at its loop's condition, its receive or its write.
The channels have no buffer, so a send and its receive are one step.  The
read-write lock has no variable: who holds it for reading are the readers that
send and the handler with a signal, who waits to write are the readers that
register or exit, and Go's lock lets no new reader in then (`MayRLock`).  Between
two writers Go lets in the readers that have waited, and the model does not:
the deadlock is the same, and the rest of the properties speaks of who holds the
lock.  A write to a client has no deadline (`server/relay.go:169`): it is only
certain to end when the client's reader has closed the connection (`Waiting`).
A binary message shorter than an identifier panics where it is decoded
(`DecodePanics`; `server/relay.go:122`, `common/network.go:23`) and ends the
server, whoever sent it.
Handlers run one at a time, because they hold `matchmaker.mutex`, so one
`signal` is enough.  A client is used again when its goroutines have ended; a
new `proxyClient` is idle and user 0.

With `Registers = FALSE` the module is the code: `connections` stays empty.
With `Registers = TRUE` a reader that has authenticated its client puts it in the
map, under the lock; this step (`Register`, external) is the least that the rest
of the file presupposes, and the rest is checked with it, so that its locking
and closing are examined before they are first used.

## The runs

| Run | Instance | Shows |
|---|---|---|
| `matchmaker_core` | 2 usernames, 3 logins, 2 lobbies, 3 ticks, token life 2 | agreement of maps, roles and relay, `RelayToldUnlessReleased`, `DanglingLinkStaysDangling` and the refinement of `LobbyDirectory` |
| `matchmaker_restart` | 2 logins a run, 1 restart, half seconds, 4 ticks | the refinement across a restart; `NoTokenOutlivesSession` with cut expiry times; `ExpiredSessionIsRemoved` |
| `restclient_core` | 2 lobbies | safety of the two goroutines, `MutexIsReleased`, `LoggedInClientChecksIn` and the refinement of `ClientView` |
| `session_core` | 2 usernames, 3 logins, 1 lobby, 2 ticks, token life 1 | `ViewMatchesServer`, `RelaysAgree`, `ViewCatchesUp` under loss and the refinement of `ClientView` |
| `clientrelay_core` | 2 proxies, identifiers 0 and 1 | the map of proxies, reads of closed sockets, whom the reader waits for, what a method that never returns waits for (`MethodReturns`), `ToldProxyEnds`, `ReaderEndsWhenLost` |
| `relayserver_core` | 2 connections, users 0 and 1, registered | the map of connections, no send to a closed channel or an ended writer, whom handlers wait for, `ClientsWorkAsTold`, `SendCompletes`, `WriterEnds`, `HandlerReturns` |
| `link_listed` | 2 logins, 2 lobbies | fails: a guest's checkins name a lobby that has closed |
| `stale_token` | 1 restart | fails: after a restart an old token is another user's |
| `send_blocks` | 1 lobby | fails: the checkin goroutine waits for itself to receive |
| `map_race` | 1 lobby | fails: the command loop reads a map that a checkin is writing |
| `leftover_proxies` | 2 proxies, 2 identifiers | fails: the response to a stop of hosting is lost, the proxies stay, a checkin shows the hosting gone, and the next role does not start |
| `unregistered` | 2 connections, not registered | fails: the packets of a linked client are dropped |

Ways to hang are part of what the passing runs say rather than runs of their own.
`RestClient!Hangs`: a failed relay connection makes `Connect` call `Logout`,
which waits for the mutex `Connect` holds (`client/rest.go:206`), and a send to a
full channel waits for a receiver that waits for the mutex or is the sender.
`RestClient!InRelay`: a method of the relay that does not return keeps the mutex.
`MutexIsReleased` says that, as long as such calls end, `Hangs` and a panic are
all that can keep the mutex, and `LoggedInClientChecksIn` that then a connected
client checks in.  What a call of the relay can wait for is
`ClientRelay!MethodWaits`: a connect that failed, a close message that the server
does not read, a full channel with the reader waiting for the server, or, in
`ClientRelay!Deadlocked`, for the method's own mutex; `MethodReturns` says that
there is no other way, once the method has the relay's mutex.
`RelayServer!Deadlocked`: a handler's signal waits, with the lock for reading, for
a client that waits for it to write or behind one that does.

**Bounds.** `MaxTime`, `MaxUsers`, `MaxLobbies`, `MaxRestarts` stop the clock,
logins, lobbies and restarts; they are guards of `Tick`, `HandleLogin`,
`HandleUpdateHostStatus` and `Restart`.  Two usernames and two lobbies give a
host with a guest, a lobby that closes and one opened after it; a third login
gives a user who comes back under a new id while others hold old tokens; one
tick more than a token's life gives expiry.  `Session` has the third login for a
client that comes back after a lost session while another user is there; one
lobby is the client's own or the other's.  In `matchmaker_core` the usernames
are symmetric: no action tells them apart, and the properties of that run are
invariants, a step property and a refinement without fairness.  The run with a
liveness property has no symmetry, and neither have the later modules' runs.
`RestClient` is finite without bounds: one token and one of three ages; two
lobbies tell a replaced map from an extended one and are only names to
everything else.

`ClientRelay` is finite with its bound on proxies: two are one that is closed
while another is made, or a link's and a host's; identifier 0 is that of a link
and 1 any other.  `RelayServer` with two connections has a sender and a
receiver, or two connections of one user, while the two users are a host and a
guest, one of them user 0.

**Deadlock.** `Matchmaker` and `Session` never deadlock, and TLC checks it.  The
configurations of the other three say `CHECK_DEADLOCK FALSE` because their
programs do stop: by the hangs above, and by panics, after which the models take
no step.

**Fairness.** `Matchmaker`: weak fairness of the sweeper only, whose ticker
never stops (`server/rest.go:77`); nobody has to send a request and the clock
may stop.  `RestClient`: weak fairness of each goroutine's steps that do not
need the mutex, which include the end of a request, and strong fairness of the
steps that lock it, because Go's mutex hands itself to a waiter after a
millisecond.  The return of a relay's method has none: `MutexIsReleased` and
`LoggedInClientChecksIn` take it as a premise.  Commands, expiry and the runtime's
fault have none either.  `Session`: a request ends, with its response or
without, unless its response calls the relay, which `ViewCatchesUp` has as a
premise; the checkin goroutine, which ticks each second, is not kept from the
mutex for ever by commands.  `ClientRelay`: weak fairness of the running method,
of the reader and of each proxy where they do not wait for the mutex, for data or
for the server, strong where the reader waits for the mutex; the server and the
local game need not send and the server need not read, so reads of an open
connection and an open socket have none, and neither have writes to an open
connection.  `ToldProxyEnds` has the end of a proxy's writes as a premise.  A panic
that must come does.  `RelayServer`: strong fairness of each reader, which shares
the lock, weak of each writer but in a write to a client that is there, as
that need not read.  `SendCompletes` and `HandlerReturns` have as a premise that
such writes end (`WritesEnd`), `HandlerReturns` also that clients go on sending,
since a client's reads have no fairness; `WriterEnds` needs neither.

## The proofs

`MatchmakerProofs` proves for any names, token life, resolution of the clock and
bounds, from `ConstantsAssumption`: `TypeCorrect`, `LobbiesAgree`,
`HostNeverLinked`, `UsernamesUnique`, `SessionsOutliveTokens`,
`RelayToldTheRest`, `TokensNameTheirUser` (until the first restart) and
`LinksStayDangling`.  They follow from one inductive invariant, `MInv`.  The
properties are not inductive alone.  A new id must not meet an old link, record
of the relay or token, so `MInv` adds that all of these lie in the past of the
counters (`LinksArePast`, `ToldArePast`, `TokensArePast`); a new session under
an id that a token from before a restart names must outlive it, so
`TokensWithinLife` bounds every token by one issued now.  `TargetsArePast` says
that nobody forwards to a user yet to log in, so that a new session is never what
a released guest is left forwarding to.  Agreement of the maps
in turn rests on nobody being linked when they host.

`RestClientProofs` proves for any set of lobbies, from `LobbyIdsAssumption`:
`TypeCorrect`, `CheckinsFollow`, `ConnectedWithRelay`, `RequestsHaveToken` and
`RelayLosesLink`, from `RInv`.  Its core is `MutexHeld`: the mutex is held by
exactly the goroutine whose place lies between a lock and an unlock, so that
what one of them learnt of the token after locking stays true until it unlocks.
`LastSentIsToken` is the strengthening of `CheckinFollowsConnection` to every
moment; it is inductive because a send that waits and the change of the token
after it are one step.  `TokenWithRelay` covers the moment between the relay's
connection and the token, and `LinkHasTarget` that a link names a lobby.

The same module proves `ImplementsView`: `Spec` implements `ImplementsClientView`.
Each step of the view is one step of the code, mostly of the command loop while
the checkin goroutine is anywhere, or the other way about.  That an accepted
request is the abstract command needs `RequestsCarryToken`, so that the client is
connected, and `ActsOnStatus`, which is inductive beside `RInv`: a link command
that looks for its lobby does so by a status that allowed it, and a login that is
accepted has found no token.

`ClientRelayProofs` proves `TypeCorrect`, `OneReader`, `MapHoldsTheRunning`,
`ClosedReadsAreTold` and `WaitIsForTheClosed` for any identifiers and number of
proxies, from `IdsAssumption` and the inductive invariant `CInv`.  `MutexHeld`
ties the mutex to the places of the method and the reader.  `MapIsWhoRuns`
speaks of the moments the mutex is free; `MapIsClosedInOrder` says what a loop
that holds it has done so far, a channel closed and then its socket, and
`OthersAreClosed` that whoever is not in the map has been closed at any moment.
That a read of a closed socket is of a proxy that was told follows because a
socket is only closed after the channel; a read that fails on an open socket is
not covered, and panics. `OneReader` is about the reader's end, where it closes
and forgets the connection without the mutex: no second reader is started before
the first has left.  `WaitIsForTheClosed`, that the reader which ends a
connection waits for no proxy that could keep it, follows from the same two: the
reader has closed all that was in the map, and the others were closed before.

`RelayServerProofs` proves for any clients and users, registered or not, from
`ConstantsAssumption`, `TypeCorrect`, `MapHoldsOpen` and `SendsToOpen`, from the
inductive invariant `SInv`.  That
a send is never to a closed channel rests on the lock, and on the map holding a
client under its own id only: a reader that ends takes out whoever has its id,
which an authenticated client may do only because it cannot change its id.
`SendsToWriters`, `HandlersHaveReaders` and `WorkersAsTold` are about what goes on
beside the map, and follow from `RInv`, which adds to `SInv` that a connection's
loops run exactly while it has a reader (`RunningWhileRead`) and that a client
works for nobody before it is registered (`IdleUntilRegistered`): a signal finds
its client through the map, so what a client was told before belongs to the same
connection.  `UnregisteredIsInert` is the theorem about the code as it stands:
without a registration the map stays empty, so nothing is forwarded, signalled or
waited for, however many connections there are.  It does not say that the server
lives: a short message ends it in any case.

`DirectoryProofs` proves `ServerImplementsDirectory`: `Spec` implies
`ImplementsDirectory`, for all constants.  `InitMInv` starts the directory
empty, and under `MInv` each action is one step of it or leaves it alone: a
login is an arrival, a host request an opening, stop hosting a closing, a logout
or a sweep a departure of some users together with their lobbies, a restart
`StartAfresh`; renewals, links, checkins and the clock change nothing of it.
Agreement of the maps and unique usernames are what make a departure close
exactly the lobbies of those who leave.

`SessionProofs` proves `SessionTypeCorrect`, `ViewIsServers` and
`RelaysWorkTogether` for any names, token life, bounds and number of other
users, from `ConstantsAssumption`, `SessionAssumption` (the client's name is a
username, and no token is the empty one) and the inductive invariant `VInv`,
which contains `MInv`.  The two properties speak of moments without a request
under way, so they are not inductive: `ViewHolds` says the same of every moment,
of the view that the client will have when it has received the response on its
way.  It speaks of every token of the client (`MyTokens`), the one it has and the
one on its way, and of the sessions these name.  Others leave them alone because
the tokens of others name others' sessions (`TokenNamesItsUser`, so without a
restart), a logout can only end a link, and the sweeper removes nobody whose
token verifies (`NotExpired`, by `NoTokenOutlivesSession`).  `ResponseOK` keeps
what a request was made by until its response arrives, and `RolesHold` that the
relay's role is the one shown, which with `RelayToldUnlessReleased` gives agreement
of the two relays; the status a command goes by (`StatusInUse`) is part of it,
since a checkin may show another role before the command gets the mutex.

`SessionViewProofs` proves that `SessionSpec` implements both abstract
specifications: `SessionImplementsView`, by one lemma for each kind of step under
`VInv`, and `SessionServesDirectory`, because every step of the session is a step
of `Matchmaker` or leaves its variables alone, so that the refinement proved in
`DirectoryProofs` carries over to the composition.

Only model-checked: the liveness properties (`ExpiredSessionIsRemoved`,
`MutexIsReleased`, `LoggedInClientChecksIn`, `ViewCatchesUp`, `MethodReturns`,
`ToldProxyEnds`, `ReaderEndsWhenLost`, `SendCompletes`, `WriterEnds`,
`HandlerReturns`), which rest on fairness and with it on ENABLED, out of the
prover's reach.

## What is left out, and the plan

Not modelled: reading commands and flags, `server.ini`, wording of logs,
`handleInfo`, the HTTP library; the passing of time and the runtime's fault are
external.  The password of a lobby is only whether there is one; `serverURL`
changes without the mutex and is left out, as the model has one server.

The connection types of `common/network.go` are left out because no part of the
program uses them, only their own tests.  Of a packet the models keep the
identifier: that its last byte is cut off (`client/relay.go:142`) is not modelled.
A socket can always be bound.
`RestClient` and `ClientRelay` are not composed in one module: the relay sees of
its client what `ClientView` has, which `RestClient` is proved to implement, and
the client knows of the relay's methods that they may not return.  While a method
waits for the relay's mutex at its call, `ClientRelay` takes it as not yet called,
so `MethodReturns` does not count that wait.  `Session` has no restart of the
server, after which an old token may be another user's (`stale_token`).

Known behaviour that no property is about, since none holds of it: lobbies that
have closed stay in the client's list, as decoding into the old map only adds
(`client/rest.go:155`); the guests of user 0 are signalled to forward to 0, which
means not to (`server/rest.go:223`); a guest's packet to a host that has left
ends the server (`server/relay.go:128`).

What could follow: a composition of `ClientRelay` with `RelayServer`, and
`Session` across a restart.

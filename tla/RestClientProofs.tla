-------------------------- MODULE RestClientProofs --------------------------
(***************************************************************************)
(* Proofs about RestClient for any set of lobbies.  RInv is the inductive  *)
(* invariant.  Its core is that the mutex is held by exactly the goroutine *)
(* that is between a lock and an unlock, so that what one of them knows of *)
(* the token when it has locked the mutex stays true until it unlocks it,  *)
(* and that every change of the token and its message are one step.        *)
(***************************************************************************)
EXTENDS RestClient, TLAPS

\* Until both goroutines end at once, who holds the mutex is where their places
\* say; whoever held it at the end keeps it.
MutexHeld ==
  /\ command = "crashed" <=> checkin = "crashed"
  /\ mutex = "free" => command # "crashed"
  /\ command # "crashed" =>
       /\ mutex = "command" <=> command \in CommandHolds
       /\ mutex = "checkin" <=> checkin \in CheckinHolds

\* The last word sent is right at every moment, the mutex held or not.
LastSentIsToken == LastSent <=> hasToken

\* A token comes with a relay, and so does the moment before it is stored.
TokenWithRelay ==
  /\ hasToken => relayConnected
  /\ command = "start" => relayConnected

\* A link command that goes on has found a lobby.
LinkHasTarget ==
  op = "link" /\ command \in {"lock", "request"} => target \in LobbyIds

RInv ==
  /\ TypeOK
  /\ MutexHeld
  /\ LastSentIsToken
  /\ TokenWithRelay
  /\ RequestsCarryToken
  /\ LinkHasTarget
  /\ RelayStopsWithLink

-----------------------------------------------------------------------------
(* The channel. *)

LEMMA SingletonFact ==
  ASSUME NEW v
  PROVE  Head(<<v>>) = v /\ Tail(<<v>>) = <<>> /\ <<v>> # <<>>
OBVIOUS

\* A send fills the empty channel.
LEMMA SendFact ==
  ASSUME checkinChannel \in {<<>>, <<TRUE>>, <<FALSE>>}, NEW v \in BOOLEAN, Send(v)
  PROVE  checkinChannel = <<>> /\ checkinChannel' = <<v>> /\ LastSent' = v
<1>1. checkinChannel = <<>>
  BY DEF Send, HasRoom
<1>2. checkinChannel' = <<v>>
  BY <1>1 DEF Send
<1>3. QED
  BY <1>1, <1>2, SingletonFact, Zenon DEF LastSent

\* A receive empties the channel and takes what was last sent.
LEMMA ReceiveFact ==
  ASSUME checkinChannel \in {<<>>, <<TRUE>>, <<FALSE>>}, CanReceive
  PROVE  /\ Tail(checkinChannel) = <<>>
         /\ Head(checkinChannel) \in BOOLEAN
         /\ LastSent = Head(checkinChannel)
<1>1. checkinChannel # <<>>
  BY DEF CanReceive
<1>2. PICK v \in BOOLEAN : checkinChannel = <<v>>
  BY <1>1, Zenon
<1>3. QED
  BY <1>2, SingletonFact, Zenon DEF LastSent

LEMMA InitRInv == Init => RInv
<1> SUFFICES ASSUME Init PROVE RInv
  OBVIOUS
<1>1. TypeOK
  BY DEF Init, TypeOK, CheckinCopy, NoCheckin, Status, NotConnected,
     CommandPlaces, CheckinPlaces, Ops
<1>2. MutexHeld
  BY DEF Init, MutexHeld, CommandHolds, CheckinHolds
<1>3. LastSentIsToken
  <2>1. <<FALSE>> # <<>> /\ Head(<<FALSE>>) = FALSE
    BY SingletonFact, Zenon
  <2>2. QED
    BY <2>1, Zenon DEF Init, LastSentIsToken, LastSent
<1>4. QED
  BY <1>1, <1>2, <1>3 DEF Init, RInv, TokenWithRelay, RequestsCarryToken,
     LinkHasTarget, RelayStopsWithLink

-----------------------------------------------------------------------------
(* Each step of the command loop preserves the invariant. *)

LEMMA GetNextCommandStep ==
  ASSUME RInv, NEW c \in Ops, GetNextCommand(c)
  PROVE  RInv'
<1>1. TypeOK'
  BY DEF GetNextCommand, clientVars, relayVars, checkinVars, RInv, TypeOK,
     CommandPlaces
<1>2. MutexHeld'
  BY DEF GetNextCommand, clientVars, relayVars, checkinVars, RInv, MutexHeld,
     CommandHolds, CheckinHolds
<1>3. LastSentIsToken'
  BY DEF GetNextCommand, clientVars, relayVars, checkinVars, RInv,
     LastSentIsToken, LastSent
<1>4. TokenWithRelay'
  BY DEF GetNextCommand, clientVars, relayVars, checkinVars, RInv,
     TokenWithRelay
<1>5. RequestsCarryToken'
  BY DEF GetNextCommand, clientVars, relayVars, checkinVars, RInv,
     RequestsCarryToken
<1>6. LinkHasTarget'
  BY DEF GetNextCommand, clientVars, relayVars, checkinVars, RInv,
     LinkHasTarget
<1>7. RelayStopsWithLink'
  BY DEF GetNextCommand, clientVars, relayVars, checkinVars, RInv,
     RelayStopsWithLink
<1>8. QED
  BY <1>1, <1>2, <1>3, <1>4, <1>5, <1>6, <1>7 DEF RInv

LEMMA GetStatusStep ==
  ASSUME RInv, GetStatus
  PROVE  RInv'
<1>1. status' \in Status
  <2>1. NotConnected \in Status
    BY DEF NotConnected, Status, NoCheckin, CheckinCopy
  <2>2. lastCheckin \in CheckinCopy =>
          [connected |-> TRUE, checkin |-> lastCheckin] \in Status
    BY DEF Status
  <2>3. QED
    BY <2>1, <2>2 DEF GetStatus, RInv, TypeOK
<1>2. TypeOK'
  <2>1. mutex' \in {"free", "command", "checkin"} /\ command' \in CommandPlaces
    BY DEF GetStatus, RInv, TypeOK, CommandPlaces, CommandHolds
  <2>2. QED
    BY <1>1, <2>1 DEF GetStatus, RInv, TypeOK, clientVars, relayVars,
       checkinVars
<1>3. MutexHeld'
  BY DEF GetStatus, clientVars, relayVars, checkinVars, RInv, MutexHeld,
     CommandHolds, CheckinHolds
<1>4. LastSentIsToken'
  BY DEF GetStatus, clientVars, relayVars, checkinVars, RInv, LastSentIsToken,
     LastSent
<1>5. TokenWithRelay'
  BY DEF GetStatus, clientVars, relayVars, checkinVars, RInv, TokenWithRelay
<1>6. RequestsCarryToken'
  BY DEF GetStatus, clientVars, relayVars, checkinVars, RInv,
     RequestsCarryToken
<1>7. LinkHasTarget'
  BY DEF GetStatus, clientVars, relayVars, checkinVars, RInv, LinkHasTarget
<1>8. RelayStopsWithLink'
  BY DEF GetStatus, clientVars, relayVars, checkinVars, RInv,
     RelayStopsWithLink
<1>9. QED
  BY <1>2, <1>3, <1>4, <1>5, <1>6, <1>7, <1>8 DEF RInv

LEMMA GetStatusExpiredStep ==
  ASSUME RInv, GetStatusExpired
  PROVE  RInv'
<1>1. NotConnected \in Status
  BY DEF NotConnected, Status, NoCheckin, CheckinCopy
<1>2. /\ checkinChannel' = <<FALSE>> /\ LastSent' = FALSE
  BY SendFact DEF GetStatusExpired, StopExpired, RInv, TypeOK
<1>3. TypeOK'
  BY <1>1, <1>2 DEF GetStatusExpired, relayVars, checkinVars, RInv, TypeOK,
     CommandPlaces
<1>4. MutexHeld'
  BY <1>1, <1>2 DEF GetStatusExpired, relayVars, checkinVars, RInv, MutexHeld,
     CommandHolds, CheckinHolds
<1>5. LastSentIsToken'
  BY <1>2 DEF GetStatusExpired, LastSentIsToken
<1>6. TokenWithRelay'
  BY <1>1, <1>2 DEF GetStatusExpired, relayVars, checkinVars, RInv,
     TokenWithRelay
<1>7. RequestsCarryToken'
  BY <1>1, <1>2 DEF GetStatusExpired, relayVars, checkinVars, RInv,
     RequestsCarryToken, MutexHeld, CommandHolds, CheckinHolds
<1>8. LinkHasTarget'
  BY <1>1, <1>2 DEF GetStatusExpired, relayVars, checkinVars, RInv,
     LinkHasTarget
<1>9. RelayStopsWithLink'
  BY <1>1, <1>2 DEF GetStatusExpired, relayVars, checkinVars, RInv,
     RelayStopsWithLink
<1>10. QED
  BY <1>3, <1>4, <1>5, <1>6, <1>7, <1>8, <1>9 DEF RInv

LEMMA ProcessCommandStep ==
  ASSUME RInv, ProcessCommand
  PROVE  RInv'
<1>1. NotConnected \in Status
  BY DEF NotConnected, Status, NoCheckin, CheckinCopy
<1>2. TypeOK'
  BY <1>1 DEF ProcessCommand, clientVars, relayVars, checkinVars, RInv,
     TypeOK, CommandPlaces, Ops
<1>3. MutexHeld'
  BY <1>1 DEF ProcessCommand, clientVars, relayVars, checkinVars, RInv,
     MutexHeld, CommandHolds, CheckinHolds
<1>4. LastSentIsToken'
  BY <1>1 DEF ProcessCommand, clientVars, relayVars, checkinVars, RInv,
     LastSentIsToken, LastSent
<1>5. TokenWithRelay'
  BY <1>1 DEF ProcessCommand, clientVars, relayVars, checkinVars, RInv,
     TokenWithRelay
<1>6. RequestsCarryToken'
  BY <1>1 DEF ProcessCommand, clientVars, relayVars, checkinVars, RInv,
     RequestsCarryToken
<1>7. LinkHasTarget'
  BY <1>1 DEF ProcessCommand, clientVars, relayVars, checkinVars, RInv,
     LinkHasTarget
<1>8. RelayStopsWithLink'
  BY <1>1 DEF ProcessCommand, clientVars, relayVars, checkinVars, RInv,
     RelayStopsWithLink
<1>9. QED
  BY <1>2, <1>3, <1>4, <1>5, <1>6, <1>7, <1>8 DEF RInv

LEMMA ScanLobbiesStep ==
  ASSUME RInv, ScanLobbies
  PROVE  RInv'
<1>1. NotConnected \in Status
  BY DEF NotConnected, Status, NoCheckin, CheckinCopy
<1>2. TypeOK'
  <2>1. lastCheckin.Lobbies \subseteq LobbyIds
    BY DEF RInv, TypeOK, CheckinCopy
  <2>2. target' \in LobbyIds \cup {0}
    BY <2>1 DEF ScanLobbies, RInv, TypeOK
  <2>3. command' \in CommandPlaces /\ op' \in Ops
    BY DEF ScanLobbies, RInv, TypeOK, CommandPlaces, Ops
  <2>4. status' \in Status /\ UNCHANGED <<mutex, checkinChannel>>
        /\ UNCHANGED <<clientVars, relayVars, checkinVars>>
    BY <1>1 DEF ScanLobbies
  <2>5. QED
    BY <2>2, <2>3, <2>4 DEF clientVars, relayVars, checkinVars, RInv, TypeOK
<1>3. MutexHeld'
  BY <1>1 DEF ScanLobbies, clientVars, relayVars, checkinVars, RInv,
     MutexHeld, CommandHolds, CheckinHolds
<1>4. LastSentIsToken'
  BY <1>1 DEF ScanLobbies, clientVars, relayVars, checkinVars, RInv,
     LastSentIsToken, LastSent
<1>5. TokenWithRelay'
  BY <1>1 DEF ScanLobbies, clientVars, relayVars, checkinVars, RInv,
     TokenWithRelay
<1>6. RequestsCarryToken'
  BY <1>1 DEF ScanLobbies, clientVars, relayVars, checkinVars, RInv,
     RequestsCarryToken
<1>7. LinkHasTarget'
  <2>1. lastCheckin.Lobbies \subseteq LobbyIds
    BY DEF RInv, TypeOK, CheckinCopy
  <2>2. QED
    BY <2>1 DEF ScanLobbies, LinkHasTarget
<1>8. RelayStopsWithLink'
  BY <1>1 DEF ScanLobbies, clientVars, relayVars, checkinVars, RInv,
     RelayStopsWithLink
<1>9. QED
  BY <1>2, <1>3, <1>4, <1>5, <1>6, <1>7, <1>8 DEF RInv

LEMMA ConcurrentMapFaultStep ==
  ASSUME RInv, ConcurrentMapFault
  PROVE  RInv'
<1>1. TypeOK'
  BY DEF ConcurrentMapFault, clientVars, relayVars, MapShared, RInv, TypeOK,
     CommandPlaces, CheckinPlaces, CommandHolds, CheckinHolds
<1>2. MutexHeld'
  BY DEF ConcurrentMapFault, clientVars, relayVars, MapShared, RInv,
     MutexHeld, CommandHolds, CheckinHolds
<1>3. LastSentIsToken'
  BY DEF ConcurrentMapFault, clientVars, relayVars, MapShared, RInv,
     LastSentIsToken, LastSent
<1>4. TokenWithRelay'
  BY DEF ConcurrentMapFault, clientVars, relayVars, MapShared, RInv,
     TokenWithRelay
<1>5. RequestsCarryToken'
  BY DEF ConcurrentMapFault, clientVars, relayVars, MapShared, RInv,
     RequestsCarryToken
<1>6. LinkHasTarget'
  BY DEF ConcurrentMapFault, clientVars, relayVars, MapShared, RInv,
     LinkHasTarget
<1>7. RelayStopsWithLink'
  BY DEF ConcurrentMapFault, clientVars, relayVars, MapShared, RInv,
     RelayStopsWithLink
<1>8. QED
  BY <1>1, <1>2, <1>3, <1>4, <1>5, <1>6, <1>7 DEF RInv

LEMMA LockForOpStep ==
  ASSUME RInv, LockForOp
  PROVE  RInv'
<1>1. TypeOK'
  BY DEF LockForOp, clientVars, relayVars, checkinVars, Return, RInv, TypeOK,
     CommandPlaces, CommandHolds, Ops
<1>2. MutexHeld'
  BY DEF LockForOp, clientVars, relayVars, checkinVars, Return, RInv,
     MutexHeld, CommandHolds, CheckinHolds
<1>3. LastSentIsToken'
  BY DEF LockForOp, clientVars, relayVars, checkinVars, Return, RInv,
     LastSentIsToken, LastSent
<1>4. TokenWithRelay'
  BY DEF LockForOp, clientVars, relayVars, checkinVars, Return, RInv,
     TokenWithRelay
<1>5. RequestsCarryToken'
  BY DEF LockForOp, clientVars, relayVars, checkinVars, Return, RInv,
     RequestsCarryToken, GoesOn, TypeOK
<1>6. LinkHasTarget'
  BY DEF LockForOp, clientVars, relayVars, checkinVars, Return, RInv,
     LinkHasTarget
<1>7. RelayStopsWithLink'
  BY DEF LockForOp, clientVars, relayVars, checkinVars, Return, RInv,
     RelayStopsWithLink
<1>8. QED
  BY <1>1, <1>2, <1>3, <1>4, <1>5, <1>6, <1>7 DEF RInv

LEMMA OpExpiredStep ==
  ASSUME RInv, OpExpired
  PROVE  RInv'
<1>1. /\ checkinChannel' = <<FALSE>> /\ LastSent' = FALSE
  BY SendFact DEF OpExpired, StopExpired, RInv, TypeOK
<1>2. TypeOK'
  BY <1>1 DEF OpExpired, relayVars, checkinVars, Return, RInv, TypeOK,
     CommandPlaces, CommandHolds, Ops
<1>3. MutexHeld'
  BY <1>1 DEF OpExpired, relayVars, checkinVars, Return, RInv, MutexHeld,
     CommandHolds, CheckinHolds
<1>4. LastSentIsToken'
  BY <1>1 DEF OpExpired, LastSentIsToken
<1>5. TokenWithRelay'
  BY <1>1 DEF OpExpired, relayVars, checkinVars, Return, RInv, TokenWithRelay
<1>6. RequestsCarryToken'
  BY <1>1 DEF OpExpired, relayVars, checkinVars, Return, RInv,
     RequestsCarryToken, MutexHeld, CommandHolds, CheckinHolds
<1>7. LinkHasTarget'
  BY <1>1 DEF OpExpired, relayVars, checkinVars, Return, RInv, LinkHasTarget
<1>8. RelayStopsWithLink'
  BY <1>1 DEF OpExpired, relayVars, checkinVars, Return, RInv,
     RelayStopsWithLink
<1>9. QED
  BY <1>2, <1>3, <1>4, <1>5, <1>6, <1>7, <1>8 DEF RInv

LEMMA RequestFailsStep ==
  ASSUME RInv, RequestFails
  PROVE  RInv'
<1>1. TypeOK'
  BY DEF RequestFails, clientVars, relayVars, checkinVars, Return, RInv,
     TypeOK, CommandPlaces, Ops
<1>2. MutexHeld'
  BY DEF RequestFails, clientVars, relayVars, checkinVars, Return, RInv,
     MutexHeld, CommandHolds, CheckinHolds
<1>3. LastSentIsToken'
  BY DEF RequestFails, clientVars, relayVars, checkinVars, Return, RInv,
     LastSentIsToken, LastSent
<1>4. TokenWithRelay'
  BY DEF RequestFails, clientVars, relayVars, checkinVars, Return, RInv,
     TokenWithRelay
<1>5. RequestsCarryToken'
  BY DEF RequestFails, clientVars, relayVars, checkinVars, Return, RInv,
     RequestsCarryToken
<1>6. LinkHasTarget'
  BY DEF RequestFails, clientVars, relayVars, checkinVars, Return, RInv,
     LinkHasTarget
<1>7. RelayStopsWithLink'
  BY DEF RequestFails, clientVars, relayVars, checkinVars, Return, RInv,
     RelayStopsWithLink
<1>8. QED
  BY <1>1, <1>2, <1>3, <1>4, <1>5, <1>6, <1>7 DEF RInv

LEMMA RequestPanicsStep ==
  ASSUME RInv, RequestPanics
  PROVE  RInv'
<1>1. TypeOK'
  BY DEF RequestPanics, clientVars, relayVars, RInv, TypeOK, CommandPlaces,
     CheckinPlaces, CommandHolds, CheckinHolds
<1>2. MutexHeld'
  BY DEF RequestPanics, clientVars, relayVars, RInv, MutexHeld, CommandHolds,
     CheckinHolds
<1>3. LastSentIsToken'
  BY DEF RequestPanics, clientVars, relayVars, RInv, LastSentIsToken, LastSent
<1>4. TokenWithRelay'
  BY DEF RequestPanics, clientVars, relayVars, RInv, TokenWithRelay
<1>5. RequestsCarryToken'
  BY DEF RequestPanics, clientVars, relayVars, RInv, RequestsCarryToken
<1>6. LinkHasTarget'
  BY DEF RequestPanics, clientVars, relayVars, RInv, LinkHasTarget
<1>7. RelayStopsWithLink'
  BY DEF RequestPanics, clientVars, relayVars, RInv, RelayStopsWithLink
<1>8. QED
  BY <1>1, <1>2, <1>3, <1>4, <1>5, <1>6, <1>7 DEF RInv

LEMMA CommandRelayReturnsStep ==
  ASSUME RInv, CommandRelayReturns
  PROVE  RInv'
<1>1. TypeOK'
  BY DEF CommandRelayReturns, clientVars, relayVars, checkinVars, Return,
     RInv, TypeOK, CommandPlaces, Ops
<1>2. MutexHeld'
  BY DEF CommandRelayReturns, clientVars, relayVars, checkinVars, Return,
     RInv, MutexHeld, CommandHolds, CheckinHolds
<1>3. LastSentIsToken'
  BY DEF CommandRelayReturns, clientVars, relayVars, checkinVars, Return,
     RInv, LastSentIsToken, LastSent
<1>4. TokenWithRelay'
  BY DEF CommandRelayReturns, clientVars, relayVars, checkinVars, Return,
     RInv, TokenWithRelay
<1>5. RequestsCarryToken'
  BY DEF CommandRelayReturns, clientVars, relayVars, checkinVars, Return,
     RInv, RequestsCarryToken
<1>6. LinkHasTarget'
  BY DEF CommandRelayReturns, clientVars, relayVars, checkinVars, Return,
     RInv, LinkHasTarget
<1>7. RelayStopsWithLink'
  BY DEF CommandRelayReturns, clientVars, relayVars, checkinVars, Return,
     RInv, RelayStopsWithLink
<1>8. QED
  BY <1>1, <1>2, <1>3, <1>4, <1>5, <1>6, <1>7 DEF RInv

LEMMA LoginAcceptedStep ==
  ASSUME RInv, LoginAccepted
  PROVE  RInv'
<1>1. TypeOK'
  BY DEF LoginAccepted, clientVars, checkinVars, RInv, TypeOK, CommandPlaces,
     CommandHolds, AfterRelay
<1>2. MutexHeld'
  BY DEF LoginAccepted, clientVars, checkinVars, RInv, MutexHeld,
     CommandHolds, CheckinHolds, AfterRelay
<1>3. LastSentIsToken'
  BY DEF LoginAccepted, clientVars, checkinVars, RInv, LastSentIsToken,
     LastSent
<1>4. TokenWithRelay'
  BY DEF LoginAccepted, clientVars, checkinVars, RInv, TokenWithRelay,
     AfterRelay
<1>5. RequestsCarryToken'
  BY DEF LoginAccepted, clientVars, checkinVars, RInv, RequestsCarryToken,
     AfterRelay
<1>6. LinkHasTarget'
  BY DEF LoginAccepted, clientVars, checkinVars, RInv, LinkHasTarget,
     AfterRelay
<1>7. RelayStopsWithLink'
  BY DEF LoginAccepted, clientVars, checkinVars, RInv, RelayStopsWithLink
<1>8. QED
  BY <1>1, <1>2, <1>3, <1>4, <1>5, <1>6, <1>7 DEF RInv

LEMMA ConnectedStep ==
  ASSUME RInv, Connected
  PROVE  RInv'
<1>1. checkinChannel' = <<TRUE>> /\ LastSent' = TRUE
  BY SendFact DEF Connected, CheckinsOn, RInv, TypeOK
<1>2. TypeOK'
  BY <1>1 DEF Connected, relayVars, checkinVars, Return, CheckinsOn, RInv,
     TypeOK, CommandPlaces, Ops
<1>3. MutexHeld'
  BY <1>1 DEF Connected, relayVars, checkinVars, Return, CheckinsOn, RInv,
     MutexHeld, CommandHolds, CheckinHolds
<1>4. LastSentIsToken'
  BY <1>1 DEF Connected, LastSentIsToken
<1>5. TokenWithRelay'
  BY <1>1 DEF Connected, relayVars, checkinVars, Return, CheckinsOn, RInv,
     TokenWithRelay
<1>6. RequestsCarryToken'
  BY <1>1 DEF Connected, relayVars, checkinVars, Return, CheckinsOn, RInv,
     RequestsCarryToken, MutexHeld, CommandHolds, CheckinHolds
<1>7. LinkHasTarget'
  BY <1>1 DEF Connected, relayVars, checkinVars, Return, CheckinsOn, RInv,
     LinkHasTarget
<1>8. RelayStopsWithLink'
  BY <1>1 DEF Connected, relayVars, checkinVars, Return, CheckinsOn, RInv,
     RelayStopsWithLink
<1>9. QED
  BY <1>2, <1>3, <1>4, <1>5, <1>6, <1>7, <1>8 DEF RInv

LEMMA LogoutAcceptedStep ==
  ASSUME RInv, LogoutAccepted
  PROVE  RInv'
<1>1. TypeOK'
  BY DEF LogoutAccepted, clientVars, relayVars, checkinVars, RInv, TypeOK,
     CommandPlaces, CommandHolds
<1>2. MutexHeld'
  BY DEF LogoutAccepted, clientVars, relayVars, checkinVars, RInv, MutexHeld,
     CommandHolds, CheckinHolds
<1>3. LastSentIsToken'
  BY DEF LogoutAccepted, clientVars, relayVars, checkinVars, RInv,
     LastSentIsToken, LastSent
<1>4. TokenWithRelay'
  BY DEF LogoutAccepted, clientVars, relayVars, checkinVars, RInv,
     TokenWithRelay
<1>5. RequestsCarryToken'
  BY DEF LogoutAccepted, clientVars, relayVars, checkinVars, RInv,
     RequestsCarryToken
<1>6. LinkHasTarget'
  BY DEF LogoutAccepted, clientVars, relayVars, checkinVars, RInv,
     LinkHasTarget
<1>7. RelayStopsWithLink'
  BY DEF LogoutAccepted, clientVars, relayVars, checkinVars, RInv,
     RelayStopsWithLink
<1>8. QED
  BY <1>1, <1>2, <1>3, <1>4, <1>5, <1>6, <1>7 DEF RInv

LEMMA LoggedOutStep ==
  ASSUME RInv, LoggedOut
  PROVE  RInv'
<1>1. checkinChannel' = <<FALSE>> /\ LastSent' = FALSE
  BY SendFact DEF LoggedOut, CompleteDisconnect, RInv, TypeOK
<1>2. TypeOK'
  BY <1>1 DEF LoggedOut, checkinVars, CallRelay, CompleteDisconnect, RInv,
     TypeOK, CommandPlaces, CommandHolds, Ops
<1>3. MutexHeld'
  BY <1>1 DEF LoggedOut, checkinVars, CallRelay, CompleteDisconnect, RInv,
     MutexHeld, CommandHolds, CheckinHolds
<1>4. LastSentIsToken'
  BY <1>1 DEF LoggedOut, CompleteDisconnect, LastSentIsToken
<1>5. TokenWithRelay'
  BY <1>1 DEF LoggedOut, checkinVars, CallRelay, CompleteDisconnect, RInv,
     TokenWithRelay
<1>6. RequestsCarryToken'
  BY <1>1 DEF LoggedOut, checkinVars, CallRelay, CompleteDisconnect, RInv,
     RequestsCarryToken, MutexHeld, CommandHolds, CheckinHolds
<1>7. LinkHasTarget'
  BY <1>1 DEF LoggedOut, checkinVars, CallRelay, CompleteDisconnect, RInv,
     LinkHasTarget
<1>8. RelayStopsWithLink'
  BY <1>1 DEF LoggedOut, checkinVars, CallRelay, CompleteDisconnect, RInv,
     RelayStopsWithLink
<1>9. QED
  BY <1>2, <1>3, <1>4, <1>5, <1>6, <1>7, <1>8 DEF RInv

LEMMA RoleAcceptedStep ==
  ASSUME RInv, RoleAccepted
  PROVE  RInv'
<1>1. /\ lastCheckin' \in CheckinCopy
      /\ relayRole' \in {"none", "hosting", "linked"}
  BY DEF RoleAccepted, RInv, TypeOK, CheckinCopy
<1>2. TypeOK'
  BY <1>1 DEF RoleAccepted, checkinVars, CallRelay, RInv, TypeOK,
     CommandPlaces, CommandHolds, Ops
<1>3. MutexHeld'
  BY <1>1 DEF RoleAccepted, checkinVars, CallRelay, RInv, MutexHeld,
     CommandHolds, CheckinHolds
<1>4. LastSentIsToken'
  BY <1>1 DEF RoleAccepted, checkinVars, CallRelay, RInv, LastSentIsToken,
     LastSent
<1>5. TokenWithRelay'
  BY <1>1 DEF RoleAccepted, checkinVars, CallRelay, RInv, TokenWithRelay
<1>6. RequestsCarryToken'
  BY <1>1 DEF RoleAccepted, checkinVars, CallRelay, RInv, RequestsCarryToken,
     MutexHeld, CommandHolds, CheckinHolds
<1>7. LinkHasTarget'
  BY <1>1 DEF RoleAccepted, checkinVars, CallRelay, RInv, LinkHasTarget
<1>8. RelayStopsWithLink'
  <2>1. CASE op = "link"
    <3>1. target > 0
      BY <2>1, LobbyIdsAssumption DEF RoleAccepted, RInv, LinkHasTarget,
         LobbyIdsAssumption
    <3>2. lastCheckin'.LinkedLobby = target
      BY <2>1 DEF RoleAccepted, RInv, TypeOK, CheckinCopy
    <3>3. QED
      BY <3>1, <3>2 DEF RelayStopsWithLink
  <2>2. CASE op # "link"
    BY <2>2 DEF RoleAccepted, RelayStopsWithLink
  <2>3. QED
    BY <2>1, <2>2
<1>9. QED
  BY <1>2, <1>3, <1>4, <1>5, <1>6, <1>7, <1>8 DEF RInv

-----------------------------------------------------------------------------
(* Each step of the checkin goroutine preserves the invariant. *)

LEMMA CheckinTickStep ==
  ASSUME RInv, CheckinTick
  PROVE  RInv'
<1>1. /\ checkinChannel' \in {<<>>, <<TRUE>>, <<FALSE>>}
      /\ sleeping' \in BOOLEAN
      /\ LastSent' = LastSent
  <2>1. CASE CanReceive
    <3>1. /\ checkinChannel' = <<>>
          /\ sleeping' = ~LastSent
          /\ LastSent \in BOOLEAN
      BY <2>1, ReceiveFact DEF CheckinTick, RInv, TypeOK
    <3>2. QED
      BY <3>1, Zenon DEF LastSent
  <2>2. CASE ~CanReceive
    BY <2>2 DEF CheckinTick, LastSent, RInv, TypeOK
  <2>3. QED
    BY <2>1, <2>2
<1>2. TypeOK'
  BY <1>1 DEF CheckinTick, clientVars, relayVars, commandVars, RInv, TypeOK,
     CheckinPlaces
<1>3. MutexHeld'
  BY <1>1 DEF CheckinTick, clientVars, relayVars, commandVars, RInv,
     MutexHeld, CommandHolds, CheckinHolds
<1>4. LastSentIsToken'
  BY <1>1, Zenon DEF CheckinTick, clientVars, RInv, LastSentIsToken
<1>5. TokenWithRelay'
  BY <1>1 DEF CheckinTick, clientVars, relayVars, commandVars, RInv,
     TokenWithRelay
<1>6. RequestsCarryToken'
  BY <1>1 DEF CheckinTick, clientVars, relayVars, commandVars, RInv,
     RequestsCarryToken
<1>7. LinkHasTarget'
  BY <1>1 DEF CheckinTick, clientVars, relayVars, commandVars, RInv,
     LinkHasTarget
<1>8. RelayStopsWithLink'
  BY <1>1 DEF CheckinTick, clientVars, relayVars, commandVars, RInv,
     RelayStopsWithLink
<1>9. QED
  BY <1>2, <1>3, <1>4, <1>5, <1>6, <1>7, <1>8 DEF RInv

LEMMA CheckinLockStep ==
  ASSUME RInv, CheckinLock
  PROVE  RInv'
<1>1. TypeOK'
  BY DEF CheckinLock, clientVars, relayVars, commandVars, RInv, TypeOK,
     CheckinPlaces, CheckinHolds
<1>2. MutexHeld'
  BY DEF CheckinLock, clientVars, relayVars, commandVars, RInv, MutexHeld,
     CommandHolds, CheckinHolds
<1>3. LastSentIsToken'
  BY DEF CheckinLock, clientVars, relayVars, commandVars, RInv,
     LastSentIsToken, LastSent
<1>4. TokenWithRelay'
  BY DEF CheckinLock, clientVars, relayVars, commandVars, RInv, TokenWithRelay
<1>5. RequestsCarryToken'
  BY DEF CheckinLock, clientVars, relayVars, commandVars, RInv,
     RequestsCarryToken
<1>6. LinkHasTarget'
  BY DEF CheckinLock, clientVars, relayVars, commandVars, RInv, LinkHasTarget
<1>7. RelayStopsWithLink'
  BY DEF CheckinLock, clientVars, relayVars, commandVars, RInv,
     RelayStopsWithLink
<1>8. QED
  BY <1>1, <1>2, <1>3, <1>4, <1>5, <1>6, <1>7 DEF RInv

LEMMA CheckinAnsweredStep ==
  ASSUME RInv, CheckinAnswered
  PROVE  RInv'
<1>1. TypeOK'
  BY DEF CheckinAnswered, clientVars, relayVars, commandVars, RInv, TypeOK,
     CheckinPlaces, CheckinHolds
<1>2. MutexHeld'
  BY DEF CheckinAnswered, clientVars, relayVars, commandVars, RInv, MutexHeld,
     CommandHolds, CheckinHolds
<1>3. LastSentIsToken'
  BY DEF CheckinAnswered, clientVars, relayVars, commandVars, RInv,
     LastSentIsToken, LastSent
<1>4. TokenWithRelay'
  BY DEF CheckinAnswered, clientVars, relayVars, commandVars, RInv,
     TokenWithRelay
<1>5. RequestsCarryToken'
  BY DEF CheckinAnswered, clientVars, relayVars, commandVars, RInv,
     RequestsCarryToken
<1>6. LinkHasTarget'
  BY DEF CheckinAnswered, clientVars, relayVars, commandVars, RInv,
     LinkHasTarget
<1>7. RelayStopsWithLink'
  BY DEF CheckinAnswered, clientVars, relayVars, commandVars, RInv,
     RelayStopsWithLink
<1>8. QED
  BY <1>1, <1>2, <1>3, <1>4, <1>5, <1>6, <1>7 DEF RInv

LEMMA CheckinFailsStep ==
  ASSUME RInv, CheckinFails
  PROVE  RInv'
<1>1. TypeOK'
  BY DEF CheckinFails, clientVars, relayVars, commandVars, RInv, TypeOK,
     CheckinPlaces, CheckinHolds
<1>2. MutexHeld'
  BY DEF CheckinFails, clientVars, relayVars, commandVars, RInv, MutexHeld,
     CommandHolds, CheckinHolds
<1>3. LastSentIsToken'
  BY DEF CheckinFails, clientVars, relayVars, commandVars, RInv,
     LastSentIsToken, LastSent
<1>4. TokenWithRelay'
  BY DEF CheckinFails, clientVars, relayVars, commandVars, RInv,
     TokenWithRelay
<1>5. RequestsCarryToken'
  BY DEF CheckinFails, clientVars, relayVars, commandVars, RInv,
     RequestsCarryToken
<1>6. LinkHasTarget'
  BY DEF CheckinFails, clientVars, relayVars, commandVars, RInv, LinkHasTarget
<1>7. RelayStopsWithLink'
  BY DEF CheckinFails, clientVars, relayVars, commandVars, RInv,
     RelayStopsWithLink
<1>8. QED
  BY <1>1, <1>2, <1>3, <1>4, <1>5, <1>6, <1>7 DEF RInv

LEMMA CheckinDecodeStep ==
  ASSUME RInv, NEW answer \in Answers, CheckinDecode(answer)
  PROVE  RInv'
<1>1. lastCheckin' \in CheckinCopy
  <2>1. lastCheckin.Lobbies \cup answer.Lobbies \subseteq LobbyIds
    BY DEF RInv, TypeOK, CheckinCopy, Answers
  <2>2. QED
    BY <2>1 DEF CheckinDecode, Unmarshal, CheckinCopy, Answers
<1>2. TypeOK'
  BY <1>1 DEF CheckinDecode, commandVars, CheckinReturn, ThenRenew, RInv,
     TypeOK, CheckinPlaces, CheckinHolds
<1>3. MutexHeld'
  BY <1>1 DEF CheckinDecode, commandVars, CheckinReturn, ThenRenew, RInv,
     MutexHeld, CommandHolds, CheckinHolds
<1>4. LastSentIsToken'
  <2>1. UNCHANGED <<checkinChannel, hasToken, sleeping>>
    BY DEF CheckinDecode, ThenRenew, CheckinReturn
  <2>2. QED
    BY <2>1, Zenon DEF RInv, LastSentIsToken, LastSent
<1>5. TokenWithRelay'
  BY <1>1 DEF CheckinDecode, commandVars, CheckinReturn, ThenRenew, RInv,
     TokenWithRelay
<1>6. RequestsCarryToken'
  BY <1>1 DEF CheckinDecode, commandVars, CheckinReturn, ThenRenew, RInv,
     RequestsCarryToken
<1>7. LinkHasTarget'
  BY <1>1 DEF CheckinDecode, commandVars, CheckinReturn, ThenRenew, RInv,
     LinkHasTarget
<1>8. RelayStopsWithLink'
  <2>1. answer.LinkedLobby \in Nat /\ lastCheckin'.LinkedLobby = answer.LinkedLobby
    <3>1. answer.LinkedLobby \in LobbyIds \cup {0}
      BY DEF Answers
    <3>2. answer.LinkedLobby \in Nat
      <4>1. LobbyIds \cup {0} \subseteq Nat
        BY LobbyIdsAssumption DEF LobbyIdsAssumption
      <4>2. QED
        BY <3>1, <4>1, Zenon
    <3>3. lastCheckin'.LinkedLobby = answer.LinkedLobby
      BY DEF CheckinDecode, Unmarshal
    <3>4. QED
      BY <3>2, <3>3
  <2>2. QED
    BY <2>1 DEF CheckinDecode, LinkLost, RInv, RelayStopsWithLink
<1>9. QED
  BY <1>2, <1>3, <1>4, <1>5, <1>6, <1>7, <1>8 DEF RInv

LEMMA RenewTokenStep ==
  ASSUME RInv, RenewToken
  PROVE  RInv'
<1>1. TypeOK'
  BY DEF RenewToken, relayVars, commandVars, CheckinReturn, RInv, TypeOK,
     CheckinPlaces
<1>2. MutexHeld'
  BY DEF RenewToken, relayVars, commandVars, CheckinReturn, RInv, MutexHeld,
     CommandHolds, CheckinHolds
<1>3. LastSentIsToken'
  BY DEF RenewToken, relayVars, commandVars, CheckinReturn, RInv,
     LastSentIsToken, LastSent
<1>4. TokenWithRelay'
  BY DEF RenewToken, relayVars, commandVars, CheckinReturn, RInv,
     TokenWithRelay
<1>5. RequestsCarryToken'
  BY DEF RenewToken, relayVars, commandVars, CheckinReturn, RInv,
     RequestsCarryToken
<1>6. LinkHasTarget'
  BY DEF RenewToken, relayVars, commandVars, CheckinReturn, RInv,
     LinkHasTarget
<1>7. RelayStopsWithLink'
  BY DEF RenewToken, relayVars, commandVars, CheckinReturn, RInv,
     RelayStopsWithLink
<1>8. QED
  BY <1>1, <1>2, <1>3, <1>4, <1>5, <1>6, <1>7 DEF RInv

LEMMA CheckinStopStep ==
  ASSUME RInv, CheckinStop
  PROVE  RInv'
<1>1. checkinChannel' = <<FALSE>> /\ LastSent' = FALSE
  BY SendFact DEF CheckinStop, CompleteDisconnect, RInv, TypeOK
<1>2. TypeOK'
  BY <1>1 DEF CheckinStop, commandVars, CompleteDisconnect, RInv, TypeOK,
     CheckinPlaces, CheckinHolds
<1>3. MutexHeld'
  BY <1>1 DEF CheckinStop, commandVars, CompleteDisconnect, RInv, MutexHeld,
     CommandHolds, CheckinHolds
<1>4. LastSentIsToken'
  BY <1>1 DEF CheckinStop, CompleteDisconnect, LastSentIsToken
<1>5. TokenWithRelay'
  BY <1>1 DEF CheckinStop, commandVars, CompleteDisconnect, RInv,
     TokenWithRelay, MutexHeld, CommandHolds, CheckinHolds
<1>6. RequestsCarryToken'
  BY <1>1 DEF CheckinStop, commandVars, CompleteDisconnect, RInv,
     RequestsCarryToken, MutexHeld, CommandHolds, CheckinHolds
<1>7. LinkHasTarget'
  BY <1>1 DEF CheckinStop, commandVars, CompleteDisconnect, RInv,
     LinkHasTarget
<1>8. RelayStopsWithLink'
  BY <1>1 DEF CheckinStop, commandVars, CompleteDisconnect, RInv,
     RelayStopsWithLink
<1>9. QED
  BY <1>2, <1>3, <1>4, <1>5, <1>6, <1>7, <1>8 DEF RInv

LEMMA CheckinRelayReturnsStep ==
  ASSUME RInv, CheckinRelayReturns
  PROVE  RInv'
<1>1. TypeOK'
  BY DEF CheckinRelayReturns, clientVars, relayVars, commandVars,
     CheckinReturn, ThenRenew, RInv, TypeOK, CheckinPlaces, CheckinHolds
<1>2. MutexHeld'
  BY DEF CheckinRelayReturns, clientVars, relayVars, commandVars,
     CheckinReturn, ThenRenew, RInv, MutexHeld, CommandHolds, CheckinHolds,
     TypeOK
<1>3. LastSentIsToken'
  <2>1. UNCHANGED <<checkinChannel, hasToken, sleeping>>
    BY DEF CheckinRelayReturns, ThenRenew, CheckinReturn, clientVars
  <2>2. QED
    BY <2>1, Zenon DEF RInv, LastSentIsToken, LastSent
<1>4. TokenWithRelay'
  BY DEF CheckinRelayReturns, clientVars, relayVars, commandVars,
     CheckinReturn, ThenRenew, RInv, TokenWithRelay
<1>5. RequestsCarryToken'
  BY DEF CheckinRelayReturns, clientVars, relayVars, commandVars,
     CheckinReturn, ThenRenew, RInv, RequestsCarryToken
<1>6. LinkHasTarget'
  BY DEF CheckinRelayReturns, clientVars, relayVars, commandVars,
     CheckinReturn, ThenRenew, RInv, LinkHasTarget
<1>7. RelayStopsWithLink'
  BY DEF CheckinRelayReturns, clientVars, relayVars, commandVars,
     CheckinReturn, ThenRenew, RInv, RelayStopsWithLink
<1>8. QED
  BY <1>1, <1>2, <1>3, <1>4, <1>5, <1>6, <1>7 DEF RInv

LEMMA AgeStep ==
  ASSUME RInv, Age
  PROVE  RInv'
<1>1. TypeOK'
  BY DEF Age, relayVars, commandVars, checkinVars, RInv, TypeOK
<1>2. MutexHeld'
  BY DEF Age, relayVars, commandVars, checkinVars, RInv, MutexHeld,
     CommandHolds, CheckinHolds
<1>3. LastSentIsToken'
  BY DEF Age, relayVars, commandVars, checkinVars, RInv, LastSentIsToken,
     LastSent
<1>4. TokenWithRelay'
  BY DEF Age, relayVars, commandVars, checkinVars, RInv, TokenWithRelay
<1>5. RequestsCarryToken'
  BY DEF Age, relayVars, commandVars, checkinVars, RInv, RequestsCarryToken
<1>6. LinkHasTarget'
  BY DEF Age, relayVars, commandVars, checkinVars, RInv, LinkHasTarget
<1>7. RelayStopsWithLink'
  BY DEF Age, relayVars, commandVars, checkinVars, RInv, RelayStopsWithLink
<1>8. QED
  BY <1>1, <1>2, <1>3, <1>4, <1>5, <1>6, <1>7 DEF RInv

LEMMA StutterStep ==
  ASSUME RInv, UNCHANGED vars
  PROVE  RInv'
<1>1. TypeOK'
  BY DEF vars, RInv, TypeOK
<1>2. MutexHeld'
  BY DEF vars, RInv, MutexHeld, CommandHolds, CheckinHolds
<1>3. LastSentIsToken'
  BY DEF vars, RInv, LastSentIsToken, LastSent
<1>4. TokenWithRelay'
  BY DEF vars, RInv, TokenWithRelay
<1>5. RequestsCarryToken'
  BY DEF vars, RInv, RequestsCarryToken
<1>6. LinkHasTarget'
  BY DEF vars, RInv, LinkHasTarget
<1>7. RelayStopsWithLink'
  BY DEF vars, RInv, RelayStopsWithLink
<1>8. QED
  BY <1>1, <1>2, <1>3, <1>4, <1>5, <1>6, <1>7 DEF RInv

LEMMA NextRInv == RInv /\ [Next]_vars => RInv'
<1> SUFFICES ASSUME RInv, [Next]_vars PROVE RInv'
  OBVIOUS
<1>1. ASSUME NEW c \in Ops, GetNextCommand(c) PROVE RInv'
  BY <1>1, GetNextCommandStep
<1>2. CASE GetStatus \/ LockForOp
  BY <1>2, GetStatusStep, LockForOpStep
<1>3. CASE CommandStep
  BY <1>3, GetStatusExpiredStep, ProcessCommandStep, ScanLobbiesStep,
     OpExpiredStep, RequestFailsStep, RequestPanicsStep, LoginAcceptedStep,
     ConnectedStep, LogoutAcceptedStep, LoggedOutStep, RoleAcceptedStep DEF CommandStep
<1>4. CASE CheckinLock
  BY <1>4, CheckinLockStep
<1>5. CASE CheckinStep
  BY <1>5, CheckinTickStep, CheckinAnsweredStep, CheckinFailsStep,
     CheckinDecodeStep, RenewTokenStep, CheckinStopStep DEF CheckinStep
<1>6. CASE ConcurrentMapFault
  BY <1>6, ConcurrentMapFaultStep
<1>7. CASE Age
  BY <1>7, AgeStep
<1>8. CASE CommandRelayReturns \/ CheckinRelayReturns
  BY <1>8, CommandRelayReturnsStep, CheckinRelayReturnsStep
<1>9. CASE UNCHANGED vars
  BY <1>9, StutterStep
<1>10. QED
  BY <1>1, <1>2, <1>3, <1>4, <1>5, <1>6, <1>7, <1>8, <1>9 DEF Next

-----------------------------------------------------------------------------
(* The theorems. *)

\* The inductive invariant holds in every reachable state.
THEOREM Invariance == Spec => []RInv
<1>1. Init => RInv
  BY InitRInv
<1>2. RInv /\ [Next]_vars => RInv'
  BY NextRInv
<1>3. QED
  BY <1>1, <1>2, PTL DEF Spec

\* Every variable keeps its type and the channel its capacity of one.
THEOREM TypeCorrect == Spec => []TypeOK
<1>1. RInv => TypeOK
  BY DEF RInv
<1>2. QED
  BY <1>1, Invariance, PTL

\* With the mutex free, the checkin goroutine's last word is to check in
\* exactly when there is a token, whichever goroutine got or lost it.
THEOREM CheckinsFollow == Spec => []CheckinFollowsConnection
<1>1. RInv => CheckinFollowsConnection
  BY DEF RInv, LastSentIsToken, CheckinFollowsConnection
<1>2. QED
  BY <1>1, Invariance, PTL

\* A connected client has told its relay to connect, and the relay agreed.
THEOREM ConnectedWithRelay == Spec => []ConnectedOnlyWithRelay
<1>1. RInv => ConnectedOnlyWithRelay
  BY DEF RInv, TokenWithRelay, ConnectedOnlyWithRelay
<1>2. QED
  BY <1>1, Invariance, PTL

\* No command acts on a token that is gone or logs in over one that is not,
\* however old the status it was chosen by.
THEOREM RequestsHaveToken == Spec => []RequestsCarryToken
<1>1. RInv => RequestsCarryToken
  BY DEF RInv
<1>2. QED
  BY <1>1, Invariance, PTL

\* When a link is gone from the status, the relay was told to stop.
THEOREM RelayLosesLink == Spec => []RelayStopsWithLink
<1>1. RInv => RelayStopsWithLink
  BY DEF RInv
<1>2. QED
  BY <1>1, Invariance, PTL
-----------------------------------------------------------------------------
(* The refinement of ClientView. *)

\* A link command looks for its lobby only by a status that allows it, and a
\* login that is accepted has found no token.
ActsOnStatus ==
  /\ command = "scan" /\ op = "link" => Accepts("link", status)
  /\ command = "start" => ~hasToken

LEMMA NextActsOnStatus ==
  ASSUME RInv, ActsOnStatus, [Next]_vars
  PROVE  ActsOnStatus'
<1> USE DEF ActsOnStatus
<1>1. CASE ProcessCommand
  BY <1>1 DEF ProcessCommand, clientVars
<1>2. CASE LoginAccepted
  BY <1>2 DEF LoginAccepted, clientVars, RInv, RequestsCarryToken
<1>3. CASE \/ (\E c \in Ops : GetNextCommand(c))
           \/ GetStatus \/ LockForOp \/ GetStatusExpired \/ ScanLobbies \/ OpExpired
           \/ RequestFails \/ RequestPanics \/ Connected \/ LogoutAccepted
           \/ LoggedOut \/ RoleAccepted \/ CommandRelayReturns \/ ConcurrentMapFault
  <2>1. command' \notin {"scan", "start"}
    BY <1>3 DEF GetNextCommand, GetStatus, LockForOp, GetStatusExpired, ScanLobbies,
       OpExpired, RequestFails, RequestPanics, Connected, LogoutAccepted, LoggedOut,
       RoleAccepted, CommandRelayReturns, ConcurrentMapFault, Return, CallRelay
  <2>2. QED
    BY <2>1
<1>4. CASE \/ CheckinTick \/ CheckinLock \/ CheckinAnswered \/ CheckinFails
           \/ (\E answer \in Answers : CheckinDecode(answer))
           \/ RenewToken \/ CheckinStop \/ CheckinRelayReturns
  <2>1. UNCHANGED <<command, op, status>>
    BY <1>4 DEF CheckinTick, CheckinLock, CheckinAnswered, CheckinFails, CheckinDecode,
       RenewToken, CheckinStop, CheckinRelayReturns, commandVars
  <2>2. hasToken' = hasToken \/ hasToken' = FALSE
    BY <1>4 DEF CheckinTick, CheckinLock, CheckinAnswered, CheckinFails, CheckinDecode,
       RenewToken, CheckinStop, CheckinRelayReturns, CompleteDisconnect, clientVars
  <2>3. (command = "start" => ~hasToken)'
    BY <2>1, <2>2
  <2>4. (command = "scan" /\ op = "link" => Accepts("link", status))'
    BY <2>1 DEF Accepts
  <2>5. QED
    BY <2>3, <2>4
<1>5. CASE Age \/ UNCHANGED vars
  BY <1>5 DEF Age, vars, commandVars, Accepts
<1>6. QED
  BY <1>1, <1>2, <1>3, <1>4, <1>5 DEF Next, CommandStep, CheckinStep

\* A command is given up, or ends without effect.
LEMMA CommandOver ==
  ASSUME UNCHANGED <<hasToken, lastCheckin, relayRole>>,
         StatusInUse' \in {StatusInUse, "none"}
  PROVE  [Client!Next]_(Client!vars)
<1>1. CASE StatusInUse' = StatusInUse
  BY <1>1 DEF Client!vars
<1>2. CASE StatusInUse # "none" /\ StatusInUse' = "none"
  BY <1>2 DEF Client!Next, Client!CommandFails
<1>3. QED
  BY <1>1, <1>2

\* Likewise when the client forgets a token that it may have.
LEMMA ConnectionOver ==
  ASSUME hasToken' = FALSE, hasToken \in BOOLEAN,
         UNCHANGED <<lastCheckin, relayRole>>,
         StatusInUse' \in {StatusInUse, "none"}
  PROVE  [Client!Next]_(Client!vars)
<1>1. CASE hasToken
  BY <1>1 DEF Client!Next, Client!Disconnect
<1>2. CASE ~hasToken
  BY <1>2, CommandOver
<1>3. QED
  BY <1>1, <1>2

LEMMA RoleAcceptedSeen ==
  ASSUME RInv, RoleAccepted
  PROVE  [Client!Next]_(Client!vars)
<1> USE DEF RInv
<1>1. /\ command = "request" /\ command' = "relay"
      /\ hasToken' = hasToken
      /\ lastCheckin \in CheckinCopy
      /\ StatusInUse' = "none"
  BY DEF RoleAccepted, CallRelay, TypeOK, StatusInUse
<1>2. CASE op = "link"
  <2>1. /\ hasToken /\ target \in LobbyIds /\ StatusInUse = "idle"
        /\ lastCheckin'.LinkedLobby = target
        /\ lastCheckin'.Hosting = lastCheckin.Hosting
        /\ relayRole' = "linked"
    BY <1>1, <1>2 DEF RoleAccepted, RequestsCarryToken, LinkHasTarget, StatusInUse, CheckinCopy
  <2>2. Client!Link(target)
    BY <1>1, <2>1 DEF Client!Link, Client!Command
  <2>3. QED
    BY <2>1, <2>2 DEF Client!Next
<1>3. CASE op = "unlink"
  <2>1. /\ hasToken /\ StatusInUse = "linked"
        /\ lastCheckin'.LinkedLobby = 0
        /\ lastCheckin'.Hosting = lastCheckin.Hosting
        /\ relayRole' = "none"
    BY <1>1, <1>3 DEF RoleAccepted, RequestsCarryToken, StatusInUse, CheckinCopy
  <2>2. Client!Unlink
    BY <1>1, <2>1 DEF Client!Unlink, Client!Command
  <2>3. QED
    BY <2>2 DEF Client!Next
<1>4. CASE op = "host start"
  <2>1. /\ hasToken /\ StatusInUse = "idle"
        /\ lastCheckin'.LinkedLobby = lastCheckin.LinkedLobby
        /\ lastCheckin'.Hosting = TRUE
        /\ relayRole' = "hosting"
    BY <1>1, <1>4 DEF RoleAccepted, RequestsCarryToken, StatusInUse, CheckinCopy
  <2>2. Client!Host
    BY <1>1, <2>1 DEF Client!Host, Client!Command
  <2>3. QED
    BY <2>2 DEF Client!Next
<1>5. CASE op = "host stop"
  <2>1. /\ hasToken /\ StatusInUse = "hosting"
        /\ lastCheckin'.LinkedLobby = lastCheckin.LinkedLobby
        /\ lastCheckin'.Hosting = FALSE
        /\ relayRole' = "none"
    BY <1>1, <1>5 DEF RoleAccepted, RequestsCarryToken, StatusInUse, CheckinCopy
  <2>2. Client!StopHost
    BY <1>1, <2>1 DEF Client!StopHost, Client!Command
  <2>3. QED
    BY <2>2 DEF Client!Next
<1>6. QED
  BY <1>2, <1>3, <1>4, <1>5 DEF RoleAccepted

LEMMA CheckinDecodeSeen ==
  ASSUME RInv, NEW answer \in Answers, CheckinDecode(answer)
  PROVE  Client!Next
<1> DEFINE h == answer.Hosting
           l == answer.LinkedLobby
<1>1. hasToken /\ UNCHANGED hasToken
  BY DEF CheckinDecode, RInv, RequestsCarryToken
<1>2. StatusInUse' = StatusInUse
  BY DEF CheckinDecode, commandVars, StatusInUse
<1>3. /\ lastCheckin'.Hosting = h /\ lastCheckin'.LinkedLobby = l
      /\ relayRole' = IF lastCheckin.LinkedLobby > 0 /\ l = 0 THEN "none" ELSE relayRole
  BY DEF CheckinDecode, Unmarshal, LinkLost
<1>4. h \in BOOLEAN /\ l \in LobbyIds \cup {0}
  BY DEF Answers
<1> HIDE DEF h, l
<1>5. Client!Checkin(h, l)
  BY <1>1, <1>2, <1>3 DEF Client!Checkin
<1>6. QED
  BY <1>4, <1>5 DEF Client!Next

LEMMA StepSeen ==
  ASSUME RInv, ActsOnStatus, [Next]_vars
  PROVE  [Client!Next]_(Client!vars)
<1> USE DEF RInv
<1>0. hasToken \in BOOLEAN /\ op \in Ops /\ op' \in Ops
  BY NextRInv DEF TypeOK
<1>1. ASSUME NEW c \in Ops, GetNextCommand(c) PROVE [Client!Next]_(Client!vars)
  BY <1>1, CommandOver DEF GetNextCommand, clientVars, relayVars, StatusInUse
<1>2. CASE GetStatus
  <2>1. CASE command' = "choose" /\ hasToken
    <3>1. StatusInUse = "none" /\ StatusInUse' = Client!Seen(lastCheckin.Hosting, lastCheckin.LinkedLobby)
      BY <1>2, <2>1 DEF GetStatus, StatusInUse, Client!Seen
    <3>2. Client!GetStatus
      BY <1>2, <2>1, <3>1 DEF GetStatus, Client!GetStatus, clientVars, relayVars
    <3>3. QED
      BY <3>2 DEF Client!Next
  <2>2. CASE command' = "choose" /\ ~hasToken
    <3>1. StatusInUse' = "none"
      BY <1>2, <2>2 DEF GetStatus, StatusInUse, NotConnected
    <3>2. QED
      BY <1>2, <3>1, CommandOver DEF GetStatus, clientVars, relayVars
  <2>3. CASE command' = "expired status"
    <3>1. StatusInUse' = "none"
      BY <2>3 DEF StatusInUse
    <3>2. QED
      BY <1>2, <3>1, CommandOver DEF GetStatus, clientVars, relayVars
  <2>4. QED
    BY <1>2, <2>1, <2>2, <2>3 DEF GetStatus
<1>3. CASE GetStatusExpired
  <2>1. StatusInUse' = "none"
    BY <1>3 DEF GetStatusExpired, StatusInUse, NotConnected
  <2>2. QED
    BY <1>0, <1>3, <2>1, ConnectionOver DEF GetStatusExpired, relayVars
<1>4. CASE ProcessCommand
  <2>1. CASE command' = "scan" \/ command' = "idle"
    BY <1>4, <2>1, CommandOver
       DEF ProcessCommand, StatusInUse, clientVars, relayVars
  <2>2. CASE command' = "lock"
    <3>1. Accepts(op, status) /\ op' = op /\ command = "choose"
          /\ op \in Ops \ {"list", "link"}
      BY <1>0, <1>4, <2>2 DEF ProcessCommand
    <3>2. StatusInUse' \in {StatusInUse, "none"}
      BY <2>2, <3>1 DEF Accepts, StatusInUse, Ops
    <3>3. QED
      BY <1>4, <3>2, CommandOver DEF ProcessCommand, clientVars, relayVars
  <2>3. QED
    BY <1>4, <2>1, <2>2 DEF ProcessCommand
<1>5. CASE ScanLobbies
  <2>1. StatusInUse' \in {StatusInUse, "none"}
    BY <1>5 DEF ScanLobbies, ActsOnStatus, Accepts, StatusInUse
  <2>2. QED
    BY <1>5, <2>1, CommandOver DEF ScanLobbies, clientVars, relayVars
<1>6. CASE ConcurrentMapFault
  <2>1. StatusInUse' = "none"
    BY <1>6 DEF ConcurrentMapFault, StatusInUse
  <2>2. QED
    BY <1>6, <2>1, CommandOver DEF ConcurrentMapFault, clientVars, relayVars
<1>7. CASE LockForOp
  <2>1. StatusInUse' \in {StatusInUse, "none"}
    BY <1>7 DEF LockForOp, Return, StatusInUse
  <2>2. QED
    BY <1>7, <2>1, CommandOver DEF LockForOp, clientVars, relayVars
<1>8. CASE OpExpired
  <2>1. StatusInUse' \in {StatusInUse, "none"}
    BY <1>8 DEF OpExpired, Return, StatusInUse
  <2>2. QED
    BY <1>0, <1>8, <2>1, ConnectionOver DEF OpExpired, relayVars
<1>9. CASE RequestFails \/ RequestPanics \/ CommandRelayReturns
  <2>1. StatusInUse' = "none"
    BY <1>9 DEF RequestFails, RequestPanics, CommandRelayReturns, Return, StatusInUse
  <2>2. QED
    BY <1>9, <2>1, CommandOver DEF RequestFails, RequestPanics, CommandRelayReturns,
       clientVars, relayVars
<1>10. CASE LoginAccepted \/ LogoutAccepted
  <2>1. StatusInUse' = "none" /\ UNCHANGED <<hasToken, lastCheckin, relayRole>>
    BY <1>10 DEF LoginAccepted, LogoutAccepted, AfterRelay, StatusInUse, clientVars,
       relayVars
  <2>2. QED
    BY <2>1, CommandOver
<1>11. CASE Connected
  <2>1. /\ ~hasToken /\ hasToken' = TRUE
        /\ StatusInUse = "none" /\ StatusInUse' = "none"
        /\ UNCHANGED <<lastCheckin, relayRole>>
    BY <1>11 DEF Connected, Return, StatusInUse, ActsOnStatus, relayVars
  <2>2. Client!Connect
    BY <2>1 DEF Client!Connect
  <2>3. QED
    BY <2>2 DEF Client!Next
<1>12. CASE LoggedOut
  <2>1. StatusInUse' = "none"
    BY <1>12 DEF LoggedOut, CallRelay, StatusInUse
  <2>2. QED
    BY <1>0, <1>12, <2>1, ConnectionOver DEF LoggedOut, CompleteDisconnect
<1>13. CASE RoleAccepted
  BY <1>13, RoleAcceptedSeen
<1>14. ASSUME UNCHANGED commandVars PROVE StatusInUse' = StatusInUse
  BY <1>14 DEF commandVars, StatusInUse
<1>15. CASE CheckinTick \/ CheckinLock \/ CheckinAnswered \/ CheckinFails \/ RenewToken
           \/ CheckinRelayReturns
  BY <1>14, <1>15, CommandOver DEF CheckinTick, CheckinLock, CheckinAnswered,
     CheckinFails, RenewToken, CheckinRelayReturns, clientVars, relayVars
<1>16. ASSUME NEW answer \in Answers, CheckinDecode(answer) PROVE Client!Next
  BY <1>16, CheckinDecodeSeen
<1>17. CASE CheckinStop
  BY <1>0, <1>14, <1>17, ConnectionOver DEF CheckinStop, CompleteDisconnect
<1>18. CASE Age \/ UNCHANGED vars
  BY <1>14, <1>18, CommandOver DEF Age, vars, commandVars, relayVars
<1>19. QED
  BY <1>1, <1>2, <1>3, <1>4, <1>5, <1>6, <1>7, <1>8, <1>9, <1>10, <1>11, <1>12, <1>13,
     <1>15, <1>16, <1>17, <1>18 DEF Next, CommandStep, CheckinStep

\* The two goroutines, with all that happens between a lock and an unlock and
\* between a status and its command, are to the user and the relay a client
\* that connects, disconnects and changes its role in single steps, each by a
\* status that allowed it (client/rest.go; client/client.go: processCommand).
THEOREM ImplementsView == Spec => ImplementsClientView
<1>1. Init => RInv /\ ActsOnStatus /\ Client!Init
  <2>1. Init => ActsOnStatus /\ Client!Init
    BY DEF Init, ActsOnStatus, NoCheckin, StatusInUse, Client!Init
  <2>2. QED
    BY <2>1, InitRInv
<1>2. RInv /\ ActsOnStatus /\ [Next]_vars => RInv' /\ ActsOnStatus'
  BY NextRInv, NextActsOnStatus
<1>3. RInv /\ ActsOnStatus /\ [Next]_vars => [Client!Next]_(Client!vars)
  BY StepSeen
<1>4. QED
  BY <1>1, <1>2, <1>3, PTL DEF Spec, ImplementsClientView, Client!Spec
=============================================================================

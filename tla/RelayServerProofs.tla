-------------------------- MODULE RelayServerProofs --------------------------
(***************************************************************************)
(* Proofs about RelayServer for any clients and users, with and without    *)
(* the registration.  SInv is the inductive invariant.  A client that is   *)
(* in connections has been authenticated, so that its id changes no more,  *)
(* and a reader that ends, which finds itself by that id, takes itself out *)
(* in the step that closes its channel; that step needs the lock, which    *)
(* nobody who sends to a client gives back before the send is over.        *)
(***************************************************************************)
EXTENDS RelayServer, TLAPS

\* A client has a reader and an open channel, or neither.
OpenWhileRead == open = Connected

\* A reader that registers has authenticated its client.
RegistersAuthenticated ==
  \A c \in Clients :
    reader[c] = "register" => c \in authenticated /\ userId[c] \in Users

RegisteredAreAuthenticated ==
  \A u \in DOMAIN connections :
    connections[u] \in authenticated /\ userId[connections[u]] = u

SInv ==
  /\ TypeOK
  /\ OpenWhileRead
  /\ RegistersAuthenticated
  /\ RegisteredAreAuthenticated
  /\ NoSendToClosed

-----------------------------------------------------------------------------
(* The initial state and each step. *)

\* The relay server starts without clients.
LEMMA InitSInv == Init => SInv
<1> SUFFICES ASSUME Init PROVE SInv
  OBVIOUS
<1>1. TypeOK
  <2>1. /\ connections \in [DOMAIN connections -> Clients]
        /\ DOMAIN connections \subseteq Users
    BY DEF Init
  <2>2. Idle \in Role
    BY DEF Idle, Role
  <2>3. QED
    BY <2>1, <2>2 DEF Init, TypeOK, ReaderPlaces, WriterPlaces
<1>2. QED
  BY <1>1 DEF Init, SInv, OpenWhileRead, Connected, RegistersAuthenticated,
     RegisteredAreAuthenticated, NoSendToClosed

\* Every step preserves the types.
LEMMA TypeStep ==
  ASSUME SInv, [Next]_vars
  PROVE  TypeOK'
<1>1. ASSUME NEW c \in Clients, RegisterNewConnection(c)
       PROVE  TypeOK'
  <2>1. Idle \in Role
    BY DEF Idle, Role
  <2>2. QED
    BY <1>1, <2>1 DEF RegisterNewConnection, Goes, SInv, TypeOK, Connected,
       ReaderPlaces, WriterPlaces
<1>2. ASSUME NEW c \in Clients, NEW u \in Users, ReadToken(c, u)
       PROVE  TypeOK'
  BY <1>2 DEF ReadToken, Goes, MayAuthenticate, SInv, TypeOK, Connected,
     ReaderPlaces
<1>3. ASSUME NEW c \in Clients, Register(c)
       PROVE  TypeOK'
  <2>1. connections' \in [DOMAIN connections' -> Clients]
    BY <1>3 DEF Register, SInv, TypeOK
  <2>2. userId[c] \in Users
    BY <1>3 DEF Register, SInv, RegistersAuthenticated
  <2>3. QED
    BY <1>3, <2>1, <2>2 DEF Register, Goes, SInv, TypeOK, Connected, ReaderPlaces
<1>4. ASSUME NEW c \in Clients, ReadMessage(c)
       PROVE  TypeOK'
  BY <1>4 DEF ReadMessage, Goes, StillRunning, SInv, TypeOK, Connected,
     ReaderPlaces
<1>5. ASSUME NEW c \in Clients, NEW id \in Users, ForwardPacket(c, id)
       PROVE  TypeOK'
  <2>1. \A u \in DOMAIN connections : connections[u] \in Clients
    BY DEF SInv, TypeOK
  <2>2. to' \in [Clients -> Clients \cup {None}]
    BY <1>5, <2>1 DEF ForwardPacket, SendsTo, SInv, TypeOK
  <2>3. reader' \in [Clients -> ReaderPlaces]
    BY <1>5 DEF ForwardPacket, Goes, SInv, TypeOK, ReaderPlaces
  <2>4. Connected' = Connected
    BY <1>5 DEF ForwardPacket, Goes, SInv, TypeOK, Connected
  <2>5. crashed' \in BOOLEAN
    BY <1>5 DEF ForwardPacket, SInv, TypeOK
  <2>6. QED
    BY <1>5, <2>2, <2>3, <2>4, <2>5 DEF ForwardPacket, clientVars, SInv, TypeOK
<1>6. ASSUME NEW c \in Clients, SendPacket(c)
       PROVE  TypeOK'
  BY <1>6 DEF SendPacket, Goes, clientVars, SInv, TypeOK, Connected,
     ReaderPlaces, WriterPlaces
<1>7. ASSUME NEW c \in Clients, SendToClosed(c)
       PROVE  TypeOK'
  BY <1>7 DEF SendToClosed, clientVars, SInv, TypeOK, Connected
<1>8. ASSUME NEW c \in Clients, DecodePanics(c)
       PROVE  TypeOK'
  BY <1>8 DEF DecodePanics, clientVars, SInv, TypeOK, Connected
<1>9. ASSUME NEW c \in Clients, ReceiveSignal(c)
       PROVE  TypeOK'
  BY <1>9 DEF ReceiveSignal, Goes, SignalWaits, clientVars, SInv, TypeOK,
     Connected, ReaderPlaces, Signal
<1>10. ASSUME NEW c \in Clients, Exit(c)
       PROVE  TypeOK'
  <2>1. /\ connections' \in [DOMAIN connections' -> Clients]
        /\ DOMAIN connections' \subseteq Users
    BY <1>10 DEF Exit, Without, Restrict, SInv, TypeOK
  <2>2. QED
    BY <1>10, <2>1 DEF Exit, Goes, Closed, NotAuthenticated, SInv, TypeOK,
       Connected, ReaderPlaces
<1>11. ASSUME NEW c \in Clients, WriterStep(c)
       PROVE  TypeOK'
  BY <1>11 DEF WriterStep, clientVars, SInv, TypeOK, Connected, WriterPlaces
<1>12. ASSUME NEW u \in Users, NEW r \in Role, SendSignal(u, r)
       PROVE  TypeOK'
  BY <1>12 DEF SendSignal, clientVars, SInv, TypeOK, Connected, Signal
<1>13. CASE UNCHANGED vars
  BY <1>13 DEF vars, clientVars, SInv, TypeOK, Connected
<1>14. \A h \in Users : {Idle, Host, Link(h)} \subseteq Role
  BY DEF Idle, Host, Link, Role
<1>15. QED
  BY <1>1, <1>2, <1>3, <1>4, <1>5, <1>6, <1>7, <1>8, <1>9, <1>10, <1>11,
     <1>12, <1>13, <1>14, ConstantsAssumption DEF Next, ReaderStep,
     OnUserStartHosting, OnUserLinkLobby, OnUserStop

\* A reader ends in the step that closes the channel.
LEMMA OpenStep ==
  ASSUME SInv, [Next]_vars
  PROVE  OpenWhileRead'
<1>1. ASSUME NEW c \in Clients, RegisterNewConnection(c)
       PROVE  OpenWhileRead'
  BY <1>1 DEF RegisterNewConnection, Goes, SInv, OpenWhileRead, Connected,
     TypeOK
<1>2. ASSUME NEW c \in Clients, NEW u \in Users, ReadToken(c, u)
       PROVE  OpenWhileRead'
  BY <1>2 DEF ReadToken, Goes, MayAuthenticate, SInv, OpenWhileRead,
     Connected, TypeOK
<1>3. ASSUME NEW c \in Clients, Register(c)
       PROVE  OpenWhileRead'
  BY <1>3 DEF Register, Goes, SInv, OpenWhileRead, Connected, TypeOK
<1>4. ASSUME NEW c \in Clients, ReadMessage(c)
       PROVE  OpenWhileRead'
  BY <1>4 DEF ReadMessage, Goes, StillRunning, SInv, OpenWhileRead, Connected,
     TypeOK
<1>5. ASSUME NEW c \in Clients, NEW id \in Users, ForwardPacket(c, id)
       PROVE  OpenWhileRead'
  BY <1>5 DEF ForwardPacket, Goes, clientVars, SInv, OpenWhileRead, Connected,
     TypeOK
<1>6. ASSUME NEW c \in Clients, SendPacket(c)
       PROVE  OpenWhileRead'
  BY <1>6 DEF SendPacket, Goes, clientVars, SInv, OpenWhileRead, Connected,
     TypeOK
<1>7. ASSUME NEW c \in Clients, SendToClosed(c)
       PROVE  OpenWhileRead'
  BY <1>7 DEF SendToClosed, clientVars, SInv, OpenWhileRead, Connected, TypeOK
<1>8. ASSUME NEW c \in Clients, DecodePanics(c)
       PROVE  OpenWhileRead'
  BY <1>8 DEF DecodePanics, clientVars, SInv, OpenWhileRead, Connected, TypeOK
<1>9. ASSUME NEW c \in Clients, ReceiveSignal(c)
       PROVE  OpenWhileRead'
  BY <1>9 DEF ReceiveSignal, Goes, SignalWaits, clientVars, SInv,
     OpenWhileRead, Connected, TypeOK
<1>10. ASSUME NEW c \in Clients, Exit(c)
       PROVE  OpenWhileRead'
  BY <1>10 DEF Exit, Goes, Closed, NotAuthenticated, SInv, OpenWhileRead,
     Connected, TypeOK
<1>11. ASSUME NEW c \in Clients, WriterStep(c)
       PROVE  OpenWhileRead'
  BY <1>11 DEF WriterStep, clientVars, SInv, OpenWhileRead, Connected, TypeOK
<1>12. ASSUME NEW u \in Users, NEW r \in Role, SendSignal(u, r)
       PROVE  OpenWhileRead'
  BY <1>12 DEF SendSignal, clientVars, SInv, OpenWhileRead, Connected, TypeOK
<1>13. CASE UNCHANGED vars
  BY <1>13 DEF vars, clientVars, SInv, OpenWhileRead, Connected, TypeOK
<1>14. \A h \in Users : {Idle, Host, Link(h)} \subseteq Role
  BY DEF Idle, Host, Link, Role
<1>15. QED
  BY <1>1, <1>2, <1>3, <1>4, <1>5, <1>6, <1>7, <1>8, <1>9, <1>10, <1>11,
     <1>12, <1>13, <1>14, ConstantsAssumption DEF Next, ReaderStep,
     OnUserStartHosting, OnUserLinkLobby, OnUserStop

\* Authentication comes before registration.
LEMMA RegisterStep ==
  ASSUME SInv, [Next]_vars
  PROVE  RegistersAuthenticated'
<1>1. ASSUME NEW c \in Clients, RegisterNewConnection(c)
       PROVE  RegistersAuthenticated'
  BY <1>1 DEF RegisterNewConnection, Goes, SInv, RegistersAuthenticated,
     TypeOK
<1>2. ASSUME NEW c \in Clients, NEW u \in Users, ReadToken(c, u)
       PROVE  RegistersAuthenticated'
  BY <1>2 DEF ReadToken, Goes, MayAuthenticate, SInv, RegistersAuthenticated,
     TypeOK
<1>3. ASSUME NEW c \in Clients, Register(c)
       PROVE  RegistersAuthenticated'
  BY <1>3 DEF Register, Goes, SInv, RegistersAuthenticated, TypeOK
<1>4. ASSUME NEW c \in Clients, ReadMessage(c)
       PROVE  RegistersAuthenticated'
  BY <1>4 DEF ReadMessage, Goes, StillRunning, SInv, RegistersAuthenticated,
     TypeOK
<1>5. ASSUME NEW c \in Clients, NEW id \in Users, ForwardPacket(c, id)
       PROVE  RegistersAuthenticated'
  BY <1>5 DEF ForwardPacket, Goes, clientVars, SInv, RegistersAuthenticated,
     TypeOK
<1>6. ASSUME NEW c \in Clients, SendPacket(c)
       PROVE  RegistersAuthenticated'
  BY <1>6 DEF SendPacket, Goes, clientVars, SInv, RegistersAuthenticated,
     TypeOK
<1>7. ASSUME NEW c \in Clients, SendToClosed(c)
       PROVE  RegistersAuthenticated'
  BY <1>7 DEF SendToClosed, clientVars, SInv, RegistersAuthenticated, TypeOK
<1>8. ASSUME NEW c \in Clients, DecodePanics(c)
       PROVE  RegistersAuthenticated'
  BY <1>8 DEF DecodePanics, clientVars, SInv, RegistersAuthenticated, TypeOK
<1>9. ASSUME NEW c \in Clients, ReceiveSignal(c)
       PROVE  RegistersAuthenticated'
  BY <1>9 DEF ReceiveSignal, Goes, SignalWaits, clientVars, SInv,
     RegistersAuthenticated, TypeOK
<1>10. ASSUME NEW c \in Clients, Exit(c)
       PROVE  RegistersAuthenticated'
  BY <1>10 DEF Exit, Goes, Closed, NotAuthenticated, SInv,
     RegistersAuthenticated, TypeOK
<1>11. ASSUME NEW c \in Clients, WriterStep(c)
       PROVE  RegistersAuthenticated'
  BY <1>11 DEF WriterStep, clientVars, SInv, RegistersAuthenticated, TypeOK
<1>12. ASSUME NEW u \in Users, NEW r \in Role, SendSignal(u, r)
       PROVE  RegistersAuthenticated'
  BY <1>12 DEF SendSignal, clientVars, SInv, RegistersAuthenticated, TypeOK
<1>13. CASE UNCHANGED vars
  BY <1>13 DEF vars, clientVars, SInv, RegistersAuthenticated, TypeOK
<1>14. \A h \in Users : {Idle, Host, Link(h)} \subseteq Role
  BY DEF Idle, Host, Link, Role
<1>15. QED
  BY <1>1, <1>2, <1>3, <1>4, <1>5, <1>6, <1>7, <1>8, <1>9, <1>10, <1>11,
     <1>12, <1>13, <1>14, ConstantsAssumption DEF Next, ReaderStep,
     OnUserStartHosting, OnUserLinkLobby, OnUserStop

\* A registered client keeps its id until it is taken out.
LEMMA RegisteredStep ==
  ASSUME SInv, [Next]_vars
  PROVE  RegisteredAreAuthenticated'
<1>1. ASSUME NEW c \in Clients, RegisterNewConnection(c)
       PROVE  RegisteredAreAuthenticated'
  <2>1. \A u \in DOMAIN connections : connections[u] # c
    BY <1>1 DEF RegisterNewConnection, SInv, TypeOK, Connected,
       RegisteredAreAuthenticated
  <2>2. QED
    BY <1>1, <2>1 DEF RegisterNewConnection, SInv, TypeOK,
       RegisteredAreAuthenticated
<1>2. ASSUME NEW c \in Clients, NEW u \in Users, ReadToken(c, u)
       PROVE  RegisteredAreAuthenticated'
  BY <1>2 DEF ReadToken, Goes, MayAuthenticate, SInv,
     RegisteredAreAuthenticated, TypeOK
<1>3. ASSUME NEW c \in Clients, Register(c)
       PROVE  RegisteredAreAuthenticated'
  <2>1. c \in authenticated
    BY <1>3 DEF Register, SInv, RegistersAuthenticated
  <2>2. QED
    BY <1>3, <2>1 DEF Register, SInv, RegisteredAreAuthenticated
<1>4. ASSUME NEW c \in Clients, ReadMessage(c)
       PROVE  RegisteredAreAuthenticated'
  BY <1>4 DEF ReadMessage, Goes, StillRunning, SInv,
     RegisteredAreAuthenticated, TypeOK
<1>5. ASSUME NEW c \in Clients, NEW id \in Users, ForwardPacket(c, id)
       PROVE  RegisteredAreAuthenticated'
  BY <1>5 DEF ForwardPacket, Goes, clientVars, SInv,
     RegisteredAreAuthenticated, TypeOK
<1>6. ASSUME NEW c \in Clients, SendPacket(c)
       PROVE  RegisteredAreAuthenticated'
  BY <1>6 DEF SendPacket, Goes, clientVars, SInv, RegisteredAreAuthenticated,
     TypeOK
<1>7. ASSUME NEW c \in Clients, SendToClosed(c)
       PROVE  RegisteredAreAuthenticated'
  BY <1>7 DEF SendToClosed, clientVars, SInv, RegisteredAreAuthenticated,
     TypeOK
<1>8. ASSUME NEW c \in Clients, DecodePanics(c)
       PROVE  RegisteredAreAuthenticated'
  BY <1>8 DEF DecodePanics, clientVars, SInv, RegisteredAreAuthenticated,
     TypeOK
<1>9. ASSUME NEW c \in Clients, ReceiveSignal(c)
       PROVE  RegisteredAreAuthenticated'
  BY <1>9 DEF ReceiveSignal, Goes, SignalWaits, clientVars, SInv,
     RegisteredAreAuthenticated, TypeOK
<1>10. ASSUME NEW c \in Clients, Exit(c)
       PROVE  RegisteredAreAuthenticated'
  <2>1. \A u \in DOMAIN connections' : u \in DOMAIN connections /\ u # userId[c]
                                  /\ connections'[u] = connections[u]
    BY <1>10 DEF Exit, Without, Restrict
  <2>2. QED
    BY <1>10, <2>1 DEF Exit, NotAuthenticated, SInv, RegisteredAreAuthenticated
<1>11. ASSUME NEW c \in Clients, WriterStep(c)
       PROVE  RegisteredAreAuthenticated'
  BY <1>11 DEF WriterStep, clientVars, SInv, RegisteredAreAuthenticated,
     TypeOK
<1>12. ASSUME NEW u \in Users, NEW r \in Role, SendSignal(u, r)
       PROVE  RegisteredAreAuthenticated'
  BY <1>12 DEF SendSignal, clientVars, SInv, RegisteredAreAuthenticated,
     TypeOK
<1>13. CASE UNCHANGED vars
  BY <1>13 DEF vars, clientVars, SInv, RegisteredAreAuthenticated, TypeOK
<1>14. \A h \in Users : {Idle, Host, Link(h)} \subseteq Role
  BY DEF Idle, Host, Link, Role
<1>15. QED
  BY <1>1, <1>2, <1>3, <1>4, <1>5, <1>6, <1>7, <1>8, <1>9, <1>10, <1>11,
     <1>12, <1>13, <1>14, ConstantsAssumption DEF Next, ReaderStep,
     OnUserStartHosting, OnUserLinkLobby, OnUserStop

\* A channel is not closed while somebody sends to a client.
LEMMA SendStep ==
  ASSUME SInv, [Next]_vars
  PROVE  NoSendToClosed'
<1>1. ASSUME NEW c \in Clients, RegisterNewConnection(c)
       PROVE  NoSendToClosed'
  BY <1>1 DEF RegisterNewConnection, Goes, SInv, NoSendToClosed, TypeOK
<1>2. ASSUME NEW c \in Clients, NEW u \in Users, ReadToken(c, u)
       PROVE  NoSendToClosed'
  BY <1>2 DEF ReadToken, Goes, MayAuthenticate, SInv, NoSendToClosed, TypeOK
<1>3. ASSUME NEW c \in Clients, Register(c)
       PROVE  NoSendToClosed'
  BY <1>3 DEF Register, Goes, SInv, NoSendToClosed, TypeOK
<1>4. ASSUME NEW c \in Clients, ReadMessage(c)
       PROVE  NoSendToClosed'
  BY <1>4 DEF ReadMessage, Goes, StillRunning, SInv, NoSendToClosed, TypeOK
<1>5. ASSUME NEW c \in Clients, NEW id \in Users, ForwardPacket(c, id)
       PROVE  NoSendToClosed'
  <2>1. \A u \in DOMAIN connections : connections[u] \in open
    BY DEF SInv, TypeOK, OpenWhileRead, RegisteredAreAuthenticated
  <2>2. QED
    BY <1>5, <2>1 DEF ForwardPacket, SendsTo, Goes, clientVars, SInv, TypeOK,
       NoSendToClosed
<1>6. ASSUME NEW c \in Clients, SendPacket(c)
       PROVE  NoSendToClosed'
  BY <1>6 DEF SendPacket, Goes, clientVars, SInv, NoSendToClosed, TypeOK
<1>7. ASSUME NEW c \in Clients, SendToClosed(c)
       PROVE  NoSendToClosed'
  BY <1>7 DEF SendToClosed, clientVars, SInv, NoSendToClosed, TypeOK
<1>8. ASSUME NEW c \in Clients, DecodePanics(c)
       PROVE  NoSendToClosed'
  BY <1>8 DEF DecodePanics, clientVars, SInv, NoSendToClosed, TypeOK
<1>9. ASSUME NEW c \in Clients, ReceiveSignal(c)
       PROVE  NoSendToClosed'
  BY <1>9 DEF ReceiveSignal, Goes, SignalWaits, clientVars, SInv,
     NoSendToClosed, TypeOK
<1>10. ASSUME NEW c \in Clients, Exit(c)
       PROVE  NoSendToClosed'
  <2>1. \A d \in Clients : reader[d] # "sending"
    BY <1>10 DEF Exit, MayLock, Holding
  <2>2. QED
    BY <1>10, <2>1 DEF Exit, Goes, SInv, TypeOK, NoSendToClosed
<1>11. ASSUME NEW c \in Clients, WriterStep(c)
       PROVE  NoSendToClosed'
  BY <1>11 DEF WriterStep, clientVars, SInv, NoSendToClosed, TypeOK
<1>12. ASSUME NEW u \in Users, NEW r \in Role, SendSignal(u, r)
       PROVE  NoSendToClosed'
  BY <1>12 DEF SendSignal, clientVars, SInv, NoSendToClosed, TypeOK
<1>13. CASE UNCHANGED vars
  BY <1>13 DEF vars, clientVars, SInv, NoSendToClosed, TypeOK
<1>14. \A h \in Users : {Idle, Host, Link(h)} \subseteq Role
  BY DEF Idle, Host, Link, Role
<1>15. QED
  BY <1>1, <1>2, <1>3, <1>4, <1>5, <1>6, <1>7, <1>8, <1>9, <1>10, <1>11,
     <1>12, <1>13, <1>14, ConstantsAssumption DEF Next, ReaderStep,
     OnUserStartHosting, OnUserLinkLobby, OnUserStop

\* Together they are inductive.
LEMMA SInvInductive == SInv /\ [Next]_vars => SInv'
  BY TypeStep, OpenStep, RegisterStep, RegisteredStep, SendStep DEF SInv

\* The inductive invariant holds in every behaviour.
THEOREM InvariantHolds == Spec => []SInv
  BY InitSInv, SInvInductive, PTL DEF Spec

-----------------------------------------------------------------------------
(* The theorems. *)

\* Every variable keeps its type (TypeOK).
THEOREM TypeCorrect == Spec => []TypeOK
<1>1. SInv => TypeOK
  BY DEF SInv
<1>2. QED
  BY <1>1, InvariantHolds, PTL

\* The map of connections holds open clients, each under its own id.
THEOREM MapHoldsOpen == Spec => []MapHoldsOpenClients
<1>1. SInv => MapHoldsOpenClients
  BY DEF SInv, TypeOK, OpenWhileRead, RegisteredAreAuthenticated,
     MapHoldsOpenClients
<1>2. QED
  BY <1>1, InvariantHolds, PTL

\* No goroutine ever sends to a closed channel (relay.go:58).
THEOREM SendsToOpen == Spec => []NoSendToClosed
<1>1. SInv => NoSendToClosed
  BY DEF SInv
<1>2. QED
  BY <1>1, InvariantHolds, PTL

-----------------------------------------------------------------------------
(* Signals and writers. *)

\* Goroutines and channels of a connection come and go together, except that
\* the writer outlives its reader for a while.
RunningWhileRead ==
  /\ running = Connected
  /\ \A c \in running : writer[c] # "none"

\* Before it is registered a client works for nobody.
IdleUntilRegistered ==
  \A c \in Clients :
    (reader[c] # "none" /\ c \notin authenticated) \/ reader[c] = "register"
      => role[c] = Idle

RInv ==
  /\ SInv
  /\ RunningWhileRead
  /\ HandlerWaitsForReader
  /\ IdleUntilRegistered
  /\ ClientsWorkAsTold

LEMMA InitRInv == Init => RInv
<1>1. Init => SInv
  BY InitSInv
<1>2. Init => /\ RunningWhileRead /\ HandlerWaitsForReader
              /\ IdleUntilRegistered /\ ClientsWorkAsTold
  BY DEF Init, RunningWhileRead, Connected, HandlerWaitsForReader,
     IdleUntilRegistered, ClientsWorkAsTold
<1>3. QED
  BY <1>1, <1>2 DEF RInv

\* Who is in connections has a reader, and one that it waits for is there.
LEMMA RegisteredFact ==
  ASSUME RInv
  PROVE  /\ \A u \in DOMAIN connections :
              /\ connections[u] \in Clients /\ connections[u] \in authenticated
              /\ connections[u] \in running /\ reader[connections[u]] # "none"
              /\ userId[connections[u]] = u
         /\ signal # None => signal.client \in authenticated
  BY DEF RInv, SInv, TypeOK, RegisteredAreAuthenticated, Connected, RunningWhileRead,
     HandlerWaitsForReader

\* The steps that take neither the lock nor a signal, and start no reader.
LEMMA QuietStep ==
  ASSUME RInv, UNCHANGED <<connections, running, role, signal, told>>,
         UNCHANGED authenticated,
         \A c \in Clients :
           /\ reader'[c] # "register"
              \/ reader'[c] = reader[c]
           /\ reader'[c] = "none" <=> reader[c] = "none"
           /\ c \in running => writer'[c] # "none"
  PROVE  /\ RunningWhileRead' /\ HandlerWaitsForReader'
         /\ IdleUntilRegistered' /\ ClientsWorkAsTold'
<1>1. running \subseteq Clients /\ (signal # None => signal.client \in Clients)
  BY DEF RInv, SInv, TypeOK, Signal
<1>2. RunningWhileRead'
  BY <1>1 DEF RInv, RunningWhileRead, Connected
<1>3. HandlerWaitsForReader'
  BY <1>1 DEF RInv, HandlerWaitsForReader
<1>4. IdleUntilRegistered'
  BY DEF RInv, IdleUntilRegistered
<1>5. ClientsWorkAsTold'
  BY DEF RInv, ClientsWorkAsTold, SignalWaits
<1>6. QED
  BY <1>2, <1>3, <1>4, <1>5

LEMMA NextRInv ==
  ASSUME RInv, [Next]_vars
  PROVE  RInv'
<1> DEFINE Rest == /\ RunningWhileRead /\ HandlerWaitsForReader
                   /\ IdleUntilRegistered /\ ClientsWorkAsTold
<1>0. /\ SInv' /\ TypeOK
  BY SInvInductive DEF RInv, SInv
<1>1. ASSUME NEW c \in Clients, RegisterNewConnection(c) PROVE Rest'
  <2>1. /\ \A u \in DOMAIN connections : connections[u] # c
        /\ signal # None => signal.client # c
    BY <1>1, RegisteredFact DEF RegisterNewConnection, RInv, HandlerWaitsForReader
  <2>2. /\ reader' = [reader EXCEPT ![c] = "read"]
        /\ writer' = [writer EXCEPT ![c] = "loop"]
        /\ running' = running \cup {c}
        /\ role' = [role EXCEPT ![c] = Idle]
        /\ UNCHANGED <<connections, authenticated, signal, told>>
    BY <1>1 DEF RegisterNewConnection, Goes
  <2>3. RunningWhileRead'
    BY <1>0, <2>2 DEF RInv, RunningWhileRead, Connected, TypeOK
  <2>4. HandlerWaitsForReader'
    BY <1>0, <2>1, <2>2 DEF RInv, HandlerWaitsForReader, TypeOK, Signal
  <2>5. IdleUntilRegistered'
    BY <1>0, <2>2 DEF RInv, IdleUntilRegistered, TypeOK
  <2>6. ClientsWorkAsTold'
    BY <1>0, <2>1, <2>2 DEF RInv, ClientsWorkAsTold, SignalWaits, TypeOK
  <2>7. QED
    BY <2>3, <2>4, <2>5, <2>6
<1>2. ASSUME NEW c \in Clients, NEW u \in Users, ReadToken(c, u) PROVE Rest'
  <2>1. /\ reader[c] = "read" /\ c \notin authenticated
        /\ \E place \in {"register", "select"} : reader' = [reader EXCEPT ![c] = place]
        /\ authenticated' = authenticated \cup {c}
        /\ UNCHANGED <<connections, running, writer, role, signal, told>>
    BY <1>2 DEF ReadToken, MayAuthenticate, Goes
  <2>2. RunningWhileRead'
    BY <1>0, <2>1 DEF RInv, RunningWhileRead, Connected, TypeOK
  <2>3. HandlerWaitsForReader'
    BY <1>0, <2>1 DEF RInv, HandlerWaitsForReader, TypeOK, Signal
  <2>4. IdleUntilRegistered'
    BY <1>0, <2>1 DEF RInv, IdleUntilRegistered, TypeOK
  <2>5. ClientsWorkAsTold'
    BY <2>1 DEF RInv, ClientsWorkAsTold, SignalWaits
  <2>6. QED
    BY <2>2, <2>3, <2>4, <2>5
<1>3. ASSUME NEW c \in Clients, Register(c) PROVE Rest'
  <2>1. /\ reader[c] = "register" /\ signal = None
        /\ reader' = [reader EXCEPT ![c] = "select"]
        /\ DOMAIN connections' = DOMAIN connections \cup {userId[c]}
        /\ connections'[userId[c]] = c
        /\ \A u \in DOMAIN connections : u # userId[c] => connections'[u] = connections[u]
        /\ UNCHANGED <<running, authenticated, writer, role, signal, told>>
    BY <1>3 DEF Register, MayLock, Goes
  <2>2. role[c] = Idle
    BY <2>1 DEF RInv, IdleUntilRegistered
  <2>3. RunningWhileRead'
    BY <1>0, <2>1 DEF RInv, RunningWhileRead, Connected, TypeOK
  <2>4. HandlerWaitsForReader'
    BY <2>1 DEF HandlerWaitsForReader
  <2>5. IdleUntilRegistered'
    BY <1>0, <2>1 DEF RInv, IdleUntilRegistered, TypeOK
  <2>6. ClientsWorkAsTold'
    BY <2>1, <2>2 DEF RInv, ClientsWorkAsTold, SignalWaits
  <2>7. QED
    BY <2>3, <2>4, <2>5, <2>6
<1>4. ASSUME NEW c \in Clients,
             \/ ReadMessage(c) \/ (\E id \in Users : ForwardPacket(c, id))
             \/ SendPacket(c) \/ SendToClosed(c) \/ DecodePanics(c)
      PROVE  Rest'
  <2>1. UNCHANGED <<connections, running, authenticated, role, signal, told>>
    BY <1>4 DEF ReadMessage, StillRunning, ForwardPacket, SendPacket, SendToClosed,
       DecodePanics, clientVars
  <2>2. /\ reader[c] # "none"
        /\ reader' = reader
           \/ \E place \in {"rlock", "select", "exit", "sending"} :
                reader' = [reader EXCEPT ![c] = place]
    BY <1>4 DEF ReadMessage, ForwardPacket, SendPacket, SendToClosed, DecodePanics,
       Goes
  <2>3. writer' = writer \/ writer' = [writer EXCEPT ![to[c]] = "write"]
    BY <1>4 DEF ReadMessage, ForwardPacket, SendPacket, SendToClosed, DecodePanics
  <2>4. \A d \in Clients : d \in running => writer'[d] # "none"
    BY <1>0, <2>3 DEF RInv, RunningWhileRead, TypeOK
  <2>5. \A d \in Clients : /\ reader'[d] # "register" \/ reader'[d] = reader[d]
                           /\ reader'[d] = "none" <=> reader[d] = "none"
    BY <1>0, <2>2 DEF TypeOK
  <2>6. QED
    BY <2>1, <2>4, <2>5, QuietStep
<1>5. ASSUME NEW c \in Clients, ReceiveSignal(c) PROVE Rest'
  <2>1. /\ reader[c] = "select" /\ reader' = [reader EXCEPT ![c] = "read"]
        /\ UNCHANGED <<connections, running, authenticated, writer, told>>
    BY <1>5 DEF ReceiveSignal, Goes, clientVars
  <2>2. CASE ~SignalWaits(c)
    <3>1. UNCHANGED <<role, signal>>
      BY <1>5, <2>2 DEF ReceiveSignal
    <3>2. \A d \in Clients : /\ reader'[d] # "register" \/ reader'[d] = reader[d]
                             /\ reader'[d] = "none" <=> reader[d] = "none"
                             /\ d \in running => writer'[d] # "none"
      BY <1>0, <2>1 DEF TypeOK, RInv, RunningWhileRead
    <3>3. QED
      BY <2>1, <3>1, <3>2, QuietStep
  <2>3. CASE SignalWaits(c)
    <3>1. PICK u \in DOMAIN connections :
            signal = [client |-> connections[u], role |-> told[u]]
      BY <2>3 DEF RInv, HandlerWaitsForReader, SignalWaits
    <3>2. /\ connections[u] = c /\ c \in authenticated /\ userId[c] = u
          /\ \A v \in DOMAIN connections : v # u => connections[v] # c
      BY <2>3, <3>1, RegisteredFact DEF SignalWaits
    <3>3. role' = [role EXCEPT ![c] = told[u]] /\ signal' = None
      BY <1>5, <2>3, <3>1 DEF ReceiveSignal
    <3>4. RunningWhileRead'
      BY <1>0, <2>1 DEF RInv, RunningWhileRead, Connected, TypeOK
    <3>5. HandlerWaitsForReader'
      BY <3>3 DEF HandlerWaitsForReader
    <3>6. IdleUntilRegistered'
      BY <1>0, <2>1, <3>2, <3>3 DEF RInv, IdleUntilRegistered, TypeOK
    <3>7. ClientsWorkAsTold'
      BY <1>0, <2>1, <3>1, <3>2, <3>3 DEF RInv, ClientsWorkAsTold, SignalWaits, TypeOK
    <3>8. QED
      BY <3>4, <3>5, <3>6, <3>7
  <2>4. QED
    BY <2>2, <2>3
<1>6. ASSUME NEW c \in Clients, Exit(c) PROVE Rest'
  <2>1. /\ signal = None /\ reader' = [reader EXCEPT ![c] = "none"]
        /\ running' = running \ {c} /\ authenticated' = authenticated \ {c}
        /\ UNCHANGED <<writer, role, signal, told>>
    BY <1>6 DEF Exit, MayLock, NotAuthenticated, Goes
  <2>2. \A u \in DOMAIN connections' :
          u \in DOMAIN connections /\ connections'[u] = connections[u]
    BY <1>6 DEF Exit, Without, Restrict
  <2>3. RunningWhileRead'
    BY <1>0, <2>1 DEF RInv, RunningWhileRead, Connected, TypeOK
  <2>4. HandlerWaitsForReader'
    BY <2>1 DEF HandlerWaitsForReader
  <2>5. IdleUntilRegistered'
    BY <1>0, <2>1 DEF RInv, IdleUntilRegistered, TypeOK
  <2>6. ClientsWorkAsTold'
    BY <2>1, <2>2 DEF RInv, ClientsWorkAsTold, SignalWaits
  <2>7. QED
    BY <2>3, <2>4, <2>5, <2>6
<1>7. ASSUME NEW c \in Clients, WriterStep(c) PROVE Rest'
  <2>1. UNCHANGED <<connections, running, authenticated, role, signal, told, reader>>
    BY <1>7 DEF WriterStep, clientVars
  <2>2. PICK place \in WriterPlaces : /\ writer' = [writer EXCEPT ![c] = place]
                                      /\ c \in running => place # "none"
    BY <1>7 DEF WriterStep, WriterPlaces
  <2>3. \A d \in Clients : d \in running => writer'[d] # "none"
    <3>1. writer \in [Clients -> WriterPlaces]
      BY <1>0 DEF TypeOK
    <3>2. \A d \in running : writer[d] # "none"
      BY DEF RInv, RunningWhileRead
    <3>3. QED
      BY <2>2, <3>1, <3>2
  <2>4. QED
    BY <2>1, <2>3, QuietStep
<1>8. ASSUME NEW u \in Users, NEW r \in Role, SendSignal(u, r) PROVE Rest'
  <2>1. /\ signal = None /\ told' = [told EXCEPT ![u] = r]
        /\ signal' = IF u \in DOMAIN connections
                     THEN [client |-> connections[u], role |-> r] ELSE None
        /\ UNCHANGED <<connections, running, authenticated, role, reader, writer>>
    BY <1>8 DEF SendSignal, clientVars
  <2>2. RunningWhileRead' /\ IdleUntilRegistered'
    BY <2>1 DEF RInv, RunningWhileRead, IdleUntilRegistered, Connected
  <2>3. HandlerWaitsForReader'
    BY <1>0, <2>1, RegisteredFact DEF HandlerWaitsForReader, TypeOK
  <2>4. ClientsWorkAsTold'
    <3>1. SUFFICES ASSUME NEW v \in DOMAIN connections
                   PROVE  \/ SignalWaits(connections[v])'
                          \/ role[connections[v]] \in {Idle, told'[v]}
      BY <2>1 DEF ClientsWorkAsTold
    <3>2. CASE v = u
      <4>1. connections[v] \in Clients
        BY <1>0 DEF TypeOK
      <4>2. signal' # None /\ signal'.client = connections'[v]
        BY <2>1, <3>2, <4>1, <1>8, ConstantsAssumption DEF ConstantsAssumption, Signal
      <4>3. QED
        BY <2>1, <4>2 DEF SignalWaits
    <3>3. CASE v # u
      BY <1>0, <2>1, <3>3 DEF RInv, ClientsWorkAsTold, SignalWaits, TypeOK
    <3>4. QED
      BY <3>2, <3>3
  <2>5. QED
    BY <2>2, <2>3, <2>4
<1>9. ASSUME UNCHANGED vars PROVE Rest'
  BY <1>9, QuietStep DEF vars, clientVars, RInv, RunningWhileRead
<1>10. \A h \in Users : {Idle, Host, Link(h)} \subseteq Role
  BY DEF Idle, Host, Link, Role
<1>11. Rest'
  <2> HIDE DEF Rest
  <2>1. ASSUME NEW u \in Users, \/ OnUserStartHosting(u) \/ OnUserStop(u)
                                \/ \E h \in Users : OnUserLinkLobby(u, h)
        PROVE  Rest'
    BY <2>1, <1>8, <1>10 DEF OnUserStartHosting, OnUserLinkLobby, OnUserStop
  <2>2. QED
    BY <2>1, <1>1, <1>2, <1>3, <1>4, <1>5, <1>6, <1>7, <1>9 DEF Next, ReaderStep
<1>12. RunningWhileRead' /\ HandlerWaitsForReader' /\ IdleUntilRegistered'
       /\ ClientsWorkAsTold'
  BY <1>11
<1>13. QED
  BY <1>0, <1>12 DEF RInv

LEMMA RInvHolds == Spec => []RInv
<1>1. RInv /\ [Next]_vars => RInv'
  BY NextRInv
<1>2. QED
  BY <1>1, InitRInv, PTL DEF Spec

\* Whoever sends a packet, with the lock held, has somebody to send it to
\* (relay.go:50-69, 128, 133): neither the channel nor the writer's loop can end first.
THEOREM SendsToWriters == Spec => []SendersHaveWriters
<1>1. RInv => SendersHaveWriters
  BY DEF RInv, SInv, TypeOK, NoSendToClosed, OpenWhileRead, RunningWhileRead,
     SendersHaveWriters
<1>2. QED
  BY <1>1, RInvHolds, PTL

\* A handler that waits, and with it the whole matchmaker, waits for a reader
\* that is there (relay.go:180-185, from 208, 219, 230 and 241).
THEOREM HandlersHaveReaders == Spec => []HandlerWaitsForReader
<1>1. RInv => HandlerWaitsForReader
  BY DEF RInv
<1>2. QED
  BY <1>1, RInvHolds, PTL

\* The role by which packets are forwarded is the last one that the matchmaker
\* gave to the client's user, or none yet (relay.go:148-160).
THEOREM WorkersAsTold == Spec => []ClientsWorkAsTold
<1>1. RInv => ClientsWorkAsTold
  BY DEF RInv
<1>2. QED
  BY <1>1, RInvHolds, PTL

-----------------------------------------------------------------------------
(* The repository as it is, in which no reader registers its client.        *)

Inert ==
  /\ DOMAIN connections = {} /\ signal = None
  /\ reader \in [Clients -> ReaderPlaces \ {"register", "sending"}]
  /\ role = [c \in Clients |-> Idle]

\* As long as nobody writes to connections but delete (relay.go:66), nothing is
\* forwarded for anyone, no role is ever taken (relay.go:149) and no handler
\* waits (relay.go:183): what the theorems above say of the packets and signals
\* of registered clients is, today, about code that is never reached.  It does
\* not say that the server goes on: a short message ends it (relay.go:122).
THEOREM UnregisteredIsInert == Spec => [](~Registers => Inert)
<1> DEFINE I == ~Registers => Inert
<1>1. Init => I
  BY DEF Init, Inert, ReaderPlaces
<1>2. ASSUME I, [Next]_vars PROVE I'
  <2> SUFFICES ASSUME ~Registers PROVE Inert'
    OBVIOUS
  <2>0. Inert
    BY <1>2
  <2>1. ASSUME NEW c \in Clients,
               RegisterNewConnection(c) \/ \E u \in Users : ReadToken(c, u)
        PROVE  Inert'
    BY <2>0, <2>1 DEF Inert, RegisterNewConnection, ReadToken, Goes, ReaderPlaces
  <2>2. ASSUME NEW c \in Clients, Register(c) \/ SendPacket(c) \/ SendToClosed(c)
        PROVE  Inert'
    BY <2>0, <2>2 DEF Inert, Register, SendPacket, SendToClosed, ReaderPlaces
  <2>3. ASSUME NEW c \in Clients, NEW id \in Users, ForwardPacket(c, id)
        PROVE  Inert'
    BY <2>0, <2>3 DEF Inert, ForwardPacket, SendsTo, clientVars, Goes, Idle, ReaderPlaces
  <2>4. ASSUME NEW c \in Clients, ReadMessage(c) \/ DecodePanics(c) \/ ReceiveSignal(c)
        PROVE  Inert'
    BY <2>0, <2>4 DEF Inert, ReadMessage, DecodePanics, ReceiveSignal, SignalWaits,
       clientVars, Goes, ReaderPlaces
  <2>5. ASSUME NEW c \in Clients, Exit(c) PROVE Inert'
    BY <2>0, <2>5 DEF Inert, Exit, Without, Restrict, Goes, ReaderPlaces
  <2>6. ASSUME NEW c \in Clients, WriterStep(c) PROVE Inert'
    BY <2>0, <2>6 DEF Inert, WriterStep, clientVars
  <2>7. ASSUME NEW u \in Users,
               \/ OnUserStartHosting(u) \/ OnUserStop(u)
               \/ \E h \in Users : OnUserLinkLobby(u, h)
        PROVE  Inert'
    BY <2>0, <2>7 DEF Inert, OnUserStartHosting, OnUserStop, OnUserLinkLobby, SendSignal,
       clientVars
  <2>8. CASE UNCHANGED vars
    BY <2>0, <2>8 DEF Inert, vars, clientVars
  <2>9. QED
    BY <1>2, <2>1, <2>2, <2>3, <2>4, <2>5, <2>6, <2>7, <2>8 DEF Next, ReaderStep
<1>3. QED
  BY <1>1, <1>2, PTL DEF Spec
=============================================================================

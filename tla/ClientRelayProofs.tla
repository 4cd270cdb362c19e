-------------------------- MODULE ClientRelayProofs --------------------------
(***************************************************************************)
(* Proofs about ClientRelay for any identifiers and any number of proxies. *)
(* CInv is the inductive invariant.  Who holds the mutex is where the      *)
(* methods and the reader are, so that only one of them ever closes        *)
(* proxies; the proxies whose closing has begun are among those it closes, *)
(* so that none of them is closed when the mutex is taken.                 *)
(***************************************************************************)
EXTENDS ClientRelay, TLAPS

MutexHeld ==
  /\ mutex = "method" <=> method \in Sends \cup Closes \cup {"write close"}
  /\ mutex = "reader" <=> reader \in {"close", "wait"}

\* The reader clears the connection without the mutex, but as its last step.
ReaderOwnsConnection ==
  /\ connection = "none" <=> reader = "none"
  /\ connection = "closed" <=> reader = "closed"

\* The proxies of the map whose closing may have begun.
BeingClosed == IF Closing THEN ToClose
               ELSE IF reader = "wait" THEN InMap ELSE {}

\* Each proxy is in the map once; closing closes the channel first.
MapIsClosedInOrder ==
  /\ IsInjective(localProxies)
  /\ InMap \cap told \subseteq BeingClosed
  /\ InMap \ sockets \subseteq told
  /\ reader = "wait" => Closed(InMap)

\* A proxy that is not in the map has been closed.
OthersAreClosed ==
  \A p \in Proxies \ InMap : place[p] # "none" => Closed({p})

CInv ==
  /\ TypeOK
  /\ MutexHeld
  /\ ReaderOwnsConnection
  /\ MapIsClosedInOrder
  /\ OthersAreClosed
  /\ ClosedReadMeansTold

-----------------------------------------------------------------------------
(* The initial state and the map. *)

\* The relay is created idle.
LEMMA InitCInv == Init => CInv
<1> SUFFICES ASSUME Init PROVE CInv
  OBVIOUS
<1>1. InMap = {} /\ IsInjective(localProxies)
  BY DEF Init, InMap, Range, IsInjective
<1>2. TypeOK
  <2>1. /\ localProxies \in [DOMAIN localProxies -> Proxies]
        /\ DOMAIN localProxies \subseteq Ids
    BY DEF Init
  <2>2. signals \in SignalValues
    BY DEF Init, SignalValues
  <2>3. place \in [Proxies -> ProxyPlaces]
    BY DEF Init, ProxyPlaces
  <2>4. QED
    BY <2>1, <2>2, <2>3 DEF Init, TypeOK, MethodPlaces, ReaderPlaces, Shown
<1>3. QED
  BY <1>1, <1>2 DEF Init, CInv, MutexHeld, ReaderOwnsConnection, Sends, Closes,
     MapIsClosedInOrder, OthersAreClosed, ClosedReadMeansTold

\* A channel of one place.
LEMMA SingletonIsAppended ==
  ASSUME NEW v
  PROVE  Append(<<>>, v) = <<v>>
OBVIOUS

LEMMA SingletonFact ==
  ASSUME NEW v
  PROVE  Tail(<<v>>) = <<>>
OBVIOUS

\* What depends on the map alone.
LEMMA SameMap ==
  ASSUME UNCHANGED localProxies
  PROVE  /\ InMap' = InMap
         /\ LinkedProxies' = LinkedProxies
         /\ IsInjective(localProxies') <=> IsInjective(localProxies)
         /\ LinkedProxies \subseteq InMap
  BY DEF InMap, LinkedProxies, Range

\* A proxy is only added under an identifier that is not in the map.
LEMMA AddProxyFact ==
  ASSUME NEW id, id \notin DOMAIN localProxies, NEW p, AddProxy(id, p),
         IsInjective(localProxies)
  PROVE  InMap' = InMap \cup {p} /\ IsInjective(localProxies')
<1>1. DOMAIN localProxies' = DOMAIN localProxies \cup {id}
  BY DEF AddProxy
<1>2. \A i \in DOMAIN localProxies : localProxies'[i] = localProxies[i]
  BY DEF AddProxy
<1>3. localProxies'[id] = p
  BY DEF AddProxy
<1>4. InMap' = InMap \cup {p}
  BY <1>1, <1>2, <1>3 DEF InMap, Range
<1>5. \A i \in DOMAIN localProxies : localProxies[i] # p
  BY DEF AddProxy, InMap, Range
<1>6. IsInjective(localProxies')
  BY <1>1, <1>2, <1>3, <1>5 DEF IsInjective
<1>7. QED
  BY <1>4, <1>6

\* RemoveProxies takes the proxies that are closed out of the map.
LEMMA RemoveProxiesFact ==
  ASSUME RemoveProxies
  PROVE  /\ InMap' = InMap \ ToClose
         /\ DOMAIN localProxies' \subseteq DOMAIN localProxies
         /\ \A i \in DOMAIN localProxies' : localProxies'[i] = localProxies[i]
  BY DEF RemoveProxies, RestrictValues, Restrict, InMap, Range

\* A panic leaves nothing.
LEMMA PanicFact ==
  ASSUME Panic
  PROVE  /\ InMap' = {} /\ IsInjective(localProxies')
         /\ localProxies' \in [DOMAIN localProxies' -> Proxies]
         /\ DOMAIN localProxies' \subseteq Ids
  BY DEF Panic, InMap, Range, IsInjective

-----------------------------------------------------------------------------
(* Each conjunct is preserved by every step. *)

\* Types; the channel never holds more than one signal.
LEMMA TypeStep ==
  ASSUME CInv, [Next]_vars
  PROVE  TypeOK'
<1>1. CASE OnConnectedToServer
  BY <1>1 DEF OnConnectedToServer, Shows, proxyVars, readerVars, CInv, TypeOK,
     ReaderPlaces, Shown
<1>2. CASE ConnectFails
  BY <1>2 DEF ConnectFails, CallFrame, remoteVars, proxyVars, clientVars,
     readerVars, CInv, TypeOK, MethodPlaces
<1>3. CASE OnDisconnectedFromServer
  BY <1>3 DEF OnDisconnectedFromServer, Lock, CallFrame, remoteVars,
     proxyVars, readerVars, CInv, TypeOK, MethodPlaces
<1>4. CASE WriteClose
  BY <1>4 DEF WriteClose, Return, CallFrame, proxyVars, clientVars,
     readerVars, CInv, TypeOK, MethodPlaces
<1>5. CASE OnBeginHosting
  BY <1>5 DEF OnBeginHosting, Shows, Lock, CallFrame, remoteVars, proxyVars,
     readerVars, CInv, TypeOK, MethodPlaces, Sends, Shown
<1>6. CASE OnStopHosting
  BY <1>6 DEF OnStopHosting, Shows, Lock, CallFrame, remoteVars, proxyVars,
     readerVars, CInv, TypeOK, MethodPlaces, Sends, Shown
<1>7. CASE OnBeginLinked
  <2>1. ASSUME NEW q \in Proxies, NEW j \in Ids, AddProxy(j, q)
        PROVE  /\ localProxies' \in [DOMAIN localProxies' -> Proxies]
               /\ DOMAIN localProxies' \subseteq Ids
               /\ place' \in [Proxies -> ProxyPlaces]
               /\ told' \subseteq Proxies /\ sockets' \subseteq Proxies
    BY <2>1 DEF AddProxy, CInv, TypeOK, ProxyPlaces
  <2>2. CASE UNCHANGED proxyVars
    BY <1>7, <2>2 DEF OnBeginLinked, Lock, CallFrame, remoteVars, proxyVars,
       readerVars, CInv, TypeOK, MethodPlaces, Sends, Shown
  <2>3. CASE \E q \in Proxies : AddProxy(0, q)
    BY <1>7, <2>1, <2>3, IdsAssumption DEF OnBeginLinked, Lock, CallFrame, remoteVars,
       readerVars, CInv, TypeOK, MethodPlaces, Sends, Shown
  <2>4. QED
    BY <1>7, <2>2, <2>3 DEF OnBeginLinked, proxyVars
<1>8. CASE OnStopLinked
  BY <1>8 DEF OnStopLinked, Lock, CallFrame, remoteVars, proxyVars,
     readerVars, CInv, TypeOK, MethodPlaces, Sends, Shown
<1>9. CASE SendSignal
  <2>1. signals = <<>>
    BY <1>9 DEF SendSignal, Full
  <2>2. signals' \in SignalValues
    BY <1>9, <2>1, SingletonIsAppended, Zenon DEF SendSignal, SignalValues
  <2>3. QED
    BY <1>9, <2>2 DEF SendSignal, Return, CallFrame, proxyVars, clientVars,
       readerVars, CInv, TypeOK, Sends, Closes, MethodPlaces
<1>10. ASSUME NEW p \in Proxies, CloseProxy(p)
       PROVE  TypeOK'
  BY <1>10 DEF CloseProxy, CallFrame, remoteVars, clientVars, readerVars,
     CInv, TypeOK
<1>11. CASE RemoveProxies
  <2>1. localProxies' \in [DOMAIN localProxies' -> Proxies]
    BY <1>11 DEF RemoveProxies, RestrictValues, Restrict, CInv, TypeOK
  <2>2. DOMAIN localProxies' \subseteq Ids
    BY <1>11, RemoveProxiesFact DEF CInv, TypeOK
  <2>3. QED
    BY <1>11, <2>1, <2>2 DEF RemoveProxies, Return, CallFrame, remoteVars,
       clientVars, readerVars, CInv, TypeOK, MethodPlaces
<1>12. CASE ReceiveSignal
  <2>1. signals # <<>> => Tail(signals) \in SignalValues
    BY SingletonFact, Zenon DEF CInv, TypeOK, SignalValues
  <2>2. QED
    BY <1>12, <2>1 DEF ReceiveSignal, ReaderFrame, proxyVars, clientVars, CInv,
       TypeOK, ReaderPlaces
<1>13. CASE ReadFails
  BY <1>13 DEF ReadFails, ReaderFrame, remoteVars, proxyVars, clientVars,
     CInv, TypeOK, ReaderPlaces
<1>14. CASE CloseSignals
  BY <1>14 DEF CloseSignals, ReaderFrame, proxyVars, clientVars, CInv, TypeOK,
     ReaderPlaces
<1>15. CASE ShutdownDone
  <2>1. localProxies' \in [DOMAIN localProxies' -> Proxies]
        /\ DOMAIN localProxies' \subseteq Ids
    BY <1>15 DEF ShutdownDone
  <2>2. QED
    BY <1>15, <2>1 DEF ShutdownDone, ReaderFrame, remoteVars, clientVars, CInv,
       TypeOK, ReaderPlaces
<1>16. CASE ReaderExit
  BY <1>16 DEF ReaderExit, ReaderFrame, proxyVars, clientVars, CInv, TypeOK,
     ReaderPlaces
<1>17. CASE ReaderGone
  BY <1>17 DEF ReaderGone, ReaderFrame, proxyVars, clientVars, CInv, TypeOK,
     ReaderPlaces
<1>18. CASE OnRemoteDisconnected
  BY <1>18 DEF OnRemoteDisconnected, ReaderFrame, remoteVars, proxyVars,
     clientVars, CInv, TypeOK, ReaderPlaces
<1>19. ASSUME NEW id \in Ids, RelayPacket(id)
       PROVE  TypeOK'
  <2>1. ASSUME NEW q \in Proxies, NEW j \in Ids, AddProxy(j, q)
        PROVE  /\ localProxies' \in [DOMAIN localProxies' -> Proxies]
               /\ DOMAIN localProxies' \subseteq Ids
               /\ place' \in [Proxies -> ProxyPlaces]
               /\ told' \subseteq Proxies /\ sockets' \subseteq Proxies
    BY <2>1 DEF AddProxy, CInv, TypeOK, ProxyPlaces
  <2>2. CASE UNCHANGED proxyVars
    BY <1>19, <2>2 DEF RelayPacket, ReaderFrame, remoteVars, proxyVars, clientVars,
       CInv, TypeOK, ReaderPlaces
  <2>3. CASE \E q \in Proxies : AddProxy(id, q)
    BY <1>19, <2>1, <2>3 DEF RelayPacket, ReaderFrame, remoteVars, clientVars, CInv,
       TypeOK, ReaderPlaces
  <2>4. QED
    BY <1>19, <2>2, <2>3 DEF RelayPacket, proxyVars
<1>20. CASE ReadMessage
  BY <1>20 DEF ReadMessage, ReaderFrame, remoteVars, proxyVars, clientVars,
     CInv, TypeOK, ReaderPlaces
<1>21. ASSUME NEW p \in Proxies, WaitgroupAdd(p)
       PROVE  TypeOK'
  BY <1>21 DEF WaitgroupAdd, ProxyMoves, remoteVars, readerVars, clientVars,
     CInv, TypeOK, ProxyPlaces
<1>22. ASSUME NEW p \in Proxies, CheckSignal(p)
       PROVE  TypeOK'
  BY <1>22 DEF CheckSignal, ProxyMoves, remoteVars, readerVars, clientVars,
     CInv, TypeOK, ProxyPlaces
<1>23. ASSUME NEW p \in Proxies, SendContainerToServer(p)
       PROVE  TypeOK'
  BY <1>23 DEF SendContainerToServer, ProxyMoves, remoteVars, readerVars,
     clientVars, CInv, TypeOK, ProxyPlaces
<1>24. ASSUME NEW p \in Proxies, ReadFromUDP(p)
       PROVE  TypeOK'
  BY <1>24 DEF ReadFromUDP, ProxyMoves, remoteVars, readerVars, clientVars,
     CInv, TypeOK, ProxyPlaces
<1>25. CASE Panic
  BY <1>25, PanicFact DEF CInv, Panic, TypeOK, ProxyPlaces, MethodPlaces,
     ReaderPlaces, SignalValues, Shown
<1>26. CASE ConnectionLost
  BY <1>26 DEF ConnectionLost, CallFrame, proxyVars, clientVars, readerVars,
     CInv, TypeOK
<1>27. CASE TokenExpires
  BY <1>27 DEF TokenExpires, CallFrame, remoteVars, proxyVars, readerVars,
     CInv, TypeOK
<1>28. CASE RoleFound
  BY <1>28 DEF RoleFound, CallFrame, remoteVars, proxyVars, readerVars, CInv,
     TypeOK, Shown
<1>29. CASE UNCHANGED vars
  BY <1>29 DEF vars, remoteVars, proxyVars, readerVars, clientVars, CInv,
     TypeOK
<1>30. QED
  BY <1>1, <1>2, <1>3, <1>4, <1>5, <1>6, <1>7, <1>8, <1>9, <1>10, <1>11,
     <1>12, <1>13, <1>14, <1>15, <1>16, <1>17, <1>18, <1>19, <1>20, <1>21,
     <1>22, <1>23, <1>24, <1>25, <1>26, <1>27, <1>28, <1>29 DEF Next,
     MethodCall, MethodStep, ReaderStep, LockingStep, ProxyStep

\* Who holds the mutex is where its places say.
LEMMA MutexStep ==
  ASSUME CInv, [Next]_vars
  PROVE  MutexHeld'
<1>1. CASE OnConnectedToServer
  BY <1>1 DEF OnConnectedToServer, Shows, proxyVars, readerVars, CInv,
     MutexHeld, Sends, Closes, MethodPlaces
<1>2. CASE ConnectFails
  BY <1>2 DEF ConnectFails, CallFrame, remoteVars, proxyVars, clientVars,
     readerVars, CInv, MutexHeld, Sends, Closes, MethodPlaces
<1>3. CASE OnDisconnectedFromServer
  BY <1>3 DEF OnDisconnectedFromServer, Lock, CallFrame, remoteVars,
     proxyVars, readerVars, CInv, MutexHeld, Sends, Closes, MethodPlaces
<1>4. CASE WriteClose
  BY <1>4 DEF WriteClose, Return, CallFrame, proxyVars, clientVars,
     readerVars, CInv, MutexHeld, Sends, Closes, MethodPlaces
<1>5. CASE OnBeginHosting
  BY <1>5 DEF OnBeginHosting, Shows, Lock, CallFrame, remoteVars, proxyVars,
     readerVars, CInv, MutexHeld, Sends, Closes, MethodPlaces
<1>6. CASE OnStopHosting
  BY <1>6 DEF OnStopHosting, Shows, Lock, CallFrame, remoteVars, proxyVars,
     readerVars, CInv, MutexHeld, Sends, Closes, MethodPlaces
<1>7. CASE OnBeginLinked
  BY <1>7 DEF OnBeginLinked, Lock, CallFrame, remoteVars, proxyVars,
     readerVars, AddProxy, CInv, MutexHeld, Sends, Closes, MethodPlaces
<1>8. CASE OnStopLinked
  BY <1>8 DEF OnStopLinked, Lock, CallFrame, remoteVars, proxyVars,
     readerVars, CInv, MutexHeld, Sends, Closes, MethodPlaces
<1>9. CASE SendSignal
  BY <1>9 DEF SendSignal, Return, CallFrame, proxyVars, clientVars,
     readerVars, CInv, MutexHeld, Sends, Closes, MethodPlaces
<1>10. ASSUME NEW p \in Proxies, CloseProxy(p)
       PROVE  MutexHeld'
  BY <1>10 DEF CloseProxy, CallFrame, remoteVars, clientVars, readerVars,
     CInv, MutexHeld, Sends, Closes, MethodPlaces
<1>11. CASE RemoveProxies
  BY <1>11 DEF RemoveProxies, Return, CallFrame, remoteVars, clientVars,
     readerVars, CInv, MutexHeld, Sends, Closes, MethodPlaces
<1>12. CASE ReceiveSignal
  BY <1>12 DEF ReceiveSignal, ReaderFrame, proxyVars, clientVars, CInv,
     MutexHeld, Sends, Closes, MethodPlaces
<1>13. CASE ReadFails
  BY <1>13 DEF ReadFails, ReaderFrame, remoteVars, proxyVars, clientVars,
     CInv, MutexHeld, Sends, Closes, MethodPlaces
<1>14. CASE CloseSignals
  BY <1>14 DEF CloseSignals, ReaderFrame, proxyVars, clientVars, CInv,
     MutexHeld, Sends, Closes, MethodPlaces
<1>15. CASE ShutdownDone
  BY <1>15 DEF ShutdownDone, ReaderFrame, remoteVars, clientVars, CInv,
     MutexHeld, Sends, Closes, MethodPlaces
<1>16. CASE ReaderExit
  BY <1>16 DEF ReaderExit, ReaderFrame, proxyVars, clientVars, CInv,
     MutexHeld, Sends, Closes, MethodPlaces
<1>17. CASE ReaderGone
  BY <1>17 DEF ReaderGone, ReaderFrame, proxyVars, clientVars, CInv,
     MutexHeld, Sends, Closes, MethodPlaces
<1>18. CASE OnRemoteDisconnected
  BY <1>18 DEF OnRemoteDisconnected, ReaderFrame, remoteVars, proxyVars,
     clientVars, CInv, MutexHeld, Sends, Closes, MethodPlaces
<1>19. ASSUME NEW id \in Ids, RelayPacket(id)
       PROVE  MutexHeld'
  BY <1>19 DEF RelayPacket, ReaderFrame, remoteVars, proxyVars, clientVars,
     AddProxy, CInv, MutexHeld, Sends, Closes, MethodPlaces
<1>20. CASE ReadMessage
  BY <1>20 DEF ReadMessage, ReaderFrame, remoteVars, proxyVars, clientVars,
     CInv, MutexHeld, Sends, Closes, MethodPlaces
<1>21. ASSUME NEW p \in Proxies, WaitgroupAdd(p)
       PROVE  MutexHeld'
  BY <1>21 DEF WaitgroupAdd, ProxyMoves, remoteVars, readerVars, clientVars,
     CInv, MutexHeld, Sends, Closes, MethodPlaces
<1>22. ASSUME NEW p \in Proxies, CheckSignal(p)
       PROVE  MutexHeld'
  BY <1>22 DEF CheckSignal, ProxyMoves, remoteVars, readerVars, clientVars,
     CInv, MutexHeld, Sends, Closes, MethodPlaces
<1>23. ASSUME NEW p \in Proxies, SendContainerToServer(p)
       PROVE  MutexHeld'
  BY <1>23 DEF SendContainerToServer, ProxyMoves, remoteVars, readerVars,
     clientVars, CInv, MutexHeld, Sends, Closes, MethodPlaces
<1>24. ASSUME NEW p \in Proxies, ReadFromUDP(p)
       PROVE  MutexHeld'
  BY <1>24 DEF ReadFromUDP, ProxyMoves, remoteVars, readerVars, clientVars,
     CInv, MutexHeld, Sends, Closes, MethodPlaces
<1>25. CASE Panic
  BY <1>25, PanicFact DEF CInv, Panic, MutexHeld, Sends, Closes
<1>26. CASE ConnectionLost
  BY <1>26 DEF ConnectionLost, CallFrame, proxyVars, clientVars, readerVars,
     CInv, MutexHeld, Sends, Closes, MethodPlaces
<1>27. CASE TokenExpires
  BY <1>27 DEF TokenExpires, CallFrame, remoteVars, proxyVars, readerVars,
     CInv, MutexHeld, Sends, Closes, MethodPlaces
<1>28. CASE RoleFound
  BY <1>28 DEF RoleFound, CallFrame, remoteVars, proxyVars, readerVars, CInv,
     MutexHeld, Sends, Closes, MethodPlaces
<1>29. CASE UNCHANGED vars
  BY <1>29 DEF vars, remoteVars, proxyVars, readerVars, clientVars, CInv,
     MutexHeld, Sends, Closes, MethodPlaces
<1>30. QED
  BY <1>1, <1>2, <1>3, <1>4, <1>5, <1>6, <1>7, <1>8, <1>9, <1>10, <1>11,
     <1>12, <1>13, <1>14, <1>15, <1>16, <1>17, <1>18, <1>19, <1>20, <1>21,
     <1>22, <1>23, <1>24, <1>25, <1>26, <1>27, <1>28, <1>29 DEF Next,
     MethodCall, MethodStep, ReaderStep, LockingStep, ProxyStep

\* A reader and a connection come and go together.
LEMMA OneReaderStep ==
  ASSUME CInv, [Next]_vars
  PROVE  ReaderOwnsConnection'
<1>1. CASE OnConnectedToServer
  BY <1>1 DEF OnConnectedToServer, Shows, proxyVars, readerVars, CInv,
     ReaderOwnsConnection
<1>2. CASE ConnectFails
  BY <1>2 DEF ConnectFails, CallFrame, remoteVars, proxyVars, clientVars,
     readerVars, CInv, ReaderOwnsConnection
<1>3. CASE OnDisconnectedFromServer
  BY <1>3 DEF OnDisconnectedFromServer, Lock, CallFrame, remoteVars,
     proxyVars, readerVars, CInv, ReaderOwnsConnection
<1>4. CASE WriteClose
  BY <1>4 DEF WriteClose, Return, CallFrame, proxyVars, clientVars,
     readerVars, CInv, ReaderOwnsConnection
<1>5. CASE OnBeginHosting
  BY <1>5 DEF OnBeginHosting, Shows, Lock, CallFrame, remoteVars, proxyVars,
     readerVars, CInv, ReaderOwnsConnection
<1>6. CASE OnStopHosting
  BY <1>6 DEF OnStopHosting, Shows, Lock, CallFrame, remoteVars, proxyVars,
     readerVars, CInv, ReaderOwnsConnection
<1>7. CASE OnBeginLinked
  BY <1>7 DEF OnBeginLinked, Lock, CallFrame, remoteVars, proxyVars,
     readerVars, AddProxy, CInv, ReaderOwnsConnection
<1>8. CASE OnStopLinked
  BY <1>8 DEF OnStopLinked, Lock, CallFrame, remoteVars, proxyVars,
     readerVars, CInv, ReaderOwnsConnection
<1>9. CASE SendSignal
  BY <1>9 DEF SendSignal, Return, CallFrame, proxyVars, clientVars,
     readerVars, CInv, ReaderOwnsConnection
<1>10. ASSUME NEW p \in Proxies, CloseProxy(p)
       PROVE  ReaderOwnsConnection'
  BY <1>10 DEF CloseProxy, CallFrame, remoteVars, clientVars, readerVars,
     CInv, ReaderOwnsConnection
<1>11. CASE RemoveProxies
  BY <1>11 DEF RemoveProxies, Return, CallFrame, remoteVars, clientVars,
     readerVars, CInv, ReaderOwnsConnection
<1>12. CASE ReceiveSignal
  BY <1>12 DEF ReceiveSignal, ReaderFrame, proxyVars, clientVars, CInv,
     ReaderOwnsConnection
<1>13. CASE ReadFails
  BY <1>13 DEF ReadFails, ReaderFrame, remoteVars, proxyVars, clientVars,
     CInv, ReaderOwnsConnection
<1>14. CASE CloseSignals
  BY <1>14 DEF CloseSignals, ReaderFrame, proxyVars, clientVars, CInv,
     ReaderOwnsConnection
<1>15. CASE ShutdownDone
  BY <1>15 DEF ShutdownDone, ReaderFrame, remoteVars, clientVars, CInv,
     ReaderOwnsConnection
<1>16. CASE ReaderExit
  BY <1>16 DEF ReaderExit, ReaderFrame, proxyVars, clientVars, CInv,
     ReaderOwnsConnection
<1>17. CASE ReaderGone
  BY <1>17 DEF ReaderGone, ReaderFrame, proxyVars, clientVars, CInv,
     ReaderOwnsConnection
<1>18. CASE OnRemoteDisconnected
  BY <1>18 DEF OnRemoteDisconnected, ReaderFrame, remoteVars, proxyVars,
     clientVars, CInv, ReaderOwnsConnection
<1>19. ASSUME NEW id \in Ids, RelayPacket(id)
       PROVE  ReaderOwnsConnection'
  BY <1>19 DEF RelayPacket, ReaderFrame, remoteVars, proxyVars, clientVars,
     AddProxy, CInv, ReaderOwnsConnection
<1>20. CASE ReadMessage
  BY <1>20 DEF ReadMessage, ReaderFrame, remoteVars, proxyVars, clientVars,
     CInv, ReaderOwnsConnection
<1>21. ASSUME NEW p \in Proxies, WaitgroupAdd(p)
       PROVE  ReaderOwnsConnection'
  BY <1>21 DEF WaitgroupAdd, ProxyMoves, remoteVars, readerVars, clientVars,
     CInv, ReaderOwnsConnection
<1>22. ASSUME NEW p \in Proxies, CheckSignal(p)
       PROVE  ReaderOwnsConnection'
  BY <1>22 DEF CheckSignal, ProxyMoves, remoteVars, readerVars, clientVars,
     CInv, ReaderOwnsConnection
<1>23. ASSUME NEW p \in Proxies, SendContainerToServer(p)
       PROVE  ReaderOwnsConnection'
  BY <1>23 DEF SendContainerToServer, ProxyMoves, remoteVars, readerVars,
     clientVars, CInv, ReaderOwnsConnection
<1>24. ASSUME NEW p \in Proxies, ReadFromUDP(p)
       PROVE  ReaderOwnsConnection'
  BY <1>24 DEF ReadFromUDP, ProxyMoves, remoteVars, readerVars, clientVars,
     CInv, ReaderOwnsConnection
<1>25. CASE Panic
  BY <1>25, PanicFact DEF CInv, Panic, ReaderOwnsConnection
<1>26. CASE ConnectionLost
  BY <1>26 DEF ConnectionLost, CallFrame, proxyVars, clientVars, readerVars,
     CInv, ReaderOwnsConnection
<1>27. CASE TokenExpires
  BY <1>27 DEF TokenExpires, CallFrame, remoteVars, proxyVars, readerVars,
     CInv, ReaderOwnsConnection
<1>28. CASE RoleFound
  BY <1>28 DEF RoleFound, CallFrame, remoteVars, proxyVars, readerVars, CInv,
     ReaderOwnsConnection
<1>29. CASE UNCHANGED vars
  BY <1>29 DEF vars, remoteVars, proxyVars, readerVars, clientVars, CInv,
     ReaderOwnsConnection
<1>30. QED
  BY <1>1, <1>2, <1>3, <1>4, <1>5, <1>6, <1>7, <1>8, <1>9, <1>10, <1>11,
     <1>12, <1>13, <1>14, <1>15, <1>16, <1>17, <1>18, <1>19, <1>20, <1>21,
     <1>22, <1>23, <1>24, <1>25, <1>26, <1>27, <1>28, <1>29 DEF Next,
     MethodCall, MethodStep, ReaderStep, LockingStep, ProxyStep

\* Proxies of the map are closed in order, by the holder of the mutex.
LEMMA MapStep ==
  ASSUME CInv, [Next]_vars
  PROVE  MapIsClosedInOrder'
<1>1. CASE OnConnectedToServer
  BY <1>1, SameMap DEF OnConnectedToServer, Shows, proxyVars, readerVars,
     CInv, MapIsClosedInOrder, BeingClosed, Closing, ToClose, Closed,
     MutexHeld, Sends, Closes
<1>2. CASE ConnectFails
  BY <1>2, SameMap DEF ConnectFails, CallFrame, remoteVars, proxyVars,
     clientVars, readerVars, CInv, MapIsClosedInOrder, BeingClosed, Closing,
     ToClose, Closed, MutexHeld, Sends, Closes
<1>3. CASE OnDisconnectedFromServer
  BY <1>3, SameMap DEF OnDisconnectedFromServer, Lock, CallFrame, remoteVars,
     proxyVars, readerVars, CInv, MapIsClosedInOrder, BeingClosed, Closing,
     ToClose, Closed, MutexHeld, Sends, Closes
<1>4. CASE WriteClose
  BY <1>4, SameMap DEF WriteClose, Return, CallFrame, proxyVars, clientVars,
     readerVars, CInv, MapIsClosedInOrder, BeingClosed, Closing, ToClose,
     Closed, MutexHeld, Sends, Closes
<1>5. CASE OnBeginHosting
  BY <1>5, SameMap DEF OnBeginHosting, Shows, Lock, CallFrame, remoteVars,
     proxyVars, readerVars, CInv, MapIsClosedInOrder, BeingClosed, Closing,
     ToClose, Closed, MutexHeld, Sends, Closes
<1>6. CASE OnStopHosting
  BY <1>6, SameMap DEF OnStopHosting, Shows, Lock, CallFrame, remoteVars,
     proxyVars, readerVars, CInv, MapIsClosedInOrder, BeingClosed, Closing,
     ToClose, Closed, MutexHeld, Sends, Closes
<1>7. CASE OnBeginLinked
  <2>1. CASE UNCHANGED proxyVars
    BY <1>7, <2>1, SameMap DEF OnBeginLinked, Lock, CallFrame, ReaderFrame, readerVars,
       proxyVars, CInv, MapIsClosedInOrder, BeingClosed, Closing, ToClose, Closed,
       MutexHeld, Sends, Closes
  <2>2. ASSUME NEW p \in Proxies, AddProxy(0, p), 0 \notin DOMAIN localProxies
        PROVE  MapIsClosedInOrder'
    <3>1. InMap' = InMap \cup {p} /\ IsInjective(localProxies')
      BY <2>2, AddProxyFact DEF CInv, MapIsClosedInOrder
    <3>2. /\ told' = told \ {p} /\ sockets' = sockets \cup {p}
          /\ mutex = "free" /\ reader' # "wait"
      BY <1>7, <2>2 DEF OnBeginLinked, AddProxy, Lock, CallFrame, readerVars, CInv, MutexHeld
    <3>3. BeingClosed = {}
      BY <3>2 DEF CInv, MutexHeld, BeingClosed, Closing
    <3>4. QED
      BY <3>1, <3>2, <3>3 DEF CInv, MapIsClosedInOrder
  <2>3. InMap = {} => 0 \notin DOMAIN localProxies
    BY DEF InMap, Range
  <2>4. QED
    BY <1>7, <2>1, <2>2, <2>3 DEF OnBeginLinked, proxyVars
<1>8. CASE OnStopLinked
  BY <1>8, SameMap DEF OnStopLinked, Lock, CallFrame, remoteVars, proxyVars,
     readerVars, CInv, MapIsClosedInOrder, BeingClosed, Closing, ToClose,
     Closed, MutexHeld, Sends, Closes
<1>9. CASE SendSignal
  BY <1>9, SameMap DEF SendSignal, Return, CallFrame, proxyVars, clientVars,
     readerVars, CInv, MapIsClosedInOrder, BeingClosed, Closing, ToClose,
     Closed, MutexHeld, Sends, Closes
<1>10. ASSUME NEW p \in Proxies, CloseProxy(p)
       PROVE  MapIsClosedInOrder'
  <2>1. /\ InMap' = InMap /\ BeingClosed' = BeingClosed
        /\ BeingClosed = ToClose /\ reader' # "wait"
        /\ IsInjective(localProxies')
    BY <1>10, SameMap DEF CloseProxy, CallFrame, readerVars, CInv, BeingClosed,
       Closing, ToClose, MutexHeld, MapIsClosedInOrder, Closes
  <2>2. QED
    BY <1>10, <2>1 DEF CloseProxy, MayCloseSocket, CInv, MapIsClosedInOrder
<1>11. CASE RemoveProxies
  <2>1. IsInjective(localProxies')
    BY RemoveProxiesFact, <1>11 DEF CInv, MapIsClosedInOrder, IsInjective
  <2>2. BeingClosed = ToClose
    BY <1>11 DEF RemoveProxies, BeingClosed, Closing
  <2>3. reader' # "wait"
    BY <1>11 DEF RemoveProxies, CallFrame, readerVars, CInv, MutexHeld
  <2>4. QED
    BY <1>11, RemoveProxiesFact, <2>1, <2>2, <2>3 DEF RemoveProxies, CInv,
       MapIsClosedInOrder
<1>12. CASE ReceiveSignal
  BY <1>12, SameMap DEF ReceiveSignal, ReaderFrame, proxyVars, clientVars,
     CInv, MapIsClosedInOrder, BeingClosed, Closing, ToClose, Closed,
     MutexHeld, Sends, Closes
<1>13. CASE ReadFails
  BY <1>13, SameMap DEF ReadFails, ReaderFrame, remoteVars, proxyVars,
     clientVars, CInv, MapIsClosedInOrder, BeingClosed, Closing, ToClose,
     Closed, MutexHeld, Sends, Closes
<1>14. CASE CloseSignals
  BY <1>14, SameMap DEF CloseSignals, ReaderFrame, proxyVars, clientVars,
     CInv, MapIsClosedInOrder, BeingClosed, Closing, ToClose, Closed,
     MutexHeld, Sends, Closes
<1>15. CASE ShutdownDone
  <2>1. InMap' = {} /\ IsInjective(localProxies')
    BY <1>15 DEF ShutdownDone, InMap, Range, IsInjective
  <2>2. QED
    BY <1>15, <2>1 DEF ShutdownDone, MapIsClosedInOrder
<1>16. CASE ReaderExit
  BY <1>16, SameMap DEF ReaderExit, ReaderFrame, proxyVars, clientVars, CInv,
     MapIsClosedInOrder, BeingClosed, Closing, ToClose, Closed, MutexHeld,
     Sends, Closes
<1>17. CASE ReaderGone
  BY <1>17, SameMap DEF ReaderGone, ReaderFrame, proxyVars, clientVars, CInv,
     MapIsClosedInOrder, BeingClosed, Closing, ToClose, Closed, MutexHeld,
     Sends, Closes
<1>18. CASE OnRemoteDisconnected
  BY <1>18, SameMap DEF OnRemoteDisconnected, ReaderFrame, remoteVars,
     proxyVars, clientVars, CInv, MapIsClosedInOrder, BeingClosed, Closing,
     ToClose, Closed, MutexHeld, Sends, Closes
<1>19. ASSUME NEW id \in Ids, RelayPacket(id)
       PROVE  MapIsClosedInOrder'
  <2>1. CASE UNCHANGED proxyVars
    BY <1>19, <2>1, SameMap DEF RelayPacket, Lock, CallFrame, ReaderFrame, readerVars,
       proxyVars, CInv, MapIsClosedInOrder, BeingClosed, Closing, ToClose, Closed,
       MutexHeld, Sends, Closes
  <2>2. ASSUME NEW p \in Proxies, AddProxy(id, p), id \notin DOMAIN localProxies
        PROVE  MapIsClosedInOrder'
    <3>1. InMap' = InMap \cup {p} /\ IsInjective(localProxies')
      BY <2>2, AddProxyFact DEF CInv, MapIsClosedInOrder
    <3>2. /\ told' = told \ {p} /\ sockets' = sockets \cup {p}
          /\ mutex = "free" /\ reader' # "wait"
      BY <1>19, <2>2 DEF RelayPacket, AddProxy, Lock, CallFrame, readerVars, CInv, MutexHeld
    <3>3. BeingClosed = {}
      BY <3>2 DEF CInv, MutexHeld, BeingClosed, Closing
    <3>4. QED
      BY <3>1, <3>2, <3>3 DEF CInv, MapIsClosedInOrder
  <2>3. QED
    BY <1>19, <2>1, <2>2 DEF RelayPacket, Found
<1>20. CASE ReadMessage
  BY <1>20, SameMap DEF ReadMessage, ReaderFrame, remoteVars, proxyVars,
     clientVars, CInv, MapIsClosedInOrder, BeingClosed, Closing, ToClose,
     Closed, MutexHeld, Sends, Closes
<1>21. ASSUME NEW p \in Proxies, WaitgroupAdd(p)
       PROVE  MapIsClosedInOrder'
  BY <1>21, SameMap DEF WaitgroupAdd, ProxyMoves, remoteVars, readerVars,
     clientVars, CInv, MapIsClosedInOrder, BeingClosed, Closing, ToClose,
     Closed, MutexHeld, Sends, Closes
<1>22. ASSUME NEW p \in Proxies, CheckSignal(p)
       PROVE  MapIsClosedInOrder'
  BY <1>22, SameMap DEF CheckSignal, ProxyMoves, remoteVars, readerVars,
     clientVars, CInv, MapIsClosedInOrder, BeingClosed, Closing, ToClose,
     Closed, MutexHeld, Sends, Closes
<1>23. ASSUME NEW p \in Proxies, SendContainerToServer(p)
       PROVE  MapIsClosedInOrder'
  BY <1>23, SameMap DEF SendContainerToServer, ProxyMoves, remoteVars,
     readerVars, clientVars, CInv, MapIsClosedInOrder, BeingClosed, Closing,
     ToClose, Closed, MutexHeld, Sends, Closes
<1>24. ASSUME NEW p \in Proxies, ReadFromUDP(p)
       PROVE  MapIsClosedInOrder'
  BY <1>24, SameMap DEF ReadFromUDP, ProxyMoves, remoteVars, readerVars,
     clientVars, CInv, MapIsClosedInOrder, BeingClosed, Closing, ToClose,
     Closed, MutexHeld, Sends, Closes
<1>25. CASE Panic
  BY <1>25, PanicFact DEF CInv, Panic, MapIsClosedInOrder
<1>26. CASE ConnectionLost
  BY <1>26, SameMap DEF ConnectionLost, CallFrame, proxyVars, clientVars,
     readerVars, CInv, MapIsClosedInOrder, BeingClosed, Closing, ToClose,
     Closed, MutexHeld, Sends, Closes
<1>27. CASE TokenExpires
  BY <1>27, SameMap DEF TokenExpires, CallFrame, remoteVars, proxyVars,
     readerVars, CInv, MapIsClosedInOrder, BeingClosed, Closing, ToClose,
     Closed, MutexHeld, Sends, Closes
<1>28. CASE RoleFound
  BY <1>28, SameMap DEF RoleFound, CallFrame, remoteVars, proxyVars,
     readerVars, CInv, MapIsClosedInOrder, BeingClosed, Closing, ToClose,
     Closed, MutexHeld, Sends, Closes
<1>29. CASE UNCHANGED vars
  BY <1>29, SameMap DEF vars, remoteVars, proxyVars, readerVars, clientVars,
     CInv, MapIsClosedInOrder, BeingClosed, Closing, ToClose, Closed,
     MutexHeld, Sends, Closes
<1>30. QED
  BY <1>1, <1>2, <1>3, <1>4, <1>5, <1>6, <1>7, <1>8, <1>9, <1>10, <1>11,
     <1>12, <1>13, <1>14, <1>15, <1>16, <1>17, <1>18, <1>19, <1>20, <1>21,
     <1>22, <1>23, <1>24, <1>25, <1>26, <1>27, <1>28, <1>29 DEF Next,
     MethodCall, MethodStep, ReaderStep, LockingStep, ProxyStep

\* A proxy leaves the map when it has been closed.
LEMMA OthersStep ==
  ASSUME CInv, [Next]_vars
  PROVE  OthersAreClosed'
<1>1. CASE OnConnectedToServer
  BY <1>1, SameMap DEF OnConnectedToServer, Shows, proxyVars, readerVars,
     CInv, OthersAreClosed, Closed, TypeOK
<1>2. CASE ConnectFails
  BY <1>2, SameMap DEF ConnectFails, CallFrame, remoteVars, proxyVars,
     clientVars, readerVars, CInv, OthersAreClosed, Closed, TypeOK
<1>3. CASE OnDisconnectedFromServer
  BY <1>3, SameMap DEF OnDisconnectedFromServer, Lock, CallFrame, remoteVars,
     proxyVars, readerVars, CInv, OthersAreClosed, Closed, TypeOK
<1>4. CASE WriteClose
  BY <1>4, SameMap DEF WriteClose, Return, CallFrame, proxyVars, clientVars,
     readerVars, CInv, OthersAreClosed, Closed, TypeOK
<1>5. CASE OnBeginHosting
  BY <1>5, SameMap DEF OnBeginHosting, Shows, Lock, CallFrame, remoteVars,
     proxyVars, readerVars, CInv, OthersAreClosed, Closed, TypeOK
<1>6. CASE OnStopHosting
  BY <1>6, SameMap DEF OnStopHosting, Shows, Lock, CallFrame, remoteVars,
     proxyVars, readerVars, CInv, OthersAreClosed, Closed, TypeOK
<1>7. CASE OnBeginLinked
  <2>1. CASE UNCHANGED proxyVars
    BY <2>1, SameMap DEF proxyVars, CInv, OthersAreClosed, Closed
  <2>2. ASSUME NEW p \in Proxies, AddProxy(0, p), 0 \notin DOMAIN localProxies
        PROVE  OthersAreClosed'
    <3>1. InMap' = InMap \cup {p}
      BY <2>2, AddProxyFact DEF CInv, MapIsClosedInOrder
    <3>2. QED
      BY <2>2, <3>1 DEF AddProxy, CInv, TypeOK, OthersAreClosed, Closed
  <2>3. InMap = {} => 0 \notin DOMAIN localProxies
    BY DEF InMap, Range
  <2>4. QED
    BY <1>7, <2>1, <2>2, <2>3 DEF OnBeginLinked, proxyVars
<1>8. CASE OnStopLinked
  BY <1>8, SameMap DEF OnStopLinked, Lock, CallFrame, remoteVars, proxyVars,
     readerVars, CInv, OthersAreClosed, Closed, TypeOK
<1>9. CASE SendSignal
  BY <1>9, SameMap DEF SendSignal, Return, CallFrame, proxyVars, clientVars,
     readerVars, CInv, OthersAreClosed, Closed, TypeOK
<1>10. ASSUME NEW p \in Proxies, CloseProxy(p)
       PROVE  OthersAreClosed'
  BY <1>10, SameMap DEF CloseProxy, CallFrame, remoteVars, clientVars,
     readerVars, CInv, OthersAreClosed, Closed, TypeOK
<1>11. CASE RemoveProxies
  BY <1>11, RemoveProxiesFact DEF RemoveProxies, Closed, CInv, OthersAreClosed
<1>12. CASE ReceiveSignal
  BY <1>12, SameMap DEF ReceiveSignal, ReaderFrame, proxyVars, clientVars,
     CInv, OthersAreClosed, Closed, TypeOK
<1>13. CASE ReadFails
  BY <1>13, SameMap DEF ReadFails, ReaderFrame, remoteVars, proxyVars,
     clientVars, CInv, OthersAreClosed, Closed, TypeOK
<1>14. CASE CloseSignals
  BY <1>14, SameMap DEF CloseSignals, ReaderFrame, proxyVars, clientVars,
     CInv, OthersAreClosed, Closed, TypeOK
<1>15. CASE ShutdownDone
  <2>1. Closed(InMap)
    BY <1>15 DEF ShutdownDone, CInv, MapIsClosedInOrder
  <2>2. QED
    BY <1>15, <2>1 DEF ShutdownDone, Closed, CInv, OthersAreClosed
<1>16. CASE ReaderExit
  BY <1>16, SameMap DEF ReaderExit, ReaderFrame, proxyVars, clientVars, CInv,
     OthersAreClosed, Closed, TypeOK
<1>17. CASE ReaderGone
  BY <1>17, SameMap DEF ReaderGone, ReaderFrame, proxyVars, clientVars, CInv,
     OthersAreClosed, Closed, TypeOK
<1>18. CASE OnRemoteDisconnected
  BY <1>18, SameMap DEF OnRemoteDisconnected, ReaderFrame, remoteVars,
     proxyVars, clientVars, CInv, OthersAreClosed, Closed, TypeOK
<1>19. ASSUME NEW id \in Ids, RelayPacket(id)
       PROVE  OthersAreClosed'
  <2>1. CASE UNCHANGED proxyVars
    BY <2>1, SameMap DEF proxyVars, CInv, OthersAreClosed, Closed
  <2>2. ASSUME NEW p \in Proxies, AddProxy(id, p), id \notin DOMAIN localProxies
        PROVE  OthersAreClosed'
    <3>1. InMap' = InMap \cup {p}
      BY <2>2, AddProxyFact DEF CInv, MapIsClosedInOrder
    <3>2. QED
      BY <2>2, <3>1 DEF AddProxy, CInv, TypeOK, OthersAreClosed, Closed
  <2>3. QED
    BY <1>19, <2>1, <2>2 DEF RelayPacket, Found
<1>20. CASE ReadMessage
  BY <1>20, SameMap DEF ReadMessage, ReaderFrame, remoteVars, proxyVars,
     clientVars, CInv, OthersAreClosed, Closed, TypeOK
<1>21. ASSUME NEW p \in Proxies, WaitgroupAdd(p)
       PROVE  OthersAreClosed'
  BY <1>21, SameMap DEF WaitgroupAdd, ProxyMoves, remoteVars, readerVars,
     clientVars, CInv, OthersAreClosed, Closed, TypeOK
<1>22. ASSUME NEW p \in Proxies, CheckSignal(p)
       PROVE  OthersAreClosed'
  <2>1. InMap' = InMap
    BY <1>22, SameMap DEF CheckSignal, ProxyMoves
  <2>2. QED
    BY <1>22, <2>1 DEF CheckSignal, ProxyMoves, CInv, TypeOK, OthersAreClosed, Closed
<1>23. ASSUME NEW p \in Proxies, SendContainerToServer(p)
       PROVE  OthersAreClosed'
  BY <1>23, SameMap DEF SendContainerToServer, ProxyMoves, remoteVars,
     readerVars, clientVars, CInv, OthersAreClosed, Closed, TypeOK
<1>24. ASSUME NEW p \in Proxies, ReadFromUDP(p)
       PROVE  OthersAreClosed'
  BY <1>24, SameMap DEF ReadFromUDP, ProxyMoves, remoteVars, readerVars,
     clientVars, CInv, OthersAreClosed, Closed, TypeOK
<1>25. CASE Panic
  BY <1>25, PanicFact DEF CInv, Panic, OthersAreClosed
<1>26. CASE ConnectionLost
  BY <1>26, SameMap DEF ConnectionLost, CallFrame, proxyVars, clientVars,
     readerVars, CInv, OthersAreClosed, Closed, TypeOK
<1>27. CASE TokenExpires
  BY <1>27, SameMap DEF TokenExpires, CallFrame, remoteVars, proxyVars,
     readerVars, CInv, OthersAreClosed, Closed, TypeOK
<1>28. CASE RoleFound
  BY <1>28, SameMap DEF RoleFound, CallFrame, remoteVars, proxyVars,
     readerVars, CInv, OthersAreClosed, Closed, TypeOK
<1>29. CASE UNCHANGED vars
  BY <1>29, SameMap DEF vars, remoteVars, proxyVars, readerVars, clientVars,
     CInv, OthersAreClosed, Closed, TypeOK
<1>30. QED
  BY <1>1, <1>2, <1>3, <1>4, <1>5, <1>6, <1>7, <1>8, <1>9, <1>10, <1>11,
     <1>12, <1>13, <1>14, <1>15, <1>16, <1>17, <1>18, <1>19, <1>20, <1>21,
     <1>22, <1>23, <1>24, <1>25, <1>26, <1>27, <1>28, <1>29 DEF Next,
     MethodCall, MethodStep, ReaderStep, LockingStep, ProxyStep

\* A read finds its socket closed only when the channel is closed, too.
LEMMA FailedStep ==
  ASSUME CInv, [Next]_vars
  PROVE  ClosedReadMeansTold'
<1>1. CASE OnConnectedToServer
  BY <1>1 DEF OnConnectedToServer, Shows, proxyVars, readerVars, CInv,
     ClosedReadMeansTold, TypeOK
<1>2. CASE ConnectFails
  BY <1>2 DEF ConnectFails, CallFrame, remoteVars, proxyVars, clientVars,
     readerVars, CInv, ClosedReadMeansTold, TypeOK
<1>3. CASE OnDisconnectedFromServer
  BY <1>3 DEF OnDisconnectedFromServer, Lock, CallFrame, remoteVars,
     proxyVars, readerVars, CInv, ClosedReadMeansTold, TypeOK
<1>4. CASE WriteClose
  BY <1>4 DEF WriteClose, Return, CallFrame, proxyVars, clientVars,
     readerVars, CInv, ClosedReadMeansTold, TypeOK
<1>5. CASE OnBeginHosting
  BY <1>5 DEF OnBeginHosting, Shows, Lock, CallFrame, remoteVars, proxyVars,
     readerVars, CInv, ClosedReadMeansTold, TypeOK
<1>6. CASE OnStopHosting
  BY <1>6 DEF OnStopHosting, Shows, Lock, CallFrame, remoteVars, proxyVars,
     readerVars, CInv, ClosedReadMeansTold, TypeOK
<1>7. CASE OnBeginLinked
  <2>1. CASE UNCHANGED proxyVars
    BY <2>1 DEF proxyVars, CInv, ClosedReadMeansTold
  <2>2. ASSUME NEW p \in Proxies, AddProxy(0, p)
        PROVE  ClosedReadMeansTold'
    BY <2>2 DEF AddProxy, CInv, TypeOK, ClosedReadMeansTold
  <2>3. InMap = {} => 0 \notin DOMAIN localProxies
    BY DEF InMap, Range
  <2>4. QED
    BY <1>7, <2>1, <2>2, <2>3 DEF OnBeginLinked, proxyVars
<1>8. CASE OnStopLinked
  BY <1>8 DEF OnStopLinked, Lock, CallFrame, remoteVars, proxyVars,
     readerVars, CInv, ClosedReadMeansTold, TypeOK
<1>9. CASE SendSignal
  BY <1>9 DEF SendSignal, Return, CallFrame, proxyVars, clientVars,
     readerVars, CInv, ClosedReadMeansTold, TypeOK
<1>10. ASSUME NEW p \in Proxies, CloseProxy(p)
       PROVE  ClosedReadMeansTold'
  BY <1>10 DEF CloseProxy, CallFrame, remoteVars, clientVars, readerVars,
     CInv, ClosedReadMeansTold, TypeOK
<1>11. CASE RemoveProxies
  BY <1>11 DEF RemoveProxies, Return, CallFrame, remoteVars, clientVars,
     readerVars, CInv, ClosedReadMeansTold, TypeOK
<1>12. CASE ReceiveSignal
  BY <1>12 DEF ReceiveSignal, ReaderFrame, proxyVars, clientVars, CInv,
     ClosedReadMeansTold, TypeOK
<1>13. CASE ReadFails
  BY <1>13 DEF ReadFails, ReaderFrame, remoteVars, proxyVars, clientVars,
     CInv, ClosedReadMeansTold, TypeOK
<1>14. CASE CloseSignals
  BY <1>14 DEF CloseSignals, ReaderFrame, proxyVars, clientVars, CInv,
     ClosedReadMeansTold, TypeOK
<1>15. CASE ShutdownDone
  BY <1>15 DEF ShutdownDone, ReaderFrame, remoteVars, clientVars, CInv,
     ClosedReadMeansTold, TypeOK
<1>16. CASE ReaderExit
  BY <1>16 DEF ReaderExit, ReaderFrame, proxyVars, clientVars, CInv,
     ClosedReadMeansTold, TypeOK
<1>17. CASE ReaderGone
  BY <1>17 DEF ReaderGone, ReaderFrame, proxyVars, clientVars, CInv,
     ClosedReadMeansTold, TypeOK
<1>18. CASE OnRemoteDisconnected
  BY <1>18 DEF OnRemoteDisconnected, ReaderFrame, remoteVars, proxyVars,
     clientVars, CInv, ClosedReadMeansTold, TypeOK
<1>19. ASSUME NEW id \in Ids, RelayPacket(id)
       PROVE  ClosedReadMeansTold'
  <2>1. CASE UNCHANGED proxyVars
    BY <2>1 DEF proxyVars, CInv, ClosedReadMeansTold
  <2>2. ASSUME NEW p \in Proxies, AddProxy(id, p)
        PROVE  ClosedReadMeansTold'
    BY <2>2 DEF AddProxy, CInv, TypeOK, ClosedReadMeansTold
  <2>3. QED
    BY <1>19, <2>1, <2>2 DEF RelayPacket, Found
<1>20. CASE ReadMessage
  BY <1>20 DEF ReadMessage, ReaderFrame, remoteVars, proxyVars, clientVars,
     CInv, ClosedReadMeansTold, TypeOK
<1>21. ASSUME NEW p \in Proxies, WaitgroupAdd(p)
       PROVE  ClosedReadMeansTold'
  BY <1>21 DEF WaitgroupAdd, ProxyMoves, remoteVars, readerVars, clientVars,
     CInv, ClosedReadMeansTold, TypeOK
<1>22. ASSUME NEW p \in Proxies, CheckSignal(p)
       PROVE  ClosedReadMeansTold'
  <2>1. \A q \in Proxies : place'[q] = "shut" => place[q] = "shut"
    BY <1>22 DEF CheckSignal, ProxyMoves, CInv, TypeOK
  <2>2. QED
    BY <1>22, <2>1 DEF CheckSignal, ProxyMoves, CInv, ClosedReadMeansTold
<1>23. ASSUME NEW p \in Proxies, SendContainerToServer(p)
       PROVE  ClosedReadMeansTold'
  BY <1>23 DEF SendContainerToServer, ProxyMoves, remoteVars, readerVars,
     clientVars, CInv, ClosedReadMeansTold, TypeOK
<1>24. ASSUME NEW p \in Proxies, ReadFromUDP(p)
       PROVE  ClosedReadMeansTold'
  <2>1. p \notin sockets => p \in told
    BY <1>24 DEF ReadFromUDP, CInv, MapIsClosedInOrder, OthersAreClosed, Closed
  <2>2. \A q \in Proxies \ {p} : place'[q] = place[q]
    BY <1>24 DEF ReadFromUDP, ProxyMoves, CInv, TypeOK
  <2>3. place'[p] = "shut" => p \notin sockets
    BY <1>24 DEF ReadFromUDP, ProxyMoves, CInv, TypeOK
  <2>4. QED
    BY <1>24, <2>1, <2>2, <2>3 DEF ReadFromUDP, ProxyMoves, CInv, ClosedReadMeansTold
<1>25. CASE Panic
  BY <1>25, PanicFact DEF CInv, Panic, ClosedReadMeansTold
<1>26. CASE ConnectionLost
  BY <1>26 DEF ConnectionLost, CallFrame, proxyVars, clientVars, readerVars,
     CInv, ClosedReadMeansTold, TypeOK
<1>27. CASE TokenExpires
  BY <1>27 DEF TokenExpires, CallFrame, remoteVars, proxyVars, readerVars,
     CInv, ClosedReadMeansTold, TypeOK
<1>28. CASE RoleFound
  BY <1>28 DEF RoleFound, CallFrame, remoteVars, proxyVars, readerVars, CInv,
     ClosedReadMeansTold, TypeOK
<1>29. CASE UNCHANGED vars
  BY <1>29 DEF vars, remoteVars, proxyVars, readerVars, clientVars, CInv,
     ClosedReadMeansTold, TypeOK
<1>30. QED
  BY <1>1, <1>2, <1>3, <1>4, <1>5, <1>6, <1>7, <1>8, <1>9, <1>10, <1>11,
     <1>12, <1>13, <1>14, <1>15, <1>16, <1>17, <1>18, <1>19, <1>20, <1>21,
     <1>22, <1>23, <1>24, <1>25, <1>26, <1>27, <1>28, <1>29 DEF Next,
     MethodCall, MethodStep, ReaderStep, LockingStep, ProxyStep

\* Together they are inductive.
LEMMA CInvInductive == CInv /\ [Next]_vars => CInv'
  BY TypeStep, MutexStep, OneReaderStep, MapStep, OthersStep, FailedStep
  DEF CInv

\* The inductive invariant holds in every behaviour.
THEOREM InvariantHolds == Spec => []CInv
  BY InitCInv, CInvInductive, PTL DEF Spec

-----------------------------------------------------------------------------
(* The theorems. *)

\* Every variable keeps its type (TypeOK); the signal channel never holds more
\* than the one signal it has room for.
THEOREM TypeCorrect == Spec => []TypeOK
<1>1. CInv => TypeOK
  BY DEF CInv
<1>2. QED
  BY <1>1, InvariantHolds, PTL

\* There is a reader exactly as long as there is a connection (relay.go:199,
\* 304), and it is the reader that is about to end that has closed it: however
\* often the client connects, no second reader is started.
THEOREM OneReader == Spec => []ReaderOwnsConnection
<1>1. CInv => ReaderOwnsConnection
  BY DEF CInv
<1>2. QED
  BY <1>1, InvariantHolds, PTL

\* Whenever the mutex is free, the map holds the proxies that have not been
\* told to stop, each once, and every other has given up its port.
THEOREM MapHoldsTheRunning == Spec => []MapIsWhoRuns
<1>1. CInv => MapIsWhoRuns
  <2> SUFFICES ASSUME CInv, mutex = "free"
               PROVE  /\ IsInjective(localProxies)
                      /\ InMap \cap told = {}
                      /\ InMap \subseteq sockets
                      /\ \A p \in Proxies \ InMap : place[p] # "none" => Closed({p})
    BY DEF MapIsWhoRuns
  <2>1. BeingClosed = {}
    BY DEF CInv, MutexHeld, BeingClosed, Closing
  <2>2. QED
    BY <2>1 DEF CInv, MapIsClosedInOrder, OthersAreClosed
<1>2. QED
  BY <1>1, InvariantHolds, PTL

\* A goroutine that finds its socket closed finds its channel closed after it,
\* and ends (relay.go:130): the panic at line 142 is left to a read that fails
\* while the socket is open.
THEOREM ClosedReadsAreTold == Spec => []ClosedReadMeansTold
<1>1. CInv => ClosedReadMeansTold
  BY DEF CInv
<1>2. QED
  BY <1>1, InvariantHolds, PTL

\* The reader, ending with the mutex held, waits only for goroutines whose
\* channel and port are closed (relay.go:176, 183): none waits for the game.
THEOREM WaitIsForTheClosed == Spec => []WaitsForClosedOnly
<1>1. CInv => WaitsForClosedOnly
  <2> SUFFICES ASSUME CInv, reader = "wait", NEW p \in Counted
               PROVE  p \in told /\ p \notin sockets
    BY DEF WaitsForClosedOnly
  <2>1. p \in Proxies /\ place[p] # "none"
    BY DEF Counted
  <2>2. CASE p \in InMap
    BY <2>2 DEF CInv, MapIsClosedInOrder, Closed
  <2>3. CASE p \notin InMap
    BY <2>1, <2>3 DEF CInv, OthersAreClosed, Closed
  <2>4. QED
    BY <2>2, <2>3
<1>2. QED
  BY <1>1, InvariantHolds, PTL
=============================================================================

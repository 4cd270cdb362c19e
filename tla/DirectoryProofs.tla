--------------------------- MODULE DirectoryProofs ---------------------------
(***************************************************************************)
(* Proof that Matchmaker implements LobbyDirectory, for any names, token   *)
(* life and bounds.  Each handler, each sweep and a restart map to one     *)
(* step of the directory or to none, given that in MInv's states a lobby   *)
(* and its host name each other and a username names one session.          *)
(***************************************************************************)
EXTENDS MatchmakerProofs

\* Two sessions with the same username are the same session.
LEMMA SameUser ==
  ASSUME MInv, NEW u \in DOMAIN users, NEW v \in DOMAIN users,
         users[u].Username = users[v].Username
  PROVE  u = v
BY DEF MInv, UniqueUsernames

\* The host of an open lobby.
LEMMA HostFact ==
  ASSUME MInv, NEW l \in DOMAIN lobbies
  PROVE  /\ lobbies[l].HostUserID \in DOMAIN users
         /\ users[lobbies[l].HostUserID].Hosting = l
         /\ l \in Nat \ {0}
         /\ OpenBy[l] = users[lobbies[l].HostUserID].Username
BY DEF MInv, LobbiesAndHostsAgree, TypeOK, OpenBy

\* The lobbies of some sessions, by their usernames, are those they host.
LEMMA LobbiesOfNames ==
  ASSUME MInv, NEW S, S \subseteq DOMAIN users
  PROVE  Directory!LobbiesOf({users[u].Username : u \in S})
           = DOMAIN lobbies \cap {users[u].Hosting : u \in S}
<1>1. DOMAIN OpenBy = DOMAIN lobbies
  BY DEF OpenBy
<1>2. ASSUME NEW l \in DOMAIN lobbies
      PROVE  OpenBy[l] \in {users[u].Username : u \in S}
               <=> l \in {users[u].Hosting : u \in S}
  <2>1. OpenBy[l] \in {users[u].Username : u \in S}
          => lobbies[l].HostUserID \in S
    BY HostFact, SameUser
  <2>2. ASSUME NEW u \in S, l = users[u].Hosting
        PROVE  lobbies[l].HostUserID = u
    BY <2>2, HostFact DEF MInv, LobbiesAndHostsAgree
  <2>3. QED
    BY <2>1, <2>2, HostFact
<1>3. QED
  BY <1>1, <1>2 DEF Directory!LobbiesOf

\* A step that keeps names, lobbies and the counter does not show.
LEMMA Unseen ==
  ASSUME MInv, UNCHANGED <<lobbies, lobbyIdCounter>>,
         DOMAIN users' = DOMAIN users,
         \A u \in DOMAIN users : users'[u].Username = users[u].Username
  PROVE  UNCHANGED Directory!vars
<1>1. Present' = Present /\ Issued' = Issued
  BY DEF Present, Issued
<1>2. OpenBy' = OpenBy
  BY HostFact DEF OpenBy
<1>3. QED
  BY <1>1, <1>2 DEF Directory!vars

\* When sessions S and no others go, and with them the lobbies that they and
\* no others host, people depart.
LEMMA Departure ==
  ASSUME MInv, NEW S, S \subseteq DOMAIN users,
         DOMAIN users' = DOMAIN users \ S,
         \A u \in DOMAIN users' : users'[u].Username = users[u].Username,
         DOMAIN lobbies' = DOMAIN lobbies \ {users[u].Hosting : u \in S},
         \A l \in DOMAIN lobbies' : lobbies'[l] = lobbies[l],
         UNCHANGED lobbyIdCounter
  PROVE  Directory!Next
<1> DEFINE N == {users[u].Username : u \in S}
<1>1. N \in SUBSET Usernames
  BY DEF MInv, TypeOK, User
<1>2. Present' = Present \ N
  BY SameUser DEF Present
<1>3. Directory!LobbiesOf(N) = DOMAIN lobbies \cap {users[u].Hosting : u \in S}
  BY LobbiesOfNames
<1>4. DOMAIN OpenBy \ Directory!LobbiesOf(N) = DOMAIN lobbies'
  BY <1>3 DEF OpenBy
<1>5. \A l \in DOMAIN lobbies' : lobbies[l].HostUserID \in DOMAIN users'
  BY HostFact
<1>6. OpenBy' = [l \in DOMAIN lobbies' |-> OpenBy[l]]
  BY <1>5 DEF OpenBy
<1>7. Directory!Close(Directory!LobbiesOf(N))
  BY <1>4, <1>6 DEF Directory!Close, Directory!Restrict, Restrict
<1>8. Issued' = Issued
  BY DEF Issued
<1>9. Directory!Depart(N)
  BY <1>2, <1>7, <1>8 DEF Directory!Depart
<1>10. QED
  BY <1>1, <1>9 DEF Directory!Next

-----------------------------------------------------------------------------
(* Each action. *)

LEMMA InitMapped == Init => Directory!Init
<1> SUFFICES ASSUME Init PROVE Directory!Init
  OBVIOUS
<1>1. Present = {} /\ Issued = {}
  BY DEF Init, Present, Issued
<1>2. OpenBy = <<>>
  BY DEF Init, OpenBy
<1>3. QED
  BY <1>1, <1>2 DEF Directory!Init

LEMMA LoginMapped ==
  ASSUME MInv, NEW n \in Usernames, HandleLogin(n)
  PROVE  Directory!Next
<1>1. /\ \A u \in DOMAIN users : users[u].Username # n
      /\ UNCHANGED <<lobbies, lobbyIdCounter>>
  BY DEF HandleLogin, LoginStatus, Created, Conflict, BadRequest
<1>2. userIdCounter \notin DOMAIN users
  BY DEF MInv, TypeOK
<1>3. /\ DOMAIN users' = DOMAIN users \cup {userIdCounter}
      /\ users'[userIdCounter].Username = n
      /\ \A u \in DOMAIN users : users'[u] = users[u]
  BY <1>2 DEF HandleLogin, NewUserId, Assign
<1>4. n \notin Present /\ Present' = Present \cup {n}
  BY <1>1, <1>3 DEF Present
<1>5. OpenBy' = OpenBy /\ Issued' = Issued
  BY <1>1, <1>3, HostFact DEF OpenBy, Issued
<1>6. Directory!Arrive(n)
  BY <1>4, <1>5 DEF Directory!Arrive
<1>7. QED
  BY <1>6 DEF Directory!Next

LEMMA LogoutMapped ==
  ASSUME MInv, NEW t \in tokens, HandleLogout(t)
  PROVE  Directory!Next
<1> DEFINE uid == t.uid
           lid == users[uid].Hosting
<1>1. uid \in DOMAIN users /\ lid \in Nat
  BY AuthFact DEF MInv, HandleLogout
<1>2. /\ DOMAIN users' = DOMAIN users \ {uid}
      /\ \A u \in DOMAIN users' : users'[u].Username = users[u].Username
  <2>1. /\ DOMAIN GuestsReleased(lid) = DOMAIN users
        /\ \A u \in DOMAIN users :
             GuestsReleased(lid)[u].Username = users[u].Username
    BY DEF GuestsReleased, MInv, TypeOK, User
  <2>2. users' = Delete(users, {uid}) \/ users' = Delete(GuestsReleased(lid), {uid})
    BY DEF HandleLogout
  <2>3. QED
    BY <2>1, <2>2 DEF Delete, Restrict
<1>3. /\ DOMAIN lobbies' = DOMAIN lobbies \ {lid}
      /\ \A l \in DOMAIN lobbies' : lobbies'[l] = lobbies[l]
  <2>1. CASE lid = 0
    BY <2>1 DEF HandleLogout, MInv, TypeOK
  <2>2. CASE lid > 0
    BY <2>2 DEF HandleLogout, Delete, Restrict
  <2>3. QED
    BY <1>1, <2>1, <2>2
<1>4. UNCHANGED lobbyIdCounter
  BY DEF HandleLogout
<1>5. {users[u].Hosting : u \in {uid}} = {lid}
  OBVIOUS
<1>6. QED
  BY <1>1, <1>2, <1>3, <1>4, <1>5, Departure

LEMMA HostMapped ==
  ASSUME MInv, NEW t \in tokens, NEW name \in LobbyNames,
         NEW password \in BOOLEAN, HandleUpdateHostStatus(t, name, password)
  PROVE  Directory!Next
<1> DEFINE uid == t.uid
           p == users[uid].Username
           l == lobbyIdCounter
<1>1. AuthStatus(t) = OK /\ ~HostConflict(users[uid])
  BY DEF HandleUpdateHostStatus, HostStatus, AuthStatus, OK, NoContent,
     Conflict, BadRequest, Forbidden, NotFound
<1>2. /\ uid \in DOMAIN users /\ p \in Usernames
      /\ users[uid].Hosting = 0
  BY <1>1, AuthFact DEF MInv, HostConflict
<1>3. l \in Nat \ {0} /\ l <= MaxLobbies /\ l \notin DOMAIN lobbies
  BY DEF HandleUpdateHostStatus, MInv, TypeOK
<1>4. /\ DOMAIN lobbies' = DOMAIN lobbies \cup {l}
      /\ lobbies'[l].HostUserID = uid
      /\ \A k \in DOMAIN lobbies : lobbies'[k] = lobbies[k]
      /\ lobbyIdCounter' = l + 1
  BY <1>3 DEF HandleUpdateHostStatus, Assign, NewLobbyId
<1>5. /\ DOMAIN users' = DOMAIN users
      /\ \A u \in DOMAIN users : users'[u].Username = users[u].Username
  BY DEF HandleUpdateHostStatus, MInv, TypeOK, User
<1>6. Present' = Present /\ p \in Present
  BY <1>2, <1>5 DEF Present
<1>7. p \notin Directory!Hosts
  <2>1. ASSUME NEW k \in DOMAIN lobbies PROVE OpenBy[k] # p
    <3>1. users[lobbies[k].HostUserID].Hosting > 0
      BY HostFact
    <3>2. QED
      BY <1>2, <3>1, HostFact, SameUser
  <2>2. QED
    BY <2>1 DEF Directory!Hosts, OpenBy
<1>8. l \notin Issued /\ Issued' = Issued \cup {l} /\ l \in 1..MaxLobbies
  BY <1>3, <1>4, ConstantsAssumption DEF Issued, ConstantsAssumption
<1>9. OpenBy' = [k \in DOMAIN OpenBy \cup {l} |-> IF k = l THEN p ELSE OpenBy[k]]
  BY <1>2, <1>3, <1>4, <1>5, HostFact DEF OpenBy
<1>10. Directory!OpenLobby(p, l)
  BY <1>6, <1>7, <1>8, <1>9 DEF Directory!OpenLobby
<1>11. QED
  BY <1>2, <1>8, <1>10 DEF Directory!Next

LEMMA StopHostMapped ==
  ASSUME MInv, NEW t \in tokens, HandleDeleteHostStatus(t)
  PROVE  Directory!Next
<1> DEFINE uid == t.uid
           p == users[uid].Username
           lid == users[uid].Hosting
<1>1. AuthStatus(t) = OK /\ ~(lid < 1)
  BY DEF HandleDeleteHostStatus, StopHostStatus, AuthStatus, OK, NoContent,
     Forbidden, NotFound
<1>2. uid \in DOMAIN users /\ p \in Usernames /\ lid \in Nat
  BY <1>1, AuthFact DEF MInv
<1>3. lid \in DOMAIN lobbies /\ OpenBy[lid] = p
  BY <1>1, <1>2, HostFact DEF MInv, LobbiesAndHostsAgree
<1>4. /\ DOMAIN lobbies' = DOMAIN lobbies \ {lid}
      /\ \A l \in DOMAIN lobbies' : lobbies'[l] = lobbies[l]
      /\ UNCHANGED lobbyIdCounter
  BY DEF HandleDeleteHostStatus, Delete, Restrict
<1>5. /\ DOMAIN users' = DOMAIN users
      /\ \A u \in DOMAIN users : users'[u].Username = users[u].Username
  BY DEF HandleDeleteHostStatus, MInv, TypeOK, User
<1>6. Directory!LobbiesOf({p}) = {lid}
  <2> DEFINE S == {uid}
  <2>1. Directory!LobbiesOf({users[u].Username : u \in S})
          = DOMAIN lobbies \cap {users[u].Hosting : u \in S}
    BY <1>2, LobbiesOfNames
  <2>2. {users[u].Username : u \in S} = {p} /\ {users[u].Hosting : u \in S} = {lid}
    OBVIOUS
  <2>3. DOMAIN lobbies \cap {lid} = {lid}
    BY <1>3
  <2>4. QED
    BY <2>1, <2>2, <2>3
<1>7. OpenBy' = [l \in DOMAIN lobbies' |-> OpenBy[l]]
  BY <1>4, <1>5, HostFact DEF OpenBy
<1>8. DOMAIN OpenBy \ {lid} = DOMAIN lobbies'
  BY <1>4 DEF OpenBy
<1>9. Directory!Close(Directory!LobbiesOf({p}))
  BY <1>6, <1>7, <1>8 DEF Directory!Close, Directory!Restrict, Restrict
<1>10. p \in Directory!Hosts
  BY <1>3 DEF Directory!Hosts, OpenBy
<1>11. Present' = Present /\ Issued' = Issued
  BY <1>4, <1>5 DEF Present, Issued
<1>12. Directory!CloseLobby(p)
  BY <1>9, <1>10, <1>11 DEF Directory!CloseLobby
<1>13. QED
  BY <1>2, <1>12 DEF Directory!Next

LEMMA SweepMapped ==
  ASSUME MInv, FindExpiredUserSessions
  PROVE  Directory!Next
<1>1. Swept \subseteq DOMAIN users
  BY DEF Swept
<1>2. /\ DOMAIN users' = DOMAIN users \ Swept
      /\ \A u \in DOMAIN users' : users'[u] = users[u]
  BY DEF FindExpiredUserSessions, Delete, Restrict
<1>3. /\ DOMAIN lobbies' = DOMAIN lobbies \ {users[u].Hosting : u \in Swept}
      /\ \A l \in DOMAIN lobbies' : lobbies'[l] = lobbies[l]
      /\ UNCHANGED lobbyIdCounter
  BY DEF FindExpiredUserSessions, Delete, Restrict, LobbiesHostedBy
<1> HIDE DEF Swept
<1>4. QED
  BY <1>1, <1>2, <1>3, Departure

LEMMA RestartMapped ==
  ASSUME Restart
  PROVE  Directory!Next
<1>1. Present' = {} /\ Issued' = {}
  BY DEF Restart, Present, Issued
<1>2. OpenBy' = <<>>
  BY DEF Restart, OpenBy
<1>3. QED
  BY <1>1, <1>2 DEF Directory!Next, Directory!StartAfresh

\* Every step of the server is one of the directory or none.
LEMMA StepMapped ==
  ASSUME MInv, [Next]_vars
  PROVE  [Directory!Next]_(Directory!vars)
<1>1. ASSUME NEW n \in Usernames, HandleLogin(n) PROVE Directory!Next
  BY <1>1, LoginMapped
<1>2. ASSUME NEW t \in tokens, HandleLogout(t) PROVE Directory!Next
  BY <1>2, LogoutMapped
<1>3. ASSUME NEW t \in tokens, HandleRenew(t) PROVE UNCHANGED Directory!vars
  BY <1>3, Unseen DEF HandleRenew, Renewed, MInv, TypeOK, User
<1>4. ASSUME NEW t \in tokens, HandleCheckin(t) PROVE UNCHANGED Directory!vars
  BY <1>4, Unseen DEF HandleCheckin, vars
<1>5. ASSUME NEW t \in tokens, NEW name \in LobbyNames,
             NEW password \in BOOLEAN,
             HandleUpdateHostStatus(t, name, password)
      PROVE  Directory!Next
  BY <1>5, HostMapped
<1>6. ASSUME NEW t \in tokens, HandleDeleteHostStatus(t) PROVE Directory!Next
  BY <1>6, StopHostMapped
<1>7. ASSUME NEW t \in tokens, NEW l \in 0..MaxLobbies,
             HandleUpdateLinkStatus(t, l)
      PROVE  UNCHANGED Directory!vars
  BY <1>7, Unseen DEF HandleUpdateLinkStatus, MInv, TypeOK, User
<1>8. CASE FindExpiredUserSessions
  BY <1>8, SweepMapped
<1>9. ASSUME Tick PROVE UNCHANGED Directory!vars
  BY <1>9, Unseen DEF Tick
<1>10. CASE Restart
  BY <1>10, RestartMapped
<1>11. ASSUME UNCHANGED vars PROVE UNCHANGED Directory!vars
  BY <1>11, Unseen DEF vars
<1>12. QED
  BY <1>1, <1>2, <1>3, <1>4, <1>5, <1>6, <1>7, <1>8, <1>9, <1>10, <1>11
  DEF Next

\* The control server keeps the promise of the lobby directory: at most one
\* open lobby a person, closed with its host at the latest, and no number
\* given twice between restarts.
THEOREM ServerImplementsDirectory == Spec => ImplementsDirectory
<1>1. Init => Directory!Init
  BY InitMapped
<1>2. MInv /\ [Next]_vars => [Directory!Next]_(Directory!vars)
  BY StepMapped
<1>3. QED
  BY <1>1, <1>2, Invariance, PTL DEF Spec, ImplementsDirectory, Directory!Spec
=============================================================================

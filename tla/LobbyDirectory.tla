--------------------------- MODULE LobbyDirectory ---------------------------
(***************************************************************************)
(* What the control server promises its clients, without tokens, ids of    *)
(* users, time or the relay: people come and go, a person who is present   *)
(* may keep one lobby open, a lobby closes with its host at the latest,    *)
(* and a lobby's number is never given to another lobby, until the server  *)
(* is started afresh.  Matchmaker implements this (see MCMatchmaker).      *)
(***************************************************************************)
EXTENDS Functions

CONSTANTS
  People,   \* who may log in
  Numbers   \* the numbers a lobby may be given

VARIABLES
  present,  \* the people who are logged in
  openBy,   \* lobby number -> its host, for the open lobbies
  issued    \* the numbers that have been given to lobbies

vars == <<present, openBy, issued>>

Hosts == {openBy[l] : l \in DOMAIN openBy}

LobbiesOf(S) == {l \in DOMAIN openBy : openBy[l] \in S}

Close(ls) == openBy' = Restrict(openBy, DOMAIN openBy \ ls)

Init ==
  /\ present = {}
  /\ openBy = <<>>
  /\ issued = {}

Arrive(p) ==
  /\ p \notin present
  /\ present' = present \cup {p}
  /\ UNCHANGED <<openBy, issued>>

\* Some people leave, by their own will or not; their lobbies close.
Depart(S) ==
  /\ present' = present \ S
  /\ Close(LobbiesOf(S))
  /\ UNCHANGED issued

OpenLobby(p, l) ==
  /\ p \in present \ Hosts
  /\ l \notin issued
  /\ openBy' = [k \in DOMAIN openBy \cup {l} |-> IF k = l THEN p ELSE openBy[k]]
  /\ issued' = issued \cup {l}
  /\ UNCHANGED present

CloseLobby(p) ==
  /\ p \in Hosts
  /\ Close(LobbiesOf({p}))
  /\ UNCHANGED <<present, issued>>

StartAfresh ==
  /\ present' = {}
  /\ openBy' = <<>>
  /\ issued' = {}

Next ==
  \/ \E p \in People : Arrive(p) \/ CloseLobby(p)
  \/ \E S \in SUBSET People : Depart(S)
  \/ \E p \in People, l \in Numbers : OpenLobby(p, l)
  \/ StartAfresh

Spec == Init /\ [][Next]_vars
=============================================================================

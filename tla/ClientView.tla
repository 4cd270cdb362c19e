----------------------------- MODULE ClientView -----------------------------
(***************************************************************************)
(* What the client is to its user and to its relay, whatever goroutines,   *)
(* locks and requests it is made of: it is connected or not; it shows a    *)
(* role, that of its last checkin or command; it has told its relay one;   *)
(* and a command goes by the role shown when its status was taken, which   *)
(* later checkins may have changed.  RestClient and Session, which model   *)
(* the same code at two grains, both implement it.                         *)
(***************************************************************************)
EXTENDS Naturals

CONSTANT Lobbies  \* numbers of lobbies

VARIABLES
  connected,
  hosting, link,  \* the role shown; link is 0 or a lobby
  role,           \* what the relay was last told
  status          \* the role that the command under way goes by, or "none"

vars == <<connected, hosting, link, role, status>>

Seen(h, l) == IF l > 0 THEN "linked" ELSE IF h THEN "hosting" ELSE "idle"

Init ==
  /\ connected = FALSE
  /\ hosting = FALSE /\ link = 0
  /\ role = "idle"
  /\ status = "none"

Connect ==
  /\ ~connected /\ connected' = TRUE
  /\ status = "none"
  /\ UNCHANGED <<hosting, link, role, status>>

\* By a logout, a failed checkin or an expired token; the role is still shown.
Disconnect ==
  /\ connected /\ connected' = FALSE
  /\ status' \in {status, "none"}
  /\ UNCHANGED <<hosting, link, role>>

GetStatus ==
  /\ connected /\ status = "none"
  /\ status' = Seen(hosting, link)
  /\ UNCHANGED <<connected, hosting, link, role>>

CommandFails ==
  /\ status # "none" /\ status' = "none"
  /\ UNCHANGED <<connected, hosting, link, role>>

\* The relay is told of a role exactly when the client comes to show it.
Command(seen, told) ==
  /\ connected
  /\ status = seen /\ status' = "none"
  /\ role' = told
  /\ UNCHANGED connected

Host     == Command("idle", "hosting") /\ hosting' = TRUE /\ UNCHANGED link
StopHost == Command("hosting", "idle") /\ hosting' = FALSE /\ UNCHANGED link
Link(l)  == Command("idle", "linked") /\ link' = l /\ UNCHANGED hosting
Unlink   == Command("linked", "idle") /\ link' = 0 /\ UNCHANGED hosting

\* A checkin; its relay only learns of a link that is gone.
Checkin(h, l) ==
  /\ connected
  /\ hosting' = h /\ link' = l
  /\ role' = IF link > 0 /\ l = 0 THEN "idle" ELSE role
  /\ UNCHANGED <<connected, status>>

Next ==
  \/ Connect \/ Disconnect \/ GetStatus \/ CommandFails
  \/ Host \/ StopHost \/ Unlink \/ \E l \in Lobbies : Link(l)
  \/ \E h \in BOOLEAN, l \in Lobbies \cup {0} : Checkin(h, l)

Spec == Init /\ [][Next]_vars
=============================================================================

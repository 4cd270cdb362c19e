----------------------------- MODULE MCSession -----------------------------
(* Values for Session. *)
EXTENDS Session

CONSTANTS alice, bob, lobby, blank

MCUsernames == {alice, bob}

MCLobbyNames == {lobby}
=============================================================================

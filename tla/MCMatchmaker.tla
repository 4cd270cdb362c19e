---------------------------- MODULE MCMatchmaker ----------------------------
(* Small instances of Matchmaker for TLC. *)
EXTENDS Matchmaker, TLC

CONSTANTS alice, bob, lobby, blank

MCUsernames == {alice, bob}
MCLobbyNames == {lobby}

\* The handlers only compare usernames.
NamesSymmetry == Permutations(MCUsernames)
=============================================================================

---------------------------- MODULE MCRestClient ----------------------------
(* A small instance of RestClient for TLC. *)
EXTENDS RestClient

MCLobbyIds == {1, 2}
MCOneLobby == {1}
=============================================================================

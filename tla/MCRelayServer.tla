--------------------------- MODULE MCRelayServer ---------------------------
(* Values for RelayServer. *)
EXTENDS RelayServer

CONSTANTS c1, c2

MCClients == {c1, c2}

MCUsers == {0, 1}
=============================================================================

--------------------------- MODULE MCClientRelay ---------------------------
(* Values for ClientRelay. *)
EXTENDS ClientRelay, TLC

CONSTANTS p1, p2

MCProxies == {p1, p2}

MCIds == {0, 1}

ProxySymmetry == Permutations(MCProxies)
=============================================================================

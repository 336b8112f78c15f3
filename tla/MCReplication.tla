--------------------------- MODULE MCReplication ---------------------------
(* TLC instance of Replication. *)
EXTENDS Replication, TLC

CONSTANTS k1, k2, k3

MCConns == {k1, k2, k3}
MCSymmetry == Permutations(MCConns)
=============================================================================

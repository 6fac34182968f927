--------------------------- MODULE MCConnections ---------------------------
(* Connections for TLC.  Addresses are only compared with each other, so   *)
(* they can be permuted.                                                   *)
EXTENDS Connections

Symmetry == Permutations(Address)
=============================================================================

------------------------------ MODULE MCServer ------------------------------
(* Server for TLC.  The clients can be permuted, NoAddress is not one.     *)
EXTENDS Server

Symmetry == Permutations(Address \ {NoAddress})
=============================================================================

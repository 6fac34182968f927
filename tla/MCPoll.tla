------------------------------- MODULE MCPoll -------------------------------
(* Poll for TLC.  The descriptors can be permuted.                         *)
EXTENDS Poll, TLC

Symmetry == Permutations(Descriptor)
=============================================================================

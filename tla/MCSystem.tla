------------------------------ MODULE MCSystem ------------------------------
(* System for TLC: clients are started properly, for another port, or with *)
(* a timestamp that is too large, wraps around to a proper one, has a zero *)
(* in front or is no number, a bad character or too few arguments; a file  *)
(* that is empty, one that fits in a datagram, and one that does not;      *)
(* others send a datagram of each kind that the code tells apart.          *)
EXTENDS System, TLC

CONSTANT letter

MCFile == {<<>>, <<letter>>, <<letter, letter>>}

MCArguments ==
  {<<string, <<letter>>, <<letter>>>> :
     string \in {<<0>>, <<1>>, <<1, 0>>, <<Minus, 1, 1>>, <<0, 1>>, <<letter>>}}
  \cup
  {<<<<1>>, <<letter>>, <<letter>>, <<1>>>>,
   <<<<1>>, <<letter>>, <<letter>>, <<1, 0>>>>,
   <<<<1>>, <<>>, <<letter>>>>,
   <<<<1>>, <<letter>>>>}

MCMaxDatagram == message_offset + 2

MCDatagram ==
  {Short,
   [timestamp |-> MAX_TIMESTAMP, data |-> <<>>],
   [timestamp |-> MAX_TIMESTAMP + 1, data |-> <<NUL>>],
   [timestamp |-> MAX_TIMESTAMP, data |-> <<NUL, letter>>],
   [timestamp |-> 0, data |-> <<letter, NUL>>]}

Symmetry == Permutations(Client)
=============================================================================

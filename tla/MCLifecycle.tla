---------------------------- MODULE MCLifecycle ----------------------------
(* Lifecycle for TLC: binary numbers of up to four digits, signs and a     *)
(* letter; a file that is empty, one that takes more than one read, and    *)
(* one with a NUL.                                                         *)
EXTENDS Lifecycle

CONSTANT letter

MCString == SeqOf(Digit \cup {Minus, Plus, letter}, 4)

MCArguments ==
  {<<>>, <<<<1>>>>, <<<<1>>, <<letter>>, <<letter>>>>} \cup
  {<<input, <<letter>>>> : input \in MCString}

MCByte == {letter, NUL}

MCDisk ==
  {<<>>, <<letter, letter, letter>>, <<letter, NUL, letter>>}
=============================================================================

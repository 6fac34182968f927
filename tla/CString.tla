------------------------------ MODULE CString ------------------------------
(***************************************************************************)
(* Bytes that C++ takes for a string: a pointer to characters is converted *)
(* to, or appended to, a std::string up to the first NUL.                  *)
(***************************************************************************)
EXTENDS Naturals, Sequences, SequencesExt

CONSTANT NUL

(* Bug for the checks: the data is taken with its NULs. *)
c_str_whole(data) == data

(* The characters of data before its first NUL. *)
c_str(data) ==
  IF NUL \in ToSet(data)
  THEN SubSeq(data, 1, SelectInSeq(data, LAMBDA char : char = NUL) - 1)
  ELSE data
=============================================================================

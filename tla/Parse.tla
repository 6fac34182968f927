------------------------------- MODULE Parse -------------------------------
(***************************************************************************)
(* The arguments of the programs: parse.h.  A string is a sequence of      *)
(* digits, of the signs Minus and Plus, and of other characters.  The      *)
(* numbers of the code are decimal and have 16 bits, for a port, or 64,    *)
(* for a timestamp; here the base and the sizes are parameters.            *)
(***************************************************************************)
EXTENDS Naturals, Sequences, SequencesExt

CONSTANTS Base, Minus, Plus,
          Bad,          (* what is no number: ParseException               *)
          PortSize      (* the number of values of a uint16_t              *)

ASSUME ParseAssumption ==
  /\ Base \in Nat \ {0, 1}
  /\ {Minus, Plus, Bad} \cap Nat = {}
  /\ PortSize \in Nat \ {0}

Digit == 0 .. Base - 1

Magnitude(digits) ==
  FoldLeft(LAMBDA value, digit : value * Base + digit, 0, digits)

(* boost::lexical_cast of a string to an unsigned integer of size values:  *)
(* leading zeros and a sign are taken, and a minus wraps around zero.      *)
lexical_cast(input, size) ==
  LET signed == input # <<>> /\ Head(input) \in {Minus, Plus}
      digits == IF signed THEN Tail(input) ELSE input
      value  == Magnitude(digits)
  IN  IF \/ digits = <<>>
         \/ ~ ToSet(digits) \subseteq Digit
         \/ value \notin 0 .. size - 1
      THEN Bad
      ELSE IF signed /\ Head(input) = Minus THEN (size - value) % size
                                            ELSE value

(* boost::lexical_cast of an unsigned integer to a string. *)
Numeral(number) ==
  LET numeral[n \in Nat] ==
        IF n < Base THEN <<n>> ELSE Append(numeral[n \div Base], n % Base)
  IN  numeral[number]

(* Bug for the checks: the number is not compared with the string. *)
parse_number_any(input, size) == lexical_cast(input, size)

(* The number, if it is written as the string says it. *)
parse_number(input, size) ==
  LET number == lexical_cast(input, size)
  IN  IF number # Bad /\ Numeral(number) = input THEN number ELSE Bad

parse_port(input) ==
  LET port == parse_number(input, PortSize)
  IN  IF port \in {Bad, 0} THEN Bad ELSE port

parse_character(input) == IF Len(input) = 1 THEN input[1] ELSE Bad
=============================================================================

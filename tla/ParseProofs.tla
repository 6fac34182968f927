----------------------------- MODULE ParseProofs -----------------------------
(***************************************************************************)
(* What parse_number accepts, for every base, size and string: the strings *)
(* of digits without a zero in front whose number is in range, and nothing *)
(* else, and it returns their number.  A sign, a leading zero, or a number *)
(* that wraps around passes lexical_cast, but not the comparison of the    *)
(* string with the numeral of the number.                                  *)
(*                                                                         *)
(* Numeral and Magnitude are recursive.  That their recursions define      *)
(* something, and what, is proved by induction over a set of numbers: the  *)
(* principle is Induction below, which rests on < being well founded.      *)
(***************************************************************************)
EXTENDS Parse, Integers, SequenceTheorems, WellFoundedInduction, TLAPS

-----------------------------------------------------------------------------
(* Numbers.                                                                *)

(* A set of naturals that is not empty has a least one.                    *)
LEMMA Least ==
  ASSUME NEW T, T \subseteq Nat, T # {}
  PROVE  \E n \in T : \A m \in T : n <= m
<1> DEFINE R == {p \in Nat \X Nat : p[1] < p[2]}
<1>1. IsWellFoundedOn(R, Nat)
  BY NatLessThanWellFounded DEF OpToRel
<1>2. ASSUME NEW m \in Nat, NEW n \in Nat, m < n PROVE <<m, n>> \in R
  <2>1. <<m, n>> \in Nat \X Nat
    OBVIOUS
  <2>2. <<m, n>>[1] < <<m, n>>[2]
    BY <1>2
  <2> QED
    BY <2>1, <2>2, Zenon
<1> HIDE DEF R
<1>3. PICK n \in T : \A m \in T : ~ (<<m, n>> \in R)
  BY <1>1, WFMin
<1>4. ASSUME NEW m \in T PROVE n <= m
  <2>1. m \in Nat /\ n \in Nat
    OBVIOUS
  <2>2. ~ m < n
    BY <1>2, <1>3, <2>1
  <2> QED
    BY <2>1, <2>2
<1> QED
  BY <1>4

(* Induction over the naturals, for a set.                                 *)
LEMMA Induction ==
  ASSUME NEW S, 0 \in S, \A n \in Nat : n \in S => n + 1 \in S
  PROVE  \A n \in Nat : n \in S
<1> DEFINE T == {n \in Nat : n \notin S}
<1> SUFFICES ASSUME T # {} PROVE FALSE
  OBVIOUS
<1>1. T \subseteq Nat
  OBVIOUS
<1> HIDE DEF T
<1>2. PICK n \in T : \A m \in T : n <= m
  BY <1>1, Least
<1>3. n \in Nat /\ n # 0
  BY <1>1 DEF T
<1>4. n - 1 \in Nat /\ n - 1 \notin T
  BY <1>2, <1>3
<1> QED
  BY <1>3, <1>4 DEF T

(* Multiplication by the base keeps the order.                             *)
LEMMA TimesBase ==
  ASSUME NEW p \in Nat, NEW q \in Nat, p < q
  PROVE  p * Base + Base <= q * Base
<1>1. Base \in Nat
  BY ParseAssumption
<1>2. PICK r \in Nat : q = p + 1 + r
  <2>1. q - p - 1 \in Nat /\ q = p + 1 + (q - p - 1)
    OBVIOUS
  <2> QED
    BY <2>1
<1>3. q * Base = p * Base + Base + r * Base
  BY <1>1, <1>2
<1>4. r * Base \in Nat /\ p * Base \in Nat
  BY <1>1
<1> QED
  BY <1>1, <1>3, <1>4

(* The last digit of a number and what is before it.                       *)
LEMMA LastDigit ==
  ASSUME NEW q \in Nat, NEW d \in Digit
  PROVE  /\ q * Base + d \in Nat
         /\ (q * Base + d) \div Base = q
         /\ (q * Base + d) % Base = d
<1> DEFINE n == q * Base + d
           p == n \div Base
           r == n % Base
<1>0. Base \in Nat \ {0} /\ d \in 0 .. Base - 1
  BY ParseAssumption DEF Digit
<1>1. n \in Nat
  BY <1>0
<1> HIDE DEF n
<1>2. /\ p \in Nat /\ r \in 0 .. Base - 1
      /\ n = p * Base + r
  BY <1>0, <1>1
<1> HIDE DEF p, r
<1>3. q * Base \in Nat /\ p * Base \in Nat
  BY <1>0, <1>2
<1>4. ~ p < q
  <2> SUFFICES ASSUME p < q PROVE FALSE
    OBVIOUS
  <2>1. p * Base + Base <= q * Base
    BY <1>2, TimesBase
  <2> QED
    BY <1>0, <1>2, <1>3, <2>1 DEF n
<1>5. ~ q < p
  <2> SUFFICES ASSUME q < p PROVE FALSE
    OBVIOUS
  <2>1. q * Base + Base <= p * Base
    BY <1>2, TimesBase
  <2> QED
    BY <1>0, <1>2, <1>3, <2>1 DEF n
<1>6. p = q
  BY <1>2, <1>4, <1>5
<1>7. r = d
  BY <1>0, <1>2, <1>3, <1>6 DEF n
<1> QED
  BY <1>1, <1>6, <1>7 DEF n, p, r

(* What is before the last digit is a smaller number.                      *)
LEMMA BeforeLastDigit ==
  ASSUME NEW n \in Nat, ~ n < Base
  PROVE  /\ n \div Base \in 1 .. n - 1
         /\ n % Base \in Digit
         /\ n = (n \div Base) * Base + (n % Base)
<1> DEFINE p == n \div Base
           r == n % Base
<1>0. Base \in Nat /\ Base >= 2
  BY ParseAssumption
<1>1. /\ p \in Nat /\ r \in 0 .. Base - 1
      /\ n = p * Base + r
  BY <1>0
<1> HIDE DEF p, r
<1>2. p # 0
  BY <1>0, <1>1
<1>3. p * Base >= p * 2
  <2>1. PICK b \in Nat : Base = 2 + b
    <3>1. Base - 2 \in Nat /\ Base = 2 + (Base - 2)
      BY <1>0
    <3> QED
      BY <3>1
  <2>2. p * Base = p * 2 + p * b /\ p * b \in Nat
    BY <1>1, <2>1
  <2> QED
    BY <1>1, <2>2
<1>4. p < n
  BY <1>0, <1>1, <1>2, <1>3
<1> QED
  BY <1>1, <1>2, <1>4 DEF p, r, Digit

-----------------------------------------------------------------------------
(* The numeral of a number.                                                *)

(* The numeral of n, if f gives those of smaller numbers.                  *)
Digits(f, n) ==
  IF n < Base THEN <<n>> ELSE Append(f[n \div Base], n % Base)

(* f gives the numerals of the numbers up to k.                            *)
GivesUpTo(f, k) ==
  /\ f = [n \in 0 .. k |-> f[n]]
  /\ \A n \in 0 .. k : f[n] = Digits(f, n)

LEMMA SameDigits ==
  ASSUME NEW f, NEW g, NEW n \in Nat,
         \A m \in 0 .. n - 1 : f[m] = g[m]
  PROVE  Digits(f, n) = Digits(g, n)
<1>1. CASE n < Base
  BY <1>1 DEF Digits
<1>2. CASE ~ n < Base
  <2>1. n \div Base \in 0 .. n - 1
    BY <1>2, BeforeLastDigit
  <2> QED
    BY <1>2, <2>1 DEF Digits
<1> QED
  BY <1>1, <1>2

LEMMA GivesSome ==
  ASSUME NEW k \in Nat
  PROVE  \E f : GivesUpTo(f, k)
<1> DEFINE S == {j \in Nat : \E f : GivesUpTo(f, j)}
<1>1. 0 \in S
  <2> DEFINE f == [n \in 0 .. 0 |-> <<n>>]
  <2>1. 0 .. 0 = {0} /\ 0 < Base
    BY ParseAssumption
  <2>2. GivesUpTo(f, 0)
    BY <2>1 DEF GivesUpTo, Digits
  <2> QED
    BY <2>2
<1>2. ASSUME NEW j \in Nat, j \in S PROVE j + 1 \in S
  <2>1. PICK f : GivesUpTo(f, j)
    BY <1>2
  <2> DEFINE g == [n \in 0 .. j + 1 |-> IF n <= j THEN f[n] ELSE Digits(f, n)]
  <2>2. \A n \in 0 .. j : g[n] = f[n]
    OBVIOUS
  <2>3. g[j + 1] = Digits(f, j + 1)
    OBVIOUS
  <2>4. g = [n \in 0 .. j + 1 |-> g[n]]
    OBVIOUS
  <2> HIDE DEF g
  <2>5. ASSUME NEW n \in 0 .. j + 1 PROVE g[n] = Digits(g, n)
    <3>1. Digits(f, n) = Digits(g, n)
      <4>1. \A m \in 0 .. n - 1 : f[m] = g[m]
        BY <2>2
      <4> QED
        BY <4>1, SameDigits
    <3>2. g[n] = Digits(f, n)
      <4>1. CASE n \in 0 .. j
        BY <2>1, <2>2, <4>1 DEF GivesUpTo
      <4>2. CASE n = j + 1
        BY <2>3, <4>2
      <4> QED
        BY <4>1, <4>2
    <3> QED
      BY <3>1, <3>2
  <2>6. GivesUpTo(g, j + 1)
    BY <2>4, <2>5 DEF GivesUpTo
  <2> QED
    BY <2>6
<1> HIDE DEF S
<1>3. k \in S
  BY <1>1, <1>2, Induction
<1> QED
  BY <1>3 DEF S

LEMMA GivesOnlyOne ==
  ASSUME NEW j \in Nat, NEW k \in Nat,
         NEW f, GivesUpTo(f, j), NEW g, GivesUpTo(g, k),
         NEW n \in Nat, n <= j, n <= k
  PROVE  f[n] = g[n]
<1> DEFINE T == {m \in Nat : m <= j /\ m <= k /\ f[m] # g[m]}
<1> SUFFICES ASSUME T # {} PROVE FALSE
  OBVIOUS
<1>1. T \subseteq Nat
  OBVIOUS
<1> HIDE DEF T
<1>2. PICK m \in T : \A i \in T : m <= i
  BY <1>1, Least
<1>3. m \in Nat /\ m <= j /\ m <= k /\ f[m] # g[m]
  BY DEF T
<1>4. ASSUME NEW i \in 0 .. m - 1 PROVE f[i] = g[i]
  BY <1>2, <1>3 DEF T
<1>5. Digits(f, m) = Digits(g, m)
  BY <1>3, <1>4, SameDigits
<1> QED
  BY <1>3, <1>5 DEF GivesUpTo

(* The recursion of Numeral defines what it says.                          *)
LEMMA NumeralDef ==
  ASSUME NEW n \in Nat
  PROVE  Numeral(n) = IF n < Base
                      THEN <<n>>
                      ELSE Append(Numeral(n \div Base), n % Base)
<1> DEFINE Defines(f) ==
             f = [m \in Nat |->
                    IF m < Base THEN <<m>>
                    ELSE Append(f[m \div Base], m % Base)]
           some(k) == CHOOSE f : GivesUpTo(f, k)
           h == [m \in Nat |-> some(m)[m]]
<1>1. Defines(h)
  <2>1. ASSUME NEW m \in Nat PROVE GivesUpTo(some(m), m)
    BY GivesSome
  <2> HIDE DEF some
  <2>2. ASSUME NEW m \in Nat PROVE h[m] = Digits(h, m)
    <3>1. h[m] = Digits(some(m), m)
      BY <2>1 DEF GivesUpTo
    <3>2. ASSUME NEW i \in 0 .. m - 1 PROVE some(m)[i] = h[i]
      <4>1. i \in Nat /\ i <= m
        OBVIOUS
      <4>2. GivesUpTo(some(m), m) /\ GivesUpTo(some(i), i)
        BY <2>1, <4>1
      <4>3. some(m)[i] = some(i)[i]
        BY <4>1, <4>2, GivesOnlyOne
      <4> QED
        BY <4>1, <4>3
    <3> HIDE DEF h
    <3> QED
      BY <3>1, <3>2, SameDigits
  <2>3. h = [m \in Nat |-> h[m]]
    OBVIOUS
  <2> HIDE DEF h
  <2> QED
    BY <2>2, <2>3 DEF Digits
<1> DEFINE numeral == CHOOSE f : Defines(f)
<1>2. Defines(numeral)
  BY <1>1
<1>3. ASSUME NEW m PROVE Numeral(m) = numeral[m]
  BY DEF Numeral
<1>4. n < Base \/ n \div Base \in Nat
  BY BeforeLastDigit
<1> HIDE DEF numeral
<1> QED
  BY <1>2, <1>3, <1>4

(* A string of digits that is not empty and has no zero in front.          *)
Proper(string) ==
  /\ string # <<>>
  /\ string \in Seq(Digit)
  /\ Head(string) = 0 => Len(string) = 1

(* A numeral is such a string.                                             *)
LEMMA NumeralIsProper ==
  ASSUME NEW n \in Nat
  PROVE  Proper(Numeral(n)) /\ (Head(Numeral(n)) = 0 => n = 0)
<1> DEFINE Fine(m) == Proper(Numeral(m)) /\ (Head(Numeral(m)) = 0 => m = 0)
           T == {m \in Nat : ~ Fine(m)}
<1> SUFFICES ASSUME T # {} PROVE FALSE
  OBVIOUS
<1>1. T \subseteq Nat
  OBVIOUS
<1> HIDE DEF T
<1>2. PICK m \in T : \A i \in T : m <= i
  BY <1>1, Least
<1>3. m \in Nat /\ ~ Fine(m)
  BY DEF T
<1>4. CASE m < Base
  <2>1. m \in Digit
    BY <1>3, <1>4, ParseAssumption DEF Digit
  <2>2. Numeral(m) = <<m>>
    BY <1>3, <1>4, NumeralDef
  <2>3. <<m>> \in Seq(Digit) /\ <<m>> # <<>> /\ Len(<<m>>) = 1
        /\ Head(<<m>>) = m
    BY <2>1
  <2> QED
    BY <1>3, <2>2, <2>3 DEF Proper
<1>5. CASE ~ m < Base
  <2> DEFINE p == m \div Base
             d == m % Base
             s == Numeral(p)
  <2>1. p \in 1 .. m - 1 /\ d \in Digit
    BY <1>3, <1>5, BeforeLastDigit
  <2>2. Numeral(m) = Append(s, d)
    BY <1>3, <1>5, NumeralDef
  <2> HIDE DEF p, d, s
  <2>3. Fine(p)
    BY <1>1, <1>2, <2>1 DEF T
  <2>4. /\ s # <<>> /\ s \in Seq(Digit)
        /\ Head(s) # 0
    BY <2>1, <2>3 DEF Proper, s
  <2>5. /\ Append(s, d) \in Seq(Digit)
        /\ Append(s, d) # <<>>
        /\ Head(Append(s, d)) = Head(s)
    BY <2>1, <2>4, AppendProperties, HeadTailAppend
  <2> QED
    BY <1>3, <2>2, <2>4, <2>5 DEF Proper
<1> QED
  BY <1>4, <1>5

-----------------------------------------------------------------------------
(* The number of a string.                                                 *)

LEMMA Greatest ==
  ASSUME NEW P, P \subseteq Nat, NEW n \in P, \A i \in P : i <= n
  PROVE  Max(P) = n
<1>1. n \in P /\ \A i \in P : n >= i
  OBVIOUS
<1>2. Max(P) \in P /\ \A i \in P : Max(P) >= i
  BY <1>1 DEF Max
<1>3. Max(P) >= n /\ Max(P) <= n /\ Max(P) \in Nat /\ n \in Nat
  BY <1>2
<1> QED
  BY <1>3

(* f gives what the fold of Magnitude gives the sets of positions up to k. *)
FoldsUpTo(f, string, k) ==
  f = [P \in SUBSET (1 .. k) |->
         IF P = {} THEN 0
         ELSE f[P \ {Max(P)}] * Base + string[Max(P)]]

LEMMA FoldsSome ==
  ASSUME NEW string, NEW k \in Nat
  PROVE  \E f : FoldsUpTo(f, string, k)
<1> DEFINE S == {j \in Nat : \E f : FoldsUpTo(f, string, j)}
<1>1. 0 \in S
  <2> DEFINE f == [P \in SUBSET (1 .. 0) |-> 0]
  <2>1. \A P \in SUBSET (1 .. 0) : P = {}
    OBVIOUS
  <2>2. FoldsUpTo(f, string, 0)
    BY <2>1 DEF FoldsUpTo
  <2> QED
    BY <2>2
<1>2. ASSUME NEW j \in Nat, j \in S PROVE j + 1 \in S
  <2>1. PICK f : FoldsUpTo(f, string, j)
    BY <1>2
  <2> DEFINE last == j + 1
             g == [P \in SUBSET (1 .. last) |->
                     IF last \in P
                     THEN f[P \ {last}] * Base + string[last]
                     ELSE f[P]]
  <2>2. ASSUME NEW P \in SUBSET (1 .. last)
        PROVE  g[P] = IF P = {} THEN 0
                      ELSE g[P \ {Max(P)}] * Base + string[Max(P)]
    <3>1. CASE last \in P
      <4>1. Max(P) = last
        <5>1. P \subseteq Nat /\ \A i \in P : i <= last
          OBVIOUS
        <5> HIDE DEF last
        <5> QED
          BY <3>1, <5>1, Greatest
      <4>2. g[P] = f[P \ {last}] * Base + string[last]
        BY <3>1
      <4>3. /\ P \ {last} \in SUBSET (1 .. last)
            /\ last \notin P \ {last}
        OBVIOUS
      <4>4. g[P \ {last}] = f[P \ {last}]
        BY <4>3
      <4> HIDE DEF g, last
      <4> QED
        BY <3>1, <4>1, <4>2, <4>4
    <3>2. CASE last \notin P
      <4>1. P \in SUBSET (1 .. j)
        BY <3>2
      <4>2. g[P] = f[P]
        BY <3>2
      <4>3. CASE P = {}
        BY <2>1, <4>1, <4>2, <4>3 DEF FoldsUpTo
      <4>4. CASE P # {}
        <5> DEFINE m == Max(P)
                   Q == P \ {m}
        <5>1. f[P] = f[Q] * Base + string[m]
          BY <2>1, <4>1, <4>4 DEF FoldsUpTo
        <5> HIDE DEF m
        <5>2. Q \in SUBSET (1 .. last) /\ last \notin Q
          BY <3>2
        <5>3. g[Q] = f[Q]
          BY <5>2
        <5> HIDE DEF g, Q
        <5> QED
          BY <4>2, <4>4, <5>1, <5>3 DEF Q, m
      <4> QED
        BY <4>3, <4>4
    <3> QED
      BY <3>1, <3>2
  <2>3. g = [P \in SUBSET (1 .. last) |-> g[P]]
    OBVIOUS
  <2> HIDE DEF g
  <2>4. FoldsUpTo(g, string, last)
    BY <2>2, <2>3 DEF FoldsUpTo
  <2> QED
    BY <2>4
<1> HIDE DEF S
<1>3. k \in S
  BY <1>1, <1>2, Induction
<1> QED
  BY <1>3 DEF S

(* Magnitude is such a fold of all positions.                              *)
LEMMA MagnitudeFolds ==
  ASSUME NEW string, string \in Seq(Digit)
  PROVE  \E f : /\ FoldsUpTo(f, string, Len(string))
                /\ Magnitude(string) = f[1 .. Len(string)]
<1>1. Len(string) \in Nat /\ DOMAIN string = 1 .. Len(string)
  BY LenProperties
<1> DEFINE f == CHOOSE f : FoldsUpTo(f, string, Len(string))
<1>2. FoldsUpTo(f, string, Len(string))
  BY <1>1, FoldsSome
<1>3. Magnitude(string) = f[1 .. Len(string)]
  BY <1>1 DEF Magnitude, FoldLeft, MapThenFoldSet, FoldsUpTo
<1> QED
  BY <1>2, <1>3

(* Up to a position the fold is the number of the digits up to there.      *)
LEMMA FoldsDigitByDigit ==
  ASSUME NEW string, NEW n \in Nat, NEW f, FoldsUpTo(f, string, n)
  PROVE  /\ f[1 .. 0] = 0
         /\ \A k \in 1 .. n : f[1 .. k] = f[1 .. k - 1] * Base + string[k]
<1>1. f[1 .. 0] = 0
  <2>1. 1 .. 0 = {} /\ {} \in SUBSET (1 .. n)
    OBVIOUS
  <2> QED
    BY <2>1 DEF FoldsUpTo
<1>2. ASSUME NEW k \in 1 .. n
      PROVE  f[1 .. k] = f[1 .. k - 1] * Base + string[k]
  <2> DEFINE P == 1 .. k
  <2>1. P \in SUBSET (1 .. n) /\ P # {} /\ k \in P
    OBVIOUS
  <2>2. Max(P) = k
    <3>1. P \subseteq Nat /\ \A i \in P : i <= k
      OBVIOUS
    <3> HIDE DEF P
    <3> QED
      BY <2>1, <3>1, Greatest
  <2>3. P \ {k} = 1 .. k - 1
    OBVIOUS
  <2> HIDE DEF P
  <2>4. f[P] = f[P \ {Max(P)}] * Base + string[Max(P)]
    BY <2>1 DEF FoldsUpTo
  <2> QED
    BY <2>2, <2>3, <2>4 DEF P
<1> QED
  BY <1>1, <1>2

(* Strings with the same digits up to a position fold to the same there.   *)
LEMMA SameFolds ==
  ASSUME NEW s, NEW t, NEW n \in Nat, NEW o \in Nat, n <= o,
         NEW f, FoldsUpTo(f, s, n), NEW g, FoldsUpTo(g, t, o),
         \A i \in 1 .. n : s[i] = t[i]
  PROVE  f[1 .. n] = g[1 .. n]
<1> DEFINE S == {k \in Nat : k <= n => f[1 .. k] = g[1 .. k]}
<1>1. 0 \in S
  BY FoldsDigitByDigit
<1>2. ASSUME NEW k \in Nat, k \in S PROVE k + 1 \in S
  <2> SUFFICES ASSUME k + 1 <= n PROVE f[1 .. k + 1] = g[1 .. k + 1]
    OBVIOUS
  <2>1. f[1 .. k] = g[1 .. k]
    BY <1>2
  <2>2. k + 1 \in 1 .. n /\ k + 1 \in 1 .. o /\ k + 1 - 1 = k
    OBVIOUS
  <2> DEFINE l == k + 1
  <2>3. /\ f[1 .. l] = f[1 .. l - 1] * Base + s[l]
        /\ g[1 .. l] = g[1 .. l - 1] * Base + t[l]
    BY <2>2, FoldsDigitByDigit
  <2>4. s[l] = t[l] /\ l - 1 = k
    BY <2>2
  <2> HIDE DEF l
  <2>5. f[1 .. l] = g[1 .. l]
    BY <2>1, <2>3, <2>4
  <2> QED
    BY <2>5 DEF l
<1> HIDE DEF S
<1>3. n \in S
  BY <1>1, <1>2, Induction
<1> QED
  BY <1>3 DEF S

(* The recursion of Magnitude: the number of no digits, and of one more.   *)
LEMMA MagnitudeDef ==
  /\ Magnitude(<<>>) = 0
  /\ \A s \in Seq(Digit), d \in Digit :
       Magnitude(Append(s, d)) = Magnitude(s) * Base + d
<1>1. Magnitude(<<>>) = 0
  <2>1. <<>> \in Seq(Digit) /\ Len(<<>>) = 0
    BY EmptySeq
  <2>2. PICK f : /\ FoldsUpTo(f, <<>>, 0)
                 /\ Magnitude(<<>>) = f[1 .. 0]
    BY <2>1, MagnitudeFolds
  <2> QED
    BY <2>2, FoldsDigitByDigit
<1>2. ASSUME NEW s \in Seq(Digit), NEW d \in Digit
      PROVE  Magnitude(Append(s, d)) = Magnitude(s) * Base + d
  <2> DEFINE t == Append(s, d)
             n == Len(s)
  <2>1. /\ t \in Seq(Digit) /\ Len(t) = n + 1 /\ n \in Nat
        /\ \A i \in 1 .. n : t[i] = s[i]
        /\ t[n + 1] = d
    BY AppendProperties, LenProperties
  <2> HIDE DEF t
  <2>2. PICK f : FoldsUpTo(f, s, n) /\ Magnitude(s) = f[1 .. n]
    BY MagnitudeFolds
  <2>3. PICK g : FoldsUpTo(g, t, n + 1) /\ Magnitude(t) = g[1 .. n + 1]
    BY <2>1, MagnitudeFolds
  <2> HIDE DEF n
  <2>4. f[1 .. n] = g[1 .. n]
    BY <2>1, <2>2, <2>3, SameFolds
  <2>5. g[1 .. n + 1] = g[1 .. n] * Base + d
    <3> DEFINE l == n + 1
    <3>1. l \in 1 .. l /\ l \in Nat /\ l - 1 = n /\ t[l] = d
      BY <2>1
    <3> HIDE DEF l
    <3>2. FoldsUpTo(g, t, l)
      BY <2>3 DEF l
    <3>3. g[1 .. l] = g[1 .. l - 1] * Base + t[l]
      BY <3>1, <3>2, FoldsDigitByDigit
    <3> QED
      BY <3>1, <3>3 DEF l
  <2> QED
    BY <2>2, <2>3, <2>4, <2>5 DEF t
<1> QED
  BY <1>1, <1>2

(* The numeral of the number of a proper string is that string, and only   *)
(* the string 0 has the number 0: by induction on the length.              *)
LEMMA NumeralOfMagnitude ==
  ASSUME NEW string, Proper(string)
  PROVE  /\ Magnitude(string) \in Nat
         /\ Numeral(Magnitude(string)) = string
         /\ Magnitude(string) = 0 <=> Head(string) = 0
<1> DEFINE Fine(s) == /\ Magnitude(s) \in Nat
                      /\ Numeral(Magnitude(s)) = s
                      /\ Magnitude(s) = 0 <=> Head(s) = 0
           S == {n \in Nat : \A s \in Seq(Digit) :
                               Len(s) = n /\ Proper(s) => Fine(s)}
<1>0. Base \in Nat /\ Base >= 2
  BY ParseAssumption
<1>1. 0 \in S
  BY EmptySeq DEF Proper
<1>2. ASSUME NEW n \in Nat, n \in S PROVE n + 1 \in S
  <2> SUFFICES ASSUME NEW s \in Seq(Digit), Len(s) = n + 1, Proper(s)
               PROVE  Fine(s)
    OBVIOUS
  <2>1. PICK t \in Seq(Digit), d \in Digit : s = Append(t, d)
    BY SequenceEmptyOrAppend DEF Proper
  <2>2. /\ Len(t) = n
        /\ Magnitude(s) = Magnitude(t) * Base + d
        /\ d \in Nat /\ d < Base
    BY <1>0, <2>1, AppendProperties, LenProperties, MagnitudeDef DEF Digit
  <2>3. CASE n = 0
    <3>1. t = <<>>
      BY <2>2, <2>3, EmptySeq
    <3>2. s = <<d>> /\ Head(s) = d
      BY <2>1, <3>1
    <3>3. Magnitude(s) = d
      BY <1>0, <2>2, <3>1, MagnitudeDef
    <3>4. Numeral(d) = <<d>>
      BY <2>2, NumeralDef
    <3> QED
      BY <2>2, <3>2, <3>3, <3>4
  <2>4. CASE n # 0
    <3>1. t # <<>> /\ Head(s) = Head(t)
      BY <2>1, <2>2, <2>4, EmptySeq, HeadTailAppend
    <3>2. Head(s) # 0
      BY <2>4 DEF Proper
    <3>3. Fine(t) /\ Magnitude(t) # 0
      <4>1. Proper(t)
        BY <3>1, <3>2 DEF Proper
      <4> QED
        BY <1>2, <2>2, <3>1, <3>2, <4>1
    <3> DEFINE q == Magnitude(t)
               m == q * Base + d
    <3>4. q \in Nat /\ q # 0 /\ Numeral(q) = t /\ Magnitude(s) = m
      BY <2>2, <3>3
    <3> HIDE DEF q
    <3>5. m \in Nat /\ m \div Base = q /\ m % Base = d
      BY <3>4, LastDigit
    <3>6. m >= Base
      <4>1. 0 * Base + Base <= q * Base
        BY <3>4, TimesBase
      <4>2. q * Base \in Nat /\ 0 * Base = 0
        BY <1>0, <3>4
      <4> QED
        BY <1>0, <2>2, <4>1, <4>2
    <3> HIDE DEF m
    <3>7. Numeral(m) = Append(t, d)
      BY <1>0, <3>4, <3>5, <3>6, NumeralDef
    <3>8. m # 0
      BY <1>0, <3>5, <3>6
    <3> QED
      BY <2>1, <3>2, <3>4, <3>5, <3>7, <3>8
  <2> QED
    BY <2>3, <2>4
<1> HIDE DEF S
<1>3. \A n \in Nat : n \in S
  BY <1>1, <1>2, Induction
<1>4. string \in Seq(Digit) /\ Len(string) \in Nat
  BY LenProperties DEF Proper
<1> QED
  BY <1>3, <1>4 DEF S

(* The number of the numeral of a number is that number.                   *)
LEMMA MagnitudeOfNumeral ==
  ASSUME NEW n \in Nat
  PROVE  Magnitude(Numeral(n)) = n
<1> DEFINE T == {m \in Nat : Magnitude(Numeral(m)) # m}
<1> SUFFICES ASSUME T # {} PROVE FALSE
  OBVIOUS
<1>0. Base \in Nat /\ Base >= 2
  BY ParseAssumption
<1>1. T \subseteq Nat
  OBVIOUS
<1> HIDE DEF T
<1>2. PICK m \in T : \A i \in T : m <= i
  BY <1>1, Least
<1>3. m \in Nat /\ Magnitude(Numeral(m)) # m
  BY DEF T
<1>4. CASE m < Base
  <2>1. m \in Digit /\ <<>> \in Seq(Digit) /\ Append(<<>>, m) = <<m>>
    BY <1>0, <1>3, <1>4 DEF Digit
  <2>2. Magnitude(<<m>>) = 0 * Base + m
    BY <2>1, MagnitudeDef
  <2> QED
    BY <1>0, <1>3, <1>4, <2>2, NumeralDef
<1>5. CASE ~ m < Base
  <2> DEFINE p == m \div Base
             d == m % Base
  <2>1. p \in 1 .. m - 1 /\ d \in Digit /\ m = p * Base + d
    BY <1>3, <1>5, BeforeLastDigit
  <2>2. Numeral(m) = Append(Numeral(p), d)
    BY <1>3, <1>5, NumeralDef
  <2> HIDE DEF p, d
  <2>3. Magnitude(Numeral(p)) = p
    BY <1>1, <1>2, <2>1 DEF T
  <2>4. Numeral(p) \in Seq(Digit)
    BY <2>1, NumeralIsProper DEF Proper
  <2>5. Magnitude(Numeral(m)) = p * Base + d
    BY <2>1, <2>2, <2>3, <2>4, MagnitudeDef
  <2> QED
    BY <1>3, <2>1, <2>5
<1> QED
  BY <1>4, <1>5

-----------------------------------------------------------------------------
(* The functions of parse.h.                                               *)

(* A proper string of digits is cast to its number, if that is in range.   *)
LEMMA CastOfProper ==
  ASSUME NEW string, Proper(string), NEW size \in Nat \ {0}
  PROVE  lexical_cast(string, size) =
           IF Magnitude(string) < size THEN Magnitude(string) ELSE Bad
<1>1. /\ string # <<>>
      /\ Head(string) \in Digit
      /\ ToSet(string) \subseteq Digit
  BY HeadTailProperties, ElementOfSeq, LenProperties DEF Proper, ToSet
<1>2. Head(string) \notin {Minus, Plus}
  BY <1>1, ParseAssumption DEF Digit
<1>3. Magnitude(string) \in Nat
  BY NumeralOfMagnitude
<1>4. lexical_cast(string, size) =
        IF Magnitude(string) \notin 0 .. size - 1
        THEN Bad ELSE Magnitude(string)
  BY <1>1, <1>2 DEF lexical_cast
<1> QED
  BY <1>3, <1>4

(* What lexical_cast gives is a natural, or Bad.                           *)
LEMMA CastType ==
  ASSUME NEW string, NEW size \in Nat \ {0}
  PROVE  lexical_cast(string, size) \in Nat \cup {Bad}
<1> DEFINE signed == string # <<>> /\ Head(string) \in {Minus, Plus}
           digits == IF signed THEN Tail(string) ELSE string
           value == Magnitude(digits)
<1>1. \/ lexical_cast(string, size) = Bad
      \/ /\ value \in 0 .. size - 1
         /\ lexical_cast(string, size) \in {value, (size - value) % size}
  BY DEF lexical_cast
<1> HIDE DEF value
<1>2. ASSUME value \in 0 .. size - 1 PROVE (size - value) % size \in Nat
  BY <1>2
<1> QED
  BY <1>1, <1>2

(* parse.h:32-33, 65-66: parse_number accepts the proper strings of digits *)
(* whose number is in range, returns that number, and refuses every other  *)
(* string: those with a sign, a zero in front or another character, and    *)
(* those whose number wraps around.                                        *)
THEOREM ParseNumberIsExact ==
  ASSUME NEW string, NEW size \in Nat \ {0}
  PROVE  parse_number(string, size) =
           IF Proper(string) /\ Magnitude(string) < size
           THEN Magnitude(string) ELSE Bad
<1> DEFINE number == lexical_cast(string, size)
<1>1. parse_number(string, size) =
        IF number # Bad /\ Numeral(number) = string THEN number ELSE Bad
  BY DEF parse_number
<1>2. CASE Proper(string)
  <2>1. /\ Magnitude(string) \in Nat
        /\ Numeral(Magnitude(string)) = string
    BY <1>2, NumeralOfMagnitude
  <2>2. number = IF Magnitude(string) < size THEN Magnitude(string) ELSE Bad
    BY <1>2, CastOfProper
  <2>3. Magnitude(string) # Bad
    BY <2>1, ParseAssumption
  <2> HIDE DEF number
  <2> QED
    BY <1>1, <1>2, <2>1, <2>2, <2>3
<1>3. CASE ~ Proper(string)
  <2>1. ~ (number # Bad /\ Numeral(number) = string)
    <3> SUFFICES ASSUME number # Bad, Numeral(number) = string PROVE FALSE
      OBVIOUS
    <3>1. number \in Nat
      BY CastType
    <3> HIDE DEF number
    <3> QED
      BY <1>3, <3>1, NumeralIsProper
  <2> HIDE DEF number
  <2> QED
    BY <1>1, <1>3, <2>1
<1> QED
  BY <1>2, <1>3

(* A number that was printed is read back, if it is in range.              *)
THEOREM ParsesWhatIsPrinted ==
  ASSUME NEW n \in Nat, NEW size \in Nat \ {0}, n < size
  PROVE  parse_number(Numeral(n), size) = n
BY ParseNumberIsExact, NumeralIsProper, MagnitudeOfNumeral

(* parse.h:27-28: a port is a proper string of digits that does not begin  *)
(* with a zero, in the range of a uint16_t.                                *)
LEMMA ParsePortIsExact ==
  ASSUME NEW string
  PROVE  parse_port(string) =
           IF /\ Proper(string) /\ Head(string) # 0
              /\ Magnitude(string) < PortSize
           THEN Magnitude(string) ELSE Bad
<1> DEFINE port == parse_number(string, PortSize)
<1>1. parse_port(string) = IF port \in {Bad, 0} THEN Bad ELSE port
  BY DEF parse_port
<1>2. port = IF Proper(string) /\ Magnitude(string) < PortSize
             THEN Magnitude(string) ELSE Bad
  BY ParseNumberIsExact, ParseAssumption
<1> HIDE DEF port
<1>3. Proper(string) => /\ Magnitude(string) \in Nat
                        /\ Magnitude(string) = 0 <=> Head(string) = 0
  BY NumeralOfMagnitude
<1>4. Proper(string) => Magnitude(string) # Bad
  BY <1>3, ParseAssumption
<1> QED
  BY <1>1, <1>2, <1>3, <1>4
=============================================================================

------------------------- MODULE ConnectionsProofs -------------------------
(***************************************************************************)
(* Proofs about Connections for every set of addresses, every TIMEOUT and  *)
(* every bound of the clock: the register is well formed, its intervals    *)
(* are in order, and no client of the deque is without an interval.        *)
(***************************************************************************)
EXTENDS Connections, SequenceTheorems, TLAPS

(* What erase() does to a sequence. *)
LEMMA RemoveAtProperties ==
  ASSUME NEW S, NEW s \in Seq(S), NEW i \in 1 .. Len(s)
  PROVE  /\ RemoveAt(s, i) \in Seq(S)
         /\ Len(RemoveAt(s, i)) = Len(s) - 1
         /\ \A k \in 1 .. Len(s) - 1 :
              RemoveAt(s, i)[k] = IF k < i THEN s[k] ELSE s[k + 1]
<1> DEFINE l == SubSeq(s, 1, i - 1)
           r == SubSeq(s, i + 1, Len(s))
<1>0. Len(s) \in Nat /\ i \in Nat \ {0} /\ i <= Len(s)
  BY LenProperties
<1>1. \A k \in 1 .. Len(s) : s[k] \in S
  BY ElementOfSeq
<1>2. l \in Seq(S) /\ Len(l) = i - 1 /\ \A k \in 1 .. i - 1 : l[k] = s[k]
  <2>1. \A k \in 1 .. i - 1 : s[k] \in S
    BY <1>0, <1>1
  <2>2. /\ l \in Seq(S)
        /\ Len(l) = IF 1 <= i - 1 THEN (i - 1) - 1 + 1 ELSE 0
        /\ \A k \in 1 .. (i - 1) - 1 + 1 : l[k] = s[1 + k - 1]
    BY <1>0, <2>1, SubSeqProperties
  <2>3. QED
    BY <1>0, <2>2
<1>3. r \in Seq(S) /\ Len(r) = Len(s) - i
      /\ \A k \in 1 .. Len(s) - i : r[k] = s[i + k]
  <2>1. \A k \in i + 1 .. Len(s) : s[k] \in S
    BY <1>0, <1>1
  <2>2. /\ r \in Seq(S)
        /\ Len(r) = IF i + 1 <= Len(s) THEN Len(s) - (i + 1) + 1 ELSE 0
        /\ \A k \in 1 .. Len(s) - (i + 1) + 1 : r[k] = s[i + 1 + k - 1]
    BY <1>0, <2>1, SubSeqProperties
  <2>3. QED
    BY <1>0, <2>2
<1>4. RemoveAt(s, i) = l \o r
  BY DEF RemoveAt
<1> HIDE DEF l, r
<1>5. /\ l \o r \in Seq(S)
      /\ Len(l \o r) = Len(l) + Len(r)
      /\ \A k \in 1 .. Len(l) + Len(r) :
           (l \o r)[k] = IF k <= Len(l) THEN l[k] ELSE r[k - Len(l)]
  BY <1>2, <1>3, ConcatProperties
<1>6. ASSUME NEW k \in 1 .. Len(s) - 1
      PROVE  (l \o r)[k] = IF k < i THEN s[k] ELSE s[k + 1]
  <2>1. CASE k < i
    <3>1. k \in 1 .. i - 1 /\ k <= Len(l) /\ k \in 1 .. Len(l) + Len(r)
      BY <1>0, <1>2, <1>3, <2>1
    <3>2. QED
      BY <1>2, <1>5, <2>1, <3>1
  <2>2. CASE ~ (k < i)
    <3>1. /\ k - Len(l) \in 1 .. Len(s) - i
          /\ ~ (k <= Len(l))
          /\ k \in 1 .. Len(l) + Len(r)
          /\ i + (k - Len(l)) = k + 1
      BY <1>0, <1>2, <1>3, <2>2
    <3>2. (l \o r)[k] = r[k - Len(l)]
      BY <1>5, <3>1
    <3>3. r[k - Len(l)] = s[i + (k - Len(l))]
      BY <1>3, <3>1
    <3>4. QED
      BY <2>2, <3>1, <3>2, <3>3
  <2>3. QED
    BY <2>1, <2>2
<1>7. QED
  BY <1>0, <1>2, <1>3, <1>4, <1>5, <1>6

-----------------------------------------------------------------------------

(* add_connection on a queue that is not empty. *)
LEMMA AddConnection ==
  ASSUME NEW q \in Seq(Interval), q # <<>>, NEW t \in Nat, InOrder(q, t)
  PROVE  /\ add_connection(q, t) \in Seq(Interval)
         /\ add_connection(q, t) # <<>>
         /\ InOrder(add_connection(q, t), t)
<1> USE ConnectionsAssumption
<1> DEFINE n == Len(q)
<1>0. \A x \in Interval : x.first \in Nat /\ x.second \in Nat
  BY DEF Interval
<1>1. n \in Nat \ {0} /\ n \in 1 .. n /\ Len(q) = n /\ DOMAIN q = 1 .. n
      /\ \A i \in 1 .. n : /\ q[i] \in Interval
                           /\ q[i].first \in Nat
                           /\ q[i].second \in Nat
  BY <1>0, LenProperties, EmptySeq, ElementOfSeq
<1>2. /\ \A i \in 1 .. n : q[i].first <= q[i].second /\ q[i].first <= t
      /\ \A i, j \in 1 .. n : i < j => q[i].second < q[j].first
  BY <1>1 DEF InOrder
<1>3. Last(q) = q[n]
  BY DEF Last
<1> HIDE DEF n
<1>4. CASE Last(q).second >= t
  <2> DEFINE e == [first |-> q[n].first, second |-> t + TIMEOUT]
             r == [q EXCEPT ![n] = e]
  <2>1. add_connection(q, t) = r
    BY <1>1, <1>3, <1>4 DEF add_connection, Extended
  <2>2. e \in Interval /\ e.first = q[n].first /\ e.second = t + TIMEOUT
    BY <1>1 DEF Interval
  <2> HIDE DEF e
  <2>3. r \in Seq(Interval) /\ Len(r) = n
        /\ \A i \in 1 .. n : r[i] = IF i = n THEN e ELSE q[i]
    BY <1>1, <2>2, ExceptSeq
  <2> HIDE DEF r
  <2>4. DOMAIN r = 1 .. n /\ r # <<>>
    BY <1>1, <2>3, LenProperties, EmptySeq
  <2>5. /\ r[n] = e
        /\ \A i \in 1 .. n : i # n => r[i] = q[i]
        /\ \A i \in 1 .. n : r[i].first = q[i].first
    <3>1. r[n] = e
      BY <1>1, <2>3
    <3>2. \A i \in 1 .. n : i # n => r[i] = q[i]
      BY <2>3
    <3>3. QED
      BY <2>2, <3>1, <3>2
  <2>6. \A i \in 1 .. n : r[i].first <= r[i].second /\ r[i].first <= t
    <3>1. q[n].first <= t + TIMEOUT
      BY <1>1, <1>2
    <3>2. QED
      BY <1>2, <2>2, <2>5, <3>1
  <2>7. \A i, j \in 1 .. n : i < j => r[i].second < r[j].first
    <3> TAKE i, j \in 1 .. n
    <3> HAVE i < j
    <3>1. i # n
      BY <1>1
    <3>2. QED
      BY <1>2, <2>5, <3>1
  <2>8. QED
    BY <2>1, <2>3, <2>4, <2>6, <2>7 DEF InOrder
<1>5. CASE ~ (Last(q).second >= t)
  <2> DEFINE new == NewInterval(t)
             r == Append(q, new)
  <2>1. add_connection(q, t) = r
    BY <1>5 DEF add_connection
  <2>2. new \in Interval /\ new.first = t /\ new.second = t + TIMEOUT
    BY DEF NewInterval, Interval
  <2> HIDE DEF new
  <2>3. /\ r \in Seq(Interval) /\ r # <<>> /\ Len(r) = n + 1
        /\ \A i \in 1 .. n : r[i] = q[i]
        /\ r[n + 1] = new
    BY <1>1, <2>2, AppendProperties
  <2> HIDE DEF r
  <2>4. DOMAIN r = 1 .. n + 1
    BY <2>3, LenProperties
  <2>5. q[n].second < t
    BY <1>1, <1>3, <1>5
  <2>6. \A i \in 1 .. n : q[i].second < t
    <3> TAKE i \in 1 .. n
    <3>1. CASE i = n
      BY <2>5, <3>1
    <3>2. CASE i # n
      <4>1. q[i].second < q[n].first /\ q[n].first <= t
        <5>1. i < n
          BY <1>1, <3>2
        <5>2. QED
          BY <1>1, <1>2, <5>1
      <4>2. QED
        BY <1>1, <4>1
    <3>3. QED
      BY <3>1, <3>2
  <2>7. \A i \in 1 .. n + 1 : i \in 1 .. n \/ i = n + 1
    BY <1>1
  <2>8. \A i \in 1 .. n + 1 : r[i].first <= r[i].second /\ r[i].first <= t
    <3>1. new.first <= new.second /\ new.first <= t
      BY <2>2
    <3>2. QED
      BY <1>2, <2>3, <2>7, <3>1
  <2>9. \A i, j \in 1 .. n + 1 : i < j => r[i].second < r[j].first
    <3> TAKE i, j \in 1 .. n + 1
    <3> HAVE i < j
    <3>1. i \in 1 .. n
      BY <1>1
    <3>2. CASE j = n + 1
      BY <2>2, <2>3, <2>6, <3>1, <3>2
    <3>3. CASE j \in 1 .. n
      BY <1>2, <2>3, <3>1, <3>3
    <3>4. QED
      BY <2>7, <3>2, <3>3
  <2>10. QED
    BY <2>1, <2>3, <2>4, <2>8, <2>9 DEF InOrder
<1>6. QED
  BY <1>4, <1>5

-----------------------------------------------------------------------------

(* The three ways in which the deque cs changes: a client gets other       *)
(* connections, a client is put at the end, a client is erased.            *)
Updated(cs, k, q) == [cs EXCEPT ![k].connections = q]

LEMMA UpdatedClients ==
  ASSUME NEW cs \in Seq(Client), NEW k \in 1 .. Len(cs),
         NEW q \in Seq(Interval)
  PROVE  /\ Updated(cs, k, q) \in Seq(Client)
         /\ Len(Updated(cs, k, q)) = Len(cs)
         /\ DOMAIN Updated(cs, k, q) = DOMAIN cs
         /\ \A j \in DOMAIN cs :
              /\ Updated(cs, k, q)[j].address = cs[j].address
              /\ Updated(cs, k, q)[j].connections
                   = IF j = k THEN q ELSE cs[j].connections
<1> DEFINE e == [address |-> cs[k].address, connections |-> q]
           d == [cs EXCEPT ![k] = e]
<1>1. Len(cs) \in Nat /\ DOMAIN cs = 1 .. Len(cs)
      /\ \A j \in 1 .. Len(cs) : cs[j] \in Client
  BY LenProperties, ElementOfSeq
<1>2. ASSUME NEW r \in Client
      PROVE  [r EXCEPT !.connections = q]
               = [address |-> r.address, connections |-> q]
  BY DEF Client
<1>3. [cs[k] EXCEPT !.connections = q] = e
  BY <1>1, <1>2, Zenon
<1>4. Updated(cs, k, q) = d
  BY <1>3, Zenon DEF Updated
<1>5. e \in Client /\ e.address = cs[k].address /\ e.connections = q
  BY <1>1 DEF Client
<1> HIDE DEF e
<1>6. d \in Seq(Client) /\ Len(d) = Len(cs)
      /\ \A j \in 1 .. Len(cs) : d[j] = IF j = k THEN e ELSE cs[j]
  BY <1>5, ExceptSeq
<1>7. DOMAIN d = 1 .. Len(cs)
  BY <1>6, LenProperties
<1> HIDE DEF d
<1>8. \A j \in 1 .. Len(cs) :
        /\ d[j].address = cs[j].address
        /\ d[j].connections = IF j = k THEN q ELSE cs[j].connections
  BY <1>5, <1>6
<1>9. QED
  BY <1>1, <1>4, <1>6, <1>7, <1>8

LEMMA ErasedClient ==
  ASSUME NEW cs \in Seq(Client), NEW i \in 1 .. Len(cs)
  PROVE  /\ RemoveAt(cs, i) \in Seq(Client)
         /\ Len(RemoveAt(cs, i)) = Len(cs) - 1
         /\ DOMAIN RemoveAt(cs, i) = 1 .. Len(cs) - 1
         /\ \A k \in 1 .. Len(cs) - 1 :
              RemoveAt(cs, i)[k] = IF k < i THEN cs[k] ELSE cs[k + 1]
<1>1. /\ RemoveAt(cs, i) \in Seq(Client)
      /\ Len(RemoveAt(cs, i)) = Len(cs) - 1
      /\ \A k \in 1 .. Len(cs) - 1 :
           RemoveAt(cs, i)[k] = IF k < i THEN cs[k] ELSE cs[k + 1]
  BY RemoveAtProperties
<1>2. DOMAIN RemoveAt(cs, i) = 1 .. Len(cs) - 1
  BY <1>1, LenProperties
<1>3. QED
  BY <1>1, <1>2

LEMMA NewClientProperties ==
  ASSUME NEW a \in Address, NEW t \in Nat
  PROVE  /\ NewClient(a, t) \in Client
         /\ NewClient(a, t).address = a
         /\ NewClient(a, t).connections # <<>>
         /\ InOrder(NewClient(a, t).connections, t)
<1>1. NewClient(a, t).address = a
      /\ NewClient(a, t).connections = <<NewInterval(t)>>
  BY DEF NewClient
<1>2. NewInterval(t) \in Interval
      /\ NewInterval(t).first = t /\ NewInterval(t).second = t + TIMEOUT
  BY ConnectionsAssumption DEF NewInterval, Interval
<1>3. NewClient(a, t) \in Client
  BY <1>2 DEF Client, NewClient
<1>4. InOrder(<<NewInterval(t)>>, t)
  BY <1>2, ConnectionsAssumption DEF InOrder
<1>5. QED
  BY <1>1, <1>3, <1>4

LEMMA AppendedClient ==
  ASSUME NEW cs \in Seq(Client), NEW c \in Client
  PROVE  /\ Append(cs, c) \in Seq(Client)
         /\ DOMAIN cs = 1 .. Len(cs) /\ Len(cs) \in Nat
         /\ DOMAIN Append(cs, c) = 1 .. Len(cs) + 1
         /\ \A k \in DOMAIN cs : Append(cs, c)[k] = cs[k]
         /\ Append(cs, c)[Len(cs) + 1] = c
<1>1. /\ Append(cs, c) \in Seq(Client)
      /\ Len(Append(cs, c)) = Len(cs) + 1
      /\ \A k \in 1 .. Len(cs) : Append(cs, c)[k] = cs[k]
      /\ Append(cs, c)[Len(cs) + 1] = c
  BY AppendProperties
<1>2. DOMAIN Append(cs, c) = 1 .. Len(cs) + 1 /\ DOMAIN cs = 1 .. Len(cs)
      /\ Len(cs) \in Nat
  BY <1>1, LenProperties
<1>3. QED
  BY <1>1, <1>2

-----------------------------------------------------------------------------

(* The invariants of the deque, for a deque that is not the variable. *)
Distinct(cs) ==
  \A j, k \in DOMAIN cs : cs[j].address = cs[k].address => j = k

Ordered(cs, t) == \A k \in DOMAIN cs : InOrder(cs[k].connections, t)

LEMMA OrderedLater ==
  ASSUME NEW cs \in Seq(Client), NEW t \in Nat, NEW u \in Nat, t <= u,
         Ordered(cs, t)
  PROVE  Ordered(cs, u)
<1> SUFFICES ASSUME NEW k \in DOMAIN cs PROVE InOrder(cs[k].connections, u)
  BY DEF Ordered
<1> DEFINE q == cs[k].connections
<1>1. cs[k] \in Client
  BY LenProperties, ElementOfSeq
<1>2. q \in Seq(Interval)
  BY <1>1 DEF Client
<1>3. InOrder(q, t)
  BY DEF Ordered
<1> HIDE DEF q
<1>4. \A i \in DOMAIN q : q[i] \in Interval
  BY <1>2, LenProperties, ElementOfSeq
<1>5. \A i \in DOMAIN q : q[i].first \in Nat
  BY <1>4 DEF Interval
<1>6. InOrder(q, u)
  BY <1>3, <1>5 DEF InOrder
<1>7. QED
  BY <1>6 DEF q

LEMMA UpdatedInv ==
  ASSUME NEW cs \in Seq(Client), NEW k \in 1 .. Len(cs),
         NEW q \in Seq(Interval), NEW t \in Nat,
         Distinct(cs), Ordered(cs, t), InOrder(q, t)
  PROVE  Distinct(Updated(cs, k, q)) /\ Ordered(Updated(cs, k, q), t)
<1> DEFINE d == Updated(cs, k, q)
<1>1. /\ DOMAIN d = DOMAIN cs
      /\ \A j \in DOMAIN cs :
           /\ d[j].address = cs[j].address
           /\ d[j].connections = IF j = k THEN q ELSE cs[j].connections
  BY UpdatedClients
<1> HIDE DEF d
<1>2. Distinct(d)
  BY <1>1 DEF Distinct
<1>3. Ordered(d, t)
  BY <1>1 DEF Ordered
<1>4. QED
  BY <1>2, <1>3 DEF d

LEMMA ErasedInv ==
  ASSUME NEW cs \in Seq(Client), NEW i \in 1 .. Len(cs), NEW t \in Nat,
         Distinct(cs), Ordered(cs, t)
  PROVE  Distinct(RemoveAt(cs, i)) /\ Ordered(RemoveAt(cs, i), t)
<1> DEFINE d == RemoveAt(cs, i)
           n == Len(cs)
           Old(k) == IF k < i THEN k ELSE k + 1
<1>1. n \in Nat /\ DOMAIN cs = 1 .. n
  BY LenProperties
<1>2. DOMAIN d = 1 .. n - 1
      /\ \A k \in 1 .. n - 1 : d[k] = IF k < i THEN cs[k] ELSE cs[k + 1]
  BY ErasedClient
<1>3. \A k \in 1 .. n - 1 : d[k] = cs[Old(k)]
  BY <1>2
<1>4. \A k \in 1 .. n - 1 : Old(k) \in 1 .. n
  BY <1>1
<1>5. \A j, k \in 1 .. n - 1 : Old(j) = Old(k) => j = k
  BY <1>1
<1> HIDE DEF d, n, Old
<1>6. Distinct(d)
  <2> SUFFICES ASSUME NEW j \in 1 .. n - 1, NEW k \in 1 .. n - 1,
                      d[j].address = d[k].address
               PROVE  j = k
    BY <1>2, Zenon DEF Distinct
  <2>1. cs[Old(j)].address = cs[Old(k)].address
    BY <1>3
  <2>2. Old(j) \in DOMAIN cs /\ Old(k) \in DOMAIN cs
    BY <1>1, <1>4
  <2>3. Old(j) = Old(k)
    BY <2>1, <2>2 DEF Distinct
  <2>4. QED
    BY <1>5, <2>3
<1>7. Ordered(d, t)
  BY <1>1, <1>2, <1>3, <1>4 DEF Ordered
<1>8. QED
  BY <1>6, <1>7 DEF d

LEMMA AppendedInv ==
  ASSUME NEW cs \in Seq(Client), NEW c \in Client, NEW t \in Nat,
         Distinct(cs), Ordered(cs, t), InOrder(c.connections, t),
         \A k \in DOMAIN cs : cs[k].address # c.address
  PROVE  Distinct(Append(cs, c)) /\ Ordered(Append(cs, c), t)
<1> DEFINE d == Append(cs, c)
           n == Len(cs)
<1>1. /\ n \in Nat /\ DOMAIN cs = 1 .. n
      /\ DOMAIN d = 1 .. n + 1
      /\ \A k \in DOMAIN cs : d[k] = cs[k]
      /\ d[n + 1] = c
  BY AppendedClient
<1> HIDE DEF d, n
<1>2. \A k \in 1 .. n + 1 : k \in 1 .. n \/ k = n + 1
  BY <1>1
<1>3. Distinct(d)
  BY <1>1, <1>2 DEF Distinct
<1>4. Ordered(d, t)
  BY <1>1, <1>2 DEF Ordered
<1>5. QED
  BY <1>3, <1>4 DEF d

-----------------------------------------------------------------------------

(* The register is well formed.  The four invariants need each other: the  *)
(* type of the deque and the order of the intervals depend on every client *)
(* having an interval when it gets a new connection.                       *)
WellFormed ==
  /\ TypeOK
  /\ AddressesDistinct
  /\ EveryClientHasIntervals
  /\ IntervalsInOrder

LEMMA InitWellFormed == Init => WellFormed
<1> SUFFICES ASSUME Init PROVE WellFormed
  OBVIOUS
<1>1. TypeOK
  BY ConnectionsAssumption DEF Init, TypeOK
<1>2. \A k \in DOMAIN clients : FALSE
  BY DEF Init
<1>3. QED
  BY <1>1, <1>2
     DEF WellFormed, AddressesDistinct, EveryClientHasIntervals,
         IntervalsInOrder

(* The steps of the loop that move the iterator or change the deque. *)
LEMMA LoopKeepsWellFormed == WellFormed /\ LoopStep => WellFormed'
<1> SUFFICES ASSUME WellFormed, LoopStep PROVE WellFormed'
  OBVIOUS
<1> USE ConnectionsAssumption
<1> DEFINE n == Len(clients)
<1>1. TypeOK /\ AddressesDistinct /\ EveryClientHasIntervals
      /\ IntervalsInOrder
  BY DEF WellFormed
<1>2. /\ clients \in Seq(Client) /\ now \in Nat /\ it \in Nat \ {0}
      /\ now \in 0 .. MaxTime /\ the_clients \in Seq(Address)
  BY <1>1 DEF TypeOK
<1>3. n \in Nat /\ DOMAIN clients = 1 .. n
      /\ \A k \in 1 .. n : clients[k] \in Client
  BY <1>2, LenProperties, ElementOfSeq
<1>4. InLoop /\ it \in 1 .. n /\ phase = "loop"
  BY <1>2, <1>3 DEF LoopStep, Exclude, PopInterval, Erase, EraseFront,
                    EraseBack, EraseLast, Visit, InLoop
<1>5. Distinct(clients) /\ Ordered(clients, now)
  BY <1>1 DEF AddressesDistinct, IntervalsInOrder, Distinct, Ordered
<1>6. \A k \in 1 .. n : clients[k].connections = <<>> =>
        k = it /\ clients[k].address # exclude
  BY <1>1, <1>3 DEF EveryClientHasIntervals
<1>7. \A k \in 1 .. n : /\ clients[k].address \in Address
                        /\ clients[k].connections \in Seq(Interval)
  BY <1>3 DEF Client
<1>8. /\ now' = now /\ timestamp' = timestamp /\ contacts' = contacts
      /\ exclude' = exclude
  BY DEF LoopStep, Exclude, PopInterval, Erase, EraseFront, EraseBack,
         EraseLast, Visit, scan
<1> HIDE DEF n
<1>9. CASE Exclude
  <2>1. /\ clients' = clients /\ it' = it + 1 /\ the_clients' = the_clients
        /\ skipped' = skipped /\ phase' = phase
        /\ clients[it].address = exclude
    BY <1>9 DEF Exclude
  <2>2. it + 1 <= n + 1 /\ it + 1 \in Nat \ {0}
    BY <1>3, <1>4
  <2>3. TypeOK'
    BY <1>1, <1>4, <1>8, <2>1, <2>2 DEF TypeOK, n
  <2>4. \A k \in 1 .. n : clients[k].connections # <<>>
    BY <1>6, <2>1
  <2>5. QED
    BY <1>1, <1>3, <1>8, <2>1, <2>3, <2>4
       DEF WellFormed, AddressesDistinct, EveryClientHasIntervals,
           IntervalsInOrder
<1>10. CASE Visit
  <2>1. /\ clients' = clients /\ it' = it + 1 /\ skipped' = skipped
        /\ phase' = phase /\ clients[it].connections # <<>>
    BY <1>10 DEF Visit, Intervals
  <2>2. the_clients' \in Seq(Address)
    <3>1. Append(the_clients, clients[it].address) \in Seq(Address)
      BY <1>2, <1>4, <1>7, AppendProperties
    <3>2. QED
      BY <1>2, <1>10, <3>1 DEF Visit
  <2>3. it + 1 <= n + 1 /\ it + 1 \in Nat \ {0}
    BY <1>3, <1>4
  <2>4. TypeOK'
    BY <1>1, <1>4, <1>8, <2>1, <2>2, <2>3 DEF TypeOK, n
  <2>5. \A k \in 1 .. n : clients[k].connections # <<>>
    BY <1>6, <2>1
  <2>6. QED
    BY <1>1, <1>3, <1>8, <2>1, <2>4, <2>5
       DEF WellFormed, AddressesDistinct, EveryClientHasIntervals,
           IntervalsInOrder
<1>11. CASE PopInterval
  <2> DEFINE q == clients[it].connections
  <2>1. /\ clients' = [clients EXCEPT ![it].connections = Tail(@)]
        /\ it' = it /\ skipped' = skipped /\ phase' = phase
        /\ the_clients' = the_clients /\ q # <<>>
        /\ clients[it].address # exclude
    BY <1>11 DEF PopInterval, Intervals, scan
  <2>2. clients' = Updated(clients, it, Tail(q))
    BY <2>1 DEF Updated
  <2>3. q \in Seq(Interval)
    BY <1>4, <1>7
  <2>4. InOrder(q, now)
    BY <1>3, <1>4, <1>5 DEF Ordered
  <2> HIDE DEF q
  <2>5. Tail(q) \in Seq(Interval) /\ InOrder(Tail(q), now)
    <3>1. /\ Tail(q) \in Seq(Interval)
          /\ Len(Tail(q)) = Len(q) - 1
          /\ \A i \in 1 .. Len(Tail(q)) : Tail(q)[i] = q[i + 1]
      BY <2>1, <2>3, HeadTailProperties
    <3>2. DOMAIN q = 1 .. Len(q) /\ DOMAIN Tail(q) = 1 .. Len(q) - 1
          /\ Len(q) \in Nat
      BY <2>3, <3>1, LenProperties
    <3>3. InOrder(Tail(q), now)
      BY <2>4, <3>1, <3>2 DEF InOrder
    <3>4. QED
      BY <3>1, <3>3
  <2>6. /\ clients' \in Seq(Client) /\ Len(clients') = n
        /\ DOMAIN clients' = 1 .. n
        /\ \A j \in 1 .. n :
             /\ clients'[j].address = clients[j].address
             /\ j # it => clients'[j].connections = clients[j].connections
    <3>1. it \in 1 .. Len(clients) /\ DOMAIN clients = 1 .. n
      BY <1>3, <1>4 DEF n
    <3>2. /\ Updated(clients, it, Tail(q)) \in Seq(Client)
          /\ Len(Updated(clients, it, Tail(q))) = Len(clients)
          /\ DOMAIN Updated(clients, it, Tail(q)) = DOMAIN clients
          /\ \A j \in DOMAIN clients :
               /\ Updated(clients, it, Tail(q))[j].address
                    = clients[j].address
               /\ Updated(clients, it, Tail(q))[j].connections
                    = IF j = it THEN Tail(q) ELSE clients[j].connections
      BY <1>2, <2>5, <3>1, UpdatedClients
    <3>3. QED
      BY <2>2, <3>1, <3>2 DEF n
  <2>7. Distinct(clients') /\ Ordered(clients', now)
    BY <1>2, <1>4, <1>5, <2>2, <2>5, UpdatedInv DEF n
  <2>8. TypeOK'
    BY <1>1, <1>3, <1>4, <1>8, <2>1, <2>6 DEF TypeOK, n
  <2>9. EveryClientHasIntervals'
    BY <1>4, <1>6, <1>8, <2>1, <2>6 DEF EveryClientHasIntervals
  <2>10. QED
    BY <1>8, <2>7, <2>8, <2>9
       DEF WellFormed, AddressesDistinct, IntervalsInOrder, Distinct, Ordered
<1>12. ASSUME Erase,
              it' \in {it, it + 1},
              phase' # "undefined" => it' <= n,
              phase' \in {"loop", "undefined"},
              the_clients' = the_clients,
              skipped' \subseteq Address
       PROVE  WellFormed'
  <2>1. clients' = RemoveAt(clients, it)
        /\ clients[it].connections = <<>>
    BY <1>12 DEF Erase, Intervals
  <2>2. /\ clients' \in Seq(Client) /\ Len(clients') = n - 1
        /\ DOMAIN clients' = 1 .. n - 1
        /\ \A k \in 1 .. n - 1 :
             clients'[k] = IF k < it THEN clients[k] ELSE clients[k + 1]
    BY <1>2, <1>4, <2>1, ErasedClient DEF n
  <2>3. Distinct(clients') /\ Ordered(clients', now)
    BY <1>2, <1>4, <1>5, <2>1, ErasedInv DEF n
  <2>4. TypeOK'
    BY <1>1, <1>2, <1>3, <1>8, <1>12, <2>2 DEF TypeOK
  <2>5. \A k \in 1 .. n - 1 : clients'[k].connections # <<>>
    BY <1>3, <1>4, <1>6, <2>2
  <2>6. QED
    BY <1>8, <2>2, <2>3, <2>4, <2>5
       DEF WellFormed, AddressesDistinct, EveryClientHasIntervals,
           IntervalsInOrder, Distinct, Ordered
<1>13. CASE EraseFront
  <2>1. n \div 2 <= n /\ n \div 2 \in Nat
    BY <1>3
  <2>2. it <= n /\ it' = it /\ phase' = phase /\ the_clients' = the_clients
        /\ skipped' = skipped
    BY <1>4, <1>13 DEF EraseFront, scan
  <2>3. QED
    BY <1>1, <1>4, <1>12, <1>13, <2>2 DEF EraseFront, TypeOK
<1>14. CASE EraseBack
  <2>1. it < n /\ it + 1 \in 1 .. n
    BY <1>2, <1>3, <1>14 DEF EraseBack, n
  <2>2. skipped \cup {clients[it + 1].address} \subseteq Address
    BY <1>1, <1>7, <2>1 DEF TypeOK
  <2>3. QED
    BY <1>2, <1>3, <1>4, <1>12, <1>14, <2>1, <2>2 DEF EraseBack
<1>15. CASE EraseLast
  BY <1>1, <1>12, <1>15 DEF EraseLast, TypeOK
<1>16. QED
  BY <1>9, <1>10, <1>11, <1>13, <1>14, <1>15 DEF LoopStep

(* A client that gets a connection, known to the register or new. *)
LEMMA AddClientKeepsWellFormed ==
  ASSUME WellFormed, NEW a \in Address, NEW t \in now .. MaxTime,
         add_client(a, t)
  PROVE  WellFormed'
<1> USE ConnectionsAssumption
<1> DEFINE n == Len(clients)
<1>1. TypeOK /\ AddressesDistinct /\ EveryClientHasIntervals
      /\ IntervalsInOrder
  BY DEF WellFormed
<1>2. /\ clients \in Seq(Client) /\ now \in Nat /\ t \in Nat /\ now <= t
      /\ t \in 0 .. MaxTime
  BY <1>1 DEF TypeOK
<1>3. n \in Nat /\ DOMAIN clients = 1 .. n
      /\ \A k \in 1 .. n : clients[k] \in Client
  BY <1>2, LenProperties, ElementOfSeq
<1>4. Distinct(clients) /\ Ordered(clients, t)
  <2>1. Distinct(clients) /\ Ordered(clients, now)
    BY <1>1 DEF AddressesDistinct, IntervalsInOrder, Distinct, Ordered
  <2>2. QED
    BY <1>2, <2>1, OrderedLater
<1>5. /\ phase = "idle" /\ now' = t /\ phase' = phase
      /\ timestamp' = timestamp /\ exclude' = exclude /\ it' = it
      /\ the_clients' = the_clients /\ skipped' = skipped
      /\ contacts' = contacts \cup {<<a, t>>}
  BY DEF add_client, scan
<1>6. \A k \in 1 .. n : clients[k].connections \in Seq(Interval)
                        /\ clients[k].connections # <<>>
  BY <1>1, <1>3, <1>5 DEF EveryClientHasIntervals, Client
<1> HIDE DEF n
<1>7. ASSUME clients' \in Seq(Client), Distinct(clients'),
             Ordered(clients', t),
             \A k \in DOMAIN clients' : clients'[k].connections # <<>>
      PROVE  WellFormed'
  <2>1. TypeOK'
    <3>1. contacts' \subseteq Address \X (0 .. t)
      BY <1>1, <1>2, <1>5 DEF TypeOK
    <3>2. timestamp \in 0 .. t
      BY <1>1, <1>2 DEF TypeOK
    <3>3. QED
      BY <1>1, <1>2, <1>5, <1>7, <3>1, <3>2 DEF TypeOK
  <2>2. QED
    BY <1>5, <1>7, <2>1
       DEF WellFormed, AddressesDistinct, EveryClientHasIntervals,
           IntervalsInOrder, Distinct, Ordered
<1>8. ASSUME NEW k \in Position(a),
             clients' = [clients EXCEPT
                           ![k].connections = add_connection(@, t)]
      PROVE  WellFormed'
  <2> DEFINE q == clients[k].connections
             r == add_connection(q, t)
  <2>1. k \in 1 .. n /\ k \in 1 .. Len(clients)
    BY <1>3 DEF Position, n
  <2>2. clients' = Updated(clients, k, r)
    BY <1>8 DEF Updated
  <2>3. q \in Seq(Interval) /\ q # <<>>
    BY <1>6, <2>1
  <2>4. InOrder(q, t)
    BY <1>3, <1>4, <2>1 DEF Ordered
  <2> HIDE DEF q
  <2>5. r \in Seq(Interval) /\ r # <<>> /\ InOrder(r, t)
    BY <1>2, <2>3, <2>4, AddConnection
  <2> HIDE DEF r
  <2>6. /\ clients' \in Seq(Client)
        /\ DOMAIN clients' = DOMAIN clients
        /\ \A j \in DOMAIN clients :
             clients'[j].connections
               = IF j = k THEN r ELSE clients[j].connections
    BY <1>2, <2>1, <2>2, <2>5, UpdatedClients
  <2>7. Distinct(clients') /\ Ordered(clients', t)
    BY <1>2, <1>4, <2>1, <2>2, <2>5, UpdatedInv
  <2>8. QED
    BY <1>3, <1>6, <1>7, <2>5, <2>6, <2>7
<1>9. ASSUME Position(a) = {},
             clients' = Append(clients, NewClient(a, t))
      PROVE  WellFormed'
  <2> DEFINE c == NewClient(a, t)
  <2>1. \A k \in DOMAIN clients : clients[k].address # a
    BY <1>9 DEF Position
  <2>2. /\ c \in Client /\ c.address = a /\ c.connections # <<>>
        /\ InOrder(c.connections, t)
    BY <1>2, NewClientProperties
  <2>3. clients' = Append(clients, c)
    BY <1>9
  <2> HIDE DEF c
  <2>4. /\ clients' \in Seq(Client)
        /\ DOMAIN clients' = 1 .. n + 1
        /\ \A k \in DOMAIN clients : clients'[k] = clients[k]
        /\ clients'[n + 1] = c
    BY <1>2, <2>2, <2>3, AppendedClient DEF n
  <2>5. Distinct(clients') /\ Ordered(clients', t)
    BY <1>2, <1>4, <2>1, <2>2, <2>3, AppendedInv
  <2>6. \A k \in 1 .. n + 1 : k \in 1 .. n \/ k = n + 1
    BY <1>3
  <2>7. QED
    BY <1>3, <1>6, <1>7, <2>2, <2>4, <2>5, <2>6
<1>10. QED
  BY <1>8, <1>9 DEF add_client

(* The well-formedness of the register is inductive. *)
LEMMA NextKeepsWellFormed == WellFormed /\ [Next]_vars => WellFormed'
<1> SUFFICES ASSUME WellFormed, [Next]_vars PROVE WellFormed'
  OBVIOUS
<1> USE ConnectionsAssumption
<1>1. TypeOK /\ AddressesDistinct /\ EveryClientHasIntervals
      /\ IntervalsInOrder
  BY DEF WellFormed
<1>2. CASE Tick
  <2>1. /\ now \in Nat /\ now' \in Nat /\ now <= now' /\ now' \in 0 .. MaxTime
        /\ clients \in Seq(Client)
    BY <1>1, <1>2 DEF Tick, TypeOK
  <2>2. /\ UNCHANGED <<clients, phase, timestamp, exclude, it, the_clients,
                       skipped, contacts>>
        /\ timestamp \in 0 .. now'
        /\ contacts \subseteq Address \X (0 .. now')
    BY <1>1, <1>2, <2>1 DEF Tick, TypeOK, scan
  <2>3. TypeOK'
    BY <1>1, <2>1, <2>2 DEF TypeOK
  <2>4. Ordered(clients, now')
    BY <1>1, <2>1, OrderedLater DEF Ordered, IntervalsInOrder
  <2>5. QED
    BY <1>1, <2>2, <2>3, <2>4
       DEF WellFormed, AddressesDistinct, EveryClientHasIntervals,
           IntervalsInOrder, Ordered
<1>3. CASE \E a \in Address, t \in now .. MaxTime : add_client(a, t)
  BY <1>3, AddClientKeepsWellFormed
<1>4. ASSUME NEW t \in timestamp .. now, NEW ex \in Address \cup {NoOne},
             get_clients(t, ex)
      PROVE  WellFormed'
  <2>1. /\ phase = "idle" /\ phase' = "loop" /\ exclude' = ex
        /\ timestamp' = t /\ UNCHANGED <<clients, now, it, the_clients, skipped>>
        /\ contacts' \subseteq contacts
    BY <1>4 DEF get_clients
  <2>2. TypeOK' /\ EveryClientHasIntervals'
    <3>1. it = 1 /\ Len(clients) \in Nat
      BY <1>1, <2>1, LenProperties DEF TypeOK
    <3>2. contacts' \subseteq Address \X (0 .. now)
      BY <1>1, <2>1 DEF TypeOK
    <3>3. t \in 0 .. now
      BY <1>1, <1>4 DEF TypeOK
    <3>4. TypeOK'
      BY <1>1, <2>1, <3>1, <3>2, <3>3 DEF TypeOK
    <3>5. QED
      BY <1>1, <2>1, <3>4 DEF EveryClientHasIntervals
  <2>3. QED
    BY <1>1, <2>1, <2>2 DEF WellFormed, AddressesDistinct, IntervalsInOrder
<1>5. CASE LoopStep
  BY <1>5, LoopKeepsWellFormed
<1>6. CASE Return
  <2>1. /\ UNCHANGED <<clients, now, timestamp, contacts>>
        /\ phase' = "idle" /\ exclude' = NoOne /\ it' = 1
        /\ the_clients' = <<>> /\ skipped' = {}
        /\ it = Len(clients) + 1
    BY <1>6 DEF Return, AtEnd
  <2>2. TypeOK'
    BY <1>1, <2>1 DEF TypeOK
  <2>3. \A k \in DOMAIN clients : k # it
    BY <1>1, <2>1, LenProperties DEF TypeOK
  <2>4. QED
    BY <1>1, <2>1, <2>2, <2>3
       DEF WellFormed, AddressesDistinct, EveryClientHasIntervals,
           IntervalsInOrder
<1>7. CASE UNCHANGED vars
  BY <1>1, <1>7
     DEF vars, WellFormed, TypeOK, AddressesDistinct, EveryClientHasIntervals,
         IntervalsInOrder
<1>8. QED
  BY <1>2, <1>3, <1>4, <1>5, <1>6, <1>7 DEF Next

(* The type invariant holds in every execution of the register. *)
THEOREM ConnectionsTypeOK == Spec => []TypeOK
<1>1. WellFormed => TypeOK
  BY DEF WellFormed
<1>2. QED
  BY <1>1, InitWellFormed, NextKeepsWellFormed, PTL DEF Spec

(* back() and front() are never called on an empty queue. *)
THEOREM ConnectionsNeverEmpty == Spec => []EveryClientHasIntervals
<1>1. WellFormed => EveryClientHasIntervals
  BY DEF WellFormed
<1>2. QED
  BY <1>1, InitWellFormed, NextKeepsWellFormed, PTL DEF Spec

(* No address is twice in the deque. *)
THEOREM ConnectionsDistinct == Spec => []AddressesDistinct
<1>1. WellFormed => AddressesDistinct
  BY DEF WellFormed
<1>2. QED
  BY <1>1, InitWellFormed, NextKeepsWellFormed, PTL DEF Spec

(* The intervals of every client are disjoint and in order. *)
THEOREM ConnectionsInOrder == Spec => []IntervalsInOrder
<1>1. WellFormed => IntervalsInOrder
  BY DEF WellFormed
<1>2. QED
  BY <1>1, InitWellFormed, NextKeepsWellFormed, PTL DEF Spec
=============================================================================

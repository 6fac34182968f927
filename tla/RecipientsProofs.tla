-------------------------- MODULE RecipientsProofs --------------------------
(***************************************************************************)
(* Proofs about what get_clients of Connections returns, for every set of  *)
(* addresses, every TIMEOUT and every bound of the clock: the intervals of *)
(* the register cover exactly the times of eligibility, the recipients are *)
(* eligible, and the loop misses, or leaves with old intervals, only those *)
(* that it stepped over.                                                   *)
(***************************************************************************)
EXTENDS ConnectionsProofs

(* The times that a queue of intervals covers. *)
Times(q) ==
  {t \in Nat : \E i \in DOMAIN q : q[i].first <= t /\ t <= q[i].second}

(* No interval reaches beyond what a contact at time t gives. *)
Within(q, t) == \A i \in DOMAIN q : q[i].second <= t + TIMEOUT

LEMMA QueueFacts ==
  ASSUME NEW q \in Seq(Interval)
  PROVE  /\ Len(q) \in Nat
         /\ DOMAIN q = 1 .. Len(q)
         /\ \A i \in 1 .. Len(q) : /\ q[i] \in Interval
                                   /\ q[i].first \in Nat
                                   /\ q[i].second \in Nat
         /\ q # <<>> => Len(q) # 0 /\ Head(q) = q[1] /\ Last(q) = q[Len(q)]
<1>1. Len(q) \in Nat /\ DOMAIN q = 1 .. Len(q)
      /\ \A i \in 1 .. Len(q) : q[i] \in Interval
  BY LenProperties, ElementOfSeq
<1>2. \A x \in Interval : x.first \in Nat /\ x.second \in Nat
  BY DEF Interval
<1>3. q # <<>> => Len(q) # 0 /\ Head(q) = q[1]
  BY EmptySeq, HeadTailProperties
<1>4. Last(q) = q[Len(q)]
  BY DEF Last
<1>5. QED
  BY <1>1, <1>2, <1>3, <1>4

(* Popping an interval that ended before u leaves the times from u on. *)
LEMMA TimesOfTail ==
  ASSUME NEW q \in Seq(Interval), q # <<>>, NEW u \in Nat,
         Head(q).second < u, NEW now_ \in Nat, Within(q, now_)
  PROVE  /\ \A t \in Nat : t >= u => (t \in Times(Tail(q)) <=> t \in Times(q))
         /\ Within(Tail(q), now_)
<1> DEFINE r == Tail(q)
           n == Len(q)
<1>1. /\ n \in Nat \ {0} /\ DOMAIN q = 1 .. n
      /\ \A i \in 1 .. n : q[i].first \in Nat /\ q[i].second \in Nat
      /\ q[1].second < u
  BY QueueFacts
<1>2. DOMAIN r = 1 .. n - 1 /\ \A i \in 1 .. n - 1 : r[i] = q[i + 1]
  <2>1. /\ r \in Seq(Interval) /\ Len(r) = n - 1
        /\ \A i \in 1 .. Len(r) : r[i] = q[i + 1]
    BY HeadTailProperties
  <2>2. QED
    BY <2>1, LenProperties
<1> HIDE DEF r, n
<1>3. ASSUME NEW t \in Nat, t >= u, t \in Times(q) PROVE t \in Times(r)
  <2>1. PICK i \in 1 .. n : q[i].first <= t /\ t <= q[i].second
    BY <1>1, <1>3 DEF Times
  <2>2. i # 1
    BY <1>1, <1>3, <2>1
  <2>3. i - 1 \in 1 .. n - 1 /\ (i - 1) + 1 = i
    BY <1>1, <2>2
  <2>4. r[i - 1] = q[i]
    BY <1>2, <2>3
  <2>5. QED
    BY <1>2, <2>1, <2>3, <2>4 DEF Times
<1>4. ASSUME NEW t \in Nat, t \in Times(r) PROVE t \in Times(q)
  <2>1. PICK i \in 1 .. n - 1 : r[i].first <= t /\ t <= r[i].second
    BY <1>2, <1>4 DEF Times
  <2>2. i + 1 \in 1 .. n /\ r[i] = q[i + 1]
    BY <1>1, <1>2
  <2>3. QED
    BY <1>1, <2>1, <2>2 DEF Times
<1>5. Within(r, now_)
  <2> SUFFICES ASSUME NEW i \in 1 .. n - 1 PROVE r[i].second <= now_ + TIMEOUT
    BY <1>2 DEF Within
  <2>1. i + 1 \in 1 .. n /\ r[i] = q[i + 1]
    BY <1>1, <1>2
  <2>2. QED
    BY <1>1, <2>1 DEF Within
<1>6. QED
  BY <1>3, <1>4, <1>5 DEF r

(* A connection at time u adds the times of the contact, and no others. *)
LEMMA TimesOfConnection ==
  ASSUME NEW q \in Seq(Interval), q # <<>>, NEW u \in Nat, InOrder(q, u),
         Within(q, u)
  PROVE  /\ \A t \in Nat : t \in Times(add_connection(q, u))
                             <=> t \in Times(q) \/ (u <= t /\ t <= u + TIMEOUT)
         /\ Within(add_connection(q, u), u)
<1> USE ConnectionsAssumption
<1> DEFINE n == Len(q)
           r == add_connection(q, u)
<1>1. /\ n \in Nat \ {0} /\ DOMAIN q = 1 .. n /\ Last(q) = q[n]
      /\ \A i \in 1 .. n : /\ q[i] \in Interval /\ q[i].first \in Nat
                           /\ q[i].second \in Nat
  BY QueueFacts
<1>2. \A i \in 1 .. n : q[i].first <= u /\ q[i].second <= u + TIMEOUT
  BY <1>1 DEF InOrder, Within
<1>0. n = Len(q)
  OBVIOUS
<1> HIDE DEF n
<1>3. CASE Last(q).second >= u
  <2> DEFINE e == [first |-> q[n].first, second |-> u + TIMEOUT]
  <2>1. r = [q EXCEPT ![n] = e]
    BY <1>1, <1>3, <1>0 DEF add_connection, Extended
  <2>2. e \in Interval /\ e.first = q[n].first /\ e.second = u + TIMEOUT
    BY <1>1 DEF Interval
  <2> HIDE DEF e
  <2>3. r \in Seq(Interval) /\ Len(r) = n
        /\ \A i \in 1 .. n : r[i] = IF i = n THEN e ELSE q[i]
    BY <1>1, <1>0, <2>1, <2>2, ExceptSeq
  <2>4. DOMAIN r = 1 .. n
    BY <2>3, LenProperties
  <2> HIDE DEF r
  <2>5. r[n] = e /\ \A i \in 1 .. n : i # n => r[i] = q[i]
    BY <1>1, <2>3
  <2>6. Within(r, u)
    <3>1. \A i \in 1 .. n : r[i].second <= u + TIMEOUT
      BY <1>1, <1>2, <2>2, <2>5
    <3>2. QED
      BY <2>4, <3>1 DEF Within
  <2>7. ASSUME NEW t \in Nat, t \in Times(r)
        PROVE  t \in Times(q) \/ (u <= t /\ t <= u + TIMEOUT)
    <3>1. PICK i \in 1 .. n : r[i].first <= t /\ t <= r[i].second
      BY <2>4, <2>7 DEF Times
    <3>2. CASE i # n
      BY <1>1, <2>5, <3>1, <3>2 DEF Times
    <3>3. CASE i = n
      <4>1. q[n].first <= t /\ t <= u + TIMEOUT
        BY <2>2, <2>5, <3>1, <3>3
      <4>2. q[n].second >= u /\ n \in 1 .. n
        BY <1>1, <1>3
      <4>3. t <= q[n].second \/ u <= t
        BY <1>1, <4>2
      <4>4. QED
        BY <1>1, <4>1, <4>2, <4>3 DEF Times
    <3>4. QED
      BY <3>2, <3>3
  <2>8. ASSUME NEW t \in Nat, t \in Times(q) PROVE t \in Times(r)
    <3>1. PICK i \in 1 .. n : q[i].first <= t /\ t <= q[i].second
      BY <1>1, <2>8 DEF Times
    <3>2. CASE i # n
      BY <2>4, <2>5, <3>1, <3>2 DEF Times
    <3>3. CASE i = n
      <4>1. q[n].second <= u + TIMEOUT /\ q[n].second \in Nat /\ n \in 1 .. n
        BY <1>1, <1>2
      <4>2. e.first <= t /\ t <= e.second
        BY <2>2, <3>1, <3>3, <4>1
      <4>3. QED
        BY <2>4, <2>5, <4>1, <4>2 DEF Times
    <3>4. QED
      BY <3>2, <3>3
  <2>9. ASSUME NEW t \in Nat, u <= t, t <= u + TIMEOUT PROVE t \in Times(r)
    <3>1. q[n].first <= u /\ q[n].first \in Nat /\ n \in 1 .. n
      BY <1>1, <1>2
    <3>2. e.first <= t /\ t <= e.second
      BY <2>2, <2>9, <3>1
    <3>3. QED
      BY <2>4, <2>5, <3>1, <3>2 DEF Times
  <2>10. QED
    BY <2>6, <2>7, <2>8, <2>9 DEF r
<1>4. CASE ~ (Last(q).second >= u)
  <2> DEFINE e == NewInterval(u)
  <2>1. r = Append(q, e)
    BY <1>4 DEF add_connection
  <2>2. e \in Interval /\ e.first = u /\ e.second = u + TIMEOUT
    BY DEF Interval, NewInterval
  <2> HIDE DEF e
  <2>3. r \in Seq(Interval) /\ Len(r) = n + 1 /\ r[n + 1] = e
        /\ \A i \in 1 .. n : r[i] = q[i]
    BY <1>0, <2>1, <2>2, AppendProperties
  <2>4. DOMAIN r = 1 .. n + 1
    BY <2>3, LenProperties
  <2>5. \A i \in 1 .. n + 1 : i \in 1 .. n \/ i = n + 1
    BY <1>1
  <2>6. 1 .. n \subseteq 1 .. n + 1 /\ n + 1 \in 1 .. n + 1
    BY <1>1
  <2> HIDE DEF r
  <2>7. Within(r, u)
    BY <1>1, <1>2, <2>2, <2>3, <2>4, <2>5 DEF Within
  <2>8. ASSUME NEW t \in Nat
        PROVE  t \in Times(r)
                 <=> t \in Times(q) \/ (u <= t /\ t <= u + TIMEOUT)
    <3>1. t \in Times(r) => t \in Times(q) \/ (u <= t /\ t <= u + TIMEOUT)
      BY <1>1, <2>2, <2>3, <2>4, <2>5 DEF Times
    <3>2. t \in Times(q) => t \in Times(r)
      BY <1>1, <2>3, <2>4, <2>6 DEF Times
    <3>3. u <= t /\ t <= u + TIMEOUT => t \in Times(r)
      BY <2>2, <2>3, <2>4, <2>6 DEF Times
    <3>4. QED
      BY <3>1, <3>2, <3>3
  <2>9. QED
    BY <2>7, <2>8 DEF r
<1>5. QED
  BY <1>3, <1>4

(* When the first interval did not end before u, none did, and the first   *)
(* is the one to look at.                                                  *)
LEMMA FirstInterval ==
  ASSUME NEW q \in Seq(Interval), q # <<>>, NEW u \in Nat, NEW v \in Nat,
         InOrder(q, v), ~ (Head(q).second < u)
  PROVE  /\ \A i \in DOMAIN q : q[i].second >= u
         /\ u \in Times(q) <=> in_bounds(u, Head(q))
<1>1. /\ Len(q) \in Nat \ {0} /\ DOMAIN q = 1 .. Len(q) /\ Head(q) = q[1]
      /\ \A i \in 1 .. Len(q) : q[i].first \in Nat /\ q[i].second \in Nat
      /\ 1 \in 1 .. Len(q)
  BY QueueFacts
<1>2. \A i \in 1 .. Len(q) : i # 1 => q[i].first > u
  <2> TAKE i \in 1 .. Len(q)
  <2> HAVE i # 1
  <2>1. q[1].second < q[i].first
    BY <1>1 DEF InOrder
  <2>2. QED
    BY <1>1, <2>1
<1>3. \A i \in 1 .. Len(q) : q[i].second >= u
  <2> TAKE i \in 1 .. Len(q)
  <2>1. q[i].first <= q[i].second
    BY <1>1 DEF InOrder
  <2>2. QED
    BY <1>1, <1>2, <2>1
<1>4. u \in Times(q) => in_bounds(u, Head(q))
  BY <1>1, <1>2 DEF Times, in_bounds
<1>5. in_bounds(u, Head(q)) => u \in Times(q)
  BY <1>1 DEF Times, in_bounds
<1>6. QED
  BY <1>1, <1>3, <1>4, <1>5

-----------------------------------------------------------------------------

(* The deque cs makes a a recipient at time t. *)
Holds(cs, a, t) ==
  \E k \in DOMAIN cs : cs[k].address = a /\ t \in Times(cs[k].connections)

NotTooLong(cs, u) == \A k \in DOMAIN cs : Within(cs[k].connections, u)

(* The register matches the contacts from the last timestamp on. *)
Matching ==
  phase # "undefined" =>
    \A a \in Address, t \in Nat :
      t >= timestamp => (Holds(clients, a, t) <=> Eligible(a, t))

LEMMA ClientFacts ==
  ASSUME NEW cs \in Seq(Client)
  PROVE  /\ Len(cs) \in Nat
         /\ DOMAIN cs = 1 .. Len(cs)
         /\ \A k \in 1 .. Len(cs) : /\ cs[k] \in Client
                                    /\ cs[k].address \in Address
                                    /\ cs[k].connections \in Seq(Interval)
<1>1. Len(cs) \in Nat /\ DOMAIN cs = 1 .. Len(cs)
      /\ \A k \in 1 .. Len(cs) : cs[k] \in Client
  BY LenProperties, ElementOfSeq
<1>2. \A c \in Client : c.address \in Address /\ c.connections \in Seq(Interval)
  BY DEF Client
<1>3. QED
  BY <1>1, <1>2

LEMMA WithinLater ==
  ASSUME NEW q \in Seq(Interval), NEW u \in Nat, NEW v \in Nat, u <= v,
         Within(q, u)
  PROVE  Within(q, v)
<1>1. DOMAIN q = 1 .. Len(q) /\ \A i \in 1 .. Len(q) : q[i].second \in Nat
  BY QueueFacts
<1>2. \A i \in 1 .. Len(q) : q[i].second <= u + TIMEOUT
  BY <1>1 DEF Within
<1>3. \A i \in 1 .. Len(q) : q[i].second <= v + TIMEOUT
  BY <1>1, <1>2, ConnectionsAssumption
<1>4. QED
  BY <1>1, <1>3 DEF Within

LEMMA NotTooLongLater ==
  ASSUME NEW cs \in Seq(Client), NEW u \in Nat, NEW v \in Nat, u <= v,
         NotTooLong(cs, u)
  PROVE  NotTooLong(cs, v)
<1> SUFFICES ASSUME NEW k \in DOMAIN cs PROVE Within(cs[k].connections, v)
  BY DEF NotTooLong
<1>1. cs[k].connections \in Seq(Interval)
  BY ClientFacts
<1>2. Within(cs[k].connections, u)
  BY DEF NotTooLong
<1>3. QED
  BY <1>1, <1>2, WithinLater

(* A client's connections are replaced by some that hold the same times    *)
(* from u on, and possibly those of an additional contact of it at v.      *)
LEMMA UpdatedHolds ==
  ASSUME NEW cs \in Seq(Client), NEW k \in 1 .. Len(cs),
         NEW q \in Seq(Interval), NEW u \in Nat, NEW Added,
         \A t \in Nat : t >= u => (t \in Times(q) <=>
                                   t \in Times(cs[k].connections) \/ t \in Added)
  PROVE  \A a \in Address, t \in Nat : t >= u =>
           (Holds(Updated(cs, k, q), a, t)
              <=> Holds(cs, a, t) \/ (a = cs[k].address /\ t \in Added))
<1> DEFINE d == Updated(cs, k, q)
<1>1. /\ DOMAIN d = DOMAIN cs
      /\ k \in DOMAIN cs
      /\ \A j \in DOMAIN cs :
           /\ d[j].address = cs[j].address
           /\ d[j].connections = IF j = k THEN q ELSE cs[j].connections
  BY UpdatedClients, ClientFacts
<1> HIDE DEF d
<1> SUFFICES ASSUME NEW a \in Address, NEW t \in Nat, t >= u
             PROVE  Holds(d, a, t) <=>
                      Holds(cs, a, t) \/ (a = cs[k].address /\ t \in Added)
  BY DEF d
<1>2. d[k].connections = q /\ d[k].address = cs[k].address
      /\ \A j \in DOMAIN cs : j # k => d[j].connections = cs[j].connections
  BY <1>1
<1>3. t \in Times(q) <=> t \in Times(cs[k].connections) \/ t \in Added
  OBVIOUS
<1>4. ASSUME Holds(d, a, t)
      PROVE  Holds(cs, a, t) \/ (a = cs[k].address /\ t \in Added)
  BY <1>1, <1>2, <1>3, <1>4, Zenon DEF Holds
<1>5. ASSUME Holds(cs, a, t) PROVE Holds(d, a, t)
  BY <1>1, <1>2, <1>3, <1>5, Zenon DEF Holds
<1>6. ASSUME a = cs[k].address, t \in Added PROVE Holds(d, a, t)
  BY <1>1, <1>2, <1>3, <1>6, Zenon DEF Holds
<1>7. QED
  BY <1>4, <1>5, <1>6

LEMMA UpdatedNotTooLong ==
  ASSUME NEW cs \in Seq(Client), NEW k \in 1 .. Len(cs),
         NEW q \in Seq(Interval), NEW u \in Nat,
         NotTooLong(cs, u), Within(q, u)
  PROVE  NotTooLong(Updated(cs, k, q), u)
<1> DEFINE d == Updated(cs, k, q)
<1>1. /\ DOMAIN d = DOMAIN cs
      /\ \A j \in DOMAIN cs :
           d[j].connections = IF j = k THEN q ELSE cs[j].connections
  BY UpdatedClients
<1> HIDE DEF d
<1>2. NotTooLong(d, u)
  BY <1>1 DEF NotTooLong
<1>3. QED
  BY <1>2 DEF d

(* A client without intervals is erased: nothing that is held is lost. *)
LEMMA ErasedHolds ==
  ASSUME NEW cs \in Seq(Client), NEW i \in 1 .. Len(cs),
         cs[i].connections = <<>>, NEW u \in Nat, NotTooLong(cs, u)
  PROVE  /\ \A a \in Address, t \in Nat :
              Holds(RemoveAt(cs, i), a, t) <=> Holds(cs, a, t)
         /\ NotTooLong(RemoveAt(cs, i), u)
<1> DEFINE d == RemoveAt(cs, i)
           n == Len(cs)
<1>1. n \in Nat /\ DOMAIN cs = 1 .. n /\ i \in 1 .. n
  BY ClientFacts
<1>2. DOMAIN d = 1 .. n - 1
      /\ \A k \in 1 .. n - 1 : d[k] = IF k < i THEN cs[k] ELSE cs[k + 1]
  BY ErasedClient
<1> HIDE DEF d, n
<1>3. \A k \in 1 .. n - 1 : \E j \in 1 .. n : d[k] = cs[j]
  BY <1>1, <1>2
<1>4. ASSUME NEW k \in 1 .. n, k # i
      PROVE  \E j \in 1 .. n - 1 : d[j] = cs[k]
  <2>1. CASE k < i
    BY <1>1, <1>2, <2>1
  <2>2. CASE ~ (k < i)
    <3>1. k - 1 \in 1 .. n - 1 /\ ~ (k - 1 < i) /\ (k - 1) + 1 = k
      BY <1>1, <1>4, <2>2
    <3>2. QED
      BY <1>2, <3>1
  <2>3. QED
    BY <2>1, <2>2
<1>5. \A t : t \notin Times(<<>>)
  BY DEF Times
<1>6. ASSUME NEW a \in Address, NEW t \in Nat
      PROVE  Holds(d, a, t) <=> Holds(cs, a, t)
  <2>1. ASSUME Holds(d, a, t) PROVE Holds(cs, a, t)
    BY <1>1, <1>2, <1>3, <2>1, Zenon DEF Holds
  <2>2. ASSUME Holds(cs, a, t) PROVE Holds(d, a, t)
    <3>1. PICK k \in 1 .. n : /\ cs[k].address = a
                              /\ t \in Times(cs[k].connections)
      BY <1>1, <2>2, Zenon DEF Holds
    <3>2. k # i
      BY <1>5, <3>1
    <3>3. PICK j \in 1 .. n - 1 : d[j] = cs[k]
      BY <1>4, <3>2
    <3>4. QED
      BY <1>2, <3>1, <3>3, Zenon DEF Holds
  <2>3. QED
    BY <2>1, <2>2
<1>7. NotTooLong(d, u)
  BY <1>1, <1>2, <1>3, Zenon DEF NotTooLong
<1>8. QED
  BY <1>6, <1>7 DEF d

(* A new client holds the times of its first contact. *)
LEMMA AppendedHolds ==
  ASSUME NEW cs \in Seq(Client), NEW a \in Address, NEW u \in Nat,
         NotTooLong(cs, u)
  PROVE  /\ \A b \in Address, t \in Nat :
              Holds(Append(cs, NewClient(a, u)), b, t) <=>
                Holds(cs, b, t) \/ (b = a /\ u <= t /\ t <= u + TIMEOUT)
         /\ NotTooLong(Append(cs, NewClient(a, u)), u)
<1> DEFINE c == NewClient(a, u)
           d == Append(cs, c)
           n == Len(cs)
<1>1. c \in Client /\ c.address = a /\ c.connections = <<NewInterval(u)>>
  BY NewClientProperties DEF NewClient
<1>2. \A t \in Nat : t \in Times(c.connections)
                       <=> u <= t /\ t <= u + TIMEOUT
  BY <1>1 DEF Times, NewInterval
<1>3. Within(c.connections, u)
  BY <1>1, ConnectionsAssumption DEF Within, NewInterval
<1> HIDE DEF c
<1>4. /\ n \in Nat /\ DOMAIN cs = 1 .. n /\ DOMAIN d = 1 .. n + 1
      /\ \A k \in 1 .. n : d[k] = cs[k]
      /\ d[n + 1] = c
  BY <1>1, AppendedClient
<1> HIDE DEF d, n
<1>5. /\ \A k \in 1 .. n + 1 : k \in 1 .. n \/ k = n + 1
      /\ n + 1 \in 1 .. n + 1 /\ 1 .. n \subseteq 1 .. n + 1
  BY <1>4
<1>6. ASSUME NEW b \in Address, NEW t \in Nat
      PROVE  Holds(d, b, t) <=>
               Holds(cs, b, t) \/ (b = a /\ t \in Times(c.connections))
  <2>1. ASSUME Holds(d, b, t)
        PROVE  Holds(cs, b, t) \/ (b = a /\ t \in Times(c.connections))
    BY <1>1, <1>4, <1>5, <2>1, Zenon DEF Holds
  <2>2. ASSUME Holds(cs, b, t) PROVE Holds(d, b, t)
    <3>1. PICK k \in 1 .. n : /\ cs[k].address = b
                              /\ t \in Times(cs[k].connections)
      BY <1>4, <2>2, Zenon DEF Holds
    <3>2. k \in DOMAIN d /\ d[k] = cs[k]
      BY <1>4, <1>5
    <3>3. QED
      BY <3>1, <3>2, Zenon DEF Holds
  <2>3. ASSUME b = a, t \in Times(c.connections) PROVE Holds(d, b, t)
    <3>1. n + 1 \in DOMAIN d /\ d[n + 1].address = b
      BY <1>1, <1>4, <1>5, <2>3
    <3>2. QED
      BY <1>4, <2>3, <3>1, Zenon DEF Holds
  <2>4. QED
    BY <2>1, <2>2, <2>3
<1>7. NotTooLong(d, u)
  <2>1. \A k \in 1 .. n + 1 : Within(d[k].connections, u)
    BY <1>3, <1>4, <1>5, Zenon DEF NotTooLong
  <2>2. QED
    BY <1>4, <2>1, Zenon DEF NotTooLong
<1>8. QED
  BY <1>2, <1>6, <1>7 DEF c, d

-----------------------------------------------------------------------------

(* The contacts cs make a eligible at time t. *)
InContact(cs, a, t) ==
  \E c \in cs : c[1] = a /\ c[2] <= t /\ t <= c[2] + TIMEOUT

TimesRight == NotTooLong(clients, now) /\ Matching

LEMMA RegisteredIsHeld ==
  ASSUME TypeOK, NEW a \in Address, NEW t \in Nat
  PROVE  Registered(a, t) <=> Holds(clients, a, t)
<1>1. \A k \in DOMAIN clients : clients[k].connections \in Seq(Interval)
  BY ClientFacts DEF TypeOK
<1>2. ASSUME NEW k \in DOMAIN clients
      PROVE  t \in Times(clients[k].connections)
               <=> \E i \in DOMAIN clients[k].connections :
                     t \in clients[k].connections[i].first
                             .. clients[k].connections[i].second
  <2> DEFINE q == clients[k].connections
  <2>1. \A i \in DOMAIN q : q[i].first \in Nat /\ q[i].second \in Nat
    BY <1>1, QueueFacts
  <2> HIDE DEF q
  <2>2. \A i \in DOMAIN q : t \in q[i].first .. q[i].second
                             <=> q[i].first <= t /\ t <= q[i].second
    BY <2>1
  <2>3. t \in Times(q) <=> \E i \in DOMAIN q : t \in q[i].first .. q[i].second
    BY <2>2, Zenon DEF Times
  <2>4. QED
    BY <2>3 DEF q
<1>3. QED
  BY <1>2, Zenon DEF Registered, Holds

(* A step that takes away no contact that counts from timestamp' on, and   *)
(* no time that counts, keeps the register and the contacts matching.      *)
LEMMA KeepsMatching ==
  ASSUME TypeOK, Matching, timestamp' \in Nat, timestamp <= timestamp',
         phase' # "undefined" => phase # "undefined",
         \A a \in Address, t \in Nat : t >= timestamp' =>
           /\ Holds(clients', a, t) <=> Holds(clients, a, t)
           /\ InContact(contacts', a, t) <=> InContact(contacts, a, t)
  PROVE  Matching'
<1> SUFFICES ASSUME phase' # "undefined",
                    NEW a \in Address, NEW t \in Nat, t >= timestamp'
             PROVE  Holds(clients', a, t) <=> InContact(contacts', a, t)
  BY Zenon DEF Matching, Eligible, InContact
<1>1. t >= timestamp
  BY DEF TypeOK
<1>2. Holds(clients, a, t) <=> InContact(contacts, a, t)
  BY <1>1, Zenon DEF Matching, Eligible, InContact
<1>3. QED
  BY <1>2

(* Everything but a call of add_client. *)
LEMMA OthersKeepTimesRight ==
  ASSUME WellFormed, TimesRight,
         Tick \/ LoopStep \/ Return \/ UNCHANGED vars
           \/ \E t \in timestamp .. now, ex \in Address \cup {NoOne} :
                get_clients(t, ex)
  PROVE  TimesRight'
<1> DEFINE n == Len(clients)
<1>1. /\ TypeOK /\ NotTooLong(clients, now) /\ Matching
      /\ clients \in Seq(Client) /\ now \in Nat /\ timestamp \in Nat
      /\ timestamp <= now
      /\ \A c \in contacts : c[2] \in Nat
  BY DEF WellFormed, TypeOK, TimesRight
<1>2. /\ n \in Nat /\ DOMAIN clients = 1 .. n
      /\ \A k \in 1 .. n : clients[k].connections \in Seq(Interval)
  BY <1>1, ClientFacts
<1>3. ASSUME UNCHANGED <<clients, timestamp, contacts>>,
             phase' # "undefined" => phase # "undefined",
             now' \in Nat, now <= now'
      PROVE  TimesRight'
  <2>1. Matching'
    BY <1>1, <1>3, KeepsMatching
  <2>2. NotTooLong(clients, now')
    BY <1>1, <1>3, NotTooLongLater
  <2>3. QED
    BY <1>3, <2>1, <2>2 DEF TimesRight
<1>4. CASE Tick
  BY <1>1, <1>3, <1>4 DEF Tick, scan
<1>5. ASSUME NEW t \in timestamp .. now, NEW ex \in Address \cup {NoOne},
             get_clients(t, ex)
      PROVE  TimesRight'
  <2>1. /\ phase = "idle" /\ timestamp' = t /\ UNCHANGED <<clients, now>>
        /\ contacts' = {c \in contacts : c[2] + TIMEOUT >= t}
    BY <1>5 DEF get_clients
  <2>2. ASSUME NEW a \in Address, NEW u \in Nat, u >= t
        PROVE  InContact(contacts', a, u) <=> InContact(contacts, a, u)
    <3>1. \A c \in contacts : u <= c[2] + TIMEOUT => c[2] + TIMEOUT >= t
      BY <1>1, <2>2, ConnectionsAssumption
    <3>2. QED
      BY <2>1, <3>1, Zenon DEF InContact
  <2>3. Matching'
    BY <1>1, <2>1, <2>2, KeepsMatching
  <2>4. QED
    BY <1>1, <2>1, <2>3 DEF TimesRight
<1>6. ASSUME LoopStep PROVE TimesRight'
  <2>1. /\ InLoop /\ it \in 1 .. n /\ phase = "loop"
        /\ now' = now /\ timestamp' = timestamp /\ contacts' = contacts
    BY <1>1, <1>2, <1>6
       DEF LoopStep, Exclude, PopInterval, Erase, EraseFront, EraseBack,
           EraseLast, Visit, InLoop, scan, TypeOK
  <2>2. CASE Exclude \/ Visit
    BY <1>1, <1>3, <2>1, <2>2 DEF Exclude, Visit
  <2>3. CASE PopInterval
    <3> DEFINE q == clients[it].connections
    <3>1. /\ clients' = Updated(clients, it, Tail(q)) /\ q # <<>>
          /\ Head(q).second < timestamp
      BY <2>3 DEF PopInterval, Updated, Intervals, Expired
    <3>2. q \in Seq(Interval) /\ Within(q, now)
      BY <1>1, <1>2, <2>1 DEF NotTooLong
    <3> HIDE DEF q
    <3>3. /\ Tail(q) \in Seq(Interval) /\ Within(Tail(q), now)
          /\ \A t \in Nat : t >= timestamp =>
               (t \in Times(Tail(q)) <=> t \in Times(q))
      BY <1>1, <3>1, <3>2, TimesOfTail, HeadTailProperties
    <3>4. NotTooLong(clients', now)
      BY <1>1, <2>1, <3>1, <3>3, UpdatedNotTooLong DEF n
    <3>5. \A a \in Address, t \in Nat : t >= timestamp =>
            (Holds(clients', a, t) <=> Holds(clients, a, t))
      <4> DEFINE r == Tail(q)
                 none == {}
      <4>1. r \in Seq(Interval) /\ it \in 1 .. Len(clients)
        BY <2>1, <3>3 DEF n
      <4>2. \A t : t \notin none
        OBVIOUS
      <4>3. clients' = Updated(clients, it, r)
        BY <3>1
      <4>4. \A t \in Nat : t >= timestamp =>
              (t \in Times(r) <=> t \in Times(clients[it].connections))
        BY <3>3 DEF q
      <4> HIDE DEF r, none
      <4>5. \A t \in Nat : t >= timestamp =>
              (t \in Times(r) <=>
                 t \in Times(clients[it].connections) \/ t \in none)
        BY <4>2, <4>4
      <4>6. \A a \in Address, t \in Nat : t >= timestamp =>
              (Holds(Updated(clients, it, r), a, t)
                 <=> Holds(clients, a, t)
                     \/ (a = clients[it].address /\ t \in none))
        BY <1>1, <4>1, <4>5, UpdatedHolds
      <4>7. QED
        BY <4>2, <4>3, <4>6
    <3>6. Matching'
      BY <1>1, <2>1, <3>5, KeepsMatching
    <3>7. QED
      BY <2>1, <3>4, <3>6 DEF TimesRight
  <2>4. CASE Erase /\ (EraseFront \/ EraseBack \/ EraseLast)
    <3>1. clients' = RemoveAt(clients, it) /\ clients[it].connections = <<>>
      BY <2>4 DEF Erase, Intervals
    <3>2. /\ \A a \in Address, t \in Nat :
               Holds(RemoveAt(clients, it), a, t) <=> Holds(clients, a, t)
          /\ NotTooLong(RemoveAt(clients, it), now)
      BY <1>1, <2>1, <3>1, ErasedHolds DEF n
    <3>3. Matching'
      BY <1>1, <2>1, <3>1, <3>2, KeepsMatching
    <3>4. QED
      BY <2>1, <3>1, <3>2, <3>3 DEF TimesRight
  <2>5. QED
    BY <1>6, <2>2, <2>3, <2>4
       DEF LoopStep, EraseFront, EraseBack, EraseLast
<1>7. CASE Return
  BY <1>1, <1>3, <1>7 DEF Return, AtEnd
<1>8. CASE UNCHANGED vars
  BY <1>1, <1>3, <1>8 DEF vars
<1>9. QED
  BY <1>4, <1>5, <1>6, <1>7, <1>8

(* A call of add_client adds the same times to the register and to the     *)
(* contacts.                                                               *)
LEMMA AddClientKeepsTimesRight ==
  ASSUME WellFormed, TimesRight, NEW a \in Address, NEW u \in now .. MaxTime,
         add_client(a, u)
  PROVE  TimesRight'
<1> DEFINE n == Len(clients)
           Added == {t \in Nat : u <= t /\ t <= u + TIMEOUT}
<1>1. /\ TypeOK /\ NotTooLong(clients, now) /\ Matching
      /\ clients \in Seq(Client) /\ now \in Nat /\ timestamp \in Nat
      /\ timestamp <= now /\ u \in Nat /\ now <= u
  BY ConnectionsAssumption DEF WellFormed, TypeOK, TimesRight
<1>2. /\ n \in Nat /\ DOMAIN clients = 1 .. n
      /\ \A k \in 1 .. n : clients[k].connections \in Seq(Interval)
  BY <1>1, ClientFacts
<1>3. /\ phase = "idle" /\ phase' = "idle" /\ now' = u
      /\ timestamp' = timestamp /\ contacts' = contacts \cup {<<a, u>>}
  BY DEF add_client, scan
<1>4. NotTooLong(clients, u) /\ Ordered(clients, u)
  <2>1. Ordered(clients, now)
    BY DEF WellFormed, IntervalsInOrder, Ordered
  <2>2. QED
    BY <1>1, <2>1, NotTooLongLater, OrderedLater
<1>5. \A b, t : InContact(contacts', b, t)
               <=> InContact(contacts, b, t)
                   \/ (b = a /\ u <= t /\ t <= u + TIMEOUT)
  <2> DEFINE c == <<a, u>>
  <2>1. c[1] = a /\ c[2] = u
    OBVIOUS
  <2>2. contacts' = contacts \cup {c}
    BY <1>3
  <2> HIDE DEF c
  <2>3. \A x : x \in contacts' <=> x \in contacts \/ x = c
    BY <2>2
  <2>4. QED
    BY <2>1, <2>3, Zenon DEF InContact
<1>6. ASSUME NotTooLong(clients', u),
             \A b \in Address, t \in Nat : t >= timestamp =>
               (Holds(clients', b, t) <=>
                  Holds(clients, b, t)
                  \/ (b = a /\ u <= t /\ t <= u + TIMEOUT))
      PROVE  TimesRight'
  <2>1. \A b \in Address, t \in Nat : t >= timestamp =>
          (Holds(clients, b, t) <=> InContact(contacts, b, t))
    BY <1>1, <1>3, Zenon DEF Matching, Eligible, InContact
  <2>2. \A b \in Address, t \in Nat : t >= timestamp =>
          (Holds(clients', b, t) <=> InContact(contacts', b, t))
    BY <1>5, <1>6, <2>1
  <2>3. Matching'
    BY <1>3, <2>2, Zenon DEF Matching, Eligible, InContact
  <2>4. QED
    BY <1>3, <1>6, <2>3 DEF TimesRight
<1> HIDE DEF n
<1>7. ASSUME NEW k \in Position(a),
             clients' = [clients EXCEPT
                           ![k].connections = add_connection(@, u)]
      PROVE  TimesRight'
  <2> DEFINE q == clients[k].connections
             r == add_connection(q, u)
  <2>1. /\ k \in 1 .. n /\ k \in 1 .. Len(clients) /\ clients[k].address = a
    BY <1>2 DEF Position, n
  <2>2. clients' = Updated(clients, k, r)
    BY <1>7 DEF Updated
  <2>3. q \in Seq(Interval) /\ q # <<>>
    BY <1>2, <1>3, <2>1 DEF WellFormed, EveryClientHasIntervals
  <2>4. InOrder(q, u) /\ Within(q, u)
    BY <1>2, <1>4, <2>1 DEF Ordered, NotTooLong
  <2>5. \A t \in Nat : t \in Times(q) <=> t \in Times(clients[k].connections)
    OBVIOUS
  <2> HIDE DEF q
  <2>6. /\ r \in Seq(Interval) /\ Within(r, u)
        /\ \A t \in Nat : t \in Times(r)
             <=> t \in Times(q) \/ (u <= t /\ t <= u + TIMEOUT)
    BY <1>1, <2>3, <2>4, AddConnection, TimesOfConnection
  <2>7. NotTooLong(clients', u)
    BY <1>1, <1>4, <2>1, <2>2, <2>6, UpdatedNotTooLong
  <2>8. \A t \in Nat : t >= timestamp =>
          (t \in Times(r) <=>
             t \in Times(clients[k].connections) \/ t \in Added)
    BY <2>5, <2>6
  <2>9. \A t \in Nat : t \in Added <=> u <= t /\ t <= u + TIMEOUT
    OBVIOUS
  <2> HIDE DEF r, Added
  <2>10. \A b \in Address, t \in Nat : t >= timestamp =>
           (Holds(Updated(clients, k, r), b, t)
              <=> Holds(clients, b, t)
                  \/ (b = clients[k].address /\ t \in Added))
    BY <1>1, <2>1, <2>6, <2>8, UpdatedHolds
  <2>11. QED
    BY <1>6, <2>1, <2>2, <2>7, <2>9, <2>10
<1>8. ASSUME clients' = Append(clients, NewClient(a, u))
      PROVE  TimesRight'
  BY <1>1, <1>4, <1>6, <1>8, AppendedHolds
<1>9. QED
  BY <1>7, <1>8 DEF add_client

LEMMA InitTimesRight == Init => TimesRight
<1> SUFFICES ASSUME Init PROVE TimesRight
  OBVIOUS
<1>1. DOMAIN clients = {} /\ contacts = {}
  BY DEF Init
<1>2. QED
  BY <1>1 DEF TimesRight, NotTooLong, Matching, Holds, Eligible

LEMMA NextKeepsTimesRight ==
  WellFormed /\ TimesRight /\ [Next]_vars => TimesRight'
BY OthersKeepTimesRight, AddClientKeepsTimesRight, Zenon DEF Next

(* Whatever was merged, popped and erased, the intervals in the register   *)
(* are exactly the times at which the contacts make a client eligible.     *)
THEOREM ConnectionsMatch == Spec => []IntervalsMatchContacts
<1>1. ASSUME WellFormed, TimesRight PROVE IntervalsMatchContacts
  <2> SUFFICES ASSUME phase # "undefined", NEW a \in Address,
                      NEW t \in timestamp .. MaxTime + TIMEOUT
               PROVE  Registered(a, t) <=> Eligible(a, t)
    BY DEF IntervalsMatchContacts
  <2>1. TypeOK /\ t \in Nat /\ t >= timestamp
    BY <1>1, ConnectionsAssumption DEF WellFormed, TypeOK
  <2>2. Holds(clients, a, t) <=> Eligible(a, t)
    BY <1>1, <2>1 DEF TimesRight, Matching
  <2>3. QED
    BY <2>1, <2>2, RegisteredIsHeld
<1>2. Spec => [](WellFormed /\ TimesRight)
  BY InitWellFormed, InitTimesRight, NextKeepsWellFormed, NextKeepsTimesRight,
     PTL DEF Spec
<1>3. QED
  BY <1>1, <1>2, PTL

-----------------------------------------------------------------------------

(* Every recipient is a client that the loop has passed. *)
Behind(recipients, cs, i) ==
  \A j \in DOMAIN recipients :
    \E k \in DOMAIN cs : k < i /\ cs[k].address = recipients[j]

Once(recipients) ==
  \A i, j \in DOMAIN recipients : recipients[i] = recipients[j] => i = j

Proper(recipients) ==
  \A j \in DOMAIN recipients :
    recipients[j] # exclude /\ Eligible(recipients[j], timestamp)

(* What the loop leaves of a client c that it visits. *)
Visited(c, recipients) ==
  /\ \A i \in DOMAIN c.connections : c.connections[i].second >= timestamp
  /\ timestamp \in Times(c.connections) => c.address \in ToSet(recipients)

(* The clients behind the iterator have been visited, except those that    *)
(* the loop stepped over and the excluded one.                             *)
Passed(cs, i, over, recipients) ==
  \A k \in DOMAIN cs :
    k < i /\ cs[k].address \notin over \cup {exclude}
      => Visited(cs[k], recipients)

Scanned ==
  phase = "loop" =>
    /\ Behind(the_clients, clients, it)
    /\ Once(the_clients)
    /\ Proper(the_clients)
    /\ Passed(clients, it, skipped, the_clients)

(* The loop moves on by one client at most: what is behind it stays.       *)
LEMMA StepKeepsBehind ==
  ASSUME NEW cs, NEW ds, NEW i \in Nat, NEW j \in Nat, i <= j,
         NEW recipients, Behind(recipients, cs, i),
         \A k \in DOMAIN cs : k < i =>
           k \in DOMAIN ds /\ ds[k].address = cs[k].address,
         DOMAIN cs \subseteq Nat
  PROVE  Behind(recipients, ds, j)
<1> SUFFICES ASSUME NEW m \in DOMAIN recipients
             PROVE  \E k \in DOMAIN ds : k < j /\ ds[k].address = recipients[m]
  BY DEF Behind
<1>1. PICK k \in DOMAIN cs : k < i /\ cs[k].address = recipients[m]
  BY Zenon DEF Behind
<1>2. k < j /\ k \in DOMAIN ds /\ ds[k].address = recipients[m]
  BY <1>1
<1>3. QED
  BY <1>2

(* A client that is visited. *)
LEMMA VisitKeepsScanned ==
  ASSUME WellFormed, TimesRight, Scanned, Visit PROVE Scanned'
<1> DEFINE c == clients[it]
           q == c.connections
           r == the_clients
<1>1. /\ phase = "loop" /\ it \in Nat \ {0} /\ it <= Len(clients)
      /\ clients \in Seq(Client) /\ timestamp \in Nat /\ now \in Nat
      /\ the_clients \in Seq(Address)
      /\ clients' = clients /\ it' = it + 1 /\ phase' = phase
      /\ exclude' = exclude /\ timestamp' = timestamp /\ contacts' = contacts
      /\ skipped' = skipped
      /\ c.address # exclude /\ q # <<>> /\ ~ (Head(q).second < timestamp)
      /\ the_clients' = IF in_bounds(timestamp, Head(q))
                        THEN Append(r, c.address) ELSE r
  BY DEF Visit, InLoop, WellFormed, TypeOK, Intervals, Expired
<1>2. /\ Len(clients) \in Nat /\ DOMAIN clients = 1 .. Len(clients)
      /\ it \in DOMAIN clients /\ c.address \in Address /\ q \in Seq(Interval)
  BY <1>1, ClientFacts
<1>3. Behind(r, clients, it) /\ Once(r) /\ Proper(r)
      /\ Passed(clients, it, skipped, r)
  BY <1>1 DEF Scanned
<1>4. InOrder(q, now)
  BY <1>2 DEF WellFormed, IntervalsInOrder
<1>5. /\ \A i \in DOMAIN q : q[i].second >= timestamp
      /\ timestamp \in Times(q) <=> in_bounds(timestamp, Head(q))
  <2> HIDE DEF q
  <2>1. QED
    BY <1>1, <1>2, <1>4, FirstInterval
<1>6. \A k \in DOMAIN clients : k < it + 1 => k < it \/ k = it
  BY <1>1, <1>2
<1>7. Behind(r, clients, it + 1)
  BY <1>1, <1>2, <1>3, StepKeepsBehind
<1>8. ASSUME NEW R, ToSet(r) \subseteq ToSet(R),
             timestamp \in Times(q) => c.address \in ToSet(R)
      PROVE  Passed(clients, it + 1, skipped, R)
  <2> SUFFICES ASSUME NEW k \in DOMAIN clients, k < it + 1,
                      clients[k].address \notin skipped \cup {exclude}
               PROVE  Visited(clients[k], R)
    BY Zenon DEF Passed
  <2>1. CASE k < it
    BY <1>3, <1>8, <2>1 DEF Passed, Visited
  <2>2. CASE k = it
    BY <1>5, <1>8, <2>2 DEF Visited
  <2>3. QED
    BY <1>6, <2>1, <2>2
<1>9. CASE ~ in_bounds(timestamp, Head(q))
  <2>1. the_clients' = r
    BY <1>1, <1>9
  <2>2. Passed(clients, it + 1, skipped, r)
    BY <1>5, <1>8, <1>9
  <2>3. QED
    BY <1>1, <1>3, <1>7, <2>1, <2>2
       DEF Scanned, Proper, Passed, Eligible, Visited
<1>10. CASE in_bounds(timestamp, Head(q))
  <2> DEFINE R == Append(r, c.address)
             m == Len(r)
  <2>1. /\ the_clients' = R
        /\ m \in Nat /\ DOMAIN r = 1 .. m /\ DOMAIN R = 1 .. m + 1
        /\ \A j \in 1 .. m : R[j] = r[j]
        /\ R[m + 1] = c.address
    BY <1>1, <1>2, <1>10, AppendProperties, LenProperties
  <2>2. /\ \A j \in 1 .. m + 1 : j \in 1 .. m \/ j = m + 1
        /\ 1 .. m \subseteq 1 .. m + 1 /\ m + 1 \in 1 .. m + 1
        /\ m + 1 \notin 1 .. m
    BY <2>1
  <2>3. Holds(clients, c.address, timestamp)
    BY <1>2, <1>5, <1>10 DEF Holds
  <2>4. Eligible(c.address, timestamp)
    BY <1>1, <1>2, <2>3 DEF TimesRight, Matching
  <2>5. ASSUME NEW j \in 1 .. m PROVE r[j] # c.address
    <3>1. PICK k \in DOMAIN clients : k < it /\ clients[k].address = r[j]
      BY <1>3, <2>1, Zenon DEF Behind
    <3>2. k # it
      BY <1>1, <1>2, <3>1
    <3>3. QED
      BY <1>2, <3>1, <3>2 DEF WellFormed, AddressesDistinct
  <2>6. ToSet(r) \subseteq ToSet(R) /\ c.address \in ToSet(R)
    <3> HIDE DEF r, R, m, c
    <3>1. QED
      BY <2>1, <2>2, Zenon DEF ToSet
  <2>7. Passed(clients, it + 1, skipped, R)
    BY <1>8, <2>6
  <2> HIDE DEF R, m
  <2>8. Behind(R, clients, it + 1)
    <3> SUFFICES ASSUME NEW j \in 1 .. m + 1
                 PROVE  \E k \in DOMAIN clients :
                          k < it + 1 /\ clients[k].address = R[j]
      BY <2>1, Zenon DEF Behind
    <3>1. CASE j \in 1 .. m
      BY <1>7, <2>1, <3>1, Zenon DEF Behind
    <3>2. CASE j = m + 1
      BY <1>1, <1>2, <2>1, <3>2
    <3>3. QED
      BY <2>2, <3>1, <3>2
  <2>9. Once(R)
    <3> HIDE DEF r, c
    <3>1. \A i, j \in 1 .. m : r[i] = r[j] => i = j
      BY <1>3, <2>1 DEF Once
    <3>2. QED
      BY <2>1, <2>2, <2>5, <3>1 DEF Once
  <2>10. Proper(R)
    <3> HIDE DEF r, c
    <3>1. \A j \in 1 .. m : R[j] # exclude /\ Eligible(R[j], timestamp)
      BY <1>3, <2>1 DEF Proper
    <3>2. QED
      BY <1>1, <2>1, <2>2, <2>4, <3>1 DEF Proper
  <2>11. QED
    BY <1>1, <2>1, <2>7, <2>8, <2>9, <2>10
       DEF Scanned, Proper, Passed, Eligible, Visited
<1>11. QED
  BY <1>9, <1>10

(* A client is erased at the iterator, which then stays or moves over the  *)
(* next client.                                                            *)
LEMMA EraseKeepsScanned ==
  ASSUME WellFormed, Scanned, Erase, NEW j \in {it, it + 1}, NEW over,
         skipped \subseteq over,
         j = it + 1 /\ it < Len(clients) => clients[it + 1].address \in over
  PROVE  /\ Behind(the_clients, RemoveAt(clients, it), j)
         /\ Passed(RemoveAt(clients, it), j, over, the_clients)
<1> DEFINE d == RemoveAt(clients, it)
           n == Len(clients)
<1>1. /\ phase = "loop" /\ it \in Nat \ {0} /\ it <= n
      /\ clients \in Seq(Client) /\ clients[it].connections = <<>>
      /\ clients[it].address # exclude
  BY DEF Erase, InLoop, WellFormed, TypeOK, Intervals
<1>2. n \in Nat /\ DOMAIN clients = 1 .. n /\ it \in 1 .. n
  BY <1>1, ClientFacts
<1>3. /\ DOMAIN d = 1 .. n - 1
      /\ \A k \in 1 .. n - 1 : d[k] = IF k < it THEN clients[k] ELSE clients[k + 1]
  BY <1>1, <1>2, ErasedClient
<1>4. Behind(the_clients, clients, it) /\ Passed(clients, it, skipped, the_clients)
  BY <1>1 DEF Scanned
<1> HIDE DEF d, n
<1>5. Behind(the_clients, d, j)
  <2>1. \A k \in DOMAIN clients : k < it =>
          k \in DOMAIN d /\ d[k].address = clients[k].address
    BY <1>2, <1>3
  <2>2. it \in Nat /\ j \in Nat /\ it <= j /\ DOMAIN clients \subseteq Nat
    BY <1>1, <1>2
  <2>3. QED
    BY <1>4, <2>1, <2>2, StepKeepsBehind
<1>6. Passed(d, j, over, the_clients)
  <2> SUFFICES ASSUME NEW k \in 1 .. n - 1, k < j,
                      d[k].address \notin over \cup {exclude}
               PROVE  Visited(d[k], the_clients)
    BY <1>3, Zenon DEF Passed
  <2>1. CASE k < it
    <3>1. d[k] = clients[k] /\ k \in DOMAIN clients
      BY <1>2, <1>3, <2>1
    <3>2. clients[k].address \notin skipped \cup {exclude}
      BY <3>1
    <3>3. Visited(clients[k], the_clients)
      BY <1>4, <2>1, <3>1, <3>2, Zenon DEF Passed
    <3>4. QED
      BY <3>1, <3>3
  <2>2. CASE ~ (k < it)
    <3>1. k = it /\ j = it + 1 /\ it < n
      BY <1>1, <1>2, <2>2
    <3>2. d[k] = clients[it + 1]
      BY <1>3, <2>2, <3>1
    <3>3. d[k].address \in over
      BY <3>1, <3>2 DEF n
    <3>4. QED
      BY <3>3
  <2>3. QED
    BY <2>1, <2>2
<1>7. QED
  BY <1>5, <1>6 DEF d

LEMMA LoopKeepsScanned ==
  ASSUME WellFormed, TimesRight, Scanned, LoopStep PROVE Scanned'
<1> DEFINE n == Len(clients)
<1>1. /\ phase = "loop" /\ it \in Nat \ {0} /\ it <= n
      /\ clients \in Seq(Client)
      /\ exclude' = exclude /\ timestamp' = timestamp /\ contacts' = contacts
  BY DEF LoopStep, Exclude, PopInterval, Erase, EraseFront,
         EraseBack, EraseLast, Visit, InLoop, scan, WellFormed, TypeOK
<1>2. n \in Nat /\ DOMAIN clients = 1 .. n /\ it \in 1 .. n
  BY <1>1, ClientFacts
<1>3. /\ Behind(the_clients, clients, it) /\ Once(the_clients)
      /\ Proper(the_clients) /\ Passed(clients, it, skipped, the_clients)
  BY <1>1 DEF Scanned
<1> HIDE DEF n
<1>4. ASSUME the_clients' = the_clients,
             Behind(the_clients, clients', it'),
             Passed(clients', it', skipped', the_clients)
      PROVE  Scanned'
  BY <1>1, <1>3, <1>4 DEF Scanned, Proper, Passed, Eligible, Visited
<1>5. CASE Exclude
  <2>1. /\ the_clients' = the_clients /\ clients' = clients /\ it' = it + 1
        /\ skipped' = skipped /\ clients[it].address = exclude
    BY <1>5 DEF Exclude
  <2>2. Behind(the_clients, clients, it + 1)
    BY <1>1, <1>2, <1>3, StepKeepsBehind
  <2>3. \A k \in 1 .. n : k < it + 1 => k < it \/ k = it
    BY <1>1, <1>2
  <2>4. Passed(clients, it + 1, skipped, the_clients)
    BY <1>2, <1>3, <2>1, <2>3 DEF Passed
  <2>5. QED
    BY <1>4, <2>1, <2>2, <2>4
<1>6. CASE PopInterval
  <2> DEFINE q == clients[it].connections
  <2>1. /\ clients' = Updated(clients, it, Tail(q)) /\ q # <<>>
        /\ the_clients' = the_clients /\ it' = it /\ skipped' = skipped
    BY <1>6 DEF PopInterval, Updated, Intervals, scan
  <2>2. q \in Seq(Interval)
    BY <1>1, <1>2, ClientFacts DEF n
  <2> HIDE DEF q
  <2>3. Tail(q) \in Seq(Interval)
    BY <2>1, <2>2, HeadTailProperties
  <2>4. /\ DOMAIN clients' = DOMAIN clients
        /\ \A k \in DOMAIN clients :
             /\ clients'[k].address = clients[k].address
             /\ k # it => clients'[k].connections = clients[k].connections
    <3> DEFINE r == Tail(q)
    <3>1. r \in Seq(Interval) /\ it \in 1 .. Len(clients)
          /\ clients' = Updated(clients, it, r)
      BY <1>2, <2>1, <2>3 DEF n
    <3> HIDE DEF r
    <3>2. /\ DOMAIN clients' = DOMAIN clients
          /\ \A k \in DOMAIN clients :
               /\ clients'[k].address = clients[k].address
               /\ clients'[k].connections
                    = IF k = it THEN r ELSE clients[k].connections
      BY <1>1, <3>1, UpdatedClients
    <3>3. QED
      BY <3>2
  <2>5. Behind(the_clients, clients', it)
    <3>1. /\ it \in Nat /\ it <= it /\ DOMAIN clients \subseteq Nat
          /\ \A k \in DOMAIN clients : k < it =>
               k \in DOMAIN clients' /\ clients'[k].address = clients[k].address
      BY <1>1, <1>2, <2>4
    <3>2. QED
      BY <1>3, <3>1, StepKeepsBehind
  <2>6. Passed(clients', it, skipped, the_clients)
    <3>1. \A k \in DOMAIN clients : k < it => k # it
      BY <1>1, <1>2
    <3>2. QED
      BY <1>3, <2>4, <3>1, Zenon DEF Passed, Visited
  <2>7. QED
    BY <1>4, <2>1, <2>5, <2>6
<1>7. CASE EraseFront
  <2>1. /\ Erase /\ clients' = RemoveAt(clients, it)
        /\ the_clients' = the_clients /\ it' = it /\ skipped' = skipped
    BY <1>7 DEF EraseFront, Erase, scan
  <2>2. it # it + 1
    BY <1>1
  <2>3. /\ Behind(the_clients, RemoveAt(clients, it), it)
        /\ Passed(RemoveAt(clients, it), it, skipped, the_clients)
    BY <2>1, <2>2, EraseKeepsScanned
  <2>4. QED
    BY <1>4, <2>1, <2>3
<1>8. CASE EraseBack
  <2>1. /\ Erase /\ clients' = RemoveAt(clients, it)
        /\ the_clients' = the_clients /\ it' = it + 1
        /\ skipped' = skipped \cup {clients[it + 1].address}
    BY <1>8 DEF EraseBack, Erase
  <2>2. /\ Behind(the_clients, RemoveAt(clients, it), it + 1)
        /\ Passed(RemoveAt(clients, it), it + 1, skipped', the_clients)
    BY <2>1, EraseKeepsScanned
  <2>3. QED
    BY <1>4, <2>1, <2>2
<1>9. CASE EraseLast
  BY <1>9 DEF EraseLast, Scanned
<1>10. CASE Visit
  BY <1>10, VisitKeepsScanned
<1>11. QED
  BY <1>5, <1>6, <1>7, <1>8, <1>9, <1>10 DEF LoopStep

LEMMA NextKeepsScanned ==
  WellFormed /\ TimesRight /\ Scanned /\ [Next]_vars => Scanned'
<1> SUFFICES ASSUME WellFormed, TimesRight, Scanned, [Next]_vars
             PROVE  Scanned'
  OBVIOUS
<1>1. CASE Tick \/ UNCHANGED vars
  <2>1. UNCHANGED <<clients, scan, contacts>>
    BY <1>1 DEF Tick, vars, scan
  <2>2. QED
    BY <2>1 DEF Scanned, Proper, Passed, Eligible, Visited, scan
<1>2. CASE \E a \in Address, t \in now .. MaxTime : add_client(a, t)
  BY <1>2 DEF add_client, scan, Scanned
<1>3. ASSUME NEW t \in timestamp .. now, NEW ex \in Address \cup {NoOne},
             get_clients(t, ex)
      PROVE  Scanned'
  <2>1. /\ phase = "idle" /\ it = 1 /\ the_clients = <<>>
        /\ UNCHANGED <<clients, it, the_clients, skipped>>
    BY <1>3 DEF get_clients, WellFormed, TypeOK
  <2>2. DOMAIN the_clients = {}
    BY <2>1
  <2>3. \A k \in DOMAIN clients : ~ (k < 1)
    BY ClientFacts DEF WellFormed, TypeOK
  <2>4. Behind(the_clients', clients', it')
    BY <2>1, <2>2 DEF Behind
  <2>5. Once(the_clients')
    BY <2>1, <2>2 DEF Once
  <2>6. Proper(the_clients)'
    BY <2>1, <2>2 DEF Proper
  <2>7. Passed(clients, it, skipped, the_clients)'
    <3>1. \A k \in DOMAIN clients' : ~ (k < it')
      BY <2>1, <2>3
    <3>2. QED
      BY <3>1, Zenon DEF Passed
  <2>8. QED
    BY <2>4, <2>5, <2>6, <2>7 DEF Scanned
<1>4. CASE LoopStep
  BY <1>4, LoopKeepsScanned
<1>5. CASE Return
  BY <1>5 DEF Return, Scanned
<1>6. QED
  BY <1>1, <1>2, <1>3, <1>4, <1>5 DEF Next

(* The inductive invariant of the register. *)
Right == WellFormed /\ TimesRight /\ Scanned

LEMMA InitRight == Init => Right
BY InitWellFormed, InitTimesRight DEF Init, Right, Scanned

LEMMA NextKeepsRight == Right /\ [Next]_vars => Right'
BY NextKeepsWellFormed, NextKeepsTimesRight, NextKeepsScanned, Zenon DEF Right

LEMMA AlwaysRight == Spec => []Right
BY InitRight, NextKeepsRight, PTL DEF Spec

LEMMA RightRecipients == Right => RecipientsAreEligible
BY DEF Right, Scanned, Once, Proper, RecipientsAreEligible

(* A recipient is not the excluded client, is not there twice, and was in  *)
(* contact in the TIMEOUT seconds before.                                  *)
THEOREM ConnectionsEligible == Spec => []RecipientsAreEligible
BY RightRecipients, AlwaysRight, PTL

LEMMA RightMissed ==
  ASSUME Right
  PROVE  OnlySkippedAreMissed
<1> SUFFICES ASSUME AtEnd, NEW a \in Address \ {exclude},
                    Eligible(a, timestamp), a \notin skipped
             PROVE  a \in ToSet(the_clients)
  BY DEF OnlySkippedAreMissed
<1>1. /\ phase = "loop" /\ it = Len(clients) + 1 /\ timestamp \in Nat
      /\ clients \in Seq(Client)
  BY DEF AtEnd, Right, WellFormed, TypeOK
<1>2. Holds(clients, a, timestamp)
  BY <1>1 DEF Right, TimesRight, Matching
<1>3. PICK k \in DOMAIN clients :
        clients[k].address = a /\ timestamp \in Times(clients[k].connections)
  BY <1>2 DEF Holds
<1>4. k < it
  BY <1>1, ClientFacts
<1>5. Passed(clients, it, skipped, the_clients)
  BY <1>1 DEF Right, Scanned
<1>6. QED
  BY <1>3, <1>4, <1>5 DEF Passed, Visited

(* Whom the loop neither returns nor steps over is not eligible.           *)
THEOREM ConnectionsMissed == Spec => []OnlySkippedAreMissed
BY RightMissed, AlwaysRight, PTL

(* Only the excluded client and those that the loop stepped over keep      *)
(* intervals that ended before timestamp.                                  *)
THEOREM ConnectionsPruned == Spec => []OnlyPassedKeepOldIntervals
<1>1. ASSUME Right PROVE OnlyPassedKeepOldIntervals
  <2> SUFFICES ASSUME AtEnd, NEW k \in DOMAIN clients,
                      clients[k].address \notin skipped \cup {exclude}
               PROVE  \A i \in DOMAIN clients[k].connections :
                        clients[k].connections[i].second >= timestamp
    BY DEF OnlyPassedKeepOldIntervals
  <2>1. /\ phase = "loop" /\ it = Len(clients) + 1 /\ clients \in Seq(Client)
    BY <1>1 DEF AtEnd, Right, WellFormed, TypeOK
  <2>2. k < it
    BY <2>1, ClientFacts
  <2>3. Passed(clients, it, skipped, the_clients)
    BY <1>1, <2>1 DEF Right, Scanned
  <2>4. QED
    BY <2>2, <2>3 DEF Passed, Visited
<1>2. QED
  BY <1>1, AlwaysRight, PTL

-----------------------------------------------------------------------------
(* What keeps the erased iterator from doing harm.                         *)

(* No client of the deque, but ex, has only intervals that ended before t. *)
NobodyExpired(t, ex) ==
  \A k \in DOMAIN clients :
    clients[k].address # ex =>
      \E i \in DOMAIN clients[k].connections :
        clients[k].connections[i].second >= t

(* get_clients is called only when there is no such client.                *)
CallsWithNobodyExpired ==
  phase = "idle" /\ phase' = "loop" => NobodyExpired(timestamp', exclude')

Unharmed ==
  /\ phase # "undefined"
  /\ phase = "loop" => skipped = {} /\ NobodyExpired(timestamp, exclude)

(* Popping what ended before t leaves the interval that did not.           *)
LEMMA PopKeepsUnharmed ==
  ASSUME WellFormed, Unharmed, PopInterval
  PROVE  Unharmed'
<1> DEFINE q == clients[it].connections
<1>1. /\ clients \in Seq(Client) /\ phase = "loop" /\ skipped = {}
      /\ NobodyExpired(timestamp, exclude)
      /\ it \in Nat \ {0} /\ it <= Len(clients) /\ clients[it].address # exclude
      /\ q # <<>> /\ Head(q).second < timestamp
      /\ clients' = [clients EXCEPT ![it].connections = Tail(q)]
      /\ UNCHANGED <<phase, skipped, timestamp, exclude>>
  BY DEF WellFormed, TypeOK, Unharmed, PopInterval, InLoop, Intervals,
         Expired, scan
<1>2. it \in DOMAIN clients /\ q \in Seq(Interval) /\ timestamp \in Nat
  BY <1>1, ClientFacts DEF WellFormed, TypeOK
<1>3. PICK i \in DOMAIN q : q[i].second >= timestamp
  BY <1>1, <1>2 DEF NobodyExpired
<1>4. /\ Len(q) \in Nat /\ DOMAIN q = 1 .. Len(q)
      /\ \A j \in 1 .. Len(q) : q[j].second \in Nat
      /\ Head(q) = q[1]
  BY <1>1, <1>2, QueueFacts
<1>5. i # 1 /\ i \in 1 .. Len(q)
  BY <1>1, <1>2, <1>3, <1>4
<1>6. i - 1 \in DOMAIN Tail(q) /\ Tail(q)[i - 1] = q[i]
  BY <1>1, <1>2, <1>4, <1>5
<1> DEFINE r == Tail(q)
           c == clients[it]
           d == [clients[it] EXCEPT !.connections = r]
<1>7. /\ DOMAIN clients' = DOMAIN clients
      /\ clients'[it].address = clients[it].address
      /\ clients'[it].connections = r
      /\ \A k \in DOMAIN clients \ {it} : clients'[k] = clients[k]
  <2>1. clients[it] \in Client
    BY <1>1, <1>2, ClientFacts
  <2> HIDE DEF r
  <2>2. d.address = clients[it].address /\ d.connections = r
    BY <2>1 DEF Client
  <2>3. clients' = [clients EXCEPT ![it] = d]
    BY <1>1 DEF r
  <2> HIDE DEF d
  <2> QED
    BY <1>2, <2>2, <2>3
<1> HIDE DEF r, q
<1>8. NobodyExpired(timestamp, exclude)'
  <2> SUFFICES ASSUME NEW k \in DOMAIN clients, clients'[k].address # exclude
               PROVE  \E j \in DOMAIN clients'[k].connections :
                        clients'[k].connections[j].second >= timestamp
    BY <1>1, <1>7 DEF NobodyExpired
  <2>1. CASE k = it
    BY <1>3, <1>6, <1>7, <2>1 DEF r
  <2>2. CASE k # it
    BY <1>1, <1>7, <2>2 DEF NobodyExpired
  <2> QED
    BY <2>1, <2>2
<1> QED
  BY <1>1, <1>8 DEF Unharmed

LEMMA NextKeepsUnharmed ==
  ASSUME WellFormed, Unharmed, [Next]_vars, [CallsWithNobodyExpired]_vars
  PROVE  Unharmed'
<1>1. CASE UNCHANGED <<clients, scan>>
  BY <1>1 DEF Unharmed, NobodyExpired, scan
<1>2. CASE UNCHANGED vars \/ Tick
  BY <1>1, <1>2 DEF vars, Tick, scan
<1>3. ASSUME NEW a, NEW t, add_client(a, t) PROVE Unharmed'
  BY <1>3 DEF add_client, scan, Unharmed
<1>4. ASSUME NEW t, NEW ex, get_clients(t, ex) PROVE Unharmed'
  <2>1. /\ phase = "idle" /\ phase' = "loop" /\ skipped' = skipped
        /\ clients' = clients
    BY <1>4 DEF get_clients
  <2>2. skipped = {}
    BY <2>1 DEF WellFormed, TypeOK
  <2>3. CallsWithNobodyExpired
    BY <2>1 DEF vars
  <2>4. NobodyExpired(timestamp', exclude')
    BY <2>1, <2>3 DEF CallsWithNobodyExpired
  <2>5. NobodyExpired(timestamp, exclude)'
    BY <2>1, <2>4 DEF NobodyExpired
  <2> QED
    BY <2>1, <2>2, <2>5 DEF Unharmed
<1>5. CASE PopInterval
  BY <1>5, PopKeepsUnharmed
<1>6. CASE Exclude \/ Visit
  <2>1. UNCHANGED <<clients, phase, timestamp, exclude, skipped>>
    BY <1>6 DEF Exclude, Visit
  <2> QED
    BY <2>1 DEF Unharmed, NobodyExpired
<1>7. CASE Erase
  <2>1. /\ clients \in Seq(Client) /\ phase = "loop"
        /\ NobodyExpired(timestamp, exclude)
        /\ it \in Nat \ {0} /\ it <= Len(clients)
        /\ clients[it].address # exclude /\ clients[it].connections = <<>>
    BY <1>7 DEF WellFormed, TypeOK, Unharmed, Erase, InLoop, Intervals
  <2>2. it \in DOMAIN clients /\ DOMAIN clients[it].connections = {}
    BY <2>1, ClientFacts
  <2> QED
    BY <2>1, <2>2 DEF NobodyExpired
<1>8. CASE Return
  BY <1>8 DEF Return, Unharmed
<1> QED
  BY <1>2, <1>3, <1>4, <1>5, <1>6, <1>7, <1>8
     DEF Next, LoopStep, EraseFront, EraseBack, EraseLast

(* The misuse of erase at connections.h:105 is harmless as long as no      *)
(* other client of the deque has expired when get_clients is called: the   *)
(* loop stays in the deque and returns every eligible client.              *)
THEOREM ConnectionsUnharmed ==
  Spec /\ [][CallsWithNobodyExpired]_vars =>
    [](phase # "undefined" /\ EveryEligibleClientIsReturned)
<1>1. Init => Unharmed
  BY DEF Init, Unharmed
<1>2. Right /\ Unharmed /\ [Next]_vars /\ [CallsWithNobodyExpired]_vars
        => Unharmed'
  BY NextKeepsUnharmed DEF Right
<1>3. Right /\ OnlySkippedAreMissed /\ Unharmed =>
        phase # "undefined" /\ EveryEligibleClientIsReturned
  BY DEF OnlySkippedAreMissed, EveryEligibleClientIsReturned, Unharmed, AtEnd
<1> QED
  BY <1>1, <1>2, <1>3, AlwaysRight, ConnectionsMissed, PTL DEF Spec
=============================================================================

----------------------------- MODULE PollProofs -----------------------------
(***************************************************************************)
(* Proofs about the poll set of Poll.tla, for every number of slots and    *)
(* any set of descriptors.  The descriptors in the slots are looked at as  *)
(* the image of the array: adding one fills an empty slot, removing one    *)
(* overwrites its slot with another, and neither loses or doubles a third. *)
(* PollInv is the inductive invariant; what it adds to the invariants of   *)
(* Poll.tla is that the descriptors are finitely many, and that as long as *)
(* none has been removed the slots in use are the first clients_length.    *)
(***************************************************************************)
EXTENDS Poll, FiniteSetTheorems, TLAPS

Client == [fd : Descriptor \cup {NoDescriptor},
           events : SUBSET Event, revents : SUBSET Event]

(* The descriptors that the slots of c hold.                               *)
Held(c) == {c[i].fd : i \in Slots} \ {NoDescriptor}

(* No descriptor is in two slots of c.                                     *)
Single(c) ==
  \A i, j \in Slots :
     c[i].fd = c[j].fd /\ i # j => c[i].fd = NoDescriptor

(* A slot of c without a descriptor has no events.                         *)
Clean(c) ==
  \A i \in Slots : c[i].fd = NoDescriptor =>
    c[i].events = {} /\ c[i].revents = {}

(* The slots of c in use are the first n.                                  *)
Packed(c, n) == \A i \in Slots : c[i].fd # NoDescriptor <=> i < n

(* The inductive invariant.                                                *)
Counted ==
  /\ IsFiniteSet(added)
  /\ LengthCounts

Prefix ==
  ~ removed => outcome # "undefined" /\ Packed(clients, clients_length)

PollInv == TypeOK /\ HoldsAdded /\ Counted /\ Prefix

-----------------------------------------------------------------------------
(* Operators.                                                              *)

(* There are finitely many slots.                                          *)
LEMMA SlotsFinite ==
  /\ IsFiniteSet(Slots)
  /\ Cardinality(Slots) = max_clients
<1>1. /\ IsFiniteSet(0 .. max_clients - 1)
      /\ Cardinality(0 .. max_clients - 1) =
           IF 0 > max_clients - 1 THEN 0 ELSE max_clients - 1 - 0 + 1
  BY FS_Interval, PollAssumption
<1> QED
  BY <1>1, PollAssumption DEF Slots

(* The slots hold at most max_clients descriptors, and just as many when   *)
(* each slot holds one and none is in two slots.                           *)
LEMMA HeldAtMost ==
  ASSUME NEW c
  PROVE  /\ IsFiniteSet(Held(c))
         /\ Cardinality(Held(c)) \in Nat
         /\ Cardinality(Held(c)) <= max_clients
         /\ (\A i \in Slots : c[i].fd # NoDescriptor) /\ Single(c)
               => Cardinality(Held(c)) = max_clients
<1> DEFINE f == [i \in Slots |-> c[i].fd]
           R == {c[i].fd : i \in Slots}
<1>1. f \in Surjection(Slots, R)
  BY DEF Surjection
<1>2. Held(c) \in SUBSET R
  BY DEF Held
<1>3. ASSUME \A i \in Slots : c[i].fd # NoDescriptor, Single(c)
      PROVE  Held(c) = R /\ f \in Injection(Slots, R)
  <2>1. Held(c) = R
    BY <1>3 DEF Held
  <2>2. ASSUME NEW i \in Slots, NEW j \in Slots, f[i] = f[j]
        PROVE  i = j
    BY <1>3, <2>2 DEF Single
  <2>3. f \in [Slots -> R]
    OBVIOUS
  <2> HIDE DEF f, R
  <2> QED
    BY <2>1, <2>2, <2>3 DEF Injection, IsInjective
<1> HIDE DEF f, R
<1>4. /\ IsFiniteSet(R)
      /\ Cardinality(R) <= Cardinality(Slots)
      /\ Cardinality(R) = Cardinality(Slots) <=> f \in Injection(Slots, R)
  BY <1>1, SlotsFinite, FS_Surjection
<1>5. /\ IsFiniteSet(Held(c))
      /\ Cardinality(Held(c)) <= Cardinality(R)
  BY <1>2, <1>4, FS_Subset
<1>6. Cardinality(R) \in Nat /\ Cardinality(Held(c)) \in Nat
  BY <1>4, <1>5, FS_CardinalityType
<1> QED
  BY <1>3, <1>4, <1>5, <1>6, SlotsFinite, PollAssumption

(* Filling an empty slot adds the descriptor to what is held.              *)
LEMMA Filled ==
  ASSUME NEW c, NEW d, NEW fd \in Descriptor, NEW index \in Slots,
         Single(c), c[index].fd = NoDescriptor,
         \A i \in Slots : c[i].fd # fd,
         \A i \in Slots : d[i].fd = IF i = index THEN fd ELSE c[i].fd
  PROVE  Single(d) /\ Held(d) = Held(c) \cup {fd}
<1>1. fd # NoDescriptor
  BY PollAssumption
<1>2. Single(d)
  BY <1>1 DEF Single
<1>3. ASSUME NEW x \in Held(d) PROVE x \in Held(c) \cup {fd}
  BY <1>3 DEF Held
<1>4. fd \in Held(d)
  BY <1>1 DEF Held
<1>5. ASSUME NEW x \in Held(c) PROVE x \in Held(d)
  <2>1. PICK i \in Slots : c[i].fd = x /\ x # NoDescriptor
    BY <1>5 DEF Held
  <2>2. d[i].fd = x
    BY <2>1
  <2> QED
    BY <2>1, <2>2 DEF Held
<1> QED
  BY <1>2, <1>3, <1>4, <1>5

(* Overwriting the slot of a descriptor with another slot, which is left   *)
(* empty, takes the descriptor out of what is held and nothing else.       *)
LEMMA Overwritten ==
  ASSUME NEW c, NEW d, NEW fd \in Descriptor,
         NEW index \in Slots, NEW from \in Slots,
         Single(c), c[index].fd = fd,
         d[from].fd = NoDescriptor,
         index # from => d[index].fd = c[from].fd,
         \A i \in Slots : i \notin {index, from} => d[i].fd = c[i].fd
  PROVE  Single(d) /\ Held(d) = Held(c) \ {fd}
<1>1. fd # NoDescriptor
  BY PollAssumption
<1>2. Single(d)
  BY <1>1 DEF Single
<1>3. ASSUME NEW x \in Held(d) PROVE x \in Held(c) \ {fd}
  <2>1. PICK i \in Slots : d[i].fd = x /\ x # NoDescriptor
    BY <1>3 DEF Held
  <2>2. i # from
    BY <2>1
  <2>3. CASE i = index
    <3>1. x = c[from].fd /\ from # index
      BY <2>1, <2>2, <2>3
    <3>2. x # fd
      BY <3>1, <2>1 DEF Single
    <3> QED
      BY <3>1, <3>2, <2>1 DEF Held
  <2>4. CASE i # index
    <3>1. x = c[i].fd
      BY <2>1, <2>2, <2>4
    <3>2. x # fd
      BY <3>1, <2>1, <2>4 DEF Single
    <3> QED
      BY <3>1, <3>2, <2>1 DEF Held
  <2> QED
    BY <2>3, <2>4
<1>4. ASSUME NEW x \in Held(c), x # fd PROVE x \in Held(d)
  <2>1. PICK i \in Slots : c[i].fd = x /\ x # NoDescriptor
    BY <1>4 DEF Held
  <2>2. i # index
    BY <2>1, <1>4
  <2>3. CASE i = from
    <3>1. d[index].fd = x
      BY <2>1, <2>2, <2>3
    <3> QED
      BY <3>1, <2>1 DEF Held
  <2>4. CASE i # from
    <3>1. d[i].fd = x
      BY <2>1, <2>2, <2>4
    <3> QED
      BY <3>1, <2>1 DEF Held
  <2> QED
    BY <2>3, <2>4
<1> QED
  BY <1>2, <1>3, <1>4

(* The slot records that the operations write.                             *)
LEMMA SlotRecords ==
  ASSUME NEW r \in Client
  PROVE  /\ reset_client(r) =
              [fd |-> NoDescriptor, events |-> {}, revents |-> {}]
         /\ \A fd, events :
              [[r EXCEPT !.fd = fd] EXCEPT !.events = events] =
                [fd |-> fd, events |-> events, revents |-> r.revents]
<1>1. r = [fd |-> r.fd, events |-> r.events, revents |-> r.revents]
  BY DEF Client
<1> DEFINE a == r.fd
           b == r.events
           d == r.revents
<1>2. r = [fd |-> a, events |-> b, revents |-> d]
  BY <1>1
<1> HIDE DEF a, b, d
<1>3. reset_client(r) =
        [fd |-> NoDescriptor, events |-> {}, revents |-> {}]
  <2> DEFINE s == [r EXCEPT !.fd = NoDescriptor]
             t == [s EXCEPT !.events = {}]
  <2>1. reset_client(r) = [t EXCEPT !.revents = {}]
    BY DEF reset_client
  <2>2. s = [fd |-> NoDescriptor, events |-> b, revents |-> d]
    BY <1>2
  <2> HIDE DEF s
  <2>3. t = [fd |-> NoDescriptor, events |-> {}, revents |-> d]
    BY <2>2
  <2> HIDE DEF t
  <2> QED
    BY <2>1, <2>3
<1>4. ASSUME NEW fd, NEW events
      PROVE  [[r EXCEPT !.fd = fd] EXCEPT !.events = events] =
               [fd |-> fd, events |-> events, revents |-> r.revents]
  <2> DEFINE s == [r EXCEPT !.fd = fd]
  <2>1. r.revents = d
    BY <1>2
  <2>2. s = [fd |-> fd, events |-> b, revents |-> d]
    BY <1>2
  <2> HIDE DEF s
  <2>3. [s EXCEPT !.events = events] =
          [fd |-> fd, events |-> events, revents |-> d]
    BY <2>2
  <2> QED
    BY <2>1, <2>3 DEF s
<1> QED
  BY <1>3, <1>4

(* When the descriptors stay in their slots the same ones are held.        *)
LEMMA SameHeld ==
  ASSUME NEW c, NEW d, \A i \in Slots : d[i].fd = c[i].fd
  PROVE  /\ Held(d) = Held(c)
         /\ Single(c) => Single(d)
         /\ \A n : Packed(c, n) => Packed(d, n)
BY DEF Held, Single, Packed

(* What the invariants say in these words.                                 *)
LEMMA InWords ==
  /\ HoldsAdded <=> outcome # "undefined" =>
                      Held(clients) = added /\ Single(clients)
  /\ TypeOK => clients \in [Slots -> Client] /\ Clean(clients)
BY DEF HoldsAdded, Held, Single, TypeOK, Client, Clean

(* A descriptor that no slot holds is not among those held.                *)
LEMMA HeldIffInSlot ==
  ASSUME NEW fd \in Descriptor
  PROVE  NotIn(fd) <=> fd \notin Held(clients)
BY PollAssumption DEF NotIn, Held

-----------------------------------------------------------------------------
(* The initial state and the steps.                                        *)

(* Nothing is held at first, and the slots are empty.                      *)
LEMMA PollInitInv ==
  Init => PollInv
<1> SUFFICES ASSUME Init PROVE PollInv
  OBVIOUS
<1> USE DEF Init
<1>1. TypeOK
  <2>1. 0 \in 0 .. max_clients
    BY PollAssumption
  <2>2. /\ clients \in [Slots -> Client]
        /\ \A i \in Slots : clients[i].fd = NoDescriptor =>
             clients[i].events = {} /\ clients[i].revents = {}
    BY DEF Client
  <2> QED
    BY <2>1, <2>2 DEF TypeOK, Client
<1>2. HoldsAdded
  BY DEF HoldsAdded
<1>3. Counted
  BY FS_EmptySet DEF Counted, LengthCounts
<1>4. Prefix
  BY DEF Prefix, Packed, Slots
<1> QED
  BY <1>1, <1>2, <1>3, <1>4 DEF PollInv

(* A step that leaves the descriptors in their slots keeps the invariant,  *)
(* when the slots stay clean and their types and the outcome's are right.  *)
LEMMA StayInv ==
  ASSUME PollInv, outcome # "undefined",
         \A i \in Slots : clients'[i].fd = clients[i].fd,
         clients' \in [Slots -> Client], Clean(clients'),
         outcome' \in {"done", "PollException", "out_of_range",
                       "invalid_argument", "PollTimeoutException",
                       "runtime_error"},
         UNCHANGED <<clients_length, added, removed>>
  PROVE  PollInv'
<1>1. /\ Held(clients') = Held(clients)
      /\ Single(clients) => Single(clients')
      /\ Packed(clients, clients_length) => Packed(clients', clients_length)
  BY SameHeld
<1>2. TypeOK'
  BY DEF PollInv, TypeOK, Client, Clean
<1>3. HoldsAdded'
  <2>1. Held(clients) = added /\ Single(clients) /\ added' = added
    BY InWords DEF PollInv
  <2>2. Held(clients') = added' /\ Single(clients')
    BY <1>1, <2>1
  <2> QED
    BY <2>2 DEF HoldsAdded, Held, Single
<1>4. Counted'
  BY DEF PollInv, Counted, LengthCounts
<1>5. Prefix'
  BY <1>1 DEF PollInv, Prefix
<1> QED
  BY <1>2, <1>3, <1>4, <1>5 DEF PollInv

(* An operation that throws and changes nothing else keeps the invariant.  *)
LEMMA ThrowInv ==
  ASSUME PollInv, outcome # "undefined",
         NEW exception \in {"PollException", "out_of_range",
                            "invalid_argument"},
         Throw(exception)
  PROVE  PollInv'
BY StayInv, InWords DEF Throw, PollInv

(* Setting the events of a descriptor keeps the descriptors in their       *)
(* slots; only a slot in use gets events.                                  *)
LEMMA SetEventsInv ==
  ASSUME PollInv, outcome # "undefined",
         NEW fd \in Descriptor, NEW events \in SUBSET Event,
         set_events(fd, events)
  PROVE  PollInv'
<1>1. CASE NotIn(fd) /\ Throw("out_of_range")
  BY <1>1, ThrowInv
<1>2. ASSUME NEW index \in Slots,
             get_index(fd, index),
             clients' = [clients EXCEPT ![index].events = events],
             outcome' = "done",
             UNCHANGED <<clients_length, added, removed>>
      PROVE  PollInv'
  <2>1. clients \in [Slots -> Client] /\ Clean(clients)
    BY InWords DEF PollInv
  <2>2. clients[index].fd = fd /\ fd # NoDescriptor
    BY <1>2, PollAssumption DEF get_index
  <2>3. /\ clients' \in [Slots -> Client]
        /\ \A i \in Slots : clients'[i].fd = clients[i].fd
    BY <1>2, <2>1 DEF Client
  <2>4. Clean(clients')
    BY <1>2, <2>1, <2>2 DEF Clean, Client
  <2> QED
    BY <1>2, <2>3, <2>4, StayInv
<1> QED
  BY <1>1, <1>2 DEF set_events

(* poll only reports events that were waited for, so that a slot without a *)
(* descriptor has none to report.                                          *)
LEMMA WaitInv ==
  ASSUME PollInv, outcome # "undefined",
         (\E reported \in SUBSET (Polled \X Event) : wait(reported))
           \/ wait_fails
  PROVE  PollInv'
<1>1. clients \in [Slots -> Client] /\ Clean(clients)
  BY InWords DEF PollInv
<1>2. CASE wait_fails
  <2>1. clients' = [i \in Slots |-> [clients[i] EXCEPT !.revents = {}]]
    BY <1>2 DEF wait_fails
  <2>2. /\ clients' \in [Slots -> Client]
        /\ \A i \in Slots : clients'[i].fd = clients[i].fd
        /\ Clean(clients')
    BY <1>1, <2>1 DEF Client, Clean
  <2> QED
    BY <1>2, <2>2, StayInv DEF wait_fails
<1>3. ASSUME NEW reported \in SUBSET (Polled \X Event), wait(reported)
      PROVE  PollInv'
  <2> DEFINE seen(i) == {event \in clients[i].events :
                           /\ i < clients_length
                           /\ <<clients[i].fd, event>> \in reported}
  <2>1. clients' = [i \in Slots |-> [clients[i] EXCEPT !.revents = seen(i)]]
    BY <1>3 DEF wait
  <2>2. ASSUME NEW i \in Slots
        PROVE  /\ seen(i) \in SUBSET Event
               /\ clients[i].fd = NoDescriptor => seen(i) = {}
    BY <1>1 DEF Client, Clean
  <2> HIDE DEF seen
  <2>3. ASSUME NEW i \in Slots
        PROVE  /\ clients'[i] = [clients[i] EXCEPT !.revents = seen(i)]
               /\ clients'[i] \in Client
               /\ clients'[i].fd = clients[i].fd
               /\ clients'[i].events = clients[i].events
               /\ clients'[i].revents = seen(i)
    BY <1>1, <2>1, <2>2 DEF Client
  <2>4. clients' \in [Slots -> Client] /\ Clean(clients')
    BY <1>1, <2>1, <2>2, <2>3 DEF Clean
  <2>5. /\ outcome' \in {"PollTimeoutException", "done"}
        /\ UNCHANGED <<clients_length, added, removed>>
    BY <1>3 DEF wait
  <2> QED
    BY <2>3, <2>4, <2>5, StayInv
<1> QED
  BY <1>2, <1>3

(* Adding a descriptor counts it once; while none has been removed the     *)
(* first empty slot is the one behind those in use.                        *)
LEMMA AddInv ==
  ASSUME PollInv, outcome # "undefined",
         NEW fd \in Descriptor, NEW events \in SUBSET Event,
         add_descriptor(fd, events)
  PROVE  PollInv'
<1>0. /\ clients \in [Slots -> Client] /\ Clean(clients)
      /\ Held(clients) = added /\ Single(clients)
      /\ IsFiniteSet(added) /\ clients_length = Cardinality(added)
      /\ added \subseteq Descriptor
      /\ removed \in BOOLEAN
  BY InWords DEF PollInv, Counted, LengthCounts, TypeOK
<1>1. CASE ~ NotIn(fd) /\ Throw("PollException")
  BY <1>1, ThrowInv
<1>2. CASE NotIn(fd) /\ NotIn(NoDescriptor) /\ Throw("overflow_error")
  <2>1. \A i \in Slots : clients[i].fd # NoDescriptor
    BY <1>2 DEF NotIn
  <2>2. Cardinality(Held(clients)) = max_clients
    BY <2>1, <1>0, HeldAtMost
  <2>3. /\ outcome' = "overflow_error"
        /\ UNCHANGED <<clients, clients_length, added, removed>>
    BY <1>2 DEF Throw
  <2>4. TypeOK'
    BY <2>3 DEF PollInv, TypeOK
  <2>5. HoldsAdded'
    BY <2>3, <1>0 DEF HoldsAdded, Held, Single
  <2>6. Counted'
    BY <2>2, <2>3, <1>0 DEF Counted, LengthCounts
  <2>7. Prefix'
    BY <2>3 DEF PollInv, Prefix, Packed
  <2> QED
    BY <2>4, <2>5, <2>6, <2>7 DEF PollInv
<1>3. ASSUME NotIn(fd),
             NEW index \in Slots,
             get_index(NoDescriptor, index),
             clients' = [clients EXCEPT ![index].fd = fd,
                                        ![index].events = events],
             clients_length' = clients_length + 1,
             added' = added \cup {fd},
             outcome' = "done",
             UNCHANGED removed
      PROVE  PollInv'
  <2>0. /\ fd # NoDescriptor
        /\ clients[index].fd = NoDescriptor
        /\ \A i \in 0 .. index - 1 : clients[i].fd # NoDescriptor
        /\ \A i \in Slots : clients[i].fd # fd
    BY <1>3, PollAssumption DEF get_index, NotIn
  <2>1. /\ clients' \in [Slots -> Client]
        /\ \A i \in Slots : clients'[i].fd = IF i = index THEN fd
                                             ELSE clients[i].fd
        /\ Clean(clients')
    <3>1. clients' = [clients EXCEPT ![index] =
                        [fd |-> fd, events |-> events,
                         revents |-> clients[index].revents]]
      <4> DEFINE g == [clients EXCEPT ![index].fd = fd]
      <4>1. clients' = [g EXCEPT ![index].events = events]
        BY <1>3
      <4>2. /\ DOMAIN g = Slots
            /\ \A i \in Slots : g[i] = IF i = index
                                      THEN [clients[index] EXCEPT !.fd = fd]
                                      ELSE clients[i]
        BY <1>0, <1>3
      <4> HIDE DEF g
      <4>3. clients' =
              [i \in Slots |-> IF i = index
                               THEN [g[index] EXCEPT !.events = events]
                               ELSE g[i]]
        BY <4>1, <4>2
      <4>4. [g[index] EXCEPT !.events = events] =
              [fd |-> fd, events |-> events,
               revents |-> clients[index].revents]
        <5>1. clients[index] \in Client
          BY <1>0
        <5>2. g[index] = [clients[index] EXCEPT !.fd = fd]
          BY <4>2
        <5> DEFINE r == clients[index]
        <5>3. /\ r \in Client
              /\ [g[index] EXCEPT !.events = events] =
                   [[r EXCEPT !.fd = fd] EXCEPT !.events = events]
          BY <5>1, <5>2
        <5>4. [[r EXCEPT !.fd = fd] EXCEPT !.events = events] =
                [fd |-> fd, events |-> events, revents |-> r.revents]
          <6> HIDE DEF r
          <6> QED
            BY <5>3, SlotRecords
        <5> QED
          BY <5>3, <5>4
      <4> QED
        BY <4>2, <4>3, <4>4, <1>0
    <3> QED
      BY <3>1, <1>0, <2>0 DEF Client, Clean
  <2>2. Single(clients') /\ Held(clients') = Held(clients) \cup {fd}
    BY <2>0, <2>1, <1>0, Filled
  <2>3. HoldsAdded'
    BY <2>2, <1>0, <1>3 DEF HoldsAdded, Held, Single
  <2>4. fd \notin added
    BY <1>0, <1>3, HeldIffInSlot
  <2>5. IsFiniteSet(added') /\ Cardinality(added') = Cardinality(added) + 1
    BY <1>0, <1>3, <2>4, FS_AddElement
  <2>6. clients_length' = Cardinality(added')
    BY <2>5, <1>0, <1>3
  <2>7. added' = Held(clients')
    BY <2>2, <1>0, <1>3
  <2>8. clients_length' \in 0 .. max_clients
    BY <2>6, <2>7, HeldAtMost, PollAssumption
  <2>9. TypeOK'
    BY <2>1, <2>8, <1>0, <1>3 DEF TypeOK, Client, Clean
  <2>10. Counted'
    BY <2>5, <2>6, <1>3 DEF Counted, LengthCounts
  <2>11. Prefix'
    <3> SUFFICES ASSUME ~ removed PROVE Packed(clients', clients_length')
      BY <1>3 DEF Prefix
    <3>1. Packed(clients, clients_length) /\ clients_length \in Nat
      BY <1>0, HeldAtMost DEF PollInv, Prefix
    <3>2. index = clients_length
      <4>1. ~ index < clients_length
        BY <3>1, <2>0, <1>3 DEF Packed
      <4>2. ~ clients_length < index
        <5> SUFFICES ASSUME clients_length < index PROVE FALSE
          OBVIOUS
        <5>1. /\ clients_length \in Slots
              /\ clients_length \in 0 .. index - 1
          BY <3>1, <1>3, PollAssumption DEF Slots
        <5>2. clients[clients_length].fd # NoDescriptor
          BY <5>1, <2>0
        <5> QED
          BY <5>1, <5>2, <3>1 DEF Packed
      <4> QED
        BY <4>1, <4>2, <3>1, <1>3 DEF Slots
    <3>3. ASSUME NEW i \in Slots
          PROVE  clients'[i].fd # NoDescriptor <=> i < clients_length + 1
      <4>1. clients[i].fd # NoDescriptor <=> i < clients_length
        BY <3>1 DEF Packed
      <4> QED
        BY <4>1, <3>1, <3>2, <2>0, <2>1 DEF Slots
    <3> QED
      BY <3>3, <1>3 DEF Packed
  <2> QED
    BY <2>3, <2>9, <2>10, <2>11 DEF PollInv
<1>4. add_descriptor(fd, events)
  OBVIOUS
<1> QED
  BY <1>1, <1>2, <1>3, <1>4 DEF add_descriptor

(* Removing a descriptor takes it and no other from the slots, unless the  *)
(* set is full and the operation leaves the array.                         *)
LEMMA RemoveInv ==
  ASSUME PollInv, outcome # "undefined",
         NEW fd \in Descriptor, remove_descriptor(fd)
  PROVE  PollInv'
<1>0. /\ clients \in [Slots -> Client] /\ Clean(clients)
      /\ Held(clients) = added /\ Single(clients)
      /\ IsFiniteSet(added) /\ clients_length = Cardinality(added)
      /\ clients_length \in 0 .. max_clients
      /\ added \subseteq Descriptor
  BY InWords DEF PollInv, Counted, LengthCounts, TypeOK
<1>1. CASE NotIn(fd) /\ Throw("out_of_range")
  BY <1>1, ThrowInv
<1>2. ASSUME NEW index \in Slots, Remove(fd, index),
             added' = added \ {fd}, removed' = TRUE
      PROVE  PollInv'
  <2>0. clients[index].fd = fd /\ fd # NoDescriptor
    BY <1>2, PollAssumption DEF Remove, get_index
  <2>1. fd \in added
    BY <2>0, <1>0, <1>2 DEF Held
  <2>2. /\ IsFiniteSet(added')
        /\ Cardinality(added') = Cardinality(added) - 1
        /\ Cardinality(added') \in Nat
    <3>1. /\ IsFiniteSet(added')
          /\ Cardinality(added') = Cardinality(added) - 1
      BY <2>1, <1>0, <1>2, FS_RemoveElement
    <3> QED
      BY <3>1, FS_CardinalityType
  <2>3. Prefix'
    BY <1>2 DEF Prefix
  <2>4. added' \subseteq Descriptor /\ removed' \in BOOLEAN
    BY <1>0, <1>2
  <2>5. CASE /\ clients_length < max_clients
             /\ clients' = Moved(index, clients_length)
             /\ clients_length' = clients_length - 1
             /\ outcome' = "done"
    <3> DEFINE from == clients_length
    <3>1. from \in Slots
      BY <2>5, <1>0, PollAssumption DEF Slots
    <3>2. reset_client(clients[from]) =
            [fd |-> NoDescriptor, events |-> {}, revents |-> {}]
      BY <3>1, <1>0, SlotRecords
    <3>3. clients' = [clients EXCEPT
                        ![index] = clients[from],
                        ![from] = [fd |-> NoDescriptor, events |-> {},
                                   revents |-> {}]]
      BY <2>5, <3>2 DEF Moved
    <3> HIDE DEF from
    <3>4. \A i \in Slots : clients'[i] =
            IF i = from
            THEN [fd |-> NoDescriptor, events |-> {}, revents |-> {}]
            ELSE IF i = index THEN clients[from] ELSE clients[i]
      BY <3>1, <3>3, <1>0, <1>2
    <3>5. clients' \in [Slots -> Client]
      BY <3>1, <3>3, <1>0, <1>2 DEF Client
    <3>6. Clean(clients')
      BY <3>1, <3>4, <1>0 DEF Clean
    <3>7. /\ clients'[from].fd = NoDescriptor
          /\ index # from => clients'[index].fd = clients[from].fd
          /\ \A i \in Slots : i \notin {index, from} =>
               clients'[i].fd = clients[i].fd
      BY <3>1, <3>4, <1>2
    <3>8. Single(clients') /\ Held(clients') = Held(clients) \ {fd}
      <4>1. Single(clients) /\ clients[index].fd = fd
        BY <2>0, <1>0
      <4> QED
        BY <3>1, <3>7, <4>1, <1>2, Overwritten
    <3>9. HoldsAdded'
      BY <3>8, <1>0, <1>2 DEF HoldsAdded, Held, Single
    <3>10. clients_length' = Cardinality(added')
      BY <2>2, <2>5, <1>0
    <3>11. clients_length' \in 0 .. max_clients
      BY <2>2, <2>5, <3>10, <1>0, PollAssumption
    <3>12. TypeOK'
      BY <3>5, <3>6, <3>11, <2>4, <2>5 DEF TypeOK, Client, Clean
    <3>13. Counted'
      BY <3>10, <2>2, <2>5 DEF Counted, LengthCounts
    <3> QED
      BY <3>9, <3>12, <3>13, <2>3 DEF PollInv
  <2>6. CASE /\ clients_length = max_clients
             /\ outcome' = "undefined"
             /\ UNCHANGED <<clients, clients_length>>
    <3>1. TypeOK'
      BY <2>4, <2>6 DEF PollInv, TypeOK
    <3>2. HoldsAdded' /\ Counted'
      BY <2>2, <2>6 DEF HoldsAdded, Counted, LengthCounts
    <3> QED
      BY <3>1, <3>2, <2>3 DEF PollInv
  <2> QED
    BY <1>2, <2>5, <2>6 DEF Remove
<1>3. remove_descriptor(fd)
  OBVIOUS
<1> QED
  BY <1>1, <1>2, <1>3 DEF remove_descriptor

(* Every step keeps the invariant.                                         *)
LEMMA PollNextInv ==
  PollInv /\ [Next]_vars => PollInv'
<1> SUFFICES ASSUME PollInv, [Next]_vars PROVE PollInv'
  OBVIOUS
<1>1. CASE UNCHANGED vars
  <2>1. TypeOK' /\ HoldsAdded'
    BY <1>1 DEF vars, PollInv, TypeOK, HoldsAdded
  <2>2. Counted' /\ Prefix'
    BY <1>1 DEF vars, PollInv, Counted, LengthCounts, Prefix, Packed
  <2> QED
    BY <2>1, <2>2 DEF PollInv
<1>2. ASSUME Next PROVE PollInv'
  <2>0. outcome # "undefined"
    BY <1>2 DEF Next
  <2>1. ASSUME NEW fd \in Descriptor, NEW events \in SUBSET Event,
               add_descriptor(fd, events) \/ set_events(fd, events)
        PROVE  PollInv'
    BY <2>0, <2>1, AddInv, SetEventsInv
  <2>2. ASSUME NEW fd \in Descriptor, remove_descriptor(fd)
        PROVE  PollInv'
    BY <2>0, <2>2, RemoveInv
  <2>3. CASE (\E reported \in SUBSET (Polled \X Event) : wait(reported))
               \/ wait_fails
    BY <2>0, <2>3, WaitInv
  <2>4. CASE negative_descriptor
    BY <2>0, <2>4, ThrowInv DEF negative_descriptor
  <2> QED
    BY <1>2, <2>1, <2>2, <2>3, <2>4 DEF Next
<1> QED
  BY <1>1, <1>2

(* The inductive invariant holds throughout.                               *)
LEMMA PollInductive ==
  Spec => []PollInv
BY PollInitInv, PollNextInv, PTL DEF Spec

-----------------------------------------------------------------------------
(* The theorems.                                                           *)

(* Every slot keeps its type, clients_length stays within the array        *)
(* whatever is added and removed, and a slot without a descriptor has no   *)
(* events of the one that was in it.                                       *)
THEOREM PollTypeOK ==
  Spec => []TypeOK
<1>1. PollInv => TypeOK
  BY DEF PollInv
<1> QED
  BY <1>1, PollInductive, PTL

(* The slots hold the descriptors added and not removed, each once: remove *)
(* overwrites the slot of its own descriptor only, add takes an empty one. *)
THEOREM PollHoldsAdded ==
  Spec => []HoldsAdded
<1>1. PollInv => HoldsAdded
  BY DEF PollInv
<1> QED
  BY <1>1, PollInductive, PTL

(* clients_length is the number of descriptors in the set although the     *)
(* slots have holes, and add refuses one only when all slots are taken.    *)
THEOREM PollLengthCounts ==
  Spec => []LengthCounts
<1>1. PollInv => LengthCounts
  BY DEF PollInv, Counted
<1> QED
  BY <1>1, PollInductive, PTL

(* As long as no descriptor was removed, the server's case, the slots that *)
(* poll sees hold all that were added.                                     *)
THEOREM PollPolledUntilRemoved ==
  Spec => []PolledUntilRemoved
<1>1. ASSUME PollInv, ~ removed PROVE Polled = added
  <2>1. /\ Packed(clients, clients_length)
        /\ Held(clients) = added
        /\ clients_length \in 0 .. max_clients
    BY <1>1, InWords DEF PollInv, Prefix, TypeOK
  <2>2. ASSUME NEW i \in 0 .. clients_length - 1 PROVE i \in Slots
    BY <2>1, PollAssumption DEF Slots
  <2>3. ASSUME NEW i \in Slots, clients[i].fd # NoDescriptor
        PROVE  i \in 0 .. clients_length - 1
    BY <2>1, <2>3, PollAssumption DEF Packed, Slots
  <2> QED
    BY <2>1, <2>2, <2>3 DEF Polled, Held
<1>2. PollInv => PolledUntilRemoved
  BY <1>1 DEF PolledUntilRemoved
<1> QED
  BY <1>2, PollInductive, PTL
=============================================================================

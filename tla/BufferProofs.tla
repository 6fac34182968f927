---------------------------- MODULE BufferProofs ----------------------------
(***************************************************************************)
(* Proofs about Buffer for every buffer_size and every set of items: its   *)
(* type invariant, the invariant that ties the slots to start and length,  *)
(* and that it implements the bounded queue of FifoCalls.                  *)
(***************************************************************************)
EXTENDS Buffer, Integers, SequenceTheorems, TLAPS

(* The index computations of buffer.h take the remainder of a sum below    *)
(* twice the size, where % is a conditional subtraction.                   *)
LEMMA ModWrap ==
  ASSUME NEW n \in Nat \ {0}, NEW k \in 0 .. 2 * n - 1
  PROVE  k % n = IF k < n THEN k ELSE k - n
<1>1. CASE k < n
  BY <1>1
<1>2. CASE k >= n
  <2>1. k = 1 * n + (k - n) /\ k - n \in 0 .. n - 1
    BY <1>2
  <2>2. QED
    BY <1>2, <2>1
<1>3. QED
  BY <1>1, <1>2

(* get_index, without the remainder: s stands for start. *)
LEMMA GetIndex ==
  ASSUME NEW s \in Slots, NEW i \in 0 .. buffer_size
  PROVE  (s + i) % buffer_size = IF s + i < buffer_size
                                 THEN s + i
                                 ELSE s + i - buffer_size
<1>1. s + i \in 0 .. 2 * buffer_size - 1
  BY BufferAssumption DEF Slots
<1>2. ASSUME NEW k \in 0 .. 2 * buffer_size - 1
      PROVE  k % buffer_size = IF k < buffer_size THEN k ELSE k - buffer_size
  BY BufferAssumption, ModWrap
<1>3. CASE s + i < buffer_size
  BY <1>1, <1>2, <1>3, BufferAssumption DEF Slots
<1>4. CASE s + i >= buffer_size
  BY <1>1, <1>2, <1>4, BufferAssumption DEF Slots
<1>5. QED
  BY <1>3, <1>4, BufferAssumption DEF Slots

(* Different positions of the buffer are different slots. *)
LEMMA GetIndexInjective ==
  ASSUME NEW s \in Slots, NEW i \in Slots, NEW j \in Slots
  PROVE  /\ (s + i) % buffer_size \in Slots
         /\ (s + i) % buffer_size = (s + j) % buffer_size <=> i = j
<1>1. (s + i) % buffer_size = IF s + i < buffer_size
                              THEN s + i ELSE s + i - buffer_size
  BY BufferAssumption, GetIndex DEF Slots
<1>2. (s + j) % buffer_size = IF s + j < buffer_size
                              THEN s + j ELSE s + j - buffer_size
  BY BufferAssumption, GetIndex DEF Slots
<1>3. QED
  BY <1>1, <1>2, BufferAssumption DEF Slots

(* The first slot, the slot start moves to, and every position once it has *)
(* moved: all go down by one, and the old first slot becomes the last.     *)
LEMMA GetIndexShift ==
  ASSUME NEW s \in Slots
  PROVE  /\ (s + 0) % buffer_size = s
         /\ (s + 1) % buffer_size \in Slots
         /\ (((s + 1) % buffer_size) + (buffer_size - 1)) % buffer_size = s
         /\ \A i \in Slots : i + 1 \in Slots =>
              (((s + 1) % buffer_size) + i) % buffer_size
                = (s + (i + 1)) % buffer_size
<1> DEFINE t == (s + 1) % buffer_size
<1>1. 0 \in 0 .. buffer_size /\ 1 \in 0 .. buffer_size
                             /\ buffer_size - 1 \in 0 .. buffer_size
  BY BufferAssumption
<1>2. (s + 0) % buffer_size = s
  <2>1. (s + 0) % buffer_size = IF s + 0 < buffer_size
                                THEN s + 0 ELSE s + 0 - buffer_size
    BY <1>1, GetIndex
  <2>2. QED
    BY <2>1, BufferAssumption DEF Slots
<1>3. t = IF s + 1 = buffer_size THEN 0 ELSE s + 1
  <2>1. t = IF s + 1 < buffer_size THEN s + 1 ELSE s + 1 - buffer_size
    BY <1>1, GetIndex
  <2>2. QED
    BY <2>1, BufferAssumption DEF Slots
<1> HIDE DEF t
<1>4. t \in Slots
  BY <1>3, BufferAssumption DEF Slots
<1>5. (t + (buffer_size - 1)) % buffer_size = s
  <2>1. (t + (buffer_size - 1)) % buffer_size
          = IF t + (buffer_size - 1) < buffer_size
            THEN t + (buffer_size - 1)
            ELSE t + (buffer_size - 1) - buffer_size
    BY <1>1, <1>4, GetIndex
  <2>2. QED
    BY <1>3, <2>1, BufferAssumption DEF Slots
<1>6. ASSUME NEW i \in Slots, i + 1 \in Slots
      PROVE  (t + i) % buffer_size = (s + (i + 1)) % buffer_size
  <2>1. i \in 0 .. buffer_size /\ i + 1 \in 0 .. buffer_size
    BY <1>6, BufferAssumption DEF Slots
  <2>2. (t + i) % buffer_size = IF t + i < buffer_size
                                THEN t + i ELSE t + i - buffer_size
    BY <1>4, <2>1, GetIndex
  <2>3. (s + (i + 1)) % buffer_size = IF s + (i + 1) < buffer_size
                                      THEN s + (i + 1)
                                      ELSE s + (i + 1) - buffer_size
    BY <2>1, GetIndex
  <2>4. QED
    BY <1>3, <1>6, <2>2, <2>3, BufferAssumption DEF Slots
<1>7. QED
  BY <1>2, <1>4, <1>5, <1>6 DEF t

-----------------------------------------------------------------------------

(* The type invariant holds in every execution of the buffer. *)
THEOREM BufferTypeOK == Spec => []TypeOK
<1>1. Init => TypeOK
  BY BufferAssumption DEF Init, TypeOK, Slots
<1>2. TypeOK /\ [Next]_vars => TypeOK'
  <2> SUFFICES ASSUME TypeOK, [Next]_vars
               PROVE  TypeOK'
    OBVIOUS
  <2> USE BufferAssumption DEF TypeOK
  <2>1. increase_index \in Slots
    BY GetIndexShift DEF increase_index
  <2>2. ASSUME NEW item \in Item, push(item)
        PROVE  TypeOK'
    <3>1. start' \in Slots /\ length' \in 0 .. buffer_size
      BY <2>1, <2>2 DEF push
    <3>2. /\ data' \in [Slots -> Item \cup {NoItem}] /\ UNCHANGED result
          /\ call' = <<"push", item>>
      BY <2>2 DEF push
    <3>3. QED
      BY <3>1, <3>2
  <2>3. CASE pop
    <3>1. get_index(0) \in Slots
      BY GetIndexShift DEF get_index, increase_index
    <3>2. QED
      BY <2>1, <2>3, <3>1 DEF pop
  <2>4. CASE pop_throws
    BY <2>4 DEF pop_throws
  <2>5. ASSUME NEW index \in 0 .. buffer_size, get(index)
        PROVE  TypeOK'
    <3>1. index \in Slots
      BY <2>5 DEF get, Slots
    <3>2. get_index(index) \in Slots
      BY <3>1, GetIndexInjective DEF get_index
    <3>3. QED
      BY <2>5, <3>2 DEF get
  <2>6. ASSUME NEW index \in 0 .. buffer_size, get_throws(index)
        PROVE  TypeOK'
    BY <2>6 DEF get_throws
  <2>7. CASE UNCHANGED vars
    BY <2>7 DEF vars
  <2>8. QED
    BY <2>2, <2>3, <2>4, <2>5, <2>6, <2>7 DEF Next
<1>3. QED
  BY <1>1, <1>2, PTL DEF Spec

-----------------------------------------------------------------------------

(* What every push and pop does to the slots, whichever of them start is.  *)
LEMMA ShiftedSlots ==
  ASSUME NEW s \in Slots, NEW i \in Slots
  PROVE  LET t == (s + 1) % buffer_size
             slot == (t + i) % buffer_size
         IN  /\ i = buffer_size - 1 => slot = s
             /\ i # buffer_size - 1 => /\ i + 1 \in Slots
                                       /\ slot # s
                                       /\ slot = (s + (i + 1)) % buffer_size
<1> DEFINE t == (s + 1) % buffer_size
<1>1. CASE i = buffer_size - 1
  BY <1>1, GetIndexShift
<1>2. CASE i # buffer_size - 1
  <2>1. i + 1 \in Slots /\ 0 \in Slots /\ i + 1 # 0
    BY <1>2, BufferAssumption DEF Slots
  <2>2. (t + i) % buffer_size = (s + (i + 1)) % buffer_size
    BY <2>1, GetIndexShift
  <2>3. (s + (i + 1)) % buffer_size # s
    BY <2>1, GetIndexInjective, GetIndexShift
  <2>4. QED
    BY <1>2, <2>1, <2>2, <2>3
<1>3. QED
  BY <1>1, <1>2

(* The slots holding an item are always the live ones.  With the type      *)
(* invariant the formula is inductive: no operation leaves an item behind  *)
(* or exposes an empty slot.                                               *)
THEOREM BufferLiveSlots == Spec => []LiveSlotsHoldItems
<1>1. Init => LiveSlotsHoldItems
  BY BufferAssumption, GetIndexInjective
     DEF Init, LiveSlotsHoldItems, Slots, get_index
<1>2. TypeOK /\ LiveSlotsHoldItems /\ [Next]_vars => LiveSlotsHoldItems'
  <2> SUFFICES ASSUME TypeOK, LiveSlotsHoldItems, [Next]_vars,
                      NEW index \in Slots
               PROVE  (data[get_index(index)] # NoItem <=> index < length)'
    BY DEF LiveSlotsHoldItems
  <2> USE BufferAssumption
  <2> DEFINE slot == (start' + index) % buffer_size
  <2>0. \A i \in Slots : data[(start + i) % buffer_size] # NoItem <=> i < length
    BY DEF LiveSlotsHoldItems, get_index
  <2>a. start \in Slots /\ length \in 0 .. buffer_size
    BY DEF TypeOK
  <2>1. ASSUME NEW item \in Item, push(item), length = buffer_size
        PROVE  data'[slot] # NoItem <=> index < length'
    <3>1. /\ start' = (start + 1) % buffer_size
          /\ length' = length
          /\ data' = [data EXCEPT
                        ![(start' + (length' - 1)) % buffer_size] = item]
      BY <2>1, <2>a DEF push, increase_index, get_index, Slots
    <3>2. data' = [data EXCEPT ![start] = item]
      BY <2>1, <2>a, <3>1, GetIndexShift
    <3>3. CASE index = buffer_size - 1
      <4>1. slot = start
        BY <2>a, <3>1, <3>3, ShiftedSlots
      <4>2. QED
        BY <2>1, <2>a, <3>1, <3>2, <4>1 DEF TypeOK, Slots
    <3>4. CASE index # buffer_size - 1
      <4>1. index + 1 \in Slots /\ slot # start
            /\ slot = (start + (index + 1)) % buffer_size
        BY <2>a, <3>1, <3>4, ShiftedSlots
      <4>2. slot \in Slots /\ index + 1 < length
        BY <2>1, <2>a, <4>1, GetIndexInjective DEF Slots
      <4>3. data'[slot] = data[slot]
        BY <3>2, <4>1, <4>2 DEF TypeOK
      <4>4. QED
        BY <2>0, <2>1, <3>1, <4>1, <4>2, <4>3 DEF Slots
    <3>5. QED
      BY <3>3, <3>4
  <2>2. ASSUME NEW item \in Item, push(item), length < buffer_size
        PROVE  data'[slot] # NoItem <=> index < length'
    <3>1. /\ start' = start
          /\ length' = length + 1
          /\ data' = [data EXCEPT
                        ![(start' + (length' - 1)) % buffer_size] = item]
      BY <2>2, <2>a DEF push, get_index
    <3>2. data' = [data EXCEPT ![(start + length) % buffer_size] = item]
          /\ length \in Slots
      BY <2>2, <2>a, <3>1 DEF Slots
    <3>3. slot \in Slots /\ (slot = (start + length) % buffer_size
                               <=> index = length)
      BY <2>a, <3>1, <3>2, GetIndexInjective
    <3>4. data'[slot] = IF index = length THEN item ELSE data[slot]
      BY <3>2, <3>3 DEF TypeOK
    <3>5. data[slot] # NoItem <=> index < length
      BY <2>0, <3>1
    <3>6. QED
      BY <2>a, <3>1, <3>4, <3>5 DEF Slots
  <2>3. ASSUME pop
        PROVE  data'[slot] # NoItem <=> index < length'
    <3>1. /\ start' = (start + 1) % buffer_size
          /\ length' = length - 1
          /\ data' = [data EXCEPT ![start] = NoItem]
          /\ length # 0
      BY <2>3, <2>a, GetIndexShift DEF pop, increase_index, get_index
    <3>2. CASE index = buffer_size - 1
      <4>1. slot = start
        BY <2>a, <3>1, <3>2, ShiftedSlots
      <4>2. QED
        BY <2>a, <3>1, <3>2, <4>1 DEF TypeOK, Slots
    <3>3. CASE index # buffer_size - 1
      <4>1. index + 1 \in Slots /\ slot # start
            /\ slot = (start + (index + 1)) % buffer_size
        BY <2>a, <3>1, <3>3, ShiftedSlots
      <4>2. slot \in Slots
        BY <2>a, <4>1, GetIndexInjective
      <4>3. data'[slot] = data[slot]
        BY <3>1, <4>1, <4>2 DEF TypeOK
      <4>4. data[slot] # NoItem <=> index + 1 < length
        BY <2>0, <4>1
      <4>5. QED
        BY <2>a, <3>1, <4>3, <4>4 DEF Slots
    <3>4. QED
      BY <3>2, <3>3
  <2>4. CASE UNCHANGED <<data, start, length>>
    BY <2>0, <2>4 DEF get_index
  <2>5. CASE \E item \in Item : push(item)
    BY <2>5, <2>1, <2>2, <2>a DEF get_index, push
  <2>6. CASE pop
    BY <2>6, <2>3 DEF get_index
  <2>7. CASE \/ pop_throws
             \/ \E i \in 0 .. buffer_size : get(i) \/ get_throws(i)
    BY <2>7, <2>4 DEF pop_throws, get, get_throws
  <2>8. CASE UNCHANGED vars
    BY <2>8, <2>4 DEF vars
  <2>9. QED
    BY <2>5, <2>6, <2>7, <2>8 DEF Next
<1>3. QED
  BY <1>1, <1>2, BufferTypeOK, PTL DEF Spec

-----------------------------------------------------------------------------

(* The l items of a ring d whose oldest item is in slot s, oldest first. *)
Ring(d, s, l) == [i \in 1 .. l |-> d[(s + (i - 1)) % buffer_size]]

LEMMA RingContents ==
  ASSUME NEW s \in Slots, NEW l \in 0 .. buffer_size,
         NEW d \in [Slots -> Item \cup {NoItem}]
  PROVE  /\ Ring(d, s, l) \in Seq(Item \cup {NoItem})
         /\ Len(Ring(d, s, l)) = l
         /\ \A i \in Slots :
              i < l => Ring(d, s, l)[i + 1] = d[(s + i) % buffer_size]
<1> DEFINE q == [i \in 1 .. l |-> d[(s + (i - 1)) % buffer_size]]
<1>1. ASSUME NEW i \in 1 .. l
      PROVE  d[(s + (i - 1)) % buffer_size] \in Item \cup {NoItem}
  <2>1. i - 1 \in Slots
    BY BufferAssumption DEF Slots
  <2>2. (s + (i - 1)) % buffer_size \in Slots
    BY <2>1, GetIndexInjective
  <2>3. QED
    BY <2>2
<1>2. q \in [1 .. l -> Item \cup {NoItem}] /\ l \in Nat
  BY <1>1, BufferAssumption
<1>3. q \in Seq(Item \cup {NoItem}) /\ Len(q) = l
  BY <1>2
<1>4. ASSUME NEW i \in Slots, i < l
      PROVE  q[i + 1] = d[(s + i) % buffer_size]
  <2>1. i + 1 \in 1 .. l /\ (i + 1) - 1 = i
    BY <1>4, BufferAssumption DEF Slots
  <2>2. QED
    BY <2>1
<1>5. QED
  BY <1>3, <1>4 DEF Ring

(* Writing the slot after the newest item appends to the contents. *)
LEMMA RingPush ==
  ASSUME NEW s \in Slots, NEW l \in Slots, NEW item \in Item,
         NEW d \in [Slots -> Item \cup {NoItem}]
  PROVE  Ring([d EXCEPT ![(s + l) % buffer_size] = item], s, l + 1)
           = Append(Ring(d, s, l), item)
<1> USE BufferAssumption
<1> DEFINE e == [d EXCEPT ![(s + l) % buffer_size] = item]
           q == Ring(d, s, l)
           r == Ring(e, s, l + 1)
           T == Item \cup {NoItem}
<1>1. l \in 0 .. buffer_size /\ l + 1 \in 0 .. buffer_size
  BY DEF Slots
<1>2. e \in [Slots -> T]
  BY GetIndexInjective
<1>3. q \in Seq(T) /\ Len(q) = l
      /\ \A i \in Slots : i < l => q[i + 1] = d[(s + i) % buffer_size]
  BY <1>1, RingContents
<1> HIDE DEF e
<1>4. r \in Seq(T) /\ Len(r) = l + 1
      /\ \A i \in Slots : i < l + 1 => r[i + 1] = e[(s + i) % buffer_size]
  BY <1>1, <1>2, RingContents
<1> HIDE DEF q, r
<1>5. /\ Append(q, item) \in Seq(T)
      /\ Len(Append(q, item)) = l + 1
      /\ \A i \in 1 .. l : Append(q, item)[i] = q[i]
      /\ Append(q, item)[l + 1] = item
  BY <1>3, AppendProperties
<1>6. ASSUME NEW k \in 1 .. Len(r) PROVE r[k] = Append(q, item)[k]
  <2> DEFINE i == k - 1
  <2>1. i \in Slots /\ i < l + 1 /\ i + 1 = k
    BY <1>4 DEF Slots
  <2> HIDE DEF i
  <2>2. r[k] = e[(s + i) % buffer_size]
    BY <1>4, <2>1
  <2>3. (s + i) % buffer_size \in Slots
        /\ ((s + i) % buffer_size = (s + l) % buffer_size <=> i = l)
    BY <2>1, GetIndexInjective
  <2>4. CASE i = l
    <3>1. e[(s + i) % buffer_size] = item
      BY <2>3, <2>4 DEF e
    <3>2. QED
      BY <1>5, <2>1, <2>2, <2>4, <3>1
  <2>5. CASE i # l
    <3>1. e[(s + i) % buffer_size] = d[(s + i) % buffer_size]
      BY <2>3, <2>5 DEF e
    <3>2. i < l /\ k \in 1 .. l
      BY <1>1, <2>1, <2>5 DEF Slots
    <3>3. q[k] = d[(s + i) % buffer_size]
      BY <1>3, <2>1, <3>2
    <3>4. QED
      BY <1>5, <2>2, <3>1, <3>2, <3>3
  <2>6. QED
    BY <2>4, <2>5
<1>7. r = Append(q, item)
  BY <1>4, <1>5, <1>6, SeqEqual
<1>8. QED
  BY <1>7 DEF q, r, e

(* Moving start past the oldest item removes it from the contents, whatever *)
(* its slot d[s] holds afterwards.                                         *)
Written(d, s, x) == [d EXCEPT ![s] = x]

LEMMA RingDrop ==
  ASSUME NEW s \in Slots, NEW n \in 1 .. buffer_size,
         NEW x \in Item \cup {NoItem},
         NEW d \in [Slots -> Item \cup {NoItem}]
  PROVE  /\ Ring(d, s, n) # <<>>
         /\ Head(Ring(d, s, n)) = d[s]
         /\ Tail(Ring(d, s, n))
              = Ring(Written(d, s, x), (s + 1) % buffer_size, n - 1)
<1> USE BufferAssumption
<1> DEFINE T == Item \cup {NoItem}
           t == (s + 1) % buffer_size
           e == [d EXCEPT ![s] = x]
           l == n - 1
           q == Ring(d, s, l + 1)
           r == Ring(e, t, l)
<1>0. l \in Slots /\ l + 1 = n
  BY DEF Slots
<1> HIDE DEF l
<1>1. l \in 0 .. buffer_size /\ l + 1 \in 0 .. buffer_size /\ 0 \in Slots
  BY <1>0 DEF Slots
<1>2. e \in [Slots -> T] /\ t \in Slots
  BY GetIndexShift
<1>3. q \in Seq(T) /\ Len(q) = l + 1
      /\ \A i \in Slots : i < l + 1 => q[i + 1] = d[(s + i) % buffer_size]
  BY <1>1, RingContents
<1>a. \A i \in Slots : i # buffer_size - 1 =>
        /\ i + 1 \in Slots
        /\ (t + i) % buffer_size # s
        /\ (t + i) % buffer_size = (s + (i + 1)) % buffer_size
  BY ShiftedSlots
<1> HIDE DEF e, t
<1>4. r \in Seq(T) /\ Len(r) = l
      /\ \A i \in Slots : i < l => r[i + 1] = e[(t + i) % buffer_size]
  BY <1>1, <1>2, RingContents
<1> HIDE DEF q, r
<1>5. q # <<>> /\ q[1] = d[s]
  <2>1. 0 < l + 1 /\ 0 + 1 = 1
    BY <1>0 DEF Slots
  <2>2. q[0 + 1] = d[(s + 0) % buffer_size]
    BY <1>0, <1>1, <1>3, <2>1
  <2>3. Len(q) # 0
    BY <1>0, <1>3, <2>1 DEF Slots
  <2>4. QED
    BY <2>1, <2>2, <2>3, GetIndexShift, EmptySeq
<1>6. /\ Tail(q) \in Seq(T)
      /\ Len(Tail(q)) = Len(q) - 1
      /\ \A i \in 1 .. Len(Tail(q)) : Tail(q)[i] = q[i + 1]
  BY <1>3, <1>5, HeadTailProperties
<1>7. Len(Tail(q)) = l
  BY <1>0, <1>3, <1>6 DEF Slots
<1>8. ASSUME NEW k \in 1 .. Len(r) PROVE r[k] = Tail(q)[k]
  <2> DEFINE i == k - 1
  <2>1. i \in Slots /\ i < l /\ i + 1 = k /\ i # buffer_size - 1
    BY <1>0, <1>4 DEF Slots
  <2> HIDE DEF i
  <2>2. r[k] = e[(t + i) % buffer_size]
    BY <1>4, <2>1
  <2>3. i + 1 \in Slots
        /\ (t + i) % buffer_size # s
        /\ (t + i) % buffer_size = (s + (i + 1)) % buffer_size
    BY <1>a, <2>1
  <2>4. (s + (i + 1)) % buffer_size \in Slots
    BY <2>3, GetIndexInjective
  <2>5. e[(t + i) % buffer_size] = d[(s + (i + 1)) % buffer_size]
    BY <2>3, <2>4 DEF e
  <2>6. i + 1 < l + 1
    BY <1>0, <2>1 DEF Slots
  <2>7. q[(i + 1) + 1] = d[(s + (i + 1)) % buffer_size]
    BY <1>3, <2>3, <2>6
  <2>8. Tail(q)[k] = q[k + 1]
    BY <1>4, <1>6, <1>7
  <2>9. QED
    BY <2>1, <2>2, <2>5, <2>7, <2>8
<1>9. r = Tail(q)
  BY <1>4, <1>6, <1>7, <1>8, SeqEqual
<1>10. Head(q) = q[1]
  OBVIOUS
<1>11. QED
  BY <1>0, <1>5, <1>9, <1>10 DEF l, q, r, e, t, Written

(* Every execution of the ring is one of the bounded queue of the module   *)
(* FifoCalls, call by call: a push inserts at the end, a pop and a read of *)
(* the i-th item return what the queue would return to them, and throw     *)
(* where, and only where, the queue has nothing to give.                   *)
THEOREM BufferImplementsFifo == Spec => ImplementsFifo
<1> USE BufferAssumption
<1>1. Init => Fifo!Start
  <2> SUFFICES ASSUME Init
               PROVE  Contents = <<>> /\ result = NoItem /\ call = <<>>
    BY DEF Fifo!Start, Fifo!Init
  <2>1. \A i \in 1 .. length : FALSE
    BY DEF Init
  <2>2. QED
    BY <2>1 DEF Init, Contents
<1>2. TypeOK /\ TypeOK' /\ [Next]_vars => [Fifo!Next]_(Fifo!vars)
  <2> SUFFICES ASSUME TypeOK, TypeOK', [Next]_vars
               PROVE  Fifo!Next \/ UNCHANGED <<Contents, result, call>>
    BY DEF Fifo!vars
  <2>a. /\ Contents = Ring(data, start, length)
        /\ Contents' = Ring(data', start', length')
    BY DEF Contents, Ring, get_index
  <2>b. start \in Slots /\ length \in 0 .. buffer_size
        /\ data \in [Slots -> Item \cup {NoItem}]
    BY DEF TypeOK
  <2>c. Len(Contents) = length
        /\ \A i \in Slots :
             i < length => Contents[i + 1] = data[get_index(i)]
    BY <2>a, <2>b, RingContents DEF get_index
  <2>1. ASSUME NEW item \in Item, push(item), length = buffer_size
        PROVE  Fifo!Push(item)
    <3> DEFINE t == (start + 1) % buffer_size
               l == buffer_size - 1
    <3>1. start' = t /\ length' = l + 1 /\ result' = result
          /\ data' = [data EXCEPT ![(t + l) % buffer_size] = item]
      <4>1. start' = t /\ length' = length /\ result' = result
            /\ data' = [data EXCEPT
                          ![(start' + (length' - 1)) % buffer_size] = item]
        BY <2>1, <2>b DEF push, increase_index, get_index
      <4>2. length' = l + 1 /\ length' - 1 = l
        BY <2>1, <4>1
      <4> HIDE DEF t, l
      <4>3. QED
        BY <4>1, <4>2
    <3>2. t \in Slots /\ l \in Slots /\ length = l + 1
      <4>1. t \in Slots
        BY <2>b, GetIndexShift
      <4>2. QED
        BY <2>1, <4>1 DEF Slots
    <3>3. data[start] \in Item \cup {NoItem}
          /\ Written(data, start, data[start]) = data
      BY <2>b DEF Written
    <3> HIDE DEF t, l
    <3>4. Contents # <<>> /\ Tail(Contents) = Ring(data, t, l)
      <4>1. length \in 1 .. buffer_size /\ l = length - 1
        BY <2>1, <2>b DEF l
      <4>2. QED
        BY <2>a, <2>b, <3>3, <4>1, RingDrop DEF t
    <3>5. Contents' = Append(Ring(data, t, l), item)
      BY <2>a, <2>b, <3>1, <3>2, RingPush
    <3>6. ~ (Len(Contents) < buffer_size)
      BY <2>1, <2>c
    <3>7. QED
      BY <3>1, <3>4, <3>5, <3>6 DEF Fifo!Push, Fifo!Enqueue
  <2>2. ASSUME NEW item \in Item, push(item), length < buffer_size
        PROVE  Fifo!Push(item)
    <3>1. start' = start /\ length' = length + 1 /\ result' = result
          /\ data' = [data EXCEPT ![(start + length) % buffer_size] = item]
      <4>1. start' = start /\ length' = length + 1 /\ result' = result
            /\ data' = [data EXCEPT
                          ![(start' + (length' - 1)) % buffer_size] = item]
        BY <2>2, <2>b DEF push, get_index
      <4>2. length' - 1 = length
        BY <2>b, <4>1
      <4>3. QED
        BY <4>1, <4>2
    <3>2. length \in Slots
      BY <2>2, <2>b DEF Slots
    <3>3. Contents' = Append(Contents, item)
      BY <2>a, <2>b, <3>1, <3>2, RingPush
    <3>4. QED
      BY <2>2, <2>c, <3>1, <3>3 DEF Fifo!Push, Fifo!Enqueue
  <2>3. CASE pop
    <3> DEFINE t == (start + 1) % buffer_size
               l == length - 1
    <3>1. start' = t /\ length' = l /\ result' = data[start]
          /\ data' = [data EXCEPT ![start] = NoItem]
      BY <2>3, <2>b, GetIndexShift DEF pop, increase_index, get_index
    <3>2. length \in 1 .. buffer_size
      BY <2>3, <2>b DEF pop
    <3>a. NoItem \in Item \cup {NoItem}
      OBVIOUS
    <3> HIDE DEF t, l
    <3>3. Contents # <<>> /\ Head(Contents) = data[start]
          /\ Tail(Contents) = Ring(Written(data, start, NoItem), t, l)
      BY <2>a, <2>b, <3>2, <3>a, RingDrop DEF t, l
    <3>4. Contents' = Tail(Contents)
      BY <2>a, <3>1, <3>3 DEF Written
    <3>5. Fifo!Pop
      BY <3>1, <3>3, <3>4 DEF Fifo!Pop
    <3>6. QED
      BY <2>3, <3>5 DEF pop, Fifo!Next
  <2>4. ASSUME UNCHANGED <<data, start, length>>
        PROVE  Contents' = Contents
    BY <2>4, <2>a
  <2>5. CASE pop_throws
    <3>1. Contents = <<>>
      <4>1. \A i \in 1 .. length : FALSE
        BY <2>5 DEF pop_throws
      <4>2. QED
        BY <2>5, <4>1 DEF pop_throws, Contents
    <3>2. Fifo!PopThrows
      BY <2>4, <2>5, <3>1 DEF pop_throws, Fifo!PopThrows
    <3>3. QED
      BY <2>5, <3>2 DEF pop_throws, Fifo!Next
  <2>6. ASSUME NEW i \in 0 .. buffer_size, get(i)
        PROVE  Fifo!Get(i) /\ call' = <<"get", i>>
    <3>1. i \in Slots /\ i < length
      BY <2>6, <2>b DEF get, Slots
    <3>2. QED
      BY <2>4, <2>6, <2>c, <3>1 DEF get, Fifo!Get
  <2>7. ASSUME NEW i \in 0 .. buffer_size, get_throws(i)
        PROVE  Fifo!GetThrows(i) /\ call' = <<"get", i>>
    BY <2>4, <2>7, <2>c DEF get_throws, Fifo!GetThrows
  <2>8. CASE UNCHANGED vars
    BY <2>4, <2>8 DEF vars
  <2>9. ASSUME NEW item \in Item, push(item)
        PROVE  Fifo!Push(item) /\ call' = <<"push", item>>
    BY <2>1, <2>2, <2>9 DEF push
  <2>10. CASE \E item \in Item : push(item)
    BY <2>9, <2>10 DEF Fifo!Next
  <2>11. CASE \E i \in 0 .. buffer_size : get(i) \/ get_throws(i)
    BY <2>6, <2>7, <2>11 DEF Fifo!Next
  <2>12. QED
    BY <2>3, <2>5, <2>8, <2>10, <2>11 DEF Next
<1>3. QED
  BY <1>1, <1>2, BufferTypeOK, PTL DEF Spec, ImplementsFifo, Fifo!Spec
=============================================================================

------------------------------- MODULE Buffer -------------------------------
(***************************************************************************)
(* The cyclic buffer of buffer.h: an array `data', the index `start' of    *)
(* the oldest item and the number `length' of items.  One action per       *)
(* operation; `result' is what the operation hands to its caller, and the  *)
(* history `call' is the operation with its argument.                      *)
(*                                                                         *)
(* A slot that was never written, or whose item pop() has moved out, holds *)
(* NoItem: in the server an item owns its message through a unique_ptr,    *)
(* and a moved-from item no longer has one.                                *)
(***************************************************************************)
EXTENDS Naturals, Sequences

CONSTANTS Item, NoItem, OutOfRange, buffer_size

ASSUME BufferAssumption ==
  /\ buffer_size \in Nat \ {0}
  /\ NoItem \notin Item
  /\ OutOfRange \notin Item

VARIABLES data, start, length, result, call

vars == <<data, start, length, result, call>>

Slots == 0 .. buffer_size - 1

get_index(index) == (start + index) % buffer_size

(* Bug for the checks: the index of the oldest item does not wrap. *)
increase_index_unwrapped == start + 1

increase_index == (start + 1) % buffer_size

Init ==
  /\ data = [slot \in Slots |-> NoItem]
  /\ start = 0
  /\ length = 0
  /\ result = NoItem
  /\ call = <<>>

(* Bug for the checks: a full buffer overwrites its newest item. *)
push_over_newest(item) ==
  /\ length' = IF length = buffer_size THEN length ELSE length + 1
  /\ data' = [data EXCEPT ![get_index(length' - 1)] = item]
  /\ UNCHANGED <<start, result>>
  /\ call' = <<"push", item>>

(* push: when the buffer is full the oldest item gives up its slot to the  *)
(* new one, otherwise the new item goes to the slot after the newest.      *)
push(item) ==
  /\ \/ /\ length = buffer_size
        /\ start' = increase_index
        /\ UNCHANGED length
     \/ /\ length < buffer_size
        /\ length' = length + 1
        /\ UNCHANGED start
  /\ data' = [data EXCEPT ![get_index(length - 1)'] = item]
  /\ UNCHANGED result
  /\ call' = <<"push", item>>

(* Bug for the checks: the newest item is moved out, not the oldest. *)
pop_newest ==
  /\ length # 0
  /\ result' = data[get_index(length - 1)]
  /\ data' = [data EXCEPT ![get_index(length - 1)] = NoItem]
  /\ start' = increase_index
  /\ length' = length - 1
  /\ call' = <<"pop">>

(* pop: the item is moved out of its slot. *)
pop ==
  /\ length # 0
  /\ result' = data[get_index(0)]
  /\ data' = [data EXCEPT ![get_index(0)] = NoItem]
  /\ start' = increase_index
  /\ length' = length - 1
  /\ call' = <<"pop">>

(* operator[] and the iterator, which reads through operator[]. *)
get(index) ==
  /\ index < length
  /\ result' = data[get_index(index)]
  /\ UNCHANGED <<data, start, length>>
  /\ call' = <<"get", index>>

(* pop() on an empty buffer. *)
pop_throws ==
  /\ length = 0
  /\ result' = OutOfRange
  /\ UNCHANGED <<data, start, length>>
  /\ call' = <<"pop">>

(* operator[] past the last item. *)
get_throws(index) ==
  /\ index >= length
  /\ result' = OutOfRange
  /\ UNCHANGED <<data, start, length>>
  /\ call' = <<"get", index>>

Next ==
  \/ \E item \in Item : push(item)
  \/ pop
  \/ pop_throws
  \/ \E index \in 0 .. buffer_size : get(index) \/ get_throws(index)

Spec == Init /\ [][Next]_vars

-----------------------------------------------------------------------------

(* Every variable keeps its type: in particular start stays an index of    *)
(* the array and length never exceeds buffer_size.                         *)
TypeOK ==
  /\ data \in [Slots -> Item \cup {NoItem}]
  /\ start \in Slots
  /\ length \in 0 .. buffer_size
  /\ result \in Item \cup {NoItem, OutOfRange}
  /\ call \in {<<>>, <<"pop">>} \cup {<<"push", item>> : item \in Item}
            \cup {<<"get", index>> : index \in 0 .. buffer_size}

(* The slots that hold an item are exactly the `length' slots that follow  *)
(* start around the ring: no operation ever reads a slot whose message was *)
(* moved away, and no message stays owned by a slot outside the buffer.    *)
LiveSlotsHoldItems ==
  \A index \in Slots : data[get_index(index)] # NoItem <=> index < length

(* The items from the oldest to the newest. *)
Contents == [i \in 1 .. length |-> data[get_index(i - 1)]]

Fifo == INSTANCE FifoCalls
          WITH queue <- Contents, Capacity <- buffer_size

(* The ring does what a bounded queue that drops its oldest item does, and *)
(* each call of it gets the item or the exception that this queue gives to *)
(* the same call.                                                          *)
ImplementsFifo == Fifo!Spec
=============================================================================

---------------------------- MODULE BoundedFifo ----------------------------
(***************************************************************************)
(* What buffer.h promises its users: a queue of at most Capacity items, in *)
(* the order they were inserted, where an insertion into a full queue      *)
(* drops the oldest item.  README.md:104-107 asks the same of the server's *)
(* buffer of datagrams.                                                    *)
(*                                                                         *)
(* This module has the operations; Server.tla and Relay.tla use them for   *)
(* the buffer of the server.  FifoCalls is the queue with its callers,     *)
(* which Buffer.tla, the ring of buffer.h, is proved to implement.         *)
(***************************************************************************)
EXTENDS Naturals, Sequences

CONSTANTS Item,       (* the values a buffer can hold                      *)
          NoItem,     (* what a slot holds when it holds no item           *)
          OutOfRange, (* the exception std::out_of_range                   *)
          Capacity    (* the buffer_size of the template                   *)

VARIABLES queue,   (* the items, oldest first                              *)
          result   (* what the last read or pop gave its caller            *)

(* Bug for the checks: a full queue grows. *)
Enqueue_grows(q, item) == Append(q, item)

(* Insertion at the end of q; a full q loses its oldest item. *)
Enqueue(q, item) ==
  IF Len(q) < Capacity THEN Append(q, item) ELSE Append(Tail(q), item)

Init ==
  /\ queue = <<>>
  /\ result = NoItem

Push(item) ==
  /\ queue' = Enqueue(queue, item)
  /\ UNCHANGED result

Pop ==
  /\ queue # <<>>
  /\ result' = Head(queue)
  /\ queue' = Tail(queue)

(* Reading the i-th item counts from zero, as operator[] does. *)
Get(i) ==
  /\ i < Len(queue)
  /\ result' = queue[i + 1]
  /\ UNCHANGED queue

(* pop() of an empty buffer throws, *)
PopThrows ==
  /\ queue = <<>>
  /\ result' = OutOfRange
  /\ UNCHANGED queue

(* and so does operator[] past the end. *)
GetThrows(i) ==
  /\ i >= Len(queue)
  /\ result' = OutOfRange
  /\ UNCHANGED queue
=============================================================================

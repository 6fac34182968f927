-------------------------------- MODULE Relay --------------------------------
(***************************************************************************)
(* What the server of server.h promises, without poll, events, intervals   *)
(* and the ring: it queues the valid messages it hears, forgets the oldest *)
(* when there are too many, and hands each of the others, one after the    *)
(* other, at most once to each of some clients, none of which sent it and  *)
(* all of which were heard in the TIMEOUT seconds before it.               *)
(*                                                                         *)
(* It does not promise that all those clients get it: sendto may fail, and *)
(* get_clients may step over a client (see Connections).                   *)
(***************************************************************************)
EXTENDS Naturals, Sequences

CONSTANTS Address, TIMEOUT, MaxTime,
          Id, NoId,              (* what a message says, and none          *)
          NoMessage, OutOfRange,
          Capacity               (* of the queue                           *)

VARIABLES now,
          contacts,    (* <<a, t>>: a was heard at time t                  *)
          queue,       (* messages, oldest first                           *)
          current,     (* the message that is sent                         *)
          choosing,    (* its recipients are not chosen yet                *)
          recipients,  (* those that are still to get it                   *)
          last         (* what each address was sent last                  *)

vars == <<now, contacts, queue, current, choosing, recipients, last>>

Message == [id : Id, time : 0 .. MaxTime, sender : Address]

Queue == INSTANCE BoundedFifo
           WITH result <- current, Item <- Message, NoItem <- NoMessage

Init ==
  /\ Queue!Init
  /\ now = 0
  /\ contacts = {}
  /\ choosing = FALSE
  /\ recipients = {}
  /\ last = [a \in Address |-> NoId]

Tick ==
  /\ now < MaxTime
  /\ now' = now + 1
  /\ UNCHANGED <<contacts, queue, current, choosing, recipients, last>>

(* a is heard at time t. *)
Hear(a, t) ==
  /\ ~ choosing
  /\ t \in now .. MaxTime
  /\ now' = t
  /\ contacts' = contacts \cup {<<a, t>>}
  /\ UNCHANGED <<choosing, recipients, last>>

(* A valid message from a; it counts as received before the clock is read  *)
(* again for the contact.                                                  *)
Receive(a, id, t) ==
  /\ Hear(a, t)
  /\ Queue!Push([id |-> id, time |-> now, sender |-> a])

(* Anything else from a. *)
Contact(a, t) ==
  /\ Hear(a, t)
  /\ UNCHANGED <<queue, current>>

(* The oldest message, when nobody is left to get the one before. *)
TakeOldest ==
  /\ ~ choosing
  /\ recipients = {}
  /\ Queue!Pop
  /\ choosing' = TRUE
  /\ UNCHANGED <<now, recipients, last>>

(* Bug for the checks: contacts are never too old. *)
Take_keeps == TakeOldest /\ UNCHANGED contacts

(* Contacts too old for the message are too old for those that follow. *)
Take ==
  /\ TakeOldest
  /\ contacts' = {c \in contacts : c[2] + TIMEOUT >= current'.time}

(* Those that did not send the current message and were heard in the       *)
(* TIMEOUT seconds before it: Take has forgotten what is older.            *)
Eligible ==
  {a \in Address \ {current.sender} :
     \E t \in 0 .. current.time : <<a, t>> \in contacts}

Choose ==
  /\ choosing
  /\ choosing' = FALSE
  /\ recipients' \in SUBSET Eligible
  /\ UNCHANGED <<now, contacts, queue, current, last>>

(* a is no longer to get the current message. *)
Done(a) ==
  /\ a \in recipients
  /\ recipients' = recipients \ {a}
  /\ UNCHANGED <<now, contacts, queue, current, choosing>>

Send(a) == Done(a) /\ last' = [last EXCEPT ![a] = current.id]

Fail(a) == Done(a) /\ UNCHANGED last

Next ==
  \/ Tick
  \/ \E a \in Address, t \in now .. MaxTime :
       Contact(a, t) \/ \E id \in Id : Receive(a, id, t)
  \/ Take
  \/ Choose
  \/ \E a \in recipients : Send(a) \/ Fail(a)

Spec == Init /\ [][Next]_vars
=============================================================================

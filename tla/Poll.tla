-------------------------------- MODULE Poll --------------------------------
(***************************************************************************)
(* The poll set of poll.h: an array of slots for file descriptors and the  *)
(* number of slots that are handed to poll.  One action per operation;     *)
(* `outcome' is the exception it ends with, if any.  The model stops,      *)
(* "undefined", when an operation leaves the array.                        *)
(***************************************************************************)
EXTENDS Naturals, FiniteSets

CONSTANTS Descriptor, NoDescriptor,  (* file descriptors, and -1           *)
          max_clients

ASSUME PollAssumption ==
  /\ max_clients \in Nat \ {0}
  /\ NoDescriptor \notin Descriptor

VARIABLES clients, clients_length, outcome,
          added,    (* history: the descriptors added and not removed      *)
          removed   (* history: a descriptor has been removed              *)

vars == <<clients, clients_length, outcome, added, removed>>

Slots == 0 .. max_clients - 1

Event == {"POLLIN", "POLLOUT"}

(* Bug for the checks: the events stay. *)
reset_client_fd(client) == [client EXCEPT !.fd = NoDescriptor]

reset_client(client) == [client EXCEPT !.fd = NoDescriptor, !.events = {},
                                       !.revents = {}]

(* Bug for the checks: the search does not stop at the first slot. *)
get_index_last(fd, index) ==
  /\ index \in Slots /\ clients[index].fd = fd
  /\ \A i \in index + 1 .. max_clients - 1 : clients[i].fd # fd

(* index is the first slot with fd. *)
get_index(fd, index) ==
  /\ index \in Slots
  /\ clients[index].fd = fd
  /\ \A i \in 0 .. index - 1 : clients[i].fd # fd

NotIn(fd) == \A i \in Slots : clients[i].fd # fd

Init ==
  /\ clients = [i \in Slots |->
                  [fd |-> NoDescriptor, events |-> {}, revents |-> {}]]
  /\ clients_length = 0
  /\ outcome = "done"
  /\ added = {}
  /\ removed = FALSE

Throw(exception) ==
  /\ outcome' = exception
  /\ UNCHANGED <<clients, clients_length, added, removed>>

(* The reference that operator[] returns is used to set the events. *)
set_events(fd, events) ==
  \/ /\ \E index \in Slots :
          /\ get_index(fd, index)
          /\ clients' = [clients EXCEPT ![index].events = events]
     /\ outcome' = "done"
     /\ UNCHANGED <<clients_length, added, removed>>
  \/ NotIn(fd) /\ Throw("out_of_range")

add_descriptor(fd, events) ==
  \/ ~ NotIn(fd) /\ Throw("PollException")
  \/ /\ NotIn(fd)
     /\ \E index \in Slots :
          /\ get_index(NoDescriptor, index)
          /\ clients' = [clients EXCEPT ![index].fd = fd,
                                        ![index].events = events]
     /\ clients_length' = clients_length + 1
     /\ added' = added \cup {fd}
     /\ outcome' = "done"
     /\ UNCHANGED removed
  \/ NotIn(fd) /\ NotIn(NoDescriptor) /\ Throw("overflow_error")

(* The slots after clients[from] was copied to clients[index] and reset. *)
Moved(index, from) ==
  [clients EXCEPT ![index] = clients[from],
                  ![from] = reset_client(clients[from])]

(* Bugs for the checks: the descriptor is not overwritten; the length      *)
(* stays.                                                                  *)
Remove_keeps(fd, index) ==
  /\ get_index(fd, index) /\ clients_length < max_clients
  /\ clients' = [clients EXCEPT ![clients_length] = reset_client(@)]
  /\ clients_length' = clients_length - 1 /\ outcome' = "done"

Remove_stays(fd, index) ==
  /\ get_index(fd, index) /\ clients_length < max_clients
  /\ clients' = Moved(index, clients_length)
  /\ outcome' = "done" /\ UNCHANGED clients_length

(* The slot of fd gets what is in the slot behind the first clients_length *)
(* ones, if there is one.                                                  *)
Remove(fd, index) ==
  /\ get_index(fd, index)
  /\ \/ /\ clients_length < max_clients
        /\ clients' = Moved(index, clients_length)
        /\ clients_length' = clients_length - 1
        /\ outcome' = "done"
     \/ /\ clients_length = max_clients
        /\ outcome' = "undefined"
        /\ UNCHANGED <<clients, clients_length>>

remove_descriptor(fd) ==
  \/ /\ \E index \in Slots : Remove(fd, index)
     /\ added' = added \ {fd}
     /\ removed' = TRUE
  \/ NotIn(fd) /\ Throw("out_of_range")

(* The descriptors in the slots that poll and the iterator see. *)
Polled == {clients[i].fd : i \in 0 .. clients_length - 1} \ {NoDescriptor}

(* poll reports some of the events that a descriptor waits for; the others *)
(* stay at the zero they were reset to.                                    *)
wait(reported) ==
  /\ clients' = [i \in Slots |->
                   [clients[i] EXCEPT !.revents =
                      {event \in clients[i].events :
                         /\ i < clients_length
                         /\ <<clients[i].fd, event>> \in reported}]]
  /\ outcome' = IF \A i \in Slots : clients'[i].revents = {}
                THEN "PollTimeoutException" ELSE "done"
  /\ UNCHANGED <<clients_length, added, removed>>

wait_fails ==
  /\ clients' = [i \in Slots |-> [clients[i] EXCEPT !.revents = {}]]
  /\ outcome' = "runtime_error"
  /\ UNCHANGED <<clients_length, added, removed>>

(* Every operation on a negative descriptor. *)
negative_descriptor == Throw("invalid_argument")

Next ==
  /\ outcome # "undefined"
  /\ \/ \E fd \in Descriptor, events \in SUBSET Event :
          add_descriptor(fd, events) \/ set_events(fd, events)
     \/ \E fd \in Descriptor : remove_descriptor(fd)
     \/ \E reported \in SUBSET (Polled \X Event) : wait(reported)
     \/ wait_fails
     \/ negative_descriptor

Spec == Init /\ [][Next]_vars

-----------------------------------------------------------------------------

(* Every variable keeps its type, and a slot without a descriptor is as    *)
(* reset_client leaves it: no events of another descriptor stay in it.     *)
TypeOK ==
  /\ clients \in [Slots -> [fd : Descriptor \cup {NoDescriptor},
                            events : SUBSET Event, revents : SUBSET Event]]
  /\ clients_length \in 0 .. max_clients
  /\ outcome \in {"done", "PollException", "overflow_error", "out_of_range",
                  "invalid_argument", "PollTimeoutException",
                  "runtime_error", "undefined"}
  /\ added \subseteq Descriptor
  /\ removed \in BOOLEAN
  /\ \A i \in Slots : clients[i].fd = NoDescriptor =>
       clients[i].events = {} /\ clients[i].revents = {}

(* The slots hold the descriptors added and not removed, each once, as     *)
(* long as no operation left the array.                                    *)
HoldsAdded ==
  outcome # "undefined" =>
    /\ {clients[i].fd : i \in Slots} \ {NoDescriptor} = added
    /\ \A i, j \in Slots :
         clients[i].fd = clients[j].fd /\ i # j => clients[i].fd = NoDescriptor

(* clients_length counts them, although the slots have holes: a descriptor *)
(* is refused only when max_clients are in the set.                        *)
LengthCounts ==
  /\ outcome # "undefined" => clients_length = Cardinality(added)
  /\ outcome = "overflow_error" => clients_length = max_clients

(* As long as none has been removed every descriptor is polled.            *)
PolledUntilRemoved == ~ removed => Polled = added
=============================================================================

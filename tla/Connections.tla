---------------------------- MODULE Connections ----------------------------
(***************************************************************************)
(* The register of clients of connections.h.  `clients' is its deque: one  *)
(* record per client with the queue of the intervals in which the client   *)
(* is to receive messages.  add_client is one step; get_clients is a loop  *)
(* that prunes the deque while it walks over it, one step per iteration.   *)
(*                                                                         *)
(* The clock of the server, std::time(0), is `now'; it never goes back.    *)
(* get_clients is called with arrival times of messages, which the server  *)
(* takes from its queue in the order in which they arrived: the `timestamp'*)
(* of a call is between the one of the call before and now.                *)
(*                                                                         *)
(* clients.erase(it++) moves elements under the iterator `it', which no    *)
(* rule of the language keeps valid.  The outcomes are those of the deque  *)
(* of libstdc++: an element of the first half is removed by shifting the   *)
(* elements before it, any other by shifting the elements after it.  An    *)
(* iterator past the end of the deque never compares equal to end(): the   *)
(* loop goes on over memory that holds no client, phase "undefined".       *)
(***************************************************************************)
EXTENDS Naturals, Sequences, SequencesExt

CONSTANTS Address,  (* socket addresses of clients                         *)
          NoOne,    (* the exclude argument nullptr                        *)
          TIMEOUT,  (* seconds for which a message keeps a client          *)
          MaxTime   (* bound of the clock                                  *)

ASSUME ConnectionsAssumption ==
  /\ NoOne \notin Address
  /\ TIMEOUT \in Nat
  /\ MaxTime \in Nat

VARIABLES
  clients,      (* sequence of [address, connections]                      *)
  now,          (* std::time(0)                                            *)
  phase,        (* "idle", "loop" inside get_clients, or "undefined"       *)
  timestamp,    (* the arguments of get_clients; timestamp stays after the *)
  exclude,      (* call                                                    *)
  it,           (* the position of the iterator, from 1                    *)
  the_clients,  (* the addresses get_clients returns                       *)
  contacts,     (* history: <<a, t>> for every add_client(a, t) that can   *)
                (* still make a eligible                                   *)
  skipped       (* history: the clients this call stepped over             *)

vars == <<clients, now, phase, timestamp, exclude, it, the_clients,
          contacts, skipped>>

scan == <<phase, timestamp, exclude, it, the_clients, skipped>>

Init ==
  /\ clients = <<>>
  /\ now = 0
  /\ phase = "idle"
  /\ timestamp = 0
  /\ exclude = NoOne
  /\ it = 1
  /\ the_clients = <<>>
  /\ contacts = {}
  /\ skipped = {}

Tick ==
  /\ now < MaxTime
  /\ now' = now + 1
  /\ UNCHANGED <<clients, scan, contacts>>

-----------------------------------------------------------------------------

NewInterval(t) == [first |-> t, second |-> t + TIMEOUT]

NewClient(a, t) == [address |-> a, connections |-> <<NewInterval(t)>>]

(* The connections with their last interval extended to t + TIMEOUT. *)
Extended(connections, t) ==
  [connections EXCEPT ![Len(connections)] =
     [first |-> Last(connections).first, second |-> t + TIMEOUT]]

(* Bugs for the checks: the start of an interval is not looked at, or is   *)
(* not in the interval.                                                    *)
in_bounds_end(t, interval) == t <= interval.second

in_bounds_open(t, interval) == interval.first < t /\ t <= interval.second

in_bounds(t, interval) == interval.first <= t /\ t <= interval.second

(* Bug for the checks: an interval that touches the new one is not         *)
(* extended.                                                               *)
add_connection_strict(connections, t) ==
  IF Last(connections).second > t
  THEN Extended(connections, t)
  ELSE Append(connections, NewInterval(t))

(* The last interval is extended if t is within it, or is followed by one. *)
add_connection(connections, t) ==
  IF Last(connections).second >= t
  THEN Extended(connections, t)
  ELSE Append(connections, NewInterval(t))

(* Bug for the checks: only the first client is looked at. *)
Position_first(a) == {k \in DOMAIN clients \cap {1} : clients[k].address = a}

Position(a) == {k \in DOMAIN clients : clients[k].address = a}

(* add_client(a, t) at time t: the first client with the address gets the  *)
(* connection, or a new client is put at the end.                          *)
add_client(a, t) ==
  /\ phase = "idle"
  /\ now' = t
  /\ \/ \E k \in Position(a) :
          /\ \A j \in Position(a) : k <= j
          /\ clients' = [clients EXCEPT
                           ![k].connections = add_connection(@, t)]
     \/ /\ Position(a) = {}
        /\ clients' = Append(clients, NewClient(a, t))
  /\ contacts' = contacts \cup {<<a, t>>}
  /\ UNCHANGED scan

-----------------------------------------------------------------------------

(* The call get_clients(t, ex), up to its loop. *)
get_clients(t, ex) ==
  /\ phase = "idle"
  /\ phase' = "loop"
  /\ timestamp' = t
  /\ exclude' = ex
  /\ contacts' = {c \in contacts : c[2] + TIMEOUT >= t}
  /\ UNCHANGED <<clients, now, it, the_clients, skipped>>

InLoop == phase = "loop" /\ it <= Len(clients)

(* The excluded client is passed over as it is. *)
Exclude ==
  /\ InLoop
  /\ clients[it].address = exclude
  /\ it' = it + 1
  /\ UNCHANGED <<clients, now, phase, timestamp, exclude, the_clients,
                 contacts, skipped>>

Intervals == clients[it].connections

(* Bugs for the checks: an interval that ends at timestamp is removed; one *)
(* that ended a second before it is not.                                   *)
Expired_early(interval) == interval.second <= timestamp

Expired_late(interval) == interval.second + 1 < timestamp

Expired(interval) == interval.second < timestamp

(* The oldest interval of the client ended before timestamp. *)
PopInterval ==
  /\ InLoop
  /\ clients[it].address # exclude
  /\ Intervals # <<>>
  /\ Expired(Head(Intervals))
  /\ clients' = [clients EXCEPT ![it].connections = Tail(@)]
  /\ UNCHANGED <<now, scan, contacts>>

(* clients.erase(it++) of a client with no interval left.  An element of   *)
(* the first half: the iterator follows the next client.  Any other: the   *)
(* next client moves to where the erased one was, and the iterator ends up *)
(* behind it, or past the end if there was none.                           *)
Erase ==
  /\ InLoop
  /\ clients[it].address # exclude
  /\ Intervals = <<>>
  /\ clients' = RemoveAt(clients, it)

InFirstHalf == it - 1 < Len(clients) \div 2

(* Bug for the checks: a client without intervals is left in the deque. *)
EraseFront_not ==
  /\ InLoop /\ clients[it].address # exclude /\ Intervals = <<>> /\ InFirstHalf
  /\ it' = it + 1
  /\ UNCHANGED <<clients, now, phase, timestamp, exclude, the_clients, contacts,
                 skipped>>

EraseFront ==
  /\ Erase
  /\ InFirstHalf
  /\ UNCHANGED <<now, scan, contacts>>

EraseBack ==
  /\ Erase
  /\ ~ InFirstHalf
  /\ it < Len(clients)
  /\ it' = it + 1
  /\ skipped' = skipped \cup {clients[it + 1].address}
  /\ UNCHANGED <<now, phase, timestamp, exclude, the_clients, contacts>>

(* Bug for the checks: the iterator moves on behind the end of the deque. *)
EraseLast_goes_on ==
  /\ Erase /\ ~ InFirstHalf /\ it = Len(clients) /\ it' = it + 1
  /\ UNCHANGED <<now, phase, timestamp, exclude, the_clients, contacts, skipped>>

EraseLast ==
  /\ Erase
  /\ ~ InFirstHalf
  /\ it = Len(clients)
  /\ phase' = "undefined"
  /\ UNCHANGED <<now, timestamp, exclude, it, the_clients, contacts, skipped>>

(* A client with an interval left is a recipient if its first interval     *)
(* holds timestamp.                                                        *)
Visit ==
  /\ InLoop
  /\ clients[it].address # exclude
  /\ Intervals # <<>>
  /\ ~ Expired(Head(Intervals))
  /\ the_clients' = IF in_bounds(timestamp, Head(Intervals))
                    THEN Append(the_clients, clients[it].address)
                    ELSE the_clients
  /\ it' = it + 1
  /\ UNCHANGED <<clients, now, phase, timestamp, exclude, contacts, skipped>>

AtEnd == phase = "loop" /\ it = Len(clients) + 1

(* The caller takes the_clients and the locals of the call are gone. *)
Return ==
  /\ AtEnd
  /\ phase' = "idle"
  /\ exclude' = NoOne
  /\ it' = 1
  /\ the_clients' = <<>>
  /\ skipped' = {}
  /\ UNCHANGED <<clients, now, timestamp, contacts>>

LoopStep ==
  \/ Exclude
  \/ PopInterval
  \/ EraseFront
  \/ EraseBack
  \/ EraseLast
  \/ Visit

Next ==
  \/ Tick
  \/ \E a \in Address, t \in now .. MaxTime : add_client(a, t)
  \/ \E t \in timestamp .. now, ex \in Address \cup {NoOne} :
       get_clients(t, ex)
  \/ LoopStep
  \/ Return

Spec == Init /\ [][Next]_vars

-----------------------------------------------------------------------------

Interval == [first : Nat, second : Nat]

Client == [address : Address, connections : Seq(Interval)]

(* Every variable keeps its type; `it' stays on the deque or at its end.   *)
TypeOK ==
  /\ clients \in Seq(Client)
  /\ now \in 0 .. MaxTime
  /\ phase \in {"idle", "loop", "undefined"}
  /\ timestamp \in 0 .. now
  /\ exclude \in Address \cup {NoOne}
  /\ it \in Nat \ {0}
  /\ phase = "idle" => it = 1 /\ the_clients = <<>> /\ skipped = {}
  /\ phase = "loop" => it <= Len(clients) + 1
  /\ the_clients \in Seq(Address)
  /\ contacts \subseteq Address \X (0 .. now)
  /\ skipped \subseteq Address

(* No two clients of the deque have the same address: a client is found by *)
(* its address and would otherwise get every message twice.                *)
AddressesDistinct ==
  \A j, k \in DOMAIN clients :
    clients[j].address = clients[k].address => j = k

(* A client in the deque has an interval, except the one the loop has just *)
(* emptied and is about to erase: back() and front() are never called on   *)
(* an empty queue.                                                         *)
EveryClientHasIntervals ==
  \A k \in DOMAIN clients :
    clients[k].connections = <<>> =>
      phase = "loop" /\ k = it /\ clients[k].address # exclude

InOrder(connections, t) ==
  /\ \A i \in DOMAIN connections :
       connections[i].first <= connections[i].second /\ connections[i].first <= t
  /\ \A i, j \in DOMAIN connections :
       i < j => connections[i].second < connections[j].first

(* The intervals of a client are in order and do not touch: only the first *)
(* one can hold the timestamp once those that ended before are popped.     *)
IntervalsInOrder ==
  \A k \in DOMAIN clients : InOrder(clients[k].connections, now)

-----------------------------------------------------------------------------

(* What README.md:17-18 asks for: the client sent something during the     *)
(* last TIMEOUT seconds, seen from time t.                                 *)
Eligible(a, t) == \E c \in contacts : /\ c[1] = a
                                      /\ c[2] <= t
                                      /\ t <= c[2] + TIMEOUT

Registered(a, t) ==
  \E k \in DOMAIN clients :
    /\ clients[k].address = a
    /\ \E i \in DOMAIN clients[k].connections :
         t \in clients[k].connections[i].first
                 .. clients[k].connections[i].second

(* Whatever was merged, popped and erased, the intervals cover exactly the *)
(* times at which the client is eligible, from the last timestamp on.      *)
IntervalsMatchContacts ==
  phase # "undefined" =>
    \A a \in Address, t \in timestamp .. MaxTime + TIMEOUT :
      Registered(a, t) <=> Eligible(a, t)

(* get_clients never returns the excluded client, a client twice, or one   *)
(* that was not in contact in the TIMEOUT seconds before timestamp.        *)
RecipientsAreEligible ==
  phase = "loop" =>
    /\ \A i \in DOMAIN the_clients :
         the_clients[i] # exclude /\ Eligible(the_clients[i], timestamp)
    /\ \A i, j \in DOMAIN the_clients :
         the_clients[i] = the_clients[j] => i = j

(* A client that should be in the result and is not is one that the loop   *)
(* stepped over right after it erased another.                             *)
OnlySkippedAreMissed ==
  AtEnd =>
    \A a \in Address \ {exclude} :
      Eligible(a, timestamp) => a \in ToSet(the_clients) \cup skipped

(* connections.h:84: the result of get_clients is the clients whose        *)
(* intervals contain timestamp, all of them.                               *)
EveryEligibleClientIsReturned ==
  AtEnd =>
    \A a \in Address \ {exclude} :
      Eligible(a, timestamp) => a \in ToSet(the_clients)

(* connections.h:85: a call removes all the intervals that ended before    *)
(* timestamp.                                                              *)
OldIntervalsAreRemoved ==
  AtEnd =>
    \A k \in DOMAIN clients : \A i \in DOMAIN clients[k].connections :
      clients[k].connections[i].second >= timestamp

(* The most that holds of it: only the excluded client and those that the  *)
(* loop stepped over keep intervals that ended before timestamp.           *)
OnlyPassedKeepOldIntervals ==
  AtEnd =>
    \A k \in DOMAIN clients :
      clients[k].address \notin skipped \cup {exclude} =>
        \A i \in DOMAIN clients[k].connections :
          clients[k].connections[i].second >= timestamp
=============================================================================

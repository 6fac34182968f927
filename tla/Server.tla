------------------------------- MODULE Server -------------------------------
(***************************************************************************)
(* The loop of Server::run() in server.h: one thread that polls one UDP    *)
(* socket, queues the messages it receives in a buffer and sends each of   *)
(* them to the clients that the register of connections.h returns for it.  *)
(* The socket and the network are the environment: any datagram may be     *)
(* there to receive and any call of sendto may succeed, block or fail.     *)
(*                                                                         *)
(* A message is its number in the order of reception, the second in which  *)
(* it was received and its sender.  pc says where in run() the server is:  *)
(* in poll, about to receive, about to send, or in get_clients, whose loop *)
(* is the one of Connections.  The buffer is the bounded queue that the    *)
(* ring of buffer.h implements.                                            *)
(***************************************************************************)
EXTENDS Naturals, Sequences, SequencesExt

CONSTANTS Address,     (* socket addresses, NoAddress included             *)
          NoAddress,   (* the all-zero address: no client has it           *)
          NoOne, TIMEOUT, MaxTime,
          NoMessage,   (* the null pointer in current_message              *)
          OutOfRange,
          buffer_size, (* 4096 in server.cc                                *)
          MaxMessages  (* bound of the messages received                   *)

ASSUME ServerAssumption ==
  /\ NoAddress \in Address
  /\ NoOne \notin Address
  /\ TIMEOUT \in Nat
  /\ MaxTime \in Nat
  /\ buffer_size \in Nat \ {0}
  /\ MaxMessages \in Nat

VARIABLES
  pc,               (* "wait", "receive", "send" or "prepare"              *)
  events,           (* what poll waits for: "in", "out"                    *)
  revents,          (* what it returned                                    *)
  buffer,           (* queued messages, oldest first                       *)
  current_item,     (* the message being sent                              *)
  current_clients,  (* the clients that are still to get it                *)
  received,         (* history: the number of messages received            *)
  lastSent          (* history: the last message sent to each client       *)

VARIABLES clients, now, phase, timestamp, exclude, it, the_clients,
          contacts, skipped

register == <<clients, now, phase, timestamp, exclude, it, the_clients,
              contacts, skipped>>

vars == <<pc, events, revents, buffer, current_item, current_clients,
          received, lastSent, register>>

Connections == INSTANCE Connections

Message == [id : 1 .. MaxMessages, time : 0 .. MaxTime, sender : Address]

ASSUME NoMessageAssumption == NoMessage \notin Message

Buffer == INSTANCE BoundedFifo
            WITH queue <- buffer, result <- current_item,
                 Item <- Message, NoItem <- NoMessage, Capacity <- buffer_size

(* Bug for the checks: a new message does not arm POLLOUT. *)
POLLIN_only == {"in"}

(* POLLIN | POLLOUT *)
POLLIN_POLLOUT == {"in", "out"}

Init ==
  /\ Connections!Init
  /\ Buffer!Init
  /\ pc = "wait"
  /\ events = POLLIN_POLLOUT
  /\ revents = {}
  /\ current_clients = <<>>
  /\ received = 0
  /\ lastSent = [a \in Address |-> 0]

-----------------------------------------------------------------------------

(* Seconds pass while the server waits. *)
Tick ==
  /\ pc = "wait"
  /\ Connections!Tick
  /\ UNCHANGED <<pc, events, revents, buffer, current_item, current_clients,
                 received, lastSent>>

(* poll returns some of the events it was asked for. *)
Wait(r) ==
  /\ pc = "wait"
  /\ r # {}
  /\ IF "in" \in r THEN pc' = "receive" /\ revents' = r
                   ELSE pc' = "send" /\ revents' = {}
  /\ UNCHANGED <<events, buffer, current_item, current_clients, received,
                 lastSent, register>>

(* The end of receive(): revents is tested for POLLOUT, and reset by the   *)
(* next call of wait.                                                      *)
AfterReceive ==
  /\ pc' = IF "out" \in revents THEN "send" ELSE "wait"
  /\ revents' = {}

(* receive() of a valid message.  The clock is read twice, for the message *)
(* and for its sender, and any time may have passed in between.            *)
ReceiveMessage(a, t) ==
  /\ pc = "receive"
  /\ received < MaxMessages
  /\ received' = received + 1
  /\ Buffer!Push([id |-> received', time |-> now, sender |-> a])
  /\ events' = POLLIN_POLLOUT
  /\ Connections!add_client(a, t)
  /\ AfterReceive
  /\ UNCHANGED <<current_clients, lastSent>>

(* receive() of an invalid message, which still makes its sender a client. *)
(* When recvfrom fails the address is still the zero it was initialized to.*)
ReceiveNothing(a, t) ==
  /\ pc = "receive"
  /\ Connections!add_client(a, t)
  /\ AfterReceive
  /\ UNCHANGED <<events, buffer, current_item, current_clients,
                 received, lastSent>>

Receive ==
  \E t \in now .. MaxTime :
    \/ \E a \in Address \ {NoAddress} : ReceiveMessage(a, t)
    \/ \E a \in Address : ReceiveNothing(a, t)

(* Bugs for the checks: the newest message is sent first; the sender is    *)
(* not excluded; the server does not leave get_clients.                    *)
Prepare_newest ==
  /\ pc = "send" /\ current_clients = <<>> /\ buffer # <<>>
  /\ current_item' = Last(buffer) /\ buffer' = Front(buffer)
  /\ Connections!get_clients(current_item'.time, current_item'.sender)
  /\ pc' = "prepare"
  /\ UNCHANGED <<events, revents, current_clients, received, lastSent>>

Prepare_all ==
  /\ pc = "send" /\ current_clients = <<>> /\ Buffer!Pop
  /\ Connections!get_clients(current_item'.time, NoOne)
  /\ pc' = "prepare"
  /\ UNCHANGED <<events, revents, current_clients, received, lastSent>>

GotClients_stays ==
  /\ pc = "prepare" /\ Connections!Return /\ current_clients' = the_clients
  /\ UNCHANGED <<pc, events, revents, buffer, current_item, received, lastSent>>

(* prepare_send_data: the oldest message, and the call for its recipients. *)
Prepare ==
  /\ pc = "send"
  /\ current_clients = <<>>
  /\ Buffer!Pop
  /\ Connections!get_clients(current_item'.time, current_item'.sender)
  /\ pc' = "prepare"
  /\ UNCHANGED <<events, revents, current_clients, received, lastSent>>

ScanClients ==
  /\ pc = "prepare"
  /\ Connections!LoopStep
  /\ UNCHANGED <<pc, events, revents, buffer, current_item, current_clients,
                 received, lastSent>>

GotClients ==
  /\ pc = "prepare"
  /\ Connections!Return
  /\ current_clients' = the_clients
  /\ pc' = "send"
  /\ UNCHANGED <<events, revents, buffer, current_item, received, lastSent>>

(* Bugs for the checks: POLLOUT is disarmed after one message without a    *)
(* recipient; it is never disarmed.                                        *)
SendNothing_early ==
  /\ pc = "send" /\ current_clients = <<>> /\ events' = {"in"} /\ pc' = "wait"
  /\ UNCHANGED <<revents, buffer, current_item, current_clients, received,
                 lastSent, register>>

SendNothing_spins ==
  /\ pc = "send" /\ current_clients = <<>> /\ buffer = <<>> /\ pc' = "wait"
  /\ UNCHANGED <<events, revents, buffer, current_item, current_clients,
                 received, lastSent, register>>

(* send() with nothing to send. *)
SendNothing ==
  /\ pc = "send"
  /\ current_clients = <<>>
  /\ buffer = <<>>
  /\ events' = {"in"}
  /\ pc' = "wait"
  /\ UNCHANGED <<revents, buffer, current_item, current_clients, received,
                 lastSent, register>>

(* send() to the first of current_clients. *)
Send(clientsLeft, sent) ==
  /\ pc = "send"
  /\ current_clients # <<>>
  /\ current_clients' = clientsLeft
  /\ lastSent' = sent
  /\ pc' = "wait"
  /\ UNCHANGED <<events, revents, buffer, current_item, received, register>>

(* Bug for the checks: the client that got the message stays in the queue. *)
SendTo_keeps == Send(current_clients,
               [lastSent EXCEPT ![Head(current_clients)] = current_item.id])

SendTo == Send(Tail(current_clients),
               [lastSent EXCEPT ![Head(current_clients)] = current_item.id])

(* sendto fails and the client does not get the message. *)
SendFails == Send(Tail(current_clients), lastSent)

(* Bug for the checks: the message goes back to the buffer. *)
SendWouldBlock_requeue ==
  /\ pc = "send" /\ current_clients # <<>>
  /\ Buffer!Push(current_item) /\ pc' = "wait"
  /\ UNCHANGED <<events, revents, current_clients, received, lastSent, register>>

(* sendto would block and the client is put back at the end. *)
SendWouldBlock ==
  Send(Append(Tail(current_clients), Head(current_clients)), lastSent)

(* What the thread does once poll has returned. *)
Step ==
  \/ Receive
  \/ Prepare
  \/ ScanClients
  \/ GotClients
  \/ SendNothing
  \/ SendTo
  \/ SendFails
  \/ SendWouldBlock

Next ==
  \/ Tick
  \/ \E r \in SUBSET events : Wait(r)
  \/ Step

Spec == Init /\ [][Next]_vars

(* The thread never stops between two calls of poll.  The kernel empties   *)
(* its send queue: poll does not report a readable socket for ever without *)
(* reporting that it is writable, and sendto does not block for ever.      *)
WaitWritable == \E r \in SUBSET events : "out" \in r /\ Wait(r)

FairSpec ==
  /\ Spec
  /\ WF_vars(Step)
  /\ SF_vars(WaitWritable)
  /\ SF_vars(SendTo \/ SendFails)

-----------------------------------------------------------------------------

(* Every variable keeps its type, and the register keeps its own.          *)
TypeOK ==
  /\ Connections!TypeOK
  /\ pc \in {"wait", "receive", "send", "prepare"}
  /\ events \in {{"in"}, {"in", "out"}}
  /\ revents \subseteq {"in", "out"}
  /\ buffer \in Seq(Message)
  /\ Len(buffer) <= buffer_size
  /\ current_item \in Message \cup {NoMessage}
  /\ current_clients \in Seq(Address)
  /\ current_clients # <<>> => current_item # NoMessage
  /\ received \in 0 .. MaxMessages
  /\ lastSent \in [Address -> 0 .. received]
  /\ phase = "idle" <=> pc # "prepare"

(* No message is stranded: the server waits for the socket to be writable  *)
(* as long as a message is queued or a client is to get the current one.   *)
WorkKeepsPollout ==
  buffer # <<>> \/ current_clients # <<>> \/ pc = "prepare" => "out" \in events

(* The buffer holds the newest messages without a gap, in the order and    *)
(* with the times in which they were received; the current one is older.   *)
BufferHoldsNewest ==
  /\ \A i \in DOMAIN buffer :
       /\ buffer[i].id = received - Len(buffer) + i
       /\ buffer[i].time <= now
       /\ current_item # NoMessage => current_item.time <= buffer[i].time
       /\ \A j \in i .. Len(buffer) : buffer[i].time <= buffer[j].time
  /\ current_item # NoMessage =>
       /\ current_item.id <= received - Len(buffer)
       /\ timestamp = current_item.time

(* README.md:107-109: a client gets messages in the order of reception and *)
(* none twice, also when sendto blocks and the client has to wait again.   *)
SendsInOrder ==
  /\ \A i \in DOMAIN current_clients :
       lastSent[current_clients[i]] < current_item.id
  /\ \A i, j \in DOMAIN current_clients :
       current_clients[i] = current_clients[j] => i = j
  /\ current_item # NoMessage =>
       \A a \in Address : lastSent[a] <= current_item.id

(* The server keeps to the protocol of the register: it calls get_clients  *)
(* with times that never decrease and are never in the future, and does    *)
(* nothing to the register in the middle of a call.                        *)
KeepsRegisterProtocol == Connections!Spec

Relay == INSTANCE Relay
           WITH Id <- 1 .. MaxMessages, NoId <- 0, Capacity <- buffer_size,
                queue <- buffer, current <- current_item,
                choosing <- pc = "prepare",
                recipients <- ToSet(current_clients), last <- lastSent

(* README.md:15-18, 107-109: the server does what Relay promises.          *)
ImplementsRelay == Relay!Spec

(* Every message leaves the buffer, sent or overwritten.                   *)
MessagesLeaveTheBuffer ==
  \A n \in 1 .. MaxMessages :
    (\E i \in DOMAIN buffer : buffer[i].id = n)
      ~> (phase = "undefined" \/ \A i \in DOMAIN buffer : buffer[i].id # n)

(* When no more messages are received the server stops polling for a       *)
(* writable socket: it does not spin on a socket that is always writable.  *)
GoesQuiet == <>[](events = {"in"} \/ phase = "undefined")

(* README.md:17-18: a message is sent to clients that sent something.      *)
OnlyToSenders ==
  \A i \in DOMAIN current_clients : current_clients[i] # NoAddress

(* server.h:213-215: the loop goes on until stop() is called.              *)
LoopGoesOn == phase # "undefined"
=============================================================================

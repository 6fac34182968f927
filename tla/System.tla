------------------------------- MODULE System -------------------------------
(***************************************************************************)
(* Clients, the network and the server.  The server is the one of Relay,   *)
(* which Server is shown to implement; the clients are those of client.cc  *)
(* and client.h; the datagrams are those of Protocol.  UDP may lose,       *)
(* duplicate and reorder datagrams.  Other programs may send anything, to  *)
(* the server and to the clients.                                          *)
(***************************************************************************)
EXTENDS FiniteSets, Protocol, Parse

CONSTANTS Client, Other,       (* the addresses of clients and of others   *)
          server,              (* the address of the server                *)
          File,                (* the contents the file may have           *)
          Arguments,           (* what clients are started with, without   *)
                               (* the name of the program                  *)
          TimestampSize,       (* the number of values of a timestamp_t    *)
          DEFAULT_PORT, server_port,
          Datagram,            (* what others send                         *)
          TIMEOUT, MaxTime, Capacity, NoId, NoMessage, OutOfRange,
          MaxPackets           (* bound of the network                     *)

ASSUME SystemAssumption ==
  /\ server \notin Client \cup Other
  /\ Client \cap Other = {}
  /\ \A file \in File : file \in Seq(ToSet(file)) /\ NUL \notin ToSet(file)
  /\ {MAX_TIMESTAMP, MaxTime, TIMEOUT, MaxPackets} \subseteq Nat
  /\ {TimestampSize, Capacity} \subseteq Nat \ {0}
  /\ NoId \notin 0 .. MAX_TIMESTAMP
  /\ Short \notin [timestamp : 0 .. MAX_TIMESTAMP,
                   data : {<<>>} \cup {file \o <<NUL>> : file \in File}]
  /\ \A datagram \in Datagram \ {Short} : datagram.timestamp \in Nat

VARIABLES now, contacts, queue, current, choosing, recipients

VARIABLES file_content,  (* of the server                                  *)
          timestamp,     (* of each client, NoId if it does not run        *)
          told,          (* history: the argument of it                    *)
          network,       (* datagrams on their way                         *)
          printed,       (* what a client prints in this step, and which   *)
          heard          (* history: <<a, t>>, a was heard by the server   *)

relay == <<now, contacts, queue, current, choosing, recipients>>

vars == <<relay, file_content, timestamp, told, network, printed, heard>>

Address == Client \cup Other

Timestamp == 0 .. MAX_TIMESTAMP

(* What was sent is in the network, and not in the variable of Relay. *)
Relay == INSTANCE Relay
           WITH Id <- Timestamp, last <- [a \in Address |-> NoId]

(* origin and time say where and when the server got what it sends: they   *)
(* are not in the datagram.                                                *)
Packet(from, to, datagram, origin, time) ==
  [from |-> from, to |-> to, datagram |-> datagram, origin |-> origin,
   time |-> time]

Init ==
  /\ Relay!Init
  /\ file_content \in File
  /\ timestamp = [c \in Client |-> NoId]
  /\ told = [c \in Client |-> <<>>]
  /\ network = {}
  /\ printed = NoMessage
  /\ heard = {}

-----------------------------------------------------------------------------

Put(packet) ==
  /\ Cardinality(network) < MaxPackets
  /\ network' = network \cup {packet}

(* A datagram that is received may be received again. *)
Got(packet) == network' \in {network, network \ {packet}}

Lose ==
  /\ \E packet \in network : network' = network \ {packet}
  /\ printed' = NoMessage
  /\ UNCHANGED <<relay, file_content, timestamp, told, heard>>

parse_timestamp(input) ==
  LET parsed == parse_number(input, TimestampSize)
  IN  IF parsed = Bad \/ ~ is_proper_timestamp(parsed) THEN Bad ELSE parsed

port(arguments) ==
  IF Len(arguments) = 4 THEN parse_port(arguments[4]) ELSE DEFAULT_PORT

(* The address of the client's server: at another port there is nobody. *)
setup_address(arguments) ==
  IF port(arguments) = server_port THEN server ELSE NoId

(* sendto fails, which is only reported, or sends to whom is there. *)
send(c, address, message) ==
  \/ address = server /\ Put(Packet(c, address, to_bytes(message, FALSE), c, now))
  \/ UNCHANGED network

(* A client with proper arguments sends its message and receives from then *)
(* on.  Any other exits with an error and does nothing.                    *)
Start(c, arguments) ==
  /\ timestamp[c] = NoId
  /\ Len(arguments) \in {3, 4}
  /\ Bad \notin {parse_timestamp(arguments[1]), parse_character(arguments[2]),
                 port(arguments)}
  /\ timestamp' = [timestamp EXCEPT ![c] = parse_timestamp(arguments[1])]
  /\ told' = [told EXCEPT ![c] = arguments[1]]
  /\ send(c, setup_address(arguments),
          [timestamp |-> timestamp'[c], message |-> <<>>])
  /\ printed' = NoMessage
  /\ UNCHANGED <<relay, file_content, heard>>

(* Others send anything at any time, to the server and to the clients:     *)
(* their datagrams need not wait in the network.                           *)
Strange ==
  {Packet(o, to, datagram, o, now) :
     o \in Other, to \in Client \cup {server}, datagram \in Datagram}

(* Whatever arrives makes its sender a contact. *)
ServerReceives(packet, t) ==
  /\ packet.to = server
  /\ Got(packet)
  /\ IF /\ accepts(packet.datagram, FALSE)
        /\ ~ has_message(from_bytes(packet.datagram))
     THEN Relay!Receive(packet.from, packet.datagram.timestamp, t)
     ELSE Relay!Contact(packet.from, t)
  /\ heard' = heard \cup {<<packet.from, t>>}
  /\ printed' = NoMessage
  /\ UNCHANGED <<file_content, timestamp, told>>

ServerWorks ==
  /\ Relay!Tick \/ Relay!Take \/ Relay!Choose
  /\ printed' = NoMessage
  /\ UNCHANGED <<file_content, timestamp, told, network, heard>>

ServerSends(a) ==
  LET datagram == to_bytes([timestamp |-> current.id, message |-> file_content],
                           TRUE)
  IN  /\ fits(datagram)
      /\ Relay!Done(a)
      /\ Put(Packet(server, a, datagram, current.sender, current.time))
      /\ printed' = NoMessage
      /\ UNCHANGED <<file_content, timestamp, told, heard>>

(* sendto fails, as it always does with a datagram that does not fit. *)
ServerFails(a) ==
  /\ Relay!Done(a)
  /\ printed' = NoMessage
  /\ UNCHANGED <<file_content, timestamp, told, network, heard>>

(* The client prints the messages it gets, whoever sent them, and goes on  *)
(* after one that is not valid.                                            *)
ClientReceives(c, packet) ==
  /\ timestamp[c] # NoId
  /\ packet.to = c
  /\ Got(packet)
  /\ printed' = IF accepts(packet.datagram, TRUE)
                THEN [message |-> from_bytes(packet.datagram), by |-> c,
                      from |-> packet.from, origin |-> packet.origin,
                      time |-> packet.time]
                ELSE NoMessage
  /\ UNCHANGED <<relay, file_content, timestamp, told, heard>>

Next ==
  \/ Lose
  \/ \E c \in Client, arguments \in Arguments : Start(c, arguments)
  \/ \E packet \in network \cup Strange, t \in now .. MaxTime :
       ServerReceives(packet, t)
  \/ ServerWorks
  \/ \E a \in recipients : ServerSends(a) \/ ServerFails(a)
  \/ \E c \in Client, packet \in network \cup Strange :
       ClientReceives(c, packet)

Spec == Init /\ [][Next]_vars

-----------------------------------------------------------------------------

(* The state of the programs and of the network has its type.              *)
TypeOK ==
  /\ now \in 0 .. MaxTime
  /\ contacts \subseteq heard
  /\ heard \subseteq Address \X (0 .. now)
  /\ queue \in Seq(Relay!Message) /\ Len(queue) <= Capacity
  /\ current \in Relay!Message \cup {NoMessage}
  /\ recipients \subseteq Address
  /\ file_content \in File
  /\ timestamp \in [Client -> Timestamp \cup {NoId}]
  /\ Cardinality(network) <= MaxPackets

(* README.md:78-79: the programs never send invalid data: what a client    *)
(* sends is valid for the server, what the server sends is valid for a     *)
(* client, whatever file it has and whatever made it queue the message.    *)
NothingInvalidIsSent ==
  \A packet \in network :
    /\ packet.from \in Client =>
         /\ accepts(packet.datagram, FALSE)
         /\ ~ has_message(from_bytes(packet.datagram))
    /\ packet.from = server => accepts(packet.datagram, TRUE)

(* README.md:63-64, parse.h:58-60: the timestamp that a client sends is    *)
(* the one it was started with, written without a sign and leading zeros.  *)
SendsWhatItWasTold ==
  \A packet \in network :
    packet.from \in Client =>
      LET string == told[packet.from]
      IN  /\ string # <<>> /\ ToSet(string) \subseteq Digit
          /\ Head(string) = 0 => Len(string) = 1
          /\ Magnitude(string) = packet.datagram.timestamp

(* README.md:11-18: what a client prints of the server is the message of   *)
(* another, which sent that timestamp, with the whole content of the file. *)
PrintsMessagesOfOthers ==
  printed # NoMessage /\ printed.from = server =>
    /\ printed.origin # printed.by
    /\ printed.message.message = file_content
    /\ printed.origin \in Client =>
         printed.message.timestamp = timestamp[printed.origin]

(* README.md:17-18: the server had heard of the client in the two minutes  *)
(* before that message, however late the client gets it.                   *)
PrintsWhatItWasInContactFor ==
  printed # NoMessage /\ printed.from = server =>
    \E t \in 0 .. printed.time :
      <<printed.by, t>> \in heard /\ printed.time <= t + TIMEOUT
=============================================================================

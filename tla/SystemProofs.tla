---------------------------- MODULE SystemProofs ----------------------------
(***************************************************************************)
(* Proofs about System, for any number of clients and of other programs,   *)
(* any files, arguments and datagrams of others, and every capacity of the *)
(* network: the types, that the programs send nothing invalid, and that a  *)
(* client prints of the server only what another sent, and only when it    *)
(* was in contact in time.                                                 *)
(*                                                                         *)
(* Of each datagram on its way the inductive invariant SysInv says who     *)
(* sent it and why: a client's has that client's timestamp, the server's   *)
(* is for a contact of the time it was due.  Since contacts are never      *)
(* forgotten in heard, timestamps are given once and the file is read      *)
(* once, what was so when it was sent is still so when it arrives.         *)
(***************************************************************************)
EXTENDS System, ParseProofs, FiniteSetTheorems

(* The server heard of a at most TIMEOUT seconds before time.              *)
InContact(a, time) ==
  \E t \in 0 .. time : <<a, t>> \in heard /\ time <= t + TIMEOUT

(* If a is a client then id is its timestamp.                              *)
Says(a, id) == a \in Client => id = timestamp[a]

FromClient(packet) ==
  /\ packet.from \in Client
  /\ packet.to = server
  /\ timestamp[packet.from] \in Timestamp
  /\ packet.datagram = [timestamp |-> timestamp[packet.from], data |-> <<>>]

FromServer(packet) ==
  /\ packet.from = server
  /\ packet.to \in Address
  /\ packet.origin \in Address \ {packet.to}
  /\ packet.time \in 0 .. MaxTime
  /\ InContact(packet.to, packet.time)
  /\ \E id \in Timestamp :
       /\ Says(packet.origin, id)
       /\ packet.datagram =
            to_bytes([timestamp |-> id, message |-> file_content], TRUE)

(* The parts of the inductive invariant: the datagrams on their way; the   *)
(* message that the server has taken; the contacts it chooses from; those  *)
(* it chose; whose messages it has.                                        *)
Travelling ==
  \A packet \in network : FromClient(packet) \/ FromServer(packet)

Taken == choosing \/ recipients # {} => current \in Relay!Message

Recent ==
  choosing => \A contact \in contacts : contact[2] + TIMEOUT >= current.time

Chosen ==
  \A a \in recipients : a # current.sender /\ InContact(a, current.time)

Attributed ==
  /\ \A i \in 1 .. Len(queue) : Says(queue[i].sender, queue[i].id)
  /\ choosing \/ recipients # {} => Says(current.sender, current.id)

SysInv ==
  /\ TypeOK /\ IsFiniteSet(network)
  /\ Travelling
  /\ Taken /\ Recent /\ Chosen /\ Attributed
  /\ PrintsMessagesOfOthers /\ PrintsWhatItWasInContactFor

(* What no step takes back.                                                *)
Grows ==
  /\ file_content' = file_content
  /\ heard \subseteq heard'
  /\ \A c \in Client : timestamp[c] # NoId => timestamp'[c] = timestamp[c]

-----------------------------------------------------------------------------
(* Strings, numbers and datagrams.                                         *)

(* An argument that is accepted is the digits of a proper timestamp.       *)
LEMMA ParsedTimestamp ==
  ASSUME NEW input, parse_timestamp(input) # Bad
  PROVE  /\ parse_timestamp(input) \in Timestamp
         /\ Proper(input) /\ Magnitude(input) = parse_timestamp(input)
<1> DEFINE number == parse_number(input, TimestampSize)
<1>1. /\ number # Bad
      /\ parse_timestamp(input) = number
      /\ number <= MAX_TIMESTAMP
  BY DEF parse_timestamp, is_proper_timestamp
<1>2. number = IF Proper(input) /\ Magnitude(input) < TimestampSize
               THEN Magnitude(input) ELSE Bad
  BY SystemAssumption, ParseNumberIsExact
<1> HIDE DEF number
<1>3. Proper(input) /\ number = Magnitude(input)
  BY <1>1, <1>2
<1>4. Magnitude(input) \in Nat
  BY <1>3, NumeralOfMagnitude
<1> QED
  BY <1>1, <1>3, <1>4, SystemAssumption DEF Timestamp

(* A string without NUL is what is read of it when a NUL is put behind it. *)
LEMMA Terminated ==
  ASSUME NEW string, string \in Seq(ToSet(string)), NUL \notin ToSet(string)
  PROVE  LET data == string \o <<NUL>>
         IN  /\ data # <<>>
             /\ Last(data) = NUL
             /\ c_str(data) = string
<1> DEFINE n == Len(string)
           data == string \o <<NUL>>
           S == ToSet(string) \cup {NUL}
<1>1. /\ n \in Nat
      /\ DOMAIN string = 1 .. n
      /\ \A i \in 1 .. n : string[i] # NUL
  BY LenProperties DEF ToSet
<1>2. string \in Seq(S) /\ <<NUL>> \in Seq(S)
  BY SeqMonotonic
<1>3. /\ data \in Seq(S)
      /\ Len(data) = n + 1
      /\ DOMAIN data = 1 .. n + 1
      /\ \A i \in 1 .. n : data[i] = string[i]
      /\ data[n + 1] = NUL
  BY <1>1, <1>2, ConcatProperties, LenProperties
<1> HIDE DEF data, n, S
<1>4. data # <<>> /\ Last(data) = NUL
  BY <1>1, <1>3 DEF Last
<1>5. NUL \in ToSet(data)
  BY <1>1, <1>3 DEF ToSet
<1> DEFINE I == {i \in 1 .. Len(data) : data[i] = NUL}
<1>6. c_str(data) = SubSeq(data, 1, (IF I # {} THEN Min(I) ELSE 0) - 1)
  BY <1>5 DEF c_str, SelectInSeq
<1>7. I = {n + 1} /\ Min(I) = n + 1
  <2>1. I = {n + 1}
    BY <1>1, <1>3
  <2> QED
    BY <1>1, <2>1 DEF Min
<1> HIDE DEF I
<1>8. c_str(data) = string
  <2>1. SubSeq(data, 1, n) = string
    BY <1>1, <1>2, <1>3, SubSeqOfConcat1, SubSeqFull DEF data, n
  <2>2. (IF I # {} THEN Min(I) ELSE 0) - 1 = n
    BY <1>1, <1>7
  <2>3. c_str(data) = SubSeq(data, 1, n)
    BY <1>6, <2>2
  <2> QED
    BY <2>1, <2>3
<1> QED
  BY <1>4, <1>8 DEF data

(* What a client sends is valid for the server.                            *)
LEMMA ClientSendsValid ==
  ASSUME NEW id \in Timestamp
  PROVE  LET datagram == [timestamp |-> id, data |-> <<>>]
         IN  /\ datagram =
                  to_bytes([timestamp |-> id, message |-> <<>>], FALSE)
             /\ accepts(datagram, FALSE)
             /\ ~ has_message(from_bytes(datagram))
<1> DEFINE datagram == [timestamp |-> id, data |-> <<>>]
<1>1. <<>> \o <<>> = <<>>
  BY EmptySeq, ConcatEmptySeq
<1>2. datagram = to_bytes([timestamp |-> id, message |-> <<>>], FALSE)
  BY <1>1 DEF to_bytes
<1>3. /\ datagram # Short
      /\ is_proper_timestamp(datagram.timestamp)
  BY SystemAssumption DEF Timestamp, is_proper_timestamp
<1>4. accepts(datagram, FALSE)
  BY <1>3 DEF accepts
<1>5. c_str(<<>>) = <<>>
  BY DEF c_str, ToSet
<1>6. ~ has_message(from_bytes(datagram))
  BY <1>5 DEF has_message, from_bytes
<1> QED
  BY <1>2, <1>4, <1>6

(* communication.h, protocol.h: what the server sends is valid for a       *)
(* client, which reads the same timestamp and the whole file from it.      *)
THEOREM ServerSendsValid ==
  ASSUME NEW id \in Timestamp, NEW file \in File
  PROVE  LET message == [timestamp |-> id, message |-> file]
         IN  /\ accepts(to_bytes(message, TRUE), TRUE)
             /\ from_bytes(to_bytes(message, TRUE)) = message
<1> DEFINE message == [timestamp |-> id, message |-> file]
           data == file \o <<NUL>>
           datagram == [timestamp |-> id, data |-> data]
<1>1. to_bytes(message, TRUE) = datagram
  BY DEF to_bytes
<1>2. data # <<>> /\ Last(data) = NUL /\ c_str(data) = file
  BY SystemAssumption, Terminated
<1>3. datagram # Short
  BY SystemAssumption DEF Timestamp
<1> HIDE DEF data
<1>4. is_proper_timestamp(datagram.timestamp)
  BY SystemAssumption DEF Timestamp, is_proper_timestamp
<1>5. accepts(datagram, TRUE)
  BY <1>2, <1>3, <1>4 DEF accepts
<1>6. from_bytes(datagram) = message
  BY <1>2 DEF from_bytes
<1> QED
  BY <1>1, <1>5, <1>6

-----------------------------------------------------------------------------
(* What steps take back, and where they leave the programs.                *)

(* A client is given its timestamp once, the file is read before, and what *)
(* the server heard stays so.                                              *)
LEMMA StepGrows ==
  ASSUME SysInv, [Next]_vars
  PROVE  Grows
<1> USE DEF Grows
<1>1. CASE UNCHANGED vars
  BY <1>1 DEF vars
<1>2. CASE Lose
  BY <1>2 DEF Lose
<1>3. ASSUME NEW c \in Client, NEW arguments, Start(c, arguments)
      PROVE  Grows
  <2>1. /\ timestamp[c] = NoId
        /\ timestamp' = [timestamp EXCEPT ![c] = parse_timestamp(arguments[1])]
        /\ UNCHANGED <<file_content, heard>>
    BY <1>3 DEF Start
  <2>2. timestamp \in [Client -> Timestamp \cup {NoId}]
    BY DEF SysInv, TypeOK
  <2> QED
    BY <2>1, <2>2
<1>4. ASSUME NEW packet, NEW t, ServerReceives(packet, t) PROVE Grows
  BY <1>4 DEF ServerReceives
<1>5. CASE ServerWorks
  BY <1>5 DEF ServerWorks
<1>6. ASSUME NEW a, ServerSends(a) \/ ServerFails(a) PROVE Grows
  BY <1>6 DEF ServerSends, ServerFails
<1>7. ASSUME NEW c, NEW packet, ClientReceives(c, packet) PROVE Grows
  BY <1>7 DEF ClientReceives
<1> QED
  BY <1>1, <1>2, <1>3, <1>4, <1>5, <1>6, <1>7 DEF Next

(* What was so of a message or a datagram stays so.                        *)
LEMMA StaysSo ==
  ASSUME Grows, NEW a, NEW id \in Timestamp, Says(a, id)
  PROVE  Says(a, id)'
<1>1. id # NoId
  BY SystemAssumption DEF Timestamp
<1> QED
  BY <1>1 DEF Says, Grows

LEMMA StaysInContact ==
  ASSUME Grows, NEW a, NEW time, InContact(a, time)
  PROVE  InContact(a, time)'
BY DEF InContact, Grows

LEMMA PacketStays ==
  ASSUME Grows, NEW packet, FromClient(packet) \/ FromServer(packet)
  PROVE  (FromClient(packet) \/ FromServer(packet))'
<1>1. CASE FromClient(packet)
  <2>1. timestamp[packet.from] # NoId
    BY <1>1, SystemAssumption DEF FromClient, Timestamp
  <2>2. timestamp'[packet.from] = timestamp[packet.from]
    BY <1>1, <2>1 DEF FromClient, Grows
  <2>3. FromClient(packet)'
    BY <1>1, <2>2 DEF FromClient
  <2> QED
    BY <2>3
<1>2. CASE FromServer(packet)
  <2>1. PICK id \in Timestamp :
          /\ Says(packet.origin, id)
          /\ packet.datagram =
               to_bytes([timestamp |-> id, message |-> file_content], TRUE)
    BY <1>2 DEF FromServer
  <2>2. Says(packet.origin, id)'
    BY <2>1, StaysSo
  <2>3. packet.datagram =
          to_bytes([timestamp |-> id, message |-> file_content'], TRUE)
    BY <2>1 DEF Grows
  <2>4. InContact(packet.to, packet.time)'
    BY <1>2, StaysInContact DEF FromServer
  <2>5. FromServer(packet)'
    BY <1>2, <2>2, <2>3, <2>4 DEF FromServer
  <2> QED
    BY <2>5
<1> QED
  BY <1>1, <1>2

(* Putting a datagram into the network and taking one out of it keep it    *)
(* finite and within its bound.                                            *)
LEMMA NetworkStays ==
  ASSUME IsFiniteSet(network), Cardinality(network) <= MaxPackets,
         NEW packet, Put(packet) \/ Got(packet) \/ UNCHANGED network
  PROVE  /\ IsFiniteSet(network')
         /\ Cardinality(network') <= MaxPackets
<1>0. MaxPackets \in Nat /\ Cardinality(network) \in Nat
  BY SystemAssumption, FS_CardinalityType
<1>1. CASE Put(packet)
  BY <1>0, <1>1, FS_AddElement DEF Put
<1>2. CASE Got(packet)
  <2>1. /\ IsFiniteSet(network \ {packet})
        /\ Cardinality(network \ {packet}) <= Cardinality(network)
        /\ Cardinality(network \ {packet}) \in Nat
    BY <1>0, FS_RemoveElement, FS_CardinalityType
  <2> QED
    BY <1>0, <1>2, <2>1 DEF Got
<1>3. CASE UNCHANGED network
  BY <1>3
<1> QED
  BY <1>1, <1>2, <1>3

-----------------------------------------------------------------------------
(* The steps of the server.                                                *)

(* The part of TypeOK about the state of Relay.                            *)
RelayTypes ==
  /\ now \in 0 .. MaxTime
  /\ contacts \subseteq heard
  /\ heard \subseteq Address \X (0 .. now)
  /\ queue \in Seq(Relay!Message) /\ Len(queue) <= Capacity
  /\ current \in Relay!Message \cup {NoMessage}
  /\ recipients \subseteq Address

RelayInv == RelayTypes /\ Taken /\ Recent /\ Chosen /\ Attributed

(* The server hears a at time t, and queues what a says, if anything.      *)
Hears(a, t) ==
  /\ heard' = heard \cup {<<a, t>>}
  /\ \/ Relay!Contact(a, t)
     \/ \E id \in Timestamp : Says(a, id) /\ Relay!Receive(a, id, t)

(* Whatever the server accepts says the timestamp of its sender, if that   *)
(* is a client.                                                            *)
LEMMA ReceivesHears ==
  ASSUME SysInv, NEW packet \in network \cup Strange, NEW t,
         ServerReceives(packet, t)
  PROVE  \E a \in Address : Hears(a, t)
<1> DEFINE a == packet.from
           id == packet.datagram.timestamp
<1>1. /\ packet.to = server
      /\ heard' = heard \cup {<<a, t>>}
      /\ \/ Relay!Contact(a, t)
         \/ accepts(packet.datagram, FALSE) /\ Relay!Receive(a, id, t)
  BY DEF ServerReceives
<1>2. /\ a \in Address
      /\ accepts(packet.datagram, FALSE) => id \in Timestamp /\ Says(a, id)
  <2>1. CASE packet \in network
    <3>1. server \notin Address
      BY SystemAssumption DEF Address
    <3>2. FromClient(packet)
      BY <1>1, <2>1, <3>1 DEF SysInv, Travelling, FromServer
    <3> DEFINE datagram == packet.datagram
    <3>3. /\ a \in Client /\ timestamp[a] \in Timestamp
          /\ datagram = [timestamp |-> timestamp[a], data |-> <<>>]
      BY <3>2 DEF FromClient
    <3> HIDE DEF datagram
    <3>4. datagram.timestamp = timestamp[a]
      BY <3>3
    <3>5. id = timestamp[a]
      BY <3>4 DEF datagram
    <3> HIDE DEF a, id
    <3> QED
      BY <3>3, <3>5 DEF Address, Says
  <2>2. CASE packet \in Strange
    <3>1. a \in Other /\ packet.datagram \in Datagram
      BY <2>2 DEF Strange, Packet
    <3>2. a \in Address /\ a \notin Client
      BY <3>1, SystemAssumption DEF Address
    <3>3. ASSUME accepts(packet.datagram, FALSE) PROVE id \in Timestamp
      <4>1. id \in Nat /\ id <= MAX_TIMESTAMP
        BY <3>1, <3>3, SystemAssumption DEF accepts, is_proper_timestamp
      <4> QED
        BY <4>1, SystemAssumption DEF Timestamp
    <3> QED
      BY <3>2, <3>3 DEF Says
  <2> QED
    BY <2>1, <2>2
<1> HIDE DEF a, id
<1> QED
  BY <1>1, <1>2 DEF Hears

(* A message that is queued is the last, and the others were queued.       *)
LEMMA Enqueued ==
  ASSUME NEW q \in Seq(Relay!Message), Len(q) <= Capacity,
         NEW m \in Relay!Message
  PROVE  LET r == Relay!Queue!Enqueue(q, m)
         IN  /\ r \in Seq(Relay!Message) /\ Len(r) <= Capacity
             /\ \A i \in 1 .. Len(r) :
                  r[i] = m \/ \E j \in 1 .. Len(q) : r[i] = q[j]
<1> DEFINE r == Relay!Queue!Enqueue(q, m)
           M == Relay!Message
<1>0. /\ Capacity \in Nat \ {0}
      /\ Len(q) \in Nat
  BY SystemAssumption, LenProperties
<1>1. CASE Len(q) < Capacity
  <2>1. r = Append(q, m)
    BY <1>1 DEF Relay!Queue!Enqueue
  <2> HIDE DEF r, M
  <2>2. /\ r \in Seq(M) /\ Len(r) = Len(q) + 1
        /\ \A i \in 1 .. Len(q) : r[i] = q[i]
        /\ r[Len(q) + 1] = m
    BY <2>1, AppendProperties DEF M
  <2> QED
    BY <1>0, <1>1, <2>2 DEF r, M
<1>2. CASE ~ Len(q) < Capacity
  <2> DEFINE l == Tail(q)
  <2>1. r = Append(l, m)
    BY <1>2 DEF Relay!Queue!Enqueue
  <2>2. q # <<>>
    BY <1>0, <1>2, EmptySeq
  <2>3. /\ l \in Seq(M) /\ Len(l) = Len(q) - 1
        /\ \A i \in 1 .. Len(q) - 1 : l[i] = q[i + 1]
    BY <2>2, HeadTailProperties
  <2> HIDE DEF l, r, M
  <2>4. /\ r \in Seq(M) /\ Len(r) = Len(l) + 1
        /\ \A i \in 1 .. Len(l) : r[i] = l[i]
        /\ r[Len(l) + 1] = m
    BY <2>1, <2>3, AppendProperties DEF M
  <2> QED
    BY <1>0, <1>2, <2>3, <2>4 DEF r, M
<1> QED
  BY <1>1, <1>2

(* The oldest message is taken, and the others stay queued.                *)
LEMMA Dequeued ==
  ASSUME NEW q \in Seq(Relay!Message), Len(q) <= Capacity, q # <<>>
  PROVE  /\ 1 \in 1 .. Len(q) /\ Head(q) = q[1]
         /\ Head(q) \in Relay!Message
         /\ Tail(q) \in Seq(Relay!Message) /\ Len(Tail(q)) <= Capacity
         /\ \A i \in 1 .. Len(Tail(q)) :
              \E j \in 1 .. Len(q) : Tail(q)[i] = q[j]
<1> DEFINE M == Relay!Message
<1>0. /\ Capacity \in Nat \ {0}
      /\ Len(q) \in Nat
  BY SystemAssumption, LenProperties
<1> HIDE DEF M
<1>1. Len(q) # 0
  BY EmptySeq DEF M
<1>2. /\ Head(q) = q[1] /\ Head(q) \in M
      /\ Tail(q) \in Seq(M) /\ Len(Tail(q)) = Len(q) - 1
      /\ \A i \in 1 .. Len(q) - 1 : Tail(q)[i] = q[i + 1]
  BY <1>0, <1>1, HeadTailProperties, ElementOfSeq DEF M
<1> QED
  BY <1>0, <1>1, <1>2 DEF M

(* q may be the queue: what its messages say is so.                        *)
Queued(q) ==
  /\ q \in Seq(Relay!Message) /\ Len(q) <= Capacity
  /\ \A i \in 1 .. Len(q) : Says(q[i].sender, q[i].id)

LEMMA EnqueuedSays ==
  ASSUME NEW q, Queued(q), NEW m \in Relay!Message, Says(m.sender, m.id)
  PROVE  Queued(Relay!Queue!Enqueue(q, m))
BY Enqueued DEF Queued

LEMMA DequeuedSays ==
  ASSUME NEW q, Queued(q), q # <<>>
  PROVE  /\ Queued(Tail(q))
         /\ Head(q) \in Relay!Message
         /\ Says(Head(q).sender, Head(q).id)
BY Dequeued DEF Queued

(* What a message says is still so after a step.                           *)
LEMMA MessageStaysSo ==
  ASSUME Grows, NEW m \in Relay!Message, Says(m.sender, m.id)
  PROVE  Says(m.sender, m.id)'
<1>1. m.id \in Timestamp
  BY DEF Relay!Message
<1> QED
  BY <1>1, StaysSo

LEMMA RelayTypesStep ==
  ASSUME RelayInv, UNCHANGED heard,
         Relay!Tick \/ Relay!Take \/ Relay!Choose
  PROVE  RelayTypes'
<1> USE DEF RelayInv, RelayTypes
<1>1. CASE Relay!Tick
  BY <1>1, SystemAssumption DEF Relay!Tick
<1>2. CASE Relay!Take
  <2>1. /\ queue # <<>> /\ current' = Head(queue) /\ queue' = Tail(queue)
        /\ contacts' \subseteq contacts
        /\ UNCHANGED <<now, recipients>>
    BY <1>2 DEF Relay!Take, Relay!TakeOldest, Relay!Queue!Pop
  <2> QED
    BY <2>1, Dequeued
<1>3. CASE Relay!Choose
  <2>1. Relay!Eligible \subseteq Address
    BY DEF Relay!Eligible
  <2> QED
    BY <1>3, <2>1 DEF Relay!Choose
<1> QED
  BY <1>1, <1>2, <1>3

(* Time passing.                                                           *)
LEMMA TickInv ==
  ASSUME RelayInv, Grows, Relay!Tick, UNCHANGED heard
  PROVE  RelayInv'
<1>1. /\ now' = now + 1 /\ now < MaxTime
      /\ UNCHANGED <<contacts, queue, current, choosing, recipients>>
  BY DEF Relay!Tick
<1>2. RelayTypes'
  BY RelayTypesStep
<1>3. Taken' /\ Recent'
  BY <1>1 DEF RelayInv, Taken, Recent
<1>4. Chosen'
  BY <1>1, StaysInContact DEF RelayInv, Chosen
<1>5. Attributed'
  <2>1. \A i \in 1 .. Len(queue) : queue[i] \in Relay!Message
    BY ElementOfSeq, LenProperties DEF RelayInv, RelayTypes
  <2> QED
    BY <1>1, <2>1, MessageStaysSo DEF RelayInv, Attributed, Taken
<1> QED
  BY <1>2, <1>3, <1>4, <1>5 DEF RelayInv

(* So is what the queue says.                                              *)
LEMMA QueueStaysSo ==
  ASSUME Grows, NEW q, Queued(q)
  PROVE  Queued(q)'
<1>1. \A i \in 1 .. Len(q) : q[i] \in Relay!Message
  BY ElementOfSeq, LenProperties DEF Queued
<1> QED
  BY <1>1, MessageStaysSo DEF Queued

(* The server hears somebody.                                              *)
LEMMA HearsInv ==
  ASSUME RelayInv, Grows, NEW a \in Address, NEW t, Hears(a, t)
  PROVE  RelayInv'
<1>0. /\ Queued(queue)
      /\ now \in 0 .. MaxTime
  BY DEF RelayInv, RelayTypes, Attributed, Queued
<1>1. /\ ~ choosing
      /\ t \in now .. MaxTime /\ now' = t
      /\ contacts' = contacts \cup {<<a, t>>}
      /\ heard' = heard \cup {<<a, t>>}
      /\ UNCHANGED <<current, choosing, recipients>>
  BY DEF Hears, Relay!Contact, Relay!Receive, Relay!Hear, Relay!Queue!Push
<1>2. \/ queue' = queue
      \/ \E id \in Timestamp :
           /\ Says(a, id)
           /\ queue' = Relay!Queue!Enqueue(queue,
                          [id |-> id, time |-> now, sender |-> a])
  BY DEF Hears, Relay!Contact, Relay!Receive, Relay!Queue!Push
<1>3. PICK q : q = queue' /\ Queued(q)
  <2>1. CASE queue' = queue
    BY <1>0, <2>1
  <2>2. ASSUME NEW id \in Timestamp, Says(a, id),
               queue' = Relay!Queue!Enqueue(queue,
                          [id |-> id, time |-> now, sender |-> a])
        PROVE  \E q : q = queue' /\ Queued(q)
    <3> DEFINE m == [id |-> id, time |-> now, sender |-> a]
    <3>1. m \in Relay!Message /\ Says(m.sender, m.id)
      BY <1>0, <2>2 DEF Relay!Message
    <3>2. queue' = Relay!Queue!Enqueue(queue, m)
      BY <2>2
    <3> HIDE DEF m
    <3> QED
      BY <1>0, <3>1, <3>2, EnqueuedSays
  <2> QED
    BY <1>2, <2>1, <2>2
<1>4. Queued(queue)'
  BY <1>3, QueueStaysSo DEF Queued
<1>5. RelayTypes'
  <2>1. /\ now' \in 0 .. MaxTime /\ now \in 0 .. now'
        /\ t \in 0 .. now'
    BY <1>0, <1>1, SystemAssumption
  <2>2. heard' \subseteq Address \X (0 .. now')
    BY <1>0, <1>1, <2>1 DEF RelayInv, RelayTypes
  <2> QED
    BY <1>1, <1>4, <2>1, <2>2 DEF RelayInv, RelayTypes, Queued
<1>6. Taken' /\ Recent'
  BY <1>1 DEF RelayInv, Taken, Recent
<1>7. Chosen'
  BY <1>1, StaysInContact DEF RelayInv, Chosen
<1>8. Attributed'
  BY <1>1, <1>4, MessageStaysSo DEF RelayInv, Attributed, Queued, Taken
<1> QED
  BY <1>5, <1>6, <1>7, <1>8 DEF RelayInv

(* The oldest message is taken, and contacts too old for it are forgotten. *)
LEMMA TakeInv ==
  ASSUME RelayInv, Grows, Relay!Take, UNCHANGED heard
  PROVE  RelayInv'
<1>0. Queued(queue)
  BY DEF RelayInv, RelayTypes, Attributed, Queued
<1>1. /\ recipients = {} /\ queue # <<>>
      /\ current' = Head(queue) /\ queue' = Tail(queue)
      /\ contacts' = {c \in contacts : c[2] + TIMEOUT >= current'.time}
      /\ UNCHANGED <<now, recipients>>
  BY DEF Relay!Take, Relay!TakeOldest, Relay!Queue!Pop
<1>2. /\ Queued(Tail(queue))
      /\ Head(queue) \in Relay!Message
      /\ Says(Head(queue).sender, Head(queue).id)
  BY <1>0, <1>1, DequeuedSays
<1>3. PICK q, m : /\ q = queue' /\ Queued(q)
                  /\ m = current' /\ m \in Relay!Message
                  /\ Says(m.sender, m.id)
  BY <1>1, <1>2
<1>4. Attributed'
  <2>1. Queued(q)' /\ Says(m.sender, m.id)'
    BY <1>3, QueueStaysSo, MessageStaysSo
  <2> QED
    BY <1>3, <2>1 DEF Attributed, Queued
<1>5. RelayTypes'
  BY RelayTypesStep
<1>6. Taken' /\ Recent'
  BY <1>1, <1>2 DEF Taken, Recent
<1>7. Chosen'
  BY <1>1 DEF Chosen
<1> QED
  BY <1>4, <1>5, <1>6, <1>7 DEF RelayInv

(* Those chosen are contacts, none too old, and not the sender.            *)
LEMMA ChooseInv ==
  ASSUME RelayInv, Grows, Relay!Choose, UNCHANGED heard
  PROVE  RelayInv'
<1>1. /\ choosing /\ ~ choosing'
      /\ recipients' \subseteq Relay!Eligible
      /\ UNCHANGED <<now, contacts, queue, current>>
  BY DEF Relay!Choose
<1>2. current \in Relay!Message /\ current.time \in Nat
  BY <1>1 DEF RelayInv, Taken, Relay!Message
<1>3. ASSUME NEW a \in Relay!Eligible
      PROVE  a # current.sender /\ InContact(a, current.time)
  <2>1. PICK t \in 0 .. current.time : <<a, t>> \in contacts
    BY DEF Relay!Eligible
  <2>2. t + TIMEOUT >= current.time
    BY <1>1, <2>1 DEF RelayInv, Recent
  <2>3. <<a, t>> \in heard
    BY <2>1 DEF RelayInv, RelayTypes
  <2>4. current.time <= t + TIMEOUT
    BY <1>2, <2>1, <2>2, SystemAssumption
  <2> QED
    BY <2>1, <2>3, <2>4 DEF InContact, Relay!Eligible
<1>4. RelayTypes'
  BY RelayTypesStep
<1>5. Taken' /\ Recent'
  BY <1>1, <1>2 DEF Taken, Recent
<1>6. Chosen'
  BY <1>1, <1>3, StaysInContact DEF Chosen
<1>7. Attributed'
  <2>1. Queued(queue) /\ UNCHANGED <<queue, current>>
    BY <1>1 DEF RelayInv, RelayTypes, Attributed, Queued
  <2>2. PICK q : q = queue /\ Queued(q)
    BY <2>1
  <2>3. Queued(q)'
    BY <2>2, QueueStaysSo
  <2> QED
    BY <1>1, <2>1, <2>2, <2>3, MessageStaysSo
       DEF RelayInv, Attributed, Queued, Taken
<1> QED
  BY <1>4, <1>5, <1>6, <1>7 DEF RelayInv

(* The server is done with a recipient, or does nothing.                   *)
LEMMA DoneInv ==
  ASSUME RelayInv, Grows, UNCHANGED heard, recipients' \subseteq recipients,
         UNCHANGED <<now, contacts, queue, current, choosing>>
  PROVE  RelayInv'
<1>1. RelayTypes' /\ Taken' /\ Recent'
  BY DEF RelayInv, RelayTypes, Taken, Recent
<1>2. Chosen'
  BY StaysInContact DEF RelayInv, Chosen
<1>3. Attributed'
  <2>1. Queued(queue) /\ UNCHANGED <<queue, current>>
    BY DEF RelayInv, RelayTypes, Attributed, Queued
  <2>2. PICK q : q = queue /\ Queued(q)
    BY <2>1
  <2>3. Queued(q)'
    BY <2>2, QueueStaysSo
  <2> QED
    BY <2>1, <2>2, <2>3, MessageStaysSo DEF RelayInv, Attributed, Queued, Taken
<1> QED
  BY <1>1, <1>2, <1>3 DEF RelayInv

(* What every step leaves of the state of Relay.                           *)
LEMMA RelayStep ==
  ASSUME SysInv, [Next]_vars
  PROVE  RelayInv'
<1>0. RelayInv /\ Grows
  BY StepGrows DEF SysInv, RelayInv, RelayTypes, TypeOK
<1>1. ASSUME UNCHANGED <<relay, heard>> PROVE RelayInv'
  BY <1>0, <1>1, DoneInv DEF relay
<1>2. CASE UNCHANGED vars
  BY <1>1, <1>2 DEF vars
<1>3. CASE Lose
  BY <1>1, <1>3 DEF Lose
<1>4. ASSUME NEW c, NEW arguments, Start(c, arguments) PROVE RelayInv'
  BY <1>1, <1>4 DEF Start
<1>5. ASSUME NEW packet \in network \cup Strange, NEW t,
             ServerReceives(packet, t)
      PROVE  RelayInv'
  BY <1>0, <1>5, ReceivesHears, HearsInv
<1>6. CASE ServerWorks
  BY <1>0, <1>6, TickInv, TakeInv, ChooseInv DEF ServerWorks
<1>7. ASSUME NEW a, ServerSends(a) \/ ServerFails(a) PROVE RelayInv'
  <2>1. Relay!Done(a) /\ UNCHANGED heard
    BY <1>7 DEF ServerSends, ServerFails
  <2>2. /\ recipients' \subseteq recipients
        /\ UNCHANGED <<now, contacts, queue, current, choosing>>
    BY <2>1 DEF Relay!Done
  <2> QED
    BY <1>0, <2>1, <2>2, DoneInv
<1>8. ASSUME NEW c, NEW packet, ClientReceives(c, packet) PROVE RelayInv'
  BY <1>1, <1>8 DEF ClientReceives
<1> QED
  BY <1>2, <1>3, <1>4, <1>5, <1>6, <1>7, <1>8 DEF Next

-----------------------------------------------------------------------------
(* The network and the clients.                                            *)

(* The network stays finite and within its bound.                          *)
LEMMA NetworkStep ==
  ASSUME SysInv, [Next]_vars
  PROVE  IsFiniteSet(network') /\ Cardinality(network') <= MaxPackets
<1>0. IsFiniteSet(network) /\ Cardinality(network) <= MaxPackets
  BY DEF SysInv, TypeOK
<1>1. CASE UNCHANGED vars
  BY <1>0, <1>1 DEF vars
<1>2. CASE Lose
  BY <1>0, <1>2, NetworkStays DEF Lose, Got
<1>3. ASSUME NEW c, NEW arguments, Start(c, arguments)
      PROVE  IsFiniteSet(network') /\ Cardinality(network') <= MaxPackets
  BY <1>0, <1>3, NetworkStays DEF Start, send
<1>4. ASSUME NEW packet, NEW t, ServerReceives(packet, t)
      PROVE  IsFiniteSet(network') /\ Cardinality(network') <= MaxPackets
  BY <1>0, <1>4, NetworkStays DEF ServerReceives
<1>5. CASE ServerWorks
  BY <1>0, <1>5 DEF ServerWorks
<1>6. ASSUME NEW a, ServerSends(a) \/ ServerFails(a)
      PROVE  IsFiniteSet(network') /\ Cardinality(network') <= MaxPackets
  BY <1>0, <1>6, NetworkStays DEF ServerSends, ServerFails
<1>7. ASSUME NEW c, NEW packet, ClientReceives(c, packet)
      PROVE  IsFiniteSet(network') /\ Cardinality(network') <= MaxPackets
  BY <1>0, <1>7, NetworkStays DEF ClientReceives
<1> QED
  BY <1>1, <1>2, <1>3, <1>4, <1>5, <1>6, <1>7 DEF Next

(* Only proper timestamps are given to clients.                            *)
LEMMA TypeStep ==
  ASSUME SysInv, [Next]_vars
  PROVE  TypeOK'
<1>1. RelayTypes' /\ Cardinality(network') <= MaxPackets
  BY RelayStep, NetworkStep DEF RelayInv
<1>2. file_content' \in File
  BY StepGrows DEF Grows, SysInv, TypeOK
<1>3. timestamp' \in [Client -> Timestamp \cup {NoId}]
  <2>0. timestamp \in [Client -> Timestamp \cup {NoId}]
    BY DEF SysInv, TypeOK
  <2>1. ASSUME NEW c, NEW arguments, Start(c, arguments)
        PROVE  timestamp' \in [Client -> Timestamp \cup {NoId}]
    <3>1. /\ parse_timestamp(arguments[1]) # Bad
          /\ timestamp' =
               [timestamp EXCEPT ![c] = parse_timestamp(arguments[1])]
      BY <2>1 DEF Start
    <3>2. parse_timestamp(arguments[1]) \in Timestamp
      BY <3>1, ParsedTimestamp
    <3> QED
      BY <2>0, <3>1, <3>2
  <2>2. CASE UNCHANGED timestamp
    BY <2>0, <2>2
  <2> QED
    BY <2>1, <2>2 DEF Next, vars, Lose, ServerReceives, ServerWorks,
                      ServerSends, ServerFails, ClientReceives
<1> QED
  BY <1>1, <1>2, <1>3 DEF TypeOK, RelayTypes

(* What a client sends when it starts.                                     *)
LEMMA StartSends ==
  ASSUME SysInv, NEW c \in Client, NEW arguments, Start(c, arguments),
         NEW packet, packet \in network', packet \notin network
  PROVE  FromClient(packet)'
<1> DEFINE id == parse_timestamp(arguments[1])
           message == [timestamp |-> timestamp'[c], message |-> <<>>]
<1>1. /\ id # Bad
      /\ timestamp' = [timestamp EXCEPT ![c] = id]
      /\ send(c, setup_address(arguments), message)
  BY DEF Start
<1>2. id \in Timestamp
  BY <1>1, ParsedTimestamp
<1> HIDE DEF id
<1>3. timestamp'[c] = id
  BY <1>1 DEF SysInv, TypeOK
<1>4. packet = Packet(c, server, to_bytes(message, FALSE), c, now)
  BY <1>1 DEF send, Put
<1>5. to_bytes(message, FALSE) = [timestamp |-> id, data |-> <<>>]
  BY <1>2, <1>3, ClientSendsValid
<1> HIDE DEF message
<1>6. /\ packet.from = c /\ packet.to = server
      /\ packet.datagram = [timestamp |-> id, data |-> <<>>]
  BY <1>4, <1>5 DEF Packet
<1> QED
  BY <1>2, <1>3, <1>6 DEF FromClient

(* What the server sends.                                                  *)
LEMMA ServerSendsRight ==
  ASSUME SysInv, NEW a \in recipients, ServerSends(a),
         NEW packet, packet \in network', packet \notin network
  PROVE  FromServer(packet)
<1> DEFINE message == [timestamp |-> current.id, message |-> file_content]
           datagram == to_bytes(message, TRUE)
<1>1. packet = Packet(server, a, datagram, current.sender, current.time)
  BY DEF ServerSends, Put
<1>2. /\ current \in Relay!Message
      /\ a # current.sender /\ InContact(a, current.time)
      /\ Says(current.sender, current.id)
      /\ a \in Address
  BY DEF SysInv, TypeOK, Taken, Chosen, Attributed
<1>3. /\ current.id \in Timestamp /\ current.sender \in Address
      /\ current.time \in 0 .. MaxTime
  BY <1>2 DEF Relay!Message
<1> HIDE DEF datagram
<1>4. /\ packet.from = server /\ packet.to = a
      /\ packet.datagram = datagram
      /\ packet.origin = current.sender /\ packet.time = current.time
  BY <1>1 DEF Packet
<1> QED
  BY <1>1, <1>2, <1>3, <1>4 DEF FromServer, datagram

(* Every datagram on its way comes from a client or from the server.       *)
LEMMA TravellingStep ==
  ASSUME SysInv, [Next]_vars
  PROVE  Travelling'
<1>0. Grows
  BY StepGrows
<1>1. ASSUME network' \subseteq network PROVE Travelling'
  BY <1>0, <1>1, PacketStays DEF SysInv, Travelling
<1>2. CASE UNCHANGED vars
  BY <1>1, <1>2 DEF vars
<1>3. CASE Lose
  BY <1>1, <1>3 DEF Lose
<1>4. ASSUME NEW c \in Client, NEW arguments, Start(c, arguments)
      PROVE  Travelling'
  BY <1>0, <1>4, StartSends, PacketStays DEF SysInv, Travelling
<1>5. ASSUME NEW packet, NEW t, ServerReceives(packet, t) PROVE Travelling'
  BY <1>1, <1>5 DEF ServerReceives, Got
<1>6. CASE ServerWorks
  BY <1>1, <1>6 DEF ServerWorks
<1>7. ASSUME NEW a \in recipients, ServerSends(a) PROVE Travelling'
  BY <1>0, <1>7, ServerSendsRight, PacketStays DEF SysInv, Travelling
<1>8. ASSUME NEW a, ServerFails(a) PROVE Travelling'
  BY <1>1, <1>8 DEF ServerFails
<1>9. ASSUME NEW c, NEW packet, ClientReceives(c, packet) PROVE Travelling'
  BY <1>1, <1>9 DEF ClientReceives, Got
<1> QED
  BY <1>2, <1>3, <1>4, <1>5, <1>6, <1>7, <1>8, <1>9 DEF Next

(* A client prints of the server what it was sent.                         *)
LEMMA PrintsStep ==
  ASSUME SysInv, [Next]_vars
  PROVE  (PrintsMessagesOfOthers /\ PrintsWhatItWasInContactFor)'
<1> DEFINE Prints == PrintsMessagesOfOthers /\ PrintsWhatItWasInContactFor
<1>1. ASSUME printed' = NoMessage PROVE Prints'
  BY <1>1 DEF PrintsMessagesOfOthers, PrintsWhatItWasInContactFor
<1>2. CASE UNCHANGED vars
  BY <1>2 DEF vars, SysInv, PrintsMessagesOfOthers,
              PrintsWhatItWasInContactFor
<1>3. CASE Lose
  BY <1>1, <1>3 DEF Lose
<1>4. ASSUME NEW c, NEW arguments, Start(c, arguments) PROVE Prints'
  BY <1>1, <1>4 DEF Start
<1>5. ASSUME NEW packet, NEW t, ServerReceives(packet, t) PROVE Prints'
  BY <1>1, <1>5 DEF ServerReceives
<1>6. CASE ServerWorks
  BY <1>1, <1>6 DEF ServerWorks
<1>7. ASSUME NEW a, ServerSends(a) \/ ServerFails(a) PROVE Prints'
  BY <1>1, <1>7 DEF ServerSends, ServerFails
<1>8. ASSUME NEW c \in Client, NEW packet \in network \cup Strange,
             ClientReceives(c, packet)
      PROVE  Prints'
  <2> SUFFICES ASSUME printed' # NoMessage, printed'.from = server
               PROVE  Prints'
    BY DEF PrintsMessagesOfOthers, PrintsWhatItWasInContactFor
  <2>1. /\ packet.to = c
        /\ printed' = [message |-> from_bytes(packet.datagram), by |-> c,
                       from |-> packet.from, origin |-> packet.origin,
                       time |-> packet.time]
        /\ UNCHANGED <<file_content, timestamp, heard>>
    BY <1>8 DEF ClientReceives
  <2>2. /\ printed'.message = from_bytes(packet.datagram)
        /\ printed'.by = packet.to /\ packet.from = server
        /\ printed'.origin = packet.origin /\ printed'.time = packet.time
    BY <2>1
  <2>3. FromServer(packet)
    <3>1. CASE packet \in network
      BY <3>1, <2>2, SystemAssumption DEF SysInv, Travelling, FromClient
    <3>2. CASE packet \in Strange
      BY <3>2, <2>2, SystemAssumption DEF Strange, Packet
    <3> QED
      BY <3>1, <3>2
  <2>4. PICK id \in Timestamp :
          /\ Says(packet.origin, id)
          /\ packet.datagram =
               to_bytes([timestamp |-> id, message |-> file_content], TRUE)
    BY <2>3 DEF FromServer
  <2>5. printed'.message = [timestamp |-> id, message |-> file_content]
    BY <2>2, <2>4, ServerSendsValid DEF SysInv, TypeOK
  <2>6. PrintsMessagesOfOthers'
    <3> DEFINE message == printed'.message
    <3> HIDE DEF message
    <3>1. message.timestamp = id /\ message.message = file_content
      BY <2>5 DEF message
    <3>2. /\ printed'.origin # printed'.by
          /\ printed'.origin \in Client => id = timestamp'[printed'.origin]
      BY <2>1, <2>2, <2>3, <2>4 DEF FromServer, Says
    <3> QED
      BY <2>1, <3>1, <3>2 DEF PrintsMessagesOfOthers, message
  <2>7. PrintsWhatItWasInContactFor'
    BY <2>1, <2>2, <2>3
       DEF PrintsWhatItWasInContactFor, FromServer, InContact
  <2> QED
    BY <2>6, <2>7
<1> QED
  BY <1>2, <1>3, <1>4, <1>5, <1>6, <1>7, <1>8 DEF Next

-----------------------------------------------------------------------------
(* The theorems.                                                           *)

(* Nothing is on its way at first, and the server has heard nobody.        *)
LEMMA SystemInit ==
  Init => SysInv
<1> SUFFICES ASSUME Init PROVE SysInv
  OBVIOUS
<1>1. /\ now = 0 /\ contacts = {} /\ queue = <<>> /\ current = NoMessage
      /\ choosing = FALSE /\ recipients = {}
      /\ file_content \in File
      /\ timestamp = [c \in Client |-> NoId]
      /\ network = {} /\ printed = NoMessage /\ heard = {}
  BY DEF Init, Relay!Init, Relay!Queue!Init
<1>2. IsFiniteSet(network) /\ Cardinality(network) = 0
  BY <1>1, FS_EmptySet
<1>3. queue \in Seq(Relay!Message) /\ Len(queue) = 0
  BY <1>1, EmptySeq
<1>4. TypeOK
  BY <1>1, <1>2, <1>3, SystemAssumption DEF TypeOK
<1>5. Travelling /\ Taken /\ Recent /\ Chosen
  BY <1>1 DEF Travelling, Taken, Recent, Chosen
<1>6. Attributed
  BY <1>1, <1>3 DEF Attributed
<1>7. PrintsMessagesOfOthers /\ PrintsWhatItWasInContactFor
  BY <1>1 DEF PrintsMessagesOfOthers, PrintsWhatItWasInContactFor
<1> QED
  BY <1>2, <1>4, <1>5, <1>6, <1>7 DEF SysInv

LEMMA SystemInductive ==
  Spec => []SysInv
<1>1. SysInv /\ [Next]_vars => SysInv'
  BY RelayStep, NetworkStep, TypeStep, TravellingStep, PrintsStep
     DEF SysInv, RelayInv
<1> QED
  BY <1>1, SystemInit, PTL DEF Spec

(* The state of the programs and of the network keeps its type: what the   *)
(* server holds as a contact it has heard, whatever others send it, and    *)
(* the timestamps it queues are proper.                                    *)
THEOREM SystemTypeOK ==
  Spec => []TypeOK
<1>1. SysInv => TypeOK
  BY DEF SysInv
<1> QED
  BY <1>1, SystemInductive, PTL

(* What the programs send is valid for who gets it.                        *)
THEOREM SystemNothingInvalidIsSent ==
  Spec => []NothingInvalidIsSent
<1>1. ASSUME SysInv, NEW packet \in network, packet.from \in Client
      PROVE  /\ accepts(packet.datagram, FALSE)
             /\ ~ has_message(from_bytes(packet.datagram))
  <2>1. FromClient(packet)
    BY <1>1, SystemAssumption DEF SysInv, Travelling, FromServer
  <2> QED
    BY <2>1, ClientSendsValid DEF FromClient
<1>2. ASSUME SysInv, NEW packet \in network, packet.from = server
      PROVE  accepts(packet.datagram, TRUE)
  <2>1. FromServer(packet)
    BY <1>2, SystemAssumption DEF SysInv, Travelling, FromClient
  <2>2. file_content \in File
    BY <1>2 DEF SysInv, TypeOK
  <2> QED
    BY <2>1, <2>2, ServerSendsValid DEF FromServer
<1>3. SysInv => NothingInvalidIsSent
  BY <1>1, <1>2 DEF NothingInvalidIsSent
<1> QED
  BY <1>3, SystemInductive, PTL

(* A client that runs has the timestamp whose digits it was started with.  *)
Told ==
  /\ DOMAIN told = Client
  /\ \A c \in Client :
       timestamp[c] # NoId => /\ Proper(told[c])
                              /\ Magnitude(told[c]) = timestamp[c]

LEMMA ToldStep ==
  ASSUME SysInv, Told, [Next]_vars
  PROVE  Told'
<1>1. CASE UNCHANGED <<timestamp, told>>
  BY <1>1 DEF Told
<1>2. ASSUME NEW c \in Client, NEW arguments, Start(c, arguments)
      PROVE  Told'
  <2> DEFINE id == parse_timestamp(arguments[1])
             input == arguments[1]
  <2>1. /\ id # Bad
        /\ timestamp' = [timestamp EXCEPT ![c] = id]
        /\ told' = [told EXCEPT ![c] = input]
    BY <1>2 DEF Start
  <2>2. Proper(input) /\ Magnitude(input) = id
    BY <2>1, ParsedTimestamp
  <2>3. DOMAIN timestamp = Client /\ DOMAIN told = Client
    BY DEF SysInv, TypeOK, Told
  <2> HIDE DEF id, input
  <2>4. /\ DOMAIN told' = Client
        /\ told'[c] = input /\ timestamp'[c] = id
        /\ \A d \in Client \ {c} :
             told'[d] = told[d] /\ timestamp'[d] = timestamp[d]
    BY <2>1, <2>3
  <2>5. ASSUME NEW d \in Client, timestamp'[d] # NoId
        PROVE  Proper(told'[d]) /\ Magnitude(told'[d]) = timestamp'[d]
    BY <2>2, <2>4, <2>5 DEF Told
  <2> QED
    BY <2>4, <2>5 DEF Told
<1>3. \/ UNCHANGED <<timestamp, told>>
      \/ \E c \in Client, arguments \in Arguments : Start(c, arguments)
  BY DEF Next, Lose, ServerReceives, ServerWorks, ServerSends, ServerFails,
         ClientReceives, vars
<1> QED
  BY <1>1, <1>2, <1>3

(* README.md:63-64: every timestamp that a client sends is the number      *)
(* whose digits, without a sign or a zero in front, it was started with.   *)
THEOREM SystemSendsWhatItWasTold ==
  Spec => []SendsWhatItWasTold
<1>1. Init => Told
  BY DEF Init, Told
<1>2. ASSUME SysInv, Told, NEW packet \in network, packet.from \in Client
      PROVE  LET string == told[packet.from]
             IN  /\ string # <<>> /\ ToSet(string) \subseteq Digit
                 /\ Head(string) = 0 => Len(string) = 1
                 /\ Magnitude(string) = packet.datagram.timestamp
  <2> DEFINE c == packet.from
  <2>1. /\ timestamp[c] \in Timestamp
        /\ packet.datagram = [timestamp |-> timestamp[c], data |-> <<>>]
    BY <1>2, SystemAssumption DEF SysInv, Travelling, FromServer, FromClient
  <2>2. timestamp[c] # NoId /\ packet.datagram.timestamp = timestamp[c]
    BY <2>1, SystemAssumption DEF Timestamp
  <2>3. Proper(told[c]) /\ Magnitude(told[c]) = timestamp[c]
    BY <1>2, <2>2 DEF Told
  <2>4. ToSet(told[c]) \subseteq Digit
    BY <2>3, ElementOfSeq, LenProperties DEF Proper, ToSet
  <2> QED
    BY <2>2, <2>3, <2>4 DEF Proper
<1>3. SysInv /\ Told => SendsWhatItWasTold
  BY <1>2 DEF SendsWhatItWasTold
<1> QED
  BY <1>1, <1>3, ToldStep, SystemInductive, PTL DEF Spec

(* What a client prints of the server is the message of another with that  *)
(* one's timestamp and the whole file: it crosses the network, the queue   *)
(* and the network again, which may lose, double and reorder it.           *)
THEOREM SystemPrintsMessagesOfOthers ==
  Spec => []PrintsMessagesOfOthers
<1>1. SysInv => PrintsMessagesOfOthers
  BY DEF SysInv
<1> QED
  BY <1>1, SystemInductive, PTL

(* However late a client gets what the server sent, the server had heard   *)
(* of it at most TIMEOUT seconds before the message was received.          *)
THEOREM SystemPrintsWhatItWasInContactFor ==
  Spec => []PrintsWhatItWasInContactFor
<1>1. SysInv => PrintsWhatItWasInContactFor
  BY DEF SysInv
<1> QED
  BY <1>1, SystemInductive, PTL
=============================================================================

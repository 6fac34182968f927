---------------------------- MODULE ServerProofs ----------------------------
(***************************************************************************)
(* Proofs about Server, for every set of addresses, every buffer_size,     *)
(* every TIMEOUT and every number of messages: the types, POLLOUT, the     *)
(* order of the messages in the buffer and on their way, the use of the    *)
(* register, and that Server implements Relay.                             *)
(*                                                                         *)
(* The results about the register are those of RecipientsProofs, of which  *)
(* Register is the instance for the variables of the server.               *)
(***************************************************************************)
EXTENDS Server, SequenceTheorems, TLAPS

Register == INSTANCE RecipientsProofs

LEMMA RegisterAssumption == Register!ConnectionsAssumption
BY ServerAssumption DEF Register!ConnectionsAssumption

(* The operations of Register are those of Connections. *)
LEMMA SameInit == Connections!Init <=> Register!Init
BY DEF Connections!Init, Register!Init

LEMMA SameTick == Connections!Tick <=> Register!Tick
BY DEF Connections!Tick, Register!Tick, Connections!scan, Register!scan

LEMMA SameAddClient ==
  ASSUME NEW a, NEW t
  PROVE  Connections!add_client(a, t) <=> Register!add_client(a, t)
BY DEF Connections!add_client, Register!add_client,
       Connections!Position, Register!Position,
       Connections!add_connection, Register!add_connection,
       Connections!Extended, Register!Extended,
       Connections!NewInterval, Register!NewInterval,
       Connections!NewClient, Register!NewClient,
       Connections!Last, Register!Last, Connections!scan, Register!scan

LEMMA SameGetClients ==
  ASSUME NEW t, NEW ex
  PROVE  Connections!get_clients(t, ex) <=> Register!get_clients(t, ex)
BY DEF Connections!get_clients, Register!get_clients

LEMMA SameLoopStep == Connections!LoopStep <=> Register!LoopStep
BY DEF Connections!LoopStep, Register!LoopStep,
       Connections!Exclude, Register!Exclude,
       Connections!PopInterval, Register!PopInterval,
       Connections!EraseFront, Register!EraseFront,
       Connections!EraseBack, Register!EraseBack,
       Connections!EraseLast, Register!EraseLast,
       Connections!Erase, Register!Erase,
       Connections!Visit, Register!Visit,
       Connections!InLoop, Register!InLoop,
       Connections!InFirstHalf, Register!InFirstHalf,
       Connections!Intervals, Register!Intervals,
       Connections!Expired, Register!Expired,
       Connections!in_bounds, Register!in_bounds,
       Connections!RemoveAt, Register!RemoveAt,
       Connections!scan, Register!scan

LEMMA SameReturn == Connections!Return <=> Register!Return
BY DEF Connections!Return, Register!Return,
       Connections!AtEnd, Register!AtEnd

LEMMA SameNext == Connections!Next <=> Register!Next
BY SameTick, SameAddClient, SameGetClients, SameLoopStep, SameReturn, Zenon
   DEF Connections!Next, Register!Next

LEMMA SameTypeOK == Connections!TypeOK <=> Register!TypeOK
BY DEF Connections!TypeOK, Register!TypeOK, Connections!Client,
       Register!Client, Connections!Interval, Register!Interval

(* What holds of the register holds as long as the server keeps to its     *)
(* protocol.                                                               *)
LEMMA RegisterStep ==
  ASSUME Register!Right, [Connections!Next]_(Connections!vars)
  PROVE  Register!Right'
<1>1. Register!Next \/ Register!vars' = Register!vars
  BY SameNext DEF Connections!vars, Register!vars
<1>2. QED
  BY <1>1, RegisterAssumption, Register!NextKeepsRight

LEMMA RegisterInit == Connections!Init => Register!Right
<1>1. Register!Init => Register!Right
  BY RegisterAssumption, Register!InitRight
<1>2. QED
  BY <1>1, SameInit

-----------------------------------------------------------------------------

LEMMA MessageFacts ==
  ASSUME NEW m \in Message
  PROVE  /\ m.id \in 1 .. MaxMessages /\ m.id \in Nat
         /\ m.time \in 0 .. MaxTime /\ m.time \in Nat
         /\ m.sender \in Address
         /\ m # NoMessage
BY ServerAssumption, NoMessageAssumption DEF Message

LEMMA QueueFacts ==
  ASSUME NEW q \in Seq(Message)
  PROVE  /\ Len(q) \in Nat
         /\ DOMAIN q = 1 .. Len(q)
         /\ \A i \in 1 .. Len(q) : q[i] \in Message
         /\ q # <<>> => /\ Len(q) # 0 /\ Head(q) = q[1]
                        /\ Tail(q) \in Seq(Message)
                        /\ Len(Tail(q)) = Len(q) - 1
                        /\ \A i \in 1 .. Len(q) - 1 : Tail(q)[i] = q[i + 1]
<1>1. Len(q) \in Nat /\ DOMAIN q = 1 .. Len(q)
      /\ \A i \in 1 .. Len(q) : q[i] \in Message
  BY LenProperties, ElementOfSeq
<1>2. ASSUME q # <<>>
      PROVE  /\ Len(q) # 0 /\ Head(q) = q[1]
             /\ Tail(q) \in Seq(Message)
             /\ Len(Tail(q)) = Len(q) - 1
             /\ \A i \in 1 .. Len(q) - 1 : Tail(q)[i] = q[i + 1]
  BY <1>2, EmptySeq, HeadTailProperties
<1>3. QED
  BY <1>1, <1>2

(* A message is queued: it is the last one, and at most the first is lost. *)
LEMMA Enqueued ==
  ASSUME NEW q \in Seq(Message), Len(q) <= buffer_size, NEW m \in Message
  PROVE  LET r == Buffer!Enqueue(q, m)
             n == Len(r)
         IN  /\ r \in Seq(Message)
             /\ n \in Nat \ {0} /\ n <= buffer_size
             /\ n - 1 <= Len(q) /\ Len(q) <= n
             /\ r[n] = m
             /\ \A i \in 1 .. n - 1 : r[i] = q[i + (Len(q) - (n - 1))]
<1> USE ServerAssumption
<1> DEFINE r == Buffer!Enqueue(q, m)
           l == Len(q)
<1>1. /\ l \in Nat /\ \A i \in 1 .. l : q[i] \in Message
      /\ q # <<>> => /\ Tail(q) \in Seq(Message)
                     /\ Len(Tail(q)) = l - 1
                     /\ \A i \in 1 .. l - 1 : Tail(q)[i] = q[i + 1]
      /\ l # 0 => q # <<>>
  BY QueueFacts, EmptySeq
<1>0. l = Len(q)
  OBVIOUS
<1> HIDE DEF l
<1>2. CASE l < buffer_size
  <2>1. r = Append(q, m)
    BY <1>2, <1>0 DEF Buffer!Enqueue
  <2>2. /\ r \in Seq(Message) /\ Len(r) = l + 1 /\ r[l + 1] = m
        /\ \A i \in 1 .. l : r[i] = q[i]
    BY <1>0, <2>1, AppendProperties
  <2> HIDE DEF r
  <2>3. l - (Len(r) - 1) = 0 /\ Len(r) - 1 = l /\ Len(r) \in Nat \ {0}
    BY <1>1, <2>2
  <2>4. \A i \in 1 .. l : r[i] = q[i + 0]
    BY <1>1, <2>2
  <2>5. QED
    BY <1>0, <1>1, <1>2, <2>2, <2>3, <2>4 DEF r
<1>3. CASE ~ (l < buffer_size)
  <2>1. r = Append(Tail(q), m) /\ l = buffer_size
    BY <1>0, <1>1, <1>3 DEF Buffer!Enqueue
  <2> DEFINE u == Tail(q)
  <2>2. u \in Seq(Message) /\ Len(u) = l - 1
        /\ \A i \in 1 .. l - 1 : u[i] = q[i + 1]
    BY <1>1, <2>1
  <2>3. r = Append(u, m)
    BY <2>1
  <2> HIDE DEF u
  <2>4. /\ r \in Seq(Message) /\ Len(r) = (l - 1) + 1 /\ r[(l - 1) + 1] = m
        /\ \A i \in 1 .. l - 1 : r[i] = u[i]
    BY <2>2, <2>3, AppendProperties
  <2> HIDE DEF r
  <2>5. /\ l - (Len(r) - 1) = 1 /\ Len(r) = l /\ Len(r) \in Nat \ {0}
        /\ r[l] = m
    BY <1>1, <2>1, <2>4
  <2>6. \A i \in 1 .. l - 1 : r[i] = q[i + 1]
    BY <2>2, <2>4
  <2>7. QED
    BY <1>0, <1>1, <2>1, <2>4, <2>5, <2>6 DEF r
<1>4. QED
  BY <1>2, <1>3

-----------------------------------------------------------------------------

(* What is known of the current message, before there is one and while its *)
(* recipients are chosen.                                                  *)
Sending ==
  /\ current_item = NoMessage =>
       timestamp = 0 /\ \A a \in Address : lastSent[a] = 0
  /\ pc = "prepare" =>
       /\ current_item # NoMessage
       /\ exclude = current_item.sender
       /\ current_clients = <<>>
       /\ \A a \in Address : lastSent[a] < current_item.id

(* The types of the server's own variables. *)
OwnTypes ==
  /\ pc \in {"wait", "receive", "send", "prepare"}
  /\ events \in {{"in"}, {"in", "out"}}
  /\ revents \subseteq {"in", "out"}
  /\ buffer \in Seq(Message)
  /\ Len(buffer) <= buffer_size
  /\ current_item \in Message \cup {NoMessage}
  /\ current_clients \in Seq(Address)
  /\ current_clients # <<>> => current_item # NoMessage
  /\ received \in 0 .. MaxMessages
  /\ lastSent \in [Address -> 0 .. received]
  /\ phase = "idle" <=> pc # "prepare"

(* The inductive invariant.  The register keeps its own because the server *)
(* keeps to its protocol; that it does follows from the times in the       *)
(* buffer; that no client gets a message twice from what the register      *)
(* returns.                                                                *)
SInv ==
  /\ Register!Right
  /\ OwnTypes
  /\ WorkKeepsPollout
  /\ BufferHoldsNewest
  /\ SendsInOrder
  /\ Sending

LEMMA RegisterFacts ==
  ASSUME Register!Right
  PROVE  /\ Connections!TypeOK
         /\ now \in Nat /\ now \in 0 .. MaxTime
         /\ timestamp \in Nat /\ timestamp <= now
         /\ the_clients \in Seq(Address)
<1>1. Register!TypeOK
  BY DEF Register!Right, Register!WellFormed
<1>2. Connections!TypeOK
  BY <1>1, SameTypeOK
<1>3. QED
  BY <1>2, ServerAssumption DEF Connections!TypeOK

LEMMA InvGivesTypeOK == SInv => TypeOK
BY RegisterFacts DEF SInv, OwnTypes, TypeOK

(* The steps of the server are steps of the register. *)
UsesRegister == [Connections!Next]_(Connections!vars)

LEMMA ReceiveUsesRegister ==
  ASSUME SInv, Receive
  PROVE  /\ UsesRegister
         /\ \E a \in Address, t \in now .. MaxTime : Connections!add_client(a, t)
<1>1. \E a \in Address, t \in now .. MaxTime : Connections!add_client(a, t)
  BY Zenon DEF Receive, ReceiveMessage, ReceiveNothing
<1>2. QED
  BY <1>1, Zenon DEF UsesRegister, Connections!Next

(* A message is taken from the buffer: it is not older than the one before *)
(* and not from the future.                                                *)
LEMMA PrepareTakes ==
  ASSUME SInv, Prepare
  PROVE  /\ buffer # <<>> /\ buffer \in Seq(Message)
         /\ current_item' = buffer[1] /\ current_item' \in Message
         /\ buffer' = Tail(buffer)
         /\ current_item'.time \in timestamp .. now
         /\ current_item'.sender \in Address
         /\ Connections!get_clients(current_item'.time, current_item'.sender)
<1>1. /\ buffer # <<>> /\ current_item' = Head(buffer) /\ buffer' = Tail(buffer)
      /\ Connections!get_clients(current_item'.time, current_item'.sender)
  BY DEF Prepare, Buffer!Pop
<1>2. buffer \in Seq(Message) /\ current_item \in Message \cup {NoMessage}
  BY DEF SInv, OwnTypes
<1>3. /\ 1 \in DOMAIN buffer /\ Head(buffer) = buffer[1]
      /\ buffer[1] \in Message
  BY <1>1, <1>2, QueueFacts
<1>4. buffer[1].time \in Nat /\ buffer[1].sender \in Address
  BY <1>3, MessageFacts
<1>5. now \in Nat /\ timestamp \in Nat
  BY RegisterFacts DEF SInv
<1>6. buffer[1].time <= now
  BY <1>3 DEF SInv, BufferHoldsNewest
<1>7. timestamp <= buffer[1].time
  <2>1. CASE current_item = NoMessage
    BY <1>4, <2>1 DEF SInv, Sending
  <2>2. CASE current_item # NoMessage
    BY <1>3, <2>2 DEF SInv, BufferHoldsNewest
  <2>3. QED
    BY <2>1, <2>2
<1>8. QED
  BY <1>1, <1>2, <1>3, <1>4, <1>5, <1>6, <1>7

LEMMA StepUsesRegister == ASSUME SInv, [Next]_vars PROVE UsesRegister
<1>1. CASE Tick
  BY <1>1 DEF Tick, UsesRegister, Connections!Next
<1>2. CASE Receive
  BY <1>2, ReceiveUsesRegister
<1>3. CASE Prepare
  <2>1. /\ current_item'.time \in timestamp .. now
        /\ current_item'.sender \in Address \cup {NoOne}
        /\ Connections!get_clients(current_item'.time, current_item'.sender)
    BY <1>3, PrepareTakes
  <2>2. QED
    BY <2>1, Zenon DEF UsesRegister, Connections!Next
<1>4. CASE ScanClients
  BY <1>4 DEF ScanClients, UsesRegister, Connections!Next
<1>5. CASE GotClients
  BY <1>5 DEF GotClients, UsesRegister, Connections!Next
<1>6. ASSUME UNCHANGED register PROVE UsesRegister
  BY <1>6 DEF register, UsesRegister, Connections!vars
<1>7. CASE \E r \in SUBSET events : Wait(r)
  BY <1>6, <1>7 DEF Wait
<1>8. CASE SendNothing \/ SendTo \/ SendFails \/ SendWouldBlock
  BY <1>6, <1>8 DEF SendNothing, SendTo, SendFails, SendWouldBlock, Send
<1>9. CASE UNCHANGED vars
  BY <1>6, <1>9 DEF vars
<1>10. QED
  BY <1>1, <1>2, <1>3, <1>4, <1>5, <1>7, <1>8, <1>9 DEF Next, Step

LEMMA RegisterPart == ASSUME SInv, [Next]_vars PROVE Register!Right'
BY StepUsesRegister, RegisterStep DEF SInv, UsesRegister

-----------------------------------------------------------------------------

NoneTwice(q) == \A i, j \in DOMAIN q : q[i] = q[j] => i = j

(* The first client is served, or put back at the end. *)
LEMMA ClientsLeft ==
  ASSUME NEW q \in Seq(Address), q # <<>>
  PROVE  /\ Head(q) \in Address
         /\ Head(q) \in ToSet(q)
         /\ Tail(q) \in Seq(Address)
         /\ Append(Tail(q), Head(q)) \in Seq(Address)
         /\ ToSet(Append(Tail(q), Head(q))) = ToSet(q)
         /\ NoneTwice(q) =>
              /\ ToSet(Tail(q)) = ToSet(q) \ {Head(q)}
              /\ NoneTwice(Tail(q))
              /\ NoneTwice(Append(Tail(q), Head(q)))
<1> DEFINE n == Len(q)
           h == Head(q)
           r == Tail(q)
           s == Append(r, h)
<1>1. /\ n \in Nat \ {0} /\ DOMAIN q = 1 .. n
      /\ \A i \in 1 .. n : q[i] \in Address
      /\ h = q[1]
      /\ r \in Seq(Address) /\ Len(r) = n - 1
      /\ \A i \in 1 .. n - 1 : r[i] = q[i + 1]
  <2>1. n \in Nat /\ n # 0 /\ DOMAIN q = 1 .. n
        /\ \A i \in 1 .. n : q[i] \in Address
    BY LenProperties, ElementOfSeq, EmptySeq
  <2>2. h = q[1] /\ r \in Seq(Address) /\ Len(r) = n - 1
        /\ \A i \in 1 .. n - 1 : r[i] = q[i + 1]
    BY HeadTailProperties
  <2>3. QED
    BY <2>1, <2>2
<1>2. h \in Address /\ DOMAIN r = 1 .. n - 1 /\ 1 \in 1 .. n
  BY <1>1, LenProperties
<1>3. /\ s \in Seq(Address) /\ DOMAIN s = 1 .. n
      /\ \A i \in 1 .. n - 1 : s[i] = r[i]
      /\ s[n] = h
  <2> HIDE DEF r, h, n
  <2>1. /\ s \in Seq(Address) /\ Len(s) = (n - 1) + 1
        /\ \A i \in 1 .. n - 1 : s[i] = r[i]
        /\ s[(n - 1) + 1] = h
    BY <1>1, <1>2, AppendProperties
  <2>2. (n - 1) + 1 = n
    BY <1>1
  <2>3. QED
    BY <2>1, <2>2, LenProperties
<1> HIDE DEF n, h, r, s
<1>4. /\ \A i \in 1 .. n - 1 : i + 1 \in 1 .. n /\ i + 1 # 1 /\ i \in 1 .. n
      /\ \A i \in 1 .. n : i # 1 => i - 1 \in 1 .. n - 1 /\ (i - 1) + 1 = i
      /\ \A i \in 1 .. n : i # n => i \in 1 .. n - 1
      /\ \A i, j \in 1 .. n - 1 : i + 1 = j + 1 => i = j
      /\ n \in 1 .. n
  BY <1>1
<1>5. \A x : x \in ToSet(q) <=> \E i \in 1 .. n : x = q[i]
  BY <1>1 DEF ToSet
<1>6. \A x : x \in ToSet(r) <=> \E i \in 1 .. n - 1 : x = r[i]
  BY <1>2 DEF ToSet
<1>7. \A x : x \in ToSet(s) <=> \E i \in 1 .. n : x = s[i]
  BY <1>3 DEF ToSet
<1>8. \A x : x \in ToSet(q) <=> x \in ToSet(r) \/ x = h
  <2>1. ASSUME NEW x, x \in ToSet(q) PROVE x \in ToSet(r) \/ x = h
    <3>1. PICK i \in 1 .. n : x = q[i]
      BY <1>5, <2>1
    <3>2. CASE i = 1
      BY <1>1, <3>1, <3>2
    <3>3. CASE i # 1
      <4>1. r[i - 1] = q[i] /\ i - 1 \in 1 .. n - 1
        BY <1>1, <1>4, <3>3
      <4>2. QED
        BY <1>6, <3>1, <4>1
    <3>4. QED
      BY <3>2, <3>3
  <2>2. ASSUME NEW x, x \in ToSet(r) PROVE x \in ToSet(q)
    BY <1>1, <1>4, <1>5, <1>6, <2>2
  <2>3. h \in ToSet(q)
    BY <1>1, <1>2, <1>5
  <2>4. QED
    BY <2>1, <2>2, <2>3
<1>9. \A x : x \in ToSet(s) <=> x \in ToSet(r) \/ x = h
  BY <1>3, <1>4, <1>6, <1>7
<1>10. ToSet(s) = ToSet(q)
  BY <1>8, <1>9
<1>11. ASSUME NoneTwice(q)
       PROVE  /\ h \notin ToSet(r)
              /\ NoneTwice(r)
              /\ NoneTwice(s)
  <2>1. \A i, j \in 1 .. n : q[i] = q[j] => i = j
    BY <1>1, <1>11, Zenon DEF NoneTwice
  <2>2. \A i \in 1 .. n - 1 : r[i] # h
    BY <1>1, <1>2, <1>4, <2>1
  <2>3. \A i, j \in 1 .. n - 1 : r[i] = r[j] => i = j
    <3> TAKE i, j \in 1 .. n - 1
    <3> HAVE r[i] = r[j]
    <3>1. q[i + 1] = q[j + 1]
      BY <1>1
    <3>2. i + 1 = j + 1
      BY <1>4, <2>1, <3>1
    <3>3. QED
      BY <1>4, <3>2
  <2>4. \A i, j \in 1 .. n : s[i] = s[j] => i = j
    BY <1>3, <1>4, <2>2, <2>3
  <2>5. QED
    BY <1>2, <1>3, <1>6, <2>2, <2>3, <2>4, Zenon DEF NoneTwice
<1>12. h \in ToSet(q)
  BY <1>8
<1>13. NoneTwice(q) => ToSet(r) = ToSet(q) \ {h}
  BY <1>8, <1>11
<1>14. QED
  BY <1>1, <1>2, <1>3, <1>10, <1>11, <1>12, <1>13 DEF h, r, s

(* What the operations of the register leave alone. *)
LEMMA RegisterEffects ==
  /\ \A a, t : Connections!add_client(a, t) =>
       /\ phase = "idle" /\ phase' = "idle" /\ now' = t
       /\ timestamp' = timestamp /\ exclude' = exclude
       /\ contacts' = contacts \cup {<<a, t>>}
  /\ \A t, ex : Connections!get_clients(t, ex) =>
       /\ phase' = "loop" /\ timestamp' = t /\ exclude' = ex /\ now' = now
       /\ contacts' = {c \in contacts : c[2] + TIMEOUT >= t}
  /\ Connections!LoopStep =>
       /\ phase' # "idle"
       /\ UNCHANGED <<now, timestamp, exclude, contacts>>
  /\ Connections!Return =>
       /\ phase = "loop" /\ phase' = "idle"
       /\ UNCHANGED <<now, timestamp, contacts>>
  /\ Connections!Tick =>
       /\ UNCHANGED <<phase, timestamp, exclude, contacts>>
       /\ now < MaxTime /\ now' = now + 1
<1>1. ASSUME NEW a, NEW t, Connections!add_client(a, t)
      PROVE  /\ phase = "idle" /\ phase' = "idle" /\ now' = t
             /\ timestamp' = timestamp /\ exclude' = exclude
             /\ contacts' = contacts \cup {<<a, t>>}
  BY <1>1 DEF Connections!add_client, Connections!scan
<1>2. ASSUME NEW t, NEW ex, Connections!get_clients(t, ex)
      PROVE  /\ phase' = "loop" /\ timestamp' = t /\ exclude' = ex
             /\ now' = now
             /\ contacts' = {c \in contacts : c[2] + TIMEOUT >= t}
  BY <1>2 DEF Connections!get_clients
<1>3. ASSUME Connections!LoopStep
      PROVE  /\ phase' # "idle"
             /\ UNCHANGED <<now, timestamp, exclude, contacts>>
  BY <1>3 DEF Connections!LoopStep, Connections!Exclude,
       Connections!PopInterval, Connections!EraseFront,
       Connections!EraseBack, Connections!EraseLast, Connections!Erase,
       Connections!Visit, Connections!InLoop, Connections!scan
<1>4. ASSUME Connections!Return
      PROVE  /\ phase = "loop" /\ phase' = "idle"
             /\ UNCHANGED <<now, timestamp, contacts>>
  BY <1>4 DEF Connections!Return, Connections!AtEnd
<1>5. ASSUME Connections!Tick
      PROVE  /\ UNCHANGED <<phase, timestamp, exclude, contacts>>
             /\ now < MaxTime /\ now' = now + 1
  BY <1>5 DEF Connections!Tick, Connections!scan
<1>6. QED
  BY <1>1, <1>2, <1>3, <1>4, <1>5

-----------------------------------------------------------------------------

(* The part of the invariant that is not the register's. *)
OwnInv ==
  OwnTypes /\ WorkKeepsPollout /\ BufferHoldsNewest /\ SendsInOrder /\ Sending

LEMMA InvFacts ==
  ASSUME SInv
  PROVE  /\ OwnInv
         /\ now \in Nat /\ now \in 0 .. MaxTime
         /\ timestamp \in Nat /\ timestamp <= now
         /\ buffer \in Seq(Message)
         /\ Len(buffer) \in Nat /\ DOMAIN buffer = 1 .. Len(buffer)
         /\ \A i \in DOMAIN buffer :
              buffer[i] \in Message /\ buffer[i].time \in Nat
         /\ received \in Nat
         /\ current_item # NoMessage =>
              /\ current_item \in Message
              /\ current_item.id \in Nat /\ current_item.time \in Nat
<1>1. OwnInv /\ buffer \in Seq(Message) /\ received \in 0 .. MaxMessages
      /\ current_item \in Message \cup {NoMessage}
  BY DEF SInv, OwnInv, OwnTypes
<1>2. /\ Len(buffer) \in Nat /\ DOMAIN buffer = 1 .. Len(buffer)
      /\ \A i \in DOMAIN buffer : buffer[i] \in Message
  BY <1>1, QueueFacts
<1>3. /\ now \in Nat /\ now \in 0 .. MaxTime
      /\ timestamp \in Nat /\ timestamp <= now
  BY RegisterFacts DEF SInv
<1>4. received \in Nat
  BY <1>1, ServerAssumption
<1>5. QED
  BY <1>1, <1>2, <1>3, <1>4, MessageFacts

(* What a step that leaves the messages alone keeps. *)
LEMMA SameMessages ==
  ASSUME SInv, UNCHANGED <<buffer, current_item, received, timestamp>>,
         now' \in Nat, now <= now'
  PROVE  BufferHoldsNewest'
<1>1. \A i \in DOMAIN buffer : buffer[i].time <= now'
  BY InvFacts DEF OwnInv, BufferHoldsNewest
<1>2. BufferHoldsNewest
  BY InvFacts DEF OwnInv
<1>3. QED
  BY <1>1, <1>2 DEF BufferHoldsNewest

(* What a step that leaves the recipients alone keeps. *)
LEMMA SameClients ==
  ASSUME SInv, UNCHANGED <<current_item, current_clients, lastSent, timestamp>>,
         pc' = "prepare" => pc = "prepare" /\ exclude' = exclude
  PROVE  SendsInOrder' /\ Sending'
BY DEF SInv, SendsInOrder, Sending

LEMMA TickKeepsInv == ASSUME SInv, Tick PROVE OwnInv'
<1>1. /\ UNCHANGED <<pc, events, revents, buffer, current_item,
                     current_clients, received, lastSent>>
      /\ UNCHANGED <<phase, timestamp, exclude>>
      /\ now' = now + 1 /\ pc = "wait"
  BY RegisterEffects DEF Tick
<1>2. OwnTypes' /\ WorkKeepsPollout'
  BY <1>1, InvFacts DEF OwnInv, OwnTypes, WorkKeepsPollout
<1>3. now' \in Nat /\ now <= now'
  BY <1>1, InvFacts
<1>4. QED
  BY <1>1, <1>2, <1>3, SameMessages, SameClients DEF OwnInv

(* A step that changes neither messages, recipients nor the register. *)
LEMMA OtherKeepsInv ==
  ASSUME SInv,
         UNCHANGED <<buffer, current_item, current_clients, received, lastSent,
                     register>>,
         pc' \in {"wait", "receive", "send"}, pc # "prepare",
         revents' \subseteq {"in", "out"},
         events' = events \/ (events' = {"in"} /\ buffer = <<>>
                                /\ current_clients = <<>>)
  PROVE  OwnInv'
<1>1. UNCHANGED <<now, phase, timestamp, exclude>>
  BY DEF register
<1>2. OwnTypes'
  BY <1>1, InvFacts DEF OwnInv, OwnTypes
<1>3. WorkKeepsPollout'
  BY InvFacts DEF OwnInv, WorkKeepsPollout
<1>4. QED
  BY <1>1, <1>2, <1>3, InvFacts, SameMessages, SameClients DEF OwnInv

LEMMA WaitKeepsInv ==
  ASSUME SInv, NEW r \in SUBSET events, Wait(r) PROVE OwnInv'
<1>1. events \subseteq {"in", "out"}
  BY DEF SInv, OwnTypes
<1>2. /\ pc' \in {"wait", "receive", "send"} /\ pc # "prepare"
      /\ revents' \subseteq {"in", "out"} /\ events' = events
      /\ UNCHANGED <<buffer, current_item, current_clients, received, lastSent,
                     register>>
  BY <1>1 DEF Wait
<1>3. QED
  BY <1>2, OtherKeepsInv

LEMMA SendNothingKeepsInv == ASSUME SInv, SendNothing PROVE OwnInv'
<1>1. revents \subseteq {"in", "out"}
  BY DEF SInv, OwnTypes
<1>2. /\ pc' \in {"wait", "receive", "send"} /\ pc # "prepare"
      /\ revents' \subseteq {"in", "out"}
      /\ events' = {"in"} /\ buffer = <<>> /\ current_clients = <<>>
      /\ UNCHANGED <<buffer, current_item, current_clients, received, lastSent,
                     register>>
  BY <1>1 DEF SendNothing
<1>3. QED
  BY <1>2, OtherKeepsInv

LEMMA ReceiveNothingKeepsInv ==
  ASSUME SInv, NEW a \in Address, NEW t \in now .. MaxTime, ReceiveNothing(a, t)
  PROVE  OwnInv'
<1>1. /\ UNCHANGED <<events, buffer, current_item, current_clients, received,
                     lastSent>>
      /\ phase' = "idle" /\ timestamp' = timestamp /\ now' = t
      /\ pc' \in {"wait", "send"} /\ revents' = {} /\ pc = "receive"
  BY RegisterEffects DEF ReceiveNothing, AfterReceive
<1>2. OwnTypes' /\ WorkKeepsPollout'
  BY <1>1, InvFacts DEF OwnInv, OwnTypes, WorkKeepsPollout
<1>3. now' \in Nat /\ now <= now'
  BY <1>1, InvFacts, ServerAssumption
<1>4. QED
  BY <1>1, <1>2, <1>3, SameMessages, SameClients DEF OwnInv

(* A valid message is queued behind the others. *)
LEMMA ReceiveMessageKeepsInv ==
  ASSUME SInv, NEW a \in Address, NEW t \in now .. MaxTime, ReceiveMessage(a, t)
  PROVE  OwnInv'
<1> USE ServerAssumption
<1> DEFINE m == [id |-> received + 1, time |-> now, sender |-> a]
           n == Len(buffer')
           l == Len(buffer)
<1>1. /\ received < MaxMessages /\ received' = received + 1
      /\ buffer' = Buffer!Enqueue(buffer, m)
      /\ UNCHANGED <<current_item, current_clients, lastSent>>
      /\ events' = {"in", "out"}
      /\ phase' = "idle" /\ timestamp' = timestamp /\ now' = t
      /\ pc' \in {"wait", "send"} /\ revents' = {} /\ pc = "receive"
  BY RegisterEffects
     DEF ReceiveMessage, AfterReceive, Buffer!Push, POLLIN_POLLOUT
<1>2. /\ OwnInv /\ OwnTypes /\ BufferHoldsNewest
      /\ now \in Nat /\ now \in 0 .. MaxTime /\ t \in Nat /\ now <= t
      /\ received \in Nat /\ buffer \in Seq(Message) /\ l <= buffer_size
      /\ l \in Nat /\ DOMAIN buffer = 1 .. l
      /\ \A i \in 1 .. l : buffer[i] \in Message /\ buffer[i].time \in Nat
  BY InvFacts DEF OwnInv, OwnTypes
<1>3. m \in Message /\ m.id = received + 1 /\ m.time = now
  BY <1>1, <1>2 DEF Message
<1> HIDE DEF m
<1>4. /\ buffer' \in Seq(Message)
      /\ n \in Nat \ {0} /\ n <= buffer_size
      /\ n - 1 <= l /\ l <= n
      /\ buffer'[n] = m
      /\ \A i \in 1 .. n - 1 : buffer'[i] = buffer[i + (l - (n - 1))]
  <2> DEFINE r == Buffer!Enqueue(buffer, m)
  <2>1. /\ r \in Seq(Message)
        /\ Len(r) \in Nat \ {0} /\ Len(r) <= buffer_size
        /\ Len(r) - 1 <= Len(buffer) /\ Len(buffer) <= Len(r)
        /\ r[Len(r)] = m
        /\ \A i \in 1 .. Len(r) - 1 :
             r[i] = buffer[i + (Len(buffer) - (Len(r) - 1))]
    BY <1>2, <1>3, Enqueued
  <2>2. buffer' = r
    BY <1>1
  <2> HIDE DEF r
  <2>3. QED
    BY <2>1, <2>2
<1>5. DOMAIN buffer' = 1 .. n
  BY <1>4, LenProperties
<1>6. OwnTypes'
  <2>1. lastSent \in [Address -> 0 .. received + 1]
    <3>1. \A i \in 0 .. received : i \in 0 .. received + 1
      BY <1>2
    <3>2. QED
      BY <1>2, <3>1 DEF OwnTypes
  <2>2. received + 1 \in 0 .. MaxMessages
    BY <1>1, <1>2
  <2>3. QED
    BY <1>1, <1>2, <1>4, <2>1, <2>2 DEF OwnTypes
<1>7. WorkKeepsPollout'
  BY <1>1 DEF WorkKeepsPollout
<1> HIDE DEF n, l
<1>8. BufferHoldsNewest'
  <2> DEFINE d == l - (n - 1)
  <2>1. /\ \A i \in 1 .. l : buffer[i].id = received - l + i
                             /\ buffer[i].time <= now
        /\ \A i, j \in 1 .. l : i <= j => buffer[i].time <= buffer[j].time
        /\ current_item # NoMessage =>
             /\ \A i \in 1 .. l : current_item.time <= buffer[i].time
             /\ current_item.id <= received - l
             /\ timestamp = current_item.time
    <3>1. \A i \in 1 .. l : \A j \in 1 .. l : i <= j => j \in i .. l
      BY <1>2
    <3>2. QED
      BY <1>2, <3>1 DEF BufferHoldsNewest, l
  <2>2. d \in Nat /\ \A i \in 1 .. n - 1 : i + d \in 1 .. l
                                          /\ buffer'[i] = buffer[i + d]
    BY <1>2, <1>4
  <2>3. \A i \in 1 .. n - 1 :
          /\ buffer'[i].id = (received + 1) - n + i
          /\ buffer'[i].time <= t
          /\ current_item # NoMessage => current_item.time <= buffer'[i].time
    <3> TAKE i \in 1 .. n - 1
    <3> DEFINE x == buffer[i + d]
    <3>1. i + d \in 1 .. l /\ buffer'[i] = x
      BY <2>2
    <3>2. /\ x.id = received - l + (i + d) /\ x.time <= now /\ x.time \in Nat
          /\ current_item # NoMessage => current_item.time <= x.time
      BY <1>2, <2>1, <3>1
    <3> HIDE DEF x
    <3>3. received - l + (i + d) = (received + 1) - n + i
      BY <1>2, <1>4
    <3>4. x.time <= t
      BY <1>2, <3>2
    <3>5. QED
      BY <3>1, <3>2, <3>3, <3>4
  <2>4. \A i, j \in 1 .. n - 1 : i <= j => buffer'[i].time <= buffer'[j].time
    <3> TAKE i, j \in 1 .. n - 1
    <3> HAVE i <= j
    <3>1. /\ i + d <= j + d /\ i + d \in 1 .. l /\ j + d \in 1 .. l
          /\ buffer'[i] = buffer[i + d] /\ buffer'[j] = buffer[j + d]
      BY <2>2
    <3> HIDE DEF d
    <3>2. buffer[i + d].time <= buffer[j + d].time
      BY <2>1, <3>1
    <3>3. QED
      BY <3>1, <3>2
  <2>5. \A i \in 1 .. n - 1 : buffer'[i].time <= now
    BY <2>1, <2>2
  <2>6. /\ buffer'[n].id = (received + 1) - n + n /\ buffer'[n].time = now
        /\ now <= t
    BY <1>2, <1>3, <1>4
  <2>7. current_item # NoMessage =>
          current_item.time <= now /\ current_item.id <= (received + 1) - n
    <3>1. ASSUME current_item # NoMessage
          PROVE  current_item.time <= now
      BY <2>1, <3>1, InvFacts
    <3>2. ASSUME current_item # NoMessage
          PROVE  current_item.id <= (received + 1) - n
      <4> DEFINE id == current_item.id
      <4>1. id \in Nat /\ id <= received - l
        BY <2>1, <3>2, InvFacts
      <4> HIDE DEF id
      <4>2. id <= (received + 1) - n
        BY <1>2, <1>4, <4>1
      <4>3. QED
        BY <4>2 DEF id
    <3>3. QED
      BY <3>1, <3>2
  <2> HIDE DEF d
  <2>8. \A i \in 1 .. n : i \in 1 .. n - 1 \/ i = n
    BY <1>4
  <2>9. \A i \in 1 .. n : /\ buffer'[i].id = (received + 1) - n + i
                          /\ buffer'[i].time <= t
                          /\ current_item # NoMessage =>
                               current_item.time <= buffer'[i].time
    BY <2>3, <2>6, <2>7, <2>8
  <2>10. \A i \in 1 .. n : \A j \in i .. n : buffer'[i].time <= buffer'[j].time
    <3> TAKE i \in 1 .. n
    <3> TAKE j \in i .. n
    <3>1. i <= j /\ j \in 1 .. n
      BY <1>4
    <3>2. CASE j = n
      <4>1. CASE i = n
        BY <1>2, <2>6, <3>2, <4>1
      <4>2. CASE i \in 1 .. n - 1
        BY <2>5, <2>6, <3>2, <4>2
      <4>3. QED
        BY <2>8, <4>1, <4>2
    <3>3. CASE j # n
      <4>1. i \in 1 .. n - 1 /\ j \in 1 .. n - 1
        BY <1>4, <3>1, <3>3
      <4>2. QED
        BY <2>4, <3>1, <4>1
    <3>4. QED
      BY <3>2, <3>3
  <2>11. QED
    <3>1. \A i \in DOMAIN buffer' :
            /\ buffer'[i].id = received' - Len(buffer') + i
            /\ buffer'[i].time <= now'
            /\ current_item' # NoMessage =>
                 current_item'.time <= buffer'[i].time
            /\ \A j \in i .. Len(buffer') : buffer'[i].time <= buffer'[j].time
      BY <1>1, <1>5, <2>9, <2>10 DEF n
    <3>2. current_item' # NoMessage =>
            /\ current_item'.id <= received' - Len(buffer')
            /\ timestamp' = current_item'.time
      BY <1>1, <2>1, <2>7 DEF n
    <3>3. QED
      BY <3>1, <3>2 DEF BufferHoldsNewest
<1>9. QED
  BY <1>1, <1>6, <1>7, <1>8, SameClients DEF OwnInv

(* The oldest message becomes the current one.  It is newer than all that  *)
(* was sent.                                                               *)
LEMMA PrepareKeepsInv == ASSUME SInv, Prepare PROVE OwnInv'
<1> DEFINE l == Len(buffer)
           m == buffer[1]
<1>1. /\ buffer # <<>> /\ buffer' = Tail(buffer) /\ current_item' = m
      /\ phase' = "loop" /\ timestamp' = m.time /\ exclude' = m.sender
      /\ now' = now
  BY PrepareTakes, RegisterEffects
<1>2. /\ pc' = "prepare" /\ current_clients = <<>>
      /\ UNCHANGED <<events, revents, current_clients, received, lastSent>>
  BY DEF Prepare
<1>3. /\ OwnTypes /\ BufferHoldsNewest /\ SendsInOrder /\ Sending
      /\ WorkKeepsPollout
      /\ l \in Nat \ {0} /\ DOMAIN buffer = 1 .. l /\ l <= buffer_size
      /\ received \in Nat /\ now \in Nat
  BY <1>1, QueueFacts, InvFacts DEF OwnInv, OwnTypes
<1>4. /\ buffer' \in Seq(Message) /\ Len(buffer') = l - 1
      /\ \A i \in 1 .. l - 1 : buffer'[i] = buffer[i + 1]
  BY <1>1, QueueFacts, InvFacts
<1>5. DOMAIN buffer' = 1 .. l - 1
  BY <1>4, LenProperties
<1>6. m \in Message /\ m # NoMessage /\ m.id \in Nat \ {0} /\ m.time \in Nat
      /\ 1 \in 1 .. l
  BY <1>3, InvFacts, MessageFacts
<1>7. /\ \A i \in 1 .. l : /\ buffer[i].id = received - l + i
                           /\ buffer[i].time <= now
      /\ \A i, j \in 1 .. l : i <= j => buffer[i].time <= buffer[j].time
      /\ current_item # NoMessage => current_item.id <= received - l
  <2>1. \A i \in 1 .. l : \A j \in 1 .. l : i <= j => j \in i .. l
    BY <1>3
  <2>2. QED
    BY <1>3, <2>1 DEF BufferHoldsNewest, l
<1> HIDE DEF l, m
<1>8. OwnTypes'
  <2>1. Len(buffer') <= buffer_size
    BY <1>3, <1>4, ServerAssumption
  <2>2. QED
    BY <1>1, <1>2, <1>3, <1>4, <1>6, <2>1 DEF OwnTypes
<1>9. WorkKeepsPollout'
  BY <1>1, <1>2, <1>3 DEF WorkKeepsPollout
<1>10. BufferHoldsNewest'
  <2>1. \A i \in 1 .. l - 1 : i + 1 \in 1 .. l /\ 1 <= i + 1
                             /\ buffer'[i] = buffer[i + 1]
    BY <1>3, <1>4
  <2>2. \A i \in 1 .. l - 1 :
          /\ buffer'[i].id = received - (l - 1) + i
          /\ buffer'[i].time <= now
    <3> TAKE i \in 1 .. l - 1
    <3>1. buffer[i + 1].id = received - l + (i + 1)
      BY <1>7, <2>1
    <3>2. received - l + (i + 1) = received - (l - 1) + i
      BY <1>3
    <3>3. QED
      BY <1>7, <2>1, <3>1, <3>2
  <2>3. \A i \in 1 .. l - 1 : m.time <= buffer'[i].time
    BY <1>6, <1>7, <2>1 DEF m
  <2>4. \A i \in 1 .. l - 1 : \A j \in i .. l - 1 :
          buffer'[i].time <= buffer'[j].time
    <3> TAKE i \in 1 .. l - 1
    <3> TAKE j \in i .. l - 1
    <3>1. j \in 1 .. l - 1 /\ i + 1 <= j + 1
      BY <1>3
    <3>2. buffer[i + 1].time <= buffer[j + 1].time
      BY <1>7, <2>1, <3>1
    <3>3. QED
      BY <2>1, <3>1, <3>2
  <2>5. m.id <= received - (l - 1)
    <3>1. m.id = received - l + 1
      BY <1>6, <1>7 DEF m
    <3>2. QED
      BY <1>3, <3>1
  <2>6. \A i \in DOMAIN buffer' :
          /\ buffer'[i].id = received' - Len(buffer') + i
          /\ buffer'[i].time <= now'
          /\ current_item' # NoMessage => current_item'.time <= buffer'[i].time
          /\ \A j \in i .. Len(buffer') : buffer'[i].time <= buffer'[j].time
    BY <1>1, <1>2, <1>4, <1>5, <2>2, <2>3, <2>4
  <2>7. current_item' # NoMessage =>
          /\ current_item'.id <= received' - Len(buffer')
          /\ timestamp' = current_item'.time
    BY <1>1, <1>2, <1>4, <2>5
  <2>8. QED
    BY <2>6, <2>7 DEF BufferHoldsNewest
<1>11. \A a \in Address : lastSent[a] < m.id
  <2> TAKE a \in Address
  <2>1. lastSent[a] \in Nat
    BY <1>3 DEF OwnTypes
  <2>2. m.id = received - l + 1
    BY <1>6, <1>7 DEF m
  <2>3. CASE current_item = NoMessage
    BY <1>3, <1>6, <2>3 DEF Sending
  <2>4. CASE current_item # NoMessage
    <3> DEFINE id == current_item.id
    <3>1. id \in Nat /\ lastSent[a] <= id /\ id <= received - l
      BY <1>3, <1>7, <2>4, InvFacts DEF SendsInOrder
    <3> HIDE DEF id
    <3>2. QED
      BY <1>3, <2>1, <2>2, <3>1
  <2>5. QED
    BY <2>3, <2>4
<1>12. SendsInOrder'
  <2>1. DOMAIN current_clients' = {}
    BY <1>2
  <2>2. \A a \in Address : lastSent'[a] <= current_item'.id
    <3> TAKE a \in Address
    <3>1. lastSent[a] \in Nat
      BY <1>3 DEF OwnTypes
    <3>2. QED
      BY <1>1, <1>2, <1>6, <1>11, <3>1
  <2>3. QED
    BY <2>1, <2>2 DEF SendsInOrder
<1>13. Sending'
  BY <1>1, <1>2, <1>6, <1>11 DEF Sending
<1>14. QED
  BY <1>8, <1>9, <1>10, <1>12, <1>13 DEF OwnInv

LEMMA ScanClientsKeepsInv == ASSUME SInv, ScanClients PROVE OwnInv'
<1>1. /\ pc = "prepare" /\ phase' # "idle"
      /\ UNCHANGED <<pc, events, revents, buffer, current_item,
                     current_clients, received, lastSent>>
      /\ UNCHANGED <<now, timestamp, exclude>>
  BY RegisterEffects DEF ScanClients
<1>2. OwnTypes' /\ WorkKeepsPollout'
  BY <1>1, InvFacts DEF OwnInv, OwnTypes, WorkKeepsPollout
<1>3. now' \in Nat /\ now <= now'
  BY <1>1, InvFacts
<1>4. QED
  BY <1>1, <1>2, <1>3, SameMessages, SameClients DEF OwnInv

(* What the register returns. *)
LEMMA Returned ==
  ASSUME SInv, GotClients
  PROVE  /\ the_clients \in Seq(Address) /\ NoneTwice(the_clients)
         /\ \A i \in DOMAIN the_clients :
              /\ the_clients[i] # exclude
              /\ \E c \in contacts : /\ c[1] = the_clients[i]
                                     /\ c[2] <= timestamp
                                     /\ timestamp <= c[2] + TIMEOUT
<1>1. phase = "loop"
  BY RegisterEffects DEF GotClients
<1>2. Register!RecipientsAreEligible
  BY RegisterAssumption, Register!RightRecipients DEF SInv
<1>3. QED
  BY <1>1, <1>2, RegisterFacts
     DEF Register!RecipientsAreEligible, Register!Eligible, NoneTwice, SInv

LEMMA GotClientsKeepsInv == ASSUME SInv, GotClients PROVE OwnInv'
<1>1. /\ pc = "prepare" /\ pc' = "send" /\ phase' = "idle"
      /\ current_clients' = the_clients
      /\ UNCHANGED <<events, revents, buffer, current_item, received, lastSent>>
      /\ UNCHANGED <<now, timestamp>>
  BY RegisterEffects DEF GotClients
<1>2. /\ OwnInv /\ OwnTypes /\ SendsInOrder /\ Sending /\ WorkKeepsPollout
      /\ current_item # NoMessage
      /\ \A a \in Address : lastSent[a] < current_item.id
  BY <1>1, InvFacts DEF OwnInv, Sending
<1>3. the_clients \in Seq(Address) /\ NoneTwice(the_clients)
      /\ \A i \in DOMAIN the_clients : the_clients[i] \in Address
  BY Returned, LenProperties, ElementOfSeq
<1>4. OwnTypes' /\ WorkKeepsPollout'
  BY <1>1, <1>2, <1>3 DEF OwnTypes, WorkKeepsPollout
<1>5. SendsInOrder' /\ Sending'
  BY <1>1, <1>2, <1>3 DEF SendsInOrder, Sending, NoneTwice
<1>6. now' \in Nat /\ now <= now'
  BY <1>1, InvFacts
<1>7. BufferHoldsNewest'
  BY <1>1, <1>6, SameMessages
<1>8. QED
  BY <1>4, <1>5, <1>7 DEF OwnInv

(* What is known when send() has a client to send to. *)
LEMMA SendFacts ==
  ASSUME SInv, NEW left, NEW sent, Send(left, sent)
  PROVE  /\ current_item \in Message /\ current_item.id \in 0 .. received
         /\ current_item # NoMessage
         /\ current_clients \in Seq(Address) /\ current_clients # <<>>
         /\ NoneTwice(current_clients)
         /\ \A a \in ToSet(current_clients) : lastSent[a] < current_item.id
         /\ \A a \in Address : lastSent[a] <= current_item.id
         /\ lastSent \in [Address -> 0 .. received]
         /\ "out" \in events /\ phase = "idle"
<1>1. current_clients # <<>> /\ pc = "send"
  BY DEF Send
<1>2. OwnTypes /\ SendsInOrder /\ WorkKeepsPollout /\ BufferHoldsNewest
  BY DEF SInv
<1>3. /\ current_clients \in Seq(Address) /\ current_item # NoMessage
      /\ lastSent \in [Address -> 0 .. received]
      /\ "out" \in events /\ phase = "idle"
  BY <1>1, <1>2 DEF OwnTypes, WorkKeepsPollout
<1>4. current_item.id \in 0 .. received /\ current_item \in Message
  <2> DEFINE id == current_item.id
             l == Len(buffer)
  <2>1. id \in Nat /\ id <= received - l /\ l \in Nat /\ received \in Nat
    BY <1>2, <1>3, InvFacts DEF BufferHoldsNewest
  <2> HIDE DEF id, l
  <2>2. id \in 0 .. received
    BY <2>1
  <2>3. QED
    BY <1>3, <2>2, InvFacts DEF id
<1>5. /\ NoneTwice(current_clients)
      /\ \A a \in ToSet(current_clients) : lastSent[a] < current_item.id
      /\ \A a \in Address : lastSent[a] <= current_item.id
  BY <1>2, <1>3 DEF SendsInOrder, NoneTwice, ToSet
<1>6. QED
  BY <1>1, <1>3, <1>4, <1>5

LEMMA SendKeepsInv ==
  ASSUME SInv, NEW left \in Seq(Address), NEW sent \in [Address -> 0 .. received],
         Send(left, sent), NoneTwice(left),
         \A a \in ToSet(left) : sent[a] < current_item.id,
         \A a \in Address : sent[a] <= current_item.id
  PROVE  OwnInv'
<1>1. /\ pc' = "wait" /\ current_clients' = left /\ lastSent' = sent
      /\ UNCHANGED <<events, revents, buffer, current_item, received>>
      /\ UNCHANGED <<now, phase, timestamp, exclude>>
  BY DEF Send, register
<1>2. current_item # NoMessage /\ "out" \in events /\ phase = "idle"
  BY SendFacts
<1>3. OwnTypes'
  BY <1>1, <1>2 DEF SInv, OwnTypes
<1>4. WorkKeepsPollout' /\ Sending'
  BY <1>1, <1>2 DEF WorkKeepsPollout, Sending
<1>5. SendsInOrder'
  BY <1>1 DEF SendsInOrder, NoneTwice, ToSet
<1>6. BufferHoldsNewest'
  BY <1>1, InvFacts, SameMessages
<1>7. QED
  BY <1>3, <1>4, <1>5, <1>6 DEF OwnInv

LEMMA SendToKeepsInv == ASSUME SInv, SendTo PROVE OwnInv'
<1> DEFINE h == Head(current_clients)
           left == Tail(current_clients)
           sent == [lastSent EXCEPT ![h] = current_item.id]
<1>1. Send(left, sent)
  BY DEF SendTo
<1>2. /\ current_item.id \in 0 .. received
      /\ current_clients \in Seq(Address) /\ current_clients # <<>>
      /\ NoneTwice(current_clients)
      /\ \A a \in ToSet(current_clients) : lastSent[a] < current_item.id
      /\ \A a \in Address : lastSent[a] <= current_item.id
      /\ lastSent \in [Address -> 0 .. received]
      /\ received \in Nat
  BY <1>1, SendFacts, InvFacts
<1>3. /\ h \in Address /\ left \in Seq(Address) /\ NoneTwice(left)
      /\ ToSet(left) = ToSet(current_clients) \ {h}
  BY <1>2, ClientsLeft
<1>4. ToSet(left) \subseteq Address
  BY <1>3, LenProperties, ElementOfSeq DEF ToSet
<1> HIDE DEF h, left
<1>5. /\ sent \in [Address -> 0 .. received]
      /\ \A a \in Address : sent[a] = IF a = h THEN current_item.id ELSE lastSent[a]
  BY <1>2, <1>3
<1> HIDE DEF sent
<1>6. \A a \in ToSet(left) : sent[a] < current_item.id
  BY <1>2, <1>3, <1>4, <1>5
<1>7. \A a \in Address : sent[a] <= current_item.id
  BY <1>2, <1>5
<1>8. QED
  BY <1>1, <1>3, <1>5, <1>6, <1>7, SendKeepsInv

LEMMA SendFailsKeepsInv == ASSUME SInv, SendFails PROVE OwnInv'
<1> DEFINE left == Tail(current_clients)
<1>1. Send(left, lastSent)
  BY DEF SendFails
<1>2. /\ current_clients \in Seq(Address) /\ current_clients # <<>>
      /\ NoneTwice(current_clients)
      /\ \A a \in ToSet(current_clients) : lastSent[a] < current_item.id
      /\ \A a \in Address : lastSent[a] <= current_item.id
      /\ lastSent \in [Address -> 0 .. received]
  BY <1>1, SendFacts
<1>3. /\ left \in Seq(Address) /\ NoneTwice(left)
      /\ ToSet(left) \subseteq ToSet(current_clients)
  BY <1>2, ClientsLeft
<1> HIDE DEF left
<1>4. QED
  BY <1>1, <1>2, <1>3, SendKeepsInv

LEMMA SendWouldBlockKeepsInv == ASSUME SInv, SendWouldBlock PROVE OwnInv'
<1> DEFINE left == Append(Tail(current_clients), Head(current_clients))
<1>1. Send(left, lastSent)
  BY DEF SendWouldBlock
<1>2. /\ current_clients \in Seq(Address) /\ current_clients # <<>>
      /\ NoneTwice(current_clients)
      /\ \A a \in ToSet(current_clients) : lastSent[a] < current_item.id
      /\ \A a \in Address : lastSent[a] <= current_item.id
      /\ lastSent \in [Address -> 0 .. received]
  BY <1>1, SendFacts
<1>3. /\ left \in Seq(Address) /\ NoneTwice(left)
      /\ ToSet(left) = ToSet(current_clients)
  BY <1>2, ClientsLeft
<1> HIDE DEF left
<1>4. QED
  BY <1>1, <1>2, <1>3, SendKeepsInv

LEMMA OwnPart == ASSUME SInv, [Next]_vars PROVE OwnInv'
<1>1. CASE Tick
  BY <1>1, TickKeepsInv
<1>2. CASE \E r \in SUBSET events : Wait(r)
  BY <1>2, WaitKeepsInv
<1>3. CASE Receive
  <2>1. PICK t \in now .. MaxTime :
          \/ \E a \in Address \ {NoAddress} : ReceiveMessage(a, t)
          \/ \E a \in Address : ReceiveNothing(a, t)
    BY <1>3, Zenon DEF Receive
  <2>2. QED
    BY <2>1, ReceiveMessageKeepsInv, ReceiveNothingKeepsInv
<1>4. CASE Prepare \/ ScanClients \/ GotClients
  BY <1>4, PrepareKeepsInv, ScanClientsKeepsInv, GotClientsKeepsInv
<1>5. CASE SendNothing \/ SendTo \/ SendFails \/ SendWouldBlock
  BY <1>5, SendNothingKeepsInv, SendToKeepsInv, SendFailsKeepsInv,
     SendWouldBlockKeepsInv
<1>6. CASE UNCHANGED vars
  BY <1>6
     DEF SInv, OwnInv, OwnTypes, WorkKeepsPollout, BufferHoldsNewest,
         SendsInOrder, Sending, vars, register
<1>7. QED
  BY <1>1, <1>2, <1>3, <1>4, <1>5, <1>6 DEF Next, Step

LEMMA NextKeepsSInv == SInv /\ [Next]_vars => SInv'
BY RegisterPart, OwnPart DEF SInv, OwnInv

LEMMA InitSInv == Init => SInv
<1> SUFFICES ASSUME Init PROVE SInv
  OBVIOUS
<1>1. Register!Right
  BY RegisterInit DEF Init
<1>2. /\ pc = "wait" /\ events = {"in", "out"} /\ revents = {}
      /\ buffer = <<>> /\ current_item = NoMessage /\ current_clients = <<>>
      /\ received = 0 /\ lastSent = [a \in Address |-> 0]
      /\ phase = "idle" /\ timestamp = 0
  BY DEF Init, Connections!Init, Buffer!Init, POLLIN_POLLOUT
<1>3. Len(buffer) = 0 /\ DOMAIN buffer = {} /\ DOMAIN current_clients = {}
  BY <1>2
<1>4. OwnTypes
  BY <1>2, <1>3, ServerAssumption DEF OwnTypes
<1>5. WorkKeepsPollout /\ BufferHoldsNewest /\ SendsInOrder /\ Sending
  BY <1>2, <1>3 DEF WorkKeepsPollout, BufferHoldsNewest, SendsInOrder, Sending
<1>6. QED
  BY <1>1, <1>4, <1>5 DEF SInv

LEMMA AlwaysSInv == Spec => []SInv
BY InitSInv, NextKeepsSInv, PTL DEF Spec

(* The state of the server keeps its type: get_clients is the only time at *)
(* which the register is busy, and a client to send to implies a message.  *)
THEOREM ServerTypeOK == Spec => []TypeOK
BY AlwaysSInv, InvGivesTypeOK, PTL

(* As long as there is work the server waits for the socket to be writable.*)
THEOREM ServerWorkKeepsPollout == Spec => []WorkKeepsPollout
<1>1. SInv => WorkKeepsPollout
  BY DEF SInv
<1>2. QED
  BY <1>1, AlwaysSInv, PTL

(* The buffer holds the newest messages, without a gap and in order.       *)
THEOREM ServerBufferHoldsNewest == Spec => []BufferHoldsNewest
<1>1. SInv => BufferHoldsNewest
  BY DEF SInv
<1>2. QED
  BY <1>1, AlwaysSInv, PTL

(* A client gets messages in the order of reception and none twice.        *)
THEOREM ServerSendsInOrder == Spec => []SendsInOrder
<1>1. SInv => SendsInOrder
  BY DEF SInv
<1>2. QED
  BY <1>1, AlwaysSInv, PTL

(* The server never calls get_clients with a time before that of the last  *)
(* call or after now, and does nothing to the register during a call.      *)
THEOREM ServerKeepsRegisterProtocol == Spec => KeepsRegisterProtocol
<1>1. Init => Connections!Init
  BY DEF Init
<1>2. SInv /\ [Next]_vars => [Connections!Next]_(Connections!vars)
  BY StepUsesRegister DEF UsesRegister
<1>3. QED
  BY <1>1, <1>2, AlwaysSInv, PTL DEF Spec, KeepsRegisterProtocol, Connections!Spec

(* When the clients of the next message are asked for, nobody in the       *)
(* register, but the sender of it, has expired.                            *)
PreparesWithNobodyExpired ==
  Prepare => Register!NobodyExpired(current_item'.time, current_item'.sender)

LEMMA CallsAsItPrepares ==
  ASSUME SInv, [Next]_vars, [PreparesWithNobodyExpired]_vars
  PROVE  [Register!CallsWithNobodyExpired]_(Register!vars)
<1>1. SUFFICES ASSUME phase = "idle", phase' = "loop"
               PROVE  Register!NobodyExpired(timestamp', exclude')
  BY DEF Register!CallsWithNobodyExpired
<1>2. Prepare
  <2>1. vars' # vars
    BY <1>1 DEF vars, register
  <2>2. ~ UNCHANGED register
    BY <1>1 DEF register
  <2>3. ~ Tick /\ ~ GotClients
    BY <1>1, RegisterEffects DEF Tick, GotClients
  <2>4. ~ Receive
    BY <1>1, ReceiveUsesRegister, RegisterEffects
  <2>5. ~ ScanClients
    BY <1>1 DEF ScanClients, SInv, OwnTypes
  <2>6. ~ (SendNothing \/ SendTo \/ SendFails \/ SendWouldBlock
             \/ \E r \in SUBSET events : Wait(r))
    BY <2>2 DEF Wait, SendNothing, SendTo, SendFails, SendWouldBlock, Send
  <2> QED
    BY <2>1, <2>3, <2>4, <2>5, <2>6 DEF Next, Step
<1>3. /\ timestamp' = current_item'.time /\ exclude' = current_item'.sender
  BY <1>2, PrepareTakes DEF Connections!get_clients
<1>4. vars' # vars
  BY <1>1 DEF vars, register
<1> QED
  BY <1>2, <1>3, <1>4 DEF PreparesWithNobodyExpired

(* The misuse of erase at connections.h:105 does the server no harm as     *)
(* long as nobody has expired whenever it prepares a message: it never     *)
(* leaves the deque, and every eligible client is to get the message.      *)
THEOREM ServerUnharmed ==
  Spec /\ [][PreparesWithNobodyExpired]_vars =>
    [](LoopGoesOn /\ Register!EveryEligibleClientIsReturned)
<1>1. Init => Register!Unharmed
  BY DEF Init, Connections!Init, Register!Unharmed
<1>2. ASSUME SInv, Register!Unharmed, [Next]_vars,
             [PreparesWithNobodyExpired]_vars
      PROVE  Register!Unharmed'
  <2>1. [Register!Next]_(Register!vars)
    BY <1>2, StepUsesRegister, SameNext
       DEF UsesRegister, Connections!vars, Register!vars,
           Connections!scan, Register!scan
  <2>2. Register!WellFormed
    BY <1>2 DEF SInv, Register!Right
  <2> QED
    BY <1>2, <2>1, <2>2, CallsAsItPrepares, RegisterAssumption,
       Register!NextKeepsUnharmed
<1>3. ASSUME SInv, Register!Unharmed
      PROVE  LoopGoesOn /\ Register!EveryEligibleClientIsReturned
  BY <1>3, RegisterAssumption, Register!RightMissed
     DEF SInv, LoopGoesOn, Register!Unharmed, Register!AtEnd,
         Register!OnlySkippedAreMissed, Register!EveryEligibleClientIsReturned
<1>4. SInv /\ Register!Unharmed /\ [Next]_vars
        /\ [PreparesWithNobodyExpired]_vars => Register!Unharmed'
  BY <1>2
<1>5. SInv /\ Register!Unharmed =>
        LoopGoesOn /\ Register!EveryEligibleClientIsReturned
  BY <1>3
<1> QED
  BY <1>1, <1>4, <1>5, AlwaysSInv, PTL DEF Spec

-----------------------------------------------------------------------------

(* Server implements Relay: every step is one of Relay or changes nothing  *)
(* that Relay sees.                                                        *)
RelayStep == [Relay!Next]_(Relay!vars)

LEMMA Stutter ==
  ASSUME UNCHANGED <<now, contacts, buffer, current_item, lastSent>>,
         (pc = "prepare") <=> (pc' = "prepare"),
         ToSet(current_clients') = ToSet(current_clients)
  PROVE  RelayStep
<1>1. (pc = "prepare") = (pc' = "prepare")
  OBVIOUS
<1>2. QED
  BY <1>1 DEF RelayStep, Relay!vars

LEMMA TickRelays == ASSUME SInv, Tick PROVE RelayStep
<1>1. /\ now < MaxTime /\ now' = now + 1
      /\ UNCHANGED <<contacts, buffer, current_item, pc, current_clients,
                     lastSent>>
  BY RegisterEffects DEF Tick
<1>2. QED
  BY <1>1 DEF RelayStep, Relay!Next, Relay!Tick

LEMMA ReceiveRelays == ASSUME SInv, Receive PROVE RelayStep
<1>1. PICK t \in now .. MaxTime :
        \/ \E a \in Address \ {NoAddress} : ReceiveMessage(a, t)
        \/ \E a \in Address : ReceiveNothing(a, t)
  BY Zenon DEF Receive
<1>2. ASSUME NEW a \in Address, Connections!add_client(a, t), pc = "receive",
             AfterReceive, UNCHANGED <<current_clients, lastSent>>
      PROVE  Relay!Hear(a, t)
  <2>1. /\ now' = t /\ contacts' = contacts \cup {<<a, t>>}
        /\ pc # "prepare" /\ pc' # "prepare"
        /\ UNCHANGED <<current_clients, lastSent>>
    BY <1>2, RegisterEffects DEF AfterReceive
  <2>2. (pc = "prepare") = (pc' = "prepare")
    BY <2>1
  <2>3. QED
    BY <2>1, <2>2 DEF Relay!Hear
<1>3. ASSUME NEW a \in Address, ReceiveMessage(a, t) PROVE RelayStep
  <2>1. Relay!Hear(a, t)
    BY <1>2, <1>3 DEF ReceiveMessage
  <2>2. received + 1 \in 1 .. MaxMessages
    BY <1>3, InvFacts, ServerAssumption DEF ReceiveMessage
  <2>3. Relay!Queue!Push([id |-> received + 1, time |-> now, sender |-> a])
    BY <1>3
       DEF ReceiveMessage, Buffer!Push, Relay!Queue!Push,
           Buffer!Enqueue, Relay!Queue!Enqueue
  <2>4. Relay!Receive(a, received + 1, t)
    BY <2>1, <2>3 DEF Relay!Receive
  <2>5. QED
    BY <2>2, <2>4, Zenon DEF RelayStep, Relay!Next
<1>4. ASSUME NEW a \in Address, ReceiveNothing(a, t) PROVE RelayStep
  <2>1. Relay!Hear(a, t)
    BY <1>2, <1>4 DEF ReceiveNothing
  <2>2. Relay!Contact(a, t)
    BY <1>4, <2>1 DEF Relay!Contact, ReceiveNothing
  <2>3. QED
    BY <2>2, Zenon DEF RelayStep, Relay!Next
<1>5. QED
  BY <1>1, <1>3, <1>4

LEMMA PrepareRelays == ASSUME SInv, Prepare PROVE RelayStep
<1>1. /\ buffer # <<>> /\ current_item' = Head(buffer) /\ buffer' = Tail(buffer)
      /\ pc = "send" /\ pc' = "prepare" /\ current_clients = <<>>
      /\ UNCHANGED <<current_clients, lastSent>>
      /\ contacts' = {c \in contacts : c[2] + TIMEOUT >= current_item'.time}
      /\ now' = now
  BY RegisterEffects DEF Prepare, Buffer!Pop
<1>2. ToSet(current_clients) = {}
  BY <1>1 DEF ToSet
<1>3. Relay!Queue!Pop
  BY <1>1 DEF Relay!Queue!Pop
<1>4. (pc' = "prepare") = TRUE /\ ~ (pc = "prepare")
  BY <1>1
<1>5. Relay!TakeOldest
  BY <1>1, <1>2, <1>3, <1>4 DEF Relay!TakeOldest
<1>6. Relay!Take
  BY <1>1, <1>5 DEF Relay!Take
<1>7. QED
  BY <1>6 DEF RelayStep, Relay!Next

LEMMA GotClientsRelays == ASSUME SInv, GotClients PROVE RelayStep
<1>1. /\ pc = "prepare" /\ pc' = "send" /\ current_clients' = the_clients
      /\ UNCHANGED <<buffer, current_item, lastSent, now, timestamp, contacts>>
  BY RegisterEffects DEF GotClients
<1>2. /\ timestamp = current_item.time /\ exclude = current_item.sender
      /\ timestamp \in Nat
      /\ contacts \subseteq Address \X (0 .. now) /\ now \in Nat
  <2>1. current_item # NoMessage /\ exclude = current_item.sender
    BY <1>1 DEF SInv, Sending
  <2>2. timestamp = current_item.time
    BY <2>1 DEF SInv, BufferHoldsNewest
  <2>3. contacts \subseteq Address \X (0 .. now)
    BY RegisterFacts DEF SInv, Connections!TypeOK
  <2>4. QED
    BY <2>1, <2>2, <2>3, InvFacts
<1>3. ASSUME NEW i \in DOMAIN the_clients
      PROVE  the_clients[i] \in Relay!Eligible
  <2>1. PICK c \in contacts : c[1] = the_clients[i] /\ c[2] <= timestamp
    BY Returned
  <2>2. c = <<c[1], c[2]>> /\ c[1] \in Address /\ c[2] \in Nat
    BY <1>2
  <2>3. c[2] \in 0 .. current_item.time
    BY <1>2, <2>1, <2>2
  <2>4. \E t \in 0 .. current_item.time : <<the_clients[i], t>> \in contacts
    BY <2>1, <2>2, <2>3
  <2>5. the_clients[i] \in Address \ {current_item.sender}
    BY <1>2, <2>1, <2>2, Returned
  <2>6. QED
    BY <2>4, <2>5 DEF Relay!Eligible
<1>4. ToSet(current_clients') \in SUBSET Relay!Eligible
  BY <1>1, <1>3 DEF ToSet
<1>5. (pc = "prepare") = TRUE /\ (pc' = "prepare") = FALSE
  BY <1>1
<1>6. Relay!Choose
  BY <1>1, <1>4, <1>5 DEF Relay!Choose
<1>7. QED
  BY <1>6 DEF RelayStep, Relay!Next

LEMMA SendRelays ==
  ASSUME SInv, SendTo \/ SendFails \/ SendWouldBlock PROVE RelayStep
<1> DEFINE h == Head(current_clients)
           left == Tail(current_clients)
<1>1. PICK l, sent : Send(l, sent)
  BY DEF SendTo, SendFails, SendWouldBlock
<1>2. /\ h \in ToSet(current_clients)
      /\ ToSet(left) = ToSet(current_clients) \ {h}
      /\ ToSet(Append(left, h)) = ToSet(current_clients)
  BY <1>1, SendFacts, ClientsLeft
<1>3. /\ UNCHANGED <<now, contacts, buffer, current_item>>
      /\ pc = "send" /\ pc' = "wait"
  BY <1>1 DEF Send, register
<1>4. (pc = "prepare") = (pc' = "prepare")
  BY <1>3
<1>5. ASSUME current_clients' = left PROVE Relay!Done(h)
  <2>1. ToSet(current_clients') = ToSet(current_clients) \ {h}
    BY <1>2, <1>5
  <2>2. QED
    BY <1>2, <1>3, <1>4, <2>1 DEF Relay!Done
<1>6. CASE SendTo
  <2>1. /\ current_clients' = left
        /\ lastSent' = [lastSent EXCEPT ![h] = current_item.id]
    BY <1>6 DEF SendTo, Send
  <2>2. Relay!Send(h)
    BY <1>5, <2>1 DEF Relay!Send
  <2>3. QED
    BY <1>2, <2>2, Zenon DEF RelayStep, Relay!Next
<1>7. CASE SendFails
  <2>1. current_clients' = left /\ lastSent' = lastSent
    BY <1>7 DEF SendFails, Send
  <2>2. Relay!Fail(h)
    BY <1>5, <2>1 DEF Relay!Fail
  <2>3. QED
    BY <1>2, <2>2, Zenon DEF RelayStep, Relay!Next
<1>8. CASE SendWouldBlock
  <2>1. current_clients' = Append(left, h) /\ lastSent' = lastSent
    BY <1>8 DEF SendWouldBlock, Send
  <2>2. ToSet(current_clients') = ToSet(current_clients)
    BY <1>2, <2>1
  <2>3. QED
    BY <1>3, <2>1, <2>2, Stutter
<1>9. QED
  BY <1>6, <1>7, <1>8

LEMMA NextRelays == ASSUME SInv, [Next]_vars PROVE RelayStep
<1>1. CASE \E r \in SUBSET events : Wait(r)
  <2>1. /\ UNCHANGED <<now, contacts, buffer, current_item, lastSent,
                       current_clients>>
        /\ pc # "prepare" /\ pc' # "prepare"
    BY <1>1 DEF Wait, register
  <2>2. QED
    BY <2>1, Stutter
<1>2. CASE ScanClients
  <2>1. /\ UNCHANGED <<now, contacts, buffer, current_item, lastSent,
                       current_clients>>
        /\ pc' = pc
    BY <1>2, RegisterEffects DEF ScanClients
  <2>2. QED
    BY <2>1, Stutter
<1>3. CASE SendNothing
  <2>1. /\ UNCHANGED <<now, contacts, buffer, current_item, lastSent,
                       current_clients>>
        /\ pc # "prepare" /\ pc' # "prepare"
    BY <1>3 DEF SendNothing, register
  <2>2. QED
    BY <2>1, Stutter
<1>4. CASE UNCHANGED vars
  BY <1>4, Stutter DEF vars, register
<1>5. QED
  BY <1>1, <1>2, <1>3, <1>4, TickRelays, ReceiveRelays, PrepareRelays,
     GotClientsRelays, SendRelays DEF Next, Step

LEMMA InitRelays == Init => Relay!Init
<1> SUFFICES ASSUME Init PROVE Relay!Init
  OBVIOUS
<1>1. /\ now = 0 /\ contacts = {} /\ buffer = <<>> /\ current_item = NoMessage
      /\ pc = "wait" /\ current_clients = <<>>
      /\ lastSent = [a \in Address |-> 0]
  BY DEF Init, Connections!Init, Buffer!Init
<1>2. ToSet(current_clients) = {} /\ (pc = "prepare") = FALSE
  BY <1>1 DEF ToSet
<1>3. QED
  BY <1>1, <1>2 DEF Relay!Init, Relay!Queue!Init

(* The server does what Relay promises: it sends each message at most once *)
(* to clients that were in contact in the TIMEOUT seconds before.          *)
THEOREM ServerImplementsRelay == Spec => ImplementsRelay
<1>1. SInv /\ [Next]_vars => [Relay!Next]_(Relay!vars)
  BY NextRelays DEF RelayStep
<1>2. QED
  BY <1>1, InitRelays, AlwaysSInv, PTL DEF Spec, ImplementsRelay, Relay!Spec
=============================================================================

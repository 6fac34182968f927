--------------------------- MODULE LifecycleProofs ---------------------------
(* Theorems about Lifecycle, for every number of signals, every file and   *)
(* every way to read it, and any sizes of numbers and of the buffer.       *)
EXTENDS Lifecycle, ParseProofs

Started == {"parse", "register", "open", "bind"}

(* The first part of the invariant: the main thread, what the construction *)
(* has done so far, and that every way out of the loop is one on which     *)
(* stop() was called.                                                      *)
ProcessInv ==
  /\ pc \in Started \cup {"read", "build", "run", "return", "exiting", "exit"}
            \cup Looping
  /\ disposition \in {"default", "handler"}
  /\ server \in {"null", "alive", "deleted"}
  /\ sock \in {"closed", "open"}
  /\ stopping \in BOOLEAN
  /\ status \in {"running", "OK", "ERROR_ARGS", "SIGINT", "SIGSEGV"}
  /\ asked \in BOOLEAN
  /\ late \in BOOLEAN
  /\ stopping => asked
  /\ status = "running" <=> pc # "exit"
  /\ pc \in Looping \cup {"run"} => server = "alive" /\ sock = "open"
  /\ pc = "return" => server = "alive"
  /\ server = "deleted" => sock = "closed"
  /\ pc \in Started \cup {"read", "build"} => server = "null"
  /\ pc \in {"bind", "read", "build"} => sock = "open"
  /\ EndsOnlyWhenAsked

(* The second part: the arguments and the signals. *)
InputInv ==
  /\ arguments \in Arguments
  /\ port \in 0 .. PortSize - 1
  /\ signals \in 0 .. MaxSignals

Whole == NUL \notin ToSet(disk) => content = disk

(* The third part: the file.  What has been read of one without NUL is     *)
(* what it begins with.                                                    *)
FileInv ==
  /\ disk \in Disk
  /\ file \in {"closed", "open"}
  /\ offset \in 0 .. Len(disk)
  /\ content \in Seq(Byte \ {NUL})
  /\ file = "open" =>
       /\ pc \in {"read", "exit"}
       /\ buffer \in Seq(Byte) /\ Len(buffer) = buffer_length
       /\ NUL \notin ToSet(disk) => content = SubSeq(disk, 1, offset)
  /\ pc = "build" \/ server # "null" => Whole

Slot(events, reported) ==
  [i \in {0} |-> [fd |-> Socket, events |-> events, revents |-> reported]]

(* The fourth part: the poll set is empty until the server is made, and    *)
(* then holds the socket.                                                  *)
PollInv ==
  /\ removed = FALSE
  /\ server = "null" =>
       /\ clients = [i \in {0} |-> [fd |-> NoDescriptor, events |-> {},
                                    revents |-> {}]]
       /\ clients_length = 0 /\ added = {} /\ outcome = "done"
  /\ server # "null" =>
       /\ \E e, r \in SUBSET Poll!Event :
            clients = Slot(e, r) /\ "POLLIN" \in e
       /\ clients_length = 1 /\ added = {Socket}
       /\ outcome \in {"done", "runtime_error"}

(* The fifth part: where the thread may be with a stop() behind it, and    *)
(* what it has begun since.                                                *)
StopInv ==
  /\ begun \in Seq(Visible)
  /\ StopsAfterThePass
  /\ stopping =>
       /\ pc = "enter" => late /\ begun = <<>>
       /\ pc = "poll" => begun = <<"poll">>
       /\ pc = "recheck" => begun # <<"send">>
       /\ pc = "receive" => begun = <<>> /\ ~ late

IInv == ProcessInv /\ InputInv /\ FileInv /\ PollInv /\ StopInv

-----------------------------------------------------------------------------
(* The poll set *)

LEMMA OneSlot == Poll!Slots = {0}
BY DEF Poll!Slots

LEMMA PollInvGivesTypeOK == ASSUME PollInv PROVE Poll!TypeOK
<1>1. clients \in [{0} -> [fd : {Socket} \cup {NoDescriptor},
                           events : SUBSET Poll!Event,
                           revents : SUBSET Poll!Event]]
  BY DEF PollInv, Slot
<1>2. \A i \in {0} : clients[i].fd = NoDescriptor =>
        clients[i].events = {} /\ clients[i].revents = {}
  BY LifecycleAssumption DEF PollInv, Slot
<1>3. clients_length \in 0 .. 1 /\ added \subseteq {Socket}
  BY DEF PollInv
<1>4. outcome \in {"done", "runtime_error"} /\ removed \in BOOLEAN
  BY DEF PollInv
<1>5. QED
  BY <1>1, <1>2, <1>3, <1>4, OneSlot DEF Poll!TypeOK

(* As long as the server is there, nothing takes the socket out. *)
LEMMA WaitKeepsInv ==
  ASSUME PollInv, server # "null", server' # "null",
         NEW reported, Poll!wait(reported), outcome' = "done"
  PROVE  PollInv'
<1>1. PICK e, r \in SUBSET Poll!Event : clients = Slot(e, r) /\ "POLLIN" \in e
  BY DEF PollInv
<1>0. clients_length = 1
  BY DEF PollInv
<1> DEFINE q == {event \in e : <<Socket, event>> \in reported}
<1>2. q \in SUBSET Poll!Event
  OBVIOUS
<1>3. clients' = Slot(e, q)
  <2> DEFINE R(i) == {event \in clients[i].events :
                       i < clients_length /\ <<clients[i].fd, event>> \in reported}
  <2>1. clients[0] = [fd |-> Socket, events |-> e, revents |-> r]
    BY <1>1 DEF Slot
  <2>2. R(0) = q
    BY <1>0, <2>1
  <2>3. clients' = [i \in {0} |-> [clients[i] EXCEPT !.revents = R(i)]]
    BY OneSlot DEF Poll!wait
  <2> HIDE DEF R, q
  <2>4. clients' = [i \in {0} |-> [clients[0] EXCEPT !.revents = q]]
    BY <2>2, <2>3
  <2>5. QED
    BY <2>1, <2>4 DEF Slot
<1>4. QED
  BY <1>1, <1>2, <1>3 DEF PollInv, Poll!wait

LEMMA WaitFailsKeepsInv ==
  ASSUME PollInv, server # "null", server' # "null", Poll!wait_fails
  PROVE  PollInv'
<1>1. PICK e, r \in SUBSET Poll!Event : clients = Slot(e, r) /\ "POLLIN" \in e
  BY DEF PollInv
<1>2. clients' = Slot(e, {})
  BY <1>1, OneSlot DEF Poll!wait_fails, Slot
<1>3. QED
  BY <1>1, <1>2 DEF PollInv, Poll!wait_fails

LEMMA SetEventsKeepsInv ==
  ASSUME PollInv, server # "null", server' # "null",
         NEW events \in SUBSET Poll!Event, "POLLIN" \in events,
         Poll!set_events(Socket, events)
  PROVE  PollInv'
<1>1. PICK e, r \in SUBSET Poll!Event : clients = Slot(e, r) /\ "POLLIN" \in e
  BY DEF PollInv
<1>2. ~ Poll!NotIn(Socket)
  BY <1>1, OneSlot DEF Poll!NotIn, Slot
<1>3. clients' = Slot(events, r)
  BY <1>1, <1>2, OneSlot DEF Poll!set_events, Slot
<1>4. QED
  BY <1>1, <1>2, <1>3 DEF PollInv, Poll!set_events

LEMMA AddKeepsInv ==
  ASSUME PollInv, server = "null", server' # "null",
         Poll!add_descriptor(Socket, Poll!Event)
  PROVE  PollInv'
<1>1. Poll!NotIn(Socket) /\ ~ Poll!NotIn(NoDescriptor)
  BY OneSlot, LifecycleAssumption DEF PollInv, Poll!NotIn
<1>2. clients' = Slot(Poll!Event, {})
  BY <1>1, OneSlot DEF PollInv, Poll!add_descriptor, Slot
<1>3. /\ clients_length' = 1 /\ added' = {Socket} /\ outcome' = "done"
      /\ removed' = FALSE
  BY <1>1 DEF PollInv, Poll!add_descriptor
<1>4. QED
  BY <1>2, <1>3 DEF PollInv, Poll!Event

LEMMA PollPart == ASSUME ProcessInv, PollInv, Next PROVE PollInv'
<1>1. CASE UNCHANGED pollset /\ (server' = "null" <=> server = "null")
  BY <1>1 DEF pollset, PollInv
<1>2. CASE parse_arguments \/ register_signals \/ open_socket \/ bind_socket
           \/ read_file \/ Run \/ Check \/ Enter \/ Recheck \/ Destroy \/ Exit
  <2>1. CASE Destroy
    BY <1>1, <2>1 DEF Destroy, At, ProcessInv
  <2>2. (UNCHANGED server /\ UNCHANGED pollset) \/ Destroy
    BY <1>2
       DEF parse_arguments, register_signals, open_socket, bind_socket,
           read_file, Run, Check, Enter, Recheck, Exit, Prepared, Failed,
           fatal, LoopStep, process
  <2>3. QED
    BY <1>1, <2>1, <2>2
<1>3. CASE make_server
  <2>1. server = "null" /\ server' = "alive"
    BY <1>3 DEF make_server, At, ProcessInv
  <2>2. QED
    BY <1>3, <2>1, AddKeepsInv DEF make_server
<1>4. ASSUME pc \in Looping, server' = server 
      PROVE  server # "null" /\ server' # "null"
  BY <1>4 DEF ProcessInv
<1>5. CASE PollReturns
  BY <1>4, <1>5, WaitKeepsInv
     DEF PollReturns, LoopStep, At, process, Looping
<1>6. CASE PollFails
  BY <1>4, <1>6, WaitFailsKeepsInv
     DEF PollFails, LoopStep, At, process, Looping
<1>7. CASE Receive \/ Send
  <2>1. server # "null" /\ server' # "null" /\ server' = server
    BY <1>4, <1>7 DEF Receive, Send, LoopStep, At, process, Looping
  <2>2. {"POLLIN"} \in SUBSET Poll!Event /\ "POLLIN" \in Poll!Event
    BY DEF Poll!Event
  <2>3. QED
    BY <1>1, <1>7, <2>1, <2>2, SetEventsKeepsInv DEF Receive, Send
<1>8. CASE Signal
  <2>1. server' = server
    BY <1>8 DEF Signal
  <2>2. CASE UNCHANGED pollset
    BY <1>1, <2>1, <2>2
  <2>3. CASE server = "alive" /\ Poll!wait_fails
    BY <2>1, <2>3, WaitFailsKeepsInv
  <2>4. QED
    BY <1>8, <2>2, <2>3 DEF Signal, Interrupt
<1>9. QED
  BY <1>2, <1>3, <1>5, <1>6, <1>7, <1>8 DEF Next, Step

-----------------------------------------------------------------------------
(* The process *)

LEMMA ProcessPart == ASSUME ProcessInv, Next PROVE ProcessInv'
<1> USE DEF ProcessInv, EndsOnlyWhenAsked, Looping, Started, At, history,
            process
<1>1. ASSUME fatal, pc \in Started \cup {"read"} PROVE ProcessInv'
  BY <1>1 DEF fatal
<1>2. CASE parse_arguments
  BY <1>1, <1>2 DEF parse_arguments
<1>3. CASE register_signals
  BY <1>1, <1>3 DEF register_signals, Prepared, Failed
<1>4. CASE open_socket
  BY <1>1, <1>4 DEF open_socket, Prepared, Failed
<1>5. CASE bind_socket
  BY <1>1, <1>5 DEF bind_socket, Prepared, Failed
<1>6. CASE read_file
  BY <1>1, <1>6 DEF read_file
<1>7. CASE make_server
  BY <1>7 DEF make_server
<1>8. CASE Run
  BY <1>8 DEF Run
<1>9. ASSUME NEW here \in Looping, NEW there \in Looping \cup {"return"},
             there = "return" => stopping, LoopStep(here, there)
      PROVE  ProcessInv'
  BY <1>9 DEF LoopStep
<1>10. CASE Check \/ Enter
  BY <1>9, <1>10 DEF Check, Enter
<1>11. CASE PollReturns \/ PollFails
  BY <1>9, <1>11 DEF PollReturns, PollFails
<1>12. CASE Recheck
  BY <1>9, <1>12 DEF Recheck, Handler
<1>13. CASE Receive \/ Send
  BY <1>9, <1>13 DEF Receive, Send
<1>14. CASE Destroy
  BY <1>14 DEF Destroy
<1>15. CASE Exit
  BY <1>15 DEF Exit
<1>16. CASE Signal
  <2>1. CASE disposition = "default"
    BY <1>16, <2>1 DEF Signal, Die
  <2>2. CASE disposition = "handler" /\ server = "alive"
    BY <1>16, <2>2 DEF Signal, Interrupt
  <2>3. CASE disposition = "handler" /\ server # "alive"
    BY <1>16, <2>3 DEF Signal, Die, main
  <2>4. QED
    BY <2>1, <2>2, <2>3
<1>17. QED
  BY <1>2, <1>3, <1>4, <1>5, <1>6, <1>7, <1>8, <1>10, <1>11, <1>12, <1>13,
     <1>14, <1>15, <1>16 DEF Next, Step

-----------------------------------------------------------------------------
(* The stop *)

LEMMA BegunOne ==
  /\ Append(<<>>, "poll") = <<"poll">>
  /\ Append(<<>>, "send") = <<"send">>
  /\ <<"poll">> # <<>> /\ <<"send">> # <<>> /\ <<"poll">> # <<"send">>
  /\ <<"poll">> \in Seq(Visible) /\ <<"send">> \in Seq(Visible)
BY DEF Visible

(* The steps out of the loop begin nothing; those within it are the ones   *)
(* of the table that StopInv is.                                           *)
LEMMA StopPart == ASSUME StopInv, Next PROVE StopInv'
<1> USE DEF StopInv, StopsAfterThePass
<1>1. ASSUME NEW here, NEW there, At(here, there), stopping' => stopping,
             there \notin Visible \cup {"enter", "recheck"}
      PROVE  StopInv'
  BY <1>1 DEF At, Visible
<1>2. CASE UNCHANGED history /\ UNCHANGED stopping /\ pc' = "exit"
  BY <1>2 DEF history
<1>3. ASSUME fatal PROVE StopInv'
  BY <1>2, <1>3 DEF fatal, process
<1>4. CASE parse_arguments \/ register_signals \/ open_socket \/ bind_socket
  BY <1>1, <1>3, <1>4
     DEF parse_arguments, register_signals, open_socket, bind_socket, Prepared,
         Failed, process, Visible
<1>5. CASE read_file \/ make_server \/ Run
  BY <1>1, <1>3, <1>5 DEF read_file, make_server, Run, process, Visible
<1>6. CASE Check
  <2>1. CASE stopping
    BY <1>1, <1>6, <2>1 DEF Check, LoopStep, process, Visible
  <2>2. CASE ~ stopping
    BY <1>6, <2>2 DEF Check, LoopStep, At, process
  <2>3. QED
    BY <2>1, <2>2
<1>7. CASE Enter
  <2>1. /\ pc = "enter" /\ pc' = "poll" /\ late' = late /\ stopping' = stopping
        /\ begun' = IF stopping THEN Append(begun, "poll") ELSE begun
    BY <1>7 DEF Enter, LoopStep, At, process, Visible
  <2>2. CASE stopping
    BY <2>1, <2>2, BegunOne
  <2>3. QED
    BY <2>1, <2>2
<1>8. CASE PollReturns
  BY <1>8, BegunOne DEF PollReturns, LoopStep, At, process, Visible
<1>9. CASE PollFails
  BY <1>1, <1>9 DEF PollFails, LoopStep, process, Visible
<1>10. CASE Recheck
  <2>1. CASE stopping
    BY <1>1, <1>10, <2>1 DEF Recheck, LoopStep, process, Visible
  <2>2. CASE ~ stopping
    BY <1>10, <2>2 DEF Recheck, LoopStep, At, process
  <2>3. QED
    BY <2>1, <2>2
<1>11. CASE Receive
  <2>1. /\ pc = "receive" /\ late' = late /\ stopping' = stopping
        /\ \/ pc' = "send" /\ begun' = IF stopping THEN Append(begun, "send")
                                       ELSE begun
           \/ pc' = "check" /\ begun' = begun
    BY <1>11 DEF Receive, LoopStep, At, process, Visible
  <2>2. CASE stopping
    BY <2>1, <2>2, BegunOne
  <2>3. QED
    BY <2>1, <2>2
<1>12. CASE Send \/ Destroy
  BY <1>1, <1>12 DEF Send, Destroy, LoopStep, process, Visible
<1>13. CASE Exit
  BY <1>2, <1>13 DEF Exit, process
<1>14. CASE Signal
  <2>1. CASE disposition = "default"
    BY <1>2, <1>14, <2>1 DEF Signal, Die, history
  <2>2. CASE disposition = "handler" /\ server = "alive"
    BY <1>14, <2>2, BegunOne, EmptySeq DEF Signal, Interrupt
  <2>3. CASE disposition = "handler" /\ server # "alive"
    BY <1>14, <2>3 DEF Signal, Die, main
  <2>4. QED
    BY <1>14, <2>1, <2>2, <2>3 DEF Signal
<1>15. QED
  BY <1>4, <1>5, <1>6, <1>7, <1>8, <1>9, <1>10, <1>11, <1>12, <1>13, <1>14
     DEF Next, Step

-----------------------------------------------------------------------------
(* The file *)

(* c_str ends at the first NUL. *)
LEMMA FirstNul ==
  ASSUME NEW data \in Seq(Byte), NEW k \in 1 .. Len(data), data[k] = NUL,
         \A j \in 1 .. k - 1 : data[j] # NUL
  PROVE  File!c_str(data) = SubSeq(data, 1, k - 1)
<1> DEFINE I == {i \in 1 .. Len(data) : data[i] = NUL}
<1>1. NUL \in File!ToSet(data)
  BY DEF File!ToSet
<1>2. File!SelectInSeq(data, LAMBDA char : char = NUL) = File!Min(I)
  BY DEF File!SelectInSeq
<1>3. File!Min(I) = k
  BY DEF File!Min
<1>4. QED
  BY <1>1, <1>2, <1>3 DEF File!c_str

LEMMA CStrHasNoNul ==
  ASSUME NEW data \in Seq(Byte)
  PROVE  File!c_str(data) \in Seq(Byte \ {NUL})
<1> DEFINE I == {i \in 1 .. Len(data) : data[i] = NUL}
<1>1. CASE I = {}
  <2>1. NUL \notin File!ToSet(data)
    BY <1>1 DEF File!ToSet
  <2>2. QED
    BY <1>1, <2>1 DEF File!c_str
<1>2. CASE I # {}
  <2>1. I \in SUBSET Nat
    OBVIOUS
  <2>2. PICK k \in I : \A j \in I : k <= j
    BY <1>2, <2>1, Least
  <2>3. /\ k \in 1 .. Len(data) /\ data[k] = NUL
        /\ \A j \in 1 .. k - 1 : data[j] # NUL
    BY <2>2
  <2>4. File!c_str(data) = SubSeq(data, 1, k - 1)
    BY <2>3, FirstNul
  <2>5. QED
    BY <2>3, <2>4
<1>3. QED
  BY <1>1, <1>2

(* What read() put into the buffer is what is appended. *)
LEMMA CStrOfPiece ==
  ASSUME NEW piece \in Seq(Byte \ {NUL}), NEW rest \in Seq(Byte)
  PROVE  File!c_str(piece \o <<NUL>> \o rest) = piece
<1> DEFINE data == piece \o <<NUL>> \o rest
<1>1. data \in Seq(Byte) /\ Len(piece) + 1 \in 1 .. Len(data)
  BY LifecycleAssumption
<1>2. data[Len(piece) + 1] = NUL /\ \A j \in 1 .. Len(piece) : data[j] # NUL
  OBVIOUS
<1>3. File!c_str(data) = SubSeq(data, 1, Len(piece))
  <2> DEFINE k == Len(piece) + 1
  <2>1. k \in 1 .. Len(data) /\ k - 1 = Len(piece)
    BY <1>1
  <2> HIDE DEF data, k
  <2>2. data[k] = NUL /\ \A j \in 1 .. k - 1 : data[j] # NUL
    BY <1>2, <2>1 DEF k
  <2>3. File!c_str(data) = SubSeq(data, 1, k - 1)
    BY <1>1, <2>1, <2>2, FirstNul
  <2>4. QED
    BY <2>1, <2>3
<1>4. SubSeq(data, 1, Len(piece)) = piece
  <2>1. /\ piece \in Seq(Byte) /\ SubSeq(data, 1, Len(piece)) \in Seq(Byte)
        /\ Len(SubSeq(data, 1, Len(piece))) = Len(piece)
    BY <1>1
  <2>2. \A i \in 1 .. Len(piece) : SubSeq(data, 1, Len(piece))[i] = piece[i]
    BY <1>1
  <2>3. QED
    BY <2>1, <2>2, SeqEqual
<1>5. QED
  BY <1>3, <1>4

(* The content is complete when the constructor goes on. *)
LEMMA FileUnchanged ==
  ASSUME FileInv, UNCHANGED fileset,
         pc' = "build" \/ server' # "null" => pc = "build" \/ server # "null",
         pc \in {"read", "exit"} /\ file = "open" => pc' \in {"read", "exit"}
  PROVE  FileInv'
BY DEF FileInv, fileset, Whole

LEMMA FileOpened ==
  ASSUME FileInv, File!File, server' = "null", pc' = "read"
  PROVE  FileInv'
<1>1. disk \in Seq(Byte)
  BY LifecycleAssumption DEF FileInv
<1>2. buffer' \in Seq(Byte) /\ Len(buffer') = buffer_length
  BY LifecycleAssumption DEF File!File
<1>3. content' = SubSeq(disk, 1, 0) /\ content' = <<>>
  BY <1>1, SubSeqEmpty DEF File!File
<1>4. QED
  BY <1>1, <1>2, <1>3 DEF FileInv, File!File

LEMMA FileRead ==
  ASSUME FileInv, NEW n \in 1 .. buffer_length - 1, File!Read(n),
         server' = "null", pc' = "read"
  PROVE  FileInv'
<1> DEFINE piece == SubSeq(disk, offset + 1, offset + n)
           rest == SubSeq(buffer, n + 2, buffer_length)
<1>1. /\ disk \in Seq(Byte) /\ disk' = disk /\ buffer_length \in Nat
      /\ offset \in 0 .. Len(disk) /\ offset' = offset + n
      /\ offset + n \in 0 .. Len(disk)
      /\ buffer \in Seq(Byte) /\ Len(buffer) = buffer_length
  BY LifecycleAssumption DEF FileInv, File!Read
<1>2. piece \in Seq(Byte) /\ Len(piece) = n
  BY <1>1, SubSeqProperties
<1>3. rest \in Seq(Byte) /\ Len(rest) = buffer_length - n - 1
  BY <1>1, SubSeqProperties
<1>4. buffer' = piece \o <<NUL>> \o rest
  BY <1>2 DEF File!Read, File!Filled
<1> HIDE DEF piece, rest
<1>5. buffer' \in Seq(Byte) /\ Len(buffer') = buffer_length
  <2>1. <<NUL>> \in Seq(Byte) /\ Len(<<NUL>>) = 1
    BY LifecycleAssumption
  <2>2. piece \o <<NUL>> \in Seq(Byte) /\ Len(piece \o <<NUL>>) = n + 1
    BY <1>2, <2>1, ConcatProperties
  <2> DEFINE start == piece \o <<NUL>>
  <2> HIDE DEF start
  <2>3. start \in Seq(Byte) /\ Len(start) = n + 1
    BY <2>2 DEF start
  <2>4. /\ start \o rest \in Seq(Byte)
        /\ Len(start \o rest) = Len(start) + Len(rest)
    BY <1>3, <2>3, ConcatProperties
  <2>5. n \in Nat /\ buffer_length \in Nat
    BY <1>1
  <2>6. Len(start) + Len(rest) = buffer_length
    BY <1>3, <2>3, <2>5
  <2>7. QED
    BY <1>4, <2>4, <2>6 DEF start
<1>6. content' = content \o File!c_str(buffer')
  BY DEF File!Read
<1>7. content' \in Seq(Byte \ {NUL})
  BY <1>5, <1>6, CStrHasNoNul DEF FileInv
<1>8. NUL \notin ToSet(disk) => content' = SubSeq(disk, 1, offset + n)
  <2> SUFFICES ASSUME NUL \notin ToSet(disk)
               PROVE  content' = SubSeq(disk, 1, offset + n)
    OBVIOUS
  <2>1. disk \in Seq(Byte \ {NUL})
    BY <1>1 DEF ToSet
  <2>2. piece \in Seq(Byte \ {NUL})
    BY <1>1, <2>1, SubSeqProperties DEF piece
  <2>3. content' = content \o piece
    BY <1>3, <1>4, <1>6, <2>2, CStrOfPiece
  <2>4. content = SubSeq(disk, 1, offset)
    BY DEF FileInv, File!Read
  <2>5. QED
    BY <1>1, <2>3, <2>4, ConcatAdjacentSubSeq DEF piece
<1>9. QED
  BY <1>1, <1>5, <1>7, <1>8 DEF FileInv, File!Read

LEMMA FileReadEnd ==
  ASSUME FileInv, File!ReadEnd, server' = "null"
  PROVE  FileInv'
<1> DEFINE rest == SubSeq(buffer, 2, buffer_length)
<1>1. /\ disk \in Seq(Byte) /\ disk' = disk /\ offset = Len(disk)
      /\ buffer \in Seq(Byte) /\ Len(buffer) = buffer_length
      /\ content \in Seq(Byte \ {NUL}) /\ file' = "closed" /\ offset' = 0
  BY LifecycleAssumption DEF FileInv, File!ReadEnd, File!Close
<1>2. rest \in Seq(Byte)
  BY <1>1, LifecycleAssumption, SubSeqProperties
<1>3. File!Filled(<<>>) = <<>> \o <<NUL>> \o rest
  <2>1. Len(<<>>) + 2 = 2
    OBVIOUS
  <2>2. QED
    BY <2>1, Zenon DEF File!Filled
<1> HIDE DEF rest
<1>4. File!c_str(<<>> \o <<NUL>> \o rest) = <<>>
  <2>1. <<>> \in Seq(Byte \ {NUL})
    BY EmptySeq
  <2>2. QED
    BY <1>2, <2>1, CStrOfPiece, Zenon
<1>5. content' = content
  <2>1. content' = content \o <<>>
    BY <1>3, <1>4, Zenon DEF File!ReadEnd
  <2>2. QED
    BY <1>1, <2>1, ConcatEmptySeq
<1>6. Whole'
  BY <1>1, <1>5, SubSeqFull DEF FileInv, File!ReadEnd, File!Close, Whole, ToSet
<1>7. QED
  BY <1>1, <1>5, <1>6 DEF FileInv

LEMMA FilePart == ASSUME ProcessInv, FileInv, Next PROVE FileInv'
<1>1. CASE read_file
  <2>1. server = "null" /\ pc = "read"
    BY <1>1 DEF read_file, ProcessInv
  <2>2. ASSUME UNCHANGED server, pc' = "read" PROVE server' = "null"
    BY <2>1, <2>2
  <2>3. CASE File!File /\ At("read", "read") /\ UNCHANGED process
    BY <2>1, <2>3, FileOpened DEF At, process
  <2>4. ASSUME NEW n \in 1 .. buffer_length - 1, File!Read(n),
               At("read", "read"), UNCHANGED process
        PROVE  FileInv'
    BY <2>1, <2>4, FileRead DEF At, process
  <2>5. CASE File!ReadEnd /\ UNCHANGED process
    BY <2>1, <2>5, FileReadEnd DEF process
  <2>6. CASE file = "closed" /\ fatal /\ UNCHANGED fileset
    BY <2>1, <2>6, FileUnchanged DEF fatal, process
  <2>7. CASE File!ReadFails /\ fatal
    <3>1. /\ UNCHANGED <<disk, content>> /\ file' = "closed" /\ offset' = 0
          /\ server' = "null" /\ pc' = "exit"
      BY <2>1, <2>7 DEF File!ReadFails, File!Close, fatal, process
    <3>2. Len(disk) \in Nat
      BY LifecycleAssumption DEF FileInv
    <3>3. QED
      BY <3>1, <3>2 DEF FileInv
  <2>8. QED
    BY <1>1, <2>3, <2>4, <2>5, <2>6, <2>7 DEF read_file
<1>2. CASE ~ read_file
  <2>1. UNCHANGED fileset
    BY <1>2 DEF Next, Step, parse_arguments, register_signals, open_socket,
       bind_socket, make_server, Run, Check, Enter, Recheck, Receive, Send,
       Destroy, Exit, PollReturns, PollFails, Signal, Prepared, Failed,
       LoopStep
  <2>2. pc' = "build" \/ server' # "null" => pc = "build" \/ server # "null"
    BY <1>2 DEF Next, Step, parse_arguments, register_signals, open_socket,
       bind_socket, make_server, Run, Check, Enter, Recheck, Receive, Send,
       Destroy, Exit, PollReturns, PollFails, Signal, Prepared, Failed,
       LoopStep, At, fatal, process, ProcessInv, Looping, Die, Interrupt, main
  <2>3. pc \in {"read", "exit"} => pc' \in {"read", "exit"}
    BY <1>2 DEF Next, Step, parse_arguments, register_signals, open_socket,
       bind_socket, make_server, Run, Check, Enter, Recheck, Receive, Send,
       Destroy, Exit, PollReturns, PollFails, Signal, Prepared, Failed,
       LoopStep, At, fatal, Die, Interrupt, main
  <2>4. QED
    BY <2>1, <2>2, <2>3, FileUnchanged
<1>3. QED
  BY <1>1, <1>2

-----------------------------------------------------------------------------
(* The whole *)

LEMMA PortIsInRange ==
  ASSUME NEW string, parse_port(string) # Bad
  PROVE  parse_port(string) \in 0 .. PortSize - 1
<1>1. /\ Proper(string)
      /\ Magnitude(string) < PortSize
      /\ parse_port(string) = Magnitude(string)
  BY ParsePortIsExact
<1>2. Magnitude(string) \in Nat
  BY <1>1, NumeralOfMagnitude
<1> QED
  BY <1>1, <1>2, ParseAssumption

LEMMA InputPart == ASSUME ProcessInv, InputInv, Next PROVE InputInv'
<1>1. CASE parse_arguments
  BY <1>1, PortIsInRange
     DEF parse_arguments, At, history, fatal, InputInv
<1>2. CASE Signal
  BY <1>2, LifecycleAssumption DEF Signal, given, InputInv
<1>3. CASE UNCHANGED given /\ UNCHANGED signals
  BY <1>3 DEF given, InputInv
<1>4. CASE ~ parse_arguments /\ ~ Signal
  <2>1. UNCHANGED given /\ UNCHANGED signals
    BY <1>4 DEF Next, Step, register_signals, open_socket, bind_socket,
       read_file, make_server, Run, Check, Enter, Recheck, Receive, Send,
       Destroy, Exit, PollReturns, PollFails, Prepared, Failed, LoopStep, At,
       fatal, history
  <2>2. QED
    BY <1>3, <2>1
<1>5. QED
  BY <1>1, <1>2, <1>4

LEMMA InitInv == ASSUME Init PROVE IInv
<1>1. ProcessInv
  BY DEF Init, ProcessInv, EndsOnlyWhenAsked, Started, Looping
<1>2. InputInv
  BY LifecycleAssumption, ParseAssumption DEF Init, InputInv
<1>3. FileInv
  <2>1. disk \in Seq(Byte) /\ <<>> \in Seq(Byte \ {NUL})
    BY LifecycleAssumption, EmptySeq DEF Init
  <2>2. QED
    BY <2>1 DEF Init, FileInv
<1>4. PollInv
  BY OneSlot DEF Init, Poll!Init, PollInv
<1>5. StopInv
  BY EmptySeq DEF Init, StopInv, StopsAfterThePass
<1>6. QED
  BY <1>1, <1>2, <1>3, <1>4, <1>5 DEF IInv

LEMMA NextKeepsInv == ASSUME IInv, [Next]_vars PROVE IInv'
<1>1. CASE UNCHANGED vars
  <2>1. ProcessInv' /\ InputInv'
    BY <1>1 DEF IInv, ProcessInv, InputInv, EndsOnlyWhenAsked, vars, main,
       given, process, history
  <2>2. FileInv'
    BY <1>1 DEF IInv, FileInv, Whole, vars, main, process, fileset
  <2>3. PollInv'
    BY <1>1 DEF IInv, PollInv, vars, process, pollset
  <2>4. StopInv'
    BY <1>1 DEF IInv, StopInv, StopsAfterThePass, vars, main, process, history
  <2>5. QED
    BY <2>1, <2>2, <2>3, <2>4 DEF IInv
<1>2. CASE Next
  BY <1>2, ProcessPart, InputPart, FilePart, PollPart, StopPart DEF IInv
<1>3. QED
  BY <1>1, <1>2

(* The pointer, the socket, the file, the poll set and the place of the    *)
(* main thread fit: the loop only ever runs on a whole server.             *)
THEOREM LifecycleTypeOK == Spec => []TypeOK
<1>1. IInv => TypeOK
  <2>1. IInv => Poll!TypeOK
    BY PollInvGivesTypeOK DEF IInv
  <2>2. QED
    BY <2>1 DEF IInv, ProcessInv, InputInv, FileInv, StopInv, TypeOK, Started
<1>2. QED
  BY <1>1, InitInv, NextKeepsInv, PTL DEF Spec

(* The arguments that the server runs with, in the words of ParsesPorts.   *)
ProperPort(args) ==
  LET string == Head(args)
  IN  /\ Len(args) = 2
      /\ string # <<>> /\ ToSet(string) \subseteq Digit /\ Head(string) # 0
      /\ Magnitude(string) < PortSize

(* parse_port takes these, and no others.                                  *)
LEMMA PortOfArguments ==
  ASSUME NEW args \in Arguments
  PROVE  /\ (IF Len(args) = 2 THEN parse_port(args[1]) ELSE Bad) =
               IF ProperPort(args) THEN Magnitude(Head(args)) ELSE Bad
         /\ ProperPort(args) => Magnitude(Head(args)) # Bad
<1>1. CASE Len(args) # 2
  BY <1>1 DEF ProperPort
<1>2. CASE Len(args) = 2
  <2> DEFINE string == args[1]
  <2>1. args \in Seq(ToSet(args)) /\ string \in ToSet(args)
    <3>1. args \in Seq(ToSet(args)) /\ 1 \in DOMAIN args
      BY <1>2, LifecycleAssumption
    <3> QED
      BY <3>1 DEF ToSet
  <2>2. string \in Seq(ToSet(string))
    BY <2>1, LifecycleAssumption
  <2>3. Head(args) = string
    BY <1>2, <2>1, HeadTailProperties
  <2> HIDE DEF string
  <2>4. string # <<>> /\ ToSet(string) \subseteq Digit /\ Head(string) # 0
          <=> Proper(string) /\ Head(string) # 0
    <3>1. ToSet(string) \subseteq Digit => string \in Seq(Digit)
      BY <2>2, SeqMonotonic
    <3>2. string \in Seq(Digit) => ToSet(string) \subseteq Digit
      BY ElementOfSeq, LenProperties DEF ToSet
    <3> QED
      BY <3>1, <3>2 DEF Proper
  <2>5. ProperPort(args) <=> /\ Proper(string) /\ Head(string) # 0
                             /\ Magnitude(string) < PortSize
    BY <1>2, <2>3, <2>4 DEF ProperPort
  <2>6. parse_port(string) =
          IF ProperPort(args) THEN Magnitude(string) ELSE Bad
    BY <2>5, ParsePortIsExact
  <2>7. ProperPort(args) => Magnitude(string) # Bad
    BY <2>5, NumeralOfMagnitude, ParseAssumption
  <2> QED
    BY <1>2, <2>3, <2>6, <2>7 DEF string
<1> QED
  BY <1>1, <1>2

(* Until the arguments are parsed there is no port, and SIGINT kills.      *)
ArgumentsInv ==
  /\ pc = "parse" => port = 0 /\ disposition = "default"
  /\ pc # "parse" /\ status # "SIGINT" =>
       /\ port = IF ProperPort(arguments)
                 THEN Magnitude(Head(arguments)) ELSE 0
       /\ ~ ProperPort(arguments) => status = "ERROR_ARGS"

LEMMA ArgumentsPart ==
  ASSUME IInv, ArgumentsInv, [Next]_vars
  PROVE  ArgumentsInv'
<1>0. status = "running" <=> pc # "exit"
  BY DEF IInv, ProcessInv
<1>1. CASE UNCHANGED vars
  BY <1>1 DEF ArgumentsInv, vars, main, given, process
<1>2. CASE parse_arguments
  <2>1. arguments \in Arguments
    BY DEF IInv, InputInv
  <2> DEFINE parsed ==
        IF Len(arguments) = 2 THEN parse_port(arguments[1]) ELSE Bad
  <2>2. parsed = IF ProperPort(arguments)
                 THEN Magnitude(Head(arguments)) ELSE Bad
    BY <2>1, PortOfArguments
  <2>3. pc = "parse" /\ arguments' = arguments
    BY <1>2 DEF parse_arguments
  <2>4. \/ parsed # Bad /\ port' = parsed /\ pc' = "register"
        \/ /\ parsed = Bad /\ port' = port
           /\ pc' = "exit" /\ status' = "ERROR_ARGS"
    BY <1>2 DEF parse_arguments, At, fatal
  <2>5. ProperPort(arguments)' <=> ProperPort(arguments)
    BY <2>3 DEF ProperPort
  <2> HIDE DEF parsed
  <2>6. Magnitude(Head(arguments))' = Magnitude(Head(arguments))
    BY <2>3
  <2>7. ProperPort(arguments) => parsed # Bad
    BY <2>1, <2>2, PortOfArguments
  <2> QED
    BY <2>2, <2>3, <2>4, <2>5, <2>6, <2>7 DEF ArgumentsInv
<1>3. CASE Signal
  <2>1. /\ pc # "exit" /\ UNCHANGED <<disposition, port, arguments>>
        /\ disposition = "default" => status' = "SIGINT" /\ pc' = "exit"
        /\ pc' = "parse" => pc = "parse"
    BY <1>3 DEF Signal, given, Die, Interrupt, main
  <2>2. pc # "parse" => status # "SIGINT" /\ status # "ERROR_ARGS"
    BY <1>0, <2>1
  <2> QED
    BY <2>1, <2>2 DEF ArgumentsInv
<1>4. CASE Next /\ ~ parse_arguments /\ ~ Signal
  <2>1. /\ pc \notin {"parse", "exit"} /\ pc' # "parse"
        /\ UNCHANGED <<port, arguments>>
    BY <1>4 DEF Next, Step, register_signals, open_socket, bind_socket,
       read_file, make_server, Run, Check, Enter, Recheck, Receive, Send,
       Destroy, Exit, PollReturns, PollFails, Prepared, Failed, LoopStep, At,
       Handler, fatal, given
  <2> QED
    BY <1>0, <2>1 DEF ArgumentsInv
<1> QED
  BY <1>1, <1>2, <1>3, <1>4

(* parse.h:27-28: the server runs on the port whose digits it was started  *)
(* with; with any other arguments it exits before it has a socket, unless  *)
(* SIGINT was first.                                                       *)
THEOREM LifecycleParsesPorts == Spec => []ParsesPorts
<1>1. Init => ArgumentsInv
  BY DEF Init, ArgumentsInv
<1>2. ArgumentsInv => ParsesPorts
  BY DEF ArgumentsInv, ParsesPorts, ProperPort
<1>3. QED
  BY <1>1, <1>2, InitInv, NextKeepsInv, ArgumentsPart, PTL DEF Spec

(* The process ends with status 0 only after stop() was called.            *)
THEOREM LifecycleEndsOnlyWhenAsked == Spec => []EndsOnlyWhenAsked
<1>1. IInv => EndsOnlyWhenAsked
  BY DEF IInv, ProcessInv
<1>2. QED
  BY <1>1, InitInv, NextKeepsInv, PTL DEF Spec

(* Whatever pieces read() returns, and whatever is in the buffer before    *)
(* the first, the server has the whole file.                               *)
THEOREM LifecycleServesTheWholeFile == Spec => []ServesTheWholeFile
<1>1. IInv => ServesTheWholeFile
  <2>1. ASSUME content \in Seq(Byte \ {NUL}) PROVE NUL \notin ToSet(content)
    BY <2>1 DEF ToSet
  <2>2. QED
    BY <2>1 DEF IInv, FileInv, Whole, ServesTheWholeFile
<1>2. QED
  BY <1>1, InitInv, NextKeepsInv, PTL DEF Spec

(* In the loop the socket is in the poll set and waits for POLLIN.         *)
THEOREM LifecycleNeverDeaf == Spec => []NeverDeaf
<1>1. IInv => NeverDeaf
  <2>1. ASSUME IInv, pc \in Looping
        PROVE  /\ clients[0].fd = Socket /\ "POLLIN" \in clients[0].events
               /\ clients_length = 1 /\ outcome # "out_of_range"
    BY <2>1 DEF IInv, ProcessInv, PollInv, Slot
  <2>2. QED
    BY <2>1, OneSlot DEF NeverDeaf
<1>2. QED
  BY <1>1, InitInv, NextKeepsInv, PTL DEF Spec

(* At most the send of its pass, or the one poll that a late stop() does   *)
(* not prevent, begins after a stop(); nothing follows that poll.          *)
THEOREM LifecycleStopsAfterThePass == Spec => []StopsAfterThePass
<1>1. IInv => StopsAfterThePass
  BY DEF IInv, StopInv
<1>2. QED
  BY <1>1, InitInv, NextKeepsInv, PTL DEF Spec
=============================================================================

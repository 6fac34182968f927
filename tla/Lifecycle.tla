------------------------------ MODULE Lifecycle ------------------------------
(***************************************************************************)
(* The life of the server process: main() of server.cc with the arguments  *)
(* (Parse), the construction of the Server, which reads a file (File) and  *)
(* makes a poll set (Poll), the loop with its calls of poll, and SIGINT,   *)
(* whose handler calls stop() between any two steps of the main thread.    *)
(*                                                                         *)
(* What receive() and send() do is in Server; here they are one step each. *)
(* "enter" is the time between the test of `stopping' and the moment poll  *)
(* sleeps.  A signal that comes while it sleeps makes it fail with EINTR;  *)
(* one that comes in "enter" does not.                                     *)
(***************************************************************************)
EXTENDS Parse

CONSTANTS Arguments,     (* what the program may be started with, without  *)
                         (* its name: sequences of strings                 *)
          Disk,          (* the contents the file may have                 *)
          Byte, NUL, buffer_length,
          Socket, NoDescriptor,
          MaxSignals     (* bound of the signals                           *)

ASSUME LifecycleAssumption ==
  /\ \A args \in Arguments :
       /\ args \in Seq(ToSet(args))
       /\ \A string \in ToSet(args) : string \in Seq(ToSet(string))
  /\ MaxSignals \in Nat
  /\ NUL \in Byte
  /\ Disk \subseteq Seq(Byte)
  /\ buffer_length \in Nat \ {0}
  /\ Socket # NoDescriptor

VARIABLES
  pc,           (* where the main thread is                                *)
  arguments,    (* argv, without the name of the program                   *)
  port,         (* the global variable, 0 until it is parsed               *)
  disposition,  (* of SIGINT: "default" or "handler"                       *)
  server,       (* the global pointer: "null", "alive", or "deleted"       *)
  sock,         (* "closed" or "open"                                      *)
  stopping,
  status,       (* "running", an exit code, or the signal it died of       *)
  signals,      (* the number of signals so far                            *)
  asked,        (* history: stop() was called                              *)
  late,         (* history: the last stop() came in "enter"                *)
  begun         (* history: what the thread has begun since the last stop()*)

VARIABLES disk, file, offset, buffer, content  (* of File; content becomes *)
                                               (* the file_content         *)

VARIABLES clients, clients_length, outcome, added, removed  (* of Poll     *)

File == INSTANCE File

Poll == INSTANCE Poll WITH Descriptor <- {Socket}, max_clients <- 1

main    == <<pc, status>>
given   == <<arguments, port>>
process == <<disposition, server, sock, stopping>>
history == <<signals, asked, late, begun>>
fileset == <<disk, file, offset, buffer, content>>
pollset == <<clients, clients_length, outcome, added, removed>>

vars == <<main, given, process, history, fileset, pollset>>

Init ==
  /\ pc = "parse"
  /\ arguments \in Arguments
  /\ port = 0
  /\ disposition = "default"
  /\ server = "null"
  /\ sock = "closed"
  /\ stopping = FALSE
  /\ status = "running"
  /\ signals = 0
  /\ asked = FALSE
  /\ late = FALSE
  /\ begun = <<>>
  /\ disk \in Disk
  /\ file = "closed"
  /\ offset = 0
  /\ buffer = <<>>
  /\ content = <<>>
  /\ Poll!Init

(* What may wait for the network, change the buffer or send. *)
Visible == {"poll", "receive", "send"}

(* The main thread goes from here to there and the process goes on. *)
At(here, there) ==
  /\ pc = here
  /\ pc' = there
  /\ begun' = IF stopping /\ there \in Visible THEN Append(begun, there)
              ELSE begun
  /\ UNCHANGED <<status, signals, asked, late>>

fatal ==
  /\ pc' = "exit"
  /\ status' = "ERROR_ARGS"
  /\ UNCHANGED process
  /\ UNCHANGED history
  /\ UNCHANGED pollset

-----------------------------------------------------------------------------

parse_arguments ==
  /\ pc = "parse"
  /\ LET parsed == IF Len(arguments) = 2 THEN parse_port(arguments[1]) ELSE Bad
     IN  \/ /\ parsed # Bad
            /\ port' = parsed
            /\ At("parse", "register")
            /\ UNCHANGED process
            /\ UNCHANGED pollset
         \/ parsed = Bad /\ fatal /\ UNCHANGED port
  /\ UNCHANGED arguments
  /\ UNCHANGED fileset

(* A step of main, or of the constructor, that does not touch the file; or *)
(* it fails.                                                               *)
Prepared(here, there) ==
  /\ At(here, there)
  /\ UNCHANGED <<server, stopping>>
  /\ UNCHANGED given
  /\ UNCHANGED fileset
  /\ UNCHANGED pollset

Failed(here) ==
  /\ pc = here
  /\ fatal
  /\ UNCHANGED given
  /\ UNCHANGED fileset

register_signals ==
  \/ /\ Prepared("register", "open")
     /\ disposition' = "handler"
     /\ UNCHANGED sock
  \/ Failed("register")

(* The constructor of Server throws when a part of it fails, and main      *)
(* calls fatal; the destructor does not run and the socket stays open.     *)
open_socket ==
  \/ /\ Prepared("open", "bind")
     /\ sock' = "open"
     /\ UNCHANGED disposition
  \/ Failed("open")

bind_socket ==
  \/ Prepared("bind", "read") /\ UNCHANGED <<disposition, sock>>
  \/ Failed("bind")

(* A file that cannot be opened or read is fatal; its destructor runs. *)
read_file ==
  /\ pc = "read"
  /\ \/ /\ At("read", "read")
        /\ File!File \/ \E n \in 1 .. buffer_length - 1 : File!Read(n)
        /\ UNCHANGED process
        /\ UNCHANGED pollset
     \/ /\ At("read", "build")
        /\ File!ReadEnd
        /\ UNCHANGED process
        /\ UNCHANGED pollset
     \/ file = "closed" /\ fatal /\ UNCHANGED fileset
     \/ File!ReadFails /\ fatal
  /\ UNCHANGED given

(* Bug for the checks: the socket waits for POLLOUT only. *)
make_server_deaf ==
  /\ At("build", "run") /\ server' = "alive" /\ stopping' = FALSE
  /\ Poll!add_descriptor(Socket, {"POLLOUT"})
  /\ UNCHANGED <<disposition, sock>>
  /\ UNCHANGED given /\ UNCHANGED fileset

(* The members are built and the pointer is set. *)
make_server ==
  /\ At("build", "run")
  /\ server' = "alive"
  /\ stopping' = FALSE
  /\ Poll!add_descriptor(Socket, Poll!Event)
  /\ UNCHANGED <<disposition, sock>>
  /\ UNCHANGED given
  /\ UNCHANGED fileset

-----------------------------------------------------------------------------

(* run() starts. *)
Run ==
  /\ At("run", "check")
  /\ stopping' = FALSE
  /\ UNCHANGED <<disposition, server, sock>>
  /\ UNCHANGED given
  /\ UNCHANGED fileset
  /\ UNCHANGED pollset

(* A step of the loop, which may change the poll set. *)
LoopStep(here, there) ==
  /\ At(here, there)
  /\ UNCHANGED process
  /\ UNCHANGED given
  /\ UNCHANGED fileset

Check ==
  /\ LoopStep("check", IF stopping THEN "return" ELSE "enter")
  /\ UNCHANGED pollset

Enter == LoopStep("enter", "poll") /\ UNCHANGED pollset

(* poll sleeps without a timeout: it never returns without an event. *)
PollReturns ==
  /\ LoopStep("poll", "recheck")
  /\ \E reported \in SUBSET (Poll!Polled \X Poll!Event) : Poll!wait(reported)
  /\ outcome' = "done"

(* Bug for the checks: the loop ends when poll fails. *)
PollFails_ends == LoopStep("poll", "return") /\ Poll!wait_fails

(* poll fails for another reason than a signal. *)
PollFails == LoopStep("poll", "check") /\ Poll!wait_fails

(* What poll reported of the socket. *)
revents == UNION {clients[i].revents : i \in {j \in Poll!Slots :
                                                Poll!get_index(Socket, j)}}

Handler == IF "POLLIN" \in revents THEN "receive" ELSE "send"

(* Bug for the checks: stopping is not tested after poll. *)
Recheck_not == LoopStep("recheck", Handler) /\ UNCHANGED pollset

Recheck ==
  /\ LoopStep("recheck", IF stopping THEN "return" ELSE Handler)
  /\ UNCHANGED pollset

(* A valid message arms POLLOUT. *)
Receive ==
  /\ LoopStep("receive", IF "POLLOUT" \in revents THEN "send" ELSE "check")
  /\ Poll!set_events(Socket, Poll!Event) \/ UNCHANGED pollset

(* POLLOUT is disarmed when there is nothing to send. *)
Send ==
  /\ LoopStep("send", "check")
  /\ Poll!set_events(Socket, {"POLLIN"}) \/ UNCHANGED pollset

-----------------------------------------------------------------------------

(* Bug for the checks: the destructor does not close the socket. *)
Destroy_leaks ==
  /\ At("return", "exiting") /\ server' = "deleted"
  /\ UNCHANGED <<disposition, sock, stopping>>
  /\ UNCHANGED given /\ UNCHANGED fileset /\ UNCHANGED pollset

(* main has returned and the destructor of the global pointer runs. *)
Destroy ==
  /\ At("return", "exiting")
  /\ server' = "deleted"
  /\ sock' = "closed"
  /\ UNCHANGED <<disposition, stopping>>
  /\ UNCHANGED given
  /\ UNCHANGED fileset
  /\ UNCHANGED pollset

Exit ==
  /\ pc = "exiting"
  /\ pc' = "exit"
  /\ status' = "OK"
  /\ UNCHANGED process
  /\ UNCHANGED given
  /\ UNCHANGED history
  /\ UNCHANGED fileset
  /\ UNCHANGED pollset

Die(signal) == pc' = "exit" /\ status' = signal

(* Bug for the checks: an interrupted poll is called again. *)
Interrupt_retries == UNCHANGED pc /\ UNCHANGED pollset

(* poll fails with EINTR and the loop goes on with its test. *)
Interrupt ==
  \/ pc = "poll" /\ pc' = "check" /\ Poll!wait_fails
  \/ pc # "poll" /\ UNCHANGED pc /\ UNCHANGED pollset

(* The handler calls stop() through the pointer.  Through a null pointer   *)
(* that is a write to address 0, through a deleted one a write to freed    *)
(* memory, which may go unnoticed.                                         *)
Signal ==
  /\ pc # "exit"
  /\ signals < MaxSignals
  /\ signals' = signals + 1
  /\ \/ /\ disposition = "default"
        /\ Die("SIGINT")
        /\ UNCHANGED <<stopping, asked, late, begun>>
        /\ UNCHANGED pollset
     \/ /\ disposition = "handler"
        /\ server = "alive"
        /\ stopping' = TRUE
        /\ asked' = TRUE
        /\ late' = (pc = "enter")
        /\ begun' = <<>>
        /\ Interrupt
        /\ UNCHANGED status
     \/ /\ disposition = "handler"
        /\ server # "alive"
        /\ \/ Die("SIGSEGV")
           \/ server = "deleted" /\ UNCHANGED main
        /\ UNCHANGED <<stopping, asked, late, begun>>
        /\ UNCHANGED pollset
  /\ UNCHANGED <<disposition, server, sock>>
  /\ UNCHANGED given
  /\ UNCHANGED fileset

(* What the main thread does by itself. *)
Step ==
  \/ parse_arguments
  \/ register_signals
  \/ open_socket
  \/ bind_socket
  \/ read_file
  \/ make_server
  \/ Run
  \/ Check
  \/ Enter
  \/ Recheck
  \/ Receive
  \/ Send
  \/ Destroy
  \/ Exit

Next == Step \/ PollReturns \/ PollFails \/ Signal

Spec == Init /\ [][Next]_vars

(* The main thread is scheduled; nothing makes poll return. *)
FairSpec == Spec /\ WF_vars(Step)

-----------------------------------------------------------------------------

Looping == {"check", "enter", "poll", "recheck", "receive", "send"}

(* Every variable keeps its type, and the loop runs on a whole server.     *)
TypeOK ==
  /\ pc \in {"parse", "register", "open", "bind", "read", "build", "run",
             "return", "exiting", "exit"} \cup Looping
  /\ arguments \in Arguments
  /\ port \in 0 .. PortSize - 1
  /\ disposition \in {"default", "handler"}
  /\ server \in {"null", "alive", "deleted"}
  /\ sock \in {"closed", "open"}
  /\ stopping \in BOOLEAN
  /\ status \in {"running", "OK", "ERROR_ARGS", "SIGINT", "SIGSEGV"}
  /\ signals \in 0 .. MaxSignals
  /\ asked \in BOOLEAN
  /\ late \in BOOLEAN
  /\ begun \in Seq(Visible)
  /\ disk \in Disk
  /\ file \in {"closed", "open"}
  /\ offset \in 0 .. Len(disk)
  /\ Poll!TypeOK
  /\ stopping => asked
  /\ status = "running" <=> pc # "exit"
  /\ pc \in Looping => server = "alive" /\ sock = "open"
  /\ server = "deleted" => sock = "closed"
  /\ file = "open" => pc \in {"read", "exit"}

(* parse.h:27-28: the server runs on a port only if it was started with    *)
(* the digits of that port, between 1 and 65535, and a file name: no sign, *)
(* no zero in front, nothing that wraps around.                            *)
ParsesPorts ==
  LET string == Head(arguments)
      proper ==
        /\ Len(arguments) = 2
        /\ string # <<>> /\ ToSet(string) \subseteq Digit /\ Head(string) # 0
        /\ Magnitude(string) < PortSize
  IN  pc # "parse" /\ status # "SIGINT" =>
        /\ port = IF proper THEN Magnitude(string) ELSE 0
        /\ ~ proper => status = "ERROR_ARGS"

(* README.md:68: however the file comes in pieces, what is appended to the *)
(* messages is the whole of it, and no NUL, even if the file has one.      *)
ServesTheWholeFile ==
  server # "null" =>
    /\ NUL \notin ToSet(content)
    /\ NUL \notin ToSet(disk) => content = disk

(* server.h:197: as long as it loops the server waits for datagrams, and   *)
(* the set never throws in receive() and send(), which are noexcept.       *)
NeverDeaf ==
  pc \in Looping =>
    /\ \E i \in Poll!Slots :
         i < clients_length /\ clients[i].fd = Socket
                            /\ "POLLIN" \in clients[i].events
    /\ outcome # "out_of_range"

(* server.h:213-215: the loop goes on, whatever poll does, until stop() is *)
(* called, and only then does the process end with status 0.               *)
EndsOnlyWhenAsked == pc \in {"return", "exiting"} \/ status = "OK" => asked

(* server.h:225-237: a stop() lets at most the pass it came in end: if it  *)
(* came in receive(), send() may follow.  Only if it came between the test *)
(* and the sleep is poll called once more, and whatever that returns,      *)
(* nothing is received or sent after it.                                   *)
StopsAfterThePass ==
  stopping => \/ begun = <<>>
              \/ begun = <<"send">> /\ ~ late
              \/ begun = <<"poll">> /\ late

(* A stop() that comes in the loop, but not between the test of stopping   *)
(* and the sleep of poll, ends the process with no help from the network.  *)
StopIsHeard == stopping /\ pc \in Looping /\ ~ late ~> status # "running"

(* server.h:213-215: the loop ends when stop() is called.                  *)
StopEndsTheLoop == asked ~> status # "running"
=============================================================================

# TLA+ models of SIK-udp

SIK-udp is a pair of programs. A *client* sends one datagram with a timestamp
and a character to the server and then prints what the server sends, for ever.
The *server* queues the datagrams it receives and sends each of them, with the
content of a file appended, to the other clients it has heard of in the last two
minutes. It is one thread around one call of `poll`. This directory holds TLA+
models of both, the TLC runs that check them and proofs, checked by TLAPS, of
what holds for every value of the constants.

Paths without a directory are those of the repository; line numbers refer to it.

## The system

| Part | State | Operations | Used by |
|---|---|---|---|
| `Buffer` (`buffer.h`) | array `data`, `start`, `length` | `push`, `pop`, `size`, `operator[]`, iterator | the server, for received messages |
| `Connections` (`connections.h`) | deque of clients, each with a queue of intervals | `add_client`, `get_clients` | the server |
| `Server` (`server.h`) | `stopping`, socket, poll set, `buffer`, `connections`, `current_message`, `current_clients` | `run`, `receive`, `prepare_send_data`, `send`, `stop` | `server.cc` |
| `Poll` (`poll.h`) | array of `pollfd`, `clients_length` | `add_descriptor`, `remove_descriptor`, `operator[]`, `wait`, iterator | the server, with one descriptor |
| `Message`, `Sender`, `Receiver` (`protocol.h`, `communication.h`) | none between calls | conversion to and from bytes, `send_message`, `receive_message` | server and client |
| `Client` (`client.h`, `client.cc`) | socket, server address | `send`, `receive`, `run` | - |
| the server process (`server.cc`) | global pointer `server`, SIGINT handler | `main`, `register_signals` | - |
| `File` (`file.h`) | descriptor; a buffer and the content while it is read | open, `read_content`, close | the constructor of `Server` |
| parsing, errors (`parse.h`, `error.h`) | none between calls | convert arguments, `fatal` | `main` of both |

How they interact. `run` waits in `poll` for POLLIN and, when there is something
to send, POLLOUT. `receive` makes a message of a datagram, pushes it to the buffer
with the time and the sender, arms POLLOUT and tells `connections` that the sender
is alive, also when the datagram was not valid. `send` sends the current message to
one client. When no client is left for it, it pops the next message and asks
`connections` who is to get it. SIGINT calls `stop` from its handler, at any
point of the thread.

What is hard, and what makes each part correct:

* **Buffer**: index arithmetic around the end of the array, overwriting when full,
  slots whose item was moved away. It must be a bounded queue that loses its oldest
  item first (`README.md:104-107`).
* **Connections**: intervals are merged, popped and clients are erased while an
  iterator walks over the deque. The register must hold exactly the times for which
  a client is to receive, and `get_clients` must return each such client once.
* **Server**: a message or a client must never be stranded because POLLOUT was
  disarmed, nor sent twice or out of order because a send would block or the buffer
  was overwritten; the clock may tick between any two reads of it; a `recvfrom` or
  `sendto` may fail at any time.
* **Process**: the signal may come before the server exists, before `run` resets
  `stopping`, between the test of it and the sleep of `poll`, and after the server
  was destroyed.
* **Poll**: holes after a removal, a full set; `operator[]` throws for an unknown
  descriptor, in handlers that are `noexcept`. The server's socket must always be in the
  set and wait for POLLIN.
* **File**: `read` returns any part of what is asked for, into a buffer that is reused and
  not initialized. The content must be the whole file.
* **Parsing**: `boost::lexical_cast` accepts signs and leading zeros, and wraps negative
  numbers around. A program must run with the numbers it was given, or not at all.
* **Network**: datagrams are lost, repeated and reordered; anybody may send anything.

`PROJECT.json` lists these hazards at their lines, with the properties about them.

## Modules

| Module | Models | Role |
|---|---|---|
| `BoundedFifo` | - | the operations of a bounded queue |
| `FifoCalls` | - | abstract specification of the buffer: `BoundedFifo` with the calls it answers |
| `Buffer` | `buffer.h` | the ring; implements `FifoCalls` |
| `BufferProofs` | | theorems about `Buffer` |
| `Connections`, `MCConnections` | `connections.h` | the register, one step per iteration of `get_clients` |
| `ConnectionsProofs` | | theorems about `Connections`: the deque is well formed |
| `RecipientsProofs` | | more of them: intervals, recipients, what the loop leaves; extends `ConnectionsProofs` |
| `Relay` | - | abstract specification of the server |
| `Server`, `MCServer` | `server.h` | the event loop on `Connections` and `BoundedFifo`; implements `Relay` |
| `ServerProofs` | | theorems about `Server`; takes those about the register as an instance of `RecipientsProofs` |
| `Lifecycle`, `MCLifecycle` | `server.cc`, the rest of `server.h` | process, construction, loop, SIGINT, on `Parse`, `File` and `Poll` |
| `LifecycleProofs` | | theorems about `Lifecycle`, and so about its `File` and `Poll`; extends `ParseProofs` |
| `Poll`, `MCPoll` | `poll.h` | the poll set |
| `PollProofs` | | theorems about `Poll` |
| `File` | `file.h` | reading of the file, piece by piece |
| `Parse` | `parse.h` | what is made of arguments, as operators |
| `ParseProofs` | | theorems about `Parse` |
| `CString` | the conversions from `const char *` | strings end at the first NUL |
| `Protocol` | `protocol.h`, `communication.h` | what is made of messages and datagrams, as operators |
| `System`, `MCSystem` | `client.h`, `client.cc` | clients, network and the server as `Relay`, with `Protocol` and `Parse` |
| `SystemProofs` | | theorems about `System`; extends `ParseProofs` |

The chain is `System` on `Relay`, implemented by `Server` on `Connections` and
`BoundedFifo`, whose specification `FifoCalls` is implemented by `Buffer`. `Lifecycle` is
the process around `Server`: what comes before and after its loop, and the calls of `poll`
and the signals within it.

### Buffer

`data`, `start` and `length` are those of the class; `result` is what an operation
hands to its caller. A slot that was never written or whose item `pop` moved away
holds `NoItem`: an item owns its message through a `unique_ptr`. Items are opaque.
`Fifo` maps the ring to the sequence of its items from the oldest to the newest. The
history `call` is the operation that was called, with its argument, in the ring and in
`FifoCalls`: the ring must answer each call as the queue answers the same one, so a read of
the wrong item, or an exception where there is an item, is not taken for another call.

### Connections

`clients` is the deque; a client is a record with an address and its queue of
`[first, second]` intervals. `add_client` is one step. `get_clients` is a loop:
`get_clients(t, ex)` starts it, and one step is one iteration of the outer or the
inner loop (`Exclude`, `PopInterval`, `EraseFront/Back/Last`, `Visit`), so that its
intermediate states are seen. `now` is `std::time(0)` and never goes back.
`contacts` is a history: every call of `add_client` that can still matter.
`OnlyPassedKeepOldIntervals` says which old intervals are left behind at most: those of
the excluded client and of the clients that the loop stepped over.
`timestamp` keeps the argument of the last call, because the calls must not go back
in time: `KeepsRegisterProtocol` of `Server` checks that they do not.

`clients.erase(it++)` keeps an iterator that `std::deque::erase` invalidates. The
model takes what libstdc++ does: an element of the first half is removed by moving
the elements before it, any other by moving those after it. So in the second half
the next client is stepped over (`EraseBack`), and after the last one the iterator
is behind `end()` and the loop reads memory that holds no client (`EraseLast`,
phase `"undefined"`, after which nothing is modelled). The other moving of memory
blocks by the deque needs a few hundred clients and is not modelled.

### Server

`pc` is the place in `run`: `wait`, `receive`, `send`, or `prepare` inside
`get_clients`. A message is its number in the order of reception, with the time and
the sender. `Wait(r)` is a return of `poll`: `r` is any non-empty part of the events
that were asked for, tested for POLLIN before POLLOUT as the code does. The actions
for `receive` take a valid message, or an invalid one, or a failed `recvfrom`, after
which the address is still all zero (`NoAddress`) and becomes a client like any
other. The clock is read twice in `receive`, with any time in between. `send` either
prepares (`Prepare`, `ScanClients`, `GotClients`), or has nothing to send, or hands
the message to `sendto`, which succeeds, would block or fails. `lastSent` and
`received` are histories.

### Lifecycle

One action per step of `main`, of the constructor, of the loop and of the
destructor. The process is started with any arguments; `parse_arguments` is `Parse` on
them. `read_file` takes the steps of `File`, one per call of `read`; `make_server` adds the
socket to the one slot of `Poll`, and the loop calls `wait` and sets the events of that
set, so that what the handlers see is what `poll` reported. `enter` is the window between
the test of `stopping` and the sleep in `poll`. `Signal` may interleave anywhere: before
the handler is registered it kills the process; with a live server it calls `stop` and
makes a sleeping `poll` fail with EINTR; with a null pointer it ends the process with
SIGSEGV; with a deleted one the write to freed memory may or may not be noticed.
`receive` and `send` are one step each, which may arm or disarm POLLOUT; `pc` is `receive`
or `send` from the test of `stopping` that lets them run to their end.

`begun` is a history: what the thread has begun of `poll`, `receive` and `send` since the last
`stop`. `StopsAfterThePass` says what that can be, unless `run` has reset `stopping`. A `stop` that comes in `receive` does not
keep `send` from being called right after it, if `poll` reported the socket writable; one
that comes between the test and the sleep does not keep `poll` from being called; in every
other case nothing more is begun, and nothing is ever received or sent after a `poll` that
was called in spite of a `stop`.

### File

`disk` is the file, `offset` how much was read, `buffer` the local array, which begins
with arbitrary bytes and keeps what earlier pieces left. `Read(n)` is a `read` that
returns `n` bytes, for any `n` that it may; the piece is followed by a NUL and appended up
to the first NUL (`c_str`). `ReadEnd` is the `read` that returns 0, after which the buffer
is appended once more. Opening or reading may fail.

### Parse

A string is a sequence of digits, signs and other characters, and numbers have a base
and a number of values that are parameters. `lexical_cast` is what Boost does, negative
numbers included; the code accepts a number if `Numeral`, the conversion back, gives
the same string.

### Poll

The array, its length and each operation with its exceptions. `wait` reports any part of
the events that the descriptors wait for. `added` is the history of what was added and
not removed. The model stops when `remove_descriptor` on a full set leaves the array.

### Protocol and System

A datagram is `Short` (less than nine bytes) or a timestamp and the bytes after the
header, a sequence of letters and NULs. `to_bytes`, `accepts` and `c_str` are what
`send_message`, `receive_message` and the conversion from `const char *` do. The
character and the byte order are left out: they are carried along and never looked
at. In `System` a client is started with some arguments; improper ones make it exit,
another port makes it send to nobody, and a send that fails is reported and leaves it
receiving. `network` is the set of datagrams on their way: one that is received may stay
and be received again, any may be lost, and they are received in any order. Other
programs (`Other`) send any datagram at any time, to the server and to clients, which
do not look at the sender. With a file that makes the datagram too long every `sendto` of the
server fails (`ServerFails`). The server takes the steps of `Relay`; what it was sent
last is in the network instead of in `last`.

`Relay` says: valid messages are queued, the oldest is forgotten when there are too
many, each is handed at most once to some of the addresses that were heard in the
`TIMEOUT` seconds before it and did not send it. It does not say "all of them",
because the code does not keep that (see below).

## Runs

| Run | Shows | Bounds |
|---|---|---|
| `buffer` | type, live slots, every call of the ring is answered as the queue does | 4 slots, 3 items: every `start` and `length`; 5200 states |
| `connections` | deque well formed, intervals cover exactly the times of contact, recipients right, only stepped-over clients missed, and only they and the excluded one keep old intervals | 3 clients, `TIMEOUT` 1, 5 seconds; 1.2 million states |
| `connections_missed` | violation: an eligible client is not returned | same |
| `connections_stale` | violation: old intervals of the excluded client stay | same |
| `server` | nothing stranded, order, no message twice, register used as it expects, implements `Relay` | 2 clients and the zero address, 3 messages, buffer of 2, 3 seconds; 3.2 million states |
| `server_live` | messages leave the buffer, the loop goes quiet | 2 messages, buffer of 1, no symmetry; 72 thousand states |
| `server_phantom` | violation: the zero address becomes a recipient | as `server` |
| `server_loop` | violation: `get_clients` iterates past the end | as `server` |
| `lifecycle` | runs on the port it was told, serves the whole file, always waits for datagrams, ends only when asked, begins at most one send or one poll after a stop, a stop in time is heard | all strings of up to 4 of two digits, two signs and a letter, 6 ports, 3 files, a buffer of 3 bytes, 3 signals; 17 thousand states |
| `lifecycle_lost_stop` | violation: a stop that does not end the loop | same |
| `poll` | descriptors held once, counted, polled until the first removal | 4 descriptors, 3 slots; 56 thousand states |
| `system` | only valid datagrams are sent, with the timestamps that were given; clients print messages of others, whole, from the time of their contact | 2 clients, 10 lists of arguments, 1 other program, 2 datagrams on their way, 3 files; 1.0 million states |

Why the bounds are enough to see what is of interest. With three clients a client can
be erased in the first half of the deque, in the middle and at its end, and with
`TIMEOUT` 1 and five seconds it can have two intervals, lose one, lose both and come
back. The arithmetic on time only compares sums, so 120 seconds behave like one. A
buffer of two with three messages is overwritten while it is not empty. Two clients
are a sender and a recipient that change places, one of them may block while the other
is served. Three signals are one that is lost, one that wakes and one more. Strings of four
characters over binary digits hold every port below six, numbers that are too large,
zeros in front, and a sign with numbers that wrap around. A buffer of three bytes takes a
file of three in pieces of one and two, in any order, over what earlier pieces left. Two
datagrams on their way overtake each other. Time in `system` is two seconds with
`TIMEOUT` 0, enough for a contact that is too old and one that is too new. The number
of distinct clients, seconds, messages and datagrams is the only thing the bounds cut.

Symmetry is used for clients and descriptors, which are never compared except for
equality, and in runs without liveness only. `CHECK_DEADLOCK FALSE` is there where the
model really stops: at the bound of the clock, in phase `"undefined"`, when a poll set
was left, or when the process has ended.

**Fairness.** `FairSpec` of `Server` has weak fairness on everything the thread does
between two calls of `poll`, since nothing there blocks (the socket is non-blocking);
strong fairness on a return of `poll` with POLLOUT, as the kernel empties the send
queue, so that `poll` does not report readable for ever without writable; and strong
fairness on `sendto` ending other than by blocking. `Receive` is part of the first: the
thread takes what arrived, the network is not assumed to send anything. `FairSpec` of
`Lifecycle` has weak fairness on the steps of the main thread and none on the return of
`poll`: with no datagram it sleeps.

## What the checks found

* **A client is missed** (`connections_missed`, `connections.h:105`). When
  `get_clients` erases a client in the second half of the deque the next one is
  stepped over and does not get the message. `OnlySkippedAreMissed` shows that this is
  the only way to miss one.
* **The loop leaves the deque** (`server_loop`, `connections.h:105`). When the last
  client of the deque has expired, the iterator is one past `end()` and is incremented
  again. It is enough that the last client of the deque has been silent for two minutes
  when a message of another client is about to be sent.
* **Old intervals stay** (`connections_stale`, `connections.h:96`). The excluded
  client is passed over before its intervals are pruned; if it is the only one to send,
  its queue grows with every pause longer than two minutes.
* **The zero address becomes a client** (`server_phantom`, `server.h:142`) after a
  failed `recvfrom`.
* **A stop is lost** (`lifecycle_lost_stop`, `server.h:217-220`) before `run` resets
  the flag, or between its test and the sleep of `poll`, until the next datagram.

More that no run states. `remove_descriptor` (`poll.h:122`) copies the slot behind
the last one: `PolledUntilRemoved` is the most that holds, and the set of size one that
the server uses would be left by any removal; the server never removes. The tests
`private/test_protocol.cc:10` and `private/test_parse.cc:42` expect 71697398400 to be
refused as a timestamp, while `protocol.h:14` accepts up to 71728934399, the last
second of the year 4242 that `README.md:70-71` names as the limit. The client prints what
anyone sends to its port, with a new line after it, where `README.md:92-94` wants messages
of the server only and no new lines; and it reports an invalid one with the address of the
server (`client.h:116`), where `README.md:84-87` wants that of the sender.

What holds although it looks fragile: the server listens on a port only if its argument is
exactly the digits of that port, and a client sends exactly the timestamp of its argument
(`ParsesPorts`, `SendsWhatItWasTold`); however `read` cuts the file, all of it is served,
and a file with NULs, which `README.md:68` excludes, loses a part of a piece but never
makes an invalid datagram (`ServesTheWholeFile`); the poll set never throws in the
`noexcept` handlers (`NeverDeaf`).

## Proofs

Every type invariant, every safety invariant, every action property and every refinement
that a passing run checks is also a theorem, for every value of the constants that the
assumptions at the end of this section allow. For each component there is one inductive
invariant, stronger than the properties; the sections say what it adds and why.

### Buffer

`BufferTypeOK`, `BufferLiveSlots`, `BufferImplementsFifo`. The invariant is type
correctness together with `LiveSlotsHoldItems`; the lemmas are about `%` on the
slots: for indices below `buffer_size`, `get_index` is injective, and an index moves by
one with `start`. The refinement has one step per operation: the contents after it, and
what the caller gets, are those that `FifoCalls` gives for the same call.

### Connections

`ConnectionsTypeOK`, `ConnectionsDistinct`, `ConnectionsNeverEmpty`, `ConnectionsInOrder`.
None is inductive alone: the position of the iterator bounds the client that may be empty,
that no other client is empty is what keeps `back()` defined, and a new interval is in
order only because the one before it is not empty. `WellFormed` is their conjunction and
is inductive. The lemmas say what replacing, removing and appending a client do to each
part.

`ConnectionsMatch`, `ConnectionsEligible`, `ConnectionsMissed`, `ConnectionsPruned`, by the
invariant `Right == WellFormed /\ TimesRight /\ Scanned`:

* `TimesRight`: from `timestamp` on, the intervals of a client cover a time exactly if a
  contact makes the client eligible then, and no interval reaches beyond
  `now + TIMEOUT`. The second part is why merging a new contact into the last interval
  covers what a new interval would. Popping an interval, and erasing a client, take only
  times before `timestamp` away.
* `Scanned`: in the loop, whoever is in the list of recipients is eligible, is there once,
  and is behind the iterator; and every client behind the iterator was stepped over, is
  the excluded one, or was visited, which means that it has no old interval and that it
  is in the list if it is eligible. An erase moves clients from one side of the iterator
  to the other: `EraseKeepsScanned` says that only the one stepped over passes unseen.

`ConnectionsUnharmed` is the other side of the violations that `connections_missed` and
`server_loop` show: if, whenever `get_clients` is called, every client of the deque but the
excluded one has an interval that has not ended, then nobody is stepped over, the loop
stays in the deque and every eligible client is returned. Popping what has ended leaves
that interval, so nothing is erased. `ServerUnharmed` says the same of the server, for the
moments at which it prepares a message.

### Server

`ServerTypeOK`, `ServerWorkKeepsPollout`, `ServerBufferHoldsNewest`, `ServerSendsInOrder`,
`ServerKeepsRegisterProtocol`, `ServerImplementsRelay`. `Register` is an instance of
`RecipientsProofs`. `Connections` allows `add_client` with a time from `now` on, and
`get_clients` with a time from the last call's up to `now`, when it is idle; every step of
`Server` is such a step or leaves the register alone (`UsesRegister`), because the times of
the messages in the buffer rise from that of the last call. So the register keeps `Right`
in the server, and what it returns has nobody twice, which `ServerSendsInOrder` needs. The
invariant `SInv` is `Right` with the properties and, in `Sending`, where the current
message stands among those sent.

`ServerImplementsRelay` maps `Init` to `Init` and has one step per action: a reception is
`Receive` or `Contact`, `Prepare` is `Take`, the last step of `get_clients` is `Choose`
(its recipients are `Eligible` by `Right`), a `sendto` is `Send` or `Fail`; the return of
`poll`, the steps within the loop and a `sendto` that would block are stutters.

### Poll

`PollTypeOK`, `PollHoldsAdded`, `PollLengthCounts`, `PollPolledUntilRemoved`, by
`PollInv`. `add_descriptor` fills the first free slot: there is one if the length is less
than the size, because distinct descriptors in every slot are as many as the slots
(`HeldAtMost`). The part `Prefix` says that as long as nothing was removed the slots in use
are the first ones, which is what `wait` looks at.

### Parse

`ParseNumberIsExact`: for every base, size and string, `parse_number` gives the number of a
string of digits that is not empty and has no zero in front, if the number is in range, and
refuses every other string. `ParsesWhatIsPrinted`: it reads back what was printed. `Numeral`
and `Magnitude` are recursive, and induction over a predicate cannot be instantiated in the
provers at hand; so it is induction over a *set* of numbers (`Induction`, from
`NatLessThanWellFounded`), and that the recursive functions have values at all is proved by
it first (`NumeralDef`, `MagnitudeDef`). `NumeralOfMagnitude` and `MagnitudeOfNumeral` say
that the two are inverse on such strings, from which comparing the string with the numeral
of its number, as the code does, rejects signs, zeros in front and numbers that wrap around.

### Lifecycle

* `LifecycleTypeOK`, `LifecycleEndsOnlyWhenAsked`. The invariant adds what the construction
  has done at each of its steps.
* `LifecycleStopsAfterThePass`, the safety side of `lifecycle_lost_stop`. The property is not
  inductive: that nothing follows the `poll` after a late `stop` holds because the thread is
  in `poll`, or before the test that follows it, exactly when that `poll` is all it has begun,
  and a `send` follows only a `receive` in which the `stop` came. `StopInv` says this for
  each place in the loop.
* `LifecycleParsesPorts`, from `ParsePortIsExact`: until the arguments are parsed the port
  is 0 and SIGINT still kills the process.
* `LifecycleServesTheWholeFile`, for every file and length of the buffer. The lemmas are
  about `c_str`: what it returns has no NUL, and of a filled buffer it is the piece that was
  read, if that has none. The invariant is that the content is
  the part of the file before `offset`, if the file has no NUL.
* `LifecycleNeverDeaf`. The invariant is that the one slot is empty until the server is
  made, and then holds the socket with events that include POLLIN: `add_descriptor` finds
  the slot free, and every `set_events` of the loop finds the socket.

### System

`SystemTypeOK`, `SystemNothingInvalidIsSent`, `SystemPrintsMessagesOfOthers`,
`SystemPrintsWhatItWasInContactFor`, by `SysInv`. It says of every datagram on its way who
sent it and why (`Travelling`): a client's carries that client's timestamp, the server's
carries the whole file and the timestamp of a message of somebody else, and goes to an
address heard in the `TIMEOUT` seconds before. That must be carried from the queue to the
current message, to the chosen recipients and to the datagram (`Attributed`, `Recent`,
`Chosen`). It remains true while the datagram is delayed, repeated or overtaken because of
what no step takes back (`Grows`): what was heard, the timestamp of a client that runs, the
file. `SystemSendsWhatItWasTold` adds `Told`: a client that runs has the timestamp whose
digits it was started with, from `ParseNumberIsExact`. `ServerSendsValid` is about the
conversions alone: what the server makes of a message and its file, a client reads back.

### Assumptions

The `ASSUME`s of the modules, which TLC evaluates in every run, and nothing else:

* sizes, bounds and times are natural numbers, and those of the buffers, of a port and of
  a timestamp are not 0 (they are unsigned in the code);
* what stands for "none", "bad" or an exception is not one of the values it stands beside
  (`NoItem`, `NoOne`, `NoMessage`, `NoId`, `Bad`, `OutOfRange`); in `Poll` and `Lifecycle`
  no descriptor is the value of a free slot, -1, which `socket` does not return for one;
* in `Parse` there are at least two digits, and signs are not numbers;
* arguments and files are sequences, and in `System` the file that is served has no NUL:
  `LifecycleServesTheWholeFile` is that theorem;
* in `System` the server, the clients and the others have different addresses, a datagram
  with a timestamp is not `Short`, and others put a natural number where the timestamp is,
  as eight bytes are one.

What is only model-checked: liveness under fairness (`MessagesLeaveTheBuffer`, `GoesQuiet`
and `StopIsHeard`), which the prover has no rules for, and the five runs that show a
violation.

## Not modelled

`operator<<`, `print_error`, the messages of exceptions and `usage` are wording. The
numbers of the bounds of ports and timestamps, and the byte order, carry no state. The
file does not change while it is read (`README.md:68`). A failed `recvfrom` is in `Server`
and not in `System`, whose runs would not end in useful time with it; what it leads to is
the run `server_phantom`. An error of the socket that `poll` reports without POLLIN or
POLLOUT is left out. `getaddrinfo`, and the failures of `socket` in the client, are a client that is not
started. Running out of memory is not modelled: `receive` and `send` are `noexcept` and
would end the process. The clock is assumed not to go back. The build files and the
vendored test framework are left out.

## Plan

Done: the buffer, the register, the server, the process with its arguments, its file and
its poll set, the poll set alone, and clients with the network, each with the proofs of its
safety; the refinements of `FifoCalls` and of `Relay`; liveness of the loop by TLC.

Next, in this order:

1. `RecipientsProofs`: `ConnectionsUnharmed` for calls that erase only in the first half of
   the deque, where the iterator is right.
2. `ServerProofs`: that only addresses that sent something become recipients if no
   `recvfrom` fails, the other side of `server_phantom`.

`Lifecycle` and `Server` are kept apart: their product has some ten thousand times three
million states, and what one needs of the other is small. `Server` is the loop while
`stopping` is false, and `Lifecycle` has its steps, with the poll set, for any handler.

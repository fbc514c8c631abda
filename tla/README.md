# A verification project for socket++

socket++ is a C++ library of iostreams over Berkeley sockets, with classes for
processes (`Fork`), signals (`sig`) and a few protocol clients built on them.
This directory holds TLA+ models of the parts of it that keep state and have
to get sequences of events right, the TLC configurations that check them, and
TLAPS proofs. All line numbers are those of the files in `src/socket++/`.

1. [Inventory](#inventory) — the components, their state, what is hard
2. [Plan](#plan) — modules, abstract specifications, theorems, in order
3. [The modules](#the-modules) — state and actions against the code
4. [The runs](#the-runs) — what is checked, bounds, fairness
5. [The proofs](#the-proofs) — what is proved and how
6. [Disagreements found](#disagreements-found)
7. [Not modelled](#not-modelled)

## Inventory

| Component | State | Operations | Correct when |
|---|---|---|---|
| `sockbuf`, output (sockstream.cpp:122-181, 242-278, 376-397) | put area `pbase..pptr..epptr`, `rep->stmo`, the descriptor's mode | sputc, sputn, pubsync, destructor, shutdown, sendtimeout, nonblock | accepted bytes reach the kernel once and in order; none is lost but by shutdown or with the process; counts are true; calls end |
| `sockbuf`, input (184-240, 298-316) | get area `eback..gptr..egptr`, `rep->rtmo`, `rep->oob` | sgetc, sbumpc, sgetn, sungetc, recvtimeout, oob, shutdown | chars come in order, each accounted for; EOF is the end; the out-of-band mark is not crossed silently; calls end |
| `sockbuf`, ownership (82-139, sockstream.h:147-180) | `shared_ptr<sockcnt> rep`, the two heap areas, the descriptor | constructors, copy constructor, destructor, shutdown | the socket is closed once, by the last owner, never under another |
| `sockbuf`, setup and options (280-296, 322-342, 537-712) | the kernel's | bind, connect, listen, accept, get/setopt | each is one system call whose failure is thrown |
| `Fork` (fork.cpp) | `ForkProcess::list`, `pid`, `next`, `kill_child`; dispositions of SIGCHLD and SIGTERM | constructor, destructors, `reaper_nohang`, `commit_suicide`, `~KillForks` | the list is the unreaped children; exit leaves none behind; no signal to a pid that is not a child's |
| `sig` (sig.cpp) | `smap`, the process's sigactions and signal mask | set, unset, unbind, mask, unmask, sysresume, kill; `handler` objects | listed handlers are invoked, each once; dead ones are not listed |
| `ftp` (ftp.cpp) | `replycode`, the buffers of the control connection, the two sockets of a transfer | send_cmd, get_response, ftpdata and the commands | a command gets its own last word; the server is told the port that is listened on; calls end |
| `smtp` (smtp.cpp) | the buffers of the control connection, `output` | send_cmd, get_response (two), data, send_buf, operator << | replies stay in step with commands; a message arrives as it was and ends at the final dot only |
| `sockinet` (sockinet.cpp) | address and port of a socket | address constructors, bind, bind_until_success, localport, connects | the search for a port ends, and what is told to others is the port bound |
| `protocol` (protocol.cpp) | the protocol's name | connect in four forms | what cannot be connected throws |
| `echo` (echo.cpp) | listening socket, a `Fork` per client | serve_clients | every client gets its bytes back; children go with the server |
| `socketerr` (socketerr.cpp) | none | the classes of errno | a program can tell from the class whether to retry |
| `sockunix` | a path | address and forwarding constructors | — |
| `filelikebuf`, `processstream`, `pipestream` | as sockbuf | as sockbuf | do not compile on POSIX as they stand (filelikebuf.cpp:60, processstream.cpp:84) |

How they interact. The streams (`isockstream` and its kin), `protocolbuf`,
`ftpbuf`, `smtpbuf` and `echobuf` all are or hold a `sockbuf` and call it
through the streambuf interface. Copies of a `sockbuf` share one `sockcnt`, and
with it the descriptor. `echo` accepts a `sockbuf` per client and forks with
`Fork`, which shares the descriptors with the child. `Fork` installs its own
signal handlers with `sigaction`; `sig` does so through `sighandler`; sig.h
forbids mixing the two on one signal.

What is hard here. A kernel that takes part of what a flush offers, then
refuses, blocks, times out or is interrupted, below a buffer that must be left
such that the next flush goes on at the right byte. The peer acting between two
system calls of one call: sending, sending urgent data, closing, resetting.
Destructors that flush and throw. Ownership shared by copies in threads.
Replies that the network cuts anywhere, under a parser that looks at what one
read brought; three parties to a transfer (the command connection, the data
connection, the port search), each of which may fail while the others wait.
Signal handlers that change, between any two steps of the main program, the
same list that it walks or links, and callbacks that change the list they are
invoked from. The `hazards` of PROJECT.json place each of these at its line and
name the properties that watch it.

## Plan

In the order in which the modules were written. The last two lines are compositions
that are not written: what they would join is modelled and proved apart
(see [Not modelled](#not-modelled)).

| Module | What | Abstract specification / composition | Proofs |
|---|---|---|---|
| `Bytes` | streams of bytes that are their own positions | extended by `SockPut` and `SockGet` | done: joins, slices, tails (`BytesProofs`) |
| `SockPut` | output half | implements `OutStream` | done: types, order, conservation, counts, flush, error classes, the refinement |
| `SockGet` | input half | implements `InStream` | done: types, order, conservation, end, the mark, the refinement |
| `SockRep` | ownership | — | done: all its invariants |
| `Fork` | processes | — | done: all its invariants and its action property |
| `Sig` | handlers | — | done: all its invariants |
| `SockErr` | the error classes | extended by `SockPut`: the classes of the errors a flush throws | with `SockPut` |
| `ReplyStream` | a protocol client's control connection: connect, replies cut by the network, the tests of the parsers | extended by `Ftp` and `Smtp` | done, with those two: lines are consumed whole and in order |
| `SockInet` | port search, the socket that listens | extended by `Ftp` | done, with `Ftp`: the port told is the port bound |
| `Ftp` | client, data connection and server in step | composition of `ReplyStream`, `SockInet` and a server | done: all its invariants |
| `Smtp` | client and receiver | composition of `ReplyStream` and a receiver that undoes the doubling | done: all its invariants |
| `Echo` | `serve_clients` over the actions of `Fork` and a socket per client | composition | — |
| `SockPair` | `SockPut` and `SockGet` joined by the kernel's queues | a reliable byte stream end to end | — |

All safety properties of all runs have theorems now. What is left is liveness, which
only TLC can check here.

## The modules

### OutStream, SockPut: the output half of sockbuf

`SockPut` has the put area as the sequence of its unflushed bytes `put`; `Cap` is
`BUFSIZ`. A byte is the position it takes in the stream of accepted bytes, so
that the content of any buffer shows whether something was lost, repeated or
overtaken; `Follows` of the module `Bytes` says so of a piece of the stream. `call` is the call in progress: `xsputn` is recursive, but its frames
only add their counts when they return, so a suspended call is the rest of its
argument and the sum so far. `io` says where `sync` is: in `select`, or in the
write loop with `wlen` bytes written. `wire` and `room` are the kernel's.

| Action | Code |
|---|---|
| `Sputc`, `Sputn`, `Pubsync`, `Destroy` | the public calls up to their first system call, or their end |
| `SelectReady`, `SelectTimesOut`, `SelectInterrupted` | `is_writeready` (488-501) and what write makes of it (385-386) |
| `WriteSome`, `WriteFails`, `WriteInterrupted` | one `::write` of the loop (389-394) |
| `SyncThrows` (in the failing steps) | the catch of `sync`: repositioning, and the throw (150-172) |
| `SyncReturns` | `setp` (174), and the call that goes on: a store, `xsputn` on an empty area, the close |
| `ShutdownWrite`, `ShutdownReadWrite` | 518-535: the area is freed before `::shutdown`, which may fail |
| `Drain`, `Break` | the peer and the network |

Some faults of the kind a change could introduce are kept beside the definitions
they change (`XsputnOffByOne`, `SyncThrowsKeepsAll`, ...), as "seeded faults"; the specifications
do not use them. Replacing a definition by its fault violates the property
PROJECT.json lists it for.

`OutStream` is what a user may rely on: bytes accepted go behind those queued;
the kernel takes from the front; all that is queued is dropped together, by
shutdown or `std::terminate`; a stream that closes normally has nothing queued.
`SockPut` implements it with `queue` the bytes of `put` behind `wlen`.

`SockErr` has the tables of socketerr.cpp as sets of errno and
`default_error_condition` as the order in which they are asked, because they
overlap. `SockPut` classes with it what its flushes throw: `ErrorsAreClassed`
says what `conn ()` and `benign ()` mean for the connection and for the bytes
that are kept. Two things about the classes it makes plain: a send timeout is a
connection error, though the connection is whole, and an interrupted flush is
not benign, though the comment at socketerr.cpp:215 names EINTR (the table has it
for Windows only).

### InStream, SockGet: the input half

`get` is `eback..egptr` and `g` the offset of `gptr`. A byte is its position in
what the peer sends; a new get area's BUFSIZ uninitialised chars have positions
up to 0, because `setg (gbuf, gbuf + BUFSIZ, gbuf + BUFSIZ)` (87, 106) lets
`sungetc` reach them. An `sgetn` under way is what it still needs and what it
has copied out. `read` (298-316) is up to three system calls — select, the
`SIOCATMARK` ioctl, `::read` — with the peer acting in between. TCP stops a read
short of the urgent mark (`Available`).

`InStream` is the reader's view: `unread` is the get area's rest and the kernel's
queue together, so a refill is a stuttering step; arriving, taking, putting back
and the end are the only others.

### SockRep: ownership

Sockbufs with their `rep` (identified by the sockbuf that created it), areas,
and a kernel that hands out the lowest free descriptor. A destructor is two
steps: its body, which looks at `use_count`, and the destruction of the member
`rep`; with `Concurrent`, two destructors overlap. Contents are reduced to
"clean" or "dirty". That a close may fail, and throw out of the destructor, is
in `SockPut`.

### Fork

One step is the code between two points where a signal or a child makes a
difference: a system call, or a load of a list pointer and the store that uses
it. `main` is the main program or, after SIGTERM, `commit_suicide` (which never
returns to it); `hpid` is `reaper_nohang` between its `waitpid` and its search. The
handlers block only their own signal, so SIGCHLD comes upon the main program,
`~KillForks` or `commit_suicide`, and SIGTERM upon `reaper_nohang` as well; a
SIGCHLD handler that is cut so leaves SIGCHLD blocked (`masked`). Use of a
deleted object is undefined behaviour: the step may crash, or go on with the old
contents; that the memory is reused meanwhile is not modelled. Which functions
did it is kept in `ub`. The i-th object and its child are both `i`. What a walk along
`next` comes to is `Reach`, the least set that holds the first object and with each the
next one; no walk is unrolled, so that this is a definition proofs can use.

Ghost variables name the situations the properties must except: `early` (a
handler cut into a constructor between fork and the end of its linking),
`during` (the reaper took a child from under `~KillForks` or `commit_suicide`),
`twice` (SIGTERM during `~KillForks`), `merged` (SIGCHLD was already pending).

### Sig

What runs is a stack: the main program, and above it calls of the interface and
loops of `sig::kill`. A call is split where it makes a system call; a signal may
be taken at each such point. A loop of `sig::kill` has the place of its node in
the list, and `cut` when that node has been erased; erasing other nodes moves
the place, as `std::list` iterators stay valid. A callback may call anything of
the interface, including `delete` of its own handler. The constructor and the
destructor of a handler have the phases "base" and "dying", in which its
`operator()` is pure virtual. `MCSig` adds the symmetry sets.

### ReplyStream, SockInet: what the protocol clients stand on

`ReplyStream` is the control connection below `get_response`. A char is the reply
line it is of and its place there; lines are six chars, enough for a code, its
separator and CRLF. `flight` is what the server has written, `area` the get area.
`Refill` is `underflow` of an empty area: it takes what has arrived, which ends
at a line's end or at one of `Cuts` within a line (3, between code and
separator; 5, between CR and LF). An area that is not empty is never added to.
`CRLFs`, `Codes` and `EndsReply` are what the loops of ftp.cpp:100-127 and
smtp.cpp:24-44 look at; a "line" that does not begin where a line begins, because
the rest of it came in an earlier read, has any separator and no code. `Connect`
collects what `protocolbuf::connect` may end with through the address
constructors of sockinet.cpp.

`SockInet` is a socket that waits for a connection. A port is an int cut to two
bytes by `htons` (`Byte` is 256, made small), and other sockets hold any ports at
any time, so a turn of `bind_until_success` binds or counts `portno` up. Port 0
makes the kernel choose; a reserved port ends the search with EACCES.

### Ftp

One step is a turn of a loop, or the code between two waits for the server.
`call` says which public call runs and which reply it waits for: `"PORT"` and
`"transfer"` are the two within `ftpdata`, `"final"` the last one.

| Action | Code |
|---|---|
| `Command`, `Useraddr`, `Rename`, `GetResponse`, `NoName` | the commands (ftp.cpp:163-228, 283-321, ftp.h:86-118) up to their wait |
| `Transfer`, `BindUntilSuccess`, `UserAddrOfSb` | ftpdata 55-58, sockinet.cpp:179-199, useraddr 168-197 |
| `ResponseRefill`, `ResponseLine`, `ResponseEof`, `ResponseFails` | the loop of get_response (99-129) |
| `Got` (in the steps that end a reply) | what the caller does next: 58-63, 92, 302-305 |
| `Accept`, `DownAgain`, `DownFails`, `UpDone`, `UpFails` | 65-87 |
| `Connects` | protocolbuf::connect |
| `Greets`, `Serves`, `Announces`, `DataConnects`, `Completes`, `CompletesUnread`, `Aborts`, `Closes` | the server |

Within `send_cmd` a flush may fail and leave the command in the put area (`kept`),
from where the next one takes it along. That `c` is destroyed with unflushed bytes
on a lost connection ends the program (`fate`), as `SockRep` and `SockPut` have it.

`tidy` is the ghost on which the properties rest. It is true until something
happens that `get_response` cannot cope with: a read ended within a line, an err
left a command unsent or a reply unread, a command was given before the greeting
was read. After that the client may make calls up to `MaxUntidy`, so that the type
invariant and the loops are explored there too, but nothing is promised.

### Smtp

The client side is as in `Ftp`. With `output`, every command is followed by
`get_response` of `smtpbuf`; without, nothing is read until operator << asks
for a reply (`Show`, `ShowLine`). Text is sent in chunks of at most `Chunk` chars
(1024 in the code), "\n" standing for CRLF, through `Stuffed`, the doubling of dots
of `send_buf`. What follows a chunk in memory is any char (`Behind`). The receiver
works line by line and undoes the doubling.

`Spoils` names the places in which a chunk boundary changes the text; the ghost
`msg.spoilt` remembers them. `MessageDelivered` says that there are no others: a text
may fall into chunks anywhere else, and an `Overflow` may send part of it at any time.

## The runs

| Run | Instance | Checks | Distinct states |
|---|---|---|---|
| `sockput` | BUFSIZ 3, send queue 2, sputn up to 7, 7 bytes in all | invariants, `OutStream`, liveness, error classes | 26 802 |
| `sockput_poll` | BUFSIZ 2, send queue 1, 2 bytes in all | `PollReturns`, violated | |
| `sockget` | BUFSIZ 2, sgetn up to 4, 4 bytes sent, 1 put back beyond | invariants, `InStream`, liveness | 536 906 |
| `sockrep` | 3 sockbufs, 2 descriptors, two threads | invariants | ~440 000 |
| `sockrep_leak` | one thread | `AreasFreed`, violated | |
| `fork` | 2 Fork objects | invariants, action property, liveness | ~278 000 |
| `fork_kill` | 2 Fork objects | `KillsFirst`, violated | |
| `sig` | 2 signals, 2 handlers, 4 calls, 2 signals sent, symmetry | invariants | 900 341 |
| `sig_delete` | 1 signal, 2 handlers | `DeletionRemoves`, violated | |
| `ftp` | ports of 2 bits, port 1 reserved, search from port 2, cuts at 3 and 5, 4 commands | invariants, liveness | 431 209 |
| `ftp_download` | the same, 2 commands | `DownloadReturns`, violated | |
| `smtp` | messages of 3 chars, files in chunks of 2, cut at 5, 3 commands | invariants | 1 945 470 |

Why the bounds are enough. *sockput*: an sputn of 7 on an area of 3 flushes
twice within one call and leaves a rest, so every frame of the recursion, a
partial write in each flush and a failure after it occur; what the code does
depends on sizes only through "fits", "fills" and "more than fits", and the
safety properties are proved for all sizes anyway (of every other component as well). *sockget*: an sgetn of 4 needs up
to three refills; a refill shorter than the one before, a mark before, in and
behind the queue, and put-backs over a refill occur. *sockrep*: three sockbufs are a
socket, its copy, and either a second copy or somebody else's socket that gets
a closed descriptor's number. *fork*: two objects are the least with a
predecessor in the list, two children dying under one SIGCHLD and a sibling;
three objects are beyond an exhaustive run (over 15 million states), but the safety
properties are proved for any number of them. *sig*: two handlers give a loop a node before and
behind the one erased; four calls allow a constructor, a second one, and two
calls nested in a callback. *ftp*: four commands are a PORT and a
transfer with a command before and after it, or two transfers; three ports
besides 0 let the search find a free one at once, go on, pass 65535 (here 3) to
0, where the kernel chooses, and end at the reserved port. *smtp*: 3 chars in
chunks of 2 have every pair of neighbours, within a chunk and over a boundary;
three commands are one before a message and one after the DATA, or the
message first; texts and chunks of any size are the theorems' business. Only cut 5 is used: the wait for a code's separator (cut 3) ends
in the same spin as in *ftp*.

Deadlock checking is off in `SockPut`, `SockRep`, `Fork` and `Sig`, because an
object that is destroyed, or a process that has ended, takes no more steps, and
in `Ftp` and `Smtp`, where client and peer may be done with each other or wait for
each other (which `CommandsReturn` is about); it is on in
`SockGet`, where a client can always call again.

Fairness. In `SockPut` and `SockGet` only the thread that makes the call is fair
(`WF_vars(Proceed)`): a system call that can return does, a select returns when its
time is over. Nothing is assumed of the peer: `CallsReturn` takes its help as a
premise, `NonblockReturns` and `TimedCallsReturn` do without. Interrupting signals
never have to come. In `Fork` the process runs and a pending signal is
delivered (`WF_vars(Code)`), and each child ends some day; the program never
has to exit, and SIGTERM never has to come. `Sig` and `Smtp` have safety
properties only. In `Ftp` the thread goes on where it can (`WF_vars(Proceeds)`), and
the server answers (`WF_vars(Server)`): it takes commands, connects or gives up, and
ends a transfer when the client has done its part. It need not end a transfer
nobody reads; timeouts, signals and its closing need never come.
`CommandsReturn` then says that a call of a tidy client ends unless it is in one of
the four waits that `Stuck` names: they are in the code, and `ftp_download` is
the one that contradicts a comment.

Assumptions about the environment. The socket is connected and of stream type;
SIGPIPE is ignored, so that a broken connection shows as EPIPE; data received
before a reset is read before the reset is reported. One thread drives a
sockbuf. `Sig` has one thread. The servers of `Ftp` and `Smtp` answer each command
once, in order, with lines that begin with a code; text inside a multi-line reply,
or in the rest of a torn line, does not look like the code the parser waits for.

## The proofs

Seven components have their safety properties proved, each in a module that extends
the component's: `SockPutProofs`, `SockGetProofs`, `SockRepProofs`, `ForkProofs`,
`SigProofs`, `FtpProofs` and `SmtpProofs`. `BytesProofs` holds the lemmas about sequences that more
than one of them needs. Nothing is fixed in them but the assumptions the modules name: buffer
and queue sizes are positive, the bounds of the models are naturals (however large),
the sockbufs are a finite set without the null `sockcnt`, `Fork` has at least one
object, a byte has two values or more, and at least one port is reserved.

Each has the same plan. `IInv` is the invariant, a conjunction of named parts with
the properties among them; one lemma per action says that it is kept; `IInvInductive`
(`StepIInv` in `FtpProofs`, `StepIInv` and then `StepInvariant` in `SmtpProofs`)
collects them, and the theorems follow from it.

| Module | Theorem | States, for every value of the constants |
|---|---|---|
| `SockPutProofs` | `TypeCorrect` | `TypeOK`: the put pointer never leaves the area |
| | `InOrder`, `Conservation` | `WireInOrder`, `NothingLost` |
| | `Counts` | `CountsAreTold` |
| | `FlushComplete` | `FlushReachesWire`, `DestroyedMeansDelivered` |
| | `Classification` | `ErrorsAreClassed` |
| | `Refinement` | `SockPut` implements `OutStream` |
| `SockGetProofs` | `TypeCorrect` | `TypeOK`: the get pointer never leaves the area |
| | `InOrder`, `Conservation` | `CharsInOrder`, `GetConserved` |
| | `EndIsEnd`, `MarkIsSignalled` | `EndMeansEnd`, `MarkSignalled` |
| | `Refinement` | `SockGet` implements `InStream` |
| `SockRepProofs` | `TypeCorrect` | `TypeOK` |
| | `OwnSocket`, `OneClose` | `SocketStaysOurs`, `ClosedOnce` |
| | `TerminationCause` | `TerminatedOnlyBy` |
| `ForkProofs` | `TypeCorrect`, `ListIsSound` | `TypeOK`, `ListSound` |
| | `NoneLeft` | `NoneOutlives` |
| | `StraySignals`, `UndefinedUses` | `StrayOnlyIf`, `UndefinedOnlyIf` |
| | `Siblings` | `SiblingsUnharmed` |
| `SigProofs` | `TypeCorrect`, `ListedIsHandled` | `TypeOK`, `RegisteredIsHandled` |
| | `LoopsComplete`, `DeadUnlisted` | `AllInvoked`, `DeadAreUnlisted` |
| `FtpProofs` | `Typed` | `TypeOK`, with the end of the search for a port |
| | `RepliesInStep` | `InStep` |
| | `ServerReachesUs` | `DataReachesUs` |
| `SmtpProofs` | `Typed` | `TypeOK`: get_response consumes whole lines only |
| | `RepliesInStep` | `InStep` |
| | `MessageArrives` | `MessageDelivered` |

**SockPut.** None of the properties is inductive alone. That a flush goes on
where the kernel is needs `wlen` to stay within the put area and to be 0 outside
the write loop; that new bytes line up behind old ones needs that nothing was
discarded while the area is live; that `xsputn` takes up with the right byte after a
flush needs the bytes it holds to be those that follow `acc`, and its count to be what
was taken since the call began. `Control` and `Pending` say that. The two places where
the code moves bytes, `xsputn` and the repositioning in `sync`, have lemmas of their
own. The refinement maps the put area to a queue, without the `wlen` bytes that the
kernel has already: what `::write` takes leaves the queue at that moment, and the
repositioning after a failure, or the `setp` after a success, is a stutter. The one
step that does two things, a return from a flush on which `xsputn` goes on, only
appends, since the queue is empty then.

**SockGet.** That a refill puts the right chars in the area needs the kernel's queue
to follow what was taken from it; that it loses nothing needs the area to be used up
whenever `read` is under way; that no read runs over a mark it could have seen needs
the mark to be elsewhere, or late, from the ioctl on to the `::read` (`MarkSeen`). The
abstract state is `unread`, the rest of the area and the kernel's queue together. The
proof of the refinement does not compute with it: it consists of consecutive
positions, so two numbers determine it, how many chars the reader is past (`Passed`)
and how many the peer has sent. A refill changes neither, which makes it the
stutter it should be.

**SockRep.** The descriptor of a live sockbuf is its own because its `sockcnt` is not
closed; a destructor closes only when `use_count` is 1, and then the one holder is
the destructor's own sockbuf, so that none lives on a closed `sockcnt`
(`UseCountTells` is the lemma about counting). That the last one closes needs the
converse, somebody left to close it as long as no two destructors overlapped: `raced`
is where the code gives that up.

**Fork.** The list is a chain of pointers that two signal handlers change under the main
program, and four ideas carry the proof. *Order*: wherever a handler cuts in, `next`
and every pointer that is held lead to an older object; so there is no cycle,
a chain does not branch, and it has at most one object that leads to a given one
(the lemmas on `ReachIn` say so for any links, without recursion). *Covered*: every
child not reaped is behind `list`, and behind the pointers `commit_suicide` holds, also
between the two stores that unlink an object. *Clean*: as long as no reaper
came upon the exit, no deleted object is on the list, and what the exit is
going to read is. *Kept*: an object whose child was reaped is about to be deleted.
The first holds of every behaviour; the others are void exactly where the ghosts
`early`, `during`, `masked` and `twice` say that a handler came at the wrong moment.
What the theorems except is thus what the proof needs excepted, each with a part of
the invariant that it spoils.

**Sig.** A loop of `sig::kill` has each handler that it has still to invoke behind its place
(`LoopSound`); that an erased node keeps this so is the lemma about one node leaving
a list (`ErasedOK` and those before it), used by `unset`, `~handler` and `unbind`,
for loops at any depth of the stack. That a listed signal is handled needs to know
what a call has read before its second `sigaction` (`InFlight`), which stays true as at
most one call is working on a signal that is not in `raced` (`OneIn`).

**Ftp.** The chars on their way, `area` and `flight` together (`Coming`), are a sequence in
which each char tells what may come behind it (`Order`): the next one of its line, or
behind a LF the first char of a line that may follow (`Follow`). So the first line is
found whole where the search for CRLF looks for it (`FirstLine`, `FirstCRLF`), a read that
ends with a line changes nothing (`RefillPhases`), a turn of the loop consumes just
that line (`Turn`), and a reply of the server can be put behind an empty stream or
behind a 150 (`SaysOn`). `Phases` then ties the place of the call, the commands with the
server, what the server does and the first line on its way to one another: at most one
command is unanswered; the reply on its way is one the place allows; within a
reply, `replycode` is that reply's. It is claimed only while the client is tidy,
nobody has closed and the client has not been terminated (`Sane`), none of which
comes back once lost (`OnceOver`). The one way to end with `tidy` still
true, ~sockbuf in a failed upload, leaves the server idle (`Over`), which
`DataReachesUs`, that says nothing of `fate`, depends on. `InStep` and
`DataReachesUs` are read off.

**Smtp.** Here a client may send many commands before it reads, so the stream of
replies (`Coming`) may be long, and so may what is on its way to the receiver (`Wire`, the
receiver's `inbox` and the put area together). Three facts tie them to one another
(`Phases`). The commands and ends of texts on their way have the numbers from some p + 1
to n, without a gap (`Numbered`); the replies on their way are those behind the one shown
last, up to the one to p, in order (`StreamTo`, `Order`); and the place of the call says
how far behind n the reply shown last may be (`OutputSeen`, `ShowSeen`). A step that
sends, answers or shows moves one of these limits and nothing else. That the receiver
does answer each command once needs to know what it finds at the head of `Wire`: a
command stands behind a command or the end of a text, a text behind its DATA, and a line
of just a dot nowhere but at its end (`Grammar`, `WellFormed`, `ModeFits`).

That a message arrives is proved without computing what `send_buf` makes of a text or
what the receiver makes of that. `Spelt` says of a stretch of `Wire` that there is a
count of chars, going up by one with each item but those dots that stand where a line
begins, under which the items are the chars of the text. `Delivery` claims that, of the message
that data () sends, `Wire` spells just what the receiver does not have yet, up to
what has been sent, or with its end. A chunk makes the stretch longer
(`SpeltChunk`); this is where each place that `Spoils` names is needed, since a dot that
is not doubled there, or is once too often, shifts the count. What `FlattenSeq` makes of
a chunk is described by where each of its chars comes to stand (`CharsAt`, `StuffedIs`).
A line that is taken makes it shorter by what the line gives (`CarriedLine`), and
a line of just a dot can only be the end, with all of the text before it (`CarriedDot`). All
this holds while the client is tidy and the receiver has not closed (`Sane`); what has
been accepted stays as it is after that (`Mailed`). TLC has checked `Phases` and
`Delivery` as invariants of the instance of `smtp`.

Some lemmas are inductions over the places of a sequence. The library's induction
theorems take an operator, which the provers cannot instantiate; instead, `Climb` in
`BytesProofs` is about a set of numbers that has the first place and, with each, the
next one. What the folds of the community modules make of a sequence is handled through
it as well (`Folded`).

What is not proved. Liveness under fairness, and what rests on ENABLED, is out of the
prover's reach and stays with TLC: `CallsReturn`, `TimedCallsReturn`,
`NonblockReturns`, `ExitReturns`, `Reaped` and `CommandsReturn`. The five
violations are TLC's, too. The seeded faults are not used by
any specification and nothing is proved about them.

## Disagreements found

Each is a run that TLC ends with the violation:

* `sockput_poll` — sockstream.h:163 documents a timeout of 0 as "poll"; the
  write loop asks select once and then blocks (sockstream.cpp:385-391).
* `sockrep_leak` — "if the last instance is being destroyed, close socket and
  destroy object" (sockstream.cpp:126): only the areas of the instance that goes
  last are deleted, and those of a copy are null.
* `fork_kill` — "First, kill all children whose kill_child flag is set"
  (fork.cpp:34): the loop reads `cur->next` after `delete cur`.
* `sig_delete` — "all that needs to done is to delete the object" (sig.h:39-42):
  not from its own callback, which erases the node the loop of `sig::kill` is on.
* `ftp_download` — "When a connection is made, it receives a file from remote host"
  (ftp.cpp:48-51): the loop at 72 waits for `sgetn` to give EOF, but at the end of
  the stream it gives 0, so the call that receives a file never returns.

## Not modelled

* `echo`: `serve_clients` is a loop of accept, `Fork` and, in the child, read and
  write; its processes are those of `Fork`, its sockets those of `SockPut` and `SockGet`.
  The composition of the three is not written; TLC cannot explore one of
  a size that shows anything (`Fork` alone has 278 000 states for two children).
* A pair of sockbufs end to end: `SockPut` and `SockGet` are each proved to implement an
  abstract stream towards the kernel's queue, but no module joins the two.
* `sockunix`: paths instead of ports, and forwarding constructors.
* The options of a socket (`getopt`, `setopt` and the accessors built on them),
  `tcpnodelay`, and the questions about the peer's name: one system call each,
  and no state.
* In `ftp`: the text of arguments, `getfile (0, 0)` (an ofstream of a null name),
  and the members for a server, which nothing uses; trans_mode () sends STRU where
  MODE is meant (ftp.cpp:227), which the model, that has no arguments, cannot
  tell; and that get_response, without a CRLF at hand, counts one char more than
  there is (ftp.cpp:111-117), which only shows in what `o` is given. In `smtp`: data (0) reads standard input, and a file that cannot be opened
  does so as well (smtp.cpp:140); to the model both are a text. Lines longer than
  the 1023 chars operator << reads at once, and than a get area, are left out.
* `sockbuf::recv`, `recvfrom`, `send`, `sendto`, `sendmsg` and a program's own
  `read` and `write` on the descriptor: they bypass the buffers; what they do to a
  stream that is also used through its buffers is the program's business.
* What `std::ostream` makes of the exceptions (badbit, rethrow) is the standard library's.
* The Windows variants (`USE_WINSOCK`), and `sig` without `HAVE_SIGACTION`.
* `ForkProcess::kill_process` (no caller), the texts `infanticide_reason` prints, and
  locks of `std::cerr` and `malloc` taken in signal handlers.
* `sig::pending` and `ispending` (read only); failures of `sigaction`, which throw
  before anything is changed; `sa_flags`, on which nothing in `sig` depends.
* `filelikebuf`, `processstream`, `pipestream`: do not compile on POSIX, so there is no
  behaviour to be faithful to.

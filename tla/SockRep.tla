------------------------------- MODULE SockRep -------------------------------
(***************************************************************************)
(* Ownership in socketpp::sockbuf (socket++/sockstream.cpp): several       *)
(* sockbufs that share one sockcnt (a shared_ptr, rep), each with get and  *)
(* put areas of its own, and the descriptor in the sockcnt, which the      *)
(* destructor of the last of them is to close.                             *)
(*                                                                         *)
(* Bytes are abstracted to whether a put area holds unflushed ones         *)
(* (module SockPut has them), and a sockcnt to the descriptor it was made  *)
(* with.  The kernel gives a new socket the lowest free descriptor, so a   *)
(* close too many, or a use after the close, hits somebody else's socket.  *)
(***************************************************************************)
EXTENDS Integers, FiniteSets

CONSTANTS
  Buf,        \* the sockbuf objects a behaviour may create
  MaxFd,      \* bound: descriptors
  Concurrent  \* two destructors may run at once, in two threads

NoRep == "none"   \* a shared_ptr that holds nothing

ASSUME BufAssumption == IsFiniteSet(Buf) /\ NoRep \notin Buf
ASSUME FdAssumption == MaxFd \in Nat \ {0}
ASSUME ConcurrentAssumption == Concurrent \in BOOLEAN

VARIABLES
  state,     \* of each sockbuf: "none", "live", "dying" (its destructor's body
             \* is done, its members are not yet destroyed), "gone"
  rep,       \* the sockcnt it holds: the sockbuf that created it, or NoRep
  put,       \* its put area: "null", "clean", "dirty" (unflushed bytes)
  get,       \* its get area: "null" or "area"
  sock,      \* the descriptor in a sockcnt, by the creator of the sockcnt
  owner,     \* kernel: the sockcnt a descriptor was created for, or NoRep
  wrshut,    \* kernel: descriptors whose writing side is shut down, with the
             \* sockbuf that did it
  reset,     \* kernel: descriptors whose connection broke
  heap,      \* areas allocated and not deleted, as <<creator, which>>
  closes,    \* ghost: how often the socket of a sockcnt was closed
  raced,     \* ghost: sockcnts on which two destructors overlapped
  fate       \* "running", or "terminated" by an exception in a destructor

vars == <<state, rep, put, get, sock, owner, wrshut, reset, heap, closes, raced, fate>>

Fd == 1 .. MaxFd

\* Type invariant. That an area pointer points to allocated memory is part of
\* it: no call ever works on a deleted area.
TypeOK ==
  /\ state \in [Buf -> {"none", "live", "dying", "gone"}]
  /\ rep \in [Buf -> Buf \cup {NoRep}]
  /\ put \in [Buf -> {"null", "clean", "dirty"}]
  /\ get \in [Buf -> {"null", "area"}]
  /\ sock \in [Buf -> Fd \cup {0}]
  /\ owner \in [Fd -> Buf \cup {NoRep}]
  /\ wrshut \subseteq (Fd \X Buf) /\ reset \subseteq Fd
  /\ heap \subseteq (Buf \X {"put", "get"})
  /\ closes \in [Buf -> Nat] /\ raced \subseteq Buf
  /\ fate \in {"running", "terminated"}
  /\ \A b \in Buf : /\ state[b] = "live" /\ put[b] # "null" => <<b, "put">> \in heap
                    /\ state[b] = "live" /\ get[b] # "null" => <<b, "get">> \in heap

Init ==
  /\ state = [b \in Buf |-> "none"]
  /\ rep = [b \in Buf |-> NoRep]
  /\ put = [b \in Buf |-> "null"]
  /\ get = [b \in Buf |-> "null"]
  /\ sock = [b \in Buf |-> 0]
  /\ owner = [f \in Fd |-> NoRep]
  /\ wrshut = {} /\ reset = {}
  /\ heap = {}
  /\ closes = [b \in Buf |-> 0] /\ raced = {}
  /\ fate = "running"

Free == {f \in Fd : owner[f] = NoRep}
FdOf(b) == sock[rep[b]]

\* rep.use_count (): a dying sockbuf still holds its shared_ptr.
UseCount(r) == Cardinality({b \in Buf : rep[b] = r /\ state[b] \in {"live", "dying"}})

\* The program goes on: no exception ended it, and, with one thread, no
\* destructor is half way through.
Running ==
  /\ fate = "running"
  /\ Concurrent \/ \A b \in Buf : state[b] # "dying"

------------------------------------------------------------------------------
\* sockbuf (domain, type, proto) and sockbuf (sockdesc): a new sockcnt for a
\* new descriptor, of socket () or of accept (), and two new areas.
Create(b) ==
  /\ Running /\ state[b] = "none"
  /\ Free # {}
  /\ LET f == CHOOSE x \in Free : \A y \in Free : x <= y IN
       /\ sock' = [sock EXCEPT ![b] = f]
       /\ owner' = [owner EXCEPT ![f] = b]
       /\ wrshut' = wrshut \ ({f} \X Buf)
       /\ reset' = reset \ {f}
  /\ state' = [state EXCEPT ![b] = "live"]
  /\ rep' = [rep EXCEPT ![b] = b]
  /\ put' = [put EXCEPT ![b] = "clean"]
  /\ get' = [get EXCEPT ![b] = "area"]
  /\ heap' = heap \cup {<<b, "put">>, <<b, "get">>}
  /\ UNCHANGED <<closes, raced, fate>>

\* sockbuf (const sockbuf&), in the stream constructors from a buffer too: the
\* sockcnt is shared, the streambuf base is default-initialised.
Copy(b, c) ==
  /\ Running /\ state[b] = "live" /\ state[c] = "none"
  /\ state' = [state EXCEPT ![c] = "live"]
  /\ rep' = [rep EXCEPT ![c] = rep[b]]
  /\ put' = [put EXCEPT ![c] = "null"]
  /\ get' = [get EXCEPT ![c] = "null"]
  /\ UNCHANGED <<sock, owner, wrshut, reset, heap, closes, raced, fate>>

\* sputc, sputn: bytes stay in the put area.
Put(b) ==
  /\ Running /\ state[b] = "live" /\ put[b] = "clean"
  /\ put' = [put EXCEPT ![b] = "dirty"]
  /\ UNCHANGED <<state, rep, get, sock, owner, wrshut, reset, heap, closes, raced, fate>>

\* sync () of a put area with unflushed bytes: all are written, or ::write
\* fails and they stay (SockPut has the parts in between).
CanWrite(f) == f \notin reset /\ ~(\E b \in Buf : <<f, b>> \in wrshut)
Pubsync(b) ==
  /\ Running /\ state[b] = "live" /\ put[b] = "dirty" /\ CanWrite(FdOf(b))
  /\ put' = [put EXCEPT ![b] = "clean"]
  /\ UNCHANGED <<state, rep, get, sock, owner, wrshut, reset, heap, closes, raced, fate>>

\* Seeded fault: the pointers keep pointing to what was deleted.
ShutdownDangling(b, how) ==
  /\ Running /\ state[b] = "live"
  /\ heap' = heap \ ((IF how = "write" THEN {} ELSE {<<b, "get">>})
                     \cup (IF how = "read" THEN {} ELSE {<<b, "put">>}))
  /\ wrshut' = IF how = "read" THEN wrshut ELSE wrshut \cup {<<FdOf(b), b>>}
  /\ UNCHANGED <<state, rep, put, get, sock, owner, reset, closes, raced, fate>>

\* shutdown (how): the areas of this sockbuf go, the socket is shut down for
\* all that share it. On a broken connection ::shutdown may fail, after the
\* areas of the side at hand were deleted, and shut_readwrite then stops half
\* way.
Shutdown(b, how) ==
  /\ Running /\ state[b] = "live"
  /\ \E rfails, wfails \in IF FdOf(b) \in reset THEN BOOLEAN ELSE {FALSE} :
       LET r == how # "write"
           w == how = "write" \/ (how = "readwrite" /\ ~rfails) IN
       /\ get' = [get EXCEPT ![b] = IF r THEN "null" ELSE @]
       /\ put' = [put EXCEPT ![b] = IF w THEN "null" ELSE @]
       /\ heap' = heap \ ((IF r THEN {<<b, "get">>} ELSE {})
                          \cup (IF w THEN {<<b, "put">>} ELSE {}))
       /\ wrshut' = IF w /\ ~wfails THEN wrshut \cup {<<FdOf(b), b>>} ELSE wrshut
  /\ UNCHANGED <<state, rep, sock, owner, reset, closes, raced, fate>>

\* Seeded faults: every sockbuf closes; none does as long as another one was
\* made from it.
DtorBodyAlways(b) ==
  /\ fate = "running" /\ state[b] = "live"
  /\ state' = [state EXCEPT ![b] = "dying"]
  /\ heap' = heap \ {<<b, "put">>, <<b, "get">>}
  /\ owner' = [owner EXCEPT ![FdOf(b)] = NoRep]
  /\ closes' = [closes EXCEPT ![rep[b]] = @ + 1]
  /\ UNCHANGED <<rep, put, get, sock, wrshut, reset, raced, fate>>
DtorBodyNever(b) ==
  /\ fate = "running" /\ state[b] = "live"
  /\ state' = [state EXCEPT ![b] = "dying"]
  /\ UNCHANGED <<rep, put, get, sock, owner, wrshut, reset, heap, closes, raced, fate>>

\* Seeded fault: the flush does not ask for a put area first.
FlushFailsNull(b) == put[b] # "clean" /\ ~CanWrite(FdOf(b))

\* overflow (EOF) throws: unflushed bytes, and a socket that takes none.
FlushFails(b) == put[b] = "dirty" /\ ~CanWrite(FdOf(b))

\* The body of ~sockbuf (): overflow (EOF) flushes; then, if it is the last
\* one to hold the sockcnt, it deletes its own areas and closes the
\* descriptor. An exception of the flush leaves a destructor: std::terminate.
DtorBody(b) ==
  /\ Running /\ state[b] = "live"
  /\ \/ /\ FlushFails(b)
        /\ fate' = "terminated"
        /\ UNCHANGED <<state, heap, owner, closes, raced>>
     \/ /\ ~FlushFails(b)
        /\ state' = [state EXCEPT ![b] = "dying"]
        /\ \/ /\ UseCount(rep[b]) = 1
              /\ heap' = heap \ {a \in {<<b, "put">>, <<b, "get">>} :
                                   \/ a[2] = "put" /\ put[b] # "null"
                                   \/ a[2] = "get" /\ get[b] # "null"}
              /\ owner' = [owner EXCEPT ![FdOf(b)] = NoRep]
              /\ closes' = [closes EXCEPT ![rep[b]] = @ + 1]
           \/ /\ UseCount(rep[b]) # 1
              /\ UNCHANGED <<heap, owner, closes>>
        /\ raced' = raced \cup {rep[c] : c \in {x \in Buf : state[x] = "dying"
                                                           /\ rep[x] = rep[b]}}
        /\ UNCHANGED fate
  /\ UNCHANGED <<rep, put, get, sock, wrshut, reset>>

\* The end of ~sockbuf (): the member rep, its shared_ptr, is destroyed.
DtorMembers(b) ==
  /\ fate = "running" /\ state[b] = "dying"
  /\ state' = [state EXCEPT ![b] = "gone"]
  /\ UNCHANGED <<rep, put, get, sock, owner, wrshut, reset, heap, closes, raced, fate>>

\* The peer breaks a connection.
Break(f) ==
  /\ fate = "running"
  /\ owner[f] # NoRep /\ f \notin reset
  /\ reset' = reset \cup {f}
  /\ UNCHANGED <<state, rep, put, get, sock, owner, wrshut, heap, closes, raced, fate>>

Next ==
  \/ \E b \in Buf : Create(b) \/ Put(b) \/ Pubsync(b) \/ DtorBody(b) \/ DtorMembers(b)
  \/ \E b, c \in Buf : Copy(b, c)
  \/ \E b \in Buf, how \in {"read", "write", "readwrite"} : Shutdown(b, how)
  \/ \E f \in Fd : Break(f)

Spec == Init /\ [][Next]_vars

------------------------------------------------------------------------------
(* Properties.                                                             *)

\* While a sockbuf lives, the descriptor it uses is open and is the one its
\* sockcnt was made for: no copy's destructor closed it under the others, and
\* it was not given to another socket meanwhile.
SocketStaysOurs ==
  \A b \in Buf : state[b] = "live" => owner[FdOf(b)] = rep[b]

\* A socket is closed once at most; and once the last sockbuf on it is gone, in
\* whatever order copies and original went, it is closed: unless the
\* destructors of two of them overlapped, when each may see the other's
\* reference and neither closes.
ClosedOnce ==
  \A r \in Buf : /\ closes[r] <= 1
                 /\ r \notin raced /\ rep[r] = r /\ UseCount(r) = 0 => closes[r] = 1

\* An exception leaves a destructor, and ends the program, only if unflushed
\* bytes met a connection that was reset, or that a shutdown through another
\* sockbuf on the same socket had closed for writing.
TerminatedOnlyBy ==
  fate = "terminated" =>
    \E b \in Buf : /\ state[b] = "live" /\ put[b] = "dirty"
                   /\ \/ FdOf(b) \in reset
                      \/ \E c \in Buf \ {b} : <<FdOf(b), c>> \in wrshut

\* "if the last instance is being destroyed, close socket and destroy object"
\* (sockstream.cpp:126): once no sockbuf is left on a socket, no area of one
\* is left allocated. The code deletes the areas of the last sockbuf to go
\* only, and those of a copy are null.
AreasFreed ==
  \A r \in Buf : rep[r] = r /\ UseCount(r) = 0
    => \A b \in Buf : rep[b] = r => <<b, "put">> \notin heap /\ <<b, "get">> \notin heap
=============================================================================

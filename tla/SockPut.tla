------------------------------- MODULE SockPut -------------------------------
(***************************************************************************)
(* The output half of socketpp::sockbuf (socket++/sockstream.cpp): the put *)
(* area, sputc/sputn/pubsync, the flush in sync(), the select and the      *)
(* ::write loop in write(), shutdown() and the destructor, against a       *)
(* kernel that takes any part of what it is offered, blocks, times out,    *)
(* is interrupted or refuses.                                              *)
(*                                                                         *)
(* One thread drives the sockbuf.  The steps are the system calls (where   *)
(* the peer and the kernel may act in between) and the straight-line code  *)
(* between two of them.                                                    *)
(*                                                                         *)
(* A byte is the position it takes in the stream of accepted bytes: the    *)
(* client offers the bytes acc+1, acc+2, ... whatever their values are, so *)
(* a byte that is lost, repeated or overtaken shows in the wire.           *)
(***************************************************************************)
EXTENDS Bytes, SockErr

CONSTANTS
  Cap,       \* BUFSIZ, the size of the put area
  SndBuf,    \* size of the kernel's send queue
  MaxArg,    \* bound: the longest argument of one sputn
  MaxBytes   \* bound: bytes offered in a behaviour

ASSUME CapAssumption == Cap \in Nat \ {0}
ASSUME SndBufAssumption == SndBuf \in Nat \ {0}
ASSUME BoundAssumption == MaxArg \in Nat /\ MaxBytes \in Nat

VARIABLES
  put,      \* pbase() .. pptr(): the unflushed bytes
  area,     \* "live", or "null" once shutdown has deleted it
  call,     \* the call in progress: which, the bytes of its argument not yet
            \* copied, the count its returned-to xsputn frames have summed
  io,       \* where sync() is: "no", in "select", in the "write" loop; wlen
  out,      \* outcome of the latest call: a value or an exception
  stmo,     \* rep->stmo: -1 block, 0 poll, 1 some seconds
  nb,       \* the descriptor is non-blocking
  wire,     \* bytes the kernel has taken
  room,     \* free space of the kernel's send queue
  broken,   \* the connection was reset: writes fail
  fate,     \* "open", "destroyed", or "terminated" by an exception in ~sockbuf
  acc,      \* ghost: bytes ever copied into the put area
  from,     \* ghost: acc when the latest call began
  dropped   \* ghost: accepted bytes thrown away unsent

sb == <<put, area, call, io, out, stmo, fate>>
kernel == <<nb, wire, room, broken>>
ghosts == <<acc, from, dropped>>
vars == <<put, area, call, io, out, stmo, nb, wire, room, broken, fate,
          acc, from, dropped>>

Minimum(a, b) == IF a < b THEN a ELSE b

Ops == {"sputc", "sputn", "pubsync", "dtor"}
Exceptions == {"ETIMEDOUT", "EAGAIN", "EINTR", "EPIPE", "ENOTCONN"}

Idle == [op |-> "none", rest |-> <<>>, ret |-> 0]
NoIo == [at |-> "no", wlen |-> 0]
Nothing == [op |-> "none", kind |-> "none", val |-> 0]
Value(op, v) == [op |-> op, kind |-> "value", val |-> v]
Eof(op) == [op |-> op, kind |-> "EOF", val |-> 0]
Throw(op, e) == [op |-> op, kind |-> e, val |-> 0]

\* Type invariant: what each variable holds. Its one bound that is not a type
\* is the memory the code may touch: pptr() never passes epptr(), in sputc's
\* store, xsputn's memcpy and the store after overflow's sync.
TypeOK ==
  /\ put \in Seq(Nat) /\ Len(put) <= Cap
  /\ area \in {"live", "null"}
  /\ call \in [op : Ops \cup {"none"}, rest : Seq(Nat), ret : Nat]
  /\ io \in [at : {"no", "select", "write"}, wlen : Nat]
  /\ out \in [op : Ops \cup {"none", "shutdown"},
              kind : Exceptions \cup {"none", "value", "EOF"}, val : Nat]
  /\ stmo \in {-1, 0, 1}
  /\ nb \in BOOLEAN
  /\ wire \in Seq(Nat)
  /\ room \in 0 .. SndBuf
  /\ broken \in BOOLEAN
  /\ fate \in {"open", "destroyed", "terminated"}
  /\ acc \in Nat /\ from \in Nat /\ dropped \in Nat

\* sockbuf::sockbuf (int, type, int) and sockbuf (sockdesc) give the same
\* put area: BUFSIZ chars, empty.
Init ==
  /\ put = <<>>
  /\ area = "live"
  /\ call = Idle
  /\ io = NoIo
  /\ out = Nothing
  /\ stmo = -1
  /\ nb = FALSE
  /\ wire = <<>>
  /\ room = SndBuf
  /\ broken = FALSE
  /\ fate = "open"
  /\ acc = 0 /\ from = 0 /\ dropped = 0

\* The client may call: no call of its own is running, the object exists.
CanCall == fate = "open" /\ call.op = "none"

------------------------------------------------------------------------------
(* Building blocks of the calls.                                           *)

\* sync() with data to flush: write() asks select first when a timeout is set.
EnterSync ==
  /\ io' = [at |-> IF stmo = -1 THEN "write" ELSE "select", wlen |-> 0]
  /\ out' = Nothing

\* The call ends with outcome o.
Return(o) ==
  /\ call' = Idle
  /\ io' = NoIo
  /\ out' = o

\* n more bytes of s go from the caller's buffer to pptr().
Copy(p, s, n) ==
  /\ put' = p \o SubSeq(s, 1, n)
  /\ acc' = acc + n

\* Seeded faults: the recursion's result loses the outer frames' counts; the
\* comparison with the room left is off by one.
XsputnInnerCount(p, s, ret) ==
  LET wval == Cap - Len(p) IN
  \/ /\ Len(s) <= wval
     /\ Copy(p, s, Len(s))
     /\ Return(Value("sputn", Len(s)))
  \/ /\ Len(s) > wval
     /\ Copy(p, s, wval)
     /\ call' = [op |-> "sputn", rest |-> SubSeq(s, wval + 1, Len(s)),
                 ret |-> ret + wval]
     /\ EnterSync
XsputnOffByOne(p, s, ret) ==
  LET wval == Cap - Len(p) IN
  \/ /\ Len(s) <= wval + 1
     /\ Copy(p, s, Len(s))
     /\ Return(Value("sputn", ret + Len(s)))
  \/ /\ Len(s) > wval + 1
     /\ Copy(p, s, wval)
     /\ call' = [op |-> "sputn", rest |-> SubSeq(s, wval + 1, Len(s)),
                 ret |-> ret + wval]
     /\ EnterSync

\* xsputn (s, Len(s)) on a put area holding p, the outer frames having
\* summed ret: what fits is copied; if all did, the count is returned through
\* the frames, otherwise the area is now full and overflow () syncs it before
\* the rest is tried again.
Xsputn(p, s, ret) ==
  LET wval == Cap - Len(p) IN
  \/ /\ Len(s) <= wval
     /\ Copy(p, s, Len(s))
     /\ Return(Value("sputn", ret + Len(s)))
  \/ /\ Len(s) > wval
     /\ Copy(p, s, wval)
     /\ call' = [op |-> "sputn", rest |-> SubSeq(s, wval + 1, Len(s)),
                 ret |-> ret + wval]
     /\ EnterSync

\* ~sockbuf after overflow (EOF): delete the areas, close the socket. A
\* failing close throws out of the destructor.
CloseSocket ==
  /\ \E closes \in BOOLEAN : fate' = IF closes THEN "destroyed" ELSE "terminated"
  /\ Return(Nothing)
  /\ put' = <<>>

------------------------------------------------------------------------------
(* The calls of the client.                                                *)

\* streambuf::sputc (c): a store when there is room, else overflow (c), which
\* gives EOF without a put area and flushes a full one first.
Sputc ==
  /\ CanCall /\ acc < MaxBytes
  /\ from' = acc
  /\ \/ /\ area = "live" /\ Len(put) < Cap
        /\ Copy(put, <<acc + 1>>, 1)
        /\ Return(Value("sputc", 1))
     \/ /\ area = "live" /\ Len(put) = Cap
        /\ call' = [op |-> "sputc", rest |-> <<acc + 1>>, ret |-> 0]
        /\ EnterSync
        /\ UNCHANGED <<put, acc>>
     \/ /\ area = "null"
        /\ Return(Eof("sputc"))
        /\ UNCHANGED <<put, acc>>
  /\ UNCHANGED <<area, stmo, fate, kernel, dropped>>

\* streambuf::sputn (s, n), n > 0.
Sputn ==
  /\ CanCall
  /\ from' = acc
  /\ \E n \in 1 .. MaxArg :
       /\ acc + n <= MaxBytes
       /\ \/ /\ area = "live"
             /\ Xsputn(put, [i \in 1 .. n |-> acc + i], 0)
          \/ /\ area = "null"
             /\ Return(Value("sputn", 0))
             /\ UNCHANGED <<put, acc>>
  /\ UNCHANGED <<area, stmo, fate, kernel, dropped>>

\* pubsync (): sync () returns 0 at once when there is nothing to flush or
\* nowhere to flush it from.
Pubsync ==
  /\ CanCall
  /\ from' = acc
  /\ \/ /\ put = <<>>
        /\ Return(Value("pubsync", 0))
     \/ /\ put # <<>>
        /\ call' = [Idle EXCEPT !.op = "pubsync"]
        /\ EnterSync
  /\ UNCHANGED <<put, area, stmo, fate, kernel, acc, dropped>>

\* Seeded fault: the destructor closes without flushing.
DestroyUnflushed ==
  /\ CanCall
  /\ from' = acc
  /\ CloseSocket
  /\ UNCHANGED <<area, stmo, kernel, acc, dropped>>

\* ~sockbuf () of the last instance: overflow (EOF) flushes what is there.
Destroy ==
  /\ CanCall
  /\ from' = acc
  /\ \/ put = <<>> /\ CloseSocket
     \/ /\ put # <<>>
        /\ call' = [Idle EXCEPT !.op = "dtor"]
        /\ EnterSync
        /\ UNCHANGED <<put, fate>>
  /\ UNCHANGED <<area, stmo, kernel, acc, dropped>>

\* sendtimeout (wp) and nonblock (set).
Sendtimeout ==
  /\ CanCall
  /\ stmo' \in {-1, 0, 1} \ {stmo}
  /\ UNCHANGED <<put, area, call, io, out, fate, kernel, ghosts>>

Nonblock ==
  /\ CanCall
  /\ nb' = ~nb
  /\ UNCHANGED <<sb, wire, room, broken, ghosts>>

\* shutdown (shut_write) frees the put area, unflushed bytes included, before
\* ::shutdown, which may fail on a reset connection.
ShutdownWrite ==
  /\ CanCall
  /\ put' = <<>>
  /\ area' = "null"
  /\ dropped' = dropped + Len(put)
  /\ out' \in {Value("shutdown", 0)} \cup
              (IF broken THEN {Throw("shutdown", "ENOTCONN")} ELSE {})
  /\ from' = acc
  /\ UNCHANGED <<call, io, stmo, fate, kernel, acc>>

\* shutdown (shut_readwrite) runs shutdown (shut_read) first: when that
\* throws, the put area is as it was.
ShutdownReadWrite ==
  \/ ShutdownWrite
  \/ /\ CanCall /\ broken
     /\ out' = Throw("shutdown", "ENOTCONN")
     /\ from' = acc
     /\ UNCHANGED <<put, area, call, io, stmo, fate, kernel, acc, dropped>>

------------------------------------------------------------------------------
(* sync () and write ().                                                   *)

\* Seeded faults: nothing is repositioned, so what was written stays in the
\* put area; the area is emptied as after a success.
SyncThrowsKeepsAll(e) ==
  /\ Return(Throw(call.op, e))
  /\ UNCHANGED <<put, fate, dropped>>
SyncThrowsEmpties(e) ==
  /\ put' = <<>>
  /\ Return(Throw(call.op, e))
  /\ UNCHANGED <<fate, dropped>>

\* write () threw: sync () moves the unwritten bytes to the front of the put
\* area and throws on; out of a destructor that is std::terminate.
SyncThrows(e) ==
  IF call.op = "dtor"
  THEN /\ fate' = "terminated"
       /\ dropped' = dropped + (Len(put) - io.wlen)
       /\ put' = <<>>
       /\ Return(Nothing)
  ELSE /\ put' = SubSeq(put, io.wlen + 1, Len(put))
       /\ Return(Throw(call.op, e))
       /\ UNCHANGED <<fate, dropped>>

\* is_writeready (stmo) finds the socket writable, or in error.
SelectReady ==
  /\ io.at = "select"
  /\ room > 0 \/ broken
  /\ io' = [io EXCEPT !.at = "write"]
  /\ UNCHANGED <<put, area, call, out, stmo, fate, kernel, ghosts>>

\* select times out, or a signal interrupts it. Either throws err, which
\* sync () does not catch: no byte was written, none moves.
SelectTimesOut ==
  /\ io.at = "select"
  /\ room = 0 /\ ~broken
  /\ SyncThrows("ETIMEDOUT")
  /\ UNCHANGED <<area, stmo, kernel, acc, from>>

SelectInterrupted ==
  /\ io.at = "select"
  /\ room = 0 /\ ~broken
  /\ SyncThrows("EINTR")
  /\ UNCHANGED <<area, stmo, kernel, acc, from>>

\* The write loop has bytes left: its next step is a ::write.
Writing == io.at = "write" /\ io.wlen < Len(put)

\* One ::write of the loop takes n bytes; with select asked only before the
\* loop, none of the later ones waits for a timeout.
WriteSome ==
  /\ Writing
  /\ ~broken
  /\ \E n \in 1 .. Minimum(room, Len(put) - io.wlen) :
       /\ wire' = wire \o SubSeq(put, io.wlen + 1, io.wlen + n)
       /\ room' = room - n
       /\ io' = [io EXCEPT !.wlen = io.wlen + n]
  /\ UNCHANGED <<put, area, call, out, stmo, nb, broken, fate, ghosts>>

\* Seeded faults: -1 is taken for "try again", on a full queue, or on a reset.
WriteFailsRetriesFull ==
  /\ Writing /\ broken
  /\ SyncThrows("EPIPE")
  /\ UNCHANGED <<area, stmo, kernel, acc, from>>
WriteFailsRetriesReset ==
  /\ Writing /\ ~broken /\ room = 0 /\ nb
  /\ SyncThrows("EAGAIN")
  /\ UNCHANGED <<area, stmo, kernel, acc, from>>

\* A ::write gives -1: the connection is broken, or the kernel's queue is
\* full and the socket non-blocking.
WriteFails ==
  /\ Writing
  /\ \/ broken /\ SyncThrows("EPIPE")
     \/ ~broken /\ room = 0 /\ nb /\ SyncThrows("EAGAIN")
  /\ UNCHANGED <<area, stmo, kernel, acc, from>>

\* A signal ends the wait of a blocking ::write that has taken nothing.
WriteInterrupted ==
  /\ Writing
  /\ ~broken /\ room = 0 /\ ~nb
  /\ SyncThrows("EINTR")
  /\ UNCHANGED <<area, stmo, kernel, acc, from>>

\* Seeded fault: a ::write that took some bytes is taken for one that took all.
SyncReturnsEarly ==
  /\ io.at = "write" /\ io.wlen > 0
  /\ call.op = "pubsync"
  /\ put' = <<>>
  /\ Return(Value("pubsync", 0))
  /\ UNCHANGED <<acc, fate, area, stmo, kernel, from, dropped>>

\* The loop ends: sync () empties the put area and the call goes on.
SyncReturns ==
  /\ io.at = "write" /\ io.wlen = Len(put)
  /\ \/ /\ call.op = "pubsync"
        /\ put' = <<>>
        /\ Return(Value("pubsync", 0))
        /\ UNCHANGED <<acc, fate>>
     \/ /\ call.op = "sputc"
        /\ Copy(<<>>, call.rest, 1)
        /\ Return(Value("sputc", 1))
        /\ UNCHANGED fate
     \/ /\ call.op = "sputn"
        /\ Xsputn(<<>>, call.rest, call.ret)
        /\ UNCHANGED fate
     \/ call.op = "dtor" /\ CloseSocket /\ UNCHANGED acc
  /\ UNCHANGED <<area, stmo, kernel, from, dropped>>

------------------------------------------------------------------------------
(* The other side of the socket.                                           *)

\* The peer reads, or the network moves on: the kernel's queue gets shorter.
Drain ==
  /\ fate = "open"
  /\ room < SndBuf /\ ~broken
  /\ room' \in (room + 1) .. SndBuf
  /\ UNCHANGED <<sb, nb, wire, broken, ghosts>>

\* The peer resets the connection.
Break ==
  /\ fate = "open"
  /\ ~broken
  /\ broken' = TRUE
  /\ UNCHANGED <<sb, nb, wire, room, ghosts>>

Calls == Sputc \/ Sputn \/ Pubsync \/ Destroy \/ Sendtimeout \/ Nonblock
           \/ ShutdownWrite \/ ShutdownReadWrite
Proceed == SelectReady \/ SelectTimesOut \/ WriteSome \/ WriteFails \/ SyncReturns
Signal == SelectInterrupted \/ WriteInterrupted
Peer == Drain \/ Break

Next == Calls \/ Proceed \/ Signal \/ Peer

Spec == Init /\ [][Next]_vars

\* The thread keeps running: a started call takes its next step when it can
\* (a select returns once the socket is writable or the time is over).
\* Nothing is assumed of the peer, of signals or of the client.
FairSpec == Spec /\ WF_vars(Proceed)

------------------------------------------------------------------------------
(* Properties.                                                             *)

\* The kernel gets the accepted bytes in the order of acceptance, each once:
\* no failed, partial or repeated flush re-sends a byte or skips one
\* (the repositioning in sync () and the wlen bookkeeping of write ()).
WireInOrder == Follows(wire, 0)

\* Every byte the put area was ever given is in the kernel, still unflushed
\* in its place, or was discarded by shutdown or with the process: at any
\* point of any call, after any exception.
NothingLost ==
  /\ acc = Len(wire) + (Len(put) - io.wlen) + dropped
  /\ Follows(put, Len(wire) - io.wlen)

\* What a put call tells is what happened: the count sputn returns, summed
\* over the frames of xsputn, is the number of bytes taken, and a sputc that
\* fails has not taken its byte, so that it may be repeated.
CountsAreTold ==
  /\ out.op = "sputn" /\ out.kind = "value" => out.val = acc - from
  /\ out.op = "sputc" => acc - from = (IF out.kind = "value" THEN 1 ELSE 0)

\* pubsync () returning means every accepted byte that was not discarded by a
\* shutdown is in the kernel.
FlushReachesWire ==
  out.op = "pubsync" /\ out.kind = "value" => Len(wire) + dropped = acc

\* An err that a put call throws tells its catcher whether to try again
\* (socketerr.h:131-147): conn () on a broken connection and, though nothing
\* is broken then, when the send timeout ran out; benign () just when a
\* non-blocking socket refused, with every unwritten byte kept for the next
\* flush. An interrupted flush keeps them too, but is in neither class.
ErrorsAreClassed ==
  [][out'.kind \in Exceptions /\ out' # out /\ out'.op # "shutdown" =>
       /\ conn(out'.kind) <=> broken \/ (io.at = "select" /\ out'.kind # "EINTR")
       /\ benign(out'.kind) <=> Writing /\ nb /\ ~broken
       /\ put' = SubSeq(put, io.wlen + 1, Len(put))]_vars

\* If the kernel's queue is never full for good, or the connection breaks,
\* every call ends, whatever timeouts and modes are set.
CallsReturn ==
  []<>(room > 0 \/ broken) => (call.op # "none" ~> call.op = "none")

\* A call on a non-blocking socket ends even if the peer never reads
\* (sockstream.cpp:787-790).
NonblockReturns == (call.op # "none" /\ nb) ~> (call.op = "none")

\* Polling, rep->stmo = 0, is documented as not waiting (sockstream.h:163,
\* "0==poll"): a call made then ends even if the peer never reads. It does
\* not: write () asks select once, and then blocks in the later ::write calls.
PollReturns == (call.op # "none" /\ stmo = 0) ~> (call.op = "none")

\* The put area implements the abstract output stream: kernel bytes are what
\* was sent, the bytes behind wlen are the queue.
Stream == INSTANCE OutStream WITH
  Byte <- Nat,
  sent <- wire,
  queue <- SubSeq(put, io.wlen + 1, Len(put)),
  mode <- IF fate = "destroyed" THEN "closed" ELSE fate
ImplementsStream == Stream!Spec
=============================================================================

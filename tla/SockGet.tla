------------------------------- MODULE SockGet -------------------------------
(***************************************************************************)
(* The input half of socketpp::sockbuf (socket++/sockstream.cpp): the get  *)
(* area, sgetc/sbumpc/sgetn/sungetc over underflow, uflow, xsgetn and      *)
(* pbackfail, and read () with its select, its check for the out-of-band   *)
(* mark and its ::read, against a peer that sends, sends urgent data,      *)
(* closes or resets at any time.                                           *)
(*                                                                         *)
(* A byte is its position in what the peer sends, 1, 2, ...; the chars of  *)
(* the freshly allocated get area, which nobody has written, have the      *)
(* positions up to 0.                                                      *)
(***************************************************************************)
EXTENDS Bytes

CONSTANTS
  Cap,       \* BUFSIZ, the size of the get area
  MaxArg,    \* bound: the longest argument of one sgetn
  MaxBytes,  \* bound: bytes the peer sends
  MaxUngot   \* bound: chars put back beyond those taken

ASSUME CapAssumption == Cap \in Nat \ {0}
ASSUME BoundAssumption == MaxArg \in Nat /\ MaxBytes \in Nat /\ MaxUngot \in Nat

VARIABLES
  get,      \* eback () .. egptr ()
  g,        \* gptr () - eback ()
  area,     \* "live", or "null" once shutdown has deleted it
  call,     \* the call in progress: which, how many chars it still needs, how
            \* many it has copied out
  io,       \* where read () is: "no", "select", "mark" (ioctl), "read"
  out,      \* outcome of the latest call: a value or an exception
  rtmo,     \* rep->rtmo: -1 block, 0 poll, 1 some seconds
  oob,      \* rep->oob: check for the mark before reading
  nb,       \* the descriptor is non-blocking
  rcv,      \* the kernel's receive queue
  mark,     \* how many bytes precede the urgent mark, -1 without one
  peer,     \* "open", "closed", or "reset" until a read has reported it
  taken,    \* bytes read from the kernel
  told,     \* ghost: chars the client was told it got, less those put back
  lost,     \* ghost: chars copied out by an sgetn that then threw
  dropped,  \* ghost: chars read from the kernel and discarded by shutdown
  late      \* ghost: the mark came after the check of the read under way

buffer == <<get, g, area>>
control == <<call, io, out>>
modes == <<rtmo, oob, nb>>
kernel == <<rcv, mark, peer, taken>>
ghosts == <<told, lost, dropped, late>>
vars == <<get, g, area, call, io, out, rtmo, oob, nb, rcv, mark, peer, taken,
          told, lost, dropped, late>>

Ops == {"sgetc", "sbumpc", "sgetn", "sungetc"}
Exceptions == {"ETIMEDOUT", "EAGAIN", "EINTR", "ECONNRESET", "ENOTCONN", "sockoob"}

Idle == [op |-> "none", need |-> 0, ret |-> 0]
Nothing == [op |-> "none", kind |-> "none", val |-> 0, asked |-> 0]
Value(op, v) == [op |-> op, kind |-> "value", val |-> v, asked |-> 0]
Count(v, n) == [op |-> "sgetn", kind |-> "value", val |-> v, asked |-> n]
Eof(op) == [op |-> op, kind |-> "EOF", val |-> 0, asked |-> 0]
Throw(op, e) == [op |-> op, kind |-> e, val |-> 0, asked |-> 0]

\* Type invariant, with the memory bound that matters: egptr () stays within
\* BUFSIZ and gptr () within the area, through refills, takes and put-backs.
TypeOK ==
  /\ get \in Seq(Int) /\ Len(get) <= Cap
  /\ g \in 0 .. Len(get)
  /\ area \in {"live", "null"}
  /\ call \in [op : Ops \cup {"none"}, need : Nat, ret : Nat]
  /\ io \in {"no", "select", "mark", "read"}
  /\ out \in [op : Ops \cup {"none", "shutdown"},
              kind : Exceptions \cup {"none", "value", "EOF"}, val : Int, asked : Nat]
  /\ rtmo \in {-1, 0, 1} /\ oob \in BOOLEAN /\ nb \in BOOLEAN
  /\ rcv \in Seq(Int)
  /\ mark \in Int /\ mark >= -1
  /\ peer \in {"open", "closed", "reset"}
  /\ taken \in Nat /\ told \in Int /\ lost \in Nat /\ dropped \in Int
  /\ late \in BOOLEAN

\* The constructors: gptr () = egptr () at the end of BUFSIZ chars that are
\* there to be put back into, but hold nothing yet.
Init ==
  /\ get = [i \in 1 .. Cap |-> i - Cap]
  /\ g = Cap
  /\ area = "live"
  /\ call = Idle
  /\ io = "no"
  /\ out = Nothing
  /\ rtmo = -1 /\ oob = FALSE /\ nb = FALSE
  /\ rcv = <<>>
  /\ mark = -1
  /\ peer = "open"
  /\ taken = 0 /\ told = 0 /\ lost = 0 /\ dropped = 0
  /\ late = FALSE

CanCall == call.op = "none"

------------------------------------------------------------------------------
(* Building blocks of the calls.                                           *)

\* read () begins: select with a timeout set, the mark with oob set, ::read.
AfterSelect == IF oob THEN "mark" ELSE "read"

\* Seeded fault: select is asked before the first ::read of an sgetn only.
EnterReadOnce ==
  /\ io' = IF rtmo # -1 /\ call.op = "none" THEN "select" ELSE AfterSelect
  /\ out' = Nothing
  /\ late' = FALSE

EnterRead ==
  /\ io' = IF rtmo # -1 THEN "select" ELSE AfterSelect
  /\ out' = Nothing
  /\ late' = FALSE

\* The call ends with outcome o.
Return(o) ==
  /\ call' = Idle
  /\ io' = "no"
  /\ out' = o
  /\ UNCHANGED late

\* Seeded faults: the recursion's result loses what the outer frames copied;
\* the comparison with what is there is off by one.
XsgetnInnerCount(b, p, c) ==
  LET rval == Len(b) - p IN
  \/ /\ rval >= c.need
     /\ get' = b /\ g' = p + c.need
     /\ told' = told + c.need
     /\ Return(Count(c.need, c.ret + c.need))
  \/ /\ rval < c.need
     /\ get' = b /\ g' = Len(b)
     /\ call' = [c EXCEPT !.need = c.need - rval, !.ret = c.ret + rval]
     /\ EnterRead
     /\ UNCHANGED told

XsgetnOffByOne(b, p, c) ==
  LET rval == Len(b) - p IN
  \/ /\ rval + 1 >= c.need
     /\ get' = b /\ g' = p + c.need
     /\ told' = told + (c.ret + c.need)
     /\ Return(Count(c.ret + c.need, c.ret + c.need))
  \/ /\ rval + 1 < c.need
     /\ get' = b /\ g' = Len(b)
     /\ call' = [c EXCEPT !.need = c.need - rval, !.ret = c.ret + rval]
     /\ EnterRead
     /\ UNCHANGED told

\* xsgetn for the c.need chars that are missing, the outer frames having
\* copied c.ret, with get area b and gptr () at p: enough is there, or all
\* that is there is copied and underflow () called.
Xsgetn(b, p, c) ==
  LET rval == Len(b) - p IN
  \/ /\ rval >= c.need
     /\ get' = b /\ g' = p + c.need
     /\ told' = told + (c.ret + c.need)
     /\ Return(Count(c.ret + c.need, c.ret + c.need))
  \/ /\ rval < c.need
     /\ get' = b /\ g' = Len(b)
     /\ call' = [c EXCEPT !.need = c.need - rval, !.ret = c.ret + rval]
     /\ EnterRead
     /\ UNCHANGED told

\* An exception leaves underflow (). What an sgetn has copied out is in the
\* caller's memory, but no count tells so.
Throws(e) ==
  /\ Return(Throw(call.op, e))
  /\ lost' = lost + call.ret
  /\ UNCHANGED <<get, g, area, told, dropped>>

------------------------------------------------------------------------------
(* The calls of the client.                                                *)

\* sgetc (): the char at gptr (), after underflow () if there is none.
Sgetc ==
  /\ CanCall
  /\ \/ /\ g < Len(get)
        /\ Return(Value("sgetc", get[g + 1]))
     \/ /\ area = "null"
        /\ Return(Eof("sgetc"))
     \/ /\ area = "live" /\ g = Len(get)
        /\ call' = [op |-> "sgetc", need |-> 1, ret |-> 0]
        /\ EnterRead
  /\ UNCHANGED <<buffer, modes, kernel, told, lost, dropped>>

\* sbumpc (): the char at gptr (), which moves on; uflow () if there is none.
Sbumpc ==
  /\ CanCall
  /\ \/ /\ g < Len(get)
        /\ g' = g + 1
        /\ told' = told + 1
        /\ Return(Value("sbumpc", get[g + 1]))
     \/ /\ area = "null"
        /\ Return(Eof("sbumpc"))
        /\ UNCHANGED <<g, told>>
     \/ /\ area = "live" /\ g = Len(get)
        /\ call' = [op |-> "sbumpc", need |-> 1, ret |-> 0]
        /\ EnterRead
        /\ UNCHANGED <<g, told>>
  /\ UNCHANGED <<get, area, modes, kernel, lost, dropped>>

\* sgetn (s, n), n > 0; without a get area underflow () gives EOF at once.
Sgetn ==
  /\ CanCall
  /\ \E n \in 1 .. MaxArg :
       \/ /\ area = "live"
          /\ Xsgetn(get, g, [op |-> "sgetn", need |-> n, ret |-> 0])
       \/ /\ area = "null"
          /\ Return(Count(0, n))
          /\ UNCHANGED <<get, g, told>>
  /\ UNCHANGED <<area, modes, kernel, lost, dropped>>

\* sungetc (): gptr () moves back while eback () is before it, else
\* pbackfail (), which is EOF always. Nothing asks whether the char before
\* gptr () was ever read.
Sungetc ==
  /\ CanCall
  /\ \/ /\ g > 0 /\ told > -MaxUngot
        /\ g' = g - 1
        /\ told' = told - 1
        /\ Return(Value("sungetc", get[g]))
     \/ /\ g = 0
        /\ Return(Eof("sungetc"))
        /\ UNCHANGED <<g, told>>
  /\ UNCHANGED <<get, area, modes, kernel, lost, dropped>>

\* recvtimeout (wp), oob (b) and nonblock (set).
Recvtimeout ==
  /\ CanCall
  /\ rtmo' \in {-1, 0, 1} \ {rtmo}
  /\ UNCHANGED <<buffer, control, oob, nb, kernel, ghosts>>

Oob ==
  /\ CanCall
  /\ oob' = ~oob
  /\ UNCHANGED <<buffer, control, rtmo, nb, kernel, ghosts>>

Nonblock ==
  /\ CanCall
  /\ nb' = ~nb
  /\ UNCHANGED <<buffer, control, rtmo, oob, kernel, ghosts>>

\* shutdown (shut_read) frees the get area, unread chars included, before
\* ::shutdown, which may fail on a connection that has ended.
ShutdownRead ==
  /\ CanCall
  /\ get' = <<>> /\ g' = 0
  /\ area' = "null"
  /\ dropped' = dropped + (Len(get) - g)
  /\ \E o \in {Value("shutdown", 0)} \cup
              (IF peer = "open" THEN {} ELSE {Throw("shutdown", "ENOTCONN")}) :
       Return(o)
  /\ UNCHANGED <<modes, kernel, told, lost>>

------------------------------------------------------------------------------
(* read ().                                                                *)

\* ::read and select have something to report.
Readable == rcv # <<>> \/ peer # "open"

\* is_readready (rtmo) finds the socket readable.
SelectReady ==
  /\ io = "select" /\ Readable
  /\ io' = AfterSelect
  /\ UNCHANGED <<buffer, call, out, modes, kernel, ghosts>>

\* select times out: err ETIMEDOUT; or a signal interrupts it: err EINTR.
SelectTimesOut ==
  /\ io = "select" /\ ~Readable
  /\ Throws("ETIMEDOUT")
  /\ UNCHANGED <<modes, kernel>>

SelectInterrupted ==
  /\ io = "select" /\ ~Readable
  /\ Throws("EINTR")
  /\ UNCHANGED <<modes, kernel>>

\* Seeded fault: the answer of atmark () is not looked at.
CheckMarkIgnored ==
  /\ io = "mark"
  /\ io' = "read"
  /\ UNCHANGED <<get, g, area, call, out, told, lost, dropped, late>>
  /\ UNCHANGED <<modes, kernel>>

\* atmark (): sockoob when the next byte is behind the mark. Urgent data that
\* comes between this ioctl and the ::read is not seen.
CheckMark ==
  /\ io = "mark"
  /\ \/ /\ mark = taken
        /\ Throws("sockoob")
     \/ /\ mark # taken
        /\ io' = "read"
        /\ UNCHANGED <<get, g, area, call, out, told, lost, dropped, late>>
  /\ UNCHANGED <<modes, kernel>>

\* What one ::read may take at most: the kernel stops at the mark, unless the
\* read starts there.
Available ==
  LET most == IF Len(rcv) < Cap THEN Len(rcv) ELSE Cap IN
  IF mark > taken /\ mark - taken < most THEN mark - taken ELSE most

\* Seeded fault: egptr () goes to the end of the buffer, not of what was read.
RefillToEnd(b) == b \o SubSeq(get, Len(b) + 1, Len(get))

\* setg (eback (), eback (), eback () + rlen): the get area after a refill.
Refill(b) == b

\* ::read takes n bytes; underflow () makes them the get area and the call
\* goes on.
ReadSome ==
  /\ io = "read" /\ rcv # <<>>
  /\ \E n \in 1 .. Available :
       LET b == Refill(SubSeq(rcv, 1, n)) IN
       /\ rcv' = SubSeq(rcv, n + 1, Len(rcv))
       /\ taken' = taken + n
       /\ mark' = IF mark = taken THEN -1 ELSE mark
       /\ \/ /\ call.op = "sgetc"
             /\ get' = b /\ g' = 0
             /\ Return(Value("sgetc", b[1]))
             /\ UNCHANGED told
          \/ /\ call.op = "sbumpc"
             /\ get' = b /\ g' = 1
             /\ told' = told + 1
             /\ Return(Value("sbumpc", b[1]))
          \/ /\ call.op = "sgetn"
             /\ Xsgetn(b, 0, call)
  /\ UNCHANGED <<area, modes, peer, lost, dropped>>

\* Seeded faults: an sgetn that has chars does not stop at the end of the
\* stream; -1 is taken for the end of the stream.
ReadEofTriesAgain ==
  /\ io = "read" /\ rcv = <<>> /\ peer = "closed" /\ call.ret = 0
  /\ Return(IF call.op = "sgetn" THEN Count(call.ret, call.ret + call.need)
                                 ELSE Eof(call.op))
  /\ UNCHANGED <<buffer, modes, kernel, told, lost, dropped>>
ReadFailsAsEof ==
  /\ io = "read" /\ rcv = <<>> /\ peer = "open" /\ nb
  /\ Return(IF call.op = "sgetn" THEN Count(call.ret, call.ret + call.need)
                                 ELSE Eof(call.op))
  /\ told' = told + call.ret
  /\ UNCHANGED <<get, g, area, lost, dropped, modes, kernel>>

\* ::read gives 0: underflow () gives EOF and leaves the area as it is; an
\* sgetn returns what it has.
ReadEof ==
  /\ io = "read" /\ rcv = <<>> /\ peer = "closed"
  /\ Return(IF call.op = "sgetn" THEN Count(call.ret, call.ret + call.need)
                                 ELSE Eof(call.op))
  /\ told' = told + call.ret
  /\ UNCHANGED <<buffer, modes, kernel, lost, dropped>>

\* ::read gives -1: a reset, reported once, or an empty queue in
\* non-blocking mode.
ReadFails ==
  /\ io = "read" /\ rcv = <<>>
  /\ \/ /\ peer = "reset"
        /\ peer' = "closed"
        /\ Throws("ECONNRESET")
     \/ /\ peer = "open" /\ nb
        /\ Throws("EAGAIN")
        /\ UNCHANGED peer
  /\ UNCHANGED <<modes, rcv, mark, taken>>

\* A signal ends the wait of a blocking ::read.
ReadInterrupted ==
  /\ io = "read" /\ rcv = <<>> /\ peer = "open" /\ ~nb
  /\ Throws("EINTR")
  /\ UNCHANGED <<modes, kernel>>

------------------------------------------------------------------------------
(* The peer.                                                               *)

sent == taken + Len(rcv)

PeerSends ==
  /\ peer = "open"
  /\ \E n \in 1 .. MaxBytes :
       /\ sent + n <= MaxBytes
       /\ rcv' = rcv \o [i \in 1 .. n |-> sent + i]
  /\ UNCHANGED <<buffer, control, modes, mark, peer, taken, ghosts>>

\* An urgent byte: its place in the stream is the mark.
PeerSendsUrgent ==
  /\ peer = "open" /\ mark = -1
  /\ mark' = sent
  /\ late' = (late \/ io = "read")
  /\ UNCHANGED <<buffer, control, modes, rcv, peer, taken, told, lost, dropped>>

PeerEnds ==
  /\ peer = "open"
  /\ peer' \in {"closed", "reset"}
  /\ UNCHANGED <<buffer, control, modes, rcv, mark, taken, ghosts>>

Calls == Sgetc \/ Sbumpc \/ Sgetn \/ Sungetc \/ Recvtimeout \/ Oob \/ Nonblock
           \/ ShutdownRead
Proceed == SelectReady \/ SelectTimesOut \/ CheckMark \/ ReadSome \/ ReadEof
             \/ ReadFails
Signal == SelectInterrupted \/ ReadInterrupted
Peer == PeerSends \/ PeerSendsUrgent \/ PeerEnds

Next == Calls \/ Proceed \/ Signal \/ Peer

Spec == Init /\ [][Next]_vars

\* The thread keeps running: a started call takes its next step when it can.
\* Nothing is assumed of the peer, of signals or of the client.
FairSpec == Spec /\ WF_vars(Proceed)

------------------------------------------------------------------------------
(* Properties.                                                             *)

\* The get area always holds the latest bytes read from the kernel, in
\* order, and the char a call gives is the one whose turn it is: a refill
\* leaves nothing of the old contents, or of the uninitialised memory of a new
\* area, readable, and no call skips a char (underflow, uflow and xsgetn).
CharsInOrder ==
  /\ Follows(get, taken - Len(get))
  /\ out.op = "sbumpc" /\ out.kind = "value" => out.val = told + lost
  /\ out.op \in {"sgetc", "sungetc"} /\ out.kind = "value" => out.val = told + lost + 1

\* Every byte read from the kernel was given to the client with a call that
\* told so, is in the hands of the sgetn under way, waits in the get area,
\* went with an sgetn that threw, or was discarded by shutdown.
GetConserved ==
  taken = told + lost + dropped + call.ret + (Len(get) - g)

\* EOF, or fewer chars than sgetn was asked for, means the end of the
\* stream: the peer has ended, and the kernel has nothing more, or the
\* reading side was shut down. No error, timeout or empty queue looks like it.
EndMeansEnd ==
  \/ out.op \in {"sgetc", "sbumpc"} /\ out.kind = "EOF"
  \/ out.op = "sgetn" /\ out.kind = "value" /\ out.val < out.asked
  => \/ area = "null"
     \/ peer = "closed" /\ rcv = <<>>

\* With oob set, no ::read starts at the mark, unless the urgent data came
\* after the check: then the mark goes by unseen.
MarkSignalled ==
  [][(oob /\ mark = taken /\ taken' > taken) => late]_vars

\* If there is again and again something to read, or the peer has ended,
\* every call ends.
CallsReturn == []<>Readable => (call.op # "none" ~> call.op = "none")

\* With a timeout set every call ends, even if the peer is silent: select
\* is asked before each ::read, and what it saw stays there (unlike the
\* output half, see PollReturns in SockPut).
TimedCallsReturn == (call.op # "none" /\ rtmo # -1) ~> (call.op = "none")

\* The get area and the kernel's queue implement the abstract input stream.
Input == INSTANCE InStream WITH
  unread <- IF area = "null" THEN <<>> ELSE SubSeq(get, g + 1, Len(get)) \o rcv,
  next <- told + lost + call.ret + 1,
  open <- area = "live"
ImplementsInput == Input!Spec
=============================================================================

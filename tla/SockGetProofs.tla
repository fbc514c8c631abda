---------------------------- MODULE SockGetProofs ----------------------------
(***************************************************************************)
(* Proofs about the input half of sockbuf, for every size of the get area, *)
(* every number of bytes the peer sends and every length of the behaviour. *)
(*                                                                         *)
(* The properties of SockGet are not inductive alone. That a refill puts   *)
(* the right bytes in the get area needs the kernel's queue to follow what *)
(* was taken; that it loses nothing needs the get area to be used up when  *)
(* read () is under way, and an area that is there to have dropped         *)
(* nothing; that a read does not run over a mark it could have seen needs  *)
(* the mark to be elsewhere, or late, from the check on to the ::read.     *)
(***************************************************************************)
EXTENDS SockGet, BytesProofs

\* Which part of the sockbuf is in use in which situation.
Control ==
  /\ io = "no" <=> call.op = "none"
  /\ call.op # "sungetc"
  /\ call.op # "none" => area = "live" /\ out = Nothing /\ g = Len(get)
  /\ call.op # "sgetn" => call.ret = 0
  /\ area = "null" => get = <<>>
  /\ area = "live" => dropped = 0

\* What the kernel holds follows what was taken from it.
QueueInOrder == Follows(rcv, taken)

\* A read that stands at the mark knows it, unless the mark came after the
\* check.
MarkSeen == io = "read" /\ oob /\ mark = taken => late

\* The inductive invariant.
IInv ==
  /\ TypeOK
  /\ Control
  /\ QueueInOrder
  /\ CharsInOrder
  /\ GetConserved
  /\ EndMeansEnd
  /\ MarkSeen

USE CapAssumption, BoundAssumption

------------------------------------------------------------------------------
(* The building blocks of the calls.                                       *)

Outcomes == [op : Ops \cup {"none", "shutdown"},
             kind : Exceptions \cup {"none", "value", "EOF"}, val : Int, asked : Nat]

\* What the invariant asks of the get area and of the kernel by themselves.
BytesSound ==
  /\ get \in Seq(Int) /\ Len(get) <= Cap /\ g \in 0 .. Len(get)
  /\ area \in {"live", "null"}
  /\ area = "null" => get = <<>>
  /\ area = "live" => dropped = 0
  /\ rcv \in Seq(Int) /\ QueueInOrder
  /\ Follows(get, taken - Len(get))
  /\ mark \in Int /\ mark >= -1
  /\ peer \in {"open", "closed", "reset"}
  /\ taken \in Nat /\ told \in Int /\ lost \in Nat /\ dropped \in Int

\* The invariant gives these.
LEMMA BytesAreSound == IInv => BytesSound
  BY DEF IInv, TypeOK, Control, CharsInOrder, BytesSound

\* The invariant while a read () is under way: the get area is there, used up,
\* and what was taken is with the client or with the call.
LEMMA ReadingFacts ==
  ASSUME IInv, io # "no"
  PROVE  /\ call \in [op : {"sgetc", "sbumpc", "sgetn"}, need : Nat, ret : Nat]
         /\ call.op # "sgetn" => call.ret = 0
         /\ area = "live" /\ g = Len(get) /\ dropped = 0
         /\ Len(get) \in Nat
         /\ taken = told + lost + call.ret
<1>1. /\ call \in [op : Ops \cup {"none"}, need : Nat, ret : Nat]
      /\ call.op # "none" /\ call.op # "sungetc"
  BY DEF IInv, TypeOK, Control
<1>2. call \in [op : {"sgetc", "sbumpc", "sgetn"}, need : Nat, ret : Nat]
  BY <1>1 DEF Ops
<1>3. area = "live" /\ g = Len(get) /\ dropped = 0
  BY <1>1 DEF IInv, Control
<1>4. Len(get) \in Nat /\ taken \in Nat /\ told \in Int /\ lost \in Nat
  BY LenProperties DEF IInv, TypeOK
<1>5. taken = told + lost + dropped + call.ret + (Len(get) - g)
  BY DEF IInv, GetConserved
<1>6. call.ret \in Nat
  BY <1>2
<1> QED
  BY <1>2, <1>3, <1>4, <1>5, <1>6 DEF IInv, Control

\* The invariant between two calls: what was taken is with the client, waits
\* in the get area or went with a shutdown.
LEMMA IdleFacts ==
  ASSUME IInv, CanCall
  PROVE  /\ io = "no" /\ call.ret = 0
         /\ Len(get) \in Nat /\ g \in 0 .. Len(get)
         /\ taken = told + lost + dropped + (Len(get) - g)
         /\ area = "live" => dropped = 0
         /\ area = "null" => g = Len(get)
<1>1. /\ call \in [op : Ops \cup {"none"}, need : Nat, ret : Nat]
      /\ call.op = "none" /\ io = "no" /\ call.ret = 0
  BY DEF IInv, CanCall, TypeOK, Control
<1>2. Len(get) \in Nat /\ taken \in Nat /\ told \in Int /\ lost \in Nat
      /\ dropped \in Int /\ g \in 0 .. Len(get)
  BY LenProperties DEF IInv, TypeOK
<1>3. taken = told + lost + dropped + call.ret + (Len(get) - g)
  BY DEF IInv, GetConserved
<1>4. area = "null" => Len(get) = 0
  BY EmptySeq DEF IInv, Control
<1> QED
  BY <1>1, <1>2, <1>3, <1>4 DEF IInv, Control

\* Steps that leave the get area, the calls, the outcome and what was taken
\* alone.
LEMMA FrameKeeps ==
  ASSUME IInv, UNCHANGED <<get, g, area, call, out, taken, told, lost, dropped>>,
         rtmo' \in {-1, 0, 1}, oob' \in BOOLEAN, nb' \in BOOLEAN,
         io' \in {"no", "select", "mark", "read"}, io' = "no" <=> io = "no",
         rcv' \in Seq(Int), QueueInOrder', mark' \in Int, mark' >= -1,
         peer' \in {"open", "closed", "reset"}, late' \in BOOLEAN,
         peer = "closed" /\ rcv = <<>> => peer' = "closed" /\ rcv' = <<>>,
         MarkSeen'
  PROVE  IInv'
<1>1. TypeOK'
  BY DEF IInv, TypeOK
<1>2. Control' /\ GetConserved'
  BY DEF IInv, Control, GetConserved
<1>3. CharsInOrder' /\ EndMeansEnd'
  BY DEF IInv, CharsInOrder, EndMeansEnd, Follows
<1> QED
  BY <1>1, <1>2, <1>3 DEF IInv

\* A call ends with outcome o.
LEMMA ReturnKeeps ==
  ASSUME IInv, NEW o \in Outcomes, Return(o), UNCHANGED modes, BytesSound',
         taken' = told' + lost' + dropped' + (Len(get') - g'),
         o.op = "sbumpc" /\ o.kind = "value" => o.val = told' + lost',
         o.op \in {"sgetc", "sungetc"} /\ o.kind = "value"
           => o.val = told' + lost' + 1,
         \/ o.op \in {"sgetc", "sbumpc"} /\ o.kind = "EOF"
         \/ o.op = "sgetn" /\ o.kind = "value" /\ o.val < o.asked
         => area' = "null" \/ (peer' = "closed" /\ rcv' = <<>>)
  PROVE  IInv'
<1>1. /\ call' = Idle /\ io' = "no" /\ out' = o /\ late' = late
      /\ UNCHANGED <<rtmo, oob, nb>>
  BY DEF Return, modes
<1>2. call' \in [op : Ops \cup {"none"}, need : Nat, ret : Nat]
  BY <1>1 DEF Idle
<1>3. TypeOK'
  BY <1>1, <1>2 DEF IInv, TypeOK, BytesSound, Outcomes
<1>4. call'.op = "none" /\ call'.ret = 0
  BY <1>1 DEF Idle
<1>5. Control' /\ QueueInOrder' /\ MarkSeen'
  BY <1>1, <1>4 DEF Control, BytesSound, MarkSeen
<1>6. CharsInOrder' /\ EndMeansEnd'
  BY <1>1 DEF BytesSound, CharsInOrder, EndMeansEnd
<1>7. GetConserved'
  <2>1. taken' \in Nat /\ told' \in Int /\ lost' \in Nat /\ dropped' \in Int
        /\ g' \in 0 .. Len(get') /\ Len(get') \in Nat
    BY LenProperties DEF BytesSound
  <2> QED
    BY <1>4, <2>1 DEF GetConserved
<1> QED
  BY <1>3, <1>5, <1>6, <1>7 DEF IInv

\* A call goes on with read (), the get area being used up.
LEMMA EnterKeeps ==
  ASSUME IInv, EnterRead, UNCHANGED modes, BytesSound',
         call' \in [op : {"sgetc", "sbumpc", "sgetn"}, need : Nat, ret : Nat],
         call'.op # "sgetn" => call'.ret = 0,
         area' = "live", g' = Len(get'),
         taken' = told' + lost' + call'.ret
  PROVE  IInv'
<1>1. /\ io' \in {"select", "mark", "read"}
      /\ io' = "read" => ~oob
      /\ out' = Nothing /\ late' = FALSE
      /\ UNCHANGED <<rtmo, oob, nb>>
  BY DEF EnterRead, AfterSelect, modes, IInv, TypeOK
<1>2. TypeOK'
  <2>1. call' \in [op : Ops \cup {"none"}, need : Nat, ret : Nat]
    BY DEF Ops
  <2>2. out' \in Outcomes
    BY <1>1 DEF Nothing, Outcomes
  <2> QED
    BY <1>1, <2>1, <2>2 DEF IInv, TypeOK, BytesSound, Outcomes
<1>3. call'.op \in {"sgetc", "sbumpc", "sgetn"}
  OBVIOUS
<1>4. Control' /\ QueueInOrder' /\ MarkSeen'
  BY <1>1, <1>3 DEF Control, BytesSound, MarkSeen
<1>5. CharsInOrder' /\ EndMeansEnd'
  BY <1>1 DEF BytesSound, CharsInOrder, EndMeansEnd, Nothing
<1>6. GetConserved'
  <2>1. taken' \in Nat /\ told' \in Int /\ lost' \in Nat /\ dropped' = 0
        /\ Len(get') \in Nat /\ call'.ret \in Nat
    BY LenProperties DEF BytesSound
  <2> QED
    BY <2>1 DEF GetConserved
<1> QED
  BY <1>2, <1>4, <1>5, <1>6 DEF IInv

\* A round of xsgetn: it takes what it needs and returns the count, or it
\* takes all there is and reads on.
LEMMA XsgetnKeeps ==
  ASSUME IInv, area = "live",
         NEW b \in Seq(Int), Len(b) <= Cap, NEW p \in 0 .. Len(b),
         NEW need \in Nat, NEW ret \in Nat,
         NEW c, c = [op |-> "sgetn", need |-> need, ret |-> ret],
         Follows(b, taken' - Len(b)),
         taken' \in Nat, taken' = told + lost + ret + (Len(b) - p),
         rcv' \in Seq(Int), QueueInOrder', mark' \in Int, mark' >= -1,
         Xsgetn(b, p, c),
         UNCHANGED <<area, modes, peer, lost, dropped>>
  PROVE  IInv'
<1>1. PICK rval \in Nat : rval = Len(b) - p
  <2>1. Len(b) \in Nat /\ p \in Nat /\ p <= Len(b)
    BY LenProperties
  <2>2. Len(b) - p \in Nat
    BY <2>1
  <2> QED
    BY <2>2
<1>2. /\ Len(b) \in Nat /\ told \in Int /\ lost \in Nat /\ dropped = 0
      /\ peer \in {"open", "closed", "reset"}
      /\ UNCHANGED <<area, peer, lost, dropped>> /\ p \in Nat
      /\ taken' = told + lost + ret + rval
  BY <1>1, LenProperties DEF IInv, TypeOK, Control
<1>3. CASE rval >= need
  <2> DEFINE n == ret + need
  <2>1. /\ get' = b /\ g' = p + need /\ told' = told + n
        /\ Return(Count(n, n))
    BY <1>1, <1>3 DEF Xsgetn
  <2>2. n \in Nat /\ g' \in 0 .. Len(b) /\ told' \in Int
    BY <1>1, <1>2, <1>3, <2>1
  <2>3. taken' = told' + lost' + dropped' + (Len(get') - g')
    BY <1>1, <1>2, <2>1
  <2>4. BytesSound'
    BY <1>2, <2>1, <2>2 DEF BytesSound
  <2>5. PICK o : o = Count(n, n)
    OBVIOUS
  <2>6. o \in Outcomes /\ o.op = "sgetn" /\ o.kind = "value" /\ ~(o.val < o.asked)
    BY <2>2, <2>5 DEF Count, Outcomes, Ops
  <2> QED
    BY <2>1, <2>3, <2>4, <2>5, <2>6, ReturnKeeps
<1>4. CASE rval < need
  <2>1. /\ get' = b /\ g' = Len(b)
        /\ call' = [c EXCEPT !.need = need - rval, !.ret = ret + rval]
        /\ EnterRead /\ told' = told
    BY <1>1, <1>4 DEF Xsgetn
  <2>2. /\ call' \in [op : {"sgetc", "sbumpc", "sgetn"}, need : Nat, ret : Nat]
        /\ call'.op = "sgetn" /\ call'.ret = ret + rval
    <3>1. need - rval \in Nat /\ ret + rval \in Nat
      BY <1>1, <1>4
    <3> QED
      BY <2>1, <3>1
  <2>3. g' \in 0 .. Len(b)
    BY <1>2, <2>1
  <2>4. taken' = told' + lost' + call'.ret
    <3>1. told' = told /\ lost' = lost
      BY <1>2, <2>1
    <3> QED
      BY <1>1, <1>2, <2>2, <3>1
  <2>5. BytesSound'
    BY <1>2, <2>1, <2>3 DEF BytesSound
  <2>6. area' = "live" /\ g' = Len(get')
    BY <1>2, <2>1
  <2> QED
    BY <2>1, <2>2, <2>4, <2>5, <2>6, EnterKeeps
<1> QED
  BY <1>1, <1>3, <1>4

\* An exception leaves read (): what the call had copied out is lost.
LEMMA ThrowsKeeps ==
  ASSUME IInv, io # "no", NEW e \in Exceptions, Throws(e),
         UNCHANGED <<modes, rcv, mark, taken>>,
         peer' \in {"open", "closed", "reset"}
  PROVE  IInv'
<1>1. /\ Return(Throw(call.op, e)) /\ lost' = lost + call.ret
      /\ UNCHANGED <<get, g, area, told, dropped>>
  BY DEF Throws
<1>2. PICK o : o = Throw(call.op, e)
  OBVIOUS
<1>3. /\ o \in Outcomes /\ o.kind \notin {"value", "EOF"}
  BY <1>2, ReadingFacts DEF Throw, Outcomes, Ops, Exceptions
<1>4. /\ call.ret \in Nat /\ lost \in Nat /\ told \in Int /\ Len(get) \in Nat
      /\ dropped = 0 /\ g = Len(get) /\ taken = told + lost + call.ret
  BY ReadingFacts DEF IInv, TypeOK
<1>5. BytesSound'
  BY <1>1, <1>4, BytesAreSound DEF BytesSound, QueueInOrder, Follows
<1>6. taken' = told' + lost' + dropped' + (Len(get') - g')
  BY <1>1, <1>4
<1> QED
  BY <1>1, <1>2, <1>3, <1>5, <1>6, ReturnKeeps

------------------------------------------------------------------------------
(* The invariant holds at the start and every action keeps it.             *)

\* A sockbuf on a connection begins with an area of BUFSIZ chars behind gptr.
LEMMA InitIInv == Init => IInv
<1> SUFFICES ASSUME Init PROVE IInv
  OBVIOUS
<1>1. <<>> \in Seq(Int) /\ Len(<<>>) = 0
  BY EmptySeq
<1>2. /\ get \in Seq(Int) /\ Len(get) = Cap
      /\ \A i \in 1 .. Cap : get[i] = i - Cap
  BY DEF Init
<1>3. g = Len(get) /\ g \in 0 .. Len(get)
  BY <1>2 DEF Init
<1>4. TypeOK
  <2>1. call \in [op : Ops \cup {"none"}, need : Nat, ret : Nat]
    BY DEF Init, Idle
  <2>2. out \in [op : Ops \cup {"none", "shutdown"},
                kind : Exceptions \cup {"none", "value", "EOF"}, val : Int,
                asked : Nat]
    BY DEF Init, Nothing
  <2>3. Len(get) <= Cap /\ rcv \in Seq(Int) /\ taken \in Nat /\ lost \in Nat
        /\ told \in Int /\ dropped \in Int /\ mark \in Int /\ mark >= -1
        /\ rtmo \in {-1, 0, 1}
    BY <1>1, <1>2 DEF Init
  <2> QED
    BY <1>2, <1>3, <2>1, <2>2, <2>3 DEF Init, TypeOK
<1>5. Follows(get, taken - Len(get)) /\ QueueInOrder
  BY <1>1, <1>2 DEF Init, Follows, QueueInOrder
<1>6. CharsInOrder /\ EndMeansEnd /\ MarkSeen
  BY <1>5 DEF Init, CharsInOrder, EndMeansEnd, MarkSeen, Nothing
<1>7. GetConserved
  <2>1. taken = 0 /\ told = 0 /\ lost = 0 /\ dropped = 0 /\ call.ret = 0
    BY DEF Init, Idle
  <2>2. Len(get) - g = 0
    BY <1>2, <1>3
  <2> QED
    BY <2>1, <2>2 DEF GetConserved
<1>8. Control
  BY <1>3 DEF Init, Control, Idle
<1> QED
  BY <1>4, <1>5, <1>6, <1>7, <1>8 DEF IInv

\* The char at gptr () is the one whose turn it is.
LEMMA CharAtG ==
  ASSUME IInv, CanCall, NEW i \in 1 .. Len(get)
  PROVE  get[i] = told + lost + dropped + (i - g)
<1>1. /\ Len(get) \in Nat /\ g \in Nat /\ taken \in Nat /\ told \in Int
      /\ lost \in Nat /\ dropped \in Int
      /\ taken = told + lost + dropped + (Len(get) - g)
  BY IdleFacts DEF IInv, TypeOK
<1>2. get[i] = taken - Len(get) + i
  BY DEF IInv, CharsInOrder, Follows
<1> QED
  BY <1>1, <1>2

\* sgetc looks at the char at gptr, or begins a refill.
LEMMA SgetcKeeps == IInv /\ Sgetc => IInv'
<1> SUFFICES ASSUME IInv, Sgetc PROVE IInv'
  OBVIOUS
<1>1. /\ CanCall
      /\ UNCHANGED <<get, g, area, rtmo, oob, nb, rcv, mark, peer, taken, told,
                     lost, dropped>>
  BY DEF Sgetc, buffer, modes, kernel
<1>2. /\ Len(get) \in Nat /\ g \in Nat /\ taken \in Nat /\ told \in Int
      /\ lost \in Nat /\ dropped \in Int
      /\ taken = told + lost + dropped + (Len(get) - g)
      /\ g <= Len(get)
  BY <1>1, IdleFacts DEF IInv, TypeOK
<1>3. BytesSound'
  BY <1>1, BytesAreSound DEF BytesSound, QueueInOrder, Follows
<1>4. UNCHANGED modes /\ taken' = told' + lost' + dropped' + (Len(get') - g')
  BY <1>1, <1>2 DEF modes
<1>5. CASE g < Len(get) /\ Return(Value("sgetc", get[g + 1]))
  <2>1. area = "live"
    BY <1>1, <1>2, <1>5, IdleFacts DEF IInv, TypeOK
  <2>2. g + 1 \in 1 .. Len(get)
    BY <1>2, <1>5
  <2>3. get[g + 1] = told + lost + 1
    BY <1>1, <1>2, <2>1, <2>2, CharAtG, IdleFacts
  <2>4. PICK o : o = Value("sgetc", get[g + 1])
    OBVIOUS
  <2>5. o \in Outcomes /\ o.op = "sgetc" /\ o.kind = "value"
        /\ o.val = told' + lost' + 1
    BY <1>1, <1>2, <2>3, <2>4 DEF Value, Outcomes, Ops
  <2> QED
    BY <1>3, <1>4, <1>5, <2>4, <2>5, ReturnKeeps
<1>6. CASE area = "null" /\ Return(Eof("sgetc"))
  <2>1. PICK o : o = Eof("sgetc")
    OBVIOUS
  <2>2. o \in Outcomes /\ o.op = "sgetc" /\ o.kind = "EOF"
    BY <2>1 DEF Eof, Outcomes, Ops
  <2>3. area' = "null"
    BY <1>1, <1>6
  <2> QED
    BY <1>3, <1>4, <1>6, <2>1, <2>2, <2>3, ReturnKeeps
<1>7. CASE /\ area = "live" /\ g = Len(get)
           /\ call' = [op |-> "sgetc", need |-> 1, ret |-> 0]
           /\ EnterRead
  <2>1. dropped = 0
    BY <1>1, <1>7, IdleFacts
  <2>2. /\ call' \in [op : {"sgetc", "sbumpc", "sgetn"}, need : Nat, ret : Nat]
        /\ call'.ret = 0
    BY <1>7
  <2>3. taken' = told' + lost' + call'.ret
    BY <1>1, <1>2, <1>7, <2>1, <2>2
  <2> QED
    BY <1>1, <1>3, <1>4, <1>7, <2>2, <2>3, EnterKeeps
<1> QED
  BY <1>5, <1>6, <1>7 DEF Sgetc

\* sbumpc takes the char at gptr, or begins a refill.
LEMMA SbumpcKeeps == IInv /\ Sbumpc => IInv'
<1> SUFFICES ASSUME IInv, Sbumpc PROVE IInv'
  OBVIOUS
<1>1. /\ CanCall
      /\ UNCHANGED <<get, area, rtmo, oob, nb, rcv, mark, peer, taken, lost, dropped>>
  BY DEF Sbumpc, modes, kernel
<1>2. /\ Len(get) \in Nat /\ g \in Nat /\ taken \in Nat /\ told \in Int
      /\ lost \in Nat /\ dropped \in Int
      /\ taken = told + lost + dropped + (Len(get) - g)
      /\ g <= Len(get)
  BY <1>1, IdleFacts DEF IInv, TypeOK
<1>3. UNCHANGED modes
  BY <1>1 DEF modes
<1>4. ASSUME g' \in 0 .. Len(get), told' \in Int PROVE BytesSound'
  BY <1>1, <1>4, BytesAreSound DEF BytesSound, QueueInOrder, Follows
<1>5. CASE /\ g < Len(get) /\ g' = g + 1 /\ told' = told + 1
           /\ Return(Value("sbumpc", get[g + 1]))
  <2>1. area = "live"
    BY <1>1, <1>2, <1>5, IdleFacts DEF IInv, TypeOK
  <2>2. g + 1 \in 1 .. Len(get)
    BY <1>2, <1>5
  <2>3. get[g + 1] = told' + lost'
    BY <1>1, <1>2, <1>5, <2>1, <2>2, CharAtG, IdleFacts
  <2>4. PICK o : o = Value("sbumpc", get[g + 1])
    OBVIOUS
  <2>5. told' \in Int /\ g' \in 0 .. Len(get) /\ lost' \in Nat
    BY <1>1, <1>2, <1>5
  <2>6. o \in Outcomes /\ o.op = "sbumpc" /\ o.kind = "value"
        /\ o.val = told' + lost'
    BY <2>3, <2>4, <2>5 DEF Value, Outcomes, Ops
  <2>7. taken' = told' + lost' + dropped' + (Len(get') - g')
    BY <1>1, <1>2, <1>5
  <2> QED
    BY <1>3, <1>4, <1>5, <2>4, <2>5, <2>6, <2>7, ReturnKeeps
<1>6. CASE area = "null" /\ Return(Eof("sbumpc")) /\ UNCHANGED <<g, told>>
  <2>1. PICK o : o = Eof("sbumpc")
    OBVIOUS
  <2>2. o \in Outcomes /\ o.op = "sbumpc" /\ o.kind = "EOF"
    BY <2>1 DEF Eof, Outcomes, Ops
  <2>3. /\ BytesSound'
        /\ taken' = told' + lost' + dropped' + (Len(get') - g')
    BY <1>1, <1>2, <1>4, <1>6
  <2>4. area' = "null"
    BY <1>1, <1>6
  <2> QED
    BY <1>3, <1>6, <2>1, <2>2, <2>3, <2>4, ReturnKeeps
<1>7. CASE /\ area = "live" /\ g = Len(get)
           /\ call' = [op |-> "sbumpc", need |-> 1, ret |-> 0]
           /\ EnterRead /\ UNCHANGED <<g, told>>
  <2>1. dropped = 0
    BY <1>1, <1>7, IdleFacts
  <2>2. /\ call' \in [op : {"sgetc", "sbumpc", "sgetn"}, need : Nat, ret : Nat]
        /\ call'.ret = 0
    BY <1>7
  <2>3. taken' = told' + lost' + call'.ret /\ BytesSound'
    BY <1>1, <1>2, <1>4, <1>7, <2>1, <2>2
  <2> QED
    BY <1>1, <1>3, <1>7, <2>2, <2>3, EnterKeeps
<1> QED
  BY <1>5, <1>6, <1>7 DEF Sbumpc

\* sgetn copies what the area has, and begins a refill for the rest.
LEMMA SgetnKeeps == IInv /\ Sgetn => IInv'
<1> SUFFICES ASSUME IInv, Sgetn PROVE IInv'
  OBVIOUS
<1>1. /\ CanCall /\ MaxArg \in Nat
      /\ UNCHANGED <<area, rtmo, oob, nb, rcv, mark, peer, taken, lost, dropped>>
  BY DEF Sgetn, modes, kernel
<1>2. PICK n \in 1 .. MaxArg :
        \/ /\ area = "live"
           /\ Xsgetn(get, g, [op |-> "sgetn", need |-> n, ret |-> 0])
        \/ /\ area = "null"
           /\ Return(Count(0, n))
           /\ UNCHANGED <<get, g, told>>
  BY DEF Sgetn
<1>3. /\ Len(get) \in Nat /\ g \in 0 .. Len(get) /\ taken \in Nat /\ told \in Int
      /\ lost \in Nat /\ dropped \in Int
      /\ taken = told + lost + dropped + (Len(get) - g)
      /\ n \in Nat
  BY <1>1, IdleFacts DEF IInv, TypeOK
<1>4. CASE /\ area = "live"
           /\ Xsgetn(get, g, [op |-> "sgetn", need |-> n, ret |-> 0])
  <2>1. PICK b, p, c : b = get /\ p = g /\ c = [op |-> "sgetn", need |-> n, ret |-> 0]
    OBVIOUS
  <2>2. /\ b \in Seq(Int) /\ Len(b) <= Cap /\ p \in 0 .. Len(b)
        /\ Follows(b, taken' - Len(b)) /\ mark \in Int /\ mark >= -1
        /\ rcv \in Seq(Int)
    BY <1>1, <2>1 DEF IInv, TypeOK, CharsInOrder
  <2>3. QueueInOrder'
    BY <1>1 DEF IInv, QueueInOrder, Follows
  <2>4. taken' \in Nat /\ taken' = told + lost + 0 + (Len(b) - p)
    BY <1>1, <1>3, <1>4, <2>1, IdleFacts
  <2>5. Xsgetn(b, p, c) /\ UNCHANGED modes
    BY <1>1, <1>4, <2>1 DEF modes
  <2> QED
    BY <1>1, <1>3, <1>4, <2>1, <2>2, <2>3, <2>4, <2>5, XsgetnKeeps
<1>5. CASE area = "null" /\ Return(Count(0, n)) /\ UNCHANGED <<get, g, told>>
  <2>1. PICK o : o = Count(0, n)
    OBVIOUS
  <2>2. o \in Outcomes /\ o.op = "sgetn" /\ o.kind = "value"
    BY <1>3, <2>1 DEF Count, Outcomes, Ops
  <2>3. BytesSound'
    BY <1>1, <1>5, BytesAreSound DEF BytesSound, QueueInOrder, Follows
  <2>4. taken' = told' + lost' + dropped' + (Len(get') - g') /\ UNCHANGED modes
    BY <1>1, <1>3, <1>5 DEF modes
  <2>5. area' = "null"
    BY <1>1, <1>5
  <2> QED
    BY <1>5, <2>1, <2>2, <2>3, <2>4, <2>5, ReturnKeeps
<1> QED
  BY <1>2, <1>4, <1>5

\* sungetc steps back over a char, also over one from before the last refill.
LEMMA SungetcKeeps == IInv /\ Sungetc => IInv'
<1> SUFFICES ASSUME IInv, Sungetc PROVE IInv'
  OBVIOUS
<1>1. /\ CanCall
      /\ UNCHANGED <<get, area, rtmo, oob, nb, rcv, mark, peer, taken, lost, dropped>>
  BY DEF Sungetc, modes, kernel
<1>2. /\ Len(get) \in Nat /\ g \in Nat /\ taken \in Nat /\ told \in Int
      /\ lost \in Nat /\ dropped \in Int
      /\ taken = told + lost + dropped + (Len(get) - g)
      /\ g <= Len(get)
  BY <1>1, IdleFacts DEF IInv, TypeOK
<1>3. UNCHANGED modes
  BY <1>1 DEF modes
<1>4. ASSUME g' \in 0 .. Len(get), told' \in Int PROVE BytesSound'
  BY <1>1, <1>4, BytesAreSound DEF BytesSound, QueueInOrder, Follows
<1>5. CASE /\ g > 0 /\ g' = g - 1 /\ told' = told - 1
           /\ Return(Value("sungetc", get[g]))
  <2>1. area = "live"
    BY <1>2, <1>5, EmptySeq DEF IInv, TypeOK, Control
  <2>2. g \in 1 .. Len(get)
    BY <1>2, <1>5
  <2>3. get[g] = told' + lost' + 1
    BY <1>1, <1>2, <1>5, <2>1, <2>2, CharAtG, IdleFacts
  <2>4. PICK o : o = Value("sungetc", get[g])
    OBVIOUS
  <2>5. told' \in Int /\ g' \in 0 .. Len(get) /\ lost' \in Nat
    BY <1>1, <1>2, <1>5
  <2>6. o \in Outcomes /\ o.op = "sungetc" /\ o.kind = "value"
        /\ o.val = told' + lost' + 1
    BY <2>3, <2>4, <2>5 DEF Value, Outcomes, Ops
  <2>7. taken' = told' + lost' + dropped' + (Len(get') - g')
    BY <1>1, <1>2, <1>5
  <2> QED
    BY <1>3, <1>4, <1>5, <2>4, <2>5, <2>6, <2>7, ReturnKeeps
<1>6. CASE g = 0 /\ Return(Eof("sungetc")) /\ UNCHANGED <<g, told>>
  <2>1. PICK o : o = Eof("sungetc")
    OBVIOUS
  <2>2. o \in Outcomes /\ o.op = "sungetc" /\ o.kind = "EOF"
    BY <2>1 DEF Eof, Outcomes, Ops
  <2>3. /\ BytesSound'
        /\ taken' = told' + lost' + dropped' + (Len(get') - g')
    BY <1>1, <1>2, <1>4, <1>6
  <2> QED
    BY <1>3, <1>6, <2>1, <2>2, <2>3, ReturnKeeps
<1> QED
  BY <1>5, <1>6 DEF Sungetc

\* The settings of a sockbuf move no chars.
LEMMA SettingsKeep == IInv /\ (Recvtimeout \/ Oob \/ Nonblock) => IInv'
<1> SUFFICES ASSUME IInv, Recvtimeout \/ Oob \/ Nonblock PROVE IInv'
  OBVIOUS
<1>1. /\ UNCHANGED <<get, g, area, call, io, out, rcv, mark, peer, taken, told,
                     lost, dropped, late>>
      /\ CanCall
      /\ rtmo' \in {-1, 0, 1} /\ oob' \in BOOLEAN /\ nb' \in BOOLEAN
  BY DEF Recvtimeout, Oob, Nonblock, buffer, control, kernel, ghosts, IInv, TypeOK
<1>2. io = "no" /\ io' = "no"
  BY <1>1, IdleFacts
<1>3. QueueInOrder' /\ MarkSeen'
  BY <1>1, <1>2 DEF IInv, QueueInOrder, Follows, MarkSeen
<1> QED
  BY <1>1, <1>2, <1>3, FrameKeeps DEF IInv, TypeOK

\* shutdown of the reading side drops the get area.
LEMMA ShutdownReadKeeps == IInv /\ ShutdownRead => IInv'
<1> SUFFICES ASSUME IInv, ShutdownRead PROVE IInv'
  OBVIOUS
<1>1. /\ CanCall /\ get' = <<>> /\ g' = 0 /\ area' = "null"
      /\ dropped' = dropped + (Len(get) - g)
      /\ UNCHANGED <<rtmo, oob, nb, rcv, mark, peer, taken, told, lost>>
  BY DEF ShutdownRead, modes, kernel
<1>2. /\ Len(get) \in Nat /\ g \in Nat /\ taken \in Nat /\ told \in Int
      /\ lost \in Nat /\ dropped \in Int
      /\ taken = told + lost + dropped + (Len(get) - g)
  BY <1>1, IdleFacts DEF IInv, TypeOK
<1>3. get' \in Seq(Int) /\ Len(get') = 0
  BY <1>1, EmptySeq
<1>4. PICK o : o \in Outcomes /\ o.op = "shutdown" /\ Return(o)
  <2>1. PICK o \in {Value("shutdown", 0)} \cup
                   (IF peer = "open" THEN {} ELSE {Throw("shutdown", "ENOTCONN")}) :
          Return(o)
    BY DEF ShutdownRead
  <2>2. o \in Outcomes /\ o.op = "shutdown"
    BY <2>1 DEF Value, Throw, Outcomes, Exceptions
  <2> QED
    BY <2>1, <2>2
<1>5. BytesSound'
  <2>1. Follows(get', taken' - Len(get'))
    BY <1>3 DEF Follows
  <2>2. QueueInOrder'
    BY <1>1 DEF IInv, QueueInOrder, Follows
  <2>3. dropped' \in Int /\ g' \in 0 .. Len(get')
    BY <1>1, <1>2, <1>3
  <2> QED
    BY <1>1, <1>3, <2>1, <2>2, <2>3 DEF IInv, TypeOK, BytesSound
<1>6. taken' = told' + lost' + dropped' + (Len(get') - g')
  BY <1>1, <1>2, <1>3
<1>7. UNCHANGED modes
  BY <1>1 DEF modes
<1> QED
  BY <1>4, <1>5, <1>6, <1>7, ReturnKeeps

\* select found something to read: the mark is asked about, or read begins.
LEMMA SelectReadyKeeps == IInv /\ SelectReady => IInv'
<1> SUFFICES ASSUME IInv, SelectReady PROVE IInv'
  OBVIOUS
<1>1. /\ UNCHANGED <<get, g, area, call, out, rtmo, oob, nb, rcv, mark, peer,
                     taken, told, lost, dropped, late>>
      /\ io = "select" /\ io' \in {"mark", "read"}
      /\ io' = "mark" \/ ~oob
  BY DEF SelectReady, AfterSelect, buffer, modes, kernel, ghosts
<1>2. QueueInOrder' /\ MarkSeen'
  BY <1>1 DEF IInv, QueueInOrder, Follows, MarkSeen
<1> QED
  BY <1>1, <1>2, FrameKeeps DEF IInv, TypeOK

\* Everything that throws out of read ().
LEMMA FailuresKeep ==
  IInv /\ (SelectTimesOut \/ SelectInterrupted \/ ReadFails \/ ReadInterrupted)
    => IInv'
<1> SUFFICES ASSUME IInv,
                    SelectTimesOut \/ SelectInterrupted \/ ReadFails \/ ReadInterrupted
             PROVE  IInv'
  OBVIOUS
<1>1. /\ io # "no" /\ UNCHANGED <<modes, rcv, mark, taken>>
      /\ peer' \in {"open", "closed", "reset"}
  BY DEF SelectTimesOut, SelectInterrupted, ReadFails, ReadInterrupted, kernel,
         IInv, TypeOK
<1>2. \E e \in Exceptions : Throws(e)
  BY DEF SelectTimesOut, SelectInterrupted, ReadFails, ReadInterrupted, Exceptions
<1> QED
  BY <1>1, <1>2, ThrowsKeeps

\* The ioctl for the mark: at the mark read throws, elsewhere it goes on.
LEMMA CheckMarkKeeps == IInv /\ CheckMark => IInv'
<1> SUFFICES ASSUME IInv, CheckMark PROVE IInv'
  OBVIOUS
<1>1. /\ io = "mark" /\ UNCHANGED <<rtmo, oob, nb, rcv, mark, peer, taken>>
  BY DEF CheckMark, modes, kernel
<1>2. CASE mark = taken /\ Throws("sockoob")
  BY <1>1, <1>2, ThrowsKeeps DEF IInv, TypeOK, Exceptions, modes
<1>3. CASE /\ mark # taken /\ io' = "read"
           /\ UNCHANGED <<get, g, area, call, out, told, lost, dropped, late>>
  <2>1. QueueInOrder' /\ MarkSeen'
    BY <1>1, <1>3 DEF IInv, QueueInOrder, Follows, MarkSeen
  <2> QED
    BY <1>1, <1>3, <2>1, FrameKeeps DEF IInv, TypeOK
<1> QED
  BY <1>2, <1>3 DEF CheckMark

\* ::read fills the area; the sgetn under way takes its share.
LEMMA ReadSomeKeeps == IInv /\ ReadSome => IInv'
<1> SUFFICES ASSUME IInv, ReadSome PROVE IInv'
  OBVIOUS
<1>1. /\ io = "read" /\ rcv # <<>>
      /\ UNCHANGED <<area, rtmo, oob, nb, peer, lost, dropped>>
  BY DEF ReadSome, modes
<1>2. PICK n \in 1 .. Available :
        /\ rcv' = SubSeq(rcv, n + 1, Len(rcv))
        /\ taken' = taken + n
        /\ mark' = IF mark = taken THEN -1 ELSE mark
        /\ \/ /\ call.op = "sgetc"
              /\ get' = SubSeq(rcv, 1, n) /\ g' = 0
              /\ Return(Value("sgetc", SubSeq(rcv, 1, n)[1]))
              /\ UNCHANGED told
           \/ /\ call.op = "sbumpc"
              /\ get' = SubSeq(rcv, 1, n) /\ g' = 1
              /\ told' = told + 1
              /\ Return(Value("sbumpc", SubSeq(rcv, 1, n)[1]))
           \/ /\ call.op = "sgetn"
              /\ Xsgetn(SubSeq(rcv, 1, n), 0, call)
  BY DEF ReadSome, Refill
<1>3. /\ call \in [op : {"sgetc", "sbumpc", "sgetn"}, need : Nat, ret : Nat]
      /\ call.op # "sgetn" => call.ret = 0
      /\ area = "live" /\ dropped = 0
      /\ taken = told + lost + call.ret
      /\ taken \in Nat /\ told \in Int /\ lost \in Nat
      /\ rcv \in Seq(Int) /\ Len(rcv) \in Nat /\ mark \in Int /\ mark >= -1
      /\ Follows(rcv, taken)
  BY <1>1, ReadingFacts, LenProperties DEF IInv, TypeOK, QueueInOrder
<1>4. n \in Nat /\ n >= 1 /\ n <= Len(rcv) /\ n <= Cap
  BY <1>3 DEF Available
<1>5. PICK b : b = SubSeq(rcv, 1, n)
  OBVIOUS
<1>6. b \in Seq(Int) /\ Len(b) = n /\ Follows(b, taken)
  BY <1>3, <1>4, <1>5, FollowsPrefix
<1>7. b[1] = taken + 1
  BY <1>4, <1>6 DEF Follows
<1>8. rcv' \in Seq(Int) /\ QueueInOrder'
  <2>1. /\ SubSeq(rcv, n + 1, Len(rcv)) \in Seq(Int)
        /\ Follows(SubSeq(rcv, n + 1, Len(rcv)), taken + n)
    BY <1>3, <1>4, FollowsTail
  <2> QED
    BY <1>2, <2>1 DEF QueueInOrder
<1>9. mark' \in Int /\ mark' >= -1 /\ taken' = taken + n /\ taken' \in Nat
  BY <1>2, <1>3, <1>4
<1>10. Follows(b, taken' - Len(b))
  BY SMTT(60), <1>3, <1>4, <1>6, <1>9 DEF Follows
<1>11. UNCHANGED modes
  BY <1>1 DEF modes
<1>12. ASSUME get' = b, g' \in 0 .. n, told' \in Int
       PROVE  BytesSound'
  BY <1>1, <1>3, <1>4, <1>6, <1>8, <1>9, <1>10, <1>12 DEF BytesSound, IInv, TypeOK
<1>13. CASE /\ call.op = "sgetc" /\ get' = b /\ g' = 0
            /\ Return(Value("sgetc", b[1])) /\ UNCHANGED told
  <2>1. PICK o : o = Value("sgetc", b[1])
    OBVIOUS
  <2>2. o \in Outcomes /\ o.op = "sgetc" /\ o.kind = "value"
        /\ o.val = told' + lost' + 1
    BY <1>1, <1>3, <1>7, <1>13, <2>1 DEF Value, Outcomes, Ops
  <2>3. taken' = told' + lost' + dropped' + (Len(get') - g')
    <3>1. call.ret = 0 /\ Len(get') = n /\ g' = 0
      BY <1>3, <1>6, <1>13
    <3>2. told' = told /\ lost' = lost /\ dropped' = 0
      BY <1>1, <1>3, <1>13
    <3>3. taken' = told + lost + n
      BY <1>3, <1>9, <3>1
    <3> QED
      BY <1>3, <1>4, <3>1, <3>2, <3>3
  <2>4. BytesSound'
    BY <1>3, <1>4, <1>12, <1>13
  <2> QED
    BY <1>11, <1>13, <2>1, <2>2, <2>3, <2>4, ReturnKeeps
<1>14. CASE /\ call.op = "sbumpc" /\ get' = b /\ g' = 1 /\ told' = told + 1
            /\ Return(Value("sbumpc", b[1]))
  <2>1. PICK o : o = Value("sbumpc", b[1])
    OBVIOUS
  <2>2. o \in Outcomes /\ o.op = "sbumpc" /\ o.kind = "value"
        /\ o.val = told' + lost'
    BY <1>1, <1>3, <1>7, <1>14, <2>1 DEF Value, Outcomes, Ops
  <2>3. taken' = told' + lost' + dropped' + (Len(get') - g')
    <3>1. call.ret = 0 /\ Len(get') = n /\ g' = 1
      BY <1>3, <1>6, <1>14
    <3>2. told' = told + 1 /\ lost' = lost /\ dropped' = 0
      BY <1>1, <1>3, <1>14
    <3>3. taken' = told + lost + n
      BY <1>3, <1>9, <3>1
    <3> QED
      BY <1>3, <1>4, <3>1, <3>2, <3>3
  <2>4. BytesSound'
    BY <1>3, <1>4, <1>12, <1>14
  <2> QED
    BY <1>11, <1>14, <2>1, <2>2, <2>3, <2>4, ReturnKeeps
<1>15. CASE call.op = "sgetn" /\ Xsgetn(b, 0, call)
  <2>1. PICK need, ret, c : c = call /\ need = call.need /\ ret = call.ret
    OBVIOUS
  <2>2. need \in Nat /\ ret \in Nat /\ c = [op |-> "sgetn", need |-> need, ret |-> ret]
    BY <1>3, <1>15, <2>1
  <2>3. taken' = told + lost + ret + (Len(b) - 0)
    BY <1>3, <1>4, <1>6, <1>9, <2>1
  <2>4. Xsgetn(b, 0, c) /\ 0 \in 0 .. Len(b)
    BY <1>4, <1>6, <1>15, <2>1
  <2> QED
    BY <1>1, <1>3, <1>4, <1>6, <1>8, <1>9, <1>10, <1>11, <2>2, <2>3, <2>4,
       XsgetnKeeps
<1> QED
  BY <1>2, <1>5, <1>13, <1>14, <1>15

\* ::read gives 0: the call ends with what it has.
LEMMA ReadEofKeeps == IInv /\ ReadEof => IInv'
<1> SUFFICES ASSUME IInv, ReadEof PROVE IInv'
  OBVIOUS
<1>1. /\ io = "read" /\ rcv = <<>> /\ peer = "closed"
      /\ told' = told + call.ret
      /\ UNCHANGED <<get, g, area, rtmo, oob, nb, rcv, mark, peer, taken, lost,
                     dropped>>
  BY DEF ReadEof, buffer, modes, kernel
<1>2. /\ call \in [op : {"sgetc", "sbumpc", "sgetn"}, need : Nat, ret : Nat]
      /\ taken = told + lost + call.ret /\ g = Len(get) /\ dropped = 0
      /\ told \in Int /\ lost \in Nat /\ Len(get) \in Nat
  BY <1>1, ReadingFacts DEF IInv, TypeOK
<1>3. call.need \in Nat /\ call.ret \in Nat
  BY <1>2
<1>4. PICK o : o = IF call.op = "sgetn" THEN Count(call.ret, call.ret + call.need)
                                        ELSE Eof(call.op)
  OBVIOUS
<1>5. Return(o)
  BY <1>4 DEF ReadEof
<1>6. /\ o \in Outcomes
      /\ o.op \in {"sgetc", "sbumpc"} => o.kind = "EOF"
      /\ o.op # "sungetc"
  <2>1. CASE call.op = "sgetn"
    <3>1. call.ret \in Int /\ call.ret + call.need \in Nat
      BY <1>3
    <3> QED
      BY <1>4, <2>1, <3>1 DEF Count, Outcomes, Ops
  <2>2. CASE call.op \in {"sgetc", "sbumpc"}
    BY <1>4, <2>2 DEF Eof, Outcomes, Ops
  <2> QED
    BY <1>2, <2>1, <2>2
<1>7. BytesSound'
  <2>1. told' \in Int
    BY <1>1, <1>2, <1>3
  <2> QED
    BY <1>1, <2>1, BytesAreSound DEF BytesSound, QueueInOrder, Follows
<1>8. taken' = told' + lost' + dropped' + (Len(get') - g')
  BY <1>1, <1>2, <1>3
<1>9. UNCHANGED modes /\ peer' = "closed" /\ rcv' = <<>>
  BY <1>1 DEF modes
<1> QED
  BY <1>5, <1>6, <1>7, <1>8, <1>9, ReturnKeeps

\* The peer sends, sends urgent data, closes or resets.
LEMMA PeerKeeps == IInv /\ Peer => IInv'
<1> SUFFICES ASSUME IInv, Peer PROVE IInv'
  OBVIOUS
<1>1. CASE PeerSends
  <2>1. /\ peer = "open"
        /\ UNCHANGED <<get, g, area, call, io, out, rtmo, oob, nb, mark, peer,
                       taken, told, lost, dropped, late>>
    BY <1>1 DEF PeerSends, buffer, control, modes, ghosts
  <2>2. taken \in Nat /\ rcv \in Seq(Int) /\ Len(rcv) \in Nat /\ Follows(rcv, taken)
    BY LenProperties DEF IInv, TypeOK, QueueInOrder
  <2>3. PICK n \in 1 .. MaxBytes :
          rcv' = rcv \o [i \in 1 .. n |-> taken + Len(rcv) + i]
    BY <1>1 DEF PeerSends, sent
  <2> DEFINE s == [i \in 1 .. n |-> taken + Len(rcv) + i]
  <2>4. s \in Seq(Int) /\ Len(s) = n /\ Follows(s, taken + Len(rcv))
    BY <2>2 DEF Follows
  <2> HIDE DEF s
  <2>5. rcv \o s \in Seq(Int) /\ Follows(rcv \o s, taken)
    <3>1. PICK k, t : k = rcv /\ t = taken
      OBVIOUS
    <3>2. /\ k \in Seq(Int) /\ t \in Int /\ Follows(k, t) /\ Follows(s, t + Len(k))
          /\ Int \subseteq Int
      BY <2>2, <2>4, <3>1
    <3>3. k \o s \in Seq(Int) /\ Follows(k \o s, t)
      BY <2>4, <3>2, FollowsJoin
    <3> QED
      BY <3>1, <3>3
  <2>6. rcv' \in Seq(Int) /\ QueueInOrder' /\ MarkSeen'
    <3>1. rcv' = rcv \o s
      BY <2>3 DEF s
    <3> QED
      BY <2>1, <2>5, <3>1 DEF QueueInOrder, IInv, MarkSeen
  <2> QED
    BY <2>1, <2>6, FrameKeeps DEF IInv, TypeOK
<1>2. CASE PeerSendsUrgent
  <2>1. /\ peer = "open" /\ mark' = taken + Len(rcv)
        /\ late' = (late \/ io = "read")
        /\ UNCHANGED <<get, g, area, call, io, out, rtmo, oob, nb, rcv, peer,
                       taken, told, lost, dropped>>
    BY <1>2 DEF PeerSendsUrgent, sent, buffer, control, modes
  <2>2. taken \in Nat /\ Len(rcv) \in Nat /\ late \in BOOLEAN
    BY LenProperties DEF IInv, TypeOK
  <2>3. mark' \in Int /\ mark' >= -1 /\ late' \in BOOLEAN
    BY <2>1, <2>2
  <2>4. QueueInOrder' /\ MarkSeen'
    BY <2>1 DEF IInv, QueueInOrder, Follows, MarkSeen
  <2> QED
    BY <2>1, <2>3, <2>4, FrameKeeps DEF IInv, TypeOK
<1>3. CASE PeerEnds
  <2>1. /\ peer = "open" /\ peer' \in {"closed", "reset"}
        /\ UNCHANGED <<get, g, area, call, io, out, rtmo, oob, nb, rcv, mark,
                       taken, told, lost, dropped, late>>
    BY <1>3 DEF PeerEnds, buffer, control, modes, ghosts
  <2>2. QueueInOrder' /\ MarkSeen'
    BY <2>1 DEF IInv, QueueInOrder, Follows, MarkSeen
  <2> QED
    BY <2>1, <2>2, FrameKeeps DEF IInv, TypeOK
<1> QED
  BY <1>1, <1>2, <1>3 DEF Peer

\* Every step of the calls on a sockbuf, of the system calls they make and
\* of the peer keeps the invariant.
THEOREM IInvInductive == IInv /\ [Next]_vars => IInv'
<1>1. IInv /\ Calls => IInv'
  BY SgetcKeeps, SbumpcKeeps, SgetnKeeps, SungetcKeeps, SettingsKeep,
     ShutdownReadKeeps DEF Calls
<1>2. IInv /\ Proceed => IInv'
  BY SelectReadyKeeps, FailuresKeep, CheckMarkKeeps, ReadSomeKeeps, ReadEofKeeps
  DEF Proceed
<1>3. IInv /\ Signal => IInv'
  BY FailuresKeep DEF Signal
<1>4. IInv /\ Peer => IInv'
  BY PeerKeeps
<1>5. ASSUME IInv, UNCHANGED vars PROVE IInv'
  <2>1. UNCHANGED <<get, g, area, call, io, out, rtmo, oob, nb, rcv, mark, peer,
                    taken, told, lost, dropped, late>>
    BY <1>5 DEF vars
  <2>2. QueueInOrder' /\ MarkSeen'
    BY <1>5, <2>1 DEF IInv, QueueInOrder, Follows, MarkSeen
  <2> QED
    BY <1>5, <2>1, <2>2, FrameKeeps DEF IInv, TypeOK
<1> QED
  BY <1>1, <1>2, <1>3, <1>4, <1>5 DEF Next

------------------------------------------------------------------------------
(* The theorems.                                                           *)

\* The inductive invariant holds in every behaviour, fair or not.
THEOREM IInvAlways == Spec => []IInv
  BY InitIInv, IInvInductive, PTL DEF Spec

\* Every variable keeps its type; egptr () stays within BUFSIZ and gptr ()
\* within the get area.
THEOREM TypeCorrect == Spec => []TypeOK
<1>1. IInv => TypeOK
  BY DEF IInv
<1> QED
  BY <1>1, IInvAlways, PTL

\* The get area holds the latest bytes read, and every call gives the char
\* whose turn it is.
THEOREM InOrder == Spec => []CharsInOrder
<1>1. IInv => CharsInOrder
  BY DEF IInv
<1> QED
  BY <1>1, IInvAlways, PTL

\* No byte taken from the kernel is lost or given twice without a trace: told,
\* under way, waiting, lost to an exception or discarded by shutdown.
THEOREM Conservation == Spec => []GetConserved
<1>1. IInv => GetConserved
  BY DEF IInv
<1> QED
  BY <1>1, IInvAlways, PTL

\* EOF and short counts tell the end of the stream and nothing else.
THEOREM EndIsEnd == Spec => []EndMeansEnd
<1>1. IInv => EndMeansEnd
  BY DEF IInv
<1> QED
  BY <1>1, IInvAlways, PTL

\* With oob set no ::read runs over a mark that was there when atmark () was
\* asked.
THEOREM MarkIsSignalled == Spec => MarkSignalled
<1>1. IInv /\ [Next]_vars => [(oob /\ mark = taken /\ taken' > taken) => late]_vars
  <2> SUFFICES ASSUME IInv, Next, oob, mark = taken, taken' > taken PROVE late
    OBVIOUS
  <2>1. taken' # taken
    BY DEF IInv, TypeOK
  <2>2. ReadSome
    BY <2>1
    DEF Next, Calls, Proceed, Signal, Peer, Sgetc, Sbumpc, Sgetn, Sungetc,
        Recvtimeout, Oob, Nonblock, ShutdownRead, SelectReady, SelectTimesOut,
        CheckMark, ReadEof, ReadFails, SelectInterrupted, ReadInterrupted,
        PeerSends, PeerSendsUrgent, PeerEnds, kernel
  <2>3. io = "read"
    BY <2>2 DEF ReadSome
  <2> QED
    BY <2>3 DEF IInv, MarkSeen
<1> QED
  BY <1>1, IInvAlways, PTL DEF Spec, MarkSignalled

------------------------------------------------------------------------------
(* The get area and the kernel's queue implement the abstract input        *)
(* stream. All that is unread follows the position that is next, so it is  *)
(* known by that position and by its length: what a step does to the two   *)
(* numbers tells which step of the abstract stream it is.                  *)

\* What the refinement mapping gives for the unread bytes, and the position
\* before the next.
Unread == SubSeq(get, g + 1, Len(get)) \o rcv
Passed == told + lost + call.ret

\* A piece without its first a bytes and the piece behind it, when t bytes end
\* the first one and s end what is gone of it.
LEMMA FollowsRest ==
  ASSUME NEW p \in Seq(Int), NEW r \in Seq(Int), NEW a \in 0 .. Len(p),
         NEW t \in Int, NEW s \in Int, t = s + (Len(p) - a),
         Follows(p, t - Len(p)), Follows(r, t)
  PROVE  /\ SubSeq(p, a + 1, Len(p)) \o r \in Seq(Int)
         /\ Len(SubSeq(p, a + 1, Len(p)) \o r) = t + Len(r) - s
         /\ Follows(SubSeq(p, a + 1, Len(p)) \o r, s)
<1>1. Len(p) \in Nat /\ Len(r) \in Nat /\ a \in Int
  BY LenProperties
<1>2. PICK base : base = t - Len(p)
  OBVIOUS
<1>3. base \in Int /\ base + a = s
  BY <1>1, <1>2
<1>4. Follows(p, base)
  BY <1>2
<1>5. PICK q : q = SubSeq(p, a + 1, Len(p))
  OBVIOUS
<1>6. q \in Seq(Int) /\ Len(q) = Len(p) - a /\ Follows(q, base + a)
  BY <1>3, <1>4, <1>5, FollowsTail
<1>7. Follows(q, s) /\ s + Len(q) = t
  BY <1>1, <1>3, <1>6
<1>8. Follows(r, s + Len(q))
  BY <1>7
<1>9. /\ q \o r \in Seq(Int) /\ Len(q \o r) = Len(q) + Len(r)
      /\ Follows(q \o r, s)
  <2>1. Int \subseteq Int
    OBVIOUS
  <2> QED
    BY <1>6, <1>7, <1>8, <2>1, FollowsJoin
<1>10. Len(q) + Len(r) = t + Len(r) - s
  BY <1>1, <1>6, <1>7
<1> QED
  BY <1>5, <1>9, <1>10

\* While the get area is there, the unread bytes are those from Passed to
\* what the peer has sent.
LEMMA UnreadFacts ==
  ASSUME IInv, area = "live"
  PROVE  /\ Passed \in Int /\ sent \in Nat
         /\ Unread \in Seq(Int) /\ Follows(Unread, Passed)
         /\ Len(Unread) = sent - Passed
<1>1. /\ get \in Seq(Int) /\ rcv \in Seq(Int) /\ g \in 0 .. Len(get)
      /\ taken \in Nat /\ told \in Int /\ lost \in Nat
  BY DEF IInv, TypeOK
<1>2. call \in [op : Ops \cup {"none"}, need : Nat, ret : Nat]
  BY DEF IInv, TypeOK
<1>3. call.ret \in Nat
  BY <1>2
<1>4. /\ dropped = 0
      /\ Follows(get, taken - Len(get)) /\ Follows(rcv, taken)
      /\ taken = told + lost + dropped + call.ret + (Len(get) - g)
  BY DEF IInv, Control, CharsInOrder, QueueInOrder, GetConserved
<1>5. Len(get) \in Nat /\ Len(rcv) \in Nat
  BY <1>1, LenProperties
<1>6. PICK s : s = told + lost + call.ret
  OBVIOUS
<1>7. s \in Int /\ taken \in Int
  BY <1>1, <1>3, <1>6
<1>8. taken = s + (Len(get) - g)
  BY <1>1, <1>3, <1>4, <1>5, <1>6
<1>9. /\ SubSeq(get, g + 1, Len(get)) \o rcv \in Seq(Int)
      /\ Len(SubSeq(get, g + 1, Len(get)) \o rcv) = taken + Len(rcv) - s
      /\ Follows(SubSeq(get, g + 1, Len(get)) \o rcv, s)
  BY <1>1, <1>4, <1>7, <1>8, FollowsRest
<1>10. Passed = s /\ sent = taken + Len(rcv) /\ sent \in Nat
  BY <1>1, <1>5, <1>6 DEF Passed, sent
<1> QED
  BY <1>7, <1>9, <1>10 DEF Unread

\* The same in the next state.
LEMMA NextUnreadFacts ==
  ASSUME IInv', area' = "live"
  PROVE  /\ Passed' \in Int /\ sent' \in Nat
         /\ Unread' \in Seq(Int) /\ Follows(Unread', Passed')
         /\ Len(Unread') = sent' - Passed'
<1>1. PICK p, r, a, t, s1, s2, c, d :
        /\ p = get' /\ r = rcv' /\ a = g' /\ t = taken' /\ s1 = told'
        /\ s2 = lost' /\ c = call' /\ d = dropped'
  OBVIOUS
<1>2. /\ p \in Seq(Int) /\ r \in Seq(Int) /\ a \in 0 .. Len(p)
      /\ t \in Nat /\ s1 \in Int /\ s2 \in Nat
  BY <1>1 DEF IInv, TypeOK
<1>3. c \in [op : Ops \cup {"none"}, need : Nat, ret : Nat]
  BY <1>1 DEF IInv, TypeOK
<1>4. c.ret \in Nat
  BY <1>3
<1>5. /\ d = 0
      /\ Follows(p, t - Len(p)) /\ Follows(r, t)
      /\ t = s1 + s2 + d + c.ret + (Len(p) - a)
  BY <1>1 DEF IInv, Control, CharsInOrder, QueueInOrder, GetConserved, Follows
<1>6. Len(p) \in Nat /\ Len(r) \in Nat
  BY <1>2, LenProperties
<1>7. PICK s : s = s1 + s2 + c.ret
  OBVIOUS
<1>8. s \in Int /\ t \in Int
  BY <1>2, <1>4, <1>7
<1>9. t = s + (Len(p) - a)
  BY <1>2, <1>4, <1>5, <1>6, <1>7
<1>10. /\ SubSeq(p, a + 1, Len(p)) \o r \in Seq(Int)
       /\ Len(SubSeq(p, a + 1, Len(p)) \o r) = t + Len(r) - s
       /\ Follows(SubSeq(p, a + 1, Len(p)) \o r, s)
  BY <1>2, <1>5, <1>8, <1>9, FollowsRest
<1>11. /\ Passed' = s /\ sent' = t + Len(r)
       /\ Unread' = SubSeq(p, a + 1, Len(p)) \o r
  BY <1>1, <1>7 DEF Passed, sent, Unread
<1>12. t + Len(r) \in Nat
  BY <1>2, <1>6
<1> QED
  BY <1>8, <1>10, <1>11, <1>12

\* Two pieces that end at the same place: the later one is what is left of
\* the earlier one.
LEMMA LaterPiece ==
  ASSUME NEW u \in Seq(Int), NEW v \in Seq(Int), NEW p \in Int, NEW q \in Int,
         NEW e \in Int, Follows(u, p), Follows(v, q), p <= q,
         Len(u) = e - p, Len(v) = e - q
  PROVE  /\ q - p \in 0 .. Len(u)
         /\ v = SubSeq(u, (q - p) + 1, Len(u))
<1>1. Len(u) \in Nat /\ Len(v) \in Nat
  BY LenProperties
<1>2. PICK n : n = q - p
  OBVIOUS
<1>3. n \in 0 .. Len(u) /\ p + n = q /\ Len(u) - n = Len(v)
  BY <1>1, <1>2
<1>4. /\ SubSeq(u, n + 1, Len(u)) \in Seq(Int)
      /\ Len(SubSeq(u, n + 1, Len(u))) = Len(u) - n
      /\ Follows(SubSeq(u, n + 1, Len(u)), p + n)
  BY <1>3, FollowsTail
<1>5. PICK w : w = SubSeq(u, n + 1, Len(u))
  OBVIOUS
<1>6. w \in Seq(Int) /\ Len(w) = Len(v) /\ Follows(w, q)
  BY <1>3, <1>4, <1>5
<1>7. v = w
  BY <1>6, FollowsUnique
<1> QED
  BY <1>2, <1>3, <1>5, <1>7

\* A step that passes bytes on takes them, and one that passes none leaves
\* the abstract stream alone.
LEMMA TakeStep ==
  ASSUME IInv, IInv', area = "live", area' = "live", sent' = sent, Passed' >= Passed
  PROVE  [Input!Next]_Input!vars
<1>1. PICK p, q, e, u, v :
        p = Passed /\ q = Passed' /\ e = sent /\ u = Unread /\ v = Unread'
  OBVIOUS
<1>2. /\ p \in Int /\ e \in Int /\ u \in Seq(Int) /\ Follows(u, p)
      /\ Len(u) = e - p
  BY <1>1, UnreadFacts
<1>3. q \in Int /\ v \in Seq(Int) /\ Follows(v, q) /\ Len(v) = e - q /\ p <= q
  <2>1. /\ q \in Int /\ v \in Seq(Int) /\ Follows(v, q) /\ Len(v) = sent' - q
    BY <1>1, NextUnreadFacts
  <2> QED
    BY <1>1, <1>2, <2>1
<1>4. PICK n : n = q - p
  OBVIOUS
<1>5. n \in 0 .. Len(u) /\ v = SubSeq(u, n + 1, Len(u))
  BY <1>2, <1>3, <1>4, LaterPiece
<1>6. Len(u) \in Nat
  BY <1>2, LenProperties
<1>7. CASE n = 0
  <2>1. p = q /\ Len(u) = Len(v)
    BY <1>2, <1>3, <1>4, <1>7
  <2>2. u = v
    BY <1>2, <1>3, <2>1, FollowsUnique
  <2>3. Passed' = Passed /\ Unread' = Unread
    BY <1>1, <2>1, <2>2
  <2> QED
    BY <2>3 DEF Unread, Passed, Input!vars
<1>8. CASE n # 0
  <2>1. n \in 1 .. Len(u) /\ q + 1 = (p + 1) + n
    BY <1>2, <1>3, <1>4, <1>5, <1>6, <1>8
  <2>2. /\ Unread' = SubSeq(Unread, n + 1, Len(Unread))
        /\ Passed' + 1 = (Passed + 1) + n
        /\ n \in 1 .. Len(Unread)
    BY <1>1, <1>5, <2>1
  <2> QED
    BY <2>2 DEF Unread, Passed, Input!Next, Input!Take
<1> QED
  BY <1>7, <1>8

\* A step that goes back by one puts the byte before back.
LEMMA PutBackStep ==
  ASSUME IInv, IInv', area = "live", area' = "live", sent' = sent,
         Passed' = Passed - 1
  PROVE  Input!Next
<1>1. PICK p, q, e, u, v :
        p = Passed /\ q = Passed' /\ e = sent /\ u = Unread /\ v = Unread'
  OBVIOUS
<1>2. /\ p \in Int /\ e \in Int /\ u \in Seq(Int) /\ Follows(u, p)
      /\ Len(u) = e - p
  BY <1>1, UnreadFacts
<1>3. /\ q \in Int /\ v \in Seq(Int) /\ Follows(v, q) /\ Len(v) = e - q
      /\ q + 1 = p /\ q <= p
  <2>1. /\ q \in Int /\ v \in Seq(Int) /\ Follows(v, q) /\ Len(v) = sent' - q
    BY <1>1, NextUnreadFacts
  <2>2. q = p - 1
    BY <1>1
  <2> QED
    BY <1>1, <1>2, <2>1, <2>2
<1>4. p - q = 1
  BY <1>2, <1>3
<1>5. /\ Len(v) \in Nat /\ Len(u) \in Nat
      /\ Len(v) = Len(u) + 1
  BY <1>2, <1>3, LenProperties
<1>6. u = SubSeq(v, 1 + 1, Len(v))
  BY <1>2, <1>3, <1>4, LaterPiece
<1>7. v[1] = p
  BY <1>3, <1>5 DEF Follows
<1>8. v = <<p>> \o u
  <2>1. PICK w : w = <<p>> \o u
    OBVIOUS
  <2>2. <<p>> \in Seq(Int) /\ Len(<<p>>) = 1 /\ <<p>>[1] = p
    BY <1>2
  <2>3. /\ w \in Seq(Int) /\ Len(w) = 1 + Len(u)
        /\ \A i \in 1 .. 1 + Len(u) :
             w[i] = IF i <= 1 THEN <<p>>[i] ELSE u[i - 1]
    BY <1>2, <2>1, <2>2, ConcatProperties
  <2>4. ASSUME NEW i \in 1 .. Len(w) PROVE w[i] = q + i
    <3>1. i \in Int /\ i \in 1 .. 1 + Len(u)
      BY <1>5, <2>3
    <3>2. CASE i = 1
      BY <1>3, <2>2, <2>3, <3>1, <3>2
    <3>3. CASE i # 1
      <4>1. i - 1 \in 1 .. Len(u)
        BY <1>5, <3>1, <3>3
      <4>2. u[i - 1] = p + (i - 1)
        BY <1>2, <4>1 DEF Follows
      <4>3. w[i] = u[i - 1]
        BY <2>3, <3>1, <3>3
      <4> QED
        BY <1>2, <1>3, <3>1, <4>2, <4>3
    <3> QED
      BY <3>2, <3>3
  <2>5. Follows(w, q) /\ Len(w) = Len(v)
    BY <1>5, <2>3, <2>4 DEF Follows
  <2> QED
    BY <1>3, <2>1, <2>3, <2>5, FollowsUnique
<1>9. /\ Passed' + 1 = p /\ (Passed + 1) - 1 = p
      /\ Unread' = <<p>> \o Unread
  BY <1>1, <1>2, <1>3, <1>8
<1>10. /\ Passed' + 1 = (Passed + 1) - 1
       /\ Unread' = <<Passed' + 1>> \o Unread
  BY <1>9
<1> QED
  BY <1>10 DEF Unread, Passed, Input!Next, Input!PutBack

\* What the peer sends arrives.
LEMMA ArriveStep ==
  ASSUME IInv, IInv', area = "live", area' = "live", sent' >= sent, Passed' = Passed
  PROVE  Input!Next
<1>1. PICK p, e, f, u, v :
        p = Passed /\ e = sent /\ f = sent' /\ u = Unread /\ v = Unread'
  OBVIOUS
<1>2. /\ p \in Int /\ e \in Int /\ u \in Seq(Int) /\ Follows(u, p)
      /\ Len(u) = e - p
  BY <1>1, UnreadFacts
<1>3. f \in Int /\ v \in Seq(Int) /\ Follows(v, p) /\ Len(v) = f - p /\ e <= f
  <2>1. f \in Int /\ v \in Seq(Int) /\ Follows(v, Passed') /\ Len(v) = f - Passed'
    BY <1>1, NextUnreadFacts
  <2> QED
    BY <1>1, <1>2, <2>1
<1>4. PICK n : n = Len(u)
  OBVIOUS
<1>5. n \in 0 .. Len(u) /\ n \in 0 .. Len(v) /\ n <= Len(v)
  BY <1>2, <1>3, <1>4, LenProperties
<1>6. SubSeq(u, 1, n) = SubSeq(v, 1, n)
  <2>1. PICK x, y : x = SubSeq(u, 1, n) /\ y = SubSeq(v, 1, n)
    OBVIOUS
  <2>2. x \in Seq(Int) /\ Len(x) = n /\ Follows(x, p)
    BY <1>2, <1>5, <2>1, FollowsPrefix
  <2>3. y \in Seq(Int) /\ Len(y) = n /\ Follows(y, p)
    BY <1>2, <1>3, <1>5, <2>1, FollowsPrefix
  <2> QED
    BY <2>1, <2>2, <2>3, FollowsUnique
<1>7. Input!IsPrefix(u, v)
  BY <1>4, <1>5, <1>6 DEF Input!IsPrefix
<1>8. Input!IsPrefix(Unread, Unread') /\ Unread' \in Seq(Int) /\ Passed' = Passed
  BY <1>1, <1>3, <1>7
<1> QED
  BY <1>8 DEF Unread, Passed, Input!Next, Input!Arrive

\* A step that sends nothing and puts nothing back takes or stutters; when the
\* get area is gone nothing can be taken any more.
LEMMA ReaderStep ==
  ASSUME IInv, IInv', area' = area, sent' = sent, Passed' >= Passed,
         area = "null" => Passed' = Passed
  PROVE  [Input!Next]_Input!vars
<1>1. CASE area = "live"
  BY <1>1, TakeStep
<1>2. CASE area = "null"
  BY <1>2 DEF Passed, Input!vars
<1> QED
  BY <1>1, <1>2 DEF IInv, TypeOK

\* A step that leaves what is unread where it is.
LEMMA QuietStep ==
  ASSUME IInv, IInv', area' = area, sent' = sent, Passed' = Passed
  PROVE  [Input!Next]_Input!vars
<1>1. CASE area = "live"
  <2>1. Passed \in Int
    BY <1>1, UnreadFacts
  <2> QED
    BY <2>1, ReaderStep
<1>2. CASE area = "null"
  BY <1>2 DEF Passed, Input!vars
<1> QED
  BY <1>1, <1>2 DEF IInv, TypeOK

------------------------------------------------------------------------------
(* Each action is a step of the abstract stream, or a stutter.             *)

\* The counts that the invariant bounds, and the call as a record.
LEMMA CountsAreNumbers ==
  IInv => /\ told \in Int /\ lost \in Nat /\ taken \in Nat /\ call.ret \in Nat
          /\ Len(rcv) \in Nat /\ Len(get) \in Nat /\ g \in 0 .. Len(get)
          /\ sent \in Nat /\ Passed \in Int
<1> SUFFICES ASSUME IInv
    PROVE  /\ told \in Int /\ lost \in Nat /\ taken \in Nat /\ call.ret \in Nat
           /\ Len(rcv) \in Nat /\ Len(get) \in Nat /\ g \in 0 .. Len(get)
           /\ sent \in Nat /\ Passed \in Int
  OBVIOUS
<1>1. /\ told \in Int /\ lost \in Nat /\ taken \in Nat
      /\ call \in [op : Ops \cup {"none"}, need : Nat, ret : Nat]
      /\ Len(rcv) \in Nat /\ Len(get) \in Nat /\ g \in 0 .. Len(get)
  BY LenProperties DEF IInv, TypeOK
<1>2. call.ret \in Nat
  BY <1>1
<1> QED
  BY <1>1, <1>2 DEF sent, Passed

\* sgetc takes nothing.
LEMMA SgetcSimulates ==
  ASSUME IInv, IInv', Sgetc PROVE [Input!Next]_Input!vars
<1>1. call.ret = 0
  BY IdleFacts DEF Sgetc
<1>2. call'.ret = 0
  BY DEF Sgetc, Return, Idle
<1>3. UNCHANGED <<area, taken, rcv, told, lost>>
  BY DEF Sgetc, buffer, kernel
<1> QED
  BY <1>1, <1>2, <1>3, QuietStep DEF Passed, sent

\* sbumpc takes the char that is next, or waits for one.
LEMMA SbumpcSimulates ==
  ASSUME IInv, IInv', Sbumpc PROVE [Input!Next]_Input!vars
<1>1. /\ call.ret = 0 /\ (area = "null" => g = Len(get)) /\ g \in 0 .. Len(get)
      /\ Len(get) \in Nat
  BY IdleFacts DEF Sbumpc
<1>2. call'.ret = 0
  BY DEF Sbumpc, Return, Idle
<1>3. UNCHANGED <<area, taken, rcv, lost>> /\ told' \in {told, told + 1}
      /\ (area = "null" => told' = told)
  BY <1>1 DEF Sbumpc, kernel
<1>4. told \in Int /\ lost \in Nat
  BY CountsAreNumbers
<1>5. Passed' >= Passed /\ (area = "null" => Passed' = Passed)
  <2>1. Passed = told + lost /\ Passed' = told' + lost
    BY <1>1, <1>2, <1>3, <1>4 DEF Passed
  <2>2. PICK a, b, c : a = told' /\ b = told /\ c = lost
    OBVIOUS
  <2>3. b \in Int /\ c \in Int /\ (a = b \/ a = b + 1)
    BY <1>3, <1>4, <2>2
  <2>4. Passed' >= Passed
    BY <2>1, <2>2, <2>3
  <2> QED
    BY <1>3, <2>1, <2>4
<1> QED
  BY <1>3, <1>5, ReaderStep DEF sent

\* A round of xsgetn takes what it copies.
LEMMA XsgetnTakes ==
  ASSUME IInv, NEW b \in Seq(Int), NEW p \in 0 .. Len(b),
         NEW need \in Nat, NEW ret \in Nat,
         NEW c, c = [op |-> "sgetn", need |-> need, ret |-> ret],
         Xsgetn(b, p, c), lost' = lost
  PROVE  told' + lost' + call'.ret >= told + lost + ret
<1>1. PICK rval : rval = Len(b) - p
  OBVIOUS
<1>2. Len(b) \in Nat /\ rval \in Nat
  BY <1>1, LenProperties
<1>3. told \in Int /\ lost \in Nat
  BY CountsAreNumbers
<1>4. CASE rval >= need
  <2>1. told' = told + (ret + need) /\ call'.ret = 0
    BY <1>1, <1>2, <1>4 DEF Xsgetn, Return, Idle
  <2> QED
    BY <1>3, <2>1
<1>5. CASE rval < need
  <2>1. /\ told' = told
        /\ call' = [c EXCEPT !.need = need - rval, !.ret = ret + rval]
    BY <1>1, <1>2, <1>5 DEF Xsgetn
  <2>2. call'.ret = ret + rval
    BY <2>1
  <2> QED
    BY <1>2, <1>3, <2>1, <2>2
<1> QED
  BY <1>2, <1>4, <1>5

\* sgetn takes the chars it copies out.
LEMMA SgetnSimulates ==
  ASSUME IInv, IInv', Sgetn PROVE [Input!Next]_Input!vars
<1>1. call.ret = 0 /\ UNCHANGED <<area, taken, rcv, lost>>
  BY IdleFacts DEF Sgetn, kernel
<1>2. get \in Seq(Int) /\ g \in 0 .. Len(get)
  BY DEF IInv, TypeOK
<1>3. CASE area = "live"
  <2>1. PICK n \in 1 .. MaxArg :
          Xsgetn(get, g, [op |-> "sgetn", need |-> n, ret |-> 0])
    BY <1>3 DEF Sgetn
  <2>2. n \in Nat /\ 0 \in Nat
    OBVIOUS
  <2>3. told' + lost' + call'.ret >= told + lost + 0
    BY <1>1, <1>2, <2>1, <2>2, XsgetnTakes
  <2>4. Passed' >= Passed
    BY <1>1, <2>3 DEF Passed
  <2> QED
    BY <1>1, <1>3, <2>4, ReaderStep DEF sent
<1>4. CASE area = "null"
  <2>1. told' = told /\ call'.ret = 0
    BY <1>4 DEF Sgetn, Return, Idle
  <2> QED
    BY <1>1, <2>1, QuietStep DEF Passed, sent
<1> QED
  BY <1>3, <1>4 DEF IInv, TypeOK

\* sungetc puts the char before gptr () back.
LEMMA SungetcSimulates ==
  ASSUME IInv, IInv', Sungetc PROVE [Input!Next]_Input!vars
<1>1. /\ call.ret = 0 /\ UNCHANGED <<area, taken, rcv, lost>> /\ call'.ret = 0
      /\ (area = "null" => g = Len(get)) /\ g \in 0 .. Len(get)
  BY IdleFacts DEF Sungetc, kernel, Return, Idle
<1>2. told \in Int /\ lost \in Nat
  BY CountsAreNumbers
<1>3. CASE g > 0 /\ told' = told - 1
  <2>1. area = "live"
    <3>1. area = "null" => Len(get) = 0
      BY EmptySeq DEF IInv, Control
    <3> QED
      BY <1>1, <1>3, <3>1 DEF IInv, TypeOK
  <2>2. Passed' = Passed - 1
    BY <1>1, <1>2, <1>3 DEF Passed
  <2> QED
    BY <1>1, <2>1, <2>2, PutBackStep DEF sent
<1>4. CASE told' = told
  BY <1>1, <1>4, QuietStep DEF Passed, sent
<1> QED
  BY <1>3, <1>4 DEF Sungetc

\* shutdown (shut_read) ends the stream, if it has not ended.
LEMMA ShutdownSimulates ==
  ASSUME IInv, IInv', ShutdownRead PROVE [Input!Next]_Input!vars
<1>1. /\ call.ret = 0 /\ call'.ret = 0 /\ area' = "null"
      /\ UNCHANGED <<taken, rcv, told, lost>>
  BY IdleFacts DEF ShutdownRead, kernel, Return, Idle
<1>2. Passed' = Passed
  BY <1>1 DEF Passed
<1>3. CASE area = "live"
  BY <1>1, <1>2, <1>3 DEF Passed, Input!Next, Input!End
<1>4. CASE area = "null"
  BY <1>1, <1>2, <1>4, QuietStep DEF sent
<1> QED
  BY <1>3, <1>4 DEF IInv, TypeOK

\* An exception leaves what it has copied out behind: taken and lost.
LEMMA ThrowsSimulates ==
  ASSUME IInv, IInv', NEW e \in Exceptions, Throws(e), UNCHANGED <<rcv, taken>>
  PROVE  [Input!Next]_Input!vars
<1>1. /\ UNCHANGED <<area, told>> /\ lost' = lost + call.ret /\ call'.ret = 0
  BY DEF Throws, Return, Idle
<1>2. told \in Int /\ lost \in Nat /\ call.ret \in Nat
  BY CountsAreNumbers
<1>3. Passed' = Passed
  BY <1>1, <1>2 DEF Passed
<1> QED
  BY <1>1, <1>3, QuietStep DEF sent

\* ::read moves bytes from the kernel to the get area; the call takes what it
\* needs of them.
LEMMA ReadSomeSimulates ==
  ASSUME IInv, IInv', ReadSome PROVE [Input!Next]_Input!vars
<1>1. io = "read" /\ UNCHANGED <<area, lost>>
  BY DEF ReadSome
<1>2. PICK n \in 1 .. Available :
        /\ rcv' = SubSeq(rcv, n + 1, Len(rcv))
        /\ taken' = taken + n
        /\ \/ call.op = "sgetc" /\ call' = Idle /\ UNCHANGED told
           \/ call.op = "sbumpc" /\ call' = Idle /\ told' = told + 1
           \/ call.op = "sgetn" /\ Xsgetn(SubSeq(rcv, 1, n), 0, call)
  BY DEF ReadSome, Refill, Return
<1>3. /\ call \in [op : {"sgetc", "sbumpc", "sgetn"}, need : Nat, ret : Nat]
      /\ call.op # "sgetn" => call.ret = 0
      /\ area = "live"
  BY <1>1, ReadingFacts
<1>4. /\ told \in Int /\ lost \in Nat /\ taken \in Nat /\ Len(rcv) \in Nat
      /\ rcv \in Seq(Int) /\ mark \in Int
  BY CountsAreNumbers DEF IInv, TypeOK
<1>5. n \in 0 .. Len(rcv)
  BY <1>4 DEF Available
<1>6. sent' = sent
  <2>1. Len(SubSeq(rcv, n + 1, Len(rcv))) = Len(rcv) - n
    BY <1>4, <1>5, Rest
  <2>2. Len(rcv') = Len(rcv) - n
    BY <1>2, <2>1
  <2>3. taken + n + (Len(rcv) - n) = taken + Len(rcv)
    BY <1>4, <1>5
  <2>4. sent' = taken + n + (Len(rcv) - n)
    BY <1>2, <2>2 DEF sent
  <2> QED
    BY <2>3, <2>4 DEF sent
<1>7. Passed' >= Passed
  <2>1. CASE call.op = "sgetn" /\ Xsgetn(SubSeq(rcv, 1, n), 0, call)
    <3>1. PICK need, ret, c : c = call /\ need = call.need /\ ret = call.ret
      OBVIOUS
    <3>2. need \in Nat /\ ret \in Nat /\ c = [op |-> "sgetn", need |-> need, ret |-> ret]
      BY <1>3, <2>1, <3>1
    <3>3. PICK b : b = SubSeq(rcv, 1, n)
      OBVIOUS
    <3>4. b \in Seq(Int) /\ 0 \in 0 .. Len(b) /\ Xsgetn(b, 0, c)
      BY <1>4, <1>5, <2>1, <3>1, <3>3, Prefix, LenProperties
    <3>5. told' + lost' + call'.ret >= told + lost + ret
      BY <1>1, <3>2, <3>4, XsgetnTakes
    <3> QED
      BY <3>1, <3>5 DEF Passed
  <2>2. CASE call.op # "sgetn"
    <3>1. call'.ret = 0 /\ told' \in {told, told + 1} /\ call.ret = 0
      BY <1>2, <1>3, <2>2 DEF Idle
    <3>2. Passed = told + lost /\ Passed' = told' + lost
      BY <1>1, <1>4, <3>1 DEF Passed
    <3>3. PICK a, b, c : a = told' /\ b = told /\ c = lost
      OBVIOUS
    <3>4. b \in Int /\ c \in Int /\ (a = b \/ a = b + 1)
      BY <1>4, <3>1, <3>3
    <3> QED
      BY <3>2, <3>3, <3>4
  <2> QED
    BY <1>2, <2>1, <2>2
<1> QED
  BY <1>1, <1>3, <1>6, <1>7, ReaderStep

\* At the end of the stream an sgetn is told what it has.
LEMMA ReadEofSimulates ==
  ASSUME IInv, IInv', ReadEof PROVE [Input!Next]_Input!vars
<1>1. /\ UNCHANGED <<area, lost, rcv, taken>> /\ told' = told + call.ret
      /\ call'.ret = 0
  BY DEF ReadEof, buffer, kernel, Return, Idle
<1>2. told \in Int /\ lost \in Nat /\ call.ret \in Nat
  BY CountsAreNumbers
<1>3. Passed' = Passed
  BY <1>1, <1>2 DEF Passed
<1> QED
  BY <1>1, <1>3, QuietStep DEF sent

\* The steps before ::read, and the failures of select, atmark and ::read.
LEMMA OtherProceedsSimulate ==
  ASSUME IInv, IInv',
         \/ SelectReady \/ SelectTimesOut \/ SelectInterrupted \/ CheckMark
         \/ ReadFails \/ ReadInterrupted
  PROVE  [Input!Next]_Input!vars
<1>1. CASE UNCHANGED <<area, call, rcv, taken, told, lost>>
  BY <1>1, QuietStep DEF Passed, sent
<1>2. CASE (\E e \in Exceptions : Throws(e)) /\ UNCHANGED <<rcv, taken>>
  BY <1>2, ThrowsSimulates
<1> QED
  BY <1>1, <1>2
  DEF SelectReady, SelectTimesOut, SelectInterrupted, CheckMark, ReadFails,
      ReadInterrupted, buffer, kernel, ghosts, Exceptions

\* What the peer sends arrives, unless nobody can read it any more.
LEMMA PeerSimulates ==
  ASSUME IInv, IInv', Peer PROVE [Input!Next]_Input!vars
<1>1. UNCHANGED <<area, call, told, lost, taken>>
  BY DEF Peer, PeerSends, PeerSendsUrgent, PeerEnds, buffer, control, ghosts
<1>2. Passed' = Passed
  BY <1>1 DEF Passed
<1>3. CASE rcv' = rcv
  BY <1>1, <1>2, <1>3, QuietStep DEF sent
<1>4. CASE PeerSends
  <2>1. PICK n \in 1 .. MaxBytes : rcv' = rcv \o [i \in 1 .. n |-> sent + i]
    BY <1>4 DEF PeerSends
  <2>2. sent \in Nat /\ rcv \in Seq(Int) /\ taken \in Nat /\ Len(rcv) \in Nat
    BY CountsAreNumbers DEF IInv, TypeOK
  <2>3. PICK s : s = [i \in 1 .. n |-> sent + i]
    OBVIOUS
  <2>4. s \in Seq(Int) /\ Len(s) = n
    BY <2>2, <2>3
  <2>5. Len(rcv') = Len(rcv) + n
    BY <2>1, <2>2, <2>3, <2>4, ConcatProperties
  <2>6. sent' >= sent
    BY <1>1, <2>2, <2>5 DEF sent
  <2>7. CASE area = "live"
    BY <1>1, <1>2, <2>6, <2>7, ArriveStep
  <2>8. CASE area = "null"
    BY <1>1, <1>2, <2>8 DEF Passed, Input!vars
  <2> QED
    BY <2>7, <2>8 DEF IInv, TypeOK
<1> QED
  BY <1>3, <1>4 DEF Peer, PeerSendsUrgent, PeerEnds

\* Every step of the input half is a step of the abstract stream, or none.
THEOREM StepSimulation ==
  IInv /\ IInv' /\ [Next]_vars => [Input!Next]_Input!vars
<1> SUFFICES ASSUME IInv, IInv', [Next]_vars PROVE [Input!Next]_Input!vars
  OBVIOUS
<1>1. CASE Calls
  <2>1. CASE Recvtimeout \/ Oob \/ Nonblock
    <3>1. UNCHANGED <<area, call, rcv, taken, told, lost>>
      BY <2>1 DEF Recvtimeout, Oob, Nonblock, buffer, control, kernel, ghosts
    <3> QED
      BY <3>1, QuietStep DEF Passed, sent
  <2> QED
    BY <1>1, <2>1, SgetcSimulates, SbumpcSimulates, SgetnSimulates,
       SungetcSimulates, ShutdownSimulates DEF Calls
<1>2. CASE Proceed \/ Signal
  BY <1>2, ReadSomeSimulates, ReadEofSimulates, OtherProceedsSimulate
  DEF Proceed, Signal
<1>3. CASE Peer
  BY <1>3, PeerSimulates
<1>4. CASE UNCHANGED vars
  <2>1. UNCHANGED <<area, call, rcv, taken, told, lost>>
    BY <1>4 DEF vars
  <2> QED
    BY <2>1, QuietStep DEF Passed, sent
<1> QED
  BY <1>1, <1>2, <1>3, <1>4 DEF Next

\* The input half implements the abstract stream: the reader sees the peer's
\* bytes in order, a refill hides, repeats and reorders none, and sungetc
\* undoes the latest take, whatever the sizes, timeouts, marks and errors.
THEOREM Refinement == Spec => ImplementsInput
<1>1. Init => Input!Init
  <2> SUFFICES ASSUME Init PROVE Input!Init
    OBVIOUS
  <2>1. Unread = <<>>
    <3>1. Unread \in Seq(Int) /\ Len(Unread) = sent - Passed
      BY InitIInv, UnreadFacts DEF Init
    <3>2. sent = 0 /\ Passed = 0
      BY DEF Init, sent, Passed, Idle
    <3> QED
      BY <3>1, <3>2, EmptySeq
  <2>2. area = "live" /\ told + lost + call.ret + 1 = 1
    BY DEF Init, Idle
  <2> QED
    BY <2>1, <2>2 DEF Unread, Input!Init
<1> QED
  BY <1>1, InitIInv, IInvInductive, StepSimulation, PTL
  DEF Spec, ImplementsInput, Input!Spec
=============================================================================

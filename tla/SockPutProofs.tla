---------------------------- MODULE SockPutProofs ----------------------------
(***************************************************************************)
(* Proofs about the output half of sockbuf, for every size of the put area *)
(* and of the kernel's queue and every length of the behaviour.            *)
(*                                                                         *)
(* WireInOrder and NothingLost are not inductive alone: that a flush takes *)
(* up where the kernel is needs io.wlen to stay within the put area, that  *)
(* new bytes line up behind the old ones needs dropped = 0 while the area  *)
(* is live, and that xsputn goes on with the right byte after a flush      *)
(* needs the bytes it still holds to be the ones that follow acc.          *)
(***************************************************************************)
EXTENDS SockPut, BytesProofs

\* Which part of the sockbuf is in use in which situation.
Control ==
  /\ io.wlen <= Len(put)
  /\ io.at # "write" => io.wlen = 0
  /\ io.at = "no" <=> call.op = "none"
  /\ call.op # "none" => area = "live" /\ fate = "open" /\ out = Nothing
  /\ area = "null" => put = <<>>
  /\ fate # "open" => put = <<>>
  /\ area = "live" /\ fate # "terminated" => dropped = 0

\* What the call in progress still has to copy, and what it has counted.
Pending ==
  /\ Follows(call.rest, acc)
  /\ call.op = "sputc" => Len(call.rest) = 1 /\ acc = from
  /\ call.op = "sputn" => call.ret = acc - from

\* A sockbuf whose destructor returned has delivered all it accepted, but for
\* what a shutdown (shut_write) had discarded.
DestroyedMeansDelivered ==
  fate = "destroyed" => /\ Len(wire) + dropped = acc
                        /\ area = "live" => Len(wire) = acc

\* The inductive invariant.
IInv ==
  /\ TypeOK
  /\ Control
  /\ Pending
  /\ WireInOrder
  /\ NothingLost
  /\ CountsAreTold
  /\ FlushReachesWire
  /\ DestroyedMeansDelivered

USE CapAssumption, SndBufAssumption, BoundAssumption

------------------------------------------------------------------------------
(* Sequences.                                                              *)

\* The first n of the bytes s appended to a piece that ends where s begins.
LEMMA FollowsConcat ==
  ASSUME NEW p \in Seq(Nat), NEW s \in Seq(Nat), NEW n \in 0 .. Len(s),
         NEW base \in Int, Follows(p, base), Follows(s, base + Len(p))
  PROVE  /\ p \o SubSeq(s, 1, n) \in Seq(Nat)
         /\ Len(p \o SubSeq(s, 1, n)) = Len(p) + n
         /\ Follows(p \o SubSeq(s, 1, n), base)
<1> DEFINE t == SubSeq(s, 1, n)
<1>1. base + Len(p) \in Int
  BY LenProperties
<1>2. t \in Seq(Nat) /\ Len(t) = n /\ Follows(t, base + Len(p))
  BY <1>1, FollowsPrefix
<1> HIDE DEF t
<1>3. /\ p \o t \in Seq(Nat) /\ Len(p \o t) = Len(p) + Len(t)
      /\ Follows(p \o t, base)
  BY <1>2, FollowsJoin, Nat \subseteq Int
<1> QED
  BY <1>2, <1>3 DEF t

------------------------------------------------------------------------------
(* The building blocks of the calls.                                       *)

\* xsputn with a put area p that stands behind w kernel bytes, and bytes s
\* that follow those of p: the area keeps its size and its order, and either
\* all is taken and counted or the call goes on with what follows.
LEMMA XsputnStep ==
  ASSUME TypeOK,
         NEW p \in Seq(Nat), Len(p) <= Cap, NEW s \in Seq(Nat), NEW ret \in Nat,
         NEW w \in Nat, Follows(p, w), acc = w + Len(p), Follows(s, acc),
         Xsputn(p, s, ret)
  PROVE  /\ put' \in Seq(Nat) /\ Len(put') <= Cap
         /\ Follows(put', w)
         /\ acc' \in Nat /\ acc' = w + Len(put')
         /\ io'.wlen = 0
         /\ \/ /\ call' = Idle
               /\ io' = NoIo
               /\ out' = Value("sputn", ret + (acc' - acc))
               /\ ret + (acc' - acc) \in Nat
            \/ /\ call' \in [op : {"sputn"}, rest : Seq(Nat), ret : Nat]
               /\ Follows(call'.rest, acc')
               /\ call'.ret = ret + (acc' - acc)
               /\ io' \in [at : {"select", "write"}, wlen : Nat]
               /\ out' = Nothing
<1> DEFINE wval == Cap - Len(p)
<1>1. Len(p) \in Nat /\ Len(s) \in Nat /\ wval \in Nat /\ acc \in Nat
  BY LenProperties DEF TypeOK
<1>2. CASE Len(s) <= wval
  <2>1. Copy(p, s, Len(s)) /\ Return(Value("sputn", ret + Len(s)))
    BY <1>1, <1>2 DEF Xsputn
  <2>2. /\ put' \in Seq(Nat) /\ Len(put') = Len(p) + Len(s)
        /\ Follows(put', w)
    BY <1>1, <2>1, FollowsConcat DEF Copy
  <2>3. acc' = acc + Len(s)
    BY <2>1 DEF Copy
  <2>4. call' = Idle /\ io' = NoIo /\ out' = Value("sputn", ret + (acc' - acc))
    BY <1>1, <2>1, <2>3 DEF Return
  <2> QED
    BY <1>1, <1>2, <2>2, <2>3, <2>4 DEF NoIo
<1>3. CASE Len(s) > wval
  <2>1. /\ Copy(p, s, wval)
        /\ call' = [op |-> "sputn", rest |-> SubSeq(s, wval + 1, Len(s)),
                    ret |-> ret + wval]
        /\ EnterSync
    BY <1>1, <1>3 DEF Xsputn
  <2>2. /\ put' \in Seq(Nat) /\ Len(put') = Len(p) + wval
        /\ Follows(put', w)
    <3>1. put' = p \o SubSeq(s, 1, wval)
      BY <2>1 DEF Copy
    <3>2. wval \in 0 .. Len(s) /\ Follows(s, w + Len(p))
      BY <1>1, <1>3
    <3> HIDE DEF wval
    <3> QED
      BY <3>1, <3>2, FollowsConcat
  <2>3. acc' = acc + wval
    BY <2>1 DEF Copy
  <2>4. /\ SubSeq(s, wval + 1, Len(s)) \in Seq(Nat)
        /\ Follows(SubSeq(s, wval + 1, Len(s)), acc')
    <3>1. wval \in 0 .. Len(s)
      BY <1>1, <1>3
    <3> HIDE DEF wval
    <3>2. /\ SubSeq(s, wval + 1, Len(s)) \in Seq(Nat)
          /\ Follows(SubSeq(s, wval + 1, Len(s)), acc + wval)
      <4>1. acc \in Int /\ Follows(s, acc)
        BY <1>1
      <4> QED
        BY <3>1, <4>1, FollowsTail
    <3> QED
      BY <2>3, <3>2
  <2>5. /\ io' \in [at : {"select", "write"}, wlen : Nat]
        /\ io'.wlen = 0
        /\ out' = Nothing
    BY <2>1 DEF EnterSync
  <2> QED
    BY SMTT(60), <1>1, <1>3, <2>1, <2>2, <2>3, <2>4, <2>5
<1> QED
  BY <1>1, <1>2, <1>3

\* A flush that throws leaves a put area that starts where the kernel is.
LEMMA SyncThrowsStep ==
  ASSUME IInv, io.at # "no", NEW e \in Exceptions, SyncThrows(e),
         UNCHANGED <<area, stmo, nb, wire, room, broken, acc, from>>
  PROVE  IInv'
<1>1. /\ call.op \in Ops /\ area = "live" /\ fate = "open" /\ dropped = 0
      /\ acc \in Nat /\ from \in Nat
  BY DEF IInv, TypeOK, Control
<1>2. /\ put \in Seq(Nat) /\ Len(put) \in Nat /\ Len(wire) \in Nat
      /\ io.wlen \in 0 .. Len(put)
      /\ acc = Len(wire) + (Len(put) - io.wlen)
      /\ Follows(put, Len(wire) - io.wlen)
  BY <1>1, LenProperties DEF IInv, TypeOK, Control, NothingLost
<1>3. CASE call.op = "dtor"
  <2>1. /\ fate' = "terminated" /\ dropped' = Len(put) - io.wlen /\ put' = <<>>
        /\ call' = Idle /\ io' = NoIo /\ out' = Nothing
    BY <1>1, <1>2, <1>3 DEF SyncThrows, Return
  <2>2. <<>> \in Seq(Nat) /\ Len(<<>>) = 0
    BY EmptySeq
  <2>3. TypeOK'
    BY <1>2, <2>1, <2>2 DEF IInv, TypeOK, Idle, NoIo, Nothing
  <2>4. Control' /\ Pending'
    BY <1>1, <2>1, <2>2 DEF Control, Pending, Follows, Idle, NoIo, Nothing
  <2>5. WireInOrder' /\ NothingLost'
    BY <1>2, <2>1, <2>2 DEF IInv, WireInOrder, NothingLost, Follows, NoIo
  <2>6. CountsAreTold' /\ FlushReachesWire' /\ DestroyedMeansDelivered'
    BY <2>1
    DEF CountsAreTold, FlushReachesWire, DestroyedMeansDelivered, Nothing
  <2> QED
    BY <2>3, <2>4, <2>5, <2>6 DEF IInv
<1>4. CASE call.op # "dtor"
  <2>1. /\ fate' = fate /\ dropped' = dropped
        /\ put' = SubSeq(put, io.wlen + 1, Len(put))
        /\ call' = Idle /\ io' = NoIo /\ out' = Throw(call.op, e)
    BY <1>4 DEF SyncThrows, Return
  <2>2. /\ put' \in Seq(Nat) /\ Len(put') = Len(put) - io.wlen
        /\ Follows(put', (Len(wire) - io.wlen) + io.wlen)
    <3> DEFINE base == Len(wire) - io.wlen
               w == io.wlen
    <3>1. /\ put \in Seq(Nat) /\ w \in 0 .. Len(put) /\ base \in Int
          /\ Follows(put, base) /\ put' = SubSeq(put, w + 1, Len(put))
      BY <1>2, <2>1
    <3> HIDE DEF base, w
    <3>2. /\ put' \in Seq(Nat) /\ Len(put') = Len(put) - w
          /\ Follows(put', base + w)
      BY <3>1, FollowsTail
    <3> QED
      BY <3>2 DEF base, w
  <2>3. TypeOK'
    <3>1. call' \in [op : Ops \cup {"none"}, rest : Seq(Nat), ret : Nat]
      BY <2>1, EmptySeq DEF Idle
    <3>2. io' \in [at : {"no", "select", "write"}, wlen : Nat]
      BY <2>1 DEF NoIo
    <3>3. out' \in [op : Ops \cup {"none", "shutdown"},
                   kind : Exceptions \cup {"none", "value", "EOF"}, val : Nat]
      BY <1>1, <2>1 DEF Throw
    <3>4. put' \in Seq(Nat) /\ Len(put') <= Cap
      BY <1>2, <2>2 DEF IInv, TypeOK
    <3> QED
      BY <2>1, <3>1, <3>2, <3>3, <3>4 DEF IInv, TypeOK
  <2>4. Control' /\ Pending'
    BY <1>1, <1>2, <2>1, <2>2, EmptySeq DEF Control, Pending, Follows, Idle, NoIo
  <2>5. WireInOrder' /\ NothingLost'
    <3>1. Follows(put', Len(wire)) /\ Len(wire) + Len(put') = acc
      BY <1>2, <2>2
    <3>2. wire' = wire /\ io'.wlen = 0 /\ acc' = acc /\ dropped' = 0
      BY <1>1, <2>1 DEF NoIo
    <3>3. Len(put') \in Nat /\ Len(wire) \in Nat
      BY <1>2, <2>2
    <3> QED
      BY <3>1, <3>2, <3>3 DEF IInv, WireInOrder, NothingLost
  <2>6. CountsAreTold' /\ FlushReachesWire' /\ DestroyedMeansDelivered'
    BY <1>1, <2>1
    DEF IInv, Pending, CountsAreTold, FlushReachesWire, DestroyedMeansDelivered,
        Throw, Exceptions
  <2> QED
    BY <2>3, <2>4, <2>5, <2>6 DEF IInv
<1> QED
  BY <1>3, <1>4

\* A round of xsputn keeps the invariant.
LEMMA XsputnKeeps ==
  ASSUME IInv, area = "live", fate = "open",
         NEW p \in Seq(Nat), Len(p) <= Cap, NEW s \in Seq(Nat), NEW ret \in Nat,
         Follows(p, Len(wire)), acc = Len(wire) + Len(p), Follows(s, acc),
         from' \in Nat, ret = acc - from',
         Xsputn(p, s, ret),
         UNCHANGED <<area, stmo, nb, wire, room, broken, fate, dropped>>
  PROVE  IInv'
<1>1. /\ TypeOK /\ WireInOrder /\ dropped = 0 /\ Len(wire) \in Nat /\ acc \in Nat
  BY LenProperties DEF IInv, TypeOK, Control
<1>2. /\ put' \in Seq(Nat) /\ Len(put') <= Cap /\ Len(put') \in Nat
      /\ Follows(put', Len(wire))
      /\ acc' \in Nat /\ acc' = Len(wire) + Len(put')
      /\ io'.wlen = 0
  BY <1>1, XsputnStep, LenProperties
<1>3. WireInOrder' /\ NothingLost'
  BY <1>1, <1>2 DEF WireInOrder, NothingLost
<1>4. CASE /\ call' = Idle
           /\ io' = NoIo
           /\ out' = Value("sputn", ret + (acc' - acc))
           /\ ret + (acc' - acc) \in Nat
  <2>1. TypeOK'
    BY <1>1, <1>2, <1>4, EmptySeq DEF TypeOK, Idle, NoIo, Value, Ops
  <2>2. Control' /\ Pending'
    BY <1>1, <1>2, <1>4, EmptySeq DEF Control, Pending, Follows, Idle, NoIo
  <2>3. CountsAreTold' /\ FlushReachesWire' /\ DestroyedMeansDelivered'
    BY <1>1, <1>2, <1>4
    DEF CountsAreTold, FlushReachesWire, DestroyedMeansDelivered, Value
  <2> QED
    BY <1>3, <2>1, <2>2, <2>3 DEF IInv
<1>5. CASE /\ call' \in [op : {"sputn"}, rest : Seq(Nat), ret : Nat]
           /\ Follows(call'.rest, acc')
           /\ call'.ret = ret + (acc' - acc)
           /\ io' \in [at : {"select", "write"}, wlen : Nat]
           /\ out' = Nothing
  <2>1. TypeOK'
    BY <1>1, <1>2, <1>5 DEF TypeOK, Nothing, Ops
  <2>2. Control'
    <3>1. call'.op = "sputn" /\ io'.at # "no" /\ io'.wlen = 0 /\ out' = Nothing
      BY <1>2, <1>5
    <3>2. area' = "live" /\ fate' = "open" /\ dropped' = 0 /\ Len(put') \in Nat
      BY <1>1, <1>2
    <3> QED
      BY <3>1, <3>2 DEF Control
  <2>3. Pending'
    <3>1. call'.op = "sputn"
      BY <1>5
    <3>2. call'.ret = acc' - from'
      BY <1>1, <1>2, <1>5
    <3> QED
      BY <1>5, <3>1, <3>2 DEF Pending
  <2>4. CountsAreTold' /\ FlushReachesWire' /\ DestroyedMeansDelivered'
    BY <1>1, <1>5
    DEF CountsAreTold, FlushReachesWire, DestroyedMeansDelivered, Nothing
  <2> QED
    BY <1>3, <2>1, <2>2, <2>3, <2>4 DEF IInv
<1> QED
  BY <1>1, <1>4, <1>5, XsputnStep

------------------------------------------------------------------------------
(* The invariant holds at the start and every action keeps it.             *)

\* A sockbuf on a connection begins with an empty put area.
LEMMA InitIInv == Init => IInv
<1> SUFFICES ASSUME Init PROVE IInv
  OBVIOUS
<1>1. <<>> \in Seq(Nat) /\ Len(<<>>) = 0
  BY EmptySeq
<1>2. TypeOK
  <2>1. call \in [op : Ops \cup {"none"}, rest : Seq(Nat), ret : Nat]
    BY <1>1 DEF Init, Idle
  <2>2. io \in [at : {"no", "select", "write"}, wlen : Nat]
    BY DEF Init, NoIo
  <2>3. out \in [op : Ops \cup {"none", "shutdown"},
                kind : Exceptions \cup {"none", "value", "EOF"}, val : Nat]
    BY DEF Init, Nothing
  <2>4. put \in Seq(Nat) /\ Len(put) <= Cap /\ wire \in Seq(Nat)
    BY <1>1 DEF Init
  <2>5. room \in 0 .. SndBuf /\ acc \in Nat /\ from \in Nat /\ dropped \in Nat
    BY DEF Init
  <2> QED
    BY <2>1, <2>2, <2>3, <2>4, <2>5 DEF Init, TypeOK
<1> QED
  BY <1>1, <1>2
  DEF Init, IInv, Control, Pending, Follows, WireInOrder, NothingLost, Idle,
      NoIo, Nothing, CountsAreTold, FlushReachesWire, DestroyedMeansDelivered

\* Between calls nothing is in flight.
LEMMA IdleFacts ==
  ASSUME IInv, CanCall
  PROVE  /\ io.at = "no" /\ io.wlen = 0
         /\ put \in Seq(Nat) /\ Len(put) <= Cap /\ Len(put) \in Nat
         /\ Len(wire) \in Nat
         /\ Follows(put, Len(wire))
         /\ acc = Len(wire) + Len(put) + dropped
         /\ area = "live" => dropped = 0
         /\ area = "null" => put = <<>>
<1>1. /\ put \in Seq(Nat) /\ Len(put) <= Cap /\ Len(put) \in Nat
      /\ Len(wire) \in Nat /\ dropped \in Nat /\ acc \in Nat
  BY LenProperties DEF IInv, TypeOK
<1>2. io.at = "no" /\ io.wlen = 0
  BY DEF IInv, CanCall, Control
<1>3. /\ acc = Len(wire) + (Len(put) - io.wlen) + dropped
      /\ Follows(put, Len(wire) - io.wlen)
  BY DEF IInv, NothingLost
<1>4. Len(wire) - io.wlen = Len(wire)
  BY <1>1, <1>2
<1>5. /\ area = "live" => dropped = 0
      /\ area = "null" => put = <<>>
  BY DEF IInv, CanCall, Control
<1> QED
  BY <1>1, <1>2, <1>3, <1>4, <1>5

\* A call that touches no byte ends with outcome o.
LEMMA ReturnKeeps ==
  ASSUME IInv, CanCall, NEW o \in [op : {"sputc", "sputn", "pubsync", "shutdown"},
                                  kind : Exceptions \cup {"value", "EOF"}, val : Nat],
         out' = o, call' = Idle, io' = NoIo, from' = acc,
         o.op = "sputn" /\ o.kind = "value" => o.val = 0,
         o.op = "sputc" => o.kind # "value",
         o.op = "pubsync" => put = <<>>,
         UNCHANGED <<put, area, stmo, nb, wire, room, broken, fate, acc, dropped>>
  PROVE  IInv'
<1>1. /\ fate = "open" /\ acc \in Nat /\ TypeOK /\ WireInOrder /\ dropped \in Nat
  BY DEF IInv, CanCall, TypeOK
<1>2. <<>> \in Seq(Nat) /\ Len(<<>>) = 0
  BY EmptySeq
<1>3. TypeOK'
  BY <1>1, <1>2 DEF TypeOK, Idle, NoIo, Ops
<1>4. Control' /\ Pending'
  BY <1>1, <1>2, IdleFacts DEF Control, Pending, Follows, Idle, NoIo
<1>5. WireInOrder' /\ NothingLost'
  BY <1>1, IdleFacts DEF WireInOrder, NothingLost, NoIo
<1>6. CountsAreTold'
  BY <1>1 DEF CountsAreTold
<1>7. FlushReachesWire' /\ DestroyedMeansDelivered'
  BY <1>1, <1>2, IdleFacts DEF FlushReachesWire, DestroyedMeansDelivered
<1> QED
  BY <1>3, <1>4, <1>5, <1>6, <1>7 DEF IInv

\* A call that needs a flush first enters sync () and keeps its bytes s.
LEMMA EnterKeeps ==
  ASSUME IInv, CanCall, area = "live",
         NEW o \in {"sputc", "pubsync", "dtor"}, NEW s \in Seq(Nat),
         call' = [op |-> o, rest |-> s, ret |-> 0], EnterSync, from' = acc,
         Follows(s, acc), o = "sputc" => Len(s) = 1,
         UNCHANGED <<put, area, stmo, nb, wire, room, broken, fate, acc, dropped>>
  PROVE  IInv'
<1>1. /\ fate = "open" /\ acc \in Nat /\ TypeOK /\ WireInOrder /\ dropped = 0
  BY IdleFacts DEF IInv, CanCall, TypeOK
<1>2. /\ io' \in [at : {"select", "write"}, wlen : Nat] /\ io'.wlen = 0
      /\ out' = Nothing
  BY DEF EnterSync
<1>3. TypeOK'
  BY <1>1, <1>2 DEF TypeOK, Nothing, Ops
<1>4. Control' /\ Pending'
  BY <1>1, <1>2, IdleFacts DEF Control, Pending
<1>5. WireInOrder' /\ NothingLost'
  BY <1>1, <1>2, IdleFacts DEF WireInOrder, NothingLost
<1>6. CountsAreTold' /\ FlushReachesWire' /\ DestroyedMeansDelivered'
  BY <1>1, <1>2
  DEF CountsAreTold, FlushReachesWire, DestroyedMeansDelivered, Nothing
<1> QED
  BY <1>3, <1>4, <1>5, <1>6 DEF IInv

\* sputc stores a byte, or begins a flush of a full area.
LEMMA SputcKeeps == IInv /\ Sputc => IInv'
<1> SUFFICES ASSUME IInv, Sputc PROVE IInv'
  OBVIOUS
<1>1. /\ CanCall /\ from' = acc /\ acc \in Nat
      /\ UNCHANGED <<area, stmo, fate, nb, wire, room, broken, dropped>>
      /\ fate = "open" /\ TypeOK /\ WireInOrder
  BY DEF Sputc, kernel, IInv, TypeOK, CanCall
<1>2. CASE area = "live" /\ Len(put) < Cap /\ Copy(put, <<acc + 1>>, 1)
           /\ Return(Value("sputc", 1))
  <2>1. <<acc + 1>> \in Seq(Nat) /\ Len(<<acc + 1>>) = 1 /\ <<acc + 1>>[1] = acc + 1
    BY <1>1
  <2>2. Follows(<<acc + 1>>, Len(wire) + Len(put))
    BY <1>1, <1>2, <2>1, IdleFacts DEF Follows
  <2>3. /\ put' \in Seq(Nat) /\ Len(put') = Len(put) + 1
        /\ Follows(put', Len(wire))
    <3>1. put' = put \o SubSeq(<<acc + 1>>, 1, 1)
      BY <1>2 DEF Copy
    <3>2. put \in Seq(Nat) /\ Len(wire) \in Int /\ Follows(put, Len(wire))
      BY <1>1, IdleFacts
    <3>3. 1 \in 0 .. Len(<<acc + 1>>)
      BY <2>1
    <3> QED
      BY <2>1, <2>2, <3>1, <3>2, <3>3, FollowsConcat
  <2>4. acc' = acc + 1 /\ call' = Idle /\ io' = NoIo /\ out' = Value("sputc", 1)
    BY <1>2 DEF Copy, Return
  <2>5. TypeOK'
    BY <1>1, <1>2, <2>3, <2>4, EmptySeq, IdleFacts DEF TypeOK, Idle, NoIo, Value, Ops
  <2>6. Control' /\ Pending'
    BY <1>1, <1>2, <2>3, <2>4, EmptySeq, IdleFacts DEF Control, Pending, Follows, Idle, NoIo
  <2>7. WireInOrder' /\ NothingLost'
    BY <1>1, <1>2, <2>3, <2>4, IdleFacts DEF WireInOrder, NothingLost, NoIo
  <2>8. CountsAreTold' /\ FlushReachesWire' /\ DestroyedMeansDelivered'
    BY <1>1, <2>4
    DEF CountsAreTold, FlushReachesWire, DestroyedMeansDelivered, Value
  <2> QED
    BY <2>5, <2>6, <2>7, <2>8 DEF IInv
<1>3. CASE /\ area = "live" /\ Len(put) = Cap
           /\ call' = [op |-> "sputc", rest |-> <<acc + 1>>, ret |-> 0]
           /\ EnterSync /\ put' = put /\ acc' = acc
  <2>1. <<acc + 1>> \in Seq(Nat) /\ Len(<<acc + 1>>) = 1 /\ <<acc + 1>>[1] = acc + 1
    BY <1>1
  <2>2. Follows(<<acc + 1>>, acc)
    BY <1>1, <2>1 DEF Follows
  <2> QED
    BY <1>1, <1>3, <2>1, <2>2, EnterKeeps
<1>4. CASE area = "null" /\ Return(Eof("sputc")) /\ put' = put /\ acc' = acc
  <2>1. call' = Idle /\ io' = NoIo /\ out' = Eof("sputc")
    BY <1>4 DEF Return
  <2> QED
    BY <1>1, <1>4, <2>1, ReturnKeeps DEF Eof
<1> QED
  BY <1>2, <1>3, <1>4 DEF Sputc

\* sputn copies what fits, and begins a flush for the rest.
LEMMA SputnKeeps == IInv /\ Sputn => IInv'
<1> SUFFICES ASSUME IInv, Sputn PROVE IInv'
  OBVIOUS
<1>1. /\ CanCall /\ from' = acc /\ acc \in Nat
      /\ UNCHANGED <<area, stmo, fate, nb, wire, room, broken, dropped>>
      /\ fate = "open" /\ MaxArg \in Nat
  BY DEF Sputn, kernel, IInv, TypeOK, CanCall
<1>2. PICK n \in 1 .. MaxArg :
        \/ /\ area = "live"
           /\ Xsputn(put, [i \in 1 .. n |-> acc + i], 0)
        \/ /\ area = "null"
           /\ Return(Value("sputn", 0))
           /\ UNCHANGED <<put, acc>>
  BY DEF Sputn
<1>3. CASE area = "live" /\ Xsputn(put, [i \in 1 .. n |-> acc + i], 0)
  <2> DEFINE s == [i \in 1 .. n |-> acc + i]
  <2>1. s \in Seq(Nat) /\ Len(s) = n /\ Follows(s, acc)
    BY <1>1 DEF Follows
  <2>2. Xsputn(put, s, 0)
    BY <1>3
  <2> HIDE DEF s
  <2>3. /\ put \in Seq(Nat) /\ Len(put) <= Cap /\ Follows(put, Len(wire))
        /\ acc = Len(wire) + Len(put)
    BY <1>1, <1>3, IdleFacts
  <2>4. from' \in Nat /\ 0 = acc - from'
    BY <1>1
  <2>5. PICK p, t : p = put /\ t = s
    OBVIOUS
  <2>6. Xsputn(p, t, 0)
    BY <2>2, <2>5
  <2> QED
    BY <1>1, <1>3, <2>1, <2>3, <2>4, <2>5, <2>6, XsputnKeeps
<1>4. CASE area = "null" /\ Return(Value("sputn", 0)) /\ UNCHANGED <<put, acc>>
  <2>1. call' = Idle /\ io' = NoIo /\ out' = Value("sputn", 0)
    BY <1>4 DEF Return
  <2> QED
    BY <1>1, <1>4, <2>1, ReturnKeeps DEF Value
<1> QED
  BY <1>2, <1>3, <1>4

\* pubsync with nothing to write returns, and otherwise begins a flush.
LEMMA PubsyncKeeps == IInv /\ Pubsync => IInv'
<1> SUFFICES ASSUME IInv, Pubsync PROVE IInv'
  OBVIOUS
<1>1. /\ CanCall /\ from' = acc
      /\ UNCHANGED <<put, area, stmo, fate, nb, wire, room, broken, acc, dropped>>
  BY DEF Pubsync, kernel
<1>2. CASE put = <<>> /\ Return(Value("pubsync", 0))
  <2>1. call' = Idle /\ io' = NoIo /\ out' = Value("pubsync", 0)
    BY <1>2 DEF Return
  <2> QED
    BY <1>1, <1>2, <2>1, ReturnKeeps DEF Value
<1>3. CASE put # <<>> /\ call' = [Idle EXCEPT !.op = "pubsync"] /\ EnterSync
  <2>1. call' = [op |-> "pubsync", rest |-> <<>>, ret |-> 0]
    BY <1>3 DEF Idle
  <2>2. <<>> \in Seq(Nat) /\ Follows(<<>>, acc)
    BY EmptySeq DEF Follows
  <2>3. area = "live"
    BY <1>1, <1>3, IdleFacts DEF IInv, TypeOK
  <2> QED
    BY <1>1, <1>3, <2>1, <2>2, <2>3, EnterKeeps
<1> QED
  BY <1>2, <1>3 DEF Pubsync

\* ~sockbuf closes with an empty put area.
LEMMA CloseKeeps ==
  ASSUME IInv, fate = "open", CloseSocket, from' \in Nat,
         Follows(wire, 0), acc = Len(wire) + dropped,
         UNCHANGED <<area, stmo, nb, wire, room, broken, acc, dropped>>
  PROVE  IInv'
<1>1. /\ fate' \in {"destroyed", "terminated"}
      /\ call' = Idle /\ io' = NoIo /\ out' = Nothing /\ put' = <<>>
  BY DEF CloseSocket, Return
<1>2. <<>> \in Seq(Nat) /\ Len(<<>>) = 0 /\ Len(wire) \in Nat
  BY EmptySeq, LenProperties DEF IInv, TypeOK
<1>3. TypeOK'
  <2>1. out' \in [op : Ops \cup {"none", "shutdown"},
                 kind : Exceptions \cup {"none", "value", "EOF"}, val : Nat]
    BY <1>1 DEF Nothing
  <2> QED
    BY <1>1, <1>2, <2>1 DEF IInv, TypeOK, Idle, NoIo
<1>4. Control' /\ Pending'
  BY <1>1, <1>2 DEF IInv, Control, Pending, Follows, Idle, NoIo
<1>5. WireInOrder' /\ NothingLost'
  BY <1>1, <1>2 DEF IInv, TypeOK, WireInOrder, NothingLost, Follows, NoIo
<1>6. CountsAreTold' /\ FlushReachesWire'
  BY <1>1 DEF CountsAreTold, FlushReachesWire, Nothing
<1>7. DestroyedMeansDelivered'
  BY <1>1, <1>2 DEF IInv, Control, DestroyedMeansDelivered
<1> QED
  BY <1>3, <1>4, <1>5, <1>6, <1>7 DEF IInv

\* ~sockbuf closes at once, or begins a flush.
LEMMA DestroyKeeps == IInv /\ Destroy => IInv'
<1> SUFFICES ASSUME IInv, Destroy PROVE IInv'
  OBVIOUS
<1>1. /\ CanCall /\ from' = acc /\ acc \in Nat /\ fate = "open" /\ WireInOrder
      /\ UNCHANGED <<area, stmo, nb, wire, room, broken, acc, dropped>>
  BY DEF Destroy, kernel, IInv, TypeOK, CanCall
<1>2. CASE put = <<>> /\ CloseSocket
  <2>1. acc = Len(wire) + dropped
    BY <1>1, <1>2, IdleFacts, EmptySeq DEF IInv, TypeOK
  <2> QED
    BY <1>1, <1>2, <2>1, CloseKeeps DEF WireInOrder
<1>3. CASE /\ put # <<>> /\ call' = [Idle EXCEPT !.op = "dtor"] /\ EnterSync
           /\ put' = put /\ fate' = fate
  <2>1. call' = [op |-> "dtor", rest |-> <<>>, ret |-> 0]
    BY <1>3 DEF Idle
  <2>2. <<>> \in Seq(Nat) /\ Follows(<<>>, acc)
    BY EmptySeq DEF Follows
  <2>3. area = "live"
    BY <1>1, <1>3, IdleFacts DEF IInv, TypeOK
  <2> QED
    BY <1>1, <1>3, <2>1, <2>2, <2>3, EnterKeeps
<1> QED
  BY <1>2, <1>3 DEF Destroy

\* Steps that leave the bytes, the calls and the outcome alone.
LEMMA FrameKeeps ==
  ASSUME IInv, stmo' \in {-1, 0, 1}, nb' \in BOOLEAN, room' \in 0 .. SndBuf,
         broken' \in BOOLEAN,
         UNCHANGED <<put, area, call, io, out, fate, wire, acc, from, dropped>>
  PROVE  IInv'
<1>1. TypeOK'
  BY DEF IInv, TypeOK
<1>2. Control' /\ Pending'
  BY DEF IInv, Control, Pending, Follows
<1>3. WireInOrder' /\ NothingLost'
  BY DEF IInv, WireInOrder, NothingLost, Follows
<1>4. CountsAreTold' /\ FlushReachesWire' /\ DestroyedMeansDelivered'
  BY DEF IInv, CountsAreTold, FlushReachesWire, DestroyedMeansDelivered
<1> QED
  BY <1>1, <1>2, <1>3, <1>4 DEF IInv

\* The settings of a sockbuf move no bytes.
LEMMA SettingsKeep == IInv /\ (Sendtimeout \/ Nonblock) => IInv'
<1>1. ASSUME IInv, Sendtimeout PROVE IInv'
  BY <1>1, FrameKeeps DEF IInv, TypeOK, Sendtimeout, kernel, ghosts
<1>2. ASSUME IInv, Nonblock PROVE IInv'
  BY <1>2, FrameKeeps DEF IInv, TypeOK, Nonblock, sb, ghosts
<1> QED
  BY <1>1, <1>2

\* The peer reads from the queue, or breaks the connection.
LEMMA PeerKeeps == IInv /\ Peer => IInv'
<1>1. ASSUME IInv, Drain PROVE IInv'
  BY <1>1, FrameKeeps DEF IInv, TypeOK, Drain, sb, ghosts
<1>2. ASSUME IInv, Break PROVE IInv'
  BY <1>2, FrameKeeps DEF IInv, TypeOK, Break, sb, ghosts
<1> QED
  BY <1>1, <1>2 DEF Peer

\* shutdown of the writing side drops the put area.
LEMMA ShutdownWriteKeeps == IInv /\ ShutdownWrite => IInv'
<1> SUFFICES ASSUME IInv, ShutdownWrite PROVE IInv'
  OBVIOUS
<1>1. /\ CanCall /\ from' = acc /\ put' = <<>> /\ area' = "null"
      /\ dropped' = dropped + Len(put) /\ fate = "open"
      /\ UNCHANGED <<call, io, stmo, fate, nb, wire, room, broken, acc>>
  BY DEF ShutdownWrite, kernel, CanCall
<1>2. out' \in [op : {"shutdown"}, kind : Exceptions \cup {"value"}, val : Nat]
  BY DEF ShutdownWrite, Value, Throw, Exceptions
<1>3. <<>> \in Seq(Nat) /\ Len(<<>>) = 0 /\ Len(wire) \in Nat /\ Len(put) \in Nat
      /\ acc \in Nat /\ dropped \in Nat
  BY EmptySeq, LenProperties DEF IInv, TypeOK
<1>4. TypeOK'
  <2>1. out' \in [op : Ops \cup {"none", "shutdown"},
                 kind : Exceptions \cup {"none", "value", "EOF"}, val : Nat]
    BY <1>2
  <2> QED
    BY <1>1, <1>3, <2>1 DEF IInv, TypeOK
<1>5. Control' /\ Pending'
  BY <1>1, <1>3, IdleFacts DEF IInv, CanCall, Control, Pending, Follows
<1>6. WireInOrder' /\ NothingLost'
  BY <1>1, <1>3, IdleFacts DEF IInv, WireInOrder, NothingLost, Follows
<1>7. CountsAreTold' /\ FlushReachesWire' /\ DestroyedMeansDelivered'
  BY <1>1, <1>2 DEF CountsAreTold, FlushReachesWire, DestroyedMeansDelivered
<1> QED
  BY <1>4, <1>5, <1>6, <1>7 DEF IInv

\* shutdown of both sides drops the put area.
LEMMA ShutdownReadWriteKeeps == IInv /\ ShutdownReadWrite => IInv'
<1> SUFFICES ASSUME IInv, ShutdownReadWrite PROVE IInv'
  OBVIOUS
<1>1. CASE ShutdownWrite
  BY <1>1, ShutdownWriteKeeps
<1>2. CASE /\ CanCall /\ broken
           /\ out' = Throw("shutdown", "ENOTCONN")
           /\ from' = acc
           /\ UNCHANGED <<put, area, call, io, stmo, fate, kernel, acc, dropped>>
  <2>2. TypeOK'
    BY <1>2 DEF IInv, TypeOK, kernel, Throw, Exceptions
  <2>3. Control' /\ Pending'
    BY <1>2 DEF IInv, CanCall, Control, Pending, Follows, kernel
  <2>4. WireInOrder' /\ NothingLost'
    BY <1>2 DEF IInv, WireInOrder, NothingLost, Follows, kernel
  <2>5. CountsAreTold' /\ FlushReachesWire' /\ DestroyedMeansDelivered'
    BY <1>2
    DEF IInv, CanCall, CountsAreTold, FlushReachesWire, DestroyedMeansDelivered,
        Throw, kernel
  <2> QED
    BY <2>2, <2>3, <2>4, <2>5 DEF IInv
<1> QED
  BY <1>1, <1>2 DEF ShutdownReadWrite

\* select found room: the write loop goes on.
LEMMA SelectReadyKeeps == IInv /\ SelectReady => IInv'
<1> SUFFICES ASSUME IInv, SelectReady PROVE IInv'
  OBVIOUS
<1>1. /\ io.at = "select" /\ io' = [io EXCEPT !.at = "write"]
      /\ UNCHANGED <<put, area, call, out, stmo, fate, nb, wire, room, broken,
                     acc, from, dropped>>
  BY DEF SelectReady, kernel, ghosts
<1>2. io'.at = "write" /\ io'.wlen = io.wlen
      /\ io' \in [at : {"no", "select", "write"}, wlen : Nat]
  BY <1>1 DEF IInv, TypeOK
<1>3. TypeOK'
  BY <1>1, <1>2 DEF IInv, TypeOK
<1>4. Control' /\ Pending'
  BY <1>1, <1>2 DEF IInv, Control, Pending, Follows
<1>5. WireInOrder' /\ NothingLost'
  BY <1>1, <1>2 DEF IInv, WireInOrder, NothingLost, Follows
<1>6. CountsAreTold' /\ FlushReachesWire' /\ DestroyedMeansDelivered'
  BY <1>1 DEF IInv, CountsAreTold, FlushReachesWire, DestroyedMeansDelivered
<1> QED
  BY <1>3, <1>4, <1>5, <1>6 DEF IInv

\* A select or a write fails: sync keeps the bytes not written and throws.
LEMMA FailuresKeep ==
  IInv /\ (SelectTimesOut \/ SelectInterrupted \/ WriteFails \/ WriteInterrupted)
    => IInv'
<1> SUFFICES ASSUME IInv,
                    SelectTimesOut \/ SelectInterrupted \/ WriteFails \/ WriteInterrupted
             PROVE  IInv'
  OBVIOUS
<1>1. /\ io.at # "no"
      /\ UNCHANGED <<area, stmo, nb, wire, room, broken, acc, from>>
  BY DEF SelectTimesOut, SelectInterrupted, WriteFails, WriteInterrupted, Writing, kernel
<1>2. \E e \in Exceptions : SyncThrows(e)
  BY DEF SelectTimesOut, SelectInterrupted, WriteFails, WriteInterrupted, Exceptions
<1> QED
  BY <1>1, <1>2, SyncThrowsStep

\* What n more bytes of the put area do to the wire.
LEMMA WireGrows ==
  ASSUME NEW k \in Seq(Nat), NEW p \in Seq(Nat), NEW w \in Nat, NEW n \in Nat,
         w + n <= Len(p), Follows(k, 0), Follows(p, Len(k) - w)
  PROVE  /\ k \o SubSeq(p, w + 1, w + n) \in Seq(Nat)
         /\ Len(k \o SubSeq(p, w + 1, w + n)) = Len(k) + n
         /\ Follows(k \o SubSeq(p, w + 1, w + n), 0)
<1> DEFINE t == SubSeq(p, w + 1, w + n)
<1>1. Len(k) \in Nat /\ Len(p) \in Nat /\ w + n \in Nat /\ w <= w + n
  BY LenProperties
<1>2. /\ t \in Seq(Nat) /\ Len(t) = (w + n) - w
      /\ \A i \in 1 .. (w + n) - w : t[i] = p[w + i]
  BY <1>1, Slice
<1>3. (w + n) - w = n
  OBVIOUS
<1> HIDE DEF t
<1>4. ASSUME NEW i \in 1 .. n PROVE t[i] = Len(k) + i
  <2>1. w + i \in 1 .. Len(p)
    BY <1>1
  <2>2. p[w + i] = (Len(k) - w) + (w + i)
    BY <2>1 DEF Follows
  <2> QED
    BY SMTT(60), <1>1, <1>2, <1>3, <2>2
<1>5. /\ k \o t \in Seq(Nat) /\ Len(k \o t) = Len(k) + n
      /\ \A i \in 1 .. Len(k) + n :
           (k \o t)[i] = IF i <= Len(k) THEN k[i] ELSE t[i - Len(k)]
  <2>1. t \in Seq(Nat) /\ Len(t) = n
    BY <1>2, <1>3
  <2> QED
    BY <2>1, ConcatProperties
<1>6. ASSUME NEW i \in 1 .. Len(k) + n PROVE (k \o t)[i] = 0 + i
  <2>1. CASE i <= Len(k)
    BY <1>1, <1>5, <2>1 DEF Follows
  <2>2. CASE i > Len(k)
    <3>1. i - Len(k) \in 1 .. n
      BY <1>1, <2>2
    <3> QED
      BY SMTT(60), <1>1, <1>4, <1>5, <2>2, <3>1
  <2>3. i <= Len(k) \/ i > Len(k)
    BY <1>1
  <2> QED
    BY <2>1, <2>2, <2>3
<1>7. Follows(k \o t, 0)
  BY <1>5, <1>6 DEF Follows
<1> QED
  BY <1>5, <1>7 DEF t

\* ::write takes the front of what is offered.
LEMMA WriteSomeKeeps == IInv /\ WriteSome => IInv'
<1> SUFFICES ASSUME IInv, WriteSome PROVE IInv'
  OBVIOUS
<1>1. /\ io.at = "write" /\ io.wlen < Len(put)
      /\ UNCHANGED <<put, area, call, out, stmo, nb, broken, fate, acc, from, dropped>>
  BY DEF WriteSome, Writing, ghosts
<1>2. /\ put \in Seq(Nat) /\ wire \in Seq(Nat)
      /\ io \in [at : {"no", "select", "write"}, wlen : Nat]
  BY DEF IInv, TypeOK
<1>3. Len(put) \in Nat /\ Len(wire) \in Nat /\ io.wlen \in Nat /\ room \in Nat
      /\ room <= SndBuf
  BY <1>2, LenProperties DEF IInv, TypeOK
<1>4. PICK n \in Nat :
        /\ n <= room /\ n <= Len(put) - io.wlen
        /\ wire' = wire \o SubSeq(put, io.wlen + 1, io.wlen + n)
        /\ room' = room - n
        /\ io' = [io EXCEPT !.wlen = io.wlen + n]
  <2>1. PICK m \in 1 .. Minimum(room, Len(put) - io.wlen) :
          /\ wire' = wire \o SubSeq(put, io.wlen + 1, io.wlen + m)
          /\ room' = room - m
          /\ io' = [io EXCEPT !.wlen = io.wlen + m]
    BY DEF WriteSome
  <2>2. m \in Nat /\ m <= room /\ m <= Len(put) - io.wlen
    BY <1>3 DEF Minimum
  <2> QED
    BY <2>1, <2>2
<1>5. n <= room /\ n <= Len(put) - io.wlen /\ room' = room - n
  BY <1>4
<1>6. io'.at = "write" /\ io'.wlen = io.wlen + n
  <2>1. io' = [io EXCEPT !.wlen = io.wlen + n]
    BY <1>4
  <2> QED
    BY <1>1, <1>2, <2>1
<1>7. io' \in [at : {"no", "select", "write"}, wlen : Nat]
  <2>1. io.wlen + n \in Nat
    BY <1>3
  <2> QED
    BY <1>2, <1>4, <2>1
<1>8. /\ wire' \in Seq(Nat) /\ Len(wire') = Len(wire) + n /\ Follows(wire', 0)
  <2>1. io.wlen + n <= Len(put)
    BY <1>3, <1>5
  <2>2. Follows(wire, 0) /\ Follows(put, Len(wire) - io.wlen)
    BY DEF IInv, WireInOrder, NothingLost
  <2>3. wire' = wire \o SubSeq(put, io.wlen + 1, io.wlen + n)
    BY <1>4
  <2>4. PICK k, p, w : k = wire /\ p = put /\ w = io.wlen
    OBVIOUS
  <2>5. /\ k \o SubSeq(p, w + 1, w + n) \in Seq(Nat)
        /\ Len(k \o SubSeq(p, w + 1, w + n)) = Len(k) + n
        /\ Follows(k \o SubSeq(p, w + 1, w + n), 0)
    <3>1. /\ k \in Seq(Nat) /\ p \in Seq(Nat) /\ w \in Nat
          /\ w + n <= Len(p) /\ Follows(k, 0) /\ Follows(p, Len(k) - w)
      BY <1>2, <1>3, <2>1, <2>2, <2>4
    <3> QED
      BY <3>1, WireGrows
  <2> QED
    BY <2>3, <2>4, <2>5
<1>9. TypeOK'
  <2>1. room' \in 0 .. SndBuf
    BY <1>3, <1>5
  <2> QED
    BY <1>1, <1>7, <1>8, <2>1 DEF IInv, TypeOK
<1>10. Control'
  <2>1. io'.wlen <= Len(put')
    BY <1>1, <1>3, <1>5, <1>6
  <2> QED
    BY <1>1, <1>6, <2>1 DEF IInv, Control
<1>11. Pending'
  BY <1>1 DEF IInv, Pending, Follows
<1>12. WireInOrder' /\ NothingLost'
  <2>1. Len(wire') - io'.wlen = Len(wire) - io.wlen
    BY <1>3, <1>6, <1>8
  <2>2. acc = Len(wire) + (Len(put) - io.wlen) + dropped /\ dropped \in Nat
    BY DEF IInv, TypeOK, NothingLost
  <2>3. acc' = Len(wire') + (Len(put') - io'.wlen) + dropped'
    BY <1>1, <1>3, <1>6, <1>8, <2>2
  <2>4. Follows(put', Len(wire') - io'.wlen)
    BY <1>1, <2>1 DEF IInv, NothingLost, Follows
  <2> QED
    BY <1>8, <2>3, <2>4 DEF WireInOrder, NothingLost
<1>13. CountsAreTold' /\ FlushReachesWire' /\ DestroyedMeansDelivered'
  <2>1. out = Nothing /\ fate = "open"
    BY <1>1 DEF IInv, Control
  <2> QED
    BY <1>1, <2>1
    DEF CountsAreTold, FlushReachesWire, DestroyedMeansDelivered, Nothing
<1> QED
  BY <1>9, <1>10, <1>11, <1>12, <1>13 DEF IInv

\* All is written: the area is empty, and the call that flushed goes on.
LEMMA SyncReturnsKeeps == IInv /\ SyncReturns => IInv'
<1> SUFFICES ASSUME IInv, SyncReturns PROVE IInv'
  OBVIOUS
<1>1. /\ io.at = "write" /\ io.wlen = Len(put)
      /\ UNCHANGED <<area, stmo, nb, wire, room, broken, from, dropped>>
  BY DEF SyncReturns, kernel
<1>2. /\ area = "live" /\ fate = "open" /\ dropped = 0
      /\ TypeOK /\ Follows(wire, 0)
      /\ acc \in Nat /\ from \in Nat
  BY <1>1 DEF IInv, TypeOK, Control, WireInOrder
<1>3. Len(wire) \in Nat /\ Len(put) \in Nat
  BY <1>2, LenProperties DEF TypeOK
<1>4. acc = Len(wire)
  <2>1. acc = Len(wire) + (Len(put) - io.wlen) + dropped
    BY DEF IInv, NothingLost
  <2> QED
    BY <1>1, <1>2, <1>3, <2>1
<1>5. <<>> \in Seq(Nat) /\ Len(<<>>) = 0 /\ Follows(<<>>, Len(wire))
      /\ Follows(<<>>, acc)
  BY EmptySeq DEF Follows
<1>6. /\ call.rest \in Seq(Nat) /\ call.ret \in Nat /\ Follows(call.rest, acc)
  BY DEF IInv, TypeOK, Pending
<1>7. CASE /\ call.op = "pubsync" /\ put' = <<>> /\ Return(Value("pubsync", 0))
           /\ acc' = acc /\ fate' = fate
  <2>1. call' = Idle /\ io' = NoIo /\ out' = Value("pubsync", 0)
    BY <1>7 DEF Return
  <2>2. TypeOK'
    BY <1>1, <1>2, <1>5, <1>7, <2>1 DEF TypeOK, Idle, NoIo, Value, Ops
  <2>3. Control' /\ Pending'
    BY <1>1, <1>2, <1>5, <1>7, <2>1 DEF Control, Pending, Idle, NoIo
  <2>4. WireInOrder' /\ NothingLost'
    BY <1>1, <1>2, <1>3, <1>4, <1>5, <1>7, <2>1
    DEF WireInOrder, NothingLost, NoIo, Follows
  <2>5. CountsAreTold' /\ FlushReachesWire' /\ DestroyedMeansDelivered'
    BY <1>1, <1>2, <1>3, <1>4, <1>7, <2>1
    DEF CountsAreTold, FlushReachesWire, DestroyedMeansDelivered, Value
  <2> QED
    BY <2>2, <2>3, <2>4, <2>5 DEF IInv
<1>8. CASE /\ call.op = "sputc" /\ Copy(<<>>, call.rest, 1)
           /\ Return(Value("sputc", 1)) /\ fate' = fate
  <2>1. call' = Idle /\ io' = NoIo /\ out' = Value("sputc", 1)
    BY <1>8 DEF Return
  <2>2. /\ put' = <<>> \o SubSeq(call.rest, 1, 1) /\ acc' = acc + 1
        /\ acc = from /\ Len(call.rest) = 1
    BY <1>8 DEF IInv, Pending, Copy
  <2>3. put' \in Seq(Nat) /\ Len(put') = 0 + 1 /\ Follows(put', Len(wire))
    <3>1. 1 \in 0 .. Len(call.rest) /\ Follows(call.rest, Len(wire) + Len(<<>>))
      BY <1>3, <1>4, <1>5, <1>6, <2>2
    <3>2. PICK e, t, b : e = <<>> /\ t = call.rest /\ b = Len(wire)
      OBVIOUS
    <3>3. /\ e \in Seq(Nat) /\ t \in Seq(Nat) /\ b \in Int /\ Len(e) = 0
          /\ Follows(e, b) /\ Follows(t, b + Len(e)) /\ 1 \in 0 .. Len(t)
      BY <1>3, <1>5, <1>6, <3>1, <3>2
    <3>4. /\ e \o SubSeq(t, 1, 1) \in Seq(Nat)
          /\ Len(e \o SubSeq(t, 1, 1)) = Len(e) + 1
          /\ Follows(e \o SubSeq(t, 1, 1), b)
      BY <3>3, FollowsConcat
    <3> QED
      BY <2>2, <3>2, <3>3, <3>4
  <2>4. TypeOK'
    BY <1>1, <1>2, <1>5, <1>8, <2>1, <2>2, <2>3 DEF TypeOK, Idle, NoIo, Value, Ops
  <2>5. Control' /\ Pending'
    BY <1>1, <1>2, <1>5, <1>8, <2>1, <2>3 DEF Control, Pending, Idle, NoIo, Follows
  <2>6. WireInOrder' /\ NothingLost'
    BY <1>1, <1>2, <1>3, <1>4, <1>8, <2>1, <2>2, <2>3
    DEF WireInOrder, NothingLost, NoIo, Follows
  <2>7. CountsAreTold' /\ FlushReachesWire' /\ DestroyedMeansDelivered'
    BY <1>1, <1>2, <1>8, <2>1, <2>2
    DEF CountsAreTold, FlushReachesWire, DestroyedMeansDelivered, Value
  <2> QED
    BY <2>4, <2>5, <2>6, <2>7 DEF IInv
<1>9. CASE /\ call.op = "sputn" /\ Xsputn(<<>>, call.rest, call.ret) /\ fate' = fate
  <2>1. PICK p, t, r : p = <<>> /\ t = call.rest /\ r = call.ret
    OBVIOUS
  <2>2. Xsputn(p, t, r)
    BY <1>9, <2>1
  <2>3. r = acc - from' /\ from' \in Nat
    BY <1>1, <1>2, <1>9, <2>1 DEF IInv, Pending
  <2>4. acc = Len(wire) + Len(p) /\ Len(p) <= Cap
    BY <1>3, <1>4, <1>5, <2>1
  <2> QED
    BY <1>1, <1>2, <1>5, <1>6, <1>9, <2>1, <2>2, <2>3, <2>4, XsputnKeeps
<1>10. CASE call.op = "dtor" /\ CloseSocket /\ acc' = acc
  <2>1. acc = Len(wire) + dropped /\ from' \in Nat
    BY <1>1, <1>2, <1>3, <1>4
  <2> QED
    BY <1>1, <1>2, <1>10, <2>1, CloseKeeps
<1> QED
  BY <1>7, <1>8, <1>9, <1>10 DEF SyncReturns

\* Every step of the calls on a sockbuf, of the system calls they make and
\* of the peer keeps the invariant.
THEOREM IInvInductive == IInv /\ [Next]_vars => IInv'
<1>1. IInv /\ Calls => IInv'
  BY SputcKeeps, SputnKeeps, PubsyncKeeps, DestroyKeeps, SettingsKeep,
     ShutdownWriteKeeps, ShutdownReadWriteKeeps DEF Calls
<1>2. IInv /\ Proceed => IInv'
  BY SelectReadyKeeps, FailuresKeep, WriteSomeKeeps, SyncReturnsKeeps DEF Proceed
<1>3. IInv /\ Signal => IInv'
  BY FailuresKeep DEF Signal
<1>4. IInv /\ Peer => IInv'
  BY PeerKeeps
<1>5. ASSUME IInv, UNCHANGED vars PROVE IInv'
  BY <1>5, FrameKeeps DEF IInv, TypeOK, vars
<1> QED
  BY <1>1, <1>2, <1>3, <1>4, <1>5 DEF Next

------------------------------------------------------------------------------
(* The theorems.                                                           *)

\* The inductive invariant holds in every behaviour, fair or not.
THEOREM IInvAlways == Spec => []IInv
  BY InitIInv, IInvInductive, PTL DEF Spec

\* Every variable keeps its type, and pptr () never passes epptr ().
THEOREM TypeCorrect == Spec => []TypeOK
<1>1. IInv => TypeOK
  BY DEF IInv
<1> QED
  BY <1>1, IInvAlways, PTL

\* The kernel is given the accepted bytes in order, none twice, none skipped.
THEOREM InOrder == Spec => []WireInOrder
<1>1. IInv => WireInOrder
  BY DEF IInv
<1> QED
  BY <1>1, IInvAlways, PTL

\* Every accepted byte is on the wire, in its place in the put area, or was
\* discarded.
THEOREM Conservation == Spec => []NothingLost
<1>1. IInv => NothingLost
  BY DEF IInv
<1> QED
  BY <1>1, IInvAlways, PTL

\* The outcomes of sputc and sputn tell how many bytes were taken.
THEOREM Counts == Spec => []CountsAreTold
<1>1. IInv => CountsAreTold
  BY DEF IInv
<1> QED
  BY <1>1, IInvAlways, PTL

\* After pubsync has returned, and after the destructor has, nothing that was
\* not discarded is left behind.
THEOREM FlushComplete == Spec => [](FlushReachesWire /\ DestroyedMeansDelivered)
<1>1. IInv => FlushReachesWire /\ DestroyedMeansDelivered
  BY DEF IInv
<1> QED
  BY <1>1, IInvAlways, PTL

------------------------------------------------------------------------------
(* The put area implements the abstract output stream.                     *)

\* What the refinement mapping gives for the queue and the mode.
Queue == SubSeq(put, io.wlen + 1, Len(put))
Mode == IF fate = "destroyed" THEN "closed" ELSE fate

\* The unwritten part of the put area is a sequence of bytes; with nothing
\* written it is the whole put area.
LEMMA QueueFacts ==
  ASSUME IInv
  PROVE  /\ Queue \in Seq(Nat) /\ Len(Queue) = Len(put) - io.wlen
         /\ io.wlen = 0 => Queue = put
         /\ io.wlen = Len(put) => Queue = <<>>
<1>1. put \in Seq(Nat) /\ io.wlen \in 0 .. Len(put)
  BY LenProperties DEF IInv, TypeOK, Control
<1> QED
  BY <1>1, Rest DEF Queue

\* The same in the next state.
LEMMA NextQueueFacts ==
  ASSUME IInv'
  PROVE  /\ Queue' \in Seq(Nat)
         /\ io'.wlen = 0 => Queue' = put'
<1>1. put' \in Seq(Nat) /\ io'.wlen \in 0 .. Len(put')
  BY LenProperties DEF IInv, TypeOK, Control
<1> QED
  BY <1>1, Rest DEF Queue

\* A sequence is a prefix of what it becomes when more is appended.
LEMMA PrefixOfConcat ==
  ASSUME NEW s \in Seq(Nat), NEW t \in Seq(Nat)
  PROVE  Stream!IsPrefix(s, s \o t)
<1>1. /\ s \o t \in Seq(Nat) /\ Len(s \o t) = Len(s) + Len(t)
      /\ \A i \in 1 .. Len(s) + Len(t) :
           (s \o t)[i] = IF i <= Len(s) THEN s[i] ELSE t[i - Len(s)]
  BY ConcatProperties
<1>2. Len(s) \in Nat /\ Len(t) \in Nat
  BY LenProperties
<1>3. /\ SubSeq(s, 1, Len(s)) \in Seq(Nat) /\ Len(SubSeq(s, 1, Len(s))) = Len(s)
      /\ \A i \in 1 .. Len(s) : SubSeq(s, 1, Len(s))[i] = s[i]
  BY <1>2, Prefix
<1>4. /\ SubSeq(s \o t, 1, Len(s)) \in Seq(Nat)
      /\ Len(SubSeq(s \o t, 1, Len(s))) = Len(s)
      /\ \A i \in 1 .. Len(s) : SubSeq(s \o t, 1, Len(s))[i] = (s \o t)[i]
  <2>1. PICK u, n : u = s \o t /\ n = Len(s)
    OBVIOUS
  <2>2. u \in Seq(Nat) /\ n \in 0 .. Len(u)
    BY <1>1, <1>2, <2>1
  <2>3. /\ SubSeq(u, 1, n) \in Seq(Nat) /\ Len(SubSeq(u, 1, n)) = n
        /\ \A i \in 1 .. n : SubSeq(u, 1, n)[i] = u[i]
    BY <2>2, Prefix
  <2> QED
    BY <2>1, <2>3
<1>5. SubSeq(s, 1, Len(s)) = SubSeq(s \o t, 1, Len(s))
  <2>1. PICK u, v : u = SubSeq(s, 1, Len(s)) /\ v = SubSeq(s \o t, 1, Len(s))
    OBVIOUS
  <2>2. /\ u \in Seq(Nat) /\ v \in Seq(Nat) /\ Len(u) = Len(v)
        /\ \A i \in 1 .. Len(u) : u[i] = v[i]
    BY <1>1, <1>2, <1>3, <1>4, <2>1
  <2>3. u = v
    BY <2>2, SeqEqual
  <2> QED
    BY <2>1, <2>3
<1> QED
  BY <1>1, <1>2, <1>5 DEF Stream!IsPrefix

\* The steps of the abstract stream in the terms of the put area.
LEMMA StutterStep ==
  ASSUME UNCHANGED <<wire, fate>>, Queue' = Queue
  PROVE  UNCHANGED Stream!vars
BY DEF Queue, Stream!vars

\* Bytes put behind those queued are accepted by the stream.
LEMMA AcceptStep ==
  ASSUME fate = "open", UNCHANGED <<wire, fate>>, Queue' \in Seq(Nat),
         NEW t \in Seq(Nat), Queue \in Seq(Nat), Queue' = Queue \o t
  PROVE  Stream!Next
<1>1. Stream!IsPrefix(Queue, Queue')
  BY PrefixOfConcat
<1> QED
  BY <1>1 DEF Queue, Stream!Next, Stream!Accept

\* The stream ends, or is shut down: what was queued goes together.
LEMMA EndStep ==
  ASSUME fate = "open", wire' = wire, Queue' = <<>>,
         \/ fate' = "terminated"
         \/ fate' = "destroyed" /\ Queue = <<>>
         \/ fate' = "open"
  PROVE  Stream!Next
BY DEF Queue, Stream!Next, Stream!Terminate, Stream!Close, Stream!Discard

\* What ::write takes leaves the front of the queue.
LEMMA DeliverStep ==
  ASSUME IInv, WriteSome
  PROVE  Stream!Next
<1>1. /\ fate = "open" /\ UNCHANGED <<put, fate>>
      /\ io \in [at : {"no", "select", "write"}, wlen : Nat]
      /\ put \in Seq(Nat) /\ Len(put) \in Nat
      /\ room \in Nat /\ io.wlen < Len(put)
  BY LenProperties
  DEF WriteSome, Writing, ghosts, IInv, TypeOK, Control
<1>2. PICK n \in 1 .. Minimum(room, Len(put) - io.wlen) :
        /\ wire' = wire \o SubSeq(put, io.wlen + 1, io.wlen + n)
        /\ io' = [io EXCEPT !.wlen = io.wlen + n]
  BY DEF WriteSome
<1>3. PICK p, w, l : p = put /\ w = io.wlen /\ l = Len(put)
  OBVIOUS
<1>4. /\ p \in Seq(Nat) /\ l = Len(p) /\ w \in Nat /\ l \in Nat
      /\ n \in Nat /\ n >= 1 /\ w + n <= l
  <2>1. w \in Nat /\ l \in Nat /\ w < l
    BY <1>1, <1>3
  <2>2. n \in 1 .. Minimum(room, l - w)
    BY <1>2, <1>3
  <2>3. n \in Nat /\ n >= 1 /\ n <= l - w
    BY <1>1, <2>1, <2>2 DEF Minimum
  <2> QED
    BY <1>1, <1>3, <2>1, <2>3
<1>5. /\ SubSeq(SubSeq(p, w + 1, l), 1, n) = SubSeq(p, w + 1, w + n)
      /\ SubSeq(SubSeq(p, w + 1, l), n + 1, l - w) = SubSeq(p, w + n + 1, l)
  BY <1>4, SliceOfSlice
<1>6. Len(SubSeq(p, w + 1, l)) = l - w
  BY <1>4, Slice
<1>7. io'.wlen = w + n
  BY <1>1, <1>2, <1>3
<1>8. Queue = SubSeq(p, w + 1, l) /\ Queue' = SubSeq(p, w + n + 1, l)
  BY <1>1, <1>3, <1>7 DEF Queue
<1>9. /\ wire' = wire \o SubSeq(Queue, 1, n)
      /\ Queue' = SubSeq(Queue, n + 1, Len(Queue))
  BY <1>2, <1>3, <1>5, <1>6, <1>8
<1>10. n \in 1 .. Len(Queue)
  BY <1>4, <1>6, <1>8
<1>11. /\ Mode = "open" /\ Mode' = Mode
  BY <1>1 DEF Mode
<1> QED
  BY <1>9, <1>10, <1>11 DEF Queue, Mode, Stream!Next, Stream!Deliver

\* A round of xsputn on an area p that the kernel has nothing of, which the
\* queue is, queues the bytes it copies.
LEMMA XsputnAccepts ==
  ASSUME IInv', fate = "open", UNCHANGED <<wire, fate>>,
         NEW p \in Seq(Nat), Len(p) <= Cap, Queue = p,
         NEW s \in Seq(Nat), NEW ret, Xsputn(p, s, ret)
  PROVE  Stream!Next
<1> DEFINE wval == Cap - Len(p)
<1>1. Len(p) \in Nat /\ Len(s) \in Nat /\ wval \in Nat
  BY LenProperties
<1>2. PICK n \in 0 .. Len(s) : put' = p \o SubSeq(s, 1, n)
  <2>1. \/ Len(s) <= wval /\ Copy(p, s, Len(s))
        \/ Len(s) > wval /\ Copy(p, s, wval)
    BY DEF Xsputn
  <2>2. Len(s) \in 0 .. Len(s) /\ (Len(s) > wval => wval \in 0 .. Len(s))
    BY <1>1
  <2> HIDE DEF wval
  <2> QED
    BY <2>1, <2>2 DEF Copy
<1>3. SubSeq(s, 1, n) \in Seq(Nat)
  BY Prefix
<1>4. io'.wlen = 0
  BY DEF Xsputn, EnterSync, Return, NoIo
<1> QED
  BY <1>2, <1>3, <1>4, NextQueueFacts, AcceptStep

\* A flush that throws leaves the unwritten bytes queued, or ends the process.
LEMMA SyncThrowsSimulates ==
  ASSUME IInv, IInv', io.at # "no", NEW e, SyncThrows(e), wire' = wire
  PROVE  [Stream!Next]_Stream!vars
<1>1. fate = "open"
  BY DEF IInv, Control
<1>2. CASE call.op = "dtor"
  <2>1. fate' = "terminated" /\ put' = <<>> /\ io'.wlen = 0
    BY <1>2 DEF SyncThrows, Return, NoIo
  <2>2. Queue' = <<>>
    BY <2>1, NextQueueFacts
  <2> QED
    BY <1>1, <2>1, <2>2, EndStep
<1>3. CASE call.op # "dtor"
  <2>1. fate' = fate /\ put' = Queue /\ io'.wlen = 0
    BY <1>3 DEF SyncThrows, Return, NoIo, Queue
  <2>2. Queue' = Queue
    BY <2>1, NextQueueFacts
  <2> QED
    BY <2>1, <2>2, StutterStep
<1> QED
  BY <1>2, <1>3

\* ~sockbuf with nothing left to write ends the stream.
LEMMA CloseSimulates ==
  ASSUME IInv, IInv', fate = "open", Queue = <<>>, CloseSocket, wire' = wire
  PROVE  Stream!Next
<1>1. /\ fate' \in {"destroyed", "terminated"}
      /\ put' = <<>> /\ io'.wlen = 0
  BY DEF CloseSocket, Return, NoIo
<1>2. Queue' = <<>>
  BY <1>1, NextQueueFacts
<1> QED
  BY <1>1, <1>2, EndStep

\* sputc accepts one byte, or leaves the queue as it is.
LEMMA SputcSimulates ==
  ASSUME IInv, IInv', Sputc PROVE [Stream!Next]_Stream!vars
<1>1. /\ fate = "open" /\ UNCHANGED <<wire, fate>> /\ acc \in Nat
      /\ io.wlen = 0 /\ Queue = put /\ Queue \in Seq(Nat)
  BY IdleFacts, QueueFacts DEF Sputc, CanCall, kernel, IInv, TypeOK
<1>2. io'.wlen = 0
  BY DEF Sputc, Return, EnterSync, NoIo
<1>3. CASE Copy(put, <<acc + 1>>, 1)
  <2>1. <<acc + 1>> \in Seq(Nat) /\ Len(<<acc + 1>>) = 1
    BY <1>1
  <2>2. SubSeq(<<acc + 1>>, 1, 1) \in Seq(Nat)
    <3>1. PICK t : t = <<acc + 1>>
      OBVIOUS
    <3>2. t \in Seq(Nat) /\ 1 \in 0 .. Len(t)
      BY <2>1, <3>1
    <3>3. SubSeq(t, 1, 1) \in Seq(Nat)
      BY <3>2, Prefix
    <3> QED
      BY <3>1, <3>3
  <2>3. Queue' = Queue \o SubSeq(<<acc + 1>>, 1, 1) /\ Queue' \in Seq(Nat)
    BY <1>1, <1>2, <1>3, NextQueueFacts DEF Copy
  <2> QED
    BY <1>1, <2>2, <2>3, AcceptStep
<1>4. CASE put' = put
  <2>1. Queue' = Queue
    BY <1>1, <1>2, <1>4, NextQueueFacts
  <2> QED
    BY <1>1, <2>1, StutterStep
<1> QED
  BY <1>3, <1>4 DEF Sputc

\* sputn accepts the bytes it copies.
LEMMA SputnSimulates ==
  ASSUME IInv, IInv', Sputn PROVE [Stream!Next]_Stream!vars
<1>1. /\ fate = "open" /\ UNCHANGED <<wire, fate>> /\ acc \in Nat /\ MaxArg \in Nat
      /\ io.wlen = 0 /\ Queue = put /\ put \in Seq(Nat) /\ Len(put) <= Cap
  BY IdleFacts, QueueFacts DEF Sputn, CanCall, kernel, IInv, TypeOK
<1>2. PICK n \in 1 .. MaxArg :
        \/ Xsputn(put, [i \in 1 .. n |-> acc + i], 0)
        \/ Return(Value("sputn", 0)) /\ put' = put
  BY DEF Sputn
<1>3. CASE Xsputn(put, [i \in 1 .. n |-> acc + i], 0)
  <2>1. PICK s, p : s = [i \in 1 .. n |-> acc + i] /\ p = put
    OBVIOUS
  <2>2. s \in Seq(Nat)
    BY <1>1, <2>1
  <2>3. Xsputn(p, s, 0) /\ p \in Seq(Nat) /\ Len(p) <= Cap /\ Queue = p
    BY <1>1, <1>3, <2>1
  <2> QED
    BY <1>1, <2>2, <2>3, XsputnAccepts
<1>4. CASE Return(Value("sputn", 0)) /\ put' = put
  <2>1. io'.wlen = 0
    BY <1>4 DEF Return, NoIo
  <2>2. Queue' = Queue
    BY <1>1, <1>4, <2>1, NextQueueFacts
  <2> QED
    BY <1>1, <2>2, StutterStep
<1> QED
  BY <1>2, <1>3, <1>4

\* pubsync, the destructor, the settings and shutdown accept nothing.
LEMMA OtherCallsSimulate ==
  ASSUME IInv, IInv',
         Pubsync \/ Destroy \/ Sendtimeout \/ Nonblock \/ ShutdownWrite
           \/ ShutdownReadWrite
  PROVE  [Stream!Next]_Stream!vars
<1>1. /\ fate = "open" /\ wire' = wire
      /\ io.wlen = 0 /\ Queue = put
      /\ CanCall
  BY IdleFacts, QueueFacts
  DEF Pubsync, Destroy, Sendtimeout, Nonblock, ShutdownWrite, ShutdownReadWrite,
      CanCall, kernel
<1>2. io'.wlen = 0
  BY <1>1
  DEF Pubsync, Destroy, Sendtimeout, Nonblock, ShutdownWrite, ShutdownReadWrite,
      CloseSocket, Return, EnterSync, NoIo, sb
<1>3. CASE put' = put /\ fate' = fate
  <2>1. Queue' = Queue
    BY <1>1, <1>2, <1>3, NextQueueFacts
  <2> QED
    BY <1>1, <1>3, <2>1, StutterStep
<1>4. CASE ShutdownWrite
  <2>1. put' = <<>> /\ fate' = fate
    BY <1>4 DEF ShutdownWrite
  <2>2. Queue' = <<>>
    BY <1>2, <2>1, NextQueueFacts
  <2> QED
    BY <1>1, <2>1, <2>2, EndStep
<1>5. CASE put = <<>> /\ CloseSocket
  BY <1>1, <1>5, CloseSimulates
<1> QED
  BY <1>3, <1>4, <1>5
  DEF Pubsync, Destroy, Sendtimeout, Nonblock, ShutdownReadWrite, sb

\* When a flush is done, the call that goes on may accept further bytes.
LEMMA SyncReturnsSimulates ==
  ASSUME IInv, IInv', SyncReturns PROVE [Stream!Next]_Stream!vars
<1>1. /\ fate = "open" /\ wire' = wire /\ Queue = <<>>
      /\ call.rest \in Seq(Nat)
      /\ call.op = "sputc" => Len(call.rest) = 1
      /\ <<>> \in Seq(Nat) /\ Len(<<>>) = 0 /\ Len(<<>>) <= Cap
  BY QueueFacts, EmptySeq DEF SyncReturns, kernel, IInv, TypeOK, Control, Pending
<1>2. CASE put' = <<>> /\ Return(Value("pubsync", 0)) /\ fate' = fate
  <2>1. Queue' = <<>>
    BY <1>2, NextQueueFacts DEF Return, NoIo
  <2> QED
    BY <1>1, <1>2, <2>1, StutterStep
<1>3. CASE /\ call.op = "sputc" /\ Copy(<<>>, call.rest, 1)
           /\ Return(Value("sputc", 1)) /\ fate' = fate
  <2>1. put' = <<>> \o SubSeq(call.rest, 1, 1) /\ io'.wlen = 0
    BY <1>3 DEF Copy, Return, NoIo
  <2>2. SubSeq(call.rest, 1, 1) \in Seq(Nat)
    <3>1. PICK t : t = call.rest
      OBVIOUS
    <3>2. t \in Seq(Nat) /\ Len(t) = 1 /\ 1 \in 0 .. 1
      BY <1>1, <1>3, <3>1
    <3>3. SubSeq(t, 1, 1) \in Seq(Nat)
      BY <3>2, Prefix
    <3> QED
      BY <3>1, <3>3
  <2>3. Queue' = Queue \o SubSeq(call.rest, 1, 1) /\ Queue' \in Seq(Nat)
    BY <1>1, <2>1, NextQueueFacts
  <2> QED
    BY <1>1, <1>3, <2>2, <2>3, AcceptStep
<1>4. CASE Xsputn(<<>>, call.rest, call.ret) /\ fate' = fate
  <2>1. PICK p, s, r : p = <<>> /\ s = call.rest /\ r = call.ret
    OBVIOUS
  <2>2. /\ Xsputn(p, s, r) /\ p \in Seq(Nat) /\ s \in Seq(Nat) /\ Len(p) <= Cap
        /\ Queue = p
    BY <1>1, <1>4, <2>1
  <2> QED
    BY <1>1, <1>4, <2>2, XsputnAccepts
<1>5. CASE CloseSocket
  BY <1>1, <1>5, CloseSimulates
<1> QED
  BY <1>2, <1>3, <1>4, <1>5 DEF SyncReturns

\* Every step of the sockbuf is a step of the abstract stream, or none.
THEOREM StepSimulation ==
  IInv /\ IInv' /\ [Next]_vars => [Stream!Next]_Stream!vars
<1> SUFFICES ASSUME IInv, IInv', [Next]_vars PROVE [Stream!Next]_Stream!vars
  OBVIOUS
<1>1. CASE Calls
  BY <1>1, SputcSimulates, SputnSimulates, OtherCallsSimulate DEF Calls
<1>2. CASE SelectTimesOut \/ SelectInterrupted \/ WriteFails \/ WriteInterrupted
  <2>1. io.at # "no" /\ wire' = wire
    BY <1>2 DEF SelectTimesOut, SelectInterrupted, WriteFails, WriteInterrupted,
                Writing, kernel
  <2>2. \E e : SyncThrows(e)
    BY <1>2 DEF SelectTimesOut, SelectInterrupted, WriteFails, WriteInterrupted
  <2> QED
    BY <2>1, <2>2, SyncThrowsSimulates
<1>3. CASE SelectReady \/ Peer \/ UNCHANGED vars
  <2>1. UNCHANGED <<wire, fate, put>> /\ io'.wlen = io.wlen
    BY <1>3
    DEF SelectReady, Peer, Drain, Break, vars, sb, kernel, ghosts, IInv, TypeOK
  <2>2. Queue' = Queue
    BY <2>1 DEF Queue
  <2> QED
    BY <2>1, <2>2, StutterStep
<1>4. CASE WriteSome
  BY <1>4, DeliverStep
<1>5. CASE SyncReturns
  BY <1>5, SyncReturnsSimulates
<1> QED
  BY <1>1, <1>2, <1>3, <1>4, <1>5 DEF Next, Proceed, Signal

\* The put area, with its flushes, partial writes, exceptions and destructor,
\* implements the abstract stream: nothing is sent twice, skipped or
\* overtaken, and nothing accepted leaves other than delivered or discarded
\* with all that was queued.
THEOREM Refinement == Spec => ImplementsStream
<1>1. Init => Stream!Init
  <2> SUFFICES ASSUME Init PROVE Stream!Init
    OBVIOUS
  <2>1. Queue = <<>>
    <3>1. io.wlen = 0 /\ put = <<>>
      BY DEF Init, NoIo
    <3> QED
      BY <3>1, InitIInv, QueueFacts
  <2> QED
    BY <2>1 DEF Init, Queue, Stream!Init
<1> QED
  BY <1>1, InitIInv, IInvInductive, StepSimulation, PTL
  DEF Spec, ImplementsStream, Stream!Spec

------------------------------------------------------------------------------
(* The classes of errors.                                                  *)

\* What a step other than a failing flush leaves as the outcome is no
\* exception of a put call.
LEMMA OnlyFlushesThrow ==
  ASSUME IInv, Next, out'.kind \in Exceptions, out' # out, out'.op # "shutdown"
  PROVE  \/ SelectTimesOut \/ SelectInterrupted \/ WriteFails \/ WriteInterrupted
<1> DEFINE Quiet == \/ out' = out
                    \/ out'.kind \in {"value", "EOF", "none"}
                    \/ out'.op = "shutdown"
<1>1. ~Quiet
  BY DEF Exceptions
<1>2. ASSUME NEW p, NEW s, NEW ret, Xsputn(p, s, ret) PROVE Quiet
  BY <1>2 DEF Xsputn, Return, EnterSync, Value, Nothing
<1>3. Sputc \/ Sputn \/ Pubsync \/ Destroy => Quiet
  <2>1. Sputc => Quiet
    BY DEF Sputc, Return, EnterSync, Value, Eof, Nothing
  <2>2. Sputn => Quiet
    BY <1>2 DEF Sputn, Return, Value
  <2>3. Pubsync \/ Destroy => Quiet
    BY DEF Pubsync, Destroy, CloseSocket, Return, EnterSync, Value, Nothing
  <2> QED
    BY <2>1, <2>2, <2>3
<1>4. Sendtimeout \/ Nonblock \/ SelectReady \/ WriteSome \/ Drain \/ Break => Quiet
  BY DEF Sendtimeout, Nonblock, SelectReady, WriteSome, Drain, Break, sb
<1>5. ShutdownWrite \/ ShutdownReadWrite => Quiet
  BY DEF ShutdownWrite, ShutdownReadWrite, Value, Throw
<1>6. SyncReturns => Quiet
  BY <1>2 DEF SyncReturns, CloseSocket, Return, Value, Nothing
<1> HIDE DEF Quiet
<1> QED
  BY <1>1, <1>3, <1>4, <1>5, <1>6 DEF Next, Calls, Proceed, Signal, Peer

\* The classes of the errors a flush can throw.
LEMMA ClassOf ==
  /\ conn("ETIMEDOUT") /\ conn("EPIPE") /\ benign("EAGAIN")
  /\ ~conn("EINTR") /\ ~conn("EAGAIN")
  /\ ~benign("ETIMEDOUT") /\ ~benign("EPIPE") /\ ~benign("EINTR")
BY DEF conn, benign, default_error_condition, sockerr_benign, sockerr_addr,
       sockerr_conn, sockerr_op, sockerr_arg, sockerr_io

\* An err thrown by a put call tells by its class whether the connection is
\* gone or timed out (conn), or the socket refused and nothing was lost
\* (benign); whatever it is, the unwritten bytes are kept.
THEOREM Classification == Spec => ErrorsAreClassed
<1> DEFINE Classed ==
      out'.kind \in Exceptions /\ out' # out /\ out'.op # "shutdown" =>
        /\ conn(out'.kind) <=> broken \/ (io.at = "select" /\ out'.kind # "EINTR")
        /\ benign(out'.kind) <=> Writing /\ nb /\ ~broken
        /\ put' = SubSeq(put, io.wlen + 1, Len(put))
<1>1. IInv /\ [Next]_vars => [Classed]_vars
  <2> SUFFICES ASSUME IInv, Next, out'.kind \in Exceptions, out' # out,
                      out'.op # "shutdown"
               PROVE  /\ conn(out'.kind) <=> broken \/ (io.at = "select" /\ out'.kind # "EINTR")
                      /\ benign(out'.kind) <=> Writing /\ nb /\ ~broken
                      /\ put' = SubSeq(put, io.wlen + 1, Len(put))
    OBVIOUS
  <2>1. ASSUME NEW e, SyncThrows(e)
        PROVE  out'.kind = e /\ put' = SubSeq(put, io.wlen + 1, Len(put))
    BY <2>1 DEF SyncThrows, Return, Nothing, Throw, Exceptions
  <2>2. CASE SelectTimesOut
    BY <2>1, <2>2, ClassOf DEF SelectTimesOut, Writing
  <2>3. CASE SelectInterrupted
    BY <2>1, <2>3, ClassOf DEF SelectInterrupted, Writing
  <2>4. CASE WriteFails
    BY <2>1, <2>4, ClassOf DEF WriteFails, Writing
  <2>5. CASE WriteInterrupted
    BY <2>1, <2>5, ClassOf DEF WriteInterrupted, Writing
  <2> QED
    BY <2>2, <2>3, <2>4, <2>5, OnlyFlushesThrow
<1> QED
  BY <1>1, IInvAlways, PTL DEF Spec, ErrorsAreClassed
=============================================================================

------------------------------ MODULE FtpProofs ------------------------------
(***************************************************************************)
(* Proofs about ftp::ftpbuf, for any ports, any number of commands and any *)
(* cuts of the stream of replies.                                          *)
(*                                                                         *)
(* The properties of Ftp are not inductive alone.  That a reply read is    *)
(* the last word on the latest command (InStep) needs to know that only    *)
(* one command is ever with the server, that what is on its way are whole  *)
(* lines of replies to it, at which line of its reply get_response is, and *)
(* which replies the place of the call allows: Phases.  That the server    *)
(* knows our port (DataReachesUs) needs the PORT on its way to carry the   *)
(* port of sb, and sb to stay as it is until the transfer is over.  All    *)
(* this holds while the client is tidy and nobody has closed or ended; the *)
(* types, Base, always do.                                                 *)
(***************************************************************************)
EXTENDS Ftp, BytesProofs

------------------------------------------------------------------------------
(* What there is: the parts of a state.                                    *)

Parts == {"prelim", "inter", "final"}
Kinds == {"only", "first", "mid", "last"}
Verbs == {"other", "QUIT", "PORT", "RNFR", "RNTO", "RETR", "LIST", "STOR"}

\* The lines of replies: a reply that another one will follow is no error.
Lines == {l \in [id : Nat, part : Parts, code : 0 .. 9, kind : Kinds] :
            l.part # "final" => l.code < rca_error}
CharSet == {c \in [line : Lines, at : 1 .. 6] : c.at <= Length(c.line)}
Cmds == [id : Nat, verb : Verbs, port : 0 .. Width - 1]
Sockets == [st : {"none", "open", "bound", "listening"}, port : 0 .. Width - 1]
Places == [op : DOMAIN Transfers \cup {"none", "get", "command", "rename"},
           at : Responses \cup {"no", "bind", "useraddr", "accept", "down", "up"},
           firstline : BOOLEAN]
Replies == [code : 0 .. 9, id : Nat, part : Parts \cup {"none"}]
Outcomes == [kind : {"none", "code", "err", "refused"}, code : 0 .. 9]
Ends == [us : {"none", "backlog", "accepted", "closed"},
         them : {"none", "open", "eof", "reset"}]

\* The parts of the type invariant, with the types of what is in a sequence.
StreamTyped ==
  /\ area \in Seq(CharSet) /\ flight \in Seq(CharSet)
  /\ link \in {"none", "open", "fin"}
ClientTyped ==
  /\ sb \in Sockets
  /\ call \in Places
  /\ reply \in Replies
  /\ out \in Outcomes
  /\ kept \in Seq(Cmds)
  /\ fate \in {"open", "terminated"}
  /\ n \in 0 .. MaxCmds
  /\ tidy \in BOOLEAN
PortTyped == portno \in 0 .. Width + Min(Reserved)
ServerTyped ==
  /\ data \in Ends
  /\ asked \in Seq(Cmds)
  /\ srv \in [st : {"greet", "idle", "begin", "told", "linked", "moving"}, id : Nat,
              verb : Verbs \cup {"none"}]
  /\ dport \in [port : 0 .. Width - 1, id : Nat]

\* A call that will send more commands has room for them.
Moving == {"accept", "down", "up"}
Room ==
  /\ call.op = "none" <=> call.at = "no"
  /\ call.at \in {"bind", "useraddr"} => n + 1 < MaxCmds
  /\ call.at \in {"RNFR", "PORT"} => n < MaxCmds
  /\ call.at \in {"bind", "useraddr", "PORT", "transfer", "final"} \cup Moving
       => call.op \in DOMAIN Transfers

\* A server that has closed is in no transfer.
Ended == link = "fin" => srv.st = "idle"

Base == StreamTyped /\ ClientTyped /\ PortTyped /\ ServerTyped /\ Room /\ Ended

------------------------------------------------------------------------------
(* Numbers and sequences.                                                  *)

\* The ports: Width is positive and more than the least reserved port.
LEMMA PortNumbers ==
  /\ Width \in Nat /\ Width > 1
  /\ Min(Reserved) \in Reserved
  /\ Min(Reserved) \in 1 .. Width - 1
  /\ First \in 1 .. Width - 1
<1>1. Byte \in Nat /\ Byte > 1
  BY ByteAssumption
<1>2. Byte * Byte \in Nat /\ Byte * Byte > 1
  BY <1>1
<1>3. Width \in Nat /\ Width > 1
  BY <1>2 DEF Width
<1>4. Reserved \subseteq 1 .. Width - 1 /\ Reserved # {}
  BY ReservedAssumption DEF Width
<1>5. Reserved \in SUBSET Nat
  BY <1>3, <1>4
<1>6. \E x \in Reserved : \A y \in Reserved : x <= y
  BY <1>4, <1>5, Least
<1>7. Min(Reserved) \in Reserved
  BY <1>6 DEF Min
<1> QED
  BY <1>3, <1>4, <1>7, FtpAssumption DEF Ports

\* sin_port: the 16 bits are a port, or 0; and what lies behind Width is
\* taken from its beginning again.
LEMMA SinPort ==
  ASSUME NEW p \in Nat
  PROVE  /\ sin_port(p) \in 0 .. Width - 1
         /\ p \in 0 .. Width - 1 => sin_port(p) = p
         /\ \A m \in 0 .. Width - 1 : p = Width + m => sin_port(p) = m
<1>1. PICK w : w = Width
  OBVIOUS
<1>2. w \in Nat /\ w > 1
  BY <1>1, PortNumbers
<1>3. p % w \in 0 .. w - 1
  BY <1>2
<1>4. PICK q, r : q = p \div w /\ r = p % w
  OBVIOUS
<1>5. q \in Int /\ r \in 0 .. w - 1 /\ p = q * w + r
  BY <1>2, <1>4
<1>6. ASSUME q >= 2 PROVE p >= w + w
  <2>1. (q - 2) * w >= 0
    BY <1>2, <1>5, <1>6
  <2>2. q * w = (q - 2) * w + (w + w)
    BY <1>2, <1>5
  <2> QED
    BY <1>2, <1>5, <2>1, <2>2
<1>7. q >= 0
  <2> SUFFICES ASSUME q <= -1 PROVE FALSE
    BY <1>5
  <2>1. (-1 - q) * w >= 0
    BY <1>2, <1>5
  <2>2. q * w = -((-1 - q) * w) - w
    BY <1>2, <1>5
  <2> QED
    BY <1>2, <1>5, <2>1, <2>2
<1>8. q = 0 \/ q = 1 \/ q >= 2
  BY <1>5, <1>7
<1>9. q = 0 => p = r
  BY <1>2, <1>5
<1>10. q = 1 => p = w + r
  BY <1>2, <1>5
<1>11. p \in 0 .. w - 1 => r = p
  BY <1>2, <1>5, <1>6, <1>8, <1>9, <1>10
<1>12. \A m \in 0 .. w - 1 : p = w + m => r = m
  BY <1>2, <1>5, <1>6, <1>8, <1>9, <1>10
<1> QED
  BY <1>1, <1>3, <1>4, <1>11, <1>12 DEF sin_port

\* A port taken apart into two bytes and joined again is the same.
LEMMA PortArgIs ==
  ASSUME sb.port \in 0 .. Width - 1
  PROVE  PortArg = sb.port
<1>1. PICK p, b : p = sb.port /\ b = Byte
  OBVIOUS
<1>2. p \in Nat /\ b \in Nat /\ b > 1
  BY <1>1, PortNumbers, ByteAssumption
<1>3. (p \div b) * b + (p % b) = p
  BY <1>2
<1> QED
  BY <1>1, <1>3 DEF PortArg, localport

\* The search for a free port goes on only where there is no reserved one.
LEMMA SearchEnds ==
  ASSUME PortTyped, "EADDRINUSE" \in BindErrors(portno)
  PROVE  portno + 1 \in 0 .. Width + Min(Reserved)
<1>1. PICK w, m, p : w = Width /\ m = Min(Reserved) /\ p = portno
  OBVIOUS
<1>2. w \in Nat /\ m \in 1 .. w - 1 /\ m \in Reserved /\ p \in 0 .. w + m
  BY <1>1, PortNumbers DEF PortTyped
<1>3. sin_port(p) \notin Reserved
  BY <1>1 DEF BindErrors
<1>4. p # w + m
  BY <1>1, <1>2, <1>3, SinPort
<1>5. p + 1 \in 0 .. w + m
  BY <1>2, <1>4
<1> QED
  BY <1>1, <1>5

------------------------------------------------------------------------------
(* The chars of a reply.                                                   *)

\* Which line comes behind which: within a reply, and where a preliminary one
\* is over.
Follow(l, m) ==
  \/ /\ l.kind = "first" /\ m.kind = "mid"
     /\ m.part = l.part /\ m.code = l.code /\ m.id = l.id
  \/ /\ l.kind = "mid" /\ m.kind = "last"
     /\ m.part = l.part /\ m.code = l.code /\ m.id = l.id
  \/ /\ l.kind \in {"only", "last"} /\ l.part = "prelim"
     /\ m.kind \in {"only", "first"} /\ m.part = "final" /\ m.id = l.id

\* Which char comes behind which.
Order == {cd \in CharSet \X CharSet :
            \/ ~IsLF(cd[1]) /\ cd[2].line = cd[1].line /\ cd[2].at = cd[1].at + 1
            \/ IsLF(cd[1]) /\ cd[2].at = 1 /\ Follow(cd[1].line, cd[2].line)}

\* Whole lines: what begins and ends where a line does.
Whole(w) == w # <<>> => w[1].at = 1 /\ IsLF(w[Len(w)])

\* The chars of a line.
LEMMA LineChars ==
  ASSUME NEW l \in Lines
  PROVE  LET w == Chars(l) IN
         /\ w \in Seq(CharSet) /\ w # <<>> /\ Len(w) = Length(l)
         /\ \A i \in 1 .. Len(w) : w[i].line = l
         /\ Whole(w) /\ Linked(w, Order)
<1>1. PICK k, w : k = Length(l) /\ w = Chars(l)
  OBVIOUS
<1>2. k \in {4, 6}
  BY <1>1 DEF Length
<1>3. w = [i \in 1 .. k |-> [line |-> l, at |-> i]]
  BY <1>1 DEF Chars
<1>4. \A i \in 1 .. k : [line |-> l, at |-> i] \in CharSet
  BY <1>1, <1>2 DEF CharSet
<1>5. w \in Seq(CharSet) /\ Len(w) = k
  <2>1. k \in Nat /\ w \in [1 .. k -> CharSet]
    BY <1>2, <1>3, <1>4
  <2>2. w \in Seq(CharSet)
    BY <2>1
  <2> QED
    BY <1>3, <2>1, <2>2
<1>6. w # <<>>
  BY <1>2, <1>5, EmptySeq
<1>7. \A i \in 1 .. k : w[i] = [line |-> l, at |-> i]
  BY <1>3
<1>8. Whole(w)
  <2>1. 1 \in 1 .. k /\ k \in 1 .. k
    BY <1>2
  <2>2. w[1] = [line |-> l, at |-> 1] /\ w[k] = [line |-> l, at |-> k]
    BY <1>7, <2>1
  <2>3. w[1].at = 1 /\ w[k].at = k /\ w[k].line = l
    BY <2>2
  <2> QED
    BY <1>1, <1>5, <2>3 DEF Whole, IsLF
<1>9. Linked(w, Order)
  <2>1. ASSUME NEW i \in 1 .. k - 1 PROVE <<w[i], w[i + 1]>> \in Order
    <3>1. i \in 1 .. k /\ i + 1 \in 1 .. k /\ i # k
      BY <1>2
    <3>2. PICK c, d : c = w[i] /\ d = w[i + 1]
      OBVIOUS
    <3>3. c = [line |-> l, at |-> i] /\ d = [line |-> l, at |-> i + 1]
      BY <1>7, <3>1, <3>2
    <3>4. c \in CharSet /\ d \in CharSet
      BY <1>4, <3>1, <3>3
    <3>5. ~IsLF(c) /\ d.line = c.line /\ d.at = c.at + 1
      BY <1>1, <3>1, <3>3 DEF IsLF
    <3> QED
      BY <3>2, <3>4, <3>5 DEF Order
  <2> QED
    BY <1>5, <2>1 DEF Linked
<1> QED
  BY <1>1, <1>5, <1>6, <1>7, <1>8, <1>9


\* Two streams of whole lines make one, when a reply may begin behind the first.
LEMMA TwoPieces ==
  ASSUME NEW u \in Seq(CharSet), NEW v \in Seq(CharSet), u # <<>>, v # <<>>,
         Whole(u), Linked(u, Order), Whole(v), Linked(v, Order),
         Follow(u[Len(u)].line, v[1].line)
  PROVE  LET w == u \o v IN
         /\ w \in Seq(CharSet) /\ w # <<>> /\ Whole(w) /\ Linked(w, Order)
         /\ w[1] = u[1] /\ w[Len(w)] = v[Len(v)]
         /\ 1 \in 1 .. Len(w) /\ Len(w) \in 1 .. Len(w)
         /\ \A i \in 1 .. Len(w) : \/ \E j \in 1 .. Len(u) : w[i] = u[j]
                                   \/ \E j \in 1 .. Len(v) : w[i] = v[j]
<1>1. PICK w, k, m : w = u \o v /\ k = Len(u) /\ m = Len(v)
  OBVIOUS
<1>2. k \in 1 .. k /\ 1 \in 1 .. m /\ k \in Nat /\ m \in Nat /\ m > 0 /\ k > 0
  <2>1. k \in Nat \ {0} /\ m \in Nat \ {0}
    BY <1>1, EmptySeq
  <2> QED
    BY <2>1
<1>3. /\ w \in Seq(CharSet) /\ w # <<>> /\ Len(w) = k + m
      /\ w[1] = u[1] /\ w[Len(w)] = v[m]
      /\ \A i \in 1 .. k : w[i] = u[i]
      /\ \A i \in 1 .. m : w[k + i] = v[i]
  BY <1>1, JoinParts
<1>4. u[k] \in CharSet /\ v[1] \in CharSet
  BY <1>1, <1>2, ElementOfSeq
<1>5. <<u[k], v[1]>> \in Order
  BY <1>1, <1>4 DEF Order, Whole
<1>6. Linked(w, Order)
  BY <1>1, <1>5, LinkedJoin
<1>7. Whole(w)
  BY <1>1, <1>3 DEF Whole
<1>8. ASSUME NEW i \in 1 .. k + m
      PROVE  \/ \E j \in 1 .. k : w[i] = u[j]
             \/ \E j \in 1 .. m : w[i] = v[j]
  <2>1. CASE i <= k
    BY <1>2, <1>3, <2>1
  <2>2. CASE i > k
    <3>1. PICK j : j = i - k
      OBVIOUS
    <3>2. j \in 1 .. m /\ i = k + j
      BY <1>2, <2>2, <3>1
    <3> QED
      BY <1>3, <3>2
  <2> QED
    BY <1>2, <2>1, <2>2
<1>9. 1 \in 1 .. Len(w) /\ Len(w) \in 1 .. Len(w)
  BY <1>2, <1>3
<1> QED
  BY <1>1, <1>3, <1>6, <1>7, <1>8, <1>9

\* r is a reply: whole lines, that begin and end as a reply does.
IsReply(r, id, part, code) ==
  /\ r \in Seq(CharSet) /\ r # <<>>
  /\ Linked(r, Order) /\ Whole(r)
  /\ \A i \in 1 .. Len(r) : /\ r[i].line.id = id
                            /\ r[i].line.part = part /\ r[i].line.code = code
  /\ r[1].line.kind \in {"only", "first"}
  /\ r[Len(r)].line.kind \in {"only", "last"}

\* What Reply makes is one.
LEMMA ReplyIs ==
  ASSUME NEW id \in Nat, NEW part \in Parts, NEW code \in 0 .. 9,
         part # "final" => code < rca_error,
         NEW kinds \in {Single, <<"first", "mid", "last">>},
         NEW r, r = Reply(id, part, code, kinds)
  PROVE  IsReply(r, id, part, code)
<1> DEFINE L(kind) == Line(id, part, code, kind)
           ss == [i \in DOMAIN kinds |-> Chars(L(kinds[i]))]
<1>1. r = FlattenSeq(ss)
  BY DEF Reply
<1>2. \A kind \in Kinds :
        /\ L(kind) \in Lines /\ L(kind).kind = kind
        /\ L(kind).id = id /\ L(kind).part = part /\ L(kind).code = code
  BY DEF Line, Lines
<1>3. ASSUME NEW kind \in Kinds
      PROVE  /\ Chars(L(kind)) \in Seq(CharSet) /\ Chars(L(kind)) # <<>>
             /\ \A i \in 1 .. Len(Chars(L(kind))) : Chars(L(kind))[i].line = L(kind)
             /\ Whole(Chars(L(kind))) /\ Linked(Chars(L(kind)), Order)
             /\ 1 \in 1 .. Len(Chars(L(kind)))
             /\ Len(Chars(L(kind))) \in 1 .. Len(Chars(L(kind)))
  <2>1. L(kind) \in Lines
    BY <1>2
  <2>2. /\ Chars(L(kind)) \in Seq(CharSet) /\ Chars(L(kind)) # <<>>
        /\ \A i \in 1 .. Len(Chars(L(kind))) : Chars(L(kind))[i].line = L(kind)
        /\ Whole(Chars(L(kind))) /\ Linked(Chars(L(kind)), Order)
    <3> HIDE DEF L
    <3> QED
      BY <2>1, LineChars
  <2>3. Len(Chars(L(kind))) \in Nat \ {0}
    BY <2>2, EmptySeq
  <2> QED
    BY <2>2, <2>3
<1>4. CASE kinds = Single
  <2>1. Len(kinds) = 1 /\ kinds[1] = "only" /\ DOMAIN kinds = 1 .. 1
    BY <1>4 DEF Single
  <2>2. Len(ss) = 1 /\ ss[1] = Chars(L("only"))
    BY <2>1
  <2>3. r = Chars(L("only"))
    BY <1>1, <2>2, FlattenOne
  <2>4. "only" \in Kinds
    BY DEF Kinds
  <2> HIDE DEF ss, L
  <2> QED
    BY <1>2, <1>3, <2>3, <2>4 DEF IsReply
<1>5. CASE kinds = <<"first", "mid", "last">>
  <2>1. /\ Len(kinds) = 3 /\ DOMAIN kinds = 1 .. 3
        /\ kinds[1] = "first" /\ kinds[2] = "mid" /\ kinds[3] = "last"
    BY <1>5
  <2>2. PICK a, b, c : a = Chars(L("first")) /\ b = Chars(L("mid")) /\ c = Chars(L("last"))
    OBVIOUS
  <2>3. Len(ss) = 3 /\ ss[1] = a /\ ss[2] = b /\ ss[3] = c
    BY <2>1, <2>2
  <2>4. r = (a \o b) \o c
    BY <1>1, <2>3, FlattenThree
  <2>5. {"first", "mid", "last"} \subseteq Kinds
    BY DEF Kinds
  <2> HIDE DEF ss, L
  <2>6. /\ a \in Seq(CharSet) /\ a # <<>> /\ Whole(a) /\ Linked(a, Order)
        /\ \A i \in 1 .. Len(a) : a[i].line = L("first")
        /\ 1 \in 1 .. Len(a) /\ Len(a) \in 1 .. Len(a)
    BY <1>3, <2>2, <2>5
  <2>7. /\ b \in Seq(CharSet) /\ b # <<>> /\ Whole(b) /\ Linked(b, Order)
        /\ \A i \in 1 .. Len(b) : b[i].line = L("mid")
        /\ 1 \in 1 .. Len(b) /\ Len(b) \in 1 .. Len(b)
    BY <1>3, <2>2, <2>5
  <2>8. /\ c \in Seq(CharSet) /\ c # <<>> /\ Whole(c) /\ Linked(c, Order)
        /\ \A i \in 1 .. Len(c) : c[i].line = L("last")
        /\ 1 \in 1 .. Len(c) /\ Len(c) \in 1 .. Len(c)
    BY <1>3, <2>2, <2>5
  <2>9. PICK d : d = a \o b
    OBVIOUS
  <2>10. /\ d \in Seq(CharSet) /\ d # <<>> /\ Whole(d) /\ Linked(d, Order)
         /\ \A i \in 1 .. Len(d) : d[i].line \in {L("first"), L("mid")}
         /\ d[1].line = L("first") /\ d[Len(d)].line = L("mid")
         /\ 1 \in 1 .. Len(d) /\ Len(d) \in 1 .. Len(d)
    <3>1. Follow(a[Len(a)].line, b[1].line)
      BY <1>2, <2>5, <2>6, <2>7 DEF Follow
    <3>2. LET w == a \o b IN
          /\ w \in Seq(CharSet) /\ w # <<>> /\ Whole(w) /\ Linked(w, Order)
          /\ w[1] = a[1] /\ w[Len(w)] = b[Len(b)]
          /\ 1 \in 1 .. Len(w) /\ Len(w) \in 1 .. Len(w)
          /\ \A i \in 1 .. Len(w) : \/ \E j \in 1 .. Len(a) : w[i] = a[j]
                                    \/ \E j \in 1 .. Len(b) : w[i] = b[j]
      BY <2>6, <2>7, <3>1, TwoPieces
    <3> QED
      BY <2>6, <2>7, <2>9, <3>2
  <2>11. PICK e : e = d \o c
    OBVIOUS
  <2>12. /\ e \in Seq(CharSet) /\ e # <<>> /\ Whole(e) /\ Linked(e, Order)
         /\ \A i \in 1 .. Len(e) : e[i].line \in {L("first"), L("mid"), L("last")}
         /\ e[1].line = L("first") /\ e[Len(e)].line = L("last")
    <3>1. Follow(d[Len(d)].line, c[1].line)
      BY <1>2, <2>5, <2>8, <2>10 DEF Follow
    <3>2. LET w == d \o c IN
          /\ w \in Seq(CharSet) /\ w # <<>> /\ Whole(w) /\ Linked(w, Order)
          /\ w[1] = d[1] /\ w[Len(w)] = c[Len(c)]
          /\ \A i \in 1 .. Len(w) : \/ \E j \in 1 .. Len(d) : w[i] = d[j]
                                    \/ \E j \in 1 .. Len(c) : w[i] = c[j]
      BY <2>8, <2>10, <3>1, TwoPieces
    <3> QED
      BY <2>8, <2>10, <2>11, <3>2
  <2> QED
    <3>1. r = e
      BY <2>4, <2>9, <2>11
    <3>2. ASSUME NEW i \in 1 .. Len(e)
          PROVE  /\ e[i].line.id = id
                 /\ e[i].line.part = part /\ e[i].line.code = code
      BY <1>2, <2>5, <2>12
    <3>3. e[1].line.kind = "first" /\ e[Len(e)].line.kind = "last"
      BY <1>2, <2>5, <2>12
    <3> QED
      BY <2>12, <3>1, <3>2, <3>3 DEF IsReply
<1> QED
  BY <1>4, <1>5

\* What a stream of whole lines begins with.
LEMMA FirstLine ==
  ASSUME NEW w \in Seq(CharSet), w # <<>>, Linked(w, Order), Whole(w),
         NEW l, l = w[1].line, NEW k, k = Length(l)
  PROVE  /\ l \in Lines /\ k \in {4, 6} /\ k \in 1 .. Len(w)
         /\ \A i \in 1 .. k : w[i].line = l /\ w[i].at = i
         /\ k < Len(w) => w[k + 1].at = 1 /\ Follow(l, w[k + 1].line)
<1>1. Len(w) \in Nat /\ Len(w) > 0
  BY EmptySeq, LenProperties
<1>2. k \in {4, 6}
  BY DEF Length
<1>3. w[1].at = 1 /\ w[1].line = l /\ l \in Lines
  <2>1. w[1] \in CharSet
    BY <1>1, ElementOfSeq
  <2> QED
    BY <2>1 DEF Whole, CharSet
<1> DEFINE P(i) == i <= Len(w) /\ w[i].line = l /\ w[i].at = i
<1>4. ASSUME NEW i \in 1 .. 5, i < k, P(i) PROVE P(i + 1)
  <2>1. ~IsLF(w[i])
    BY <1>2, <1>4 DEF IsLF
  <2>2. i # Len(w)
    BY <2>1 DEF Whole
  <2>3. i \in 1 .. Len(w) - 1
    BY <1>1, <1>4, <2>2
  <2>4. <<w[i], w[i + 1]>> \in Order
    BY <2>3 DEF Linked
  <2>5. w[i + 1].line = w[i].line /\ w[i + 1].at = w[i].at + 1
    BY <2>1, <2>4 DEF Order
  <2> QED
    BY <1>1, <1>4, <2>3, <2>5
<1>5. P(1)
  BY <1>1, <1>3
<1>6. P(2)
  <2>1. 1 \in 1 .. 5 /\ 1 < k /\ 1 + 1 = 2
    BY <1>2
  <2> HIDE DEF P
  <2>2. P(1 + 1)
    BY <1>4, <1>5, <2>1
  <2> QED
    BY <2>1, <2>2
<1>7. P(3)
  <2>1. 2 \in 1 .. 5 /\ 2 < k /\ 2 + 1 = 3
    BY <1>2
  <2> HIDE DEF P
  <2>2. P(2 + 1)
    BY <1>4, <1>6, <2>1
  <2> QED
    BY <2>1, <2>2
<1>8. P(4)
  <2>1. 3 \in 1 .. 5 /\ 3 < k /\ 3 + 1 = 4
    BY <1>2
  <2> HIDE DEF P
  <2>2. P(3 + 1)
    BY <1>4, <1>7, <2>1
  <2> QED
    BY <2>1, <2>2
<1>9. k = 6 => P(5)
  <2> SUFFICES ASSUME k = 6 PROVE P(5)
    OBVIOUS
  <2>1. 4 \in 1 .. 5 /\ 4 < k /\ 4 + 1 = 5
    OBVIOUS
  <2> HIDE DEF P
  <2>2. P(4 + 1)
    BY <1>4, <1>8, <2>1
  <2> QED
    BY <2>1, <2>2
<1>10. k = 6 => P(6)
  <2> SUFFICES ASSUME k = 6 PROVE P(6)
    OBVIOUS
  <2>1. 5 \in 1 .. 5 /\ 5 < k /\ 5 + 1 = 6
    OBVIOUS
  <2> HIDE DEF P
  <2>2. P(5 + 1)
    BY <1>4, <1>9, <2>1
  <2> QED
    BY <2>1, <2>2
<1>11. \A i \in 1 .. k : P(i)
  <2> HIDE DEF P
  <2>1. ASSUME NEW i \in 1 .. 4 PROVE P(i)
    <3>1. i = 1 \/ i = 2 \/ i = 3 \/ i = 4
      OBVIOUS
    <3> QED
      BY <1>5, <1>6, <1>7, <1>8, <3>1
  <2>2. ASSUME k = 6, NEW i \in 5 .. 6 PROVE P(i)
    <3>1. i = 5 \/ i = 6
      OBVIOUS
    <3> QED
      BY <1>9, <1>10, <2>2, <3>1
  <2>3. ASSUME NEW i \in 1 .. k PROVE i \in 1 .. 4 \/ (k = 6 /\ i \in 5 .. 6)
    BY <1>2
  <2> QED
    BY <2>1, <2>2, <2>3
<1>12. P(k) /\ k \in 1 .. Len(w)
  BY <1>1, <1>2, <1>11
<1>13. ASSUME k < Len(w) PROVE w[k + 1].at = 1 /\ Follow(l, w[k + 1].line)
  <2>1. k \in 1 .. Len(w) - 1
    BY <1>1, <1>12, <1>13
  <2>2. <<w[k], w[k + 1]>> \in Order
    BY <2>1 DEF Linked
  <2>3. IsLF(w[k]) /\ w[k].line = l
    BY <1>12 DEF IsLF
  <2> QED
    BY <2>2, <2>3 DEF Order
<1> QED
  BY <1>2, <1>3, <1>11, <1>12, <1>13

\* The search for a CRLF ends with that of the first line.
LEMMA FirstCRLF ==
  ASSUME area \in Seq(CharSet), area # <<>>, Linked(area, Order), Whole(area),
         NEW k, k = Length(area[1].line)
  PROVE  CRLFs # {} /\ Min(CRLFs) = k
<1>1. PICK l : l = area[1].line
  OBVIOUS
<1>2. /\ k \in {4, 6} /\ k \in 1 .. Len(area) /\ Len(area) \in Nat
      /\ \A i \in 1 .. k : area[i].line = l /\ area[i].at = i
  BY <1>1, FirstLine, LenProperties
<1>3. k \in CRLFs
  <2>1. k \in 2 .. Len(area) /\ k \in 1 .. k
    BY <1>2
  <2>2. IsLF(area[k])
    BY <1>1, <1>2, <2>1 DEF IsLF
  <2> QED
    BY <2>1, <2>2 DEF CRLFs
<1>4. ASSUME NEW y \in CRLFs PROVE k <= y
  <2>1. y \in 2 .. Len(area) /\ IsLF(area[y])
    BY DEF CRLFs
  <2>2. y < k => area[y].at = y /\ area[y].line = l
    BY <1>2, <2>1
  <2>3. ~(y < k)
    BY <1>1, <1>2, <2>1, <2>2 DEF IsLF
  <2> QED
    BY <1>2, <2>1, <2>3
<1>5. CRLFs \in SUBSET Int
  BY <1>2 DEF CRLFs
<1>6. ASSUME NEW x \in CRLFs, \A y \in CRLFs : x <= y PROVE x = k
  <2>1. x \in Int /\ k \in Int /\ x <= k /\ k <= x
    BY <1>2, <1>3, <1>4, <1>5, <1>6
  <2> QED
    BY <2>1
<1>7. (CHOOSE x \in CRLFs : \A y \in CRLFs : x <= y) = k
  BY <1>3, <1>4, <1>6
<1> QED
  BY <1>3, <1>7 DEF Min

------------------------------------------------------------------------------
(* The steps keep the types.                                               *)

\* The transfers and their commands.
LEMMA TransfersAre ==
  /\ DOMAIN Transfers = {"getfile", "list", "putfile"}
  /\ \A op \in DOMAIN Transfers : Transfers[op] \in {"RETR", "LIST", "STOR"}
  /\ \A v : v \in {Transfers[op] : op \in DOMAIN Transfers} <=> v \in {"RETR", "LIST", "STOR"}
<1>1. DOMAIN Transfers = {"getfile", "list", "putfile"}
  BY DEF Transfers
<1>2. /\ Transfers["getfile"] = "RETR" /\ Transfers["list"] = "LIST"
      /\ Transfers["putfile"] = "STOR"
  BY DEF Transfers
<1> QED
  BY <1>1, <1>2

\* Places of calls and values of sockets and outcomes that the steps give.
LEMMA Values ==
  /\ Idle \in Places /\ NoSocket \in Sockets /\ Open \in Sockets
  /\ Nothing \in Outcomes /\ Err \in Outcomes /\ Refused \in Outcomes
  /\ \A c \in 0 .. 9 : Code(c) \in Outcomes
  /\ \A s \in Sockets : Listening(s) \in Sockets
  /\ \A c \in Places, at \in Responses \cup {"no", "bind", "useraddr", "accept", "down", "up"} :
       At(c, at) \in Places /\ At(c, at).op = c.op /\ At(c, at).at = at
                            /\ At(c, at).firstline
<1>1. Width \in Nat /\ Width > 1
  BY PortNumbers
<1>2. NoSocket \in Sockets /\ Open \in Sockets /\ \A s \in Sockets : Listening(s) \in Sockets
  BY <1>1 DEF NoSocket, Open, Listening, Sockets
<1>3. /\ Nothing \in Outcomes /\ Err \in Outcomes /\ Refused \in Outcomes
      /\ \A c \in 0 .. 9 : Code(c) \in Outcomes
  BY DEF Nothing, Err, Refused, Code, Outcomes, rca_error
<1>4. Idle \in Places
  BY DEF Idle, Places
<1>5. \A c \in Places, at \in Responses \cup {"no", "bind", "useraddr", "accept", "down", "up"} :
        At(c, at) \in Places /\ At(c, at).op = c.op /\ At(c, at).at = at
                             /\ At(c, at).firstline
  BY DEF At, Places
<1> QED
  BY <1>2, <1>3, <1>4, <1>5

\* A call that is left has the types.
LEMMA LeaveTyped ==
  ASSUME Base, NEW o \in Outcomes, Leave(o)
  PROVE  /\ call' = Idle /\ call' \in Places /\ out' = o /\ sb' = NoSocket
         /\ sb' \in Sockets /\ data' \in Ends /\ data'.them = data.them
<1>1. data \in Ends
  BY DEF Base, ServerTyped
<1> QED
  BY <1>1, Values DEF Leave, Ends

\* So has one that sends a command.
LEMMA SendCmdTyped ==
  ASSUME Base, n < MaxCmds, NEW verb \in Verbs, NEW port \in 0 .. Width - 1,
         NEW c \in Places, NEW s \in Sockets, send_cmd(verb, port, c, s)
  PROVE  /\ n' = n + 1 /\ n' \in 0 .. MaxCmds
         /\ asked' \in Seq(Cmds) /\ kept' \in Seq(Cmds)
         /\ call' \in Places /\ (call' = c \/ call' = Idle)
         /\ out' \in Outcomes /\ sb' \in Sockets /\ data' \in Ends /\ tidy' \in BOOLEAN
<1>1. /\ n \in 0 .. MaxCmds /\ MaxCmds \in Nat /\ kept \in Seq(Cmds) /\ asked \in Seq(Cmds)
      /\ data \in Ends /\ tidy \in BOOLEAN
  BY FtpAssumption DEF Base, ClientTyped, ServerTyped
<1>2. n' = n + 1 /\ n' \in 0 .. MaxCmds
  BY <1>1 DEF send_cmd
<1>3. PICK cmds : cmds = Append(kept, [id |-> n + 1, verb |-> verb, port |-> port])
  OBVIOUS
<1>4. cmds \in Seq(Cmds)
  <2>1. [id |-> n + 1, verb |-> verb, port |-> port] \in Cmds
    BY <1>1 DEF Cmds
  <2> QED
    BY <1>1, <1>3, <2>1, AppendProperties
<1>5. CASE /\ asked' = IF link = "open" THEN asked \o cmds ELSE asked
           /\ kept' = <<>> /\ call' = c /\ out' = Nothing /\ sb' = s
           /\ tidy' = (tidy /\ Greeted) /\ data' = data
  <2>1. asked \o cmds \in Seq(Cmds) /\ <<>> \in Seq(Cmds)
    BY <1>1, <1>4, ConcatProperties, EmptySeq
  <2>2. tidy' \in BOOLEAN
    BY <1>5
  <2> QED
    BY <1>1, <1>2, <1>5, <2>1, <2>2, Values
<1>6. CASE Leave(Err) /\ kept' = cmds /\ tidy' = FALSE /\ asked' = asked
  <2>1. /\ call' = Idle /\ call' \in Places /\ out' = Err
        /\ sb' \in Sockets /\ data' \in Ends
    BY <1>6, LeaveTyped, Values
  <2>2. out' \in Outcomes
    BY <2>1, Values
  <2>3. asked' \in Seq(Cmds) /\ kept' \in Seq(Cmds) /\ tidy' \in BOOLEAN
    BY <1>1, <1>4, <1>6
  <2> QED
    BY <1>2, <2>1, <2>2, <2>3
<1> QED
  BY <1>3, <1>5, <1>6 DEF send_cmd

\* What Room asks of the call, if it is left, or goes on where it needs none.
LEMMA RoomOf ==
  ASSUME call' = Idle \/ /\ call'.op # "none" /\ call'.at # "no"
                         /\ call'.at \in {"bind", "useraddr"} => n' + 1 < MaxCmds
                         /\ call'.at \in {"RNFR", "PORT"} => n' < MaxCmds
                         /\ call'.at \in {"bind", "useraddr", "PORT", "transfer", "final"} \cup Moving
                              => call'.op \in DOMAIN Transfers
  PROVE  Room'
BY DEF Room, Idle, Moving

\* An err that leaves the call while the server still has to answer.
LEMMA ThrowTyped ==
  ASSUME Base, Throw, UNCHANGED <<reply, fate>> PROVE ClientTyped' /\ data' \in Ends /\ Room' /\ asked' = asked
<1>1. /\ call' = Idle /\ call' \in Places /\ out' = Err
      /\ sb' \in Sockets /\ data' \in Ends
  BY LeaveTyped, Values DEF Throw
<1>2. out' \in Outcomes
  BY <1>1, Values
<1>3. Room'
  BY <1>1, RoomOf
<1> QED
  BY <1>1, <1>2, <1>3 DEF Throw, Base, ClientTyped

\* What a call does with its reply.
LEMMA GotTyped ==
  ASSUME Base, NEW r \in Replies, Got(r), reply' \in Replies, fate' = fate
  PROVE  ClientTyped' /\ data' \in Ends /\ asked' \in Seq(Cmds) /\ Room'
<1>1. /\ call \in Places /\ sb \in Sockets /\ n \in 0 .. MaxCmds /\ MaxCmds \in Nat
      /\ kept \in Seq(Cmds) /\ asked \in Seq(Cmds) /\ data \in Ends
      /\ fate \in {"open", "terminated"} /\ tidy \in BOOLEAN /\ out \in Outcomes
  BY FtpAssumption DEF Base, ClientTyped, ServerTyped
<1>2. Room
  BY DEF Base
<1>3. Width \in Nat /\ 0 \in 0 .. Width - 1
  BY PortNumbers
<1>4. ASSUME NEW o \in Outcomes, Leave(o), UNCHANGED <<kept, asked, n, tidy>>
      PROVE  ClientTyped' /\ data' \in Ends /\ asked' \in Seq(Cmds) /\ Room'
  <2>1. call' = Idle /\ call' \in Places /\ out' \in Outcomes /\ sb' \in Sockets /\ data' \in Ends
    BY <1>4, LeaveTyped
  <2>2. Room'
    BY <2>1, RoomOf
  <2> QED
    BY <1>1, <1>4, <2>1, <2>2 DEF ClientTyped
<1>5. ASSUME n < MaxCmds, NEW verb \in Verbs, NEW at \in {"reply", "transfer"},
             NEW s \in Sockets, call.op # "none",
             at = "transfer" => call.op \in DOMAIN Transfers,
             send_cmd(verb, 0, At(call, at), s)
      PROVE  ClientTyped' /\ data' \in Ends /\ asked' \in Seq(Cmds) /\ Room'
  <2>1. /\ At(call, at) \in Places /\ At(call, at).op = call.op /\ At(call, at).at = at
    <3>1. at \in Responses
      BY DEF Responses
    <3> QED
      BY <1>1, <3>1, Values
  <2>2. /\ n' = n + 1 /\ n' \in 0 .. MaxCmds
        /\ asked' \in Seq(Cmds) /\ kept' \in Seq(Cmds)
        /\ call' \in Places /\ (call' = At(call, at) \/ call' = Idle)
        /\ out' \in Outcomes /\ sb' \in Sockets /\ data' \in Ends /\ tidy' \in BOOLEAN
    BY <1>3, <1>5, <2>1, SendCmdTyped
  <2>3. Room'
    BY <1>5, <2>1, <2>2, RoomOf DEF Moving
  <2> QED
    BY <1>1, <2>2, <2>3 DEF ClientTyped
<1>6. CASE call.at \in {"reply", "final"} /\ Leave(Code(r.code)) /\ UNCHANGED <<kept, asked, n, tidy>>
  <2>1. Code(r.code) \in Outcomes
    BY Values DEF Replies
  <2> QED
    BY <1>4, <1>6, <2>1
<1>7. CASE call.at = "RNFR" /\ send_cmd("RNTO", 0, At(call, "reply"), sb)
  <2>1. n < MaxCmds /\ call.op # "none" /\ "RNTO" \in Verbs
    BY <1>2, <1>7 DEF Room, Verbs
  <2> QED
    BY <1>1, <1>5, <1>7, <2>1
<1>8. CASE call.at = "PORT" /\ send_cmd(Transfers[call.op], 0, At(call, "transfer"), Listening(sb))
  <2>1. n < MaxCmds /\ call.op # "none" /\ call.op \in DOMAIN Transfers
    BY <1>2, <1>8 DEF Room
  <2>2. Transfers[call.op] \in Verbs
    BY <2>1, TransfersAre DEF Verbs
  <2>3. Listening(sb) \in Sockets
    BY <1>1, Values
  <2> QED
    BY <1>5, <1>8, <2>1, <2>2, <2>3
<1>9. CASE call.at = "PORT" /\ Leave(Err) /\ UNCHANGED <<kept, asked, n, tidy>>
  BY <1>4, <1>9, Values
<1>10. CASE /\ call.at = "transfer"
            /\ call' = At(call, IF call.op = "list" THEN "final" ELSE "accept")
            /\ UNCHANGED <<out, sb, data, kept, asked, n, tidy>>
  <2>1. PICK at : at = IF call.op = "list" THEN "final" ELSE "accept"
    OBVIOUS
  <2>2. call.op \in DOMAIN Transfers /\ call.op # "none"
    BY <1>2, <1>10 DEF Room
  <2>3. at \in {"final", "accept"} /\ at \in Responses \cup {"accept"}
    BY <2>1 DEF Responses
  <2>4. call' \in Places /\ call'.op = call.op /\ call'.at = at
    BY <1>1, <1>10, <2>1, <2>3, Values
  <2>5. Room'
    BY <2>2, <2>3, <2>4, RoomOf
  <2> QED
    BY <1>1, <1>10, <2>4, <2>5 DEF ClientTyped
<1>11. CASE Leave(Code(rca_error)) /\ UNCHANGED <<kept, asked, n, tidy>>
  <2>1. Code(rca_error) \in Outcomes
    BY Values DEF rca_error
  <2> QED
    BY <1>4, <1>11, <2>1
<1> QED
  BY <1>6, <1>7, <1>8, <1>9, <1>10, <1>11 DEF Got

\* A step of the client that reads nothing.
LEMMA ClientBase ==
  ASSUME Base, ClientTyped', data' \in Ends, asked' \in Seq(Cmds), Room', PortTyped',
         UNCHANGED <<area, flight, link, srv, dport>>
  PROVE  Base'
BY DEF Base, StreamTyped, ServerTyped, Ended

\* A step of the server.
LEMMA ServerBase ==
  ASSUME Base, StreamTyped', ServerTyped', Ended', UNCHANGED <<inet, client, n, tidy>>
  PROVE  Base'
BY DEF Base, ClientTyped, PortTyped, Room, inet, client

\* The calls.
LEMMA CallsBase == ASSUME Base, Calls PROVE Base'
<1>1. /\ call \in Places /\ sb \in Sockets /\ n \in 0 .. MaxCmds /\ MaxCmds \in Nat
      /\ kept \in Seq(Cmds) /\ asked \in Seq(Cmds) /\ data \in Ends /\ reply \in Replies
      /\ fate \in {"open", "terminated"} /\ tidy \in BOOLEAN /\ out \in Outcomes
      /\ portno \in 0 .. Width + Min(Reserved)
  BY FtpAssumption DEF Base, ClientTyped, ServerTyped, PortTyped
<1>2. Width \in Nat /\ Width > 1 /\ 0 \in 0 .. Width - 1 /\ Min(Reserved) \in 1 .. Width - 1
      /\ First \in 1 .. Width - 1
  BY PortNumbers
<1>3. \A op \in {"get", "command", "rename"} \cup DOMAIN Transfers, at \in Responses \cup {"bind"} :
        /\ Calling(op, at) \in Places
        /\ Calling(op, at).op = op /\ Calling(op, at).at = at /\ op # "none"
  <2>1. "none" \notin DOMAIN Transfers
    BY TransfersAre
  <2> QED
    BY <2>1 DEF Calling, Places
<1>4. ASSUME n < MaxCmds, NEW verb \in Verbs, NEW port \in 0 .. Width - 1,
             NEW op \in {"command", "rename"}, NEW at \in {"reply", "RNFR"},
             at = "RNFR" => n + 1 < MaxCmds,
             send_cmd(verb, port, Calling(op, at), NoSocket),
             UNCHANGED <<stream, portno, reply, fate, srv, dport>>
      PROVE  Base'
  <2>1. /\ Calling(op, at) \in Places
        /\ Calling(op, at).op = op /\ Calling(op, at).at = at /\ op # "none"
    <3>1. at \in Responses \cup {"bind"} /\ op \in {"get", "command", "rename"} \cup DOMAIN Transfers
      BY DEF Responses
    <3> QED
      BY <1>3, <3>1
  <2>2. /\ n' = n + 1 /\ n' \in 0 .. MaxCmds
        /\ asked' \in Seq(Cmds) /\ kept' \in Seq(Cmds)
        /\ call' \in Places /\ (call' = Calling(op, at) \/ call' = Idle)
        /\ out' \in Outcomes /\ sb' \in Sockets /\ data' \in Ends /\ tidy' \in BOOLEAN
    BY <1>4, <2>1, Values, SendCmdTyped
  <2>3. Room'
    <3>1. CASE call' = Idle
      BY <3>1, RoomOf
    <3>2. CASE call' = Calling(op, at)
      BY <1>4, <2>1, <2>2, <3>2, RoomOf DEF Moving
    <3> QED
      BY <2>2, <3>1, <3>2
  <2>4. ClientTyped' /\ PortTyped'
    BY <1>1, <1>4, <2>2 DEF ClientTyped, PortTyped
  <2> QED
    BY <1>4, <2>2, <2>3, <2>4, ClientBase DEF stream
<1>5. ASSUME Leave(Err), UNCHANGED <<kept, asked, n, tidy, reply, fate, stream, srv, dport>>,
             portno' = portno
      PROVE  Base'
  <2>1. call' = Idle /\ call' \in Places /\ out' = Err /\ sb' \in Sockets /\ data' \in Ends
    BY <1>5, LeaveTyped, Values
  <2>2. out' \in Outcomes
    BY <2>1, Values
  <2>3. Room'
    BY <2>1, RoomOf
  <2>4. ClientTyped' /\ PortTyped'
    BY <1>1, <1>5, <2>1, <2>2 DEF ClientTyped, PortTyped
  <2> QED
    BY <1>1, <1>5, <2>1, <2>3, <2>4, ClientBase DEF stream
<1>6. CASE Connects
  <2>1. /\ link' = "open" \/ link' = link
        /\ out' = Nothing \/ out' = Err
        /\ UNCHANGED <<area, flight, inet, call, reply, kept, data, fate, server, n, tidy>>
    BY <1>6 DEF Connects
  <2>2. out' \in Outcomes
    BY <2>1, Values
  <2>3. StreamTyped' /\ Ended'
    BY <2>1 DEF Base, StreamTyped, Ended, server
  <2>4. ClientTyped' /\ PortTyped' /\ ServerTyped' /\ Room'
    BY <2>1, <2>2 DEF Base, ClientTyped, PortTyped, ServerTyped, Room, inet, server
  <2> QED
    BY <2>3, <2>4 DEF Base
<1>7. CASE Command
  <2>1. PICK v \in {Told(verb) : verb \in Session \cup Settings \cup Numbers \cup Paths} :
          send_cmd(v, 0, Calling("command", "reply"), NoSocket)
    BY <1>7 DEF Command
  <2>2. v \in Verbs
    BY DEF Told, Verbs
  <2>3. n < MaxCmds /\ UNCHANGED <<stream, portno, reply, fate, srv, dport>>
    BY <1>7 DEF Command
  <2> QED
    BY <1>2, <1>4, <2>1, <2>2, <2>3
<1>8. CASE Useraddr
  <2>1. n < MaxCmds /\ UNCHANGED <<stream, portno, reply, fate, srv, dport>>
    BY <1>8 DEF Useraddr
  <2>2. CASE Leave(Err) /\ UNCHANGED <<kept, asked, n, tidy>>
    BY <1>5, <2>1, <2>2
  <2>3. ASSUME NEW p \in Ports \ (Reserved \cup {First}),
               send_cmd("PORT", sin_port(p), Calling("command", "reply"), NoSocket)
        PROVE  Base'
    <3>1. p \in Nat
      BY <1>2 DEF Ports
    <3>2. sin_port(p) \in 0 .. Width - 1
      BY <3>1, SinPort
    <3>3. "PORT" \in Verbs
      BY DEF Verbs
    <3> QED
      BY <1>4, <2>1, <2>3, <3>2, <3>3
  <2> QED
    BY <1>8, <2>2, <2>3 DEF Useraddr
<1>9. CASE GetResponse
  <2>1. /\ call' = Calling("get", "reply") /\ out' = Nothing
        /\ UNCHANGED <<stream, inet, reply, kept, data, fate, server, n, tidy>>
    BY <1>9 DEF GetResponse
  <2>2. call' \in Places /\ call'.op = "get" /\ call'.at = "reply"
    <3>1. "reply" \in Responses
      BY DEF Responses
    <3> QED
      BY <1>3, <2>1, <3>1
  <2>3. Room'
    BY <2>2, RoomOf DEF Moving
  <2>4. ClientTyped' /\ PortTyped'
    BY <1>1, <2>1, <2>2, Values DEF ClientTyped, PortTyped, inet
  <2> QED
    BY <1>1, <2>1, <2>3, <2>4, ClientBase DEF stream, server
<1>10. CASE Rename
  <2>1. /\ n + 1 < MaxCmds /\ UNCHANGED <<stream, portno, reply, fate, srv, dport>>
        /\ send_cmd("RNFR", 0, Calling("rename", "RNFR"), NoSocket)
    BY <1>10 DEF Rename
  <2>2. "RNFR" \in Verbs /\ n < MaxCmds
    BY <1>1, <2>1 DEF Verbs
  <2> QED
    BY <1>2, <1>4, <2>1, <2>2
<1>11. CASE Transfer
  <2>1. /\ n + 1 < MaxCmds
        /\ UNCHANGED <<stream, reply, kept, fate, server, n, tidy>>
    BY <1>11 DEF Transfer
  <2>2. CASE Leave(Err) /\ portno' = portno
    BY <1>5, <2>1, <2>2 DEF server
  <2>3. ASSUME NEW op \in DOMAIN Transfers, call' = Calling(op, "bind"),
               sb' = Open, portno' = First, out' = Nothing,
               data' = [us |-> "none", them |-> "none"]
        PROVE  Base'
    <3>1. call' \in Places /\ call'.op = op /\ call'.at = "bind" /\ op # "none"
      BY <1>3, <2>3
    <3>2. Room'
      BY <2>1, <2>3, <3>1, RoomOf DEF Moving
    <3>3. ClientTyped'
      BY <1>1, <2>1, <2>3, <3>1, Values DEF ClientTyped
    <3>4. PortTyped'
      BY <1>2, <2>3 DEF PortTyped
    <3>5. data' \in Ends
      BY <2>3 DEF Ends
    <3> QED
      BY <1>1, <2>1, <3>2, <3>3, <3>4, <3>5, ClientBase DEF stream, server
  <2> QED
    BY <1>11, <2>2, <2>3 DEF Transfer
<1>12. CASE NoName
  <2>1. /\ out' = Refused
        /\ UNCHANGED <<stream, inet, call, reply, kept, data, fate, server, n, tidy>>
    BY <1>12 DEF NoName
  <2>2. ClientTyped' /\ PortTyped' /\ Room'
    BY <1>1, <2>1, Values DEF Base, ClientTyped, PortTyped, Room, inet
  <2> QED
    BY <1>1, <2>1, <2>2, ClientBase DEF stream, server
<1> QED
  BY <1>6, <1>7, <1>8, <1>9, <1>10, <1>11, <1>12 DEF Calls

\* A turn of the search for a port.
LEMMA BindBase == ASSUME Base, BindUntilSuccess PROVE Base'
<1>1. /\ call \in Places /\ sb \in Sockets /\ n \in 0 .. MaxCmds /\ MaxCmds \in Nat
      /\ asked \in Seq(Cmds) /\ data \in Ends /\ out \in Outcomes /\ Room /\ PortTyped
  BY FtpAssumption DEF Base, ClientTyped, ServerTyped
<1>2. call.at = "bind" /\ UNCHANGED <<stream, reply, kept, fate, server, n, tidy>>
  BY DEF BindUntilSuccess
<1>3. Width \in Nat /\ Width > 1 /\ Min(Reserved) \in 1 .. Width - 1
  BY PortNumbers
<1>4. CASE /\ \E p \in Bindable(portno) : sb' = [st |-> "bound", port |-> p]
           /\ portno' = portno
           /\ call' = At(call, "useraddr") /\ UNCHANGED <<out, data>>
  <2>1. Bindable(portno) \subseteq 0 .. Width - 1
    <3>1. portno \in Nat
      BY <1>1, <1>3 DEF PortTyped
    <3> QED
      BY <1>3, <3>1, SinPort DEF Bindable, Ports
  <2>2. sb' \in Sockets
    BY <1>4, <2>1 DEF Sockets
  <2>3. call' \in Places /\ call'.op = call.op /\ call'.at = "useraddr"
    BY <1>1, <1>4, Values
  <2>4. call.op \in DOMAIN Transfers /\ n + 1 < MaxCmds /\ call.op # "none"
    BY <1>1, <1>2 DEF Room
  <2>5. Room'
    BY <1>2, <2>3, <2>4, RoomOf DEF Moving
  <2>6. ClientTyped' /\ PortTyped'
    BY <1>1, <1>2, <1>4, <2>2, <2>3 DEF Base, ClientTyped, PortTyped
  <2> QED
    BY <1>1, <1>2, <1>4, <2>5, <2>6, ClientBase DEF stream, server
<1>5. CASE /\ "EADDRINUSE" \in BindErrors(portno)
           /\ portno' = portno + 1
           /\ UNCHANGED <<call, out, data>> /\ sb' = sb
  <2>1. PortTyped'
    BY <1>1, <1>5, SearchEnds DEF PortTyped
  <2>2. ClientTyped' /\ Room'
    BY <1>1, <1>2, <1>5 DEF Base, ClientTyped, Room
  <2> QED
    BY <1>1, <1>2, <1>5, <2>1, <2>2, ClientBase DEF stream, server
<1>6. CASE portno' = 0 /\ Leave(Err)
  <2>1. call' = Idle /\ call' \in Places /\ out' = Err /\ sb' \in Sockets /\ data' \in Ends
    BY <1>6, LeaveTyped, Values
  <2>2. out' \in Outcomes
    BY <2>1, Values
  <2>3. Room'
    BY <2>1, RoomOf
  <2>4. ClientTyped' /\ PortTyped'
    BY <1>2, <1>3, <1>6, <2>1, <2>2 DEF Base, ClientTyped, PortTyped
  <2> QED
    BY <1>1, <1>2, <2>1, <2>3, <2>4, ClientBase DEF stream, server
<1> QED
  BY <1>4, <1>5, <1>6 DEF BindUntilSuccess, BindTurn

\* The PORT of ftpdata.
LEMMA UserAddrBase == ASSUME Base, UserAddrOfSb PROVE Base'
<1>1. /\ call \in Places /\ sb \in Sockets /\ n \in 0 .. MaxCmds /\ MaxCmds \in Nat
      /\ asked \in Seq(Cmds) /\ data \in Ends /\ out \in Outcomes /\ Room
  BY FtpAssumption DEF Base, ClientTyped, ServerTyped
<1>2. call.at = "useraddr" /\ UNCHANGED <<stream, reply, fate, srv, dport>> /\ portno' = 0
  BY DEF UserAddrOfSb
<1>3. Width \in Nat /\ Width > 1 /\ Min(Reserved) \in 1 .. Width - 1
  BY PortNumbers
<1>4. PortTyped'
  BY <1>2, <1>3 DEF PortTyped
<1>5. CASE send_cmd("PORT", PortArg, At(call, "PORT"), sb)
  <2>1. PortArg \in 0 .. Width - 1
    <3>1. sb.port \in 0 .. Width - 1
      BY <1>1 DEF Sockets
    <3> QED
      BY <3>1, PortArgIs
  <2>2. n + 1 < MaxCmds /\ n < MaxCmds /\ call.op \in DOMAIN Transfers /\ call.op # "none"
    BY <1>1, <1>2 DEF Room
  <2>3. At(call, "PORT") \in Places /\ At(call, "PORT").op = call.op /\ At(call, "PORT").at = "PORT"
    <3>1. "PORT" \in Responses
      BY DEF Responses
    <3> QED
      BY <1>1, <3>1, Values
  <2>4. /\ n' = n + 1 /\ n' \in 0 .. MaxCmds
        /\ asked' \in Seq(Cmds) /\ kept' \in Seq(Cmds)
        /\ call' \in Places /\ (call' = At(call, "PORT") \/ call' = Idle)
        /\ out' \in Outcomes /\ sb' \in Sockets /\ data' \in Ends /\ tidy' \in BOOLEAN
    <3>1. "PORT" \in Verbs
      BY DEF Verbs
    <3> QED
      BY <1>1, <1>5, <2>1, <2>2, <2>3, <3>1, SendCmdTyped
  <2>5. Room'
    <3>1. CASE call' = Idle
      BY <3>1, RoomOf
    <3>2. CASE call' = At(call, "PORT")
      BY <2>2, <2>3, <2>4, <3>2, RoomOf DEF Moving
    <3> QED
      BY <2>4, <3>1, <3>2
  <2>6. ClientTyped'
    BY <1>2, <2>4 DEF Base, ClientTyped
  <2> QED
    BY <1>2, <1>4, <2>4, <2>5, <2>6, ClientBase DEF stream
<1>6. CASE Leave(Err) /\ UNCHANGED <<kept, asked, n, tidy>>
  <2>1. call' = Idle /\ call' \in Places /\ out' = Err /\ sb' \in Sockets /\ data' \in Ends
    BY <1>6, LeaveTyped, Values
  <2>2. out' \in Outcomes
    BY <2>1, Values
  <2>3. Room'
    BY <2>1, RoomOf
  <2>4. ClientTyped'
    BY <1>2, <1>6, <2>1, <2>2 DEF Base, ClientTyped
  <2> QED
    BY <1>1, <1>2, <1>4, <1>6, <2>1, <2>3, <2>4, ClientBase DEF stream
<1> QED
  BY <1>5, <1>6 DEF UserAddrOfSb

\* An err in the middle of a call.
LEMMA ThrowBase ==
  ASSUME Base, Throw, UNCHANGED <<stream, portno, reply, fate, srv, dport>>
  PROVE  Base'
<1>1. ClientTyped' /\ data' \in Ends /\ Room' /\ asked' = asked
  BY ThrowTyped
<1>2. asked' \in Seq(Cmds) /\ PortTyped'
  BY <1>1 DEF Base, ServerTyped, PortTyped
<1> QED
  BY <1>1, <1>2, ClientBase DEF stream

\* A transfer over the data connection.
LEMMA DataBase == ASSUME Base, Accept \/ DownFails \/ UpDone \/ UpFails PROVE Base'
<1>1. /\ call \in Places /\ sb \in Sockets /\ n \in 0 .. MaxCmds /\ MaxCmds \in Nat
      /\ asked \in Seq(Cmds) /\ data \in Ends /\ out \in Outcomes /\ Room /\ PortTyped
  BY FtpAssumption DEF Base, ClientTyped, ServerTyped
<1>2. ASSUME call.at \in Moving, NEW at \in {"up", "down", "final"}, call' = At(call, at),
             data' \in Ends, UNCHANGED <<stream, inet, reply, out, kept, fate, server, n, tidy>>
      PROVE  Base'
  <2>1. at \in Responses \cup {"no", "bind", "useraddr", "accept", "down", "up"}
    BY DEF Responses
  <2>2. call' \in Places /\ call'.op = call.op /\ call'.at = at
    BY <1>1, <1>2, <2>1, Values
  <2>3. call.op \in DOMAIN Transfers /\ call.op # "none"
    BY <1>1, <1>2 DEF Room, Moving
  <2>4. Room'
    BY <2>2, <2>3, RoomOf
  <2>5. ClientTyped' /\ PortTyped'
    BY <1>1, <1>2, <2>2 DEF Base, ClientTyped, PortTyped, inet
  <2> QED
    BY <1>1, <1>2, <2>4, <2>5, ClientBase DEF stream, server
<1>3. CASE Accept
  <2>1. call.at = "accept" /\ UNCHANGED <<stream, portno, reply, fate, srv, dport>>
    BY <1>3 DEF Accept
  <2>2. CASE Throw
    BY <2>1, <2>2, ThrowBase
  <2>3. CASE /\ data' = [data EXCEPT !.us = "accepted"]
             /\ call' = At(call, IF call.op = "putfile" THEN "up" ELSE "down")
             /\ UNCHANGED <<kept, asked, n, sb, out, tidy>>
    <3>1. PICK at \in {"up", "down", "final"} : at = IF call.op = "putfile" THEN "up" ELSE "down"
      OBVIOUS
    <3>2. data' \in Ends
      BY <1>1, <2>3 DEF Ends
    <3>3. call' = At(call, at) /\ call.at \in Moving
      BY <2>1, <2>3, <3>1 DEF Moving
    <3> QED
      BY <1>2, <2>1, <2>3, <3>2, <3>3 DEF inet, server
  <2> QED
    BY <1>3, <2>2, <2>3 DEF Accept, accept
<1>4. CASE DownFails
  BY <1>4, ThrowBase DEF DownFails
<1>5. CASE UpDone
  <2>1. data' \in Ends
    BY <1>1, <1>5 DEF UpDone, Ends
  <2> QED
    BY <1>2, <1>5, <2>1 DEF UpDone, Moving
<1>6. CASE UpFails
  <2>1. call.at = "up" /\ UNCHANGED <<stream, portno, reply, srv, dport>>
    BY <1>6 DEF UpFails
  <2>2. CASE Throw /\ fate' = fate
    BY <2>1, <2>2, ThrowBase
  <2>3. CASE fate' = "terminated" /\ Leave(Nothing) /\ UNCHANGED <<tidy, kept, asked, n>>
    <3>1. call' = Idle /\ call' \in Places /\ out' = Nothing /\ sb' \in Sockets /\ data' \in Ends
      BY <2>3, LeaveTyped, Values
    <3>2. out' \in Outcomes
      BY <3>1, Values
    <3>3. Room'
      BY <3>1, RoomOf
    <3>4. ClientTyped' /\ PortTyped'
      BY <1>1, <2>1, <2>3, <3>1, <3>2 DEF Base, ClientTyped, PortTyped
    <3> QED
      BY <1>1, <2>1, <2>3, <3>1, <3>3, <3>4, ClientBase DEF stream
  <2> QED
    BY <1>6, <2>2, <2>3 DEF UpFails
<1> QED
  BY <1>3, <1>4, <1>5, <1>6

\* What a read takes of the flight, and leaves.
LEMMA RefillTyped ==
  ASSUME StreamTyped, Refill
  PROVE  StreamTyped' /\ area' \o flight' = area \o flight /\ area = <<>> /\ link' = link
<1>1. PICK k \in 1 .. Len(flight) :
        area' = SubSeq(flight, 1, k) /\ flight' = SubSeq(flight, k + 1, Len(flight))
  BY DEF Refill
<1>2. flight \in Seq(CharSet) /\ Len(flight) \in Nat /\ k \in 0 .. Len(flight)
  BY LenProperties DEF StreamTyped
<1>3. area' \in Seq(CharSet) /\ flight' \in Seq(CharSet)
  BY <1>1, <1>2, Prefix, Rest
<1>4. area' \o flight' = flight
  BY <1>1, <1>2, CutAndJoin
<1>5. area = <<>> /\ link' = link
  BY DEF Refill
<1>6. area \o flight = flight
  BY <1>2, <1>5, ConcatEmptySeq
<1> QED
  BY <1>3, <1>4, <1>5, <1>6 DEF StreamTyped

\* What a turn of the loop consumes.
LEMMA ConsumedIs ==
  ASSUME StreamTyped, Len(area) >= 5
  PROVE  /\ area # <<>> /\ Len(area) \in Nat /\ Head(area) = area[1] /\ area[1] \in CharSet
         /\ (IF CRLFs = {} THEN Len(area) ELSE Min(CRLFs)) \in 1 .. Len(area)
<1>1. Len(area) \in Nat /\ area \in Seq(CharSet)
  BY LenProperties DEF StreamTyped
<1>2. area # <<>>
  BY <1>1, EmptySeq
<1>3. area[1] \in CharSet /\ Head(area) = area[1]
  BY <1>1, <1>2, ElementOfSeq
<1>4. CRLFs # {} => Min(CRLFs) \in CRLFs
  <2> SUFFICES ASSUME CRLFs # {} PROVE Min(CRLFs) \in CRLFs
    OBVIOUS
  <2>1. CRLFs \in SUBSET Nat
    BY <1>1 DEF CRLFs
  <2>2. \E x \in CRLFs : \A y \in CRLFs : x <= y
    BY <2>1, Least
  <2> QED
    BY <2>2 DEF Min
<1>5. CRLFs \subseteq 1 .. Len(area)
  BY <1>1 DEF CRLFs
<1>6. CRLFs # {} => Min(CRLFs) \in 1 .. Len(area)
  BY <1>4, <1>5
<1>7. Len(area) \in 1 .. Len(area)
  BY <1>1
<1> QED
  BY <1>1, <1>2, <1>3, <1>6, <1>7

\* get_response.
LEMMA ResponseBase ==
  ASSUME Base, ResponseRefill \/ ResponseLine \/ ResponseEof \/ ResponseFails PROVE Base'
<1>1. /\ call \in Places /\ sb \in Sockets /\ n \in 0 .. MaxCmds /\ MaxCmds \in Nat
      /\ asked \in Seq(Cmds) /\ data \in Ends /\ out \in Outcomes /\ Room /\ PortTyped
      /\ reply \in Replies /\ StreamTyped /\ ServerTyped /\ Ended /\ tidy \in BOOLEAN
  BY FtpAssumption DEF Base, ClientTyped, ServerTyped
<1>2. CASE ResponseRefill
  <2>1. /\ Refill /\ tidy' \in BOOLEAN
        /\ UNCHANGED <<inet, client, data, server, n>>
    BY <1>2 DEF ResponseRefill
  <2>2. StreamTyped' /\ link' = link
    BY <1>1, <2>1, RefillTyped
  <2>3. ClientTyped' /\ PortTyped' /\ ServerTyped' /\ Room' /\ Ended'
    BY <2>1, <2>2 DEF Base, ClientTyped, PortTyped, ServerTyped, Room, Ended, inet, client, server
  <2> QED
    BY <2>2, <2>3 DEF Base
<1>3. CASE ResponseLine
  <2>1. Len(area) >= 5 /\ UNCHANGED <<flight, link, portno, fate, srv, dport>>
    BY <1>3 DEF ResponseLine
  <2>2. PICK q, i : q = Head(area) /\ i = IF CRLFs = {} THEN Len(area) ELSE Min(CRLFs)
    OBVIOUS
  <2>3. q \in CharSet /\ i \in 1 .. Len(area) /\ Len(area) \in Nat
    BY <1>1, <2>1, <2>2, ConsumedIs
  <2>4. area' = SubSeq(area, i + 1, Len(area))
    BY <1>3, <2>2 DEF ResponseLine
  <2>5. StreamTyped'
    <3>1. i \in 0 .. Len(area)
      BY <2>3
    <3>2. area' \in Seq(CharSet)
      BY <1>1, <2>4, <3>1, Rest DEF StreamTyped
    <3> QED
      BY <1>1, <2>1, <3>2 DEF StreamTyped
  <2>6. ASSUME ClientTyped', data' \in Ends, asked' \in Seq(Cmds), Room' PROVE Base'
    <3>1. PortTyped' /\ ServerTyped' /\ Ended'
      BY <1>1, <2>1, <2>6 DEF PortTyped, ServerTyped, Ended
    <3> QED
      BY <2>5, <2>6, <3>1 DEF Base
  <2>7. CASE /\ call.firstline
             /\ \E c \in Codes(q), ends \in EndsReply(q) :
                  LET r == [code |-> c, id |-> IF HasCode(q) THEN q.line.id ELSE 0,
                            part |-> IF HasCode(q) THEN q.line.part ELSE "none"]
                  IN  /\ reply' = r
                      /\ \/ ends /\ Got(r)
                         \/ /\ ~ends
                            /\ call' = [call EXCEPT !.firstline = FALSE]
                            /\ UNCHANGED <<out, sb, data, kept, asked, n, tidy>>
    <3>1. PICK c, r :
            /\ c \in Codes(q)
            /\ r = [code |-> c, id |-> IF HasCode(q) THEN q.line.id ELSE 0,
                    part |-> IF HasCode(q) THEN q.line.part ELSE "none"]
            /\ reply' = r
            /\ \/ Got(r)
               \/ /\ call' = [call EXCEPT !.firstline = FALSE]
                  /\ UNCHANGED <<out, sb, data, kept, asked, n, tidy>>
      BY <2>7
    <3>2. r \in Replies
      <4>1. q.line \in Lines
        BY <2>3 DEF CharSet
      <4>2. q.line.code \in 0 .. 9 /\ q.line.id \in Nat /\ q.line.part \in Parts
        BY <4>1 DEF Lines
      <4>3. c \in 0 .. 9
        BY <3>1, <4>2 DEF Codes
      <4> QED
        BY <3>1, <4>2, <4>3 DEF Replies
    <3>3. CASE Got(r)
      <4>1. reply' \in Replies /\ fate' = fate
        BY <2>1, <3>1, <3>2
      <4> QED
        BY <2>6, <3>2, <3>3, <4>1, GotTyped
    <3>4. CASE /\ call' = [call EXCEPT !.firstline = FALSE]
               /\ UNCHANGED <<out, sb, data, kept, asked, n, tidy>>
      <4>1. call' \in Places /\ call'.op = call.op /\ call'.at = call.at
        BY <1>1, <3>4 DEF Places
      <4>2. Room'
        BY <1>1, <3>4, <4>1 DEF Room
      <4>3. ClientTyped'
        BY <2>1, <3>1, <3>2, <3>4, <4>1 DEF Base, ClientTyped
      <4> QED
        BY <1>1, <2>6, <3>4, <4>2, <4>3
    <3> QED
      BY <3>1, <3>3, <3>4
  <2>8. CASE Got(reply) /\ reply' = reply
    <3>1. reply' \in Replies /\ fate' = fate
      BY <1>1, <2>1, <2>8
    <3> QED
      BY <1>1, <2>6, <2>8, <3>1, GotTyped
  <2>9. CASE UNCHANGED <<call, reply, out, sb, data, kept, asked, n, tidy>>
    <3>1. ClientTyped' /\ Room'
      BY <2>1, <2>9 DEF Base, ClientTyped, Room
    <3> QED
      BY <1>1, <2>6, <2>9, <3>1
  <2> QED
    BY <1>3, <2>2, <2>7, <2>8, <2>9 DEF ResponseLine
<1>4. CASE ResponseEof
  <2>1. Got(reply) /\ UNCHANGED <<stream, portno, reply, fate, srv, dport>>
    BY <1>4 DEF ResponseEof
  <2>2. ClientTyped' /\ data' \in Ends /\ asked' \in Seq(Cmds) /\ Room'
    BY <1>1, <2>1, GotTyped
  <2>3. PortTyped'
    BY <1>1, <2>1 DEF PortTyped
  <2> QED
    BY <2>1, <2>2, <2>3, ClientBase DEF stream
<1>5. CASE ResponseFails
  BY <1>5, ThrowBase DEF ResponseFails
<1> QED
  BY <1>2, <1>3, <1>4, <1>5

\* What the server says.
LEMMA SaysTyped ==
  ASSUME StreamTyped, NEW id \in Nat, NEW part \in Parts, NEW codes \in SUBSET (0 .. 9),
         part # "final" => \A c \in codes : c < rca_error, Says(id, part, codes)
  PROVE  /\ flight' \in Seq(CharSet)
         /\ \E c \in codes, r \in Seq(CharSet) :
              flight' = flight \o r /\ IsReply(r, id, part, c)
<1>1. PICK c, kinds : /\ c \in codes /\ kinds \in {Single, <<"first", "mid", "last">>}
                      /\ Writes(Reply(id, part, c, kinds))
  BY DEF Says
<1>2. PICK r : r = Reply(id, part, c, kinds)
  OBVIOUS
<1>3. IsReply(r, id, part, c)
  <2>1. c \in 0 .. 9 /\ (part # "final" => c < rca_error)
    BY <1>1
  <2>2. kinds \in {Single, <<"first", "mid", "last">>}
    BY <1>1
  <2> QED
    BY <1>2, <2>1, <2>2, ReplyIs
<1>4. flight' = flight \o r
  BY <1>1, <1>2 DEF Writes
<1>5. flight' \in Seq(CharSet)
  BY <1>3, <1>4, ConcatProperties DEF StreamTyped, IsReply
<1>6. r \in Seq(CharSet)
  BY <1>3 DEF IsReply
<1> QED
  BY <1>1, <1>3, <1>4, <1>5, <1>6

\* The server.
LEMMA ServerStepBase ==
  ASSUME Base, \/ Greets \/ Serves \/ Announces \/ DataConnects \/ Completes
               \/ CompletesUnread \/ Aborts \/ Closes
  PROVE  Base'
<1>1. StreamTyped /\ ServerTyped /\ Ended
  BY DEF Base
<1> DEFINE States == {"greet", "idle", "begin", "told", "linked", "moving"}
<1>2. ASSUME NEW st \in States, Becomes(st)
      PROVE  /\ srv' \in [st : States, id : Nat, verb : Verbs \cup {"none"}]
             /\ srv'.st = st /\ srv'.id = srv.id
  BY <1>1, <1>2 DEF Becomes, ServerTyped
<1>3. srv.id \in Nat /\ link \in {"none", "open", "fin"} /\ data \in Ends
  BY <1>1 DEF ServerTyped, StreamTyped
<1>4. ASSUME NEW id \in Nat, NEW part \in Parts, NEW codes \in {{1}, {2}, {3}, {4}, {5}},
             part # "final" => codes \in {{1}, {3}}, Says(id, part, codes)
      PROVE  flight' \in Seq(CharSet)
  <2>1. codes \in SUBSET (0 .. 9) /\ (part # "final" => \A c \in codes : c < rca_error)
    BY <1>4 DEF rca_error
  <2> QED
    BY <1>1, <1>4, <2>1, SaysTyped
<1>5. CASE Greets
  <2>1. /\ link = "open" /\ Says(0, "final", {2}) /\ Becomes("idle")
        /\ UNCHANGED <<area, link, inet, client, data, asked, dport, n, tidy>>
    BY <1>5 DEF Greets
  <2>2. flight' \in Seq(CharSet)
    BY <1>4, <2>1 DEF Parts
  <2>3. StreamTyped' /\ ServerTyped' /\ Ended'
    BY <1>1, <1>2, <2>1, <2>2 DEF StreamTyped, ServerTyped, Ended
  <2> QED
    BY <2>1, <2>3, ServerBase
<1>6. CASE Serves
  <2>1. /\ link = "open" /\ srv.st = "idle" /\ asked # <<>> /\ asked' = Tail(asked)
        /\ UNCHANGED <<area, inet, client, data, n, tidy>>
    BY <1>6 DEF Serves
  <2>2. asked \in Seq(Cmds) /\ asked' \in Seq(Cmds)
    BY <1>1, <2>1, HeadTailProperties DEF ServerTyped
  <2>3. PICK c : c = Head(asked)
    OBVIOUS
  <2>4. c \in Cmds
    BY <2>1, <2>2, <2>3, HeadTailProperties
  <2>5. c.id \in Nat /\ c.verb \in Verbs /\ c.port \in 0 .. Width - 1
    BY <2>4 DEF Cmds
  <2>6. ASSUME NEW st \in {"idle", "begin"}, srv' = [st |-> st, id |-> c.id, verb |-> c.verb],
               flight' \in Seq(CharSet),
               link' = link \/ (link' = "fin" /\ st = "idle"),
               dport' = dport \/ dport' = [port |-> c.port, id |-> c.id]
        PROVE  Base'
    <3>1. StreamTyped'
      BY <1>1, <2>1, <2>6 DEF StreamTyped
    <3>2. ServerTyped'
      BY <1>1, <2>1, <2>2, <2>5, <2>6 DEF ServerTyped
    <3>3. Ended'
      BY <2>1, <2>6 DEF Ended
    <3> QED
      BY <2>1, <3>1, <3>2, <3>3, ServerBase
  <2>7. CASE /\ Says(c.id, "final", {5})
             /\ srv' = [st |-> "idle", id |-> c.id, verb |-> c.verb] /\ UNCHANGED <<link, dport>>
    BY <1>4, <2>5, <2>6, <2>7 DEF Parts
  <2>8. CASE /\ Says(c.id, "final", {2})
             /\ srv' = [st |-> "idle", id |-> c.id, verb |-> c.verb]
             /\ link' = IF c.verb = "QUIT" THEN "fin" ELSE link
             /\ dport' = IF c.verb = "PORT" THEN [port |-> c.port, id |-> c.id] ELSE dport
    BY <1>4, <2>5, <2>6, <2>8 DEF Parts
  <2>9. CASE /\ Says(c.id, "inter", {3})
             /\ srv' = [st |-> "idle", id |-> c.id, verb |-> c.verb] /\ UNCHANGED <<link, dport>>
    BY <1>4, <2>5, <2>6, <2>9 DEF Parts
  <2>10. CASE /\ srv' = [st |-> "begin", id |-> c.id, verb |-> c.verb]
              /\ UNCHANGED <<flight, link, dport>>
    BY <1>1, <2>6, <2>10 DEF StreamTyped
  <2> QED
    BY <1>6, <2>3, <2>7, <2>8, <2>9, <2>10 DEF Serves
<1>7. CASE Announces
  <2>1. /\ srv.st \in {"begin", "linked"} /\ Says(srv.id, "prelim", {1})
        /\ Becomes(IF srv.st = "begin" THEN "told" ELSE "moving")
        /\ UNCHANGED <<area, link, inet, client, data, asked, dport, n, tidy>>
    BY <1>7 DEF Announces
  <2>2. flight' \in Seq(CharSet)
    BY <1>3, <1>4, <2>1 DEF Parts
  <2>3. StreamTyped' /\ ServerTyped' /\ Ended'
    BY <1>1, <1>2, <2>1, <2>2 DEF StreamTyped, ServerTyped, Ended
  <2> QED
    BY <2>1, <2>3, ServerBase
<1>8. CASE DataConnects
  <2>1. /\ srv.st \in {"begin", "told"}
        /\ UNCHANGED <<area, link, inet, client, asked, dport, n, tidy>>
    BY <1>8 DEF DataConnects
  <2>2. CASE /\ data' = [us |-> "backlog", them |-> "open"]
             /\ Becomes(IF srv.st = "begin" THEN "linked" ELSE "moving")
             /\ flight' = flight
    <3>1. data' \in Ends
      BY <2>2 DEF Ends
    <3>2. StreamTyped' /\ ServerTyped' /\ Ended'
      BY <1>1, <1>2, <2>1, <2>2, <3>1 DEF StreamTyped, ServerTyped, Ended
    <3> QED
      BY <2>1, <3>2, ServerBase
  <2>3. CASE Says(srv.id, "final", {4}) /\ Becomes("idle") /\ data' = data
    <3>1. flight' \in Seq(CharSet)
      BY <1>3, <1>4, <2>3 DEF Parts
    <3>2. StreamTyped' /\ ServerTyped' /\ Ended'
      BY <1>1, <1>2, <2>1, <2>3, <3>1 DEF StreamTyped, ServerTyped, Ended
    <3> QED
      BY <2>1, <3>2, ServerBase
  <2> QED
    BY <1>8, <2>2, <2>3 DEF DataConnects
<1>9. ASSUME NEW them \in {"eof", "reset"}, NEW code \in {{2}, {4}},
             data' = [data EXCEPT !.them = them], Says(srv.id, "final", code),
             Becomes("idle"), UNCHANGED <<area, link, inet, client, asked, dport, n, tidy>>
      PROVE  Base'
  <2>1. flight' \in Seq(CharSet)
    BY <1>3, <1>4, <1>9 DEF Parts
  <2>2. data' \in Ends
    BY <1>3, <1>9 DEF Ends
  <2>3. StreamTyped' /\ ServerTyped' /\ Ended'
    BY <1>1, <1>2, <1>9, <2>1, <2>2 DEF StreamTyped, ServerTyped, Ended
  <2> QED
    BY <1>9, <2>3, ServerBase
<1>10. CASE Completes
  BY <1>9, <1>10 DEF Completes
<1>11. CASE CompletesUnread
  BY <1>9, <1>11 DEF CompletesUnread
<1>12. CASE Aborts
  BY <1>9, <1>12 DEF Aborts
<1>13. CASE Closes
  <2>1. /\ srv.st = "idle" /\ link' = "fin"
        /\ UNCHANGED <<area, flight, inet, client, data, server, n, tidy>>
    BY <1>13 DEF Closes
  <2>2. StreamTyped' /\ ServerTyped' /\ Ended'
    BY <1>1, <2>1 DEF StreamTyped, ServerTyped, Ended, server
  <2> QED
    BY <2>1, <2>2, ServerBase
<1> QED
  BY <1>5, <1>6, <1>7, <1>8, <1>10, <1>11, <1>12, <1>13

\* Every step keeps the types.
LEMMA StepBase == ASSUME Base, [Next]_vars PROVE Base'
<1>1. CASE UNCHANGED vars
  BY <1>1 DEF Base, StreamTyped, ClientTyped, PortTyped, ServerTyped, Room, Ended, vars
<1>2. CASE Next
  <2>1. \/ Calls \/ BindUntilSuccess \/ UserAddrOfSb \/ DownAgain
        \/ Accept \/ DownFails \/ UpDone \/ UpFails
        \/ ResponseRefill \/ ResponseLine \/ ResponseEof \/ ResponseFails
        \/ Greets \/ Serves \/ Announces \/ DataConnects \/ Completes
        \/ CompletesUnread \/ Aborts \/ Closes
    BY <1>2 DEF Next, Proceeds, Fails, Server, ServerMay
  <2>2. DownAgain => UNCHANGED vars
    BY DEF DownAgain
  <2> QED
    BY <1>1, <2>1, <2>2, CallsBase, BindBase, UserAddrBase, DataBase, ResponseBase, ServerStepBase
<1> QED
  BY <1>1, <1>2

\* In the beginning the types are there.
LEMMA InitBase == Init => Base
<1> SUFFICES ASSUME Init PROVE Base
  OBVIOUS
<1>1. Width \in Nat /\ Width > 1 /\ Min(Reserved) \in 1 .. Width - 1 /\ MaxCmds \in Nat
  BY PortNumbers, FtpAssumption
<1>2. StreamTyped
  <2>1. <<>> \in Seq(CharSet)
    BY EmptySeq
  <2> QED
    BY <2>1 DEF Init, StreamInit, StreamTyped
<1>3. ClientTyped
  <2>1. <<>> \in Seq(Cmds)
    BY EmptySeq
  <2>2. reply \in Replies
    BY DEF Init, Replies
  <2> QED
    BY <1>1, <2>1, <2>2, Values DEF Init, InetInit, ClientTyped
<1>4. PortTyped
  BY <1>1 DEF Init, InetInit, PortTyped
<1>5. ServerTyped
  <2>1. <<>> \in Seq(Cmds)
    BY EmptySeq
  <2> QED
    BY <1>1, <2>1 DEF Init, ServerTyped, Ends
<1>6. Room /\ Ended
  BY DEF Init, Idle, StreamInit, Room, Ended, Moving
<1> QED
  BY <1>2, <1>3, <1>4, <1>5, <1>6 DEF Base

\* Type correctness.
LEMMA BaseTypes == Base => TypeOK
<1> SUFFICES ASSUME Base PROVE TypeOK
  OBVIOUS
<1>1. \A i \in 1 .. Len(area) : area[i].at \in 1 .. Length(area[i].line)
  <2> TAKE i \in 1 .. Len(area)
  <2>1. area[i] \in CharSet
    BY ElementOfSeq DEF Base, StreamTyped
  <2>2. Length(area[i].line) \in {4, 6}
    BY DEF Length
  <2> QED
    BY <2>1, <2>2 DEF CharSet
<1> QED
  BY <1>1 DEF TypeOK, Base, StreamTyped, ClientTyped, PortTyped, ServerTyped,
              Sockets, Places, Replies, Outcomes, Ends

------------------------------------------------------------------------------
(* The phases of a conversation: while the client is tidy and neither side *)
(* has ended, the place of the call, the commands on their way, what the   *)
(* server does and the chars on their way belong together.                 *)

Coming == area \o flight
Fore == Coming[1].line
Aft == Coming[Len(Coming)].line
Sane == tidy /\ link # "fin" /\ fate = "open"

\* The chars on their way are whole lines of replies to the latest command.
Stream ==
  /\ Whole(Coming) /\ Linked(Coming, Order) /\ Whole(area)
  /\ Coming # <<>> => Aft.kind \in {"only", "last"}
  /\ \A i \in 1 .. Len(Coming) : Coming[i].line.id = n

\* Before the greeting has been read nothing is asked.
Before ==
  /\ kept = <<>>
  /\ srv.st = "greet" => Coming = <<>> /\ ~Greeted
  /\ ~Greeted => /\ n = 0 /\ asked = <<>> /\ srv.st \in {"greet", "idle"}
                 /\ call.at \in {"no", "reply", "bind", "useraddr"}
                 /\ call.firstline

\* A command on its way is the only one, and the call waits for its reply.
Asking ==
  asked # <<>> =>
    /\ Len(asked) = 1 /\ asked[1].id = n /\ Coming = <<>> /\ srv.st = "idle"
    /\ call.at \in {"reply", "RNFR", "PORT", "transfer"} /\ call.firstline
    /\ call.at = "RNFR" <=> asked[1].verb = "RNFR"
    /\ call.at = "transfer" <=> asked[1].verb \in {"RETR", "LIST", "STOR"}
    /\ call.at = "PORT" => asked[1].verb = "PORT" /\ asked[1].port = sb.port
    /\ dport.id < n

\* A transfer in progress is that of the latest command; the call waits for
\* its 150 until it has been read.
Serving ==
  srv.st \notin {"greet", "idle"} =>
    /\ asked = <<>> /\ srv.id = n
    /\ srv.st \in {"begin", "linked"} =>
         Coming = <<>> /\ call.at = "transfer" /\ call.firstline
    /\ srv.st \in {"told", "moving"} =>
         IF Coming = <<>> THEN call.at \in Moving \cup {"final"}
         ELSE /\ call.at = "transfer"
              /\ \A i \in 1 .. Len(Coming) : Coming[i].line.part = "prelim"

\* The reply on its way is one that the call waits for, and where the call is
\* within it, replycode is the reply's.
Answered ==
  Coming # <<>> =>
    /\ asked = <<>>
    /\ call.firstline => Fore.kind \in {"only", "first"}
    /\ ~call.firstline =>
         /\ Fore.kind \in {"mid", "last"}
         /\ reply = [code |-> Fore.code, id |-> Fore.id, part |-> Fore.part]
    /\ call.at \notin {"RNFR", "transfer"} => Fore.part = "final"
    /\ call.at = "RNFR" => Fore.part = "inter" \/ (Fore.part = "final" /\ Fore.code >= rca_error)
    /\ call.at = "transfer" => Fore.part = "prelim" \/ (Fore.part = "final" /\ Fore.code >= rca_error)

\* Between two calls nothing is on its way, and the code of the latest one is
\* that of the latest reply.
Resting ==
  /\ call.at \in {"no", "bind", "useraddr"} =>
       asked = <<>> /\ srv.st \in {"greet", "idle"} /\ (Greeted => Coming = <<>>)
  /\ call.at \notin Responses => call.firstline
  /\ ~call.firstline => Coming # <<>>
  /\ out.kind = "code" => /\ call.op = "none" /\ Greeted
                          /\ reply.id = n /\ reply.part = "final"
                          /\ out.code >= rca_error <=> reply.code >= rca_error

\* The port of the latest PORT that was accepted is that of our socket.
OurPort ==
  /\ dport.id <= n
  /\ call.at \in {"useraddr", "PORT"} => sb.st = "bound"
  /\ call.at = "PORT" /\ asked = <<>> /\ dport.id = n => dport.port = sb.port
  /\ call.at \in {"transfer", "final"} \cup Moving =>
       sb.st = "listening" /\ (dport.id = n - 1 => dport.port = sb.port)

\* The server's end of the data connection.
Linking ==
  /\ call.at \in {"bind", "useraddr", "PORT"} => data.them = "none"
  /\ call.at = "transfer" /\ asked # <<>> => data.them = "none"
  /\ srv.st \in {"begin", "told"} => data.them = "none"
  /\ srv.st \in {"linked", "moving"} => data.them = "open"

Phases == /\ Stream /\ Before /\ Asking /\ Serving /\ Answered /\ Resting
          /\ OurPort /\ Linking

\* A terminated client has left the server with nothing to do.
Over ==
  fate = "terminated" =>
    /\ call = Idle /\ out = Nothing
    /\ tidy /\ link # "fin" => srv.st = "idle" /\ asked = <<>>

IInv == Base /\ Over /\ (Sane => Phases)

\* What a stream holds: its first line and its last.
LEMMA ForeAft ==
  ASSUME Base, Coming # <<>>
  PROVE  /\ Coming \in Seq(CharSet) /\ Len(Coming) \in Nat /\ Len(Coming) > 0
         /\ Coming[1] \in CharSet /\ Coming[Len(Coming)] \in CharSet
         /\ Fore \in Lines /\ Aft \in Lines
<1>1. Coming \in Seq(CharSet)
  BY ConcatProperties DEF Base, StreamTyped, Coming
<1>2. Len(Coming) \in Nat /\ Len(Coming) > 0
  BY <1>1, EmptySeq, LenProperties
<1>3. Coming[1] \in CharSet /\ Coming[Len(Coming)] \in CharSet
  BY <1>1, <1>2, ElementOfSeq
<1> QED
  BY <1>1, <1>2, <1>3 DEF Fore, Aft, CharSet

\* The chars on their way are there when, and only when, one of its two
\* parts is.
LEMMA ComingEmpty ==
  ASSUME Base PROVE Coming = <<>> <=> area = <<>> /\ flight = <<>>
BY JoinParts DEF Base, StreamTyped, Coming

\* What the properties need of the invariant.
LEMMA IInvMeans == IInv => TypeOK /\ InStep /\ DataReachesUs
<1> SUFFICES ASSUME IInv PROVE TypeOK /\ InStep /\ DataReachesUs
  OBVIOUS
<1>1. Base /\ Over /\ (Sane => Phases)
  BY DEF IInv
<1>2. TypeOK
  BY <1>1, BaseTypes
<1>3. fate \in {"open", "terminated"} /\ call \in Places /\ data \in Ends
  BY <1>1 DEF Base, ClientTyped, ServerTyped
<1>4. InStep
  <2> SUFFICES ASSUME out.kind = "code", tidy, link = "open"
               PROVE  /\ reply.id = n /\ reply.part = "final"
                      /\ out.code >= rca_error <=> reply.code >= rca_error
                      /\ area = <<>> /\ flight = <<>>
    BY DEF InStep
  <2>1. fate = "open"
    BY <1>1, <1>3 DEF Over, Nothing
  <2>2. Sane /\ Resting
    BY <1>1, <2>1 DEF Sane, Phases
  <2>3. /\ call.op = "none" /\ Greeted /\ reply.id = n /\ reply.part = "final"
        /\ out.code >= rca_error <=> reply.code >= rca_error
    BY <2>2 DEF Resting
  <2>4. call.at = "no"
    BY <1>1, <2>3 DEF Base, Room
  <2>5. Coming = <<>>
    BY <2>2, <2>3, <2>4 DEF Resting
  <2>6. area = <<>> /\ flight = <<>>
    BY <1>1, <2>5, ComingEmpty
  <2> QED
    BY <2>3, <2>6
<1>5. DataReachesUs
  <2> SUFFICES ASSUME srv.st \in {"begin", "told"}, tidy, dport.id = srv.id - 1
               PROVE  Reaches(dport.port)
    BY DEF DataReachesUs
  <2>1. link # "fin"
    BY <1>1 DEF Base, Ended
  <2>2. fate = "open"
    BY <1>1, <1>3, <2>1 DEF Over
  <2>3. Serving /\ OurPort
    BY <1>1, <2>1, <2>2 DEF Sane, Phases
  <2>4. srv.id = n /\ call.at \in {"transfer", "final"} \cup Moving
    BY <2>3 DEF Serving
  <2> QED
    BY <2>3, <2>4 DEF OurPort, Reaches
<1> QED
  BY <1>2, <1>4, <1>5

\* In the beginning there is nothing on its way.
LEMMA InitIInv == Init => IInv
<1> SUFFICES ASSUME Init PROVE IInv
  OBVIOUS
<1>1. Base
  BY InitBase
<1>2. Over
  BY DEF Init, Over
<1>3. area = <<>> /\ flight = <<>> /\ Coming = <<>>
  BY <1>1, ComingEmpty DEF Init, StreamInit
<1>4. Stream
  <2>1. Len(Coming) = 0 /\ 1 .. 0 = {}
    BY <1>3, EmptySeq
  <2> QED
    BY <1>3, <2>1 DEF Stream, Whole, Linked
<1>5. /\ call = Idle /\ call.at = "no" /\ call.op = "none" /\ call.firstline
      /\ out.kind = "none" /\ kept = <<>> /\ asked = <<>> /\ n = 0 /\ dport.id = 0
      /\ srv.st = "greet" /\ ~Greeted
  BY DEF Init, Idle, Nothing, Greeted
<1>6. Before /\ Asking /\ Serving /\ Answered /\ Resting /\ OurPort /\ Linking
  BY <1>3, <1>5 DEF Before, Asking, Serving, Answered, Resting, OurPort, Linking, Moving
<1> QED
  BY <1>1, <1>2, <1>4, <1>6 DEF IInv, Phases

------------------------------------------------------------------------------
(* The steps keep the phases.                                              *)

\* A step that touches neither the stream nor the number of commands.
LEMMA StreamSame ==
  ASSUME area' = area, flight' = flight, n' = n
  PROVE  /\ Coming' = Coming /\ Fore' = Fore /\ Aft' = Aft
         /\ Stream => Stream'
<1>1. Coming' = Coming
  BY DEF Coming
<1>2. Fore' = Fore /\ Aft' = Aft
  BY <1>1 DEF Fore, Aft
<1> QED
  BY <1>1, <1>2 DEF Stream

\* Nothing on its way is a stream of whole lines.
LEMMA StreamEmpty ==
  ASSUME area' = <<>>, flight' = <<>>
  PROVE  Coming' = <<>> /\ Stream'
<1>1. Coming' = <<>>
  BY ConcatEmptySeq, EmptySeq DEF Coming
<1>2. Len(Coming') = 0 /\ 1 .. 0 = {}
  BY <1>1, EmptySeq
<1> QED
  BY <1>1, <1>2 DEF Stream, Whole, Linked

\* A command is sent when nothing is on its way.
LEMMA Sends ==
  ASSUME Base, Sane, Sane', NEW verb, NEW port, NEW c \in Places, NEW s \in Sockets,
         send_cmd(verb, port, c, s),
         kept = <<>>, asked = <<>>, area' = <<>>, flight' = <<>>, Greeted',
         srv.st = "idle", dport.id <= n, UNCHANGED <<link, srv, dport>>,
         c.op # "none", c.firstline, c.at \in {"reply", "RNFR", "PORT", "transfer"},
         c.at = "RNFR" <=> verb = "RNFR",
         c.at = "transfer" <=> verb \in {"RETR", "LIST", "STOR"},
         c.at = "PORT" => verb = "PORT" /\ s.st = "bound" /\ port = s.port /\ data.them = "none",
         c.at = "transfer" => /\ s.st = "listening" /\ data.them = "none"
                              /\ dport.id = n => dport.port = s.port
  PROVE  Phases'
<1>1. n \in Nat /\ dport.id \in Nat
  BY DEF Base, ClientTyped, ServerTyped
<1>2. PICK cmd : cmd = [id |-> n + 1, verb |-> verb, port |-> port]
  OBVIOUS
<1>3. link = "open" \/ link = "none"
  BY DEF Sane, Base, StreamTyped
<1>4. /\ n' = n + 1 /\ link = "open" /\ asked' = <<>> \o Append(<<>>, cmd)
      /\ kept' = <<>> /\ call' = c /\ out' = Nothing /\ sb' = s /\ data' = data
  BY <1>2, <1>3 DEF send_cmd, Sane
<1>5. Len(asked') = 1 /\ asked'[1] = cmd /\ asked' # <<>>
  <2>1. Append(<<>>, cmd) = <<cmd>> /\ <<>> \o <<cmd>> = <<cmd>>
    OBVIOUS
  <2> QED
    BY <1>4, <2>1
<1>6. Coming' = <<>> /\ Stream'
  BY StreamEmpty
<1>7. Before'
  BY <1>4, <1>6 DEF Before
<1>8. Asking'
  BY <1>1, <1>2, <1>4, <1>5, <1>6 DEF Asking
<1>9. Serving' /\ Answered'
  BY <1>6 DEF Serving, Answered
<1>10. Resting'
  BY <1>4 DEF Resting, Nothing, Responses
<1>11. OurPort'
  BY <1>1, <1>4, <1>5 DEF OurPort, Moving
<1>12. Linking'
  BY <1>4 DEF Linking
<1> QED
  BY <1>6, <1>7, <1>8, <1>9, <1>10, <1>11, <1>12 DEF Phases

\* From one place of rest to another.
LEMMA Rests ==
  ASSUME Base, Phases, call.at \in {"no", "bind", "useraddr"},
         UNCHANGED <<area, flight, reply, kept, asked, srv, dport, n>>,
         call'.at \in {"no", "bind", "useraddr"}, call'.firstline,
         out'.kind # "code",
         call'.at = "useraddr" => sb'.st = "bound",
         call'.at \in {"bind", "useraddr"} => data'.them = "none"
  PROVE  Phases'
<1>1. Coming' = Coming /\ Fore' = Fore /\ Aft' = Aft /\ Stream' /\ (Greeted' <=> Greeted)
  BY StreamSame DEF Phases, Greeted
<1>2. Before'
  BY <1>1 DEF Phases, Before
<1>3. asked = <<>> /\ srv.st \in {"greet", "idle"} /\ (Greeted => Coming = <<>>)
  BY DEF Phases, Resting
<1>4. Asking' /\ Serving' /\ Linking'
  BY <1>3 DEF Asking, Serving, Linking
<1>5. Answered'
  <2>1. ASSUME Coming # <<>> PROVE call.firstline
    BY <1>3, <2>1 DEF Phases, Before
  <2> QED
    BY <1>1, <1>3, <2>1 DEF Phases, Answered
<1>6. Resting'
  BY <1>1, <1>3 DEF Phases, Resting, Responses
<1>7. OurPort'
  BY DEF Phases, OurPort, Moving
<1> QED
  BY <1>1, <1>2, <1>4, <1>5, <1>6, <1>7 DEF Phases

\* The calls.
LEMMA CallsPhases == ASSUME Base, Sane, Phases, Calls, Sane' PROVE Phases'
<1>1. /\ call \in Places /\ sb \in Sockets /\ data \in Ends /\ Room
      /\ call.op = "none" /\ call.at = "no"
  BY DEF Base, ClientTyped, ServerTyped, Room, Calls, Connects, Command, Useraddr,
         GetResponse, Rename, Transfer, NoName, CanCall
<1>2. /\ asked = <<>> /\ srv.st \in {"greet", "idle"} /\ (Greeted => Coming = <<>>)
      /\ call.firstline
  BY <1>1 DEF Phases, Resting, Responses
<1>3. kept = <<>> /\ dport.id <= n /\ (Greeted => srv.st = "idle")
  BY <1>2 DEF Phases, Before, OurPort
<1>4. \A op \in {"get", "command", "rename"} \cup DOMAIN Transfers, at \in Responses \cup {"bind"} :
        /\ Calling(op, at) \in Places /\ Calling(op, at).firstline
        /\ Calling(op, at).op = op /\ Calling(op, at).at = at /\ op # "none"
  <2>1. "none" \notin DOMAIN Transfers
    BY TransfersAre
  <2> QED
    BY <2>1 DEF Calling, Places
<1>5. ASSUME NEW verb \in Verbs \ {"RETR", "LIST", "STOR"}, NEW port, NEW op \in {"command", "rename"},
             NEW at \in {"reply", "RNFR"}, at = "RNFR" <=> verb = "RNFR",
             send_cmd(verb, port, Calling(op, at), NoSocket),
             UNCHANGED <<stream, reply, srv, dport>>
      PROVE  Phases'
  <2>1. PICK c : c = Calling(op, at)
    OBVIOUS
  <2>2. c \in Places /\ c.firstline /\ c.op # "none" /\ c.at = at
    <3>1. at \in Responses \cup {"bind"} /\ op \in {"get", "command", "rename"} \cup DOMAIN Transfers
      BY DEF Responses
    <3> QED
      BY <1>4, <2>1, <3>1
  <2>3. Greeted
    BY <1>5 DEF send_cmd, Sane
  <2>4. area = <<>> /\ flight = <<>>
    BY <1>2, <2>3, ComingEmpty
  <2>5. area' = <<>> /\ flight' = <<>> /\ Greeted' /\ UNCHANGED <<link, srv, dport>>
    BY <1>5, <2>3, <2>4 DEF stream, Greeted
  <2>6. NoSocket \in Sockets
    BY Values
  <2> QED
    BY <1>2, <1>3, <1>5, <2>1, <2>2, <2>3, <2>5, <2>6, Sends DEF Verbs
<1>6. ASSUME call' \in {call, Idle}, out'.kind # "code",
             UNCHANGED <<area, flight, reply, kept, asked, srv, dport, n>>
      PROVE  Phases'
  <2>1. call'.at = "no" /\ call'.firstline
    BY <1>1, <1>2, <1>6 DEF Idle
  <2> QED
    BY <1>1, <1>6, <2>1, Rests
<1>7. CASE Connects
  <2>1. out'.kind # "code" /\ UNCHANGED <<area, flight, call, reply, kept, asked, srv, dport, n>>
    BY <1>7 DEF Connects, Nothing, Err, server
  <2> QED
    BY <1>6, <2>1
<1>8. CASE Command
  <2>1. PICK v \in {Told(verb) : verb \in Session \cup Settings \cup Numbers \cup Paths} :
          send_cmd(v, 0, Calling("command", "reply"), NoSocket)
    BY <1>8 DEF Command
  <2>2. v \in {"QUIT", "other"}
    BY DEF Told
  <2>3. UNCHANGED <<stream, reply, srv, dport>>
    BY <1>8 DEF Command
  <2> QED
    BY <1>5, <2>1, <2>2, <2>3 DEF Verbs
<1>9. CASE Useraddr
  <2>1. UNCHANGED <<stream, reply, srv, dport>>
    BY <1>9 DEF Useraddr
  <2>2. CASE Leave(Err) /\ UNCHANGED <<kept, asked, n, tidy>>
    BY <1>6, <2>1, <2>2 DEF Leave, Err, stream
  <2>3. CASE \E p \in Ports \ (Reserved \cup {First}) :
               send_cmd("PORT", sin_port(p), Calling("command", "reply"), NoSocket)
    BY <1>5, <2>1, <2>3 DEF Verbs
  <2> QED
    BY <1>9, <2>2, <2>3 DEF Useraddr
<1>10. CASE GetResponse
  <2>1. /\ call' = Calling("get", "reply") /\ out' = Nothing
        /\ UNCHANGED <<stream, inet, reply, kept, data, fate, server, n, tidy>>
        /\ ~Greeted
    BY <1>10 DEF GetResponse, Sane
  <2>2. call'.at = "reply" /\ call'.firstline /\ call'.op = "get" /\ out'.kind # "code"
    BY <2>1 DEF Calling, Nothing
  <2>3. Coming' = Coming /\ Fore' = Fore /\ Aft' = Aft /\ Stream' /\ ~Greeted'
    BY <2>1, StreamSame DEF Phases, Greeted, stream
  <2>4. Before'
    BY <2>1, <2>2, <2>3 DEF Phases, Before, server
  <2>5. Asking' /\ Serving'
    BY <1>2, <2>1 DEF Asking, Serving, server
  <2>6. Answered'
    BY <1>1, <1>2, <2>1, <2>2, <2>3 DEF Phases, Answered, server
  <2>7. Resting'
    BY <2>2 DEF Resting, Responses
  <2>8. OurPort' /\ Linking'
    BY <1>2, <2>1, <2>2 DEF Phases, OurPort, Linking, Moving, server
  <2> QED
    BY <2>3, <2>4, <2>5, <2>6, <2>7, <2>8 DEF Phases
<1>11. CASE Rename
  <2>1. /\ UNCHANGED <<stream, reply, srv, dport>>
        /\ send_cmd("RNFR", 0, Calling("rename", "RNFR"), NoSocket)
    BY <1>11 DEF Rename
  <2> QED
    BY <1>5, <2>1 DEF Verbs
<1>12. CASE Transfer
  <2>1. UNCHANGED <<stream, reply, kept, fate, server, n, tidy>>
    BY <1>12 DEF Transfer
  <2>2. CASE Leave(Err)
    BY <1>6, <2>1, <2>2 DEF Leave, Err, stream, server
  <2>3. ASSUME NEW op \in DOMAIN Transfers, call' = Calling(op, "bind"), out' = Nothing,
               data' = [us |-> "none", them |-> "none"]
        PROVE  Phases'
    <3>1. call'.at = "bind" /\ call'.firstline /\ out'.kind # "code" /\ data'.them = "none"
      BY <2>3 DEF Calling, Nothing
    <3> QED
      BY <1>1, <2>1, <3>1, Rests DEF stream, server
  <2> QED
    BY <1>12, <2>2, <2>3 DEF Transfer
<1>13. CASE NoName
  <2>1. out'.kind # "code" /\ UNCHANGED <<area, flight, call, reply, kept, asked, srv, dport, n>>
    BY <1>13 DEF NoName, Refused, stream, server
  <2> QED
    BY <1>6, <2>1
<1> QED
  BY <1>7, <1>8, <1>9, <1>10, <1>11, <1>12, <1>13 DEF Calls

\* A turn of the search for a free port.
LEMMA BindPhases == ASSUME Base, Sane, Phases, BindUntilSuccess, Sane' PROVE Phases'
<1>1. /\ call \in Places /\ sb \in Sockets /\ data \in Ends /\ call.at = "bind"
      /\ UNCHANGED <<stream, reply, kept, fate, server, n, tidy>>
  BY DEF Base, ClientTyped, ServerTyped, BindUntilSuccess
<1>2. call.op # "none" /\ call.firstline /\ data.them = "none" /\ out.kind # "code"
  BY <1>1 DEF Base, Room, Phases, Resting, Linking, Responses
<1>3. UNCHANGED <<area, flight, reply, kept, asked, srv, dport, n>>
  BY <1>1 DEF stream, server
<1>4. CASE call' = At(call, "useraddr") /\ UNCHANGED <<out, data>> /\ sb'.st = "bound"
  <2>1. call'.at = "useraddr" /\ call'.firstline
    BY <1>1, <1>4, Values
  <2> QED
    BY <1>1, <1>2, <1>3, <1>4, <2>1, Rests
<1>5. CASE UNCHANGED <<call, out, data>>
  BY <1>1, <1>2, <1>3, <1>5, Rests
<1>6. CASE Leave(Err)
  <2>1. call'.at = "no" /\ call'.firstline /\ out'.kind # "code"
    BY <1>6 DEF Leave, Idle, Err
  <2> QED
    BY <1>1, <1>3, <2>1, Rests
<1>7. \/ sb'.st = "bound" /\ call' = At(call, "useraddr") /\ UNCHANGED <<out, data>>
      \/ UNCHANGED <<call, out, data>>
      \/ Leave(Err)
  BY DEF BindUntilSuccess, BindTurn
<1> QED
  BY <1>4, <1>5, <1>6, <1>7

\* The port that was bound is sent.
LEMMA UserAddrPhases == ASSUME Base, Sane, Phases, UserAddrOfSb, Sane' PROVE Phases'
<1>1. /\ call \in Places /\ sb \in Sockets /\ data \in Ends /\ call.at = "useraddr"
      /\ UNCHANGED <<stream, reply, fate, srv, dport>>
  BY DEF Base, ClientTyped, ServerTyped, UserAddrOfSb
<1>2. /\ call.op # "none" /\ asked = <<>> /\ srv.st \in {"greet", "idle"}
      /\ (Greeted => Coming = <<>>) /\ kept = <<>> /\ (Greeted => srv.st = "idle")
      /\ dport.id <= n /\ sb.st = "bound" /\ data.them = "none"
  BY <1>1 DEF Base, Room, Phases, Before, Resting, OurPort, Linking
<1>3. CASE Leave(Err) /\ UNCHANGED <<kept, asked, n, tidy>>
  <2>1. call'.at = "no" /\ call'.firstline /\ out'.kind # "code"
    BY <1>3 DEF Leave, Idle, Err
  <2>2. UNCHANGED <<area, flight, reply, kept, asked, srv, dport, n>>
    BY <1>1, <1>3 DEF stream
  <2> QED
    BY <1>1, <2>1, <2>2, Rests
<1>4. CASE send_cmd("PORT", PortArg, At(call, "PORT"), sb)
  <2>1. PICK c : c = At(call, "PORT")
    OBVIOUS
  <2>2. c \in Places /\ c.op = call.op /\ c.at = "PORT" /\ c.firstline
    <3>1. "PORT" \in Responses
      BY DEF Responses
    <3> QED
      BY <1>1, <2>1, <3>1, Values
  <2>3. Greeted
    BY <1>4 DEF send_cmd, Sane
  <2>4. area = <<>> /\ flight = <<>>
    BY <1>2, <2>3, ComingEmpty
  <2>5. area' = <<>> /\ flight' = <<>> /\ Greeted' /\ UNCHANGED <<link, srv, dport>>
    BY <1>1, <2>3, <2>4 DEF stream, Greeted
  <2>6. PortArg = sb.port
    BY <1>1, PortArgIs DEF Sockets
  <2> QED
    BY <1>1, <1>2, <1>4, <2>1, <2>2, <2>3, <2>5, <2>6, Sends
<1> QED
  BY <1>3, <1>4 DEF UserAddrOfSb

\* A transfer over the data connection: nothing of the control connection is
\* touched, and nothing is on its way there but the last word.
LEMMA MovesOn ==
  ASSUME Base, Phases, call.at \in Moving, call'.at \in Moving \cup {"final"}, call'.firstline,
         UNCHANGED <<area, flight, sb, reply, out, kept, asked, srv, dport, n>>,
         data'.them = data.them
  PROVE  Phases'
<1>1. Coming' = Coming /\ Fore' = Fore /\ Aft' = Aft /\ Stream' /\ (Greeted' <=> Greeted)
  BY StreamSame DEF Phases, Greeted
<1>2. Greeted /\ asked = <<>> /\ call.firstline /\ out.kind # "code"
  BY DEF Phases, Before, Asking, Resting, Base, Room, Moving, Responses
<1>3. Before'
  BY <1>1, <1>2 DEF Phases, Before
<1>4. Asking' /\ Linking'
  BY <1>2 DEF Phases, Asking, Linking, Moving
<1>5. Serving'
  BY <1>1, <1>2 DEF Phases, Serving, Moving
<1>6. Answered'
  BY <1>1, <1>2 DEF Phases, Answered, Moving
<1>7. Resting'
  BY <1>2 DEF Resting, Moving
<1>8. OurPort'
  BY DEF Phases, OurPort, Moving
<1> QED
  BY <1>1, <1>3, <1>4, <1>5, <1>6, <1>7, <1>8 DEF Phases

\* Accepting the data connection, and the end of a transfer. An err of either
\* leaves the client untidy or terminated.
LEMMA DataPhases ==
  ASSUME Base, Sane, Phases, Accept \/ DownFails \/ UpDone \/ UpFails, Sane' PROVE Phases'
<1>1. call \in Places /\ data \in Ends
  BY DEF Base, ClientTyped, ServerTyped
<1>2. ~Throw
  BY DEF Throw, Sane
<1>3. CASE Accept
  <2>1. PICK at : at = IF call.op = "putfile" THEN "up" ELSE "down"
    OBVIOUS
  <2>2. /\ call.at = "accept" /\ data' = [data EXCEPT !.us = "accepted"]
        /\ call' = At(call, at)
        /\ UNCHANGED <<kept, asked, n, sb, out, tidy>>
        /\ UNCHANGED <<stream, portno, reply, fate, srv, dport>>
    BY <1>2, <1>3, <2>1 DEF Accept, accept
  <2>3. call'.at = at /\ call'.firstline
    BY <1>1, <2>1, <2>2, Values
  <2>4. data'.them = data.them
    BY <1>1, <2>2 DEF Ends
  <2>5. call.at \in Moving /\ call'.at \in Moving \cup {"final"}
    BY <2>1, <2>2, <2>3 DEF Moving
  <2> QED
    BY <2>2, <2>3, <2>4, <2>5, MovesOn DEF stream
<1>4. CASE UpDone
  <2>1. /\ call.at = "up" /\ data' = [data EXCEPT !.us = "closed"] /\ call' = At(call, "final")
        /\ UNCHANGED <<stream, inet, reply, out, kept, fate, server, n, tidy>>
    BY <1>4 DEF UpDone
  <2>2. "final" \in Responses
    BY DEF Responses
  <2>3. call'.at = "final" /\ call'.firstline
    BY <1>1, <2>1, <2>2, Values
  <2>4. data'.them = data.them
    BY <1>1, <2>1 DEF Ends
  <2>5. call.at \in Moving /\ call'.at \in Moving \cup {"final"}
    BY <2>1, <2>3 DEF Moving
  <2> QED
    BY <2>1, <2>3, <2>4, <2>5, MovesOn DEF stream, inet, server
<1>5. ~DownFails
  BY <1>2 DEF DownFails
<1>6. ~UpFails
  BY <1>2 DEF UpFails, Sane
<1> QED
  BY <1>3, <1>4, <1>5, <1>6

\* A read that ends with a line takes the same chars.
LEMMA RefillPhases == ASSUME Base, Sane, Phases, ResponseRefill, Sane' PROVE Phases'
<1>1. /\ Refill /\ ~Torn'
      /\ UNCHANGED <<inet, client, data, server, n>>
  BY DEF ResponseRefill, Sane
<1>2. StreamTyped /\ StreamTyped'
  BY <1>1, RefillTyped DEF Base
<1>3. Coming' = Coming
  BY <1>1, <1>2, RefillTyped DEF Coming
<1>4. Fore' = Fore /\ Aft' = Aft /\ n' = n /\ (Greeted' <=> Greeted)
  BY <1>1, <1>3 DEF Fore, Aft, Greeted, client
<1>5. Whole(area')
  <2> SUFFICES ASSUME area' # <<>> PROVE area'[1].at = 1 /\ IsLF(area'[Len(area')])
    BY DEF Whole
  <2>1. area' \in Seq(CharSet) /\ flight' \in Seq(CharSet)
    BY <1>2 DEF StreamTyped
  <2>2. Coming' # <<>> /\ Coming'[1] = area'[1]
    BY <2>1, JoinParts DEF Coming
  <2>3. Coming[1].at = 1
    BY <1>3, <2>2 DEF Phases, Stream, Whole
  <2> QED
    BY <1>1, <1>3, <2>2, <2>3 DEF Torn
<1>6. Stream'
  BY <1>3, <1>4, <1>5 DEF Phases, Stream
<1>7. Before' /\ Asking' /\ Serving'
  BY <1>1, <1>3, <1>4 DEF Phases, Before, Asking, Serving, client, server, inet
<1>8. Answered' /\ Resting'
  BY <1>1, <1>3, <1>4 DEF Phases, Answered, Resting, client, server
<1>9. OurPort' /\ Linking'
  BY <1>1 DEF Phases, OurPort, Linking, client, server, inet
<1> QED
  BY <1>6, <1>7, <1>8, <1>9 DEF Phases

\* A turn of get_response's loop consumes the first line on its way.
LEMMA Turn ==
  ASSUME Base, Sane, Phases, Len(area) >= 5,
         area' = SubSeq(area, (IF CRLFs = {} THEN Len(area) ELSE Min(CRLFs)) + 1, Len(area)),
         flight' = flight
  PROVE  /\ Coming # <<>> /\ Head(area).line = Fore /\ Head(area).at = 1
         /\ Fore \in Lines /\ Fore.id = n
         /\ Coming' = <<>> => area' = <<>> /\ flight' = <<>> /\ Fore.kind \in {"only", "last"}
         /\ Coming' # <<>> => Follow(Fore, Fore') /\ Aft' = Aft
         /\ Whole(Coming') /\ Linked(Coming', Order) /\ Whole(area')
         /\ \A i \in 1 .. Len(Coming') : \E j \in 1 .. Len(Coming) : Coming'[i] = Coming[j]
<1>1. /\ area \in Seq(CharSet) /\ flight \in Seq(CharSet) /\ StreamTyped
      /\ area # <<>> /\ Len(area) \in Nat /\ Head(area) = area[1] /\ area[1] \in CharSet
  BY ConsumedIs DEF Base, StreamTyped
<1>2. PICK w, l, k, m : /\ w = Coming /\ l = area[1].line /\ k = Length(area[1].line)
                        /\ m = Len(w)
  OBVIOUS
<1>3. /\ w \in Seq(CharSet) /\ m = Len(area) + Len(flight) /\ Len(flight) \in Nat
      /\ \A i \in 1 .. Len(area) : w[i] = area[i]
      /\ w[1] = area[1] /\ w # <<>> /\ m \in Nat /\ m > 0
  <2>1. /\ w \in Seq(CharSet) /\ m = Len(area) + Len(flight) /\ Len(flight) \in Nat
        /\ \A i \in 1 .. Len(area) : w[i] = area[i]
        /\ w[1] = area[1] /\ w # <<>>
    BY <1>1, <1>2, JoinParts DEF Coming
  <2>2. m \in Nat /\ m > 0
    BY <1>2, <2>1, EmptySeq, LenProperties
  <2> QED
    BY <2>1, <2>2
<1>4. /\ Whole(w) /\ Linked(w, Order) /\ Whole(area) /\ Aft.kind \in {"only", "last"}
      /\ \A i \in 1 .. m : w[i].line.id = n
  BY <1>2, <1>3 DEF Phases, Stream
<1>5. Linked(area, Order)
  <2>1. \A i \in 1 .. Len(area) - 1 : i \in 1 .. m - 1 /\ i \in 1 .. Len(area) /\ i + 1 \in 1 .. Len(area)
    BY <1>1, <1>3
  <2> QED
    BY <1>2, <1>3, <1>4, <2>1 DEF Linked
<1>6. /\ l \in Lines /\ k \in 1 .. Len(area) /\ l = w[1].line /\ k = Length(l)
      /\ \A i \in 1 .. k : area[i].line = l /\ area[i].at = i
      /\ k < Len(area) => area[k + 1].at = 1
  BY <1>1, <1>2, <1>3, <1>4, <1>5, FirstLine
<1>7. CRLFs # {} /\ Min(CRLFs) = k
  BY <1>1, <1>2, <1>4, <1>5, FirstCRLF
<1>8. area' = SubSeq(area, k + 1, Len(area))
  BY <1>7
<1>9. k \in 0 .. Len(area) /\ k \in Nat /\ k <= Len(area) /\ k <= m /\ k >= 1
  BY <1>1, <1>3, <1>6
<1>10. PICK u, v : u = area' /\ v = Coming'
  OBVIOUS
<1>11. /\ u \in Seq(CharSet) /\ Len(u) = Len(area) - k
       /\ \A i \in 1 .. Len(area) - k : u[i] = area[k + i]
  BY <1>1, <1>8, <1>9, <1>10, Slice
<1>12. v = SubSeq(w, k + 1, m)
  <2>1. Coming' = SubSeq(area, k + 1, Len(area)) \o flight
    BY <1>8 DEF Coming
  <2> QED
    BY <1>1, <1>2, <1>9, <1>10, <2>1, CutFirst DEF Coming
<1>13. /\ v \in Seq(CharSet) /\ Len(v) = m - k
       /\ \A i \in 1 .. m - k : v[i] = w[k + i]
  <2>1. w \in Seq(CharSet) /\ k \in Nat /\ m \in Nat /\ k <= m /\ m <= Len(w)
    BY <1>2, <1>3, <1>9
  <2> QED
    BY <1>12, <2>1, Slice
<1>14. Linked(v, Order)
  <2>1. w \in Seq(CharSet) /\ k \in Nat /\ m \in Nat /\ k <= m /\ m <= Len(w)
    BY <1>2, <1>3, <1>9
  <2> QED
    BY <1>4, <1>12, <2>1, LinkedPart
<1>15. k < m => w[k + 1].at = 1 /\ Follow(l, w[k + 1].line)
  <2>1. m = Len(w)
    BY <1>2
  <2>2. /\ w \in Seq(CharSet) /\ w # <<>> /\ Linked(w, Order) /\ Whole(w)
        /\ l = w[1].line /\ k = Length(l)
    BY <1>3, <1>4, <1>6
  <2>3. k < Len(w) => w[k + 1].at = 1 /\ Follow(l, w[k + 1].line)
    BY <2>2, FirstLine
  <2> QED
    BY <2>1, <2>3
<1>16. Whole(u)
  <2> SUFFICES ASSUME u # <<>> PROVE u[1].at = 1 /\ IsLF(u[Len(u)])
    BY DEF Whole
  <2>1. Len(area) - k > 0
    <3>1. Len(u) \in Nat /\ Len(u) > 0
      BY <1>11, EmptySeq, LenProperties
    <3> QED
      BY <1>11, <3>1
  <2>2. /\ 1 \in 1 .. Len(area) - k /\ Len(area) - k \in 1 .. Len(area) - k /\ k < Len(area)
        /\ k + (Len(area) - k) = Len(area)
    BY <1>1, <1>9, <2>1
  <2>3. u[1] = area[k + 1] /\ u[Len(u)] = area[Len(area)]
    BY <1>11, <2>2
  <2>4. IsLF(area[Len(area)])
    BY <1>1, <1>4 DEF Whole
  <2> QED
    BY <1>6, <2>2, <2>3, <2>4
<1>17. ASSUME v # <<>>
       PROVE  /\ k < m /\ v[1] = w[k + 1] /\ v[Len(v)] = w[m]
  <2>1. Len(v) \in Nat /\ Len(v) > 0
    BY <1>13, <1>17, EmptySeq, LenProperties
  <2>2. /\ 1 \in 1 .. m - k /\ m - k \in 1 .. m - k /\ k < m /\ k + (m - k) = m
    BY <1>3, <1>9, <1>13, <2>1
  <2> QED
    BY <1>13, <2>2
<1>18. Whole(v)
  <2>1. IsLF(w[m])
    BY <1>2, <1>3, <1>4 DEF Whole
  <2> QED
    BY <1>15, <1>17, <2>1 DEF Whole
<1>19. v # <<>> => Follow(Fore, Fore') /\ Aft' = Aft
  <2>1. Fore = l /\ Fore' = v[1].line /\ Aft' = v[Len(v)].line /\ Aft = w[m].line
    BY <1>2, <1>6, <1>10 DEF Fore, Aft
  <2> QED
    BY <1>15, <1>17, <2>1
<1>20. ASSUME v = <<>> PROVE u = <<>> /\ flight' = <<>> /\ l.kind \in {"only", "last"}
  <2>1. Len(v) = 0
    BY <1>20, EmptySeq
  <2>2. k = m /\ Len(area) = k /\ Len(flight) = 0
    BY <1>1, <1>3, <1>9, <1>13, <2>1
  <2>3. flight = <<>>
    BY <1>1, <2>2, EmptySeq
  <2>4. u = <<>>
    BY <1>1, <1>9, <1>11, <2>2, EmptySeq
  <2>5. w[m].line = l
    <3>1. k \in 1 .. k /\ k \in 1 .. Len(area)
      BY <1>9
    <3> QED
      BY <1>3, <1>6, <2>2, <3>1
  <2>6. Aft = l
    BY <1>2, <2>5 DEF Aft
  <2> QED
    BY <1>4, <2>3, <2>4, <2>6
<1>21. ASSUME NEW i \in 1 .. Len(v) PROVE \E j \in 1 .. m : v[i] = w[j]
  <2>1. i \in 1 .. m - k /\ k + i \in 1 .. m
    BY <1>3, <1>9, <1>13
  <2> QED
    BY <1>13, <2>1
<1>22. Fore = l /\ area[1].at = 1 /\ l.id = n
  <2>1. 1 \in 1 .. k /\ 1 \in 1 .. m
    BY <1>3, <1>9
  <2> QED
    BY <1>2, <1>4, <1>6, <2>1 DEF Fore
<1> QED
  BY <1>1, <1>2, <1>3, <1>6, <1>10, <1>14, <1>16, <1>18, <1>19, <1>20, <1>21, <1>22

\* A call that ends with its reply leaves nothing on its way.
LEMMA CallEnds ==
  ASSUME Base, NEW o \in Outcomes, Leave(o), UNCHANGED <<kept, asked, n, srv, dport>>,
         kept = <<>>, asked = <<>>, area' = <<>>, flight' = <<>>, Greeted',
         srv.st = "idle", dport.id <= n,
         o.kind = "code" => /\ reply'.id = n /\ reply'.part = "final"
                            /\ o.code >= rca_error <=> reply'.code >= rca_error
  PROVE  Phases'
<1>1. call' = Idle /\ out' = o
  BY LeaveTyped
<1>2. call'.at = "no" /\ call'.op = "none" /\ call'.firstline
  BY <1>1 DEF Idle
<1>3. Coming' = <<>> /\ Stream'
  BY StreamEmpty
<1>4. Before' /\ Asking' /\ Serving' /\ Answered'
  BY <1>3 DEF Before, Asking, Serving, Answered
<1>5. Resting'
  BY <1>1, <1>2, <1>3 DEF Resting, Responses
<1>6. OurPort' /\ Linking'
  BY <1>2 DEF OurPort, Linking, Moving
<1> QED
  BY <1>3, <1>4, <1>5, <1>6 DEF Phases

\* A line behind which the reply goes on.
LEMMA GoesOn ==
  ASSUME Base, Sane, Phases, Responding, Coming # <<>>, Coming' # <<>>, Follow(Fore, Fore'),
         Fore \in Lines, Fore.kind \in {"first", "mid"}, Aft' = Aft,
         Whole(Coming'), Linked(Coming', Order), Whole(area'),
         \A i \in 1 .. Len(Coming') : \E j \in 1 .. Len(Coming) : Coming'[i] = Coming[j],
         call' = [call EXCEPT !.firstline = FALSE],
         reply' = [code |-> Fore.code, id |-> Fore.id, part |-> Fore.part],
         UNCHANGED <<out, sb, data, kept, asked, n, srv, dport>>
  PROVE  Phases'
<1>1. call'.op = call.op /\ call'.at = call.at /\ ~call'.firstline
  BY DEF Base, ClientTyped, Places
<1>2. /\ Fore'.kind \in {"mid", "last"} /\ Fore'.part = Fore.part
      /\ Fore'.code = Fore.code /\ Fore'.id = Fore.id
  BY DEF Follow
<1>3. Stream'
  BY DEF Phases, Stream
<1>4. Greeted'
  BY DEF Greeted, Lines, Parts
<1>5. asked = <<>>
  BY DEF Phases, Answered
<1>6. Before'
  BY <1>4 DEF Phases, Before
<1>7. Asking'
  BY <1>5 DEF Asking
<1>8. Serving'
  BY <1>1, <1>5 DEF Phases, Serving
<1>9. Answered'
  BY <1>1, <1>2, <1>5 DEF Phases, Answered
<1>10. Resting'
  <2>1. out.kind # "code"
    BY DEF Phases, Resting, Base, Room, Responding, Responses
  <2> QED
    BY <1>1, <2>1 DEF Resting, Responding, Responses
<1>11. OurPort' /\ Linking'
  BY <1>1 DEF Phases, OurPort, Linking
<1> QED
  BY <1>3, <1>6, <1>7, <1>8, <1>9, <1>10, <1>11 DEF Phases

\* A line with which the reply is over, and what the call does then.
LEMMA IsOver ==
  ASSUME Base, Sane, Sane', Phases, Responding, Coming # <<>>, Fore \in Lines, Fore.id = n,
         Fore.kind \in {"only", "last"},
         Coming' = <<>> => area' = <<>> /\ flight' = <<>>,
         Coming' # <<>> => Follow(Fore, Fore') /\ Aft' = Aft,
         Whole(Coming'), Linked(Coming', Order), Whole(area'),
         \A i \in 1 .. Len(Coming') : \E j \in 1 .. Len(Coming) : Coming'[i] = Coming[j],
         Base', NEW r, r = [code |-> Fore.code, id |-> Fore.id, part |-> Fore.part],
         Got(r), reply' = r, UNCHANGED <<link, srv, dport>>
  PROVE  Phases'
<1>1. /\ call \in Places /\ sb \in Sockets /\ n \in Nat
      /\ r.code = Fore.code /\ r.code \in 0 .. 9 /\ r.id = n /\ r.part = Fore.part
      /\ Fore.part \in Parts /\ (Fore.part # "final" => Fore.code < rca_error)
  BY DEF Base, ClientTyped, Lines
<1>2. asked = <<>> /\ kept = <<>> /\ srv.st # "greet" /\ dport.id <= n
  BY DEF Phases, Answered, Before, OurPort
<1>3. Greeted'
  BY <1>1 DEF Greeted, Parts
<1>4. Fore.part # "prelim" => Coming' = <<>> /\ area' = <<>> /\ flight' = <<>>
  BY DEF Follow
<1>5. srv.st \notin {"begin", "linked"}
  BY DEF Phases, Serving
<1>6. srv.st \in {"told", "moving"} => call.at = "transfer" /\ Fore.part = "prelim"
  <2> SUFFICES ASSUME srv.st \in {"told", "moving"}
               PROVE  call.at = "transfer" /\ Fore.part = "prelim"
    OBVIOUS
  <2>1. /\ call.at = "transfer"
        /\ \A i \in 1 .. Len(Coming) : Coming[i].line.part = "prelim"
    BY DEF Phases, Serving
  <2>2. 1 \in 1 .. Len(Coming)
    BY ForeAft
  <2> QED
    BY <2>1, <2>2 DEF Fore
<1>7. Fore.part # "prelim" => srv.st = "idle"
  BY <1>2, <1>5, <1>6 DEF Base, ServerTyped
<1>8. ASSUME NEW at \in {"reply", "transfer"}
      PROVE  /\ At(call, at) \in Places /\ At(call, at).op = call.op
             /\ At(call, at).at = at /\ At(call, at).firstline
  <2>1. at \in Responses
    BY DEF Responses
  <2> QED
    BY <1>1, <2>1, Values
<1>9. call.op # "none"
  BY DEF Base, Room, Responding, Responses
<1>10. CASE /\ call.at \in {"reply", "final"} /\ Leave(Code(r.code))
            /\ UNCHANGED <<kept, asked, n, tidy>>
  <2>1. Fore.part = "final"
    BY <1>10 DEF Phases, Answered
  <2>2. Code(r.code) \in Outcomes /\ Code(r.code).code = r.code
    BY <1>1, Values DEF Code
  <2> QED
    BY <1>1, <1>2, <1>3, <1>4, <1>7, <1>10, <2>1, <2>2, CallEnds
<1>11. CASE call.at = "RNFR" /\ r.code < rca_error /\ send_cmd("RNTO", 0, At(call, "reply"), sb)
  <2>1. Fore.part = "inter"
    BY <1>1, <1>11 DEF Phases, Answered, rca_error
  <2>2. PICK c : c = At(call, "reply")
    OBVIOUS
  <2>3. c \in Places /\ c.op # "none" /\ c.at = "reply" /\ c.firstline
    BY <1>8, <1>9, <2>2
  <2> QED
    BY <1>1, <1>2, <1>3, <1>4, <1>7, <1>11, <2>1, <2>2, <2>3, Sends
<1>12. CASE /\ call.at = "PORT"
            /\ send_cmd(Transfers[call.op], 0, At(call, "transfer"), Listening(sb))
  <2>1. Fore.part = "final"
    BY <1>12 DEF Phases, Answered
  <2>2. PICK c, s : c = At(call, "transfer") /\ s = Listening(sb)
    OBVIOUS
  <2>3. c \in Places /\ c.op # "none" /\ c.at = "transfer" /\ c.firstline
    BY <1>8, <1>9, <2>2
  <2>4. s \in Sockets /\ s.st = "listening" /\ s.port = sb.port
    BY <1>1, <2>2, Values DEF Listening, Sockets
  <2>5. Transfers[call.op] \in {"RETR", "LIST", "STOR"}
    BY <1>12, TransfersAre DEF Base, Room
  <2>6. data.them = "none" /\ (dport.id = n => dport.port = sb.port)
    BY <1>2, <1>12 DEF Phases, Linking, OurPort
  <2>7. srv.st = "idle" /\ area' = <<>> /\ flight' = <<>>
    BY <1>4, <1>7, <2>1
  <2> QED
    BY <1>2, <1>3, <1>12, <2>2, <2>3, <2>4, <2>5, <2>6, <2>7, Sends
<1>13. CASE call.at = "PORT" /\ Leave(Err) /\ UNCHANGED <<kept, asked, n, tidy>>
  <2>1. Fore.part = "final"
    BY <1>13 DEF Phases, Answered
  <2>2. Err \in Outcomes /\ Err.kind # "code"
    BY Values DEF Err
  <2> QED
    BY <1>2, <1>3, <1>4, <1>7, <1>13, <2>1, <2>2, CallEnds
<1>14. CASE /\ call.at = "transfer" /\ r.code < rca_error
            /\ call' = At(call, IF call.op = "list" THEN "final" ELSE "accept")
            /\ UNCHANGED <<out, sb, data, kept, asked, n, tidy>>
  <2>1. Fore.part = "prelim"
    BY <1>1, <1>14 DEF Phases, Answered, rca_error
  <2>2. PICK at : at = IF call.op = "list" THEN "final" ELSE "accept"
    OBVIOUS
  <2>3. at \in {"final", "accept"} /\ at \in Responses \cup {"accept"}
    BY <2>2 DEF Responses
  <2>4. call'.at = at /\ call'.firstline
    BY <1>1, <1>14, <2>2, <2>3, Values
  <2>5. Coming' # <<>> => Fore'.kind \in {"only", "first"} /\ Fore'.part = "final"
    BY DEF Follow
  <2>6. Stream'
    BY <1>14 DEF Phases, Stream
  <2>7. Before'
    BY <1>2, <1>3, <1>14 DEF Before
  <2>8. Asking' /\ Linking'
    BY <1>2, <1>14, <2>3, <2>4 DEF Phases, Asking, Linking
  <2>9. Serving'
    <3>1. ASSUME Coming' # <<>> PROVE srv.st \notin {"told", "moving"}
      <4>1. 1 \in 1 .. Len(Coming')
        <5>1. area' \in Seq(CharSet) /\ flight' \in Seq(CharSet)
          BY DEF Base, StreamTyped
        <5>2. Coming' \in Seq(CharSet)
          BY <5>1, JoinParts DEF Coming
        <5>3. Len(Coming') \in Nat /\ Len(Coming') > 0
          BY <3>1, <5>2, EmptySeq, LenProperties
        <5> QED
          BY <5>3
      <4>2. PICK j \in 1 .. Len(Coming) : Coming'[1] = Coming[j]
        BY <4>1
      <4>3. Coming[j].line.part = "final"
        BY <2>5, <3>1, <4>2 DEF Fore
      <4> QED
        BY <4>3 DEF Phases, Serving
    <3> QED
      BY <1>2, <1>5, <1>14, <2>3, <2>4, <3>1 DEF Phases, Serving, Moving
  <2>10. Answered'
    BY <1>2, <1>14, <2>3, <2>4, <2>5 DEF Answered
  <2>11. Resting'
    <3>1. out.kind # "code"
      BY <1>9 DEF Phases, Resting
    <3> QED
      BY <1>14, <2>3, <2>4, <3>1 DEF Resting
  <2>12. OurPort'
    BY <1>2, <1>14, <2>3, <2>4 DEF Phases, OurPort, Moving
  <2> QED
    BY <2>6, <2>7, <2>8, <2>9, <2>10, <2>11, <2>12 DEF Phases
<1>15. CASE /\ call.at \in {"RNFR", "transfer"} /\ r.code >= rca_error
            /\ Leave(Code(rca_error)) /\ UNCHANGED <<kept, asked, n, tidy>>
  <2>1. Fore.part = "final"
    BY <1>1, <1>15 DEF rca_error, Phases, Answered
  <2>2. /\ Code(rca_error) \in Outcomes /\ Code(rca_error).code = rca_error
        /\ rca_error >= rca_error
    BY Values DEF Code, rca_error
  <2> QED
    BY <1>1, <1>2, <1>3, <1>4, <1>7, <1>15, <2>1, <2>2, CallEnds
<1> QED
  BY <1>10, <1>11, <1>12, <1>13, <1>14, <1>15 DEF Got

\* A turn of get_response's loop.
LEMMA LinePhases ==
  ASSUME Base, Base', Sane, Phases, ResponseLine, Sane' PROVE Phases'
<1>1. /\ Responding /\ Len(area) >= 5 /\ UNCHANGED <<flight, link, portno, fate, srv, dport>>
      /\ area' = SubSeq(area, (IF CRLFs = {} THEN Len(area) ELSE Min(CRLFs)) + 1, Len(area))
  BY DEF ResponseLine
<1>2. PICK q : q = Head(area)
  OBVIOUS
<1>3. /\ Coming # <<>> /\ q.line = Fore /\ q.at = 1
      /\ Fore \in Lines /\ Fore.id = n
      /\ Coming' = <<>> => area' = <<>> /\ flight' = <<>> /\ Fore.kind \in {"only", "last"}
      /\ Coming' # <<>> => Follow(Fore, Fore') /\ Aft' = Aft
      /\ Whole(Coming') /\ Linked(Coming', Order) /\ Whole(area')
      /\ \A i \in 1 .. Len(Coming') : \E j \in 1 .. Len(Coming) : Coming'[i] = Coming[j]
  BY <1>1, <1>2, Turn
<1>4. /\ call.firstline => Fore.kind \in {"only", "first"}
      /\ ~call.firstline =>
           /\ Fore.kind \in {"mid", "last"}
           /\ reply = [code |-> Fore.code, id |-> Fore.id, part |-> Fore.part]
  BY <1>3 DEF Phases, Answered
<1>5. PICK r : r = [code |-> Fore.code, id |-> Fore.id, part |-> Fore.part]
  OBVIOUS
<1>6. HasCode(q) <=> Fore.kind # "mid"
  BY <1>3 DEF HasCode
<1>7. CASE Fore.kind \in {"only", "last"} /\ Got(r) /\ reply' = r
  BY <1>1, <1>3, <1>5, <1>7, IsOver
<1>8. CASE /\ Fore.kind \in {"first", "mid"} /\ call' = [call EXCEPT !.firstline = FALSE]
           /\ reply' = r /\ UNCHANGED <<out, sb, data, kept, asked, n, tidy>>
  <2>1. Coming' # <<>>
    BY <1>3, <1>8
  <2> QED
    BY <1>1, <1>3, <1>5, <1>8, <2>1, GoesOn
<1>9. CASE call.firstline
  <2>1. HasCode(q) /\ Fore.kind \in {"only", "first"}
    BY <1>4, <1>6, <1>9
  <2>2. Codes(q) = {Fore.code} /\ EndsReply(q) = {Fore.kind # "first"}
    BY <1>3, <2>1 DEF Codes, EndsReply
  <2>3. \E c \in Codes(q), ends \in EndsReply(q) :
          LET t == [code |-> c, id |-> IF HasCode(q) THEN q.line.id ELSE 0,
                    part |-> IF HasCode(q) THEN q.line.part ELSE "none"]
          IN  /\ reply' = t
              /\ \/ ends /\ Got(t)
                 \/ /\ ~ends
                    /\ call' = [call EXCEPT !.firstline = FALSE]
                    /\ UNCHANGED <<out, sb, data, kept, asked, n, tidy>>
    BY <1>2, <1>9 DEF ResponseLine
  <2>4. [code |-> Fore.code, id |-> IF HasCode(q) THEN q.line.id ELSE 0,
         part |-> IF HasCode(q) THEN q.line.part ELSE "none"] = r
    BY <1>3, <1>5, <2>1
  <2>5. /\ reply' = r
        /\ \/ Fore.kind # "first" /\ Got(r)
           \/ /\ Fore.kind = "first"
              /\ call' = [call EXCEPT !.firstline = FALSE]
              /\ UNCHANGED <<out, sb, data, kept, asked, n, tidy>>
    BY <2>2, <2>3, <2>4
  <2> QED
    BY <1>7, <1>8, <2>1, <2>5
<1>10. CASE ~call.firstline
  <2>1. Fore.kind \in {"mid", "last"} /\ reply = r
    BY <1>4, <1>5, <1>10
  <2>2. SameCode(q) <=> Fore.kind = "last"
    BY <1>3, <1>5, <1>6, <2>1 DEF SameCode
  <2>3. \/ SameCode(q) /\ Got(reply) /\ reply' = reply
        \/ ~SameCode(q) /\ UNCHANGED <<call, reply, out, sb, data, kept, asked, n, tidy>>
    BY <1>2, <1>10 DEF ResponseLine
  <2>4. [call EXCEPT !.firstline = FALSE] = call
    BY <1>10 DEF Base, ClientTyped, Places
  <2> QED
    BY <1>7, <1>8, <2>1, <2>2, <2>3, <2>4
<1> QED
  BY <1>9, <1>10

\* The stream with a reply at its end.
LEMMA SaysOn ==
  ASSUME Base, Phases, NEW part \in Parts, NEW code \in 0 .. 9, NEW r, IsReply(r, n, part, code),
         flight' = flight \o r, area' = area, n' = n,
         \/ Coming = <<>>
         \/ part = "final" /\ \A i \in 1 .. Len(Coming) : Coming[i].line.part = "prelim"
  PROVE  /\ Coming' # <<>> /\ Stream'
         /\ Coming = <<>> => /\ Fore'.kind \in {"only", "first"}
                             /\ Fore'.part = part /\ Fore'.code = code
                             /\ \A i \in 1 .. Len(Coming') : Coming'[i].line.part = part
         /\ Coming # <<>> => Fore' = Fore
<1>1. /\ area \in Seq(CharSet) /\ flight \in Seq(CharSet) /\ r \in Seq(CharSet) /\ r # <<>>
      /\ Linked(r, Order) /\ Whole(r)
      /\ \A i \in 1 .. Len(r) : /\ r[i].line.id = n
                                /\ r[i].line.part = part /\ r[i].line.code = code
      /\ r[1].line.kind \in {"only", "first"} /\ r[Len(r)].line.kind \in {"only", "last"}
  BY DEF Base, StreamTyped, IsReply
<1>2. PICK u, w : u = Coming /\ w = Coming'
  OBVIOUS
<1>3. w = u \o r
  <2>1. (area \o flight) \o r = area \o (flight \o r)
    BY <1>1, ConcatAssociative
  <2>2. u = area \o flight /\ w = area \o (flight \o r)
    BY <1>2 DEF Coming
  <2> QED
    BY <2>1, <2>2, Zenon
<1>4. u \in Seq(CharSet)
  BY <1>1, <1>2, ConcatProperties DEF Coming
<1>5. Len(r) \in Nat /\ Len(r) > 0 /\ 1 \in 1 .. Len(r) /\ Len(r) \in 1 .. Len(r)
  <2>1. Len(r) \in Nat /\ Len(r) > 0
    BY <1>1, EmptySeq, LenProperties
  <2> QED
    BY <2>1
<1>6. Whole(area)
  BY DEF Phases, Stream
<1>7. CASE u = <<>>
  <2>1. w = r
    BY <1>1, <1>3, <1>7, ConcatEmptySeq
  <2>2. Fore' = r[1].line /\ Aft' = r[Len(r)].line
    BY <1>2, <2>1 DEF Fore, Aft
  <2>3. Stream'
    BY <1>1, <1>2, <1>6, <2>1, <2>2 DEF Stream
  <2> QED
    BY <1>1, <1>2, <1>5, <1>7, <2>1, <2>2, <2>3
<1>8. CASE u # <<>>
  <2>1. /\ part = "final" /\ Whole(u) /\ Linked(u, Order) /\ Aft = u[Len(u)].line
        /\ Aft.kind \in {"only", "last"} /\ Fore = u[1].line
        /\ \A i \in 1 .. Len(u) : u[i].line.part = "prelim" /\ u[i].line.id = n
    BY <1>2, <1>8 DEF Phases, Stream, Fore, Aft
  <2>2. Len(u) \in 1 .. Len(u)
    <3>1. Len(u) \in Nat /\ Len(u) > 0
      BY <1>4, <1>8, EmptySeq, LenProperties
    <3> QED
      BY <3>1
  <2>3. Follow(u[Len(u)].line, r[1].line)
    <3>1. PICK l, k : l = u[Len(u)].line /\ k = r[1].line
      OBVIOUS
    <3>2. l.kind \in {"only", "last"} /\ l.part = "prelim" /\ l.id = n
      BY <2>1, <2>2, <3>1
    <3>3. k.kind \in {"only", "first"} /\ k.part = "final" /\ k.id = n
      BY <1>1, <1>5, <2>1, <3>1
    <3> QED
      BY <3>1, <3>2, <3>3 DEF Follow
  <2>4. /\ w # <<>> /\ Whole(w) /\ Linked(w, Order) /\ w[1] = u[1] /\ w[Len(w)] = r[Len(r)]
        /\ \A i \in 1 .. Len(w) : \/ \E j \in 1 .. Len(u) : w[i] = u[j]
                                  \/ \E j \in 1 .. Len(r) : w[i] = r[j]
    <3>1. /\ r \in Seq(CharSet) /\ r # <<>> /\ Whole(r) /\ Linked(r, Order)
          /\ Whole(u) /\ Linked(u, Order)
      BY <1>1, <2>1
    <3>2. LET x == u \o r IN
          /\ x # <<>> /\ Whole(x) /\ Linked(x, Order) /\ x[1] = u[1] /\ x[Len(x)] = r[Len(r)]
          /\ \A i \in 1 .. Len(x) : \/ \E j \in 1 .. Len(u) : x[i] = u[j]
                                    \/ \E j \in 1 .. Len(r) : x[i] = r[j]
      BY <1>4, <1>8, <2>3, <3>1, TwoPieces
    <3> QED
      BY <1>3, <3>2
  <2>5. Fore' = Fore /\ Aft' = r[Len(r)].line
    BY <1>2, <2>1, <2>4 DEF Fore, Aft
  <2>6. \A i \in 1 .. Len(w) : w[i].line.id = n
    BY <1>1, <2>1, <2>4
  <2>7. Stream'
    BY <1>1, <1>2, <1>6, <2>4, <2>5, <2>6 DEF Stream
  <2> QED
    BY <1>2, <1>8, <2>4, <2>5, <2>7
<1> QED
  BY <1>7, <1>8

\* The server's last word on a transfer.
LEMMA LastWord ==
  ASSUME Base, Sane, Phases, srv.st \in {"begin", "told", "moving"},
         NEW codes \in SUBSET (0 .. 9), \A c \in codes : c >= rca_error \/ srv.st = "moving",
         Says(srv.id, "final", codes), Becomes("idle"),
         UNCHANGED <<area, link, inet, client, asked, dport, n, tidy>>
  PROVE  Phases'
<1>1. srv.id = n /\ asked = <<>> /\ srv'.st = "idle" /\ n \in Nat
  BY DEF Phases, Serving, Becomes, Base, ServerTyped, ClientTyped
<1>2. PICK c, r : c \in codes /\ flight' = flight \o r /\ IsReply(r, n, "final", c)
  <2>1. "final" \in Parts /\ StreamTyped
    BY DEF Parts, Base
  <2> QED
    BY <1>1, <2>1, SaysTyped
<1>3. \/ /\ Coming = <<>> /\ call.firstline
         /\ \/ call.at \in Moving \cup {"final"}
            \/ call.at = "transfer" /\ c >= rca_error
      \/ /\ Coming # <<>> /\ call.at = "transfer"
         /\ \A i \in 1 .. Len(Coming) : Coming[i].line.part = "prelim"
  BY <1>2 DEF Phases, Serving, Resting
<1>4. /\ Coming' # <<>> /\ Stream'
      /\ Coming = <<>> => /\ Fore'.kind \in {"only", "first"}
                          /\ Fore'.part = "final" /\ Fore'.code = c
      /\ Coming # <<>> => Fore' = Fore
  <2>1. "final" \in Parts /\ c \in 0 .. 9
    BY <1>2 DEF Parts
  <2> QED
    BY <1>2, <1>3, <2>1, SaysOn
<1>5. Greeted /\ Greeted'
  BY DEF Phases, Before, Greeted, client
<1>6. Before' /\ Asking' /\ Serving'
  BY <1>1, <1>5 DEF Phases, Before, Asking, Serving, client
<1>7. Answered'
  BY <1>1, <1>3, <1>4 DEF Phases, Answered, client, Moving
<1>8. Resting'
  BY <1>3, <1>4, <1>5 DEF Phases, Resting, client, Moving
<1>9. OurPort'
  BY <1>3 DEF Phases, OurPort, client, inet, Moving
<1>10. Linking'
  BY <1>1, <1>3 DEF Linking, client, Moving
<1> QED
  BY <1>4, <1>6, <1>7, <1>8, <1>9, <1>10 DEF Phases

\* The server.
LEMMA ServerPhases ==
  ASSUME Base, Sane, Phases, Sane',
         \/ Greets \/ Serves \/ Announces \/ DataConnects \/ Completes
         \/ CompletesUnread \/ Aborts \/ Closes
  PROVE  Phases'
<1>1. /\ StreamTyped /\ n \in Nat /\ asked \in Seq(Cmds) /\ dport.id \in Nat
      /\ kept = <<>> /\ dport.id <= n
      /\ call \in Places /\ sb \in Sockets /\ data \in Ends
  BY DEF Base, ClientTyped, ServerTyped, Phases, Before, OurPort
<1>2. "final" \in Parts /\ "prelim" \in Parts /\ "inter" \in Parts
  BY DEF Parts
<1>3. ASSUME NEW part \in Parts, NEW code \in 0 .. 9, part # "final" => code < rca_error,
             Says(n, part, {code}), Coming = <<>>, UNCHANGED <<area, n>>
      PROVE  /\ Coming' # <<>> /\ Stream'
             /\ Fore'.kind \in {"only", "first"} /\ Fore'.part = part /\ Fore'.code = code
             /\ \A i \in 1 .. Len(Coming') : Coming'[i].line.part = part
  <2>1. PICK codes : codes = {code}
    OBVIOUS
  <2>2. codes \in SUBSET (0 .. 9) /\ (part # "final" => \A c \in codes : c < rca_error)
    BY <1>3, <2>1
  <2>3. PICK r : \E c \in codes : flight' = flight \o r /\ IsReply(r, n, part, c)
    BY <1>1, <1>3, <2>1, <2>2, SaysTyped
  <2>4. flight' = flight \o r /\ IsReply(r, n, part, code)
    BY <2>1, <2>3
  <2> QED
    BY <1>3, <2>4, SaysOn
<1>4. CASE Greets
  <2>1. /\ srv.st = "greet" /\ Says(0, "final", {2}) /\ srv'.st = "idle"
        /\ UNCHANGED <<area, link, inet, client, data, asked, dport, n, tidy>>
    BY <1>4 DEF Greets, Becomes, Base, ServerTyped
  <2>2. /\ Coming = <<>> /\ ~Greeted /\ n = 0 /\ asked = <<>>
        /\ call.at \in {"no", "reply", "bind", "useraddr"} /\ call.firstline
    BY <2>1 DEF Phases, Before
  <2>3. /\ Coming' # <<>> /\ Stream'
        /\ Fore'.kind \in {"only", "first"} /\ Fore'.part = "final"
    BY <1>2, <1>3, <2>1, <2>2
  <2>4. Before' /\ Asking' /\ Serving' /\ Linking'
    BY <1>1, <2>1, <2>2 DEF Phases, Before, Asking, Serving, Linking, Greeted, client
  <2>5. Answered'
    BY <2>1, <2>2, <2>3 DEF Answered, client
  <2>6. Resting' /\ OurPort'
    BY <1>1, <2>1, <2>2 DEF Phases, Resting, OurPort, Greeted, client, inet, Moving
  <2> QED
    BY <2>3, <2>4, <2>5, <2>6 DEF Phases
<1>5. CASE Serves
  <2>1. PICK c : c = Head(asked)
    OBVIOUS
  <2>2. /\ asked # <<>> /\ asked' = Tail(asked) /\ UNCHANGED <<area, inet, client, data, n, tidy>>
    BY <1>5 DEF Serves
  <2>3. /\ Len(asked) = 1 /\ c = asked[1] /\ c \in Cmds /\ asked' = <<>>
    <3>1. Len(asked) = 1
      BY <2>2 DEF Phases, Asking
    <3>2. Len(asked') = 0 /\ asked' \in Seq(Cmds)
      <4>1. Tail(asked) \in Seq(Cmds) /\ Len(Tail(asked)) = Len(asked) - 1
        BY <1>1, <2>2, HeadTailProperties
      <4> QED
        BY <2>2, <3>1, <4>1
    <3>3. asked[1] \in Cmds
      <4>1. 1 \in 1 .. Len(asked)
        BY <3>1
      <4> QED
        BY <1>1, <4>1, ElementOfSeq
    <3> QED
      BY <2>1, <3>1, <3>2, <3>3, EmptySeq
  <2>4. /\ c.id = n /\ Coming = <<>> /\ srv.st = "idle" /\ Greeted
        /\ call.at \in {"reply", "RNFR", "PORT", "transfer"} /\ call.firstline
        /\ call.at = "RNFR" <=> c.verb = "RNFR"
        /\ call.at = "transfer" <=> c.verb \in {"RETR", "LIST", "STOR"}
        /\ call.at = "PORT" => c.verb = "PORT" /\ c.port = sb.port
        /\ dport.id < n
        /\ call.at \in {"transfer", "PORT"} => data.them = "none"
        /\ out.kind # "code"
    BY <2>2, <2>3 DEF Phases, Asking, Before, Linking, Resting, Base, Room
  <2>5. ASSUME NEW part \in {"final", "inter"}, NEW code \in 0 .. 9,
               part # "final" => code < rca_error, Says(c.id, part, {code}),
               srv' = [st |-> "idle", id |-> c.id, verb |-> c.verb],
               call.at = "transfer" => part = "final" /\ code >= rca_error,
               call.at = "RNFR" => part = "inter" \/ (part = "final" /\ code >= rca_error),
               call.at \in {"reply", "PORT"} => part = "final",
               \/ dport' = dport
               \/ c.verb = "PORT" /\ dport' = [port |-> c.port, id |-> c.id]
        PROVE  Phases'
    <3>1. /\ Coming' # <<>> /\ Stream'
          /\ Fore'.kind \in {"only", "first"} /\ Fore'.part = part /\ Fore'.code = code
      <4>1. part \in Parts
        BY <2>5 DEF Parts
      <4> QED
        BY <1>3, <2>2, <2>4, <2>5, <4>1
    <3>2. Before' /\ Asking' /\ Serving' /\ Linking'
      BY <1>1, <2>2, <2>3, <2>4, <2>5
         DEF Before, Asking, Serving, Linking, Greeted, client
    <3>3. Answered'
      BY <2>2, <2>3, <2>4, <2>5, <3>1 DEF Answered, client
    <3>4. Resting'
      BY <2>2, <2>4 DEF Resting, Responses, client
    <3>5. OurPort'
      BY <1>1, <2>2, <2>3, <2>4, <2>5 DEF Phases, OurPort, client, inet, Moving
    <3> QED
      BY <3>1, <3>2, <3>3, <3>4, <3>5 DEF Phases
  <2>6. CASE /\ Says(c.id, "final", {5}) /\ UNCHANGED <<link, dport>>
             /\ srv' = [st |-> "idle", id |-> c.id, verb |-> c.verb]
    <3>1. 5 >= rca_error /\ 5 \in 0 .. 9
      BY DEF rca_error
    <3> QED
      BY <2>5, <2>6, <3>1
  <2>7. CASE /\ c.verb \in {"other", "QUIT", "PORT", "RNTO"} /\ Says(c.id, "final", {2})
             /\ srv' = [st |-> "idle", id |-> c.id, verb |-> c.verb]
             /\ dport' = IF c.verb = "PORT" THEN [port |-> c.port, id |-> c.id] ELSE dport
    BY <2>4, <2>5, <2>7
  <2>8. CASE /\ c.verb = "RNFR" /\ Says(c.id, "inter", {3}) /\ UNCHANGED <<link, dport>>
             /\ srv' = [st |-> "idle", id |-> c.id, verb |-> c.verb]
    <3>1. 3 < rca_error /\ 3 \in 0 .. 9
      BY DEF rca_error
    <3>2. call.at = "RNFR"
      BY <2>4, <2>8
    <3> QED
      BY <2>5, <2>8, <3>1, <3>2
  <2>9. CASE /\ c.verb \in {"RETR", "LIST", "STOR"} /\ UNCHANGED <<flight, link, dport>>
             /\ srv' = [st |-> "begin", id |-> c.id, verb |-> c.verb]
    <3>1. Coming' = Coming /\ Stream'
      BY <2>2, <2>9, StreamSame DEF Phases
    <3>2. call.at = "transfer"
      BY <2>4, <2>9
    <3>3. Before' /\ Asking' /\ Serving' /\ Answered' /\ Linking'
      BY <1>1, <2>2, <2>3, <2>4, <2>9, <3>1, <3>2
         DEF Before, Asking, Serving, Answered, Linking, Greeted, client
    <3>4. Resting' /\ OurPort'
      BY <2>2, <2>4, <2>9, <3>2 DEF Phases, Resting, OurPort, Responses, client, inet
    <3> QED
      BY <3>1, <3>3, <3>4 DEF Phases
  <2> QED
    BY <1>5, <2>1, <2>6, <2>7, <2>8, <2>9, TransfersAre DEF Serves
<1>6. CASE Announces
  <2>1. /\ srv.st \in {"begin", "linked"} /\ Says(srv.id, "prelim", {1})
        /\ srv'.st = (IF srv.st = "begin" THEN "told" ELSE "moving") /\ srv'.id = srv.id
        /\ UNCHANGED <<area, link, inet, client, data, asked, dport, n, tidy>>
    BY <1>6 DEF Announces, Becomes, Base, ServerTyped
  <2>2. /\ Coming = <<>> /\ asked = <<>> /\ srv.id = n
        /\ call.at = "transfer" /\ call.firstline /\ Greeted
    BY <2>1 DEF Phases, Serving, Before
  <2>3. /\ Coming' # <<>> /\ Stream'
        /\ Fore'.kind \in {"only", "first"} /\ Fore'.part = "prelim"
        /\ \A i \in 1 .. Len(Coming') : Coming'[i].line.part = "prelim"
    BY <1>2, <1>3, <2>1, <2>2 DEF rca_error
  <2>4. Before' /\ Asking'
    BY <1>1, <2>1, <2>2, <2>3 DEF Before, Asking, Greeted, client
  <2>5. Serving' /\ Answered'
    BY <2>1, <2>2, <2>3 DEF Serving, Answered, client
  <2>6. Resting' /\ OurPort'
    BY <2>1, <2>2, <2>3 DEF Phases, Resting, OurPort, Responses, Greeted, client, inet
  <2>7. Linking'
    BY <2>1, <2>2 DEF Phases, Linking, client
  <2> QED
    BY <2>3, <2>4, <2>5, <2>6, <2>7 DEF Phases
<1>7. CASE DataConnects
  <2>1. /\ srv.st \in {"begin", "told"}
        /\ UNCHANGED <<area, link, inet, client, asked, dport, n, tidy>>
    BY <1>7 DEF DataConnects
  <2>2. CASE Says(srv.id, "final", {4}) /\ Becomes("idle")
    BY <2>1, <2>2, LastWord DEF rca_error
  <2>3. CASE /\ data' = [us |-> "backlog", them |-> "open"] /\ flight' = flight
             /\ Becomes(IF srv.st = "begin" THEN "linked" ELSE "moving")
    <3>1. srv'.st = (IF srv.st = "begin" THEN "linked" ELSE "moving") /\ srv'.id = srv.id
      BY <2>3 DEF Becomes, Base, ServerTyped
    <3>2. Coming' = Coming /\ Fore' = Fore /\ Stream'
      BY <2>1, <2>3, StreamSame DEF Phases
    <3>3. asked = <<>> /\ call.at \in {"transfer", "final"} \cup Moving
      BY <2>1 DEF Phases, Serving
    <3>4. Before' /\ Asking' /\ Serving' /\ Answered'
      BY <2>1, <3>1, <3>2, <3>3 DEF Phases, Before, Asking, Serving, Answered, Greeted, client
    <3>5. Resting' /\ OurPort' /\ Linking'
      BY <2>1, <2>3, <3>1, <3>2, <3>3
         DEF Phases, Resting, OurPort, Linking, Greeted, client, inet, Moving
    <3> QED
      BY <3>2, <3>4, <3>5 DEF Phases
  <2> QED
    BY <1>7, <2>2, <2>3 DEF DataConnects
<1>8. CASE Completes
  BY <1>8, LastWord DEF Completes
<1>9. CASE CompletesUnread
  BY <1>9, LastWord DEF CompletesUnread
<1>10. CASE Aborts
  BY <1>10, LastWord DEF Aborts
<1>11. ~Closes
  BY DEF Closes, Sane
<1> QED
  BY <1>4, <1>5, <1>6, <1>7, <1>8, <1>9, <1>10, <1>11

\* The steps that wait for the server, and those that end.
LEMMA EofPhases == ASSUME Sane, ResponseEof \/ ResponseFails, Sane' PROVE FALSE
<1>1. ~ResponseEof
  BY DEF ResponseEof, AtEof, Sane
<1>2. ~ResponseFails
  BY DEF ResponseFails, Throw, Sane
<1> QED
  BY <1>1, <1>2

\* What is untidy stays so, what has ended too.
LEMMA OnceOver ==
  ASSUME Next
  PROVE  /\ tidy' => tidy
         /\ link' # "fin" => link # "fin"
         /\ fate' = fate \/ fate' = "terminated"
<1>1. ASSUME NEW verb, NEW port, NEW c, NEW s, send_cmd(verb, port, c, s) PROVE tidy' => tidy
  BY <1>1 DEF send_cmd
<1>2. Throw => (tidy' => tidy)
  BY DEF Throw
<1>3. ASSUME NEW r, Got(r) PROVE tidy' => tidy
  BY <1>1, <1>3 DEF Got
<1>4. CASE Calls
  <2>1. CASE Connects
    BY <2>1 DEF Connects
  <2>2. CASE Command
    BY <1>1, <2>2 DEF Command, stream
  <2>3. CASE Useraddr
    BY <1>1, <2>3 DEF Useraddr, stream
  <2>4. CASE GetResponse \/ NoName \/ Transfer
    BY <2>4 DEF GetResponse, NoName, Transfer, stream
  <2>5. CASE Rename
    BY <1>1, <2>5 DEF Rename, stream
  <2> QED
    BY <1>4, <2>1, <2>2, <2>3, <2>4, <2>5 DEF Calls
<1>5. CASE BindUntilSuccess \/ DownAgain \/ UpDone \/ DownFails
  <2>1. CASE BindUntilSuccess
    <3>1. UNCHANGED <<stream, reply, kept, fate, server, n, tidy>>
      BY <2>1 DEF BindUntilSuccess
    <3> QED
      BY <3>1 DEF stream
  <2>2. CASE DownAgain \/ UpDone
    BY <2>2 DEF DownAgain, UpDone, stream, vars
  <2>3. CASE DownFails
    BY <1>2, <2>3 DEF DownFails, stream
  <2> QED
    BY <1>5, <2>1, <2>2, <2>3
<1>6. CASE UserAddrOfSb
  BY <1>1, <1>6 DEF UserAddrOfSb, stream
<1>7. CASE Accept
  BY <1>2, <1>7 DEF Accept, accept, stream
<1>8. CASE UpFails
  BY <1>2, <1>8 DEF UpFails, stream
<1>9. CASE ResponseRefill
  BY <1>9 DEF ResponseRefill, Refill, client
<1>10. CASE ResponseLine
  <2>1. UNCHANGED <<link, fate>>
    BY <1>10 DEF ResponseLine
  <2>2. CASE \E r : Got(r)
    BY <1>3, <2>1, <2>2
  <2>3. CASE tidy' = tidy
    BY <2>1, <2>3
  <2>4. (\E r : Got(r)) \/ tidy' = tidy
    <3>1. CASE call.firstline
      BY <1>10, <3>1 DEF ResponseLine
    <3>2. CASE ~call.firstline
      BY <1>10, <3>2 DEF ResponseLine
    <3> QED
      BY <3>1, <3>2
  <2> QED
    BY <2>2, <2>3, <2>4
<1>11. CASE ResponseEof
  BY <1>3, <1>11 DEF ResponseEof, stream
<1>12. CASE ResponseFails
  BY <1>2, <1>12 DEF ResponseFails, stream
<1>13. CASE Greets \/ Announces \/ DataConnects
  BY <1>13 DEF Greets, Announces, DataConnects, client
<1>14. CASE Serves
  BY <1>14 DEF Serves, client
<1>15. CASE Completes \/ CompletesUnread \/ Aborts \/ Closes
  BY <1>15 DEF Completes, CompletesUnread, Aborts, Closes, client
<1> QED
  BY <1>4, <1>5, <1>6, <1>7, <1>8, <1>9, <1>10, <1>11, <1>12, <1>13, <1>14, <1>15
     DEF Next, Proceeds, Fails, Server, ServerMay

\* A terminated client has left the server with nothing to do.
LEMMA StepOver == ASSUME IInv, Next PROVE Over'
<1>1. Base /\ Over /\ (Sane => Phases)
  BY DEF IInv
<1>2. /\ tidy' => tidy
      /\ link' # "fin" => link # "fin"
      /\ fate' = fate \/ fate' = "terminated"
  BY OnceOver
<1>3. SUFFICES ASSUME fate' = "terminated"
               PROVE  /\ call' = Idle /\ out' = Nothing
                      /\ tidy' /\ link' # "fin" => srv'.st = "idle" /\ asked' = <<>>
  BY DEF Over
<1>4. CASE fate = "terminated"
  <2>1. /\ call = Idle /\ call.at = "no" /\ out = Nothing
        /\ tidy /\ link # "fin" => srv.st = "idle" /\ asked = <<>>
    BY <1>1, <1>4 DEF Over, Idle
  <2>2. ~Calls
    BY <1>4 DEF Calls, Connects, Command, Useraddr, GetResponse, Rename, Transfer, NoName, CanCall
  <2>3. ~BindUntilSuccess /\ ~UserAddrOfSb /\ ~UpDone /\ ~DownAgain /\ ~Accept /\ ~DownFails /\ ~UpFails
    BY <2>1 DEF BindUntilSuccess, UserAddrOfSb, UpDone, DownAgain, Accept, DownFails, UpFails
  <2>4. ~ResponseRefill /\ ~ResponseLine /\ ~ResponseEof /\ ~ResponseFails
    BY <2>1 DEF ResponseRefill, ResponseLine, ResponseEof, ResponseFails, Responding, Responses
  <2>5. \/ Greets \/ Serves \/ Announces \/ DataConnects \/ Completes
        \/ CompletesUnread \/ Aborts \/ Closes
    BY <2>2, <2>3, <2>4 DEF Next, Proceeds, Fails, Server, ServerMay
  <2>6. UNCHANGED client
    BY <2>5 DEF Greets, Serves, Announces, DataConnects, Completes, CompletesUnread, Aborts, Closes
  <2>7. ASSUME tidy', link' # "fin" PROVE FALSE
    <3>1. srv.st = "idle" /\ asked = <<>>
      BY <1>2, <2>1, <2>7
    <3> QED
      BY <2>5, <2>7, <3>1
         DEF Greets, Serves, Announces, DataConnects, Completes, CompletesUnread, Aborts, Closes
  <2> QED
    BY <2>1, <2>6, <2>7 DEF client
<1>5. CASE fate # "terminated"
  <2>1. UpFails
    <3>1. Calls => fate' = fate
      BY DEF Calls, Connects, Command, Useraddr, GetResponse, Rename, Transfer, NoName
    <3>2. BindUntilSuccess \/ UserAddrOfSb \/ UpDone \/ DownAgain \/ Accept \/ DownFails => fate' = fate
      BY DEF BindUntilSuccess, UserAddrOfSb, UpDone, DownAgain, Accept, DownFails, vars
    <3>3. ResponseRefill \/ ResponseLine \/ ResponseEof \/ ResponseFails => fate' = fate
      BY DEF ResponseRefill, ResponseLine, ResponseEof, ResponseFails, client
    <3>4. Server \/ ServerMay => fate' = fate
      BY DEF Server, ServerMay, Greets, Serves, Announces, DataConnects, Completes,
             CompletesUnread, Aborts, Closes, client
    <3> QED
      BY <1>3, <1>5, <3>1, <3>2, <3>3, <3>4 DEF Next, Proceeds, Fails
  <2>2. /\ call.at = "up" /\ data.them = "reset" /\ Leave(Nothing)
        /\ UNCHANGED <<tidy, kept, asked, n>> /\ UNCHANGED <<stream, portno, reply, srv, dport>>
    BY <1>3, <1>5, <2>1 DEF UpFails
  <2>3. call' = Idle /\ out' = Nothing
    BY <2>2 DEF Leave
  <2>4. ASSUME tidy', link' # "fin" PROVE srv.st = "idle" /\ asked = <<>>
    <3>1. Sane /\ Phases
      BY <1>1, <1>2, <1>5, <2>4 DEF Sane, Base, ClientTyped
    <3>2. asked = <<>> /\ srv.st # "greet"
      BY <2>2, <3>1 DEF Phases, Asking, Before
    <3>3. srv.st \in {"greet", "idle"}
      BY <1>1, <2>2, <3>1 DEF Phases, Linking, Base, ServerTyped
    <3> QED
      BY <3>2, <3>3
  <2> QED
    BY <2>2, <2>3, <2>4
<1> QED
  BY <1>4, <1>5

\* Every step keeps the invariant.
LEMMA StepIInv == ASSUME IInv, [Next]_vars PROVE IInv'
<1>1. Base /\ Base' /\ (Sane => Phases)
  BY StepBase DEF IInv
<1>2. CASE UNCHANGED vars
  <2>1. Over'
    BY <1>2 DEF IInv, Over, vars
  <2>2. Sane' => Sane
    BY <1>2 DEF Sane, vars
  <2>3. Stream => Stream' /\ Coming' = Coming /\ Fore' = Fore
    BY <1>2, StreamSame DEF vars
  <2>4. Phases => Phases'
    BY <1>2, <2>3, StreamSame DEF Phases, Before, Asking, Serving, Answered, Resting, OurPort,
                                   Linking, Greeted, vars
  <2> QED
    BY <1>1, <2>1, <2>2, <2>4 DEF IInv
<1>3. CASE Next
  <2>1. Over'
    BY <1>3, StepOver
  <2>2. ASSUME Sane' PROVE Phases'
    <3>1. Sane /\ Phases
      BY <1>1, <1>3, <2>2, OnceOver DEF Sane
    <3>2. \/ Calls \/ BindUntilSuccess \/ UserAddrOfSb \/ UNCHANGED vars
          \/ Accept \/ DownFails \/ UpDone \/ UpFails
          \/ ResponseRefill \/ ResponseLine \/ ResponseEof \/ ResponseFails
          \/ Greets \/ Serves \/ Announces \/ DataConnects \/ Completes
          \/ CompletesUnread \/ Aborts \/ Closes
      BY <1>3 DEF Next, Proceeds, Fails, Server, ServerMay, DownAgain
    <3>3. UNCHANGED vars => Phases'
      BY <1>2, <2>2 DEF IInv
    <3> QED
      BY <1>1, <2>2, <3>1, <3>2, <3>3, CallsPhases, BindPhases, UserAddrPhases, DataPhases,
         RefillPhases, LinePhases, EofPhases, ServerPhases
  <2> QED
    BY <1>1, <2>1, <2>2 DEF IInv
<1> QED
  BY <1>2, <1>3

\* The invariant.
LEMMA Always == Spec => []IInv
<1>1. Init => IInv
  BY InitIInv
<1>2. IInv /\ [Next]_vars => IInv'
  BY StepIInv
<1> QED
  BY <1>1, <1>2, PTL DEF Spec

\* Type correctness, and with it the one bound of TypeOK that is no type: the
\* search for a free port ends at the latest at the least reserved port behind
\* port 0 (ftp.cpp, ftpdata; sockinet.cpp, bind_until_success).
THEOREM Typed == Spec => []TypeOK
BY Always, IInvMeans, PTL

\* The code that a tidy client's call returns is that of the server's last word
\* on that call's latest command, and no line of a reply is left for the next,
\* however many lines the replies have and wherever the reads cut them
\* (ftp::ftpbuf::get_response).
THEOREM RepliesInStep == Spec => []InStep
BY Always, IInvMeans, PTL

\* The port that the server has been told for a transfer is the one our socket
\* listens on, whichever port the search ended with (ftp::ftpbuf::ftpdata).
THEOREM ServerReachesUs == Spec => []DataReachesUs
BY Always, IInvMeans, PTL
=============================================================================

----------------------------- MODULE SmtpProofs -----------------------------
(***************************************************************************)
(* Proofs about smtp::smtpbuf, for any sizes of chunks and texts, any      *)
(* number of commands and any cuts of the stream of replies.               *)
(*                                                                         *)
(* The properties of Smtp are not inductive alone.  That a reply shown is  *)
(* the one to the latest command (InStep) needs to know which commands and *)
(* ends of texts are still on their way, that the receiver will answer     *)
(* them one by one, which replies are there already and in which order,    *)
(* and where in a reply the call in progress is: Phases.  That a message   *)
(* arrives (MessageDelivered) needs to know that what is on its way of it, *)
(* with the dots that are taken off there, spells what the receiver does   *)
(* not have yet: Delivery.  All this holds while the client is tidy and    *)
(* the receiver has not closed; the types, Base, always do.                *)
(***************************************************************************)
EXTENDS Smtp, BytesProofs

------------------------------------------------------------------------------
(* What there is: the parts of a state.                                    *)

Kinds == {"only", "first", "last"}
Glyphs == {"a", ".", "\n"}
Verbs == Commands \cup Glyphs

\* Lines of replies, and chars of them; the greeting has one line.
Lines == {l \in [id : 0 .. MaxCmds, part : {"final"}, code : {2}, kind : Kinds] :
            l.kind # "only" => l.id > 0}
CharSet == [line : Lines, at : 1 .. 6]

\* What the client sends: only commands and ends of messages have a number.
ItemSet == {x \in [verb : Verbs, id : 0 .. MaxCmds] :
              /\ x.verb \in {"a", "."} => x.id = 0
              /\ x.verb \in Commands => x.id > 0}
Places == [op : {"none", "helo", "command", "buffer", "file", "show"},
           at : Responses \cup {"no", "text", "show"}]
Letters == [id : 0 .. MaxCmds, lines : Seq(Verbs)]
Seams == [ch : Glyphs \cup {"none"}, dot : BOOLEAN]
Messages == [text : Seq(Glyphs), id : 0 .. MaxCmds, seam : Seams, spoilt : BOOLEAN]

\* Which char may come behind which, in a line and behind one.
Turn == {cd \in CharSet \X CharSet :
           \/ ~IsLF(cd[1]) /\ cd[2].line = cd[1].line /\ cd[2].at = cd[1].at + 1
           \/ IsLF(cd[1]) /\ cd[2].at = 1}

\* What has been written and is not consumed, and what has been sent or will be.
Coming == area \o flight
Wire == inbox \o put

\* A stream that ends with the end of a line.
Closed(w) == w # <<>> => IsLF(w[Len(w)])

Numbers(s, m) == \A i \in 1 .. Len(s) : s[i].id <= m
LineNumbers(s, m) == \A i \in 1 .. Len(s) : s[i].line.id <= m

StreamBase ==
  /\ area \in Seq(CharSet) /\ flight \in Seq(CharSet)
  /\ link \in {"none", "open", "fin"} /\ output \in BOOLEAN
  /\ Linked(Coming, Turn) /\ Closed(Coming)
  /\ LineNumbers(Coming, n)
  /\ output /\ Coming # <<>> => Coming[1].at = 1
WireBase ==
  /\ inbox \in Seq(ItemSet) /\ put \in Seq(ItemSet)
  /\ Numbers(inbox, n) /\ Numbers(put, n)
Calling(c, o) ==
  /\ c \in Places
  /\ o \in {"none", "returned", "shown", "err"}
  /\ c.op = "none" <=> c.at = "no"
  /\ c.op = "show" <=> c.at = "show"
  /\ o # "none" => c = Idle
CallBase ==
  /\ Calling(call, out)
  /\ call.at \in {"greeting", "DATA", "text"} => n < MaxCmds
  /\ output => call.op # "show"
  /\ ~output => call.at \in {"no", "text", "show"}
MailBase ==
  /\ mode \in {"greet", "cmd", "data"}
  /\ text \in Letters /\ mail \in Letters
  /\ text.id <= n /\ mail.id <= n
  /\ mode = "data" <=> text.id > 0
MsgBase == msg \in Messages /\ msg.id <= n /\ Len(msg.text) <= MaxText
CountBase ==
  /\ n \in 0 .. MaxCmds /\ shows \in 0 .. n + 1 /\ seen \in -1 .. n
  /\ tidy \in BOOLEAN

Base == StreamBase /\ WireBase /\ CallBase /\ MailBase /\ MsgBase /\ CountBase

------------------------------------------------------------------------------
(* The chars of a reply.                                                   *)

\* Which line comes behind which: in a reply, and behind one.
Follow(l, m) ==
  \/ l.kind = "first" /\ m.kind = "last" /\ m.id = l.id
  \/ l.kind # "first" /\ m.kind # "last" /\ m.id = l.id + 1

\* Which char comes behind which when the replies come in order.
Order == {cd \in Turn : IsLF(cd[1]) => Follow(cd[1].line, cd[2].line)}

\* Whole lines: what begins and ends where a line does.
Whole(w) == w # <<>> => w[1].at = 1 /\ IsLF(w[Len(w)])

\* A stream in which the replies come in order is one of lines.
LEMMA OrderIsTurn ==
  ASSUME NEW w, Linked(w, Order)
  PROVE  Linked(w, Turn)
BY DEF Linked, Order

\* The chars of a line.
LEMMA LineChars ==
  ASSUME NEW l \in Lines
  PROVE  LET w == Chars(l) IN
         /\ w \in Seq(CharSet) /\ w # <<>> /\ Len(w) = 6
         /\ \A i \in 1 .. Len(w) : w[i].line = l
         /\ Whole(w) /\ Linked(w, Order)
<1>1. PICK w : w = Chars(l)
  OBVIOUS
<1>2. l.kind \in Kinds
  BY DEF Lines
<1>3. Length(l) = 6
  BY <1>2 DEF Length, Kinds
<1>4. w = [i \in 1 .. 6 |-> [line |-> l, at |-> i]]
  BY <1>1, <1>3 DEF Chars
<1>5. \A i \in 1 .. 6 : [line |-> l, at |-> i] \in CharSet
  BY DEF CharSet
<1>6. w \in Seq(CharSet) /\ Len(w) = 6
  <2>1. PICK k : k = 6
    OBVIOUS
  <2>2. k \in Nat /\ w \in [1 .. k -> CharSet]
    BY <1>4, <1>5, <2>1
  <2>3. w \in Seq(CharSet)
    BY <2>2
  <2> QED
    BY <1>4, <2>3
<1>7. w # <<>>
  BY <1>6, EmptySeq
<1>8. \A i \in 1 .. 6 : w[i] = [line |-> l, at |-> i]
  BY <1>4
<1>9. Whole(w)
  <2>1. w[1].at = 1 /\ w[6].at = 6 /\ w[6].line = l
    BY <1>8
  <2> QED
    BY <1>3, <1>6, <2>1 DEF Whole, IsLF
<1>10. Linked(w, Order)
  <2>1. ASSUME NEW i \in 1 .. 5 PROVE <<w[i], w[i + 1]>> \in Order
    <3>1. i \in 1 .. 6 /\ i + 1 \in 1 .. 6 /\ i # 6
      OBVIOUS
    <3>2. PICK c, d : c = w[i] /\ d = w[i + 1]
      OBVIOUS
    <3>3. c = [line |-> l, at |-> i] /\ d = [line |-> l, at |-> i + 1]
      BY <1>8, <3>1, <3>2
    <3>4. c \in CharSet /\ d \in CharSet
      BY <1>5, <3>1, <3>3
    <3>5. ~IsLF(c) /\ d.line = c.line /\ d.at = c.at + 1
      BY <1>3, <3>1, <3>3 DEF IsLF
    <3> QED
      BY <3>2, <3>4, <3>5 DEF Order, Turn
  <2>2. 1 .. Len(w) - 1 = 1 .. 5
    BY <1>6
  <2> QED
    BY <2>1, <2>2 DEF Linked
<1> QED
  BY <1>1, <1>6, <1>7, <1>8, <1>9, <1>10

\* r is a reply: whole lines, that begin and end as a reply does.
IsReply(r, id) ==
  /\ r \in Seq(CharSet) /\ r # <<>>
  /\ Linked(r, Order) /\ Whole(r)
  /\ \A i \in 1 .. Len(r) : r[i].line.id = id
  /\ r[1].line.kind # "last" /\ r[Len(r)].line.kind # "first"
  /\ id = 0 => r[1].line.kind = "only"

\* What the receiver says is a reply.
LEMMA SaysIs ==
  ASSUME NEW id \in 0 .. MaxCmds, Says(id)
  PROVE  \E r : IsReply(r, id) /\ flight' = flight \o r
<1> DEFINE L(k) == Line(id, "final", 2, k)
<1>1. \A k \in Kinds : id > 0 \/ k = "only" => L(k) \in Lines
  BY DEF Line, Lines
<1>2. /\ \A k \in Kinds : L(k).id = id /\ L(k).kind = k
      /\ "only" \in Kinds /\ "first" \in Kinds /\ "last" \in Kinds
  BY DEF Line, Kinds
<1>3. CASE Writes(Reply(id, "final", 2, Single))
  <2>1. PICK ss : ss = [i \in DOMAIN Single |-> Chars(L(Single[i]))]
    OBVIOUS
  <2>2. Len(ss) = 1 /\ ss[1] = Chars(L("only"))
    BY <2>1 DEF Single
  <2>3. Reply(id, "final", 2, Single) = Chars(L("only"))
    BY <2>1, <2>2, FlattenOne DEF Reply
  <2>4. PICK r, l : r = Chars(l) /\ l = L("only")
    OBVIOUS
  <2>5. l \in Lines
    BY <1>1, <1>2, <2>4
  <2>6. /\ r \in Seq(CharSet) /\ r # <<>> /\ Len(r) = 6
        /\ \A i \in 1 .. Len(r) : r[i].line = l
        /\ Whole(r) /\ Linked(r, Order)
    BY <2>4, <2>5, LineChars
  <2>7. l.id = id /\ l.kind = "only"
    BY <1>2, <2>4
  <2>8. 1 \in 1 .. Len(r) /\ Len(r) \in 1 .. Len(r)
    BY <2>6
  <2>9. IsReply(r, id)
    BY <2>6, <2>7, <2>8 DEF IsReply
  <2>10. flight' = flight \o r
    BY <1>3, <2>3, <2>4 DEF Writes
  <2> QED
    BY <2>9, <2>10
<1>4. CASE id > 0 /\ Writes(Reply(id, "final", 2, <<"first", "last">>))
  <2>1. PICK ss : ss = [i \in DOMAIN <<"first", "last">> |-> Chars(L(<<"first", "last">>[i]))]
    OBVIOUS
  <2>2. Len(ss) = 2 /\ ss[1] = Chars(L("first")) /\ ss[2] = Chars(L("last"))
    BY <2>1
  <2>3. Reply(id, "final", 2, <<"first", "last">>) = Chars(L("first")) \o Chars(L("last"))
    BY <2>1, <2>2, FlattenTwo DEF Reply
  <2>4. PICK u, v, l, m : /\ u = Chars(l) /\ l = L("first")
                          /\ v = Chars(m) /\ m = L("last")
    OBVIOUS
  <2>5. l \in Lines /\ m \in Lines
    BY <1>1, <1>2, <1>4, <2>4
  <2>6. /\ u \in Seq(CharSet) /\ u # <<>> /\ Len(u) = 6
        /\ \A i \in 1 .. Len(u) : u[i].line = l
        /\ Whole(u) /\ Linked(u, Order)
    BY <2>4, <2>5, LineChars
  <2>7. /\ v \in Seq(CharSet) /\ v # <<>> /\ Len(v) = 6
        /\ \A i \in 1 .. Len(v) : v[i].line = m
        /\ Whole(v) /\ Linked(v, Order)
    BY <2>4, <2>5, LineChars
  <2>8. l.id = id /\ l.kind = "first" /\ m.id = id /\ m.kind = "last"
    BY <1>2, <2>4
  <2>9. <<u[6], v[1]>> \in Order
    <3>1. u[6] \in CharSet /\ v[1] \in CharSet
      <4>1. 6 \in 1 .. Len(u) /\ 1 \in 1 .. Len(v)
        BY <2>6, <2>7
      <4> QED
        BY <2>6, <2>7, <4>1, ElementOfSeq
    <3>2. u[6].line = l /\ v[1].line = m /\ IsLF(u[6]) /\ v[1].at = 1
      BY <2>6, <2>7 DEF Whole
    <3> QED
      BY <2>8, <3>1, <3>2 DEF Order, Turn, Follow
  <2>10. PICK r : r = u \o v
    OBVIOUS
  <2>11. /\ r \in Seq(CharSet) /\ Len(r) = 12
         /\ \A i \in 1 .. 6 : r[i] = u[i]
         /\ \A i \in 1 .. 6 : r[6 + i] = v[i]
    <3>1. u \in Seq(CharSet) /\ v \in Seq(CharSet)
      BY <2>6, <2>7
    <3>2. /\ u \o v \in Seq(CharSet) /\ Len(u \o v) = Len(u) + Len(v)
          /\ \A i \in 1 .. Len(u) : (u \o v)[i] = u[i]
          /\ \A i \in 1 .. Len(v) : (u \o v)[Len(u) + i] = v[i]
      BY <3>1, JoinParts
    <3>3. Len(u) = 6 /\ Len(v) = 6
      BY <2>6, <2>7
    <3> QED
      BY <2>10, <3>2, <3>3
  <2>12. Linked(r, Order)
    BY <2>6, <2>7, <2>9, <2>10, LinkedJoin
  <2>13. /\ \A i \in 1 .. 6 : r[i].line = l
         /\ \A i \in 1 .. 6 : r[6 + i].line = m
         /\ r[1].at = 1 /\ IsLF(r[12])
    <3>1. r[1] = u[1] /\ r[12] = v[6]
      <4>1. 1 \in 1 .. 6 /\ 6 \in 1 .. 6 /\ 6 + 6 = 12
        OBVIOUS
      <4> QED
        BY <2>11, <4>1
    <3> QED
      BY <2>6, <2>7, <2>11, <3>1 DEF Whole
  <2>14. \A i \in 1 .. 12 : r[i].line.id = id
    <3> TAKE i \in 1 .. 12
    <3>1. CASE i <= 6
      BY <2>8, <2>13, <3>1
    <3>2. CASE i > 6
      <4>1. PICK j : j = i - 6
        OBVIOUS
      <4>2. j \in 1 .. 6 /\ i = 6 + j
        BY <3>2, <4>1
      <4> QED
        BY <2>8, <2>13, <4>2
    <3> QED
      BY <3>1, <3>2
  <2>15. r[1].line = l /\ r[12].line = m
    <3>1. 1 \in 1 .. 6 /\ 6 \in 1 .. 6 /\ 6 + 6 = 12
      OBVIOUS
    <3> QED
      BY <2>13, <3>1
  <2>16. r # <<>>
    <3>1. Len(r) # 0
      BY <2>11
    <3> QED
      BY <3>1, EmptySeq
  <2>17. IsReply(r, id)
    BY <1>4, <2>8, <2>11, <2>12, <2>13, <2>14, <2>15, <2>16 DEF IsReply, Whole
  <2>18. flight' = flight \o r
    BY <1>4, <2>3, <2>4, <2>10 DEF Writes
  <2> QED
    BY <2>17, <2>18
<1> QED
  BY <1>3, <1>4 DEF Says

------------------------------------------------------------------------------
(* What send_buf makes of a chunk.                                         *)

\* g is where the chars of a chunk are in what is sent for it, c: one behind
\* the other, but for a dot in front of a dot at the beginning, or behind a
\* newline; behind a newline at the end there is one when a dot lies behind.
CharsAt(g, c, chunk, behind) ==
  /\ g[1] = IF chunk[1] = "." THEN 2 ELSE 1
  /\ chunk[1] = "." => c[1] = "."
  /\ \A i \in 1 .. Len(chunk) : g[i] \in 1 .. Len(c) /\ c[g[i]] = chunk[i]
  /\ \A i \in 2 .. Len(chunk) :
       IF chunk[i - 1] = "\n" /\ chunk[i] = "."
       THEN g[i] = g[i - 1] + 2 /\ c[g[i] - 1] = "."
       ELSE g[i] = g[i - 1] + 1
  /\ IF chunk[Len(chunk)] = "\n" /\ behind = "."
     THEN Len(c) = g[Len(chunk)] + 1 /\ c[Len(c)] = "."
     ELSE Len(c) = g[Len(chunk)]

\* What send_buf makes of a chunk.
LEMMA StuffedIs ==
  ASSUME NEW m \in Nat \ {0}, NEW chunk \in [1 .. m -> Glyphs], NEW behind \in Behind
  PROVE  /\ Stuffed(chunk, behind) \in Seq(Glyphs)
         /\ \E g \in [1 .. m -> Nat] : CharsAt(g, Stuffed(chunk, behind), chunk, behind)
<1>1. chunk \in Seq(Glyphs) /\ Len(chunk) = m /\ DOMAIN chunk = 1 .. m
  BY DEF Glyphs
<1> DEFINE next(i) == IF i < m THEN chunk[i + 1] ELSE behind
           ends(i) == chunk[i] = "\n" /\ next(i) = "."
<1>2. PICK ss : ss = [i \in 1 .. m |-> IF ends(i) THEN <<"\n", ".">> ELSE <<chunk[i]>>]
  OBVIOUS
<1>3. PICK h : h = IF chunk[1] = "." THEN <<".">> ELSE <<>>
  OBVIOUS
<1>4. Stuffed(chunk, behind) = h \o FlattenSeq(ss)
  <2>1. Head(chunk) = chunk[1]
    BY <1>1
  <2> QED
    BY <1>1, <1>2, <1>3, <2>1 DEF Stuffed
<1>5. ASSUME NEW i \in 1 .. m
      PROVE  /\ ss[i] \in Seq(Glyphs)
             /\ ss[i][1] = chunk[i]
             /\ IF ends(i) THEN Len(ss[i]) = 2 /\ ss[i][2] = "." ELSE Len(ss[i]) = 1
  <2>1. chunk[i] \in Glyphs /\ "\n" \in Glyphs /\ "." \in Glyphs
    BY DEF Glyphs
  <2>2. CASE ends(i)
    <3>1. ss[i] = <<"\n", ".">>
      BY <1>2, <2>2
    <3> QED
      BY <2>1, <2>2, <3>1
  <2>3. CASE ~ends(i)
    <3>1. ss[i] = <<chunk[i]>>
      BY <1>2, <2>3
    <3> QED
      BY <2>1, <2>3, <3>1
  <2> QED
    BY <2>2, <2>3
<1> HIDE DEF ends
<1>6. ss \in [1 .. m -> Seq(Glyphs)]
  BY <1>2, <1>5
<1>7. PICK f : Joins(f, ss, m, Glyphs) /\ FlattenSeq(ss) = f[m]
  BY <1>6, Folded
<1> USE DEF Joins
<1>8. PICK p : p = [i \in 1 .. m |-> IF i = 1 THEN 0 ELSE Len(f[i - 1])]
  OBVIOUS
<1>9. ASSUME NEW i \in 1 .. m
      PROVE  /\ p[i] \in Nat /\ Len(f[i]) \in Nat /\ Len(ss[i]) \in {1, 2}
             /\ Len(f[i]) = p[i] + Len(ss[i])
             /\ \A j \in 1 .. Len(ss[i]) : f[i][p[i] + j] = ss[i][j]
  <2>1. Len(ss[i]) \in {1, 2} /\ Len(f[i]) \in Nat
    BY <1>5, LenProperties
  <2>2. CASE i = 1
    BY <1>7, <1>8, <2>1, <2>2
  <2>3. CASE i # 1
    <3>1. PICK u, v : u = f[i - 1] /\ v = ss[i]
      OBVIOUS
    <3>2. i - 1 \in 1 .. m /\ i \in 2 .. m
      BY <2>3
    <3>3. u \in Seq(Glyphs) /\ v \in Seq(Glyphs)
      BY <1>6, <1>7, <3>1, <3>2
    <3>4. f[i] = u \o v /\ p[i] = Len(u)
      BY <1>7, <1>8, <2>3, <3>1, <3>2
    <3>5. /\ Len(u \o v) = Len(u) + Len(v) /\ Len(u) \in Nat
          /\ \A j \in 1 .. Len(v) : (u \o v)[Len(u) + j] = v[j]
      BY <3>3, JoinParts
    <3> QED
      BY <2>1, <3>1, <3>4, <3>5
  <2> QED
    BY <2>2, <2>3
<1>10. \A i \in 2 .. m : p[i] = Len(f[i - 1])
  BY <1>8
<1>11. ASSUME NEW i \in 1 .. m
       PROVE  /\ Len(f[i]) <= Len(f[m])
              /\ \A j \in 1 .. Len(f[i]) : f[m][j] = f[i][j]
  <2> DEFINE T == {k \in i .. m : /\ Len(f[i]) <= Len(f[k])
                                  /\ \A j \in 1 .. Len(f[i]) : f[k][j] = f[i][j]}
  <2>1. i \in T
    BY <1>9
  <2>2. ASSUME NEW k \in i .. m - 1, k \in T PROVE k + 1 \in T
    <3>1. k + 1 \in 2 .. m /\ k \in 1 .. m /\ k + 1 \in 1 .. m /\ (k + 1) - 1 = k /\ k + 1 \in i .. m
      OBVIOUS
    <3>2. PICK u, v : u = f[k] /\ v = ss[k + 1]
      OBVIOUS
    <3>3. u \in Seq(Glyphs) /\ v \in Seq(Glyphs)
      BY <1>6, <1>7, <3>1, <3>2
    <3>4. f[k + 1] = u \o v
      BY <1>7, <3>1, <3>2
    <3>5. /\ Len(u \o v) = Len(u) + Len(v) /\ Len(u) \in Nat /\ Len(v) \in Nat
          /\ \A j \in 1 .. Len(u) : (u \o v)[j] = u[j]
      BY <3>3, JoinParts
    <3>6. Len(f[i]) <= Len(u) /\ \A j \in 1 .. Len(f[i]) : u[j] = f[i][j]
      BY <2>2, <3>2
    <3>7. Len(f[i]) \in Nat
      BY <1>9
    <3>8. \A j \in 1 .. Len(f[i]) : j \in 1 .. Len(u)
      BY <3>5, <3>6, <3>7
    <3>9. Len(f[i]) <= Len(f[k + 1]) /\ \A j \in 1 .. Len(f[i]) : f[k + 1][j] = f[i][j]
      BY <3>4, <3>5, <3>6, <3>7, <3>8
    <3> QED
      BY <3>1, <3>9
  <2>3. m \in T
    <3> HIDE DEF T
    <3>1. i \in Nat /\ m \in Nat /\ m \in i .. m
      OBVIOUS
    <3>2. \A k \in i .. m : k \in T
      BY <2>1, <2>2, <3>1, Climb
    <3> QED
      BY <3>1, <3>2
  <2> QED
    BY <2>3
<1>12. PICK c, d, e : c = h \o f[m] /\ d = Len(h) /\ e = f[m]
  OBVIOUS
<1>13. c = Stuffed(chunk, behind)
  BY <1>4, <1>7, <1>12
<1>14. h \in Seq(Glyphs) /\ d = (IF chunk[1] = "." THEN 1 ELSE 0) /\ (chunk[1] = "." => h[1] = ".")
  <2>1. "." \in Glyphs
    BY DEF Glyphs
  <2>2. CASE chunk[1] = "."
    <3>1. h = <<".">>
      BY <1>3, <2>2
    <3>2. h \in Seq(Glyphs) /\ Len(h) = 1 /\ h[1] = "."
      BY <2>1, <3>1
    <3> QED
      BY <1>12, <2>2, <3>2
  <2>3. CASE chunk[1] # "."
    <3>1. h = <<>>
      BY <1>3, <2>3
    <3>2. h \in Seq(Glyphs) /\ Len(h) = 0
      BY <3>1
    <3> QED
      BY <1>12, <2>3, <3>2
  <2> QED
    BY <2>2, <2>3
<1>15. m \in 1 .. m /\ 1 \in 1 .. m
  OBVIOUS
<1>16. e \in Seq(Glyphs)
  BY <1>7, <1>12, <1>15
<1>17. /\ c \in Seq(Glyphs) /\ Len(c) = d + Len(e) /\ d \in Nat /\ Len(e) \in Nat
       /\ \A j \in 1 .. d : c[j] = h[j]
       /\ \A j \in 1 .. Len(e) : c[d + j] = e[j]
  <2>1. h \in Seq(Glyphs)
    BY <1>14
  <2>2. c = h \o e
    BY <1>12
  <2>3. /\ h \o e \in Seq(Glyphs) /\ Len(h \o e) = Len(h) + Len(e)
        /\ Len(h) \in Nat /\ Len(e) \in Nat
        /\ \A j \in 1 .. Len(h) : (h \o e)[j] = h[j]
        /\ \A j \in 1 .. Len(e) : (h \o e)[Len(h) + j] = e[j]
    BY <1>16, <2>1, JoinParts
  <2> QED
    BY <1>12, <2>2, <2>3
<1>18. PICK g : g = [i \in 1 .. m |-> d + p[i] + 1]
  OBVIOUS
<1>19. \A i \in 1 .. m : g[i] = d + p[i] + 1 /\ g[i] \in Nat
  BY <1>9, <1>17, <1>18
<1>20. ASSUME NEW i \in 1 .. m PROVE g[i] \in 1 .. Len(c) /\ c[g[i]] = chunk[i]
  <2>1. PICK j : j = p[i] + 1
    OBVIOUS
  <2>2. j \in 1 .. Len(f[i]) /\ f[i][j] = ss[i][1]
    <3>1. 1 \in 1 .. Len(ss[i]) /\ p[i] \in Nat /\ Len(f[i]) = p[i] + Len(ss[i]) /\ Len(ss[i]) \in {1, 2}
      <4>1. /\ p[i] \in Nat /\ Len(f[i]) = p[i] + Len(ss[i]) /\ Len(ss[i]) \in {1, 2}
        BY <1>9
      <4>2. PICK q : q = Len(ss[i])
        OBVIOUS
      <4>3. q \in {1, 2}
        BY <4>1, <4>2
      <4>4. 1 \in 1 .. q
        BY <4>3
      <4> QED
        BY <4>1, <4>2, <4>4
    <3>2. f[i][p[i] + 1] = ss[i][1]
      BY <1>9, <3>1
    <3> QED
      BY <2>1, <3>1, <3>2
  <2>3. j \in 1 .. Len(e) /\ e[j] = chunk[i]
    <3>1. Len(f[i]) <= Len(e) /\ e[j] = f[i][j]
      BY <1>11, <1>12, <2>2
    <3> QED
      BY <1>5, <1>9, <1>17, <2>2, <3>1
  <2>4. g[i] = d + j
    BY <1>9, <1>17, <1>19, <2>1
  <2> QED
    BY <1>17, <2>3, <2>4
<1>21. ASSUME NEW i \in 2 .. m
       PROVE  IF chunk[i - 1] = "\n" /\ chunk[i] = "."
              THEN g[i] = g[i - 1] + 2 /\ c[g[i] - 1] = "."
              ELSE g[i] = g[i - 1] + 1
  <2>1. PICK k : k = i - 1
    OBVIOUS
  <2>2. k \in 1 .. m /\ k < m /\ k + 1 = i /\ i \in 1 .. m
    BY <2>1
  <2>3. p[i] = p[k] + Len(ss[k]) /\ p[i] = Len(f[k])
    BY <1>9, <1>10, <2>1, <2>2
  <2>4. ends(k) <=> chunk[k] = "\n" /\ chunk[i] = "."
    BY <2>2 DEF ends
  <2>5. g[i] = d + p[i] + 1 /\ g[k] = d + p[k] + 1 /\ p[k] \in Nat /\ p[i] \in Nat
    BY <1>9, <1>19, <2>2
  <2>6. CASE ends(k)
    <3>1. Len(ss[k]) = 2 /\ ss[k][2] = "."
      BY <1>5, <2>2, <2>6
    <3>2. 2 \in 1 .. Len(ss[k])
      BY <3>1
    <3>3. f[k][p[k] + 2] = "."
      BY <1>9, <2>2, <3>1, <3>2
    <3>4. PICK j : j = p[k] + 2
      OBVIOUS
    <3>5. j \in 1 .. Len(f[k]) /\ f[k][j] = "." /\ j = p[i]
      BY <2>3, <2>5, <3>1, <3>3, <3>4
    <3>6. j \in 1 .. Len(e) /\ e[j] = "."
      <4>1. Len(f[k]) <= Len(e) /\ e[j] = f[k][j] /\ Len(f[k]) \in Nat
        BY <1>9, <1>11, <1>12, <2>2, <3>5
      <4> QED
        BY <1>17, <3>5, <4>1
    <3>7. g[i] - 1 = d + j /\ g[i] = g[k] + 2
      <4>1. d \in Nat
        BY <1>17
      <4> QED
        <5>1. PICK a, b, x, y : a = p[i] /\ b = p[k] /\ x = g[i] /\ y = g[k]
          OBVIOUS
        <5>2. /\ a = b + 2 /\ x = d + a + 1 /\ y = d + b + 1
              /\ a \in Nat /\ b \in Nat /\ j = a
          BY <2>3, <2>5, <3>1, <3>5, <5>1
        <5>3. x - 1 = d + j /\ x = y + 2
          BY <4>1, <5>2
        <5> QED
          BY <5>1, <5>3
    <3>8. c[g[i] - 1] = "."
      BY <1>17, <3>6, <3>7
    <3> QED
      BY <2>1, <2>4, <2>6, <3>7, <3>8
  <2>7. CASE ~ends(k)
    <3>1. Len(ss[k]) = 1
      BY <1>5, <2>2, <2>7
    <3>2. g[i] = g[k] + 1
      <4>1. d \in Nat
        BY <1>17
      <4> QED
        BY <2>3, <2>5, <3>1, <4>1
    <3> QED
      BY <2>1, <2>4, <2>7, <3>2
  <2> QED
    BY <2>6, <2>7
<1>22. IF chunk[m] = "\n" /\ behind = "."
       THEN Len(c) = g[m] + 1 /\ c[Len(c)] = "."
       ELSE Len(c) = g[m]
  <2>1. ends(m) <=> chunk[m] = "\n" /\ behind = "."
    BY DEF ends
  <2>2. /\ Len(e) = p[m] + Len(ss[m]) /\ p[m] \in Nat /\ g[m] = d + p[m] + 1
        /\ \A j \in 1 .. Len(ss[m]) : e[p[m] + j] = ss[m][j]
    BY <1>9, <1>12, <1>15, <1>19
  <2>3. CASE ends(m)
    <3>1. Len(ss[m]) = 2 /\ ss[m][2] = "."
      BY <1>5, <1>15, <2>3
    <3>2. 2 \in 1 .. Len(ss[m])
      BY <3>1
    <3>3. e[p[m] + 2] = "." /\ Len(e) = p[m] + 2
      BY <2>2, <3>1, <3>2
    <3>4. Len(e) \in 1 .. Len(e) /\ c[d + Len(e)] = "." /\ Len(c) = d + Len(e)
      BY <1>17, <2>2, <3>3
    <3>5. Len(c) = g[m] + 1
      <4>1. d \in Nat /\ p[m] \in Nat /\ g[m] = d + p[m] + 1
        BY <1>17, <2>2
      <4> QED
        BY <3>3, <3>4, <4>1
    <3> QED
      BY <2>1, <2>3, <3>4, <3>5
  <2>4. CASE ~ends(m)
    <3>1. Len(ss[m]) = 1
      BY <1>5, <1>15, <2>4
    <3>2. Len(c) = g[m]
      <4>1. d \in Nat /\ p[m] \in Nat /\ g[m] = d + p[m] + 1 /\ Len(c) = d + Len(e) /\ Len(e) = p[m] + Len(ss[m])
        BY <1>17, <2>2
      <4> QED
        BY <3>1, <4>1
    <3> QED
      BY <2>1, <2>4, <3>2
  <2> QED
    BY <2>3, <2>4
<1>23. g[1] = (IF chunk[1] = "." THEN 2 ELSE 1) /\ (chunk[1] = "." => c[1] = ".")
  <2>1. p[1] = 0 /\ g[1] = d + p[1] + 1
    BY <1>8, <1>15, <1>19
  <2> QED
    BY <1>14, <1>17, <2>1
<1>24. g \in [1 .. m -> Nat]
  BY <1>18, <1>19
<1> QED
  BY <1>1, <1>13, <1>17, <1>20, <1>21, <1>22, <1>23, <1>24 DEF CharsAt

------------------------------------------------------------------------------
(* The steps keep the types.                                               *)

\* Calls that are over, and places.
LEMMA CallingIs ==
  /\ \A o \in {"none", "returned", "shown", "err"} : Calling(Idle, o)
  /\ \A op \in {"helo", "command", "buffer", "file"},
        at \in Responses \cup {"text"} : Calling([op |-> op, at |-> at], "none")
  /\ Calling([op |-> "show", at |-> "show"], "none")
  /\ Idle.op = "none" /\ Idle.at = "no"
<1>1. Idle \in Places /\ Idle.op = "none" /\ Idle.at = "no"
  BY DEF Idle, Places
<1>2. ASSUME NEW op \in {"helo", "command", "buffer", "file"}, NEW at \in Responses \cup {"text"}
      PROVE  Calling([op |-> op, at |-> at], "none")
  <2>1. PICK c : c = [op |-> op, at |-> at]
    OBVIOUS
  <2>2. c \in Places /\ c.op = op /\ c.at = at
    BY <2>1 DEF Places
  <2>3. op # "none" /\ op # "show" /\ at # "no" /\ at # "show"
    BY DEF Responses
  <2> QED
    BY <2>1, <2>2, <2>3 DEF Calling
<1>3. Calling([op |-> "show", at |-> "show"], "none")
  BY DEF Calling, Places
<1> QED
  BY <1>1, <1>2, <1>3 DEF Calling

\* A call in progress other than a show is one of these.
LEMMA CallingOne ==
  ASSUME CallBase
  PROVE  /\ call.at # "no" /\ call.at # "show" => call.op \in {"helo", "command", "buffer", "file"}
         /\ call = [op |-> call.op, at |-> call.at]
         /\ call.at \in Responses => output
         /\ call.at \in Responses \cup {"no", "text", "show"}
BY DEF CallBase, Calling, Places, Responses

\* What is known with numbers up to m is known with greater ones.
LEMMA NumbersUp ==
  ASSUME NEW s \in Seq(ItemSet), NEW m \in Nat, NEW k \in Nat, m <= k, Numbers(s, m)
  PROVE  Numbers(s, k)
<1>1. ASSUME NEW i \in 1 .. Len(s) PROVE s[i].id <= k
  <2>1. s[i] \in ItemSet
    BY ElementOfSeq
  <2>2. s[i].id \in Nat /\ s[i].id <= m
    BY <2>1 DEF ItemSet, Numbers
  <2> QED
    BY <2>2
<1> QED
  BY <1>1 DEF Numbers

\* Two sequences of items make one.
LEMMA NumbersJoin ==
  ASSUME NEW s \in Seq(ItemSet), NEW t \in Seq(ItemSet), NEW m, Numbers(s, m), Numbers(t, m)
  PROVE  s \o t \in Seq(ItemSet) /\ Numbers(s \o t, m)
<1>1. PICK w, a, b : w = s \o t /\ a = Len(s) /\ b = Len(t)
  OBVIOUS
<1>2. /\ w \in Seq(ItemSet) /\ Len(w) = a + b /\ a \in Nat /\ b \in Nat
      /\ \A i \in 1 .. a : w[i] = s[i]
      /\ \A i \in 1 .. b : w[a + i] = t[i]
  BY <1>1, JoinParts
<1>3. ASSUME NEW i \in 1 .. a + b PROVE w[i].id <= m
  <2>1. CASE i <= a
    BY <1>1, <1>2, <2>1 DEF Numbers
  <2>2. CASE i > a
    <3>1. PICK j : j = i - a
      OBVIOUS
    <3>2. j \in 1 .. b /\ i = a + j
      BY <1>2, <2>2, <3>1
    <3> QED
      BY <1>1, <1>2, <3>2 DEF Numbers
  <2> QED
    BY <1>2, <2>1, <2>2
<1> QED
  BY <1>1, <1>2, <1>3 DEF Numbers

\* Chars of text as items.
LEMMA ItemsAre ==
  ASSUME NEW c \in Seq(Glyphs), NEW m \in Nat
  PROVE  /\ Items(c) \in Seq(ItemSet) /\ Len(Items(c)) = Len(c)
         /\ \A i \in 1 .. Len(c) : Items(c)[i] = Item(c[i], 0)
         /\ Numbers(Items(c), m)
<1>1. PICK k, s : k = Len(c) /\ s = Items(c)
  OBVIOUS
<1>2. k \in Nat /\ DOMAIN c = 1 .. k
  BY <1>1, LenProperties
<1>3. s = [i \in 1 .. k |-> Item(c[i], 0)]
  BY <1>1, <1>2 DEF Items
<1>4. \A i \in 1 .. k : Item(c[i], 0) \in ItemSet
  <2> TAKE i \in 1 .. k
  <2>1. c[i] \in Glyphs
    BY <1>1, ElementOfSeq
  <2>2. MaxCmds \in Nat
    BY SmtpAssumption
  <2> QED
    BY <2>1, <2>2 DEF Item, ItemSet, Verbs, Glyphs, Commands
<1>5. s \in [1 .. k -> ItemSet]
  BY <1>3, <1>4
<1>6. s \in Seq(ItemSet) /\ Len(s) = k
  <2>1. s \in Seq(ItemSet)
    BY <1>2, <1>5
  <2> QED
    BY <1>2, <1>3, <2>1
<1>7. \A i \in 1 .. k : s[i] = Item(c[i], 0)
  BY <1>3
<1>8. \A i \in 1 .. k : s[i].id <= m
  <2> TAKE i \in 1 .. k
  <2>1. PICK x : x = c[i]
    OBVIOUS
  <2>2. s[i] = Item(x, 0)
    BY <1>7, <2>1
  <2>3. s[i].id = 0
    BY <2>2 DEF Item
  <2> QED
    BY <2>3
<1> QED
  BY <1>1, <1>6, <1>7, <1>8 DEF Numbers

\* The text of a chunk.
LEMMA ChunkIs ==
  ASSUME NEW len \in Nat, NEW chunk \in Texts(len)
  PROVE  /\ chunk \in Seq(Glyphs) /\ Len(chunk) \in Nat \ {0}
         /\ chunk \in [1 .. Len(chunk) -> Glyphs]
         /\ chunk # <<>> /\ Head(chunk) = chunk[1] /\ Last(chunk) = chunk[Len(chunk)]
<1>1. PICK k \in 1 .. len : chunk \in [1 .. k -> Glyphs]
  BY DEF Texts, Glyphs
<1>2. k \in Nat \ {0}
  OBVIOUS
<1>3. chunk \in Seq(Glyphs) /\ Len(chunk) = k
  BY <1>1, <1>2
<1>4. chunk # <<>>
  <2>1. Len(chunk) # 0
    BY <1>2, <1>3
  <2> QED
    BY <2>1, EmptySeq
<1>5. Head(chunk) = chunk[1]
  BY <1>3, <1>4
<1> QED
  BY <1>1, <1>2, <1>3, <1>4, <1>5 DEF Last

\* The stream as it was.
LEMMA StreamKept ==
  ASSUME StreamBase, CountBase, n' \in Nat, n <= n', UNCHANGED <<area, flight, link, output>>
  PROVE  StreamBase'
<1>1. Coming' = Coming
  BY DEF Coming
<1>2. Coming \in Seq(CharSet)
  BY ConcatProperties DEF StreamBase, Coming
<1>3. ASSUME NEW i \in 1 .. Len(Coming) PROVE Coming[i].line.id <= n'
  <2>1. Coming[i] \in CharSet
    BY <1>2, ElementOfSeq
  <2>2. Coming[i].line.id \in Nat /\ n \in Nat /\ Coming[i].line.id <= n
    BY <2>1, SmtpAssumption DEF CharSet, Lines, StreamBase, LineNumbers, CountBase
  <2> QED
    BY <2>2
<1>4. LineNumbers(Coming', n')
  BY <1>1, <1>3 DEF LineNumbers
<1> QED
  BY <1>1, <1>4 DEF StreamBase

\* What was sent, or is to be, as it was.
LEMMA WireKept ==
  ASSUME WireBase, CountBase, n' \in Nat, n <= n', UNCHANGED <<inbox, put>>
  PROVE  WireBase'
<1>1. n \in Nat
  BY SmtpAssumption DEF CountBase
<1>2. Numbers(inbox, n') /\ Numbers(put, n')
  BY <1>1, NumbersUp DEF WireBase
<1> QED
  BY <1>2 DEF WireBase

\* The texts as they were.
LEMMA MailKept ==
  ASSUME MailBase, CountBase, n' \in Nat, n <= n', UNCHANGED <<mode, text, mail>>
  PROVE  MailBase'
<1>1. n \in Nat /\ text.id \in Nat /\ mail.id \in Nat /\ text.id <= n /\ mail.id <= n
  BY SmtpAssumption DEF CountBase, MailBase, Letters
<1>2. text.id <= n' /\ mail.id <= n'
  BY <1>1
<1> QED
  BY <1>2 DEF MailBase

\* The message as it was, but for its seam and what spoils it.
\* The text and the number of the message as they were.
MsgSame ==
  \/ msg' = msg
  \/ \E m \in Seams, b \in BOOLEAN : msg' = [msg EXCEPT !.spoilt = b, !.seam = m]

\* A message is one, and no longer, when only what is known of it changes.
LEMMA MsgKept ==
  ASSUME MsgBase, CountBase, n' \in Nat, n <= n', MsgSame
  PROVE  MsgBase'
<1>1. n \in Nat /\ msg \in Messages /\ msg.id <= n /\ Len(msg.text) <= MaxText
  BY SmtpAssumption DEF CountBase, MsgBase
<1>2. msg.id \in Nat
  BY <1>1, SmtpAssumption DEF Messages
<1>3. msg.id <= n'
  BY <1>1, <1>2
<1>4. msg' \in Messages /\ msg'.id = msg.id /\ msg'.text = msg.text
  <2>1. CASE msg' = msg
    BY <1>1, <2>1
  <2>2. ASSUME NEW m \in Seams, NEW b \in BOOLEAN, msg' = [msg EXCEPT !.spoilt = b, !.seam = m]
        PROVE  msg' \in Messages /\ msg'.id = msg.id /\ msg'.text = msg.text
    BY <1>1, <2>2 DEF Messages
  <2> QED
    BY <2>1, <2>2 DEF MsgSame
<1> QED
  BY <1>1, <1>3, <1>4 DEF MsgBase

\* The counters: one command more at most.
LEMMA CountKept ==
  ASSUME CountBase, n' = n \/ (n' = n + 1 /\ n < MaxCmds), tidy' \in BOOLEAN,
         UNCHANGED <<shows, seen>>
  PROVE  CountBase' /\ n' \in Nat /\ n <= n'
<1>1. n \in 0 .. MaxCmds /\ shows \in 0 .. n + 1 /\ seen \in -1 .. n /\ MaxCmds \in Nat
  BY SmtpAssumption DEF CountBase
<1>2. n' \in 0 .. MaxCmds /\ n' \in Nat /\ n <= n'
  BY <1>1
<1>3. shows' \in 0 .. n' + 1 /\ seen' \in -1 .. n'
  BY <1>1
<1> QED
  BY <1>2, <1>3 DEF CountBase

\* What is sent with the sync () of a call.
LEMMA SyncTyped ==
  ASSUME WireBase, CountBase, n' = n \/ (n' = n + 1 /\ n < MaxCmds),
         NEW items \in Seq(ItemSet), Numbers(items, n'), NEW op, NEW at, Sync(items, op, at)
  PROVE  /\ WireBase' /\ tidy' \in BOOLEAN
         /\ \/ /\ call' = IF at = "no" THEN Idle ELSE [op |-> op, at |-> at]
               /\ out' = IF at = "no" THEN "returned" ELSE "none"
            \/ call' = Idle /\ out' = "err"
<1>1. n \in Nat /\ n' \in Nat /\ n <= n'
  BY SmtpAssumption DEF CountBase
<1>2. /\ inbox \in Seq(ItemSet) /\ put \in Seq(ItemSet)
      /\ Numbers(inbox, n') /\ Numbers(put, n')
  BY <1>1, NumbersUp DEF WireBase
<1>3. put \o items \in Seq(ItemSet) /\ Numbers(put \o items, n')
  BY <1>2, NumbersJoin
<1>4. (inbox \o put) \o items \in Seq(ItemSet) /\ Numbers((inbox \o put) \o items, n')
  <2>1. inbox \o put \in Seq(ItemSet) /\ Numbers(inbox \o put, n')
    BY <1>2, NumbersJoin
  <2> QED
    BY <2>1, NumbersJoin
<1>5. <<>> \in Seq(ItemSet) /\ Numbers(<<>>, n')
  BY EmptySeq DEF Numbers
<1>6. tidy \in BOOLEAN
  BY DEF CountBase
<1>7. CASE /\ inbox' = IF link = "open" THEN inbox \o put \o items ELSE inbox
           /\ put' = <<>>
           /\ call' = IF at = "no" THEN Idle ELSE [op |-> op, at |-> at]
           /\ out' = IF at = "no" THEN "returned" ELSE "none"
           /\ tidy' = (tidy /\ (output /\ n = 0 => op = "helo"))
  <2>1. inbox' = (inbox \o put) \o items \/ inbox' = inbox
    BY <1>7
  <2>2. inbox' \in Seq(ItemSet) /\ Numbers(inbox', n')
    BY <1>2, <1>4, <2>1
  <2>3. WireBase'
    BY <1>5, <1>7, <2>2 DEF WireBase
  <2>4. tidy' \in BOOLEAN
    BY <1>7
  <2> QED
    BY <1>7, <2>3, <2>4
<1>8. CASE put' = put \o items /\ inbox' = inbox /\ Throw
  <2>1. WireBase'
    BY <1>2, <1>3, <1>8 DEF WireBase
  <2> QED
    BY <1>8, <2>1 DEF Throw
<1> QED
  BY <1>7, <1>8 DEF Sync

\* A call that is over, or goes on somewhere.
LEMMA CallOver ==
  ASSUME call' = Idle, out' \in {"none", "returned", "shown", "err"}
  PROVE  CallBase'
BY CallingIs DEF CallBase, Responses

\* A call that goes on at a place that it may be at.
LEMMA CallAt ==
  ASSUME UNCHANGED output, NEW op \in {"helo", "command", "buffer", "file"},
         NEW at \in Responses \cup {"text"}, call' = [op |-> op, at |-> at], out' = "none",
         at \in {"greeting", "DATA", "text"} => n' < MaxCmds, at \in Responses => output
  PROVE  CallBase'
<1>1. Calling(call', out')
  BY CallingIs
<1>2. call'.op = op /\ call'.at = at
  OBVIOUS
<1> QED
  BY <1>1, <1>2 DEF CallBase, Responses

\* A call that sends with a sync ().
LEMMA SyncCall ==
  ASSUME UNCHANGED output, NEW op \in {"helo", "command", "buffer", "file"},
         NEW at \in Responses \cup {"text", "no"},
         \/ /\ call' = IF at = "no" THEN Idle ELSE [op |-> op, at |-> at]
            /\ out' = IF at = "no" THEN "returned" ELSE "none"
         \/ call' = Idle /\ out' = "err",
         at \in {"greeting", "DATA", "text"} => n' < MaxCmds, at \in Responses => output
  PROVE  CallBase'
<1>1. CASE at = "no" \/ (call' = Idle /\ out' = "err")
  BY <1>1, CallOver
<1>2. CASE at # "no" /\ call' = [op |-> op, at |-> at] /\ out' = "none"
  BY <1>2, CallAt
<1> QED
  BY <1>1, <1>2

\* A command.
LEMMA SendCmdBase ==
  ASSUME StreamBase, WireBase, CallBase, CountBase, n < MaxCmds, NEW verb \in Commands,
         NEW op \in {"helo", "command", "buffer", "file"},
         NEW at \in Responses, NEW next \in {"text", "no"},
         at = "greeting" \/ at = "DATA" \/ next = "text" => n + 1 < MaxCmds,
         send_cmd(verb, op, at, next), UNCHANGED <<stream, output, shows, seen>>
  PROVE  /\ StreamBase' /\ WireBase' /\ CallBase' /\ CountBase'
         /\ n' = n + 1 /\ n' \in Nat /\ n <= n'
<1>1. n \in Nat /\ n' = n + 1 /\ MaxCmds \in Nat
  BY SmtpAssumption DEF CountBase, send_cmd
<1>2. n' \in Nat /\ n <= n'
  BY <1>1
<1>3. PICK items, to : items = <<Item(verb, n + 1)>> /\ to = IF output THEN at ELSE next
  OBVIOUS
<1>4. Sync(items, op, to)
  BY <1>3 DEF send_cmd
<1>5. items \in Seq(ItemSet) /\ Numbers(items, n')
  <2>1. PICK x : x = Item(verb, n + 1)
    OBVIOUS
  <2>2. x \in ItemSet /\ x.id <= n'
    <3>1. n + 1 \in 0 .. MaxCmds /\ n + 1 > 0 /\ n + 1 <= n'
      BY <1>1
    <3>2. verb \in Verbs /\ verb \notin {"a", "."}
      BY DEF Verbs, Commands
    <3> QED
      BY <2>1, <3>1, <3>2 DEF Item, ItemSet
  <2>3. items = <<x>>
    BY <1>3, <2>1
  <2>4. items \in Seq(ItemSet) /\ Len(items) = 1 /\ items[1] = x
    BY <2>2, <2>3
  <2> QED
    BY <2>2, <2>4 DEF Numbers
<1>6. /\ WireBase' /\ tidy' \in BOOLEAN
      /\ \/ /\ call' = IF to = "no" THEN Idle ELSE [op |-> op, at |-> to]
            /\ out' = IF to = "no" THEN "returned" ELSE "none"
         \/ call' = Idle /\ out' = "err"
  BY <1>1, <1>4, <1>5, SyncTyped
<1>7. CallBase'
  <2>1. output \in BOOLEAN
    BY DEF StreamBase
  <2>2. to \in Responses \cup {"text", "no"} /\ (to \in Responses => output)
    BY <1>3, <2>1 DEF Responses
  <2>3. to \in {"greeting", "DATA", "text"} => n' < MaxCmds
    BY <1>1, <1>3, <2>1 DEF Responses
  <2> QED
    BY <1>6, <2>2, <2>3, SyncCall
<1>8. CountBase'
  BY <1>1, <1>6, CountKept
<1>9. StreamBase'
  BY <1>2, StreamKept DEF stream
<1> QED
  BY <1>1, <1>2, <1>6, <1>7, <1>8, <1>9

\* The calls of the client.
LEMMA CallsBase == ASSUME Base, Calls PROVE Base'
<1>1. /\ StreamBase /\ WireBase /\ CallBase /\ MailBase /\ MsgBase /\ CountBase
      /\ n \in Nat /\ MaxCmds \in Nat
  BY SmtpAssumption DEF Base, CountBase
<1>2. CASE Connects
  <2>1. /\ UNCHANGED <<area, flight, output, put, inbox, mode, text, mail, msg, n, shows, seen, tidy>>
        /\ call' = call /\ call.op = "none"
        /\ link' \in {"none", "open"} /\ out' \in {"none", "err"}
    BY <1>2 DEF Connects, CanCall, receiver, ghosts
  <2>2. call = Idle
    BY <1>1, <2>1 DEF CallBase, Calling, Places, Idle
  <2>3. CallBase'
    BY <2>1, <2>2, CallOver
  <2>4. StreamBase'
    BY <1>1, <2>1 DEF StreamBase, Coming
  <2> QED
    BY <1>1, <2>1, <2>3, <2>4 DEF Base, WireBase, MailBase, MsgBase, CountBase
<1>3. CASE Helo
  <2>1. n < MaxCmds /\ UNCHANGED <<stream, output, mode, text, mail, msg, shows, seen>>
    BY <1>3 DEF Helo
  <2>2. CASE /\ output
             /\ call' = [op |-> "helo", at |-> "greeting"]
             /\ out' = "none"
             /\ UNCHANGED <<put, inbox, n, tidy>>
    <3>1. "greeting" \in Responses
      BY DEF Responses
    <3>2. CallBase'
      BY <1>1, <2>1, <2>2, <3>1, CallAt
    <3>3. StreamBase'
      BY <1>1, <2>1, <2>2 DEF StreamBase, Coming, stream
    <3> QED
      BY <1>1, <2>1, <2>2, <3>2, <3>3 DEF Base, WireBase, MailBase, MsgBase, CountBase
  <2>3. CASE send_cmd("other", "helo", "reply", "no")
    <3>1. "reply" \in Responses /\ "other" \in Commands
      BY DEF Responses, Commands
    <3>2. /\ StreamBase' /\ WireBase' /\ CallBase' /\ CountBase'
          /\ n' = n + 1 /\ n' \in Nat /\ n <= n'
      BY <1>1, <2>1, <2>3, <3>1, SendCmdBase
    <3>3. MailBase' /\ MsgBase'
      BY <1>1, <2>1, <3>2, MailKept, MsgKept DEF MsgSame
    <3> QED
      BY <3>2, <3>3 DEF Base
  <2> QED
    BY <1>3, <2>2, <2>3 DEF Helo
<1>4. CASE Command
  <2>1. n < MaxCmds /\ UNCHANGED <<stream, output, mode, text, mail, msg, shows, seen>>
    BY <1>4 DEF Command
  <2>2. PICK verb \in Commands : send_cmd(verb, "command", "reply", "no")
    BY <1>4 DEF Command
  <2>3. "reply" \in Responses
    BY DEF Responses
  <2>4. /\ StreamBase' /\ WireBase' /\ CallBase' /\ CountBase'
        /\ n' = n + 1 /\ n' \in Nat /\ n <= n'
    BY <1>1, <2>1, <2>2, <2>3, SendCmdBase
  <2>5. MailBase' /\ MsgBase'
    BY <1>1, <2>1, <2>4, MailKept, MsgKept DEF MsgSame
  <2> QED
    BY <2>4, <2>5 DEF Base
<1>5. CASE Data
  <2>1. /\ n + 1 < MaxCmds /\ UNCHANGED <<stream, output, mode, text, mail, shows, seen>>
        /\ msg' = [text |-> <<>>, id |-> n + 1, seam |-> NoSeam, spoilt |-> FALSE]
    BY <1>5 DEF Data
  <2>2. PICK op \in {"buffer", "file"} : send_cmd("DATA", op, "DATA", "text")
    BY <1>5 DEF Data
  <2>3. "DATA" \in Responses /\ "DATA" \in Commands /\ n < MaxCmds
    BY <1>1, <2>1 DEF Responses, Commands
  <2>4. /\ StreamBase' /\ WireBase' /\ CallBase' /\ CountBase'
        /\ n' = n + 1 /\ n' \in Nat /\ n <= n'
    BY <1>1, <2>1, <2>2, <2>3, SendCmdBase
  <2>5. MailBase'
    BY <1>1, <2>1, <2>4, MailKept
  <2>6. MsgBase'
    <3>1. NoSeam \in Seams /\ <<>> \in Seq(Glyphs) /\ Len(<<>>) = 0
      BY DEF NoSeam, Seams
    <3>2. n + 1 \in 0 .. MaxCmds /\ n + 1 <= n' /\ MaxText \in Nat
      BY <1>1, <2>1, <2>4, SmtpAssumption
    <3>3. msg' \in Messages /\ msg'.id = n + 1 /\ msg'.text = <<>>
      BY <2>1, <3>1, <3>2 DEF Messages
    <3> QED
      BY <3>1, <3>2, <3>3 DEF MsgBase
  <2> QED
    BY <2>4, <2>5, <2>6 DEF Base
<1>6. CASE Show
  <2>1. /\ ~output /\ shows <= n /\ shows' = shows + 1 /\ out' = "none"
        /\ call' = [op |-> "show", at |-> "show"]
        /\ UNCHANGED <<area, flight, link, output, put, inbox, mode, text, mail, msg, n, seen, tidy>>
    BY <1>6 DEF Show, stream, receiver
  <2>2. CallBase'
    <3>1. Calling(call', out') /\ call'.at = "show" /\ call'.op = "show"
      BY <2>1, CallingIs
    <3> QED
      BY <2>1, <3>1 DEF CallBase
  <2>3. StreamBase'
    BY <1>1, <2>1 DEF StreamBase, Coming
  <2>4. CountBase'
    <3>1. n \in 0 .. MaxCmds /\ shows \in 0 .. n + 1 /\ seen \in -1 .. n
      BY <1>1 DEF CountBase
    <3>2. shows + 1 \in 0 .. n + 1
      BY <1>1, <2>1, <3>1
    <3> QED
      BY <1>1, <2>1, <3>2 DEF CountBase
  <2> QED
    BY <1>1, <2>1, <2>2, <2>3, <2>4 DEF Base, WireBase, MailBase, MsgBase
<1> QED
  BY <1>2, <1>3, <1>4, <1>5, <1>6 DEF Calls

\* The end of a text, as items.
LEMMA EndOfTextIs ==
  ASSUME NEW id \in 1 .. MaxCmds
  PROVE  /\ EndOfText(id) \in Seq(ItemSet) /\ Numbers(EndOfText(id), id)
         /\ Len(EndOfText(id)) = 3
         /\ EndOfText(id)[1] = Item("\n", 0) /\ EndOfText(id)[2] = Item(".", 0)
         /\ EndOfText(id)[3] = Item("\n", id)
<1>1. id \in 0 .. MaxCmds /\ 0 \in 0 .. MaxCmds /\ 0 <= id /\ id <= id
  BY SmtpAssumption
<1>2. PICK x, y, z : x = Item("\n", 0) /\ y = Item(".", 0) /\ z = Item("\n", id)
  OBVIOUS
<1>3. /\ x \in ItemSet /\ y \in ItemSet /\ z \in ItemSet
      /\ x.id <= id /\ y.id <= id /\ z.id <= id
  BY <1>1, <1>2 DEF Item, ItemSet, Verbs, Commands, Glyphs
<1>4. PICK s : s = <<x, y, z>>
  OBVIOUS
<1>5. EndOfText(id) = s
  BY <1>2, <1>4 DEF EndOfText
<1>6. s \in Seq(ItemSet) /\ Len(s) = 3 /\ s[1] = x /\ s[2] = y /\ s[3] = z
  BY <1>3, <1>4
<1>7. ASSUME NEW i \in 1 .. 3 PROVE s[i].id <= id
  <2>1. i = 1 \/ i = 2 \/ i = 3
    OBVIOUS
  <2> QED
    BY <1>3, <1>6, <2>1
<1> QED
  BY <1>2, <1>5, <1>6, <1>7 DEF Numbers

\* The text of a message.
LEMMA TextBase ==
  ASSUME Base, SendBuf \/ Overflow \/ EndText
  PROVE  Base'
<1>1. /\ StreamBase /\ WireBase /\ CallBase /\ MailBase /\ MsgBase /\ CountBase
      /\ n \in Nat /\ MaxCmds \in Nat
  BY SmtpAssumption DEF Base, CountBase
<1>2. call.at = "text"
  BY DEF SendBuf, Overflow, EndText
<1>3. /\ n < MaxCmds /\ call.op \in {"helo", "command", "buffer", "file"}
      /\ call = [op |-> call.op, at |-> call.at] /\ out \in {"none", "returned", "shown", "err"}
  BY <1>1, <1>2, CallingOne DEF CallBase, Calling
<1>4. CASE SendBuf
  <2>1. /\ UNCHANGED <<area, flight, link, output, call, out, inbox, mode, text, mail, n, shows, seen, tidy>>
        /\ \E chunk \in Texts(IF call.op = "file" THEN Chunk ELSE MaxText), behind \in Behind :
             /\ Len(msg.text) + Len(chunk) <= MaxText
             /\ put' = put \o Items(Stuffed(chunk, behind))
             /\ msg' = [msg EXCEPT
                  !.text = @ \o chunk,
                  !.seam = [ch |-> Last(chunk), dot |-> Last(chunk) = "\n" /\ behind = "."],
                  !.spoilt = @ \/ Spoils(chunk)]
    BY <1>4 DEF SendBuf, stream, receiver
  <2>2. PICK chunk \in Texts(IF call.op = "file" THEN Chunk ELSE MaxText), behind \in Behind :
             /\ Len(msg.text) + Len(chunk) <= MaxText
             /\ put' = put \o Items(Stuffed(chunk, behind))
             /\ msg' = [msg EXCEPT
                  !.text = @ \o chunk,
                  !.seam = [ch |-> Last(chunk), dot |-> Last(chunk) = "\n" /\ behind = "."],
                  !.spoilt = @ \/ Spoils(chunk)]
    BY <2>1
  <2>3. (IF call.op = "file" THEN Chunk ELSE MaxText) \in Nat
    BY SmtpAssumption
  <2>4. /\ chunk \in Seq(Glyphs) /\ Len(chunk) \in Nat \ {0}
        /\ chunk \in [1 .. Len(chunk) -> Glyphs]
        /\ chunk # <<>> /\ Head(chunk) = chunk[1] /\ Last(chunk) = chunk[Len(chunk)]
    BY <2>3, ChunkIs
  <2>5. Stuffed(chunk, behind) \in Seq(Glyphs)
    BY <2>4, StuffedIs
  <2>6. put' \in Seq(ItemSet) /\ Numbers(put', n)
    <3>1. /\ Items(Stuffed(chunk, behind)) \in Seq(ItemSet)
          /\ Numbers(Items(Stuffed(chunk, behind)), n)
      BY <1>1, <2>5, ItemsAre
    <3> QED
      BY <1>1, <2>2, <3>1, NumbersJoin DEF WireBase
  <2>7. WireBase'
    BY <1>1, <2>1, <2>6 DEF WireBase
  <2>8. MsgBase'
    <3>1. PICK t, sm, b : /\ t = msg.text \o chunk
                          /\ sm = [ch |-> Last(chunk), dot |-> Last(chunk) = "\n" /\ behind = "."]
                          /\ b = (msg.spoilt \/ Spoils(chunk))
      OBVIOUS
    <3>2. msg.text \in Seq(Glyphs) /\ msg.id \in 0 .. MaxCmds /\ msg \in Messages /\ msg.id <= n
      BY <1>1 DEF MsgBase, Messages
    <3>3. t \in Seq(Glyphs) /\ Len(t) <= MaxText
      BY <2>2, <2>4, <3>1, <3>2, ConcatProperties
    <3>4. sm \in Seams
      <4>1. Last(chunk) \in Glyphs
        BY <2>4, ElementOfSeq
      <4> QED
        BY <3>1, <4>1 DEF Seams
    <3>5. b \in BOOLEAN
      BY <3>1
    <3>6. msg' = [msg EXCEPT !.text = t, !.seam = sm, !.spoilt = b]
      BY <2>2, <3>1
    <3>7. msg' \in Messages /\ msg'.text = t /\ msg'.id = msg.id
      BY <3>2, <3>3, <3>4, <3>5, <3>6 DEF Messages
    <3> QED
      BY <2>1, <3>2, <3>3, <3>7 DEF MsgBase
  <2>9. StreamBase'
    BY <1>1, <2>1 DEF StreamBase, Coming
  <2> QED
    BY <1>1, <2>1, <2>7, <2>8, <2>9 DEF Base, CallBase, MailBase, CountBase
<1>5. CASE Overflow
  <2>1. UNCHANGED <<area, flight, link, output, mode, text, mail, msg, n, shows, seen>>
    BY <1>5 DEF Overflow, stream
  <2>2. /\ inbox' = inbox \o put \/ inbox' = inbox
        /\ put' = <<>> \/ put' = put
        /\ \/ call' = call /\ out' = out /\ tidy' = tidy
           \/ call' = Idle /\ out' = "err" /\ tidy' = FALSE
    BY <1>5 DEF Overflow, Throw
  <2>3. WireBase'
    <3>1. /\ inbox \o put \in Seq(ItemSet) /\ Numbers(inbox \o put, n)
          /\ <<>> \in Seq(ItemSet) /\ Numbers(<<>>, n)
      BY <1>1, NumbersJoin, EmptySeq DEF WireBase, Numbers
    <3>2. inbox' \in Seq(ItemSet) /\ Numbers(inbox', n) /\ put' \in Seq(ItemSet) /\ Numbers(put', n)
      BY <1>1, <2>2, <3>1 DEF WireBase
    <3> QED
      BY <2>1, <3>2 DEF WireBase
  <2>4. CallBase'
    <3>1. CASE call' = call /\ out' = out
      BY <1>1, <2>1, <3>1 DEF CallBase
    <3>2. CASE call' = Idle /\ out' = "err"
      BY <3>2, CallOver
    <3> QED
      BY <2>2, <3>1, <3>2
  <2>5. StreamBase'
    BY <1>1, <2>1 DEF StreamBase, Coming
  <2>6. tidy' \in BOOLEAN
    BY <1>1, <2>2 DEF CountBase
  <2> QED
    BY <1>1, <2>1, <2>3, <2>4, <2>5, <2>6 DEF Base, MailBase, MsgBase, CountBase
<1>6. CASE EndText
  <2>1. /\ n' = n + 1 /\ UNCHANGED <<stream, output, mode, text, mail, shows, seen>>
        /\ Sync(EndOfText(n + 1), call.op, IF output THEN "end" ELSE "no")
        /\ \E readFails \in {FALSE, call.op = "file"} :
             msg' = [msg EXCEPT !.spoilt = @ \/ msg.seam.dot \/ readFails, !.seam = NoSeam]
    BY <1>6 DEF EndText
  <2>2. n' \in Nat /\ n <= n' /\ n + 1 \in 1 .. MaxCmds
    BY <1>1, <1>3, <2>1
  <2>3. PICK items, to : items = EndOfText(n + 1) /\ to = IF output THEN "end" ELSE "no"
    OBVIOUS
  <2>4. items \in Seq(ItemSet) /\ Numbers(items, n')
    BY <2>1, <2>2, <2>3, EndOfTextIs
  <2>5. /\ WireBase' /\ tidy' \in BOOLEAN
        /\ \/ /\ call' = IF to = "no" THEN Idle ELSE [op |-> call.op, at |-> to]
              /\ out' = IF to = "no" THEN "returned" ELSE "none"
           \/ call' = Idle /\ out' = "err"
    BY <1>1, <1>3, <2>1, <2>3, <2>4, SyncTyped
  <2>6. CallBase'
    <3>1. to \in Responses \cup {"text", "no"} /\ (to \in Responses => output)
      BY <1>1, <2>3 DEF Responses, StreamBase
    <3>2. to \notin {"greeting", "DATA", "text"}
      BY <2>3
    <3> QED
      BY <1>3, <2>1, <2>5, <3>1, <3>2, SyncCall
  <2>7. MsgSame
    <3>1. PICK b : b = (msg.spoilt \/ msg.seam.dot \/ FALSE)
      OBVIOUS
    <3>2. PICK readFails \in {FALSE, call.op = "file"} :
             msg' = [msg EXCEPT !.spoilt = @ \/ msg.seam.dot \/ readFails, !.seam = NoSeam]
      BY <2>1
    <3>3. PICK d : d = (msg.spoilt \/ msg.seam.dot \/ readFails)
      OBVIOUS
    <3>4. d \in BOOLEAN /\ NoSeam \in Seams
      BY <3>3 DEF NoSeam, Seams
    <3>5. msg' = [msg EXCEPT !.spoilt = d, !.seam = NoSeam]
      BY <3>2, <3>3
    <3> QED
      BY <3>4, <3>5 DEF MsgSame
  <2>8. CountBase'
    BY <1>1, <1>3, <2>1, <2>5, CountKept
  <2> QED
    BY <1>1, <2>1, <2>2, <2>5, <2>6, <2>7, <2>8, StreamKept, MailKept, MsgKept DEF Base, stream
<1> QED
  BY <1>4, <1>5, <1>6

------------------------------------------------------------------------------
(* What is read, and what is written.                                      *)

\* What is there of the stream, of which the first k chars are consumed.
LEMMA Consumes ==
  ASSUME area \in Seq(CharSet), flight \in Seq(CharSet), NEW k \in 0 .. Len(area),
         area' = SubSeq(area, k + 1, Len(area)), flight' = flight, NEW R, Linked(Coming, R)
  PROVE  /\ area' \in Seq(CharSet) /\ Coming \in Seq(CharSet) /\ Coming' \in Seq(CharSet)
         /\ Len(Coming) \in Nat /\ Len(Coming') = Len(Coming) - k
         /\ \A i \in 1 .. Len(Coming') : k + i \in 1 .. Len(Coming) /\ Coming'[i] = Coming[k + i]
         /\ Linked(Coming', R)
         /\ k > 0 => k \in 1 .. Len(Coming) /\ Coming[k] = area[k] /\ Coming[1] = area[1]
         /\ k > 0 /\ Coming' # <<>> => <<area[k], Coming'[1]>> \in R
         /\ Coming' # <<>> => Coming # <<>> /\ Coming'[Len(Coming')] = Coming[Len(Coming)]
<1>1. PICK w, v, a, m, l : w = Coming /\ v = Coming' /\ a = Len(area) /\ m = Len(w) /\ l = Len(v)
  OBVIOUS
<1>2. /\ w \in Seq(CharSet) /\ m = a + Len(flight) /\ a \in Nat /\ Len(flight) \in Nat
      /\ \A i \in 1 .. a : w[i] = area[i]
  BY <1>1, JoinParts DEF Coming
<1>3. k \in Nat /\ m \in Nat /\ k <= m /\ m <= Len(w) /\ k <= a
  BY <1>1, <1>2
<1>4. v = SubSeq(w, k + 1, m)
  <2>1. v = SubSeq(area, k + 1, Len(area)) \o flight
    BY <1>1 DEF Coming
  <2> QED
    BY <1>1, <2>1, CutFirst DEF Coming
<1>5. v \in Seq(CharSet) /\ l = m - k /\ \A i \in 1 .. m - k : v[i] = w[k + i]
  <2>1. /\ SubSeq(w, k + 1, m) \in Seq(CharSet)
        /\ Len(SubSeq(w, k + 1, m)) = m - k
        /\ \A i \in 1 .. m - k : SubSeq(w, k + 1, m)[i] = w[k + i]
    BY <1>2, <1>3, Slice
  <2> QED
    BY <1>1, <1>4, <2>1
<1>6. Linked(v, R)
  BY <1>1, <1>2, <1>3, <1>4, LinkedPart
<1>7. \A i \in 1 .. l : k + i \in 1 .. m
  BY <1>3, <1>5
<1>8. k > 0 => k \in 1 .. m /\ k \in 1 .. a /\ 1 \in 1 .. a
  BY <1>2, <1>3
<1>9. ASSUME v # <<>> PROVE l > 0 /\ 1 \in 1 .. l /\ l \in 1 .. l /\ k + l = m /\ k + 1 <= m
  <2>1. l \in Nat /\ l # 0
    BY <1>1, <1>5, <1>9, EmptySeq, LenProperties
  <2> QED
    BY <1>3, <1>5, <2>1
<1>10. ASSUME v # <<>> PROVE w # <<>> /\ v[l] = w[m] /\ v[1] = w[k + 1]
  <2>1. m # 0
    BY <1>3, <1>9, <1>10
  <2> QED
    BY <1>1, <1>2, <1>5, <1>9, <1>10, <2>1, EmptySeq
<1>11. ASSUME v # <<>>, k > 0 PROVE <<area[k], v[1]>> \in R
  <2>1. k \in 1 .. m - 1
    BY <1>3, <1>9, <1>11
  <2>2. <<w[k], w[k + 1]>> \in R
    BY <1>1, <2>1 DEF Linked
  <2> QED
    BY <1>2, <1>8, <1>10, <1>11, <2>2
<1>12. area' \in Seq(CharSet)
  BY Rest
<1> QED
  BY <1>1, <1>2, <1>3, <1>5, <1>6, <1>7, <1>8, <1>10, <1>11, <1>12

\* The stream, when get_response has taken a whole line, or nothing, of it.
LEMMA StreamTaken ==
  ASSUME StreamBase, NEW k \in 0 .. Len(area), n' = n \/ n' = n + 1, n \in Nat,
         area' = SubSeq(area, k + 1, Len(area)), flight' = flight,
         UNCHANGED <<link, output>>, output /\ k > 0 => IsLF(area[k])
  PROVE  StreamBase'
<1>1. /\ area' \in Seq(CharSet) /\ Coming \in Seq(CharSet) /\ Coming' \in Seq(CharSet)
      /\ Len(Coming) \in Nat /\ Len(Coming') = Len(Coming) - k
      /\ \A i \in 1 .. Len(Coming') : k + i \in 1 .. Len(Coming) /\ Coming'[i] = Coming[k + i]
      /\ Linked(Coming', Turn)
      /\ k > 0 /\ Coming' # <<>> => <<area[k], Coming'[1]>> \in Turn
      /\ Coming' # <<>> => Coming # <<>> /\ Coming'[Len(Coming')] = Coming[Len(Coming)]
  BY Consumes DEF StreamBase
<1>2. Closed(Coming')
  BY <1>1 DEF Closed, StreamBase
<1>3. LineNumbers(Coming', n')
  <2>1. ASSUME NEW i \in 1 .. Len(Coming') PROVE Coming'[i].line.id <= n'
    <3>1. PICK j : j = k + i
      OBVIOUS
    <3>2. j \in 1 .. Len(Coming) /\ Coming'[i] = Coming[j]
      BY <1>1, <3>1
    <3>3. Coming[j] \in CharSet /\ Coming[j].line.id <= n
      BY <1>1, <3>2, ElementOfSeq DEF StreamBase, LineNumbers
    <3>4. Coming[j].line.id \in Nat
      BY <3>3, SmtpAssumption DEF CharSet, Lines
    <3> QED
      BY <3>2, <3>3, <3>4
  <2> QED
    BY <2>1 DEF LineNumbers
<1>4. ASSUME output', Coming' # <<>> PROVE Coming'[1].at = 1
  <2>1. CASE k > 0
    BY <1>1, <1>4, <2>1 DEF Turn
  <2>2. CASE k = 0
    <3>1. 1 \in 1 .. Len(Coming')
      <4>1. Len(Coming') # 0 /\ Len(Coming') \in Nat
        BY <1>1, <1>4, EmptySeq, LenProperties
      <4> QED
        BY <4>1
    <3>2. Coming'[1] = Coming[1]
      BY <1>1, <2>2, <3>1
    <3> QED
      BY <1>1, <1>4, <3>2 DEF StreamBase
  <2> QED
    BY <2>1, <2>2
<1> QED
  BY <1>1, <1>2, <1>3, <1>4 DEF StreamBase

\* The stream, with a reply at its end.
LEMMA StreamSaid ==
  ASSUME StreamBase, n' = n, n \in Nat, NEW r, NEW id \in Nat, id <= n, IsReply(r, id),
         flight' = flight \o r, UNCHANGED <<area, output>>, link' \in {"none", "open", "fin"}
  PROVE  /\ StreamBase' /\ Coming' = Coming \o r /\ Coming \in Seq(CharSet)
<1>1. /\ area \in Seq(CharSet) /\ flight \in Seq(CharSet) /\ r \in Seq(CharSet) /\ r # <<>>
      /\ Coming \in Seq(CharSet)
  BY ConcatProperties DEF StreamBase, IsReply, Coming
<1>2. Coming' = Coming \o r
  <2>1. PICK x, y : x = area /\ y = flight
    OBVIOUS
  <2>2. x \in Seq(CharSet) /\ y \in Seq(CharSet) /\ r \in Seq(CharSet)
    BY <1>1, <2>1
  <2>3. (x \o y) \o r = x \o (y \o r)
    BY <2>2, ConcatAssociative
  <2> QED
    BY <2>1, <2>3 DEF Coming
<1>3. PICK w, v : w = Coming /\ v = Coming'
  OBVIOUS
<1>4. /\ v \in Seq(CharSet) /\ Len(v) = Len(w) + Len(r) /\ Len(w) \in Nat /\ Len(r) \in Nat
      /\ \A i \in 1 .. Len(w) : v[i] = w[i]
      /\ \A i \in 1 .. Len(r) : v[Len(w) + i] = r[i]
      /\ w # <<>> => v[1] = w[1]
      /\ w = <<>> => v = r
      /\ v[Len(v)] = r[Len(r)]
  <2>1. v = w \o r /\ w \in Seq(CharSet) /\ r \in Seq(CharSet) /\ r # <<>>
    BY <1>1, <1>2, <1>3
  <2>2. /\ w \o r \in Seq(CharSet) /\ Len(w \o r) = Len(w) + Len(r) /\ Len(w) \in Nat /\ Len(r) \in Nat
        /\ \A i \in 1 .. Len(w) : (w \o r)[i] = w[i]
        /\ \A i \in 1 .. Len(r) : (w \o r)[Len(w) + i] = r[i]
    BY <2>1, JoinParts
  <2>3. /\ w # <<>> => (w \o r)[1] = w[1]
        /\ w = <<>> => w \o r = r
        /\ (w \o r)[Len(w \o r)] = r[Len(r)]
    BY <2>1, JoinParts
  <2> QED
    BY <2>1, <2>2, <2>3
<1>5. Linked(v, Turn)
  <2>1. Linked(w, Turn) /\ Linked(r, Turn)
    BY <1>3, OrderIsTurn DEF StreamBase, IsReply
  <2>2. w # <<>> => <<w[Len(w)], r[1]>> \in Turn
    <3> SUFFICES ASSUME w # <<>> PROVE <<w[Len(w)], r[1]>> \in Turn
      OBVIOUS
    <3>1. w[Len(w)] \in CharSet /\ r[1] \in CharSet
      <4>1. Len(w) # 0 /\ Len(r) # 0
        BY <1>1, <1>3, EmptySeq
      <4> QED
        BY <1>1, <1>3, <1>4, <4>1, ElementOfSeq
    <3>2. IsLF(w[Len(w)]) /\ r[1].at = 1
      BY <1>1, <1>3 DEF StreamBase, Closed, IsReply, Whole
    <3> QED
      BY <3>1, <3>2 DEF Turn
  <2> QED
    BY <1>1, <1>2, <1>3, <2>1, <2>2, LinkedJoin
<1>6. Closed(v)
  BY <1>1, <1>4 DEF Closed, IsReply, Whole
<1>7. LineNumbers(v, n)
  <2>1. ASSUME NEW i \in 1 .. Len(v) PROVE v[i].line.id <= n
    <3>1. CASE i <= Len(w)
      <4>1. i \in 1 .. Len(w)
        BY <1>4, <3>1
      <4>2. w[i].line.id <= n
        BY <1>3, <4>1 DEF StreamBase, LineNumbers
      <4> QED
        BY <1>4, <4>1, <4>2
    <3>2. CASE i > Len(w)
      <4>1. PICK j : j = i - Len(w)
        OBVIOUS
      <4>2. j \in 1 .. Len(r) /\ i = Len(w) + j
        BY <1>4, <3>2, <4>1
      <4>3. v[i] = r[j] /\ r[j].line.id = id
        BY <1>4, <4>2 DEF IsReply
      <4> QED
        BY <4>3
    <3> QED
      BY <1>4, <3>1, <3>2
  <2> QED
    BY <2>1 DEF LineNumbers
<1>8. output => v[1].at = 1
  BY <1>1, <1>3, <1>4 DEF StreamBase, IsReply, Whole
<1>9. area' \in Seq(CharSet) /\ flight' \in Seq(CharSet)
  BY <1>1, ConcatProperties
<1> QED
  BY <1>1, <1>2, <1>3, <1>4, <1>5, <1>6, <1>7, <1>8, <1>9 DEF StreamBase

\* underflow () moves chars from the connection to the get area.
LEMMA RefillIs ==
  ASSUME area \in Seq(CharSet), flight \in Seq(CharSet), Refill
  PROVE  /\ area' \in Seq(CharSet) /\ flight' \in Seq(CharSet) /\ Coming' = Coming
         /\ area = <<>> /\ area' # <<>> /\ link' = link
<1>1. PICK k \in 1 .. Len(flight) :
        area' = SubSeq(flight, 1, k) /\ flight' = SubSeq(flight, k + 1, Len(flight))
  BY DEF Refill
<1>2. Len(flight) \in Nat /\ k \in 0 .. Len(flight)
  BY LenProperties
<1>3. area' \in Seq(CharSet) /\ flight' \in Seq(CharSet) /\ Len(area') = k
  BY <1>1, <1>2, Prefix, Rest
<1>4. area' \o flight' = flight
  BY <1>1, <1>2, CutAndJoin
<1>5. area = <<>> /\ link' = link
  BY DEF Refill
<1>6. area \o flight = flight
  BY <1>5, ConcatEmptySeq
<1>7. area' # <<>>
  <2>1. Len(area') # 0
    BY <1>3
  <2> QED
    BY <2>1, EmptySeq
<1> QED
  BY <1>3, <1>4, <1>5, <1>6, <1>7 DEF Coming

\* The least of a set of places.
LEMMA MinIs ==
  ASSUME NEW T, T \in SUBSET Nat, T # {}
  PROVE  Min(T) \in T /\ \A y \in T : Min(T) <= y
<1>1. \E x \in T : \A y \in T : x <= y
  BY Least
<1> QED
  BY <1>1 DEF Min

\* What a turn of the loop consumes.
LEMMA ConsumedIs ==
  ASSUME area \in Seq(CharSet), Len(area) >= 5
  PROVE  /\ area # <<>> /\ Len(area) \in Nat /\ Head(area) = area[1] /\ area[1] \in CharSet
         /\ Consumed \in 0 .. Len(area)
         /\ Consumed = 0 <=> CRLFs = {}
         /\ Consumed > 0 => IsLF(area[Consumed])
<1>1. Len(area) \in Nat
  BY LenProperties
<1>2. area # <<>>
  BY <1>1, EmptySeq
<1>3. area[1] \in CharSet /\ Head(area) = area[1]
  BY <1>1, <1>2, ElementOfSeq
<1>4. CRLFs \in SUBSET Nat /\ \A x \in CRLFs : x \in 1 .. Len(area) /\ x > 0 /\ IsLF(area[x])
  BY <1>1 DEF CRLFs
<1>5. CRLFs # {} => Min(CRLFs) \in CRLFs
  BY <1>4, MinIs
<1>6. CASE CRLFs = {}
  BY <1>1, <1>2, <1>3, <1>6 DEF Consumed
<1>7. CASE CRLFs # {}
  <2>1. Consumed \in CRLFs
    BY <1>5, <1>7 DEF Consumed
  <2> QED
    BY <1>1, <1>2, <1>3, <1>4, <1>7, <2>1
<1> QED
  BY <1>6, <1>7

\* The next line that has come: k items, the last of which ends it.
NextIs(k) ==
  /\ k = Min(LineEnds) /\ k \in 1 .. Len(inbox) /\ k \in Nat /\ Len(inbox) \in Nat
  /\ inbox[k].verb \in Commands \cup {"\n"} /\ Last(NextLine) = inbox[k]
  /\ \A i \in 1 .. k - 1 : inbox[i].verb \in {"a", "."}
  /\ Body \in Seq(Verbs)
  /\ Len(Body) = k - (IF inbox[k].verb = "\n" THEN 1 ELSE 0)
  /\ \A i \in 1 .. Len(Body) : Body[i] = inbox[i].verb

\* There is one when a line has come.
LEMMA LineIs ==
  ASSUME inbox \in Seq(ItemSet), LineEnds # {}
  PROVE  \E k : NextIs(k)
<1>1. PICK m, k, w : m = Len(inbox) /\ k = Min(LineEnds) /\ w = NextLine
  OBVIOUS
<1>2. m \in Nat /\ DOMAIN inbox = 1 .. m
  BY <1>1, LenProperties
<1>3. LineEnds \in SUBSET Nat
  BY <1>2 DEF LineEnds
<1>4. k \in LineEnds /\ \A y \in LineEnds : k <= y
  BY <1>1, <1>3, MinIs
<1>5. k \in 1 .. m /\ k \in Nat /\ inbox[k].verb \in Commands \cup {"\n"}
  BY <1>2, <1>4 DEF LineEnds
<1>6. ASSUME NEW i \in 1 .. k - 1 PROVE inbox[i].verb \in {"a", "."}
  <2>1. i \in 1 .. m /\ i < k
    BY <1>2, <1>5, <1>6
  <2>2. i \notin LineEnds
    BY <1>4, <1>5, <2>1
  <2>3. inbox[i] \in ItemSet
    BY <1>1, <2>1, ElementOfSeq
  <2> QED
    BY <1>2, <2>1, <2>2, <2>3 DEF LineEnds, ItemSet, Verbs, Glyphs
<1>7. /\ w \in Seq(ItemSet) /\ Len(w) = k
      /\ \A i \in 1 .. k : w[i] = inbox[i]
  <2>1. w = SubSeq(inbox, 1, k) /\ k \in 0 .. Len(inbox)
    BY <1>1, <1>2, <1>5 DEF NextLine
  <2> QED
    BY <2>1, Prefix
<1>8. Last(w) = inbox[k]
  BY <1>5, <1>7 DEF Last
<1>9. PICK b, l : b = Body /\ l = k - (IF inbox[k].verb = "\n" THEN 1 ELSE 0)
  OBVIOUS
<1>10. b = [i \in 1 .. l |-> w[i].verb]
  BY <1>1, <1>7, <1>8, <1>9 DEF Body
<1>11. l \in Nat /\ l <= k /\ \A i \in 1 .. l : i \in 1 .. k /\ i \in 1 .. m
  BY <1>2, <1>5, <1>9
<1>12. \A i \in 1 .. l : w[i].verb \in Verbs
  <2> TAKE i \in 1 .. l
  <2>1. w[i] \in ItemSet
    BY <1>7, <1>11, ElementOfSeq
  <2> QED
    BY <2>1 DEF ItemSet
<1>13. b \in Seq(Verbs) /\ Len(b) = l
  <2>1. b \in [1 .. l -> Verbs]
    BY <1>10, <1>12
  <2>2. b \in Seq(Verbs)
    BY <1>11, <2>1
  <2> QED
    BY <1>10, <1>11, <2>2
<1>14. \A i \in 1 .. l : b[i] = inbox[i].verb
  BY <1>7, <1>10, <1>11
<1>15. NextIs(k)
  BY <1>1, <1>2, <1>5, <1>6, <1>8, <1>9, <1>13, <1>14 DEF NextIs
<1> QED
  BY <1>15

\* The receiver takes a line.
LEMMA WireTaken ==
  ASSUME WireBase, NEW k \in 0 .. Len(inbox), inbox' = SubSeq(inbox, k + 1, Len(inbox)),
         put' = put, n' = n
  PROVE  WireBase'
<1>1. /\ inbox \in Seq(ItemSet) /\ Len(inbox) \in Nat /\ k \in Nat /\ k <= Len(inbox)
  BY LenProperties DEF WireBase
<1>2. PICK v, m : v = inbox' /\ m = Len(inbox)
  OBVIOUS
<1>3. /\ v \in Seq(ItemSet) /\ Len(v) = m - k
      /\ \A i \in 1 .. m - k : v[i] = inbox[k + i]
  BY <1>1, <1>2, Slice
<1>4. ASSUME NEW i \in 1 .. Len(v) PROVE v[i].id <= n
  <2>1. k + i \in 1 .. m /\ i \in 1 .. m - k
    BY <1>1, <1>2, <1>3
  <2>2. inbox[k + i].id <= n
    BY <1>2, <2>1 DEF WireBase, Numbers
  <2> QED
    BY <1>3, <2>1, <2>2
<1> QED
  BY <1>2, <1>3, <1>4 DEF WireBase, Numbers

\* The receiver.
LEMMA ReceiverBase ==
  ASSUME Base, Greets \/ TakesCommand \/ TakesText \/ Closes
  PROVE  Base'
<1>1. /\ StreamBase /\ WireBase /\ CallBase /\ MailBase /\ MsgBase /\ CountBase
      /\ n \in Nat /\ MaxCmds \in Nat /\ n <= MaxCmds /\ inbox \in Seq(ItemSet)
  BY SmtpAssumption DEF Base, CountBase, WireBase
<1>2. ASSUME NEW id \in 0 .. MaxCmds, id <= n, Says(id), UNCHANGED <<area, output, n>>,
             link' \in {"none", "open", "fin"}
      PROVE  StreamBase'
  <2>1. PICK r : IsReply(r, id) /\ flight' = flight \o r
    BY <1>2, SaysIs
  <2>2. id \in Nat
    BY <1>1
  <2> QED
    BY <1>1, <1>2, <2>1, <2>2, StreamSaid
<1>3. CASE Greets
  <2>1. /\ Says(0) /\ mode = "greet" /\ mode' = "cmd" /\ link' = link
        /\ UNCHANGED <<area, link, output, call, out, put, inbox, text, mail, msg, n, shows, seen, tidy>>
    BY <1>3 DEF Greets, client, ghosts
  <2>2. StreamBase'
    <3>1. 0 \in 0 .. MaxCmds /\ 0 <= n
      BY <1>1
    <3>2. link' \in {"none", "open", "fin"}
      BY <1>1, <2>1 DEF StreamBase
    <3> QED
      BY <1>2, <2>1, <3>1, <3>2
  <2>3. MailBase'
    BY <1>1, <2>1 DEF MailBase
  <2> QED
    BY <1>1, <2>1, <2>2, <2>3 DEF Base, WireBase, CallBase, MsgBase, CountBase
<1>4. ASSUME TakeLine
      PROVE  \E k : /\ NextIs(k) /\ inbox' = SubSeq(inbox, k + 1, Len(inbox)) /\ k \in 0 .. Len(inbox)
                    /\ inbox[k] \in ItemSet /\ inbox[k].id <= n /\ inbox[k].id \in 0 .. MaxCmds
  <2>1. PICK k : NextIs(k)
    BY <1>1, <1>4, LineIs DEF TakeLine
  <2>2. k \in 1 .. Len(inbox) /\ k = Min(LineEnds) /\ Len(inbox) \in Nat
    BY <2>1 DEF NextIs
  <2>3. inbox[k] \in ItemSet /\ inbox[k].id <= n
    BY <1>1, <2>2, ElementOfSeq DEF WireBase, Numbers
  <2>4. inbox[k].id \in 0 .. MaxCmds
    BY <2>3 DEF ItemSet
  <2>5. k \in 0 .. Len(inbox) /\ inbox' = SubSeq(inbox, k + 1, Len(inbox))
    BY <1>4, <2>2 DEF TakeLine
  <2> QED
    BY <2>1, <2>3, <2>4, <2>5
<1>5. CASE TakesCommand
  <2>1. /\ TakeLine /\ mode = "cmd"
        /\ UNCHANGED <<area, output, call, out, put, mail, msg, n, shows, seen>>
    BY <1>5 DEF TakesCommand, client
  <2>2. PICK k : /\ NextIs(k) /\ inbox' = SubSeq(inbox, k + 1, Len(inbox)) /\ k \in 0 .. Len(inbox)
                 /\ inbox[k] \in ItemSet /\ inbox[k].id <= n /\ inbox[k].id \in 0 .. MaxCmds
    BY <1>4, <2>1
  <2>3. PICK c : c = inbox[k]
    OBVIOUS
  <2>4. /\ Says(c.id)
        /\ link' = link \/ link' = "fin"
        /\ \/ c.verb = "DATA" /\ mode' = "data" /\ text' = [id |-> c.id, lines |-> <<>>]
           \/ UNCHANGED <<mode, text>>
        /\ tidy' = tidy \/ tidy' = (tidy /\ Body = <<c.verb>>)
    BY <1>5, <2>2, <2>3 DEF TakesCommand, NextIs
  <2>5. StreamBase'
    <3>1. link' \in {"none", "open", "fin"}
      BY <1>1, <2>4 DEF StreamBase
    <3> QED
      BY <1>2, <2>1, <2>2, <2>3, <2>4, <3>1
  <2>6. WireBase'
    BY <1>1, <2>1, <2>2, WireTaken
  <2>7. MailBase'
    <3>1. CASE c.verb = "DATA" /\ mode' = "data" /\ text' = [id |-> c.id, lines |-> <<>>]
      <4>1. c.id > 0 /\ c.id <= n /\ c.id \in 0 .. MaxCmds
        BY <2>2, <2>3, <3>1 DEF ItemSet, Commands
      <4>2. <<>> \in Seq(Verbs)
        BY EmptySeq
      <4>3. text' \in Letters /\ text'.id = c.id
        BY <3>1, <4>1, <4>2 DEF Letters
      <4> QED
        BY <1>1, <2>1, <3>1, <4>1, <4>3 DEF MailBase
    <3>2. CASE UNCHANGED <<mode, text>>
      BY <1>1, <2>1, <3>2 DEF MailBase
    <3> QED
      BY <2>4, <3>1, <3>2
  <2>8. tidy' \in BOOLEAN
    BY <1>1, <2>4 DEF CountBase
  <2> QED
    BY <1>1, <2>1, <2>5, <2>6, <2>7, <2>8 DEF Base, CallBase, MsgBase, CountBase
<1>6. CASE TakesText
  <2>1. /\ TakeLine /\ mode = "data"
        /\ UNCHANGED <<area, link, output, call, out, put, msg, n, shows, seen>>
    BY <1>6 DEF TakesText, client
  <2>2. PICK k : /\ NextIs(k) /\ inbox' = SubSeq(inbox, k + 1, Len(inbox)) /\ k \in 0 .. Len(inbox)
                 /\ inbox[k] \in ItemSet /\ inbox[k].id <= n /\ inbox[k].id \in 0 .. MaxCmds
    BY <1>4, <2>1
  <2>3. WireBase'
    BY <1>1, <2>1, <2>2, WireTaken
  <2>4. CASE Body = <<".">>
    <3>1. /\ mail' = text /\ mode' = "cmd" /\ text' = [id |-> 0, lines |-> <<>>]
          /\ Says(inbox[k].id) /\ tidy' = (tidy /\ inbox[k].id > 0)
      BY <1>6, <2>2, <2>4 DEF TakesText, NextIs
    <3>2. StreamBase'
      <4>1. link' \in {"none", "open", "fin"}
        BY <1>1, <2>1 DEF StreamBase
      <4> QED
        BY <1>2, <2>1, <2>2, <3>1, <4>1
    <3>3. MailBase'
      <4>1. text' \in Letters /\ text'.id = 0
        <5>1. <<>> \in Seq(Verbs) /\ 0 \in 0 .. MaxCmds
          BY <1>1, EmptySeq
        <5> QED
          BY <3>1, <5>1 DEF Letters
      <4> QED
        BY <1>1, <2>1, <3>1, <4>1 DEF MailBase
    <3>4. tidy' \in BOOLEAN
      BY <3>1
    <3> QED
      BY <1>1, <2>1, <2>3, <3>2, <3>3, <3>4 DEF Base, CallBase, MsgBase, CountBase
  <2>5. CASE Body # <<".">>
    <3>1. PICK line : line = IF Body # <<>> /\ Head(Body) = "." THEN Tail(Body) ELSE Body
      OBVIOUS
    <3>2. /\ text' = [text EXCEPT !.lines = @ \o Append(line, "\n")]
          /\ UNCHANGED <<mail, mode, flight, tidy>>
      BY <1>6, <2>5, <3>1 DEF TakesText
    <3>3. text.lines \o Append(line, "\n") \in Seq(Verbs) /\ text \in Letters
      <4>1. Body \in Seq(Verbs) /\ "\n" \in Verbs
        BY <2>2 DEF NextIs, Verbs, Glyphs
      <4>2. line \in Seq(Verbs)
        <5>1. Body # <<>> => Tail(Body) \in Seq(Verbs)
          BY <4>1, HeadTailProperties
        <5> QED
          BY <3>1, <4>1, <5>1
      <4>3. Append(line, "\n") \in Seq(Verbs)
        BY <4>1, <4>2, AppendProperties
      <4>4. text.lines \in Seq(Verbs) /\ text \in Letters
        BY <1>1 DEF MailBase, Letters
      <4> QED
        BY <4>3, <4>4, ConcatProperties
    <3>4. text' \in Letters /\ text'.id = text.id
      BY <3>2, <3>3 DEF Letters
    <3>5. MailBase'
      BY <1>1, <2>1, <3>2, <3>4 DEF MailBase
    <3>6. StreamBase'
      BY <1>1, <2>1, <3>2 DEF StreamBase, Coming
    <3> QED
      BY <1>1, <2>1, <2>3, <3>2, <3>5, <3>6 DEF Base, CallBase, MsgBase, CountBase
  <2> QED
    BY <2>4, <2>5
<1>7. CASE Closes
  <2>1. /\ link' = "fin"
        /\ UNCHANGED <<area, flight, output, call, out, put, inbox, mode, text, mail,
                       msg, n, shows, seen, tidy>>
    BY <1>7 DEF Closes, client, receiver, ghosts
  <2>2. StreamBase'
    BY <1>1, <2>1 DEF StreamBase, Coming
  <2> QED
    BY <1>1, <2>1, <2>2 DEF Base, WireBase, CallBase, MailBase, MsgBase, CountBase
<1> QED
  BY <1>3, <1>5, <1>6, <1>7

\* A call goes on, or is over, when its reply has been read.
LEMMA GotBase ==
  ASSUME CallBase, Got, UNCHANGED output
  PROVE  CallBase' /\ UNCHANGED <<put, inbox, n, tidy>> /\ call.at \in {"reply", "end", "DATA"}
<1>1. CASE call.at \in {"reply", "end"} /\ Goes("no") /\ UNCHANGED <<put, inbox, n, tidy>>
  <2>1. call' = Idle /\ out' = "returned"
    BY <1>1 DEF Goes
  <2> QED
    BY <1>1, <2>1, CallOver
<1>2. CASE call.at = "DATA" /\ Goes("text") /\ UNCHANGED <<put, inbox, n, tidy>>
  <2>1. /\ call.op \in {"helo", "command", "buffer", "file"} /\ call = [op |-> call.op, at |-> call.at]
        /\ n < MaxCmds
    BY <1>2, CallingOne DEF CallBase
  <2>2. call' = [call EXCEPT !.at = "text"] /\ out' = "none"
    BY <1>2 DEF Goes
  <2>3. PICK op : op = call.op
    OBVIOUS
  <2>4. call' = [op |-> op, at |-> "text"]
    BY <2>1, <2>2, <2>3
  <2>5. op \in {"helo", "command", "buffer", "file"} /\ "text" \in Responses \cup {"text"}
        /\ "text" \notin Responses
    BY <2>1, <2>3 DEF Responses
  <2> QED
    BY <1>2, <2>1, <2>2, <2>4, <2>5, CallAt
<1> QED
  BY <1>1, <1>2 DEF Got

\* The greeting is read, and HELO is sent.
LEMMA GreetedBase ==
  ASSUME Base, call.at = "greeting", n' = n + 1, Sync(<<Item("other", n + 1)>>, "helo", "reply"),
         UNCHANGED output
  PROVE  WireBase' /\ CallBase' /\ tidy' \in BOOLEAN /\ n < MaxCmds
<1>1. /\ WireBase /\ CallBase /\ CountBase /\ n \in Nat /\ MaxCmds \in Nat /\ n < MaxCmds /\ output
  BY CallingOne, SmtpAssumption DEF Base, CountBase, CallBase, Responses
<1>2. PICK x : x = Item("other", n + 1)
  OBVIOUS
<1>3. x \in ItemSet /\ x.id = n + 1
  <2>1. n + 1 \in 0 .. MaxCmds /\ n + 1 > 0
    BY <1>1
  <2>2. "other" \in Verbs /\ "other" \notin {"a", "."}
    BY DEF Verbs, Commands
  <2> QED
    BY <1>2, <2>1, <2>2 DEF Item, ItemSet
<1>4. PICK items : items = <<x>>
  OBVIOUS
<1>5. items \in Seq(ItemSet) /\ Numbers(items, n')
  <2>1. items \in Seq(ItemSet) /\ Len(items) = 1 /\ items[1] = x
    BY <1>3, <1>4
  <2>2. n' \in Nat /\ x.id <= n'
    BY <1>1, <1>3
  <2> QED
    BY <2>1, <2>2 DEF Numbers
<1>6. Sync(items, "helo", "reply")
  BY <1>2, <1>4
<1>7. /\ WireBase' /\ tidy' \in BOOLEAN
      /\ \/ /\ call' = IF "reply" = "no" THEN Idle ELSE [op |-> "helo", at |-> "reply"]
            /\ out' = IF "reply" = "no" THEN "returned" ELSE "none"
         \/ call' = Idle /\ out' = "err"
  BY <1>1, <1>5, <1>6, SyncTyped
<1>8. CallBase'
  <2>1. "reply" \in Responses /\ "helo" \in {"helo", "command", "buffer", "file"}
    BY DEF Responses
  <2> QED
    BY <1>1, <1>7, <2>1, CallAt, CallOver
<1> QED
  BY <1>1, <1>7, <1>8

\* The counters, when a line has been shown.
LEMMA CountShown ==
  ASSUME CountBase, n' = n \/ (n' = n + 1 /\ n < MaxCmds), tidy' \in BOOLEAN, shows' = shows,
         seen' = seen \/ (seen' \in Nat /\ seen' <= n)
  PROVE  CountBase'
<1>1. n \in 0 .. MaxCmds /\ shows \in 0 .. n + 1 /\ seen \in -1 .. n /\ MaxCmds \in Nat
  BY SmtpAssumption DEF CountBase
<1>2. n' \in 0 .. MaxCmds /\ n <= n' /\ n' \in Nat
  BY <1>1
<1>3. shows' \in 0 .. n' + 1
  <2>1. PICK a, b, c : a = shows /\ b = n /\ c = n'
    OBVIOUS
  <2>2. b \in Nat /\ c \in Nat /\ b <= c /\ a \in 0 .. b + 1
    BY <1>1, <1>2, <2>1
  <2>3. a \in 0 .. c + 1
    BY <2>2
  <2> QED
    BY <2>1, <2>3
<1>4. seen' \in -1 .. n'
  BY <1>1, <1>2
<1> QED
  BY <1>2, <1>3, <1>4 DEF CountBase

\* The first line at hand, and what it says was shown.
LEMMA FirstAtHand ==
  ASSUME StreamBase, CountBase, area # <<>>, Shown(Head(area).line) \/ seen' = seen
  PROVE  /\ Head(area) = area[1] /\ area[1] \in CharSet /\ area[1].line \in Lines
         /\ Len(area) \in Nat /\ Len(area) >= 1 /\ Coming # <<>> /\ Coming[1] = area[1]
         /\ seen' = seen \/ (seen' \in Nat /\ seen' <= n)
<1>1. /\ area \in Seq(CharSet) /\ flight \in Seq(CharSet) /\ Len(area) \in Nat /\ Len(area) # 0
  BY EmptySeq, LenProperties DEF StreamBase
<1>2. area[1] \in CharSet /\ Head(area) = area[1]
  BY <1>1, ElementOfSeq
<1>3. Coming # <<>> /\ Coming[1] = area[1] /\ Len(Coming) \in Nat /\ Len(Coming) # 0
  <2>1. Coming # <<>> /\ Coming[1] = area[1] /\ Coming \in Seq(CharSet)
    BY <1>1, JoinParts DEF Coming
  <2> QED
    BY <2>1, EmptySeq, LenProperties
<1>4. area[1].line \in Lines /\ area[1].line.id \in Nat
  BY <1>2, SmtpAssumption DEF CharSet, Lines
<1>5. area[1].line.id <= n
  <2>1. 1 \in 1 .. Len(Coming)
    BY <1>3
  <2> QED
    BY <1>3, <2>1 DEF StreamBase, LineNumbers
<1> QED
  BY <1>1, <1>2, <1>3, <1>4, <1>5 DEF Shown

\* get_response.
LEMMA ResponseBase ==
  ASSUME Base, ResponseRefill \/ ResponseLine \/ ShowLine \/ ResponseEof \/ ResponseFails
  PROVE  Base'
<1>1. /\ StreamBase /\ WireBase /\ CallBase /\ MailBase /\ MsgBase /\ CountBase
      /\ n \in Nat /\ MaxCmds \in Nat /\ area \in Seq(CharSet) /\ flight \in Seq(CharSet)
  BY SmtpAssumption DEF Base, CountBase, StreamBase
<1>2. CASE ResponseRefill
  <2>1. /\ Refill /\ tidy' = (tidy /\ (output => ~Torn'))
        /\ UNCHANGED <<output, call, out, put, inbox, mode, text, mail, msg, n, shows, seen>>
    BY <1>2 DEF ResponseRefill, client, receiver
  <2>2. /\ area' \in Seq(CharSet) /\ flight' \in Seq(CharSet) /\ Coming' = Coming /\ link' = link
    BY <1>1, <2>1, RefillIs
  <2>3. StreamBase'
    BY <1>1, <2>1, <2>2 DEF StreamBase
  <2>4. tidy' \in BOOLEAN
    BY <2>1
  <2> QED
    BY <1>1, <2>1, <2>3, <2>4 DEF Base, WireBase, CallBase, MailBase, MsgBase, CountBase
<1>3. CASE ResponseLine
  <2>1. /\ Len(area) >= 5 /\ area' = SubSeq(area, Consumed + 1, Len(area))
        /\ seen' = seen \/ Shown(Head(area).line)
        /\ UNCHANGED <<flight, link, output, mode, text, mail, msg, shows>>
        /\ \/ Got
           \/ /\ call.at = "greeting"
              /\ n' = n + 1
              /\ Sync(<<Item("other", n + 1)>>, "helo", "reply")
           \/ UNCHANGED <<call, out, put, inbox, n, tidy>>
    BY <1>3 DEF ResponseLine
  <2>2. PICK k : k = Consumed
    OBVIOUS
  <2>3. area # <<>> /\ k \in 0 .. Len(area) /\ (k > 0 => IsLF(area[k]))
    BY <1>1, <2>1, <2>2, ConsumedIs
  <2>4. seen' = seen \/ (seen' \in Nat /\ seen' <= n)
    BY <1>1, <2>1, <2>3, FirstAtHand
  <2>5. n' = n \/ n' = n + 1
    BY <2>1 DEF Got
  <2>6. StreamBase'
    BY <1>1, <2>1, <2>2, <2>3, <2>5, StreamTaken
  <2>7. n' \in Nat /\ n <= n'
    BY <1>1, <2>5
  <2>8. MailBase' /\ MsgBase'
    BY <1>1, <2>1, <2>7, MailKept, MsgKept DEF MsgSame
  <2>9. CASE Got
    <3>1. CallBase' /\ UNCHANGED <<put, inbox, n, tidy>>
      BY <1>1, <2>1, <2>9, GotBase
    <3>2. tidy' \in BOOLEAN
      BY <1>1, <3>1 DEF CountBase
    <3>3. CountBase'
      BY <1>1, <2>1, <2>4, <3>1, <3>2, CountShown
    <3>4. WireBase'
      BY <1>1, <2>7, <3>1, WireKept
    <3> QED
      BY <2>6, <2>8, <3>1, <3>3, <3>4 DEF Base
  <2>10. CASE /\ call.at = "greeting"
              /\ n' = n + 1
              /\ Sync(<<Item("other", n + 1)>>, "helo", "reply")
    <3>1. WireBase' /\ CallBase' /\ tidy' \in BOOLEAN /\ n < MaxCmds
      BY <2>1, <2>10, GreetedBase
    <3>2. CountBase'
      BY <1>1, <2>1, <2>4, <2>10, <3>1, CountShown
    <3> QED
      BY <2>6, <2>8, <3>1, <3>2 DEF Base
  <2>11. CASE UNCHANGED <<call, out, put, inbox, n, tidy>>
    <3>1. tidy' \in BOOLEAN
      BY <1>1, <2>11 DEF CountBase
    <3>2. CountBase'
      BY <1>1, <2>1, <2>4, <2>11, <3>1, CountShown
    <3> QED
      BY <1>1, <2>1, <2>6, <2>8, <2>11, <3>2 DEF Base, WireBase, CallBase
  <2> QED
    BY <2>1, <2>9, <2>10, <2>11
<1>4. CASE ShowLine
  <2>1. PICK LFs : LFs = {k \in 1 .. Len(area) : IsLF(area[k])}
    OBVIOUS
  <2>2. /\ call.at = "show" /\ area # <<>>
        /\ UNCHANGED <<flight, link, output, put, inbox, mode, text, mail, msg, n, shows, tidy>>
        /\ area' = <<>> \/ (LFs # {} /\ area' = SubSeq(area, Min(LFs) + 1, Len(area)))
        /\ seen' = seen \/ Shown(Head(area).line)
        /\ (call' = call /\ out' = out) \/ (call' = Idle /\ out' = "shown")
    BY <1>4, <2>1 DEF ShowLine, receiver
  <2>3. ~output
    BY <1>1, <2>2 DEF CallBase, Calling
  <2>4. Len(area) \in Nat /\ (seen' = seen \/ (seen' \in Nat /\ seen' <= n))
    BY <1>1, <2>2, FirstAtHand
  <2>5. \E k \in 0 .. Len(area) : area' = SubSeq(area, k + 1, Len(area))
    <3>1. CASE area' = <<>>
      <4>1. Len(area) \in 0 .. Len(area)
        BY <2>4
      <4>2. SubSeq(area, Len(area) + 1, Len(area)) = <<>>
        BY <1>1, <4>1, Rest
      <4> QED
        BY <3>1, <4>1, <4>2
    <3>2. CASE LFs # {} /\ area' = SubSeq(area, Min(LFs) + 1, Len(area))
      <4>1. LFs \in SUBSET Nat
        BY <2>1, <2>4
      <4>2. Min(LFs) \in LFs
        BY <3>2, <4>1, MinIs
      <4>3. Min(LFs) \in 0 .. Len(area)
        BY <2>1, <2>4, <4>2
      <4> QED
        BY <3>2, <4>3
    <3> QED
      BY <2>2, <3>1, <3>2
  <2>6. StreamBase'
    BY <1>1, <2>2, <2>3, <2>5, StreamTaken
  <2>7. CallBase'
    <3>1. CASE call' = call /\ out' = out
      BY <1>1, <2>2, <3>1 DEF CallBase
    <3>2. CASE call' = Idle /\ out' = "shown"
      BY <3>2, CallOver
    <3> QED
      BY <2>2, <3>1, <3>2
  <2>8. CountBase'
    <3>1. tidy' \in BOOLEAN
      BY <1>1, <2>2 DEF CountBase
    <3> QED
      BY <1>1, <2>2, <2>4, <3>1, CountShown
  <2> QED
    BY <1>1, <2>2, <2>6, <2>7, <2>8 DEF Base, WireBase, MailBase, MsgBase
<1>5. CASE ResponseEof
  <2>1. /\ UNCHANGED <<area, flight, link, output, mode, text, mail, msg, shows, seen>>
        /\ \/ Got
           \/ /\ call.at = "greeting"
              /\ n' = n + 1
              /\ Sync(<<Item("other", n + 1)>>, "helo", "reply")
           \/ call.at = "show" /\ Goes("no") /\ UNCHANGED <<put, inbox, n, tidy>>
    BY <1>5 DEF ResponseEof, stream
  <2>2. ASSUME WireBase', CallBase', tidy' \in BOOLEAN, n' = n \/ (n' = n + 1 /\ n < MaxCmds)
        PROVE  Base'
    <3>1. CountBase' /\ n' \in Nat /\ n <= n'
      BY <1>1, <2>1, <2>2, CountKept
    <3>2. StreamBase' /\ MailBase' /\ MsgBase'
      BY <1>1, <2>1, <3>1, StreamKept, MailKept, MsgKept DEF MsgSame
    <3> QED
      BY <2>2, <3>1, <3>2 DEF Base
  <2>3. CASE Got
    <3>1. CallBase' /\ UNCHANGED <<put, inbox, n, tidy>>
      BY <1>1, <2>1, <2>3, GotBase
    <3> QED
      BY <1>1, <2>2, <3>1 DEF WireBase, CountBase
  <2>4. CASE /\ call.at = "greeting"
             /\ n' = n + 1
             /\ Sync(<<Item("other", n + 1)>>, "helo", "reply")
    <3>1. WireBase' /\ CallBase' /\ tidy' \in BOOLEAN /\ n < MaxCmds
      BY <2>1, <2>4, GreetedBase
    <3> QED
      BY <2>2, <2>4, <3>1
  <2>5. CASE call.at = "show" /\ Goes("no") /\ UNCHANGED <<put, inbox, n, tidy>>
    <3>1. call' = Idle /\ out' = "returned"
      BY <2>5 DEF Goes
    <3>2. CallBase'
      BY <3>1, CallOver
    <3> QED
      BY <1>1, <2>2, <2>5, <3>2 DEF WireBase, CountBase
  <2> QED
    BY <2>1, <2>3, <2>4, <2>5
<1>6. CASE ResponseFails
  <2>1. /\ call' = Idle /\ out' = "err" /\ tidy' = FALSE
        /\ UNCHANGED <<area, flight, link, output, put, inbox, mode, text, mail, msg, n, shows, seen>>
    BY <1>6 DEF ResponseFails, Throw, stream, receiver
  <2>2. CallBase'
    BY <2>1, CallOver
  <2>3. StreamBase'
    BY <1>1, <2>1 DEF StreamBase, Coming
  <2> QED
    BY <1>1, <2>1, <2>2, <2>3 DEF Base, WireBase, MailBase, MsgBase, CountBase
<1> QED
  BY <1>2, <1>3, <1>4, <1>5, <1>6

\* Every step keeps the types, and they hold initially.
LEMMA StepBase == ASSUME Base, [Next]_vars PROVE Base'
<1>1. CASE UNCHANGED vars
  BY <1>1 DEF vars, Base, StreamBase, WireBase, CallBase, MailBase, MsgBase, CountBase, Coming
<1>2. CASE Next
  <2>1. \/ Calls \/ SendBuf \/ Overflow \/ EndText
        \/ ResponseRefill \/ ResponseLine \/ ShowLine \/ ResponseEof \/ ResponseFails
        \/ Greets \/ TakesCommand \/ TakesText \/ Closes
    BY <1>2 DEF Next, Proceeds, Receiver
  <2> QED
    BY <2>1, CallsBase, TextBase, ResponseBase, ReceiverBase
<1> QED
  BY <1>1, <1>2

\* No stream, no command and no text yet.
LEMMA InitBase == Init => Base
<1> SUFFICES ASSUME Init PROVE Base
  OBVIOUS
<1>1. MaxCmds \in Nat /\ MaxText \in Nat
  BY SmtpAssumption
<1>2. /\ <<>> \in Seq(CharSet) /\ <<>> \in Seq(ItemSet) /\ <<>> \in Seq(Verbs)
      /\ <<>> \in Seq(Glyphs) /\ Len(<<>>) = 0
  BY EmptySeq
<1>3. StreamBase
  <2>1. Coming = <<>>
    BY <1>2, ConcatEmptySeq DEF Init, StreamInit, Coming
  <2> QED
    BY <1>2, <2>1 DEF Init, StreamInit, StreamBase, Linked, Closed, LineNumbers
<1>4. WireBase
  BY <1>2 DEF Init, WireBase, Numbers
<1>5. CallBase
  BY CallingIs DEF Init, CallBase, Idle, Responses
<1>6. MailBase
  BY <1>1, <1>2 DEF Init, MailBase, Letters
<1>7. MsgBase
  BY <1>1, <1>2 DEF Init, MsgBase, Messages, NoSeam, Seams
<1>8. CountBase
  BY <1>1 DEF Init, CountBase
<1> QED
  BY <1>3, <1>4, <1>5, <1>6, <1>7, <1>8 DEF Base

\* Type correctness.
LEMMA BaseTypes == Base => TypeOK
<1> SUFFICES ASSUME Base PROVE TypeOK
  OBVIOUS
<1>1. /\ StreamBase /\ WireBase /\ CallBase /\ MailBase /\ MsgBase /\ CountBase
      /\ n \in Nat /\ MaxCmds \in Nat
  BY SmtpAssumption DEF Base, CountBase
<1>2. ASSUME output, area # <<>> PROVE Head(area).at = 1
  <2>1. Head(area) = area[1] /\ Coming # <<>> /\ Coming[1] = area[1]
    <3>1. area \in Seq(CharSet) /\ flight \in Seq(CharSet)
      BY <1>1 DEF StreamBase
    <3>2. Len(area) # 0
      BY <1>2, <3>1, EmptySeq
    <3>3. Coming # <<>> /\ Coming[1] = area[1]
      BY <1>2, <3>1, JoinParts DEF Coming
    <3> QED
      BY <1>2, <3>1, <3>3
  <2> QED
    BY <1>1, <1>2, <2>1 DEF StreamBase
<1>3. ASSUME NEW s \in Seq(ItemSet) PROVE \A i \in 1 .. Len(s) : s[i].id \in 0 .. MaxCmds
  <2> TAKE i \in 1 .. Len(s)
  <2>1. s[i] \in ItemSet
    BY ElementOfSeq
  <2> QED
    BY <2>1 DEF ItemSet
<1>4. \A s \in {put, inbox} : \A i \in 1 .. Len(s) : s[i].id \in 0 .. MaxCmds
  BY <1>1, <1>3 DEF WireBase
<1>5. /\ call \in Places /\ out \in {"none", "returned", "shown", "err"}
      /\ mode \in {"greet", "cmd", "data"} /\ text.id \in 0 .. MaxCmds /\ mail.id \in 0 .. MaxCmds
      /\ Len(msg.text) <= MaxText /\ link \in {"none", "open", "fin"} /\ output \in BOOLEAN
  BY <1>1 DEF CallBase, Calling, MailBase, Letters, MsgBase, StreamBase
<1> QED
  BY <1>1, <1>2, <1>4, <1>5 DEF TypeOK, CountBase, Places

------------------------------------------------------------------------------
(* The phases of a conversation: while the client is tidy and the server   *)
(* has not closed, what is on its way to the receiver, what it does with   *)
(* it, and what comes back belong together.                                *)

Sane == tidy /\ link # "fin"

\* What comes behind what on the way to the receiver: a command behind another
\* one or the end of a text, text behind DATA or text.
Grammar == {xy \in ItemSet \X ItemSet :
              /\ xy[2].verb \in Commands <=> xy[1].id > 0 /\ xy[1].verb # "DATA"
              /\ xy[2].verb = "\n" /\ xy[2].id > 0 => xy[1] = Item(".", 0)}

\* The item that ends a text.
Final(x) == x.verb = "\n" /\ x.id > 0

\* The end of a text is a line with just a dot: the dot is behind an end of
\* line, or that has been taken already.
WellFormed(w) ==
  /\ Linked(w, Grammar)
  /\ \A i \in 1 .. Len(w) : Final(w[i]) => i > 1 /\ (i > 2 => w[i - 2] = Item("\n", 0))

\* What was sent last fits the place of the call.
LastIs(w, at) ==
  w # <<>> => LET z == w[Len(w)] IN
    /\ at = "text" => z.id = 0 \/ z.verb = "DATA"
    /\ at = "DATA" => z.verb = "DATA"
    /\ at \notin {"text", "DATA"} => z.id > 0 /\ z.verb # "DATA"

\* What comes next fits what the receiver does.
ModeFits(w, m, at) ==
  m = "data" => IF w = <<>> THEN at \in {"DATA", "text"} ELSE w[1].verb \notin Commands

\* The numbers in w are those from b + 1 to e, in order: f[i] is the latest of
\* the first i items.
Numbered(w, b, e) ==
  \E f \in [0 .. Len(w) -> Nat] :
    /\ f[0] = b /\ f[Len(w)] = e
    /\ \A i \in 1 .. Len(w) : \/ w[i].id = 0 /\ f[i] = f[i - 1]
                              \/ w[i].id = f[i] /\ f[i] = f[i - 1] + 1

\* The stream has the replies behind the one shown last, s, up to the one to p.
StreamTo(w, s, p) ==
  IF w = <<>> THEN s = p
  ELSE /\ w[Len(w)].line.id = p /\ w[Len(w)].line.kind # "first"
       /\ w[1].line.id = s + 1
       /\ LineNumbers(w, p)

\* What was sent; what is on its way of the replies to it; what has been shown
\* of them, with output and with operator <<.
Sent == WellFormed(Wire) /\ LastIs(Wire, call.at) /\ ModeFits(Wire, mode, call.at)
Replies ==
  /\ Linked(Coming, Order)
  /\ mode = "greet" => Coming = <<>> /\ seen = -1 /\ Numbered(Wire, 0, n)
  /\ mode # "greet" => \E p \in 0 .. n : Numbered(Wire, p, n) /\ StreamTo(Coming, seen, p)
OutputSeen ==
  output =>
    /\ area # <<>> => IsLF(area[Len(area)])
    /\ out # "shown"
    /\ n = 0 => seen = -1 /\ call.at \in {"no", "greeting"} /\ out # "returned"
    /\ n > 0 => seen = IF call.at \in {"reply", "DATA", "end"} THEN n - 1 ELSE n
ShowSeen ==
  ~output =>
    /\ seen = IF call.op = "show" THEN shows - 2 ELSE shows - 1
    /\ call.op # "show" /\ Coming # <<>> => Coming[1].at = 1 /\ Coming[1].line.kind # "last"
Phases == Sent /\ Replies /\ OutputSeen /\ ShowSeen

------------------------------------------------------------------------------
(* The numbers of what has been sent.                                      *)

\* Behind what is numbered up to m comes what goes on from there.
LEMMA NumberedJoin ==
  ASSUME NEW u \in Seq(ItemSet), NEW v \in Seq(ItemSet), NEW b, NEW m, NEW e,
         Numbered(u, b, m), Numbered(v, m, e)
  PROVE  Numbered(u \o v, b, e)
<1>1. PICK x, y : x = Len(u) /\ y = Len(v)
  OBVIOUS
<1>2. PICK w : w = u \o v
  OBVIOUS
<1>3. /\ w \in Seq(ItemSet) /\ Len(w) = x + y /\ x \in Nat /\ y \in Nat
      /\ \A i \in 1 .. x : w[i] = u[i]
      /\ \A i \in 1 .. y : w[x + i] = v[i]
  BY <1>1, <1>2, JoinParts
<1>4. PICK f \in [0 .. x -> Nat] :
        /\ f[0] = b /\ f[x] = m
        /\ \A i \in 1 .. x : \/ u[i].id = 0 /\ f[i] = f[i - 1]
                             \/ u[i].id = f[i] /\ f[i] = f[i - 1] + 1
  BY <1>1 DEF Numbered
<1>5. PICK g \in [0 .. y -> Nat] :
        /\ g[0] = m /\ g[y] = e
        /\ \A i \in 1 .. y : \/ v[i].id = 0 /\ g[i] = g[i - 1]
                             \/ v[i].id = g[i] /\ g[i] = g[i - 1] + 1
  BY <1>1 DEF Numbered
<1>6. PICK h : h = [i \in 0 .. x + y |-> IF i <= x THEN f[i] ELSE g[i - x]]
  OBVIOUS
<1>7. ASSUME NEW i \in 0 .. x PROVE h[i] = f[i] /\ h[i] \in Nat
  <2>1. i \in 0 .. x + y /\ i <= x
    BY <1>3
  <2> QED
    BY <1>6, <2>1
<1>8. ASSUME NEW i \in 0 .. y PROVE h[x + i] = g[i] /\ h[x + i] \in Nat
  <2>1. x + i \in 0 .. x + y
    BY <1>3
  <2>2. CASE i = 0
    <3>1. x \in 0 .. x /\ x + 0 = x
      BY <1>3
    <3> QED
      BY <1>4, <1>5, <1>7, <2>2, <3>1
  <2>3. CASE i # 0
    <3>1. ~(x + i <= x) /\ (x + i) - x = i
      BY <1>3, <2>3
    <3> QED
      BY <1>6, <2>1, <3>1
  <2> QED
    BY <2>2, <2>3
<1>9. ASSUME NEW i \in 0 .. x + y PROVE i \in 0 .. x \/ \E j \in 1 .. y : i = x + j
  <2>1. CASE i <= x
    BY <1>3, <2>1
  <2>2. CASE i > x
    <3>1. PICK j : j = i - x
      OBVIOUS
    <3>2. j \in 1 .. y /\ i = x + j
      BY <1>3, <2>2, <3>1
    <3> QED
      BY <3>2
  <2> QED
    BY <1>3, <2>1, <2>2
<1>10. h \in [0 .. x + y -> Nat]
  <2>1. \A i \in 0 .. x + y : h[i] \in Nat
    <3> TAKE i \in 0 .. x + y
    <3>1. ASSUME NEW j \in 1 .. y, i = x + j PROVE h[i] \in Nat
      <4>1. j \in 0 .. y
        OBVIOUS
      <4> QED
        BY <1>8, <3>1, <4>1
    <3> QED
      BY <1>7, <1>9, <3>1
  <2> QED
    BY <1>6, <2>1
<1>11. h[0] = b /\ h[x + y] = e
  <2>1. 0 \in 0 .. x /\ y \in 0 .. y
    BY <1>3
  <2> QED
    BY <1>4, <1>5, <1>7, <1>8, <2>1
<1>12. ASSUME NEW i \in 1 .. x + y
       PROVE  \/ w[i].id = 0 /\ h[i] = h[i - 1]
              \/ w[i].id = h[i] /\ h[i] = h[i - 1] + 1
  <2>1. CASE i \in 1 .. x
    <3>1. i \in 0 .. x /\ i - 1 \in 0 .. x
      BY <1>3, <2>1
    <3>2. h[i] = f[i] /\ h[i - 1] = f[i - 1] /\ w[i] = u[i]
      BY <1>3, <1>7, <2>1, <3>1
    <3> QED
      BY <1>4, <2>1, <3>2
  <2>2. ASSUME NEW j \in 1 .. y, i = x + j
        PROVE  \/ w[i].id = 0 /\ h[i] = h[i - 1]
               \/ w[i].id = h[i] /\ h[i] = h[i - 1] + 1
    <3>1. j \in 0 .. y /\ j - 1 \in 0 .. y /\ i - 1 = x + (j - 1)
      BY <1>3, <2>2
    <3>2. h[x + j] = g[j] /\ h[x + (j - 1)] = g[j - 1]
      BY <1>8, <3>1
    <3>3. h[i] = g[j] /\ h[i - 1] = g[j - 1] /\ w[i] = v[j]
      BY <1>3, <2>2, <3>1, <3>2
    <3> QED
      BY <1>5, <3>3
  <2>3. i \in 1 .. x \/ \E j \in 1 .. y : i = x + j
    <3>1. i \in 0 .. x + y /\ i # 0
      BY <1>3
    <3> QED
      BY <1>3, <1>9, <3>1
  <2> QED
    BY <2>1, <2>2, <2>3
<1>13. Numbered(w, b, e)
  <2>1. PICK z : z = x + y
    OBVIOUS
  <2>2. Len(w) = z /\ h \in [0 .. z -> Nat] /\ h[0] = b /\ h[z] = e
    BY <1>3, <1>10, <1>11, <2>1
  <2>3. \A i \in 1 .. z : \/ w[i].id = 0 /\ h[i] = h[i - 1]
                          \/ w[i].id = h[i] /\ h[i] = h[i - 1] + 1
    BY <1>12, <2>1
  <2> QED
    BY <2>2, <2>3 DEF Numbered
<1> QED
  BY <1>2, <1>13

\* Text has no numbers.
LEMMA NumberedText ==
  ASSUME NEW v \in Seq(ItemSet), NEW b \in Nat, \A i \in 1 .. Len(v) : v[i].id = 0
  PROVE  Numbered(v, b, b)
<1>1. PICK k : k = Len(v)
  OBVIOUS
<1>2. k \in Nat
  BY <1>1, LenProperties
<1>3. PICK f : f = [i \in 0 .. k |-> b]
  OBVIOUS
<1>4. f \in [0 .. k -> Nat] /\ f[0] = b /\ f[k] = b
  BY <1>2, <1>3
<1>5. \A i \in 1 .. k : v[i].id = 0 /\ f[i] = f[i - 1]
  <2> TAKE i \in 1 .. k
  <2>1. i \in 0 .. k /\ i - 1 \in 0 .. k
    BY <1>2
  <2> QED
    BY <1>1, <1>3, <2>1
<1> QED
  BY <1>1, <1>4, <1>5 DEF Numbered

\* One command more.
LEMMA NumberedOne ==
  ASSUME NEW x, NEW b \in Nat, x.id = b + 1
  PROVE  Numbered(<<x>>, b, b + 1)
<1>1. PICK v : v = <<x>>
  OBVIOUS
<1>2. Len(v) = 1 /\ v[1] = x
  BY <1>1
<1>3. PICK f : f = [i \in 0 .. 1 |-> b + i]
  OBVIOUS
<1>4. f[0] = b /\ f[1] = b + 1 /\ f \in [0 .. 1 -> Nat]
  BY <1>3
<1>5. ASSUME NEW i \in 1 .. 1 PROVE v[i].id = f[i] /\ f[i] = f[i - 1] + 1
  <2>1. i = 1
    OBVIOUS
  <2> QED
    BY <1>2, <1>4, <2>1
<1> QED
  BY <1>1, <1>2, <1>4, <1>5 DEF Numbered

\* When a line has been taken, of which only the last item may have a number.
LEMMA NumberedRest ==
  ASSUME NEW w \in Seq(ItemSet), NEW b \in Nat, NEW e, NEW k \in 1 .. Len(w), Numbered(w, b, e),
         \A i \in 1 .. k - 1 : w[i].id = 0
  PROVE  /\ w[k].id = 0 => Numbered(SubSeq(w, k + 1, Len(w)), b, e)
         /\ w[k].id # 0 => w[k].id = b + 1 /\ Numbered(SubSeq(w, k + 1, Len(w)), b + 1, e)
<1>1. PICK x, v : x = Len(w) /\ v = SubSeq(w, k + 1, x)
  OBVIOUS
<1>2. x \in Nat /\ k \in Nat /\ k <= x /\ k >= 1
  BY <1>1, LenProperties
<1>3. v \in Seq(ItemSet) /\ Len(v) = x - k /\ \A i \in 1 .. x - k : v[i] = w[k + i]
  BY <1>1, <1>2, Slice
<1>4. PICK f \in [0 .. x -> Nat] :
        /\ f[0] = b /\ f[x] = e
        /\ \A i \in 1 .. x : \/ w[i].id = 0 /\ f[i] = f[i - 1]
                             \/ w[i].id = f[i] /\ f[i] = f[i - 1] + 1
  BY <1>1 DEF Numbered
<1>5. f[k - 1] = b
  <2> DEFINE T == {j \in 0 .. x : f[j] = b}
  <2>1. 0 \in T
    BY <1>2, <1>4
  <2>2. ASSUME NEW j \in 0 .. (k - 1) - 1, j \in T PROVE j + 1 \in T
    <3>1. j + 1 \in 1 .. k - 1 /\ j + 1 \in 1 .. x /\ j + 1 \in 0 .. x /\ (j + 1) - 1 = j
      BY <1>2
    <3>2. w[j + 1].id = 0 /\ f[j] = b /\ f[j + 1] \in Nat
      BY <2>2, <3>1
    <3>3. f[j + 1] = f[j]
      BY <1>4, <3>1, <3>2
    <3> QED
      BY <3>1, <3>2, <3>3
  <2>3. k - 1 \in T
    <3> HIDE DEF T
    <3>1. 0 \in Nat /\ k - 1 \in Nat /\ k - 1 \in 0 .. k - 1
      BY <1>2
    <3>2. \A j \in 0 .. k - 1 : j \in T
      BY <2>1, <2>2, <3>1, Climb
    <3> QED
      BY <3>1, <3>2
  <2> QED
    BY <2>3
<1>6. PICK m : m = f[k]
  OBVIOUS
<1>7. Numbered(v, m, e)
  <2>1. PICK g : g = [i \in 0 .. x - k |-> f[k + i]]
    OBVIOUS
  <2>2. x - k \in Nat
    BY <1>2
  <2>3. ASSUME NEW i \in 0 .. x - k PROVE g[i] = f[k + i] /\ g[i] \in Nat
    <3>1. k + i \in 0 .. x
      BY <1>2
    <3> QED
      BY <2>1, <3>1
  <2>4. g \in [0 .. x - k -> Nat]
    BY <2>1, <2>3
  <2>5. g[0] = m /\ g[x - k] = e
    <3>1. 0 \in 0 .. x - k /\ x - k \in 0 .. x - k /\ k + 0 = k /\ k + (x - k) = x
      BY <1>2
    <3> QED
      BY <1>4, <1>6, <2>3, <3>1
  <2>6. ASSUME NEW i \in 1 .. x - k
        PROVE  \/ v[i].id = 0 /\ g[i] = g[i - 1]
               \/ v[i].id = g[i] /\ g[i] = g[i - 1] + 1
    <3>1. i \in 0 .. x - k /\ i - 1 \in 0 .. x - k /\ k + i \in 1 .. x /\ k + (i - 1) = (k + i) - 1
      BY <1>2
    <3>2. g[i] = f[k + i] /\ g[i - 1] = f[(k + i) - 1] /\ v[i] = w[k + i]
      BY <1>3, <2>3, <3>1
    <3> QED
      BY <1>4, <3>1, <3>2
  <2>7. PICK z : z = x - k
    OBVIOUS
  <2>8. Len(v) = z /\ g \in [0 .. z -> Nat] /\ g[0] = m /\ g[z] = e
    BY <1>3, <2>4, <2>5, <2>7
  <2>9. \A i \in 1 .. z : \/ v[i].id = 0 /\ g[i] = g[i - 1]
                          \/ v[i].id = g[i] /\ g[i] = g[i - 1] + 1
    BY <2>6, <2>7
  <2> QED
    BY <2>8, <2>9 DEF Numbered
<1>8. k \in 1 .. x
  BY <1>1
<1>9. \/ w[k].id = 0 /\ m = b
      \/ w[k].id = m /\ m = b + 1
  BY <1>4, <1>5, <1>6, <1>8
<1> QED
  BY <1>1, <1>7, <1>9

\* The end of a text.
LEMMA NumberedEnd ==
  ASSUME NEW b \in Nat, b + 1 \in 1 .. MaxCmds
  PROVE  Numbered(EndOfText(b + 1), b, b + 1)
<1>1. PICK v : v = EndOfText(b + 1)
  OBVIOUS
<1>2. /\ v \in Seq(ItemSet) /\ Len(v) = 3
      /\ v[1].id = 0 /\ v[2].id = 0 /\ v[3].id = b + 1
  <2>1. PICK id : id = b + 1
    OBVIOUS
  <2>2. id \in 1 .. MaxCmds /\ v = EndOfText(id)
    BY <1>1, <2>1
  <2>3. /\ v \in Seq(ItemSet) /\ Len(v) = 3
        /\ v[1] = Item("\n", 0) /\ v[2] = Item(".", 0) /\ v[3] = Item("\n", id)
    BY <2>2, EndOfTextIs
  <2>4. Item("\n", 0).id = 0 /\ Item(".", 0).id = 0 /\ Item("\n", id).id = id
    BY DEF Item
  <2> QED
    BY <2>1, <2>3, <2>4
<1>3. PICK f : f = [i \in 0 .. 3 |-> IF i = 3 THEN b + 1 ELSE b]
  OBVIOUS
<1>4. f \in [0 .. 3 -> Nat] /\ f[0] = b /\ f[1] = b /\ f[2] = b /\ f[3] = b + 1
  BY <1>3
<1>5. ASSUME NEW i \in 1 .. 3
      PROVE  \/ v[i].id = 0 /\ f[i] = f[i - 1]
             \/ v[i].id = f[i] /\ f[i] = f[i - 1] + 1
  <2>1. i = 1 \/ i = 2 \/ i = 3
    OBVIOUS
  <2> QED
    BY <1>2, <1>4, <2>1
<1> QED
  BY <1>1, <1>2, <1>4, <1>5 DEF Numbered

------------------------------------------------------------------------------
(* What is on its way to the receiver.                                     *)

\* What is sent behind something.
LEMMA WellFormedJoin ==
  ASSUME NEW u \in Seq(ItemSet), NEW v \in Seq(ItemSet), WellFormed(u), WellFormed(v),
         u # <<>> /\ v # <<>> => <<u[Len(u)], v[1]>> \in Grammar,
         Len(v) > 1 => ~Final(v[2])
  PROVE  WellFormed(u \o v)
<1>1. PICK w, x, y : w = u \o v /\ x = Len(u) /\ y = Len(v)
  OBVIOUS
<1>2. /\ w \in Seq(ItemSet) /\ Len(w) = x + y /\ x \in Nat /\ y \in Nat
      /\ \A i \in 1 .. x : w[i] = u[i]
      /\ \A i \in 1 .. y : w[x + i] = v[i]
  BY <1>1, JoinParts
<1>3. Linked(w, Grammar)
  BY <1>1, LinkedJoin DEF WellFormed
<1>4. ASSUME NEW i \in 1 .. x + y, Final(w[i])
      PROVE  i > 1 /\ (i > 2 => w[i - 2] = Item("\n", 0))
  <2>1. CASE i <= x
    <3>1. i \in 1 .. x /\ w[i] = u[i]
      BY <1>2, <2>1
    <3>2. i > 1 /\ (i > 2 => u[i - 2] = Item("\n", 0))
      BY <1>1, <1>4, <3>1 DEF WellFormed
    <3>3. i > 2 => i - 2 \in 1 .. x
      BY <1>2, <3>1
    <3> QED
      BY <1>2, <3>2, <3>3
  <2>2. CASE i > x
    <3>1. PICK j : j = i - x
      OBVIOUS
    <3>2. j \in 1 .. y /\ i = x + j
      BY <1>2, <2>2, <3>1
    <3>3. Final(v[j])
      BY <1>2, <1>4, <3>2
    <3>4. j > 1 /\ (j > 2 => v[j - 2] = Item("\n", 0))
      BY <1>1, <3>2, <3>3 DEF WellFormed
    <3>5. j # 2
      BY <1>1, <3>2, <3>3
    <3>6. j > 2 /\ j - 2 \in 1 .. y /\ i - 2 = x + (j - 2)
      BY <1>2, <3>2, <3>4, <3>5
    <3>7. w[i - 2] = v[j - 2]
      BY <1>2, <3>6
    <3> QED
      BY <1>2, <3>2, <3>4, <3>6, <3>7
  <2> QED
    BY <1>2, <2>1, <2>2
<1> QED
  BY <1>1, <1>2, <1>3, <1>4 DEF WellFormed

\* When a line has been taken.
LEMMA WellFormedRest ==
  ASSUME NEW w \in Seq(ItemSet), WellFormed(w), NEW k \in 1 .. Len(w),
         w[k].verb \in Commands \cup {"\n"}
  PROVE  LET v == SubSeq(w, k + 1, Len(w)) IN
         /\ v \in Seq(ItemSet) /\ WellFormed(v)
         /\ v # <<>> => w # <<>> /\ v[Len(v)] = w[Len(w)] /\ <<w[k], v[1]>> \in Grammar
         /\ v = <<>> => k = Len(w)
<1>1. PICK x, v : x = Len(w) /\ v = SubSeq(w, k + 1, x)
  OBVIOUS
<1>2. x \in Nat /\ k \in Nat /\ k <= x /\ k >= 1
  BY <1>1, LenProperties
<1>3. v \in Seq(ItemSet) /\ Len(v) = x - k /\ \A i \in 1 .. x - k : v[i] = w[k + i]
  BY <1>1, <1>2, Slice
<1>4. Linked(v, Grammar)
  <2>1. x <= Len(w)
    BY <1>1, <1>2
  <2> QED
    BY <1>1, <1>2, <2>1, LinkedPart DEF WellFormed
<1>5. \A i \in 1 .. x - 1 : <<w[i], w[i + 1]>> \in Grammar
  BY <1>1 DEF WellFormed, Linked
<1>6. ASSUME NEW i \in 1 .. x - k, Final(v[i])
      PROVE  i > 1 /\ (i > 2 => v[i - 2] = Item("\n", 0))
  <2>1. k + i \in 1 .. x /\ v[i] = w[k + i] /\ k + i > 1
    BY <1>2, <1>3
  <2>2. k + i > 2 => w[(k + i) - 2] = Item("\n", 0)
    BY <1>1, <1>6, <2>1 DEF WellFormed
  <2>3. i # 1
    <3> SUFFICES ASSUME i = 1 PROVE FALSE
      OBVIOUS
    <3>1. k \in 1 .. x - 1 /\ k + 1 = k + i
      BY <1>2
    <3>2. w[k] = Item(".", 0)
      BY <1>5, <1>6, <2>1, <3>1 DEF Grammar, Final
    <3> QED
      BY <3>2 DEF Item, Commands
  <2>4. i > 2 => i - 2 \in 1 .. x - k /\ (k + i) - 2 = k + (i - 2)
    BY <1>2
  <2>5. i > 2 => v[i - 2] = w[(k + i) - 2]
    BY <1>3, <2>4
  <2> QED
    BY <1>2, <2>2, <2>3, <2>5
<1>7. ASSUME v # <<>> PROVE w # <<>> /\ v[Len(v)] = w[x] /\ <<w[k], v[1]>> \in Grammar
  <2>1. Len(v) # 0
    BY <1>3, <1>7, EmptySeq
  <2>2. /\ 1 \in 1 .. x - k /\ x - k \in 1 .. x - k /\ k + (x - k) = x /\ k \in 1 .. x - 1 /\ x # 0
    BY <1>2, <1>3, <2>1
  <2>3. v[1] = w[k + 1] /\ v[x - k] = w[x]
    BY <1>3, <2>2
  <2> QED
    BY <1>1, <1>3, <1>5, <2>2, <2>3, EmptySeq
<1>8. v = <<>> => k = x
  <2>1. v = <<>> => Len(v) = 0
    BY <1>3, EmptySeq
  <2> QED
    BY <1>2, <1>3, <2>1
<1> QED
  BY <1>1, <1>3, <1>4, <1>6, <1>7, <1>8 DEF WellFormed

\* What may be sent at a place: a command, the end of a text, or text.
Sendable(v, at) ==
  /\ v \in Seq(ItemSet) /\ v # <<>> /\ WellFormed(v)
  /\ Len(v) > 1 => ~Final(v[2])
  /\ \/ at \notin {"text", "DATA"} /\ v[1].verb \in Commands
     \/ at = "text" /\ v[1].verb \notin Commands


\* What is sent fits what was sent before it.
LEMMA SentMore ==
  ASSUME Wire \in Seq(ItemSet), Sent, NEW v, Sendable(v, call.at), Wire' = Wire \o v,
         mode' = mode, LastIs(v, call'.at)
  PROVE  Sent'
<1>1. PICK w, u : w = Wire /\ u = Wire'
  OBVIOUS
<1>2. /\ w \in Seq(ItemSet) /\ v \in Seq(ItemSet) /\ v # <<>> /\ u = w \o v
      /\ WellFormed(w) /\ WellFormed(v) /\ (Len(v) > 1 => ~Final(v[2]))
      /\ \/ call.at \notin {"text", "DATA"} /\ v[1].verb \in Commands
         \/ call.at = "text" /\ v[1].verb \notin Commands
  BY <1>1 DEF Sent, Sendable
<1>3. /\ u \in Seq(ItemSet) /\ u # <<>>
      /\ w # <<>> => u[1] = w[1]
      /\ w = <<>> => u = v
      /\ u[Len(u)] = v[Len(v)]
  BY <1>2, JoinParts
<1>4. v[1] \in ItemSet /\ ~Final(v[1])
  <2>1. Len(v) \in Nat /\ Len(v) # 0
    BY <1>2, EmptySeq, LenProperties
  <2>2. 1 \in 1 .. Len(v)
    BY <2>1
  <2> QED
    BY <1>2, <2>2, ElementOfSeq DEF WellFormed
<1>5. ASSUME w # <<>> PROVE <<w[Len(w)], v[1]>> \in Grammar
  <2>1. w[Len(w)] \in ItemSet
    <3>1. Len(w) \in Nat /\ Len(w) # 0
      BY <1>2, <1>5, EmptySeq, LenProperties
    <3> QED
      BY <1>2, <3>1, ElementOfSeq
  <2>2. /\ call.at = "text" => w[Len(w)].id = 0 \/ w[Len(w)].verb = "DATA"
        /\ call.at \notin {"text", "DATA"} => w[Len(w)].id > 0 /\ w[Len(w)].verb # "DATA"
    BY <1>1, <1>5 DEF Sent, LastIs
  <2>3. v[1].verb \in Commands <=> w[Len(w)].id > 0 /\ w[Len(w)].verb # "DATA"
    BY <1>2, <2>2
  <2>4. ~(v[1].verb = "\n" /\ v[1].id > 0)
    BY <1>4 DEF Final
  <2> QED
    BY <1>4, <2>1, <2>3, <2>4 DEF Grammar
<1>6. WellFormed(u)
  BY <1>2, <1>5, WellFormedJoin
<1>7. LastIs(u, call'.at)
  BY <1>2, <1>3 DEF LastIs
<1>8. ModeFits(u, mode', call'.at)
  BY <1>1, <1>2, <1>3 DEF Sent, ModeFits
<1> QED
  BY <1>1, <1>6, <1>7, <1>8 DEF Sent

\* The receiver has taken a line that is a command or the end of a text, or one
\* of a text.
LEMMA SentTaken ==
  ASSUME Wire \in Seq(ItemSet), Sent, NEW k \in 1 .. Len(Wire),
         Wire[k].verb \in Commands \cup {"\n"},
         Wire' = SubSeq(Wire, k + 1, Len(Wire)), call' = call,
         mode' = "data" => Wire[k].id = 0 \/ Wire[k].verb = "DATA"
  PROVE  Sent'
<1>1. PICK w, u : w = Wire /\ u = Wire'
  OBVIOUS
<1>2. /\ w \in Seq(ItemSet) /\ WellFormed(w) /\ k \in 1 .. Len(w)
      /\ w[k].verb \in Commands \cup {"\n"} /\ u = SubSeq(w, k + 1, Len(w))
      /\ LastIs(w, call.at)
  BY <1>1 DEF Sent
<1>3. /\ u \in Seq(ItemSet) /\ WellFormed(u)
      /\ u # <<>> => w # <<>> /\ u[Len(u)] = w[Len(w)] /\ <<w[k], u[1]>> \in Grammar
      /\ u = <<>> => k = Len(w)
  BY <1>2, WellFormedRest
<1>4. w # <<>>
  <2>1. Len(w) # 0
    BY <1>2, LenProperties
  <2> QED
    BY <2>1, EmptySeq
<1>5. LastIs(u, call'.at)
  BY <1>2, <1>3 DEF LastIs
<1>6. ModeFits(u, mode', call'.at)
  <2> SUFFICES ASSUME mode' = "data"
               PROVE  IF u = <<>> THEN call'.at \in {"DATA", "text"} ELSE u[1].verb \notin Commands
    BY DEF ModeFits
  <2>1. w[k].id = 0 \/ w[k].verb = "DATA"
    BY <1>1
  <2>2. CASE u = <<>>
    <3>1. w[Len(w)].id = 0 \/ w[Len(w)].verb = "DATA"
      BY <1>3, <2>1, <2>2
    <3>2. call.at \in {"DATA", "text"}
      BY <1>2, <1>4, <3>1 DEF LastIs
    <3> QED
      BY <2>2, <3>2
  <2>3. CASE u # <<>>
    <3>1. w[k].id \in Nat
      <4>1. w[k] \in ItemSet
        BY <1>2, ElementOfSeq
      <4> QED
        BY <4>1, SmtpAssumption DEF ItemSet
    <3> QED
      BY <1>3, <2>1, <2>3, <3>1 DEF Grammar
  <2> QED
    BY <2>2, <2>3
<1> QED
  BY <1>1, <1>3, <1>5, <1>6 DEF Sent

\* Nothing has been sent.
LEMMA SentSame ==
  ASSUME Sent, Wire' = Wire, mode' = mode,
         \/ call'.at = call.at
         \/ call.at = "DATA" /\ call'.at = "text"
         \/ call.at \notin {"DATA", "text"} /\ call'.at \notin {"DATA", "text"}
  PROVE  Sent'
<1>1. WellFormed(Wire')
  BY DEF Sent
<1>2. LastIs(Wire', call'.at)
  BY DEF Sent, LastIs
<1>3. ModeFits(Wire', mode', call'.at)
  BY DEF Sent, ModeFits
<1> QED
  BY <1>1, <1>2, <1>3 DEF Sent

\* A command may be sent behind another one and the end of a text.
LEMMA CommandIs ==
  ASSUME NEW verb \in Commands, NEW id \in 1 .. MaxCmds, NEW at, at \notin {"text", "DATA"}
  PROVE  LET v == <<Item(verb, id)>> IN
         /\ Sendable(v, at) /\ v \in Seq(ItemSet) /\ Numbered(v, id - 1, id)
         /\ \A to : (to = "text" => verb = "DATA") /\ (to = "DATA" <=> verb = "DATA" /\ to # "text")
                      => LastIs(v, to)
<1>1. PICK x, v : x = Item(verb, id) /\ v = <<x>>
  OBVIOUS
<1>2. x \in ItemSet /\ x.id = id /\ x.verb = verb
  <2>1. id \in 0 .. MaxCmds /\ id > 0
    BY SmtpAssumption
  <2>2. verb \in Verbs /\ verb \notin {"a", "."}
    BY DEF Verbs, Commands
  <2> QED
    BY <1>1, <2>1, <2>2 DEF Item, ItemSet
<1>3. v \in Seq(ItemSet) /\ Len(v) = 1 /\ v[1] = x /\ v # <<>>
  BY <1>1, <1>2
<1>4. ~Final(x)
  BY <1>2 DEF Final, Commands
<1>5. WellFormed(v)
  <2>1. Linked(v, Grammar)
    BY <1>3 DEF Linked
  <2>2. \A i \in 1 .. Len(v) : ~Final(v[i])
    BY <1>3, <1>4
  <2> QED
    BY <2>1, <2>2 DEF WellFormed
<1>6. Sendable(v, at)
  BY <1>2, <1>3, <1>5 DEF Sendable
<1>7. Numbered(v, id - 1, id)
  <2>1. PICK b : b = id - 1
    OBVIOUS
  <2>2. b \in Nat /\ x.id = b + 1 /\ id = b + 1
    BY <1>2, <2>1, SmtpAssumption
  <2>3. Numbered(<<x>>, b, b + 1)
    BY <2>2, NumberedOne
  <2> QED
    BY <1>1, <2>1, <2>2, <2>3
<1>8. ASSUME NEW to, to = "text" => verb = "DATA", to = "DATA" <=> verb = "DATA" /\ to # "text"
      PROVE  LastIs(v, to)
  <2>1. id > 0
    BY SmtpAssumption
  <2> QED
    BY <1>2, <1>3, <1>8, <2>1 DEF LastIs
<1> QED
  BY <1>1, <1>3, <1>6, <1>7, <1>8

\* So may the end of a text, behind DATA or text.
LEMMA EndIs ==
  ASSUME NEW id \in 1 .. MaxCmds, NEW to, to \notin {"text", "DATA"}
  PROVE  LET v == EndOfText(id) IN
         /\ Sendable(v, "text") /\ v \in Seq(ItemSet) /\ Numbered(v, id - 1, id) /\ LastIs(v, to)
<1>1. PICK v : v = EndOfText(id)
  OBVIOUS
<1>2. /\ v \in Seq(ItemSet) /\ Len(v) = 3
      /\ v[1] = Item("\n", 0) /\ v[2] = Item(".", 0) /\ v[3] = Item("\n", id)
  BY <1>1, EndOfTextIs
<1>3. v # <<>>
  <2>1. Len(v) # 0
    BY <1>2
  <2> QED
    BY <2>1, EmptySeq
<1>4. id > 0 /\ id \in Nat
  BY SmtpAssumption
<1>5. PICK a, b, c : a = v[1] /\ b = v[2] /\ c = v[3]
  OBVIOUS
<1>6. /\ a.verb = "\n" /\ a.id = 0 /\ b.verb = "." /\ b.id = 0 /\ c.verb = "\n" /\ c.id = id
      /\ a \in ItemSet /\ b \in ItemSet /\ c \in ItemSet
      /\ "\n" \notin Commands /\ "." \notin Commands
  <2>1. /\ a.verb = "\n" /\ a.id = 0 /\ b.verb = "." /\ b.id = 0 /\ c.verb = "\n" /\ c.id = id
    BY <1>2, <1>5 DEF Item
  <2>2. 1 \in 1 .. Len(v) /\ 2 \in 1 .. Len(v) /\ 3 \in 1 .. Len(v)
    BY <1>2
  <2>3. a \in ItemSet /\ b \in ItemSet /\ c \in ItemSet
    BY <1>2, <1>5, <2>2, ElementOfSeq
  <2> QED
    BY <2>1, <2>3 DEF Commands
<1>7. ~Final(a) /\ ~Final(b)
  BY <1>6 DEF Final
<1>8. WellFormed(v)
  <2>1. <<a, b>> \in Grammar /\ <<b, c>> \in Grammar
    BY <1>2, <1>5, <1>6 DEF Grammar
  <2>2. ASSUME NEW i \in 1 .. 2 PROVE <<v[i], v[i + 1]>> \in Grammar
    <3>1. i = 1 \/ i = 2
      OBVIOUS
    <3> QED
      BY <1>5, <2>1, <3>1
  <2>3. Linked(v, Grammar)
    BY <1>2, <2>2 DEF Linked
  <2>4. ASSUME NEW i \in 1 .. 3, Final(v[i]) PROVE i > 1 /\ (i > 2 => v[i - 2] = Item("\n", 0))
    <3>1. i = 1 \/ i = 2 \/ i = 3
      OBVIOUS
    <3>2. i = 3
      BY <1>5, <1>7, <2>4, <3>1
    <3> QED
      BY <1>2, <3>2
  <2> QED
    BY <1>2, <2>3, <2>4 DEF WellFormed
<1>9. Sendable(v, "text")
  BY <1>2, <1>3, <1>5, <1>6, <1>7, <1>8 DEF Sendable
<1>10. Numbered(v, id - 1, id)
  <2>1. PICK b1 : b1 = id - 1
    OBVIOUS
  <2>2. b1 \in Nat /\ id = b1 + 1
    BY <1>4, <2>1
  <2>3. Numbered(EndOfText(b1 + 1), b1, b1 + 1)
    BY <2>2, NumberedEnd
  <2> QED
    BY <1>1, <2>1, <2>2, <2>3
<1>11. LastIs(v, to)
  BY <1>2, <1>3, <1>4, <1>5, <1>6 DEF LastIs, Commands
<1> QED
  BY <1>1, <1>2, <1>9, <1>10, <1>11

\* And text.
LEMMA TextIs ==
  ASSUME NEW c \in Seq(Glyphs), c # <<>>
  PROVE  /\ Sendable(Items(c), "text") /\ Items(c) \in Seq(ItemSet)
         /\ \A b \in Nat : Numbered(Items(c), b, b)
         /\ LastIs(Items(c), "text")
<1>1. PICK v : v = Items(c)
  OBVIOUS
<1>2. v \in Seq(ItemSet) /\ Len(v) = Len(c) /\ \A i \in 1 .. Len(c) : v[i] = Item(c[i], 0)
  <2>1. 0 \in Nat
    OBVIOUS
  <2> QED
    BY <1>1, <2>1, ItemsAre
<1>3. Len(c) \in Nat /\ Len(c) # 0
  BY EmptySeq, LenProperties
<1>4. v # <<>>
  BY <1>2, <1>3, EmptySeq
<1>5. ASSUME NEW i \in 1 .. Len(v)
      PROVE  v[i] \in ItemSet /\ v[i].id = 0 /\ v[i].verb \notin Commands
  <2>1. c[i] \in Glyphs /\ v[i] = Item(c[i], 0) /\ v[i] \in ItemSet
    BY <1>2, <1>5, ElementOfSeq
  <2> QED
    BY <2>1 DEF Item, Glyphs, Commands
<1>6. \A i \in 1 .. Len(v) : ~Final(v[i])
  BY <1>5 DEF Final
<1>7. WellFormed(v)
  <2>1. ASSUME NEW i \in 1 .. Len(v) - 1 PROVE <<v[i], v[i + 1]>> \in Grammar
    <3>1. i \in 1 .. Len(v) /\ i + 1 \in 1 .. Len(v)
      BY <1>2, <1>3
    <3> QED
      BY <1>5, <3>1 DEF Grammar
  <2> QED
    BY <1>6, <2>1 DEF WellFormed, Linked
<1>8. 1 \in 1 .. Len(v) /\ Len(v) \in 1 .. Len(v) /\ (Len(v) > 1 => 2 \in 1 .. Len(v))
  BY <1>2, <1>3
<1>9. Sendable(v, "text")
  BY <1>2, <1>4, <1>5, <1>6, <1>7, <1>8 DEF Sendable
<1>10. LastIs(v, "text")
  BY <1>5, <1>8 DEF LastIs
<1>11. \A b \in Nat : Numbered(v, b, b)
  BY <1>2, <1>5, NumberedText
<1> QED
  BY <1>1, <1>2, <1>9, <1>10, <1>11

------------------------------------------------------------------------------
(* The replies on their way back.                                          *)

\* A reply behind those that are there.
LEMMA SaysOn ==
  ASSUME NEW w \in Seq(CharSet), Linked(w, Order), Closed(w), NEW s \in Int, NEW p \in Int,
         StreamTo(w, s, p), NEW r, IsReply(r, p + 1)
  PROVE  LET v == w \o r IN
         /\ Linked(v, Order) /\ StreamTo(v, s, p + 1) /\ v # <<>>
         /\ w # <<>> => v[1] = w[1]
         /\ w = <<>> => v[1].at = 1 /\ v[1].line.kind # "last"
<1>1. PICK v : v = w \o r
  OBVIOUS
<1>2. /\ r \in Seq(CharSet) /\ r # <<>> /\ Linked(r, Order) /\ Whole(r)
      /\ \A i \in 1 .. Len(r) : r[i].line.id = p + 1
      /\ r[1].line.kind # "last" /\ r[Len(r)].line.kind # "first"
  BY DEF IsReply
<1>3. /\ v \in Seq(CharSet) /\ Len(v) = Len(w) + Len(r) /\ Len(w) \in Nat /\ Len(r) \in Nat
      /\ \A i \in 1 .. Len(w) : v[i] = w[i]
      /\ \A i \in 1 .. Len(r) : v[Len(w) + i] = r[i]
      /\ w # <<>> => v[1] = w[1]
      /\ w = <<>> => v = r
      /\ v[Len(v)] = r[Len(r)] /\ v # <<>>
  BY <1>1, <1>2, JoinParts
<1>4. Len(r) # 0 /\ 1 \in 1 .. Len(r) /\ Len(r) \in 1 .. Len(r)
  <2>1. Len(r) # 0
    BY <1>2, EmptySeq
  <2> QED
    BY <1>3, <2>1
<1>5. r[1] \in CharSet /\ r[1].at = 1 /\ r[1].line.id = p + 1 /\ r[Len(r)].line.id = p + 1
  BY <1>2, <1>4, ElementOfSeq DEF Whole
<1>6. Linked(v, Order)
  <2>1. ASSUME w # <<>> PROVE <<w[Len(w)], r[1]>> \in Order
    <3>1. Len(w) # 0
      BY <2>1, EmptySeq
    <3>2. Len(w) \in 1 .. Len(w)
      BY <1>3, <3>1
    <3>3. w[Len(w)] \in CharSet
      BY <3>2, ElementOfSeq
    <3>4. w[Len(w)].line.id = p /\ w[Len(w)].line.kind # "first" /\ IsLF(w[Len(w)])
      BY <2>1 DEF StreamTo, Closed
    <3>5. Follow(w[Len(w)].line, r[1].line)
      BY <1>2, <1>5, <3>4 DEF Follow
    <3> QED
      BY <1>5, <3>3, <3>4, <3>5 DEF Order, Turn
  <2> QED
    BY <1>1, <1>2, <2>1, LinkedJoin
<1>7. StreamTo(v, s, p + 1)
  <2>1. v[Len(v)].line.id = p + 1 /\ v[Len(v)].line.kind # "first"
    <3>1. PICK z : z = r[Len(r)]
      OBVIOUS
    <3>2. v[Len(v)] = z /\ z.line.id = p + 1 /\ z.line.kind # "first"
      BY <1>2, <1>3, <1>5, <3>1
    <3> QED
      BY <3>2
  <2>2. v[1].line.id = s + 1
    BY <1>3, <1>5 DEF StreamTo
  <2>3. ASSUME NEW i \in 1 .. Len(v) PROVE v[i].line.id <= p + 1
    <3>1. CASE i <= Len(w)
      <4>1. i \in 1 .. Len(w) /\ w # <<>>
        <5>1. i \in 1 .. Len(w)
          BY <1>3, <3>1
        <5>2. Len(w) # 0
          BY <1>3, <5>1
        <5> QED
          BY <5>1, <5>2, EmptySeq
      <4>2. w[i].line.id <= p /\ w[i] \in CharSet
        BY <4>1, ElementOfSeq DEF StreamTo, LineNumbers
      <4>3. w[i].line.id \in Nat
        BY <4>2, SmtpAssumption DEF CharSet, Lines
      <4>4. v[i] = w[i]
        BY <1>3, <4>1
      <4> QED
        BY <4>2, <4>3, <4>4
    <3>2. CASE i > Len(w)
      <4>1. PICK j : j = i - Len(w)
        OBVIOUS
      <4>2. j \in 1 .. Len(r) /\ i = Len(w) + j
        BY <1>3, <3>2, <4>1
      <4>3. v[i].line.id = p + 1
        BY <1>2, <1>3, <4>2
      <4> QED
        BY <4>3
    <3> QED
      BY <1>3, <3>1, <3>2
  <2> QED
    BY <1>3, <2>1, <2>2, <2>3 DEF StreamTo, LineNumbers
<1>8. w = <<>> => v[1].at = 1 /\ v[1].line.kind # "last"
  BY <1>2, <1>3, <1>5
<1> QED
  BY <1>1, <1>3, <1>6, <1>7, <1>8

\* Chars up to the first end of line are those of one line.
LEMMA OneLine ==
  ASSUME NEW w \in Seq(CharSet), Linked(w, Turn), NEW k \in 1 .. Len(w),
         \A i \in 1 .. k - 1 : ~IsLF(w[i])
  PROVE  \A i \in 1 .. k : w[i].line = w[1].line
<1>1. Len(w) \in Nat /\ k \in Nat /\ k >= 1 /\ k <= Len(w)
  BY LenProperties
<1> DEFINE T == {i \in 1 .. k : w[i].line = w[1].line}
<1>2. 1 \in T
  BY <1>1
<1>3. ASSUME NEW i \in 1 .. k - 1, i \in T PROVE i + 1 \in T
  <2>1. i \in 1 .. Len(w) - 1 /\ i + 1 \in 1 .. k
    BY <1>1
  <2>2. <<w[i], w[i + 1]>> \in Turn /\ ~IsLF(w[i])
    BY <2>1 DEF Linked
  <2>3. w[i + 1].line = w[i].line
    BY <2>2 DEF Turn
  <2> QED
    BY <1>3, <2>1, <2>3
<1>4. \A i \in 1 .. k : i \in T
  <2> HIDE DEF T
  <2>1. 1 \in Nat /\ k \in Nat
    BY <1>1
  <2> QED
    BY <1>2, <1>3, <2>1, Climb
<1> QED
  BY <1>4

\* What is left, v, when a line l, or a part of it that ends with c, is taken.
LineGone(v, l, c, s, p) ==
  /\ Linked(v, Order) /\ l.id = s + 1
  /\ IsLF(c) => /\ StreamTo(v, IF l.kind = "first" THEN s ELSE l.id, p)
                /\ v = <<>> => l.kind # "first"
                /\ v # <<>> => v[1].at = 1 /\ Follow(l, v[1].line)
  /\ ~IsLF(c) => StreamTo(v, s, p)

\* A whole line, taken off a stream of replies in order.
LEMMA LineOver ==
  ASSUME NEW w \in Seq(CharSet), Linked(w, Order), Closed(w), NEW s \in Int, NEW p \in Int,
         StreamTo(w, s, p), NEW k \in 1 .. Len(w), \A i \in 1 .. k - 1 : ~IsLF(w[i])
  PROVE  LineGone(SubSeq(w, k + 1, Len(w)), w[1].line, w[k], s, p)
<1>0. PICK v, l : v = SubSeq(w, k + 1, Len(w)) /\ l = w[1].line
  OBVIOUS
<1>1. PICK x : x = Len(w)
  OBVIOUS
<1>2. x \in Nat /\ k \in Nat /\ k <= x /\ k >= 1
  BY <1>1, LenProperties
<1>3. v \in Seq(CharSet) /\ Len(v) = x - k /\ \A i \in 1 .. x - k : v[i] = w[k + i]
  BY <1>0, <1>1, <1>2, Slice
<1>4. Linked(v, Order)
  <2>1. x <= Len(w)
    BY <1>1, <1>2
  <2> QED
    BY <1>0, <1>1, <1>2, <2>1, LinkedPart
<1>5. w[k].line = l
  <2>1. k \in 1 .. k
    BY <1>2
  <2> QED
    BY <1>0, <2>1, OneLine, OrderIsTurn
<1>6. w # <<>>
  <2>1. Len(w) # 0
    BY <1>1, <1>2
  <2> QED
    BY <2>1, EmptySeq
<1>7. /\ w[x].line.id = p /\ w[x].line.kind # "first" /\ IsLF(w[x])
      /\ l.id = s + 1 /\ \A i \in 1 .. x : w[i].line.id <= p
  BY <1>0, <1>1, <1>6 DEF StreamTo, LineNumbers, Closed
<1>8. ASSUME v = <<>> PROVE k = x
  <2>1. Len(v) = 0
    BY <1>3, <1>8, EmptySeq
  <2> QED
    BY <1>2, <1>3, <2>1
<1>9. ASSUME v # <<>>
      PROVE  /\ v[Len(v)] = w[x] /\ v[1] = w[k + 1] /\ <<w[k], v[1]>> \in Order
             /\ LineNumbers(v, p)
  <2>1. Len(v) # 0
    BY <1>3, <1>9, EmptySeq
  <2>2. /\ 1 \in 1 .. x - k /\ x - k \in 1 .. x - k /\ k + (x - k) = x /\ k \in 1 .. x - 1
    BY <1>2, <1>3, <2>1
  <2>3. v[1] = w[k + 1] /\ v[x - k] = w[x]
    BY <1>3, <2>2
  <2>4. \A i \in 1 .. x - k : k + i \in 1 .. x
    BY <1>2
  <2>5. \A i \in 1 .. x - k : v[i].line.id <= p
    BY <1>3, <1>7, <2>4
  <2>6. <<w[k], w[k + 1]>> \in Order
    BY <1>1, <2>2 DEF Linked
  <2> QED
    BY <1>3, <2>3, <2>5, <2>6 DEF LineNumbers
<1>10. ASSUME IsLF(w[k])
       PROVE  /\ StreamTo(v, IF l.kind = "first" THEN s ELSE l.id, p)
              /\ v = <<>> => l.kind # "first"
              /\ v # <<>> => v[1].at = 1 /\ Follow(l, v[1].line)
  <2>1. CASE v = <<>>
    BY <1>5, <1>7, <1>8, <2>1 DEF StreamTo
  <2>2. CASE v # <<>>
    <3>1. v[1].at = 1 /\ Follow(l, v[1].line)
      BY <1>5, <1>9, <1>10, <2>2 DEF Order, Turn
    <3>2. v[1].line.id = (IF l.kind = "first" THEN s ELSE l.id) + 1
      BY <1>7, <3>1 DEF Follow
    <3> QED
      BY <1>7, <1>9, <2>2, <3>1, <3>2 DEF StreamTo
  <2> QED
    BY <2>1, <2>2
<1>11. ASSUME ~IsLF(w[k]) PROVE StreamTo(v, s, p)
  <2>1. v # <<>>
    BY <1>7, <1>8, <1>11
  <2>2. v[1].line = l
    BY <1>5, <1>9, <1>11, <2>1 DEF Order, Turn
  <2> QED
    BY <1>7, <1>9, <2>1, <2>2 DEF StreamTo
<1> QED
  BY <1>0, <1>4, <1>7, <1>10, <1>11 DEF LineGone

------------------------------------------------------------------------------
(* The steps keep the phases.                                              *)

\* What the steps need of the types.
LEMMA Known ==
  ASSUME Base
  PROVE  /\ StreamBase /\ WireBase /\ CallBase /\ MailBase /\ MsgBase /\ CountBase
         /\ Coming \in Seq(CharSet) /\ area \in Seq(CharSet) /\ flight \in Seq(CharSet)
         /\ Closed(Coming) /\ Linked(Coming, Turn)
         /\ Wire \in Seq(ItemSet) /\ inbox \in Seq(ItemSet) /\ put \in Seq(ItemSet)
         /\ n \in Nat /\ MaxCmds \in Nat /\ n <= MaxCmds /\ seen \in Int /\ seen >= -1 /\ seen <= n
         /\ shows \in Int /\ output \in BOOLEAN /\ tidy \in BOOLEAN
         /\ link \in {"none", "open", "fin"}
<1>1. /\ area \in Seq(CharSet) /\ flight \in Seq(CharSet)
      /\ inbox \in Seq(ItemSet) /\ put \in Seq(ItemSet)
  BY DEF Base, StreamBase, WireBase
<1>2. Coming \in Seq(CharSet) /\ Wire \in Seq(ItemSet)
  BY <1>1, ConcatProperties DEF Coming, Wire
<1>3. n \in 0 .. MaxCmds /\ shows \in 0 .. n + 1 /\ seen \in -1 .. n /\ MaxCmds \in Nat
  BY SmtpAssumption DEF Base, CountBase
<1>4. /\ n \in Nat /\ n <= MaxCmds /\ seen \in Int /\ seen >= -1 /\ seen <= n /\ shows \in Int
  BY <1>3
<1> QED
  BY <1>1, <1>2, <1>3, <1>4 DEF Base, StreamBase, CountBase

\* What a tidy client sends with a sync () goes to the receiver.
LEMMA SyncSends ==
  ASSUME Base, Sane', link' = link, NEW items \in Seq(ItemSet), NEW op, NEW at, Sync(items, op, at)
  PROVE  /\ Wire' = Wire \o items /\ link = "open" /\ tidy
         /\ output /\ n = 0 => op = "helo"
         /\ call' = IF at = "no" THEN Idle ELSE [op |-> op, at |-> at]
         /\ out' = IF at = "no" THEN "returned" ELSE "none"
<1>1. /\ link # "none"
      /\ inbox' = IF link = "open" THEN inbox \o put \o items ELSE inbox
      /\ put' = <<>>
      /\ call' = IF at = "no" THEN Idle ELSE [op |-> op, at |-> at]
      /\ out' = IF at = "no" THEN "returned" ELSE "none"
      /\ tidy' = (tidy /\ (output /\ n = 0 => op = "helo"))
  BY DEF Sync, Throw, Sane
<1>2. link = "open"
  BY <1>1, Known DEF Sane
<1>3. inbox' = (inbox \o put) \o items
  BY <1>1, <1>2
<1>4. inbox' \in Seq(ItemSet)
  BY <1>3, Known, ConcatProperties DEF Wire
<1>5. Wire' = inbox'
  BY <1>1, <1>4, ConcatEmptySeq DEF Wire
<1> QED
  BY <1>1, <1>2, <1>3, <1>5 DEF Wire, Sane

\* The replies that are to come are those to what has been sent.
LEMMA RepliesSent ==
  ASSUME Base, Replies, NEW v \in Seq(ItemSet), Numbered(v, n, n'), Wire' = Wire \o v,
         n' \in Nat, n <= n', UNCHANGED <<area, flight, seen, mode>>
  PROVE  Replies'
<1>1. Coming' = Coming
  BY DEF Coming
<1>2. Wire \in Seq(ItemSet) /\ n \in Nat
  BY Known
<1>3. ASSUME NEW p, Numbered(Wire, p, n) PROVE Numbered(Wire', p, n')
  BY <1>2, <1>3, NumberedJoin
<1>4. mode' = "greet" => Coming' = <<>> /\ seen' = -1 /\ Numbered(Wire', 0, n')
  BY <1>1, <1>3 DEF Replies
<1>5. ASSUME mode' # "greet" PROVE \E p \in 0 .. n' : Numbered(Wire', p, n') /\ StreamTo(Coming', seen', p)
  <2>1. PICK p \in 0 .. n : Numbered(Wire, p, n) /\ StreamTo(Coming, seen, p)
    BY <1>5 DEF Replies
  <2>2. p \in 0 .. n'
    BY <1>2
  <2> QED
    BY <1>1, <1>3, <2>1, <2>2
<1> QED
  BY <1>1, <1>4, <1>5 DEF Replies

\* Nothing has been sent or said.
LEMMA RepliesSame ==
  ASSUME Replies, Wire' = Wire, UNCHANGED <<area, flight, seen, mode, n>>
  PROVE  Replies'
<1>1. Coming' = Coming
  BY DEF Coming
<1>2. Linked(Coming', Order)
  BY <1>1 DEF Replies
<1>3. mode' = "greet" => Coming' = <<>> /\ seen' = -1 /\ Numbered(Wire', 0, n')
  BY <1>1 DEF Replies
<1>4. ASSUME mode' # "greet" PROVE \E p \in 0 .. n' : Numbered(Wire', p, n') /\ StreamTo(Coming', seen', p)
  BY <1>1, <1>4 DEF Replies
<1> QED
  BY <1>2, <1>3, <1>4 DEF Replies

\* What has been shown, when nothing more has been read or sent.
LEMMA SeenSame ==
  ASSUME Base, OutputSeen, ShowSeen, UNCHANGED <<area, flight, output, n, shows, seen>>,
         \/ call' = call
         \/ call.at \in {"no", "greeting", "text"} /\ call'.at \in {"greeting", "no", "text"}
            /\ call.op # "show" /\ call'.op # "show"
            /\ (n = 0 /\ output => call'.at # "text"),
         out' = out \/ out' \in {"none", "err"}
  PROVE  OutputSeen' /\ ShowSeen'
<1>1. Coming' = Coming
  BY DEF Coming
<1>2. OutputSeen'
  BY DEF OutputSeen
<1>3. ShowSeen'
  BY <1>1 DEF ShowSeen
<1> QED
  BY <1>2, <1>3

\* What has been shown, when a command or the end of a text has been sent.
LEMMA SeenSent ==
  ASSUME Base, OutputSeen, ShowSeen, UNCHANGED <<area, flight, output, shows, seen>>,
         n' = n + 1, call.at \in {"no", "text"}, call.op # "show",
         output => n # 0 /\ call'.at \in {"reply", "DATA", "end"} /\ out' = "none",
         call'.op # "show"
  PROVE  OutputSeen' /\ ShowSeen'
<1>1. Coming' = Coming /\ n \in Nat
  BY Known DEF Coming
<1>2. OutputSeen'
  <2> SUFFICES ASSUME output PROVE OutputSeen'
    BY DEF OutputSeen
  <2>1. n > 0 /\ n' > 0 /\ n' - 1 = n
    BY <1>1
  <2>2. seen = n /\ (area # <<>> => IsLF(area[Len(area)]))
    BY <2>1 DEF OutputSeen
  <2> QED
    BY <2>1, <2>2 DEF OutputSeen
<1>3. ShowSeen'
  BY <1>1 DEF ShowSeen
<1> QED
  BY <1>2, <1>3

\* A command is sent.
LEMMA CommandPhases ==
  ASSUME Base, Phases, Sane', call.op = "none", n < MaxCmds, NEW verb \in Commands,
         NEW op \in {"helo", "command", "buffer", "file"}, NEW at, NEW next,
         IF verb = "DATA" THEN at = "DATA" /\ next = "text" ELSE at = "reply" /\ next = "no",
         output => op # "helo", send_cmd(verb, op, at, next),
         UNCHANGED <<stream, output, mode, text, mail, shows, seen>>
  PROVE  Phases'
<1>1. /\ Wire \in Seq(ItemSet) /\ n \in Nat /\ MaxCmds \in Nat /\ output \in BOOLEAN
      /\ call = Idle /\ call.at = "no" /\ call.op # "show"
  <2>1. call.at = "no" /\ call = [op |-> call.op, at |-> call.at]
    BY Known, CallingOne DEF CallBase, Calling
  <2> QED
    BY <2>1, Known DEF Idle
<1>2. PICK id, to, v : id = n + 1 /\ v = <<Item(verb, id)>> /\ to = IF output THEN at ELSE next
  OBVIOUS
<1>3. n' = n + 1 /\ Sync(v, op, to) /\ id \in 1 .. MaxCmds /\ id - 1 = n /\ n' = id
  BY <1>1, <1>2 DEF send_cmd
<1>4. /\ Sendable(v, call.at) /\ v \in Seq(ItemSet) /\ Numbered(v, n, n')
      /\ \A x : (x = "text" => verb = "DATA") /\ (x = "DATA" <=> verb = "DATA" /\ x # "text")
                  => LastIs(v, x)
  <2>1. call.at \notin {"text", "DATA"}
    BY <1>1
  <2>2. /\ Sendable(v, call.at) /\ v \in Seq(ItemSet) /\ Numbered(v, id - 1, id)
        /\ \A x : (x = "text" => verb = "DATA") /\ (x = "DATA" <=> verb = "DATA" /\ x # "text")
                    => LastIs(v, x)
    BY <1>2, <1>3, <2>1, CommandIs
  <2> QED
    BY <1>3, <2>2
<1>5. /\ Wire' = Wire \o v /\ (output /\ n = 0 => op = "helo")
      /\ call' = IF to = "no" THEN Idle ELSE [op |-> op, at |-> to]
      /\ out' = IF to = "no" THEN "returned" ELSE "none"
  <2>1. link' = link
    BY DEF stream
  <2> QED
    BY <1>3, <1>4, <2>1, SyncSends
<1>6. call'.at = to /\ call'.op # "show" /\ out' # "shown"
  BY <1>5 DEF Idle
<1>7. Sent'
  <2>1. (to = "text" => verb = "DATA") /\ (to = "DATA" <=> verb = "DATA" /\ to # "text")
    BY <1>2
  <2>2. LastIs(v, call'.at)
    BY <1>4, <1>6, <2>1
  <2> QED
    BY <1>1, <1>4, <1>5, <2>2, SentMore DEF Phases
<1>8. Replies'
  BY <1>1, <1>3, <1>4, <1>5, RepliesSent DEF Phases, stream
<1>9. OutputSeen' /\ ShowSeen'
  <2>1. output => n # 0 /\ call'.at \in {"reply", "DATA", "end"} /\ out' = "none"
    BY <1>2, <1>5, <1>6
  <2> QED
    BY <1>1, <1>3, <1>6, <2>1, SeenSent DEF Phases, stream
<1> QED
  BY <1>7, <1>8, <1>9 DEF Phases

\* The calls of the client.
LEMMA CallsPhases == ASSUME Base, Sane, Phases, Calls, Sane' PROVE Phases'
<1>1. CASE Connects
  <2>1. /\ UNCHANGED <<area, flight, output, call, put, inbox, mode, text, mail, msg, n, shows, seen, tidy>>
        /\ out' \in {"none", "err"}
    BY <1>1 DEF Connects, receiver, ghosts
  <2>2. Wire' = Wire
    BY <2>1 DEF Wire
  <2>3. Sent' /\ Replies' /\ OutputSeen' /\ ShowSeen'
    BY <2>1, <2>2, SentSame, RepliesSame, SeenSame DEF Phases
  <2> QED
    BY <2>3 DEF Phases
<1>2. CASE Helo
  <2>1. /\ n < MaxCmds /\ call.op = "none" /\ call.at = "no"
        /\ UNCHANGED <<stream, output, mode, text, mail, msg, shows, seen>>
    BY <1>2, Known DEF Helo, CanCall, CallBase, Calling
  <2>2. CASE /\ output
             /\ call' = [op |-> "helo", at |-> "greeting"]
             /\ out' = "none"
             /\ UNCHANGED <<put, inbox, n, tidy>>
    <3>1. Wire' = Wire /\ call'.at = "greeting" /\ call'.op # "show"
      BY <2>2 DEF Wire
    <3>2. Sent'
      BY <2>1, <3>1, SentSame DEF Phases
    <3>3. Replies' /\ OutputSeen' /\ ShowSeen'
      BY <2>1, <2>2, <3>1, RepliesSame, SeenSame DEF Phases, stream
    <3> QED
      BY <3>2, <3>3 DEF Phases
  <2>3. CASE ~output /\ send_cmd("other", "helo", "reply", "no")
    <3>1. "other" \in Commands /\ "other" # "DATA"
      BY DEF Commands
    <3> QED
      BY <2>1, <2>3, <3>1, CommandPhases
  <2> QED
    BY <1>2, <2>2, <2>3 DEF Helo
<1>3. CASE Command
  <2>1. /\ n < MaxCmds /\ call.op = "none"
        /\ UNCHANGED <<stream, output, mode, text, mail, msg, shows, seen>>
    BY <1>3 DEF Command, CanCall
  <2>2. PICK verb \in Commands \ {"DATA"} : send_cmd(verb, "command", "reply", "no")
    BY <1>3 DEF Command
  <2> QED
    BY <2>1, <2>2, CommandPhases
<1>4. CASE Data
  <2>1. /\ n < MaxCmds /\ call.op = "none"
        /\ UNCHANGED <<stream, output, mode, text, mail, shows, seen>>
    BY <1>4, Known DEF Data, CanCall
  <2>2. PICK op \in {"buffer", "file"} : send_cmd("DATA", op, "DATA", "text")
    BY <1>4 DEF Data
  <2>3. "DATA" \in Commands
    BY DEF Commands
  <2> QED
    BY <2>1, <2>2, <2>3, CommandPhases
<1>5. CASE Show
  <2>1. /\ ~output /\ shows' = shows + 1 /\ call.op = "none" /\ call.at = "no"
        /\ call' = [op |-> "show", at |-> "show"]
        /\ UNCHANGED <<area, flight, link, output, put, inbox, mode, text, mail, msg, n, seen, tidy>>
    BY <1>5, Known DEF Show, CanCall, CallBase, Calling, stream, receiver
  <2>2. Wire' = Wire /\ Coming' = Coming
    BY <2>1 DEF Wire, Coming
  <2>3. Sent' /\ Replies'
    BY <2>1, <2>2, SentSame, RepliesSame DEF Phases
  <2>4. shows \in Int /\ (shows + 1) - 2 = shows - 1
    BY Known
  <2>5. ShowSeen'
    BY <2>1, <2>2, <2>4 DEF Phases, ShowSeen
  <2>6. OutputSeen'
    BY <2>1 DEF OutputSeen
  <2> QED
    BY <2>3, <2>5, <2>6 DEF Phases
<1> QED
  BY <1>1, <1>2, <1>3, <1>4, <1>5 DEF Calls

\* The text of a message.
LEMMA TextPhases ==
  ASSUME Base, Sane, Phases, SendBuf \/ Overflow \/ EndText, Sane'
  PROVE  Phases'
<1>1. call.at = "text"
  BY DEF SendBuf, Overflow, EndText
<1>2. /\ Wire \in Seq(ItemSet) /\ n \in Nat /\ MaxCmds \in Nat /\ output \in BOOLEAN /\ n < MaxCmds
      /\ call.op \in {"helo", "command", "buffer", "file"} /\ call.op # "show"
      /\ output => n # 0
      /\ link \in {"none", "open"} /\ inbox \in Seq(ItemSet) /\ put \in Seq(ItemSet)
  BY <1>1, Known, CallingOne DEF CallBase, Phases, OutputSeen, Sane
<1>3. CASE SendBuf
  <2>1. PICK chunk \in Texts(IF call.op = "file" THEN Chunk ELSE MaxText), behind \in Behind :
             put' = put \o Items(Stuffed(chunk, behind))
    BY <1>3 DEF SendBuf
  <2>2. UNCHANGED <<area, flight, link, output, call, out, inbox, mode, n, shows, seen>>
    BY <1>3 DEF SendBuf, stream, receiver
  <2>3. PICK c : c = Stuffed(chunk, behind)
    OBVIOUS
  <2>4. c \in Seq(Glyphs) /\ c # <<>>
    <3>1. (IF call.op = "file" THEN Chunk ELSE MaxText) \in Nat
      BY SmtpAssumption
    <3>2. /\ Len(chunk) \in Nat \ {0} /\ chunk \in [1 .. Len(chunk) -> Glyphs]
      BY <3>1, ChunkIs
    <3>3. PICK m : m = Len(chunk)
      OBVIOUS
    <3>4. /\ c \in Seq(Glyphs)
          /\ \E g \in [1 .. m -> Nat] : CharsAt(g, c, chunk, behind)
      BY <2>3, <3>2, <3>3, StuffedIs
    <3>5. Len(c) # 0
      <4>1. PICK g \in [1 .. m -> Nat] : CharsAt(g, c, chunk, behind)
        BY <3>4
      <4>2. 1 \in 1 .. m
        BY <3>2, <3>3
      <4>3. g[1] \in 1 .. Len(c)
        BY <3>3, <4>1, <4>2 DEF CharsAt
      <4> QED
        BY <3>4, <4>3, LenProperties
    <3> QED
      BY <3>4, <3>5, EmptySeq
  <2>5. PICK v : v = Items(c)
    OBVIOUS
  <2>6. /\ Sendable(v, "text") /\ v \in Seq(ItemSet) /\ Numbered(v, n, n) /\ LastIs(v, "text")
    <3>1. /\ Sendable(v, "text") /\ v \in Seq(ItemSet) /\ LastIs(v, "text")
          /\ \A b \in Nat : Numbered(v, b, b)
      BY <2>4, <2>5, TextIs
    <3> QED
      BY <1>2, <3>1
  <2>7. Wire' = Wire \o v
    <3>1. (inbox \o put) \o v = inbox \o (put \o v)
      BY <1>2, <2>6, ConcatAssociative
    <3> QED
      BY <2>1, <2>2, <2>3, <2>5, <3>1 DEF Wire
  <2>8. Sent'
    BY <1>1, <1>2, <2>2, <2>6, <2>7, SentMore DEF Phases
  <2>9. Replies'
    BY <1>2, <2>2, <2>6, <2>7, RepliesSent DEF Phases
  <2>10. OutputSeen' /\ ShowSeen'
    BY <2>2, SeenSame DEF Phases
  <2> QED
    BY <2>8, <2>9, <2>10 DEF Phases
<1>4. CASE Overflow
  <2>1. /\ link # "none"
        /\ inbox' = IF link = "open" THEN inbox \o put ELSE inbox
        /\ put' = <<>>
        /\ UNCHANGED <<area, flight, link, output, call, out, mode, n, shows, seen>>
    BY <1>4 DEF Overflow, Throw, Sane, stream
  <2>2. Wire' = Wire
    <3>1. inbox' = inbox \o put /\ inbox \o put \in Seq(ItemSet)
      BY <1>2, <2>1, ConcatProperties
    <3> QED
      BY <2>1, <3>1, ConcatEmptySeq DEF Wire
  <2>3. Sent' /\ Replies' /\ OutputSeen' /\ ShowSeen'
    BY <2>1, <2>2, SentSame, RepliesSame, SeenSame DEF Phases
  <2> QED
    BY <2>3 DEF Phases
<1>5. CASE EndText
  <2>1. /\ n' = n + 1 /\ UNCHANGED <<stream, output, mode, text, mail, shows, seen>>
        /\ Sync(EndOfText(n + 1), call.op, IF output THEN "end" ELSE "no")
    BY <1>5 DEF EndText
  <2>2. PICK id, to, v : id = n + 1 /\ v = EndOfText(id) /\ to = IF output THEN "end" ELSE "no"
    OBVIOUS
  <2>3. id \in 1 .. MaxCmds /\ id - 1 = n /\ n' = id /\ n' \in Nat /\ n <= n'
    BY <1>2, <2>1, <2>2
  <2>4. Sendable(v, "text") /\ v \in Seq(ItemSet) /\ Numbered(v, n, n') /\ LastIs(v, to)
    <3>1. to \notin {"text", "DATA"}
      BY <2>2
    <3>2. Sendable(v, "text") /\ v \in Seq(ItemSet) /\ Numbered(v, id - 1, id) /\ LastIs(v, to)
      BY <2>2, <2>3, <3>1, EndIs
    <3> QED
      BY <2>3, <3>2
  <2>5. /\ Wire' = Wire \o v
        /\ call' = IF to = "no" THEN Idle ELSE [op |-> call.op, at |-> to]
        /\ out' = IF to = "no" THEN "returned" ELSE "none"
    <3>1. link' = link /\ Sync(v, call.op, to)
      BY <2>1, <2>2 DEF stream
    <3> QED
      BY <2>4, <3>1, SyncSends
  <2>6. call'.at = to /\ call'.op # "show"
    <3>1. CASE to = "no"
      BY <2>5, <3>1 DEF Idle
    <3>2. CASE to # "no"
      BY <1>2, <2>5, <3>2
    <3> QED
      BY <3>1, <3>2
  <2>7. Sent'
    BY <1>1, <1>2, <2>1, <2>4, <2>5, <2>6, SentMore DEF Phases
  <2>8. Replies'
    BY <2>1, <2>3, <2>4, <2>5, RepliesSent DEF Phases, stream
  <2>9. OutputSeen' /\ ShowSeen'
    <3>1. output => n # 0 /\ call'.at \in {"reply", "DATA", "end"} /\ out' = "none"
      BY <1>2, <2>2, <2>5, <2>6
    <3> QED
      BY <1>1, <1>2, <2>1, <2>6, <3>1, SeenSent DEF Phases, stream
  <2> QED
    BY <2>7, <2>8, <2>9 DEF Phases
<1> QED
  BY <1>3, <1>4, <1>5

\* More of the replies is at hand.
LEMMA RefillPhases == ASSUME Base, Sane, Phases, ResponseRefill, Sane' PROVE Phases'
<1>1. /\ Refill /\ (output => ~Torn')
      /\ UNCHANGED <<output, call, out, put, inbox, mode, text, mail, msg, n, shows, seen>>
  BY DEF ResponseRefill, Sane, client, receiver
<1>2. Coming' = Coming /\ area' # <<>>
  BY <1>1, Known, RefillIs
<1>3. Wire' = Wire
  BY <1>1 DEF Wire
<1>4. Sent'
  BY <1>1, <1>3, SentSame DEF Phases
<1>5. Replies'
  <2>1. Linked(Coming', Order)
    BY <1>2 DEF Phases, Replies
  <2>2. mode' = "greet" => Coming' = <<>> /\ seen' = -1 /\ Numbered(Wire', 0, n')
    BY <1>1, <1>2, <1>3 DEF Phases, Replies
  <2>3. ASSUME mode' # "greet" PROVE \E p \in 0 .. n' : Numbered(Wire', p, n') /\ StreamTo(Coming', seen', p)
    BY <1>1, <1>2, <1>3, <2>3 DEF Phases, Replies
  <2> QED
    BY <2>1, <2>2, <2>3 DEF Replies
<1>6. ShowSeen'
  BY <1>1, <1>2 DEF Phases, ShowSeen
<1>7. OutputSeen'
  BY <1>1, <1>2 DEF Phases, OutputSeen, Torn
<1> QED
  BY <1>4, <1>5, <1>6, <1>7 DEF Phases

\* The chars of the first line on its way, of which some are taken.
LEMMA Taken ==
  ASSUME Base, Phases, NEW k \in 1 .. Len(area), \A i \in 1 .. k - 1 : ~IsLF(area[i]),
         area' = SubSeq(area, k + 1, Len(area)), flight' = flight, NEW l, l = Head(area).line,
         mode' = mode
  PROVE  /\ mode # "greet" /\ l.id = seen + 1 /\ l.id \in Nat /\ l.kind \in Kinds
         /\ Linked(Coming', Order)
         /\ \E p \in 0 .. n :
              /\ Numbered(Wire, p, n) /\ l.id <= p
              /\ IsLF(area[k]) => StreamTo(Coming', IF l.kind = "first" THEN seen ELSE l.id, p)
              /\ ~IsLF(area[k]) => StreamTo(Coming', seen, p)
         /\ IsLF(area[k]) /\ Coming' = <<>> => l.kind # "first"
         /\ IsLF(area[k]) /\ Coming' # <<>> => Coming'[1].at = 1 /\ Follow(l, Coming'[1].line)
<1>1. /\ area \in Seq(CharSet) /\ flight \in Seq(CharSet) /\ Coming \in Seq(CharSet) /\ n \in Nat
      /\ Closed(Coming) /\ Len(area) \in Nat /\ Len(flight) \in Nat /\ seen \in Int /\ seen >= -1
  BY Known, LenProperties
<1>2. area # <<>>
  <2>1. Len(area) # 0
    BY <1>1
  <2> QED
    BY <2>1, EmptySeq
<1>3. PICK w, v : w = Coming /\ v = Coming'
  OBVIOUS
<1>4. /\ w \in Seq(CharSet) /\ Len(w) = Len(area) + Len(flight) /\ w # <<>> /\ w[1] = area[1]
      /\ \A i \in 1 .. Len(area) : w[i] = area[i]
  BY <1>1, <1>2, <1>3, JoinParts DEF Coming
<1>5. k \in 0 .. Len(area) /\ k \in 1 .. Len(w) /\ \A i \in 1 .. k - 1 : i \in 1 .. Len(area)
  BY <1>1, <1>4
<1>6. v = SubSeq(w, k + 1, Len(w))
  <2>1. Coming' = SubSeq(area, k + 1, Len(area)) \o flight
    BY DEF Coming
  <2> QED
    BY <1>1, <1>3, <1>5, <2>1, CutFirst DEF Coming
<1>7. l = w[1].line /\ \A i \in 1 .. k - 1 : ~IsLF(w[i])
  BY <1>2, <1>4, <1>5
<1>8. mode # "greet" /\ Linked(w, Order)
  BY <1>3, <1>4 DEF Phases, Replies
<1>9. PICK p \in 0 .. n : Numbered(Wire, p, n) /\ StreamTo(w, seen, p)
  BY <1>3, <1>8 DEF Phases, Replies
<1>10. /\ Linked(v, Order) /\ l.id = seen + 1
       /\ IsLF(w[k]) => /\ StreamTo(v, IF l.kind = "first" THEN seen ELSE l.id, p)
                        /\ v = <<>> => l.kind # "first"
                        /\ v # <<>> => v[1].at = 1 /\ Follow(l, v[1].line)
       /\ ~IsLF(w[k]) => StreamTo(v, seen, p)
  <2>1. PICK s : s = seen
    OBVIOUS
  <2>2. /\ w \in Seq(CharSet) /\ Linked(w, Order) /\ Closed(w) /\ s \in Int /\ p \in Int
        /\ StreamTo(w, s, p) /\ k \in 1 .. Len(w) /\ l = w[1].line /\ v = SubSeq(w, k + 1, Len(w))
    BY <1>1, <1>3, <1>4, <1>5, <1>6, <1>7, <1>8, <1>9, <2>1
  <2>3. \A i \in 1 .. k - 1 : ~IsLF(w[i])
    BY <1>7
  <2>4. LineGone(SubSeq(w, k + 1, Len(w)), w[1].line, w[k], s, p)
    BY <2>2, <2>3, LineOver
  <2>5. LineGone(v, l, w[k], s, p)
    BY <2>2, <2>4
  <2> QED
    BY <2>1, <2>5 DEF LineGone
<1>11. w[k] = area[k]
  BY <1>4
<1>12. l \in Lines /\ l.id <= p
  <2>1. 1 \in 1 .. Len(w)
    BY <1>5
  <2>2. w[1] \in CharSet /\ w[1].line.id <= p
    BY <1>4, <1>9, <2>1, ElementOfSeq DEF StreamTo, LineNumbers
  <2> QED
    BY <1>7, <2>2 DEF CharSet
<1>13. l.kind \in Kinds /\ l.id \in Nat
  BY <1>12, SmtpAssumption DEF Lines
<1> QED
  BY <1>3, <1>8, <1>9, <1>10, <1>11, <1>12, <1>13

\* get_response looks for the end of a line at its beginning: it finds it.
LEMMA LineAtHand ==
  ASSUME Base, Phases, output, Len(area) >= 5
  PROVE  /\ Consumed \in 1 .. Len(area) /\ IsLF(area[Consumed])
         /\ \A i \in 1 .. Consumed - 1 : ~IsLF(area[i])
         /\ CRLFs # {} /\ EndsReply(Head(area)) = {Head(area).line.kind # "first"}
         /\ area # <<>>
<1>1. area \in Seq(CharSet) /\ StreamBase /\ CountBase
  BY Known
<1>2. /\ area # <<>> /\ Len(area) \in Nat /\ Head(area) = area[1] /\ area[1] \in CharSet
      /\ Consumed \in 0 .. Len(area)
      /\ Consumed = 0 <=> CRLFs = {}
      /\ Consumed > 0 => IsLF(area[Consumed])
  BY <1>1, ConsumedIs
<1>3. Coming # <<>> /\ Coming[1] = area[1] /\ area[1].line \in Lines
  <2>1. flight \in Seq(CharSet)
    BY Known
  <2>2. Coming # <<>> /\ Coming[1] = area[1]
    BY <1>1, <1>2, <2>1, JoinParts DEF Coming
  <2> QED
    BY <1>2, <2>2 DEF CharSet
<1>4. area[1].at = 1
  BY <1>1, <1>3 DEF StreamBase
<1>5. ~IsLF(area[1]) /\ HasCode(area[1]) /\ area[1].line.kind \in Kinds
  <2>1. PICK z, l : z = area[1] /\ l = z.line
    OBVIOUS
  <2>2. l.kind \in Kinds
    BY <1>3, <2>1 DEF Lines
  <2>3. Length(l) = 6
    BY <2>2 DEF Length, Kinds
  <2>4. z.at # Length(z.line) /\ l.kind # "mid"
    BY <1>4, <2>1, <2>2, <2>3 DEF Kinds
  <2> QED
    BY <1>4, <2>1, <2>2, <2>4 DEF IsLF, HasCode
<1>6. PICK m : m = Len(area)
  OBVIOUS
<1>7. IsLF(area[m])
  BY <1>2, <1>6 DEF Phases, OutputSeen
<1>8. m \in CRLFs
  <2>1. m \in 2 .. m /\ m >= 5
    BY <1>2, <1>6
  <2> QED
    BY <1>6, <1>7, <2>1 DEF CRLFs
<1>9. CRLFs # {} /\ CRLFs \in SUBSET Nat
  BY <1>2, <1>8 DEF CRLFs
<1>10. Consumed = Min(CRLFs) /\ \A y \in CRLFs : Min(CRLFs) <= y
  BY <1>9, MinIs DEF Consumed
<1>11. PICK k : k = Consumed
  OBVIOUS
<1>12. k \in 1 .. m /\ \A y \in CRLFs : k <= y
  <2>1. k \in 0 .. m /\ m \in Nat /\ k # 0
    BY <1>2, <1>6, <1>9, <1>11
  <2>2. k = Min(CRLFs)
    BY <1>10, <1>11
  <2>3. \A y \in CRLFs : k <= y
    BY <1>10, <2>2
  <2> QED
    BY <2>1, <2>3
<1>13. ASSUME NEW i \in 1 .. k - 1 PROVE ~IsLF(area[i])
  <2>1. CASE i = 1
    BY <1>5, <2>1
  <2>2. CASE i # 1
    <3>1. i \in 2 .. m /\ ~(k <= i)
      BY <1>2, <1>6, <1>12, <2>2
    <3>2. i \notin CRLFs
      BY <1>12, <3>1
    <3> QED
      BY <1>6, <3>1, <3>2 DEF CRLFs
  <2> QED
    BY <2>1, <2>2
<1>14. EndsReply(Head(area)) = {Head(area).line.kind # "first"}
  BY <1>2, <1>5 DEF EndsReply
<1> QED
  BY <1>2, <1>6, <1>9, <1>11, <1>12, <1>13, <1>14

\* What is left at hand of whole lines is whole lines.
LEMMA StillWhole ==
  ASSUME area \in Seq(CharSet), NEW k \in 0 .. Len(area), area # <<>> => IsLF(area[Len(area)]),
         area' = SubSeq(area, k + 1, Len(area))
  PROVE  area' # <<>> => IsLF(area'[Len(area')])
<1> SUFFICES ASSUME area' # <<>> PROVE IsLF(area'[Len(area')])
  OBVIOUS
<1>1. PICK w, v, m : w = area /\ v = area' /\ m = Len(w)
  OBVIOUS
<1>2. m \in Nat /\ k \in Nat /\ k <= m /\ w \in Seq(CharSet)
  BY <1>1, LenProperties
<1>3. v \in Seq(CharSet) /\ Len(v) = m - k /\ \A i \in 1 .. m - k : v[i] = w[k + i]
  BY <1>1, <1>2, Slice
<1>4. Len(v) # 0
  BY <1>1, <1>3, EmptySeq
<1>5. m - k \in 1 .. m - k /\ k + (m - k) = m /\ m # 0
  BY <1>2, <1>3, <1>4
<1>6. v[Len(v)] = w[m]
  BY <1>3, <1>5
<1>7. w # <<>>
  BY <1>1, <1>5, EmptySeq
<1> QED
  BY <1>1, <1>6, <1>7

\* A line of a reply is read.
LEMMA LinePhases == ASSUME Base, Sane, Phases, ResponseLine, Sane' PROVE Phases'
<1>1. /\ Responding /\ Len(area) >= 5 /\ area' = SubSeq(area, Consumed + 1, Len(area))
      /\ flight' = flight /\ link' = link /\ output' = output /\ mode' = mode /\ shows' = shows
  BY DEF ResponseLine
<1>2. /\ output /\ call.at \in Responses /\ call.op # "show"
      /\ call = [op |-> call.op, at |-> call.at]
      /\ call.op \in {"helo", "command", "buffer", "file"}
  <2>1. CallBase /\ call.at \in Responses
    BY <1>1, Known DEF Responding
  <2>2. call.at # "no" /\ call.at # "show"
    BY <2>1 DEF Responses
  <2>3. call.op \in {"helo", "command", "buffer", "file"}
    BY <2>1, <2>2, CallingOne
  <2> QED
    BY <2>1, <2>2, <2>3, CallingOne
<1>3. PICK k, l : k = Consumed /\ l = Head(area).line
  OBVIOUS
<1>4. /\ k \in 1 .. Len(area) /\ IsLF(area[k]) /\ \A i \in 1 .. k - 1 : ~IsLF(area[i])
      /\ CRLFs # {} /\ EndsReply(Head(area)) = {l.kind # "first"}
  BY <1>1, <1>2, <1>3, LineAtHand
<1>5. area' = SubSeq(area, k + 1, Len(area))
  BY <1>1, <1>3
<1>6. /\ mode # "greet" /\ l.id = seen + 1 /\ l.id \in Nat /\ l.kind \in Kinds
      /\ Linked(Coming', Order)
      /\ \E p \in 0 .. n :
           /\ Numbered(Wire, p, n) /\ l.id <= p
           /\ IsLF(area[k]) => StreamTo(Coming', IF l.kind = "first" THEN seen ELSE l.id, p)
           /\ ~IsLF(area[k]) => StreamTo(Coming', seen, p)
  BY <1>1, <1>3, <1>4, <1>5, Taken
<1>7. seen' = IF l.kind = "first" THEN seen ELSE l.id
  BY <1>3, <1>4 DEF ResponseLine, Shown
<1>8. PICK p \in 0 .. n : Numbered(Wire, p, n) /\ l.id <= p /\ StreamTo(Coming', seen', p)
  BY <1>4, <1>6, <1>7
<1>9. area' # <<>> => IsLF(area'[Len(area')])
  <2>1. area # <<>> => IsLF(area[Len(area)])
    BY <1>2 DEF Phases, OutputSeen
  <2>2. k \in 0 .. Len(area) /\ area \in Seq(CharSet)
    BY <1>4, Known, LenProperties
  <2> QED
    BY <1>5, <2>1, <2>2, StillWhole
<1>10. /\ n \in Nat /\ p \in Nat /\ p <= n /\ seen \in Int /\ MaxCmds \in Nat /\ Wire \in Seq(ItemSet)
  BY Known
<1>11. /\ call.at \in {"reply", "DATA", "end"} => n > 0 /\ l.id = n
       /\ call.at = "greeting" => n = 0 /\ l.id = 0
  <2>1. n = 0 => seen = -1 /\ call.at \in {"no", "greeting"}
    BY <1>2 DEF Phases, OutputSeen
  <2>2. n > 0 => seen = IF call.at \in {"reply", "DATA", "end"} THEN n - 1 ELSE n
    BY <1>2 DEF Phases, OutputSeen
  <2>3. n = 0 => l.id = 0
    BY <1>6, <2>1
  <2>4. call.at \in {"reply", "DATA", "end"} => n # 0
    BY <2>1
  <2>5. call.at \in {"reply", "DATA", "end"} => n > 0 /\ l.id = n
    BY <1>6, <1>10, <2>2, <2>4
  <2>6. call.at = "greeting" /\ n # 0 => l.id = n + 1
    BY <1>6, <1>10, <2>2
  <2>7. call.at = "greeting" => n = 0
    BY <1>8, <1>10, <2>6
  <2> QED
    BY <2>3, <2>5, <2>7
<1>12. ShowSeen'
  BY <1>1, <1>2 DEF ShowSeen
<1>13. ASSUME UNCHANGED <<put, inbox, n>>
       PROVE  Replies' /\ Wire' = Wire
  <2>1. Wire' = Wire /\ n' = n
    BY <1>13 DEF Wire
  <2> QED
    BY <1>1, <1>6, <1>8, <2>1 DEF Replies
<1>14. CASE l.kind # "first" /\ call.at # "greeting" /\ Got
  <2>1. call'.at = (IF call.at = "DATA" THEN "text" ELSE "no") /\ UNCHANGED <<put, inbox, n>>
        /\ out' = (IF call.at = "DATA" THEN "none" ELSE "returned")
    <3>1. CASE call.at \in {"reply", "end"} /\ Goes("no") /\ UNCHANGED <<put, inbox, n, tidy>>
      BY <3>1 DEF Goes, Idle
    <3>2. CASE call.at = "DATA" /\ Goes("text") /\ UNCHANGED <<put, inbox, n, tidy>>
      <4>1. call' = [call EXCEPT !.at = "text"] /\ out' = "none"
        BY <3>2 DEF Goes
      <4>2. call'.at = "text"
        BY <1>2, <4>1
      <4> QED
        BY <3>2, <4>1, <4>2
    <3> QED
      BY <1>14, <3>1, <3>2 DEF Got
  <2>2. Replies' /\ Wire' = Wire
    BY <1>13, <2>1
  <2>3. call.at \in {"reply", "DATA", "end"}
    BY <1>14 DEF Got
  <2>4. Sent'
    BY <1>1, <2>1, <2>2, <2>3, SentSame DEF Phases
  <2>5. seen' = n /\ n' = n /\ n > 0
    BY <1>7, <1>11, <1>14, <2>1, <2>3
  <2>6. OutputSeen'
    BY <1>9, <1>10, <2>1, <2>5 DEF OutputSeen
  <2> QED
    BY <1>12, <2>2, <2>4, <2>6 DEF Phases
<1>15. CASE /\ l.kind # "first" /\ call.at = "greeting"
            /\ n' = n + 1
            /\ Sync(<<Item("other", n + 1)>>, "helo", "reply")
  <2>1. n = 0 /\ l.id = 0 /\ p = 0 /\ n' = 1
    BY <1>8, <1>10, <1>11, <1>15
  <2>2. n < MaxCmds
    BY <1>15, Known DEF CallBase
  <2>3. PICK id, v : id = 1 /\ v = <<Item("other", id)>>
    OBVIOUS
  <2>4. Sync(v, "helo", "reply") /\ id \in 1 .. MaxCmds /\ id - 1 = n /\ n' = id
    BY <1>10, <1>15, <2>1, <2>2, <2>3
  <2>5. call.at \notin {"text", "DATA"} /\ "other" \in Commands /\ "other" # "DATA"
    BY <1>15 DEF Commands
  <2>6. /\ Sendable(v, call.at) /\ v \in Seq(ItemSet) /\ Numbered(v, id - 1, id) /\ LastIs(v, "reply")
    BY <2>3, <2>4, <2>5, CommandIs
  <2>7. /\ Wire' = Wire \o v
        /\ call' = IF "reply" = "no" THEN Idle ELSE [op |-> "helo", at |-> "reply"]
        /\ out' = IF "reply" = "no" THEN "returned" ELSE "none"
    BY <1>1, <2>4, <2>6, SyncSends
  <2>8. call'.at = "reply" /\ out' = "none"
    BY <2>7
  <2>9. Sent'
    BY <1>1, <1>10, <2>6, <2>7, <2>8, SentMore DEF Phases
  <2>10. Numbered(Wire', p, n')
    <3>1. Numbered(v, n, n')
      BY <2>4, <2>6
    <3> QED
      BY <1>8, <1>10, <2>6, <2>7, <3>1, NumberedJoin
  <2>11. p \in 0 .. n'
    BY <2>1
  <2>12. Replies'
    BY <1>1, <1>6, <1>8, <2>10, <2>11 DEF Replies
  <2>13. seen' = 0
    BY <1>7, <1>15, <2>1
  <2>14. OutputSeen'
    BY <1>9, <2>1, <2>8, <2>13 DEF OutputSeen
  <2> QED
    BY <1>12, <2>9, <2>12, <2>14 DEF Phases
<1>16. CASE l.kind = "first" /\ UNCHANGED <<call, out, put, inbox, n, tidy>>
  <2>1. Replies' /\ Wire' = Wire
    BY <1>13, <1>16
  <2>2. Sent'
    BY <1>1, <1>16, <2>1, SentSame DEF Phases
  <2>3. seen' = seen
    BY <1>7, <1>16
  <2>4. OutputSeen'
    BY <1>1, <1>2, <1>9, <1>16, <2>3 DEF Phases, OutputSeen
  <2> QED
    BY <1>12, <2>1, <2>2, <2>4 DEF Phases
<1>17. \/ l.kind # "first" /\ call.at # "greeting" /\ Got
       \/ /\ l.kind # "first" /\ call.at = "greeting"
          /\ n' = n + 1
          /\ Sync(<<Item("other", n + 1)>>, "helo", "reply")
       \/ l.kind = "first" /\ UNCHANGED <<call, out, put, inbox, n, tidy>>
  <2>1. \E ends \in {l.kind # "first"} :
          \/ /\ ends /\ call.at # "greeting"
             /\ Got
          \/ /\ ends /\ call.at = "greeting"
             /\ n' = n + 1
             /\ Sync(<<Item("other", n + 1)>>, "helo", "reply")
          \/ ~ends /\ UNCHANGED <<call, out, put, inbox, n, tidy>>
    BY <1>4 DEF ResponseLine
  <2> QED
    BY <2>1
<1> QED
  BY <1>14, <1>15, <1>16, <1>17

\* A line, or a part of it, is shown by operator <<.
LEMMA ShowPhases == ASSUME Base, Sane, Phases, ShowLine, Sane' PROVE Phases'
<1>1. PICK LFs, l : LFs = {k \in 1 .. Len(area) : IsLF(area[k])} /\ l = Head(area).line
  OBVIOUS
<1>2. /\ call.at = "show" /\ area # <<>>
      /\ UNCHANGED <<flight, link, output, put, inbox, mode, text, mail, msg, n, shows, tidy>>
      /\ LFs = {} => area' = <<>> /\ UNCHANGED <<call, out, seen>>
      /\ LFs # {} => /\ area' = SubSeq(area, Min(LFs) + 1, Len(area))
                     /\ Shown(l)
                     /\ IF l.kind = "first" THEN UNCHANGED <<call, out>>
                        ELSE call' = Idle /\ out' = "shown"
  BY <1>1 DEF ShowLine, receiver
<1>3. call.op = "show" /\ ~output
  BY <1>2, Known DEF CallBase, Calling
<1>4. PICK m : m = Len(area)
  OBVIOUS
<1>5. /\ m \in Nat /\ m # 0 /\ area \in Seq(CharSet) /\ n \in Nat /\ seen \in Int /\ shows \in Int
      /\ LFs \in SUBSET Nat
  BY <1>1, <1>2, <1>4, Known, EmptySeq, LenProperties
<1>6. PICK k : k = IF LFs = {} THEN m ELSE Min(LFs)
  OBVIOUS
<1>7. /\ k \in 1 .. m /\ \A i \in 1 .. k - 1 : ~IsLF(area[i])
      /\ IsLF(area[k]) <=> LFs # {}
  <2>1. CASE LFs = {}
    <3>1. k = m /\ \A i \in 1 .. m : ~IsLF(area[i])
      BY <1>1, <1>4, <1>6, <2>1
    <3>2. m \in 1 .. m /\ \A i \in 1 .. m - 1 : i \in 1 .. m
      BY <1>5
    <3> QED
      BY <2>1, <3>1, <3>2
  <2>2. CASE LFs # {}
    <3>1. k \in LFs /\ \A y \in LFs : k <= y
      BY <1>5, <1>6, <2>2, MinIs
    <3>2. k \in 1 .. m /\ IsLF(area[k])
      BY <1>1, <1>4, <3>1
    <3>3. ASSUME NEW i \in 1 .. k - 1 PROVE ~IsLF(area[i])
      <4>1. i \in 1 .. m /\ ~(k <= i)
        BY <1>5, <3>2
      <4> QED
        BY <1>1, <1>4, <3>1, <4>1
    <3> QED
      BY <2>2, <3>2, <3>3
  <2> QED
    BY <2>1, <2>2
<1>8. area' = SubSeq(area, k + 1, m)
  <2>1. CASE LFs = {}
    <3>1. Len(area) \in 0 .. Len(area)
      BY <1>4, <1>5
    <3>2. SubSeq(area, Len(area) + 1, Len(area)) = <<>>
      BY <1>5, <3>1, Rest
    <3> QED
      BY <1>2, <1>4, <1>6, <2>1, <3>2
  <2>2. CASE LFs # {}
    BY <1>2, <1>4, <1>6, <2>2
  <2> QED
    BY <2>1, <2>2
<1>9. /\ mode # "greet" /\ l.id = seen + 1 /\ l.id \in Nat /\ l.kind \in Kinds
      /\ Linked(Coming', Order)
      /\ \E p \in 0 .. n :
           /\ Numbered(Wire, p, n) /\ l.id <= p
           /\ IsLF(area[k]) => StreamTo(Coming', IF l.kind = "first" THEN seen ELSE l.id, p)
           /\ ~IsLF(area[k]) => StreamTo(Coming', seen, p)
      /\ IsLF(area[k]) /\ Coming' # <<>> => Coming'[1].at = 1 /\ Follow(l, Coming'[1].line)
  <2>1. k \in 1 .. Len(area) /\ area' = SubSeq(area, k + 1, Len(area))
    BY <1>4, <1>7, <1>8
  <2> QED
    BY <1>1, <1>2, <1>7, <2>1, Taken
<1>10. Wire' = Wire
  BY <1>2 DEF Wire
<1>11. /\ LFs = {} => seen' = seen
       /\ LFs # {} => seen' = IF l.kind = "first" THEN seen ELSE l.id
  BY <1>2 DEF Shown
<1>12. Replies'
  <2>1. \E p \in 0 .. n : Numbered(Wire, p, n) /\ StreamTo(Coming', seen', p)
    BY <1>7, <1>9, <1>11
  <2> QED
    BY <1>2, <1>9, <1>10, <2>1 DEF Replies
<1>13. Sent'
  <2>1. call'.at \in {"show", "no"}
    BY <1>2 DEF Idle
  <2> QED
    BY <1>2, <1>10, <2>1, SentSame DEF Phases
<1>14. OutputSeen'
  BY <1>2, <1>3 DEF OutputSeen
<1>15. ShowSeen'
  <2>1. seen = shows - 2
    BY <1>3 DEF Phases, ShowSeen
  <2>2. CASE call' = call /\ seen' = seen
    BY <1>2, <1>3, <2>1, <2>2 DEF ShowSeen
  <2>3. CASE LFs # {} /\ l.kind # "first"
    <3>1. call' = Idle /\ call'.op = "none"
      BY <1>2, <2>3 DEF Idle
    <3>2. seen' = shows - 1
      BY <1>5, <1>9, <1>11, <2>1, <2>3
    <3>3. Coming' # <<>> => Coming'[1].at = 1 /\ Coming'[1].line.kind # "last"
      BY <1>7, <1>9, <2>3 DEF Follow
    <3> QED
      BY <1>2, <3>1, <3>2, <3>3 DEF ShowSeen
  <2> QED
    BY <1>2, <1>11, <2>2, <2>3
<1> QED
  BY <1>12, <1>13, <1>14, <1>15 DEF Phases

\* The end of the stream and an err end what is tidy.
LEMMA EofPhases == ASSUME ResponseEof \/ ResponseFails \/ Closes, Sane, Sane' PROVE FALSE
BY DEF ResponseEof, ResponseFails, Closes, AtEof, Throw, Sane

\* The first k items on the way are the next line, and it is taken.
LineTaken(k) ==
  /\ NextIs(k) /\ k \in 1 .. Len(Wire) /\ k \in Nat /\ Len(Wire) \in Nat
  /\ Wire' = SubSeq(Wire, k + 1, Len(Wire))
  /\ \A i \in 1 .. k : Wire[i] = inbox[i] /\ Wire[i] \in ItemSet /\ Wire[i].id <= n
  /\ \A i \in 1 .. k - 1 : Wire[i].id = 0 /\ Wire[i].verb \in {"a", "."}


\* There is such a line when the receiver takes one.
LEMMA WireLine ==
  ASSUME Base, TakeLine, put' = put
  PROVE  \E k : LineTaken(k)
<1>1. inbox \in Seq(ItemSet) /\ put \in Seq(ItemSet) /\ Wire \in Seq(ItemSet) /\ WireBase
  BY Known
<1>2. PICK k : NextIs(k)
  BY <1>1, LineIs DEF TakeLine
<1>3. /\ k = Min(LineEnds) /\ k \in 1 .. Len(inbox) /\ k \in Nat /\ Len(inbox) \in Nat
      /\ \A i \in 1 .. k - 1 : inbox[i].verb \in {"a", "."}
  BY <1>2 DEF NextIs
<1>4. inbox' = SubSeq(inbox, k + 1, Len(inbox))
  BY <1>3 DEF TakeLine
<1>5. k \in 0 .. Len(inbox)
  BY <1>3
<1>6. Wire' = SubSeq(Wire, k + 1, Len(Wire))
  <2>1. SubSeq(inbox, k + 1, Len(inbox)) \o put = SubSeq(inbox \o put, k + 1, Len(inbox \o put))
    BY <1>1, <1>5, CutFirst
  <2> QED
    BY <1>4, <2>1 DEF Wire
<1>7. /\ Len(Wire) = Len(inbox) + Len(put) /\ Len(put) \in Nat
      /\ \A i \in 1 .. Len(inbox) : Wire[i] = inbox[i]
  BY <1>1, JoinParts DEF Wire
<1>8. k \in 1 .. Len(Wire) /\ Len(Wire) \in Nat
  BY <1>3, <1>7
<1>9. ASSUME NEW i \in 1 .. k PROVE Wire[i] = inbox[i] /\ Wire[i] \in ItemSet /\ Wire[i].id <= n
  <2>1. i \in 1 .. Len(inbox)
    BY <1>3
  <2> QED
    BY <1>1, <1>7, <2>1, ElementOfSeq DEF WireBase, Numbers
<1>10. ASSUME NEW i \in 1 .. k - 1 PROVE Wire[i].id = 0 /\ Wire[i].verb \in {"a", "."}
  <2>1. i \in 1 .. k
    BY <1>3
  <2>2. Wire[i] = inbox[i] /\ Wire[i] \in ItemSet
    BY <1>9, <2>1
  <2> QED
    BY <1>3, <2>2 DEF ItemSet
<1>11. LineTaken(k)
  BY <1>2, <1>3, <1>6, <1>8, <1>9, <1>10 DEF LineTaken
<1> QED
  BY <1>11

\* A reply more is on its way.
LEMMA RepliesSaid ==
  ASSUME Base, Phases, Linked(Coming, Order), NEW p \in Int, StreamTo(Coming, seen, p),
         p + 1 \in 0 .. n, Says(p + 1), Numbered(Wire', p + 1, n), mode' # "greet",
         UNCHANGED <<area, output, call, out, n, shows, seen>>
  PROVE  Replies' /\ OutputSeen' /\ ShowSeen'
<1>1. /\ area \in Seq(CharSet) /\ flight \in Seq(CharSet) /\ Coming \in Seq(CharSet)
      /\ Closed(Coming) /\ n \in Nat /\ n <= MaxCmds /\ MaxCmds \in Nat /\ seen \in Int
  BY Known
<1>2. PICK id : id = p + 1
  OBVIOUS
<1>3. id \in 0 .. MaxCmds /\ Says(id)
  BY <1>1, <1>2
<1>4. PICK r : IsReply(r, id) /\ flight' = flight \o r
  BY <1>3, SaysIs
<1>5. Coming' = Coming \o r
  <2>1. PICK x, y : x = area /\ y = flight
    OBVIOUS
  <2>2. x \in Seq(CharSet) /\ y \in Seq(CharSet) /\ r \in Seq(CharSet)
    BY <1>1, <1>4, <2>1 DEF IsReply
  <2>3. (x \o y) \o r = x \o (y \o r)
    BY <2>2, ConcatAssociative
  <2> QED
    BY <1>4, <2>1, <2>3 DEF Coming
<1>6. PICK w, s : w = Coming /\ s = seen
  OBVIOUS
<1>7. /\ w \in Seq(CharSet) /\ Linked(w, Order) /\ Closed(w) /\ s \in Int /\ StreamTo(w, s, p)
      /\ IsReply(r, p + 1)
  BY <1>1, <1>2, <1>4, <1>6
<1>8. PICK v : v = w \o r
  OBVIOUS
<1>9. /\ Linked(v, Order) /\ StreamTo(v, s, p + 1) /\ v # <<>>
      /\ w # <<>> => v[1] = w[1]
      /\ w = <<>> => v[1].at = 1 /\ v[1].line.kind # "last"
  BY <1>7, <1>8, SaysOn
<1>10. Coming' = v /\ seen' = s /\ n' = n
  BY <1>5, <1>6, <1>8
<1>11. Replies'
  BY <1>9, <1>10 DEF Replies
<1>12. OutputSeen'
  BY DEF Phases, OutputSeen
<1>13. ShowSeen'
  BY <1>6, <1>9, <1>10 DEF Phases, ShowSeen
<1> QED
  BY <1>11, <1>12, <1>13

\* The receiver answers the last item of the line it has taken.
LEMMA Answers ==
  ASSUME Base, Phases, NEW k, LineTaken(k), Wire[k].id # 0, Says(Wire[k].id), mode # "greet",
         mode' # "greet", UNCHANGED <<area, output, call, out, n, shows, seen>>
  PROVE  Replies' /\ OutputSeen' /\ ShowSeen'
<1>1. Linked(Coming, Order) /\ n \in Nat /\ Wire \in Seq(ItemSet)
  BY Known DEF Phases, Replies
<1>2. PICK p \in 0 .. n : Numbered(Wire, p, n) /\ StreamTo(Coming, seen, p)
  BY DEF Phases, Replies
<1>3. PICK w : w = Wire
  OBVIOUS
<1>4. /\ k \in 1 .. Len(w) /\ \A i \in 1 .. k - 1 : w[i].id = 0
      /\ w[k].id # 0 /\ w[k] \in ItemSet /\ w[k].id <= n
      /\ Wire' = SubSeq(w, k + 1, Len(w))
  <2>1. k \in 1 .. k
    BY DEF LineTaken
  <2> QED
    BY <1>3, <2>1 DEF LineTaken
<1>5. w[k].id = p + 1 /\ Numbered(SubSeq(w, k + 1, Len(w)), p + 1, n)
  <2>1. w \in Seq(ItemSet) /\ p \in Nat /\ Numbered(w, p, n)
    BY <1>1, <1>2, <1>3
  <2> QED
    BY <1>4, <2>1, NumberedRest
<1>6. p + 1 \in 0 .. n
  BY <1>1, <1>2, <1>4, <1>5
<1>7. Says(p + 1)
  BY <1>3, <1>5
<1> QED
  BY <1>1, <1>2, <1>4, <1>5, <1>6, <1>7, RepliesSaid

\* The receiver greets.
LEMMA GreetsPhases == ASSUME Base, Sane, Phases, Greets PROVE Phases'
<1>1. /\ Says(0) /\ mode = "greet" /\ mode' = "cmd" /\ link' = link
      /\ UNCHANGED <<area, link, output, call, out, put, inbox, text, mail, msg, n, shows, seen, tidy>>
  BY DEF Greets, client, ghosts
<1>2. Wire' = Wire /\ n \in Nat
  BY <1>1, Known DEF Wire
<1>3. Linked(Coming, Order) /\ Coming = <<>> /\ seen = -1 /\ Numbered(Wire, 0, n)
  BY <1>1 DEF Phases, Replies
<1>4. PICK p : p = -1
  OBVIOUS
<1>5. p \in Int /\ p + 1 = 0 /\ StreamTo(Coming, seen, p)
  BY <1>3, <1>4 DEF StreamTo
<1>6. p + 1 \in 0 .. n /\ Says(p + 1) /\ Numbered(Wire', p + 1, n) /\ mode' # "greet"
  BY <1>1, <1>2, <1>3, <1>5
<1>7. Replies' /\ OutputSeen' /\ ShowSeen'
  BY <1>1, <1>3, <1>5, <1>6, RepliesSaid
<1>8. Sent'
  BY <1>1, <1>2 DEF Phases, Sent, ModeFits
<1> QED
  BY <1>7, <1>8 DEF Phases

\* The receiver takes a command.
LEMMA TakesPhases == ASSUME Base, Sane, Phases, TakesCommand, Sane' PROVE Phases'
<1>1. /\ TakeLine /\ mode = "cmd"
      /\ UNCHANGED <<area, output, call, out, put, mail, msg, n, shows, seen>>
  BY DEF TakesCommand, client
<1>2. PICK k : LineTaken(k)
  BY <1>1, WireLine
<1>3. PICK c : c = Wire[k]
  OBVIOUS
<1>4. /\ NextIs(k) /\ c = inbox[k] /\ c \in ItemSet /\ k \in Nat /\ k >= 1 /\ Last(NextLine) = c
      /\ k \in 1 .. Len(Wire) /\ Wire' = SubSeq(Wire, k + 1, Len(Wire))
  <2>1. k \in Nat /\ k \in 1 .. Len(Wire) /\ Len(Wire) \in Nat
    BY <1>2 DEF LineTaken
  <2>2. k \in 1 .. k /\ k >= 1
    BY <2>1
  <2> QED
    BY <1>2, <1>3, <2>1, <2>2 DEF LineTaken, NextIs
<1>5. /\ Says(c.id) /\ Body = <<c.verb>>
      /\ mode' = mode \/ (c.verb = "DATA" /\ mode' = "data")
  BY <1>4 DEF TakesCommand, Sane
<1>6. c.verb \in Commands
  <2> SUFFICES ASSUME c.verb = "\n" PROVE FALSE
    BY <1>4 DEF NextIs
  <2>1. Len(Body) = 1 /\ Len(Body) = k - 1 /\ Body[1] = "\n"
    BY <1>4, <1>5 DEF NextIs
  <2>2. 1 \in 1 .. k - 1 /\ 1 \in 1 .. Len(Body)
    BY <1>4, <2>1
  <2>3. Body[1] = inbox[1].verb /\ inbox[1].verb \in {"a", "."}
    BY <1>4, <2>2 DEF NextIs
  <2> QED
    BY <2>1, <2>3
<1>7. c.id # 0
  BY <1>4, <1>6 DEF ItemSet
<1>8. mode # "greet" /\ mode' # "greet"
  BY <1>1, <1>5
<1>9. Replies' /\ OutputSeen' /\ ShowSeen'
  BY <1>1, <1>2, <1>3, <1>5, <1>7, <1>8, Answers
<1>10. Sent'
  <2>1. Wire \in Seq(ItemSet) /\ call' = call
    BY <1>1, Known
  <2>2. mode' = "data" => c.verb = "DATA"
    BY <1>1, <1>5
  <2> QED
    BY <1>3, <1>4, <1>6, <2>1, <2>2, SentTaken DEF Phases
<1> QED
  BY <1>9, <1>10 DEF Phases

\* A line of a text ends with an end of line.
LEMMA TextLine ==
  ASSUME Base, Phases, NEW k, LineTaken(k), mode = "data"
  PROVE  /\ Wire[k].verb = "\n" /\ Wire[k] \in ItemSet /\ Len(Body) = k - 1
         /\ Wire[k].id > 0 => Body = <<".">>
<1>1. PICK w, x : w = Wire /\ x = w[k]
  OBVIOUS
<1>2. /\ k \in 1 .. Len(w) /\ k \in Nat /\ k >= 1 /\ Len(w) \in Nat
      /\ \A i \in 1 .. k : w[i] = inbox[i] /\ w[i] \in ItemSet
      /\ \A i \in 1 .. k - 1 : w[i].id = 0 /\ w[i].verb \in {"a", "."}
      /\ NextIs(k)
  BY <1>1 DEF LineTaken
<1>3. x = inbox[k] /\ x \in ItemSet /\ x.verb \in Commands \cup {"\n"}
  <2>1. k \in 1 .. k
    BY <1>2
  <2> QED
    BY <1>1, <1>2, <2>1 DEF NextIs
<1>4. WellFormed(w) /\ ModeFits(w, "data", call.at)
  BY <1>1 DEF Phases, Sent
<1>5. w # <<>>
  BY <1>2, EmptySeq
<1>6. k > 1 => <<w[k - 1], x>> \in Grammar /\ w[k - 1].id = 0
  <2> SUFFICES ASSUME k > 1 PROVE <<w[k - 1], x>> \in Grammar /\ w[k - 1].id = 0
    OBVIOUS
  <2>1. PICK j : j = k - 1
    OBVIOUS
  <2>2. j \in 1 .. Len(w) - 1 /\ j + 1 = k /\ j \in 1 .. k - 1
    BY <1>2, <2>1
  <2>3. <<w[j], w[j + 1]>> \in Grammar
    BY <1>4, <2>2 DEF WellFormed, Linked
  <2> QED
    BY <1>1, <1>2, <2>1, <2>2, <2>3
<1>7. x.verb = "\n"
  <2>1. CASE k = 1
    BY <1>1, <1>3, <1>4, <1>5, <2>1 DEF ModeFits
  <2>2. CASE k > 1
    BY <1>3, <1>6, <2>2 DEF Grammar
  <2> QED
    BY <1>2, <2>1, <2>2
<1>8. Body \in Seq(Verbs) /\ Len(Body) = k - 1 /\ \A i \in 1 .. Len(Body) : Body[i] = inbox[i].verb
  BY <1>2, <1>3, <1>7 DEF NextIs
<1>9. ASSUME x.id > 0 PROVE Body = <<".">>
  <2>1. k > 1 /\ (k > 2 => w[k - 2] = Item("\n", 0))
    BY <1>1, <1>2, <1>4, <1>7, <1>9 DEF WellFormed, Final
  <2>2. w[k - 1] = Item(".", 0)
    BY <1>6, <1>7, <1>9, <2>1 DEF Grammar
  <2>3. ~(k > 2)
    <3> SUFFICES ASSUME k > 2 PROVE FALSE
      OBVIOUS
    <3>1. PICK j : j = k - 2
      OBVIOUS
    <3>2. j \in 1 .. k - 1
      BY <1>2, <3>1
    <3>3. w[j].verb \in {"a", "."} /\ w[j] = Item("\n", 0)
      BY <1>2, <2>1, <3>1, <3>2
    <3> QED
      BY <3>3 DEF Item
  <2>4. k = 2
    BY <1>2, <2>1, <2>3
  <2>5. w[1] = Item(".", 0) /\ w[1] = inbox[1]
    BY <1>2, <2>2, <2>4
  <2>6. Len(Body) = 1 /\ Body[1] = "."
    BY <1>8, <2>4, <2>5 DEF Item
  <2>7. "." \in Verbs
    BY DEF Verbs, Glyphs
  <2>8. PICK s : s = <<".">>
    OBVIOUS
  <2>9. s \in Seq(Verbs) /\ Len(s) = 1 /\ s[1] = "."
    BY <2>7, <2>8
  <2>10. \A i \in 1 .. Len(Body) : Body[i] = s[i]
    BY <2>6, <2>9
  <2> QED
    BY <1>8, <2>6, <2>8, <2>9, <2>10, SeqEqual
<1> QED
  BY <1>1, <1>3, <1>7, <1>8, <1>9

\* The receiver takes a line of a text.
LEMMA TextTakenPhases == ASSUME Base, Sane, Phases, TakesText, Sane' PROVE Phases'
<1>1. /\ TakeLine /\ mode = "data"
      /\ UNCHANGED <<area, link, output, call, out, put, msg, n, shows, seen>>
  BY DEF TakesText, client
<1>2. PICK k : LineTaken(k)
  BY <1>1, WireLine
<1>3. PICK c : c = Wire[k]
  OBVIOUS
<1>4. /\ c.verb = "\n" /\ c \in ItemSet /\ c.id \in Nat
      /\ c.id > 0 => Body = <<".">>
  BY <1>1, <1>2, <1>3, TextLine, SmtpAssumption DEF ItemSet
<1>5. /\ k \in 1 .. Len(Wire) /\ Wire' = SubSeq(Wire, k + 1, Len(Wire)) /\ Last(NextLine) = c
      /\ \A i \in 1 .. k - 1 : Wire[i].id = 0
  <2>1. k \in 1 .. k
    BY <1>2 DEF LineTaken
  <2> QED
    BY <1>2, <1>3, <2>1 DEF LineTaken, NextIs
<1>6. Wire \in Seq(ItemSet) /\ n \in Nat /\ call' = call
  BY <1>1, Known
<1>7. CASE Body = <<".">>
  <2>1. mode' = "cmd" /\ Says(c.id) /\ c.id > 0
    BY <1>5, <1>7 DEF TakesText, Sane
  <2>2. c.id # 0 /\ mode # "greet" /\ mode' # "greet"
    BY <1>1, <2>1
  <2>3. Replies' /\ OutputSeen' /\ ShowSeen'
    BY <1>1, <1>2, <1>3, <2>1, <2>2, Answers
  <2>4. Sent'
    BY <1>3, <1>4, <1>5, <1>6, <2>1, SentTaken DEF Phases
  <2> QED
    BY <2>3, <2>4 DEF Phases
<1>8. CASE Body # <<".">>
  <2>1. mode' = mode /\ flight' = flight
    BY <1>8 DEF TakesText
  <2>2. c.id = 0
    BY <1>4, <1>8
  <2>3. Sent'
    BY <1>3, <1>4, <1>5, <1>6, <2>2, SentTaken DEF Phases
  <2>4. Coming' = Coming
    BY <1>1, <2>1 DEF Coming
  <2>5. PICK p \in 0 .. n : Numbered(Wire, p, n) /\ StreamTo(Coming, seen, p)
    BY <1>1 DEF Phases, Replies
  <2>6. Numbered(Wire', p, n)
    <3>1. PICK w : w = Wire
      OBVIOUS
    <3>2. /\ w \in Seq(ItemSet) /\ p \in Nat /\ Numbered(w, p, n) /\ k \in 1 .. Len(w)
          /\ \A i \in 1 .. k - 1 : w[i].id = 0
      BY <1>5, <1>6, <2>5, <3>1
    <3>3. w[k].id = 0
      BY <1>3, <2>2, <3>1
    <3>4. Numbered(SubSeq(w, k + 1, Len(w)), p, n)
      BY <3>2, <3>3, NumberedRest
    <3> QED
      BY <1>5, <3>1, <3>4
  <2>7. Replies'
    BY <1>1, <2>1, <2>4, <2>5, <2>6 DEF Phases, Replies
  <2>8. OutputSeen' /\ ShowSeen'
    BY <1>1, <2>1, SeenSame DEF Phases
  <2> QED
    BY <2>3, <2>7, <2>8 DEF Phases
<1> QED
  BY <1>7, <1>8

\* What is over once stays over.
LEMMA OnceOver == ASSUME Base, Next PROVE (tidy' => tidy) /\ (Sane' => Sane)
<1>1. tidy \in BOOLEAN
  BY Known
<1>2. ASSUME NEW items, NEW op, NEW at, Sync(items, op, at) PROVE tidy' => tidy
  BY <1>2 DEF Sync, Throw
<1>3. CASE Calls
  <2>1. CASE Connects
    BY <2>1 DEF Connects, ghosts, Sane
  <2>2. CASE Helo
    BY <1>2, <2>2 DEF Helo, send_cmd, Sane, stream
  <2>3. CASE Command
    BY <1>2, <2>3 DEF Command, send_cmd, Sane, stream
  <2>4. CASE Data
    BY <1>2, <2>4 DEF Data, send_cmd, Sane, stream
  <2>5. CASE Show
    BY <2>5 DEF Show, Sane, stream
  <2> QED
    BY <1>3, <2>1, <2>2, <2>3, <2>4, <2>5 DEF Calls
<1>4. CASE SendBuf
  BY <1>4 DEF SendBuf, Sane, stream
<1>5. CASE Overflow
  BY <1>5 DEF Overflow, Throw, Sane, stream
<1>6. CASE EndText
  BY <1>2, <1>6 DEF EndText, Sane, stream
<1>7. CASE ResponseRefill
  BY <1>1, <1>7 DEF ResponseRefill, Refill, Sane
<1>8. CASE ResponseLine
  <2>1. link' = link /\ (Got \/ Sync(<<Item("other", n + 1)>>, "helo", "reply") \/ tidy' = tidy)
    BY <1>8 DEF ResponseLine
  <2> QED
    BY <1>2, <2>1 DEF Got, Sane
<1>9. CASE ShowLine
  BY <1>9 DEF ShowLine, Sane
<1>10. CASE ResponseEof
  BY <1>2, <1>10 DEF ResponseEof, Got, AtEof, stream, Sane
<1>11. CASE ResponseFails
  BY <1>11 DEF ResponseFails, Throw, Sane
<1>12. CASE Greets
  BY <1>12 DEF Greets, ghosts, Sane
<1>13. CASE TakesCommand
  <2>1. link = "open" /\ (tidy' = tidy \/ (tidy' => tidy))
    BY <1>1, <1>13 DEF TakesCommand, TakeLine
  <2> QED
    BY <2>1 DEF Sane
<1>14. CASE TakesText
  <2>1. link = "open" /\ (tidy' = tidy \/ (tidy' => tidy))
    BY <1>1, <1>14 DEF TakesText, TakeLine
  <2> QED
    BY <2>1 DEF Sane
<1>15. CASE Closes
  BY <1>15 DEF Closes, ghosts, Sane
<1> QED
  BY <1>3, <1>4, <1>5, <1>6, <1>7, <1>8, <1>9, <1>10, <1>11, <1>12, <1>13, <1>14, <1>15
  DEF Next, Proceeds, Receiver

\* The inductive invariant.
IInv == Base /\ (Sane => Phases)


\* Every step of a tidy client and its receiver keeps the phases.
LEMMA StepPhases == ASSUME Base, Sane, Phases, Next, Sane' PROVE Phases'
<1>1. \/ Calls \/ SendBuf \/ Overflow \/ EndText
      \/ ResponseRefill \/ ResponseLine \/ ShowLine \/ ResponseEof \/ ResponseFails
      \/ Greets \/ TakesCommand \/ TakesText \/ Closes
  BY DEF Next, Proceeds, Receiver
<1> QED
  BY <1>1, CallsPhases, TextPhases, RefillPhases, LinePhases, ShowPhases, EofPhases,
     GreetsPhases, TakesPhases, TextTakenPhases

\* Nothing is on its way, and nothing has been shown.
LEMMA InitIInv == Init => IInv
<1> SUFFICES ASSUME Init PROVE IInv
  OBVIOUS
<1>1. Base
  BY InitBase
<1>2. Wire = <<>> /\ Coming = <<>> /\ Len(<<>>) = 0
  BY EmptySeq, ConcatEmptySeq DEF Init, StreamInit, Wire, Coming
<1>3. Sent
  <2>1. WellFormed(<<>>)
    BY <1>2 DEF WellFormed, Linked
  <2> QED
    BY <1>2, <2>1 DEF Init, Sent, LastIs, ModeFits
<1>4. Replies
  <2>1. Numbered(<<>>, 0, 0)
    <3>1. <<>> \in Seq(ItemSet) /\ \A i \in 1 .. Len(<<>>) : <<>>[i].id = 0
      BY <1>2, EmptySeq
    <3>2. PICK z : z = 0
      OBVIOUS
    <3> QED
      BY <3>1, <3>2, NumberedText
  <2>2. Linked(<<>>, Order)
    BY <1>2 DEF Linked
  <2> QED
    BY <1>2, <2>1, <2>2 DEF Init, Replies
<1>5. OutputSeen /\ ShowSeen
  BY <1>2 DEF Init, StreamInit, OutputSeen, ShowSeen, Idle
<1> QED
  BY <1>1, <1>3, <1>4, <1>5 DEF IInv, Phases

\* The invariant is inductive.
LEMMA StepIInv == ASSUME IInv, [Next]_vars PROVE IInv'
<1>1. Base'
  BY StepBase DEF IInv
<1>2. ASSUME Sane' PROVE Phases'
  <2>1. CASE Next
    <3>1. Sane
      BY <1>2, <2>1, OnceOver DEF IInv
    <3> QED
      BY <1>2, <2>1, <3>1, StepPhases DEF IInv
  <2>2. CASE UNCHANGED vars
    <3>1. Wire' = Wire /\ Coming' = Coming
      BY <2>2 DEF vars, Wire, Coming
    <3>2. Sane /\ UNCHANGED <<area, output, call, out, mode, n, shows, seen>>
      BY <1>2, <2>2 DEF vars, Sane
    <3>3. Sent' /\ Replies'
      BY <3>1, <3>2 DEF IInv, Phases, Sent, Replies
    <3>4. OutputSeen' /\ ShowSeen'
      BY <3>1, <3>2 DEF IInv, Phases, OutputSeen, ShowSeen
    <3> QED
      BY <3>3, <3>4 DEF Phases
  <2> QED
    BY <2>1, <2>2
<1> QED
  BY <1>1, <1>2 DEF IInv

\* What the phases say of the replies that are shown.
LEMMA IInvInStep == IInv => InStep
<1> SUFFICES ASSUME IInv, tidy, link = "open"
             PROVE  /\ output /\ out = "returned" => seen = n /\ area = <<>> /\ flight = <<>>
                    /\ out = "shown" => /\ seen = shows - 1
                                        /\ area = <<>> \/ (Head(area).at = 1 /\ Head(area).line.kind # "last")
  BY DEF InStep
<1>1. Base /\ Phases /\ CallBase
  BY Known DEF IInv, Sane
<1>2. /\ area \in Seq(CharSet) /\ flight \in Seq(CharSet) /\ n \in Nat /\ seen \in Int
      /\ Coming \in Seq(CharSet)
  BY <1>1, Known
<1>3. /\ area # <<>> => Coming # <<>> /\ Coming[1] = area[1] /\ Head(area) = area[1]
      /\ Coming = <<>> => area = <<>> /\ flight = <<>>
  <2>1. area # <<>> => Coming # <<>> /\ Coming[1] = area[1] /\ Head(area) = area[1]
    BY <1>2, JoinParts, EmptySeq DEF Coming
  <2>2. area = <<>> => Coming = flight
    BY <1>2, ConcatEmptySeq DEF Coming
  <2> QED
    BY <2>1, <2>2
<1>4. out # "none" => call = Idle /\ call.op = "none" /\ call.at = "no"
  BY <1>1 DEF CallBase, Calling, Idle
<1>5. ASSUME output, out = "returned" PROVE seen = n /\ area = <<>> /\ flight = <<>>
  <2>1. n > 0 /\ call.at = "no"
    BY <1>1, <1>2, <1>4, <1>5 DEF Phases, OutputSeen
  <2>2. seen = n
    BY <1>1, <1>5, <2>1 DEF Phases, OutputSeen
  <2>3. Coming = <<>>
    <3> SUFFICES ASSUME Coming # <<>> PROVE FALSE
      OBVIOUS
    <3>1. mode # "greet"
      BY <1>1 DEF Phases, Replies
    <3>2. PICK p \in 0 .. n : StreamTo(Coming, seen, p)
      BY <1>1, <3>1 DEF Phases, Replies
    <3>3. PICK w : w = Coming
      OBVIOUS
    <3>4. w[1].line.id = n + 1 /\ LineNumbers(w, p)
      BY <2>2, <3>2, <3>3 DEF StreamTo
    <3>5. 1 \in 1 .. Len(w)
      <4>1. Len(w) \in Nat /\ Len(w) # 0
        BY <1>2, <3>3, EmptySeq, LenProperties
      <4> QED
        BY <4>1
    <3>6. n + 1 <= p
      BY <3>4, <3>5 DEF LineNumbers
    <3> QED
      BY <1>2, <3>6
  <2> QED
    BY <1>3, <2>2, <2>3
<1>6. ASSUME out = "shown"
      PROVE  /\ seen = shows - 1
             /\ area = <<>> \/ (Head(area).at = 1 /\ Head(area).line.kind # "last")
  <2>1. ~output
    BY <1>1, <1>6 DEF Phases, OutputSeen
  <2>2. call.op # "show"
    BY <1>4, <1>6
  <2> QED
    BY <1>1, <1>3, <2>1, <2>2 DEF Phases, ShowSeen
<1> QED
  BY <1>5, <1>6

\* The invariant holds always.
LEMMA Always == Spec => []IInv
<1>1. Init => IInv
  BY InitIInv
<1>2. IInv /\ [Next]_vars => IInv'
  BY StepIInv
<1> QED
  BY <1>1, <1>2, PTL DEF Spec

\* Type correctness (smtp.cpp:20-45): what the calls of smtpbuf leave in the get
\* area and on the connection is what they can deal with; with output, the get
\* area begins with the beginning of a line, so that q[3] is a separator
\* whatever reads the lines came in.
THEOREM Typed == Spec => []TypeOK
<1>1. IInv => TypeOK
  BY BaseTypes DEF IInv
<1> QED
  BY <1>1, Always, PTL

\* The reply shown last is the one to the command sent last, or to the end of
\* the text (smtp.cpp:20-59, 162-186), and nothing of it is left for the next
\* one: with output by get_response, without it by operator <<, for a tidy
\* client whose receiver has not closed.
THEOREM RepliesInStep == Spec => []InStep
<1>1. IInv => InStep
  BY IInvInStep
<1> QED
  BY <1>1, Always, PTL

------------------------------------------------------------------------------
(* The text of a message on its way: what the receiver makes of it.        *)

\* A dot that the receiver takes off.
Skip(w, i) == w[i].verb = "." /\ (i = 1 \/ w[i - 1].verb = "\n")

\* The first m items of w spell t from behind its char b up to e: h[i] is how
\* many chars there are with the first i items.  No line is just a dot.
Spelt(w, m, t, b, e) ==
  \E h \in [0 .. m -> Nat] :
    /\ h[0] = b /\ h[m] = e
    /\ \A i \in 1 .. m :
         /\ w[i].id = 0 /\ w[i].verb \in Glyphs
         /\ IF Skip(w, i) THEN h[i] = h[i - 1]
            ELSE h[i] = h[i - 1] + 1 /\ h[i] <= Len(t) /\ t[h[i]] = w[i].verb
         /\ i > 1 /\ Skip(w, i - 1) => w[i].verb # "\n"

\* What data () knows of the end of the chunk sent last.
SeamFits(w, s) ==
  /\ s.dot <=> Len(w) > 0 /\ Skip(w, Len(w))
  /\ ~s.dot /\ Len(w) > 0 => s.ch = w[Len(w)].verb

\* The end of the text behind m items.
Ended(w, m) ==
  /\ w[m + 1] = Item(".", 0) /\ Final(w[m + 2])
  /\ m > 0 => w[m].verb = "\n"

Begins(got, t) == Len(got) <= Len(t) /\ \A i \in 1 .. Len(got) : got[i] = t[i]

\* With the receiver having got so much, w has the rest of the message: as far
\* as it has been sent, or, when it is over, with its end.
Carried(w, got, ms, o) ==
  IF o
  THEN /\ Begins(got, ms.text) /\ SeamFits(w, ms.seam)
       /\ Spelt(w, Len(w), ms.text, Len(got), Len(ms.text))
  ELSE \E m \in 0 .. Len(w) - 2 :
         /\ Ended(w, m) /\ Begins(got, Append(ms.text, "\n"))
         /\ Spelt(w, m, Append(ms.text, "\n"), Len(got), Len(ms.text) + 1)

\* In text x or behind its DATA in w: the message.
Delivered(w, x, ms, o) ==
  ~ms.spoilt /\ ms.id > 0 =>
    /\ x.id = ms.id => Carried(w, x.lines, ms, o)
    /\ \A d \in 1 .. Len(w) :
         w[d] = Item("DATA", ms.id) => Carried(SubSeq(w, d + 1, Len(w)), <<>>, ms, o)

InText == call.at \in {"DATA", "text"}
Mailed ==
  tidy /\ ~msg.spoilt /\ msg.id > 0 /\ mail.id = msg.id =>
    ~InText /\ mail.lines = Append(msg.text, "\n")
Delivery == Mailed /\ (Sane => Delivered(Wire, text, msg, InText))

\* What is spelt depends on these items and chars only.
LEMMA SpeltSame ==
  ASSUME NEW w, NEW u, NEW m \in Nat, NEW t, NEW q, NEW b, NEW e,
         Spelt(w, m, t, b, e), \A i \in 1 .. m : u[i] = w[i],
         Len(t) \in Nat, Len(q) \in Nat, Len(t) <= Len(q), \A i \in 1 .. Len(t) : q[i] = t[i]
  PROVE  Spelt(u, m, q, b, e)
<1>1. PICK h \in [0 .. m -> Nat] :
        /\ h[0] = b /\ h[m] = e
        /\ \A i \in 1 .. m :
             /\ w[i].id = 0 /\ w[i].verb \in Glyphs
             /\ IF Skip(w, i) THEN h[i] = h[i - 1]
                ELSE h[i] = h[i - 1] + 1 /\ h[i] <= Len(t) /\ t[h[i]] = w[i].verb
             /\ i > 1 /\ Skip(w, i - 1) => w[i].verb # "\n"
  BY DEF Spelt
<1>2. ASSUME NEW i \in 1 .. m PROVE Skip(u, i) <=> Skip(w, i)
  <2>1. u[i] = w[i]
    OBVIOUS
  <2>2. i # 1 => u[i - 1] = w[i - 1]
    <3> SUFFICES ASSUME i # 1 PROVE u[i - 1] = w[i - 1]
      OBVIOUS
    <3>1. i - 1 \in 1 .. m
      OBVIOUS
    <3> QED
      BY <3>1
  <2> QED
    BY <2>1, <2>2 DEF Skip
<1>3. ASSUME NEW i \in 1 .. m
      PROVE  /\ u[i].id = 0 /\ u[i].verb \in Glyphs
             /\ IF Skip(u, i) THEN h[i] = h[i - 1]
                ELSE h[i] = h[i - 1] + 1 /\ h[i] <= Len(q) /\ q[h[i]] = u[i].verb
             /\ i > 1 /\ Skip(u, i - 1) => u[i].verb # "\n"
  <2>1. u[i] = w[i] /\ (Skip(u, i) <=> Skip(w, i))
    BY <1>2
  <2>2. PICK x, y : x = h[i] /\ y = h[i - 1]
    OBVIOUS
  <2>3. x \in Nat /\ y \in Nat
    <3>1. i \in 0 .. m /\ i - 1 \in 0 .. m
      OBVIOUS
    <3> QED
      BY <2>2, <3>1
  <2>4. ASSUME ~Skip(w, i) PROVE x = y + 1 /\ x <= Len(q) /\ q[x] = u[i].verb
    <3>1. x = y + 1 /\ x <= Len(t) /\ t[x] = w[i].verb
      BY <1>1, <2>2, <2>4
    <3>2. x \in 1 .. Len(t) /\ x <= Len(q)
      BY <2>3, <3>1
    <3> QED
      BY <2>1, <3>1, <3>2
  <2>5. i > 1 /\ Skip(u, i - 1) => u[i].verb # "\n"
    <3> SUFFICES ASSUME i > 1, Skip(u, i - 1) PROVE u[i].verb # "\n"
      OBVIOUS
    <3>1. i - 1 \in 1 .. m
      OBVIOUS
    <3>2. Skip(w, i - 1)
      BY <1>2, <3>1
    <3> QED
      BY <1>1, <2>1, <3>2
  <2> QED
    BY <1>1, <2>1, <2>2, <2>4, <2>5
<1> QED
  BY <1>1, <1>3 DEF Spelt

\* One item more: a dot that is taken off, or the next char.
LEMMA SpeltOne ==
  ASSUME NEW w, NEW m \in Nat, NEW t, NEW b, NEW e, Spelt(w, m, t, b, e),
         w[m + 1].id = 0, w[m + 1].verb \in Glyphs,
         m > 0 /\ Skip(w, m) => w[m + 1].verb # "\n"
  PROVE  /\ e \in Nat
         /\ Skip(w, m + 1) => Spelt(w, m + 1, t, b, e)
         /\ ~Skip(w, m + 1) /\ e + 1 <= Len(t) /\ t[e + 1] = w[m + 1].verb
              => Spelt(w, m + 1, t, b, e + 1)
<1>1. PICK h \in [0 .. m -> Nat] :
        /\ h[0] = b /\ h[m] = e
        /\ \A i \in 1 .. m :
             /\ w[i].id = 0 /\ w[i].verb \in Glyphs
             /\ IF Skip(w, i) THEN h[i] = h[i - 1]
                ELSE h[i] = h[i - 1] + 1 /\ h[i] <= Len(t) /\ t[h[i]] = w[i].verb
             /\ i > 1 /\ Skip(w, i - 1) => w[i].verb # "\n"
  BY DEF Spelt
<1>2. e \in Nat
  BY <1>1
<1>3. PICK x : x = m + 1
  OBVIOUS
<1>4. ASSUME NEW z \in Nat,
             \/ Skip(w, x) /\ z = e
             \/ ~Skip(w, x) /\ z = e + 1 /\ z <= Len(t) /\ t[z] = w[x].verb
      PROVE  Spelt(w, x, t, b, z)
  <2>1. PICK g : g = [i \in 0 .. x |-> IF i = x THEN z ELSE h[i]]
    OBVIOUS
  <2>2. g \in [0 .. x -> Nat]
    <3>1. \A i \in 0 .. x : i # x => i \in 0 .. m
      BY <1>3
    <3> QED
      BY <1>4, <2>1, <3>1
  <2>3. g[x] = z /\ \A i \in 0 .. m : g[i] = h[i]
    BY <1>3, <2>1
  <2>4. g[0] = b
    BY <1>1, <2>3
  <2>5. ASSUME NEW i \in 1 .. x
        PROVE  /\ w[i].id = 0 /\ w[i].verb \in Glyphs
               /\ IF Skip(w, i) THEN g[i] = g[i - 1]
                  ELSE g[i] = g[i - 1] + 1 /\ g[i] <= Len(t) /\ t[g[i]] = w[i].verb
               /\ i > 1 /\ Skip(w, i - 1) => w[i].verb # "\n"
    <3>1. CASE i = x
      <4>1. i - 1 = m /\ m \in 0 .. m
        BY <1>3, <3>1
      <4>2. g[i] = z /\ g[i - 1] = e
        BY <1>1, <2>3, <3>1, <4>1
      <4>3. i > 1 /\ Skip(w, i - 1) => w[i].verb # "\n"
        BY <1>3, <3>1, <4>1
      <4> QED
        BY <1>3, <1>4, <3>1, <4>2, <4>3
    <3>2. CASE i # x
      <4>1. i \in 1 .. m /\ i \in 0 .. m /\ i - 1 \in 0 .. m
        BY <1>3, <3>2
      <4>2. g[i] = h[i] /\ g[i - 1] = h[i - 1]
        BY <2>3, <4>1
      <4> QED
        BY <1>1, <4>1, <4>2
    <3> QED
      BY <3>1, <3>2
  <2> QED
    BY <2>2, <2>3, <2>4, <2>5 DEF Spelt
<1> QED
  BY <1>2, <1>3, <1>4

\* The first line of w, its end of line included, has k items; a dot at its
\* beginning is taken off, and then it spells line.
Opening(w, k, s) ==
  /\ w[k].verb = "\n" /\ \A i \in 1 .. k - 1 : w[i].verb # "\n"
  /\ s = IF w[1].verb = "." THEN 1 ELSE 0
CharsOf(line, w, k, s) ==
  Len(line) = k - 1 - s /\ \A i \in 1 .. Len(line) : line[i] = w[i + s].verb

\* When the first line is taken: the chars it spells, and the rest.
LEMMA SpeltRest ==
  ASSUME NEW w \in Seq(ItemSet), NEW m \in 0 .. Len(w), NEW t, NEW b \in Nat, NEW e, Spelt(w, m, t, b, e),
         NEW k \in 1 .. m, NEW s, Opening(w, k, s), Len(t) \in Nat
  PROVE  /\ s < k /\ b + (k - s) <= Len(t)
         /\ \A i \in 1 .. k - s : t[b + i] = w[i + s].verb
         /\ Spelt(SubSeq(w, k + 1, Len(w)), m - k, t, b + (k - s), e)
<1> USE DEF Opening
<1>1. PICK h \in [0 .. m -> Nat] :
        /\ h[0] = b /\ h[m] = e
        /\ \A i \in 1 .. m :
             /\ w[i].id = 0 /\ w[i].verb \in Glyphs
             /\ IF Skip(w, i) THEN h[i] = h[i - 1]
                ELSE h[i] = h[i - 1] + 1 /\ h[i] <= Len(t) /\ t[h[i]] = w[i].verb
             /\ i > 1 /\ Skip(w, i - 1) => w[i].verb # "\n"
  BY DEF Spelt
<1>2. PICK x, u : x = Len(w) /\ u = SubSeq(w, k + 1, x)
  OBVIOUS
<1>3. x \in Nat /\ m \in Nat /\ k \in Nat /\ k >= 1 /\ k <= m /\ m <= x /\ k <= x
  BY <1>2, LenProperties
<1>4. u \in Seq(ItemSet) /\ Len(u) = x - k /\ \A i \in 1 .. x - k : u[i] = w[k + i]
  BY ONLY <1>2, <1>3, w \in Seq(ItemSet), Slice
<1>5. s \in 0 .. 1 /\ s < k
  <2>1. k = 1 => s = 0
    OBVIOUS
  <2> QED
    BY <1>3, <2>1
<1>6. ASSUME NEW i \in 2 .. k PROVE ~Skip(w, i)
  <2>1. i - 1 \in 1 .. k - 1 /\ i # 1
    BY <1>3
  <2>2. w[i - 1].verb # "\n"
    BY <2>1
  <2> QED
    BY <2>1, <2>2 DEF Skip
<1>7. \A i \in 1 .. k : h[i] = b + (i - s)
  <2> DEFINE T == {i \in 1 .. k : h[i] = b + (i - s)}
  <2>1. 1 \in T
    <3>1. 1 \in 1 .. m /\ 1 \in 1 .. k
      BY <1>3
    <3>2. IF Skip(w, 1) THEN h[1] = h[0] ELSE h[1] = h[0] + 1
      BY <1>1, <3>1
    <3>3. Skip(w, 1) <=> s = 1
      BY DEF Skip
    <3>4. h[1] = b + (1 - s)
      BY <1>1, <1>5, <3>2, <3>3
    <3> QED
      BY <3>1, <3>4
  <2>2. ASSUME NEW i \in 1 .. k - 1, i \in T PROVE i + 1 \in T
    <3>1. i + 1 \in 2 .. k /\ i + 1 \in 1 .. m /\ i + 1 \in 1 .. k /\ (i + 1) - 1 = i /\ i \in Int
      BY <1>3
    <3>2. PICK j : j = i + 1
      OBVIOUS
    <3>3. ~Skip(w, j) /\ j \in 1 .. m /\ j - 1 = i
      BY <1>6, <3>1, <3>2
    <3>4. h[j] = h[j - 1] + 1
      BY <1>1, <3>3
    <3>5. h[i] = b + (i - s)
      BY <2>2
    <3>6. h[i + 1] = b + ((i + 1) - s)
      <4>1. h[i + 1] = h[i] + 1
        BY <3>2, <3>3, <3>4
      <4>2. (b + (i - s)) + 1 = b + ((i + 1) - s)
        BY <1>5, <3>1
      <4> QED
        BY <3>5, <4>1, <4>2
    <3> QED
      BY <3>1, <3>6
  <2>3. \A i \in 1 .. k : i \in T
    <3> HIDE DEF T
    <3>1. 1 \in Nat /\ k \in Nat
      BY <1>3
    <3> QED
      BY <2>1, <2>2, <3>1, Climb
  <2> QED
    BY <2>3
<1>8. ASSUME NEW i \in 1 .. k, i > s PROVE t[b + (i - s)] = w[i].verb /\ b + (i - s) <= Len(t)
  <2>1. i \in 1 .. m
    BY <1>3
  <2>2. ~Skip(w, i)
    <3>1. CASE i = 1
      <4>1. s = 0
        BY <1>5, <1>8, <3>1
      <4> QED
        BY <3>1, <4>1 DEF Skip
    <3>2. CASE i # 1
      <4>1. i \in 2 .. k
        BY <3>2
      <4> QED
        BY <1>6, <4>1
    <3> QED
      BY <3>1, <3>2
  <2>3. h[i] <= Len(t) /\ t[h[i]] = w[i].verb
    BY <1>1, <2>1, <2>2
  <2>4. h[i] = b + (i - s)
    BY <1>7
  <2> QED
    BY <2>3, <2>4
<1>9. b + (k - s) <= Len(t)
  <2>1. k \in 1 .. k /\ k > s
    BY <1>3, <1>5
  <2> QED
    BY <1>8, <2>1
<1>10. \A i \in 1 .. k - s : t[b + i] = w[i + s].verb
  <2> TAKE i \in 1 .. k - s
  <2>1. PICK j : j = i + s
    OBVIOUS
  <2>2. j \in 1 .. k /\ j > s /\ j - s = i
    BY <1>3, <1>5, <2>1
  <2> QED
    BY <1>8, <2>1, <2>2
<1>11. Spelt(u, m - k, t, b + (k - s), e)
  <2>1. PICK z, g : z = m - k /\ g = [i \in 0 .. z |-> h[k + i]]
    OBVIOUS
  <2>2. z \in Nat /\ \A i \in 0 .. z : k + i \in 0 .. m
    BY <1>3, <2>1
  <2>3. g \in [0 .. z -> Nat] /\ \A i \in 0 .. z : g[i] = h[k + i]
    BY <2>1, <2>2
  <2>4. g[0] = b + (k - s) /\ g[z] = e
    <3>1. 0 \in 0 .. z /\ z \in 0 .. z /\ k + 0 = k /\ k + z = m /\ k \in 1 .. k
      BY <1>3, <2>1, <2>2
    <3> QED
      BY <1>1, <1>7, <2>3, <3>1
  <2>5. ASSUME NEW i \in 1 .. z PROVE Skip(u, i) <=> Skip(w, k + i)
    <3>1. i \in 1 .. x - k /\ k + i # 1
      BY <1>3, <2>1
    <3>2. u[i] = w[k + i]
      BY <1>4, <3>1
    <3>3. CASE i = 1
      <4>1. (k + i) - 1 = k
        BY <1>3, <3>3
      <4> QED
        BY <3>1, <3>2, <3>3, <4>1 DEF Skip
    <3>4. CASE i # 1
      <4>1. i - 1 \in 1 .. x - k /\ k + (i - 1) = (k + i) - 1
        BY <1>3, <3>1, <3>4
      <4>2. u[i - 1] = w[(k + i) - 1]
        BY <1>4, <4>1
      <4> QED
        BY <3>1, <3>2, <3>4, <4>2 DEF Skip
    <3> QED
      BY <3>3, <3>4
  <2>6. ASSUME NEW i \in 1 .. z
        PROVE  /\ u[i].id = 0 /\ u[i].verb \in Glyphs
               /\ IF Skip(u, i) THEN g[i] = g[i - 1]
                  ELSE g[i] = g[i - 1] + 1 /\ g[i] <= Len(t) /\ t[g[i]] = u[i].verb
               /\ i > 1 /\ Skip(u, i - 1) => u[i].verb # "\n"
    <3>1. PICK j : j = k + i
      OBVIOUS
    <3>2. j \in 1 .. m /\ j - 1 = k + (i - 1) /\ i - 1 \in 0 .. z /\ i \in 0 .. z /\ i \in 1 .. x - k /\ j > 1
      BY <1>3, <2>1, <3>1
    <3>3. u[i] = w[j] /\ g[i] = h[j] /\ g[i - 1] = h[j - 1] /\ (Skip(u, i) <=> Skip(w, j))
      BY <1>4, <2>3, <2>5, <3>1, <3>2
    <3>4. i > 1 => (Skip(u, i - 1) <=> Skip(w, j - 1))
      <4> SUFFICES ASSUME i > 1 PROVE Skip(u, i - 1) <=> Skip(w, j - 1)
        OBVIOUS
      <4>1. i - 1 \in 1 .. z
        BY <2>2
      <4> QED
        BY <2>5, <3>2, <4>1
    <3> QED
      BY <1>1, <3>2, <3>3, <3>4
  <2>7. PICK c : c = b + (k - s)
    OBVIOUS
  <2>8. g[0] = c
    BY <2>4, <2>7
  <2>9. Spelt(u, z, t, c, e)
    BY <2>3, <2>4, <2>6, <2>8 DEF Spelt
  <2> QED
    BY <2>1, <2>7, <2>9
<1> QED
  BY <1>2, <1>5, <1>9, <1>10, <1>11

\* A chunk more: unless its beginning is in a place that Spoils names.
LEMMA SpeltChunk ==
  ASSUME NEW w \in Seq(ItemSet), NEW chunk \in Seq(Glyphs), NEW l \in Nat \ {0}, l = Len(chunk),
         NEW c \in Seq(Glyphs), NEW behind, NEW g \in [1 .. l -> Nat], CharsAt(g, c, chunk, behind),
         NEW t \in Seq(Glyphs), NEW b, Spelt(w, Len(w), t, b, Len(t)), NEW s, SeamFits(w, s),
         s.ch \in {"none", "\n"} \/ chunk[1] # ".", ~s.dot \/ chunk[1] \notin {".", "\n"}
  PROVE  LET v == w \o Items(c) IN
         /\ Spelt(v, Len(v), t \o chunk, b, Len(t \o chunk))
         /\ SeamFits(v, [ch |-> chunk[l], dot |-> chunk[l] = "\n" /\ behind = "."])
<1>1. PICK v, x, q, y, z : /\ v = w \o Items(c) /\ x = Len(w) /\ q = t \o chunk
                           /\ y = Len(t) /\ z = Len(c)
  OBVIOUS
<1>2. /\ v \in Seq(ItemSet) /\ Len(v) = x + z /\ x \in Nat /\ z \in Nat
      /\ \A i \in 1 .. x : v[i] = w[i]
      /\ \A i \in 1 .. z : v[x + i].verb = c[i] /\ v[x + i].id = 0 /\ c[i] \in Glyphs
  <2>1. PICK r : r = Items(c)
    OBVIOUS
  <2>2. r \in Seq(ItemSet) /\ Len(r) = z /\ \A i \in 1 .. z : r[i] = Item(c[i], 0)
    <3>1. 0 \in Nat
      OBVIOUS
    <3> QED
      BY <1>1, <2>1, <3>1, ItemsAre
  <2>3. /\ v \in Seq(ItemSet) /\ Len(v) = x + z /\ x \in Nat /\ z \in Nat
        /\ \A i \in 1 .. x : v[i] = w[i]
        /\ \A i \in 1 .. z : v[x + i] = r[i]
    <3>1. v = w \o r /\ x = Len(w) /\ z = Len(r)
      BY <1>1, <2>1, <2>2
    <3>2. r \in Seq(ItemSet)
      BY <2>2
    <3>3. /\ v \in Seq(ItemSet) /\ Len(v) = Len(w) + Len(r) /\ Len(w) \in Nat /\ Len(r) \in Nat
          /\ \A i \in 1 .. Len(w) : v[i] = w[i]
          /\ \A i \in 1 .. Len(r) : v[Len(w) + i] = r[i]
      BY <3>1, <3>2, JoinParts
    <3> QED
      BY <3>1, <3>3
  <2>4. \A i \in 1 .. z : c[i] \in Glyphs
    BY <1>1, ElementOfSeq
  <2>5. ASSUME NEW i \in 1 .. z PROVE v[x + i].verb = c[i] /\ v[x + i].id = 0
    <3>1. PICK a, k : a = v[x + i] /\ k = c[i]
      OBVIOUS
    <3>2. a = Item(k, 0)
      BY <2>2, <2>3, <3>1
    <3>3. a.verb = k /\ a.id = 0
      BY <3>2 DEF Item
    <3> QED
      BY <3>1, <3>3
  <2> QED
    BY <2>3, <2>4, <2>5
<1>3. /\ q \in Seq(Glyphs) /\ Len(q) = y + l /\ y \in Nat
      /\ \A i \in 1 .. y : q[i] = t[i]
      /\ \A i \in 1 .. l : q[y + i] = chunk[i]
  BY <1>1, JoinParts
<1>4. /\ g[1] = IF chunk[1] = "." THEN 2 ELSE 1
      /\ chunk[1] = "." => c[1] = "."
      /\ \A i \in 1 .. l : g[i] \in 1 .. z /\ c[g[i]] = chunk[i]
      /\ \A i \in 2 .. l :
           IF chunk[i - 1] = "\n" /\ chunk[i] = "."
           THEN g[i] = g[i - 1] + 2 /\ c[g[i] - 1] = "."
           ELSE g[i] = g[i - 1] + 1
      /\ IF chunk[l] = "\n" /\ behind = "."
         THEN z = g[l] + 1 /\ c[z] = "."
         ELSE z = g[l]
  BY <1>1 DEF CharsAt
<1>5. ASSUME NEW i \in 1 .. z, NEW e, Spelt(v, x + (i - 1), q, b, e),
             x + (i - 1) > 0 /\ Skip(v, x + (i - 1)) => c[i] # "\n"
      PROVE  /\ e \in Nat
             /\ Skip(v, x + i) => Spelt(v, x + i, q, b, e)
             /\ ~Skip(v, x + i) /\ e + 1 <= Len(q) /\ q[e + 1] = c[i]
                  => Spelt(v, x + i, q, b, e + 1)
  <2>1. PICK m : m = x + (i - 1)
    OBVIOUS
  <2>2. m \in Nat /\ m + 1 = x + i
    BY <1>2, <2>1
  <2>3. v[m + 1].id = 0 /\ v[m + 1].verb = c[i] /\ c[i] \in Glyphs
    BY <1>2, <2>2
  <2>4. Spelt(v, m, q, b, e) /\ (m > 0 /\ Skip(v, m) => v[m + 1].verb # "\n")
    BY <1>5, <2>1, <2>3
  <2>5. /\ e \in Nat
        /\ Skip(v, m + 1) => Spelt(v, m + 1, q, b, e)
        /\ ~Skip(v, m + 1) /\ e + 1 <= Len(q) /\ q[e + 1] = v[m + 1].verb
             => Spelt(v, m + 1, q, b, e + 1)
    BY <2>2, <2>3, <2>4, SpeltOne
  <2> QED
    BY <2>2, <2>3, <2>5
<1>6. ASSUME NEW i \in 2 .. z PROVE Skip(v, x + i) <=> c[i] = "." /\ c[i - 1] = "\n"
  <2>1. i \in 1 .. z /\ i - 1 \in 1 .. z /\ x + i # 1 /\ (x + i) - 1 = x + (i - 1)
    BY <1>2
  <2>2. v[x + i].verb = c[i] /\ v[(x + i) - 1].verb = c[i - 1]
    BY <1>2, <2>1
  <2> QED
    BY <2>1, <2>2 DEF Skip
<1>7. x > 0 => w[x].verb \in Glyphs /\ v[x] = w[x]
  <2>1. \A i \in 1 .. x : w[i].verb \in Glyphs
    BY <1>1 DEF Spelt
  <2> QED
    BY <1>2, <2>1
<1>8. x > 0 => (Skip(v, x) <=> Skip(w, x))
  <2> SUFFICES ASSUME x > 0 PROVE Skip(v, x) <=> Skip(w, x)
    OBVIOUS
  <2>1. v[x] = w[x] /\ (x # 1 => v[x - 1] = w[x - 1])
    <3>1. x # 1 => x - 1 \in 1 .. x
      BY <1>2
    <3> QED
      BY <1>2, <1>7, <3>1
  <2> QED
    BY <2>1 DEF Skip
<1>9. Spelt(v, x, q, b, y)
  <2>1. Spelt(w, x, t, b, y)
    BY <1>1
  <2>2. Len(t) \in Nat /\ Len(q) \in Nat /\ Len(t) <= Len(q) /\ \A i \in 1 .. Len(t) : q[i] = t[i]
    BY <1>1, <1>3
  <2> QED
    BY <1>2, <2>1, <2>2, SpeltSame
<1>10. g[1] \in 1 .. z /\ Spelt(v, x + g[1], q, b, y + 1) /\ ~Skip(v, x + g[1])
  <2>1. 1 \in 1 .. l /\ g[1] \in 1 .. z /\ q[y + 1] = chunk[1] /\ c[g[1]] = chunk[1] /\ y + 1 <= Len(q)
    <3>1. 1 \in 1 .. l
      OBVIOUS
    <3>2. g[1] \in 1 .. z /\ c[g[1]] = chunk[1]
      BY <1>4, <3>1
    <3>3. q[y + 1] = chunk[1]
      BY <1>3, <3>1
    <3>4. y + 1 <= Len(q)
      BY <1>3
    <3> QED
      BY <3>1, <3>2, <3>3, <3>4
  <2>2. 1 \in 1 .. z /\ x + (1 - 1) = x /\ Spelt(v, x + (1 - 1), q, b, y)
    BY <1>2, <1>9, <2>1
  <2>3. x + (1 - 1) > 0 /\ Skip(v, x + (1 - 1)) => c[1] # "\n"
    <3> SUFFICES ASSUME x > 0, Skip(v, x) PROVE c[1] # "\n"
      BY <2>2
    <3>1. s.dot
      BY <1>1, <1>8 DEF SeamFits
    <3>2. chunk[1] \notin {".", "\n"}
      BY <3>1
    <3> QED
      BY <1>4, <2>1, <3>2
  <2>4. CASE chunk[1] = "."
    <3>1. g[1] = 2 /\ c[1] = "." /\ c[2] = "." /\ 2 \in 1 .. z
      BY <1>4, <2>1, <2>4
    <3>2. Skip(v, x + 1)
      <4>1. ~s.dot /\ s.ch \in {"none", "\n"}
        BY <2>4
      <4>2. x > 0 => w[x].verb = "\n"
        <5> SUFFICES ASSUME x > 0 PROVE w[x].verb = "\n"
          OBVIOUS
        <5>1. s.ch = w[x].verb /\ w[x].verb \in Glyphs
          BY <1>1, <1>7, <4>1 DEF SeamFits
        <5> QED
          BY <4>1, <5>1 DEF Glyphs
      <4>3. x + 1 = 1 \/ v[(x + 1) - 1].verb = "\n"
        <5>1. CASE x = 0
          BY <5>1
        <5>2. CASE x > 0
          <6>1. (x + 1) - 1 = x
            BY <1>2
          <6> QED
            BY <1>7, <4>2, <5>2, <6>1
        <5> QED
          BY <1>2, <5>1, <5>2
      <4>4. v[x + 1].verb = "."
        BY <1>2, <2>2, <3>1
      <4> QED
        BY <4>3, <4>4 DEF Skip
    <3>3. Spelt(v, x + 1, q, b, y)
      BY <1>5, <2>2, <2>3, <3>2
    <3>4. x + (2 - 1) = x + 1
      BY <1>2
    <3>5. ~Skip(v, x + 2)
      <4>1. 2 \in 2 .. z /\ 2 - 1 = 1
        BY <3>1
      <4>2. Skip(v, x + 2) <=> c[2] = "." /\ c[2 - 1] = "\n"
        BY <1>6, <4>1
      <4> QED
        BY <3>1, <4>1, <4>2
    <3>6. Spelt(v, x + (2 - 1), q, b, y) /\ c[2] # "\n"
      BY <3>1, <3>3, <3>4
    <3>7. Spelt(v, x + 2, q, b, y + 1)
      BY <1>5, <2>1, <2>4, <3>1, <3>5, <3>6
    <3> QED
      BY <2>1, <3>1, <3>5, <3>7
  <2>5. CASE chunk[1] # "."
    <3>1. g[1] = 1 /\ c[1] = chunk[1]
      BY <1>4, <2>1, <2>5
    <3>2. ~Skip(v, x + 1)
      <4>1. v[x + 1].verb = c[1]
        BY <1>2, <2>2
      <4> QED
        BY <2>5, <3>1, <4>1 DEF Skip
    <3>3. Spelt(v, x + 1, q, b, y + 1)
      BY <1>5, <2>1, <2>2, <2>3, <3>1, <3>2
    <3> QED
      BY <2>1, <3>1, <3>2, <3>3
  <2> QED
    BY <2>4, <2>5
<1>11. ASSUME NEW j \in 1 .. l - 1, Spelt(v, x + g[j], q, b, y + j), ~Skip(v, x + g[j])
       PROVE  Spelt(v, x + g[j + 1], q, b, y + (j + 1)) /\ ~Skip(v, x + g[j + 1])
  <2>1. PICK k, i, n1 : k = j + 1 /\ i = g[j] /\ n1 = g[k]
    OBVIOUS
  <2>2. /\ k \in 2 .. l /\ k \in 1 .. l /\ j \in 1 .. l /\ k - 1 = j /\ y + k = (y + j) + 1 /\ y + k <= Len(q)
        /\ y + j \in Nat
    BY <1>3, <2>1
  <2>3. i \in 1 .. z /\ n1 \in 1 .. z /\ c[i] = chunk[j] /\ c[n1] = chunk[k] /\ q[(y + j) + 1] = chunk[k]
    BY <1>3, <1>4, <2>1, <2>2
  <2>4. IF chunk[j] = "\n" /\ chunk[k] = "."
        THEN n1 = i + 2 /\ c[n1 - 1] = "."
        ELSE n1 = i + 1
    BY <1>4, <2>1, <2>2
  <2>5. Spelt(v, x + i, q, b, y + j) /\ ~Skip(v, x + i)
    BY <1>11, <2>1
  <2>6. CASE chunk[j] = "\n" /\ chunk[k] = "."
    <3>1. PICK o : o = i + 1
      OBVIOUS
    <3>2. o \in 2 .. z /\ o \in 1 .. z /\ o - 1 = i /\ n1 = o + 1 /\ n1 - 1 = o /\ n1 \in 2 .. z /\ c[o] = "."
      <4>1. n1 = i + 2 /\ c[n1 - 1] = "." /\ i \in 1 .. z /\ n1 \in 1 .. z
        BY <2>3, <2>4, <2>6
      <4>2. n1 - 1 = o /\ o - 1 = i /\ n1 = o + 1
        BY <3>1, <4>1
      <4>3. o \in 2 .. z /\ o \in 1 .. z /\ n1 \in 2 .. z
        BY <1>2, <3>1, <4>1
      <4> QED
        BY <4>1, <4>2, <4>3
    <3>3. Skip(v, x + o) /\ ~Skip(v, x + n1)
      <4>1. Skip(v, x + o) <=> c[o] = "." /\ c[o - 1] = "\n"
        BY <1>6, <3>2
      <4>2. Skip(v, x + n1) <=> c[n1] = "." /\ c[n1 - 1] = "\n"
        BY <1>6, <3>2
      <4> QED
        BY <2>3, <2>6, <3>2, <4>1, <4>2
    <3>4. Spelt(v, x + (o - 1), q, b, y + j) /\ ~Skip(v, x + (o - 1))
      BY <2>5, <3>2
    <3>5. Spelt(v, x + o, q, b, y + j)
      BY <1>5, <3>2, <3>3, <3>4
    <3>6. Spelt(v, x + (n1 - 1), q, b, y + j) /\ c[n1] # "\n"
      BY <2>3, <2>6, <3>2, <3>5
    <3>7. Spelt(v, x + n1, q, b, (y + j) + 1)
      BY <1>5, <2>2, <2>3, <3>3, <3>6
    <3> QED
      BY <2>1, <2>2, <3>3, <3>7
  <2>7. CASE ~(chunk[j] = "\n" /\ chunk[k] = ".")
    <3>1. n1 = i + 1 /\ n1 - 1 = i /\ n1 \in 2 .. z
      BY <2>3, <2>4, <2>7
    <3>2. ~Skip(v, x + n1)
      <4>1. Skip(v, x + n1) <=> c[n1] = "." /\ c[n1 - 1] = "\n"
        BY <1>6, <3>1
      <4> QED
        BY <2>3, <2>7, <3>1, <4>1
    <3>3. Spelt(v, x + (n1 - 1), q, b, y + j) /\ ~Skip(v, x + (n1 - 1))
      BY <2>5, <3>1
    <3>4. Spelt(v, x + n1, q, b, (y + j) + 1)
      BY <1>5, <2>2, <2>3, <3>2, <3>3
    <3> QED
      BY <2>1, <2>2, <3>2, <3>4
  <2> QED
    BY <2>6, <2>7
<1>12. Spelt(v, x + g[l], q, b, y + l) /\ ~Skip(v, x + g[l])
  <2> DEFINE T == {j \in 1 .. l : Spelt(v, x + g[j], q, b, y + j) /\ ~Skip(v, x + g[j])}
  <2>1. 1 \in T
    BY <1>10
  <2>2. ASSUME NEW j \in 1 .. l - 1, j \in T PROVE j + 1 \in T
    <3>1. j + 1 \in 1 .. l
      OBVIOUS
    <3> QED
      BY <1>11, <2>2, <3>1
  <2>3. \A j \in 1 .. l : j \in T
    <3> HIDE DEF T
    <3>1. 1 \in Nat /\ l \in Nat
      OBVIOUS
    <3> QED
      BY <2>1, <2>2, <3>1, Climb
  <2>4. l \in 1 .. l
    OBVIOUS
  <2> QED
    BY <2>3, <2>4
<1>13. /\ Spelt(v, Len(v), q, b, Len(q))
       /\ SeamFits(v, [ch |-> chunk[l], dot |-> chunk[l] = "\n" /\ behind = "."])
  <2>1. PICK i, r : i = g[l] /\ r = [ch |-> chunk[l], dot |-> chunk[l] = "\n" /\ behind = "."]
    OBVIOUS
  <2>2. /\ i \in 1 .. z /\ c[i] = chunk[l] /\ Len(v) > 0 /\ Len(q) = y + l
        /\ r.ch = chunk[l] /\ r.dot = (chunk[l] = "\n" /\ behind = ".")
    <3>1. l \in 1 .. l
      OBVIOUS
    <3>2. i \in 1 .. z /\ c[i] = chunk[l]
      BY <1>4, <2>1, <3>1
    <3> QED
      BY <1>2, <1>3, <2>1, <3>2
  <2>3. Spelt(v, x + i, q, b, y + l) /\ ~Skip(v, x + i)
    BY <1>12, <2>1
  <2>4. CASE chunk[l] = "\n" /\ behind = "."
    <3>1. z = i + 1 /\ z - 1 = i /\ c[z] = "." /\ z \in 2 .. z /\ z \in 1 .. z /\ Len(v) = x + z
      <4>1. z = i + 1 /\ c[z] = "."
        BY <1>4, <2>1, <2>4
      <4>2. Len(v) = x + z /\ i \in 1 .. z /\ z \in Nat
        BY <1>2, <2>2
      <4>3. z - 1 = i /\ z \in 2 .. z /\ z \in 1 .. z
        BY ONLY <4>1, <4>2
      <4> QED
        BY <4>1, <4>2, <4>3
    <3>2. Skip(v, x + z)
      <4>1. Skip(v, x + z) <=> c[z] = "." /\ c[z - 1] = "\n"
        BY <1>6, <3>1
      <4> QED
        BY <2>2, <2>4, <3>1, <4>1
    <3>3. Spelt(v, x + (z - 1), q, b, y + l) /\ c[z] # "\n"
      BY <2>3, <3>1
    <3>4. Spelt(v, x + z, q, b, y + l)
      BY <1>5, <3>1, <3>2, <3>3
    <3>5. SeamFits(v, r)
      BY <2>2, <2>4, <3>1, <3>2 DEF SeamFits
    <3> QED
      BY <2>1, <2>2, <3>1, <3>4, <3>5
  <2>5. CASE ~(chunk[l] = "\n" /\ behind = ".")
    <3>1. z = i /\ Len(v) = x + i
      BY <1>2, <1>4, <2>1, <2>5
    <3>2. v[x + i].verb = c[i]
      BY <1>2, <2>2
    <3>3. SeamFits(v, r)
      BY <2>2, <2>3, <2>5, <3>1, <3>2 DEF SeamFits
    <3> QED
      BY <2>1, <2>2, <2>3, <3>1, <3>3
  <2> QED
    BY <2>4, <2>5
<1> QED
  BY <1>1, <1>13

\* A text with a char behind it.
LEMMA TextAppend ==
  ASSUME NEW t \in Seq(Glyphs)
  PROVE  LET q == Append(t, "\n") IN
         /\ q \in Seq(Glyphs) /\ Len(q) = Len(t) + 1 /\ Len(t) \in Nat /\ Len(q) \in Nat
         /\ q[Len(t) + 1] = "\n" /\ \A i \in 1 .. Len(t) : q[i] = t[i]
<1>1. "\n" \in Glyphs
  BY DEF Glyphs
<1>2. Len(t) \in Nat
  BY LenProperties
<1> QED
  BY <1>1, <1>2, AppendProperties

\* What is sent behind the end of the message does not matter to it.
LEMMA CarriedMore ==
  ASSUME NEW w \in Seq(ItemSet), NEW v \in Seq(ItemSet), NEW got, NEW ms \in Messages,
         Carried(w, got, ms, FALSE)
  PROVE  Carried(w \o v, got, ms, FALSE)
<1>1. PICK u, x, t : u = w \o v /\ x = Len(w) /\ t = Append(ms.text, "\n")
  OBVIOUS
<1>2. /\ Len(u) = x + Len(v) /\ x \in Nat /\ Len(v) \in Nat
      /\ \A i \in 1 .. x : u[i] = w[i]
  BY <1>1, JoinParts
<1>3. PICK m \in 0 .. x - 2 : Ended(w, m) /\ Begins(got, t) /\ Spelt(w, m, t, Len(got), Len(ms.text) + 1)
  BY <1>1 DEF Carried
<1>4. m \in Nat /\ m \in 0 .. Len(u) - 2 /\ m + 1 \in 1 .. x /\ m + 2 \in 1 .. x /\ (m > 0 => m \in 1 .. x)
  BY <1>2
<1>5. Ended(u, m)
  BY <1>2, <1>3, <1>4 DEF Ended
<1>6. Len(t) \in Nat
  BY <1>1, TextAppend DEF Messages
<1>7. \A i \in 1 .. m : u[i] = w[i]
  BY <1>2, <1>4
<1>8. Spelt(u, m, t, Len(got), Len(ms.text) + 1)
  <2>1. PICK b, e : b = Len(got) /\ e = Len(ms.text) + 1
    OBVIOUS
  <2>2. Spelt(w, m, t, b, e)
    BY <1>3, <2>1
  <2>3. Len(t) <= Len(t) /\ \A i \in 1 .. Len(t) : t[i] = t[i]
    BY <1>6
  <2>4. Spelt(u, m, t, b, e)
    BY ONLY <2>2, <2>3, <1>4, <1>6, <1>7, SpeltSame
  <2> QED
    BY <2>1, <2>4
<1>9. Carried(u, got, ms, FALSE)
  BY <1>1, <1>3, <1>4, <1>5, <1>8 DEF Carried
<1> QED
  BY <1>1, <1>9

\* A chunk is sent.
LEMMA CarriedChunk ==
  ASSUME NEW w \in Seq(ItemSet), NEW got \in Seq(Verbs), NEW ms \in Messages, Carried(w, got, ms, TRUE),
         NEW chunk \in Seq(Glyphs), NEW l \in Nat \ {0}, l = Len(chunk), NEW c \in Seq(Glyphs),
         NEW behind, NEW g \in [1 .. l -> Nat], CharsAt(g, c, chunk, behind),
         ms.seam.ch \in {"none", "\n"} \/ chunk[1] # ".", ~ms.seam.dot \/ chunk[1] \notin {".", "\n"},
         NEW mt, mt.text = ms.text \o chunk,
         mt.seam = [ch |-> chunk[l], dot |-> chunk[l] = "\n" /\ behind = "."]
  PROVE  Carried(w \o Items(c), got, mt, TRUE)
<1>1. PICK t, b, s, v, q : /\ t = ms.text /\ b = Len(got) /\ s = ms.seam /\ v = w \o Items(c)
                           /\ q = t \o chunk
  OBVIOUS
<1>2. t \in Seq(Glyphs) /\ s \in Seams
  BY <1>1 DEF Messages
<1>3. Begins(got, t) /\ SeamFits(w, s) /\ Spelt(w, Len(w), t, b, Len(t))
  BY <1>1 DEF Carried
<1>4. s.ch \in {"none", "\n"} \/ chunk[1] # "."
  BY <1>1
<1>5. ~s.dot \/ chunk[1] \notin {".", "\n"}
  BY <1>1
<1>6. /\ Spelt(v, Len(v), q, b, Len(q))
      /\ SeamFits(v, [ch |-> chunk[l], dot |-> chunk[l] = "\n" /\ behind = "."])
  <2>1. Spelt(w, Len(w), t, b, Len(t)) /\ SeamFits(w, s) /\ t \in Seq(Glyphs)
    BY <1>2, <1>3
  <2>2. PICK u : u = w \o Items(c)
    OBVIOUS
  <2>3. /\ Spelt(u, Len(u), t \o chunk, b, Len(t \o chunk))
        /\ SeamFits(u, [ch |-> chunk[l], dot |-> chunk[l] = "\n" /\ behind = "."])
    BY ONLY <2>1, <2>2, <1>4, <1>5, w \in Seq(ItemSet), chunk \in Seq(Glyphs), l \in Nat \ {0}, l = Len(chunk),
      c \in Seq(Glyphs), g \in [1 .. l -> Nat], CharsAt(g, c, chunk, behind), SpeltChunk, ZenonT(60)
  <2> QED
    BY <1>1, <2>2, <2>3
<1>7. Begins(got, q)
  <2>1. /\ Len(q) = Len(t) + Len(chunk) /\ Len(t) \in Nat /\ Len(chunk) \in Nat
        /\ \A i \in 1 .. Len(t) : q[i] = t[i]
    BY <1>1, <1>2, JoinParts
  <2>2. Len(got) \in Nat
    BY LenProperties
  <2> QED
    BY <1>3, <2>1, <2>2 DEF Begins
<1> QED
  BY <1>1, <1>6, <1>7 DEF Carried

\* The end of the text is sent.
LEMMA CarriedEnd ==
  ASSUME NEW w \in Seq(ItemSet), NEW got \in Seq(Verbs), NEW ms \in Messages, Carried(w, got, ms, TRUE),
         ~ms.seam.dot, NEW mt, mt.text = ms.text, NEW id \in 1 .. MaxCmds
  PROVE  Carried(w \o EndOfText(id), got, mt, FALSE)
<1>1. PICK t, b, v, q, e, x, y : /\ t = ms.text /\ b = Len(got) /\ q = Append(t, "\n") /\ e = EndOfText(id)
                                 /\ v = w \o e /\ x = Len(w) /\ y = Len(t)
  OBVIOUS
<1>2. t \in Seq(Glyphs) /\ b \in Nat /\ y \in Nat
  BY <1>1, LenProperties DEF Messages
<1>3. Begins(got, t) /\ SeamFits(w, ms.seam) /\ Spelt(w, x, t, b, y)
  BY <1>1 DEF Carried
<1>4. q \in Seq(Glyphs) /\ Len(q) = y + 1 /\ q[y + 1] = "\n" /\ \A i \in 1 .. y : q[i] = t[i]
  BY <1>1, <1>2, TextAppend
<1>5. e \in Seq(ItemSet) /\ Len(e) = 3 /\ e[1] = Item("\n", 0) /\ e[2] = Item(".", 0) /\ e[3] = Item("\n", id)
  BY <1>1, EndOfTextIs
<1>6. /\ Len(v) = x + 3 /\ x \in Nat /\ \A i \in 1 .. x : v[i] = w[i]
      /\ v[x + 1] = Item("\n", 0) /\ v[x + 2] = Item(".", 0) /\ v[x + 3] = Item("\n", id)
  <2>1. /\ Len(v) = Len(w) + Len(e) /\ Len(w) \in Nat
        /\ \A i \in 1 .. Len(w) : v[i] = w[i]
        /\ \A i \in 1 .. Len(e) : v[Len(w) + i] = e[i]
    <3>1. v = w \o e /\ e \in Seq(ItemSet)
      BY <1>1, <1>5
    <3> QED
      BY ONLY <3>1, w \in Seq(ItemSet), JoinParts
  <2>2. 1 \in 1 .. Len(e) /\ 2 \in 1 .. Len(e) /\ 3 \in 1 .. Len(e)
    BY <1>5
  <2> QED
    BY <1>1, <1>5, <2>1, <2>2
<1>7. Spelt(v, x, q, b, y)
  <2>1. Len(t) \in Nat /\ Len(q) \in Nat /\ Len(t) <= Len(q) /\ \A i \in 1 .. Len(t) : q[i] = t[i]
    BY <1>1, <1>2, <1>4
  <2> QED
    BY <1>3, <1>6, <2>1, SpeltSame
<1>8. ~(x > 0 /\ Skip(v, x))
  <2> SUFFICES ASSUME x > 0, Skip(v, x) PROVE FALSE
    OBVIOUS
  <2>1. v[x] = w[x] /\ (x # 1 => v[x - 1] = w[x - 1])
    <3>1. x \in 1 .. x /\ (x # 1 => x - 1 \in 1 .. x)
      BY <1>6
    <3> QED
      BY <1>6, <3>1
  <2>2. Skip(w, x)
    BY <2>1 DEF Skip
  <2> QED
    BY <1>1, <1>3, <2>2 DEF SeamFits
<1>9. v[x + 1].id = 0 /\ v[x + 1].verb = "\n" /\ "\n" \in Glyphs /\ ~Skip(v, x + 1)
  BY <1>6 DEF Item, Glyphs, Skip
<1>10. Spelt(v, x + 1, q, b, y + 1)
  <2>1. y + 1 <= Len(q) /\ q[y + 1] = v[x + 1].verb
    BY <1>2, <1>4, <1>9
  <2> QED
    BY <1>6, <1>7, <1>8, <1>9, <2>1, SpeltOne
<1>11. PICK m : m = x + 1
  OBVIOUS
<1>12. Ended(v, m)
  <2>1. m + 1 = x + 2 /\ m + 2 = x + 3
    BY <1>6, <1>11
  <2>2. Final(v[x + 3])
    BY <1>6 DEF Item, Final
  <2> QED
    BY <1>6, <1>9, <1>11, <2>1, <2>2 DEF Ended
<1>13. Begins(got, q)
  BY <1>1, <1>2, <1>3, <1>4 DEF Begins
<1>14. m \in 0 .. Len(v) - 2
  BY <1>6, <1>11
<1> QED
  BY <1>1, <1>10, <1>11, <1>12, <1>13, <1>14 DEF Carried

\* What is taken off in the rest is what was in the whole.
LEMMA SkipRest ==
  ASSUME NEW w \in Seq(ItemSet), NEW k \in 1 .. Len(w), w[k].verb = "\n"
  PROVE  LET u == SubSeq(w, k + 1, Len(w)) IN
         /\ u \in Seq(ItemSet) /\ Len(u) = Len(w) - k /\ Len(w) \in Nat
         /\ \A i \in 1 .. Len(w) - k : u[i] = w[k + i] /\ (Skip(u, i) <=> Skip(w, k + i))
<1>1. PICK x, u : x = Len(w) /\ u = SubSeq(w, k + 1, x)
  OBVIOUS
<1>2. x \in Nat /\ k \in Nat /\ k >= 1 /\ k <= x
  BY <1>1, LenProperties
<1>3. u \in Seq(ItemSet) /\ Len(u) = x - k /\ \A i \in 1 .. x - k : u[i] = w[k + i]
  BY <1>1, <1>2, Slice
<1>4. ASSUME NEW i \in 1 .. x - k PROVE u[i] = w[k + i] /\ (Skip(u, i) <=> Skip(w, k + i))
  <2>1. u[i] = w[k + i] /\ k + i # 1
    BY <1>2, <1>3
  <2>2. CASE i = 1
    <3>1. (k + i) - 1 = k
      BY <1>2, <2>2
    <3> QED
      BY <2>1, <2>2, <3>1 DEF Skip
  <2>3. CASE i # 1
    <3>1. i - 1 \in 1 .. x - k /\ k + (i - 1) = (k + i) - 1
      BY <1>2, <2>3
    <3>2. u[i - 1] = w[(k + i) - 1]
      BY <1>3, <3>1
    <3> QED
      BY <2>1, <2>3, <3>2 DEF Skip
  <2> QED
    BY <2>2, <2>3
<1> QED
  BY <1>1, <1>2, <1>3, <1>4

\* In t, line comes behind b chars, and then an end of line.
LineAt(t, b, z, line) ==
  /\ z = Len(line) + 1 /\ b + z <= Len(t)
  /\ \A i \in 1 .. z - 1 : t[b + i] = line[i]
  /\ t[b + z] = "\n"

\* The receiver gets a line of the text.
LEMMA BeginsLine ==
  ASSUME NEW got \in Seq(Verbs), NEW t, Begins(got, t), NEW line \in Seq(Verbs), NEW z \in Nat,
         NEW b, b = Len(got), LineAt(t, b, z, line), Len(t) \in Nat
  PROVE  LET v == got \o Append(line, "\n") IN
         /\ Begins(v, t) /\ Len(v) = b + z /\ v \in Seq(Verbs)
<1>1. PICK r, v : r = Append(line, "\n") /\ v = got \o r
  OBVIOUS
<1>2. "\n" \in Verbs
  BY DEF Verbs, Glyphs
<1>3. /\ r \in Seq(Verbs) /\ Len(r) = z /\ r[z] = "\n" /\ \A i \in 1 .. z - 1 : r[i] = line[i]
  <2>1. Len(line) \in Nat /\ Len(line) = z - 1
    BY LenProperties DEF LineAt
  <2>2. /\ r \in Seq(Verbs) /\ Len(r) = Len(line) + 1 /\ r[Len(line) + 1] = "\n"
        /\ \A i \in 1 .. Len(line) : r[i] = line[i]
    BY <1>1, <1>2, <2>1, AppendProperties
  <2> QED
    BY <2>1, <2>2
<1>4. /\ v \in Seq(Verbs) /\ Len(v) = b + z /\ b \in Nat
      /\ \A i \in 1 .. b : v[i] = got[i]
      /\ \A i \in 1 .. z : v[b + i] = r[i]
  <2>1. /\ v \in Seq(Verbs) /\ Len(v) = Len(got) + Len(r) /\ Len(got) \in Nat /\ Len(r) \in Nat
        /\ \A i \in 1 .. Len(got) : v[i] = got[i]
        /\ \A i \in 1 .. Len(r) : v[Len(got) + i] = r[i]
    BY <1>1, <1>3, JoinParts
  <2> QED
    BY <1>3, <2>1
<1>5. ASSUME NEW j \in 1 .. b + z PROVE v[j] = t[j]
  <2>1. CASE j <= b
    <3>1. j \in 1 .. b
      BY <1>4, <2>1
    <3> QED
      BY <1>4, <3>1 DEF Begins
  <2>2. CASE j > b
    <3>1. PICK i : i = j - b
      OBVIOUS
    <3>2. i \in 1 .. z /\ j = b + i
      BY <1>4, <2>2, <3>1
    <3>3. v[j] = r[i]
      BY <1>4, <3>2
    <3>4. CASE i = z
      BY <1>3, <3>2, <3>3, <3>4 DEF LineAt
    <3>5. CASE i # z
      <4>1. i \in 1 .. z - 1
        BY <3>2, <3>5
      <4> QED
        BY <1>3, <3>2, <3>3, <4>1 DEF LineAt
    <3> QED
      BY <3>4, <3>5
  <2> QED
    BY <1>4, <2>1, <2>2
<1> QED
  BY <1>1, <1>4, <1>5 DEF Begins, LineAt

\* It is one that w spells, and the rest spells what is left.
LEMMA LineSpelt ==
  ASSUME NEW w \in Seq(ItemSet), NEW m \in 0 .. Len(w), NEW t, Len(t) \in Nat, NEW e,
         NEW got \in Seq(Verbs), Begins(got, t), Spelt(w, m, t, Len(got), e),
         NEW k \in 1 .. m, NEW s, Opening(w, k, s), NEW line \in Seq(Verbs), CharsOf(line, w, k, s)
  PROVE  /\ Begins(got \o Append(line, "\n"), t)
         /\ Spelt(SubSeq(w, k + 1, Len(w)), m - k, t, Len(got \o Append(line, "\n")), e)
<1>1. PICK b : b = Len(got)
  OBVIOUS
<1>2. b \in Nat /\ Spelt(w, m, t, b, e)
  BY <1>1, LenProperties
<1>3. /\ s < k /\ b + (k - s) <= Len(t)
      /\ \A i \in 1 .. k - s : t[b + i] = w[i + s].verb
      /\ Spelt(SubSeq(w, k + 1, Len(w)), m - k, t, b + (k - s), e)
  BY <1>2, SpeltRest
<1>4. PICK z : z = k - s
  OBVIOUS
<1>5. s \in 0 .. 1 /\ k \in Nat
  BY DEF Opening
<1>6. z \in Nat /\ z = Len(line) + 1 /\ b + z <= Len(t) /\ z \in 1 .. z /\ z + s = k
  <2>1. Len(line) \in Nat
    BY LenProperties
  <2> QED
    BY <1>3, <1>4, <1>5, <2>1 DEF CharsOf
<1>7. t[b + z] = "\n"
  <2>1. t[b + z] = w[z + s].verb
    BY <1>3, <1>4, <1>6
  <2> QED
    BY <1>6, <2>1 DEF Opening
<1>8. \A i \in 1 .. z - 1 : t[b + i] = line[i]
  <2> TAKE i \in 1 .. z - 1
  <2>1. i \in 1 .. z /\ i \in 1 .. Len(line)
    BY <1>6
  <2> QED
    BY <1>3, <1>4, <2>1 DEF CharsOf
<1>9. Begins(got \o Append(line, "\n"), t) /\ Len(got \o Append(line, "\n")) = b + z
  <2>1. LineAt(t, b, z, line)
    BY <1>6, <1>7, <1>8 DEF LineAt
  <2> QED
    BY <1>1, <1>6, <2>1, BeginsLine
<1> QED
  BY <1>3, <1>4, <1>9

\* The receiver takes a line of the text.
LEMMA CarriedLine ==
  ASSUME NEW w \in Seq(ItemSet), NEW got \in Seq(Verbs), NEW ms \in Messages, NEW o, Carried(w, got, ms, o),
         NEW k \in 1 .. Len(w), NEW s, Opening(w, k, s), w[k].id = 0,
         NEW line \in Seq(Verbs), CharsOf(line, w, k, s)
  PROVE  Carried(SubSeq(w, k + 1, Len(w)), got \o Append(line, "\n"), ms, o)
<1>1. PICK x, u, p, t : /\ x = Len(w) /\ u = SubSeq(w, k + 1, x) /\ p = got \o Append(line, "\n")
                        /\ t = Append(ms.text, "\n")
  OBVIOUS
<1>2. /\ x \in Nat /\ k \in 1 .. x /\ Len(u) = x - k
      /\ \A i \in 1 .. x - k : u[i] = w[k + i] /\ (Skip(u, i) <=> Skip(w, k + i))
  BY <1>1, SkipRest DEF Opening
<1>3. w[k].verb = "\n" /\ \A i \in 1 .. k - 1 : w[i].verb # "\n"
  BY DEF Opening
<1>4. /\ ms.text \in Seq(Glyphs) /\ Len(ms.text) \in Nat /\ Len(t) \in Nat
  BY <1>1, TextAppend DEF Messages
<1>5. CASE o
  <2>1. PICK q, e : q = ms.text /\ e = Len(q)
    OBVIOUS
  <2>2. Begins(got, q) /\ SeamFits(w, ms.seam) /\ Spelt(w, x, q, Len(got), e) /\ Len(q) \in Nat
    BY <1>1, <1>4, <1>5, <2>1 DEF Carried
  <2>3. x \in 0 .. Len(w) /\ k \in 1 .. x
    BY <1>1, <1>2
  <2>4. /\ Begins(got \o Append(line, "\n"), q)
        /\ Spelt(SubSeq(w, k + 1, Len(w)), x - k, q, Len(got \o Append(line, "\n")), e)
    BY <2>2, <2>3, LineSpelt
  <2>5. Begins(p, q) /\ Spelt(u, Len(u), q, Len(p), e)
    BY <1>1, <1>2, <2>4
  <2>6. SeamFits(u, ms.seam)
    <3>1. CASE x = k
      <4>1. ~(Len(w) > 0 /\ Skip(w, Len(w)))
        BY <1>1, <1>3, <3>1 DEF Skip
      <4>2. ~(Len(u) > 0)
        BY <1>2, <3>1
      <4> QED
        BY <2>2, <4>1, <4>2 DEF SeamFits
    <3>2. CASE x # k
      <4>1. PICK i : i = x - k
        OBVIOUS
      <4>2. i \in 1 .. x - k /\ k + i = x /\ Len(u) = i /\ i > 0 /\ x > 0 /\ Len(w) = x
        BY <1>1, <1>2, <3>2, <4>1
      <4>3. u[i] = w[x] /\ (Skip(u, i) <=> Skip(w, x))
        BY <1>2, <4>2
      <4> QED
        BY <2>2, <4>2, <4>3 DEF SeamFits
    <3> QED
      BY <3>1, <3>2
  <2>7. Carried(u, p, ms, o)
    BY <1>5, <2>1, <2>5, <2>6 DEF Carried
  <2> QED
    BY <1>1, <2>7
<1>6. CASE ~o
  <2>1. PICK e : e = Len(ms.text) + 1
    OBVIOUS
  <2>2. PICK m \in 0 .. x - 2 : Ended(w, m) /\ Begins(got, t) /\ Spelt(w, m, t, Len(got), e)
    BY <1>1, <1>6, <2>1 DEF Carried
  <2>3. m \in Nat /\ m + 2 <= x /\ m \in 0 .. Len(w)
    BY <1>1, <1>2, <2>2
  <2>4. /\ w[m + 1].verb = "." /\ w[m + 2].verb = "\n" /\ w[m + 2].id # 0
    BY <2>2 DEF Ended, Final, Item
  <2>5. k <= m
    <3>1. k \in Nat
      BY <1>2
    <3>2. k # m + 1 /\ k # m + 2
      BY <1>3, <2>4
    <3>3. k <= m + 2
      <4> SUFFICES ASSUME k > m + 2 PROVE FALSE
        BY <2>3, <3>1
      <4>1. PICK j : j = m + 2
        OBVIOUS
      <4>2. j \in 1 .. k - 1
        BY <2>3, <3>1, <4>1
      <4>3. w[j].verb # "\n"
        BY <1>3, <4>2
      <4> QED
        BY <2>4, <4>1, <4>3
    <3> QED
      BY ONLY <2>3, <3>1, <3>2, <3>3
  <2>6. k \in 1 .. m
    BY <1>2, <2>5
  <2>7. /\ Begins(got \o Append(line, "\n"), t)
        /\ Spelt(SubSeq(w, k + 1, Len(w)), m - k, t, Len(got \o Append(line, "\n")), e)
    BY <1>4, <2>2, <2>3, <2>6, LineSpelt
  <2>8. PICK z : z = m - k
    OBVIOUS
  <2>9. /\ z \in 0 .. Len(u) - 2 /\ z \in Nat /\ z + 1 \in 1 .. x - k /\ z + 2 \in 1 .. x - k
        /\ k + (z + 1) = m + 1 /\ k + (z + 2) = m + 2
        /\ (z > 0 => z \in 1 .. x - k /\ k + z = m /\ m > 0)
    BY <1>2, <2>3, <2>6, <2>8
  <2>10. Ended(u, z)
    <3>1. u[z + 1] = w[m + 1] /\ u[z + 2] = w[m + 2]
      BY <1>2, <2>9
    <3>2. z > 0 => u[z] = w[m] /\ m > 0
      BY <1>2, <2>9
    <3> QED
      BY <2>2, <3>1, <3>2 DEF Ended
  <2>11. Begins(p, t) /\ Spelt(u, z, t, Len(p), e)
    BY <1>1, <2>7, <2>8
  <2>12. Carried(u, p, ms, o)
    BY <1>1, <1>6, <2>1, <2>9, <2>10, <2>11 DEF Carried
  <2> QED
    BY <1>1, <2>12
<1> QED
  BY <1>5, <1>6

\* A line that is just a dot is the end of the message, and of nothing less.
LEMMA CarriedDot ==
  ASSUME NEW w \in Seq(ItemSet), NEW got \in Seq(Verbs), NEW ms \in Messages, NEW o \in BOOLEAN,
         Carried(w, got, ms, o), Len(w) >= 2, w[1].verb = ".", w[2].verb = "\n"
  PROVE  ~o /\ got = Append(ms.text, "\n")
<1>1. PICK t : t = Append(ms.text, "\n")
  OBVIOUS
<1>2. ms.text \in Seq(Glyphs) /\ Len(ms.text) \in Nat /\ t \in Seq(Glyphs) /\ Len(t) = Len(ms.text) + 1
  BY <1>1, TextAppend DEF Messages
<1>3. Len(w) \in Nat
  BY LenProperties
<1>4. ASSUME NEW m \in Nat, m >= 2, NEW q, NEW b, NEW e, Spelt(w, m, q, b, e) PROVE FALSE
  <2>1. PICK h \in [0 .. m -> Nat] :
          \A i \in 1 .. m : i > 1 /\ Skip(w, i - 1) => w[i].verb # "\n"
    BY <1>4 DEF Spelt
  <2>2. Skip(w, 1)
    BY DEF Skip
  <2>3. PICK i : i = 2
    OBVIOUS
  <2>4. i \in 1 .. m /\ i > 1 /\ i - 1 = 1
    BY <1>4, <2>3
  <2>5. Skip(w, i - 1) => w[i].verb # "\n"
    BY <2>1, <2>4
  <2> QED
    BY <2>2, <2>3, <2>4, <2>5
<1>5. ~o
  <2> SUFFICES ASSUME o PROVE FALSE
    OBVIOUS
  <2>1. Spelt(w, Len(w), ms.text, Len(got), Len(ms.text))
    BY DEF Carried
  <2> QED
    BY <1>3, <1>4, <2>1
<1>6. PICK m \in 0 .. Len(w) - 2 :
        Ended(w, m) /\ Begins(got, t) /\ Spelt(w, m, t, Len(got), Len(ms.text) + 1)
  BY <1>1, <1>5 DEF Carried
<1>7. m = 0
  <2>1. m \in Nat
    BY <1>3, <1>6
  <2>2. ~(m >= 2)
    BY <1>4, <1>6, <2>1
  <2>3. m # 1
    <3> SUFFICES ASSUME m = 1 PROVE FALSE
      OBVIOUS
    <3>1. w[1].verb = "\n"
      BY <1>6 DEF Ended
    <3> QED
      BY <3>1
  <2> QED
    BY <2>1, <2>2, <2>3
<1>8. Len(got) = Len(t)
  <2>1. Spelt(w, 0, t, Len(got), Len(t))
    BY <1>2, <1>6, <1>7
  <2> QED
    BY <2>1 DEF Spelt
<1>9. \A i \in 1 .. Len(t) : got[i] = t[i]
  BY <1>6, <1>8 DEF Begins
<1>10. t \in Seq(Verbs)
  <2>1. Glyphs \subseteq Verbs
    BY DEF Verbs
  <2> QED
    BY <1>2, <2>1, SeqMonotonic
<1>11. got = t
  BY <1>8, <1>9, <1>10, SeqEqual
<1> QED
  BY <1>1, <1>5, <1>11

\* What is sent behind the message, or of it.
LEMMA DeliveredMore ==
  ASSUME NEW w \in Seq(ItemSet), NEW v \in Seq(ItemSet), NEW x \in Letters, NEW ms, NEW o,
         Delivered(w, x, ms, o), NEW mt, mt.id = ms.id, ~mt.spoilt => ~ms.spoilt, NEW oo,
         \A i \in 1 .. Len(v) : v[i] # Item("DATA", ms.id),
         ~mt.spoilt /\ ms.id > 0 =>
           \A y \in Seq(ItemSet), got \in Seq(Verbs) : Carried(y, got, ms, o) => Carried(y \o v, got, mt, oo)
  PROVE  Delivered(w \o v, x, mt, oo)
<1>1. PICK u, a : u = w \o v /\ a = Len(w)
  OBVIOUS
<1>2. /\ Len(u) = a + Len(v) /\ a \in Nat /\ Len(v) \in Nat
      /\ \A i \in 1 .. a : u[i] = w[i]
      /\ \A i \in 1 .. Len(v) : u[a + i] = v[i]
  BY <1>1, JoinParts
<1>3. SUFFICES ASSUME ~mt.spoilt, mt.id > 0
               PROVE  /\ x.id = mt.id => Carried(u, x.lines, mt, oo)
                      /\ \A d \in 1 .. Len(u) : u[d] = Item("DATA", mt.id)
                           => Carried(SubSeq(u, d + 1, Len(u)), <<>>, mt, oo)
  BY <1>1 DEF Delivered
<1>4. ASSUME NEW y \in Seq(ItemSet), NEW got \in Seq(Verbs), Carried(y, got, ms, o)
      PROVE  Carried(y \o v, got, mt, oo)
  BY <1>3, <1>4
<1>5. ASSUME x.id = mt.id PROVE Carried(u, x.lines, mt, oo)
  <2>1. PICK got : got = x.lines
    OBVIOUS
  <2>2. got \in Seq(Verbs)
    BY <2>1 DEF Letters
  <2>3. Carried(w, got, ms, o)
    BY <1>3, <1>5, <2>1 DEF Delivered
  <2> QED
    BY <1>1, <1>4, <2>1, <2>2, <2>3
<1>6. ASSUME NEW d \in 1 .. Len(u), u[d] = Item("DATA", mt.id)
      PROVE  Carried(SubSeq(u, d + 1, Len(u)), <<>>, mt, oo)
  <2>1. d \in 1 .. a
    <3> SUFFICES ASSUME d > a PROVE FALSE
      BY <1>2
    <3>1. PICK i : i = d - a
      OBVIOUS
    <3>2. i \in 1 .. Len(v) /\ a + i = d
      BY <1>2, <3>1
    <3>3. u[d] = v[i]
      BY <1>2, <3>2
    <3> QED
      BY <1>6, <3>2, <3>3
  <2>2. w[d] = Item("DATA", ms.id)
    BY <1>2, <1>6, <2>1
  <2>3. PICK y : y = SubSeq(w, d + 1, a)
    OBVIOUS
  <2>4. Carried(y, <<>>, ms, o)
    BY <1>1, <1>3, <2>1, <2>2, <2>3 DEF Delivered
  <2>5. d \in Nat /\ d <= a
    BY <1>2, <2>1
  <2>6. y \in Seq(ItemSet)
    BY ONLY <1>1, <2>3, <2>5, w \in Seq(ItemSet), LenProperties, Slice
  <2>7. y \o v = SubSeq(u, d + 1, Len(u))
    <3>1. d \in 0 .. Len(w)
      BY <1>1, <1>2, <2>5
    <3> QED
      BY <1>1, <2>3, <3>1, CutFirst
  <2>8. <<>> \in Seq(Verbs)
    OBVIOUS
  <2> QED
    BY <1>4, <2>4, <2>6, <2>7, <2>8
<1> QED
  BY <1>5, <1>6

\* The receiver takes the first k items, and has y of the message then.
LEMMA DeliveredRest ==
  ASSUME NEW w \in Seq(ItemSet), NEW x, NEW ms, NEW o, Delivered(w, x, ms, o), NEW k \in 1 .. Len(w),
         NEW y, ~ms.spoilt /\ ms.id > 0 /\ y.id = ms.id => Carried(SubSeq(w, k + 1, Len(w)), y.lines, ms, o)
  PROVE  Delivered(SubSeq(w, k + 1, Len(w)), y, ms, o)
<1>1. PICK u, a : u = SubSeq(w, k + 1, a) /\ a = Len(w)
  OBVIOUS
<1>2. a \in Nat /\ k \in Nat /\ k <= a
  BY <1>1, LenProperties
<1>3. u \in Seq(ItemSet) /\ Len(u) = a - k /\ \A i \in 1 .. a - k : u[i] = w[k + i]
  BY ONLY <1>1, <1>2, w \in Seq(ItemSet), Slice
<1>4. SUFFICES ASSUME ~ms.spoilt, ms.id > 0
               PROVE  \A d \in 1 .. Len(u) : u[d] = Item("DATA", ms.id)
                           => Carried(SubSeq(u, d + 1, Len(u)), <<>>, ms, o)
  BY <1>1 DEF Delivered
<1>5. ASSUME NEW d \in 1 .. Len(u), u[d] = Item("DATA", ms.id)
      PROVE  Carried(SubSeq(u, d + 1, Len(u)), <<>>, ms, o)
  <2>1. PICK e : e = k + d
    OBVIOUS
  <2>2. e \in 1 .. a /\ d \in Nat /\ u[d] = w[e]
    BY <1>2, <1>3, <2>1
  <2>3. Carried(SubSeq(w, e + 1, a), <<>>, ms, o)
    BY <1>1, <1>4, <1>5, <2>2 DEF Delivered
  <2>4. SubSeq(u, d + 1, Len(u)) = SubSeq(w, e + 1, a)
    <3>1. /\ k \in Nat /\ d \in Nat /\ a \in Nat /\ k + d <= a /\ a <= Len(w) /\ Len(u) = a - k
      BY <1>1, <1>2, <1>3, <2>1, <2>2
    <3>2. SubSeq(SubSeq(w, k + 1, a), d + 1, a - k) = SubSeq(w, k + d + 1, a)
      <4>1. w \in Seq(ItemSet)
        OBVIOUS
      <4>2. \A i, j, b \in Nat :
              i + j <= b /\ b <= Len(w) => SubSeq(SubSeq(w, i + 1, b), j + 1, b - i) = SubSeq(w, i + j + 1, b)
        BY ONLY <4>1, SliceOfSlice
      <4> QED
        BY ONLY <3>1, <4>2
    <3> QED
      BY <1>1, <2>1, <3>1, <3>2
  <2> QED
    BY <2>3, <2>4
<1> QED
  BY <1>5

\* A step that is neither data () nor the receiver's taking a line of a text:
\* what it may do to a message, to what has been accepted, and to the call.
MessageKept ==
  /\ mail' = mail /\ msg'.id = msg.id /\ (~msg'.spoilt => ~msg.spoilt)
  /\ msg' = msg \/ InText
  /\ InText' => InText


\* All steps but those two are of this kind.
LEMMA MessageSteps == ASSUME Base, Next PROVE Data \/ TakesText \/ MessageKept
<1>1. call.op = "none" => call.at = "no"
  BY Known DEF CallBase, Calling
<1>2. msg \in Messages
  BY Known DEF MsgBase
<1>3. ASSUME NEW items, NEW op, NEW at, Sync(items, op, at), at \notin {"DATA", "text"} PROVE ~InText'
  BY <1>3 DEF Sync, Throw, InText, Idle
<1>4. CASE Connects \/ Show
  BY <1>4 DEF Connects, Show, receiver, ghosts, MessageKept, InText
<1>5. CASE Helo
  <2>1. mail' = mail /\ msg' = msg
    BY <1>5 DEF Helo
  <2>2. ~InText'
    <3>1. CASE call' = [op |-> "helo", at |-> "greeting"]
      BY <3>1 DEF InText
    <3>2. CASE send_cmd("other", "helo", "reply", "no")
      BY <1>3, <3>2 DEF send_cmd
    <3> QED
      BY <1>5, <3>1, <3>2 DEF Helo
  <2> QED
    BY <2>1, <2>2 DEF MessageKept
<1>6. CASE Command
  <2>1. mail' = mail /\ msg' = msg
    BY <1>6 DEF Command
  <2>2. PICK verb : send_cmd(verb, "command", "reply", "no")
    BY <1>6 DEF Command
  <2>3. ~InText'
    BY <1>3, <2>2 DEF send_cmd
  <2> QED
    BY <2>1, <2>3 DEF MessageKept
<1>7. CASE SendBuf
  <2>1. mail' = mail /\ InText /\ call' = call
    BY <1>7 DEF SendBuf, receiver, InText
  <2>2. PICK chunk, behind : msg' = [msg EXCEPT
          !.text = msg.text \o chunk,
          !.seam = [ch |-> Last(chunk), dot |-> Last(chunk) = "\n" /\ behind = "."],
          !.spoilt = msg.spoilt \/ Spoils(chunk)]
    BY <1>7 DEF SendBuf
  <2>3. msg'.id = msg.id /\ (~msg'.spoilt => ~msg.spoilt)
    BY <1>2, <2>2 DEF Messages
  <2> QED
    BY <2>1, <2>3 DEF MessageKept
<1>8. CASE Overflow
  BY <1>8 DEF Overflow, InText, MessageKept
<1>9. CASE EndText
  <2>1. /\ mail' = mail /\ InText
        /\ \E b : msg' = [msg EXCEPT !.spoilt = msg.spoilt \/ b, !.seam = NoSeam]
    BY <1>9 DEF EndText, InText
  <2>2. msg'.id = msg.id /\ (~msg'.spoilt => ~msg.spoilt)
    BY <1>2, <2>1 DEF Messages
  <2> QED
    BY <2>1, <2>2 DEF MessageKept
<1>10. CASE ResponseRefill
  BY <1>10 DEF ResponseRefill, client, receiver, MessageKept, InText
<1>11. ASSUME Got PROVE InText' => InText
  BY <1>11 DEF Got, Goes, InText, Idle
<1>12. CASE ResponseLine
  <2>1. mail' = mail /\ msg' = msg
    BY <1>12 DEF ResponseLine
  <2>2. Got \/ Sync(<<Item("other", n + 1)>>, "helo", "reply") \/ call' = call
    BY <1>12 DEF ResponseLine
  <2>3. InText' => InText
    BY <1>3, <1>11, <2>2 DEF InText
  <2> QED
    BY <2>1, <2>3 DEF MessageKept
<1>13. CASE ShowLine
  BY <1>13 DEF ShowLine, receiver, MessageKept, InText, Idle
<1>14. CASE ResponseEof
  <2>1. mail' = mail /\ msg' = msg
    BY <1>14 DEF ResponseEof
  <2>2. Got \/ Sync(<<Item("other", n + 1)>>, "helo", "reply") \/ Goes("no")
    BY <1>14 DEF ResponseEof
  <2>3. InText' => InText
    BY <1>3, <1>11, <2>2 DEF InText, Goes, Idle
  <2> QED
    BY <2>1, <2>3 DEF MessageKept
<1>15. CASE ResponseFails
  BY <1>15 DEF ResponseFails, Throw, receiver, MessageKept, InText, Idle
<1>16. CASE Greets \/ TakesCommand \/ Closes
  BY <1>16 DEF Greets, TakesCommand, Closes, client, receiver, ghosts, MessageKept, InText
<1> QED
  BY <1>4, <1>5, <1>6, <1>7, <1>8, <1>9, <1>10, <1>12, <1>13, <1>14, <1>15, <1>16
  DEF Next, Calls, Proceeds, Receiver

\* What has been accepted.
LEMMA MailedKept == ASSUME Mailed, MessageKept, tidy' => tidy PROVE Mailed'
<1> SUFFICES ASSUME tidy', ~msg'.spoilt, msg'.id > 0, mail'.id = msg'.id
             PROVE  ~InText' /\ mail'.lines = Append(msg'.text, "\n")
  BY DEF Mailed
<1>1. ~InText /\ mail.lines = Append(msg.text, "\n")
  BY DEF Mailed, MessageKept
<1> QED
  BY <1>1 DEF MessageKept

\* The receiver takes a line of a text: what comes of the message.
LEMMA TextDelivered ==
  ASSUME Base, Sane, Phases, Mailed, Delivered(Wire, text, msg, InText), TakesText
  PROVE  /\ tidy' /\ ~msg.spoilt /\ msg.id > 0 /\ mail'.id = msg.id
              => ~InText /\ mail'.lines = Append(msg.text, "\n")
         /\ Sane' => Delivered(Wire', text', msg, InText)
<1>1. /\ TakeLine /\ mode = "data" /\ text.id > 0
      /\ UNCHANGED <<area, link, output, call, out, put, msg, n, shows, seen>>
  BY Known DEF TakesText, client, MailBase
<1>2. PICK k : LineTaken(k)
  BY <1>1, WireLine
<1>3. PICK c, w, o : c = Wire[k] /\ w = Wire /\ o = InText
  OBVIOUS
<1>4. /\ c.verb = "\n" /\ c \in ItemSet /\ c.id \in Nat /\ Len(Body) = k - 1
      /\ c.id > 0 => Body = <<".">>
  BY <1>1, <1>2, <1>3, TextLine, SmtpAssumption DEF ItemSet
<1>5. /\ k \in 1 .. Len(w) /\ Wire' = SubSeq(w, k + 1, Len(w)) /\ Last(NextLine) = c
      /\ k \in Nat /\ k >= 1 /\ Len(w) \in Nat /\ w[k] = c /\ w \in Seq(ItemSet)
      /\ \A i \in 1 .. k - 1 : w[i].verb \in {"a", "."}
      /\ Body \in Seq(Verbs) /\ \A i \in 1 .. k - 1 : Body[i] = w[i].verb
  <2>1. /\ k \in 1 .. Len(w) /\ k \in Nat /\ Len(w) \in Nat /\ NextIs(k)
        /\ Wire' = SubSeq(w, k + 1, Len(w))
        /\ \A i \in 1 .. k : w[i] = inbox[i]
        /\ \A i \in 1 .. k - 1 : w[i].verb \in {"a", "."}
    BY <1>2, <1>3 DEF LineTaken
  <2>2. k \in 1 .. k /\ k >= 1 /\ w[k] = c /\ \A i \in 1 .. k - 1 : i \in 1 .. k
    BY <1>3, <2>1
  <2>3. /\ Last(NextLine) = inbox[k] /\ Body \in Seq(Verbs)
        /\ \A i \in 1 .. k - 1 : Body[i] = inbox[i].verb
    BY <1>4, <2>1 DEF NextIs
  <2> QED
    BY <1>3, <2>1, <2>2, <2>3, Known
<1>6. /\ text \in Letters /\ msg \in Messages /\ o \in BOOLEAN /\ Delivered(w, text, msg, o)
  BY <1>3, Known DEF MailBase, MsgBase, InText
<1>7. PICK got : got = text.lines
  OBVIOUS
<1>8. got \in Seq(Verbs) /\ (~msg.spoilt /\ msg.id > 0 /\ text.id = msg.id => Carried(w, got, msg, o))
  BY <1>6, <1>7 DEF Letters, Delivered
<1>9. CASE Body = <<".">>
  <2>1. mail' = text /\ text'.id = 0
    BY <1>9 DEF TakesText
  <2>2. ASSUME ~msg.spoilt, msg.id > 0, text.id = msg.id PROVE ~o /\ got = Append(msg.text, "\n")
    <3>1. Len(Body) = 1 /\ Body[1] = "."
      BY <1>9
    <3>2. k = 2 /\ 1 \in 1 .. k - 1
      <4>1. k - 1 = 1
        BY ONLY <1>4, <3>1
      <4>2. k \in Nat
        BY <1>5
      <4> QED
        BY ONLY <4>1, <4>2
    <3>3. Len(w) >= 2 /\ w[1].verb = "." /\ w[2].verb = "\n"
      BY <1>4, <1>5, <3>1, <3>2
    <3>4. Carried(w, got, msg, o)
      BY <1>8, <2>2
    <3> QED
      BY <1>5, <1>6, <1>8, <3>3, <3>4, CarriedDot
  <2>3. Delivered(Wire', text', msg, o)
    <3>1. msg.id > 0 => text'.id # msg.id
      BY <1>6, <2>1
    <3>2. PICK y : y = text'
      OBVIOUS
    <3>3. ~msg.spoilt /\ msg.id > 0 /\ y.id = msg.id => Carried(SubSeq(w, k + 1, Len(w)), y.lines, msg, o)
      BY <3>1, <3>2
    <3>4. Delivered(SubSeq(w, k + 1, Len(w)), y, msg, o)
      BY <1>5, <1>6, <3>3, DeliveredRest
    <3> QED
      BY <1>5, <3>2, <3>4
  <2> QED
    BY <1>3, <1>7, <2>1, <2>2, <2>3
<1>10. CASE Body # <<".">>
  <2>1. c.id = 0 /\ mail' = mail
    <3>1. ~(c.id > 0) /\ c.id \in Nat
      BY <1>4, <1>10
    <3>2. mail' = mail
      BY <1>10 DEF TakesText
    <3> QED
      BY ONLY <3>1, <3>2
  <2>2. PICK line : /\ line = IF Body # <<>> /\ Head(Body) = "." THEN Tail(Body) ELSE Body
                    /\ text' = [text EXCEPT !.lines = text.lines \o Append(line, "\n")]
    BY <1>10 DEF TakesText
  <2>3. PICK s : s = IF w[1].verb = "." THEN 1 ELSE 0
    OBVIOUS
  <2>4. Opening(w, k, s)
    BY <1>4, <1>5, <2>3 DEF Opening
  <2>5. line \in Seq(Verbs) /\ CharsOf(line, w, k, s)
    <3>1. CASE Body = <<>>
      <4>1. k = 1 /\ line = Body /\ s = 0
        BY <1>4, <1>5, <2>2, <2>3, <3>1, EmptySeq
      <4> QED
        BY <1>4, <1>5, <4>1 DEF CharsOf
    <3>2. CASE Body # <<>>
      <4>1. Len(Body) # 0 /\ Head(Body) = Body[1]
        BY <1>5, <3>2, EmptySeq
      <4>2. 1 \in 1 .. k - 1 /\ Head(Body) = w[1].verb
        BY <1>4, <1>5, <4>1
      <4>3. CASE w[1].verb = "."
        <5>1. line = Tail(Body) /\ s = 1
          BY <2>2, <2>3, <3>2, <4>2, <4>3
        <5>2. line \in Seq(Verbs) /\ Len(line) = Len(Body) - 1 /\ \A i \in 1 .. Len(line) : line[i] = Body[i + 1]
          BY <1>5, <3>2, <5>1, HeadTailProperties
        <5>3. ASSUME NEW i \in 1 .. Len(line) PROVE line[i] = w[i + s].verb
          <6>1. PICK j : j = i + 1
            OBVIOUS
          <6>2. j \in 1 .. k - 1 /\ j = i + s
            BY <1>4, <1>5, <5>1, <5>2, <6>1
          <6> QED
            BY <1>5, <5>2, <6>1, <6>2
        <5> QED
          BY <1>4, <1>5, <5>1, <5>2, <5>3 DEF CharsOf
      <4>4. CASE w[1].verb # "."
        <5>1. line = Body /\ s = 0
          BY <2>2, <2>3, <4>2, <4>4
        <5> QED
          BY <1>4, <1>5, <5>1 DEF CharsOf
      <4> QED
        BY <4>3, <4>4
    <3> QED
      BY <3>1, <3>2
  <2>6. PICK y : y = text'
    OBVIOUS
  <2>7. y.id = text.id /\ y.lines = got \o Append(line, "\n")
    BY <1>6, <1>7, <2>2, <2>6 DEF Letters
  <2>8. ~msg.spoilt /\ msg.id > 0 /\ y.id = msg.id => Carried(SubSeq(w, k + 1, Len(w)), y.lines, msg, o)
    <3> SUFFICES ASSUME ~msg.spoilt, msg.id > 0, y.id = msg.id
                 PROVE  Carried(SubSeq(w, k + 1, Len(w)), got \o Append(line, "\n"), msg, o)
      BY <2>7
    <3>1. Carried(w, got, msg, o)
      BY <1>8, <2>7
    <3>2. w[k].id = 0
      BY <1>5, <2>1
    <3> QED
      BY <1>5, <1>6, <1>8, <2>4, <2>5, <3>1, <3>2, CarriedLine
  <2>9. Delivered(Wire', text', msg, o)
    <3>1. Delivered(SubSeq(w, k + 1, Len(w)), y, msg, o)
      BY <1>5, <1>6, <2>8, DeliveredRest
    <3> QED
      BY <1>5, <2>6, <3>1
  <2> QED
    BY <1>3, <2>1, <2>9 DEF Mailed, Sane
<1> QED
  BY <1>9, <1>10

\* The receiver takes a command: with DATA, a text begins.
LEMMA CommandDelivered ==
  ASSUME Base, Sane, Delivered(Wire, text, msg, InText), TakesCommand, Sane'
  PROVE  Delivered(Wire', text', msg', InText')
<1>1. /\ TakeLine /\ mode = "cmd" /\ text.id = 0
      /\ UNCHANGED <<area, output, call, out, put, mail, msg, n, shows, seen>>
  <2>1. TakeLine /\ mode = "cmd" /\ UNCHANGED <<area, output, call, out, put, mail, msg, n, shows, seen>>
    BY DEF TakesCommand, client
  <2>2. text \in Letters /\ (mode = "data" <=> text.id > 0)
    BY Known DEF MailBase
  <2>3. text.id \in Nat
    BY <2>2, SmtpAssumption DEF Letters
  <2> QED
    BY <2>1, <2>2, <2>3
<1>2. PICK k : LineTaken(k)
  BY <1>1, WireLine
<1>3. PICK c, w, o : c = Wire[k] /\ w = Wire /\ o = InText
  OBVIOUS
<1>4. /\ k \in 1 .. Len(w) /\ Wire' = SubSeq(w, k + 1, Len(w)) /\ Last(NextLine) = c
      /\ w[k] = c /\ c \in ItemSet /\ w \in Seq(ItemSet)
  <2>1. k \in 1 .. k
    BY <1>2 DEF LineTaken
  <2> QED
    BY <1>2, <1>3, <2>1, Known DEF LineTaken, NextIs
<1>5. PICK y : y = text'
  OBVIOUS
<1>6. ~msg.spoilt /\ msg.id > 0 /\ y.id = msg.id => Carried(SubSeq(w, k + 1, Len(w)), y.lines, msg, o)
  <2> SUFFICES ASSUME ~msg.spoilt, msg.id > 0, y.id = msg.id
               PROVE  Carried(SubSeq(w, k + 1, Len(w)), y.lines, msg, o)
    OBVIOUS
  <2>1. text' # text
    BY <1>1, <1>5
  <2>2. c.verb = "DATA" /\ text' = [id |-> c.id, lines |-> <<>>]
    BY <1>4, <2>1 DEF TakesCommand
  <2>3. c = Item("DATA", msg.id) /\ y.lines = <<>>
    BY <1>4, <1>5, <2>2 DEF ItemSet, Item
  <2> QED
    BY <1>3, <1>4, <2>3 DEF Delivered
<1>7. Delivered(w, text, msg, o)
  BY <1>3
<1>8. Delivered(SubSeq(w, k + 1, Len(w)), y, msg, o)
  BY <1>4, <1>6, <1>7, DeliveredRest
<1>9. InText' <=> o
  BY <1>1, <1>3 DEF InText
<1> QED
  BY <1>1, <1>4, <1>5, <1>8, <1>9

\* Nothing happens to what has been sent.
LEMMA SameDelivered ==
  ASSUME Delivered(Wire, text, msg, InText), Wire' = Wire, UNCHANGED <<text, msg>>, InText' <=> InText
  PROVE  Delivered(Wire', text', msg', InText')
BY DEF Delivered, Carried

\* A command behind the message.
LEMMA BehindDelivered ==
  ASSUME Base, Delivered(Wire, text, msg, InText), NEW verb \in Commands, n < MaxCmds,
         Wire' = Wire \o <<Item(verb, n + 1)>>, UNCHANGED <<text, msg>>, ~InText, ~InText'
  PROVE  Delivered(Wire', text', msg', InText')
<1>1. PICK w, v : w = Wire /\ v = <<Item(verb, n + 1)>>
  OBVIOUS
<1>2. /\ w \in Seq(ItemSet) /\ text \in Letters /\ msg \in Messages /\ n \in Nat /\ MaxCmds \in Nat
      /\ msg.id <= n
  BY <1>1, Known DEF MailBase, MsgBase
<1>3. Delivered(w, text, msg, FALSE)
  BY <1>1 DEF Delivered, Carried
<1>4. v \in Seq(ItemSet) /\ \A i \in 1 .. Len(v) : v[i] # Item("DATA", msg.id)
  <2>1. Item(verb, n + 1) \in ItemSet
    <3>1. n + 1 \in 0 .. MaxCmds /\ n + 1 > 0
      BY <1>2
    <3> QED
      BY <3>1 DEF Item, ItemSet, Verbs, Commands
  <2>2. msg.id # n + 1
    BY <1>2 DEF Messages
  <2>3. Item(verb, n + 1) # Item("DATA", msg.id)
    BY <2>2 DEF Item
  <2>4. v \in Seq(ItemSet) /\ Len(v) = 1 /\ v[1] = Item(verb, n + 1)
    BY <1>1, <2>1
  <2> QED
    BY <2>3, <2>4
<1>5. \A y \in Seq(ItemSet), got \in Seq(Verbs) :
        Carried(y, got, msg, FALSE) => Carried(y \o v, got, msg, FALSE)
  BY <1>2, <1>4, CarriedMore
<1>6. Delivered(w \o v, text, msg, FALSE)
  BY <1>2, <1>3, <1>4, <1>5, DeliveredMore
<1> QED
  BY <1>1, <1>6 DEF Delivered, Carried

\* A message begins: there is nothing of it behind its DATA.
LEMMA DataDelivered ==
  ASSUME Base, Sane', Data
  PROVE  Delivered(Wire', text', msg', InText')
<1>1. /\ n + 1 < MaxCmds /\ n \in Nat /\ Wire \in Seq(ItemSet) /\ MaxCmds \in Nat
      /\ msg' = [text |-> <<>>, id |-> n + 1, seam |-> NoSeam, spoilt |-> FALSE]
      /\ UNCHANGED <<stream, output, mode, text, mail, shows, seen>>
  BY Known DEF Data
<1>2. PICK op \in {"buffer", "file"} : send_cmd("DATA", op, "DATA", "text")
  BY DEF Data
<1>3. PICK x, to, v, w, u : /\ x = Item("DATA", n + 1) /\ v = <<x>> /\ w = Wire /\ u = w \o v
                            /\ to = IF output THEN "DATA" ELSE "text"
  OBVIOUS
<1>4. v \in Seq(ItemSet) /\ Len(v) = 1
  <2>1. n + 1 \in 0 .. MaxCmds /\ n + 1 > 0
    BY <1>1
  <2>2. x \in ItemSet
    BY <1>3, <2>1 DEF Item, ItemSet, Verbs, Commands
  <2> QED
    BY <1>3, <2>2
<1>5. Wire' = u /\ call' = IF to = "no" THEN Idle ELSE [op |-> op, at |-> to]
  <2>1. Sync(v, op, to) /\ link' = link
    BY <1>1, <1>2, <1>3 DEF send_cmd, stream
  <2> QED
    BY <1>3, <1>4, <2>1, SyncSends
<1>6. InText'
  BY <1>3, <1>5 DEF InText
<1>7. text'.id # n + 1
  <2>1. text.id <= n /\ text \in Letters
    BY Known DEF MailBase
  <2> QED
    BY <1>1, <2>1 DEF Letters
<1>8. Carried(<<>>, <<>>, msg', TRUE)
  <2>1. Len(<<>>) = 0
    BY EmptySeq
  <2>2. Begins(<<>>, <<>>)
    BY <2>1 DEF Begins
  <2>3. SeamFits(<<>>, NoSeam)
    BY <2>1 DEF SeamFits, NoSeam
  <2>4. Spelt(<<>>, 0, <<>>, 0, 0)
    <3>1. PICK h : h = [i \in 0 .. 0 |-> 0]
      OBVIOUS
    <3>2. h \in [0 .. 0 -> Nat] /\ h[0] = 0 /\ 1 .. 0 = {}
      BY <3>1
    <3> QED
      BY <3>2 DEF Spelt
  <2> QED
    BY <1>1, <2>1, <2>2, <2>3, <2>4 DEF Carried
<1>9. ASSUME NEW d \in 1 .. Len(u), u[d] = x PROVE SubSeq(u, d + 1, Len(u)) = <<>>
  <2>1. /\ u \in Seq(ItemSet) /\ Len(u) = Len(w) + 1 /\ Len(w) \in Nat
        /\ \A i \in 1 .. Len(w) : u[i] = w[i]
    BY <1>1, <1>3, <1>4, JoinParts
  <2>2. d \notin 1 .. Len(w)
    <3> SUFFICES ASSUME d \in 1 .. Len(w) PROVE FALSE
      OBVIOUS
    <3>1. w[d] = x
      BY <1>9, <2>1
    <3>2. w[d].id <= n
      <4>1. WireBase
        BY Known
      <4>2. Numbers(Wire, n)
        BY <4>1, NumbersJoin DEF WireBase, Wire
      <4> QED
        BY <1>3, <4>2 DEF Numbers
    <3> QED
      BY <1>1, <1>3, <3>1, <3>2 DEF Item
  <2>3. d = Len(u)
    BY <2>1, <2>2
  <2>4. d \in Nat
    BY <2>1, <2>3
  <2>5. SubSeq(u, d + 1, d) \in Seq(ItemSet) /\ Len(SubSeq(u, d + 1, d)) = d - d
    BY ONLY <2>1, <2>3, <2>4, Slice
  <2> QED
    BY <2>3, <2>4, <2>5, EmptySeq
<1>10. PICK ms, y, o : ms = msg' /\ y = text' /\ o = InText'
  OBVIOUS
<1>11. ms.id = n + 1 /\ y.id # ms.id /\ Item("DATA", ms.id) = x /\ Carried(<<>>, <<>>, ms, o)
  <2>1. o = TRUE
    BY <1>6, <1>10
  <2> QED
    BY <1>1, <1>3, <1>7, <1>8, <1>10, <2>1
<1>12. Delivered(u, y, ms, o)
  BY <1>9, <1>11 DEF Delivered
<1> QED
  BY <1>5, <1>10, <1>12

\* A chunk of the message goes to the put area.
LEMMA ChunkDelivered ==
  ASSUME Base, Delivered(Wire, text, msg, InText), SendBuf
  PROVE  Delivered(Wire', text', msg', InText')
<1>1. /\ UNCHANGED <<call, text, inbox>> /\ InText
      /\ Wire \in Seq(ItemSet) /\ text \in Letters /\ msg \in Messages
      /\ inbox \in Seq(ItemSet) /\ put \in Seq(ItemSet)
  BY Known DEF SendBuf, receiver, InText, MailBase, MsgBase
<1>2. PICK chunk \in Texts(IF call.op = "file" THEN Chunk ELSE MaxText), behind \in Behind :
        /\ put' = put \o Items(Stuffed(chunk, behind))
        /\ msg' = [msg EXCEPT
             !.text = msg.text \o chunk,
             !.seam = [ch |-> Last(chunk), dot |-> Last(chunk) = "\n" /\ behind = "."],
             !.spoilt = msg.spoilt \/ Spoils(chunk)]
  BY DEF SendBuf
<1>3. PICK l, c, w, v : l = Len(chunk) /\ c = Stuffed(chunk, behind) /\ w = Wire /\ v = Items(c)
  OBVIOUS
<1>4. /\ chunk \in Seq(Glyphs) /\ l \in Nat \ {0} /\ chunk \in [1 .. l -> Glyphs]
      /\ Head(chunk) = chunk[1] /\ Last(chunk) = chunk[l]
  <2>1. (IF call.op = "file" THEN Chunk ELSE MaxText) \in Nat
    BY SmtpAssumption
  <2> QED
    BY <1>3, <2>1, ChunkIs
<1>5. c \in Seq(Glyphs) /\ \E g \in [1 .. l -> Nat] : CharsAt(g, c, chunk, behind)
  BY <1>3, <1>4, StuffedIs
<1>6. PICK g \in [1 .. l -> Nat] : CharsAt(g, c, chunk, behind)
  BY <1>5
<1>7. v \in Seq(ItemSet) /\ \A i \in 1 .. Len(v) : v[i] # Item("DATA", msg.id)
  <2>1. v \in Seq(ItemSet) /\ Len(v) = Len(c) /\ \A i \in 1 .. Len(c) : v[i] = Item(c[i], 0)
    <3>1. 0 \in Nat
      OBVIOUS
    <3> QED
      BY <1>3, <1>5, <3>1, ItemsAre
  <2>2. ASSUME NEW i \in 1 .. Len(c) PROVE v[i] # Item("DATA", msg.id)
    <3>1. c[i] \in Glyphs
      BY <1>5, ElementOfSeq
    <3>2. v[i] = Item(c[i], 0)
      BY <2>1
    <3> QED
      BY <3>1, <3>2 DEF Item, Glyphs
  <2> QED
    BY <2>1, <2>2
<1>8. Wire' = w \o v
  <2>1. (inbox \o put) \o v = inbox \o (put \o v)
    <3>1. inbox \in Seq(ItemSet) /\ put \in Seq(ItemSet) /\ v \in Seq(ItemSet)
      BY <1>1, <1>7
    <3> QED
      BY ONLY <3>1, ConcatAssociative
  <2> QED
    BY <1>1, <1>2, <1>3, <2>1 DEF Wire
<1>9. PICK ms, mt : ms = msg /\ mt = msg'
  OBVIOUS
<1>10. /\ mt.id = ms.id /\ mt.text = ms.text \o chunk
       /\ mt.seam = [ch |-> chunk[l], dot |-> chunk[l] = "\n" /\ behind = "."]
       /\ mt.spoilt = (ms.spoilt \/ Spoils(chunk)) /\ ms \in Messages
  BY <1>1, <1>2, <1>4, <1>9 DEF Messages
<1>11. ~mt.spoilt => ~ms.spoilt /\ ~Spoils(chunk)
  BY <1>10
<1>12. ASSUME ~mt.spoilt, NEW y \in Seq(ItemSet), NEW got \in Seq(Verbs), Carried(y, got, ms, TRUE)
       PROVE  Carried(y \o v, got, mt, TRUE)
  <2>1. /\ ms.seam.ch \in {"none", "\n"} \/ chunk[1] # "."
        /\ ~ms.seam.dot \/ chunk[1] \notin {".", "\n"}
    BY <1>4, <1>9, <1>11, <1>12 DEF Spoils
  <2>2. l = Len(chunk)
    BY <1>3
  <2>3. Carried(y \o Items(c), got, mt, TRUE)
    BY <1>4, <1>5, <1>6, <1>10, <1>12, <2>1, <2>2, CarriedChunk
  <2> QED
    BY <1>3, <2>3
<1>13. Delivered(w, text, ms, TRUE)
  BY <1>1, <1>3, <1>9 DEF Delivered, Carried
<1>14. Delivered(w \o v, text, mt, TRUE)
  <2>1. /\ \A i \in 1 .. Len(v) : v[i] # Item("DATA", ms.id)
        /\ ~mt.spoilt /\ ms.id > 0 =>
             \A y \in Seq(ItemSet), got \in Seq(Verbs) : Carried(y, got, ms, TRUE) => Carried(y \o v, got, mt, TRUE)
    BY <1>7, <1>9, <1>12
  <2>2. w \in Seq(ItemSet)
    BY <1>1, <1>3
  <2> QED
    BY <1>1, <1>7, <1>10, <1>11, <1>13, <2>1, <2>2, DeliveredMore
<1>15. InText' /\ text' = text
  BY <1>1 DEF InText
<1> QED
  BY <1>8, <1>9, <1>14, <1>15 DEF Delivered, Carried

\* The end of the text is sent.
LEMMA EndDelivered ==
  ASSUME Base, Sane', Delivered(Wire, text, msg, InText), EndText
  PROVE  Delivered(Wire', text', msg', InText')
<1>1. /\ Wire \in Seq(ItemSet) /\ text \in Letters /\ msg \in Messages /\ InText
      /\ n \in Nat /\ MaxCmds \in Nat /\ n < MaxCmds
      /\ UNCHANGED <<stream, text>>
      /\ Sync(EndOfText(n + 1), call.op, IF output THEN "end" ELSE "no")
  BY Known DEF EndText, InText, MailBase, MsgBase, CallBase
<1>2. PICK w, id, v, to : w = Wire /\ id = n + 1 /\ v = EndOfText(id) /\ to = IF output THEN "end" ELSE "no"
  OBVIOUS
<1>3. id \in 1 .. MaxCmds
  BY <1>1, <1>2
<1>4. v \in Seq(ItemSet) /\ \A i \in 1 .. Len(v) : v[i] # Item("DATA", msg.id)
  <2>1. /\ v \in Seq(ItemSet) /\ Len(v) = 3
        /\ v[1] = Item("\n", 0) /\ v[2] = Item(".", 0) /\ v[3] = Item("\n", id)
    BY <1>2, <1>3, EndOfTextIs
  <2>2. v[1] # Item("DATA", msg.id) /\ v[2] # Item("DATA", msg.id) /\ v[3] # Item("DATA", msg.id)
    BY <2>1 DEF Item
  <2>3. 1 .. Len(v) = {1, 2, 3}
    BY <2>1
  <2> QED
    BY <2>1, <2>2, <2>3
<1>5. Wire' = w \o v /\ call' = IF to = "no" THEN Idle ELSE [op |-> call.op, at |-> to]
  <2>1. link' = link /\ Sync(v, call.op, to)
    BY <1>1, <1>2 DEF stream
  <2> QED
    BY <1>2, <1>4, <2>1, SyncSends
<1>6. ~InText'
  BY <1>2, <1>5 DEF InText, Idle
<1>7. PICK ms, mt : ms = msg /\ mt = msg'
  OBVIOUS
<1>8. PICK readFails : mt = [ms EXCEPT !.spoilt = ms.spoilt \/ ms.seam.dot \/ readFails, !.seam = NoSeam]
  BY <1>7 DEF EndText
<1>9. /\ ms \in Messages /\ mt.id = ms.id /\ mt.text = ms.text
      /\ ~mt.spoilt => ~ms.spoilt /\ ~ms.seam.dot
  BY <1>1, <1>7, <1>8 DEF Messages
<1>10. ASSUME ~mt.spoilt, NEW y \in Seq(ItemSet), NEW got \in Seq(Verbs), Carried(y, got, ms, TRUE)
       PROVE  Carried(y \o v, got, mt, FALSE)
  BY <1>2, <1>3, <1>9, <1>10, CarriedEnd
<1>11. Delivered(w, text, ms, TRUE)
  BY <1>1, <1>2, <1>7 DEF Delivered, Carried
<1>12. Delivered(w \o v, text, mt, FALSE)
  <2>1. /\ \A i \in 1 .. Len(v) : v[i] # Item("DATA", ms.id)
        /\ ~mt.spoilt /\ ms.id > 0 =>
             \A y \in Seq(ItemSet), got \in Seq(Verbs) : Carried(y, got, ms, TRUE) => Carried(y \o v, got, mt, FALSE)
    BY <1>4, <1>7, <1>10
  <2>2. w \in Seq(ItemSet)
    BY <1>1, <1>2
  <2> QED
    BY <1>1, <1>4, <1>9, <1>11, <2>1, <2>2, DeliveredMore
<1> QED
  BY <1>1, <1>5, <1>6, <1>7, <1>12 DEF Delivered, Carried

\* What a tidy client and its receiver do to the message on its way.
LEMMA StepDelivered ==
  ASSUME Base, Sane, Phases, Mailed, Delivered(Wire, text, msg, InText), Next, Sane'
  PROVE  Delivered(Wire', text', msg', InText')
<1>1. /\ call.op = "none" => call.at = "no"
      /\ n \in Nat /\ link \in {"none", "open"} /\ inbox \in Seq(ItemSet) /\ put \in Seq(ItemSet)
      /\ MaxCmds \in Nat
  BY Known DEF CallBase, Calling, StreamBase, Sane
<1>2. ASSUME NEW verb \in Commands, n < MaxCmds, NEW op, NEW at, at \notin {"DATA", "text"},
             Sync(<<Item(verb, n + 1)>>, op, at), UNCHANGED <<link, text, msg>>, ~InText
      PROVE  Delivered(Wire', text', msg', InText')
  <2>1. <<Item(verb, n + 1)>> \in Seq(ItemSet)
    <3>1. n + 1 \in 0 .. MaxCmds /\ n + 1 > 0
      BY <1>1, <1>2
    <3>2. Item(verb, n + 1) \in ItemSet
      BY <3>1 DEF Item, ItemSet, Verbs, Commands
    <3> QED
      BY <3>2
  <2>2. /\ Wire' = Wire \o <<Item(verb, n + 1)>>
        /\ call' = IF at = "no" THEN Idle ELSE [op |-> op, at |-> at]
    BY <1>2, <2>1, SyncSends
  <2>3. ~InText'
    BY <1>2, <2>2 DEF InText, Idle
  <2> QED
    BY <1>2, <2>2, <2>3, BehindDelivered
<1>3. CASE Connects \/ Show
  <2>1. UNCHANGED <<put, inbox, text, msg>> /\ ~InText /\ ~InText'
    BY <1>1, <1>3 DEF Connects, Show, CanCall, receiver, ghosts, InText
  <2> QED
    BY <2>1, SameDelivered DEF Wire
<1>4. CASE Helo
  <2>1. /\ UNCHANGED <<link, text, msg>> /\ ~InText /\ n < MaxCmds /\ "other" \in Commands
    BY <1>1, <1>4 DEF Helo, CanCall, stream, InText, Commands
  <2>2. CASE call' = [op |-> "helo", at |-> "greeting"] /\ UNCHANGED <<put, inbox>>
    <3>1. Wire' = Wire /\ ~InText'
      BY <2>2 DEF Wire, InText
    <3> QED
      BY <2>1, <3>1, SameDelivered
  <2>3. CASE send_cmd("other", "helo", "reply", "no")
    <3>1. PICK at : at \notin {"DATA", "text"} /\ Sync(<<Item("other", n + 1)>>, "helo", at)
      BY <2>3 DEF send_cmd
    <3> QED
      BY <1>2, <2>1, <3>1
  <2> QED
    BY <1>4, <2>2, <2>3 DEF Helo
<1>5. CASE Command
  <2>1. /\ UNCHANGED <<link, text, msg>> /\ ~InText /\ n < MaxCmds
    BY <1>1, <1>5 DEF Command, CanCall, stream, InText
  <2>2. PICK verb \in Commands \ {"DATA"} : send_cmd(verb, "command", "reply", "no")
    BY <1>5 DEF Command
  <2>3. PICK at : at \notin {"DATA", "text"} /\ Sync(<<Item(verb, n + 1)>>, "command", at)
    BY <2>2 DEF send_cmd
  <2> QED
    BY <1>2, <2>1, <2>2, <2>3
<1>6. CASE Data
  BY <1>6, DataDelivered
<1>7. CASE SendBuf
  BY <1>7, ChunkDelivered
<1>8. CASE Overflow
  <2>1. /\ inbox' = IF link = "open" THEN inbox \o put ELSE inbox
        /\ put' = <<>> /\ link # "none" /\ UNCHANGED <<call, text, msg>>
    BY <1>8 DEF Overflow, Throw, Sane
  <2>2. Wire' = Wire
    <3>1. inbox' = inbox \o put /\ inbox \o put \in Seq(ItemSet)
      BY <1>1, <2>1, ConcatProperties
    <3> QED
      BY <2>1, <3>1, ConcatEmptySeq DEF Wire
  <2> QED
    BY <2>1, <2>2, SameDelivered DEF InText
<1>9. CASE EndText
  BY <1>9, EndDelivered
<1>10. CASE ResponseRefill \/ ShowLine \/ Greets
  <2>1. UNCHANGED <<put, inbox, text, msg>> /\ (InText' <=> InText)
    BY <1>10, Known DEF ResponseRefill, ShowLine, Greets, client, receiver, ghosts, InText, Idle
  <2> QED
    BY <2>1, SameDelivered DEF Wire
<1>11. CASE ResponseLine
  <2>1. UNCHANGED <<link, text, msg>> /\ ~(call.at = "greeting" /\ InText)
    BY <1>11 DEF ResponseLine, InText
  <2>2. CASE Got
    <3>1. UNCHANGED <<put, inbox>> /\ (InText' <=> InText)
      <4>1. call \in Places
        BY Known DEF CallBase, Calling
      <4> QED
        BY <2>2, <4>1 DEF Got, Goes, InText, Idle, Places
    <3> QED
      BY <2>1, <3>1, SameDelivered DEF Wire
  <2>3. CASE call.at = "greeting" /\ Sync(<<Item("other", n + 1)>>, "helo", "reply")
    <3>1. n < MaxCmds /\ "other" \in Commands /\ ~InText
      BY <2>1, <2>3, Known DEF CallBase, Commands
    <3>2. PICK at : at = "reply" /\ Sync(<<Item("other", n + 1)>>, "helo", at)
      BY <2>3
    <3> QED
      BY <1>2, <2>1, <3>1, <3>2
  <2>4. CASE UNCHANGED <<call, put, inbox>>
    BY <2>1, <2>4, SameDelivered DEF Wire, InText
  <2> QED
    BY <1>11, <2>2, <2>3, <2>4 DEF ResponseLine
<1>12. CASE ResponseEof \/ ResponseFails \/ Closes
  BY <1>12, EofPhases
<1>13. CASE TakesCommand
  BY <1>13, CommandDelivered
<1>14. CASE TakesText
  <2>1. Delivered(Wire', text', msg, InText) /\ UNCHANGED <<call, msg>>
    BY <1>14, TextDelivered DEF TakesText, client
  <2> QED
    BY <2>1 DEF InText, Delivered, Carried
<1> QED
  BY <1>3, <1>4, <1>5, <1>6, <1>7, <1>8, <1>9, <1>10, <1>11, <1>12, <1>13, <1>14
  DEF Next, Calls, Proceeds, Receiver

\* What has been accepted, after any step.
LEMMA StepMailed ==
  ASSUME Base, Sane => Phases, Delivery, Next
  PROVE  Mailed'
<1> SUFFICES ASSUME tidy' PROVE Mailed'
  BY DEF Mailed
<1>1. tidy /\ Mailed
  BY OnceOver DEF Delivery
<1>2. CASE MessageKept
  BY <1>1, <1>2, MailedKept
<1>3. CASE Data
  <2>1. msg'.id = n + 1 /\ mail' = mail /\ mail.id <= n /\ n \in Nat /\ mail \in Letters
    BY <1>3, Known DEF Data, MailBase
  <2>2. mail'.id # msg'.id
    BY <2>1 DEF Letters
  <2> QED
    BY <2>2 DEF Mailed
<1>4. CASE TakesText
  <2>1. Sane /\ msg' = msg /\ call' = call
    BY <1>1, <1>4 DEF TakesText, TakeLine, Sane, client
  <2>2. Phases /\ Delivered(Wire, text, msg, InText)
    BY <2>1 DEF Delivery
  <2>3. tidy' /\ ~msg.spoilt /\ msg.id > 0 /\ mail'.id = msg.id => ~InText /\ mail'.lines = Append(msg.text, "\n")
    BY <1>1, <1>4, <2>1, <2>2, TextDelivered
  <2> QED
    BY <2>1, <2>3 DEF Mailed, InText
<1> QED
  BY <1>2, <1>3, <1>4, MessageSteps

\* The invariant with the message.
Invariant == IInv /\ Delivery


\* There is no message yet.
LEMMA InitInvariant == Init => Invariant
<1> SUFFICES ASSUME Init PROVE Delivery
  BY InitIInv DEF Invariant
<1>1. msg.id = 0
  BY DEF Init
<1> QED
  BY <1>1 DEF Delivery, Mailed, Delivered

\* It is inductive, too.
LEMMA StepInvariant == ASSUME Invariant, [Next]_vars PROVE Invariant'
<1>1. IInv /\ Delivery /\ IInv'
  BY StepIInv DEF Invariant
<1>2. CASE Next
  <2>1. Base /\ (Sane => Phases) /\ Mailed
    BY <1>1 DEF IInv, Delivery
  <2>2. Mailed'
    BY <1>1, <1>2, <2>1, StepMailed
  <2>3. Sane' => Delivered(Wire', text', msg', InText')
    BY <1>1, <1>2, <2>1, OnceOver, StepDelivered DEF Delivery
  <2> QED
    BY <1>1, <2>2, <2>3 DEF Invariant, Delivery
<1>3. CASE UNCHANGED vars
  <2>1. Wire' = Wire /\ UNCHANGED <<tidy, link, call, text, mail, msg>>
    BY <1>3 DEF vars, Wire
  <2>2. Mailed'
    BY <1>1, <2>1 DEF Delivery, Mailed, InText
  <2>3. Sane' => Delivered(Wire', text', msg', InText')
    BY <1>1, <2>1, SameDelivered DEF Delivery, Sane, InText
  <2> QED
    BY <1>1, <2>2, <2>3 DEF Invariant, Delivery
<1> QED
  BY <1>2, <1>3

\* The receiver has the message that data () was given, with the end of line
\* that the final dot needs in front of it (smtp.cpp:87-160): however the text
\* falls into chunks, whatever lies behind each of them in the buffer, and
\* wherever a full put area is sent on the way; for a tidy client, and unless
\* a boundary is in a place that Spoils names.
THEOREM MessageArrives == Spec => []MessageDelivered
<1>1. Invariant => MessageDelivered
  <2> SUFFICES ASSUME Invariant, mail.id > 0, mail.id = msg.id, tidy, ~msg.spoilt
               PROVE  mail.lines = Append(msg.text, "\n")
    BY DEF MessageDelivered
  <2> QED
    BY DEF Invariant, Delivery, Mailed
<1> QED
  BY <1>1, InitInvariant, StepInvariant, PTL DEF Spec
=============================================================================

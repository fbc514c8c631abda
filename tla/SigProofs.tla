------------------------------ MODULE SigProofs ------------------------------
(***************************************************************************)
(* Proofs about socketpp::sig, for any signals, handlers and depth of the  *)
(* stack: callbacks in signals in callbacks.                               *)
(*                                                                         *)
(* The properties of Sig are not inductive alone.  That a listed signal is *)
(* handled needs to know what the call of set in progress has read, and    *)
(* that nobody else works on that signal; that a loop of sig::kill misses  *)
(* nobody needs each handler it has yet to invoke to be behind its place;  *)
(* that no dead handler is listed needs the handler of a set in progress   *)
(* to live.                                                                *)
(***************************************************************************)
EXTENDS Sig, BytesProofs, FiniteSetTheorems

USE BoundAssumption

Actions == [handler : {"SIG_DFL", "sighandler"}, mask : SUBSET Signo]

Frames == [f : Calls \cup {"kill"}, at : {"begin", "read", "push", "next", "callback"},
           s : Signo, h : Handler \cup {NoHandler}, sa : Actions, i : Nat,
           cut : BOOLEAN, todo : SUBSET Handler, real : BOOLEAN, mask : SUBSET Signo]

\* What the variables by themselves are.
Basic ==
  /\ smap \in [Signo -> Seq(Handler)]
  /\ act \in [Signo -> Actions]
  /\ blocked \subseteq Signo /\ pending \subseteq Signo
  /\ stack \in Seq(Frames)
  /\ obj \in [Handler -> {"none", "base", "live", "dying", "dead"}]
  /\ home \in [Handler -> Signo]
  /\ fate \in {"running", "killed", "pure virtual", "deleted", "erased"}
  /\ calls \in 0 .. MaxCalls /\ raised \in 0 .. MaxRaised /\ raced \subseteq Signo

\* The calls that work on the list or the action of a signal.
Changes == Calls \ {"new"}

\* A loop over list v is at a place of it, one behind if its node was erased;
\* what it has yet to invoke is behind its place.
LoopSound(fr, v) ==
  /\ fr.i \in 0 .. Len(v) + (IF fr.cut THEN 1 ELSE 0)
  /\ ~fr.cut => \A h \in fr.todo : \E q \in 1 .. Len(v) : q > fr.i /\ v[q] = h

\* A frame is where its function can be, with lists m and homes hm.
Sound(fr, m, hm) ==
  /\ fr.f = "kill" <=> fr.at \in {"next", "callback"}
  /\ fr.f \in {"new", "delete"} => fr.at = "begin" /\ fr.s = hm[fr.h]
  /\ fr.f \in {"new", "delete", "set"} => fr.h \in Handler
  /\ fr.at = "push" => fr.f = "set"
  /\ fr.f = "kill" => LoopSound(fr, m[fr.s])

\* What a call in progress has read still holds, and the handler it is about
\* to add lives, unless another call on its signal raced with it; with lists
\* m, actions a, objects ob, homes hm, and R the signals on which calls raced.
InFlight(fr, m, a, ob, hm, R) ==
  fr.s \notin R =>
    /\ fr.f \in {"set", "unbind"} /\ fr.at \in {"read", "push"} => m[fr.s] = <<>>
    /\ fr.f = "set" /\ fr.at = "read" => fr.sa = a[fr.s]
    /\ fr.f = "set" /\ fr.at = "push" => a[fr.s].handler = "sighandler"
    /\ fr.f = "set" /\ fr.s = hm[fr.h] => ob[fr.h] \in {"base", "live"}

\* At most one call works on a signal that is not in R.
OneIn(st, R) ==
  \A k, l \in 1 .. Len(st) :
    (st[k].f \in Changes /\ st[l].f \in Changes /\ st[k].s = st[l].s /\ st[k].s \notin R)
      => k = l

\* The inductive invariant.
IInv ==
  /\ Basic
  /\ \A k \in 1 .. Len(stack) : Sound(stack[k], smap, home)
  /\ \A k \in 1 .. Len(stack) : InFlight(stack[k], smap, act, obj, home, raced)
  /\ OneIn(stack, raced)
  /\ RegisteredIsHandled
  /\ DeadAreUnlisted

------------------------------------------------------------------------------
(* Stacks.                                                                 *)

\* A frame on top of a stack.
LEMMA PushFrame ==
  ASSUME NEW st \in Seq(Frames), NEW fr \in Frames, NEW t, t = <<fr>> \o st
  PROVE  /\ t \in Seq(Frames) /\ Len(t) = Len(st) + 1 /\ t # <<>>
         /\ t[1] = fr
         /\ \A k \in 1 .. Len(t) : k # 1 => k - 1 \in 1 .. Len(st) /\ t[k] = st[k - 1]
<1>1. <<fr>> \in Seq(Frames) /\ Len(<<fr>>) = 1 /\ <<fr>>[1] = fr
  OBVIOUS
<1>2. /\ t \in Seq(Frames) /\ Len(t) = 1 + Len(st)
      /\ \A k \in 1 .. 1 + Len(st) : t[k] = IF k <= 1 THEN <<fr>>[k] ELSE st[k - 1]
  BY <1>1, ConcatProperties
<1>3. Len(st) \in Nat
  BY LenProperties
<1> QED
  BY <1>1, <1>2, <1>3

\* Two frames are one behind the other.
LEMMA TwoFrames ==
  ASSUME NEW a \in Frames, NEW b \in Frames
  PROVE  /\ <<a>> \in Seq(Frames) /\ <<b>> \in Seq(Frames)
         /\ <<a, b>> = <<a>> \o <<b>>
<1>1. /\ <<a>> \in Seq(Frames) /\ Len(<<a>>) = 1 /\ <<a>>[1] = a
      /\ <<b>> \in Seq(Frames) /\ Len(<<b>>) = 1 /\ <<b>>[1] = b
      /\ <<a, b>> \in Seq(Frames) /\ Len(<<a, b>>) = 2
      /\ <<a, b>>[1] = a /\ <<a, b>>[2] = b
  OBVIOUS
<1>2. PICK c, d : c = <<a>> /\ d = <<b>>
  OBVIOUS
<1>3. /\ c \o d \in Seq(Frames) /\ Len(c \o d) = Len(c) + Len(d)
      /\ \A k \in 1 .. Len(c) + Len(d) :
           (c \o d)[k] = IF k <= Len(c) THEN c[k] ELSE d[k - Len(c)]
  BY <1>1, <1>2, ConcatProperties
<1>4. Len(c \o d) = 2 /\ (c \o d)[1] = a /\ (c \o d)[2] = b
  BY <1>1, <1>2, <1>3
<1>5. PICK x, y : x = <<a, b>> /\ y = c \o d
  OBVIOUS
<1>6. \A k \in 1 .. Len(x) : x[k] = y[k]
  BY <1>1, <1>4, <1>5
<1>7. x = y
  BY <1>1, <1>3, <1>4, <1>5, <1>6, SeqEqual
<1> QED
  BY <1>1, <1>2, <1>5, <1>7

\* The stack without its top.
LEMMA PopFrame ==
  ASSUME NEW st \in Seq(Frames), st # <<>>, NEW t, t = Tail(st)
  PROVE  /\ t \in Seq(Frames) /\ Len(t) = Len(st) - 1
         /\ \A k \in 1 .. Len(t) : /\ k + 1 \in 1 .. Len(st) /\ k + 1 # 1
                                   /\ t[k] = st[k + 1]
<1>1. Len(st) \in Nat /\ Len(st) # 0
  BY LenProperties, EmptySeq
<1>2. /\ t \in Seq(Frames) /\ Len(t) = Len(st) - 1
      /\ \A k \in 1 .. Len(t) : t[k] = st[k + 1]
  BY HeadTailProperties
<1> QED
  BY <1>1, <1>2

\* The stack with another frame in place of its top.
LEMMA ReplaceFrame ==
  ASSUME NEW st \in Seq(Frames), st # <<>>, NEW fr \in Frames,
         NEW t, t = <<fr>> \o Tail(st)
  PROVE  /\ t \in Seq(Frames) /\ Len(t) = Len(st) /\ t # <<>>
         /\ t[1] = fr
         /\ \A k \in 1 .. Len(t) : k # 1 => k \in 1 .. Len(st) /\ t[k] = st[k]
<1>1. PICK u : u = Tail(st)
  OBVIOUS
<1>2. /\ u \in Seq(Frames) /\ Len(u) = Len(st) - 1
      /\ \A k \in 1 .. Len(u) : /\ k + 1 \in 1 .. Len(st) /\ k + 1 # 1
                                /\ u[k] = st[k + 1]
  BY <1>1, PopFrame
<1>3. /\ t \in Seq(Frames) /\ Len(t) = Len(u) + 1 /\ t # <<>>
      /\ t[1] = fr
      /\ \A k \in 1 .. Len(t) : k # 1 => k - 1 \in 1 .. Len(u) /\ t[k] = u[k - 1]
  BY <1>1, <1>2, PushFrame
<1>4. Len(st) \in Nat
  BY LenProperties
<1>5. ASSUME NEW k \in 1 .. Len(t), k # 1
      PROVE  k \in 1 .. Len(st) /\ t[k] = st[k]
  <2>1. t[k] = u[k - 1] /\ k - 1 \in 1 .. Len(u)
    BY <1>3, <1>5
  <2>2. u[k - 1] = st[(k - 1) + 1] /\ (k - 1) + 1 \in 1 .. Len(st)
    BY <1>2, <2>1
  <2>3. (k - 1) + 1 = k
    OBVIOUS
  <2> QED
    BY <2>1, <2>2, <2>3
<1> QED
  BY <1>2, <1>3, <1>4, <1>5

\* The top of a stack that holds.
LEMMA TopFacts ==
  ASSUME IInv, stack # <<>>
  PROVE  /\ stack \in Seq(Frames) /\ Len(stack) \in Nat /\ 1 \in 1 .. Len(stack)
         /\ Top \in Frames
         /\ Sound(Top, smap, home)
         /\ InFlight(Top, smap, act, obj, home, raced)
         /\ \A k \in 1 .. Len(stack) :
              (k # 1 /\ Top.f \in Changes /\ stack[k].f \in Changes
                 /\ stack[k].s = Top.s) => Top.s \in raced
<1>1. stack \in Seq(Frames) /\ Len(stack) \in Nat /\ Len(stack) # 0
  BY LenProperties, EmptySeq DEF IInv, Basic
<1>2. 1 \in 1 .. Len(stack)
  BY <1>1
<1>3. Top = stack[1] /\ Top \in Frames
  BY <1>1, <1>2, ElementOfSeq DEF Top
<1>4. Sound(Top, smap, home) /\ InFlight(Top, smap, act, obj, home, raced)
  BY <1>2, <1>3 DEF IInv
<1>5. ASSUME NEW k \in 1 .. Len(stack), k # 1, Top.f \in Changes,
             stack[k].f \in Changes, stack[k].s = Top.s
      PROVE  Top.s \in raced
  BY <1>2, <1>3, <1>5 DEF IInv, OneIn
<1> QED
  BY <1>1, <1>2, <1>3, <1>4, <1>5

\* The stack holds frames.
LEMMA StackFacts ==
  ASSUME IInv
  PROVE  /\ stack \in Seq(Frames) /\ Len(stack) \in Nat
         /\ \A k \in 1 .. Len(stack) :
              /\ stack[k] \in Frames
              /\ Sound(stack[k], smap, home)
              /\ InFlight(stack[k], smap, act, obj, home, raced)
<1>1. stack \in Seq(Frames) /\ Len(stack) \in Nat
  BY LenProperties DEF IInv, Basic
<1> QED
  BY <1>1, ElementOfSeq DEF IInv

\* The invariant gives the type invariant.
LEMMA Types == IInv => TypeOK
<1> SUFFICES ASSUME IInv PROVE TypeOK
  OBVIOUS
<1>1. ASSUME NEW k \in 1 .. Len(stack)
      PROVE  /\ stack[k].f \in Calls \cup {"kill"}
             /\ stack[k].at \in {"begin", "read", "push", "next", "callback"}
             /\ stack[k].s \in Signo /\ stack[k].todo \subseteq Handler
             /\ stack[k].f = "kill" =>
                  stack[k].i \in 0 .. Len(smap[stack[k].s])
                                      + (IF stack[k].cut THEN 1 ELSE 0)
  <2>1. stack[k] \in Frames /\ Sound(stack[k], smap, home)
    BY StackFacts
  <2> QED
    BY <2>1 DEF Sound, LoopSound, Frames
<1> QED
  BY <1>1 DEF IInv, Basic, TypeOK, Actions

------------------------------------------------------------------------------
(* Lists, and the loops over them.                                         *)

Unique(v) == \A p, q \in 1 .. Len(v) : v[p] = v[q] => p = q

\* A list without its p-th node.
LEMMA RemoveFacts ==
  ASSUME NEW v \in Seq(Handler), NEW p \in 1 .. Len(v), NEW w, w = RemoveAt(v, p)
  PROVE  /\ w \in Seq(Handler) /\ Len(w) = Len(v) - 1
         /\ \A q \in 1 .. Len(w) : w[q] = IF q < p THEN v[q] ELSE v[q + 1]
<1>1. Len(v) \in Nat /\ p \in Nat /\ p - 1 \in 0 .. Len(v) /\ p \in 0 .. Len(v)
  BY LenProperties
<1>2. PICK a, b : a = SubSeq(v, 1, p - 1) /\ b = SubSeq(v, p + 1, Len(v))
  OBVIOUS
<1>3. /\ a \in Seq(Handler) /\ Len(a) = p - 1
      /\ \A q \in 1 .. p - 1 : a[q] = v[q]
  BY <1>1, <1>2, Prefix
<1>4. /\ b \in Seq(Handler) /\ Len(b) = Len(v) - p
      /\ \A q \in 1 .. Len(v) - p : b[q] = v[p + q]
  BY <1>1, <1>2, Slice
<1>5. w = a \o b
  BY <1>2 DEF RemoveAt
<1>6. /\ w \in Seq(Handler) /\ Len(w) = Len(a) + Len(b)
      /\ \A q \in 1 .. Len(a) + Len(b) : w[q] = IF q <= Len(a) THEN a[q] ELSE b[q - Len(a)]
  <2>1. a \in Seq(Handler) /\ b \in Seq(Handler)
    BY <1>3, <1>4
  <2>2. /\ a \o b \in Seq(Handler) /\ Len(a \o b) = Len(a) + Len(b)
        /\ \A q \in 1 .. Len(a) + Len(b) :
             (a \o b)[q] = IF q <= Len(a) THEN a[q] ELSE b[q - Len(a)]
    BY <2>1, ConcatProperties
  <2> QED
    BY <1>5, <2>2
<1>7. Len(w) = Len(v) - 1
  BY <1>1, <1>3, <1>4, <1>6
<1>8. ASSUME NEW q \in 1 .. Len(w)
      PROVE  w[q] = IF q < p THEN v[q] ELSE v[q + 1]
  <2>1. q \in Nat /\ q \in 1 .. Len(a) + Len(b)
    BY <1>1, <1>6, <1>7
  <2>2. CASE q < p
    <3>1. q <= Len(a) /\ q \in 1 .. p - 1
      BY <1>1, <1>3, <2>1, <2>2
    <3> QED
      BY <1>3, <1>6, <2>1, <2>2, <3>1
  <2>3. CASE q >= p
    <3>1. ~(q <= Len(a)) /\ q - (p - 1) \in 1 .. Len(v) - p
      BY <1>1, <1>3, <1>7, <2>1, <2>3
    <3>2. w[q] = b[q - (p - 1)]
      BY <1>3, <1>6, <2>1, <3>1
    <3>3. b[q - (p - 1)] = v[p + (q - (p - 1))]
      BY <1>4, <3>1
    <3>4. p + (q - (p - 1)) = q + 1
      BY <1>1, <2>1
    <3> QED
      BY <1>1, <2>1, <2>3, <3>2, <3>3, <3>4
  <2> QED
    BY <1>1, <2>1, <2>2, <2>3
<1> QED
  BY <1>6, <1>7, <1>8

\* What is on the list without its p-th node was on it; each handler once, if
\* it was so before, and then not the one that left.
LEMMA RemoveUnique ==
  ASSUME NEW v \in Seq(Handler), NEW p \in 1 .. Len(v), NEW w, w = RemoveAt(v, p)
  PROVE  /\ \A h : Contains(w, h) => Contains(v, h)
         /\ Unique(v) => Unique(w) /\ ~Contains(w, v[p])
<1>1. /\ w \in Seq(Handler) /\ Len(w) = Len(v) - 1
      /\ \A q \in 1 .. Len(w) : w[q] = IF q < p THEN v[q] ELSE v[q + 1]
  BY RemoveFacts
<1>2. Len(v) \in Nat /\ p \in Nat
  BY LenProperties
<1>3. \A q \in 1 .. Len(w) : \E r \in 1 .. Len(v) :
        r # p /\ w[q] = v[r] /\ (q < p => r = q) /\ (q >= p => r = q + 1)
  <2>1. ASSUME NEW q \in 1 .. Len(w)
        PROVE  \E r \in 1 .. Len(v) :
                 r # p /\ w[q] = v[r] /\ (q < p => r = q) /\ (q >= p => r = q + 1)
    <3>1. CASE q < p
      <4>1. q \in 1 .. Len(v) /\ q # p /\ ~(q >= p)
        BY <1>1, <1>2, <3>1
      <4> QED
        BY <1>1, <3>1, <4>1
    <3>2. CASE q >= p
      <4>1. q + 1 \in 1 .. Len(v) /\ q + 1 # p /\ ~(q < p)
        BY <1>1, <1>2, <3>2
      <4> QED
        BY <1>1, <3>2, <4>1
    <3> QED
      BY <1>2, <3>1, <3>2
  <2> QED
    BY <2>1
<1>4. ASSUME NEW h, Contains(w, h) PROVE Contains(v, h)
  BY <1>3, <1>4 DEF Contains
<1>5. ASSUME Unique(v) PROVE Unique(w)
  <2>1. ASSUME NEW q \in 1 .. Len(w), NEW r \in 1 .. Len(w), w[q] = w[r]
        PROVE  q = r
    <3>1. PICK x \in 1 .. Len(v) : w[q] = v[x] /\ (q < p => x = q) /\ (q >= p => x = q + 1)
      BY <1>3
    <3>2. PICK y \in 1 .. Len(v) : w[r] = v[y] /\ (r < p => y = r) /\ (r >= p => y = r + 1)
      BY <1>3
    <3>3. x = y
      BY <1>5, <2>1, <3>1, <3>2 DEF Unique
    <3> QED
      BY <1>2, <3>1, <3>2, <3>3
  <2> QED
    BY <2>1 DEF Unique
<1>6. ASSUME Unique(v) PROVE ~Contains(w, v[p])
  <2> SUFFICES ASSUME NEW q \in 1 .. Len(w), w[q] = v[p] PROVE FALSE
    BY DEF Contains
  <2>1. PICK x \in 1 .. Len(v) : x # p /\ w[q] = v[x]
    BY <1>3
  <2> QED
    BY <1>6, <2>1 DEF Unique
<1> QED
  BY <1>4, <1>5, <1>6

\* The place of h on a list is one where h is, if there is one.
LEMMA PlaceFacts ==
  ASSUME NEW v \in Seq(Handler), NEW h
  PROVE  /\ Place(v, h) = 0 => ~Contains(v, h)
         /\ Place(v, h) # 0 => Place(v, h) \in 1 .. Len(v) /\ v[Place(v, h)] = h
<1> DEFINE T == {p \in 1 .. Len(v) : v[p] = h}
<1>1. Len(v) \in Nat
  BY LenProperties
<1>2. ASSUME Contains(v, h)
      PROVE  Place(v, h) \in 1 .. Len(v) /\ v[Place(v, h)] = h
  <2>1. T \in SUBSET Nat /\ T # {}
    BY <1>2 DEF Contains
  <2>2. PICK x \in T : \A y \in T : x <= y
    BY <2>1, Least
  <2>3. x \in 1 .. Len(v) /\ v[x] = h
    OBVIOUS
  <2>4. ASSUME NEW q \in 1 .. x - 1 PROVE v[q] # h
    <3>1. q \in 1 .. Len(v) /\ ~(x <= q)
      BY <1>1, <2>3
    <3> QED
      BY <2>2, <3>1
  <2> HIDE DEF T
  <2>5. \E p \in 1 .. Len(v) : v[p] = h /\ \A q \in 1 .. p - 1 : v[q] # h
    BY <2>3, <2>4
  <2> QED
    BY <1>2, <2>5 DEF Place
<1>3. ~Contains(v, h) => Place(v, h) = 0
  BY DEF Place
<1>4. Contains(v, h) => Place(v, h) # 0
  BY <1>1, <1>2
<1> QED
  BY <1>2, <1>3, <1>4

\* A list with a handler behind it.
LEMMA AppendFacts ==
  ASSUME NEW v \in Seq(Handler), NEW h \in Handler, NEW w, w = Append(v, h)
  PROVE  /\ w \in Seq(Handler) /\ Len(w) = Len(v) + 1 /\ w # <<>>
         /\ \A q \in 1 .. Len(v) : q \in 1 .. Len(w) /\ w[q] = v[q]
         /\ \A g : Contains(w, g) => g = h \/ Contains(v, g)
         /\ Unique(v) /\ ~Contains(v, h) => Unique(w)
<1>1. Len(v) \in Nat
  BY LenProperties
<1>2. /\ w \in Seq(Handler) /\ Len(w) = Len(v) + 1 /\ w # <<>>
      /\ \A q \in 1 .. Len(v) : w[q] = v[q]
      /\ w[Len(v) + 1] = h
  BY AppendProperties
<1>3. \A q \in 1 .. Len(w) : q \in 1 .. Len(v) \/ q = Len(v) + 1
  BY <1>1, <1>2
<1>4. \A g : Contains(w, g) => g = h \/ Contains(v, g)
  BY <1>2, <1>3 DEF Contains
<1>5. ASSUME Unique(v), ~Contains(v, h) PROVE Unique(w)
  BY <1>1, <1>2, <1>3, <1>5 DEF Unique, Contains
<1> QED
  BY <1>1, <1>2, <1>4, <1>5

\* What a loop over list v sees when the nodes P of it are erased.
Jolted(fr, v, P) ==
  [fr EXCEPT !.i = @ - Cardinality({p \in P : p < fr.i}),
             !.cut = @ \/ fr.i \in P,
             !.todo = @ \ {v[p] : p \in P}]

\* A loop is sound when one node of its list is erased.
LEMMA LoopKeepsRemove ==
  ASSUME NEW fr \in Frames, NEW v \in Seq(Handler), LoopSound(fr, v),
         NEW p \in 1 .. Len(v), NEW w, w = RemoveAt(v, p), NEW g, g = Jolted(fr, v, {p})
  PROVE  /\ g \in Frames /\ LoopSound(g, w)
         /\ g.f = fr.f /\ g.at = fr.at /\ g.s = fr.s /\ g.h = fr.h /\ g.sa = fr.sa
<1>1. /\ w \in Seq(Handler) /\ Len(w) = Len(v) - 1
      /\ \A q \in 1 .. Len(w) : w[q] = IF q < p THEN v[q] ELSE v[q + 1]
  BY RemoveFacts
<1>2. Len(v) \in Nat /\ p \in Nat /\ p >= 1 /\ p <= Len(v)
  BY LenProperties
<1>3. fr.i \in Nat /\ fr.cut \in BOOLEAN /\ fr.todo \subseteq Handler
  BY DEF Frames
<1>4. PICK n : n = Cardinality({x \in {p} : x < fr.i})
  OBVIOUS
<1>5. n = IF p < fr.i THEN 1 ELSE 0
  <2>1. CASE p < fr.i
    <3>1. {x \in {p} : x < fr.i} = {p}
      BY <2>1
    <3> QED
      BY <1>4, <2>1, <3>1, FS_Singleton
  <2>2. CASE ~(p < fr.i)
    <3>1. {x \in {p} : x < fr.i} = {}
      BY <2>2
    <3> QED
      BY <1>4, <2>2, <3>1, FS_EmptySet
  <2> QED
    BY <2>1, <2>2
<1>6. fr.i - n \in Nat
  BY <1>2, <1>3, <1>5
<1>7. PICK cut \in BOOLEAN : cut = (fr.cut \/ fr.i = p)
  BY <1>3
<1>8. g = [fr EXCEPT !.i = fr.i - n, !.cut = cut, !.todo = fr.todo \ {v[p]}]
  <2>1. {v[q] : q \in {p}} = {v[p]} /\ (fr.i \in {p} <=> fr.i = p)
    OBVIOUS
  <2> QED
    BY <1>4, <1>7, <2>1 DEF Jolted
<1>9. /\ g \in Frames
      /\ g.f = fr.f /\ g.at = fr.at /\ g.s = fr.s /\ g.h = fr.h /\ g.sa = fr.sa
      /\ g.i = fr.i - n /\ g.cut = cut /\ g.todo = fr.todo \ {v[p]}
  BY ZenonT(60), <1>3, <1>6, <1>8 DEF Frames
<1>10. g.i \in 0 .. Len(w) + (IF g.cut THEN 1 ELSE 0)
  <2>1. fr.i <= Len(v) + 1 /\ (~fr.cut => fr.i <= Len(v))
    BY <1>2, <1>3 DEF LoopSound
  <2>2. CASE g.cut
    <3>1. g.i \in 0 .. Len(w) + 1
      BY <1>1, <1>2, <1>3, <1>5, <1>6, <1>9, <2>1
    <3> QED
      BY <2>2, <3>1
  <2>3. CASE ~g.cut
    <3>1. ~fr.cut /\ fr.i # p
      BY <1>7, <1>9, <2>3
    <3>2. fr.i <= Len(v)
      BY <2>1, <3>1
    <3>3. g.i \in 0 .. Len(w)
      BY <1>1, <1>2, <1>3, <1>5, <1>6, <1>9, <3>1, <3>2
    <3>4. Len(w) + 0 = Len(w)
      BY <1>1, <1>2
    <3> QED
      BY <2>3, <3>3, <3>4
  <2> QED
    BY <2>2, <2>3
<1>11. ASSUME ~g.cut, NEW h \in g.todo
       PROVE  \E q \in 1 .. Len(w) : q > g.i /\ w[q] = h
  <2>1. ~fr.cut /\ fr.i # p /\ h \in fr.todo /\ h # v[p]
    BY <1>7, <1>9, <1>11
  <2>2. PICK q \in 1 .. Len(v) : q > fr.i /\ v[q] = h
    BY <2>1 DEF LoopSound
  <2>3. q # p
    BY <2>1, <2>2
  <2>4. CASE q < p
    <3>1. q \in 1 .. Len(w) /\ q > g.i /\ w[q] = v[q]
      BY <1>1, <1>2, <1>3, <1>5, <1>9, <2>2, <2>4
    <3> QED
      BY <2>2, <3>1
  <2>5. CASE q > p
    <3>1. q - 1 \in 1 .. Len(w) /\ ~(q - 1 < p) /\ (q - 1) + 1 = q
      BY <1>1, <1>2, <2>5
    <3>2. q - 1 > g.i
      BY <1>2, <1>3, <1>5, <1>9, <2>1, <2>2, <2>5
    <3>3. w[q - 1] = v[q]
      BY <1>1, <3>1
    <3> QED
      BY <2>2, <3>1, <3>2, <3>3
  <2>6. q < p \/ q > p
    BY <1>2, <2>3
  <2> QED
    BY <2>4, <2>5, <2>6
<1> QED
  BY <1>9, <1>10, <1>11 DEF LoopSound

\* A loop is sound when its list is cleared.
LEMMA LoopKeepsClear ==
  ASSUME NEW fr \in Frames, NEW v \in Seq(Handler), LoopSound(fr, v),
         NEW g, g = Jolted(fr, v, 1 .. Len(v))
  PROVE  /\ g \in Frames /\ LoopSound(g, <<>>)
         /\ g.f = fr.f /\ g.at = fr.at /\ g.s = fr.s /\ g.h = fr.h /\ g.sa = fr.sa
<1>1. Len(v) \in Nat
  BY LenProperties
<1>2. fr.i \in Nat /\ fr.cut \in BOOLEAN /\ fr.todo \subseteq Handler
      /\ fr.i <= Len(v) + 1
  BY <1>1 DEF Frames, LoopSound
<1>3. PICK n : n = Cardinality({x \in 1 .. Len(v) : x < fr.i})
  OBVIOUS
<1>4. n = IF fr.i = 0 THEN 0 ELSE fr.i - 1
  <2>1. CASE fr.i = 0
    <3>1. {x \in 1 .. Len(v) : x < fr.i} = {}
      BY <2>1
    <3> QED
      BY <1>3, <2>1, <3>1, FS_EmptySet
  <2>2. CASE fr.i # 0
    <3>1. {x \in 1 .. Len(v) : x < fr.i} = 1 .. fr.i - 1
      BY <1>1, <1>2, <2>2
    <3>2. 1 \in Int /\ fr.i - 1 \in Int /\ fr.i - 1 >= 0
      BY <1>2, <2>2
    <3>3. Cardinality(1 .. fr.i - 1) = IF 1 > fr.i - 1 THEN 0 ELSE (fr.i - 1) - 1 + 1
      BY <3>2, FS_Interval
    <3>4. n = IF 1 > fr.i - 1 THEN 0 ELSE (fr.i - 1) - 1 + 1
      BY <1>3, <3>1, <3>3
    <3> QED
      BY <1>2, <2>2, <3>4
  <2> QED
    BY <2>1, <2>2
<1>5. fr.i - n \in Nat /\ fr.i - n = IF fr.i = 0 THEN 0 ELSE 1
  BY <1>2, <1>4
<1>6. PICK cut \in BOOLEAN : cut = (fr.cut \/ fr.i \in 1 .. Len(v))
  BY <1>2
<1>7. PICK gone : gone = {v[q] : q \in 1 .. Len(v)}
  OBVIOUS
<1>8. g = [fr EXCEPT !.i = fr.i - n, !.cut = cut, !.todo = fr.todo \ gone]
  BY <1>3, <1>6, <1>7 DEF Jolted
<1>9. /\ g \in Frames
      /\ g.f = fr.f /\ g.at = fr.at /\ g.s = fr.s /\ g.h = fr.h /\ g.sa = fr.sa
      /\ g.i = fr.i - n /\ g.cut = cut /\ g.todo = fr.todo \ gone
  BY ZenonT(60), <1>2, <1>5, <1>8 DEF Frames
<1>10. Len(<<>>) = 0
  OBVIOUS
<1>11. g.i \in 0 .. Len(<<>>) + (IF g.cut THEN 1 ELSE 0)
  <2>1. fr.i # 0 => cut
    <3>1. CASE fr.cut
      BY <1>6, <3>1
    <3>2. CASE ~fr.cut
      <4>1. fr.i \in 0 .. Len(v) + 0
        BY <3>2 DEF LoopSound
      <4>2. fr.i # 0 => fr.i \in 1 .. Len(v)
        BY <1>1, <4>1
      <4> QED
        BY <1>6, <4>2
    <3> QED
      BY <3>1, <3>2
  <2> QED
    BY <1>5, <1>9, <1>10, <2>1
<1>12. ~g.cut => g.todo = {}
  <2> SUFFICES ASSUME ~g.cut, NEW h \in g.todo PROVE FALSE
    OBVIOUS
  <2>1. ~fr.cut /\ h \in fr.todo /\ h \notin gone
    BY <1>6, <1>9
  <2> QED
    BY <1>7, <2>1 DEF LoopSound
<1> QED
  BY <1>9, <1>11, <1>12 DEF LoopSound

------------------------------------------------------------------------------
(* What holds of the stack, with lists m, actions a, objects ob, homes hm  *)
(* and races R; and what an action of the top does to the frames below it. *)

FramesOK(st, m, a, ob, hm, R) ==
  /\ st \in Seq(Frames)
  /\ \A k \in 1 .. Len(st) : Sound(st[k], m, hm)
  /\ \A k \in 1 .. Len(st) : InFlight(st[k], m, a, ob, hm, R)
  /\ OneIn(st, R)

\* No call on s is in progress in st, or it races.
Alone(st, s, R) ==
  \A k \in 1 .. Len(st) : st[k].f \in Changes /\ st[k].s = s => s \in R

\* A frame comes on top.
LEMMA PushOK ==
  ASSUME NEW st, NEW m, NEW a, NEW ob, NEW hm, NEW R, FramesOK(st, m, a, ob, hm, R),
         NEW fr \in Frames, Sound(fr, m, hm), InFlight(fr, m, a, ob, hm, R),
         fr.f \in Changes => Alone(st, fr.s, R),
         NEW t, t = <<fr>> \o st
  PROVE  FramesOK(t, m, a, ob, hm, R)
<1>1. st \in Seq(Frames)
  BY DEF FramesOK
<1>2. /\ t \in Seq(Frames) /\ Len(t) = Len(st) + 1 /\ t # <<>>
      /\ t[1] = fr
      /\ \A k \in 1 .. Len(t) : k # 1 => k - 1 \in 1 .. Len(st) /\ t[k] = st[k - 1]
  BY <1>1, PushFrame
<1>3. ASSUME NEW k \in 1 .. Len(t)
      PROVE  Sound(t[k], m, hm) /\ InFlight(t[k], m, a, ob, hm, R)
  <2>1. CASE k = 1
    BY <1>2, <2>1
  <2>2. CASE k # 1
    <3>1. k - 1 \in 1 .. Len(st) /\ t[k] = st[k - 1]
      BY <1>2, <2>2
    <3> QED
      BY <3>1 DEF FramesOK
  <2> QED
    BY <2>1, <2>2
<1>4. ASSUME NEW k \in 1 .. Len(t), NEW l \in 1 .. Len(t),
             t[k].f \in Changes, t[l].f \in Changes, t[k].s = t[l].s, t[k].s \notin R
      PROVE  k = l
  <2>1. ASSUME NEW j \in 1 .. Len(t), j # 1, t[j].f \in Changes, t[j].s = t[k].s,
               fr.f \in Changes, fr.s = t[k].s
        PROVE  FALSE
    <3>1. j - 1 \in 1 .. Len(st) /\ t[j] = st[j - 1]
      BY <1>2, <2>1
    <3>2. fr.s \in R
      BY <2>1, <3>1 DEF Alone
    <3> QED
      BY <1>4, <2>1, <3>2
  <2>2. CASE k = 1 /\ l # 1
    BY <1>2, <1>4, <2>1, <2>2
  <2>3. CASE k # 1 /\ l = 1
    BY <1>2, <1>4, <2>1, <2>3
  <2>4. CASE k # 1 /\ l # 1
    <3>1. /\ k - 1 \in 1 .. Len(st) /\ t[k] = st[k - 1]
          /\ l - 1 \in 1 .. Len(st) /\ t[l] = st[l - 1]
      BY <1>2, <2>4
    <3>2. k - 1 = l - 1
      BY <1>4, <3>1 DEF FramesOK, OneIn
    <3>3. k \in Int /\ l \in Int
      OBVIOUS
    <3> QED
      BY <3>2, <3>3
  <2> QED
    BY <2>2, <2>3, <2>4
<1>5. OneIn(t, R)
  BY <1>4 DEF OneIn
<1> QED
  BY <1>2, <1>3, <1>5 DEF FramesOK

\* The top goes.
LEMMA PopOK ==
  ASSUME NEW st, NEW m, NEW a, NEW ob, NEW hm, NEW R, FramesOK(st, m, a, ob, hm, R),
         st # <<>>, NEW t, t = Tail(st)
  PROVE  FramesOK(t, m, a, ob, hm, R)
<1>1. st \in Seq(Frames)
  BY DEF FramesOK
<1>2. /\ t \in Seq(Frames) /\ Len(t) = Len(st) - 1
      /\ \A k \in 1 .. Len(t) : /\ k + 1 \in 1 .. Len(st) /\ k + 1 # 1
                                /\ t[k] = st[k + 1]
  BY <1>1, PopFrame
<1>3. ASSUME NEW k \in 1 .. Len(t)
      PROVE  Sound(t[k], m, hm) /\ InFlight(t[k], m, a, ob, hm, R)
  <2>1. k + 1 \in 1 .. Len(st) /\ t[k] = st[k + 1]
    BY <1>2
  <2> QED
    BY <2>1 DEF FramesOK
<1>4. ASSUME NEW k \in 1 .. Len(t), NEW l \in 1 .. Len(t),
             t[k].f \in Changes, t[l].f \in Changes, t[k].s = t[l].s, t[k].s \notin R
      PROVE  k = l
  <2>1. /\ k + 1 \in 1 .. Len(st) /\ t[k] = st[k + 1]
        /\ l + 1 \in 1 .. Len(st) /\ t[l] = st[l + 1]
    BY <1>2
  <2>2. k + 1 = l + 1
    BY <1>4, <2>1 DEF FramesOK, OneIn
  <2>3. k \in Int /\ l \in Int
    OBVIOUS
  <2> QED
    BY <2>2, <2>3
<1>5. OneIn(t, R)
  BY <1>4 DEF OneIn
<1> QED
  BY <1>2, <1>3, <1>5 DEF FramesOK

\* Work on signal s: its list is as it was or has one more handler, its action
\* may be another, and so may be what its handlers are; more signals may race.
WorksOn(s, m, a, ob, hm, R, m2, a2, ob2, R2) ==
  /\ \A x \in Signo : x # s => m2[x] = m[x] /\ a2[x] = a[x]
  /\ m2[s] = m[s] \/ \E h \in Handler : m2[s] = Append(m[s], h)
  /\ \A h \in Handler : hm[h] # s /\ ob[h] \in {"base", "live"} => ob2[h] \in {"base", "live"}
  /\ R \subseteq R2

\* It leaves the frames alone whose calls are on other signals.
LEMMA ElsewhereOK ==
  ASSUME NEW st, NEW m \in [Signo -> Seq(Handler)], NEW a, NEW ob,
         NEW hm \in [Handler -> Signo], NEW R, FramesOK(st, m, a, ob, hm, R),
         NEW s \in Signo, NEW m2, NEW a2, NEW ob2, NEW R2,
         Alone(st, s, R2), WorksOn(s, m, a, ob, hm, R, m2, a2, ob2, R2)
  PROVE  FramesOK(st, m2, a2, ob2, hm, R2)
<1> R \subseteq R2 /\ (\A x \in Signo : x # s => m2[x] = m[x] /\ a2[x] = a[x])
  BY DEF WorksOn
<1> m2[s] = m[s] \/ \E h \in Handler : m2[s] = Append(m[s], h)
  BY DEF WorksOn
<1> \A h \in Handler : hm[h] # s /\ ob[h] \in {"base", "live"} => ob2[h] \in {"base", "live"}
  BY DEF WorksOn
<1>1. /\ st \in Seq(Frames)
      /\ \A k \in 1 .. Len(st) :
           st[k] \in Frames /\ Sound(st[k], m, hm) /\ InFlight(st[k], m, a, ob, hm, R)
  BY ElementOfSeq DEF FramesOK
<1>2. ASSUME NEW k \in 1 .. Len(st)
      PROVE  Sound(st[k], m2, hm)
  <2>1. PICK fr \in Frames : fr = st[k]
    BY <1>1
  <2>2. fr.s \in Signo /\ fr.i \in Nat
    BY DEF Frames
  <2>3. Sound(fr, m, hm)
    BY <1>1, <2>1
  <2>4. ASSUME LoopSound(fr, m[fr.s]) PROVE LoopSound(fr, m2[fr.s])
    <3>1. CASE m2[fr.s] = m[fr.s]
      BY <2>4, <3>1
    <3>2. CASE m2[fr.s] # m[fr.s]
      <4>1. fr.s = s
        BY <2>2, <3>2
      <4>2. PICK h \in Handler : m2[s] = Append(m[s], h)
        BY <3>2, <4>1
      <4>3. PICK v, w : v \in Seq(Handler) /\ v = m[s] /\ w = m2[s]
        OBVIOUS
      <4> v \in Seq(Handler)
        BY <4>3
      <4>4. /\ Len(w) = Len(v) + 1
            /\ \A q \in 1 .. Len(v) : q \in 1 .. Len(w) /\ w[q] = v[q]
        BY <4>2, <4>3, AppendFacts
      <4>5. Len(v) \in Nat
        BY LenProperties
      <4>6. LoopSound(fr, v)
        BY <2>4, <4>1, <4>3
      <4>7. fr.i \in 0 .. Len(w) + (IF fr.cut THEN 1 ELSE 0)
        <5>1. CASE fr.cut
          BY <2>2, <4>4, <4>5, <4>6, <5>1 DEF LoopSound
        <5>2. CASE ~fr.cut
          BY <2>2, <4>4, <4>5, <4>6, <5>2 DEF LoopSound
        <5> QED
          BY <5>1, <5>2
      <4>8. ~fr.cut => \A g \in fr.todo : \E q \in 1 .. Len(w) : q > fr.i /\ w[q] = g
        BY <4>4, <4>6 DEF LoopSound
      <4> QED
        BY <4>1, <4>3, <4>7, <4>8 DEF LoopSound
    <3> QED
      BY <3>1, <3>2
  <2> QED
    BY <2>1, <2>3, <2>4 DEF Sound
<1>3. ASSUME NEW k \in 1 .. Len(st)
      PROVE  InFlight(st[k], m2, a2, ob2, hm, R2)
  <2>1. PICK fr \in Frames : fr = st[k]
    BY <1>1
  <2>2. fr.s \in Signo /\ InFlight(fr, m, a, ob, hm, R) /\ Sound(fr, m, hm)
    BY <1>1, <2>1 DEF Frames
  <2>3. CASE fr.f \in Changes /\ fr.s = s
    BY <2>1, <2>3 DEF Alone, InFlight
  <2>4. CASE fr.s # s
    <3>1. m2[fr.s] = m[fr.s] /\ a2[fr.s] = a[fr.s]
      BY <2>2, <2>4
    <3>2. fr.f = "set" => fr.h \in Handler
      BY <2>2 DEF Sound
    <3> QED
      BY <2>1, <2>2, <2>4, <3>1, <3>2 DEF InFlight
  <2>5. CASE fr.f \notin Changes
    <3>1. fr.f # "set" /\ fr.f # "unbind"
      BY <2>5 DEF Changes, Calls
    <3> QED
      BY <2>1, <3>1 DEF InFlight
  <2> QED
    BY <2>3, <2>4, <2>5
<1>4. OneIn(st, R2)
  BY DEF FramesOK, OneIn
<1> QED
  BY <1>1, <1>2, <1>3, <1>4 DEF FramesOK

\* A handler comes on the list of s.
LEMMA AddsOK ==
  ASSUME NEW st, NEW m \in [Signo -> Seq(Handler)], NEW a, NEW ob,
         NEW hm \in [Handler -> Signo], NEW R, FramesOK(st, m, a, ob, hm, R),
         NEW s \in Signo, NEW h \in Handler, Alone(st, s, R),
         NEW m2, m2[s] = Append(m[s], h), \A x \in Signo : x # s => m2[x] = m[x]
  PROVE  FramesOK(st, m2, a, ob, hm, R)
<1>1. WorksOn(s, m, a, ob, hm, R, m2, a, ob, R)
  BY DEF WorksOn
<1> QED
  BY <1>1, ElsewhereOK

\* The action of s becomes another.
LEMMA ActsOK ==
  ASSUME NEW st, NEW m \in [Signo -> Seq(Handler)], NEW a, NEW ob,
         NEW hm \in [Handler -> Signo], NEW R, FramesOK(st, m, a, ob, hm, R),
         NEW s \in Signo, Alone(st, s, R),
         NEW a2, \A x \in Signo : x # s => a2[x] = a[x]
  PROVE  FramesOK(st, m, a2, ob, hm, R)
<1>1. WorksOn(s, m, a, ob, hm, R, m, a2, ob, R)
  BY DEF WorksOn
<1> QED
  BY <1>1, ElsewhereOK

\* The handlers of which a call is in progress may come to be, and live.
LEMMA GrowOK ==
  ASSUME NEW st, NEW m, NEW a, NEW ob, NEW hm, NEW R, FramesOK(st, m, a, ob, hm, R),
         NEW ob2, \A h \in Handler : ob[h] \in {"base", "live"} => ob2[h] \in {"base", "live"}
  PROVE  FramesOK(st, m, a, ob2, hm, R)
<1>1. ASSUME NEW k \in 1 .. Len(st)
      PROVE  InFlight(st[k], m, a, ob2, hm, R)
  <2>1. PICK fr : fr = st[k]
    OBVIOUS
  <2>2. InFlight(fr, m, a, ob, hm, R) /\ Sound(fr, m, hm)
    BY <2>1 DEF FramesOK
  <2>3. fr.f = "set" => fr.h \in Handler
    BY <2>2 DEF Sound
  <2> QED
    BY <2>1, <2>2, <2>3 DEF InFlight
<1> QED
  BY <1>1 DEF FramesOK

\* The nodes P of list v of signal s are erased: what the frames become.
ErasedBy(st, s, v, P) ==
  [k \in 1 .. Len(st) |-> IF st[k].f = "kill" /\ st[k].s = s
                          THEN Jolted(st[k], v, P) ELSE st[k]]

\* When the nodes P of list v are erased, w remains.
Leaves(v, P, w) ==
  \/ \E p \in 1 .. Len(v) : P = {p} /\ w = RemoveAt(v, p)
  \/ P = 1 .. Len(v) /\ w = <<>>

\* m2 are lists m without some nodes of the list of s, t the stack st after it.
Erasure(m, s, m2, st, t) ==
  \E P, w : /\ Leaves(m[s], P, w)
            /\ m2 = [m EXCEPT ![s] = w]
            /\ t = ErasedBy(st, s, m[s], P)

\* Erased of the model in terms of the list before the step.
LEMMA ErasedIsBy ==
  ASSUME NEW st, NEW s, NEW P
  PROVE  Erased(st, s, P) = ErasedBy(st, s, smap[s], P)
BY DEF Erased, ErasedBy, Jolted

\* A node is erased, or the list is cleared: the loops over the list are sound
\* on what remains of it, and the calls in progress hold.
LEMMA ErasedOK ==
  ASSUME NEW st, NEW m \in [Signo -> Seq(Handler)], NEW a, NEW ob, NEW hm, NEW R,
         FramesOK(st, m, a, ob, hm, R),
         NEW s \in Signo, NEW m2, NEW t, Erasure(m, s, m2, st, t)
  PROVE  /\ FramesOK(t, m2, a, ob, hm, R)
         /\ Len(t) = Len(st)
         /\ \A k \in 1 .. Len(t) : /\ k \in 1 .. Len(st)
                                   /\ t[k].f = st[k].f /\ t[k].s = st[k].s
<1> DEFINE Alike(g, fr) == /\ g.f = fr.f /\ g.at = fr.at /\ g.s = fr.s
                           /\ g.h = fr.h /\ g.sa = fr.sa
<1>1. /\ st \in Seq(Frames) /\ Len(st) \in Nat
      /\ \A k \in 1 .. Len(st) :
           st[k] \in Frames /\ Sound(st[k], m, hm) /\ InFlight(st[k], m, a, ob, hm, R)
  BY ElementOfSeq, LenProperties DEF FramesOK
<1>2. PICK v \in Seq(Handler) : v = m[s]
  OBVIOUS
<1>new. PICK P, w : Leaves(v, P, w) /\ m2 = [m EXCEPT ![s] = w] /\ t = ErasedBy(st, s, v, P)
  BY <1>2 DEF Erasure
<1>3. ASSUME NEW fr \in Frames, LoopSound(fr, v), NEW g, g = Jolted(fr, v, P)
      PROVE  g \in Frames /\ LoopSound(g, w) /\ Alike(g, fr)
  <2>1. CASE \E p \in 1 .. Len(v) : P = {p} /\ w = RemoveAt(v, p)
    <3>1. PICK p \in 1 .. Len(v) : P = {p} /\ w = RemoveAt(v, p)
      BY <2>1
    <3>2. g = Jolted(fr, v, {p})
      BY <1>3, <3>1
    <3> QED
      BY <1>3, <3>1, <3>2, LoopKeepsRemove
  <2>2. CASE P = 1 .. Len(v) /\ w = <<>>
    <3>1. g = Jolted(fr, v, 1 .. Len(v))
      BY <1>3, <2>2
    <3> QED
      BY <1>3, <2>2, <3>1, LoopKeepsClear
  <2> QED
    BY <1>new, <2>1, <2>2 DEF Leaves
<1>4. m2[s] = w /\ \A x \in Signo : x # s => m2[x] = m[x]
  BY <1>new
<1>5. w = <<>> \/ m[s] # <<>>
  BY <1>new, <1>2, EmptySeq, LenProperties DEF Leaves
<1>6. ASSUME NEW k \in 1 .. Len(st)
      PROVE  t[k] \in Frames /\ Sound(t[k], m2, hm) /\ Alike(t[k], st[k])
  <2>1. PICK fr \in Frames : fr = st[k]
    BY <1>1, <1>6
  <2>2. Sound(fr, m, hm) /\ fr.s \in Signo
    BY <1>1, <1>6, <2>1 DEF Frames
  <2>3. CASE fr.f = "kill" /\ fr.s = s
    <3>1. PICK g : g = Jolted(fr, v, P)
      OBVIOUS
    <3>2. t[k] = g
      BY <1>new, <1>6, <2>1, <2>3, <3>1 DEF ErasedBy
    <3>3. LoopSound(fr, v)
      BY <1>2, <2>2, <2>3 DEF Sound
    <3>4. g \in Frames /\ LoopSound(g, w) /\ Alike(g, fr)
      BY <1>3, <3>1, <3>3
    <3>5. Sound(g, m2, hm)
      BY <1>4, <2>2, <2>3, <3>4 DEF Sound
    <3> QED
      BY <2>1, <3>2, <3>4, <3>5
  <2>4. CASE ~(fr.f = "kill" /\ fr.s = s)
    <3>1. t[k] = fr
      BY <1>new, <1>6, <2>1, <2>4 DEF ErasedBy
    <3>2. Sound(fr, m2, hm)
      BY <1>4, <2>2, <2>4 DEF Sound
    <3> QED
      BY <2>1, <3>1, <3>2
  <2> QED
    BY <2>3, <2>4
<1>7. t \in Seq(Frames) /\ Len(t) = Len(st)
  <2>1. t \in [1 .. Len(st) -> Frames]
    BY <1>new, <1>6 DEF ErasedBy
  <2>2. t \in Seq(Frames)
    BY ZenonT(60), <1>1, <2>1, SeqDef
  <2>3. Len(t) \in Nat /\ DOMAIN t = 1 .. Len(t)
    BY <2>2, LenProperties
  <2>4. DOMAIN t = 1 .. Len(st)
    BY <2>1
  <2> QED
    BY <1>1, <2>2, <2>3, <2>4
<1>8. ASSUME NEW k \in 1 .. Len(st)
      PROVE  InFlight(t[k], m2, a, ob, hm, R)
  <2>1. PICK fr, g : fr \in Frames /\ fr = st[k] /\ g = t[k]
    BY <1>1, <1>8
  <2> fr \in Frames
    BY <2>1
  <2>2. Alike(g, fr) /\ InFlight(fr, m, a, ob, hm, R) /\ fr.s \in Signo
    BY <1>1, <1>6, <1>8, <2>1 DEF Frames
  <2>3. m[fr.s] = <<>> => m2[fr.s] = <<>>
    BY <1>4, <1>5, <2>2
  <2> QED
    BY <2>1, <2>2, <2>3 DEF InFlight
<1>9. OneIn(t, R)
  <2>1. \A k \in 1 .. Len(t) : k \in 1 .. Len(st) /\ t[k].f = st[k].f /\ t[k].s = st[k].s
    BY <1>6, <1>7
  <2>2. OneIn(st, R)
    BY DEF FramesOK
  <2> QED
    BY <2>1, <2>2 DEF OneIn
<1> QED
  BY <1>6, <1>7, <1>8, <1>9 DEF FramesOK

------------------------------------------------------------------------------
(* The invariant in parts, each for one group of the variables.            *)

ListsOK(m, a, R) ==
  \A s \in Signo \ R : /\ m[s] # <<>> => a[s].handler = "sighandler"
                       /\ Unique(m[s])

DeadOK(m, ob, hm, R) ==
  \A h \in Handler, s \in Signo :
    ob[h] = "dead" /\ Contains(m[s], h) => s # hm[h] \/ s \in R

\* The invariant is the conjunction of the parts.
LEMMA Parts ==
  IInv <=> /\ Basic
           /\ FramesOK(stack, smap, act, obj, home, raced)
           /\ ListsOK(smap, act, raced)
           /\ DeadOK(smap, obj, home, raced)
BY DEF IInv, Basic, FramesOK, ListsOK, DeadOK, RegisteredIsHandled, DeadAreUnlisted, Unique

\* The parts of the next state.
LEMMA NextParts ==
  ASSUME Basic', FramesOK(stack', smap', act', obj', home', raced'),
         ListsOK(smap', act', raced'), DeadOK(smap', obj', home', raced')
  PROVE  IInv'
BY DEF IInv, Basic, FramesOK, ListsOK, DeadOK, RegisteredIsHandled, DeadAreUnlisted, Unique

\* A call of the interface: nobody else works on its signal, or it races.
LEMMA StartFacts ==
  ASSUME IInv, NEW s \in Signo, Starts(s)
  PROVE  /\ calls' \in 0 .. MaxCalls
         /\ raced \subseteq raced' /\ raced' \subseteq Signo
         /\ Alone(stack, s, raced')
<1>1. calls \in 0 .. MaxCalls /\ raced \subseteq Signo
  BY DEF IInv, Basic
<1>2. calls' \in 0 .. MaxCalls
  BY <1>1 DEF Starts
<1>3. raced' = IF \E k \in 1 .. Len(stack) : stack[k].f \in Calls /\ stack[k].s = s
               THEN raced \cup {s} ELSE raced
  BY DEF Starts
<1>4. Alone(stack, s, raced')
  BY <1>3 DEF Alone, Changes
<1> QED
  BY <1>1, <1>2, <1>3, <1>4

\* The signals of a race stay; with more of them less is asked of the lists.
LEMMA MoreRaces ==
  ASSUME NEW m, NEW a, NEW ob, NEW hm, NEW R, NEW R2, R \subseteq R2,
         ListsOK(m, a, R), DeadOK(m, ob, hm, R)
  PROVE  ListsOK(m, a, R2) /\ DeadOK(m, ob, hm, R2)
BY DEF ListsOK, DeadOK

\* What a frame at its beginning is.
LEMMA NewFrame ==
  ASSUME NEW f \in Calls \cup {"kill"}, NEW s \in Signo, NEW h \in Handler \cup {NoHandler}
  PROVE  /\ Frame(f, s, h) \in Frames
         /\ Frame(f, s, h).f = f /\ Frame(f, s, h).at = "begin"
         /\ Frame(f, s, h).s = s /\ Frame(f, s, h).h = h
BY DEF Frame, Frames, Default, Actions

\* Below the top: the frames hold, and if the top works on a signal no other
\* does, or they race.
LEMMA BelowTop ==
  ASSUME IInv, stack # <<>>, NEW t, t = Tail(stack)
  PROVE  /\ FramesOK(t, smap, act, obj, home, raced)
         /\ Top.f \in Changes => Alone(t, Top.s, raced)
<1>1. FramesOK(stack, smap, act, obj, home, raced)
  BY Parts
<1>2. FramesOK(t, smap, act, obj, home, raced)
  BY <1>1, PopOK
<1>3. /\ stack \in Seq(Frames)
      /\ \A k \in 1 .. Len(stack) :
           (k # 1 /\ Top.f \in Changes /\ stack[k].f \in Changes
              /\ stack[k].s = Top.s) => Top.s \in raced
  BY TopFacts
<1>4. \A k \in 1 .. Len(t) : k + 1 \in 1 .. Len(stack) /\ k + 1 # 1 /\ t[k] = stack[k + 1]
  BY <1>3, PopFrame
<1>5. Top.f \in Changes => Alone(t, Top.s, raced)
  BY <1>3, <1>4 DEF Alone
<1> QED
  BY <1>2, <1>5

------------------------------------------------------------------------------
(* The actions: handler objects.                                           *)

\* The stack when a call of f for s has started and its handlers may be other.
LEMMA CallFrames ==
  ASSUME IInv, NEW s \in Signo, Starts(s), NEW ob2,
         \A h \in Handler : home[h] # s /\ obj[h] \in {"base", "live"}
                              => ob2[h] \in {"base", "live"}
  PROVE  FramesOK(stack, smap, act, ob2, home, raced')
<1>1. /\ smap \in [Signo -> Seq(Handler)] /\ home \in [Handler -> Signo]
      /\ FramesOK(stack, smap, act, obj, home, raced)
  BY Parts DEF Basic
<1>2. PICK R2 : R2 = raced'
  OBVIOUS
<1>3. raced \subseteq R2 /\ Alone(stack, s, R2)
  BY <1>2, StartFacts
<1>4. WorksOn(s, smap, act, obj, home, raced, smap, act, ob2, R2)
  BY <1>3 DEF WorksOn
<1>5. FramesOK(stack, smap, act, ob2, home, R2)
  BY <1>1, <1>3, <1>4, ElsewhereOK
<1> QED
  BY <1>2, <1>5

\* A handler is constructed: the call of set is on the stack.
LEMMA NewStep == ASSUME IInv, NEW h \in Handler, New(h) PROVE IInv'
<1>1. /\ smap' = smap /\ act' = act /\ blocked' = blocked /\ pending' = pending
      /\ home' = home /\ fate' = fate /\ raised' = raised
      /\ obj' = [obj EXCEPT ![h] = "base"] /\ obj[h] = "none"
      /\ stack' = <<Frame("set", home[h], h), Frame("new", home[h], h)>> \o stack
      /\ Starts(home[h])
  BY DEF New
<1>2. /\ Basic /\ FramesOK(stack, smap, act, obj, home, raced)
      /\ ListsOK(smap, act, raced) /\ DeadOK(smap, obj, home, raced)
  BY Parts
<1>3. home[h] \in Signo /\ obj \in [Handler -> {"none", "base", "live", "dying", "dead"}]
  BY <1>2 DEF Basic
<1>4. /\ calls' \in 0 .. MaxCalls
      /\ raced \subseteq raced' /\ raced' \subseteq Signo
      /\ Alone(stack, home[h], raced')
  BY <1>1, <1>3, StartFacts
<1>5. PICK R2, ob2, s, a, b, u :
        /\ R2 = raced' /\ ob2 = obj' /\ s = home[h]
        /\ a = Frame("set", home[h], h) /\ b = Frame("new", home[h], h)
        /\ u = <<b>> \o stack
  OBVIOUS
<1>6. /\ \A g \in Handler : g # h => ob2[g] = obj[g]
      /\ ob2[h] = "base"
  BY <1>1, <1>3, <1>5
<1>7. FramesOK(stack, smap, act, ob2, home, R2)
  BY <1>1, <1>3, <1>5, <1>6, CallFrames
<1>8. /\ a \in Frames /\ a.f = "set" /\ a.at = "begin" /\ a.s = s /\ a.h = h
      /\ b \in Frames /\ b.f = "new" /\ b.at = "begin" /\ b.s = s /\ b.h = h
  BY <1>3, <1>5, NewFrame DEF Calls
<1>9. Sound(a, smap, home) /\ Sound(b, smap, home)
  BY <1>5, <1>8 DEF Sound
<1>10. InFlight(a, smap, act, ob2, home, R2) /\ InFlight(b, smap, act, ob2, home, R2)
  BY <1>6, <1>8 DEF InFlight
<1>11. FramesOK(u, smap, act, ob2, home, R2)
  <2>1. b.f \notin Changes
    BY <1>8 DEF Changes
  <2> QED
    BY <1>5, <1>7, <1>8, <1>9, <1>10, <2>1, PushOK
<1>12. Alone(u, s, R2)
  <2>1. stack \in Seq(Frames)
    BY <1>2 DEF Basic
  <2>2. /\ u[1] = b
        /\ \A k \in 1 .. Len(u) : k # 1 => k - 1 \in 1 .. Len(stack) /\ u[k] = stack[k - 1]
    BY <1>5, <1>8, <2>1, PushFrame
  <2>3. b.f \notin Changes
    BY <1>8 DEF Changes
  <2>4. Alone(stack, s, R2)
    BY <1>4, <1>5
  <2> QED
    BY <2>2, <2>3, <2>4 DEF Alone
<1>13. FramesOK(<<a>> \o u, smap, act, ob2, home, R2)
  BY <1>8, <1>9, <1>10, <1>11, <1>12, PushOK
<1>14. stack' = <<a>> \o u
  <2>1. stack \in Seq(Frames)
    BY <1>2 DEF Basic
  <2>2. /\ <<a>> \in Seq(Frames) /\ <<b>> \in Seq(Frames)
        /\ <<a, b>> = <<a>> \o <<b>>
    BY <1>8, TwoFrames
  <2>3. (<<a>> \o <<b>>) \o stack = <<a>> \o (<<b>> \o stack)
    BY <2>1, <2>2, ConcatAssociative
  <2> QED
    BY <1>1, <1>5, <2>2, <2>3
<1>15. FramesOK(stack', smap', act', obj', home', raced')
  BY <1>1, <1>5, <1>13, <1>14
<1>16. ListsOK(smap, act, R2) /\ DeadOK(smap, ob2, home, R2)
  <2>1. ListsOK(smap, act, R2) /\ DeadOK(smap, obj, home, R2)
    BY <1>2, <1>4, <1>5, MoreRaces
  <2>2. \A g \in Handler : ob2[g] = "dead" => obj[g] = "dead"
    BY <1>6
  <2> QED
    BY <2>1, <2>2 DEF DeadOK
<1>17. Basic'
  <2>1. obj' \in [Handler -> {"none", "base", "live", "dying", "dead"}]
    BY <1>1, <1>3
  <2>2. stack' \in Seq(Frames)
    BY <1>15 DEF FramesOK
  <2> QED
    BY <1>1, <1>2, <1>4, <2>1, <2>2 DEF Basic
<1> QED
  BY <1>1, <1>5, <1>15, <1>16, <1>17, NextParts

\* The constructor of the derived class has run.
LEMMA ConstructedStep == ASSUME IInv, Constructed PROVE IInv'
<1>1. /\ smap' = smap /\ act' = act /\ blocked' = blocked /\ pending' = pending
      /\ home' = home /\ fate' = fate /\ raised' = raised /\ calls' = calls
      /\ raced' = raced /\ stack # <<>> /\ stack' = Tail(stack)
      /\ obj' = [obj EXCEPT ![Top.h] = "live"]
  BY DEF Constructed, Pop
<1>2. /\ Basic /\ ListsOK(smap, act, raced) /\ DeadOK(smap, obj, home, raced)
  BY Parts
<1>3. PICK t, ob2 : t = Tail(stack) /\ ob2 = obj'
  OBVIOUS
<1>4. FramesOK(t, smap, act, obj, home, raced)
  BY <1>1, <1>3, BelowTop
<1>5. obj \in [Handler -> {"none", "base", "live", "dying", "dead"}]
  BY <1>2 DEF Basic
<1>6. /\ ob2 \in [Handler -> {"none", "base", "live", "dying", "dead"}]
      /\ \A h \in Handler : ob2[h] = obj[h] \/ ob2[h] = "live"
  BY <1>1, <1>3, <1>5
<1>7. FramesOK(t, smap, act, ob2, home, raced)
  BY <1>4, <1>6, GrowOK
<1>8. DeadOK(smap, ob2, home, raced)
  BY <1>2, <1>6 DEF DeadOK
<1>9. FramesOK(stack', smap', act', obj', home', raced')
  BY <1>1, <1>3, <1>7
<1>10. Basic'
  <2>1. stack' \in Seq(Frames)
    BY <1>9 DEF FramesOK
  <2> QED
    BY <1>1, <1>2, <1>3, <1>6, <2>1 DEF Basic
<1> QED
  BY <1>1, <1>2, <1>3, <1>8, <1>9, <1>10, NextParts

\* The destructor of the derived class has run.
LEMMA DeleteStep == ASSUME IInv, NEW h \in Handler, Delete(h) PROVE IInv'
<1>1. /\ smap' = smap /\ act' = act /\ blocked' = blocked /\ pending' = pending
      /\ home' = home /\ fate' = fate /\ raised' = raised
      /\ obj' = [obj EXCEPT ![h] = "dying"]
      /\ stack' = <<Frame("delete", home[h], h)>> \o stack
      /\ Starts(home[h])
  BY DEF Delete, Push
<1>2. /\ Basic /\ ListsOK(smap, act, raced) /\ DeadOK(smap, obj, home, raced)
  BY Parts
<1>3. home[h] \in Signo /\ obj \in [Handler -> {"none", "base", "live", "dying", "dead"}]
  BY <1>2 DEF Basic
<1>4. /\ calls' \in 0 .. MaxCalls
      /\ raced \subseteq raced' /\ raced' \subseteq Signo
      /\ Alone(stack, home[h], raced')
  BY <1>1, <1>3, StartFacts
<1>5. PICK R2, ob2, a : R2 = raced' /\ ob2 = obj' /\ a = Frame("delete", home[h], h)
  OBVIOUS
<1>6. /\ \A g \in Handler : g # h => ob2[g] = obj[g]
      /\ ob2[h] = "dying"
  BY <1>1, <1>3, <1>5
<1>7. FramesOK(stack, smap, act, ob2, home, R2)
  BY <1>1, <1>3, <1>5, <1>6, CallFrames
<1>8. a \in Frames /\ a.f = "delete" /\ a.at = "begin" /\ a.s = home[h] /\ a.h = h
  BY <1>3, <1>5, NewFrame DEF Calls
<1>9. Sound(a, smap, home)
  BY <1>8 DEF Sound
<1>10. InFlight(a, smap, act, ob2, home, R2)
  BY <1>8 DEF InFlight
<1>11. FramesOK(<<a>> \o stack, smap, act, ob2, home, R2)
  <2>1. Alone(stack, a.s, R2)
    BY <1>4, <1>5, <1>8
  <2> QED
    BY <1>7, <1>8, <1>9, <1>10, <2>1, PushOK
<1>12. FramesOK(stack', smap', act', obj', home', raced')
  BY <1>1, <1>5, <1>11
<1>13. ListsOK(smap, act, R2) /\ DeadOK(smap, ob2, home, R2)
  <2>1. ListsOK(smap, act, R2) /\ DeadOK(smap, obj, home, R2)
    BY <1>2, <1>4, <1>5, MoreRaces
  <2>2. \A g \in Handler : ob2[g] = "dead" => obj[g] = "dead"
    BY <1>6
  <2> QED
    BY <2>1, <2>2 DEF DeadOK
<1>14. Basic'
  <2>1. obj' \in [Handler -> {"none", "base", "live", "dying", "dead"}]
    BY <1>1, <1>3
  <2>2. stack' \in Seq(Frames)
    BY <1>12 DEF FramesOK
  <2> QED
    BY <1>1, <1>2, <1>4, <2>1, <2>2 DEF Basic
<1> QED
  BY <1>1, <1>5, <1>12, <1>13, <1>14, NextParts

------------------------------------------------------------------------------
(* The actions: what erases.                                               *)

\* unset (s, h): what remains of the list of s was on it, and if no calls on s
\* race, h is not.
LEMMA ErasesFacts ==
  ASSUME IInv, NEW s \in Signo, NEW h, NEW st, NEW ob, NEW R,
         FramesOK(st, smap, act, ob, home, R), ListsOK(smap, act, R), Erases(s, h, st)
  PROVE  /\ smap' \in [Signo -> Seq(Handler)]
         /\ FramesOK(stack', smap', act, ob, home, R)
         /\ ListsOK(smap', act, R)
         /\ \A x \in Signo, g \in Handler : Contains(smap'[x], g) => Contains(smap[x], g)
         /\ s \notin R => ~Contains(smap'[s], h)
<1>1. smap \in [Signo -> Seq(Handler)]
  BY DEF IInv, Basic
<1>2. PICK v, p : v \in Seq(Handler) /\ v = smap[s] /\ p = Place(smap[s], h)
  BY <1>1
<1> v \in Seq(Handler)
  BY <1>2
<1>3. /\ smap' = IF p = 0 THEN smap ELSE [smap EXCEPT ![s] = RemoveAt(smap[s], p)]
      /\ stack' = IF p = 0 THEN st ELSE Erased(st, s, {p})
  BY <1>2 DEF Erases
<1>4. /\ p = 0 => ~Contains(v, h)
      /\ p # 0 => p \in 1 .. Len(v) /\ v[p] = h
  BY <1>2, PlaceFacts
<1>5. CASE p = 0
  BY <1>1, <1>2, <1>3, <1>4, <1>5
<1>6. CASE p # 0
  <2>1. PICK w, m2, t : w = RemoveAt(v, p) /\ m2 = smap' /\ t = stack'
    OBVIOUS
  <2>2. p \in 1 .. Len(v) /\ v[p] = h
    BY <1>4, <1>6
  <2>3. m2 = [smap EXCEPT ![s] = w]
    BY <1>2, <1>3, <1>6, <2>1
  <2>4. w \in Seq(Handler)
    BY <2>1, <2>2, RemoveFacts
  <2>5. /\ \A g : Contains(w, g) => Contains(v, g)
        /\ Unique(v) => Unique(w) /\ ~Contains(w, v[p])
    BY <2>1, <2>2, RemoveUnique
  <2>6. m2[s] = w /\ \A x \in Signo : x # s => m2[x] = smap[x]
    BY <1>1, <2>3
  <2>7. t = ErasedBy(st, s, smap[s], {p})
    BY <1>3, <1>6, <2>1, ErasedIsBy
  <2>8. FramesOK(t, m2, act, ob, home, R)
    <3>1. Leaves(smap[s], {p}, w)
      BY <1>2, <2>1, <2>2 DEF Leaves
    <3>2. Erasure(smap, s, m2, st, t)
      BY <2>3, <2>7, <3>1 DEF Erasure
    <3> QED
      BY <1>1, <3>2, ErasedOK
  <2>9. v # <<>>
    BY <2>2, EmptySeq, LenProperties
  <2>10. ListsOK(m2, act, R)
    BY <1>2, <2>5, <2>6, <2>9 DEF ListsOK
  <2>11. \A x \in Signo, g \in Handler : Contains(m2[x], g) => Contains(smap[x], g)
    BY <1>2, <2>5, <2>6
  <2>12. s \notin R => ~Contains(m2[s], h)
    BY <1>2, <2>2, <2>5, <2>6 DEF ListsOK
  <2>13. m2 \in [Signo -> Seq(Handler)]
    BY <1>1, <2>3, <2>4
  <2> QED
    BY <2>1, <2>8, <2>10, <2>11, <2>12, <2>13
<1> QED
  BY <1>5, <1>6

\* unset called.
LEMMA UnsetStep == ASSUME IInv, NEW s \in Signo, NEW h \in Handler, Unset(s, h) PROVE IInv'
<1>1. /\ act' = act /\ blocked' = blocked /\ pending' = pending /\ obj' = obj
      /\ home' = home /\ fate' = fate /\ raised' = raised
      /\ Starts(s) /\ Erases(s, h, stack)
  BY DEF Unset
<1>2. /\ Basic /\ ListsOK(smap, act, raced) /\ DeadOK(smap, obj, home, raced)
  BY Parts
<1>3. calls' \in 0 .. MaxCalls /\ raced \subseteq raced' /\ raced' \subseteq Signo
  BY <1>1, StartFacts
<1>4. PICK R2 : R2 = raced'
  OBVIOUS
<1>5. FramesOK(stack, smap, act, obj, home, R2)
  BY <1>1, <1>4, CallFrames
<1>6. ListsOK(smap, act, R2) /\ DeadOK(smap, obj, home, R2)
  BY <1>2, <1>3, <1>4, MoreRaces
<1>7. /\ smap' \in [Signo -> Seq(Handler)]
      /\ FramesOK(stack', smap', act, obj, home, R2)
      /\ ListsOK(smap', act, R2)
      /\ \A x \in Signo, g \in Handler : Contains(smap'[x], g) => Contains(smap[x], g)
  BY <1>1, <1>5, <1>6, ErasesFacts
<1>8. DeadOK(smap', obj, home, R2)
  BY <1>6, <1>7 DEF DeadOK
<1>9. Basic'
  <2>1. stack' \in Seq(Frames)
    BY <1>7 DEF FramesOK
  <2> QED
    BY <1>1, <1>2, <1>3, <1>7, <2>1 DEF Basic
<1> QED
  BY <1>1, <1>4, <1>7, <1>8, <1>9, NextParts

\* ~handler.
LEMMA DestroyedStep == ASSUME IInv, Destroyed PROVE IInv'
<1>1. /\ act' = act /\ blocked' = blocked /\ pending' = pending
      /\ home' = home /\ fate' = fate /\ raised' = raised /\ calls' = calls
      /\ raced' = raced /\ stack # <<>> /\ Top.f = "delete"
      /\ obj' = [obj EXCEPT ![Top.h] = "dead"]
      /\ Erases(Top.s, Top.h, Tail(stack))
  BY DEF Destroyed
<1>2. /\ Basic /\ ListsOK(smap, act, raced) /\ DeadOK(smap, obj, home, raced)
  BY Parts
<1>3. PICK t, ob2, s, h : t = Tail(stack) /\ ob2 = obj' /\ s = Top.s /\ h = Top.h
  OBVIOUS
<1>4. h \in Handler /\ s = home[h] /\ s \in Signo
  BY <1>1, <1>3, TopFacts DEF Sound, Frames
<1>5. /\ FramesOK(t, smap, act, obj, home, raced)
      /\ Alone(t, s, raced)
  BY <1>1, <1>3, BelowTop DEF Changes, Calls
<1>6. /\ smap \in [Signo -> Seq(Handler)] /\ home \in [Handler -> Signo]
      /\ obj \in [Handler -> {"none", "base", "live", "dying", "dead"}]
  BY <1>2 DEF Basic
<1>7. /\ ob2 \in [Handler -> {"none", "base", "live", "dying", "dead"}]
      /\ \A g \in Handler : g # h => ob2[g] = obj[g]
  BY <1>1, <1>3, <1>6
<1>8. FramesOK(t, smap, act, ob2, home, raced)
  <2>1. WorksOn(s, smap, act, obj, home, raced, smap, act, ob2, raced)
    BY <1>4, <1>7 DEF WorksOn
  <2> QED
    BY <1>4, <1>5, <1>6, <2>1, ElsewhereOK
<1>9. /\ smap' \in [Signo -> Seq(Handler)]
      /\ FramesOK(stack', smap', act, ob2, home, raced)
      /\ ListsOK(smap', act, raced)
      /\ \A x \in Signo, g \in Handler : Contains(smap'[x], g) => Contains(smap[x], g)
      /\ s \notin raced => ~Contains(smap'[s], h)
  BY <1>1, <1>2, <1>3, <1>4, <1>8, ErasesFacts
<1>10. DeadOK(smap', ob2, home, raced)
  <2> SUFFICES ASSUME NEW g \in Handler, NEW x \in Signo,
                      ob2[g] = "dead", Contains(smap'[x], g)
               PROVE  x # home[g] \/ x \in raced
    BY DEF DeadOK
  <2>1. CASE g = h
    BY <1>4, <1>9, <2>1
  <2>2. CASE g # h
    BY <1>2, <1>7, <1>9, <2>2 DEF DeadOK
  <2> QED
    BY <2>1, <2>2
<1>11. Basic'
  <2>1. stack' \in Seq(Frames)
    BY <1>9 DEF FramesOK
  <2> QED
    BY <1>1, <1>2, <1>3, <1>7, <1>9, <2>1 DEF Basic
<1> QED
  BY <1>1, <1>3, <1>9, <1>10, <1>11, NextParts

------------------------------------------------------------------------------
(* The actions: those that change the stack only.                          *)

Fates == {"running", "killed", "pure virtual", "deleted", "erased"}

\* Lists, actions and handlers are as they were.
LEMMA StackStep ==
  ASSUME IInv, smap' = smap, act' = act, obj' = obj, home' = home,
         raced \subseteq raced', raced' \subseteq Signo,
         FramesOK(stack', smap, act, obj, home, raced'),
         blocked' \subseteq Signo, pending' \subseteq Signo, fate' \in Fates,
         calls' \in 0 .. MaxCalls, raised' \in 0 .. MaxRaised
  PROVE  IInv'
<1>1. /\ Basic /\ ListsOK(smap, act, raced) /\ DeadOK(smap, obj, home, raced)
  BY Parts
<1>2. PICK R2 : R2 = raced'
  OBVIOUS
<1>3. ListsOK(smap, act, R2) /\ DeadOK(smap, obj, home, R2)
  BY <1>1, <1>2, MoreRaces
<1>4. Basic'
  <2>1. stack' \in Seq(Frames)
    BY DEF FramesOK
  <2> QED
    BY <1>1, <2>1 DEF Basic, Fates
<1> QED
  BY <1>2, <1>3, <1>4, NextParts

\* What the variables that an action leaves alone are.
LEMMA Stays ==
  ASSUME IInv
  PROVE  /\ smap \in [Signo -> Seq(Handler)] /\ act \in [Signo -> Actions]
         /\ obj \in [Handler -> {"none", "base", "live", "dying", "dead"}]
         /\ home \in [Handler -> Signo]
         /\ blocked \subseteq Signo /\ pending \subseteq Signo /\ fate \in Fates
         /\ calls \in 0 .. MaxCalls /\ raised \in 0 .. MaxRaised /\ raced \subseteq Signo
BY DEF IInv, Basic, Fates

\* A call has started and its frame is on top.
LEMMA PushCall ==
  ASSUME IInv, NEW s \in Signo, Starts(s), NEW fr \in Frames, fr.s = s,
         Sound(fr, smap, home), InFlight(fr, smap, act, obj, home, raced'),
         stack' = <<fr>> \o stack
  PROVE  FramesOK(stack', smap, act, obj, home, raced')
<1>1. PICK R2, t : R2 = raced' /\ t = stack'
  OBVIOUS
<1>2. FramesOK(stack, smap, act, obj, home, R2)
  BY <1>1, CallFrames
<1>3. Alone(stack, fr.s, R2)
  BY <1>1, StartFacts
<1>4. FramesOK(t, smap, act, obj, home, R2)
  BY <1>1, <1>2, <1>3, PushOK
<1> QED
  BY <1>1, <1>4

\* set called.
LEMMA SetStep == ASSUME IInv, NEW s \in Signo, NEW h \in Handler, Set(s, h) PROVE IInv'
<1>1. /\ smap' = smap /\ act' = act /\ obj' = obj /\ home' = home
      /\ blocked' = blocked /\ pending' = pending /\ fate' = fate /\ raised' = raised
      /\ Starts(s) /\ obj[h] = "live" /\ stack' = <<Frame("set", s, h)>> \o stack
  BY DEF Set, Push
<1>2. PICK fr : fr = Frame("set", s, h)
  OBVIOUS
<1>3. fr \in Frames /\ fr.f = "set" /\ fr.at = "begin" /\ fr.s = s /\ fr.h = h
  BY <1>2, NewFrame DEF Calls
<1>4. Sound(fr, smap, home) /\ InFlight(fr, smap, act, obj, home, raced')
  BY <1>1, <1>3 DEF Sound, InFlight
<1>5. FramesOK(stack', smap, act, obj, home, raced')
  BY <1>1, <1>2, <1>3, <1>4, PushCall
<1> QED
  BY <1>1, <1>5, StartFacts, Stays, StackStep

\* unbind, mask, unmask of two signals, or sysresume called.
LEMMA BeginStep == ASSUME IInv, NEW s \in Signo, NEW f \in Calls, Begin(f, s) PROVE IInv'
<1>1. PICK b \in Signo :
        /\ smap' = smap /\ act' = act /\ obj' = obj /\ home' = home
        /\ blocked' = blocked /\ pending' = pending /\ fate' = fate /\ raised' = raised
        /\ Starts(s) /\ f \in {"unbind", "mask2", "unmask2", "sysresume"}
        /\ stack' = <<[Frame(f, s, NoHandler) EXCEPT !.mask = {b}]>> \o stack
  BY DEF Begin, Push
<1>2. PICK fr, new : new = Frame(f, s, NoHandler) /\ fr = [new EXCEPT !.mask = {b}]
  OBVIOUS
<1>3. new \in Frames /\ new.f = f /\ new.at = "begin" /\ new.s = s
  BY <1>2, NewFrame
<1>4. fr \in Frames /\ fr.f = f /\ fr.at = "begin" /\ fr.s = s
  BY <1>2, <1>3 DEF Frames
<1>5. Sound(fr, smap, home) /\ InFlight(fr, smap, act, obj, home, raced')
  BY <1>1, <1>4 DEF Sound, InFlight
<1>6. FramesOK(stack', smap, act, obj, home, raced')
  BY <1>1, <1>2, <1>4, <1>5, PushCall
<1> QED
  BY <1>1, <1>6, StartFacts, Stays, StackStep

\* mask or unmask called.
LEMMA MaskStep == ASSUME IInv, NEW s \in Signo, NEW b \in BOOLEAN, Mask(s, b) PROVE IInv'
<1>1. /\ smap' = smap /\ act' = act /\ obj' = obj /\ home' = home /\ stack' = stack
      /\ pending' = pending /\ fate' = fate /\ raised' = raised
      /\ Starts(s) /\ blocked' \subseteq blocked \cup {s}
  BY DEF Mask
<1>2. FramesOK(stack', smap, act, obj, home, raced')
  BY <1>1, CallFrames
<1>3. blocked' \subseteq Signo
  BY <1>1, Stays
<1> QED
  BY <1>1, <1>2, <1>3, StartFacts, Stays, StackStep

\* What KillFrame (s) is.
LEMMA KillFrameIs ==
  ASSUME IInv, NEW s \in Signo, NEW fr, fr = KillFrame(s)
  PROVE  /\ fr \in Frames /\ fr.f = "kill" /\ fr.s = s /\ fr.at = "next"
         /\ fr.i = 0 /\ fr.cut = FALSE /\ fr.todo = ToSet(smap[s])
<1>1. PICK v \in Seq(Handler) : v = smap[s]
  BY Stays
<1>2. PICK new : new = Frame("kill", s, NoHandler)
  OBVIOUS
<1>3. new \in Frames /\ new.f = "kill" /\ new.s = s
  <2>1. PICK f \in Calls \cup {"kill"} : f = "kill"
    OBVIOUS
  <2>2. PICK h \in Handler \cup {NoHandler} : h = NoHandler
    OBVIOUS
  <2>3. new = Frame(f, s, h)
    BY <1>2, <2>1, <2>2
  <2> QED
    BY <2>1, <2>3, NewFrame
<1>4. new.i = 0 /\ new.cut = FALSE
  BY <1>2 DEF Frame
<1>5. PICK todo : todo = ToSet(v)
  OBVIOUS
<1>6. todo \subseteq Handler
  BY <1>5, LenProperties, ElementOfSeq DEF ToSet
<1>7. fr = [new EXCEPT !.at = "next", !.todo = todo]
  BY <1>1, <1>2, <1>5 DEF KillFrame
<1>8. /\ fr \in Frames /\ fr.f = "kill" /\ fr.s = s /\ fr.at = "next"
      /\ fr.i = 0 /\ fr.cut = FALSE /\ fr.todo = todo
  BY <1>3, <1>4, <1>6, <1>7 DEF Frames
<1> QED
  BY <1>1, <1>5, <1>8

\* A loop at its start is sound.
LEMMA KillFacts ==
  ASSUME IInv, NEW s \in Signo, NEW fr \in Frames, fr.f = "kill", fr.s = s, fr.at = "next",
         fr.i = 0, fr.cut = FALSE, fr.todo = ToSet(smap[s])
  PROVE  /\ Sound(fr, smap, home)
         /\ \A R : InFlight(fr, smap, act, obj, home, R)
<1>1. PICK v \in Seq(Handler) : v = smap[s]
  BY Stays
<1>2. \A h \in fr.todo : \E q \in 1 .. Len(v) : v[q] = h
  BY <1>1, LenProperties DEF ToSet
<1>3. LoopSound(fr, v)
  <2>1. Len(v) \in Nat
    BY LenProperties
  <2>2. 0 \in 0 .. Len(v) + 0
    BY <2>1
  <2>3. \A h \in fr.todo : \E q \in 1 .. Len(v) : q > 0 /\ v[q] = h
    BY <1>2
  <2> QED
    BY <2>2, <2>3 DEF LoopSound
<1> QED
  BY <1>1, <1>3 DEF Sound, InFlight

\* kill called.
LEMMA KillStep == ASSUME IInv, NEW s \in Signo, Kill(s) PROVE IInv'
<1>1. /\ smap' = smap /\ act' = act /\ obj' = obj /\ home' = home
      /\ blocked' = blocked /\ pending' = pending /\ fate' = fate /\ raised' = raised
      /\ Starts(s) /\ stack' = <<KillFrame(s)>> \o stack
  BY DEF Kill, Push
<1>2. PICK fr : fr = KillFrame(s)
  OBVIOUS
<1>3. /\ fr \in Frames /\ fr.f = "kill" /\ fr.s = s /\ fr.at = "next"
      /\ fr.i = 0 /\ fr.cut = FALSE /\ fr.todo = ToSet(smap[s])
  BY <1>2, KillFrameIs
<1>4. Sound(fr, smap, home) /\ \A R : InFlight(fr, smap, act, obj, home, R)
  BY <1>3, KillFacts
<1>5. FramesOK(stack', smap, act, obj, home, raced')
  BY <1>1, <1>2, <1>3, <1>4, PushCall
<1> QED
  BY <1>1, <1>5, StartFacts, Stays, StackStep

\* A signal is sent.
LEMMA RaiseStep == ASSUME IInv, NEW s \in Signo, Raise(s) PROVE IInv'
<1>1. /\ smap' = smap /\ act' = act /\ obj' = obj /\ home' = home /\ stack' = stack
      /\ blocked' = blocked /\ fate' = fate /\ calls' = calls /\ raced' = raced
      /\ pending' = pending \cup {s} /\ raised < MaxRaised /\ raised' = raised + 1
  BY DEF Raise
<1>2. FramesOK(stack', smap, act, obj, home, raced')
  BY <1>1, Parts
<1>3. raised' \in 0 .. MaxRaised /\ pending' \subseteq Signo
  BY <1>1, Stays
<1> QED
  BY <1>1, <1>2, <1>3, Stays, StackStep

\* A signal is taken.
LEMMA TakeStep == ASSUME IInv, NEW s \in Signo, Take(s) PROVE IInv'
<1>1. /\ smap' = smap /\ act' = act /\ obj' = obj /\ home' = home
      /\ calls' = calls /\ raised' = raised /\ raced' = raced
      /\ pending' = pending \ {s}
      /\ \/ fate' = "killed" /\ stack' = stack /\ blocked' = blocked
         \/ /\ stack' = <<[KillFrame(s) EXCEPT !.real = TRUE, !.mask = blocked]>> \o stack
            /\ blocked' = blocked \cup {s} \cup act[s].mask /\ fate' = fate
  BY DEF Take, Push
<1>2. FramesOK(stack, smap, act, obj, home, raced)
  BY Parts
<1>3. act[s].mask \subseteq Signo
  BY Stays DEF Actions
<1>4. blocked' \subseteq Signo /\ pending' \subseteq Signo /\ fate' \in Fates
  BY <1>1, <1>3, Stays DEF Fates
<1>5. FramesOK(stack', smap, act, obj, home, raced')
  <2>1. CASE stack' = stack
    BY <1>1, <1>2, <2>1
  <2>2. CASE stack' = <<[KillFrame(s) EXCEPT !.real = TRUE, !.mask = blocked]>> \o stack
    <3>1. PICK fr, t : /\ fr = [KillFrame(s) EXCEPT !.real = TRUE, !.mask = blocked]
                       /\ t = stack'
      OBVIOUS
    <3>2. /\ fr \in Frames /\ fr.f = "kill" /\ Sound(fr, smap, home)
          /\ InFlight(fr, smap, act, obj, home, raced)
      <4>1. PICK k : k = KillFrame(s)
        OBVIOUS
      <4>2. /\ k \in Frames /\ k.f = "kill" /\ k.s = s /\ k.at = "next"
            /\ k.i = 0 /\ k.cut = FALSE /\ k.todo = ToSet(smap[s])
        BY <4>1, KillFrameIs
      <4>3. PICK todo : todo = ToSet(smap[s])
        OBVIOUS
      <4>4. PICK old \in SUBSET Signo : old = blocked
        BY Stays
      <4>5. fr = [k EXCEPT !.real = TRUE, !.mask = old]
        BY <3>1, <4>1, <4>4
      <4>6. k.todo = todo
        BY <4>2, <4>3
      <4>7. /\ fr \in Frames /\ fr.f = "kill" /\ fr.s = s /\ fr.at = "next"
            /\ fr.i = 0 /\ fr.cut = FALSE /\ fr.todo = todo
        BY <4>2, <4>5, <4>6 DEF Frames
      <4> QED
        BY <4>3, <4>7, KillFacts
    <3>3. fr.f \notin Changes
      BY <3>2 DEF Changes, Calls
    <3>4. FramesOK(t, smap, act, obj, home, raced)
      BY <1>2, <2>2, <3>1, <3>2, <3>3, PushOK
    <3> QED
      BY <1>1, <3>1, <3>4
  <2> QED
    BY <1>1, <2>1, <2>2
<1> QED
  BY <1>1, <1>4, <1>5, Stays, StackStep

\* The top is replaced by another frame of the same function on its signal.
LEMMA ReplaceTop ==
  ASSUME IInv, stack # <<>>, NEW fr \in Frames, fr.f = Top.f, fr.s = Top.s,
         Sound(fr, smap, home), InFlight(fr, smap, act, obj, home, raced),
         NEW t, t = <<fr>> \o Tail(stack)
  PROVE  FramesOK(t, smap, act, obj, home, raced)
<1>1. PICK u : u = Tail(stack)
  OBVIOUS
<1>2. /\ FramesOK(u, smap, act, obj, home, raced)
      /\ Top.f \in Changes => Alone(u, Top.s, raced)
  BY <1>1, BelowTop
<1>3. fr.f \in Changes => Alone(u, fr.s, raced)
  BY <1>2
<1> QED
  BY <1>1, <1>2, <1>3, PushOK

\* The loop invokes its next handler.
LEMMA InvokesStep == ASSUME IInv, Invokes PROVE IInv'
<1>1. /\ smap' = smap /\ act' = act /\ obj' = obj /\ home' = home
      /\ blocked' = blocked /\ pending' = pending
      /\ calls' = calls /\ raised' = raised /\ raced' = raced
      /\ stack # <<>> /\ Top.at = "next" /\ ~Top.cut /\ Top.i < Len(smap[Top.s])
      /\ stack' = <<[Top EXCEPT !.at = "callback", !.i = @ + 1,
                                !.todo = @ \ {smap[Top.s][Top.i + 1]}]>> \o Tail(stack)
      /\ fate' = CASE obj[smap[Top.s][Top.i + 1]] = "live" -> fate
                   [] obj[smap[Top.s][Top.i + 1]] \in {"base", "dying"} -> "pure virtual"
                   [] obj[smap[Top.s][Top.i + 1]] \in {"none", "dead"} -> "deleted"
  BY DEF Invokes, Replace
<1>2. PICK top \in Frames : top = Top /\ Sound(top, smap, home)
  BY <1>1, TopFacts
<1>3. top.s \in Signo /\ top.i \in Nat /\ top.todo \subseteq Handler
  BY DEF Frames
<1>4. PICK v \in Seq(Handler) : v = smap[top.s]
  BY <1>3, Stays
<1>5. Len(v) \in Nat /\ top.i < Len(v)
  BY <1>1, <1>2, <1>4, LenProperties
<1>6. top.i + 1 \in 1 .. Len(v)
  BY <1>3, <1>5
<1>7. PICK h \in Handler : h = v[top.i + 1]
  BY <1>6, ElementOfSeq
<1>8. fate' \in Fates
  BY <1>1, <1>2, <1>4, <1>7, Stays DEF Fates
<1>turn. PICK i \in Nat : i = top.i + 1
  BY <1>3
<1>rest. PICK todo \in SUBSET Handler : todo = top.todo \ {h}
  BY <1>3
<1>9. PICK fr, t : /\ fr = [top EXCEPT !.at = "callback", !.i = i, !.todo = todo]
                   /\ t = stack'
  OBVIOUS
<1>10. /\ fr \in Frames /\ fr.f = top.f /\ fr.s = top.s /\ fr.at = "callback"
       /\ fr.i = top.i + 1 /\ fr.cut = top.cut /\ fr.todo = top.todo \ {h} /\ fr.h = top.h
  BY <1>turn, <1>rest, <1>9 DEF Frames
<1>11. top.f = "kill" /\ LoopSound(top, v)
  BY <1>1, <1>2, <1>4 DEF Sound
<1>12. LoopSound(fr, v)
  <2>1. fr.i \in 0 .. Len(v) + 0
    BY <1>3, <1>5, <1>10
  <2>2. ASSUME NEW g \in fr.todo PROVE \E q \in 1 .. Len(v) : q > fr.i /\ v[q] = g
    <3>1. PICK q \in 1 .. Len(v) : q > top.i /\ v[q] = g
      BY <1>1, <1>2, <1>10, <1>11 DEF LoopSound
    <3>2. q # top.i + 1
      BY <1>7, <1>10, <3>1
    <3>3. q > fr.i
      BY <1>3, <1>10, <3>1, <3>2
    <3> QED
      BY <3>1, <3>3
  <2>3. ~fr.cut
    BY <1>1, <1>2, <1>10
  <2> QED
    BY <2>1, <2>2, <2>3 DEF LoopSound
<1>13. Sound(fr, smap, home) /\ InFlight(fr, smap, act, obj, home, raced)
  BY <1>4, <1>10, <1>11, <1>12 DEF Sound, InFlight
<1>14. t = <<fr>> \o Tail(stack)
  BY <1>1, <1>2, <1>4, <1>7, <1>9, <1>turn, <1>rest
<1>15. FramesOK(t, smap, act, obj, home, raced)
  BY <1>1, <1>2, <1>10, <1>13, <1>14, ReplaceTop
<1> QED
  BY <1>1, <1>8, <1>9, <1>15, Stays, StackStep

\* A callback returns.
LEMMA ReturnsStep == ASSUME IInv, Returns PROVE IInv'
<1>1. /\ smap' = smap /\ act' = act /\ obj' = obj /\ home' = home
      /\ blocked' = blocked /\ pending' = pending /\ fate' = fate
      /\ calls' = calls /\ raised' = raised /\ raced' = raced
      /\ stack # <<>> /\ Top.at = "callback"
      /\ stack' = <<[Top EXCEPT !.at = "next"]>> \o Tail(stack)
  BY DEF Returns, Replace
<1>2. PICK top \in Frames : top = Top /\ Sound(top, smap, home)
  BY <1>1, TopFacts
<1>3. PICK fr, t : fr = [top EXCEPT !.at = "next"] /\ t = stack'
  OBVIOUS
<1>4. /\ fr \in Frames /\ fr.f = top.f /\ fr.s = top.s /\ fr.at = "next"
      /\ fr.i = top.i /\ fr.cut = top.cut /\ fr.todo = top.todo /\ fr.h = top.h
  BY <1>3 DEF Frames
<1>5. top.f = "kill"
  BY <1>1, <1>2 DEF Sound
<1>6. LoopSound(top, smap[top.s])
  BY <1>2, <1>5 DEF Sound
<1>7. LoopSound(fr, smap[fr.s])
  BY <1>4, <1>6 DEF LoopSound
<1>8. Sound(fr, smap, home) /\ InFlight(fr, smap, act, obj, home, raced)
  BY <1>4, <1>5, <1>7 DEF Sound, InFlight
<1>9. FramesOK(t, smap, act, obj, home, raced)
  BY <1>1, <1>2, <1>3, <1>4, <1>8, ReplaceTop
<1> QED
  BY <1>1, <1>3, <1>9, Stays, StackStep

\* A loop goes on from an erased node.
LEMMA DerailsStep == ASSUME IInv, Derails PROVE IInv'
<1>1. /\ smap' = smap /\ act' = act /\ obj' = obj /\ home' = home /\ stack' = stack
      /\ blocked' = blocked /\ pending' = pending /\ fate' = "erased"
      /\ calls' = calls /\ raised' = raised /\ raced' = raced
  BY DEF Derails
<1>2. FramesOK(stack', smap, act, obj, home, raced')
  BY <1>1, Parts
<1>3. fate' \in Fates
  BY <1>1 DEF Fates
<1> QED
  BY <1>1, <1>2, <1>3, Stays, StackStep

\* A loop comes to its end.
LEMMA EndsStep == ASSUME IInv, Ends PROVE IInv'
<1>1. /\ smap' = smap /\ act' = act /\ obj' = obj /\ home' = home
      /\ pending' = pending /\ fate' = fate
      /\ calls' = calls /\ raised' = raised /\ raced' = raced
      /\ stack # <<>> /\ stack' = Tail(stack)
      /\ blocked' = IF Top.real THEN Top.mask ELSE blocked
  BY DEF Ends, Pop
<1>2. Top.mask \subseteq Signo
  BY <1>1, TopFacts DEF Frames
<1>3. PICK t : t = Tail(stack)
  OBVIOUS
<1>4. FramesOK(t, smap, act, obj, home, raced)
  BY <1>1, <1>3, BelowTop
<1>5. blocked' \subseteq Signo
  BY <1>1, <1>2, Stays
<1> QED
  BY <1>1, <1>3, <1>4, <1>5, Stays, StackStep

------------------------------------------------------------------------------
(* The actions: the steps of the calls.                                    *)

\* The top is a call of set for a handler, which ends and puts it at the end
\* of its list.  The list was empty, with its signal handled, or it was not and
\* the handler not on it; or calls on the signal race.
LEMMA AddedStep ==
  ASSUME IInv, stack # <<>>, Top.f = "set",
         act' = act, blocked' = blocked, pending' = pending, obj' = obj, home' = home,
         fate' = fate, calls' = calls, raised' = raised, raced' = raced,
         stack' = Tail(stack),
         smap' = [smap EXCEPT ![Top.s] = Append(smap[Top.s], Top.h)],
         Top.s \notin raced => /\ ~Contains(smap[Top.s], Top.h)
                               /\ act[Top.s].handler = "sighandler"
  PROVE  IInv'
<1>1. /\ Basic /\ ListsOK(smap, act, raced) /\ DeadOK(smap, obj, home, raced)
  BY Parts
<1>2. PICK t, s, h, m2 : t = Tail(stack) /\ s = Top.s /\ h = Top.h /\ m2 = smap'
  OBVIOUS
<1>3. /\ s \in Signo /\ h \in Handler
      /\ s \notin raced /\ s = home[h] => obj[h] \in {"base", "live"}
  BY <1>2, TopFacts DEF Sound, Frames, InFlight
<1>4. FramesOK(t, smap, act, obj, home, raced) /\ Alone(t, s, raced)
  BY <1>2, BelowTop DEF Changes, Calls
<1>5. PICK v \in Seq(Handler) : v = smap[s]
  BY <1>3, Stays
<1>6. PICK w : w = Append(v, h)
  OBVIOUS
<1>7. /\ w \in Seq(Handler)
      /\ \A g : Contains(w, g) => g = h \/ Contains(v, g)
      /\ Unique(v) /\ ~Contains(v, h) => Unique(w)
  BY <1>3, <1>6, AppendFacts
<1>8. m2 = [smap EXCEPT ![s] = w]
  BY <1>2, <1>5, <1>6
<1>9. m2[s] = w /\ \A x \in Signo : x # s => m2[x] = smap[x]
  BY <1>3, <1>8, Stays
<1>10. FramesOK(t, m2, act, obj, home, raced)
  <2>1. m2[s] = Append(smap[s], h)
    BY <1>5, <1>6, <1>9
  <2> QED
    BY <1>3, <1>4, <1>9, <2>1, Stays, AddsOK
<1>11. ListsOK(m2, act, raced)
  <2> SUFFICES ASSUME NEW x \in Signo \ raced
               PROVE  /\ m2[x] # <<>> => act[x].handler = "sighandler"
                      /\ Unique(m2[x])
    BY DEF ListsOK
  <2>1. CASE x = s
    <3>1. Unique(v)
      BY <1>1, <1>5, <2>1 DEF ListsOK
    <3>2. ~Contains(v, h) /\ act[s].handler = "sighandler"
      BY <1>2, <1>5, <2>1
    <3> QED
      BY <1>7, <1>9, <2>1, <3>1, <3>2
  <2>2. CASE x # s
    BY <1>1, <1>9, <2>2 DEF ListsOK
  <2> QED
    BY <2>1, <2>2
<1>12. DeadOK(m2, obj, home, raced)
  <2> SUFFICES ASSUME NEW g \in Handler, NEW x \in Signo,
                      obj[g] = "dead", Contains(m2[x], g)
               PROVE  x # home[g] \/ x \in raced
    BY DEF DeadOK
  <2>1. CASE x = s /\ g = h
    BY <1>3, <2>1
  <2>2. CASE ~(x = s /\ g = h)
    <3>1. Contains(smap[x], g)
      BY <1>5, <1>7, <1>9, <2>2
    <3> QED
      BY <1>1, <3>1 DEF DeadOK
  <2> QED
    BY <2>1, <2>2
<1>13. Basic'
  <2>1. t \in Seq(Frames)
    BY <1>10 DEF FramesOK
  <2>2. m2 \in [Signo -> Seq(Handler)]
    BY <1>7, <1>8, Stays
  <2> QED
    BY <1>1, <1>2, <2>1, <2>2 DEF Basic
<1> QED
  BY <1>2, <1>10, <1>11, <1>12, <1>13, NextParts

\* set on a list that is not empty.
LEMMA SetAddsStep == ASSUME IInv, SetAdds PROVE IInv'
<1>1. /\ act' = act /\ blocked' = blocked /\ pending' = pending /\ obj' = obj
      /\ home' = home /\ fate' = fate /\ calls' = calls /\ raised' = raised
      /\ raced' = raced /\ stack # <<>> /\ Top.f = "set" /\ smap[Top.s] # <<>>
      /\ stack' = Tail(stack)
      /\ smap' = IF Contains(smap[Top.s], Top.h) THEN smap
                 ELSE [smap EXCEPT ![Top.s] = Append(smap[Top.s], Top.h)]
  BY DEF SetAdds, Pop
<1>2. CASE Contains(smap[Top.s], Top.h)
  <2>1. PICK t : t = Tail(stack)
    OBVIOUS
  <2>2. FramesOK(t, smap, act, obj, home, raced)
    BY <1>1, <2>1, BelowTop
  <2> QED
    BY <1>1, <1>2, <2>1, <2>2, Stays, StackStep
<1>3. CASE ~Contains(smap[Top.s], Top.h)
  <2>1. Top.s \in Signo
    BY <1>1, TopFacts DEF Frames
  <2>2. Top.s \notin raced => act[Top.s].handler = "sighandler"
    BY <1>1, <2>1, Parts DEF ListsOK
  <2> QED
    BY <1>1, <1>3, <2>2, AddedStep
<1> QED
  BY <1>2, <1>3

\* set on a list that was empty, at its end.
LEMMA PushesStep == ASSUME IInv, Pushes PROVE IInv'
<1>1. /\ act' = act /\ blocked' = blocked /\ pending' = pending /\ obj' = obj
      /\ home' = home /\ fate' = fate /\ calls' = calls /\ raised' = raised
      /\ raced' = raced /\ stack # <<>> /\ Top.at = "push"
      /\ stack' = Tail(stack)
      /\ smap' = [smap EXCEPT ![Top.s] = Append(smap[Top.s], Top.h)]
  BY DEF Pushes, Pop
<1>2. /\ Top.f = "set"
      /\ Top.s \notin raced => smap[Top.s] = <<>> /\ act[Top.s].handler = "sighandler"
  BY <1>1, TopFacts DEF Sound, InFlight
<1>3. ~Contains(<<>>, Top.h)
  BY EmptySeq DEF Contains
<1>4. Top.s \notin raced => ~Contains(smap[Top.s], Top.h)
  BY <1>2, <1>3
<1> QED
  BY <1>1, <1>2, <1>4, AddedStep

\* A call writes its sigaction.
LEMMA WritesStep == ASSUME IInv, Writes PROVE IInv'
<1>1. /\ smap' = smap /\ blocked' = blocked /\ pending' = pending /\ obj' = obj
      /\ home' = home /\ fate' = fate /\ calls' = calls /\ raised' = raised
      /\ raced' = raced /\ stack # <<>> /\ Top.at = "read"
      /\ act' = IF Top.f \in {"mask2", "unmask2", "sysresume"} \/
                   (Top.sa.handler = "sighandler") = (Top.f = "unbind")
                THEN [act EXCEPT ![Top.s] = Written(Top.f, Top.sa, Top.mask)]
                ELSE act
      /\ stack' = IF Top.f = "set" THEN <<[Top EXCEPT !.at = "push"]>> \o Tail(stack)
                  ELSE Tail(stack)
  BY DEF Writes, Replace, Pop
<1>2. /\ Basic /\ ListsOK(smap, act, raced) /\ DeadOK(smap, obj, home, raced)
  BY Parts
<1>3. PICK top \in Frames : /\ top = Top /\ Sound(top, smap, home)
                            /\ InFlight(top, smap, act, obj, home, raced)
  BY <1>1, TopFacts
<1>4. PICK s, sa, b, x, a2 :
        /\ s \in Signo /\ sa \in Actions /\ b \in SUBSET Signo
        /\ s = top.s /\ sa = top.sa /\ b = top.mask /\ a2 = act'
        /\ x = Written(top.f, sa, b)
  <2>1. top.s \in Signo /\ top.sa \in Actions /\ top.mask \in SUBSET Signo
    BY DEF Frames
  <2> QED
    BY <2>1
<1> s \in Signo /\ sa \in Actions /\ b \in SUBSET Signo
  BY <1>4
<1>5. top.f \in {"set", "unbind", "mask2", "unmask2", "sysresume"}
  BY <1>1, <1>3 DEF Sound, Frames, Calls
<1>6. x \in Actions /\ (top.f # "unbind" => x.handler = "sighandler")
  <2>1. Ours \in Actions /\ Ours.handler = "sighandler" /\ Default \in Actions
    BY DEF Ours, Default, Actions
  <2>2. PICK ours \in Actions :
          /\ ours = IF sa.handler = "sighandler" THEN sa ELSE Ours
          /\ ours.handler = "sighandler"
    BY <2>1
  <2>3. PICK more \in SUBSET Signo : more = ours.mask \cup b
    BY DEF Actions
  <2>4. PICK less \in SUBSET Signo : less = sa.mask \ b
    BY DEF Actions
  <2>5. CASE top.f = "unbind"
    BY <1>4, <2>1, <2>5 DEF Written
  <2>6. CASE top.f = "mask2"
    <3>1. x = [ours EXCEPT !.mask = more]
      BY <1>4, <2>2, <2>3, <2>6 DEF Written
    <3> QED
      BY <2>2, <3>1 DEF Actions
  <2>7. CASE top.f = "unmask2"
    <3>1. x = IF sa.handler = "sighandler" THEN [sa EXCEPT !.mask = less] ELSE Ours
      BY <1>4, <2>4, <2>7 DEF Written
    <3>2. CASE sa.handler = "sighandler"
      BY <3>1, <3>2 DEF Actions
    <3>3. CASE sa.handler # "sighandler"
      BY <2>1, <3>1, <3>3
    <3> QED
      BY <3>2, <3>3
  <2>8. CASE top.f \in {"set", "sysresume"}
    BY <1>4, <2>2, <2>8 DEF Written
  <2> QED
    BY <1>5, <2>5, <2>6, <2>7, <2>8
<1>7. /\ a2 \in [Signo -> Actions]
      /\ \A y \in Signo : y # s => a2[y] = act[y]
      /\ a2[s] = x \/ a2[s] = act[s]
  BY <1>1, <1>3, <1>4, <1>6, Stays
<1>8. top.f \in {"mask2", "unmask2", "sysresume"} => a2[s].handler = "sighandler"
  <2>1. ASSUME top.f \in {"mask2", "unmask2", "sysresume"} PROVE a2[s] = x
    BY <1>1, <1>3, <1>4, <2>1, Stays
  <2> QED
    BY <1>6, <2>1
<1>9. ASSUME top.f = "set", s \notin raced
      PROVE  a2[s].handler = "sighandler"
  <2>1. sa = act[s]
    BY <1>1, <1>3, <1>4, <1>9 DEF InFlight
  <2>2. CASE sa.handler = "sighandler"
    BY <1>6, <1>7, <1>9, <2>1, <2>2
  <2>3. CASE sa.handler # "sighandler"
    <3>1. a2 = [act EXCEPT ![s] = x]
      BY <1>1, <1>3, <1>4, <1>9, <2>3
    <3>2. a2[s] = x
      BY <3>1, Stays
    <3> QED
      BY <1>6, <1>9, <3>2
  <2> QED
    BY <2>2, <2>3
<1>10. ASSUME top.f \in {"set", "unbind"}, s \notin raced
       PROVE  smap[s] = <<>>
  BY <1>1, <1>3, <1>4, <1>10 DEF InFlight
<1>11. ListsOK(smap, a2, raced)
  <2> SUFFICES ASSUME NEW y \in Signo \ raced
               PROVE  smap[y] # <<>> => a2[y].handler = "sighandler"
    BY <1>2 DEF ListsOK
  <2>1. CASE y = s
    BY <1>5, <1>8, <1>10, <2>1
  <2>2. CASE y # s
    BY <1>2, <1>7, <2>2 DEF ListsOK
  <2> QED
    BY <2>1, <2>2
<1>12. PICK t, u : t = Tail(stack) /\ u = stack'
  OBVIOUS
<1>13. FramesOK(t, smap, act, obj, home, raced) /\ Alone(t, s, raced)
  BY <1>1, <1>3, <1>4, <1>5, <1>12, BelowTop DEF Changes, Calls
<1>14. FramesOK(t, smap, a2, obj, home, raced)
  BY <1>7, <1>13, Stays, ActsOK
<1>15. FramesOK(u, smap, a2, obj, home, raced)
  <2>1. CASE top.f # "set"
    BY <1>1, <1>3, <1>12, <1>14, <2>1
  <2>2. CASE top.f = "set"
    <3>1. PICK fr : fr = [top EXCEPT !.at = "push"]
      OBVIOUS
    <3>2. /\ fr \in Frames /\ fr.f = top.f /\ fr.s = s /\ fr.at = "push" /\ fr.h = top.h
      BY <1>4, <3>1 DEF Frames
    <3>3. Sound(fr, smap, home)
      BY <1>3, <2>2, <3>2 DEF Sound
    <3>4. InFlight(fr, smap, a2, obj, home, raced)
      BY <1>3, <1>4, <1>9, <1>10, <2>2, <3>2 DEF InFlight
    <3>5. u = <<fr>> \o t
      BY <1>1, <1>3, <1>12, <2>2, <3>1
    <3>6. Alone(t, fr.s, raced)
      BY <1>13, <3>2
    <3> QED
      BY <1>14, <3>2, <3>3, <3>4, <3>5, <3>6, PushOK
  <2> QED
    BY <2>1, <2>2
<1>16. Basic'
  <2>1. u \in Seq(Frames)
    BY <1>15 DEF FramesOK
  <2> QED
    BY <1>1, <1>2, <1>4, <1>7, <1>12, <2>1 DEF Basic
<1> QED
  BY <1>1, <1>2, <1>4, <1>11, <1>12, <1>15, <1>16, NextParts

\* What is erased leaves a frame on top that is not of a loop.
LEMMA ErasedPush ==
  ASSUME NEW st \in Seq(Frames), NEW fr \in Frames, fr.f # "kill",
         NEW s, NEW v, NEW P, NEW t, t = ErasedBy(st, s, v, P),
         t \in Seq(Frames), Len(t) = Len(st)
  PROVE  ErasedBy(<<fr>> \o st, s, v, P) = <<fr>> \o t
<1>1. PICK u, w : u = <<fr>> \o st /\ w = <<fr>> \o t
  OBVIOUS
<1>2. /\ u \in Seq(Frames) /\ Len(u) = Len(st) + 1 /\ u[1] = fr
      /\ \A k \in 1 .. Len(u) : k # 1 => k - 1 \in 1 .. Len(st) /\ u[k] = st[k - 1]
  BY <1>1, PushFrame
<1>3. /\ w \in Seq(Frames) /\ Len(w) = Len(t) + 1 /\ w[1] = fr
      /\ \A k \in 1 .. Len(w) : k # 1 => k - 1 \in 1 .. Len(t) /\ w[k] = t[k - 1]
  BY <1>1, PushFrame
<1>4. Len(u) = Len(w)
  BY <1>2, <1>3
<1>5. ASSUME NEW k \in 1 .. Len(u)
      PROVE  w[k] = IF u[k].f = "kill" /\ u[k].s = s THEN Jolted(u[k], v, P) ELSE u[k]
  <2>1. CASE k = 1
    BY <1>2, <1>3, <2>1
  <2>2. CASE k # 1
    <3>1. k - 1 \in 1 .. Len(st) /\ u[k] = st[k - 1] /\ w[k] = t[k - 1]
      BY <1>2, <1>3, <1>4, <2>2
    <3>2. t[k - 1] = IF st[k - 1].f = "kill" /\ st[k - 1].s = s
                     THEN Jolted(st[k - 1], v, P) ELSE st[k - 1]
      BY <3>1 DEF ErasedBy
    <3> QED
      BY <3>1, <3>2
  <2> QED
    BY <2>1, <2>2
<1>6. w = [k \in 1 .. Len(w) |-> w[k]]
  BY <1>3, SeqDef, LenProperties
<1>7. ErasedBy(u, s, v, P) = w
  BY <1>4, <1>5, <1>6 DEF ErasedBy
<1> QED
  BY <1>1, <1>7

\* A call reads the sigaction; unbind empties the list before.
LEMMA ReadsStep == ASSUME IInv, Reads PROVE IInv'
<1>1. /\ act' = act /\ blocked' = blocked /\ pending' = pending /\ obj' = obj
      /\ home' = home /\ fate' = fate /\ calls' = calls /\ raised' = raised
      /\ raced' = raced /\ stack # <<>> /\ Top.at = "begin"
      /\ Top.f \in {"set", "unbind", "mask2", "unmask2", "sysresume"}
      /\ Top.f = "set" => smap[Top.s] = <<>>
  BY DEF Reads
<1>2. LET read == <<[Top EXCEPT !.at = "read", !.sa = act[Top.s]]>> \o Tail(stack) IN
      IF Top.f = "unbind"
      THEN /\ smap' = [smap EXCEPT ![Top.s] = <<>>]
           /\ stack' = Erased(read, Top.s, 1 .. Len(smap[Top.s]))
      ELSE stack' = read /\ smap' = smap
  BY DEF Reads
<1>3. /\ Basic /\ ListsOK(smap, act, raced) /\ DeadOK(smap, obj, home, raced)
  BY Parts
<1>4. PICK top \in Frames : /\ top = Top /\ Sound(top, smap, home)
                            /\ InFlight(top, smap, act, obj, home, raced)
  BY <1>1, TopFacts
<1>5. PICK s \in Signo : s = top.s
  BY DEF Frames
<1>6. PICK sa \in Actions : sa = act[s]
  BY Stays
<1>7. PICK fr, t : fr = [top EXCEPT !.at = "read", !.sa = sa] /\ t = Tail(stack)
  OBVIOUS
<1>8. /\ fr \in Frames /\ fr.f = top.f /\ fr.s = s /\ fr.at = "read" /\ fr.sa = sa
      /\ fr.h = top.h
  BY <1>5, <1>7 DEF Frames
<1>9. FramesOK(t, smap, act, obj, home, raced) /\ Alone(t, s, raced)
  BY <1>1, <1>4, <1>5, <1>7, BelowTop DEF Changes, Calls
<1>10. \A m : Sound(fr, m, home)
  BY <1>1, <1>4, <1>8 DEF Sound
<1>11. CASE top.f # "unbind"
  <2>1. stack' = <<fr>> \o t /\ smap' = smap
    BY <1>2, <1>4, <1>5, <1>6, <1>7, <1>11
  <2>2. InFlight(fr, smap, act, obj, home, raced)
    BY <1>1, <1>4, <1>5, <1>6, <1>8, <1>11 DEF InFlight
  <2>3. PICK u : u = <<fr>> \o t
    OBVIOUS
  <2>4. Alone(t, fr.s, raced)
    BY <1>8, <1>9
  <2>5. FramesOK(u, smap, act, obj, home, raced)
    BY <1>8, <1>9, <1>10, <2>2, <2>3, <2>4, PushOK
  <2> QED
    BY <1>1, <2>1, <2>3, <2>5, Stays, StackStep
<1>12. CASE top.f = "unbind"
  <2>1. PICK v, P, m2, u :
          v \in Seq(Handler) /\ v = smap[s] /\ P = 1 .. Len(v) /\ m2 = smap' /\ u = ErasedBy(t, s, v, P)
    BY Stays
  <2> v \in Seq(Handler)
    BY <2>1
  <2>2. m2 = [smap EXCEPT ![s] = <<>>] /\ stack' = Erased(<<fr>> \o t, s, P)
    BY <1>2, <1>4, <1>5, <1>6, <1>7, <1>12, <2>1
  <2>3. /\ m2[s] = <<>> /\ m2 \in [Signo -> Seq(Handler)]
        /\ \A x \in Signo : x # s => m2[x] = smap[x]
    BY <2>2, Stays
  <2>4. Erasure(smap, s, m2, t, u)
    BY <2>1, <2>2 DEF Erasure, Leaves
  <2>5. /\ FramesOK(u, m2, act, obj, home, raced)
        /\ Len(u) = Len(t)
        /\ \A k \in 1 .. Len(u) : /\ k \in 1 .. Len(t)
                                  /\ u[k].f = t[k].f /\ u[k].s = t[k].s
    <3>1. smap \in [Signo -> Seq(Handler)]
      BY Stays
    <3>2. FramesOK(u, m2, act, obj, home, raced)
      BY <1>9, <2>4, <3>1, ErasedOK
    <3>3. Len(u) = Len(t)
      BY <1>9, <2>4, <3>1, ErasedOK
    <3>4. \A k \in 1 .. Len(u) : k \in 1 .. Len(t) /\ u[k].f = t[k].f /\ u[k].s = t[k].s
      BY <1>9, <2>4, <3>1, ErasedOK
    <3> QED
      BY <3>2, <3>3, <3>4
  <2>6. Alone(u, s, raced)
    BY <1>9, <2>5 DEF Alone
  <2>7. t \in Seq(Frames) /\ u \in Seq(Frames)
    BY <1>9, <2>5 DEF FramesOK
  <2>8. ErasedBy(<<fr>> \o t, s, v, P) = <<fr>> \o u
    BY SMTT(60), <1>8, <1>12, <2>1, <2>5, <2>7, ErasedPush
  <2>9. stack' = <<fr>> \o u
    BY <2>1, <2>2, <2>8, ErasedIsBy
  <2>10. InFlight(fr, m2, act, obj, home, raced)
    BY <1>8, <1>12, <2>3 DEF InFlight
  <2>11. PICK w : w = <<fr>> \o u
    OBVIOUS
  <2>12. Alone(u, fr.s, raced) /\ Sound(fr, m2, home)
    BY <1>8, <1>10, <2>6
  <2>13. FramesOK(w, m2, act, obj, home, raced)
    BY <1>8, <2>5, <2>10, <2>11, <2>12, PushOK
  <2>14. ListsOK(m2, act, raced)
    <3>1. Unique(<<>>)
      BY EmptySeq DEF Unique
    <3> QED
      BY <1>3, <2>3, <3>1 DEF ListsOK
  <2>15. DeadOK(m2, obj, home, raced)
    <3>1. \A g : ~Contains(<<>>, g)
      BY EmptySeq DEF Contains
    <3> QED
      BY <1>3, <2>3, <3>1 DEF DeadOK
  <2>16. Basic'
    <3>1. w \in Seq(Frames)
      BY <2>13 DEF FramesOK
    <3> QED
      BY <1>1, <1>3, <2>1, <2>3, <2>9, <2>11, <3>1 DEF Basic
  <2> QED
    BY <1>1, <2>1, <2>9, <2>11, <2>13, <2>14, <2>15, <2>16, NextParts
<1> QED
  BY <1>11, <1>12

------------------------------------------------------------------------------
(* The theorems.                                                           *)

\* The invariant holds at the start, ...
LEMMA InitIInv == Init => IInv
<1> SUFFICES ASSUME Init PROVE IInv
  OBVIOUS
<1>1. /\ smap = [s \in Signo |-> <<>>] /\ act = [s \in Signo |-> Default]
      /\ blocked = {} /\ pending = {} /\ stack = <<>>
      /\ obj = [h \in Handler |-> "none"] /\ home \in [Handler -> Signo]
      /\ fate = "running" /\ calls = 0 /\ raised = 0 /\ raced = {}
  BY DEF Init
<1>2. stack \in Seq(Frames) /\ Len(stack) = 0
  BY <1>1, EmptySeq
<1>3. smap \in [Signo -> Seq(Handler)] /\ act \in [Signo -> Actions]
  BY <1>1 DEF Default, Actions
<1>4. Basic
  BY <1>1, <1>2, <1>3 DEF Basic
<1>5. FramesOK(stack, smap, act, obj, home, raced)
  <2>1. 1 .. Len(stack) = {}
    BY <1>2
  <2> QED
    BY <1>2, <2>1 DEF FramesOK, OneIn
<1>6. ListsOK(smap, act, raced)
  <2>1. Unique(<<>>)
    BY EmptySeq DEF Unique
  <2> QED
    BY <1>1, <2>1 DEF ListsOK
<1>7. DeadOK(smap, obj, home, raced)
  BY <1>1 DEF DeadOK
<1> QED
  BY <1>4, <1>5, <1>6, <1>7, Parts

\* ... and no step of the program, of a call, of a signal or of a loop breaks it.
THEOREM IInvInductive == IInv /\ [Next]_vars => IInv'
<1> SUFFICES ASSUME IInv, [Next]_vars PROVE IInv'
  OBVIOUS
<1>1. ASSUME NEW h \in Handler, New(h) \/ Delete(h) PROVE IInv'
  BY <1>1, NewStep, DeleteStep
<1>2. ASSUME NEW s \in Signo, NEW h \in Handler, Set(s, h) \/ Unset(s, h) PROVE IInv'
  BY <1>2, SetStep, UnsetStep
<1>3. ASSUME NEW s \in Signo, NEW f \in Calls, Begin(f, s) PROVE IInv'
  BY <1>3, BeginStep
<1>4. ASSUME NEW s \in Signo, Kill(s) \/ \E block \in BOOLEAN : Mask(s, block) PROVE IInv'
  BY <1>4, KillStep, MaskStep
<1>5. ASSUME NEW s \in Signo, Raise(s) \/ Take(s) PROVE IInv'
  BY <1>5, RaiseStep, TakeStep
<1>6. ASSUME Steps PROVE IInv'
  BY <1>6, ConstructedStep, DestroyedStep, SetAddsStep, ReadsStep, WritesStep, PushesStep,
     InvokesStep, ReturnsStep, DerailsStep, EndsStep DEF Steps
<1>7. ASSUME UNCHANGED vars PROVE IInv'
  BY <1>7 DEF vars, IInv, Basic, RegisteredIsHandled, DeadAreUnlisted
<1> QED
  BY <1>1, <1>2, <1>3, <1>4, <1>5, <1>6, <1>7 DEF Next, Interface

\* The invariant holds in every state of every behaviour.
THEOREM IInvAlways == Spec => []IInv
<1> QED
  BY InitIInv, IInvInductive, PTL DEF Spec

\* Every state of the signal module is well formed: each frame of the stack is
\* one of its calls or loops, and a loop is at a place of its list, or one
\* behind it if its node was erased.
THEOREM TypeCorrect == Spec => []TypeOK
<1> QED
  BY IInvAlways, Types, PTL

\* However set, unset, unbind, mask, unmask, sysresume, callbacks and signals
\* follow and nest, a signal with handlers on its list is one that sighandler
\* takes, and none of them is on it twice, unless one call on that signal cut
\* into another.
THEOREM ListedIsHandled == Spec => []RegisteredIsHandled
<1>1. IInv => RegisteredIsHandled
  BY DEF IInv
<1> QED
  BY IInvAlways, <1>1, PTL

\* A loop of sig::kill that comes to its end has invoked every handler that was
\* on its list when it started and was not taken off since.
THEOREM LoopsComplete == Spec => []AllInvoked
<1>1. IInv => AllInvoked
  <2> SUFFICES ASSUME IInv, NEW k \in 1 .. Len(stack),
                      stack[k].at = "next", ~stack[k].cut,
                      stack[k].i >= Len(smap[stack[k].s])
               PROVE  stack[k].todo = {}
    BY DEF AllInvoked
  <2>1. PICK fr \in Frames : fr = stack[k] /\ Sound(fr, smap, home)
    BY StackFacts
  <2>2. PICK v \in Seq(Handler) : v = smap[fr.s]
    BY Stays DEF Frames
  <2>3. Len(v) \in Nat /\ fr.i \in Nat /\ fr.i >= Len(v)
    BY <2>1, <2>2, LenProperties DEF Frames
  <2>4. LoopSound(fr, v) /\ ~fr.cut
    BY <2>1, <2>2 DEF Sound
  <2>5. ASSUME NEW h \in fr.todo PROVE FALSE
    <3>1. PICK q \in 1 .. Len(v) : q > fr.i
      BY <2>4 DEF LoopSound
    <3> QED
      BY <2>3, <3>1
  <2> QED
    BY <2>1, <2>5
<1> QED
  BY IInvAlways, <1>1, PTL

\* ~handler takes the handler off the list of its signal for good.
THEOREM DeadUnlisted == Spec => []DeadAreUnlisted
<1>1. IInv => DeadAreUnlisted
  BY DEF IInv
<1> QED
  BY IInvAlways, <1>1, PTL
=============================================================================

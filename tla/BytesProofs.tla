----------------------------- MODULE BytesProofs -----------------------------
(***************************************************************************)
(* What cutting and joining do to a piece of a stream of bytes: the lemmas *)
(* that the proofs about both halves of sockbuf rest on, with those about  *)
(* sequences and numbers that other proofs use too.                        *)
(***************************************************************************)
EXTENDS Bytes, SequencesExt, SequenceTheorems, WellFoundedInduction, TLAPS

\* A set of natural numbers that is not empty has a least element.
LEMMA Least ==
  ASSUME NEW T, T \in SUBSET Nat, T # {}
  PROVE  \E x \in T : \A y \in T : x <= y
<1>1. PICK x \in T : \A y \in T : ~(<<y, x>> \in OpToRel(<, Nat))
  BY NatLessThanWellFounded, WFMin
<1>2. ASSUME NEW y \in T PROVE x <= y
  <2>1. x \in Nat /\ y \in Nat
    OBVIOUS
  <2>2. y < x => <<y, x>> \in OpToRel(<, Nat)
    BY <2>1 DEF OpToRel
  <2>3. ~(y < x)
    BY <1>1, <2>2
  <2> QED
    BY <2>1, <2>3
<1> QED
  BY <1>2

\* What SubSeq (s, a + 1, b) holds: the b - a elements behind the a-th.
LEMMA Slice ==
  ASSUME NEW S, NEW s \in Seq(S), NEW a \in Nat, NEW b \in Nat,
         a <= b, b <= Len(s)
  PROVE  /\ SubSeq(s, a + 1, b) \in Seq(S)
         /\ Len(SubSeq(s, a + 1, b)) = b - a
         /\ \A i \in 1 .. b - a : SubSeq(s, a + 1, b)[i] = s[a + i]
<1>1. \A i \in a + 1 .. b : s[i] \in S
  BY LenProperties, ElementOfSeq
<1>2. /\ SubSeq(s, a + 1, b) \in Seq(S)
      /\ Len(SubSeq(s, a + 1, b)) = IF a + 1 <= b THEN b - (a + 1) + 1 ELSE 0
      /\ \A i \in 1 .. b - (a + 1) + 1 : SubSeq(s, a + 1, b)[i] = s[(a + 1) + i - 1]
  <2>1. a + 1 \in Int /\ b \in Int
    OBVIOUS
  <2> QED
    BY <1>1, <2>1, SubSeqProperties
<1> QED
  BY <1>2

\* The first n elements.
LEMMA Prefix ==
  ASSUME NEW S, NEW s \in Seq(S), NEW n \in 0 .. Len(s)
  PROVE  /\ SubSeq(s, 1, n) \in Seq(S)
         /\ Len(SubSeq(s, 1, n)) = n
         /\ \A i \in 1 .. n : SubSeq(s, 1, n)[i] = s[i]
<1>1. Len(s) \in Nat /\ n \in Nat /\ 0 \in Nat /\ 0 <= n /\ n <= Len(s)
  BY LenProperties
<1>2. /\ SubSeq(s, 0 + 1, n) \in Seq(S)
      /\ Len(SubSeq(s, 0 + 1, n)) = n - 0
      /\ \A i \in 1 .. n - 0 : SubSeq(s, 0 + 1, n)[i] = s[0 + i]
  BY <1>1, Slice
<1>3. 0 + 1 = 1 /\ n - 0 = n /\ \A i \in 1 .. n : 0 + i = i
  BY <1>1
<1> QED
  BY <1>2, <1>3

\* Bytes appended to a piece that ends where they begin follow on.
LEMMA FollowsJoin ==
  ASSUME NEW S, S \subseteq Int, NEW p \in Seq(S), NEW t \in Seq(S),
         NEW base \in Int, Follows(p, base), Follows(t, base + Len(p))
  PROVE  /\ p \o t \in Seq(S)
         /\ Len(p \o t) = Len(p) + Len(t)
         /\ Follows(p \o t, base)
<1>1. /\ p \o t \in Seq(S)
      /\ Len(p \o t) = Len(p) + Len(t)
      /\ \A i \in 1 .. Len(p) + Len(t) :
           (p \o t)[i] = IF i <= Len(p) THEN p[i] ELSE t[i - Len(p)]
  BY ConcatProperties
<1>2. Len(p) \in Nat /\ Len(t) \in Nat
  BY LenProperties
<1>3. ASSUME NEW i \in 1 .. Len(p) + Len(t)
      PROVE  (p \o t)[i] = base + i
  <2>1. CASE i <= Len(p)
    BY <1>1, <1>2, <2>1 DEF Follows
  <2>2. CASE i > Len(p)
    <3>1. i - Len(p) \in 1 .. Len(t)
      BY <1>2, <2>2
    <3>2. t[i - Len(p)] = base + Len(p) + (i - Len(p))
      BY <3>1 DEF Follows
    <3>3. base + Len(p) + (i - Len(p)) = base + i
      BY <1>2
    <3> QED
      BY <1>1, <1>2, <2>2, <3>2, <3>3
  <2> QED
    BY <1>2, <2>1, <2>2
<1> QED
  BY <1>1, <1>3 DEF Follows

\* The first n of a piece follow its base.
LEMMA FollowsPrefix ==
  ASSUME NEW S, NEW s \in Seq(S), NEW n \in 0 .. Len(s), NEW base \in Int,
         Follows(s, base)
  PROVE  /\ SubSeq(s, 1, n) \in Seq(S)
         /\ Len(SubSeq(s, 1, n)) = n
         /\ Follows(SubSeq(s, 1, n), base)
<1>1. Len(s) \in Nat
  BY LenProperties
<1> QED
  BY <1>1, Prefix DEF Follows

\* What is left of a piece follows the part that was taken.
LEMMA FollowsTail ==
  ASSUME NEW S, NEW s \in Seq(S), NEW n \in 0 .. Len(s), NEW base \in Int,
         Follows(s, base)
  PROVE  /\ SubSeq(s, n + 1, Len(s)) \in Seq(S)
         /\ Len(SubSeq(s, n + 1, Len(s))) = Len(s) - n
         /\ Follows(SubSeq(s, n + 1, Len(s)), base + n)
<1>1. Len(s) \in Nat /\ n \in Nat /\ n <= Len(s)
  BY LenProperties
<1> QED
  BY <1>1, Slice DEF Follows

\* Behind the a-th element there is everything when a is 0, and nothing when
\* a is the length.
LEMMA Rest ==
  ASSUME NEW S, NEW s \in Seq(S), NEW a \in 0 .. Len(s)
  PROVE  /\ SubSeq(s, a + 1, Len(s)) \in Seq(S)
         /\ Len(SubSeq(s, a + 1, Len(s))) = Len(s) - a
         /\ a = 0 => SubSeq(s, a + 1, Len(s)) = s
         /\ a = Len(s) => SubSeq(s, a + 1, Len(s)) = <<>>
<1>1. Len(s) \in Nat /\ a \in Nat /\ a <= Len(s)
  BY LenProperties
<1>2. /\ SubSeq(s, a + 1, Len(s)) \in Seq(S)
      /\ Len(SubSeq(s, a + 1, Len(s))) = Len(s) - a
  BY <1>1, Slice
<1>3. ASSUME a = 0 PROVE SubSeq(s, a + 1, Len(s)) = s
  <2>1. SubSeq(s, 1, Len(s)) = s
    BY SubSeqFull
  <2> QED
    BY <1>3, <2>1
<1>4. ASSUME a = Len(s) PROVE SubSeq(s, a + 1, Len(s)) = <<>>
  <2>1. Len(SubSeq(s, a + 1, Len(s))) = 0
    BY <1>1, <1>2, <1>4
  <2> QED
    BY <1>2, <2>1, EmptySeq
<1> QED
  BY <1>2, <1>3, <1>4

\* A slice of n elements and what is left behind it, taken from a slice or
\* from the sequence itself.
LEMMA SliceOfSlice ==
  ASSUME NEW S, NEW s \in Seq(S), NEW a \in Nat, NEW n \in Nat, NEW b \in Nat,
         a + n <= b, b <= Len(s)
  PROVE  /\ SubSeq(SubSeq(s, a + 1, b), 1, n) = SubSeq(s, a + 1, a + n)
         /\ SubSeq(SubSeq(s, a + 1, b), n + 1, b - a) = SubSeq(s, a + n + 1, b)
<1>1. PICK k, t : k = a + n /\ t = SubSeq(s, a + 1, b)
  OBVIOUS
<1>2. Len(s) \in Nat /\ k \in Nat /\ a <= k /\ k <= b /\ k <= Len(s) /\ a <= b
  BY <1>1, LenProperties
<1>3. /\ t \in Seq(S) /\ Len(t) = b - a
      /\ \A i \in 1 .. b - a : t[i] = s[a + i]
  BY <1>1, <1>2, Slice
<1>4. /\ SubSeq(s, a + 1, k) \in Seq(S) /\ Len(SubSeq(s, a + 1, k)) = k - a
      /\ \A i \in 1 .. k - a : SubSeq(s, a + 1, k)[i] = s[a + i]
  BY <1>2, Slice
<1>5. /\ SubSeq(s, k + 1, b) \in Seq(S) /\ Len(SubSeq(s, k + 1, b)) = b - k
      /\ \A i \in 1 .. b - k : SubSeq(s, k + 1, b)[i] = s[k + i]
  BY <1>2, Slice
<1>6. n \in 0 .. Len(t) /\ k - a = n /\ b - k = Len(t) - n /\ Len(t) \in Nat
  BY <1>1, <1>2, <1>3
<1>7. /\ SubSeq(t, 1, n) \in Seq(S) /\ Len(SubSeq(t, 1, n)) = n
      /\ \A i \in 1 .. n : SubSeq(t, 1, n)[i] = t[i]
  BY <1>3, <1>6, Prefix
<1>8. /\ SubSeq(t, n + 1, Len(t)) \in Seq(S)
      /\ Len(SubSeq(t, n + 1, Len(t))) = Len(t) - n
      /\ \A i \in 1 .. Len(t) - n : SubSeq(t, n + 1, Len(t))[i] = t[n + i]
  BY <1>3, <1>6, Slice
<1>9. SubSeq(t, 1, n) = SubSeq(s, a + 1, k)
  <2>1. ASSUME NEW i \in 1 .. n
        PROVE  SubSeq(t, 1, n)[i] = SubSeq(s, a + 1, k)[i]
    <3>1. i \in 1 .. b - a /\ i \in 1 .. k - a
      BY <1>2, <1>3, <1>6
    <3> QED
      BY <1>3, <1>4, <1>7, <3>1
  <2>2. PICK u, v : u = SubSeq(t, 1, n) /\ v = SubSeq(s, a + 1, k)
    OBVIOUS
  <2>3. /\ u \in Seq(S) /\ v \in Seq(S) /\ Len(u) = Len(v)
        /\ \A i \in 1 .. Len(u) : u[i] = v[i]
    BY <1>4, <1>6, <1>7, <2>1, <2>2
  <2> QED
    BY <2>2, <2>3, SeqEqual
<1>10. SubSeq(t, n + 1, Len(t)) = SubSeq(s, k + 1, b)
  <2>1. ASSUME NEW i \in 1 .. Len(t) - n
        PROVE  SubSeq(t, n + 1, Len(t))[i] = SubSeq(s, k + 1, b)[i]
    <3>1. /\ i \in 1 .. b - k /\ n + i \in 1 .. b - a
          /\ a + (n + i) = k + i
      BY <1>1, <1>2, <1>3, <1>6
    <3>2. SubSeq(t, n + 1, Len(t))[i] = s[a + (n + i)]
      BY <1>3, <1>8, <3>1
    <3> QED
      BY <1>5, <3>1, <3>2
  <2>2. PICK u, v : u = SubSeq(t, n + 1, Len(t)) /\ v = SubSeq(s, k + 1, b)
    OBVIOUS
  <2>3. /\ u \in Seq(S) /\ v \in Seq(S) /\ Len(u) = Len(v)
        /\ \A i \in 1 .. Len(u) : u[i] = v[i]
    BY <1>5, <1>6, <1>8, <2>1, <2>2
  <2> QED
    BY <2>2, <2>3, SeqEqual
<1> QED
  BY <1>1, <1>3, <1>9, <1>10

\* A piece is known by its base and its length.
LEMMA FollowsUnique ==
  ASSUME NEW S, NEW s \in Seq(S), NEW t \in Seq(S), NEW base,
         Follows(s, base), Follows(t, base), Len(s) = Len(t)
  PROVE  s = t
BY SeqEqual, LenProperties DEF Follows

------------------------------------------------------------------------------
(* Streams in which R tells what may come behind what, as the reply lines  *)
(* of a control connection.                                                *)

Linked(w, R) == \A i \in 1 .. Len(w) - 1 : <<w[i], w[i + 1]>> \in R

\* A piece of such a stream is one.
LEMMA LinkedPart ==
  ASSUME NEW S, NEW w \in Seq(S), NEW R, Linked(w, R),
         NEW a \in Nat, NEW b \in Nat, a <= b, b <= Len(w)
  PROVE  Linked(SubSeq(w, a + 1, b), R)
<1>1. PICK v, n : v = SubSeq(w, a + 1, b) /\ n = b - a
  OBVIOUS
<1>2. v \in Seq(S) /\ Len(v) = n /\ \A i \in 1 .. n : v[i] = w[a + i]
  BY <1>1, Slice
<1>3. n \in Nat /\ Len(w) \in Nat
  BY <1>1, LenProperties
<1>4. ASSUME NEW i \in 1 .. n - 1 PROVE <<v[i], v[i + 1]>> \in R
  <2>1. i \in 1 .. n /\ i + 1 \in 1 .. n /\ a + (i + 1) = (a + i) + 1
    BY <1>3
  <2>2. a + i \in 1 .. Len(w) - 1
    BY <1>1, <1>3
  <2>3. v[i] = w[a + i] /\ v[i + 1] = w[(a + i) + 1]
    BY <1>2, <2>1
  <2> QED
    BY <2>2, <2>3 DEF Linked
<1> QED
  BY <1>1, <1>2, <1>4 DEF Linked

\* What one sequence holds when it is two, one behind the other.
LEMMA JoinParts ==
  ASSUME NEW S, NEW u \in Seq(S), NEW v \in Seq(S)
  PROVE  /\ u \o v \in Seq(S) /\ Len(u \o v) = Len(u) + Len(v)
         /\ Len(u) \in Nat /\ Len(v) \in Nat
         /\ \A i \in 1 .. Len(u) : (u \o v)[i] = u[i]
         /\ \A i \in 1 .. Len(v) : (u \o v)[Len(u) + i] = v[i]
         /\ u # <<>> => (u \o v)[1] = u[1]
         /\ u = <<>> => u \o v = v
         /\ v # <<>> => (u \o v)[Len(u \o v)] = v[Len(v)]
         /\ v = <<>> => u \o v = u
         /\ u \o v = <<>> <=> u = <<>> /\ v = <<>>
<1>1. PICK w, n, m : w = u \o v /\ n = Len(u) /\ m = Len(v)
  OBVIOUS
<1>2. n \in Nat /\ m \in Nat
  BY <1>1, LenProperties
<1>3. /\ w \in Seq(S) /\ Len(w) = n + m
      /\ \A i \in 1 .. n + m : w[i] = IF i <= n THEN u[i] ELSE v[i - n]
  BY <1>1, ConcatProperties
<1>4. \A i \in 1 .. n : w[i] = u[i]
  BY <1>2, <1>3
<1>5. \A i \in 1 .. m : w[n + i] = v[i]
  <2> TAKE i \in 1 .. m
  <2>1. PICK p : p = n + i
    OBVIOUS
  <2>2. p \in 1 .. n + m /\ ~(p <= n) /\ p - n = i
    BY <1>2, <2>1
  <2>3. w[p] = v[i]
    BY <1>3, <2>2
  <2> QED
    BY <2>1, <2>3
<1>6. /\ u = <<>> <=> n = 0
      /\ v = <<>> <=> m = 0
      /\ w = <<>> <=> n + m = 0
  BY <1>1, <1>3, EmptySeq
<1>7. u # <<>> => w[1] = u[1]
  BY <1>2, <1>4, <1>6
<1>8. v # <<>> => w[n + m] = v[m]
  BY <1>2, <1>5, <1>6
<1>9. w = <<>> <=> u = <<>> /\ v = <<>>
  BY <1>2, <1>6
<1>10. u = <<>> => w = v
  BY <1>1, ConcatEmptySeq
<1>11. v = <<>> => w = u
  BY <1>1, ConcatEmptySeq
<1> QED
  BY <1>1, <1>2, <1>3, <1>4, <1>5, <1>7, <1>8, <1>9, <1>10, <1>11

\* Two such streams make one when the second may come behind the first.
LEMMA LinkedJoin ==
  ASSUME NEW S, NEW u \in Seq(S), NEW v \in Seq(S), NEW R,
         Linked(u, R), Linked(v, R),
         u # <<>> /\ v # <<>> => <<u[Len(u)], v[1]>> \in R
  PROVE  Linked(u \o v, R)
<1>1. PICK w, n, m : w = u \o v /\ n = Len(u) /\ m = Len(v)
  OBVIOUS
<1>2. /\ n \in Nat /\ m \in Nat /\ Len(w) = n + m
      /\ \A i \in 1 .. n : w[i] = u[i]
      /\ \A i \in 1 .. m : w[n + i] = v[i]
  BY <1>1, JoinParts
<1>3. ASSUME NEW i \in 1 .. n + m - 1 PROVE <<w[i], w[i + 1]>> \in R
  <2>1. CASE i < n
    <3>1. i \in 1 .. n - 1 /\ i \in 1 .. n /\ i + 1 \in 1 .. n
      BY <1>2, <2>1
    <3>2. w[i] = u[i] /\ w[i + 1] = u[i + 1]
      BY <1>2, <3>1
    <3> QED
      BY <1>1, <3>1, <3>2 DEF Linked
  <2>2. CASE i = n
    <3>1. n \in 1 .. n /\ 1 \in 1 .. m /\ n # 0 /\ m # 0
      BY <1>2, <2>2
    <3>2. w[i] = u[n] /\ w[i + 1] = v[1]
      BY <1>2, <2>2, <3>1
    <3>3. u # <<>> /\ v # <<>>
      BY <1>1, <3>1, EmptySeq
    <3> QED
      BY <1>1, <3>2, <3>3
  <2>3. CASE i > n
    <3>1. PICK q : q = i - n
      OBVIOUS
    <3>2. /\ q \in 1 .. m - 1 /\ q \in 1 .. m /\ q + 1 \in 1 .. m
          /\ i = n + q /\ i + 1 = n + (q + 1)
      BY <1>2, <2>3, <3>1
    <3>3. w[i] = v[q] /\ w[i + 1] = v[q + 1]
      BY <1>2, <3>2
    <3> QED
      BY <1>1, <3>2, <3>3 DEF Linked
  <2> QED
    BY <1>2, <2>1, <2>2, <2>3
<1> QED
  BY <1>1, <1>2, <1>3 DEF Linked

\* A sequence cut in two and joined again is the same.
LEMMA CutAndJoin ==
  ASSUME NEW S, NEW w \in Seq(S), NEW k \in 0 .. Len(w)
  PROVE  SubSeq(w, 1, k) \o SubSeq(w, k + 1, Len(w)) = w
<1>1. PICK u, v, n : u = SubSeq(w, 1, k) /\ v = SubSeq(w, k + 1, Len(w)) /\ n = Len(w)
  OBVIOUS
<1>2. n \in Nat /\ k \in 0 .. n /\ k \in Nat /\ k <= n
  BY <1>1, LenProperties
<1>3. u \in Seq(S) /\ Len(u) = k /\ \A i \in 1 .. k : u[i] = w[i]
  BY <1>1, <1>2, Prefix
<1>4. v \in Seq(S) /\ Len(v) = n - k /\ \A i \in 1 .. n - k : v[i] = w[k + i]
  BY <1>1, <1>2, Slice
<1>5. PICK x : x = u \o v
  OBVIOUS
<1>6. /\ x \in Seq(S) /\ Len(x) = n
      /\ \A i \in 1 .. n : x[i] = IF i <= k THEN u[i] ELSE v[i - k]
  <2>1. k + (n - k) = n
    BY <1>2
  <2>2. /\ x \in Seq(S) /\ Len(x) = Len(u) + Len(v)
        /\ \A i \in 1 .. Len(u) + Len(v) :
             x[i] = IF i <= Len(u) THEN u[i] ELSE v[i - Len(u)]
    BY <1>3, <1>4, <1>5, ConcatProperties
  <2>3. Len(u) + Len(v) = n /\ Len(u) = k
    BY <1>3, <1>4, <2>1
  <2> QED
    BY <2>2, <2>3, Zenon
<1>7. ASSUME NEW i \in 1 .. n PROVE x[i] = w[i]
  <2>1. CASE i <= k
    BY <1>2, <1>3, <1>6, <2>1
  <2>2. CASE i > k
    <3>1. i - k \in 1 .. n - k /\ k + (i - k) = i
      BY <1>2, <2>2
    <3>2. x[i] = v[i - k]
      BY <1>2, <1>6, <2>2
    <3> QED
      BY <1>4, <3>1, <3>2
  <2> QED
    BY <1>2, <2>1, <2>2
<1> QED
  BY <1>1, <1>5, <1>6, <1>7, SeqEqual

\* What is taken from the first of two sequences is taken from both.
LEMMA CutFirst ==
  ASSUME NEW S, NEW u \in Seq(S), NEW v \in Seq(S), NEW k \in 0 .. Len(u)
  PROVE  SubSeq(u, k + 1, Len(u)) \o v = SubSeq(u \o v, k + 1, Len(u \o v))
<1>1. PICK a, b, t, n : /\ a = SubSeq(u, 1, k) /\ b = SubSeq(u, k + 1, Len(u))
                        /\ t = b \o v /\ n = Len(t)
  OBVIOUS
<1>2. Len(u) \in Nat /\ k \in Nat
  BY LenProperties
<1>3. a \in Seq(S) /\ Len(a) = k /\ b \in Seq(S)
  BY <1>1, <1>2, Prefix, Rest
<1>4. t \in Seq(S) /\ n \in Nat
  BY <1>1, <1>3, JoinParts, LenProperties
<1>5. u = a \o b
  BY <1>1, CutAndJoin
<1>6. u \o v = a \o t
  <2>1. (a \o b) \o v = a \o (b \o v)
    BY <1>3, ConcatAssociative
  <2> QED
    BY <1>1, <1>5, <2>1, Zenon
<1>7. PICK w : w = u \o v
  OBVIOUS
<1>8. /\ w \in Seq(S) /\ Len(w) = k + n
      /\ \A i \in 1 .. n : w[k + i] = t[i]
  <2>1. w = a \o t
    BY <1>6, <1>7, Zenon
  <2>2. /\ a \o t \in Seq(S) /\ Len(a \o t) = Len(a) + Len(t)
        /\ \A i \in 1 .. Len(t) : (a \o t)[Len(a) + i] = t[i]
    <3>1. a \in Seq(S) /\ t \in Seq(S)
      BY <1>3, <1>4
    <3> QED
      BY <3>1, JoinParts
  <2>3. Len(a) = k /\ Len(t) = n
    BY <1>1, <1>3
  <2> QED
    BY <2>1, <2>2, <2>3, Zenon
<1>9. PICK s, m : s = SubSeq(w, k + 1, m) /\ m = k + n
  OBVIOUS
<1>10. m \in Nat /\ k <= m /\ m <= Len(w) /\ m - k = n
  BY <1>2, <1>4, <1>8, <1>9
<1>11. s \in Seq(S) /\ Len(s) = n /\ \A i \in 1 .. n : s[i] = w[k + i]
  <2>1. w \in Seq(S) /\ k \in Nat
    BY <1>2, <1>8
  <2>2. /\ SubSeq(w, k + 1, m) \in Seq(S) /\ Len(SubSeq(w, k + 1, m)) = m - k
        /\ \A i \in 1 .. m - k : SubSeq(w, k + 1, m)[i] = w[k + i]
    BY <1>10, <2>1, Slice
  <2> QED
    BY <1>9, <1>10, <2>2
<1>12. s = t
  BY <1>1, <1>4, <1>8, <1>11, SeqEqual
<1> QED
  BY <1>1, <1>7, <1>8, <1>9, <1>12

\* What FlattenSeq makes of some sequences is what any function says that
\* joins them one by one.
LEMMA FlattenIs ==
  ASSUME NEW ss, Len(ss) # 0, NEW g,
         g = [i \in 1 .. Len(ss) |-> IF i = 1 THEN ss[i] ELSE g[i - 1] \o ss[i]]
  PROVE  \E f : /\ f = [i \in 1 .. Len(ss) |-> IF i = 1 THEN ss[i] ELSE f[i - 1] \o ss[i]]
                /\ FlattenSeq(ss) = f[Len(ss)]
<1> DEFINE f == CHOOSE h : h = [i \in 1 .. Len(ss) |-> IF i = 1 THEN ss[i] ELSE h[i - 1] \o ss[i]]
<1>1. f = [i \in 1 .. Len(ss) |-> IF i = 1 THEN ss[i] ELSE f[i - 1] \o ss[i]]
  OBVIOUS
<1>2. FlattenSeq(ss) = f[Len(ss)]
  BY DEF FlattenSeq
<1> QED
  BY <1>1, <1>2

\* One sequence.
LEMMA FlattenOne ==
  ASSUME NEW ss, Len(ss) = 1
  PROVE  FlattenSeq(ss) = ss[1]
<1> DEFINE g == [i \in 1 .. 1 |-> ss[1]]
<1>1. g = [i \in 1 .. Len(ss) |-> IF i = 1 THEN ss[i] ELSE g[i - 1] \o ss[i]]
  OBVIOUS
<1>2. PICK f : /\ f = [i \in 1 .. Len(ss) |-> IF i = 1 THEN ss[i] ELSE f[i - 1] \o ss[i]]
               /\ FlattenSeq(ss) = f[Len(ss)]
  <2>1. Len(ss) # 0
    OBVIOUS
  <2> HIDE DEF g
  <2> QED
    BY <1>1, <2>1, FlattenIs, Zenon
<1>3. f[1] = ss[1]
  BY <1>2
<1> QED
  BY <1>2, <1>3

\* Three sequences.
LEMMA FlattenThree ==
  ASSUME NEW ss, Len(ss) = 3
  PROVE  FlattenSeq(ss) = (ss[1] \o ss[2]) \o ss[3]
<1> DEFINE g == [i \in 1 .. 3 |-> IF i = 1 THEN ss[1]
                                  ELSE IF i = 2 THEN ss[1] \o ss[2]
                                  ELSE (ss[1] \o ss[2]) \o ss[3]]
<1>1. g = [i \in 1 .. Len(ss) |-> IF i = 1 THEN ss[i] ELSE g[i - 1] \o ss[i]]
  <2>1. g[1] = ss[1] /\ g[2] = ss[1] \o ss[2] /\ g[3] = (ss[1] \o ss[2]) \o ss[3]
    OBVIOUS
  <2>2. ASSUME NEW i \in 1 .. 3
        PROVE  g[i] = IF i = 1 THEN ss[i] ELSE g[i - 1] \o ss[i]
    <3>1. i = 1 \/ (i = 2 /\ i - 1 = 1) \/ (i = 3 /\ i - 1 = 2)
      OBVIOUS
    <3> HIDE DEF g
    <3> QED
      BY <2>1, <3>1
  <2> QED
    BY <2>2
<1>2. PICK f : /\ f = [i \in 1 .. Len(ss) |-> IF i = 1 THEN ss[i] ELSE f[i - 1] \o ss[i]]
               /\ FlattenSeq(ss) = f[Len(ss)]
  <2>1. Len(ss) # 0
    OBVIOUS
  <2> HIDE DEF g
  <2> QED
    BY <1>1, <2>1, FlattenIs, Zenon
<1>3. \A i \in 1 .. 3 : f[i] = IF i = 1 THEN ss[i] ELSE f[i - 1] \o ss[i]
  BY <1>2
<1>4. f[1] = ss[1]
  BY <1>3
<1>5. f[2] = f[1] \o ss[2]
  <2>1. 2 \in 1 .. 3 /\ 2 # 1 /\ 2 - 1 = 1
    OBVIOUS
  <2> QED
    BY <1>3, <2>1
<1>6. f[3] = f[2] \o ss[3]
  <2>1. 3 \in 1 .. 3 /\ 3 # 1 /\ 3 - 1 = 2
    OBVIOUS
  <2> QED
    BY <1>3, <2>1
<1> QED
  BY <1>2, <1>4, <1>5, <1>6

\* Two sequences.
LEMMA FlattenTwo ==
  ASSUME NEW ss, Len(ss) = 2
  PROVE  FlattenSeq(ss) = ss[1] \o ss[2]
<1> DEFINE g == [i \in 1 .. 2 |-> IF i = 1 THEN ss[1] ELSE ss[1] \o ss[2]]
<1>1. g = [i \in 1 .. Len(ss) |-> IF i = 1 THEN ss[i] ELSE g[i - 1] \o ss[i]]
  <2>1. g[1] = ss[1] /\ g[2] = ss[1] \o ss[2]
    OBVIOUS
  <2>2. ASSUME NEW i \in 1 .. 2
        PROVE  g[i] = IF i = 1 THEN ss[i] ELSE g[i - 1] \o ss[i]
    <3>1. i = 1 \/ (i = 2 /\ i - 1 = 1)
      OBVIOUS
    <3> HIDE DEF g
    <3> QED
      BY <2>1, <3>1
  <2> QED
    BY <2>2
<1>2. PICK f : /\ f = [i \in 1 .. Len(ss) |-> IF i = 1 THEN ss[i] ELSE f[i - 1] \o ss[i]]
               /\ FlattenSeq(ss) = f[Len(ss)]
  <2>1. Len(ss) # 0
    OBVIOUS
  <2> HIDE DEF g
  <2> QED
    BY <1>1, <2>1, FlattenIs, Zenon
<1>3. \A i \in 1 .. 2 : f[i] = IF i = 1 THEN ss[i] ELSE f[i - 1] \o ss[i]
  BY <1>2
<1>4. f[1] = ss[1]
  BY <1>3
<1>5. f[2] = f[1] \o ss[2]
  <2>1. 2 \in 1 .. 2 /\ 2 # 1 /\ 2 - 1 = 1
    OBVIOUS
  <2> QED
    BY <1>3, <2>1
<1> QED
  BY <1>2, <1>4, <1>5

\* A set that holds a, and with each number the next one, holds all up to b.
LEMMA Climb ==
  ASSUME NEW a \in Nat, NEW b \in Nat, NEW T, a \in T,
         \A k \in a .. b - 1 : k \in T => k + 1 \in T
  PROVE  \A k \in a .. b : k \in T
<1> DEFINE M == {k \in a .. b : k \notin T}
<1>1. M \in SUBSET Nat
  OBVIOUS
<1>2. SUFFICES ASSUME M # {} PROVE FALSE
  OBVIOUS
<1>3. PICK x \in M : \A y \in M : x <= y
  <2> HIDE DEF M
  <2> QED
    BY <1>1, <1>2, Least
<1>4. x \in a .. b /\ x # a /\ x \notin T
  OBVIOUS
<1>5. PICK k : k = x - 1
  OBVIOUS
<1>6. k \in a .. b - 1 /\ k \in a .. b /\ k + 1 = x /\ ~(x <= k)
  BY <1>4, <1>5
<1>7. k \in T
  BY <1>3, <1>6
<1> QED
  BY <1>4, <1>6, <1>7

\* f is what joining the first k sequences of ss one by one gives.
Joins(f, ss, k, S) ==
  /\ f \in [1 .. k -> Seq(S)] /\ f[1] = ss[1]
  /\ \A i \in 2 .. k : f[i] = f[i - 1] \o ss[i]

\* What FlattenSeq makes of any number of sequences: each is joined to what
\* the ones before it make.
LEMMA Folded ==
  ASSUME NEW S, NEW m \in Nat \ {0}, NEW ss \in [1 .. m -> Seq(S)]
  PROVE  \E f : Joins(f, ss, m, S) /\ FlattenSeq(ss) = f[m]
<1> DEFINE T == {k \in 1 .. m : \E f : Joins(f, ss, k, S)}
<1>1. \A i \in 1 .. m : ss[i] \in Seq(S)
  OBVIOUS
<1>2. 1 \in T
  <2>1. 1 \in 1 .. m
    OBVIOUS
  <2>2. Joins([i \in 1 .. 1 |-> ss[1]], ss, 1, S)
    BY <1>1, <2>1 DEF Joins
  <2> QED
    BY <2>1, <2>2
<1>3. ASSUME NEW k \in 1 .. m - 1, k \in T PROVE k + 1 \in T
  <2>1. PICK f : Joins(f, ss, k, S)
    BY <1>3
  <2> DEFINE g == [i \in 1 .. k + 1 |-> IF i = k + 1 THEN f[k] \o ss[k + 1] ELSE f[i]]
  <2>2. k \in 1 .. k /\ k + 1 \in 1 .. m /\ k + 1 \in 1 .. k + 1
    OBVIOUS
  <2>3. f[k] \o ss[k + 1] \in Seq(S)
    BY <1>1, <2>1, <2>2, ConcatProperties DEF Joins
  <2>4. \A i \in 1 .. k : i \in 1 .. k + 1 /\ i # k + 1 /\ f[i] \in Seq(S)
    BY <2>1 DEF Joins
  <2>5. g[k + 1] = f[k] \o ss[k + 1] /\ \A i \in 1 .. k : g[i] = f[i]
    BY <2>2, <2>4
  <2>6. g \in [1 .. k + 1 -> Seq(S)]
    <3>1. \A i \in 1 .. k + 1 : i = k + 1 \/ i \in 1 .. k
      OBVIOUS
    <3> QED
      BY <2>3, <2>4, <3>1
  <2> HIDE DEF g
  <2>7. g[1] = ss[1]
    BY <2>1, <2>5 DEF Joins
  <2>8. ASSUME NEW i \in 2 .. k + 1 PROVE g[i] = g[i - 1] \o ss[i]
    <3>1. CASE i = k + 1
      <4>1. i - 1 = k
        BY <3>1
      <4> QED
        BY <2>2, <2>5, <3>1, <4>1
    <3>2. CASE i # k + 1
      <4>1. i \in 2 .. k /\ i \in 1 .. k /\ i - 1 \in 1 .. k
        BY <3>2
      <4> QED
        BY <2>1, <2>5, <4>1 DEF Joins
    <3> QED
      BY <3>1, <3>2
  <2>9. Joins(g, ss, k + 1, S)
    BY <2>6, <2>7, <2>8 DEF Joins
  <2> QED
    BY <2>2, <2>9
<1>4. m \in T
  <2> HIDE DEF T
  <2>1. \A k \in 1 .. m : k \in T
    BY <1>2, <1>3, Climb
  <2> QED
    BY <2>1
<1>5. PICK f : Joins(f, ss, m, S)
  BY <1>4
<1>6. Len(ss) = m
  OBVIOUS
<1>7. f = [i \in 1 .. Len(ss) |-> IF i = 1 THEN ss[i] ELSE f[i - 1] \o ss[i]]
  <2>1. ASSUME NEW i \in 1 .. m PROVE f[i] = IF i = 1 THEN ss[i] ELSE f[i - 1] \o ss[i]
    <3>1. i = 1 \/ (i # 1 /\ i \in 2 .. m)
      OBVIOUS
    <3> QED
      BY <1>5, <3>1 DEF Joins
  <2> QED
    BY <1>5, <1>6, <2>1 DEF Joins
<1>8. PICK h : /\ h = [i \in 1 .. Len(ss) |-> IF i = 1 THEN ss[i] ELSE h[i - 1] \o ss[i]]
               /\ FlattenSeq(ss) = h[Len(ss)]
  <2>1. Len(ss) # 0
    BY <1>6
  <2> QED
    BY <1>7, <2>1, FlattenIs, Zenon
<1>9. \A i \in 1 .. m : h[i] = IF i = 1 THEN ss[i] ELSE h[i - 1] \o ss[i]
  BY <1>6, <1>8
<1> DEFINE E == {i \in 1 .. m : h[i] = f[i]}
<1>10. 1 \in E
  BY <1>5, <1>9 DEF Joins
<1>11. ASSUME NEW k \in 1 .. m - 1, k \in E PROVE k + 1 \in E
  <2>1. k + 1 \in 1 .. m /\ k + 1 \in 2 .. m /\ k + 1 # 1 /\ (k + 1) - 1 = k
    OBVIOUS
  <2>2. h[k] = f[k]
    BY <1>11
  <2>3. h[k + 1] = h[k] \o ss[k + 1]
    BY <1>9, <2>1
  <2>4. f[k + 1] = f[k] \o ss[k + 1]
    BY <1>5, <2>1 DEF Joins
  <2> QED
    BY <2>1, <2>2, <2>3, <2>4
<1>12. h[m] = f[m]
  <2>1. m \in E
    <3> HIDE DEF E
    <3>1. \A k \in 1 .. m : k \in E
      BY <1>10, <1>11, Climb
    <3> QED
      BY <3>1
  <2> QED
    BY <2>1
<1> QED
  BY <1>5, <1>6, <1>8, <1>12
=============================================================================

------------------------------ MODULE ForkProofs ------------------------------
(***************************************************************************)
(* Proofs about socketpp::Fork, for any number of children, wherever the   *)
(* two handlers cut in.                                                    *)
(*                                                                         *)
(* An object is linked to older ones only, and the number of an object is  *)
(* its age, so that next decreases along the list (Order): it has no       *)
(* cycle, whatever the handlers do to it.  What they can spoil is who is   *)
(* on it.  The invariant says, for each place the main program can be at,  *)
(* which pointers it holds, that the children not yet reaped are behind    *)
(* them, and, as long as no reaper came upon the exit, that all it will    *)
(* use is there.                                                           *)
(***************************************************************************)
EXTENDS Fork, TLAPS

------------------------------------------------------------------------------
(* What is reached along links that lead to older objects.                 *)

\* nx leads from an object to an older one, or nowhere.
Older == {nx \in [Obj -> Ptr] : \A o \in Obj : nx[o] < o}

\* Reach, of any links nx.
ReachIn(nx, p) ==
  {o \in Obj : \A S \in SUBSET Obj :
     p \in S \cup {0} /\ (\A q \in S : nx[q] \in S \cup {0}) => o \in S}

\* Reach(p) of the model is ReachIn of its next.
LEMMA ReachIsIn == ASSUME NEW p PROVE Reach(p) = ReachIn(next, p)
BY DEF Reach, Closed, ReachIn

\* Pointers are null or objects, which are positive; links are typed.
LEMMA Pointer ==
  /\ Ptr = Obj \cup {0} /\ 0 \notin Obj /\ Obj \subseteq Int /\ Ptr \subseteq Int
  /\ \A o \in Obj : o > 0
BY NAssumption DEF Ptr, Obj

\* A link leads to null or to an older object, never to the object itself.
LEMMA Link ==
  ASSUME NEW nx \in Older, NEW o \in Obj
  PROVE  nx[o] \in Ptr /\ nx[o] < o /\ nx[o] # o
BY Pointer DEF Older

\* Objects are reached, of a pointer that is not null its own first.
LEMMA ReachFirst ==
  ASSUME NEW nx \in Older, NEW p \in Ptr
  PROVE  ReachIn(nx, p) \subseteq Obj /\ (p # 0 => p \in ReachIn(nx, p))
BY Pointer DEF ReachIn

\* They are the least set with p's object and, with each, the next one.
LEMMA ReachLeast ==
  ASSUME NEW nx \in Older, NEW p \in Ptr, NEW S \in SUBSET Obj,
         p \in S \cup {0}, \A q \in S : nx[q] \in S \cup {0}
  PROVE  ReachIn(nx, p) \subseteq S
BY DEF ReachIn

\* With an object what comes next to it is reached.
LEMMA ReachNext ==
  ASSUME NEW nx \in Older, NEW p \in Ptr, NEW o \in ReachIn(nx, p), nx[o] # 0
  PROVE  nx[o] \in ReachIn(nx, p)
<1>1. o \in Obj BY ReachFirst
<1>2. nx[o] \in Obj BY <1>1, Link, Pointer
<1> QED BY <1>1, <1>2 DEF ReachIn

\* From null nothing is reached.
LEMMA ReachNone == ASSUME NEW nx \in Older PROVE ReachIn(nx, 0) = {}
<1> DEFINE S == {}
<1>1. S \in SUBSET Obj /\ 0 \in S \cup {0} /\ 0 \in Ptr BY Pointer
<1>2. \A q \in S : nx[q] \in S \cup {0} OBVIOUS
<1> HIDE DEF S
<1>3. ReachIn(nx, 0) \subseteq S BY <1>1, <1>2, ReachLeast
<1> QED BY <1>3 DEF S

\* Whatever is reached is no younger.
LEMMA ReachOlder ==
  ASSUME NEW nx \in Older, NEW p \in Ptr, NEW o \in ReachIn(nx, p)
  PROVE  o \in Obj /\ o <= p
<1> DEFINE S == {q \in Obj : q <= p}
<1>1. p \in S \cup {0} BY Pointer
<1>2. ASSUME NEW q \in S PROVE nx[q] \in S \cup {0}
  <2>1. PICK z : z = nx[q] OBVIOUS
  <2>2. z \in Ptr /\ z < q BY <2>1, Link
  <2>3. z = 0 \/ (z \in Obj /\ z <= p) BY <2>2, Pointer
  <2> QED BY <2>1, <2>3
<1>3. ReachIn(nx, p) \subseteq S BY <1>1, <1>2, ReachLeast
<1> QED BY <1>3

\* What an object on the way reaches is reached.
LEMMA ReachTrans ==
  ASSUME NEW nx \in Older, NEW p \in Ptr, NEW q \in ReachIn(nx, p)
  PROVE  ReachIn(nx, q) \subseteq ReachIn(nx, p)
<1>1. ReachIn(nx, p) \in SUBSET Obj /\ q \in Ptr BY ReachFirst, Pointer
<1>2. \A o \in ReachIn(nx, p) : nx[o] \in ReachIn(nx, p) \cup {0} BY ReachNext
<1> QED BY <1>1, <1>2, ReachLeast

\* Reached are the first object and what is reached from the next.
LEMMA ReachUnfold ==
  ASSUME NEW nx \in Older, NEW p \in Obj
  PROVE  /\ ReachIn(nx, p) = {p} \cup ReachIn(nx, nx[p])
         /\ p \notin ReachIn(nx, nx[p])
<1>1. nx[p] \in Ptr /\ nx[p] < p /\ p \in Ptr BY Link, Pointer
<1> DEFINE S == {p} \cup ReachIn(nx, nx[p])
<1>2. S \in SUBSET Obj /\ p \in S \cup {0} BY <1>1, ReachFirst
<1>3. ASSUME NEW q \in S PROVE nx[q] \in S \cup {0}
  <2>1. CASE q = p BY <1>1, <2>1, ReachFirst
  <2>2. CASE q \in ReachIn(nx, nx[p]) BY <1>1, <2>2, ReachNext
  <2> QED BY <2>1, <2>2
<1> HIDE DEF S
<1>4. ReachIn(nx, p) \subseteq S BY <1>1, <1>2, <1>3, ReachLeast
<1>5. p \in ReachIn(nx, p) BY <1>1, ReachFirst, Pointer
<1>6. ReachIn(nx, nx[p]) \subseteq ReachIn(nx, p)
  <2>1. CASE nx[p] = 0 BY <2>1, ReachNone
  <2>2. CASE nx[p] # 0
    <3>1. nx[p] \in ReachIn(nx, p) BY <1>1, <1>5, <2>2, ReachNext
    <3> QED BY <1>1, <3>1, ReachTrans
  <2> QED BY <2>1, <2>2
<1>7. p \notin ReachIn(nx, nx[p])
  <2>1. SUFFICES ASSUME p \in ReachIn(nx, nx[p]) PROVE FALSE OBVIOUS
  <2>2. PICK z : z = nx[p] OBVIOUS
  <2>3. z \in Ptr /\ z < p /\ p <= z BY <1>1, <2>1, <2>2, ReachOlder
  <2> QED BY <1>1, <2>3, Pointer
<1> QED BY <1>4, <1>5, <1>6, <1>7 DEF S

\* An object that is not the first has one before it, and only one.
LEMMA ReachBefore ==
  ASSUME NEW nx \in Older, NEW p \in Ptr, NEW o \in ReachIn(nx, p), o # p
  PROVE  \E q \in ReachIn(nx, p) : nx[q] = o
<1> SUFFICES ASSUME \A q \in ReachIn(nx, p) : nx[q] # o PROVE FALSE
  OBVIOUS
<1> DEFINE S == ReachIn(nx, p) \ {o}
<1>1. S \in SUBSET Obj /\ p \in S \cup {0} BY ReachFirst, Pointer
<1>2. \A q \in S : nx[q] \in S \cup {0} BY ReachNext
<1> HIDE DEF S
<1>3. ReachIn(nx, p) \subseteq S BY <1>1, <1>2, ReachLeast
<1> QED BY <1>3 DEF S

\* A chain does not branch: of two objects on it one is behind the other.
LEMMA ReachLinear ==
  ASSUME NEW nx \in Older, NEW p \in Ptr, NEW q \in ReachIn(nx, p)
  PROVE  \A x \in ReachIn(nx, p) : x \in ReachIn(nx, q) \/ q \in ReachIn(nx, x)
<1> DEFINE S == {x \in ReachIn(nx, p) : x \in ReachIn(nx, q) \/ q \in ReachIn(nx, x)}
<1>0. q \in Obj /\ q \in Ptr /\ ReachIn(nx, p) \subseteq Obj BY ReachFirst, Pointer
<1>1. S \in SUBSET Obj /\ p \in S \cup {0} BY <1>0, ReachFirst, Pointer
<1>2. ASSUME NEW x \in S PROVE nx[x] \in S \cup {0}
  <2> SUFFICES ASSUME nx[x] # 0 PROVE nx[x] \in S OBVIOUS
  <2>1. x \in Obj /\ nx[x] \in ReachIn(nx, p) BY <1>0, ReachNext
  <2>2. CASE x \in ReachIn(nx, q) BY <1>0, <2>1, <2>2, ReachNext
  <2>3. CASE x = q
    <3>1. x \in ReachIn(nx, q) BY <1>0, <2>3, ReachFirst, Pointer
    <3> QED BY <3>1, <2>2
  <2>4. CASE q \in ReachIn(nx, x) /\ x # q
    <3>1. q \in ReachIn(nx, nx[x]) BY <2>1, <2>4, ReachUnfold
    <3> QED BY <2>1, <3>1
  <2> QED BY <2>2, <2>3, <2>4
<1>3. ReachIn(nx, p) \subseteq S BY <1>1, <1>2, ReachLeast
<1> QED BY <1>3

\* On a chain at most one object leads to a given one.
LEMMA ReachOneBefore ==
  ASSUME NEW nx \in Older, NEW p \in Ptr, NEW o \in Obj,
         NEW q \in ReachIn(nx, p), NEW r \in ReachIn(nx, p), nx[q] = o, nx[r] = o
  PROVE  q = r
<1>1. ASSUME NEW x \in Obj, NEW y \in Obj, nx[x] = o, nx[y] = o,
             x \in ReachIn(nx, y)
      PROVE  x = y
  <2> SUFFICES ASSUME x # y PROVE FALSE OBVIOUS
  <2>1. x \in ReachIn(nx, o) BY <1>1, ReachUnfold
  <2>2. o \in Ptr BY Pointer
  <2>3. x <= o BY <2>1, <2>2, ReachOlder
  <2>4. o < x BY <1>1, Link
  <2> QED BY <2>3, <2>4, Pointer
<1>2. q \in Obj /\ r \in Obj BY ReachFirst
<1>3. q \in ReachIn(nx, r) \/ r \in ReachIn(nx, q) BY ReachLinear
<1> QED BY <1>1, <1>2, <1>3

\* Links that agree on what is reached reach the same.
LEMMA ReachSame ==
  ASSUME NEW nx \in Older, NEW nx2 \in Older, NEW p \in Ptr,
         \A o \in ReachIn(nx, p) : nx2[o] = nx[o]
  PROVE  ReachIn(nx2, p) = ReachIn(nx, p)
<1>1. ReachIn(nx2, p) \subseteq ReachIn(nx, p)
  <2>1. ReachIn(nx, p) \in SUBSET Obj /\ p \in ReachIn(nx, p) \cup {0} BY ReachFirst
  <2>2. \A o \in ReachIn(nx, p) : nx2[o] \in ReachIn(nx, p) \cup {0} BY ReachNext
  <2> QED BY <2>1, <2>2, ReachLeast
<1>2. ReachIn(nx, p) \subseteq ReachIn(nx2, p)
  <2>1. ReachIn(nx2, p) \in SUBSET Obj /\ p \in ReachIn(nx2, p) \cup {0} BY ReachFirst
  <2>2. \A o \in ReachIn(nx2, p) : nx[o] \in ReachIn(nx2, p) \cup {0}
    BY <1>1, ReachNext
  <2> QED BY <2>1, <2>2, ReachLeast
<1> QED BY <1>1, <1>2

\* Links between objects older than p do not matter: those of p and younger may change.
LEMMA ReachBelow ==
  ASSUME NEW nx \in Older, NEW nx2 \in Older, NEW p \in Ptr, NEW b \in Int, p < b,
         \A o \in Obj : o < b => nx2[o] = nx[o]
  PROVE  ReachIn(nx2, p) = ReachIn(nx, p)
<1>1. ASSUME NEW o \in ReachIn(nx, p) PROVE nx2[o] = nx[o]
  <2>1. o \in Obj /\ o <= p BY ReachOlder
  <2> QED BY <2>1, Pointer
<1> QED BY <1>1, ReachSame

\* nx2 may go round c on what nx reaches from r.
Round(nx, nx2, c, r) ==
  \A q \in ReachIn(nx, r) : nx2[q] = nx[q] \/ (nx[q] = c /\ nx2[q] = nx[c])

\* Then c is missed at most, ...
LEMMA RoundReaches ==
  ASSUME NEW nx \in Older, NEW nx2 \in Older, NEW c \in Obj, NEW r \in Ptr,
         Round(nx, nx2, c, r)
  PROVE  /\ ReachIn(nx2, r) \subseteq ReachIn(nx, r)
         /\ ReachIn(nx, r) \ {c} \subseteq ReachIn(nx2, r)
<1>1. ReachIn(nx2, r) \subseteq ReachIn(nx, r)
  <2>1. ReachIn(nx, r) \in SUBSET Obj /\ r \in ReachIn(nx, r) \cup {0} BY ReachFirst
  <2>2. ASSUME NEW o \in ReachIn(nx, r), nx2[o] # 0
        PROVE  nx2[o] \in ReachIn(nx, r)
    <3>1. nx[o] # 0 => nx[o] \in ReachIn(nx, r) BY ReachNext
    <3>2. CASE nx2[o] = nx[o] BY <2>2, <3>1, <3>2
    <3>3. CASE nx[o] = c /\ nx2[o] = nx[c]
      <4>1. c \in ReachIn(nx, r) BY <3>1, <3>3, Pointer
      <4> QED BY <2>2, <3>3, <4>1, ReachNext
    <3> QED BY <3>2, <3>3 DEF Round
  <2> QED BY <2>1, <2>2, ReachLeast
<1> DEFINE T == ReachIn(nx2, r)
           S == {x \in ReachIn(nx, r) : x \in T \/ (x = c /\ nx[c] \in T \cup {0})}
<1>2. S \in SUBSET Obj /\ r \in S \cup {0} BY ReachFirst, Pointer
<1>3. ASSUME NEW x \in S PROVE nx[x] \in S \cup {0}
  <2> SUFFICES ASSUME nx[x] # 0 PROVE nx[x] \in S OBVIOUS
  <2>1. x \in Obj /\ nx[x] \in ReachIn(nx, r) BY <1>2, ReachNext
  <2>2. CASE x \in T /\ nx2[x] = nx[x]
    <3>1. nx[x] \in T BY <2>2, ReachNext
    <3> QED BY <2>1, <3>1
  <2>3. CASE x \in T /\ nx[x] = c /\ nx2[x] = nx[c]
    <3>1. nx[c] \in T \cup {0} BY <2>3, ReachNext
    <3> QED BY <2>1, <2>3, <3>1
  <2>4. CASE x = c /\ nx[c] \in T \cup {0}
    BY <2>1, <2>4
  <2> QED BY <2>2, <2>3, <2>4 DEF Round
<1>4. ReachIn(nx, r) \subseteq S BY <1>2, <1>3, ReachLeast
<1> QED BY <1>1, <1>4

\* ... and is missed if each way to it goes round.
LEMMA RoundMisses ==
  ASSUME NEW nx \in Older, NEW nx2 \in Older, NEW c \in Obj, NEW r \in Ptr,
         Round(nx, nx2, c, r), r # c,
         \A q \in ReachIn(nx, r) : nx[q] = c => nx2[q] = nx[c]
  PROVE  c \notin ReachIn(nx2, r)
<1> SUFFICES ASSUME c \in ReachIn(nx2, r) PROVE FALSE OBVIOUS
<1>1. PICK q \in ReachIn(nx2, r) : nx2[q] = c BY ReachBefore
<1>2. q \in ReachIn(nx, r) BY RoundReaches
<1>3. nx[c] # c /\ nx[c] = c BY <1>1, <1>2, Link DEF Round
<1> QED BY <1>3

------------------------------------------------------------------------------
(* The invariant.                                                          *)

\* The constructor runs; it runs after fork () was done.
Building == {"fork", "next", "head"}
Linking == {"next", "head"}
\* The program runs and has not begun to exit.
Living == {"user"} \cup Building
\* ~ForkProcess runs.
Deleting == {"delete", "reap", "find", "unlink"}
Ended == {"gone", "crashed"}

Unreaped(c) == proc[c] \in {"starting", "running", "zombie"}

Frames == [pc : Pcs, this : Ptr, caller : {"none", "exit", "suicide"},
           pred : Ptr, after : Ptr, cur : Ptr]

Basic ==
  /\ mem \in [Obj -> {"none", "live", "freed"}] /\ scope \subseteq Obj
  /\ pid \in [Obj -> -1 .. N] /\ kill \in [Obj -> BOOLEAN]
  /\ next \in [Obj -> Ptr] /\ list \in Ptr
  /\ main \in Frames
  /\ hpid \in Ptr
  /\ suicide \in BOOLEAN /\ exiting \in BOOLEAN /\ masked \in BOOLEAN
  /\ chld \in BOOLEAN
  /\ proc \in [Obj -> {"none", "starting", "running", "zombie", "reaped"}]
  /\ term \subseteq Obj
  /\ inherits \in [Obj -> [list : SUBSET Obj, suicide : BOOLEAN]]
  /\ early \in BOOLEAN /\ merged \in BOOLEAN /\ stray \in BOOLEAN
  /\ during \in BOOLEAN /\ twice \in BOOLEAN /\ hurt \subseteq Obj
  /\ ub \subseteq {"~Fork", "~ForkProcess", "~KillForks", "commit_suicide",
                  "reaper_nohang"}

\* next leads to older objects.
Order == \A o \in Obj : next[o] < o

\* What an object is: not made, not even a child of it; with a child, its pid.
Objects ==
  /\ \A o \in Obj : mem[o] = "none" => proc[o] = "none" /\ o \notin scope
  /\ \A o, q \in Obj : mem[o] # "none" /\ q < o => mem[q] # "none"
  /\ \A o \in Obj : Unreaped(o) => pid[o] = o
  /\ hpid # 0 => proc[hpid] = "reaped" /\ pid[hpid] = hpid

\* The object a constructor makes is the newest.
Newest ==
  main.pc \in Building =>
    /\ main.this \in Obj /\ mem[main.this] = "live"
    /\ \A q \in Obj : q > main.this => mem[q] = "none"
    /\ main.pc = "fork" => proc[main.this] = "none"
    /\ main.pc \in Linking => pid[main.this] = main.this /\ proc[main.this] # "none"

\* Null, or an object with a child that is or was on the list.
Linked(o) ==
  o # 0 =>
    /\ mem[o] # "none" /\ proc[o] # "none"
    /\ pid[o] = o \/ (mem[o] = "freed" /\ proc[o] = "reaped")
    /\ ~(main.pc \in Building /\ main.this = o)

Pointers ==
  /\ Linked(list) /\ \A o \in Obj : Linked(next[o])
  /\ Linked(main.cur) /\ Linked(main.after) /\ Linked(main.pred)
  /\ main.pc \in Deleting => main.this # 0 /\ Linked(main.this)

\* Where ~ForkProcess and its callers are.
Calls ==
  /\ main.pc \in Deleting =>
       /\ main.caller = "exit" => main.this = main.cur /\ kill[main.this]
       /\ main.caller = "suicide" => main.cur < main.this
       /\ main.caller # "none"
  /\ main.pc = "return" => main.cur # 0 /\ kill[main.cur] /\ mem[main.cur] = "freed"
  /\ main.pc \in {"find", "unlink"} => proc[main.this] = "reaped" /\ hpid # main.this
  /\ main.pc = "unlink" =>
       /\ main.after < main.this
       /\ main.pred = 0 => list = main.this
       /\ main.pred \notin {0, main.this} => next[main.pred] = main.this

OfExit == main.pc \in {"exit", "return", "wait"}
            \/ (main.pc \in Deleting /\ main.caller = "exit")
OfSuicide == main.pc = "suicide" \/ (main.pc \in Deleting /\ main.caller = "suicide")

Phases ==
  /\ OfExit => exiting
  /\ OfSuicide => ~suicide
  /\ main.pc \in Living => ~exiting /\ ~during /\ ~masked /\ ~twice
  /\ hpid # 0 /\ ~during => main.pc \in Living \cup {"wait"} \cup Ended

\* The children not reaped are on the list, but the one that is being added,
\* and so is the one the reaper looks for; of the list and of what
\* commit_suicide has before it.
Covered ==
  ~early =>
    /\ \A c \in Obj : Unreaped(c) /\ ~(main.pc \in Linking /\ c = main.this)
                        => c \in ReachIn(next, list)
    /\ hpid # 0 => hpid \in ReachIn(next, list)
    /\ main.pc = "head" => next[main.this] = list /\ (hpid # 0 => hpid # list)
    /\ main.pc = "unlink" =>
         \A c \in ReachIn(next, main.this) : Unreaped(c) => c \in ReachIn(next, main.after)
    /\ OfSuicide =>
         \A c \in Obj : Unreaped(c) => \/ c \in ReachIn(next, main.cur)
                                       \/ main.pc \in {"delete", "reap"} /\ c = main.this

\* No reaper came upon the exit: the list holds no deleted object, and what the
\* exit will use is on it.
OnList(p) == p # 0 => p \in ReachIn(next, list)
Clean ==
  ~early /\ ~during /\ main.pc \notin Ended =>
    /\ \A o \in ReachIn(next, list) : mem[o] = "live"
    /\ main.pc \in {"exit", "suicide"} => OnList(main.cur)
    /\ main.pc = "return" => OnList(next[main.cur])
    /\ main.pc \in Deleting => /\ main.this \in ReachIn(next, list)
                               /\ main.caller = "suicide" => OnList(main.cur)
    /\ main.pc = "unlink" => /\ main.after = next[main.this]
                             /\ main.pred # main.this /\ OnList(main.pred)

\* A child whose object is there was not reaped, unless the reaper or
\* ~ForkProcess is just about to delete it.
Kept ==
  ~early /\ ~masked /\ ~twice /\ (ub = {} \/ main.pc \in Living)
    /\ main.pc \notin {"wait"} \cup Ended =>
    \A o \in Obj : mem[o] = "live" /\ proc[o] = "reaped" =>
      o = hpid \/ (main.pc \in {"find", "unlink"} /\ o = main.this)

\* What ~Fork finds deleted is the object of a child that ended.
Scope ==
  main.pc \in Living =>
    \A o \in scope : mem[o] = "freed" => proc[o] = "reaped"

IInv ==
  /\ Basic /\ Order /\ Objects /\ Newest /\ Pointers /\ Calls /\ Phases
  /\ Covered /\ Clean /\ Kept /\ Scope
  /\ NoneOutlives /\ StrayOnlyIf /\ UndefinedOnlyIf

------------------------------------------------------------------------------
(* What the steps have in common.                                          *)

\* The links lead to older objects.
LEMMA NextOlder == ASSUME Basic, Order PROVE next \in Older
BY DEF Basic, Order, Older

\* So they do after a step.
LEMMA NextOlderNext == ASSUME Basic', Order' PROVE next' \in Older
BY DEF Basic, Order, Older

\* Whatever is behind a linked object is linked.
LEMMA ReachLinked ==
  ASSUME Basic, Order, Pointers, NEW p \in Ptr, Linked(p)
  PROVE  \A o \in ReachIn(next, p) : Linked(o)
<1> DEFINE S == {o \in Obj : Linked(o)}
<1>1. next \in Older BY NextOlder
<1>2. S \in SUBSET Obj /\ p \in S \cup {0} BY Pointer
<1>3. ASSUME NEW q \in S PROVE next[q] \in S \cup {0}
  <2>1. Linked(next[q]) BY DEF Pointers
  <2>2. next[q] \in Obj \cup {0} BY <1>1, Link, Pointer
  <2> QED BY <2>1, <2>2
<1>4. ReachIn(next, p) \subseteq S BY <1>1, <1>2, <1>3, ReachLeast
<1> QED BY <1>4

\* Function f may come upon a deleted object.
Allowed(f) ==
  \/ early \/ during
  \/ f = "~Fork" /\ (\E c \in Obj : mem[c] = "freed" /\ proc[c] = "reaped")
  \/ f = "~KillForks" /\ (\E c \in Obj : kill[c] /\ mem[c] = "freed")

Functions == {"~Fork", "~ForkProcess", "~KillForks", "commit_suicide", "reaper_nohang"}

\* What a step may not undo.
Lasting ==
  /\ \A c \in Obj : mem[c] = "freed" => mem'[c] = "freed" /\ kill'[c] = kill[c]
  /\ \A c \in Obj : proc[c] = "reaped" => proc'[c] = "reaped"
  /\ (early => early') /\ (during => during')

\* Only who may comes upon a deleted object.
LEMMA UndefinedStep ==
  ASSUME UndefinedOnlyIf, Lasting, NEW f \in Functions,
         ub' = ub \/ (Allowed(f) /\ ub' = ub \cup {f})
  PROVE  UndefinedOnlyIf'
<1> SUFFICES ASSUME ~early', ~during'
             PROVE  /\ ub' \subseteq {"~Fork", "~KillForks"}
                    /\ "~Fork" \in ub' => \E c \in Obj : mem'[c] = "freed" /\ proc'[c] = "reaped"
                    /\ "~KillForks" \in ub' => \E c \in Obj : kill'[c] /\ mem'[c] = "freed"
  BY DEF UndefinedOnlyIf
<1>1. ~early /\ ~during BY DEF Lasting
<1>2. /\ ub \subseteq {"~Fork", "~KillForks"}
      /\ "~Fork" \in ub => \E c \in Obj : mem[c] = "freed" /\ proc[c] = "reaped"
      /\ "~KillForks" \in ub => \E c \in Obj : kill[c] /\ mem[c] = "freed"
  BY <1>1 DEF UndefinedOnlyIf
<1>3. (\E c \in Obj : mem[c] = "freed" /\ proc[c] = "reaped")
         => \E c \in Obj : mem'[c] = "freed" /\ proc'[c] = "reaped"
  BY DEF Lasting
<1>4. (\E c \in Obj : kill[c] /\ mem[c] = "freed")
         => \E c \in Obj : kill'[c] /\ mem'[c] = "freed"
  BY DEF Lasting
<1>5. \/ ub' = ub
      \/ ub' = ub \cup {"~Fork"} /\ (\E c \in Obj : mem[c] = "freed" /\ proc[c] = "reaped")
      \/ ub' = ub \cup {"~KillForks"} /\ (\E c \in Obj : kill[c] /\ mem[c] = "freed")
  BY <1>1 DEF Allowed
<1> QED BY <1>2, <1>3, <1>4, <1>5

\* A function that comes upon a deleted object may crash: nothing else changes.
LEMMA CrashStep ==
  ASSUME IInv, NEW f \in Functions, NEW S, Allowed(f), Crash(f, S),
         main.pc \in Linking => early
  PROVE  IInv'
<1>1. main'.pc = "crashed" /\ main' \in Frames
  BY NAssumption DEF Crash, Frame, Frames, Pcs, Ptr
<1>2. main'.this = 0 /\ main'.cur = 0 /\ main'.after = 0 /\ main'.pred = 0 /\ main'.caller = "none"
  BY DEF Crash, Frame
<1>3. UNCHANGED <<mem, scope, pid, kill, next, list, hpid, suicide, exiting, masked,
                  chld, proc, term, inherits, early, during, twice, merged, stray, hurt>>
  BY DEF Crash, objects, children, ghosts
<1>4. ub' = ub \cup {f} BY DEF Crash
<1>5. Basic' BY <1>1, <1>3, <1>4 DEF IInv, Basic, Functions
<1>6. Order' BY <1>3 DEF IInv, Order
<1>7. Objects' BY <1>3 DEF IInv, Objects, Unreaped
<1>8. Newest' BY <1>1 DEF Newest, Building
<1>9. Pointers' BY <1>1, <1>2, <1>3 DEF IInv, Pointers, Linked, Building, Deleting
<1>10. Calls' BY <1>1 DEF Calls, Deleting
<1>11. Phases' BY <1>1, <1>3 DEF IInv, Phases, OfExit, OfSuicide, Deleting, Living, Building, Ended
<1>12. Covered'
  BY <1>1, <1>3 DEF IInv, Covered, Unreaped, Linking, OfSuicide, Deleting
<1>13. Clean' BY <1>1 DEF Clean, Ended
<1>14. Kept' BY <1>1 DEF Kept, Ended
<1>15. Scope' BY <1>1 DEF Scope, Living, Building
<1>16. NoneOutlives' BY <1>1 DEF NoneOutlives
<1>17. StrayOnlyIf' BY <1>3, <1>4 DEF IInv, StrayOnlyIf
<1>18. UndefinedOnlyIf' BY <1>3, <1>4, UndefinedStep DEF IInv, Lasting
<1> QED BY <1>5, <1>6, <1>7, <1>8, <1>9, <1>10, <1>11, <1>12, <1>13, <1>14, <1>15, <1>16,
           <1>17, <1>18 DEF IInv

\* A child that is not reaped stays so while other children end, and so does
\* one that is: nothing in the invariant tells them apart.
LEMMA ChildrenStep ==
  ASSUME IInv, Children
  PROVE  IInv'
<1>1. UNCHANGED <<mem, scope, pid, kill, next, list, main, hpid, suicide, exiting, masked,
                  inherits, early, during, twice, stray, ub>>
  BY DEF Children, Ends, ChildStarts, ChildEnds, ChildTermed, objects, control
<1>2. main.pc \notin Ended
  BY DEF Children, Ends, ChildStarts, ChildEnds, ChildTermed, Gone, Ended
<1>3. /\ proc' \in [Obj -> {"none", "starting", "running", "zombie", "reaped"}]
      /\ chld' \in BOOLEAN /\ merged' \in BOOLEAN /\ term' \subseteq Obj /\ hurt' \subseteq Obj
      /\ \A o \in Obj : /\ proc'[o] = "none" <=> proc[o] = "none"
                        /\ proc'[o] = "reaped" <=> proc[o] = "reaped"
  <2>0. Basic BY DEF IInv
  <2>1. PICK c \in Obj : Ends(c) BY DEF Children
  <2>2. CASE ChildStarts(c)
    <3>1. inherits[c].list \subseteq Obj BY <2>0 DEF Basic
    <3> QED BY <2>0, <2>2, <3>1 DEF Basic, ChildStarts
  <2>3. CASE ChildEnds(c) BY <2>0, <2>3 DEF Basic, ChildEnds, Die
  <2>4. CASE ChildTermed(c)
    <3>1. inherits[c].list \subseteq Obj BY <2>0 DEF Basic
    <3>2. PICK V \in SUBSET Obj :
            /\ Die({c} \cup {o \in V : ~kill[o] /\ Alive(o)})
            /\ term' = term \cup {o \in V : kill[o] /\ Alive(o)}
            /\ hurt' = hurt \cup V /\ Alive(c)
      BY <2>4, <3>1 DEF ChildTermed
    <3> QED BY <2>0, <3>2 DEF Basic, Die, Alive
  <2> QED BY <2>1, <2>2, <2>3, <2>4 DEF Ends
<1>4. \A o \in Obj : Unreaped(o)' <=> Unreaped(o)
  BY <1>3 DEF IInv, Basic, Unreaped
<1>5. Basic' BY <1>1, <1>3 DEF IInv, Basic
<1>6. Order' BY <1>1 DEF IInv, Order
<1>7. Objects' BY <1>1, <1>3, <1>4, Pointer DEF IInv, Basic, Objects
<1>8. Newest' BY <1>1, <1>3 DEF IInv, Newest
<1>9. Pointers'
  <2>1. \A o \in Ptr : Linked(o) => Linked(o)'
    BY <1>1, <1>3, Pointer DEF Linked
  <2> QED BY <1>1, <2>1 DEF IInv, Basic, Pointers, Frames
<1>10. Calls'
  <2>1. main.pc \in Deleting => main.this \in Obj
    BY Pointer DEF IInv, Basic, Pointers, Frames
  <2> QED BY <1>1, <1>3, <2>1 DEF IInv, Calls, Deleting
<1>11. Phases' BY <1>1 DEF IInv, Phases, OfExit, OfSuicide
<1>12. Covered'
  <2>1. ReachIn(next, main.this) \subseteq Obj
    BY NextOlder, ReachFirst DEF IInv, Basic, Frames
  <2> QED BY <1>1, <1>4, <2>1 DEF IInv, Covered, OfSuicide
<1>13. Clean' BY <1>1 DEF IInv, Clean, OnList
<1>14. Kept' BY <1>1, <1>3 DEF IInv, Kept
<1>15. Scope' BY <1>1, <1>3 DEF IInv, Basic, Scope
<1>16. NoneOutlives' BY <1>1, <1>2 DEF NoneOutlives, Ended
<1>17. StrayOnlyIf' BY <1>1 DEF IInv, StrayOnlyIf
<1>18. UndefinedOnlyIf' BY <1>1, <1>3 DEF IInv, UndefinedOnlyIf
<1> QED BY <1>5, <1>6, <1>7, <1>8, <1>9, <1>10, <1>11, <1>12, <1>13, <1>14, <1>15, <1>16,
           <1>17, <1>18 DEF IInv

------------------------------------------------------------------------------
(* The main program.                                                       *)

\* main () begins with no object, no child and no handler installed.
LEMMA InitHolds == ASSUME Init PROVE IInv
<1>1. Basic
  <2>1. Frame("user") \in Frames BY Pointer DEF Frame, Frames, Pcs
  <2>2. 0 \in -1 .. N BY NAssumption
  <2> QED BY <2>1, <2>2, Pointer DEF Init, Basic
<1>2. main.pc = "user" /\ main.cur = 0 /\ main.pred = 0 /\ main.after = 0
  BY DEF Init, Frame
<1> QED BY <1>1, <1>2, Pointer, NextOlder, ReachNone
   DEF Init, IInv, Order, Objects, Newest, Pointers, Linked, Calls, Phases, Covered, Clean, Kept,
       Scope, NoneOutlives, StrayOnlyIf, UndefinedOnlyIf, OfExit, OfSuicide, Unreaped, OnList,
       Building, Linking, Living, Deleting, Ended

\* A ForkProcess is made, up to its fork (fork.cpp:44-55).
LEMMA ConstructStep ==
  ASSUME IInv, NEW k \in BOOLEAN, Construct(k)
  PROVE  IInv'
<1>1. PICK o \in Obj : /\ mem[o] = "none" /\ \A q \in Obj : q < o => mem[q] # "none"
                       /\ mem' = [mem EXCEPT ![o] = "live"]
                       /\ kill' = [kill EXCEPT ![o] = k]
                       /\ main' = [Frame("fork") EXCEPT !.this = o]
  BY DEF Construct
<1>2. /\ UNCHANGED <<scope, pid, next, list, hpid, suicide, exiting, masked, chld, proc, term,
                     inherits, early, during, twice, merged, stray, hurt, ub>>
      /\ main.pc = "user" /\ hpid = 0
  BY DEF Construct, children, ghosts, At
<1>3. main' \in Frames /\ main'.pc = "fork" /\ main'.this = o
      /\ main'.cur = 0 /\ main'.pred = 0 /\ main'.after = 0
  BY <1>1, Pointer DEF Frame, Frames, Pcs
<1>4. \A q \in Obj : q > o => mem[q] = "none"
  BY <1>1, Pointer DEF IInv, Objects
<1>5. Basic' BY <1>1, <1>2, <1>3 DEF IInv, Basic
<1>6. Order' BY <1>2 DEF IInv, Order
<1>7. Objects' BY <1>1, <1>2, <1>4, Pointer DEF IInv, Basic, Objects, Unreaped
<1>8. Newest' BY <1>1, <1>2, <1>3, <1>4, Pointer DEF IInv, Basic, Objects, Newest, Linking
<1>9. Pointers'
  <2>1. \A x \in Ptr : Linked(x) => Linked(x)'
    BY <1>1, <1>2, <1>3, Pointer DEF IInv, Basic, Linked
  <2> QED BY ZenonT(60), <1>2, <1>3, <2>1, Pointer DEF IInv, Basic, Pointers, Linked, Deleting
<1>10. Calls' BY <1>3 DEF Calls, Deleting
<1>11. Phases' BY <1>2, <1>3 DEF IInv, Phases, OfExit, OfSuicide, Deleting, Living, Building
<1>12. Covered'
  BY <1>2, <1>3 DEF IInv, Covered, OfSuicide, Deleting, Unreaped, Linking
<1>13. Clean'
  <2>1. ReachIn(next, list) \subseteq Obj
    BY NextOlder, ReachFirst DEF IInv, Basic
  <2> QED BY <1>1, <1>2, <1>3, <2>1 DEF IInv, Basic, Clean, Deleting, Ended
<1>14. Kept' BY <1>1, <1>2, <1>3 DEF IInv, Basic, Objects, Kept, Living, Building, Ended
<1>15. Scope' BY <1>1, <1>2, <1>3 DEF IInv, Basic, Scope, Living
<1>16. NoneOutlives' BY <1>3 DEF NoneOutlives
<1>17. StrayOnlyIf' BY <1>2 DEF IInv, StrayOnlyIf
<1>18. UndefinedOnlyIf' BY <1>1, <1>2 DEF IInv, Basic, UndefinedOnlyIf
<1> QED BY <1>5, <1>6, <1>7, <1>8, <1>9, <1>10, <1>11, <1>12, <1>13, <1>14, <1>15, <1>16,
           <1>17, <1>18 DEF IInv

\* The new object is not linked, so that its pid is no other's business.
LEMMA DoForkStep ==
  ASSUME IInv, DoFork
  PROVE  IInv'
<1> DEFINE o == main.this
<1>1. PICK p \in {o, -1} :
        /\ pid' = [pid EXCEPT ![o] = p]
        /\ proc' = [proc EXCEPT ![o] = IF p > 0 THEN "starting" ELSE @]
        /\ inherits' = IF p > 0 THEN [inherits EXCEPT ![o] = [list |-> Reach(list),
                                                              suicide |-> suicide]]
                                ELSE inherits
        /\ scope' = scope \cup {o}
        /\ main' = IF Links(p) THEN [main EXCEPT !.pc = "next"] ELSE Frame("user")
  BY DEF DoFork
<1>2. /\ UNCHANGED <<mem, kill, next, list, hpid, suicide, exiting, masked, chld,
                     term, early, during, twice, merged, stray, hurt, ub>>
      /\ main.pc = "fork" /\ hpid = 0
  BY DEF DoFork, ghosts, At
<1>3. /\ o \in Obj /\ o > 0 /\ mem[o] = "live" /\ proc[o] = "none"
      /\ \A q \in Obj : q > o => mem[q] = "none"
  BY <1>2, Pointer DEF IInv, Newest, Building
<1>4. \/ p = o /\ main' = [main EXCEPT !.pc = "next"] /\ proc' = [proc EXCEPT ![o] = "starting"]
      \/ p = -1 /\ main' = Frame("user") /\ proc' = proc
  <2>1. CASE p = o BY <1>1, <1>3, <2>1 DEF Links
  <2>2. CASE p = -1
    <3>1. ~(p > 0) BY <2>2
    <3> QED BY <1>1, <1>3, <2>2, <3>1 DEF Links, IInv, Basic
  <2> QED BY <2>1, <2>2
<1>5. /\ main' \in Frames
      /\ main'.cur \in {main.cur, 0} /\ main'.pred \in {main.pred, 0}
      /\ main'.after \in {main.after, 0}
      /\ main'.pc = "next" => p = o /\ main'.this = o /\ proc'[o] = "starting"
      /\ main'.pc \in {"next", "user"}
  BY <1>3, <1>4, Pointer DEF IInv, Basic, Frame, Frames, Pcs
<1>6. Basic'
  <2>1. Reach(list) \subseteq Obj BY DEF Reach
  <2>2. p \in -1 .. N BY <1>3, NAssumption DEF Obj
  <2>3. inherits' \in [Obj -> [list : SUBSET Obj, suicide : BOOLEAN]]
    BY <1>1, <2>1 DEF IInv, Basic
  <2> QED BY <1>1, <1>2, <1>3, <1>4, <1>5, <2>2, <2>3 DEF IInv, Basic
<1>7. Order' BY <1>2 DEF IInv, Order
<1>8. Objects'
  <2>1. \A q \in Obj : Unreaped(q)' => pid'[q] = q
    BY <1>1, <1>3, <1>4 DEF IInv, Basic, Objects, Unreaped
  <2> QED BY <1>1, <1>2, <1>3, <1>4, <2>1 DEF IInv, Basic, Objects
<1>9. Newest'
  BY <1>1, <1>2, <1>3, <1>5 DEF IInv, Basic, Newest, Building, Linking
<1>10. Pointers'
  <2>1. \A x \in Ptr : Linked(x) => Linked(x)'
    <3>1. SUFFICES ASSUME NEW x \in Obj, Linked(x) PROVE Linked(x)'
      BY Pointer DEF Linked
    <3>2. x # o /\ x # 0 BY <1>2, <3>1, Pointer DEF Linked, Building
    <3> QED BY <1>1, <1>2, <1>4, <1>5, <3>1, <3>2 DEF IInv, Basic, Linked, Building
  <2>2. \A x \in {main.cur, main.pred, main.after, 0} : x \in Ptr /\ Linked(x)
    BY Pointer DEF IInv, Basic, Frames, Pointers, Linked
  <2>3. Linked(main.cur)' /\ Linked(main.pred)' /\ Linked(main.after)'
    BY <1>5, <2>1, <2>2
  <2>4. Linked(list)' /\ (\A q \in Obj : Linked(next[q])')
    BY <1>2, <2>1 DEF IInv, Basic, Pointers
  <2>5. main'.pc \notin Deleting BY <1>5 DEF Deleting
  <2> QED BY <2>3, <2>4, <2>5 DEF Pointers
<1>11. Calls' BY <1>5 DEF Calls, Deleting
<1>12. Phases' BY <1>2, <1>5 DEF IInv, Phases, OfExit, OfSuicide, Deleting, Living, Building
<1>13. Covered'
  <2>1. \A c \in Obj : Unreaped(c)' /\ ~(main'.pc \in Linking /\ c = main'.this) => Unreaped(c)
    <3>1. SUFFICES ASSUME NEW c \in Obj, Unreaped(c)', c # o \/ main'.pc = "user"
                   PROVE  Unreaped(c)
      BY <1>5 DEF Linking
    <3>2. CASE c # o BY <1>3, <1>4, <3>1, <3>2 DEF IInv, Basic, Unreaped
    <3>3. CASE main'.pc = "user"
      <4>1. proc' = proc BY <1>4, <3>3 DEF IInv, Basic, Frames
      <4> QED BY <3>1, <4>1 DEF Unreaped
    <3> QED BY <3>1, <3>2, <3>3
  <2> QED BY <1>2, <1>5, <2>1 DEF IInv, Covered, OfSuicide, Deleting, Linking
<1>14. Clean' BY <1>2, <1>5 DEF IInv, Clean, Deleting, Ended
<1>15. Kept' BY <1>1, <1>2, <1>4, <1>5 DEF IInv, Basic, Kept, Living, Building, Ended
<1>16. Scope' BY <1>1, <1>2, <1>3, <1>4 DEF IInv, Basic, Scope, Living, Building
<1>17. NoneOutlives' BY <1>5 DEF NoneOutlives
<1>18. StrayOnlyIf' BY <1>2 DEF IInv, StrayOnlyIf
<1>19. UndefinedOnlyIf' BY <1>2, <1>3, <1>4 DEF IInv, Basic, UndefinedOnlyIf
<1> QED BY <1>6, <1>7, <1>8, <1>9, <1>10, <1>11, <1>12, <1>13, <1>14, <1>15, <1>16,
           <1>17, <1>18, <1>19 DEF IInv

\* A linked object is older than the one the constructor is at.
LEMMA LinkedOlder ==
  ASSUME Basic, Newest, main.pc \in Building, NEW p \in Ptr, Linked(p)
  PROVE  p < main.this
<1> PICK o : o = main.this OBVIOUS
<1>1. o \in Obj /\ \A q \in Obj : q > o => mem[q] = "none" BY DEF Newest
<1>2. p = 0 \/ (p \in Obj /\ p # o /\ mem[p] # "none") BY Pointer DEF Linked
<1> QED BY <1>1, <1>2, Pointer

\* next = list, in the parent.
LEMMA LinkNextStep ==
  ASSUME IInv, LinkNext
  PROVE  IInv'
<1> DEFINE o == main.this
<1>1. /\ UNCHANGED <<mem, scope, pid, kill, list, hpid, suicide, exiting, masked, chld, proc,
                     term, inherits, early, during, twice, merged, stray, hurt, ub>>
      /\ main.pc = "next" /\ hpid = 0
      /\ next' = [next EXCEPT ![o] = list]
      /\ main' = [main EXCEPT !.pc = "head"]
  BY DEF LinkNext, children, ghosts, At
<1>2. /\ main' \in Frames /\ main'.pc = "head" /\ main'.this = o
      /\ main'.cur = main.cur /\ main'.pred = main.pred /\ main'.after = main.after
  BY <1>1 DEF IInv, Basic, Frames, Pcs
<1>3. o \in Obj /\ Basic /\ Order /\ Newest /\ Pointers
  BY <1>1 DEF IInv, Newest, Building
<1>4. list \in Ptr /\ Linked(list) /\ list < o
  BY <1>1, <1>3, LinkedOlder DEF Basic, Pointers, Building
<1>5. Basic' BY <1>1, <1>2, <1>4 DEF IInv, Basic
<1>6. Order' BY <1>1, <1>3, <1>4 DEF Basic, Order
<1>7. ReachIn(next', list) = ReachIn(next, list)
  <2>1. next \in Older /\ next' \in Older BY <1>3, <1>5, <1>6, NextOlder, NextOlderNext
  <2>2. \A q \in Obj : q < o => next'[q] = next[q] BY <1>1, <1>3, Pointer DEF Basic
  <2> QED BY <1>3, <1>4, <2>1, <2>2, Pointer, ReachBelow
<1>8. Objects' BY <1>1 DEF IInv, Objects, Unreaped
<1>9. Newest' BY <1>1, <1>2 DEF IInv, Newest, Building, Linking
<1>10. Pointers'
  <2>1. \A x \in Ptr : Linked(x) => Linked(x)'
    BY <1>1, <1>2 DEF Linked, Building
  <2>2. \A q \in Obj : Linked(next'[q]) /\ next'[q] \in Ptr
    BY <1>1, <1>3, <1>4 DEF Basic, Pointers
  <2>3. Linked(list)' /\ Linked(main.cur)' /\ Linked(main.after)' /\ Linked(main.pred)'
    BY <1>1, <1>2, <1>3, <2>1 DEF Basic, Frames, Pointers
  <2> QED BY <1>2, <2>1, <2>2, <2>3 DEF Pointers, Deleting
<1>11. Calls' BY <1>2 DEF Calls, Deleting
<1>12. Phases' BY <1>1, <1>2 DEF IInv, Phases, OfExit, OfSuicide, Deleting, Living, Building
<1>13. Covered'
  BY <1>1, <1>2, <1>3, <1>7 DEF IInv, Basic, Covered, OfSuicide, Deleting, Linking, Unreaped
<1>14. Clean' BY <1>1, <1>2, <1>7 DEF IInv, Clean, Deleting, Ended
<1>15. Kept' BY <1>1, <1>2 DEF IInv, Kept, Living, Building, Ended
<1>16. Scope' BY <1>1, <1>2 DEF IInv, Scope, Living, Building
<1>17. NoneOutlives' BY <1>2 DEF NoneOutlives
<1>18. StrayOnlyIf' BY <1>1 DEF IInv, StrayOnlyIf
<1>19. UndefinedOnlyIf' BY <1>1 DEF IInv, UndefinedOnlyIf
<1> QED BY <1>5, <1>6, <1>8, <1>9, <1>10, <1>11, <1>12, <1>13, <1>14, <1>15, <1>16,
           <1>17, <1>18, <1>19 DEF IInv

\* The list is now the new object and what it was.
LEMMA LinkHeadStep ==
  ASSUME IInv, LinkHead
  PROVE  IInv'
<1> PICK o : o = main.this OBVIOUS
<1>1. /\ UNCHANGED <<mem, scope, pid, kill, next, hpid, suicide, exiting, masked, chld, proc,
                     term, inherits, early, during, twice, merged, stray, hurt, ub>>
      /\ main.pc = "head" /\ hpid = 0
      /\ list' = o /\ main' = Frame("user")
  BY DEF LinkHead, children, ghosts, At
<1>2. /\ main' \in Frames /\ main'.pc = "user"
      /\ main'.cur = 0 /\ main'.pred = 0 /\ main'.after = 0
  BY <1>1, Pointer DEF Frame, Frames, Pcs
<1>3. o \in Obj /\ mem[o] = "live" /\ pid[o] = o /\ proc[o] # "none"
  BY <1>1 DEF IInv, Newest, Building, Linking
<1>4. Basic' BY <1>1, <1>2, <1>3, Pointer DEF IInv, Basic
<1>5. Order' BY <1>1 DEF IInv, Order
<1>6. next \in Older BY NextOlder DEF IInv
<1>7. ReachIn(next, o) = {o} \cup ReachIn(next, next[o]) BY <1>3, <1>6, ReachUnfold
<1>8. Objects' BY <1>1 DEF IInv, Objects, Unreaped
<1>9. Newest' BY <1>2 DEF Newest, Building
<1>10. Pointers'
  <2>1. \A x \in Ptr : Linked(x) => Linked(x)'
    BY <1>1, <1>2 DEF Linked, Building
  <2>2. Linked(o)' BY <1>1, <1>2, <1>3 DEF Linked, Building
  <2> QED BY ZenonT(60), <1>1, <1>2, <2>1, <2>2 DEF IInv, Basic, Pointers, Linked, Deleting
<1>11. Calls' BY <1>2 DEF Calls, Deleting
<1>12. Phases' BY <1>1, <1>2 DEF IInv, Phases, OfExit, OfSuicide, Deleting, Living, Building
<1>13. Covered'
  BY <1>1, <1>2, <1>7 DEF IInv, Covered, OfSuicide, Deleting, Linking, Unreaped
<1>14. Clean' BY <1>1, <1>2, <1>3, <1>7 DEF IInv, Covered, Clean, Deleting, Ended
<1>15. Kept' BY <1>1, <1>2 DEF IInv, Kept, Living, Building, Ended
<1>16. Scope' BY <1>1, <1>2 DEF IInv, Scope, Living, Building
<1>17. NoneOutlives' BY <1>2 DEF NoneOutlives
<1>18. StrayOnlyIf' BY <1>1 DEF IInv, StrayOnlyIf
<1>19. UndefinedOnlyIf' BY <1>1 DEF IInv, UndefinedOnlyIf
<1> QED BY <1>4, <1>5, <1>8, <1>9, <1>10, <1>11, <1>12, <1>13, <1>14, <1>15, <1>16,
           <1>17, <1>18, <1>19 DEF IInv

\* What is on a clean list can be used.
LEMMA CleanUse ==
  ASSUME IInv, main.pc \notin Ended, NEW S \in SUBSET ReachIn(next, list), Freed(S)
  PROVE  early \/ during
BY DEF IInv, Clean, Freed

\* ~Fork comes upon a deleted object only if the reaper deleted it, and it
\* deletes none that is or was on the list.
LEMMA DestroyForkStep ==
  ASSUME IInv, NEW o \in Obj, DestroyFork(o)
  PROVE  IInv'
<1>1. main.pc = "user" /\ hpid = 0 /\ o \in scope
  BY DEF DestroyFork, At
<1>2. Freed({o}) => Allowed("~Fork")
  BY <1>1 DEF Freed, Allowed, IInv, Scope, Living
<1>3. CASE Crash("~Fork", {o})
  <2>1. Freed({o}) BY <1>3 DEF Crash
  <2> QED BY <1>1, <1>2, <1>3, <2>1, CrashStep DEF Functions, Linking
<1>4. CASE /\ Uses("~Fork", {o})
           /\ mem' = [mem EXCEPT ![o] = IF mem[o] = "live" /\ pid[o] <= 0 THEN "freed" ELSE @]
           /\ scope' = scope \ {o}
           /\ UNCHANGED <<pid, kill, next, list, control, children, ghosts>>
  <2>1. UNCHANGED <<pid, kill, next, list, main, hpid, suicide, exiting, masked, chld, proc,
                    term, inherits, early, during, twice, merged, stray, hurt>>
    BY <1>4 DEF control, children, ghosts
  <2>2. ub' = ub \/ (Allowed("~Fork") /\ ub' = ub \cup {"~Fork"})
    BY <1>2, <1>4 DEF Uses
  <2>3. /\ \A q \in Obj : mem'[q] = mem[q] \/ (q = o /\ mem[q] = "live" /\ mem'[q] = "freed")
        /\ \A q \in Obj : Linked(q) \/ Unreaped(q) => mem'[q] = mem[q]
        /\ \A q \in Obj : mem'[q] = "none" <=> mem[q] = "none"
        /\ mem' \in [Obj -> {"none", "live", "freed"}]
    <3>1. mem[o] = "live" /\ pid[o] <= 0 => ~Linked(o) /\ ~Unreaped(o)
      BY Pointer DEF Linked, IInv, Objects
    <3>2. CASE mem[o] = "live" /\ pid[o] <= 0
      BY <1>4, <3>1, <3>2 DEF IInv, Basic
    <3>3. CASE ~(mem[o] = "live" /\ pid[o] <= 0)
      BY <1>4, <3>3 DEF IInv, Basic
    <3> QED BY <3>2, <3>3
  <2>4. \A q \in ReachIn(next, list) : q \in Obj /\ Linked(q)
    BY NextOlder, ReachFirst, ReachLinked DEF IInv, Basic, Pointers
  <2>5. Basic' BY ZenonT(60), <1>4, <2>1, <2>2, <2>3 DEF IInv, Basic
  <2>6. Order' BY <2>1 DEF IInv, Order
  <2>7. Objects' BY <1>4, <2>1, <2>3 DEF IInv, Objects, Unreaped
  <2>8. Newest' BY <1>1, <2>1 DEF Newest, Building
  <2>9. Pointers'
    <3>1. \A x \in Ptr : Linked(x) => Linked(x)'
      BY <2>1, <2>3, Pointer DEF Linked
    <3> QED BY <1>1, <2>1, <3>1 DEF IInv, Basic, Frames, Pointers, Deleting
  <2>10. Calls' BY <1>1, <2>1 DEF Calls, Deleting
  <2>11. Phases' BY <2>1 DEF IInv, Phases, OfExit, OfSuicide
  <2>12. Covered' BY <1>1, <2>1 DEF IInv, Covered, Unreaped, OfSuicide, Deleting
  <2>13. Clean' BY <1>1, <2>1, <2>3, <2>4 DEF IInv, Clean, Deleting
  <2>14. Kept' BY <1>1, <2>1, <2>3 DEF IInv, Kept, Living, Ended
  <2>15. Scope' BY <1>1, <1>4, <2>1, <2>3 DEF IInv, Basic, Scope, Living
  <2>16. NoneOutlives' BY <1>1, <2>1 DEF NoneOutlives
  <2>17. StrayOnlyIf' BY <2>1, <2>2 DEF IInv, StrayOnlyIf
  <2>18. UndefinedOnlyIf'
    <3>1. Lasting BY <2>1, <2>3 DEF Lasting
    <3> QED BY <2>2, <3>1, UndefinedStep DEF IInv, Functions
  <2> QED BY <2>5, <2>6, <2>7, <2>8, <2>9, <2>10, <2>11, <2>12, <2>13, <2>14, <2>15, <2>16,
             <2>17, <2>18 DEF IInv
<1> QED BY <1>3, <1>4 DEF DestroyFork

\* SIGTERM comes and commit_suicide begins on the head of the list.
LEMMA SuicideSignalStep ==
  ASSUME IInv, SuicideSignal
  PROVE  IInv'
<1>1. /\ UNCHANGED <<mem, scope, pid, kill, next, list, main, hpid, exiting, masked, chld, proc,
                     term, inherits, early, during, twice, merged, stray, hurt, ub>>
      /\ main.pc = "user" /\ suicide' = TRUE
  BY DEF SuicideSignal, objects, children, ghosts, At
<1>2. Basic' BY <1>1 DEF IInv, Basic
<1>3. Phases' BY <1>1 DEF IInv, Phases, OfExit, OfSuicide, Deleting
<1>4. Order' /\ Objects' /\ Newest' BY <1>1 DEF IInv, Order, Objects, Newest, Unreaped
<1>5. Pointers' BY <1>1 DEF IInv, Pointers, Linked
<1>6. Calls' BY <1>1 DEF IInv, Calls
<1>7. Covered' BY <1>1 DEF IInv, Covered, Unreaped, OfSuicide
<1>8. Clean' BY <1>1 DEF IInv, Clean, OnList
<1>9. Kept' /\ Scope' BY <1>1 DEF IInv, Kept, Scope
<1>10. NoneOutlives' BY <1>1 DEF NoneOutlives
<1>11. StrayOnlyIf' /\ UndefinedOnlyIf' BY <1>1 DEF IInv, StrayOnlyIf, UndefinedOnlyIf
<1> QED BY <1>2, <1>3, <1>4, <1>5, <1>6, <1>7, <1>8, <1>9, <1>10, <1>11 DEF IInv

\* The program calls exit, which runs ~KillForks.
LEMMA ExitStep ==
  ASSUME IInv, Exit
  PROVE  IInv'
<1>1. /\ UNCHANGED <<mem, scope, pid, kill, next, list, hpid, suicide, masked, chld, proc,
                     term, inherits, early, during, twice, merged, stray, hurt, ub>>
      /\ main.pc = "user" /\ hpid = 0 /\ exiting' = TRUE
      /\ main' = [Frame("exit") EXCEPT !.cur = list]
  BY DEF Exit, objects, children, ghosts, At
<1>2. /\ main' \in Frames /\ main'.pc = "exit" /\ main'.cur = list
      /\ main'.pred = 0 /\ main'.after = 0
  BY <1>1, Pointer DEF Frame, Frames, Pcs, IInv, Basic
<1>3. Basic' BY <1>1, <1>2 DEF IInv, Basic
<1>4. Order' /\ Objects' BY <1>1 DEF IInv, Order, Objects, Unreaped
<1>5. Newest' BY <1>2 DEF Newest, Building
<1>6. Pointers'
  <2>1. \A x \in Ptr : Linked(x) => Linked(x)'
    BY <1>1, <1>2 DEF Linked, Building
  <2> QED BY <1>1, <1>2, <2>1 DEF IInv, Basic, Pointers, Linked, Deleting
<1>7. Calls' BY <1>2 DEF Calls, Deleting
<1>8. Phases' BY <1>1, <1>2 DEF IInv, Phases, OfExit, OfSuicide, Deleting, Living, Building
<1>9. Covered' BY <1>1, <1>2 DEF IInv, Covered, Unreaped, OfSuicide, Deleting, Linking
<1>10. Clean'
  <2>1. list # 0 => list \in ReachIn(next, list)
    BY NextOlder, ReachFirst DEF IInv, Basic
  <2> QED BY <1>1, <1>2, <2>1 DEF IInv, Clean, OnList, Deleting, Ended
<1>11. Kept' BY <1>1, <1>2 DEF IInv, Kept, Living, Ended
<1>12. Scope' BY <1>2 DEF Scope, Living, Building
<1>13. NoneOutlives' BY <1>2 DEF NoneOutlives
<1>14. StrayOnlyIf' /\ UndefinedOnlyIf' BY <1>1 DEF IInv, StrayOnlyIf, UndefinedOnlyIf
<1> QED BY <1>3, <1>4, <1>5, <1>6, <1>7, <1>8, <1>9, <1>10, <1>11, <1>12, <1>13, <1>14 DEF IInv

------------------------------------------------------------------------------
(* ~ForkProcess.                                                           *)

\* It holds an object that is or was on the list: one with a child, unless the
\* reaper has deleted it.
LEMMA DeletingThis ==
  ASSUME IInv, main.pc \in Deleting
  PROVE  /\ main.this \in Obj /\ mem[main.this] \in {"live", "freed"}
         /\ proc[main.this] # "none"
         /\ pid[main.this] = main.this \/ (mem[main.this] = "freed" /\ proc[main.this] = "reaped")
         /\ main.caller \in {"exit", "suicide"} /\ main.pc \notin Ended
BY ZenonT(60), Pointer DEF IInv, Basic, Frames, Pointers, Linked, Calls, Deleting, Ended

\* A signal that it sends to a child already reaped comes from a deleted object.
LEMMA DeleteStep ==
  ASSUME IInv, Delete
  PROVE  IInv'
<1> PICK o : o = main.this OBVIOUS
<1>1. main.pc = "delete" /\ hpid = 0 /\ main.pc \in Deleting BY DEF Delete, At, Deleting
<1>2. /\ o \in Obj /\ mem[o] \in {"live", "freed"}
      /\ pid[o] = o \/ (mem[o] = "freed" /\ proc[o] = "reaped")
      /\ main.pc \notin Ended
  BY <1>1, DeletingThis
<1>3. Freed({o}) => Allowed("~ForkProcess")
  <2>1. ASSUME ~early, ~during PROVE {o} \in SUBSET ReachIn(next, list)
    BY <1>1, <1>2, <2>1 DEF IInv, Clean
  <2> QED BY <1>2, <2>1, CleanUse DEF Allowed
<1>4. CASE Crash("~ForkProcess", {o})
  <2>1. Freed({o}) BY <1>4 DEF Crash
  <2> QED BY <1>1, <1>3, <1>4, <2>1, CrashStep DEF Functions, Linking
<1>5. ASSUME Uses("~ForkProcess", {o}),
             UNCHANGED <<mem, scope, pid, kill, next, list, hpid, suicide, exiting,
                         masked, chld, proc, inherits, early, during, twice, merged, hurt>>,
             \/ main'.pc = "crashed" /\ main' = Frame("crashed") /\ UNCHANGED <<term, stray>>
             \/ /\ term' = IF kill[o] /\ Alive(o) THEN term \cup {o} ELSE term
                /\ stray' = (stray \/ (kill[o] /\ proc[o] = "reaped"))
                /\ main' = [main EXCEPT !.pc = "reap"]
      PROVE  IInv'
  <2>1. ub' = ub \/ (Allowed("~ForkProcess") /\ ub' = ub \cup {"~ForkProcess"})
    BY <1>3, <1>5 DEF Uses
  <2>2. /\ main' \in Frames
        /\ \/ /\ main'.pc = "crashed" /\ main'.cur = 0 /\ main'.pred = 0 /\ main'.after = 0
              /\ stray' = stray
           \/ /\ main'.pc = "reap" /\ main'.this = o /\ main'.caller = main.caller
              /\ main'.cur = main.cur /\ main'.pred = main.pred /\ main'.after = main.after
              /\ stray' = (stray \/ (kill[o] /\ proc[o] = "reaped"))
        /\ term' \subseteq Obj
    BY <1>2, <1>5, Pointer DEF Frame, Frames, Pcs, IInv, Basic
  <2>3. Basic' BY ZenonT(60), <1>5, <2>1, <2>2 DEF IInv, Basic
  <2>4. Order' /\ Objects' BY <1>5 DEF IInv, Order, Objects, Unreaped
  <2>5. Newest' BY <2>2 DEF Newest, Building
  <2>6. Pointers'
    <3>1. \A x \in Ptr : Linked(x) => Linked(x)'
      BY <1>5, <2>2 DEF Linked, Building
    <3>2. \A x \in {main.cur, main.pred, main.after, main.this, 0} : x \in Ptr /\ Linked(x)
      BY <1>1, Pointer DEF IInv, Basic, Frames, Pointers, Linked
    <3>3. Linked(main.cur)' /\ Linked(main.pred)' /\ Linked(main.after)'
      BY <2>2, <3>1, <3>2
    <3>4. Linked(list)' /\ (\A q \in Obj : Linked(next[q])')
      BY <1>5, <3>1 DEF IInv, Basic, Pointers
    <3>5. main'.pc \in Deleting => main'.this # 0 /\ Linked(main.this)'
      BY <1>2, <2>2, <3>1, <3>2, Pointer DEF Deleting
    <3> QED BY <3>3, <3>4, <3>5 DEF Pointers
  <2>7. Calls' BY <1>1, <1>5, <2>2 DEF IInv, Calls, Deleting
  <2>8. Phases' BY <1>1, <1>5, <2>2 DEF IInv, Phases, OfExit, OfSuicide, Deleting, Living, Building, Ended
  <2>9. Covered' BY <1>1, <1>5, <2>2 DEF IInv, Covered, Unreaped, OfSuicide, Deleting, Linking
  <2>10. Clean' BY <1>1, <1>5, <2>2 DEF IInv, Clean, OnList, Deleting, Ended
  <2>11. ub' = {} => ub = {} BY <2>1
  <2>12. Kept' BY <1>1, <1>5, <2>2, <2>11 DEF IInv, Kept, Living, Building, Ended
  <2>13. Scope' BY <2>2 DEF Scope, Living, Building
  <2>14. NoneOutlives' BY <2>2 DEF NoneOutlives
  <2>15. StrayOnlyIf'
    <3>1. mem[o] = "freed" => ub' # {} BY <1>5 DEF Uses, Freed
    <3>2. proc[o] = "reaped" => early \/ masked \/ twice \/ ub # {} \/ mem[o] = "freed"
      BY <1>1, <1>2, Pointer DEF IInv, Kept, Ended
    <3> QED BY <1>5, <2>1, <2>2, <3>1, <3>2 DEF IInv, StrayOnlyIf
  <2>16. UndefinedOnlyIf'
    <3>1. Lasting BY <1>5 DEF Lasting
    <3> QED BY <2>1, <3>1, UndefinedStep DEF IInv, Functions
  <2> QED BY <2>3, <2>4, <2>5, <2>6, <2>7, <2>8, <2>9, <2>10, <2>12, <2>13, <2>14, <2>15,
             <2>16 DEF IInv
<1>6. pid[o] <= 0 => mem[o] # "live" BY <1>2, Pointer
<1>7. ~Crash("~ForkProcess", {o}) =>
        /\ Uses("~ForkProcess", {o})
        /\ UNCHANGED <<mem, scope, pid, kill, next, list, hpid, suicide, exiting,
                       masked, chld, proc, inherits, early, during, twice, merged, hurt>>
        /\ \/ main'.pc = "crashed" /\ main' = Frame("crashed") /\ UNCHANGED <<term, stray>>
           \/ /\ term' = IF kill[o] /\ Alive(o) THEN term \cup {o} ELSE term
              /\ stray' = (stray \/ (kill[o] /\ proc[o] = "reaped"))
              /\ main' = [main EXCEPT !.pc = "reap"]
  <2>1. Frame("crashed").pc = "crashed" BY DEF Frame
  <2> QED BY <1>6, <2>1 DEF Delete, Free
<1> QED BY <1>4, <1>5, <1>7

\* waitpid returns when the child ended, or at once when it was reaped.
LEMMA ReapStep ==
  ASSUME IInv, Reap
  PROVE  IInv'
<1> PICK o : o = main.this OBVIOUS
<1>1. main.pc = "reap" /\ hpid = 0 /\ main.pc \in Deleting BY DEF Reap, At, Deleting
<1>2. /\ o \in Obj /\ mem[o] \in {"live", "freed"} /\ proc[o] # "none"
      /\ pid[o] = o \/ (mem[o] = "freed" /\ proc[o] = "reaped")
      /\ main.pc \notin Ended
  BY <1>1, DeletingThis
<1>3. Freed({o}) => Allowed("~ForkProcess")
  <2>1. ASSUME ~early, ~during PROVE {o} \in SUBSET ReachIn(next, list)
    BY <1>1, <1>2, <2>1 DEF IInv, Clean
  <2> QED BY <1>2, <2>1, CleanUse DEF Allowed
<1>4. CASE Crash("~ForkProcess", {o})
  <2>1. Freed({o}) BY <1>4 DEF Crash
  <2> QED BY <1>1, <1>3, <1>4, <2>1, CrashStep DEF Functions, Linking
<1>5. CASE /\ Uses("~ForkProcess", {o})
           /\ pid[o] > 0 => ~Alive(o)
           /\ proc' = IF pid[o] > 0 THEN [proc EXCEPT ![o] = "reaped"] ELSE proc
           /\ main' = [main EXCEPT !.pc = "find"]
           /\ UNCHANGED <<objects, hpid, suicide, exiting, masked, chld, term, inherits, ghosts>>
  <2>1. ub' = ub \/ (Allowed("~ForkProcess") /\ ub' = ub \cup {"~ForkProcess"})
    BY <1>3, <1>5 DEF Uses
  <2>2. UNCHANGED <<mem, scope, pid, kill, next, list, hpid, suicide, exiting, masked, chld,
                    term, inherits, early, during, twice, merged, stray, hurt>>
    BY <1>5 DEF objects, ghosts
  <2>3. proc' = [proc EXCEPT ![o] = "reaped"]
    <3>1. CASE pid[o] > 0 BY <1>5, <3>1
    <3>2. CASE ~(pid[o] > 0)
      <4>1. proc[o] = "reaped" BY <1>2, <3>2, Pointer
      <4> QED BY <1>5, <3>2, <4>1 DEF IInv, Basic
    <3> QED BY <3>1, <3>2
  <2>4. /\ main' \in Frames /\ main'.pc = "find" /\ main'.this = o
        /\ main'.caller = main.caller
        /\ main'.cur = main.cur /\ main'.pred = main.pred /\ main'.after = main.after
    BY <1>5 DEF IInv, Basic, Frames, Pcs
  <2>5. /\ \A q \in Obj : q # o => proc'[q] = proc[q]
        /\ proc'[o] = "reaped"
        /\ \A q \in Obj : Unreaped(q)' <=> Unreaped(q) /\ q # o
    BY <1>2, <2>3 DEF IInv, Basic, Unreaped
  <2>6. Basic' BY ZenonT(60), <1>2, <2>1, <2>2, <2>3, <2>4 DEF IInv, Basic
  <2>7. Order' BY <2>2 DEF IInv, Order
  <2>8. Objects' BY <1>1, <1>2, <2>2, <2>5 DEF IInv, Objects
  <2>9. Newest' BY <2>4 DEF Newest, Building
  <2>10. Pointers'
    <3>1. \A x \in Ptr : Linked(x) => Linked(x)'
      BY <2>2, <2>4, <2>5, Pointer DEF Linked, Building
    <3>2. \A x \in {main.cur, main.pred, main.after, main.this, 0} : x \in Ptr /\ Linked(x)
      BY <1>1, Pointer DEF IInv, Basic, Frames, Pointers, Linked
    <3>3. Linked(main.cur)' /\ Linked(main.pred)' /\ Linked(main.after)' /\ Linked(main.this)'
      BY <2>4, <3>1, <3>2
    <3>4. Linked(list)' /\ (\A q \in Obj : Linked(next[q])')
      BY <2>2, <3>1 DEF IInv, Basic, Pointers
    <3> QED BY <1>2, <2>4, <3>3, <3>4, Pointer DEF Pointers
  <2>11. Calls' BY <1>1, <1>2, <2>2, <2>4, <2>5, Pointer DEF IInv, Calls, Deleting
  <2>12. Phases' BY <1>1, <2>2, <2>4 DEF IInv, Phases, OfExit, OfSuicide, Deleting, Living, Building
  <2>13. Covered' BY <1>1, <2>2, <2>4, <2>5 DEF IInv, Covered, OfSuicide, Deleting, Linking
  <2>14. Clean' BY <1>1, <2>2, <2>4 DEF IInv, Clean, OnList, Deleting, Ended
  <2>15. ub' = {} => ub = {} BY <2>1
  <2>16. Kept' BY <1>1, <2>2, <2>4, <2>5, <2>15 DEF IInv, Kept, Living, Building, Ended
  <2>17. Scope' BY <2>4 DEF Scope, Living, Building
  <2>18. NoneOutlives' BY <2>4 DEF NoneOutlives
  <2>19. StrayOnlyIf' BY <2>1, <2>2 DEF IInv, StrayOnlyIf
  <2>20. UndefinedOnlyIf'
    <3>1. Lasting BY <2>2, <2>5 DEF Lasting
    <3> QED BY <2>1, <3>1, UndefinedStep DEF IInv, Functions
  <2> QED BY <2>6, <2>7, <2>8, <2>9, <2>10, <2>11, <2>12, <2>13, <2>14, <2>16, <2>17, <2>18,
             <2>19, <2>20 DEF IInv
<1> QED BY <1>4, <1>5 DEF Reap

\* An object on the list has a predecessor there, or is the first.
LEMMA FindStep ==
  ASSUME IInv, Find
  PROVE  IInv'
<1> PICK o : o = main.this OBVIOUS
<1> PICK before : before = {p \in ReachIn(next, list) : next[p] = o} OBVIOUS
<1> PICK path : path = (ReachIn(next, list) \ ReachIn(next, o)) \cup {o} OBVIOUS
<1>1. main.pc = "find" /\ hpid = 0 /\ main.pc \in Deleting BY DEF Find, At, Deleting
<1>2. /\ o \in Obj /\ mem[o] \in {"live", "freed"} /\ proc[o] = "reaped"
      /\ main.caller \in {"exit", "suicide"}
      /\ main.pc \notin Ended
  BY <1>1, DeletingThis DEF IInv, Calls
<1>3. next \in Older /\ list \in Ptr /\ next[o] \in Ptr /\ next[o] < o
  BY <1>2, NextOlder, Link DEF IInv, Basic
<1>4. Freed(path) => Allowed("~ForkProcess")
  <2>1. ASSUME ~early, ~during PROVE path \in SUBSET ReachIn(next, list)
    BY <1>1, <1>2, <2>1 DEF IInv, Clean
  <2> QED BY <1>2, <2>1, CleanUse DEF Allowed
<1>5. CASE Crash("~ForkProcess", path)
  <2>1. Freed(path) BY <1>5 DEF Crash
  <2> QED BY <1>1, <1>4, <1>5, <2>1, CrashStep DEF Functions, Linking
<1>6. ASSUME Uses("~ForkProcess", path),
             NEW p \in IF list = o THEN {0} ELSE IF before = {} THEN {o} ELSE before,
             main' = [main EXCEPT !.pc = "unlink", !.pred = p, !.after = next[o]],
             UNCHANGED <<objects, hpid, suicide, exiting, masked, children, ghosts>>
      PROVE  IInv'
  <2>1. ub' = ub \/ (Allowed("~ForkProcess") /\ ub' = ub \cup {"~ForkProcess"})
    BY <1>4, <1>6 DEF Uses
  <2>2. UNCHANGED <<mem, scope, pid, kill, next, list, hpid, suicide, exiting, masked, chld,
                    proc, term, inherits, early, during, twice, merged, stray, hurt>>
    BY <1>6 DEF objects, children, ghosts
  <2>3. /\ p = 0 \/ p = o \/ p \in ReachIn(next, list)
        /\ p = 0 => list = o
        /\ p \notin {0, o} => next[p] = o
        /\ o \in ReachIn(next, list) => p # o
    <3>1. CASE list = o BY <1>2, <1>6, <3>1, Pointer
    <3>2. CASE list # o /\ before = {}
      <4>1. o \notin ReachIn(next, list) BY <1>3, <3>2, ReachBefore
      <4> QED BY <1>2, <1>6, <3>2, <4>1, Pointer
    <3>3. CASE list # o /\ before # {}
      <4>1. p \in ReachIn(next, list) /\ next[p] = o BY <1>6, <3>3
      <4>2. p \in Obj BY <1>3, <4>1, ReachFirst
      <4>3. p # o /\ p # 0 BY <1>3, <4>1, <4>2, Link, Pointer
      <4> QED BY <4>1, <4>3
    <3> QED BY <3>1, <3>2, <3>3
  <2>4. p \in Ptr /\ Linked(p)
    <3>1. Linked(list) /\ Linked(o) /\ Linked(0) /\ Basic /\ Order /\ Pointers
      BY <1>1 DEF IInv, Pointers, Linked
    <3>2. \A q \in ReachIn(next, list) : Linked(q) /\ q \in Obj
      BY <1>3, <3>1, ReachLinked, ReachFirst
    <3> QED BY <1>2, <2>3, <3>1, <3>2, Pointer
  <2>5. /\ main' \in Frames /\ main'.pc = "unlink" /\ main'.this = o
        /\ main'.caller = main.caller
        /\ main'.cur = main.cur /\ main'.pred = p /\ main'.after = next[o]
    BY <1>3, <1>6, <2>4 DEF IInv, Basic, Frames, Pcs
  <2>6. Basic' BY ZenonT(60), <2>1, <2>2, <2>5 DEF IInv, Basic
  <2>7. Order' /\ Objects' BY <2>2 DEF IInv, Order, Objects, Unreaped
  <2>8. Newest' BY <2>5 DEF Newest, Building
  <2>9. Pointers'
    <3>1. \A x \in Ptr : Linked(x) => Linked(x)'
      BY <2>2, <2>5, Pointer DEF Linked, Building
    <3>2. \A x \in {main.cur, p, next[o], o} : x \in Ptr /\ Linked(x)
      BY <1>1, <1>2, <1>3, <2>4, Pointer DEF IInv, Basic, Frames, Pointers
    <3>3. Linked(main.cur)' /\ Linked(main.pred)' /\ Linked(main.after)' /\ Linked(main.this)'
      BY <2>5, <3>1, <3>2
    <3>4. Linked(list)' /\ (\A q \in Obj : Linked(next[q])')
      BY <2>2, <3>1 DEF IInv, Basic, Pointers
    <3> QED BY <1>2, <2>5, <3>3, <3>4, Pointer DEF Pointers
  <2>10. Calls' BY <1>1, <1>2, <1>3, <2>2, <2>3, <2>5, Pointer DEF IInv, Calls, Deleting
  <2>11. Phases' BY <1>1, <2>2, <2>5 DEF IInv, Phases, OfExit, OfSuicide, Deleting, Living, Building
  <2>12. Covered'
    <3>1. ReachIn(next, o) = {o} \cup ReachIn(next, next[o]) BY <1>2, <1>3, ReachUnfold
    <3> QED BY <1>1, <1>2, <2>2, <2>5, <3>1 DEF IInv, Covered, OfSuicide, Deleting, Linking, Unreaped
  <2>13. Clean'
    BY <1>1, <2>2, <2>3, <2>5 DEF IInv, Clean, OnList, Deleting, Ended
  <2>14. ub' = {} => ub = {} BY <2>1
  <2>15. Kept' BY <1>1, <2>2, <2>5, <2>14 DEF IInv, Kept, Living, Building, Ended
  <2>16. Scope' BY <2>5 DEF Scope, Living, Building
  <2>17. NoneOutlives' BY <2>5 DEF NoneOutlives
  <2>18. StrayOnlyIf' BY <2>1, <2>2 DEF IInv, StrayOnlyIf
  <2>19. UndefinedOnlyIf'
    <3>1. Lasting BY <2>2 DEF Lasting
    <3> QED BY <2>1, <3>1, UndefinedStep DEF IInv, Functions
  <2> QED BY <2>6, <2>7, <2>8, <2>9, <2>10, <2>11, <2>12, <2>13, <2>15, <2>16, <2>17, <2>18,
             <2>19 DEF IInv
<1>7. /\ o = main.this
      /\ path = (Reach(list) \ Reach(main.this)) \cup {main.this}
      /\ before = {p \in Reach(list) : next[p] = main.this}
  BY ReachIsIn
<1>8. \/ Crash("~ForkProcess", path)
      \/ /\ Uses("~ForkProcess", path)
         /\ \E p \in IF list = o THEN {0} ELSE IF before = {} THEN {o} ELSE before :
              main' = [main EXCEPT !.pc = "unlink", !.pred = p, !.after = next[o]]
         /\ UNCHANGED <<objects, hpid, suicide, exiting, masked, children, ghosts>>
  BY <1>7 DEF Find
<1> QED BY <1>5, <1>6, <1>8

\* When the one before o is made to lead to a, what was behind it is there
\* still, or was behind o; and then what is behind a is there.
Redirected(nx, nx2, l, o, a) ==
  \A c \in ReachIn(nx, l) :
    \/ c \in ReachIn(nx2, l)
    \/ c \in ReachIn(nx, o) /\ ReachIn(nx, a) \subseteq ReachIn(nx2, l)

\* The link of p, which led to o, is made to lead behind it.
LEMMA ReachRedirect ==
  ASSUME NEW nx \in Older, NEW nx2 \in Older, NEW l \in Ptr, NEW p \in Obj,
         NEW o \in Obj, NEW a \in Ptr, nx[p] = o, a < o, nx2 = [nx EXCEPT ![p] = a]
  PROVE  /\ \A b \in Ptr : b <= o => ReachIn(nx2, b) = ReachIn(nx, b)
         /\ Redirected(nx, nx2, l, o, a)
<1>1. o < p BY Link
<1>2. nx2[p] = a /\ \A q \in Obj : q # p => nx2[q] = nx[q] BY DEF Older
<1>3. ASSUME NEW b \in Ptr, b <= o PROVE ReachIn(nx2, b) = ReachIn(nx, b)
  <2>1. b < p /\ p \in Int BY <1>1, <1>3, Pointer
  <2>2. \A q \in Obj : q < p => nx2[q] = nx[q] BY <1>2, Pointer
  <2> QED BY <2>1, <2>2, ReachBelow
<1>4. CASE p \notin ReachIn(nx, l)
  <2>1. \A q \in ReachIn(nx, l) : nx2[q] = nx[q] BY <1>2, <1>4, ReachFirst
  <2>2. ReachIn(nx2, l) = ReachIn(nx, l) BY <2>1, ReachSame
  <2> QED BY <1>3, <2>2 DEF Redirected
<1>5. CASE p \in ReachIn(nx, l)
  <2> DEFINE S == {c \in ReachIn(nx, l) : c \in ReachIn(nx2, l) \/ c \in ReachIn(nx, o)}
  <2>0. o \in Ptr BY Pointer
  <2>1. S \in SUBSET Obj /\ l \in S \cup {0} BY ReachFirst, Pointer
  <2>2. ASSUME NEW x \in S, nx[x] # 0 PROVE nx[x] \in S
    <3>1. x \in Obj /\ nx[x] \in ReachIn(nx, l) BY <2>1, <2>2, ReachNext
    <3>2. CASE x \in ReachIn(nx, o) BY <2>0, <2>2, <3>1, <3>2, ReachNext
    <3>3. CASE x \in ReachIn(nx2, l) /\ x # p
      <4>1. nx2[x] = nx[x] BY <1>2, <3>1, <3>3
      <4> QED BY <2>2, <3>1, <3>3, <4>1, ReachNext
    <3>4. CASE x = p
      <4>1. o \in ReachIn(nx, o) BY <2>0, ReachFirst, Pointer
      <4> QED BY <3>1, <3>4, <4>1
    <3> QED BY <3>2, <3>3, <3>4
  <2>3. ReachIn(nx, l) \subseteq S BY <2>1, <2>2, ReachLeast
  <2>4. p \in ReachIn(nx2, l)
    <3>1. p \notin ReachIn(nx, o)
      <4>1. SUFFICES ASSUME p \in ReachIn(nx, o) PROVE FALSE OBVIOUS
      <4>2. p <= o BY <2>0, <4>1, ReachOlder
      <4> QED BY <1>1, <4>2, Pointer
    <3> QED BY <1>5, <2>3, <3>1
  <2>5. ReachIn(nx, a) \subseteq ReachIn(nx2, l)
    <3>0. a <= o BY Pointer
    <3>1. ReachIn(nx2, a) = ReachIn(nx, a) BY <1>3, <3>0
    <3>2. CASE a = 0 BY <3>2, ReachNone
    <3>3. CASE a # 0
      <4>1. a \in ReachIn(nx2, l) BY <1>2, <2>4, <3>3, ReachNext
      <4> QED BY <3>1, <4>1, ReachTrans
    <3> QED BY <3>2, <3>3
  <2> QED BY <1>3, <2>3, <2>5 DEF Redirected
<1> QED BY <1>4, <1>5

\* The object leaves the list, and with it only itself, unless the reaper
\* changed the list since the search: even so no other child is lost.
LEMMA UnlinkStep ==
  ASSUME IInv, Unlink
  PROVE  IInv'
<1> PICK o : o = main.this OBVIOUS
<1> PICK p : p = main.pred OBVIOUS
<1> PICK a : a = main.after OBVIOUS
<1>1. main.pc = "unlink" /\ hpid = 0 /\ main.pc \in Deleting BY DEF Unlink, At, Deleting
<1>2. /\ o \in Obj /\ mem[o] \in {"live", "freed"} /\ proc[o] = "reaped"
      /\ main.caller \in {"exit", "suicide"}
      /\ main.pc \notin Ended
      /\ a < o /\ (p = 0 => list = o) /\ (p \notin {0, o} => next[p] = o)
  BY <1>1, DeletingThis DEF IInv, Calls
<1>3. /\ next \in Older /\ list \in Ptr /\ a \in Ptr /\ p \in Ptr
      /\ Linked(a) /\ Linked(p) /\ Linked(o) /\ Linked(main.cur) /\ main.cur \in Ptr
  BY <1>1, NextOlder DEF IInv, Basic, Frames, Pointers
<1>4. ASSUME ~early, ~during
      PROVE  o \in ReachIn(next, list) /\ a = next[o] /\ p # o
               /\ (p # 0 => p \in ReachIn(next, list))
  BY <1>1, <1>2, <1>4 DEF IInv, Clean, OnList
<1>5. Freed({p, o} \ {0}) => Allowed("~ForkProcess")
  <2>1. ASSUME ~early, ~during PROVE {p, o} \ {0} \in SUBSET ReachIn(next, list)
    BY <1>4, <2>1
  <2> QED BY <1>2, <2>1, CleanUse DEF Allowed
<1>6. CASE Crash("~ForkProcess", {p} \ {0})
  <2>1. Freed({p} \ {0}) BY <1>6 DEF Crash
  <2>2. Freed({p, o} \ {0}) BY <2>1 DEF Freed
  <2> QED BY <1>1, <1>5, <1>6, <2>2, CrashStep DEF Functions, Linking
<1>7. CASE /\ Uses("~ForkProcess", {p, o} \ {0})
           /\ list' = IF p = 0 THEN main.after ELSE list
           /\ next' = IF p \notin {0, o} THEN [next EXCEPT ![p] = main.after] ELSE next
           /\ Free(o)
           /\ UNCHANGED <<scope, pid, kill, hpid, suicide, exiting, masked, children, ghosts>>
  <2>1. ub' = ub \/ (Allowed("~ForkProcess") /\ ub' = ub \cup {"~ForkProcess"})
    BY <1>5, <1>7 DEF Uses
  <2>2. UNCHANGED <<scope, pid, kill, hpid, suicide, exiting, masked, chld,
                    proc, term, inherits, early, during, twice, merged, stray, hurt>>
    BY <1>7 DEF children, ghosts
  <2>3. /\ \A q \in Obj : q # o => mem'[q] = mem[q]
        /\ mem' \in [Obj -> {"none", "live", "freed"}]
        /\ mem'[o] = "freed"
    BY <1>2, <1>7 DEF Free, IInv, Basic
  <2>4. /\ main' \in Frames
        /\ \/ main'.pc = "crashed" /\ main'.cur = 0
           \/ main'.pc = "return" /\ main.caller = "exit" /\ main'.cur = main.cur
           \/ main'.pc = "suicide" /\ main.caller = "suicide" /\ main'.cur = main.cur
        /\ main'.pred = 0 /\ main'.after = 0
    BY <1>2, <1>3, <1>7, Pointer DEF Free, Frame, Frames, Pcs
  <2>5. /\ next' \in [Obj -> Ptr] /\ list' \in {a, list}
        /\ \A q \in Obj : next'[q] = next[q] \/ (q = p /\ next[q] = o /\ next'[q] = a)
    BY <1>2, <1>3, <1>7 DEF IInv, Basic
  <2>6. Basic' BY ZenonT(60), <1>3, <2>1, <2>2, <2>3, <2>4, <2>5 DEF IInv, Basic
  <2>7. Order'
    <3>1. ASSUME NEW q \in Obj PROVE next'[q] < q
      <4>1. next[q] < q BY <1>3, Link
      <4>2. CASE next'[q] = next[q] BY <4>1, <4>2
      <4>3. CASE next[q] = o /\ next'[q] = a
        <5>1. a < q BY <1>2, <1>3, <4>1, <4>3, Pointer
        <5> QED BY <4>3, <5>1
      <4> QED BY <2>5, <4>2, <4>3
    <3> QED BY <3>1 DEF Order
  <2>8. next' \in Older BY <2>6, <2>7, NextOlderNext
  <2>9. \/ p \in {0, o} /\ next' = next
        \/ p \in Obj /\ next[p] = o /\ next' = [next EXCEPT ![p] = a] /\ list' = list
    BY <1>2, <1>3, <1>7, Pointer
  <2>10. \A b \in Ptr : b <= o => ReachIn(next', b) = ReachIn(next, b)
    BY <1>2, <1>3, <2>8, <2>9, ReachRedirect
  <2>11. ASSUME ~early, NEW c \in Obj, Unreaped(c)
         PROVE  c \in ReachIn(next', list')
    <3>1. c \in ReachIn(next, list) BY <1>1, <2>11 DEF IInv, Covered, Linking
    <3>2. c \in ReachIn(next, o) => c \in ReachIn(next, a)
      BY <1>1, <2>11 DEF IInv, Covered
    <3>3. CASE p = 0
      <4>1. list = o /\ list' = a /\ next' = next BY <1>2, <1>7, <3>3
      <4> QED BY <3>1, <3>2, <4>1
    <3>4. CASE p = o
      <4>1. list' = list /\ next' = next BY <1>2, <1>7, <3>4, Pointer
      <4> QED BY <3>1, <4>1
    <3>5. CASE p \in Obj /\ next[p] = o /\ next' = [next EXCEPT ![p] = a] /\ list' = list
      <4>1. Redirected(next, next', list, o, a)
        BY <1>2, <1>3, <2>8, <3>5, ReachRedirect
      <4> QED BY <3>1, <3>2, <3>5, <4>1 DEF Redirected
    <3> QED BY <2>9, <3>3, <3>4, <3>5
  <2>12. ASSUME ~early, ~during
         PROVE  /\ ReachIn(next', list') = ReachIn(next, list) \ {o}
                /\ next'[o] = next[o]
    <3>1. o \in ReachIn(next, list) /\ a = next[o] /\ p # o
      BY <1>4, <2>12
    <3>2. next'[o] = next[o] BY <1>2, <2>5, <3>1
    <3>3. CASE p = 0
      <4>1. list = o /\ list' = a /\ next' = next BY <1>2, <1>7, <3>3
      <4>2. ReachIn(next, o) = {o} \cup ReachIn(next, a) /\ o \notin ReachIn(next, a)
        BY <1>2, <1>3, <3>1, ReachUnfold
      <4> QED BY <3>2, <4>1, <4>2
    <3>4. CASE p # 0
      <4>1. p \in ReachIn(next, list) /\ p \in Obj /\ next[p] = o /\ list' = list
            /\ next' = [next EXCEPT ![p] = a]
        BY <1>2, <1>3, <1>4, <1>7, <2>12, <3>1, <3>4, Pointer
      <4>2. Round(next, next', o, list)
        BY <1>3, <2>5, <3>1, ReachFirst DEF Round
      <4>3. list # o
        <5>1. SUFFICES ASSUME list = o PROVE FALSE OBVIOUS
        <5>2. p <= o BY <1>3, <4>1, <5>1, ReachOlder
        <5>3. o < p BY <1>3, <4>1, Link
        <5> QED BY <1>2, <4>1, <5>2, <5>3, Pointer
      <4>4. \A q \in ReachIn(next, list) : next[q] = o => next'[q] = next[o]
        <5>1. \A q \in ReachIn(next, list) : next[q] = o => q = p
          BY <1>2, <1>3, <4>1, ReachOneBefore
        <5>2. next'[p] = a BY <1>3, <4>1 DEF Older
        <5> QED BY <3>1, <5>1, <5>2
      <4>5. o \notin ReachIn(next', list)
        BY <1>2, <1>3, <2>8, <4>2, <4>3, <4>4, RoundMisses
      <4>6. /\ ReachIn(next', list) \subseteq ReachIn(next, list)
            /\ ReachIn(next, list) \ {o} \subseteq ReachIn(next', list)
        BY <1>2, <1>3, <2>8, <4>2, RoundReaches
      <4> QED BY <3>2, <4>1, <4>5, <4>6
    <3> QED BY <3>3, <3>4
  <2>13. Objects' BY ZenonT(60), <1>1, <1>2, <2>2, <2>3 DEF IInv, Basic, Objects, Unreaped
  <2>14. Newest' BY <2>4 DEF Newest, Building
  <2>15. Pointers'
    <3>1. \A x \in Ptr : Linked(x) => Linked(x)'
      <4>1. SUFFICES ASSUME NEW x \in Obj, Linked(x) PROVE Linked(x)'
        BY Pointer DEF Linked
      <4>2. CASE x # o BY <2>2, <2>3, <2>4, <4>1, <4>2 DEF Linked, Building
      <4>3. CASE x = o BY <1>2, <2>2, <2>3, <2>4, <4>3 DEF Linked, Building
      <4> QED BY <4>2, <4>3
    <3>2. Linked(0)' BY DEF Linked
    <3>3. Linked(main.cur)' /\ Linked(main.pred)' /\ Linked(main.after)'
      BY <1>3, <2>4, <3>1, <3>2, Pointer
    <3>4. Linked(list)' BY <1>3, <2>5, <3>1 DEF IInv, Pointers
    <3>5. \A q \in Obj : Linked(next[q])'
      <4>1. \A q \in Obj : next[q] \in Ptr /\ Linked(next[q])
        BY <1>3, Link DEF IInv, Pointers
      <4>2. \A q \in Obj : next'[q] \in Ptr /\ Linked(next'[q])
        BY <1>3, <2>5, <4>1
      <4> QED BY <3>1, <4>2
    <3>6. main'.pc \notin Deleting BY <2>4 DEF Deleting
    <3> QED BY <3>3, <3>4, <3>5, <3>6 DEF Pointers
  <2>16. Calls' BY <1>1, <1>2, <2>2, <2>3, <2>4, Pointer DEF IInv, Calls, Deleting
  <2>17. Phases' BY <1>1, <2>2, <2>4 DEF IInv, Phases, OfExit, OfSuicide, Deleting, Living, Building, Ended
  <2>18. Covered'
    <3>1. SUFFICES ASSUME ~early
                   PROVE  main'.pc = "suicide" =>
                            \A c \in Obj : Unreaped(c) => c \in ReachIn(next', main'.cur)
      BY <1>1, <2>2, <2>4, <2>11 DEF Covered, OfSuicide, Deleting, Linking, Unreaped
    <3>2. SUFFICES ASSUME main'.pc = "suicide", NEW c \in Obj, Unreaped(c)
                   PROVE  c \in ReachIn(next', main'.cur)
      OBVIOUS
    <3>3. main.caller = "suicide" /\ main'.cur = main.cur /\ main.cur < o
      BY <1>1, <2>4, <3>2 DEF IInv, Calls
    <3>4. c \in ReachIn(next, main.cur)
      BY <1>1, <3>1, <3>2, <3>3 DEF IInv, Covered, OfSuicide
    <3>5. ReachIn(next', main.cur) = ReachIn(next, main.cur)
      BY <1>2, <1>3, <2>10, <3>3, Pointer
    <3> QED BY <3>3, <3>4, <3>5
  <2>19. Clean'
    <3>1. SUFFICES ASSUME ~early, ~during, main'.pc \notin Ended PROVE Clean'
      BY <2>2 DEF Clean
    <3>2. ReachIn(next', list') = ReachIn(next, list) \ {o} /\ next'[o] = next[o]
      BY <2>12, <3>1
    <3>3. o \in ReachIn(next, list) /\ ReachIn(next, list) \subseteq Obj
      BY <1>3, <1>4, <3>1, ReachFirst
    <3>4. \A x \in ReachIn(next', list') : mem'[x] = "live"
      BY <1>2, <2>3, <3>1, <3>2, <3>3 DEF IInv, Clean
    <3>5. main'.pc = "return" => OnList(next[main.cur])'
      <4>1. SUFFICES ASSUME main'.pc = "return", next[o] # 0
                     PROVE  next[o] \in ReachIn(next', list') /\ main'.cur = o
        BY <1>1, <2>4, <3>2 DEF OnList, IInv, Calls
      <4>2. main.caller = "exit" /\ main'.cur = main.cur /\ main.cur = o
        BY <1>1, <2>4, <4>1 DEF IInv, Calls
      <4>3. next[o] \in ReachIn(next, list) /\ next[o] # o
        BY <1>2, <1>3, <3>3, <4>1, ReachNext, Link
      <4> QED BY <3>2, <4>2, <4>3
    <3>6. main'.pc = "suicide" => OnList(main.cur)'
      <4>1. SUFFICES ASSUME main'.pc = "suicide", main'.cur # 0
                     PROVE  main'.cur \in ReachIn(next', list')
        BY DEF OnList
      <4>2. main.caller = "suicide" /\ main'.cur = main.cur /\ main.cur < o
        BY <1>1, <2>4, <4>1 DEF IInv, Calls
      <4>3. main.cur \in ReachIn(next, list)
        BY <1>1, <1>2, <3>1, <4>1, <4>2 DEF IInv, Clean, OnList
      <4>4. main.cur # o BY <1>2, <1>3, <4>2, Pointer
      <4> QED BY <3>2, <4>2, <4>3, <4>4
    <3> QED BY <2>4, <3>4, <3>5, <3>6 DEF Clean, Deleting, Ended
  <2>20. ub' = {} => ub = {} BY <2>1
  <2>21. Kept' BY <1>1, <1>2, <2>2, <2>3, <2>4, <2>20 DEF IInv, Kept, Living, Building, Ended
  <2>22. Scope' BY <2>4 DEF Scope, Living, Building
  <2>23. NoneOutlives' BY <2>4 DEF NoneOutlives
  <2>24. StrayOnlyIf' BY <2>1, <2>2 DEF IInv, StrayOnlyIf
  <2>25. UndefinedOnlyIf'
    <3>1. Lasting BY <2>2, <2>3 DEF Lasting
    <3> QED BY <2>1, <3>1, UndefinedStep DEF IInv, Functions
  <2> QED BY <2>6, <2>7, <2>13, <2>14, <2>15, <2>16, <2>17, <2>18, <2>19, <2>21, <2>22, <2>23,
             <2>24, <2>25 DEF IInv
<1> QED BY <1>6, <1>7 DEF Unlink

------------------------------------------------------------------------------
(* ~KillForks.                                                             *)

\* ~KillForks looks at one object of its walk (fork.cpp:37-39).
LEMMA KillLoopStep ==
  ASSUME IInv, KillLoop
  PROVE  IInv'
<1> PICK o : o = main.cur OBVIOUS
<1>1. main.pc = "exit" /\ hpid = 0 /\ main.pc \notin Ended BY DEF KillLoop, At, Ended
<1>2. /\ o \in Ptr /\ Linked(o) /\ next \in Older /\ list \in Ptr
      /\ \A q \in Obj : next[q] \in Ptr /\ Linked(next[q])
  BY NextOlder, Link DEF IInv, Basic, Frames, Pointers
<1>3. ASSUME ~early, ~during PROVE o # 0 => o \in ReachIn(next, list)
  BY <1>1, <1>3 DEF IInv, Clean, OnList
<1>4. Freed({o} \ {0}) => Allowed("~KillForks")
  <2>1. ASSUME ~early, ~during PROVE {o} \ {0} \in SUBSET ReachIn(next, list)
    BY <1>3, <2>1
  <2> QED BY <1>1, <2>1, CleanUse DEF Allowed
<1>5. CASE Crash("~KillForks", {o} \ {0})
  <2>1. Freed({o} \ {0}) BY <1>5 DEF Crash
  <2> QED BY <1>1, <1>4, <1>5, <2>1, CrashStep DEF Functions, Linking
<1>6. CASE /\ Uses("~KillForks", {o} \ {0})
           /\ main' = IF o = 0 THEN Frame("wait")
                      ELSE IF kill[o]
                      THEN [main EXCEPT !.pc = "delete", !.this = o, !.caller = "exit"]
                      ELSE [main EXCEPT !.cur = next[o]]
           /\ UNCHANGED <<objects, hpid, suicide, exiting, masked, children, ghosts>>
  <2>1. ub' = ub \/ (Allowed("~KillForks") /\ ub' = ub \cup {"~KillForks"})
    BY <1>4, <1>6 DEF Uses
  <2>2. UNCHANGED <<mem, scope, pid, kill, next, list, hpid, suicide, exiting, masked, chld,
                    proc, term, inherits, early, during, twice, merged, stray, hurt>>
    BY <1>6 DEF objects, children, ghosts
  <2>3. /\ main' \in Frames
        /\ \/ main'.pc = "wait" /\ main'.cur = 0
           \/ main'.pc = "delete" /\ main'.cur = o /\ main'.this = o /\ main'.caller = "exit"
              /\ o # 0 /\ kill[o]
           \/ main'.pc = "exit" /\ o # 0 /\ main'.cur = next[o]
        /\ main'.pred \in {main.pred, 0} /\ main'.after \in {main.after, 0}
    <3>1. CASE o = 0 BY <1>6, <3>1, Pointer DEF Frame, Frames, Pcs
    <3>2. CASE o # 0 /\ kill[o] BY <1>1, <1>2, <1>6, <3>2 DEF IInv, Basic, Frames, Pcs
    <3>3. CASE o # 0 /\ ~kill[o]
      <4>1. next[o] \in Ptr BY <1>2, <3>3, Pointer
      <4> QED BY <1>1, <1>6, <3>3, <4>1 DEF IInv, Basic, Frames, Pcs
    <3> QED BY <3>1, <3>2, <3>3
  <2>4. Basic' BY ZenonT(60), <2>1, <2>2, <2>3 DEF IInv, Basic
  <2>5. Order' /\ Objects' BY <2>2 DEF IInv, Order, Objects, Unreaped
  <2>6. Newest' BY <2>3 DEF Newest, Building
  <2>7. Pointers'
    <3>1. \A x \in Ptr : Linked(x) => Linked(x)'
      BY <2>2, <2>3 DEF Linked, Building
    <3>2. \A x \in {main.pred, main.after, 0} : x \in Ptr /\ Linked(x)
      BY Pointer DEF IInv, Basic, Frames, Pointers, Linked
    <3>3. main'.cur \in Ptr /\ Linked(main'.cur)
      BY <1>2, <2>3, <3>2, Pointer
    <3>4. Linked(main.cur)' /\ Linked(main.pred)' /\ Linked(main.after)'
      BY <2>3, <3>1, <3>2, <3>3
    <3>5. Linked(list)' /\ (\A q \in Obj : Linked(next[q])')
      BY <2>2, <3>1 DEF IInv, Basic, Pointers
    <3>6. main'.pc \in Deleting => main'.this # 0 /\ Linked(main.this)'
      BY <1>2, <2>3, <3>1 DEF Deleting
    <3> QED BY <3>4, <3>5, <3>6 DEF Pointers
  <2>8. Calls' BY <2>2, <2>3 DEF Calls, Deleting
  <2>9. Phases' BY <1>1, <2>2, <2>3 DEF IInv, Phases, OfExit, OfSuicide, Deleting, Living, Building, Ended
  <2>10. Covered' BY <1>1, <2>2, <2>3 DEF IInv, Covered, OfSuicide, Deleting, Linking, Unreaped
  <2>11. Clean'
    <3>1. ASSUME ~early, ~during, o # 0, next[o] # 0 PROVE next[o] \in ReachIn(next, list)
      BY <1>2, <1>3, <3>1, ReachNext
    <3> QED BY <1>1, <1>3, <2>2, <2>3, <3>1 DEF IInv, Clean, OnList, Deleting, Ended
  <2>12. ub' = {} => ub = {} BY <2>1
  <2>13. Kept' BY <1>1, <2>2, <2>3, <2>12 DEF IInv, Kept, Living, Building, Ended
  <2>14. Scope' BY <2>3 DEF Scope, Living, Building
  <2>15. NoneOutlives' BY <2>3 DEF NoneOutlives
  <2>16. StrayOnlyIf' BY <2>1, <2>2 DEF IInv, StrayOnlyIf
  <2>17. UndefinedOnlyIf'
    <3>1. Lasting BY <2>2 DEF Lasting
    <3> QED BY <2>1, <3>1, UndefinedStep DEF IInv, Functions
  <2> QED BY <2>4, <2>5, <2>6, <2>7, <2>8, <2>9, <2>10, <2>11, <2>13, <2>14, <2>15, <2>16,
             <2>17 DEF IInv
<1> QED BY <1>5, <1>6 DEF KillLoop

\* The object that it goes on from is the one it has deleted.
LEMMA KillNextStep ==
  ASSUME IInv, KillNext
  PROVE  IInv'
<1> PICK o : o = main.cur OBVIOUS
<1>1. main.pc = "return" /\ hpid = 0 BY DEF KillNext, At
<1>2. /\ o \in Obj /\ kill[o] /\ mem[o] = "freed"
      /\ next[o] \in Ptr /\ Linked(next[o])
  <2>1. o \in Ptr /\ o # 0 /\ kill[o] /\ mem[o] = "freed"
    BY <1>1 DEF IInv, Basic, Frames, Calls
  <2>2. o \in Obj BY <2>1, Pointer
  <2> QED BY <2>1, <2>2, NextOlder, Link DEF IInv, Pointers
<1>3. Freed({o}) /\ Allowed("~KillForks") BY <1>2 DEF Freed, Allowed
<1>4. CASE Crash("~KillForks", {o})
  BY <1>1, <1>3, <1>4, CrashStep DEF Functions, Linking
<1>5. CASE /\ Uses("~KillForks", {o})
           /\ main' = [Frame("exit") EXCEPT !.cur = next[o]]
           /\ UNCHANGED <<objects, hpid, suicide, exiting, masked, children, ghosts>>
  <2>1. ub' = ub \cup {"~KillForks"} BY <1>3, <1>5 DEF Uses
  <2>2. UNCHANGED <<mem, scope, pid, kill, next, list, hpid, suicide, exiting, masked, chld,
                    proc, term, inherits, early, during, twice, merged, stray, hurt>>
    BY <1>5 DEF objects, children, ghosts
  <2>3. /\ main' \in Frames /\ main'.pc = "exit" /\ main'.cur = next[o]
        /\ main'.pred = 0 /\ main'.after = 0
    BY <1>2, <1>5, Pointer DEF Frame, Frames, Pcs
  <2>4. Basic' BY <2>1, <2>2, <2>3 DEF IInv, Basic
  <2>5. Order' /\ Objects' BY <2>2 DEF IInv, Order, Objects, Unreaped
  <2>6. Newest' BY <2>3 DEF Newest, Building
  <2>7. Pointers'
    <3>1. \A x \in Ptr : Linked(x) => Linked(x)'
      BY <2>2, <2>3 DEF Linked, Building
    <3>2. Linked(main.cur)' /\ Linked(main.pred)' /\ Linked(main.after)'
      BY <1>2, <2>3, <3>1 DEF Linked
    <3>3. Linked(list)' /\ (\A q \in Obj : Linked(next[q])')
      BY <2>2, <3>1 DEF IInv, Basic, Pointers
    <3> QED BY <2>3, <3>2, <3>3 DEF Pointers, Deleting
  <2>8. Calls' BY <2>3 DEF Calls, Deleting
  <2>9. Phases' BY <1>1, <2>2, <2>3 DEF IInv, Phases, OfExit, OfSuicide, Deleting, Living, Building, Ended
  <2>10. Covered' BY <1>1, <2>2, <2>3 DEF IInv, Covered, OfSuicide, Deleting, Linking, Unreaped
  <2>11. Clean' BY <1>1, <2>2, <2>3 DEF IInv, Clean, OnList, Deleting, Ended
  <2>12. Kept' BY <2>1, <2>3 DEF Kept, Living, Building
  <2>13. Scope' BY <2>3 DEF Scope, Living, Building
  <2>14. NoneOutlives' BY <2>3 DEF NoneOutlives
  <2>15. StrayOnlyIf' BY <2>1 DEF StrayOnlyIf
  <2>16. UndefinedOnlyIf'
    <3>1. Lasting BY <2>2 DEF Lasting
    <3> QED BY <1>3, <2>1, <3>1, UndefinedStep DEF IInv, Functions
  <2> QED BY <2>4, <2>5, <2>6, <2>7, <2>8, <2>9, <2>10, <2>11, <2>12, <2>13, <2>14, <2>15,
             <2>16 DEF IInv
<1> QED BY <1>4, <1>5 DEF KillNext

\* The loop ends with the list empty, and then no child is left: the list
\* covers them; or because wait says so.
LEMMA WaitAllStep ==
  ASSUME IInv, WaitAll
  PROVE  IInv'
<1>1. /\ UNCHANGED <<mem, scope, pid, kill, next, list, hpid, suicide, exiting, masked, chld,
                     term, inherits, early, during, twice, merged, stray, hurt, ub>>
      /\ main.pc = "wait" /\ hpid = 0
  BY DEF WaitAll, At, objects, ghosts
<1>2. /\ main' \in Frames /\ main'.pc \in {"wait", "gone"} /\ main'.cur \in {main.cur, 0}
      /\ main'.pred \in {main.pred, 0} /\ main'.after \in {main.after, 0}
      /\ main'.pc = "gone" => proc' = proc /\ (list = 0 \/ NoChild)
  <2>1. CASE main' = main BY <1>1, <2>1 DEF IInv, Basic
  <2>2. CASE main' = Frame("gone") /\ proc' = proc /\ (list = 0 \/ NoChild)
    BY <2>2, Pointer DEF Frame, Frames, Pcs
  <2> QED BY <2>1, <2>2 DEF WaitAll
<1>3. \/ proc' = proc
      \/ \E c \in Obj : proc[c] = "zombie" /\ proc' = [proc EXCEPT ![c] = "reaped"]
  BY DEF WaitAll
<1>4. /\ proc' \in [Obj -> {"none", "starting", "running", "zombie", "reaped"}]
      /\ \A q \in Obj : \/ proc'[q] = proc[q]
                        \/ Unreaped(q) /\ proc'[q] = "reaped"
      /\ \A q \in Obj : Unreaped(q)' => Unreaped(q)
  BY <1>3 DEF IInv, Basic, Unreaped
<1>5. Basic' BY <1>1, <1>2, <1>4 DEF IInv, Basic
<1>6. Order' BY <1>1 DEF IInv, Order
<1>7. Objects' BY <1>1, <1>4 DEF IInv, Objects, Unreaped
<1>8. Newest' BY <1>2 DEF Newest, Building
<1>9. Pointers'
  <2>1. \A x \in Ptr : Linked(x) => Linked(x)'
    BY <1>1, <1>2, <1>4, Pointer DEF Linked, Building
  <2>2. \A x \in {main.cur, main.pred, main.after, 0} : x \in Ptr /\ Linked(x)
    BY Pointer DEF IInv, Basic, Frames, Pointers, Linked
  <2>3. Linked(main.cur)' /\ Linked(main.pred)' /\ Linked(main.after)'
    BY <1>2, <2>1, <2>2
  <2>4. Linked(list)' /\ (\A q \in Obj : Linked(next[q])')
    BY <1>1, <2>1 DEF IInv, Basic, Pointers
  <2> QED BY <1>2, <2>3, <2>4 DEF Pointers, Deleting
<1>10. Calls' BY <1>2 DEF Calls, Deleting
<1>11. Phases' BY <1>1, <1>2 DEF IInv, Phases, OfExit, OfSuicide, Deleting, Living, Building, Ended
<1>12. Covered' BY <1>1, <1>2, <1>4 DEF IInv, Covered, OfSuicide, Deleting, Linking
<1>13. Clean' BY <1>1, <1>2 DEF IInv, Clean, Deleting, Ended
<1>14. Kept' BY <1>2 DEF Kept, Ended
<1>15. Scope' BY <1>2 DEF Scope, Living, Building
<1>16. NoneOutlives'
  <2>1. SUFFICES ASSUME ~early, main'.pc = "gone", NEW c \in Obj PROVE ~Unreaped(c)
    BY <1>1, <1>2 DEF NoneOutlives, Unreaped, Alive
  <2>2. CASE list = 0
    <3>1. ReachIn(next, list) = {} BY <2>2, NextOlder, ReachNone DEF IInv
    <3> QED BY <1>1, <2>1, <3>1 DEF IInv, Covered, Linking
  <2>3. CASE NoChild BY <2>3 DEF NoChild, Unreaped
  <2> QED BY <1>2, <2>1, <2>2, <2>3
<1>17. StrayOnlyIf' BY <1>1 DEF IInv, StrayOnlyIf
<1>18. UndefinedOnlyIf' BY <1>1, <1>4 DEF IInv, UndefinedOnlyIf, Unreaped
<1> QED BY <1>5, <1>6, <1>7, <1>8, <1>9, <1>10, <1>11, <1>12, <1>13, <1>14, <1>15, <1>16,
           <1>17, <1>18 DEF IInv

------------------------------------------------------------------------------
(* The handlers.                                                           *)

\* SIGTERM cuts off whatever ran: what it may spoil is recorded in early,
\* masked and twice.
LEMMA TerminateStep ==
  ASSUME IInv, Terminate
  PROVE  IInv'
<1>1. /\ UNCHANGED <<mem, scope, pid, kill, next, list, exiting, chld, proc,
                     term, inherits, during, merged, stray, hurt, ub>>
      /\ suicide /\ ~Gone /\ suicide' = FALSE /\ hpid' = 0
      /\ masked' = (masked \/ hpid # 0)
      /\ main' = [Frame("suicide") EXCEPT !.cur = list]
      /\ early' = (early \/ main.pc \in Linking)
      /\ twice' = (twice \/ exiting)
  BY DEF Terminate, objects, children, Linking
<1>2. /\ main' \in Frames /\ main'.pc = "suicide" /\ main'.cur = list
      /\ main'.pred = 0 /\ main'.after = 0
  BY <1>1, Pointer DEF Frame, Frames, Pcs, IInv, Basic
<1>3. Basic' BY <1>1, <1>2, Pointer DEF IInv, Basic
<1>4. Order' /\ Objects' BY <1>1 DEF IInv, Order, Objects, Unreaped
<1>5. Newest' BY <1>2 DEF Newest, Building
<1>6. Pointers'
  <2>1. \A x \in Ptr : Linked(x) => Linked(x)'
    BY <1>1, <1>2 DEF Linked, Building
  <2> QED BY <1>1, <1>2, <2>1 DEF IInv, Basic, Pointers, Linked, Deleting
<1>7. Calls' BY <1>2 DEF Calls, Deleting
<1>8. Phases' BY <1>1, <1>2 DEF IInv, Phases, OfExit, OfSuicide, Deleting, Living, Building
<1>9. Covered' BY <1>1, <1>2 DEF IInv, Covered, Unreaped, OfSuicide, Deleting, Linking
<1>10. Clean'
  <2>1. list # 0 => list \in ReachIn(next, list)
    BY NextOlder, ReachFirst DEF IInv, Basic
  <2> QED BY <1>1, <1>2, <2>1 DEF IInv, Clean, OnList, Deleting, Ended, Gone
<1>11. Kept'
  <2>1. SUFFICES ASSUME ~early', ~masked', ~twice', ub = {},
                        NEW o \in Obj, mem[o] = "live", proc[o] = "reaped"
                 PROVE  FALSE
    BY <1>1, <1>2 DEF Kept, Living, Building
  <2>2. ~early /\ ~masked /\ hpid = 0 /\ ~twice /\ ~exiting BY <1>1, <2>1
  <2>3. main.pc \notin {"wait"} \cup Ended
    BY <1>1, <2>2 DEF IInv, Phases, OfExit, Gone, Ended
  <2>4. main.pc \in {"find", "unlink"} /\ main.pc \in Deleting
    BY <2>1, <2>2, <2>3, Pointer DEF IInv, Kept, Deleting
  <2>5. main.caller \in {"exit", "suicide"} BY <2>4, DeletingThis
  <2> QED BY <1>1, <2>2, <2>4, <2>5 DEF IInv, Phases, OfExit, OfSuicide
<1>12. Scope' BY <1>2 DEF Scope, Living, Building
<1>13. NoneOutlives' BY <1>2 DEF NoneOutlives
<1>14. StrayOnlyIf' BY <1>1 DEF IInv, StrayOnlyIf
<1>15. UndefinedOnlyIf' BY <1>1 DEF IInv, UndefinedOnlyIf
<1> QED BY <1>3, <1>4, <1>5, <1>6, <1>7, <1>8, <1>9, <1>10, <1>11, <1>12, <1>13, <1>14,
           <1>15 DEF IInv

\* A stray SIGKILL comes from a deleted object; at the end all children that
\* were covered were dealt with.
LEMMA SuicideLoopStep ==
  ASSUME IInv, SuicideLoop
  PROVE  IInv'
<1> PICK o : o = main.cur OBVIOUS
<1>1. main.pc = "suicide" /\ hpid = 0 /\ main.pc \notin Ended BY DEF SuicideLoop, At, Ended
<1>2. /\ o \in Ptr /\ Linked(o) /\ next \in Older /\ list \in Ptr
      /\ \A q \in Obj : next[q] \in Ptr /\ Linked(next[q])
  BY NextOlder, Link DEF IInv, Basic, Frames, Pointers
<1>3. ASSUME ~early, ~during PROVE o # 0 => o \in ReachIn(next, list)
  BY <1>1, <1>3 DEF IInv, Clean, OnList
<1>4. Freed({o} \ {0}) => Allowed("commit_suicide")
  <2>1. ASSUME ~early, ~during PROVE {o} \ {0} \in SUBSET ReachIn(next, list)
    BY <1>3, <2>1
  <2> QED BY <1>1, <2>1, CleanUse DEF Allowed
<1>5. CASE Crash("commit_suicide", {o} \ {0})
  <2>1. Freed({o} \ {0}) BY <1>5 DEF Crash
  <2> QED BY <1>1, <1>4, <1>5, <2>1, CrashStep DEF Functions, Linking
<1>6. CASE /\ o # 0
           /\ Uses("commit_suicide", {o})
           /\ Die({c \in Obj : ~kill[o] /\ Alive(c) /\ pid[o] \in {c, -1}})
           /\ stray' = (stray \/ (~kill[o] /\ (pid[o] = -1 \/ proc[o] = "reaped")))
           /\ main' = [Frame("delete") EXCEPT !.this = o, !.caller = "suicide",
                                              !.cur = next[o]]
           /\ UNCHANGED <<objects, hpid, suicide, exiting, masked, term,
                          inherits, early, during, twice, hurt>>
  <2>0. o \in Obj /\ next[o] \in Ptr /\ next[o] < o /\ Linked(next[o])
    BY <1>2, <1>6, Link, Pointer
  <2>1. ub' = ub \/ (Allowed("commit_suicide") /\ ub' = ub \cup {"commit_suicide"})
    BY <1>4, <1>6 DEF Uses, Freed
  <2>2. UNCHANGED <<mem, scope, pid, kill, next, list, hpid, suicide, exiting, masked,
                    term, inherits, early, during, twice, hurt>>
    BY <1>6 DEF objects
  <2>3. /\ main' \in Frames /\ main'.pc = "delete" /\ main'.this = o
        /\ main'.caller = "suicide" /\ main'.cur = next[o]
        /\ main'.pred = 0 /\ main'.after = 0
    BY <1>6, <2>0, Pointer DEF Frame, Frames, Pcs
  <2>4. /\ proc' \in [Obj -> {"none", "starting", "running", "zombie", "reaped"}]
        /\ chld' \in BOOLEAN /\ merged' \in BOOLEAN /\ stray' \in BOOLEAN
        /\ \A q \in Obj : /\ proc'[q] = "none" <=> proc[q] = "none"
                          /\ proc'[q] = "reaped" <=> proc[q] = "reaped"
    <3>1. PICK V : V = {c \in Obj : ~kill[o] /\ Alive(c) /\ pid[o] \in {c, -1}} OBVIOUS
    <3>2. \A q \in V : q \in Obj /\ Alive(q) BY <3>1
    <3>3. Die(V) BY <1>6, <3>1
    <3>4. stray' \in BOOLEAN BY <1>6
    <3> QED BY <3>2, <3>3, <3>4 DEF IInv, Basic, Die, Alive
  <2>5. \A q \in Obj : Unreaped(q)' <=> Unreaped(q)
    BY <2>4 DEF IInv, Basic, Unreaped
  <2>6. Basic' BY <2>1, <2>2, <2>3, <2>4 DEF IInv, Basic
  <2>7. Order' BY <2>2 DEF IInv, Order
  <2>8. Objects' BY <1>1, <2>2, <2>4, <2>5 DEF IInv, Objects
  <2>9. Newest' BY <2>3 DEF Newest, Building
  <2>10. Pointers'
    <3>1. \A x \in Ptr : Linked(x) => Linked(x)'
      BY <2>2, <2>3, <2>4, Pointer DEF Linked, Building
    <3>2. /\ Linked(main.cur)' /\ Linked(main.pred)' /\ Linked(main.after)'
          /\ Linked(main.this)' /\ main'.this # 0
      BY <1>2, <1>6, <2>0, <2>3, <3>1 DEF Linked
    <3>3. Linked(list)' /\ (\A q \in Obj : Linked(next[q])')
      BY <2>2, <3>1 DEF IInv, Basic, Pointers
    <3> QED BY <3>2, <3>3 DEF Pointers
  <2>11. Calls' BY <2>0, <2>3 DEF Calls, Deleting
  <2>12. Phases' BY <1>1, <2>2, <2>3 DEF IInv, Phases, OfExit, OfSuicide, Deleting, Living, Building, Ended
  <2>13. Covered'
    <3>1. ReachIn(next, o) = {o} \cup ReachIn(next, next[o]) BY <1>2, <2>0, ReachUnfold
    <3> QED BY <1>1, <2>2, <2>3, <2>5, <3>1 DEF IInv, Covered, OfSuicide, Deleting, Linking
  <2>14. Clean'
    <3>1. ASSUME ~early, ~during, next[o] # 0 PROVE next[o] \in ReachIn(next, list)
      BY <1>2, <1>3, <1>6, <3>1, ReachNext
    <3> QED BY <1>1, <1>3, <1>6, <2>2, <2>3, <3>1 DEF IInv, Clean, OnList, Deleting, Ended
  <2>15. ub' = {} => ub = {} BY <2>1
  <2>16. Kept' BY <1>1, <2>2, <2>3, <2>4, <2>15 DEF IInv, Kept, Living, Building, Ended
  <2>17. Scope' BY <2>3 DEF Scope, Living, Building
  <2>18. NoneOutlives' BY <2>3 DEF NoneOutlives
  <2>19. StrayOnlyIf'
    <3>1. mem[o] = "freed" => ub' # {} BY <1>6 DEF Uses, Freed
    <3>2. pid[o] = -1 => mem[o] = "freed" BY <1>2, <1>6, <2>0, Pointer DEF Linked
    <3>3. proc[o] = "reaped" => early \/ masked \/ twice \/ ub # {} \/ mem[o] = "freed"
      <4>1. mem[o] \in {"live", "freed"} BY <1>2, <1>6, <2>0 DEF Linked, IInv, Basic
      <4> QED BY <1>1, <2>0, <4>1, Pointer DEF IInv, Kept, Ended
    <3>4. SUFFICES ASSUME stray', ub' = {} PROVE early \/ masked \/ twice
      BY <2>2 DEF StrayOnlyIf
    <3>5. stray \/ pid[o] = -1 \/ proc[o] = "reaped" BY <1>6, <3>4
    <3>6. ub = {} /\ mem[o] # "freed" BY <2>15, <3>1, <3>4
    <3> QED BY <3>2, <3>3, <3>5, <3>6 DEF IInv, StrayOnlyIf
  <2>20. UndefinedOnlyIf'
    <3>1. Lasting BY <2>2, <2>4 DEF Lasting
    <3> QED BY <2>1, <3>1, UndefinedStep DEF IInv, Functions
  <2> QED BY <2>6, <2>7, <2>8, <2>9, <2>10, <2>11, <2>12, <2>13, <2>14, <2>16, <2>17, <2>18,
             <2>19, <2>20 DEF IInv
<1>7. CASE /\ o = 0
           /\ exiting' = TRUE
           /\ main' = IF exiting THEN Frame("gone") ELSE [Frame("exit") EXCEPT !.cur = list]
           /\ UNCHANGED <<objects, hpid, suicide, masked, children, ghosts, ub>>
  <2>1. UNCHANGED <<mem, scope, pid, kill, next, list, hpid, suicide, masked, chld, proc,
                    term, inherits, early, during, twice, merged, stray, hurt, ub>>
    BY <1>7 DEF objects, children, ghosts
  <2>2. /\ main' \in Frames /\ main'.pred = 0 /\ main'.after = 0
        /\ \/ main'.pc = "gone" /\ main'.cur = 0
           \/ main'.pc = "exit" /\ main'.cur = list
    BY <1>2, <1>7, Pointer DEF Frame, Frames, Pcs
  <2>3. Basic' BY <1>7, <2>1, <2>2 DEF IInv, Basic
  <2>4. Order' /\ Objects' BY <2>1 DEF IInv, Order, Objects, Unreaped
  <2>5. Newest' BY <2>2 DEF Newest, Building
  <2>6. Pointers'
    <3>1. \A x \in Ptr : Linked(x) => Linked(x)'
      BY <2>1, <2>2 DEF Linked, Building
    <3>2. Linked(main.cur)' /\ Linked(main.pred)' /\ Linked(main.after)'
      <4>1. Linked(0)' BY DEF Linked
      <4>2. Linked(list) BY DEF IInv, Pointers
      <4> QED BY <1>2, <2>2, <3>1, <4>1, <4>2
    <3>3. Linked(list)' /\ (\A q \in Obj : Linked(next[q])')
      BY <2>1, <3>1 DEF IInv, Basic, Pointers
    <3> QED BY <2>2, <3>2, <3>3 DEF Pointers, Deleting
  <2>7. Calls' BY <2>2 DEF Calls, Deleting
  <2>8. Phases' BY <1>1, <1>7, <2>1, <2>2 DEF IInv, Phases, OfExit, OfSuicide, Deleting, Living, Building, Ended
  <2>9. Covered' BY <1>1, <2>1, <2>2 DEF IInv, Covered, OfSuicide, Deleting, Linking, Unreaped
  <2>10. Clean'
    <3>1. list # 0 => list \in ReachIn(next, list) BY <1>2, ReachFirst
    <3> QED BY <1>1, <2>1, <2>2, <3>1 DEF IInv, Clean, OnList, Deleting, Ended
  <2>11. Kept' BY <1>1, <2>1, <2>2 DEF IInv, Kept, Living, Building, Ended
  <2>12. Scope' BY <2>2 DEF Scope, Living, Building
  <2>13. NoneOutlives'
    <3>1. ReachIn(next, o) = {} BY <1>2, <1>7, ReachNone
    <3>2. ~early => \A c \in Obj : ~Unreaped(c)
      BY <1>1, <3>1 DEF IInv, Covered, OfSuicide
    <3> QED BY <2>1, <3>2 DEF NoneOutlives, Unreaped, Alive
  <2>14. StrayOnlyIf' /\ UndefinedOnlyIf' BY <2>1 DEF IInv, StrayOnlyIf, UndefinedOnlyIf
  <2> QED BY <2>3, <2>4, <2>5, <2>6, <2>7, <2>8, <2>9, <2>10, <2>11, <2>12, <2>13, <2>14 DEF IInv
<1> QED BY <1>5, <1>6, <1>7 DEF SuicideLoop

\* The reaper reaps a child whose object is on the list: unless it is being
\* put there, which early records.
LEMMA ReaperStep ==
  ASSUME IInv, Reaper
  PROVE  IInv'
<1>1. /\ UNCHANGED <<mem, scope, pid, kill, next, list, main, suicide, exiting, masked,
                     term, inherits, twice, merged, stray, hurt, ub>>
      /\ hpid = 0 /\ ~masked /\ main.pc \notin Ended /\ chld' = FALSE
  BY DEF Reaper, objects, Gone, Ended
<1>2. CASE UNCHANGED <<proc, hpid, early, during>>
  <2>1. Basic' BY <1>1, <1>2 DEF IInv, Basic
  <2>2. Order' /\ Objects' BY <1>1, <1>2 DEF IInv, Order, Objects, Unreaped
  <2>3. Newest' /\ Calls' BY <1>1, <1>2 DEF IInv, Newest, Calls
  <2>4. Pointers' BY <1>1, <1>2 DEF IInv, Pointers, Linked
  <2>5. Phases' BY <1>1, <1>2 DEF IInv, Phases, OfExit, OfSuicide
  <2>6. Covered' BY <1>1, <1>2 DEF IInv, Covered, Unreaped, OfSuicide
  <2>7. Clean' BY <1>1, <1>2 DEF IInv, Clean, OnList
  <2>8. Kept' /\ Scope' /\ NoneOutlives' BY <1>1, <1>2 DEF IInv, Kept, Scope, NoneOutlives, Alive
  <2>9. StrayOnlyIf' /\ UndefinedOnlyIf' BY <1>1, <1>2 DEF IInv, StrayOnlyIf, UndefinedOnlyIf
  <2> QED BY <2>1, <2>2, <2>3, <2>4, <2>5, <2>6, <2>7, <2>8, <2>9 DEF IInv
<1>3. ASSUME NEW c \in Obj, proc[c] = "zombie",
             proc' = [proc EXCEPT ![c] = "reaped"], hpid' = c,
             early' = (early \/ (main.pc \in {"next", "head"} /\ c = main.this)
                             \/ (main.pc = "head" /\ c = next[main.this])),
             during' = (during \/ main.pc \notin {"user", "fork", "next", "head", "wait"})
      PROVE  IInv'
  <2>0. c # 0 /\ c \in Ptr BY Pointer
  <2>1. /\ proc' \in [Obj -> {"none", "starting", "running", "zombie", "reaped"}]
        /\ \A q \in Obj : q # c => proc'[q] = proc[q]
        /\ proc'[c] = "reaped"
        /\ \A q \in Obj : Unreaped(q)' <=> Unreaped(q) /\ q # c
        /\ Unreaped(c)
    BY <1>3 DEF IInv, Basic, Unreaped
  <2>2. Basic' BY <1>1, <1>3, <2>0, <2>1 DEF IInv, Basic
  <2>3. Order' BY <1>1 DEF IInv, Order
  <2>4. Objects' BY <1>1, <1>3, <2>1 DEF IInv, Objects
  <2>5. Newest' BY <1>1, <1>3, <2>1 DEF IInv, Newest
  <2>6. Pointers'
    <3>1. \A x \in Ptr : Linked(x) => Linked(x)'
      BY <1>1, <1>3, <2>1, Pointer DEF Linked
    <3> QED BY <1>1, <3>1 DEF IInv, Basic, Frames, Pointers
  <2>7. Calls'
    <3>1. main.pc \in {"find", "unlink"} => main.this # c
      BY <1>3 DEF IInv, Calls
    <3>2. main.pc \in {"find", "unlink"} => main.this \in Obj
      BY DeletingThis DEF Deleting
    <3> QED BY <1>1, <1>3, <2>1, <3>1, <3>2 DEF IInv, Calls
  <2>8. Phases' BY <1>1, <1>3 DEF IInv, Phases, OfExit, OfSuicide, Living, Building
  <2>9. Covered'
    <3>1. SUFFICES ASSUME ~early' PROVE Covered' BY DEF Covered
    <3>2. /\ ~early
          /\ main.pc \in Linking => c # main.this
          /\ main.pc = "head" => c # next[main.this]
      BY <1>3, <3>1 DEF Linking
    <3>3. c \in ReachIn(next, list) BY <2>1, <3>2 DEF IInv, Covered
    <3>4. ReachIn(next, main.this) \subseteq Obj
      BY NextOlder, ReachFirst DEF IInv, Basic, Frames
    <3>5. /\ \A q \in Obj : Unreaped(q)' /\ ~(main'.pc \in Linking /\ q = main'.this)
                              => q \in ReachIn(next', list')
          /\ hpid' # 0 => hpid' \in ReachIn(next', list')
          /\ main'.pc = "head" => next'[main'.this] = list' /\ (hpid' # 0 => hpid' # list')
      BY <1>1, <1>3, <2>1, <3>2, <3>3 DEF IInv, Covered
    <3>6. main'.pc = "unlink" =>
            \A q \in ReachIn(next', main'.this) : Unreaped(q)' => q \in ReachIn(next', main'.after)
      BY <1>1, <2>1, <3>2, <3>4 DEF IInv, Covered
    <3>7. OfSuicide' =>
            \A q \in Obj : Unreaped(q)' => \/ q \in ReachIn(next', main'.cur)
                                           \/ main'.pc \in {"delete", "reap"} /\ q = main'.this
      BY <1>1, <2>1, <3>2 DEF IInv, Covered, OfSuicide
    <3> QED BY <3>5, <3>6, <3>7 DEF Covered
  <2>10. Clean' BY <1>1, <1>3 DEF IInv, Clean, OnList
  <2>11. Kept'
    <3>1. SUFFICES ASSUME ~early', ~masked, ~twice, ub = {} \/ main.pc \in Living,
                          main.pc \notin {"wait"} \cup Ended,
                          NEW o \in Obj, mem[o] = "live", proc'[o] = "reaped", o # c
                   PROVE  main.pc \in {"find", "unlink"} /\ o = main.this
      BY <1>1, <1>3 DEF Kept
    <3>2. ~early /\ proc[o] = "reaped" /\ o # hpid BY <1>1, <1>3, <2>1, <3>1, Pointer
    <3> QED BY <3>1, <3>2 DEF IInv, Kept
  <2>12. Scope' BY <1>1, <2>1 DEF IInv, Basic, Scope
  <2>13. NoneOutlives' BY <1>1 DEF NoneOutlives, Ended
  <2>14. StrayOnlyIf' BY <1>1, <1>3 DEF IInv, StrayOnlyIf
  <2>15. UndefinedOnlyIf' BY <1>1, <1>3, <2>1 DEF IInv, UndefinedOnlyIf
  <2> QED BY <2>2, <2>3, <2>4, <2>5, <2>6, <2>7, <2>8, <2>9, <2>10, <2>11, <2>12, <2>13, <2>14,
             <2>15 DEF IInv
<1> QED BY <1>2, <1>3 DEF Reaper, Waitable

\* Its search finds that object, and the list goes round it; what holds
\* another object holds it still.
LEMMA ReaperUnlinksStep ==
  ASSUME IInv, ReaperUnlinks
  PROVE  IInv'
<1> PICK c : c = hpid OBVIOUS
<1> PICK R : R = ReachIn(next, list) OBVIOUS
<1> PICK path : path = (R \ ReachIn(next, c)) \cup ({c} \cap R) OBVIOUS
<1>1. c # 0 /\ c \in Obj /\ main.pc \notin Ended
  BY Pointer DEF ReaperUnlinks, Gone, Ended, IInv, Basic
<1>2. /\ next \in Older /\ list \in Ptr /\ R \subseteq Obj
      /\ proc[c] = "reaped" /\ pid[c] = c
      /\ Reach(list) = R /\ Reach(c) = ReachIn(next, c)
      /\ next[c] \in Ptr /\ next[c] < c /\ Linked(next[c]) /\ Linked(list)
  BY <1>1, NextOlder, ReachFirst, ReachIsIn, Link DEF IInv, Basic, Objects, Pointers
<1>3. ASSUME ~early, ~during PROVE FALSE \/ ~Freed(path)
  <2>1. path \in SUBSET ReachIn(next, list) OBVIOUS
  <2> QED BY <1>1, <1>3, <2>1, CleanUse
<1>4. Freed(path) => Allowed("reaper_nohang") BY <1>3 DEF Allowed
<1>5. CASE Crash("reaper_nohang", path)
  <2>1. Freed(path) BY <1>5 DEF Crash
  <2>2. main.pc \in Linking => early
    BY <1>3, <2>1 DEF IInv, Phases, Linking, Living, Building
  <2> QED BY <1>4, <1>5, <2>1, <2>2, CrashStep DEF Functions
<1>6. ASSUME Uses("reaper_nohang", path), hpid' = 0,
             UNCHANGED <<scope, kill, main, suicide, exiting, masked, children, ghosts>>
      PROVE  /\ ub' = ub \/ (Allowed("reaper_nohang") /\ ub' = ub \cup {"reaper_nohang"})
             /\ UNCHANGED <<scope, kill, main, suicide, exiting, masked, chld, proc, term,
                            inherits, early, during, twice, merged, stray, hurt>>
  BY <1>4, <1>6 DEF Uses, children, ghosts
<1>7. CASE /\ Uses("reaper_nohang", path)
           /\ ~Found(c) /\ UNCHANGED <<pid, list, next, mem>> /\ hpid' = 0
           /\ UNCHANGED <<scope, kill, main, suicide, exiting, masked, children, ghosts>>
  <2>1. /\ ub' = ub \/ (Allowed("reaper_nohang") /\ ub' = ub \cup {"reaper_nohang"})
        /\ UNCHANGED <<mem, scope, pid, kill, next, list, main, suicide, exiting, masked, chld,
                       proc, term, inherits, early, during, twice, merged, stray, hurt>>
    BY <1>6, <1>7
  <2>2. early
    <3>1. ~early => c \in R BY <1>1 DEF IInv, Covered
    <3> QED BY <1>2, <1>7, <3>1 DEF Found
  <2>3. Basic' BY ZenonT(60), <1>7, <2>1, Pointer DEF IInv, Basic
  <2>4. Order' /\ Objects' BY <1>7, <2>1 DEF IInv, Order, Objects, Unreaped
  <2>5. Newest' BY <2>1 DEF IInv, Newest
  <2>6. Pointers' BY <2>1 DEF IInv, Pointers, Linked
  <2>7. Calls'
    <3>1. main.pc \in {"find", "unlink"} => main.this # 0
      BY DEF IInv, Pointers, Deleting
    <3> QED BY <1>7, <2>1, <3>1 DEF IInv, Calls
  <2>8. Phases' BY <1>7, <2>1 DEF IInv, Phases, OfExit, OfSuicide
  <2>9. Covered' /\ Clean' /\ Kept' BY <2>1, <2>2 DEF Covered, Clean, Kept
  <2>10. Scope' BY <2>1 DEF IInv, Scope
  <2>11. NoneOutlives' BY <2>1, <2>2 DEF NoneOutlives
  <2>12. StrayOnlyIf' BY <2>1, <2>2 DEF StrayOnlyIf
  <2>13. UndefinedOnlyIf' BY <2>1, <2>2 DEF UndefinedOnlyIf
  <2> QED BY <2>3, <2>4, <2>5, <2>6, <2>7, <2>8, <2>9, <2>10, <2>11, <2>12, <2>13 DEF IInv
<1>8. CASE /\ Uses("reaper_nohang", path)
           /\ Found(c) /\ mem[c] = "live"
           /\ pid' = [pid EXCEPT ![c] = -1]
           /\ list' = IF list = c THEN next[c] ELSE list
           /\ next' = Bypass(c)
           /\ mem' = [mem EXCEPT ![c] = "freed"] /\ hpid' = 0
           /\ UNCHANGED <<scope, kill, main, suicide, exiting, masked, children, ghosts>>
  <2>1. /\ ub' = ub \/ (Allowed("reaper_nohang") /\ ub' = ub \cup {"reaper_nohang"})
        /\ UNCHANGED <<scope, kill, main, suicide, exiting, masked, chld,
                       proc, term, inherits, early, during, twice, merged, stray, hurt>>
    BY <1>6, <1>8
  <2>2. /\ \A q \in Obj : q # c => mem'[q] = mem[q] /\ pid'[q] = pid[q]
        /\ mem'[c] = "freed" /\ pid'[c] = -1
        /\ mem' \in [Obj -> {"none", "live", "freed"}] /\ pid' \in [Obj -> -1 .. N]
    <3>1. -1 \in -1 .. N BY NAssumption
    <3> QED BY <1>1, <1>8, <3>1 DEF IInv, Basic
  <2>3. c \in R BY <1>2, <1>8 DEF Found
  <2>4. /\ next' \in [Obj -> Ptr]
        /\ \A q \in Obj : next'[q] = next[q] \/ (next[q] = c /\ next'[q] = next[c])
        /\ \A q \in Obj : q \notin R => next'[q] = next[q]
        /\ \A q \in R : next[q] = c => next'[q] = next[c]
    <3>1. next' = [p \in Obj |-> IF p \in R /\ next[p] = c THEN next[c] ELSE next[p]]
      BY <1>2, <1>8 DEF Bypass
    <3> QED BY <1>1, <1>2, <3>1 DEF Older
  <2>5. list' \in Ptr /\ list' \in {list, next[c]} /\ (list # c => list' = list)
    BY <1>2, <1>8
  <2>6. Basic' BY ZenonT(60), <1>8, <2>1, <2>2, <2>4, <2>5, Pointer DEF IInv, Basic, Functions
  <2>7. Order'
    <3>1. ASSUME NEW q \in Obj PROVE next'[q] < q
      <4>1. next[q] < q BY <1>2, Link
      <4>2. CASE next'[q] = next[q] BY <4>1, <4>2
      <4>3. CASE next[q] = c /\ next'[q] = next[c]
        <5>1. PICK n : n = next[c] OBVIOUS
        <5>2. n \in Ptr /\ n < c /\ c < q BY <1>2, <4>1, <4>3, <5>1
        <5>3. n < q BY <1>1, <5>2, Pointer
        <5> QED BY <4>3, <5>1, <5>3
      <4> QED BY <2>4, <4>2, <4>3
    <3> QED BY <3>1 DEF Order
  <2>8. next' \in Older BY <2>6, <2>7, NextOlderNext
  <2>9. ASSUME NEW r \in Ptr
        PROVE  /\ ReachIn(next', r) \subseteq ReachIn(next, r)
               /\ ReachIn(next, r) \ {c} \subseteq ReachIn(next', r)
    <3>1. Round(next, next', c, r) BY <1>2, <2>4, ReachFirst DEF Round
    <3> QED BY <1>1, <1>2, <2>8, <3>1, RoundReaches
  <2>10. ReachIn(next', list') = R \ {c}
    <3>1. CASE list = c
      <4>1. list' = next[c] BY <1>8, <3>1
      <4>2. R = {c} \cup ReachIn(next, next[c]) /\ c \notin ReachIn(next, next[c])
        BY <1>1, <1>2, <3>1, ReachUnfold
      <4>3. /\ ReachIn(next', next[c]) \subseteq ReachIn(next, next[c])
            /\ ReachIn(next, next[c]) \ {c} \subseteq ReachIn(next', next[c])
        BY <1>2, <2>9
      <4> QED BY <4>1, <4>2, <4>3
    <3>2. CASE list # c
      <4>1. Round(next, next', c, list) BY <1>2, <2>4, ReachFirst DEF Round
      <4>2. \A q \in ReachIn(next, list) : next[q] = c => next'[q] = next[c]
        BY <2>4
      <4>3. c \notin ReachIn(next', list)
        BY <1>1, <1>2, <2>8, <3>2, <4>1, <4>2, RoundMisses
      <4> QED BY <1>2, <2>5, <2>9, <3>2, <4>3
    <3> QED BY <3>1, <3>2
  <2>11. Linked(c) /\ ~(main.pc \in Building /\ main.this = c)
    <3>1. Linked(c) BY <1>2, <2>3, ReachLinked DEF IInv
    <3> QED BY <1>1, <3>1 DEF Linked
  <2>12. Objects' BY <1>1, <1>2, <1>8, <2>1, <2>2 DEF IInv, Basic, Objects, Unreaped
  <2>13. Newest' BY <2>1, <2>2, <2>11, <1>8 DEF IInv, Newest, Building
  <2>14. Pointers'
    <3>1. \A x \in Ptr : Linked(x) => Linked(x)'
      <4>1. SUFFICES ASSUME NEW x \in Obj, Linked(x) PROVE Linked(x)'
        BY Pointer DEF Linked
      <4>2. CASE x # c BY <2>1, <2>2, <4>1, <4>2 DEF Linked
      <4>3. CASE x = c BY <1>2, <2>1, <2>2, <2>11, <4>3 DEF Linked
      <4> QED BY <4>2, <4>3
    <3>2. Linked(list)' BY <1>2, <2>5, <3>1
    <3>3. \A q \in Obj : next'[q] \in Ptr /\ Linked(next'[q])
      BY <1>2, <2>4, Link DEF IInv, Pointers
    <3>4. \A q \in Obj : Linked(next[q])' BY <3>1, <3>3
    <3>5. \A x \in {main.cur, main.pred, main.after} : x \in Ptr /\ Linked(x)
      BY DEF IInv, Basic, Frames, Pointers
    <3>6. Linked(main.cur)' /\ Linked(main.after)' /\ Linked(main.pred)'
      BY <2>1, <3>1, <3>5
    <3>7. main'.pc \in Deleting => main'.this # 0 /\ Linked(main.this)'
      BY <2>1, <3>1 DEF IInv, Basic, Frames, Pointers
    <3> QED BY <3>2, <3>4, <3>6, <3>7 DEF Pointers
  <2>15. Calls'
    <3>1. main.pc \in {"find", "unlink"} => main.this # 0 /\ main.this # c /\ main.this \in Obj
      BY DeletingThis, Pointer DEF IInv, Calls, Deleting
    <3>2. main.pc = "unlink" /\ main.pred = 0 => list' = main.this
      BY <2>5, <3>1 DEF IInv, Calls
    <3>3. main.pc = "unlink" /\ main.pred \notin {0, main.this} => next'[main.pred] = main.this
      <4>1. SUFFICES ASSUME main.pc = "unlink", main.pred \notin {0, main.this}
                     PROVE  next'[main.pred] = main.this
        OBVIOUS
      <4>2. main.pred \in Obj /\ next[main.pred] = main.this
        BY <4>1, Pointer DEF IInv, Basic, Frames, Calls
      <4> QED BY <2>4, <3>1, <4>1, <4>2
    <3>4. main.pc = "return" => mem'[main.cur] = "freed"
      BY <2>2, Pointer DEF IInv, Basic, Frames, Calls
    <3> QED BY <1>8, <2>1, <3>1, <3>2, <3>3, <3>4 DEF IInv, Calls
  <2>16. Phases' BY <1>8, <2>1 DEF IInv, Phases, OfExit, OfSuicide
  <2>17. Covered'
    <3>1. SUFFICES ASSUME ~early PROVE Covered' BY <2>1 DEF Covered
    <3>2. \A q \in Obj : Unreaped(q)' <=> Unreaped(q) BY <2>1 DEF Unreaped
    <3>3. ~Unreaped(c) BY <1>2 DEF Unreaped
    <3>4. \A q \in Obj : Unreaped(q)' /\ ~(main'.pc \in Linking /\ q = main'.this)
                           => q \in ReachIn(next', list')
      BY <2>1, <2>10, <3>1, <3>2, <3>3 DEF IInv, Covered
    <3>5. main'.pc = "head" => next'[main'.this] = list'
      <4>1. SUFFICES ASSUME main.pc = "head" PROVE next'[main.this] = list'
        BY <2>1
      <4>2. next[main.this] = list /\ list # c
        BY <1>1, <3>1, <4>1 DEF IInv, Covered
      <4>3. main.this \in Obj BY <4>1 DEF IInv, Newest, Building
      <4> QED BY <2>4, <2>5, <4>2, <4>3
    <3>6. main'.pc = "unlink" =>
            \A q \in ReachIn(next', main'.this) : Unreaped(q)' => q \in ReachIn(next', main'.after)
      <4>1. SUFFICES ASSUME main.pc = "unlink", NEW q \in ReachIn(next', main.this), Unreaped(q)'
                     PROVE  q \in ReachIn(next', main.after)
        BY <2>1
      <4>2. main.this \in Ptr /\ main.after \in Ptr BY DEF IInv, Basic, Frames
      <4>3. q \in ReachIn(next, main.this) BY <2>9, <4>1, <4>2
      <4>4. q \in Obj BY <1>2, <4>2, <4>3, ReachFirst
      <4>5. q \in ReachIn(next, main.after) /\ q # c
        BY <3>1, <3>2, <3>3, <4>1, <4>3, <4>4 DEF IInv, Covered
      <4> QED BY <2>9, <4>2, <4>5
    <3>7. OfSuicide' =>
            \A q \in Obj : Unreaped(q)' => \/ q \in ReachIn(next', main'.cur)
                                           \/ main'.pc \in {"delete", "reap"} /\ q = main'.this
      <4>1. SUFFICES ASSUME OfSuicide, NEW q \in Obj, Unreaped(q)
                     PROVE  \/ q \in ReachIn(next', main.cur)
                            \/ main.pc \in {"delete", "reap"} /\ q = main.this
        BY <2>1, <3>2 DEF OfSuicide
      <4>2. \/ q \in ReachIn(next, main.cur)
            \/ main.pc \in {"delete", "reap"} /\ q = main.this
        BY <3>1, <4>1 DEF IInv, Covered
      <4>3. main.cur \in Ptr /\ q # c BY <3>3, <4>1 DEF IInv, Basic, Frames
      <4> QED BY <2>9, <4>2, <4>3
    <3> QED BY <1>8, <3>4, <3>5, <3>6, <3>7 DEF Covered
  <2>18. Clean'
    <3>1. SUFFICES ASSUME ~early, ~during PROVE Clean' BY <2>1 DEF Clean
    <3>2. main.pc \in Living \cup {"wait"}
      BY <1>1, <3>1 DEF IInv, Phases
    <3>3. \A x \in ReachIn(next', list') : mem'[x] = "live"
      BY <1>1, <1>2, <2>2, <2>10, <3>1 DEF IInv, Clean
    <3> QED BY <2>1, <3>2, <3>3 DEF Clean, Living, Building, Deleting
  <2>19. ub' = {} => ub = {} BY <2>1
  <2>20. Kept' BY <1>8, <2>1, <2>2, <2>19 DEF IInv, Kept
  <2>21. Scope' BY <1>2, <2>1, <2>2 DEF IInv, Basic, Scope
  <2>22. NoneOutlives' BY <1>1, <2>1 DEF NoneOutlives, Ended
  <2>23. StrayOnlyIf' BY <2>1 DEF IInv, StrayOnlyIf
  <2>24. UndefinedOnlyIf'
    <3>1. Lasting BY <2>1, <2>2 DEF Lasting
    <3> QED BY <2>1, <3>1, UndefinedStep DEF IInv, Functions
  <2> QED BY <2>6, <2>7, <2>12, <2>13, <2>14, <2>15, <2>16, <2>17, <2>18, <2>20, <2>21, <2>22,
             <2>23, <2>24 DEF IInv
<1>9. path = (Reach(list) \ Reach(hpid)) \cup ({hpid} \cap Reach(list)) BY <1>2
<1>10. \/ Crash("reaper_nohang", path)
       \/ /\ Uses("reaper_nohang", path)
          /\ \/ /\ Found(c) /\ mem[c] = "live"
                /\ pid' = [pid EXCEPT ![c] = -1]
                /\ list' = IF list = c THEN next[c] ELSE list
                /\ next' = Bypass(c)
                /\ mem' = [mem EXCEPT ![c] = "freed"]
             \/ /\ ~Found(c)
                /\ UNCHANGED <<pid, list, next, mem>>
          /\ hpid' = 0
          /\ UNCHANGED <<scope, kill, main, suicide, exiting, masked, children, ghosts>>
  BY <1>9 DEF ReaperUnlinks
<1> QED BY <1>5, <1>7, <1>8, <1>10

------------------------------------------------------------------------------
(* The theorems.                                                           *)

\* The invariant holds initially and every step keeps it.
THEOREM IInvInductive == (Init => IInv) /\ (IInv /\ [Next]_vars => IInv')
<1>1. Init => IInv BY InitHolds
<1>2. ASSUME IInv, Next PROVE IInv'
  <2>1. CASE Program
    BY <1>2, <2>1, ConstructStep, DestroyForkStep, SuicideSignalStep, ExitStep DEF Program
  <2>2. CASE Code
    BY <1>2, <2>2, DoForkStep, LinkNextStep, LinkHeadStep, DeleteStep, ReapStep, FindStep,
       UnlinkStep, KillLoopStep, KillNextStep, WaitAllStep, SuicideLoopStep, ReaperStep,
       ReaperUnlinksStep DEF Code
  <2>3. CASE Terminate BY <1>2, <2>3, TerminateStep
  <2>4. CASE Children BY <1>2, <2>4, ChildrenStep
  <2> QED BY <1>2, <2>1, <2>2, <2>3, <2>4 DEF Next
<1>3. ASSUME IInv, UNCHANGED vars PROVE IInv'
  <2>1. UNCHANGED <<mem, scope, pid, kill, next, list, main, hpid, suicide, exiting, masked,
                    chld, proc, term, inherits, early, during, twice, merged, stray, hurt, ub>>
    BY <1>3 DEF vars
  <2>2. Basic' /\ Order' /\ Objects' BY <1>3, <2>1 DEF IInv, Basic, Order, Objects, Unreaped
  <2>3. Newest' /\ Calls' BY <1>3, <2>1 DEF IInv, Newest, Calls
  <2>4. Pointers' BY <1>3, <2>1 DEF IInv, Pointers, Linked
  <2>5. Phases' BY <1>3, <2>1 DEF IInv, Phases, OfExit, OfSuicide
  <2>6. Covered' BY <1>3, <2>1 DEF IInv, Covered, Unreaped, OfSuicide
  <2>7. Clean' BY <1>3, <2>1 DEF IInv, Clean, OnList
  <2>8. Kept' /\ Scope' /\ NoneOutlives' BY <1>3, <2>1 DEF IInv, Kept, Scope, NoneOutlives, Alive
  <2>9. StrayOnlyIf' /\ UndefinedOnlyIf' BY <1>3, <2>1 DEF IInv, StrayOnlyIf, UndefinedOnlyIf
  <2> QED BY <2>2, <2>3, <2>4, <2>5, <2>6, <2>7, <2>8, <2>9 DEF IInv
<1> QED BY <1>1, <1>2, <1>3

\* So it holds in every state that a behaviour comes to.
THEOREM IInvAlways == Spec => []IInv
<1>1. Init => IInv BY IInvInductive
<1>2. IInv /\ [Next]_vars => IInv' BY IInvInductive
<1> QED BY <1>1, <1>2, PTL DEF Spec

\* Every variable keeps its type, and the constructor links an object only
\* with the pid of its child in it.
THEOREM TypeCorrect == Spec => []TypeOK
<1>1. IInv => TypeOK
  BY DEF IInv, Basic, Frames, Newest, Building, Linking, TypeOK
<1> QED BY <1>1, IInvAlways, PTL

\* Whenever the program runs, the children not yet reaped are on the list,
\* each once and with a live object, unless a handler cut into a constructor.
THEOREM ListIsSound == Spec => []ListSound
<1>1. ASSUME IInv PROVE ListSound
  <2>1. SUFFICES ASSUME main.pc = "user", hpid = 0, ~early
                 PROVE  /\ \A o \in ReachIn(next, list) :
                             mem[o] = "live" /\ pid[o] = o /\ o \notin ReachIn(next, next[o])
                        /\ \A c \in Obj : c \in ReachIn(next, list) <=> Alive(c) \/ proc[c] = "zombie"
    BY ReachIsIn DEF ListSound, At
  <2>2. Basic /\ next \in Older /\ list \in Ptr /\ ReachIn(next, list) \subseteq Obj
    BY <1>1, NextOlder, ReachFirst DEF IInv, Basic
  <2>3. ~during /\ ~masked /\ ~twice BY <1>1, <2>1 DEF IInv, Phases, Living
  <2>4. \A o \in ReachIn(next, list) : Linked(o)
    BY <1>1, <2>2, ReachLinked DEF IInv, Pointers
  <2>5. ASSUME NEW o \in ReachIn(next, list)
        PROVE  /\ mem[o] = "live" /\ pid[o] = o /\ o \notin ReachIn(next, next[o])
               /\ Unreaped(o)
    <3>1. mem[o] = "live" BY <1>1, <2>1, <2>3 DEF IInv, Clean, Ended
    <3>2. o \in Obj /\ o # 0 BY <2>2, Pointer
    <3>3. pid[o] = o /\ proc[o] # "none" BY <2>4, <3>1, <3>2 DEF Linked
    <3>4. o \notin ReachIn(next, next[o]) BY <2>2, <3>2, ReachUnfold
    <3>5. proc[o] # "reaped"
      BY <1>1, <2>1, <2>3, <3>1, <3>2 DEF IInv, Kept, Living, Ended
    <3> QED BY <2>2, <3>1, <3>2, <3>3, <3>4, <3>5 DEF Basic, Unreaped
  <2>6. ASSUME NEW c \in Obj, Unreaped(c) PROVE c \in ReachIn(next, list)
    BY <1>1, <2>1, <2>6 DEF IInv, Covered, Linking
  <2> QED BY <2>2, <2>5, <2>6 DEF Unreaped, Alive
<1> QED BY <1>1, IInvAlways, PTL

\* A process that comes to the end of its exit leaves no child alive, unless a
\* handler cut into a constructor.
THEOREM NoneLeft == Spec => []NoneOutlives
<1>1. IInv => NoneOutlives BY DEF IInv
<1> QED BY <1>1, IInvAlways, PTL

\* A pid that is no child's any more is sent a signal only where SIGTERM cut
\* in at one of three places, or out of a deleted object.
THEOREM StraySignals == Spec => []StrayOnlyIf
<1>1. IInv => StrayOnlyIf BY DEF IInv
<1> QED BY <1>1, IInvAlways, PTL

\* ~Fork after the reaper and ~KillForks after its own delete are the only
\* users of deleted objects, as long as the reaper comes upon neither a
\* constructor nor the exit.
THEOREM UndefinedUses == Spec => []UndefinedOnlyIf
<1>1. IInv => UndefinedOnlyIf BY DEF IInv
<1> QED BY <1>1, IInvAlways, PTL

\* A child harms a sibling only when SIGTERM ends it in its constructor.
THEOREM Siblings == Spec => SiblingsUnharmed
<1> DEFINE Harmless == hurt' # hurt => \E c \in Obj : proc[c] = "starting" /\ proc'[c] = "zombie"
<1>1. ASSUME Next PROVE Harmless
  <2>1. CASE Program
    BY <2>1 DEF Program, Construct, DestroyFork, SuicideSignal, Exit, Crash, ghosts
  <2>2. CASE Terminate BY <2>2 DEF Terminate
  <2>3. CASE Code
    BY <2>3 DEF Code, DoFork, LinkNext, LinkHead, Delete, Reap, Find, Unlink, KillLoop, KillNext,
                WaitAll, SuicideLoop, Reaper, ReaperUnlinks, Crash, ghosts
  <2>4. ASSUME NEW c \in Obj, ChildStarts(c) PROVE Harmless
    <3>1. hurt' = hurt \cup {o \in inherits[c].list : Orphaned(o) > 0 /\ kill[o]}
      BY <2>4 DEF ChildStarts
    <3>2. \A o : ~(Orphaned(o) > 0) BY DEF Orphaned
    <3> QED BY <3>1, <3>2
  <2>5. ASSUME NEW c \in Obj, ChildEnds(c) PROVE Harmless
    BY <2>5 DEF ChildEnds
  <2>6. ASSUME NEW c \in Obj, ChildTermed(c) PROVE Harmless
    <3>1. SUFFICES ASSUME hurt' # hurt PROVE proc[c] = "starting" /\ proc'[c] = "zombie"
      OBVIOUS
    <3>2. proc[c] = "starting" BY <2>6, <3>1 DEF ChildTermed
    <3>3. PICK V : Die({c} \cup V) BY <2>6 DEF ChildTermed
    <3>4. proc'[c] = "zombie" BY <3>3 DEF Die
    <3> QED BY <3>2, <3>4
  <2> QED BY <1>1, <2>1, <2>2, <2>3, <2>4, <2>5, <2>6 DEF Next, Children, Ends
<1>2. [Next]_vars => [Harmless]_vars BY <1>1
<1> QED BY <1>2, PTL DEF Spec, SiblingsUnharmed
=============================================================================

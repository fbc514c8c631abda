---------------------------- MODULE SockRepProofs ----------------------------
(***************************************************************************)
(* Proofs about the ownership of sockets, for any number of sockbufs and   *)
(* descriptors, every order of their destruction, one thread or several.   *)
(*                                                                         *)
(* The properties of SockRep are not inductive alone.  That the descriptor *)
(* of a live sockbuf is its own needs its sockcnt not to be closed yet,    *)
(* and that needs a close to come only when the one reference left is that *)
(* of the destructor that closes: no sockbuf lives on a closed sockcnt.    *)
(* That a sockcnt without holders is closed needs to know, before, that as *)
(* long as no two destructors overlapped somebody lives who will close it. *)
(***************************************************************************)
EXTENDS SockRep, FiniteSetTheorems, BytesProofs

\* A sockbuf that was created holds a sockcnt, whose creator holds it too.
RepSound ==
  \A b \in Buf : /\ state[b] = "none" => rep[b] = NoRep
                 /\ state[b] # "none" => rep[b] \in Buf /\ rep[rep[b]] = rep[b]

\* The descriptor of a sockcnt is its own until it is closed.
SockSound ==
  \A r \in Buf : rep[r] = r => /\ sock[r] \in Fd
                               /\ closes[r] = 0 => owner[sock[r]] = r

\* A sockcnt is closed once at most, and when it is, nobody lives on it; one
\* that is not closed has somebody left to close it, if no destructors raced.
CloseSound ==
  \A r \in Buf :
    /\ closes[r] \in {0, 1}
    /\ rep[r] # r => closes[r] = 0
    /\ closes[r] = 1 => \A b \in Buf : ~(state[b] = "live" /\ rep[b] = r)
    /\ (r \notin raced /\ rep[r] = r /\ closes[r] = 0)
         => \E b \in Buf : state[b] = "live" /\ rep[b] = r

\* A sockbuf through which a socket was shut down for writing has no put area.
ShutSound ==
  /\ \A s \in wrshut : state[s[2]] # "none"
  /\ \A b \in Buf : (state[b] = "live" /\ <<FdOf(b), b>> \in wrshut) => put[b] = "null"

\* The inductive invariant.
IInv ==
  /\ TypeOK
  /\ RepSound
  /\ SockSound
  /\ CloseSound
  /\ ShutSound
  /\ TerminatedOnlyBy

------------------------------------------------------------------------------
(* The operators.                                                          *)

\* The holders of a sockcnt, and what their number tells.
Holders(r) == {b \in Buf : rep[b] = r /\ state[b] \in {"live", "dying"}}

\* A use count of 0 means no holder, one of 1 means that every holder is the
\* same sockbuf.
LEMMA UseCountTells ==
  ASSUME NEW r
  PROVE  /\ UseCount(r) = 0 => \A b \in Buf : b \notin Holders(r)
         /\ UseCount(r) = 1 => \A b, c \in Holders(r) : b = c
         /\ UseCount(r) # 1 => \A b \in Holders(r) : \E c \in Holders(r) : c # b
<1>1. IsFiniteSet(Holders(r))
  BY BufAssumption, FS_Subset DEF Holders
<1>2. UseCount(r) = Cardinality(Holders(r))
  BY DEF UseCount, Holders
<1>3. UseCount(r) = 0 => Holders(r) = {}
  BY <1>1, <1>2, FS_EmptySet
<1>4. UseCount(r) = 1 <=> \E x : Holders(r) = {x}
  BY <1>1, <1>2, FS_Singleton
<1>5. ASSUME UseCount(r) # 1, NEW b \in Holders(r)
      PROVE  \E c \in Holders(r) : c # b
  BY <1>4, <1>5
<1> QED
  BY <1>3, <1>4, <1>5

\* Of the free descriptors there is a lowest.
LEMMA LowestFree ==
  ASSUME Free # {}
  PROVE  LET f == CHOOSE x \in Free : \A y \in Free : x <= y
         IN  f \in Fd /\ owner[f] = NoRep
<1>1. Free \in SUBSET Nat /\ Free \subseteq Fd
  BY FdAssumption DEF Free, Fd
<1>2. \E x \in Free : \A y \in Free : x <= y
  BY <1>1, Least
<1>3. (CHOOSE z \in Free : \A y \in Free : z <= y) \in Free
  BY <1>2
<1> QED
  BY <1>3 DEF Free

\* A live sockbuf has a sockcnt, not closed, and its descriptor.
LEMMA LiveFacts ==
  ASSUME IInv, NEW b \in Buf, state[b] = "live"
  PROVE  /\ rep[b] \in Buf /\ rep[rep[b]] = rep[b]
         /\ closes[rep[b]] = 0
         /\ FdOf(b) \in Fd /\ owner[FdOf(b)] = rep[b]
<1>1. rep[b] \in Buf /\ rep[rep[b]] = rep[b]
  BY DEF IInv, RepSound
<1>2. closes[rep[b]] = 0
  BY <1>1 DEF IInv, CloseSound
<1> QED
  BY <1>1, <1>2 DEF IInv, SockSound, FdOf

------------------------------------------------------------------------------
(* The actions.                                                            *)

\* In the beginning there is no sockbuf.
LEMMA InitIInv == Init => IInv
<1> SUFFICES ASSUME Init PROVE IInv
  OBVIOUS
<1>1. TypeOK
  BY DEF Init, TypeOK
<1>2. RepSound /\ SockSound /\ CloseSound /\ ShutSound /\ TerminatedOnlyBy
  BY BufAssumption DEF Init, RepSound, SockSound, CloseSound, ShutSound, TerminatedOnlyBy
<1> QED
  BY <1>1, <1>2 DEF IInv

\* A new sockcnt takes a descriptor that belongs to none.
LEMMA CreateKeeps ==
  ASSUME IInv, NEW b \in Buf, Create(b) PROVE IInv'
<1>1. PICK f : f = CHOOSE x \in Free : \A y \in Free : x <= y
  OBVIOUS
<1>2. f \in Fd /\ owner[f] = NoRep
  BY <1>1, LowestFree DEF Create
<1>3. /\ fate = "running" /\ state[b] = "none"
      /\ sock' = [sock EXCEPT ![b] = f]
      /\ owner' = [owner EXCEPT ![f] = b]
      /\ wrshut' = wrshut \ ({f} \X Buf)
      /\ reset' = reset \ {f}
      /\ state' = [state EXCEPT ![b] = "live"]
      /\ rep' = [rep EXCEPT ![b] = b]
      /\ put' = [put EXCEPT ![b] = "clean"]
      /\ get' = [get EXCEPT ![b] = "area"]
      /\ heap' = heap \cup {<<b, "put">>, <<b, "get">>}
      /\ UNCHANGED <<closes, raced, fate>>
  BY <1>1 DEF Create, Running
<1>4. TypeOK
  BY DEF IInv
<1>5. rep[b] = NoRep /\ b # NoRep
  BY <1>3, BufAssumption DEF IInv, RepSound
<1>6. TypeOK'
  BY <1>2, <1>3, <1>4 DEF TypeOK
<1>7. \A c \in Buf \ {b} : state'[c] = state[c] /\ rep'[c] = rep[c] /\ put'[c] = put[c]
  BY <1>3, <1>4 DEF TypeOK
<1>8. state'[b] = "live" /\ rep'[b] = b /\ sock'[b] = f /\ owner'[f] = b
  BY <1>2, <1>3, <1>4 DEF TypeOK
<1>9. \A c \in Buf \ {b} : rep[c] # b
  <2>1. ASSUME NEW c \in Buf \ {b}, rep[c] = b PROVE FALSE
    BY <1>5, <2>1 DEF IInv, RepSound
  <2> QED
    BY <2>1
<1>10. RepSound'
  BY <1>5, <1>7, <1>8, <1>9, BufAssumption DEF IInv, RepSound
<1>11. SockSound'
  <2>1. ASSUME NEW r \in Buf, rep'[r] = r, r # b
        PROVE  sock'[r] \in Fd /\ (closes'[r] = 0 => owner'[sock'[r]] = r)
    <3>1. rep[r] = r /\ sock'[r] = sock[r] /\ closes'[r] = closes[r]
      BY <1>3, <1>4, <1>7, <2>1 DEF TypeOK
    <3>2. sock[r] \in Fd /\ (closes[r] = 0 => owner[sock[r]] = r)
      BY <2>1, <3>1 DEF IInv, SockSound
    <3>3. closes[r] = 0 => sock[r] # f
      BY <1>2, <2>1, <3>2, BufAssumption
    <3> QED
      BY <1>3, <1>4, <3>1, <3>2, <3>3 DEF TypeOK
  <2> QED
    BY <1>2, <1>8, <2>1 DEF SockSound
<1>12. CloseSound'
  <2>1. closes[b] = 0
    BY <1>5 DEF IInv, CloseSound
  <2>2. ASSUME NEW r \in Buf, r # b
        PROVE  /\ closes'[r] \in {0, 1}
               /\ rep'[r] # r => closes'[r] = 0
               /\ closes'[r] = 1 => \A c \in Buf : ~(state'[c] = "live" /\ rep'[c] = r)
               /\ (r \notin raced' /\ rep'[r] = r /\ closes'[r] = 0)
                    => \E c \in Buf : state'[c] = "live" /\ rep'[c] = r
    <3>1. rep'[r] = rep[r] /\ closes'[r] = closes[r] /\ raced' = raced
      BY <1>3, <1>7, <2>2
    <3>2. \A c \in Buf : (state'[c] = "live" /\ rep'[c] = r) <=> (state[c] = "live" /\ rep[c] = r)
      BY <1>3, <1>5, <1>7, <1>8, <2>2
    <3> QED
      BY <3>1, <3>2 DEF IInv, CloseSound
  <2> QED
    BY <1>3, <1>8, <2>1, <2>2 DEF CloseSound
<1>13. ShutSound'
  <2>1. \A s \in wrshut' : state'[s[2]] # "none"
    <3>1. ASSUME NEW s \in wrshut' PROVE state'[s[2]] # "none"
      <4>1. s \in wrshut /\ s[2] \in Buf
        BY <1>3, <1>4 DEF TypeOK
      <4> QED
        BY <1>7, <1>8, <4>1 DEF IInv, ShutSound
    <3> QED
      BY <3>1
  <2>2. ASSUME NEW c \in Buf, state'[c] = "live", <<sock'[rep'[c]], c>> \in wrshut'
        PROVE  put'[c] = "null"
    <3>1. <<sock'[rep'[c]], c>> \in wrshut /\ sock'[rep'[c]] # f
      BY <1>3, <2>2
    <3>2. c # b
      BY <1>8, <3>1
    <3>3. rep'[c] = rep[c] /\ rep[c] # b /\ put'[c] = put[c] /\ state[c] = "live"
      BY <1>7, <1>9, <2>2, <3>2
    <3>4. rep[c] \in Buf
      BY <3>3 DEF IInv, RepSound
    <3>5. sock'[rep'[c]] = FdOf(c)
      BY <1>3, <1>4, <3>3, <3>4 DEF TypeOK, FdOf
    <3> QED
      BY <3>1, <3>3, <3>5 DEF IInv, ShutSound
  <2> QED
    BY <2>1, <2>2 DEF ShutSound, FdOf
<1> QED
  BY <1>3, <1>6, <1>10, <1>11, <1>12, <1>13 DEF IInv, TerminatedOnlyBy

\* A copy shares the sockcnt of a live sockbuf, which nobody has closed.
LEMMA CopyKeeps ==
  ASSUME IInv, NEW b \in Buf, NEW c \in Buf, Copy(b, c) PROVE IInv'
<1>1. /\ fate = "running" /\ state[b] = "live" /\ state[c] = "none"
      /\ state' = [state EXCEPT ![c] = "live"]
      /\ rep' = [rep EXCEPT ![c] = rep[b]]
      /\ put' = [put EXCEPT ![c] = "null"]
      /\ get' = [get EXCEPT ![c] = "null"]
      /\ UNCHANGED <<sock, owner, wrshut, reset, heap, closes, raced, fate>>
  BY DEF Copy, Running
<1>2. TypeOK
  BY DEF IInv
<1>3. rep[b] \in Buf /\ rep[rep[b]] = rep[b] /\ closes[rep[b]] = 0
  BY <1>1, LiveFacts
<1>4. rep[c] = NoRep /\ c # NoRep /\ b # c /\ rep[b] # c
  BY <1>1, <1>3, BufAssumption DEF IInv, RepSound
<1>5. TypeOK'
  BY <1>1, <1>2, <1>3 DEF TypeOK
<1>6. /\ state'[c] = "live" /\ rep'[c] = rep[b] /\ put'[c] = "null"
      /\ \A d \in Buf \ {c} : state'[d] = state[d] /\ rep'[d] = rep[d] /\ put'[d] = put[d]
  BY <1>1, <1>2 DEF TypeOK
<1>7. \A d \in Buf : rep'[d] # c
  <2>1. ASSUME NEW d \in Buf, rep[d] = c PROVE FALSE
    BY <1>1, <1>4, <2>1, BufAssumption DEF IInv, RepSound
  <2> QED
    BY <1>4, <1>6, <2>1
<1>8. RepSound'
  <2>1. ASSUME NEW d \in Buf
        PROVE  /\ state'[d] = "none" => rep'[d] = NoRep
               /\ state'[d] # "none" => rep'[d] \in Buf /\ rep'[rep'[d]] = rep'[d]
    <3>1. CASE d = c
      BY <1>3, <1>4, <1>6, <3>1
    <3>2. CASE d # c
      <4>1. /\ state[d] = "none" => rep[d] = NoRep
            /\ state[d] # "none" => rep[d] \in Buf /\ rep[rep[d]] = rep[d]
        BY DEF IInv, RepSound
      <4>2. rep[d] # c
        BY <1>6, <1>7, <3>2
      <4> QED
        BY <1>6, <3>2, <4>1, <4>2
    <3> QED
      BY <3>1, <3>2
  <2> QED
    BY <2>1 DEF RepSound
<1>9. \A r \in Buf : rep'[r] = r <=> rep[r] = r
  BY <1>4, <1>6, <1>7
<1>10. SockSound'
  BY <1>1, <1>9 DEF IInv, SockSound
<1>11. CloseSound'
  <2>1. ASSUME NEW r \in Buf
        PROVE  /\ closes[r] = 1 => \A d \in Buf : ~(state'[d] = "live" /\ rep'[d] = r)
               /\ (r \notin raced /\ rep[r] = r /\ closes[r] = 0)
                    => \E d \in Buf : state'[d] = "live" /\ rep'[d] = r
    <3>1. /\ closes[r] = 1 => \A d \in Buf : ~(state[d] = "live" /\ rep[d] = r)
          /\ (r \notin raced /\ rep[r] = r /\ closes[r] = 0)
               => \E d \in Buf : state[d] = "live" /\ rep[d] = r
      BY DEF IInv, CloseSound
    <3>2. \A d \in Buf : (state[d] = "live" /\ rep[d] = r) => d # c
      BY <1>1
    <3> QED
      BY <1>3, <1>6, <3>1, <3>2
  <2> QED
    BY <1>1, <1>9, <2>1 DEF IInv, CloseSound
<1>12. ShutSound'
  <2>1. \A s \in wrshut' : state'[s[2]] # "none"
    BY <1>1, <1>2, <1>6 DEF IInv, ShutSound, TypeOK
  <2>2. ASSUME NEW d \in Buf, state'[d] = "live", <<sock'[rep'[d]], d>> \in wrshut'
        PROVE  put'[d] = "null"
    <3>1. CASE d = c
      BY <1>6, <3>1
    <3>2. CASE d # c
      BY <1>1, <1>6, <2>2, <3>2 DEF IInv, ShutSound, FdOf
    <3> QED
      BY <3>1, <3>2
  <2> QED
    BY <2>1, <2>2 DEF ShutSound, FdOf
<1> QED
  BY <1>1, <1>5, <1>8, <1>10, <1>11, <1>12 DEF IInv, TerminatedOnlyBy

\* Steps that leave the sockbufs, their sockcnts and the descriptors alone.
LEMMA FrameKeeps ==
  ASSUME IInv, TypeOK', fate = "running",
         UNCHANGED <<state, rep, sock, owner, closes, raced, fate>>, ShutSound'
  PROVE  IInv'
BY DEF IInv, RepSound, SockSound, CloseSound, TerminatedOnlyBy

\* Bytes come into a put area that is there and leave it.
LEMMA PutKeeps ==
  ASSUME IInv, NEW b \in Buf, Put(b) \/ Pubsync(b) PROVE IInv'
<1>1. /\ fate = "running" /\ state[b] = "live" /\ put[b] # "null"
      /\ (put' = [put EXCEPT ![b] = "dirty"] \/ put' = [put EXCEPT ![b] = "clean"])
      /\ UNCHANGED <<state, rep, get, sock, owner, wrshut, reset, heap, closes, raced, fate>>
  BY DEF Put, Pubsync, Running
<1>2. TypeOK
  BY DEF IInv
<1>3. TypeOK'
  BY <1>1, <1>2 DEF TypeOK
<1>4. \A c \in Buf : put[c] = "null" => put'[c] = "null"
  BY <1>1, <1>2 DEF TypeOK
<1>5. ShutSound'
  BY <1>1, <1>4 DEF IInv, ShutSound, FdOf
<1> QED
  BY <1>1, <1>3, <1>5, FrameKeeps

\* shutdown deletes the areas of the side it ends before it ends it.
LEMMA ShutdownKeeps ==
  ASSUME IInv, NEW b \in Buf, NEW how \in {"read", "write", "readwrite"},
         Shutdown(b, how)
  PROVE  IInv'
<1>1. PICK r \in BOOLEAN, w \in BOOLEAN, done \in BOOLEAN :
        /\ get' = [get EXCEPT ![b] = IF r THEN "null" ELSE @]
        /\ put' = [put EXCEPT ![b] = IF w THEN "null" ELSE @]
        /\ heap' = heap \ ((IF r THEN {<<b, "get">>} ELSE {})
                           \cup (IF w THEN {<<b, "put">>} ELSE {}))
        /\ wrshut' = IF w /\ done THEN wrshut \cup {<<FdOf(b), b>>} ELSE wrshut
  <2>1. PICK rfails \in BOOLEAN, wfails \in BOOLEAN :
          LET rr == how # "write"
              ww == how = "write" \/ (how = "readwrite" /\ ~rfails) IN
          /\ get' = [get EXCEPT ![b] = IF rr THEN "null" ELSE @]
          /\ put' = [put EXCEPT ![b] = IF ww THEN "null" ELSE @]
          /\ heap' = heap \ ((IF rr THEN {<<b, "get">>} ELSE {})
                             \cup (IF ww THEN {<<b, "put">>} ELSE {}))
          /\ wrshut' = IF ww /\ ~wfails THEN wrshut \cup {<<FdOf(b), b>>} ELSE wrshut
    BY DEF Shutdown
  <2> DEFINE rr == how # "write"
             ww == how = "write" \/ (how = "readwrite" /\ ~rfails)
  <2>2. rr \in BOOLEAN /\ ww \in BOOLEAN /\ (~wfails) \in BOOLEAN
    OBVIOUS
  <2> QED
    BY <2>1, <2>2
<1>2. /\ fate = "running" /\ state[b] = "live"
      /\ UNCHANGED <<state, rep, sock, owner, reset, closes, raced, fate>>
  BY DEF Shutdown, Running
<1>3. TypeOK
  BY DEF IInv
<1>4. FdOf(b) \in Fd
  BY <1>2, LiveFacts
<1>5. wrshut' \subseteq wrshut \cup {<<FdOf(b), b>>} /\ (wrshut' # wrshut => w)
  BY <1>1
<1>6. /\ put' \in [Buf -> {"null", "clean", "dirty"}]
      /\ get' \in [Buf -> {"null", "area"}]
      /\ \A c \in Buf : c # b => put'[c] = put[c] /\ get'[c] = get[c]
      /\ put'[b] = (IF w THEN "null" ELSE put[b])
      /\ get'[b] = (IF r THEN "null" ELSE get[b])
  BY <1>1, <1>3 DEF TypeOK
<1>7. TypeOK'
  <2>1. wrshut' \subseteq Fd \X Buf /\ heap' \subseteq Buf \X {"put", "get"}
    BY <1>1, <1>3, <1>4, <1>5 DEF TypeOK
  <2>2. ASSUME NEW c \in Buf, state'[c] = "live"
        PROVE  /\ put'[c] # "null" => <<c, "put">> \in heap'
               /\ get'[c] # "null" => <<c, "get">> \in heap'
    <3>1. CASE c = b
      BY <1>1, <1>2, <1>3, <1>6, <2>2, <3>1 DEF TypeOK
    <3>2. CASE c # b
      BY <1>1, <1>2, <1>3, <1>6, <2>2, <3>2 DEF TypeOK
    <3> QED
      BY <3>1, <3>2
  <2> QED
    BY <1>2, <1>3, <1>6, <2>1, <2>2 DEF TypeOK
<1>8. ShutSound'
  <2>1. \A s \in wrshut' : state'[s[2]] # "none"
    BY <1>2, <1>5 DEF IInv, ShutSound
  <2>2. ASSUME NEW c \in Buf, state[c] = "live", <<FdOf(c), c>> \in wrshut'
        PROVE  put'[c] = "null"
    <3>1. CASE <<FdOf(c), c>> \in wrshut
      BY <1>6, <2>2, <3>1 DEF IInv, ShutSound
    <3>2. CASE <<FdOf(c), c>> \notin wrshut
      BY <1>5, <1>6, <2>2, <3>2
    <3> QED
      BY <3>1, <3>2
  <2> QED
    BY <1>2, <2>1, <2>2 DEF ShutSound, FdOf
<1> QED
  BY <1>2, <1>7, <1>8, FrameKeeps

\* A peer breaks a connection.
LEMMA BreakKeeps ==
  ASSUME IInv, NEW f \in Fd, Break(f) PROVE IInv'
<1>1. /\ fate = "running" /\ reset' = reset \cup {f}
      /\ UNCHANGED <<state, rep, put, get, sock, owner, wrshut, heap, closes, raced, fate>>
  BY DEF Break
<1>2. TypeOK' /\ ShutSound'
  BY <1>1 DEF IInv, TypeOK, ShutSound, FdOf
<1> QED
  BY <1>1, <1>2, FrameKeeps

\* The flush of a destructor throws: the sockbuf still lives, its bytes wait,
\* and it is not through this sockbuf that the socket was shut down.
LEMMA TerminateKeeps ==
  ASSUME IInv, NEW b \in Buf, state[b] = "live", FlushFails(b), fate' = "terminated",
         UNCHANGED <<state, heap, owner, closes, raced, rep, put, get, sock, wrshut, reset>>
  PROVE  IInv'
<1>1. FdOf(b) \in Fd /\ put[b] = "dirty"
  BY LiveFacts DEF FlushFails
<1>2. FdOf(b) \in reset \/ \E c \in Buf \ {b} : <<FdOf(b), c>> \in wrshut
  BY <1>1 DEF FlushFails, CanWrite, IInv, ShutSound
<1>3. TerminatedOnlyBy'
  <2>1. /\ state'[b] = "live" /\ put'[b] = "dirty"
        /\ \/ FdOf(b)' \in reset'
           \/ \E c \in Buf \ {b} : <<FdOf(b)', c>> \in wrshut'
    BY <1>1, <1>2 DEF FdOf
  <2> QED
    BY <2>1 DEF TerminatedOnlyBy, FdOf
<1>4. TypeOK'
  BY DEF IInv, TypeOK
<1>5. RepSound' /\ SockSound' /\ CloseSound' /\ ShutSound'
  BY DEF IInv, RepSound, SockSound, CloseSound, ShutSound, FdOf
<1> QED
  BY <1>3, <1>4, <1>5 DEF IInv

\* The last holder deletes its areas, closes the descriptor and gives it back
\* to the kernel; nobody else lives who could use it.
LEMMA LastDtorKeeps ==
  ASSUME IInv, fate = "running", NEW b \in Buf, state[b] = "live",
         UseCount(rep[b]) = 1,
         state' = [state EXCEPT ![b] = "dying"],
         heap' \subseteq heap, heap \ heap' \subseteq {<<b, "put">>, <<b, "get">>},
         owner' = [owner EXCEPT ![FdOf(b)] = NoRep],
         closes' = [closes EXCEPT ![rep[b]] = @ + 1],
         raced \subseteq raced', raced' \subseteq Buf,
         UNCHANGED <<fate, rep, put, get, sock, wrshut, reset>>
  PROVE  IInv'
<1>1. PICK r \in Buf : r = rep[b]
  BY LiveFacts
<1>2. rep[r] = r /\ closes[r] = 0 /\ FdOf(b) \in Fd /\ FdOf(b) = sock[r]
      /\ owner[sock[r]] = r
  BY <1>1, LiveFacts DEF FdOf
<1>3. TypeOK
  BY DEF IInv
<1>4. /\ state'[b] = "dying" /\ \A c \in Buf \ {b} : state'[c] = state[c]
      /\ closes'[r] = 1 /\ \A q \in Buf \ {r} : closes'[q] = closes[q]
      /\ owner'[sock[r]] = NoRep /\ \A f \in Fd \ {sock[r]} : owner'[f] = owner[f]
  BY <1>1, <1>2, <1>3 DEF TypeOK
<1>5. \A c \in Buf : rep[c] = r /\ state[c] \in {"live", "dying"} => c = b
  BY <1>1, UseCountTells DEF Holders
<1>6. TypeOK'
  <2>1. closes' \in [Buf -> Nat] /\ state' \in [Buf -> {"none", "live", "dying", "gone"}]
        /\ owner' \in [Fd -> Buf \cup {NoRep}] /\ heap' \subseteq (Buf \X {"put", "get"})
    BY <1>1, <1>2, <1>3, <1>4 DEF TypeOK
  <2>2. ASSUME NEW c \in Buf, state'[c] = "live"
        PROVE  /\ put'[c] # "null" => <<c, "put">> \in heap'
               /\ get'[c] # "null" => <<c, "get">> \in heap'
    <3>1. c # b /\ state[c] = "live"
      BY <1>4, <2>2
    <3>2. /\ put[c] # "null" => <<c, "put">> \in heap
          /\ get[c] # "null" => <<c, "get">> \in heap
      BY <1>3, <3>1 DEF TypeOK
    <3> QED
      BY <3>1, <3>2
  <2> QED
    BY <1>3, <2>1, <2>2 DEF TypeOK
<1>7. RepSound'
  BY <1>4 DEF IInv, RepSound
<1>8. SockSound'
  <2>1. ASSUME NEW q \in Buf, rep[q] = q
        PROVE  sock[q] \in Fd /\ (closes'[q] = 0 => owner'[sock[q]] = q)
    <3>1. sock[q] \in Fd /\ (closes[q] = 0 => owner[sock[q]] = q)
      BY <2>1 DEF IInv, SockSound
    <3>2. CASE q = r
      BY <1>4, <3>1, <3>2
    <3>3. CASE q # r
      BY <1>2, <1>4, <3>1, <3>3
    <3> QED
      BY <3>2, <3>3
  <2> QED
    BY <2>1 DEF SockSound
<1>9. CloseSound'
  <2>1. ASSUME NEW q \in Buf
        PROVE  /\ closes'[q] \in {0, 1}
               /\ rep'[q] # q => closes'[q] = 0
               /\ closes'[q] = 1 => \A c \in Buf : ~(state'[c] = "live" /\ rep'[c] = q)
               /\ (q \notin raced' /\ rep'[q] = q /\ closes'[q] = 0)
                    => \E c \in Buf : state'[c] = "live" /\ rep'[c] = q
    <3>1. CASE q = r
      <4>1. \A c \in Buf : ~(state'[c] = "live" /\ rep'[c] = r)
        BY <1>4, <1>5
      <4> QED
        BY <1>2, <1>4, <3>1, <4>1
    <3>2. CASE q # r
      <4>1. \A c \in Buf : (state'[c] = "live" /\ rep'[c] = q) <=> (state[c] = "live" /\ rep[c] = q)
        BY <1>1, <1>4, <3>2
      <4>2. /\ closes[q] \in {0, 1}
            /\ rep[q] # q => closes[q] = 0
            /\ closes[q] = 1 => \A c \in Buf : ~(state[c] = "live" /\ rep[c] = q)
            /\ (q \notin raced /\ rep[q] = q /\ closes[q] = 0)
                 => \E c \in Buf : state[c] = "live" /\ rep[c] = q
        BY DEF IInv, CloseSound
      <4>3. q \notin raced' => q \notin raced
        OBVIOUS
      <4> QED
        BY <1>4, <3>2, <4>1, <4>2, <4>3
    <3> QED
      BY <3>1, <3>2
  <2> QED
    BY <2>1 DEF CloseSound
<1>10. ShutSound'
  BY <1>3, <1>4 DEF IInv, ShutSound, FdOf, TypeOK
<1> QED
  BY <1>6, <1>7, <1>8, <1>9, <1>10 DEF IInv, TerminatedOnlyBy

\* Another one holds the sockcnt: it lives and will close, or it is dying and
\* the two destructors have overlapped.
LEMMA SharedDtorKeeps ==
  ASSUME IInv, fate = "running", NEW b \in Buf, state[b] = "live",
         UseCount(rep[b]) # 1,
         state' = [state EXCEPT ![b] = "dying"],
         raced' = raced \cup {rep[c] : c \in {x \in Buf : state[x] = "dying"
                                                         /\ rep[x] = rep[b]}},
         UNCHANGED <<heap, owner, closes, fate, rep, put, get, sock, wrshut, reset>>
  PROVE  IInv'
<1>1. PICK r \in Buf : r = rep[b]
  BY LiveFacts
<1>2. TypeOK
  BY DEF IInv
<1>3. state'[b] = "dying" /\ \A c \in Buf \ {b} : state'[c] = state[c]
  BY <1>2 DEF TypeOK
<1>4. PICK d \in Buf \ {b} : rep[d] = r /\ state[d] \in {"live", "dying"}
  <2>1. b \in Holders(r)
    BY <1>1 DEF Holders
  <2>2. \E d \in Holders(r) : d # b
    BY <1>1, <2>1, UseCountTells
  <2> QED
    BY <2>2 DEF Holders
<1>5. raced' \subseteq Buf /\ raced \subseteq raced'
  <2>1. \A c \in Buf : rep[c] = rep[b] => rep[c] \in Buf
    BY <1>1
  <2> QED
    BY <1>2, <2>1 DEF TypeOK
<1>6. state[d] = "dying" => r \in raced'
  BY <1>1, <1>4
<1>7. TypeOK'
  BY <1>2, <1>3, <1>5 DEF TypeOK
<1>8. RepSound' /\ SockSound'
  BY <1>3 DEF IInv, RepSound, SockSound
<1>9. CloseSound'
  <2>1. ASSUME NEW q \in Buf
        PROVE  /\ closes[q] = 1 => \A c \in Buf : ~(state'[c] = "live" /\ rep[c] = q)
               /\ (q \notin raced' /\ rep[q] = q /\ closes[q] = 0)
                    => \E c \in Buf : state'[c] = "live" /\ rep[c] = q
    <3>1. /\ closes[q] = 1 => \A c \in Buf : ~(state[c] = "live" /\ rep[c] = q)
          /\ (q \notin raced /\ rep[q] = q /\ closes[q] = 0)
               => \E c \in Buf : state[c] = "live" /\ rep[c] = q
      BY DEF IInv, CloseSound
    <3>2. \A c \in Buf : state'[c] = "live" => state[c] = "live"
      BY <1>3
    <3>3. ASSUME q \notin raced', rep[q] = q, closes[q] = 0
          PROVE  \E c \in Buf : state'[c] = "live" /\ rep[c] = q
      <4>1. CASE q = r
        BY <1>3, <1>4, <1>6, <3>3, <4>1
      <4>2. CASE q # r
        BY <1>1, <1>3, <1>5, <3>1, <3>3, <4>2
      <4> QED
        BY <4>1, <4>2
    <3> QED
      BY <3>1, <3>2, <3>3
  <2> QED
    BY <2>1 DEF IInv, CloseSound
<1>10. ShutSound'
  BY <1>2, <1>3 DEF IInv, ShutSound, FdOf, TypeOK
<1> QED
  BY <1>7, <1>8, <1>9, <1>10 DEF IInv, TerminatedOnlyBy

\* The body of the destructor.
LEMMA DtorBodyKeeps ==
  ASSUME IInv, NEW b \in Buf, DtorBody(b) PROVE IInv'
<1>1. fate = "running" /\ state[b] = "live" /\ UNCHANGED <<rep, put, get, sock, wrshut, reset>>
  BY DEF DtorBody, Running
<1>2. CASE FlushFails(b) /\ fate' = "terminated" /\ UNCHANGED <<state, heap, owner, closes, raced>>
  BY <1>1, <1>2, TerminateKeeps
<1>3. CASE ~FlushFails(b)
  <2>1. /\ state' = [state EXCEPT ![b] = "dying"]
        /\ raced' = raced \cup {rep[c] : c \in {x \in Buf : state[x] = "dying"
                                                           /\ rep[x] = rep[b]}}
        /\ UNCHANGED fate
    BY <1>3 DEF DtorBody
  <2>2. CASE UseCount(rep[b]) = 1
    <3>1. /\ heap' = heap \ {a \in {<<b, "put">>, <<b, "get">>} :
                               \/ a[2] = "put" /\ put[b] # "null"
                               \/ a[2] = "get" /\ get[b] # "null"}
          /\ owner' = [owner EXCEPT ![FdOf(b)] = NoRep]
          /\ closes' = [closes EXCEPT ![rep[b]] = @ + 1]
      BY <1>3, <2>2 DEF DtorBody
    <3>2. heap' \subseteq heap /\ heap \ heap' \subseteq {<<b, "put">>, <<b, "get">>}
      BY <3>1
    <3>3. raced \subseteq raced' /\ raced' \subseteq Buf
      <4>1. rep[b] \in Buf
        BY <1>1, LiveFacts
      <4> QED
        BY <2>1, <4>1 DEF IInv, TypeOK
    <3> QED
      BY <1>1, <2>1, <2>2, <3>1, <3>2, <3>3, LastDtorKeeps
  <2>3. CASE UseCount(rep[b]) # 1
    <3>1. UNCHANGED <<heap, owner, closes>>
      BY <1>3, <2>3 DEF DtorBody
    <3> QED
      BY <1>1, <2>1, <2>3, <3>1, SharedDtorKeeps
  <2> QED
    BY <2>2, <2>3
<1> QED
  BY <1>2, <1>3 DEF DtorBody

\* The end of the destructor drops the reference of a sockbuf that is dying.
LEMMA DtorMembersKeeps ==
  ASSUME IInv, NEW b \in Buf, DtorMembers(b) PROVE IInv'
<1>1. /\ fate = "running" /\ state[b] = "dying"
      /\ state' = [state EXCEPT ![b] = "gone"]
      /\ UNCHANGED <<rep, put, get, sock, owner, wrshut, reset, heap, closes, raced, fate>>
  BY DEF DtorMembers
<1>2. TypeOK
  BY DEF IInv
<1>3. state'[b] = "gone" /\ \A c \in Buf \ {b} : state'[c] = state[c]
  BY <1>1, <1>2 DEF TypeOK
<1>4. \A c \in Buf : (state'[c] = "live" <=> state[c] = "live")
                      /\ (state'[c] = "none" <=> state[c] = "none")
  BY <1>1, <1>3
<1>5. TypeOK'
  BY <1>1, <1>2, <1>4 DEF TypeOK
<1>6. RepSound' /\ SockSound' /\ CloseSound'
  BY <1>1, <1>4 DEF IInv, RepSound, SockSound, CloseSound
<1>7. ShutSound'
  BY <1>1, <1>2, <1>4 DEF IInv, ShutSound, FdOf, TypeOK
<1> QED
  BY <1>1, <1>5, <1>6, <1>7 DEF IInv, TerminatedOnlyBy

------------------------------------------------------------------------------
(* The theorems.                                                           *)

\* Every step, of whichever thread, keeps the inductive invariant.
THEOREM IInvInductive == IInv /\ [Next]_vars => IInv'
<1>1. ASSUME IInv, UNCHANGED vars PROVE IInv'
  <2>1. UNCHANGED <<state, rep, put, get, sock, owner, wrshut, reset, heap, closes,
                    raced, fate>>
    BY <1>1 DEF vars
  <2>2. TypeOK' /\ TerminatedOnlyBy'
    BY <1>1, <2>1 DEF IInv, TypeOK, TerminatedOnlyBy, FdOf
  <2> QED
    BY <1>1, <2>1, <2>2
    DEF IInv, RepSound, SockSound, CloseSound, ShutSound, FdOf
<1> QED
  BY <1>1, CreateKeeps, CopyKeeps, PutKeeps, ShutdownKeeps, DtorBodyKeeps,
     DtorMembersKeeps, BreakKeeps DEF Next

\* The inductive invariant holds in every behaviour.
THEOREM IInvAlways == Spec => []IInv
  BY InitIInv, IInvInductive, PTL DEF Spec

\* The state keeps its types, and no area pointer of a live sockbuf dangles.
THEOREM TypeCorrect == Spec => []TypeOK
<1>1. IInv => TypeOK
  BY DEF IInv
<1> QED
  BY <1>1, IInvAlways, PTL

\* No sockbuf that lives uses a descriptor that is closed or somebody else's.
THEOREM OwnSocket == Spec => []SocketStaysOurs
<1>1. IInv => SocketStaysOurs
  BY LiveFacts DEF SocketStaysOurs
<1> QED
  BY <1>1, IInvAlways, PTL

\* A socket is closed once at most, and once when its last holder has gone,
\* but for destructors that overlap.
THEOREM OneClose == Spec => []ClosedOnce
<1>1. IInv => ClosedOnce
  <2> SUFFICES ASSUME IInv, NEW r \in Buf
      PROVE  /\ closes[r] <= 1
             /\ (r \notin raced /\ rep[r] = r /\ UseCount(r) = 0) => closes[r] = 1
    BY DEF ClosedOnce
  <2>1. closes[r] \in {0, 1}
    BY DEF IInv, CloseSound
  <2>2. ASSUME r \notin raced, rep[r] = r, UseCount(r) = 0 PROVE closes[r] = 1
    <3>1. \A b \in Buf : ~(state[b] = "live" /\ rep[b] = r)
      BY <2>2, UseCountTells DEF Holders
    <3> QED
      BY <2>1, <2>2, <3>1 DEF IInv, CloseSound
  <2> QED
    BY <2>1, <2>2
<1> QED
  BY <1>1, IInvAlways, PTL

\* A destructor ends the program only when a reset connection, or a shutdown
\* through another sockbuf, keeps it from writing what it holds.
THEOREM TerminationCause == Spec => []TerminatedOnlyBy
<1>1. IInv => TerminatedOnlyBy
  BY DEF IInv
<1> QED
  BY <1>1, IInvAlways, PTL
=============================================================================

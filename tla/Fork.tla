--------------------------------- MODULE Fork ---------------------------------
(***************************************************************************)
(* socketpp::Fork (socket++/fork.cpp): the list of the ForkProcess objects *)
(* of a process that has forked children, and the code that changes it:    *)
(* the constructor and the destructor of ForkProcess in the main program,  *)
(* the SIGCHLD handler reaper_nohang, the SIGTERM handler commit_suicide,  *)
(* and ~KillForks at exit.                                                 *)
(*                                                                         *)
(* One step is the straight-line code between two points where a signal or *)
(* a child makes a difference: a system call, or a load of a list pointer  *)
(* and the store that uses it.  The handlers mask only their own signal,   *)
(* so either may come upon the main program at any step, and SIGTERM upon  *)
(* the SIGCHLD handler.  The i-th object created and its child are both i; *)
(* 0 is the null pointer.                                                  *)
(*                                                                         *)
(* Using a deleted object is undefined behaviour: here the process crashes *)
(* or finds the old contents; deleting one twice crashes.                  *)
(***************************************************************************)
EXTENDS Integers

CONSTANT N      \* bound: Fork objects created

ASSUME NAssumption == N \in Nat \ {0}

Obj == 1 .. N
Ptr == 0 .. N

VARIABLES
  mem,      \* of each ForkProcess: "none", "live", "freed"
  scope,    \* the Fork objects that exist; Fork i holds ForkProcess i
  pid,      \* ForkProcess::pid
  kill,     \* ForkProcess::kill_child
  next,     \* ForkProcess::next
  list,     \* ForkProcess::list
  main,     \* the control state of the main program or of commit_suicide:
            \* pc; the object this of a constructor or destructor, its caller,
            \* its predecessor and what follows it; the cursor of a loop
  hpid,     \* reaper_nohang is between waitpid, which gave hpid, and its search
  suicide,  \* commit_suicide is SIGTERM's handler, and not running
  exiting,  \* exit () was called
  masked,   \* SIGCHLD is blocked for good: SIGTERM came upon its handler
  chld,     \* SIGCHLD is pending
  proc,     \* of each child: "none", "starting" (its constructor not done),
            \* "running", "zombie", "reaped"
  term,     \* the children that SIGTERM was sent to
  inherits, \* of each child: the list it was forked with, and whether with
            \* SIGTERM handled by commit_suicide
  early,    \* ghost: a handler came upon a constructor between fork () and the
            \* end of the linking: SIGTERM's, or the reaper for the child that
            \* is being added or for the one it is put in front of
  during,   \* ghost: the reaper took a child from under ~KillForks or
            \* commit_suicide
  twice,    \* ghost: SIGTERM came upon ~KillForks
  merged,   \* ghost: a child died while SIGCHLD was pending
  stray,    \* ghost: a signal was sent to a pid that is no child's any more
  hurt,     \* ghost: the children that a sibling sent a signal to
  ub        \* ghost: the functions that used a deleted object

objects == <<mem, scope, pid, kill, next, list>>
control == <<main, hpid, suicide, exiting, masked>>
children == <<chld, proc, term, inherits>>
ghosts == <<early, during, twice, merged, stray, hurt>>
vars == <<mem, scope, pid, kill, next, list, main, hpid, suicide, exiting,
          masked, chld, proc, term, inherits, early, during, twice, merged, stray, hurt, ub>>

Frame(pc) == [pc |-> pc, this |-> 0, caller |-> "none", pred |-> 0,
              after |-> 0, cur |-> 0]

Pcs == {"user", "fork", "next", "head", "exit", "delete", "reap", "find",
        "unlink", "return", "wait", "suicide", "gone", "crashed"}

\* Type invariant. The constructor links an object with a child only.
TypeOK ==
  /\ mem \in [Obj -> {"none", "live", "freed"}] /\ scope \subseteq Obj
  /\ pid \in [Obj -> -1 .. N] /\ kill \in [Obj -> BOOLEAN]
  /\ next \in [Obj -> Ptr] /\ list \in Ptr
  /\ main \in [pc : Pcs, this : Ptr, caller : {"none", "exit", "suicide"},
               pred : Ptr, after : Ptr, cur : Ptr]
  /\ hpid \in Ptr
  /\ suicide \in BOOLEAN /\ exiting \in BOOLEAN /\ masked \in BOOLEAN
  /\ chld \in BOOLEAN
  /\ proc \in [Obj -> {"none", "starting", "running", "zombie", "reaped"}]
  /\ term \subseteq Obj
  /\ inherits \in [Obj -> [list : SUBSET Obj, suicide : BOOLEAN]]
  /\ early \in BOOLEAN /\ merged \in BOOLEAN /\ stray \in BOOLEAN
  /\ during \in BOOLEAN /\ twice \in BOOLEAN /\ hurt \subseteq Obj
  /\ ub \subseteq {"~Fork", "~ForkProcess", "~KillForks", "commit_suicide",
                  "reaper_nohang"}
  /\ main.pc \in {"next", "head"} => pid[main.this] = main.this

Init ==
  /\ mem = [o \in Obj |-> "none"] /\ scope = {}
  /\ pid = [o \in Obj |-> 0] /\ kill = [o \in Obj |-> FALSE]
  /\ next = [o \in Obj |-> 0] /\ list = 0
  /\ main = Frame("user")
  /\ hpid = 0 /\ suicide = FALSE /\ exiting = FALSE /\ masked = FALSE
  /\ chld = FALSE
  /\ proc = [o \in Obj |-> "none"] /\ term = {}
  /\ inherits = [o \in Obj |-> [list |-> {}, suicide |-> FALSE]]
  /\ early = FALSE /\ merged = FALSE /\ stray = FALSE /\ hurt = {}
  /\ during = FALSE /\ twice = FALSE /\ ub = {}

\* S holds the object of pointer p, and with an object the one next to it.
Closed(p, S) ==
  /\ p \in S \cup {0}
  /\ \A o \in S : next[o] \in S \cup {0}

\* The objects reached from pointer p, p's own included.
Reach(p) == {o \in Obj : \A S \in SUBSET Obj : Closed(p, S) => o \in S}

Alive(c) == proc[c] \in {"starting", "running"}
Gone == main.pc \in {"gone", "crashed"}

\* The main program, or commit_suicide, is at pc and no reaper_nohang above it.
At(pc) == main.pc = pc /\ hpid = 0

\* Function f uses the objects S. If one was deleted it may find the old
\* contents, or crash.
Freed(S) == \E o \in S : mem[o] = "freed"
Uses(f, S) == ub' = IF Freed(S) THEN ub \cup {f} ELSE ub
Crash(f, S) ==
  /\ Freed(S)
  /\ main' = Frame("crashed")
  /\ ub' = ub \cup {f}
  /\ UNCHANGED <<objects, hpid, suicide, exiting, masked, children, ghosts>>

\* The children C die: SIGCHLD.
Die(C) ==
  /\ proc' = [c \in Obj |-> IF c \in C THEN "zombie" ELSE proc[c]]
  /\ chld' = (chld \/ C # {})
  /\ merged' = (merged \/ (chld /\ C # {}))

------------------------------------------------------------------------------
(* The main program: Fork objects come and go.                             *)

\* ForkProcess (kill, reason) up to fork (). The SIGCHLD handler it installs
\* on an empty list matters only once there is a child.
Construct(k) ==
  /\ At("user")
  /\ \E o \in Obj :
       /\ mem[o] = "none" /\ \A q \in Obj : q < o => mem[q] # "none"
       /\ mem' = [mem EXCEPT ![o] = "live"]
       /\ kill' = [kill EXCEPT ![o] = k]
       /\ main' = [Frame("fork") EXCEPT !.this = o]
  /\ UNCHANGED <<scope, pid, next, list, hpid, suicide, exiting, masked,
                 children, ghosts, ub>>

\* Does the constructor add the object to the list? Seeded fault: a failed
\* fork () is taken for the parent's side.
LinksFailed(p) == p # 0
Links(p) == p > 0

\* pid = fork (): the child has a copy of the list and of the handlers; or -1.
DoFork ==
  /\ At("fork")
  /\ LET o == main.this IN
     \E p \in {o, -1} :
       /\ pid' = [pid EXCEPT ![o] = p]
       /\ proc' = [proc EXCEPT ![o] = IF p > 0 THEN "starting" ELSE @]
       /\ inherits' = IF p > 0 THEN [inherits EXCEPT ![o] = [list |-> Reach(list),
                                                             suicide |-> suicide]]
                               ELSE inherits
       /\ scope' = scope \cup {o}
       /\ main' = IF Links(p) THEN [main EXCEPT !.pc = "next"] ELSE Frame("user")
  /\ UNCHANGED <<mem, kill, next, list, hpid, suicide, exiting, masked, chld,
                 term, ghosts, ub>>

\* next = list; and list = this. Seeded fault: next keeps its first value.
LinkNextNot ==
  /\ At("next")
  /\ main' = [main EXCEPT !.pc = "head"]
  /\ UNCHANGED <<objects, hpid, suicide, exiting, masked, children, ghosts, ub>>
LinkNext ==
  /\ At("next")
  /\ next' = [next EXCEPT ![main.this] = list]
  /\ main' = [main EXCEPT !.pc = "head"]
  /\ UNCHANGED <<mem, scope, pid, kill, list, hpid, suicide, exiting, masked,
                 children, ghosts, ub>>
LinkHead ==
  /\ At("head")
  /\ list' = main.this
  /\ main' = Frame("user")
  /\ UNCHANGED <<mem, scope, pid, kill, next, hpid, suicide, exiting, masked,
                 children, ghosts, ub>>

\* ~Fork: an object that has no child in this process is deleted; one that
\* has stays on the list. The reaper may have deleted it long before: what
\* process->pid then reads is anything, and a value <= 0 deletes it again.
DestroyFork(o) ==
  /\ At("user")
  /\ o \in scope
  /\ \/ /\ Uses("~Fork", {o})
        /\ mem' = [mem EXCEPT ![o] = IF mem[o] = "live" /\ pid[o] <= 0
                                     THEN "freed" ELSE @]
        /\ scope' = scope \ {o}
        /\ UNCHANGED <<pid, kill, next, list, control, children, ghosts>>
     \/ Crash("~Fork", {o})

\* Fork::suicide_signal (SIGTERM).
SuicideSignal ==
  /\ At("user") /\ ~suicide
  /\ suicide' = TRUE
  /\ UNCHANGED <<objects, main, hpid, exiting, masked, children, ghosts, ub>>

\* exit (), or the end of main (): ~KillForks runs.
Exit ==
  /\ At("user")
  /\ exiting' = TRUE
  /\ main' = [Frame("exit") EXCEPT !.cur = list]
  /\ UNCHANGED <<objects, hpid, suicide, masked, children, ghosts, ub>>

------------------------------------------------------------------------------
(* ~ForkProcess, called for main.this by ~KillForks and commit_suicide.    *)

\* delete: the memory is given back, and the caller goes on; a second time,
\* the program ends.
Free(o) ==
  \/ /\ mem[o] = "live"
     /\ mem' = [mem EXCEPT ![o] = "freed"]
     /\ main' = [Frame(IF main.caller = "exit" THEN "return" ELSE "suicide")
                   EXCEPT !.cur = main.cur]
  \/ /\ mem[o] # "live"
     /\ main' = Frame("crashed")
     /\ UNCHANGED mem

\* A child that kill_child marks gets SIGTERM.
Delete ==
  /\ At("delete")
  /\ LET o == main.this IN
     \/ /\ Uses("~ForkProcess", {o})
        /\ \/ /\ pid[o] <= 0
              /\ Free(o)
              /\ UNCHANGED <<term, stray>>
           \/ /\ pid[o] > 0
              /\ term' = IF kill[o] /\ Alive(o) THEN term \cup {o} ELSE term
              /\ stray' = (stray \/ (kill[o] /\ proc[o] = "reaped"))
              /\ main' = [main EXCEPT !.pc = "reap"]
              /\ UNCHANGED mem
        /\ UNCHANGED <<scope, pid, kill, next, list, hpid, suicide, exiting,
                       masked, chld, proc, inherits, early, during, twice, merged, hurt>>
     \/ Crash("~ForkProcess", {o})

\* reap_child: waitpid (pid) waits for the child, and fails at once if it was
\* reaped. A reaper that deleted the object meanwhile left pid = -1.
Reap ==
  /\ At("reap")
  /\ LET o == main.this IN
     \/ /\ Uses("~ForkProcess", {o})
        /\ pid[o] > 0 => ~Alive(o)
        /\ proc' = IF pid[o] > 0 THEN [proc EXCEPT ![o] = "reaped"] ELSE proc
        /\ main' = [main EXCEPT !.pc = "find"]
        /\ UNCHANGED <<objects, hpid, suicide, exiting, masked, chld, term,
                       inherits, ghosts>>
     \/ Crash("~ForkProcess", {o})

\* "I remove myself from list": the search for the predecessor, and the load
\* of what is to follow it (with no predecessor, pred is the object itself);
\* then the store, and the memory goes.
Find ==
  /\ At("find")
  /\ LET o == main.this
         path == (Reach(list) \ Reach(o)) \cup {o}
         before == {p \in Reach(list) : next[p] = o} IN
     \/ /\ Uses("~ForkProcess", path)
        /\ \E p \in IF list = o THEN {0} ELSE IF before = {} THEN {o} ELSE before :
             main' = [main EXCEPT !.pc = "unlink", !.pred = p, !.after = next[o]]
        /\ UNCHANGED <<objects, hpid, suicide, exiting, masked, children, ghosts>>
     \/ Crash("~ForkProcess", path)

Unlink ==
  /\ At("unlink")
  /\ LET o == main.this p == main.pred IN
     \/ /\ Uses("~ForkProcess", {p, o} \ {0})
        /\ list' = IF p = 0 THEN main.after ELSE list
        /\ next' = IF p \notin {0, o} THEN [next EXCEPT ![p] = main.after] ELSE next
        /\ Free(o)
        /\ UNCHANGED <<scope, pid, kill, hpid, suicide, exiting, masked,
                       children, ghosts>>
     \/ Crash("~ForkProcess", {p} \ {0})

------------------------------------------------------------------------------
(* ~KillForks.                                                             *)

\* The loop over the list deletes the objects with kill_child set, ...
KillLoop ==
  /\ At("exit")
  /\ LET o == main.cur IN
     \/ /\ Uses("~KillForks", {o} \ {0})
        /\ main' = IF o = 0 THEN Frame("wait")
                   ELSE IF kill[o]
                   THEN [main EXCEPT !.pc = "delete", !.this = o, !.caller = "exit"]
                   ELSE [main EXCEPT !.cur = next[o]]
        /\ UNCHANGED <<objects, hpid, suicide, exiting, masked, children, ghosts>>
     \/ Crash("~KillForks", {o} \ {0})

\* ... and then goes to cur->next, which was deleted with it.
KillNext ==
  /\ At("return")
  /\ \/ /\ Uses("~KillForks", {main.cur})
        /\ main' = [Frame("exit") EXCEPT !.cur = next[main.cur]]
        /\ UNCHANGED <<objects, hpid, suicide, exiting, masked, children, ghosts>>
     \/ Crash("~KillForks", {main.cur})

\* When wait (0) does not wait: no child is left. Seeded faults: it is asked not
\* to wait; its result is not looked at.
NoChildDead == \A c \in Obj : proc[c] # "zombie"
NoChildNever == FALSE
NoChild == \A c \in Obj : proc[c] \in {"none", "reaped"}

\* while (list && wait (0) > 0): any child that dies is reaped; its object
\* stays on the list.
WaitAll ==
  /\ At("wait")
  /\ \/ /\ list # 0
        /\ \E c \in Obj : /\ proc[c] = "zombie"
                          /\ proc' = [proc EXCEPT ![c] = "reaped"]
        /\ UNCHANGED main
     \/ /\ list = 0 \/ NoChild
        /\ main' = Frame("gone")
        /\ UNCHANGED proc
  /\ UNCHANGED <<objects, hpid, suicide, exiting, masked, chld, term,
                 inherits, ghosts, ub>>

------------------------------------------------------------------------------
(* The handlers.                                                           *)

\* SIGTERM, once: commit_suicide never returns to what it came upon.
Terminate ==
  /\ suicide /\ ~Gone
  /\ suicide' = FALSE
  /\ masked' = (masked \/ hpid # 0)
  /\ hpid' = 0
  /\ main' = [Frame("suicide") EXCEPT !.cur = list]
  /\ early' = (early \/ main.pc \in {"next", "head"})
  /\ twice' = (twice \/ exiting)
  /\ UNCHANGED <<objects, exiting, children, during, merged, stray, hurt, ub>>

\* Its loop: a child not marked kill_child gets SIGKILL (every process does,
\* when the object's pid is -1), and the object is deleted; after the loop
\* exit (), which runs ~KillForks, unless it is running already.
SuicideLoop ==
  /\ At("suicide")
  /\ LET o == main.cur IN
     \/ /\ o # 0
        /\ Uses("commit_suicide", {o})
        /\ Die({c \in Obj : ~kill[o] /\ Alive(c) /\ pid[o] \in {c, -1}})
        /\ stray' = (stray \/ (~kill[o] /\ (pid[o] = -1 \/ proc[o] = "reaped")))
        /\ main' = [Frame("delete") EXCEPT !.this = o, !.caller = "suicide",
                                           !.cur = next[o]]
        /\ UNCHANGED <<objects, hpid, suicide, exiting, masked, term,
                       inherits, early, during, twice, hurt>>
     \/ /\ o = 0
        /\ exiting' = TRUE
        /\ main' = IF exiting THEN Frame("gone")
                              ELSE [Frame("exit") EXCEPT !.cur = list]
        /\ UNCHANGED <<objects, hpid, suicide, masked, children, ghosts, ub>>
     \/ Crash("commit_suicide", {o} \ {0})

\* The child that waitpid (-1, WNOHANG) may give. Seeded fault: only the latest
\* one is asked for.
WaitableLatest == {c \in Obj : c = list /\ proc[c] = "zombie"}
Waitable == {c \in Obj : proc[c] = "zombie"}

\* SIGCHLD: one waitpid, whatever number of children died.
Reaper ==
  /\ chld /\ ~masked /\ hpid = 0 /\ ~Gone
  /\ chld' = FALSE
  /\ \/ \E c \in Waitable :
          /\ proc' = [proc EXCEPT ![c] = "reaped"]
          /\ hpid' = c
          /\ early' = (early \/ (main.pc \in {"next", "head"} /\ c = main.this)
                             \/ (main.pc = "head" /\ c = next[main.this]))
          /\ during' = (during \/ main.pc \notin {"user", "fork", "next", "head", "wait"})
     \/ /\ Waitable = {}
        /\ UNCHANGED <<proc, hpid, early, during>>
  /\ UNCHANGED <<objects, main, suicide, exiting, masked, term, inherits,
                 twice, merged, stray, hurt, ub>>

\* The search finds the object of child c; the list goes round it. Seeded
\* faults: the first object only is looked at; prev stays 0.
FoundFirst(c) == c = list /\ pid[c] = c
Found(c) == c \in Reach(list) /\ pid[c] = c
BypassNot(c) == next
Bypass(c) == [p \in Obj |-> IF p \in Reach(list) /\ next[p] = c THEN next[c]
                                                              ELSE next[p]]

\* The object with that pid leaves the list and is deleted.
ReaperUnlinks ==
  /\ hpid # 0 /\ ~Gone
  /\ LET c == hpid
         path == (Reach(list) \ Reach(c)) \cup ({c} \cap Reach(list)) IN
     \/ /\ Uses("reaper_nohang", path)
        /\ \/ /\ Found(c) /\ mem[c] = "live"
              /\ pid' = [pid EXCEPT ![c] = -1]
              /\ list' = IF list = c THEN next[c] ELSE list
              /\ next' = Bypass(c)
              /\ mem' = [mem EXCEPT ![c] = "freed"]
           \/ /\ ~Found(c)
              /\ UNCHANGED <<pid, list, next, mem>>
        /\ hpid' = 0
        /\ UNCHANGED <<scope, kill, main, suicide, exiting, masked, children,
                       ghosts>>
     \/ Crash("reaper_nohang", path)

------------------------------------------------------------------------------
(* The children.                                                           *)

\* The child's constructor sets each inherited pid to 0 and deletes the
\* object: whom does ~ForkProcess then send a SIGTERM to? Seeded fault: the
\* pid stays.
OrphanedNot(o) == o
Orphaned(o) == 0
ChildStarts(c) ==
  /\ ~Gone /\ proc[c] = "starting"
  /\ proc' = [proc EXCEPT ![c] = "running"]
  /\ LET signalled == {o \in inherits[c].list : Orphaned(o) > 0 /\ kill[o]} IN
       /\ term' = term \cup {o \in signalled : Alive(o)}
       /\ hurt' = hurt \cup signalled
  /\ UNCHANGED <<objects, control, chld, inherits, early, during, twice, merged,
                 stray, ub>>

\* A child ends of its own accord.
ChildEnds(c) ==
  /\ ~Gone /\ proc[c] = "running"
  /\ Die({c})
  /\ UNCHANGED <<objects, control, term, inherits, early, during, twice, stray,
                 hurt, ub>>

\* SIGTERM ends a child. One whose constructor has not yet cleared the list
\* and that has inherited commit_suicide runs it upon its siblings.
ChildTermed(c) ==
  /\ ~Gone /\ c \in term /\ Alive(c)
  /\ LET victims == IF proc[c] = "starting" /\ inherits[c].suicide
                    THEN inherits[c].list ELSE {} IN
       /\ Die({c} \cup {o \in victims : ~kill[o] /\ Alive(o)})
       /\ term' = term \cup {o \in victims : kill[o] /\ Alive(o)}
       /\ hurt' = hurt \cup victims
  /\ UNCHANGED <<objects, control, inherits, early, during, twice, stray, ub>>

Program == \/ \E k \in BOOLEAN : Construct(k)
           \/ \E o \in Obj : DestroyFork(o)
           \/ SuicideSignal \/ Exit
Code == \/ DoFork \/ LinkNext \/ LinkHead
        \/ Delete \/ Reap \/ Find \/ Unlink \/ KillLoop \/ KillNext \/ WaitAll
        \/ SuicideLoop \/ Reaper \/ ReaperUnlinks
Ends(c) == ChildStarts(c) \/ ChildEnds(c) \/ ChildTermed(c)
Children == \E c \in Obj : Ends(c)

Next == Program \/ Code \/ Terminate \/ Children

Spec == Init /\ [][Next]_vars

\* The process runs, a pending signal is delivered, and children end some day.
FairSpec == Spec /\ WF_vars(Code) /\ \A c \in Obj : WF_vars(Ends(c))

------------------------------------------------------------------------------
(* Properties.                                                             *)

\* Whenever the program itself runs, the list is what ~KillForks and
\* commit_suicide rely on: exactly the children not yet reaped are on it, each
\* once, with live objects. Only a handler that cut into a constructor between
\* fork () and the end of the linking (fork.cpp:55-59) spoils that.
ListSound ==
  At("user") /\ ~early =>
    /\ \A o \in Reach(list) : mem[o] = "live" /\ pid[o] = o /\ o \notin Reach(next[o])
    /\ \A c \in Obj : c \in Reach(list) <=> Alive(c) \/ proc[c] = "zombie"

\* A process that comes to the end of ~KillForks, or of commit_suicide during
\* it, leaves no child behind alive, unless a handler cut into a constructor:
\* the list is not found empty before all children ended.
NoneOutlives ==
  main.pc = "gone" /\ ~early => \A c \in Obj : ~Alive(c)

\* SIGTERM and SIGKILL go to children only, never to a pid that was reaped and
\* may be another process by now, but where SIGTERM cuts in: into the reaper
\* between its waitpid and its search, into ~KillForks, which reaps children
\* whose objects stay on the list, or where a handler cut into a constructor.
StrayOnlyIf == stray => early \/ masked \/ twice \/ ub # {}

\* Deleted objects are used in three ways only: by ~Fork after the reaper
\* deleted the object of a child that ended; by ~KillForks, which goes on from
\* the object it deleted for a child marked kill_child; or after the reaper
\* came upon ~KillForks, commit_suicide or a constructor.
UndefinedOnlyIf ==
  \/ early \/ during
  \/ /\ ub \subseteq {"~Fork", "~KillForks"}
     /\ "~Fork" \in ub => \E c \in Obj : mem[c] = "freed" /\ proc[c] = "reaped"
     /\ "~KillForks" \in ub => \E c \in Obj : kill[c] /\ mem[c] = "freed"

\* A child sends no signal to its siblings, which it inherited in its list,
\* unless SIGTERM ends it before its constructor has cleared the list.
SiblingsUnharmed ==
  [][hurt' # hurt => \E c \in Obj : proc[c] = "starting" /\ proc'[c] = "zombie"]_vars

\* A process that has begun to exit gets to its end, as all its children end
\* some day: no waitpid waits for a child that another one has reaped, and no
\* loop runs in circles on a list that a handler has changed.
ExitReturns == exiting ~> Gone

\* A child that has ended is reaped while the program goes on, unless it ended
\* while SIGCHLD was pending for another one: the handler reaps one child only.
Reaped == \A c \in Obj :
  proc[c] = "zombie" ~> (proc[c] = "reaped" \/ merged \/ masked \/ Gone)

\* "First, kill all children whose kill_child flag is set" (fork.cpp:34): a
\* process that exits has sent SIGTERM to each of them that is alive. It may
\* not come to it: ~KillForks reads the object of the first one after having
\* deleted it.
KillsFirst ==
  Gone /\ exiting /\ ~early /\ ~during =>
    \A c \in Obj : kill[c] /\ Alive(c) => c \in term
=============================================================================

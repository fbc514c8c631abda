---------------------------------- MODULE Sig ----------------------------------
(***************************************************************************)
(* socketpp::sig (socket++/sig.cpp): the lists of handler objects, by      *)
(* signal, the sigaction of the process, and sig::kill, which sighandler   *)
(* calls when a signal is taken and which invokes the handlers on a list.  *)
(*                                                                         *)
(* One thread runs; what runs in it is a stack: the main program below,    *)
(* and above it calls of the interface and loops of sig::kill. The         *)
(* callback of a handler may call the interface again, and a signal may be *)
(* taken between any two system calls, the accesses to a list in between   *)
(* being one step with one of them.                                        *)
(*                                                                         *)
(* What sig.h rules out, setting signals by other means, does not happen.  *)
(***************************************************************************)
EXTENDS Integers, SequencesExt

CONSTANTS
  Signo,      \* signal numbers
  Handler,    \* handler objects that a behaviour may create
  MaxCalls,   \* bound: calls of the interface
  MaxRaised   \* bound: signals sent to the process

ASSUME BoundAssumption == MaxCalls \in Nat /\ MaxRaised \in Nat

VARIABLES
  smap,     \* the handlers of each signal
  act,      \* the kernel's sigaction of each signal: sa_handler and sa_mask
  blocked,  \* the signal mask of the process
  pending,  \* signals sent and not taken
  stack,    \* the calls and loops that run, innermost first
  obj,      \* of each handler: "none"; "base", while its constructor is in
            \* set and the derived class is not there yet; "live"; "dying",
            \* the derived class is gone and ~handler to come; "dead"
  home,     \* handler::signo
  fate,     \* "running", "killed" by a default action; or undefined: a
            \* "pure virtual" call, a call of a "deleted" handler, the loop
            \* of a kill on an "erased" node
  calls,    \* ghost: calls made
  raised,   \* ghost: signals sent
  raced     \* ghost: signals on which one call cut into another

vars == <<smap, act, blocked, pending, stack, obj, home, fate, calls, raised, raced>>

Default == [handler |-> "SIG_DFL", mask |-> {}]
Ours == [handler |-> "sighandler", mask |-> {}]

\* A frame of the stack: the function, where it is, its arguments, the struct
\* sigaction it has read; of a kill the place i in the list of the node it is
\* at and whether that node was erased, the handlers it has yet to invoke
\* (ghost), whether a signal started it, and the mask to restore after it.
Frame(f, s, h) == [f |-> f, at |-> "begin", s |-> s, h |-> h, sa |-> Default,
                   i |-> 0, cut |-> FALSE, todo |-> {}, real |-> FALSE, mask |-> {}]
NoHandler == "none"

Calls == {"new", "delete", "set", "unbind", "mask2", "unmask2", "sysresume"}

\* Type invariant.
TypeOK ==
  /\ \A s \in Signo : smap[s] \in Seq(Handler)
  /\ act \in [Signo -> [handler : {"SIG_DFL", "sighandler"}, mask : SUBSET Signo]]
  /\ blocked \subseteq Signo /\ pending \subseteq Signo
  /\ \A k \in 1 .. Len(stack) :
       LET fr == stack[k] IN
       /\ fr.f \in Calls \cup {"kill"}
       /\ fr.at \in {"begin", "read", "push", "next", "callback"}
       /\ fr.s \in Signo /\ fr.todo \subseteq Handler
       /\ fr.f = "kill" => fr.i \in 0 .. Len(smap[fr.s]) + (IF fr.cut THEN 1 ELSE 0)
  /\ obj \in [Handler -> {"none", "base", "live", "dying", "dead"}]
  /\ home \in [Handler -> Signo]
  /\ fate \in {"running", "killed", "pure virtual", "deleted", "erased"}
  /\ calls \in 0 .. MaxCalls /\ raised \in 0 .. MaxRaised /\ raced \subseteq Signo

Init ==
  /\ smap = [s \in Signo |-> <<>>]
  /\ act = [s \in Signo |-> Default]
  /\ blocked = {} /\ pending = {}
  /\ stack = <<>>
  /\ obj = [h \in Handler |-> "none"]
  /\ home \in [Handler -> Signo]
  /\ fate = "running"
  /\ calls = 0 /\ raised = 0 /\ raced = {}

Running == fate = "running"
Top == stack[1]

\* Code of the program runs: the main program, or the callback of a handler.
Program == stack # <<>> => Top.at = "callback"

\* A call of f for s starts, on top of what runs.
Starts(s) ==
  /\ Running /\ Program /\ calls < MaxCalls
  /\ calls' = calls + 1
  /\ raced' = IF \E k \in 1 .. Len(stack) : stack[k].f \in Calls /\ stack[k].s = s
              THEN raced \cup {s} ELSE raced

Push(fr) == stack' = <<fr>> \o stack
Pop == stack' = Tail(stack)
Replace(fr) == stack' = <<fr>> \o Tail(stack)

\* The place of handler h in list v, 0 without one.
Place(v, h) == IF Contains(v, h) THEN CHOOSE p \in 1 .. Len(v) : v[p] = h
                                           /\ \A q \in 1 .. p - 1 : v[q] # h
                                 ELSE 0

\* (Seeded fault: the lists are vectors, the place of a loop does not move.)
ErasedVector(st, s, P) ==
  [k \in 1 .. Len(st) |->
     IF st[k].f = "kill" /\ st[k].s = s
     THEN [st[k] EXCEPT !.todo = @ \ {smap[s][p] : p \in P}]
     ELSE st[k]]

\* The nodes P of the list of s are erased: what the loops over it see.
Erased(st, s, P) ==
  [k \in 1 .. Len(st) |->
     IF st[k].f = "kill" /\ st[k].s = s
     THEN [st[k] EXCEPT
             !.i = @ - Cardinality({p \in P : p < st[k].i}),
             !.cut = @ \/ st[k].i \in P,
             !.todo = @ \ {smap[s][p] : p \in P}]
     ELSE st[k]]

------------------------------------------------------------------------------
(* Handler objects.                                                        *)

\* handler (signo): set, called by the constructor of the base class.
New(h) ==
  /\ Starts(home[h])
  /\ obj[h] = "none"
  /\ obj' = [obj EXCEPT ![h] = "base"]
  /\ stack' = <<Frame("set", home[h], h), Frame("new", home[h], h)>> \o stack
  /\ UNCHANGED <<smap, act, blocked, pending, home, fate, raised>>

\* The constructor of the derived class has run.
Constructed ==
  /\ Running /\ stack # <<>> /\ Top.f = "new"
  /\ obj' = [obj EXCEPT ![Top.h] = "live"]
  /\ Pop
  /\ UNCHANGED <<smap, act, blocked, pending, home, fate, calls, raised, raced>>

\* delete h: the destructor of the derived class has run.
Delete(h) ==
  /\ Starts(home[h])
  /\ obj[h] = "live"
  /\ obj' = [obj EXCEPT ![h] = "dying"]
  /\ Push(Frame("delete", home[h], h))
  /\ UNCHANGED <<smap, act, blocked, pending, home, fate, raised>>

\* unset (s, h): the first h on the list is erased.
Erases(s, h, st) ==
  LET p == Place(smap[s], h) IN
  /\ smap' = IF p = 0 THEN smap ELSE [smap EXCEPT ![s] = RemoveAt(@, p)]
  /\ stack' = IF p = 0 THEN st ELSE Erased(st, s, {p})

\* ~handler: unset (signo, this), and the memory goes.
Destroyed ==
  /\ Running /\ stack # <<>> /\ Top.f = "delete"
  /\ Erases(Top.s, Top.h, Tail(stack))
  /\ obj' = [obj EXCEPT ![Top.h] = "dead"]
  /\ UNCHANGED <<act, blocked, pending, home, fate, calls, raised, raced>>

------------------------------------------------------------------------------
(* The interface.                                                          *)

Set(s, h) ==
  /\ Starts(s)
  /\ obj[h] = "live"
  /\ Push(Frame("set", s, h))
  /\ UNCHANGED <<smap, act, blocked, pending, obj, home, fate, raised>>

Unset(s, h) ==
  /\ Starts(s)
  /\ obj[h] = "live"
  /\ Erases(s, h, stack)
  /\ UNCHANGED <<act, blocked, pending, obj, home, fate, raised>>

\* unbind (s), mask (a, b), unmask (a, b) and sysresume (s, set), which all
\* read a struct sigaction, change it and write it back.
Begin(f, a) ==
  /\ Starts(a)
  /\ f \in {"unbind", "mask2", "unmask2", "sysresume"}
  /\ \E b \in Signo :
       /\ f \in {"unbind", "sysresume"} => b = a
       /\ Push([Frame(f, a, NoHandler) EXCEPT !.mask = {b}])
  /\ UNCHANGED <<smap, act, blocked, pending, obj, home, fate, raised>>

\* mask (s) and unmask (s): sigprocmask.
Mask(s, block) ==
  /\ Starts(s)
  /\ blocked' = IF block THEN blocked \cup {s} ELSE blocked \ {s}
  /\ UNCHANGED <<smap, act, pending, stack, obj, home, fate, raised>>

------------------------------------------------------------------------------
(* The steps of the calls.                                                 *)

\* (Seeded fault: no look for h.)
SetAddsTwice ==
  /\ Running /\ stack # <<>> /\ Top.f = "set" /\ Top.at = "begin"
  /\ smap[Top.s] # <<>>
  /\ smap' = [smap EXCEPT ![Top.s] = Append(@, Top.h)]
  /\ Pop
  /\ UNCHANGED <<act, blocked, pending, obj, home, fate, calls, raised, raced>>

\* set on a list that is not empty: push_back, unless h is on it.
SetAdds ==
  /\ Running /\ stack # <<>> /\ Top.f = "set" /\ Top.at = "begin"
  /\ smap[Top.s] # <<>>
  /\ smap' = IF Contains(smap[Top.s], Top.h) THEN smap
             ELSE [smap EXCEPT ![Top.s] = Append(@, Top.h)]
  /\ Pop
  /\ UNCHANGED <<act, blocked, pending, obj, home, fate, calls, raised, raced>>

\* The calls that read a sigaction; unbind has emptied the list first.
Reads ==
  /\ Running /\ stack # <<>> /\ Top.at = "begin"
  /\ Top.f \in {"set", "unbind", "mask2", "unmask2", "sysresume"}
  /\ Top.f = "set" => smap[Top.s] = <<>>
  /\ LET read == <<[Top EXCEPT !.at = "read", !.sa = act[Top.s]]>> \o Tail(stack) IN
     IF Top.f = "unbind"
     THEN /\ smap' = [smap EXCEPT ![Top.s] = <<>>]
          /\ stack' = Erased(read, Top.s, 1 .. Len(smap[Top.s]))
     ELSE /\ stack' = read
          /\ UNCHANGED smap
  /\ UNCHANGED <<act, blocked, pending, obj, home, fate, calls, raised, raced>>

\* (Seeded fault: unmask sets the mask in an empty struct sigaction.)
WrittenRebuilt(f, sa, b) ==
  LET ours == sa.handler = "sighandler" IN
  CASE f = "unbind" -> Default
    [] f = "mask2" -> [(IF ours THEN sa ELSE Ours) EXCEPT !.mask = @ \cup b]
    [] f = "unmask2" -> [Default EXCEPT !.mask = sa.mask \ b]
    [] f \in {"set", "sysresume"} -> IF ours THEN sa ELSE Ours

\* What each of them writes back.
Written(f, sa, b) ==
  LET ours == sa.handler = "sighandler" IN
  CASE f = "unbind" -> IF ours THEN Default ELSE sa
    [] f = "mask2" -> [(IF ours THEN sa ELSE Ours) EXCEPT !.mask = @ \cup b]
    [] f = "unmask2" -> IF ours THEN [sa EXCEPT !.mask = @ \ b] ELSE Ours
    [] f \in {"set", "sysresume"} -> IF ours THEN sa ELSE Ours

Writes ==
  /\ Running /\ stack # <<>> /\ Top.at = "read"
  /\ LET writes == Top.f \in {"mask2", "unmask2", "sysresume"} \/
                   (Top.sa.handler = "sighandler") = (Top.f = "unbind") IN
     act' = IF writes THEN [act EXCEPT ![Top.s] = Written(Top.f, Top.sa, Top.mask)]
                      ELSE act
  /\ IF Top.f = "set" THEN Replace([Top EXCEPT !.at = "push"]) ELSE Pop
  /\ UNCHANGED <<smap, blocked, pending, obj, home, fate, calls, raised, raced>>

\* set ends with push_back, without another look for h.
Pushes ==
  /\ Running /\ stack # <<>> /\ Top.at = "push"
  /\ smap' = [smap EXCEPT ![Top.s] = Append(@, Top.h)]
  /\ Pop
  /\ UNCHANGED <<act, blocked, pending, obj, home, fate, calls, raised, raced>>

------------------------------------------------------------------------------
(* Signals and sig::kill.                                                  *)

Raise(s) ==
  /\ Running /\ raised < MaxRaised /\ s \notin pending
  /\ pending' = pending \cup {s}
  /\ raised' = raised + 1
  /\ UNCHANGED <<smap, act, blocked, stack, obj, home, fate, calls, raced>>

KillFrame(s) == [Frame("kill", s, NoHandler) EXCEPT !.at = "next",
                                                    !.todo = ToSet(smap[s])]

\* The process takes a signal: sighandler runs, with s and the sa_mask blocked.
Take(s) ==
  /\ Running /\ s \in pending \ blocked
  /\ pending' = pending \ {s}
  /\ \/ /\ act[s].handler = "SIG_DFL"
        /\ fate' = "killed"
        /\ UNCHANGED <<stack, blocked>>
     \/ /\ act[s].handler = "sighandler"
        /\ Push([KillFrame(s) EXCEPT !.real = TRUE, !.mask = blocked])
        /\ blocked' = blocked \cup {s} \cup act[s].mask
        /\ UNCHANGED fate
  /\ UNCHANGED <<smap, act, obj, home, calls, raised, raced>>

\* kill (s) called by the program: "a software signal".
Kill(s) ==
  /\ Starts(s)
  /\ Push(KillFrame(s))
  /\ UNCHANGED <<smap, act, blocked, pending, obj, home, fate, raised>>

\* The loop comes to its next handler, ...
Invokes ==
  /\ Running /\ stack # <<>> /\ Top.at = "next" /\ ~Top.cut
  /\ Top.i < Len(smap[Top.s])
  /\ LET h == smap[Top.s][Top.i + 1] IN
     /\ fate' = CASE obj[h] = "live" -> fate
                  [] obj[h] \in {"base", "dying"} -> "pure virtual"
                  [] obj[h] \in {"none", "dead"} -> "deleted"
     /\ Replace([Top EXCEPT !.at = "callback", !.i = @ + 1, !.todo = @ \ {h}])
  /\ UNCHANGED <<smap, act, blocked, pending, obj, home, calls, raised, raced>>

\* ... whose callback returns, ...
Returns ==
  /\ Running /\ stack # <<>> /\ Top.at = "callback"
  /\ Replace([Top EXCEPT !.at = "next"])
  /\ UNCHANGED <<smap, act, blocked, pending, obj, home, fate, calls, raised, raced>>

\* ... the iterator goes on from where it is, be that node erased or not, ...
Derails ==
  /\ Running /\ stack # <<>> /\ Top.at = "next" /\ Top.cut
  /\ fate' = "erased"
  /\ UNCHANGED <<smap, act, blocked, pending, stack, obj, home, calls, raised, raced>>

\* ... and comes to its end; the mask is as before the signal.
Ends ==
  /\ Running /\ stack # <<>> /\ Top.at = "next" /\ ~Top.cut
  /\ Top.i = Len(smap[Top.s])
  /\ Pop
  /\ blocked' = IF Top.real THEN Top.mask ELSE blocked
  /\ UNCHANGED <<smap, act, pending, obj, home, fate, calls, raised, raced>>

Interface ==
  \/ \E h \in Handler : New(h) \/ Delete(h)
  \/ \E s \in Signo, h \in Handler : Set(s, h) \/ Unset(s, h)
  \/ \E s \in Signo, f \in Calls : Begin(f, s)
  \/ \E s \in Signo : Kill(s) \/ \E block \in BOOLEAN : Mask(s, block)
Steps == Constructed \/ Destroyed \/ SetAdds \/ Reads \/ Writes \/ Pushes
           \/ Invokes \/ Returns \/ Derails \/ Ends

Next == Interface \/ Steps \/ \E s \in Signo : Raise(s) \/ Take(s)

Spec == Init /\ [][Next]_vars

------------------------------------------------------------------------------
(* Properties.                                                             *)

\* A signal whose list is not empty is one that sighandler takes, and a handler
\* is on a list once, however set, unbind, mask, unmask and sysresume follow
\* each other on it (sig.cpp:48-196); unless a call on that signal was cut into
\* by another, from a callback, between its two calls of sigaction.
RegisteredIsHandled ==
  \A s \in Signo \ raced :
    /\ smap[s] # <<>> => act[s].handler = "sighandler"
    /\ \A p, q \in 1 .. Len(smap[s]) : smap[s][p] = smap[s][q] => p = q

\* "If a signal occurs, all sig::handler's associated with the signal are
\* invoked" (sig.h:28-30): a loop of sig::kill that comes to its end has invoked
\* every handler that was on the list when it started and that no call has
\* taken off since, whatever callbacks added, removed or raised (218-225).
AllInvoked == \A k \in 1 .. Len(stack) :
  LET fr == stack[k] IN
  fr.at = "next" /\ ~fr.cut /\ fr.i >= Len(smap[fr.s]) => fr.todo = {}

\* ~handler takes the handler off the list of its signal for good (sig.cpp:
\* 35-38): a list holds no dead handler, but of a signal the handler was only
\* given to by set, or one on which a set was cut into by another.
DeadAreUnlisted ==
  \A h \in Handler, s \in Signo :
    obj[h] = "dead" /\ Contains(smap[s], h) => s # home[h] \/ s \in raced

\* To remove a handler, "all that needs to done is to delete the object and its
\* dtor will remove itself from the signal handler list" (sig.h:39-42): no loop
\* of sig::kill goes wrong by it. One does if the callback of a handler deletes
\* it: the range-for of sig.cpp:221 goes on from the node that unset erased.
DeletionRemoves == fate = "erased" => \A h \in Handler : obj[h] # "dead"
=============================================================================

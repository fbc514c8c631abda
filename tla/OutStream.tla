------------------------------ MODULE OutStream ------------------------------
(***************************************************************************)
(* What the output half of a socketpp stream promises its user, whatever   *)
(* buffering it does (socket++/sockstream.cpp:30-41): bytes reach the      *)
(* kernel in the order they were accepted, none twice, none skipped, and   *)
(* an accepted byte leaves the stream in two ways only, delivered or       *)
(* discarded together with everything still queued when writing ends.      *)
(***************************************************************************)
EXTENDS SequencesExt, Integers

CONSTANT Byte

VARIABLES
  sent,     \* the bytes handed to the kernel, oldest first
  queue,    \* the accepted bytes not yet handed over
  mode      \* "open", "closed" (destroyed), "terminated" (std::terminate)

vars == <<sent, queue, mode>>

Init ==
  /\ sent = <<>>
  /\ queue = <<>>
  /\ mode = "open"

\* A call hands more bytes to the stream: they queue behind the others.
Accept ==
  /\ mode = "open"
  /\ mode' = mode
  /\ queue' \in Seq(Byte)
  /\ IsPrefix(queue, queue')
  /\ UNCHANGED sent

\* The kernel takes the n oldest queued bytes.
Deliver ==
  /\ mode = "open"
  /\ mode' = mode
  /\ \E n \in 1 .. Len(queue) :
       /\ sent' = sent \o SubSeq(queue, 1, n)
       /\ queue' = SubSeq(queue, n + 1, Len(queue))

\* shutdown(shut_write): nothing is written after it, and what is queued is lost.
Discard ==
  /\ mode = "open"
  /\ mode' = mode
  /\ queue' = <<>>
  /\ UNCHANGED sent

\* A stream that ends normally has delivered all it accepted.
Close ==
  /\ mode = "open"
  /\ queue = <<>>
  /\ mode' = "closed"
  /\ UNCHANGED <<sent, queue>>

\* An exception that leaves the destructor ends the process.
Terminate ==
  /\ mode = "open"
  /\ mode' = "terminated"
  /\ queue' = <<>>
  /\ UNCHANGED sent

Next == Accept \/ Deliver \/ Discard \/ Close \/ Terminate

Spec == Init /\ [][Next]_vars
=============================================================================

------------------------------- MODULE InStream -------------------------------
(***************************************************************************)
(* What the input half of a socketpp stream promises its reader, whatever  *)
(* its buffering and however often it goes to the kernel                   *)
(* (socket++/sockstream.cpp:13-27): the reader sees the peer's bytes in    *)
(* the order in which they were sent; refilling the buffer neither loses,  *)
(* repeats nor reorders one; and putting back undoes the latest take.      *)
(*                                                                         *)
(* A byte is its position in what the peer sends: 1, 2, ...                *)
(***************************************************************************)
EXTENDS SequencesExt, Integers

VARIABLES
  unread,   \* the bytes sent and not yet taken by the reader, oldest first
  next,     \* the position of the byte that is next for the reader
  open      \* the reader may still read

vars == <<unread, next, open>>

Init ==
  /\ unread = <<>>
  /\ next = 1
  /\ open = TRUE

\* The peer sends.
Arrive ==
  /\ open
  /\ IsPrefix(unread, unread')
  /\ unread' \in Seq(Int)
  /\ UNCHANGED <<next, open>>

\* The reader takes the n oldest bytes.
Take ==
  /\ open
  /\ \E n \in 1 .. Len(unread) :
       /\ unread' = SubSeq(unread, n + 1, Len(unread))
       /\ next' = next + n
  /\ UNCHANGED open

\* The reader puts the byte it took last back.
PutBack ==
  /\ open
  /\ next' = next - 1
  /\ unread' = <<next'>> \o unread
  /\ UNCHANGED open

\* shutdown (shut_read): what is unread stays so.
End ==
  /\ open
  /\ open' = FALSE
  /\ unread' = <<>>
  /\ UNCHANGED next

Next == Arrive \/ Take \/ PutBack \/ End

Spec == Init /\ [][Next]_vars
=============================================================================

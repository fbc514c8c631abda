--------------------------------- MODULE Bytes ---------------------------------
(***************************************************************************)
(* Streams of bytes, for both halves of sockbuf: a byte is its position in *)
(* the stream, so that a byte lost, repeated or out of place is seen in    *)
(* any piece of it.                                                        *)
(***************************************************************************)
EXTENDS Integers, Sequences

\* s holds the bytes that follow position base.
Follows(s, base) == \A i \in 1 .. Len(s) : s[i] = base + i
=============================================================================

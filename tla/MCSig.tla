-------------------------------- MODULE MCSig --------------------------------
(***************************************************************************)
(* Sig for TLC: signals are alike, and so are handler objects.             *)
(***************************************************************************)
EXTENDS Sig, TLC

Symmetry == Permutations(Signo) \cup Permutations(Handler)
=============================================================================

---------------------------- MODULE MCCreateQueue ----------------------------
(* Instances of CreateQueue for TLC. *)
EXTENDS CreateQueue, TLC

CONSTANTS c1, c2, c3, c4

\* Requests differ only in whether their caller may hang up.
Alike == Permutations(Impatient) \cup Permutations(Creates \ Impatient)
=============================================================================

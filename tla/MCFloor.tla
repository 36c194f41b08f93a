------------------------------ MODULE MCFloor ------------------------------
(***************************************************************************)
(* Turns in a tree of three files: one before the record and, after it in  *)
(* the order of git status, one that git does not know yet; or in a tree   *)
(* of the record alone, for what their reports share.                      *)
(***************************************************************************)
EXTENDS Floor, TLC

CONSTANTS t1, t2, t3

\* Turns differ in nothing but their names.
TurnsAlike == Permutations(Turns)

=============================================================================

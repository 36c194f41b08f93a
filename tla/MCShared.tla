------------------------------ MODULE MCShared -----------------------------
(***************************************************************************)
(* Two machines, one of them the Speaker's.                                *)
(***************************************************************************)
EXTENDS SharedSync, TLC

CONSTANTS c1, c2

=============================================================================

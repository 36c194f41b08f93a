------------------------------ MODULE MCWrites -----------------------------
(***************************************************************************)
(* Four acts in a row, each of which may be cut short.                     *)
(***************************************************************************)
EXTENDS ActWrites, TLC

=============================================================================

------------------------------- MODULE MCTurn ------------------------------
(***************************************************************************)
(* Two turns of different actors for one constituency, beside the commands *)
(* that govern the sitting.                                                *)
(***************************************************************************)
EXTENDS Turn, TLC

CONSTANTS t1, t2, a1, a2

MCRunBy == t1 :> a1 @@ t2 :> a2

MCCharter ==
  [quorum |-> 1, resolution |-> "majority", exit |-> "none",
   termination |-> "objective", assent |-> "AUTHORITY", domainVeto |-> {},
   escalation |-> TRUE, witnesses |-> {"OBSERVER"}, consensus |-> FALSE, operators |-> 2,
   threshold |-> 67]
MCCharters == {MCCharter}

=============================================================================

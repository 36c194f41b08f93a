----------------------------- MODULE MCElection ----------------------------
(***************************************************************************)
(* Three turns for one constituency, two of them of the same actor: bowOut *)
(* cannot tell those apart.                                                *)
(***************************************************************************)
EXTENDS Election, TLC

CONSTANTS t1, t2, t3, a1, a2

MCRunBy == t1 :> a1 @@ t2 :> a1 @@ t3 :> a2

=============================================================================

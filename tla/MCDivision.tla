----------------------------- MODULE MCDivision ----------------------------
(***************************************************************************)
(* Divisions on a bench of three under five Charters that differ in every  *)
(* mechanic a Division reads.                                              *)
(***************************************************************************)
EXTENDS Division, TLC

MCBase ==
  [quorum |-> 2, resolution |-> "majority", exit |-> "division",
   termination |-> "objective", assent |-> "AUTHORITY", domainVeto |-> {},
   escalation |-> TRUE, witnesses |-> {}, consensus |-> FALSE, operators |-> 0,
   threshold |-> 67]

MCParliament == MCBase
MCBattleRoyale ==
  [MCBase EXCEPT !.quorum = 1, !.exit = "elimination", !.termination = "last-standing",
                 !.escalation = FALSE]
MCJury ==
  [MCBase EXCEPT !.resolution = "unanimity", !.exit = "none", !.termination = "verdict",
                 !.domainVeto = {"MEMBER"}]
MCCouncil == [MCBase EXCEPT !.resolution = "supermajority", !.assent = "DELEGATE"]

\* A cull under a rule that lets the larger side lose.
MCFactions ==
  [MCBase EXCEPT !.quorum = 1, !.resolution = "unanimity", !.exit = "elimination"]

MCCharters == {MCParliament, MCBattleRoyale, MCJury, MCCouncil, MCFactions}

(***************************************************************************)
(* The run starts when all the actors, or all but one, have been hired, in *)
(* any order: a sitting the hire command reaches.  Nothing asks a voter    *)
(* for a seat, so the one left out may vote.                               *)
(***************************************************************************)
Rolls ==
  UNION {{f \in [1..n -> Actors] : \A i, j \in DOMAIN f : i # j => f[i] # f[j]} :
           n \in {Cardinality(Actors) - 1, Cardinality(Actors)}}
MCInit ==
  /\ charter \in Charters
  /\ state = "CONVENED" /\ suspension = NoCause
  /\ \E f \in Rolls :
       hansard = <<Plain("WRIT_DROP")>>
                   \o [i \in DOMAIN f |-> Seating("ACTOR_HIRED", f[i], "MEMBER")]
MCSpec == MCInit /\ [][DivisionNext]_vars

MCSymmetry == Permutations(Actors) \cup Permutations(Motions)

=============================================================================

---------------------------- MODULE MCFederation ---------------------------
(***************************************************************************)
(* Five sessions.  Three trees are worked in: two families one below the   *)
(* other, a pair that inherit from each other, and one that names itself.  *)
(* Besides, the first three may point to one another in any way, or be a   *)
(* chain whose Charters differ in any way, and nothing happens there.      *)
(***************************************************************************)
EXTENDS Federation

MCWorked == {<<0, 1, 1, 2, 2>>, <<2, 1, 1, 1, 2>>, <<1, 1, 1, 0, 4>>}
MCChain == <<0, 1, 2, 1, 1>>
MCTopologies ==
  MCWorked \cup {[n \in Nodes |-> IF n <= 3 THEN f[n] ELSE 1] : f \in [1..3 -> 0..3]}

MCLoose ==
  [quorum |-> 1, escalation |-> FALSE, maxCost |-> NoLimit, maxMotions |-> NoLimit,
   warning |-> NoLimit, heartbeat |-> 8, cast |-> [r \in {} |-> 0], domainVeto |-> {},
   deadlineAction |-> "escalate"]
MCSettings ==
  {MCLoose,
   [MCLoose EXCEPT !.quorum = 3, !.maxCost = 5, !.domainVeto = {"MEMBER"}],
   [MCLoose EXCEPT !.escalation = TRUE, !.maxCost = 9, !.maxMotions = 4, !.warning = 3],
   [MCLoose EXCEPT !.heartbeat = 2, !.cast = [r \in {"AUTHORITY", "MEMBER"} |-> 2]],
   [MCLoose EXCEPT !.quorum = 2, !.cast = [r \in {"AUTHORITY"} |-> 1], !.warning = 7],
   [MCLoose EXCEPT !.maxMotions = 2, !.heartbeat = 4, !.domainVeto = {"DELEGATE"},
                   !.deadlineAction = "dissolve"]}

\* Nothing was done yet, or everybody but the root was suspended on the first day.
MCQuiet ==
  /\ suspension = [n \in Nodes |-> Running]
  /\ record = [n \in Nodes |-> <<>>]
MCTroubled ==
  /\ suspension \in {[n \in Nodes |-> IF n = 1 THEN Running ELSE [cause |-> f[n], since |-> 0]] :
                       f \in [2..5 -> Causes]}
  /\ record = [n \in Nodes |-> IF n = 1 THEN <<>> ELSE <<Suspended(suspension[n].cause)>>]

MCInit ==
  /\ parentOf \in Topologies
  /\ day = 0
  /\ \/ /\ charterOf = [n \in Nodes |-> MCLoose]
        /\ \/ MCQuiet /\ acts = IF parentOf \in MCWorked THEN 0 ELSE MaxActs
           \/ parentOf \in MCWorked /\ MCTroubled /\ acts = 2
     \/ /\ parentOf = MCChain
        /\ MCQuiet
        /\ \E f \in [1..3 -> Settings] :
             charterOf = [n \in Nodes |-> IF n <= 3 THEN f[n] ELSE MCLoose]
        /\ acts = MaxActs
MCSpec == MCInit /\ [][FederationNext]_federationVars

\* Four suspended children of one session.
MCFamilyInit ==
  /\ parentOf = <<0, 1, 1, 1, 1>>
  /\ day = 0 /\ acts = 2
  /\ charterOf = [n \in Nodes |-> MCLoose]
  /\ MCTroubled
MCFamilySpec == MCFamilyInit /\ [][FederationNext]_federationVars

=============================================================================

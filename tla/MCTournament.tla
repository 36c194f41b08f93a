---------------------------- MODULE MCTournament ---------------------------
(***************************************************************************)
(* A field of three or four, seated when the event begins: of a session    *)
(* that did nothing else, or that decided one Division before.             *)
(***************************************************************************)
EXTENDS Tournament

MCCharter ==
  [quorum |-> 1, resolution |-> "majority", exit |-> "none", termination |-> "objective",
   assent |-> "AUTHORITY", domainVeto |-> {}, escalation |-> FALSE, witnesses |-> {},
   consensus |-> FALSE, operators |-> 0, threshold |-> 67]
MCCharters == {MCCharter}
MCSeeds == {<<>>, <<3, 1>>}

MCVoted ==
  UNION {{<<OnMotion("DIVISION_CALLED", m), Plain("PROJECTION"),
            VoteCast(m, 1, "AYE", FALSE), VoteCast(m, 2, v, FALSE),
            VoteCast(m, 3, "ABSTAIN", FALSE),
            OnMotion(IF v = "NO" THEN "MOTION_REJECTED" ELSE "MOTION_CARRIED", m)>> :
           v \in {"AYE", "NO"}} : m \in Motions}

MCOpenings ==
  {<<Plain("WRIT_DROP")>> \o [i \in 1..n |-> Seating("ACTOR_HIRED", i, "MEMBER")] \o before :
     n \in {Cardinality(Actors) - 1, Cardinality(Actors)}, before \in {<<>>} \cup MCVoted}

=============================================================================

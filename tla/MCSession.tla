----------------------------- MODULE MCSession -----------------------------
(***************************************************************************)
(* The whole session on a small bench, under a Charter with every power of *)
(* the constitution enabled.                                               *)
(***************************************************************************)
EXTENDS Session, TLC

MCCharter ==
  [quorum |-> 1, resolution |-> "majority", exit |-> "elimination",
   termination |-> "last-standing", assent |-> "AUTHORITY", domainVeto |-> {"MEMBER"},
   escalation |-> TRUE, witnesses |-> {"OBSERVER"}, consensus |-> TRUE, operators |-> 3,
   threshold |-> 67]

MCCharters == {MCCharter}

(***************************************************************************)
(* The run starts from what hire, division call, vote, tally and exit      *)
(* reach.  A sitting has carried one Motion, and then a Division was       *)
(* called on another one or somebody was removed; or a Division was        *)
(* tied and declared deadlocked, after a removal or after another Motion   *)
(* was carried.  One start is a session never opened.                      *)
(***************************************************************************)
Rolls ==
  {f \in [1..Cardinality(Actors) -> Actors] : \A i, j \in DOMAIN f : i # j => f[i] # f[j]}
MCBench(f) ==
  <<Plain("WRIT_DROP")>> \o [i \in DOMAIN f |-> Seating("ACTOR_HIRED", f[i], "MEMBER")]
MCCalled(m) == <<OnMotion("DIVISION_CALLED", m), Plain("PROJECTION")>>
MCCarried(f, m, ayes) ==
  MCCalled(m) \o [i \in 1..ayes |-> VoteCast(m, f[i], "AYE", FALSE)]
    \o <<OnMotion("MOTION_CARRIED", m)>>
MCTied(f, m) ==
  MCCalled(m)
    \o <<VoteCast(m, f[1], "AYE", FALSE), VoteCast(m, f[2], "NO", FALSE), OnMotion("DEADLOCK", m)>>
MCRemoved(f) == <<Exited(f[1], "MEMBER", FALSE)>>

MCSitting ==
  /\ state = "CONVENED" /\ suspension = NoCause
  /\ \E f \in Rolls, m \in Motions :
       \E opening \in {MCCalled(n) : n \in Motions \ {m}} \cup {MCRemoved(f)} :
         hansard = MCBench(f) \o MCCarried(f, m, 2) \o opening
MCDeadlocked ==
  /\ state = "SUSPENDED" /\ suspension = "DEADLOCK"
  /\ \E f \in Rolls, m \in Motions :
       \E earlier \in {MCCarried(f, n, 1) : n \in Motions \ {m}} \cup {MCRemoved(f)} :
         hansard = MCBench(f) \o earlier \o MCTied(f, m)
MCInit ==
  /\ charter \in Charters
  /\ \/ MCSitting
     \/ MCDeadlocked
     \/ suspension = NoCause /\ Opened("INVALID", "SESSION_INVALID")
MCSpec == MCInit /\ [][Next]_vars

\* Of a session never opened, the first six acts.
MCRoom == hansard[1].type = "SESSION_INVALID" => Len(hansard) <= 7

MCSymmetry == Permutations(Actors) \cup Permutations(Motions)

=============================================================================

------------------------------ MODULE Session ------------------------------
(***************************************************************************)
(* The whole proceeding: any command, in any order, by anyone the code     *)
(* lets through.                                                           *)
(***************************************************************************)
EXTENDS Division, Bench, Governance

Next == DivisionNext \/ BenchNext \/ GovernanceNext

Spec == Init /\ [][Next]_vars

-----------------------------------------------------------------------------
(***************************************************************************)
(* Properties of the sitting as a whole.                                   *)
(***************************************************************************)
\* STATE.json and the Hansard never disagree: the last entry that bears on the
\* sitting says exactly the state and the cause STATE.json holds, so the state
\* could be rebuilt from the record (createState in every act that writes one).
StateMatchesRecord == SaysOfSitting(hansard, Len(hansard), state, suspension)

IsFloorEntry(e) ==
  \/ e.type \in {"DIVISION_CALLED", "DEADLOCK", "ASSENT_GRANTED", "VETO_EXERCISED",
                 "ACTOR_HIRED", "ACTOR_PROMOTED", "ACTOR_DEMOTED", "COMMITTEE_SPAWNED",
                 "POINT_OF_ORDER", "SESSION_STALE"}
  \/ e.type = "VOTE_CAST" /\ ~e.casting
  \/ e.type = "ACTOR_EXITED" /\ ~e.self

\* Business is done only while the House sits: by the record alone, the sitting
\* was CONVENED just before every entry that needs the floor, through any series
\* of suspensions, rulings and reopenings (requireConvened and its like).
BusinessWhileConvened ==
  \A k \in DOMAIN hansard :
    IsFloorEntry(hansard[k]) => SaysOfSitting(hansard, k - 1, "CONVENED", NoCause)

\* What each cause of a suspension is answered by.
Answers(cause, e) ==
  \/ cause = "POINT_OF_ORDER" /\ e.type = "RULING"
  \/ cause = "DEADLOCK" /\ e.type = "VOTE_CAST" /\ e.casting
  \/ cause = "DISPUTED_EXIT" /\ e.type = "EXIT_RULING"
  \/ /\ cause = "CONSTITUTIONAL_CRISIS"
     /\ e.type = "CONSTITUTIONAL_CRISIS_RULING" /\ e.ruling # "UPHELD"

\* No suspension is resumed around: the House sits again only by the act that
\* answers the cause it is then suspended for (a review, with any ruling but UPHELD),
\* STALE only by a resumption; a cause is displaced only by a crisis or a disputed
\* exit, and a sealed or dead session moves only under one of them (commitRuling,
\* breakDeadlock, resolveDispute, externalReview, resume, prorogue).
MoveStep ==
  LET entered == {hansard'[k] : k \in DOMAIN hansard' \ DOMAIN hansard}
      entering(types) == \E e \in entered : e.type \in types
  IN /\ (state = "SUSPENDED" /\ state' = "CONVENED") => \E e \in entered : Answers(suspension, e)
     /\ (state = "STALE" /\ state' = "CONVENED") => entering({"SESSION_RESUMED"})
     /\ (state \in {"PROROGUED", "INVALID"} /\ state' # state) =>
          \/ entering({"CONSTITUTIONAL_CRISIS", "EXIT_DISPUTED"})
          \/ state = "INVALID" /\ entering({"SESSION_TIMEOUT"})
     /\ (state = "SUSPENDED" /\ suspension' \notin {suspension, NoCause}) =>
          entering({"CONSTITUTIONAL_CRISIS", "EXIT_DISPUTED"})
ResumedByItsAnswer == [][MoveStep]_vars

\* "Only DISMISSED resumes": no other ruling takes the House out of a crisis
\* (externalReview's comment).
DismissalStep ==
  (suspension = "CONSTITUTIONAL_CRISIS" /\ state' = "CONVENED") =>
    hansard' \notin {Append(hansard, CrisisRuling(r)) : r \in CrisisRulings \ {"DISMISSED"}}
OnlyDismissedResumes == [][DismissalStep]_vars

\* "Resumption requires review by a human outside this session": the House sits again
\* only when every crisis declared was ruled on (cmdCrisis).
CrisisNeedsReview ==
  state = "CONVENED" =>
    \A k \in DOMAIN hansard : hansard[k].type = "CONSTITUTIONAL_CRISIS" =>
      \E j \in (k + 1)..Len(hansard) : hansard[j].type = "CONSTITUTIONAL_CRISIS_RULING"

\* The crisis the House is in has been upheld: its last ruling is the last entry that
\* bears on the sitting.
Upheld ==
  \E k \in DOMAIN hansard :
    /\ hansard[k] = CrisisRuling("UPHELD")
    /\ \A j \in (k + 1)..Len(hansard) : ~BearsState(hansard[j])

\* "This proceeding does not resume": after an UPHELD crisis the House never sits again
\* (externalReview).
UpheldDoesNotResume ==
  state = "CONVENED" => \A k \in DOMAIN hansard : hansard[k] # CrisisRuling("UPHELD")

\* No sitting is stuck but one whose crisis is upheld: whatever displaced what, whoever
\* was hired again or ruled on before, some command can convene a suspended or stale
\* one at once (a state "it cannot lift" is what runTurn and fileEscalation avoid).
\* At most two entries.
Convenes == Next /\ state' = "CONVENED"
NoDeadEnd ==
  (/\ state \in {"SUSPENDED", "STALE"} /\ ~Upheld
   /\ Len(hansard) + 2 <= MaxEntries) => ENABLED Convenes

=============================================================================

----------------------------- MODULE Governance ----------------------------
(***************************************************************************)
(* What interrupts, suspends, resumes and ends a sitting: politik escalate,*)
(* rule, crisis file | review, heartbeat --suspend, resume, snapshot,      *)
(* prorogue and challenge.                                                 *)
(***************************************************************************)
EXTENDS House

\* fileEscalation; projectEscalation's result is put on the record after it.
Escalate ==
  /\ charter.escalation
  /\ requireConvened
  /\ Enters(<<Plain("POINT_OF_ORDER"), Plain("PROJECTION")>>)
  /\ Becomes("SUSPENDED", "POINT_OF_ORDER")

\* Faulty: any suspension will do.
RuleOnAnything(role) ==
  /\ role = "AUTHORITY"
  /\ state = "SUSPENDED"
  /\ Enters(<<Plain("RULING")>>)
  /\ Becomes("CONVENED", NoCause)

\* commitRuling
Rule(role) ==
  /\ role = "AUTHORITY"
  /\ IsSuspendedFor("POINT_OF_ORDER")
  /\ Enters(<<Plain("RULING")>>)
  /\ Becomes("CONVENED", NoCause)

(***************************************************************************)
(* politik crisis file: the filing, and when it declares capture, the      *)
(* suspension, whatever state the session was in.                          *)
(***************************************************************************)
\* Faulty: one filer may file as often as they like.
FileCrisisAgain(a, role) ==
  LET filed == Append(hansard, CrisisFiled(a, role))
  IN /\ role # "AUTHORITY"
     /\ role = "OPERATOR" \/ role \in charter.witnesses
     /\ \/ /\ ~checkCapture(filed, charter)
           /\ Enters(<<CrisisFiled(a, role)>>)
           /\ Stays
        \/ /\ checkCapture(filed, charter)
           /\ Enters(<<CrisisFiled(a, role), Plain("CONSTITUTIONAL_CRISIS")>>)
           /\ Becomes("SUSPENDED", "CONSTITUTIONAL_CRISIS")

FileCrisis(a, role) ==
  LET filed == Append(hansard, CrisisFiled(a, role))
  IN /\ role # "AUTHORITY"
     /\ role = "OPERATOR" \/ role \in charter.witnesses
     /\ ~HasFiled(hansard, a)
     /\ \/ /\ ~checkCapture(filed, charter)
           /\ Enters(<<CrisisFiled(a, role)>>)
           /\ Stays
        \/ /\ checkCapture(filed, charter)
           /\ Enters(<<CrisisFiled(a, role), Plain("CONSTITUTIONAL_CRISIS")>>)
           /\ Becomes("SUSPENDED", "CONSTITUTIONAL_CRISIS")

\* externalReview: the caller names both the reviewer and the accused, and any ruling
\* that is not UPHELD resumes.
ExternalReview(reviewer, accused, ruling) ==
  /\ suspension = "CONSTITUTIONAL_CRISIS"
  /\ reviewer # accused
  /\ Enters(<<CrisisRuling(ruling)>>)
  /\ IF ruling = "UPHELD" THEN Becomes("SUSPENDED", "CONSTITUTIONAL_CRISIS")
     ELSE Becomes("CONVENED", NoCause)

-----------------------------------------------------------------------------
\* checkHeartbeat finds the window elapsed (the clock is not modelled: the time
\* of any act may be as late as it likes) and markStale records it.
MarkStale ==
  /\ requireConvened
  /\ hansard # <<>>
  /\ Enters(<<Plain("SESSION_STALE")>>)
  /\ Becomes("STALE", NoCause)

Resume ==
  /\ state = "STALE"
  /\ Enters(<<Plain("SESSION_RESUMED")>>)
  /\ Becomes("CONVENED", NoCause)

Snapshot ==
  /\ state \notin {"PROROGUED", "INVALID"}
  /\ Seldom
  /\ Enters(<<Plain("STATE_SNAPSHOT")>>)
  /\ Stays

\* Faulty: the cause of a suspension outlives the sitting.
ProrogueKeepingCause(role, dissolve) ==
  /\ state # "PROROGUED"
  /\ dissolve => role = "AUTHORITY"
  /\ suspension # "CONSTITUTIONAL_CRISIS"
  /\ Enters(<<Plain("SESSION_TIMEOUT")>>)
  /\ Becomes("PROROGUED", suspension)

\* prorogue; only a DISSOLVE (TRIGGER_SPEAKER) asks for a role
Prorogue(role, dissolve) ==
  /\ state # "PROROGUED"
  /\ dissolve => role = "AUTHORITY"
  /\ suspension # "CONSTITUTIONAL_CRISIS"
  /\ Enters(<<Plain("SESSION_TIMEOUT")>>)
  /\ Becomes("PROROGUED", NoCause)

Challenge(role) ==
  /\ role = "DELEGATE"
  /\ Seldom
  /\ Enters(<<Plain("DELEGATE_CHALLENGE")>>)
  /\ Stays

GovernanceNext ==
  \/ Escalate
  \/ \E role \in Roles : Rule(role)
  \/ \E a \in Actors, role \in Roles : FileCrisis(a, role)
  \/ \E r, s \in Actors, ruling \in CrisisRulings : ExternalReview(r, s, ruling)
  \/ MarkStale
  \/ Resume
  \/ Snapshot
  \/ \E role \in Roles, dissolve \in BOOLEAN : Prorogue(role, dissolve)
  \/ \E role \in Roles : Challenge(role)

GovernanceSpec == Init /\ [][GovernanceNext]_vars

-----------------------------------------------------------------------------
(***************************************************************************)
(* Properties.                                                             *)
(***************************************************************************)
\* Capture is declared on the word of enough different people: before each
\* declaration a witness, or as many distinct OPERATOR filers as the Charter
\* requires, had filed, and each filer filed once (fileCrisis, checkCapture).
CaptureNeedsItsFilers ==
  \A k \in DOMAIN hansard : hansard[k].type = "CONSTITUTIONAL_CRISIS" =>
    LET before == {hansard[i] : i \in filings(hansard) \cap 1..(k - 1)}
        operators == {e.actor : e \in {f \in before : f.role = "OPERATOR"}}
    IN \/ \E e \in before : e.role \in charter.witnesses
       \/ /\ charter.consensus
          /\ operators # {}
          /\ Cardinality(operators) * 100 >= charter.operators * charter.threshold

=============================================================================

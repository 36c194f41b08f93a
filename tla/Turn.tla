-------------------------------- MODULE Turn -------------------------------
(***************************************************************************)
(* politik run: a turn of an agent.  The one command that takes its time:  *)
(* it reads the session, stands for election, lets the agent work for      *)
(* minutes, and then writes the record and the state.  Meanwhile the other *)
(* commands go on, here those that govern the sitting, and so do turns of  *)
(* other agents.                                                           *)
(***************************************************************************)
EXTENDS Governance, Election

CONSTANT AutoRetryMax   \* the Charter's auto_retry_max

ASSUME AutoRetryMaxAssumption == AutoRetryMax \in Nat

\* What each turn has in memory: the record it read, the entries it will add to
\* it, and whether it will suspend the sitting.  An ended process has nothing.
VARIABLES kept, report, suspends
memory == <<kept, report, suspends>>

\* The agent works, and what it did is written: the record, then the state.
Serving == {"working", "recording", "stating"}
turnVars == <<vars, electionVars, memory>>

Forgets(t) ==
  /\ kept' = [kept EXCEPT ![t] = <<>>]
  /\ report' = [report EXCEPT ![t] = <<>>]
  /\ suspends' = [suspends EXCEPT ![t] = FALSE]

TurnInit ==
  /\ Init
  /\ ElectionInit
  /\ kept = [t \in Turns |-> <<>>]
  /\ report = [t \in Turns |-> <<>>]
  /\ suspends = [t \in Turns |-> FALSE]

\* runTurn reads STATE.json and refuses to act unless the session is CONVENED, the
\* Charter seats the role and the actor's profile is fit for it.
Seat(t, fit) ==
  /\ step[t] = "idle"
  /\ GoesTo(t, IF requireConvened /\ fit THEN "standing" ELSE "refused")
  /\ UNCHANGED <<vars, lock, memory>>

ReadRecord(t) ==
  /\ step[t] = "elected"
  /\ kept' = [kept EXCEPT ![t] = hansard]
  /\ GoesTo(t, "working")
  /\ UNCHANGED <<vars, lock, report, suspends>>

-----------------------------------------------------------------------------
(***************************************************************************)
(* The agent is spawned, and again while its faults are transient.         *)
(***************************************************************************)
FaultPaths == {"PATH_A", "PATH_B", "PATH_C"}
Fault(path) == Plain(IF path = "PATH_C" THEN "SESSION_FAULT_CRITICAL" ELSE "SESSION_FAULT")

\* Every attempt but the present one has left its fault.
Attempts(t) == Len(report[t]) + 1

\* Faulty: one attempt too many.
RetriesOnce(t, path) == path = "PATH_A" /\ Attempts(t) <= AutoRetryMax

shouldRetry(t, path) == path = "PATH_A" /\ Attempts(t) < AutoRetryMax

\* The attempt failed and is repeated.
Retry(t, path) ==
  /\ step[t] = "working"
  /\ shouldRetry(t, path)
  /\ report' = [report EXCEPT ![t] = Append(@, Fault(path))]
  /\ UNCHANGED <<vars, electionVars, kept, suspends>>

\* The turn is done: faults (and that they were overcome), its own entry, and a
\* breach of containment found in what it touched or said.  A breach suspends the
\* sitting, and so does a Point of Order the agent filed.
Breach == Plain("CONTAINMENT_BREACH")
Reports(t, entries, breach, escalated) ==
  /\ step[t] = "working"
  /\ report' = [report EXCEPT ![t] =
       @ \o entries \o (IF breach THEN <<Breach>> ELSE <<>>)]
  /\ suspends' = [suspends EXCEPT ![t] = breach \/ (escalated /\ charter.escalation)]
  /\ GoesTo(t, "recording")
  /\ UNCHANGED <<vars, lock, kept>>

Succeeds(t, breach, escalated) ==
  LET resolved == IF Attempts(t) > 1 THEN <<Plain("FAULT_RESOLVED_AUTO")>> ELSE <<>>
  IN Reports(t, Append(resolved, Plain("MOTION_TABLED")), breach, escalated)

Fails(t, path, breach, escalated) ==
  /\ ~shouldRetry(t, path)
  /\ Reports(t, <<Fault(path), Plain("SESSION_FAULT")>>, breach, escalated)

\* Faulty: a turn that throws does not bow out.
EscapesHolding(t) ==
  /\ step[t] \in {"elected"} \cup Serving
  /\ GoesTo(t, "over")
  /\ Forgets(t)
  /\ UNCHANGED <<vars, lock>>

\* The agent cannot be spawned, or a file cannot be read or written: finally.
Throws(t) ==
  /\ step[t] \in {"elected"} \cup Serving
  /\ GoesTo(t, "leaving")
  /\ Forgets(t)
  /\ UNCHANGED <<vars, lock>>

-----------------------------------------------------------------------------
(***************************************************************************)
(* The record is written from what was read before the agent worked, and   *)
(* then the state, whatever either has become.                             *)
(***************************************************************************)
WriteRecord(t) ==
  /\ step[t] = "recording"
  /\ hansard' = kept[t] \o report[t]
  /\ GoesTo(t, "stating")
  /\ UNCHANGED <<charter, state, suspension, lock, memory>>

WriteState(t) ==
  /\ step[t] = "stating"
  /\ IF suspends[t] THEN Becomes("SUSPENDED", "POINT_OF_ORDER") ELSE Becomes("CONVENED", NoCause)
  /\ GoesTo(t, "leaving")
  /\ Forgets(t)
  /\ UNCHANGED <<charter, hansard, lock>>

TurnStep(t) ==
  \/ \E fit \in BOOLEAN : Seat(t, fit)
  \/ LockStep(t) /\ UNCHANGED <<vars, memory>>
  \/ ReadRecord(t)
  \/ \E path \in FaultPaths : Retry(t, path)
  \/ \E breach, escalated \in BOOLEAN : Succeeds(t, breach, escalated)
  \/ \E path \in FaultPaths, breach, escalated \in BOOLEAN : Fails(t, path, breach, escalated)
  \/ WriteRecord(t)
  \/ WriteState(t)
  \/ Throws(t)
  \/ Dies(t) /\ Forgets(t) /\ UNCHANGED vars

TurnNext ==
  \/ \E t \in Turns : TurnStep(t)
  \/ Ages /\ UNCHANGED <<vars, memory>>
  \/ GovernanceNext /\ UNCHANGED <<electionVars, memory>>

TurnSpec == TurnInit /\ [][TurnNext]_turnVars

-----------------------------------------------------------------------------
(***************************************************************************)
(* Properties.                                                             *)
(***************************************************************************)
\* To the election a turn that serves is one that is elected, whatever it does.
contestStep == [t \in Turns |-> IF step[t] \in Serving THEN "elected" ELSE step[t]]
Contest == INSTANCE Election WITH step <- contestStep

\* A turn stands, serves and bows out as Election has it, however it ends: none
\* writes to the session unelected, and none leaves without bowing out (runTurn).
ImplementsElection == Contest!ElectionSafety

\* A transient fault is retried up to auto_retry_max attempts in all (the one that is
\* always made when it is 0), and a turn that took more than one does not read as one
\* that succeeded cleanly: every failed attempt is in its report before the outcome
\* (runTurn, shouldRetry).
MostAttempts == IF AutoRetryMax = 0 THEN 1 ELSE AutoRetryMax
Faults(t) == {k \in DOMAIN report[t] : report[t][k] \in {Fault(path) : path \in FaultPaths}}
RetriesAreReported ==
  \A t \in Turns :
    /\ Cardinality(Faults(t)) <= MostAttempts + 1
    /\ \A k \in DOMAIN report[t] :
         report[t][k] = Plain("FAULT_RESOLVED_AUTO") => Faults(t) = 1..(k - 1) /\ k > 1

-----------------------------------------------------------------------------
(***************************************************************************)
(* What the documents promise and the code does not keep.                  *)
(***************************************************************************)
\* README: "append-only session record ... Cannot be edited".  Whatever is on the
\* record stays on it.
HansardIsAppendOnly ==
  [][/\ Len(hansard') >= Len(hansard)
     /\ SubSeq(hansard', 1, Len(hansard)) = hansard]_turnVars

=============================================================================

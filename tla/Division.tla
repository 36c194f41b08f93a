------------------------------ MODULE Division -----------------------------
(***************************************************************************)
(* From a Division to Assent: politik division call | vote | tally | break,*)
(* politik assent, and the veto that stands in its way.                    *)
(***************************************************************************)
EXTENDS House

\* callDivision; projectDivision's result is put on the record after it.
Call(m) ==
  /\ requireConvened
  /\ ~divisionCalled(hansard, m)
  /\ Enters(<<OnMotion("DIVISION_CALLED", m), Plain("PROJECTION")>>)
  /\ Stays

\* Faulty: a decided Division still takes votes.
VoteAfterOutcome(a, role, m, vote) ==
  /\ requireConvened
  /\ role # "OBSERVER"
  /\ divisionCalled(hansard, m)
  /\ ~HasVoted(hansard, a, m)
  /\ Enters(<<VoteCast(m, a, vote, FALSE)>>)
  /\ Stays

Vote(a, role, m, vote) ==
  /\ requireConvened
  /\ role # "OBSERVER"
  /\ divisionCalled(hansard, m)
  /\ ~divisionDecided(hansard, m)
  /\ ~HasVoted(hansard, a, m)
  /\ Enters(<<VoteCast(m, a, vote, FALSE)>>)
  /\ Stays

-----------------------------------------------------------------------------
(***************************************************************************)
(* politik division tally asks no state of the session: only a tie, which  *)
(* has to suspend it, needs it CONVENED.                                   *)
(***************************************************************************)
Open(m) == divisionCalled(hansard, m) /\ ~divisionDecided(hansard, m)

TallyDeadlock(m) ==
  /\ Open(m)
  /\ Tied(hansard, m, charter.quorum, charter.resolution)
  /\ requireConvened
  /\ Enters(<<OnMotion("DEADLOCK", m)>>)
  /\ Becomes("SUSPENDED", "DEADLOCK")

Outcome(h, m) ==
  OnMotion(IF Carries(h, m, charter.quorum, charter.resolution)
           THEN "MOTION_CARRIED" ELSE "MOTION_REJECTED", m)

\* Faulty: counts the seats as they were before the cull.
SealsBeforeCull(h, m, exits) ==
  \/ /\ charter.termination = "last-standing"
     /\ exits # <<>>
     /\ LastStanding(h)
  \/ /\ charter.termination = "verdict"
     /\ Carries(h, m, charter.quorum, charter.resolution)

\* Does the outcome, with exits the cull it triggered, end the sitting?
Seals(h, m, exits) ==
  \/ /\ charter.termination = "last-standing"
     /\ exits # <<>>
     /\ LastStanding(h \o exits)
  \/ /\ charter.termination = "verdict"
     /\ Carries(h, m, charter.quorum, charter.resolution)

\* prorogue() refuses a sealed session and one in crisis; the refusal is
\* thrown before anything of the tally is written.
MayProrogue == state # "PROROGUED" /\ suspension # "CONSTITUTIONAL_CRISIS"

TallyOutcome(m) ==
  /\ Open(m)
  /\ ~Tied(hansard, m, charter.quorum, charter.resolution)
  /\ \E f \in InOrder(Culled(hansard, m, charter.exit)) :
       LET exits == DarwinistExits(hansard, f)
           es == <<Outcome(hansard, m)>> \o exits
       IN \/ /\ ~Seals(hansard, m, exits)
             /\ Enters(es)
             /\ Stays
          \/ /\ Seals(hansard, m, exits)
             /\ MayProrogue
             /\ Enters(Append(es, Plain("SESSION_TIMEOUT")))
             /\ Becomes("PROROGUED", NoCause)

(***************************************************************************)
(* breakDeadlock asks only that the session is suspended for a deadlock;   *)
(* the Motion is the one the command names.  The casting vote is tallied   *)
(* with the others under the Charter's own rule.                           *)
(***************************************************************************)
\* Faulty: the outcome is tallied before the casting vote is on the record.
BreakUncounted(a, m, vote) ==
  /\ IsSuspendedFor("DEADLOCK")
  /\ vote \in {"AYE", "NO"}
  /\ Enters(<<VoteCast(m, a, vote, TRUE), Outcome(hansard, m)>>)
  /\ Becomes("CONVENED", NoCause)

\* Faulty: a casting vote is taken in any suspension.
BreakAnySuspension(a, m, vote) ==
  /\ state = "SUSPENDED"
  /\ vote \in {"AYE", "NO"}
  /\ LET cast == <<VoteCast(m, a, vote, TRUE)>>
     IN Enters(Append(cast, Outcome(hansard \o cast, m)))
  /\ Becomes("CONVENED", NoCause)

\* Faulty: the sitting resumes only if the casting vote carries.
BreakCarrying(a, m, vote) ==
  /\ IsSuspendedFor("DEADLOCK")
  /\ vote \in {"AYE", "NO"}
  /\ LET cast == <<VoteCast(m, a, vote, TRUE)>>
     IN Enters(Append(cast, Outcome(hansard \o cast, m)))
  /\ IF vote = "AYE" THEN Becomes("CONVENED", NoCause) ELSE Stays

Break(a, m, vote) ==
  /\ IsSuspendedFor("DEADLOCK")
  /\ vote \in {"AYE", "NO"}
  /\ LET cast == <<VoteCast(m, a, vote, TRUE)>>
     IN Enters(Append(cast, Outcome(hansard \o cast, m)))
  /\ Becomes("CONVENED", NoCause)

-----------------------------------------------------------------------------
\* cmdAssent tallies afresh under the default rule, majority, and grantAssent
\* checks its conditions; projectAssent's result follows on the record.
\* Faulty: the ayes and noes are compared and no quorum is asked for.
AssentWithoutQuorum(role, m) ==
  /\ role = charter.assent
  /\ requireConvened
  /\ Count(hansard, m, "AYE") > Count(hansard, m, "NO")
  /\ ~alreadyEnacted(hansard, m)
  /\ ~vetoOutstanding(hansard, m)
  /\ Enters(<<OnMotion("ASSENT_GRANTED", m), Plain("PROJECTION")>>)
  /\ Becomes("CONVENED", NoCause)

Assent(role, m) ==
  /\ role = charter.assent
  /\ requireConvened
  /\ Carries(hansard, m, charter.quorum, "majority")
  /\ ~alreadyEnacted(hansard, m)
  /\ ~vetoOutstanding(hansard, m)
  /\ Enters(<<OnMotion("ASSENT_GRANTED", m), Plain("PROJECTION")>>)
  /\ Becomes("CONVENED", NoCause)

\* Faulty: a veto is taken from a suspended House.
VetoWhileSuspended(role, m) ==
  /\ role = "AUTHORITY" \/ role \in charter.domainVeto
  /\ Seldom
  /\ Enters(<<OnMotion("VETO_EXERCISED", m)>>)
  /\ Stays

Veto(role, m) ==
  /\ requireConvened
  /\ role = "AUTHORITY" \/ role \in charter.domainVeto
  /\ Seldom
  /\ Enters(<<OnMotion("VETO_EXERCISED", m)>>)
  /\ Stays

DivisionNext ==
  \/ \E m \in Motions : Call(m)
  \/ \E a \in Actors, role \in Roles, m \in Motions, v \in Votes : Vote(a, role, m, v)
  \/ \E m \in Motions : TallyDeadlock(m)
  \/ \E m \in Motions : TallyOutcome(m)
  \/ \E a \in Actors, m \in Motions, v \in Votes : Break(a, m, v)
  \/ \E role \in Roles, m \in Motions : Assent(role, m)
  \/ \E role \in Roles, m \in Motions : Veto(role, m)

\* The House sits, and all that happened is that actors took their seats.
SeatsTaken ==
  /\ charter \in Charters
  /\ state = "CONVENED" /\ suspension = NoCause
  /\ hansard \in Seq(Entry)
  /\ \A k \in DOMAIN hansard : hansard[k].type \in {"WRIT_DROP"} \cup SeatTypes

DivisionSpec == SeatsTaken /\ [][DivisionNext]_vars

-----------------------------------------------------------------------------
(***************************************************************************)
(* Properties.                                                             *)
(***************************************************************************)
OrdinaryVote(k) == hansard[k].type = "VOTE_CAST" /\ ~hansard[k].casting
CastingVote(k) == hansard[k].type = "VOTE_CAST" /\ hansard[k].casting
IsOutcome(k) == hansard[k].type \in Outcomes

\* A ballot is closed by its outcome and holds one ordinary vote from each voter
\* (castVote): an ordinary vote comes after the one call of its Division, before
\* every outcome on its Motion, and no second one of the same voter exists.
BallotIsSound ==
  \A k \in DOMAIN hansard : OrdinaryVote(k) =>
    /\ Cardinality({i \in DOMAIN hansard :
         hansard[i].type = "DIVISION_CALLED" /\ hansard[i].motion = hansard[k].motion}) = 1
    /\ \E i \in 1..(k - 1) :
         hansard[i].type = "DIVISION_CALLED" /\ hansard[i].motion = hansard[k].motion
    /\ \A i \in 1..(k - 1) : ~(IsOutcome(i) /\ hansard[i].motion = hansard[k].motion)
    /\ \A i \in DOMAIN hansard :
         (OrdinaryVote(i) /\ hansard[i].motion = hansard[k].motion
            /\ hansard[i].actor = hansard[k].actor) => i = k

\* The Hansard is auditable (RESOLUTION_RULES): a reader who recounts the whole
\* record today, under the Charter's rule, finds the last outcome it records for
\* the Motion, whatever was voted, broken or enacted since.
OutcomeRecounts ==
  \A k \in DOMAIN hansard :
    (/\ IsOutcome(k)
     /\ \A j \in (k + 1)..Len(hansard) : ~(IsOutcome(j) /\ hansard[j].motion = hansard[k].motion))
    => hansard[k] = Outcome(hansard, hansard[k].motion)

\* A sitting suspended for a DEADLOCK always has something to break: a Motion
\* declared deadlocked whose Division is still open and still tied, whatever other
\* Motions were tallied meanwhile (suspendForDeadlock, breakDeadlock).
DeadlockIsTie ==
  IsSuspendedFor("DEADLOCK") =>
    \E m \in Motions : /\ OnRecord(hansard, "DEADLOCK", m)
                       /\ Open(m)
                       /\ Tied(hansard, m, charter.quorum, charter.resolution)

\* A decided Division is decided again only by a casting vote, and only while the
\* House is in DEADLOCK over another Motion, which neither the House nor AUTHORITY
\* has decided (cmdDivision's tally refuses a decided one; breakDeadlock).
DecidedAgainOnlyInDeadlock ==
  \A i, j \in DOMAIN hansard :
    (i < j /\ IsOutcome(i) /\ IsOutcome(j) /\ hansard[i].motion = hansard[j].motion) =>
      /\ CastingVote(j - 1) /\ hansard[j - 1].motion = hansard[j].motion
      /\ SaysOfSitting(hansard, j - 2, "SUSPENDED", "DEADLOCK")
      /\ \E d \in 1..(j - 2) :
           /\ hansard[d].type = "DEADLOCK" /\ hansard[d].motion # hansard[j].motion
           /\ \A n \in 1..(j - 1) : ~(IsOutcome(n) /\ hansard[n].motion = hansard[d].motion)

\* "A casting vote can never override a Division the House did decide": once a tally
\* has decided a Motion, no casting vote on it follows (breakDeadlock's comment).
HouseDecisionStands ==
  \A i, j \in DOMAIN hansard :
    (i < j /\ IsOutcome(i) /\ ~CastingVote(i - 1) /\ CastingVote(j))
    => hansard[i].motion # hansard[j].motion

\* The last outcome on m among the first n entries, if there is one, is outcome.
LastOutcomeIs(n, m, outcome) ==
  \A i \in 1..n :
    (/\ IsOutcome(i) /\ hansard[i].motion = m
     /\ \A j \in (i + 1)..n : ~(IsOutcome(j) /\ hansard[j].motion = m))
    => hansard[i].type = outcome

\* Where the House decides by majority, Assent never goes against it: the last outcome
\* the record holds for the Motion, if there is one yet, carried it, whatever votes
\* and casting votes came in between; and under any rule no veto stands before an
\* Assent and no second Assent after it (cmdAssent, grantAssent).
AssentFollowsTheHouse ==
  \A k \in DOMAIN hansard : hansard[k].type = "ASSENT_GRANTED" =>
    /\ charter.resolution = "majority" => LastOutcomeIs(k - 1, hansard[k].motion, "MOTION_CARRIED")
    /\ \A i \in 1..(k - 1) : hansard[i].type \in {"VETO_EXERCISED", "ASSENT_GRANTED"} =>
         hansard[i].motion # hansard[k].motion

\* "ASSENT is invalid unless the Motion carried a Division": before every Assent the
\* record holds a MOTION_CARRIED for its Motion, and no later rejection (ADR-0004).
AssentNeedsDivision ==
  \A k \in DOMAIN hansard : hansard[k].type = "ASSENT_GRANTED" =>
    \E i \in 1..(k - 1) :
      /\ hansard[i] = OnMotion("MOTION_CARRIED", hansard[k].motion)
      /\ \A j \in i..(k - 1) : hansard[j] # OnMotion("MOTION_REJECTED", hansard[k].motion)

SeatedActors == {a \in Actors : Seated(hansard, a)}
Minority(m) ==
  {a \in Actors : \E v \in {"AYE", "NO"} :
     /\ \E k \in votesFor(hansard, m) : hansard[k].actor = a /\ hansard[k].vote = v
     /\ \E w \in {"AYE", "NO"} : Count(hansard, m, v) < Count(hansard, m, w)}

\* A tally decides m in this step: a casting vote's outcome is never the first entry.
TallyDecides(m) ==
  /\ Len(hansard) + 1 \in DOMAIN hansard'
  /\ hansard'[Len(hansard) + 1] \in {OnMotion(outcome, m) : outcome \in Outcomes}

\* Under exit: elimination the tally that decides a Motion, in whatever state of the
\* session, unseats exactly the voters of its smaller side, each of them once; no
\* other step of a Division, a casting vote included, and no tally under another
\* policy unseats anyone (cull, cmdDivision).
CullStep ==
  LET culling(m) == charter.exit = "elimination" /\ TallyDecides(m)
      exits == {k \in DOMAIN hansard' \ DOMAIN hansard : hansard'[k].type = "ACTOR_EXITED"}
  IN /\ \A m \in Motions : culling(m) => SeatedActors' = SeatedActors \ Minority(m)
     /\ (\A m \in Motions : ~culling(m)) => SeatedActors' = SeatedActors
     /\ Cardinality(exits) = Cardinality(SeatedActors \ SeatedActors')
CullIsExact == [][DivisionNext => CullStep]_vars

\* "The actors on the losing side of a decided Division are removed": whoever a tally
\* unseats voted against what it decided (cull's comment).
LosersAreCulled ==
  \A k \in DOMAIN hansard, i \in DOMAIN hansard :
    (i < k /\ IsOutcome(i) /\ \A j \in (i + 1)..k : hansard[j].type = "ACTOR_EXITED") =>
      \E n \in votesFor(hansard, hansard[i].motion) :
         /\ hansard[n].actor = hansard[k].subject
         /\ hansard[n].vote = IF hansard[i].type = "MOTION_CARRIED" THEN "NO" ELSE "AYE"

\* The sitting ends on time (ADR-0007 termination): under last-standing it is
\* sealed as soon as a cull has left one seat or none, under verdict as soon as a
\* tally carries a Motion.
EndsOnTime ==
  /\ (/\ charter.termination = "last-standing"
      /\ \E a \in Actors : HasExited(hansard, a)
      /\ LastStanding(hansard)) => state = "PROROGUED"
  /\ (/\ charter.termination = "verdict"
      /\ \E k \in DOMAIN hansard : /\ hansard[k].type = "MOTION_CARRIED"
                                  /\ ~CastingVote(k - 1)) => state = "PROROGUED"

=============================================================================

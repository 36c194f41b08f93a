------------------------------ MODULE Hansard ------------------------------
(***************************************************************************)
(* HANSARD.md, the append-only record of a proceeding, and the questions   *)
(* the engine asks of it.  The code keeps no other register: whether a     *)
(* Division was called, who voted, who holds a seat, whether a Motion was  *)
(* vetoed or enacted is read back from the record every time.              *)
(*                                                                         *)
(* A record is a sequence of entries.  An entry keeps the fields some      *)
(* reader looks at; timestamps, bodies, reasons and the name of the        *)
(* declaring actor where nothing reads it back are left out.               *)
(***************************************************************************)
EXTENDS Integers, Sequences, FiniteSets

CONSTANTS Actors,     \* names an actor can be given on the command line
          Motions     \* Motion identifiers

(***************************************************************************)
(* CANON roles, highest first (ROLE_PRECEDENCE).                           *)
(***************************************************************************)
RolePrecedence == <<"AUTHORITY", "DELEGATE", "OPERATOR", "MEMBER", "OBSERVER">>
Roles == {"AUTHORITY", "DELEGATE", "OPERATOR", "MEMBER", "OBSERVER"}
Rank(role) == CHOOSE i \in 1..5 : RolePrecedence[i] = role

Votes == {"AYE", "NO", "ABSTAIN"}
NoSeat == "no seat"

-----------------------------------------------------------------------------
(***************************************************************************)
(* Entries.  A plain entry is a type and nothing a reader uses.            *)
(***************************************************************************)
PlainTypes == {"WRIT_DROP", "SESSION_INVALID", "SESSION_STALE", "SESSION_RESUMED",
               "STATE_SNAPSHOT", "SESSION_TIMEOUT", "DELEGATE_CHALLENGE",
               "COMMITTEE_SPAWNED", "PROJECTION", "POINT_OF_ORDER", "RULING",
               "CONSTITUTIONAL_CRISIS", "MOTION_TABLED", "SESSION_FAULT",
               "SESSION_FAULT_CRITICAL", "FAULT_RESOLVED_AUTO", "CONTAINMENT_BREACH"}
MotionTypes == {"DIVISION_CALLED", "MOTION_CARRIED", "MOTION_REJECTED", "DEADLOCK",
                "ASSENT_GRANTED", "VETO_EXERCISED"}
Outcomes == {"MOTION_CARRIED", "MOTION_REJECTED"}
SeatTypes == {"ACTOR_HIRED", "ACTOR_PROMOTED", "ACTOR_DEMOTED"}
DisputeRulings == {"UPHELD", "REVERSED"}
\* politik crisis review takes any text for a ruling: "OTHER" is one it was not asked for.
CrisisRulings == {"UPHELD", "DISMISSED", "OTHER"}

Plain(type) == [type |-> type]
OnMotion(type, m) == [type |-> type, motion |-> m]
\* casting: the Note field that breakDeadlock puts on AUTHORITY's vote
VoteCast(m, a, v, casting) ==
  [type |-> "VOTE_CAST", motion |-> m, actor |-> a, vote |-> v, casting |-> casting]
Seating(type, a, role) == [type |-> type, subject |-> a, role |-> role]
\* self: the entry's declaring actor is its subject
Exited(a, role, self) ==
  [type |-> "ACTOR_EXITED", subject |-> a, role |-> role, self |-> self]
Disputed(a) == [type |-> "EXIT_DISPUTED", subject |-> a]
ExitRuling(a, ruling) == [type |-> "EXIT_RULING", subject |-> a, ruling |-> ruling]
CrisisFiled(a, role) ==
  [type |-> "CONSTITUTIONAL_CRISIS_FILED", actor |-> a, role |-> role]
CrisisRuling(ruling) == [type |-> "CONSTITUTIONAL_CRISIS_RULING", ruling |-> ruling]

Entry ==
  [type : PlainTypes]
    \cup [type : MotionTypes, motion : Motions]
    \cup [type : {"VOTE_CAST"}, motion : Motions, actor : Actors, vote : Votes,
          casting : BOOLEAN]
    \cup [type : SeatTypes, subject : Actors, role : Roles]
    \cup [type : {"ACTOR_EXITED"}, subject : Actors, role : Roles, self : BOOLEAN]
    \cup [type : {"EXIT_DISPUTED"}, subject : Actors]
    \cup [type : {"EXIT_RULING"}, subject : Actors, ruling : DisputeRulings]
    \cup [type : {"CONSTITUTIONAL_CRISIS_FILED"}, actor : Actors, role : Roles]
    \cup [type : {"CONSTITUTIONAL_CRISIS_RULING"}, ruling : CrisisRulings]

-----------------------------------------------------------------------------
(***************************************************************************)
(* Divisions on the record.                                                *)
(***************************************************************************)
OnRecord(h, type, m) ==
  \E k \in DOMAIN h : h[k].type = type /\ h[k].motion = m

divisionCalled(h, m) == OnRecord(h, "DIVISION_CALLED", m)
divisionDecided(h, m) == \E outcome \in Outcomes : OnRecord(h, outcome, m)
alreadyEnacted(h, m) == OnRecord(h, "ASSENT_GRANTED", m)
vetoOutstanding(h, m) == OnRecord(h, "VETO_EXERCISED", m)

\* Positions of the votes on m, AUTHORITY's casting votes among them.
votesFor(h, m) == {k \in DOMAIN h : h[k].type = "VOTE_CAST" /\ h[k].motion = m}
HasVoted(h, a, m) == \E k \in votesFor(h, m) : h[k].actor = a
Count(h, m, vote) == Cardinality({k \in votesFor(h, m) : h[k].vote = vote})

(***************************************************************************)
(* RESOLUTION_RULES: each a function of the ballot and nothing else.       *)
(***************************************************************************)
Resolutions == {"majority", "supermajority", "unanimity"}

Decides(rule, ayes, noes, abstentions) ==
  \/ rule = "majority" /\ ayes > noes
  \/ rule = "supermajority" /\ ayes > 0 /\ ayes * 3 >= (ayes + noes) * 2 /\ ayes > noes
  \/ rule = "unanimity" /\ ayes > 0 /\ noes = 0 /\ abstentions = 0

\* checkQuorum: abstainers are not present; no command passes an override.
QuorumMet(h, m, quorum) == Count(h, m, "AYE") + Count(h, m, "NO") >= quorum

\* tallyDivision(...).carried
Carries(h, m, quorum, rule) ==
  /\ QuorumMet(h, m, quorum)
  /\ Decides(rule, Count(h, m, "AYE"), Count(h, m, "NO"), Count(h, m, "ABSTAIN"))

\* The tie with quorum that cmdDivision and suspendForDeadlock look for.
Tied(h, m, quorum, rule) ==
  /\ ~Carries(h, m, quorum, rule)
  /\ Count(h, m, "AYE") = Count(h, m, "NO")
  /\ QuorumMet(h, m, quorum)

-----------------------------------------------------------------------------
(***************************************************************************)
(* Seats.  seats() replays the record; an actor is seated when a hiring of *)
(* theirs has no later exit, and sits in the role their last hiring or     *)
(* move gave them (moves of an unseated actor are ignored by the replay).  *)
(***************************************************************************)
About(h, a, types) == {k \in DOMAIN h : h[k].type \in types /\ h[k].subject = a}
Latest(K) == CHOOSE k \in K : \A j \in K : j <= k

Seated(h, a) ==
  \E k \in About(h, a, {"ACTOR_HIRED"}) :
    \A j \in About(h, a, {"ACTOR_EXITED"}) : j < k

seatOf(h, a) ==
  IF Seated(h, a) THEN h[Latest(About(h, a, SeatTypes))].role ELSE NoSeat

\* The removal a dispute or a ruling is about: the actor's last exit.
LastExit(h, a) == h[Latest(About(h, a, {"ACTOR_EXITED"}))]
HasExited(h, a) == About(h, a, {"ACTOR_EXITED"}) # {}

\* lastStanding(): at most one seat left
LastStanding(h) == Cardinality({a \in Actors : Seated(h, a)}) <= 1

(***************************************************************************)
(* The elimination cull: positions of the losing votes whose voters still  *)
(* hold a seat.  A tie culls no one.                                       *)
(***************************************************************************)
\* Faulty: the sides are swapped.
WinningSide(h, m) ==
  IF Count(h, m, "AYE") > Count(h, m, "NO") THEN {"AYE"}
  ELSE IF Count(h, m, "NO") > Count(h, m, "AYE") THEN {"NO"} ELSE {}

LosingSide(h, m) ==
  IF Count(h, m, "AYE") > Count(h, m, "NO") THEN {"NO"}
  ELSE IF Count(h, m, "NO") > Count(h, m, "AYE") THEN {"AYE"} ELSE {}

Culled(h, m, policy) ==
  IF policy # "elimination" THEN {}
  ELSE {k \in votesFor(h, m) : /\ h[k].vote \in LosingSide(h, m)
                               /\ Seated(h, h[k].actor)}

\* The ways to list a set of positions in the order of the record (exactly one).
InOrder(K) ==
  {f \in [1..Cardinality(K) -> K] : \A i, j \in DOMAIN f : i < j => f[i] < f[j]}

\* darwinistExit: declared by the protocol, in the culled actor's own name.
DarwinistExits(h, f) ==
  [i \in DOMAIN f |-> Exited(h[f[i]].actor, seatOf(h, h[f[i]].actor), TRUE)]

-----------------------------------------------------------------------------
(***************************************************************************)
(* Crisis filings and the capture threshold.                               *)
(***************************************************************************)
filings(h) == {k \in DOMAIN h : h[k].type = "CONSTITUTIONAL_CRISIS_FILED"}
HasFiled(h, a) == \E k \in filings(h) : h[k].actor = a

\* Math.ceil(operatorCount * threshold), the threshold in hundredths
RequiredFilings(operators, threshold) == (operators * threshold + 99) \div 100

checkCapture(h, c) ==
  LET required == RequiredFilings(c.operators, c.threshold)
      operatorFilings == Cardinality({k \in filings(h) : h[k].role = "OPERATOR"})
  IN \/ \E k \in filings(h) : h[k].role \in c.witnesses
     \/ /\ c.consensus
        /\ required > 0
        /\ operatorFilings >= required

-----------------------------------------------------------------------------
(***************************************************************************)
(* What the record says of the sitting: the effect on STATE.json of the    *)
(* entries that bear one, as the code writes the pair.                     *)
(***************************************************************************)
NoCause == "none"
Causes == {"POINT_OF_ORDER", "CONSTITUTIONAL_CRISIS", "DISPUTED_EXIT", "DEADLOCK"}
States == {"CONVENED", "SUSPENDED", "PROROGUED", "STALE", "INVALID"}

Convening(e) ==
  \/ e.type \in {"WRIT_DROP", "ASSENT_GRANTED", "RULING", "EXIT_RULING", "SESSION_RESUMED"}
  \/ e.type = "VOTE_CAST" /\ e.casting
  \/ e.type = "CONSTITUTIONAL_CRISIS_RULING" /\ e.ruling # "UPHELD"

Suspends(e, cause) ==
  \/ cause = "POINT_OF_ORDER" /\ e.type = "POINT_OF_ORDER"
  \/ cause = "DEADLOCK" /\ e.type = "DEADLOCK"
  \/ cause = "DISPUTED_EXIT" /\ e.type = "EXIT_DISPUTED"
  \/ cause = "CONSTITUTIONAL_CRISIS" /\ e.type = "CONSTITUTIONAL_CRISIS"
  \/ /\ cause = "CONSTITUTIONAL_CRISIS"
     /\ e.type = "CONSTITUTIONAL_CRISIS_RULING"
     /\ e.ruling = "UPHELD"

Ending(e, s) ==
  \/ s = "PROROGUED" /\ e.type = "SESSION_TIMEOUT"
  \/ s = "STALE" /\ e.type = "SESSION_STALE"
  \/ s = "INVALID" /\ e.type = "SESSION_INVALID"

\* Entry e leaves the sitting in state s, suspended for cause c.
Leaves(e, s, c) ==
  \/ s = "CONVENED" /\ c = NoCause /\ Convening(e)
  \/ s = "SUSPENDED" /\ Suspends(e, c)
  \/ c = NoCause /\ Ending(e, s)

BearsState(e) ==
  Convening(e) \/ (\E c \in Causes : Suspends(e, c)) \/ (\E s \in States : Ending(e, s))

\* The sitting as the first n entries of h leave it.
SaysOfSitting(h, n, s, c) ==
  \E k \in 1..n : /\ Leaves(h[k], s, c)
                  /\ \A j \in (k + 1)..n : ~BearsState(h[j])

=============================================================================

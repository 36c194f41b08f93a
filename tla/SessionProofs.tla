---------------------------- MODULE SessionProofs ---------------------------
(***************************************************************************)
(* What holds of every sitting, whatever the sets of actors and Motions,   *)
(* the Charters, the seats named and the bounds.                           *)
(*                                                                         *)
(* The argument.  Every command enters some sequence of entries, and those *)
(* entries are lawful: either none of them bears on the sitting and        *)
(* STATE.json stays, or they say what STATE.json then holds; no entry      *)
(* gives AUTHORITY a seat; a dispute names someone who left; and an entry  *)
(* that needs the floor is the first of a command given while CONVENED.    *)
(* Lawful entries preserve the invariant Inv, so one step per command      *)
(* shows that the command is lawful, and one argument does the rest.  What *)
(* a command must answer to move the sitting is read off its guards.       *)
(***************************************************************************)
EXTENDS Session, HansardProofs

Gives(e) == e.type \in SeatTypes \cup {"ACTOR_EXITED"}

\* Only someone who left has disputed: resolveDispute reads their last exit.
DisputesFollowExits ==
  \A a \in Actors : About(hansard, a, {"EXIT_DISPUTED"}) # {} => HasExited(hansard, a)

\* The record gives no one AUTHORITY's seat, and no one leaves it.
SpeakerUnseated == \A k \in DOMAIN hansard : Gives(hansard[k]) => hansard[k].role # "AUTHORITY"

Inv ==
  /\ WellFormed
  /\ StateMatchesRecord
  /\ BusinessWhileConvened
  /\ DisputesFollowExits
  /\ SpeakerUnseated

(***************************************************************************)
(* What each command enters.                                               *)
(***************************************************************************)
LawfulEntry(e) ==
  /\ e \in Entry
  /\ Gives(e) => e.role # "AUTHORITY"
  /\ e.type = "EXIT_DISPUTED" => HasExited(hansard, e.subject)

NamesItsCause ==
  state \in States /\ suspension \in Causes \cup {NoCause} /\ SuspensionNamed

Lawful(es) ==
  /\ es \in Seq(Entry)
  /\ \A k \in DOMAIN es : LawfulEntry(es[k])
  /\ hansard' = hansard \o es
  /\ charter' = charter
  /\ \/ Stays /\ \A k \in DOMAIN es : ~BearsState(es[k])
     \/ NamesItsCause' /\ SaysOfSitting(es, Len(es), state', suspension')
  /\ \A k \in DOMAIN es : IsFloorEntry(es[k]) =>
       \/ k = 1 /\ requireConvened
       \/ SaysOfSitting(es, k - 1, "CONVENED", NoCause)

-----------------------------------------------------------------------------
(***************************************************************************)
(* Commands that enter one entry, or two of which the second bears on      *)
(* nothing.                                                                *)
(***************************************************************************)
LEMMA OneEntry ==
  ASSUME NEW e, LawfulEntry(e), hansard' = hansard \o <<e>>, charter' = charter,
         \/ Stays /\ ~BearsState(e)
         \/ NamesItsCause' /\ Leaves(e, state', suspension'),
         IsFloorEntry(e) => requireConvened
  PROVE  Lawful(<<e>>)
<1>1. <<e>> \in Seq(Entry) /\ Len(<<e>>) = 1 /\ DOMAIN <<e>> = {1} /\ <<e>>[1] = e
  BY DEF LawfulEntry
<1>2. Leaves(e, state', suspension') => SaysOfSitting(<<e>>, 1, state', suspension')
  BY DEF SaysOfSitting
<1> QED
  BY <1>1, <1>2 DEF Lawful

LEMMA TwoEntries ==
  ASSUME NEW e, NEW f, LawfulEntry(e), LawfulEntry(f),
         hansard' = hansard \o <<e, f>>, charter' = charter,
         \/ Stays /\ ~BearsState(e)
         \/ NamesItsCause' /\ Leaves(e, state', suspension'),
         ~BearsState(f),
         IsFloorEntry(e) => requireConvened,
         IsFloorEntry(f) => Leaves(e, "CONVENED", NoCause)
  PROVE  Lawful(<<e, f>>)
<1>1. /\ <<e, f>> \in Seq(Entry) /\ Len(<<e, f>>) = 2 /\ DOMAIN <<e, f>> = {1, 2}
      /\ <<e, f>>[1] = e /\ <<e, f>>[2] = f
  BY DEF LawfulEntry
<1>2. ASSUME Leaves(e, state', suspension')
      PROVE  SaysOfSitting(<<e, f>>, 2, state', suspension')
  <2>1. 1 \in 1..2 /\ \A j \in 2..2 : j = 2
    OBVIOUS
  <2> QED
    BY <1>1, <1>2, <2>1 DEF SaysOfSitting
<1>3. ASSUME Leaves(e, "CONVENED", NoCause)
      PROVE  SaysOfSitting(<<e, f>>, 1, "CONVENED", NoCause)
  BY <1>1, <1>3 DEF SaysOfSitting
<1>4. \A k \in DOMAIN <<e, f>> : LawfulEntry(<<e, f>>[k])
  BY <1>1
<1>5. \/ Stays /\ \A k \in DOMAIN <<e, f>> : ~BearsState(<<e, f>>[k])
      \/ NamesItsCause' /\ SaysOfSitting(<<e, f>>, Len(<<e, f>>), state', suspension')
  BY <1>1, <1>2
<1>6. \A k \in DOMAIN <<e, f>> : IsFloorEntry(<<e, f>>[k]) =>
        \/ k = 1 /\ requireConvened
        \/ SaysOfSitting(<<e, f>>, k - 1, "CONVENED", NoCause)
  <2>1. 2 - 1 = 1
    OBVIOUS
  <2> QED
    BY <1>1, <1>3, <2>1
<1> QED
  BY <1>1, <1>4, <1>5, <1>6 DEF Lawful

\* What the last entry says, all the entries say.
LEMMA LastEntrySays ==
  ASSUME NEW es \in Seq(Entry), es # <<>>, NEW s, NEW c, Leaves(es[Len(es)], s, c)
  PROVE  SaysOfSitting(es, Len(es), s, c)
<1>1. Len(es) \in 1..Len(es) /\ (Len(es) + 1)..Len(es) = {}
  OBVIOUS
<1> QED
  BY <1>1 DEF SaysOfSitting

-----------------------------------------------------------------------------
(***************************************************************************)
(* Every command enters lawful entries.                                    *)
(***************************************************************************)
LEMMA DivisionIsLawful ==
  ASSUME Inv, DivisionNext
  PROVE  \E es : Lawful(es)
<1> USE DEF LawfulEntry, Gives, SeatTypes, NamesItsCause, SuspensionNamed, Enters, Becomes
<1>1. TypeOK /\ SuspensionNamed /\ charter \in Charter /\ hansard \in Seq(Entry)
  BY ChartersAssumption DEF Inv, WellFormed, TypeOK
<1>2. Plain("PROJECTION") \in Entry /\ ~BearsState(Plain("PROJECTION"))
      /\ ~IsFloorEntry(Plain("PROJECTION")) /\ Plain("PROJECTION").type = "PROJECTION"
  BY EntriesAreTyped, StateBearers DEF Plain, PlainTypes, IsFloorEntry
<1>3. ASSUME NEW m \in Motions, Call(m)
      PROVE  \E es : Lawful(es)
  <2> DEFINE e == OnMotion("DIVISION_CALLED", m)
  <2>1. e \in Entry /\ e.type = "DIVISION_CALLED"
    BY EntriesAreTyped DEF OnMotion, MotionTypes
  <2>2. ~BearsState(e)
    BY <2>1, StateBearers
  <2> QED
    BY <1>2, <1>3, <2>1, <2>2, TwoEntries DEF Call
<1>4. ASSUME NEW a \in Actors, NEW role \in Roles, NEW m \in Motions, NEW v \in Votes,
             Vote(a, role, m, v)
      PROVE  \E es : Lawful(es)
  <2> DEFINE e == VoteCast(m, a, v, FALSE)
  <2>1. e \in Entry /\ e.type = "VOTE_CAST" /\ ~e.casting
    BY EntriesAreTyped DEF VoteCast
  <2>2. ~BearsState(e)
    BY <2>1, StateBearers
  <2> QED
    BY <1>4, <2>1, <2>2, OneEntry DEF Vote
<1>5. ASSUME NEW m \in Motions, TallyDeadlock(m)
      PROVE  \E es : Lawful(es)
  <2> DEFINE e == OnMotion("DEADLOCK", m)
  <2>1. e \in Entry /\ e.type = "DEADLOCK"
    BY EntriesAreTyped DEF OnMotion, MotionTypes
  <2>2. Leaves(e, "SUSPENDED", "DEADLOCK")
    BY <2>1 DEF Leaves, Suspends
  <2> QED
    BY <1>5, <2>1, <2>2, OneEntry DEF TallyDeadlock, States, Causes, NoCause
<1>6. ASSUME NEW m \in Motions, TallyOutcome(m)
      PROVE  \E es : Lawful(es)
  <2> DEFINE o == Outcome(hansard, m)
             end == Plain("SESSION_TIMEOUT")
  <2>1. PICK f \in InOrder(Culled(hansard, m, charter.exit)) :
          \/ Enters(<<o>> \o DarwinistExits(hansard, f)) /\ Stays
          \/ /\ Enters(Append(<<o>> \o DarwinistExits(hansard, f), end))
             /\ Becomes("PROROGUED", NoCause)
    BY <1>6 DEF TallyOutcome
  <2> DEFINE exits == DarwinistExits(hansard, f)
             es == <<o>> \o exits
  <2>2. o \in Entry /\ o.type \in Outcomes
    BY EntriesAreTyped DEF Outcome, OnMotion, Outcomes, MotionTypes
  <2>3. exits \in Seq(Entry) /\ \A i \in DOMAIN exits : IsCullOf(hansard, exits[i])
    BY <1>1, CullEntersExits
  <2>4. ASSUME NEW i \in DOMAIN exits
        PROVE  exits[i].type = "ACTOR_EXITED" /\ exits[i].self /\ exits[i].role # "AUTHORITY"
    <3>1. PICK a \in Actors, k \in DOMAIN hansard :
            hansard[k].type \in SeatTypes /\ exits[i] = Exited(a, hansard[k].role, TRUE)
      BY <2>3 DEF IsCullOf
    <3>2. hansard[k].role # "AUTHORITY"
      BY <3>1 DEF Inv, SpeakerUnseated
    <3> QED
      BY <3>1, <3>2 DEF Exited
  <2> HIDE DEF o, exits
  <2>5. /\ es \in Seq(Entry) /\ Len(es) = 1 + Len(exits) /\ es[1] = o
        /\ \A k \in DOMAIN es : k = 1 \/ (k - 1 \in DOMAIN exits /\ es[k] = exits[k - 1])
    BY <2>2, <2>3
  <2>6. ASSUME NEW k \in DOMAIN es
        PROVE  LawfulEntry(es[k]) /\ ~BearsState(es[k]) /\ ~IsFloorEntry(es[k])
    <3>1. es[k] \in Entry
      BY <2>5
    <3>2. CASE k = 1
      BY <2>2, <2>5, <3>1, <3>2, StateBearers DEF Outcomes, IsFloorEntry
    <3>3. CASE k # 1
      <4>1. es[k].type = "ACTOR_EXITED" /\ es[k].self /\ es[k].role # "AUTHORITY"
        BY <2>4, <2>5, <3>3
      <4> QED
        BY <3>1, <4>1, StateBearers DEF IsFloorEntry
    <3> QED
      BY <3>2, <3>3
  <2> HIDE DEF es
  <2>7. CASE Enters(es) /\ Stays
    BY <2>5, <2>6, <2>7 DEF Lawful
  <2>8. CASE Enters(Append(es, end)) /\ Becomes("PROROGUED", NoCause)
    <3> DEFINE fs == Append(es, end)
    <3>1. end \in Entry /\ end.type = "SESSION_TIMEOUT"
      BY EntriesAreTyped DEF Plain, PlainTypes
    <3>2. Leaves(end, "PROROGUED", NoCause) /\ LawfulEntry(end) /\ ~IsFloorEntry(end)
      BY <3>1 DEF Leaves, Ending, IsFloorEntry
    <3> HIDE DEF end
    <3>3. /\ fs \in Seq(Entry) /\ fs # <<>> /\ fs[Len(fs)] = end
          /\ \A k \in DOMAIN fs : fs[k] = end \/ (k \in DOMAIN es /\ fs[k] = es[k])
      BY <2>5, <3>1
    <3>4. SaysOfSitting(fs, Len(fs), "PROROGUED", NoCause)
      BY <3>2, <3>3, LastEntrySays
    <3>5. NamesItsCause' /\ state' = "PROROGUED" /\ suspension' = NoCause
      BY <2>8 DEF States, Causes, NoCause
    <3>6. hansard' = hansard \o fs /\ charter' = charter
      BY <2>8
    <3> HIDE DEF fs
    <3>7. \A k \in DOMAIN fs : LawfulEntry(fs[k]) /\ ~IsFloorEntry(fs[k])
      BY <2>6, <3>2, <3>3
    <3> QED
      BY <3>3, <3>4, <3>5, <3>6, <3>7 DEF Lawful
  <2> QED
    BY <2>1, <2>7, <2>8 DEF es, o, exits
<1>7. ASSUME NEW a \in Actors, NEW m \in Motions, NEW v \in Votes, Break(a, m, v)
      PROVE  \E es : Lawful(es)
  <2> DEFINE e == VoteCast(m, a, v, TRUE)
             o == Outcome(hansard \o <<e>>, m)
  <2>1. e \in Entry /\ e.type = "VOTE_CAST" /\ e.casting
    BY EntriesAreTyped DEF VoteCast
  <2>2. Leaves(e, "CONVENED", NoCause) /\ ~IsFloorEntry(e)
    BY <2>1 DEF Leaves, Convening, IsFloorEntry
  <2>3. o \in Entry /\ o.type \in Outcomes
    BY EntriesAreTyped DEF Outcome, OnMotion, Outcomes, MotionTypes
  <2>4. ~BearsState(o) /\ ~IsFloorEntry(o)
    BY <2>3, StateBearers DEF Outcomes, IsFloorEntry
  <2>5. hansard' = hansard \o <<e, o>> /\ charter' = charter
    <3>1. Enters(Append(<<e>>, o))
      BY <1>7 DEF Break
    <3>2. Append(<<e>>, o) = <<e, o>>
      BY <2>1, <2>3, PairOfEntries
    <3> QED
      BY <3>1, <3>2
  <2>6. NamesItsCause' /\ state' = "CONVENED" /\ suspension' = NoCause
    BY <1>7 DEF Break, States, Causes, NoCause
  <2>7. LawfulEntry(e) /\ LawfulEntry(o)
    BY <2>1, <2>3 DEF Outcomes
  <2> QED
    BY <2>2, <2>4, <2>5, <2>6, <2>7, TwoEntries
<1>8. ASSUME NEW role \in Roles, NEW m \in Motions, Assent(role, m)
      PROVE  \E es : Lawful(es)
  <2> DEFINE e == OnMotion("ASSENT_GRANTED", m)
  <2>1. e \in Entry /\ e.type = "ASSENT_GRANTED"
    BY EntriesAreTyped DEF OnMotion, MotionTypes
  <2>2. Leaves(e, "CONVENED", NoCause)
    BY <2>1 DEF Leaves, Convening
  <2> QED
    BY <1>2, <1>8, <2>1, <2>2, TwoEntries DEF Assent, States, Causes, NoCause
<1>9. ASSUME NEW role \in Roles, NEW m \in Motions, Veto(role, m)
      PROVE  \E es : Lawful(es)
  <2> DEFINE e == OnMotion("VETO_EXERCISED", m)
  <2>1. e \in Entry /\ e.type = "VETO_EXERCISED"
    BY EntriesAreTyped DEF OnMotion, MotionTypes
  <2>2. ~BearsState(e)
    BY <2>1, StateBearers
  <2> QED
    BY <1>9, <2>1, <2>2, OneEntry DEF Veto
<1> QED
  BY <1>3, <1>4, <1>5, <1>6, <1>7, <1>8, <1>9 DEF DivisionNext

LEMMA BenchIsLawful ==
  ASSUME Inv, BenchNext
  PROVE  \E es : Lawful(es)
<1> USE DEF LawfulEntry, Gives, SeatTypes, NamesItsCause, SuspensionNamed, Enters, Becomes
<1>1. hansard \in Seq(Entry) /\ SeatRoles \subseteq Roles
  BY SeatRolesAssumption DEF Inv, WellFormed, TypeOK
<1>2. ASSUME NEW a \in Actors, NEW type \in SeatTypes, NEW seat \in SeatRoles,
             seat # "AUTHORITY", requireConvened, Enters(<<Seating(type, a, seat)>>), Stays
      PROVE  \E es : Lawful(es)
  <2> DEFINE e == Seating(type, a, seat)
  <2>1. e \in Entry /\ e.type = type /\ e.role = seat
    BY <1>1, EntriesAreTyped DEF Seating
  <2>2. ~BearsState(e)
    BY <2>1, StateBearers
  <2> QED
    BY <1>2, <2>1, <2>2, OneEntry
<1>3. ASSUME NEW role \in Roles, NEW a \in Actors, NEW seat \in SeatRoles, Hire(role, a, seat)
      PROVE  \E es : Lawful(es)
  BY <1>2, <1>3 DEF Hire
<1>4. ASSUME NEW role \in Roles, NEW a \in Actors, NEW to \in SeatRoles, Promote(role, a, to)
      PROVE  \E es : Lawful(es)
  BY <1>2, <1>4 DEF Promote, MayMove
<1>5. ASSUME NEW role \in Roles, NEW a \in Actors, NEW to \in SeatRoles, Demote(role, a, to)
      PROVE  \E es : Lawful(es)
  BY <1>2, <1>5 DEF Demote, MayMove
<1>6. ASSUME NEW by \in Actors, NEW role \in Roles, NEW a \in Actors, NEW v \in BOOLEAN,
             Exit(by, role, a, v)
      PROVE  \E es : Lawful(es)
  <2> DEFINE e == Exited(a, seatOf(hansard, a), by = a)
  <2>1. seatOf(hansard, a) \in Roles /\ seatOf(hansard, a) # "AUTHORITY"
    <3>1. Seated(hansard, a)
      BY <1>6 DEF Exit, seatOf
    <3>2. PICK k \in DOMAIN hansard :
            hansard[k].type \in SeatTypes /\ seatOf(hansard, a) = hansard[k].role
      BY <1>1, <3>1, SeatIsOnRecord
    <3>3. hansard[k] \in Entry
      BY <1>1
    <3> QED
      BY <1>6, <3>2, <3>3, EntryFields DEF Exit
  <2>2. e \in Entry /\ e.type = "ACTOR_EXITED" /\ e.role = seatOf(hansard, a)
    BY <2>1, EntriesAreTyped DEF Exited
  <2>3. ~BearsState(e)
    BY <2>2, StateBearers
  <2> QED
    BY <1>6, <2>1, <2>2, <2>3, OneEntry DEF Exit
<1>7. ASSUME NEW role \in Roles, Spawn(role)
      PROVE  \E es : Lawful(es)
  <2> DEFINE e == Plain("COMMITTEE_SPAWNED")
  <2>1. e \in Entry /\ e.type = "COMMITTEE_SPAWNED"
    BY EntriesAreTyped DEF Plain, PlainTypes
  <2>2. ~BearsState(e)
    BY <2>1, StateBearers
  <2> QED
    BY <1>7, <2>1, <2>2, OneEntry DEF Spawn
<1>8. ASSUME NEW a \in Actors, DisputeExit(a)
      PROVE  \E es : Lawful(es)
  <2> DEFINE e == Disputed(a)
  <2>1. e \in Entry /\ e.type = "EXIT_DISPUTED" /\ e.subject = a
    BY EntriesAreTyped DEF Disputed
  <2>2. Leaves(e, "SUSPENDED", "DISPUTED_EXIT") /\ ~IsFloorEntry(e)
    BY <2>1 DEF Leaves, Suspends, IsFloorEntry
  <2> QED
    BY <1>8, <2>1, <2>2, OneEntry DEF DisputeExit, States, Causes, NoCause
<1>9. ASSUME NEW a \in Actors, NEW ruling \in DisputeRulings, Reinstate(a, ruling)
      PROVE  \E es : Lawful(es)
  <2> DEFINE e == ExitRuling(a, ruling)
             f == Seating("ACTOR_HIRED", a, LastExit(hansard, a).role)
  <2>1. e \in Entry /\ e.type = "EXIT_RULING"
    BY EntriesAreTyped DEF ExitRuling
  <2>2. Leaves(e, "CONVENED", NoCause) /\ ~IsFloorEntry(e)
    BY <2>1 DEF Leaves, Convening, IsFloorEntry
  <2>3. NamesItsCause' /\ state' = "CONVENED" /\ suspension' = NoCause
    BY <1>9 DEF Reinstate, States, Causes, NoCause
  <2>4. CASE ruling = "UPHELD"
    <3>1. HasExited(hansard, a)
      BY <1>9 DEF Reinstate, Inv, DisputesFollowExits
    <3>2. PICK k \in DOMAIN hansard :
            hansard[k].type = "ACTOR_EXITED" /\ LastExit(hansard, a) = hansard[k]
      BY <1>1, <3>1, LastExitIsOnRecord
    <3>3. LastExit(hansard, a).role \in Roles /\ LastExit(hansard, a).role # "AUTHORITY"
      <4>1. hansard[k] \in Entry
        BY <1>1
      <4> QED
        BY <3>2, <4>1, EntryFields DEF Inv, SpeakerUnseated
    <3>4. f \in Entry /\ f.type = "ACTOR_HIRED" /\ f.role # "AUTHORITY"
      BY <3>3, EntriesAreTyped DEF Seating
    <3>5. ~BearsState(f)
      BY <3>4, StateBearers
    <3>6. hansard' = hansard \o <<e, f>> /\ charter' = charter
      <4>1. Enters(<<e>> \o <<f>>)
        BY <1>9, <2>4 DEF Reinstate, Reinstatement
      <4>2. <<e>> \o <<f>> = <<e, f>>
        BY <2>1, <3>4, PairOfEntries
      <4> QED
        BY <4>1, <4>2
    <3> QED
      BY <2>1, <2>2, <2>3, <3>4, <3>5, <3>6, TwoEntries
  <2>5. CASE ruling # "UPHELD"
    <3>1. hansard' = hansard \o <<e>> /\ charter' = charter
      <4>1. Enters(<<e>> \o <<>>)
        BY <1>9, <2>5 DEF Reinstate, Reinstatement
      <4> HIDE DEF e
      <4>2. <<e>> \o <<>> = <<e>>
        OBVIOUS
      <4> QED
        BY <4>1, <4>2
    <3> QED
      BY <2>1, <2>2, <2>3, <3>1, OneEntry
  <2> QED
    BY <2>4, <2>5
<1> QED
  BY <1>3, <1>4, <1>5, <1>6, <1>7, <1>8, <1>9 DEF BenchNext

LEMMA GovernanceIsLawful ==
  ASSUME Inv, GovernanceNext
  PROVE  \E es : Lawful(es)
<1> USE DEF LawfulEntry, Gives, SeatTypes, NamesItsCause, SuspensionNamed, Enters, Becomes,
            States, Causes, NoCause
<1>1. ASSUME NEW type \in PlainTypes
      PROVE  Plain(type) \in Entry /\ Plain(type).type = type
  BY EntriesAreTyped DEF Plain
<1>2. ~BearsState(Plain("PROJECTION")) /\ ~IsFloorEntry(Plain("PROJECTION"))
  BY <1>1, StateBearers DEF PlainTypes, IsFloorEntry
<1>3. CASE Escalate
  <2> DEFINE e == Plain("POINT_OF_ORDER")
  <2>1. e \in Entry /\ e.type = "POINT_OF_ORDER"
    BY <1>1 DEF PlainTypes
  <2>2. Leaves(e, "SUSPENDED", "POINT_OF_ORDER")
    BY <2>1 DEF Leaves, Suspends
  <2>3. Plain("PROJECTION") \in Entry /\ Plain("PROJECTION").type = "PROJECTION"
    BY <1>1 DEF PlainTypes
  <2> QED
    BY <1>2, <1>3, <2>1, <2>2, <2>3, TwoEntries DEF Escalate
<1>4. ASSUME NEW role \in Roles, Rule(role)
      PROVE  \E es : Lawful(es)
  <2> DEFINE e == Plain("RULING")
  <2>1. e \in Entry /\ e.type = "RULING"
    BY <1>1 DEF PlainTypes
  <2>2. Leaves(e, "CONVENED", "none") /\ ~IsFloorEntry(e)
    BY <2>1 DEF Leaves, Convening, IsFloorEntry
  <2> QED
    BY <1>4, <2>1, <2>2, OneEntry DEF Rule
<1>5. ASSUME NEW a \in Actors, NEW role \in Roles, FileCrisis(a, role)
      PROVE  \E es : Lawful(es)
  <2> DEFINE e == CrisisFiled(a, role)
             f == Plain("CONSTITUTIONAL_CRISIS")
  <2>1. e \in Entry /\ e.type = "CONSTITUTIONAL_CRISIS_FILED"
    BY EntriesAreTyped DEF CrisisFiled
  <2>2. ~BearsState(e) /\ ~IsFloorEntry(e) /\ LawfulEntry(e)
    BY <2>1, StateBearers DEF IsFloorEntry
  <2>3. f \in Entry /\ f.type = "CONSTITUTIONAL_CRISIS"
    BY <1>1 DEF PlainTypes
  <2>4. Leaves(f, "SUSPENDED", "CONSTITUTIONAL_CRISIS") /\ ~IsFloorEntry(f) /\ LawfulEntry(f)
    BY <2>3 DEF Leaves, Suspends, IsFloorEntry
  <2>5. CASE Enters(<<e>>) /\ Stays
    BY <2>2, <2>5, OneEntry
  <2>6. CASE Enters(<<e, f>>) /\ Becomes("SUSPENDED", "CONSTITUTIONAL_CRISIS")
    <3> HIDE DEF e, f
    <3> DEFINE es == <<e, f>>
    <3>1. /\ es \in Seq(Entry) /\ Len(es) = 2 /\ es # <<>> /\ DOMAIN es = {1, 2}
          /\ es[1] = e /\ es[2] = f
      BY <2>1, <2>3
    <3>2. SaysOfSitting(es, Len(es), "SUSPENDED", "CONSTITUTIONAL_CRISIS")
      BY <2>4, <3>1, LastEntrySays
    <3>3. NamesItsCause' /\ state' = "SUSPENDED" /\ suspension' = "CONSTITUTIONAL_CRISIS"
      BY <2>6
    <3>4. hansard' = hansard \o es /\ charter' = charter
      BY <2>6
    <3> HIDE DEF es
    <3> QED
      BY <2>2, <2>4, <3>1, <3>2, <3>3, <3>4 DEF Lawful
  <2> QED
    BY <1>5, <2>5, <2>6 DEF FileCrisis
<1>6. ASSUME NEW r \in Actors, NEW s \in Actors, NEW ruling \in CrisisRulings,
             ExternalReview(r, s, ruling)
      PROVE  \E es : Lawful(es)
  <2> DEFINE e == CrisisRuling(ruling)
  <2>1. e \in Entry /\ e.type = "CONSTITUTIONAL_CRISIS_RULING" /\ e.ruling = ruling
    BY EntriesAreTyped DEF CrisisRuling
  <2>2. ~IsFloorEntry(e)
    BY <2>1 DEF IsFloorEntry
  <2>3. CASE ruling = "UPHELD"
    <3>1. Leaves(e, "SUSPENDED", "CONSTITUTIONAL_CRISIS")
      BY <2>1, <2>3 DEF Leaves, Suspends
    <3> QED
      BY <1>6, <2>1, <2>2, <2>3, <3>1, OneEntry DEF ExternalReview
  <2>4. CASE ruling # "UPHELD"
    <3>1. Leaves(e, "CONVENED", "none")
      BY <2>1, <2>4 DEF Leaves, Convening
    <3> QED
      BY <1>6, <2>1, <2>2, <2>4, <3>1, OneEntry DEF ExternalReview
  <2> QED
    BY <2>3, <2>4
<1>7. CASE MarkStale
  <2> DEFINE e == Plain("SESSION_STALE")
  <2>1. e \in Entry /\ e.type = "SESSION_STALE"
    BY <1>1 DEF PlainTypes
  <2>2. Leaves(e, "STALE", "none")
    BY <2>1 DEF Leaves, Ending
  <2> QED
    BY <1>7, <2>1, <2>2, OneEntry DEF MarkStale
<1>8. CASE Resume
  <2> DEFINE e == Plain("SESSION_RESUMED")
  <2>1. e \in Entry /\ e.type = "SESSION_RESUMED"
    BY <1>1 DEF PlainTypes
  <2>2. Leaves(e, "CONVENED", "none") /\ ~IsFloorEntry(e)
    BY <2>1 DEF Leaves, Convening, IsFloorEntry
  <2> QED
    BY <1>8, <2>1, <2>2, OneEntry DEF Resume
<1>9. CASE Snapshot
  <2> DEFINE e == Plain("STATE_SNAPSHOT")
  <2>1. e \in Entry /\ e.type = "STATE_SNAPSHOT"
    BY <1>1 DEF PlainTypes
  <2>2. ~BearsState(e) /\ ~IsFloorEntry(e)
    BY <2>1, StateBearers DEF IsFloorEntry
  <2> QED
    BY <1>9, <2>1, <2>2, OneEntry DEF Snapshot
<1>10. ASSUME NEW role \in Roles, NEW dissolve \in BOOLEAN, Prorogue(role, dissolve)
       PROVE  \E es : Lawful(es)
  <2> DEFINE e == Plain("SESSION_TIMEOUT")
  <2>1. e \in Entry /\ e.type = "SESSION_TIMEOUT"
    BY <1>1 DEF PlainTypes
  <2>2. Leaves(e, "PROROGUED", "none") /\ ~IsFloorEntry(e)
    BY <2>1 DEF Leaves, Ending, IsFloorEntry
  <2> QED
    BY <1>10, <2>1, <2>2, OneEntry DEF Prorogue
<1>11. ASSUME NEW role \in Roles, Challenge(role)
       PROVE  \E es : Lawful(es)
  <2> DEFINE e == Plain("DELEGATE_CHALLENGE")
  <2>1. e \in Entry /\ e.type = "DELEGATE_CHALLENGE"
    BY <1>1 DEF PlainTypes
  <2>2. ~BearsState(e) /\ ~IsFloorEntry(e)
    BY <2>1, StateBearers DEF IsFloorEntry
  <2> QED
    BY <1>11, <2>1, <2>2, OneEntry DEF Challenge
<1> QED
  BY <1>3, <1>4, <1>5, <1>6, <1>7, <1>8, <1>9, <1>10, <1>11 DEF GovernanceNext

-----------------------------------------------------------------------------
(***************************************************************************)
(* Lawful entries preserve the invariant.                                  *)
(***************************************************************************)
LEMMA LawfulPreservesInv ==
  ASSUME Inv, NEW es, Lawful(es)
  PROVE  Inv'
<1>1. hansard \in Seq(Entry) /\ es \in Seq(Entry) /\ hansard' = hansard \o es
  BY DEF Inv, WellFormed, TypeOK, Lawful
<1>2. \A k \in DOMAIN hansard' :
        \/ k \in DOMAIN hansard /\ hansard'[k] = hansard[k]
        \/ \E i \in DOMAIN es : k = Len(hansard) + i /\ hansard'[k] = es[i]
  BY <1>1, Concatenated
<1>3. WellFormed'
  <2>1. hansard' \in Seq(Entry) /\ charter' \in Charters
    BY <1>1, Concatenated DEF Inv, WellFormed, TypeOK, Lawful
  <2>2. CASE Stays
    BY <2>1, <2>2 DEF Inv, WellFormed, TypeOK, SuspensionNamed, Stays
  <2>3. CASE NamesItsCause'
    BY <2>1, <2>3 DEF WellFormed, TypeOK, NamesItsCause
  <2> QED
    BY <2>2, <2>3 DEF Lawful
<1>4. StateMatchesRecord'
  <2>1. Len(es) \in 0..Len(es) /\ Len(hansard') = Len(hansard) + Len(es)
        /\ DOMAIN es = 1..Len(es)
    BY <1>1
  <2>2. CASE Stays /\ \A k \in DOMAIN es : ~BearsState(es[k])
    <3>1. SaysOfSitting(hansard, Len(hansard), state', suspension')
      BY <2>2 DEF Inv, StateMatchesRecord, Stays
    <3> QED
      BY <1>1, <2>1, <2>2, <3>1, NeutralEntriesSayNothing DEF StateMatchesRecord
  <2>3. CASE SaysOfSitting(es, Len(es), state', suspension')
    BY <1>1, <2>1, <2>3, EntriesOverrideRecord DEF StateMatchesRecord
  <2> QED
    BY <2>2, <2>3 DEF Lawful
<1>5. BusinessWhileConvened'
  <2> SUFFICES ASSUME NEW k \in DOMAIN hansard', IsFloorEntry(hansard'[k])
               PROVE  SaysOfSitting(hansard', k - 1, "CONVENED", NoCause)
    BY DEF BusinessWhileConvened
  <2>1. CASE k \in DOMAIN hansard /\ hansard'[k] = hansard[k]
    <3>1. SaysOfSitting(hansard, k - 1, "CONVENED", NoCause) /\ k - 1 \in 0..Len(hansard)
      BY <1>1, <2>1 DEF Inv, BusinessWhileConvened
    <3> QED
      BY <1>1, <3>1, PrefixSaysTheSame
  <2>2. CASE \E i \in DOMAIN es : k = Len(hansard) + i /\ hansard'[k] = es[i]
    <3>1. PICK i \in DOMAIN es : k = Len(hansard) + i /\ hansard'[k] = es[i]
      BY <2>2
    <3>2. i - 1 \in 0..Len(es) /\ k - 1 = Len(hansard) + (i - 1)
      BY <1>1, <3>1
    <3>3. CASE i = 1 /\ requireConvened
      <4>1. state = "CONVENED" /\ suspension = NoCause
        BY <3>3 DEF requireConvened, Inv, WellFormed, SuspensionNamed
      <4>2. SaysOfSitting(hansard, Len(hansard), "CONVENED", NoCause)
        BY <4>1 DEF Inv, StateMatchesRecord
      <4>3. 0 \in 0..Len(es) /\ 1..0 = {} /\ k - 1 = Len(hansard) + 0
        BY <1>1, <3>2, <3>3
      <4> QED
        BY <1>1, <4>2, <4>3, NeutralEntriesSayNothing
    <3>4. CASE SaysOfSitting(es, i - 1, "CONVENED", NoCause)
      BY <1>1, <3>2, <3>4, EntriesOverrideRecord
    <3> QED
      BY <3>1, <3>3, <3>4 DEF Lawful
  <2> QED
    BY <1>2, <2>1, <2>2
<1>6. DisputesFollowExits'
  <2> SUFFICES ASSUME NEW a \in Actors, About(hansard', a, {"EXIT_DISPUTED"}) # {}
               PROVE  HasExited(hansard', a)
    BY DEF DisputesFollowExits
  <2>1. HasExited(hansard, a) => HasExited(hansard', a)
    <3> SUFFICES ASSUME HasExited(hansard, a) PROVE HasExited(hansard', a)
      OBVIOUS
    <3>1. PICK i \in DOMAIN hansard :
            hansard[i].type = "ACTOR_EXITED" /\ hansard[i].subject = a
      BY DEF HasExited, About
    <3>2. i \in DOMAIN hansard' /\ hansard'[i] = hansard[i]
      BY <1>1, Concatenated
    <3> QED
      BY <3>1, <3>2 DEF HasExited, About
  <2>2. PICK k \in DOMAIN hansard' :
          hansard'[k].type = "EXIT_DISPUTED" /\ hansard'[k].subject = a
    BY DEF About
  <2>3. CASE k \in DOMAIN hansard /\ hansard'[k] = hansard[k]
    BY <2>1, <2>2, <2>3 DEF Inv, DisputesFollowExits, About
  <2>4. CASE \E i \in DOMAIN es : hansard'[k] = es[i]
    BY <2>1, <2>2, <2>4 DEF Lawful, LawfulEntry
  <2> QED
    BY <1>2, <2>3, <2>4
<1>7. SpeakerUnseated'
  BY <1>2 DEF Inv, SpeakerUnseated, Lawful, LawfulEntry
<1> QED
  BY <1>3, <1>4, <1>5, <1>6, <1>7 DEF Inv

LEMMA InitEstablishesInv == Init => Inv
<1> SUFFICES ASSUME Init PROVE Inv
  OBVIOUS
<1>1. PICK e \in {Plain("WRIT_DROP"), Plain("SESSION_INVALID")} :
        /\ hansard = <<e>>
        /\ \/ state = "CONVENED" /\ e.type = "WRIT_DROP"
           \/ state = "INVALID" /\ e.type = "SESSION_INVALID"
  BY DEF Init, Opened, Plain
<1>2. e \in Entry /\ suspension = NoCause /\ charter \in Charters
  BY EntriesAreTyped DEF PlainTypes, Init
<1>3. hansard \in Seq(Entry) /\ Len(hansard) = 1 /\ DOMAIN hansard = {1} /\ hansard[1] = e
  BY <1>1, <1>2
<1>4. WellFormed
  BY <1>1, <1>2, <1>3 DEF WellFormed, TypeOK, SuspensionNamed, States, NoCause
<1>5. Leaves(e, state, suspension)
  BY <1>1, <1>2 DEF Leaves, Convening, Ending
<1>6. StateMatchesRecord
  BY <1>3, <1>5, LastEntrySays DEF StateMatchesRecord
<1>7. BusinessWhileConvened
  BY <1>1, <1>3 DEF BusinessWhileConvened, IsFloorEntry
<1>8. DisputesFollowExits /\ SpeakerUnseated
  BY <1>1, <1>3 DEF DisputesFollowExits, SpeakerUnseated, About, Gives, SeatTypes
<1> QED
  BY <1>4, <1>6, <1>7, <1>8 DEF Inv

LEMMA NextPreservesInv == Inv /\ [Next]_vars => Inv'
<1> SUFFICES ASSUME Inv, [Next]_vars PROVE Inv'
  OBVIOUS
<1>1. CASE Next
  BY <1>1, DivisionIsLawful, BenchIsLawful, GovernanceIsLawful, LawfulPreservesInv DEF Next
<1>2. CASE UNCHANGED vars
  BY <1>2 DEF vars, Inv, WellFormed, TypeOK, SuspensionNamed, StateMatchesRecord,
              BusinessWhileConvened, DisputesFollowExits, SpeakerUnseated
<1> QED
  BY <1>1, <1>2

-----------------------------------------------------------------------------
(***************************************************************************)
(* The theorems.                                                           *)
(***************************************************************************)
LEMMA InvHolds == Spec => []Inv
BY InitEstablishesInv, NextPreservesInv, PTL DEF Spec

\* Every file holds what its readers expect and STATE.json names a cause exactly
\* when it says SUSPENDED (validateState): no command writes one that fails.
THEOREM SessionWellFormed == Spec => []WellFormed
<1>1. Inv => WellFormed
  BY DEF Inv
<1> QED
  BY <1>1, InvHolds, PTL

\* STATE.json can be rebuilt from HANSARD.md after any series of commands: the last
\* entry that bears on the sitting says the state and the cause (createState).
THEOREM SessionMatchesRecord == Spec => []StateMatchesRecord
<1>1. Inv => StateMatchesRecord
  BY DEF Inv
<1> QED
  BY <1>1, InvHolds, PTL

\* No business on the record was done in a House that did not sit (requireConvened).
THEOREM SessionConvenedForBusiness == Spec => []BusinessWhileConvened
<1>1. Inv => BusinessWhileConvened
  BY DEF Inv
<1> QED
  BY <1>1, InvHolds, PTL

\* No command, and no series of removals, disputes and rulings, seats the Speaker
\* (hire, move, exitActor, resolveDispute).
THEOREM SpeakerHoldsNoSeat == Spec => []NoAuthoritySeat
<1>1. Inv => NoAuthoritySeat
  <2> SUFFICES ASSUME Inv, NEW a \in Actors PROVE seatOf(hansard, a) # "AUTHORITY"
    BY DEF NoAuthoritySeat
  <2>1. CASE Seated(hansard, a)
    <3>1. hansard \in Seq(Entry)
      BY DEF Inv, WellFormed, TypeOK
    <3>2. PICK k \in DOMAIN hansard :
            hansard[k].type \in SeatTypes /\ seatOf(hansard, a) = hansard[k].role
      BY <2>1, <3>1, SeatIsOnRecord
    <3> QED
      BY <3>2 DEF Inv, SpeakerUnseated, Gives
  <2>2. CASE ~Seated(hansard, a)
    BY <2>2 DEF seatOf, NoSeat
  <2> QED
    BY <2>1, <2>2
<1> QED
  BY <1>1, InvHolds, PTL

-----------------------------------------------------------------------------
(***************************************************************************)
(* The register is the record.                                             *)
(***************************************************************************)
LEMMA ReplayedOnce ==
  ASSUME NEW seat, NEW e, NEW a
  PROVE  /\ e.type = "ACTOR_HIRED" /\ e.subject = a => Replayed(seat, e, a) = e.role
         /\ e.type = "ACTOR_EXITED" /\ e.subject = a => Replayed(seat, e, a) = NoSeat
         /\ e.type \in {"ACTOR_PROMOTED", "ACTOR_DEMOTED"} /\ e.subject = a =>
              Replayed(seat, e, a) = IF seat = NoSeat THEN seat ELSE e.role
         /\ ~ (e.type \in SeatChanges /\ e.subject = a) => Replayed(seat, e, a) = seat
  BY DEF Replayed, SeatChanges, SeatTypes

\* The replay of seats(), one entry after another.
LEMMA SeatByIsReplayed ==
  ASSUME NEW h \in Seq(Entry), NEW k \in 1..Len(h), NEW a
  PROVE  SeatBy(h, k, a) = Replayed(SeatBy(h, k - 1, a), h[k], a)
<1> DEFINE e == h[k]
<1>1. /\ k \in Nat /\ k - 1 \in 0..Len(h) /\ k \in (k - 1)..Len(h) /\ k \in 0..Len(h)
      /\ ((k - 1) + 1)..k = {k} /\ k \in DOMAIN h /\ k \in 1..k
      /\ \A j \in 1..k : j \in 1..(k - 1) \/ j = k
      /\ \A j \in 1..(k - 1) : j \in 1..k /\ j < k
  OBVIOUS
<1>2. ASSUME NEW T
      PROVE  /\ e.type \in T /\ e.subject = a =>
                  About(h, a, T) \cap 1..k = (About(h, a, T) \cap 1..(k - 1)) \cup {k}
             /\ e.type \notin T => About(h, a, T) \cap 1..k = About(h, a, T) \cap 1..(k - 1)
  BY <1>1 DEF About
<1>3. ASSUME SeatedBy(h, k, a), e.type \in SeatTypes, e.subject = a
      PROVE  SeatBy(h, k, a) = e.role
  <2> DEFINE K == About(h, a, SeatTypes) \cap 1..k
  <2>1. K \in SUBSET (1..k) /\ k \in K
    BY <1>1, <1>3 DEF About
  <2>2. Latest(K) \in 1..k /\ k <= Latest(K)
    <3> HIDE DEF K
    <3> QED
      BY <1>1, <2>1, LatestIsLatest
  <2>3. Latest(K) = k
    <3> HIDE DEF K
    <3> QED
      BY <1>1, <2>2
  <2> QED
    BY <1>3, <2>3 DEF SeatBy
<1>4. CASE e.type = "ACTOR_HIRED" /\ e.subject = a
  <2>1. k \in About(h, a, {"ACTOR_HIRED"}) \cap 1..k
    BY <1>1, <1>4 DEF About
  <2>2. \A j \in About(h, a, {"ACTOR_EXITED"}) \cap 1..k : j < k
    BY <1>1, <1>4 DEF About
  <2>3. SeatedBy(h, k, a)
    BY <2>1, <2>2 DEF SeatedBy
  <2> QED
    BY <1>3, <1>4, <2>3 DEF Replayed, SeatTypes
<1>5. CASE e.type = "ACTOR_EXITED" /\ e.subject = a
  <2>1. k \in About(h, a, {"ACTOR_EXITED"}) \cap 1..k
    BY <1>1, <1>5 DEF About
  <2>2. ~ SeatedBy(h, k, a)
    BY <1>1, <2>1 DEF SeatedBy
  <2> QED
    BY <1>5, <2>2 DEF SeatBy, Replayed
<1>6. CASE e.type \in {"ACTOR_PROMOTED", "ACTOR_DEMOTED"} /\ e.subject = a
  <2>1. SeatedBy(h, k, a) <=> SeatedBy(h, k - 1, a)
    BY <1>2, <1>6 DEF SeatedBy
  <2>2. CASE SeatedBy(h, k - 1, a)
    <3>1. SeatBy(h, k - 1, a) # NoSeat
      <4> DEFINE n == k - 1
      <4>1. n \in 0..Len(h) /\ SeatedBy(h, n, a)
        BY <1>1, <2>2
      <4>2. SeatBy(h, n, a) \in Roles
        <5> HIDE DEF n
        <5> QED
          BY <4>1, SeatByIsOnRecord
      <4> QED
        BY <4>2, RolesAreNotNoSeat
    <3>2. SeatBy(h, k, a) = e.role
      BY <1>3, <1>6, <2>1, <2>2 DEF SeatTypes
    <3> QED
      BY <1>6, <3>1, <3>2, ReplayedOnce
  <2>3. CASE ~ SeatedBy(h, k - 1, a)
    BY <1>6, <2>1, <2>3 DEF SeatBy, Replayed
  <2> QED
    BY <2>2, <2>3
<1>7. CASE ~ (e.type \in SeatChanges /\ e.subject = a)
  <2>1. SeatBy(h, k, a) = SeatBy(h, k - 1, a)
    BY <1>1, <1>7, SeatByStays
  <2> QED
    BY <1>7, <2>1 DEF Replayed, SeatChanges, SeatTypes
<1> QED
  BY <1>4, <1>5, <1>6, <1>7 DEF SeatChanges, SeatTypes

(***************************************************************************)
(* A recursive function is what satisfies its equation, if anything does:  *)
(* SeatBy does, and of what does there is one, for up to the latest        *)
(* position where two agree the next one is the same of both.              *)
(***************************************************************************)
LEMMA ReplayIsSeatBy ==
  ASSUME hansard \in Seq(Entry), NEW a, NEW k \in 0..Len(hansard)
  PROVE  Replay(a)[k] = SeatBy(hansard, k, a)
<1> DEFINE n == Len(hansard)
           Steps(g) == [i \in 0..n |-> IF i = 0 THEN NoSeat
                                       ELSE Replayed(g[i - 1], hansard[i], a)]
           s == [i \in 0..n |-> SeatBy(hansard, i, a)]
           f == Replay(a)
<1>1. n \in Nat
  OBVIOUS
<1>2. s = Steps(s)
  <2>1. SeatBy(hansard, 0, a) = NoSeat
    BY DEF SeatBy, SeatedBy
  <2>2. ASSUME NEW i \in 0..n, i # 0
        PROVE  s[i] = Replayed(s[i - 1], hansard[i], a)
    <3>1. i \in 1..n /\ i - 1 \in 0..n
      BY <1>1, <2>2
    <3> QED
      BY <3>1, SeatByIsReplayed
  <2> QED
    BY <2>1, <2>2
<1>3. f = CHOOSE g : g = Steps(g)
  BY DEF Replay
<1> HIDE DEF f, s
<1>4. f = Steps(f)
  BY <1>2, <1>3
<1>5. /\ f[0] = s[0]
      /\ \A i \in 1..n : f[i] = Replayed(f[i - 1], hansard[i], a)
      /\ \A i \in 1..n : s[i] = Replayed(s[i - 1], hansard[i], a)
  <2>1. 0 \in 0..n /\ \A i \in 1..n : i \in 0..n /\ i # 0
    BY <1>1
  <2>2. \A g : g = Steps(g) =>
          g[0] = NoSeat /\ \A i \in 1..n : g[i] = Replayed(g[i - 1], hansard[i], a)
    BY <2>1
  <2> HIDE DEF Steps
  <2> QED
    BY <1>2, <1>4, <2>2
<1> DEFINE K == {i \in 1..(n + 1) : \A j \in 0..(i - 1) : f[j] = s[j]}
           last == Latest(K)
<1>6. last \in K /\ \A i \in K : i <= last
  <2>1. n + 1 \in Nat /\ K \in SUBSET (1..(n + 1))
    BY <1>1
  <2>2. 1 \in K
    BY <1>1, <1>5
  <2> HIDE DEF K
  <2> QED
    BY <2>1, <2>2, LatestIsLatest
<1> HIDE DEF last
<1>7. last = n + 1
  <2>1. SUFFICES ASSUME last # n + 1 PROVE FALSE
    OBVIOUS
  <2>2. last \in 1..n /\ \A j \in 0..(last - 1) : f[j] = s[j]
    BY <1>1, <1>6, <2>1
  <2>3. f[last] = s[last]
    <3>1. last - 1 \in 0..(last - 1)
      BY <1>1, <2>2
    <3> QED
      BY <1>5, <2>2, <3>1
  <2>4. \A j \in 0..last : j \in 0..(last - 1) \/ j = last
    BY <1>1, <2>2
  <2>5. last + 1 \in K
    BY <1>1, <2>2, <2>3, <2>4
  <2>6. last + 1 <= last
    BY <1>6, <2>5
  <2> QED
    BY <1>1, <2>2, <2>6
<1>8. k \in 0..(last - 1)
  BY <1>1, <1>7
<1>9. f[k] = s[k]
  BY <1>6, <1>8
<1> QED
  BY <1>9 DEF f, s

-----------------------------------------------------------------------------
(***************************************************************************)
(* What a command answers when it moves the sitting.                       *)
(***************************************************************************)
LEMMA EnteredIsNew ==
  ASSUME NEW h \in Seq(Entry), NEW es \in Seq(Entry), NEW k \in DOMAIN es
  PROVE  \E i \in DOMAIN (h \o es) \ DOMAIN h : (h \o es)[i] = es[k]
<1>1. /\ k \in 1..Len(es) /\ Len(h) \in Nat /\ Len(es) \in Nat
      /\ DOMAIN (h \o es) = 1..(Len(h) + Len(es)) /\ DOMAIN h = 1..Len(h)
      /\ (h \o es)[Len(h) + k] = es[k]
  BY Concatenated
<1>2. Len(h) + k \in 1..(Len(h) + Len(es)) /\ Len(h) + k \notin 1..Len(h)
  BY <1>1
<1> QED
  BY <1>1, <1>2

\* The first entry of a command is among those it entered.
LEMMA FirstIsEntered ==
  ASSUME Inv, NEW e \in Entry, NEW es \in Seq(Entry),
         hansard' = hansard \o es, es # <<>>, es[1] = e \/ es[Len(es)] = e
  PROVE  \E i \in DOMAIN hansard' \ DOMAIN hansard : hansard'[i] = e
<1>1. hansard \in Seq(Entry) /\ 1 \in DOMAIN es /\ Len(es) \in DOMAIN es
  BY DEF Inv, WellFormed, TypeOK
<1>2. PICK k \in DOMAIN es : es[k] = e
  BY <1>1
<1>3. \E i \in DOMAIN (hansard \o es) \ DOMAIN hansard : (hansard \o es)[i] = es[k]
  BY <1>1, EnteredIsNew
<1> QED
  BY <1>2, <1>3

LEMMA StepMoves == ASSUME Inv, Next PROVE MoveStep
<1> DEFINE Entered(e) == \E i \in DOMAIN hansard' \ DOMAIN hansard : hansard'[i] = e
<1>1. SuspensionNamed
  BY DEF Inv, WellFormed
<1>2. ASSUME Stays \/ requireConvened
      PROVE  MoveStep
  <2>1. \/ state' = state /\ suspension' = suspension
        \/ state = "CONVENED"
    BY <1>2 DEF Stays, requireConvened
  <2>2. /\ ~ (state = "SUSPENDED" /\ state' = "CONVENED")
        /\ ~ (state = "STALE" /\ state' = "CONVENED")
        /\ ~ (state \in {"PROROGUED", "INVALID"} /\ state' # state)
        /\ ~ (state = "SUSPENDED" /\ suspension' \notin {suspension, NoCause})
    BY <2>1
  <2> QED
    BY <2>2 DEF MoveStep
\* A command that lifts the suspension, or ends or resumes the sitting, says so.
<1>3. ASSUME NEW e \in Entry, NEW es \in Seq(Entry), Enters(es), es # <<>>,
             es[1] = e \/ es[Len(es)] = e,
             \/ /\ state = "SUSPENDED" /\ Answers(suspension, e)
                /\ suspension' \in {suspension, NoCause}
             \/ state = "STALE" /\ e.type = "SESSION_RESUMED"
             \/ e.type \in {"CONSTITUTIONAL_CRISIS", "EXIT_DISPUTED"} /\ state' = "SUSPENDED"
             \/ e.type = "SESSION_TIMEOUT" /\ Becomes("PROROGUED", NoCause) /\ state # "PROROGUED"
      PROVE  MoveStep
  <2>1. Entered(e)
    BY <1>3, FirstIsEntered DEF Enters
  <2> QED
    BY <1>1, <1>3, <2>1 DEF MoveStep, Becomes, SuspensionNamed
<1>4. ASSUME NEW e \in Entry
      PROVE  <<e>> \in Seq(Entry) /\ <<e>> # <<>> /\ <<e>>[1] = e /\ Len(<<e>>) = 1
  OBVIOUS
<1>5. \A t \in PlainTypes : Plain(t) \in Entry /\ Plain(t).type = t
  BY EntriesAreTyped DEF Plain
<1>6. CASE DivisionNext
  <2>1. ASSUME NEW m \in Motions, TallyOutcome(m)
        PROVE  MoveStep
    <3>1. CASE Stays
      BY <1>2, <3>1
    <3>2. CASE ~Stays
      <4> DEFINE end == Plain("SESSION_TIMEOUT")
      <4>1. PICK f \in InOrder(Culled(hansard, m, charter.exit)) :
              /\ MayProrogue /\ Becomes("PROROGUED", NoCause)
              /\ Enters(Append(<<Outcome(hansard, m)>> \o DarwinistExits(hansard, f), end))
        BY <2>1, <3>2 DEF TallyOutcome
      <4>2. DarwinistExits(hansard, f) \in Seq(Entry) /\ Outcome(hansard, m) \in Entry
        BY CullEntersExits, EntriesAreTyped
           DEF Inv, WellFormed, TypeOK, Outcome, MotionTypes
      <4> DEFINE es == <<Outcome(hansard, m)>> \o DarwinistExits(hansard, f)
      <4>3. es \in Seq(Entry) /\ end \in Entry /\ end.type = "SESSION_TIMEOUT"
        BY <1>5, <4>2 DEF PlainTypes
      <4> HIDE DEF es, end
      <4>4. /\ Append(es, end) \in Seq(Entry) /\ Append(es, end) # <<>>
            /\ Append(es, end)[Len(Append(es, end))] = end
        BY <4>3
      <4>5. Enters(Append(es, end)) /\ state # "PROROGUED"
        BY <4>1 DEF es, end, MayProrogue
      <4> QED
        BY <1>3, <4>1, <4>3, <4>4, <4>5
    <3> QED
      BY <3>1, <3>2
  <2>2. ASSUME NEW a \in Actors, NEW m \in Motions, NEW v \in Votes, Break(a, m, v)
        PROVE  MoveStep
    <3> DEFINE e == VoteCast(m, a, v, TRUE)
               o == Outcome(hansard \o <<e>>, m)
    <3>1. e \in Entry /\ e.type = "VOTE_CAST" /\ e.casting /\ o \in Entry
      BY EntriesAreTyped DEF VoteCast, Outcome, MotionTypes
    <3>2. Enters(Append(<<e>>, o)) /\ IsSuspendedFor("DEADLOCK") /\ suspension' = NoCause
      BY <2>2 DEF Break, Becomes
    <3> HIDE DEF e, o
    <3>3. /\ Append(<<e>>, o) = <<e, o>>
          /\ <<e, o>> \in Seq(Entry) /\ <<e, o>> # <<>> /\ <<e, o>>[1] = e
      <4>1. Append(<<e>>, o) = <<e, o>>
        BY <3>1, PairOfEntries
      <4>2. <<e, o>> \in Seq(Entry) /\ <<e, o>> # <<>> /\ <<e, o>>[1] = e
        BY <3>1
      <4> QED
        BY <4>1, <4>2
    <3>4. Enters(<<e, o>>) /\ Answers(suspension, e) /\ state = "SUSPENDED"
      BY <3>1, <3>2, <3>3 DEF Answers, IsSuspendedFor
    <3> QED
      BY <1>3, <3>1, <3>2, <3>3, <3>4
  <2> QED
    BY <1>2, <1>6, <2>1, <2>2 DEF DivisionNext, Call, Vote, TallyDeadlock, Assent, Veto
<1>7. CASE BenchNext
  <2>1. ASSUME NEW a \in Actors, DisputeExit(a)
        PROVE  MoveStep
    <3> DEFINE e == Disputed(a)
    <3>1. e \in Entry /\ e.type = "EXIT_DISPUTED"
      BY EntriesAreTyped DEF Disputed
    <3>2. Enters(<<e>>) /\ state' = "SUSPENDED"
      BY <2>1 DEF DisputeExit, Becomes
    <3> QED
      BY <1>3, <1>4, <3>1, <3>2
  <2>2. ASSUME NEW a \in Actors, NEW ruling \in DisputeRulings, Reinstate(a, ruling)
        PROVE  MoveStep
    <3> DEFINE e == ExitRuling(a, ruling)
               es == <<e>> \o Reinstatement(a, ruling)
    <3>1. e \in Entry /\ e.type = "EXIT_RULING"
      BY EntriesAreTyped DEF ExitRuling
    <3>2. Enters(es) /\ IsSuspendedFor("DISPUTED_EXIT") /\ suspension' = NoCause
      BY <2>2 DEF Reinstate, Becomes
    <3>3. Reinstatement(a, ruling) \in Seq(Entry)
      <4>1. HasExited(hansard, a) /\ hansard \in Seq(Entry)
        BY <2>2 DEF Reinstate, Inv, DisputesFollowExits, WellFormed, TypeOK
      <4>2. PICK k \in DOMAIN hansard :
              hansard[k].type = "ACTOR_EXITED" /\ LastExit(hansard, a) = hansard[k]
        BY <4>1, LastExitIsOnRecord
      <4>3. LastExit(hansard, a).role \in Roles
        BY <4>1, <4>2, EntryFields
      <4>4. Seating("ACTOR_HIRED", a, LastExit(hansard, a).role) \in Entry
        BY <4>3, EntriesAreTyped DEF SeatTypes
      <4> QED
        BY <4>4 DEF Reinstatement
    <3> HIDE DEF e
    <3>4. es \in Seq(Entry) /\ es # <<>> /\ es[1] = e
      BY <3>1, <3>3
    <3> HIDE DEF es
    <3>5. state = "SUSPENDED" /\ Answers(suspension, e)
      BY <3>1, <3>2 DEF Answers, IsSuspendedFor
    <3> QED
      BY <1>3, <3>1, <3>2, <3>4, <3>5
  <2> QED
    BY <1>2, <1>7, <2>1, <2>2 DEF BenchNext, Hire, Promote, Demote, MayMove, Exit, Spawn
<1>8. CASE GovernanceNext
  <2>1. ASSUME NEW role \in Roles, Rule(role)
        PROVE  MoveStep
    <3>1. Plain("RULING") \in Entry /\ Plain("RULING").type = "RULING"
      BY <1>5 DEF PlainTypes
    <3>2. Enters(<<Plain("RULING")>>) /\ IsSuspendedFor("POINT_OF_ORDER") /\ suspension' = NoCause
      BY <2>1 DEF Rule, Becomes
    <3>3. state = "SUSPENDED" /\ Answers(suspension, Plain("RULING"))
      BY <3>1, <3>2 DEF Answers, IsSuspendedFor
    <3> QED
      BY <1>3, <1>4, <3>1, <3>2, <3>3
  <2>2. ASSUME NEW a \in Actors, NEW role \in Roles, FileCrisis(a, role)
        PROVE  MoveStep
    <3> DEFINE e == CrisisFiled(a, role)
               f == Plain("CONSTITUTIONAL_CRISIS")
    <3>1. e \in Entry /\ f \in Entry /\ f.type = "CONSTITUTIONAL_CRISIS"
      BY <1>5, EntriesAreTyped DEF PlainTypes
    <3>2. Stays \/ (Enters(<<e, f>>) /\ state' = "SUSPENDED")
      BY <2>2 DEF FileCrisis, Becomes
    <3> HIDE DEF e, f
    <3>3. /\ <<e, f>> \in Seq(Entry) /\ <<e, f>> # <<>> /\ Len(<<e, f>>) = 2
          /\ <<e, f>>[2] = f
      BY <3>1
    <3> QED
      BY <1>2, <1>3, <3>1, <3>2, <3>3
  <2>3. ASSUME NEW r \in Actors, NEW s \in Actors, NEW ruling \in CrisisRulings,
               ExternalReview(r, s, ruling)
        PROVE  MoveStep
    <3> DEFINE e == CrisisRuling(ruling)
    <3>1. e \in Entry /\ Enters(<<e>>) /\ suspension = "CONSTITUTIONAL_CRISIS"
      BY <2>3, EntriesAreTyped DEF ExternalReview
    <3>2. state = "SUSPENDED"
      BY <1>1, <3>1 DEF SuspensionNamed, NoCause
    <3>3. CASE ruling = "UPHELD"
      <4>1. state' = state /\ suspension' = suspension
        BY <2>3, <3>1, <3>2, <3>3 DEF ExternalReview, Becomes
      <4> QED
        BY <1>2, <4>1 DEF Stays
    <3>4. CASE ruling # "UPHELD"
      <4>1. suspension' = NoCause /\ Answers(suspension, e)
        BY <2>3, <3>1, <3>4 DEF ExternalReview, Becomes, Answers, CrisisRuling
      <4> QED
        BY <1>3, <1>4, <3>1, <3>2, <4>1
    <3> QED
      BY <3>3, <3>4
  <2>4. CASE Resume
    <3>1. /\ Plain("SESSION_RESUMED") \in Entry
          /\ Plain("SESSION_RESUMED").type = "SESSION_RESUMED"
      BY <1>5 DEF PlainTypes
    <3>2. Enters(<<Plain("SESSION_RESUMED")>>) /\ state = "STALE"
      BY <2>4 DEF Resume
    <3> QED
      BY <1>3, <1>4, <3>1, <3>2
  <2>5. ASSUME NEW role \in Roles, NEW dissolve \in BOOLEAN, Prorogue(role, dissolve)
        PROVE  MoveStep
    <3>1. /\ Plain("SESSION_TIMEOUT") \in Entry
          /\ Plain("SESSION_TIMEOUT").type = "SESSION_TIMEOUT"
      BY <1>5 DEF PlainTypes
    <3>2. /\ Enters(<<Plain("SESSION_TIMEOUT")>>) /\ state # "PROROGUED"
          /\ Becomes("PROROGUED", NoCause)
      BY <2>5 DEF Prorogue
    <3> QED
      BY <1>3, <1>4, <3>1, <3>2
  <2> QED
    BY <1>2, <1>8, <2>1, <2>2, <2>3, <2>4, <2>5
       DEF GovernanceNext, Escalate, MarkStale, Snapshot, Challenge
<1> QED
  BY <1>6, <1>7, <1>8 DEF Next

\* No suspension is resumed around, and nothing ended or stale comes back but by the act
\* that may bring it back, in any series of commands (commitRuling, breakDeadlock,
\* resolveDispute, externalReview, resume, prorogue).
THEOREM SuspensionsAreAnswered == Spec => ResumedByItsAnswer
<1>1. Inv /\ [Next]_vars => [MoveStep]_vars
  BY StepMoves
<1> QED
  BY <1>1, InvHolds, PTL DEF ResumedByItsAnswer, Spec

-----------------------------------------------------------------------------
(***************************************************************************)
(* That each entry was due when it was made: a vote its Division, an       *)
(* outcome its votes, an Assent its majority, a capture its filers.        *)
(*                                                                         *)
(* The argument.  A command enters one entry that its guards allow, and    *)
(* after it such as no property here asks about; but for the casting vote, *)
(* which the outcome follows at once, and the filing that declares a       *)
(* capture.  So much is shown command by command (NextIsDue); what is then *)
(* true of the longer record follows from the three forms alone.           *)
(* Then that what the record says of a seat was true, which rests on it.   *)
(***************************************************************************)

Ordinary(e) == e.type = "VOTE_CAST" /\ ~e.casting
Casting(e) == e.type = "VOTE_CAST" /\ e.casting

\* The entries that must be due.
DueTypes == {"DIVISION_CALLED", "VOTE_CAST", "MOTION_CARRIED", "MOTION_REJECTED",
             "ASSENT_GRANTED", "CONSTITUTIONAL_CRISIS_FILED", "CONSTITUTIONAL_CRISIS"}

\* What the record says before an entry that is the first of a command.
DueFirst(e) ==
  /\ ~Casting(e) /\ e.type # "CONSTITUTIONAL_CRISIS"
  /\ e.type = "DIVISION_CALLED" => ~divisionCalled(hansard, e.motion)
  /\ Ordinary(e) => /\ divisionCalled(hansard, e.motion)
                    /\ ~divisionDecided(hansard, e.motion)
                    /\ ~HasVoted(hansard, e.actor, e.motion)
  /\ e.type \in Outcomes =>
       /\ ~divisionDecided(hansard, e.motion)
       /\ ~Tied(hansard, e.motion, charter.quorum, charter.resolution)
       /\ e = Outcome(hansard, e.motion)
  /\ e.type = "ASSENT_GRANTED" =>
       /\ ~alreadyEnacted(hansard, e.motion)
       /\ ~vetoOutstanding(hansard, e.motion)
       /\ Carries(hansard, e.motion, charter.quorum, "majority")
  /\ e.type = "CONSTITUTIONAL_CRISIS_FILED" => ~HasFiled(hansard, e.actor)

\* The three forms of what a command enters.
Plainly(es) == DueFirst(es[1]) /\ \A k \in 2..Len(es) : es[k].type \notin DueTypes
Breaking(es) ==
  /\ IsSuspendedFor("DEADLOCK")
  /\ Len(es) = 2 /\ Casting(es[1])
  /\ es[2] = Outcome(hansard \o <<es[1]>>, es[1].motion)
Capturing(es) ==
  /\ Len(es) = 2 /\ DueFirst(es[1])
  /\ es[1].type = "CONSTITUTIONAL_CRISIS_FILED" /\ es[2].type = "CONSTITUTIONAL_CRISIS"
  /\ checkCapture(hansard \o <<es[1]>>, charter)

\* A deadlock is what a tally has just declared, or was there and no vote was cast.
DeadlockIsDue(es) ==
  IsSuspendedFor("DEADLOCK")' =>
    \/ \E m \in Motions :
         /\ es = <<OnMotion("DEADLOCK", m)>> /\ Open(m)
         /\ Tied(hansard, m, charter.quorum, charter.resolution)
    \/ IsSuspendedFor("DEADLOCK") /\ \A k \in DOMAIN es : es[k].type # "VOTE_CAST"

IsDue(es) ==
  /\ es \in Seq(Entry) /\ es # <<>>
  /\ hansard' = hansard \o es /\ charter' = charter
  /\ Plainly(es) \/ Breaking(es) \/ Capturing(es)
  /\ DeadlockIsDue(es)

(***************************************************************************)
(* The invariant.                                                          *)
(***************************************************************************)
Calls(h, k, m) == h[k].type = "DIVISION_CALLED" /\ h[k].motion = m
CalledOnce ==
  \A i, j \in DOMAIN hansard :
    Calls(hansard, i, hansard[i].motion) /\ Calls(hansard, j, hansard[i].motion) => i = j

VotesAreDue ==
  \A k \in DOMAIN hansard : OrdinaryVote(k) =>
    /\ \E i \in 1..(k - 1) : Calls(hansard, i, hansard[k].motion)
    /\ \A i \in 1..(k - 1) : ~(IsOutcome(i) /\ hansard[i].motion = hansard[k].motion)
    /\ \A i \in DOMAIN hansard :
         (OrdinaryVote(i) /\ hansard[i].motion = hansard[k].motion
            /\ hansard[i].actor = hansard[k].actor) => i = k

\* A casting vote is an outcome's: what is voted on an open Motion are ordinary votes.
CastsDecide ==
  \A k \in DOMAIN hansard : CastingVote(k) => divisionDecided(hansard, hansard[k].motion)

FiledOnce ==
  \A i, j \in filings(hansard) : hansard[i].actor = hansard[j].actor => i = j

DueInv ==
  /\ CalledOnce /\ VotesAreDue /\ CastsDecide
  /\ OutcomeRecounts /\ DecidedAgainOnlyInDeadlock /\ DeadlockIsTie
  /\ AssentFollowsTheHouse
  /\ FiledOnce /\ CaptureNeedsItsFilers

-----------------------------------------------------------------------------
(***************************************************************************)
(* Every command enters what is due.                                       *)
(***************************************************************************)
\* One entry that is due.
LEMMA OneIsDue ==
  ASSUME NEW e \in Entry, Enters(<<e>>), DueFirst(e), DeadlockIsDue(<<e>>)
  PROVE  \E es : IsDue(es)
<1>1. <<e>> \in Seq(Entry) /\ <<e>> # <<>> /\ <<e>>[1] = e /\ Len(<<e>>) = 1 /\ 2..1 = {}
  OBVIOUS
<1>2. IsDue(<<e>>)
  BY <1>1 DEF IsDue, Plainly, Enters
<1> QED
  BY <1>2

\* One entry that is due, and the result of a projection.
LEMMA ProjectedIsDue ==
  ASSUME NEW e \in Entry, Enters(<<e, Plain("PROJECTION")>>), DueFirst(e),
         DeadlockIsDue(<<e, Plain("PROJECTION")>>)
  PROVE  \E es : IsDue(es)
<1> DEFINE p == Plain("PROJECTION")
           es == <<e, p>>
<1>1. p \in Entry /\ p.type = "PROJECTION"
  BY EntriesAreTyped DEF Plain, PlainTypes
<1> HIDE DEF p
<1>2. es \in Seq(Entry) /\ es # <<>> /\ es[1] = e /\ es[2] = p /\ Len(es) = 2 /\ 2..2 = {2}
  BY <1>1
<1>3. Enters(es) /\ DeadlockIsDue(es)
  BY DEF p
<1> HIDE DEF es
<1>4. \A k \in 2..Len(es) : es[k].type \notin DueTypes
  BY <1>1, <1>2 DEF DueTypes
<1>5. IsDue(es)
  BY <1>2, <1>3, <1>4 DEF IsDue, Plainly, Enters
<1> QED
  BY <1>5

\* Entries of which none must be due.
LEMMA IndifferentIsDue ==
  ASSUME NEW es \in Seq(Entry), es # <<>>, Enters(es), DeadlockIsDue(es),
         \A k \in DOMAIN es : es[k].type \notin DueTypes
  PROVE  \E fs : IsDue(fs)
<1>1. /\ 1 \in DOMAIN es /\ \A k \in 2..Len(es) : k \in DOMAIN es
  OBVIOUS
<1>2. DueFirst(es[1])
  BY <1>1 DEF DueFirst, Ordinary, Casting, DueTypes, Outcomes
<1>3. IsDue(es)
  BY <1>1, <1>2 DEF IsDue, Plainly, Enters
<1> QED
  BY <1>3

\* A sitting that is not suspended for a deadlock, or was already and took no vote.
LEMMA NoDeadlock ==
  ASSUME NEW es, \/ ~IsSuspendedFor("DEADLOCK")'
                 \/ Stays /\ requireConvened
                 \/ Stays /\ \A k \in DOMAIN es : es[k].type # "VOTE_CAST"
  PROVE  DeadlockIsDue(es)
  BY DEF DeadlockIsDue, IsSuspendedFor, Stays, requireConvened

\* One entry that need not be due.
LEMMA PlainlyIsDue ==
  ASSUME NEW e \in Entry, Enters(<<e>>), e.type \notin DueTypes,
         Stays \/ ~IsSuspendedFor("DEADLOCK")'
  PROVE  \E es : IsDue(es)
<1>1. <<e>> \in Seq(Entry) /\ <<e>> # <<>> /\ \A k \in DOMAIN <<e>> : <<e>>[k] = e
  OBVIOUS
<1>2. DeadlockIsDue(<<e>>)
  BY <1>1, NoDeadlock DEF DueTypes
<1> QED
  BY <1>1, <1>2, IndifferentIsDue

LEMMA DivisionIsDue == ASSUME Inv, DivisionNext PROVE \E es : IsDue(es)
<1>1. hansard \in Seq(Entry)
  BY DEF Inv, WellFormed, TypeOK
<1>2. ASSUME NEW type \in MotionTypes, NEW m \in Motions
      PROVE  /\ OnMotion(type, m) \in Entry
             /\ OnMotion(type, m).type = type /\ OnMotion(type, m).motion = m
  BY EntriesAreTyped DEF OnMotion
<1>3. ASSUME NEW m \in Motions, Call(m)
      PROVE  \E es : IsDue(es)
  <2> DEFINE e == OnMotion("DIVISION_CALLED", m)
  <2>1. e \in Entry /\ e.type = "DIVISION_CALLED" /\ e.motion = m
    BY <1>2 DEF MotionTypes
  <2>2. Enters(<<e, Plain("PROJECTION")>>) /\ DeadlockIsDue(<<e, Plain("PROJECTION")>>)
    BY <1>3, NoDeadlock DEF Call
  <2>3. ~divisionCalled(hansard, m)
    BY <1>3 DEF Call
  <2> HIDE DEF e
  <2>4. DueFirst(e)
    BY <2>1, <2>3 DEF DueFirst, Ordinary, Casting, Outcomes
  <2> QED
    BY <2>1, <2>2, <2>4, ProjectedIsDue
<1>4. ASSUME NEW a \in Actors, NEW role \in Roles, NEW m \in Motions, NEW v \in Votes,
             Vote(a, role, m, v)
      PROVE  \E es : IsDue(es)
  <2> DEFINE e == VoteCast(m, a, v, FALSE)
  <2>1. /\ e \in Entry /\ e.type = "VOTE_CAST" /\ ~e.casting
        /\ e.motion = m /\ e.actor = a
    BY EntriesAreTyped DEF VoteCast
  <2>2. Enters(<<e>>) /\ DeadlockIsDue(<<e>>)
    BY <1>4, NoDeadlock DEF Vote
  <2>3. /\ divisionCalled(hansard, m) /\ ~divisionDecided(hansard, m)
        /\ ~HasVoted(hansard, a, m)
    BY <1>4 DEF Vote
  <2> HIDE DEF e
  <2>4. DueFirst(e)
    BY <2>1, <2>3 DEF DueFirst, Ordinary, Casting, Outcomes
  <2> QED
    BY <2>1, <2>2, <2>4, OneIsDue
<1>5. ASSUME NEW m \in Motions, TallyDeadlock(m)
      PROVE  \E es : IsDue(es)
  <2> DEFINE e == OnMotion("DEADLOCK", m)
  <2>1. e \in Entry /\ e.type = "DEADLOCK"
    BY <1>2 DEF MotionTypes
  <2>2. Enters(<<e>>) /\ DeadlockIsDue(<<e>>)
    BY <1>5 DEF TallyDeadlock, DeadlockIsDue
  <2> HIDE DEF e
  <2>3. DueFirst(e)
    BY <2>1 DEF DueFirst, Ordinary, Casting, Outcomes
  <2> QED
    BY <2>1, <2>2, <2>3, OneIsDue
<1>6. ASSUME NEW m \in Motions, TallyOutcome(m)
      PROVE  \E es : IsDue(es)
  <2> DEFINE o == Outcome(hansard, m)
             end == Plain("SESSION_TIMEOUT")
  <2>1. PICK f \in InOrder(Culled(hansard, m, charter.exit)) :
          \/ Enters(<<o>> \o DarwinistExits(hansard, f)) /\ Stays
          \/ /\ Enters(Append(<<o>> \o DarwinistExits(hansard, f), end))
             /\ Becomes("PROROGUED", NoCause)
    BY <1>6 DEF TallyOutcome
  <2> DEFINE exits == DarwinistExits(hansard, f)
             es == <<o>> \o exits
             fs == Append(es, end)
  <2>2. o \in Entry /\ o.type \in Outcomes /\ o.motion = m
    BY <1>2 DEF Outcome, OnMotion, Outcomes, MotionTypes
  <2>3. DueFirst(o)
    <3>1. /\ ~divisionDecided(hansard, o.motion) /\ o = Outcome(hansard, o.motion)
          /\ ~Tied(hansard, o.motion, charter.quorum, charter.resolution)
      BY <1>6, <2>2 DEF TallyOutcome, Open
    <3> HIDE DEF o
    <3> QED
      BY <2>2, <3>1 DEF DueFirst, Ordinary, Casting, Outcomes
  <2>4. exits \in Seq(Entry) /\ \A i \in DOMAIN exits : exits[i].type = "ACTOR_EXITED"
    BY <1>1, CullEntersExits DEF IsCullOf, Exited
  <2>5. end \in Entry /\ end.type = "SESSION_TIMEOUT"
    BY EntriesAreTyped DEF Plain, PlainTypes
  <2>6. \/ Enters(es) /\ Stays
        \/ Enters(fs) /\ ~IsSuspendedFor("DEADLOCK")'
    BY <2>1 DEF Becomes, IsSuspendedFor
  <2> HIDE DEF o, exits, end
  <2>7. /\ es \in Seq(Entry) /\ es # <<>> /\ es[1] = o
        /\ \A k \in 2..Len(es) : es[k].type = "ACTOR_EXITED"
    <3>1. /\ es \in Seq(Entry) /\ Len(es) = 1 + Len(exits) /\ es[1] = o
          /\ \A k \in 2..Len(es) : k - 1 \in DOMAIN exits /\ es[k] = exits[k - 1]
      BY <2>2, <2>4
    <3> QED
      BY <2>4, <3>1
  <2> HIDE DEF es
  <2>8. /\ fs \in Seq(Entry) /\ fs # <<>> /\ fs[1] = o
        /\ \A k \in 2..Len(fs) : fs[k].type \in {"ACTOR_EXITED", "SESSION_TIMEOUT"}
    <3>1. /\ fs \in Seq(Entry) /\ Len(fs) = Len(es) + 1 /\ fs[Len(es) + 1] = end
          /\ Len(es) \in Nat /\ Len(es) > 0
          /\ \A k \in 1..Len(es) : fs[k] = es[k]
      BY <2>5, <2>7
    <3>2. ASSUME NEW k \in 2..Len(fs)
          PROVE  fs[k].type \in {"ACTOR_EXITED", "SESSION_TIMEOUT"}
      <4>1. k \in 2..Len(es) \/ k = Len(es) + 1
        BY <3>1
      <4> QED
        BY <2>5, <2>7, <3>1, <4>1
    <3>3. fs # <<>> /\ fs[1] = o
      <4>1. 1 \in 1..Len(es) /\ Len(fs) # 0
        BY <3>1
      <4> QED
        BY <2>7, <3>1, <4>1
    <3> QED
      BY <3>1, <3>2, <3>3
  <2> HIDE DEF fs
  <2>9. ASSUME NEW gs \in Seq(Entry), gs # <<>>, gs[1] = o, Enters(gs),
               \A k \in 2..Len(gs) : gs[k].type \in {"ACTOR_EXITED", "SESSION_TIMEOUT"},
               Stays \/ ~IsSuspendedFor("DEADLOCK")'
        PROVE  IsDue(gs)
    <3>1. Plainly(gs)
      BY <2>3, <2>9 DEF Plainly, DueTypes
    <3>2. \A k \in DOMAIN gs : gs[k].type # "VOTE_CAST"
      <4> SUFFICES ASSUME NEW k \in DOMAIN gs PROVE gs[k].type # "VOTE_CAST"
        OBVIOUS
      <4>1. k = 1 \/ k \in 2..Len(gs)
        OBVIOUS
      <4> QED
        BY <2>2, <2>9, <4>1 DEF Outcomes
    <3>3. DeadlockIsDue(gs)
      BY <2>9, <3>2, NoDeadlock
    <3> QED
      BY <2>9, <3>1, <3>3 DEF IsDue, Enters
  <2> QED
    BY <2>6, <2>7, <2>8, <2>9
<1>7. ASSUME NEW a \in Actors, NEW m \in Motions, NEW v \in Votes, Break(a, m, v)
      PROVE  \E es : IsDue(es)
  <2> DEFINE e == VoteCast(m, a, v, TRUE)
             o == Outcome(hansard \o <<e>>, m)
             es == <<e, o>>
  <2>1. /\ e \in Entry /\ e.type = "VOTE_CAST" /\ e.casting /\ e.motion = m
        /\ o \in Entry
    BY <1>2, EntriesAreTyped DEF VoteCast, Outcome, MotionTypes
  <2>2. Enters(Append(<<e>>, o)) /\ ~IsSuspendedFor("DEADLOCK")'
    BY <1>7 DEF Break, Becomes, IsSuspendedFor
  <2>3. Enters(es)
    BY <2>1, <2>2, PairOfEntries
  <2>4. DeadlockIsDue(es)
    BY <2>2, NoDeadlock
  <2>5. o = Outcome(hansard \o <<e>>, e.motion)
    BY <2>1
  <2> HIDE DEF e, o
  <2>6. es \in Seq(Entry) /\ es # <<>> /\ Len(es) = 2 /\ es[1] = e /\ es[2] = o
    BY <2>1
  <2> HIDE DEF es
  <2>7. Breaking(es)
    BY <1>7, <2>1, <2>5, <2>6 DEF Break, Breaking, Casting
  <2>8. IsDue(es)
    BY <2>3, <2>4, <2>6, <2>7 DEF IsDue, Enters
  <2> QED
    BY <2>8
<1>8. ASSUME NEW role \in Roles, NEW m \in Motions, Assent(role, m)
      PROVE  \E es : IsDue(es)
  <2> DEFINE e == OnMotion("ASSENT_GRANTED", m)
  <2>1. e \in Entry /\ e.type = "ASSENT_GRANTED" /\ e.motion = m
    BY <1>2 DEF MotionTypes
  <2>2. Enters(<<e, Plain("PROJECTION")>>) /\ DeadlockIsDue(<<e, Plain("PROJECTION")>>)
    BY <1>8, NoDeadlock DEF Assent, Becomes, IsSuspendedFor
  <2>3. /\ ~alreadyEnacted(hansard, m) /\ ~vetoOutstanding(hansard, m)
        /\ Carries(hansard, m, charter.quorum, "majority")
    BY <1>8 DEF Assent
  <2> HIDE DEF e
  <2>4. DueFirst(e)
    BY <2>1, <2>3 DEF DueFirst, Ordinary, Casting, Outcomes
  <2> QED
    BY <2>1, <2>2, <2>4, ProjectedIsDue
<1>9. ASSUME NEW role \in Roles, NEW m \in Motions, Veto(role, m)
      PROVE  \E es : IsDue(es)
  <2> DEFINE e == OnMotion("VETO_EXERCISED", m)
  <2>1. e \in Entry /\ e.type = "VETO_EXERCISED"
    BY <1>2 DEF MotionTypes
  <2>2. Enters(<<e>>) /\ Stays /\ e.type \notin DueTypes
    BY <1>9, <2>1 DEF Veto, DueTypes
  <2> QED
    BY <2>1, <2>2, PlainlyIsDue
<1> QED
  BY <1>3, <1>4, <1>5, <1>6, <1>7, <1>8, <1>9 DEF DivisionNext

LEMMA BenchIsDue == ASSUME Inv, BenchNext PROVE \E es : IsDue(es)
<1>1. hansard \in Seq(Entry) /\ SeatRoles \subseteq Roles
  BY SeatRolesAssumption DEF Inv, WellFormed, TypeOK
<1>2. ASSUME NEW a \in Actors, NEW type \in SeatTypes, NEW seat \in SeatRoles,
             Enters(<<Seating(type, a, seat)>>), Stays
      PROVE  \E es : IsDue(es)
  <2> DEFINE e == Seating(type, a, seat)
  <2>1. e \in Entry /\ e.type \notin DueTypes
    BY <1>1, EntriesAreTyped DEF Seating, SeatTypes, DueTypes
  <2> QED
    BY <1>2, <2>1, PlainlyIsDue
<1>3. ASSUME NEW by \in Actors, NEW role \in Roles, NEW a \in Actors, NEW v \in BOOLEAN,
             Exit(by, role, a, v)
      PROVE  \E es : IsDue(es)
  <2> DEFINE e == Exited(a, seatOf(hansard, a), by = a)
  <2>1. Seated(hansard, a)
    BY <1>3 DEF Exit, seatOf
  <2>2. PICK k \in DOMAIN hansard :
          hansard[k].type \in SeatTypes /\ seatOf(hansard, a) = hansard[k].role
    BY <1>1, <2>1, SeatIsOnRecord
  <2>3. seatOf(hansard, a) \in Roles
    BY <1>1, <2>2, EntryFields
  <2>4. e \in Entry /\ e.type \notin DueTypes
    BY <2>3, EntriesAreTyped DEF Exited, DueTypes
  <2> QED
    BY <1>3, <2>4, PlainlyIsDue DEF Exit
<1>4. ASSUME NEW role \in Roles, Spawn(role)
      PROVE  \E es : IsDue(es)
  <2>1. /\ Plain("COMMITTEE_SPAWNED") \in Entry
        /\ Plain("COMMITTEE_SPAWNED").type \notin DueTypes
    BY EntriesAreTyped DEF Plain, PlainTypes, DueTypes
  <2> QED
    BY <1>4, <2>1, PlainlyIsDue DEF Spawn
<1>5. ASSUME NEW a \in Actors, DisputeExit(a)
      PROVE  \E es : IsDue(es)
  <2>1. Disputed(a) \in Entry /\ Disputed(a).type \notin DueTypes
    BY EntriesAreTyped DEF Disputed, DueTypes
  <2> QED
    BY <1>5, <2>1, PlainlyIsDue DEF DisputeExit, Becomes, IsSuspendedFor
<1>6. ASSUME NEW a \in Actors, NEW ruling \in DisputeRulings, Reinstate(a, ruling)
      PROVE  \E es : IsDue(es)
  <2> DEFINE e == ExitRuling(a, ruling)
             r == Reinstatement(a, ruling)
             es == <<e>> \o r
  <2>1. e \in Entry /\ e.type = "EXIT_RULING"
    BY EntriesAreTyped DEF ExitRuling
  <2>2. Enters(es) /\ ~IsSuspendedFor("DEADLOCK")'
    BY <1>6 DEF Reinstate, Becomes, IsSuspendedFor
  <2>3. r \in Seq(Entry) /\ \A k \in DOMAIN r : r[k].type = "ACTOR_HIRED"
    <3>1. HasExited(hansard, a)
      BY <1>6 DEF Reinstate, Inv, DisputesFollowExits
    <3>2. PICK x \in DOMAIN hansard :
            hansard[x].type = "ACTOR_EXITED" /\ LastExit(hansard, a) = hansard[x]
      BY <1>1, <3>1, LastExitIsOnRecord
    <3>3. LastExit(hansard, a).role \in Roles
      BY <1>1, <3>2, EntryFields
    <3> DEFINE f == Seating("ACTOR_HIRED", a, LastExit(hansard, a).role)
    <3>4. f \in Entry /\ f.type = "ACTOR_HIRED"
      BY <3>3, EntriesAreTyped DEF SeatTypes, Seating
    <3>5. r = <<f>> \/ r = <<>>
      BY DEF Reinstatement
    <3> HIDE DEF f, r
    <3>6. CASE r = <<>>
      BY <3>6
    <3>7. CASE r = <<f>>
      <4>1. <<f>> \in Seq(Entry) /\ \A k \in DOMAIN <<f>> : <<f>>[k] = f
        BY <3>4
      <4> QED
        BY <3>4, <3>7, <4>1
    <3> QED
      BY <3>5, <3>6, <3>7
  <2> HIDE DEF e, r
  <2>4. es \in Seq(Entry) /\ es # <<>> /\ \A k \in DOMAIN es : es[k].type \notin DueTypes
    <3>1. /\ es \in Seq(Entry) /\ es # <<>>
          /\ \A k \in DOMAIN es : es[k] = e \/ \E i \in DOMAIN r : es[k] = r[i]
      BY <2>1, <2>3
    <3> QED
      BY <2>1, <2>3, <3>1 DEF DueTypes
  <2> HIDE DEF es
  <2> QED
    BY <2>2, <2>4, IndifferentIsDue, NoDeadlock
<1> QED
  BY <1>2, <1>3, <1>4, <1>5, <1>6
     DEF BenchNext, Hire, Promote, Demote, SeatTypes

LEMMA GovernanceIsDue == ASSUME Inv, GovernanceNext PROVE \E es : IsDue(es)
<1>1. hansard \in Seq(Entry)
  BY DEF Inv, WellFormed, TypeOK
<1>2. ASSUME NEW type \in PlainTypes
      PROVE  Plain(type) \in Entry /\ Plain(type).type = type
  BY EntriesAreTyped DEF Plain
<1>3. ASSUME NEW type \in PlainTypes, type \notin DueTypes, Enters(<<Plain(type)>>),
             Stays \/ ~IsSuspendedFor("DEADLOCK")'
      PROVE  \E es : IsDue(es)
  BY <1>2, <1>3, PlainlyIsDue
<1>4. CASE Escalate
  <2> DEFINE e == Plain("POINT_OF_ORDER")
  <2>1. e \in Entry /\ e.type = "POINT_OF_ORDER"
    BY <1>2 DEF PlainTypes
  <2>2. Enters(<<e, Plain("PROJECTION")>>) /\ DeadlockIsDue(<<e, Plain("PROJECTION")>>)
    BY <1>4, NoDeadlock DEF Escalate, Becomes, IsSuspendedFor
  <2> HIDE DEF e
  <2>3. DueFirst(e)
    BY <2>1 DEF DueFirst, Ordinary, Casting, Outcomes
  <2> QED
    BY <2>1, <2>2, <2>3, ProjectedIsDue
<1>5. ASSUME NEW a \in Actors, NEW role \in Roles, FileCrisis(a, role)
      PROVE  \E es : IsDue(es)
  <2> DEFINE e == CrisisFiled(a, role)
             f == Plain("CONSTITUTIONAL_CRISIS")
             es == <<e, f>>
  <2>1. e \in Entry /\ e.type = "CONSTITUTIONAL_CRISIS_FILED" /\ e.actor = a
    BY EntriesAreTyped DEF CrisisFiled
  <2>2. f \in Entry /\ f.type = "CONSTITUTIONAL_CRISIS"
    BY <1>2 DEF PlainTypes
  <2>3. /\ ~HasFiled(hansard, a)
        /\ \/ Enters(<<e>>) /\ Stays
           \/ /\ checkCapture(Append(hansard, e), charter)
              /\ Enters(es) /\ Becomes("SUSPENDED", "CONSTITUTIONAL_CRISIS")
    BY <1>5 DEF FileCrisis
  <2> HIDE DEF e, f
  <2>4. DueFirst(e)
    BY <2>1, <2>3 DEF DueFirst, Ordinary, Casting, Outcomes
  <2>5. CASE Enters(<<e>>) /\ Stays
    <3>1. \A k \in DOMAIN <<e>> : <<e>>[k].type # "VOTE_CAST"
      BY <2>1
    <3> QED
      BY <2>1, <2>4, <2>5, <3>1, NoDeadlock, OneIsDue
  <2>6. CASE /\ checkCapture(Append(hansard, e), charter)
             /\ Enters(es) /\ Becomes("SUSPENDED", "CONSTITUTIONAL_CRISIS")
    <3>1. Append(hansard, e) = hansard \o <<e>>
      BY <1>1, <2>1
    <3>2. es \in Seq(Entry) /\ es # <<>> /\ Len(es) = 2 /\ es[1] = e /\ es[2] = f
      BY <2>1, <2>2
    <3>3. Enters(es) /\ DeadlockIsDue(es)
      BY <2>6, NoDeadlock DEF Becomes, IsSuspendedFor
    <3> HIDE DEF es
    <3>4. Capturing(es)
      BY <2>1, <2>2, <2>4, <2>6, <3>1, <3>2 DEF Capturing
    <3>5. IsDue(es)
      BY <3>2, <3>3, <3>4 DEF IsDue, Enters
    <3> QED
      BY <3>5
  <2> QED
    BY <2>3, <2>5, <2>6
<1>6. ASSUME NEW r \in Actors, NEW s \in Actors, NEW ruling \in CrisisRulings,
             ExternalReview(r, s, ruling)
      PROVE  \E es : IsDue(es)
  <2>1. CrisisRuling(ruling) \in Entry /\ CrisisRuling(ruling).type \notin DueTypes
    BY EntriesAreTyped DEF CrisisRuling, DueTypes
  <2>2. ~IsSuspendedFor("DEADLOCK")'
    BY <1>6 DEF ExternalReview, Becomes, IsSuspendedFor
  <2> QED
    BY <1>6, <2>1, <2>2, PlainlyIsDue DEF ExternalReview
<1>7. CASE \E role \in Roles : Rule(role)
  BY <1>3, <1>7 DEF Rule, Becomes, IsSuspendedFor, PlainTypes, DueTypes
<1>8. CASE MarkStale
  BY <1>3, <1>8 DEF MarkStale, Becomes, IsSuspendedFor, PlainTypes, DueTypes
<1>9. CASE Resume
  BY <1>3, <1>9 DEF Resume, Becomes, IsSuspendedFor, PlainTypes, DueTypes
<1>10. CASE Snapshot
  BY <1>3, <1>10 DEF Snapshot, PlainTypes, DueTypes
<1>11. CASE \E role \in Roles, dissolve \in BOOLEAN : Prorogue(role, dissolve)
  BY <1>3, <1>11 DEF Prorogue, Becomes, IsSuspendedFor, PlainTypes, DueTypes
<1>12. CASE \E role \in Roles : Challenge(role)
  BY <1>3, <1>12 DEF Challenge, PlainTypes, DueTypes
<1> QED
  BY <1>4, <1>5, <1>6, <1>7, <1>8, <1>9, <1>10, <1>11, <1>12 DEF GovernanceNext

LEMMA NextIsDue == ASSUME Inv, Next PROVE \E es : IsDue(es)
BY DivisionIsDue, BenchIsDue, GovernanceIsDue DEF Next

-----------------------------------------------------------------------------
(***************************************************************************)
(* The longer record.                                                      *)
(***************************************************************************)
\* What was on it is where it was, and what is due in it stands first, or second
\* behind a casting vote or the filing that completes a capture.
LEMMA Longer ==
  ASSUME Inv, NEW es, IsDue(es)
  PROVE  /\ hansard \in Seq(Entry) /\ hansard' \in Seq(Entry) /\ es \in Seq(Entry)
         /\ Len(hansard) \in Nat /\ Len(es) \in Nat /\ Len(es) > 0
         /\ hansard' = hansard \o es /\ charter' = charter
         /\ DOMAIN hansard = 1..Len(hansard) /\ DOMAIN es = 1..Len(es)
         /\ Len(hansard') = Len(hansard) + Len(es)
         /\ DOMAIN hansard' = 1..(Len(hansard) + Len(es))
         /\ \A k \in DOMAIN hansard : k \in DOMAIN hansard' /\ hansard'[k] = hansard[k]
         /\ \A i \in DOMAIN es :
              Len(hansard) + i \in DOMAIN hansard' /\ hansard'[Len(hansard) + i] = es[i]
<1>1. hansard \in Seq(Entry) /\ es \in Seq(Entry) /\ es # <<>>
      /\ hansard' = hansard \o es /\ charter' = charter
  BY DEF Inv, WellFormed, TypeOK, IsDue
<1>2. Len(hansard) \in Nat /\ Len(es) \in Nat /\ Len(es) > 0
  BY <1>1
<1>3. /\ hansard' \in Seq(Entry)
      /\ DOMAIN hansard = 1..Len(hansard) /\ DOMAIN es = 1..Len(es)
      /\ Len(hansard') = Len(hansard) + Len(es)
      /\ DOMAIN hansard' = 1..(Len(hansard) + Len(es))
  BY <1>1, Concatenated
<1>4. \A k \in DOMAIN hansard : k \in DOMAIN hansard' /\ hansard'[k] = hansard[k]
  BY <1>1, <1>2, <1>3, Concatenated
<1>5. \A i \in DOMAIN es :
        Len(hansard) + i \in DOMAIN hansard' /\ hansard'[Len(hansard) + i] = es[i]
  BY <1>1, <1>2, <1>3, Concatenated
<1> QED
  BY <1>1, <1>2, <1>3, <1>4, <1>5

LEMMA NewlyDue ==
  ASSUME Inv, NEW es, IsDue(es), NEW k \in DOMAIN hansard', k \notin DOMAIN hansard,
         hansard'[k].type \in DueTypes
  PROVE  \/ k = Len(hansard) + 1 /\ hansard'[k] = es[1] /\ DueFirst(es[1])
         \/ k = Len(hansard) + 1 /\ hansard'[k] = es[1] /\ Breaking(es)
         \/ /\ k = Len(hansard) + 2 /\ hansard'[k] = es[2] /\ hansard'[k - 1] = es[1]
            /\ Breaking(es) \/ Capturing(es)
<1>1. PICK i \in 1..Len(es) : k = Len(hansard) + i /\ hansard'[k] = es[i]
  <2>1. k \in 1..(Len(hansard) + Len(es)) /\ k \notin 1..Len(hansard)
    BY Longer
  <2>2. \E i \in 1..Len(es) : k = Len(hansard) + i
    BY <2>1, Longer, Concatenated
  <2> QED
    BY <2>2, Longer
<1>2. CASE i = 1
  BY <1>1, <1>2 DEF IsDue, Plainly, Capturing
<1>3. CASE i # 1
  <2>1. i \in 2..Len(es) /\ Len(hansard) \in Nat /\ 1 \in DOMAIN es
    BY <1>1, <1>3, Longer
  <2>2. Breaking(es) \/ Capturing(es)
    BY <1>1, <2>1 DEF IsDue, Plainly
  <2>3. i = 2 /\ k - 1 = Len(hansard) + 1
    BY <1>1, <2>1, <2>2 DEF Breaking, Capturing
  <2>4. hansard'[k - 1] = es[1]
    BY <2>1, <2>3, Longer
  <2> QED
    BY <1>1, <2>2, <2>3, <2>4
<1> QED
  BY <1>2, <1>3

\* Votes on another Motion, and other entries, leave the count of a Motion alone.
LEMMA CountsStand ==
  ASSUME NEW h \in Seq(Entry), NEW es \in Seq(Entry), NEW m,
         \A k \in DOMAIN es : ~ (es[k].type = "VOTE_CAST" /\ es[k].motion = m)
  PROVE  \A v : Count(h \o es, m, v) = Count(h, m, v)
<1>1. votesFor(h \o es, m) = votesFor(h, m)
  <2>1. ASSUME NEW k \in votesFor(h, m) PROVE k \in votesFor(h \o es, m)
    BY Concatenated DEF votesFor
  <2>2. ASSUME NEW k \in votesFor(h \o es, m) PROVE k \in votesFor(h, m)
    <3>1. k \in DOMAIN (h \o es) /\ (h \o es)[k].type = "VOTE_CAST" /\ (h \o es)[k].motion = m
      BY DEF votesFor
    <3>2. k \in 1..(Len(h) + Len(es))
      BY <3>1, Concatenated
    <3>3. CASE k \in 1..Len(h)
      BY <3>1, <3>3, Concatenated DEF votesFor
    <3>4. CASE \E i \in 1..Len(es) : k = Len(h) + i
      BY <3>1, <3>4, Concatenated
    <3> QED
      BY <3>2, <3>3, <3>4, Concatenated
  <2> QED
    BY <2>1, <2>2
<1>2. \A k \in votesFor(h, m) : (h \o es)[k] = h[k]
  BY Concatenated DEF votesFor
<1>3. ASSUME NEW v
      PROVE  {k \in votesFor(h \o es, m) : (h \o es)[k].vote = v}
               = {k \in votesFor(h, m) : h[k].vote = v}
  BY <1>1, <1>2
<1> QED
  BY <1>3 DEF Count

LEMMA OutcomesStand ==
  ASSUME NEW h \in Seq(Entry), NEW es \in Seq(Entry), NEW m,
         \A k \in DOMAIN es : ~ (es[k].type = "VOTE_CAST" /\ es[k].motion = m)
  PROVE  /\ Outcome(h \o es, m) = Outcome(h, m)
         /\ Tied(h \o es, m, charter.quorum, charter.resolution)
              <=> Tied(h, m, charter.quorum, charter.resolution)
BY CountsStand DEF Outcome, Tied, Carries, QuorumMet

\* What is on the record of a Motion stays on it.
LEMMA StaysOnRecord ==
  ASSUME Inv, NEW es, IsDue(es), NEW type, NEW m, OnRecord(hansard, type, m)
  PROVE  OnRecord(hansard', type, m)
BY Longer DEF OnRecord

-----------------------------------------------------------------------------
(***************************************************************************)
(* What is due preserves the invariant.                                    *)
(***************************************************************************)
LEMMA CalledOnceStays == ASSUME Inv, NEW es, IsDue(es), CalledOnce PROVE CalledOnce'
<1> SUFFICES ASSUME NEW i \in DOMAIN hansard', NEW j \in DOMAIN hansard',
                    hansard'[i].type = "DIVISION_CALLED", hansard'[j].type = "DIVISION_CALLED",
                    hansard'[i].motion = hansard'[j].motion
             PROVE  i = j
  BY DEF CalledOnce, Calls
<1>1. ASSUME NEW k \in DOMAIN hansard', k \notin DOMAIN hansard,
             hansard'[k].type = "DIVISION_CALLED"
      PROVE  k = Len(hansard) + 1 /\ ~divisionCalled(hansard, hansard'[k].motion)
  <2>1. hansard'[k].type \in DueTypes
    BY <1>1 DEF DueTypes
  <2>2. ~Breaking(es) \/ hansard'[k] # es[1]
    BY <1>1 DEF Breaking, Casting
  <2>3. ~(Breaking(es) \/ Capturing(es)) \/ hansard'[k] # es[2]
    BY <1>1 DEF Breaking, Capturing, Outcome, OnMotion
  <2> QED
    BY <1>1, <2>1, <2>2, <2>3, NewlyDue DEF DueFirst
<1>2. CASE i \in DOMAIN hansard /\ j \in DOMAIN hansard
  BY <1>2, Longer DEF CalledOnce, Calls
<1>3. CASE i \notin DOMAIN hansard /\ j \notin DOMAIN hansard
  BY <1>1, <1>3
<1>4. CASE i \in DOMAIN hansard /\ j \notin DOMAIN hansard
  BY <1>1, <1>4, Longer DEF divisionCalled, OnRecord
<1>5. CASE i \notin DOMAIN hansard /\ j \in DOMAIN hansard
  BY <1>1, <1>5, Longer DEF divisionCalled, OnRecord
<1> QED
  BY <1>2, <1>3, <1>4, <1>5

\* An outcome is new only where no vote may follow it.
LEMMA NewOutcome ==
  ASSUME Inv, NEW es, IsDue(es), NEW k \in DOMAIN hansard', k \notin DOMAIN hansard,
         hansard'[k].type \in Outcomes
  PROVE  \/ k = Len(hansard) + 1 /\ hansard'[k] = es[1] /\ DueFirst(es[1]) /\ Plainly(es)
         \/ k = Len(hansard) + 2 /\ hansard'[k] = es[2] /\ hansard'[k - 1] = es[1] /\ Breaking(es)
<1>1. hansard'[k].type \in DueTypes
  BY DEF DueTypes, Outcomes
<1>2. Breaking(es) \/ Capturing(es) => hansard'[k] # es[1]
  BY DEF Breaking, Capturing, Casting, Outcomes
<1>3. Capturing(es) => hansard'[k] # es[2]
  BY DEF Capturing, Outcomes
<1> QED
  BY <1>1, <1>2, <1>3, NewlyDue DEF IsDue

LEMMA NewVote ==
  ASSUME Inv, NEW es, IsDue(es), NEW k \in DOMAIN hansard', k \notin DOMAIN hansard,
         hansard'[k].type = "VOTE_CAST"
  PROVE  /\ k = Len(hansard) + 1 /\ hansard'[k] = es[1]
         /\ \/ DueFirst(es[1]) /\ Ordinary(es[1])
            \/ Breaking(es)
<1>1. hansard'[k].type \in DueTypes
  BY DEF DueTypes
<1>2. Breaking(es) => hansard'[k] # es[2]
  BY DEF Breaking, Outcome, OnMotion
<1>3. Capturing(es) => hansard'[k] # es[2]
  BY DEF Capturing
<1>4. DueFirst(hansard'[k]) => Ordinary(hansard'[k])
  BY DEF DueFirst, Ordinary, Casting
<1> QED
  BY <1>1, <1>2, <1>3, <1>4, NewlyDue

LEMMA VotesStayDue == ASSUME Inv, NEW es, IsDue(es), VotesAreDue PROVE VotesAreDue'
<1> SUFFICES ASSUME NEW k \in DOMAIN hansard', OrdinaryVote(k)'
             PROVE  /\ \E i \in 1..(k - 1) : Calls(hansard', i, hansard'[k].motion)
                    /\ \A i \in 1..(k - 1) :
                         ~ (IsOutcome(i)' /\ hansard'[i].motion = hansard'[k].motion)
                    /\ \A i \in DOMAIN hansard' :
                         (OrdinaryVote(i)' /\ hansard'[i].motion = hansard'[k].motion
                            /\ hansard'[i].actor = hansard'[k].actor) => i = k
  BY DEF VotesAreDue
<1> DEFINE n == Len(hansard)
<1>1. n \in Nat /\ DOMAIN hansard = 1..n
  BY Longer
<1>2. ASSUME NEW i \in DOMAIN hansard', i \notin DOMAIN hansard, OrdinaryVote(i)'
      PROVE  /\ i = n + 1 /\ divisionCalled(hansard, hansard'[i].motion)
             /\ ~divisionDecided(hansard, hansard'[i].motion)
             /\ ~HasVoted(hansard, hansard'[i].actor, hansard'[i].motion)
  <2>1. hansard'[i].type = "VOTE_CAST" /\ ~hansard'[i].casting
    BY <1>2 DEF OrdinaryVote
  <2>2. Breaking(es) => hansard'[i] # es[1]
    BY <2>1 DEF Breaking, Casting
  <2> QED
    BY <1>2, <2>1, <2>2, NewVote DEF DueFirst, Ordinary
<1>3. CASE k \in DOMAIN hansard
  <2>1. OrdinaryVote(k) /\ hansard'[k] = hansard[k]
    BY <1>3, Longer DEF OrdinaryVote
  <2>2. PICK c \in 1..(k - 1) : Calls(hansard, c, hansard[k].motion)
    BY <1>3, <2>1 DEF VotesAreDue
  <2>3. c \in DOMAIN hansard /\ Calls(hansard', c, hansard'[k].motion)
    BY <1>1, <1>3, <2>1, <2>2, Longer DEF Calls
  <2>4. ASSUME NEW i \in 1..(k - 1)
        PROVE  ~ (IsOutcome(i)' /\ hansard'[i].motion = hansard'[k].motion)
    <3>1. i \in DOMAIN hansard /\ hansard'[i] = hansard[i]
      BY <1>1, <1>3, Longer
    <3> QED
      BY <1>3, <2>1, <3>1 DEF VotesAreDue, IsOutcome
  <2>5. ASSUME NEW i \in DOMAIN hansard', OrdinaryVote(i)',
               hansard'[i].motion = hansard'[k].motion, hansard'[i].actor = hansard'[k].actor
        PROVE  i = k
    <3>1. CASE i \in DOMAIN hansard
      BY <1>3, <2>1, <2>5, <3>1, Longer DEF VotesAreDue, OrdinaryVote
    <3>2. CASE i \notin DOMAIN hansard
      <4>1. ~HasVoted(hansard, hansard[k].actor, hansard[k].motion)
        BY <1>2, <2>1, <2>5, <3>2
      <4> QED
        BY <1>3, <2>1, <4>1 DEF HasVoted, votesFor, OrdinaryVote
    <3> QED
      BY <3>1, <3>2
  <2> QED
    BY <2>2, <2>3, <2>4, <2>5
<1>4. CASE k \notin DOMAIN hansard
  <2>1. /\ k = n + 1 /\ divisionCalled(hansard, hansard'[k].motion)
        /\ ~divisionDecided(hansard, hansard'[k].motion)
        /\ ~HasVoted(hansard, hansard'[k].actor, hansard'[k].motion)
    BY <1>2, <1>4
  <2>2. PICK c \in DOMAIN hansard : Calls(hansard, c, hansard'[k].motion)
    BY <2>1 DEF divisionCalled, OnRecord, Calls
  <2>3. c \in 1..(k - 1) /\ Calls(hansard', c, hansard'[k].motion)
    BY <1>1, <2>1, <2>2, Longer DEF Calls
  <2>4. ASSUME NEW i \in 1..(k - 1)
        PROVE  ~ (IsOutcome(i)' /\ hansard'[i].motion = hansard'[k].motion)
    <3>1. i \in DOMAIN hansard /\ hansard'[i] = hansard[i]
      BY <1>1, <2>1, Longer
    <3> QED
      BY <2>1, <3>1 DEF IsOutcome, divisionDecided, OnRecord
  <2>5. ASSUME NEW i \in DOMAIN hansard', OrdinaryVote(i)',
               hansard'[i].motion = hansard'[k].motion, hansard'[i].actor = hansard'[k].actor
        PROVE  i = k
    <3>1. CASE i \in DOMAIN hansard
      BY <2>1, <2>5, <3>1, Longer DEF OrdinaryVote, HasVoted, votesFor
    <3>2. CASE i \notin DOMAIN hansard
      BY <1>2, <2>1, <2>5, <3>2
    <3> QED
      BY <3>1, <3>2
  <2> QED
    BY <2>3, <2>4, <2>5
<1> QED
  BY <1>3, <1>4

LEMMA CastsStayDecided == ASSUME Inv, NEW es, IsDue(es), CastsDecide PROVE CastsDecide'
<1> SUFFICES ASSUME NEW k \in DOMAIN hansard', CastingVote(k)'
             PROVE  \E outcome \in Outcomes : OnRecord(hansard', outcome, hansard'[k].motion)
  BY DEF CastsDecide, divisionDecided
<1>1. CASE k \in DOMAIN hansard
  <2>1. CastingVote(k) /\ hansard'[k] = hansard[k]
    BY <1>1, Longer DEF CastingVote
  <2>2. PICK outcome \in Outcomes : OnRecord(hansard, outcome, hansard[k].motion)
    BY <1>1, <2>1 DEF CastsDecide, divisionDecided
  <2> QED
    BY <2>1, <2>2, StaysOnRecord
<1>2. CASE k \notin DOMAIN hansard
  <2>1. hansard'[k].type = "VOTE_CAST" /\ hansard'[k].casting
    BY DEF CastingVote
  <2>2. hansard'[k] = es[1] /\ Breaking(es)
    BY <1>2, <2>1, NewVote DEF Ordinary
  <2>3. es[2].type \in Outcomes /\ es[2].motion = hansard'[k].motion
    BY <2>2 DEF Breaking, Outcome, OnMotion, Outcomes
  <2>4. Len(hansard) + 2 \in DOMAIN hansard' /\ hansard'[Len(hansard) + 2] = es[2]
    <3>1. 2 \in DOMAIN es
      BY <2>2, Longer DEF Breaking
    <3> QED
      BY <3>1, Longer
  <2> QED
    BY <2>3, <2>4 DEF OnRecord
<1> QED
  BY <1>1, <1>2

LEMMA OutcomesStayRecounted ==
  ASSUME Inv, NEW es, IsDue(es), OutcomeRecounts
  PROVE  OutcomeRecounts'
<1> SUFFICES ASSUME NEW k \in DOMAIN hansard', IsOutcome(k)',
                    \A j \in (k + 1)..Len(hansard') :
                      ~ (IsOutcome(j)' /\ hansard'[j].motion = hansard'[k].motion)
             PROVE  hansard'[k] = Outcome(hansard, hansard[k].motion)'
  BY DEF OutcomeRecounts
<1> DEFINE n == Len(hansard)
<1>0. PICK m : m = hansard'[k].motion
  OBVIOUS
<1>1. /\ n \in Nat /\ DOMAIN hansard = 1..n /\ hansard \in Seq(Entry) /\ es \in Seq(Entry)
      /\ hansard' = hansard \o es /\ Len(hansard') = n + Len(es) /\ Len(es) \in Nat
      /\ DOMAIN hansard' = 1..(n + Len(es)) /\ DOMAIN es = 1..Len(es)
  BY Longer
<1>2. \A h, x : Outcome(h, x).motion = x
  BY DEF Outcome, OnMotion
<1>3. ASSUME \A i \in DOMAIN es : ~ (es[i].type = "VOTE_CAST" /\ es[i].motion = m)
      PROVE  Outcome(hansard, m)' = Outcome(hansard, m)
  <2>1. Outcome(hansard \o es, m) = Outcome(hansard, m)
    BY <1>1, <1>3, OutcomesStand
  <2> QED
    BY <2>1, Longer DEF Outcome
<1>4. CASE k \in DOMAIN hansard
  <2>1. IsOutcome(k) /\ hansard'[k] = hansard[k] /\ divisionDecided(hansard, m)
    BY <1>0, <1>4, Longer DEF IsOutcome, divisionDecided, OnRecord
  <2>2. ASSUME NEW i \in DOMAIN es, es[i].type = "VOTE_CAST", es[i].motion = m
        PROVE  FALSE
    <3>1. n + i \in DOMAIN hansard' /\ hansard'[n + i] = es[i] /\ n + i \notin DOMAIN hansard
      BY <1>1, Longer
    <3>2. hansard'[n + i] = es[1] /\ ((DueFirst(es[1]) /\ Ordinary(es[1])) \/ Breaking(es))
      BY <2>2, <3>1, NewVote
    <3>3. Breaking(es)
      BY <2>1, <2>2, <3>1, <3>2 DEF DueFirst
    <3>4. es[2].type \in Outcomes /\ es[2].motion = m /\ 2 \in DOMAIN es
      BY <1>1, <2>2, <3>1, <3>2, <3>3 DEF Breaking, Outcome, OnMotion, Outcomes
    <3>5. n + 2 \in (k + 1)..Len(hansard') /\ hansard'[n + 2] = es[2]
      BY <1>1, <1>4, <3>4, Longer
    <3> QED
      BY <1>0, <3>4, <3>5 DEF IsOutcome
  <2>3. \A j \in (k + 1)..Len(hansard) : ~ (IsOutcome(j) /\ hansard[j].motion = hansard[k].motion)
    <3> SUFFICES ASSUME NEW j \in (k + 1)..Len(hansard)
                 PROVE  ~ (IsOutcome(j) /\ hansard[j].motion = hansard[k].motion)
      OBVIOUS
    <3>1. j \in DOMAIN hansard /\ j \in (k + 1)..Len(hansard')
      BY <1>1, <1>4
    <3> QED
      BY <2>1, <3>1, Longer DEF IsOutcome
  <2>4. hansard[k] = Outcome(hansard, m)
    BY <1>0, <1>4, <2>1, <2>3 DEF OutcomeRecounts
  <2> QED
    BY <1>0, <1>3, <2>1, <2>2, <2>4
<1>5. CASE k \notin DOMAIN hansard
  <2>1. hansard'[k].type \in Outcomes
    BY DEF IsOutcome
  <2>2. CASE hansard'[k] = es[1] /\ DueFirst(es[1]) /\ Plainly(es)
    <3>1. hansard'[k] = Outcome(hansard, m)
      BY <1>0, <2>1, <2>2 DEF DueFirst
    <3>2. \A i \in DOMAIN es : es[i].type # "VOTE_CAST"
      <4> SUFFICES ASSUME NEW i \in DOMAIN es PROVE es[i].type # "VOTE_CAST"
        OBVIOUS
      <4>1. i = 1 \/ i \in 2..Len(es)
        BY <1>1
      <4> QED
        BY <2>1, <2>2, <4>1 DEF Plainly, DueTypes, Outcomes
    <3> QED
      BY <1>0, <1>3, <3>1, <3>2
  <2>3. CASE hansard'[k] = es[2] /\ Breaking(es)
    <3> DEFINE d == es[1]
               o == es[2]
    <3>1. Len(es) = 2 /\ d \in Entry /\ o \in Entry /\ es = <<d, o>>
      <4>1. Len(es) = 2
        BY <2>3 DEF Breaking
      <4> QED
        BY <1>1, <4>1
    <3>2. o = Outcome(hansard \o <<d>>, d.motion) /\ d.motion = m /\ o.type # "VOTE_CAST"
      BY <1>0, <1>2, <2>1, <2>3 DEF Breaking, Outcomes
    <3> HIDE DEF d, o
    <3>3. hansard' = (hansard \o <<d>>) \o <<o>>
      <4>1. <<d>> \o <<o>> = es
        BY <3>1, PairOfEntries
      <4>2. (hansard \o <<d>>) \o <<o>> = hansard \o (<<d>> \o <<o>>)
        <5>1. <<d>> \in Seq(Entry) /\ <<o>> \in Seq(Entry)
          BY <3>1
        <5> QED
          BY <1>1, <5>1, ConcatAssociative
      <4> QED
        BY <1>1, <4>1, <4>2
    <3>4. Outcome((hansard \o <<d>>) \o <<o>>, m) = Outcome(hansard \o <<d>>, m)
      <4>1. hansard \o <<d>> \in Seq(Entry) /\ <<o>> \in Seq(Entry)
        BY <1>1, <3>1
      <4>2. \A i \in DOMAIN <<o>> : <<o>>[i].type # "VOTE_CAST"
        BY <3>2
      <4> QED
        BY <4>1, <4>2, OutcomesStand
    <3>5. Outcome(hansard, m)' = Outcome((hansard \o <<d>>) \o <<o>>, m)
      BY <3>3, Longer DEF Outcome
    <3> QED
      BY <1>0, <2>3, <3>2, <3>4, <3>5 DEF o
  <2> QED
    BY <1>5, <2>1, <2>2, <2>3, NewOutcome
<1> QED
  BY <1>4, <1>5

LEMMA DecidedAgainByCastingVote ==
  ASSUME Inv, NEW es, IsDue(es), DecidedAgainOnlyInDeadlock, DeadlockIsTie
  PROVE  DecidedAgainOnlyInDeadlock'
<1> DEFINE Deadlocked(h, j, mj) ==
             /\ SaysOfSitting(h, j - 2, "SUSPENDED", "DEADLOCK")
             /\ \E d \in 1..(j - 2) :
                  /\ h[d].type = "DEADLOCK" /\ h[d].motion # mj
                  /\ \A n \in 1..(j - 1) :
                       ~(h[n].type \in Outcomes /\ h[n].motion = h[d].motion)
<1> SUFFICES ASSUME NEW i \in DOMAIN hansard', NEW j \in DOMAIN hansard', i < j,
                    IsOutcome(i)', IsOutcome(j)', hansard'[i].motion = hansard'[j].motion
             PROVE  /\ CastingVote(j - 1)' /\ hansard'[j - 1].motion = hansard'[j].motion
                    /\ Deadlocked(hansard', j, hansard'[j].motion)
  BY DEF DecidedAgainOnlyInDeadlock, IsOutcome
<1>1. Len(hansard) \in Nat /\ DOMAIN hansard = 1..Len(hansard) /\ hansard'[j].type \in Outcomes
      /\ DOMAIN hansard' = 1..(Len(hansard) + Len(es)) /\ Len(es) \in Nat
      /\ hansard \in Seq(Entry) /\ es \in Seq(Entry) /\ hansard' = hansard \o es
  BY Longer DEF IsOutcome
<1>2. CASE j \in DOMAIN hansard
  <2>1. i \in DOMAIN hansard /\ j - 1 \in DOMAIN hansard /\ j - 2 \in 0..Len(hansard)
    BY <1>1, <1>2
  <2>2. \A n \in DOMAIN hansard : hansard'[n] = hansard[n]
    BY Longer
  <2>3. IsOutcome(i) /\ IsOutcome(j) /\ hansard[i].motion = hansard[j].motion
    BY <1>2, <2>1, <2>2 DEF IsOutcome
  <2>4. /\ CastingVote(j - 1) /\ hansard[j - 1].motion = hansard[j].motion
        /\ Deadlocked(hansard, j, hansard[j].motion)
    BY <1>2, <2>1, <2>3 DEF DecidedAgainOnlyInDeadlock, IsOutcome
  <2>5. SaysOfSitting(hansard', j - 2, "SUSPENDED", "DEADLOCK")
    BY <1>1, <2>1, <2>4, PrefixSaysTheSame
  <2>6. PICK d \in 1..(j - 2) :
          /\ hansard[d].type = "DEADLOCK" /\ hansard[d].motion # hansard[j].motion
          /\ \A n \in 1..(j - 1) :
               ~(hansard[n].type \in Outcomes /\ hansard[n].motion = hansard[d].motion)
    BY <2>4
  <2>7. \A n \in 1..(j - 1) : n \in DOMAIN hansard /\ hansard'[n] = hansard[n]
    BY <1>1, <1>2, <2>2
  <2>8. d \in 1..(j - 1) /\ hansard'[j] = hansard[j]
    <3>1. j \in Nat
      BY <1>1
    <3> QED
      BY <1>2, <2>2, <3>1
  <2>9. Deadlocked(hansard', j, hansard'[j].motion)
    BY <2>5, <2>6, <2>7, <2>8
  <2> QED
    BY <2>1, <2>2, <2>4, <2>8, <2>9 DEF CastingVote
<1>3. CASE /\ j = Len(hansard) + 2 /\ Breaking(es)
           /\ hansard'[j] = es[2] /\ hansard'[j - 1] = es[1]
  <2>1. /\ es[1].type = "VOTE_CAST" /\ es[1].casting /\ es[2].motion = es[1].motion
        /\ IsSuspendedFor("DEADLOCK")
    BY <1>3 DEF Breaking, Casting, Outcome, OnMotion
  <2>2. SaysOfSitting(hansard', j - 2, "SUSPENDED", "DEADLOCK")
    <3>1. SaysOfSitting(hansard, Len(hansard), "SUSPENDED", "DEADLOCK")
      BY <2>1 DEF Inv, StateMatchesRecord, IsSuspendedFor
    <3>2. Len(hansard) \in 0..Len(hansard) /\ j - 2 = Len(hansard)
      BY <1>1, <1>3
    <3>3. SaysOfSitting(hansard', Len(hansard), "SUSPENDED", "DEADLOCK")
      BY <1>1, <3>1, <3>2, PrefixSaysTheSame
    <3> QED
      BY <3>2, <3>3
  <2>3. PICK m \in Motions : OnRecord(hansard, "DEADLOCK", m) /\ Open(m)
    BY <2>1 DEF DeadlockIsTie
  <2>4. PICK d \in DOMAIN hansard : hansard[d].type = "DEADLOCK" /\ hansard[d].motion = m
    BY <2>3 DEF OnRecord
  <2>5. \A n \in DOMAIN hansard : ~(hansard[n].type \in Outcomes /\ hansard[n].motion = m)
    BY <2>3 DEF Open, divisionDecided, OnRecord
  <2>6. \A n \in DOMAIN hansard : hansard'[n] = hansard[n]
    BY Longer
  <2>7. i \in DOMAIN hansard
    <3>1. i # j - 1
      BY <1>3, <2>1 DEF IsOutcome, Outcomes
    <3> QED
      BY <1>1, <1>3, <3>1
  <2>8. hansard'[j].motion # m
    BY <2>5, <2>6, <2>7 DEF IsOutcome
  <2>9. \A n \in 1..(j - 1) : ~(hansard'[n].type \in Outcomes /\ hansard'[n].motion = m)
    <3> SUFFICES ASSUME NEW n \in 1..(j - 1), hansard'[n].type \in Outcomes,
                        hansard'[n].motion = m
                 PROVE  FALSE
      OBVIOUS
    <3>1. n # j - 1
      BY <1>3, <2>1 DEF Outcomes
    <3>2. n \in DOMAIN hansard
      <4>1. Len(hansard) \in Nat /\ DOMAIN hansard = 1..Len(hansard) /\ j = Len(hansard) + 2
        BY <1>1, <1>3
      <4> QED
        BY <3>1, <4>1
    <3> QED
      BY <2>5, <2>6, <3>2
  <2>10. d \in 1..(j - 2) /\ hansard'[d] = hansard[d]
    BY <1>1, <1>3, <2>4, <2>6
  <2>11. Deadlocked(hansard', j, hansard'[j].motion)
    BY <2>2, <2>4, <2>8, <2>9, <2>10
  <2> QED
    BY <1>3, <2>1, <2>11 DEF CastingVote
<1>4. CASE /\ j = Len(hansard) + 1 /\ hansard'[j] = es[1] /\ DueFirst(es[1])
  <2>1. i \in DOMAIN hansard /\ ~divisionDecided(hansard, hansard'[j].motion)
    BY <1>1, <1>4 DEF DueFirst
  <2> QED
    BY <2>1, Longer DEF divisionDecided, OnRecord, IsOutcome
<1> QED
  BY <1>1, <1>2, <1>3, <1>4, NewOutcome

LEMMA DeadlockStaysTie ==
  ASSUME Inv, NEW es, IsDue(es), DeadlockIsTie
  PROVE  DeadlockIsTie'
<1> SUFFICES ASSUME IsSuspendedFor("DEADLOCK")'
             PROVE  \E m \in Motions :
                      /\ OnRecord(hansard', "DEADLOCK", m)
                      /\ Open(m)'
                      /\ Tied(hansard', m, charter.quorum, charter.resolution)
  BY Longer DEF DeadlockIsTie
<1> DEFINE Tie(h, m) == Tied(h, m, charter.quorum, charter.resolution)
<1>1. \A k \in DOMAIN es : es[k].type # "VOTE_CAST"
  BY DEF IsDue, DeadlockIsDue, OnMotion
<1>2. PICK m \in Motions : Open(m) /\ Tie(hansard, m) /\ OnRecord(hansard', "DEADLOCK", m)
  <2>1. ASSUME NEW m \in Motions, es = <<OnMotion("DEADLOCK", m)>>
        PROVE  OnRecord(hansard', "DEADLOCK", m)
    <3>1. es[1].type = "DEADLOCK" /\ es[1].motion = m /\ 1 \in DOMAIN es
      BY <2>1 DEF OnMotion
    <3> QED
      BY <3>1, Longer DEF OnRecord
  <2> QED
    BY <2>1, StaysOnRecord DEF IsDue, DeadlockIsDue, DeadlockIsTie
<1>3. Tie(hansard', m)
  <2>1. hansard \in Seq(Entry) /\ es \in Seq(Entry) /\ hansard' = hansard \o es
    BY Longer
  <2>2. Tie(hansard \o es, m) <=> Tie(hansard, m)
    BY <1>1, <2>1, OutcomesStand
  <2> QED
    BY <1>2, <2>1, <2>2
<1>4. divisionCalled(hansard', m)
  BY <1>2, StaysOnRecord DEF Open, divisionCalled
<1>5. ASSUME divisionDecided(hansard', m)
      PROVE  FALSE
  <2>1. PICK k \in DOMAIN hansard' : hansard'[k].type \in Outcomes /\ hansard'[k].motion = m
    BY <1>5 DEF divisionDecided, OnRecord
  <2>2. k \notin DOMAIN hansard
    BY <1>2, <2>1, Longer DEF Open, divisionDecided, OnRecord
  <2>3. ~Breaking(es)
    BY <1>1, Longer DEF Breaking, Casting
  <2>4. DueFirst(hansard'[k])
    BY <2>1, <2>2, <2>3, NewOutcome
  <2> QED
    BY <1>2, <2>1, <2>4 DEF DueFirst
<1> QED
  BY <1>2, <1>3, <1>4, <1>5 DEF Open

LEMMA AssentStaysDue ==
  ASSUME Inv, NEW es, IsDue(es), AssentFollowsTheHouse, OutcomeRecounts
  PROVE  AssentFollowsTheHouse'
<1> DEFINE Last(h, n, m) ==
             \A i \in 1..n :
               (/\ h[i].type \in Outcomes /\ h[i].motion = m
                /\ \A j \in (i + 1)..n : ~(h[j].type \in Outcomes /\ h[j].motion = m))
               => h[i].type = "MOTION_CARRIED"
           Follows(h, n, m) ==
             /\ charter.resolution = "majority" => Last(h, n, m)
             /\ \A i \in 1..n : h[i].type \in {"VETO_EXERCISED", "ASSENT_GRANTED"} =>
                  h[i].motion # m
<1> SUFFICES ASSUME NEW k \in DOMAIN hansard', hansard'[k].type = "ASSENT_GRANTED"
             PROVE  Follows(hansard', k - 1, hansard'[k].motion)
  BY Longer DEF AssentFollowsTheHouse, LastOutcomeIs, IsOutcome
<1>1. /\ Len(hansard) \in Nat /\ DOMAIN hansard = 1..Len(hansard)
      /\ \A n \in DOMAIN hansard : hansard'[n] = hansard[n]
  BY Longer
<1>2. ASSUME NEW n \in 0..Len(hansard), NEW m, Follows(hansard, n, m)
      PROVE  Follows(hansard', n, m)
  <2>1. \A i \in 1..n : hansard'[i] = hansard[i]
    BY <1>1
  <2>2. \A i \in 1..n : \A j \in (i + 1)..n : hansard'[j] = hansard[j]
    BY <1>1
  <2> QED
    BY <1>2, <2>1, <2>2
<1>3. CASE k \in DOMAIN hansard
  <2>1. k - 1 \in 0..Len(hansard) /\ hansard'[k] = hansard[k]
    BY <1>1, <1>3
  <2>2. Follows(hansard, k - 1, hansard[k].motion)
    BY <1>3, <2>1 DEF AssentFollowsTheHouse, LastOutcomeIs, IsOutcome
  <2> HIDE DEF Follows
  <2> QED
    BY <1>2, <2>1, <2>2
<1>4. CASE k \notin DOMAIN hansard
  <2>1. hansard'[k].type \in DueTypes
    BY DEF DueTypes
  <2>2. ~ ((Breaking(es) \/ Capturing(es)) /\ (hansard'[k] = es[1] \/ hansard'[k] = es[2]))
    BY DEF Breaking, Capturing, Casting, Outcome, OnMotion
  <2>3. k = Len(hansard) + 1 /\ DueFirst(hansard'[k])
    BY <1>4, <2>1, <2>2, NewlyDue
  <2> DEFINE m == hansard'[k].motion
  <2>4. /\ ~alreadyEnacted(hansard, m) /\ ~vetoOutstanding(hansard, m)
        /\ Carries(hansard, m, charter.quorum, "majority")
    BY <2>3 DEF DueFirst
  <2>5. \A i \in 1..Len(hansard) :
          hansard[i].type \in {"VETO_EXERCISED", "ASSENT_GRANTED"} => hansard[i].motion # m
    BY <1>1, <2>4 DEF alreadyEnacted, vetoOutstanding, OnRecord
  <2> HIDE DEF m
  <2>6. ASSUME charter.resolution = "majority", NEW i \in 1..Len(hansard),
               hansard[i].type \in Outcomes, hansard[i].motion = m,
               \A j \in (i + 1)..Len(hansard) :
                 ~(hansard[j].type \in Outcomes /\ hansard[j].motion = m)
        PROVE  hansard[i].type = "MOTION_CARRIED"
    <3>1. hansard[i] = Outcome(hansard, m)
      BY <1>1, <2>6 DEF OutcomeRecounts, IsOutcome
    <3>2. Outcome(hansard, m) = OnMotion("MOTION_CARRIED", m)
      BY <2>4, <2>6 DEF Outcome
    <3> QED
      BY <3>1, <3>2 DEF OnMotion
  <2>7. Follows(hansard, Len(hansard), m)
    BY <2>5, <2>6
  <2>8. Len(hansard) \in 0..Len(hansard) /\ k - 1 = Len(hansard)
    BY <1>1, <2>3
  <2> HIDE DEF Follows
  <2>9. Follows(hansard', k - 1, m)
    BY <1>2, <2>7, <2>8
  <2> QED
    BY <2>9 DEF m
<1> QED
  BY <1>3, <1>4

LEMMA FiledOnceStays == ASSUME Inv, NEW es, IsDue(es), FiledOnce PROVE FiledOnce'
<1> SUFFICES ASSUME NEW i \in filings(hansard'), NEW j \in filings(hansard'),
                    hansard'[i].actor = hansard'[j].actor
             PROVE  i = j
  BY DEF FiledOnce
<1>1. ASSUME NEW k \in filings(hansard'), k \notin DOMAIN hansard
      PROVE  k = Len(hansard) + 1 /\ ~HasFiled(hansard, hansard'[k].actor)
  <2>1. k \in DOMAIN hansard' /\ hansard'[k].type = "CONSTITUTIONAL_CRISIS_FILED"
    BY DEF filings
  <2>2. hansard'[k].type \in DueTypes
    BY <2>1 DEF DueTypes
  <2>3. Breaking(es) => hansard'[k] # es[1] /\ hansard'[k] # es[2]
    BY <2>1 DEF Breaking, Casting, Outcome, OnMotion
  <2>4. Capturing(es) => hansard'[k] # es[2]
    BY <2>1 DEF Capturing
  <2> QED
    BY <1>1, <2>1, <2>2, <2>3, <2>4, NewlyDue DEF DueFirst
<1>2. \A k \in filings(hansard') :
        k \in DOMAIN hansard => k \in filings(hansard) /\ hansard'[k] = hansard[k]
  BY Longer DEF filings
<1>3. CASE i \in DOMAIN hansard /\ j \in DOMAIN hansard
  BY <1>2, <1>3 DEF FiledOnce
<1>4. CASE i \notin DOMAIN hansard /\ j \notin DOMAIN hansard
  BY <1>1, <1>4
<1>5. CASE i \in DOMAIN hansard /\ j \notin DOMAIN hansard
  BY <1>1, <1>2, <1>5 DEF HasFiled
<1>6. CASE i \notin DOMAIN hansard /\ j \in DOMAIN hansard
  BY <1>1, <1>2, <1>6 DEF HasFiled
<1> QED
  BY <1>3, <1>4, <1>5, <1>6

(***************************************************************************)
(* A capture stands on its filers.  The filings of OPERATORs are as many   *)
(* as those who filed them, because no one files twice.                    *)
(***************************************************************************)
OperatorFilings(h) == {k \in filings(h) : h[k].role = "OPERATOR"}
OperatorFilers(h) == {h[k].actor : k \in OperatorFilings(h)}

LEMMA FilersAreAsMany ==
  ASSUME NEW h \in Seq(Entry), \A i, j \in filings(h) : h[i].actor = h[j].actor => i = j
  PROVE  /\ Cardinality(OperatorFilings(h)) \in Nat
         /\ Cardinality(OperatorFilers(h)) = Cardinality(OperatorFilings(h))
<1> DEFINE S == OperatorFilings(h)
           T == OperatorFilers(h)
           f == [k \in S |-> h[k].actor]
<1>1. IsFiniteSet(S)
  <2>1. IsFiniteSet(1..Len(h)) /\ S \subseteq 1..Len(h)
    BY FS_Interval DEF OperatorFilings, filings
  <2> QED
    BY <2>1, FS_Subset
<1>2. f \in Surjection(S, T)
  BY DEF Surjection, OperatorFilers
<1>3. f \in Injection(S, T)
  <2>1. \A i, j \in S : f[i] = f[j] => i = j
    BY DEF OperatorFilings
  <2>2. f \in [S -> T] /\ DOMAIN f = S
    BY <1>2 DEF Surjection
  <2> HIDE DEF f, S, T
  <2> QED
    BY <2>1, <2>2 DEF Injection, IsInjective
<1> QED
  BY <1>1, <1>2, <1>3, FS_Surjection, FS_CardinalityType

\* Enough of them by RequiredFilings are enough by the threshold itself.
LEMMA RequiredIsEnough ==
  ASSUME NEW operators \in Nat, NEW threshold \in Nat, NEW n \in Nat,
         n >= RequiredFilings(operators, threshold)
  PROVE  n * 100 >= operators * threshold
<1>1. operators * threshold \in Nat
  OBVIOUS
<1>2. ASSUME NEW x \in Nat, n >= (x + 99) \div 100
      PROVE  n * 100 >= x
  BY <1>2
<1> QED
  BY <1>1, <1>2 DEF RequiredFilings

LEMMA CaptureStaysFiled ==
  ASSUME Inv, NEW es, IsDue(es), FiledOnce, CaptureNeedsItsFilers
  PROVE  CaptureNeedsItsFilers'
<1> DEFINE Before(h, n) == {h[i] : i \in filings(h) \cap 1..n}
           Filers(before) == {e.actor : e \in {f \in before : f.role = "OPERATOR"}}
           Enough(before) ==
             \/ \E e \in before : e.role \in charter.witnesses
             \/ /\ charter.consensus
                /\ Filers(before) # {}
                /\ Cardinality(Filers(before)) * 100 >= charter.operators * charter.threshold
<1> SUFFICES ASSUME NEW k \in DOMAIN hansard', hansard'[k].type = "CONSTITUTIONAL_CRISIS"
             PROVE  Enough(Before(hansard', k - 1))
  BY Longer DEF CaptureNeedsItsFilers
<1>1. Len(hansard) \in Nat /\ DOMAIN hansard = 1..Len(hansard) /\ hansard \in Seq(Entry)
      /\ es \in Seq(Entry) /\ hansard' = hansard \o es
  BY Longer
<1>2. CASE k \in DOMAIN hansard
  <2>1. \A i : i \in filings(hansard') \cap 1..(k - 1) <=> i \in filings(hansard) \cap 1..(k - 1)
    BY <1>1, <1>2, Longer DEF filings
  <2>2. \A i \in filings(hansard) : hansard'[i] = hansard[i]
    BY Longer DEF filings
  <2>3. Before(hansard', k - 1) = Before(hansard, k - 1)
    BY <2>1, <2>2
  <2>4. Enough(Before(hansard, k - 1))
    BY <1>2, Longer DEF CaptureNeedsItsFilers
  <2> QED
    BY <2>3, <2>4
<1>3. CASE k \notin DOMAIN hansard
  <2> DEFINE d == es[1]
             g == hansard \o <<d>>
  <2>1. k = Len(hansard) + 2 /\ Capturing(es)
    <3>1. hansard'[k].type \in DueTypes
      BY DEF DueTypes
    <3>2. ~DueFirst(hansard'[k])
      BY DEF DueFirst
    <3>3. Breaking(es) => hansard'[k] # es[1] /\ hansard'[k] # es[2]
      BY DEF Breaking, Casting, Outcome, OnMotion
    <3> QED
      BY <1>3, <3>1, <3>2, <3>3, NewlyDue
  <2>2. checkCapture(g, charter) /\ d \in Entry /\ k - 1 = Len(hansard) + 1
    BY <1>1, <2>1 DEF Capturing
  <2> HIDE DEF d
  <2>3. /\ g \in Seq(Entry) /\ DOMAIN g = 1..(k - 1)
        /\ \A i \in 1..(k - 1) : i \in DOMAIN hansard' /\ hansard'[i] = g[i]
    <3>1. <<d>> \in Seq(Entry) /\ Len(<<d>>) = 1 /\ <<d>>[1] = d
      BY <2>2
    <3>2. /\ g \in Seq(Entry) /\ DOMAIN g = 1..(Len(hansard) + 1)
          /\ g[Len(hansard) + 1] = d /\ \A i \in 1..Len(hansard) : g[i] = hansard[i]
      BY <1>1, <3>1, Concatenated
    <3>3. hansard'[Len(hansard) + 1] = d /\ Len(hansard) + 1 \in DOMAIN hansard'
      BY Longer DEF d
    <3>4. ASSUME NEW i \in 1..(k - 1)
          PROVE  i \in DOMAIN hansard' /\ hansard'[i] = g[i]
      <4>1. i \in 1..Len(hansard) \/ i = Len(hansard) + 1
        BY <1>1, <2>2
      <4> QED
        BY <3>2, <3>3, <4>1, Longer
    <3> QED
      BY <2>2, <3>2, <3>4
  <2> HIDE DEF g
  <2>4. Before(hansard', k - 1) = {g[i] : i \in filings(g)}
    <3>1. \A i : i \in filings(hansard') \cap 1..(k - 1) <=> i \in filings(g)
      BY <2>3 DEF filings
    <3>2. \A i \in filings(g) : hansard'[i] = g[i]
      BY <2>3 DEF filings
    <3> QED
      BY <3>1, <3>2
  <2>5. Filers(Before(hansard', k - 1)) = OperatorFilers(g)
    <3> DEFINE B == {g[i] : i \in filings(g)}
    <3>1. ASSUME NEW a \in Filers(B) PROVE a \in OperatorFilers(g)
      BY DEF OperatorFilers, OperatorFilings
    <3>2. ASSUME NEW i \in OperatorFilings(g) PROVE g[i].actor \in Filers(B)
      <4>1. g[i] \in {f \in B : f.role = "OPERATOR"}
        BY DEF OperatorFilings
      <4> QED
        BY <4>1
    <3>3. Filers(B) = OperatorFilers(g)
      <4>1. \A a \in OperatorFilers(g) : a \in Filers(B)
        BY <3>2 DEF OperatorFilers
      <4> QED
        BY <3>1, <4>1
    <3> QED
      BY <2>4, <3>3
  <2>6. \A i, j \in filings(g) : g[i].actor = g[j].actor => i = j
    <3>1. FiledOnce'
      BY FiledOnceStays
    <3>2. \A i \in filings(g) : i \in filings(hansard') /\ hansard'[i] = g[i]
      BY <2>3 DEF filings
    <3> QED
      BY <3>1, <3>2 DEF FiledOnce
  <2>7. CASE \E i \in filings(g) : g[i].role \in charter.witnesses
    BY <2>4, <2>7
  <2>8. CASE /\ charter.consensus
             /\ RequiredFilings(charter.operators, charter.threshold) > 0
             /\ Cardinality(OperatorFilings(g))
                   >= RequiredFilings(charter.operators, charter.threshold)
    <3> DEFINE c == Cardinality(OperatorFilers(g))
    <3>1. c \in Nat /\ c = Cardinality(OperatorFilings(g))
      BY <2>3, <2>6, FilersAreAsMany
    <3>2. charter.operators \in Nat /\ charter.threshold \in Nat
      <4>1. charter \in Charter
        BY ChartersAssumption DEF Inv, WellFormed, TypeOK
      <4>2. charter.operators \in Nat /\ charter.threshold \in 1..100
        BY <4>1 DEF Charter
      <4> QED
        BY <4>2
    <3>3. c * 100 >= charter.operators * charter.threshold
      BY <2>8, <3>1, <3>2, RequiredIsEnough
    <3>4. OperatorFilers(g) # {}
      <4>1. RequiredFilings(charter.operators, charter.threshold) \in Int
        <5>1. charter.operators * charter.threshold \in Nat
          BY <3>2
        <5> QED
          BY <5>1 DEF RequiredFilings
      <4>2. c # 0
        BY <2>8, <3>1, <4>1
      <4> QED
        BY <4>2, FS_EmptySet
    <3> QED
      BY <2>5, <2>8, <3>3, <3>4
  <2> QED
    BY <2>2, <2>7, <2>8 DEF checkCapture, OperatorFilings
<1> QED
  BY <1>2, <1>3

-----------------------------------------------------------------------------
(***************************************************************************)
(* The invariant holds.                                                    *)
(***************************************************************************)
LEMMA InitEstablishesDueInv == Init => DueInv
<1> SUFFICES ASSUME Init PROVE DueInv
  OBVIOUS
<1>1. PICK e \in {Plain("WRIT_DROP"), Plain("SESSION_INVALID")} : hansard = <<e>>
  BY DEF Init, Opened, Plain
<1>2. suspension = NoCause /\ e.type \in {"WRIT_DROP", "SESSION_INVALID"}
  BY DEF Init, Plain
<1> HIDE DEF Init
<1>3. DOMAIN hansard = {1} /\ hansard[1] = e
  BY <1>1
<1>4. \A k \in DOMAIN hansard : hansard[k].type \notin DueTypes
  BY <1>2, <1>3 DEF DueTypes
<1>5. CalledOnce /\ VotesAreDue /\ CastsDecide /\ FiledOnce
  BY <1>4 DEF CalledOnce, Calls, VotesAreDue, OrdinaryVote, CastsDecide, CastingVote,
              FiledOnce, filings, DueTypes
<1>6. OutcomeRecounts /\ DecidedAgainOnlyInDeadlock
  BY <1>4 DEF OutcomeRecounts, DecidedAgainOnlyInDeadlock, IsOutcome, Outcomes, DueTypes
<1>7. DeadlockIsTie
  BY <1>2 DEF DeadlockIsTie, IsSuspendedFor, NoCause
<1>8. AssentFollowsTheHouse /\ CaptureNeedsItsFilers
  BY <1>4 DEF AssentFollowsTheHouse, CaptureNeedsItsFilers, DueTypes
<1> QED
  BY <1>5, <1>6, <1>7, <1>8 DEF DueInv

LEMMA NextPreservesDueInv == Inv /\ DueInv /\ [Next]_vars => DueInv'
<1> SUFFICES ASSUME Inv, DueInv, [Next]_vars PROVE DueInv'
  OBVIOUS
<1>1. CASE Next
  <2>1. PICK es : IsDue(es)
    BY <1>1, NextIsDue
  <2>2. CalledOnce' /\ VotesAreDue' /\ CastsDecide'
    BY <2>1, CalledOnceStays, VotesStayDue, CastsStayDecided DEF DueInv
  <2>3. OutcomeRecounts' /\ DecidedAgainOnlyInDeadlock' /\ DeadlockIsTie'
    BY <2>1, OutcomesStayRecounted, DecidedAgainByCastingVote, DeadlockStaysTie DEF DueInv
  <2>4. AssentFollowsTheHouse' /\ FiledOnce' /\ CaptureNeedsItsFilers'
    BY <2>1, AssentStaysDue, FiledOnceStays, CaptureStaysFiled DEF DueInv
  <2> QED
    BY <2>2, <2>3, <2>4 DEF DueInv
<1>2. CASE UNCHANGED vars
  <2>1. UNCHANGED hansard /\ UNCHANGED charter /\ UNCHANGED state /\ UNCHANGED suspension
    BY <1>2 DEF vars
  <2>2. CalledOnce' /\ VotesAreDue' /\ CastsDecide' /\ FiledOnce'
    BY <2>1 DEF DueInv, CalledOnce, VotesAreDue, OrdinaryVote, IsOutcome, CastsDecide,
                CastingVote, FiledOnce
  <2>3. OutcomeRecounts' /\ DecidedAgainOnlyInDeadlock'
    BY <2>1 DEF DueInv, OutcomeRecounts, Outcome, DecidedAgainOnlyInDeadlock, CastingVote,
                IsOutcome, SaysOfSitting
  <2>4. DeadlockIsTie'
    BY <2>1 DEF DueInv, DeadlockIsTie, IsSuspendedFor, Open
  <2>5. AssentFollowsTheHouse'
    BY <2>1 DEF DueInv, AssentFollowsTheHouse, LastOutcomeIs, IsOutcome
  <2>6. CaptureNeedsItsFilers'
    BY <2>1 DEF DueInv, CaptureNeedsItsFilers
  <2> QED
    BY <2>2, <2>3, <2>4, <2>5, <2>6 DEF DueInv
<1> QED
  BY <1>1, <1>2

LEMMA DueInvHolds == Spec => []DueInv
BY InitEstablishesDueInv, NextPreservesDueInv, InvHolds, PTL DEF Spec

-----------------------------------------------------------------------------
(***************************************************************************)
(* The theorems.                                                           *)
(***************************************************************************)
\* Whatever else befalls the sitting between a call and its outcome, a ballot has one
\* call before it, no vote after its outcome and no two votes of one voter (castVote,
\* callDivision).
THEOREM BallotsAreSound == Spec => []BallotIsSound
<1>1. Inv /\ DueInv => BallotIsSound
  <2> SUFFICES ASSUME Inv, DueInv, NEW k \in DOMAIN hansard, OrdinaryVote(k)
               PROVE  Cardinality({i \in DOMAIN hansard :
                        hansard[i].type = "DIVISION_CALLED"
                          /\ hansard[i].motion = hansard[k].motion}) = 1
    BY DEF BallotIsSound, DueInv, VotesAreDue, Calls
  <2> DEFINE K == {i \in DOMAIN hansard :
                     hansard[i].type = "DIVISION_CALLED" /\ hansard[i].motion = hansard[k].motion}
  <2>1. PICK c \in 1..(k - 1) : Calls(hansard, c, hansard[k].motion)
    BY DEF DueInv, VotesAreDue
  <2>2. c \in DOMAIN hansard
    BY DEF Inv, WellFormed, TypeOK
  <2>3. K = {c}
    BY <2>1, <2>2 DEF DueInv, CalledOnce, Calls
  <2> QED
    BY <2>3, FS_Singleton
<1> QED
  BY <1>1, InvHolds, DueInvHolds, PTL

\* An auditor who recounts the record finds every outcome it records, under every rule of
\* resolution and whatever was voted or broken since (tallyDivision, breakDeadlock).
THEOREM OutcomesAlwaysRecount == Spec => []OutcomeRecounts
<1>1. DueInv => OutcomeRecounts
  BY DEF DueInv
<1> QED
  BY <1>1, DueInvHolds, PTL

\* A Division once decided is decided again by nothing but a casting vote on its own Motion,
\* cast while another Motion, still undecided, holds the House in deadlock (cmdDivision's
\* tally, breakDeadlock).
THEOREM DecisionsStand == Spec => []DecidedAgainOnlyInDeadlock
<1>1. DueInv => DecidedAgainOnlyInDeadlock
  BY DEF DueInv
<1> QED
  BY <1>1, DueInvHolds, PTL

\* A sitting suspended for a deadlock always has an open, tied Motion for AUTHORITY to break,
\* though other Motions are tallied meanwhile (suspendForDeadlock, breakDeadlock).
THEOREM DeadlocksCanBeBroken == Spec => []DeadlockIsTie
<1>1. DueInv => DeadlockIsTie
  BY DEF DueInv
<1> QED
  BY <1>1, DueInvHolds, PTL

\* Under majority an Assent never goes against the last outcome on the record, however
\* often casting votes changed it; under any rule it finds no veto and no earlier Assent
\* (cmdAssent, grantAssent).
THEOREM AssentsFollowTheHouse == Spec => []AssentFollowsTheHouse
<1>1. DueInv => AssentFollowsTheHouse
  BY DEF DueInv
<1> QED
  BY <1>1, DueInvHolds, PTL

\* Capture is declared on a witness's word or that of enough different OPERATORs, for every
\* threshold and every number of operators (fileCrisis, checkCapture).
THEOREM CaptureStandsOnFilers == Spec => []CaptureNeedsItsFilers
<1>1. DueInv => CaptureNeedsItsFilers
  BY DEF DueInv
<1> QED
  BY <1>1, DueInvHolds, PTL

-----------------------------------------------------------------------------
(***************************************************************************)
(* What the record says of a seat was true.  A command enters at most one  *)
(* entry about the seat of each actor, and enters it for the seat then     *)
(* held: its guards read that seat, and a cull finds each voter once,      *)
(* since on an open Motion nobody voted twice (VotesAreDue, CastsDecide).  *)
(***************************************************************************)
\* Entry e was true of a seat held, or it follows a ruling.
TrueSeat(e, held, ruled) ==
  /\ e.type = "ACTOR_EXITED" => held = e.role
  /\ e.type = "ACTOR_HIRED" => held = NoSeat \/ ruled
  /\ e.type = "ACTOR_PROMOTED" => held # NoSeat /\ Rank(e.role) < Rank(held)
  /\ e.type = "ACTOR_DEMOTED" => held # NoSeat /\ Rank(e.role) > Rank(held)

SeatsWereHeld ==
  \A k \in DOMAIN hansard : hansard[k].type \in SeatChanges =>
    TrueSeat(hansard[k], SeatBy(hansard, k - 1, hansard[k].subject),
             hansard[k - 1] = ExitRuling(hansard[k].subject, "UPHELD"))

EntersTruly(es) ==
  /\ es \in Seq(Entry) /\ hansard' = hansard \o es
  /\ \A k \in DOMAIN es : es[k].type \in SeatChanges =>
       /\ \A i \in 1..(k - 1) : ~ (es[i].type \in SeatChanges /\ es[i].subject = es[k].subject)
       /\ TrueSeat(es[k], seatOf(hansard, es[k].subject),
                   k > 1 /\ es[k - 1] = ExitRuling(es[k].subject, "UPHELD"))

\* Entries about nobody's seat.
LEMMA SeatlessIsTrue ==
  ASSUME NEW es \in Seq(Entry), Enters(es), \A k \in DOMAIN es : es[k].type \notin SeatChanges
  PROVE  \E fs : EntersTruly(fs)
BY DEF EntersTruly, Enters

LEMMA SeatlessOneOrTwo ==
  ASSUME NEW e \in Entry, NEW f \in Entry, Enters(<<e>>) \/ Enters(<<e, f>>),
         e.type \notin SeatChanges, f.type \notin SeatChanges
  PROVE  \E es : EntersTruly(es)
<1>1. /\ <<e>> \in Seq(Entry) /\ \A k \in DOMAIN <<e>> : <<e>>[k] = e
      /\ <<e, f>> \in Seq(Entry) /\ \A k \in DOMAIN <<e, f>> : <<e, f>>[k] \in {e, f}
  OBVIOUS
<1>2. CASE Enters(<<e>>)
  BY <1>1, <1>2, SeatlessIsTrue
<1>3. CASE Enters(<<e, f>>)
  BY <1>1, <1>3, SeatlessIsTrue
<1> QED
  BY <1>2, <1>3

\* One entry about a seat.
LEMMA OneSeatIsTrue ==
  ASSUME NEW e \in Entry, Enters(<<e>>), TrueSeat(e, seatOf(hansard, e.subject), FALSE)
  PROVE  \E es : EntersTruly(es)
<1>1. <<e>> \in Seq(Entry) /\ DOMAIN <<e>> = {1} /\ <<e>>[1] = e /\ 1..(1 - 1) = {} /\ ~ (1 > 1)
  OBVIOUS
<1>2. TrueSeat(e, seatOf(hansard, e.subject), 1 > 1 /\ <<e>>[1 - 1] = ExitRuling(e.subject, "UPHELD"))
  BY <1>1 DEF TrueSeat
<1>3. EntersTruly(<<e>>)
  BY <1>1, <1>2 DEF EntersTruly, Enters
<1> QED
  BY <1>3

\* Nobody is culled twice.
LEMMA NobodyIsCulledTwice ==
  ASSUME Inv, DueInv, NEW m \in Motions, Open(m), NEW policy,
         NEW f \in InOrder(Culled(hansard, m, policy)),
         NEW i \in DOMAIN f, NEW j \in DOMAIN f, i < j
  PROVE  hansard[f[i]].actor # hansard[f[j]].actor
<1> DEFINE K == Culled(hansard, m, policy)
<1>1. f[i] \in K /\ f[j] \in K /\ f[i] < f[j]
  <2>1. f \in [1..Cardinality(K) -> K] /\ \A x, y \in DOMAIN f : x < y => f[x] < f[y]
    BY DEF InOrder
  <2> HIDE DEF K
  <2>2. f[i] \in K /\ f[j] \in K
    BY <2>1
  <2> QED
    BY <2>1, <2>2
<1>2. K \subseteq votesFor(hansard, m) /\ votesFor(hansard, m) \subseteq 1..Len(hansard)
  <2>1. DOMAIN hansard = 1..Len(hansard)
    BY DEF Inv, WellFormed, TypeOK
  <2>2. K \subseteq votesFor(hansard, m)
    BY DEF Culled
  <2> QED
    BY <2>1, <2>2 DEF votesFor
<1>3. \A k \in K : /\ k \in DOMAIN hansard /\ hansard[k].motion = m
                   /\ hansard[k].type = "VOTE_CAST" /\ k \in Nat
  BY <1>2 DEF votesFor
<1>4. ~ divisionDecided(hansard, m)
  BY DEF Open
<1>5. \A k \in K : OrdinaryVote(k)
  BY <1>3, <1>4 DEF DueInv, CastsDecide, OrdinaryVote, CastingVote
<1>6. f[i] # f[j]
  BY <1>1, <1>3
<1> QED
  BY <1>1, <1>3, <1>5, <1>6 DEF DueInv, VotesAreDue

LEMMA DivisionEntersTruly ==
  ASSUME Inv, DueInv, DivisionNext
  PROVE  \E es : EntersTruly(es)
<1>1. hansard \in Seq(Entry)
  BY DEF Inv, WellFormed, TypeOK
<1>2. ASSUME NEW type \in MotionTypes, NEW m \in Motions
      PROVE  OnMotion(type, m) \in Entry /\ OnMotion(type, m).type \notin SeatChanges
  BY EntriesAreTyped DEF OnMotion, MotionTypes, SeatChanges, SeatTypes
<1>3. ASSUME NEW m \in Motions, NEW a \in Actors, NEW v \in Votes, NEW c \in BOOLEAN
      PROVE  VoteCast(m, a, v, c) \in Entry /\ VoteCast(m, a, v, c).type \notin SeatChanges
  BY EntriesAreTyped DEF VoteCast, SeatChanges, SeatTypes
<1>4. ASSUME NEW type \in PlainTypes
      PROVE  Plain(type) \in Entry /\ Plain(type).type \notin SeatChanges
  BY EntriesAreTyped DEF Plain, PlainTypes, SeatChanges, SeatTypes
<1>5. Plain("PROJECTION") \in Entry /\ Plain("PROJECTION").type \notin SeatChanges
  BY <1>4 DEF PlainTypes
<1>6. ASSUME NEW type \in MotionTypes, NEW m \in Motions,
             Enters(<<OnMotion(type, m)>>) \/ Enters(<<OnMotion(type, m), Plain("PROJECTION")>>)
      PROVE  \E es : EntersTruly(es)
  BY <1>2, <1>5, <1>6, SeatlessOneOrTwo
<1>7. ASSUME NEW a \in Actors, NEW role \in Roles, NEW m \in Motions, NEW v \in Votes,
             Vote(a, role, m, v)
      PROVE  \E es : EntersTruly(es)
  BY <1>3, <1>5, <1>7, SeatlessOneOrTwo DEF Vote
<1>8. ASSUME NEW a \in Actors, NEW m \in Motions, NEW v \in Votes, Break(a, m, v)
      PROVE  \E es : EntersTruly(es)
  <2> DEFINE e == VoteCast(m, a, v, TRUE)
             o == Outcome(hansard \o <<e>>, m)
  <2>1. Enters(Append(<<e>>, o))
    BY <1>8 DEF Break
  <2>2. e \in Entry /\ e.type \notin SeatChanges /\ o \in Entry /\ o.type \notin SeatChanges
    BY <1>2, <1>3 DEF Outcome, MotionTypes
  <2> HIDE DEF e, o
  <2>3. Enters(<<e, o>>)
    BY <2>1, <2>2, PairOfEntries
  <2> QED
    BY <2>2, <2>3, SeatlessOneOrTwo
<1>9. ASSUME NEW m \in Motions, TallyOutcome(m)
      PROVE  \E es : EntersTruly(es)
  <2> DEFINE o == Outcome(hansard, m)
             end == Plain("SESSION_TIMEOUT")
  <2>1. PICK f \in InOrder(Culled(hansard, m, charter.exit)) :
          \/ Enters(<<o>> \o DarwinistExits(hansard, f))
          \/ Enters(Append(<<o>> \o DarwinistExits(hansard, f), end))
    BY <1>9 DEF TallyOutcome
  <2> DEFINE exits == DarwinistExits(hansard, f)
             es == <<o>> \o exits
             fs == Append(es, end)
  <2>2. o \in Entry /\ o.type \notin SeatChanges /\ end \in Entry /\ end.type \notin SeatChanges
    BY <1>2, <1>4 DEF Outcome, MotionTypes, PlainTypes
  <2>3. exits \in Seq(Entry) /\ DOMAIN exits = DOMAIN f
    BY <1>1, CullEntersExits DEF DarwinistExits
  <2>4. ASSUME NEW i \in DOMAIN exits
        PROVE  /\ exits[i].type = "ACTOR_EXITED" /\ exits[i].subject = hansard[f[i]].actor
               /\ exits[i].role = seatOf(hansard, exits[i].subject)
    BY <2>3 DEF DarwinistExits, Exited
  <2>5. ASSUME NEW i \in DOMAIN exits, NEW j \in DOMAIN exits, i < j
        PROVE  exits[i].subject # exits[j].subject
    <3>1. Open(m)
      BY <1>9 DEF TallyOutcome
    <3> QED
      BY <2>3, <2>4, <2>5, <3>1, NobodyIsCulledTwice
  <2> HIDE DEF o, exits, end
  <2>6. /\ es \in Seq(Entry) /\ Len(es) = 1 + Len(exits) /\ es[1] = o
        /\ \A k \in 2..Len(es) : k - 1 \in DOMAIN exits /\ es[k] = exits[k - 1]
    BY <2>2, <2>3
  <2> HIDE DEF es
  <2>7. /\ fs \in Seq(Entry) /\ Len(fs) = Len(es) + 1 /\ fs[Len(es) + 1] = end
        /\ Len(es) \in Nat /\ Len(es) > 0
        /\ \A k \in 1..Len(es) : fs[k] = es[k]
    BY <2>2, <2>6
  <2> HIDE DEF fs
  <2>8. ASSUME NEW gs \in Seq(Entry), Enters(gs), gs[1] = o,
               \A k \in 2..Len(gs) :
                 gs[k] = end \/ (k - 1 \in DOMAIN exits /\ gs[k] = exits[k - 1])
        PROVE  EntersTruly(gs)
    <3> SUFFICES ASSUME NEW k \in DOMAIN gs, gs[k].type \in SeatChanges
                 PROVE  /\ \A i \in 1..(k - 1) :
                             ~ (gs[i].type \in SeatChanges /\ gs[i].subject = gs[k].subject)
                        /\ TrueSeat(gs[k], seatOf(hansard, gs[k].subject),
                                    k > 1 /\ gs[k - 1] = ExitRuling(gs[k].subject, "UPHELD"))
      BY <2>8 DEF EntersTruly, Enters
    <3>1. k \in 2..Len(gs)
      BY <2>2, <2>8
    <3>2. k - 1 \in DOMAIN exits /\ gs[k] = exits[k - 1]
      BY <2>2, <2>8, <3>1
    <3>3. ASSUME NEW i \in 1..(k - 1), gs[i].type \in SeatChanges
          PROVE  gs[i].subject # gs[k].subject
      <4>1. i \in 2..Len(gs)
        BY <2>2, <2>8, <3>1, <3>3
      <4>2. i - 1 \in DOMAIN exits /\ gs[i] = exits[i - 1]
        BY <2>2, <2>8, <3>3, <4>1
      <4>3. i - 1 < k - 1
        BY <3>1
      <4> QED
        BY <2>5, <3>2, <4>2, <4>3
    <3>4. gs[k].type = "ACTOR_EXITED" /\ gs[k].role = seatOf(hansard, gs[k].subject)
      BY <2>4, <3>2
    <3> QED
      BY <3>3, <3>4 DEF TrueSeat
  <2>9. CASE Enters(es)
    BY <2>6, <2>8, <2>9
  <2>10. CASE Enters(fs)
    <3>1. 1 \in 1..Len(es) /\ \A k \in 2..Len(fs) : k \in 2..Len(es) \/ k = Len(es) + 1
      BY <2>7
    <3>2. fs[1] = o
      BY <2>6, <2>7, <3>1
    <3>3. \A k \in 2..Len(fs) :
            fs[k] = end \/ (k - 1 \in DOMAIN exits /\ fs[k] = exits[k - 1])
      BY <2>6, <2>7, <3>1
    <3> QED
      BY <2>7, <2>8, <2>10, <3>2, <3>3
  <2> QED
    BY <2>1, <2>9, <2>10 DEF es, fs, exits, o, end
<1> QED
  BY <1>6, <1>7, <1>8, <1>9
     DEF DivisionNext, Call, TallyDeadlock, Assent, Veto, MotionTypes

LEMMA BenchEntersTruly ==
  ASSUME Inv, BenchNext
  PROVE  \E es : EntersTruly(es)
<1>1. hansard \in Seq(Entry) /\ SeatRoles \subseteq Roles
  BY SeatRolesAssumption DEF Inv, WellFormed, TypeOK
<1>2. ASSUME NEW type \in SeatTypes, NEW a \in Actors, NEW seat \in SeatRoles
      PROVE  /\ Seating(type, a, seat) \in Entry
             /\ Seating(type, a, seat).type = type /\ Seating(type, a, seat).subject = a
             /\ Seating(type, a, seat).role = seat
  BY <1>1, EntriesAreTyped DEF Seating
<1>3. ASSUME NEW role \in Roles, NEW a \in Actors, NEW seat \in SeatRoles, Hire(role, a, seat)
      PROVE  \E es : EntersTruly(es)
  <2> DEFINE e == Seating("ACTOR_HIRED", a, seat)
  <2>1. e \in Entry /\ e.type = "ACTOR_HIRED" /\ e.subject = a
    BY <1>2 DEF SeatTypes
  <2>2. Enters(<<e>>) /\ seatOf(hansard, a) = NoSeat
    BY <1>3 DEF Hire
  <2> HIDE DEF e
  <2>3. TrueSeat(e, seatOf(hansard, e.subject), FALSE)
    BY <2>1, <2>2 DEF TrueSeat
  <2> QED
    BY <2>1, <2>2, <2>3, OneSeatIsTrue
<1>4. ASSUME NEW role \in Roles, NEW a \in Actors, NEW to \in SeatRoles, Promote(role, a, to)
      PROVE  \E es : EntersTruly(es)
  <2> DEFINE e == Seating("ACTOR_PROMOTED", a, to)
  <2>1. e \in Entry /\ e.type = "ACTOR_PROMOTED" /\ e.subject = a /\ e.role = to
    BY <1>2 DEF SeatTypes
  <2>2. /\ Enters(<<e>>) /\ seatOf(hansard, a) # NoSeat
        /\ Rank(to) < Rank(seatOf(hansard, a))
    BY <1>4 DEF Promote, MayMove
  <2> HIDE DEF e
  <2>3. TrueSeat(e, seatOf(hansard, e.subject), FALSE)
    BY <2>1, <2>2 DEF TrueSeat
  <2> QED
    BY <2>1, <2>2, <2>3, OneSeatIsTrue
<1>5. ASSUME NEW role \in Roles, NEW a \in Actors, NEW to \in SeatRoles, Demote(role, a, to)
      PROVE  \E es : EntersTruly(es)
  <2> DEFINE e == Seating("ACTOR_DEMOTED", a, to)
  <2>1. e \in Entry /\ e.type = "ACTOR_DEMOTED" /\ e.subject = a /\ e.role = to
    BY <1>2 DEF SeatTypes
  <2>2. /\ Enters(<<e>>) /\ seatOf(hansard, a) # NoSeat
        /\ Rank(to) > Rank(seatOf(hansard, a))
    BY <1>5 DEF Demote, MayMove
  <2> HIDE DEF e
  <2>3. TrueSeat(e, seatOf(hansard, e.subject), FALSE)
    BY <2>1, <2>2 DEF TrueSeat
  <2> QED
    BY <2>1, <2>2, <2>3, OneSeatIsTrue
<1>6. ASSUME NEW by \in Actors, NEW role \in Roles, NEW a \in Actors, NEW v \in BOOLEAN,
             Exit(by, role, a, v)
      PROVE  \E es : EntersTruly(es)
  <2> DEFINE e == Exited(a, seatOf(hansard, a), by = a)
  <2>1. Seated(hansard, a)
    BY <1>6 DEF Exit, seatOf
  <2>2. PICK k \in DOMAIN hansard :
          hansard[k].type \in SeatTypes /\ seatOf(hansard, a) = hansard[k].role
    BY <1>1, <2>1, SeatIsOnRecord
  <2>3. seatOf(hansard, a) \in Roles
    BY <1>1, <2>2, EntryFields
  <2>4. /\ e \in Entry /\ e.type = "ACTOR_EXITED" /\ e.subject = a
        /\ e.role = seatOf(hansard, a)
    BY <2>3, EntriesAreTyped DEF Exited
  <2>5. Enters(<<e>>)
    BY <1>6 DEF Exit
  <2> HIDE DEF e
  <2>6. TrueSeat(e, seatOf(hansard, e.subject), FALSE)
    BY <2>4 DEF TrueSeat
  <2> QED
    BY <2>4, <2>5, <2>6, OneSeatIsTrue
<1>7. ASSUME NEW e \in Entry, e.type \notin SeatChanges, Enters(<<e>>)
      PROVE  \E es : EntersTruly(es)
  BY <1>7, SeatlessOneOrTwo
<1>8. ASSUME NEW role \in Roles, Spawn(role)
      PROVE  \E es : EntersTruly(es)
  <2>1. /\ Plain("COMMITTEE_SPAWNED") \in Entry
        /\ Plain("COMMITTEE_SPAWNED").type \notin SeatChanges
    BY EntriesAreTyped DEF Plain, PlainTypes, SeatChanges, SeatTypes
  <2> QED
    BY <1>7, <1>8, <2>1 DEF Spawn
<1>9. ASSUME NEW a \in Actors, DisputeExit(a)
      PROVE  \E es : EntersTruly(es)
  <2>1. Disputed(a) \in Entry /\ Disputed(a).type \notin SeatChanges
    BY EntriesAreTyped DEF Disputed, SeatChanges, SeatTypes
  <2> QED
    BY <1>7, <1>9, <2>1 DEF DisputeExit
<1>10. ASSUME NEW a \in Actors, NEW ruling \in DisputeRulings, Reinstate(a, ruling)
       PROVE  \E es : EntersTruly(es)
  <2> DEFINE e == ExitRuling(a, ruling)
             f == Seating("ACTOR_HIRED", a, LastExit(hansard, a).role)
  <2>1. e \in Entry /\ e.type = "EXIT_RULING"
    BY EntriesAreTyped DEF ExitRuling
  <2>2. f \in Entry /\ f.type = "ACTOR_HIRED"
    <3>1. HasExited(hansard, a)
      BY <1>10 DEF Reinstate, Inv, DisputesFollowExits
    <3>2. PICK x \in DOMAIN hansard :
            hansard[x].type = "ACTOR_EXITED" /\ LastExit(hansard, a) = hansard[x]
      BY <1>1, <3>1, LastExitIsOnRecord
    <3>3. LastExit(hansard, a).role \in Roles
      BY <1>1, <3>2, EntryFields
    <3> QED
      BY <3>3, EntriesAreTyped DEF SeatTypes, Seating
  <2>3. \/ Enters(<<e>> \o <<f>>) /\ e = ExitRuling(f.subject, "UPHELD")
        \/ Enters(<<e>> \o <<>>)
    BY <1>10 DEF Reinstate, Reinstatement, Seating
  <2> HIDE DEF e, f
  <2>4. CASE Enters(<<e>> \o <<>>)
    <3>1. <<e>> \o <<>> = <<e>>
      BY <2>1
    <3> QED
      BY <1>7, <2>1, <2>4, <3>1 DEF SeatChanges, SeatTypes
  <2>5. CASE Enters(<<e>> \o <<f>>) /\ e = ExitRuling(f.subject, "UPHELD")
    <3> DEFINE es == <<e, f>>
    <3>1. Enters(es)
      BY <2>1, <2>2, <2>5, PairOfEntries
    <3>2. es \in Seq(Entry) /\ DOMAIN es = {1, 2} /\ es[1] = e /\ es[2] = f
      BY <2>1, <2>2
    <3> HIDE DEF es
    <3>3. e.type \notin SeatChanges
      BY <2>1 DEF SeatChanges, SeatTypes
    <3>4. ASSUME NEW k \in DOMAIN es, es[k].type \in SeatChanges
          PROVE  /\ \A i \in 1..(k - 1) :
                      ~ (es[i].type \in SeatChanges /\ es[i].subject = es[k].subject)
                 /\ TrueSeat(es[k], seatOf(hansard, es[k].subject),
                             k > 1 /\ es[k - 1] = ExitRuling(es[k].subject, "UPHELD"))
      <4>1. k = 2 /\ es[k] = f /\ es[k - 1] = e /\ k > 1 /\ \A i \in 1..(k - 1) : i = 1
        BY <3>2, <3>3, <3>4
      <4>2. TrueSeat(f, seatOf(hansard, f.subject), TRUE)
        BY <2>2 DEF TrueSeat
      <4>3. k > 1 /\ es[k - 1] = ExitRuling(es[k].subject, "UPHELD")
        BY <2>5, <4>1
      <4> QED
        BY <3>2, <3>3, <4>1, <4>2, <4>3
    <3>5. EntersTruly(es)
      BY <3>1, <3>2, <3>4 DEF EntersTruly, Enters
    <3> QED
      BY <3>5
  <2> QED
    BY <2>3, <2>4, <2>5
<1> QED
  BY <1>3, <1>4, <1>5, <1>6, <1>8, <1>9, <1>10 DEF BenchNext

LEMMA GovernanceEntersTruly ==
  ASSUME Inv, GovernanceNext
  PROVE  \E es : EntersTruly(es)
<1>1. ASSUME NEW type \in PlainTypes
      PROVE  Plain(type) \in Entry /\ Plain(type).type \notin SeatChanges
  BY EntriesAreTyped DEF Plain, PlainTypes, SeatChanges, SeatTypes
<1>2. ASSUME NEW type \in PlainTypes, NEW other \in PlainTypes,
             Enters(<<Plain(type)>>) \/ Enters(<<Plain(type), Plain(other)>>)
      PROVE  \E es : EntersTruly(es)
  BY <1>1, <1>2, SeatlessOneOrTwo
<1>3. ASSUME NEW a \in Actors, NEW role \in Roles, FileCrisis(a, role)
      PROVE  \E es : EntersTruly(es)
  <2>1. CrisisFiled(a, role) \in Entry /\ CrisisFiled(a, role).type \notin SeatChanges
    BY EntriesAreTyped DEF CrisisFiled, SeatChanges, SeatTypes
  <2>2. /\ Plain("CONSTITUTIONAL_CRISIS") \in Entry
        /\ Plain("CONSTITUTIONAL_CRISIS").type \notin SeatChanges
    BY <1>1 DEF PlainTypes
  <2>3. \/ Enters(<<CrisisFiled(a, role)>>)
        \/ Enters(<<CrisisFiled(a, role), Plain("CONSTITUTIONAL_CRISIS")>>)
    BY <1>3 DEF FileCrisis
  <2> QED
    BY <2>1, <2>2, <2>3, SeatlessOneOrTwo
<1>4. ASSUME NEW r \in Actors, NEW s \in Actors, NEW ruling \in CrisisRulings,
             ExternalReview(r, s, ruling)
      PROVE  \E es : EntersTruly(es)
  <2>1. CrisisRuling(ruling) \in Entry /\ CrisisRuling(ruling).type \notin SeatChanges
    BY EntriesAreTyped DEF CrisisRuling, SeatChanges, SeatTypes
  <2> QED
    BY <1>4, <2>1, SeatlessOneOrTwo DEF ExternalReview
<1>5. CASE Escalate
  BY <1>2, <1>5 DEF Escalate, PlainTypes
<1>6. CASE \E role \in Roles : Rule(role)
  BY <1>2, <1>6 DEF Rule, PlainTypes
<1>7. CASE MarkStale \/ Resume \/ Snapshot
  BY <1>2, <1>7 DEF MarkStale, Resume, Snapshot, PlainTypes
<1>8. CASE \E role \in Roles, dissolve \in BOOLEAN : Prorogue(role, dissolve)
  BY <1>2, <1>8 DEF Prorogue, PlainTypes
<1>9. CASE \E role \in Roles : Challenge(role)
  BY <1>2, <1>9 DEF Challenge, PlainTypes
<1> QED
  BY <1>3, <1>4, <1>5, <1>6, <1>7, <1>8, <1>9 DEF GovernanceNext

LEMMA SeatsStayHeld ==
  ASSUME Inv, NEW es, EntersTruly(es), SeatsWereHeld
  PROVE  SeatsWereHeld'
<1> DEFINE n == Len(hansard)
           h == hansard \o es
<1>1. /\ hansard \in Seq(Entry) /\ es \in Seq(Entry) /\ hansard' = h
  BY DEF Inv, WellFormed, TypeOK, EntersTruly
<1>2. /\ n \in Nat /\ Len(es) \in Nat /\ h \in Seq(Entry) /\ Len(h) = n + Len(es)
      /\ DOMAIN hansard = 1..n /\ DOMAIN es = 1..Len(es) /\ DOMAIN h = 1..(n + Len(es))
      /\ \A k \in 1..n : h[k] = hansard[k]
      /\ \A k \in 1..Len(es) : h[n + k] = es[k]
      /\ \A k \in 1..(n + Len(es)) : k \in 1..n \/ (\E i \in 1..Len(es) : k = n + i)
  <2>1. /\ h \in Seq(Entry) /\ Len(h) = Len(hansard) + Len(es)
        /\ DOMAIN h = 1..(Len(hansard) + Len(es))
    BY <1>1, Concatenated
  <2>2. /\ Len(hansard) \in Nat /\ Len(es) \in Nat
        /\ DOMAIN hansard = 1..Len(hansard) /\ DOMAIN es = 1..Len(es)
    BY <1>1
  <2>3. \A k \in 1..Len(hansard) : h[k] = hansard[k]
    BY <1>1, Concatenated
  <2>4. \A k \in 1..Len(es) : h[Len(hansard) + k] = es[k]
    BY <1>1, Concatenated
  <2>5. \A k \in 1..(Len(hansard) + Len(es)) :
           k \in 1..Len(hansard) \/ (\E i \in 1..Len(es) : k = Len(hansard) + i)
    BY <1>1, Concatenated
  <2> QED
    BY <2>1, <2>2, <2>3, <2>4, <2>5
<1> HIDE DEF n
<1> HIDE DEF h
<1> SUFFICES ASSUME NEW k \in DOMAIN h, h[k].type \in SeatChanges
             PROVE  TrueSeat(h[k], SeatBy(h, k - 1, h[k].subject),
                             h[k - 1] = ExitRuling(h[k].subject, "UPHELD"))
  BY <1>1 DEF SeatsWereHeld
<1> DEFINE a == h[k].subject
<1>3. CASE k \in 1..n
  <2>1. h[k] = hansard[k] /\ k \in DOMAIN hansard /\ k - 1 \in 0..n /\ k - 1 \in (k - 1)..Len(h)
    BY <1>2, <1>3
  <2>2. SeatBy(h, k - 1, a) = SeatBy(hansard, k - 1, a)
    <3>1. /\ \A j \in 1..(k - 1) : h[j] = hansard[j]
          /\ \A j \in ((k - 1) + 1)..(k - 1) : ~ (h[j].type \in SeatChanges /\ h[j].subject = a)
      BY <1>2, <1>3
    <3>2. /\ k - 1 \in 0..Len(hansard) /\ k - 1 \in (k - 1)..Len(h)
          /\ h \in Seq(Entry) /\ hansard \in Seq(Entry)
      BY <1>1, <1>2, <2>1 DEF n
    <3> HIDE DEF a
    <3> QED
      BY <3>1, <3>2, SeatByStays
  <2>3. TrueSeat(hansard[k], SeatBy(hansard, k - 1, a),
                 hansard[k - 1] = ExitRuling(a, "UPHELD"))
    BY <2>1 DEF SeatsWereHeld
  <2>4. CASE k = 1
    <3>1. SeatBy(hansard, 0, a) = NoSeat
      BY DEF SeatBy, SeatedBy
    <3> QED
      BY <2>1, <2>2, <2>3, <2>4, <3>1 DEF TrueSeat
  <2>5. CASE k # 1
    <3>1. h[k - 1] = hansard[k - 1]
      BY <1>2, <1>3, <2>5
    <3> QED
      BY <2>1, <2>2, <2>3, <3>1
  <2> QED
    BY <2>4, <2>5
<1>4. CASE k \notin 1..n
  <2>1. PICK i \in 1..Len(es) : k = n + i
    BY <1>2, <1>4
  <2>2. /\ h[k] = es[i] /\ i \in DOMAIN es /\ n \in 0..n /\ k - 1 \in n..Len(h)
        /\ \A j \in (n + 1)..(k - 1) : j - n \in 1..(i - 1) /\ h[j] = es[j - n]
    <3>1. h[k] = es[i] /\ i \in DOMAIN es /\ n \in 0..n /\ k - 1 \in n..Len(h)
      BY <1>2, <2>1
    <3>2. ASSUME NEW j \in (n + 1)..(k - 1)
          PROVE  j - n \in 1..(i - 1) /\ h[j] = es[j - n]
      <4>1. j - n \in 1..(i - 1) /\ j - n \in 1..Len(es) /\ n + (j - n) = j
        BY <1>2, <2>1
      <4>2. h[n + (j - n)] = es[j - n]
        BY <1>2, <4>1
      <4> QED
        BY <4>1, <4>2
    <3> QED
      BY <3>1, <3>2
  <2>3. /\ \A j \in 1..(i - 1) : ~ (es[j].type \in SeatChanges /\ es[j].subject = a)
        /\ TrueSeat(h[k], seatOf(hansard, a), i > 1 /\ es[i - 1] = ExitRuling(a, "UPHELD"))
    BY <2>2 DEF EntersTruly
  <2>4. SeatBy(h, k - 1, a) = SeatBy(hansard, n, a)
    <3>1. \A j \in (n + 1)..(k - 1) : ~ (h[j].type \in SeatChanges /\ h[j].subject = a)
      BY <2>2, <2>3
    <3> HIDE DEF a
    <3> QED
      BY <1>1, <1>2, <2>2, <3>1, SeatByStays DEF n
  <2>5. SeatBy(hansard, n, a) = seatOf(hansard, a)
    BY <1>1, SeatOfIsByAll DEF n
  <2>6. i > 1 /\ es[i - 1] = ExitRuling(a, "UPHELD") => h[k - 1] = ExitRuling(a, "UPHELD")
    <3>1. ASSUME i > 1 PROVE h[k - 1] = es[i - 1]
      <4>1. i - 1 \in 1..Len(es) /\ k - 1 = n + (i - 1)
        BY <1>2, <2>1, <3>1
      <4> QED
        BY <1>2, <4>1
    <3> QED
      BY <3>1
  <2> QED
    BY <2>3, <2>4, <2>5, <2>6 DEF TrueSeat
<1> QED
  BY <1>3, <1>4

LEMMA SeatsWereHeldHolds == Spec => []SeatsWereHeld
<1>1. Init => SeatsWereHeld
  <2> SUFFICES ASSUME Init PROVE SeatsWereHeld
    OBVIOUS
  <2>1. PICK e \in {Plain("WRIT_DROP"), Plain("SESSION_INVALID")} : hansard = <<e>>
    BY DEF Init, Opened, Plain
  <2>2. e.type \notin SeatChanges
    BY DEF Plain, SeatChanges, SeatTypes
  <2>3. \A k \in DOMAIN hansard : hansard[k] = e
    BY <2>1
  <2> QED
    BY <2>2, <2>3 DEF SeatsWereHeld
<1>2. Inv /\ DueInv /\ SeatsWereHeld /\ [Next]_vars => SeatsWereHeld'
  <2> SUFFICES ASSUME Inv, DueInv, SeatsWereHeld, [Next]_vars PROVE SeatsWereHeld'
    OBVIOUS
  <2>1. CASE Next
    BY <2>1, DivisionEntersTruly, BenchEntersTruly, GovernanceEntersTruly, SeatsStayHeld
       DEF Next
  <2>2. CASE UNCHANGED vars
    BY <2>2 DEF vars, SeatsWereHeld
  <2> QED
    BY <2>1, <2>2
<1> QED
  BY <1>1, <1>2, InvHolds, DueInvHolds, PTL DEF Spec

\* TrueSeat says what the property says, case by case.
LEMMA TrueSeatSays ==
  ASSUME NEW e, NEW held, NEW ruled, TrueSeat(e, held, ruled),
         e.type \in SeatTypes \cup {"ACTOR_EXITED"}
  PROVE  CASE e.type = "ACTOR_EXITED" -> held = e.role
           [] e.type = "ACTOR_HIRED" -> held = NoSeat \/ ruled
           [] e.type = "ACTOR_PROMOTED" -> held # NoSeat /\ Rank(e.role) < Rank(held)
           [] e.type = "ACTOR_DEMOTED" -> held # NoSeat /\ Rank(e.role) > Rank(held)
<1>1. CASE e.type = "ACTOR_EXITED"
  BY <1>1 DEF TrueSeat
<1>2. CASE e.type = "ACTOR_HIRED"
  BY <1>2 DEF TrueSeat
<1>3. CASE e.type = "ACTOR_PROMOTED"
  BY <1>3 DEF TrueSeat
<1>4. CASE e.type = "ACTOR_DEMOTED"
  BY <1>4 DEF TrueSeat
<1> QED
  BY <1>1, <1>2, <1>3, <1>4 DEF SeatTypes

\* Whatever exits, culls, disputes and rulings befall the bench, every entry about a seat
\* was true when it was entered: an exit names the seat then held, a hiring finds none or
\* follows a ruling, a move goes the way it says (hire, move, exitActor, cull).
THEOREM SeatEntriesAlwaysTrue == Spec => []SeatEntriesAreTrue
<1>1. Inv /\ SeatsWereHeld => SeatEntriesAreTrue
  <2> SUFFICES ASSUME Inv, SeatsWereHeld, NEW k \in DOMAIN hansard,
                      hansard[k].type \in SeatTypes \cup {"ACTOR_EXITED"}
               PROVE  LET e == hansard[k]
                          held == Replay(e.subject)[k - 1]
                      IN CASE e.type = "ACTOR_EXITED" -> held = e.role
                           [] e.type = "ACTOR_HIRED" ->
                                held = NoSeat \/ hansard[k - 1] = ExitRuling(e.subject, "UPHELD")
                           [] e.type = "ACTOR_PROMOTED" ->
                                held # NoSeat /\ Rank(e.role) < Rank(held)
                           [] e.type = "ACTOR_DEMOTED" ->
                                held # NoSeat /\ Rank(e.role) > Rank(held)
    BY DEF SeatEntriesAreTrue
  <2>1. hansard \in Seq(Entry) /\ k - 1 \in 0..Len(hansard)
    BY DEF Inv, WellFormed, TypeOK
  <2>2. Replay(hansard[k].subject)[k - 1] = SeatBy(hansard, k - 1, hansard[k].subject)
    BY <2>1, ReplayIsSeatBy
  <2>3. TrueSeat(hansard[k], Replay(hansard[k].subject)[k - 1],
                 hansard[k - 1] = ExitRuling(hansard[k].subject, "UPHELD"))
    BY <2>2 DEF SeatsWereHeld, SeatChanges
  <2> QED
    BY <2>3, TrueSeatSays
<1> QED
  BY <1>1, InvHolds, SeatsWereHeldHolds, PTL

-----------------------------------------------------------------------------
(***************************************************************************)
(* Whom a Division unseats, and when it ends the sitting.                  *)
(*                                                                         *)
(* The argument.  A step of a Division enters nothing about seats, or the  *)
(* outcome of a tally and the exits of its cull; so who sits after it is   *)
(* read off the exits it entered (SeatedAfter).                            *)
(***************************************************************************)
Unseats(es, a) == \E k \in DOMAIN es : es[k].type = "ACTOR_EXITED" /\ es[k].subject = a

\* The steps that neither unseat nor decide.
Quietly(es) ==
  /\ es \in Seq(Entry) /\ hansard' = hansard \o es /\ charter' = charter
  /\ \A k \in DOMAIN es : es[k].type \notin {"ACTOR_HIRED", "ACTOR_EXITED"} \cup Outcomes
  /\ state = "PROROGUED" => state' = "PROROGUED"

BreaksTie(e, o) ==
  /\ e \in Entry /\ e.type = "VOTE_CAST" /\ e.casting
  /\ o \in Entry /\ o.type \in Outcomes
  /\ hansard' = hansard \o <<e, o>> /\ charter' = charter
  /\ IsSuspendedFor("DEADLOCK")

\* A tally that decides: es is what it enters and exits the cull in it.
Tallies(m, f, es) ==
  LET exits == DarwinistExits(hansard, f)
  IN /\ Open(m) /\ f \in InOrder(Culled(hansard, m, charter.exit))
     /\ es \in Seq(Entry) /\ hansard' = hansard \o es /\ charter' = charter
     /\ exits \in Seq(Entry) /\ Len(es) > Len(exits) /\ es[1] = Outcome(hansard, m)
     /\ \A i \in DOMAIN exits : i + 1 \in DOMAIN es /\ es[i + 1] = exits[i]
     /\ \A k \in DOMAIN es : k = 1 \/ es[k].type = "SESSION_TIMEOUT"
                              \/ k - 1 \in DOMAIN exits
     /\ \/ ~Seals(hansard, m, exits) /\ state' = state
        \/ state' = "PROROGUED"

LEMMA SeatedAfter ==
  ASSUME NEW h \in Seq(Entry), NEW es \in Seq(Entry), NEW a,
         \A k \in DOMAIN es : es[k].type # "ACTOR_HIRED"
  PROVE  /\ Seated(h \o es, a) <=> Seated(h, a) /\ ~Unseats(es, a)
         /\ HasExited(h \o es, a) <=> HasExited(h, a) \/ Unseats(es, a)
<1> DEFINE g == h \o es
           n == Len(h)
<1>1. /\ n \in Nat /\ Len(es) \in Nat /\ DOMAIN h = 1..n /\ DOMAIN es = 1..Len(es)
      /\ DOMAIN g = 1..(n + Len(es))
      /\ \A k \in 1..n : g[k] = h[k] /\ k \in DOMAIN g
      /\ \A k \in 1..Len(es) : g[n + k] = es[k] /\ n + k \in DOMAIN g
      /\ \A k \in DOMAIN g : k \in 1..n \/ (\E i \in 1..Len(es) : k = n + i)
  <2>1. /\ n \in Nat /\ Len(es) \in Nat /\ DOMAIN h = 1..n /\ DOMAIN es = 1..Len(es)
        /\ \A k \in 1..n : g[k] = h[k]
        /\ \A k \in 1..Len(es) : g[n + k] = es[k]
    OBVIOUS
  <2>2. DOMAIN g = 1..(n + Len(es))
    OBVIOUS
  <2> HIDE DEF g, n
  <2>3. \A k \in 1..(n + Len(es)) : k \in 1..n \/ (k - n \in 1..Len(es) /\ k = n + (k - n))
    BY <2>1
  <2>4. \A k \in DOMAIN g : k \in 1..n \/ (\E i \in 1..Len(es) : k = n + i)
    BY <2>2, <2>3
  <2>5. /\ \A k \in 1..n : k \in 1..(n + Len(es))
        /\ \A k \in 1..Len(es) : n + k \in 1..(n + Len(es))
    BY <2>1
  <2> QED
    BY <2>1, <2>2, <2>4, <2>5
<1> HIDE DEF g, n
<1>2. About(g, a, {"ACTOR_HIRED"}) = About(h, a, {"ACTOR_HIRED"})
  <2>1. ASSUME NEW k \in About(g, a, {"ACTOR_HIRED"})
        PROVE  k \in About(h, a, {"ACTOR_HIRED"})
    <3>1. k \in DOMAIN g /\ g[k].type = "ACTOR_HIRED" /\ g[k].subject = a
      BY DEF About
    <3>2. k \in 1..n
      BY <1>1, <3>1
    <3> QED
      BY <1>1, <3>1, <3>2 DEF About
  <2>2. ASSUME NEW k \in About(h, a, {"ACTOR_HIRED"})
        PROVE  k \in About(g, a, {"ACTOR_HIRED"})
    BY <1>1 DEF About
  <2> QED
    BY <2>1, <2>2
<1>3. \A k : k \in About(g, a, {"ACTOR_EXITED"}) <=>
        \/ k \in About(h, a, {"ACTOR_EXITED"})
        \/ \E i \in 1..Len(es) : k = n + i /\ es[i].type = "ACTOR_EXITED" /\ es[i].subject = a
  <2>1. ASSUME NEW k \in About(g, a, {"ACTOR_EXITED"})
        PROVE  \/ k \in About(h, a, {"ACTOR_EXITED"})
               \/ \E i \in 1..Len(es) :
                    k = n + i /\ es[i].type = "ACTOR_EXITED" /\ es[i].subject = a
    <3>1. k \in DOMAIN g /\ g[k].type = "ACTOR_EXITED" /\ g[k].subject = a
      BY DEF About
    <3>2. CASE k \in 1..n
      BY <1>1, <3>1, <3>2 DEF About
    <3>3. CASE \E i \in 1..Len(es) : k = n + i
      BY <1>1, <3>1, <3>3
    <3> QED
      BY <1>1, <3>1, <3>2, <3>3
  <2>2. ASSUME NEW k \in About(h, a, {"ACTOR_EXITED"})
        PROVE  k \in About(g, a, {"ACTOR_EXITED"})
    BY <1>1 DEF About
  <2>3. ASSUME NEW i \in 1..Len(es), es[i].type = "ACTOR_EXITED", es[i].subject = a
        PROVE  n + i \in About(g, a, {"ACTOR_EXITED"})
    BY <1>1, <2>3 DEF About
  <2> QED
    BY <2>1, <2>2, <2>3
<1>4. Seated(g, a) => Seated(h, a) /\ ~Unseats(es, a)
  <2>1. SUFFICES ASSUME Seated(g, a) PROVE Seated(h, a) /\ ~Unseats(es, a)
    OBVIOUS
  <2>2. PICK k \in About(g, a, {"ACTOR_HIRED"}) : \A j \in About(g, a, {"ACTOR_EXITED"}) : j < k
    BY <2>1 DEF Seated
  <2>3. k \in About(h, a, {"ACTOR_HIRED"}) /\ k \in 1..n
    BY <1>1, <1>2, <2>2 DEF About
  <2>4. \A i \in 1..Len(es) : ~(n + i < k)
    BY <1>1, <2>3
  <2>5. ~Unseats(es, a)
    BY <1>1, <1>3, <2>2, <2>4 DEF Unseats
  <2> QED
    BY <1>3, <2>2, <2>3, <2>5 DEF Seated
<1>5. Seated(h, a) /\ ~Unseats(es, a) => Seated(g, a)
  BY <1>1, <1>2, <1>3 DEF Seated, Unseats
<1>6. HasExited(g, a) <=> HasExited(h, a) \/ Unseats(es, a)
  BY <1>1, <1>3 DEF HasExited, Unseats
<1> QED
  BY <1>4, <1>5, <1>6 DEF g

LEMMA DivisionActs ==
  ASSUME hansard \in Seq(Entry), DivisionNext
  PROVE  \/ \E es : Quietly(es)
         \/ \E e, o : BreaksTie(e, o)
         \/ \E m \in Motions : \E f, es : Tallies(m, f, es)
<1>1. ASSUME NEW e \in Entry, e.type \notin {"ACTOR_HIRED", "ACTOR_EXITED"} \cup Outcomes,
             state = "PROROGUED" => state' = "PROROGUED",
             Enters(<<e>>) \/ Enters(<<e, Plain("PROJECTION")>>)
      PROVE  \E es : Quietly(es)
  <2>1. /\ Plain("PROJECTION") \in Entry /\ Plain("PROJECTION").type = "PROJECTION"
    BY EntriesAreTyped DEF Plain, PlainTypes
  <2> DEFINE p == Plain("PROJECTION")
  <2>2. CASE Enters(<<e>>)
    <3>1. <<e>> \in Seq(Entry) /\ DOMAIN <<e>> = {1} /\ <<e>>[1] = e
      OBVIOUS
    <3>2. Quietly(<<e>>)
      BY <1>1, <2>2, <3>1 DEF Quietly, Enters
    <3> QED
      BY <3>2
  <2>3. CASE Enters(<<e, p>>)
    <3> HIDE DEF p
    <3>1. /\ <<e, p>> \in Seq(Entry) /\ DOMAIN <<e, p>> = {1, 2}
          /\ <<e, p>>[1] = e /\ <<e, p>>[2] = p
      BY <2>1 DEF p
    <3>2. p.type \notin {"ACTOR_HIRED", "ACTOR_EXITED"} \cup Outcomes
      BY <2>1 DEF p, Outcomes
    <3>3. Quietly(<<e, p>>)
      BY <1>1, <2>3, <3>1, <3>2 DEF Quietly, Enters
    <3> QED
      BY <3>3
  <2> QED
    BY <1>1, <2>2, <2>3
<1>2. ASSUME NEW type \in {"DIVISION_CALLED", "DEADLOCK", "ASSENT_GRANTED", "VETO_EXERCISED"},
             NEW m \in Motions
      PROVE  /\ OnMotion(type, m) \in Entry
             /\ OnMotion(type, m).type \notin {"ACTOR_HIRED", "ACTOR_EXITED"} \cup Outcomes
  BY EntriesAreTyped DEF OnMotion, MotionTypes, Outcomes
<1>3. ASSUME NEW m \in Motions,
             Call(m) \/ TallyDeadlock(m) \/ \E role \in Roles : Assent(role, m) \/ Veto(role, m)
      PROVE  \E es : Quietly(es)
  <2>1. PICK type \in {"DIVISION_CALLED", "DEADLOCK", "ASSENT_GRANTED", "VETO_EXERCISED"} :
          /\ Enters(<<OnMotion(type, m)>>) \/ Enters(<<OnMotion(type, m), Plain("PROJECTION")>>)
          /\ state = "PROROGUED" => state' = "PROROGUED"
    BY <1>3 DEF Call, TallyDeadlock, Assent, Veto, requireConvened, Stays
  <2> DEFINE e == OnMotion(type, m)
  <2>2. e \in Entry /\ e.type \notin {"ACTOR_HIRED", "ACTOR_EXITED"} \cup Outcomes
    BY <1>2
  <2> HIDE DEF e
  <2> QED
    BY <1>1, <2>1, <2>2 DEF e
<1>4. ASSUME NEW a \in Actors, NEW role \in Roles, NEW m \in Motions, NEW v \in Votes,
             Vote(a, role, m, v)
      PROVE  \E es : Quietly(es)
  <2> DEFINE e == VoteCast(m, a, v, FALSE)
  <2>1. e \in Entry /\ e.type \notin {"ACTOR_HIRED", "ACTOR_EXITED"} \cup Outcomes
    BY EntriesAreTyped DEF VoteCast, Outcomes
  <2>2. Enters(<<e>>) /\ state' = state
    BY <1>4 DEF Vote, Stays
  <2> HIDE DEF e
  <2> QED
    BY <1>1, <2>1, <2>2
<1>5. ASSUME NEW a \in Actors, NEW m \in Motions, NEW v \in Votes, Break(a, m, v)
      PROVE  \E e, o : BreaksTie(e, o)
  <2> DEFINE e == VoteCast(m, a, v, TRUE)
             o == Outcome(hansard \o <<e>>, m)
  <2>1. e \in Entry /\ e.type = "VOTE_CAST" /\ e.casting
    BY EntriesAreTyped DEF VoteCast
  <2>2. o \in Entry /\ o.type \in Outcomes
    BY EntriesAreTyped DEF Outcome, OnMotion, Outcomes, MotionTypes
  <2>3. Enters(Append(<<e>>, o)) /\ IsSuspendedFor("DEADLOCK")
    BY <1>5 DEF Break
  <2> HIDE DEF e, o
  <2>4. Append(<<e>>, o) = <<e, o>>
    BY <2>1, <2>2, PairOfEntries
  <2> QED
    BY <2>1, <2>2, <2>3, <2>4 DEF BreaksTie, Enters
<1>6. ASSUME NEW m \in Motions, TallyOutcome(m)
      PROVE  \E f, es : Tallies(m, f, es)
  <2> DEFINE o == Outcome(hansard, m)
             end == Plain("SESSION_TIMEOUT")
  <2>1. PICK f \in InOrder(Culled(hansard, m, charter.exit)) :
          \/ /\ ~Seals(hansard, m, DarwinistExits(hansard, f))
             /\ Enters(<<o>> \o DarwinistExits(hansard, f)) /\ state' = state
          \/ /\ Enters(Append(<<o>> \o DarwinistExits(hansard, f), end)) /\ state' = "PROROGUED"
    BY <1>6 DEF TallyOutcome, Stays, Becomes
  <2> DEFINE exits == DarwinistExits(hansard, f)
             es == <<o>> \o exits
             gs == Append(es, end)
  <2>2. Open(m)
    BY <1>6 DEF TallyOutcome
  <2>3. o \in Entry /\ end \in Entry /\ end.type = "SESSION_TIMEOUT"
    BY EntriesAreTyped DEF Outcome, OnMotion, Outcomes, MotionTypes, Plain, PlainTypes
  <2>4. exits \in Seq(Entry)
    BY CullEntersExits
  <2> HIDE DEF o, end, exits
  <2>5. <<o>> \in Seq(Entry) /\ Len(<<o>>) = 1 /\ <<o>>[1] = o /\ Len(exits) \in Nat
    BY <2>3, <2>4
  <2>6. /\ es \in Seq(Entry) /\ Len(es) = 1 + Len(exits) /\ DOMAIN exits = 1..Len(exits)
        /\ DOMAIN es = 1..(1 + Len(exits)) /\ es[1] = o
        /\ \A i \in 1..Len(exits) : es[1 + i] = exits[i]
    BY <2>4, <2>5, Concatenated
  <2> HIDE DEF es
  <2>7. /\ gs \in Seq(Entry) /\ Len(gs) = 2 + Len(exits)
        /\ DOMAIN gs = 1..(2 + Len(exits)) /\ gs[2 + Len(exits)] = end
        /\ \A k \in 1..(1 + Len(exits)) : gs[k] = es[k]
    BY <2>3, <2>5, <2>6
  <2> HIDE DEF gs
  <2>8. \/ Enters(es) /\ ~Seals(hansard, m, exits) /\ state' = state
        \/ Enters(gs) /\ state' = "PROROGUED"
    BY <2>1 DEF es, gs, o, end, exits
  <2>9. CASE Enters(es) /\ ~Seals(hansard, m, exits) /\ state' = state
    <3>1. Len(es) > Len(exits)
      BY <2>5, <2>6
    <3>2. \A i \in DOMAIN exits : i + 1 \in DOMAIN es /\ es[i + 1] = exits[i]
      BY <2>5, <2>6
    <3>3. \A k \in DOMAIN es : k = 1 \/ k - 1 \in DOMAIN exits
      BY <2>5, <2>6
    <3>4. Tallies(m, f, es)
      BY <2>2, <2>4, <2>6, <2>9, <3>1, <3>2, <3>3 DEF Tallies, Enters, exits, o
    <3> QED
      BY <3>4
  <2>10. CASE Enters(gs) /\ state' = "PROROGUED"
    <3>1. Len(gs) > Len(exits) /\ gs[1] = o
      BY <2>5, <2>6, <2>7
    <3>2. \A i \in DOMAIN exits : i + 1 \in DOMAIN gs /\ gs[i + 1] = exits[i]
      BY <2>5, <2>6, <2>7
    <3>3. \A k \in DOMAIN gs : k = 1 \/ k = 2 + Len(exits) \/ k - 1 \in DOMAIN exits
      BY <2>5, <2>6, <2>7
    <3>4. \A k \in DOMAIN gs : \/ k = 1 \/ gs[k].type = "SESSION_TIMEOUT"
                               \/ k - 1 \in DOMAIN exits
      BY <2>3, <2>7, <3>3
    <3>5. Tallies(m, f, gs)
      BY <2>2, <2>4, <2>7, <2>10, <3>1, <3>2, <3>4 DEF Tallies, Enters, exits, o
    <3> QED
      BY <3>5
  <2> QED
    BY <2>8, <2>9, <2>10
<1> QED
  BY <1>3, <1>4, <1>5, <1>6 DEF DivisionNext

-----------------------------------------------------------------------------
\* Of the entries of a tally, exits alone bear on the seats, and its first is the outcome.
LEMMA TallySays ==
  ASSUME hansard \in Seq(Entry), NEW m \in Motions, NEW f, NEW es, Tallies(m, f, es)
  PROVE  /\ \A k \in DOMAIN es : es[k].type # "ACTOR_HIRED"
         /\ es[1].type \in Outcomes /\ es[1].motion = m /\ 1 \in DOMAIN es
         /\ \A k \in DOMAIN es : k # 1 => es[k].type \notin Outcomes
         /\ \A a : Unseats(es, a) <=> Unseats(DarwinistExits(hansard, f), a)
         /\ \A i \in DOMAIN DarwinistExits(hansard, f) :
              DarwinistExits(hansard, f)[i].type = "ACTOR_EXITED"
<1> DEFINE exits == DarwinistExits(hansard, f)
<1>1. \A i \in DOMAIN exits : exits[i].type = "ACTOR_EXITED"
  BY DEF DarwinistExits, Exited
<1> HIDE DEF exits
<1>2. /\ es \in Seq(Entry) /\ exits \in Seq(Entry) /\ Len(es) > Len(exits)
      /\ es[1] = Outcome(hansard, m)
      /\ \A i \in DOMAIN exits : i + 1 \in DOMAIN es /\ es[i + 1] = exits[i]
      /\ \A k \in DOMAIN es : k = 1 \/ es[k].type = "SESSION_TIMEOUT" \/ k - 1 \in DOMAIN exits
  BY DEF Tallies, exits
<1>3. /\ DOMAIN es = 1..Len(es) /\ DOMAIN exits = 1..Len(exits)
      /\ Len(es) \in Nat /\ Len(exits) \in Nat
  BY <1>2
<1>4. es[1].type \in Outcomes /\ es[1].motion = m /\ 1 \in DOMAIN es
  BY <1>2, <1>3 DEF Outcome, OnMotion, Outcomes
<1>5. ASSUME NEW k \in DOMAIN es, k # 1
      PROVE  \/ es[k].type = "SESSION_TIMEOUT"
             \/ k - 1 \in DOMAIN exits /\ es[k] = exits[k - 1] /\ es[k].type = "ACTOR_EXITED"
  <2>1. CASE k - 1 \in DOMAIN exits
    <3>1. (k - 1) + 1 = k
      BY <1>3
    <3> QED
      BY <1>1, <1>2, <2>1, <3>1
  <2> QED
    BY <1>2, <1>5, <2>1
<1>6. /\ \A k \in DOMAIN es : es[k].type # "ACTOR_HIRED"
      /\ \A k \in DOMAIN es : k # 1 => es[k].type \notin Outcomes
  BY <1>4, <1>5 DEF Outcomes
<1>7. ASSUME NEW a PROVE Unseats(es, a) <=> Unseats(exits, a)
  <2>1. Unseats(exits, a) => Unseats(es, a)
    BY <1>2 DEF Unseats
  <2>2. ASSUME NEW k \in DOMAIN es, es[k].type = "ACTOR_EXITED", es[k].subject = a
        PROVE  Unseats(exits, a)
    <3>1. k # 1
      BY <1>4, <2>2 DEF Outcomes
    <3>2. k - 1 \in DOMAIN exits /\ es[k] = exits[k - 1]
      BY <1>5, <2>2, <3>1
    <3> QED
      BY <2>2, <3>2 DEF Unseats
  <2> QED
    BY <2>1, <2>2 DEF Unseats
<1> QED
  BY <1>1, <1>4, <1>6, <1>7 DEF exits

\* Nothing was carried before anything was recorded.
CarriedLater == \A k \in DOMAIN hansard : hansard[k].type = "MOTION_CARRIED" => k # 1
TimelyInv == charter \in Charters /\ hansard \in Seq(Entry) /\ CarriedLater /\ EndsOnTime

LEMMA LongerByStep ==
  ASSUME hansard \in Seq(Entry), NEW es \in Seq(Entry), hansard' = hansard \o es
  PROVE  /\ hansard' \in Seq(Entry) /\ Len(hansard) \in Nat
         /\ DOMAIN hansard = 1..Len(hansard) /\ DOMAIN es = 1..Len(es)
         /\ \A k \in DOMAIN hansard : k \in DOMAIN hansard' /\ hansard'[k] = hansard[k]
         /\ \A i \in DOMAIN es : Len(hansard) + i \in DOMAIN hansard'
                                 /\ hansard'[Len(hansard) + i] = es[i]
         /\ \A k \in DOMAIN hansard' : \/ k \in DOMAIN hansard
                                       \/ \E i \in DOMAIN es : k = Len(hansard) + i
<1>1. Len(hansard) \in Nat /\ Len(es) \in Nat
  OBVIOUS
<1>2. /\ DOMAIN hansard' = 1..(Len(hansard) + Len(es)) /\ hansard' \in Seq(Entry)
      /\ DOMAIN hansard = 1..Len(hansard) /\ DOMAIN es = 1..Len(es)
      /\ \A k \in 1..Len(hansard) : hansard'[k] = hansard[k]
      /\ \A k \in 1..Len(es) : hansard'[Len(hansard) + k] = es[k]
      /\ \A k \in 1..(Len(hansard) + Len(es)) :
           k \in 1..Len(hansard) \/ (\E i \in 1..Len(es) : k = Len(hansard) + i)
  BY Concatenated
<1>3. \A k \in 1..Len(hansard) : k \in 1..(Len(hansard) + Len(es))
  BY <1>1
<1>4. \A k \in 1..Len(es) : Len(hansard) + k \in 1..(Len(hansard) + Len(es))
  BY <1>1
<1> QED
  BY <1>1, <1>2, <1>3, <1>4

\* What the two halves of the property ask for.
Emptied ==
  /\ charter.termination = "last-standing"
  /\ \E a \in Actors : HasExited(hansard, a)
  /\ LastStanding(hansard)
CarriedAt(k) == hansard[k].type = "MOTION_CARRIED" /\ ~CastingVote(k - 1)

LEMMA TimelyStep ==
  ASSUME TimelyInv, DivisionNext
  PROVE  TimelyInv'
<1>1. /\ charter \in Charters /\ hansard \in Seq(Entry) /\ CarriedLater
      /\ Emptied => state = "PROROGUED"
      /\ (charter.termination = "verdict" /\ \E k \in DOMAIN hansard : CarriedAt(k)) =>
           state = "PROROGUED"
  BY DEF TimelyInv, EndsOnTime, Emptied, CarriedAt
<1>2. /\ charter' \in Charters /\ hansard' \in Seq(Entry) /\ CarriedLater'
      /\ Emptied' => state' = "PROROGUED"
      /\ (charter'.termination = "verdict" /\ \E k \in DOMAIN hansard' : CarriedAt(k)') =>
           state' = "PROROGUED"
      => TimelyInv'
  BY DEF TimelyInv, EndsOnTime, Emptied, CarriedAt
<1>3. ASSUME NEW es \in Seq(Entry), hansard' = hansard \o es,
             NEW k \in DOMAIN hansard, CarriedAt(k)'
      PROVE  CarriedAt(k)
  <2>1. hansard'[k] = hansard[k] /\ k \in 1..Len(hansard) /\ Len(hansard) \in Nat
    BY <1>1, <1>3, LongerByStep
  <2>2. k # 1
    BY <1>1, <1>3, <2>1 DEF CarriedAt, CarriedLater
  <2>3. k - 1 \in DOMAIN hansard
    BY <1>1, <2>1, <2>2
  <2>4. hansard'[k - 1] = hansard[k - 1]
    BY <1>1, <1>3, <2>3, LongerByStep
  <2> QED
    BY <1>3, <2>1, <2>4 DEF CarriedAt, CastingVote
<1>4. ASSUME NEW es \in Seq(Entry), hansard' = hansard \o es,
             \A k \in DOMAIN es : es[k].type \notin {"ACTOR_HIRED", "ACTOR_EXITED"},
             charter' = charter, Emptied'
      PROVE  Emptied
  <2>1. \A a : ~Unseats(es, a)
    BY <1>4 DEF Unseats
  <2>2. \A a : /\ Seated(hansard', a) <=> Seated(hansard, a)
               /\ HasExited(hansard', a) <=> HasExited(hansard, a)
    BY <1>1, <1>4, <2>1, SeatedAfter
  <2>3. {a \in Actors : Seated(hansard', a)} = {a \in Actors : Seated(hansard, a)}
    BY <2>2
  <2> QED
    BY <1>4, <2>2, <2>3 DEF Emptied, LastStanding
<1>5. ASSUME NEW es, Quietly(es)
      PROVE  TimelyInv'
  <2>1. /\ es \in Seq(Entry) /\ hansard' = hansard \o es /\ charter' = charter
        /\ \A k \in DOMAIN es : /\ es[k].type \notin {"ACTOR_HIRED", "ACTOR_EXITED"}
                                /\ es[k].type # "MOTION_CARRIED"
        /\ state = "PROROGUED" => state' = "PROROGUED"
    BY <1>5 DEF Quietly, Outcomes
  <2>2. hansard' \in Seq(Entry) /\ charter' \in Charters
    BY <1>1, <2>1, LongerByStep
  <2>3. \A k \in DOMAIN hansard' : hansard'[k].type = "MOTION_CARRIED" =>
          k \in DOMAIN hansard /\ hansard'[k] = hansard[k]
    BY <1>1, <2>1, LongerByStep
  <2>4. CarriedLater'
    BY <1>1, <2>3 DEF CarriedLater
  <2>5. \A k \in DOMAIN hansard' : CarriedAt(k)' => k \in DOMAIN hansard /\ CarriedAt(k)
    BY <1>3, <2>1, <2>3 DEF CarriedAt
  <2>6. Emptied' => Emptied
    BY <1>4, <2>1
  <2> QED
    BY <1>1, <1>2, <2>1, <2>2, <2>4, <2>5, <2>6
<1>6. ASSUME NEW e, NEW o, BreaksTie(e, o)
      PROVE  TimelyInv'
  <2> DEFINE es == <<e, o>>
  <2>1. /\ e \in Entry /\ e.type = "VOTE_CAST" /\ e.casting /\ o \in Entry /\ o.type \in Outcomes
        /\ hansard' = hansard \o es /\ charter' = charter /\ state # "PROROGUED"
    BY <1>6 DEF BreaksTie, IsSuspendedFor
  <2>2. es \in Seq(Entry) /\ DOMAIN es = {1, 2} /\ es[1] = e /\ es[2] = o
    BY <2>1
  <2> HIDE DEF es
  <2>3. hansard' \in Seq(Entry) /\ charter' \in Charters /\ Len(hansard) \in Nat
    BY <1>1, <2>1, <2>2, LongerByStep
  <2>4. hansard'[Len(hansard) + 1] = e
    BY <1>1, <2>1, <2>2, LongerByStep
  <2>5. ASSUME NEW k \in DOMAIN hansard', hansard'[k].type = "MOTION_CARRIED", k \notin DOMAIN hansard
        PROVE  k = Len(hansard) + 2
    <3>1. PICK i \in DOMAIN es : k = Len(hansard) + i
      BY <1>1, <2>1, <2>2, <2>5, LongerByStep
    <3>2. hansard'[k] = es[i]
      BY <1>1, <2>1, <2>2, <3>1, LongerByStep
    <3> QED
      BY <2>1, <2>2, <2>5, <3>1, <3>2
  <2>6. CarriedLater'
    <3>1. \A k \in DOMAIN hansard : hansard'[k] = hansard[k]
      BY <1>1, <2>1, <2>2, LongerByStep
    <3> QED
      BY <1>1, <2>3, <2>5, <3>1 DEF CarriedLater
  <2>7. ASSUME NEW k \in DOMAIN hansard', CarriedAt(k)'
        PROVE  k \in DOMAIN hansard /\ CarriedAt(k)
    <3>1. k \in DOMAIN hansard
      <4>1. SUFFICES ASSUME k \notin DOMAIN hansard PROVE FALSE
        OBVIOUS
      <4>2. k = Len(hansard) + 2
        BY <2>5, <2>7, <4>1 DEF CarriedAt
      <4>3. k - 1 = Len(hansard) + 1
        BY <2>3, <4>2
      <4> QED
        BY <2>1, <2>4, <2>7, <4>3 DEF CarriedAt, CastingVote
    <3> QED
      BY <1>3, <2>1, <2>2, <2>7, <3>1
  <2>8. Emptied' => Emptied
    <3>1. \A k \in DOMAIN es : es[k].type \notin {"ACTOR_HIRED", "ACTOR_EXITED"}
      BY <2>1, <2>2 DEF Outcomes
    <3> QED
      BY <1>4, <2>1, <2>2, <3>1
  <2> QED
    BY <1>1, <1>2, <2>1, <2>3, <2>6, <2>7, <2>8
<1>7. ASSUME NEW m \in Motions, NEW f, NEW es, Tallies(m, f, es)
      PROVE  TimelyInv'
  <2> DEFINE exits == DarwinistExits(hansard, f)
  <2>1. /\ es \in Seq(Entry) /\ exits \in Seq(Entry) /\ hansard' = hansard \o es
        /\ charter' = charter /\ es[1] = Outcome(hansard, m)
        /\ \/ ~Seals(hansard, m, exits) /\ state' = state
           \/ state' = "PROROGUED"
    BY <1>7 DEF Tallies
  <2>2. /\ \A k \in DOMAIN es : es[k].type # "ACTOR_HIRED"
        /\ \A k \in DOMAIN es : k # 1 => es[k].type \notin Outcomes
        /\ \A a : Unseats(es, a) <=> Unseats(exits, a)
        /\ \A i \in DOMAIN exits : exits[i].type = "ACTOR_EXITED"
    BY <1>1, <1>7, TallySays
  <2> HIDE DEF exits
  <2>3. hansard' \in Seq(Entry) /\ charter' \in Charters /\ Len(hansard) \in Nat
    BY <1>1, <2>1, LongerByStep
  <2>4. Len(hansard) > 0
    <3>1. DOMAIN hansard # {}
      BY <1>7 DEF Tallies, Open, divisionCalled, OnRecord
    <3> QED
      BY <1>1, <3>1
  <2>5. ASSUME NEW k \in DOMAIN hansard', hansard'[k].type = "MOTION_CARRIED", k \notin DOMAIN hansard
        PROVE  k = Len(hansard) + 1 /\ Outcome(hansard, m).type = "MOTION_CARRIED"
    <3>1. PICK i \in DOMAIN es : k = Len(hansard) + i /\ hansard'[k] = es[i]
      BY <1>1, <2>1, <2>5, LongerByStep
    <3> QED
      BY <2>1, <2>2, <2>5, <3>1 DEF Outcomes
  <2>6. CarriedLater'
    <3>1. \A k \in DOMAIN hansard : hansard'[k] = hansard[k]
      BY <1>1, <2>1, LongerByStep
    <3> QED
      BY <1>1, <2>3, <2>4, <2>5, <3>1 DEF CarriedLater
  <2>7. ASSUME NEW k \in DOMAIN hansard', CarriedAt(k)', charter'.termination = "verdict"
        PROVE  state' = "PROROGUED"
    <3>1. CASE k \in DOMAIN hansard
      BY <1>1, <1>3, <2>1, <2>7, <3>1
    <3>2. CASE k \notin DOMAIN hansard
      <4>1. Outcome(hansard, m).type = "MOTION_CARRIED"
        BY <2>5, <2>7, <3>2 DEF CarriedAt
      <4>2. Carries(hansard, m, charter.quorum, charter.resolution)
        BY <4>1 DEF Outcome, OnMotion
      <4> QED
        BY <2>1, <2>7, <4>2 DEF Seals
    <3> QED
      BY <3>1, <3>2
  <2>8. ASSUME Emptied' PROVE state' = "PROROGUED"
    <3>1. CASE exits = <<>>
      <4>1. \A a : ~Unseats(es, a)
        BY <2>2, <3>1 DEF Unseats
      <4>2. \A a : /\ Seated(hansard', a) <=> Seated(hansard, a)
                   /\ HasExited(hansard', a) <=> HasExited(hansard, a)
        BY <1>1, <2>1, <2>2, <4>1, SeatedAfter
      <4>3. {a \in Actors : Seated(hansard', a)} = {a \in Actors : Seated(hansard, a)}
        BY <4>2
      <4>4. Emptied
        BY <2>1, <2>8, <4>2, <4>3 DEF Emptied, LastStanding
      <4> QED
        BY <1>1, <2>1, <4>4
    <3>2. CASE exits # <<>>
      <4>1. \A a : Seated(hansard', a) <=> Seated(hansard \o exits, a)
        <5>1. \A a : Seated(hansard', a) <=> Seated(hansard, a) /\ ~Unseats(es, a)
          BY <1>1, <2>1, <2>2, SeatedAfter
        <5>2. \A a : Seated(hansard \o exits, a) <=> Seated(hansard, a) /\ ~Unseats(exits, a)
          BY <1>1, <2>1, <2>2, SeatedAfter
        <5> QED
          BY <2>2, <5>1, <5>2
      <4>2. {a \in Actors : Seated(hansard', a)} = {a \in Actors : Seated(hansard \o exits, a)}
        BY <4>1
      <4>3. LastStanding(hansard \o exits) /\ charter.termination = "last-standing"
        BY <2>1, <2>8, <4>2 DEF Emptied, LastStanding
      <4> QED
        BY <2>1, <3>2, <4>3 DEF Seals
    <3> QED
      BY <3>1, <3>2
  <2> QED
    BY <1>2, <2>3, <2>6, <2>7, <2>8
<1> QED
  BY <1>1, <1>5, <1>6, <1>7, DivisionActs

LEMMA TimelyInit == SeatsTaken => TimelyInv
<1> SUFFICES ASSUME SeatsTaken PROVE TimelyInv
  OBVIOUS
<1>1. \A k \in DOMAIN hansard : hansard[k].type \in {"WRIT_DROP"} \cup SeatTypes
  BY DEF SeatsTaken
<1>2. \A k \in DOMAIN hansard : hansard[k].type \notin {"MOTION_CARRIED", "ACTOR_EXITED"}
  BY <1>1 DEF SeatTypes
<1> QED
  BY <1>2 DEF TimelyInv, SeatsTaken, CarriedLater, EndsOnTime, HasExited, About

\* Whoever takes a seat and under whatever Charter, Divisions that nobody joins or leaves
\* end the sitting when they should: not one that is over goes on (cmdDivision's tally,
\* ADR-0007 termination).
THEOREM SittingEndsOnTime == DivisionSpec => []EndsOnTime
<1>1. TimelyInv /\ UNCHANGED vars => TimelyInv'
  BY DEF TimelyInv, CarriedLater, EndsOnTime, CastingVote, vars
<1>2. TimelyInv /\ [DivisionNext]_vars => TimelyInv'
  BY <1>1, TimelyStep
<1>3. TimelyInv => EndsOnTime
  BY DEF TimelyInv
<1> QED
  BY <1>2, <1>3, TimelyInit, PTL DEF DivisionSpec

-----------------------------------------------------------------------------
\* A step of a Division that enters nothing about seats.
LEMMA NobodyUnseated ==
  ASSUME hansard \in Seq(Entry), NEW es \in Seq(Entry), hansard' = hansard \o es,
         \A k \in DOMAIN es : es[k].type \notin {"ACTOR_HIRED", "ACTOR_EXITED"}
  PROVE  /\ SeatedActors' = SeatedActors
         /\ Cardinality({k \in DOMAIN hansard' \ DOMAIN hansard :
                           hansard'[k].type = "ACTOR_EXITED"}) = 0
<1>1. \A a : ~Unseats(es, a)
  BY DEF Unseats
<1>2. \A a : Seated(hansard', a) <=> Seated(hansard, a)
  BY <1>1, SeatedAfter
<1>3. SeatedActors' = SeatedActors
  BY <1>2 DEF SeatedActors
<1>4. \A k \in DOMAIN hansard' \ DOMAIN hansard : hansard'[k].type # "ACTOR_EXITED"
  <2>1. \A i \in DOMAIN es : hansard'[Len(hansard) + i] = es[i]
    BY LongerByStep
  <2>2. \A k \in DOMAIN hansard' \ DOMAIN hansard : \E i \in DOMAIN es : k = Len(hansard) + i
    BY LongerByStep
  <2> QED
    BY <2>1, <2>2
<1> DEFINE X == {k \in DOMAIN hansard' \ DOMAIN hansard : hansard'[k].type = "ACTOR_EXITED"}
<1>5. X = {}
  BY <1>4
<1> HIDE DEF X
<1>6. Cardinality(X) = 0
  BY <1>5, FS_EmptySet
<1> QED
  BY <1>3, <1>6 DEF X

\* Every voter of the smaller side who sits is turned out, each by one exit.
LEMMA CullTurnsOut ==
  ASSUME Inv, DueInv, NEW m \in Motions, NEW f, NEW es, Tallies(m, f, es)
  PROVE  LET K == Culled(hansard, m, charter.exit)
             exits == DarwinistExits(hansard, f)
             out == {hansard[k].actor : k \in K}
         IN /\ \A a : Unseats(exits, a) <=> a \in out
            /\ SeatedActors' = SeatedActors \ out /\ out \subseteq SeatedActors
            /\ Len(exits) = Cardinality(out) /\ IsFiniteSet(out)
<1> DEFINE K == Culled(hansard, m, charter.exit)
           exits == DarwinistExits(hansard, f)
           out == {hansard[k].actor : k \in K}
           n == Cardinality(K)
<1>1. /\ hansard \in Seq(Entry) /\ es \in Seq(Entry) /\ exits \in Seq(Entry)
      /\ hansard' = hansard \o es /\ f \in InOrder(K) /\ Open(m)
  BY DEF Inv, WellFormed, TypeOK, Tallies
<1>2. K \subseteq votesFor(hansard, m) /\ \A k \in K : Seated(hansard, hansard[k].actor)
  BY DEF Culled
<1>3. K \in SUBSET (1..Len(hansard)) /\ Len(hansard) \in Nat
  BY <1>1, <1>2 DEF votesFor
<1>4. IsFiniteSet(K) /\ n \in Nat
  <2>1. IsFiniteSet(1..Len(hansard))
    BY <1>3, FS_Interval
  <2> HIDE DEF K
  <2> QED
    BY <1>3, <2>1, FS_Subset, FS_CardinalityType
<1>5. \A k \in K : hansard[k].actor \in Actors
  <2>1. ASSUME NEW k \in K PROVE hansard[k].actor \in Actors
    <3>1. hansard[k] \in Entry /\ hansard[k].type = "VOTE_CAST"
      BY <1>1, <1>2, <1>3 DEF votesFor
    <3> QED
      BY <3>1, EntryFields
  <2> QED
    BY <2>1
<1>6. f \in [1..n -> K] /\ \A i, j \in 1..n : i < j => f[i] < f[j]
  BY <1>1 DEF InOrder
<1>7. /\ DOMAIN f = 1..n /\ DOMAIN exits = 1..n
      /\ \A i \in 1..n : exits[i].type = "ACTOR_EXITED" /\ exits[i].subject = hansard[f[i]].actor
  BY <1>6 DEF DarwinistExits, Exited
<1>8. \A i, j \in 1..n : i < j => hansard[f[i]].actor # hansard[f[j]].actor
  <2>1. ASSUME NEW i \in 1..n, NEW j \in 1..n, i < j
        PROVE  hansard[f[i]].actor # hansard[f[j]].actor
    <3>1. i \in DOMAIN f /\ j \in DOMAIN f
      BY <1>7
    <3> QED
      BY <1>1, <2>1, <3>1, NobodyIsCulledTwice
  <2> QED
    BY <2>1
<1> DEFINE who == [i \in 1..n |-> hansard[f[i]].actor]
<1> HIDE DEF K, n, exits
<1>9. \A i \in 1..n : f[i] \in K /\ f[i] \in Nat
  <2>1. \A k \in K : k \in Nat
    BY <1>3
  <2> QED
    BY <1>6, <2>1
<1>10. \A i, j \in 1..n : f[i] = f[j] => i = j
  <2>1. ASSUME NEW i \in 1..n, NEW j \in 1..n, i < j PROVE f[i] # f[j]
    <3>1. f[i] < f[j] /\ f[i] \in Nat
      BY <1>6, <1>9, <2>1
    <3> QED
      BY <3>1
  <2>2. ASSUME NEW i \in 1..n, NEW j \in 1..n, i # j PROVE i < j \/ j < i
    BY <1>4, <2>2
  <2> QED
    BY <2>1, <2>2
<1>11. f \in Injection(1..n, K)
  BY <1>6, <1>10 DEF Injection, IsInjective
<1>12. IsFiniteSet(1..n) /\ Cardinality(1..n) = n
  BY <1>4, FS_Interval
<1>13. f \in Surjection(1..n, K)
  BY <1>4, <1>11, <1>12, FS_Injection DEF n
<1>14. \A k \in K : \E i \in 1..n : f[i] = k
  BY <1>13 DEF Surjection
<1>15. \A a : Unseats(exits, a) <=> a \in out
  <2>1. \A a : Unseats(exits, a) => a \in out
    BY <1>7, <1>9 DEF Unseats
  <2>2. ASSUME NEW k \in K PROVE Unseats(exits, hansard[k].actor)
    <3>1. PICK i \in 1..n : f[i] = k
      BY <1>14
    <3> QED
      BY <1>7, <3>1 DEF Unseats
  <2> QED
    BY <2>1, <2>2
<1>16. \A a : Unseats(es, a) <=> a \in out
  <2>1. \A a : Unseats(es, a) <=> Unseats(exits, a)
    BY <1>1, TallySays DEF exits
  <2> HIDE DEF out
  <2> QED
    BY <1>15, <2>1
<1>17. out \subseteq SeatedActors
  BY <1>2, <1>5 DEF SeatedActors
<1>18. SeatedActors' = SeatedActors \ out
  <2>1. \A k \in DOMAIN es : es[k].type # "ACTOR_HIRED"
    BY <1>1, TallySays
  <2> HIDE DEF out
  <2>2. \A a : Seated(hansard', a) <=> Seated(hansard, a) /\ a \notin out
    BY <1>1, <1>16, <2>1, SeatedAfter
  <2> QED
    BY <2>2 DEF SeatedActors
<1>19. who \in Bijection(1..n, out)
  <2>1. ASSUME NEW i \in 1..n, NEW j \in 1..n, who[i] = who[j] PROVE i = j
    <3>1. ~(i < j) /\ ~(j < i)
      BY <1>8, <2>1
    <3> QED
      BY <1>4, <3>1
  <2>2. who \in [1..n -> out]
    BY <1>9
  <2>3. \A x \in out : \E i \in 1..n : who[i] = x
    BY <1>14
  <2> HIDE DEF who, out
  <2> QED
    BY <2>1, <2>2, <2>3 DEF Bijection, Injection, Surjection, IsInjective
<1>20. IsFiniteSet(out) /\ Cardinality(out) = n
  <2> HIDE DEF who, out
  <2>1. ExistsBijection(1..n, out)
    BY <1>19 DEF ExistsBijection
  <2> QED
    BY <1>12, <2>1, FS_Bijection
<1>21. Len(exits) = n
  BY <1>1, <1>4, <1>7
<1> QED
  BY <1>15, <1>17, <1>18, <1>20, <1>21 DEF K, exits

-----------------------------------------------------------------------------
\* The exits on the record after a tally are as many as its cull.
LEMMA ExitsEntered ==
  ASSUME hansard \in Seq(Entry), NEW m \in Motions, NEW f, NEW es, Tallies(m, f, es)
  PROVE  Cardinality({k \in DOMAIN hansard' \ DOMAIN hansard :
                        hansard'[k].type = "ACTOR_EXITED"}) = Len(DarwinistExits(hansard, f))
<1> DEFINE exits == DarwinistExits(hansard, f)
           N == Len(exits)
           X == {k \in DOMAIN hansard' \ DOMAIN hansard : hansard'[k].type = "ACTOR_EXITED"}
           L == Len(hansard)
           place == [i \in 1..N |-> L + 1 + i]
<1>1. \A i \in DOMAIN exits : exits[i].type = "ACTOR_EXITED"
  BY TallySays
<1> HIDE DEF exits
<1>2. /\ es \in Seq(Entry) /\ exits \in Seq(Entry) /\ hansard' = hansard \o es
      /\ es[1] = Outcome(hansard, m)
      /\ \A i \in DOMAIN exits : i + 1 \in DOMAIN es /\ es[i + 1] = exits[i]
      /\ \A k \in DOMAIN es : k = 1 \/ es[k].type = "SESSION_TIMEOUT" \/ k - 1 \in DOMAIN exits
  BY DEF Tallies, exits
<1>3. /\ N \in Nat /\ L \in Nat /\ DOMAIN exits = 1..N /\ DOMAIN hansard = 1..L
      /\ DOMAIN es = 1..Len(es) /\ Len(es) \in Nat
      /\ \A i \in DOMAIN es : L + i \in DOMAIN hansard' /\ hansard'[L + i] = es[i]
      /\ \A k \in DOMAIN hansard' : k \in DOMAIN hansard \/ \E i \in DOMAIN es : k = L + i
  <2>1. /\ N \in Nat /\ DOMAIN exits = 1..N /\ Len(es) \in Nat
    BY <1>2
  <2>2. L \in Nat /\ DOMAIN hansard = 1..L /\ DOMAIN es = 1..Len(es)
    BY <1>2, LongerByStep
  <2>3. \A i \in DOMAIN es : L + i \in DOMAIN hansard' /\ hansard'[L + i] = es[i]
    BY <1>2, LongerByStep
  <2>4. \A k \in DOMAIN hansard' : k \in DOMAIN hansard \/ \E i \in DOMAIN es : k = L + i
    BY <1>2, LongerByStep
  <2> QED
    BY <2>1, <2>2, <2>3, <2>4
<1>4. es[1].type # "ACTOR_EXITED"
  BY <1>2 DEF Outcome, OnMotion
<1> HIDE DEF N, L
<1>5. ASSUME NEW i \in 1..N PROVE place[i] \in X /\ place[i] = L + 1 + i
  <2>1. i + 1 \in DOMAIN es /\ es[i + 1].type = "ACTOR_EXITED" /\ L + 1 + i = L + (i + 1)
    <3>1. i \in DOMAIN exits /\ L + 1 + i = L + (i + 1)
      BY <1>3
    <3> QED
      BY <1>1, <1>2, <3>1
  <2>2. L + 1 + i \in DOMAIN hansard' /\ hansard'[L + 1 + i] = es[i + 1]
    BY <1>3, <2>1
  <2>3. L + 1 + i \notin DOMAIN hansard
    BY <1>3
  <2> QED
    BY <2>1, <2>2, <2>3
<1>6. ASSUME NEW k \in X PROVE \E i \in 1..N : place[i] = k
  <2>1. PICK j \in DOMAIN es : k = L + j
    BY <1>3
  <2>2. es[j].type = "ACTOR_EXITED"
    BY <1>3, <2>1
  <2>3. j - 1 \in 1..N
    BY <1>2, <1>3, <1>4, <2>2
  <2>4. L + 1 + (j - 1) = k
    BY <1>3, <2>1
  <2> QED
    BY <2>3, <2>4
<1>7. \A i, j \in 1..N : place[i] = place[j] => i = j
  BY <1>3
<1>8. place \in [1..N -> X]
  BY <1>5
<1> HIDE DEF place, X
<1>9. place \in Bijection(1..N, X)
  BY <1>6, <1>7, <1>8 DEF Bijection, Injection, Surjection, IsInjective
<1>10. ExistsBijection(1..N, X)
  BY <1>9 DEF ExistsBijection
<1>11. IsFiniteSet(1..N) /\ Cardinality(1..N) = N
  BY <1>3, FS_Interval
<1>12. Cardinality(X) = N
  BY <1>10, <1>11, FS_Bijection
<1> QED
  BY <1>12 DEF X, N, exits

\* Of those who sit, the smaller side is whom an elimination culls.
LEMMA MinorityIsCulled ==
  ASSUME hansard \in Seq(Entry), NEW m \in Motions, NEW a \in SeatedActors
  PROVE  a \in Minority(m) <=> a \in {hansard[k].actor : k \in Culled(hansard, m, "elimination")}
<1>1. ASSUME NEW v PROVE Count(hansard, m, v) \in Nat
  <2> DEFINE C == {k \in votesFor(hansard, m) : hansard[k].vote = v}
  <2>1. C \in SUBSET (1..Len(hansard)) /\ IsFiniteSet(1..Len(hansard))
    <3>1. Len(hansard) \in Nat /\ DOMAIN hansard = 1..Len(hansard)
      OBVIOUS
    <3> QED
      BY <3>1, FS_Interval DEF votesFor
  <2> HIDE DEF C
  <2>2. Cardinality(C) \in Nat
    BY <2>1, FS_Subset, FS_CardinalityType
  <2> QED
    BY <2>2 DEF Count, C
<1>2. Count(hansard, m, "AYE") \in Nat /\ Count(hansard, m, "NO") \in Nat
  BY <1>1
<1>3. \A v : v \in LosingSide(hansard, m) <=>
        /\ v \in {"AYE", "NO"}
        /\ \E w \in {"AYE", "NO"} : Count(hansard, m, v) < Count(hansard, m, w)
  BY <1>2 DEF LosingSide
<1>4. a \in Actors /\ Seated(hansard, a)
  BY DEF SeatedActors
<1>5. a \in Minority(m) <=>
        \E k \in votesFor(hansard, m) :
          hansard[k].actor = a /\ hansard[k].vote \in LosingSide(hansard, m)
  <2> HIDE DEF Count, LosingSide
  <2>1. ASSUME a \in Minority(m)
        PROVE  \E k \in votesFor(hansard, m) :
                 hansard[k].actor = a /\ hansard[k].vote \in LosingSide(hansard, m)
    BY <1>3, <2>1 DEF Minority
  <2>2. ASSUME NEW k \in votesFor(hansard, m), hansard[k].actor = a,
               hansard[k].vote \in LosingSide(hansard, m)
        PROVE  a \in Minority(m)
    BY <1>3, <1>4, <2>2 DEF Minority
  <2> QED
    BY <2>1, <2>2
<1>6. Culled(hansard, m, "elimination") =
        {k \in votesFor(hansard, m) :
           hansard[k].vote \in LosingSide(hansard, m) /\ Seated(hansard, hansard[k].actor)}
  BY DEF Culled
<1> QED
  BY <1>4, <1>5, <1>6

LEMMA CullingStep ==
  ASSUME Inv, DueInv, DivisionNext
  PROVE  CullStep
<1> DEFINE culling(m) == charter.exit = "elimination" /\ TallyDecides(m)
           X == {k \in DOMAIN hansard' \ DOMAIN hansard : hansard'[k].type = "ACTOR_EXITED"}
<1>1. hansard \in Seq(Entry)
  BY DEF Inv, WellFormed, TypeOK
<1>2. ASSUME \A m \in Motions : ~culling(m), SeatedActors' = SeatedActors, Cardinality(X) = 0
      PROVE  CullStep
  <2>1. Cardinality(SeatedActors \ SeatedActors') = 0
    <3>1. SeatedActors \ SeatedActors' = {}
      BY <1>2
    <3> QED
      BY <3>1, FS_EmptySet
  <2> QED
    BY <1>2, <2>1 DEF CullStep
<1>3. ASSUME NEW es \in Seq(Entry), hansard' = hansard \o es, NEW m \in Motions,
             TallyDecides(m)
      PROVE  1 \in DOMAIN es /\ es[1].type \in Outcomes /\ es[1].motion = m
  <2>1. /\ Len(hansard) + 1 \in DOMAIN hansard' /\ Len(hansard) + 1 \notin DOMAIN hansard
        /\ hansard'[Len(hansard) + 1].type \in Outcomes
        /\ hansard'[Len(hansard) + 1].motion = m
    BY <1>1, <1>3 DEF TallyDecides, OnMotion
  <2>2. PICK k \in DOMAIN es : Len(hansard) + 1 = Len(hansard) + k
    BY <1>1, <1>3, <2>1, LongerByStep
  <2>3. k = 1
    BY <1>1, <2>2
  <2>4. hansard'[Len(hansard) + 1] = es[1]
    BY <1>1, <1>3, <2>2, <2>3, LongerByStep
  <2> QED
    BY <2>1, <2>2, <2>3, <2>4
<1>4. ASSUME NEW es, Quietly(es)
      PROVE  CullStep
  <2>1. /\ es \in Seq(Entry) /\ hansard' = hansard \o es
        /\ \A k \in DOMAIN es : /\ es[k].type \notin {"ACTOR_HIRED", "ACTOR_EXITED"}
                                /\ es[k].type \notin Outcomes
    BY <1>4 DEF Quietly
  <2>2. \A m \in Motions : ~culling(m)
    BY <1>3, <2>1 DEF TallyDecides
  <2>3. SeatedActors' = SeatedActors /\ Cardinality(X) = 0
    BY <1>1, <2>1, NobodyUnseated
  <2> QED
    BY <1>2, <2>2, <2>3
<1>5. ASSUME NEW e, NEW o, BreaksTie(e, o)
      PROVE  CullStep
  <2> DEFINE es == <<e, o>>
  <2>1. /\ e \in Entry /\ e.type = "VOTE_CAST" /\ o \in Entry /\ o.type \in Outcomes
        /\ hansard' = hansard \o es /\ IsSuspendedFor("DEADLOCK")
    BY <1>5 DEF BreaksTie
  <2>2. es \in Seq(Entry) /\ \A k \in DOMAIN es : k \in {1, 2} /\ es[1] = e /\ es[2] = o
    BY <2>1
  <2>3. \A k \in DOMAIN es : es[k].type \notin {"ACTOR_HIRED", "ACTOR_EXITED"}
    BY <2>1, <2>2 DEF Outcomes
  <2>4. es[1].type \notin Outcomes
    BY <2>1, <2>2 DEF Outcomes
  <2> HIDE DEF es
  <2>5. SeatedActors' = SeatedActors /\ Cardinality(X) = 0
    BY <1>1, <2>1, <2>2, <2>3, NobodyUnseated
  <2>6. \A m \in Motions : ~culling(m)
    BY <1>3, <2>1, <2>2, <2>4
  <2> QED
    BY <1>2, <2>5, <2>6
<1>6. ASSUME NEW m \in Motions, NEW f, NEW es, Tallies(m, f, es)
      PROVE  CullStep
  <2> DEFINE K == Culled(hansard, m, charter.exit)
             out == {hansard[k].actor : k \in K}
             exits == DarwinistExits(hansard, f)
  <2>1. /\ SeatedActors' = SeatedActors \ out /\ out \subseteq SeatedActors
        /\ Len(exits) = Cardinality(out)
    BY <1>6, CullTurnsOut
  <2>2. Cardinality(X) = Len(exits)
    BY <1>1, <1>6, ExitsEntered
  <2>3. es \in Seq(Entry) /\ hansard' = hansard \o es /\ ~divisionDecided(hansard, m)
    BY <1>6 DEF Tallies, Open
  <2>4. /\ es[1].type \in Outcomes /\ es[1].motion = m /\ 1 \in DOMAIN es
        /\ \A k \in DOMAIN es : k # 1 => es[k].type \notin Outcomes
    BY <1>1, <1>6, TallySays
  <2>5. ASSUME NEW x \in Motions, culling(x)
        PROVE  SeatedActors' = SeatedActors \ Minority(x)
    <3>1. x = m /\ charter.exit = "elimination"
      <4>1. es[1].motion = x
        BY <1>3, <2>3, <2>5
      <4> QED
        BY <2>4, <2>5, <4>1
    <3>2. \A a \in SeatedActors : a \in Minority(m) <=> a \in out
      BY <1>1, <3>1, MinorityIsCulled
    <3> QED
      BY <2>1, <3>1, <3>2
  <2>6. ASSUME \A x \in Motions : ~culling(x)
        PROVE  SeatedActors' = SeatedActors
    <3>1. TallyDecides(m)
      <4>1. Len(hansard) + 1 \in DOMAIN hansard' /\ hansard'[Len(hansard) + 1] = es[1]
        BY <1>1, <2>3, <2>4, LongerByStep
      <4>2. es[1] = Outcome(hansard, m)
        BY <1>6 DEF Tallies
      <4> QED
        BY <4>1, <4>2 DEF TallyDecides, Outcome, Outcomes
    <3>2. charter.exit # "elimination"
      BY <2>6, <3>1
    <3>3. out = {}
      BY <3>2 DEF Culled
    <3> QED
      BY <2>1, <3>3
  <2>7. SeatedActors \ SeatedActors' = out
    BY <2>1
  <2>8. Cardinality(X) = Cardinality(SeatedActors \ SeatedActors')
    BY <2>1, <2>2, <2>7
  <2> HIDE DEF K, out, exits
  <2> QED
    BY <2>5, <2>6, <2>8 DEF CullStep
<1> QED
  BY <1>1, <1>4, <1>5, <1>6, DivisionActs

\* On any bench, under any Charter and in whatever state of the session, a tally unseats
\* exactly the voters of the smaller side who sit, each of them once, and no other step of a
\* Division, a casting vote included, unseats anyone (cull, cmdDivision).
THEOREM CullsAreExact == Spec => CullIsExact
<1>1. Inv /\ DueInv /\ [Next]_vars => [DivisionNext => CullStep]_vars
  BY CullingStep
<1> QED
  BY <1>1, InvHolds, DueInvHolds, PTL DEF CullIsExact, Spec

=============================================================================

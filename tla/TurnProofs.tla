----------------------------- MODULE TurnProofs ----------------------------
(***************************************************************************)
(* What holds of the election, and that a turn implements it: whatever the *)
(* turns of a constituency do to the session, and whatever the other       *)
(* commands do beside them, the lockfile and the standing of each turn     *)
(* behave as Election says, so that what is proved of Election holds of    *)
(* politik run.                                                            *)
(***************************************************************************)
EXTENDS Turn, HansardProofs

-----------------------------------------------------------------------------
(***************************************************************************)
(* The election.  No lockfile is left behind, whatever turns stand,        *)
(* whoever runs them and however long they last.                           *)
(***************************************************************************)
\* A lock without a holder in it is one that is being written, or whose turn died.
LockIsWritten ==
  lock \in Lockfile => \/ lock.written
                       \/ lock.by = Earlier
                       \/ step[lock.by] \in {"writing", "dead"}

LockInv == ElectionTypeOK /\ LockIsAccountedFor /\ LockIsWritten

LEMMA InitLockInv == ElectionInit => LockInv
  BY NoLockAssumption
  DEF ElectionInit, LockInv, ElectionTypeOK, LockIsAccountedFor, LockIsWritten, Lockfile, Steps

\* One step per action; a turn that leaves the lock alone must only stay in office
\* while it is the turn the lock names.
LEMMA NextLockInv == LockInv /\ [ElectionNext]_electionVars => LockInv'
<1> SUFFICES ASSUME LockInv, [ElectionNext]_electionVars
             PROVE  LockInv'
  OBVIOUS
<1> USE EarlierAssumption, NoLockAssumption
        DEF LockInv, ElectionTypeOK, LockIsAccountedFor, LockIsWritten, Lockfile,
            Steps, Standing, InOffice, Ended, GoesTo
<1>1. CASE UNCHANGED electionVars
  BY <1>1 DEF electionVars
<1>2. ASSUME NEW t \in Turns, Start(t)
      PROVE  LockInv'
  BY <1>2 DEF Start
<1>3. ASSUME NEW t \in Turns, Create(t)
      PROVE  LockInv'
  BY <1>3 DEF Create
<1>4. ASSUME NEW t \in Turns, WriteHolder(t)
      PROVE  LockInv'
  BY <1>4 DEF WriteHolder, HoldsLock
<1>5. ASSUME NEW t \in Turns, CreateFails(t)
      PROVE  LockInv'
  BY <1>5 DEF CreateFails
<1>6. ASSUME NEW t \in Turns, Inspect(t)
      PROVE  LockInv'
  BY <1>6 DEF Inspect
<1>7. ASSUME NEW t \in Turns, Reclaim(t)
      PROVE  LockInv'
  BY <1>7 DEF Reclaim
<1>8. ASSUME NEW t \in Turns, Finish(t)
      PROVE  LockInv'
  BY <1>8 DEF Finish
\* A turn that finds no lock of its actor's has none of its own: its own is written.
<1>9. ASSUME NEW t \in Turns, BowOut(t)
      PROVE  LockInv'
  BY <1>9 DEF BowOut
<1>10. ASSUME NEW t \in Turns, Release(t)
       PROVE  LockInv'
  BY <1>10 DEF Release
<1>11. ASSUME NEW t \in Turns, Dies(t)
       PROVE  LockInv'
  BY <1>11 DEF Dies
<1>12. CASE Ages
  BY <1>12 DEF Ages
<1> QED
  BY <1>1, <1>2, <1>3, <1>4, <1>5, <1>6, <1>7, <1>8, <1>9, <1>10, <1>11, <1>12
  DEF ElectionNext, LockStep

\* LockIsAccountedFor, for any set of turns, of any actors, with locks reclaimed
\* from the living (Outlast) or not: standForElection and bowOut leave no lock
\* of a turn that has ended unless it was killed.
THEOREM NoLockLeftBehind == ElectionSafety => []LockIsAccountedFor
<1>1. LockInv => LockIsAccountedFor
  BY DEF LockInv
<1> QED
  BY InitLockInv, NextLockInv, <1>1, PTL DEF ElectionSafety

-----------------------------------------------------------------------------
(***************************************************************************)
(* A turn defers only to a turn that took office.  The lock an earlier     *)
(* turn left is never one to defer to: it can be reclaimed, and after the  *)
(* first removal it is gone for good.                                      *)
(***************************************************************************)
EarlierIsReclaimable ==
  /\ lock \in Lockfile /\ lock.by = Earlier => (lock.written => lock.old)
  /\ (\E t \in Turns : step[t] = "recreating") => ~ (lock \in Lockfile /\ lock.by = Earlier)

TookOffice(t) == step[t] \in InOffice \cup {"over", "dead"}
DefersToAnOffice ==
  (\E t \in Turns : step[t] = "deferred") => \E t \in Turns : TookOffice(t)

WinnerInv == LockInv /\ EarlierIsReclaimable /\ DefersToAnOffice

LEMMA InitWinnerInv == ElectionInit => WinnerInv
  BY InitLockInv, NoLockAssumption
  DEF ElectionInit, WinnerInv, EarlierIsReclaimable, DefersToAnOffice, Lockfile

LEMMA NextEarlierIsReclaimable ==
  LockInv /\ EarlierIsReclaimable /\ [ElectionNext]_electionVars => EarlierIsReclaimable'
<1> SUFFICES ASSUME LockInv, EarlierIsReclaimable, [ElectionNext]_electionVars
             PROVE  EarlierIsReclaimable'
  OBVIOUS
<1> USE EarlierAssumption, NoLockAssumption
        DEF LockInv, ElectionTypeOK, EarlierIsReclaimable, Lockfile,
            Steps, Standing, InOffice, Ended, GoesTo
<1>1. CASE UNCHANGED electionVars
  BY <1>1 DEF electionVars
<1>2. ASSUME NEW t \in Turns, Start(t)
      PROVE  EarlierIsReclaimable'
  BY <1>2 DEF Start
<1>3. ASSUME NEW t \in Turns, Create(t)
      PROVE  EarlierIsReclaimable'
  BY <1>3 DEF Create
<1>4. ASSUME NEW t \in Turns, WriteHolder(t)
      PROVE  EarlierIsReclaimable'
  BY <1>4 DEF WriteHolder, HoldsLock
<1>5. ASSUME NEW t \in Turns, CreateFails(t) \/ Inspect(t) \/ Finish(t) \/ BowOut(t) \/ Dies(t)
      PROVE  EarlierIsReclaimable'
  BY <1>5 DEF CreateFails, Inspect, Finish, BowOut, Dies
<1>6. ASSUME NEW t \in Turns, Reclaim(t) \/ Release(t)
      PROVE  EarlierIsReclaimable'
  BY <1>6 DEF Reclaim, Release
<1>7. CASE Ages
  BY <1>7 DEF Ages
<1> QED
  BY <1>1, <1>2, <1>3, <1>4, <1>5, <1>6, <1>7 DEF ElectionNext, LockStep

LEMMA NextDefersToAnOffice ==
  WinnerInv /\ [ElectionNext]_electionVars => DefersToAnOffice'
<1> SUFFICES ASSUME WinnerInv, [ElectionNext]_electionVars
             PROVE  DefersToAnOffice'
  OBVIOUS
<1>1. step \in [Turns -> Steps] /\ DefersToAnOffice /\ LockInv /\ EarlierIsReclaimable
  BY DEF WinnerInv, LockInv, ElectionTypeOK
\* Who took office has taken it: the step of a turn only goes on.
<1>2. ASSUME NEW u \in Turns, TookOffice(u)
      PROVE  TookOffice(u)'
  <2> USE <1>1 DEF TookOffice, Steps, Standing, InOffice, Ended, GoesTo
  <2>1. CASE UNCHANGED electionVars \/ Ages
    BY <1>2, <2>1 DEF electionVars, Ages
  <2>2. ASSUME NEW t \in Turns, Start(t) \/ LockStep(t) \/ Finish(t) \/ Dies(t)
        PROVE  TookOffice(u)'
    BY <1>2, <2>2 DEF Start, LockStep, Create, WriteHolder, CreateFails, Inspect, Reclaim,
                      BowOut, Release, Finish, Dies
  <2> QED
    BY <2>1, <2>2 DEF ElectionNext
\* A turn that defers finds a lock that another turn took.
<1>3. ASSUME NEW t \in Turns, step'[t] = "deferred", step[t] # "deferred"
      PROVE  \E u \in Turns : TookOffice(u)
  <2>1. \E x \in Turns : CreateFails(x) \/ Inspect(x)
    <3> USE <1>1, <1>3 DEF Steps, Standing, InOffice, Ended, GoesTo
    <3>1. ~ (UNCHANGED electionVars \/ Ages)
      BY DEF electionVars, Ages
    <3>2. ASSUME NEW x \in Turns, \/ Start(x) \/ Finish(x) \/ Dies(x) \/ Create(x)
                                  \/ WriteHolder(x) \/ Reclaim(x) \/ BowOut(x) \/ Release(x)
          PROVE  FALSE
      BY <3>2 DEF Start, Finish, Dies, Create, WriteHolder, Reclaim, BowOut, Release
    <3> QED
      BY <3>1, <3>2 DEF ElectionNext, LockStep
  <2>2. lock \in Lockfile /\ lock.by # Earlier
    <3> USE NoLockAssumption
            DEF LockInv, ElectionTypeOK, EarlierIsReclaimable, GoesTo, Steps, Standing
    <3>1. PICK x \in Turns : CreateFails(x) \/ Inspect(x)
      BY <2>1
    <3>2. CASE step[x] = "recreating" /\ lock # NoLock
      BY <1>1, <3>2
    <3>3. CASE step[x] = "inspecting" /\ ~Reclaimable
      BY <1>1, <3>3 DEF Reclaimable
    <3> QED
      BY <1>1, <1>3, <3>1, <3>2, <3>3 DEF CreateFails, Inspect
  <2>3. lock.by \in Turns /\ lock # NoLock
    BY <2>2, NoLockAssumption DEF Lockfile
  <2> QED
    BY <1>1, <2>2, <2>3 DEF LockInv, LockIsAccountedFor, TookOffice
<1> QED
  BY <1>1, <1>2, <1>3 DEF DefersToAnOffice

\* ContestHasAWinner, for any turns, whoever runs them, locks reclaimed from the living or
\* not: a turn that defers defers to one that took office, so that where none was killed
\* one of those that are through was elected (standForElection, inspectLock).
THEOREM EveryContestHasAWinner == ElectionSafety => []ContestHasAWinner
<1>1. WinnerInv /\ [ElectionNext]_electionVars => WinnerInv'
  BY NextLockInv, NextEarlierIsReclaimable, NextDefersToAnOffice DEF WinnerInv
<1>2. WinnerInv => ContestHasAWinner
  BY DEF WinnerInv, DefersToAnOffice, TookOffice, ContestHasAWinner, InOffice, Ended
<1> QED
  BY InitWinnerInv, <1>1, <1>2, PTL DEF ElectionSafety

-----------------------------------------------------------------------------
(***************************************************************************)
(* The turn implements it.                                                 *)
(***************************************************************************)
StepTypeOK == step \in [Turns -> Steps \cup Serving]

LEMMA InitStepTypeOK == TurnInit => StepTypeOK
  BY DEF TurnInit, ElectionInit, StepTypeOK, Steps

\* Whatever a turn does, it is left at one of the steps.
LEMMA NextStepTypeOK == StepTypeOK /\ [TurnNext]_turnVars => StepTypeOK'
<1> SUFFICES ASSUME StepTypeOK, [TurnNext]_turnVars
             PROVE  StepTypeOK'
  OBVIOUS
<1> USE DEF StepTypeOK, Steps, Standing, InOffice, Ended, Serving, GoesTo
<1>1. CASE UNCHANGED turnVars
  BY <1>1 DEF turnVars, electionVars
<1>2. ASSUME NEW t \in Turns, TurnStep(t)
      PROVE  StepTypeOK'
  <2>1. ASSUME NEW fit \in BOOLEAN, Seat(t, fit)
        PROVE  StepTypeOK'
    BY <2>1 DEF Seat
  <2>2. CASE LockStep(t)
    BY <2>2 DEF LockStep, Create, WriteHolder, CreateFails, Inspect, Reclaim, BowOut, Release
  <2>3. CASE ReadRecord(t)
    BY <2>3 DEF ReadRecord
  <2>4. ASSUME NEW path \in FaultPaths, Retry(t, path)
        PROVE  StepTypeOK'
    BY <2>4 DEF Retry, electionVars
  <2>5. ASSUME NEW breach \in BOOLEAN, NEW escalated \in BOOLEAN, Succeeds(t, breach, escalated)
        PROVE  StepTypeOK'
    BY <2>5 DEF Succeeds, Reports
  <2>6. ASSUME NEW path \in FaultPaths, NEW breach \in BOOLEAN, NEW escalated \in BOOLEAN,
               Fails(t, path, breach, escalated)
        PROVE  StepTypeOK'
    BY <2>6 DEF Fails, Reports
  <2>7. CASE WriteRecord(t)
    BY <2>7 DEF WriteRecord
  <2>8. CASE WriteState(t)
    BY <2>8 DEF WriteState
  <2>9. CASE Throws(t)
    BY <2>9 DEF Throws
  <2>10. CASE Dies(t)
    BY <2>10 DEF Dies
  <2> QED
    BY <1>2, <2>1, <2>2, <2>3, <2>4, <2>5, <2>6, <2>7, <2>8, <2>9, <2>10 DEF TurnStep
<1>3. CASE Ages
  BY <1>3 DEF Ages
<1>4. CASE UNCHANGED electionVars
  BY <1>4 DEF electionVars
<1> QED
  BY <1>1, <1>2, <1>3, <1>4 DEF TurnNext

-----------------------------------------------------------------------------
(***************************************************************************)
(* Each step of a turn is a step of its election or a stutter.             *)
(***************************************************************************)
\* The step to which a turn goes is the one to which it goes in the election.
LEMMA ContestGoesTo ==
  ASSUME StepTypeOK, NEW t \in Turns, NEW s \in Steps \cup Serving, GoesTo(t, s)
  PROVE  contestStep' =
           [contestStep EXCEPT ![t] = IF s \in Serving THEN "elected" ELSE s]
  BY DEF StepTypeOK, GoesTo, contestStep

LEMMA InitContest == TurnInit => Contest!ElectionInit
  BY DEF TurnInit, ElectionInit, Contest!ElectionInit, contestStep, Serving,
         Lockfile, Contest!Lockfile

LEMMA NextContest ==
  StepTypeOK /\ [TurnNext]_turnVars => [Contest!ElectionNext]_(Contest!electionVars)
<1> SUFFICES ASSUME StepTypeOK, [TurnNext]_turnVars
             PROVE  Contest!ElectionNext \/ UNCHANGED <<lock, contestStep>>
  BY DEF Contest!electionVars
<1>1. ASSUME UNCHANGED electionVars
      PROVE  UNCHANGED <<lock, contestStep>>
  BY <1>1 DEF electionVars, contestStep
<1>2. ASSUME NEW t \in Turns, TurnStep(t)
      PROVE  Contest!ElectionNext \/ UNCHANGED <<lock, contestStep>>
  <2>1. ASSUME NEW fit \in BOOLEAN, Seat(t, fit)
        PROVE  Contest!Start(t)
    BY <2>1, ContestGoesTo
    DEF Seat, Contest!Start, Contest!GoesTo, contestStep, Serving, Steps, Standing, Ended
  <2>2. CASE LockStep(t)
    <3> USE <2>2, ContestGoesTo
        DEF StepTypeOK, contestStep, Serving, Steps, Standing, InOffice, Ended
    <3>1. CASE Create(t)
      BY <3>1 DEF Create, Contest!ElectionNext, Contest!LockStep, Contest!Create, Contest!GoesTo
    <3>2. CASE WriteHolder(t)
      BY <3>2 DEF WriteHolder, HoldsLock, Contest!ElectionNext, Contest!LockStep,
                  Contest!WriteHolder, Contest!HoldsLock, Contest!GoesTo
    <3>3. CASE CreateFails(t)
      BY <3>3 DEF CreateFails, Contest!ElectionNext, Contest!LockStep, Contest!CreateFails,
                  Contest!GoesTo
    <3>4. CASE Inspect(t)
      BY <3>4 DEF Inspect, Reclaimable, Contest!ElectionNext, Contest!LockStep,
                  Contest!Inspect, Contest!Reclaimable, Contest!GoesTo
    <3>5. CASE Reclaim(t)
      BY <3>5 DEF Reclaim, Contest!ElectionNext, Contest!LockStep, Contest!Reclaim,
                  Contest!GoesTo
    <3>6. CASE BowOut(t)
      BY <3>6 DEF BowOut, Contest!ElectionNext, Contest!LockStep, Contest!BowOut,
                  Contest!GoesTo
    <3>7. CASE Release(t)
      BY <3>7 DEF Release, Contest!ElectionNext, Contest!LockStep, Contest!Release,
                  Contest!GoesTo
    <3> QED
      BY <3>1, <3>2, <3>3, <3>4, <3>5, <3>6, <3>7 DEF LockStep
  \* While a turn serves, its election does not move.
  <2>3. ASSUME NEW s \in Serving, step[t] \in {"elected"} \cup Serving,
               GoesTo(t, s) \/ UNCHANGED step, UNCHANGED lock
        PROVE  UNCHANGED <<lock, contestStep>>
    BY <2>3 DEF StepTypeOK, GoesTo, contestStep, Serving
  <2>4. CASE ReadRecord(t)
    BY <2>3, <2>4 DEF ReadRecord, Serving
  <2>5. ASSUME NEW path \in FaultPaths, Retry(t, path)
        PROVE  UNCHANGED <<lock, contestStep>>
    BY <2>3, <2>5 DEF Retry, Serving, electionVars
  <2>6. ASSUME NEW entries, NEW breach, NEW escalated, Reports(t, entries, breach, escalated)
        PROVE  UNCHANGED <<lock, contestStep>>
    BY <2>3, <2>6 DEF Reports, Serving
  <2>7. ASSUME NEW breach \in BOOLEAN, NEW escalated \in BOOLEAN, Succeeds(t, breach, escalated)
        PROVE  UNCHANGED <<lock, contestStep>>
    BY <2>6, <2>7 DEF Succeeds
  <2>8. ASSUME NEW path \in FaultPaths, NEW breach \in BOOLEAN, NEW escalated \in BOOLEAN,
               Fails(t, path, breach, escalated)
        PROVE  UNCHANGED <<lock, contestStep>>
    BY <2>6, <2>8 DEF Fails
  <2>9. CASE WriteRecord(t)
    BY <2>3, <2>9 DEF WriteRecord, Serving
  <2>10. ASSUME step[t] \in {"elected"} \cup Serving, GoesTo(t, "leaving"), UNCHANGED lock
         PROVE  Contest!Finish(t)
    BY <2>10, ContestGoesTo
    DEF Contest!Finish, Contest!GoesTo, StepTypeOK, contestStep, Serving, Steps, InOffice
  <2>11. CASE WriteState(t)
    BY <2>10, <2>11 DEF WriteState, Serving, Contest!ElectionNext
  <2>12. CASE Throws(t)
    BY <2>10, <2>12 DEF Throws, Contest!ElectionNext
  <2>13. CASE Dies(t)
    BY <2>13, ContestGoesTo
    DEF Dies, Contest!Dies, Contest!GoesTo, Contest!ElectionNext, Contest!Ended, StepTypeOK,
        contestStep, Serving, Steps, Ended
  <2> QED
    BY <1>2, <2>1, <2>2, <2>4, <2>5, <2>7, <2>8, <2>9, <2>11, <2>12, <2>13
    DEF TurnStep, Contest!ElectionNext
<1>3. CASE Ages
  BY <1>3 DEF Ages, Contest!Ages, Contest!ElectionNext, StepTypeOK, contestStep, Serving
<1> QED
  BY <1>1, <1>2, <1>3 DEF TurnNext, turnVars

\* ImplementsElection, for any turns, any commands beside them and any number of
\* retries: a turn does nothing to the session unless it was elected, and bows out
\* however its work ended.
THEOREM TurnImplementsElection == TurnSpec => ImplementsElection
<1>1. TurnInit => StepTypeOK /\ Contest!ElectionInit
  BY InitStepTypeOK, InitContest
<1>2. StepTypeOK /\ [TurnNext]_turnVars => StepTypeOK' /\ [Contest!ElectionNext]_(Contest!electionVars)
  BY NextStepTypeOK, NextContest
<1> QED
  BY <1>1, <1>2, PTL DEF TurnSpec, ImplementsElection, Contest!ElectionSafety

-----------------------------------------------------------------------------
(***************************************************************************)
(* What a turn reports of its attempts.  While its agent works the report  *)
(* is the faults of the attempts that failed; what ends the turn follows   *)
(* them, and of that only the two entries of a failure are faults.         *)
(***************************************************************************)
FaultEntries == {Fault(path) : path \in FaultPaths}
Resolved == Plain("FAULT_RESOLVED_AUTO")
FaultsIn(r) == {k \in DOMAIN r : r[k] \in FaultEntries}

\* The first n entries of r are its faults, and if they were overcome it says so next.
Counts(r, n) ==
  /\ FaultsIn(r) = 1..n
  /\ \A k \in DOMAIN r : r[k] = Resolved => k = n + 1 /\ n > 0

\* r is what a turn at step s may report.
AttemptsAreCounted(s, r) ==
  /\ r \in Seq(Entry)
  /\ s \notin Serving => r = <<>>
  /\ s = "working" => Counts(r, Len(r)) /\ Len(r) < MostAttempts
  /\ \E n \in 0..(MostAttempts + 1) : Counts(r, n)

ReportInv ==
  /\ StepTypeOK
  /\ report \in [Turns -> Seq(Entry)]
  /\ \A t \in Turns : AttemptsAreCounted(step[t], report[t])

LEMMA FaultsAreEntries ==
  /\ FaultEntries \subseteq Entry /\ Resolved \in Entry /\ Resolved \notin FaultEntries
  /\ \A path \in FaultPaths : Fault(path) \in FaultEntries
  /\ Plain("SESSION_FAULT") \in FaultEntries
  /\ Plain("MOTION_TABLED") \in Entry \ (FaultEntries \cup {Resolved})
  /\ Breach \in Entry \ (FaultEntries \cup {Resolved})
<1>1. FaultEntries = {Plain("SESSION_FAULT"), Plain("SESSION_FAULT_CRITICAL")}
  BY DEF FaultEntries, Fault, FaultPaths
<1>2. \A path \in FaultPaths : Fault(path) \in FaultEntries
  BY DEF FaultEntries
<1>3. \A s, u \in PlainTypes : Plain(s) \in Entry /\ (Plain(s) = Plain(u) => s = u)
  BY EntriesAreTyped DEF Plain
<1> QED
  BY <1>1, <1>2, <1>3 DEF Resolved, Breach, PlainTypes

LEMMA NothingReported == Counts(<<>>, 0)
  BY DEF Counts, FaultsIn

\* Faults that follow faults are counted with them.
LEMMA FaultsFollow ==
  ASSUME NEW r \in Seq(Entry), NEW es \in Seq(Entry), Counts(r, Len(r)),
         \A k \in DOMAIN es : es[k] \in FaultEntries
  PROVE  Counts(r \o es, Len(r) + Len(es))
<1>1. ASSUME NEW k \in DOMAIN (r \o es)
      PROVE  (r \o es)[k] \in FaultEntries
  <2>1. CASE k \in 1..Len(r)
    BY <2>1, Concatenated DEF Counts, FaultsIn
  <2>2. CASE \E i \in 1..Len(es) : k = Len(r) + i
    BY <2>2, Concatenated
  <2> QED
    BY <2>1, <2>2, Concatenated
<1>2. FaultsIn(r \o es) = 1..(Len(r) + Len(es))
  BY <1>1, Concatenated DEF FaultsIn
<1>3. \A k \in DOMAIN (r \o es) : (r \o es)[k] # Resolved
  BY <1>1, FaultsAreEntries
<1> QED
  BY <1>2, <1>3 DEF Counts

\* What is neither a fault nor says that faults were overcome leaves the count alone.
LEMMA OthersFollow ==
  ASSUME NEW r \in Seq(Entry), NEW es \in Seq(Entry), NEW n \in Nat, Counts(r, n),
         \A k \in DOMAIN es : es[k] \notin FaultEntries \cup {Resolved}
  PROVE  Counts(r \o es, n)
<1>1. \A k \in DOMAIN (r \o es) :
        \/ k \in DOMAIN r /\ (r \o es)[k] = r[k]
        \/ (r \o es)[k] \notin FaultEntries \cup {Resolved}
  BY Concatenated
<1>2. \A k \in DOMAIN r : k \in DOMAIN (r \o es) /\ (r \o es)[k] = r[k]
  BY Concatenated
<1>3. FaultsIn(r \o es) = FaultsIn(r)
  BY <1>1, <1>2 DEF FaultsIn
<1> QED
  BY <1>1, <1>3 DEF Counts

\* Faults that were overcome are said to have been.
LEMMA ResolutionFollows ==
  ASSUME NEW r \in Seq(Entry), Counts(r, Len(r)), Len(r) > 0
  PROVE  Counts(r \o <<Resolved>>, Len(r))
<1> DEFINE es == <<Resolved>>
           n == Len(r)
<1>1. es \in Seq(Entry) /\ Len(es) = 1 /\ es[1] = Resolved
  BY FaultsAreEntries
<1> HIDE DEF es
<1>2. /\ DOMAIN (r \o es) = 1..(n + 1) /\ n \in Nat /\ DOMAIN r = 1..n
      /\ \A k \in 1..n : (r \o es)[k] = r[k]
      /\ (r \o es)[n + 1] = Resolved
  <2>1. /\ Len(r) \in Nat /\ DOMAIN r = 1..Len(r)
        /\ DOMAIN (r \o es) = 1..(Len(r) + Len(es))
        /\ \A k \in 1..Len(r) : (r \o es)[k] = r[k]
        /\ \A k \in 1..Len(es) : (r \o es)[Len(r) + k] = es[k]
    BY <1>1, Concatenated
  <2>2. (r \o es)[Len(r) + 1] = Resolved
    BY <1>1, <2>1
  <2> QED
    BY <1>1, <2>1, <2>2
<1>3. \A k \in 1..n : r[k] \in FaultEntries
  <2>1. FaultsIn(r) = 1..n
    BY DEF Counts
  <2> QED
    BY <2>1 DEF FaultsIn
<1>4. FaultsIn(r \o es) = 1..n
  <2>1. \A k \in 1..(n + 1) : k \in 1..n \/ k = n + 1
    BY <1>2
  <2> QED
    BY <1>2, <1>3, <2>1, FaultsAreEntries DEF FaultsIn
<1>5. \A k \in DOMAIN (r \o es) : (r \o es)[k] = Resolved => k = n + 1 /\ n > 0
  BY <1>2, <1>3, FaultsAreEntries
<1>6. Counts(r \o es, n)
  BY <1>4, <1>5 DEF Counts
<1> QED
  BY <1>6 DEF es

-----------------------------------------------------------------------------
LEMMA InitReportInv == TurnInit => ReportInv
<1> SUFFICES ASSUME TurnInit PROVE ReportInv
  OBVIOUS
<1>1. step = [t \in Turns |-> "idle"] /\ report = [t \in Turns |-> <<>>]
  BY DEF TurnInit, ElectionInit
<1>2. 0 \in 0..(MostAttempts + 1) /\ <<>> \in Seq(Entry)
  BY AutoRetryMaxAssumption DEF MostAttempts
<1> QED
  BY <1>1, <1>2, InitStepTypeOK, NothingReported DEF ReportInv, AttemptsAreCounted, Serving

\* A turn that has nothing to report yet, or has forgotten it.
LEMMA NothingIsCounted == \A s : AttemptsAreCounted(s, <<>>)
<1>1. /\ 0 \in 0..(MostAttempts + 1) /\ <<>> \in Seq(Entry) /\ Len(<<>>) = 0
      /\ 0 < MostAttempts
  BY AutoRetryMaxAssumption DEF MostAttempts
<1> QED
  BY <1>1, NothingReported DEF AttemptsAreCounted

\* The end of a turn, well or ill, is reported after its faults.
LEMMA EndIsCounted ==
  ASSUME ReportInv, NEW t \in Turns, NEW entries \in Seq(Entry), NEW breach, NEW escalated,
         Reports(t, entries, breach, escalated),
         NEW n \in 0..(MostAttempts + 1), Counts(report[t] \o entries, n)
  PROVE  AttemptsAreCounted(step'[t], report'[t])
<1> DEFINE found == IF breach THEN <<Breach>> ELSE <<>>
           r == report[t] \o entries
<1>1. report[t] \in Seq(Entry) /\ n \in Nat
  BY AutoRetryMaxAssumption DEF ReportInv, MostAttempts
<1>2. report'[t] = r \o found
  BY DEF Reports, ReportInv
<1>3. found \in Seq(Entry) /\ \A k \in DOMAIN found : found[k] \notin FaultEntries \cup {Resolved}
  <2>1. /\ <<Breach>> \in Seq(Entry) /\ DOMAIN <<Breach>> = {1} /\ <<Breach>>[1] = Breach
        /\ <<>> \in Seq(Entry) /\ DOMAIN <<>> = {}
    BY FaultsAreEntries
  <2> QED
    BY <2>1, FaultsAreEntries
<1>4. step'[t] = "recording"
  BY DEF Reports, GoesTo, ReportInv, StepTypeOK
<1> HIDE DEF found
<1>5. r \in Seq(Entry) /\ r \o found \in Seq(Entry)
  BY <1>1, <1>3
<1>6. Counts(r \o found, n)
  BY <1>1, <1>3, <1>5, OthersFollow
<1> QED
  BY <1>2, <1>4, <1>5, <1>6 DEF AttemptsAreCounted, Serving

LEMMA NextReportInv == ReportInv /\ [TurnNext]_turnVars => ReportInv'
<1> SUFFICES ASSUME ReportInv, [TurnNext]_turnVars
             PROVE  ReportInv'
  OBVIOUS
<1>1. StepTypeOK /\ StepTypeOK'
  BY NextStepTypeOK DEF ReportInv
<1>2. MostAttempts \in Nat /\ MostAttempts > 0 /\ (AutoRetryMax > 0 => MostAttempts = AutoRetryMax)
  BY AutoRetryMaxAssumption DEF MostAttempts
<1>3. ASSUME UNCHANGED <<step, report>>
      PROVE  ReportInv'
  BY <1>1, <1>3 DEF ReportInv, AttemptsAreCounted
<1>4. ASSUME NEW t \in Turns, TurnStep(t)
      PROVE  ReportInv'
  <2>1. report \in [Turns -> Seq(Entry)] /\ report[t] \in Seq(Entry) /\ AttemptsAreCounted(step[t], report[t])
        /\ step \in [Turns -> Steps \cup Serving]
    BY DEF ReportInv, StepTypeOK
  <2>2. ASSUME NEW r \in Seq(Entry), report' = [report EXCEPT ![t] = r],
               \/ step' = step
               \/ \E s \in Steps \cup Serving : GoesTo(t, s),
               AttemptsAreCounted(step'[t], report'[t])
        PROVE  ReportInv'
    <3>1. ASSUME NEW u \in Turns
          PROVE  AttemptsAreCounted(step'[u], report'[u])
      <4>1. CASE u = t
        BY <2>2, <4>1
      <4>2. CASE u # t
        <5>1. step'[u] = step[u] /\ report'[u] = report[u]
          BY <2>1, <2>2, <4>2 DEF GoesTo
        <5> QED
          BY <5>1 DEF ReportInv, AttemptsAreCounted
      <4> QED
        BY <4>1, <4>2
    <3>2. report' \in [Turns -> Seq(Entry)]
      BY <2>1, <2>2
    <3> QED
      BY <1>1, <3>1, <3>2 DEF ReportInv
  \* A turn reports nothing before it works and after it has ended.
  <2>3. ASSUME NEW s \in Steps \cup Serving, GoesTo(t, s), report[t] = <<>>, UNCHANGED report
        PROVE  ReportInv'
    <3>1. AttemptsAreCounted(step'[t], report'[t])
      <4>1. report'[t] = <<>>
        BY <2>3
      <4> QED
        BY <4>1, NothingIsCounted
    <3>2. report' = [report EXCEPT ![t] = <<>>] /\ <<>> \in Seq(Entry)
      BY <2>1, <2>3
    <3> QED
      BY <2>2, <2>3, <3>1, <3>2
  <2>4. ASSUME NEW s \in Steps, GoesTo(t, s), Forgets(t)
        PROVE  ReportInv'
    <3>1. report' = [report EXCEPT ![t] = <<>>] /\ report'[t] = <<>> /\ <<>> \in Seq(Entry)
      BY <2>1, <2>4 DEF Forgets
    <3>2. AttemptsAreCounted(step'[t], report'[t])
      BY <3>1, NothingIsCounted
    <3> QED
      BY <2>2, <2>4, <3>1, <3>2
  <2>5. ASSUME NEW entries \in Seq(Entry), NEW breach, NEW escalated,
               Reports(t, entries, breach, escalated),
               NEW n \in 0..(MostAttempts + 1), Counts(report[t] \o entries, n)
        PROVE  ReportInv'
    <3>1. AttemptsAreCounted(step'[t], report'[t])
      BY <2>5, EndIsCounted
    <3> DEFINE r == report[t] \o entries \o (IF breach THEN <<Breach>> ELSE <<>>)
    <3>2. r \in Seq(Entry)
      <4>1. report[t] \o entries \in Seq(Entry)
        BY <2>1, <2>5
      <4>2. <<Breach>> \in Seq(Entry) /\ <<>> \in Seq(Entry)
        BY FaultsAreEntries
      <4> QED
        BY <4>1, <4>2
    <3>3. report' = [report EXCEPT ![t] = r] /\ GoesTo(t, "recording")
      BY <2>5 DEF Reports
    <3> QED
      BY <2>2, <3>1, <3>2, <3>3 DEF Serving
  <2>6. ASSUME NEW fit \in BOOLEAN, Seat(t, fit)
        PROVE  ReportInv'
    BY <2>1, <2>3, <2>6 DEF Seat, memory, AttemptsAreCounted, Steps, Standing, Ended, Serving
  <2>7. CASE LockStep(t) /\ UNCHANGED memory
    <3>1. step[t] \notin Serving /\ \E s \in Steps : GoesTo(t, s)
      BY <2>7 DEF LockStep, Create, WriteHolder, CreateFails, Inspect, Reclaim, BowOut, Release,
                  Steps, Standing, InOffice, Ended, Serving
    <3> QED
      BY <2>1, <2>3, <2>7, <3>1 DEF memory, AttemptsAreCounted
  <2>8. CASE ReadRecord(t)
    BY <2>1, <2>3, <2>8 DEF ReadRecord, AttemptsAreCounted, Serving
  <2>9. ASSUME NEW path \in FaultPaths, Retry(t, path)
        PROVE  ReportInv'
    <3> DEFINE e == Fault(path)
               r == report[t] \o <<e>>
    <3>1. step[t] = "working" /\ Len(report[t]) + 1 < AutoRetryMax /\ UNCHANGED step
      BY <2>9 DEF Retry, shouldRetry, Attempts, electionVars
    <3>2. e \in Entry /\ e \in FaultEntries
      BY FaultsAreEntries
    <3>3. report' = [report EXCEPT ![t] = Append(report[t], e)]
      BY <2>9 DEF Retry
    <3> HIDE DEF e
    <3>4. /\ <<e>> \in Seq(Entry) /\ Len(<<e>>) = 1 /\ DOMAIN <<e>> = {1} /\ <<e>>[1] = e
          /\ r \in Seq(Entry) /\ Append(report[t], e) = r /\ Len(r) = Len(report[t]) + 1
          /\ Len(report[t]) \in Nat
      BY <2>1, <3>2
    <3>5. Counts(r, Len(r))
      BY <2>1, <3>1, <3>2, <3>4, FaultsFollow DEF AttemptsAreCounted
    <3> HIDE DEF r
    <3>6. Len(r) < MostAttempts /\ Len(r) \in 0..(MostAttempts + 1)
      BY <1>2, <3>1, <3>4, AutoRetryMaxAssumption
    <3>7. report'[t] = r /\ report' = [report EXCEPT ![t] = r]
      BY <2>1, <3>3, <3>4
    <3>8. AttemptsAreCounted(step'[t], report'[t])
      BY <3>1, <3>4, <3>5, <3>6, <3>7 DEF AttemptsAreCounted, Serving
    <3> QED
      BY <2>2, <3>1, <3>4, <3>7, <3>8
  <2>10. ASSUME NEW breach \in BOOLEAN, NEW escalated \in BOOLEAN, Succeeds(t, breach, escalated)
         PROVE  ReportInv'
    <3> DEFINE T == Plain("MOTION_TABLED")
               resolved == IF Attempts(t) > 1 THEN <<Resolved>> ELSE <<>>
               n == Len(report[t])
    <3>1. Reports(t, Append(resolved, T), breach, escalated) /\ step[t] = "working"
      BY <2>10 DEF Succeeds, Reports, Resolved
    <3>2. T \in Entry /\ T \notin FaultEntries \cup {Resolved}
      BY FaultsAreEntries
    <3> HIDE DEF T
    <3>3. Counts(report[t], n) /\ n \in 0..(MostAttempts + 1) /\ n \in Nat
      BY <1>2, <2>1, <3>1 DEF AttemptsAreCounted
    <3>4. resolved \in Seq(Entry) /\ Counts(report[t] \o resolved, n)
      <4>1. CASE Attempts(t) > 1
        <5>1. resolved = <<Resolved>> /\ n > 0
          BY <3>3, <4>1 DEF Attempts
        <5>2. <<Resolved>> \in Seq(Entry)
          BY FaultsAreEntries
        <5> QED
          BY <2>1, <3>3, <5>1, <5>2, ResolutionFollows
      <4>2. CASE ~ (Attempts(t) > 1)
        <5>1. resolved = <<>> /\ report[t] \o <<>> = report[t] /\ <<>> \in Seq(Entry)
          BY <2>1, <4>2
        <5> QED
          BY <3>3, <5>1
      <4> QED
        BY <4>1, <4>2
    <3> HIDE DEF resolved
    <3>5. /\ <<T>> \in Seq(Entry) /\ \A k \in DOMAIN <<T>> : <<T>>[k] = T
          /\ report[t] \o resolved \in Seq(Entry) /\ Append(resolved, T) \in Seq(Entry)
          /\ Append(resolved, T) = resolved \o <<T>>
      BY <2>1, <3>2, <3>4
    <3>6. report[t] \o Append(resolved, T) = (report[t] \o resolved) \o <<T>>
      BY <2>1, <3>4, <3>5, ConcatAssociative
    <3>7. Counts((report[t] \o resolved) \o <<T>>, n)
      BY <3>2, <3>3, <3>4, <3>5, OthersFollow
    <3> QED
      BY <2>5, <3>1, <3>3, <3>5, <3>6, <3>7
  <2>11. ASSUME NEW path \in FaultPaths, NEW breach \in BOOLEAN, NEW escalated \in BOOLEAN,
                Fails(t, path, breach, escalated)
         PROVE  ReportInv'
    <3> DEFINE e == Fault(path)
               f == Plain("SESSION_FAULT")
               entries == <<e, f>>
               n == Len(report[t])
    <3>1. Reports(t, entries, breach, escalated) /\ step[t] = "working"
      BY <2>11 DEF Fails, Reports
    <3>2. e \in Entry /\ f \in Entry /\ e \in FaultEntries /\ f \in FaultEntries
      BY FaultsAreEntries
    <3> HIDE DEF e, f
    <3>3. Counts(report[t], n) /\ n \in Nat /\ n + 2 \in 0..(MostAttempts + 1)
      BY <1>2, <2>1, <3>1 DEF AttemptsAreCounted
    <3>4. /\ entries \in Seq(Entry) /\ Len(entries) = 2
          /\ \A k \in DOMAIN entries : entries[k] \in FaultEntries
      BY <3>2
    <3> HIDE DEF entries
    <3>5. Counts(report[t] \o entries, n + 2)
      BY <2>1, <3>3, <3>4, FaultsFollow
    <3> QED
      BY <2>5, <3>1, <3>3, <3>4, <3>5
  <2>12. CASE WriteRecord(t)
    <3>1. UNCHANGED report /\ step[t] = "recording" /\ GoesTo(t, "stating")
      BY <2>12 DEF WriteRecord, memory
    <3>2. step'[t] = "stating" /\ report'[t] = report[t] /\ report' = [report EXCEPT ![t] = report[t]]
      BY <2>1, <3>1 DEF GoesTo
    <3>3. AttemptsAreCounted(step'[t], report'[t])
      BY <2>1, <3>2 DEF AttemptsAreCounted, Serving
    <3> QED
      BY <2>1, <2>2, <3>1, <3>2, <3>3 DEF Serving
  <2>13. CASE WriteState(t)
    BY <2>4, <2>13 DEF WriteState, Steps, InOffice
  <2>14. CASE Throws(t)
    BY <2>4, <2>14 DEF Throws, Steps, InOffice
  <2>15. CASE Dies(t) /\ Forgets(t)
    BY <2>4, <2>15 DEF Dies, Steps, Ended
  <2> QED
    BY <1>4, <2>6, <2>7, <2>8, <2>9, <2>10, <2>11, <2>12, <2>13, <2>14, <2>15 DEF TurnStep
<1>5. CASE UNCHANGED turnVars
  BY <1>3, <1>5 DEF turnVars, electionVars, memory
<1>6. CASE Ages /\ UNCHANGED memory
  BY <1>3, <1>6 DEF Ages, memory
<1>7. CASE UNCHANGED <<electionVars, memory>>
  BY <1>3, <1>7 DEF electionVars, memory
<1> QED
  BY <1>4, <1>5, <1>6, <1>7 DEF TurnNext

\* RetriesAreReported, for any auto_retry_max, any number of turns and whatever befalls the
\* sitting: no turn has more faults than its attempts and its failure, and one that was
\* retried says so after them (runTurn, shouldRetry).
THEOREM RetriesAreAlwaysReported == TurnSpec => []RetriesAreReported
<1>1. ReportInv => RetriesAreReported
  <2> SUFFICES ASSUME ReportInv, NEW t \in Turns
               PROVE  /\ Cardinality(Faults(t)) <= MostAttempts + 1
                      /\ \A k \in DOMAIN report[t] :
                           report[t][k] = Plain("FAULT_RESOLVED_AUTO")
                             => Faults(t) = 1..(k - 1) /\ k > 1
    BY DEF RetriesAreReported
  <2>1. Faults(t) = FaultsIn(report[t])
    BY DEF Faults, FaultsIn, FaultEntries
  <2>2. PICK n \in 0..(MostAttempts + 1) : Counts(report[t], n)
    BY DEF ReportInv, AttemptsAreCounted
  <2>3. n \in Nat /\ n <= MostAttempts + 1
    BY AutoRetryMaxAssumption DEF MostAttempts
  <2>4. Cardinality(1..n) = n
    BY <2>3, FS_Interval
  <2>5. ASSUME NEW k \in DOMAIN report[t], report[t][k] = Resolved
        PROVE  1..n = 1..(k - 1) /\ k > 1
    BY <2>2, <2>3, <2>5 DEF Counts
  <2> QED
    BY <2>1, <2>2, <2>3, <2>4, <2>5 DEF Counts, Resolved
<1> QED
  BY <1>1, InitReportInv, NextReportInv, PTL DEF TurnSpec

=============================================================================

------------------------------ MODULE Election ------------------------------
(***************************************************************************)
(* First actor per constituency: the lockfile by which several agents on   *)
(* one machine settle which of them speaks for a role.                     *)
(*                                                                         *)
(* Every turn (one process of politik run) stands for election, holds the  *)
(* lock while its agent works and bows out.  The file system is shared and *)
(* its operations are the steps: creating the file exclusively and writing *)
(* the holder into it are two of them, and so are reading and removing it. *)
(* What an elected turn does to the session is in Turn, which implements   *)
(* this module.                                                            *)
(***************************************************************************)
EXTENDS Integers

CONSTANTS Turns,     \* processes of politik run for one constituency
          RunBy,     \* RunBy[t]: the actor turn t is run by
          Earlier,   \* a turn that ended before these
          NoLock,    \* no lockfile is there
          Outlast    \* may a turn last longer than the stale window?

\* written: the holder is in it; old: acquired longer ago than the stale window.
Lockfile == [by : Turns \cup {Earlier}, written : BOOLEAN, old : BOOLEAN]

ASSUME EarlierAssumption == Earlier \notin Turns
ASSUME NoLockAssumption == NoLock \notin Lockfile
ASSUME OutlastAssumption == Outlast \in BOOLEAN

VARIABLES lock, step
electionVars == <<lock, step>>

Standing == {"standing", "inspecting", "removing", "recreating"}
InOffice == {"writing", "elected", "leaving", "releasing"}
Ended == {"refused", "deferred", "over", "dead"}
Steps == {"idle"} \cup Standing \cup InOffice \cup Ended

ElectionTypeOK ==
  /\ lock \in {NoLock} \cup Lockfile
  /\ step \in [Turns -> Steps]

\* An earlier turn may have died and left a lock nobody can read, or an old one.
ElectionInit ==
  /\ lock \in {NoLock} \cup {f \in Lockfile : f.by = Earlier /\ (f.written => f.old)}
  /\ step = [t \in Turns |-> "idle"]

GoesTo(t, s) == step' = [step EXCEPT ![t] = s]
HoldsLock(t) == lock # NoLock /\ lock.by = t

\* runTurn refuses before it stands when the session cannot be acted on.
Start(t) ==
  /\ step[t] = "idle"
  /\ \E s \in {"standing", "refused"} : GoesTo(t, s)
  /\ UNCHANGED lock

-----------------------------------------------------------------------------
(***************************************************************************)
(* standForElection.  A turn creates the file at its first attempt, or     *)
(* after it removed one it found stale, unreadable or already gone.        *)
(***************************************************************************)
Create(t) ==
  /\ step[t] \in {"standing", "recreating"}
  /\ lock = NoLock
  /\ lock' = [by |-> t, written |-> FALSE, old |-> FALSE]
  /\ GoesTo(t, "writing")

\* The holder goes to the file t created, which may have been removed since.
WriteHolder(t) ==
  /\ step[t] = "writing"
  /\ lock' = IF HoldsLock(t) THEN [lock EXCEPT !.written = TRUE] ELSE lock
  /\ GoesTo(t, "elected")

CreateFails(t) ==
  /\ lock # NoLock
  /\ \/ step[t] = "standing" /\ GoesTo(t, "inspecting")
     \/ step[t] = "recreating" /\ GoesTo(t, "deferred")
  /\ UNCHANGED lock

\* Faulty: a lock nobody can read is taken for a held one.
ReclaimableIfRead == lock = NoLock \/ (lock.written /\ lock.old)

\* inspectLock: absent, corrupt (created and not yet written), or stale
Reclaimable == lock = NoLock \/ ~lock.written \/ lock.old

\* Faulty: a turn that finds the constituency held stands again.
InspectAndStandAgain(t) ==
  /\ step[t] = "inspecting"
  /\ GoesTo(t, IF Reclaimable THEN "removing" ELSE "standing")
  /\ UNCHANGED lock

Inspect(t) ==
  /\ step[t] = "inspecting"
  /\ GoesTo(t, IF Reclaimable THEN "removing" ELSE "deferred")
  /\ UNCHANGED lock

Reclaim(t) ==
  /\ step[t] = "removing"
  /\ lock' = NoLock
  /\ GoesTo(t, "recreating")

-----------------------------------------------------------------------------
\* Faulty: a turn leaves without bowing out.
FinishInOffice(t) ==
  /\ step[t] = "elected"
  /\ GoesTo(t, "over")
  /\ UNCHANGED lock

\* The work of an elected turn is done, or has failed: finally.
Finish(t) ==
  /\ step[t] = "elected"
  /\ GoesTo(t, "leaving")
  /\ UNCHANGED lock

\* bowOut reads the holder, and removes the file if it names the turn's actor.
BowOut(t) ==
  /\ step[t] = "leaving"
  /\ LET mine == /\ lock # NoLock
                 /\ lock.written
                 /\ lock.by # Earlier
                 /\ RunBy[lock.by] = RunBy[t]
     IN GoesTo(t, IF mine THEN "releasing" ELSE "over")
  /\ UNCHANGED lock

Release(t) ==
  /\ step[t] = "releasing"
  /\ lock' = NoLock
  /\ GoesTo(t, "over")

LockStep(t) ==
  \/ Create(t) \/ WriteHolder(t) \/ CreateFails(t)
  \/ Inspect(t) \/ Reclaim(t)
  \/ BowOut(t) \/ Release(t)

\* The hour of the stale window passes, or has for a turn that looks now.
Ages ==
  /\ lock # NoLock
  /\ ~lock.old
  /\ lock.by \in Turns => (Outlast \/ step[lock.by] = "dead")
  /\ lock' = [lock EXCEPT !.old = TRUE]
  /\ UNCHANGED step

\* The process is killed, or fails where nothing catches it (createExclusive that
\* cannot write the holder, bowOut), and leaves the lockfile as it is.
Dies(t) ==
  /\ step[t] \notin {"idle"} \cup Ended
  /\ GoesTo(t, "dead")
  /\ UNCHANGED lock

ElectionNext ==
  \/ \E t \in Turns : Start(t) \/ LockStep(t) \/ Finish(t) \/ Dies(t)
  \/ Ages

ElectionSafety == ElectionInit /\ [][ElectionNext]_electionVars

\* A process under way goes on to its end unless it is killed, its agent's work
\* included (spawnAgent's timer ends an agent); nobody is obliged to start one.
ElectionSpec ==
  /\ ElectionSafety
  /\ \A t \in Turns : WF_electionVars(LockStep(t) \/ Finish(t))

-----------------------------------------------------------------------------
(***************************************************************************)
(* Properties.                                                             *)
(***************************************************************************)
\* No lock outlives its turn: a lockfile belongs to a turn still in office, to
\* one that was killed, or to an earlier turn (runTurn's finally, bowOut), even
\* when locks are reclaimed from living turns and turns share an actor's name.
LockIsAccountedFor ==
  lock # NoLock =>
    \/ lock.by = Earlier
    \/ step[lock.by] \in InOffice \cup {"dead"}

\* "A third agent racing the same reclamation still loses to whoever wins the atomic
\* create": of the turns of living processes one at most is elected, while none of them
\* is at work for longer than the stale window.
OneTurnElected == \A t, u \in Turns : step[t] = "elected" /\ step[u] = "elected" => t = u

\* "Only the holding agent may release": what a turn removes when it bows out is no
\* other actor's lock.
OnlyTheHolderReleases ==
  [][\A t \in Turns :
       step[t] = "releasing" /\ step'[t] = "over" /\ lock # NoLock =>
         lock.by # Earlier /\ RunBy[lock.by] = RunBy[t]]_electionVars

\* A constituency is never stranded: when all who stood are through and none was
\* killed, somebody was elected, even if an earlier turn left a lock that is old
\* or unreadable (standForElection, inspectLock).
ContestHasAWinner ==
  (/\ \A t \in Turns : step[t] \in {"idle"} \cup (Ended \ {"dead"})
   /\ \E t \in Turns : step[t] = "deferred") => \E t \in Turns : step[t] = "over"

\* Every turn that stands for election comes to its end, whoever else stands,
\* holds, reclaims or dies: it defers rather than waits (standForElection).
EveryTurnEnds == \A t \in Turns : step[t] = "standing" ~> step[t] \in Ended

=============================================================================

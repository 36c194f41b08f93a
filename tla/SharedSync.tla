----------------------------- MODULE SharedSync ----------------------------
(***************************************************************************)
(* A session shared through a git remote by several clones (ADR-0011).     *)
(* A command that acts runs inside withSync: fetch and fast-forward, act   *)
(* and commit, push; and when somebody else pushed first, discard the      *)
(* commit and do the act again on their record.  Nobody locks anything.    *)
(*                                                                         *)
(* politik cascade does not: it commits its alerts where they are.  And an *)
(* entry may be written and not committed, by a turn that failed or a      *)
(* command that was killed: the next commit takes it along.                *)
(*                                                                         *)
(* A ruling asked for by an AI harness is staged instead, as a ref on the  *)
(* remote, for the Speaker to confirm or reject from any clone.            *)
(*                                                                         *)
(* A clone runs one command at a time.  The network may lose a request or  *)
(* the answer to one, and a process may be killed between any two steps.   *)
(***************************************************************************)
EXTENDS Naturals, Sequences, FiniteSets

CONSTANTS Clones,         \* the clones of the session, one on each machine
          SpeakerClones,  \* those operated by the actor who rules
          Alerts,         \* what cascade may find, each known by its signature
          MaxCalls,       \* bound on the commands given on all of them
          Attempts,       \* withSync's attempts at an act (three)
          NotStaged,      \* what an act names that nobody staged
          NoJob           \* what a clone does that runs no command

ASSUME SharedAssumption ==
  /\ SpeakerClones \subseteq Clones
  /\ MaxCalls \in Nat
  /\ Attempts \in Nat \ {0}
  /\ NotStaged \notin [by : Clones, n : 1..MaxCalls]
  /\ Alerts \cap {"MOTION_TABLED", "SESSION_FAULT", "POINT_OF_ORDER", "RULING"} = {}

VARIABLES
  record,    \* the record on the remote
  local,     \* the record of each clone: its branch,
  tree,      \* and HANSARD.md in its working tree
  staged,    \* the pending refs on the remote
  mine,      \* the pending refs of each clone
  calls,     \* how many commands have been given
  step,      \* where the command under way on each clone stands
  job,       \* what that command is to do
  verdicts,  \* what the commands that ended told their callers
  rejected   \* the staged acts somebody rejected

remoteVars == <<record, staged>>
headVars == <<local, tree>>
cloneVars == <<headVars, mine>>
sharedVars == <<record, local, tree, staged, mine, calls, step, job, verdicts, rejected>>

Promise == INSTANCE SharedRecord
Lawful(r, a) == Promise!Lawful(r, a)

Steps == {"idle", "fetching", "earlier", "acting", "written", "pushing", "removing"}
Job == [act : Promise!Act, gated : BOOLEAN, attempt : 1..Attempts, start : Nat]
Says == {"shared", "local", "refused", "failed", "staged"}

TypeOK ==
  /\ record \in Seq(Promise!Act)
  /\ local \in [Clones -> Seq(Promise!Act)] /\ tree \in [Clones -> Seq(Promise!Act)]
  /\ staged \subseteq Promise!Command
  /\ mine \in [Clones -> SUBSET Promise!Command]
  /\ calls \in 0..MaxCalls
  /\ step \in [Clones -> Steps]
  /\ job \in [Clones -> Job \cup {NoJob}]
  /\ \A c \in Clones : step[c] # "idle" => job[c] \in Job
  /\ verdicts \subseteq [call : Promise!Command, says : Says]
  /\ rejected \subseteq Promise!Command

SharedInit ==
  /\ record = <<>> /\ staged = {} /\ verdicts = {} /\ rejected = {}
  /\ local = [c \in Clones |-> <<>>] /\ tree = local
  /\ mine = [c \in Clones |-> {}]
  /\ calls = 0
  /\ step = [c \in Clones |-> "idle"]
  /\ job = [c \in Clones |-> NoJob]

-----------------------------------------------------------------------------
(***************************************************************************)
(* Steps of a command.                                                     *)
(***************************************************************************)
GoesTo(c, s) == step' = [step EXCEPT ![c] = s]
Extends(s, r) == Len(r) <= Len(s) /\ SubSeq(s, 1, Len(r)) = r

\* The command ends and its caller is told how.
Ends(c) == GoesTo(c, "idle") /\ job' = [job EXCEPT ![c] = NoJob]
Tells(c, says) ==
  verdicts' = verdicts \cup {[call |-> job[c].act.call, says |-> says]}
Refuses(c) == Ends(c) /\ Tells(c, "refused")

\* An act was recorded; a confirmed one is no longer pending.
Recorded(c, says) ==
  /\ Tells(c, says)
  /\ IF job[c].act.staged = NotStaged THEN Ends(c)
     ELSE GoesTo(c, "removing") /\ UNCHANGED job

Starts(c, type, of, gated) ==
  /\ step[c] = "idle"
  /\ calls < MaxCalls
  /\ calls' = calls + 1
  /\ job' = [job EXCEPT ![c] =
       [act |-> [type |-> type, call |-> [by |-> c, n |-> calls'], staged |-> of],
        gated |-> gated, attempt |-> 1, start |-> 0]]
  /\ GoesTo(c, "fetching")
  /\ UNCHANGED <<remoteVars, verdicts, rejected>>

CallTypes == {"MOTION_TABLED", "POINT_OF_ORDER", "RULING"}

\* politik run, escalate or rule; a ruling that a harness asks for awaits the Speaker.
Call(c, type, gated) ==
  /\ gated => type = "RULING"
  /\ Starts(c, type, NotStaged, gated)
  /\ UNCHANGED cloneVars

\* The fetched pending refs become those of the remote (--prune).
Fetched(c) == mine' = [mine EXCEPT ![c] = staged]

\* fastForward: the branch moves only forward, never by a merge, and not when what it
\* brings is written differently in the tree.
Behind(c) == Extends(record, local[c]) /\ local[c] # record
Ahead(c) == Extends(local[c], record) /\ local[c] # record
FastForwards(c) ==
  \/ local[c] = record /\ UNCHANGED headVars
  \/ /\ Behind(c) /\ tree[c] = local[c]
     /\ local' = [local EXCEPT ![c] = record] /\ tree' = [tree EXCEPT ![c] = record]

\* refreshForRead: catches up if it can, silently if not.
Refreshes(c) ==
  \/ UNCHANGED cloneVars
  \/ /\ Fetched(c)
     /\ FastForwards(c) \/ UNCHANGED headVars

\* Faulty: what stayed behind is left for later.
CatchUpRegardless(c) ==
  /\ step[c] = "fetching"
  /\ Fetched(c)
  /\ \/ FastForwards(c) /\ GoesTo(c, "acting") /\ UNCHANGED <<job, verdicts>>
     \/ Ahead(c) /\ GoesTo(c, "acting") /\ UNCHANGED <<headVars, job, verdicts>>
     \/ local[c] # record /\ ~Ahead(c) /\ Refuses(c) /\ UNCHANGED headVars
  /\ UNCHANGED <<remoteVars, calls, rejected>>

\* The fetch reaches the remote.  A clone that is ahead pushes before it acts; one
\* that has diverged, or that uncommitted entries or edits block, refuses.
CatchUp(c) ==
  /\ step[c] = "fetching"
  /\ Fetched(c)
  /\ \/ FastForwards(c) /\ GoesTo(c, "acting") /\ UNCHANGED <<job, verdicts>>
     \/ Ahead(c) /\ GoesTo(c, "earlier") /\ UNCHANGED <<headVars, job, verdicts>>
     \/ local[c] # record /\ ~Ahead(c) /\ Refuses(c) /\ UNCHANGED headVars
  /\ UNCHANGED <<remoteVars, calls, rejected>>

Unreachable(c) ==
  /\ step[c] \in {"fetching", "earlier"}
  /\ Refuses(c)
  /\ UNCHANGED <<remoteVars, cloneVars, calls, rejected>>

\* Faulty: git push --force.
Forces(c) == record' = local[c]

\* git push takes a branch that extends the remote's, and no other.
Takes(c) == Extends(local[c], record) /\ record' = local[c]

\* Acts of an earlier command are shared first; the answer may be lost.
PushEarlier(c) ==
  /\ step[c] = "earlier"
  /\ \/ Takes(c) /\ GoesTo(c, "acting") /\ UNCHANGED <<job, verdicts>>
     \/ Takes(c) /\ Refuses(c)
     \/ ~Extends(local[c], record) /\ Refuses(c) /\ UNCHANGED record
  /\ UNCHANGED <<cloneVars, staged, calls, rejected>>

-----------------------------------------------------------------------------
(***************************************************************************)
(* The act itself, on the record this clone has now, whatever is in it.    *)
(***************************************************************************)
Writes(c, act) == tree' = [tree EXCEPT ![c] = Append(@, act)]

DoAct(c) ==
  /\ step[c] = "acting" /\ ~job[c].gated /\ Lawful(tree[c], job[c].act)
  /\ Writes(c, job[c].act)
  /\ GoesTo(c, "written")
  /\ UNCHANGED <<remoteVars, local, mine, calls, job, verdicts, rejected>>

\* Faulty: a confirmed act is removed from the pending ones however it ended.
RefuseAndRemove(c) ==
  /\ step[c] = "acting" /\ ~job[c].gated /\ ~Lawful(tree[c], job[c].act)
  /\ Recorded(c, "refused")
  /\ UNCHANGED <<remoteVars, cloneVars, calls, rejected>>

RefuseAct(c) ==
  /\ step[c] = "acting" /\ ~job[c].gated /\ ~Lawful(tree[c], job[c].act)
  /\ Refuses(c)
  /\ UNCHANGED <<remoteVars, cloneVars, calls, rejected>>

\* A turn whose agent failed: its entry is written and HEAD has not moved.  "The failure
\* is on the record."
FaultOf(act) == [act EXCEPT !.type = "SESSION_FAULT"]
FailTurn(c) ==
  /\ step[c] = "acting" /\ job[c].act.type = "MOTION_TABLED" /\ Lawful(tree[c], job[c].act)
  /\ Writes(c, FaultOf(job[c].act))
  /\ Ends(c) /\ Tells(c, "failed")
  /\ UNCHANGED <<remoteVars, local, mine, calls, rejected>>

\* commitAct(): the files are committed as they are.
CommitAct(c) ==
  /\ step[c] = "written"
  /\ local' = [local EXCEPT ![c] = tree[c]]
  /\ job' = [job EXCEPT ![c].start = Len(local[c])]
  /\ GoesTo(c, "pushing")
  /\ UNCHANGED <<remoteVars, tree, mine, calls, verdicts, rejected>>

\* politik cascade, which neither fetches nor pushes: an alert of each finding that the
\* record does not know is written, and committed unless it is killed there.
Cascade(c, alert) ==
  /\ step[c] = "idle"
  /\ calls < MaxCalls /\ calls' = calls + 1
  /\ \A k \in DOMAIN tree[c] : tree[c][k].type # alert
  /\ Writes(c, [type |-> alert, call |-> [by |-> c, n |-> calls'], staged |-> NotStaged])
  /\ local' \in {local, [local EXCEPT ![c] = tree'[c]]}
  /\ UNCHANGED <<remoteVars, mine, step, job, verdicts, rejected>>

\* awaitSpeaker, before anything is asked of the record.  writePendingRef: made here,
\* pushed, and unmade here if the push is not answered.
StageAct(c) ==
  LET id == job[c].act.call
  IN /\ step[c] = "acting" /\ job[c].gated
     /\ Ends(c)
     /\ \/ /\ staged' = staged \cup {id}
           /\ mine' = [mine EXCEPT ![c] = @ \cup {id}]
           /\ Tells(c, "staged")
        \/ staged' \in {staged, staged \cup {id}} /\ Tells(c, "refused") /\ UNCHANGED mine
     /\ UNCHANGED <<record, headVars, calls, rejected>>

\* The push is taken; taken and not answered; or it never arrived.
Push(c) ==
  /\ step[c] = "pushing"
  /\ \/ Takes(c) /\ Recorded(c, "shared")
     \/ (Takes(c) \/ UNCHANGED record) /\ Recorded(c, "local")
  /\ UNCHANGED <<cloneVars, staged, calls, rejected>>

\* Faulty: the first attempt stays where it is.
RetryKeeping(c) ==
  /\ step[c] = "pushing" /\ ~Extends(local[c], record)
  /\ job[c].act.type # "MOTION_TABLED" /\ job[c].attempt < Attempts
  /\ job' = [job EXCEPT ![c].attempt = @ + 1]
  /\ GoesTo(c, "fetching")
  /\ UNCHANGED <<remoteVars, cloneVars, calls, verdicts, rejected>>

\* The push is rejected: what was committed is discarded, the act and all it took along,
\* and the act done again, on what the others recorded.  A turn is not repeated, nor is
\* an act whose commit uncommitted edits keep from being discarded: those are told
\* "recorded locally" (Push).
Retry(c) ==
  /\ step[c] = "pushing" /\ ~Extends(local[c], record)
  /\ job[c].act.type # "MOTION_TABLED" /\ job[c].attempt < Attempts
  /\ job' = [job EXCEPT ![c].attempt = @ + 1]
  /\ local' = [local EXCEPT ![c] = SubSeq(@, 1, job[c].start)]
  /\ tree' = [tree EXCEPT ![c] = local'[c]]
  /\ GoesTo(c, "fetching")
  /\ UNCHANGED <<remoteVars, mine, calls, verdicts, rejected>>

Killed(c) ==
  /\ step[c] # "idle"
  /\ Ends(c)
  /\ UNCHANGED <<remoteVars, cloneVars, calls, verdicts, rejected>>

-----------------------------------------------------------------------------
(***************************************************************************)
(* Pending acts, and the commands that only move records.                  *)
(***************************************************************************)
\* deletePendingRef: nobody looks at the result of the push that deletes the ref.
Removes(c, id) ==
  /\ mine' = [mine EXCEPT ![c] = @ \ {id}]
  /\ staged' \in {staged, staged \ {id}}

\* politik confirm: the ref is read after a refresh, and the ruling it asks for is
\* done as any act, when the Speaker has typed its id.
Confirm(c, id) ==
  /\ c \in SpeakerClones
  /\ Refreshes(c)
  /\ id \in mine'[c]
  /\ Starts(c, "RULING", id, FALSE)

\* Done, so no longer pending.
RemovePending(c) ==
  /\ step[c] = "removing"
  /\ Removes(c, job[c].act.staged)
  /\ Ends(c)
  /\ UNCHANGED <<record, headVars, calls, verdicts, rejected>>

Reject(c, id) ==
  /\ step[c] = "idle"
  /\ id \in mine[c]
  /\ Removes(c, id)
  /\ rejected' = rejected \cup {id}
  /\ UNCHANGED <<record, headVars, calls, step, job, verdicts>>

\* politik status, hansard, pending and the other reads
Look(c) ==
  /\ step[c] = "idle"
  /\ Refreshes(c)
  /\ UNCHANGED <<remoteVars, calls, step, job, verdicts, rejected>>

\* politik sync.  The rebase of a diverged clone always conflicts, and is aborted:
\* both sides wrote at the end of HANSARD.md.
Sync(c) ==
  /\ step[c] = "idle"
  /\ Fetched(c)
  /\ \/ FastForwards(c) /\ UNCHANGED record
     \/ Ahead(c) /\ Takes(c) /\ UNCHANGED headVars
  /\ UNCHANGED <<staged, calls, step, job, verdicts, rejected>>

SharedNext ==
  \E c \in Clones :
    \/ \E type \in CallTypes, gated \in BOOLEAN : Call(c, type, gated)
    \/ CatchUp(c) \/ Unreachable(c) \/ PushEarlier(c)
    \/ DoAct(c) \/ RefuseAct(c) \/ FailTurn(c) \/ StageAct(c) \/ CommitAct(c)
    \/ Push(c) \/ Retry(c) \/ Killed(c)
    \/ \E alert \in Alerts : Cascade(c, alert)
    \/ \E id \in Promise!Command : Confirm(c, id) \/ Reject(c, id)
    \/ RemovePending(c) \/ Look(c) \/ Sync(c)

SharedSpec == SharedInit /\ [][SharedNext]_sharedVars

-----------------------------------------------------------------------------
(***************************************************************************)
(* Properties.                                                             *)
(***************************************************************************)
Ruled(r, id) == \E k \in DOMAIN r : r[k].staged = id

\* Whatever races, retries, lost answers and deaths there are, and whatever a commit or
\* a push takes along, the shared record only grows, by acts that are lawful where they
\* stand and were never added before (withSync, pushRecord, discardTo, syncNow).
ImplementsSharedRecord == Promise!Spec

\* What a command told its caller is so and stays so: an act said to be shared is on
\* the shared record, one said to be recorded locally is there or on that clone's
\* branch, and one that was refused, even after an attempt it had to discard, or that
\* was staged is nowhere, not even in a file (withSync).
VerdictsHold ==
  \A v \in verdicts :
    LET c == v.call.by
    IN /\ v.says = "shared" => Promise!Stands(record, v.call)
       /\ v.says = "local" => \/ Promise!Stands(record, v.call)
                              \/ Promise!Stands(local[c], v.call)
       /\ v.says \in {"refused", "staged"} =>
            /\ ~Promise!Stands(record, v.call)
            /\ \A d \in Clones : /\ ~Promise!Stands(local[d], v.call)
                                  /\ ~Promise!Stands(tree[d], v.call)

\* Of the acts a clone was told are recorded locally at most one is not shared: one
\* that stayed behind is shared before the next or stops it (fastForward, and the push
\* of what is ahead in withSync).
OneActLeftBehind ==
  \A v, w \in verdicts :
    v.says = "local" /\ w.says = "local" /\ v.call.by = w.call.by /\ v # w =>
      Promise!Stands(record, v.call) \/ Promise!Stands(record, w.call)

\* "Every governance command runs as: fetch and fast-forward; run the act, which commits
\* locally; push": so a clone's branch is the shared record as of some time and at most
\* one act more.
OneUnsharedAct ==
  \A c \in Clones :
    \E k \in 0..Len(local[c]) :
      /\ Len(local[c]) <= k + 1
      /\ Extends(record, SubSeq(local[c], 1, k))

\* "The failure is on the record": in the clone's files, if not yet on its branch or on
\* the shared record.
FailuresAreRecorded ==
  \A v \in verdicts :
    v.says = "failed" => \/ Promise!Stands(tree[v.call.by], v.call)
                         \/ Promise!Stands(record, v.call)

\* "Confirming or rejecting deletes the ref everywhere": what was rejected, or ruled on
\* the shared record by a command that has ended, is not pending on the remote.
DecidedIsNotPending ==
  \A id \in staged :
    /\ id \notin rejected
    /\ Ruled(record, id) => \E c \in Clones : step[c] # "idle" /\ job[c].act.staged = id

\* No staged act is lost: once its stager was told so it is pending on the remote
\* until it was rejected, or until its ruling is on the record, the shared one or
\* that of the clone that confirmed it (cmdConfirm, removePending, fetch --prune).
NoStagedActVanishes ==
  \A v \in verdicts :
    v.says = "staged" => \/ v.call \in staged \cup rejected
                         \/ Ruled(record, v.call)
                         \/ \E c \in Clones : Ruled(local[c], v.call)

=============================================================================

------------------------------- MODULE Floor -------------------------------
(***************************************************************************)
(* The working tree that the turns of a session share, what a turn reports *)
(* to have touched in it (runner.ts), and the conflicts that politik       *)
(* conflict finds in those reports (conflict.ts).                          *)
(*                                                                         *)
(* An agent is an opaque process: it edits files and may stage and commit  *)
(* them.  The runner asks git before and after, one question at a time,    *)
(* and reports what changed.  Turns and commands run side by side; each    *)
(* commits the record it wrote, and with it whatever an agent had staged.  *)
(*                                                                         *)
(* The session is a repository of its own, as a standalone Writ Drop makes *)
(* it; in a larger repository git names files from that one's root.        *)
(*                                                                         *)
(* Files are numbers in the order in which git status lists them, and so   *)
(* are their contents: 0 is what a file was at first, and of one that git  *)
(* does not know, that it is not there.  The record files are one,         *)
(* HansardFile, written and committed together.                            *)
(***************************************************************************)
EXTENDS Integers, Sequences, SequencesExt, FiniteSetsExt

CONSTANTS Turns,        \* turns of agents: a turn is actor@time on the record
          Files,        \* the files of the tree
          HansardFile,  \* the one RECORD owns
          Untracked,    \* files that git does not know yet
          LastContent,  \* agents write the contents 0..LastContent
          MaxEdits,     \* bound on the files an agent edits
          MaxActs       \* bound on the acts of the commands

ASSUME FloorAssumption ==
  /\ Files \subseteq Nat \ {0} /\ IsFiniteSet(Files)
  /\ HansardFile \in Files \ Untracked /\ Untracked \subseteq Files
  /\ IsFiniteSet(Turns) /\ LastContent \in Nat /\ MaxEdits \in Nat /\ MaxActs \in Nat

VARIABLES
  record,   \* HANSARD.md in the tree
  tree,     \* what each file holds in the working tree,
  index,    \* in git's index
  head,     \* and in HEAD
  turn,     \* what each turn has in memory
  done,     \* what really happened to it: what its agent edited, what others changed
  acts      \* how many acts there were
floorVars == <<record, tree, index, head, turn, done, acts>>

\* The entries that conflict.ts reads.
Reported(t, names) == [type |-> "TURN", unit |-> t, files |-> names]
Conflict(pair) == [type |-> "CONFLICT", motions |-> pair]
Resolved(pair) == [type |-> "CONFLICT_RESOLVED", motions |-> pair]

At(t, places) == turn[t].at \in places
Working(t) == At(t, {"working"})
Watching(t) == At(t, {"asked", "working", "ended"})
Told(t) == At(t, {"listed"})

\* A turn that has nothing in memory, and one to which nothing has happened.
Nothing(at) == [at |-> at, kept |-> <<>>, base |-> [f \in Files |-> 0], before |-> {},
                since |-> {}, files |-> {}]
NotYet == [found |-> {}, edited |-> {}, crossed |-> {}, undone |-> {}]

FloorInit ==
  /\ record = <<>>
  /\ tree = [f \in Files |-> 0] /\ index = tree /\ head = tree
  /\ turn = [t \in Turns |-> Nothing("idle")]
  /\ done = [t \in Turns |-> NotYet]
  /\ acts = 0

-----------------------------------------------------------------------------
(***************************************************************************)
(* dirtyFiles(): the lines of git status --porcelain, each without its     *)
(* first three characters.  The output is trimmed as a whole first, so the *)
(* first line, when it is a modification that is not staged (" M name"),   *)
(* loses its blank and then the first letter of its name.  Files that git  *)
(* does not know come last.                                                *)
(***************************************************************************)
Cut(f) == -f

dirty == {f \in Files : tree[f] # index[f] \/ index[f] # head[f]}
known == {f \in Files : f \notin Untracked \/ index[f] # 0 \/ head[f] # 0}
unstaged == {f \in Files : index[f] = head[f]}

dirtyFiles ==
  LET changed == dirty \cap known
      first == IF changed = {} THEN {} ELSE {Min(changed)} \cap unstaged
  IN (dirty \ first) \cup {Cut(f) : f \in first}

newlyDirty(t) == dirtyFiles \ turn[t].before

\* Faulty: only what is left in the tree, as an earlier version had it.
leftInTree(t) == newlyDirty(t)

\* Faulty: git is asked when the turn has written its record.
touchedAndRecord(t) == turn[t].since \cup newlyDirty(t) \cup {HansardFile}

\* What differs between the HEAD before and the one after, and what is left in the
\* tree now that was not before.
filesTouched(t) == turn[t].since \cup newlyDirty(t)

-----------------------------------------------------------------------------
(***************************************************************************)
(* A turn, and the agent at work in it.                                    *)
(***************************************************************************)
\* What a step changes in the tree or in HEAD, the turns that watch find changed, but
\* for the one whose step it is.
Changed == {f \in Files : tree'[f] # tree[f] \/ head'[f] # head[f]}
Crossed(t) == IF Watching(t) THEN [done[t] EXCEPT !.crossed = @ \cup Changed] ELSE done[t]
Crosses(t, own) == done' = [u \in Turns |-> IF u = t THEN own ELSE Crossed(u)]
CrossesAll == done' = [u \in Turns |-> Crossed(u)]

\* runTurn reads the record,
Start(t) ==
  /\ At(t, {"idle"})
  /\ turn' = [turn EXCEPT ![t] = [@ EXCEPT !.at = "started", !.kept = record]]
  /\ UNCHANGED <<record, tree, index, head, done, acts>>

\* then HEAD,
AsksBefore(t) ==
  /\ At(t, {"started"})
  /\ turn' = [turn EXCEPT ![t] = [@ EXCEPT !.at = "asked", !.base = head]]
  /\ UNCHANGED <<record, tree, index, head, done, acts>>

\* then the state of the tree, and spawns the agent.
ListsBefore(t) ==
  /\ At(t, {"asked"})
  /\ turn' = [turn EXCEPT ![t] = [@ EXCEPT !.at = "working", !.before = dirtyFiles]]
  /\ done' = [done EXCEPT ![t] = [@ EXCEPT !.found = dirty]]
  /\ UNCHANGED <<record, tree, index, head, acts>>

\* The agent edits a file, stages it, and commits what is staged: "Commit your result;
\* uncommitted work does not exist."
AgentEdits(t, f, c) ==
  /\ Working(t)
  /\ c # tree[f] /\ Cardinality(done[t].edited \cup {f}) <= MaxEdits
  /\ tree' = [tree EXCEPT ![f] = c]
  /\ UNCHANGED <<record, index, head, turn, acts>>
  /\ Crosses(t, [done[t] EXCEPT !.edited = @ \cup {f}])

AgentStages(t, f) ==
  /\ Working(t)
  /\ tree[f] # index[f]
  /\ index' = [index EXCEPT ![f] = tree[f]]
  /\ UNCHANGED <<record, tree, head, turn, done, acts>>

AgentCommits(t) ==
  /\ Working(t)
  /\ index # head
  /\ head' = index
  /\ UNCHANGED <<record, tree, index, turn, acts>>
  /\ Crosses(t, done[t])

\* The agent has exited: filesTouched reads HEAD, for a git diff of the two,
AsksAfter(t) ==
  /\ Working(t)
  /\ turn' = [turn EXCEPT ![t] = [@ EXCEPT !.at = "ended",
                !.since = {f \in Files : head[f] # turn[t].base[f]}]]
  /\ UNCHANGED <<record, tree, index, head, done, acts>>

\* and then the state of the tree.
ListsAfter(t) ==
  /\ At(t, {"ended"})
  /\ turn' = [turn EXCEPT ![t] = [Nothing("listed") EXCEPT !.kept = turn[t].kept,
                                                           !.files = filesTouched(t)]]
  /\ done' = [done EXCEPT ![t] = [@ EXCEPT
                !.undone = {f \in Files : tree[f] = turn[t].base[f]}]]
  /\ UNCHANGED <<record, tree, index, head, acts>>

\* The content of a record that is written: never what it was before, as each entry
\* has its time.
Stamp == LastContent + 1 + acts + Cardinality({t \in Turns : At(t, {"committing", "over"})})

\* The turn is over: its entry is added to the record it read, which is written
\* over whatever the record has become.  Only a turn that ended well is committed.
Ends(t, well) ==
  /\ At(t, {"listed"})
  /\ record' = Append(turn[t].kept, Reported(t, turn[t].files))
  /\ tree' = [tree EXCEPT ![HansardFile] = Stamp]
  /\ turn' = [turn EXCEPT ![t] = Nothing(IF well THEN "committing" ELSE "over")]
  /\ UNCHANGED <<index, head, acts>>
  /\ Crosses(t, NotYet)

\* commitRecord(): git add of the record, and a commit of the index, if it differs.
CommitsRecord ==
  /\ index' = [index EXCEPT ![HansardFile] = tree'[HansardFile]]
  /\ head' = index'

Commit(t) ==
  /\ At(t, {"committing"})
  /\ UNCHANGED <<record, tree, acts>>
  /\ CommitsRecord
  /\ turn' = [turn EXCEPT ![t] = Nothing("over")]
  /\ CrossesAll

-----------------------------------------------------------------------------
(***************************************************************************)
(* Conflicts on the record.                                                *)
(***************************************************************************)
\* The reports that name a file; each is a unit of work.
touched(h) == {k \in DOMAIN h : h[k].type = "TURN" /\ h[k].files # {}}
Pairs(K) == {p \in K \X K : p[1] < p[2]}

\* Pairs in the order of a loop within a loop.
Precedes(p, q) == p[1] < q[1] \/ (p[1] = q[1] /\ p[2] < q[2])
inPairOrder(S) ==
  [i \in 1..Cardinality(S) |-> CHOOSE p \in S : Cardinality({q \in S : Precedes(q, p)}) = i - 1]

\* Faulty: a unit is its list of files, as an earlier version had it.
conflictsByFiles(h) ==
  LET found == inPairOrder({p \in Pairs(touched(h)) :
                              /\ h[p[1]].files \cap h[p[2]].files # {}
                              /\ h[p[1]].files # h[p[2]].files})
  IN [i \in DOMAIN found |-> <<h[found[i][1]].unit, h[found[i][2]].unit>>]

overlaps(h) == {p \in Pairs(touched(h)) : h[p[1]].files \cap h[p[2]].files # {}}
detectRecordConflicts(h) ==
  LET found == inPairOrder(overlaps(h))
  IN [i \in DOMAIN found |-> <<h[found[i][1]].unit, h[found[i][2]].unit>>]

openConflicts(h) ==
  {h[k].motions : k \in {j \in DOMAIN h :
     /\ h[j].type = "CONFLICT"
     /\ \A i \in (j + 1)..Len(h) : h[i] # Resolved(h[j].motions)}}

\* An act of a command reads the record, adds to it and commits it.
Records(entries) ==
  /\ acts < MaxActs /\ acts' = acts + 1
  /\ record' = record \o entries
  /\ tree' = [tree EXCEPT ![HansardFile] = Stamp]
  /\ CommitsRecord
  /\ UNCHANGED turn
  /\ CrossesAll

\* conflict check records every overlap, known or not.
CheckConflicts ==
  \E found \in {detectRecordConflicts(record)} :
    /\ found # <<>>
    /\ Records([i \in DOMAIN found |-> Conflict(found[i])])

\* conflict resolve asks only for two names: here those of a conflict there was, in
\* either order.
ResolveConflict(pair) ==
  /\ \E k \in DOMAIN record : record[k] \in {Conflict(pair), Conflict(Reverse(pair))}
  /\ Records(<<Resolved(pair)>>)

FloorNext ==
  \/ \E t \in Turns :
       \/ Start(t) \/ AsksBefore(t) \/ ListsBefore(t)
       \/ \E f \in Files : \/ \E c \in 0..LastContent : AgentEdits(t, f, c)
                           \/ AgentStages(t, f)
       \/ AgentCommits(t) \/ AsksAfter(t) \/ ListsAfter(t)
       \/ \E well \in BOOLEAN : Ends(t, well)
       \/ Commit(t)
  \/ CheckConflicts
  \/ \E pair \in Turns \X Turns : ResolveConflict(pair)

FloorSpec == FloorInit /\ [][FloorNext]_floorVars

-----------------------------------------------------------------------------
(***************************************************************************)
(* Properties.                                                             *)
(***************************************************************************)
\* What an agent made of a file is in the report of its turn, committed or left in the
\* tree, if only without its first letter, unless the tree has the file as HEAD had it
\* before, the file was found changed, or somebody else changed or committed it too
\* before git was asked for the last time (filesTouched, between whose questions others
\* go on).
WorkIsReported ==
  \A t \in Turns : Told(t) =>
    \A f \in done[t].edited \ (done[t].undone \cup done[t].found \cup done[t].crossed) :
      f \in turn[t].files \/ Cut(f) \in turn[t].files

\* "Files the agent touched -- committed *or* left in the tree", whatever others do:
\* what an agent edited, and nobody put back or had changed before, is in the report.
NothingIsMissed ==
  \A t \in Turns : Told(t) =>
    \A f \in done[t].edited \ (done[t].undone \cup done[t].found) :
      f \in turn[t].files \/ Cut(f) \in turn[t].files

\* A turn is accused of writing the record (the Standing Orders violation of
\* runTurn) only if its agent did, or somebody wrote or committed it meanwhile, or
\* an earlier turn that failed had left it uncommitted.
AccusedNotForNothing ==
  \A t \in Turns : Told(t) /\ HansardFile \in turn[t].files =>
    HansardFile \in done[t].edited \cup done[t].found \cup done[t].crossed

SaysNoConflicts == detectRecordConflicts(record) = <<>>

Share(h, t, u) ==
  \E i, j \in DOMAIN h :
    /\ h[i].type = "TURN" /\ h[j].type = "TURN"
    /\ h[i].unit = t /\ h[j].unit = u
    /\ h[i].files \cap h[j].files # {}

\* A check leaves every overlap of two reports on the record as an open conflict,
\* and none between turns that share no file, and one that says "no conflicts", which
\* changes nothing, is right (detectRecordConflicts, cmdConflict: keying units by their
\* files, or keeping only the last entry, lost some).
EveryOverlapIsFound ==
  [][/\ CheckConflicts =>
          \A t, u \in Turns : t # u =>
            (Share(record, t, u)
               <=> {<<t, u>>, <<u, t>>} \cap openConflicts(record') # {})
     /\ SaysNoConflicts =>
          \A t, u \in Turns : t # u => ~Share(record, t, u)]_floorVars

=============================================================================

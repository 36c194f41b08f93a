----------------------------- MODULE FloorProofs ----------------------------
(***************************************************************************)
(* What a turn reports to have touched, however many turns are at work in  *)
(* the tree and whatever they edit; and the conflicts found in reports.    *)
(*                                                                         *)
(* The argument.  While a turn is watched, a file that it did not find     *)
(* changed, that its agent did not edit and that nobody else changed is in *)
(* the tree, in the index and in HEAD what it was (Untouched); so what git *)
(* names is of a file with a history.  And of a file that nobody else      *)
(* changed, git diff says truly whether HEAD still has it as it was        *)
(* (Compared); if so, and the tree has not, git status names it.           *)
(***************************************************************************)
EXTENDS Floor, FiniteSetTheorems, TLAPS

\* What the record holds, and what a turn has in memory.
FloorEntry ==
  [type : {"TURN"}, unit : Turns, files : SUBSET Int]
    \cup [type : {"CONFLICT"}, motions : Turns \X Turns]
    \cup [type : {"CONFLICT_RESOLVED"}, motions : Turns \X Turns]

Memory == [at : {"idle", "started", "asked", "working", "ended", "listed", "committing", "over"},
           kept : Seq(FloorEntry), base : [Files -> Nat], before : SUBSET Int,
           since : SUBSET Files, files : SUBSET Int]
Happened == [found : SUBSET Files, edited : SUBSET Files, crossed : SUBSET Files,
             undone : SUBSET Files]

Shapes ==
  /\ tree \in [Files -> Nat] /\ index \in [Files -> Nat] /\ head \in [Files -> Nat]
  /\ turn \in [Turns -> Memory] /\ done \in [Turns -> Happened] /\ acts \in Nat

Alone(t) == Files \ done[t].crossed

\* HEAD is what the turn read, but for what others committed,
Based(t) == \A f \in Alone(t) : head[f] = turn[t].base[f]

\* and nothing has moved that the agent had no hand in.
Untouched(t) ==
  \A f \in Alone(t) \ (done[t].found \cup done[t].edited) :
    /\ tree[f] = index[f] /\ index[f] = head[f] /\ head[f] = turn[t].base[f]

\* The first list of git status is of what the turn found.
Listed(t) ==
  \A x \in turn[t].before : x \in done[t].found \/ \E f \in done[t].found : x = Cut(f)

\* What git diff names is what HEAD has otherwise than it was.
Compared(t) == \A f \in Alone(t) : f \in turn[t].since <=> head[f] # turn[t].base[f]

\* What the two properties say of a turn that has its report.
ReportIsTrue(t) ==
  /\ \A f \in done[t].edited \ (done[t].undone \cup done[t].found \cup done[t].crossed) :
       f \in turn[t].files \/ Cut(f) \in turn[t].files
  /\ HansardFile \in turn[t].files =>
       HansardFile \in done[t].edited \cup done[t].found \cup done[t].crossed

TurnInv(t) ==
  /\ At(t, {"asked"}) => Based(t)
  /\ At(t, {"working", "ended"}) => Untouched(t) /\ Listed(t)
  /\ At(t, {"ended"}) => Compared(t)
  /\ Told(t) => ReportIsTrue(t)

FloorInv == Shapes /\ \A t \in Turns : TurnInv(t)

-----------------------------------------------------------------------------
(***************************************************************************)
(* git status.                                                             *)
(***************************************************************************)
\* A name that lost its first letter is the name of no file.
LEMMA CutIsNoFile ==
  ASSUME NEW f \in Files, NEW g \in Files
  PROVE  /\ Cut(f) # g
         /\ Cut(f) = Cut(g) => f = g
  BY FloorAssumption DEF Cut

\* Files that there are have a first one: the sets of those up to some k are
\* well-founded under inclusion.
LEMMA FirstIsFirst ==
  ASSUME NEW K \in SUBSET Files, K # {}
  PROVE  Min(K) \in K
<1> DEFINE UpTo(k) == {j \in K : j <= k}
           Heads == {UpTo(k) : k \in K}
<1>1. IsFiniteSet(Files) /\ Files \subseteq Nat
  BY FloorAssumption
<1>2. Heads \subseteq FiniteSubsetsOf(Files)
  BY <1>1, FS_Subset DEF FiniteSubsetsOf
<1>3. Heads # {}
  OBVIOUS
<1>4. IsWellFoundedOn(StrictSubsetOrdering(Files), FiniteSubsetsOf(Files))
  BY FS_StrictSubsetOrderingWellFounded
<1>5. PICK H \in Heads : \A G \in Heads : ~ (<<G, H>> \in StrictSubsetOrdering(Files))
  BY <1>2, <1>3, <1>4, WFMin
<1>6. PICK k \in K : H = UpTo(k)
  OBVIOUS
<1>7. ASSUME NEW j \in K
      PROVE  k <= j
  <2>1. SUFFICES ASSUME j < k PROVE FALSE
    BY <1>1
  <2>2. UpTo(j) \in Heads /\ UpTo(j) \subseteq Files /\ H \subseteq Files
    BY <1>6
  <2>3. UpTo(j) \subseteq H /\ UpTo(j) # H
    <3>1. \A i \in UpTo(j) : i \in UpTo(k)
      BY <1>1, <2>1
    <3>2. k \in UpTo(k) /\ k \notin UpTo(j)
      BY <1>1, <2>1
    <3> QED
      BY <1>6, <3>1, <3>2
  <2>4. <<UpTo(j), H>> \in StrictSubsetOrdering(Files)
    BY <2>2, <2>3 DEF StrictSubsetOrdering
  <2> QED
    BY <1>5, <2>2, <2>4
<1> QED
  BY <1>7 DEF Min
\* dirtyFiles lists each file that differs, whole or cut, and nothing else.
LEMMA DirtyFiles ==
  /\ \A x \in dirtyFiles : x \in dirty \/ \E f \in dirty : x = Cut(f)
  /\ \A f \in dirty : f \in dirtyFiles \/ Cut(f) \in dirtyFiles
  /\ dirtyFiles \subseteq Int
<1> DEFINE changed == dirty \cap known
           first == IF changed = {} THEN {} ELSE {Min(changed)} \cap unstaged
<1>1. first \subseteq dirty /\ dirty \subseteq Files
  <2>1. changed \in SUBSET Files /\ changed \subseteq dirty /\ dirty \subseteq Files
    BY DEF dirty
  <2> HIDE DEF changed
  <2> QED
    BY <2>1, FirstIsFirst
<1>2. dirtyFiles = (dirty \ first) \cup {Cut(f) : f \in first}
  BY DEF dirtyFiles
<1>3. \A f \in Files : f \in Int /\ Cut(f) \in Int
  BY FloorAssumption DEF Cut
<1> HIDE DEF first
<1> QED
  BY <1>1, <1>2, <1>3

\* What is listed now and was not when the turn began is of a file that differs now;
\* and a file that differs now and did not then is listed.
LEMMA NewlyDirty ==
  ASSUME Shapes, NEW t \in Turns, Listed(t)
  PROVE  /\ \A f \in Files : f \in newlyDirty(t) => f \in dirty
         /\ \A f \in dirty \ done[t].found : f \in newlyDirty(t) \/ Cut(f) \in newlyDirty(t)
         /\ newlyDirty(t) \subseteq Int
<1>1. /\ dirty \subseteq Files /\ done[t].found \subseteq Files
      /\ \A x \in dirtyFiles : x \in dirty \/ \E f \in dirty : x = Cut(f)
      /\ \A f \in dirty : f \in dirtyFiles \/ Cut(f) \in dirtyFiles
      /\ dirtyFiles \subseteq Int
  BY DirtyFiles DEF Shapes, Happened, dirty
<1>2. ASSUME NEW f \in Files, f \in newlyDirty(t)
      PROVE  f \in dirty
  BY <1>1, <1>2, CutIsNoFile DEF newlyDirty
<1>3. ASSUME NEW f \in dirty \ done[t].found
      PROVE  f \notin turn[t].before /\ Cut(f) \notin turn[t].before
  <2>1. \A g \in done[t].found : f # g /\ f # Cut(g) /\ Cut(f) # g /\ Cut(f) # Cut(g)
    BY <1>1, <1>3, CutIsNoFile
  <2> QED
    BY <2>1 DEF Listed
<1> QED
  BY <1>1, <1>2, <1>3 DEF newlyDirty

-----------------------------------------------------------------------------
(***************************************************************************)
(* The turn that acts, and the others meanwhile.                           *)
(***************************************************************************)
\* What happens to a turn that others cross.
LEMMA CrossedBy ==
  ASSUME Shapes, NEW t \in Turns
  PROVE  /\ Crossed(t) \in Happened
         /\ Crossed(t).found = done[t].found /\ Crossed(t).edited = done[t].edited
         /\ Crossed(t).undone = done[t].undone
         /\ Crossed(t).crossed = done[t].crossed \cup (IF Watching(t) THEN Changed ELSE {})
         /\ ~Watching(t) => Crossed(t) = done[t]
<1> DEFINE C == Changed
<1>1. done[t] \in Happened /\ C \subseteq Files /\ C = Changed
  BY DEF Shapes, Changed
<1> HIDE DEF C
<1> QED
  BY <1>1 DEF Crossed, Happened

\* A turn that does not act: what becomes of a file is what its index was, or its tree
\* is, and the turn is crossed in what changes.
LEMMA OtherTurn ==
  ASSUME FloorInv, NEW t \in Turns, turn'[t] = turn[t],
         done'[t] = Crossed(t) \/ (done'[t] = done[t] /\ Changed = {}),
         \A f \in Files : index'[f] \in {index[f], tree'[f]}
  PROVE  TurnInv(t)'
<1>1. TurnInv(t) /\ Shapes
  BY DEF FloorInv
<1>2. /\ \A f \in Files : f \notin Changed => tree'[f] = tree[f] /\ head'[f] = head[f]
      /\ done'[t].found = done[t].found /\ done'[t].edited = done[t].edited
      /\ Watching(t) => done'[t].crossed = done[t].crossed \cup Changed
      /\ ~Watching(t) => done'[t] = done[t]
  BY <1>1, CrossedBy DEF Changed
<1>3. \A places : At(t, places)' <=> At(t, places)
  BY DEF At
<1>4. At(t, {"asked"})' => Based(t)'
  BY <1>1, <1>2, <1>3 DEF TurnInv, Based, Alone, Watching, At
<1>5. At(t, {"working", "ended"})' => Untouched(t)' /\ Listed(t)'
  <2>1. SUFFICES ASSUME At(t, {"working", "ended"}) PROVE Untouched(t)' /\ Listed(t)'
    BY DEF At
  <2>2. Untouched(t) /\ Listed(t) /\ Watching(t)
    BY <1>1, <2>1 DEF TurnInv, Watching, At
  <2>3. Listed(t)'
    BY <1>2, <2>2 DEF Listed
  <2>4. ASSUME NEW f \in Alone(t)' \ (done'[t].found \cup done'[t].edited)
        PROVE  /\ tree'[f] = index'[f] /\ index'[f] = head'[f]
               /\ head'[f] = turn'[t].base[f]
    BY <1>2, <2>2 DEF Untouched, Alone
  <2> QED
    BY <2>3, <2>4 DEF Untouched
<1>6. At(t, {"ended"})' => Compared(t)'
  BY <1>1, <1>2, <1>3 DEF TurnInv, Compared, Alone, Watching, At
<1>7. Told(t)' => ReportIsTrue(t)'
  BY <1>1, <1>2, <1>3 DEF TurnInv, Told, ReportIsTrue, Watching, At
<1> QED
  BY <1>4, <1>5, <1>6, <1>7 DEF TurnInv

LEMMA StepStart ==
  ASSUME FloorInv, record \in Seq(FloorEntry), NEW t \in Turns, Start(t)
  PROVE  FloorInv'
<1> DEFINE m == [turn[t] EXCEPT !.at = "started", !.kept = record]
<1>1. /\ Shapes /\ turn' = [turn EXCEPT ![t] = m] /\ turn[t] \in Memory
      /\ UNCHANGED <<tree, index, head, done, acts>>
  BY DEF FloorInv, Shapes, Start
<1>2. m \in Memory /\ m.at = "started"
  BY <1>1 DEF Memory
<1> HIDE DEF m
<1>3. turn'[t] = m /\ \A u \in Turns \ {t} : turn'[u] = turn[u]
  BY <1>1 DEF Shapes
<1>4. Shapes'
  BY <1>1, <1>2 DEF Shapes
<1>5. Changed = {}
  BY <1>1 DEF Changed
<1>6. \A u \in Turns \ {t} : TurnInv(u)'
  BY <1>1, <1>3, <1>5, OtherTurn
<1>7. TurnInv(t)'
  BY <1>2, <1>3 DEF TurnInv, At, Told
<1> QED
  BY <1>4, <1>6, <1>7 DEF FloorInv

LEMMA StepAsksBefore ==
  ASSUME FloorInv, NEW t \in Turns, AsksBefore(t)
  PROVE  FloorInv'
<1> DEFINE m == [turn[t] EXCEPT !.at = "asked", !.base = head]
<1>1. /\ Shapes /\ turn' = [turn EXCEPT ![t] = m] /\ turn[t] \in Memory
      /\ UNCHANGED <<tree, index, head, done, acts>> /\ head \in [Files -> Nat]
  BY DEF FloorInv, Shapes, AsksBefore
<1>2. m \in Memory /\ m.at = "asked" /\ m.base = head
  BY <1>1 DEF Memory
<1> HIDE DEF m
<1>3. turn'[t] = m /\ \A u \in Turns \ {t} : turn'[u] = turn[u]
  BY <1>1 DEF Shapes
<1>4. Shapes'
  BY <1>1, <1>2 DEF Shapes
<1>5. Changed = {}
  BY <1>1 DEF Changed
<1>6. \A u \in Turns \ {t} : TurnInv(u)'
  BY <1>1, <1>3, <1>5, OtherTurn
<1>7. TurnInv(t)'
  BY <1>1, <1>2, <1>3 DEF TurnInv, At, Told, Based
<1> QED
  BY <1>4, <1>6, <1>7 DEF FloorInv

LEMMA StepListsBefore ==
  ASSUME FloorInv, NEW t \in Turns, ListsBefore(t)
  PROVE  FloorInv'
<1> DEFINE m == [turn[t] EXCEPT !.at = "working", !.before = dirtyFiles]
           d == [done[t] EXCEPT !.found = dirty]
<1>1. /\ Shapes /\ TurnInv(t) /\ At(t, {"asked"})
      /\ turn' = [turn EXCEPT ![t] = m] /\ turn[t] \in Memory
      /\ done' = [done EXCEPT ![t] = d] /\ done[t] \in Happened
      /\ UNCHANGED <<tree, index, head, acts>>
  BY DEF FloorInv, Shapes, ListsBefore
<1>2. m \in Memory /\ m.at = "working" /\ m.before = dirtyFiles /\ m.base = turn[t].base
  BY <1>1, DirtyFiles DEF Memory
<1>3. d \in Happened /\ d.found = dirty /\ d.crossed = done[t].crossed /\ dirty \subseteq Files
  BY <1>1 DEF Happened, dirty
<1> HIDE DEF m, d
<1>4. /\ turn'[t] = m /\ \A u \in Turns \ {t} : turn'[u] = turn[u]
      /\ done'[t] = d /\ \A u \in Turns \ {t} : done'[u] = done[u]
  BY <1>1 DEF Shapes
<1>5. Shapes'
  BY <1>1, <1>2, <1>3 DEF Shapes
<1>6. Changed = {}
  BY <1>1 DEF Changed
<1>7. \A u \in Turns \ {t} : TurnInv(u)'
  BY <1>1, <1>4, <1>6, OtherTurn
<1>8. TurnInv(t)'
  <2>1. Based(t)
    BY <1>1 DEF TurnInv
  <2>2. Untouched(t)'
    BY <1>1, <1>2, <1>3, <1>4, <2>1 DEF Untouched, Based, Alone, dirty
  <2>3. Listed(t)'
    BY <1>2, <1>3, <1>4, DirtyFiles DEF Listed
  <2> QED
    BY <1>2, <1>4, <2>2, <2>3 DEF TurnInv, At, Told
<1> QED
  BY <1>5, <1>7, <1>8 DEF FloorInv

\* What an agent edits is in the tree, and crosses the others.
LEMMA StepEdits ==
  ASSUME FloorInv, NEW t \in Turns, NEW f \in Files, NEW c \in 0..LastContent,
         AgentEdits(t, f, c)
  PROVE  FloorInv'
<1> DEFINE d == [done[t] EXCEPT !.edited = @ \cup {f}]
<1>1. /\ Shapes /\ TurnInv(t) /\ At(t, {"working"}) /\ c \in Nat
      /\ tree' = [tree EXCEPT ![f] = c] /\ UNCHANGED <<index, head, turn, acts>>
      /\ done' = [u \in Turns |-> IF u = t THEN d ELSE Crossed(u)]
  BY FloorAssumption DEF FloorInv, Shapes, AgentEdits, Working, Crosses
<1>2. /\ d \in Happened /\ d.found = done[t].found /\ d.crossed = done[t].crossed
      /\ d.edited = done[t].edited \cup {f}
  BY <1>1 DEF Shapes, Happened
<1> HIDE DEF d
<1>3. Shapes'
  BY <1>1, <1>2, CrossedBy DEF Shapes
<1>4. \A u \in Turns \ {t} : TurnInv(u)'
  BY <1>1, OtherTurn
<1>5. TurnInv(t)'
  <2>1. Untouched(t) /\ Listed(t)
    BY <1>1 DEF TurnInv, At
  <2>2. Untouched(t)' /\ Listed(t)'
    BY <1>1, <1>2, <2>1 DEF Untouched, Listed, Alone, Shapes
  <2> QED
    BY <1>1, <2>2 DEF TurnInv, At, Told
<1> QED
  BY <1>3, <1>4, <1>5 DEF FloorInv

LEMMA StepStages ==
  ASSUME FloorInv, NEW t \in Turns, NEW f \in Files, AgentStages(t, f)
  PROVE  FloorInv'
<1>1. /\ Shapes /\ index' = [index EXCEPT ![f] = tree[f]]
      /\ UNCHANGED <<tree, head, turn, done, acts>>
  BY DEF FloorInv, AgentStages
<1>2. Shapes'
  BY <1>1 DEF Shapes
<1>3. Changed = {} /\ \A g \in Files : index'[g] \in {index[g], tree'[g]}
  BY <1>1 DEF Changed, Shapes
<1>4. \A u \in Turns : TurnInv(u)'
  BY <1>1, <1>3, OtherTurn
<1> QED
  BY <1>2, <1>4 DEF FloorInv

LEMMA StepCommits ==
  ASSUME FloorInv, NEW t \in Turns, AgentCommits(t)
  PROVE  FloorInv'
<1>1. /\ Shapes /\ TurnInv(t) /\ At(t, {"working"})
      /\ head' = index /\ UNCHANGED <<tree, index, turn, acts>>
      /\ done' = [u \in Turns |-> IF u = t THEN done[t] ELSE Crossed(u)]
  BY DEF FloorInv, AgentCommits, Working, Crosses
<1>2. Shapes'
  BY <1>1, CrossedBy DEF Shapes
<1>3. \A u \in Turns \ {t} : TurnInv(u)'
  BY <1>1, OtherTurn
<1>4. TurnInv(t)'
  <2>1. Untouched(t) /\ Listed(t)
    BY <1>1 DEF TurnInv, At
  <2>2. Untouched(t)' /\ Listed(t)'
    BY <1>1, <2>1 DEF Untouched, Listed, Alone
  <2> QED
    BY <1>1, <2>2 DEF TurnInv, At, Told
<1> QED
  BY <1>2, <1>3, <1>4 DEF FloorInv

LEMMA StepAsksAfter ==
  ASSUME FloorInv, NEW t \in Turns, AsksAfter(t)
  PROVE  FloorInv'
<1> DEFINE since == {f \in Files : head[f] # turn[t].base[f]}
           m == [turn[t] EXCEPT !.at = "ended", !.since = since]
<1>1. /\ Shapes /\ TurnInv(t) /\ At(t, {"working"})
      /\ turn' = [turn EXCEPT ![t] = m] /\ turn[t] \in Memory
      /\ UNCHANGED <<tree, index, head, done, acts>>
  BY DEF FloorInv, Shapes, AsksAfter, Working
<1>2. /\ m \in Memory /\ m.at = "ended" /\ m.since = since
      /\ m.base = turn[t].base /\ m.before = turn[t].before
  <2>1. since \in SUBSET Files
    OBVIOUS
  <2> HIDE DEF since
  <2> QED
    BY <1>1, <2>1 DEF Memory
<1> HIDE DEF m
<1>3. turn'[t] = m /\ \A u \in Turns \ {t} : turn'[u] = turn[u]
  BY <1>1 DEF Shapes
<1>4. Shapes'
  BY <1>1, <1>2 DEF Shapes
<1>5. Changed = {}
  BY <1>1 DEF Changed
<1>6. \A u \in Turns \ {t} : TurnInv(u)'
  BY <1>1, <1>3, <1>5, OtherTurn
<1>7. TurnInv(t)'
  <2>1. Untouched(t) /\ Listed(t)
    BY <1>1 DEF TurnInv, At
  <2>2. Untouched(t)' /\ Listed(t)' /\ Compared(t)'
    BY <1>1, <1>2, <1>3, <2>1 DEF Untouched, Listed, Compared, Alone
  <2> QED
    BY <1>2, <1>3, <2>2 DEF TurnInv, At, Told
<1> QED
  BY <1>4, <1>6, <1>7 DEF FloorInv

\* A turn that has asked git for the last time has a true report.
LEMMA StepListsAfter ==
  ASSUME FloorInv, NEW t \in Turns, ListsAfter(t)
  PROVE  FloorInv'
<1> DEFINE m == [Nothing("listed") EXCEPT !.kept = turn[t].kept, !.files = filesTouched(t)]
           back == {f \in Files : tree[f] = turn[t].base[f]}
           d == [done[t] EXCEPT !.undone = back]
<1>1. /\ Shapes /\ TurnInv(t) /\ At(t, {"ended"})
      /\ turn' = [turn EXCEPT ![t] = m] /\ turn[t] \in Memory
      /\ done' = [done EXCEPT ![t] = d] /\ done[t] \in Happened
      /\ UNCHANGED <<tree, index, head, acts>>
  BY DEF FloorInv, Shapes, ListsAfter
<1>2. /\ Untouched(t) /\ Listed(t) /\ Compared(t)
      /\ \A f \in Files : f \in newlyDirty(t) => f \in dirty
      /\ \A f \in dirty \ done[t].found : f \in newlyDirty(t) \/ Cut(f) \in newlyDirty(t)
      /\ newlyDirty(t) \subseteq Int
  BY <1>1, NewlyDirty DEF TurnInv, At
<1>3. filesTouched(t) \in SUBSET Int
  BY <1>1, <1>2, FloorAssumption DEF filesTouched, Memory
<1>4. m \in Memory /\ m.at = "listed" /\ m.files = filesTouched(t)
  <2>1. turn[t].kept \in Seq(FloorEntry)
    BY <1>1 DEF Memory
  <2> HIDE DEF filesTouched
  <2> QED
    BY <1>3, <2>1 DEF Memory, Nothing
<1>5. /\ d \in Happened /\ d.undone = back /\ d.edited = done[t].edited
      /\ d.found = done[t].found /\ d.crossed = done[t].crossed
  <2>1. back \in SUBSET Files
    OBVIOUS
  <2> HIDE DEF back
  <2> QED
    BY <1>1, <2>1 DEF Happened
<1> HIDE DEF m, d
<1>6. /\ turn'[t] = m /\ \A u \in Turns \ {t} : turn'[u] = turn[u]
      /\ done'[t] = d /\ \A u \in Turns \ {t} : done'[u] = done[u]
  BY <1>1 DEF Shapes
<1>7. Shapes'
  BY <1>1, <1>4, <1>5 DEF Shapes
<1>8. Changed = {}
  BY <1>1 DEF Changed
<1>9. \A u \in Turns \ {t} : TurnInv(u)'
  BY <1>1, <1>6, <1>8, OtherTurn
<1>10. ASSUME NEW f \in done[t].edited \ (back \cup done[t].found \cup done[t].crossed)
       PROVE  f \in filesTouched(t) \/ Cut(f) \in filesTouched(t)
  <2>1. f \in Files /\ tree[f] # turn[t].base[f] /\ f \in Alone(t)
    BY <1>1 DEF Happened, Alone
  <2>2. CASE head[f] # turn[t].base[f]
    BY <1>2, <2>1, <2>2 DEF Compared, filesTouched
  <2>3. CASE head[f] = turn[t].base[f]
    <3>1. f \in dirty \ done[t].found
      BY <2>1, <2>3 DEF dirty
    <3> QED
      BY <1>2, <3>1 DEF filesTouched
  <2> QED
    BY <2>2, <2>3
<1>11. ASSUME HansardFile \in filesTouched(t),
              HansardFile \notin done[t].edited \cup done[t].found \cup done[t].crossed
       PROVE  FALSE
  <2>1. HansardFile \in Alone(t) \ (done[t].found \cup done[t].edited)
    BY <1>11, FloorAssumption DEF Alone
  <2>2. /\ tree[HansardFile] = index[HansardFile] /\ index[HansardFile] = head[HansardFile]
        /\ head[HansardFile] = turn[t].base[HansardFile]
    BY <1>2, <2>1 DEF Untouched
  <2>3. HansardFile \notin turn[t].since /\ HansardFile \notin dirty
    BY <1>2, <2>1, <2>2 DEF Compared, dirty
  <2> QED
    BY <1>2, <1>11, <2>3, FloorAssumption DEF filesTouched
<1>12. ReportIsTrue(t)'
  BY <1>4, <1>5, <1>6, <1>10, <1>11 DEF ReportIsTrue
<1> QED
  BY <1>4, <1>6, <1>7, <1>9, <1>12 DEF FloorInv, TurnInv, At, Told

\* What is written is a number.
LEMMA StampIsNat == ASSUME Shapes PROVE Stamp \in Nat
<1>1. \A places : Cardinality({t \in Turns : At(t, places)}) \in Nat
  <2> TAKE places
  <2>1. IsFiniteSet({t \in Turns : At(t, places)})
    BY FloorAssumption, FS_Subset
  <2> QED
    BY <2>1, FS_CardinalityType
<1> QED
  BY <1>1, FloorAssumption DEF Stamp, Shapes

LEMMA NothingInMemory ==
  ASSUME NEW at \in {"idle", "committing", "over"}
  PROVE  Nothing(at) \in Memory /\ Nothing(at).at = at /\ Nothing(at).kept = <<>>
  BY DEF Nothing, Memory

\* The entry of a turn that ends crosses those that are watching.
LEMMA StepEnds ==
  ASSUME FloorInv, NEW t \in Turns, NEW well \in BOOLEAN, Ends(t, well)
  PROVE  FloorInv'
<1> DEFINE at == IF well THEN "committing" ELSE "over"
<1>1. /\ Shapes /\ turn' = [turn EXCEPT ![t] = Nothing(at)]
      /\ tree' = [tree EXCEPT ![HansardFile] = Stamp] /\ Stamp \in Nat
      /\ UNCHANGED <<index, head, acts>>
      /\ done' = [u \in Turns |-> IF u = t THEN NotYet ELSE Crossed(u)]
  BY StampIsNat DEF FloorInv, Ends, Crosses
<1>2. at \in {"committing", "over"}
  OBVIOUS
<1> HIDE DEF at
<1>3. NotYet \in Happened
  BY DEF NotYet, Happened
<1>4. Shapes'
  BY <1>1, <1>2, <1>3, NothingInMemory, CrossedBy, FloorAssumption DEF Shapes
<1>5. turn'[t] = Nothing(at) /\ \A u \in Turns \ {t} : turn'[u] = turn[u]
  BY <1>1 DEF Shapes
<1>6. \A u \in Turns \ {t} : TurnInv(u)'
  BY <1>1, <1>5, OtherTurn
<1>7. TurnInv(t)'
  BY <1>2, <1>5, NothingInMemory DEF TurnInv, At, Told
<1> QED
  BY <1>4, <1>6, <1>7 DEF FloorInv

\* A commit of the record takes the index along, and crosses all.
LEMMA Committed ==
  ASSUME Shapes, CommitsRecord, tree' \in [Files -> Nat]
  PROVE  /\ index' \in [Files -> Nat] /\ head' \in [Files -> Nat]
         /\ \A f \in Files : index'[f] \in {index[f], tree'[f]}
  BY FloorAssumption DEF Shapes, CommitsRecord

LEMMA StepCommit ==
  ASSUME FloorInv, NEW t \in Turns, Commit(t)
  PROVE  FloorInv'
<1>1. /\ Shapes /\ turn' = [turn EXCEPT ![t] = Nothing("over")] /\ UNCHANGED <<tree, acts>>
      /\ CommitsRecord /\ turn[t].at = "committing"
      /\ done' = [u \in Turns |-> Crossed(u)] /\ tree' \in [Files -> Nat]
  BY DEF FloorInv, Shapes, Commit, CrossesAll, At
<1>2. Shapes' /\ \A f \in Files : index'[f] \in {index[f], tree'[f]}
  BY <1>1, NothingInMemory, CrossedBy, Committed DEF Shapes
<1>3. turn'[t] = Nothing("over") /\ \A u \in Turns \ {t} : turn'[u] = turn[u]
  BY <1>1 DEF Shapes
<1>4. \A u \in Turns \ {t} : TurnInv(u)'
  BY <1>1, <1>2, <1>3, OtherTurn
<1>5. TurnInv(t)'
  BY <1>3, NothingInMemory DEF TurnInv, At, Told
<1> QED
  BY <1>2, <1>4, <1>5 DEF FloorInv

LEMMA StepRecords ==
  ASSUME FloorInv, NEW entries, Records(entries)
  PROVE  FloorInv'
<1>1. /\ Shapes /\ turn' = turn /\ acts' \in Nat /\ CommitsRecord
      /\ tree' \in [Files -> Nat] /\ done' = [u \in Turns |-> Crossed(u)]
  BY StampIsNat, FloorAssumption DEF FloorInv, Shapes, Records, CrossesAll
<1>2. Shapes' /\ \A f \in Files : index'[f] \in {index[f], tree'[f]}
  BY <1>1, CrossedBy, Committed DEF Shapes
<1>3. \A u \in Turns : TurnInv(u)'
  BY <1>1, <1>2, OtherTurn
<1> QED
  BY <1>2, <1>3 DEF FloorInv

-----------------------------------------------------------------------------
(***************************************************************************)
(* Pairs of positions, in their order: as many come before each as its     *)
(* place says.                                                             *)
(***************************************************************************)
Before(S, p) == {q \in S : Precedes(q, p)}

LEMMA PairsAreOrdered ==
  ASSUME NEW p \in Nat \X Nat, NEW q \in Nat \X Nat, NEW r \in Nat \X Nat
  PROVE  /\ ~Precedes(p, p)
         /\ Precedes(p, q) /\ Precedes(q, r) => Precedes(p, r)
         /\ p = q \/ Precedes(p, q) \/ Precedes(q, p)
<1>1. /\ p = <<p[1], p[2]>> /\ p[1] \in Nat /\ p[2] \in Nat
      /\ q = <<q[1], q[2]>> /\ q[1] \in Nat /\ q[2] \in Nat
      /\ r[1] \in Nat /\ r[2] \in Nat
  OBVIOUS
<1>2. p[1] = q[1] /\ p[2] = q[2] => p = q
  BY <1>1
<1> QED
  BY <1>1, <1>2 DEF Precedes

LEMMA PlacesDiffer ==
  ASSUME NEW S \in SUBSET (Nat \X Nat), IsFiniteSet(S), NEW p \in S
  PROVE  /\ Cardinality(Before(S, p)) \in Nat
         /\ Cardinality(Before(S, p)) < Cardinality(S)
         /\ \A q \in S : Precedes(p, q) =>
              Cardinality(Before(S, p)) # Cardinality(Before(S, q))
<1>1. \A q \in S : Before(S, q) \in SUBSET S /\ q \notin Before(S, q)
  BY PairsAreOrdered DEF Before
<1>2. \A q \in S : /\ IsFiniteSet(Before(S, q)) /\ Cardinality(Before(S, q)) \in Nat
                   /\ Cardinality(Before(S, q)) <= Cardinality(S)
                   /\ Cardinality(Before(S, q)) # Cardinality(S)
  BY <1>1, FS_Subset, FS_CardinalityType
<1>3. Cardinality(S) \in Nat
  BY FS_CardinalityType
<1>4. ASSUME NEW q \in S, Precedes(p, q)
      PROVE  Cardinality(Before(S, p)) # Cardinality(Before(S, q))
  <2>1. \A r \in Before(S, p) : r \in Before(S, q)
    BY <1>4, PairsAreOrdered DEF Before
  <2>2. p \in Before(S, q) /\ p \notin Before(S, p)
    BY <1>1, <1>4 DEF Before
  <2>3. Before(S, p) \in SUBSET Before(S, q) /\ Before(S, p) # Before(S, q)
    BY <2>1, <2>2
  <2> QED
    BY <1>2, <2>3, FS_Subset
<1> QED
  BY <1>2, <1>3, <1>4

LEMMA PairsAreListed ==
  ASSUME NEW S \in SUBSET (Nat \X Nat), IsFiniteSet(S)
  PROVE  /\ inPairOrder(S) \in Seq(S) /\ DOMAIN inPairOrder(S) = 1..Cardinality(S)
         /\ \A p \in S : \E i \in DOMAIN inPairOrder(S) : inPairOrder(S)[i] = p
<1> DEFINE N == Cardinality(S)
           place == [p \in S |-> Cardinality(Before(S, p)) + 1]
<1>1. N \in Nat /\ IsFiniteSet(1..N) /\ Cardinality(1..N) = N
  <2>1. N \in Nat
    BY FS_CardinalityType
  <2> HIDE DEF N
  <2> QED
    BY <2>1, FS_Interval
<1>2. ASSUME NEW p \in S PROVE place[p] \in 1..N /\ place[p] - 1 = Cardinality(Before(S, p))
  <2>1. Cardinality(Before(S, p)) \in Nat /\ Cardinality(Before(S, p)) < N
    BY PlacesDiffer
  <2> QED
    BY <1>1, <2>1
<1>3. ASSUME NEW p \in S, NEW q \in S, place[p] = place[q] PROVE p = q
  <2>1. Cardinality(Before(S, p)) = Cardinality(Before(S, q))
    BY <1>2, <1>3
  <2>2. ~Precedes(p, q) /\ ~Precedes(q, p)
    BY <2>1, PlacesDiffer
  <2> QED
    BY <2>2, PairsAreOrdered
<1>4. place \in [S -> 1..N]
  BY <1>2
<1> HIDE DEF place, N
<1>5. place \in Injection(S, 1..N)
  BY <1>3, <1>4 DEF Injection, IsInjective
<1>6. place \in Surjection(S, 1..N)
  BY <1>1, <1>5, FS_Injection DEF N
<1>7. \A i \in 1..N : \E p \in S : place[p] = i
  BY <1>6 DEF Surjection
<1>8. inPairOrder(S) = [i \in 1..N |-> CHOOSE p \in S : Cardinality(Before(S, p)) = i - 1]
  BY DEF inPairOrder, Before, N
<1>9. ASSUME NEW i \in 1..N
      PROVE  inPairOrder(S)[i] \in S /\ place[inPairOrder(S)[i]] = i
  <2>1. inPairOrder(S)[i] = CHOOSE p \in S : Cardinality(Before(S, p)) = i - 1
    BY <1>8
  <2>2. PICK p \in S : place[p] = i
    BY <1>7
  <2>3. Cardinality(Before(S, p)) = i - 1
    BY <1>2, <2>2
  <2>4. /\ inPairOrder(S)[i] \in S
        /\ Cardinality(Before(S, inPairOrder(S)[i])) = i - 1
    BY <2>1, <2>3
  <2>5. place[inPairOrder(S)[i]] - 1 = i - 1 /\ place[inPairOrder(S)[i]] \in 1..N
    BY <1>2, <2>4
  <2> QED
    BY <1>1, <2>4, <2>5
<1>10. inPairOrder(S) \in [1..N -> S]
  BY <1>8, <1>9
<1>11. inPairOrder(S) \in Seq(S) /\ DOMAIN inPairOrder(S) = 1..N
  BY <1>1, <1>10
<1>12. ASSUME NEW p \in S PROVE \E i \in 1..N : inPairOrder(S)[i] = p
  <2>1. place[p] \in 1..N
    BY <1>4
  <2>2. inPairOrder(S)[place[p]] \in S /\ place[inPairOrder(S)[place[p]]] = place[p]
    BY <1>9, <2>1
  <2> QED
    BY <1>3, <2>1, <2>2
<1> QED
  BY <1>11, <1>12 DEF N

-----------------------------------------------------------------------------
(***************************************************************************)
(* What a check finds on a record.                                         *)
(***************************************************************************)
\* Conflicts on a record are between turns that share a file on it.
Traced(h) ==
  \A k \in DOMAIN h : h[k].type = "CONFLICT" => Share(h, h[k].motions[1], h[k].motions[2])

LEMMA OverlapsAreFound ==
  ASSUME NEW h \in Seq(FloorEntry)
  PROVE  LET d == detectRecordConflicts(h)
         IN /\ d \in Seq(Turns \X Turns)
            /\ \A k \in DOMAIN d : Share(h, d[k][1], d[k][2])
            /\ \A t, u : t # u /\ Share(h, t, u) =>
                 \E k \in DOMAIN d : d[k] \in {<<t, u>>, <<u, t>>}
<1> DEFINE S == overlaps(h)
           found == inPairOrder(S)
           d == detectRecordConflicts(h)
<1>1. /\ Len(h) \in Nat /\ DOMAIN h = 1..Len(h)
      /\ \A k \in DOMAIN h : h[k].type = "TURN" => h[k].unit \in Turns
  BY DEF FloorEntry
<1>2. ASSUME NEW p \in S
      PROVE  /\ p[1] \in DOMAIN h /\ p[2] \in DOMAIN h /\ p \in (1..Len(h)) \X (1..Len(h))
             /\ h[p[1]].type = "TURN" /\ h[p[2]].type = "TURN"
             /\ h[p[1]].files \cap h[p[2]].files # {}
  BY <1>1 DEF overlaps, Pairs, touched
<1>3. S \in SUBSET (Nat \X Nat) /\ IsFiniteSet(S)
  <2>1. IsFiniteSet(1..Len(h))
    BY <1>1, FS_Interval
  <2>2. IsFiniteSet((1..Len(h)) \X (1..Len(h)))
    BY <2>1, FS_Product
  <2>3. S \in SUBSET ((1..Len(h)) \X (1..Len(h)))
    BY <1>2
  <2> HIDE DEF S
  <2>4. (1..Len(h)) \X (1..Len(h)) \subseteq Nat \X Nat
    BY <1>1
  <2> QED
    BY <2>2, <2>3, <2>4, FS_Subset
<1>4. /\ DOMAIN found = 1..Cardinality(S) /\ Cardinality(S) \in Nat
      /\ \A i \in DOMAIN found : found[i] \in S
      /\ \A p \in S : \E i \in DOMAIN found : found[i] = p
  <2> HIDE DEF S
  <2>1. found \in Seq(S) /\ DOMAIN found = 1..Cardinality(S)
        /\ \A p \in S : \E i \in DOMAIN found : found[i] = p
    BY <1>3, PairsAreListed
  <2>2. Cardinality(S) \in Nat
    BY <1>3, FS_CardinalityType
  <2> QED
    BY <2>1, <2>2
<1>5. d = [i \in DOMAIN found |-> <<h[found[i][1]].unit, h[found[i][2]].unit>>]
  BY DEF detectRecordConflicts
<1> HIDE DEF S, found, d
<1>6. ASSUME NEW i \in DOMAIN found
      PROVE  d[i] \in Turns \X Turns /\ Share(h, d[i][1], d[i][2])
  <2> DEFINE p == found[i]
  <2>1. /\ p[1] \in DOMAIN h /\ p[2] \in DOMAIN h
        /\ h[p[1]].type = "TURN" /\ h[p[2]].type = "TURN"
        /\ h[p[1]].files \cap h[p[2]].files # {}
    BY <1>2, <1>4
  <2>2. d[i] = <<h[p[1]].unit, h[p[2]].unit>>
    BY <1>5
  <2> HIDE DEF p
  <2> QED
    BY <1>1, <2>1, <2>2 DEF Share
<1>7. d \in Seq(Turns \X Turns) /\ DOMAIN d = DOMAIN found
  BY <1>4, <1>5, <1>6
<1>8. ASSUME NEW t, NEW u, t # u, Share(h, t, u)
      PROVE  \E k \in DOMAIN d : d[k] \in {<<t, u>>, <<u, t>>}
  <2>1. PICK i \in DOMAIN h, j \in DOMAIN h :
          /\ h[i].type = "TURN" /\ h[j].type = "TURN" /\ h[i].unit = t /\ h[j].unit = u
          /\ h[i].files \cap h[j].files # {}
    BY <1>8 DEF Share
  <2>2. i \in touched(h) /\ j \in touched(h) /\ (i < j \/ j < i)
    BY <1>1, <1>8, <2>1 DEF touched
  <2>3. PICK p \in {<<i, j>>, <<j, i>>} : p \in S
    <3>1. CASE i < j
      <4>1. <<i, j>> \in S
        BY <2>1, <2>2, <3>1 DEF S, overlaps, Pairs
      <4> QED
        BY <4>1
    <3>2. CASE j < i
      <4>1. <<j, i>> \in S
        BY <2>1, <2>2, <3>2 DEF S, overlaps, Pairs
      <4> QED
        BY <4>1
    <3> QED
      BY <2>2, <3>1, <3>2
  <2>4. PICK k \in DOMAIN found : found[k] = p
    BY <1>4, <2>3
  <2>5. d[k] = <<h[p[1]].unit, h[p[2]].unit>>
    BY <1>5, <2>4
  <2> QED
    BY <1>7, <2>1, <2>3, <2>5
<1> QED
  BY <1>6, <1>7, <1>8 DEF d

-----------------------------------------------------------------------------
(***************************************************************************)
(* The record, and the copies of it that turns at work will write back.    *)
(***************************************************************************)
Sound(h) == h \in Seq(FloorEntry) /\ Traced(h)

RecordInv == Sound(record) /\ \A t \in Turns : Sound(turn[t].kept)

LEMMA EmptyIsSound == Sound(<<>>)
  BY DEF Sound, Traced

\* Entries after a sound record keep it sound, if the conflicts among them are of
\* files shared on it.
LEMMA SoundGrows ==
  ASSUME NEW h, Sound(h), NEW es \in Seq(FloorEntry),
         \A k \in DOMAIN es : es[k].type = "CONFLICT" =>
           Share(h, es[k].motions[1], es[k].motions[2])
  PROVE  /\ Sound(h \o es)
         /\ \A t, u : Share(h, t, u) => Share(h \o es, t, u)
<1> DEFINE g == h \o es
<1>1. /\ h \in Seq(FloorEntry) /\ g \in Seq(FloorEntry)
      /\ DOMAIN h = 1..Len(h) /\ DOMAIN g = 1..(Len(h) + Len(es)) /\ DOMAIN es = 1..Len(es)
      /\ Len(h) \in Nat /\ Len(es) \in Nat
      /\ \A k \in DOMAIN h : g[k] = h[k]
      /\ \A k \in DOMAIN g \ DOMAIN h : k - Len(h) \in DOMAIN es /\ g[k] = es[k - Len(h)]
  BY DEF Sound
<1> HIDE DEF g
<1>2. ASSUME NEW t, NEW u, Share(h, t, u)
      PROVE  Share(g, t, u)
  <2>1. DOMAIN h \subseteq DOMAIN g
    BY <1>1
  <2> QED
    BY <1>1, <1>2, <2>1 DEF Share
<1>3. ASSUME NEW k \in DOMAIN g, g[k].type = "CONFLICT"
      PROVE  Share(h, g[k].motions[1], g[k].motions[2])
  <2>1. CASE k \in DOMAIN h
    BY <1>1, <1>3, <2>1 DEF Sound, Traced
  <2>2. CASE k \notin DOMAIN h
    BY <1>1, <1>3, <2>2
  <2> QED
    BY <2>1, <2>2
<1>4. Traced(g)
  BY <1>2, <1>3 DEF Traced
<1> QED
  BY <1>1, <1>2, <1>4 DEF Sound, g

\* A turn that reads, asks or commits leaves the record, and has a copy of it or none.
LEMMA RecordTurn ==
  ASSUME FloorInv, RecordInv, NEW t \in Turns,
         \/ Start(t) \/ AsksBefore(t) \/ ListsBefore(t) \/ AsksAfter(t) \/ ListsAfter(t)
         \/ Commit(t)
  PROVE  RecordInv'
<1>1. turn \in [Turns -> Memory] /\ turn[t] \in Memory
  BY DEF FloorInv, Shapes
<1>2. PICK m : /\ turn' = [turn EXCEPT ![t] = m]
               /\ m.kept \in {record, turn[t].kept, <<>>}
  <2>1. CASE Start(t)
    <3> DEFINE m == [turn[t] EXCEPT !.at = "started", !.kept = record]
    <3>1. m.kept = record
      BY <1>1 DEF Memory
    <3> QED
      BY <2>1, <3>1 DEF Start
  <2>2. CASE AsksBefore(t)
    <3> DEFINE m == [turn[t] EXCEPT !.at = "asked", !.base = head]
    <3>1. m.kept = turn[t].kept
      BY <1>1 DEF Memory
    <3> QED
      BY <2>2, <3>1 DEF AsksBefore
  <2>3. CASE ListsBefore(t)
    <3> DEFINE m == [turn[t] EXCEPT !.at = "working", !.before = dirtyFiles]
    <3>1. m.kept = turn[t].kept
      BY <1>1 DEF Memory
    <3> QED
      BY <2>3, <3>1 DEF ListsBefore
  <2>4. CASE AsksAfter(t)
    <3> DEFINE m == [turn[t] EXCEPT !.at = "ended",
                                    !.since = {f \in Files : head[f] # turn[t].base[f]}]
    <3>1. m.kept = turn[t].kept
      BY <1>1 DEF Memory
    <3> QED
      BY <2>4, <3>1 DEF AsksAfter
  <2>5. CASE ListsAfter(t)
    <3> DEFINE m == [Nothing("listed") EXCEPT !.kept = turn[t].kept, !.files = filesTouched(t)]
    <3>1. m.kept = turn[t].kept
      BY DEF Nothing
    <3> QED
      BY <2>5, <3>1 DEF ListsAfter
  <2>6. CASE Commit(t)
    BY <2>6, NothingInMemory DEF Commit
  <2> QED
    BY <2>1, <2>2, <2>3, <2>4, <2>5, <2>6
<1>3. record' = record
  BY DEF Start, AsksBefore, ListsBefore, AsksAfter, ListsAfter, Commit
<1>4. turn'[t] = m /\ \A u \in Turns \ {t} : turn'[u] = turn[u]
  BY <1>1, <1>2
<1> QED
  BY <1>2, <1>3, <1>4, EmptyIsSound DEF RecordInv

LEMMA RecordEnds ==
  ASSUME FloorInv, RecordInv, NEW t \in Turns, NEW well \in BOOLEAN, Ends(t, well)
  PROVE  RecordInv'
<1> DEFINE e == Reported(t, turn[t].files)
           at == IF well THEN "committing" ELSE "over"
<1>1. /\ turn \in [Turns -> Memory] /\ turn[t] \in Memory
      /\ record' = Append(turn[t].kept, e) /\ turn' = [turn EXCEPT ![t] = Nothing(at)]
      /\ Sound(turn[t].kept)
  BY DEF FloorInv, Shapes, Ends, RecordInv
<1>2. e \in FloorEntry /\ e.type # "CONFLICT" /\ at \in {"committing", "over"}
  BY <1>1 DEF Reported, FloorEntry, Memory
<1> HIDE DEF e, at
<1>3. Sound(record')
  <2>1. turn[t].kept \in Seq(FloorEntry) /\ <<e>> \in Seq(FloorEntry)
    BY <1>1, <1>2 DEF Sound
  <2>2. Append(turn[t].kept, e) = turn[t].kept \o <<e>>
    BY <2>1
  <2>3. \A k \in DOMAIN <<e>> : <<e>>[k].type # "CONFLICT"
    BY <1>2
  <2>4. Sound(turn[t].kept \o <<e>>)
    BY <1>1, <2>1, <2>3, SoundGrows
  <2> QED
    BY <1>1, <2>2, <2>4
<1>4. turn'[t] = Nothing(at) /\ \A u \in Turns \ {t} : turn'[u] = turn[u]
  BY <1>1
<1>5. Sound(turn'[t].kept)
  BY <1>2, <1>4, NothingInMemory, EmptyIsSound
<1> QED
  BY <1>3, <1>4, <1>5 DEF RecordInv

\* What a check records is sound, and so is what it leaves.
LEMMA RecordCheck ==
  ASSUME FloorInv, RecordInv, CheckConflicts
  PROVE  /\ RecordInv'
         /\ \E es \in Seq(FloorEntry) :
              /\ record' = record \o es /\ DOMAIN es = DOMAIN detectRecordConflicts(record)
              /\ \A k \in DOMAIN es : es[k] = Conflict(detectRecordConflicts(record)[k])
<1> DEFINE d == detectRecordConflicts(record)
           es == [i \in DOMAIN d |-> Conflict(d[i])]
<1>1. /\ d \in Seq(Turns \X Turns)
      /\ \A k \in DOMAIN d : Share(record, d[k][1], d[k][2])
  BY OverlapsAreFound DEF RecordInv, Sound
<1>2. record' = record \o es /\ turn' = turn
  BY DEF CheckConflicts, Records
<1> HIDE DEF d
<1>3. \A p \in Turns \X Turns : /\ Conflict(p) \in FloorEntry /\ Conflict(p).motions = p
                                /\ Conflict(p).type = "CONFLICT"
  BY DEF Conflict, FloorEntry
<1>4. es \in Seq(FloorEntry) /\ DOMAIN es = DOMAIN d /\ \A k \in DOMAIN es : es[k] = Conflict(d[k])
  <2>1. DOMAIN d = 1..Len(d) /\ Len(d) \in Nat /\ \A k \in DOMAIN d : d[k] \in Turns \X Turns
    BY <1>1
  <2>2. es \in [1..Len(d) -> FloorEntry]
    BY <1>3, <2>1
  <2> QED
    BY <2>1, <2>2
<1> HIDE DEF es
<1>5. \A k \in DOMAIN es : Share(record, es[k].motions[1], es[k].motions[2])
  BY <1>1, <1>3, <1>4
<1>6. Sound(record')
  BY <1>2, <1>4, <1>5, SoundGrows DEF RecordInv
<1>7. RecordInv'
  BY <1>2, <1>6 DEF RecordInv
<1> QED
  BY <1>2, <1>4, <1>7 DEF d

LEMMA RecordResolve ==
  ASSUME FloorInv, RecordInv, NEW pair \in Turns \X Turns, ResolveConflict(pair)
  PROVE  RecordInv'
<1>1. record' = record \o <<Resolved(pair)>> /\ turn' = turn
  BY DEF ResolveConflict, Records
<1>2. Resolved(pair) \in FloorEntry /\ Resolved(pair).type # "CONFLICT"
  BY DEF Resolved, FloorEntry
<1> DEFINE e == Resolved(pair)
<1> HIDE DEF e
<1>3. <<e>> \in Seq(FloorEntry) /\ \A k \in DOMAIN <<e>> : <<e>>[k].type # "CONFLICT"
  BY <1>2 DEF e
<1>4. Sound(record')
  BY <1>1, <1>3, SoundGrows DEF RecordInv, e
<1> QED
  BY <1>1, <1>4 DEF RecordInv

-----------------------------------------------------------------------------
(***************************************************************************)
(* A check of conflicts.                                                   *)
(***************************************************************************)
\* A conflict that nothing after it resolves is open.
LEMMA CheckFinds ==
  ASSUME FloorInv, RecordInv, CheckConflicts, NEW t \in Turns, NEW u \in Turns, t # u
  PROVE  Share(record, t, u)
           <=> {<<t, u>>, <<u, t>>} \cap openConflicts(record') # {}
<1> DEFINE d == detectRecordConflicts(record)
<1>1. PICK es \in Seq(FloorEntry) :
        /\ record' = record \o es /\ DOMAIN es = DOMAIN d
        /\ \A k \in DOMAIN es : es[k] = Conflict(d[k])
  BY RecordCheck
<1>2. /\ d \in Seq(Turns \X Turns)
      /\ \A k \in DOMAIN d : Share(record, d[k][1], d[k][2])
      /\ Share(record, t, u) => \E k \in DOMAIN d : d[k] \in {<<t, u>>, <<u, t>>}
  BY OverlapsAreFound DEF RecordInv, Sound
<1>3. record \in Seq(FloorEntry) /\ Traced(record)
  BY DEF RecordInv, Sound
<1> HIDE DEF d
<1>4. /\ Len(record) \in Nat /\ Len(es) \in Nat /\ Len(record') = Len(record) + Len(es)
      /\ DOMAIN record = 1..Len(record) /\ DOMAIN es = 1..Len(es)
      /\ DOMAIN record' = 1..Len(record')
      /\ \A k \in DOMAIN record : record'[k] = record[k]
      /\ \A k \in DOMAIN es : record'[Len(record) + k] = es[k]
  <2> DEFINE g == record \o es
  <2>1. /\ Len(record) \in Nat /\ Len(es) \in Nat /\ Len(g) = Len(record) + Len(es)
        /\ DOMAIN record = 1..Len(record) /\ DOMAIN es = 1..Len(es) /\ DOMAIN g = 1..Len(g)
        /\ \A k \in DOMAIN record : g[k] = record[k]
        /\ \A k \in DOMAIN es : g[Len(record) + k] = es[k]
    BY <1>3
  <2> QED
    BY <1>1, <2>1
<1>5. \A k \in DOMAIN es : es[k].type = "CONFLICT" /\ es[k].motions = d[k]
  BY <1>1 DEF Conflict
<1>6. ASSUME Share(record, t, u)
      PROVE  {<<t, u>>, <<u, t>>} \cap openConflicts(record') # {}
  <2>1. PICK k \in DOMAIN es : es[k].motions \in {<<t, u>>, <<u, t>>}
    BY <1>1, <1>2, <1>5, <1>6
  <2>2. ASSUME NEW i \in (Len(record) + k + 1)..Len(record'), NEW p
        PROVE  record'[i] # Resolved(p)
    <3>1. i - Len(record) \in DOMAIN es /\ i = Len(record) + (i - Len(record))
      BY <1>4
    <3>2. record'[i].type = "CONFLICT"
      BY <1>4, <1>5, <3>1
    <3> QED
      BY <3>2 DEF Resolved
  <2>3. /\ Len(record) + k \in DOMAIN record' /\ record'[Len(record) + k] = es[k]
        /\ es[k].type = "CONFLICT"
    BY <1>4, <1>5
  <2>4. es[k].motions \in openConflicts(record')
    BY <2>2, <2>3 DEF openConflicts
  <2> QED
    BY <2>1, <2>4
<1>7. ASSUME NEW k \in DOMAIN record', record'[k].type = "CONFLICT"
      PROVE  Share(record, record'[k].motions[1], record'[k].motions[2])
  <2>1. CASE k \in DOMAIN record
    BY <1>3, <1>4, <1>7, <2>1 DEF Traced
  <2>2. CASE k \notin DOMAIN record
    <3>1. k - Len(record) \in DOMAIN es /\ k = Len(record) + (k - Len(record))
      BY <1>4, <2>2
    <3> QED
      BY <1>1, <1>2, <1>4, <1>5, <3>1
  <2> QED
    BY <2>1, <2>2
<1>8. ASSUME {<<t, u>>, <<u, t>>} \cap openConflicts(record') # {}
      PROVE  Share(record, t, u)
  <2>1. PICK k \in DOMAIN record' :
          record'[k].type = "CONFLICT" /\ record'[k].motions \in {<<t, u>>, <<u, t>>}
    BY <1>8 DEF openConflicts
  <2>2. Share(record, t, u) \/ Share(record, u, t)
    BY <1>7, <2>1
  <2> QED
    BY <2>2 DEF Share
<1> QED
  BY <1>6, <1>8
-----------------------------------------------------------------------------
(***************************************************************************)
(* The theorems.                                                           *)
(***************************************************************************)
Inv == FloorInv /\ RecordInv

LEMMA InitInv == FloorInit => Inv
<1> SUFFICES ASSUME FloorInit PROVE Inv
  OBVIOUS
<1>1. \A t \in Turns : turn[t] = Nothing("idle")
  BY DEF FloorInit
<1>2. NotYet \in Happened
  BY DEF NotYet, Happened
<1>3. Shapes
  BY <1>1, <1>2, NothingInMemory DEF FloorInit, Shapes
<1>4. \A t \in Turns : TurnInv(t)
  BY <1>1, NothingInMemory DEF TurnInv, At, Told
<1>5. RecordInv
  BY <1>1, NothingInMemory, EmptyIsSound DEF FloorInit, RecordInv
<1> QED
  BY <1>3, <1>4, <1>5 DEF Inv, FloorInv

LEMMA NextInv == Inv /\ [FloorNext]_floorVars => Inv'
<1>1. ASSUME Inv, UNCHANGED floorVars
      PROVE  Inv'
  <2>1. \A t \in Turns : TurnInv(t)'
    BY <1>1 DEF Inv, FloorInv, floorVars, TurnInv, At, Told, Based, Untouched, Listed, Compared,
                ReportIsTrue, Alone
  <2>2. Shapes' /\ RecordInv'
    BY <1>1 DEF Inv, FloorInv, floorVars, Shapes, RecordInv
  <2> QED
    BY <2>1, <2>2 DEF Inv, FloorInv
<1>2. ASSUME Inv, FloorNext
      PROVE  FloorInv'
  <2>1. FloorInv /\ record \in Seq(FloorEntry)
    BY <1>2 DEF Inv, RecordInv, Sound
  <2>2. CASE CheckConflicts \/ \E pair \in Turns \X Turns : ResolveConflict(pair)
    BY <2>1, <2>2, StepRecords DEF CheckConflicts, ResolveConflict
  <2>3. CASE \E t \in Turns : \/ Start(t) \/ AsksBefore(t) \/ ListsBefore(t)
                              \/ AsksAfter(t) \/ ListsAfter(t)
    BY <2>1, <2>3, StepStart, StepAsksBefore, StepListsBefore, StepAsksAfter, StepListsAfter
  <2>4. CASE \E t \in Turns :
               \/ \E f \in Files : \/ \E c \in 0..LastContent : AgentEdits(t, f, c)
                                   \/ AgentStages(t, f)
               \/ AgentCommits(t)
    BY <2>1, <2>4, StepEdits, StepStages, StepCommits
  <2>5. CASE \E t \in Turns : Commit(t) \/ \E well \in BOOLEAN : Ends(t, well)
    BY <2>1, <2>5, StepEnds, StepCommit
  <2> QED
    BY <1>2, <2>2, <2>3, <2>4, <2>5 DEF FloorNext
<1>3. ASSUME Inv, FloorNext
      PROVE  RecordInv'
  <2>1. CASE CheckConflicts \/ \E pair \in Turns \X Turns : ResolveConflict(pair)
    BY <1>3, <2>1, RecordCheck, RecordResolve DEF Inv
  <2>2. CASE \E t \in Turns : \/ Start(t) \/ AsksBefore(t) \/ ListsBefore(t)
                              \/ AsksAfter(t) \/ ListsAfter(t) \/ Commit(t)
    BY <1>3, <2>2, RecordTurn DEF Inv
  <2>3. CASE \E t \in Turns :
               \/ \E f \in Files : \/ \E c \in 0..LastContent : AgentEdits(t, f, c)
                                   \/ AgentStages(t, f)
               \/ AgentCommits(t)
    BY <1>3, <2>3 DEF Inv, RecordInv, AgentEdits, AgentStages, AgentCommits
  <2>4. CASE \E t \in Turns : \E well \in BOOLEAN : Ends(t, well)
    BY <1>3, <2>4, RecordEnds DEF Inv
  <2> QED
    BY <1>3, <2>1, <2>2, <2>3, <2>4 DEF FloorNext
<1> QED
  BY <1>1, <1>2, <1>3 DEF Inv

\* What git will say to a turn is known of every turn, in every order in which turns,
\* agents and commands take their steps (runTurn, filesTouched).
THEOREM FloorInvariance == FloorSpec => []Inv
  BY InitInv, NextInv, PTL DEF FloorSpec

\* No turn's report leaves out what its agent made of a file that nobody else had a hand
\* in, whatever others do between the questions to git (filesTouched: "committed or left
\* in the tree").
THEOREM WorkIsAlwaysReported == FloorSpec => []WorkIsReported
<1>1. Inv => WorkIsReported
  BY DEF Inv, FloorInv, TurnInv, ReportIsTrue, WorkIsReported
<1> QED
  BY <1>1, FloorInvariance, PTL

\* A turn is accused of writing the record only with a reason (the Standing Orders
\* violation of runTurn).
THEOREM NobodyAccusedForNothing == FloorSpec => []AccusedNotForNothing
<1>1. Inv => AccusedNotForNothing
  BY DEF Inv, FloorInv, TurnInv, ReportIsTrue, AccusedNotForNothing
<1> QED
  BY <1>1, FloorInvariance, PTL

\* A check leaves every overlap of two reports open on the record, and no other pair,
\* and says there is none only where there is none, however many turns wrote the copy of
\* it they had (detectRecordConflicts, cmdConflict).
THEOREM OverlapsAreAlwaysFound == FloorSpec => EveryOverlapIsFound
<1>1. Inv /\ SaysNoConflicts => \A t, u \in Turns : t # u => ~Share(record, t, u)
  <2> SUFFICES ASSUME Inv, detectRecordConflicts(record) = <<>>
               PROVE  \A t, u \in Turns : t # u => ~Share(record, t, u)
    BY DEF SaysNoConflicts
  <2>1. record \in Seq(FloorEntry)
    BY DEF Inv, RecordInv, Sound
  <2>2. \A t, u : t # u /\ Share(record, t, u) =>
          \E k \in DOMAIN detectRecordConflicts(record) : TRUE
    BY <2>1, OverlapsAreFound
  <2>3. DOMAIN detectRecordConflicts(record) = {}
    OBVIOUS
  <2> QED
    BY <2>2, <2>3
<1>2. Inv =>
        [/\ CheckConflicts =>
              \A t, u \in Turns : t # u =>
                (Share(record, t, u)
                   <=> {<<t, u>>, <<u, t>>} \cap openConflicts(record') # {})
         /\ SaysNoConflicts =>
              \A t, u \in Turns : t # u => ~Share(record, t, u)]_floorVars
  BY <1>1, CheckFinds DEF Inv
<1> QED
  BY <1>2, FloorInvariance, PTL DEF EveryOverlapIsFound

=============================================================================

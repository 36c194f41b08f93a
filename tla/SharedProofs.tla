---------------------------- MODULE SharedProofs ---------------------------
(***************************************************************************)
(* A shared session keeps what SharedRecord promises, whatever number of   *)
(* clones act, retry, raise alerts, leave entries uncommitted, lose        *)
(* answers or die.                                                         *)
(*                                                                         *)
(* The argument.  Git allows any branch that extends the remote's; what    *)
(* makes the shared record sound is that every file it can come from is.   *)
(* A branch is part of its working tree, an act is written only where it   *)
(* is lawful in that tree (Sound), and what a tree has that is not shared  *)
(* is of that clone's own commands (Records).  The act under way is not    *)
(* yet anywhere (Fresh), so that a retry may do it again; an attempt       *)
(* discards nothing that its clone's callers were told of, as what was     *)
(* left behind is shared before anything is written (LeftBehind).          *)
(***************************************************************************)
EXTENDS SharedSync, TLAPS, SequenceTheorems

Acts(r) == {r[k] : k \in DOMAIN r}

\* Each act is lawful after those before it, and new.
Sound(r) ==
  \A k \in DOMAIN r : /\ Lawful(Promise!UpTo(r, k), r[k])
                      /\ ~Promise!Stands(Promise!UpTo(r, k), r[k].call)

\* No call has a number not yet given.
Numbered ==
  /\ \A a \in Acts(record) : a.call.n <= calls
  /\ \A c \in Clones : \A a \in Acts(tree[c]) : a.call.n <= calls
  /\ \A v \in verdicts : v.call.n <= calls

\* A branch is part of a sound tree, where all that is not shared is that clone's.
Records(c) ==
  /\ Sound(tree[c])
  /\ Extends(tree[c], local[c])
  /\ \A a \in Acts(tree[c]) : Promise!Stands(record, a.call) \/ a.call.by = c

\* What the attempt under way committed, and may discard, holds its act.
Attempted(c) ==
  /\ job[c].act \in Acts(local[c])
  /\ tree[c] = local[c]
  /\ job[c].start <= Len(local[c])
  /\ ~Promise!Stands(SubSeq(local[c], 1, job[c].start), job[c].act.call)

\* A command under way has a number of its own, and is in a step it may be in.
UnderWay(c) ==
  /\ step[c] # "idle" => job[c].act.call.by = c /\ job[c].act.call.n <= calls
  /\ step[c] \in {"acting", "written"} => Extends(record, local[c])
  /\ step[c] = "written" => /\ job[c].act \in Acts(tree[c])
                            /\ ~Promise!Stands(local[c], job[c].act.call)
  /\ step[c] = "pushing" => Attempted(c)
  /\ step[c] = "removing" => job[c].act \in Acts(local[c])

\* Its act is in no file before the attempt, on the shared record not before the push,
\* and nobody was told of it.
Fresh(c) ==
  /\ step[c] \in {"fetching", "earlier", "acting", "written", "pushing"} =>
       /\ ~Promise!Stands(record, job[c].act.call)
       /\ \A v \in verdicts : v.call # job[c].act.call
  /\ step[c] \in {"fetching", "earlier", "acting"} =>
       ~Promise!Stands(tree[c], job[c].act.call)

\* Whoever acts has shared what was said to be recorded locally.
LeftBehind(c) ==
  step[c] \in {"acting", "written", "pushing"} =>
    \A v \in verdicts : v.says = "local" /\ v.call.by = c => Promise!Stands(record, v.call)

CloneInv(c) == Records(c) /\ UnderWay(c) /\ Fresh(c) /\ LeftBehind(c)

\* A staged act is never ruled only by an attempt that may be discarded.
StagedKept ==
  \A v \in verdicts :
    v.says = "staged" =>
      \/ v.call \in staged \cup rejected
      \/ Ruled(record, v.call)
      \/ \E c \in Clones : step[c] # "pushing" /\ Ruled(local[c], v.call)

SharedInv ==
  /\ TypeOK /\ Sound(record) /\ Numbered
  /\ VerdictsHold /\ OneActLeftBehind /\ StagedKept
  /\ \A c \in Clones : CloneInv(c)

-----------------------------------------------------------------------------
(***************************************************************************)
(* Lemmas on records.                                                      *)
(***************************************************************************)
\* What is on a record is one of its acts.
LEMMA OnARecord ==
  /\ \A r, call : Promise!Stands(r, call) <=> \E a \in Acts(r) : a.call = call
  /\ \A r, id : Ruled(r, id) <=> \E a \in Acts(r) : a.staged = id
  BY DEF Promise!Stands, Ruled, Acts

LEMMA ActsAreTyped == ASSUME NEW S, NEW r \in Seq(S) PROVE Acts(r) \subseteq S
  BY LenProperties, ElementOfSeq DEF Acts

\* Position by position, what one record extends.
LEMMA ExtendsIsPointwise ==
  ASSUME NEW S, NEW r \in Seq(S), NEW s \in Seq(S)
  PROVE  Extends(s, r) <=> Len(r) <= Len(s) /\ \A k \in 1..Len(r) : s[k] = r[k]
<1>1. CASE Len(r) <= Len(s)
  <2>1. SubSeq(s, 1, Len(r)) \in Seq(S)
    BY <1>1, SubSeqProperties
  <2>2. /\ Len(SubSeq(s, 1, Len(r))) = Len(r)
        /\ \A k \in 1..Len(r) : SubSeq(s, 1, Len(r))[k] = s[k]
    BY <1>1, LenProperties, SubSeqProperties
  <2> QED
    BY <1>1, <2>1, <2>2, SeqEqual DEF Extends
<1> QED
  BY <1>1 DEF Extends

LEMMA ExtendsItself == ASSUME NEW S, NEW r \in Seq(S) PROVE Extends(r, r)
  BY ExtendsIsPointwise, LenProperties

LEMMA ExtendsFurther ==
  ASSUME NEW S, NEW r \in Seq(S), NEW s \in Seq(S), NEW t \in Seq(S),
         Extends(s, r), Extends(t, s)
  PROVE  Extends(t, r)
<1>1. /\ Len(r) <= Len(s) /\ \A k \in 1..Len(r) : s[k] = r[k]
      /\ Len(s) <= Len(t) /\ \A k \in 1..Len(s) : t[k] = s[k]
  BY ExtendsIsPointwise
<1>2. Len(r) \in Nat /\ Len(s) \in Nat /\ Len(t) \in Nat
  BY LenProperties
<1>3. Len(r) <= Len(t) /\ \A k \in 1..Len(r) : t[k] = r[k]
  BY <1>1, <1>2
<1> QED
  BY <1>3, ExtendsIsPointwise

\* Nothing on a record is missing from one that extends it.
LEMMA ExtendsKeeps ==
  ASSUME NEW S, NEW r \in Seq(S), NEW s \in Seq(S), Extends(s, r)
  PROVE  Acts(r) \subseteq Acts(s)
<1>1. Len(r) <= Len(s) /\ \A k \in 1..Len(r) : s[k] = r[k]
  BY ExtendsIsPointwise
<1>2. DOMAIN r = 1..Len(r) /\ DOMAIN s = 1..Len(s) /\ Len(r) \in Nat /\ Len(s) \in Nat
  BY LenProperties
<1> QED
  BY <1>1, <1>2 DEF Acts

\* A record before some of its last acts.
LEMMA BeginningIsExtended ==
  ASSUME NEW S, NEW r \in Seq(S), NEW n \in 0..Len(r)
  PROVE  SubSeq(r, 1, n) \in Seq(S) /\ Extends(r, SubSeq(r, 1, n))
<1> DEFINE q == SubSeq(r, 1, n)
<1>1. Len(r) \in Nat
  BY LenProperties
<1>2. \A i \in 1..n : r[i] \in S
  BY <1>1, ElementOfSeq
<1>3. q \in Seq(S) /\ Len(q) = n /\ \A i \in 1..n : q[i] = r[i]
  <2>1. /\ q \in Seq(S)
        /\ Len(q) = IF 1 <= n THEN n - 1 + 1 ELSE 0
        /\ \A i \in 1..n - 1 + 1 : q[i] = r[1 + i - 1]
    BY <1>1, <1>2, SubSeqProperties
  <2>2. Len(q) = n
    BY <1>1, <2>1
  <2>3. \A i \in 1..n : q[i] = r[i]
    BY <1>1, <2>1
  <2> QED
    BY <2>1, <2>2, <2>3
<1> HIDE DEF q
<1>4. Extends(r, q)
  BY <1>1, <1>3, ExtendsIsPointwise
<1> QED
  BY <1>3, <1>4 DEF q

\* A record with one act more.
LEMMA AppendExtends ==
  ASSUME NEW S, NEW r \in Seq(S), NEW a \in S
  PROVE  /\ Append(r, a) \in Seq(S)
         /\ Extends(Append(r, a), r)
         /\ Acts(Append(r, a)) = Acts(r) \cup {a}
         /\ DOMAIN Append(r, a) = 1..Len(r) + 1 /\ Append(r, a)[Len(r) + 1] = a
<1> DEFINE q == Append(r, a)
<1>1. /\ q \in Seq(S) /\ Len(q) = Len(r) + 1
      /\ \A k \in 1..Len(r) : q[k] = r[k]
      /\ q[Len(r) + 1] = a
  BY AppendProperties
<1> HIDE DEF q
<1>2. /\ Len(r) \in Nat /\ DOMAIN r = 1..Len(r) /\ DOMAIN q = 1..Len(r) + 1
  BY <1>1, LenProperties
<1>3. Extends(q, r)
  BY <1>1, <1>2, ExtendsIsPointwise
<1>4. Acts(q) = Acts(r) \cup {a}
  BY <1>1, <1>2 DEF Acts
<1> QED
  BY <1>1, <1>2, <1>3, <1>4 DEF q

-----------------------------------------------------------------------------
(***************************************************************************)
(* Lemmas on sound records.                                                *)
(***************************************************************************)
\* An act of a record has the same before it in one that extends it.
LEMMA SameBefore ==
  ASSUME NEW S, NEW r \in Seq(S), NEW s \in Seq(S), Extends(s, r), NEW k \in 1..Len(r)
  PROVE  /\ s[k] = r[k] /\ k \in DOMAIN s
         /\ Promise!UpTo(s, k) = Promise!UpTo(r, k)
<1>1. /\ Len(r) <= Len(s) /\ \A i \in 1..Len(r) : s[i] = r[i]
      /\ Len(r) \in Nat /\ Len(s) \in Nat /\ DOMAIN s = 1..Len(s)
  BY ExtendsIsPointwise, LenProperties
<1> DEFINE n == k - 1
<1>2. n \in 0..Len(r) /\ n \in 0..Len(s) /\ n < k
  BY <1>1
<1> DEFINE p == SubSeq(r, 1, n)
           q == SubSeq(s, 1, n)
<1>3. p \in Seq(S) /\ Extends(r, p) /\ q \in Seq(S) /\ Extends(s, q)
  BY <1>2, BeginningIsExtended
<1>4. Len(p) = n /\ Len(q) = n
  BY <1>1, <1>2, ElementOfSeq, SubSeqProperties
<1> HIDE DEF p, q
<1>5. \A i \in 1..n : p[i] = q[i]
  <2>1. /\ \A i \in 1..n : r[i] = p[i]
        /\ \A i \in 1..n : s[i] = q[i]
    BY <1>3, <1>4, ExtendsIsPointwise
  <2>2. \A i \in 1..n : i \in 1..Len(r)
    BY <1>1, <1>2
  <2> QED
    BY <1>1, <2>1, <2>2
<1>6. p = q
  BY <1>3, <1>4, <1>5, SeqEqual
<1>7. k \in DOMAIN s
  BY <1>1
<1> QED
  BY <1>1, <1>6, <1>7 DEF Promise!UpTo, p, q

LEMMA SoundBeginning ==
  ASSUME NEW S, NEW r \in Seq(S), NEW s \in Seq(S), Extends(s, r), Sound(s)
  PROVE  Sound(r)
<1>1. DOMAIN r = 1..Len(r)
  BY LenProperties
<1>2. ASSUME NEW k \in 1..Len(r)
      PROVE  /\ Lawful(Promise!UpTo(r, k), r[k])
             /\ ~Promise!Stands(Promise!UpTo(r, k), r[k].call)
  BY SameBefore DEF Sound
<1> QED
  BY <1>1, <1>2 DEF Sound

\* A sound record with a lawful, new act more is sound.
LEMMA SoundAppend ==
  ASSUME NEW S, NEW r \in Seq(S), NEW a \in S,
         Sound(r), Lawful(r, a), ~Promise!Stands(r, a.call)
  PROVE  Sound(Append(r, a))
<1> DEFINE q == Append(r, a)
<1>1. /\ q \in Seq(S) /\ Extends(q, r)
      /\ DOMAIN q = 1..Len(r) + 1 /\ q[Len(r) + 1] = a
      /\ Len(r) \in Nat /\ DOMAIN r = 1..Len(r)
  BY AppendExtends, LenProperties
<1> HIDE DEF q
<1>2. ASSUME NEW k \in 1..Len(r)
      PROVE  Lawful(Promise!UpTo(q, k), q[k]) /\ ~Promise!Stands(Promise!UpTo(q, k), q[k].call)
  BY <1>1, SameBefore DEF Sound
<1>3. Promise!UpTo(q, Len(r) + 1) = r
  <2>1. (Len(r) + 1) - 1 = Len(r)
    BY <1>1
  <2> QED
    BY <1>1, <2>1 DEF Promise!UpTo, Extends
<1>4. \A k \in DOMAIN q : k \in 1..Len(r) \/ k = Len(r) + 1
  BY <1>1
<1>5. Sound(q)
  BY <1>1, <1>2, <1>3, <1>4 DEF Sound
<1> QED
  BY <1>5 DEF q

\* What a sound record has more than one it extends follows lawfully on that.
LEMMA SoundFollows ==
  ASSUME NEW r \in Seq(Promise!Act), NEW s \in Seq(Promise!Act), Extends(s, r), Sound(s)
  PROVE  Promise!Follow(r, s)
<1>1. DOMAIN s = 1..Len(s) /\ Len(s) \in Nat /\ Len(r) \in Nat
  BY LenProperties
<1>2. \A k \in (Len(r) + 1)..Len(s) : k \in 1..Len(s)
  BY <1>1
<1>3. \A k \in 1..Len(s) : s[k] \in Promise!Act
  BY ElementOfSeq
<1>4. \A k \in 1..Len(s) : /\ Promise!Lawful(Promise!UpTo(s, k), s[k])
                           /\ ~Promise!Stands(Promise!UpTo(s, k), s[k].call)
  BY <1>1 DEF Sound, Lawful
<1> QED
  BY <1>2, <1>3, <1>4 DEF Promise!Follow, Extends

-----------------------------------------------------------------------------
(***************************************************************************)
(* What a step of a clone does.                                            *)
(***************************************************************************)
CloneStep(c) ==
  \/ \E type \in CallTypes, gated \in BOOLEAN : Call(c, type, gated)
  \/ CatchUp(c) \/ Unreachable(c) \/ PushEarlier(c)
  \/ DoAct(c) \/ RefuseAct(c) \/ FailTurn(c) \/ StageAct(c) \/ CommitAct(c)
  \/ Push(c) \/ Retry(c) \/ Killed(c)
  \/ \E alert \in Alerts : Cascade(c, alert)
  \/ \E id \in Promise!Command : Confirm(c, id) \/ Reject(c, id)
  \/ RemovePending(c) \/ Look(c) \/ Sync(c)

\* An act that may be written.
New(c, act) ==
  /\ act \in Promise!Act /\ act.call.by = c /\ act.call.n <= calls'
  /\ Lawful(tree[c], act)
  /\ ~Promise!Stands(tree[c], act.call) /\ ~Promise!Stands(record, act.call)
  /\ \A v \in verdicts : v.call # act.call

Adds(c) ==
  /\ \E act : New(c, act) /\ Writes(c, act)
  /\ local' \in {local, [local EXCEPT ![c] = tree'[c]]}
  /\ record' = record

\* Each step moves the records only in one of these ways.
Moves(c) ==
  \/ UNCHANGED <<record, headVars>>
  \/ Takes(c) /\ UNCHANGED headVars
  \/ FastForwards(c) /\ UNCHANGED record
  \/ Adds(c)
  \/ CommitAct(c)
  \/ Retry(c)

\* A number not yet given is in no file, and in no verdict.
LEMMA NewNumber ==
  ASSUME SharedInv, NEW c \in Clones, NEW call, call.n = calls + 1
  PROVE  /\ ~Promise!Stands(record, call) /\ ~Promise!Stands(tree[c], call)
         /\ \A v \in verdicts : v.call # call
<1>1. calls \in Nat /\ Numbered
  BY DEF SharedInv, TypeOK
<1>2. ~(calls + 1 <= calls)
  BY <1>1
<1> QED
  BY <1>1, <1>2, OnARecord DEF Numbered

\* What is written is lawful, and new.
LEMMA WhatIsWritten ==
  ASSUME SharedInv, NEW c \in Clones,
         DoAct(c) \/ FailTurn(c) \/ \E alert \in Alerts : Cascade(c, alert)
  PROVE  Adds(c)
<1>1. /\ step[c] # "idle" => job[c] \in Job /\ job[c].act \in Promise!Act
      /\ UnderWay(c) /\ Fresh(c) /\ calls \in Nat /\ MaxCalls \in Nat
  BY SharedAssumption DEF SharedInv, TypeOK, CloneInv, Job
<1>2. CASE DoAct(c)
  <2>1. New(c, job[c].act)
    BY <1>1, <1>2 DEF DoAct, New, UnderWay, Fresh
  <2> QED
    BY <1>2, <2>1 DEF DoAct, Adds, remoteVars
<1>3. CASE FailTurn(c)
  <2> DEFINE act == job[c].act
             fault == FaultOf(act)
  <2>1. /\ act \in Promise!Act /\ act.type = "MOTION_TABLED" /\ Lawful(tree[c], act)
        /\ calls' = calls
    BY <1>1, <1>3 DEF FailTurn
  <2>2. /\ fault \in Promise!Act /\ fault.type = "SESSION_FAULT" /\ fault.call = act.call
    BY <2>1 DEF FaultOf, Promise!Act, Promise!Types
  <2>3. Lawful(tree[c], fault)
    <3>1. act.type \notin Alerts /\ act.type # "RULING"
      BY <2>1, SharedAssumption
    <3>2. fault.type \notin Alerts /\ fault.type # "RULING"
      BY <2>2, SharedAssumption
    <3>3. ~Promise!Suspended(tree[c])
      BY <2>1, <3>1 DEF Lawful, Promise!Lawful
    <3> HIDE DEF fault, act
    <3> QED
      BY <3>2, <3>3 DEF Lawful, Promise!Lawful
  <2>4. New(c, fault)
    <3>1. /\ act.call.by = c /\ act.call.n <= calls'
          /\ ~Promise!Stands(tree[c], act.call) /\ ~Promise!Stands(record, act.call)
          /\ \A v \in verdicts : v.call # act.call
      BY <1>1, <1>3, <2>1 DEF FailTurn, UnderWay, Fresh
    <3> HIDE DEF fault, act
    <3> QED
      BY <2>2, <2>3, <3>1 DEF New
  <2> QED
    BY <1>3, <2>4 DEF FailTurn, Adds, remoteVars
<1>4. ASSUME NEW alert \in Alerts, Cascade(c, alert)
      PROVE  Adds(c)
  <2> DEFINE act == [type |-> alert, call |-> [by |-> c, n |-> calls'], staged |-> NotStaged]
  <2>1. /\ calls' = calls + 1 /\ calls' \in 1..MaxCalls
        /\ \A k \in DOMAIN tree[c] : tree[c][k].type # alert
    BY <1>1, <1>4 DEF Cascade
  <2>2. act \in Promise!Act /\ act.call.by = c /\ act.call.n = calls' /\ act.type = alert
    BY <2>1 DEF Promise!Act, Promise!Command, Promise!Types
  <2>3. Writes(c, act)
    BY <1>4 DEF Cascade
  <2> HIDE DEF act
  <2>4. Lawful(tree[c], act)
    BY <2>1, <2>2 DEF Lawful, Promise!Lawful
  <2>5. /\ ~Promise!Stands(tree[c], act.call) /\ ~Promise!Stands(record, act.call)
        /\ \A v \in verdicts : v.call # act.call
    BY <2>1, <2>2, NewNumber
  <2>6. New(c, act)
    BY <1>1, <2>1, <2>2, <2>4, <2>5 DEF New
  <2> QED
    BY <1>4, <2>3, <2>6 DEF Cascade, Adds, remoteVars
<1> QED
  BY <1>2, <1>3, <1>4

LEMMA StepsMove == ASSUME SharedInv, NEW c \in Clones, CloneStep(c) PROVE Moves(c)
<1> USE DEF Moves, remoteVars, cloneVars
<1>1. ASSUME NEW type, NEW gated, Call(c, type, gated)
      PROVE  Moves(c)
  BY <1>1 DEF Call, Starts
<1>2. CASE CatchUp(c)
  BY <1>2 DEF CatchUp
<1>3. CASE Unreachable(c) \/ Killed(c) \/ RefuseAct(c)
  BY <1>3 DEF Unreachable, Killed, RefuseAct
<1>4. CASE PushEarlier(c)
  BY <1>4 DEF PushEarlier
<1>5. CASE DoAct(c) \/ FailTurn(c) \/ \E alert \in Alerts : Cascade(c, alert)
  BY <1>5, WhatIsWritten
<1>6. CASE StageAct(c)
  BY <1>6 DEF StageAct
<1>7. CASE Push(c)
  BY <1>7 DEF Push
<1>8. CASE Retry(c) \/ CommitAct(c)
  BY <1>8
<1>9. ASSUME NEW id, Confirm(c, id)
      PROVE  Moves(c)
  BY <1>9 DEF Confirm, Refreshes, Starts
<1>10. ASSUME NEW id, Reject(c, id)
       PROVE  Moves(c)
  BY <1>10 DEF Reject
<1>11. CASE RemovePending(c)
  BY <1>11 DEF RemovePending
<1>12. CASE Look(c)
  BY <1>12 DEF Look, Refreshes
<1>13. CASE Sync(c)
  BY <1>13 DEF Sync
<1> QED
  BY <1>1, <1>2, <1>3, <1>4, <1>5, <1>6, <1>7, <1>8, <1>9, <1>10, <1>11, <1>12, <1>13
     DEF CloneStep

\* What a clone does leaves what the others are at, tells only of its own command,
\* and gives no number twice.
LEMMA StepsFrame ==
  ASSUME TypeOK, NEW c \in Clones, CloneStep(c)
  PROVE  /\ \A d \in Clones \ {c} : /\ local'[d] = local[d] /\ tree'[d] = tree[d]
                                    /\ step'[d] = step[d]
                                    /\ job'[d] = job[d]
         /\ verdicts \subseteq verdicts'
         /\ \A v \in verdicts' \ verdicts : step[c] # "idle" /\ v.call = job[c].act.call
         /\ calls' \in {calls, calls + 1}
<1> DEFINE Others == \A d \in Clones \ {c} : /\ local'[d] = local[d] /\ tree'[d] = tree[d]
                                             /\ step'[d] = step[d]
                                             /\ job'[d] = job[d]
           Told == /\ verdicts \subseteq verdicts'
                   /\ \A v \in verdicts' \ verdicts :
                        step[c] # "idle" /\ v.call = job[c].act.call
           Given == calls' \in {calls, calls + 1}
<1>0. /\ local = [d \in Clones |-> local[d]]
      /\ tree = [d \in Clones |-> tree[d]]
      /\ step = [d \in Clones |-> step[d]]
      /\ job = [d \in Clones |-> job[d]]
  BY DEF TypeOK
<1> USE DEF remoteVars, cloneVars, headVars, GoesTo, Ends, Refuses, Recorded, Tells, Writes
<1>1. ASSUME NEW type, NEW gated, Call(c, type, gated)
      PROVE  Others /\ Told /\ Given
  BY <1>0, <1>1 DEF Call, Starts
<1>2. CASE CatchUp(c)
  BY <1>0, <1>2 DEF CatchUp, FastForwards
<1>3. CASE Unreachable(c) \/ Killed(c) \/ RefuseAct(c)
  BY <1>0, <1>3 DEF Unreachable, Killed, RefuseAct
<1>4. CASE PushEarlier(c)
  BY <1>0, <1>4 DEF PushEarlier
<1>5. CASE DoAct(c) \/ FailTurn(c)
  BY <1>0, <1>5 DEF DoAct, FailTurn
<1>6. CASE StageAct(c) \/ CommitAct(c)
  BY <1>0, <1>6 DEF StageAct, CommitAct
<1>7. CASE Push(c)
  BY <1>0, <1>7 DEF Push
<1>8. CASE Retry(c)
  BY <1>0, <1>8 DEF Retry
<1>9. ASSUME NEW id, Confirm(c, id)
      PROVE  Others /\ Told /\ Given
  BY <1>0, <1>9 DEF Confirm, Refreshes, FastForwards, Starts
<1>10. ASSUME NEW id, Reject(c, id)
       PROVE  Others /\ Told /\ Given
  BY <1>0, <1>10 DEF Reject
<1>11. CASE RemovePending(c)
  BY <1>0, <1>11 DEF RemovePending
<1>12. CASE Look(c)
  BY <1>0, <1>12 DEF Look, Refreshes, FastForwards
<1>13. CASE Sync(c)
  BY <1>0, <1>13 DEF Sync, FastForwards
<1>14. ASSUME NEW alert, Cascade(c, alert)
       PROVE  Others /\ Told /\ Given
  BY <1>0, <1>14 DEF Cascade
<1> QED
  BY <1>1, <1>2, <1>3, <1>4, <1>5, <1>6, <1>7, <1>8, <1>9, <1>10, <1>11, <1>12, <1>13, <1>14
     DEF CloneStep

-----------------------------------------------------------------------------
(***************************************************************************)
(* Types.                                                                  *)
(***************************************************************************)
LEMMA InitTypeOK == SharedInit => TypeOK
  BY SharedAssumption, EmptySeq DEF SharedInit, TypeOK, Steps

\* The files' records are records, and each tree still has what its branch has.
LEMMA StepRecords ==
  ASSUME SharedInv, NEW c \in Clones, CloneStep(c)
  PROVE  /\ record' \in Seq(Promise!Act) /\ local' \in [Clones -> Seq(Promise!Act)]
         /\ tree' \in [Clones -> Seq(Promise!Act)]
         /\ Extends(tree'[c], local'[c])
         /\ Sound(record') /\ Sound(tree'[c])
<1>1. /\ record \in Seq(Promise!Act) /\ local \in [Clones -> Seq(Promise!Act)]
      /\ tree \in [Clones -> Seq(Promise!Act)]
      /\ local[c] \in Seq(Promise!Act) /\ tree[c] \in Seq(Promise!Act)
      /\ Extends(tree[c], local[c]) /\ Sound(tree[c]) /\ Sound(record)
      /\ step[c] # "idle" => job[c] \in Job
      /\ UnderWay(c)
  BY DEF SharedInv, TypeOK, CloneInv, Records
<1>2. Sound(local[c])
  BY <1>1, SoundBeginning
<1>3. Moves(c)
  BY StepsMove
<1>4. CASE UNCHANGED <<record, headVars>>
  BY <1>1, <1>4 DEF headVars
<1>5. CASE Takes(c) /\ UNCHANGED headVars
  BY <1>1, <1>2, <1>5 DEF Takes, headVars
<1>6. CASE FastForwards(c) /\ UNCHANGED record
  <2>1. CASE local[c] = record /\ UNCHANGED headVars
    BY <1>1, <1>6, <2>1 DEF headVars
  <2>2. CASE local' = [local EXCEPT ![c] = record] /\ tree' = [tree EXCEPT ![c] = record]
    <3>1. local'[c] = record /\ tree'[c] = record
      BY <1>1, <2>2
    <3> QED
      BY <1>1, <1>6, <2>2, <3>1, ExtendsItself
  <2> QED
    BY <1>6, <2>1, <2>2 DEF FastForwards
<1>7. CASE Adds(c)
  <2>1. PICK act : New(c, act) /\ Writes(c, act)
    BY <1>7 DEF Adds
  <2>2. /\ act \in Promise!Act /\ Lawful(tree[c], act) /\ ~Promise!Stands(tree[c], act.call)
        /\ tree' = [tree EXCEPT ![c] = Append(tree[c], act)]
        /\ record' = record
    BY <1>7, <2>1 DEF New, Writes, Adds
  <2>3. /\ Append(tree[c], act) \in Seq(Promise!Act)
        /\ Extends(Append(tree[c], act), tree[c])
        /\ Sound(Append(tree[c], act))
    BY <1>1, <2>2, AppendExtends, SoundAppend
  <2>4. /\ tree'[c] = Append(tree[c], act) /\ tree' \in [Clones -> Seq(Promise!Act)]
    BY <1>1, <2>2, <2>3
  <2>5. local'[c] \in {local[c], tree'[c]} /\ local' \in [Clones -> Seq(Promise!Act)]
    BY <1>1, <1>7, <2>3, <2>4 DEF Adds
  <2>6. Extends(tree'[c], local[c]) /\ Extends(tree'[c], tree'[c])
    BY <1>1, <2>3, <2>4, ExtendsFurther, ExtendsItself
  <2> QED
    BY <1>1, <2>2, <2>3, <2>4, <2>5, <2>6
<1>8. CASE CommitAct(c)
  <2>1. /\ local' = [local EXCEPT ![c] = tree[c]] /\ record' = record /\ tree' = tree
    BY <1>8 DEF CommitAct, remoteVars
  <2>2. local'[c] = tree[c] /\ Extends(tree[c], tree[c])
    BY <1>1, <2>1, ExtendsItself
  <2> QED
    BY <1>1, <2>1, <2>2
<1>9. CASE Retry(c)
  <2> DEFINE start == job[c].start
             q == SubSeq(local[c], 1, start)
  <2>1. /\ step[c] = "pushing" /\ record' = record
        /\ local' = [local EXCEPT ![c] = q]
        /\ tree' = [tree EXCEPT ![c] = local'[c]]
    BY <1>9 DEF Retry, remoteVars
  <2>2. start \in 0..Len(local[c])
    <3>1. start \in Nat /\ start <= Len(local[c]) /\ Len(local[c]) \in Nat
      BY <1>1, <2>1, LenProperties DEF UnderWay, Attempted, Job
    <3> QED
      BY <3>1
  <2>3. q \in Seq(Promise!Act) /\ Extends(local[c], q) /\ Extends(q, q)
    BY <1>1, <2>2, BeginningIsExtended, ExtendsItself
  <2>4. Sound(q)
    BY <1>1, <1>2, <2>3, SoundBeginning
  <2> HIDE DEF q
  <2>5. local'[c] = q /\ tree'[c] = q
    BY <1>1, <2>1
  <2> QED
    BY <1>1, <2>1, <2>3, <2>4, <2>5
<1> QED
  BY <1>3, <1>4, <1>5, <1>6, <1>7, <1>8, <1>9 DEF Moves

LEMMA StepTypeOK ==
  ASSUME SharedInv, NEW c \in Clones, CloneStep(c)
  PROVE  TypeOK'
<1>1. /\ calls \in 0..MaxCalls /\ staged \subseteq Promise!Command
      /\ mine \in [Clones -> SUBSET Promise!Command]
      /\ step \in [Clones -> Steps] /\ job \in [Clones -> Job \cup {NoJob}]
      /\ \A d \in Clones : step[d] # "idle" => job[d] \in Job
      /\ verdicts \subseteq [call : Promise!Command, says : Says]
      /\ rejected \subseteq Promise!Command
      /\ MaxCalls \in Nat /\ Attempts \in Nat \ {0}
      /\ local[c] \in Seq(Promise!Act)
  BY SharedAssumption DEF SharedInv, TypeOK
<1>2. ASSUME NEW type \in CallTypes, NEW gated \in BOOLEAN,
             NEW of \in Promise!Command \cup {NotStaged}, Starts(c, type, of, gated)
      PROVE  /\ calls' \in 0..MaxCalls
             /\ step' \in [Clones -> Steps] /\ job' \in [Clones -> Job \cup {NoJob}]
             /\ \A d \in Clones : step'[d] # "idle" => job'[d] \in Job
             /\ UNCHANGED <<staged, verdicts, rejected>>
  <2>1. [act |-> [type |-> type, call |-> [by |-> c, n |-> calls'], staged |-> of],
         gated |-> gated, attempt |-> 1, start |-> 0] \in Job
    BY <1>1, <1>2 DEF Starts, Job, Promise!Act, Promise!Command, Promise!Types, CallTypes
  <2> QED
    BY <1>1, <1>2, <2>1 DEF Starts, GoesTo, Steps, remoteVars
<1> DEFINE Verdict == [call : Promise!Command, says : Says]
           Rest == /\ staged' \subseteq Promise!Command
                   /\ mine' \in [Clones -> SUBSET Promise!Command]
                   /\ calls' \in 0..MaxCalls
                   /\ step' \in [Clones -> Steps]
                   /\ job' \in [Clones -> Job \cup {NoJob}]
                   /\ \A d \in Clones : step'[d] # "idle" => job'[d] \in Job
                   /\ verdicts' \subseteq Verdict
                   /\ rejected' \subseteq Promise!Command
<1>4. step[c] # "idle" =>
        /\ job[c].act.call \in Promise!Command
        /\ job[c].act.staged # NotStaged => job[c].act.staged \in Promise!Command
        /\ \A says \in {"shared", "local", "refused", "failed", "staged"} :
             [call |-> job[c].act.call, says |-> says] \in Verdict
  BY <1>1 DEF Job, Promise!Act, Says
<1>5. {"idle", "fetching", "earlier", "acting", "written", "pushing", "removing"} \subseteq Steps
  BY DEF Steps
<1>6. /\ staged \subseteq Promise!Command /\ mine \in [Clones -> SUBSET Promise!Command]
      /\ calls \in 0..MaxCalls
      /\ step \in [Clones -> Steps] /\ job \in [Clones -> Job \cup {NoJob}]
      /\ \A d \in Clones : step[d] # "idle" => job[d] \in Job
      /\ verdicts \subseteq Verdict /\ rejected \subseteq Promise!Command
  BY <1>1
<1> HIDE DEF Verdict
<1> USE <1>4, <1>5, <1>6 DEF remoteVars, cloneVars, GoesTo, Ends, Refuses, Recorded, Tells,
                             Fetched, Removes, Refreshes
<1>7. Rest
  <2>1. ASSUME NEW type \in CallTypes, NEW gated \in BOOLEAN, Call(c, type, gated)
        PROVE  Rest
    BY <1>2, <2>1 DEF Call
  <2>2. CASE CatchUp(c)
    BY <2>2 DEF CatchUp
  <2>3. CASE Unreachable(c) \/ Killed(c) \/ RefuseAct(c)
    BY <2>3 DEF Unreachable, Killed, RefuseAct
  <2>4. CASE PushEarlier(c)
    BY <2>4 DEF PushEarlier
  <2>5. CASE DoAct(c) \/ FailTurn(c)
    BY <2>5 DEF DoAct, FailTurn
  <2>6. CASE StageAct(c)
    BY <2>6 DEF StageAct
  <2>7. CASE Push(c)
    BY <2>7 DEF Push
  <2>8. CASE Retry(c)
    <3>1. [job[c] EXCEPT !.attempt = @ + 1] \in Job
      <4>1. job[c] \in Job /\ job[c].attempt < Attempts
        BY <2>8 DEF Retry
      <4>2. job[c].attempt \in 1..Attempts
        BY <4>1 DEF Job
      <4>3. job[c].attempt + 1 \in 1..Attempts
        BY <1>1, <4>1, <4>2
      <4> QED
        BY <4>1, <4>3 DEF Job
    <3> QED
      BY <2>8, <3>1 DEF Retry
  <2>9. ASSUME NEW id \in Promise!Command, Confirm(c, id)
        PROVE  Rest
    BY <1>2, <2>9 DEF Confirm, CallTypes
  <2>10. ASSUME NEW id \in Promise!Command, Reject(c, id)
        PROVE  Rest
    BY <2>10 DEF Reject
  <2>11. CASE RemovePending(c)
    BY <2>11 DEF RemovePending
  <2>12. CASE Look(c)
    BY <2>12 DEF Look
  <2>13. CASE Sync(c)
    BY <2>13 DEF Sync
  <2>14. CASE CommitAct(c)
    <3>1. [job[c] EXCEPT !.start = Len(local[c])] \in Job
      <4>1. job[c] \in Job /\ Len(local[c]) \in Nat
        BY <1>1, <2>14, LenProperties DEF CommitAct
      <4> QED
        BY <4>1 DEF Job
    <3> QED
      BY <2>14, <3>1 DEF CommitAct
  <2>15. ASSUME NEW alert \in Alerts, Cascade(c, alert)
         PROVE  Rest
    BY <1>1, <2>15 DEF Cascade
  <2> QED
    BY <2>1, <2>2, <2>3, <2>4, <2>5, <2>6, <2>7, <2>8, <2>9, <2>10, <2>11, <2>12, <2>13,
       <2>14, <2>15 DEF CloneStep
<1> QED
  BY <1>7, StepRecords DEF TypeOK, Verdict

-----------------------------------------------------------------------------
(***************************************************************************)
(* Where the acts of a record come from.                                   *)
(***************************************************************************)
\* The shared record keeps its acts, and a tree gets only shared and new ones.
LEMMA ActsComeFrom ==
  ASSUME SharedInv, NEW c \in Clones, CloneStep(c)
  PROVE  /\ Extends(record', record) /\ Acts(record) \subseteq Acts(record')
         /\ record' \in {record, local[c]}
         /\ Acts(record') \subseteq Acts(record) \cup Acts(tree[c])
         /\ Acts(local'[c]) \subseteq Acts(tree'[c])
         /\ \A a \in Acts(tree'[c]) : a \in Acts(tree[c]) \cup Acts(record) \/ New(c, a)
<1>1. /\ record \in Seq(Promise!Act) /\ record' \in Seq(Promise!Act)
      /\ local \in [Clones -> Seq(Promise!Act)] /\ tree \in [Clones -> Seq(Promise!Act)]
      /\ local[c] \in Seq(Promise!Act) /\ tree[c] \in Seq(Promise!Act)
      /\ local'[c] \in Seq(Promise!Act) /\ tree'[c] \in Seq(Promise!Act)
      /\ Extends(tree[c], local[c]) /\ Extends(tree'[c], local'[c])
      /\ step[c] # "idle" => job[c] \in Job
      /\ UnderWay(c)
  BY StepRecords DEF SharedInv, TypeOK, CloneInv, Records
<1>2. Acts(local[c]) \subseteq Acts(tree[c]) /\ Acts(local'[c]) \subseteq Acts(tree'[c])
  BY <1>1, ExtendsKeeps
<1>3. Moves(c)
  BY StepsMove
<1>4. record' = record \/ (Takes(c) /\ record' = local[c])
  BY <1>3 DEF Moves, Takes, Adds, CommitAct, Retry, remoteVars
<1>5. Extends(record', record)
  BY <1>1, <1>4, ExtendsItself DEF Takes
<1>6. Acts(record) \subseteq Acts(record')
  BY <1>1, <1>5, ExtendsKeeps
<1>7. Acts(record') \subseteq Acts(record) \cup Acts(tree[c])
  BY <1>2, <1>4
<1>8. ASSUME NEW a \in Acts(tree'[c])
      PROVE  a \in Acts(tree[c]) \cup Acts(record) \/ New(c, a)
  <2>1. CASE UNCHANGED <<record, headVars>> \/ (Takes(c) /\ UNCHANGED headVars) \/ CommitAct(c)
    BY <1>8, <2>1 DEF headVars, CommitAct
  <2>2. CASE FastForwards(c) /\ UNCHANGED record
    <3>1. tree'[c] \in {tree[c], record}
      BY <1>1, <2>2 DEF FastForwards, headVars
    <3> QED
      BY <1>8, <3>1
  <2>3. CASE Adds(c)
    <3>1. PICK act : New(c, act) /\ Writes(c, act)
      BY <2>3 DEF Adds
    <3>2. tree'[c] = Append(tree[c], act) /\ act \in Promise!Act
      BY <1>1, <3>1 DEF Writes, New
    <3>3. a \in Acts(tree[c]) \cup {act}
      BY <1>1, <1>8, <3>2, AppendExtends
    <3> QED
      BY <3>1, <3>3
  <2>4. CASE Retry(c)
    <3> DEFINE start == job[c].start
               q == SubSeq(local[c], 1, start)
    <3>1. /\ step[c] = "pushing"
          /\ local' = [local EXCEPT ![c] = q] /\ tree' = [tree EXCEPT ![c] = local'[c]]
      BY <2>4 DEF Retry
    <3>2. tree'[c] = q
      BY <1>1, <3>1
    <3>3. start \in 0..Len(local[c])
      <4>1. start \in Nat /\ start <= Len(local[c]) /\ Len(local[c]) \in Nat
        BY <1>1, <3>1, LenProperties DEF UnderWay, Attempted, Job
      <4> QED
        BY <4>1
    <3>4. q \in Seq(Promise!Act) /\ Extends(local[c], q)
      BY <1>1, <3>3, BeginningIsExtended
    <3>5. Acts(q) \subseteq Acts(local[c])
      BY <1>1, <3>4, ExtendsKeeps
    <3> QED
      BY <1>2, <1>8, <3>2, <3>5
  <2> QED
    BY <1>3, <2>1, <2>2, <2>3, <2>4 DEF Moves
<1> QED
  BY <1>2, <1>4, <1>5, <1>6, <1>7, <1>8

\* What stands in a clone's files and not on the shared record is that clone's.
LEMMA StandsWhere ==
  ASSUME SharedInv, NEW d \in Clones, NEW call
  PROVE  /\ Promise!Stands(local[d], call) => Promise!Stands(tree[d], call)
         /\ Promise!Stands(tree[d], call) => Promise!Stands(record, call) \/ call.by = d
<1>1. /\ local[d] \in Seq(Promise!Act) /\ tree[d] \in Seq(Promise!Act) /\ Records(d)
  BY DEF SharedInv, TypeOK, CloneInv
<1>2. Acts(local[d]) \subseteq Acts(tree[d])
  BY <1>1, ExtendsKeeps DEF Records
<1> QED
  BY <1>1, <1>2, OnARecord DEF Records

\* What a step may put on the shared record is of that clone, and was in its files.
LEMMA StandsAfter ==
  ASSUME SharedInv, NEW c \in Clones, CloneStep(c), NEW call
  PROVE  /\ Promise!Stands(record, call) => Promise!Stands(record', call)
         /\ Promise!Stands(record', call) =>
              \/ Promise!Stands(record, call)
              \/ call.by = c /\ Promise!Stands(tree[c], call)
         /\ Promise!Stands(tree'[c], call) =>
              \/ Promise!Stands(tree[c], call) \/ Promise!Stands(record, call)
              \/ call.by = c /\ \A v \in verdicts : v.call # call
         /\ Promise!Stands(local'[c], call) => Promise!Stands(tree'[c], call)
<1>1. /\ Acts(record) \subseteq Acts(record')
      /\ Acts(record') \subseteq Acts(record) \cup Acts(tree[c])
      /\ Acts(local'[c]) \subseteq Acts(tree'[c])
      /\ \A a \in Acts(tree'[c]) : a \in Acts(tree[c]) \cup Acts(record) \/ New(c, a)
  BY ActsComeFrom
<1>2. Promise!Stands(tree[c], call) => Promise!Stands(record, call) \/ call.by = c
  BY StandsWhere
<1>3. Promise!Stands(record', call) => Promise!Stands(record, call) \/ Promise!Stands(tree[c], call)
  BY <1>1, OnARecord
<1>4. Promise!Stands(tree'[c], call) =>
        \/ Promise!Stands(tree[c], call) \/ Promise!Stands(record, call)
        \/ call.by = c /\ \A v \in verdicts : v.call # call
  BY <1>1, OnARecord DEF New
<1> QED
  BY <1>1, <1>2, <1>3, <1>4, OnARecord

-----------------------------------------------------------------------------
(***************************************************************************)
(* What holds of each clone is kept.                                       *)
(***************************************************************************)
\* ... of the others by what one clone does,
LEMMA OthersKeep ==
  ASSUME SharedInv, NEW c \in Clones, CloneStep(c), NEW d \in Clones \ {c}
  PROVE  CloneInv(d)'
<1>1. /\ local[d] \in Seq(Promise!Act) /\ Records(d) /\ UnderWay(d) /\ Fresh(d) /\ LeftBehind(d)
      /\ local'[d] = local[d] /\ tree'[d] = tree[d] /\ step'[d] = step[d] /\ job'[d] = job[d]
      /\ calls \in Nat /\ calls' \in {calls, calls + 1}
      /\ \A v \in verdicts' \ verdicts : step[c] # "idle" /\ v.call = job[c].act.call
      /\ step[c] # "idle" => job[c].act.call.by = c
      /\ step[d] # "idle" => job[d] \in Job
  BY StepsFrame DEF SharedInv, TypeOK, CloneInv, UnderWay
<1>2. /\ record \in Seq(Promise!Act) /\ record' \in Seq(Promise!Act)
      /\ Extends(record', record)
  BY StepRecords, ActsComeFrom DEF SharedInv, TypeOK
<1>3. /\ \A call : Promise!Stands(record, call) => Promise!Stands(record', call)
      /\ \A call : Promise!Stands(record', call) => Promise!Stands(record, call) \/ call.by = c
  BY StandsAfter
<1>4. Records(d)'
  BY <1>1, <1>3 DEF Records
<1>5. Extends(record, local[d]) => Extends(record', local[d])
  BY <1>1, <1>2, ExtendsFurther
<1>6. UnderWay(d)'
  <2>1. step[d] # "idle" => job[d].act.call.n \in Nat
    BY <1>1, SharedAssumption DEF Job, Promise!Act, Promise!Command
  <2>2. step[d] # "idle" => job[d].act.call.n <= calls'
    BY <1>1, <2>1 DEF UnderWay
  <2>3. step[d] = "pushing" => Attempted(d)'
    BY <1>1 DEF UnderWay, Attempted
  <2> QED
    BY <1>1, <1>5, <2>2, <2>3 DEF UnderWay
<1>7. Fresh(d)'
  <2>1. step[d] # "idle" => job[d].act.call.by = d
    BY <1>1 DEF UnderWay
  <2> QED
    BY <1>1, <1>3, <2>1 DEF Fresh
<1>8. LeftBehind(d)'
  BY <1>1, <1>3 DEF LeftBehind
<1> QED
  BY <1>4, <1>6, <1>7, <1>8 DEF CloneInv

\* ... of its records by what the clone itself does,
LEMMA OwnRecordsKeep ==
  ASSUME SharedInv, NEW c \in Clones, CloneStep(c)
  PROVE  Records(c)'
<1>1. Extends(tree'[c], local'[c]) /\ Sound(tree'[c])
  BY StepRecords
<1>2. /\ \A a \in Acts(tree'[c]) : a \in Acts(tree[c]) \cup Acts(record) \/ New(c, a)
      /\ Acts(record) \subseteq Acts(record') /\ Records(c)
  BY ActsComeFrom DEF SharedInv, CloneInv
<1>3. \A a \in Acts(tree'[c]) : Promise!Stands(record', a.call) \/ a.call.by = c
  BY <1>2, OnARecord DEF Records, New
<1> QED
  BY <1>1, <1>3 DEF Records

\* ... of its command by what the clone itself does.
LEMMA OwnCommandKeeps ==
  ASSUME SharedInv, NEW c \in Clones, CloneStep(c)
  PROVE  UnderWay(c)' /\ Fresh(c)' /\ LeftBehind(c)'
<1> DEFINE Kept == UnderWay(c)' /\ Fresh(c)' /\ LeftBehind(c)'
<1>1. /\ record \in Seq(Promise!Act) /\ local[c] \in Seq(Promise!Act)
      /\ tree[c] \in Seq(Promise!Act)
      /\ local = [d \in Clones |-> local[d]] /\ tree = [d \in Clones |-> tree[d]]
      /\ step = [d \in Clones |-> step[d]] /\ job = [d \in Clones |-> job[d]]
      /\ calls \in Nat
      /\ step[c] # "idle" => job[c] \in Job
      /\ Records(c) /\ UnderWay(c) /\ Fresh(c) /\ LeftBehind(c)
      /\ VerdictsHold
  BY DEF SharedInv, TypeOK, CloneInv
<1> USE DEF GoesTo, Ends, Refuses, Recorded, Tells
<1>2. ASSUME step'[c] = "idle"
      PROVE  Kept
  BY <1>2 DEF UnderWay, Fresh, LeftBehind
\* A command begins: its number is new.
<1>3. ASSUME NEW type, NEW of, NEW gated, Starts(c, type, of, gated),
             tree'[c] \in {tree[c], record}
      PROVE  Kept
  <2>1. /\ step'[c] = "fetching" /\ record' = record /\ verdicts' = verdicts
        /\ calls' = calls + 1
        /\ job'[c].act.call = [by |-> c, n |-> calls + 1]
    BY <1>1, <1>3 DEF Starts, remoteVars
  <2>2. UnderWay(c)' /\ LeftBehind(c)'
    BY <1>1, <2>1 DEF UnderWay, LeftBehind
  <2>3. Fresh(c)'
    BY <1>3, <2>1, NewNumber DEF Fresh
  <2> QED
    BY <2>2, <2>3
<1>4. ASSUME NEW type, NEW gated, Call(c, type, gated)
      PROVE  Kept
  BY <1>3, <1>4 DEF Call, cloneVars, headVars
<1>5. ASSUME NEW id, Confirm(c, id)
      PROVE  Kept
  <2>1. tree'[c] \in {tree[c], record} /\ Starts(c, "RULING", id, FALSE)
    BY <1>1, <1>5 DEF Confirm, Refreshes, FastForwards, cloneVars, headVars
  <2> QED
    BY <1>3, <2>1
\* What is fetched holds no act of this command, and all that was left behind.
<1>6. CASE CatchUp(c)
  <2>1. CASE FastForwards(c) /\ GoesTo(c, "acting") /\ UNCHANGED <<job, verdicts>>
    <3>1. /\ step[c] = "fetching" /\ step'[c] = "acting" /\ local'[c] = record
          /\ tree'[c] \in {tree[c], record} /\ Extends(record, local[c])
          /\ UNCHANGED <<record, job, verdicts, calls>>
      BY <1>1, <1>6, <2>1, ExtendsItself
         DEF CatchUp, FastForwards, Behind, remoteVars, headVars
    <3>2. Extends(record', local'[c])
      BY <1>1, <3>1, ExtendsItself
    <3>3. UnderWay(c)' /\ Fresh(c)'
      BY <1>1, <3>1, <3>2 DEF UnderWay, Fresh
    <3>4. \A call : Promise!Stands(local[c], call) => Promise!Stands(record, call)
      BY <1>1, <3>1, ExtendsKeeps, OnARecord
    <3>5. LeftBehind(c)'
      BY <1>1, <3>1, <3>4 DEF LeftBehind, VerdictsHold
    <3> QED
      BY <3>3, <3>5
  <2>2. CASE Ahead(c) /\ GoesTo(c, "earlier") /\ UNCHANGED <<headVars, job, verdicts>>
    <3>1. /\ step[c] = "fetching" /\ step'[c] = "earlier"
          /\ UNCHANGED <<record, local, tree, job, verdicts, calls>>
      BY <1>1, <1>6, <2>2 DEF CatchUp, remoteVars, headVars
    <3> QED
      BY <1>1, <3>1 DEF UnderWay, Fresh, LeftBehind
  <2>3. CASE Refuses(c)
    BY <1>1, <1>2, <2>3
  <2> QED
    BY <1>6, <2>1, <2>2, <2>3 DEF CatchUp
<1>7. CASE PushEarlier(c)
  <2>1. CASE Takes(c) /\ GoesTo(c, "acting") /\ UNCHANGED <<job, verdicts>>
    <3>1. /\ step[c] = "earlier" /\ step'[c] = "acting" /\ record' = local[c]
          /\ Extends(local[c], record)
          /\ UNCHANGED <<local, tree, job, verdicts, calls>>
      BY <1>1, <1>7, <2>1 DEF PushEarlier, Takes, cloneVars, headVars
    <3>2. Extends(record', local'[c])
      BY <1>1, <3>1, ExtendsItself
    <3>3. \A call : /\ Promise!Stands(local[c], call) => Promise!Stands(tree[c], call)
                    /\ Promise!Stands(record, call) => Promise!Stands(local[c], call)
      BY <1>1, <3>1, ExtendsKeeps, OnARecord, StandsWhere
    <3>4. UnderWay(c)' /\ Fresh(c)'
      BY <1>1, <3>1, <3>2, <3>3 DEF UnderWay, Fresh
    <3>5. LeftBehind(c)'
      BY <1>1, <3>1, <3>3 DEF LeftBehind, VerdictsHold
    <3> QED
      BY <3>4, <3>5
  <2>2. CASE Refuses(c)
    BY <1>1, <1>2, <2>2
  <2> QED
    BY <1>7, <2>1, <2>2 DEF PushEarlier
\* The act is written where it is not yet, and committed with the rest of the tree.
<1>8. CASE DoAct(c)
  <2>1. /\ step[c] = "acting" /\ step'[c] = "written" /\ job[c].act \in Promise!Act
        /\ tree'[c] = Append(tree[c], job[c].act)
        /\ UNCHANGED <<record, local, job, verdicts, calls>>
    BY <1>1, <1>8 DEF DoAct, Writes, remoteVars, Job
  <2>2. job[c].act \in Acts(tree'[c])
    BY <1>1, <2>1, AppendExtends
  <2>3. ~Promise!Stands(local[c], job[c].act.call)
    BY <1>1, <2>1, StandsWhere DEF Fresh
  <2> QED
    BY <1>1, <2>1, <2>2, <2>3 DEF UnderWay, Fresh, LeftBehind
<1>9. CASE CommitAct(c)
  <2>1. /\ step[c] = "written" /\ step'[c] = "pushing" /\ job[c] \in Job
        /\ local'[c] = tree[c] /\ tree'[c] = tree[c]
        /\ job'[c].start = Len(local[c]) /\ job'[c].act = job[c].act
        /\ UNCHANGED <<record, verdicts, calls>>
    BY <1>1, <1>9 DEF CommitAct, remoteVars, Job
  <2>2. /\ Len(local[c]) <= Len(tree[c]) /\ SubSeq(tree[c], 1, Len(local[c])) = local[c]
    BY <1>1 DEF Records, Extends
  <2>3. Attempted(c)'
    BY <1>1, <2>1, <2>2 DEF Attempted, UnderWay
  <2> QED
    BY <1>1, <2>1, <2>3 DEF UnderWay, Fresh, LeftBehind
<1>10. CASE Push(c)
  <2>1. CASE Ends(c)
    BY <1>1, <1>2, <2>1
  <2>2. CASE ~Ends(c)
    <3>1. /\ step[c] = "pushing" /\ step'[c] = "removing"
          /\ UNCHANGED <<local, tree, job, calls>>
      BY <1>1, <1>10, <2>2 DEF Push, cloneVars, headVars
    <3> QED
      BY <1>1, <3>1 DEF UnderWay, Attempted, Fresh, LeftBehind
  <2> QED
    BY <2>1, <2>2
\* A retry discards the act with its commit.
<1>11. CASE Retry(c)
  <2>1. /\ step[c] = "pushing" /\ step'[c] = "fetching"
        /\ tree'[c] = SubSeq(local[c], 1, job[c].start)
        /\ job'[c].act = job[c].act
        /\ UNCHANGED <<record, verdicts, calls>>
    BY <1>1, <1>11 DEF Retry, remoteVars, Job
  <2> QED
    BY <1>1, <2>1 DEF UnderWay, Attempted, Fresh, LeftBehind
<1>12. CASE Unreachable(c) \/ Killed(c) \/ RefuseAct(c) \/ FailTurn(c) \/ StageAct(c)
            \/ RemovePending(c)
  BY <1>1, <1>2, <1>12 DEF Unreachable, Killed, RefuseAct, FailTurn, StageAct, RemovePending
<1>13. ASSUME step[c] = "idle", UNCHANGED step
       PROVE  Kept
  BY <1>2, <1>13
<1>14. ASSUME NEW id, Reject(c, id)
       PROVE  Kept
  BY <1>13, <1>14 DEF Reject
<1>15. ASSUME NEW alert, Cascade(c, alert)
       PROVE  Kept
  BY <1>13, <1>15 DEF Cascade
<1>16. CASE Look(c) \/ Sync(c)
  BY <1>13, <1>16 DEF Look, Sync
<1> QED
  BY <1>4, <1>5, <1>6, <1>7, <1>8, <1>9, <1>10, <1>11, <1>12, <1>14, <1>15, <1>16 DEF CloneStep

-----------------------------------------------------------------------------
(***************************************************************************)
(* Numbers.                                                                *)
(***************************************************************************)
LEMMA StepNumbered ==
  ASSUME SharedInv, NEW c \in Clones, CloneStep(c)
  PROVE  Numbered'
<1>1. /\ record' \in Seq(Promise!Act) /\ tree' \in [Clones -> Seq(Promise!Act)]
      /\ calls \in Nat /\ calls' \in {calls, calls + 1}
      /\ Numbered /\ UnderWay(c)
      /\ verdicts' \subseteq [call : Promise!Command, says : Says]
  BY StepTypeOK, StepsFrame DEF SharedInv, TypeOK, CloneInv
<1>2. /\ \A d \in Clones \ {c} : tree'[d] = tree[d]
      /\ \A v \in verdicts' \ verdicts : step[c] # "idle" /\ v.call = job[c].act.call
  BY StepsFrame DEF SharedInv
<1>3. /\ Acts(record') \subseteq Acts(record) \cup Acts(tree[c])
      /\ \A a \in Acts(tree'[c]) : a \in Acts(tree[c]) \cup Acts(record) \/ New(c, a)
  BY ActsComeFrom
<1>4. \A call \in Promise!Command : call.n <= calls => call.n <= calls'
  BY <1>1, SharedAssumption DEF Promise!Command
<1>5. /\ \A a \in Acts(record') : a.call \in Promise!Command
      /\ \A d \in Clones : \A a \in Acts(tree'[d]) : a.call \in Promise!Command
      /\ \A v \in verdicts' : v.call \in Promise!Command
  <2>1. /\ Acts(record') \subseteq Promise!Act
        /\ \A d \in Clones : Acts(tree'[d]) \subseteq Promise!Act
    BY <1>1, ActsAreTyped
  <2> QED
    BY <1>1, <2>1 DEF Promise!Act
<1>6. \A a \in Acts(record') : a.call.n <= calls
  BY <1>1, <1>3 DEF Numbered
<1>7. \A a \in Acts(tree'[c]) : a.call.n <= calls \/ a.call.n <= calls'
  BY <1>1, <1>3 DEF Numbered, New
<1>8. \A d \in Clones \ {c} : \A a \in Acts(tree'[d]) : a.call.n <= calls
  BY <1>1, <1>2 DEF Numbered
<1>9. \A v \in verdicts' : v.call.n <= calls
  BY <1>1, <1>2 DEF Numbered, UnderWay
<1>10. \A d \in Clones : \A a \in Acts(tree'[d]) : a.call.n <= calls'
  BY <1>4, <1>5, <1>7, <1>8
<1> QED
  BY <1>4, <1>5, <1>6, <1>9, <1>10 DEF Numbered

-----------------------------------------------------------------------------
(***************************************************************************)
(* Verdicts.                                                               *)
(***************************************************************************)
\* What a command tells, and where its act is when it does.
LEMMA NewVerdicts ==
  ASSUME SharedInv, NEW c \in Clones, CloneStep(c), NEW v \in verdicts' \ verdicts
  PROVE  /\ v.call = job[c].act.call /\ local' = local
         /\ \/ /\ v.says \in {"shared", "local"} /\ step[c] = "pushing"
               /\ v.says = "shared" => record' = local[c]
            \/ /\ v.says = "refused" /\ step[c] \in {"fetching", "earlier", "acting"}
               /\ tree' = tree
            \/ /\ v.says = "staged" /\ step[c] = "acting" /\ tree' = tree
               /\ v.call \in staged'
            \/ v.says = "failed"
<1> USE DEF Tells, Refuses, Recorded, remoteVars, cloneVars, headVars
<1>1. ASSUME NEW type, NEW gated, Call(c, type, gated)
      PROVE  FALSE
  BY <1>1 DEF Call, Starts
<1>2. CASE CatchUp(c)
  BY <1>2 DEF CatchUp
<1>3. CASE Unreachable(c) \/ Killed(c)
  BY <1>3 DEF Unreachable, Killed
<1>4. CASE PushEarlier(c)
  BY <1>4 DEF PushEarlier
<1>5. CASE DoAct(c) \/ RefuseAct(c) \/ FailTurn(c) \/ CommitAct(c)
  BY <1>5 DEF DoAct, RefuseAct, FailTurn, CommitAct
<1>6. CASE StageAct(c)
  BY <1>6 DEF StageAct
<1>7. CASE Push(c)
  BY <1>7 DEF Push, Takes
<1>8. CASE Retry(c) \/ RemovePending(c) \/ Look(c) \/ Sync(c)
  BY <1>8 DEF Retry, RemovePending, Look, Sync
<1>9. ASSUME NEW id, Confirm(c, id) \/ Reject(c, id)
      PROVE  FALSE
  BY <1>9 DEF Confirm, Starts, Reject
<1>10. ASSUME NEW alert, Cascade(c, alert)
       PROVE  FALSE
  BY <1>10 DEF Cascade
<1> QED
  BY <1>1, <1>2, <1>3, <1>4, <1>5, <1>6, <1>7, <1>8, <1>9, <1>10 DEF CloneStep

\* What a clone's branch had it keeps, or it is shared, unless the attempt is discarded.
LEMMA BranchKeeps ==
  ASSUME SharedInv, NEW c \in Clones, CloneStep(c)
  PROVE  Retry(c) \/ Acts(local[c]) \subseteq Acts(local'[c]) \cup Acts(record')
<1>1. /\ record \in Seq(Promise!Act) /\ local[c] \in Seq(Promise!Act)
      /\ tree[c] \in Seq(Promise!Act) /\ local'[c] \in Seq(Promise!Act)
      /\ tree'[c] \in Seq(Promise!Act)
      /\ local = [d \in Clones |-> local[d]]
      /\ Extends(tree[c], local[c])
  BY StepRecords DEF SharedInv, TypeOK, CloneInv, Records
<1>2. CASE UNCHANGED <<record, headVars>> \/ (Takes(c) /\ UNCHANGED headVars)
  BY <1>2 DEF headVars
<1>3. CASE FastForwards(c) /\ UNCHANGED record
  <2>1. local'[c] = local[c] \/ (local'[c] = record /\ Extends(record, local[c]))
    BY <1>1, <1>3 DEF FastForwards, Behind, headVars
  <2> QED
    BY <1>1, <2>1, ExtendsKeeps
<1>4. CASE Adds(c)
  <2>1. PICK act : New(c, act) /\ Writes(c, act)
    BY <1>4 DEF Adds
  <2>2. tree'[c] = Append(tree[c], act) /\ act \in Promise!Act
    BY <2>1 DEF Writes, New, SharedInv, TypeOK
  <2>3. Acts(local[c]) \subseteq Acts(tree[c]) /\ Acts(tree[c]) \subseteq Acts(tree'[c])
    BY <1>1, <2>2, ExtendsKeeps, AppendExtends
  <2>4. local'[c] \in {local[c], tree'[c]}
    BY <1>1, <1>4 DEF Adds
  <2> QED
    BY <2>3, <2>4
<1>5. CASE CommitAct(c)
  <2>1. local'[c] = tree[c]
    BY <1>1, <1>5 DEF CommitAct
  <2> QED
    BY <1>1, <2>1, ExtendsKeeps
<1> QED
  BY <1>2, <1>3, <1>4, <1>5, StepsMove DEF Moves

\* What its callers were told is recorded locally is there, or shared, after a retry too.
LEMMA ToldLocallyIsKept ==
  ASSUME SharedInv, NEW c \in Clones, CloneStep(c),
         NEW v \in verdicts, v.says = "local", v.call.by = c
  PROVE  Promise!Stands(record', v.call) \/ Promise!Stands(local'[c], v.call)
<1>1. /\ VerdictsHold /\ LeftBehind(c)
      /\ Acts(record) \subseteq Acts(record')
  BY ActsComeFrom DEF SharedInv, CloneInv
<1>2. CASE Retry(c)
  <2>1. Promise!Stands(record, v.call)
    BY <1>1, <1>2 DEF Retry, LeftBehind
  <2> QED
    BY <1>1, <2>1, OnARecord
<1>3. CASE Acts(local[c]) \subseteq Acts(local'[c]) \cup Acts(record')
  <2>1. Promise!Stands(record, v.call) \/ Promise!Stands(local[c], v.call)
    BY <1>1 DEF VerdictsHold
  <2> QED
    BY <1>1, <1>3, <2>1, OnARecord
<1> QED
  BY <1>2, <1>3, BranchKeeps

LEMMA StepVerdictsHold ==
  ASSUME SharedInv, NEW c \in Clones, CloneStep(c)
  PROVE  VerdictsHold'
<1> DEFINE Nowhere(call) ==
             /\ ~Promise!Stands(record', call)
             /\ \A d \in Clones : /\ ~Promise!Stands(local'[d], call)
                                   /\ ~Promise!Stands(tree'[d], call)
           Said(v) ==
             /\ v.says = "shared" => Promise!Stands(record', v.call)
             /\ v.says = "local" => \/ Promise!Stands(record', v.call)
                                    \/ Promise!Stands(local'[v.call.by], v.call)
             /\ v.says \in {"refused", "staged"} => Nowhere(v.call)
<1>1. /\ VerdictsHold /\ UnderWay(c) /\ Fresh(c)
      /\ \A d \in Clones \ {c} : local'[d] = local[d] /\ tree'[d] = tree[d]
  BY StepsFrame DEF SharedInv, CloneInv
<1>2. \A call : Promise!Stands(record, call) => Promise!Stands(record', call)
  BY StandsAfter
\* What was told stays true.
<1>3. ASSUME NEW v \in verdicts
      PROVE  Said(v)
  <2>1. v.says = "shared" => Promise!Stands(record', v.call)
    BY <1>1, <1>2 DEF VerdictsHold
  <2>2. ASSUME v.says = "local"
        PROVE  Promise!Stands(record', v.call) \/ Promise!Stands(local'[v.call.by], v.call)
    <3>1. v.call.by \in Clones
      BY DEF SharedInv, TypeOK, Promise!Command
    <3>2. CASE v.call.by = c
      BY <2>2, <3>2, ToldLocallyIsKept
    <3>3. CASE v.call.by # c
      BY <1>1, <1>2, <2>2, <3>1, <3>3 DEF VerdictsHold
    <3> QED
      BY <3>2, <3>3
  <2>3. ASSUME v.says \in {"refused", "staged"}
        PROVE  Nowhere(v.call)
    <3>1. /\ ~Promise!Stands(record, v.call)
          /\ \A d \in Clones : /\ ~Promise!Stands(local[d], v.call)
                               /\ ~Promise!Stands(tree[d], v.call)
      BY <1>1, <2>3 DEF VerdictsHold
    <3>2. /\ ~Promise!Stands(record', v.call) /\ ~Promise!Stands(tree'[c], v.call)
          /\ ~Promise!Stands(local'[c], v.call)
      BY <3>1, StandsAfter
    <3> QED
      BY <1>1, <3>1, <3>2
  <2> QED
    BY <2>1, <2>2, <2>3
\* What is told now is true.
<1>4. ASSUME NEW v \in verdicts' \ verdicts
      PROVE  Said(v)
  <2>1. /\ v.call = job[c].act.call /\ local' = local
        /\ \/ /\ v.says \in {"shared", "local"} /\ step[c] = "pushing"
              /\ v.says = "shared" => record' = local[c]
           \/ /\ v.says \in {"refused", "staged"} /\ tree' = tree
              /\ step[c] \in {"fetching", "earlier", "acting"}
           \/ v.says = "failed"
    BY <1>4, NewVerdicts
  <2>2. v.says # "failed" => v.call.by = c
    BY <1>1, <2>1 DEF UnderWay
  <2>3. CASE v.says \in {"shared", "local"} /\ step[c] = "pushing"
    <3>1. Promise!Stands(local[c], v.call)
      BY <1>1, <2>1, <2>3, OnARecord DEF UnderWay, Attempted
    <3> QED
      BY <2>1, <2>2, <2>3, <3>1
  <2>4. CASE /\ v.says \in {"refused", "staged"} /\ tree' = tree
             /\ step[c] \in {"fetching", "earlier", "acting"}
    <3>1. ~Promise!Stands(record, v.call) /\ ~Promise!Stands(tree[c], v.call)
      BY <1>1, <2>1, <2>4 DEF Fresh
    <3>2. ~Promise!Stands(record', v.call)
      BY <3>1, StandsAfter
    <3>3. \A d \in Clones : /\ ~Promise!Stands(tree[d], v.call)
                            /\ ~Promise!Stands(local[d], v.call)
      BY <2>2, <2>4, <3>1, StandsWhere
    <3> QED
      BY <2>1, <2>4, <3>2, <3>3
  <2> QED
    BY <2>1, <2>3, <2>4
<1>5. \A v \in verdicts' : Said(v)
  BY <1>3, <1>4
<1> QED
  BY <1>5 DEF VerdictsHold

LEMMA StepOneActLeftBehind ==
  ASSUME SharedInv, NEW c \in Clones, CloneStep(c)
  PROVE  OneActLeftBehind'
<1>1. OneActLeftBehind /\ LeftBehind(c) /\ UnderWay(c)
  BY DEF SharedInv, CloneInv
<1>2. \A call : Promise!Stands(record, call) => Promise!Stands(record', call)
  BY StandsAfter
<1>3. ASSUME NEW v \in verdicts' \ verdicts, v.says = "local"
      PROVE  /\ step[c] = "pushing" /\ v.call = job[c].act.call /\ v.call.by = c
             /\ \A w \in verdicts : w.says = "local" /\ w.call.by = c =>
                                      Promise!Stands(record', w.call)
  <2>1. step[c] = "pushing" /\ v.call = job[c].act.call
    BY <1>3, NewVerdicts
  <2> QED
    BY <1>1, <1>2, <2>1 DEF LeftBehind, UnderWay
<1>4. ASSUME NEW v \in verdicts', NEW w \in verdicts',
             v.says = "local", w.says = "local", v.call.by = w.call.by, v # w
      PROVE  Promise!Stands(record', v.call) \/ Promise!Stands(record', w.call)
  <2>1. CASE v \in verdicts /\ w \in verdicts
    BY <1>1, <1>2, <1>4, <2>1 DEF OneActLeftBehind
  <2>2. CASE v \notin verdicts /\ w \in verdicts
    BY <1>3, <1>4, <2>2
  <2>3. CASE v \in verdicts /\ w \notin verdicts
    BY <1>3, <1>4, <2>3
  <2>4. CASE v \notin verdicts /\ w \notin verdicts
    <3>1. v.call = w.call
      BY <1>3, <1>4, <2>4
    <3>2. v \in [call : Promise!Command, says : Says] /\ w \in [call : Promise!Command, says : Says]
      BY StepTypeOK DEF TypeOK
    <3> QED
      BY <1>4, <3>1, <3>2
  <2> QED
    BY <2>1, <2>2, <2>3, <2>4
<1> QED
  BY <1>4 DEF OneActLeftBehind

LEMMA StepStagedKept ==
  ASSUME SharedInv, NEW c \in Clones, CloneStep(c)
  PROVE  StagedKept'
<1>1. /\ record \in Seq(Promise!Act) /\ local[c] \in Seq(Promise!Act)
      /\ StagedKept /\ UnderWay(c)
      /\ step = [d \in Clones |-> step[d]]
      /\ \A d \in Clones \ {c} : local'[d] = local[d] /\ step'[d] = step[d]
  BY StepsFrame DEF SharedInv, TypeOK, CloneInv
<1>2. /\ Acts(record) \subseteq Acts(record')
      /\ \A id : Ruled(record, id) => Ruled(record', id)
  BY ActsComeFrom, OnARecord
<1> DEFINE Pending(id) == id \in staged' \cup rejected'
           Kept(id) == \/ Pending(id)
                       \/ Ruled(record', id)
                       \/ \E d \in Clones : step'[d] # "pushing" /\ Ruled(local'[d], id)
\* A pending act is removed only when it is ruled in this clone, or rejected.
<1>3. ASSUME NEW id \in staged \cup rejected
      PROVE  Kept(id)
  <2> USE <1>3 DEF remoteVars, cloneVars, headVars, Starts
  <2>1. ASSUME NEW type, NEW gated, Call(c, type, gated)
        PROVE  Pending(id)
    BY <2>1 DEF Call
  <2>2. CASE CatchUp(c) \/ Unreachable(c) \/ PushEarlier(c) \/ DoAct(c) \/ RefuseAct(c)
    BY <2>2 DEF CatchUp, Unreachable, PushEarlier, DoAct, RefuseAct
  <2>3. CASE FailTurn(c) \/ StageAct(c) \/ CommitAct(c) \/ Push(c) \/ Retry(c) \/ Killed(c)
    BY <2>3 DEF FailTurn, StageAct, CommitAct, Push, Retry, Killed
  <2>4. ASSUME NEW of, Confirm(c, of)
        PROVE  Pending(id)
    BY <2>4 DEF Confirm
  <2>5. ASSUME NEW of, Reject(c, of)
        PROVE  Pending(id)
    BY <2>5 DEF Reject, Removes
  <2>6. CASE RemovePending(c)
    <3>1. /\ step'[c] = "idle" /\ local' = local /\ job[c].act \in Acts(local[c])
          /\ id # job[c].act.staged => Pending(id)
      BY <1>1, <2>6 DEF RemovePending, Removes, Ends, GoesTo, UnderWay
    <3>2. Ruled(local[c], job[c].act.staged)
      BY <3>1, OnARecord
    <3> QED
      BY <3>1, <3>2
  <2>7. CASE Look(c) \/ Sync(c)
    BY <2>7 DEF Look, Sync
  <2>8. ASSUME NEW alert, Cascade(c, alert)
        PROVE  Pending(id)
    BY <2>8 DEF Cascade
  <2> QED
    BY <2>1, <2>2, <2>3, <2>4, <2>5, <2>6, <2>7, <2>8 DEF CloneStep
\* A ruling in a clone is shared before that clone commits another act.
<1>4. ASSUME NEW id, step[c] # "pushing", Ruled(local[c], id)
      PROVE  Kept(id)
  <2>1. CASE CommitAct(c)
    <3>1. Extends(record, local[c])
      BY <1>1, <2>1 DEF CommitAct, UnderWay
    <3>2. Acts(local[c]) \subseteq Acts(record)
      BY <1>1, <3>1, ExtendsKeeps
    <3>3. Ruled(record, id)
      BY <1>4, <3>2, OnARecord
    <3> QED
      BY <1>2, <3>3
  <2>2. CASE ~CommitAct(c)
    <3>1. step'[c] # "pushing"
      <4> USE <1>1, <1>4, <2>2 DEF GoesTo, Ends, Refuses, Recorded, Starts
      <4>1. ASSUME NEW type, NEW gated, Call(c, type, gated)
            PROVE  step'[c] # "pushing"
        BY <4>1 DEF Call
      <4>2. CASE CatchUp(c) \/ Unreachable(c) \/ PushEarlier(c) \/ DoAct(c) \/ RefuseAct(c)
        BY <4>2 DEF CatchUp, Unreachable, PushEarlier, DoAct, RefuseAct
      <4>3. CASE FailTurn(c) \/ StageAct(c) \/ Push(c) \/ Retry(c) \/ Killed(c) \/ RemovePending(c)
        BY <4>3 DEF FailTurn, StageAct, Push, Retry, Killed, RemovePending
      <4>4. ASSUME NEW of, Confirm(c, of) \/ Reject(c, of)
            PROVE  step'[c] # "pushing"
        BY <4>4 DEF Confirm, Reject
      <4>5. CASE Look(c) \/ Sync(c)
        BY <4>5 DEF Look, Sync
      <4>6. ASSUME NEW alert, Cascade(c, alert)
            PROVE  step'[c] # "pushing"
        BY <4>6 DEF Cascade
      <4> QED
        BY <4>1, <4>2, <4>3, <4>4, <4>5, <4>6 DEF CloneStep
    <3>2. Ruled(local'[c], id) \/ Ruled(record', id)
      <4>1. ~Retry(c)
        BY <1>4 DEF Retry
      <4>2. Acts(local[c]) \subseteq Acts(local'[c]) \cup Acts(record')
        BY <4>1, BranchKeeps
      <4> QED
        BY <1>4, <4>2, OnARecord
    <3> QED
      BY <3>1, <3>2
  <2> QED
    BY <2>1, <2>2
<1>5. ASSUME NEW v \in verdicts', v.says = "staged"
      PROVE  Kept(v.call)
  <2>1. CASE v \in verdicts
    <3>1. CASE v.call \in staged \cup rejected
      BY <1>3, <3>1
    <3>2. CASE Ruled(record, v.call)
      BY <1>2, <3>2
    <3>3. ASSUME NEW d \in Clones, step[d] # "pushing", Ruled(local[d], v.call)
          PROVE  Kept(v.call)
      <4>1. CASE d = c
        BY <1>4, <3>3, <4>1
      <4>2. CASE d # c
        BY <1>1, <3>3, <4>2
      <4> QED
        BY <4>1, <4>2
    <3> QED
      BY <1>1, <1>5, <2>1, <3>1, <3>2, <3>3 DEF StagedKept
  <2>2. CASE v \notin verdicts
    BY <1>5, <2>2, NewVerdicts
  <2> QED
    BY <2>1, <2>2
<1> QED
  BY <1>5 DEF StagedKept

-----------------------------------------------------------------------------
(***************************************************************************)
(* The invariant, and what it gives.                                       *)
(***************************************************************************)
LEMMA InitSharedInv == SharedInit => SharedInv
<1> SUFFICES ASSUME SharedInit PROVE SharedInv
  OBVIOUS
<1>1. /\ record = <<>> /\ verdicts = {}
      /\ \A c \in Clones : local[c] = <<>> /\ tree[c] = <<>> /\ step[c] = "idle"
  BY DEF SharedInit
<1>2. DOMAIN <<>> = {} /\ Acts(<<>>) = {} /\ Sound(<<>>) /\ Extends(<<>>, <<>>)
  <2>1. DOMAIN <<>> = {}
    BY EmptySeq, LenProperties
  <2>2. Extends(<<>>, <<>>)
    BY EmptySeq, ExtendsItself
  <2> QED
    BY <2>1, <2>2 DEF Acts, Sound
<1>3. \A c \in Clones : CloneInv(c)
  BY <1>1, <1>2 DEF CloneInv, Records, UnderWay, Fresh, LeftBehind
<1>4. Numbered
  BY <1>1, <1>2 DEF Numbered
<1> QED
  BY <1>1, <1>2, <1>3, <1>4, InitTypeOK DEF SharedInv, VerdictsHold, OneActLeftBehind, StagedKept

LEMMA NextSharedInv == SharedInv /\ [SharedNext]_sharedVars => SharedInv'
<1>1. ASSUME SharedInv, NEW c \in Clones, CloneStep(c)
      PROVE  SharedInv'
  <2>1. \A d \in Clones : CloneInv(d)'
    BY <1>1, OthersKeep, OwnRecordsKeep, OwnCommandKeeps DEF CloneInv
  <2>2. Sound(record)'
    BY <1>1, StepRecords DEF Sound
  <2> QED
    BY <1>1, <2>1, <2>2, StepTypeOK, StepNumbered, StepVerdictsHold, StepOneActLeftBehind,
       StepStagedKept DEF SharedInv
<1>2. ASSUME SharedInv, SharedNext
      PROVE  SharedInv'
  BY <1>1, <1>2 DEF SharedNext, CloneStep
<1>3. ASSUME SharedInv, UNCHANGED sharedVars
      PROVE  SharedInv'
  <2> USE <1>3 DEF SharedInv, sharedVars
  <2>1. TypeOK'
    BY DEF TypeOK
  <2>2. Sound(record)' /\ Numbered' /\ VerdictsHold' /\ OneActLeftBehind' /\ StagedKept'
    BY DEF Sound, Numbered, VerdictsHold, OneActLeftBehind, StagedKept
  <2>3. \A c \in Clones : CloneInv(c)'
    BY DEF CloneInv, Records, UnderWay, Attempted, Fresh, LeftBehind
  <2> QED
    BY <2>1, <2>2, <2>3
<1> QED
  BY <1>2, <1>3

THEOREM SharedInvariance == SharedSpec => []SharedInv
  BY InitSharedInv, NextSharedInv, PTL DEF SharedSpec

\* Whatever races, retries, alerts, uncommitted entries, lost answers and deaths there
\* are, and on however many clones, what withSync tells its caller is so and stays so.
THEOREM VerdictsAlwaysHold == SharedSpec => []VerdictsHold
<1>1. SharedInv => VerdictsHold
  BY DEF SharedInv
<1> QED
  BY <1>1, SharedInvariance, PTL

\* Of the acts said to be recorded locally a clone never has two that are not shared:
\* one left behind is pushed first (withSync) or stops the next one (fastForward).
THEOREM OneActIsLeftBehind == SharedSpec => []OneActLeftBehind
<1>1. SharedInv => OneActLeftBehind
  BY DEF SharedInv
<1> QED
  BY <1>1, SharedInvariance, PTL

\* An act staged for the Speaker is pending until it is rejected or ruled on, whoever
\* confirms it, from where, and however that ends (cmdConfirm, removePending).
THEOREM NoStagedActEverVanishes == SharedSpec => []NoStagedActVanishes
<1>1. SharedInv => NoStagedActVanishes
  BY DEF SharedInv, StagedKept, NoStagedActVanishes
<1> QED
  BY <1>1, SharedInvariance, PTL

\* A session shared through git is one record that only grows, by acts each lawful
\* where it stands and new, however many of them a push takes along (git push, withSync,
\* cmdCascade, and entries that were left uncommitted).
THEOREM SharedImplementsRecord == SharedSpec => ImplementsSharedRecord
<1>1. SharedInit => Promise!Init
  BY DEF SharedInit, Promise!Init
<1>2. ASSUME SharedInv, NEW c \in Clones, CloneStep(c)
      PROVE  Promise!Next
  <2>1. /\ record \in Seq(Promise!Act) /\ record' \in Seq(Promise!Act)
        /\ Extends(record', record) /\ Sound(record')
    BY <1>2, StepRecords, ActsComeFrom DEF SharedInv, TypeOK
  <2> QED
    BY <2>1, SoundFollows DEF Promise!Next
<1>3. SharedInv /\ SharedNext => [Promise!Next]_record
  BY <1>2 DEF SharedNext, CloneStep
<1>4. SharedInv /\ UNCHANGED sharedVars => UNCHANGED record
  BY DEF sharedVars
<1>5. SharedInv /\ [SharedNext]_sharedVars => [Promise!Next]_record
  BY <1>3, <1>4
<1> QED
  BY <1>1, <1>5, SharedInvariance, PTL DEF SharedSpec, ImplementsSharedRecord, Promise!Spec

=============================================================================

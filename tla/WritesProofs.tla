---------------------------- MODULE WritesProofs ---------------------------
(***************************************************************************)
(* What acts write stays, and what they report is so, however many are     *)
(* begun, killed between two writes or not committed.                      *)
(*                                                                         *)
(* The argument.  The document in memory is the one on disk, so a write    *)
(* only appends to what was committed (InMemory).  How far the act under   *)
(* way has come says what it has in the files (Progress) and how state and *)
(* record may disagree meanwhile (Disagreement); whatever else is in the   *)
(* files and not in HEAD is of acts that were cut short (LooseIsCut).      *)
(***************************************************************************)
EXTENDS ActWrites, TLAPS, SequenceTheorems, FiniteSetTheorems

\* For its lemma on positions; who sits and what is moved is nothing here.
LOCAL Records == INSTANCE HansardProofs WITH Actors <- {}, Motions <- {}

\* The act under way is the last begun, and at a write its handler has; no number
\* not yet given is anywhere.
Numbered ==
  /\ Busy => doing.n = begun /\ doing.at <= Len(Script[doing.act])
  /\ \A f \in {files, head} :
       /\ \A k \in DOMAIN f.record : f.record[k].act <= begun
       /\ \A k \in DOMAIN f.ledger : f.ledger[k] <= begun
  /\ \A t \in told : t.n <= begun /\ (Busy => t.n # begun)
  /\ \A n \in owed \cup cut \cup unsigned : n <= begun

\* A handler goes on with the document that it wrote, on top of what was committed.
InMemory ==
  /\ Prefix(head.record, files.record)
  /\ Busy => doing.doc = files.record

\* The writes of an act before the one at a place, and of the act under way.
Before(act, at, ops) == {k \in 1..(at - 1) : Script[act][k] \in ops}
Did(ops) == Before(doing.act, doing.at, ops)
Entered == {"record", "projection"}

\* What was written is in the files, and no more than that.
Progress ==
  Busy =>
    /\ Cardinality(EntriesOf(files.record, doing.n)) = Cardinality(Did(Entered))
    /\ Did({"record"}) # {} =>
         \E k \in EntriesOf(files.record, doing.n) : files.record[k].type = doing.act
    /\ Did({"ledger"}) # {} /\ ledgerAt # "disabled" => Logged(files, doing.n)

\* A confirmed act is committed once, at its end.
ConfirmedAtEnd ==
  Busy =>
    /\ doing.confirmed <=> doing.n \in owed
    /\ doing.confirmed => /\ doing.act \in Constitutional
                          /\ EntriesOf(head.record, doing.n) = {}
                          /\ ~Logged(head, doing.n)

\* What is in the files and in no commit is of acts cut short, or of the one under way.
LooseIsCut == Loose \subseteq cut \cup IF Busy THEN {doing.n} ELSE {}

\* What the acts that ended said of themselves.
Reported ==
  \A t \in told :
    /\ t.says = "recorded" =>
         \E act \in Acts : /\ WholeAs(act, files, t.n, ledgerAt # "disabled")
                           /\ WholeAs(act, head, t.n, ledgerAt = "default")
    /\ t.says = "nothingRecorded" =>
         /\ EntriesOf(files.record, t.n) = {} /\ EntriesOf(head.record, t.n) = {}
         /\ ~Logged(head, t.n) /\ (ledgerAt = "default" => ~Logged(files, t.n))

\* The disagreements of state and record that a cut explains.
Explained(f, cuts) ==
  \/ Agrees(f)
  \/ Bearing(f.record) # {} /\ Last(f.record).act \in cuts
  \/ f.state = "PROROGUED" /\ \E n \in cuts : EntriesOf(f.record, n) = {}

\* Which of the two the act under way has written: its state, or the entry that
\* bears it.
TypeAt(act, k) == IF k > 1 /\ act = "crisis" THEN "capture" ELSE act
BearsBefore(act, at) == \E k \in Before(act, at, {"record"}) : TypeAt(act, k) \in DOMAIN Makes
StateWritten == Did({"state"}) # {}
BearingWritten == BearsBefore(doing.act, doing.at)
Disagreement ==
  /\ Explained(head, cut)
  /\ ~Busy => Explained(files, cut)
  /\ Busy =>
       /\ doing.n \in cut => EntriesOf(files.record, doing.n) # {}
       /\ StateWritten => files.state = MadeBy(doing.act)
       /\ BearingWritten => /\ Bearing(files.record) # {}
                            /\ Last(files.record).act = doing.n
                            /\ Makes[Last(files.record).type] = MadeBy(doing.act)
       /\ StateWritten /\ ~BearingWritten =>
            files.state = "PROROGUED" /\ EntriesOf(files.record, doing.n) = {}
       /\ ~StateWritten /\ ~BearingWritten => Explained(files, cut)

WritesInv ==
  /\ TypeOK /\ Numbered /\ InMemory /\ Progress /\ ConfirmedAtEnd
  /\ LooseIsCut /\ Reported /\ Disagreement /\ UnsignedOnlyIfCut

-----------------------------------------------------------------------------
(***************************************************************************)
(* The scripts.                                                            *)
(***************************************************************************)
LEMMA ActsAre == Acts = {"vote", "seal", "escalate", "rule", "assent", "crisis", "prorogue"}
  BY DEF Acts, Script

LEMMA Scripts ==
  /\ Len(Script["vote"]) = 2
  /\ Script["vote"][1] = "record" /\ Script["vote"][2] = "commit"
  /\ Len(Script["seal"]) = 4
  /\ Script["seal"][1] = "state" /\ Script["seal"][2] = "record" /\ Script["seal"][3] = "ledger" /\ Script["seal"][4] = "commit"
  /\ Len(Script["escalate"]) = 5
  /\ Script["escalate"][1] = "record" /\ Script["escalate"][2] = "state" /\ Script["escalate"][3] = "projection" /\ Script["escalate"][4] = "ledger" /\ Script["escalate"][5] = "commit"
  /\ Len(Script["rule"]) = 4
  /\ Script["rule"][1] = "record" /\ Script["rule"][2] = "state" /\ Script["rule"][3] = "ledger" /\ Script["rule"][4] = "commit"
  /\ Len(Script["assent"]) = 5
  /\ Script["assent"][1] = "record" /\ Script["assent"][2] = "state" /\ Script["assent"][3] = "projection" /\ Script["assent"][4] = "ledger" /\ Script["assent"][5] = "commit"
  /\ Len(Script["crisis"]) = 6
  /\ Script["crisis"][1] = "record" /\ Script["crisis"][2] = "ledger" /\ Script["crisis"][3] = "commit" /\ Script["crisis"][4] = "record" /\ Script["crisis"][5] = "state" /\ Script["crisis"][6] = "commit"
  /\ Len(Script["prorogue"]) = 4
  /\ Script["prorogue"][1] = "ledger" /\ Script["prorogue"][2] = "state" /\ Script["prorogue"][3] = "record" /\ Script["prorogue"][4] = "commit"
  BY DEF Script

LEMMA MakesIs ==
  /\ DOMAIN Makes = {"rule", "assent", "escalate", "capture", "seal", "prorogue"}
  /\ Makes["seal"] = "PROROGUED" /\ Makes["prorogue"] = "PROROGUED"
  /\ \A act \in Acts \ {"crisis"} : MadeBy(act) = Makes[act]
  /\ MadeBy("crisis") = Makes["capture"]
  BY ActsAre DEF Makes, MadeBy

\* A script ends with a commit, and commits nothing without an entry.
LEMMA ScriptEnds ==
  ASSUME NEW act \in Acts, NEW at \in 1..Len(Script[act])
  PROVE  /\ Len(Script[act]) \in 2..6
         /\ Script[act][at] # "commit" => at < Len(Script[act])
         /\ Script[act][at] = "commit" =>
              /\ Before(act, at, {"record"}) # {}
              /\ act \in Constitutional => at = Len(Script[act])
         /\ Script[act][Len(Script[act])] = "commit"
         /\ DOMAIN Script[act] = 1..Len(Script[act])
<1>1. CASE act = "vote"
  BY <1>1, Scripts DEF Before, Constitutional, Script
<1>2. CASE act = "seal"
  BY <1>2, Scripts DEF Before, Constitutional, Script
<1>3. CASE act = "escalate"
  BY <1>3, Scripts DEF Before, Constitutional, Script
<1>4. CASE act = "rule"
  BY <1>4, Scripts DEF Before, Constitutional, Script
<1>5. CASE act = "assent"
  BY <1>5, Scripts DEF Before, Constitutional, Script
<1>6. CASE act = "crisis"
  BY <1>6, Scripts DEF Before, Constitutional, Script
<1>7. CASE act = "prorogue"
  BY <1>7, Scripts DEF Before, Constitutional, Script
<1> QED
  BY <1>1, <1>2, <1>3, <1>4, <1>5, <1>6, <1>7, ActsAre

\* A handler writes the state and the entry that bears it before it commits either,
\* the entry first but for a seal and a prorogation.
LEMMA ScriptBears ==
  ASSUME NEW act \in Acts, NEW at \in 1..Len(Script[act])
  PROVE  /\ Script[act][at] = "commit" =>
              (Before(act, at, {"state"}) # {} <=> BearsBefore(act, at))
         /\ Script[act][at] = "projection" => BearsBefore(act, at)
         /\ Script[act][at] = "state" =>
              \/ BearsBefore(act, at)
              \/ act \in {"seal", "prorogue"} /\ Before(act, at, Entered) = {}
         /\ Script[act][at] = "record" =>
              /\ ~BearsBefore(act, at)
              /\ Before(act, at, {"state"}) # {} => act \in {"seal", "prorogue"}
              /\ Before(act, at, {"record"}) = {} => TypeAt(act, at) = act
<1>1. CASE act = "vote"
  BY <1>1, Scripts, MakesIs DEF Before, BearsBefore, TypeAt, Entered
<1>2. CASE act = "seal"
  BY <1>2, Scripts, MakesIs DEF Before, BearsBefore, TypeAt, Entered
<1>3. CASE act = "escalate"
  BY <1>3, Scripts, MakesIs DEF Before, BearsBefore, TypeAt, Entered
<1>4. CASE act = "rule"
  BY <1>4, Scripts, MakesIs DEF Before, BearsBefore, TypeAt, Entered
<1>5. CASE act = "assent"
  BY <1>5, Scripts, MakesIs DEF Before, BearsBefore, TypeAt, Entered
<1>6. CASE act = "crisis"
  BY <1>6, Scripts, MakesIs DEF Before, BearsBefore, TypeAt, Entered
<1>7. CASE act = "prorogue"
  BY <1>7, Scripts, MakesIs DEF Before, BearsBefore, TypeAt, Entered
<1> QED
  BY <1>1, <1>2, <1>3, <1>4, <1>5, <1>6, <1>7, ActsAre

-----------------------------------------------------------------------------
(***************************************************************************)
(* Types, and how far a script is.                                         *)
(***************************************************************************)
\* The act under way, at one of the writes of its script.
LEMMA UnderWay ==
  ASSUME WritesInv, Busy
  PROVE  /\ doing \in Doing /\ doing.act \in Acts /\ doing.n = begun
         /\ doing.at \in 1..Len(Script[doing.act])
         /\ doing.doc = files.record
         /\ [doing EXCEPT !.at = @ + 1].act = doing.act
<1>1. doing \in Doing
  BY DEF WritesInv, TypeOK, Busy
<1>2. doing.act \in Acts /\ doing.at \in 1..6
  BY <1>1 DEF Doing
<1>3. doing.n = begun /\ doing.at <= Len(Script[doing.act]) /\ doing.doc = files.record
  BY DEF WritesInv, Numbered, InMemory
<1>4. Len(Script[doing.act]) \in 2..6
  BY <1>2, <1>3, ScriptEnds, ActsAre, Scripts
<1> QED
  BY <1>1, <1>2, <1>3, <1>4 DEF Doing

\* An act that has a write left goes on; one whose last commit is due ends.
LEMMA Advancing ==
  ASSUME WritesInv, Busy, Advances
  PROVE  \/ /\ Done /\ Due("commit") /\ ~Busy'
         \/ /\ ~Done /\ Busy' /\ doing' = [doing EXCEPT !.at = @ + 1]
            /\ doing' \in Doing /\ doing'.act = doing.act /\ doing'.n = doing.n
            /\ doing'.confirmed = doing.confirmed /\ doing'.doc = doing.doc
            /\ doing'.at = doing.at + 1 /\ doing'.at <= Len(Script[doing'.act])
<1>1. /\ doing \in Doing /\ doing.act \in Acts
      /\ doing.at \in 1..Len(Script[doing.act]) /\ Len(Script[doing.act]) \in 2..6
      /\ Script[doing.act][Len(Script[doing.act])] = "commit"
  BY UnderWay, ScriptEnds
<1>2. CASE Done
  BY <1>1, <1>2 DEF Done, Advances, Due, Busy
<1>3. CASE ~Done
  <2>1. doing.at + 1 \in 1..6 /\ doing.at + 1 <= Len(Script[doing.act])
    BY <1>1, <1>3 DEF Done
  <2>2. doing' = [doing EXCEPT !.at = @ + 1]
    BY <1>3 DEF Advances
  <2>3. /\ doing' \in Doing /\ doing'.act = doing.act /\ doing'.n = doing.n
        /\ doing'.confirmed = doing.confirmed /\ doing'.doc = doing.doc
        /\ doing'.at = doing.at + 1
    BY <1>1, <2>1, <2>2 DEF Doing
  <2> QED
    BY <1>3, <2>1, <2>2, <2>3, NoActAssumption DEF Busy
<1> QED
  BY <1>2, <1>3

LEMMA DoingGoesOn ==
  ASSUME NEW d \in Doing, d.at + 1 \in 1..6, NEW doc \in Seq(Entry)
  PROVE  LET next == [d EXCEPT !.at = @ + 1, !.doc = doc]
         IN /\ next \in Doing /\ next.doc = doc /\ next.at = d.at + 1
            /\ next.act = d.act /\ next.n = d.n /\ next.confirmed = d.confirmed
  BY DEF Doing

\* A write to the record leaves the act under way.
LEMMA Writing ==
  ASSUME WritesInv, Due("record") \/ Due("projection"),
         NEW type \in Acts \cup {"projection", "capture"}, Writes(type)
  PROVE  LET e == [type |-> type, act |-> doing.n]
         IN /\ e \in Entry
            /\ files.record \in Seq(Entry) /\ files' \in Files
            /\ files'.record = Append(files.record, e)
            /\ files'.state = files.state /\ files'.ledger = files.ledger
            /\ Busy' /\ doing' \in Doing /\ doing'.doc = files'.record
            /\ doing'.act = doing.act /\ doing'.n = doing.n
            /\ doing'.confirmed = doing.confirmed
            /\ doing'.at = doing.at + 1 /\ doing'.at <= Len(Script[doing'.act])
<1> DEFINE e == [type |-> type, act |-> doing.n]
<1>1. /\ Busy /\ doing \in Doing /\ doing.act \in Acts
      /\ doing.at \in 1..Len(Script[doing.act]) /\ Len(Script[doing.act]) \in 2..6
      /\ doing.doc = files.record
      /\ doing.at < Len(Script[doing.act])
  BY UnderWay, ScriptEnds DEF Due
<1>2. files \in Files /\ files.record \in Seq(Entry)
  BY DEF WritesInv, TypeOK, Files
<1>3. e \in Entry
  BY <1>1 DEF Entry, Doing
<1>4. Append(files.record, e) \in Seq(Entry)
  BY <1>2, <1>3, AppendProperties
<1>5. files' = [files EXCEPT !.record = Append(files.record, e)]
  BY <1>1 DEF Writes
<1>6. /\ files' \in Files /\ files'.record = Append(files.record, e)
      /\ files'.state = files.state /\ files'.ledger = files.ledger
  BY <1>2, <1>4, <1>5 DEF Files
<1>7. doing' = [doing EXCEPT !.at = @ + 1, !.doc = Append(files.record, e)]
  BY <1>1 DEF Writes
<1>8. doing.at + 1 \in 1..6 /\ doing.at + 1 <= Len(Script[doing.act])
  <2>1. ASSUME NEW n \in 2..6, NEW at \in 1..n, at < n
        PROVE  at + 1 \in 1..6 /\ at + 1 <= n
    BY <2>1
  <2> QED
    BY <1>1, <2>1
<1>9. /\ doing' \in Doing /\ doing'.doc = Append(files.record, e)
      /\ doing'.act = doing.act /\ doing'.n = doing.n
      /\ doing'.confirmed = doing.confirmed /\ doing'.at = doing.at + 1
  BY <1>1, <1>4, <1>7, <1>8, DoingGoesOn
<1> QED
  BY <1>2, <1>3, <1>6, <1>8, <1>9, NoActAssumption DEF Busy

\* A write that leaves the record alone leaves the act under way.
LEMMA OtherWrites ==
  ASSUME WritesInv, WriteState \/ LogAct
  PROVE  /\ Busy /\ ~Done /\ files' \in Files
         /\ files'.record = files.record
         /\ UNCHANGED <<head, begun, owed, told, cut, unsigned>>
         /\ doing' \in Doing /\ Busy' /\ doing'.act = doing.act /\ doing'.n = doing.n
         /\ doing'.confirmed = doing.confirmed /\ doing'.doc = doing.doc
         /\ doing'.at = doing.at + 1 /\ doing'.at <= Len(Script[doing'.act])
<1>1. /\ Busy /\ Advances /\ ~Due("commit") /\ doing \in Doing /\ doing.act \in Acts
  BY UnderWay DEF WriteState, LogAct, Due
<1>2. files \in Files
  BY DEF WritesInv, TypeOK
<1>3. WriteState => MadeBy(doing.act) \in Sittings
  <2>1. Due("state") => doing.act # "vote"
    BY UnderWay, Scripts DEF Due
  <2>2. \A act \in Acts \ {"vote"} : MadeBy(act) \in Sittings
    BY ActsAre DEF Makes, MadeBy, Sittings
  <2> QED
    BY <1>1, <2>1, <2>2 DEF WriteState
<1>4. Append(files.ledger, doing.n) \in Seq(1..MaxActs)
  BY <1>1, <1>2, AppendProperties DEF Files, Doing
<1>5. files' \in Files /\ files'.record = files.record
  <2>1. CASE WriteState
    BY <1>2, <1>3, <2>1 DEF WriteState, Files
  <2>2. CASE LogAct
    <3>1. files' \in {files, [files EXCEPT !.ledger = Append(@, doing.n)]}
      BY <2>2 DEF LogAct
    <3> QED
      BY <1>2, <1>4, <3>1 DEF Files
  <2> QED
    BY <2>1, <2>2
<1> QED
  BY <1>1, <1>5, Advancing DEF WriteState, LogAct

\* The Charter's ledger stays where it is kept, and a row is added if it is kept.
LEMMA LedgerStays ==
  ASSUME WritesNext PROVE ledgerAt' = ledgerAt
  BY DEF WritesNext, Begin, WriteRecord, WriteProjection, Writes, WriteState, LogAct,
         Commit, CommitFails, SignatureFails, Killed

LEMMA RowWritten ==
  ASSUME WritesInv, LogAct
  PROVE  /\ files'.record = files.record /\ files'.state = files.state
         /\ files'.ledger = IF ledgerAt = "disabled" THEN files.ledger
                            ELSE Append(files.ledger, doing.n)
  BY DEF LogAct, WritesInv, TypeOK, Files

\* What a commit or a checkout takes along.
LEMMA LedgerOf ==
  ASSUME NEW f \in Files, NEW g \in Files
  PROVE  /\ WithLedgerOf(f, g) \in Files
         /\ WithLedgerOf(f, g).record = f.record /\ WithLedgerOf(f, g).state = f.state
         /\ WithLedgerOf(f, g).ledger = IF ledgerAt = "default" THEN f.ledger ELSE g.ledger
  BY DEF WithLedgerOf, Files

LEMMA InitTypeOK == WritesInit => TypeOK
<1> SUFFICES ASSUME WritesInit PROVE TypeOK
  OBVIOUS
<1>1. <<>> \in Seq(Entry) /\ <<>> \in Seq(1..MaxActs)
  BY EmptySeq
<1>2. files \in Files
  BY <1>1 DEF WritesInit, Files, Sittings
<1> QED
  BY <1>2, WritesAssumption DEF WritesInit, TypeOK

LEMMA StepTypeOK == ASSUME WritesInv, WritesNext PROVE TypeOK'
<1>1. /\ files \in Files /\ head \in Files /\ doing \in Doing \cup {NoAct}
      /\ begun \in 0..MaxActs /\ MaxActs \in Nat
      /\ told \subseteq [n : 1..MaxActs, says : Outcomes]
      /\ owed \subseteq 1..MaxActs /\ cut \subseteq 1..MaxActs /\ unsigned \subseteq 1..MaxActs
      /\ ledgerAt' \in LedgerPlaces
  BY WritesAssumption, LedgerStays DEF WritesInv, TypeOK
<1>2. ASSUME NEW act \in Acts, NEW confirmed \in BOOLEAN, Begin(act, confirmed)
      PROVE  TypeOK'
  <2>1. begun' \in 1..MaxActs
    BY <1>1, <1>2 DEF Begin
  <2>2. files.record \in Seq(Entry)
    BY <1>1 DEF Files
  <2>3. doing' \in Doing
    BY <1>2, <2>1, <2>2 DEF Begin, Doing
  <2> QED
    BY <1>1, <1>2, <2>1, <2>3 DEF Begin, TypeOK
<1>3. ASSUME NEW type \in Acts \cup {"projection", "capture"},
             Due("record") \/ Due("projection"), Writes(type)
      PROVE  TypeOK'
  <2>1. files' \in Files /\ doing' \in Doing
    BY <1>3, Writing
  <2> QED
    BY <1>1, <1>3, <2>1 DEF Writes, TypeOK
<1>4. CASE WriteState \/ LogAct
  <2>1. /\ files' \in Files /\ doing' \in Doing
        /\ UNCHANGED <<head, begun, owed, told, cut, unsigned>>
    BY <1>4, OtherWrites
  <2> QED
    BY <1>1, <2>1 DEF TypeOK
<1>5. OnRecord(files.record) \subseteq 1..MaxActs
  <2>1. files.record \in Seq(Entry)
    BY <1>1 DEF Files
  <2>2. \A k \in DOMAIN files.record : files.record[k] \in Entry
    BY <2>1, ElementOfSeq, LenProperties
  <2> QED
    BY <2>2 DEF OnRecord, Entry
<1>6. ASSUME Busy, NEW says \in Outcomes
      PROVE  /\ doing \in Doing /\ doing.n \in 1..MaxActs
             /\ [n |-> doing.n, says |-> says] \in [n : 1..MaxActs, says : Outcomes]
  <2>1. doing \in Doing
    BY <1>1, <1>6 DEF Busy
  <2> QED
    BY <2>1 DEF Doing
<1>7. "recorded" \in Outcomes /\ "nothingRecorded" \in Outcomes /\ "notCommitted" \in Outcomes
  BY DEF Outcomes
<1>8. CASE Commit
  <2>1. Busy /\ doing' \in Doing \cup {NoAct}
    BY <1>1, <1>8, Advancing DEF Commit, Due, Busy
  <2>2. told' \subseteq [n : 1..MaxActs, says : Outcomes]
    BY <1>1, <1>6, <1>7, <1>8, <2>1 DEF Commit, Tells
  <2>3. head' \in Files
    BY <1>1, <1>8, LedgerOf DEF Commit
  <2> QED
    BY <1>1, <1>5, <1>8, <2>1, <2>2, <2>3 DEF Commit, Loose, TypeOK
<1>9. CASE CommitFails
  <2>1. Busy /\ doing' \in Doing \cup {NoAct}
    BY <1>1, <1>9, Advancing DEF CommitFails, Due, Busy
  <2>2. told' \subseteq [n : 1..MaxActs, says : Outcomes]
    BY <1>1, <1>6, <1>7, <1>9, <2>1 DEF CommitFails, Tells
  <2> QED
    BY <1>1, <1>6, <1>7, <1>9, <2>1, <2>2 DEF CommitFails, TypeOK
<1>10. CASE SignatureFails
  <2>1. told' \subseteq [n : 1..MaxActs, says : Outcomes]
    BY <1>1, <1>6, <1>7, <1>10 DEF SignatureFails, Tells, Due
  <2>2. files' \in Files
    BY <1>1, <1>10, LedgerOf DEF SignatureFails, Restores
  <2> QED
    BY <1>1, <1>10, <2>1, <2>2 DEF SignatureFails, TypeOK
<1>11. CASE Killed
  BY <1>1, <1>6, <1>7, <1>11 DEF Killed, TypeOK
<1>12. CASE WriteRecord \/ WriteProjection
  <2>1. Due("record") => doing.act \in Acts
    BY UnderWay DEF Due
  <2> QED
    BY <1>3, <1>12, <2>1 DEF WriteRecord, WriteProjection
<1> QED
  BY <1>2, <1>4, <1>8, <1>9, <1>10, <1>11, <1>12 DEF WritesNext

-----------------------------------------------------------------------------
(***************************************************************************)
(* What one entry more makes of a record.                                  *)
(***************************************************************************)
LEMMA OneEntryMore ==
  ASSUME NEW r \in Seq(Entry), NEW e \in Entry
  PROVE  LET q == Append(r, e)
             K(x) == IF x THEN {Len(r) + 1} ELSE {}
         IN /\ Prefix(r, q) /\ OnRecord(q) = OnRecord(r) \cup {e.act}
            /\ \A n : /\ EntriesOf(q, n) = EntriesOf(r, n) \cup K(e.act = n)
                      /\ EntriesOf(r, n) \subseteq 1..Len(r)
                      /\ IsFiniteSet(EntriesOf(r, n))
            /\ \A k \in 1..Len(r) : q[k] = r[k]
            /\ q[Len(r) + 1] = e /\ Len(r) \in Nat
            /\ DOMAIN q = 1..Len(r) + 1 /\ DOMAIN r = 1..Len(r)
            /\ Bearing(q) = Bearing(r) \cup K(e.type \in DOMAIN Makes)
<1> DEFINE q == Append(r, e)
           K(x) == IF x THEN {Len(r) + 1} ELSE {}
<1>1. /\ Len(r) \in Nat /\ DOMAIN r = 1..Len(r) /\ DOMAIN q = 1..Len(r) + 1
      /\ q \in Seq(Entry) /\ Len(q) = Len(r) + 1
      /\ \A k \in 1..Len(r) : q[k] = r[k]
      /\ q[Len(r) + 1] = e
  BY AppendProperties, LenProperties
<1>2. Prefix(r, q)
  <2>1. SubSeq(q, 1, Len(r)) = r
    <3>1. /\ SubSeq(q, 1, Len(r)) \in Seq(Entry) /\ Len(SubSeq(q, 1, Len(r))) = Len(r)
          /\ \A k \in 1..Len(r) : SubSeq(q, 1, Len(r))[k] = r[k]
      <4> HIDE DEF q
      <4>1. \A k \in 1..Len(r) : q[k] \in Entry
        BY <1>1, ElementOfSeq
      <4> QED
        BY <1>1, <4>1, SubSeqProperties
    <3> QED
      BY <1>1, <3>1, SeqEqual
  <2> QED
    BY <1>1, <2>1 DEF Prefix
<1> HIDE DEF q
<1>3. OnRecord(q) = OnRecord(r) \cup {e.act}
  <2>1. \A k \in 1..Len(r) + 1 : k \in 1..Len(r) \/ k = Len(r) + 1
    BY <1>1
  <2>2. \A k \in 1..Len(r) : k \in 1..Len(r) + 1
    BY <1>1
  <2>3. Len(r) + 1 \in 1..Len(r) + 1
    BY <1>1
  <2> QED
    BY <1>1, <2>1, <2>2, <2>3 DEF OnRecord
<1>4. \A n : /\ EntriesOf(q, n) = EntriesOf(r, n) \cup K(e.act = n)
             /\ EntriesOf(r, n) \subseteq 1..Len(r)
  BY <1>1 DEF EntriesOf
<1>5. \A n : IsFiniteSet(EntriesOf(r, n))
  <2>1. IsFiniteSet(1..Len(r))
    BY <1>1, FS_Interval
  <2> QED
    BY <1>4, <2>1, FS_Subset
<1>6. Bearing(q) = Bearing(r) \cup K(e.type \in DOMAIN Makes)
  BY <1>1 DEF Bearing
<1> QED
  BY <1>1, <1>2, <1>3, <1>4, <1>5, <1>6 DEF q

\* The last entry that bears the sitting, with one more.
LEMMA LastBearing ==
  ASSUME NEW r \in Seq(Entry), NEW e \in Entry
  PROVE  /\ e.type \in DOMAIN Makes =>
              Bearing(Append(r, e)) # {} /\ Last(Append(r, e)) = e
         /\ e.type \notin DOMAIN Makes =>
              /\ Bearing(Append(r, e)) = Bearing(r)
              /\ Bearing(r) # {} => Last(Append(r, e)) = Last(r)
<1> DEFINE q == Append(r, e)
<1>1. /\ \A k \in 1..Len(r) : q[k] = r[k]
      /\ q[Len(r) + 1] = e /\ Len(r) \in Nat
      /\ Bearing(r) \subseteq 1..Len(r)
      /\ e.type \in DOMAIN Makes => Bearing(q) = Bearing(r) \cup {Len(r) + 1}
      /\ e.type \notin DOMAIN Makes => Bearing(q) = Bearing(r)
  BY OneEntryMore DEF Bearing
<1> HIDE DEF q
<1>2. CASE e.type \in DOMAIN Makes
  <2>1. \A j \in Bearing(q) : j <= Len(r) + 1 /\ j \in Nat
    BY <1>1, <1>2
  <2>2. Len(r) + 1 \in Bearing(q)
    BY <1>1, <1>2
  <2>3. \A k \in Bearing(q) : (\A j \in Bearing(q) : j <= k) => k = Len(r) + 1
    BY <1>1, <2>1, <2>2
  <2>4. (CHOOSE k \in Bearing(q) : \A j \in Bearing(q) : j <= k) = Len(r) + 1
    BY <2>1, <2>2, <2>3
  <2> QED
    BY <1>1, <1>2, <2>2, <2>4 DEF Last, q
<1>3. CASE e.type \notin DOMAIN Makes
  <2>1. Bearing(q) = Bearing(r)
    BY <1>1, <1>3
  <2>2. ASSUME Bearing(r) # {}
        PROVE  \E k \in Bearing(r) : \A j \in Bearing(r) : j <= k
    <3>1. Bearing(r) \in SUBSET (1..Len(r))
      BY <1>1
    <3> QED
      BY <1>1, <2>2, <3>1, Records!LatestIsLatest
  <2> QED
    BY <1>1, <1>3, <2>1, <2>2 DEF Last, q
<1> QED
  BY <1>2, <1>3

-----------------------------------------------------------------------------
(***************************************************************************)
(* Numbers, and the document in memory.                                    *)
(***************************************************************************)
LEMMA PrefixOfItself == ASSUME NEW S, NEW r \in Seq(S) PROVE Prefix(r, r)
  BY SubSeqFull, LenProperties DEF Prefix

LEMMA PrefixFurther ==
  ASSUME NEW S, NEW r \in Seq(S), NEW s \in Seq(S), NEW t \in Seq(S),
         Prefix(r, s), Prefix(s, t)
  PROVE  Prefix(r, t)
<1>1. /\ Len(r) \in Nat /\ Len(s) \in Nat /\ Len(t) \in Nat
      /\ Len(r) <= Len(s) /\ Len(s) <= Len(t)
      /\ SubSeq(s, 1, Len(r)) = r /\ SubSeq(t, 1, Len(s)) = s
  BY LenProperties DEF Prefix
<1>2. CASE Len(r) = 0
  BY <1>1, <1>2, SubSeqEmpty, EmptySeq DEF Prefix
<1>3. CASE Len(r) > 0
  <2>1. \A k \in 1..Len(r) : r[k] = s[k] /\ s[k] = t[k] /\ t[k] \in S
    <3>1. \A k \in 1..Len(s) : s[k] \in S
      BY ElementOfSeq
    <3>2. \A k \in 1..Len(t) : t[k] \in S
      BY ElementOfSeq
    <3>3. \A k \in 1..Len(r) : SubSeq(s, 1, Len(r))[k] = s[k]
      BY <1>1, <3>1, SubSeqProperties
    <3>4. \A k \in 1..Len(s) : SubSeq(t, 1, Len(s))[k] = t[k]
      BY <1>1, <3>2, SubSeqProperties
    <3> QED
      BY <1>1, <3>1, <3>3, <3>4
  <2>2. /\ SubSeq(t, 1, Len(r)) \in Seq(S) /\ Len(SubSeq(t, 1, Len(r))) = Len(r)
        /\ \A k \in 1..Len(r) : SubSeq(t, 1, Len(r))[k] = t[k]
    BY <1>1, <2>1, SubSeqProperties
  <2>3. SubSeq(t, 1, Len(r)) = r
    BY <2>1, <2>2, SeqEqual
  <2> QED
    BY <1>1, <2>3 DEF Prefix
<1> QED
  BY <1>1, <1>2, <1>3

LEMMA StepInMemory == ASSUME WritesInv, WritesNext PROVE InMemory'
<1>1. /\ files \in Files /\ files.record \in Seq(Entry) /\ head.record \in Seq(Entry)
      /\ head \in Files /\ InMemory
  BY DEF WritesInv, TypeOK, Files
<1>2. Prefix(files.record, files.record) /\ Prefix(head.record, head.record)
  BY <1>1, PrefixOfItself
<1>3. ASSUME NEW act \in Acts, NEW confirmed \in BOOLEAN, Begin(act, confirmed)
      PROVE  InMemory'
  BY <1>1, <1>3 DEF Begin, InMemory
<1>4. ASSUME NEW type \in Acts \cup {"projection", "capture"},
             Due("record") \/ Due("projection"), Writes(type)
      PROVE  InMemory'
  <2> DEFINE e == [type |-> type, act |-> doing.n]
  <2>1. /\ e \in Entry /\ files'.record = Append(files.record, e) /\ files' \in Files
        /\ doing'.doc = files'.record /\ head' = head
    BY <1>4, Writing DEF Writes
  <2> HIDE DEF e
  <2>2. Prefix(files.record, files'.record) /\ files'.record \in Seq(Entry)
    BY <1>1, <2>1, OneEntryMore DEF Files
  <2>3. Prefix(head.record, files'.record)
    BY <1>1, <2>2, PrefixFurther DEF InMemory
  <2> QED
    BY <2>1, <2>3 DEF InMemory
<1>5. CASE WriteState \/ LogAct
  BY <1>1, <1>5, OtherWrites DEF InMemory
<1>6. CASE Commit
  <2>1. head'.record = files.record
    BY <1>1, <1>6, LedgerOf DEF Commit
  <2> QED
    BY <1>1, <1>2, <1>6, <2>1, Advancing DEF Commit, Due, InMemory
<1>7. CASE CommitFails
  BY <1>1, <1>7, Advancing DEF CommitFails, Due, InMemory
<1>8. CASE SignatureFails
  <2>1. files'.record = head.record
    BY <1>1, <1>8, LedgerOf DEF SignatureFails, Restores
  <2> QED
    BY <1>2, <1>8, <2>1 DEF SignatureFails, InMemory, Busy
<1>9. CASE Killed
  BY <1>1, <1>9 DEF Killed, InMemory, Busy
<1>10. CASE WriteRecord \/ WriteProjection
  BY <1>4, <1>10, UnderWay DEF WriteRecord, WriteProjection, Due
<1> QED
  BY <1>3, <1>5, <1>6, <1>7, <1>8, <1>9, <1>10 DEF WritesNext

LEMMA StepNumbered == ASSUME WritesInv, WritesNext PROVE Numbered'
<1> DEFINE Given(f, n) == /\ \A k \in DOMAIN f.record : f.record[k].act <= n
                          /\ \A k \in DOMAIN f.ledger : f.ledger[k] <= n
<1>1. /\ begun \in Nat /\ Numbered
      /\ Given(files, begun) /\ Given(head, begun)
      /\ files \in Files /\ files.record \in Seq(Entry) /\ files.ledger \in Seq(1..MaxActs)
      /\ head \in Files /\ head.record \in Seq(Entry) /\ head.ledger \in Seq(1..MaxActs)
      /\ told \subseteq [n : 1..MaxActs, says : Outcomes]
      /\ owed \subseteq Nat /\ cut \subseteq Nat /\ unsigned \subseteq Nat
      /\ MaxActs \in Nat
  BY WritesAssumption DEF WritesInv, TypeOK, Numbered, Files
<1>2. Busy => doing.n = begun
  BY UnderWay
\* While an act is under way, nothing begins.
<1>3. ASSUME NEW act \in Acts, NEW confirmed \in BOOLEAN, Begin(act, confirmed)
      PROVE  Numbered'
  <2>1. /\ begun' = begun + 1 /\ doing'.n = begun' /\ doing'.at = 1 /\ doing'.act = act
        /\ owed' \subseteq owed \cup {begun'} /\ ~Busy
        /\ UNCHANGED <<files, head, told, cut, unsigned>>
    BY <1>3 DEF Begin
  <2>2. 1 <= Len(Script[act])
    BY Scripts, ActsAre
  <2>3. /\ \A f \in {files, head} : /\ \A k \in DOMAIN f.record : f.record[k].act \in Nat
                                    /\ \A k \in DOMAIN f.ledger : f.ledger[k] \in Nat
        /\ \A t \in told : t.n \in Nat
    <3>1. \A r \in Seq(Entry) : \A k \in DOMAIN r : r[k].act \in Nat
      <4>1. ASSUME NEW r \in Seq(Entry), NEW k \in DOMAIN r
            PROVE  r[k] \in Entry
        BY ElementOfSeq, LenProperties
      <4>2. \A e \in Entry : e.act \in Nat
        BY <1>1 DEF Entry
      <4> QED
        BY <4>1, <4>2
    <3>2. \A l \in Seq(1..MaxActs) : \A k \in DOMAIN l : l[k] \in Nat
      <4>1. ASSUME NEW l \in Seq(1..MaxActs), NEW k \in DOMAIN l
            PROVE  l[k] \in 1..MaxActs
        BY ElementOfSeq, LenProperties
      <4> QED
        BY <1>1, <4>1
    <3> QED
      BY <1>1, <3>1, <3>2
  <2>4. Given(files, begun + 1) /\ Given(head, begun + 1)
    BY <1>1, <2>3
  <2>5. \A t \in told : t.n <= begun + 1 /\ t.n # begun + 1
    BY <1>1, <2>3 DEF Numbered
  <2>6. \A n \in owed' \cup cut \cup unsigned : n <= begun + 1
    BY <1>1, <2>1 DEF Numbered
  <2> QED
    BY <2>1, <2>2, <2>4, <2>5, <2>6 DEF Numbered
<1>4. ASSUME NEW type \in Acts \cup {"projection", "capture"},
             Due("record") \/ Due("projection"), Writes(type)
      PROVE  Numbered'
  <2> DEFINE e == [type |-> type, act |-> doing.n]
  <2>1. /\ e \in Entry /\ files'.record = Append(files.record, e)
        /\ files'.ledger = files.ledger /\ e.act = begun /\ Busy
        /\ doing'.n = doing.n /\ doing'.at <= Len(Script[doing'.act])
        /\ UNCHANGED <<head, begun, owed, told, cut, unsigned>>
    BY <1>2, <1>4, Writing DEF Writes, Due
  <2> HIDE DEF e
  <2>2. \A k \in DOMAIN files'.record : \/ k \in DOMAIN files.record
                                           /\ files'.record[k] = files.record[k]
                                        \/ files'.record[k] = e
    BY <1>1, <2>1, OneEntryMore
  <2>3. Given(files', begun)
    BY <1>1, <2>1, <2>2
  <2> QED
    BY <1>1, <1>2, <2>1, <2>3 DEF Numbered
<1>5. CASE WriteState \/ LogAct
  <2>1. /\ Busy /\ files'.record = files.record
        /\ UNCHANGED <<head, begun, owed, told, cut, unsigned>>
        /\ doing'.n = doing.n /\ doing'.at <= Len(Script[doing'.act])
    BY <1>5, OtherWrites
  <2>2. CASE WriteState
    <3>1. files'.ledger = files.ledger
      BY <1>1, <2>2 DEF WriteState, Files
    <3> QED
      BY <1>1, <1>2, <2>1, <3>1 DEF Numbered
  <2>3. CASE LogAct
    <3>1. /\ files'.ledger \in {files.ledger, Append(files.ledger, begun)}
          /\ begun \in 1..MaxActs
      BY <1>1, <1>2, <2>1, <2>3, UnderWay, RowWritten DEF Doing
    <3>2. \A k \in DOMAIN files'.ledger : files'.ledger[k] <= begun
      <4>1. CASE files'.ledger = files.ledger
        BY <1>1, <4>1
      <4>2. CASE files'.ledger = Append(files.ledger, begun)
        BY <1>1, <3>1, <4>2, AppendProperties, LenProperties
      <4> QED
        BY <3>1, <4>1, <4>2
    <3> QED
      BY <1>1, <1>2, <2>1, <3>2 DEF Numbered
  <2> QED
    BY <1>5, <2>2, <2>3
<1>6. CASE Commit \/ CommitFails
  <2>1. /\ Busy /\ Advances /\ head' \in {WithLedgerOf(files, head), head}
        /\ UNCHANGED <<files, begun, owed>>
        /\ told' = told \/ (Done /\ \A t \in told' : t \in told \/ t.n = doing.n)
        /\ cut' \subseteq cut \cup {doing.n}
        /\ unsigned' \subseteq unsigned \cup OnRecord(files.record)
    BY <1>6 DEF Commit, CommitFails, Due, Tells, Loose
  <2>2. \/ Done /\ ~Busy'
        \/ told' = told /\ doing'.n = doing.n /\ doing'.at <= Len(Script[doing'.act])
    <3>1. Done \/ told' = told
      BY <1>6 DEF Commit, CommitFails
    <3> QED
      BY <2>1, <3>1, Advancing
  <2>3. Given(files, begun) /\ Given(head', begun)
    <3>1. head' = head \/ (head'.record = files.record /\ head'.ledger \in {files.ledger, head.ledger})
      <4>1. /\ WithLedgerOf(files, head).record = files.record
            /\ WithLedgerOf(files, head).ledger \in {files.ledger, head.ledger}
        BY <1>1, LedgerOf
      <4> HIDE DEF Given
      <4> QED
        BY <2>1, <4>1, Zenon
    <3>2. CASE head' = head
      BY <1>1, <3>2
    <3>3. CASE head'.record = files.record /\ head'.ledger = files.ledger
      BY <1>1, <3>3
    <3>4. CASE head'.record = files.record /\ head'.ledger = head.ledger
      BY <1>1, <3>4
    <3> QED
      BY <3>1, <3>2, <3>3, <3>4
  <2>4. /\ \A t \in told' : t.n <= begun
        /\ \A n \in owed \cup cut' \cup unsigned' : n <= begun
    <3>1. \A n \in OnRecord(files.record) : n <= begun
      BY <1>1 DEF OnRecord
    <3>2. begun <= begun
      BY <1>1
    <3> QED
      BY <1>1, <1>2, <2>1, <3>1, <3>2 DEF Numbered
  <2> QED
    BY <1>1, <1>2, <2>1, <2>2, <2>3, <2>4 DEF Numbered
<1>7. CASE SignatureFails \/ Killed
  <2>1. /\ Busy /\ ~Busy' /\ files' \in {files, WithLedgerOf(head, files)}
        /\ UNCHANGED <<head, begun, owed, unsigned>>
        /\ \A t \in told' : t \in told \/ t.n = doing.n
        /\ cut' \subseteq cut \cup {doing.n}
    BY <1>7 DEF SignatureFails, Killed, Restores, Due, Tells, Busy
  <2>2. Given(files', begun)
    BY <1>1, <2>1, LedgerOf
  <2> QED
    BY <1>1, <1>2, <2>1, <2>2 DEF Numbered
<1>8. CASE WriteRecord \/ WriteProjection
  BY <1>4, <1>8, UnderWay DEF WriteRecord, WriteProjection, Due
<1> QED
  BY <1>3, <1>5, <1>6, <1>7, <1>8 DEF WritesNext

-----------------------------------------------------------------------------
(***************************************************************************)
(* What the act under way has written.                                     *)
(***************************************************************************)
LEMMA RecordWrites ==
  ASSUME WritesInv, WriteRecord \/ WriteProjection
  PROVE  \E type \in Acts \cup {"projection", "capture"} :
           /\ Writes(type)
           /\ \/ Due("record") /\ type = TypeAt(doing.act, doing.at)
              \/ Due("projection") /\ type = "projection"
<1>1. Busy /\ doing.act \in Acts
  BY UnderWay DEF WriteRecord, WriteProjection, Due
<1> QED
  BY <1>1 DEF WriteRecord, WriteProjection, Again, TypeAt

LEMMA OneWriteMore ==
  ASSUME NEW act \in Acts, NEW at \in 1..Len(Script[act]), NEW ops
  PROVE  /\ Before(act, at + 1, ops) =
              Before(act, at, ops) \cup (IF Script[act][at] \in ops THEN {at} ELSE {})
         /\ at \notin Before(act, at, ops)
         /\ IsFiniteSet(Before(act, at, ops))
<1>1. at \in Nat \ {0}
  BY ScriptEnds
<1>2. (at + 1) - 1 = at
  BY <1>1
<1>3. \A k : k \in 1..at <=> k \in 1..(at - 1) \/ k = at
  BY <1>1
<1>4. IsFiniteSet(1..(at - 1)) /\ at \notin 1..(at - 1)
  BY <1>1, FS_Interval
<1>5. IsFiniteSet(Before(act, at, ops))
  BY <1>4, FS_Subset DEF Before
<1> QED
  BY <1>2, <1>3, <1>4, <1>5 DEF Before

\* The act that begins has nothing anywhere.
LEMMA NothingYet ==
  ASSUME WritesInv, NEW f \in {files, head}
  PROVE  EntriesOf(f.record, begun + 1) = {} /\ ~Logged(f, begun + 1)
<1>1. begun \in Nat /\ Numbered
  BY DEF WritesInv, TypeOK
<1>2. ~(begun + 1 <= begun)
  BY <1>1
<1> QED
  BY <1>1, <1>2 DEF Numbered, EntriesOf, Logged

LEMMA StepProgress == ASSUME WritesInv, WritesNext PROVE Progress'
<1>1. Progress /\ files \in Files /\ begun \in Nat /\ ledgerAt' = ledgerAt
  BY LedgerStays DEF WritesInv, TypeOK
<1>2. Busy => /\ doing.act \in Acts /\ doing.at \in 1..Len(Script[doing.act])
              /\ doing.n = begun
  BY UnderWay
<1>3. ASSUME ~Busy' PROVE Progress'
  BY <1>3 DEF Progress
<1>4. ASSUME NEW act \in Acts, NEW confirmed \in BOOLEAN, Begin(act, confirmed)
      PROVE  Progress'
  <2>1. doing'.act = act /\ doing'.n = begun + 1 /\ doing'.at = 1 /\ files' = files
    BY <1>4 DEF Begin
  <2>2. \A ops : Before(act, 1, ops) = {}
    BY DEF Before
  <2>3. EntriesOf(files.record, begun + 1) = {}
    BY NothingYet
  <2> QED
    BY <2>1, <2>2, <2>3 DEF Progress, Did
\* An entry more, and a write of an entry more.
<1>5. ASSUME NEW type \in Acts \cup {"projection", "capture"}, Writes(type),
             \/ Due("record") /\ type = TypeAt(doing.act, doing.at)
             \/ Due("projection") /\ type = "projection"
      PROVE  Progress'
  <2> DEFINE e == [type |-> type, act |-> doing.n]
  <2>1. /\ e \in Entry /\ files.record \in Seq(Entry)
        /\ files'.record = Append(files.record, e)
        /\ files'.ledger = files.ledger /\ e.act = doing.n /\ e.type = type /\ Busy
        /\ doing'.n = doing.n /\ doing'.act = doing.act /\ doing'.at = doing.at + 1
    BY <1>5, Writing DEF Due
  <2> HIDE DEF e
  <2>2. /\ EntriesOf(files'.record, doing.n) =
             EntriesOf(files.record, doing.n) \cup {Len(files.record) + 1}
        /\ Len(files.record) + 1 \notin EntriesOf(files.record, doing.n)
        /\ IsFiniteSet(EntriesOf(files.record, doing.n))
        /\ \A k \in EntriesOf(files.record, doing.n) : files'.record[k] = files.record[k]
        /\ files'.record[Len(files.record) + 1] = e
    BY <2>1, OneEntryMore
  <2>3. \A ops : /\ Did(ops)' = Did(ops) \cup (IF Script[doing.act][doing.at] \in ops
                                               THEN {doing.at} ELSE {})
                 /\ doing.at \notin Did(ops)
                 /\ IsFiniteSet(Did(ops))
    BY <1>2, <2>1, OneWriteMore DEF Did
  <2>4. Script[doing.act][doing.at] \in {"record", "projection"}
    BY <1>5 DEF Due
  <2>5. /\ Did(Entered)' = Did(Entered) \cup {doing.at}
        /\ Did({"ledger"})' = Did({"ledger"})
    BY <2>3, <2>4 DEF Entered
  <2>6. Cardinality(EntriesOf(files'.record, doing.n)) = Cardinality(Did(Entered)')
    <3>1. /\ Cardinality(EntriesOf(files'.record, doing.n)) =
               Cardinality(EntriesOf(files.record, doing.n)) + 1
          /\ Cardinality(Did(Entered)') = Cardinality(Did(Entered)) + 1
      BY <2>2, <2>3, <2>5, FS_AddElement
    <3> QED
      BY <1>1, <2>1, <3>1 DEF Progress
  <2>7. Did({"record"})' # {} =>
          \E k \in EntriesOf(files'.record, doing.n) : files'.record[k].type = doing.act
    <3>1. CASE Did({"record"}) # {}
      BY <1>1, <2>1, <2>2, <3>1 DEF Progress
    <3>2. CASE Did({"record"}) = {} /\ Due("record")
      <4>1. type = doing.act
        BY <1>2, <1>5, <2>1, <3>2, ScriptBears DEF Did, Due
      <4> QED
        BY <2>1, <2>2, <4>1
    <3>3. CASE Did({"record"}) = {} /\ ~Due("record")
      BY <2>1, <2>3, <3>3 DEF Due
    <3> QED
      BY <3>1, <3>2, <3>3
  <2>8. Did({"ledger"})' # {} /\ ledgerAt # "disabled" => Logged(files', doing.n)
    BY <1>1, <2>1, <2>5 DEF Progress, Logged
  <2> QED
    BY <1>1, <2>1, <2>6, <2>7, <2>8 DEF Progress
<1>6. ASSUME Busy, doing'.act = doing.act, doing'.at = doing.at + 1, doing'.n = doing.n,
             files'.record = files.record, Script[doing.act][doing.at] \notin Entered,
             \/ Script[doing.act][doing.at] # "ledger" /\ files'.ledger = files.ledger
             \/ /\ Script[doing.act][doing.at] = "ledger"
                /\ ledgerAt # "disabled" => Logged(files', doing.n)
      PROVE  Progress'
  <2>1. \A ops : Did(ops)' = Did(ops) \cup (IF Script[doing.act][doing.at] \in ops
                                            THEN {doing.at} ELSE {})
    BY <1>2, <1>6, OneWriteMore DEF Did
  <2>2. Did(Entered)' = Did(Entered) /\ Did({"record"})' = Did({"record"})
    BY <1>6, <2>1 DEF Entered
  <2>3. Did({"ledger"})' # {} /\ ledgerAt # "disabled" => Logged(files', doing.n)
    BY <1>1, <1>6, <2>1 DEF Progress, Logged
  <2> QED
    BY <1>1, <1>6, <2>2, <2>3 DEF Progress
<1>7. CASE WriteState
  <2>1. files'.ledger = files.ledger
    BY <1>1, <1>7 DEF WriteState, Files
  <2> QED
    BY <1>6, <1>7, <2>1, OtherWrites DEF WriteState, Due, Entered
<1>8. CASE LogAct
  <2>1. files.ledger \in Seq(1..MaxActs) /\ doing.n \in 1..MaxActs
    BY <1>1, <1>8, UnderWay DEF LogAct, Due, Files, Doing
  <2>2. ledgerAt # "disabled" => files'.ledger = Append(files.ledger, doing.n)
    BY <1>8, RowWritten
  <2>3. ledgerAt # "disabled" => Logged(files', doing.n)
    BY <2>1, <2>2, AppendProperties, LenProperties DEF Logged
  <2> QED
    BY <1>6, <1>8, <2>3, OtherWrites DEF LogAct, Due, Entered
<1>9. CASE Commit \/ CommitFails
  <2>1. Busy /\ Advances /\ Due("commit") /\ files' = files
    BY <1>9 DEF Commit, CommitFails, Due
  <2> QED
    BY <1>3, <1>6, <2>1, Advancing DEF Due, Entered
<1>10. CASE SignatureFails \/ Killed
  BY <1>3, <1>10 DEF SignatureFails, Killed, Busy
<1> QED
  BY <1>4, <1>5, <1>7, <1>8, <1>9, <1>10, RecordWrites DEF WritesNext

LEMMA StepConfirmedAtEnd == ASSUME WritesInv, WritesNext PROVE ConfirmedAtEnd'
<1>1. ConfirmedAtEnd /\ begun \in Nat
  BY DEF WritesInv, TypeOK
<1>2. ASSUME NEW act \in Acts, NEW confirmed \in BOOLEAN, Begin(act, confirmed)
      PROVE  ConfirmedAtEnd'
  <2>1. /\ doing'.act = act /\ doing'.n = begun + 1 /\ doing'.confirmed = confirmed
        /\ head' = head
        /\ confirmed => act \in Constitutional
        /\ owed' = IF confirmed THEN owed \cup {begun + 1} ELSE owed
    BY <1>2 DEF Begin
  <2>2. EntriesOf(head.record, begun + 1) = {} /\ ~Logged(head, begun + 1)
    BY NothingYet
  <2>3. begun + 1 \notin owed
    <3>1. ~(begun + 1 <= begun)
      BY <1>1
    <3> QED
      BY <3>1 DEF WritesInv, Numbered
  <2>4. CASE confirmed
    BY <2>1, <2>2, <2>4 DEF ConfirmedAtEnd
  <2>5. CASE ~confirmed
    BY <2>1, <2>3, <2>5 DEF ConfirmedAtEnd
  <2> QED
    BY <2>4, <2>5
<1>3. ASSUME Busy, doing'.act = doing.act, doing'.n = doing.n,
             doing'.confirmed = doing.confirmed, head' = head, owed' = owed
      PROVE  ConfirmedAtEnd'
  BY <1>1, <1>3 DEF ConfirmedAtEnd
<1>4. CASE WriteRecord \/ WriteProjection
  <2>1. PICK type \in Acts \cup {"projection", "capture"} :
          Writes(type) /\ (Due("record") \/ Due("projection"))
    BY <1>4, RecordWrites
  <2> QED
    BY <1>3, <2>1, Writing DEF Writes, Due
<1>5. CASE WriteState \/ LogAct
  BY <1>3, <1>5, OtherWrites
\* A commit that is not the last is of an act that was not confirmed.
<1>6. CASE Commit
  <2>1. Busy /\ Due("commit") /\ Advances /\ owed' = owed
    BY <1>6 DEF Commit, Due
  <2>2. CASE ~Busy'
    BY <2>2 DEF ConfirmedAtEnd
  <2>3. CASE Busy'
    <3>1. /\ ~Done /\ doing'.n = doing.n /\ doing'.confirmed = doing.confirmed
          /\ doing'.act = doing.act
      BY <2>1, <2>3, Advancing
    <3>2. doing.act \notin Constitutional
      BY <2>1, <3>1, UnderWay, ScriptEnds DEF Due, Done
    <3> QED
      BY <1>1, <2>1, <3>1, <3>2 DEF ConfirmedAtEnd
  <2> QED
    BY <2>2, <2>3
<1>7. CASE CommitFails
  <2>1. Busy /\ Due("commit") /\ Advances /\ owed' = owed /\ head' = head
    BY <1>7 DEF CommitFails, Due
  <2> QED
    BY <1>3, <2>1, Advancing DEF ConfirmedAtEnd
<1>8. CASE SignatureFails \/ Killed
  BY <1>8 DEF SignatureFails, Killed, Busy, ConfirmedAtEnd
<1> QED
  BY <1>2, <1>4, <1>5, <1>6, <1>7, <1>8 DEF WritesNext

\* What is left out of a commit is cut short or under way.
LEMMA StepLooseIsCut == ASSUME WritesInv, WritesNext PROVE LooseIsCut'
<1>1. LooseIsCut /\ files \in Files /\ head \in Files
  BY DEF WritesInv, TypeOK
<1>2. ASSUME NEW act \in Acts, NEW confirmed \in BOOLEAN, Begin(act, confirmed)
      PROVE  LooseIsCut'
  BY <1>1, <1>2 DEF Begin, LooseIsCut, Loose
<1>3. CASE WriteRecord \/ WriteProjection
  <2>1. PICK type \in Acts \cup {"projection", "capture"} :
          Writes(type) /\ (Due("record") \/ Due("projection"))
    BY <1>3, RecordWrites
  <2> DEFINE e == [type |-> type, act |-> doing.n]
  <2>2. /\ e \in Entry /\ files.record \in Seq(Entry)
        /\ files'.record = Append(files.record, e) /\ e.act = doing.n
        /\ Busy /\ Busy' /\ doing'.n = doing.n /\ head' = head /\ cut' = cut
    BY <2>1, Writing DEF Writes, Due
  <2> HIDE DEF e
  <2>3. OnRecord(files'.record) = OnRecord(files.record) \cup {doing.n}
    BY <2>2, OneEntryMore
  <2> QED
    BY <1>1, <2>2, <2>3 DEF LooseIsCut, Loose
<1>4. CASE WriteState \/ LogAct
  BY <1>1, <1>4, OtherWrites DEF LooseIsCut, Loose
<1>5. CASE Commit
  <2>1. head'.record = files.record /\ files' = files
    BY <1>1, <1>5, LedgerOf DEF Commit
  <2> QED
    BY <2>1 DEF LooseIsCut, Loose
<1>6. CASE CommitFails
  <2>1. Busy /\ head' = head /\ files' = files /\ cut' = cut \cup {doing.n}
    BY <1>6 DEF CommitFails, Due
  <2> QED
    BY <1>1, <2>1 DEF LooseIsCut, Loose
<1>7. CASE SignatureFails
  <2>1. files'.record = head.record /\ head' = head
    BY <1>1, <1>7, LedgerOf DEF SignatureFails, Restores
  <2> QED
    BY <2>1 DEF LooseIsCut, Loose
<1>8. CASE Killed
  BY <1>1, <1>8 DEF Killed, LooseIsCut, Loose
<1> QED
  BY <1>2, <1>3, <1>4, <1>5, <1>6, <1>7, <1>8 DEF WritesNext

-----------------------------------------------------------------------------
(***************************************************************************)
(* Reports.                                                                *)
(***************************************************************************)
\* An act whose last commit is due is whole in the files.
LEMMA WholeWhenDone ==
  ASSUME WritesInv, Due("commit"), Done
  PROVE  doing.act \in Acts /\ WholeAs(doing.act, files, doing.n, ledgerAt # "disabled")
<1>1. /\ Busy /\ doing.act \in Acts /\ doing.at \in 1..Len(Script[doing.act])
      /\ doing.at = Len(Script[doing.act]) /\ Script[doing.act][doing.at] = "commit"
      /\ Progress
  BY UnderWay DEF Due, Done, WritesInv
<1>2. DOMAIN Script[doing.act] = 1..doing.at /\ doing.at \in Nat \ {0}
  BY <1>1, ScriptEnds
<1>3. \A ops : "commit" \notin ops =>
        {k \in DOMAIN Script[doing.act] : Script[doing.act][k] \in ops} = Did(ops)
  <2>1. \A k : k \in 1..doing.at <=> k \in 1..(doing.at - 1) \/ k = doing.at
    BY <1>2
  <2> QED
    BY <1>1, <1>2, <2>1 DEF Did, Before
<1>4. \A ops : "commit" \notin ops => Times(doing.act, ops) = Cardinality(Did(ops))
  BY <1>3 DEF Times
<1>5. Did({"record"}) # {}
  BY <1>1, ScriptEnds DEF Did
<1>6. Cardinality(EntriesOf(files.record, doing.n)) = Times(doing.act, {"record", "projection"})
  BY <1>1, <1>4 DEF Progress, Entered
<1>7. Times(doing.act, {"ledger"}) = 1 /\ ledgerAt # "disabled" => Logged(files, doing.n)
  <2>1. Times(doing.act, {"ledger"}) = Cardinality(Did({"ledger"}))
    BY <1>4
  <2>2. Cardinality({}) = 0
    BY FS_EmptySet
  <2>3. Times(doing.act, {"ledger"}) = 1 => Did({"ledger"}) # {}
    BY <2>1, <2>2
  <2> QED
    BY <1>1, <2>3 DEF Progress
<1> QED
  BY <1>1, <1>5, <1>6, <1>7 DEF Progress, WholeAs

\* Files that have the same of an act.
Same(f, g, n) ==
  /\ EntriesOf(f.record, n) = EntriesOf(g.record, n)
  /\ \A k \in EntriesOf(g.record, n) : f.record[k].type = g.record[k].type
  /\ Logged(f, n) <=> Logged(g, n)

LEMMA StepReported == ASSUME WritesInv, WritesNext PROVE Reported'
<1>1. /\ Reported /\ files \in Files /\ files.record \in Seq(Entry)
      /\ files.ledger \in Seq(1..MaxActs) /\ head \in Files
      /\ \A t \in told : Busy => t.n # doing.n
      /\ ledgerAt' = ledgerAt
  BY UnderWay, LedgerStays DEF WritesInv, TypeOK, Files, Numbered
\* What was reported is where it was,
<1>2. ASSUME told' = told, head' = head, \A t \in told : Same(files', files, t.n)
      PROVE  Reported'
  <2>1. ASSUME NEW t \in told, NEW act \in Acts
        PROVE  WholeAs(act, files, t.n, ledgerAt # "disabled")
                 => WholeAs(act, files', t.n, ledgerAt # "disabled")
    BY <1>2 DEF Same, WholeAs
  <2> QED
    BY <1>1, <1>2, <2>1 DEF Reported, Same
<1>3. ASSUME UNCHANGED <<files, head, told>>
      PROVE  Reported'
  BY <1>1, <1>3 DEF Reported
<1>4. CASE WriteRecord \/ WriteProjection
  <2>1. PICK type \in Acts \cup {"projection", "capture"} :
          Writes(type) /\ (Due("record") \/ Due("projection"))
    BY <1>4, RecordWrites
  <2> DEFINE e == [type |-> type, act |-> doing.n]
  <2>2. /\ e \in Entry /\ files'.record = Append(files.record, e) /\ e.act = doing.n
        /\ files'.ledger = files.ledger /\ Busy /\ head' = head /\ told' = told
    BY <2>1, Writing DEF Writes, Due
  <2> HIDE DEF e
  <2>3. ASSUME NEW t \in told
        PROVE  Same(files', files, t.n)
    <3>1. e.act # t.n
      BY <1>1, <2>2
    <3>2. /\ EntriesOf(files'.record, t.n) = EntriesOf(files.record, t.n)
          /\ \A k \in EntriesOf(files.record, t.n) : files'.record[k] = files.record[k]
      <4>1. EntriesOf(files'.record, t.n) =
              EntriesOf(files.record, t.n) \cup IF e.act = t.n THEN {Len(files.record) + 1} ELSE {}
        BY <1>1, <2>2, OneEntryMore
      <4>2. /\ EntriesOf(files.record, t.n) \subseteq 1..Len(files.record)
            /\ \A k \in 1..Len(files.record) : files'.record[k] = files.record[k]
        BY <1>1, <2>2, OneEntryMore
      <4> QED
        BY <3>1, <4>1, <4>2
    <3> QED
      BY <2>2, <3>2 DEF Same, Logged
  <2> QED
    BY <1>2, <2>2, <2>3
<1>5. CASE WriteState \/ LogAct
  <2>1. /\ files'.record = files.record /\ Busy /\ head' = head /\ told' = told
    BY <1>5, OtherWrites
  <2>2. ASSUME NEW t \in told
        PROVE  Logged(files', t.n) <=> Logged(files, t.n)
    <3>1. CASE WriteState
      BY <1>1, <3>1 DEF WriteState, Files, Logged
    <3>2. CASE LogAct
      <4> SUFFICES ASSUME ledgerAt # "disabled" PROVE Logged(files', t.n) <=> Logged(files, t.n)
        BY <3>2, RowWritten DEF Logged
      <4>1. /\ files'.ledger = Append(files.ledger, doing.n) /\ doing.n # t.n
            /\ doing.n \in 1..MaxActs
        BY <1>1, <2>1, <3>2, UnderWay, RowWritten DEF Doing
      <4>2. /\ DOMAIN files.ledger = 1..Len(files.ledger) /\ Len(files.ledger) \in Nat
            /\ DOMAIN files'.ledger = 1..Len(files.ledger) + 1
            /\ \A k \in 1..Len(files.ledger) : files'.ledger[k] = files.ledger[k]
            /\ files'.ledger[Len(files.ledger) + 1] = doing.n
        BY <1>1, <4>1, AppendProperties, LenProperties
      <4> QED
        BY <4>1, <4>2 DEF Logged
    <3> QED
      BY <1>5, <3>1, <3>2
  <2>3. \A t \in told : Same(files', files, t.n)
    BY <2>1, <2>2 DEF Same
  <2> QED
    BY <1>2, <2>1, <2>3
\* and what is reported now is so.
<1>6. CASE Commit
  <2>1. /\ head'.record = files.record /\ files' = files /\ Due("commit")
        /\ head'.ledger = IF ledgerAt = "default" THEN files.ledger ELSE head.ledger
        /\ \/ told' = told
           \/ Done /\ told' = told \cup {[n |-> doing.n, says |-> "recorded"]}
    BY <1>1, <1>6, LedgerOf DEF Commit, Tells
  <2>2. Done => doing.act \in Acts /\ WholeAs(doing.act, files, doing.n, ledgerAt # "disabled")
    BY <2>1, WholeWhenDone
  <2>3. \A t \in told' : \/ t \in told
                         \/ Done /\ t.n = doing.n /\ t.says = "recorded"
    <3>1. CASE told' = told
      BY <3>1
    <3>2. CASE Done /\ told' = told \cup {[n |-> doing.n, says |-> "recorded"]}
      BY <3>2
    <3> QED
      BY <2>1, <3>1, <3>2
  <2>4. \A t \in told' : t.says = "recorded" =>
         \E act \in Acts : /\ WholeAs(act, files, t.n, ledgerAt # "disabled")
                           /\ WholeAs(act, head', t.n, ledgerAt = "default")
    <3>1. \A t \in told : t.says = "recorded" =>
            \E act \in Acts : WholeAs(act, files, t.n, ledgerAt # "disabled")
      BY <1>1 DEF Reported
    <3>2. \A n, act : WholeAs(act, files, n, ledgerAt # "disabled")
                        => WholeAs(act, head', n, ledgerAt = "default")
      BY <2>1 DEF WholeAs, Logged
    <3> QED
      BY <2>2, <2>3, <3>1, <3>2
  <2>5. \A t \in told' : t.says = "nothingRecorded" =>
          /\ EntriesOf(files.record, t.n) = {} /\ EntriesOf(head'.record, t.n) = {}
          /\ ~Logged(head', t.n) /\ (ledgerAt = "default" => ~Logged(files, t.n))
    <3>1. \A t \in told' : t.says = "nothingRecorded" => t \in told
      BY <2>3
    <3>2. \A n : /\ ledgerAt = "default" => (Logged(head', n) <=> Logged(files, n))
                 /\ ledgerAt # "default" => (Logged(head', n) <=> Logged(head, n))
      BY <2>1 DEF Logged
    <3> QED
      BY <1>1, <2>1, <3>1, <3>2 DEF Reported
  <2> QED
    BY <1>1, <2>1, <2>4, <2>5 DEF Reported
<1>7. CASE CommitFails
  <2>1. /\ head' = head /\ files' = files
        /\ told' = told \/ told' = told \cup {[n |-> doing.n, says |-> "notCommitted"]}
    BY <1>7 DEF CommitFails, Tells
  <2>2. \A t \in told' : t \in told \/ t.says = "notCommitted"
    BY <2>1
  <2> QED
    BY <1>1, <2>1, <2>2 DEF Reported
<1>8. CASE SignatureFails
  <2>1. /\ head' = head /\ files'.record = head.record /\ Busy /\ doing.confirmed
        /\ files'.ledger = IF ledgerAt = "default" THEN head.ledger ELSE files.ledger
        /\ told' = told \cup {[n |-> doing.n, says |-> "nothingRecorded"]}
    BY <1>1, <1>8, LedgerOf DEF SignatureFails, Restores, Tells, Due
  <2>2. EntriesOf(head.record, doing.n) = {} /\ ~Logged(head, doing.n)
    BY <2>1 DEF WritesInv, ConfirmedAtEnd
  <2>3. \A n : /\ ledgerAt = "default" => (Logged(files', n) <=> Logged(head, n))
               /\ ledgerAt # "default" => (Logged(files', n) <=> Logged(files, n))
    BY <2>1 DEF Logged
\* A row that was committed is in HEAD's ledger, one at another place stays.
  <2>4. ASSUME NEW act, NEW n, WholeAs(act, files, n, ledgerAt # "disabled"),
               WholeAs(act, head, n, ledgerAt = "default")
        PROVE  WholeAs(act, files', n, ledgerAt # "disabled")
    BY <2>1, <2>3, <2>4 DEF WholeAs
  <2>5. \A t \in told : t.says = "recorded" =>
          \E act \in Acts : /\ WholeAs(act, files', t.n, ledgerAt # "disabled")
                            /\ WholeAs(act, head, t.n, ledgerAt = "default")
    BY <1>1, <2>4 DEF Reported
  <2>6. \A t \in told : t.says = "nothingRecorded" =>
          /\ EntriesOf(files'.record, t.n) = {} /\ EntriesOf(head.record, t.n) = {}
          /\ ~Logged(head, t.n) /\ (ledgerAt = "default" => ~Logged(files', t.n))
    BY <1>1, <2>1, <2>3 DEF Reported
  <2>7. \A t \in told' : t \in told \/ (t.n = doing.n /\ t.says = "nothingRecorded")
    BY <2>1
  <2>8. /\ EntriesOf(files'.record, doing.n) = {}
        /\ ledgerAt = "default" => ~Logged(files', doing.n)
    BY <2>1, <2>2, <2>3
  <2> QED
    BY <1>1, <2>1, <2>2, <2>5, <2>6, <2>7, <2>8 DEF Reported
<1>9. CASE Killed
  BY <1>3, <1>9 DEF Killed
<1>10. ASSUME NEW act \in Acts, NEW confirmed \in BOOLEAN, Begin(act, confirmed)
       PROVE  Reported'
  BY <1>3, <1>10 DEF Begin
<1> QED
  BY <1>4, <1>5, <1>6, <1>7, <1>8, <1>9, <1>10 DEF WritesNext

-----------------------------------------------------------------------------
(***************************************************************************)
(* The state and the record.                                               *)
(***************************************************************************)
\* What explains a disagreement goes on doing so, in the same files.
LEMMA StillExplained ==
  ASSUME NEW f, NEW g, f.record = g.record, f.state = g.state,
         NEW cuts, NEW more, cuts \subseteq more, Explained(f, cuts)
  PROVE  Explained(g, more)
  BY DEF Explained, Agrees

\* Whatever the act under way has written, its death would explain; and when it
\* commits nothing needs to be.
LEMMA ExplainedAnyway ==
  ASSUME WritesInv, Busy
  PROVE  /\ Explained(files, cut \cup {doing.n})
         /\ Due("commit") => Explained(files, cut)
<1>1. /\ doing.act \in Acts /\ doing.at \in 1..Len(Script[doing.act])
      /\ Disagreement
  BY UnderWay DEF WritesInv
<1>2. CASE StateWritten /\ BearingWritten
  <2>1. Agrees(files)
    BY <1>1, <1>2 DEF Disagreement, Agrees
  <2> QED
    BY <2>1 DEF Explained
<1>3. CASE ~StateWritten /\ ~BearingWritten
  <2>1. Explained(files, cut)
    BY <1>1, <1>3 DEF Disagreement
  <2>2. Explained(files, cut \cup {doing.n})
    BY <2>1 DEF Explained
  <2> QED
    BY <2>1, <2>2
<1>4. CASE StateWritten <=> ~BearingWritten
  <2>1. ~Due("commit")
    BY <1>1, <1>4, ScriptBears DEF Due, StateWritten, BearingWritten, Did
  <2>2. CASE BearingWritten
    BY <1>1, <2>1, <2>2 DEF Disagreement, Explained
  <2>3. CASE ~BearingWritten
    BY <1>1, <1>4, <2>1, <2>3 DEF Disagreement, Explained
  <2> QED
    BY <2>2, <2>3
<1> QED
  BY <1>2, <1>3, <1>4

\* The entry of a type that bears the sitting makes it what the act makes it.
LEMMA EntryMakes ==
  ASSUME NEW act \in Acts, NEW k, TypeAt(act, k) \in DOMAIN Makes
  PROVE  Makes[TypeAt(act, k)] = MadeBy(act)
  BY ActsAre, MakesIs DEF TypeAt

\* The act under way has written one thing more.
LEMMA OneThingMore ==
  ASSUME WritesInv, Busy, doing'.act = doing.act, doing'.at = doing.at + 1
  PROVE  /\ StateWritten' <=> (StateWritten \/ Due("state"))
         /\ BearingWritten' <=> \/ BearingWritten
                                \/ Due("record") /\ TypeAt(doing.act, doing.at) \in DOMAIN Makes
<1>1. doing.act \in Acts /\ doing.at \in 1..Len(Script[doing.act])
  BY UnderWay
<1> DEFINE One(op) == IF Script[doing.act][doing.at] \in {op} THEN {doing.at} ELSE {}
<1>a. \A ops : Before(doing.act, doing.at + 1, ops) =
        Before(doing.act, doing.at, ops)
          \cup (IF Script[doing.act][doing.at] \in ops THEN {doing.at} ELSE {})
  BY <1>1, OneWriteMore
<1>2. StateWritten' <=> (StateWritten \/ Due("state"))
  <2>1. Did({"state"})' = Did({"state"}) \cup One("state")
    BY <1>a DEF Did
  <2> QED
    BY <2>1 DEF StateWritten, Due
<1>3. Before(doing'.act, doing'.at, {"record"}) =
        Before(doing.act, doing.at, {"record"}) \cup One("record")
  BY <1>a
<1> QED
  BY <1>2, <1>3 DEF BearingWritten, BearsBefore, Due

\* Nothing was written that bears on it.
LEMMA NoEntryMade ==
  ASSUME WritesInv, Busy, Did(Entered) = {}
  PROVE  EntriesOf(files.record, doing.n) = {}
<1>1. files.record \in Seq(Entry)
  BY DEF WritesInv, TypeOK, Files
<1>2. IsFiniteSet(EntriesOf(files.record, doing.n))
  <2>1. IsFiniteSet(1..Len(files.record)) /\ DOMAIN files.record = 1..Len(files.record)
    BY <1>1, FS_Interval, LenProperties
  <2> QED
    BY <2>1, FS_Subset DEF EntriesOf
<1>3. Cardinality(EntriesOf(files.record, doing.n)) = 0
  BY FS_EmptySet DEF WritesInv, Progress
<1> QED
  BY <1>2, <1>3, FS_EmptySet

LEMMA StepDisagreement == ASSUME WritesInv, WritesNext PROVE Disagreement'
<1>1. /\ Disagreement /\ Numbered /\ begun \in Nat
      /\ files \in Files /\ head \in Files /\ files.record \in Seq(Entry)
  BY DEF WritesInv, TypeOK, Files
<1>2. Busy => doing.act \in Acts /\ doing.at \in 1..Len(Script[doing.act])
  BY UnderWay
<1>3. ASSUME NEW act \in Acts, NEW confirmed \in BOOLEAN, Begin(act, confirmed)
      PROVE  Disagreement'
  <2>1. /\ ~Busy /\ doing'.act = act /\ doing'.at = 1 /\ doing'.n = begun + 1
        /\ UNCHANGED <<files, head, cut>>
    BY <1>3 DEF Begin
  <2>2. \A ops : Before(act, 1, ops) = {}
    BY DEF Before
  <2>3. ~StateWritten' /\ ~BearingWritten'
    BY <2>1, <2>2 DEF StateWritten, BearingWritten, BearsBefore, Did
  <2>4. begun + 1 \notin cut
    <3>1. ~(begun + 1 <= begun)
      BY <1>1
    <3> QED
      BY <1>1, <3>1 DEF Numbered
  <2>5. Explained(head, cut)' /\ Explained(files, cut)'
    BY <1>1, <2>1 DEF Disagreement, Explained, Agrees
  <2> QED
    BY <2>1, <2>3, <2>4, <2>5 DEF Disagreement
\* An entry of the act under way; one of its types bears the sitting.
<1>4. ASSUME NEW type \in Acts \cup {"projection", "capture"}, Writes(type),
             \/ Due("record") /\ type = TypeAt(doing.act, doing.at)
             \/ Due("projection") /\ type = "projection"
      PROVE  Disagreement'
  <2> DEFINE e == [type |-> type, act |-> doing.n]
  <2>1. /\ e \in Entry /\ files'.record = Append(files.record, e)
        /\ files'.state = files.state /\ e.act = doing.n /\ e.type = type
        /\ Busy /\ Busy' /\ doing'.n = doing.n /\ doing'.act = doing.act
        /\ doing'.at = doing.at + 1 /\ UNCHANGED <<head, cut>>
    BY <1>4, Writing DEF Writes, Due
  <2> HIDE DEF e
  <2>2. \A n : EntriesOf(files'.record, n) =
                 EntriesOf(files.record, n)
                   \cup IF e.act = n THEN {Len(files.record) + 1} ELSE {}
    BY <1>1, <2>1, OneEntryMore
  <2>3. EntriesOf(files'.record, doing.n) # {}
    BY <2>1, <2>2
  <2>4. /\ e.type \in DOMAIN Makes =>
             Bearing(files'.record) # {} /\ Last(files'.record) = e
        /\ e.type \notin DOMAIN Makes =>
             /\ Bearing(files'.record) = Bearing(files.record)
             /\ Bearing(files.record) # {} => Last(files'.record) = Last(files.record)
    BY <1>1, <2>1, LastBearing
  <2>5. /\ StateWritten' <=> StateWritten
        /\ BearingWritten' <=> \/ BearingWritten
                               \/ Due("record") /\ TypeAt(doing.act, doing.at) \in DOMAIN Makes
    BY <1>4, <2>1, OneThingMore DEF Due
  <2>6. Explained(head, cut)'
    BY <1>1, <2>1 DEF Disagreement, Explained, Agrees
  <2>7. doing.act = "crisis" \/ TypeAt(doing.act, doing.at) = doing.act
    BY DEF TypeAt
  <2>8. CASE Due("projection")
    <3>1. BearingWritten
      BY <1>2, <2>1, <2>8, ScriptBears DEF Due, BearingWritten
    <3>2. e.type \notin DOMAIN Makes
      BY <1>4, <2>1, <2>8, MakesIs DEF Due
    <3> QED
      BY <1>1, <2>1, <2>3, <2>4, <2>5, <2>6, <3>1, <3>2 DEF Disagreement, MadeBy
  <2>9. CASE Due("record") /\ e.type \in DOMAIN Makes
    <3>1. type = TypeAt(doing.act, doing.at)
      BY <1>4, <2>9 DEF Due
    <3>2. Makes[e.type] = MadeBy(doing.act)
      BY <1>2, <2>1, <2>9, <3>1, EntryMakes
    <3>3. BearingWritten'
      BY <2>1, <2>5, <2>9, <3>1
    <3> QED
      BY <1>1, <2>1, <2>3, <2>4, <2>5, <2>6, <2>9, <3>2, <3>3 DEF Disagreement, MadeBy
  <2>10. CASE Due("record") /\ e.type \notin DOMAIN Makes
    <3>1. type = TypeAt(doing.act, doing.at) /\ ~BearingWritten
      BY <1>2, <1>4, <2>1, <2>10, ScriptBears DEF Due, BearingWritten
    <3>2. ~StateWritten
      BY <1>2, <2>1, <2>10, <3>1, ScriptBears, MakesIs DEF Due, StateWritten, Did, TypeAt
    <3>3. Explained(files, cut)
      BY <1>1, <2>1, <3>1, <3>2 DEF Disagreement
    <3>4. \A n \in cut : EntriesOf(files.record, n) = {} => EntriesOf(files'.record, n) = {}
      <4>1. ASSUME NEW n \in cut, EntriesOf(files.record, n) = {}
            PROVE  n # doing.n
        BY <1>1, <2>1, <4>1 DEF Disagreement
      <4> QED
        BY <2>1, <2>2, <4>1
    <3>5. Explained(files, cut)'
      BY <2>1, <2>4, <2>10, <3>3, <3>4 DEF Explained, Agrees
    <3> QED
      BY <2>1, <2>3, <2>5, <2>6, <2>10, <3>1, <3>2, <3>5 DEF Disagreement
  <2> QED
    BY <1>4, <2>8, <2>9, <2>10
<1>5. CASE WriteState
  <2>1. /\ Busy /\ files'.record = files.record /\ UNCHANGED <<head, cut>>
        /\ Busy' /\ doing'.act = doing.act /\ doing'.n = doing.n
        /\ doing'.at = doing.at + 1
    BY <1>5, OtherWrites
  <2>2. files'.state = MadeBy(doing.act)
    BY <1>1, <1>5 DEF WriteState, Files
  <2>3. StateWritten' /\ (BearingWritten' <=> BearingWritten)
    BY <1>5, <2>1, OneThingMore DEF WriteState, Due
  <2>4. Explained(head, cut)'
    BY <1>1, <2>1 DEF Disagreement, Explained, Agrees
  <2>5. CASE BearingWritten
    BY <1>1, <2>1, <2>2, <2>3, <2>4, <2>5 DEF Disagreement, MadeBy
  <2>6. CASE ~BearingWritten
    <3>1. doing.act \in {"seal", "prorogue"} /\ Did(Entered) = {}
      BY <1>2, <1>5, <2>1, <2>6, ScriptBears DEF WriteState, Due, BearingWritten, Did
    <3>2. EntriesOf(files.record, doing.n) = {}
      BY <2>1, <3>1, NoEntryMade
    <3>3. MadeBy(doing.act) = "PROROGUED"
      BY <3>1, MakesIs, ActsAre
    <3>4. doing'.n \in cut' => EntriesOf(files'.record, doing'.n) # {}
      BY <1>1, <2>1 DEF Disagreement
    <3> QED
      BY <2>1, <2>2, <2>3, <2>4, <2>6, <3>2, <3>3, <3>4 DEF Disagreement, MadeBy
  <2> QED
    BY <2>5, <2>6
<1>6. CASE LogAct
  <2>1. /\ Busy /\ files'.record = files.record /\ UNCHANGED <<head, cut>>
        /\ Busy' /\ doing'.act = doing.act /\ doing'.n = doing.n
        /\ doing'.at = doing.at + 1
    BY <1>6, OtherWrites
  <2>2. files'.state = files.state
    BY <1>6, RowWritten
  <2>3. (StateWritten' <=> StateWritten) /\ (BearingWritten' <=> BearingWritten)
    BY <1>6, <2>1, OneThingMore DEF LogAct, Due
  <2>4. /\ Explained(head, cut)'
        /\ Explained(files, cut) => Explained(files, cut)'
    BY <1>1, <2>1, <2>2 DEF Disagreement, Explained, Agrees
  <2> QED
    BY <1>1, <2>1, <2>2, <2>3, <2>4 DEF Disagreement, MadeBy
<1>7. CASE Commit \/ CommitFails
  <2>1. /\ Busy /\ Due("commit") /\ Advances /\ files' = files
        /\ \E f \in {files, head} : head'.record = f.record /\ head'.state = f.state
        /\ cut' \in {cut, cut \cup {doing.n}}
    BY <1>1, <1>7, LedgerOf DEF Commit, CommitFails, Due
  <2>2. Explained(files, cut) /\ Explained(head, cut)
    BY <1>1, <2>1, ExplainedAnyway DEF Disagreement
  <2>3. Explained(files, cut)' /\ Explained(head, cut)'
    BY <2>1, <2>2 DEF Explained, Agrees
  <2>4. EntriesOf(files.record, doing.n) # {}
    <3>1. Did({"record"}) # {}
      BY <1>2, <2>1, ScriptEnds DEF Due, Did
    <3> QED
      BY <2>1, <3>1 DEF WritesInv, Progress
  <2>5. CASE ~Busy'
    BY <2>3, <2>5 DEF Disagreement
  <2>6. CASE Busy'
    <3>1. doing'.act = doing.act /\ doing'.n = doing.n /\ doing'.at = doing.at + 1
      BY <2>1, <2>6, Advancing
    <3>2. (StateWritten' <=> StateWritten) /\ (BearingWritten' <=> BearingWritten)
      BY <2>1, <3>1, OneThingMore DEF Due
    <3> QED
      BY <1>1, <2>1, <2>3, <2>4, <2>6, <3>1, <3>2 DEF Disagreement, MadeBy
  <2> QED
    BY <2>5, <2>6
<1>8. CASE SignatureFails
  <2>1. /\ files'.record = head.record /\ files'.state = head.state
        /\ head' = head /\ cut' = cut /\ ~Busy'
    BY <1>1, <1>8, LedgerOf DEF SignatureFails, Restores, Busy
  <2>2. Explained(head, cut)' /\ Explained(files, cut)'
    BY <1>1, <2>1 DEF Disagreement, Explained, Agrees
  <2> QED
    BY <2>1, <2>2 DEF Disagreement
<1>9. CASE Killed
  <2>1. Busy /\ files' = files /\ head' = head /\ cut' = cut \cup {doing.n} /\ ~Busy'
    BY <1>9 DEF Killed, Busy
  <2>2. Explained(files, cut \cup {doing.n}) /\ Explained(head, cut)
    BY <1>1, <2>1, ExplainedAnyway DEF Disagreement
  <2>3. Explained(head, cut)' /\ Explained(files, cut)'
    BY <2>1, <2>2 DEF Explained, Agrees
  <2> QED
    BY <2>1, <2>3 DEF Disagreement
<1> QED
  BY <1>3, <1>4, <1>5, <1>6, <1>7, <1>8, <1>9, RecordWrites DEF WritesNext

-----------------------------------------------------------------------------
(***************************************************************************)
(* Signatures.                                                             *)
(***************************************************************************)
LEMMA StepUnsigned == ASSUME WritesInv, WritesNext PROVE UnsignedOnlyIfCut'
<1>1. UnsignedOnlyIfCut /\ Numbered /\ begun \in Nat
  BY DEF WritesInv, TypeOK
<1>2. ASSUME owed' = owed, unsigned' = unsigned, cut \subseteq cut'
      PROVE  UnsignedOnlyIfCut'
  BY <1>1, <1>2 DEF UnsignedOnlyIfCut
<1>3. ASSUME NEW act \in Acts, NEW confirmed \in BOOLEAN, Begin(act, confirmed)
      PROVE  UnsignedOnlyIfCut'
  <2>1. /\ owed' \subseteq owed \cup {begun + 1}
        /\ unsigned' = unsigned /\ cut' = cut
    BY <1>3 DEF Begin
  <2>2. begun + 1 \notin unsigned
    <3>1. ~(begun + 1 <= begun)
      BY <1>1
    <3> QED
      BY <1>1, <3>1 DEF Numbered
  <2> QED
    BY <1>1, <2>1, <2>2 DEF UnsignedOnlyIfCut
\* What an unsigned commit takes along is the act under way, which owes no signature,
\* or was cut short.
<1>4. CASE Commit
  <2>1. Busy /\ owed' = owed /\ cut' = cut
    BY <1>4 DEF Commit, Due
  <2>2. CASE doing.confirmed
    BY <1>2, <1>4, <2>1, <2>2 DEF Commit
  <2>3. CASE ~doing.confirmed
    <3>1. unsigned' = unsigned \cup Loose
      BY <1>4, <2>3 DEF Commit
    <3>2. doing.n \notin owed
      BY <2>1, <2>3 DEF WritesInv, ConfirmedAtEnd
    <3>3. Loose \subseteq cut \cup {doing.n}
      BY <2>1 DEF WritesInv, LooseIsCut
    <3> QED
      BY <1>1, <2>1, <3>1, <3>2, <3>3 DEF UnsignedOnlyIfCut
  <2> QED
    BY <2>2, <2>3
<1>5. CASE \/ WriteRecord \/ WriteProjection \/ WriteState \/ LogAct
           \/ CommitFails \/ SignatureFails \/ Killed
  BY <1>2, <1>5 DEF WriteRecord, WriteProjection, Writes, WriteState, LogAct,
                    CommitFails, SignatureFails, Killed
<1> QED
  BY <1>3, <1>4, <1>5 DEF WritesNext

-----------------------------------------------------------------------------
(***************************************************************************)
(* The theorems.                                                           *)
(***************************************************************************)
LEMMA InitWritesInv == WritesInit => WritesInv
<1> SUFFICES ASSUME WritesInit PROVE WritesInv
  OBVIOUS
<1>1. /\ TypeOK /\ ~Busy /\ files = head /\ files.record = <<>> /\ files.ledger = <<>>
      /\ files.state = "CONVENED" /\ told = {} /\ owed = {} /\ cut = {} /\ unsigned = {}
  BY InitTypeOK DEF WritesInit, Busy
<1>2. files.record \in Seq(Entry) /\ head.record = files.record
  BY <1>1 DEF TypeOK, Files
<1>3. Prefix(head.record, files.record)
  BY <1>2, PrefixOfItself
<1>4. Numbered /\ InMemory
  BY <1>1, <1>2, <1>3 DEF Numbered, InMemory
<1>5. Progress /\ ConfirmedAtEnd /\ LooseIsCut /\ Reported /\ UnsignedOnlyIfCut
  BY <1>1 DEF Progress, ConfirmedAtEnd, LooseIsCut, Loose, Reported, UnsignedOnlyIfCut
<1>6. Explained(files, cut) /\ Explained(head, cut)
  <2>1. Bearing(files.record) = {} /\ files = head
    BY <1>1 DEF Bearing
  <2> QED
    BY <1>1, <2>1 DEF Explained, Agrees
<1>7. Disagreement
  BY <1>1, <1>6 DEF Disagreement
<1> QED
  BY <1>1, <1>4, <1>5, <1>7 DEF WritesInv

LEMMA NextWritesInv == WritesInv /\ [WritesNext]_writesVars => WritesInv'
<1>1. ASSUME WritesInv, WritesNext
      PROVE  WritesInv'
  BY <1>1, StepTypeOK, StepNumbered, StepInMemory, StepProgress, StepConfirmedAtEnd,
     StepLooseIsCut, StepReported, StepDisagreement, StepUnsigned DEF WritesInv
<1>2. ASSUME WritesInv, UNCHANGED writesVars
      PROVE  WritesInv'
  <2>1. TypeOK' /\ Numbered' /\ InMemory'
    BY <1>2 DEF WritesInv, writesVars, TypeOK, Numbered, InMemory, Busy
  <2>2. Progress' /\ ConfirmedAtEnd' /\ LooseIsCut'
    BY <1>2 DEF WritesInv, writesVars, Progress, ConfirmedAtEnd, LooseIsCut, Loose, Busy, Did
  <2>3. Reported' /\ UnsignedOnlyIfCut'
    BY <1>2 DEF WritesInv, writesVars, Reported, UnsignedOnlyIfCut
  <2>4. Disagreement'
    BY <1>2 DEF WritesInv, writesVars, Disagreement, Explained, Busy, StateWritten,
                BearingWritten, Did
  <2> QED
    BY <2>1, <2>2, <2>3, <2>4 DEF WritesInv
<1> QED
  BY <1>1, <1>2

\* Wherever a handler is killed, a commit fails or a signature is refused, the files and
\* HEAD are what the writes done so far make of them (cli.ts, the write order of each
\* handler; commitAct).
THEOREM WritesInvariance == WritesSpec => []WritesInv
  BY InitWritesInv, NextWritesInv, PTL DEF WritesSpec

\* What was committed stays in every later commit and in the working tree, however many
\* acts begin on what a killed one left and whichever signature fails (commitAct).
THEOREM CommittedIsAlwaysKept == WritesSpec => CommittedIsKept
<1>1. ASSUME WritesInv, WritesInv', [WritesNext]_writesVars
      PROVE  [Prefix(head.record, head'.record) /\ Prefix(head.record, files'.record)]_writesVars
  <2>1. CASE UNCHANGED writesVars
    BY <2>1
  <2>2. CASE WritesNext
    <3>1. /\ head.record \in Seq(Entry) /\ Prefix(head.record, files.record)
          /\ head'.record \in Seq(Entry) /\ files'.record \in Seq(Entry)
          /\ Prefix(head'.record, files'.record)
      BY <1>1 DEF WritesInv, TypeOK, Files, InMemory
    <3>2. head'.record \in {files.record, head.record}
      BY <1>1, <2>2, LedgerOf DEF WritesInv, TypeOK, WritesNext, Begin, WriteRecord, WriteProjection, Writes, WriteState, LogAct,
                  Commit, CommitFails, SignatureFails, Killed
    <3>3. Prefix(head.record, head'.record)
      BY <3>1, <3>2, PrefixOfItself
    <3> QED
      BY <3>1, <3>3, PrefixFurther
  <2> QED
    BY <1>1, <2>1, <2>2
<1> QED
  BY <1>1, WritesInvariance, PTL DEF CommittedIsKept, WritesSpec

\* An act that said it was recorded is whole in HEAD for good, and its row is in the
\* ledger, in HEAD too unless the Charter keeps it elsewhere; one that said that nothing
\* was recorded has no entry anywhere (commitAct: record, then report).
THEOREM ReportsAlwaysHold == WritesSpec => []ReportsHold
<1>1. WritesInv => ReportsHold
  BY DEF WritesInv, Reported, ReportsHold, WholeIn
<1> QED
  BY <1>1, WritesInvariance, PTL

\* STATE.json and HANSARD.md disagree only where an act was cut short between the two
\* (the handlers of cli.ts write one file after the other).
THEOREM DisagreementIsOfACut == WritesSpec => []DisagreesOnlyIfCut
<1>1. WritesInv => DisagreesOnlyIfCut
  BY DEF WritesInv, Disagreement, Explained, DisagreesOnlyIfCut
<1> QED
  BY <1>1, WritesInvariance, PTL

\* A confirmed act is in no unsigned commit, unless it was cut short and a later act's
\* commit took it along (commitRecord: a required signature must not degrade).
THEOREM UnsignedIsOfACut == WritesSpec => []UnsignedOnlyIfCut
<1>1. WritesInv => UnsignedOnlyIfCut
  BY DEF WritesInv
<1> QED
  BY <1>1, WritesInvariance, PTL

=============================================================================

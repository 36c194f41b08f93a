----------------------------- MODULE ActWrites -----------------------------
(***************************************************************************)
(* How an act reaches the disk.  The other modules take a command for one  *)
(* step; here it is what its handler in cli.ts does after the guards: it   *)
(* writes HANSARD.md, STATE.json and the ledger one file at a time, each   *)
(* by renaming a complete one over it, and commits them.  A process may be *)
(* killed between any two writes, a commit may fail, and so may the        *)
(* signature that a confirmed act needs.  The Charter says where the       *)
(* ledger is kept: the commit knows two places, and not a third.           *)
(*                                                                         *)
(* The files a killed act leaves are not repaired: the next act reads them,*)
(* and its commit takes them along.                                        *)
(***************************************************************************)
EXTENDS Naturals, Sequences, FiniteSets

CONSTANTS MaxActs,   \* bound on the acts begun
          NoAct      \* what is under way when nothing is

ASSUME WritesAssumption == MaxActs \in Nat

(***************************************************************************)
(* The handlers, each as the order of its writes: cmdDivision (vote, and a *)
(* tally that seals the sitting), cmdEscalate, cmdRule, cmdAssent, cmdCrisis*)
(* (a filing that captures) and cmdProrogue.                               *)
(***************************************************************************)
Script ==
  [vote |-> <<"record", "commit">>,
   seal |-> <<"state", "record", "ledger", "commit">>,
   escalate |-> <<"record", "state", "projection", "ledger", "commit">>,
   rule |-> <<"record", "state", "ledger", "commit">>,
   assent |-> <<"record", "state", "projection", "ledger", "commit">>,
   crisis |-> <<"record", "ledger", "commit", "record", "state", "commit">>,
   prorogue |-> <<"ledger", "state", "record", "commit">>]
Acts == DOMAIN Script
Constitutional == {"assent", "rule", "prorogue"}

\* The entry a handler writes first, and the one a later write of it adds.
Entry == [type : Acts \cup {"projection", "capture"}, act : 1..MaxActs]

\* What the entries that bear on the sitting make of it.
Sittings == {"CONVENED", "SUSPENDED", "CRISIS", "PROROGUED"}
Makes == [rule |-> "CONVENED", assent |-> "CONVENED", escalate |-> "SUSPENDED",
          capture |-> "CRISIS", seal |-> "PROROGUED", prorogue |-> "PROROGUED"]
MadeBy(act) == Makes[IF act = "crisis" THEN "capture" ELSE act]

\* The states a handler accepts.
Accepts ==
  [vote |-> {"CONVENED"}, seal |-> {"CONVENED"}, escalate |-> {"CONVENED"},
   assent |-> {"CONVENED"}, rule |-> {"SUSPENDED"}, crisis |-> Sittings,
   prorogue |-> {"CONVENED", "SUSPENDED"}]

Files == [record : Seq(Entry), state : Sittings, ledger : Seq(1..MaxActs)]

\* The Charter's ledger: at LEDGER.md or .politik/LEDGER.md, at a path of its own, or
\* not kept.
LedgerPlaces == {"default", "own", "disabled"}

VARIABLES files,    \* the working tree
          head,     \* the same files as of the last commit
          doing,    \* the act under way, its next write and what it has in memory
          begun,    \* how many acts were begun
          owed,     \* the confirmed acts, which must be signed
          told,     \* what the acts that ended told their callers
          cut,      \* the acts that were killed, or whose commit failed
          unsigned, \* the acts that a commit without a signature took along
          ledgerAt  \* where the Charter keeps the ledger
writesVars == <<files, head, doing, begun, owed, told, cut, unsigned, ledgerAt>>

Doing == [act : Acts, n : 1..MaxActs, confirmed : BOOLEAN, at : 1..6, doc : Seq(Entry)]
Outcomes == {"recorded", "nothingRecorded", "notCommitted"}

ASSUME NoActAssumption == NoAct \notin Doing

TypeOK ==
  /\ files \in Files /\ head \in Files
  /\ doing \in Doing \cup {NoAct}
  /\ begun \in 0..MaxActs
  /\ told \subseteq [n : 1..MaxActs, says : Outcomes]
  /\ owed \subseteq 1..MaxActs /\ cut \subseteq 1..MaxActs /\ unsigned \subseteq 1..MaxActs
  /\ ledgerAt \in LedgerPlaces

WritesInit ==
  /\ files = [record |-> <<>>, state |-> "CONVENED", ledger |-> <<>>]
  /\ head = files
  /\ doing = NoAct
  /\ begun = 0 /\ owed = {} /\ told = {} /\ cut = {} /\ unsigned = {}
  /\ ledgerAt \in LedgerPlaces

-----------------------------------------------------------------------------
Busy == doing # NoAct
Due(op) == Busy /\ Script[doing.act][doing.at] = op
Done == doing.at = Len(Script[doing.act])
Advances == doing' = IF Done THEN NoAct ELSE [doing EXCEPT !.at = @ + 1]
Tells(says) == told' = told \cup {[n |-> doing.n, says |-> says]}

\* The handler has loaded the session and asked its guards.
Begin(act, confirmed) ==
  /\ ~Busy /\ begun < MaxActs
  /\ files.state \in Accepts[act]
  /\ confirmed => act \in Constitutional
  /\ begun' = begun + 1
  /\ doing' = [act |-> act, n |-> begun', confirmed |-> confirmed, at |-> 1,
               doc |-> files.record]
  /\ owed' = IF confirmed THEN owed \cup {begun'} ELSE owed
  /\ UNCHANGED <<files, head, told, cut, unsigned, ledgerAt>>

\* Faulty: the second write starts again from what was loaded.
WritesOnLoaded(type) ==
  /\ files' = [files EXCEPT !.record = Append(doing.doc, [type |-> type, act |-> doing.n])]
  /\ doing' = [doing EXCEPT !.at = @ + 1]
  /\ UNCHANGED <<head, begun, owed, told, cut, unsigned, ledgerAt>>

\* The document in memory is what is written; a handler that writes twice goes on
\* with the one it has.
Writes(type) ==
  LET doc == Append(doing.doc, [type |-> type, act |-> doing.n])
  IN /\ files' = [files EXCEPT !.record = doc]
     /\ doing' = [doing EXCEPT !.at = @ + 1, !.doc = doc]
     /\ UNCHANGED <<head, begun, owed, told, cut, unsigned, ledgerAt>>

Again == doing.at > 1 /\ doing.act = "crisis"
WriteRecord == Due("record") /\ Writes(IF Again THEN "capture" ELSE doing.act)

\* applyProjection: the host was asked, and its answer goes on the record.
WriteProjection == Due("projection") /\ Writes("projection")

WriteState ==
  /\ Due("state")
  /\ files' = [files EXCEPT !.state = MadeBy(doing.act)]
  /\ Advances
  /\ UNCHANGED <<head, begun, owed, told, cut, unsigned, ledgerAt>>

\* A ledger that is not kept gets no row.
LogAct ==
  /\ Due("ledger")
  /\ files' = IF ledgerAt = "disabled" THEN files
              ELSE [files EXCEPT !.ledger = Append(@, doing.n)]
  /\ Advances
  /\ UNCHANGED <<head, begun, owed, told, cut, unsigned, ledgerAt>>

-----------------------------------------------------------------------------
(***************************************************************************)
(* commitAct and commitRecord: git add of the files, and a commit.  The    *)
(* paths are HANSARD.md, STATE.json, LEDGER.md and .politik/LEDGER.md: a   *)
(* ledger at another path is neither committed nor put back.  A confirmed  *)
(* act is signed (signed_confirmations: required).                         *)
(***************************************************************************)
\* The acts with something in the files that is not in HEAD.
OnRecord(r) == {r[k].act : k \in DOMAIN r}
Loose == OnRecord(files.record) \ OnRecord(head.record)

\* A version of the three files with the ledger that is taken along, or left as it is.
WithLedgerOf(f, g) == IF ledgerAt = "default" THEN f ELSE [f EXCEPT !.ledger = g.ledger]

\* Faulty: no ledger is among the paths.
CommitWithoutLedger ==
  /\ Due("commit")
  /\ head' = [files EXCEPT !.ledger = head.ledger]
  /\ unsigned' = IF doing.confirmed THEN unsigned ELSE unsigned \cup Loose
  /\ IF Done THEN Tells("recorded") ELSE UNCHANGED told
  /\ Advances
  /\ UNCHANGED <<files, begun, owed, cut, ledgerAt>>

Commit ==
  /\ Due("commit")
  /\ head' = WithLedgerOf(files, head)
  /\ unsigned' = IF doing.confirmed THEN unsigned ELSE unsigned \cup Loose
  /\ IF Done THEN Tells("recorded") ELSE UNCHANGED told
  /\ Advances
  /\ UNCHANGED <<files, begun, owed, cut, ledgerAt>>

\* git add fails, or an unsigned commit: the command does not say "recorded" and goes
\* on, and the act stays in the files, a confirmed one too.
CommitFails ==
  /\ Due("commit")
  /\ IF Done THEN Tells("notCommitted") ELSE UNCHANGED told
  /\ cut' = cut \cup {doing.n}
  /\ Advances
  /\ UNCHANGED <<files, head, begun, owed, unsigned, ledgerAt>>

\* Faulty: only the record goes back.
RestoresRecord == files' = [files EXCEPT !.record = head.record, !.ledger = head.ledger]

\* Faulty: the commit degrades to an unsigned one.
CommitsUnsigned ==
  /\ Due("commit") /\ doing.confirmed
  /\ head' = WithLedgerOf(files, head)
  /\ unsigned' = unsigned \cup Loose
  /\ Tells("recorded")
  /\ doing' = NoAct
  /\ UNCHANGED <<files, begun, owed, cut, ledgerAt>>

\* The signature fails: the files go back to HEAD and the command refuses.
Restores == files' = WithLedgerOf(head, files)
SignatureFails ==
  /\ Due("commit") /\ doing.confirmed
  /\ Restores
  /\ doing' = NoAct
  /\ Tells("nothingRecorded")
  /\ UNCHANGED <<head, begun, owed, cut, unsigned, ledgerAt>>

Killed ==
  /\ Busy
  /\ doing' = NoAct
  /\ cut' = cut \cup {doing.n}
  /\ UNCHANGED <<files, head, begun, owed, told, unsigned, ledgerAt>>

WritesNext ==
  \/ \E act \in Acts, confirmed \in BOOLEAN : Begin(act, confirmed)
  \/ WriteRecord \/ WriteProjection \/ WriteState \/ LogAct
  \/ Commit \/ CommitFails \/ SignatureFails \/ Killed

WritesSpec == WritesInit /\ [][WritesNext]_writesVars

-----------------------------------------------------------------------------
(***************************************************************************)
(* Properties.                                                             *)
(***************************************************************************)
\* "Record, then report": what an act told its caller is so.  One that reported its
\* commit is in HEAD with each of its entries, and its ledger row is in the ledger, in
\* HEAD too where the commit knows the place; one that reported that nothing was
\* recorded has no entry anywhere, and no row but at a path of the Charter's own,
\* whatever was cut short before or after (commitAct).
EntriesOf(r, n) == {k \in DOMAIN r : r[k].act = n}
Logged(f, n) == \E k \in DOMAIN f.ledger : f.ledger[k] = n
Times(act, ops) == Cardinality({k \in DOMAIN Script[act] : Script[act][k] \in ops})
WholeAs(act, f, n, withRow) ==
  /\ \E k \in EntriesOf(f.record, n) : f.record[k].type = act
  /\ Cardinality(EntriesOf(f.record, n)) = Times(act, {"record", "projection"})
  /\ Times(act, {"ledger"}) = 1 /\ withRow => Logged(f, n)
WholeIn(f, n, withRow) == \E act \in Acts : WholeAs(act, f, n, withRow)
ReportsHold ==
  \A t \in told :
    /\ t.says = "recorded" => /\ WholeIn(head, t.n, ledgerAt = "default")
                              /\ WholeIn(files, t.n, ledgerAt # "disabled")
    /\ t.says = "nothingRecorded" =>
         /\ \A f \in {files, head} : EntriesOf(f.record, t.n) = {}
         /\ ~Logged(head, t.n)
         /\ ledgerAt = "default" => ~Logged(files, t.n)

\* "Call before the commit, which then includes the new row" (logAct's comment): the
\* row of an act that reported its commit is in HEAD.
RowIsCommitted ==
  \A t \in told : t.says = "recorded" => WholeIn(head, t.n, ledgerAt # "disabled")

\* What was committed stays in every later commit and in the working tree: an act
\* begun on what a killed one left, or a signature that fails, takes nothing back.
Prefix(s, t) == Len(s) <= Len(t) /\ SubSeq(t, 1, Len(s)) = s
CommittedIsKept ==
  [][Prefix(head.record, head'.record) /\ Prefix(head.record, files'.record)]_writesVars

\* Between commands and in every commit, the state is what the record's last
\* state-bearing entry makes it, unless that entry is of an act cut short, or a seal was
\* cut between its state and its entry (prorogue and a sealing tally write the state
\* first): no disagreement comes of acts that ended.
Bearing(r) == {k \in DOMAIN r : r[k].type \in DOMAIN Makes}
Last(r) == r[CHOOSE k \in Bearing(r) : \A j \in Bearing(r) : j <= k]
Agrees(f) ==
  f.state = IF Bearing(f.record) = {} THEN "CONVENED" ELSE Makes[Last(f.record).type]
DisagreesOnlyIfCut ==
  \A f \in IF Busy THEN {head} ELSE {files, head} :
    \/ Agrees(f)
    \/ Bearing(f.record) # {} /\ Last(f.record).act \in cut
    \/ f.state = "PROROGUED" /\ \E n \in cut : EntriesOf(f.record, n) = {}

\* The entries of a confirmed act are never in a commit without a signature, unless
\* the act was cut short and the commit of a later one took them along (commitRecord:
\* a required signature "must not degrade to an unsigned record").
UnsignedOnlyIfCut == owed \cap unsigned \subseteq cut

=============================================================================

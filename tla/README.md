# politik: a verification project

politik runs *governed* sessions of human and machine actors on top of git. A
session is a directory holding

- `CHARTER.md`, the constitution it was opened under (never changed afterwards),
- `HANSARD.md`, the append-only record of everything done,
- `STATE.json`, the state of the sitting (`CONVENED`, `SUSPENDED` for a cause,
  `PROROGUED`, `STALE`, `INVALID`),
- `LEDGER.md`, what it cost.

There is no server. Every command of the CLI is a process of its own that loads
these files, refuses or acts, writes them and commits. So what makes the system
correct is not in any one function: it is that two dozen commands, each with its
own guards, keep a record and a state that agree, whatever the order in which
they are called, and that what each reads back from the record is what the others
meant when they wrote it. That is what this project models first. One command is not
short: `politik run` lets an agent work for minutes between its reads and its writes,
under a lockfile that several such processes compete for, in a working tree that others
write to. That is modelled second. Third come the things that a command is *not* one
step of: the order in which it writes its files, and the clones of a shared session
that race to push. Last, the readings of the record that are algorithms: tournaments,
conflicts, and what a tree of sessions makes of its members.

Line numbers below and in `PROJECT.json` are those of the files under `src/`.

## Inventory

| Component (source) | State it keeps | Operations | Talks to | What is hard | What makes it correct |
|---|---|---|---|---|---|
| Record (`hansard.ts`, `canon.ts`) | the entries | `appendEntry`, `parseEntries` | everything reads it | every question is answered by replay | readers see what writers meant |
| State (`state.ts`) | state, cause | `createState`, `validateState` | every act | written in a pair with the record | never disagrees with the record |
| Writ Drop (`init.ts`) | all files, first time | `dropWrit` | charter, templates, git | valid and invalid Charter | an invalid Charter never convenes |
| Divisions (`division.ts`, `quorum.ts`) | none of its own | call, vote, tally, break, assent | record, state, projection | four protocols' rules interact: resolution, exit, termination | ballots sound, outcomes recountable, culls exact, Assent follows the House |
| Bench (`actors.ts`) | none: replayed | hire, promote, demote, exit, spawn, dispute, reinstate, veto, challenge | record, state | rehiring, moves after an exit, reinstatement | the register is the record |
| Escalation (`escalation.ts`) | pending Point of Order | escalate, rule | record, state, projection | rulings that meet another suspension | a ruling answers a Point of Order only |
| Crisis (`crisis.ts`) | filings, in the record | file, review | record, state | threshold; suspends whatever the state | capture needs its filers; ends by review |
| Heartbeat (`heartbeat.ts`) | none | mark stale, resume, snapshot | record, state | the clock | STALE left only by resume |
| Prorogation (`prorogation.ts`) | none | prorogue | record, state | also called by a tally | a sitting ends on time, and stays ended |
| Runner (`runner.ts`, `spawn.ts`, `agents.ts`) | a turn in memory | `runTurn` | election, record, state, ledger, fault, containment | minutes pass between its reads and its writes | a turn erases nothing |
| Election (`election.ts`, `lockfs.ts`) | lockfiles | `standForElection`, `bowOut` | runner | check-then-act on a file; stale locks | one holder per constituency |
| Faults (`fault.ts`) | none | `classify`, `shouldRetry` | runner | retries | bounded, all recorded |
| Shared sessions (`remote.ts`, `git.ts`, `scm.ts`) | refs of each clone and of the remote, the working tree of each clone | fetch, fast-forward, push, discard, sync | acts, through `withSync`; `cascade`, without it | lost races, unreachable remote, entries written and not committed | one linear record, each act once and lawful where it stands |
| Confirmation (`pending.ts`, `operator.ts`) | staged acts | stage, confirm, reject | `withSync`, the act replayed | replay against a later record; crash before removal | each staged act at most once |
| Write order (`cli.ts` 1099-1259) | temporary files | `atomicWrite`, `logAct`, `commitAct`, `applyProjection` | git | crash between two writes | a reader finds a usable session |
| Tree (`tree.ts`), federation (`federation.ts`) | none | inheritance, cascade, roll-up | charters of many nodes | which level's rule wins | a child never weakens its parent |
| Tournament (`tournament.ts`, `standings.ts`) | none: replayed | pair, report, standings | record | byes, best-of series, leavers, two readers of one record | draws are fair, series end when won, the table is what the matches say |
| Conflict (`conflict.ts`), integrity (`integrity.ts`) | none | detect, resolve, review | record, turns' reports | what a turn touched is asked of git, where others write too | a report names what was done as far as git can tell; every overlap is found |
| Ledger (`ledger.ts`) | rows | append, totals, ceiling | runner, acts | unmeasured rows | totals add up |
| Transport (`transport.ts`, `envelope.ts`) | broadcast files | publish, poll, ack, claim | runner | several processes number alike | losing a broadcast loses no work |
| Charter (`charter.ts`), protocols (`protocol*.ts`), templates | none | parse, validate, lint, render | init | eight cross-field rules | an inconsistent Charter is refused |
| Projection (`projection.ts`, `providers/`) | none | project an act to a host | network | failure must not undo the act | both outcomes recorded |
| Capability, doctor, containment, SCM probes | none | compare, probe, scan | init, runner | none of order | not modelled |

`PROJECT.json` lists them with their status, and under `hazards` the places where
the code is hard to test, each with the properties that watch it, or with the reason
why none does.

## The modules

| Module | Models |
|---|---|
| `Hansard` | the entries and every question asked of the record: `seatOf`, `votesFor`, `divisionDecided`, the resolution rules, the cull, the capture threshold |
| `House` | a session as a command finds it: `charter`, `state`, `suspension`, `hansard`; `Init` (Writ Drop) and the two things a command may do, `Enters` entries and `Becomes` a state |
| `Division` | `division call / vote / tally / break`, `assent`, `actor veto` |
| `Bench` | `actor hire / promote / demote / exit / spawn`, `dispute`, `reinstate` |
| `Governance` | `escalate`, `rule`, `crisis file / review`, `heartbeat --suspend`, `resume`, `snapshot`, `prorogue`, `challenge` |
| `Session` | all of them: `Next`, and the properties of the sitting as a whole |
| `Election` | the lockfile of a constituency: `standForElection`, `inspectLock`, `bowOut` as steps on the file system, the stale window, and processes that are killed |
| `Turn` | `runTurn`: seat, read, work, retry, write the record, write the state; composed with `Governance` and implementing `Election` |
| `Floor` | the working tree: what agents edit and commit, `filesTouched`, `commitRecord`, and `conflict check / resolve` on the reports |
| `ActWrites` | one act as the writes of its handler: record, state, ledger, projection, commit, signature, each of which may be the last |
| `SharedRecord` | the abstract promise of a shared session: one record that only grows, by one or several acts at a time, each lawful where it stands and new |
| `SharedSync` | `withSync` on several clones, with the write and the commit of an act as steps of their own, turns that fail, `cascade`, `sync`, reads, and `confirm` / `reject` of staged rulings; implements `SharedRecord` |
| `Tournament` | `pair`, `match report`, `standings` and a contestant's exit, on top of `Bench` |
| `Federation` | `buildTree`, `detectCascades`, the `cascade` command and `resolveInheritance`, over several sessions |
| `MC...` | the instances TLC checks, one per component |
| `HansardProofs` | what the proofs share: lemmas about the record, and two about the naturals (induction, and that recursions exist) |
| `SessionProofs` | the theorems about `Session`: what state and record say of each other, and that each entry was due when it was made |
| `TurnProofs`, `FloorProofs`, `WritesProofs`, `SharedProofs` | the theorems about `Election` and `Turn`, `Floor`, `ActWrites` and `SharedSync` |
| `FederationProofs`, `TournamentProofs` | the theorems about `Federation` and `Tournament` |

Variables and code: `charter` is `CHARTER.md` (constant: `charterIsIntact` refuses
to act under an altered one), `state` and `suspension` are `STATE.json`'s `state`
and `suspension.cause`, `hansard` is `HANSARD.md`. One action is one successful
command, from its guards to its last write; a refused command changes nothing and
is no step. Names are those of the code (`Call` is `callDivision`, `Break` is
`breakDeadlock`, `MarkStale` is `markStale`).

What is abstracted:

- An entry keeps the fields some reader looks at. Timestamps, bodies, reasons and
  the declaring actor are left out where nothing reads them back. The `PROJECTION`
  entry follows the act it belongs to; which result it reports is text.
- The role a command is called with is a claim the code takes as given: it is an
  input (`\E role \in Roles`) checked where the code checks it.
- The clock is not modelled: `MarkStale` may come at any time, as any act may come
  as late as it likes.
- The capture threshold is in hundredths; the code multiplies a float.
- The ruling of a crisis review is any text (`cli.ts:1590` validates nothing): UPHELD,
  DISMISSED, and one value for all others, which the code treats as DISMISSED.
- A command is one step. That is what one process at a time does. A turn (`Turn`) is a
  step for each of its reads and writes; the order of the writes of the other commands
  is `ActWrites`, clones that race are `SharedSync`.

In `Election`, `lock` is the lockfile: who created it (`by`), whether the holder is in
it yet (`written`: `createExclusive` opens the file and then writes it) and whether the
hour of the stale window is over (`old`). `step` is where each turn's process is.
`Create` and `CreateFails` are the two outcomes of `createExclusive`, `Inspect` is
`inspectLock`, `Reclaim` the removal that follows it, `BowOut` and `Release` the read
and the removal of `bowOut`. Turns are told apart, their actors (`RunBy`) are what
`bowOut` compares. A process is killed by `Dies`, which also stands for a failure
nothing catches (a lockfile that cannot be written).

In `Turn`, `kept` is the record as the turn read it, `report` the entries it will add,
`suspends` whether it found a breach or an escalation file. `WriteRecord` writes
`kept` followed by `report`, `WriteState` writes CONVENED or SUSPENDED, whatever the
files have become meanwhile; that is what the code does. The commands beside it are
those of `Governance`. The ledger row and the prompt are left out, as is the commit (the
files are the state). The slots of an envelope are not modelled: nothing reads them
again in the process that has them.

In `Floor` files are numbers in the order of `git status`, and `Cut(f)` is the name of `f`
without its first letter, which is what `dirtyFiles` makes of the first line when that
is an unstaged modification: `git()` trims the output as a whole, and three characters
are then taken off. Files have contents in the working tree, in git's index and in HEAD
(`tree`, `index`, `head`), so that `git diff` compares two endpoints: an edit that was
committed and reverted is in neither. Every question a runner asks git is a step, and
other turns and commands go on in between: `Start` reads the record, `AsksBefore` HEAD,
`ListsBefore` the status; when the agent has exited, `AsksAfter` is `rev-parse` and the
diff of the two commits (whose answer no later commit changes), `ListsAfter` the second
status, `Ends` the write of the record and `Commit` its commit, which takes along whatever
is staged. `turn[t]` is what a turn has in memory, `done[t]` what really happened to it: what
it found dirty, what its agent edited, what others changed or committed while it was
watched (`crossed`), what is again as it was (`undone`). The properties compare with it; no
action reads it but for the bound on edits. An agent is external: it edits files, stages and
commits them. It renames nothing. A turn's unit of work is actor and time; two turns of
one actor in one second, which the code merges, are not modelled. The session is a
repository of its own (in a larger one git names files from *its* root, see below). The
record's files are one, `HansardFile`, and each write of it is new content, as each entry
has its time (`Stamp`).

In `ActWrites`, `Script` is the order of writes of each handler, read off `cli.ts`: a
prorogation logs, then writes the state, then the record; a sealing tally writes the state
first; a crisis that captures commits twice. `doc` is the document the handler holds in
memory and writes again with the projection's result. `head` is the last commit. What a
killed act leaves is not repaired (nothing in the code does) and the next act reads it.
`owed` are the confirmed acts of a session whose Charter requires signatures. `ledgerAt`
is where the Charter has its ledger: at one of the two paths `commitAct` names, at a path
of its own, which is then neither committed nor put back (`WithLedgerOf`), or disabled.

In `SharedSync`, `record` and `staged` are the remote's branch and pending refs, `local` and
`mine` those of each clone, `tree` is each clone's `HANSARD.md`, `step` and `job` the command
under way. `DoAct` writes the file and `CommitAct` commits the file *as it is*; between and
beside them entries may be left uncommitted: by a turn that failed (`FailTurn`: `runTurn`
writes its entry, HEAD does not move, nothing is pushed) and by a kill. The next commit of
that clone takes them along and shares them, and the discard after a lost race throws them
away with it. `Cascade` is dispatched without `withSync` (`UNGUARDED_COMMANDS`): each alert is
written and committed where the clone stands. So a clone may be several acts ahead,
and one push may share several. Kinds of act: one that is never repeated (a turn:
`NOT_RETRIED`), that turn failed, one that suspends, one that resumes, and the alerts, which are
told apart by signature; so an act may be lawful on one record and not on the one it is
redone on. Every exchange with the remote may be lost before it arrives or have its
answer lost after; a process may be killed anywhere. A clone runs one command at a time.
The rebase of `politik sync` on a diverged clone is taken to conflict always, because both
sides appended to the same file; enabling a remote is not modelled.

In `Tournament` actors are numbers, in the order of their names, which breaks ties. Games
and results are entries; `matches` and `standings` are two readers that share no code in
the program and share none here. Two match identifiers that collide because a name
contains the separator, a contestant called `bye`, and the ranking by survival are left
out. `knockout` is a history variable of the properties.

In `Federation` a session is reduced to what the tree reads of it. `parentOf` is where its
Charter's `inherits_from` leads: to a session, to itself, round in a circle, or `Outside`.
The depth-first walk of `buildTree` is a list of calls still to come: `visited` is one call,
which may put a session on the list and its children before the other calls, and
`visits` the list after each. `Lineage` is what `depthOf` walks along.
Days are the clock. `NoLimit` is the ceiling of who declares none. `tightened` covers the
fields the properties compare.

Faulty variants of definitions, marked `Faulty:`, stand before the definitions they
vary. They are used by no behaviour: each shows that a property notices the bug.

## The runs

Fairness. Nothing obliges anybody to give a command or to start a turn, so no action of
a command is fair. One run, `election`, checks a liveness property, under weak fairness of
the further steps of a turn under way (`ElectionSpec`): a process that is running
goes on, its agent's work ends because `spawnAgent`'s timer ends the agent (10 minutes by
default; a user who passes `--timeout 0` gives that up) and retries are bounded, and
a process that is killed is `dead`, which ends it. `CHECK_DEADLOCK` is
`FALSE`: a sitting may stop for good (an `INVALID` session, a prorogued one), and the
bound on the record stops every behaviour.

Bounds: `MaxEntries` is the length of the record, `MaxRepeats` the number of entries
of the kinds no guard limits (vetoes, committees, snapshots, challenges: they only
lengthen the record; a second one of a kind meets the same guards as the first),
`SeatRoles` the roles named as a seat. Actors and Motions are model values and
symmetric: every definition treats them alike.

| Run | Instance | Distinct states | Shows |
|---|---|---|---|
| `divisions` | `DivisionNext`, 3 actors of whom 2 or 3 are seated, 1 Motion, 5 Charters, 16 entries | 61,604 | `BallotIsSound`, `OutcomeRecounts`, `AssentFollowsTheHouse`, `EndsOnTime`, `CullIsExact` |
| `bench` | `BenchNext` from an empty bench, 2 actors, 3 seat roles with `AUTHORITY`, 8 entries | 120,083 | `SeatEntriesAreTrue`, `NoAuthoritySeat` |
| `sitting` | the whole `Next`, 2 actors, 2 Motions, 14 entries, of which 9 to 12 are there at the start, a Charter with every power enabled | 137,490 | `WellFormed`, `StateMatchesRecord`, `BusinessWhileConvened`, `CaptureNeedsItsFilers`, `ResumedByItsAnswer`, `NoDeadEnd`, `DeadlockIsTie`, `DecidedAgainOnlyInDeadlock` |
| `election` | `ElectionSpec`, 3 turns of 2 actors, locks left by earlier turns, turns that outlast the stale window | 7,887 | `LockIsAccountedFor`, `ContestHasAWinner`, `EveryTurnEnds` |
| `turns` | `TurnSpec`, 2 turns, 2 attempts each, beside the commands of `Governance` | 566,870 | `RetriesAreReported`, `ImplementsElection` |
| `floor` | `FloorSpec`, 2 turns (symmetric), 3 files, 1 edit each, 2 acts beside them | 1.27 million | `WorkIsReported`, `AccusedNotForNothing`, `EveryOverlapIsFound` |
| `writes` | `WritesSpec`, 4 acts of 7 kinds, each confirmed or not, 3 places of the ledger, cut short anywhere | 4.59 million | `ReportsHold`, `CommittedIsKept`, `DisagreesOnlyIfCut`, `UnsignedOnlyIfCut` |
| `shared` | `SharedSpec`, 2 clones, one of them the Speaker's, 2 alerts, 3 commands, 2 attempts | 887,734 | `VerdictsHold`, `OneActLeftBehind`, `NoStagedActVanishes`, `ImplementsSharedRecord` |
| `tournament` | 3 or 4 contestants, 3 formats, series of 1 and 3, 2 seed orders, 6 events | 77,629 | `SeriesIsWon`, `TableAgreesWithMatches`, `RoundIsFair`, `KnockoutHasChampion` |
| `federation` | 5 sessions, 67 trees, 6 Charters, 2 causes, 3 days, 4 commands | 112,608 | `TreeIsWhole`, `AlertsAreTrue`, `EveryParentIsWarned`, `NothingOverridesUpward` |

Two runs, `erased` and `contested`, each check a sentence that a document or a comment of
the repository says of the program, and expect TLC to find it violated by what the code
does. Thirteen configurations more do the same for other sentences (`tlc -config Assent.cfg
MCDivision`, and so on): they are kept beside the code and reproduce a finding,
but are not among the runs of `PROJECT.json`. Each is the subject of a finding
below; next to it stands, where there is one, the weaker property that does hold.

| Configuration | Instance | The sentence | What holds |
|---|---|---|---|
| `Erased.cfg` | as `turns` | `HansardIsAppendOnly`: the record "cannot be edited" | |
| `Assent.cfg` | as `divisions` | `AssentNeedsDivision`: an Assent follows a Division that carried | `AssentFollowsTheHouse` |
| `Culled.cfg` | as `divisions` | `LosersAreCulled`: the losing side is removed | `CullIsExact` |
| `Overridden.cfg` | as `divisions`, 2 actors and 2 Motions | `HouseDecisionStands`: no casting vote on what the House decided | `DecidedAgainOnlyInDeadlock` |
| `Misruled.cfg` | as `sitting` | `OnlyDismissedResumes`: only DISMISSED lifts a crisis | `ResumedByItsAnswer` |
| `Displaced.cfg` | as `sitting` | `CrisisNeedsReview`: no resumption without review | `ResumedByItsAnswer` |
| `Upheld.cfg` | as `sitting` | `UpheldDoesNotResume`: an upheld crisis ends the proceeding | `NoDeadEnd` |
| `Contested.cfg` | as `election`, no turn outlasts its lock | `OneTurnElected`: one living turn in office | `LockIsAccountedFor` |
| `Released.cfg` | as `contested` | `OnlyTheHolderReleases`: a bow-out removes no other's lock | `LockIsAccountedFor` |
| `Apart.cfg` | as `shared` | `OneUnsharedAct`: at most one act ahead of the shared record | `OneActLeftBehind` |
| `Forgotten.cfg` | as `shared` | `FailuresAreRecorded`: "the failure is on the record" | `VerdictsHold` |
| `Lingering.cfg` | as `shared` | `DecidedIsNotPending`: a decided act is pending nowhere | `NoStagedActVanishes` |
| `Unledgered.cfg` | as `writes` | `RowIsCommitted`: the commit includes the ledger row | `ReportsHold` |
| `Unwarned.cfg` | one family of `federation` | `EveryCauseIsWarned`: each repeated cause is on the parent | `EveryParentIsWarned` |
| `Missed.cfg` | as `floor` | `NothingIsMissed`: what the agent touched is reported | `WorkIsReported` |

Why the bounds are enough. In `divisions` the bound on the record is above what the
behaviours need (no behaviour is cut): every ballot of three under majority,
supermajority and unanimity, with a tie, a failed quorum, a cull of one that leaves
one seat or two, a veto before, between and after, and a casting vote.
One Charter culls under unanimity, where the larger side may lose. `bench` needs
hire, move, exit, dispute and reinstatement of one actor with another one beside: 8
entries hold that whole round and the beginning of a second, or a hiring between a
dispute and its ruling. `sitting` starts where something can happen: one Motion was carried (so that it
may be assented to, vetoed, or named by a casting vote), and then a Division was called or a
member removed, or a Division is deadlocked, after a removal or after another Motion was
carried. Getting there costs nine entries and more; the two to five that follow hold a
suspension, a second one that displaces or follows it, and what resumes them, or a casting
vote on the wrong Motion. A session never opened is followed for six acts (`MCRoom`). Those
starts are states hire, exit, call, vote and tally reach; the theorems below do not use them.

`election` needs a turn whose lock is taken, one that takes it and one that comes after:
three turns, two of them of one actor so that `bowOut` mistakes one for the other. `turns` needs
two (the lock is one, the record is one), an attempt that is retried and one that is not,
and a command that changes the state between a turn's read and its writes; the record has
room for one entry beside what turns write, so a heartbeat, a crisis filing or a
prorogation fits (`erased` has room for a Point of Order too). The
longer interleavings of the lockfile are those of `election`, which `turns` implements.

`floor` needs two turns that overlap, each of whose questions to git may fall between any
two of the other's, a record file between two others so that trimming meets it and does
not, one file git does not know, and two acts: a check, and a resolution or a second check.
A configuration beside it, `Overlaps.cfg`, which passes too, has three turns, one of whose
reports stands between those of two others or is overwritten by them; that needs no edits,
for the record's own file is what their reports share. `writes` has four acts so that a
filing, its ruling and a seal can each be cut short and be followed by one that commits
what is left; the six writes of the longest script are all there. `shared` needs a race (two
clones), an act that is staged, one that overtakes it and the confirmation: three
commands. They are also enough for a turn that fails, an act that takes its entry along and
one that wins the race against both, and for a cascade of two alerts and an act after it. The program makes three attempts; two show what a discarded one leaves.
`tournament` holds a whole bracket of four, a series of three games that goes to the
last one, a second round numbered like the first, a leaver in mid-round, and fields
that decided a Division before. `federation` works in three trees (two families one
below the other, a pair that inherit from each other, one that names itself), from a
quiet day and from one on which all but the first are suspended, so that a `cascade` that
is killed between two findings has one to follow it, and
also looks at every way three sessions can point to one another and every way a chain
of three can choose its Charters, where nothing needs to happen.

The Charters differ in every mechanic the code reads: a parliament (majority), a
battle royale (`elimination`, `last-standing`), a jury (`unanimity`, `verdict`, a
domain veto), a council (`supermajority`, Assent by a DELEGATE), and factions (`elimination`
under `unanimity`).

### What the code does otherwise than it says

Met while modelling; every definition follows the code. Each is quoted with its
place under `findings` in `PROJECT.json`. Where a run or a configuration is named, TLC shows it.

- **Records written over.** `runTurn` writes the record it read before the agent worked
  (`runner.ts:465`, run `erased`): what was recorded meanwhile is gone. README: "append-only
  session record ... Cannot be edited". A gated command does the same while the Speaker types
  (`cli.ts:1472`).
- **Assent** tallies afresh under plain majority and asks no outcome (`cli.ts:1465`,
  `Assent.cfg`): an open Division is enacted, and one rejected under unanimity. ADR-0004 calls
  such an Assent invalid.
- **A casting vote** is tallied under the Charter's rule (`division.ts:591`): under
  unanimity a tie holds a NO, and a vote to carry rejects. `division.ts:551`: "The
  casting vote decides the Motion". It may be given on any Motion, one that the House has
  decided too (`division.ts:572`, `Overridden.cfg`): "so a casting vote can never override a
  Division the House did decide".
- **The cull** unseats the smaller side, also where it won (`division.ts:213`, `Culled.cfg`):
  the NOes of a Motion that unanimity rejected. The comment names "the losing side", and
  then "the minority".
- **A crisis.** `--ruling` takes any text and all but UPHELD resumes (`crisis.ts:343`,
  `Misruled.cfg`): "Only DISMISSED resumes". An upheld crisis can be reviewed again and be
  dismissed (`crisis.ts:331`, `Upheld.cfg`): "this proceeding does not resume".
- **A disputed exit** asks nothing of the state (`actors.ts:574`): it reopens a prorogued
  session, and it replaces a constitutional crisis as the cause, whose review then never
  comes (`Displaced.cfg`).
- **The lockfile** is unreadable between its creation and its writing (`lockfs.ts:38`): a
  second turn takes it for corrupt, removes it and is elected beside the first
  (`election.ts:140`, run `contested`). `bowOut` reads the holder and then removes the file
  (`election.ts:175`, `Released.cfg`): if its lock was reclaimed in between it removes the
  new one. "Only the holding agent may release".
- **What a turn touched.** What somebody else commits between the runner's `git diff` and its
  `git status` is in neither (`runner.ts:158`, `Missed.cfg`), and other turns' work is put
  down to this one. The trimmed first line of `git status` hides an agent's edit of
  `HANSARD.md` (`runner.ts:125`); in a larger repository no path matches the record's
  names or `escalations/` at all (`runner.ts:388`); a commit of the record takes along what
  an agent had staged (`git.ts:91`).
- **A failing turn** says it is on the record, and is written and not committed
  (`cli.ts:2276`, `Forgotten.cfg`): the next commit takes its entry along, and if that one is
  overtaken both are discarded and only the act is done again.
- **Shared and confirmed acts.** `cascade` runs outside `withSync` and commits once per
  finding (`cli.ts:1070`, `Apart.cfg`), where ADR-0011 has every governance command fetch,
  act and push. The push that deletes a pending ref may fail unnoticed and the act comes
  back (`remote.ts:273`, `Lingering.cfg`); a confirmed act whose commit was cut short is
  committed unsigned by the next (`cli.ts:1186`); a ledger at a path of the Charter's own
  is never committed (`cli.ts:1184`, `Unledgered.cfg`).
- **The tree.** No command applies inheritance (`tree.ts:48`); `tightened` names what the
  parent tightened (`tree.ts:90`); a second cascading cause is not recorded while the
  first lasts (`tree.ts:252`, `Unwarned.cfg`).
- **Counters and ceilings.** A broadcast is always number 1 (`transport.ts:104`), slots are
  never used up (`runner.ts:487`), the cost ceiling is never asked (`cli.ts:2485`), a row
  with a bar in it is left out of the totals (`ledger.ts:287`).
- **Conflict check** prints the count of before, and reopens what was resolved
  (`cli.ts:2025`). `pair` and `match report` write to a sealed record (`cli.ts:2610`).

Seen while modelling, and modelled as the code does it, without a run of their own:
`breakDeadlock` neither culls nor seals. A tally, a challenge, a crisis filing and a dispute
append to a sealed record (`cli.ts:1661` refuses it for snapshots only).
`reinstate` rules for any subject who ever disputed an exit, and with UPHELD seats them
in the seat of their last exit even when they sit again already. A dismissed filing
still counts towards the next capture (`crisis.ts:183`). A staged ruling may answer a later
Point of Order than the one the Speaker saw (`cli.ts:694`).

`turns` reaches the same fault of a turn's state as of its record: `WriteState` convenes
a session that was suspended or prorogued while the agent worked (`runner.ts:516`).

## The proofs

`tlapm` proves, for every set of actors and Motions, every set of Charters and every
bound, every set of turns and whoever runs them, any finite set of files, any number of
acts, clones and attempts, any finite set of sessions with any pointers between them, any
finite field of contestants:

| Module | Theorem | States |
|---|---|---|
| `SessionProofs` | `SessionWellFormed` | `Spec => []WellFormed` |
| | `SessionMatchesRecord` | `Spec => []StateMatchesRecord` |
| | `SessionConvenedForBusiness` | `Spec => []BusinessWhileConvened` |
| | `SpeakerHoldsNoSeat` | `Spec => []NoAuthoritySeat` |
| | `SuspensionsAreAnswered` | `Spec => ResumedByItsAnswer` |
| | `BallotsAreSound` | `Spec => []BallotIsSound` |
| | `OutcomesAlwaysRecount` | `Spec => []OutcomeRecounts` |
| | `DecisionsStand` | `Spec => []DecidedAgainOnlyInDeadlock` |
| | `DeadlocksCanBeBroken` | `Spec => []DeadlockIsTie` |
| | `AssentsFollowTheHouse` | `Spec => []AssentFollowsTheHouse` |
| | `CaptureStandsOnFilers` | `Spec => []CaptureNeedsItsFilers` |
| | `SeatEntriesAlwaysTrue` | `Spec => []SeatEntriesAreTrue` |
| | `CullsAreExact` | `Spec => CullIsExact` |
| | `SittingEndsOnTime` | `DivisionSpec => []EndsOnTime` |
| `TurnProofs` | `NoLockLeftBehind` | `ElectionSafety => []LockIsAccountedFor` |
| | `EveryContestHasAWinner` | `ElectionSafety => []ContestHasAWinner` |
| | `TurnImplementsElection` | `TurnSpec => ImplementsElection` |
| | `RetriesAreAlwaysReported` | `TurnSpec => []RetriesAreReported` |
| `FloorProofs` | `FloorInvariance` | `FloorSpec => []FloorInv` |
| | `WorkIsAlwaysReported` | `FloorSpec => []WorkIsReported` |
| | `NobodyAccusedForNothing` | `FloorSpec => []AccusedNotForNothing` |
| | `OverlapsAreAlwaysFound` | `FloorSpec => EveryOverlapIsFound` |
| `WritesProofs` | `WritesInvariance` | `WritesSpec => []WritesInv` |
| | `CommittedIsAlwaysKept` | `WritesSpec => CommittedIsKept` |
| | `ReportsAlwaysHold` | `WritesSpec => []ReportsHold` |
| | `DisagreementIsOfACut` | `WritesSpec => []DisagreesOnlyIfCut` |
| | `UnsignedIsOfACut` | `WritesSpec => []UnsignedOnlyIfCut` |
| `SharedProofs` | `SharedInvariance` | `SharedSpec => []SharedInv` |
| | `VerdictsAlwaysHold` | `SharedSpec => []VerdictsHold` |
| | `OneActIsLeftBehind` | `SharedSpec => []OneActLeftBehind` |
| | `NoStagedActEverVanishes` | `SharedSpec => []NoStagedActVanishes` |
| | `SharedImplementsRecord` | `SharedSpec => ImplementsSharedRecord` |
| `FederationProofs` | `TreeIsAlwaysWhole` | `FederationSpec => []TreeIsWhole` |
| | `AlertsAreAlwaysTrue` | `FederationSpec => []AlertsAreTrue` |
| | `ParentsAreAlwaysWarned` | `FederationSpec => EveryParentIsWarned` |
| | `NothingEverOverridesUpward` | `FederationSpec => []NothingOverridesUpward` |
| `TournamentProofs` | `EventIsSound` | `TournamentSpec => []SoundEvent` |
| | `SeriesSafe` | `TournamentSpec => []SeriesIsWon` |
| | `RoundsAreFair` | `TournamentSpec => RoundIsFair` |
| | `ReadersAgree` | `TournamentSpec => []TableAgreesWithMatches` |
| | `EventIsInvariant` | `TournamentSpec => []EventInv` |
| | `ChampionIsFound` | `TournamentSpec => []KnockoutHasChampion` |

The assumptions are the `ASSUME`s of the modules: what a Charter is, that the bounds and
`auto_retry_max` are naturals, that the seats named are roles, that the files, the
sessions and the contestants are finite sets of numbers (in the order of their names), that the
ceilings of a tree are at most `NoLimit`, that an event begins on a record without matches
(`Openings`), that a series is of an odd number of games (`cmdPair` refuses others), and
that the values which stand for nothing (the missing
lockfile, the earlier turn, no act under way) are told apart from what they stand
against. Every inductive invariant was checked by TLC on the instance of its run
before it was proved.

**A session: what state and record say of each other.** A command appends a list of
entries. Call the list *lawful* when every
entry is typed, every floor entry finds the House convened as the record has it by
then, a dispute follows an exit, no seating or exit names AUTHORITY, and the new state
is the one the last state-bearing entry leaves (`Lawful` in `SessionProofs`). One lemma
per component shows that each of its commands appends a lawful list
(`DivisionIsLawful`, `BenchIsLawful`, `GovernanceIsLawful`); one lemma, that lawful
lists preserve the invariant (`LawfulPreservesInv`). So a proof about a command never
looks at the whole record, and the proof about the record never looks at a command.

The invariant `Inv` is `WellFormed`, `StateMatchesRecord` and `BusinessWhileConvened`
strengthened by two facts they need: `DisputesFollowExits` (an exit ruling reads the
seat of the subject's last exit, so there must be one: otherwise `LastExit` is the
`CHOOSE` of an empty set and the entry is untyped) and `SpeakerUnseated` (no seating
and no exit on the record is of AUTHORITY: otherwise a reinstatement could put
AUTHORITY back). `BusinessWhileConvened` is inductive only with `StateMatchesRecord`:
the guards read `STATE.json`, the property reads the record. `ResumedByItsAnswer` is an
action property: each command that changes the state enters what answers the cause it
found, and the type of `suspension` in `Inv` says which causes there are to find.

`HansardProofs` holds the lemmas about the record they rest on: the latest position of
a finite non-empty set, what a cull's list of exits contains, and that appending
neutral entries changes nothing of what a record says of the sitting
(`NeutralEntriesSayNothing`) while a state-bearing one overrides it
(`EntriesOverrideRecord`).

**A session: that entries were due.** The six properties of ballots, outcomes, Assent and
capture look at whole records, and count. Their proof is split like the one before.
`IsDue` says what a command may enter: one entry its guards allow, followed by nothing
these properties ask about (`Plainly`); a casting vote and at once its outcome
(`Breaking`); a filing and the capture it brings about (`Capturing`). `NextIsDue` shows it
command by command; then each conjunct of `DueInv` is preserved by the three forms alone.
`DueInv` adds four facts to the properties: a Division is called once (`CalledOnce`), a
vote is cast after its call and before any outcome, once a voter (`VotesAreDue`), a
casting vote decides its Motion (`CastsDecide`), and an actor files one crisis
(`FiledOnce`). The last is why the filers of a capture are so many
*people*: `CaptureNeedsItsFilers` is not inductive without it. `AssentFollowsTheHouse` looks back: by
`OutcomeRecounts` the last outcome is what a count of the votes gives today, and by a
majority that is what Assent counts itself. `DecidedAgainOnlyInDeadlock` takes `DeadlockIsTie`:
the tied Motion is undecided, so it is another one than a decided one that a casting vote
names. `OutcomeRecounts` holds
because no vote follows an outcome but a casting vote, whose outcome follows at once;
`DeadlockIsTie`, because the only entries that change a tie are votes, which need the
floor, and a casting vote, which ends the deadlock.

**The register of seats.** `SeatEntriesAreTrue` reads the seat an entry found off the register
that `seats()` builds entry by entry (`Replay`). The proofs use `SeatBy`, the seat by the latest
entry about it up to a position. It satisfies the equation of the replay (`SeatByIsReplayed`);
two functions that do are equal, since from the latest position at which they agree the
equation takes them one further (`ReplayedOnce`). So the replay, which is the function
`CHOOSE`n for that equation, is `SeatBy` (`ReplayIsSeatBy`), with no induction over the record.

A command *enters truly* (`EntersTruly`): at most one entry about
the seat of each actor, for the seat that actor then has. That is read off the guards of
every command but one. `tally` turns out the voters of the smaller side, vote by vote; a
voter found twice would leave a seat already left. No voter is (`NobodyIsCulledTwice`),
which takes both `VotesAreDue` and `CastsDecide`: a Motion still open has no casting vote
on it and no second ordinary vote of anyone.

**Culls and the end of a sitting.** What a step of a Division enters has one of three forms
(`DivisionActs`): nothing that unseats anybody (`Quietly`), a casting vote and its outcome
(`BreaksTie`), or the outcome of a tally, the exits of its cull and perhaps the seal (`Tallies`).
None of them hires, so who sits afterwards is read off the exits alone (`SeatedAfter`).
`CullsAreExact` needs `DueInv` for that: as no voter is culled twice, there are as many exits as
people unseated (`ExitsEntered`), and they are the smaller side (`MinorityIsCulled`), in a
deadlock as at any other time; a casting vote unseats nobody. Hence
it is a theorem of `Spec`, about whichever of its steps are of a Division. `EndsOnTime` is
one of `DivisionSpec`: under `Spec` a member may leave, or be hired, between two Divisions,
and nothing seals the sitting then. `DivisionSpec` starts from any record of seats taken
(`SeatsTaken`; the start of `MCDivision` is one). A tally asks whether to seal by reading
the record its exits leave, and that is what the property reads (`TimelyStep`).

**The lockfile.** `LockIsAccountedFor` is inductive only with `LockIsWritten`: a
lock whose holder is not in it is being written or its turn is dead. Otherwise a turn
that bows out could take its own unwritten lock for another's and leave it. That turns
of one actor remove each other's locks does no harm to the property: a removed lock
is accounted for. `ContestHasAWinner` needs two facts more: a lock an earlier turn left,
if its holder is in it, is old, so nobody defers to it, and whoever removes it removes it
for good (`EarlierIsReclaimable`); and once a turn has deferred, some turn has taken
office or died trying (`DefersToAnOffice`).

**A turn.** `TurnImplementsElection` maps the steps in which a turn serves
(`working`, `recording`, `stating`) to `elected`: reading, working and writing the
record are stutters of the election, writing the state and throwing are its `Finish`,
and the commands beside the turn do not touch the lock. With it, what is proved and
checked of `Election` is so of `politik run` (safety; fairness of the turn's own steps
is assumed for `Election` alone). `RetriesAreReported` rests on `ReportInv`: while an agent
works, the report is the faults of the attempts that failed, fewer than the attempts
allowed, and whatever ends the turn comes after them. The first attempt at this proof
failed for a reason: the bound was stated as `auto_retry_max` + 1 faults, which is
false at `auto_retry_max` = 0, a value `charter.ts:412` admits. `runTurn` always makes one
attempt, and one that fails reports two entries. `MostAttempts` says so now.

**The working tree.** Between the questions a runner asks git, others go on; so `FloorInv` says
of each turn what the answers it has got, and those it will get, are about. All of it is said
of the files nobody else changed or committed since (`Alone`). After the first question HEAD is
what the turn read (`Based`). While the agent works, a file that was clean when the turn looked
and that the agent did not edit is in the tree, the index and HEAD what it was (`Untouched`),
and what the first status listed was found dirty (`Listed`). After the diff, what it names is
what HEAD has otherwise than before, *and still has*, as nobody else commits such a file
(`Compared`). So at the second status an edited file is named by the diff, or HEAD has it as
it was, and then the tree has not, or the edit is undone, and git status names it
(`ReportIsTrue`). `CutIsNoFile` covers the trimmed line: a name without its first letter is no
other file's.

`EveryOverlapIsFound` is about a record that turns overwrite with older copies. `RecordInv`
says that the record, and each copy a turn at work will write back, is `Sound`: a conflict on it
is between turns that share a file on it (`Traced`). A copy was the record once, so it is; and
what is added to either only adds shares (`SoundGrows`). That a check misses no overlap,
and says "no conflicts" only where there is none, is about the loop within a loop: pairs of positions, listed in the order in which as many come
before each as its place says (`PlacesDiffer`, `PairsAreListed`, `OverlapsAreFound`).

**The writes of an act.** `WritesInv` says that the document in memory is the one on disk
(`InMemory`), that how far the act under way has come says what it has in the files
(`Progress`) and how state and record may disagree meanwhile (`Disagreement`), and that
all else which is in the files and not in HEAD is of acts cut short (`LooseIsCut`). It says of
ledger rows what `ledgerAt` allows: in the files unless no ledger is kept, in HEAD where the
commit knows the place (`Reported`).
`CommittedIsKept` is `InMemory` at two consecutive states.

**A shared session.** Git alone would let the branch become anything that extends it, and a
commit or a push takes along whatever is there. What makes the shared record sound is that
every file it can come from is: `Records` says that each clone's working tree is `Sound`
(each act lawful after those before it, and new), that its branch is a part of the tree, and that what
is in the tree and not shared is of that clone's own commands. An act is written only where
it is lawful in the *tree*, so however many entries the tree has that are not
committed, the longer tree is sound again (`SoundAppend`); and a push, which takes only a
branch that extends the remote's, then adds a series of acts each lawful where it stands
and new: a `Follow` of `SharedRecord` (`SoundFollows`). Every other step is a stutter of
it. `Fresh` says that an act under way is on no record before its attempt, and that
nobody was told of it; it makes the repetition after a lost race harmless, and `VerdictsHold` inductive: what was refused is never written
later. `UnderWay` says that an attempt which may be discarded starts from the branch it began with
(`Attempted`), and `LeftBehind` that whoever acts has shared what the callers were told is
recorded locally: so no discard takes back a verdict, and `OneActLeftBehind` follows. A
failed turn's entry is exempt, and is lost (`Forgotten.cfg`). `StagedKept` strengthens
`NoStagedActVanishes`: an attempt that may still be discarded does not count as the ruling
of a staged act.

**The tree of sessions.** `buildTree` is defined by recursion over the calls of its walk.
`Listing(o, c, k)` is what holds of the list `o` and the calls `c` still to come after `k` of
them: each call uses up one of twice as many as there are sessions (`Remaining`), every session
is listed or to come and none is listed twice (`Complete`, `Once`), until the last calls only
roots and their descendants are visited (`Led`, `Due`), a child comes after its parent
(`ParentsFirst`), and what the walk owes next to what stands next to it (`Adjoining`,
`WillAdjoin`). A session whose pointers lead to a root is seen before the calls that pick up
what is left (`RootedAreSeen`). `NothingOverridesUpward` goes up the `Lineage` one pointer at a
time: each Charter is at least as tight as what the one above resolved to. `FederationInv`
adds to `AlertsAreTrue` that each suspension in force is on the record of its session
(`SuspensionsAreFiled`); records only grow, so an alert that was true stays so.

**Tournaments.** `Sound` says what the two readers rely on: a bye and its result stand side
by side and any other result comes after the creation of its match (`Traced`), a match of two is
created once and decided once, its games before (`Single`), and a series is decided for whoever
has most of its games and only then (`MajorityDecides`). One lemma says what a record has once
entries follow it (`Joined`). A round enters several matches; that they may be entered is shown one
pairing at a time (`OneMoreEntered`, `RoundIsEntered`). `RoundIsFair` needs what the pairing
computes: the table is a strict order, so that each contestant has one place in it
(`IsOrder`), and the greedy draw keeps an invariant of who is placed and who is left (`Drawing`)
down to the last of them (`GreedyDraws`). For that the Buchholz sum of each must be a number,
by induction on how many results it adds up. `KnockoutHasChampion` is not inductive. `Bracket` is:
nobody has left, whoever plays is undefeated and plays one match, and for some `n` each
undefeated contestant has won `n` times, or `n` - 1 with a match still to play, and each beaten
one fewer than `n` times (`Level`). So once no match is open, the last undefeated has won more than anyone
and heads the table.

**Recursion.** The library's induction theorems cannot be used with these provers, since they take an
operator as a parameter. Two lemmas of `HansardProofs` replace them. `NatSetInduction`: a set of
naturals that has 0, and each successor, is `Nat`; it takes a *set*, so a statement is put as
the set of the numbers it holds of. `RecursionExists`: for any first value and step there is a function on `Nat`
that has them, so that the `CHOOSE` behind a recursive function picks one. Folds over a
sequence, the greedy draw, the flattening of a list of lists and the visits of the tree
are all reasoned about so.

### Only model-checked

- `EveryTurnEnds` is liveness, under the fairness of `Election` alone, and `NoDeadEnd` is
  about what is ENABLED: both out of the prover's reach.

Every other property of the passing runs is a theorem. The fifteen sentences of the
two other runs and of the configurations beside them are false.

## State of the project

Every safety property that a passing run checks, but `NoDeadEnd`, is proved for all values of the
constants. What would be worth adding is more model: the second process in one clone, the
rebase of `politik sync` that succeeds, and turns of one actor within one second.

## Not modelled

- Rendering, parsing and wording: `templates`, `protocol*`, the agents' argument lists and
  output, the text of entries. The record is a sequence of typed entries; that
  `parseEntries` reads back what `appendEntry` wrote is taken as given.
- The rules of one Charter, capabilities, the integrity review: pure functions of one
  document, with no order of steps to get wrong.
- `transport` and `envelope`: nothing authoritative reads the files; the two counters never
  pass one in the process that has them.
- Ledger totals: arithmetic on text. The ceiling they are for is asked by nobody.
- Calls to a hosting provider and probes of the host (`doctor`, `scm`): network and
  process I/O whose result is one entry, which is modelled.
- Of modelled parts: several processes in one clone, a rebase that succeeds, the local
  pending directory, quarantine and moves of scopes in the tree, survival ranking.

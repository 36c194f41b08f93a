----------------------------- MODULE Federation ----------------------------
(***************************************************************************)
(* A tree of sessions in one repository (ADR-0008): each directory holds a *)
(* session, and its Charter may name the directory it inherits from.  Here *)
(* are what the tree makes of those pointers (politik registry), the alert *)
(* that a cause of suspension repeats among siblings (politik cascade),    *)
(* and the Charter a session inherits.                                     *)
(*                                                                         *)
(* A session is reduced to what the tree reads of it: whether its sitting  *)
(* is suspended, for which cause and since when, and the entries of its    *)
(* record about that and about cascades.                                   *)
(***************************************************************************)
EXTENDS Integers, Sequences, SequencesExt, FiniteSetsExt

CONSTANTS Nodes,       \* the directories, numbered in the order of their names
          Causes,      \* the causes of a suspension
          Trigger,     \* suspended siblings that make a cascade (two)
          Window,      \* days for which a suspension counts (thirty)
          Topologies,  \* the ways the Charters may point to one another
          Settings,    \* the Charters a session may declare
          NoLimit,     \* a ceiling declared null: nothing is above it
          MaxDay,      \* bound on the days that pass
          MaxActs      \* bound on the commands

Outside == 0           \* an inherits_from that leads to no session of the tree
\* What stands in suspension of a sitting that goes on.
Running == [cause |-> "none", since |-> 0]

\* What a Charter declares of what is inherited; cast is by role.
IsSetting(c) ==
  /\ c.quorum \in Nat /\ c.heartbeat \in Nat /\ c.escalation \in BOOLEAN
  /\ {c.maxCost, c.maxMotions, c.warning} \subseteq 0..NoLimit
  /\ c.cast \in [DOMAIN c.cast -> Nat]

ASSUME FederationAssumption ==
  /\ Nodes \subseteq Nat \ {Outside} /\ IsFiniteSet(Nodes)
  /\ NoLimit \in Nat /\ \A c \in Settings : IsSetting(c)
  /\ Trigger \in Nat \ {0}
  /\ Window \in Nat /\ MaxDay \in Nat /\ MaxActs \in Nat
  /\ Topologies \subseteq [Nodes -> Nodes \cup {Outside}]

VARIABLES
  parentOf,    \* where the Charter of each session points
  charterOf,   \* the settings it declares
  suspension,  \* its STATE.json: Running, or the cause and the day
  record,      \* its HANSARD.md
  day,         \* the clock
  acts         \* how many commands were given
federationVars == <<parentOf, charterOf, suspension, record, day, acts>>

Suspended(cause) == [type |-> "SUSPENDED", cause |-> cause, at |-> day]
Alert(signature, nodes) ==
  [type |-> "CASCADE_ALERT", signature |-> signature, nodes |-> nodes, at |-> day]

-----------------------------------------------------------------------------
(***************************************************************************)
(* buildTree(): a pointer out of the tree makes a root, and whatever no    *)
(* root leads to is listed all the same.                                   *)
(***************************************************************************)
\* The sessions of a set in the order of their names.
byName(S) ==
  [i \in 1..Cardinality(S) |-> CHOOSE n \in S : Cardinality({m \in S : m < n}) = i - 1]

children(n) == byName({m \in Nodes : parentOf[m] = n})
roots == byName({n \in Nodes : parentOf[n] = Outside})

\* The session and all it descends from, however the pointers run.
Lineage(n) ==
  {m \in Nodes : \A S \in SUBSET Nodes :
     (n \in S /\ \A x \in S : parentOf[x] # Outside => parentOf[x] \in S) => m \in S}

depthOf(n) == Cardinality({m \in Lineage(n) : parentOf[m] # Outside})

\* One call of visit: a session not on the list is put there, and its children are
\* visited before whatever else is to be.
visited(s) ==
  LET n == Head(s.calls)
  IN IF s.calls = <<>> THEN s
     ELSE IF n \in ToSet(s.ordered) THEN [s EXCEPT !.calls = Tail(s.calls)]
     ELSE [ordered |-> Append(s.ordered, n), calls |-> children(n) \o Tail(s.calls)]

\* The list after each call, the calls that buildTree itself makes being these.
visits(calls) ==
  LET after[k \in 0..(2 * Cardinality(Nodes))] ==
        IF k = 0 THEN [ordered |-> <<>>, calls |-> calls] ELSE visited(after[k - 1])
  IN after

\* Faulty: what no root leads to is forgotten.
rootedOnly == visits(roots)[2 * Cardinality(Nodes)].ordered

buildTree == visits(roots \o byName(Nodes))[2 * Cardinality(Nodes)].ordered

-----------------------------------------------------------------------------
(***************************************************************************)
(* detectCascades(), by checkCascade() over the suspended children of each *)
(* session: of the causes enough of them share, the one met first.         *)
(***************************************************************************)
recent(since) == day - since <= Window

faults(p) ==
  {m \in Nodes : parentOf[m] = p /\ suspension[m] # Running /\ recent(suspension[m].since)}
sharing(p, cause) == {m \in faults(p) : suspension[m].cause = cause}

\* Faulty: one session more than the trigger is needed.
exceeds(p, cause) == Cardinality(sharing(p, cause)) > Trigger

cascades(p, cause) == Cardinality(sharing(p, cause)) >= Trigger

\* The children whose cause cascades; the first names the alert.
cascading(p) == {m \in faults(p) : cascades(p, suspension[m].cause)}
signature(p) == suspension[Min(cascading(p))].cause

\* Where in the list the sessions are under which a cause cascades.
findings(tree) == {i \in DOMAIN tree : cascading(tree[i]) # {}}

cascadeAlerts(h) == {h[k].signature : k \in {j \in DOMAIN h : h[j].type = "CASCADE_ALERT"}}

\* Faulty: the alert is recorded each time it is found.
recordsAgain(p) ==
  Append(record[p], Alert(signature(p), sharing(p, signature(p))))

\* cmdCascade's step for one finding: recorded once, on the parent.
recordOnNode(p) ==
  IF signature(p) \in cascadeAlerts(record[p]) THEN record[p]
  ELSE Append(record[p], Alert(signature(p), sharing(p, signature(p))))

-----------------------------------------------------------------------------
(***************************************************************************)
(* resolveInheritance(): "restrictions compound, nothing overrides         *)
(* upward".  It is the tree's rule; no command applies it.                 *)
(***************************************************************************)
Least(a, b) == IF a <= b THEN a ELSE b
Most(a, b) == IF a >= b THEN a ELSE b

\* Faulty: the ceiling of whoever declares one last.
childCeiling(parent, child) == IF child = NoLimit THEN parent ELSE child

tighterCeiling(parent, child) ==
  IF parent = NoLimit THEN child ELSE IF child = NoLimit THEN parent ELSE Least(parent, child)

resolveInheritance(p, c) ==
  [quorum |-> Most(p.quorum, c.quorum),
   escalation |-> p.escalation \/ c.escalation,
   maxCost |-> tighterCeiling(p.maxCost, c.maxCost),
   maxMotions |-> tighterCeiling(p.maxMotions, c.maxMotions),
   warning |-> tighterCeiling(p.warning, c.warning),
   heartbeat |-> Least(p.heartbeat, c.heartbeat),
   cast |-> [r \in DOMAIN p.cast \cup DOMAIN c.cast |->
               IF r \notin DOMAIN c.cast THEN p.cast[r]
               ELSE IF r \notin DOMAIN p.cast THEN c.cast[r] ELSE Most(p.cast[r], c.cast[r])],
   domainVeto |-> p.domainVeto \cup c.domainVeto,
   deadlineAction |-> c.deadlineAction]

\* What the resolution reports: what the child declared too loosely ...
violations(p, c) ==
  {f \in {"quorum"} : c.quorum < p.quorum}
    \cup {f \in {"escalation"} : p.escalation /\ ~c.escalation}
    \cup {f \in {"cast"} : \E r \in DOMAIN p.cast \cap DOMAIN c.cast : c.cast[r] < p.cast[r]}
\* ... and what it calls tightened.
tightened(p, c) ==
  {f \in {"quorum"} : c.quorum > p.quorum}
    \cup {f \in {"maxCost", "maxMotions", "heartbeat", "domainVeto"} :
            resolveInheritance(p, c)[f] # c[f]}

-----------------------------------------------------------------------------
(***************************************************************************)
(* The commands.                                                           *)
(***************************************************************************)
Acts == acts < MaxActs /\ acts' = acts + 1 /\ UNCHANGED <<parentOf, charterOf>>

\* A sitting is suspended, by a Point of Order or whatever else.
Suspend(n, cause) ==
  /\ Acts
  /\ suspension[n] = Running
  /\ suspension' = [suspension EXCEPT ![n] = [cause |-> cause, since |-> day]]
  /\ record' = [record EXCEPT ![n] = Append(@, Suspended(cause))]
  /\ UNCHANGED day

\* It is resumed by the act that answers the cause.
Resume(n) ==
  /\ Acts
  /\ suspension[n] # Running
  /\ suspension' = [suspension EXCEPT ![n] = Running]
  /\ record' = [record EXCEPT ![n] = Append(@, [type |-> "RESUMED"])]
  /\ UNCHANGED day

\* The first k sessions of the list under which a cause cascades.
firstFound(tree, k) ==
  {tree[i] : i \in {j \in findings(tree) : Cardinality(findings(tree) \cap 1..j) <= k}}

\* The findings are recorded and committed one after another: a process that is
\* killed has dealt with the first of them.
RecordFirst(k) ==
  \E dealt \in {firstFound(buildTree, k)} :
     record' = [p \in Nodes |-> IF p \in dealt THEN recordOnNode(p) ELSE record[p]]

Cascade ==
  /\ UNCHANGED <<suspension, day>>
  /\ Acts
  /\ RecordFirst(Cardinality(Nodes))

CascadeKilled(k) ==
  /\ UNCHANGED <<suspension, day>>
  /\ Acts
  /\ k < Cardinality(findings(buildTree))
  /\ RecordFirst(k)

Passes ==
  /\ day < MaxDay
  /\ day' = day + 1
  /\ UNCHANGED <<parentOf, charterOf, suspension, record, acts>>

FederationInit ==
  /\ parentOf \in Topologies
  /\ charterOf \in [Nodes -> Settings]
  /\ suspension = [n \in Nodes |-> Running]
  /\ record = [n \in Nodes |-> <<>>]
  /\ day = 0
  /\ acts = 0

FederationNext ==
  \/ \E n \in Nodes, cause \in Causes : Suspend(n, cause)
  \/ \E n \in Nodes : Resume(n)
  \/ Cascade
  \/ \E k \in 1..Cardinality(Nodes) : CascadeKilled(k)
  \/ Passes

FederationSpec == FederationInit /\ [][FederationNext]_federationVars

-----------------------------------------------------------------------------
(***************************************************************************)
(* Properties.                                                             *)
(***************************************************************************)
\* Is this list of the sessions the tree, every one there and in its place?
IsWhole(tree) ==
  LET place(n) == CHOOSE i \in DOMAIN tree : tree[i] = n
      rooted(n) == \E m \in Lineage(n) : parentOf[m] = Outside
  IN /\ Len(tree) = Cardinality(Nodes) /\ ToSet(tree) = Nodes
     /\ \A n \in Nodes : (rooted(n) /\ parentOf[n] # Outside) =>
          /\ place(parentOf[n]) < place(n)
          /\ \A i \in place(parentOf[n])..place(n) : parentOf[n] \in Lineage(tree[i])
          /\ depthOf(n) = depthOf(parentOf[n]) + 1

\* The registry shows the whole tree, whatever the pointers are (a cycle, a session
\* that names itself, a missing parent): every session once, one that descends from
\* a root after its parent and with only descendants of that parent in between, one
\* level deeper (buildTree, depthOf; rollUp counts what is listed).
TreeIsWhole == \A tree \in {buildTree} : IsWhole(tree)

\* An alert was true when it was given, and is given once: it names enough sessions,
\* all of them children of the one that records it, each with a suspension for that
\* cause on its own record, recent on the day of the alert (detectCascades,
\* checkCascade, cmdCascade, after any kill and repetition).
AlertsAreTrue ==
  \A p \in Nodes : \A k \in DOMAIN record[p] : record[p][k].type = "CASCADE_ALERT" =>
    LET alert == record[p][k]
    IN /\ Cardinality(alert.nodes) >= Trigger
       /\ \A m \in alert.nodes :
            /\ parentOf[m] = p
            /\ \E j \in DOMAIN record[m] :
                 /\ record[m][j].type = "SUSPENDED"
                 /\ record[m][j].cause = alert.signature
                 /\ record[m][j].at \in (alert.at - Window)..alert.at
       /\ \A j \in DOMAIN record[p] : (j # k /\ record[p][j].type = "CASCADE_ALERT") =>
            record[p][j].signature # alert.signature

\* No parent with a cascade under it goes unwarned: after a cascade command that ran
\* to its end, each session of which enough children are suspended for one cause, all
\* recently, carries an alert for a cause that now cascades (cmdCascade).  One such
\* alert may hide the others.
repeating(p) ==
  LET among(cause) == {m \in Nodes : /\ parentOf[m] = p
                                     /\ suspension[m] # Running
                                     /\ suspension[m].cause = cause
                                     /\ suspension[m].since + Window >= day}
  IN {cause \in Causes : Cardinality(among(cause)) >= Trigger}
CascadeStep ==
  Cascade => \A p \in Nodes : repeating(p) # {} =>
                                repeating(p) \cap cascadeAlerts(record'[p]) # {}
EveryParentIsWarned == [][CascadeStep]_federationVars

\* "Where enough siblings share a suspension cause within the window, records a
\* CASCADE_ALERT on their parent": each such cause is on the parent's record when the
\* command is through.
EveryCauseIsWarned ==
  [][Cascade => \A p \in Nodes : repeating(p) \subseteq cascadeAlerts(record'[p])]_federationVars

\* A constraint set at the root holds all the way down: what a session inherits
\* through any number of Charters is as tight as every one of them, tighter ceilings,
\* a larger quorum, no appeal or veto taken away; and a report of nothing declared
\* too loosely or tightened means that it runs under its own, but for the warning line
\* and the cast, of which nothing is reported (resolveInheritance).
AsTight(c, p) ==
  /\ c.quorum >= p.quorum
  /\ p.escalation => c.escalation
  /\ \A f \in {"maxCost", "maxMotions", "warning", "heartbeat"} : c[f] <= p[f]
  /\ \A r \in DOMAIN p.cast : r \in DOMAIN c.cast /\ c.cast[r] >= p.cast[r]
  /\ p.domainVeto \subseteq c.domainVeto

NothingOverridesUpward ==
  \A n \in Nodes :
    LET p == parentOf[n]
        top == parentOf[p]
        inherited == IF top = Outside THEN charterOf[p]
                     ELSE resolveInheritance(charterOf[top], charterOf[p])
        effective == resolveInheritance(inherited, charterOf[n])
    IN (p # Outside /\ n \notin Lineage(p)) =>
         /\ AsTight(effective, charterOf[p])
         /\ top # Outside => AsTight(effective, charterOf[top])
         /\ effective.heartbeat <= charterOf[n].heartbeat
         /\ (violations(inherited, charterOf[n]) \cup tightened(inherited, charterOf[n]) = {}) =>
              \A f \in DOMAIN effective \ {"warning", "cast"} : effective[f] = charterOf[n][f]

=============================================================================

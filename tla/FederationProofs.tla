-------------------------- MODULE FederationProofs --------------------------
(***************************************************************************)
(* What holds of every tree of sessions, however many there are and        *)
(* however their Charters point to one another.                            *)
(***************************************************************************)
EXTENDS Federation, FiniteSetTheorems, SequenceTheorems, TLAPS

LOCAL Facts == INSTANCE HansardProofs WITH Actors <- {}, Motions <- {}

-----------------------------------------------------------------------------
(***************************************************************************)
(* Types.                                                                  *)
(***************************************************************************)
TreeEntry ==
  [type : {"SUSPENDED"}, cause : Causes, at : Nat] \cup [type : {"RESUMED"}]
    \cup [type : {"CASCADE_ALERT"}, signature : Causes, nodes : SUBSET Nodes, at : Nat]

FederationTypeOK ==
  /\ parentOf \in [Nodes -> Nodes \cup {Outside}]
  /\ charterOf \in [Nodes -> Settings]
  /\ day \in Nat
  /\ suspension \in [Nodes -> {Running} \cup [cause : Causes, since : 0..day]]
  /\ record \in [Nodes -> Seq(TreeEntry)]

\* A suspension is on the record of its session.
Filed(h, cause, since) ==
  \E j \in DOMAIN h : h[j] = [type |-> "SUSPENDED", cause |-> cause, at |-> since]

SuspensionsAreFiled ==
  \A n \in Nodes : suspension[n] # Running =>
    Filed(record[n], suspension[n].cause, suspension[n].since)

FederationInv == FederationTypeOK /\ SuspensionsAreFiled /\ AlertsAreTrue

-----------------------------------------------------------------------------
(***************************************************************************)
(* Inheritance.                                                            *)
(***************************************************************************)
LEMMA CeilingsTighten ==
  ASSUME NEW p \in 0..NoLimit, NEW c \in 0..NoLimit
  PROVE  /\ tighterCeiling(p, c) \in 0..NoLimit
         /\ tighterCeiling(p, c) <= p /\ tighterCeiling(p, c) <= c
BY FederationAssumption DEF tighterCeiling, Least

LEMMA ResolutionTightens ==
  ASSUME NEW p, NEW c, IsSetting(p), IsSetting(c)
  PROVE  /\ IsSetting(resolveInheritance(p, c))
         /\ AsTight(resolveInheritance(p, c), p)
         /\ AsTight(resolveInheritance(p, c), c)
<1> DEFINE e == resolveInheritance(p, c)
<1>1. /\ p.quorum \in Nat /\ c.quorum \in Nat /\ p.heartbeat \in Nat /\ c.heartbeat \in Nat
      /\ p.escalation \in BOOLEAN /\ c.escalation \in BOOLEAN
      /\ p.maxCost \in 0..NoLimit /\ c.maxCost \in 0..NoLimit
      /\ p.maxMotions \in 0..NoLimit /\ c.maxMotions \in 0..NoLimit
      /\ p.warning \in 0..NoLimit /\ c.warning \in 0..NoLimit
      /\ p.cast \in [DOMAIN p.cast -> Nat] /\ c.cast \in [DOMAIN c.cast -> Nat]
  BY DEF IsSetting
<1>2. /\ e.quorum \in Nat /\ e.quorum >= p.quorum /\ e.quorum >= c.quorum
      /\ e.heartbeat \in Nat /\ e.heartbeat <= p.heartbeat /\ e.heartbeat <= c.heartbeat
  BY <1>1 DEF resolveInheritance, Most, Least
<1>3. e.escalation = (p.escalation \/ c.escalation) /\ e.escalation \in BOOLEAN
  BY <1>1 DEF resolveInheritance
<1>4. /\ e.maxCost \in 0..NoLimit /\ e.maxCost <= p.maxCost /\ e.maxCost <= c.maxCost
      /\ e.maxMotions \in 0..NoLimit /\ e.maxMotions <= p.maxMotions
      /\ e.maxMotions <= c.maxMotions
      /\ e.warning \in 0..NoLimit /\ e.warning <= p.warning /\ e.warning <= c.warning
  BY <1>1, CeilingsTighten DEF resolveInheritance
<1>5. /\ DOMAIN e.cast = DOMAIN p.cast \cup DOMAIN c.cast
      /\ \A r \in DOMAIN e.cast : e.cast[r] \in Nat
      /\ \A r \in DOMAIN p.cast : e.cast[r] >= p.cast[r]
      /\ \A r \in DOMAIN c.cast : e.cast[r] >= c.cast[r]
      /\ e.cast \in [DOMAIN e.cast -> Nat]
  BY <1>1 DEF resolveInheritance, Most
<1>6. e.domainVeto = p.domainVeto \cup c.domainVeto
  BY DEF resolveInheritance
<1> HIDE DEF e
<1>7. IsSetting(e)
  BY <1>2, <1>3, <1>4, <1>5 DEF IsSetting
<1>8. ASSUME NEW f \in {"maxCost", "maxMotions", "warning", "heartbeat"}
      PROVE  e[f] <= p[f] /\ e[f] <= c[f]
  BY <1>2, <1>4
<1>9. AsTight(e, p) /\ AsTight(e, c)
  BY <1>2, <1>3, <1>5, <1>6, <1>8 DEF AsTight
<1> QED
  BY <1>7, <1>9 DEF e

LEMMA TightnessCompounds ==
  ASSUME NEW a, NEW b, NEW c, IsSetting(a), IsSetting(b), IsSetting(c),
         AsTight(a, b), AsTight(b, c)
  PROVE  AsTight(a, c)
<1>1. \A s \in {a, b, c} :
        /\ s.quorum \in Nat /\ s.heartbeat \in Nat
        /\ s.maxCost \in Int /\ s.maxMotions \in Int /\ s.warning \in Int
        /\ s.cast \in [DOMAIN s.cast -> Nat]
  BY FederationAssumption DEF IsSetting
<1>2. ASSUME NEW f \in {"maxCost", "maxMotions", "warning", "heartbeat"}
      PROVE  a[f] <= c[f]
  <2>1. a[f] <= b[f] /\ b[f] <= c[f]
    BY DEF AsTight
  <2>2. a[f] \in Int /\ b[f] \in Int /\ c[f] \in Int
    BY <1>1
  <2> QED
    BY <2>1, <2>2
<1>3. ASSUME NEW r \in DOMAIN c.cast
      PROVE  r \in DOMAIN a.cast /\ a.cast[r] >= c.cast[r]
  <2>1. r \in DOMAIN b.cast /\ b.cast[r] >= c.cast[r]
    BY DEF AsTight
  <2>2. r \in DOMAIN a.cast /\ a.cast[r] >= b.cast[r]
    BY <2>1 DEF AsTight
  <2>3. a.cast[r] \in Nat /\ b.cast[r] \in Nat /\ c.cast[r] \in Nat
    BY <1>1, <2>1, <2>2
  <2> QED
    BY <2>1, <2>2, <2>3
<1>4. /\ a.quorum >= c.quorum /\ (c.escalation => a.escalation)
      /\ c.domainVeto \subseteq a.domainVeto
  BY <1>1 DEF AsTight
<1> QED
  BY <1>2, <1>3, <1>4 DEF AsTight

\* A child of whom nothing is reported runs under its own settings.
LEMMA UnreportedIsUnchanged ==
  ASSUME NEW p, NEW c, IsSetting(p), IsSetting(c),
         violations(p, c) \cup tightened(p, c) = {},
         NEW f \in DOMAIN resolveInheritance(p, c) \ {"warning", "cast"}
  PROVE  resolveInheritance(p, c)[f] = c[f]
<1> DEFINE e == resolveInheritance(p, c)
<1>1. f \in {"quorum", "escalation", "maxCost", "maxMotions", "heartbeat", "domainVeto",
             "deadlineAction"}
  BY DEF resolveInheritance
<1>2. /\ p.quorum \in Nat /\ c.quorum \in Nat
      /\ p.escalation \in BOOLEAN /\ c.escalation \in BOOLEAN
  BY DEF IsSetting
<1>3. ~ (c.quorum < p.quorum) /\ ~ (p.escalation /\ ~c.escalation) /\ ~ (c.quorum > p.quorum)
  BY DEF violations, tightened
<1>4. e.quorum = c.quorum /\ e.escalation = c.escalation /\ e.deadlineAction = c.deadlineAction
  BY <1>2, <1>3 DEF resolveInheritance, Most
<1>5. \A g \in {"maxCost", "maxMotions", "heartbeat", "domainVeto"} : e[g] = c[g]
  BY DEF tightened
<1> HIDE DEF e
<1>6. e[f] = c[f]
  BY <1>1, <1>4, <1>5
<1> QED
  BY <1>6 DEF e

LEMMA InheritanceHolds == FederationTypeOK => NothingOverridesUpward
<1> SUFFICES ASSUME FederationTypeOK PROVE NothingOverridesUpward
  OBVIOUS
<1>1. \A n \in Nodes : IsSetting(charterOf[n])
  BY FederationAssumption DEF FederationTypeOK
<1> SUFFICES ASSUME NEW n \in Nodes, parentOf[n] # Outside
             PROVE  LET p == parentOf[n]
                        top == parentOf[p]
                        inherited == IF top = Outside THEN charterOf[p]
                                     ELSE resolveInheritance(charterOf[top], charterOf[p])
                        effective == resolveInheritance(inherited, charterOf[n])
                    IN /\ AsTight(effective, charterOf[p])
                       /\ top # Outside => AsTight(effective, charterOf[top])
                       /\ effective.heartbeat <= charterOf[n].heartbeat
                       /\ (violations(inherited, charterOf[n])
                             \cup tightened(inherited, charterOf[n]) = {}) =>
                            \A f \in DOMAIN effective \ {"warning", "cast"} :
                              effective[f] = charterOf[n][f]
  BY DEF NothingOverridesUpward
<1> DEFINE p == parentOf[n]
           top == parentOf[p]
           inherited == IF top = Outside THEN charterOf[p]
                        ELSE resolveInheritance(charterOf[top], charterOf[p])
           effective == resolveInheritance(inherited, charterOf[n])
<1>2. p \in Nodes /\ (top # Outside => top \in Nodes)
  BY DEF FederationTypeOK
<1>3. /\ IsSetting(inherited) /\ IsSetting(charterOf[p]) /\ IsSetting(charterOf[n])
      /\ top # Outside => /\ IsSetting(charterOf[top]) /\ AsTight(inherited, charterOf[top])
                          /\ AsTight(inherited, charterOf[p])
      /\ top = Outside => inherited = charterOf[p]
  BY <1>1, <1>2, ResolutionTightens
<1> HIDE DEF inherited
<1>4. /\ IsSetting(effective) /\ AsTight(effective, inherited)
      /\ AsTight(effective, charterOf[n])
  BY <1>3, ResolutionTightens
<1>5. \A f \in DOMAIN effective \ {"warning", "cast"} :
         violations(inherited, charterOf[n]) \cup tightened(inherited, charterOf[n]) = {} =>
           effective[f] = charterOf[n][f]
  BY <1>3, UnreportedIsUnchanged
<1> HIDE DEF effective
<1>6. AsTight(effective, charterOf[p])
  BY <1>3, <1>4, TightnessCompounds
<1>7. top # Outside => AsTight(effective, charterOf[top])
  BY <1>3, <1>4, TightnessCompounds
<1>8. effective.heartbeat <= charterOf[n].heartbeat
  BY <1>4 DEF AsTight
<1> QED
  BY <1>5, <1>6, <1>7, <1>8 DEF effective, inherited
-----------------------------------------------------------------------------
(***************************************************************************)
(* Alerts.  Every command adds at most one entry to each record.           *)
(***************************************************************************)
\* Is e what a command may add to the record of p?
Truthful(p, e) ==
  /\ e \in TreeEntry
  /\ e.type = "CASCADE_ALERT" =>
       /\ Cardinality(e.nodes) >= Trigger
       /\ \A m \in e.nodes :
            /\ m \in Nodes /\ parentOf[m] = p
            /\ \E since \in (e.at - Window)..e.at : Filed(record[m], e.signature, since)
       /\ e.signature \notin cascadeAlerts(record[p])

Grows ==
  /\ record' \in [Nodes -> Seq(TreeEntry)]
  /\ \A p \in Nodes :
       \/ record'[p] = record[p]
       \/ \E e : Truthful(p, e) /\ record'[p] = Append(record[p], e)

LEMMA AlertsAreTruthful ==
  ASSUME FederationInv, NEW p \in Nodes, cascading(p) # {}
  PROVE  /\ Alert(signature(p), sharing(p, signature(p))) \in TreeEntry
         /\ signature(p) \notin cascadeAlerts(record[p]) =>
              Truthful(p, Alert(signature(p), sharing(p, signature(p))))
<1> DEFINE cause == signature(p)
           e == Alert(cause, sharing(p, cause))
<1>1. PICK n \in cascading(p) : cause = suspension[n].cause
  <2>1. cascading(p) \in SUBSET Nat
    BY FederationAssumption DEF cascading, faults
  <2>2. Min(cascading(p)) \in cascading(p)
    BY <2>1, Facts!NatHasLeast DEF Min
  <2> QED
    BY <2>2 DEF signature
<1>2. /\ n \in Nodes /\ suspension[n] # Running
      /\ Cardinality(sharing(p, cause)) >= Trigger
  BY <1>1 DEF cascading, cascades, faults
<1>3. /\ cause \in Causes /\ day \in Nat
      /\ \A m \in Nodes : suspension[m] # Running =>
           suspension[m].since \in 0..day /\ suspension[m].cause \in Causes
  BY <1>1, <1>2 DEF FederationInv, FederationTypeOK
<1>4. e = [type |-> "CASCADE_ALERT", signature |-> cause, nodes |-> sharing(p, cause), at |-> day]
  BY DEF Alert
<1>5. sharing(p, cause) \subseteq Nodes
  BY DEF sharing, faults
<1> HIDE DEF cause
<1>6. e \in TreeEntry
  BY <1>3, <1>4, <1>5 DEF TreeEntry
<1>7. ASSUME NEW m \in sharing(p, cause)
      PROVE  /\ m \in Nodes /\ parentOf[m] = p
             /\ \E since \in (day - Window)..day : Filed(record[m], cause, since)
  <2>1. /\ m \in Nodes /\ parentOf[m] = p /\ suspension[m] # Running
        /\ suspension[m].cause = cause /\ day - suspension[m].since <= Window
    BY DEF sharing, faults, recent
  <2>2. suspension[m].since \in (day - Window)..day
    BY <1>3, <2>1, FederationAssumption
  <2>3. Filed(record[m], cause, suspension[m].since)
    BY <2>1 DEF FederationInv, SuspensionsAreFiled
  <2> QED
    BY <2>1, <2>2, <2>3
<1>8. cause \notin cascadeAlerts(record[p]) => Truthful(p, e)
  BY <1>2, <1>4, <1>6, <1>7 DEF Truthful
<1> QED
  BY <1>6, <1>8 DEF cause

LEMMA RecordingGrows ==
  ASSUME FederationInv, NEW k, RecordFirst(k)
  PROVE  Grows
<1>1. record' = [p \in Nodes |-> IF p \in firstFound(buildTree, k) THEN recordOnNode(p)
                                 ELSE record[p]]
  BY DEF RecordFirst
<1>2. ASSUME NEW p \in Nodes
      PROVE  /\ record'[p] \in Seq(TreeEntry)
             /\ \/ record'[p] = record[p]
                \/ \E e : Truthful(p, e) /\ record'[p] = Append(record[p], e)
  <2>1. record[p] \in Seq(TreeEntry)
    BY DEF FederationInv, FederationTypeOK
  <2>2. record'[p] = record[p] \/ (cascading(p) # {} /\ record'[p] = recordOnNode(p))
    BY <1>1 DEF firstFound, findings
  <2>3. CASE cascading(p) # {} /\ record'[p] = recordOnNode(p) /\ record'[p] # record[p]
    BY <2>1, <2>3, AlertsAreTruthful DEF recordOnNode
  <2> QED
    BY <2>1, <2>2, <2>3
<1>3. record' \in [Nodes -> Seq(TreeEntry)]
  BY <1>1, <1>2
<1> QED
  BY <1>2, <1>3 DEF Grows

LEMMA StepsGrow == FederationInv /\ [FederationNext]_federationVars => Grows
<1> SUFFICES ASSUME FederationInv, [FederationNext]_federationVars PROVE Grows
  OBVIOUS
<1>0. record \in [Nodes -> Seq(TreeEntry)] /\ day \in Nat
  BY DEF FederationInv, FederationTypeOK
<1>1. ASSUME NEW n \in Nodes, NEW e \in TreeEntry, e.type # "CASCADE_ALERT",
             record' = [record EXCEPT ![n] = Append(@, e)]
      PROVE  Grows
  <2>1. Truthful(n, e)
    BY <1>1 DEF Truthful
  <2>2. Append(record[n], e) \in Seq(TreeEntry)
    BY <1>0
  <2> QED
    BY <1>0, <1>1, <2>1, <2>2 DEF Grows
<1>2. ASSUME NEW n \in Nodes, NEW cause \in Causes, Suspend(n, cause) PROVE Grows
  <2>1. /\ Suspended(cause) \in TreeEntry
        /\ Suspended(cause).type # "CASCADE_ALERT"
    BY <1>0 DEF Suspended, TreeEntry
  <2> QED
    BY <1>1, <1>2, <2>1 DEF Suspend
<1>3. ASSUME NEW n \in Nodes, Resume(n) PROVE Grows
  <2> DEFINE e == [type |-> "RESUMED"]
  <2>1. e \in TreeEntry /\ e.type # "CASCADE_ALERT"
    BY DEF TreeEntry
  <2> QED
    BY <1>1, <1>3, <2>1 DEF Resume
<1>4. CASE UNCHANGED record
  BY <1>0, <1>4 DEF Grows
<1> QED
  BY <1>2, <1>3, <1>4, RecordingGrows
     DEF FederationNext, Cascade, CascadeKilled, Passes, federationVars
LEMMA GrownRecords ==
  ASSUME FederationTypeOK, Grows, NEW p \in Nodes
  PROVE  /\ \A k \in DOMAIN record[p] : k \in DOMAIN record'[p] /\ record'[p][k] = record[p][k]
         /\ \A k \in DOMAIN record'[p] :
              k \in DOMAIN record[p] \/ Truthful(p, record'[p][k])
         /\ \A k, j \in DOMAIN record'[p] :
              k \notin DOMAIN record[p] /\ j \notin DOMAIN record[p] => k = j
<1>1. record[p] \in Seq(TreeEntry)
  BY DEF FederationTypeOK
<1>2. CASE record'[p] = record[p]
  BY <1>2
<1>3. ASSUME NEW e, Truthful(p, e), record'[p] = Append(record[p], e)
      PROVE  /\ \A k \in DOMAIN record[p] :
                  k \in DOMAIN record'[p] /\ record'[p][k] = record[p][k]
             /\ \A k \in DOMAIN record'[p] : k \in DOMAIN record[p] \/ record'[p][k] = e
             /\ \A k, j \in DOMAIN record'[p] :
                  k \notin DOMAIN record[p] /\ j \notin DOMAIN record[p] => k = j
  <2>1. e \in TreeEntry
    BY <1>3 DEF Truthful
  <2> QED
    BY <1>1, <1>3, <2>1
<1> QED
  BY <1>2, <1>3 DEF Grows

LEMMA FiledStays ==
  ASSUME FederationTypeOK, Grows, NEW n \in Nodes, NEW cause, NEW since,
         Filed(record[n], cause, since)
  PROVE  Filed(record'[n], cause, since)
<1>1. PICK j \in DOMAIN record[n] :
         record[n][j] = [type |-> "SUSPENDED", cause |-> cause, at |-> since]
  BY DEF Filed
<1>2. j \in DOMAIN record'[n] /\ record'[n][j] = record[n][j]
  BY GrownRecords
<1> QED
  BY <1>1, <1>2 DEF Filed

LEMMA AlertsStayTrue ==
  ASSUME FederationInv, Grows, parentOf' = parentOf
  PROVE  AlertsAreTrue'
<1> DEFINE h == record'
<1> SUFFICES ASSUME NEW p \in Nodes, NEW k \in DOMAIN h[p], h[p][k].type = "CASCADE_ALERT"
             PROVE  /\ Cardinality(h[p][k].nodes) >= Trigger
                    /\ \A m \in h[p][k].nodes :
                         /\ parentOf[m] = p
                         /\ \E j \in DOMAIN h[m] :
                              /\ h[m][j].type = "SUSPENDED"
                              /\ h[m][j].cause = h[p][k].signature
                              /\ h[m][j].at \in (h[p][k].at - Window)..h[p][k].at
                    /\ \A j \in DOMAIN h[p] : (j # k /\ h[p][j].type = "CASCADE_ALERT") =>
                         h[p][j].signature # h[p][k].signature
  BY DEF AlertsAreTrue
<1> DEFINE alert == h[p][k]
           Holds == /\ Cardinality(alert.nodes) >= Trigger
                    /\ \A m \in alert.nodes :
                         /\ parentOf[m] = p
                         /\ \E j \in DOMAIN h[m] :
                              /\ h[m][j].type = "SUSPENDED"
                              /\ h[m][j].cause = alert.signature
                              /\ h[m][j].at \in (alert.at - Window)..alert.at
<1>1. CASE k \in DOMAIN record[p]
  <2>1. alert = record[p][k]
    BY <1>1, GrownRecords DEF FederationInv
  <2>2. /\ Cardinality(alert.nodes) >= Trigger
        /\ \A m \in alert.nodes :
             /\ parentOf[m] = p
             /\ \E j \in DOMAIN record[m] :
                  /\ record[m][j].type = "SUSPENDED"
                  /\ record[m][j].cause = alert.signature
                  /\ record[m][j].at \in (alert.at - Window)..alert.at
    BY <1>1, <2>1 DEF FederationInv, AlertsAreTrue
  <2>3. alert.nodes \subseteq Nodes
    <3>1. alert \in TreeEntry /\ alert.type = "CASCADE_ALERT"
      BY <1>1, <2>1 DEF FederationInv, FederationTypeOK
    <3> HIDE DEF alert
    <3> QED
      BY <3>1 DEF TreeEntry
  <2>4. ASSUME NEW m \in alert.nodes
        PROVE  \E j \in DOMAIN h[m] : /\ h[m][j].type = "SUSPENDED"
                                      /\ h[m][j].cause = alert.signature
                                      /\ h[m][j].at \in (alert.at - Window)..alert.at
    <3>1. m \in Nodes
      BY <2>3
    <3>2. PICK j \in DOMAIN record[m] :
                  /\ record[m][j].type = "SUSPENDED"
                  /\ record[m][j].cause = alert.signature
                  /\ record[m][j].at \in (alert.at - Window)..alert.at
      BY <2>2
    <3>3. j \in DOMAIN h[m] /\ h[m][j] = record[m][j]
      BY <3>1, GrownRecords DEF FederationInv
    <3> HIDE DEF alert, h
    <3> QED
      BY <3>2, <3>3
  <2>5. Holds
    BY <2>2, <2>4
  <2>6. ASSUME NEW j \in DOMAIN h[p], j # k, h[p][j].type = "CASCADE_ALERT"
        PROVE  h[p][j].signature # alert.signature
    <3>1. CASE j \in DOMAIN record[p]
      <4>1. h[p][j] = record[p][j]
        BY <3>1, GrownRecords DEF FederationInv
      <4> QED
        BY <1>1, <2>1, <2>6, <3>1, <4>1 DEF FederationInv, AlertsAreTrue
    <3>2. CASE j \notin DOMAIN record[p]
      <4>1. h[p][j].signature \notin cascadeAlerts(record[p])
        BY <2>6, <3>2, GrownRecords DEF FederationInv, Truthful
      <4>2. alert.signature \in cascadeAlerts(record[p])
        BY <1>1, <2>1 DEF cascadeAlerts
      <4> QED
        BY <4>1, <4>2
    <3> QED
      BY <3>1, <3>2
  <2> QED
    BY <2>5, <2>6
<1>2. CASE k \notin DOMAIN record[p]
  <2>1. Truthful(p, alert)
    BY <1>2, GrownRecords DEF FederationInv
  <2>2. ASSUME NEW m \in alert.nodes
        PROVE  /\ parentOf[m] = p
               /\ \E j \in DOMAIN h[m] :
                    /\ h[m][j].type = "SUSPENDED"
                    /\ h[m][j].cause = alert.signature
                    /\ h[m][j].at \in (alert.at - Window)..alert.at
    <3>1. /\ m \in Nodes /\ parentOf[m] = p
          /\ \E since \in (alert.at - Window)..alert.at :
               Filed(record[m], alert.signature, since)
      BY <2>1 DEF Truthful
    <3>2. PICK since \in (alert.at - Window)..alert.at : Filed(h[m], alert.signature, since)
      BY <3>1, FiledStays DEF FederationInv
    <3> HIDE DEF alert, h
    <3> QED
      BY <3>1, <3>2 DEF Filed
  <2>3. Holds
    BY <2>1, <2>2 DEF Truthful
  <2>4. ASSUME NEW j \in DOMAIN h[p], j # k, h[p][j].type = "CASCADE_ALERT"
        PROVE  h[p][j].signature # alert.signature
    <3>1. j \in DOMAIN record[p] /\ h[p][j] = record[p][j]
      BY <1>2, <2>4, GrownRecords DEF FederationInv
    <3>2. h[p][j].signature \in cascadeAlerts(record[p])
      BY <2>4, <3>1 DEF cascadeAlerts
    <3> QED
      BY <2>1, <3>2 DEF Truthful
  <2> QED
    BY <2>3, <2>4
<1> QED
  BY <1>1, <1>2

LEMMA TypesStay ==
  ASSUME FederationInv, [FederationNext]_federationVars
  PROVE  FederationTypeOK' /\ SuspensionsAreFiled' /\ parentOf' = parentOf
<1>1. Grows
  BY StepsGrow
<1>2. /\ parentOf \in [Nodes -> Nodes \cup {Outside}] /\ charterOf \in [Nodes -> Settings]
      /\ day \in Nat /\ suspension \in [Nodes -> {Running} \cup [cause : Causes, since : 0..day]]
      /\ \A n \in Nodes : record[n] \in Seq(TreeEntry)
  BY DEF FederationInv, FederationTypeOK
<1>3. record' \in [Nodes -> Seq(TreeEntry)]
  BY <1>1 DEF Grows
<1>4. ASSUME NEW n \in Nodes, suspension[n] # Running
      PROVE  Filed(record'[n], suspension[n].cause, suspension[n].since)
  BY <1>1, <1>4, FiledStays DEF FederationInv, SuspensionsAreFiled
<1>5. ASSUME NEW n \in Nodes, NEW cause \in Causes, Suspend(n, cause)
      PROVE  FederationTypeOK' /\ SuspensionsAreFiled' /\ parentOf' = parentOf
  <2>1. /\ suspension' = [suspension EXCEPT ![n] = [cause |-> cause, since |-> day]]
        /\ record' = [record EXCEPT ![n] = Append(record[n], Suspended(cause))]
        /\ UNCHANGED <<day, parentOf, charterOf>>
    BY <1>5 DEF Suspend, Acts
  <2>2. FederationTypeOK'
    BY <1>2, <1>3, <2>1 DEF FederationTypeOK
  <2>3. Filed(record'[n], cause, day)
    <3>1. /\ Len(record[n]) + 1 \in DOMAIN Append(record[n], Suspended(cause))
          /\ Append(record[n], Suspended(cause))[Len(record[n]) + 1] = Suspended(cause)
      BY <1>2
    <3>2. record'[n] = Append(record[n], Suspended(cause))
      BY <1>3, <2>1 DEF FederationInv, FederationTypeOK
    <3> QED
      BY <3>1, <3>2 DEF Filed, Suspended
  <2>4. SuspensionsAreFiled'
    BY <1>2, <1>4, <2>1, <2>3 DEF SuspensionsAreFiled
  <2> QED
    BY <2>1, <2>2, <2>4
<1>6. ASSUME NEW n \in Nodes, Resume(n)
      PROVE  FederationTypeOK' /\ SuspensionsAreFiled' /\ parentOf' = parentOf
  BY <1>2, <1>3, <1>4, <1>6 DEF Resume, Acts, FederationTypeOK, SuspensionsAreFiled
<1>7. ASSUME UNCHANGED <<suspension, day, parentOf, charterOf>>
      PROVE  FederationTypeOK' /\ SuspensionsAreFiled' /\ parentOf' = parentOf
  BY <1>2, <1>3, <1>4, <1>7 DEF FederationTypeOK, SuspensionsAreFiled
<1>8. CASE Passes
  <2>1. 0..day \subseteq 0..(day + 1)
    BY <1>2
  <2>2. suspension \in [Nodes -> {Running} \cup [cause : Causes, since : 0..(day + 1)]]
    BY <1>2, <2>1
  <2> QED
    BY <1>2, <1>3, <1>4, <1>8, <2>2 DEF Passes, FederationTypeOK, SuspensionsAreFiled
<1> QED
  BY <1>5, <1>6, <1>7, <1>8 DEF FederationNext, Cascade, CascadeKilled, Acts, federationVars

LEMMA FederationInvHolds == FederationSpec => []FederationInv
<1>1. FederationInit => FederationInv
  <2> SUFFICES ASSUME FederationInit PROVE FederationInv
    OBVIOUS
  <2>1. FederationTypeOK
    BY FederationAssumption DEF FederationInit, FederationTypeOK
  <2>2. SuspensionsAreFiled /\ AlertsAreTrue
    BY DEF FederationInit, SuspensionsAreFiled, AlertsAreTrue
  <2> QED
    BY <2>1, <2>2 DEF FederationInv
<1>2. FederationInv /\ [FederationNext]_federationVars => FederationInv'
  BY StepsGrow, AlertsStayTrue, TypesStay DEF FederationInv
<1> QED
  BY <1>1, <1>2, PTL DEF FederationSpec

-----------------------------------------------------------------------------
(***************************************************************************)
(* The tree.  What descends from a session is the least set that holds its *)
(* own children and theirs.                                                *)
(***************************************************************************)
Pointers == parentOf \in [Nodes -> Nodes \cup {Outside}]

LEMMA LineageIsLeast ==
  ASSUME Pointers, NEW n \in Nodes
  PROVE  /\ n \in Lineage(n) /\ Lineage(n) \subseteq Nodes
         /\ \A x \in Lineage(n) : parentOf[x] # Outside => parentOf[x] \in Lineage(n)
         /\ \A C \in SUBSET Nodes :
              n \in C /\ (\A x \in C : parentOf[x] # Outside => parentOf[x] \in C) =>
                Lineage(n) \subseteq C
<1>1. n \in Lineage(n) /\ Lineage(n) \subseteq Nodes
  BY DEF Lineage
<1>2. ASSUME NEW x \in Lineage(n), parentOf[x] # Outside PROVE parentOf[x] \in Lineage(n)
  BY <1>2 DEF Lineage, Pointers
<1> QED
  BY <1>1, <1>2 DEF Lineage

LEMMA LineageOfChild ==
  ASSUME Pointers, NEW n \in Nodes
  PROVE  /\ parentOf[n] = Outside => Lineage(n) = {n}
         /\ parentOf[n] # Outside =>
              parentOf[n] \in Nodes /\ Lineage(n) = {n} \cup Lineage(parentOf[n])
<1>1. ASSUME parentOf[n] = Outside PROVE Lineage(n) = {n}
  <2>1. \A x \in {n} : parentOf[x] # Outside => parentOf[x] \in {n}
    BY <1>1
  <2>2. {n} \in SUBSET Nodes /\ n \in {n}
    OBVIOUS
  <2>3. Lineage(n) \subseteq {n} /\ n \in Lineage(n)
    BY <2>1, <2>2, LineageIsLeast
  <2> QED
    BY <2>3
<1>2. ASSUME parentOf[n] # Outside
      PROVE  parentOf[n] \in Nodes /\ Lineage(n) = {n} \cup Lineage(parentOf[n])
  <2> DEFINE p == parentOf[n]
  <2>1. p \in Nodes
    BY <1>2 DEF Pointers
  <2>2. Lineage(n) \subseteq {n} \cup Lineage(p)
    <3>1. {n} \cup Lineage(p) \in SUBSET Nodes /\ p \in Lineage(p)
      BY <2>1, LineageIsLeast
    <3>2. \A x \in {n} \cup Lineage(p) :
            parentOf[x] # Outside => parentOf[x] \in {n} \cup Lineage(p)
      BY <2>1, <3>1, LineageIsLeast
    <3> QED
      BY <3>1, <3>2, LineageIsLeast
  <2>3. Lineage(p) \subseteq Lineage(n)
    <3>1. p \in Lineage(n)
      BY <1>2, LineageIsLeast
    <3> QED
      BY <2>1, <3>1, LineageIsLeast
  <2> QED
    BY <2>1, <2>2, <2>3, LineageIsLeast
<1> QED
  BY <1>1, <1>2

Rooted(n) == \E m \in Lineage(n) : parentOf[m] = Outside

LEMMA RootedByParent ==
  ASSUME Pointers, NEW n \in Nodes, parentOf[n] # Outside
  PROVE  Rooted(n) <=> Rooted(parentOf[n])
BY LineageOfChild DEF Rooted

\* Who has a root above them is not above themselves.
LEMMA RootedIsNoCycle ==
  ASSUME Pointers, NEW n \in Nodes, Rooted(n), parentOf[n] # Outside
  PROVE  n \notin Lineage(parentOf[n])
<1> SUFFICES ASSUME n \in Lineage(parentOf[n]) PROVE FALSE
  OBVIOUS
<1> DEFINE C == {x \in Lineage(n) : n \in Lineage(x)}
<1>1. C \in SUBSET Nodes /\ n \in C
  BY LineageIsLeast
<1>2. ASSUME NEW x \in C, parentOf[x] # Outside PROVE parentOf[x] \in C
  <2>1. x \in Nodes /\ parentOf[x] \in Lineage(n)
    BY <1>2, LineageIsLeast
  <2>2. n \in Lineage(parentOf[x])
    BY <1>2, <2>1, LineageOfChild
  <2> QED
    BY <2>1, <2>2
<1>3. Lineage(n) \subseteq C
  <2> HIDE DEF C
  <2> QED
    BY <1>1, <1>2, LineageIsLeast
<1>4. PICK m \in Lineage(n) : parentOf[m] = Outside
  BY DEF Rooted
<1>5. m \in Nodes /\ n \in Lineage(m)
  BY <1>1, <1>3, <1>4
<1>6. m = n
  BY <1>4, <1>5, LineageOfChild
<1> QED
  BY <1>4, <1>6

LEMMA DepthsGrow ==
  ASSUME Pointers, NEW n \in Nodes, Rooted(n), parentOf[n] # Outside
  PROVE  depthOf(n) = depthOf(parentOf[n]) + 1
<1> DEFINE Above(x) == {m \in Lineage(x) : parentOf[m] # Outside}
<1>1. /\ parentOf[n] \in Nodes
      /\ Above(n) = Above(parentOf[n]) \cup {n} /\ n \notin Above(parentOf[n])
  BY LineageOfChild, RootedIsNoCycle
<1>2. Above(parentOf[n]) \in SUBSET Nodes
  BY <1>1, LineageIsLeast
<1>3. IsFiniteSet(Above(parentOf[n]))
  BY <1>2, FS_Subset, FederationAssumption
<1> HIDE DEF Above
<1>4. Cardinality(Above(n)) = Cardinality(Above(parentOf[n])) + 1
  BY <1>1, <1>3, FS_AddElement
<1> QED
  BY <1>4 DEF depthOf, Above

(***************************************************************************)
(* Sorting by name leaves no one out: as many come before each as its      *)
(* place says.                                                             *)
(***************************************************************************)
Lower(S, n) == {m \in S : m < n}
Rank(S, n) == Cardinality(Lower(S, n))

LEMMA RanksAreTyped ==
  ASSUME NEW S \in SUBSET Nodes, NEW x \in S
  PROVE  /\ IsFiniteSet(S) /\ Cardinality(S) \in Nat /\ x \in Nat
         /\ Lower(S, x) \in SUBSET S /\ IsFiniteSet(Lower(S, x))
         /\ Rank(S, x) \in Nat /\ Rank(S, x) < Cardinality(S)
<1>1. IsFiniteSet(S) /\ Cardinality(S) \in Nat /\ x \in Nat
  BY FederationAssumption, FS_Subset, FS_CardinalityType
<1>2. Lower(S, x) \in SUBSET S /\ x \notin Lower(S, x)
  BY <1>1 DEF Lower
<1>3. /\ IsFiniteSet(Lower(S, x)) /\ Cardinality(Lower(S, x)) <= Cardinality(S)
      /\ Cardinality(Lower(S, x)) # Cardinality(S)
  BY <1>1, <1>2, FS_Subset
<1>4. Rank(S, x) \in Nat
  BY <1>3, FS_CardinalityType DEF Rank
<1>5. Rank(S, x) <= Cardinality(S) /\ Rank(S, x) # Cardinality(S)
  BY <1>3 DEF Rank
<1> QED
  BY <1>1, <1>2, <1>3, <1>4, <1>5

LEMMA RanksDiffer ==
  ASSUME NEW S \in SUBSET Nodes, NEW x \in S, NEW y \in S, x < y
  PROVE  Rank(S, x) # Rank(S, y)
<1>1. x \in Nat /\ y \in Nat /\ IsFiniteSet(Lower(S, y))
  BY RanksAreTyped
<1>2. ASSUME NEW m \in Lower(S, x) PROVE m \in Lower(S, y)
  <2>1. m \in S /\ m < x
    BY DEF Lower
  <2>2. m \in Nat
    BY <2>1, FederationAssumption
  <2>3. m < y
    BY <1>1, <2>1, <2>2
  <2> QED
    BY <2>1, <2>3 DEF Lower
<1>3. Lower(S, x) \in SUBSET Lower(S, y)
  BY <1>2
<1>4. x \in Lower(S, y) /\ x \notin Lower(S, x)
  BY <1>1 DEF Lower
<1>5. Cardinality(Lower(S, x)) # Cardinality(Lower(S, y))
  BY <1>1, <1>3, <1>4, FS_Subset
<1> QED
  BY <1>5 DEF Rank

LEMMA RanksAreAll ==
  ASSUME NEW S \in SUBSET Nodes
  PROVE  /\ \A x, y \in S : Rank(S, x) = Rank(S, y) => x = y
         /\ \A i \in 1..Cardinality(S) : \E x \in S : Rank(S, x) = i - 1
<1>1. ASSUME NEW x \in S, NEW y \in S, Rank(S, x) = Rank(S, y) PROVE x = y
  <2>1. x \in Nat /\ y \in Nat
    BY RanksAreTyped
  <2>2. ~ (x < y) /\ ~ (y < x)
    BY <1>1, RanksDiffer
  <2> QED
    BY <2>1, <2>2
<1>2. IsFiniteSet(S) /\ Cardinality(S) \in Nat
  BY FederationAssumption, FS_Subset, FS_CardinalityType
<1> DEFINE N == Cardinality(S)
           place == [x \in S |-> Rank(S, x) + 1]
<1>3. \A x \in S : Rank(S, x) \in Nat /\ Rank(S, x) < N
  BY RanksAreTyped
<1> HIDE DEF N
<1>4. N \in Nat
  BY <1>2 DEF N
<1>5. ASSUME NEW x \in S PROVE place[x] \in 1..N /\ place[x] = Rank(S, x) + 1
  <2>1. Rank(S, x) + 1 \in 1..N
    BY <1>3, <1>4
  <2> QED
    BY <2>1
<1>6. ASSUME NEW x \in S, NEW y \in S, place[x] = place[y] PROVE x = y
  <2>1. Rank(S, x) = Rank(S, y)
    BY <1>3, <1>5, <1>6
  <2> QED
    BY <1>1, <2>1
<1>7. place \in [S -> 1..N]
  BY <1>5
<1>8. DOMAIN place = S
  OBVIOUS
<1> HIDE DEF place
<1>9. place \in Injection(S, 1..N)
  BY <1>6, <1>7, <1>8 DEF Injection, IsInjective
<1>10. IsFiniteSet(1..N) /\ Cardinality(1..N) = N
  BY <1>4, FS_Interval
<1>11. place \in Surjection(S, 1..N)
  BY <1>2, <1>9, <1>10, FS_Injection DEF N
<1>12. ASSUME NEW i \in 1..N PROVE \E x \in S : Rank(S, x) = i - 1
  <2>1. PICK x \in S : place[x] = i
    BY <1>11 DEF Surjection
  <2>2. Rank(S, x) + 1 = i /\ Rank(S, x) \in Nat
    BY <1>3, <1>5, <2>1
  <2>3. Rank(S, x) = i - 1
    BY <2>2
  <2> QED
    BY <2>3
<1> QED
  BY <1>1, <1>12 DEF N

LEMMA ByNameLists ==
  ASSUME NEW S \in SUBSET Nodes
  PROVE  /\ byName(S) \in Seq(S) /\ Len(byName(S)) = Cardinality(S)
         /\ Cardinality(S) \in Nat
         /\ \A n \in S : \E i \in 1..Cardinality(S) : byName(S)[i] = n
         /\ \A i, j \in 1..Cardinality(S) : byName(S)[i] = byName(S)[j] => i = j
<1> DEFINE N == Cardinality(S)
<1>1. N \in Nat
  BY FederationAssumption, FS_Subset, FS_CardinalityType
<1>2. byName(S) = [i \in 1..N |-> CHOOSE n \in S : Rank(S, n) = i - 1]
  BY DEF byName, Rank, Lower
<1>3. ASSUME NEW i \in 1..N PROVE byName(S)[i] \in S /\ Rank(S, byName(S)[i]) = i - 1
  <2>1. byName(S)[i] = CHOOSE n \in S : Rank(S, n) = i - 1
    BY <1>2
  <2> QED
    BY <2>1, RanksAreAll
<1>4. byName(S) = [i \in 1..N |-> byName(S)[i]]
  BY <1>2
<1> HIDE DEF N
<1>5. byName(S) \in Seq(S) /\ Len(byName(S)) = N
  BY <1>1, <1>3, <1>4
<1>6. ASSUME NEW n \in S PROVE \E i \in 1..N : byName(S)[i] = n
  <2>1. Rank(S, n) \in Nat /\ Rank(S, n) < N
    BY RanksAreTyped DEF N
  <2>2. Rank(S, n) + 1 \in 1..N /\ (Rank(S, n) + 1) - 1 = Rank(S, n)
    BY <1>1, <2>1
  <2>3. byName(S)[Rank(S, n) + 1] \in S
        /\ Rank(S, byName(S)[Rank(S, n) + 1]) = Rank(S, n)
    BY <1>3, <2>2
  <2> QED
    BY <2>2, <2>3, RanksAreAll
<1>7. ASSUME NEW i \in 1..N, NEW j \in 1..N, byName(S)[i] = byName(S)[j] PROVE i = j
  BY <1>1, <1>3, <1>7
<1> QED
  BY <1>1, <1>5, <1>6, <1>7 DEF N

-----------------------------------------------------------------------------
(***************************************************************************)
(* A call takes the head off what is to be visited and puts a in its       *)
(* place.                                                                  *)
(***************************************************************************)
Spliced(a, c) == a \o Tail(c)

IsSplice(d, a, c) ==
  /\ d \in Seq(Nodes)
  /\ Len(a) \in Nat /\ Len(c) \in Nat /\ 1 \in 1..Len(c)
  /\ Len(d) = Len(a) + Len(c) - 1
  /\ \A i \in 1..Len(a) : i \in 1..Len(d) /\ d[i] = a[i]
  /\ \A j \in 2..Len(c) : Len(a) + j - 1 \in 1..Len(d) /\ d[Len(a) + j - 1] = c[j]
  /\ \A i \in 1..Len(d) :
       i \in 1..Len(a) \/ (i - Len(a) + 1 \in 2..Len(c) /\ d[i] = c[i - Len(a) + 1])

LEMMA SpliceProperties ==
  ASSUME NEW a \in Seq(Nodes), NEW c \in Seq(Nodes), c # <<>>
  PROVE  IsSplice(Spliced(a, c), a, c)
<1> DEFINE t == Tail(c)
           d == Spliced(a, c)
<1>1. /\ t \in Seq(Nodes) /\ Len(t) = Len(c) - 1 /\ \A i \in 1..Len(t) : t[i] = c[i + 1]
      /\ Len(a) \in Nat /\ Len(c) \in Nat /\ Len(c) # 0
  BY HeadTailProperties, LenProperties, EmptySeq
<1> HIDE DEF t
<1>3. /\ d \in Seq(Nodes) /\ Len(d) = Len(a) + Len(t)
      /\ \A i \in 1..(Len(a) + Len(t)) :
           d[i] = IF i <= Len(a) THEN a[i] ELSE t[i - Len(a)]
  BY <1>1, ConcatProperties DEF Spliced, t
<1> HIDE DEF d
<1>4. ASSUME NEW i \in 1..Len(a) PROVE i \in 1..Len(d) /\ d[i] = a[i]
  BY <1>1, <1>3
<1>5. ASSUME NEW j \in 2..Len(c)
      PROVE  Len(a) + j - 1 \in 1..Len(d) /\ d[Len(a) + j - 1] = c[j]
  <2>1. /\ Len(a) + j - 1 \in 1..(Len(a) + Len(t)) /\ ~ (Len(a) + j - 1 <= Len(a))
        /\ (Len(a) + j - 1) - Len(a) = j - 1 /\ j - 1 \in 1..Len(t) /\ (j - 1) + 1 = j
    BY <1>1
  <2>2. d[Len(a) + j - 1] = t[j - 1] /\ t[j - 1] = c[j]
    BY <1>1, <1>3, <2>1
  <2> QED
    BY <1>3, <2>1, <2>2
<1>6. ASSUME NEW i \in 1..Len(d), i \notin 1..Len(a)
      PROVE  i - Len(a) + 1 \in 2..Len(c) /\ d[i] = c[i - Len(a) + 1]
  <2>1. /\ i - Len(a) + 1 \in 2..Len(c) /\ ~ (i <= Len(a)) /\ i - Len(a) \in 1..Len(t)
        /\ i \in 1..(Len(a) + Len(t))
    BY <1>1, <1>3, <1>6
  <2> QED
    BY <1>1, <1>3, <2>1
<1>7. Len(d) = Len(a) + Len(c) - 1 /\ 1 \in 1..Len(c)
  BY <1>1, <1>3
<1> QED
  BY <1>1, <1>3, <1>4, <1>5, <1>6, <1>7 DEF d, IsSplice

-----------------------------------------------------------------------------
(***************************************************************************)
(* What holds of the list o and the visits c to come after every call.     *)
(***************************************************************************)
Total == Cardinality(Nodes)
Waiting(o) == {m \in Nodes : parentOf[m] \in Nodes \ ToSet(o)}

\* How many calls there are still to be, after k.
Remaining(o, c, k) == c = <<>> \/ Len(c) + Cardinality(Waiting(o)) + k = 2 * Total

Once(o) == \A i, j \in DOMAIN o : o[i] = o[j] => i = j
Complete(o, c) == Nodes \subseteq ToSet(o) \cup ToSet(c)

\* Beyond the last visits, one to every session, are those to roots and children.
Led(o, c) ==
  \A j \in 1..(Len(c) - Total) : parentOf[c[j]] = Outside \/ parentOf[c[j]] \in ToSet(o)
Due(o, c) ==
  \A n \in Nodes \ ToSet(o) :
    (Rooted(n) /\ (parentOf[n] = Outside \/ parentOf[n] \in ToSet(o))) =>
      \E j \in 1..(Len(c) - Total) : c[j] = n
ParentsFirst(o) ==
  \A r \in DOMAIN o : (Rooted(o[r]) /\ parentOf[o[r]] # Outside) =>
    \E q \in DOMAIN o : q < r /\ o[q] = parentOf[o[r]]

Under(p, s, i, j) == \A k \in i..j : p \in Lineage(s[k])

\* Between a session and its children are only its descendants.
Adjoining(o) ==
  \A q, r \in DOMAIN o : (q < r /\ parentOf[o[r]] = o[q]) => Under(o[q], o, q, r)
WillAdjoin(o, c) ==
  \A n \in Nodes \ ToSet(o), q \in DOMAIN o : parentOf[n] = o[q] =>
    \E j \in DOMAIN c : c[j] = n /\ Under(o[q], c, 1, j) /\ Under(o[q], o, q, Len(o))

Listing(o, c, k) ==
  /\ o \in Seq(Nodes) /\ c \in Seq(Nodes)
  /\ Remaining(o, c, k) /\ Once(o) /\ Complete(o, c)
  /\ Led(o, c) /\ Due(o, c) /\ ParentsFirst(o)
  /\ Adjoining(o) /\ WillAdjoin(o, c)

LEMMA TotalIsNat == Total \in Nat
BY FederationAssumption, FS_CardinalityType DEF Total

LEMMA SubsetsAreCounted ==
  ASSUME NEW S \in SUBSET Nodes
  PROVE  IsFiniteSet(S) /\ Cardinality(S) \in Nat
BY FederationAssumption, FS_Subset, FS_CardinalityType

LEMMA ChildrenAre ==
  ASSUME NEW h \in Nodes
  PROVE  /\ children(h) \in Seq(Nodes)
         /\ Len(children(h)) = Cardinality({m \in Nodes : parentOf[m] = h})
         /\ \A i \in 1..Len(children(h)) : children(h)[i] \in Nodes /\ parentOf[children(h)[i]] = h
         /\ \A n \in Nodes : parentOf[n] = h =>
              \E i \in 1..Len(children(h)) : children(h)[i] = n
<1> DEFINE S == {m \in Nodes : parentOf[m] = h}
<1>1. S \in SUBSET Nodes
  OBVIOUS
<1>2. children(h) = byName(S)
  BY DEF children
<1>3. \A n \in S : n \in Nodes /\ parentOf[n] = h
  OBVIOUS
<1>4. \A n \in Nodes : parentOf[n] = h => n \in S
  OBVIOUS
<1> HIDE DEF S
<1>5. /\ children(h) \in Seq(S) /\ Len(children(h)) = Cardinality(S)
      /\ \A n \in S : \E i \in 1..Cardinality(S) : children(h)[i] = n
  BY <1>1, <1>2, ByNameLists
<1>6. children(h) \in Seq(Nodes)
  BY <1>1, <1>5, SeqMonotonic
<1>7. \A i \in 1..Len(children(h)) : children(h)[i] \in S
  BY <1>5, ElementOfSeq
<1> QED
  BY <1>3, <1>4, <1>5, <1>6, <1>7 DEF S

\* When no more visits are led to than one to every session, all under a root are seen.
LEMMA RootedAreSeen ==
  ASSUME Pointers, NEW o, NEW c, Due(o, c), Len(c) \in Nat, Len(c) <= Total,
         NEW n \in Nodes, Rooted(n)
  PROVE  n \in ToSet(o)
<1> SUFFICES ASSUME n \notin ToSet(o) PROVE FALSE
  OBVIOUS
<1> DEFINE C == {x \in Nodes : Rooted(x) /\ x \notin ToSet(o)}
<1>1. \A x \in C : parentOf[x] # Outside /\ parentOf[x] \notin ToSet(o)
  BY TotalIsNat DEF Due
<1>2. ASSUME NEW x \in C PROVE parentOf[x] \in C
  <2>1. parentOf[x] \in Nodes
    BY <1>1 DEF Pointers
  <2> QED
    BY <1>1, <2>1, RootedByParent
<1>3. C \in SUBSET Nodes /\ n \in C
  OBVIOUS
<1>4. Lineage(n) \subseteq C
  <2> HIDE DEF C
  <2> QED
    BY <1>2, <1>3, LineageIsLeast
<1> QED
  BY <1>1, <1>4 DEF Rooted

LEMMA SeenIsPassed ==
  ASSUME Pointers, NEW o, NEW c, NEW k \in Nat, Listing(o, c, k), c # <<>>,
         c[1] \in ToSet(o)
  PROVE  Listing(o, Tail(c), k + 1)
<1> DEFINE d == Tail(c)
<1>1. c \in Seq(Nodes) /\ o \in Seq(Nodes)
  BY DEF Listing
<1>2. /\ d \in Seq(Nodes) /\ Len(c) \in Nat /\ Len(d) \in Nat /\ Len(d) = Len(c) - 1
      /\ \A i \in 1..Len(d) : d[i] = c[i + 1]
      /\ DOMAIN c = 1..Len(c) /\ DOMAIN d = 1..Len(d)
  BY <1>1, HeadTailProperties, LenProperties
<1> HIDE DEF d
<1>3. \A j \in 1..Len(c) : c[j] \notin ToSet(o) => j - 1 \in 1..Len(d) /\ d[j - 1] = c[j]
  <2> SUFFICES ASSUME NEW j \in 1..Len(c), c[j] \notin ToSet(o)
               PROVE  j - 1 \in 1..Len(d) /\ d[j - 1] = c[j]
    OBVIOUS
  <2>1. j # 1
    OBVIOUS
  <2>2. j - 1 \in 1..Len(d) /\ (j - 1) + 1 = j
    BY <1>2, <2>1
  <2> QED
    BY <1>2, <2>2
<1>4. Cardinality(Waiting(o)) \in Nat
  BY SubsetsAreCounted DEF Waiting
<1>5. Remaining(o, d, k + 1)
  <2>1. Len(c) + Cardinality(Waiting(o)) + k = 2 * Total
    BY DEF Listing, Remaining
  <2>2. Len(d) + Cardinality(Waiting(o)) + (k + 1) = 2 * Total
    BY <1>2, <1>4, <2>1, TotalIsNat
  <2> QED
    BY <2>2 DEF Remaining
<1>6. Complete(o, d)
  <2> SUFFICES ASSUME NEW n \in Nodes, n \notin ToSet(o) PROVE n \in ToSet(d)
    BY DEF Complete
  <2>1. n \in ToSet(c)
    BY DEF Listing, Complete
  <2>2. PICK j \in 1..Len(c) : c[j] = n
    BY <1>2, <2>1 DEF ToSet
  <2> QED
    BY <1>2, <1>3, <2>2 DEF ToSet
<1>7. Led(o, d)
  <2> SUFFICES ASSUME NEW j \in 1..(Len(d) - Total)
               PROVE  parentOf[d[j]] = Outside \/ parentOf[d[j]] \in ToSet(o)
    BY DEF Led
  <2>1. j + 1 \in 1..(Len(c) - Total) /\ j \in 1..Len(d)
    BY <1>2, TotalIsNat
  <2>2. d[j] = c[j + 1]
    BY <1>2, <2>1
  <2> QED
    BY <2>1, <2>2 DEF Listing, Led
<1>8. Due(o, d)
  <2> SUFFICES ASSUME NEW n \in Nodes \ ToSet(o), Rooted(n),
                      parentOf[n] = Outside \/ parentOf[n] \in ToSet(o)
               PROVE  \E j \in 1..(Len(d) - Total) : d[j] = n
    BY DEF Due
  <2>1. PICK j \in 1..(Len(c) - Total) : c[j] = n
    BY DEF Listing, Due
  <2>2. j \in 1..Len(c)
    BY <1>2, TotalIsNat
  <2>3. j - 1 \in 1..Len(d) /\ d[j - 1] = n
    BY <1>3, <2>1, <2>2
  <2>4. j - 1 \in 1..(Len(d) - Total)
    BY <1>2, <2>1, <2>3, TotalIsNat
  <2> QED
    BY <2>3, <2>4
<1>9. WillAdjoin(o, d)
  <2> SUFFICES ASSUME NEW n \in Nodes \ ToSet(o), NEW q \in DOMAIN o, parentOf[n] = o[q]
               PROVE  \E j \in DOMAIN d : /\ d[j] = n /\ Under(o[q], d, 1, j)
                                          /\ Under(o[q], o, q, Len(o))
    BY DEF WillAdjoin
  <2>1. PICK j \in DOMAIN c : /\ c[j] = n /\ Under(o[q], c, 1, j)
                              /\ Under(o[q], o, q, Len(o))
    BY DEF Listing, WillAdjoin
  <2>2. j \in 1..Len(c) /\ j - 1 \in 1..Len(d) /\ d[j - 1] = n
    BY <1>2, <1>3, <2>1
  <2>3. ASSUME NEW i \in 1..(j - 1) PROVE o[q] \in Lineage(d[i])
    <3>1. i \in 1..Len(d) /\ i + 1 \in 1..j
      BY <2>2
    <3>2. d[i] = c[i + 1]
      BY <1>2, <3>1
    <3> QED
      BY <2>1, <3>1, <3>2 DEF Under
  <2> QED
    BY <1>2, <2>1, <2>2, <2>3 DEF Under
<1> QED
  BY <1>1, <1>2, <1>5, <1>6, <1>7, <1>8, <1>9 DEF Listing, d

LEMMA CallsAreCounted ==
  ASSUME NEW l \in Nat, NEW w \in Nat, NEW a \in Nat, NEW k \in Nat, NEW t \in Nat,
         l + (w + a) + k = 2 * t
  PROVE  (a + l - 1) + w + (k + 1) = 2 * t
OBVIOUS

LEMMA NewIsListed ==
  ASSUME Pointers, NEW o, NEW c, NEW k \in Nat, Listing(o, c, k), c # <<>>,
         c[1] \notin ToSet(o)
  PROVE  Listing(Append(o, c[1]), Spliced(children(c[1]), c), k + 1)
<1> DEFINE h == c[1]
           a == children(h)
           d == Spliced(a, c)
           p == Append(o, h)
<1>1. c \in Seq(Nodes) /\ o \in Seq(Nodes)
  BY DEF Listing
<1>2. h \in Nodes
  BY <1>1, HeadTailProperties, LenProperties, EmptySeq
<1>3. /\ a \in Seq(Nodes)
      /\ Len(a) = Cardinality({m \in Nodes : parentOf[m] = h})
      /\ \A i \in 1..Len(a) : a[i] \in Nodes /\ parentOf[a[i]] = h
      /\ \A n \in Nodes : parentOf[n] = h => \E i \in 1..Len(a) : a[i] = n
  BY <1>2, ChildrenAre
<1> HIDE DEF a
<1>0. c # <<>> /\ DOMAIN c = 1..Len(c)
  BY <1>1, LenProperties
<1>4. /\ d \in Seq(Nodes)
      /\ Len(a) \in Nat /\ Len(c) \in Nat /\ 1 \in 1..Len(c)
      /\ Len(d) = Len(a) + Len(c) - 1
      /\ \A i \in 1..Len(a) : i \in 1..Len(d) /\ d[i] = a[i]
      /\ \A j \in 2..Len(c) : Len(a) + j - 1 \in 1..Len(d) /\ d[Len(a) + j - 1] = c[j]
      /\ \A i \in 1..Len(d) :
           i \in 1..Len(a) \/ (i - Len(a) + 1 \in 2..Len(c) /\ d[i] = c[i - Len(a) + 1])
      /\ DOMAIN c = 1..Len(c) /\ DOMAIN d = 1..Len(d)
  <2> HIDE DEF h
  <2>1. a \in Seq(Nodes) /\ c \in Seq(Nodes)
    BY <1>1, <1>3
  <2>2. /\ d \in Seq(Nodes)
        /\ Len(a) \in Nat /\ Len(c) \in Nat /\ 1 \in 1..Len(c)
        /\ Len(d) = Len(a) + Len(c) - 1
        /\ \A i \in 1..Len(a) : i \in 1..Len(d) /\ d[i] = a[i]
        /\ \A j \in 2..Len(c) : Len(a) + j - 1 \in 1..Len(d) /\ d[Len(a) + j - 1] = c[j]
        /\ \A i \in 1..Len(d) :
             i \in 1..Len(a) \/ (i - Len(a) + 1 \in 2..Len(c) /\ d[i] = c[i - Len(a) + 1])
    BY <1>0, <2>1, SpliceProperties DEF IsSplice
  <2>3. DOMAIN d = 1..Len(d)
    BY <2>2, LenProperties
  <2> QED
    BY <1>0, <2>2, <2>3
<1> HIDE DEF d
<1>5. /\ p \in Seq(Nodes) /\ Len(o) \in Nat /\ Len(p) = Len(o) + 1
      /\ \A i \in 1..Len(o) : p[i] = o[i]
      /\ p[Len(o) + 1] = h
      /\ DOMAIN o = 1..Len(o) /\ DOMAIN p = 1..(Len(o) + 1)
  BY <1>1, <1>2, AppendProperties, LenProperties
<1> HIDE DEF p
<1>6. ToSet(p) = ToSet(o) \cup {h}
  <2>1. \A i \in DOMAIN p : i \in 1..Len(o) \/ i = Len(o) + 1
    BY <1>5
  <2>2. \A i \in 1..Len(o) : i \in DOMAIN p
    BY <1>5
  <2>3. Len(o) + 1 \in DOMAIN p
    BY <1>5
  <2>4. \A x \in ToSet(p) : x \in ToSet(o) \cup {h}
    BY <1>5, <2>1 DEF ToSet
  <2>5. \A x \in ToSet(o) : x \in ToSet(p)
    BY <1>5, <2>2 DEF ToSet
  <2>6. h \in ToSet(p)
    BY <1>5, <2>3 DEF ToSet
  <2> QED
    BY <2>4, <2>5, <2>6
\* Who was to be visited and still is.
<1>7. \A j \in 1..Len(c) : c[j] \notin ToSet(p) =>
        /\ j \in 2..Len(c)
        /\ Len(a) + j - 1 \in 1..Len(d) /\ d[Len(a) + j - 1] = c[j]
  <2> SUFFICES ASSUME NEW j \in 1..Len(c), c[j] \notin ToSet(p)
               PROVE  /\ j \in 2..Len(c)
                      /\ Len(a) + j - 1 \in 1..Len(d) /\ d[Len(a) + j - 1] = c[j]
    OBVIOUS
  <2>1. j # 1
    BY <1>6
  <2>2. j \in 2..Len(c)
    BY <1>4, <2>1
  <2> QED
    BY <1>4, <2>2
<1>8. Remaining(p, d, k + 1)
  <2> DEFINE K == {m \in Nodes : parentOf[m] = h}
  <2>1. Len(c) + Cardinality(Waiting(o)) + k = 2 * Total
    BY DEF Listing, Remaining
  <2>2. Waiting(o) = Waiting(p) \cup K /\ Waiting(p) \cap K = {}
    BY <1>2, <1>6 DEF Waiting
  <2>3. /\ IsFiniteSet(Waiting(p)) /\ IsFiniteSet(K)
        /\ Cardinality(Waiting(p)) \in Nat /\ Cardinality(K) \in Nat
    BY SubsetsAreCounted DEF Waiting
  <2>4. Cardinality(Waiting(p) \cap K) = 0
    BY <2>2, FS_EmptySet
  <2>5. Cardinality(Waiting(o))
          = Cardinality(Waiting(p)) + Cardinality(K) - Cardinality(Waiting(p) \cap K)
    BY <2>2, <2>3, FS_Union
  <2>6. Len(a) = Cardinality(K)
    BY <1>3
  <2> HIDE DEF K
  <2>7. Len(d) = Cardinality(K) + Len(c) - 1 /\ Len(c) \in Nat
    BY <1>4, <2>6
  <2>8. Cardinality(Waiting(o)) = Cardinality(Waiting(p)) + Cardinality(K)
    BY <2>3, <2>4, <2>5
  <2>9. Len(c) + (Cardinality(Waiting(p)) + Cardinality(K)) + k = 2 * Total
    BY <2>1, <2>8
  <2>10. Cardinality(K) \in Nat /\ Cardinality(Waiting(p)) \in Nat
    BY <2>3
  <2>11. Len(c) \in Nat
    BY <2>7
  <2>12. (Cardinality(K) + Len(c) - 1) + Cardinality(Waiting(p)) + (k + 1) = 2 * Total
    BY <2>9, <2>10, <2>11, TotalIsNat, CallsAreCounted
  <2>13. Len(d) + Cardinality(Waiting(p)) + (k + 1) = 2 * Total
    BY <2>7, <2>12
  <2> QED
    BY <2>13 DEF Remaining
<1>9. Once(p)
  <2>1. Once(o)
    BY DEF Listing
  <2>2. \A i \in 1..Len(o) : o[i] # h
    BY <1>5 DEF ToSet
  <2>3. \A i \in DOMAIN p : i \in 1..Len(o) \/ i = Len(o) + 1
    BY <1>5
  <2> QED
    BY <1>5, <2>1, <2>2, <2>3 DEF Once
<1>10. Complete(p, d)
  <2> SUFFICES ASSUME NEW n \in Nodes, n \notin ToSet(p) PROVE n \in ToSet(d)
    BY DEF Complete
  <2>1. n \in ToSet(c)
    BY <1>6 DEF Listing, Complete
  <2>2. PICK j \in 1..Len(c) : c[j] = n
    BY <1>4, <2>1 DEF ToSet
  <2> QED
    BY <1>4, <1>7, <2>2 DEF ToSet
<1>11. Led(p, d)
  <2> SUFFICES ASSUME NEW j \in 1..(Len(d) - Total)
               PROVE  parentOf[d[j]] = Outside \/ parentOf[d[j]] \in ToSet(p)
    BY DEF Led
  <2>1. j \in 1..Len(d)
    BY <1>4, TotalIsNat
  <2>2. CASE j \in 1..Len(a)
    BY <1>3, <1>4, <1>6, <2>2
  <2>3. CASE j \notin 1..Len(a)
    <3>1. j - Len(a) + 1 \in 1..(Len(c) - Total) /\ d[j] = c[j - Len(a) + 1]
      BY <1>4, <2>1, <2>3, TotalIsNat
    <3>2. Led(o, c)
      BY DEF Listing
    <3> QED
      BY <1>6, <3>1, <3>2 DEF Led
  <2> QED
    BY <2>2, <2>3
<1>12. ASSUME NEW n \in Nodes, Rooted(n), n \notin ToSet(o)
       PROVE  Len(c) > Total
  <2>1. Due(o, c)
    BY DEF Listing
  <2> QED
    BY <1>4, <1>12, <2>1, RootedAreSeen, TotalIsNat
<1>13. Due(p, d)
  <2> SUFFICES ASSUME NEW n \in Nodes \ ToSet(p), Rooted(n),
                      parentOf[n] = Outside \/ parentOf[n] \in ToSet(p)
               PROVE  \E j \in 1..(Len(d) - Total) : d[j] = n
    BY DEF Due
  <2>1. Len(c) > Total
    BY <1>6, <1>12
  <2>2. CASE parentOf[n] = h
    <3>1. PICK i \in 1..Len(a) : a[i] = n
      BY <1>3, <2>2
    <3>2. i \in 1..(Len(d) - Total) /\ d[i] = n
      BY <1>4, <2>1, <3>1, TotalIsNat
    <3> QED
      BY <3>2
  <2>3. CASE parentOf[n] # h
    <3>1. PICK j \in 1..(Len(c) - Total) : c[j] = n
      BY <1>6, <2>3 DEF Listing, Due
    <3>2. j \in 1..Len(c)
      BY <1>4, TotalIsNat
    <3>3. j \in 2..Len(c) /\ Len(a) + j - 1 \in 1..Len(d) /\ d[Len(a) + j - 1] = n
      BY <1>7, <3>1, <3>2
    <3>4. Len(a) + j - 1 \in 1..(Len(d) - Total)
      BY <1>4, <3>1, <3>3, TotalIsNat
    <3> QED
      BY <3>3, <3>4
  <2> QED
    BY <2>2, <2>3
<1>14. ParentsFirst(p)
  <2> SUFFICES ASSUME NEW r \in DOMAIN p, Rooted(p[r]), parentOf[p[r]] # Outside
               PROVE  \E q \in DOMAIN p : q < r /\ p[q] = parentOf[p[r]]
    BY DEF ParentsFirst
  <2>1. CASE r \in 1..Len(o)
    <3>1. PICK q \in DOMAIN o : q < r /\ o[q] = parentOf[o[r]]
      BY <1>5, <2>1 DEF Listing, ParentsFirst
    <3>2. q \in 1..Len(o) /\ q \in DOMAIN p
      BY <1>5, <3>1
    <3> QED
      BY <1>5, <2>1, <3>1, <3>2
  <2>2. CASE r = Len(o) + 1
    <3>1. Len(c) > Total
      BY <1>2, <1>5, <1>12, <2>2
    <3>2. 1 \in 1..(Len(c) - Total)
      BY <1>4, <3>1, TotalIsNat
    <3>3. parentOf[h] \in ToSet(o)
      BY <1>5, <2>2, <3>2 DEF Listing, Led
    <3>4. PICK q \in 1..Len(o) : o[q] = parentOf[h]
      BY <1>5, <3>3 DEF ToSet
    <3>5. q \in DOMAIN p /\ q < r
      BY <1>5, <2>2
    <3> QED
      BY <1>5, <2>2, <3>4, <3>5
  <2> QED
    BY <1>5, <2>1, <2>2
<1>15. Adjoining(p)
  <2> SUFFICES ASSUME NEW q \in DOMAIN p, NEW r \in DOMAIN p, q < r, parentOf[p[r]] = p[q]
               PROVE  Under(p[q], p, q, r)
    BY DEF Adjoining
  <2>1. q \in 1..Len(o) /\ p[q] = o[q]
    BY <1>5
  <2>2. CASE r \in 1..Len(o)
    <3>1. Under(o[q], o, q, r)
      BY <1>5, <2>1, <2>2 DEF Listing, Adjoining
    <3>2. \A i \in q..r : i \in 1..Len(o)
      BY <1>5, <2>1, <2>2
    <3> QED
      BY <1>5, <2>1, <3>1, <3>2 DEF Under
  <2>3. CASE r = Len(o) + 1
    <3>1. parentOf[h] = o[q]
      BY <1>5, <2>1, <2>3
    <3>2. PICK j \in DOMAIN c : /\ c[j] = h /\ Under(o[q], c, 1, j)
                                /\ Under(o[q], o, q, Len(o))
      BY <1>2, <1>5, <2>1, <3>1 DEF Listing, WillAdjoin
    <3>3. 1 \in 1..j
      BY <1>4
    <3>4. o[q] \in Lineage(h)
      BY <3>2, <3>3 DEF Under
    <3>5. \A i \in q..r : (i \in q..Len(o) /\ i \in 1..Len(o)) \/ i = Len(o) + 1
      BY <1>5, <2>1, <2>3
    <3> QED
      BY <1>5, <2>1, <3>2, <3>4, <3>5 DEF Under
  <2> QED
    BY <1>5, <2>2, <2>3
<1>16. WillAdjoin(p, d)
  <2> SUFFICES ASSUME NEW n \in Nodes \ ToSet(p), NEW q \in DOMAIN p, parentOf[n] = p[q]
               PROVE  \E j \in DOMAIN d : /\ d[j] = n /\ Under(p[q], d, 1, j)
                                          /\ Under(p[q], p, q, Len(p))
    BY DEF WillAdjoin
  <2>1. CASE q \in 1..Len(o)
    <3>1. p[q] = o[q] /\ q \in DOMAIN o /\ n \in Nodes \ ToSet(o)
      BY <1>5, <1>6, <2>1
    <3>2. PICK j \in DOMAIN c : /\ c[j] = n /\ Under(o[q], c, 1, j)
                                /\ Under(o[q], o, q, Len(o))
      BY <3>1 DEF Listing, WillAdjoin
    <3>3. j \in 2..Len(c) /\ Len(a) + j - 1 \in 1..Len(d) /\ d[Len(a) + j - 1] = n
      BY <1>4, <1>7, <3>2
    <3>4. 1 \in 1..j
      BY <3>3
    <3>5. o[q] \in Lineage(h)
      BY <3>2, <3>4 DEF Under
    <3>6. ASSUME NEW i \in 1..(Len(a) + j - 1) PROVE o[q] \in Lineage(d[i])
      <4>1. i \in 1..Len(d)
        BY <1>4, <3>3
      <4>2. CASE i \in 1..Len(a)
        <5>1. d[i] = a[i] /\ a[i] \in Nodes /\ parentOf[a[i]] = h
          BY <1>3, <1>4, <4>2
        <5>2. h # Outside
          BY <1>2, FederationAssumption
        <5>3. Lineage(d[i]) = {d[i]} \cup Lineage(h)
          BY <5>1, <5>2, LineageOfChild
        <5> QED
          BY <3>5, <5>3
      <4>3. CASE i \notin 1..Len(a)
        <5>1. i - Len(a) + 1 \in 2..Len(c) /\ d[i] = c[i - Len(a) + 1]
          BY <1>4, <4>1, <4>3
        <5>2. i - Len(a) + 1 \in 1..j
          BY <1>4, <3>3, <5>1
        <5> QED
          BY <3>2, <5>1, <5>2 DEF Under
      <4> QED
        BY <4>2, <4>3
    <3>7. Under(o[q], d, 1, Len(a) + j - 1)
      BY <3>6 DEF Under
    <3>8. Under(o[q], p, q, Len(p))
      <4>1. \A i \in q..Len(p) : (i \in q..Len(o) /\ i \in 1..Len(o)) \/ i = Len(o) + 1
        BY <1>5, <2>1
      <4> QED
        BY <1>5, <3>2, <3>5, <4>1 DEF Under
    <3> QED
      BY <1>4, <3>1, <3>3, <3>7, <3>8
  <2>2. CASE q = Len(o) + 1
    <3>1. p[q] = h /\ parentOf[n] = h /\ h # Outside
      BY <1>2, <1>5, <2>2, FederationAssumption
    <3>2. PICK j \in 1..Len(a) : a[j] = n
      BY <1>3, <3>1
    <3>3. j \in 1..Len(d) /\ d[j] = n
      BY <1>4, <3>2
    <3>4. ASSUME NEW i \in 1..j PROVE h \in Lineage(d[i])
      <4>1. i \in 1..Len(a)
        BY <1>4, <3>2
      <4>2. d[i] = a[i] /\ a[i] \in Nodes /\ parentOf[a[i]] = h
        BY <1>3, <1>4, <4>1
      <4> QED
        BY <1>2, <3>1, <4>2, LineageOfChild, LineageIsLeast
    <3>5. \A i \in q..Len(p) : i = Len(o) + 1
      BY <1>5, <2>2
    <3>6. h \in Lineage(h)
      BY <1>2, LineageIsLeast
    <3> QED
      BY <1>4, <1>5, <3>1, <3>3, <3>4, <3>5, <3>6 DEF Under
  <2> QED
    BY <1>5, <2>1, <2>2
<1> QED
  BY <1>4, <1>5, <1>8, <1>9, <1>10, <1>11, <1>13, <1>14, <1>15, <1>16 DEF Listing, d, p, a

(***************************************************************************)
(* buildTree makes 2 * Total calls, and as many are all there are.         *)
(***************************************************************************)
ListingStates == [ordered : Seq(Nodes), calls : Seq(Nodes)]

LEMMA VisitedIsState ==
  ASSUME NEW s \in ListingStates
  PROVE  visited(s) \in ListingStates
<1>1. s.ordered \in Seq(Nodes) /\ s.calls \in Seq(Nodes)
  BY DEF ListingStates
<1>2. CASE s.calls = <<>>
  BY <1>2 DEF visited
<1>3. CASE s.calls # <<>>
  <2> DEFINE n == Head(s.calls)
  <2>1. n \in Nodes /\ Tail(s.calls) \in Seq(Nodes)
    BY <1>1, <1>3, HeadTailProperties
  <2>2. children(n) \o Tail(s.calls) \in Seq(Nodes)
    BY <2>1, ChildrenAre, ConcatProperties
  <2>3. Append(s.ordered, n) \in Seq(Nodes)
    BY <1>1, <2>1, AppendProperties
  <2>4. [s EXCEPT !.calls = Tail(s.calls)] \in ListingStates
    BY <2>1 DEF ListingStates
  <2>5. [ordered |-> Append(s.ordered, n), calls |-> children(n) \o Tail(s.calls)]
          \in ListingStates
    BY <2>2, <2>3 DEF ListingStates
  <2> QED
    BY <1>3, <2>4, <2>5 DEF visited
<1> QED
  BY <1>2, <1>3

\* The list after each call is what one call makes of the list before it.
LEMMA VisitsAreVisited ==
  ASSUME NEW calls \in Seq(Nodes)
  PROVE  /\ visits(calls)[0] = [ordered |-> <<>>, calls |-> calls]
         /\ \A k \in 1..(2 * Total) : visits(calls)[k] = visited(visits(calls)[k - 1])
<1> DEFINE n == 2 * Total
           base == [ordered |-> <<>>, calls |-> calls]
           Steps(g) == [k \in 0..n |-> IF k = 0 THEN base ELSE visited(g[k - 1])]
           step == [i \in 1..n |-> [s \in ListingStates |-> visited(s)]]
           f == visits(calls)
<1>1. n \in Nat
  BY TotalIsNat
<1>2. base \in ListingStates
  BY EmptySeq DEF ListingStates
<1>3. step \in [1..n -> [ListingStates -> ListingStates]]
  BY VisitedIsState
<1>4. \A s \in ListingStates, i \in 1..n : step[i][s] = visited(s)
  OBVIOUS
<1>5. f = CHOOSE g : g = Steps(g)
  BY DEF visits, Total
<1> HIDE DEF step, base, n, f
<1>6. PICK g \in [0..n -> ListingStates] :
         g[0] = base /\ \A i \in 1..n : g[i] = step[i][g[i - 1]]
  <2>1. \E g \in [0..n -> ListingStates] : Facts!Runs(g, base, step, n)
    BY <1>1, <1>2, <1>3, Facts!RecursionExists
  <2> QED
    BY <2>1 DEF Facts!Runs
<1>7. \A i \in 1..n : g[i] = visited(g[i - 1])
  <2> SUFFICES ASSUME NEW i \in 1..n PROVE g[i] = visited(g[i - 1])
    OBVIOUS
  <2>1. i - 1 \in 0..n
    BY <1>1
  <2>2. g[i - 1] \in ListingStates
    BY <2>1
  <2> QED
    BY <1>4, <1>6, <2>2
<1>8. g = Steps(g)
  <2>1. \A i \in 0..n : i # 0 => i \in 1..n
    BY <1>1
  <2>2. \A i \in 0..n : g[i] = IF i = 0 THEN base ELSE visited(g[i - 1])
    BY <1>6, <1>7, <2>1
  <2> QED
    BY <2>2
<1>9. f = Steps(f)
  BY <1>5, <1>8
<1>10. f[0] = base /\ \A i \in 1..n : f[i] = visited(f[i - 1])
  <2>1. 0 \in 0..n /\ \A i \in 1..n : i \in 0..n /\ i # 0
    BY <1>1
  <2>2. \A h : h = Steps(h) =>
          h[0] = base /\ \A i \in 1..n : h[i] = visited(h[i - 1])
    BY <2>1
  <2> HIDE DEF Steps
  <2> QED
    BY <1>9, <2>2
<1> QED
  BY <1>10 DEF f, n, base

LEMMA RootsAre ==
  ASSUME Pointers
  PROVE  /\ roots \in Seq(Nodes)
         /\ Len(roots) = Cardinality({n \in Nodes : parentOf[n] = Outside})
         /\ \A i \in 1..Len(roots) : parentOf[roots[i]] = Outside
         /\ \A n \in Nodes : parentOf[n] = Outside => \E i \in 1..Len(roots) : roots[i] = n
<1> DEFINE S == {n \in Nodes : parentOf[n] = Outside}
<1>1. S \in SUBSET Nodes
  OBVIOUS
<1>2. roots = byName(S)
  BY DEF roots
<1>3. \A n \in S : parentOf[n] = Outside
  OBVIOUS
<1>4. \A n \in Nodes : parentOf[n] = Outside => n \in S
  OBVIOUS
<1> HIDE DEF S
<1>5. /\ roots \in Seq(S) /\ Len(roots) = Cardinality(S)
      /\ \A n \in S : \E i \in 1..Cardinality(S) : roots[i] = n
  BY <1>1, <1>2, ByNameLists
<1>6. roots \in Seq(Nodes)
  BY <1>1, <1>5, SeqMonotonic
<1>7. \A i \in 1..Len(roots) : roots[i] \in S
  BY <1>5, ElementOfSeq
<1> QED
  BY <1>3, <1>4, <1>5, <1>6, <1>7 DEF S

FirstCalls == roots \o byName(Nodes)

LEMMA FirstCallsList ==
  ASSUME Pointers
  PROVE  Listing(<<>>, FirstCalls, 0)
<1> DEFINE a == roots
           b == byName(Nodes)
           c == FirstCalls
<1>1. /\ a \in Seq(Nodes) /\ Len(a) \in Nat
      /\ \A i \in 1..Len(a) : parentOf[a[i]] = Outside
      /\ \A n \in Nodes : parentOf[n] = Outside => \E i \in 1..Len(a) : a[i] = n
  BY RootsAre, LenProperties
<1>2. /\ b \in Seq(Nodes) /\ Len(b) = Total
      /\ \A n \in Nodes : \E i \in 1..Len(b) : b[i] = n
  BY ByNameLists DEF Total
<1>3. /\ c \in Seq(Nodes) /\ Len(c) = Len(a) + Total
      /\ \A i \in 1..(Len(a) + Total) : c[i] = IF i <= Len(a) THEN a[i] ELSE b[i - Len(a)]
  BY <1>1, <1>2, ConcatProperties DEF FirstCalls
<1>4. Len(a) = Cardinality({n \in Nodes : parentOf[n] = Outside})
  BY RootsAre
<1> HIDE DEF a, b, c
<1>5. /\ \A i \in 1..Len(a) : i \in 1..Len(c) /\ c[i] = a[i]
      /\ Len(c) - Total = Len(a) /\ DOMAIN c = 1..Len(c) /\ Len(c) \in Nat
  BY <1>1, <1>3, TotalIsNat, LenProperties
<1>6. ToSet(<<>>) = {} /\ <<>> \in Seq(Nodes) /\ DOMAIN <<>> = {}
  BY EmptySeq DEF ToSet
<1>7. Remaining(<<>>, c, 0)
  <2> DEFINE R == {n \in Nodes : parentOf[n] = Outside}
             W == Waiting(<<>>)
  <2>1. Nodes = W \cup R /\ W \cap R = {}
    BY <1>6, FederationAssumption DEF Waiting, Pointers
  <2>2. /\ IsFiniteSet(W) /\ IsFiniteSet(R)
        /\ Cardinality(W) \in Nat /\ Cardinality(R) \in Nat
    BY SubsetsAreCounted DEF Waiting
  <2>3. Cardinality(W \cap R) = 0
    BY <2>1, FS_EmptySet
  <2>4. Len(a) = Cardinality(R)
    BY <1>4
  <2> HIDE DEF R, W
  <2>5. Total = Cardinality(W) + Cardinality(R) - Cardinality(W \cap R)
    BY <2>1, <2>2, FS_Union DEF Total
  <2>6. Len(c) + Cardinality(W) + 0 = 2 * Total
    BY <1>3, <2>2, <2>3, <2>4, <2>5, TotalIsNat
  <2> QED
    BY <2>6 DEF Remaining, W
<1>8. Complete(<<>>, c)
  <2> SUFFICES ASSUME NEW n \in Nodes PROVE n \in ToSet(c)
    BY DEF Complete
  <2>1. PICK i \in 1..Len(b) : b[i] = n
    BY <1>2
  <2>2. /\ Len(a) + i \in 1..(Len(a) + Total) /\ ~ (Len(a) + i <= Len(a))
        /\ (Len(a) + i) - Len(a) = i
    BY <1>1, <1>2, TotalIsNat
  <2>3. c[Len(a) + i] = n /\ Len(a) + i \in DOMAIN c
    BY <1>3, <1>5, <2>1, <2>2
  <2> QED
    BY <2>3 DEF ToSet
<1>9. Led(<<>>, c)
  BY <1>1, <1>5 DEF Led
<1>10. Due(<<>>, c)
  BY <1>1, <1>5, <1>6 DEF Due
<1>11. Once(<<>>) /\ ParentsFirst(<<>>) /\ Adjoining(<<>>) /\ WillAdjoin(<<>>, c)
  BY <1>6 DEF Once, ParentsFirst, Adjoining, WillAdjoin
<1> QED
  BY <1>3, <1>6, <1>7, <1>8, <1>9, <1>10, <1>11 DEF Listing, c

LEMMA VisitingLists ==
  ASSUME Pointers, NEW s \in ListingStates, NEW k \in Nat, Listing(s.ordered, s.calls, k)
  PROVE  visited(s) \in ListingStates
         /\ Listing(visited(s).ordered, visited(s).calls, k + 1)
<1> DEFINE o == s.ordered
           c == s.calls
<1>1. o \in Seq(Nodes) /\ c \in Seq(Nodes)
  BY DEF ListingStates
<1>2. CASE c = <<>>
  <2>1. visited(s) = s
    BY <1>2 DEF visited
  <2>2. Remaining(o, c, k + 1)
    BY <1>2 DEF Remaining
  <2> QED
    BY <2>1, <2>2 DEF Listing
<1>3. CASE c # <<>> /\ c[1] \in ToSet(o)
  <2>1. Head(c) = c[1]
    BY <1>1, <1>3
  <2>2. visited(s) = [s EXCEPT !.calls = Tail(c)]
    BY <1>3, <2>1 DEF visited
  <2>3. visited(s).ordered = o /\ visited(s).calls = Tail(c)
    BY <2>2 DEF ListingStates
  <2> QED
    BY <1>3, <2>3, SeenIsPassed, VisitedIsState
<1>4. CASE c # <<>> /\ c[1] \notin ToSet(o)
  <2>1. Head(c) = c[1]
    BY <1>1, <1>4
  <2>2. visited(s) = [ordered |-> Append(o, c[1]), calls |-> Spliced(children(c[1]), c)]
    BY <1>4, <2>1 DEF visited, Spliced
  <2>3. visited(s).ordered = Append(o, c[1]) /\ visited(s).calls = Spliced(children(c[1]), c)
    BY <2>2
  <2> QED
    BY <1>4, <2>3, NewIsListed, VisitedIsState
<1> QED
  BY <1>2, <1>3, <1>4

\* What buildTree returns, when every call is made.
LEMMA TreeIsListed == ASSUME Pointers PROVE Listing(buildTree, <<>>, 2 * Total)
<1> DEFINE n == 2 * Total
           f == visits(FirstCalls)
           Good(k) == f[k] \in ListingStates /\ Listing(f[k].ordered, f[k].calls, k)
           K == {k \in Nat : k <= n => Good(k)}
<1>1. n \in Nat
  BY TotalIsNat
<1>2. Listing(<<>>, FirstCalls, 0) /\ FirstCalls \in Seq(Nodes)
  BY FirstCallsList DEF Listing
<1>3. f[0] = [ordered |-> <<>>, calls |-> FirstCalls]
      /\ \A k \in 1..n : f[k] = visited(f[k - 1])
  BY <1>2, VisitsAreVisited
<1> HIDE DEF f, n
<1>4. Good(0)
  BY <1>2, <1>3, EmptySeq DEF ListingStates
<1>5. ASSUME NEW k \in Nat, k \in K PROVE k + 1 \in K
  <2> SUFFICES ASSUME k + 1 <= n PROVE Good(k + 1)
    OBVIOUS
  <2>1. k <= n /\ k + 1 \in 1..n /\ (k + 1) - 1 = k
    BY <1>1
  <2>2. Good(k)
    BY <1>5, <2>1
  <2>3. f[k + 1] = visited(f[k])
    BY <1>3, <2>1
  <2> QED
    BY <2>2, <2>3, VisitingLists
<1>6. n \in K
  <2>1. 0 \in K
    BY <1>4
  <2> HIDE DEF K
  <2> QED
    BY <1>1, <1>5, <2>1, Facts!NatSetInduction
<1>7. Good(n)
  BY <1>1, <1>6
<1>8. buildTree = f[n].ordered
  BY DEF buildTree, FirstCalls, f, n, Total
<1> DEFINE o == f[n].ordered
           c == f[n].calls
<1>9. Listing(o, c, n)
  BY <1>7
<1> HIDE DEF o, c
<1>10. c = <<>>
  <2>1. c \in Seq(Nodes) /\ Remaining(o, c, n)
    BY <1>9 DEF Listing
  <2>2. Len(c) \in Nat /\ Cardinality(Waiting(o)) \in Nat
    BY <2>1, LenProperties, SubsetsAreCounted DEF Waiting
  <2>3. Len(c) # 0 => c = <<>>
    BY <1>1, <2>1, <2>2 DEF Remaining, n
  <2> QED
    BY <2>1, <2>3, EmptySeq
<1> QED
  BY <1>8, <1>9, <1>10 DEF o, n

LEMMA TreeOfPointers == ASSUME Pointers PROVE TreeIsWhole
<1> DEFINE t == buildTree
<1>1. Listing(t, <<>>, 2 * Total)
  BY TreeIsListed
<1> HIDE DEF t
<1>2. t \in Seq(Nodes) /\ Len(t) \in Nat /\ DOMAIN t = 1..Len(t)
  BY <1>1, LenProperties DEF Listing
<1>3. ToSet(t) = Nodes
  <2>1. Nodes \subseteq ToSet(t)
    BY <1>1 DEF Listing, Complete, ToSet
  <2>2. ToSet(t) \subseteq Nodes
    BY <1>2 DEF ToSet
  <2> QED
    BY <2>1, <2>2
<1>4. Len(t) = Cardinality(Nodes)
  <2>1. t \in Bijection(1..Len(t), Nodes)
    <3>1. \A n \in Nodes : \E i \in 1..Len(t) : t[i] = n
      BY <1>2, <1>3 DEF ToSet
    <3>2. \A i, j \in 1..Len(t) : t[i] = t[j] => i = j
      BY <1>1, <1>2 DEF Listing, Once
    <3>3. t \in [1..Len(t) -> Nodes]
      BY <1>2, LenProperties
    <3> QED
      BY <1>2, <3>1, <3>2, <3>3 DEF Bijection, Injection, Surjection, IsInjective
  <2>2. IsFiniteSet(1..Len(t)) /\ Cardinality(1..Len(t)) = Len(t)
    BY <1>2, FS_Interval
  <2> QED
    BY <2>1, <2>2, FS_Bijection DEF ExistsBijection
<1> DEFINE place(n) == CHOOSE i \in DOMAIN t : t[i] = n
<1>5. ASSUME NEW i \in DOMAIN t PROVE place(t[i]) = i
  BY <1>1, <1>5 DEF Listing, Once
<1>6. ASSUME NEW n \in Nodes, Rooted(n), parentOf[n] # Outside
      PROVE  /\ place(parentOf[n]) < place(n)
             /\ \A i \in place(parentOf[n])..place(n) : parentOf[n] \in Lineage(t[i])
             /\ depthOf(n) = depthOf(parentOf[n]) + 1
  <2>1. PICK r \in DOMAIN t : t[r] = n
    BY <1>3 DEF ToSet
  <2>2. PICK q \in DOMAIN t : q < r /\ t[q] = parentOf[n]
    BY <1>1, <1>6, <2>1 DEF Listing, ParentsFirst
  <2>3. Under(t[q], t, q, r)
    BY <1>1, <2>1, <2>2 DEF Listing, Adjoining
  <2>4. place(n) = r /\ place(parentOf[n]) = q
    BY <1>5, <2>1, <2>2
  <2>5. depthOf(n) = depthOf(parentOf[n]) + 1
    BY <1>6, DepthsGrow
  <2> HIDE DEF place
  <2> QED
    BY <2>2, <2>3, <2>4, <2>5 DEF Under
<1> QED
  <2>1. \A n \in Nodes : (Rooted(n) /\ parentOf[n] # Outside) =>
          /\ place(parentOf[n]) < place(n)
          /\ \A i \in place(parentOf[n])..place(n) : parentOf[n] \in Lineage(t[i])
          /\ depthOf(n) = depthOf(parentOf[n]) + 1
    BY <1>6
  <2>2. IsWhole(t)
    BY <1>3, <1>4, <2>1 DEF IsWhole, Rooted
  <2> QED
    BY <2>2 DEF TreeIsWhole, t

-----------------------------------------------------------------------------
(***************************************************************************)
(* Warnings.                                                               *)
(***************************************************************************)
LEMMA SignatureCascades ==
  ASSUME FederationInv, NEW p \in Nodes, cascading(p) # {}
  PROVE  signature(p) \in Causes /\ cascades(p, signature(p))
<1>1. cascading(p) \in SUBSET Nat
  BY FederationAssumption DEF cascading, faults
<1>2. Min(cascading(p)) \in cascading(p)
  BY <1>1, Facts!NatHasLeast DEF Min
<1>3. PICK n \in cascading(p) : signature(p) = suspension[n].cause
  BY <1>2 DEF signature
<1>4. n \in Nodes /\ suspension[n] # Running /\ cascades(p, suspension[n].cause)
  BY <1>3 DEF cascading, faults
<1> QED
  BY <1>3, <1>4 DEF FederationInv, FederationTypeOK

\* A cascade that runs to its end deals with everyone it finds.
LEMMA AllAreFound ==
  ASSUME FederationInv, NEW p \in Nodes, cascading(p) # {}
  PROVE  p \in firstFound(buildTree, Cardinality(Nodes))
<1> DEFINE t == buildTree
           F == findings(t)
<1>1. Listing(t, <<>>, 2 * Total)
  BY TreeIsListed DEF FederationInv, FederationTypeOK, Pointers
<1>2. IsWhole(t)
  BY TreeOfPointers DEF FederationInv, FederationTypeOK, Pointers, TreeIsWhole
<1> HIDE DEF t
<1>3. ToSet(t) = Nodes /\ Len(t) = Cardinality(Nodes) /\ DOMAIN t = 1..Len(t)
  BY <1>1, <1>2, LenProperties DEF IsWhole, Listing
<1>4. PICK i \in DOMAIN t : t[i] = p
  BY <1>3 DEF ToSet
<1>5. i \in F
  BY <1>4 DEF findings
<1>6. F \cap 1..i \in SUBSET (1..Len(t))
  BY <1>3 DEF findings
<1>7. /\ IsFiniteSet(1..Len(t)) /\ Cardinality(1..Len(t)) = Len(t) /\ Len(t) \in Nat
  BY <1>3, TotalIsNat, FS_Interval DEF Total
<1>8. Cardinality(F \cap 1..i) <= Cardinality(Nodes)
  BY <1>3, <1>6, <1>7, FS_Subset
<1> QED
  BY <1>4, <1>5, <1>8 DEF firstFound, t

LEMMA CascadeWarns == FederationInv /\ [FederationNext]_federationVars => CascadeStep
<1> SUFFICES ASSUME FederationInv, Cascade, NEW p \in Nodes, repeating(p) # {}
             PROVE  repeating(p) \cap cascadeAlerts(record'[p]) # {}
  BY DEF CascadeStep
<1> DEFINE among(cause) ==
             {m \in Nodes : /\ parentOf[m] = p
                            /\ suspension[m] # Running
                            /\ suspension[m].cause = cause
                            /\ suspension[m].since + Window >= day}
<1>1. ASSUME NEW cause PROVE among(cause) = sharing(p, cause)
  <2>1. ASSUME NEW m \in Nodes, suspension[m] # Running
        PROVE  suspension[m].since + Window >= day <=> day - suspension[m].since <= Window
    <3>1. suspension[m].since \in Nat /\ day \in Nat /\ Window \in Nat
      BY <2>1, FederationAssumption DEF FederationInv, FederationTypeOK
    <3> QED
      BY <3>1
  <2> QED
    BY <2>1 DEF sharing, faults, recent
<1>2. repeating(p) = {cause \in Causes : cascades(p, cause)}
  <2>1. repeating(p) = {cause \in Causes : Cardinality(among(cause)) >= Trigger}
    BY DEF repeating
  <2> HIDE DEF among
  <2> QED
    BY <1>1, <2>1 DEF cascades
<1>3. PICK cause \in Causes : cascades(p, cause)
  BY <1>2
<1>4. cascading(p) # {}
  <2>1. sharing(p, cause) # {}
    <3>1. Cardinality(sharing(p, cause)) >= Trigger /\ Trigger \in Nat \ {0}
      BY <1>3, FederationAssumption DEF cascades
    <3> QED
      BY <3>1, FS_EmptySet
  <2>2. PICK m \in faults(p) : suspension[m].cause = cause
    BY <2>1 DEF sharing
  <2> QED
    BY <1>3, <2>2 DEF cascading
<1>5. signature(p) \in repeating(p)
  BY <1>2, <1>4, SignatureCascades
<1>6. record'[p] = recordOnNode(p)
  <2>1. p \in firstFound(buildTree, Cardinality(Nodes))
    BY <1>4, AllAreFound
  <2>2. RecordFirst(Cardinality(Nodes))
    BY DEF Cascade
  <2> QED
    BY <2>1, <2>2 DEF RecordFirst
<1>7. signature(p) \in cascadeAlerts(record'[p])
  <2>1. CASE signature(p) \in cascadeAlerts(record[p])
    BY <1>6, <2>1 DEF recordOnNode
  <2>2. CASE signature(p) \notin cascadeAlerts(record[p])
    <3> DEFINE e == Alert(signature(p), sharing(p, signature(p)))
    <3>1. record'[p] = Append(record[p], e)
      BY <1>6, <2>2 DEF recordOnNode
    <3>2. record[p] \in Seq(TreeEntry)
      BY DEF FederationInv, FederationTypeOK
    <3>3. e.type = "CASCADE_ALERT" /\ e.signature = signature(p)
      BY DEF Alert
    <3> HIDE DEF e
    <3>4. /\ Len(record[p]) + 1 \in DOMAIN record'[p]
          /\ record'[p][Len(record[p]) + 1] = e
      BY <3>1, <3>2
    <3> QED
      BY <3>3, <3>4 DEF cascadeAlerts
  <2> QED
    BY <2>1, <2>2
<1> QED
  BY <1>5, <1>7

-----------------------------------------------------------------------------
(***************************************************************************)
(* The theorems.                                                           *)
(***************************************************************************)
\* Every alert was true when it was given, and is given once: whatever was suspended,
\* resumed or killed before, and however the Charters point (checkCascade, cmdCascade).
THEOREM AlertsAreAlwaysTrue == FederationSpec => []AlertsAreTrue
<1>1. FederationInv => AlertsAreTrue
  BY DEF FederationInv
<1> QED
  BY <1>1, FederationInvHolds, PTL

\* A constraint set at the root holds all the way down, whatever the Charters declare
\* and however they point to one another (resolveInheritance).
THEOREM NothingEverOverridesUpward == FederationSpec => []NothingOverridesUpward
<1>1. FederationInv => NothingOverridesUpward
  BY InheritanceHolds DEF FederationInv
<1> QED
  BY <1>1, FederationInvHolds, PTL

\* The registry shows every session once, each under a root after its parent with only
\* descendants of that parent in between, for any number of sessions and however their
\* Charters point: to a missing session, to themselves, in a cycle (buildTree).
THEOREM TreeIsAlwaysWhole == FederationSpec => []TreeIsWhole
<1>1. FederationInv => TreeIsWhole
  BY TreeOfPointers DEF FederationInv, FederationTypeOK, Pointers
<1> QED
  BY <1>1, FederationInvHolds, PTL

\* A cascade command that runs to its end leaves no parent unwarned under which a cause
\* cascades, however large the tree (detectCascades, cmdCascade).
THEOREM ParentsAreAlwaysWarned == FederationSpec => EveryParentIsWarned
<1>1. FederationInv /\ [FederationNext]_federationVars => [CascadeStep]_federationVars
  BY CascadeWarns
<1> QED
  BY <1>1, FederationInvHolds, PTL DEF FederationSpec, EveryParentIsWarned
=============================================================================

---------------------------- MODULE HansardProofs ---------------------------
(***************************************************************************)
(* Facts about the queries of Hansard that the proofs about a session use. *)
(***************************************************************************)
EXTENDS Hansard, FiniteSetTheorems, SequenceTheorems, TLAPS

(***************************************************************************)
(* A non-empty set of positions of a record has a latest one.  The sets of *)
(* the positions from some k of K on are well-founded under inclusion, and *)
(* the least of them starts at the latest position.                        *)
(***************************************************************************)
LEMMA LatestIsLatest ==
  ASSUME NEW n \in Nat, NEW K \in SUBSET (1..n), K # {}
  PROVE  Latest(K) \in K /\ \A j \in K : j <= Latest(K)
<1> DEFINE From(k) == {j \in K : k <= j}
           Tails == {From(k) : k \in K}
<1>1. IsFiniteSet(1..n)
  BY FS_Interval
<1>2. Tails \subseteq FiniteSubsetsOf(1..n)
  BY <1>1, FS_Subset DEF FiniteSubsetsOf
<1>3. Tails # {}
  OBVIOUS
<1>4. IsWellFoundedOn(StrictSubsetOrdering(1..n), FiniteSubsetsOf(1..n))
  BY FS_StrictSubsetOrderingWellFounded
<1>5. PICK T \in Tails : \A U \in Tails : ~ (<<U, T>> \in StrictSubsetOrdering(1..n))
  BY <1>2, <1>3, <1>4, WFMin
<1>6. PICK k \in K : T = From(k)
  OBVIOUS
<1>7. ASSUME NEW j \in K
      PROVE  j <= k
  <2>1. SUFFICES ASSUME k < j PROVE FALSE
    OBVIOUS
  <2>2. From(j) \in Tails /\ From(j) \subseteq 1..n /\ T \subseteq 1..n
    BY <1>6
  <2>3. From(j) \subseteq T /\ From(j) # T
    <3>1. \A i \in From(j) : i \in From(k)
      BY <2>1
    <3>2. k \in From(k) /\ k \notin From(j)
      BY <2>1
    <3> QED
      BY <1>6, <3>1, <3>2
  <2>4. <<From(j), T>> \in StrictSubsetOrdering(1..n)
    BY <2>2, <2>3 DEF StrictSubsetOrdering
  <2> QED
    BY <1>5, <2>2, <2>4
<1> QED
  BY <1>7 DEF Latest

(***************************************************************************)
(* Induction, as a fact about sets of numbers.                             *)
(***************************************************************************)
LEMMA NatSetInduction ==
  ASSUME NEW K, 0 \in K, \A n \in Nat : n \in K => n + 1 \in K
  PROVE  Nat \subseteq K
<1> SUFFICES ASSUME Nat \ K # {} PROVE FALSE
  OBVIOUS
<1>1. PICK n \in Nat \ K : \A m \in Nat \ K : ~ (<<m, n>> \in OpToRel(<, Nat))
  BY NatLessThanWellFounded, WFMin
<1>2. n # 0 /\ n - 1 \in Nat
  OBVIOUS
<1>3. <<n - 1, n>> \in OpToRel(<, Nat)
  BY <1>2 DEF OpToRel
<1>4. n - 1 \in K
  BY <1>1, <1>2, <1>3
<1> QED
  BY <1>2, <1>4

LEMMA NatHasLeast ==
  ASSUME NEW S \in SUBSET Nat, S # {}
  PROVE  \E x \in S : \A y \in S : x <= y
<1>1. PICK x \in S : \A y \in S : ~ (<<y, x>> \in OpToRel(<, Nat))
  BY NatLessThanWellFounded, WFMin
<1>2. ASSUME NEW y \in S PROVE x <= y
  <2>1. y < x => <<y, x>> \in OpToRel(<, Nat)
    BY DEF OpToRel
  <2>2. ~ (y < x)
    BY <1>1, <2>1
  <2> QED
    BY <2>2
<1> QED
  BY <1>2

(***************************************************************************)
(* The elements of a finite set in an order R are one each at the places   *)
(* from 1 on, the place of each by how many come before it.                *)
(***************************************************************************)
Preceding(S, R, x) == {y \in S : <<y, x>> \in R}
Place(S, R, x) == Cardinality(Preceding(S, R, x)) + 1
Orders(R, S) ==
  /\ \A x \in S : <<x, x>> \notin R
  /\ \A x, y \in S : x # y => <<x, y>> \in R \/ <<y, x>> \in R
  /\ \A x, y, z \in S : <<x, y>> \in R /\ <<y, z>> \in R => <<x, z>> \in R

LEMMA PlacesAreOrdered ==
  ASSUME NEW S, IsFiniteSet(S), NEW R, Orders(R, S)
  PROVE  /\ \A x \in S : Place(S, R, x) \in 1..Cardinality(S)
         /\ \A x, y \in S : <<x, y>> \in R => Place(S, R, x) < Place(S, R, y)
         /\ \A i \in 1..Cardinality(S) : \E x \in S : Place(S, R, x) = i
         /\ \A x, y \in S : Place(S, R, x) = Place(S, R, y) => x = y
<1>1. \A x \in S : IsFiniteSet(Preceding(S, R, x)) /\ Cardinality(Preceding(S, R, x)) \in Nat
  <2> SUFFICES ASSUME NEW x \in S
               PROVE  IsFiniteSet(Preceding(S, R, x)) /\ Cardinality(Preceding(S, R, x)) \in Nat
    OBVIOUS
  <2>1. Preceding(S, R, x) \in SUBSET S
    BY DEF Preceding
  <2> QED
    BY <2>1, FS_Subset, FS_CardinalityType
<1>2. ASSUME NEW x \in S PROVE Place(S, R, x) \in 1..Cardinality(S)
  <2>1. Preceding(S, R, x) \in SUBSET S /\ Preceding(S, R, x) # S
    BY DEF Preceding, Orders
  <2>2. /\ Cardinality(Preceding(S, R, x)) <= Cardinality(S)
        /\ Cardinality(Preceding(S, R, x)) # Cardinality(S)
    BY <2>1, FS_Subset
  <2> QED
    BY <1>1, <2>2, FS_CardinalityType DEF Place
<1>3. ASSUME NEW x \in S, NEW y \in S, <<x, y>> \in R
      PROVE  Place(S, R, x) < Place(S, R, y)
  <2>1. /\ Preceding(S, R, x) \in SUBSET Preceding(S, R, y)
        /\ Preceding(S, R, x) # Preceding(S, R, y)
    BY <1>3 DEF Preceding, Orders
  <2>2. /\ Cardinality(Preceding(S, R, x)) <= Cardinality(Preceding(S, R, y))
        /\ Cardinality(Preceding(S, R, x)) # Cardinality(Preceding(S, R, y))
    BY <1>1, <2>1, FS_Subset
  <2> QED
    BY <1>1, <2>2 DEF Place
<1>4. ASSUME NEW x \in S, NEW y \in S, Place(S, R, x) = Place(S, R, y)
      PROVE  x = y
  <2>1. Place(S, R, x) \in Int /\ Place(S, R, y) \in Int
    BY <1>1 DEF Place
  <2>2. ~ (<<x, y>> \in R) /\ ~ (<<y, x>> \in R)
    BY <1>3, <1>4, <2>1
  <2> QED
    BY <2>2 DEF Orders
<1>5. ASSUME NEW i \in 1..Cardinality(S) PROVE \E x \in S : Place(S, R, x) = i
  <2> DEFINE place == [x \in S |-> Place(S, R, x)]
  <2>1. place \in Injection(S, 1..Cardinality(S))
    BY <1>2, <1>4 DEF Injection, IsInjective
  <2>2. Cardinality(S) \in Nat
    BY FS_CardinalityType
  <2>3. /\ IsFiniteSet(1..Cardinality(S)) 
        /\ Cardinality(1..Cardinality(S)) = Cardinality(S)
    BY <2>2, FS_Interval
  <2>4. place \in Surjection(S, 1..Cardinality(S))
    BY <2>1, <2>3, FS_Injection
  <2> QED
    BY <2>4 DEF Surjection
<1> QED
  BY <1>2, <1>3, <1>4, <1>5

(***************************************************************************)
(* What a recursion over 1..n defines, there is.                           *)
(***************************************************************************)
Runs(f, base, step, n) == f[0] = base /\ \A i \in 1..n : f[i] = step[i][f[i - 1]]

LEMMA RecursionExists ==
  ASSUME NEW n \in Nat, NEW T, NEW base \in T, NEW step \in [1..n -> [T -> T]]
  PROVE  \E f \in [0..n -> T] : Runs(f, base, step, n)
<1> DEFINE Upto(m, f) == f[0] = base /\ \A i \in 1..m : f[i] = step[i][f[i - 1]]
           K == {m \in Nat : m <= n => \E f \in [0..m -> T] : Upto(m, f)}
<1>1. 0 \in K
  <2>1. [i \in 0..0 |-> base] \in [0..0 -> T] /\ Upto(0, [i \in 0..0 |-> base])
    OBVIOUS
  <2> QED
    BY <2>1
<1>2. ASSUME NEW m \in Nat, m \in K PROVE m + 1 \in K
  <2> SUFFICES ASSUME m + 1 <= n PROVE \E f \in [0..(m + 1) -> T] : Upto(m + 1, f)
    OBVIOUS
  <2>1. PICK f \in [0..m -> T] : Upto(m, f)
    BY <1>2
  <2> DEFINE g == [i \in 0..(m + 1) |-> IF i <= m THEN f[i] ELSE step[m + 1][f[m]]]
  <2>2. /\ \A i \in 0..m : i \in 0..(m + 1) /\ i <= m
        /\ m + 1 \in 0..(m + 1) /\ ~ (m + 1 <= m) /\ m + 1 \in 1..n /\ m \in 0..m
        /\ \A i \in 0..(m + 1) : i \in 0..m \/ i = m + 1
    OBVIOUS
  <2>3. f[m] \in T /\ step[m + 1][f[m]] \in T
    BY <2>1, <2>2
  <2>4. /\ g \in [0..(m + 1) -> T]
        /\ \A i \in 0..m : g[i] = f[i]
        /\ g[m + 1] = step[m + 1][f[m]]
    BY <2>1, <2>2, <2>3
  <2> HIDE DEF g
  <2>5. ASSUME NEW i \in 1..(m + 1) PROVE g[i] = step[i][g[i - 1]]
    <3>1. CASE i = m + 1
      <4>1. i - 1 = m /\ m \in 0..m
        BY <3>1
      <4> QED
        BY <2>4, <3>1, <4>1
    <3>2. CASE i # m + 1
      <4>1. i \in 1..m /\ i \in 0..m /\ i - 1 \in 0..m
        BY <3>2
      <4> QED
        BY <2>1, <2>4, <4>1
    <3> QED
      BY <3>1, <3>2
  <2>6. g[0] = base
    BY <2>1, <2>4
  <2> QED
    BY <2>4, <2>5, <2>6
<1>3. n \in K
  <2> HIDE DEF K
  <2> QED
    BY <1>1, <1>2, NatSetInduction
<1> QED
  BY <1>3 DEF Runs

-----------------------------------------------------------------------------
(***************************************************************************)
(* What an entry holds.                                                    *)
(***************************************************************************)
LEMMA EntriesAreTyped ==
  /\ \A t \in PlainTypes : Plain(t) \in Entry
  /\ \A t \in MotionTypes, m \in Motions : OnMotion(t, m) \in Entry
  /\ \A m \in Motions, a \in Actors, v \in Votes, c \in BOOLEAN : VoteCast(m, a, v, c) \in Entry
  /\ \A t \in SeatTypes, a \in Actors, role \in Roles : Seating(t, a, role) \in Entry
  /\ \A a \in Actors, role \in Roles, b \in BOOLEAN : Exited(a, role, b) \in Entry
  /\ \A a \in Actors : Disputed(a) \in Entry
  /\ \A a \in Actors, ruling \in DisputeRulings : ExitRuling(a, ruling) \in Entry
  /\ \A a \in Actors, role \in Roles : CrisisFiled(a, role) \in Entry
  /\ \A ruling \in CrisisRulings : CrisisRuling(ruling) \in Entry
BY DEF Entry, Plain, OnMotion, VoteCast, Seating, Exited, Disputed, ExitRuling, CrisisFiled,
       CrisisRuling

LEMMA EntryFields ==
  ASSUME NEW e \in Entry
  PROVE  /\ e.type \in SeatTypes \cup {"ACTOR_EXITED"} => e.subject \in Actors /\ e.role \in Roles
         /\ e.type = "VOTE_CAST" =>
              e.motion \in Motions /\ e.actor \in Actors /\ e.vote \in Votes /\ e.casting \in BOOLEAN
BY DEF Entry, PlainTypes, MotionTypes, SeatTypes

(***************************************************************************)
(* A seat is read off a seat entry, and a last exit off an exit.           *)
(***************************************************************************)
LEMMA SeatIsOnRecord ==
  ASSUME NEW h \in Seq(Entry), NEW a \in Actors, Seated(h, a)
  PROVE  \E k \in DOMAIN h : h[k].type \in SeatTypes /\ seatOf(h, a) = h[k].role
<1> DEFINE K == About(h, a, SeatTypes)
<1>1. K \in SUBSET (1..Len(h)) /\ K # {}
  BY DEF About, Seated, SeatTypes
<1>2. Latest(K) \in K
  <2>1. Len(h) \in Nat
    OBVIOUS
  <2> HIDE DEF K
  <2> QED
    BY <1>1, <2>1, LatestIsLatest
<1>3. Latest(K) \in DOMAIN h /\ h[Latest(K)].type \in SeatTypes
  BY <1>1, <1>2 DEF About
<1> QED
  BY <1>3 DEF seatOf

LEMMA LastExitIsOnRecord ==
  ASSUME NEW h \in Seq(Entry), NEW a \in Actors, HasExited(h, a)
  PROVE  \E k \in DOMAIN h : h[k].type = "ACTOR_EXITED" /\ LastExit(h, a) = h[k]
<1> DEFINE K == About(h, a, {"ACTOR_EXITED"})
<1>1. K \in SUBSET (1..Len(h)) /\ K # {}
  BY DEF About, HasExited
<1>2. Latest(K) \in K
  <2>1. Len(h) \in Nat
    OBVIOUS
  <2> HIDE DEF K
  <2> QED
    BY <1>1, <2>1, LatestIsLatest
<1>3. Latest(K) \in DOMAIN h /\ h[Latest(K)].type = "ACTOR_EXITED"
  BY <1>1, <1>2 DEF About
<1> QED
  BY <1>3 DEF LastExit

(***************************************************************************)
(* A cull enters exits and nothing else, each in the name of its subject   *)
(* and from a role some seat entry of the record gave.                     *)
(***************************************************************************)
IsCullOf(h, e) ==
  \E a \in Actors, k \in DOMAIN h :
    h[k].type \in SeatTypes /\ e = Exited(a, h[k].role, TRUE)

LEMMA CullEntersExits ==
  ASSUME NEW h \in Seq(Entry), NEW m \in Motions, NEW policy,
         NEW f \in InOrder(Culled(h, m, policy))
  PROVE  /\ DarwinistExits(h, f) \in Seq(Entry)
         /\ \A i \in DOMAIN DarwinistExits(h, f) : IsCullOf(h, DarwinistExits(h, f)[i])
<1> DEFINE K == Culled(h, m, policy)
<1>1. K \in SUBSET (1..Len(h))
  BY DEF Culled, votesFor
<1>2. Cardinality(K) \in Nat
  <2>1. IsFiniteSet(1..Len(h))
    BY FS_Interval
  <2> HIDE DEF K
  <2> QED
    BY <1>1, <2>1, FS_Subset, FS_CardinalityType
<1>3. f \in [1..Cardinality(K) -> K]
  BY DEF InOrder
<1>4. ASSUME NEW i \in 1..Cardinality(K)
      PROVE  IsCullOf(h, Exited(h[f[i]].actor, seatOf(h, h[f[i]].actor), TRUE))
  <2>1. f[i] \in K
    BY <1>3
  <2>2. h[f[i]] \in Entry /\ h[f[i]].type = "VOTE_CAST" /\ Seated(h, h[f[i]].actor)
    BY <1>1, <2>1 DEF Culled, votesFor
  <2>3. h[f[i]].actor \in Actors
    BY <2>2, EntryFields
  <2> QED
    BY <2>2, <2>3, SeatIsOnRecord DEF IsCullOf
<1>5. DOMAIN f = 1..Cardinality(K)
  BY <1>3
<1>6. ASSUME NEW i \in 1..Cardinality(K)
      PROVE  Exited(h[f[i]].actor, seatOf(h, h[f[i]].actor), TRUE) \in Entry
  <2>1. PICK a \in Actors, k \in DOMAIN h :
          /\ h[k].type \in SeatTypes
          /\ Exited(h[f[i]].actor, seatOf(h, h[f[i]].actor), TRUE) = Exited(a, h[k].role, TRUE)
    BY <1>4 DEF IsCullOf
  <2>2. h[k] \in Entry
    OBVIOUS
  <2>3. h[k].role \in Roles
    BY <2>1, <2>2, EntryFields
  <2> QED
    BY <2>1, <2>3, EntriesAreTyped
<1>7. DarwinistExits(h, f) \in [1..Cardinality(K) -> Entry]
  BY <1>5, <1>6 DEF DarwinistExits
<1>8. DarwinistExits(h, f) \in Seq(Entry)
  BY <1>2, <1>7
<1> QED
  BY <1>4, <1>5, <1>7, <1>8 DEF DarwinistExits

-----------------------------------------------------------------------------
(***************************************************************************)
(* What a record says of the sitting once entries follow it.               *)
(***************************************************************************)
LEMMA Concatenated ==
  ASSUME NEW h \in Seq(Entry), NEW es \in Seq(Entry)
  PROVE  /\ h \o es \in Seq(Entry)
         /\ Len(h \o es) = Len(h) + Len(es)
         /\ DOMAIN h = 1..Len(h) /\ DOMAIN es = 1..Len(es)
         /\ DOMAIN (h \o es) = 1..(Len(h) + Len(es))
         /\ \A k \in 1..Len(h) : (h \o es)[k] = h[k]
         /\ \A k \in 1..Len(es) : (h \o es)[Len(h) + k] = es[k]
         /\ \A k \in 1..(Len(h) + Len(es)) :
              k \in 1..Len(h) \/ (\E i \in 1..Len(es) : k = Len(h) + i)
<1>1. Len(h) \in Nat /\ Len(es) \in Nat
  OBVIOUS
<1>2. h \o es \in Seq(Entry) /\ Len(h \o es) = Len(h) + Len(es)
  OBVIOUS
<1>3. DOMAIN h = 1..Len(h) /\ DOMAIN es = 1..Len(es)
      /\ DOMAIN (h \o es) = 1..(Len(h) + Len(es))
  BY <1>2
<1>4. \A k \in 1..Len(h) : (h \o es)[k] = h[k]
  OBVIOUS
<1>5. \A k \in 1..Len(es) : (h \o es)[Len(h) + k] = es[k]
  OBVIOUS
<1>6. ASSUME NEW k \in 1..(Len(h) + Len(es)), k \notin 1..Len(h)
      PROVE  \E i \in 1..Len(es) : k = Len(h) + i
  <2>1. k - Len(h) \in 1..Len(es) /\ k = Len(h) + (k - Len(h))
    BY <1>1, <1>6
  <2> QED
    BY <2>1
<1> QED
  BY <1>2, <1>3, <1>4, <1>5, <1>6

LEMMA PairOfEntries ==
  ASSUME NEW e \in Entry, NEW f \in Entry
  PROVE  Append(<<e>>, f) = <<e, f>> /\ <<e>> \o <<f>> = <<e, f>>
<1>1. <<e>> \in Seq(Entry) /\ <<f>> \in Seq(Entry) /\ <<e, f>> \in Seq(Entry)
  OBVIOUS
<1>2. Len(<<e>>) = 1 /\ Len(<<f>>) = 1 /\ Len(<<e, f>>) = 2
  OBVIOUS
<1>3. /\ Append(<<e>>, f) \in Seq(Entry) /\ Len(Append(<<e>>, f)) = 2
      /\ Append(<<e>>, f)[1] = e /\ Append(<<e>>, f)[2] = f
  BY <1>1, <1>2
<1>4. /\ <<e>> \o <<f>> \in Seq(Entry) /\ Len(<<e>> \o <<f>>) = 2
      /\ (<<e>> \o <<f>>)[1] = e /\ (<<e>> \o <<f>>)[2] = f
  BY <1>1, <1>2
<1>5. <<e, f>>[1] = e /\ <<e, f>>[2] = f /\ 1..2 = {1, 2}
  OBVIOUS
<1>6. Append(<<e>>, f) = <<e, f>>
  BY <1>1, <1>2, <1>3, <1>5, SeqEqual
<1>7. <<e>> \o <<f>> = <<e, f>>
  BY <1>1, <1>2, <1>4, <1>5, SeqEqual
<1> QED
  BY <1>6, <1>7

\* Entries that do not bear on the sitting change nothing of what was said of it.
LEMMA NeutralEntriesSayNothing ==
  ASSUME NEW h \in Seq(Entry), NEW es \in Seq(Entry), NEW n \in 0..Len(es), NEW s, NEW c,
         SaysOfSitting(h, Len(h), s, c),
         \A i \in 1..n : ~BearsState(es[i])
  PROVE  SaysOfSitting(h \o es, Len(h) + n, s, c)
<1>1. PICK k \in 1..Len(h) :
        Leaves(h[k], s, c) /\ \A j \in (k + 1)..Len(h) : ~BearsState(h[j])
  BY DEF SaysOfSitting
<1>2. k \in 1..(Len(h) + n) /\ Leaves((h \o es)[k], s, c)
  BY <1>1, Concatenated
<1>3. ASSUME NEW j \in (k + 1)..(Len(h) + n)
      PROVE  ~BearsState((h \o es)[j])
  <2>1. CASE j \in 1..Len(h)
    BY <1>1, <2>1, Concatenated
  <2>2. CASE j \notin 1..Len(h)
    <3>1. j - Len(h) \in 1..n /\ j - Len(h) \in 1..Len(es)
      BY <2>2
    <3>2. (h \o es)[j] = es[j - Len(h)]
      BY <3>1, Concatenated
    <3> QED
      BY <3>1, <3>2
  <2> QED
    BY <2>1, <2>2
<1> QED
  BY <1>2, <1>3 DEF SaysOfSitting

\* What the entries say overrides what was said before them.
LEMMA EntriesOverrideRecord ==
  ASSUME NEW h \in Seq(Entry), NEW es \in Seq(Entry), NEW n \in 0..Len(es), NEW s, NEW c,
         SaysOfSitting(es, n, s, c)
  PROVE  SaysOfSitting(h \o es, Len(h) + n, s, c)
<1>1. PICK i \in 1..n : Leaves(es[i], s, c) /\ \A j \in (i + 1)..n : ~BearsState(es[j])
  BY DEF SaysOfSitting
<1>2. Len(h) + i \in 1..(Len(h) + n) /\ Leaves((h \o es)[Len(h) + i], s, c)
  BY <1>1, Concatenated
<1>3. ASSUME NEW j \in (Len(h) + i + 1)..(Len(h) + n)
      PROVE  ~BearsState((h \o es)[j])
  <2>1. j - Len(h) \in (i + 1)..n /\ j - Len(h) \in 1..Len(es)
    OBVIOUS
  <2>2. (h \o es)[j] = es[j - Len(h)]
    BY <2>1, Concatenated
  <2> QED
    BY <1>1, <2>1, <2>2
<1> QED
  BY <1>2, <1>3 DEF SaysOfSitting

\* A prefix of the record says the same whatever follows it.
LEMMA PrefixSaysTheSame ==
  ASSUME NEW h \in Seq(Entry), NEW es \in Seq(Entry), NEW n \in 0..Len(h), NEW s, NEW c,
         SaysOfSitting(h, n, s, c)
  PROVE  SaysOfSitting(h \o es, n, s, c)
<1>1. PICK k \in 1..n : Leaves(h[k], s, c) /\ \A j \in (k + 1)..n : ~BearsState(h[j])
  BY DEF SaysOfSitting
<1>2. Leaves((h \o es)[k], s, c)
  BY <1>1, Concatenated
<1>3. \A j \in (k + 1)..n : ~BearsState((h \o es)[j])
  BY <1>1, Concatenated
<1> QED
  BY <1>2, <1>3 DEF SaysOfSitting

\* Which entries bear on the sitting.
LEMMA StateBearers ==
  ASSUME NEW e
  PROVE  BearsState(e) <=>
           \/ e.type \in {"WRIT_DROP", "ASSENT_GRANTED", "RULING", "EXIT_RULING",
                          "SESSION_RESUMED", "POINT_OF_ORDER", "DEADLOCK", "EXIT_DISPUTED",
                          "CONSTITUTIONAL_CRISIS", "SESSION_TIMEOUT", "SESSION_STALE",
                          "SESSION_INVALID", "CONSTITUTIONAL_CRISIS_RULING"}
           \/ e.type = "VOTE_CAST" /\ e.casting
BY DEF BearsState, Convening, Suspends, Ending, Causes, States

-----------------------------------------------------------------------------
(***************************************************************************)
(* The seat of an actor as the record goes on: no entry but a hiring, a    *)
(* move or an exit of theirs changes it.                                   *)
(***************************************************************************)
SeatChanges == SeatTypes \cup {"ACTOR_EXITED"}

\* The seat of a by the first n entries.
SeatedBy(h, n, a) ==
  \E k \in About(h, a, {"ACTOR_HIRED"}) \cap 1..n :
    \A j \in About(h, a, {"ACTOR_EXITED"}) \cap 1..n : j < k
SeatBy(h, n, a) ==
  IF SeatedBy(h, n, a) THEN h[Latest(About(h, a, SeatTypes) \cap 1..n)].role ELSE NoSeat

LEMMA RolesAreNotNoSeat == NoSeat \notin Roles
  BY DEF NoSeat, Roles

LEMMA SeatOfIsByAll ==
  ASSUME NEW h \in Seq(Entry), NEW a
  PROVE  seatOf(h, a) = SeatBy(h, Len(h), a)
<1>1. ASSUME NEW T
      PROVE  About(h, a, T) \cap 1..Len(h) = About(h, a, T)
  BY DEF About
<1> QED
  BY <1>1 DEF seatOf, SeatBy, Seated, SeatedBy

\* The latest seat of who sits by then is one of theirs.
LEMMA SeatByIsOnRecord ==
  ASSUME NEW h \in Seq(Entry), NEW n \in 0..Len(h), NEW a, SeatedBy(h, n, a)
  PROVE  /\ Latest(About(h, a, SeatTypes) \cap 1..n) \in About(h, a, SeatTypes) \cap 1..n
         /\ SeatBy(h, n, a) \in Roles
<1> DEFINE K == About(h, a, SeatTypes) \cap 1..n
<1>1. n \in Nat /\ K \in SUBSET (1..n) /\ K # {}
  BY DEF About, SeatedBy, SeatTypes
<1>2. Latest(K) \in K
  <2> HIDE DEF K
  <2> QED
    BY <1>1, LatestIsLatest
<1>3. Latest(K) \in DOMAIN h /\ h[Latest(K)].type \in SeatTypes
  BY <1>2 DEF About
<1>4. h[Latest(K)].role \in Roles
  <2>1. h[Latest(K)] \in Entry
    BY <1>3
  <2> QED
    BY <1>3, <2>1, EntryFields
<1> QED
  BY <1>2, <1>4 DEF SeatBy

\* What follows and is not about a leaves a's seat.
LEMMA SeatByStays ==
  ASSUME NEW h \in Seq(Entry), NEW g \in Seq(Entry), NEW a,
         NEW m \in 0..Len(h), NEW n \in m..Len(g),
         \A k \in 1..m : g[k] = h[k],
         \A k \in (m + 1)..n : ~ (g[k].type \in SeatChanges /\ g[k].subject = a)
  PROVE  SeatBy(g, n, a) = SeatBy(h, m, a)
<1>1. /\ m \in Nat /\ n \in Nat /\ m <= n
      /\ DOMAIN h = 1..Len(h) /\ DOMAIN g = 1..Len(g)
      /\ 1..m \subseteq DOMAIN h /\ 1..n \subseteq DOMAIN g
  OBVIOUS
<1>2. ASSUME NEW T \in SUBSET SeatChanges
      PROVE  About(g, a, T) \cap 1..n = About(h, a, T) \cap 1..m
  <2>1. \A k \in 1..n : k \in 1..m \/ k \in (m + 1)..n
    BY <1>1
  <2>2. \A k \in 1..m : k \in 1..n
    BY <1>1
  <2> QED
    BY <1>1, <2>1, <2>2 DEF About
<1>3. {"ACTOR_HIRED"} \in SUBSET SeatChanges /\ {"ACTOR_EXITED"} \in SUBSET SeatChanges
      /\ SeatTypes \in SUBSET SeatChanges
  BY DEF SeatChanges, SeatTypes
<1>4. SeatedBy(g, n, a) <=> SeatedBy(h, m, a)
  BY <1>2, <1>3 DEF SeatedBy
<1>5. CASE SeatedBy(h, m, a)
  <2> DEFINE k == Latest(About(h, a, SeatTypes) \cap 1..m)
  <2>1. k \in 1..m
    BY <1>5, SeatByIsOnRecord
  <2>2. About(g, a, SeatTypes) \cap 1..n = About(h, a, SeatTypes) \cap 1..m
    BY <1>2, <1>3
  <2>3. g[k] = h[k]
    BY <2>1
  <2> QED
    BY <1>4, <1>5, <2>2, <2>3 DEF SeatBy
<1> QED
  BY <1>4, <1>5 DEF SeatBy

=============================================================================

-------------------------- MODULE TournamentProofs --------------------------
(***************************************************************************)
(* What holds of every event, whatever the field, the formats, the lengths *)
(* of the series and the seed orders.                                      *)
(***************************************************************************)
EXTENDS Tournament, HansardProofs

-----------------------------------------------------------------------------
(***************************************************************************)
(* The invariant.                                                          *)
(***************************************************************************)
Ids == {id \in [round : Nat, a : Actors, b : Actors \cup {Bye}] : id.a # id.b}
MatchEntry ==
  [type : {"MATCH_CREATED"}, match : Ids, bestOf : Nat]
    \cup [type : {"MATCH_GAME"}, match : Ids, winner : Actors]
    \cup [type : {"MATCH_DECIDED"}, match : Ids, winner : Actors, loser : Actors \cup {Bye}]
Event == Entry \cup MatchEntry

Creates(h, k, id) == h[k].type = "MATCH_CREATED" /\ h[k].match = id

\* A bye and its result stand side by side; any other result is of a match that was
\* created before, and is won by one of its parties against the other.
TracedAt(h, k) ==
  LET id == h[k].match
  IN /\ (h[k].type = "MATCH_CREATED" /\ id.b = Bye) =>
          k + 1 \in DOMAIN h /\ h[k + 1] = Decided(id, id.a, Bye)
     /\ h[k].type = "MATCH_GAME" => id.b # Bye /\ \E j \in 1..(k - 1) : Creates(h, j, id)
     /\ (h[k].type = "MATCH_DECIDED" /\ id.b = Bye) =>
          h[k] = Decided(id, id.a, Bye) /\ k - 1 \in DOMAIN h /\ Creates(h, k - 1, id)
     /\ (h[k].type = "MATCH_DECIDED" /\ id.b # Bye) =>
          /\ \E j \in 1..(k - 1) : Creates(h, j, id)
          /\ h[k].winner \in {id.a, id.b} /\ h[k].loser = loserOf(id, h[k].winner)
Traced(h) == \A k \in DOMAIN h : TracedAt(h, k)

\* A match of two is created once and decided once, its games before.
Single(h) ==
  \A j, k \in DOMAIN h :
    (h[j].type \in MatchTypes /\ h[k].type \in MatchTypes
       /\ h[j].match = h[k].match /\ h[k].match.b # Bye) =>
      /\ (h[j].type = h[k].type /\ h[k].type # "MATCH_GAME") => j = k
      /\ (h[j].type = "MATCH_GAME" /\ h[k].type = "MATCH_DECIDED") => j < k

\* A series is decided for whoever has most of its games, and only then.
MajorityAt(h, id) ==
  bestOfIn(h, id) > 1 => \A x \in {id.a, id.b} :
    2 * gamesWon(h, id, x) > bestOfIn(h, id) <=> isDecided(h, id) /\ winnerOf(h, id) = x
MajorityDecides(h) == \A id \in matches(h) : id.b # Bye => MajorityAt(h, id)

Sound(h) == Traced(h) /\ Single(h) /\ MajorityDecides(h)

\* A bracket: nobody left or voted, whoever plays is undefeated and plays one match,
\* and who has no match to play has won once in each round.
Playing(h, x) == \E id \in openMatches(h) : x \in {id.a, id.b}
Level(h, x, n) ==
  IF losses(h, x) > 0 THEN wins(h, x) < n
  ELSE IF Playing(h, x) THEN wins(h, x) = n - 1 ELSE wins(h, x) = n
Bracket(h) ==
  /\ \A k \in DOMAIN h : h[k].type \notin {"ACTOR_EXITED", "VOTE_CAST"}
  /\ \A id \in matches(h) : {id.a, id.b} \subseteq contestants(h) \cup {Bye}
  /\ \A id \in openMatches(h) : {id.a, id.b} \subseteq undefeated(h)
  /\ \A id, other \in openMatches(h) : {id.a, id.b} \cap {other.a, other.b} # {} => id = other
  /\ undefeated(h) # {}
  /\ \E n \in Nat : \A x \in contestants(h) : Level(h, x, n)

EventTypeOK ==
  /\ charter \in Charters /\ state \in States /\ suspension \in Causes \cup {NoCause}
  /\ hansard \in Seq(Event)
  /\ knockout \in BOOLEAN

EventInv ==
  /\ EventTypeOK
  /\ Sound(hansard)
  /\ knockout => Bracket(hansard)

-----------------------------------------------------------------------------
(***************************************************************************)
(* A record and the entries that follow it.                                *)
(***************************************************************************)
IsJoined(g, h, es) ==
  /\ Len(h) \in Nat /\ Len(es) \in Nat /\ Len(g) = Len(h) + Len(es)
  /\ DOMAIN h = 1..Len(h) /\ DOMAIN es = 1..Len(es)
  /\ DOMAIN g = 1..(Len(h) + Len(es))
  /\ \A k \in 1..Len(h) : g[k] = h[k] /\ k \in 1..(Len(h) + Len(es))
  /\ \A k \in 1..Len(es) : g[Len(h) + k] = es[k] /\ Len(h) + k \in 1..(Len(h) + Len(es))
  /\ \A k \in 1..(Len(h) + Len(es)) :
       k \in 1..Len(h) \/ (\E i \in 1..Len(es) : k = Len(h) + i)

LEMMA Joined ==
  ASSUME NEW S, NEW h \in Seq(S), NEW es \in Seq(S)
  PROVE  /\ h \o es \in Seq(S)
         /\ IsJoined(h \o es, h, es)
<1>1. Len(h) \in Nat /\ Len(es) \in Nat
  OBVIOUS
<1>2. h \o es \in Seq(S) /\ Len(h \o es) = Len(h) + Len(es)
  OBVIOUS
<1>3. DOMAIN h = 1..Len(h) /\ DOMAIN es = 1..Len(es)
      /\ DOMAIN (h \o es) = 1..(Len(h) + Len(es))
  BY <1>2
<1>4. \A k \in 1..Len(h) : (h \o es)[k] = h[k] /\ k \in 1..(Len(h) + Len(es))
  OBVIOUS
<1>5. \A k \in 1..Len(es) : (h \o es)[Len(h) + k] = es[k] /\ Len(h) + k \in 1..(Len(h) + Len(es))
  OBVIOUS
<1>6. ASSUME NEW k \in 1..(Len(h) + Len(es)), k \notin 1..Len(h)
      PROVE  \E i \in 1..Len(es) : k = Len(h) + i
  <2>1. k - Len(h) \in 1..Len(es) /\ k = Len(h) + (k - Len(h))
    BY <1>1, <1>6
  <2> QED
    BY <2>1
<1> QED
  BY <1>1, <1>2, <1>3, <1>4, <1>5, <1>6 DEF IsJoined

\* The positions n further on.
Shifted(n, K) == {n + i : i \in K}
Positions(K, n) == n \in Nat /\ K \subseteq 1..n
Joins(U, K, n, L) == U = K \cup Shifted(n, L)

LEMMA ShiftedCount ==
  ASSUME NEW n, NEW m, NEW K, NEW L, NEW U,
         Positions(K, n), Positions(L, m), Joins(U, K, n, L)
  PROVE  /\ Cardinality(K) \in Nat /\ Cardinality(L) \in Nat
         /\ Cardinality(U) = Cardinality(K) + Cardinality(L)
<1>0. n \in Nat /\ m \in Nat /\ K \in SUBSET (1..n) /\ L \in SUBSET (1..m)
  BY DEF Positions
<1>1. IsFiniteSet(1..n) /\ IsFiniteSet(1..m)
  BY <1>0, FS_Interval
<1>2. IsFiniteSet(K) /\ IsFiniteSet(L) /\ Cardinality(K) \in Nat /\ Cardinality(L) \in Nat
  BY <1>0, <1>1, FS_Subset, FS_CardinalityType
<1> DEFINE f == [i \in L |-> n + i]
           T == Shifted(n, L)
<1>3. f \in Bijection(L, T)
  <2>1. f \in [L -> T]
    BY DEF Shifted
  <2>2. \A i, j \in L : f[i] = f[j] => i = j
    BY <1>0
  <2>3. \A t \in T : \E i \in L : f[i] = t
    BY DEF Shifted
  <2> QED
    BY <2>1, <2>2, <2>3 DEF Bijection, Injection, Surjection, IsInjective
<1>4. IsFiniteSet(T) /\ Cardinality(T) = Cardinality(L)
  BY <1>2, <1>3, FS_Bijection DEF ExistsBijection
<1>5. K \cap T = {}
  <2> SUFFICES ASSUME NEW k \in K, NEW i \in L PROVE k # n + i
    BY DEF Shifted
  <2> QED
    BY <1>0
<1>6. Cardinality(K \cap T) = 0
  BY <1>5, FS_EmptySet
<1> HIDE DEF T
<1>7. Cardinality(K \cup T) = Cardinality(K) + Cardinality(T) - Cardinality(K \cap T)
  BY <1>2, <1>4, FS_Union
<1>8. Cardinality(K \cup T) = Cardinality(K) + Cardinality(L)
  BY <1>2, <1>4, <1>6, <1>7
<1> QED
  BY <1>2, <1>8 DEF T, Joins

-----------------------------------------------------------------------------
(***************************************************************************)
(* What each question asked of the record answers once entries follow it.  *)
(***************************************************************************)
LEMMA OfJoined ==
  ASSUME NEW h \in Seq(Event), NEW es \in Seq(Event), NEW t, NEW id
  PROVE  /\ Of(h \o es, t, id) = Of(h, t, id) \cup Shifted(Len(h), Of(es, t, id))
         /\ Of(h, t, id) \in SUBSET (1..Len(h)) /\ Of(es, t, id) \in SUBSET (1..Len(es))
<1> DEFINE g == h \o es
<1>1. IsJoined(g, h, es)
  BY Joined
<1> HIDE DEF g
<1>3. Of(g, t, id) \subseteq Of(h, t, id) \cup Shifted(Len(h), Of(es, t, id))
  <2> SUFFICES ASSUME NEW k \in DOMAIN g, g[k].type = t, g[k].match = id
               PROVE  k \in Of(h, t, id) \cup Shifted(Len(h), Of(es, t, id))
    BY DEF Of
  <2>1. CASE k \in 1..Len(h)
    BY <1>1, <2>1 DEF Of, IsJoined
  <2>2. CASE \E i \in 1..Len(es) : k = Len(h) + i
    <3>1. PICK i \in 1..Len(es) : k = Len(h) + i
      BY <2>2
    <3>2. i \in Of(es, t, id)
      BY <1>1, <3>1 DEF Of, IsJoined
    <3> QED
      BY <3>1, <3>2 DEF Shifted
  <2> QED
    BY <1>1, <2>1, <2>2 DEF IsJoined
<1>4. Of(h, t, id) \subseteq Of(g, t, id)
  BY <1>1 DEF Of, IsJoined
<1>5. Shifted(Len(h), Of(es, t, id)) \subseteq Of(g, t, id)
  BY <1>1 DEF Of, Shifted, IsJoined
<1> QED
  BY <1>1, <1>3, <1>4, <1>5 DEF Of, g, IsJoined

LEMMA MatchesJoined ==
  ASSUME NEW h \in Seq(Event), NEW es \in Seq(Event)
  PROVE  /\ matches(h \o es) = matches(h) \cup matches(es)
         /\ \A id : isDecided(h \o es, id) <=> isDecided(h, id) \/ isDecided(es, id)
<1>1. \A g \in Seq(Event) : \A id : id \in matches(g) <=> Of(g, "MATCH_CREATED", id) # {}
  BY DEF matches, Of
<1>2. h \o es \in Seq(Event)
  BY Joined
<1>3. \A K : Shifted(Len(h), K) # {} <=> K # {}
  BY DEF Shifted
<1>4. \A t, id : Of(h \o es, t, id) # {} <=> Of(h, t, id) # {} \/ Of(es, t, id) # {}
  BY <1>3, OfJoined
<1> QED
  BY <1>1, <1>2, <1>4 DEF isDecided

\* The results x won, and those x lost.
wonBy(h, x) == {k \in decisions(h) : h[k].winner = x}
lostBy(h, x) == {k \in decisions(h) : h[k].loser = x}

LEMMA ResultsJoined ==
  ASSUME NEW h \in Seq(Event), NEW es \in Seq(Event), NEW x
  PROVE  /\ Cardinality(wonBy(h \o es, x)) = Cardinality(wonBy(h, x)) + Cardinality(wonBy(es, x))
         /\ Cardinality(lostBy(h \o es, x)) = Cardinality(lostBy(h, x)) + Cardinality(lostBy(es, x))
<1> DEFINE g == h \o es
<1>1. IsJoined(g, h, es)
  BY Joined
<1> HIDE DEF g
<1>3. wonBy(g, x) = wonBy(h, x) \cup Shifted(Len(h), wonBy(es, x))
  <2>1. ASSUME NEW k \in wonBy(g, x) PROVE k \in wonBy(h, x) \cup Shifted(Len(h), wonBy(es, x))
    <3>1. CASE k \in 1..Len(h)
      BY <1>1, <2>1, <3>1 DEF wonBy, decisions, IsJoined
    <3>2. CASE \E i \in 1..Len(es) : k = Len(h) + i
      <4>1. PICK i \in 1..Len(es) : k = Len(h) + i
        BY <3>2
      <4>2. i \in wonBy(es, x)
        BY <1>1, <2>1, <4>1 DEF wonBy, decisions, IsJoined
      <4> QED
        BY <4>1, <4>2 DEF Shifted
    <3>3. k \in DOMAIN g
      BY <2>1 DEF wonBy, decisions
    <3> QED
      BY <1>1, <3>1, <3>2, <3>3 DEF IsJoined
  <2>2. wonBy(h, x) \subseteq wonBy(g, x)
    BY <1>1 DEF wonBy, decisions, IsJoined
  <2>3. Shifted(Len(h), wonBy(es, x)) \subseteq wonBy(g, x)
    BY <1>1 DEF wonBy, decisions, Shifted, IsJoined
  <2> QED
    BY <2>1, <2>2, <2>3
<1>4. lostBy(g, x) = lostBy(h, x) \cup Shifted(Len(h), lostBy(es, x))
  <2>1. ASSUME NEW k \in lostBy(g, x) PROVE k \in lostBy(h, x) \cup Shifted(Len(h), lostBy(es, x))
    <3>1. CASE k \in 1..Len(h)
      BY <1>1, <2>1, <3>1 DEF lostBy, decisions, IsJoined
    <3>2. CASE \E i \in 1..Len(es) : k = Len(h) + i
      <4>1. PICK i \in 1..Len(es) : k = Len(h) + i
        BY <3>2
      <4>2. i \in lostBy(es, x)
        BY <1>1, <2>1, <4>1 DEF lostBy, decisions, IsJoined
      <4> QED
        BY <4>1, <4>2 DEF Shifted
    <3>3. k \in DOMAIN g
      BY <2>1 DEF lostBy, decisions
    <3> QED
      BY <1>1, <3>1, <3>2, <3>3 DEF IsJoined
  <2>2. lostBy(h, x) \subseteq lostBy(g, x)
    BY <1>1 DEF lostBy, decisions, IsJoined
  <2>3. Shifted(Len(h), lostBy(es, x)) \subseteq lostBy(g, x)
    BY <1>1 DEF lostBy, decisions, Shifted, IsJoined
  <2> QED
    BY <2>1, <2>2, <2>3
<1>5. /\ Positions(wonBy(h, x), Len(h)) /\ Positions(wonBy(es, x), Len(es))
      /\ Positions(lostBy(h, x), Len(h)) /\ Positions(lostBy(es, x), Len(es))
  BY <1>1 DEF wonBy, lostBy, decisions, Positions, IsJoined
<1>6. /\ Joins(wonBy(g, x), wonBy(h, x), Len(h), wonBy(es, x))
      /\ Joins(lostBy(g, x), lostBy(h, x), Len(h), lostBy(es, x))
  BY <1>3, <1>4 DEF Joins
<1>7. Cardinality(wonBy(g, x)) = Cardinality(wonBy(h, x)) + Cardinality(wonBy(es, x))
  BY <1>5, <1>6, ShiftedCount
<1>8. Cardinality(lostBy(g, x)) = Cardinality(lostBy(h, x)) + Cardinality(lostBy(es, x))
  BY <1>5, <1>6, ShiftedCount
<1> QED
  BY <1>7, <1>8 DEF g

\* Entries of matches move no seat and cast no vote.
LEMMA FieldJoined ==
  ASSUME NEW h \in Seq(Event), NEW es \in Seq(MatchEntry)
  PROVE  /\ es \in Seq(Event)
         /\ \A x, T : (T \subseteq SeatTypes \cup {"ACTOR_EXITED"}) =>
                         About(h \o es, x, T) = About(h, x, T)
         /\ contestants(h \o es) = contestants(h)
         /\ \A x, b : scoredVotes(h \o es, x, b) = scoredVotes(h, x, b)
         /\ \A m : votesFor(h \o es, m) = votesFor(h, m)
<1> DEFINE g == h \o es
<1>0. es \in Seq(Event)
  BY DEF Event
<1>1. IsJoined(g, h, es)
  BY <1>0, Joined
<1> HIDE DEF g
<1>3. \A i \in 1..Len(es) : es[i].type \in MatchTypes
  BY <1>1 DEF MatchEntry, MatchTypes, IsJoined
<1>4. \A k \in DOMAIN g : g[k].type \notin MatchTypes => k \in DOMAIN h
  BY <1>1, <1>3 DEF IsJoined
<1>5. \A x, T : (T \subseteq SeatTypes \cup {"ACTOR_EXITED"}) => About(g, x, T) = About(h, x, T)
  <2> SUFFICES ASSUME NEW x, NEW T, T \subseteq SeatTypes \cup {"ACTOR_EXITED"}
               PROVE  About(g, x, T) = About(h, x, T)
    OBVIOUS
  <2>1. T \cap MatchTypes = {}
    BY DEF SeatTypes, MatchTypes
  <2> QED
    BY <1>1, <1>4, <2>1 DEF About, IsJoined
<1>6. contestants(g) = contestants(h)
  <2>1. {"ACTOR_HIRED"} \subseteq SeatTypes \cup {"ACTOR_EXITED"}
        /\ {"ACTOR_EXITED"} \subseteq SeatTypes \cup {"ACTOR_EXITED"}
    BY DEF SeatTypes
  <2> QED
    BY <1>5, <2>1 DEF contestants, Seated
<1>7. \A m : votesFor(g, m) = votesFor(h, m)
  <2>1. "VOTE_CAST" \notin MatchTypes
    BY DEF MatchTypes
  <2> QED
    BY <1>1, <1>4, <2>1 DEF votesFor, IsJoined
<1>8. \A m : {k \in DOMAIN g : g[k].type \in Outcomes /\ g[k].motion = m}
               = {k \in DOMAIN h : h[k].type \in Outcomes /\ h[k].motion = m}
  <2>1. Outcomes \cap MatchTypes = {}
    BY DEF MatchTypes, Outcomes
  <2> QED
    BY <1>1, <1>4, <2>1 DEF IsJoined
<1>9. \A x, b : scoredVotes(g, x, b) = scoredVotes(h, x, b)
  <2> SUFFICES ASSUME NEW x, NEW b PROVE scoredVotes(g, x, b) = scoredVotes(h, x, b)
    OBVIOUS
  <2>1. ASSUME NEW m \in Motions
        PROVE  /\ {k \in votesFor(g, m) : g[k].actor = x} = {k \in votesFor(h, m) : h[k].actor = x}
               /\ {k \in votesFor(h, m) : h[k].actor = x} \in SUBSET (1..Len(h))
    BY <1>1, <1>7 DEF votesFor, IsJoined
  <2>2. \A K \in SUBSET (1..Len(h)) : K # {} => g[Latest(K)] = h[Latest(K)]
    BY <1>1, LatestIsLatest DEF IsJoined
  <2>3. \A m : {k \in DOMAIN h : h[k].type \in Outcomes /\ h[k].motion = m} \in SUBSET (1..Len(h))
    BY <1>1 DEF IsJoined
  <2>4. ASSUME NEW m \in Motions
        PROVE  m \in scoredVotes(g, x, b) <=> m \in scoredVotes(h, x, b)
    <3> DEFINE cast == {k \in votesFor(h, m) : h[k].actor = x}
               outcomes == {k \in DOMAIN h : h[k].type \in Outcomes /\ h[k].motion = m}
               Says(f) == b = ((f[Latest(cast)].vote = "AYE")
                                 = (f[Latest(outcomes)].type = "MOTION_CARRIED"))
    <3>1. m \in scoredVotes(h, x, b) <=>
            cast # {} /\ outcomes # {} /\ h[Latest(cast)].vote # "ABSTAIN" /\ Says(h)
      BY DEF scoredVotes
    <3>2. m \in scoredVotes(g, x, b) <=>
            cast # {} /\ outcomes # {} /\ g[Latest(cast)].vote # "ABSTAIN" /\ Says(g)
      BY <1>8, <2>1 DEF scoredVotes
    <3>3. cast # {} => g[Latest(cast)] = h[Latest(cast)]
      BY <2>1, <2>2
    <3>4. outcomes # {} => g[Latest(outcomes)] = h[Latest(outcomes)]
      BY <2>2, <2>3
    <3> QED
      BY <3>1, <3>2, <3>3, <3>4
  <2> QED
    BY <2>4 DEF scoredVotes
<1> QED
  BY <1>0, <1>5, <1>6, <1>7, <1>9 DEF g

-----------------------------------------------------------------------------
LEMMA GamesJoined ==
  ASSUME NEW h \in Seq(Event), NEW es \in Seq(Event), NEW id, NEW x
  PROVE  /\ gamesWon(h, id, x) \in Nat /\ gamesWon(es, id, x) \in Nat
         /\ gamesWon(h \o es, id, x) = gamesWon(h, id, x) + gamesWon(es, id, x)
<1> DEFINE g == h \o es
           Won(f) == {k \in Of(f, "MATCH_GAME", id) : f[k].winner = x}
<1>1. IsJoined(g, h, es)
  BY Joined
<1>2. /\ Of(g, "MATCH_GAME", id) = Of(h, "MATCH_GAME", id) \cup Shifted(Len(h), Of(es, "MATCH_GAME", id))
      /\ Of(h, "MATCH_GAME", id) \in SUBSET (1..Len(h))
      /\ Of(es, "MATCH_GAME", id) \in SUBSET (1..Len(es))
  BY OfJoined
<1> HIDE DEF g
<1>3. Won(g) = Won(h) \cup Shifted(Len(h), Won(es))
  <2>1. \A k \in Of(h, "MATCH_GAME", id) : g[k] = h[k]
    BY <1>1, <1>2 DEF IsJoined
  <2>2. \A i \in Of(es, "MATCH_GAME", id) : g[Len(h) + i] = es[i]
    BY <1>1, <1>2 DEF IsJoined
  <2> QED
    BY <1>2, <2>1, <2>2 DEF Shifted
<1>4. Positions(Won(h), Len(h)) /\ Positions(Won(es), Len(es))
  BY <1>1, <1>2 DEF Positions, IsJoined
<1> HIDE DEF Won
<1>5. /\ Cardinality(Won(h)) \in Nat /\ Cardinality(Won(es)) \in Nat
      /\ Cardinality(Won(g)) = Cardinality(Won(h)) + Cardinality(Won(es))
  BY <1>3, <1>4, ShiftedCount DEF Joins
<1> QED
  BY <1>5 DEF gamesWon, g, Won

-----------------------------------------------------------------------------
(***************************************************************************)
(* That results are traced to their matches, and what a longer record      *)
(* keeps of it.                                                            *)
(***************************************************************************)
LEMMA TracedStays ==
  ASSUME NEW h \in Seq(Event), NEW es \in Seq(Event), Traced(h),
         \A i \in 1..Len(es) : TracedAt(h \o es, Len(h) + i)
  PROVE  Traced(h \o es)
<1> DEFINE g == h \o es
<1>1. IsJoined(g, h, es)
  BY Joined
<1> HIDE DEF g
<1>2. ASSUME NEW k \in 1..Len(h) PROVE TracedAt(g, k)
  <2>1. TracedAt(h, k) /\ g[k] = h[k]
    BY <1>1 DEF Traced, IsJoined
  <2>2. \A j \in 1..(k - 1) : g[j] = h[j]
    BY <1>1 DEF IsJoined
  <2>3. \A j : j \in DOMAIN h => j \in DOMAIN g /\ g[j] = h[j]
    BY <1>1 DEF IsJoined
  <2> QED
    BY <2>1, <2>2, <2>3 DEF TracedAt, Creates
<1> QED
  BY <1>1, <1>2 DEF Traced, g, IsJoined

\* What was never created was never played.
LEMMA UncreatedIsUnplayed ==
  ASSUME NEW h \in Seq(Event), Traced(h), NEW id \in Ids \ matches(h)
  PROVE  \A k \in DOMAIN h : h[k].type \in MatchTypes => h[k].match # id
<1> SUFFICES ASSUME NEW k \in DOMAIN h, h[k].type \in MatchTypes, h[k].match = id PROVE FALSE
  OBVIOUS
<1>1. TracedAt(h, k) /\ DOMAIN h = 1..Len(h) /\ Len(h) \in Nat
  BY DEF Traced
<1>2. \A j \in DOMAIN h : ~Creates(h, j, id)
  BY DEF matches, Creates
<1>3. \A j \in 1..(k - 1) : j \in DOMAIN h
  BY <1>1 DEF IsJoined
<1> QED
  BY <1>1, <1>2, <1>3 DEF TracedAt, MatchTypes, Creates, IsJoined

Untouched(es, id) == \A i \in DOMAIN es : es[i].type \in MatchTypes => es[i].match # id

LEMMA UntouchedStays ==
  ASSUME NEW h \in Seq(Event), NEW es \in Seq(Event), NEW id \in matches(h), Untouched(es, id)
  PROVE  /\ bestOfIn(h \o es, id) = bestOfIn(h, id)
         /\ \A x : gamesWon(h \o es, id, x) = gamesWon(h, id, x)
         /\ isDecided(h \o es, id) <=> isDecided(h, id)
         /\ isDecided(h, id) => winnerOf(h \o es, id) = winnerOf(h, id)
<1> DEFINE g == h \o es
<1>1. IsJoined(g, h, es)
  BY Joined
<1>2. ASSUME NEW t \in MatchTypes PROVE Of(es, t, id) = {}
  BY DEF Untouched, Of
<1>3. ASSUME NEW t \in MatchTypes
      PROVE  Of(g, t, id) = Of(h, t, id) /\ Of(h, t, id) \in SUBSET (1..Len(h))
  <2>1. Of(g, t, id) = Of(h, t, id) \cup Shifted(Len(h), Of(es, t, id))
        /\ Of(h, t, id) \in SUBSET (1..Len(h))
    BY OfJoined
  <2>2. Shifted(Len(h), {}) = {}
    BY DEF Shifted
  <2> QED
    BY <1>2, <2>1, <2>2
<1>4. MatchTypes = {"MATCH_CREATED", "MATCH_GAME", "MATCH_DECIDED"}
  BY DEF MatchTypes
<1>5. ASSUME NEW t \in MatchTypes, Of(h, t, id) # {}
      PROVE  g[Latest(Of(g, t, id))] = h[Latest(Of(h, t, id))]
  <2>1. Latest(Of(h, t, id)) \in 1..Len(h)
    BY <1>1, <1>3, <1>5, LatestIsLatest DEF IsJoined
  <2> QED
    BY <1>1, <1>3, <2>1 DEF IsJoined
<1> HIDE DEF g
<1>6. Of(h, "MATCH_CREATED", id) # {}
  BY DEF matches, Of
<1>7. bestOfIn(g, id) = bestOfIn(h, id)
  BY <1>4, <1>5, <1>6 DEF bestOfIn
<1>8. isDecided(g, id) <=> isDecided(h, id)
  BY <1>3, <1>4 DEF isDecided
<1>9. isDecided(h, id) => winnerOf(g, id) = winnerOf(h, id)
  BY <1>4, <1>5 DEF isDecided, winnerOf
<1>10. ASSUME NEW x PROVE gamesWon(g, id, x) = gamesWon(h, id, x)
  <2>1. Of(g, "MATCH_GAME", id) = Of(h, "MATCH_GAME", id)
        /\ Of(h, "MATCH_GAME", id) \in SUBSET (1..Len(h))
    BY <1>3, <1>4
  <2>2. {k \in Of(g, "MATCH_GAME", id) : g[k].winner = x}
          = {k \in Of(h, "MATCH_GAME", id) : h[k].winner = x}
    BY <1>1, <2>1 DEF g, IsJoined
  <2> QED
    BY <2>2 DEF gamesWon
<1> QED
  BY <1>7, <1>8, <1>9, <1>10 DEF g, IsJoined

-----------------------------------------------------------------------------
LEMMA SingleStays ==
  ASSUME NEW h \in Seq(Event), NEW es \in Seq(Event), Single(h), Single(es),
         \A j \in 1..Len(h), i \in 1..Len(es) :
           (h[j].type \in MatchTypes /\ es[i].type \in MatchTypes
              /\ h[j].match = es[i].match /\ es[i].match.b # Bye) =>
             /\ h[j].type = es[i].type => es[i].type = "MATCH_GAME"
             /\ ~ (h[j].type = "MATCH_DECIDED" /\ es[i].type = "MATCH_GAME")
  PROVE  Single(h \o es)
<1> DEFINE g == h \o es
<1>1. IsJoined(g, h, es)
  BY Joined
<1> HIDE DEF g
<1> SUFFICES ASSUME NEW j \in DOMAIN g, NEW k \in DOMAIN g,
                    g[j].type \in MatchTypes, g[k].type \in MatchTypes,
                    g[j].match = g[k].match, g[k].match.b # Bye
             PROVE  /\ (g[j].type = g[k].type /\ g[k].type # "MATCH_GAME") => j = k
                    /\ (g[j].type = "MATCH_GAME" /\ g[k].type = "MATCH_DECIDED") => j < k
  BY DEF Single, g
<1>2. CASE j \in 1..Len(h) /\ k \in 1..Len(h)
  <2>1. g[j] = h[j] /\ g[k] = h[k] /\ j \in DOMAIN h /\ k \in DOMAIN h
    BY <1>1, <1>2 DEF IsJoined
  <2> QED
    BY <2>1 DEF Single
<1>3. ASSUME NEW i \in 1..Len(es), j = Len(h) + i, k \in 1..Len(h)
      PROVE  g[j].type # g[k].type \/ g[k].type = "MATCH_GAME"
  <2>1. g[j] = es[i] /\ g[k] = h[k]
    BY <1>1, <1>3 DEF IsJoined
  <2> QED
    BY <1>3, <2>1
<1>4. ASSUME NEW i \in 1..Len(es), j = Len(h) + i, k \in 1..Len(h)
      PROVE  ~ (g[j].type = "MATCH_GAME" /\ g[k].type = "MATCH_DECIDED")
  <2>1. g[j] = es[i] /\ g[k] = h[k]
    BY <1>1, <1>4 DEF IsJoined
  <2> QED
    BY <1>4, <2>1
<1>5. ASSUME NEW i \in 1..Len(es), k = Len(h) + i, j \in 1..Len(h)
      PROVE  (g[j].type # g[k].type \/ g[k].type = "MATCH_GAME") /\ j < k
  <2>1. g[k] = es[i] /\ g[j] = h[j] /\ j < k
    BY <1>1, <1>5 DEF IsJoined
  <2> QED
    BY <1>5, <2>1
<1>6. ASSUME NEW i \in 1..Len(es), k = Len(h) + i, NEW l \in 1..Len(es), j = Len(h) + l
      PROVE  /\ (g[j].type = g[k].type /\ g[k].type # "MATCH_GAME") => j = k
             /\ (g[j].type = "MATCH_GAME" /\ g[k].type = "MATCH_DECIDED") => j < k
  <2>1. g[k] = es[i] /\ g[j] = es[l] /\ i \in DOMAIN es /\ l \in DOMAIN es /\ Len(h) \in Nat
    BY <1>1, <1>6 DEF IsJoined
  <2>2. /\ (es[l].type = es[i].type /\ es[i].type # "MATCH_GAME") => l = i
        /\ (es[l].type = "MATCH_GAME" /\ es[i].type = "MATCH_DECIDED") => l < i
    BY <2>1 DEF Single
  <2> QED
    BY <1>6, <2>1, <2>2
<1>7. /\ j \in 1..Len(h) \/ (\E l \in 1..Len(es) : j = Len(h) + l)
      /\ k \in 1..Len(h) \/ (\E i \in 1..Len(es) : k = Len(h) + i)
  BY <1>1 DEF IsJoined
<1> QED
  BY <1>2, <1>3, <1>4, <1>5, <1>6, <1>7

LEMMA MajorityStays ==
  ASSUME NEW h \in Seq(Event), NEW es \in Seq(Event), MajorityDecides(h),
         \A id \in matches(h \o es) :
           \/ id \in matches(h) /\ Untouched(es, id)
           \/ id.b = Bye
           \/ MajorityAt(h \o es, id)
  PROVE  MajorityDecides(h \o es)
<1> SUFFICES ASSUME NEW id \in matches(h \o es), id.b # Bye, ~MajorityAt(h \o es, id) PROVE FALSE
  BY DEF MajorityDecides
<1>1. id \in matches(h) /\ Untouched(es, id) /\ MajorityAt(h, id)
  BY DEF MajorityDecides
<1>2. /\ bestOfIn(h \o es, id) = bestOfIn(h, id)
      /\ \A x : gamesWon(h \o es, id, x) = gamesWon(h, id, x)
      /\ isDecided(h \o es, id) <=> isDecided(h, id)
      /\ isDecided(h, id) => winnerOf(h \o es, id) = winnerOf(h, id)
  BY <1>1, UntouchedStays
<1> QED
  BY <1>1, <1>2 DEF MajorityAt

LEMMA NeutralIsSound ==
  ASSUME NEW h \in Seq(Event), Sound(h), NEW e \in Event, e.type \notin MatchTypes
  PROVE  Sound(h \o <<e>>)
<1> DEFINE es == <<e>>
<1>1. es \in Seq(Event) /\ Len(es) = 1 /\ DOMAIN es = 1..1 /\ es[1] = e /\ \A i \in 1..1 : i = 1
  OBVIOUS
<1> HIDE DEF es
<1>2. IsJoined(h \o es, h, es)
  BY <1>1, Joined
<1>3. Traced(h \o es)
  <2>1. ASSUME NEW i \in 1..Len(es) PROVE TracedAt(h \o es, Len(h) + i)
    <3>1. (h \o es)[Len(h) + i] = e
      BY <1>1, <1>2 DEF IsJoined
    <3> QED
      BY <3>1 DEF TracedAt, MatchTypes
  <2> QED
    BY <1>1, <2>1, TracedStays DEF Sound
<1>4. Single(h \o es)
  <2>1. Single(es)
    BY <1>1 DEF Single
  <2>2. \A i \in 1..Len(es) : es[i].type \notin MatchTypes
    BY <1>1
  <2> QED
    BY <1>1, <2>1, <2>2, SingleStays DEF Sound
<1>5. MajorityDecides(h \o es)
  <2>1. \A id : Untouched(es, id)
    BY <1>1 DEF Untouched
  <2>2. matches(es) = {}
    BY <1>1 DEF matches, MatchTypes
  <2>3. matches(h \o es) = matches(h) \cup matches(es)
    BY <1>1, MatchesJoined
  <2>4. matches(h \o es) = matches(h)
    BY <2>2, <2>3
  <2> QED
    BY <1>1, <2>1, <2>4, MajorityStays DEF Sound
<1> QED
  BY <1>3, <1>4, <1>5 DEF Sound, es

-----------------------------------------------------------------------------
(***************************************************************************)
(* What a pairing enters.                                                  *)
(***************************************************************************)
Sides == [a : Actors, b : Actors \cup {Bye}]
IsPairing(p) == p \in Sides /\ p.a # p.b

LEMMA IdsOfPairings ==
  ASSUME NEW round \in Nat, NEW p, IsPairing(p)
  PROVE  /\ MatchId(round, p) \in Ids
         /\ MatchId(round, p).a = p.a /\ MatchId(round, p).b = p.b
         /\ p.a # Bye
BY TournamentAssumption DEF IsPairing, Sides, MatchId, Ids

\* A pairing of two is created; a bye is created and decided.
LEMMA CreationIs ==
  ASSUME NEW round \in Nat, NEW p, IsPairing(p), NEW bestOf \in Nat
  PROVE  /\ Creation(round, p, bestOf) \in Seq(MatchEntry)
         /\ Creation(round, p, bestOf)[1] = Created(round, p, bestOf)
         /\ p.b # Bye => Len(Creation(round, p, bestOf)) = 1
         /\ p.b = Bye => /\ Len(Creation(round, p, bestOf)) = 2
                         /\ Creation(round, p, bestOf)[2] = Decided(MatchId(round, p), p.a, Bye)
<1> DEFINE c == Created(round, p, bestOf)
           d == Decided(MatchId(round, p), p.a, Bye)
<1>1. c \in MatchEntry
  BY IdsOfPairings DEF Created, MatchEntry
<1>2. d \in MatchEntry
  BY IdsOfPairings DEF Decided, MatchEntry, IsPairing, Sides
<1> HIDE DEF c, d
<1>3. CASE p.b = Bye
  <2>1. Creation(round, p, bestOf) = <<c>> \o <<d>>
    BY <1>3 DEF Creation, c, d
  <2>2. /\ <<c>> \in Seq(MatchEntry) /\ <<d>> \in Seq(MatchEntry)
        /\ Len(<<c>>) = 1 /\ Len(<<d>>) = 1 /\ <<c>>[1] = c /\ <<d>>[1] = d
    BY <1>1, <1>2
  <2>3. /\ <<c>> \o <<d>> \in Seq(MatchEntry) /\ Len(<<c>> \o <<d>>) = 2
        /\ (<<c>> \o <<d>>)[1] = c /\ (<<c>> \o <<d>>)[2] = d
    BY <2>2
  <2> QED
    BY <1>3, <2>1, <2>3 DEF c, d
<1>4. CASE p.b # Bye
  <2>1. Creation(round, p, bestOf) = <<c>> \o <<>>
    BY <1>4 DEF Creation, c
  <2>2. <<c>> \o <<>> = <<c>>
    BY <1>1
  <2>3. <<c>> \in Seq(MatchEntry) /\ Len(<<c>>) = 1 /\ <<c>>[1] = c
    BY <1>1
  <2> QED
    BY <1>4, <2>1, <2>2, <2>3 DEF c
<1> QED
  BY <1>3, <1>4

LEMMA CreationIsSound ==
  ASSUME NEW h \in Seq(Event), Sound(h),
         NEW round \in Nat, NEW p, IsPairing(p), NEW bestOf \in Nat,
         p.b # Bye => MatchId(round, p) \notin matches(h)
  PROVE  Sound(h \o Creation(round, p, bestOf))
<1> DEFINE es == Creation(round, p, bestOf)
           g == h \o es
           id == MatchId(round, p)
           c == Created(round, p, bestOf)
           d == Decided(id, p.a, Bye)
<1>1. /\ es \in Seq(MatchEntry) /\ es[1] = c
      /\ p.b # Bye => Len(es) = 1
      /\ p.b = Bye => Len(es) = 2 /\ es[2] = d
  BY CreationIs
<1>2. id \in Ids /\ id.a = p.a /\ id.b = p.b /\ p.a # Bye
  BY IdsOfPairings
<1>3. /\ c.type = "MATCH_CREATED" /\ c.match = id /\ c.bestOf = bestOf
      /\ d.type = "MATCH_DECIDED" /\ d.match = id
  BY DEF Created, Decided
<1> HIDE DEF es, c, id
<1>4. es \in Seq(Event) /\ DOMAIN es = 1..Len(es)
  BY <1>1 DEF Event
<1>5. g \in Seq(Event) /\ IsJoined(g, h, es)
  BY <1>4, Joined
<1>6. \A i \in 1..Len(es) : i = 1 \/ (i = 2 /\ p.b = Bye)
  <2>1. CASE p.b = Bye
    <3>1. Len(es) = 2
      BY <1>1, <2>1
    <3> QED
      BY <2>1, <3>1
  <2>2. CASE p.b # Bye
    <3>1. Len(es) = 1
      BY <1>1, <2>2
    <3> QED
      BY <2>2, <3>1
  <2> QED
    BY <2>1, <2>2
<1>7. Len(h) \in Nat /\ Len(es) \in Nat /\ g[Len(h) + 1] = c /\ Len(h) + 1 \in DOMAIN g
  BY <1>1, <1>5 DEF IsJoined
<1>8. p.b = Bye => g[Len(h) + 2] = d /\ Len(h) + 2 \in DOMAIN g
  BY <1>1, <1>5 DEF IsJoined
<1> HIDE DEF g
<1>9. Traced(g)
  <2>1. ASSUME NEW i \in 1..Len(es) PROVE TracedAt(g, Len(h) + i)
    <3>1. CASE i = 1
      <4>1. TracedAt(g, Len(h) + 1)
        <5>1. (Len(h) + 1) + 1 = Len(h) + 2
          BY <1>7
        <5> QED
          BY <1>2, <1>3, <1>7, <1>8, <5>1 DEF TracedAt
      <4> QED
        BY <3>1, <4>1
    <3>2. CASE i = 2 /\ p.b = Bye
      <4>1. TracedAt(g, Len(h) + 2)
        <5>1. (Len(h) + 2) - 1 = Len(h) + 1
          BY <1>7
        <5> QED
          BY <1>2, <1>3, <1>7, <1>8, <3>2, <5>1 DEF TracedAt, Creates
      <4> QED
        BY <3>2, <4>1
    <3> QED
      BY <1>6, <3>1, <3>2
  <2> QED
    BY <1>4, <2>1, TracedStays DEF Sound, g
<1>10. id.b # Bye => \A k \in DOMAIN h : h[k].type \in MatchTypes => h[k].match # id
  BY <1>2, UncreatedIsUnplayed DEF Sound, id
<1>11. \A i \in 1..Len(es) : es[i].match = id
  BY <1>1, <1>3, <1>6
<1>12. Single(g)
  <2>1. Single(es)
    BY <1>2, <1>4, <1>6, <1>11 DEF Single
  <2>2. DOMAIN h = 1..Len(h)
    BY <1>5 DEF IsJoined
  <2> QED
    BY <1>4, <1>10, <1>11, <2>1, <2>2, SingleStays DEF Sound, g
<1>13. MajorityDecides(g)
  <2>1. matches(es) = {id}
    <3>1. 1 \in DOMAIN es
      BY <1>1, <1>4
    <3> QED
      BY <1>1, <1>3, <1>4, <1>11, <3>1 DEF matches
  <2>2. matches(g) = matches(h) \cup {id}
    BY <1>4, <2>1, MatchesJoined DEF g
  <2>3. \A other : other # id => Untouched(es, other)
    BY <1>4, <1>11 DEF Untouched
  <2>4. ASSUME id.b # Bye PROVE MajorityAt(g, id)
    <3>1. /\ bestOfIn(g, id) = bestOf
          /\ \A t \in {"MATCH_GAME", "MATCH_DECIDED"} : Of(g, t, id) = {}
      <4>1. \A t \in MatchTypes : Of(h, t, id) = {}
        BY <1>10, <2>4 DEF Of
      <4>2. Of(es, "MATCH_GAME", id) = {} /\ Of(es, "MATCH_DECIDED", id) = {}
            /\ Of(es, "MATCH_CREATED", id) = {1}
        <5>1. DOMAIN es = {1}
          BY <1>1, <1>2, <1>4, <2>4
        <5> QED
          BY <1>1, <1>3, <5>1 DEF Of
      <4>3. \A t \in MatchTypes : Of(g, t, id) = Shifted(Len(h), Of(es, t, id))
        <5>1. \A t : Of(g, t, id) = Of(h, t, id) \cup Shifted(Len(h), Of(es, t, id))
          BY <1>4, OfJoined DEF g
        <5> QED
          BY <4>1, <5>1
      <4>4. Shifted(Len(h), {}) = {} /\ Shifted(Len(h), {1}) = {Len(h) + 1}
        BY DEF Shifted
      <4>5. Of(g, "MATCH_CREATED", id) = {Len(h) + 1}
            /\ \A t \in {"MATCH_GAME", "MATCH_DECIDED"} : Of(g, t, id) = {}
        BY <4>2, <4>3, <4>4 DEF MatchTypes
      <4>6. Latest({Len(h) + 1}) = Len(h) + 1
        BY DEF Latest
      <4> QED
        BY <1>3, <1>7, <4>5, <4>6 DEF bestOfIn
    <3>2. \A x : gamesWon(g, id, x) = 0
      <4>1. \A x : {k \in Of(g, "MATCH_GAME", id) : g[k].winner = x} = {}
        BY <3>1
      <4> QED
        BY <4>1, FS_EmptySet DEF gamesWon
    <3>3. ~isDecided(g, id)
      BY <3>1 DEF isDecided
    <3> QED
      BY <3>1, <3>2, <3>3 DEF MajorityAt
  <2> QED
    BY <1>4, <2>2, <2>3, <2>4, MajorityStays DEF Sound, g
<1> QED
  BY <1>9, <1>12, <1>13 DEF Sound, g, es

-----------------------------------------------------------------------------
(***************************************************************************)
(* What a report enters.                                                   *)
(***************************************************************************)
LEMMA MatchFields ==
  ASSUME NEW e \in Event, e.type \in MatchTypes
  PROVE  /\ e \in MatchEntry /\ e.match \in Ids
         /\ e.type = "MATCH_CREATED" => e.bestOf \in Nat
BY DEF Event, Entry, MatchEntry, MatchTypes, PlainTypes, MotionTypes, SeatTypes

LEMMA MatchesAreTyped ==
  ASSUME NEW h \in Seq(Event), NEW id \in matches(h)
  PROVE  /\ id \in Ids /\ bestOfIn(h, id) \in Nat
         /\ \E k \in 1..Len(h) : Creates(h, k, id)
<1> DEFINE K == Of(h, "MATCH_CREATED", id)
<1>1. K # {} /\ K \in SUBSET (1..Len(h)) /\ \A k \in K : h[k] \in Event /\ Creates(h, k, id)
  BY DEF matches, Of, Creates
<1>2. Latest(K) \in K
  <2>1. Len(h) \in Nat
    OBVIOUS
  <2> HIDE DEF K
  <2> QED
    BY <1>1, <2>1, LatestIsLatest
<1> HIDE DEF K
<1>3. h[Latest(K)].match \in Ids /\ h[Latest(K)].bestOf \in Nat
  BY <1>1, <1>2, MatchFields DEF Creates, MatchTypes
<1> QED
  BY <1>1, <1>2, <1>3 DEF bestOfIn, Creates, K

LEMMA ByesAreDecided ==
  ASSUME NEW h \in Seq(Event), Traced(h), NEW id \in matches(h), id.b = Bye
  PROVE  isDecided(h, id)
<1>1. PICK k \in DOMAIN h : h[k].type = "MATCH_CREATED" /\ h[k].match = id
  BY DEF matches
<1>2. k + 1 \in DOMAIN h /\ h[k + 1] = Decided(id, id.a, Bye)
  BY <1>1 DEF Traced, TracedAt
<1> QED
  BY <1>2 DEF isDecided, Of, Decided

LEMMA BestOfStays ==
  ASSUME NEW h \in Seq(Event), NEW es \in Seq(Event), NEW id \in matches(h),
         Of(es, "MATCH_CREATED", id) = {}
  PROVE  bestOfIn(h \o es, id) = bestOfIn(h, id)
<1> DEFINE g == h \o es
           K == Of(h, "MATCH_CREATED", id)
<1>1. IsJoined(g, h, es)
  BY Joined
<1>2. Of(g, "MATCH_CREATED", id) = K \cup Shifted(Len(h), Of(es, "MATCH_CREATED", id))
      /\ K \in SUBSET (1..Len(h))
  BY OfJoined
<1>3. Shifted(Len(h), {}) = {}
  BY DEF Shifted
<1>4. K # {}
  BY DEF matches, Of
<1> HIDE DEF g, K
<1>5. Of(g, "MATCH_CREATED", id) = K
  BY <1>2, <1>3
<1>6. Latest(K) \in 1..Len(h)
  BY <1>1, <1>2, <1>4, LatestIsLatest DEF IsJoined
<1>7. g[Latest(K)] = h[Latest(K)]
  BY <1>1, <1>6 DEF IsJoined
<1> QED
  BY <1>5, <1>7 DEF bestOfIn, g, K

LEMMA HalfIsExceeded ==
  ASSUME NEW n \in Nat, NEW bestOf \in Nat
  PROVE  n + 1 >= gamesToWin(bestOf) <=> 2 * (n + 1) > bestOf
BY DEF gamesToWin

\* What reportMatch enters.
Reported(h, id, winner) ==
  LET decision == Decided(id, winner, loserOf(id, winner))
  IN IF bestOfIn(h, id) <= 1 THEN <<decision>>
     ELSE IF wonEnough(h, id, winner) THEN <<Game(id, winner), decision>>
     ELSE <<Game(id, winner)>>

\* It is a game, or the result, or the one and then the other.
ReportForms(h, id, w, es) ==
  /\ es \in Seq(MatchEntry)
  /\ \/ bestOfIn(h, id) <= 1 /\ Len(es) = 1 /\ es[1] = Decided(id, w, loserOf(id, w))
     \/ /\ ~ (bestOfIn(h, id) <= 1) /\ wonEnough(h, id, w)
        /\ Len(es) = 2 /\ es[1] = Game(id, w) /\ es[2] = Decided(id, w, loserOf(id, w))
     \/ /\ ~ (bestOfIn(h, id) <= 1) /\ ~wonEnough(h, id, w)
        /\ Len(es) = 1 /\ es[1] = Game(id, w)

LEMMA ReportIs ==
  ASSUME NEW h, NEW id \in Ids, id.b # Bye, NEW w \in {id.a, id.b}
  PROVE  ReportForms(h, id, w, Reported(h, id, w))
<1> DEFINE c == Game(id, w)
           d == Decided(id, w, loserOf(id, w))
           es == Reported(h, id, w)
<1>1. w \in Actors /\ loserOf(id, w) \in Actors
  BY DEF loserOf, Ids
<1>2. c \in MatchEntry /\ d \in MatchEntry
  BY <1>1 DEF Game, Decided, MatchEntry
<1>3. es = IF bestOfIn(h, id) <= 1 THEN <<d>>
           ELSE IF wonEnough(h, id, w) THEN <<c, d>> ELSE <<c>>
  BY DEF Reported
<1> HIDE DEF c, d, es
<1>4. CASE bestOfIn(h, id) <= 1
  <2>1. es = <<d>> /\ es \in Seq(MatchEntry) /\ Len(es) = 1 /\ es[1] = d
    BY <1>2, <1>3, <1>4
  <2> QED
    BY <1>4, <2>1 DEF ReportForms, d, es
<1>5. CASE ~ (bestOfIn(h, id) <= 1) /\ wonEnough(h, id, w)
  <2>1. es = <<c, d>> /\ es \in Seq(MatchEntry) /\ Len(es) = 2 /\ es[1] = c /\ es[2] = d
    BY <1>2, <1>3, <1>5
  <2> QED
    BY <1>5, <2>1 DEF ReportForms, c, d, es
<1>6. CASE ~ (bestOfIn(h, id) <= 1) /\ ~wonEnough(h, id, w)
  <2>1. es = <<c>> /\ es \in Seq(MatchEntry) /\ Len(es) = 1 /\ es[1] = c
    BY <1>2, <1>3, <1>6
  <2> QED
    BY <1>6, <2>1 DEF ReportForms, c, es
<1> QED
  BY <1>4, <1>5, <1>6

\* The results it adds, and the games.
ReportSays(h, id, w, es) ==
  /\ \A i \in 1..Len(es) :
       /\ es[i].match = id
       /\ es[i] = Game(id, w) \/ es[i] = Decided(id, w, loserOf(id, w))
       /\ es[i].type \in MatchTypes \ {"MATCH_CREATED"}
  /\ Single(es)
  /\ \A x : gamesWon(es, id, x) = IF bestOfIn(h, id) <= 1 \/ x # w THEN 0 ELSE 1
  /\ matches(es) = {}
  /\ \A x : /\ wonBy(es, x) = {i \in decisions(es) : x = w}
            /\ lostBy(es, x) = {i \in decisions(es) : x = loserOf(id, w)}
  /\ Cardinality(decisions(es)) = IF isDecided(es, id) THEN 1 ELSE 0
  /\ \A other : isDecided(es, other) => other = id
  /\ isDecided(es, id) <=> bestOfIn(h, id) <= 1 \/ wonEnough(h, id, w)

LEMMA ReportCounts ==
  ASSUME NEW h, NEW id \in Ids, id.b # Bye, NEW w \in {id.a, id.b},
         NEW es, ReportForms(h, id, w, es)
  PROVE  ReportSays(h, id, w, es)
<1> DEFINE c == Game(id, w)
           d == Decided(id, w, loserOf(id, w))
<1>1. /\ c.match = id /\ c.type = "MATCH_GAME" /\ c.winner = w
      /\ d.match = id /\ d.type = "MATCH_DECIDED" /\ d.winner = w /\ d.loser = loserOf(id, w)
  BY DEF Game, Decided
<1> HIDE DEF c, d
<1>2. DOMAIN es = 1..Len(es)
  BY DEF ReportForms
<1>3. \A y : IsFiniteSet({y}) /\ Cardinality({y}) = 1
  BY FS_Singleton
<1>4. Cardinality({}) = 0
  BY FS_EmptySet
<1>5. CASE bestOfIn(h, id) <= 1 /\ Len(es) = 1 /\ es[1] = d
  <2>1. DOMAIN es = {1}
    BY <1>2, <1>5
  <2>2. decisions(es) = {1} /\ Of(es, "MATCH_GAME", id) = {} /\ Of(es, "MATCH_DECIDED", id) = {1}
        /\ matches(es) = {}
    BY <1>1, <1>5, <2>1 DEF decisions, Of, matches
  <2>3. \A x : {k \in Of(es, "MATCH_GAME", id) : es[k].winner = x} = {}
    BY <2>2
  <2>4. \A x : gamesWon(es, id, x) = 0
    BY <1>4, <2>3 DEF gamesWon
  <2>5. Single(es)
    BY <2>1 DEF Single
  <2>6. Cardinality(decisions(es)) = 1 /\ isDecided(es, id)
    BY <1>3, <2>2 DEF isDecided
  <2>7. \A other : isDecided(es, other) => other = id
    BY <1>1, <1>5, <2>1 DEF isDecided, Of
  <2>8. \A x : /\ wonBy(es, x) = {i \in decisions(es) : x = w}
               /\ lostBy(es, x) = {i \in decisions(es) : x = loserOf(id, w)}
    BY <1>1, <1>5, <2>2 DEF wonBy, lostBy
  <2>9. \A i \in 1..Len(es) : es[i] = d
    BY <1>5
  <2> QED
    BY <1>1, <1>5, <2>2, <2>4, <2>5, <2>6, <2>7, <2>8, <2>9 DEF ReportSays, d, MatchTypes
<1>6. CASE /\ ~ (bestOfIn(h, id) <= 1) /\ wonEnough(h, id, w)
           /\ Len(es) = 2 /\ es[1] = c /\ es[2] = d
  <2>1. DOMAIN es = {1, 2}
    BY <1>2, <1>6
  <2>2. decisions(es) = {2} /\ Of(es, "MATCH_GAME", id) = {1} /\ Of(es, "MATCH_DECIDED", id) = {2}
        /\ matches(es) = {}
    BY <1>1, <1>6, <2>1 DEF decisions, Of, matches
  <2>3. \A x : {k \in Of(es, "MATCH_GAME", id) : es[k].winner = x} = IF x = w THEN {1} ELSE {}
    BY <1>1, <1>6, <2>2
  <2>4. \A x : gamesWon(es, id, x) = IF x = w THEN 1 ELSE 0
    BY <1>3, <1>4, <2>3 DEF gamesWon
  <2>5. Single(es)
    BY <1>1, <1>6, <2>1 DEF Single
  <2>6. Cardinality(decisions(es)) = 1 /\ isDecided(es, id)
    BY <1>3, <2>2 DEF isDecided
  <2>7. \A other : isDecided(es, other) => other = id
    BY <1>1, <1>6, <2>1 DEF isDecided, Of
  <2>8. \A x : /\ wonBy(es, x) = {i \in decisions(es) : x = w}
               /\ lostBy(es, x) = {i \in decisions(es) : x = loserOf(id, w)}
    BY <1>1, <1>6, <2>2 DEF wonBy, lostBy
  <2>9. \A i \in 1..Len(es) : es[i] = c \/ es[i] = d
    BY <1>6
  <2> QED
    BY <1>1, <1>6, <2>2, <2>4, <2>5, <2>6, <2>7, <2>8, <2>9 DEF ReportSays, c, d, MatchTypes
<1>7. CASE /\ ~ (bestOfIn(h, id) <= 1) /\ ~wonEnough(h, id, w)
           /\ Len(es) = 1 /\ es[1] = c
  <2>1. DOMAIN es = {1}
    BY <1>2, <1>7
  <2>2. decisions(es) = {} /\ Of(es, "MATCH_GAME", id) = {1} /\ matches(es) = {}
    BY <1>1, <1>7, <2>1 DEF decisions, Of, matches
  <2>3. \A x : {k \in Of(es, "MATCH_GAME", id) : es[k].winner = x} = IF x = w THEN {1} ELSE {}
    BY <1>1, <1>7, <2>2
  <2>4. \A x : gamesWon(es, id, x) = IF x = w THEN 1 ELSE 0
    BY <1>3, <1>4, <2>3 DEF gamesWon
  <2>5. Single(es)
    BY <2>1 DEF Single
  <2>6. \A other : ~isDecided(es, other)
    BY <2>2 DEF isDecided, Of, decisions
  <2>7. Cardinality(decisions(es)) = 0
    BY <1>4, <2>2
  <2>8. \A x : /\ wonBy(es, x) = {i \in decisions(es) : x = w}
               /\ lostBy(es, x) = {i \in decisions(es) : x = loserOf(id, w)}
    BY <2>2 DEF wonBy, lostBy
  <2>9. \A i \in 1..Len(es) : es[i] = c
    BY <1>7
  <2> QED
    BY <1>1, <1>7, <2>2, <2>4, <2>5, <2>6, <2>7, <2>8, <2>9 DEF ReportSays, c, MatchTypes
<1> QED
  BY <1>5, <1>6, <1>7 DEF ReportForms, ReportSays, c, d

LEMMA ReportIsSound ==
  ASSUME NEW h \in Seq(Event), Sound(h), NEW id \in matches(h), ~isDecided(h, id),
         NEW w \in {id.a, id.b}, NEW es, ReportForms(h, id, w, es)
  PROVE  Sound(h \o es)
<1> DEFINE g == h \o es
           c == Game(id, w)
           d == Decided(id, w, loserOf(id, w))
<1>0. es \in Seq(MatchEntry) /\ es \in Seq(Event)
  BY DEF ReportForms, Event
<1>1. id \in Ids /\ bestOfIn(h, id) \in Nat /\ id.b # Bye
  BY MatchesAreTyped, ByesAreDecided DEF Sound
<1>2. PICK k0 \in 1..Len(h) : Creates(h, k0, id)
  BY MatchesAreTyped
<1>3. IsJoined(g, h, es)
  BY <1>0, Joined
<1>4. /\ \A i \in 1..Len(es) :
           es[i].match = id /\ (es[i] = c \/ es[i] = d)
             /\ es[i].type \in MatchTypes \ {"MATCH_CREATED"}
      /\ Single(es) /\ matches(es) = {}
      /\ \A x : gamesWon(es, id, x) = IF bestOfIn(h, id) <= 1 \/ x # w THEN 0 ELSE 1
      /\ isDecided(es, id) <=> bestOfIn(h, id) <= 1 \/ wonEnough(h, id, w)
  <2>1. ReportSays(h, id, w, es)
    BY <1>1, ReportCounts
  <2> QED
    BY <2>1 DEF ReportSays
<1>5. /\ c.match = id /\ c.type = "MATCH_GAME" /\ c.winner = w
      /\ d.match = id /\ d.type = "MATCH_DECIDED" /\ d.winner = w /\ d.loser = loserOf(id, w)
  BY DEF Game, Decided
<1> HIDE DEF g, c, d
<1>6. Traced(g)
  <2>1. ASSUME NEW i \in 1..Len(es) PROVE TracedAt(g, Len(h) + i)
    <3>1. g[Len(h) + i] = es[i] /\ k0 \in 1..((Len(h) + i) - 1) /\ Creates(g, k0, id)
      BY <1>2, <1>3 DEF IsJoined, Creates
    <3> QED
      BY <1>1, <1>4, <1>5, <3>1 DEF TracedAt
  <2> QED
    BY <1>0, <2>1, TracedStays DEF Sound, g
<1>7. Single(g)
  <2>1. \A j \in 1..Len(h) : ~ (h[j].type = "MATCH_DECIDED" /\ h[j].match = id)
    BY <1>3 DEF isDecided, Of, IsJoined
  <2>2. \A i \in 1..Len(es) : es[i].type \in {"MATCH_GAME", "MATCH_DECIDED"} /\ es[i].match = id
    BY <1>4 DEF MatchTypes
  <2> QED
    BY <1>0, <1>4, <2>1, <2>2, SingleStays DEF Sound, g
<1>8. MajorityDecides(g)
  <2>1. matches(g) = matches(h)
    <3>1. matches(g) = matches(h) \cup matches(es)
      BY <1>0, MatchesJoined DEF g
    <3> QED
      BY <1>4, <3>1
  <2>2. \A other : other # id => Untouched(es, other)
    BY <1>3, <1>4 DEF Untouched, IsJoined
  <2>3. MajorityAt(g, id)
    <3>1. Of(es, "MATCH_CREATED", id) = {}
      BY <1>4 DEF matches, Of
    <3>2. bestOfIn(g, id) = bestOfIn(h, id)
      BY <1>0, <3>1, BestOfStays DEF g
    <3> SUFFICES ASSUME ~ (bestOfIn(h, id) <= 1) PROVE MajorityAt(g, id)
      BY <1>1, <3>2 DEF MajorityAt
    <3>3. \A x : /\ gamesWon(h, id, x) \in Nat
                 /\ gamesWon(g, id, x) = gamesWon(h, id, x) + IF x = w THEN 1 ELSE 0
      <4>1. \A x : gamesWon(h, id, x) \in Nat
                   /\ gamesWon(g, id, x) = gamesWon(h, id, x) + gamesWon(es, id, x)
        BY <1>0, GamesJoined DEF g
      <4> QED
        BY <1>4, <4>1
    <3>4. \A x \in {id.a, id.b} : ~ (2 * gamesWon(h, id, x) > bestOfIn(h, id))
      BY <1>1 DEF Sound, MajorityDecides, MajorityAt
    <3>5. isDecided(g, id) <=> wonEnough(h, id, w)
      <4>1. isDecided(g, id) <=> isDecided(h, id) \/ isDecided(es, id)
        BY <1>0, MatchesJoined DEF g
      <4> QED
        BY <1>4, <4>1
    <3>6. wonEnough(h, id, w) <=> 2 * (gamesWon(h, id, w) + 1) > bestOfIn(h, id)
      <4>1. gamesWon(h, id, w) \in Nat
        BY <3>3
      <4> QED
        BY <1>1, <4>1, HalfIsExceeded DEF wonEnough
    <3>7. isDecided(g, id) => winnerOf(g, id) = w
      <4> SUFFICES ASSUME isDecided(g, id) PROVE winnerOf(g, id) = w
        OBVIOUS
      <4> DEFINE K == Of(g, "MATCH_DECIDED", id)
      <4>1. K # {} /\ K \subseteq DOMAIN g
        BY DEF isDecided, Of
      <4>2. ASSUME NEW k \in K PROVE g[k].winner = w
        <5>1. k \in DOMAIN g /\ g[k].type = "MATCH_DECIDED" /\ g[k].match = id
          BY DEF Of
        <5>2. k \notin 1..Len(h)
          <6>1. k \in 1..Len(h) => k \in Of(h, "MATCH_DECIDED", id)
            BY <1>3, <5>1 DEF Of, IsJoined
          <6> QED
            BY <6>1 DEF isDecided
        <5>3. PICK i \in 1..Len(es) : k = Len(h) + i
          BY <1>3, <5>1, <5>2 DEF IsJoined
        <5> QED
          BY <1>3, <1>4, <1>5, <5>1, <5>3 DEF IsJoined
      <4>3. Latest(K) \in K
        <5>1. DOMAIN g = 1..Len(g) /\ Len(g) \in Nat
          BY <1>3 DEF IsJoined
        <5> HIDE DEF K
        <5> QED
          BY <4>1, <5>1, LatestIsLatest
      <4> QED
        BY <4>2, <4>3 DEF winnerOf
    <3>8. ASSUME NEW x \in {id.a, id.b}
          PROVE  2 * gamesWon(g, id, x) > bestOfIn(h, id) <=> isDecided(g, id) /\ winnerOf(g, id) = x
      <4>1. CASE x = w
        <5>1. gamesWon(g, id, x) = gamesWon(h, id, w) + 1
          BY <3>3, <4>1
        <5> QED
          BY <3>5, <3>6, <3>7, <4>1, <5>1
      <4>2. CASE x # w
        <5>1. gamesWon(g, id, x) = gamesWon(h, id, x)
          <6>1. gamesWon(g, id, x) = gamesWon(h, id, x) + 0 /\ gamesWon(h, id, x) \in Nat
            BY <3>3, <4>2
          <6> QED
            BY <6>1
        <5> QED
          BY <3>4, <3>7, <4>2, <5>1
      <4> QED
        BY <4>1, <4>2
    <3> QED
      BY <3>2, <3>8 DEF MajorityAt
  <2> QED
    BY <1>0, <2>1, <2>2, <2>3, MajorityStays DEF Sound, g
<1> QED
  BY <1>6, <1>7, <1>8 DEF Sound, g

-----------------------------------------------------------------------------
(***************************************************************************)
(* The entries of a round are those of its pairings, one after another.    *)
(***************************************************************************)
Flattens(f, ss, n) == f[0] = <<>> /\ \A i \in 1..n : f[i] = f[i - 1] \o ss[i]

LEMMA FlatteningIs ==
  ASSUME NEW S, NEW n \in Nat, n # 0, NEW ss \in [1..n -> Seq(S)]
  PROVE  \E f \in [0..n -> Seq(S)] : Flattens(f, ss, n) /\ FlattenSeq(ss) = f[n]
<1> DEFINE T == Seq(S)
           step == [i \in 1..n |-> [s \in T |-> s \o ss[i]]]
           Steps(g) == [i \in 1..n |-> IF i = 1 THEN ss[i] ELSE g[i - 1] \o ss[i]]
           flatten == CHOOSE g : g = Steps(g)
<1>1. /\ <<>> \in T
      /\ \A s \in T, t \in T : s \o t \in T
      /\ \A t \in T : <<>> \o t = t
  OBVIOUS
<1>2. FlattenSeq(ss) = flatten[n]
  <2>1. Len(ss) = n
    OBVIOUS
  <2> QED
    BY <2>1 DEF FlattenSeq
<1> HIDE DEF T
<1>3. ss \in [1..n -> T]
  BY DEF T
<1>4. step \in [1..n -> [T -> T]] /\ \A i \in 1..n, s \in T : step[i][s] = s \o ss[i]
  BY <1>1, <1>3
<1> HIDE DEF step
<1>5. PICK f \in [0..n -> T] : Runs(f, <<>>, step, n)
  BY <1>1, <1>4, RecursionExists
<1>6. \A i \in 1..n : f[i] = f[i - 1] \o ss[i]
  <2>1. \A i \in 1..n : i - 1 \in 0..n
    OBVIOUS
  <2> QED
    BY <1>4, <1>5, <2>1 DEF Runs
<1>7. f[0] = <<>>
  BY <1>5 DEF Runs
<1>8. [i \in 1..n |-> f[i]] = Steps([i \in 1..n |-> f[i]])
  <2>1. ASSUME NEW i \in 1..n
        PROVE  f[i] = IF i = 1 THEN ss[i] ELSE [j \in 1..n |-> f[j]][i - 1] \o ss[i]
    <3>1. CASE i = 1
      <4>1. i - 1 = 0 /\ ss[i] \in T
        BY <1>3, <3>1
      <4> QED
        BY <1>1, <1>6, <1>7, <3>1, <4>1
    <3>2. CASE i # 1
      <4>1. i - 1 \in 1..n
        BY <3>2
      <4> QED
        BY <1>6, <3>2, <4>1
    <3> QED
      BY <3>1, <3>2
  <2> QED
    BY <2>1
<1>9. flatten = Steps(flatten)
  BY <1>8
<1> HIDE DEF flatten
<1>10. \A i \in 1..n : flatten[i] = IF i = 1 THEN ss[i] ELSE flatten[i - 1] \o ss[i]
  <2>1. \A g : g = Steps(g) => \A i \in 1..n : g[i] = IF i = 1 THEN ss[i] ELSE g[i - 1] \o ss[i]
    OBVIOUS
  <2> HIDE DEF Steps
  <2> QED
    BY <1>9, <2>1
<1>11. \A i \in 1..n : flatten[i] = f[i]
  <2> DEFINE K == {i \in Nat : i + 1 \in 1..n => flatten[i + 1] = f[i + 1]}
  <2>1. 0 \in K
    <3>1. 1 \in 1..n /\ 0 + 1 = 1 /\ 1 - 1 = 0
      OBVIOUS
    <3>2. flatten[1] = ss[1] /\ f[1] = f[1 - 1] \o ss[1] /\ ss[1] \in T
      BY <1>3, <1>6, <1>10, <3>1
    <3>3. f[1] = ss[1]
      BY <1>1, <1>7, <3>1, <3>2
    <3> QED
      BY <3>1, <3>2, <3>3
  <2>2. ASSUME NEW i \in Nat, i \in K PROVE i + 1 \in K
    <3> SUFFICES ASSUME (i + 1) + 1 \in 1..n PROVE flatten[(i + 1) + 1] = f[(i + 1) + 1]
      OBVIOUS
    <3> DEFINE j == (i + 1) + 1
    <3>1. j \in 1..n /\ j # 1 /\ j - 1 = i + 1 /\ i + 1 \in 1..n
      OBVIOUS
    <3>2. flatten[i + 1] = f[i + 1]
      BY <2>2, <3>1
    <3> HIDE DEF j
    <3>3. flatten[j] = flatten[j - 1] \o ss[j]
      BY <1>10, <3>1
    <3>4. f[j] = f[j - 1] \o ss[j]
      BY <1>6, <3>1
    <3>5. flatten[j - 1] = f[j - 1]
      BY <3>1, <3>2, Zenon
    <3>6. flatten[j] = f[j]
      BY <3>3, <3>4, <3>5, Zenon
    <3> QED
      BY <3>6 DEF j
  <2>3. Nat \subseteq K
    <3> HIDE DEF K
    <3> QED
      BY <2>1, <2>2, NatSetInduction
  <2> SUFFICES ASSUME NEW i \in 1..n PROVE flatten[i] = f[i]
    OBVIOUS
  <2>4. i - 1 \in Nat /\ (i - 1) + 1 = i
    OBVIOUS
  <2>5. i - 1 \in K
    BY <2>3, <2>4
  <2> QED
    BY <2>4, <2>5
<1>12. n \in 1..n
  OBVIOUS
<1> QED
  BY <1>2, <1>5, <1>6, <1>7, <1>11, <1>12 DEF Flattens, T

-----------------------------------------------------------------------------
\* The matches and results of one pairing.
LEMMA CreationCounts ==
  ASSUME NEW round \in Nat, NEW p, IsPairing(p), NEW bestOf \in Nat
  PROVE  /\ matches(Creation(round, p, bestOf)) = {MatchId(round, p)}
         /\ \A id : isDecided(Creation(round, p, bestOf), id)
                      <=> p.b = Bye /\ id = MatchId(round, p)
         /\ \A x \in Actors :
              /\ Cardinality(lostBy(Creation(round, p, bestOf), x)) = 0
              /\ Cardinality(wonBy(Creation(round, p, bestOf), x))
                   = IF p.b = Bye /\ p.a = x THEN 1 ELSE 0
<1> DEFINE es == Creation(round, p, bestOf)
           id == MatchId(round, p)
           c == Created(round, p, bestOf)
           d == Decided(id, p.a, Bye)
<1>1. /\ es \in Seq(MatchEntry) /\ es[1] = c
      /\ p.b # Bye => Len(es) = 1
      /\ p.b = Bye => Len(es) = 2 /\ es[2] = d
  BY CreationIs
<1>2. /\ c.type = "MATCH_CREATED" /\ c.match = id
      /\ d.type = "MATCH_DECIDED" /\ d.match = id /\ d.winner = p.a /\ d.loser = Bye
  BY DEF Created, Decided
<1>3. Bye \notin Actors
  BY TournamentAssumption
<1>4. Cardinality({}) = 0 /\ \A y : Cardinality({y}) = 1
  BY FS_EmptySet, FS_Singleton
<1>5. DOMAIN es = 1..Len(es)
  BY <1>1
<1> HIDE DEF es, c, d, id
<1>6. CASE p.b = Bye
  <2>1. DOMAIN es = {1, 2}
    <3>1. Len(es) = 2
      BY <1>1, <1>6
    <3> QED
      BY <1>5, <3>1
  <2>2. matches(es) = {id}
    BY <1>1, <1>2, <1>6, <2>1 DEF matches
  <2>3. \A other : isDecided(es, other) <=> other = id
    BY <1>1, <1>2, <1>6, <2>1 DEF isDecided, Of
  <2>4. \A x \in Actors : lostBy(es, x) = {} /\ wonBy(es, x) = IF p.a = x THEN {2} ELSE {}
    BY <1>1, <1>2, <1>3, <1>6, <2>1 DEF lostBy, wonBy, decisions
  <2> QED
    BY <1>4, <1>6, <2>2, <2>3, <2>4 DEF es, id
<1>7. CASE p.b # Bye
  <2>1. DOMAIN es = {1}
    <3>1. Len(es) = 1
      BY <1>1, <1>7
    <3> QED
      BY <1>5, <3>1
  <2>2. matches(es) = {id}
    BY <1>1, <1>2, <2>1 DEF matches
  <2>3. \A other : ~isDecided(es, other)
    BY <1>1, <1>2, <2>1 DEF isDecided, Of
  <2>4. \A x \in Actors : lostBy(es, x) = {} /\ wonBy(es, x) = {}
    BY <1>1, <1>2, <2>1 DEF lostBy, wonBy, decisions
  <2> QED
    BY <1>4, <1>7, <2>2, <2>3, <2>4 DEF es, id
<1> QED
  BY <1>6, <1>7

-----------------------------------------------------------------------------
(***************************************************************************)
(* What a round enters.                                                    *)
(***************************************************************************)
IsRound(h, ps) ==
  /\ Len(ps) \in Nat \ {0} /\ DOMAIN ps = 1..Len(ps)
  /\ \A i \in 1..Len(ps) : IsPairing(ps[i])
  /\ \A i \in 1..Len(ps) : ps[i].b # Bye => {ps[i].a, ps[i].b} \notin playedPairs(h)
  /\ \A i, j \in 1..Len(ps) : i # j => ps[i].a # ps[j].a

RoundEntries(round, ps, bestOf) ==
  FlattenSeq([i \in DOMAIN ps |-> Creation(round, ps[i], bestOf)])

\* What the first i pairings have entered.
Entered(h, es, round, ps, i) ==
  /\ es \in Seq(MatchEntry)
  /\ Sound(h \o es)
  /\ matches(es) = {MatchId(round, ps[j]) : j \in 1..i}
  /\ \A id : isDecided(es, id)
               <=> \E j \in 1..i : ps[j].b = Bye /\ id = MatchId(round, ps[j])
  /\ \A x \in Actors :
       /\ Cardinality(lostBy(es, x)) = 0
       /\ Cardinality(wonBy(es, x))
            = IF \E j \in 1..i : ps[j].b = Bye /\ ps[j].a = x THEN 1 ELSE 0

LEMMA NothingEntered ==
  ASSUME NEW h \in Seq(Event), Sound(h), NEW round, NEW ps
  PROVE  Entered(h, <<>>, round, ps, 0)
<1>1. <<>> \in Seq(MatchEntry) /\ h \o <<>> = h /\ 1..0 = {} /\ DOMAIN <<>> = {}
  OBVIOUS
<1>2. matches(<<>>) = {} /\ \A id : ~isDecided(<<>>, id)
  BY DEF matches, isDecided, Of
<1>3. \A x : lostBy(<<>>, x) = {} /\ wonBy(<<>>, x) = {}
  BY DEF lostBy, wonBy, decisions
<1>4. Cardinality({}) = 0
  BY FS_EmptySet
<1> QED
  BY <1>1, <1>2, <1>3, <1>4 DEF Entered

LEMMA OneMoreEntered ==
  ASSUME NEW h \in Seq(Event), NEW round \in Nat, NEW bestOf \in Nat,
         NEW ps, IsRound(h, ps), NEW i \in 1..Len(ps),
         NEW es, Entered(h, es, round, ps, i - 1)
  PROVE  Entered(h, es \o Creation(round, ps[i], bestOf), round, ps, i)
<1> DEFINE p == ps[i]
           c == Creation(round, p, bestOf)
           id == MatchId(round, p)
<1>1. IsPairing(p) /\ i \in Nat /\ \A j \in 1..(i - 1) : j \in 1..Len(ps) /\ j # i /\ j \in 1..i
  BY DEF IsRound
<1>2. \A j \in 1..i : j \in 1..(i - 1) \/ j = i
  OBVIOUS
<1>3. /\ es \in Seq(MatchEntry) /\ es \in Seq(Event)
      /\ c \in Seq(MatchEntry) /\ c \in Seq(Event)
  <2>1. es \in Seq(MatchEntry)
    BY DEF Entered
  <2>2. c \in Seq(MatchEntry)
    BY <1>1, CreationIs
  <2> HIDE DEF c
  <2>3. \A s \in Seq(MatchEntry) : s \in Seq(Event)
    BY DEF Event
  <2> QED
    BY <2>1, <2>2, <2>3
<1>4. /\ matches(c) = {id}
      /\ \A other : isDecided(c, other) <=> p.b = Bye /\ other = id
      /\ \A x \in Actors : /\ Cardinality(lostBy(c, x)) = 0
                           /\ Cardinality(wonBy(c, x)) = IF p.b = Bye /\ p.a = x THEN 1 ELSE 0
  BY <1>1, CreationCounts
<1>5. id \in Ids /\ id.a = p.a /\ id.b = p.b
  BY <1>1, IdsOfPairings
<1>6. es \o c \in Seq(MatchEntry) /\ (h \o es) \o c = h \o (es \o c)
  <2> HIDE DEF c
  <2>1. es \o c \in Seq(MatchEntry)
    BY <1>3, ConcatProperties
  <2>2. (h \o es) \o c = h \o (es \o c)
    BY <1>3, ConcatAssociative
  <2> QED
    BY <2>1, <2>2
<1>7. matches(es \o c) = {MatchId(round, ps[j]) : j \in 1..i}
  <2>1. matches(es \o c) = matches(es) \cup {id}
    BY <1>3, <1>4, MatchesJoined
  <2>2. matches(es) = {MatchId(round, ps[j]) : j \in 1..(i - 1)}
    BY DEF Entered
  <2> QED
    BY <1>1, <1>2, <2>1, <2>2
<1>8. ASSUME p.b # Bye PROVE id \notin matches(h \o es)
  <2>1. matches(h \o es) = matches(h) \cup matches(es)
    BY <1>3, MatchesJoined
  <2>2. id \notin matches(h)
    BY <1>5, <1>8 DEF IsRound, playedPairs
  <2>3. ASSUME NEW j \in 1..(i - 1) PROVE id # MatchId(round, ps[j])
    <3>1. ps[j].a # p.a /\ IsPairing(ps[j])
      BY <1>1 DEF IsRound
    <3> QED
      BY <1>5, <3>1, IdsOfPairings
  <2> QED
    BY <2>1, <2>2, <2>3 DEF Entered
<1>9. h \o es \in Seq(Event) /\ Sound(h \o es)
  BY <1>3, Joined DEF Entered
<1>10. Sound((h \o es) \o c)
  BY <1>1, <1>8, <1>9, CreationIsSound
<1>11. \A other : isDecided(es \o c, other)
                    <=> \E j \in 1..i : ps[j].b = Bye /\ other = MatchId(round, ps[j])
  <2>1. \A other : isDecided(es \o c, other) <=> isDecided(es, other) \/ isDecided(c, other)
    BY <1>3, MatchesJoined
  <2> QED
    BY <1>1, <1>2, <1>4, <2>1 DEF Entered
<1>12. ASSUME NEW x \in Actors
       PROVE  /\ Cardinality(lostBy(es \o c, x)) = 0
              /\ Cardinality(wonBy(es \o c, x))
                   = IF \E j \in 1..i : ps[j].b = Bye /\ ps[j].a = x THEN 1 ELSE 0
  <2>1. /\ Cardinality(lostBy(es \o c, x)) = Cardinality(lostBy(es, x)) + Cardinality(lostBy(c, x))
        /\ Cardinality(wonBy(es \o c, x)) = Cardinality(wonBy(es, x)) + Cardinality(wonBy(c, x))
    BY <1>3, ResultsJoined
  <2>2. /\ Cardinality(lostBy(es, x)) = 0 /\ Cardinality(lostBy(c, x)) = 0
        /\ Cardinality(wonBy(es, x))
             = IF \E j \in 1..(i - 1) : ps[j].b = Bye /\ ps[j].a = x THEN 1 ELSE 0
        /\ Cardinality(wonBy(c, x)) = IF p.b = Bye /\ p.a = x THEN 1 ELSE 0
    BY <1>4 DEF Entered
  <2>3. Cardinality(lostBy(es \o c, x)) = 0
    BY <2>1, <2>2
  <2>4. (\E j \in 1..i : ps[j].b = Bye /\ ps[j].a = x)
          <=> (\E j \in 1..(i - 1) : ps[j].b = Bye /\ ps[j].a = x) \/ (p.b = Bye /\ p.a = x)
    BY <1>1, <1>2
  <2>5. ~ ((\E j \in 1..(i - 1) : ps[j].b = Bye /\ ps[j].a = x) /\ (p.b = Bye /\ p.a = x))
    BY <1>1 DEF IsRound
  <2> HIDE DEF p
  <2> DEFINE before == \E j \in 1..(i - 1) : ps[j].b = Bye /\ ps[j].a = x
             now == p.b = Bye /\ p.a = x
  <2>6. Cardinality(wonBy(es \o c, x)) = (IF before THEN 1 ELSE 0) + (IF now THEN 1 ELSE 0)
    BY <2>1, <2>2, Zenon
  <2>7. ~ (before /\ now)
    BY <2>5
  <2> HIDE DEF before, now
  <2>8. Cardinality(wonBy(es \o c, x)) = IF before \/ now THEN 1 ELSE 0
    BY <2>6, <2>7
  <2>9. Cardinality(wonBy(es \o c, x))
          = IF \E j \in 1..i : ps[j].b = Bye /\ ps[j].a = x THEN 1 ELSE 0
    BY <2>4, <2>8, Zenon DEF before, now
  <2> QED
    BY <2>3, <2>9
<1> QED
  BY <1>6, <1>7, <1>10, <1>11, <1>12 DEF Entered

LEMMA RoundIsEntered ==
  ASSUME NEW h \in Seq(Event), Sound(h), NEW round \in Nat, NEW bestOf \in Nat,
         NEW ps, IsRound(h, ps)
  PROVE  Entered(h, RoundEntries(round, ps, bestOf), round, ps, Len(ps))
<1> DEFINE n == Len(ps)
           ss == [i \in 1..n |-> Creation(round, ps[i], bestOf)]
<1>1. n \in Nat /\ n # 0 /\ DOMAIN ps = 1..n
  BY DEF IsRound
<1>2. ss \in [1..n -> Seq(MatchEntry)]
  BY CreationIs DEF IsRound
<1>3. RoundEntries(round, ps, bestOf) = FlattenSeq(ss)
  BY <1>1 DEF RoundEntries
<1>4. \A i \in 1..n : ss[i] = Creation(round, ps[i], bestOf)
  OBVIOUS
<1> HIDE DEF ss, n
<1>5. PICK f \in [0..n -> Seq(MatchEntry)] : Flattens(f, ss, n) /\ FlattenSeq(ss) = f[n]
  BY <1>1, <1>2, FlatteningIs
<1>6. /\ f[0] = <<>>
      /\ \A i \in 1..n : f[i] = f[i - 1] \o Creation(round, ps[i], bestOf)
  BY <1>4, <1>5 DEF Flattens
<1> DEFINE K == {i \in Nat : i \in 0..n => Entered(h, f[i], round, ps, i)}
<1>7. 0 \in K
  BY <1>6, NothingEntered
<1>8. ASSUME NEW i \in Nat, i \in K PROVE i + 1 \in K
  <2> SUFFICES ASSUME i + 1 \in 0..n PROVE Entered(h, f[i + 1], round, ps, i + 1)
    OBVIOUS
  <2> DEFINE j == i + 1
  <2>1. j \in 1..n /\ j - 1 = i /\ i \in 0..n
    BY <1>1
  <2>2. Entered(h, f[j - 1], round, ps, j - 1)
    BY <1>8, <2>1
  <2> HIDE DEF j
  <2>3. Entered(h, f[j - 1] \o Creation(round, ps[j], bestOf), round, ps, j)
    BY <2>1, <2>2, OneMoreEntered DEF n
  <2>4. Entered(h, f[j], round, ps, j)
    BY <1>6, <2>1, <2>3
  <2> QED
    BY <2>4 DEF j
<1>9. n \in K
  <2> HIDE DEF K
  <2> QED
    BY <1>1, <1>7, <1>8, NatSetInduction
<1> QED
  BY <1>1, <1>3, <1>5, <1>9 DEF n

-----------------------------------------------------------------------------
(***************************************************************************)
(* Rows of figures are ordered, each in a place of its own.                *)
(***************************************************************************)
Rows(n) == [1..n -> Int]
Preceded(rows) == {both \in rows \X rows : Precedes(both[1], both[2])}

LEMMA RowsAreOrdered ==
  ASSUME NEW n \in Nat, NEW rows \in SUBSET Rows(n)
  PROVE  Orders(Preceded(rows), rows)
<1>0. \A x, y \in rows : <<x, y>> \in Preceded(rows) <=> Precedes(x, y)
  BY DEF Preceded
<1>1. \A x \in rows : x \in [1..n -> Int] /\ DOMAIN x = 1..n /\ \A i \in 1..n : x[i] \in Int
  BY DEF Rows
<1>2. \A x \in rows : ~Precedes(x, x)
  <2> SUFFICES ASSUME NEW x \in rows, NEW i \in DOMAIN x, x[i] < x[i] PROVE FALSE
    BY DEF Precedes
  <2> QED
    BY <1>1
<1>3. ASSUME NEW x \in rows, NEW y \in rows, x # y PROVE Precedes(x, y) \/ Precedes(y, x)
  <2> DEFINE D == {i \in 1..n : x[i] # y[i]}
  <2>1. D # {}
    <3> SUFFICES ASSUME \A i \in 1..n : x[i] = y[i] PROVE FALSE
      OBVIOUS
    <3>1. x = [i \in 1..n |-> x[i]] /\ y = [i \in 1..n |-> y[i]]
      BY <1>1
    <3>2. [i \in 1..n |-> x[i]] = [i \in 1..n |-> y[i]]
      OBVIOUS
    <3> QED
      BY <1>3, <3>1, <3>2
  <2>2. D \in SUBSET Nat
    OBVIOUS
  <2> HIDE DEF D
  <2>3. PICK i \in D : \A j \in D : i <= j
    BY <2>1, <2>2, NatHasLeast
  <2>4. i \in 1..n /\ x[i] # y[i] /\ x[i] \in Int /\ y[i] \in Int
    BY <1>1, <2>3 DEF D
  <2>5. ASSUME NEW j \in 1..(i - 1) PROVE x[j] = y[j]
    <3>1. j \in 1..n /\ ~ (i <= j)
      BY <2>4
    <3> QED
      BY <2>3, <3>1 DEF D
  <2>6. x[i] < y[i] \/ y[i] < x[i]
    BY <2>4
  <2> QED
    BY <1>1, <2>4, <2>5, <2>6 DEF Precedes
<1>4. ASSUME NEW x \in rows, NEW y \in rows, NEW z \in rows, Precedes(x, y), Precedes(y, z)
      PROVE  Precedes(x, z)
  <2>1. PICK i \in 1..n : x[i] < y[i] /\ \A j \in 1..(i - 1) : x[j] = y[j]
    BY <1>1, <1>4 DEF Precedes
  <2>2. PICK k \in 1..n : y[k] < z[k] /\ \A j \in 1..(k - 1) : y[j] = z[j]
    BY <1>1, <1>4 DEF Precedes
  <2>3. CASE i <= k
    <3>1. x[i] < z[i]
      <4>1. CASE i = k
        BY <1>1, <2>1, <2>2, <4>1
      <4>2. CASE i # k
        <5>1. i \in 1..(k - 1)
          BY <2>3, <4>2
        <5> QED
          BY <2>1, <2>2, <5>1
      <4> QED
        BY <4>1, <4>2
    <3>2. ASSUME NEW j \in 1..(i - 1) PROVE x[j] = z[j]
      <4>1. j \in 1..(k - 1)
        BY <2>3
      <4> QED
        BY <2>1, <2>2, <4>1
    <3> QED
      BY <1>1, <3>1, <3>2 DEF Precedes
  <2>4. CASE k < i
    <3>1. x[k] < z[k]
      <4>1. k \in 1..(i - 1)
        BY <2>4
      <4> QED
        BY <2>1, <2>2, <4>1
    <3>2. ASSUME NEW j \in 1..(k - 1) PROVE x[j] = z[j]
      <4>1. j \in 1..(i - 1)
        BY <2>4
      <4> QED
        BY <2>1, <2>2, <4>1
    <3> QED
      BY <1>1, <3>1, <3>2 DEF Precedes
  <2> QED
    BY <2>3, <2>4
<1> QED
  BY <1>0, <1>2, <1>3, <1>4 DEF Orders

\* Everyone of P, once each, the row of each before those of the later.
IsOrder(o, P, row) ==
  /\ Len(o) \in Nat /\ Len(o) = Cardinality(P) /\ DOMAIN o = 1..Len(o)
  /\ \A i \in 1..Len(o) : o[i] \in P
  /\ \A i, j \in 1..Len(o) : i # j => o[i] # o[j]
  /\ \A x \in P : \E i \in 1..Len(o) : o[i] = x
  /\ \A i, j \in 1..Len(o) : i < j => Precedes(row[o[i]], row[o[j]])

RowOf(row, P, n) == row \in [P -> Rows(n)] /\ \A x \in P : row[x][n] = x

LEMMA OrderedIsOrder ==
  ASSUME NEW P, IsFiniteSet(P), NEW n \in Nat \ {0}, NEW row, RowOf(row, P, n)
  PROVE  IsOrder(Ordered({row[x] : x \in P}), P, row)
<1> DEFINE rows == {row[x] : x \in P}
           R == Preceded(rows)
           N == Cardinality(rows)
           place == [r \in rows |-> Cardinality({s \in rows : Precedes(s, r)}) + 1]
           at(i) == CHOOSE r \in rows : place[r] = i
           o == Ordered(rows)
<1>1. rows \in SUBSET Rows(n) /\ \A x \in P : row[x] \in rows /\ row[x][n] = x
  BY DEF RowOf
<1>2. IsFiniteSet(rows) /\ N = Cardinality(P) /\ N \in Nat
  <2>1. [x \in P |-> row[x]] \in Bijection(P, rows)
    <3>1. \A x, y \in P : row[x] = row[y] => x = y
      BY <1>1
    <3> QED
      BY <3>1 DEF Bijection, Injection, Surjection, IsInjective
  <2> HIDE DEF rows
  <2> QED
    BY <2>1, FS_Bijection, FS_CardinalityType DEF ExistsBijection
<1>3. \A r \in rows : Last(r) = r[n]
  <2>1. \A r \in Rows(n) : Len(r) = n
    BY DEF Rows
  <2> QED
    BY <1>1, <2>1 DEF Last
<1>4. \A r \in rows : \E x \in P : r = row[x] /\ r[n] = x
  BY <1>1
<1> HIDE DEF rows
<1>5. Orders(R, rows)
  BY <1>1, RowsAreOrdered
<1>6. \A r \in rows : place[r] = Place(rows, R, r)
  <2>1. \A r \in rows : {s \in rows : Precedes(s, r)} = Preceding(rows, R, r)
    BY DEF Preceding, Preceded
  <2> QED
    BY <2>1 DEF Place
<1> HIDE DEF R
<1>7. /\ \A r, s \in rows : <<r, s>> \in R => Place(rows, R, r) < Place(rows, R, s)
      /\ \A i \in 1..N : \E r \in rows : Place(rows, R, r) = i
      /\ \A r, s \in rows : Place(rows, R, r) = Place(rows, R, s) => r = s
      /\ \A r \in rows : Place(rows, R, r) \in 1..N
  BY <1>2, <1>5, PlacesAreOrdered
<1>8. o = [i \in 1..N |-> Last(at(i))]
  BY DEF Ordered
<1> HIDE DEF place
<1>9. \A i \in 1..N : at(i) \in rows /\ place[at(i)] = i
  BY <1>6, <1>7
<1>10. \A r \in rows : at(place[r]) = r /\ place[r] \in 1..N
  BY <1>6, <1>7, <1>9
<1> HIDE DEF at, o, N
<1>11. \A i \in 1..N : o[i] = at(i)[n] /\ o[i] \in P /\ at(i) = row[o[i]]
  BY <1>3, <1>4, <1>8, <1>9
<1>12. DOMAIN o = 1..N /\ Len(o) = N
  <2>1. \A f \in [1..N -> P] : Len(f) = N
    BY <1>2
  <2> QED
    BY <1>8, <1>11, <2>1
<1>13. ASSUME NEW i \in 1..N, NEW j \in 1..N, i # j PROVE o[i] # o[j]
  BY <1>9, <1>11, <1>13
<1>14. ASSUME NEW x \in P PROVE \E i \in 1..N : o[i] = x
  <2>1. row[x] \in rows /\ row[x][n] = x
    BY <1>1
  <2> QED
    BY <1>10, <1>11, <2>1
<1>15. ASSUME NEW i \in 1..N, NEW j \in 1..N, i < j PROVE Precedes(row[o[i]], row[o[j]])
  <2>1. at(i) \in rows /\ at(j) \in rows /\ Place(rows, R, at(i)) = i /\ Place(rows, R, at(j)) = j
    BY <1>6, <1>9
  <2>2. at(i) # at(j)
    BY <1>9, <1>15, <2>1
  <2>3. ~ (<<at(j), at(i)>> \in R)
    <3>1. <<at(j), at(i)>> \in R => j < i
      BY <1>7, <2>1
    <3> QED
      BY <1>15, <3>1
  <2>4. <<at(i), at(j)>> \in R
    BY <1>5, <2>1, <2>2, <2>3 DEF Orders
  <2> QED
    BY <1>11, <2>4 DEF R, Preceded
<1> QED
  BY <1>2, <1>11, <1>12, <1>13, <1>14, <1>15 DEF IsOrder, o, rows

-----------------------------------------------------------------------------
(***************************************************************************)
(* The figures of the table are numbers, and a round is drawn in an order. *)
(***************************************************************************)
LEMMA FiguresAreNumbers ==
  ASSUME NEW h \in Seq(Event), NEW x
  PROVE  /\ IsFiniteSet(DOMAIN h)
         /\ \A b : IsFiniteSet(scoredVotes(h, x, b)) /\ Cardinality(scoredVotes(h, x, b)) \in Nat
         /\ IsFiniteSet(wonBy(h, x)) /\ IsFiniteSet(lostBy(h, x))
         /\ Cardinality(wonBy(h, x)) \in Nat /\ Cardinality(lostBy(h, x)) \in Nat
         /\ wins(h, x) = Cardinality(wonBy(h, x)) + Cardinality(scoredVotes(h, x, TRUE))
         /\ losses(h, x) = Cardinality(lostBy(h, x)) + Cardinality(scoredVotes(h, x, FALSE))
         /\ wins(h, x) \in Nat /\ losses(h, x) \in Nat
<1>1. IsFiniteSet(DOMAIN h)
  <2>1. DOMAIN h = 1..Len(h) /\ Len(h) \in Int /\ 1 \in Int
    OBVIOUS
  <2> QED
    BY <2>1, FS_Interval
<1>2. /\ IsFiniteSet(wonBy(h, x)) /\ IsFiniteSet(lostBy(h, x))
      /\ Cardinality(wonBy(h, x)) \in Nat /\ Cardinality(lostBy(h, x)) \in Nat
  <2>1. wonBy(h, x) \in SUBSET DOMAIN h /\ lostBy(h, x) \in SUBSET DOMAIN h
    BY DEF wonBy, lostBy, decisions
  <2> QED
    BY <1>1, <2>1, FS_Subset, FS_CardinalityType
<1>3. ASSUME NEW b PROVE IsFiniteSet(scoredVotes(h, x, b)) /\ Cardinality(scoredVotes(h, x, b)) \in Nat
  <2> DEFINE onMotion == [k \in DOMAIN h |-> h[k].motion]
             M == {h[k].motion : k \in DOMAIN h}
  <2>1. onMotion \in Surjection(DOMAIN h, M)
    BY DEF Surjection
  <2>2. IsFiniteSet(M)
    BY <1>1, <2>1, FS_Surjection
  <2>3. scoredVotes(h, x, b) \in SUBSET M
    <3> SUFFICES ASSUME NEW m \in scoredVotes(h, x, b) PROVE m \in M
      OBVIOUS
    <3>1. \E k \in votesFor(h, m) : h[k].actor = x
      BY DEF scoredVotes
    <3> QED
      BY <3>1 DEF votesFor
  <2> QED
    BY <2>2, <2>3, FS_Subset, FS_CardinalityType
<1>4. /\ wins(h, x) = Cardinality(wonBy(h, x)) + Cardinality(scoredVotes(h, x, TRUE))
      /\ losses(h, x) = Cardinality(lostBy(h, x)) + Cardinality(scoredVotes(h, x, FALSE))
  BY DEF wins, losses, wonBy, lostBy
<1>5. wins(h, x) \in Nat /\ losses(h, x) \in Nat
  <2>1. Cardinality(scoredVotes(h, x, TRUE)) \in Nat /\ Cardinality(scoredVotes(h, x, FALSE)) \in Nat
    BY <1>3
  <2>2. \A u, v \in Nat : u + v \in Nat
    OBVIOUS
  <2> QED
    BY <1>2, <1>4, <2>1, <2>2, Zenon
<1> QED
  BY <1>1, <1>2, <1>3, <1>4, <1>5

LEMMA PoolsAreFinite ==
  ASSUME NEW h \in Seq(Event), NEW format
  PROVE  /\ IsFiniteSet(pool(h, format)) /\ IsFiniteSet(contestants(h)) /\ IsFiniteSet(undefeated(h))
         /\ pool(h, format) \subseteq contestants(h) /\ undefeated(h) \subseteq contestants(h)
         /\ contestants(h) \subseteq Actors
<1>1. contestants(h) \subseteq Actors /\ undefeated(h) \subseteq contestants(h)
  BY DEF contestants, undefeated
<1>2. IsFiniteSet(contestants(h)) /\ IsFiniteSet(undefeated(h))
  <2>1. contestants(h) \in SUBSET Actors /\ undefeated(h) \in SUBSET contestants(h)
    BY <1>1
  <2> QED
    BY <2>1, FS_Subset, TournamentAssumption
<1> QED
  BY <1>1, <1>2 DEF pool

\* The row of each, by the format.
drawRow(h, format, seed) ==
  [x \in pool(h, format) |->
     IF format = "round-robin" THEN <<bySeed(seed, x), x>>
     ELSE <<-wins(h, x), losses(h, x), bySeed(seed, x), x>>]

LEMMA DrawIsOrdered ==
  ASSUME NEW h \in Seq(Event), NEW format, NEW seed \in Seq(Nat)
  PROVE  IsOrder(inOrder(h, format, seed), pool(h, format), drawRow(h, format, seed))
<1> DEFINE P == pool(h, format)
           row == drawRow(h, format, seed)
           n == IF format = "round-robin" THEN 2 ELSE 4
<1>1. IsFiniteSet(P) /\ \A x \in P : x \in Int
  <2>1. \A x \in Actors : x \in Int
    BY TournamentAssumption
  <2> QED
    BY <2>1, PoolsAreFinite
<1>2. \A x : bySeed(seed, x) \in Int
  <2> SUFFICES ASSUME NEW x PROVE bySeed(seed, x) \in Int
    OBVIOUS
  <2>1. DOMAIN seed = 1..Len(seed) /\ Len(seed) \in Nat
    OBVIOUS
  <2>2. CASE \E i \in DOMAIN seed : seed[i] = x
    <3> DEFINE c == CHOOSE i \in DOMAIN seed : seed[i] = x
    <3>1. c \in DOMAIN seed
      BY <2>2
    <3>2. bySeed(seed, x) = c
      BY <2>2 DEF bySeed
    <3> HIDE DEF c
    <3> QED
      BY <2>1, <3>1, <3>2
  <2>3. CASE ~ \E i \in DOMAIN seed : seed[i] = x
    <3>1. bySeed(seed, x) = Len(seed) + 1
      BY <2>3 DEF bySeed
    <3> QED
      BY <2>1, <3>1
  <2> QED
    BY <2>2, <2>3
<1>3. \A x : wins(h, x) \in Nat /\ losses(h, x) \in Nat
  BY FiguresAreNumbers
<1>4. inOrder(h, format, seed) = Ordered({row[x] : x \in P})
  BY DEF inOrder, drawRow
<1>5. RowOf(row, P, n)
  <2> SUFFICES ASSUME NEW x \in P PROVE row[x] \in Rows(n) /\ row[x][n] = x
    BY DEF RowOf, drawRow
  <2>1. x \in Int /\ bySeed(seed, x) \in Int /\ -wins(h, x) \in Int /\ losses(h, x) \in Int
    BY <1>1, <1>2, <1>3
  <2>2. CASE format = "round-robin"
    <3>1. row[x] = <<bySeed(seed, x), x>> /\ n = 2
      BY <2>2 DEF drawRow
    <3>2. \A u, v \in Int : <<u, v>> \in [1..2 -> Int] /\ <<u, v>>[2] = v
      OBVIOUS
    <3> QED
      BY <2>1, <3>1, <3>2 DEF Rows
  <2>3. CASE format # "round-robin"
    <3>1. row[x] = <<-wins(h, x), losses(h, x), bySeed(seed, x), x>> /\ n = 4
      BY <2>3 DEF drawRow
    <3>2. \A u, v, w, z \in Int : <<u, v, w, z>> \in [1..4 -> Int] /\ <<u, v, w, z>>[4] = z
      OBVIOUS
    <3>3. row[x] \in [1..4 -> Int] /\ row[x][4] = x
      <4> HIDE DEF row
      <4> QED
        BY <2>1, <3>1, <3>2
    <3> QED
      BY <3>1, <3>3 DEF Rows
  <2> QED
    BY <2>2, <2>3
<1>6. n \in Nat \ {0}
  OBVIOUS
<1> HIDE DEF P, row, n
<1> QED
  BY <1>1, <1>4, <1>5, <1>6, OrderedIsOrder DEF P, row

-----------------------------------------------------------------------------
(***************************************************************************)
(* The draw.                                                               *)
(***************************************************************************)
\* Everyone of P is in one pairing, none of two who met before, and no two who get a
\* bye could have met.
Draws(ps, P, played) ==
  /\ Len(ps) \in Nat /\ DOMAIN ps = 1..Len(ps)
  /\ \A i \in 1..Len(ps) : IsPairing(ps[i]) /\ ps[i].a \in P /\ ps[i].b \in P \cup {Bye}
  /\ \A i \in 1..Len(ps) : ps[i].b # Bye => {ps[i].a, ps[i].b} \notin played
  /\ \A i, j \in 1..Len(ps) : i # j => {ps[i].a, ps[i].b} \cap {ps[j].a, ps[j].b} \subseteq {Bye}
  /\ \A x \in P : \E i \in 1..Len(ps) : x \in {ps[i].a, ps[i].b}
  /\ \A i, j \in 1..Len(ps) :
       (i # j /\ ps[i].b = Bye /\ ps[j].b = Bye) => {ps[i].a, ps[j].a} \in played

LEMMA FoldedDraws ==
  ASSUME NEW P \in SUBSET Actors, NEW o, NEW row, IsOrder(o, P, row), Len(o) >= 2
  PROVE  Draws(folded(o), P, {}) /\ Len(folded(o)) # 0
<1> DEFINE L == Len(o)
           top == (L + 1) \div 2
           ps == folded(o)
<1>1. L \in Nat /\ L >= 2
  BY DEF IsOrder
<1>2. top \in Nat /\ top >= 1 /\ top <= L /\ (2 * top = L \/ 2 * top = L + 1)
  BY <1>1
<1>3. /\ \A i \in 1..L : o[i] \in P
      /\ \A i, j \in 1..L : i # j => o[i] # o[j]
      /\ \A x \in P : \E i \in 1..L : o[i] = x
  BY DEF IsOrder
<1>4. Bye \notin P
  BY TournamentAssumption
<1>5. ps = [i \in 1..top |-> [a |-> o[i], b |-> IF top + i <= L THEN o[top + i] ELSE Bye]]
  BY DEF folded
<1> HIDE DEF L, top, ps
<1>6. /\ \A i \in 1..top : i \in 1..L
      /\ \A i \in 1..top : top + i <= L => top + i \in 1..L /\ top + i # i
      /\ \A i, j \in 1..top : top + i <= L => top + i # j
      /\ \A i, j \in 1..top : i # j => top + i # top + j
      /\ \A i, j \in 1..top : ~ (top + i <= L) /\ ~ (top + j <= L) => i = j
      /\ \A i \in 1..L : i \in 1..top \/ (i - top \in 1..top /\ top + (i - top) = i)
      /\ \A i \in 1..L : i <= L
  BY <1>1, <1>2
<1>7. /\ \A i \in 1..top : ps[i].a = o[i]
      /\ \A i \in 1..top : top + i <= L => ps[i].b = o[top + i]
      /\ \A i \in 1..top : ~ (top + i <= L) => ps[i].b = Bye
      /\ \A i \in 1..top : ps[i] = [a |-> ps[i].a, b |-> ps[i].b]
  BY <1>5
<1>8. Len(ps) = top /\ DOMAIN ps = 1..top
  BY <1>2, <1>5
<1>9. \A i \in 1..top : ps[i].a \in P /\ ps[i].b \in P \cup {Bye} /\ ps[i].a # ps[i].b
  BY <1>3, <1>4, <1>6, <1>7
<1>10. ASSUME NEW i \in 1..top PROVE IsPairing(ps[i])
  <2>1. ps[i].a \in Actors /\ ps[i].b \in Actors \cup {Bye} /\ ps[i].a # ps[i].b
    BY <1>9
  <2>2. ps[i] = [a |-> ps[i].a, b |-> ps[i].b]
    BY <1>7
  <2>3. \A u \in Actors, v \in Actors \cup {Bye} : [a |-> u, b |-> v] \in Sides
    BY DEF Sides
  <2>4. ps[i] \in Sides
    BY <2>1, <2>2, <2>3, Zenon
  <2> QED
    BY <2>1, <2>4 DEF IsPairing
<1>11. ASSUME NEW i \in 1..top, NEW j \in 1..top, i # j
       PROVE  {ps[i].a, ps[i].b} \cap {ps[j].a, ps[j].b} \subseteq {Bye}
  <2>1. ps[i].a # ps[j].a
    BY <1>3, <1>6, <1>7, <1>11
  <2>2. ps[i].b = ps[j].b => ps[i].b = Bye
    BY <1>3, <1>6, <1>7, <1>11
  <2>3. ps[i].a # ps[j].b /\ ps[j].a # ps[i].b
    BY <1>3, <1>4, <1>6, <1>7
  <2> QED
    BY <2>1, <2>2, <2>3
<1>12. ASSUME NEW x \in P PROVE \E i \in 1..top : x \in {ps[i].a, ps[i].b}
  <2>1. PICK j \in 1..L : o[j] = x
    BY <1>3
  <2>2. CASE j \in 1..top
    BY <1>7, <2>1, <2>2
  <2>3. CASE j - top \in 1..top /\ top + (j - top) = j
    <3>1. ps[j - top].b = o[j]
      BY <1>6, <1>7, <2>3
    <3> QED
      BY <2>1, <2>3, <3>1
  <2> QED
    BY <1>6, <2>2, <2>3
<1>13. ASSUME NEW i \in 1..top, NEW j \in 1..top, i # j PROVE ~ (ps[i].b = Bye /\ ps[j].b = Bye)
  BY <1>3, <1>4, <1>6, <1>7, <1>13
<1> QED
  BY <1>2, <1>8, <1>9, <1>10, <1>11, <1>12, <1>13 DEF Draws, ps

\* What greedy has paired when it has come to order[i].
Used(ps) == UNION {{ps[k].a, ps[k].b} : k \in DOMAIN ps}
Free(o, played, ps, i) ==
  {j \in (i + 1)..Len(o) : o[j] \notin Used(ps) /\ {o[i], o[j]} \notin played}
NextSides(o, played, ps, i) ==
  [a |-> o[i], b |-> IF Free(o, played, ps, i) = {} THEN Bye ELSE o[Min(Free(o, played, ps, i))]]
PairedNext(o, played, ps, i) ==
  IF o[i] \in Used(ps) THEN ps ELSE Append(ps, NextSides(o, played, ps, i))

Drawing(ps, o, played, i) ==
  /\ ps \in Seq(Sides)
  /\ \A k \in 1..Len(ps) : IsPairing(ps[k])
  /\ \A x \in Used(ps) : x = Bye \/ \E j \in 1..Len(o) : x = o[j]
  /\ \A k \in 1..Len(ps) : ps[k].b # Bye => {ps[k].a, ps[k].b} \notin played
  /\ \A k, l \in 1..Len(ps) : k # l => {ps[k].a, ps[k].b} \cap {ps[l].a, ps[l].b} \subseteq {Bye}
  /\ \A j \in 1..i : o[j] \in Used(ps)
  /\ \A k, l \in 1..Len(ps) :
       (k # l /\ ps[k].b = Bye /\ ps[l].b = Bye) => {ps[k].a, ps[l].a} \in played
  /\ \A k \in 1..Len(ps), j \in 1..Len(o) :
       (ps[k].b = Bye /\ o[j] \notin Used(ps)) => {ps[k].a, o[j]} \in played

\* The pairing of order[i]: a bye, or someone who is not yet paired.
SidesFit(p, o, played, ps, i) ==
  /\ p \in Sides /\ IsPairing(p) /\ p.a = o[i]
  /\ \/ /\ p.b = Bye
        /\ \A j \in (i + 1)..Len(o) : o[j] \in Used(ps) \/ {o[i], o[j]} \in played
     \/ /\ p.b # Bye /\ p.b \notin Used(ps) /\ {p.a, p.b} \notin played
        /\ \E j \in 1..Len(o) : p.b = o[j]

LEMMA NextSidesAre ==
  ASSUME NEW P \in SUBSET Actors, NEW o, NEW row, IsOrder(o, P, row), NEW played,
         NEW ps, NEW i \in 1..Len(o), o[i] \notin Used(ps)
  PROVE  SidesFit(NextSides(o, played, ps, i), o, played, ps, i)
<1> DEFINE F == Free(o, played, ps, i)
           p == NextSides(o, played, ps, i)
<1>1. /\ Len(o) \in Nat /\ i \in Nat
      /\ \A j \in 1..Len(o) : o[j] \in Actors /\ o[j] # Bye
      /\ \A j \in 1..Len(o) : j # i => o[j] # o[i]
  <2>1. Bye \notin Actors
    BY TournamentAssumption
  <2>2. Len(o) \in Nat /\ \A j \in 1..Len(o) : o[j] \in P
    BY DEF IsOrder
  <2>3. \A j \in 1..Len(o) : j # i => o[j] # o[i]
    BY DEF IsOrder
  <2>4. i \in Nat
    BY <2>2
  <2> QED
    BY <2>1, <2>2, <2>3, <2>4
<1>2. \A j \in F : /\ j \in (i + 1)..Len(o) /\ j \in 1..Len(o) /\ j # i /\ j \in Nat
                   /\ o[j] \notin Used(ps) /\ {o[i], o[j]} \notin played
  BY <1>1 DEF Free
<1>3. p.a = o[i] /\ p.b = IF F = {} THEN Bye ELSE o[Min(F)]
  BY DEF NextSides
<1>4. p = [a |-> p.a, b |-> p.b]
  BY DEF NextSides
<1>5. CASE F = {}
  <2>1. p.b = Bye
    BY <1>3, <1>5
  <2>2. \A j \in (i + 1)..Len(o) : o[j] \in Used(ps) \/ {o[i], o[j]} \in played
    BY <1>5 DEF Free
  <2> HIDE DEF p
  <2>3. p \in Sides /\ IsPairing(p)
    BY <1>1, <1>3, <1>4, <2>1 DEF Sides, IsPairing
  <2> QED
    BY <1>3, <2>1, <2>2, <2>3 DEF p, SidesFit
<1>6. CASE F # {}
  <2>1. Min(F) \in F
    <3>1. F \in SUBSET Nat
      BY <1>2
    <3> HIDE DEF F
    <3>2. \E x \in F : \A y \in F : x <= y
      BY <1>6, <3>1, NatHasLeast
    <3> QED
      BY <3>2 DEF Min
  <2>2. p.b = o[Min(F)]
    BY <1>3, <1>6
  <2> HIDE DEF p, F
  <2>3. p \in Sides /\ IsPairing(p)
    BY <1>1, <1>2, <1>3, <1>4, <2>1, <2>2 DEF Sides, IsPairing
  <2>4. p.b # Bye /\ p.b \notin Used(ps) /\ {p.a, p.b} \notin played /\ \E j \in 1..Len(o) : p.b = o[j]
    BY <1>1, <1>2, <1>3, <2>1, <2>2
  <2> QED
    BY <1>3, <2>3, <2>4 DEF p, SidesFit
<1> QED
  BY <1>5, <1>6

-----------------------------------------------------------------------------
LEMMA Appended ==
  ASSUME NEW ps \in Seq(Sides), NEW p \in Sides
  PROVE  /\ Append(ps, p) \in Seq(Sides) /\ Len(ps) \in Nat
         /\ Len(Append(ps, p)) = Len(ps) + 1
         /\ \A k \in 1..Len(ps) : Append(ps, p)[k] = ps[k]
         /\ Append(ps, p)[Len(ps) + 1] = p
         /\ \A k \in 1..(Len(ps) + 1) : k \in 1..Len(ps) \/ k = Len(ps) + 1
         /\ Used(Append(ps, p)) = Used(ps) \cup {p.a, p.b}
<1> DEFINE qs == Append(ps, p)
<1>1. /\ qs \in Seq(Sides) /\ Len(ps) \in Nat /\ Len(qs) = Len(ps) + 1
      /\ \A k \in 1..Len(ps) : qs[k] = ps[k]
      /\ qs[Len(ps) + 1] = p
  OBVIOUS
<1>2. /\ \A k \in 1..(Len(ps) + 1) : k \in 1..Len(ps) \/ k = Len(ps) + 1
      /\ \A k \in 1..Len(ps) : k \in 1..(Len(ps) + 1)
      /\ Len(ps) + 1 \in 1..(Len(ps) + 1)
  BY <1>1
<1>3. DOMAIN qs = 1..(Len(ps) + 1) /\ DOMAIN ps = 1..Len(ps)
  BY <1>1
<1> HIDE DEF qs
<1>4. Used(qs) = Used(ps) \cup {p.a, p.b}
  BY <1>1, <1>2, <1>3 DEF Used
<1> QED
  BY <1>1, <1>2, <1>4 DEF qs

LEMMA DrawingGoesOn ==
  ASSUME NEW P \in SUBSET Actors, NEW o, NEW row, IsOrder(o, P, row), NEW played,
         NEW i \in 1..Len(o), NEW ps, Drawing(ps, o, played, i - 1)
  PROVE  Drawing(PairedNext(o, played, ps, i), o, played, i)
<1>0. /\ Len(o) \in Nat /\ i \in Nat /\ i \in 1..i
      /\ \A j \in 1..i : j \in 1..(i - 1) \/ j = i
      /\ \A j \in 1..Len(o) : j \in 1..i \/ j \in (i + 1)..Len(o)
  <2>1. Len(o) \in Nat
    BY DEF IsOrder
  <2> QED
    BY <2>1
<1>1. CASE o[i] \in Used(ps)
  <2>1. PairedNext(o, played, ps, i) = ps
    BY <1>1 DEF PairedNext
  <2>2. \A j \in 1..i : o[j] \in Used(ps)
    BY <1>0, <1>1 DEF Drawing
  <2>3. Drawing(ps, o, played, i)
    BY <2>2 DEF Drawing
  <2> QED
    BY <2>1, <2>3
<1>2. CASE o[i] \notin Used(ps)
  <2> DEFINE p == NextSides(o, played, ps, i)
             qs == Append(ps, p)
             n == Len(ps)
             both(k) == {ps[k].a, ps[k].b}
  <2>1. PairedNext(o, played, ps, i) = qs
    BY <1>2 DEF PairedNext
  <2>2. /\ p \in Sides /\ IsPairing(p) /\ p.a = o[i]
        /\ \/ /\ p.b = Bye
              /\ \A j \in (i + 1)..Len(o) : o[j] \in Used(ps) \/ {o[i], o[j]} \in played
           \/ /\ p.b # Bye /\ p.b \notin Used(ps) /\ {p.a, p.b} \notin played
              /\ \E j \in 1..Len(o) : p.b = o[j]
    <3>1. SidesFit(p, o, played, ps, i)
      BY <1>2, NextSidesAre
    <3> HIDE DEF p
    <3> QED
      BY <3>1 DEF SidesFit
  <2> HIDE DEF p
  <2>3. ps \in Seq(Sides)
    BY DEF Drawing
  <2>4. /\ qs \in Seq(Sides) /\ n \in Nat /\ Len(qs) = n + 1
        /\ \A k \in 1..n : qs[k] = ps[k]
        /\ qs[n + 1] = p
        /\ \A k \in 1..(n + 1) : k \in 1..n \/ k = n + 1
        /\ Used(qs) = Used(ps) \cup {p.a, p.b}
    BY <2>2, <2>3, Appended
  <2>5. \A k \in 1..n : both(k) \subseteq Used(ps)
    <3>1. DOMAIN ps = 1..n
      BY <2>3
    <3> QED
      BY <3>1 DEF Used
  <2> HIDE DEF qs, n
  <2>6. \A k \in 1..n :
          /\ IsPairing(ps[k])
          /\ ps[k].b # Bye => both(k) \notin played
          /\ \A l \in 1..n : k # l => both(k) \cap both(l) \subseteq {Bye}
          /\ \A l \in 1..n : (k # l /\ ps[k].b = Bye /\ ps[l].b = Bye) => {ps[k].a, ps[l].a} \in played
          /\ \A j \in 1..Len(o) : (ps[k].b = Bye /\ o[j] \notin Used(ps)) => {ps[k].a, o[j]} \in played
    BY DEF Drawing, n
  <2>7. /\ \A x \in Used(ps) : x = Bye \/ \E j \in 1..Len(o) : x = o[j]
        /\ \A j \in 1..(i - 1) : o[j] \in Used(ps)
    BY DEF Drawing
  <2>8. \A k \in 1..(n + 1) : IsPairing(qs[k])
    BY <2>2, <2>4, <2>6
  <2>9. \A x \in Used(qs) : x = Bye \/ \E j \in 1..Len(o) : x = o[j]
    BY <2>2, <2>4, <2>7
  <2>10. \A k \in 1..(n + 1) : qs[k].b # Bye => {qs[k].a, qs[k].b} \notin played
    BY <2>2, <2>4, <2>6
  <2>11. ASSUME NEW k \in 1..n PROVE both(k) \cap {p.a, p.b} \subseteq {Bye}
    BY <1>2, <2>2, <2>5
  <2>12. ASSUME NEW k \in 1..(n + 1), NEW l \in 1..(n + 1), k # l
         PROVE  {qs[k].a, qs[k].b} \cap {qs[l].a, qs[l].b} \subseteq {Bye}
    <3>1. CASE k \in 1..n /\ l \in 1..n
      BY <2>4, <2>6, <2>12, <3>1
    <3>2. CASE k \in 1..n /\ l = n + 1
      BY <2>4, <2>11, <3>2
    <3>3. CASE k = n + 1 /\ l \in 1..n
      BY <2>4, <2>11, <3>3
    <3> QED
      BY <2>4, <2>12, <3>1, <3>2, <3>3
  <2>13. \A j \in 1..i : o[j] \in Used(qs)
    BY <1>0, <2>2, <2>4, <2>7
  <2>14. ASSUME NEW k \in 1..n, ps[k].b = Bye PROVE {ps[k].a, o[i]} \in played
    BY <1>2, <2>6, <2>14
  <2>15. ASSUME NEW k \in 1..(n + 1), NEW l \in 1..(n + 1), k # l, qs[k].b = Bye, qs[l].b = Bye
         PROVE  {qs[k].a, qs[l].a} \in played
    <3>1. CASE k \in 1..n /\ l \in 1..n
      BY <2>4, <2>6, <2>15, <3>1
    <3>2. CASE k \in 1..n /\ l = n + 1
      <4>1. {ps[k].a, o[i]} \in played /\ qs[k] = ps[k] /\ qs[l].a = o[i]
        BY <2>2, <2>4, <2>14, <2>15, <3>2
      <4> QED
        BY <4>1
    <3>3. CASE k = n + 1 /\ l \in 1..n
      <4>1. {ps[l].a, o[i]} \in played /\ qs[l] = ps[l] /\ qs[k].a = o[i]
        BY <2>2, <2>4, <2>14, <2>15, <3>3
      <4>2. {ps[l].a, o[i]} = {o[i], ps[l].a}
        OBVIOUS
      <4> QED
        BY <4>1, <4>2
    <3> QED
      BY <2>4, <2>15, <3>1, <3>2, <3>3
  <2>16. ASSUME NEW k \in 1..(n + 1), NEW j \in 1..Len(o), qs[k].b = Bye, o[j] \notin Used(qs)
         PROVE  {qs[k].a, o[j]} \in played
    <3>1. o[j] \notin Used(ps) /\ j \in (i + 1)..Len(o)
      BY <1>0, <2>4, <2>13, <2>16
    <3>2. CASE k \in 1..n
      BY <2>4, <2>6, <2>16, <3>1, <3>2
    <3>3. CASE k = n + 1
      <4>1. p.b = Bye /\ qs[k].a = o[i]
        BY <2>2, <2>4, <2>16, <3>3
      <4>2. o[j] \in Used(ps) \/ {o[i], o[j]} \in played
        BY <2>2, <3>1, <4>1
      <4> QED
        BY <3>1, <4>1, <4>2
    <3> QED
      BY <2>4, <3>2, <3>3
  <2>17. Drawing(qs, o, played, i)
    BY <2>4, <2>8, <2>9, <2>10, <2>12, <2>13, <2>15, <2>16 DEF Drawing
  <2> QED
    BY <2>1, <2>17
<1> QED
  BY <1>1, <1>2

LEMMA GreedyRuns ==
  ASSUME NEW P \in SUBSET Actors, NEW o, NEW row, IsOrder(o, P, row), NEW played
  PROVE  Drawing(greedy(o, played), o, played, Len(o))
<1> DEFINE n == Len(o)
           T == Seq(Sides)
           step == [i \in 1..n |-> [ps \in T |-> PairedNext(o, played, ps, i)]]
           Steps(g) == [i \in 0..n |-> IF i = 0 THEN <<>> ELSE PairedNext(o, played, g[i - 1], i)]
           pairings == CHOOSE g : g = Steps(g)
<1>1. n \in Nat /\ 0 \in 0..n /\ \A i \in 1..n : i \in 0..n /\ i # 0 /\ i - 1 \in 0..n
  BY DEF IsOrder
<1>2. ASSUME NEW i \in 1..n, NEW ps \in T PROVE PairedNext(o, played, ps, i) \in T
  <2>1. CASE o[i] \in Used(ps)
    BY <2>1 DEF PairedNext
  <2>2. CASE o[i] \notin Used(ps)
    <3>1. NextSides(o, played, ps, i) \in Sides
      <4>1. SidesFit(NextSides(o, played, ps, i), o, played, ps, i)
        BY <2>2, NextSidesAre
      <4> QED
        BY <4>1 DEF SidesFit
    <3>2. PairedNext(o, played, ps, i) = Append(ps, NextSides(o, played, ps, i))
      BY <2>2 DEF PairedNext
    <3> QED
      BY <3>1, <3>2
  <2> QED
    BY <2>1, <2>2
<1>3. <<>> \in T
  OBVIOUS
<1>4. greedy(o, played) = pairings[n]
  BY DEF greedy, PairedNext, NextSides, Free, Used
<1> HIDE DEF T, n
<1>5. /\ step \in [1..n -> [T -> T]]
      /\ \A i \in 1..n, ps \in T : step[i][ps] = PairedNext(o, played, ps, i)
  BY <1>2
<1> HIDE DEF step
<1>6. PICK g \in [0..n -> T] : Runs(g, <<>>, step, n)
  BY <1>1, <1>3, <1>5, RecursionExists
<1>7. g = Steps(g)
  <2>1. \A i \in 1..n : g[i] = PairedNext(o, played, g[i - 1], i)
    BY <1>1, <1>5, <1>6 DEF Runs
  <2>2. \A i \in 0..n : i # 0 => i \in 1..n
    BY <1>1
  <2>3. \A i \in 0..n : g[i] = IF i = 0 THEN <<>> ELSE PairedNext(o, played, g[i - 1], i)
    BY <1>6, <2>1, <2>2 DEF Runs
  <2> QED
    BY <2>3
<1>8. pairings = Steps(pairings)
  BY <1>7
<1> HIDE DEF pairings
<1>9. pairings[0] = <<>> /\ \A i \in 1..n : pairings[i] = PairedNext(o, played, pairings[i - 1], i)
  <2>1. \A f : f = Steps(f) =>
          f[0] = <<>> /\ \A i \in 1..n : f[i] = PairedNext(o, played, f[i - 1], i)
    BY <1>1
  <2> HIDE DEF Steps
  <2> QED
    BY <1>8, <2>1
<1>10. Drawing(pairings[0], o, played, 0)
  <2>1. /\ <<>> \in Seq(Sides) /\ Len(<<>>) = 0 /\ 1..0 = {} /\ DOMAIN <<>> = {}
    OBVIOUS
  <2>2. Used(<<>>) = {}
    BY DEF Used
  <2>3. Drawing(<<>>, o, played, 0)
    BY <2>1, <2>2 DEF Drawing
  <2> QED
    BY <1>9, <2>3
<1> DEFINE K == {i \in Nat : i \in 0..n => Drawing(pairings[i], o, played, i)}
<1>11. 0 \in K
  BY <1>10
<1>12. ASSUME NEW i \in Nat, i \in K PROVE i + 1 \in K
  <2> SUFFICES ASSUME i + 1 \in 0..n PROVE Drawing(pairings[i + 1], o, played, i + 1)
    OBVIOUS
  <2> DEFINE j == i + 1
  <2>1. j \in 1..n /\ j - 1 = i /\ i \in 0..n
    BY <1>1
  <2>2. Drawing(pairings[j - 1], o, played, j - 1)
    BY <1>12, <2>1
  <2> HIDE DEF j
  <2>3. Drawing(PairedNext(o, played, pairings[j - 1], j), o, played, j)
    BY <2>1, <2>2, DrawingGoesOn DEF n
  <2>4. Drawing(pairings[j], o, played, j)
    BY <1>9, <2>1, <2>3
  <2> QED
    BY <2>4 DEF j
<1>13. n \in K
  <2> HIDE DEF K
  <2> QED
    BY <1>1, <1>11, <1>12, NatSetInduction
<1> QED
  BY <1>1, <1>4, <1>13 DEF n

LEMMA GreedyDraws ==
  ASSUME NEW P \in SUBSET Actors, NEW o, NEW row, IsOrder(o, P, row), Len(o) >= 1, NEW played
  PROVE  Draws(greedy(o, played), P, played) /\ Len(greedy(o, played)) # 0
<1> DEFINE ps == greedy(o, played)
<1>1. Drawing(ps, o, played, Len(o))
  BY GreedyRuns
<1> HIDE DEF ps
<1>2. /\ ps \in Seq(Sides) /\ Len(ps) \in Nat /\ DOMAIN ps = 1..Len(ps)
  BY <1>1 DEF Drawing
<1>3. /\ Len(o) \in Nat /\ \A j \in 1..Len(o) : o[j] \in P
      /\ \A x \in P : \E j \in 1..Len(o) : o[j] = x
  BY DEF IsOrder
<1>4. \A k \in 1..Len(ps) : ps[k].a \in Used(ps) /\ ps[k].b \in Used(ps)
  BY <1>2 DEF Used
<1>5. \A k \in 1..Len(ps) : IsPairing(ps[k]) /\ ps[k].a # Bye
  BY <1>1, TournamentAssumption DEF Drawing, IsPairing, Sides
<1>6. \A k \in 1..Len(ps) : ps[k].a \in P /\ ps[k].b \in P \cup {Bye}
  BY <1>1, <1>3, <1>4, <1>5 DEF Drawing
<1>7. \A x \in P : \E k \in 1..Len(ps) : x \in {ps[k].a, ps[k].b}
  BY <1>1, <1>2, <1>3 DEF Drawing, Used
<1>8. Len(ps) # 0
  <2>1. 1 \in 1..Len(o)
    BY <1>3
  <2>2. o[1] \in P
    BY <1>3, <2>1
  <2>3. PICK k \in 1..Len(ps) : TRUE
    BY <1>7, <2>2
  <2> QED
    BY <1>2, <2>3
<1>9. Draws(ps, P, played)
  BY <1>1, <1>2, <1>5, <1>6, <1>7 DEF Draws, Drawing
<1> QED
  BY <1>8, <1>9 DEF ps

-----------------------------------------------------------------------------
LEMMA PairRoundDraws ==
  ASSUME NEW h \in Seq(Event), NEW format, NEW seed \in Seq(Nat),
         pairRound(h, format, seed) # <<>>
  PROVE  /\ Draws(pairRound(h, format, seed), pool(h, format), playedPairs(h))
         /\ IsRound(h, pairRound(h, format, seed))
<1> DEFINE o == inOrder(h, format, seed)
           P == pool(h, format)
           row == drawRow(h, format, seed)
           ps == pairRound(h, format, seed)
<1>1. IsOrder(o, P, row)
  BY DrawIsOrdered
<1>2. P \in SUBSET Actors
  BY PoolsAreFinite
<1>3. /\ ~ (Len(o) < 2)
      /\ ps = IF folds(h, format, seed) THEN folded(o) ELSE greedy(o, playedPairs(h))
  BY DEF pairRound
<1>4. folds(h, format, seed) => playedPairs(h) = {}
  BY DEF folds, playedPairs
<1> HIDE DEF o, P, row, ps
<1>5. Len(o) >= 2 /\ Len(o) >= 1
  <2>1. Len(o) \in Nat
    BY <1>1 DEF IsOrder
  <2> QED
    BY <1>3, <2>1
<1>6. Draws(ps, P, playedPairs(h)) /\ Len(ps) # 0
  <2>1. CASE folds(h, format, seed)
    <3>1. Draws(folded(o), P, {}) /\ Len(folded(o)) # 0
      BY <1>1, <1>2, <1>5, FoldedDraws
    <3> QED
      BY <1>3, <1>4, <2>1, <3>1
  <2>2. CASE ~folds(h, format, seed)
    <3>1. Draws(greedy(o, playedPairs(h)), P, playedPairs(h)) /\ Len(greedy(o, playedPairs(h))) # 0
      BY <1>1, <1>2, <1>5, GreedyDraws
    <3> QED
      BY <1>3, <2>2, <3>1
  <2> QED
    BY <2>1, <2>2
<1>7. IsRound(h, ps)
  <2>1. Bye \notin P
    BY <1>2, TournamentAssumption
  <2>2. ASSUME NEW i \in 1..Len(ps), NEW j \in 1..Len(ps), i # j PROVE ps[i].a # ps[j].a
    <3>1. /\ {ps[i].a, ps[i].b} \cap {ps[j].a, ps[j].b} \subseteq {Bye}
          /\ ps[i].a \in P
      BY <1>6, <2>2 DEF Draws
    <3> QED
      BY <2>1, <3>1
  <2>3. Len(ps) \in Nat \ {0}
    BY <1>6 DEF Draws
  <2> QED
    BY <1>6, <2>2, <2>3 DEF Draws, IsRound
<1> QED
  BY <1>6, <1>7 DEF P, ps

-----------------------------------------------------------------------------
(***************************************************************************)
(* What each command enters.                                               *)
(***************************************************************************)
LEMMA PairEnters ==
  ASSUME EventTypeOK, NEW format \in Formats, NEW bestOf \in BestOfs, NEW seed \in Seeds,
         NEW round, Pair(format, bestOf, seed, round)
  PROVE  /\ hansard' = hansard \o RoundEntries(round, pairRound(hansard, format, seed), bestOf)
         /\ Draws(pairRound(hansard, format, seed), pool(hansard, format), playedPairs(hansard))
         /\ IsRound(hansard, pairRound(hansard, format, seed))
         /\ round \in Nat /\ bestOf \in Nat /\ seed \in Seq(Nat)
         /\ UNCHANGED <<charter, state, suspension>>
<1>1. pairRound(hansard, format, seed) # <<>>
  BY DEF Pair
<1>2. round \in Nat /\ bestOf \in Nat /\ seed \in Seq(Nat)
  BY TournamentAssumption DEF Pair
<1>3. hansard \in Seq(Event)
  BY DEF EventTypeOK
<1>4. /\ Draws(pairRound(hansard, format, seed), pool(hansard, format), playedPairs(hansard))
      /\ IsRound(hansard, pairRound(hansard, format, seed))
  BY <1>1, <1>2, <1>3, PairRoundDraws
<1>5. hansard' = hansard \o RoundEntries(round, pairRound(hansard, format, seed), bestOf)
  BY DEF Pair, Enters, RoundEntries
<1> QED
  BY <1>2, <1>4, <1>5 DEF Pair, Enters, Stays

LEMMA ReportEnters ==
  ASSUME NEW id, NEW winner, Report(id, winner)
  PROVE  /\ hansard' = hansard \o Reported(hansard, id, winner)
         /\ id \in matches(hansard) /\ ~isDecided(hansard, id)
         /\ winner \in {id.a, id.b} /\ winner # Bye
         /\ UNCHANGED <<charter, state, suspension, knockout>>
BY DEF Report, Enters, Reported, Stays

LEMMA WithdrawEnters ==
  ASSUME EventTypeOK, NEW a \in Actors, Withdraw(a)
  PROVE  /\ \E e \in Event : e.type = "ACTOR_EXITED" /\ hansard' = hansard \o <<e>>
         /\ knockout' = FALSE
         /\ UNCHANGED <<charter, state, suspension>>
<1>1. seatOf(hansard, a) # NoSeat
  BY DEF Withdraw, Exit
<1>2. Seated(hansard, a)
  BY <1>1 DEF seatOf
<1>3. seatOf(hansard, a) \in Roles
  <2> DEFINE K == About(hansard, a, SeatTypes)
             h == hansard
  <2>1. h \in Seq(Event)
    BY DEF EventTypeOK
  <2> HIDE DEF h
  <2>2. K \in SUBSET (1..Len(h)) /\ K # {} /\ Len(h) \in Nat
    BY <1>2, <2>1 DEF About, Seated, SeatTypes, h
  <2>3. \A k \in K : h[k] \in Event /\ h[k].type \in SeatTypes
    BY <2>1 DEF About, h
  <2>4. Latest(K) \in K
    <3> HIDE DEF K
    <3> QED
      BY <2>2, LatestIsLatest
  <2>5. \A e \in Event : e.type \in SeatTypes => e.role \in Roles
    BY DEF Event, Entry, MatchEntry, PlainTypes, MotionTypes, SeatTypes
  <2>6. seatOf(h, a) = h[Latest(K)].role
    BY <1>2 DEF seatOf, h
  <2> HIDE DEF K
  <2> QED
    BY <2>3, <2>4, <2>5, <2>6 DEF h
<1> DEFINE e == Exited(a, seatOf(hansard, a), TRUE)
<1>4. e \in Event /\ e.type = "ACTOR_EXITED"
  BY <1>3 DEF Event, Entry, Exited
<1>5. hansard' = hansard \o <<e>>
  BY DEF Withdraw, Exit, Enters
<1> HIDE DEF e
<1> QED
  BY <1>4, <1>5 DEF Withdraw, Exit, Enters, Stays

-----------------------------------------------------------------------------
SoundEvent == EventTypeOK /\ Sound(hansard)

LEMMA OpeningIsSound ==
  ASSUME TournamentInit
  PROVE  SoundEvent
<1>1. hansard \in Seq(Entry)
  BY TournamentAssumption DEF TournamentInit
<1>2. hansard \in Seq(Event)
  BY <1>1 DEF Event
<1>3. EventTypeOK
  <2>1. knockout \in BOOLEAN
    BY DEF TournamentInit
  <2> QED
    BY <1>2, <2>1 DEF TournamentInit, EventTypeOK, States
<1>4. \A k \in DOMAIN hansard : hansard[k].type \notin MatchTypes
  <2>1. \A e \in Entry : e.type \notin MatchTypes
    BY DEF Entry, MatchTypes, PlainTypes, MotionTypes, SeatTypes
  <2> QED
    BY <1>1, <2>1
<1>5. matches(hansard) = {}
  BY <1>4 DEF matches, MatchTypes
<1> QED
  BY <1>3, <1>4, <1>5 DEF SoundEvent, Sound, Traced, TracedAt, Single, MajorityDecides, MatchTypes

LEMMA SoundStep ==
  ASSUME SoundEvent, [TournamentNext]_tournamentVars
  PROVE  SoundEvent'
<1> USE DEF SoundEvent
<1>0. hansard \in Seq(Event)
  BY DEF EventTypeOK
<1>1. ASSUME NEW format \in Formats, NEW bestOf \in BestOfs, NEW seed \in Seeds,
             NEW round, Pair(format, bestOf, seed, round)
      PROVE  SoundEvent'
  <2> DEFINE ps == pairRound(hansard, format, seed)
             es == RoundEntries(round, ps, bestOf)
  <2>1. /\ hansard' = hansard \o es /\ IsRound(hansard, ps) /\ round \in Nat /\ bestOf \in Nat
        /\ UNCHANGED <<charter, state, suspension>>
    BY <1>1, PairEnters
  <2>2. Entered(hansard, es, round, ps, Len(ps))
    BY <1>0, <2>1, RoundIsEntered
  <2> HIDE DEF es, ps
  <2>3. es \in Seq(MatchEntry) /\ Sound(hansard \o es)
    BY <2>2 DEF Entered
  <2>4. es \in Seq(Event)
    BY <2>3 DEF Event
  <2>5. hansard' \in Seq(Event)
    BY <1>0, <2>1, <2>4
  <2>6. knockout' \in BOOLEAN
    BY <1>1 DEF Pair, EventTypeOK
  <2>7. Sound(hansard')
    BY <2>1, <2>3
  <2> QED
    BY <2>1, <2>5, <2>6, <2>7 DEF EventTypeOK
<1>2. ASSUME NEW id, NEW winner, Report(id, winner)
      PROVE  SoundEvent'
  <2> DEFINE es == Reported(hansard, id, winner)
  <2>1. /\ hansard' = hansard \o es /\ id \in matches(hansard) /\ ~isDecided(hansard, id)
        /\ winner \in {id.a, id.b} /\ UNCHANGED <<charter, state, suspension, knockout>>
    BY <1>2, ReportEnters
  <2>2. id \in Ids /\ id.b # Bye
    BY <1>0, <2>1, MatchesAreTyped, ByesAreDecided DEF Sound
  <2>3. ReportForms(hansard, id, winner, es)
    BY <2>1, <2>2, ReportIs
  <2> HIDE DEF es
  <2>4. Sound(hansard \o es)
    BY <1>0, <2>1, <2>3, ReportIsSound
  <2>5. es \in Seq(Event)
    BY <2>3 DEF ReportForms, Event
  <2>6. hansard' \in Seq(Event)
    BY <1>0, <2>1, <2>5
  <2>7. Sound(hansard')
    BY <2>1, <2>4
  <2> QED
    BY <2>1, <2>6, <2>7 DEF EventTypeOK
<1>3. ASSUME NEW a \in Actors, Withdraw(a)
      PROVE  SoundEvent'
  <2>1. PICK e \in Event : e.type = "ACTOR_EXITED" /\ hansard' = hansard \o <<e>>
    BY <1>3, WithdrawEnters
  <2>2. knockout' = FALSE /\ UNCHANGED <<charter, state, suspension>>
    BY <1>3, WithdrawEnters
  <2>3. Sound(hansard \o <<e>>)
    BY <1>0, <2>1, NeutralIsSound DEF MatchTypes
  <2>4. hansard' \in Seq(Event)
    BY <1>0, <2>1
  <2>5. Sound(hansard')
    BY <2>1, <2>3
  <2> QED
    BY <2>2, <2>4, <2>5 DEF EventTypeOK
<1>4. ASSUME UNCHANGED tournamentVars
      PROVE  SoundEvent'
  BY <1>4 DEF tournamentVars, vars, EventTypeOK
<1> QED
  BY <1>1, <1>2, <1>3, <1>4 DEF TournamentNext

\* Whatever is paired, reported or left, results are traced to their matches, each
\* match of two has one, and a series is decided for whoever has most of its games.
THEOREM EventIsSound == TournamentSpec => []SoundEvent
<1>1. TournamentInit => SoundEvent
  BY OpeningIsSound
<1>2. SoundEvent /\ [TournamentNext]_tournamentVars => SoundEvent'
  BY SoundStep
<1> QED
  BY <1>1, <1>2, PTL DEF TournamentSpec

-----------------------------------------------------------------------------
(***************************************************************************)
(* A series ends with the game that wins it.                               *)
(***************************************************************************)
LEMMA ResultsAreFew ==
  ASSUME NEW h \in Seq(Event), Sound(h), NEW id \in matches(h)
  PROVE  Cardinality(Of(h, "MATCH_DECIDED", id)) <= Cardinality(Of(h, "MATCH_CREATED", id))
<1> DEFINE R == Of(h, "MATCH_DECIDED", id)
           C == Of(h, "MATCH_CREATED", id)
<1>1. R \in SUBSET DOMAIN h /\ C \in SUBSET DOMAIN h /\ DOMAIN h \subseteq Int
  BY DEF Of
<1>2. /\ IsFiniteSet(R) /\ IsFiniteSet(C)
      /\ Cardinality(R) \in Nat /\ Cardinality(C) \in Nat
  <2> HIDE DEF R, C
  <2>1. IsFiniteSet(DOMAIN h)
    BY FiguresAreNumbers
  <2> QED
    BY <1>1, <2>1, FS_Subset, FS_CardinalityType
<1>3. CASE id.b = Bye
  <2>1. \A k \in R : k - 1 \in C
    BY <1>3 DEF Sound, Traced, TracedAt, Of, Creates
  <2>2. [k \in R |-> k - 1] \in Injection(R, C)
    <3>1. \A j, k \in R : j - 1 = k - 1 => j = k
      BY <1>1
    <3> HIDE DEF R, C
    <3> QED
      BY <2>1, <3>1 DEF Injection, IsInjective
  <2> HIDE DEF R, C
  <2>3. Cardinality(R) <= Cardinality(C)
    BY <1>2, <2>2, FS_Injection
  <2> QED
    BY <2>3 DEF R, C
<1>4. CASE id.b # Bye
  <2>1. \A j, k \in R : j = k
    BY <1>4 DEF Sound, Single, Of, MatchTypes
  <2>2. C # {}
    BY DEF matches, Of
  <2> HIDE DEF R, C
  <2>3. Cardinality(C) # 0
    BY <1>2, <2>2, FS_EmptySet
  <2>4. Cardinality(R) = 0 \/ Cardinality(R) = 1
    <3>1. R # {} => \E k : R = {k}
      <4> SUFFICES ASSUME NEW k \in R PROVE R = {k}
        OBVIOUS
      <4> QED
        BY <2>1
    <3> QED
      BY <3>1, FS_EmptySet, FS_Singleton
  <2> QED
    BY <1>2, <2>3, <2>4 DEF R, C
<1> QED
  BY <1>3, <1>4

LEMMA SoundSeries == SoundEvent => SeriesIsWon
<1> SUFFICES ASSUME SoundEvent, NEW id \in matches(hansard)
             PROVE  LET results == Of(hansard, "MATCH_DECIDED", id)
                        games == Of(hansard, "MATCH_GAME", id)
                        won(x) == 2 * gamesWon(hansard, id, x) > bestOfIn(hansard, id)
                    IN /\ Cardinality(results) <= Cardinality(Of(hansard, "MATCH_CREATED", id))
                       /\ \A g \in games, r \in results : g < r
                       /\ (id.b # Bye /\ bestOfIn(hansard, id) > 1) =>
                            \A x \in {id.a, id.b} :
                              won(x) <=> (results # {} /\ winnerOf(hansard, id) = x)
  BY DEF SeriesIsWon
<1>1. hansard \in Seq(Event) /\ Sound(hansard)
  BY DEF SoundEvent, EventTypeOK
<1>2. Cardinality(Of(hansard, "MATCH_DECIDED", id)) <= Cardinality(Of(hansard, "MATCH_CREATED", id))
  BY <1>1, ResultsAreFew
<1>3. \A g \in Of(hansard, "MATCH_GAME", id), r \in Of(hansard, "MATCH_DECIDED", id) : g < r
  <2>1. \A g \in Of(hansard, "MATCH_GAME", id) : id.b # Bye
    BY <1>1 DEF Sound, Traced, TracedAt, Of
  <2> QED
    BY <1>1, <2>1 DEF Sound, Single, Of, MatchTypes
<1>4. (id.b # Bye /\ bestOfIn(hansard, id) > 1) =>
        \A x \in {id.a, id.b} :
          2 * gamesWon(hansard, id, x) > bestOfIn(hansard, id)
            <=> (Of(hansard, "MATCH_DECIDED", id) # {} /\ winnerOf(hansard, id) = x)
  BY <1>1 DEF Sound, MajorityDecides, MajorityAt, isDecided
<1> QED
  BY <1>2, <1>3, <1>4

\* Whatever the field and the lengths of the series, a series ends with the game that
\* gives one side most of its games, and has one result for each creation.
THEOREM SeriesSafe == TournamentSpec => []SeriesIsWon
BY EventIsSound, SoundSeries, PTL

-----------------------------------------------------------------------------
(***************************************************************************)
(* A round is drawn fairly.                                                *)
(***************************************************************************)
LEMMA DrawIsEven ==
  ASSUME NEW P \in SUBSET Actors, NEW played, NEW ps, Draws(ps, P, played), NEW round \in Nat
  PROVE  LET drawn == {MatchId(round, ps[i]) : i \in 1..Len(ps)}
             resting == {ps[i].a : i \in {j \in 1..Len(ps) : ps[j].b = Bye}}
         IN Cardinality(P) + Cardinality(resting) = 2 * Cardinality(drawn)
<1> DEFINE n == Len(ps)
           N0 == {i \in 1..n : ps[i].b # Bye}
           N1 == {i \in 1..n : ps[i].b = Bye}
           A == {ps[i].a : i \in 1..n}
           B == {ps[i].b : i \in N0}
           R == {ps[i].a : i \in N1}
           D == {MatchId(round, ps[i]) : i \in 1..n}
<1>1. /\ n \in Nat /\ \A i \in 1..n : IsPairing(ps[i]) /\ ps[i].a \in P /\ ps[i].b \in P \cup {Bye}
      /\ \A i, j \in 1..n : i # j => {ps[i].a, ps[i].b} \cap {ps[j].a, ps[j].b} \subseteq {Bye}
      /\ \A x \in P : \E i \in 1..n : x \in {ps[i].a, ps[i].b}
  BY DEF Draws
<1>2. Bye \notin P
  BY TournamentAssumption
<1>3. ASSUME NEW i \in 1..n, NEW j \in 1..n, i # j
      PROVE  /\ ps[i].a # ps[j].a /\ ps[i].a # ps[j].b
             /\ ps[i].b = ps[j].b => ps[i].b = Bye
  <2>1. {ps[i].a, ps[i].b} \cap {ps[j].a, ps[j].b} \subseteq {Bye} /\ ps[i].a # Bye
    BY <1>1, <1>2, <1>3
  <2> QED
    BY <2>1
<1>4. \A i, j \in N0 : i # j => ps[i].b # ps[j].b
  BY <1>3
<1>5. \A i \in 1..n : ps[i].a # ps[i].b
  BY <1>1 DEF IsPairing
<1>6. P = A \cup B /\ A \cap B = {}
  <2>1. A \subseteq P /\ B \subseteq P
    BY <1>1
  <2>2. P \subseteq A \cup B
    BY <1>1, <1>2
  <2>3. A \cap B = {}
    BY <1>3, <1>5
  <2> QED
    BY <2>1, <2>2, <2>3
<1>7. N0 \in SUBSET (1..n) /\ N1 \in SUBSET (1..n) /\ N0 \cup N1 = 1..n /\ N0 \cap N1 = {}
  OBVIOUS
<1>8. /\ [i \in 1..n |-> ps[i].a] \in Bijection(1..n, A)
      /\ [i \in N0 |-> ps[i].b] \in Bijection(N0, B)
      /\ [i \in N1 |-> ps[i].a] \in Bijection(N1, R)
      /\ [i \in 1..n |-> MatchId(round, ps[i])] \in Bijection(1..n, D)
  <2>1. [i \in 1..n |-> ps[i].a] \in Bijection(1..n, A)
    BY <1>3 DEF Bijection, Injection, Surjection, IsInjective
  <2>2. [i \in N0 |-> ps[i].b] \in Bijection(N0, B)
    BY <1>4 DEF Bijection, Injection, Surjection, IsInjective
  <2>3. [i \in N1 |-> ps[i].a] \in Bijection(N1, R)
    BY <1>3 DEF Bijection, Injection, Surjection, IsInjective
  <2>4. [i \in 1..n |-> MatchId(round, ps[i])] \in Bijection(1..n, D)
    <3>1. \A i, j \in 1..n : MatchId(round, ps[i]) = MatchId(round, ps[j]) => i = j
      BY <1>1, <1>3, IdsOfPairings
    <3> QED
      BY <3>1 DEF Bijection, Injection, Surjection, IsInjective
  <2> QED
    BY <2>1, <2>2, <2>3, <2>4
<1>9. IsFiniteSet(1..n) /\ Cardinality(1..n) = n
  <2>1. n \in Int /\ 1 \in Int /\ (1 > n => n = 0) /\ n - 1 + 1 = n
    BY <1>1
  <2> HIDE DEF n
  <2> QED
    BY <2>1, FS_Interval
<1> HIDE DEF n, N0, N1, A, B, R, D
<1>10. IsFiniteSet(N0) /\ IsFiniteSet(N1) /\ Cardinality(N0) \in Nat /\ Cardinality(N1) \in Nat
  BY <1>7, <1>9, FS_Subset, FS_CardinalityType
<1>11. /\ IsFiniteSet(A) /\ Cardinality(A) = n
       /\ IsFiniteSet(B) /\ Cardinality(B) = Cardinality(N0)
       /\ Cardinality(R) = Cardinality(N1) /\ Cardinality(D) = n
  BY <1>8, <1>9, <1>10, FS_Bijection DEF ExistsBijection
<1>12. Cardinality({}) = 0
  BY FS_EmptySet
<1>13. Cardinality(P) = n + Cardinality(N0)
  <2>1. Cardinality(A \cup B) = Cardinality(A) + Cardinality(B) - Cardinality(A \cap B)
    BY <1>11, FS_Union
  <2>2. Cardinality(A \cap B) = 0 /\ P = A \cup B
    BY <1>6, <1>12
  <2>4. Cardinality(P) = n + Cardinality(N0) - 0
    BY <1>11, <2>1, <2>2, Zenon
  <2> QED
    BY <1>1, <1>10, <2>4
<1>14. n = Cardinality(N0) + Cardinality(N1)
  <2>1. Cardinality(N0 \cup N1) = Cardinality(N0) + Cardinality(N1) - Cardinality(N0 \cap N1)
    BY <1>10, FS_Union
  <2>2. Cardinality(N0 \cap N1) = 0 /\ Cardinality(N0 \cup N1) = n
    BY <1>7, <1>9, <1>12
  <2>3. n = Cardinality(N0) + Cardinality(N1) - 0
    BY <2>1, <2>2, Zenon
  <2> QED
    BY <1>10, <2>3
<1>15. Cardinality(P) + Cardinality(R) = 2 * Cardinality(D)
  BY <1>1, <1>10, <1>11, <1>13, <1>14
<1> QED
  BY <1>15 DEF n, N1, R, D

-----------------------------------------------------------------------------
NewMatches(h, g) ==
  {g[k].match : k \in {j \in DOMAIN g \ DOMAIN h : g[j].type = "MATCH_CREATED"}}

LEMMA NewMatchesAre ==
  ASSUME NEW h \in Seq(Event), NEW es \in Seq(Event)
  PROVE  NewMatches(h, h \o es) = matches(es)
<1> DEFINE g == h \o es
<1>1. IsJoined(g, h, es)
  BY Joined
<1> HIDE DEF g
<1>2. \A k \in DOMAIN g \ DOMAIN h : \E i \in DOMAIN es : k = Len(h) + i /\ g[k] = es[i]
  BY <1>1 DEF IsJoined
<1>3. \A i \in DOMAIN es : Len(h) + i \in DOMAIN g \ DOMAIN h /\ g[Len(h) + i] = es[i]
  <2> SUFFICES ASSUME NEW i \in DOMAIN es
               PROVE  Len(h) + i \in DOMAIN g \ DOMAIN h /\ g[Len(h) + i] = es[i]
    OBVIOUS
  <2>1. i \in 1..Len(es) /\ Len(h) \in Nat /\ Len(es) \in Nat /\ DOMAIN h = 1..Len(h)
    BY <1>1 DEF IsJoined
  <2>2. Len(h) + i \notin 1..Len(h)
    BY <2>1
  <2> QED
    BY <1>1, <2>1, <2>2 DEF IsJoined
<1>4. NewMatches(h, g) \subseteq matches(es)
  BY <1>2 DEF NewMatches, matches
<1>5. matches(es) \subseteq NewMatches(h, g)
  BY <1>3 DEF NewMatches, matches
<1> QED
  BY <1>4, <1>5 DEF g

\* What PairStep asks of the matches drawn.
FairDraw(drawn, h) ==
  LET paired == UNION {{id.a, id.b} \ {Bye} : id \in drawn}
      resting == {id.a : id \in {i \in drawn : i.b = Bye}}
  IN drawn # {} =>
       /\ paired \subseteq contestants(h)
       /\ Cardinality(paired) + Cardinality(resting) = 2 * Cardinality(drawn)
       /\ \A id \in drawn : id.b # Bye => {id.a, id.b} \notin playedPairs(h)
       /\ \A x, y \in resting : x # y => {x, y} \in playedPairs(h)
       /\ paired # contestants(h) => paired = undefeated(h)

LEMMA DrawIsFair ==
  ASSUME NEW h \in Seq(Event), NEW format, NEW round \in Nat,
         NEW ps, Draws(ps, pool(h, format), playedPairs(h))
  PROVE  FairDraw({MatchId(round, ps[j]) : j \in 1..Len(ps)}, h)
<1> DEFINE P == pool(h, format)
           n == Len(ps)
           drawn == {MatchId(round, ps[j]) : j \in 1..n}
           paired == UNION {{id.a, id.b} \ {Bye} : id \in drawn}
           resting == {id.a : id \in {i \in drawn : i.b = Bye}}
<1>1. P \in SUBSET Actors /\ P \subseteq contestants(h) /\ (P # contestants(h) => P = undefeated(h))
  BY PoolsAreFinite DEF pool
<1>2. /\ \A i \in 1..n : IsPairing(ps[i]) /\ ps[i].a \in P /\ ps[i].b \in P \cup {Bye}
      /\ \A i \in 1..n : ps[i].b # Bye => {ps[i].a, ps[i].b} \notin playedPairs(h)
      /\ \A x \in P : \E i \in 1..n : x \in {ps[i].a, ps[i].b}
      /\ \A i, j \in 1..n :
           (i # j /\ ps[i].b = Bye /\ ps[j].b = Bye) => {ps[i].a, ps[j].a} \in playedPairs(h)
  BY DEF Draws
<1>3. Bye \notin P
  BY <1>1, TournamentAssumption
<1>4. \A i \in 1..n : MatchId(round, ps[i]).a = ps[i].a /\ MatchId(round, ps[i]).b = ps[i].b
  BY DEF MatchId
<1>5. Cardinality(P) + Cardinality({ps[i].a : i \in {j \in 1..n : ps[j].b = Bye}})
        = 2 * Cardinality(drawn)
  BY <1>1, DrawIsEven
<1>6. resting = {ps[i].a : i \in {j \in 1..n : ps[j].b = Bye}}
  BY <1>4
<1> HIDE DEF P, n
<1>7. paired = P
  <2>1. ASSUME NEW x \in paired PROVE x \in P
    <3>1. PICK j \in 1..n : x \in {MatchId(round, ps[j]).a, MatchId(round, ps[j]).b} \ {Bye}
      BY <2>1
    <3> QED
      BY <1>2, <1>4, <3>1
  <2>2. ASSUME NEW x \in P PROVE x \in paired
    <3>1. PICK j \in 1..n : x \in {ps[j].a, ps[j].b}
      BY <1>2
    <3>2. MatchId(round, ps[j]) \in drawn /\ x # Bye
      BY <1>3
    <3>3. x \in {MatchId(round, ps[j]).a, MatchId(round, ps[j]).b} \ {Bye}
      BY <1>4, <3>1, <3>2
    <3> QED
      BY <3>2, <3>3
  <2> QED
    BY <2>1, <2>2
<1>8. \A id \in drawn : id.b # Bye => {id.a, id.b} \notin playedPairs(h)
  BY <1>2, <1>4
<1>9. \A x, y \in resting : x # y => {x, y} \in playedPairs(h)
  <2> SUFFICES ASSUME NEW x \in resting, NEW y \in resting, x # y PROVE {x, y} \in playedPairs(h)
    OBVIOUS
  <2>1. PICK i \in 1..n : ps[i].b = Bye /\ x = ps[i].a
    BY <1>6
  <2>2. PICK j \in 1..n : ps[j].b = Bye /\ y = ps[j].a
    BY <1>6
  <2> QED
    BY <1>2, <2>1, <2>2
<1>10. Cardinality(paired) + Cardinality(resting) = 2 * Cardinality(drawn)
  BY <1>5, <1>6, <1>7
<1> HIDE DEF paired, resting, drawn
<1>11. /\ paired \subseteq contestants(h)
       /\ paired # contestants(h) => paired = undefeated(h)
  BY <1>1, <1>7
<1> QED
  BY <1>8, <1>9, <1>10, <1>11 DEF FairDraw, drawn, paired, resting, n

LEMMA FairStep ==
  ASSUME SoundEvent, [TournamentNext]_tournamentVars
  PROVE  PairStep
<1>0. hansard \in Seq(Event) /\ Sound(hansard)
  BY DEF SoundEvent, EventTypeOK
<1>1. PairStep <=> FairDraw(NewMatches(hansard, hansard'), hansard)
  BY DEF PairStep, FairDraw, NewMatches
<1>2. NewMatches(hansard, hansard') = {} => PairStep
  BY <1>1 DEF FairDraw
<1>3. ASSUME NEW format \in Formats, NEW bestOf \in BestOfs, NEW seed \in Seeds,
             NEW round, Pair(format, bestOf, seed, round)
      PROVE  PairStep
  <2> DEFINE ps == pairRound(hansard, format, seed)
             es == RoundEntries(round, ps, bestOf)
  <2>1. /\ hansard' = hansard \o es /\ IsRound(hansard, ps) /\ round \in Nat /\ bestOf \in Nat
        /\ Draws(ps, pool(hansard, format), playedPairs(hansard))
    BY <1>3, PairEnters DEF SoundEvent
  <2>2. Entered(hansard, es, round, ps, Len(ps))
    BY <1>0, <2>1, RoundIsEntered
  <2> HIDE DEF es, ps
  <2>3. es \in Seq(Event) /\ matches(es) = {MatchId(round, ps[j]) : j \in 1..Len(ps)}
    <3>1. es \in Seq(MatchEntry) /\ matches(es) = {MatchId(round, ps[j]) : j \in 1..Len(ps)}
      BY <2>2 DEF Entered
    <3>2. \A s \in Seq(MatchEntry) : s \in Seq(Event)
      BY DEF Event
    <3> QED
      BY <3>1, <3>2
  <2>4. NewMatches(hansard, hansard') = {MatchId(round, ps[j]) : j \in 1..Len(ps)}
    BY <1>0, <2>1, <2>3, NewMatchesAre
  <2>5. FairDraw({MatchId(round, ps[j]) : j \in 1..Len(ps)}, hansard)
    <3>1. Draws(ps, pool(hansard, format), playedPairs(hansard)) /\ round \in Nat
      BY <2>1
    <3> QED
      BY <1>0, <3>1, DrawIsFair
  <2> QED
    BY <1>1, <2>4, <2>5
<1>4. ASSUME NEW id, NEW winner, Report(id, winner)
      PROVE  PairStep
  <2> DEFINE es == Reported(hansard, id, winner)
  <2>1. hansard' = hansard \o es /\ id \in matches(hansard) /\ ~isDecided(hansard, id)
        /\ winner \in {id.a, id.b}
    BY <1>4, ReportEnters
  <2>2. id \in Ids /\ id.b # Bye
    BY <1>0, <2>1, MatchesAreTyped, ByesAreDecided DEF Sound
  <2>3. ReportForms(hansard, id, winner, es)
    BY <2>1, <2>2, ReportIs
  <2> HIDE DEF es
  <2>4. ReportSays(hansard, id, winner, es)
    BY <2>1, <2>2, <2>3, ReportCounts
  <2>5. es \in Seq(Event) /\ matches(es) = {}
    <3>1. es \in Seq(MatchEntry)
      BY <2>3 DEF ReportForms
    <3>2. \A s \in Seq(MatchEntry) : s \in Seq(Event)
      BY DEF Event
    <3> QED
      BY <2>4, <3>1, <3>2 DEF ReportSays
  <2> QED
    BY <1>0, <1>2, <2>1, <2>5, NewMatchesAre
<1>5. ASSUME NEW a \in Actors, Withdraw(a)
      PROVE  PairStep
  <2>1. PICK e \in Event : e.type = "ACTOR_EXITED" /\ hansard' = hansard \o <<e>>
    BY <1>5, WithdrawEnters DEF SoundEvent
  <2>2. <<e>> \in Seq(Event) /\ matches(<<e>>) = {}
    <3>1. <<e>> \in Seq(Event) /\ \A k \in DOMAIN <<e>> : <<e>>[k] = e
      OBVIOUS
    <3> QED
      BY <2>1, <3>1 DEF matches
  <2> QED
    BY <1>0, <1>2, <2>1, <2>2, NewMatchesAre
<1>6. ASSUME UNCHANGED tournamentVars
      PROVE  PairStep
  <2>1. hansard' = hansard
    BY <1>6 DEF tournamentVars, vars
  <2> QED
    BY <1>2, <2>1 DEF NewMatches
<1> QED
  BY <1>3, <1>4, <1>5, <1>6 DEF TournamentNext

\* Whatever was played, reported, voted or left before it, every round is drawn fairly.
THEOREM RoundsAreFair == TournamentSpec => RoundIsFair
<1>1. SoundEvent /\ [TournamentNext]_tournamentVars => PairStep
  BY FairStep
<1> QED
  BY <1>1, EventIsSound, PTL DEF RoundIsFair, TournamentSpec

-----------------------------------------------------------------------------
(***************************************************************************)
(* The table and the matches agree.                                        *)
(***************************************************************************)
LEMMA ResultsOfTwo ==
  ASSUME NEW h \in Seq(Event), Sound(h), NEW k \in decisions(h)
  PROVE  LET id == h[k].match
         IN /\ id \in matches(h) /\ id \in Ids /\ isDecided(h, id)
            /\ h[k].winner \in {id.a, id.b} \ {Bye}
            /\ id.b = Bye => h[k] = Decided(id, id.a, Bye)
            /\ id.b # Bye => /\ h[k].loser = loserOf(id, h[k].winner)
                             /\ winnerOf(h, id) = h[k].winner
                             /\ \A j \in decisions(h) : h[j].match = id => j = k
<1> DEFINE id == h[k].match
           K == Of(h, "MATCH_DECIDED", id)
<1>1. k \in DOMAIN h /\ h[k].type = "MATCH_DECIDED" /\ h[k] \in Event
  BY DEF decisions
<1>2. id \in Ids
  BY <1>1, MatchFields DEF MatchTypes
<1>3. TracedAt(h, k)
  BY <1>1 DEF Sound, Traced
<1>4. k \in K /\ K \subseteq DOMAIN h
  BY <1>1 DEF Of
<1>5. isDecided(h, id)
  BY <1>4 DEF isDecided
<1>6. DOMAIN h = 1..Len(h) /\ Len(h) \in Nat
  OBVIOUS
<1>7. \E j \in DOMAIN h : Creates(h, j, id)
  <2>1. CASE id.b = Bye
    BY <1>1, <1>3, <2>1 DEF TracedAt
  <2>2. CASE id.b # Bye
    <3>1. PICK j \in 1..(k - 1) : Creates(h, j, id)
      BY <1>1, <1>3, <2>2 DEF TracedAt
    <3>2. j \in DOMAIN h
      BY <1>1, <1>6
    <3> QED
      BY <3>1, <3>2
  <2> QED
    BY <2>1, <2>2
<1>8. id \in matches(h)
  BY <1>7 DEF matches, Creates
<1>9. id.b = Bye => h[k] = Decided(id, id.a, Bye)
  BY <1>1, <1>3 DEF TracedAt
<1>10. id.a \in Actors /\ id.a # Bye /\ id.b \in Actors \cup {Bye}
  BY <1>2, TournamentAssumption DEF Ids
<1>11. h[k].winner \in {id.a, id.b} \ {Bye}
  <2>1. CASE id.b = Bye
    BY <1>9, <1>10, <2>1 DEF Decided
  <2>2. CASE id.b # Bye
    BY <1>1, <1>3, <1>10, <2>2 DEF TracedAt
  <2> QED
    BY <2>1, <2>2
<1>12. ASSUME id.b # Bye
       PROVE  /\ h[k].loser = loserOf(id, h[k].winner)
              /\ winnerOf(h, id) = h[k].winner
              /\ \A j \in decisions(h) : h[j].match = id => j = k
  <2>1. h[k].loser = loserOf(id, h[k].winner)
    BY <1>1, <1>3, <1>12 DEF TracedAt
  <2>2. ASSUME NEW j \in decisions(h), h[j].match = id PROVE j = k
    <3>1. j \in DOMAIN h /\ h[j].type = "MATCH_DECIDED"
      BY DEF decisions
    <3> QED
      BY <1>1, <1>12, <2>2, <3>1 DEF Sound, Single, MatchTypes
  <2>3. K = {k}
    <3>1. \A j \in K : j \in decisions(h) /\ h[j].match = id
      BY DEF Of, decisions
    <3> QED
      BY <1>4, <2>2, <3>1
  <2>4. Latest({k}) = k
    BY <1>1, <1>6 DEF Latest
  <2>5. winnerOf(h, id) = h[k].winner
    BY <2>3, <2>4 DEF winnerOf
  <2> QED
    BY <2>1, <2>2, <2>5
<1> QED
  BY <1>2, <1>5, <1>8, <1>9, <1>11, <1>12

\* Every decided match has a result the table reads.
LEMMA DecidedIsRead ==
  ASSUME NEW h \in Seq(Event), NEW id, isDecided(h, id)
  PROVE  \E k \in decisions(h) : h[k].match = id /\ h[k].winner = winnerOf(h, id)
<1> DEFINE K == Of(h, "MATCH_DECIDED", id)
<1>1. K # {} /\ K \in SUBSET (1..Len(h)) /\ Len(h) \in Nat
  BY DEF isDecided, Of
<1>2. \A k \in K : k \in decisions(h) /\ h[k].match = id
  BY DEF Of, decisions
<1>3. Latest(K) \in K
  <2> HIDE DEF K
  <2> QED
    BY <1>1, LatestIsLatest
<1>4. winnerOf(h, id) = h[Latest(K)].winner
  BY DEF winnerOf
<1> HIDE DEF K
<1> QED
  BY <1>2, <1>3, <1>4

Over(h, x) == {id \in matches(h) : x \in {id.a, id.b} /\ isDecided(h, id)}
WonOf(h, x) == {id \in Over(h, x) : winnerOf(h, id) = x}
ByesOf(h, x) ==
  {k \in DOMAIN h : h[k].type = "MATCH_CREATED" /\ h[k].match.a = x /\ h[k].match.b = Bye}

LEMMA WinsAreOfMatches ==
  ASSUME NEW h \in Seq(Event), Sound(h), NEW x \in Actors
  PROVE  Cardinality(wonBy(h, x))
           = Cardinality({id \in WonOf(h, x) : id.b # Bye}) + Cardinality(ByesOf(h, x))
<1> DEFINE M == {id \in WonOf(h, x) : id.b # Bye}
           B == ByesOf(h, x)
           W0 == {k \in wonBy(h, x) : h[k].match.b # Bye}
           W1 == {k \in wonBy(h, x) : h[k].match.b = Bye}
<1>0. \A k \in wonBy(h, x) : k \in decisions(h) /\ k \in DOMAIN h /\ h[k].winner = x /\ k \in Int
  BY DEF wonBy, decisions
<1>1. [k \in W0 |-> h[k].match] \in Bijection(W0, M)
  <2>1. ASSUME NEW k \in W0 PROVE h[k].match \in M
    <3>1. /\ h[k].match \in matches(h) /\ isDecided(h, h[k].match)
          /\ x \in {h[k].match.a, h[k].match.b}
          /\ winnerOf(h, h[k].match) = x
      BY <1>0, ResultsOfTwo
    <3> QED
      BY <3>1 DEF WonOf, Over
  <2>2. ASSUME NEW j \in W0, NEW k \in W0, h[j].match = h[k].match PROVE j = k
    BY <1>0, <2>2, ResultsOfTwo
  <2>3. ASSUME NEW id \in M PROVE \E k \in W0 : h[k].match = id
    <3>1. isDecided(h, id) /\ winnerOf(h, id) = x /\ id.b # Bye
      BY DEF WonOf, Over
    <3>2. PICK k \in decisions(h) : h[k].match = id /\ h[k].winner = winnerOf(h, id)
      BY <3>1, DecidedIsRead
    <3> QED
      BY <3>1, <3>2 DEF wonBy
  <2> HIDE DEF W0, M
  <2> QED
    BY <2>1, <2>2, <2>3 DEF Bijection, Injection, Surjection, IsInjective
<1>2. [k \in W1 |-> k - 1] \in Bijection(W1, B)
  <2>1. ASSUME NEW k \in W1 PROVE k - 1 \in B
    <3>1. k \in DOMAIN h /\ h[k].type = "MATCH_DECIDED" /\ h[k].match.b = Bye /\ h[k].winner = x
      BY DEF wonBy, decisions
    <3>2. /\ h[k] = Decided(h[k].match, h[k].match.a, Bye)
          /\ k - 1 \in DOMAIN h /\ Creates(h, k - 1, h[k].match)
      BY <3>1 DEF Sound, Traced, TracedAt
    <3>3. h[k].match.a = x
      BY <3>1, <3>2 DEF Decided
    <3> QED
      BY <3>1, <3>2, <3>3 DEF ByesOf, Creates
  <2>2. ASSUME NEW j \in W1, NEW k \in W1, j - 1 = k - 1 PROVE j = k
    <3>1. j \in Int /\ k \in Int
      BY <1>0
    <3> HIDE DEF W1
    <3> QED
      BY <2>2, <3>1
  <2>3. ASSUME NEW j \in B PROVE \E k \in W1 : k - 1 = j
    <3>1. j \in DOMAIN h /\ h[j].type = "MATCH_CREATED" /\ h[j].match.a = x /\ h[j].match.b = Bye
      BY DEF ByesOf
    <3>2. j + 1 \in DOMAIN h /\ h[j + 1] = Decided(h[j].match, h[j].match.a, Bye)
      BY <3>1 DEF Sound, Traced, TracedAt
    <3>3. j + 1 \in W1
      BY <3>1, <3>2 DEF wonBy, decisions, Decided
    <3>4. (j + 1) - 1 = j
      BY <3>1
    <3> QED
      BY <3>3, <3>4
  <2> HIDE DEF W1, B
  <2> QED
    BY <2>1, <2>2, <2>3 DEF Bijection, Injection, Surjection, IsInjective
<1>3. W0 \in SUBSET wonBy(h, x) /\ W1 \in SUBSET wonBy(h, x)
      /\ wonBy(h, x) = W0 \cup W1 /\ W0 \cap W1 = {}
  OBVIOUS
<1> HIDE DEF M, B, W0, W1
<1>4. IsFiniteSet(W0) /\ IsFiniteSet(W1) /\ Cardinality(W0) \in Nat /\ Cardinality(W1) \in Nat
  BY <1>3, FiguresAreNumbers, FS_Subset, FS_CardinalityType
<1>5. Cardinality(M) = Cardinality(W0) /\ Cardinality(B) = Cardinality(W1)
  BY <1>1, <1>2, <1>4, FS_Bijection DEF ExistsBijection
<1>6. Cardinality(W0 \cup W1) = Cardinality(W0) + Cardinality(W1) - Cardinality(W0 \cap W1)
  BY <1>4, FS_Union
<1>7. Cardinality(W0 \cap W1) = 0
  BY <1>3, FS_EmptySet
<1>8. Cardinality(wonBy(h, x)) = Cardinality(W0) + Cardinality(W1) - 0
  BY <1>3, <1>6, <1>7, Zenon
<1>9. Cardinality(wonBy(h, x)) = Cardinality(W0) + Cardinality(W1)
  BY <1>4, <1>8
<1> QED
  BY <1>5, <1>9 DEF M, B

LEMMA LossesAreOfMatches ==
  ASSUME NEW h \in Seq(Event), Sound(h), NEW x \in Actors
  PROVE  Cardinality(lostBy(h, x)) = Cardinality(Over(h, x) \ WonOf(h, x))
<1> DEFINE M == Over(h, x) \ WonOf(h, x)
           L == lostBy(h, x)
<1>0. \A k \in L : k \in decisions(h) /\ h[k].loser = x
  BY DEF lostBy
<1>1. x # Bye
  BY TournamentAssumption
<1>2. ASSUME NEW k \in L PROVE h[k].match \in M /\ h[k].match.b # Bye
  <2> DEFINE id == h[k].match
  <2>1. /\ id \in matches(h) /\ id \in Ids /\ isDecided(h, id)
        /\ h[k].winner \in {id.a, id.b} \ {Bye}
        /\ id.b = Bye => h[k] = Decided(id, id.a, Bye)
        /\ id.b # Bye => h[k].loser = loserOf(id, h[k].winner) /\ winnerOf(h, id) = h[k].winner
    BY <1>0, ResultsOfTwo
  <2> HIDE DEF id
  <2>2. id.b # Bye
    BY <1>0, <1>1, <2>1 DEF Decided
  <2>3. id.a # id.b
    BY <2>1 DEF Ids
  <2>4. x \in {id.a, id.b} /\ h[k].winner # x
    BY <1>0, <2>1, <2>2, <2>3 DEF loserOf
  <2>5. id \in M
    BY <2>1, <2>2, <2>4 DEF Over, WonOf
  <2> QED
    BY <2>2, <2>5 DEF id
<1>3. ASSUME NEW j \in L, NEW k \in L, h[j].match = h[k].match PROVE j = k
  BY <1>0, <1>2, <1>3, ResultsOfTwo
<1>4. ASSUME NEW id \in M PROVE \E k \in L : h[k].match = id
  <2>1. id \in matches(h) /\ x \in {id.a, id.b} /\ isDecided(h, id) /\ winnerOf(h, id) # x
    BY DEF Over, WonOf
  <2>2. PICK k \in decisions(h) : h[k].match = id /\ h[k].winner = winnerOf(h, id)
    BY <2>1, DecidedIsRead
  <2>3. /\ h[k].winner \in {id.a, id.b} \ {Bye}
        /\ id.b # Bye => h[k].loser = loserOf(id, h[k].winner)
    BY <2>2, ResultsOfTwo
  <2>4. id.b # Bye
    BY <1>1, <2>1, <2>2, <2>3
  <2>5. h[k].loser = x
    BY <2>1, <2>2, <2>3, <2>4 DEF loserOf
  <2> QED
    BY <2>2, <2>5 DEF lostBy
<1> HIDE DEF M, L
<1>5. [k \in L |-> h[k].match] \in Bijection(L, M)
  BY <1>2, <1>3, <1>4 DEF Bijection, Injection, Surjection, IsInjective
<1>6. IsFiniteSet(L)
  BY FiguresAreNumbers DEF L
<1> QED
  BY <1>5, <1>6, FS_Bijection DEF ExistsBijection, L, M

LEMMA SoundTable == SoundEvent => TableAgreesWithMatches
<1> DEFINE h == hansard
<1> SUFFICES ASSUME SoundEvent, NEW x \in Actors
             PROVE  /\ wins(h, x) = Cardinality({id \in WonOf(h, x) : id.b # Bye})
                                      + Cardinality(ByesOf(h, x)) + Cardinality(scoredVotes(h, x, TRUE))
                    /\ losses(h, x) = Cardinality(Over(h, x) \ WonOf(h, x))
                                        + Cardinality(scoredVotes(h, x, FALSE))
  BY DEF TableAgreesWithMatches, WonOf, Over, ByesOf
<1>1. h \in Seq(Event) /\ Sound(h)
  BY DEF SoundEvent, EventTypeOK
<1> HIDE DEF h
<1>2. /\ wins(h, x) = Cardinality(wonBy(h, x)) + Cardinality(scoredVotes(h, x, TRUE))
      /\ losses(h, x) = Cardinality(lostBy(h, x)) + Cardinality(scoredVotes(h, x, FALSE))
  BY <1>1, FiguresAreNumbers
<1>3. /\ Cardinality(wonBy(h, x))
           = Cardinality({id \in WonOf(h, x) : id.b # Bye}) + Cardinality(ByesOf(h, x))
      /\ Cardinality(lostBy(h, x)) = Cardinality(Over(h, x) \ WonOf(h, x))
  BY <1>1, WinsAreOfMatches, LossesAreOfMatches
<1> QED
  BY <1>2, <1>3, Zenon

\* Whatever the record says of matches and votes, its two readers agree.
THEOREM ReadersAgree == TournamentSpec => []TableAgreesWithMatches
BY EventIsSound, SoundTable, PTL

-----------------------------------------------------------------------------
(***************************************************************************)
(* A sum over a finite set, taken one element at a time.                   *)
(***************************************************************************)
One(s) == CHOOSE x \in s : TRUE
Summed(v, S, g) == [s \in SUBSET S |-> IF s = {} THEN 0 ELSE v[One(s)] + g[s \ {One(s)}]]

LEMMA SumExists ==
  ASSUME NEW S, IsFiniteSet(S), NEW v \in [S -> Int]
  PROVE  \E g \in [SUBSET S -> Int] : g = Summed(v, S, g)
<1> DEFINE N == Cardinality(S)
           T == [SUBSET S -> Int]
           zero == [s \in SUBSET S |-> 0]
           step == [i \in 1..N |-> [g \in T |-> Summed(v, S, g)]]
<1>1. N \in Nat /\ \A s \in SUBSET S : IsFiniteSet(s) /\ Cardinality(s) \in Nat /\ Cardinality(s) <= N
  BY FS_CardinalityType, FS_Subset
<1>2. \A s \in SUBSET S : s # {} => One(s) \in s /\ s \ {One(s)} \in SUBSET S
  BY DEF One
<1>3. \A g \in T : Summed(v, S, g) \in T
  <2> SUFFICES ASSUME NEW g \in T, NEW s \in SUBSET S, s # {}
               PROVE  v[One(s)] + g[s \ {One(s)}] \in Int
    BY DEF Summed
  <2>1. One(s) \in S /\ s \ {One(s)} \in SUBSET S
    BY <1>2
  <2>2. v[One(s)] \in Int /\ g[s \ {One(s)}] \in Int
    BY <2>1
  <2> QED
    BY <2>2
<1>4. zero \in T
  OBVIOUS
<1>5. step \in [1..N -> [T -> T]] /\ \A i \in 1..N, g \in T : step[i][g] = Summed(v, S, g)
  BY <1>3
<1> HIDE DEF T, zero, step, N
<1>6. PICK f \in [0..N -> T] : Runs(f, zero, step, N)
  BY <1>1, <1>4, <1>5, RecursionExists
<1>7. \A i \in 0..N : f[i] \in T
  OBVIOUS
<1>8. f[0] = zero /\ \A i \in 1..N : f[i] = Summed(v, S, f[i - 1])
  <2>1. \A i \in 1..N : i - 1 \in 0..N
    BY <1>1
  <2> QED
    BY <1>5, <1>6, <1>7, <2>1 DEF Runs
\* From the size of a set on, its sum stays.
<1> DEFINE Same(i, s) == \A j \in 0..N : i <= j => f[j][s] = f[i][s]
           K == {i \in Nat : i \in 0..N =>
                   \A s \in SUBSET S : Cardinality(s) <= i => Same(i, s)}
<1>9. \A s \in SUBSET S : s # {} => Cardinality(s \ {One(s)}) = Cardinality(s) - 1
  BY <1>1, <1>2, FS_RemoveElement
<1>10. \A s \in SUBSET S : Cardinality(s) = 0 => s = {}
  BY <1>1, FS_EmptySet
<1>11. \A j \in 0..N : f[j][{}] = 0
  <2> SUFFICES ASSUME NEW j \in 0..N PROVE f[j][{}] = 0
    OBVIOUS
  <2>1. CASE j = 0
    BY <1>8, <2>1 DEF zero
  <2>2. CASE j # 0
    <3>1. j \in 1..N
      BY <1>1, <2>2
    <3> QED
      BY <1>8, <3>1 DEF Summed
  <2> QED
    BY <2>1, <2>2
<1>12. 0 \in K
  <2> SUFFICES ASSUME 0 \in 0..N, NEW s \in SUBSET S, Cardinality(s) <= 0 PROVE Same(0, s)
    OBVIOUS
  <2>1. s = {}
    BY <1>1, <1>10
  <2> QED
    BY <1>11, <2>1
<1>13. ASSUME NEW i \in Nat, i \in K PROVE i + 1 \in K
  <2> SUFFICES ASSUME i + 1 \in 0..N, NEW s \in SUBSET S, Cardinality(s) <= i + 1,
                      NEW j \in 0..N, i + 1 <= j
               PROVE  f[j][s] = f[i + 1][s]
    OBVIOUS
  <2>1. CASE s = {}
    BY <1>11, <2>1
  <2>2. CASE s # {}
    <3> DEFINE r == s \ {One(s)}
    <3>1. r \in SUBSET S /\ Cardinality(r) <= i
      <4>1. Cardinality(r) = Cardinality(s) - 1 /\ r \in SUBSET S
        BY <1>2, <1>9, <2>2
      <4>2. Cardinality(s) \in Nat
        BY <1>1
      <4> HIDE DEF r
      <4> QED
        BY <4>1, <4>2
    <3> HIDE DEF r
    <3>2. j \in 1..N /\ i + 1 \in 1..N /\ j - 1 \in 0..N /\ i <= j - 1 /\ (i + 1) - 1 = i /\ i \in 0..N
      BY <1>1
    <3>3. f[j - 1][r] = f[i][r]
      BY <1>13, <3>1, <3>2
    <3>4. f[j][s] = v[One(s)] + f[j - 1][r]
      BY <1>8, <2>2, <3>2 DEF Summed, r
    <3>5. f[i + 1][s] = v[One(s)] + f[i][r]
      <4>1. f[i + 1] = Summed(v, S, f[(i + 1) - 1])
        BY <1>8, <3>2
      <4>2. f[(i + 1) - 1] = f[i]
        BY <3>2
      <4>3. f[i + 1] = Summed(v, S, f[i])
        BY <4>1, <4>2
      <4> QED
        BY <2>2, <4>3 DEF Summed, r
    <3> QED
      BY <3>3, <3>4, <3>5
  <2> QED
    BY <2>1, <2>2
<1>14. Nat \subseteq K
  <2> HIDE DEF K
  <2> QED
    BY <1>12, <1>13, NatSetInduction
<1>15. N \in 0..N
  BY <1>1
<1>16. \A s \in SUBSET S : f[N][s] = IF s = {} THEN 0 ELSE v[One(s)] + f[N][s \ {One(s)}]
  <2> SUFFICES ASSUME NEW s \in SUBSET S, s # {} PROVE f[N][s] = v[One(s)] + f[N][s \ {One(s)}]
    BY <1>11, <1>15
  <2>1. Cardinality(s) \in Nat /\ Cardinality(s) # 0 /\ Cardinality(s) <= N
    BY <1>1, <1>10
  <2>2. N \in 1..N /\ N - 1 \in 0..N /\ N - 1 \in Nat /\ N - 1 <= N
    BY <1>1, <2>1
  <2>3. f[N][s] = v[One(s)] + f[N - 1][s \ {One(s)}]
    BY <1>8, <2>2 DEF Summed
  <2>4. f[N][s \ {One(s)}] = f[N - 1][s \ {One(s)}]
    <3>1. N - 1 \in K
      BY <1>14, <2>2
    <3>2. Cardinality(s \ {One(s)}) <= N - 1 /\ s \ {One(s)} \in SUBSET S
      <4>1. Cardinality(s \ {One(s)}) = Cardinality(s) - 1
        BY <1>9
      <4> QED
        BY <1>1, <1>2, <2>1, <4>1
    <3>3. Same(N - 1, s \ {One(s)})
      BY <2>2, <3>1, <3>2
    <3> QED
      BY <1>15, <2>2, <3>3
  <2> QED
    BY <2>3, <2>4
<1>17. f[N] \in [SUBSET S -> Int]
  BY <1>15, <1>7 DEF T
<1>18. f[N] = Summed(v, S, f[N])
  BY <1>16, <1>17 DEF Summed
<1> QED
  BY <1>17, <1>18

\* What such a sum is, it is for every function that sums.
LEMMA SumsAreNumbers ==
  ASSUME NEW S, IsFiniteSet(S), NEW v \in [S -> Int], NEW g, g = Summed(v, S, g)
  PROVE  g[S] \in Int
<1> DEFINE K == {i \in Nat : \A s \in SUBSET S : Cardinality(s) = i => g[s] \in Int}
<1>1. \A s \in SUBSET S : IsFiniteSet(s) /\ Cardinality(s) \in Nat
  BY FS_CardinalityType, FS_Subset
<1>2. \A s \in SUBSET S : g[s] = IF s = {} THEN 0 ELSE v[One(s)] + g[s \ {One(s)}]
  <2>1. \A f : f = Summed(v, S, f) =>
          \A s \in SUBSET S : f[s] = IF s = {} THEN 0 ELSE v[One(s)] + f[s \ {One(s)}]
    BY DEF Summed
  <2> QED
    BY <2>1
<1>3. \A s \in SUBSET S : s # {} => One(s) \in s /\ s \ {One(s)} \in SUBSET S
  BY DEF One
<1>4. 0 \in K
  <2>1. \A s \in SUBSET S : Cardinality(s) = 0 => s = {}
    BY <1>1, FS_EmptySet
  <2>2. {} \in SUBSET S /\ 0 \in Int
    OBVIOUS
  <2>3. g[{}] = 0
    BY <1>2, <2>2
  <2>4. \A s \in SUBSET S : Cardinality(s) = 0 => g[s] \in Int
    BY <2>1, <2>2, <2>3
  <2> QED
    BY <2>4
<1>5. ASSUME NEW i \in Nat, i \in K PROVE i + 1 \in K
  <2> SUFFICES ASSUME NEW s \in SUBSET S, Cardinality(s) = i + 1 PROVE g[s] \in Int
    OBVIOUS
  <2>1. s # {}
    BY FS_EmptySet
  <2>2. Cardinality(s \ {One(s)}) = i
    <3>1. Cardinality(s \ {One(s)}) = Cardinality(s) - 1
      BY <1>1, <1>3, <2>1, FS_RemoveElement
    <3> QED
      BY <3>1
  <2>3. g[s \ {One(s)}] \in Int /\ v[One(s)] \in Int
    BY <1>3, <1>5, <2>1, <2>2
  <2> QED
    BY <1>2, <2>1, <2>3
<1>6. Cardinality(S) \in K
  <2> HIDE DEF K
  <2> QED
    BY <1>1, <1>4, <1>5, NatSetInduction
<1> QED
  BY <1>6

LEMMA BuchholzIsNumber ==
  ASSUME NEW h \in Seq(Event), NEW x
  PROVE  buchholz(h, x) \in Int
<1> DEFINE S == Actors \ {x}
           met(y) == Cardinality({k \in decisions(h) : {h[k].winner, h[k].loser} = {x, y}})
           v == [y \in S |-> met(y) * wins(h, y)]
           Steps(g) == [s \in SUBSET S |->
                          IF s = {} THEN 0
                          ELSE met(CHOOSE y \in s : TRUE) * wins(h, CHOOSE y \in s : TRUE)
                                 + g[s \ {CHOOSE y \in s : TRUE}]]
           iter == CHOOSE g : g = Steps(g)
<1>1. buchholz(h, x) = iter[S]
  BY DEF buchholz, MapThenSumSet, MapThenFoldSet
<1>2. \A y \in S : met(y) \in Int
  <2> SUFFICES ASSUME NEW y \in S PROVE met(y) \in Int
    OBVIOUS
  <2> DEFINE M == {k \in decisions(h) : {h[k].winner, h[k].loser} = {x, y}}
  <2>1. M \in SUBSET DOMAIN h
    BY DEF decisions
  <2>2. IsFiniteSet(DOMAIN h)
    BY FiguresAreNumbers
  <2> HIDE DEF M
  <2>3. Cardinality(M) \in Nat
    BY <2>1, <2>2, FS_Subset, FS_CardinalityType
  <2>4. Cardinality(M) \in Int
    BY <2>3
  <2> QED
    BY <2>4 DEF M
<1> HIDE DEF met
<1>3. \A y : wins(h, y) \in Int
  <2>1. \A y : wins(h, y) \in Nat
    BY FiguresAreNumbers
  <2> QED
    BY <2>1
<1>4. \A y \in S : met(y) * wins(h, y) \in Int
  <2>1. \A i, j \in Int : i * j \in Int
    OBVIOUS
  <2> QED
    BY <1>2, <1>3, <2>1, Zenon
<1>5. v \in [S -> Int] /\ \A y \in S : v[y] = met(y) * wins(h, y)
  BY <1>4
<1>6. IsFiniteSet(S)
  BY TournamentAssumption, FS_Difference
<1> HIDE DEF S, v
<1>7. \A g : Steps(g) = Summed(v, S, g)
  <2> SUFFICES ASSUME NEW g, NEW s \in SUBSET S, s # {}
               PROVE  met(CHOOSE y \in s : TRUE) * wins(h, CHOOSE y \in s : TRUE) = v[One(s)]
    BY DEF Summed, One
  <2>1. One(s) \in S
    BY DEF One
  <2> QED
    BY <1>5, <2>1 DEF One
<1>8. \E g : g = Steps(g)
  <2> HIDE DEF Steps
  <2>1. \E g : g = Summed(v, S, g)
    BY <1>5, <1>6, SumExists
  <2> QED
    BY <1>7, <2>1
<1>9. iter = Steps(iter)
  BY <1>8
<1> HIDE DEF iter, Steps
<1>10. iter = Summed(v, S, iter)
  BY <1>7, <1>9
<1>11. iter[S] \in Int
  BY <1>5, <1>6, <1>10, SumsAreNumbers
<1> QED
  BY <1>1, <1>11

-----------------------------------------------------------------------------
(***************************************************************************)
(* A bracket stays one.                                                    *)
(***************************************************************************)
LEMMA FiguresJoined ==
  ASSUME NEW h \in Seq(Event), NEW es \in Seq(MatchEntry), NEW x
  PROVE  /\ wins(h \o es, x) = wins(h, x) + Cardinality(wonBy(es, x))
         /\ losses(h \o es, x) = losses(h, x) + Cardinality(lostBy(es, x))
         /\ wins(h, x) \in Nat /\ losses(h, x) \in Nat
         /\ Cardinality(wonBy(es, x)) \in Nat /\ Cardinality(lostBy(es, x)) \in Nat
<1> DEFINE g == h \o es
<1>1. es \in Seq(Event) /\ \A b : scoredVotes(g, x, b) = scoredVotes(h, x, b)
  BY FieldJoined
<1>2. g \in Seq(Event)
  BY <1>1, Joined
<1>3. /\ Cardinality(wonBy(g, x)) = Cardinality(wonBy(h, x)) + Cardinality(wonBy(es, x))
      /\ Cardinality(lostBy(g, x)) = Cardinality(lostBy(h, x)) + Cardinality(lostBy(es, x))
  BY <1>1, ResultsJoined
<1> HIDE DEF g
<1>4. /\ wins(g, x) = Cardinality(wonBy(g, x)) + Cardinality(scoredVotes(g, x, TRUE))
      /\ losses(g, x) = Cardinality(lostBy(g, x)) + Cardinality(scoredVotes(g, x, FALSE))
  BY <1>2, FiguresAreNumbers
<1>5. /\ wins(h, x) = Cardinality(wonBy(h, x)) + Cardinality(scoredVotes(h, x, TRUE))
      /\ losses(h, x) = Cardinality(lostBy(h, x)) + Cardinality(scoredVotes(h, x, FALSE))
      /\ wins(h, x) \in Nat /\ losses(h, x) \in Nat
      /\ Cardinality(wonBy(h, x)) \in Nat /\ Cardinality(lostBy(h, x)) \in Nat
      /\ \A b : Cardinality(scoredVotes(h, x, b)) \in Nat
  BY FiguresAreNumbers
<1>6. Cardinality(wonBy(es, x)) \in Nat /\ Cardinality(lostBy(es, x)) \in Nat
  BY <1>1, FiguresAreNumbers
<1> DEFINE a == Cardinality(wonBy(h, x))
           b == Cardinality(wonBy(es, x))
           c == Cardinality(lostBy(h, x))
           d == Cardinality(lostBy(es, x))
           s == Cardinality(scoredVotes(h, x, TRUE))
           t == Cardinality(scoredVotes(h, x, FALSE))
<1>7. a \in Nat /\ b \in Nat /\ c \in Nat /\ d \in Nat /\ s \in Nat /\ t \in Nat
  BY <1>5, <1>6
<1>8. /\ wins(g, x) = (a + b) + s /\ wins(h, x) = a + s
      /\ losses(g, x) = (c + d) + t /\ losses(h, x) = c + t
  BY <1>1, <1>3, <1>4, <1>5, Zenon
<1> HIDE DEF a, b, c, d, s, t
<1>9. wins(g, x) = wins(h, x) + b /\ losses(g, x) = losses(h, x) + d
  BY <1>7, <1>8
<1> QED
  BY <1>5, <1>6, <1>9 DEF g, b, d

LEMMA DecidedIsCreated ==
  ASSUME NEW h \in Seq(Event), Sound(h), NEW id, isDecided(h, id)
  PROVE  id \in matches(h)
<1>1. PICK k \in decisions(h) : h[k].match = id
  BY DecidedIsRead
<1> QED
  BY <1>1, ResultsOfTwo

LEMMA NobodyLeaves ==
  ASSUME NEW h \in Seq(Event), NEW es \in Seq(MatchEntry),
         \A k \in DOMAIN h : h[k].type \notin {"ACTOR_EXITED", "VOTE_CAST"}
  PROVE  \A k \in DOMAIN (h \o es) : (h \o es)[k].type \notin {"ACTOR_EXITED", "VOTE_CAST"}
<1> DEFINE g == h \o es
<1>1. IsJoined(g, h, es)
  <2>1. es \in Seq(Event)
    BY FieldJoined
  <2> QED
    BY <2>1, Joined
<1>2. \A e \in MatchEntry : e.type \notin {"ACTOR_EXITED", "VOTE_CAST"}
  BY DEF MatchEntry
<1>3. \A i \in 1..Len(es) : es[i] \in MatchEntry
  OBVIOUS
<1> HIDE DEF g
<1>4. ASSUME NEW k \in DOMAIN g PROVE g[k].type \notin {"ACTOR_EXITED", "VOTE_CAST"}
  <2>1. CASE k \in 1..Len(h)
    BY <1>1, <2>1 DEF IsJoined
  <2>2. CASE \E i \in 1..Len(es) : k = Len(h) + i
    BY <1>1, <1>2, <1>3, <2>2 DEF IsJoined
  <2> QED
    BY <1>1, <2>1, <2>2 DEF IsJoined
<1> QED
  BY <1>4 DEF g

LEMMA BracketPairs ==
  ASSUME NEW h \in Seq(Event), Sound(h), Bracket(h), openMatches(h) = {},
         NEW round \in Nat, NEW ps, Draws(ps, pool(h, "single-elim"), playedPairs(h)),
         NEW es, Entered(h, es, round, ps, Len(ps))
  PROVE  Bracket(h \o es)
<1> DEFINE g == h \o es
           P == undefeated(h)
           n == Len(ps)
           M(j) == MatchId(round, ps[j])
<1>1. /\ es \in Seq(MatchEntry) /\ Sound(g)
      /\ matches(es) = {M(j) : j \in 1..n}
      /\ \A id : isDecided(es, id) <=> \E j \in 1..n : ps[j].b = Bye /\ id = M(j)
      /\ \A x \in Actors :
           /\ Cardinality(lostBy(es, x)) = 0
           /\ Cardinality(wonBy(es, x))
                = IF \E j \in 1..n : ps[j].b = Bye /\ ps[j].a = x THEN 1 ELSE 0
  BY DEF Entered
<1>2. es \in Seq(Event) /\ contestants(g) = contestants(h)
  BY <1>1, FieldJoined
<1>3. /\ \A i \in 1..n : IsPairing(ps[i]) /\ ps[i].a \in P /\ ps[i].b \in P \cup {Bye}
      /\ \A i \in 1..n : ps[i].b # Bye => {ps[i].a, ps[i].b} \notin playedPairs(h)
      /\ \A i, j \in 1..n : i # j => {ps[i].a, ps[i].b} \cap {ps[j].a, ps[j].b} \subseteq {Bye}
      /\ \A x \in P : \E i \in 1..n : x \in {ps[i].a, ps[i].b}
  BY DEF Draws, pool
<1>4. \A j \in 1..n : M(j).a = ps[j].a /\ M(j).b = ps[j].b
  BY DEF MatchId
<1>5. contestants(h) \subseteq Actors /\ P \subseteq contestants(h) /\ Bye \notin P /\ Bye \notin contestants(h)
  BY PoolsAreFinite, TournamentAssumption
<1>6. /\ matches(g) = matches(h) \cup matches(es)
      /\ \A id : isDecided(g, id) <=> isDecided(h, id) \/ isDecided(es, id)
  BY <1>2, MatchesJoined
<1>7. \A x \in contestants(h) :
        /\ wins(h, x) \in Nat /\ losses(h, x) \in Nat
        /\ losses(g, x) = losses(h, x)
        /\ wins(g, x) = wins(h, x) + IF \E j \in 1..n : ps[j].b = Bye /\ ps[j].a = x THEN 1 ELSE 0
  <2> SUFFICES ASSUME NEW x \in contestants(h)
               PROVE  /\ wins(h, x) \in Nat /\ losses(h, x) \in Nat
                      /\ losses(g, x) = losses(h, x)
                      /\ wins(g, x) = wins(h, x)
                           + IF \E j \in 1..n : ps[j].b = Bye /\ ps[j].a = x THEN 1 ELSE 0
    OBVIOUS
  <2>1. /\ wins(g, x) = wins(h, x) + Cardinality(wonBy(es, x))
        /\ losses(g, x) = losses(h, x) + Cardinality(lostBy(es, x))
        /\ wins(h, x) \in Nat /\ losses(h, x) \in Nat
    BY <1>1, FiguresJoined
  <2>2. x \in Actors
    BY <1>5
  <2>3. losses(g, x) = losses(h, x) + 0
    BY <1>1, <2>1, <2>2
  <2>4. losses(g, x) = losses(h, x)
    BY <2>1, <2>3
  <2> QED
    BY <1>1, <2>1, <2>2, <2>4, Zenon
<1>8. undefeated(g) = P
  BY <1>2, <1>5, <1>7 DEF undefeated
<1> HIDE DEF g, P, n, M
<1>9. \A id : id \in openMatches(g) <=> \E j \in 1..n : ps[j].b # Bye /\ id = M(j)
  <2>1. ASSUME NEW id \in openMatches(g) PROVE \E j \in 1..n : ps[j].b # Bye /\ id = M(j)
    <3>1. id \in matches(g) /\ ~isDecided(g, id)
      BY DEF openMatches
    <3>2. id \notin matches(h)
      BY <1>6, <3>1 DEF openMatches
    <3> QED
      BY <1>1, <1>6, <3>1, <3>2
  <2>2. ASSUME NEW j \in 1..n, ps[j].b # Bye PROVE M(j) \in openMatches(g)
    <3>1. M(j) \in matches(g)
      BY <1>1, <1>6
    <3>2. ~isDecided(es, M(j))
      <4> SUFFICES ASSUME NEW i \in 1..n, ps[i].b = Bye, M(j) = M(i) PROVE FALSE
        BY <1>1
      <4> QED
        BY <1>4, <2>2
    <3>3. ~isDecided(h, M(j))
      <4> SUFFICES ASSUME isDecided(h, M(j)) PROVE FALSE
        OBVIOUS
      <4>1. M(j) \in matches(h)
        BY DecidedIsCreated
      <4>2. {ps[j].a, ps[j].b} \in playedPairs(h)
        BY <1>4, <2>2, <4>1 DEF playedPairs
      <4> QED
        BY <1>3, <2>2, <4>2
    <3> QED
      BY <1>6, <3>1, <3>2, <3>3 DEF openMatches
  <2> QED
    BY <2>1, <2>2
<1>10. \A k \in DOMAIN g : g[k].type \notin {"ACTOR_EXITED", "VOTE_CAST"}
  BY <1>1, NobodyLeaves DEF Bracket, g
<1>11. \A id \in matches(g) : {id.a, id.b} \subseteq contestants(g) \cup {Bye}
  <2>1. ASSUME NEW id \in matches(h) PROVE {id.a, id.b} \subseteq contestants(h) \cup {Bye}
    BY DEF Bracket
  <2>2. ASSUME NEW j \in 1..n PROVE {M(j).a, M(j).b} \subseteq contestants(h) \cup {Bye}
    <3>1. ps[j].a \in P /\ ps[j].b \in P \cup {Bye}
      BY <1>3
    <3> QED
      BY <1>4, <1>5, <3>1
  <2> QED
    BY <1>1, <1>2, <1>6, <2>1, <2>2
<1>12. \A id \in openMatches(g) : {id.a, id.b} \subseteq undefeated(g)
  <2> SUFFICES ASSUME NEW j \in 1..n, ps[j].b # Bye PROVE {M(j).a, M(j).b} \subseteq P
    BY <1>8, <1>9
  <2>1. ps[j].a \in P /\ ps[j].b \in P \cup {Bye}
    BY <1>3
  <2> QED
    BY <1>4, <2>1
<1>13. \A id, other \in openMatches(g) : {id.a, id.b} \cap {other.a, other.b} # {} => id = other
  <2> SUFFICES ASSUME NEW i \in 1..n, ps[i].b # Bye, NEW j \in 1..n, ps[j].b # Bye, i # j
               PROVE  {M(i).a, M(i).b} \cap {M(j).a, M(j).b} = {}
    BY <1>9
  <2>1. {ps[i].a, ps[i].b} \cap {ps[j].a, ps[j].b} \subseteq {Bye} /\ ps[i].a \in P
    BY <1>3
  <2> QED
    BY <1>4, <1>5, <2>1
<1>14. undefeated(g) # {}
  BY <1>8 DEF Bracket, P
<1>15. PICK m \in Nat : \A x \in contestants(h) : Level(h, x, m)
  BY DEF Bracket
<1>16. ASSUME NEW x \in contestants(h) PROVE Level(g, x, m + 1)
  <2>1. /\ wins(h, x) \in Nat /\ losses(h, x) \in Nat /\ losses(g, x) = losses(h, x)
        /\ wins(g, x) = wins(h, x) + IF \E j \in 1..n : ps[j].b = Bye /\ ps[j].a = x THEN 1 ELSE 0
    BY <1>7
  <2>2. ~Playing(h, x)
    BY DEF Playing
  <2>3. IF losses(h, x) > 0 THEN wins(h, x) < m ELSE wins(h, x) = m
    BY <1>15, <2>2 DEF Level
  <2>4. CASE losses(h, x) > 0
    <3>1. x \notin P
      <4>1. losses(h, x) # 0
        BY <2>1, <2>4
      <4> QED
        BY <4>1 DEF P, undefeated
    <3>2. ~ \E j \in 1..n : ps[j].b = Bye /\ ps[j].a = x
      BY <1>3, <3>1
    <3>3. wins(g, x) = wins(h, x) + 0
      BY <2>1, <3>2
    <3>4. wins(g, x) < m + 1
      BY <2>1, <2>3, <2>4, <3>3
    <3> QED
      BY <2>1, <2>4, <3>4 DEF Level
  <2>5. CASE ~ (losses(h, x) > 0)
    <3>1. x \in P /\ x # Bye
      <4>1. losses(h, x) = 0
        BY <2>1, <2>5
      <4> QED
        BY <1>5, <4>1 DEF P, undefeated
    <3>2. PICK i \in 1..n : x \in {ps[i].a, ps[i].b}
      BY <1>3, <3>1
    <3>3. ASSUME NEW j \in 1..n, x \in {ps[j].a, ps[j].b} PROVE j = i
      <4>1. i # j => {ps[i].a, ps[i].b} \cap {ps[j].a, ps[j].b} \subseteq {Bye}
        BY <1>3
      <4> QED
        BY <3>1, <3>2, <3>3, <4>1
    <3>4. Playing(g, x) <=> \E j \in 1..n : ps[j].b # Bye /\ x \in {ps[j].a, ps[j].b}
      BY <1>4, <1>9 DEF Playing
    <3>5. CASE ps[i].b = Bye
      <4>1. x = ps[i].a
        BY <3>1, <3>2, <3>5
      <4>2. ~Playing(g, x)
        BY <3>3, <3>4, <3>5
      <4>3. wins(g, x) = wins(h, x) + 1
        BY <2>1, <3>5, <4>1
      <4>4. wins(g, x) = m + 1
        BY <2>3, <2>5, <4>3
      <4> QED
        BY <2>1, <2>5, <4>2, <4>4 DEF Level
    <3>6. CASE ps[i].b # Bye
      <4>1. Playing(g, x)
        BY <3>2, <3>4, <3>6
      <4>2. ~ \E j \in 1..n : ps[j].b = Bye /\ ps[j].a = x
        BY <3>3, <3>6
      <4>3. wins(g, x) = wins(h, x) + 0
        BY <2>1, <4>2
      <4>4. wins(g, x) = (m + 1) - 1
        BY <2>1, <2>3, <2>5, <4>3
      <4> QED
        BY <2>1, <2>5, <4>1, <4>4 DEF Level
    <3> QED
      BY <3>5, <3>6
  <2> QED
    BY <2>4, <2>5
<1>17. m + 1 \in Nat
  OBVIOUS
<1>18. Bracket(g)
  BY <1>2, <1>10, <1>11, <1>12, <1>13, <1>14, <1>16, <1>17 DEF Bracket
<1> QED
  BY <1>18 DEF g

-----------------------------------------------------------------------------
LEMMA BracketReports ==
  ASSUME NEW h \in Seq(Event), Sound(h), Bracket(h),
         NEW id \in matches(h), ~isDecided(h, id), NEW w \in {id.a, id.b},
         NEW es, ReportForms(h, id, w, es)
  PROVE  Bracket(h \o es)
<1> DEFINE g == h \o es
           l == loserOf(id, w)
<1>1. id \in Ids /\ id.b # Bye
  BY MatchesAreTyped, ByesAreDecided DEF Sound
<1>2. es \in Seq(MatchEntry) /\ ReportSays(h, id, w, es)
  BY <1>1, ReportCounts DEF ReportForms
<1>3. es \in Seq(Event) /\ contestants(g) = contestants(h)
  BY <1>2, FieldJoined
<1>4. /\ matches(es) = {}
      /\ \A x : /\ wonBy(es, x) = {i \in decisions(es) : x = w}
                /\ lostBy(es, x) = {i \in decisions(es) : x = l}
      /\ Cardinality(decisions(es)) = IF isDecided(es, id) THEN 1 ELSE 0
      /\ \A other : isDecided(es, other) => other = id
  BY <1>2 DEF ReportSays
<1>5. /\ matches(g) = matches(h)
      /\ \A other : isDecided(g, other) <=> isDecided(h, other) \/ isDecided(es, other)
  <2>1. /\ matches(g) = matches(h) \cup matches(es)
        /\ \A other : isDecided(g, other) <=> isDecided(h, other) \/ isDecided(es, other)
    BY <1>3, MatchesJoined
  <2> HIDE DEF g
  <2> QED
    BY <1>4, <2>1
<1>6. openMatches(g) = IF isDecided(es, id) THEN openMatches(h) \ {id} ELSE openMatches(h)
  BY <1>4, <1>5 DEF openMatches
<1>7. id \in openMatches(h) /\ {id.a, id.b} \subseteq undefeated(h) /\ w # l /\ {id.a, id.b} = {w, l}
  <2>1. id \in openMatches(h)
    BY DEF openMatches
  <2>2. id.a # id.b
    BY <1>1 DEF Ids
  <2> QED
    BY <2>1, <2>2 DEF Bracket, loserOf
<1>8. \A x : /\ wins(g, x) = wins(h, x) + Cardinality(wonBy(es, x))
             /\ losses(g, x) = losses(h, x) + Cardinality(lostBy(es, x))
             /\ wins(h, x) \in Nat /\ losses(h, x) \in Nat
  BY <1>2, FiguresJoined
<1>9. ASSUME NEW x
      PROVE  /\ wins(g, x) = wins(h, x) + IF isDecided(es, id) /\ x = w THEN 1 ELSE 0
             /\ losses(g, x) = losses(h, x) + IF isDecided(es, id) /\ x = l THEN 1 ELSE 0
  <2>1. Cardinality({}) = 0
    BY FS_EmptySet
  <2>3. \A u : Cardinality({i \in decisions(es) : x = u}) = IF isDecided(es, id) /\ x = u THEN 1 ELSE 0
    <3> SUFFICES ASSUME NEW u
                 PROVE  Cardinality({i \in decisions(es) : x = u})
                          = IF isDecided(es, id) /\ x = u THEN 1 ELSE 0
      OBVIOUS
    <3>1. CASE x = u
      <4>1. {i \in decisions(es) : x = u} = decisions(es)
        BY <3>1
      <4> QED
        BY <1>4, <3>1, <4>1
    <3>2. CASE x # u
      <4>1. {i \in decisions(es) : x = u} = {}
        BY <3>2
      <4> QED
        BY <2>1, <3>2, <4>1
    <3> QED
      BY <3>1, <3>2
  <2> QED
    BY <1>4, <1>8, <2>3
<1> HIDE DEF g, l
<1>10. \A k \in DOMAIN g : g[k].type \notin {"ACTOR_EXITED", "VOTE_CAST"}
  BY <1>2, NobodyLeaves DEF Bracket, g
<1>11. \A other \in matches(g) : {other.a, other.b} \subseteq contestants(g) \cup {Bye}
  BY <1>3, <1>5 DEF Bracket
<1>12. openMatches(g) \subseteq openMatches(h)
  BY <1>6
<1>13. \A other, another \in openMatches(g) :
         {other.a, other.b} \cap {another.a, another.b} # {} => other = another
  BY <1>12 DEF Bracket
<1>14. undefeated(g) = IF isDecided(es, id) THEN undefeated(h) \ {l} ELSE undefeated(h)
  <2>1. ASSUME NEW x
        PROVE losses(g, x) = 0 <=> losses(h, x) = 0 /\ ~ (isDecided(es, id) /\ x = l)
    <3>1. losses(h, x) \in Nat
      BY <1>8
    <3>2. CASE isDecided(es, id) /\ x = l
      <4>1. losses(g, x) = losses(h, x) + 1
        BY <1>9, <3>2
      <4> QED
        BY <3>1, <3>2, <4>1
    <3>3. CASE ~ (isDecided(es, id) /\ x = l)
      <4>1. losses(g, x) = losses(h, x) + 0
        BY <1>9, <3>3
      <4> QED
        BY <3>1, <3>3, <4>1
    <3> QED
      BY <3>2, <3>3
  <2> QED
    BY <1>3, <2>1 DEF undefeated
<1>15. \A other \in openMatches(g) : {other.a, other.b} \subseteq undefeated(g)
  <2> SUFFICES ASSUME NEW other \in openMatches(g) PROVE {other.a, other.b} \subseteq undefeated(g)
    OBVIOUS
  <2>1. other \in openMatches(h) /\ {other.a, other.b} \subseteq undefeated(h)
    BY <1>12 DEF Bracket
  <2>2. isDecided(es, id) => {other.a, other.b} \cap {id.a, id.b} = {}
    BY <1>6, <1>7, <2>1 DEF Bracket
  <2> QED
    BY <1>7, <1>14, <2>1, <2>2
<1>16. undefeated(g) # {}
  <2>1. w \in undefeated(h) /\ w # l
    BY <1>7
  <2> QED
    BY <1>14, <2>1
<1>17. PICK m \in Nat : \A x \in contestants(h) : Level(h, x, m)
  BY DEF Bracket
<1>18. ASSUME NEW x \in contestants(h) PROVE Level(g, x, m)
  <2>1. wins(h, x) \in Nat /\ losses(h, x) \in Nat /\ Level(h, x, m)
    BY <1>8, <1>17
  <2>2. CASE ~ (isDecided(es, id) /\ x \in {w, l})
    <3>1. wins(g, x) = wins(h, x) + 0 /\ losses(g, x) = losses(h, x) + 0
      BY <1>9, <2>2
    <3>2. wins(g, x) = wins(h, x) /\ losses(g, x) = losses(h, x)
      BY <2>1, <3>1
    <3>3. Playing(g, x) <=> Playing(h, x)
      BY <1>6, <1>7, <2>2 DEF Playing
    <3> QED
      BY <2>1, <3>2, <3>3 DEF Level
  <2>3. CASE isDecided(es, id) /\ x \in {w, l}
    <3>1. losses(h, x) = 0 /\ Playing(h, x)
      BY <1>7, <2>3 DEF undefeated, Playing
    <3>2. wins(h, x) = m - 1
      BY <2>1, <3>1 DEF Level
    <3>3. CASE x = w
      <4>1. wins(g, x) = wins(h, x) + 1 /\ losses(g, x) = losses(h, x) + 0
        BY <1>7, <1>9, <2>3, <3>3
      <4>2. wins(g, x) = m /\ losses(g, x) = 0
        BY <2>1, <3>1, <3>2, <4>1
      <4>3. ~Playing(g, x)
        <5>1. \A other \in openMatches(g) : other # id /\ other \in openMatches(h)
          BY <1>6, <2>3
        <5>2. x \in {id.a, id.b}
          BY <1>7, <3>3
        <5> QED
          BY <1>7, <5>1, <5>2 DEF Playing, Bracket
      <4> QED
        BY <4>2, <4>3 DEF Level
    <3>4. CASE x = l
      <4>1. wins(g, x) = wins(h, x) + 0 /\ losses(g, x) = losses(h, x) + 1
        BY <1>7, <1>9, <2>3, <3>4
      <4>2. wins(g, x) < m /\ losses(g, x) > 0
        BY <2>1, <3>1, <3>2, <4>1
      <4> QED
        BY <4>2 DEF Level
    <3> QED
      BY <2>3, <3>3, <3>4
  <2> QED
    BY <2>2, <2>3
<1>19. Bracket(g)
  BY <1>3, <1>10, <1>11, <1>13, <1>15, <1>16, <1>17, <1>18 DEF Bracket
<1> QED
  BY <1>19 DEF g

LEMMA BracketOpens ==
  ASSUME TournamentInit, knockout
  PROVE  Bracket(hansard)
<1> DEFINE h == hansard
<1>1. /\ contestants(h) # {}
      /\ \A k \in DOMAIN h : h[k].type \notin {"ACTOR_EXITED", "VOTE_CAST"}
  BY DEF TournamentInit
<1>2. h \in Seq(Event) /\ \A k \in DOMAIN h : h[k].type \notin MatchTypes
  <2>1. h \in Seq(Entry)
    BY TournamentAssumption DEF TournamentInit
  <2>2. \A e \in Entry : e.type \notin MatchTypes /\ e \in Event
    BY DEF Entry, Event, MatchTypes, PlainTypes, MotionTypes, SeatTypes
  <2> HIDE DEF h
  <2> QED
    BY <2>1, <2>2
<1> HIDE DEF h
<1>3. matches(h) = {} /\ openMatches(h) = {} /\ decisions(h) = {}
  BY <1>2 DEF matches, openMatches, decisions, MatchTypes
<1>4. \A x, b : scoredVotes(h, x, b) = {}
  <2>1. \A m : votesFor(h, m) = {}
    BY <1>1 DEF votesFor
  <2> QED
    BY <2>1 DEF scoredVotes
<1>5. \A x : wins(h, x) = 0 /\ losses(h, x) = 0
  <2> SUFFICES ASSUME NEW x PROVE wins(h, x) = 0 /\ losses(h, x) = 0
    OBVIOUS
  <2>1. wonBy(h, x) = {} /\ lostBy(h, x) = {}
    BY <1>3 DEF wonBy, lostBy
  <2>2. /\ wins(h, x) = Cardinality(wonBy(h, x)) + Cardinality(scoredVotes(h, x, TRUE))
        /\ losses(h, x) = Cardinality(lostBy(h, x)) + Cardinality(scoredVotes(h, x, FALSE))
    BY <1>2, FiguresAreNumbers
  <2>3. Cardinality({}) = 0
    BY FS_EmptySet
  <2>4. wins(h, x) = 0 + 0 /\ losses(h, x) = 0 + 0
    BY <1>4, <2>1, <2>2, <2>3, Zenon
  <2> QED
    BY <2>4
<1>6. undefeated(h) = contestants(h)
  BY <1>5 DEF undefeated
<1>7. \A x : ~Playing(h, x)
  BY <1>3 DEF Playing
<1>8. \A x \in contestants(h) : Level(h, x, 0)
  BY <1>5, <1>7 DEF Level
<1>9. Bracket(h)
  BY <1>1, <1>3, <1>6, <1>8 DEF Bracket
<1> QED
  BY <1>9 DEF h

LEMMA BracketStep ==
  ASSUME SoundEvent, knockout => Bracket(hansard), [TournamentNext]_tournamentVars, knockout'
  PROVE  Bracket(hansard')
<1>0. hansard \in Seq(Event) /\ Sound(hansard)
  BY DEF SoundEvent, EventTypeOK
<1>1. ASSUME NEW format \in Formats, NEW bestOf \in BestOfs, NEW seed \in Seeds,
             NEW round, Pair(format, bestOf, seed, round)
      PROVE  Bracket(hansard')
  <2> DEFINE ps == pairRound(hansard, format, seed)
             es == RoundEntries(round, ps, bestOf)
  <2>1. format = "single-elim" /\ openMatches(hansard) = {} /\ knockout
    BY <1>1 DEF Pair
  <2>2. /\ hansard' = hansard \o es /\ IsRound(hansard, ps) /\ round \in Nat /\ bestOf \in Nat
        /\ Draws(ps, pool(hansard, format), playedPairs(hansard))
    BY <1>1, PairEnters DEF SoundEvent
  <2>3. Entered(hansard, es, round, ps, Len(ps))
    BY <1>0, <2>2, RoundIsEntered
  <2> HIDE DEF es, ps
  <2>4. Bracket(hansard \o es)
    BY <1>0, <2>1, <2>2, <2>3, BracketPairs
  <2> QED
    BY <2>2, <2>4
<1>2. ASSUME NEW id, NEW winner, Report(id, winner)
      PROVE  Bracket(hansard')
  <2> DEFINE es == Reported(hansard, id, winner)
  <2>1. /\ hansard' = hansard \o es /\ id \in matches(hansard) /\ ~isDecided(hansard, id)
        /\ winner \in {id.a, id.b} /\ knockout
    BY <1>2, ReportEnters
  <2>2. id \in Ids /\ id.b # Bye
    BY <1>0, <2>1, MatchesAreTyped, ByesAreDecided DEF Sound
  <2>3. ReportForms(hansard, id, winner, es)
    BY <2>1, <2>2, ReportIs
  <2> HIDE DEF es
  <2>4. Bracket(hansard \o es)
    BY <1>0, <2>1, <2>3, BracketReports
  <2> QED
    BY <2>1, <2>4
<1>3. ASSUME NEW a \in Actors, Withdraw(a)
      PROVE  Bracket(hansard')
  BY <1>3, WithdrawEnters DEF SoundEvent
<1>4. ASSUME UNCHANGED tournamentVars
      PROVE  Bracket(hansard')
  BY <1>4 DEF tournamentVars, vars
<1> QED
  BY <1>1, <1>2, <1>3, <1>4 DEF TournamentNext

\* The invariant holds of every event.
THEOREM EventIsInvariant == TournamentSpec => []EventInv
<1>1. TournamentInit => EventInv
  BY OpeningIsSound, BracketOpens DEF EventInv, SoundEvent
<1>2. EventInv /\ [TournamentNext]_tournamentVars => EventInv'
  <2>1. EventInv /\ [TournamentNext]_tournamentVars => SoundEvent'
    BY SoundStep DEF EventInv, SoundEvent
  <2>2. EventInv /\ [TournamentNext]_tournamentVars /\ knockout' => Bracket(hansard')
    BY BracketStep DEF EventInv, SoundEvent
  <2> QED
    BY <2>1, <2>2 DEF EventInv, SoundEvent
<1> QED
  BY <1>1, <1>2, PTL DEF TournamentSpec

-----------------------------------------------------------------------------
(***************************************************************************)
(* A bracket ends in a champion.                                           *)
(***************************************************************************)
TookPart(h, x) ==
  \/ About(h, x, {"ACTOR_HIRED"}) # {}
  \/ \E m \in Motions : HasVoted(h, x, m)
  \/ \E k \in decisions(h) : x \in {h[k].winner, h[k].loser}

tableRow(h) ==
  [x \in {y \in Actors : TookPart(h, y)} |-> <<-wins(h, x), losses(h, x), -buchholz(h, x), x>>]

LEMMA TableIsOrdered ==
  ASSUME NEW h \in Seq(Event)
  PROVE  IsOrder(standings(h), {y \in Actors : TookPart(h, y)}, tableRow(h))
<1> DEFINE P == {y \in Actors : TookPart(h, y)}
           row == tableRow(h)
<1>1. standings(h) = Ordered({row[x] : x \in P})
  BY DEF standings, tableRow, TookPart
<1>2. IsFiniteSet(P)
  <2>1. P \in SUBSET Actors
    OBVIOUS
  <2> HIDE DEF P
  <2> QED
    BY <2>1, FS_Subset, TournamentAssumption
<1>3. ASSUME NEW x \in P PROVE row[x] \in Rows(4) /\ row[x][4] = x
  <2>1. row[x] = <<-wins(h, x), losses(h, x), -buchholz(h, x), x>>
    BY DEF tableRow
  <2>2. wins(h, x) \in Nat /\ losses(h, x) \in Nat /\ buchholz(h, x) \in Int
    BY FiguresAreNumbers, BuchholzIsNumber
  <2>3. x \in Int
    BY TournamentAssumption
  <2>4. -wins(h, x) \in Int /\ losses(h, x) \in Int /\ -buchholz(h, x) \in Int
    BY <2>2
  <2>5. \A u, v, w, z \in Int : <<u, v, w, z>> \in [1..4 -> Int] /\ <<u, v, w, z>>[4] = z
    OBVIOUS
  <2> QED
    BY <2>1, <2>3, <2>4, <2>5 DEF Rows
<1>4. RowOf(row, P, 4)
  BY <1>3 DEF RowOf, tableRow
<1>5. 4 \in Nat \ {0}
  OBVIOUS
<1> HIDE DEF P, row
<1> QED
  BY <1>1, <1>2, <1>4, <1>5, OrderedIsOrder DEF P, row

\* In a bracket, who took part is in the field.
LEMMA FieldTookPart ==
  ASSUME NEW h \in Seq(Event), Sound(h), Bracket(h)
  PROVE  \A x \in Actors : TookPart(h, x) <=> x \in contestants(h)
<1>1. ASSUME NEW x \in Actors, TookPart(h, x) PROVE x \in contestants(h)
  <2>1. CASE About(h, x, {"ACTOR_HIRED"}) # {}
    <3>1. About(h, x, {"ACTOR_EXITED"}) = {}
      BY DEF About, Bracket
    <3>2. Seated(h, x)
      BY <2>1, <3>1 DEF Seated
    <3> QED
      BY <3>2 DEF contestants
  <2>2. CASE \E m \in Motions : HasVoted(h, x, m)
    BY <2>2 DEF HasVoted, votesFor, Bracket
  <2>3. CASE \E k \in decisions(h) : x \in {h[k].winner, h[k].loser}
    <3>1. PICK k \in decisions(h) : x \in {h[k].winner, h[k].loser}
      BY <2>3
    <3> DEFINE id == h[k].match
    <3>2. /\ id \in matches(h)
          /\ h[k].winner \in {id.a, id.b} \ {Bye}
          /\ id.b = Bye => h[k] = Decided(id, id.a, Bye)
          /\ id.b # Bye => h[k].loser = loserOf(id, h[k].winner)
      BY ResultsOfTwo
    <3> HIDE DEF id
    <3>3. x # Bye
      BY TournamentAssumption
    <3>4. x \in {id.a, id.b}
      BY <3>1, <3>2, <3>3 DEF Decided, loserOf
    <3>5. {id.a, id.b} \subseteq contestants(h) \cup {Bye}
      BY <3>2 DEF Bracket
    <3> QED
      BY <3>3, <3>4, <3>5
  <2> QED
    BY <1>1, <2>1, <2>2, <2>3 DEF TookPart
<1>2. ASSUME NEW x \in contestants(h) PROVE TookPart(h, x)
  BY DEF contestants, Seated, TookPart
<1> QED
  BY <1>1, <1>2

LEMMA LastOneLeads ==
  ASSUME NEW h \in Seq(Event), Sound(h), Bracket(h), openMatches(h) = {},
         Cardinality(undefeated(h)) = 1
  PROVE  standings(h)[1] \in undefeated(h)
<1> DEFINE P == {y \in Actors : TookPart(h, y)}
           o == standings(h)
           row == tableRow(h)
<1>1. P = contestants(h)
  <2>1. contestants(h) \subseteq Actors
    BY PoolsAreFinite
  <2> QED
    BY <2>1, FieldTookPart
<1>2. IsOrder(o, P, row)
  BY TableIsOrdered
<1>3. PICK c : undefeated(h) = {c}
  BY PoolsAreFinite, FS_Singleton
<1>4. c \in contestants(h) /\ losses(h, c) = 0
  BY <1>3 DEF undefeated
<1>5. PICK n \in Nat : \A x \in contestants(h) : Level(h, x, n)
  BY DEF Bracket
<1>6. \A x : ~Playing(h, x) /\ wins(h, x) \in Nat /\ losses(h, x) \in Nat
  BY FiguresAreNumbers DEF Playing
<1>7. wins(h, c) = n
  <2>1. Level(h, c, n) /\ ~ (losses(h, c) > 0)
    BY <1>4, <1>5
  <2> QED
    BY <1>6, <2>1 DEF Level
<1>8. ASSUME NEW x \in contestants(h), x # c PROVE wins(h, x) < n
  <2>1. losses(h, x) # 0 /\ losses(h, x) \in Nat
    BY <1>3, <1>6, <1>8 DEF undefeated
  <2>2. losses(h, x) > 0
    BY <2>1
  <2> QED
    BY <1>5, <2>2 DEF Level
<1>9. \A x \in P : row[x][1] = -wins(h, x) /\ DOMAIN row[x] = 1..4
  BY DEF tableRow
<1> HIDE DEF P, o, row
<1>10. /\ Len(o) \in Nat
       /\ \A i \in 1..Len(o) : o[i] \in P
       /\ \A x \in P : \E i \in 1..Len(o) : o[i] = x
       /\ \A i, j \in 1..Len(o) : i < j => Precedes(row[o[i]], row[o[j]])
  BY <1>2 DEF IsOrder
<1>11. PICK j \in 1..Len(o) : o[j] = c
  BY <1>1, <1>4, <1>10
<1>12. 1 \in 1..Len(o) /\ j \in Nat /\ (j = 1 \/ 1 < j)
  BY <1>10
<1>13. ASSUME o[1] # c PROVE FALSE
  <2>1. 1 < j
    BY <1>11, <1>12, <1>13
  <2>2. Precedes(row[o[1]], row[c])
    BY <1>10, <1>11, <1>12, <2>1
  <2>3. o[1] \in P /\ c \in P
    BY <1>1, <1>4, <1>10, <1>12
  <2>4. wins(h, o[1]) < n /\ wins(h, o[1]) \in Nat
    BY <1>1, <1>6, <1>8, <1>13, <2>3
  <2>5. row[o[1]][1] = -wins(h, o[1]) /\ row[c][1] = -n /\ DOMAIN row[o[1]] = 1..4
    BY <1>7, <1>9, <2>3
  <2>6. PICK i \in 1..4 : /\ row[o[1]][i] < row[c][i]
                          /\ \A k \in 1..(i - 1) : row[o[1]][k] = row[c][k]
    BY <2>2, <2>5 DEF Precedes
  <2>7. ~ (-wins(h, o[1]) < -n) /\ -wins(h, o[1]) # -n
    BY <2>4
  <2>8. CASE i = 1
    BY <2>5, <2>6, <2>7, <2>8
  <2>9. CASE i # 1
    <3>1. 1 \in 1..(i - 1)
      BY <2>9
    <3> QED
      BY <2>5, <2>6, <2>7, <3>1
  <2> QED
    BY <2>8, <2>9
<1> QED
  BY <1>3, <1>13 DEF o

\* Two who are undefeated have not met.
LEMMA UndefeatedHaveNotMet ==
  ASSUME NEW h \in Seq(Event), Sound(h), openMatches(h) = {},
         NEW x \in undefeated(h), NEW y \in undefeated(h)
  PROVE  {x, y} \notin playedPairs(h)
<1> SUFFICES ASSUME NEW id \in matches(h), id.b # Bye, {id.a, id.b} = {x, y} PROVE FALSE
  BY DEF playedPairs
<1>1. isDecided(h, id)
  BY DEF openMatches
<1>2. PICK k \in decisions(h) : h[k].match = id
  BY <1>1, DecidedIsRead
<1>3. h[k].loser = loserOf(id, h[k].winner)
  BY <1>2, ResultsOfTwo
<1>4. PICK z \in {x, y} : h[k].loser = z
  BY <1>3 DEF loserOf
<1>5. Cardinality(lostBy(h, z)) # 0
  <2>1. k \in lostBy(h, z)
    BY <1>4 DEF lostBy
  <2> QED
    BY <2>1, FiguresAreNumbers, FS_EmptySet
<1>6. losses(h, z) = 0
  BY DEF undefeated
<1>7. /\ losses(h, z) = Cardinality(lostBy(h, z)) + Cardinality(scoredVotes(h, z, FALSE))
      /\ Cardinality(lostBy(h, z)) \in Nat
      /\ \A b : Cardinality(scoredVotes(h, z, b)) \in Nat
  BY FiguresAreNumbers
<1> DEFINE u == Cardinality(lostBy(h, z))
           v == Cardinality(scoredVotes(h, z, FALSE))
<1>8. u \in Nat /\ v \in Nat /\ u # 0 /\ 0 = u + v
  BY <1>5, <1>6, <1>7
<1> HIDE DEF u, v
<1> QED
  BY <1>8

LEMMA UndefeatedArePaired ==
  ASSUME NEW h \in Seq(Event), Sound(h), openMatches(h) = {}, Cardinality(undefeated(h)) > 1
  PROVE  Len(pairRound(h, "single-elim", <<>>)) = (Cardinality(undefeated(h)) + 1) \div 2
<1> DEFINE P == undefeated(h)
           o == inOrder(h, "single-elim", <<>>)
           row == drawRow(h, "single-elim", <<>>)
           ps == pairRound(h, "single-elim", <<>>)
           n == Len(ps)
           resting == {ps[i].a : i \in {j \in 1..n : ps[j].b = Bye}}
           drawn == {MatchId(0, ps[i]) : i \in 1..n}
<1>1. P \in SUBSET Actors /\ IsFiniteSet(P) /\ pool(h, "single-elim") = P
  BY PoolsAreFinite DEF pool
<1>2. IsOrder(o, P, row)
  <2>1. <<>> \in Seq(Nat)
    OBVIOUS
  <2> QED
    BY <1>1, <2>1, DrawIsOrdered
<1>3. Len(o) = Cardinality(P) /\ Cardinality(P) \in Nat
  BY <1>1, <1>2, FS_CardinalityType DEF IsOrder
<1>4. ~folds(h, "single-elim", <<>>)
  BY DEF folds
<1>5. ps = greedy(o, playedPairs(h))
  <2>1. ~ (Len(o) < 2)
    BY <1>3
  <2> QED
    BY <1>4, <2>1 DEF pairRound
<1> HIDE DEF P, o, row, ps
<1>6. Draws(ps, P, playedPairs(h))
  <2>1. Len(o) >= 1
    BY <1>3 DEF P
  <2> QED
    BY <1>1, <1>2, <1>5, <2>1, GreedyDraws
<1>7. Cardinality(P) + Cardinality(resting) = 2 * Cardinality(drawn)
  BY <1>1, <1>6, DrawIsEven
<1>8. /\ n \in Nat /\ \A i \in 1..n : IsPairing(ps[i]) /\ ps[i].a \in P
      /\ \A i, j \in 1..n : i # j => {ps[i].a, ps[i].b} \cap {ps[j].a, ps[j].b} \subseteq {Bye}
      /\ \A i, j \in 1..n :
           (i # j /\ ps[i].b = Bye /\ ps[j].b = Bye) => {ps[i].a, ps[j].a} \in playedPairs(h)
  BY <1>6 DEF Draws
<1>9. Bye \notin P
  BY <1>1, TournamentAssumption
<1>10. \A i, j \in 1..n : i # j => ps[i].a # ps[j].a
  <2> SUFFICES ASSUME NEW i \in 1..n, NEW j \in 1..n, i # j PROVE ps[i].a # ps[j].a
    OBVIOUS
  <2>1. {ps[i].a, ps[i].b} \cap {ps[j].a, ps[j].b} \subseteq {Bye} /\ ps[i].a # Bye
    BY <1>8, <1>9
  <2> QED
    BY <2>1
<1>11. Cardinality(drawn) = n
  <2>1. [i \in 1..n |-> MatchId(0, ps[i])] \in Bijection(1..n, drawn)
    <3>1. \A i, j \in 1..n : MatchId(0, ps[i]) = MatchId(0, ps[j]) => i = j
      BY <1>8, <1>10, IdsOfPairings
    <3> QED
      BY <3>1 DEF Bijection, Injection, Surjection, IsInjective
  <2>2. n \in Int /\ 1 \in Int /\ (1 > n => n = 0) /\ n - 1 + 1 = n
    BY <1>8
  <2> HIDE DEF n, drawn
  <2>3. IsFiniteSet(1..n) /\ Cardinality(1..n) = n
    BY <2>2, FS_Interval
  <2> QED
    BY <2>1, <2>3, FS_Bijection DEF ExistsBijection
<1>12. ASSUME NEW x \in resting, NEW y \in resting PROVE x = y
  <2>1. PICK i \in 1..n : ps[i].b = Bye /\ x = ps[i].a
    OBVIOUS
  <2>2. PICK j \in 1..n : ps[j].b = Bye /\ y = ps[j].a
    OBVIOUS
  <2>3. {x, y} \notin playedPairs(h)
    BY <1>8, <2>1, <2>2, UndefeatedHaveNotMet DEF P
  <2> QED
    BY <1>8, <2>1, <2>2, <2>3
<1>13. Cardinality(resting) = 0 \/ Cardinality(resting) = 1
  <2> HIDE DEF resting
  <2>1. resting # {} => \E x : resting = {x}
    <3> SUFFICES ASSUME NEW x \in resting PROVE resting = {x}
      OBVIOUS
    <3> QED
      BY <1>12
  <2> QED
    BY <2>1, FS_EmptySet, FS_Singleton
<1> DEFINE p == Cardinality(P)
           r == Cardinality(resting)
<1>14. p \in Nat /\ n \in Nat /\ p + r = 2 * n /\ (r = 0 \/ r = 1)
  BY <1>3, <1>7, <1>8, <1>11, <1>13
<1> HIDE DEF p, r, n
<1>15. n = (p + 1) \div 2
  BY <1>14
<1> QED
  BY <1>15 DEF n, p, P, ps

LEMMA BracketHasChampion == EventInv => KnockoutHasChampion
<1> SUFFICES ASSUME EventInv, knockout, openMatches(hansard) = {}
             PROVE  /\ undefeated(hansard) # {}
                    /\ Cardinality(undefeated(hansard)) = 1 => standings(hansard)[1] \in undefeated(hansard)
                    /\ Cardinality(undefeated(hansard)) > 1 =>
                         Len(pairRound(hansard, "single-elim", <<>>))
                           = (Cardinality(undefeated(hansard)) + 1) \div 2
  BY DEF KnockoutHasChampion
<1>1. hansard \in Seq(Event) /\ Sound(hansard) /\ Bracket(hansard)
  BY DEF EventInv, EventTypeOK
<1>2. undefeated(hansard) # {}
  BY <1>1 DEF Bracket
<1> QED
  BY <1>1, <1>2, LastOneLeads, UndefeatedArePaired

\* However large the field, a bracket whose rounds are decided one by one pairs all of
\* the undefeated but one at most, and the last of them heads the table.
THEOREM ChampionIsFound == TournamentSpec => []KnockoutHasChampion
BY EventIsInvariant, BracketHasChampion, PTL

=============================================================================

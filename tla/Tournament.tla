----------------------------- MODULE Tournament ----------------------------
(***************************************************************************)
(* Contests of two named parties: politik pair, politik match report and   *)
(* the table of politik standings (ADR-0009).  Nothing is kept but the     *)
(* record: the matches, their results and the table are read back from it, *)
(* by two readers (matches and standings) that do not share any code.      *)
(*                                                                         *)
(* The field is whoever is seated, so contestants come and go by the       *)
(* commands of Bench, and the table counts Divisions as well as matches.   *)
(* Actors are numbers here: the order of their names breaks ties.          *)
(***************************************************************************)
EXTENDS Bench, FiniteSetsExt, SequencesExt

CONSTANTS Openings,  \* the records an event may begin on
          Formats,   \* the formats the commands of a run name
          BestOfs,   \* the lengths of a series they name, all odd
          Seeds,     \* the seed orders they give, sequences of actors
          MaxRound,  \* bound on the rounds that are paired
          MaxEvents, \* bound on the entries of matches and leavers
          MaxLeavers \* bound on the contestants who leave

Bye == 0           \* the opponent of whoever advances unopposed

ASSUME TournamentAssumption ==
  /\ Actors \subseteq Nat \ {Bye} /\ IsFiniteSet(Actors)
  /\ Openings \subseteq Seq(Entry) /\ Seeds \subseteq Seq(Nat)
  /\ Formats \subseteq {"swiss", "round-robin", "single-elim"}
  /\ \A n \in BestOfs : n \in Nat /\ n % 2 = 1
  /\ MaxRound \in Nat /\ MaxEvents \in Nat /\ MaxLeavers \in Nat

(***************************************************************************)
(* Of no use to the program: whether every pairing so far was of a         *)
(* single-elimination round whose predecessors had been decided, in a      *)
(* field nobody left and a session that decided no Division.               *)
(***************************************************************************)
VARIABLE knockout
tournamentVars == <<vars, knockout>>

MatchTypes == {"MATCH_CREATED", "MATCH_GAME", "MATCH_DECIDED"}
MatchId(round, p) == [round |-> round, a |-> p.a, b |-> p.b]
Created(round, p, bestOf) ==
  [type |-> "MATCH_CREATED", match |-> MatchId(round, p), bestOf |-> bestOf]
Game(id, winner) == [type |-> "MATCH_GAME", match |-> id, winner |-> winner]
Decided(id, winner, loser) ==
  [type |-> "MATCH_DECIDED", match |-> id, winner |-> winner, loser |-> loser]

-----------------------------------------------------------------------------
(***************************************************************************)
(* matches(): what the record says of each match, under its identifier.    *)
(***************************************************************************)
Of(h, type, id) == {k \in DOMAIN h : h[k].type = type /\ h[k].match = id}
matches(h) == {h[k].match : k \in {j \in DOMAIN h : h[j].type = "MATCH_CREATED"}}
bestOfIn(h, id) == h[Latest(Of(h, "MATCH_CREATED", id))].bestOf
isDecided(h, id) == Of(h, "MATCH_DECIDED", id) # {}
winnerOf(h, id) == h[Latest(Of(h, "MATCH_DECIDED", id))].winner
gamesWon(h, id, x) == Cardinality({k \in Of(h, "MATCH_GAME", id) : h[k].winner = x})
playedPairs(h) == {{id.a, id.b} : id \in {i \in matches(h) : i.b # Bye}}
openMatches(h) == {id \in matches(h) : ~isDecided(h, id)}

gamesToWin(bestOf) == (bestOf \div 2) + 1

-----------------------------------------------------------------------------
(***************************************************************************)
(* standings(): the table, scored from matches and Divisions alike.  A     *)
(* later vote or outcome of a Division replaces the earlier one.           *)
(***************************************************************************)
scoredVotes(h, x, won) ==
  {m \in Motions :
     LET cast == {k \in votesFor(h, m) : h[k].actor = x}
         outcomes == {k \in DOMAIN h : h[k].type \in Outcomes /\ h[k].motion = m}
     IN /\ cast # {} /\ outcomes # {}
        /\ h[Latest(cast)].vote # "ABSTAIN"
        /\ won = ((h[Latest(cast)].vote = "AYE")
                    = (h[Latest(outcomes)].type = "MOTION_CARRIED"))}

decisions(h) == {k \in DOMAIN h : h[k].type = "MATCH_DECIDED"}

wins(h, x) ==
  Cardinality({k \in decisions(h) : h[k].winner = x})
    + Cardinality(scoredVotes(h, x, TRUE))

losses(h, x) ==
  Cardinality({k \in decisions(h) : h[k].loser = x})
    + Cardinality(scoredVotes(h, x, FALSE))

\* The wins of everyone x faced, once for each time.
buchholz(h, x) ==
  LET met(y) == Cardinality({k \in decisions(h) : {h[k].winner, h[k].loser} = {x, y}})
  IN MapThenSumSet(LAMBDA y : met(y) * wins(h, y), Actors \ {x})

(***************************************************************************)
(* Actors are ordered by rows of figures that end in their name, compared  *)
(* from the first figure on: the least comes first.                        *)
(***************************************************************************)
Precedes(row, other) ==
  \E i \in DOMAIN row : row[i] < other[i] /\ \A j \in 1..(i - 1) : row[j] = other[j]
Ordered(rows) ==
  LET place == [row \in rows |-> Cardinality({r \in rows : Precedes(r, row)}) + 1]
  IN [i \in 1..Cardinality(rows) |-> Last(CHOOSE row \in rows : place[row] = i)]

\* rank(), by win-loss: among those who took part in anything.
standings(h) ==
  LET tookPart(x) ==
        \/ About(h, x, {"ACTOR_HIRED"}) # {}
        \/ \E m \in Motions : HasVoted(h, x, m)
        \/ \E k \in decisions(h) : x \in {h[k].winner, h[k].loser}
  IN Ordered({<<-wins(h, x), losses(h, x), -buchholz(h, x), x>> :
                x \in {y \in Actors : tookPart(y)}})

-----------------------------------------------------------------------------
(***************************************************************************)
(* pairRound().                                                            *)
(***************************************************************************)
contestants(h) == {x \in Actors : Seated(h, x)}
undefeated(h) == {x \in contestants(h) : losses(h, x) = 0}

\* Faulty: who lost goes on playing.
everybody(h, format) == contestants(h)

pool(h, format) ==
  IF format = "single-elim" THEN undefeated(h) ELSE contestants(h)

\* Whoever the seed order leaves out comes after all it names.
bySeed(seed, x) ==
  IF \E i \in DOMAIN seed : seed[i] = x
  THEN CHOOSE i \in DOMAIN seed : seed[i] = x ELSE Len(seed) + 1

inOrder(h, format, seed) ==
  Ordered({IF format = "round-robin" THEN <<bySeed(seed, x), x>>
           ELSE <<-wins(h, x), losses(h, x), bySeed(seed, x), x>> : x \in pool(h, format)})

\* Faulty: a seeded round is folded whenever it is played.
seededFold(h, format, seed) == seed # <<>> /\ format # "round-robin"

\* Only the first seeded round is folded.
folds(h, format, seed) ==
  /\ seed # <<>>
  /\ format # "round-robin"
  /\ matches(h) = {}

\* The top half against the bottom half, in order.
folded(order) ==
  LET top == (Len(order) + 1) \div 2
  IN [i \in 1..top |->
        [a |-> order[i], b |-> IF top + i <= Len(order) THEN order[top + i] ELSE Bye]]

\* Each in order against the next it has not met, unless already paired.
greedy(order, played) ==
  LET pairings[i \in 0..Len(order)] ==
        IF i = 0 THEN <<>>
        ELSE LET ps == pairings[i - 1]
                 used == UNION {{ps[k].a, ps[k].b} : k \in DOMAIN ps}
                 free == {j \in (i + 1)..Len(order) :
                            order[j] \notin used /\ {order[i], order[j]} \notin played}
             IN IF order[i] \in used THEN ps
                ELSE Append(ps, [a |-> order[i],
                                 b |-> IF free = {} THEN Bye ELSE order[Min(free)]])
  IN pairings[Len(order)]

pairRound(h, format, seed) ==
  LET order == inOrder(h, format, seed)
  IN IF Len(order) < 2 THEN <<>>
     ELSE IF folds(h, format, seed) THEN folded(order) ELSE greedy(order, playedPairs(h))

-----------------------------------------------------------------------------
(***************************************************************************)
(* The commands.                                                           *)
(***************************************************************************)
leavers(h) == Cardinality({k \in DOMAIN h : h[k].type = "ACTOR_EXITED"})
events(h) ==
  leavers(h) + Cardinality({k \in DOMAIN h : h[k].type \in MatchTypes})
WithinBound(h) == events(h) <= MaxEvents /\ leavers(h) <= MaxLeavers

\* A bye is decided as it is created.
Creation(round, p, bestOf) ==
  <<Created(round, p, bestOf)>>
    \o (IF p.b = Bye THEN <<Decided(MatchId(round, p), p.a, Bye)>> ELSE <<>>)

nextRound(h) == Max({0} \cup {id.round : id \in matches(h)}) + 1

\* The round is the next one, unless the command numbers it otherwise.
Pair(format, bestOf, seed, round) ==
  /\ events(hansard) < MaxEvents
  /\ Cardinality(contestants(hansard)) >= 2
  /\ round \in 1..MaxRound
  /\ \E pairings \in {pairRound(hansard, format, seed)} :
       /\ pairings # <<>>
       /\ Enters(FlattenSeq([i \in DOMAIN pairings |-> Creation(round, pairings[i], bestOf)]))
  /\ WithinBound(hansard')
  /\ Stays
  /\ knockout' = (knockout /\ format = "single-elim" /\ openMatches(hansard) = {})

\* Faulty: whoever is named second is put down as the loser.
secondNamed(id, winner) == id.b

loserOf(id, winner) == IF winner = id.a THEN id.b ELSE id.a

\* Faulty: half the games are enough.
halfTheGames(h, id, winner) == gamesWon(h, id, winner) + 1 >= bestOfIn(h, id) \div 2

\* Does one more game to winner settle the series?
wonEnough(h, id, winner) == gamesWon(h, id, winner) + 1 >= gamesToWin(bestOfIn(h, id))

Report(id, winner) ==
  LET decision == Decided(id, winner, loserOf(id, winner))
  IN /\ id \in matches(hansard)
     /\ ~isDecided(hansard, id)
     /\ winner \in {id.a, id.b} \ {Bye}
     /\ Enters(IF bestOfIn(hansard, id) <= 1 THEN <<decision>>
               ELSE IF wonEnough(hansard, id, winner) THEN <<Game(id, winner), decision>>
               ELSE <<Game(id, winner)>>)
     /\ WithinBound(hansard')
     /\ Stays
     /\ UNCHANGED knockout

\* A contestant leaves the field, whatever matches they still have to play.
Withdraw(a) ==
  /\ Exit(a, "MEMBER", a, TRUE)
  /\ WithinBound(hansard')
  /\ knockout' = FALSE

\* An event begins in a session that sits, whatever it did before but matches.
TournamentInit ==
  /\ charter \in Charters
  /\ state = "CONVENED" /\ suspension = NoCause
  /\ hansard \in Openings
  /\ knockout = /\ contestants(hansard) # {}
                /\ \A k \in DOMAIN hansard : hansard[k].type \notin {"ACTOR_EXITED", "VOTE_CAST"}

TournamentNext ==
  \/ \E format \in Formats, bestOf \in BestOfs, seed \in Seeds,
        round \in {1, nextRound(hansard)} : Pair(format, bestOf, seed, round)
  \/ \E id \in matches(hansard) : \E winner \in {id.a, id.b} : Report(id, winner)
  \/ \E a \in Actors : Withdraw(a)

TournamentSpec == TournamentInit /\ [][TournamentNext]_tournamentVars

-----------------------------------------------------------------------------
(***************************************************************************)
(* Properties.                                                             *)
(***************************************************************************)
\* A series ends with the game that gives one side most of its games, and no
\* game or result is recorded after it: whoever is named the winner won more than
\* half, nobody had before, and each match has one result for each time it was
\* created, by whichever round or command (reportMatch, cmdPair).
SeriesIsWon ==
  \A id \in matches(hansard) :
    LET results == Of(hansard, "MATCH_DECIDED", id)
        games == Of(hansard, "MATCH_GAME", id)
        won(x) == 2 * gamesWon(hansard, id, x) > bestOfIn(hansard, id)
    IN /\ Cardinality(results) <= Cardinality(Of(hansard, "MATCH_CREATED", id))
       /\ \A g \in games, r \in results : g < r
       /\ (id.b # Bye /\ bestOfIn(hansard, id) > 1) =>
            \A x \in {id.a, id.b} : won(x) <=> (results # {} /\ winnerOf(hansard, id) = x)

\* The two readers of the record agree: the table gives each actor the wins and
\* losses of the matches that matches() lists, and those of their votes.  Only a bye
\* counts more than once, when two rounds were given one number (matches, standings).
TableAgreesWithMatches ==
  \A x \in Actors :
    LET over == {id \in matches(hansard) : x \in {id.a, id.b} /\ isDecided(hansard, id)}
        won == {id \in over : winnerOf(hansard, id) = x}
        byes == {k \in DOMAIN hansard : /\ hansard[k].type = "MATCH_CREATED"
                                        /\ hansard[k].match.a = x
                                        /\ hansard[k].match.b = Bye}
    IN /\ wins(hansard, x) = Cardinality({id \in won : id.b # Bye}) + Cardinality(byes)
                               + Cardinality(scoredVotes(hansard, x, TRUE))
       /\ losses(hansard, x) = Cardinality(over \ won) + Cardinality(scoredVotes(hansard, x, FALSE))

\* A round is drawn fairly, whatever was played, reported, voted or left before it:
\* nobody appears twice, nobody meets an old opponent, two who both get a bye have
\* met before, and who is left out of a round was beaten and plays no more with the
\* undefeated (pairRound, cmdPair).
PairStep ==
  LET drawn == {hansard'[k].match :
                  k \in {j \in DOMAIN hansard' \ DOMAIN hansard :
                           hansard'[j].type = "MATCH_CREATED"}}
      paired == UNION {{id.a, id.b} \ {Bye} : id \in drawn}
      resting == {id.a : id \in {i \in drawn : i.b = Bye}}
  IN drawn # {} =>
       /\ paired \subseteq contestants(hansard)
       /\ Cardinality(paired) + Cardinality(resting) = 2 * Cardinality(drawn)
       /\ \A id \in drawn : id.b # Bye => {id.a, id.b} \notin playedPairs(hansard)
       /\ \A x, y \in resting : x # y => {x, y} \in playedPairs(hansard)
       /\ paired # contestants(hansard) => paired = undefeated(hansard)
RoundIsFair == [][PairStep]_tournamentVars

\* "One-undefeated is the champion" (ADR-0009): in a bracket whose rounds were each
\* decided before the next, somebody is always left undefeated, the next round pairs
\* all of them but one at most, and the last of them heads the table, byes or not.
KnockoutHasChampion ==
  (knockout /\ openMatches(hansard) = {}) =>
    LET left == undefeated(hansard)
        draw == pairRound(hansard, "single-elim", <<>>)
    IN /\ left # {}
       /\ Cardinality(left) = 1 => standings(hansard)[1] \in left
       /\ Cardinality(left) > 1 => Len(draw) = (Cardinality(left) + 1) \div 2

=============================================================================

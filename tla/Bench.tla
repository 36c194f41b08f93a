------------------------------- MODULE Bench -------------------------------
(***************************************************************************)
(* Who sits: politik actor hire | promote | demote | exit | spawn, and the *)
(* dispute of a removal with the ruling that ends it.                      *)
(***************************************************************************)
EXTENDS House

CONSTANT SeatRoles   \* the roles the runs name as a seat, AUTHORITY among them
ASSUME SeatRolesAssumption == SeatRoles \subseteq Roles

\* Faulty: a seated actor is hired again.
HireAgain(role, a, seat) ==
  /\ requireConvened
  /\ requireAuthority(role)
  /\ seat # "AUTHORITY"
  /\ Enters(<<Seating("ACTOR_HIRED", a, seat)>>)
  /\ Stays

\* Faulty: AUTHORITY is a seat like any other.
HireAuthority(role, a, seat) ==
  /\ requireConvened
  /\ requireAuthority(role)
  /\ seatOf(hansard, a) = NoSeat
  /\ Enters(<<Seating("ACTOR_HIRED", a, seat)>>)
  /\ Stays

Hire(role, a, seat) ==
  /\ requireConvened
  /\ requireAuthority(role)
  /\ seat # "AUTHORITY"
  /\ seatOf(hansard, a) = NoSeat
  /\ Enters(<<Seating("ACTOR_HIRED", a, seat)>>)
  /\ Stays

MayMove(role, a, to) ==
  /\ requireConvened
  /\ requireAuthority(role)
  /\ seatOf(hansard, a) # NoSeat
  /\ to # "AUTHORITY"
  /\ to # seatOf(hansard, a)

Promote(role, a, to) ==
  /\ MayMove(role, a, to)
  /\ Rank(to) < Rank(seatOf(hansard, a))
  /\ Enters(<<Seating("ACTOR_PROMOTED", a, to)>>)
  /\ Stays

Demote(role, a, to) ==
  /\ MayMove(role, a, to)
  /\ Rank(to) > Rank(seatOf(hansard, a))
  /\ Enters(<<Seating("ACTOR_DEMOTED", a, to)>>)
  /\ Stays

(***************************************************************************)
(* exitActor.  A voluntary exit is declared by the leaver; any other exit  *)
(* by the leaver or by AUTHORITY or a DELEGATE.                            *)
(***************************************************************************)
Exit(by, role, a, voluntary) ==
  /\ requireConvened
  /\ seatOf(hansard, a) \notin {NoSeat, "AUTHORITY"}
  /\ by = a \/ (~voluntary /\ requireAuthority(role))
  /\ Enters(<<Exited(a, seatOf(hansard, a), by = a)>>)
  /\ Stays

Spawn(role) ==
  /\ requireConvened
  /\ role \notin {"MEMBER", "OBSERVER"}
  /\ Seldom
  /\ Enters(<<Plain("COMMITTEE_SPAWNED")>>)
  /\ Stays

-----------------------------------------------------------------------------
\* disputeExit: in any state of the session; it replaces whatever stood there.
DisputeExit(a) ==
  /\ HasExited(hansard, a)
  /\ ~LastExit(hansard, a).self
  /\ Enters(<<Disputed(a)>>)
  /\ Becomes("SUSPENDED", "DISPUTED_EXIT")

\* resolveDispute: the subject is the one the command names, if they ever
\* disputed; UPHELD seats them again in the seat of their last exit.
Reinstatement(a, ruling) ==
  IF ruling = "UPHELD"
  THEN <<Seating("ACTOR_HIRED", a, LastExit(hansard, a).role)>> ELSE <<>>

\* Faulty: only a ruling that reinstates lifts the suspension.
ReinstateOrStay(a, ruling) ==
  /\ IsSuspendedFor("DISPUTED_EXIT")
  /\ About(hansard, a, {"EXIT_DISPUTED"}) # {}
  /\ Enters(<<ExitRuling(a, ruling)>> \o Reinstatement(a, ruling))
  /\ IF ruling = "UPHELD" THEN Becomes("CONVENED", NoCause) ELSE Stays

\* Faulty: nothing is ruled for whoever was hired again.
ReinstateAbsent(a, ruling) ==
  /\ IsSuspendedFor("DISPUTED_EXIT")
  /\ About(hansard, a, {"EXIT_DISPUTED"}) # {}
  /\ ~Seated(hansard, a)
  /\ Enters(<<ExitRuling(a, ruling)>> \o Reinstatement(a, ruling))
  /\ Becomes("CONVENED", NoCause)

Reinstate(a, ruling) ==
  /\ IsSuspendedFor("DISPUTED_EXIT")
  /\ About(hansard, a, {"EXIT_DISPUTED"}) # {}
  /\ Enters(<<ExitRuling(a, ruling)>> \o Reinstatement(a, ruling))
  /\ Becomes("CONVENED", NoCause)

BenchNext ==
  \/ \E role \in Roles, a \in Actors, seat \in SeatRoles : Hire(role, a, seat)
  \/ \E role \in Roles, a \in Actors, to \in SeatRoles : Promote(role, a, to)
  \/ \E role \in Roles, a \in Actors, to \in SeatRoles : Demote(role, a, to)
  \/ \E by, a \in Actors, role \in Roles, v \in BOOLEAN : Exit(by, role, a, v)
  \/ \E role \in Roles : Spawn(role)
  \/ \E a \in Actors : DisputeExit(a)
  \/ \E a \in Actors, ruling \in DisputeRulings : Reinstate(a, ruling)

BenchSpec == Init /\ [][BenchNext]_vars

-----------------------------------------------------------------------------
(***************************************************************************)
(* Properties.  seats() as the code computes it, one entry after another,  *)
(* says which seat was held when an entry was made.                        *)
(***************************************************************************)
Replayed(seat, e, a) ==
  CASE e.type = "ACTOR_HIRED" /\ e.subject = a -> e.role
    [] e.type \in {"ACTOR_PROMOTED", "ACTOR_DEMOTED"} /\ e.subject = a /\ seat # NoSeat -> e.role
    [] e.type = "ACTOR_EXITED" /\ e.subject = a -> NoSeat
    [] OTHER -> seat

\* The seat of a after each prefix of the record, by the replay of seats().
Replay(a) ==
  LET seat[k \in 0..Len(hansard)] ==
        IF k = 0 THEN NoSeat ELSE Replayed(seat[k - 1], hansard[k], a)
  IN seat

\* What the record says of a seat was true when it was said: an exit names the
\* seat then held, a hiring finds the actor unseated unless a ruling on their own
\* exit reinstates them, a move goes the way its name says from a seat then held (hire, move,
\* exitActor, cull).
SeatEntriesAreTrue ==
  \A k \in DOMAIN hansard : hansard[k].type \in SeatTypes \cup {"ACTOR_EXITED"} =>
    LET e == hansard[k]
        held == Replay(e.subject)[k - 1]
    IN CASE e.type = "ACTOR_EXITED" -> held = e.role
         [] e.type = "ACTOR_HIRED" -> held = NoSeat \/ hansard[k - 1] = ExitRuling(e.subject, "UPHELD")
         [] e.type = "ACTOR_PROMOTED" -> held # NoSeat /\ Rank(e.role) < Rank(held)
         [] e.type = "ACTOR_DEMOTED" -> held # NoSeat /\ Rank(e.role) > Rank(held)

\* The Speaker holds no seat: AUTHORITY is neither hired, promoted into nor won
\* back by a ruling on an exit (hire, move, exitActor, resolveDispute).
NoAuthoritySeat == \A a \in Actors : seatOf(hansard, a) # "AUTHORITY"

=============================================================================

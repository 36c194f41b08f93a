---------------------------- MODULE SharedRecord ---------------------------
(***************************************************************************)
(* What a shared session promises the people seated in it (ADR-0011): one  *)
(* record, to which acts are added, one or a few at a time.  Each was      *)
(* lawful on exactly the record it stands on, nobody's act is added twice, *)
(* and nothing on the record is taken back.                                *)
(*                                                                         *)
(* The acts are an agent's turn, one that failed, a Point of Order, which  *)
(* suspends the sitting, and the ruling that resumes it: the last needs a  *)
(* suspension, the others the floor, so none of them is lawful everywhere. *)
(* An alert of a cascade is lawful on a record that has none of its kind.  *)
(***************************************************************************)
EXTENDS Naturals, Sequences

CONSTANTS Clones,     \* the clones of the session, one on each machine
          Alerts,     \* what cascade may find, each known by its signature
          MaxCalls,   \* bound on the commands given on them all
          NotStaged   \* what a ruling names that nobody staged

VARIABLE record   \* the record as the remote has it

Types == {"MOTION_TABLED", "SESSION_FAULT", "POINT_OF_ORDER", "RULING"} \cup Alerts

\* The n-th command given on a clone is told from every other one.
Command == [by : Clones, n : 1..MaxCalls]

\* A ruling that was staged names the command that staged it.
Act == [type : Types, call : Command, staged : Command \cup {NotStaged}]

\* The sitting is suspended while a Point of Order has no ruling.
Suspended(r) ==
  \E k \in DOMAIN r : /\ r[k].type = "POINT_OF_ORDER"
                      /\ \A j \in (k + 1)..Len(r) : r[j].type # "RULING"
Lawful(r, a) ==
  IF a.type \in Alerts THEN \A k \in DOMAIN r : r[k].type # a.type
  ELSE Suspended(r) <=> a.type = "RULING"
Stands(r, call) == \E k \in DOMAIN r : r[k].call = call

Init == record = <<>>

\* What comes before the k-th act.
UpTo(r, k) == SubSeq(r, 1, k - 1)

\* Acts follow on a record, each lawful after those before it and new.
Follow(r, s) ==
  /\ Len(r) <= Len(s) /\ SubSeq(s, 1, Len(r)) = r
  /\ \A k \in (Len(r) + 1)..Len(s) :
       /\ s[k] \in Act
       /\ Lawful(UpTo(s, k), s[k])
       /\ ~Stands(UpTo(s, k), s[k].call)

Next == Follow(record, record')

Spec == Init /\ [][Next]_record

=============================================================================

------------------------------- MODULE House -------------------------------
(***************************************************************************)
(* A proceeding as its commands see it: the Charter it was opened under,   *)
(* STATE.json (its state and, when SUSPENDED, the cause) and HANSARD.md.   *)
(*                                                                         *)
(* Every command of the CLI is one process: it loads the session, refuses  *)
(* or acts, writes the record and the state, and commits.  Here a command  *)
(* is one step; the modules that EXTEND this one hold the commands.        *)
(***************************************************************************)
EXTENDS Hansard

CONSTANTS Charters,    \* the Charters a sitting may be opened under
          MaxEntries,  \* bound on the length of the record
          MaxRepeats   \* bound on the entries of acts that no guard limits

\* The mechanics a Charter may override (ADR-0007).
ExitPolicies == {"division", "elimination", "none"}
TerminationPolicies == {"objective", "last-standing", "verdict"}

Charter ==
  [quorum : Nat, resolution : Resolutions, exit : ExitPolicies,
   termination : TerminationPolicies, assent : Roles, domainVeto : SUBSET Roles,
   escalation : BOOLEAN,
   witnesses : SUBSET Roles,   \* {} when no Witness Council is enabled
   consensus : BOOLEAN, operators : Nat, threshold : 1..100]

ASSUME ChartersAssumption == Charters \subseteq Charter
ASSUME BoundsAssumption == MaxEntries \in Nat /\ MaxRepeats \in Nat

VARIABLES charter, state, suspension, hansard
vars == <<charter, state, suspension, hansard>>

-----------------------------------------------------------------------------
TypeOK ==
  /\ charter \in Charters
  /\ state \in States
  /\ suspension \in Causes \cup {NoCause}
  /\ hansard \in Seq(Entry)

\* validateState: a cause is named when and only when the sitting is SUSPENDED.
SuspensionNamed == (state = "SUSPENDED") <=> (suspension # NoCause)

\* "STATE.json names a cause exactly when it says SUSPENDED, and every file
\* holds what its readers expect": the well-formedness validateState asks for.
WellFormed == TypeOK /\ SuspensionNamed

-----------------------------------------------------------------------------
(***************************************************************************)
(* dropWrit: a valid Charter convenes the sitting, an invalid one leaves   *)
(* an INVALID session on the record.                                       *)
(***************************************************************************)
Opened(s, type) == state = s /\ hansard = <<Plain(type)>>

Init ==
  /\ charter \in Charters
  /\ suspension = NoCause
  /\ Opened("CONVENED", "WRIT_DROP") \/ Opened("INVALID", "SESSION_INVALID")

-----------------------------------------------------------------------------
(***************************************************************************)
(* What a command does to the session.                                     *)
(***************************************************************************)
\* appendEntry, once for each entry of es; the Charter is never written.
Enters(es) ==
  /\ Len(hansard) + Len(es) <= MaxEntries
  /\ hansard' = hansard \o es
  /\ UNCHANGED charter

\* The bound on the acts that may be repeated at will.
RepeatableTypes ==
  {"VETO_EXERCISED", "COMMITTEE_SPAWNED", "STATE_SNAPSHOT", "DELEGATE_CHALLENGE"}
Seldom == Cardinality({k \in DOMAIN hansard : hansard[k].type \in RepeatableTypes}) < MaxRepeats

\* createState(...): the new STATE.json
Becomes(s, cause) == state' = s /\ suspension' = cause
Stays == UNCHANGED <<state, suspension>>

requireConvened == state = "CONVENED"
requireAuthority(role) == role \in {"AUTHORITY", "DELEGATE"}
IsSuspendedFor(cause) == state = "SUSPENDED" /\ suspension = cause

=============================================================================

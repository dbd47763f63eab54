------------------------------- MODULE Members -------------------------------
(***************************************************************************)
(* What a node knows about one other member, and what the calls of its     *)
(* node manager make of it (internal/core/node_list.go, node_manager.go).  *)
(*                                                                         *)
(* The code spreads an entry over three maps (see NodeList); here it is a  *)
(* single record.  NodeManager is shown to implement this view.            *)
(***************************************************************************)
EXTENDS Events

CONSTANTS
  SuspectPeriods   \* Options.SuspectPeriods

ASSUME SuspectPeriodsAssumption == SuspectPeriods \in Nat \ {0}

Period == 0 .. MaxUint16 - 1

NoMember == [state |-> "None", incarnation |-> 0, at |-> 0, remote |-> FALSE]

Entry ==
  [state : {"None", "Stable", "Suspect"}, incarnation : Incarnation, at : Period, remote : BOOLEAN]

IsMember(e) == e.state # "None"

\* Variant of Incremented: one identifier too many.
IncrementedLate(period) == IF period + 1 > MaxUint16 THEN 0 ELSE period + 1

\* runLoopPeriod.unsafeIncrementID: the identifier 65535 is never used.
Incremented(period) == IF period + 1 >= MaxUint16 THEN 0 ELSE period + 1

\* The distance ExpiredSuspects computes; it does not know that periods wrap.
Elapsed(period, at) ==
  LET distance == IF period >= at THEN period - at ELSE at - period
  IN  IF distance < MaxUint16 - 1 THEN distance ELSE MaxUint16 - 1

Expired(e, period) == e.state = "Suspect" /\ Elapsed(period, e.at) >= SuspectPeriods

StableEntry(incarnation) ==
  [state |-> "Stable", incarnation |-> incarnation, at |-> 0, remote |-> FALSE]

SuspectEntry(incarnation, period, remote) ==
  [state |-> "Suspect", incarnation |-> incarnation, at |-> period, remote |-> remote]

\* nodeList.unsafeAdd: a known member is left as it is.
Added(e, period, incarnation, suspect) ==
  IF IsMember(e) THEN e
  ELSE IF suspect THEN SuspectEntry(incarnation, period, TRUE)
  ELSE StableEntry(incarnation)

\* Variant of MarkedStable: a suspicion of the node itself is kept.
MarkedStableIfRemote(e) ==
  IF e.state = "Suspect" /\ e.remote THEN StableEntry(e.incarnation) ELSE e

MarkedStable(e) == IF e.state = "Suspect" THEN StableEntry(e.incarnation) ELSE e

\* A suspect keeps the period and the origin of its first suspicion.
MarkedSuspect(e, period, remote) ==
  IF e.state = "Stable" THEN SuspectEntry(e.incarnation, period, remote) ELSE e

\* The node of an event is not older than the one known: its incarnation and
\* its state are taken over.
UpdatedOrCreated(e, period, incarnation, suspect) ==
  IF ~IsMember(e) THEN Added(e, period, incarnation, suspect)
  ELSE IF e.incarnation > incarnation THEN e
  ELSE IF ~suspect THEN StableEntry(incarnation)
  ELSE IF e.state = "Suspect" THEN SuspectEntry(incarnation, e.at, e.remote)
  ELSE SuspectEntry(incarnation, period, TRUE)

\* Whatever was known, the member is stable with its new incarnation.
WrappedIncarnation(incarnation) == StableEntry(incarnation)

=============================================================================

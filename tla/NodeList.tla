------------------------------ MODULE NodeList ------------------------------
(***************************************************************************)
(* The member list of a node (internal/core/node_list.go): three maps from *)
(* NodeHash, nodeByType, stable and suspects, that must agree.  A slot is  *)
(* what the three maps hold for one hash; a key that is not in a map reads *)
(* as "Invalid", NoNode or NoSuspect.  All methods work hash by hash, so   *)
(* each is an operator from the slot before the call to the slot after it. *)
(***************************************************************************)
EXTENDS Members

NoNode    == [suspect |-> FALSE, incarnation |-> -1]
NoSuspect == [node |-> NoNode, at |-> 0, remote |-> FALSE]
NoSlot    == [type |-> "Invalid", stable |-> NoNode, suspect |-> NoSuspect]

Node        == [suspect : BOOLEAN, incarnation : Incarnation]
SuspectNode == [node : Node, at : Period, remote : BOOLEAN]
Slot        == [type    : {"Invalid", "Stable", "Suspect"},
                stable  : Node \cup {NoNode},
                suspect : SuspectNode \cup {NoSuspect}]

\* NodeByHash: what the list of the recorded type holds, NoNode for nil.
NodeByHash(s) ==
  CASE s.type = "Stable"  -> s.stable
    [] s.type = "Suspect" -> s.suspect.node
    [] OTHER              -> NoNode

\* Storing a node in, or deleting it from, one of the maps and nodeByType.
PutStable(s, node)     == [type |-> "Stable", stable |-> node, suspect |-> s.suspect]
PutSuspect(s, suspect) == [type |-> "Suspect", stable |-> s.stable, suspect |-> suspect]
DropStable(s)          == [type |-> "Invalid", stable |-> NoNode, suspect |-> s.suspect]
DropSuspect(s)         == [type |-> "Invalid", stable |-> s.stable, suspect |-> NoSuspect]

UnsafeAdd(s, period, node) ==
  IF s.type # "Invalid" THEN s
  ELSE IF node.suspect
       THEN PutSuspect(s, [node |-> node, at |-> period, remote |-> TRUE])
       ELSE PutStable(s, node)

\* Variant of UnsafeTakeAndDelete: the suspect stays in its map.
TakeAndKeepSuspect(s) ==
  CASE s.type = "Stable"  /\ s.stable # NoNode     -> DropStable(s)
    [] s.type = "Suspect" /\ s.suspect # NoSuspect -> [DropSuspect(s) EXCEPT !.suspect = s.suspect]
    [] OTHER                                       -> s

(***************************************************************************)
(* unsafeTakeAndDelete, called with the recorded type as its source: the   *)
(* node it returns is NodeByHash(s), NoNode when it finds none.            *)
(***************************************************************************)
UnsafeTakeAndDelete(s) ==
  CASE s.type = "Stable"  /\ s.stable # NoNode     -> DropStable(s)
    [] s.type = "Suspect" /\ s.suspect # NoSuspect -> DropSuspect(s)
    [] OTHER                                       -> s

SlotMarkedStable(s) ==
  IF s.type # "Suspect" \/ NodeByHash(s) = NoNode THEN s
  ELSE PutStable(UnsafeTakeAndDelete(s),
                 [suspect |-> FALSE, incarnation |-> NodeByHash(s).incarnation])

\* Variant of SlotMarkedSuspect: a suspect is marked again.
SlotMarkedSuspectAnew(s, period, remote) ==
  IF NodeByHash(s) = NoNode THEN s
  ELSE PutSuspect(UnsafeTakeAndDelete(s),
                  [node   |-> [suspect |-> TRUE, incarnation |-> NodeByHash(s).incarnation],
                   at     |-> period,
                   remote |-> remote])

SlotMarkedSuspect(s, period, remote) ==
  IF s.type # "Stable" \/ NodeByHash(s) = NoNode THEN s
  ELSE PutSuspect(UnsafeTakeAndDelete(s),
                  [node   |-> [suspect |-> TRUE, incarnation |-> NodeByHash(s).incarnation],
                   at     |-> period,
                   remote |-> remote])

SlotMarkedFaulty(s) == UnsafeTakeAndDelete(s)

SlotDeleted(s) ==
  CASE s.type = "Stable"  -> DropStable(s)
    [] s.type = "Suspect" -> DropSuspect(s)
    [] OTHER              -> s

\* localNode.Incarnation = ...: the node is updated in place, in its map.
WithIncarnation(s, incarnation) ==
  LET node == [suspect |-> NodeByHash(s).suspect, incarnation |-> incarnation]
  IN  IF s.type = "Stable" THEN PutStable(s, node)
      ELSE PutSuspect(s, [node |-> node, at |-> s.suspect.at, remote |-> s.suspect.remote])

\* Variants of SlotExpired: a period late, and a period early.
SlotExpiredLate(s, period) ==
  s.suspect # NoSuspect /\ Elapsed(period, s.suspect.at) > SuspectPeriods

SlotExpiredSoon(s, period) ==
  s.suspect # NoSuspect /\ Elapsed(period, s.suspect.at) + 1 >= SuspectPeriods

\* Whether ExpiredSuspects picks the suspect of a slot.
SlotExpired(s, period) ==
  s.suspect # NoSuspect /\ Elapsed(period, s.suspect.at) >= SuspectPeriods

\* Variant of SlotUpdatedOrCreated: an older incarnation is taken too.
SlotUpdatedByAny(s, period, node) ==
  IF NodeByHash(s) = NoNode THEN UnsafeAdd(s, period, node)
  ELSE LET updated == WithIncarnation(s, node.incarnation)
       IN  IF node.suspect THEN SlotMarkedSuspect(updated, period, TRUE)
           ELSE SlotMarkedStable(updated)

SlotUpdatedOrCreated(s, period, node) ==
  IF NodeByHash(s) = NoNode THEN UnsafeAdd(s, period, node)
  ELSE IF NodeByHash(s).incarnation > node.incarnation THEN s
  ELSE LET updated == WithIncarnation(s, node.incarnation)
       IN  IF node.suspect THEN SlotMarkedSuspect(updated, period, TRUE)
           ELSE SlotMarkedStable(updated)

SlotWrapped(s, period, node) ==
  IF NodeByHash(s) = NoNode THEN UnsafeAdd(s, period, node)
  ELSE WithIncarnation(SlotMarkedStable(s), node.incarnation)

\* The three maps agree about a hash, and Node.Suspect with the map it is in.
Consistent(s) ==
  /\ s.type = "Stable"  <=> s.stable # NoNode
  /\ s.type = "Suspect" <=> s.suspect # NoSuspect
  /\ ~s.stable.suspect
  /\ s.suspect # NoSuspect => s.suspect.node.suspect

=============================================================================

----------------------------- MODULE NodeManager -----------------------------
(***************************************************************************)
(* The node manager (internal/core/node_manager.go): the member list and   *)
(* the list of nodes still to be pinged in the current round, driven by    *)
(* the calls the server makes (swim_server.go) and by the end of each      *)
(* protocol period (runloop.go).                                           *)
(*                                                                         *)
(* Each call is one atomic action.  ProcessExpiredSuspects is not: it asks *)
(* for the expired suspects and then removes them one call at a time, and  *)
(* calls made for received messages may come in between.                   *)
(***************************************************************************)
EXTENDS NodeList, SequencesExt

CONSTANTS
  Self,          \* selfAddr
  Incarnations,  \* the incarnations calls are made with
  Horizon        \* bound of the model: the last period

ASSUME NodeManagerAssumption ==
  /\ Self \in Addr
  /\ IsFiniteSet(Addr)
  /\ Incarnations \subseteq Incarnation
  /\ Horizon \in Nat

VARIABLES
  list,         \* list[a]: the slot of a in the three maps of the nodeList
  nodesToPing,
  period,       \* runLoop.period.id
  pc,           \* "run", or "expire" while ProcessExpiredSuspects iterates
  expired,      \* the expired suspects it has still to declare faulty
  age           \* history: the periods each suspect has been one

vars == <<list, nodesToPing, period, pc, expired, age>>

Others == Addr \ {Self}

\* The nodes Range yields for NodeTypeStable|NodeTypeSuspect.
Known(l) == {a \in Addr : l[a].stable # NoNode \/ l[a].suspect # NoSuspect}

\* Variant of PingLists: the nodes are appended to what is left of the list.
PingListsExtended(l) == {nodesToPing \o q : q \in SetToSeqs(Known(l))}

\* The lists unsafePreparePingList may leave: all known nodes, shuffled.
PingLists(l) == SetToSeqs(Known(l))

-----------------------------------------------------------------------------

Init == /\ list = [a \in Addr |-> NoSlot]
        /\ nodesToPing = << >>
        /\ period = 1
        /\ pc = "run"
        /\ expired = {}
        /\ age = [a \in Addr |-> 0]

\* The part of each step that maintains the history.
Aged == age' = [a \in Addr |-> IF list[a].type = "Suspect" /\ list'[a].type = "Suspect"
                               THEN age[a] ELSE 0]

\* A call that replaces the slot of a and nothing else.
Store(a, s) == /\ list' = [list EXCEPT ![a] = s]
               /\ Aged
               /\ UNCHANGED <<nodesToPing, period, pc, expired>>

\* nodeList.Add, promoted: the ping list is not touched.
Add(a, incarnation) ==
  Store(a, UnsafeAdd(list[a], period, [suspect |-> FALSE, incarnation |-> incarnation]))

MarkStable(a) == Store(a, SlotMarkedStable(list[a]))

\* SignalSuspectNode; the run loop calls it before ProcessExpiredSuspects.
MarkSuspect(a) == /\ pc = "run"
                  /\ Store(a, SlotMarkedSuspect(list[a], period, FALSE))

UpdateOrCreate(a, incarnation, suspect) ==
  Store(a, SlotUpdatedOrCreated(list[a], period,
             [suspect |-> suspect, incarnation |-> incarnation]))

WrapIncarnation(a, incarnation) ==
  Store(a, SlotWrapped(list[a], period, [suspect |-> FALSE, incarnation |-> incarnation]))

\* nodeList.Delete, promoted: the ping list is not touched.
Delete(a) == Store(a, SlotDeleted(list[a]))

\* Variant of Bootstrap: this node is added like any other.
BootstrapWithSelf(batch) ==
  /\ list' = [a \in Addr |->
               IF a \in DOMAIN batch
               THEN UnsafeAdd(list[a], period, [suspect |-> FALSE, incarnation |-> batch[a]])
               ELSE list[a]]
  /\ nodesToPing' \in PingLists(list')
  /\ Aged
  /\ UNCHANGED <<period, pc, expired>>

(***************************************************************************)
(* Bootstrap: a list sent by another node (AllKnownNodes sends its stable  *)
(* nodes and itself); batch[a] is the incarnation it gives for a.  A new   *)
(* ping list is always prepared.                                           *)
(***************************************************************************)
Bootstrap(batch) ==
  /\ list' = [a \in Addr |->
               IF a \in DOMAIN batch \ {Self}
               THEN UnsafeAdd(list[a], period, [suspect |-> FALSE, incarnation |-> batch[a]])
               ELSE list[a]]
  /\ nodesToPing' \in PingLists(list')
  /\ Aged
  /\ UNCHANGED <<period, pc, expired>>

\* nodeManager.MarkFaulty
MarkedFaulty(a) ==
  /\ list' = [list EXCEPT ![a] = SlotMarkedFaulty(@)]
  /\ nodesToPing' = RemoveFirst(nodesToPing, a)
  /\ Aged

MarkFaulty(a) == /\ MarkedFaulty(a)
                 /\ UNCHANGED <<period, pc, expired>>

\* With an empty list NextPing returns nil and changes nothing.
NextPing ==
  /\ pc = "run"
  /\ nodesToPing # << >>
  /\ nodesToPing' \in IF Len(nodesToPing) = 1 THEN PingLists(list) ELSE {Tail(nodesToPing)}
  /\ UNCHANGED <<list, period, pc, expired, age>>

(***************************************************************************)
(* ExpiredSuspects: expired suspects announced by others are expunged from *)
(* the member list (and not from the ping list), the others returned.      *)
(***************************************************************************)
ExpiredSuspects ==
  /\ pc = "run"
  /\ pc' = "expire"
  /\ LET Remote == {a \in Addr : SlotExpired(list[a], period) /\ list[a].suspect.remote}
         Local  == {a \in Addr : SlotExpired(list[a], period) /\ ~list[a].suspect.remote}
     IN  /\ list' = [a \in Addr |-> IF a \in Remote THEN SlotMarkedFaulty(list[a]) ELSE list[a]]
         /\ expired' = Local
  /\ Aged
  /\ UNCHANGED <<nodesToPing, period>>

\* The loop of ProcessExpiredSuspects over what ExpiredSuspects returned.
DeclareFaulty(a) == /\ a \in expired
                    /\ expired' = expired \ {a}
                    /\ MarkedFaulty(a)
                    /\ UNCHANGED <<period, pc>>

\* endPeriod goes on to the next period.
IncrementPeriod ==
  /\ pc = "expire" /\ expired = {}
  /\ period < Horizon
  /\ pc' = "run"
  /\ period' = Incremented(period)
  /\ age' = [a \in Addr |-> IF list[a].type = "Suspect" THEN age[a] + 1 ELSE 0]
  /\ UNCHANGED <<list, nodesToPing, expired>>

Next ==
  \/ \E a \in Others :
       \/ MarkStable(a)
       \/ MarkSuspect(a)
       \/ Delete(a)
       \/ MarkFaulty(a)
       \/ DeclareFaulty(a)
       \/ \E i \in Incarnations :
            \/ Add(a, i)
            \/ WrapIncarnation(a, i)
            \/ \E s \in BOOLEAN : UpdateOrCreate(a, i, s)
  \/ \E S \in SUBSET Addr : \E batch \in [S -> Incarnations] : Bootstrap(batch)
  \/ NextPing
  \/ ExpiredSuspects
  \/ IncrementPeriod

Spec == Init /\ [][Next]_vars

-----------------------------------------------------------------------------
(* Properties.                                                              *)

\* Types of the maps, the ping list and the run loop's part of the state.
TypeOK == /\ list \in [Addr -> Slot]
          /\ nodesToPing \in Seq(Addr)
          /\ period \in Period
          /\ pc \in {"run", "expire"}
          /\ expired \subseteq Addr
          /\ age \in [Addr -> Nat]

(***************************************************************************)
(* The three maps agree: a hash is in exactly the map nodeByType names, or *)
(* in none, and Node.Suspect says which.  NodeByHash, the takes of         *)
(* MarkStable and MarkSuspect, and IndirectPingCandidates (which reads a   *)
(* map without checking that the key is there) rely on it.                 *)
(***************************************************************************)
IndexConsistent == \A a \in Addr : Consistent(list[a])

\* Node lists from other nodes contain this node; it never becomes a member
\* of its own list, and never has itself to ping or to declare faulty
\* (unsafeAdd).
SelfIsNoMember ==
  list[Self] = NoSlot /\ Self \notin Range(nodesToPing) /\ Self \notin expired

\* A node is to be pinged at most once in a round, so that MarkFaulty, which
\* removes the first occurrence, leaves none.
PingListDistinct == IsInjective(nodesToPing)

\* A suspicion is never dated anew or given another origin, whatever is heard
\* about the suspect: only a refutation ends it before it expires.
SuspicionKeepsItsDate ==
  [][\A a \in Addr : /\ list[a].suspect # NoSuspect
                     /\ list'[a].suspect # NoSuspect
                     => /\ list'[a].suspect.at = list[a].suspect.at
                        /\ list'[a].suspect.remote = list[a].suspect.remote]_vars

\* No node stays suspect longer than SuspectPeriods periods (options.go).
NeverOverdue == \A a \in Addr : age[a] <= SuspectPeriods

\* ExpiredSuspects picks a suspect only after SuspectPeriods periods, as its
\* comment says.
NeverEarly ==
  pc = "run" => \A a \in Addr : SlotExpired(list[a], period) => age[a] >= SuspectPeriods

\* As long as the period has not wrapped since a suspicion began, the suspect
\* expires only after SuspectPeriods periods.
NeverEarlyUnwrapped ==
  pc = "run" => \A a \in Addr : SlotExpired(list[a], period) /\ list[a].suspect.at <= period
                                  => age[a] >= SuspectPeriods

\* A node that becomes a member by Add gets into the ping list, as the comment
\* of NodeManager.Add says.
AddedIsToBePinged ==
  [][\A a \in Others : list[a].type = "Invalid" /\ list'[a].type # "Invalid"
                       => a \in Range(nodesToPing')]_vars

\* The ping list runs empty only when no member is left: NextPing returns nil
\* for an empty list, and by its comment only when there is no member.
PingListRunsDry ==
  [][nodesToPing # << >> /\ nodesToPing' = << >> => Known(list') = {}]_vars

\* A node the run loop declares faulty is still an expired suspect then.
OnlySuspectsDeclared ==
  [][\A a \in expired \ expired' : list[a].type = "Suspect"]_vars

-----------------------------------------------------------------------------
(* The three maps implement module Membership.                              *)

EntryOf(s) ==
  CASE s.type = "Stable"  -> StableEntry(s.stable.incarnation)
    [] s.type = "Suspect" -> SuspectEntry(s.suspect.node.incarnation, s.suspect.at, s.suspect.remote)
    [] OTHER              -> NoMember

View == INSTANCE Membership WITH entry <- [a \in Addr |-> EntryOf(list[a])]

\* Every call changes what is known about a member as Members says it does.
ImplementsMembership == View!Spec

=============================================================================

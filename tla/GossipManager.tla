---------------------------- MODULE GossipManager ----------------------------
(***************************************************************************)
(* The gossip queue of a node (internal/core/gossip_manager.go).  Add and  *)
(* Next hold the manager's mutex for their whole duration, so each is one  *)
(* atomic action.  AdjustMaxTransmission, one assignment, and the reader   *)
(* LastGossipAbout do not take it.                                         *)
(***************************************************************************)
EXTENDS Events, Sequences, FiniteSets, Functions

CONSTANTS
  Inputs,      \* the events that are added
  MaxTx,       \* the maxTx given to NewGossipManager
  MaxTxs,      \* the values AdjustMaxTransmission is called with
  MaxLengths,  \* the lengths Next is called with
  AddrSize,    \* bytes of an encoded address: 4 or 16
  MaxSends     \* bound of the model: a rumour is returned at most so often

ASSUME GossipAssumption ==
  /\ Inputs \subseteq Event
  /\ MaxTx \in Nat \ {0}
  /\ MaxTxs \subseteq Nat \ {0}
  /\ MaxLengths \subseteq Nat
  /\ AddrSize \in {4, 16}
  /\ MaxSends \in Nat

VARIABLES
  queue,  \* sequence of [event, tx]; tx is the field Second, "txLeft"
  maxTx,
  batch,  \* the events the last call returned (only Next returns any)
  sends   \* history: how often the rumour queued about a member was returned

vars == <<queue, maxTx, batch, sends>>

Item == [event : Event, tx : Int]

(***************************************************************************)
(* Bytes of an encoded event: the flags, the incarnation (two for a Wrap), *)
(* the subject, and the source for the kinds that carry one.               *)
(***************************************************************************)
RequiredSize(event) ==
  CASE event.kind \in {"Alive", "Left"} -> 3 + AddrSize
    [] event.kind = "Wrap"              -> 5 + AddrSize
    [] OTHER                            -> 3 + 2 * AddrSize

\* Bytes of the first n events of the queue, for every n.
PrefixSize ==
  LET size[n \in 0 .. Len(queue)] ==
        IF n = 0 THEN 0 ELSE size[n - 1] + RequiredSize(queue[n].event)
  IN  size

\* Variant of Reorderings: the sort is forgotten.
NotReordered(q) == {q}

(***************************************************************************)
(* The results reorder may leave: slices.SortFunc sorts by txLeft, highest *)
(* first, and does not promise the order of items that compare equal.      *)
(***************************************************************************)
Reorderings(q) ==
  {r \in {[i \in DOMAIN q |-> q[p[i]]] : p \in Bijection(DOMAIN q, DOMAIN q)} :
     \A i, j \in DOMAIN r : i < j => r[i].tx >= r[j].tx}

Subjects(q) == {q[i].event.subject : i \in DOMAIN q}

\* Variant of Matches: the search stops one item short of the end.
MatchesButLast(subject) == {k \in DOMAIN queue : k < Len(queue) /\ queue[k].event.subject = subject}

\* The positions findEventByNode may stop at; it returns the first of them.
Matches(subject) == {k \in DOMAIN queue : queue[k].event.subject = subject}

-----------------------------------------------------------------------------

Init == /\ queue = << >>
        /\ maxTx = MaxTx
        /\ batch = << >>
        /\ sends = [a \in Addr |-> 0]

AddNew(item) ==
  /\ Matches(item.subject) = {}
  /\ queue' \in Reorderings(Append(queue, [event |-> item, tx |-> maxTx]))
  /\ sends' = [sends EXCEPT ![item.subject] = 0]

\* Variant of AddOver: the new rumour starts with the full count.
AddOverAfresh(item) ==
  \E k \in Matches(item.subject) :
    /\ \A j \in Matches(item.subject) : k <= j
    /\ Invalidates(item, queue[k].event)
    /\ queue' \in Reorderings([queue EXCEPT ![k] = [event |-> item, tx |-> maxTx]])
    /\ sends' = [sends EXCEPT ![item.subject] = 0]

\* An item that does not invalidate the existing one leaves everything as it is.
AddOver(item) ==
  \E k \in Matches(item.subject) :
    /\ \A j \in Matches(item.subject) : k <= j
    /\ Invalidates(item, queue[k].event)
    /\ queue' \in Reorderings([queue EXCEPT ![k] = [event |-> item, tx |-> 0]])
    /\ sends' = [sends EXCEPT ![item.subject] = 0]

Add(item) == /\ AddNew(item) \/ AddOver(item)
             /\ batch' = << >>
             /\ UNCHANGED maxTx

\* The loop of Next stops at the first event that does not fit.
Returns(n, maxLength) ==
  /\ PrefixSize[n] <= maxLength
  /\ n < Len(queue) => PrefixSize[n + 1] > maxLength

\* The positions put in indexesToRemove when the first n events are returned.
Spent(n) == {i \in 1 .. n : queue[i].tx = 1}

Decremented(n) ==
  [i \in DOMAIN queue |-> IF i <= n /\ i \notin Spent(n)
                          THEN [queue[i] EXCEPT !.tx = @ - 1]
                          ELSE queue[i]]

\* Variant of AfterRemoval: one item too many is cut off.
AfterGreedyRemoval(n) == SubSeq(Decremented(n), Cardinality(Spent(n)) + 2, Len(queue))

(***************************************************************************)
(* slices.Delete is called with the positions 0 .. k-1 of indexesToRemove, *)
(* not with the positions it holds: the k items at the front go.           *)
(***************************************************************************)
AfterRemoval(n) == SubSeq(Decremented(n), Cardinality(Spent(n)) + 1, Len(queue))

NextBatch(maxLength) ==
  \E n \in 0 .. Len(queue) :
    /\ Returns(n, maxLength)
    /\ \A i \in 1 .. n : sends[queue[i].event.subject] < MaxSends
    /\ batch' = [i \in 1 .. n |-> queue[i].event]
    /\ queue' \in IF Spent(n) = {} THEN {Decremented(n)} ELSE Reorderings(AfterRemoval(n))
    /\ sends' = [a \in Addr |-> IF a \notin Subjects(queue') THEN 0
                                ELSE IF \E i \in 1 .. n : queue[i].event.subject = a
                                     THEN sends[a] + 1 ELSE sends[a]]
    /\ UNCHANGED maxTx

\* Variant of AdjustMaxTransmission: counts from zero.
AdjustMaxTransmissionFromZero(n) ==
  /\ n # maxTx
  /\ maxTx' = n - 1
  /\ batch' = << >>
  /\ UNCHANGED <<queue, sends>>

AdjustMaxTransmission(n) ==
  /\ n # maxTx
  /\ maxTx' = n
  /\ batch' = << >>
  /\ UNCHANGED <<queue, sends>>

Next == \/ \E item \in Inputs : Add(item)
        \/ \E maxLength \in MaxLengths : NextBatch(maxLength)
        \/ \E n \in MaxTxs : AdjustMaxTransmission(n)

Spec == Init /\ [][Next]_vars

-----------------------------------------------------------------------------
(* Properties.                                                              *)

\* Types of the manager's fields: the counters of the queue are integers
\* (they do sink below zero), the others naturals.
TypeOK == /\ queue \in Seq(Item)
          /\ maxTx \in Nat \ {0}
          /\ batch \in Seq(Event)
          /\ sends \in [Addr -> Nat]

\* At most one rumour per member is queued, so a ping carries at most one
\* event about its receiver: processPingEvents keeps the last of several.
UniqueSubjects ==
  \A i, j \in DOMAIN queue : queue[i].event.subject = queue[j].event.subject => i = j

\* With maxTx = 1 the items about to be dropped are in front of all others.
\* That is what makes the positions Next deletes the ones it means to delete.
FreshFirst ==
  \A i, j \in DOMAIN queue : i < j /\ queue[j].tx = 1 => queue[i].tx = 1

\* A rumour leaves the queue only in a call of Next that returns it, and for
\* the maxTx-th time.
DroppedOnlyWhenSpent ==
  [][\A a \in Subjects(queue) \ Subjects(queue') :
       /\ \E e \in Range(batch') : e.subject = a
       /\ sends[a] + 1 = maxTx]_vars

\* A rumour returned the maximum number of times is no longer queued, as the
\* comment of GossipManager.Next promises.
RetiredWhenSpent == \A a \in Subjects(queue) : sends[a] < maxTx

\* How much the kinds a server emits about a member that answers say about it.
Rank == [Join |-> 0, Alive |-> 0, Suspect |-> 1]

Supersedes(e, f) ==
  \/ e.incarnation > f.incarnation
  \/ e.incarnation = f.incarnation /\ Rank[e.kind] > Rank[f.kind]

\* Between Join, Alive and Suspect rumours the queue only moves forward, in
\* incarnation and then from trust to suspicion: two nodes that exchange such
\* rumours cannot undo each other's for ever (Add with the Invalidates rules).
RumoursAdvance ==
  [][\A i \in DOMAIN queue, j \in DOMAIN queue' :
       LET old == queue[i].event
           new == queue'[j].event
       IN  /\ old.subject = new.subject
           /\ old # new
           /\ {old.kind, new.kind} \subseteq DOMAIN Rank
           => Supersedes(new, old)]_vars

-----------------------------------------------------------------------------
(* The queue, as the server uses it, implements module Gossip.              *)

SlotOf(a) ==
  IF a \notin Subjects(queue) THEN [kind |-> "None", incarnation |-> 0, fresh |-> FALSE]
  ELSE LET item == queue[CHOOSE i \in DOMAIN queue : queue[i].event.subject = a]
       IN  [kind |-> item.event.kind, incarnation |-> item.event.incarnation,
            fresh |-> item.tx = 1]

Rumours == INSTANCE Gossip WITH slot <- [a \in Addr |-> SlotOf(a)], sent <- Range(batch)

\* Add and Next keep one rumour per member, hand out fresh ones first and
\* once, and keep a rumour that replaced another one.
ImplementsGossip == Rumours!Spec

=============================================================================

------------------------- MODULE GossipManagerProofs -------------------------
(***************************************************************************)
(* Proofs about GossipManager, for any members, events and lengths: one    *)
(* rumour per member whatever the number of transmissions and, with the    *)
(* maxTx of 1 the server uses, that the queue of the code drops the        *)
(* rumours it means to drop and implements module Gossip.                  *)
(***************************************************************************)
EXTENDS GossipManager, FiniteSetTheorems, SequenceTheorems, TLAPS

\* No two positions of a queue are about the same member.
Distinct(q) == \A i, j \in DOMAIN q : q[i].event.subject = q[j].event.subject => i = j

-----------------------------------------------------------------------------
(* The steps of the queue.                                                  *)

\* reorder moves the items of a queue about and sorts them.
LEMMA ReorderValues ==
  ASSUME NEW q \in Seq(Item), NEW r \in Reorderings(q)
  PROVE  /\ r \in Seq(Item) /\ DOMAIN r = DOMAIN q
         /\ \A i \in DOMAIN r : \E j \in DOMAIN q : r[i] = q[j]
         /\ \A j \in DOMAIN q : \E i \in DOMAIN r : r[i] = q[j]
         /\ Distinct(q) => Distinct(r)
         /\ \A i, j \in DOMAIN r : i < j => r[i].tx >= r[j].tx
<1>1. PICK p \in Bijection(DOMAIN q, DOMAIN q) : r = [i \in DOMAIN q |-> q[p[i]]]
  BY DEF Reorderings
<1>2. p \in [DOMAIN q -> DOMAIN q] /\ (\A i, j \in DOMAIN q : p[i] = p[j] => i = j)
      /\ \A j \in DOMAIN q : \E i \in DOMAIN q : p[i] = j
  BY DEF Bijection, Injection, Surjection, IsInjective
<1>3. DOMAIN q = 1 .. Len(q) /\ Len(q) \in Nat /\ \A i \in DOMAIN q : q[i] \in Item
  OBVIOUS
<1>4. r \in Seq(Item) /\ DOMAIN r = DOMAIN q
  BY <1>1, <1>2, <1>3
<1>5. \A i, j \in DOMAIN r : i < j => r[i].tx >= r[j].tx
  BY DEF Reorderings
<1> QED BY <1>1, <1>2, <1>4, <1>5 DEF Distinct

\* What Next does to the items it returns.
LEMMA DecrementedValues ==
  ASSUME queue \in Seq(Item), NEW n \in 0 .. Len(queue)
  PROVE  /\ Decremented(n) \in Seq(Item) /\ DOMAIN Decremented(n) = DOMAIN queue
         /\ \A i \in DOMAIN queue :
              /\ Decremented(n)[i].event = queue[i].event
              /\ Decremented(n)[i].tx = IF i <= n /\ queue[i].tx # 1 THEN queue[i].tx - 1
                                        ELSE queue[i].tx
<1>1. ASSUME NEW i \in DOMAIN queue
      PROVE  LET d == [queue[i] EXCEPT !.tx = @ - 1]
             IN  d \in Item /\ d.event = queue[i].event /\ d.tx = queue[i].tx - 1
  <2>1. queue[i] \in Item
    OBVIOUS
  <2> QED BY <2>1 DEF Item
<1>2. DOMAIN queue = 1 .. Len(queue) /\ Len(queue) \in Nat /\ \A i \in DOMAIN queue : queue[i] \in Item
  OBVIOUS
<1>3. \A i \in DOMAIN queue : Decremented(n)[i] = IF i <= n /\ queue[i].tx # 1
                                                 THEN [queue[i] EXCEPT !.tx = @ - 1] ELSE queue[i]
  BY <1>2 DEF Decremented, Spent
<1>4. DOMAIN Decremented(n) = DOMAIN queue /\ \A i \in DOMAIN queue : Decremented(n)[i] \in Item
  BY <1>1, <1>2, <1>3 DEF Decremented
<1>5. Decremented(n) \in Seq(Item)
  <2>1. Decremented(n) = [i \in 1 .. Len(queue) |-> Decremented(n)[i]]
    BY <1>2 DEF Decremented
  <2> HIDE DEF Decremented
  <2> QED BY <1>2, <1>4, <2>1
<1> QED BY <1>1, <1>3, <1>4, <1>5

\* The queue slices.Delete leaves: the last items, each decremented if it was returned.
LEMMA RemovalValues ==
  ASSUME queue \in Seq(Item), NEW n \in 0 .. Len(queue)
  PROVE  LET k == Cardinality(Spent(n))
             q == AfterRemoval(n)
         IN  /\ k \in 0 .. n
             /\ q \in Seq(Item) /\ DOMAIN q = 1 .. Len(queue) - k
             /\ \A i \in DOMAIN q : i + k \in DOMAIN queue /\ q[i] = Decremented(n)[i + k]
<1> DEFINE k == Cardinality(Spent(n))
           q == AfterRemoval(n)
           d == Decremented(n)
<1>1. Len(queue) \in Nat /\ n \in Nat /\ DOMAIN queue = 1 .. Len(queue)
  OBVIOUS
<1>2. IsFiniteSet(1 .. n) /\ Cardinality(1 .. n) = n
  BY <1>1, FS_Interval
<1>3. Spent(n) \in SUBSET (1 .. n)
  BY DEF Spent
<1>4. IsFiniteSet(Spent(n)) /\ k <= n
  BY <1>2, <1>3, FS_Subset
<1>5. k \in 0 .. n
  BY <1>1, <1>4, FS_CardinalityType
<1>6. d \in Seq(Item) /\ DOMAIN d = DOMAIN queue
  BY DecrementedValues
<1> HIDE DEF k, d
<1>7. \A i \in k + 1 .. Len(queue) : d[i] \in Item
  BY <1>1, <1>5, <1>6
<1>8. q = SubSeq(d, k + 1, Len(queue))
  BY DEF AfterRemoval, k, d
<1> HIDE DEF q
<1>9. k + 1 \in Int /\ Len(queue) \in Int
  BY <1>1, <1>5
<1>10. /\ q \in Seq(Item)
       /\ Len(q) = IF k + 1 <= Len(queue) THEN Len(queue) - (k + 1) + 1 ELSE 0
       /\ \A i \in 1 .. Len(queue) - (k + 1) + 1 : q[i] = d[k + 1 + i - 1]
  BY <1>7, <1>8, <1>9, SubSeqProperties
<1>11. DOMAIN q = 1 .. Len(queue) - k
  <2>1. DOMAIN q = 1 .. Len(q)
    BY <1>10
  <2>2. k \in Nat /\ k <= Len(queue)
    BY <1>1, <1>5
  <2>3. Len(q) = Len(queue) - k
    <3>1. CASE k + 1 <= Len(queue)
      <4>1. Len(q) = Len(queue) - (k + 1) + 1
        BY <1>10, <3>1
      <4> QED BY <1>1, <2>2, <4>1
    <3>2. CASE ~(k + 1 <= Len(queue))
      <4>1. Len(q) = 0
        BY <1>10, <3>2
      <4> DEFINE len == Len(queue)
      <4>2. len \in Nat
        BY <1>1
      <4>3. k <= len /\ ~(k + 1 <= len)
        BY <2>2, <3>2
      <4> HIDE DEF len
      <4>4. k = len
        BY <2>2, <4>2, <4>3
      <4> QED BY <2>2, <4>1, <4>4 DEF len
    <3> QED BY <3>1, <3>2
  <2> QED BY <2>1, <2>3
<1>12. ASSUME NEW i \in DOMAIN q PROVE i + k \in DOMAIN queue /\ q[i] = d[i + k]
  <2>1. i \in Int /\ k \in Int /\ 1 <= i /\ i <= Len(queue) - k /\ 0 <= k
    BY <1>1, <1>5, <1>11
  <2>2. i \in 1 .. Len(queue) - (k + 1) + 1 /\ k + 1 + i - 1 = i + k
    BY <1>1, <2>1
  <2>3. q[i] = d[i + k]
    BY <1>10, <2>2
  <2> QED BY <1>1, <2>1, <2>3
<1> QED BY <1>5, <1>10, <1>11, <1>12 DEF k, q, d

\* What is left of the queue by Next: the items from some position on, returned or not.
LEMMA NextValues ==
  ASSUME queue \in Seq(Item), UniqueSubjects, NEW n \in 0 .. Len(queue),
         queue' \in IF Spent(n) = {} THEN {Decremented(n)} ELSE Reorderings(AfterRemoval(n))
  PROVE  LET k == Cardinality(Spent(n))
         IN  /\ queue' \in Seq(Item) /\ UniqueSubjects'
             /\ \A i \in DOMAIN queue' : \E j \in DOMAIN queue : j > k /\ queue'[i] = Decremented(n)[j]
             /\ \A j \in DOMAIN queue : j > k => \E i \in DOMAIN queue' : queue'[i] = Decremented(n)[j]
             /\ Spent(n) # {} => \A i, j \in DOMAIN queue' : i < j => queue'[i].tx >= queue'[j].tx
<1> DEFINE k == Cardinality(Spent(n))
           q == AfterRemoval(n)
           d == Decremented(n)
<1>1. /\ k \in 0 .. n /\ q \in Seq(Item) /\ DOMAIN q = 1 .. Len(queue) - k
      /\ \A i \in DOMAIN q : i + k \in DOMAIN queue /\ q[i] = d[i + k]
  BY RemovalValues
<1>2. d \in Seq(Item) /\ DOMAIN d = DOMAIN queue /\ \A i \in DOMAIN queue : d[i].event = queue[i].event
  BY DecrementedValues
<1>3. DOMAIN queue = 1 .. Len(queue) /\ Len(queue) \in Nat
  OBVIOUS
<1> HIDE DEF q, d
<1>4. CASE Spent(n) = {}
  <2>1. queue' = d /\ k = 0
    BY <1>4, FS_EmptySet DEF d
  <2> HIDE DEF k
  <2> QED BY <1>2, <1>3, <1>4, <2>1 DEF UniqueSubjects, k, d
<1>5. CASE Spent(n) # {}
  <2>1. queue' \in Reorderings(q)
    BY <1>5 DEF q
  <2> HIDE DEF k
  <2>2. ASSUME NEW j \in DOMAIN queue, j > k PROVE j - k \in DOMAIN q /\ q[j - k] = d[j]
    <3>1. j - k \in 1 .. Len(queue) - k /\ (j - k) + k = j
      BY <1>1, <1>3, <2>2
    <3> QED BY <1>1, <3>1
  <2>3. Distinct(q)
    BY <1>1, <1>2, <1>3 DEF Distinct, UniqueSubjects
  <2>4. /\ queue' \in Seq(Item) /\ DOMAIN queue' = DOMAIN q
        /\ \A i \in DOMAIN queue' : \E j \in DOMAIN q : queue'[i] = q[j]
        /\ \A j \in DOMAIN q : \E i \in DOMAIN queue' : queue'[i] = q[j]
        /\ Distinct(queue')
        /\ \A i, j \in DOMAIN queue' : i < j => queue'[i].tx >= queue'[j].tx
    BY <1>1, <2>1, <2>3, ReorderValues
  <2>5. ASSUME NEW i \in DOMAIN queue' PROVE \E j \in DOMAIN queue : j > k /\ queue'[i] = d[j]
    <3>1. PICK j \in DOMAIN q : queue'[i] = q[j]
      BY <2>4
    <3>2. j + k \in DOMAIN queue /\ q[j] = d[j + k] /\ j + k > k
      BY <1>1, <1>3
    <3> QED BY <3>1, <3>2
  <2>6. \A j \in DOMAIN queue : j > k => \E i \in DOMAIN queue' : queue'[i] = d[j]
    BY <2>2, <2>4
  <2>7. UniqueSubjects'
    BY <2>4 DEF Distinct, UniqueSubjects
  <2> QED BY <2>4, <2>5, <2>6, <2>7 DEF k, d
<1> QED BY <1>4, <1>5

\* Add, when nothing is queued about the member: the item joins the others.
LEMMA AddNewValues ==
  ASSUME queue \in Seq(Item), UniqueSubjects, NEW item \in Event, maxTx \in Int, AddNew(item)
  PROVE  LET new == [event |-> item, tx |-> maxTx]
         IN  /\ queue' \in Seq(Item) /\ UniqueSubjects'
             /\ \A i \in DOMAIN queue' : queue'[i] = new \/ \E j \in DOMAIN queue : queue'[i] = queue[j]
             /\ \A j \in DOMAIN queue : /\ queue[j].event.subject # item.subject
                                        /\ \E i \in DOMAIN queue' : queue'[i] = queue[j]
             /\ \E i \in DOMAIN queue' : queue'[i] = new
             /\ \A i, j \in DOMAIN queue' : i < j => queue'[i].tx >= queue'[j].tx
<1> DEFINE new == [event |-> item, tx |-> maxTx]
           q == Append(queue, new)
<1>1. new \in Item /\ new.event = item
  BY DEF Item
<1>2. queue' \in Reorderings(q) /\ \A j \in DOMAIN queue : queue[j].event.subject # item.subject
  BY DEF AddNew, Matches
<1> HIDE DEF new
<1>3. /\ q \in Seq(Item) /\ DOMAIN q = 1 .. Len(queue) + 1
      /\ DOMAIN queue = 1 .. Len(queue) /\ Len(queue) \in Nat
      /\ q[Len(queue) + 1] = new
      /\ \A j \in DOMAIN queue : q[j] = queue[j]
  BY <1>1
<1>4. \A i \in DOMAIN q : i = Len(queue) + 1 \/ i \in DOMAIN queue
  BY <1>3
<1> HIDE DEF q
<1>5. Distinct(q)
  <2> SUFFICES ASSUME NEW i \in DOMAIN q, NEW j \in DOMAIN q, q[i].event.subject = q[j].event.subject
               PROVE  i = j
    BY DEF Distinct
  <2>1. CASE i \in DOMAIN queue /\ j \in DOMAIN queue
    BY <1>3, <2>1 DEF UniqueSubjects
  <2>2. CASE i = Len(queue) + 1 /\ j \in DOMAIN queue
    BY <1>1, <1>2, <1>3, <2>2
  <2>3. CASE i \in DOMAIN queue /\ j = Len(queue) + 1
    BY <1>1, <1>2, <1>3, <2>3
  <2> QED BY <1>4, <2>1, <2>2, <2>3
<1>6. /\ queue' \in Seq(Item) /\ DOMAIN queue' = DOMAIN q
      /\ \A i \in DOMAIN queue' : \E j \in DOMAIN q : queue'[i] = q[j]
      /\ \A j \in DOMAIN q : \E i \in DOMAIN queue' : queue'[i] = q[j]
      /\ Distinct(queue')
      /\ \A i, j \in DOMAIN queue' : i < j => queue'[i].tx >= queue'[j].tx
  BY <1>2, <1>3, <1>5, ReorderValues
<1>7. UniqueSubjects'
  BY <1>6 DEF Distinct, UniqueSubjects
<1>8. \A i \in DOMAIN queue' : queue'[i] = new \/ \E j \in DOMAIN queue : queue'[i] = queue[j]
  BY <1>3, <1>4, <1>6
<1>9. \E i \in DOMAIN queue' : queue'[i] = new
  <2>1. Len(queue) + 1 \in DOMAIN q
    BY <1>3
  <2> QED BY <1>3, <1>6, <2>1
<1>10. \A j \in DOMAIN queue : \E i \in DOMAIN queue' : queue'[i] = queue[j]
  <2>1. \A j \in DOMAIN queue : j \in DOMAIN q
    BY <1>3
  <2> QED BY <1>3, <1>6, <2>1
<1> QED BY <1>2, <1>6, <1>7, <1>8, <1>9, <1>10 DEF new

\* Add, when the item makes the one that is queued obsolete: it takes its place, and
\* its counter starts at 0.
LEMMA AddOverValues ==
  ASSUME queue \in Seq(Item), UniqueSubjects, NEW item \in Event, AddOver(item)
  PROVE  LET new == [event |-> item, tx |-> 0]
         IN  /\ queue' \in Seq(Item) /\ UniqueSubjects'
             /\ \A i, j \in DOMAIN queue' : i < j => queue'[i].tx >= queue'[j].tx
             /\ \E i \in DOMAIN queue' : queue'[i] = new
             /\ \E k \in DOMAIN queue :
                  /\ queue[k].event.subject = item.subject /\ Invalidates(item, queue[k].event)
                  /\ \A i \in DOMAIN queue' :
                       queue'[i] = new \/ \E j \in DOMAIN queue : j # k /\ queue'[i] = queue[j]
                  /\ \A j \in DOMAIN queue : j # k => \E i \in DOMAIN queue' : queue'[i] = queue[j]
<1> DEFINE new == [event |-> item, tx |-> 0]
<1>1. new \in Item /\ new.event = item
  BY DEF Item
<1>2. PICK k \in DOMAIN queue : /\ queue[k].event.subject = item.subject
                                /\ Invalidates(item, queue[k].event)
                                /\ queue' \in Reorderings([queue EXCEPT ![k] = new])
  BY DEF AddOver, Matches
<1> DEFINE q == [queue EXCEPT ![k] = new]
<1> HIDE DEF new
<1>3. q \in Seq(Item) /\ DOMAIN q = DOMAIN queue /\ \A j \in DOMAIN q : q[j] = IF j = k THEN new ELSE queue[j]
  BY <1>1
<1>4. queue' \in Reorderings(q)
  BY <1>2
<1> HIDE DEF q
<1>5. Distinct(q)
  <2>1. \A j \in DOMAIN q : q[j].event.subject = queue[j].event.subject
    BY <1>1, <1>2, <1>3
  <2> QED BY <1>3, <2>1 DEF Distinct, UniqueSubjects
<1>6. /\ queue' \in Seq(Item) /\ DOMAIN queue' = DOMAIN q
      /\ \A i \in DOMAIN queue' : \E j \in DOMAIN q : queue'[i] = q[j]
      /\ \A j \in DOMAIN q : \E i \in DOMAIN queue' : queue'[i] = q[j]
      /\ Distinct(queue')
      /\ \A i, j \in DOMAIN queue' : i < j => queue'[i].tx >= queue'[j].tx
  BY <1>3, <1>4, <1>5, ReorderValues
<1>7. UniqueSubjects'
  BY <1>6 DEF Distinct, UniqueSubjects
<1>8. \A i \in DOMAIN queue' : queue'[i] = new \/ \E j \in DOMAIN queue : j # k /\ queue'[i] = queue[j]
  BY <1>3, <1>6
<1>9. \E i \in DOMAIN queue' : queue'[i] = new
  BY <1>3, <1>6
<1>10. \A j \in DOMAIN queue : j # k => \E i \in DOMAIN queue' : queue'[i] = queue[j]
  BY <1>3, <1>6
<1> QED BY <1>2, <1>6, <1>7, <1>8, <1>9, <1>10 DEF new

-----------------------------------------------------------------------------
(* Any number of transmissions.                                             *)

QInv == queue \in Seq(Item) /\ maxTx \in Nat \ {0} /\ UniqueSubjects

\* The queue keeps its shape.
LEMMA QueueInv == Spec => []QInv
<1>1. Init => QInv
  BY GossipAssumption DEF Init, QInv, UniqueSubjects
<1>2. QInv /\ [Next]_vars => QInv'
  <2> SUFFICES ASSUME QInv, [Next]_vars PROVE QInv'
    OBVIOUS
  <2> USE GossipAssumption
  <2>1. ASSUME NEW item \in Inputs, AddNew(item), UNCHANGED maxTx PROVE QInv'
    BY <2>1, AddNewValues DEF QInv
  <2>2. ASSUME NEW item \in Inputs, AddOver(item), UNCHANGED maxTx PROVE QInv'
    BY <2>2, AddOverValues DEF QInv
  <2>3. ASSUME NEW maxLength \in MaxLengths, NextBatch(maxLength) PROVE QInv'
    <3>1. PICK n \in 0 .. Len(queue) :
            queue' \in IF Spent(n) = {} THEN {Decremented(n)} ELSE Reorderings(AfterRemoval(n))
      BY <2>3 DEF NextBatch
    <3>2. maxTx' = maxTx
      BY <2>3 DEF NextBatch
    <3> QED BY <3>1, <3>2, NextValues DEF QInv
  <2>4. ASSUME NEW n \in MaxTxs, AdjustMaxTransmission(n) PROVE QInv'
    BY <2>4 DEF AdjustMaxTransmission, QInv, UniqueSubjects
  <2>5. CASE UNCHANGED vars
    BY <2>5 DEF vars, QInv, UniqueSubjects
  <2> QED BY <2>1, <2>2, <2>3, <2>4, <2>5 DEF Next, Add
<1> QED BY <1>1, <1>2, PTL DEF Spec

\* At most one rumour per member is queued, whatever is added and however often
\* rumours are handed out, and through every sort, replacement and removal.
THEOREM OneRumourEach == Spec => []UniqueSubjects
<1>1. QInv => UniqueSubjects
  BY DEF QInv
<1> QED BY <1>1, QueueInv, PTL

\* The step RumoursAdvance speaks of.
Advances ==
  \A i \in DOMAIN queue, j \in DOMAIN queue' :
    LET old == queue[i].event
        new == queue'[j].event
    IN  /\ old.subject = new.subject
        /\ old # new
        /\ {old.kind, new.kind} \subseteq DOMAIN Rank
        => Supersedes(new, old)

\* Between Join, Alive and Suspect rumours the queue only moves forward, for any
\* members and incarnations: a rumour is replaced by a later one or not at all.
THEOREM Advance == Spec => RumoursAdvance
<1>1. QInv /\ [Next]_vars => [Advances]_vars
  <2> SUFFICES ASSUME QInv, Next
               PROVE  Advances
    BY DEF vars
  <2> USE GossipAssumption
  <2> SUFFICES ASSUME NEW i \in DOMAIN queue, NEW j \in DOMAIN queue',
                      queue[i].event.subject = queue'[j].event.subject,
                      queue[i].event # queue'[j].event,
                      {queue[i].event.kind, queue'[j].event.kind} \subseteq DOMAIN Rank
               PROVE  Supersedes(queue'[j].event, queue[i].event)
    BY DEF Advances
  <2>1. \A m \in DOMAIN queue : m # i => queue'[j].event # queue[m].event
    BY DEF QInv, UniqueSubjects
  <2>2. ASSUME NEW m \in DOMAIN queue, queue'[j].event = queue[m].event PROVE FALSE
    BY <2>1, <2>2
  <2>3. ASSUME NEW item \in Inputs, AddNew(item) PROVE FALSE
    <3>1. queue'[j].event = item \/ \E m \in DOMAIN queue : queue'[j] = queue[m]
      BY <2>3, AddNewValues DEF QInv
    <3>2. queue[i].event.subject # item.subject
      BY <2>3, AddNewValues DEF QInv
    <3> QED BY <2>2, <3>1, <3>2
  <2>4. ASSUME NEW item \in Inputs, AddOver(item)
        PROVE  Supersedes(queue'[j].event, queue[i].event)
    <3>1. PICK k \in DOMAIN queue :
            /\ queue[k].event.subject = item.subject /\ Invalidates(item, queue[k].event)
            /\ queue'[j].event = item \/ \E m \in DOMAIN queue : queue'[j] = queue[m]
      BY <2>4, AddOverValues DEF QInv
    <3>2. queue'[j].event = item
      BY <2>2, <3>1
    <3>3. k = i
      BY <3>1, <3>2 DEF QInv, UniqueSubjects
    <3> DEFINE old == queue[i].event
    <3>4. Invalidates(item, old) /\ old.kind \in {"Join", "Alive", "Suspect"}
          /\ item.kind \in {"Join", "Alive", "Suspect"} /\ old \in Event /\ item \in Event
      <4>1. DOMAIN Rank = {"Join", "Alive", "Suspect"}
        BY DEF Rank
      <4>2. queue[i] \in Item
        BY DEF QInv
      <4> QED BY <3>1, <3>2, <3>3, <4>1, <4>2 DEF Item
    <3> HIDE DEF old
    <3>5. old.incarnation \in Int /\ item.incarnation \in Int
      BY <3>4, UintAssumption DEF Event, Incarnation
    <3>6. \/ item.incarnation > old.incarnation
          \/ item.incarnation = old.incarnation /\ old.kind \in OverridesOnTie[item.kind]
      BY <3>4 DEF Invalidates
    <3>7. old.kind \in OverridesOnTie[item.kind] => item.kind = "Suspect" /\ old.kind # "Suspect"
      BY <3>4 DEF OverridesOnTie
    <3>8. Supersedes(item, old)
      BY <3>4, <3>5, <3>6, <3>7 DEF Supersedes, Rank
    <3> QED BY <3>2, <3>8 DEF old
  <2>5. ASSUME NEW maxLength \in MaxLengths, NextBatch(maxLength) PROVE FALSE
    <3>1. PICK n \in 0 .. Len(queue) :
            queue' \in IF Spent(n) = {} THEN {Decremented(n)} ELSE Reorderings(AfterRemoval(n))
      BY <2>5 DEF NextBatch
    <3>2. PICK m \in DOMAIN queue : queue'[j] = Decremented(n)[m]
      BY <3>1, NextValues DEF QInv
    <3>3. queue'[j].event = queue[m].event
      BY <3>2, DecrementedValues DEF QInv
    <3> QED BY <2>2, <3>3
  <2>6. ASSUME NEW n \in MaxTxs, AdjustMaxTransmission(n) PROVE FALSE
    BY <2>2, <2>6 DEF AdjustMaxTransmission
  <2> QED BY <2>3, <2>4, <2>5, <2>6 DEF Next, Add
<1>2. RumoursAdvance <=> [][Advances]_vars
  BY DEF RumoursAdvance, Advances
<1> QED BY <1>1, <1>2, QueueInv, PTL DEF Spec

-----------------------------------------------------------------------------
(* The queue of the server: maxTx is 1.                                     *)

\* Counters are at most 1, those of 1 are in front, and are of rumours that have not
\* been handed out.
SInv ==
  /\ QInv /\ maxTx = 1
  /\ sends \in [Addr -> Nat]
  /\ FreshFirst
  /\ \A i \in DOMAIN queue : /\ queue[i].tx <= 1
                             /\ queue[i].tx = 1 => sends[queue[i].event.subject] = 0

\* With the fresh rumours in front, the positions Next deletes are those of the spent
\* rumours.
LEMMA SpentInFront ==
  ASSUME SInv, NEW n \in 0 .. Len(queue)
  PROVE  /\ Spent(n) = 1 .. Cardinality(Spent(n)) /\ Cardinality(Spent(n)) \in 0 .. n
         /\ \A j \in DOMAIN queue : j > Cardinality(Spent(n)) => j > n \/ queue[j].tx # 1
<1> DEFINE k == Cardinality(Spent(n))
<1>1. DOMAIN queue = 1 .. Len(queue) /\ Len(queue) \in Nat /\ queue \in Seq(Item)
  BY DEF SInv, QInv
<1>2. k \in 0 .. n
  BY <1>1, RemovalValues
<1>3. Spent(n) \subseteq 1 .. n /\ \A i \in 1 .. n : i \in Spent(n) <=> queue[i].tx = 1
  BY DEF Spent
<1>4. IsFiniteSet(Spent(n))
  <2>1. IsFiniteSet(1 .. n)
    BY <1>1, FS_Interval
  <2> QED BY <1>3, <2>1, FS_Subset
<1>5. ASSUME NEW i \in Spent(n) PROVE i <= k
  <2>1. 1 .. i \subseteq Spent(n)
    BY <1>1, <1>3 DEF SInv, FreshFirst
  <2>2. Cardinality(1 .. i) = i
    BY <1>1, <1>3, FS_Interval
  <2>3. Cardinality(1 .. i) <= k
    BY <1>4, <2>1, FS_Subset
  <2> QED BY <2>2, <2>3
<1>6. Spent(n) \subseteq 1 .. k
  BY <1>1, <1>2, <1>3, <1>5
<1>7. IsFiniteSet(1 .. k) /\ Cardinality(1 .. k) = k
  BY <1>2, FS_Interval
<1>8. Spent(n) = 1 .. k
  BY <1>6, <1>7, FS_Subset
<1> HIDE DEF k
<1>9. \A j \in DOMAIN queue : j > k => j > n \/ queue[j].tx # 1
  BY <1>1, <1>2, <1>3, <1>8
<1> QED BY <1>2, <1>8, <1>9 DEF k

\* How the server uses the queue.
ServerUse == MaxTx = 1 /\ MaxTxs = {}

\* A sorted queue whose counters are at most 1 has those of 1 in front.
LEMMA SortedFreshFirst ==
  ASSUME NEW q \in Seq(Item), \A i \in DOMAIN q : q[i].tx <= 1,
         \A i, j \in DOMAIN q : i < j => q[i].tx >= q[j].tx
  PROVE  \A i, j \in DOMAIN q : i < j /\ q[j].tx = 1 => q[i].tx = 1
<1>1. ASSUME NEW i \in DOMAIN q PROVE q[i].tx \in Int
  <2>1. q[i] \in Item
    OBVIOUS
  <2> QED BY <2>1 DEF Item
<1> QED BY <1>1

\* Adding a rumour keeps the fresh ones in front.
LEMMA AddServer ==
  ASSUME SInv, NEW item \in Event, AddNew(item) \/ AddOver(item), UNCHANGED maxTx
  PROVE  SInv'
<1>1. QInv /\ queue \in Seq(Item) /\ UniqueSubjects /\ maxTx = 1 /\ maxTx' = 1 /\ item.subject \in Addr
  BY DEF SInv, QInv, Event
<1>2. PICK new \in Item :
        /\ new.event = item /\ new.tx <= 1
        /\ queue' \in Seq(Item) /\ UniqueSubjects'
        /\ \A i \in DOMAIN queue' :
             queue'[i] = new \/ \E j \in DOMAIN queue : /\ queue'[i] = queue[j]
                                                       /\ queue[j].event.subject # item.subject
        /\ \A i, j \in DOMAIN queue' : i < j => queue'[i].tx >= queue'[j].tx
  <2>1. CASE AddNew(item)
    <3> DEFINE new == [event |-> item, tx |-> maxTx]
    <3>1. new \in Item /\ new.event = item /\ new.tx <= 1
      BY <1>1 DEF Item
    <3>2. /\ queue' \in Seq(Item) /\ UniqueSubjects'
          /\ \A i \in DOMAIN queue' : queue'[i] = new \/ \E j \in DOMAIN queue : queue'[i] = queue[j]
          /\ \A j \in DOMAIN queue : queue[j].event.subject # item.subject
          /\ \A i, j \in DOMAIN queue' : i < j => queue'[i].tx >= queue'[j].tx
      BY <1>1, <2>1, AddNewValues
    <3> HIDE DEF new
    <3> QED BY <3>1, <3>2
  <2>2. CASE AddOver(item)
    <3> DEFINE new == [event |-> item, tx |-> 0]
    <3>1. new \in Item /\ new.event = item /\ new.tx <= 1
      BY DEF Item
    <3>2. /\ queue' \in Seq(Item) /\ UniqueSubjects'
          /\ \A i, j \in DOMAIN queue' : i < j => queue'[i].tx >= queue'[j].tx
          /\ \E k \in DOMAIN queue :
               /\ queue[k].event.subject = item.subject
               /\ \A i \in DOMAIN queue' :
                    queue'[i] = new \/ \E j \in DOMAIN queue : j # k /\ queue'[i] = queue[j]
      BY <1>1, <2>2, AddOverValues
    <3> HIDE DEF new
    <3>3. PICK k \in DOMAIN queue :
            /\ queue[k].event.subject = item.subject
            /\ \A i \in DOMAIN queue' :
                 queue'[i] = new \/ \E j \in DOMAIN queue : j # k /\ queue'[i] = queue[j]
      BY <3>2
    <3>4. \A j \in DOMAIN queue : j # k => queue[j].event.subject # item.subject
      BY <1>1, <3>3 DEF UniqueSubjects
    <3> QED BY <3>1, <3>2, <3>3, <3>4
  <2> QED BY <2>1, <2>2
<1>3. sends' = [sends EXCEPT ![item.subject] = 0]
  BY DEF AddNew, AddOver
<1>4. sends' \in [Addr -> Nat] /\ sends'[item.subject] = 0
      /\ \A a \in Addr : a # item.subject => sends'[a] = sends[a]
  BY <1>1, <1>3 DEF SInv
<1>5. ASSUME NEW i \in DOMAIN queue'
      PROVE  queue'[i].tx <= 1 /\ (queue'[i].tx = 1 => sends'[queue'[i].event.subject] = 0)
  <2>1. CASE queue'[i] = new
    BY <1>2, <1>4, <2>1
  <2>2. CASE queue'[i] # new
    <3>1. PICK j \in DOMAIN queue : queue'[i] = queue[j] /\ queue[j].event.subject # item.subject
      BY <1>2, <2>2
    <3>2. queue[j].event.subject \in Addr
      <4>1. queue[j] \in Item
        BY <1>1
      <4> QED BY <4>1 DEF Item, Event
    <3> QED BY <1>4, <3>1, <3>2 DEF SInv
  <2> QED BY <2>1, <2>2
<1>6. FreshFirst'
  BY <1>2, <1>5, SortedFreshFirst DEF FreshFirst
<1> QED BY <1>1, <1>2, <1>4, <1>5, <1>6 DEF SInv, QInv

\* Handing rumours out keeps the fresh ones in front.
LEMMA NextServer ==
  ASSUME SInv, NEW maxLength \in MaxLengths, NextBatch(maxLength)
  PROVE  SInv'
<1>1. PICK n \in 0 .. Len(queue) :
        /\ queue' \in IF Spent(n) = {} THEN {Decremented(n)} ELSE Reorderings(AfterRemoval(n))
        /\ sends' = [a \in Addr |-> IF a \notin Subjects(queue') THEN 0
                                    ELSE IF \E i \in 1 .. n : queue[i].event.subject = a
                                         THEN sends[a] + 1 ELSE sends[a]]
        /\ UNCHANGED maxTx
  BY DEF NextBatch
<1> DEFINE k == Cardinality(Spent(n))
           d == Decremented(n)
<1>2. queue \in Seq(Item) /\ UniqueSubjects /\ maxTx' = 1 /\ maxTx' = maxTx
      /\ DOMAIN queue = 1 .. Len(queue) /\ Len(queue) \in Nat
  BY <1>1 DEF SInv, QInv
<1>3. /\ queue' \in Seq(Item) /\ UniqueSubjects'
      /\ \A i \in DOMAIN queue' : \E j \in DOMAIN queue : j > k /\ queue'[i] = d[j]
      /\ Spent(n) # {} => \A i, j \in DOMAIN queue' : i < j => queue'[i].tx >= queue'[j].tx
  BY <1>1, <1>2, NextValues
<1>4. \A i \in DOMAIN queue : /\ queue[i].tx \in Int /\ queue[i].tx <= 1 /\ queue[i].event.subject \in Addr
                              /\ queue[i].tx = 1 => sends[queue[i].event.subject] = 0
  <2> SUFFICES ASSUME NEW i \in DOMAIN queue
               PROVE  /\ queue[i].tx \in Int /\ queue[i].event.subject \in Addr
    BY DEF SInv
  <2>1. queue[i] \in Item
    BY <1>2
  <2> QED BY <2>1 DEF Item, Event
<1>5. \A i \in DOMAIN queue :
        /\ d[i].event = queue[i].event
        /\ d[i].tx = IF i <= n /\ queue[i].tx # 1 THEN queue[i].tx - 1 ELSE queue[i].tx
  BY <1>2, DecrementedValues
<1>6. \A j \in DOMAIN queue : j > k => j > n \/ queue[j].tx # 1
  BY SpentInFront
<1> HIDE DEF k, d
<1>7. ASSUME NEW j \in DOMAIN queue, j > k
      PROVE  d[j].tx <= 1 /\ (d[j].tx = 1 => j > n /\ queue[j].tx = 1)
  BY <1>2, <1>4, <1>5, <1>6, <1>7
<1>8. ASSUME NEW i \in DOMAIN queue'
      PROVE  queue'[i].tx <= 1 /\ (queue'[i].tx = 1 => sends'[queue'[i].event.subject] = 0)
  <2>1. PICK j \in DOMAIN queue : j > k /\ queue'[i] = d[j]
    BY <1>3
  <2>2. queue'[i].event.subject = queue[j].event.subject /\ queue[j].event.subject \in Addr
        /\ queue'[i].event.subject \in Subjects(queue')
    BY <1>4, <1>5, <2>1 DEF Subjects
  <2>3. ASSUME queue'[i].tx = 1 PROVE sends'[queue'[i].event.subject] = 0
    <3>1. j > n /\ queue[j].tx = 1
      BY <1>7, <2>1, <2>3
    <3>2. ~\E m \in 1 .. n : queue[m].event.subject = queue[j].event.subject
      BY <1>2, <3>1 DEF UniqueSubjects
    <3> QED BY <1>1, <1>4, <2>2, <3>1, <3>2
  <2> QED BY <1>7, <2>1, <2>3
<1>9. FreshFirst'
  <2>1. CASE Spent(n) # {}
    BY <1>3, <1>8, <2>1, SortedFreshFirst DEF FreshFirst
  <2>2. CASE Spent(n) = {}
    <3>1. queue' = d /\ k = 0 /\ DOMAIN d = DOMAIN queue
      BY <1>1, <1>2, <2>2, FS_EmptySet, DecrementedValues DEF d, k
    <3>2. ASSUME NEW i \in DOMAIN queue, NEW j \in DOMAIN queue, i < j, d[j].tx = 1
          PROVE  d[i].tx = 1
      <4>1. j > n /\ queue[j].tx = 1
        BY <1>2, <1>7, <3>1, <3>2
      <4>2. queue[i].tx = 1
        BY <3>2, <4>1 DEF SInv, FreshFirst
      <4>3. i \notin 1 .. n
        BY <2>2, <4>2 DEF Spent
      <4> QED BY <1>2, <1>5, <4>2, <4>3
    <3> QED BY <3>1, <3>2 DEF FreshFirst
  <2> QED BY <2>1, <2>2
<1>10. sends' \in [Addr -> Nat]
  BY <1>1 DEF SInv
<1> QED BY <1>2, <1>3, <1>8, <1>9, <1>10 DEF SInv, QInv

\* The queue of the server keeps its order.
LEMMA ServerInv ==
  ASSUME ServerUse
  PROVE  Spec => []SInv
<1>1. Init => SInv
  BY GossipAssumption DEF ServerUse, Init, SInv, QInv, UniqueSubjects, FreshFirst
<1>2. SInv /\ [Next]_vars => SInv'
  <2> SUFFICES ASSUME SInv, [Next]_vars PROVE SInv'
    OBVIOUS
  <2>1. ASSUME NEW item \in Inputs, Add(item) PROVE SInv'
    BY <2>1, AddServer, GossipAssumption DEF Add
  <2>2. ASSUME NEW maxLength \in MaxLengths, NextBatch(maxLength) PROVE SInv'
    BY <2>2, NextServer
  <2>3. CASE UNCHANGED vars
    BY <2>3 DEF vars, SInv, QInv, UniqueSubjects, FreshFirst
  <2> QED BY <2>1, <2>2, <2>3 DEF Next, ServerUse
<1> QED BY <1>1, <1>2, PTL DEF Spec

\* As the server uses the queue, the rumours about to be dropped are in front of all
\* others, for any number of members and however many fit in a datagram.
THEOREM FreshInFront ==
  ASSUME ServerUse
  PROVE  Spec => []FreshFirst
<1>1. SInv => FreshFirst
  BY DEF SInv
<1> QED BY <1>1, ServerInv, PTL

\* As the server uses the queue, deleting the wrong positions does no harm: a rumour
\* leaves the queue only in a call of Next that returns it.
THEOREM DroppedWhenSpent ==
  ASSUME ServerUse
  PROVE  Spec => DroppedOnlyWhenSpent
<1> DEFINE Dropped == \A a \in Subjects(queue) \ Subjects(queue') :
                        /\ \E e \in Range(batch') : e.subject = a
                        /\ sends[a] + 1 = maxTx
<1>1. SInv /\ [Next]_vars => [Dropped]_vars
  <2> SUFFICES ASSUME SInv, Next, NEW a \in Subjects(queue) \ Subjects(queue')
               PROVE  /\ \E e \in Range(batch') : e.subject = a
                      /\ sends[a] + 1 = maxTx
    BY DEF vars
  <2>1. queue \in Seq(Item) /\ UniqueSubjects /\ maxTx = 1
    BY DEF SInv, QInv
  <2>2. PICK j \in DOMAIN queue : queue[j].event.subject = a
    BY DEF Subjects
  <2>3. \A i \in DOMAIN queue' : queue'[i].event.subject # a
    BY DEF Subjects
  <2>4. ASSUME NEW item \in Inputs, AddNew(item) PROVE FALSE
    BY <2>1, <2>2, <2>3, <2>4, AddNewValues, GossipAssumption
  <2>5. ASSUME NEW item \in Inputs, AddOver(item) PROVE FALSE
    <3>1. item \in Event /\ [event |-> item, tx |-> 0].event = item
      BY GossipAssumption
    <3>2. \E i \in DOMAIN queue' : queue'[i] = [event |-> item, tx |-> 0]
      BY <2>1, <2>5, <3>1, AddOverValues
    <3>3. PICK k \in DOMAIN queue :
            /\ queue[k].event.subject = item.subject
            /\ \A m \in DOMAIN queue : m # k => \E i \in DOMAIN queue' : queue'[i] = queue[m]
      BY <2>1, <2>5, <3>1, AddOverValues
    <3> QED BY <2>2, <2>3, <3>1, <3>2, <3>3
  <2>6. ASSUME NEW maxLength \in MaxLengths, NextBatch(maxLength)
        PROVE  /\ \E e \in Range(batch') : e.subject = a
               /\ sends[a] + 1 = maxTx
    <3>1. PICK n \in 0 .. Len(queue) :
            /\ queue' \in IF Spent(n) = {} THEN {Decremented(n)} ELSE Reorderings(AfterRemoval(n))
            /\ batch' = [i \in 1 .. n |-> queue[i].event]
      BY <2>6 DEF NextBatch
    <3> DEFINE k == Cardinality(Spent(n))
    <3>2. \A m \in DOMAIN queue : m > k => \E i \in DOMAIN queue' : queue'[i] = Decremented(n)[m]
      BY <2>1, <3>1, NextValues
    <3>3. \A m \in DOMAIN queue : Decremented(n)[m].event = queue[m].event
      BY <2>1, DecrementedValues
    <3>4. ~(j > k)
      BY <2>2, <2>3, <3>2, <3>3
    <3>5. Spent(n) = 1 .. k /\ k \in 0 .. n
      BY SpentInFront
    <3> HIDE DEF k
    <3>6. j \in Spent(n)
      BY <2>1, <3>4, <3>5
    <3>7. j \in 1 .. n /\ queue[j].tx = 1
      BY <3>6 DEF Spent
    <3>8. batch'[j].subject = a /\ batch'[j] \in Range(batch')
      BY <2>2, <3>1, <3>7 DEF Range
    <3>9. sends[a] = 0
      BY <2>2, <3>7 DEF SInv
    <3> QED BY <2>1, <3>8, <3>9
  <2> QED BY <2>4, <2>5, <2>6 DEF Next, Add, ServerUse
<1>2. DroppedOnlyWhenSpent <=> [][Dropped]_vars
  BY DEF DroppedOnlyWhenSpent
<1> QED BY <1>1, <1>2, ServerInv, PTL DEF Spec

-----------------------------------------------------------------------------
(* The queue of the server implements module Gossip.                        *)

NoSlot == [kind |-> "None", incarnation |-> 0, fresh |-> FALSE]

\* The rumour an item of the queue stands for.
SlotFor(item) ==
  [kind |-> item.event.kind, incarnation |-> item.event.incarnation, fresh |-> item.tx = 1]

\* The rumour a queue holds about a.
SlotIn(q, a) ==
  IF a \notin Subjects(q) THEN NoSlot
  ELSE SlotFor(q[CHOOSE i \in DOMAIN q : q[i].event.subject = a])

\* Without two items about a member, the rumour about it is the one of its item.
LEMMA SlotHeld ==
  ASSUME NEW q, Distinct(q), NEW i \in DOMAIN q
  PROVE  SlotIn(q, q[i].event.subject) = SlotFor(q[i])
<1>1. q[i].event.subject \in Subjects(q)
  BY DEF Subjects
<1>2. (CHOOSE j \in DOMAIN q : q[j].event.subject = q[i].event.subject) = i
  BY DEF Distinct
<1> QED BY <1>1, <1>2 DEF SlotIn

\* Without an item about a member there is no rumour about it.
LEMMA SlotFree ==
  ASSUME NEW q, NEW a, \A i \in DOMAIN q : q[i].event.subject # a
  PROVE  SlotIn(q, a) = NoSlot
BY DEF SlotIn, Subjects

\* The refinement mapping, before and after a step.
LEMMA Mapping ==
  /\ \A a : SlotOf(a) = SlotIn(queue, a)
  /\ \A a : SlotOf(a)' = SlotIn(queue', a)
BY DEF SlotOf, SlotIn, SlotFor, NoSlot

\* The fields of a rumour and of its item.
LEMMA SlotForFields ==
  ASSUME NEW item \in Item
  PROVE  /\ SlotFor(item).kind = item.event.kind /\ item.event.kind \in Kind
         /\ SlotFor(item).incarnation = item.event.incarnation
         /\ SlotFor(item).fresh <=> item.tx = 1
         /\ item.event.subject \in Addr
         /\ item.event = [kind |-> item.event.kind, subject |-> item.event.subject,
                          incarnation |-> item.event.incarnation]
<1>1. item.event \in Event
  BY DEF Item
<1>2. item.event.kind \in Kind /\ item.event.subject \in Addr
  BY <1>1 DEF Event
<1>3. item.event = [kind |-> item.event.kind, subject |-> item.event.subject,
                    incarnation |-> item.event.incarnation]
  BY <1>1 DEF Event
<1>4. SlotFor(item).kind = item.event.kind /\ SlotFor(item).incarnation = item.event.incarnation
  BY DEF SlotFor
<1>5. SlotFor(item).fresh <=> item.tx = 1
  BY DEF SlotFor
<1> QED BY <1>2, <1>3, <1>4, <1>5

\* Add is an Add of module Gossip.
LEMMA AddRefines ==
  ASSUME SInv, NEW item \in Event, Add(item)
  PROVE  Rumours!Add(item)
<1>1. queue \in Seq(Item) /\ UniqueSubjects /\ maxTx = 1 /\ item.subject \in Addr /\ item.kind \in Kind
      /\ Distinct(queue)
  BY DEF SInv, QInv, Event, UniqueSubjects, Distinct
<1>2. Range(batch') = {}
  BY DEF Add, Range
<1> DEFINE slot(q) == [a \in Addr |-> SlotIn(q, a)]
           added == Rumours!AddToSlot(SlotIn(queue, item.subject), item.kind, item.incarnation)
<1>3. SlotIn(queue', item.subject) = added
      /\ \A a \in Addr : a # item.subject => SlotIn(queue', a) = SlotIn(queue, a)
  <2>1. CASE AddNew(item)
    <3> DEFINE new == [event |-> item, tx |-> maxTx]
    <3>1. /\ UniqueSubjects'
          /\ \A i \in DOMAIN queue' : queue'[i] = new \/ \E j \in DOMAIN queue : queue'[i] = queue[j]
          /\ \A j \in DOMAIN queue : /\ queue[j].event.subject # item.subject
                                     /\ \E i \in DOMAIN queue' : queue'[i] = queue[j]
          /\ \E i \in DOMAIN queue' : queue'[i] = new
      BY <1>1, <2>1, AddNewValues
    <3>2. new.event = item /\ SlotFor(new) = [kind |-> item.kind, incarnation |-> item.incarnation, fresh |-> TRUE]
      BY <1>1 DEF SlotFor
    <3>3. Distinct(queue')
      BY <3>1 DEF UniqueSubjects, Distinct
    <3> HIDE DEF new
    <3>4. SlotIn(queue', item.subject) = SlotFor(new)
      <4>1. PICK i \in DOMAIN queue' : queue'[i] = new
        BY <3>1
      <4>2. SlotIn(queue', queue'[i].event.subject) = SlotFor(queue'[i])
        BY <3>3, SlotHeld
      <4> QED BY <3>2, <4>1, <4>2
    <3>5. SlotIn(queue, item.subject) = NoSlot
      BY <3>1, SlotFree
    <3>6. added = SlotFor(new)
      BY <3>2, <3>5 DEF Rumours!AddToSlot, Rumours!Held, NoSlot
    <3>7. ASSUME NEW a \in Addr, a # item.subject PROVE SlotIn(queue', a) = SlotIn(queue, a)
      <4>1. CASE \E j \in DOMAIN queue : queue[j].event.subject = a
        <5>1. PICK j \in DOMAIN queue : queue[j].event.subject = a
          BY <4>1
        <5>2. PICK i \in DOMAIN queue' : queue'[i] = queue[j]
          BY <3>1
        <5>3. SlotIn(queue, a) = SlotFor(queue[j]) /\ SlotIn(queue', a) = SlotFor(queue'[i])
          BY <1>1, <3>3, <5>1, <5>2, SlotHeld
        <5> QED BY <5>2, <5>3
      <4>2. CASE ~\E j \in DOMAIN queue : queue[j].event.subject = a
        <5>1. \A i \in DOMAIN queue' : queue'[i].event.subject # a
          BY <3>1, <3>2, <3>7, <4>2
        <5> QED BY <4>2, <5>1, SlotFree
      <4> QED BY <4>1, <4>2
    <3> QED BY <3>4, <3>6, <3>7
  <2>2. CASE AddOver(item)
    <3> DEFINE new == [event |-> item, tx |-> 0]
    <3>1. UniqueSubjects' /\ \E i \in DOMAIN queue' : queue'[i] = new
      BY <1>1, <2>2, AddOverValues
    <3>2. PICK k \in DOMAIN queue :
            /\ queue[k].event.subject = item.subject /\ Invalidates(item, queue[k].event)
            /\ \A i \in DOMAIN queue' :
                 queue'[i] = new \/ \E j \in DOMAIN queue : j # k /\ queue'[i] = queue[j]
            /\ \A j \in DOMAIN queue : j # k => \E i \in DOMAIN queue' : queue'[i] = queue[j]
      BY <1>1, <2>2, AddOverValues
    <3>3. new.event = item /\ SlotFor(new) = [kind |-> item.kind, incarnation |-> item.incarnation, fresh |-> FALSE]
      <4>1. new.event = item /\ new.tx = 0 /\ (0 = 1) = FALSE
        OBVIOUS
      <4> QED BY <4>1 DEF SlotFor
    <3>4. Distinct(queue')
      BY <3>1 DEF UniqueSubjects, Distinct
    <3> HIDE DEF new
    <3>5. SlotIn(queue', item.subject) = SlotFor(new)
      BY <3>1, <3>3, <3>4, SlotHeld
    <3>6. SlotIn(queue, item.subject) = SlotFor(queue[k])
      BY <1>1, <3>2, SlotHeld
    <3>7. added = SlotFor(new)
      <4> DEFINE s == SlotFor(queue[k])
      <4>1. queue[k] \in Item
        BY <1>1
      <4>2. s.kind = queue[k].event.kind /\ s.kind # "None" /\ s.incarnation = queue[k].event.incarnation
        BY <4>1, SlotForFields DEF Kind
      <4>3. Rumours!Invalidates([kind |-> item.kind, incarnation |-> item.incarnation], s)
        <5>1. [kind |-> item.kind, incarnation |-> item.incarnation].kind = item.kind
              /\ [kind |-> item.kind, incarnation |-> item.incarnation].incarnation = item.incarnation
          OBVIOUS
        <5> HIDE DEF s
        <5> QED BY <3>2, <4>2, <5>1
          DEF Invalidates, Rumours!Invalidates, OverridesOnTie, Rumours!OverridesOnTie,
              YieldsToFaulty, Rumours!YieldsToFaulty, Kind, Rumours!Kind
      <4>4. Rumours!Held(s)
        BY <4>2 DEF Rumours!Held
      <4> HIDE DEF s
      <4>5. Rumours!AddToSlot(s, item.kind, item.incarnation)
              = [kind |-> item.kind, incarnation |-> item.incarnation, fresh |-> FALSE]
        BY <4>3, <4>4 DEF Rumours!AddToSlot
      <4> QED BY <3>3, <3>6, <4>5 DEF s
    <3>8. ASSUME NEW a \in Addr, a # item.subject PROVE SlotIn(queue', a) = SlotIn(queue, a)
      <4>1. CASE \E j \in DOMAIN queue : queue[j].event.subject = a
        <5>1. PICK j \in DOMAIN queue : queue[j].event.subject = a
          BY <4>1
        <5>2. PICK i \in DOMAIN queue' : queue'[i] = queue[j]
          BY <3>2, <3>8, <5>1
        <5>3. SlotIn(queue, a) = SlotFor(queue[j]) /\ SlotIn(queue', a) = SlotFor(queue'[i])
          BY <1>1, <3>4, <5>1, <5>2, SlotHeld
        <5> QED BY <5>2, <5>3
      <4>2. CASE ~\E j \in DOMAIN queue : queue[j].event.subject = a
        <5>1. \A i \in DOMAIN queue' : queue'[i].event.subject # a
          BY <3>2, <3>3, <3>8, <4>2
        <5> QED BY <4>2, <5>1, SlotFree
      <4> QED BY <4>1, <4>2
    <3> QED BY <3>5, <3>7, <3>8
  <2> QED BY <2>1, <2>2 DEF Add
<1> HIDE DEF added
<1>4. slot(queue') = [slot(queue) EXCEPT ![item.subject] = added]
  BY <1>1, <1>3
<1>5. slot(queue)[item.subject] = SlotIn(queue, item.subject)
  BY <1>1
<1>6. slot(queue') = [slot(queue) EXCEPT ![item.subject] =
                        Rumours!AddToSlot(@, item.kind, item.incarnation)]
  BY <1>4, <1>5 DEF added
<1>7. [a \in Addr |-> SlotOf(a)] = slot(queue) /\ [a \in Addr |-> SlotOf(a)]' = slot(queue')
  BY Mapping
<1> HIDE DEF slot
<1> QED BY <1>2, <1>6, <1>7 DEF Rumours!Add

\* Next hands out the rumours of the items it returns.
LEMMA NextRefines ==
  ASSUME SInv, NEW maxLength \in MaxLengths, NextBatch(maxLength)
  PROVE  \E B \in SUBSET Addr : Rumours!HandOut(B)
<1>1. PICK n \in 0 .. Len(queue) :
        /\ queue' \in IF Spent(n) = {} THEN {Decremented(n)} ELSE Reorderings(AfterRemoval(n))
        /\ batch' = [i \in 1 .. n |-> queue[i].event]
  BY DEF NextBatch
<1> DEFINE k == Cardinality(Spent(n))
           d == Decremented(n)
           B == {queue[i].event.subject : i \in 1 .. n}
           slot(q) == [a \in Addr |-> SlotIn(q, a)]
<1>2. queue \in Seq(Item) /\ UniqueSubjects /\ DOMAIN queue = 1 .. Len(queue) /\ Len(queue) \in Nat
      /\ Distinct(queue) /\ 1 .. n \subseteq DOMAIN queue
  BY DEF SInv, QInv, UniqueSubjects, Distinct
<1>3. \A i \in DOMAIN queue : queue[i] \in Item /\ queue[i].tx \in Int /\ queue[i].tx <= 1
                              /\ queue[i].event.subject \in Addr
  <2> SUFFICES ASSUME NEW i \in DOMAIN queue
               PROVE  queue[i] \in Item /\ queue[i].tx \in Int /\ queue[i].event.subject \in Addr
    BY DEF SInv
  <2>1. queue[i] \in Item
    BY <1>2
  <2> QED BY <2>1 DEF Item, Event
<1>4. /\ UniqueSubjects'
      /\ \A i \in DOMAIN queue' : \E j \in DOMAIN queue : j > k /\ queue'[i] = d[j]
      /\ \A j \in DOMAIN queue : j > k => \E i \in DOMAIN queue' : queue'[i] = d[j]
  BY <1>1, <1>2, NextValues
<1>5. \A i \in DOMAIN queue :
        /\ d[i].event = queue[i].event
        /\ d[i].tx = IF i <= n /\ queue[i].tx # 1 THEN queue[i].tx - 1 ELSE queue[i].tx
  BY <1>2, DecrementedValues
<1>6. /\ Spent(n) = 1 .. k /\ k \in 0 .. n
      /\ \A j \in DOMAIN queue : j > k => j > n \/ queue[j].tx # 1
  BY SpentInFront
<1>7. \A i \in 1 .. n : i \in Spent(n) <=> queue[i].tx = 1
  BY DEF Spent
<1>8. Distinct(queue')
  BY <1>4 DEF UniqueSubjects, Distinct
<1> HIDE DEF k, d
<1>9. ASSUME NEW i \in DOMAIN queue
      PROVE  /\ SlotIn(queue, queue[i].event.subject) = SlotFor(queue[i])
             /\ SlotFor(queue[i]).fresh <=> queue[i].tx = 1
             /\ SlotFor(queue[i]).kind # "None"
             /\ Rumours!EventAbout(queue[i].event.subject, SlotFor(queue[i])) = queue[i].event
  <2>1. SlotIn(queue, queue[i].event.subject) = SlotFor(queue[i])
    BY <1>2, SlotHeld
  <2>2. queue[i] \in Item
    BY <1>3
  <2> QED BY <2>1, <2>2, SlotForFields DEF Rumours!EventAbout, Kind
<1>10. B \in SUBSET Addr
  BY <1>2, <1>3
<1>11. \A a \in B : Rumours!Held(slot(queue)[a])
  BY <1>2, <1>9, <1>10 DEF Rumours!Held
<1>12. ASSUME NEW a \in Addr \ B, slot(queue)[a].fresh, NEW b \in B PROVE slot(queue)[b].fresh
  <2>1. PICK j \in DOMAIN queue : queue[j].event.subject = a
    <3>1. ~NoSlot.fresh
      BY DEF NoSlot
    <3> QED BY <1>12, <3>1, SlotFree
  <2>2. queue[j].tx = 1 /\ j \notin 1 .. n
    BY <1>9, <1>12, <2>1
  <2>3. PICK i \in 1 .. n : queue[i].event.subject = b
    OBVIOUS
  <2>4. i < j /\ i \in DOMAIN queue
    BY <1>2, <2>2
  <2>5. queue[i].tx = 1
    BY <2>2, <2>4 DEF SInv, FreshFirst
  <2> QED BY <1>9, <1>10, <2>3, <2>4, <2>5
<1>13. Range(batch') = {Rumours!EventAbout(a, slot(queue)[a]) : a \in B}
  <2>1. Range(batch') = {queue[i].event : i \in 1 .. n}
    BY <1>1 DEF Range
  <2>2. \A i \in 1 .. n : /\ queue[i].event.subject \in B /\ queue[i].event.subject \in Addr
                          /\ Rumours!EventAbout(queue[i].event.subject, SlotIn(queue, queue[i].event.subject))
                               = queue[i].event
    BY <1>2, <1>3, <1>9
  <2>3. ASSUME NEW i \in 1 .. n
        PROVE  Rumours!EventAbout(queue[i].event.subject, slot(queue)[queue[i].event.subject])
                 = queue[i].event
    <3>1. slot(queue)[queue[i].event.subject] = SlotIn(queue, queue[i].event.subject)
      BY <2>2
    <3> QED BY <2>2, <3>1
  <2>4. \A a \in B : \E i \in 1 .. n :
          a = queue[i].event.subject /\ Rumours!EventAbout(a, slot(queue)[a]) = queue[i].event
    BY <2>3
  <2>5. \A i \in 1 .. n : queue[i].event.subject \in B
    OBVIOUS
  <2> HIDE DEF B, slot
  <2> QED BY <2>1, <2>3, <2>4, <2>5
<1>14. ASSUME NEW a \in Addr
       PROVE  SlotIn(queue', a) = IF a \in B THEN Rumours!AfterHandOut(SlotIn(queue, a)) ELSE SlotIn(queue, a)
  <2>1. ASSUME NEW j \in DOMAIN queue, queue[j].event.subject = a, j > k
        PROVE  SlotIn(queue', a) = SlotFor(d[j])
    <3>1. PICK i \in DOMAIN queue' : queue'[i] = d[j]
      BY <1>4, <2>1
    <3>2. queue'[i].event.subject = a
      BY <1>5, <2>1, <3>1
    <3> QED BY <1>8, <3>1, <3>2, SlotHeld
  <2>2. ASSUME \A j \in DOMAIN queue : j > k => queue[j].event.subject # a
        PROVE  SlotIn(queue', a) = NoSlot
    BY <1>4, <1>5, <2>2, SlotFree
  <2>3. CASE a \in B
    <3>1. PICK i \in 1 .. n : queue[i].event.subject = a
      BY <2>3
    <3>2. i \in DOMAIN queue /\ SlotIn(queue, a) = SlotFor(queue[i])
      BY <1>2, <1>9, <3>1
    <3>3. CASE queue[i].tx = 1
      <4>1. i \in 1 .. k
        BY <1>6, <1>7, <3>3
      <4>2. \A j \in DOMAIN queue : j > k => queue[j].event.subject # a
        BY <1>2, <1>6, <3>1, <3>2, <4>1 DEF UniqueSubjects
      <4>3. SlotIn(queue', a) = NoSlot /\ SlotFor(queue[i]).fresh
        BY <1>9, <2>2, <3>2, <3>3, <4>2
      <4>4. Rumours!AfterHandOut(SlotFor(queue[i])) = NoSlot
        BY <4>3 DEF Rumours!AfterHandOut, Rumours!NoRumour, NoSlot
      <4> QED BY <2>3, <3>2, <4>3, <4>4
    <3>4. CASE queue[i].tx # 1
      <4>1. i \notin 1 .. k
        BY <1>6, <1>7, <3>4
      <4>2. i > k
        BY <1>6, <4>1
      <4>3. SlotIn(queue', a) = SlotFor(d[i])
        BY <2>1, <3>1, <3>2, <4>2
      <4>4. d[i].event = queue[i].event /\ d[i].tx # 1
        BY <1>3, <1>5, <3>2, <3>4
      <4>5. SlotFor(d[i]) = SlotFor(queue[i])
        BY <3>4, <4>4 DEF SlotFor
      <4>6. Rumours!AfterHandOut(SlotFor(queue[i])) = SlotFor(queue[i])
        BY <1>9, <3>2, <3>4 DEF Rumours!AfterHandOut
      <4> QED BY <2>3, <3>2, <4>3, <4>5, <4>6
    <3> QED BY <3>3, <3>4
  <2>4. CASE a \notin B
    <3>1. CASE \E j \in DOMAIN queue : queue[j].event.subject = a
      <4>1. PICK j \in DOMAIN queue : queue[j].event.subject = a
        BY <3>1
      <4>2. j \notin 1 .. n
        BY <2>4, <4>1
      <4>3. j > n /\ j > k
        BY <1>2, <1>6, <4>2
      <4>4. SlotFor(d[j]) = SlotFor(queue[j])
        BY <1>2, <1>5, <4>3 DEF SlotFor
      <4> QED BY <1>9, <2>1, <2>4, <4>1, <4>3, <4>4
    <3>2. CASE ~\E j \in DOMAIN queue : queue[j].event.subject = a
      BY <2>2, <2>4, <3>2, SlotFree
    <3> QED BY <3>1, <3>2
  <2> QED BY <2>3, <2>4
<1> HIDE DEF B
<1>15. slot(queue') = [a \in Addr |-> IF a \in B THEN Rumours!AfterHandOut(slot(queue)[a]) ELSE slot(queue)[a]]
  BY <1>14
<1>16. [a \in Addr |-> SlotOf(a)] = slot(queue) /\ [a \in Addr |-> SlotOf(a)]' = slot(queue')
  BY Mapping
<1> HIDE DEF slot
<1>17. Rumours!HandOut(B)
  BY <1>11, <1>12, <1>13, <1>15, <1>16 DEF Rumours!HandOut
<1> QED BY <1>10, <1>17

\* As the server uses it, the ordered queue of the code implements module Gossip: one
\* rumour per member, fresh ones handed out first and once, replacements kept.
THEOREM Refinement ==
  ASSUME ServerUse
  PROVE  Spec => ImplementsGossip
<1>1. Init => Rumours!Init
  <2> SUFFICES ASSUME Init PROVE Rumours!Init
    OBVIOUS
  <2>1. queue = << >> /\ batch = << >>
    BY DEF Init
  <2>2. \A a \in Addr : SlotOf(a) = NoSlot
    <3>1. \A i \in DOMAIN queue : FALSE
      BY <2>1
    <3> QED BY <3>1, SlotFree, Mapping
  <2>3. Range(batch) = {}
    BY <2>1 DEF Range
  <2> QED BY <2>2, <2>3 DEF Rumours!Init, Rumours!NoRumour, NoSlot
<1>2. SInv /\ [Next]_vars => [Rumours!Next]_(Rumours!vars)
  <2> SUFFICES ASSUME SInv, [Next]_vars PROVE [Rumours!Next]_(Rumours!vars)
    OBVIOUS
  <2>1. ASSUME NEW item \in Inputs, Add(item) PROVE Rumours!Next
    <3>1. item \in Event /\ Event = Rumours!Event
      BY GossipAssumption DEF Event, Rumours!Event, Kind, Rumours!Kind, Incarnation, Rumours!Incarnation
    <3>2. Rumours!Add(item)
      BY <2>1, <3>1, AddRefines
    <3> QED BY <3>1, <3>2 DEF Rumours!Next
  <2>2. ASSUME NEW maxLength \in MaxLengths, NextBatch(maxLength) PROVE Rumours!Next
    BY <2>2, NextRefines DEF Rumours!Next
  <2>3. CASE UNCHANGED vars
    <3>1. UNCHANGED [a \in Addr |-> SlotOf(a)]
      BY <2>3, Mapping DEF vars
    <3>2. UNCHANGED Range(batch)
      BY <2>3 DEF vars
    <3> QED BY <3>1, <3>2 DEF Rumours!vars
  <2> QED BY <2>1, <2>2, <2>3 DEF Next, ServerUse
<1> QED BY <1>1, <1>2, ServerInv, PTL DEF Spec, ImplementsGossip, Rumours!Spec

=============================================================================

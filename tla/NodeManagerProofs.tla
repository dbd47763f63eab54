-------------------------- MODULE NodeManagerProofs --------------------------
(***************************************************************************)
(* Proofs about NodeManager, for every set of addresses, every incarnation *)
(* and every suspicion timeout.                                            *)
(***************************************************************************)
EXTENDS NodeManager, FiniteSetTheorems, SequenceTheorems, TLAPS

USE DEF Incarnation, Period

\* A slot the methods of the nodeList may leave behind.
SlotOK(s) == s \in Slot /\ Consistent(s)

\* The slots of a stable node, and of one suspected in period p.
StableSlot(i) ==
  [type    |-> "Stable",
   stable  |-> [suspect |-> FALSE, incarnation |-> i],
   suspect |-> NoSuspect]

SuspectSlot(i, p, r) ==
  [type    |-> "Suspect",
   stable  |-> NoNode,
   suspect |-> [node |-> [suspect |-> TRUE, incarnation |-> i], at |-> p, remote |-> r]]

-----------------------------------------------------------------------------
(* The three maps agree about a hash in three ways only.                    *)

\* A slot that is well typed and consistent has one of three forms: the key is in no
\* map, in stable, or in suspects.
LEMMA SlotForms ==
  \A s : SlotOK(s) <=>
    \/ s = NoSlot
    \/ \E i \in Incarnation : s = StableSlot(i)
    \/ \E i \in Incarnation, p \in Period, r \in BOOLEAN : s = SuspectSlot(i, p, r)
<1> SUFFICES ASSUME NEW s
             PROVE  SlotOK(s) <=>
                      \/ s = NoSlot
                      \/ \E i \in Incarnation : s = StableSlot(i)
                      \/ \E i \in Incarnation, p \in Period, r \in BOOLEAN : s = SuspectSlot(i, p, r)
  OBVIOUS
<1> USE UintAssumption
        DEF SlotOK, Slot, Consistent, NoNode, NoSuspect, NoSlot, Node, SuspectNode,
            StableSlot, SuspectSlot
<1>1. ASSUME SlotOK(s), s.type = "Invalid" PROVE s = NoSlot
  BY <1>1
<1>2. ASSUME SlotOK(s), s.type = "Stable"
      PROVE  s.stable.incarnation \in Incarnation /\ s = StableSlot(s.stable.incarnation)
  <2>1. s.stable \in Node /\ s.stable.suspect = FALSE /\ s.suspect = NoSuspect
    BY <1>2
  <2> QED BY <2>1, <1>2
<1>3. ASSUME SlotOK(s), s.type = "Suspect"
      PROVE  /\ s.suspect.node.incarnation \in Incarnation
             /\ s.suspect.at \in Period /\ s.suspect.remote \in BOOLEAN
             /\ s = SuspectSlot(s.suspect.node.incarnation, s.suspect.at, s.suspect.remote)
  <2>1. s.suspect \in SuspectNode /\ s.suspect.node.suspect = TRUE /\ s.stable = NoNode
    BY <1>3
  <2>2. s.suspect.node = [suspect |-> TRUE, incarnation |-> s.suspect.node.incarnation]
    BY <2>1
  <2> QED BY <2>1, <2>2, <1>3
<1>4. SlotOK(NoSlot)
  OBVIOUS
<1>5. ASSUME NEW i \in Incarnation PROVE SlotOK(StableSlot(i))
  OBVIOUS
<1>6. ASSUME NEW i \in Incarnation, NEW p \in Period, NEW r \in BOOLEAN
      PROVE  SlotOK(SuspectSlot(i, p, r))
  OBVIOUS
<1>7. SlotOK(s) => s.type \in {"Invalid", "Stable", "Suspect"}
  OBVIOUS
<1> HIDE DEF SlotOK, NoSlot, StableSlot, SuspectSlot
<1> QED
  BY <1>1, <1>2, <1>3, <1>4, <1>5, <1>6, <1>7

-----------------------------------------------------------------------------
(* What the methods of the nodeList make of such slots.                     *)

\* The fields of the three forms.
LEMMA SlotFields ==
  /\ NoSlot.type = "Invalid" /\ NoSlot.suspect = NoSuspect
  /\ \A i \in Incarnation : StableSlot(i).type = "Stable" /\ StableSlot(i).suspect = NoSuspect
  /\ \A i \in Incarnation, p \in Period, r \in BOOLEAN :
       /\ SuspectSlot(i, p, r).type = "Suspect"
       /\ SuspectSlot(i, p, r).suspect # NoSuspect
       /\ SuspectSlot(i, p, r).suspect.at = p
       /\ SuspectSlot(i, p, r).suspect.remote = r
BY UintAssumption DEF NoSlot, StableSlot, SuspectSlot, NoSuspect, NoNode

\* The fields of the entries of Members.
LEMMA EntryFields ==
  /\ NoMember.state = "None"
  /\ \A i \in Incarnation : StableEntry(i).state = "Stable" /\ StableEntry(i).incarnation = i
  /\ \A i \in Incarnation, p \in Period, r \in BOOLEAN :
       /\ SuspectEntry(i, p, r).state = "Suspect"
       /\ SuspectEntry(i, p, r).incarnation = i
       /\ SuspectEntry(i, p, r).at = p
       /\ SuspectEntry(i, p, r).remote = r
BY DEF NoMember, StableEntry, SuspectEntry

\* The entry each form stands for.
LEMMA EntryValues ==
  /\ EntryOf(NoSlot) = NoMember
  /\ \A i \in Incarnation : EntryOf(StableSlot(i)) = StableEntry(i)
  /\ \A i \in Incarnation, p \in Period, r \in BOOLEAN :
       EntryOf(SuspectSlot(i, p, r)) = SuspectEntry(i, p, r)
BY DEF EntryOf, NoSlot, StableSlot, SuspectSlot

\* NodeByHash finds the node in the map nodeByType names.
LEMMA NodeByHashValues ==
  /\ NodeByHash(NoSlot) = NoNode
  /\ \A i \in Incarnation : NodeByHash(StableSlot(i)) = [suspect |-> FALSE, incarnation |-> i]
  /\ \A i \in Incarnation, p \in Period, r \in BOOLEAN :
       NodeByHash(SuspectSlot(i, p, r)) = [suspect |-> TRUE, incarnation |-> i]
BY DEF NodeByHash, NoSlot, StableSlot, SuspectSlot

\* unsafeTakeAndDelete and Delete leave nothing of a hash in any map.
LEMMA TakeValues ==
  /\ UnsafeTakeAndDelete(NoSlot) = NoSlot
  /\ \A i \in Incarnation : UnsafeTakeAndDelete(StableSlot(i)) = NoSlot
  /\ \A i \in Incarnation, p \in Period, r \in BOOLEAN :
       UnsafeTakeAndDelete(SuspectSlot(i, p, r)) = NoSlot
<1>1. UnsafeTakeAndDelete(NoSlot) = NoSlot
  BY UintAssumption
     DEF UnsafeTakeAndDelete, PutStable, PutSuspect, DropStable, DropSuspect, NoNode, NoSuspect, NoSlot, StableSlot, SuspectSlot
<1>2. ASSUME NEW i \in Incarnation
      PROVE  UnsafeTakeAndDelete(StableSlot(i)) = NoSlot
  BY UintAssumption
     DEF UnsafeTakeAndDelete, PutStable, PutSuspect, DropStable, DropSuspect, NoNode, NoSuspect, NoSlot, StableSlot, SuspectSlot
<1>3. ASSUME NEW i \in Incarnation, NEW p \in Period, NEW r \in BOOLEAN
      PROVE  UnsafeTakeAndDelete(SuspectSlot(i, p, r)) = NoSlot
  BY UintAssumption
     DEF UnsafeTakeAndDelete, PutStable, PutSuspect, DropStable, DropSuspect, NoNode, NoSuspect, NoSlot, StableSlot, SuspectSlot
<1> QED BY <1>1, <1>2, <1>3

\* Delete removes the key from all three maps.
LEMMA DeleteValues ==
  /\ SlotDeleted(NoSlot) = NoSlot
  /\ \A i \in Incarnation : SlotDeleted(StableSlot(i)) = NoSlot
  /\ \A i \in Incarnation, p \in Period, r \in BOOLEAN :
       SlotDeleted(SuspectSlot(i, p, r)) = NoSlot
BY DEF SlotDeleted, DropStable, DropSuspect, NoSlot, StableSlot, SuspectSlot, NoNode, NoSuspect

\* MarkStable moves a suspect to stable and leaves other nodes alone.
LEMMA MarkStableValues ==
  /\ SlotMarkedStable(NoSlot) = NoSlot
  /\ \A i \in Incarnation : SlotMarkedStable(StableSlot(i)) = StableSlot(i)
  /\ \A i \in Incarnation, p \in Period, r \in BOOLEAN :
       SlotMarkedStable(SuspectSlot(i, p, r)) = StableSlot(i)
<1>1. SlotMarkedStable(NoSlot) = NoSlot
  BY NodeByHashValues, TakeValues, UintAssumption
     DEF SlotMarkedStable, PutStable, PutSuspect, DropStable, DropSuspect, NoNode, NoSuspect, NoSlot, StableSlot, SuspectSlot
<1>2. ASSUME NEW i \in Incarnation
      PROVE  SlotMarkedStable(StableSlot(i)) = StableSlot(i)
  BY NodeByHashValues, TakeValues, UintAssumption
     DEF SlotMarkedStable, PutStable, PutSuspect, DropStable, DropSuspect, NoNode, NoSuspect, NoSlot, StableSlot, SuspectSlot
<1>3. ASSUME NEW i \in Incarnation, NEW p \in Period, NEW r \in BOOLEAN
      PROVE  SlotMarkedStable(SuspectSlot(i, p, r)) = StableSlot(i)
  <2> DEFINE x == SuspectSlot(i, p, r)
  <2>1. x.type = "Suspect"
    BY DEF SuspectSlot
  <2>2. NodeByHash(x) # NoNode /\ NodeByHash(x).incarnation = i
    BY NodeByHashValues, UintAssumption DEF NoNode
  <2>3. UnsafeTakeAndDelete(x) = NoSlot
    BY TakeValues
  <2>4. PutStable(NoSlot, [suspect |-> FALSE, incarnation |-> i]) = StableSlot(i)
    BY DEF PutStable, NoSlot, StableSlot
  <2> HIDE DEF x
  <2>5. SlotMarkedStable(x) = PutStable(NoSlot, [suspect |-> FALSE, incarnation |-> i])
    BY <2>1, <2>2, <2>3 DEF SlotMarkedStable
  <2> QED BY <2>4, <2>5 DEF x
<1> QED BY <1>1, <1>2, <1>3

\* MarkSuspect dates the suspicion of a stable node, and of no other.
LEMMA MarkSuspectValues ==
  ASSUME NEW q \in Period, NEW m \in BOOLEAN
  PROVE  /\ SlotMarkedSuspect(NoSlot, q, m) = NoSlot
         /\ \A i \in Incarnation : SlotMarkedSuspect(StableSlot(i), q, m) = SuspectSlot(i, q, m)
         /\ \A i \in Incarnation, p \in Period, r \in BOOLEAN :
              SlotMarkedSuspect(SuspectSlot(i, p, r), q, m) = SuspectSlot(i, p, r)
<1>1. SlotMarkedSuspect(NoSlot, q, m) = NoSlot
  BY NodeByHashValues, TakeValues, UintAssumption
     DEF SlotMarkedSuspect, PutStable, PutSuspect, DropStable, DropSuspect, NoNode, NoSuspect, NoSlot, StableSlot, SuspectSlot
<1>2. ASSUME NEW i \in Incarnation
      PROVE  SlotMarkedSuspect(StableSlot(i), q, m) = SuspectSlot(i, q, m)
  <2> DEFINE x == StableSlot(i)
             y == [node |-> [suspect |-> TRUE, incarnation |-> i], at |-> q, remote |-> m]
  <2>1. x.type = "Stable"
    BY DEF StableSlot
  <2>2. NodeByHash(x) # NoNode /\ NodeByHash(x).incarnation = i
    BY NodeByHashValues, UintAssumption DEF NoNode
  <2>3. UnsafeTakeAndDelete(x) = NoSlot
    BY TakeValues
  <2>4. PutSuspect(NoSlot, y) = SuspectSlot(i, q, m)
    BY DEF PutSuspect, NoSlot, SuspectSlot
  <2> HIDE DEF x
  <2>5. SlotMarkedSuspect(x, q, m) = PutSuspect(NoSlot, y)
    BY <2>1, <2>2, <2>3 DEF SlotMarkedSuspect
  <2> QED BY <2>4, <2>5 DEF x
<1>3. ASSUME NEW i \in Incarnation, NEW p \in Period, NEW r \in BOOLEAN
      PROVE  SlotMarkedSuspect(SuspectSlot(i, p, r), q, m) = SuspectSlot(i, p, r)
  BY NodeByHashValues, TakeValues, UintAssumption
     DEF SlotMarkedSuspect, PutStable, PutSuspect, DropStable, DropSuspect, NoNode, NoSuspect, NoSlot, StableSlot, SuspectSlot
<1> QED BY <1>1, <1>2, <1>3

\* unsafeAdd puts a new node into one map and skips a known one.
LEMMA UnsafeAddValues ==
  ASSUME NEW q \in Period, NEW j \in Incarnation
  PROVE  /\ UnsafeAdd(NoSlot, q, [suspect |-> FALSE, incarnation |-> j]) = StableSlot(j)
         /\ UnsafeAdd(NoSlot, q, [suspect |-> TRUE, incarnation |-> j]) = SuspectSlot(j, q, TRUE)
         /\ \A node : \A i \in Incarnation : UnsafeAdd(StableSlot(i), q, node) = StableSlot(i)
         /\ \A node : \A i \in Incarnation, p \in Period, r \in BOOLEAN :
              UnsafeAdd(SuspectSlot(i, p, r), q, node) = SuspectSlot(i, p, r)
BY DEF UnsafeAdd, PutStable, PutSuspect, DropStable, DropSuspect, NoNode, NoSuspect, NoSlot, StableSlot, SuspectSlot

\* UpdateOrCreate writes the incarnation through the pointer it has got.
LEMMA WithIncarnationValues ==
  ASSUME NEW j \in Incarnation
  PROVE  /\ \A i \in Incarnation : WithIncarnation(StableSlot(i), j) = StableSlot(j)
         /\ \A i \in Incarnation, p \in Period, r \in BOOLEAN :
              WithIncarnation(SuspectSlot(i, p, r), j) = SuspectSlot(j, p, r)
<1>2. ASSUME NEW i \in Incarnation
      PROVE  WithIncarnation(StableSlot(i), j) = StableSlot(j)
  BY NodeByHashValues
     DEF WithIncarnation, PutStable, PutSuspect, StableSlot, SuspectSlot
<1>3. ASSUME NEW i \in Incarnation, NEW p \in Period, NEW r \in BOOLEAN
      PROVE  WithIncarnation(SuspectSlot(i, p, r), j) = SuspectSlot(j, p, r)
  BY NodeByHashValues
     DEF WithIncarnation, PutStable, PutSuspect, StableSlot, SuspectSlot
<1> QED BY <1>2, <1>3

-----------------------------------------------------------------------------
(* Every method keeps the maps in agreement and does to the entry of a hash *)
(* what module Members says.                                                *)

\* Add keeps a slot consistent and acts as Added of Members.
LEMMA AddOK ==
  ASSUME NEW s, SlotOK(s), NEW q \in Period, NEW j \in Incarnation, NEW b \in BOOLEAN
  PROVE  /\ SlotOK(UnsafeAdd(s, q, [suspect |-> b, incarnation |-> j]))
         /\ EntryOf(UnsafeAdd(s, q, [suspect |-> b, incarnation |-> j]))
              = Added(EntryOf(s), q, j, b)
<1> DEFINE n == [suspect |-> b, incarnation |-> j]
<1>1. CASE s = NoSlot
  <2>1. ~IsMember(EntryOf(s))
    BY <1>1, EntryValues, EntryFields DEF IsMember
  <2>2. CASE b = FALSE
    <3>1. UnsafeAdd(s, q, n) = StableSlot(j)
      BY <1>1, <2>2, UnsafeAddValues
    <3>2. Added(EntryOf(s), q, j, b) = StableEntry(j)
      BY <2>1, <2>2 DEF Added
    <3> QED BY <3>1, <3>2, SlotForms, EntryValues
  <2>3. CASE b = TRUE
    <3>1. UnsafeAdd(s, q, n) = SuspectSlot(j, q, TRUE)
      BY <1>1, <2>3, UnsafeAddValues
    <3>2. Added(EntryOf(s), q, j, b) = SuspectEntry(j, q, TRUE)
      BY <2>1, <2>3 DEF Added
    <3> QED BY <3>1, <3>2, SlotForms, EntryValues
  <2> QED BY <2>2, <2>3
<1>2. ASSUME s.type # "Invalid", IsMember(EntryOf(s))
      PROVE  UnsafeAdd(s, q, n) = s /\ Added(EntryOf(s), q, j, b) = EntryOf(s)
  BY <1>2 DEF UnsafeAdd, Added
<1>3. ASSUME NEW i \in Incarnation, s = StableSlot(i)
      PROVE  s.type # "Invalid" /\ IsMember(EntryOf(s))
  BY <1>3, EntryValues, EntryFields, SlotFields, SMTT(30) DEF IsMember
<1>4. ASSUME NEW i \in Incarnation, NEW p \in Period, NEW r \in BOOLEAN, s = SuspectSlot(i, p, r)
      PROVE  s.type # "Invalid" /\ IsMember(EntryOf(s))
  BY <1>4, EntryValues, EntryFields, SlotFields DEF IsMember
<1> HIDE DEF n
<1>5. CASE s # NoSlot
  <2>1. s.type # "Invalid" /\ IsMember(EntryOf(s))
    BY <1>3, <1>4, <1>5, SlotForms
  <2> QED BY <1>2, <2>1 DEF n
<1> QED BY <1>1, <1>5

\* MarkStable keeps a slot consistent and acts as MarkedStable of Members.
LEMMA MarkStableOK ==
  ASSUME NEW s, SlotOK(s)
  PROVE  SlotOK(SlotMarkedStable(s)) /\ EntryOf(SlotMarkedStable(s)) = MarkedStable(EntryOf(s))
<1>1. CASE s = NoSlot
  BY <1>1, SlotForms, EntryValues, MarkStableValues, EntryFields DEF MarkedStable
<1>2. ASSUME NEW i \in Incarnation, s = StableSlot(i)
      PROVE  SlotMarkedStable(s) = s /\ MarkedStable(EntryOf(s)) = EntryOf(s)
  BY <1>2, EntryValues, MarkStableValues, EntryFields, SMTT(30) DEF MarkedStable
<1>3. ASSUME NEW i \in Incarnation, NEW p \in Period, NEW r \in BOOLEAN, s = SuspectSlot(i, p, r)
      PROVE  SlotMarkedStable(s) = StableSlot(i) /\ MarkedStable(EntryOf(s)) = StableEntry(i)
  BY <1>3, EntryValues, MarkStableValues, EntryFields DEF MarkedStable
<1> QED BY <1>1, <1>2, <1>3, SlotForms, EntryValues

\* MarkSuspect keeps a slot consistent and acts as MarkedSuspect of Members.
LEMMA MarkSuspectOK ==
  ASSUME NEW s, SlotOK(s), NEW q \in Period, NEW m \in BOOLEAN
  PROVE  /\ SlotOK(SlotMarkedSuspect(s, q, m))
         /\ EntryOf(SlotMarkedSuspect(s, q, m)) = MarkedSuspect(EntryOf(s), q, m)
<1>1. CASE s = NoSlot
  BY <1>1, SlotForms, EntryValues, MarkSuspectValues, EntryFields DEF MarkedSuspect
<1>2. ASSUME NEW i \in Incarnation, s = StableSlot(i)
      PROVE  /\ SlotMarkedSuspect(s, q, m) = SuspectSlot(i, q, m)
             /\ MarkedSuspect(EntryOf(s), q, m) = SuspectEntry(i, q, m)
  BY <1>2, EntryValues, MarkSuspectValues, EntryFields DEF MarkedSuspect
<1>3. ASSUME NEW i \in Incarnation, NEW p \in Period, NEW r \in BOOLEAN, s = SuspectSlot(i, p, r)
      PROVE  /\ SlotMarkedSuspect(s, q, m) = s
             /\ MarkedSuspect(EntryOf(s), q, m) = EntryOf(s)
  BY <1>3, EntryValues, MarkSuspectValues, EntryFields DEF MarkedSuspect
<1> QED BY <1>1, <1>2, <1>3, SlotForms, EntryValues

\* UpdateOrCreate keeps a slot consistent and acts as UpdatedOrCreated of Members.
LEMMA UpdateOrCreateOK ==
  ASSUME NEW s, SlotOK(s), NEW q \in Period, NEW j \in Incarnation, NEW b \in BOOLEAN
  PROVE  /\ SlotOK(SlotUpdatedOrCreated(s, q, [suspect |-> b, incarnation |-> j]))
         /\ EntryOf(SlotUpdatedOrCreated(s, q, [suspect |-> b, incarnation |-> j]))
              = UpdatedOrCreated(EntryOf(s), q, j, b)
<1> DEFINE n == [suspect |-> b, incarnation |-> j]
<1>0. n.suspect = b /\ n.incarnation = j
  OBVIOUS
<1>1. CASE s = NoSlot
  <2>1. SlotUpdatedOrCreated(s, q, n) = UnsafeAdd(s, q, n)
    BY <1>1, NodeByHashValues DEF SlotUpdatedOrCreated
  <2>2. UpdatedOrCreated(EntryOf(s), q, j, b) = Added(EntryOf(s), q, j, b)
    BY <1>1, EntryValues, EntryFields DEF UpdatedOrCreated, IsMember
  <2> QED BY <2>1, <2>2, AddOK
<1>2. ASSUME NEW i \in Incarnation, s = StableSlot(i)
      PROVE  /\ SlotOK(SlotUpdatedOrCreated(s, q, n))
             /\ EntryOf(SlotUpdatedOrCreated(s, q, n)) = UpdatedOrCreated(EntryOf(s), q, j, b)
  <2>1. NodeByHash(s) # NoNode /\ NodeByHash(s).incarnation = i
    BY <1>2, NodeByHashValues, UintAssumption DEF NoNode
  <2>2. IsMember(EntryOf(s)) /\ EntryOf(s).state = "Stable" /\ EntryOf(s).incarnation = i
    BY <1>2, EntryValues, EntryFields DEF IsMember
  <2>3. WithIncarnation(s, j) = StableSlot(j)
    BY <1>2, WithIncarnationValues
  <2> HIDE DEF n
  <2>4. CASE i > j
    BY <1>0, <2>1, <2>2, <2>4 DEF SlotUpdatedOrCreated, UpdatedOrCreated
  <2>5. CASE ~(i > j) /\ b = FALSE
    <3>1. SlotUpdatedOrCreated(s, q, n) = StableSlot(j)
      BY <1>0, <2>1, <2>3, <2>5, MarkStableValues DEF SlotUpdatedOrCreated
    <3>2. UpdatedOrCreated(EntryOf(s), q, j, b) = StableEntry(j)
      BY <2>2, <2>5 DEF UpdatedOrCreated
    <3> QED BY <3>1, <3>2, SlotForms, EntryValues, SMTT(30)
  <2>6. CASE ~(i > j) /\ b = TRUE
    <3>0. n.suspect = TRUE
      BY <1>0, <2>6
    <3>3. SlotUpdatedOrCreated(s, q, n) = SlotMarkedSuspect(StableSlot(j), q, TRUE)
      BY <1>0, <2>1, <2>3, <2>6, <3>0 DEF SlotUpdatedOrCreated
    <3>4. SlotMarkedSuspect(StableSlot(j), q, TRUE) = SuspectSlot(j, q, TRUE)
      <4>1. TRUE \in BOOLEAN
        OBVIOUS
      <4> QED BY <4>1, MarkSuspectValues, Zenon
    <3>1. SlotUpdatedOrCreated(s, q, n) = SuspectSlot(j, q, TRUE)
      BY <3>3, <3>4, Zenon
    <3>2. UpdatedOrCreated(EntryOf(s), q, j, b) = SuspectEntry(j, q, TRUE)
      BY <2>2, <2>6 DEF UpdatedOrCreated
    <3> QED BY <3>1, <3>2, SlotForms, EntryValues
  <2> QED BY <2>4, <2>5, <2>6
<1>3. ASSUME NEW i \in Incarnation, NEW p \in Period, NEW r \in BOOLEAN, s = SuspectSlot(i, p, r)
      PROVE  /\ SlotOK(SlotUpdatedOrCreated(s, q, n))
             /\ EntryOf(SlotUpdatedOrCreated(s, q, n)) = UpdatedOrCreated(EntryOf(s), q, j, b)
  <2>1. NodeByHash(s) # NoNode /\ NodeByHash(s).incarnation = i
    BY <1>3, NodeByHashValues, UintAssumption DEF NoNode
  <2>2. /\ IsMember(EntryOf(s)) /\ EntryOf(s).state = "Suspect" /\ EntryOf(s).incarnation = i
        /\ EntryOf(s).at = p /\ EntryOf(s).remote = r
    BY <1>3, EntryValues, EntryFields DEF IsMember
  <2>3. WithIncarnation(s, j) = SuspectSlot(j, p, r)
    BY <1>3, WithIncarnationValues
  <2> HIDE DEF n
  <2>4. CASE i > j
    BY <1>0, <2>1, <2>2, <2>4, SMTT(30) DEF SlotUpdatedOrCreated, UpdatedOrCreated
  <2>5. CASE ~(i > j) /\ b = FALSE
    <3>1. SlotUpdatedOrCreated(s, q, n) = StableSlot(j)
      BY <1>0, <2>1, <2>3, <2>5, MarkStableValues DEF SlotUpdatedOrCreated
    <3>2. UpdatedOrCreated(EntryOf(s), q, j, b) = StableEntry(j)
      BY <2>2, <2>5 DEF UpdatedOrCreated
    <3> QED BY <3>1, <3>2, SlotForms, EntryValues
  <2>6. CASE ~(i > j) /\ b = TRUE
    <3>0. n.suspect = TRUE
      BY <1>0, <2>6
    <3>3. SlotUpdatedOrCreated(s, q, n) = SlotMarkedSuspect(SuspectSlot(j, p, r), q, TRUE)
      BY <1>0, <2>1, <2>3, <2>6, <3>0, SMTT(30) DEF SlotUpdatedOrCreated
    <3>4. SlotMarkedSuspect(SuspectSlot(j, p, r), q, TRUE) = SuspectSlot(j, p, r)
      <4>1. SuspectSlot(j, p, r).type = "Suspect"
        BY SlotFields
      <4> QED BY <4>1 DEF SlotMarkedSuspect
    <3>1. SlotUpdatedOrCreated(s, q, n) = SuspectSlot(j, p, r)
      BY <3>3, <3>4, Zenon
    <3>2. UpdatedOrCreated(EntryOf(s), q, j, b) = SuspectEntry(j, p, r)
      BY <2>2, <2>6 DEF UpdatedOrCreated
    <3> QED BY <3>1, <3>2, SlotForms, EntryValues
  <2> QED BY <2>4, <2>5, <2>6
<1> HIDE DEF n
<1>4. SlotOK(SlotUpdatedOrCreated(s, q, n))
        /\ EntryOf(SlotUpdatedOrCreated(s, q, n)) = UpdatedOrCreated(EntryOf(s), q, j, b)
  BY <1>1, <1>2, <1>3, SlotForms DEF n
<1> QED BY <1>4 DEF n

\* WrapIncarnation keeps a slot consistent and acts as its counterpart in Members.
LEMMA WrapOK ==
  ASSUME NEW s, SlotOK(s), NEW q \in Period, NEW j \in Incarnation
  PROVE  /\ SlotOK(SlotWrapped(s, q, [suspect |-> FALSE, incarnation |-> j]))
         /\ EntryOf(SlotWrapped(s, q, [suspect |-> FALSE, incarnation |-> j]))
              = WrappedIncarnation(j)
<1> DEFINE n == [suspect |-> FALSE, incarnation |-> j]
<1>2. ASSUME SlotMarkedStable(s) \in {StableSlot(i) : i \in Incarnation}, NodeByHash(s) # NoNode
      PROVE  SlotWrapped(s, q, n) = StableSlot(j)
  BY <1>2, WithIncarnationValues DEF SlotWrapped
<1>3. ASSUME NEW i \in Incarnation, s = StableSlot(i)
      PROVE  SlotMarkedStable(s) = StableSlot(i) /\ NodeByHash(s) # NoNode
  BY <1>3, MarkStableValues, NodeByHashValues, UintAssumption DEF NoNode
<1>4. ASSUME NEW i \in Incarnation, NEW p \in Period, NEW r \in BOOLEAN, s = SuspectSlot(i, p, r)
      PROVE  SlotMarkedStable(s) = StableSlot(i) /\ NodeByHash(s) # NoNode
  BY <1>4, MarkStableValues, NodeByHashValues, UintAssumption DEF NoNode
<1>5. CASE s = NoSlot
  <2>1. SlotWrapped(s, q, n) = UnsafeAdd(NoSlot, q, n)
    BY <1>5, NodeByHashValues DEF SlotWrapped
  <2>2. UnsafeAdd(NoSlot, q, n) = StableSlot(j)
    BY UnsafeAddValues
  <2> QED BY <2>1, <2>2, SlotForms, EntryValues DEF WrappedIncarnation
<1>6. CASE s # NoSlot
  <2>1. SlotWrapped(s, q, n) = StableSlot(j)
    BY <1>2, <1>3, <1>4, <1>6, SlotForms
  <2> QED BY <2>1, SlotForms, EntryValues DEF WrappedIncarnation
<1> QED BY <1>5, <1>6

\* MarkFaulty and Delete forget a node, whatever was known about it.
LEMMA RemoveOK ==
  ASSUME NEW s, SlotOK(s)
  PROVE  SlotMarkedFaulty(s) = NoSlot /\ SlotDeleted(s) = NoSlot
BY SlotForms, TakeValues, DeleteValues DEF SlotMarkedFaulty

\* ExpiredSuspects picks the same suspects in a slot and in its entry.
LEMMA ExpiredOK ==
  ASSUME NEW s, SlotOK(s), NEW q \in Period
  PROVE  /\ SlotExpired(s, q) <=> Expired(EntryOf(s), q)
         /\ SlotExpired(s, q) => s.suspect.remote = EntryOf(s).remote
<1>1. CASE s = NoSlot
  BY <1>1, EntryValues, EntryFields, SlotFields DEF SlotExpired, Expired
<1>2. ASSUME NEW i \in Incarnation, s = StableSlot(i)
      PROVE  ~SlotExpired(s, q) /\ ~Expired(EntryOf(s), q)
  BY <1>2, EntryValues, EntryFields, SlotFields DEF SlotExpired, Expired
<1>3. ASSUME NEW i \in Incarnation, NEW p \in Period, NEW r \in BOOLEAN, s = SuspectSlot(i, p, r)
      PROVE  /\ SlotExpired(s, q) <=> Expired(EntryOf(s), q)
             /\ s.suspect.remote = EntryOf(s).remote
  <2>1. s.suspect # NoSuspect /\ s.suspect.at = p /\ s.suspect.remote = r
    BY <1>3, SlotFields
  <2>2. EntryOf(s).state = "Suspect" /\ EntryOf(s).at = p /\ EntryOf(s).remote = r
    BY <1>3, EntryValues, EntryFields
  <2> QED BY <2>1, <2>2 DEF SlotExpired, Expired
<1> QED BY <1>1, <1>2, <1>3, SlotForms

-----------------------------------------------------------------------------
(* Ping lists.                                                              *)

\* unsafePreparePingList lists nodes of the maps, each once.
LEMMA PreparedPingList ==
  ASSUME NEW S, IsFiniteSet(S), NEW q \in SetToSeqs(S)
  PROVE  q \in Seq(S) /\ IsInjective(q)
<1>1. Cardinality(S) \in Nat
  BY FS_CardinalityType
<1> DEFINE D == 1 .. Cardinality(S)
<1>2. q \in [D -> S] /\ \A i, j \in D : i # j => q[i] # q[j]
  BY DEF SetToSeqs
<1>3. q \in Seq(S)
  BY <1>1, <1>2
<1>4. IsInjective(q)
  BY <1>2 DEF IsInjective
<1> QED BY <1>3, <1>4

\* NextPing takes the head of the ping list; the rest is still free of duplicates.
LEMMA TailPingList ==
  ASSUME NEW S, NEW q \in Seq(S), IsInjective(q), q # << >>
  PROVE  Tail(q) \in Seq(S) /\ IsInjective(Tail(q))
<1>1. Tail(q) \in Seq(S) /\ Len(Tail(q)) = Len(q) - 1 /\ Len(q) \in Nat \ {0}
  OBVIOUS
<1>2. \A i \in 1 .. Len(q) - 1 : Tail(q)[i] = q[i + 1]
  OBVIOUS
<1>3. DOMAIN Tail(q) = 1 .. Len(q) - 1 /\ DOMAIN q = 1 .. Len(q)
  BY <1>1
<1>4. \A i, j \in 1 .. Len(q) - 1 : q[i + 1] = q[j + 1] => i = j
  BY <1>1, <1>3 DEF IsInjective
<1> QED BY <1>1, <1>2, <1>3, <1>4 DEF IsInjective

\* MarkFaulty removes a node from a list that has it once.
LEMMA RemoveFromPingList ==
  ASSUME NEW S, NEW q \in Seq(S), IsInjective(q), NEW a
  PROVE  RemoveFirst(q, a) \in Seq(S) /\ IsInjective(RemoveFirst(q, a))
<1>1. CASE ~\E i \in 1 .. Len(q) : q[i] = a
  BY <1>1 DEF RemoveFirst
<1>2. CASE \E i \in 1 .. Len(q) : q[i] = a
  <2>1. PICK k \in 1 .. Len(q) : q[k] = a
    BY <1>2
  <2>2. {i \in 1 .. Len(q) : q[i] = a} = {k}
    BY <2>1 DEF IsInjective
  <2>3. Min({k}) = k
    BY DEF Min
  <2>4. SelectInSeq(q, LAMBDA v : v = a) = k
    BY <2>2, <2>3 DEF SelectInSeq
  <2> DEFINE r == SubSeq(q, 1, k - 1) \o SubSeq(q, k + 1, Len(q))
  <2>5. RemoveFirst(q, a) = r
    BY <1>2, <2>4 DEF RemoveFirst, RemoveAt
  <2>6. /\ SubSeq(q, 1, k - 1) \in Seq(S) /\ Len(SubSeq(q, 1, k - 1)) = k - 1
        /\ \A i \in 1 .. k - 1 : SubSeq(q, 1, k - 1)[i] = q[i]
    BY <2>1
  <2>7. /\ SubSeq(q, k + 1, Len(q)) \in Seq(S) /\ Len(SubSeq(q, k + 1, Len(q))) = Len(q) - k
        /\ \A i \in 1 .. Len(q) - k : SubSeq(q, k + 1, Len(q))[i] = q[k + i]
    BY <2>1
  <2>8. /\ r \in Seq(S) /\ Len(r) = Len(q) - 1 /\ DOMAIN r = 1 .. Len(q) - 1
        /\ \A i \in 1 .. Len(q) - 1 : r[i] = IF i < k THEN q[i] ELSE q[i + 1]
    <3> DEFINE u == SubSeq(q, 1, k - 1)
               v == SubSeq(q, k + 1, Len(q))
    <3>1. u \in Seq(S) /\ v \in Seq(S) /\ Len(u) = k - 1 /\ Len(v) = Len(q) - k
      BY <2>6, <2>7
    <3>2. /\ \A i \in 1 .. k - 1 : u[i] = q[i]
          /\ \A i \in 1 .. Len(q) - k : v[i] = q[k + i]
      BY <2>6, <2>7
    <3> HIDE DEF u, v
    <3>3. u \o v \in Seq(S) /\ Len(u \o v) = Len(q) - 1
      BY <2>1, <3>1
    <3>4. \A i \in 1 .. Len(q) - 1 : (u \o v)[i] = IF i < k THEN u[i] ELSE v[i - (k - 1)]
      BY <2>1, <3>1
    <3>5. \A i \in 1 .. Len(q) - 1 : ~(i < k) => v[i - (k - 1)] = q[i + 1]
      <4> TAKE i \in 1 .. Len(q) - 1
      <4> HAVE ~(i < k)
      <4>1. i - (k - 1) \in 1 .. Len(q) - k /\ k + (i - (k - 1)) = i + 1
        BY <2>1
      <4> QED BY <3>2, <4>1
    <3>6. \A i \in 1 .. Len(q) - 1 : i < k => u[i] = q[i]
      BY <2>1, <3>2
    <3>7. DOMAIN (u \o v) = 1 .. Len(q) - 1
      BY <3>3
    <3>8. \A i \in 1 .. Len(q) - 1 : (u \o v)[i] = IF i < k THEN q[i] ELSE q[i + 1]
      BY <3>4, <3>5, <3>6
    <3> QED BY <3>3, <3>7, <3>8 DEF u, v
  <2>9. IsInjective(r)
    <3> HIDE DEF r
    <3> SUFFICES ASSUME NEW i \in 1 .. Len(q) - 1, NEW j \in 1 .. Len(q) - 1, r[i] = r[j]
                 PROVE  i = j
      BY <2>8 DEF IsInjective
    <3> DEFINE f(x) == IF x < k THEN x ELSE x + 1
    <3>1. f(i) \in DOMAIN q /\ f(j) \in DOMAIN q
      BY <2>1
    <3>2. q[f(i)] = q[f(j)]
      BY <2>8
    <3>3. f(i) = f(j)
      BY <3>1, <3>2 DEF IsInjective
    <3> QED BY <3>3
  <2> QED BY <2>5, <2>8, <2>9
<1> QED BY <1>1, <1>2

-----------------------------------------------------------------------------
(* The invariants of NodeManager.                                           *)

\* The invariants are inductive together: the types need the maps to agree,
\* and the ping list is shuffled from the maps.
Inv == TypeOK /\ IndexConsistent /\ SelfIsNoMember /\ PingListDistinct

\* The invariant makes every slot of the list consistent.
LEMMA SlotsOK ==
  ASSUME Inv
  PROVE  \A a \in Addr : SlotOK(list[a])
BY DEF Inv, TypeOK, IndexConsistent, SlotOK

\* An absent key is consistent.
LEMMA NoSlotOK == SlotOK(NoSlot)
BY SlotForms

\* What is left to show of a step once the maps and the ping list are right.
LEMMA InvNext ==
  ASSUME Inv,
         NEW l \in [Addr -> Slot], list' = l, \A a \in Addr : SlotOK(l[a]), l[Self] = NoSlot,
         nodesToPing' \in Seq(Others), IsInjective(nodesToPing'),
         period' \in Period, pc' \in {"run", "expire"}, expired' \subseteq Others,
         age' \in [Addr -> Nat]
  PROVE  Inv'
<1>1. TypeOK'
  BY DEF TypeOK, Others
<1>2. IndexConsistent'
  BY DEF IndexConsistent, SlotOK
<1>3. Self \notin Range(nodesToPing')
  BY DEF Range, Others
<1> QED BY <1>1, <1>2, <1>3 DEF Inv, SelfIsNoMember, PingListDistinct, Others

\* What the steps below use of the invariant.
LEMMA InvFacts ==
  ASSUME Inv
  PROVE  /\ nodesToPing \in Seq(Others) /\ IsInjective(nodesToPing)
         /\ expired \subseteq Others
         /\ list[Self] = NoSlot
<1>1. nodesToPing \in Seq(Addr) /\ Self \notin Range(nodesToPing)
  BY DEF Inv, TypeOK, SelfIsNoMember
<1>2. \A i \in 1 .. Len(nodesToPing) : nodesToPing[i] \in Others
  BY <1>1 DEF Range, Others
<1>3. nodesToPing \in Seq(Others)
  BY <1>1, <1>2
<1> QED BY <1>3 DEF Inv, TypeOK, SelfIsNoMember, PingListDistinct, Others

\* The history variable stays a function to the naturals.
LEMMA AgedOK ==
  ASSUME Inv, Aged
  PROVE  age' \in [Addr -> Nat]
BY DEF Inv, TypeOK, Aged

\* The members a ping list is prepared from are addresses, without the node itself.
LEMMA KnownOK ==
  ASSUME NEW l, l \in [Addr -> Slot], l[Self] = NoSlot, NEW q \in PingLists(l)
  PROVE  q \in Seq(Others) /\ IsInjective(q)
<1>1. Known(l) \subseteq Others
  BY DEF Known, Others, NoSlot
<1>2. IsFiniteSet(Known(l))
  BY FS_Subset, NodeManagerAssumption DEF Known
<1>3. q \in Seq(Known(l)) /\ IsInjective(q)
  BY <1>2, PreparedPingList DEF PingLists
<1> QED BY <1>1, <1>3

\* A call that changes one consistent slot into another keeps the invariant.
LEMMA StoreOK ==
  ASSUME Inv, NEW a \in Others, NEW s, SlotOK(s), Store(a, s)
  PROVE  Inv'
<1> DEFINE l == [list EXCEPT ![a] = s]
<1>1. list' = l /\ l \in [Addr -> Slot]
  BY DEF Inv, TypeOK, Store, SlotOK, Others
<1>2. \A x \in Addr : SlotOK(l[x])
  BY SlotsOK DEF Inv, TypeOK
<1>3. l[Self] = NoSlot
  BY InvFacts, NodeManagerAssumption DEF Others, Inv, TypeOK
<1> HIDE DEF l
<1>4. /\ age' \in [Addr -> Nat]
      /\ UNCHANGED <<nodesToPing, period, pc, expired>>
  BY AgedOK DEF Store
<1> QED BY <1>1, <1>2, <1>3, <1>4, InvFacts, InvNext DEF Inv, TypeOK

\* MarkFaulty, on the maps and on the ping list, keeps the invariant.
LEMMA MarkedFaultyOK ==
  ASSUME Inv, NEW a \in Others, MarkedFaulty(a),
         UNCHANGED <<period, pc>>, expired' \subseteq expired
  PROVE  Inv'
<1> DEFINE l == [list EXCEPT ![a] = SlotMarkedFaulty(@)]
<1>0. SlotMarkedFaulty(list[a]) = NoSlot
  BY SlotsOK, RemoveOK DEF Others
<1>1. list' = l /\ l \in [Addr -> Slot]
  BY <1>0, NoSlotOK DEF Inv, TypeOK, MarkedFaulty, SlotOK, Others
<1>2. \A x \in Addr : SlotOK(l[x])
  BY <1>0, NoSlotOK, SlotsOK DEF Inv, TypeOK
<1>3. l[Self] = NoSlot
  BY InvFacts, NodeManagerAssumption DEF Others, Inv, TypeOK
<1> HIDE DEF l
<1>4. nodesToPing' \in Seq(Others) /\ IsInjective(nodesToPing')
  BY InvFacts, RemoveFromPingList DEF MarkedFaulty
<1>5. age' \in [Addr -> Nat]
  BY AgedOK DEF MarkedFaulty
<1> QED BY <1>1, <1>2, <1>3, <1>4, <1>5, InvFacts, InvNext DEF Inv, TypeOK

\* Bootstrap keeps the invariant.
LEMMA BootstrapOK ==
  ASSUME Inv, NEW S \in SUBSET Addr, NEW batch \in [S -> Incarnations], Bootstrap(batch)
  PROVE  Inv'
<1> DEFINE m(a) == UnsafeAdd(list[a], period, [suspect |-> FALSE, incarnation |-> batch[a]])
           l == [a \in Addr |-> IF a \in DOMAIN batch \ {Self} THEN m(a) ELSE list[a]]
<1>1. \A a \in DOMAIN batch \ {Self} : SlotOK(m(a))
  <2> TAKE a \in DOMAIN batch \ {Self}
  <2>1. a \in Addr /\ batch[a] \in Incarnation
    BY NodeManagerAssumption
  <2>2. SlotOK(list[a]) /\ period \in Period
    BY <2>1, SlotsOK DEF Inv, TypeOK
  <2> QED BY <2>1, <2>2, AddOK
<1>2. list' = l
  BY DEF Bootstrap
<1> HIDE DEF m
<1>3. \A a \in Addr : SlotOK(l[a])
  BY <1>1, SlotsOK
<1>4. l \in [Addr -> Slot]
  BY <1>3 DEF SlotOK
<1>5. l[Self] = NoSlot
  BY InvFacts, NodeManagerAssumption
<1> HIDE DEF l
<1>6. nodesToPing' \in Seq(Others) /\ IsInjective(nodesToPing')
  BY <1>2, <1>4, <1>5, KnownOK DEF Bootstrap
<1>7. age' \in [Addr -> Nat] /\ UNCHANGED <<period, pc, expired>>
  BY AgedOK DEF Bootstrap
<1> QED BY <1>2, <1>3, <1>4, <1>5, <1>6, <1>7, InvFacts, InvNext DEF Inv, TypeOK

\* NextPing keeps the invariant.
LEMMA NextPingOK ==
  ASSUME Inv, NextPing
  PROVE  Inv'
<1>1. CASE Len(nodesToPing) = 1
  <2>1. nodesToPing' \in Seq(Others) /\ IsInjective(nodesToPing')
    BY <1>1, InvFacts, KnownOK DEF Inv, TypeOK, NextPing
  <2> QED BY <2>1, SlotsOK, InvFacts, InvNext DEF Inv, TypeOK, NextPing
<1>2. CASE Len(nodesToPing) # 1
  <2>1. nodesToPing' \in Seq(Others) /\ IsInjective(nodesToPing')
    BY <1>2, InvFacts, TailPingList DEF NextPing
  <2> QED BY <2>1, SlotsOK, InvFacts, InvNext DEF Inv, TypeOK, NextPing
<1> QED BY <1>1, <1>2

\* ExpiredSuspects, which deletes the suspects reported by others, keeps the invariant.
LEMMA ExpiredSuspectsOK ==
  ASSUME Inv, ExpiredSuspects
  PROVE  Inv'
<1> DEFINE R == {a \in Addr : SlotExpired(list[a], period) /\ list[a].suspect.remote}
           l == [a \in Addr |-> IF a \in R THEN SlotMarkedFaulty(list[a]) ELSE list[a]]
<1>1. list' = l
  BY DEF ExpiredSuspects
<1>2. \A a \in Addr : SlotMarkedFaulty(list[a]) = NoSlot
  BY SlotsOK, RemoveOK
<1>3. \A a \in Addr : SlotOK(l[a])
  BY <1>2, SlotsOK, NoSlotOK
<1>4. l \in [Addr -> Slot]
  BY <1>3 DEF SlotOK
<1>5. l[Self] = NoSlot
  BY <1>2, InvFacts, NodeManagerAssumption
<1>6. expired' \subseteq Others
  <2>1. ~SlotExpired(list[Self], period)
    BY InvFacts, SlotFields DEF SlotExpired
  <2>2. expired' = {a \in Addr : SlotExpired(list[a], period) /\ ~list[a].suspect.remote}
    BY DEF ExpiredSuspects
  <2> QED BY <2>1, <2>2 DEF Others
<1> HIDE DEF l
<1>7. age' \in [Addr -> Nat] /\ UNCHANGED <<nodesToPing, period>> /\ pc' = "expire"
  BY AgedOK DEF ExpiredSuspects
<1> QED BY <1>1, <1>3, <1>4, <1>5, <1>6, <1>7, InvFacts, InvNext DEF Inv, TypeOK

\* The end of a period keeps the invariant.
LEMMA IncrementPeriodOK ==
  ASSUME Inv, IncrementPeriod
  PROVE  Inv'
<1>1. period' \in Period
  BY UintAssumption DEF Inv, TypeOK, IncrementPeriod, Incremented
<1>2. age' \in [Addr -> Nat]
  BY DEF Inv, TypeOK, IncrementPeriod
<1>3. UNCHANGED <<list, nodesToPing, expired>> /\ pc' = "run"
  BY DEF IncrementPeriod
<1> QED BY <1>1, <1>2, <1>3, SlotsOK, InvFacts, InvNext DEF Inv, TypeOK

\* An empty node manager satisfies the invariant.
LEMMA InitInv == Init => Inv
<1> SUFFICES ASSUME Init PROVE Inv
  OBVIOUS
<1>1. NoSlot \in Slot /\ Consistent(NoSlot)
  BY NoSlotOK DEF SlotOK
<1>2. TypeOK /\ IndexConsistent
  BY <1>1, UintAssumption DEF Init, TypeOK, IndexConsistent
<1>3. nodesToPing = << >> /\ DOMAIN nodesToPing = {}
  BY DEF Init
<1>4. SelfIsNoMember /\ PingListDistinct
  BY <1>3, NodeManagerAssumption DEF Init, SelfIsNoMember, PingListDistinct, Range, IsInjective
<1> QED BY <1>2, <1>4 DEF Inv

\* Every call keeps the invariant.
LEMMA NextInv == Inv /\ [Next]_vars => Inv'
<1> SUFFICES ASSUME Inv, [Next]_vars PROVE Inv'
  OBVIOUS
<1> USE NodeManagerAssumption
<1>0. period \in Period /\ Others \subseteq Addr /\ Incarnations \subseteq Incarnation
  BY DEF Inv, TypeOK, Others
<1>1. ASSUME NEW a \in Others, MarkStable(a) PROVE Inv'
  BY <1>0, <1>1, SlotsOK, MarkStableOK, StoreOK DEF MarkStable
<1>2. ASSUME NEW a \in Others, MarkSuspect(a) PROVE Inv'
  BY <1>0, <1>2, SlotsOK, MarkSuspectOK, StoreOK DEF MarkSuspect
<1>3. ASSUME NEW a \in Others, Delete(a) PROVE Inv'
  BY <1>0, <1>3, SlotsOK, RemoveOK, NoSlotOK, StoreOK DEF Delete
<1>4. ASSUME NEW a \in Others, MarkFaulty(a) PROVE Inv'
  BY <1>4, MarkedFaultyOK DEF MarkFaulty
<1>5. ASSUME NEW a \in Others, DeclareFaulty(a) PROVE Inv'
  BY <1>5, MarkedFaultyOK DEF DeclareFaulty
<1>6. ASSUME NEW a \in Others, NEW i \in Incarnations, Add(a, i) PROVE Inv'
  BY <1>0, <1>6, SlotsOK, AddOK, StoreOK DEF Add
<1>7. ASSUME NEW a \in Others, NEW i \in Incarnations, WrapIncarnation(a, i) PROVE Inv'
  BY <1>0, <1>7, SlotsOK, WrapOK, StoreOK DEF WrapIncarnation
<1>8. ASSUME NEW a \in Others, NEW i \in Incarnations, NEW b \in BOOLEAN, UpdateOrCreate(a, i, b)
      PROVE  Inv'
  BY <1>0, <1>8, SlotsOK, UpdateOrCreateOK, StoreOK DEF UpdateOrCreate
<1>9. CASE UNCHANGED vars
  BY <1>9 DEF vars, Inv, TypeOK, IndexConsistent, SelfIsNoMember, PingListDistinct
<1> QED
  BY <1>1, <1>2, <1>3, <1>4, <1>5, <1>6, <1>7, <1>8, <1>9,
     BootstrapOK, NextPingOK, ExpiredSuspectsOK, IncrementPeriodOK
  DEF Next

\* The invariant holds in every reachable state.
LEMMA Invariance == Spec => []Inv
BY InitInv, NextInv, PTL DEF Spec

\* The maps, the ping list and the run loop's state keep their types, for any
\* number of nodes, any width of the counters and any suspicion timeout.
THEOREM TypeCorrect == Spec => []TypeOK
BY Invariance, PTL DEF Inv

\* The three maps of the nodeList agree after every call: each node is in
\* exactly the map nodeByType names.
THEOREM MapsAgree == Spec => []IndexConsistent
BY Invariance, PTL DEF Inv

\* No list received from another node makes a node a member of its own list,
\* and no node pings itself or declares itself faulty.
THEOREM SelfExcluded == Spec => []SelfIsNoMember
BY Invariance, PTL DEF Inv

\* The ping list never holds a node twice, whatever is added, bootstrapped or
\* removed during a round.
THEOREM PingedOnce == Spec => []PingListDistinct
BY Invariance, PTL DEF Inv

-----------------------------------------------------------------------------
(* NodeManager implements Membership.                                       *)

\* Both modules use the same operators of Members.
LEMMA ViewOperators ==
  /\ View!Incarnation = Incarnation /\ View!NoMember = NoMember /\ View!Others = Others
  /\ \A p : View!Incremented(p) = Incremented(p)
  /\ \A e, p, i, b : View!Added(e, p, i, b) = Added(e, p, i, b)
  /\ \A e : View!MarkedStable(e) = MarkedStable(e)
  /\ \A e, p, b : View!MarkedSuspect(e, p, b) = MarkedSuspect(e, p, b)
  /\ \A e, p, i, b : View!UpdatedOrCreated(e, p, i, b) = UpdatedOrCreated(e, p, i, b)
  /\ \A i : View!WrappedIncarnation(i) = WrappedIncarnation(i)
  /\ \A e, p : View!Expired(e, p) <=> Expired(e, p)
BY DEF View!Incarnation, NoMember, View!NoMember, Others, View!Others,
       Incremented, View!Incremented, StableEntry, View!StableEntry,
       SuspectEntry, View!SuspectEntry, IsMember, View!IsMember, Added, View!Added,
       MarkedStable, View!MarkedStable, MarkedSuspect, View!MarkedSuspect,
       UpdatedOrCreated, View!UpdatedOrCreated, WrappedIncarnation, View!WrappedIncarnation,
       Elapsed, View!Elapsed, Expired, View!Expired

\* A call that changes one slot changes one entry.
LEMMA StoreEntry ==
  ASSUME Inv, NEW a \in Others, NEW s, Store(a, s)
  PROVE  View!Apply(a, EntryOf(s))
<1>1. list' = [list EXCEPT ![a] = s] /\ list \in [Addr -> Slot] /\ period' = period
  BY DEF Inv, TypeOK, Store
<1>2. \A x \in Addr : list'[x] = IF x = a THEN s ELSE list[x]
  BY <1>1
<1> QED BY <1>1, <1>2 DEF View!Apply, Others

\* MarkFaulty removes the entry.
LEMMA MarkedFaultyEntry ==
  ASSUME Inv, NEW a \in Others, MarkedFaulty(a), UNCHANGED period
  PROVE  View!Remove(a)
<1>1. SlotMarkedFaulty(list[a]) = NoSlot
  BY SlotsOK, RemoveOK DEF Others
<1>2. \A x \in Addr : list'[x] = IF x = a THEN NoSlot ELSE list[x]
  BY <1>1, SMTT(30) DEF Inv, TypeOK, MarkedFaulty
<1> QED BY <1>2, EntryValues, ViewOperators DEF View!Remove, View!Apply, Others

\* Bootstrap admits the nodes of the list it is given.
LEMMA BootstrapEntry ==
  ASSUME Inv, NEW S \in SUBSET Addr, NEW batch \in [S -> Incarnations], Bootstrap(batch)
  PROVE  View!AdmitAll(batch) /\ batch \in [S -> Incarnation]
<1> DEFINE m(a) == UnsafeAdd(list[a], period, [suspect |-> FALSE, incarnation |-> batch[a]])
<1>1. \A a \in DOMAIN batch \ {Self} :
        EntryOf(m(a)) = Added(EntryOf(list[a]), period, batch[a], FALSE)
  <2> TAKE a \in DOMAIN batch \ {Self}
  <2>1. a \in Addr /\ batch[a] \in Incarnation
    BY NodeManagerAssumption
  <2>2. SlotOK(list[a]) /\ period \in Period
    BY <2>1, SlotsOK DEF Inv, TypeOK
  <2> QED BY <2>1, <2>2, AddOK
<1>2. \A a \in Addr : list'[a] = IF a \in DOMAIN batch \ {Self} THEN m(a) ELSE list[a]
  BY DEF Bootstrap
<1>3. period' = period
  BY DEF Bootstrap
<1>4. batch \in [S -> Incarnation]
  BY NodeManagerAssumption
<1> HIDE DEF m
<1> QED BY <1>1, <1>2, <1>3, <1>4, ViewOperators DEF View!AdmitAll

\* ExpiredSuspects removes the expired entries reported by others.
LEMMA ExpiredSuspectsEntry ==
  ASSUME Inv, ExpiredSuspects
  PROVE  View!ExpireRemote
<1> DEFINE R(a) == SlotExpired(list[a], period) /\ list[a].suspect.remote
           E(a) == Expired(EntryOf(list[a]), period) /\ EntryOf(list[a]).remote
<1>1. period \in Period /\ period' = period
  BY DEF Inv, TypeOK, ExpiredSuspects
<1>2. \A a \in Addr : R(a) <=> E(a)
  BY <1>1, SlotsOK, ExpiredOK
<1>3. \A a \in Addr : list'[a] = IF R(a) THEN SlotMarkedFaulty(list[a]) ELSE list[a]
  BY SMTT(30) DEF ExpiredSuspects
<1>4. \A a \in Addr : SlotMarkedFaulty(list[a]) = NoSlot
  BY SlotsOK, RemoveOK
<1>5. \A a \in Addr : EntryOf(list'[a]) = IF E(a) THEN NoMember ELSE EntryOf(list[a])
  <2> HIDE DEF R, E
  <2> QED BY <1>2, <1>3, <1>4, EntryValues, SMTT(30)
<1> QED BY <1>1, <1>5, ViewOperators DEF View!ExpireRemote

\* Every call is a step of Membership or leaves all entries as they are.
LEMMA NextEntry == Inv /\ [Next]_vars => [View!Next]_(View!vars)
<1> SUFFICES ASSUME Inv, [Next]_vars PROVE View!Next \/ UNCHANGED View!vars
  OBVIOUS
<1>0. period \in Period /\ Others \subseteq Addr /\ Incarnations \subseteq Incarnation
  BY NodeManagerAssumption DEF Inv, TypeOK, Others
<1>1. ASSUME NEW a \in Others, MarkStable(a) PROVE View!Trust(a)
  BY <1>0, <1>1, SlotsOK, MarkStableOK, StoreEntry, ViewOperators DEF MarkStable, View!Trust
<1>2. ASSUME NEW a \in Others, MarkSuspect(a) PROVE View!Suspect(a)
  BY <1>0, <1>2, SlotsOK, MarkSuspectOK, StoreEntry, ViewOperators DEF MarkSuspect, View!Suspect
<1>3. ASSUME NEW a \in Others, Delete(a) PROVE View!Remove(a)
  BY <1>0, <1>3, SlotsOK, RemoveOK, EntryValues, StoreEntry, ViewOperators DEF Delete, View!Remove
<1>4. ASSUME NEW a \in Others, MarkFaulty(a) PROVE View!Remove(a)
  BY <1>4, MarkedFaultyEntry DEF MarkFaulty
<1>5. ASSUME NEW a \in Others, DeclareFaulty(a) PROVE View!Remove(a)
  BY <1>5, MarkedFaultyEntry DEF DeclareFaulty
<1>6. ASSUME NEW a \in Others, NEW i \in Incarnations, Add(a, i) PROVE View!Admit(a, i)
  BY <1>0, <1>6, SlotsOK, AddOK, StoreEntry, ViewOperators DEF Add, View!Admit
<1>7. ASSUME NEW a \in Others, NEW i \in Incarnations, WrapIncarnation(a, i) PROVE View!Wrap(a, i)
  BY <1>0, <1>7, SlotsOK, WrapOK, StoreEntry, ViewOperators DEF WrapIncarnation, View!Wrap
<1>8. ASSUME NEW a \in Others, NEW i \in Incarnations, NEW b \in BOOLEAN, UpdateOrCreate(a, i, b)
      PROVE  View!Update(a, i, b)
  BY <1>0, <1>8, SlotsOK, UpdateOrCreateOK, StoreEntry, ViewOperators DEF UpdateOrCreate, View!Update
<1>9. ASSUME NEW S \in SUBSET Addr, NEW batch \in [S -> Incarnations], Bootstrap(batch)
      PROVE  View!AdmitAll(batch) /\ batch \in [S -> Incarnation]
  BY <1>9, BootstrapEntry
<1>10. ASSUME NextPing PROVE UNCHANGED View!vars
  BY <1>10 DEF NextPing, View!vars
<1>11. ASSUME ExpiredSuspects PROVE View!ExpireRemote
  BY <1>11, ExpiredSuspectsEntry, SMTT(30)
<1>12. ASSUME IncrementPeriod PROVE View!Tick
  BY <1>12, ViewOperators DEF IncrementPeriod, View!Tick
<1>13. ASSUME UNCHANGED vars PROVE UNCHANGED View!vars
  BY <1>13 DEF vars, View!vars
<1>14. CASE \E a \in Others :
               \/ MarkStable(a) \/ MarkSuspect(a) \/ Delete(a) \/ MarkFaulty(a) \/ DeclareFaulty(a)
               \/ \E i \in Incarnations : \/ Add(a, i)
                                          \/ WrapIncarnation(a, i)
                                          \/ \E b \in BOOLEAN : UpdateOrCreate(a, i, b)
  BY <1>0, <1>1, <1>2, <1>3, <1>4, <1>5, <1>6, <1>7, <1>8, <1>14, ViewOperators DEF View!Next
<1>15. CASE \E S \in SUBSET Addr : \E batch \in [S -> Incarnations] : Bootstrap(batch)
  <2>1. PICK S \in SUBSET Addr : \E batch \in [S -> Incarnations] : Bootstrap(batch)
    BY <1>15
  <2>2. PICK batch \in [S -> Incarnations] : Bootstrap(batch)
    BY <2>1
  <2>3. View!AdmitAll(batch) /\ batch \in [S -> Incarnation]
    BY <1>9, <2>2
  <2> QED BY <2>3, ViewOperators DEF View!Next
<1>16. CASE NextPing \/ ExpiredSuspects \/ IncrementPeriod \/ UNCHANGED vars
  BY <1>10, <1>11, <1>12, <1>13, <1>16 DEF View!Next
<1> QED BY <1>14, <1>15, <1>16 DEF Next

\* An empty node manager has no entries.
LEMMA InitEntry == Init => View!Init
BY EntryValues, ViewOperators DEF Init, View!Init

\* The node manager with its three maps does what Membership says a node
\* manager does: every call acts on one entry as Members defines it.
THEOREM Refinement == Spec => ImplementsMembership
BY Invariance, InitEntry, NextEntry, PTL DEF Spec, ImplementsMembership, View!Spec

-----------------------------------------------------------------------------
(* Suspicions keep their date.                                              *)

\* A change of an entry that does not date a suspicion anew.
DateKept(e, f) ==
  e.state = "Suspect" /\ f.state = "Suspect" => f.at = e.at /\ f.remote = e.remote

\* The date and the origin of a suspicion are those of its entry.
LEMMA SuspectEntryOf ==
  ASSUME NEW s, SlotOK(s)
  PROVE  /\ s.suspect # NoSuspect <=> EntryOf(s).state = "Suspect"
         /\ s.suspect # NoSuspect => /\ EntryOf(s).at = s.suspect.at
                                     /\ EntryOf(s).remote = s.suspect.remote
BY SlotForms, SlotFields, EntryValues, EntryFields, SMTT(30)

\* No operation of Members dates a suspicion anew.
LEMMA OperatorsKeepDates ==
  ASSUME NEW e, NEW p, NEW i, NEW b
  PROVE  /\ DateKept(e, e) /\ DateKept(e, NoMember)
         /\ DateKept(e, Added(e, p, i, b))
         /\ DateKept(e, MarkedStable(e))
         /\ DateKept(e, MarkedSuspect(e, p, b))
         /\ DateKept(e, UpdatedOrCreated(e, p, i, b))
         /\ DateKept(e, WrappedIncarnation(i))
<1>1. DateKept(e, e)
  BY DEF DateKept
<1>2. DateKept(e, NoMember) /\ DateKept(e, StableEntry(i)) /\ DateKept(e, StableEntry(e.incarnation))
  BY DEF DateKept, NoMember, StableEntry
<1>3. ~(e.state = "Suspect") => \A f : DateKept(e, f)
  BY DEF DateKept
<1>4. DateKept(e, SuspectEntry(i, e.at, e.remote))
  BY DEF DateKept, SuspectEntry
<1>5. e.state = "Suspect" => IsMember(e) /\ e.state # "Stable"
  BY DEF IsMember
<1> QED
  BY <1>1, <1>2, <1>3, <1>4, <1>5
  DEF Added, MarkedStable, MarkedSuspect, UpdatedOrCreated, WrappedIncarnation

\* No step of Membership dates a suspicion anew.
LEMMA NextKeepsDates ==
  ASSUME Inv, Inv', [Next]_vars, NEW a \in Addr
  PROVE  DateKept(EntryOf(list[a]), EntryOf(list'[a]))
<1> DEFINE en == [x \in Addr |-> EntryOf(list[x])]
           D  == DateKept(en[a], en'[a])
<1>0. en[a] = EntryOf(list[a]) /\ en'[a] = EntryOf(list'[a])
  OBVIOUS
<1>1. ASSUME NEW x, NEW f, View!Apply(x, f), DateKept(en[x], f) PROVE D
  BY <1>1, OperatorsKeepDates, SMTT(30) DEF View!Apply
<1>2. ASSUME NEW x \in Others,
             \/ View!Trust(x) \/ View!Suspect(x) \/ View!Remove(x)
             \/ \E i \in Incarnation : \/ View!Admit(x, i)
                                       \/ View!Wrap(x, i)
                                       \/ \E b \in BOOLEAN : View!Update(x, i, b)
      PROVE  D
  <2> HIDE DEF D
  <2> QED BY <1>1, <1>2, ViewOperators, OperatorsKeepDates
          DEF View!Trust, View!Suspect, View!Remove, View!Admit, View!Wrap, View!Update
<1>3. ASSUME NEW batch, View!AdmitAll(batch) PROVE D
  <2>1. \/ en'[a] = en[a]
        \/ en'[a] = View!Added(en[a], period, batch[a], FALSE)
    BY <1>3, ZenonT(30) DEF View!AdmitAll
  <2> HIDE DEF en
  <2>2. View!Added(en[a], period, batch[a], FALSE) = Added(en[a], period, batch[a], FALSE)
    BY ViewOperators
  <2> QED BY <2>1, <2>2, OperatorsKeepDates
<1>4. ASSUME View!ExpireRemote PROVE D
  BY <1>4, ViewOperators, OperatorsKeepDates, ZenonT(30) DEF View!ExpireRemote
<1>5. ASSUME View!Tick \/ UNCHANGED View!vars PROVE D
  BY <1>5, OperatorsKeepDates DEF View!Tick, View!vars
<1>6. D
  <2> HIDE DEF D
  <2>1. View!Next \/ UNCHANGED View!vars
    BY NextEntry, SMTT(30)
  <2> QED BY <1>2, <1>3, <1>4, <1>5, <2>1, ViewOperators DEF View!Next
<1> QED BY <1>0, <1>6

\* No call dates a suspicion anew.
LEMMA NextSuspicions ==
  ASSUME Inv, Inv', [Next]_vars, NEW a \in Addr,
         list[a].suspect # NoSuspect, list'[a].suspect # NoSuspect
  PROVE  /\ list'[a].suspect.at = list[a].suspect.at
         /\ list'[a].suspect.remote = list[a].suspect.remote
<1>1. SlotOK(list[a])
  BY SlotsOK
<1>2. SlotOK(list'[a])
  BY DEF Inv, TypeOK, IndexConsistent, SlotOK
<1> QED BY <1>1, <1>2, SuspectEntryOf, NextKeepsDates DEF DateKept

\* Whatever a node hears about a suspect, the suspicion keeps the period it
\* began in and whether it is the node's own: nobody can put off its expiry.
THEOREM SuspicionsKeepTheirDates == Spec => SuspicionKeepsItsDate
<1>1. ASSUME Inv, Inv', [Next]_vars
      PROVE  [\A a \in Addr : /\ list[a].suspect # NoSuspect
                              /\ list'[a].suspect # NoSuspect
                              => /\ list'[a].suspect.at = list[a].suspect.at
                                 /\ list'[a].suspect.remote = list[a].suspect.remote]_vars
  BY <1>1, NextSuspicions
<1> QED BY <1>1, Invariance, PTL DEF Spec, SuspicionKeepsItsDate

=============================================================================

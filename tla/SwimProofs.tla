------------------------------ MODULE SwimProofs ------------------------------
(***************************************************************************)
(* Proofs about Swim, for every set of nodes, every number of faults and   *)
(* of crashes: nobody but a node itself raises its incarnation, and no     *)
(* node passes on an accusation of itself.                                 *)
(*                                                                         *)
(* Both fail once a counter has wrapped to 0, so the theorems are about    *)
(* behaviours in which no incarnation reaches the largest uint16.          *)
(***************************************************************************)
EXTENDS Swim, TLAPS

USE DEF Incarnation, Period

Slot == Rumour \cup {NoRumour}

Accusations == {"Suspect", "Faulty"}

\* No incarnation is the last one before the counter wraps.
Unwrapped == \A n \in Addr : incarnation[n] < MaxUint16

-----------------------------------------------------------------------------
(* What the operators of the model make of slots and entries.               *)

\* The fields of a slot of the gossip queue.
LEMMA SlotFields ==
  /\ NoRumour \in Slot
  /\ \A s \in Slot : /\ s.kind \in Kind \cup {"None"} /\ s.incarnation \in Incarnation
                     /\ Told(s) \in Tale /\ Told(s).incarnation = s.incarnation
<1> USE UintAssumption
<1>1. NoRumour \in Slot /\ NoRumour.kind = "None" /\ NoRumour.incarnation = 0
  BY DEF Slot, NoRumour
<1>2. \A s \in Rumour : s.kind \in Kind /\ s.incarnation \in Incarnation
  BY DEF Rumour
<1>3. \A s \in Slot : s.kind \in Kind \cup {"None"} /\ s.incarnation \in Incarnation
  BY <1>1, <1>2 DEF Slot
<1>4. \A s \in Slot : Told(s) \in Tale /\ Told(s).incarnation = s.incarnation
  BY <1>3 DEF Told, Tale
<1> QED BY <1>1, <1>3, <1>4

\* gossip.Add puts the event into the slot, or leaves the slot alone.
LEMMA AddValues ==
  ASSUME NEW s \in Slot, NEW kind \in Kind, NEW i \in Incarnation
  PROVE  /\ AddToSlot(s, kind, i) \in Slot
         /\ \/ AddToSlot(s, kind, i) = s
            \/ AddToSlot(s, kind, i).kind = kind /\ AddToSlot(s, kind, i).incarnation = i
BY DEF AddToSlot, Held, Slot, Rumour

\* A rumour that has been handed out is kept or forgotten.
LEMMA HandOutValues ==
  ASSUME NEW s \in Slot
  PROVE  AfterHandOut(s) \in {s, NoRumour}
BY DEF AfterHandOut

\* An event of a ping is taken into its slot, or not.
LEMMA HeardValues ==
  ASSUME NEW s \in Slot, NEW tale \in Tale
  PROVE  /\ Heard(s, tale) \in Slot
         /\ \/ Heard(s, tale) = s
            \/ Heard(s, tale).kind = tale.kind /\ Heard(s, tale).incarnation = tale.incarnation
<1>1. tale.kind \in Kind \cup {"None"} /\ tale.incarnation \in Incarnation
  BY DEF Tale
<1>2. CASE tale.kind = "None"
  BY <1>2 DEF Heard
<1>3. CASE tale.kind # "None"
  BY <1>1, <1>3, AddValues DEF Heard
<1> QED BY <1>2, <1>3

\* The entry of a member after an event about it: its incarnation is one that was
\* known or the one of the event.
LEMMA LearnedValues ==
  ASSUME NEW e \in Entry, NEW tale \in Tale
  PROVE  /\ Learned(e, tale) \in Entry
         /\ Learned(e, tale).incarnation \in {0, e.incarnation, tale.incarnation}
<1> USE UintAssumption
<1>1. e.state \in {"None", "Stable", "Suspect"} /\ e.incarnation \in Incarnation
      /\ e.at \in Period /\ e.remote \in BOOLEAN /\ tale.incarnation \in Incarnation
  BY DEF Entry, Tale
<1>2. \A suspect \in BOOLEAN :
        /\ UpdatedOrCreated(e, 0, tale.incarnation, suspect) \in Entry
        /\ UpdatedOrCreated(e, 0, tale.incarnation, suspect).incarnation \in {e.incarnation, tale.incarnation}
  BY <1>1 DEF UpdatedOrCreated, Added, IsMember, StableEntry, SuspectEntry, Entry
<1>3. NoMember \in Entry /\ NoMember.incarnation = 0
  BY DEF NoMember, Entry
<1>4. StableEntry(tale.incarnation) \in Entry /\ StableEntry(tale.incarnation).incarnation = tale.incarnation
  BY <1>1 DEF StableEntry, Entry
<1>5. Learned(e, tale) \in {NoMember, e, StableEntry(tale.incarnation),
                            UpdatedOrCreated(e, 0, tale.incarnation, TRUE),
                            UpdatedOrCreated(e, 0, tale.incarnation, FALSE)}
  BY DEF Learned, WrappedIncarnation
<1> QED BY <1>2, <1>3, <1>4, <1>5

\* The entries MarkStable, MarkSuspect and Add leave behind.
LEMMA EntryValues ==
  ASSUME NEW e \in Entry, NEW i \in Incarnation
  PROVE  /\ Met(e, i) \in Entry /\ Met(e, i).incarnation \in {e.incarnation, i}
         /\ MarkedStable(e) \in Entry /\ MarkedStable(e).incarnation = e.incarnation
         /\ MarkedSuspect(e, 0, FALSE) \in Entry
         /\ MarkedSuspect(e, 0, FALSE).incarnation = e.incarnation
         /\ ~IsMember(e) => MarkedStable(e) = e /\ MarkedSuspect(e, 0, FALSE) = e
BY UintAssumption DEF Met, MarkedStable, MarkedSuspect, Added, IsMember, StableEntry, SuspectEntry, Entry

\* The incarnation of a node after an event about it.
Raised(tale, own) == IF Challenges(tale, own) THEN Surpassed(tale.incarnation) ELSE own

\* A node answers everything that accuses it: it is left with a rumour about itself
\* that does not, and its incarnation is above the one of the accusation.
LEMMA AnsweredValues ==
  ASSUME NEW r \in Slot, NEW tale \in Tale, NEW own \in Incarnation, own < MaxUint16,
         r.incarnation <= own, tale.incarnation <= own, r.kind \notin Accusations
  PROVE  /\ Raised(tale, own) \in Incarnation /\ own <= Raised(tale, own)
         /\ Answered(r, tale, own) \in Slot
         /\ Answered(r, tale, own).incarnation <= Raised(tale, own)
         /\ Answered(r, tale, own).kind \notin Accusations
<1> USE UintAssumption
<1>1. tale.kind \in Kind \cup {"None"} /\ tale.incarnation \in Incarnation
  BY DEF Tale
<1>2. Surpassed(tale.incarnation) = tale.incarnation + 1
  BY <1>1 DEF Surpassed
<1>3. Raised(tale, own) \in Incarnation /\ own <= Raised(tale, own)
  BY <1>1, <1>2 DEF Raised, Challenges
<1>4. Heard(r, tale) \in Slot /\ Heard(r, tale).incarnation <= own
  BY <1>1, HeardValues
<1>5. "Alive" \in Kind
  BY DEF Kind
<1>6. ASSUME NEW h \in Slot, NEW i \in Incarnation, h.incarnation < i \/ h.kind \notin Accusations
      PROVE  AddToSlot(h, "Alive", i).kind \notin Accusations
  BY <1>6 DEF AddToSlot, Held, Invalidates, Accusations, YieldsToFaulty, Slot, Rumour, NoRumour
<1>7. Heard(r, tale).kind \in Accusations =>
        tale.kind \in Accusations /\ Heard(r, tale).incarnation = tale.incarnation
  BY HeardValues
<1>8. CASE Challenges(tale, own)
  <2> DEFINE i == tale.incarnation + 1
  <2>1. Answered(r, tale, own) = AddToSlot(Heard(r, tale), "Alive", i) /\ i \in Incarnation /\ Raised(tale, own) = i
    BY <1>1, <1>2, <1>8 DEF Answered, Raised
  <2>2. Heard(r, tale).incarnation < i \/ Heard(r, tale).kind \notin Accusations
    BY <1>1, <1>7
  <2>3. Heard(r, tale).incarnation <= i
    BY <1>1, <1>3, <1>4, <2>1, SlotFields
  <2> HIDE DEF i
  <2> QED BY <1>3, <1>4, <1>5, <1>6, <2>1, <2>2, <2>3, AddValues
<1>9. CASE ~Challenges(tale, own) /\ tale.kind \in Accusations
  <2>1. Answered(r, tale, own) = AddToSlot(Heard(r, tale), "Alive", own) /\ Raised(tale, own) = own
    BY <1>9 DEF Answered, Raised, Accusations
  <2>2. tale.incarnation < own
    BY <1>1, <1>9 DEF Challenges, Accusations
  <2>3. Heard(r, tale).incarnation < own \/ Heard(r, tale).kind \notin Accusations
    BY <2>2, <1>7
  <2> QED BY <1>3, <1>4, <1>5, <1>6, <2>1, <2>3, AddValues
<1>10. CASE ~Challenges(tale, own) /\ tale.kind \notin Accusations
  <2>1. Answered(r, tale, own) = Heard(r, tale) /\ Raised(tale, own) = own
    BY <1>10 DEF Answered, Raised, Accusations
  <2> QED BY <1>3, <1>4, <1>7, <1>10, <2>1
<1> QED BY <1>8, <1>9, <1>10

-----------------------------------------------------------------------------
(* The inductive invariant.  Nobody is ahead of a node, no node is a member *)
(* of its own list, and so it neither probes nor suspects itself.           *)

\* A datagram whose contents are not ahead of the incarnations inc.
MessageOK(x, inc) ==
  /\ x.type \in {"Ping", "Pong"} /\ x.from \in Addr /\ x.to \in Addr
  /\ x.type = "Ping" => /\ x.incarnation \in Incarnation /\ x.incarnation <= inc[x.from]
                        /\ x.events \in [Addr -> Tale]
                        /\ \A m \in Addr : x.events[m].incarnation <= inc[m]
  /\ x.type = "Pong" => x.known \in Tale /\ x.known.incarnation <= inc[x.to]

Typed ==
  /\ incarnation \in [Addr -> Incarnation]
  /\ member \in [Addr -> [Addr -> Entry]]
  /\ rumour \in [Addr -> [Addr -> Slot]]
  /\ toPing \in [Addr -> SUBSET Addr]
  /\ probe = [n \in Addr |-> probe[n]]

\* A node has nothing to do with itself.
Apart(n) ==
  /\ ~IsMember(member[n][n])
  /\ n \notin toPing[n]
  /\ probe[n].node \in (Addr \cup {NoAddr}) \ {n}

\* What n knows of m is not ahead of m.
Behind(n, m) ==
  /\ member[n][m].incarnation <= incarnation[m]
  /\ rumour[n][m].incarnation <= incarnation[m]

IInv ==
  /\ Typed
  /\ \A n \in Addr : Apart(n)
  /\ \A n, m \in Addr : Behind(n, m)
  /\ \A x \in msgs : MessageOK(x, incarnation)
  /\ NeverSelfAccusing

\* The invariant holds at first.
LEMMA InitInv == Init => IInv
<1> SUFFICES ASSUME Init PROVE IInv
  OBVIOUS
<1> USE UintAssumption, SwimAssumption
<1>1. NoMember \in Entry /\ StableEntry(0) \in Entry /\ NoMember.incarnation = 0
      /\ StableEntry(0).incarnation = 0 /\ ~IsMember(NoMember)
  BY DEF NoMember, StableEntry, Entry, IsMember
<1>2. NoRumour \in Slot /\ NoRumour.incarnation = 0 /\ NoRumour.kind = "None"
  BY DEF Slot, NoRumour
<1>3. Typed
  BY <1>1, <1>2 DEF Init, Typed
<1>4. \A n \in Addr : Apart(n)
  BY <1>1 DEF Init, Apart, NoProbe
<1>5. \A n, m \in Addr : Behind(n, m)
  BY <1>1, <1>2 DEF Init, Behind
<1>6. NeverSelfAccusing
  BY <1>2 DEF Init, NeverSelfAccusing
<1> QED BY <1>3, <1>4, <1>5, <1>6 DEF IInv, Init

\* Datagrams stay behind when incarnations grow.
LEMMA Later ==
  ASSUME NEW old \in [Addr -> Incarnation], NEW new \in [Addr -> Incarnation],
         \A n \in Addr : old[n] <= new[n],
         NEW x, MessageOK(x, old)
  PROVE  MessageOK(x, new)
<1> USE UintAssumption
<1>1. x.type \in {"Ping", "Pong"} /\ x.from \in Addr /\ x.to \in Addr
  BY DEF MessageOK
<1>2. x.type = "Ping" => /\ x.incarnation \in Incarnation /\ x.incarnation <= new[x.from]
                         /\ x.events \in [Addr -> Tale]
                         /\ \A m \in Addr : x.events[m].incarnation <= new[m]
  <2> SUFFICES ASSUME x.type = "Ping"
               PROVE  /\ x.incarnation \in Incarnation /\ x.incarnation <= new[x.from]
                      /\ x.events \in [Addr -> Tale]
                      /\ \A m \in Addr : x.events[m].incarnation <= new[m]
    OBVIOUS
  <2>1. x.incarnation \in Incarnation /\ x.incarnation <= old[x.from] /\ x.events \in [Addr -> Tale]
        /\ \A m \in Addr : x.events[m].incarnation <= old[m]
    BY DEF MessageOK
  <2>2. x.incarnation <= new[x.from]
    BY <1>1, <2>1
  <2>3. ASSUME NEW m \in Addr PROVE x.events[m].incarnation <= new[m]
    <3>1. x.events[m].incarnation \in Incarnation
      BY <2>1 DEF Tale
    <3> QED BY <2>1, <3>1
  <2> QED BY <2>1, <2>2, <2>3
<1>3. x.type = "Pong" => x.known \in Tale /\ x.known.incarnation <= new[x.to]
  <2> SUFFICES ASSUME x.type = "Pong" PROVE x.known \in Tale /\ x.known.incarnation <= new[x.to]
    OBVIOUS
  <2>1. x.known \in Tale /\ x.known.incarnation <= old[x.to]
    BY DEF MessageOK
  <2>2. x.known.incarnation \in Incarnation
    BY <2>1 DEF Tale
  <2> QED BY <1>1, <2>1, <2>2
<1> QED BY <1>1, <1>2, <1>3 DEF MessageOK

-----------------------------------------------------------------------------
(* The run loop.                                                            *)

\* startPeriod without a probe.
LEMMA IdlePeriodInv ==
  ASSUME IInv, NEW n \in Addr, IdlePeriod(n)
  PROVE  IInv'
<1> USE SwimAssumption DEF IdlePeriod
<1>1. Typed'
  BY DEF IInv, Typed
<1>2. \A k \in Addr : Apart(k)'
  BY DEF IInv, Typed, Apart, NoProbe
<1>3. \A k, m \in Addr : Behind(k, m)'
  BY DEF IInv, Behind
<1>4. \A x \in msgs' : MessageOK(x, incarnation)'
  BY DEF IInv, MessageOK
<1>5. NeverSelfAccusing'
  BY DEF IInv, NeverSelfAccusing
<1> QED BY <1>1, <1>2, <1>3, <1>4, <1>5 DEF IInv

\* startPeriod with a probe: the ping carries the rumours of the node.
LEMMA StartPeriodInv ==
  ASSUME IInv, NEW n \in Addr, NEW p \in Addr, StartPeriod(n, p)
  PROVE  IInv'
<1> USE UintAssumption, SwimAssumption
<1> DEFINE ping == [type |-> "Ping", from |-> n, to |-> p, cookie |-> FreshCookie(n),
                    incarnation |-> incarnation[n], events |-> [s \in Addr |-> Told(rumour[n][s])]]
<1>1. Typed /\ Apart(n) /\ p \in toPing[n] /\ p # n
  BY DEF IInv, Apart, StartPeriod
<1>2. \A k, m \in Addr : rumour[k][m] \in Slot
  BY <1>1 DEF Typed
<1>3. (\A k, m \in Addr : rumour'[k][m] \in {rumour[k][m], NoRumour})
      /\ rumour' \in [Addr -> [Addr -> Slot]]
  <2> DEFINE after == [s \in Addr |-> AfterHandOut(rumour[n][s])]
  <2>1. \A s \in Addr : after[s] \in {rumour[n][s], NoRumour} /\ after[s] \in Slot
    BY <1>2, HandOutValues, SlotFields
  <2>2. after \in [Addr -> Slot]
    BY <2>1
  <2>3. rumour' = [rumour EXCEPT ![n] = after] \/ rumour' = rumour
    BY DEF StartPeriod
  <2>4. rumour \in [Addr -> [Addr -> Slot]]
    BY <1>1 DEF Typed
  <2> HIDE DEF after
  <2>5. CASE rumour' = [rumour EXCEPT ![n] = after]
    <3>1. rumour' \in [Addr -> [Addr -> Slot]]
      BY <2>2, <2>4, <2>5
    <3>2. \A k \in Addr : rumour'[k] = IF k = n THEN after ELSE rumour[k]
      BY <2>4, <2>5
    <3> QED BY <2>1, <3>1, <3>2
  <2> QED BY <2>3, <2>4, <2>5
<1>5. toPing' \in [Addr -> SUBSET Addr] /\ \A k \in Addr : k \notin toPing'[k]
  BY <1>1 DEF IInv, Typed, Apart, StartPeriod, LeftToPing, Known
<1>6. probe' = [k \in Addr |-> probe'[k]]
      /\ \A k \in Addr : probe'[k].node \in (Addr \cup {NoAddr}) \ {k}
  <2>1. PICK q : probe' = [probe EXCEPT ![n] = q] /\ q.node \in {p, NoAddr}
    <3>1. CASE IsMember(member[n][p])
      <4> DEFINE q == [node |-> p, acked |-> FALSE, cookie |-> FreshCookie(n)]
      <4>1. probe' = [probe EXCEPT ![n] = q] /\ q.node = p
        BY <3>1 DEF StartPeriod
      <4> QED BY <4>1
    <3>2. CASE ~IsMember(member[n][p])
      <4>1. probe' = [probe EXCEPT ![n] = NoProbe] /\ NoProbe.node = NoAddr
        BY <3>2 DEF StartPeriod, NoProbe
      <4> QED BY <4>1
    <3> QED BY <3>1, <3>2
  <2>2. probe = [k \in Addr |-> probe[k]] /\ \A k \in Addr : probe[k].node \in (Addr \cup {NoAddr}) \ {k}
    BY <1>1 DEF IInv, Typed, Apart
  <2>3. probe' = [k \in Addr |-> IF k = n THEN q ELSE probe[k]]
    BY <2>1, <2>2
  <2> QED BY <1>1, <2>1, <2>2, <2>3
<1>7. UNCHANGED <<incarnation, member>>
  BY DEF StartPeriod
<1>8. Typed' /\ \A k \in Addr : Apart(k)'
  BY <1>3, <1>5, <1>6, <1>7 DEF IInv, Typed, Apart
<1>9. \A k, m \in Addr : Behind(k, m)'
  <2>1. NoRumour.incarnation = 0
    BY DEF NoRumour
  <2>2. \A m \in Addr : 0 <= incarnation[m]
    BY <1>1 DEF Typed
  <2>3. \A k, m \in Addr : rumour'[k][m].incarnation <= incarnation[m]
    BY <1>3, <2>1, <2>2 DEF IInv, Behind
  <2> QED BY <1>7, <2>3 DEF IInv, Behind
<1>10. MessageOK(ping, incarnation)
  <2>1. ping.events \in [Addr -> Tale] /\ \A m \in Addr : ping.events[m].incarnation <= incarnation[m]
    <3>1. \A m \in Addr : Told(rumour[n][m]) \in Tale /\ Told(rumour[n][m]).incarnation <= incarnation[m]
      BY <1>2, SlotFields DEF IInv, Behind
    <3> QED BY <3>1
  <2>2. ping.incarnation \in Incarnation /\ ping.incarnation <= incarnation[n]
    BY <1>1 DEF Typed
  <2> QED BY <2>1, <2>2 DEF MessageOK
<1>11. \A x \in msgs' : MessageOK(x, incarnation)'
  <2>1. msgs' \subseteq msgs \cup {ping}
    BY DEF StartPeriod
  <2> HIDE DEF ping
  <2>2. \A x \in msgs' : MessageOK(x, incarnation)
    BY <1>10, <2>1 DEF IInv
  <2> QED BY <1>7, <2>2 DEF MessageOK
<1>12. NeverSelfAccusing'
  BY <1>3 DEF IInv, NeverSelfAccusing, NoRumour
<1> QED BY <1>8, <1>9, <1>11, <1>12 DEF IInv

\* endPeriod: the outcome of the probe, which is never about the node itself.
LEMMA SignalInv ==
  ASSUME IInv, NEW n \in Addr, Signal(n)
  PROVE  IInv'
<1> USE UintAssumption, SwimAssumption
<1> DEFINE m == probe[n].node
           entry == IF probe[n].acked THEN MarkedStable(member[n][m])
                    ELSE MarkedSuspect(member[n][m], 0, FALSE)
           list == IF m = NoAddr THEN member[n]
                   ELSE [member[n] EXCEPT ![m] = entry]
<1>1. Typed /\ Apart(n) /\ m \in (Addr \cup {NoAddr}) \ {n}
  BY DEF IInv, Apart
<1>2. \A k, j \in Addr : member[k][j] \in Entry /\ member[k][j].incarnation <= incarnation[j]
                         /\ rumour[k][j] \in Slot /\ rumour[k][j].incarnation <= incarnation[j]
  BY <1>1 DEF IInv, Behind, Typed
<1>3. m # NoAddr => entry \in Entry /\ entry.incarnation <= incarnation[m]
  <2> SUFFICES ASSUME m # NoAddr PROVE entry \in Entry /\ entry.incarnation <= incarnation[m]
    OBVIOUS
  <2> DEFINE e == member[n][m]
  <2>1. m \in Addr /\ e \in Entry /\ e.incarnation <= incarnation[m]
    BY <1>1, <1>2
  <2>2. 0 \in Incarnation
    OBVIOUS
  <2>3. entry \in {MarkedStable(e), MarkedSuspect(e, 0, FALSE)}
    OBVIOUS
  <2> HIDE DEF e, m, entry
  <2> QED BY <2>1, <2>2, <2>3, EntryValues
<1>4. member' = [member EXCEPT ![n] = list] /\ UNCHANGED <<incarnation, toPing, msgs>>
      /\ probe' = [probe EXCEPT ![n] = NoProbe]
  BY DEF Signal
<1>5. list \in [Addr -> Entry] /\ (\A j \in Addr : list[j].incarnation <= incarnation[j])
      /\ list[n] = member[n][n]
  <2>1. member[n] \in [Addr -> Entry]
    BY <1>1 DEF Typed
  <2> HIDE DEF entry, m
  <2> QED BY <1>1, <1>2, <1>3, <2>1
<1>6. member' \in [Addr -> [Addr -> Entry]] /\ \A k \in Addr : member'[k] = IF k = n THEN list ELSE member[k]
  <2>1. member \in [Addr -> [Addr -> Entry]]
    BY <1>1 DEF Typed
  <2> HIDE DEF list
  <2> QED BY <1>4, <1>5, <2>1
<1>7. (rumour' \in [Addr -> [Addr -> Slot]]) /\ (\A k, j \in Addr : rumour'[k][j].incarnation <= incarnation[j])
      /\ (\A k \in Addr : rumour'[k][k] = rumour[k][k])
  <2>1. CASE rumour' = rumour
    BY <1>1, <1>2, <2>1 DEF Typed
  <2>2. CASE rumour' = WithRumour(n, m, "Suspect", list[m].incarnation) /\ m # NoAddr
    <3> DEFINE s == AddToSlot(rumour[n][m], "Suspect", list[m].incarnation)
    <3>1. m \in Addr /\ m # n /\ list[m].incarnation \in Incarnation /\ list[m].incarnation <= incarnation[m]
      BY <1>1, <1>5, <2>2 DEF Entry
    <3>2. s \in Slot /\ s.incarnation <= incarnation[m]
      <4>1. "Suspect" \in Kind /\ rumour[n][m] \in Slot /\ rumour[n][m].incarnation <= incarnation[m]
        BY <1>2, <3>1 DEF Kind
      <4> HIDE DEF m, list
      <4> QED BY <3>1, <4>1, AddValues
    <3>3. rumour' = [rumour EXCEPT ![n][m] = s] /\ rumour \in [Addr -> [Addr -> Slot]]
      BY <1>1, <2>2 DEF WithRumour, Typed
    <3> HIDE DEF s, m
    <3>4. rumour' \in [Addr -> [Addr -> Slot]]
      BY <3>1, <3>2, <3>3
    <3>5. \A k, j \in Addr : rumour'[k][j] = IF k = n /\ j = m THEN s ELSE rumour[k][j]
      BY <3>1, <3>3
    <3> QED BY <1>2, <3>1, <3>2, <3>4, <3>5
  <2> QED BY <2>1, <2>2 DEF Signal
<1>8. probe' = [k \in Addr |-> IF k = n THEN NoProbe ELSE probe[k]] /\ NoProbe.node = NoAddr
  BY <1>1, <1>4 DEF Typed, NoProbe
<1> HIDE DEF list, m
<1>9. Typed'
  BY <1>1, <1>4, <1>6, <1>7, <1>8 DEF Typed
<1>10. \A k \in Addr : Apart(k)'
  BY <1>4, <1>5, <1>6, <1>8 DEF IInv, Apart
<1>11. \A k, j \in Addr : Behind(k, j)'
  BY <1>2, <1>4, <1>5, <1>6, <1>7 DEF Behind
<1>12. \A x \in msgs' : MessageOK(x, incarnation)'
  BY <1>4 DEF IInv, MessageOK
<1>13. NeverSelfAccusing'
  BY <1>7 DEF IInv, NeverSelfAccusing
<1> QED BY <1>9, <1>10, <1>11, <1>12, <1>13 DEF IInv

\* endPeriod: suspects expire.  The node is not among them.
LEMMA ExpireInv ==
  ASSUME IInv, NEW n \in Addr, Expire(n)
  PROVE  IInv'
<1> USE UintAssumption
<1> DEFINE Over  == Overdue(member[n], age[n])
           Local == {m \in Over : ~member[n][m].remote}
           list == [m \in Addr |-> IF m \in Over THEN NoMember ELSE member[n][m]]
           slots == [m \in Addr |-> IF m \in Local
                                    THEN AddToSlot(rumour[n][m], "Faulty", member[n][m].incarnation)
                                    ELSE rumour[n][m]]
<1>1. Typed /\ ~IsMember(member[n][n]) /\ n \notin Over /\ n \notin Local
  BY DEF IInv, Apart, Overdue, IsMember
<1>2. \A k, j \in Addr : member[k][j] \in Entry /\ member[k][j].incarnation <= incarnation[j]
                         /\ rumour[k][j] \in Slot /\ rumour[k][j].incarnation <= incarnation[j]
  BY <1>1 DEF IInv, Behind, Typed
<1>3. /\ member' = [member EXCEPT ![n] = list]
      /\ rumour' = [rumour EXCEPT ![n] = slots]
      /\ toPing' = [toPing EXCEPT ![n] = toPing[n] \ Local]
      /\ UNCHANGED <<incarnation, probe, msgs>>
  <2>1. member[n] = [m \in Addr |-> member[n][m]] /\ rumour[n] = [m \in Addr |-> rumour[n][m]]
    BY <1>1 DEF Typed
  <2> QED BY <1>1 DEF Expire, Typed
<1> HIDE DEF Over, Local
<1>4. list \in [Addr -> Entry] /\ (\A j \in Addr : list[j].incarnation <= incarnation[j])
      /\ list[n] = member[n][n]
  <2>1. NoMember \in Entry /\ NoMember.incarnation = 0
    BY DEF NoMember, Entry
  <2>2. \A j \in Addr : 0 <= incarnation[j]
    BY <1>1 DEF Typed
  <2> QED BY <1>1, <1>2, <2>1, <2>2
<1>5. slots \in [Addr -> Slot] /\ (\A j \in Addr : slots[j].incarnation <= incarnation[j])
      /\ slots[n] = rumour[n][n]
  <2>1. ASSUME NEW j \in Addr
        PROVE  slots[j] \in Slot /\ slots[j].incarnation <= incarnation[j]
    <3>1. member[n][j].incarnation \in Incarnation /\ "Faulty" \in Kind
      BY <1>2 DEF Entry, Kind
    <3> QED BY <1>2, <3>1, AddValues
  <2> QED BY <1>1, <2>1
<1> HIDE DEF list, slots
<1>6. member' \in [Addr -> [Addr -> Entry]] /\ \A k \in Addr : member'[k] = IF k = n THEN list ELSE member[k]
  BY <1>1, <1>3, <1>4 DEF Typed
<1>7. rumour' \in [Addr -> [Addr -> Slot]] /\ \A k \in Addr : rumour'[k] = IF k = n THEN slots ELSE rumour[k]
  BY <1>1, <1>3, <1>5 DEF Typed
<1>8. toPing' \in [Addr -> SUBSET Addr] /\ \A k \in Addr : toPing'[k] \subseteq toPing[k]
  BY <1>1, <1>3 DEF Typed
<1>9. Typed'
  BY <1>1, <1>3, <1>6, <1>7, <1>8 DEF Typed
<1>10. \A k \in Addr : Apart(k)'
  BY <1>3, <1>4, <1>6, <1>8 DEF IInv, Apart
<1>11. \A k, j \in Addr : Behind(k, j)'
  BY <1>2, <1>3, <1>4, <1>5, <1>6, <1>7 DEF Behind
<1>12. \A x \in msgs' : MessageOK(x, incarnation)'
  BY <1>3 DEF IInv, MessageOK
<1>13. NeverSelfAccusing'
  BY <1>5, <1>7 DEF IInv, NeverSelfAccusing
<1> QED BY <1>9, <1>10, <1>11, <1>12, <1>13 DEF IInv

-----------------------------------------------------------------------------
(* The handler of datagrams.                                                *)

\* The handler of a Ping: the node answers what is said of itself and learns the rest.
LEMMA ReceivePingInv ==
  ASSUME IInv, Unwrapped, NEW x \in msgs, ReceivePing(x)
  PROVE  IInv'
<1> USE UintAssumption
<1> DEFINE m == x.to
           own == incarnation[m]
           met == [member[m] EXCEPT ![x.from] = Met(@, x.incarnation)]
           list == [s \in Addr |-> IF s = m THEN NoMember ELSE Learned(met[s], x.events[s])]
           slots == [s \in Addr |-> IF s = m THEN Answered(rumour[m][s], x.events[s], own)
                                    ELSE Heard(rumour[m][s], x.events[s])]
           pong == [type |-> "Pong", from |-> m, to |-> x.from, cookie |-> x.cookie,
                    known |-> Told(rumour[m][x.from])]
<1>1. Typed /\ MessageOK(x, incarnation) /\ x.type = "Ping"
  BY DEF IInv, ReceivePing
<1>2. m \in Addr /\ x.from \in Addr /\ x.incarnation \in Incarnation /\ x.incarnation <= incarnation[x.from]
      /\ \A s \in Addr : x.events[s] \in Tale /\ x.events[s].incarnation <= incarnation[s]
                         /\ x.events[s].incarnation \in Incarnation
  BY <1>1 DEF MessageOK, Tale
<1>3. \A k, j \in Addr : member[k][j] \in Entry /\ member[k][j].incarnation <= incarnation[j]
                         /\ rumour[k][j] \in Slot /\ rumour[k][j].incarnation <= incarnation[j]
                         /\ incarnation[j] \in Incarnation
  BY <1>1 DEF IInv, Behind, Typed
<1>4. /\ member' = [member EXCEPT ![m] = list]
      /\ rumour' = [rumour EXCEPT ![m] = slots]
      /\ incarnation' = [incarnation EXCEPT ![m] = Raised(x.events[m], own)]
      /\ \A k \in Addr : toPing'[k] \subseteq toPing[k]
      /\ toPing' \in [Addr -> SUBSET Addr]
      /\ msgs' \subseteq msgs \cup {pong}
      /\ probe' = probe
  <2>1. member' = [member EXCEPT ![m] = list] /\ probe' = probe /\ msgs' \subseteq msgs \cup {pong}
    BY DEF ReceivePing, Take
  <2>2. rumour' = [rumour EXCEPT ![m] = slots]
    BY DEF ReceivePing
  <2>3. incarnation' = [incarnation EXCEPT ![m] = Raised(x.events[m], own)]
    BY DEF ReceivePing, Raised
  <2>4. \E S \in SUBSET toPing[m] : toPing' = [toPing EXCEPT ![m] = S]
    BY DEF ReceivePing
  <2>5. toPing \in [Addr -> SUBSET Addr]
    BY <1>1 DEF Typed
  <2> QED BY <1>2, <2>1, <2>2, <2>3, <2>4, <2>5
<1>5. /\ Raised(x.events[m], own) \in Incarnation /\ own <= Raised(x.events[m], own)
      /\ slots[m] \in Slot
      /\ slots[m].incarnation <= Raised(x.events[m], own)
      /\ slots[m].kind \notin Accusations
  <2>1. own \in Incarnation /\ own < MaxUint16 /\ rumour[m][m] \in Slot /\ rumour[m][m].incarnation <= own
        /\ x.events[m] \in Tale /\ x.events[m].incarnation <= own
    BY <1>2, <1>3 DEF Unwrapped
  <2>2. rumour[m][m].kind \notin Accusations
    BY <1>2 DEF IInv, NeverSelfAccusing, Accusations
  <2>3. slots[m] = Answered(rumour[m][m], x.events[m], own)
    BY <1>2
  <2> HIDE DEF slots, own, m
  <2> QED BY <2>1, <2>2, <2>3, AnsweredValues
<1>6. incarnation' \in [Addr -> Incarnation] /\ incarnation'[m] = Raised(x.events[m], own)
      /\ \A k \in Addr : incarnation[k] <= incarnation'[k]
  <2>1. incarnation \in [Addr -> Incarnation]
    BY <1>1 DEF Typed
  <2>2. \A k \in Addr : incarnation'[k] = IF k = m THEN Raised(x.events[m], own) ELSE incarnation[k]
    BY <1>2, <1>4, <2>1
  <2> DEFINE new == Raised(x.events[m], own)
  <2>3. incarnation' = [incarnation EXCEPT ![m] = new] /\ new \in Incarnation /\ own <= new
    BY <1>4, <1>5
  <2> HIDE DEF new
  <2>4. incarnation' \in [Addr -> Incarnation]
    BY <1>2, <2>1, <2>3
  <2>5. \A k \in Addr : incarnation[k] <= incarnation'[k]
    BY <1>2, <1>3, <2>1, <2>3
  <2> QED BY <1>2, <2>2, <2>4, <2>5
<1>7. list \in [Addr -> Entry] /\ list[m] = NoMember /\ \A s \in Addr : list[s].incarnation <= incarnation[s]
  <2>1. NoMember \in Entry /\ NoMember.incarnation = 0
    BY DEF NoMember, Entry
  <2>2. ASSUME NEW s \in Addr PROVE met[s] \in Entry /\ met[s].incarnation <= incarnation[s]
    <3>1. met[s] = IF s = x.from THEN Met(member[m][s], x.incarnation) ELSE member[m][s]
      BY <1>1, <1>2 DEF Typed
    <3> DEFINE e == member[m][s]
    <3>2. e \in Entry /\ e.incarnation <= incarnation[s]
      BY <1>2, <1>3
    <3> HIDE DEF met, m, e
    <3>3. CASE s = x.from
      <4>1. met[s] = Met(e, x.incarnation) /\ x.incarnation <= incarnation[s]
        BY <1>2, <3>1, <3>3 DEF e
      <4>2. Met(e, x.incarnation) \in Entry /\ Met(e, x.incarnation).incarnation \in {e.incarnation, x.incarnation}
        BY <1>2, <3>2, EntryValues
      <4> QED BY <3>2, <4>1, <4>2
    <3>4. CASE s # x.from
      BY <3>1, <3>2, <3>4 DEF e
    <3> QED BY <3>3, <3>4
  <2> HIDE DEF met
  <2>3. ASSUME NEW s \in Addr PROVE list[s] \in Entry /\ list[s].incarnation <= incarnation[s]
    <3>1. met[s] \in Entry /\ met[s].incarnation <= incarnation[s] /\ x.events[s] \in Tale
          /\ x.events[s].incarnation <= incarnation[s] /\ 0 <= incarnation[s]
      BY <1>2, <1>3, <2>2
    <3>2. list[s] = NoMember \/ list[s] = Learned(met[s], x.events[s])
      OBVIOUS
    <3> HIDE DEF list
    <3> QED BY <2>1, <3>1, <3>2, LearnedValues
  <2> QED BY <1>2, <2>3
<1>8. slots \in [Addr -> Slot] /\ \A s \in Addr : s # m => slots[s].incarnation <= incarnation[s]
  <2>1. ASSUME NEW s \in Addr, s # m PROVE slots[s] \in Slot /\ slots[s].incarnation <= incarnation[s]
    <3>1. slots[s] = Heard(rumour[m][s], x.events[s])
      BY <2>1
    <3>2. rumour[m][s] \in Slot /\ rumour[m][s].incarnation <= incarnation[s]
          /\ x.events[s] \in Tale /\ x.events[s].incarnation <= incarnation[s]
      BY <1>2, <1>3
    <3> HIDE DEF slots, m
    <3> QED BY <3>1, <3>2, HeardValues
  <2>2. \A s \in Addr : slots[s] \in Slot
    BY <1>5, <2>1
  <2> QED BY <2>1, <2>2
<1>9. MessageOK(pong, incarnation)
  <2>1. pong.known \in Tale /\ pong.known.incarnation <= incarnation[x.from]
    BY <1>2, <1>3, SlotFields
  <2>2. pong.type = "Pong" /\ pong.from = m /\ pong.to = x.from
    OBVIOUS
  <2> HIDE DEF pong, m
  <2> QED BY <1>2, <2>1, <2>2 DEF MessageOK
<1> HIDE DEF list, slots, pong, own
<1>10. member' \in [Addr -> [Addr -> Entry]] /\ \A k \in Addr : member'[k] = IF k = m THEN list ELSE member[k]
  BY <1>1, <1>2, <1>4, <1>7 DEF Typed
<1>11. rumour' \in [Addr -> [Addr -> Slot]] /\ \A k \in Addr : rumour'[k] = IF k = m THEN slots ELSE rumour[k]
  BY <1>1, <1>2, <1>4, <1>8 DEF Typed
<1> HIDE DEF m
<1>12. Typed'
  BY <1>1, <1>4, <1>6, <1>10, <1>11 DEF Typed
<1>13. \A k \in Addr : Apart(k)'
  BY <1>4, <1>7, <1>10 DEF IInv, Apart, IsMember, NoMember
<1>14. \A k, j \in Addr : Behind(k, j)'
  <2> SUFFICES ASSUME NEW k \in Addr, NEW j \in Addr PROVE Behind(k, j)'
    OBVIOUS
  <2>1. incarnation[j] \in Incarnation /\ incarnation'[j] \in Incarnation /\ incarnation[j] <= incarnation'[j]
    BY <1>3, <1>6
  <2>2. member'[k][j].incarnation \in Incarnation /\ rumour'[k][j].incarnation \in Incarnation
    BY <1>10, <1>11, SlotFields DEF Entry
  <2>3. member'[k][j].incarnation <= incarnation[j]
    BY <1>3, <1>7, <1>10
  <2>4. rumour'[k][j].incarnation <= incarnation[j] \/ (j = m /\ rumour'[k][j].incarnation <= incarnation'[j])
    BY <1>3, <1>5, <1>6, <1>8, <1>11
  <2> QED BY <2>1, <2>2, <2>3, <2>4 DEF Behind
<1>15. \A y \in msgs' : MessageOK(y, incarnation')
  <2>1. \A y \in msgs' : MessageOK(y, incarnation)
    BY <1>4, <1>9 DEF IInv
  <2>2. incarnation \in [Addr -> Incarnation]
    BY <1>1 DEF Typed
  <2> QED BY <1>6, <2>1, <2>2, Later
<1>16. NeverSelfAccusing'
  BY <1>5, <1>11 DEF IInv, NeverSelfAccusing, Accusations
<1> QED BY <1>12, <1>13, <1>14, <1>15, <1>16 DEF IInv

\* The handler of a Pong: the node answers what the sender of the pong knows of it.
LEMMA ReceivePongInv ==
  ASSUME IInv, Unwrapped, NEW x \in msgs, ReceivePong(x)
  PROVE  IInv'
<1> USE UintAssumption
<1> DEFINE n == x.to
           i == Surpassed(x.known.incarnation)
           slot == AddToSlot(rumour[n][n], "Alive", i)
<1>1. Typed /\ MessageOK(x, incarnation) /\ x.type = "Pong"
  BY DEF IInv, ReceivePong
<1>2. n \in Addr /\ x.known \in Tale /\ x.known.incarnation \in Incarnation
      /\ x.known.incarnation <= incarnation[n] /\ incarnation[n] \in Incarnation /\ incarnation[n] < MaxUint16
  BY <1>1 DEF MessageOK, Tale, Typed, Unwrapped
<1>3. \A k, j \in Addr : rumour[k][j] \in Slot /\ rumour[k][j].incarnation <= incarnation[j]
                         /\ member[k][j].incarnation <= incarnation[j]
                         /\ incarnation[j] \in Incarnation /\ member[k][j].incarnation \in Incarnation
                         /\ rumour[k][j].incarnation \in Incarnation
  BY <1>1, SlotFields DEF IInv, Behind, Typed, Entry
<1>4. UNCHANGED <<member, toPing>> /\ msgs' \subseteq msgs
  BY DEF ReceivePong, Take
<1>5. probe' = [k \in Addr |-> probe'[k]] /\ \A k \in Addr : probe'[k].node = probe[k].node
  <2>1. probe = [k \in Addr |-> probe[k]]
    BY <1>1 DEF Typed
  <2>2. probe' = probe \/ probe' = [probe EXCEPT ![n].acked = TRUE]
    BY DEF ReceivePong
  <2>3. CASE probe' = [probe EXCEPT ![n].acked = TRUE]
    <3> DEFINE q == [probe[n] EXCEPT !.acked = TRUE]
    <3>1. probe' = [probe EXCEPT ![n] = q]
      BY <2>3
    <3>2. q.node = probe[n].node
      OBVIOUS
    <3> HIDE DEF q
    <3> QED BY <1>2, <2>1, <3>1, <3>2
  <2> QED BY <2>1, <2>2, <2>3
<1>6. CASE ~Challenges(x.known, incarnation[n])
  <2>1. UNCHANGED <<incarnation, rumour>>
    BY <1>6 DEF ReceivePong
  <2>2. Typed' /\ \A k \in Addr : Apart(k)'
    BY <1>1, <1>4, <1>5, <2>1 DEF IInv, Typed, Apart
  <2>3. \A k, j \in Addr : Behind(k, j)'
    BY <1>4, <2>1 DEF IInv, Behind
  <2>4. \A y \in msgs' : MessageOK(y, incarnation)'
    BY <1>4, <2>1 DEF IInv, MessageOK
  <2>5. NeverSelfAccusing'
    BY <2>1 DEF IInv, NeverSelfAccusing
  <2> QED BY <2>2, <2>3, <2>4, <2>5 DEF IInv
<1>7. CASE Challenges(x.known, incarnation[n])
  <2>1. incarnation' = [incarnation EXCEPT ![n] = i] /\ rumour' = [rumour EXCEPT ![n][n] = slot]
    BY <1>7 DEF ReceivePong, WithRumour
  <2>2. i \in Incarnation /\ incarnation[n] <= i /\ i = x.known.incarnation + 1
    BY <1>2, <1>7 DEF Surpassed, Challenges
  <2>3. slot \in Slot /\ slot.incarnation <= i /\ slot.kind \notin Accusations
    <3>1. "Alive" \in Kind /\ rumour[n][n] \in Slot /\ rumour[n][n].incarnation <= i
          /\ rumour[n][n].kind \notin Accusations
      <4>1. "Alive" \in Kind
        BY DEF Kind
      <4>2. rumour[n][n] \in Slot /\ rumour[n][n].incarnation <= incarnation[n]
            /\ rumour[n][n].incarnation \in Incarnation
        BY <1>2, <1>3
      <4>3. rumour[n][n].incarnation <= i
        BY <1>2, <2>2, <4>2
      <4>4. rumour[n][n].kind \notin Accusations
        BY <1>2 DEF IInv, NeverSelfAccusing, Accusations
      <4> QED BY <4>1, <4>2, <4>3, <4>4
    <3>2. "Alive" \notin Accusations
      BY DEF Accusations
    <3> HIDE DEF i, n
    <3> QED BY <2>2, <3>1, <3>2, AddValues
  <2> HIDE DEF i, slot
  <2>4. incarnation' \in [Addr -> Incarnation]
        /\ \A k \in Addr : incarnation'[k] = IF k = n THEN i ELSE incarnation[k]
    BY <1>1, <1>2, <2>1, <2>2 DEF Typed
  <2>5. rumour' \in [Addr -> [Addr -> Slot]]
        /\ \A k, j \in Addr : rumour'[k][j] = IF k = n /\ j = n THEN slot ELSE rumour[k][j]
    BY <1>1, <1>2, <2>1, <2>3 DEF Typed
  <2> HIDE DEF n
  <2>6. Typed'
    BY <1>1, <1>4, <1>5, <2>4, <2>5 DEF Typed
  <2>7. \A k \in Addr : Apart(k)'
    BY <1>4, <1>5 DEF IInv, Apart
  <2>8. \A k \in Addr : incarnation[k] <= incarnation'[k]
    BY <1>3, <2>2, <2>4
  <2>9. \A k, j \in Addr : Behind(k, j)'
    <3> SUFFICES ASSUME NEW k \in Addr, NEW j \in Addr PROVE Behind(k, j)'
      OBVIOUS
    <3>1. member'[k][j].incarnation <= incarnation'[j]
      BY <1>3, <1>4, <2>4, <2>8
    <3>2. rumour'[k][j].incarnation <= incarnation'[j]
      BY <1>3, <2>3, <2>4, <2>5, <2>8
    <3> QED BY <3>1, <3>2 DEF Behind
  <2>10. \A y \in msgs' : MessageOK(y, incarnation')
    <3>1. \A y \in msgs' : MessageOK(y, incarnation)
      BY <1>4 DEF IInv
    <3>2. incarnation \in [Addr -> Incarnation]
      BY <1>1 DEF Typed
    <3> QED BY <2>4, <2>8, <3>1, <3>2, Later
  <2>11. NeverSelfAccusing'
    BY <2>3, <2>5 DEF IInv, NeverSelfAccusing, Accusations
  <2> QED BY <2>6, <2>7, <2>9, <2>10, <2>11 DEF IInv
<1> QED BY <1>6, <1>7

-----------------------------------------------------------------------------
(* The theorems.                                                            *)

\* Steps that touch no more than the network and the set of live nodes.
LEMMA QuietInv ==
  ASSUME IInv, UNCHANGED <<incarnation, member, rumour, toPing, probe>>, msgs' \subseteq msgs
  PROVE  IInv'
<1>1. Typed' /\ \A k \in Addr : Apart(k)'
  BY DEF IInv, Typed, Apart
<1>2. \A k, j \in Addr : Behind(k, j)'
  BY DEF IInv, Behind
<1>3. \A y \in msgs' : MessageOK(y, incarnation)'
  BY DEF IInv, MessageOK
<1>4. NeverSelfAccusing'
  BY DEF IInv, NeverSelfAccusing
<1> QED BY <1>1, <1>2, <1>3, <1>4 DEF IInv

\* Every step preserves the invariant as long as no counter is about to wrap.
LEMMA NextInv == IInv /\ Unwrapped /\ [Next]_vars => IInv'
<1> SUFFICES ASSUME IInv, Unwrapped, [Next]_vars PROVE IInv'
  OBVIOUS
<1>1. ASSUME NEW n \in Addr, IdlePeriod(n) PROVE IInv'
  BY <1>1, IdlePeriodInv
<1>2. ASSUME NEW n \in Addr, NEW m \in Addr, StartPeriod(n, m) PROVE IInv'
  BY <1>2, StartPeriodInv
<1>3. ASSUME NEW n \in Addr, Signal(n) PROVE IInv'
  BY <1>3, SignalInv
<1>4. ASSUME NEW n \in Addr, Expire(n) PROVE IInv'
  BY <1>4, ExpireInv
<1>5. ASSUME NEW n \in Addr, Crash(n) PROVE IInv'
  BY <1>5, QuietInv DEF Crash
<1>6. ASSUME NEW x \in msgs, ReceivePing(x) PROVE IInv'
  BY <1>6, ReceivePingInv
<1>7. ASSUME NEW x \in msgs, ReceivePong(x) PROVE IInv'
  BY <1>7, ReceivePongInv
<1>8. ASSUME NEW x \in msgs, Lose(x) PROVE IInv'
  BY <1>8, QuietInv DEF Lose
<1>9. CASE UNCHANGED vars
  BY <1>9, QuietInv DEF vars
<1> QED
  BY <1>1, <1>2, <1>3, <1>4, <1>5, <1>6, <1>7, <1>8, <1>9 DEF Next, RunLoop, Network

\* Until a counter wraps, the invariant holds.
LEMMA Invariance == Spec /\ []Unwrapped => []IInv
BY InitInv, NextInv, PTL DEF Spec

\* Whatever is lost, duplicated, late or reordered and whoever crashes: nobody knows,
\* spreads or sends a higher incarnation of a node than the node's own, until a
\* counter wraps.
THEOREM Authority == Spec /\ []Unwrapped => []IncarnationAuthority
<1>1. IInv => IncarnationAuthority
  BY DEF IInv, Behind, MessageOK, IncarnationAuthority
<1> QED BY <1>1, Invariance, PTL

\* Under the same condition no node ever holds an accusation of itself between two
\* datagrams, so none leaves it with a ping.
THEOREM NoSelfAccusation == Spec /\ []Unwrapped => []NeverSelfAccusing
<1>1. IInv => NeverSelfAccusing
  BY DEF IInv
<1> QED BY <1>1, Invariance, PTL

=============================================================================

-------------------------- MODULE SuspicionProofs --------------------------
(***************************************************************************)
(* Proofs about NodeManager: how long a suspicion lasts.                   *)
(*                                                                         *)
(* ExpiredSuspects measures the distance between two period identifiers,   *)
(* which wrap.  A suspicion that has not met the wrap is as old as that    *)
(* distance.  One that has met it is at least MaxUint16 - SuspectPeriods   *)
(* away, and so expires at the next opportunity if that is no less than    *)
(* SuspectPeriods: early, but never late.                                  *)
(***************************************************************************)
EXTENDS NodeManagerProofs

\* SuspectPeriods, a uint16 of the options, is 20 by default; 32767 is the most this allows.
WrapIsFar == 2 * SuspectPeriods <= MaxUint16

\* The state of the suspicion of a.
Timely(a) ==
  /\ list[a].suspect = NoSuspect => age[a] = 0
  /\ list[a].suspect # NoSuspect =>
       /\ age[a] <= SuspectPeriods
       /\ \/ list[a].suspect.at <= period /\ age[a] = period - list[a].suspect.at
          \/ list[a].suspect.at > period /\ Elapsed(period, list[a].suspect.at) >= SuspectPeriods
       /\ pc = "expire" /\ a \notin expired => Elapsed(period, list[a].suspect.at) < SuspectPeriods

-----------------------------------------------------------------------------

\* Identifiers of periods are never so far apart that the cap matters.
LEMMA ElapsedValues ==
  ASSUME NEW p \in Period, NEW q \in Period
  PROVE  Elapsed(p, q) = (IF p >= q THEN p - q ELSE q - p) /\ Elapsed(p, q) \in Nat
BY UintAssumption DEF Elapsed, Period

\* The next period, for a suspicion that has not expired in this one.
LEMMA IncrementedValues ==
  ASSUME WrapIsFar, NEW p \in Period, NEW at \in Period, at <= p, Elapsed(p, at) < SuspectPeriods
  PROVE  \/ at <= Incremented(p) /\ Incremented(p) - at = p - at + 1
         \/ at > Incremented(p) /\ Elapsed(Incremented(p), at) >= SuspectPeriods
<1>1. p - at < SuspectPeriods
  BY ElapsedValues DEF Period
<1>2. CASE p + 1 >= MaxUint16
  <2>1. Incremented(p) = 0 /\ p = MaxUint16 - 1 /\ 0 \in Period
    BY <1>2, UintAssumption DEF Incremented, Period
  <2>2. at >= SuspectPeriods /\ at > 0
    BY <1>1, <2>1, UintAssumption, SuspectPeriodsAssumption DEF WrapIsFar, Period
  <2>3. Elapsed(0, at) = at
    BY <2>1, <2>2, ElapsedValues DEF Period
  <2> QED BY <2>1, <2>2, <2>3 DEF Period
<1>3. CASE ~(p + 1 >= MaxUint16)
  BY <1>3, UintAssumption DEF Incremented, Period
<1> QED BY <1>2, <1>3

\* A change of an entry in period p: a suspicion that was there keeps its date, and
\* a new one has the date p.
Dated(e, f, p) == f.state = "Suspect" => f.at = IF e.state = "Suspect" THEN e.at ELSE p

\* The operations of Members date suspicions so.
LEMMA OperatorsDate ==
  ASSUME NEW e, NEW p, NEW i, NEW b
  PROVE  /\ Dated(e, e, p) /\ Dated(e, NoMember, p)
         /\ Dated(e, Added(e, p, i, b), p)
         /\ Dated(e, MarkedStable(e), p)
         /\ Dated(e, MarkedSuspect(e, p, b), p)
         /\ Dated(e, UpdatedOrCreated(e, p, i, b), p)
         /\ Dated(e, WrappedIncarnation(i), p)
<1>1. Dated(e, e, p)
  BY DEF Dated
<1>2. Dated(e, NoMember, p) /\ Dated(e, StableEntry(i), p) /\ Dated(e, StableEntry(e.incarnation), p)
  BY DEF Dated, NoMember, StableEntry
<1>3. e.state # "Suspect" => \A j, r : Dated(e, SuspectEntry(j, p, r), p)
  BY DEF Dated, SuspectEntry
<1>4. e.state = "Suspect" => Dated(e, SuspectEntry(i, e.at, e.remote), p)
  BY DEF Dated, SuspectEntry
<1>5. e.state = "Suspect" => IsMember(e) /\ e.state # "Stable"
  BY DEF IsMember
<1> QED
  BY <1>1, <1>2, <1>3, <1>4, <1>5
  DEF Added, MarkedStable, MarkedSuspect, UpdatedOrCreated, WrappedIncarnation

\* So do all steps.
LEMMA NextDates ==
  ASSUME Inv, [Next]_vars, NEW a \in Addr
  PROVE  Dated(EntryOf(list[a]), EntryOf(list'[a]), period)
<1> DEFINE en == [x \in Addr |-> EntryOf(list[x])]
           D  == Dated(en[a], en'[a], period)
<1>0. en[a] = EntryOf(list[a]) /\ en'[a] = EntryOf(list'[a])
  OBVIOUS
<1>1. ASSUME NEW x, NEW f, View!Apply(x, f), Dated(en[x], f, period) PROVE D
  BY <1>1, OperatorsDate, SMTT(30) DEF View!Apply
<1>2. ASSUME NEW x \in Others,
             \/ View!Trust(x) \/ View!Suspect(x) \/ View!Remove(x)
             \/ \E i \in Incarnation : \/ View!Admit(x, i)
                                       \/ View!Wrap(x, i)
                                       \/ \E b \in BOOLEAN : View!Update(x, i, b)
      PROVE  D
  <2> HIDE DEF D
  <2> QED BY <1>1, <1>2, ViewOperators, OperatorsDate
          DEF View!Trust, View!Suspect, View!Remove, View!Admit, View!Wrap, View!Update
<1>3. ASSUME NEW batch, View!AdmitAll(batch) PROVE D
  <2>1. \/ en'[a] = en[a]
        \/ en'[a] = View!Added(en[a], period, batch[a], FALSE)
    BY <1>3, ZenonT(30) DEF View!AdmitAll
  <2> HIDE DEF en
  <2>2. View!Added(en[a], period, batch[a], FALSE) = Added(en[a], period, batch[a], FALSE)
    BY ViewOperators
  <2> QED BY <2>1, <2>2, OperatorsDate
<1>4. ASSUME View!ExpireRemote PROVE D
  BY <1>4, ViewOperators, OperatorsDate, ZenonT(30) DEF View!ExpireRemote
<1>5. ASSUME View!Tick \/ UNCHANGED View!vars PROVE D
  BY <1>5, OperatorsDate DEF View!Tick, View!vars
<1>6. D
  <2> HIDE DEF D
  <2>1. View!Next \/ UNCHANGED View!vars
    BY NextEntry, SMTT(30)
  <2> QED BY <1>2, <1>3, <1>4, <1>5, <2>1, ViewOperators DEF View!Next
<1> QED BY <1>0, <1>6

\* The same for the slots of the node list.
LEMMA NextSlots ==
  ASSUME Inv, Inv', [Next]_vars, NEW a \in Addr, list'[a].suspect # NoSuspect
  PROVE  /\ list[a].suspect # NoSuspect => list'[a].suspect.at = list[a].suspect.at
         /\ list[a].suspect = NoSuspect => list'[a].suspect.at = period
<1>1. SlotOK(list[a])
  BY SlotsOK
<1>2. SlotOK(list'[a])
  BY DEF Inv, TypeOK, IndexConsistent, SlotOK
<1>3. Dated(EntryOf(list[a]), EntryOf(list'[a]), period)
  BY NextDates
<1> QED BY <1>1, <1>2, <1>3, SuspectEntryOf DEF Dated

-----------------------------------------------------------------------------

\* The history: the age of a suspicion that was there and still is stays, that of
\* any other node becomes 0.
LEMMA AgedValues ==
  ASSUME Inv, Inv', Aged, NEW a \in Addr
  PROVE  /\ list[a].suspect # NoSuspect /\ list'[a].suspect # NoSuspect => age'[a] = age[a]
         /\ list[a].suspect = NoSuspect \/ list'[a].suspect = NoSuspect => age'[a] = 0
<1>1. Consistent(list[a]) /\ Consistent(list'[a])
  BY DEF Inv, IndexConsistent
<1>2. age'[a] = IF list[a].type = "Suspect" /\ list'[a].type = "Suspect" THEN age[a] ELSE 0
  BY DEF Aged
<1> QED BY <1>1, <1>2 DEF Consistent

\* The date of a suspicion is a period.
LEMMA Dates ==
  ASSUME NEW s \in Slot, s.suspect # NoSuspect
  PROVE  s.suspect.at \in Period
<1>1. s.suspect \in SuspectNode
  BY DEF Slot
<1> QED BY <1>1 DEF SuspectNode

\* A step within a period that forgets the nodes it strikes off expired.
LEMMA WithinPeriod ==
  ASSUME Inv, Inv', [Next]_vars, Aged, period' = period, pc' = pc, NEW a \in Addr, Timely(a),
         a \in expired /\ a \notin expired' => list'[a].suspect = NoSuspect,
         expired' \subseteq expired
  PROVE  Timely(a)'
<1>1. period \in Period /\ period \in Int /\ SuspectPeriods \in Nat \ {0}
  BY SuspectPeriodsAssumption DEF Inv, TypeOK, Period
<1>2. CASE list'[a].suspect = NoSuspect
  BY <1>2, AgedValues DEF Timely
<1>3. CASE list'[a].suspect # NoSuspect /\ list[a].suspect # NoSuspect
  <2>1. age'[a] = age[a] /\ list'[a].suspect.at = list[a].suspect.at
    BY <1>3, AgedValues, NextSlots
  <2> QED BY <1>3, <2>1 DEF Timely
<1>4. CASE list'[a].suspect # NoSuspect /\ list[a].suspect = NoSuspect
  <2>1. age'[a] = 0 /\ list'[a].suspect.at = period
    BY <1>4, AgedValues, NextSlots
  <2>2. Elapsed(period, period) = 0
    BY <1>1, ElapsedValues
  <2> QED BY <1>1, <1>4, <2>1, <2>2 DEF Timely
<1> QED BY <1>2, <1>3, <1>4

\* ExpiredSuspects leaves no expired suspect but those it returns.
LEMMA ExpiredSuspectsTimely ==
  ASSUME Inv, Inv', ExpiredSuspects, NEW a \in Addr, Timely(a) PROVE Timely(a)'
<1>1. period \in Period /\ period' = period /\ list[a] \in Slot /\ pc' = "expire" /\ Aged
  BY DEF Inv, TypeOK, ExpiredSuspects
<1>2. [Next]_vars
  BY DEF Next
<1>3. CASE list'[a].suspect = NoSuspect
  BY <1>1, <1>3, AgedValues DEF Timely
<1>4. CASE list'[a].suspect # NoSuspect
  <2>1. list'[a] = IF SlotExpired(list[a], period) /\ list[a].suspect.remote
                   THEN SlotMarkedFaulty(list[a]) ELSE list[a]
    BY SMTT(30) DEF ExpiredSuspects
  <2>2. SlotMarkedFaulty(list[a]) = NoSlot /\ NoSlot.suspect = NoSuspect
    BY SlotsOK, RemoveOK DEF NoSlot
  <2>3. list'[a] = list[a] /\ list[a].suspect # NoSuspect
        /\ ~(SlotExpired(list[a], period) /\ list[a].suspect.remote)
    BY <1>4, <2>1, <2>2
  <2>4. a \in expired' \/ ~SlotExpired(list[a], period)
    BY <2>3 DEF ExpiredSuspects
  <2>5. list[a].suspect.at \in Period
    BY <1>1, <2>3, Dates
  <2>6. a \notin expired' => Elapsed(period, list[a].suspect.at) < SuspectPeriods
    BY <1>1, <2>3, <2>4, <2>5, ElapsedValues, SuspectPeriodsAssumption DEF SlotExpired
  <2>7. age'[a] = age[a]
    BY <1>1, <1>4, <2>3, AgedValues
  <2> QED BY <1>1, <2>3, <2>6, <2>7 DEF Timely
<1> QED BY <1>3, <1>4

\* The next period begins: no suspicion that is left had expired.
LEMMA IncrementPeriodTimely ==
  ASSUME WrapIsFar, Inv, Inv', IncrementPeriod, NEW a \in Addr, Timely(a) PROVE Timely(a)'
<1>1. /\ period \in Period /\ list[a] \in Slot /\ list' = list /\ pc = "expire" /\ pc' = "run"
      /\ period' = Incremented(period) /\ a \notin expired /\ age[a] \in Nat
  BY DEF Inv, TypeOK, IncrementPeriod
<1>2. age'[a] = IF list[a].suspect # NoSuspect THEN age[a] + 1 ELSE 0
  BY DEF IncrementPeriod, Inv, IndexConsistent, Consistent
<1>3. CASE list[a].suspect = NoSuspect
  BY <1>1, <1>2, <1>3 DEF Timely
<1>4. CASE list[a].suspect # NoSuspect
  <2> DEFINE at == list[a].suspect.at
  <2>1. at \in Period /\ SuspectPeriods \in Nat
    BY <1>1, <1>4, Dates, SuspectPeriodsAssumption
  <2>2. Elapsed(period, at) < SuspectPeriods
    BY <1>1, <1>4 DEF Timely
  <2>3. Elapsed(period, at) \in Nat
    BY <1>1, <2>1, ElapsedValues
  <2>4. at <= period /\ age[a] = period - at
    BY <1>4, <2>1, <2>2, <2>3 DEF Timely
  <2> HIDE DEF at
  <2>5. age[a] < SuspectPeriods
    BY <1>1, <2>1, <2>2, <2>4, ElapsedValues DEF Period
  <2>6. age'[a] <= SuspectPeriods
    BY <1>1, <1>2, <1>4, <2>1, <2>5
  <2>7. \/ at <= period' /\ age'[a] = period' - at
        \/ at > period' /\ Elapsed(period', at) >= SuspectPeriods
    BY <1>1, <1>2, <1>4, <2>1, <2>2, <2>4, IncrementedValues
  <2> QED BY <1>1, <1>4, <2>6, <2>7 DEF Timely, at
<1> QED BY <1>3, <1>4

\* Every step keeps suspicions timely.
LEMMA NextTimely ==
  ASSUME WrapIsFar, Inv, Inv', [Next]_vars, NEW a \in Addr, Timely(a) PROVE Timely(a)'
<1>1. ASSUME NEW x \in Others, MarkedFaulty(x), UNCHANGED <<period, pc>>, expired' \in {expired, expired \ {x}}
      PROVE  Timely(a)'
  <2>1. SlotMarkedFaulty(list[x]) = NoSlot /\ NoSlot.suspect = NoSuspect
    BY SlotsOK, RemoveOK DEF Others, NoSlot
  <2>2. list'[x] = NoSlot
    BY <1>1, <2>1, SMTT(30) DEF Inv, TypeOK, MarkedFaulty, Others
  <2>3. a \in expired /\ a \notin expired' => list'[a].suspect = NoSuspect
    BY <1>1, <2>1, <2>2
  <2> QED BY <1>1, <2>3, WithinPeriod DEF MarkedFaulty
<1>2. ASSUME NEW x, NEW s, Store(x, s) PROVE Timely(a)'
  BY <1>2, WithinPeriod DEF Store
<1>3. ASSUME NEW batch, Bootstrap(batch) PROVE Timely(a)'
  BY <1>3, WithinPeriod DEF Bootstrap
<1>4. CASE NextPing \/ UNCHANGED vars
  <2>1. UNCHANGED <<list, period, pc, expired, age>>
    BY <1>4 DEF NextPing, vars
  <2> QED BY <2>1 DEF Timely
<1>5. CASE ExpiredSuspects
  BY <1>5, ExpiredSuspectsTimely
<1>6. CASE IncrementPeriod
  BY <1>6, IncrementPeriodTimely
<1>7. ASSUME NEW x \in Others,
             \/ MarkStable(x) \/ MarkSuspect(x) \/ Delete(x) \/ MarkFaulty(x) \/ DeclareFaulty(x)
             \/ \E i \in Incarnations : \/ Add(x, i)
                                        \/ WrapIncarnation(x, i)
                                        \/ \E b \in BOOLEAN : UpdateOrCreate(x, i, b)
      PROVE  Timely(a)'
  <2>1. CASE MarkFaulty(x) \/ DeclareFaulty(x)
    BY <1>1, <2>1 DEF MarkFaulty, DeclareFaulty
  <2>2. CASE ~(MarkFaulty(x) \/ DeclareFaulty(x))
    BY <1>2, <1>7, <2>2 DEF MarkStable, MarkSuspect, Delete, Add, WrapIncarnation, UpdateOrCreate
  <2> QED BY <2>1, <2>2
<1> QED BY <1>3, <1>4, <1>5, <1>6, <1>7 DEF Next

\* All suspicions are timely.
AllTimely == \A a \in Addr : Timely(a)

\* In every reachable state.
LEMMA TimelyInv ==
  ASSUME WrapIsFar
  PROVE  Spec => [](Inv /\ AllTimely)
<1>1. Init => AllTimely
  <2> SUFFICES ASSUME Init, NEW a \in Addr PROVE Timely(a)
    BY DEF AllTimely
  <2>1. list[a] = NoSlot /\ age[a] = 0
    BY DEF Init
  <2>2. NoSlot.suspect = NoSuspect
    BY DEF NoSlot
  <2> QED BY <2>1, <2>2 DEF Timely
<1>2. Inv /\ Inv' /\ AllTimely /\ [Next]_vars => AllTimely'
  BY NextTimely DEF AllTimely
<1> QED BY <1>1, <1>2, Invariance, PTL DEF Spec

\* No node stays suspect for more than SuspectPeriods periods, whatever is heard
\* about it and although period identifiers wrap, if SuspectPeriods is at most
\* half of their number.
THEOREM ExpiresInTime ==
  ASSUME WrapIsFar
  PROVE  Spec => []NeverOverdue
<1>1. Inv /\ AllTimely => NeverOverdue
  <2> SUFFICES ASSUME AllTimely, NEW a \in Addr PROVE age[a] <= SuspectPeriods
    BY DEF NeverOverdue
  <2> QED BY SuspectPeriodsAssumption DEF AllTimely, Timely
<1> QED BY <1>1, TimelyInv, PTL

\* A suspicion that has not met a wrap of the period is not cut short: it expires
\* only after SuspectPeriods periods.
THEOREM NotBeforeTime ==
  ASSUME WrapIsFar
  PROVE  Spec => []NeverEarlyUnwrapped
<1>1. Inv /\ AllTimely => NeverEarlyUnwrapped
  <2> SUFFICES ASSUME Inv, AllTimely, NEW a \in Addr,
                      SlotExpired(list[a], period), list[a].suspect.at <= period
               PROVE  age[a] >= SuspectPeriods
    BY DEF NeverEarlyUnwrapped
  <2>1. list[a].suspect # NoSuspect /\ Elapsed(period, list[a].suspect.at) >= SuspectPeriods
    BY DEF SlotExpired
  <2>2. list[a].suspect.at \in Period /\ period \in Period
    BY <2>1, Dates DEF Inv, TypeOK
  <2>3. age[a] = period - list[a].suspect.at
    BY <2>1, <2>2 DEF AllTimely, Timely, Period
  <2>4. Elapsed(period, list[a].suspect.at) = period - list[a].suspect.at
    BY <2>2, ElapsedValues
  <2> QED BY <2>1, <2>3, <2>4
<1> QED BY <1>1, TimelyInv, PTL

=============================================================================

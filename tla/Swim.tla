-------------------------------- MODULE Swim --------------------------------
(***************************************************************************)
(* A cluster of servers that probe each other and gossip (swim_server.go,  *)
(* with the run loop of internal/core/runloop.go), each with the member    *)
(* list of module Members and the rumours of module Rumours.               *)
(*                                                                         *)
(* The run loop of a node starts a period (startPeriod), waits, signals    *)
(* the outcome of its probe and expires suspects (both in endPeriod).  The *)
(* handler of incoming datagrams runs in a goroutine of its own, one       *)
(* datagram at a time, so it acts between any two of these steps.          *)
(*                                                                         *)
(* Datagrams may be lost, duplicated, reordered or late, and nodes may     *)
(* crash: each loss, duplication, early end of a period and crash is a     *)
(* fault, and faults are limited.  Indirect probes are left to module      *)
(* RunLoop, a node list exchanged over TCP to module Sync.                 *)
(*                                                                         *)
(* Periods are counted, not identified: age is how many have ended since a *)
(* suspicion began.  The field at of an entry is 0 throughout.             *)
(***************************************************************************)
EXTENDS Rumours, Members

CONSTANTS
  NoAddr,      \* NodeHashZero: no node is being probed
  MaxFaults,   \* bound of the model: crashes, and datagrams lost, duplicated or late
  Reliable,    \* whether no datagram is lost, duplicated or late
  Mortal       \* bound of the model: the nodes that may crash

ASSUME SwimAssumption ==
  /\ NoAddr \notin Addr
  /\ MaxFaults \in Nat
  /\ Reliable \in BOOLEAN
  /\ Mortal \subseteq Addr

VARIABLES
  incarnation,  \* incarnation[n]: the node's own incarnation
  member,       \* member[n][m]: what n knows about m
  rumour,       \* rumour[n][m]: the event about m in the gossip queue of n
  toPing,       \* nodesToPing of each node; its order is random
  pc,           \* where the run loop of each node is
  probe,        \* period.node, period.acked and period.cookie of each node
  age,          \* age[n][m]: periods of n since it began to suspect m
  up,           \* the nodes that have not crashed
  msgs,         \* the datagrams in flight
  faults        \* the faults that have happened

vars == <<incarnation, member, rumour, toPing, pc, probe, age, up, msgs, faults>>

\* Random cookies are taken to be new as long as the old ones are in use.
Cookie == 0 .. MaxFaults

\* An event as a receiver sees it, given by subject; "None" when there is none.
Told(r) == [kind |-> r.kind, incarnation |-> r.incarnation]

Tale == [kind : Kind \cup {"None"}, incarnation : Incarnation]

Message ==
  [type : {"Ping"}, from : Addr, to : Addr, cookie : Cookie,
   incarnation : Incarnation, events : [Addr -> Tale]]
  \cup
  [type : {"Pong"}, from : Addr, to : Addr, cookie : Cookie, known : Tale]

NoProbe == [node |-> NoAddr, acked |-> FALSE, cookie |-> 0]

\* The members of the list of a node.
Known(list) == {m \in Addr : IsMember(list[m])}

-----------------------------------------------------------------------------

(***************************************************************************)
(* A cluster that has just been put together: every node has received the  *)
(* list of all nodes and has no rumours to spread any more.                *)
(***************************************************************************)
Init ==
  /\ incarnation = [n \in Addr |-> 0]
  /\ member = [n \in Addr |-> [m \in Addr |-> IF m = n THEN NoMember ELSE StableEntry(0)]]
  /\ rumour = [n \in Addr |-> [m \in Addr |-> NoRumour]]
  /\ toPing = [n \in Addr |-> Addr \ {n}]
  /\ pc = [n \in Addr |-> "start"]
  /\ probe = [n \in Addr |-> NoProbe]
  /\ age = [n \in Addr |-> [m \in Addr |-> 0]]
  /\ up = Addr
  /\ msgs = {}
  /\ faults = 0

\* The ages of the suspicions of a list that is replaced by another one.
AgeAfter(ages, old, new) ==
  [m \in Addr |-> IF old[m].state = "Suspect" /\ new[m].state = "Suspect" THEN ages[m] ELSE 0]

-----------------------------------------------------------------------------
(* The run loop.                                                            *)

\* A datagram is lost, duplicated or late.
NetworkFault == ~Reliable /\ faults < MaxFaults /\ faults' = faults + 1

\* The pings of n that are under way and the answers to them.
OwnProbes(n) == {x \in msgs : (x.type = "Ping" /\ x.from = n) \/ (x.type = "Pong" /\ x.to = n)}

InFlight(n) == {x \in OwnProbes(n) : x.cookie = probe[n].cookie}

FreshCookie(n) == CHOOSE k \in Cookie : \A x \in OwnProbes(n) : x.cookie # k

(***************************************************************************)
(* startPeriod with an empty ping list: NextPing returns nil, and nothing  *)
(* is sent.                                                                *)
(***************************************************************************)
IdlePeriod(n) ==
  /\ n \in up /\ pc[n] = "start"
  /\ toPing[n] = {}
  /\ probe' = [probe EXCEPT ![n] = NoProbe]
  /\ pc' = [pc EXCEPT ![n] = "wait"]
  /\ UNCHANGED <<incarnation, member, rumour, toPing, age, up, msgs, faults>>

\* Variant of LeftToPing: the list is not prepared anew.
LeftToPingOnce(hashes, list, m) == hashes \ {m}

\* NextPing takes m off the ping list and prepares it anew when m was the last.
LeftToPing(hashes, list, m) == IF hashes = {m} THEN Known(list) ELSE hashes \ {m}

(***************************************************************************)
(* startPeriod otherwise.  NextPing returns nil for a node that is no      *)
(* longer a member.  All rumours fit in the ping.                          *)
(***************************************************************************)
StartPeriod(n, m) ==
  /\ n \in up /\ pc[n] = "start"
  /\ m \in toPing[n]
  /\ toPing' = [toPing EXCEPT ![n] = LeftToPing(@, member[n], m)]
  /\ pc' = [pc EXCEPT ![n] = "wait"]
  /\ IF IsMember(member[n][m])
     THEN /\ probe' = [probe EXCEPT ![n] = [node |-> m, acked |-> FALSE, cookie |-> FreshCookie(n)]]
          /\ rumour' = [rumour EXCEPT ![n] = [s \in Addr |-> AfterHandOut(rumour[n][s])]]
          /\ msgs' = msgs \cup {[type |-> "Ping", from |-> n, to |-> m, cookie |-> FreshCookie(n),
                                 incarnation |-> incarnation[n],
                                 events |-> [s \in Addr |-> Told(rumour[n][s])]]}
     ELSE /\ probe' = [probe EXCEPT ![n] = NoProbe]
          /\ UNCHANGED <<rumour, msgs>>
  /\ UNCHANGED <<incarnation, member, age, up, faults>>

\* The rumour of n about m, once an event about m has been added.
WithRumour(n, m, kind, inc) ==
  [rumour EXCEPT ![n][m] = AddToSlot(@, kind, inc)]

(***************************************************************************)
(* endPeriod, up to ProcessExpiredSuspects.  A period that ends while the  *)
(* ping or the pong of its probe is under way is a fault.                  *)
(***************************************************************************)
Signal(n) ==
  LET m == probe[n].node
      list == IF m = NoAddr THEN member[n]
              ELSE [member[n] EXCEPT ![m] = IF probe[n].acked THEN MarkedStable(@)
                                            ELSE MarkedSuspect(@, 0, FALSE)]
  IN  /\ n \in up /\ pc[n] = "wait"
      /\ IF InFlight(n) = {} \/ probe[n].acked \/ m = NoAddr THEN UNCHANGED faults
         ELSE NetworkFault
      /\ pc' = [pc EXCEPT ![n] = "expire"]
      /\ member' = [member EXCEPT ![n] = list]
      /\ age' = [age EXCEPT ![n] = AgeAfter(@, member[n], list)]
      /\ rumour' = IF m = NoAddr \/ probe[n].acked THEN rumour
                   ELSE IF ~IsMember(list[m]) THEN rumour
                   ELSE WithRumour(n, m, "Suspect", list[m].incarnation)
      /\ probe' = [probe EXCEPT ![n] = NoProbe]
      /\ UNCHANGED <<incarnation, toPing, up, msgs>>

\* Variant of Overdue: off by one.
OverdueLate(list, ages) == {m \in Addr : list[m].state = "Suspect" /\ ages[m] > SuspectPeriods}

\* The suspects ExpiredSuspects finds.
Overdue(list, ages) == {m \in Addr : list[m].state = "Suspect" /\ ages[m] >= SuspectPeriods}

(***************************************************************************)
(* The end of endPeriod.  An expired suspicion of the node itself ends in  *)
(* a Faulty event, one it was told of in silence.                          *)
(***************************************************************************)
Expire(n) ==
  LET Over  == Overdue(member[n], age[n])
      Local == {m \in Over : ~member[n][m].remote}
  IN  /\ n \in up /\ pc[n] = "expire"
      /\ pc' = [pc EXCEPT ![n] = "start"]
      /\ member' = [member EXCEPT ![n] = [m \in Addr |-> IF m \in Over THEN NoMember ELSE @[m]]]
      /\ toPing' = [toPing EXCEPT ![n] = @ \ Local]
      /\ rumour' = [rumour EXCEPT ![n] =
                      [m \in Addr |-> IF m \in Local
                                      THEN AddToSlot(@[m], "Faulty", member[n][m].incarnation)
                                      ELSE @[m]]]
      /\ age' = [age EXCEPT ![n] = [m \in Addr |-> IF member'[n][m].state = "Suspect"
                                                   THEN @[m] + 1 ELSE 0]]
      /\ UNCHANGED <<incarnation, probe, up, msgs, faults>>

-----------------------------------------------------------------------------
(* The handler of datagrams.                                                *)

\* Variant of Surpassed: the next incarnation is skipped.
SurpassedByTwo(lastKnown) == (lastKnown + 2) % (MaxUint16 + 1)

\* incrementIncarnationToSurpass computes in uint16; its branch for the
\* overflow is never taken.
Surpassed(lastKnown) == (lastKnown + 1) % (MaxUint16 + 1)

\* A tale about the node itself that makes it take a higher incarnation, in
\* processPingEvents and in the handler of a Pong.
Challenges(tale, own) ==
  \/ tale.kind \in {"Suspect", "Faulty"} /\ tale.incarnation >= own
  \/ tale.kind # "None" /\ tale.incarnation > own

\* MarkFaulty is called for a Faulty event, Delete for a Left event.
Buries(tale, e) ==
  /\ tale.kind \in {"Faulty", "Left"}
  /\ IsMember(e)
  /\ e.incarnation <= tale.incarnation

\* processPingEvents: what an event about another node does to its entry.
Learned(e, tale) ==
  CASE Buries(tale, e)                             -> NoMember
    [] tale.kind = "Suspect"                       -> UpdatedOrCreated(e, 0, tale.incarnation, TRUE)
    [] tale.kind \in {"Join", "Healthy", "Alive"}  -> UpdatedOrCreated(e, 0, tale.incarnation, FALSE)
    [] tale.kind = "Wrap"                          -> WrappedIncarnation(tale.incarnation)
    [] OTHER                                       -> e

\* gossip.Add for an event of a ping.
Heard(r, tale) == IF tale.kind = "None" THEN r ELSE AddToSlot(r, tale.kind, tale.incarnation)

\* Variant of Answered: an old accusation is not answered again.
AnsweredOnce(r, tale, own) ==
  IF Challenges(tale, own)
  THEN AddToSlot(Heard(r, tale), "Alive", Surpassed(tale.incarnation))
  ELSE Heard(r, tale)

\* Variant of Answered: an incarnation is announced that has not been taken.
AnsweredAhead(r, tale, own) ==
  IF tale.kind \in {"Suspect", "Faulty"}
  THEN AddToSlot(Heard(r, tale), "Alive", Surpassed(own))
  ELSE Heard(r, tale)

(***************************************************************************)
(* The rumour of a node about itself after an event about it: an event     *)
(* that challenges it, or an older accusation, is answered by an Alive.    *)
(***************************************************************************)
Answered(r, tale, own) ==
  IF Challenges(tale, own)
  THEN AddToSlot(Heard(r, tale), "Alive", Surpassed(tale.incarnation))
  ELSE IF tale.kind \in {"Suspect", "Faulty"}
  THEN AddToSlot(Heard(r, tale), "Alive", own)
  ELSE Heard(r, tale)

\* Taking a datagram off the network; a duplicate of it may stay behind.
Take(x, replies) ==
  \/ /\ msgs' = (msgs \ {x}) \cup replies
     /\ UNCHANGED faults
  \/ /\ NetworkFault
     /\ msgs' = msgs \cup replies

\* The entry of the sender of a ping.
Met(e, inc) == MarkedStable(Added(e, 0, inc, FALSE))

ReceivePing(x) ==
  LET m == x.to
      met == [member[m] EXCEPT ![x.from] = Met(@, x.incarnation)]
      list == [s \in Addr |-> IF s = m THEN NoMember ELSE Learned(met[s], x.events[s])]
  IN  /\ x.type = "Ping" /\ m \in up
      /\ Take(x, {[type |-> "Pong", from |-> m, to |-> x.from, cookie |-> x.cookie,
                   known |-> Told(rumour[m][x.from])]})
      /\ member' = [member EXCEPT ![m] = list]
      /\ age' = [age EXCEPT ![m] = AgeAfter(AgeAfter(@, member[m], met), met, list)]
      /\ toPing' = [toPing EXCEPT ![m] = {s \in @ : ~(/\ x.events[s].kind = "Faulty"
                                                      /\ Buries(x.events[s], met[s]))}]
      /\ rumour' = [rumour EXCEPT ![m] =
                      [s \in Addr |-> IF s = m THEN Answered(@[s], x.events[s], incarnation[m])
                                      ELSE Heard(@[s], x.events[s])]]
      /\ incarnation' = [incarnation EXCEPT ![m] = IF Challenges(x.events[m], @)
                                                   THEN Surpassed(x.events[m].incarnation) ELSE @]
      /\ UNCHANGED <<pc, probe, up>>

\* Variant of Acks: compares with the cookie of the next probe.
AcksNext(n, x) == probe[n].node # NoAddr /\ probe[n].cookie + 1 = x.cookie

\* handleMessage of the run loop: the Pong belongs to the current probe.
Acks(n, x) == probe[n].node # NoAddr /\ probe[n].cookie = x.cookie

\* The handler of a Pong, with what handleMessage of the run loop does.
ReceivePong(x) ==
  LET n == x.to
  IN  /\ x.type = "Pong" /\ n \in up
      /\ Take(x, {})
      /\ IF Challenges(x.known, incarnation[n])
         THEN /\ incarnation' = [incarnation EXCEPT ![n] = Surpassed(x.known.incarnation)]
              /\ rumour' = WithRumour(n, n, "Alive", Surpassed(x.known.incarnation))
         ELSE UNCHANGED <<incarnation, rumour>>
      /\ probe' = IF Acks(n, x) THEN [probe EXCEPT ![n].acked = TRUE] ELSE probe
      /\ UNCHANGED <<member, toPing, pc, age, up>>

-----------------------------------------------------------------------------
(* The environment.                                                         *)

\* A datagram is lost; one to a crashed node always is.
Lose(x) ==
  /\ msgs' = msgs \ {x}
  /\ IF x.to \in up THEN NetworkFault ELSE UNCHANGED faults
  /\ UNCHANGED <<incarnation, member, rumour, toPing, pc, probe, age, up>>

Crash(n) ==
  /\ n \in up \cap Mortal /\ faults < MaxFaults
  /\ up' = up \ {n}
  /\ faults' = faults + 1
  /\ UNCHANGED <<incarnation, member, rumour, toPing, pc, probe, age, msgs>>

RunLoop(n) == IdlePeriod(n) \/ (\E m \in Addr : StartPeriod(n, m)) \/ Signal(n) \/ Expire(n)

Network(x) == ReceivePing(x) \/ ReceivePong(x) \/ Lose(x)

Next == \/ \E n \in Addr : RunLoop(n) \/ Crash(n)
        \/ \E x \in msgs : Network(x)

Spec == Init /\ [][Next]_vars

\* The run loop of a live node goes on, and so does its handler of datagrams.
Deliver(n) == \E x \in msgs : x.to = n /\ Network(x)

Fairness == \A n \in Addr : WF_vars(RunLoop(n)) /\ WF_vars(Deliver(n))

FairSpec == Spec /\ Fairness

-----------------------------------------------------------------------------
(* Properties.                                                              *)

\* Types of the state of the servers and of the datagrams.
TypeOK ==
  /\ incarnation \in [Addr -> Incarnation]
  /\ member \in [Addr -> [Addr -> Entry]]
  /\ rumour \in [Addr -> [Addr -> Rumour \cup {NoRumour}]]
  /\ toPing \in [Addr -> SUBSET Addr]
  /\ pc \in [Addr -> {"start", "wait", "expire"}]
  /\ probe \in [Addr -> [node : Addr \cup {NoAddr}, acked : BOOLEAN, cookie : Cookie]]
  /\ age \in [Addr -> [Addr -> 0 .. SuspectPeriods]]
  /\ up \subseteq Addr
  /\ msgs \subseteq Message
  /\ faults \in 0 .. MaxFaults

(***************************************************************************)
(* Only a node itself raises its incarnation: nobody knows, spreads or     *)
(* sends a higher one about it than its own.  Refutations rest on this: a  *)
(* node that takes the next incarnation is ahead of everything said of it. *)
(***************************************************************************)
IncarnationAuthority ==
  /\ \A n, m \in Addr : /\ member[n][m].incarnation <= incarnation[m]
                        /\ rumour[n][m].incarnation <= incarnation[m]
  /\ \A x \in msgs :
       IF x.type = "Ping"
       THEN /\ x.incarnation <= incarnation[x.from]
            /\ \A m \in Addr : x.events[m].incarnation <= incarnation[m]
       ELSE x.known.incarnation <= incarnation[x.to]

\* A node never passes on an accusation of itself: what it hears of the kind it
\* has answered with an Alive event by the end of the handler.
NeverSelfAccusing ==
  \A n \in Addr : rumour[n][n].kind \notin {"Suspect", "Faulty"}

\* With no fault nobody is ever suspected, whatever the order in which nodes probe
\* each other and datagrams are handled.
Accuracy ==
  faults = 0 =>
    \A n, m \in Addr : /\ member[n][m].state # "Suspect"
                      /\ rumour[n][m].kind \notin {"Suspect", "Faulty"}

\* A live member is not given up unless a probe fails in the period that makes it
\* suspect and in each of the SuspectPeriods after it: one answer clears it.
Robustness ==
  up = Addr /\ faults <= SuspectPeriods =>
    \A n, m \in Addr : n # m => IsMember(member[n][m])

\* A node refutes a suspicion once, however often it hears of it and whichever
\* way, so it takes no more new incarnations than there were faults.
RefutedOnce == \A n \in Addr : incarnation[n] <= faults

\* A crashed node is forgotten by the others in the end, and stays forgotten,
\* whatever is still said about it.
Completeness ==
  \A n \in Addr \ Mortal, m \in Mortal : m \notin up ~> []~IsMember(member[n][m])

\* If nobody crashes, two nodes trust each other for good after the last fault, even
\* if one has given the other up and declared it faulty: a lasting one-sided view,
\* or a suspicion that comes and goes, is impossible.  This needs one that still
\* knows the other, so MaxFaults has to be below 2 * (SuspectPeriods + 1).
Reconciliation ==
  <>[](up = Addr => \A n, m \in Addr : n # m => member[n][m].state = "Stable")

\* A node whose counter overflows announces that with a Wrap event, as the
\* comment in incrementIncarnationToSurpass says.
WrapAnnounced ==
  [][\A n \in Addr : incarnation'[n] < incarnation[n] => rumour'[n][n].kind = "Wrap"]_vars

=============================================================================

---------------------------- MODULE RunLoopProofs ----------------------------
(***************************************************************************)
(* Proofs about RunLoop, for every cluster, every capacity of the channel  *)
(* and any number of losses and duplicates: a probe that counts as         *)
(* answered was answered by the node being probed.                         *)
(***************************************************************************)
EXTENDS RunLoop, TLAPS

\* The tag of the probe n waits for.
Live(n, tag) == probe[n].node # NoAddr /\ tag = TagOf(n)

\* A ping for the probe of a requester goes to the node being probed, and a ping
\* with the tag of its sender's own probe is sent for that probe.
PingOK(x) ==
  /\ Live(x.requester, x.reply) => x.to = probe[x.requester].node
  /\ Live(x.from, x.tag) => x.requester = x.from /\ x.reply = x.tag

\* A relay is asked about the node being probed.
IndirectPingOK(x) == Live(x.from, x.tag) => x.target = probe[x.from].node

\* A packet for n with the tag of its probe follows an answer of the target.
Earned(n, tag) == Live(n, tag) => answered[n]

MessageOK(x) ==
  /\ x.type = "Ping" => PingOK(x)
  /\ x.type = "IndirectPing" => IndirectPingOK(x)
  /\ x.type \in {"Pong", "IndirectPong"} => Earned(x.to, x.tag)

\* A callback belongs to the pings that carry its tag, and an answer to one of
\* them earns the answer to its requester.
CallbackOK(r, c, x) ==
  /\ x.type = "Ping" /\ x.from = r /\ x.tag = c.tag =>
       x.requester = c.requester /\ x.reply = c.reply
  /\ x.type = "Pong" /\ x.to = r /\ x.tag = c.tag => Earned(c.requester, c.reply)

NodeOK(n) ==
  /\ pingTimer[n] => pc[n] = "wait" /\ probe[n].node # NoAddr /\ probe[n].cookie # NoAddr
  /\ probe[n].node # NoAddr /\ probe[n].acked => answered[n]
  /\ handler[n] # NoPacket => Earned(n, handler[n].tag)
  /\ \A i \in DOMAIN inbox[n] : Earned(n, inbox[n][i].tag)

IInv ==
  /\ TypeOK
  /\ \A n \in Addr : NodeOK(n)
  /\ \A x \in msgs : MessageOK(x)
  /\ \A r \in Addr : \A c \in callbacks[r] : \A x \in msgs : CallbackOK(r, c, x)

\* What was live stays the same, or is no longer live.
Kept(n, tag) ==
  Live(n, tag)' => /\ Live(n, tag)
                   /\ probe'[n].node = probe[n].node
                   /\ answered[n] => answered'[n]

-----------------------------------------------------------------------------
(* Types.                                                                   *)

\* The fields of the datagrams, the callbacks and the packets.
LEMMA Fields ==
  ASSUME TypeOK
  PROVE  /\ \A x \in msgs : /\ x.type \in {"Ping", "IndirectPing", "Pong", "IndirectPong"}
                            /\ x.from \in Addr /\ x.to \in Addr /\ x.tag \in Tag
                            /\ x.type = "Ping" => x.requester \in Addr /\ x.reply \in Tag
                            /\ x.type = "IndirectPing" => x.target \in Addr
         /\ \A r \in Addr : \A c \in callbacks[r] :
              c.tag \in Tag /\ c.requester \in Addr /\ c.reply \in Tag
         /\ \A n \in Addr : handler[n] # NoPacket => handler[n] \in Packet /\ handler[n].tag \in Tag
         /\ \A n \in Addr : inbox[n] \in Seq(Packet)
<1>1. msgs \subseteq Datagram /\ callbacks \in [Addr -> SUBSET Callback]
      /\ handler \in [Addr -> Packet \cup {NoPacket}] /\ \A n \in Addr : inbox[n] \in Seq(Packet)
  BY DEF TypeOK
<1>2. ASSUME NEW x \in Datagram
      PROVE  /\ x.type \in {"Ping", "IndirectPing", "Pong", "IndirectPong"}
             /\ x.from \in Addr /\ x.to \in Addr /\ x.tag \in Tag
             /\ x.type = "Ping" => x.requester \in Addr /\ x.reply \in Tag
             /\ x.type = "IndirectPing" => x.target \in Addr
  BY DEF Datagram
<1>3. ASSUME NEW c \in Callback PROVE c.tag \in Tag /\ c.requester \in Addr /\ c.reply \in Tag
  BY DEF Callback
<1>4. ASSUME NEW p \in Packet PROVE p.tag \in Tag
  BY DEF Packet
<1> QED BY <1>1, <1>2, <1>3, <1>4

\* The cookies of everything under way are in use.
LEMMA Used ==
  /\ \A x \in msgs : /\ x.tag.cookie \in InUse
                     /\ x.type = "Ping" => x.reply.cookie \in InUse
  /\ \A r \in Addr : \A c \in callbacks[r] : c.tag.cookie \in InUse /\ c.reply.cookie \in InUse
  /\ \A n \in Addr : /\ probe[n].cookie \in InUse
                     /\ handler[n] # NoPacket => handler[n].tag.cookie \in InUse
                     /\ \A i \in DOMAIN inbox[n] : inbox[n][i].tag.cookie \in InUse
<1>1. ASSUME NEW S, NEW x \in S PROVE x.tag.cookie \in CookiesOf(S)
  BY DEF CookiesOf
<1>2. ASSUME NEW n \in Addr, NEW k \in CookiesHeld(n) PROVE k \in InUse
  BY DEF InUse
<1>3. ASSUME NEW x \in msgs
      PROVE  x.tag.cookie \in InUse /\ (x.type = "Ping" => x.reply.cookie \in InUse)
  BY <1>1 DEF InUse
<1>4. ASSUME NEW r \in Addr, NEW c \in callbacks[r]
      PROVE  c.tag.cookie \in InUse /\ c.reply.cookie \in InUse
  <2>1. c.tag.cookie \in CookiesHeld(r) /\ c.reply.cookie \in CookiesHeld(r)
    BY <1>1 DEF CookiesHeld
  <2> QED BY <1>2, <2>1
<1>5. ASSUME NEW n \in Addr PROVE probe[n].cookie \in InUse
  BY <1>2 DEF CookiesHeld
<1>6. ASSUME NEW n \in Addr, handler[n] # NoPacket PROVE handler[n].tag.cookie \in InUse
  <2>1. handler[n].tag.cookie \in CookiesHeld(n)
    BY <1>1, <1>6 DEF CookiesHeld
  <2> QED BY <1>2, <2>1
<1>7. ASSUME NEW n \in Addr, NEW i \in DOMAIN inbox[n] PROVE inbox[n][i].tag.cookie \in InUse
  <2>1. inbox[n][i].tag.cookie \in CookiesHeld(n)
    BY DEF CookiesHeld
  <2> QED BY <1>2, <2>1
<1> QED BY <1>3, <1>4, <1>5, <1>6, <1>7

\* What is known of tags in use survives when the live ones are kept.
LEMMA Survives ==
  ASSUME IInv, \A n \in Addr : \A tag \in Tag : tag.cookie \in InUse => Kept(n, tag)
  PROVE  /\ \A x \in msgs : MessageOK(x)'
         /\ \A r \in Addr : \A c \in callbacks[r] : \A x \in msgs : CallbackOK(r, c, x)'
         /\ \A n \in Addr : \A tag \in Tag :
              tag.cookie \in InUse /\ Earned(n, tag) => Earned(n, tag)'
<1>1. ASSUME NEW n \in Addr, NEW tag \in Tag, tag.cookie \in InUse, Earned(n, tag)
      PROVE  Earned(n, tag)'
  BY <1>1 DEF Kept, Earned
<1>2. ASSUME NEW x \in msgs PROVE MessageOK(x)'
  <2>1. MessageOK(x) /\ TypeOK
    BY DEF IInv
  <2>2. CASE x.type = "Ping"
    <3>1. Kept(x.requester, x.reply) /\ Kept(x.from, x.tag) /\ PingOK(x)
      BY <2>1, <2>2, Fields, Used DEF MessageOK
    <3> QED BY <2>2, <3>1 DEF MessageOK, PingOK, Kept
  <2>3. CASE x.type = "IndirectPing"
    <3>1. Kept(x.from, x.tag) /\ IndirectPingOK(x)
      BY <2>1, <2>3, Fields, Used DEF MessageOK
    <3> QED BY <2>3, <3>1 DEF MessageOK, IndirectPingOK, Kept
  <2>4. CASE x.type \in {"Pong", "IndirectPong"}
    <3>1. x.to \in Addr /\ x.tag \in Tag /\ x.tag.cookie \in InUse /\ Earned(x.to, x.tag)
      BY <2>1, <2>4, Fields, Used DEF MessageOK
    <3>2. Earned(x.to, x.tag)'
      BY <1>1, <3>1
    <3> QED BY <2>4, <3>2 DEF MessageOK
  <2> QED BY <2>1, <2>2, <2>3, <2>4, Fields
<1>3. ASSUME NEW r \in Addr, NEW c \in callbacks[r], NEW x \in msgs PROVE CallbackOK(r, c, x)'
  <2>1. CallbackOK(r, c, x) /\ TypeOK
    BY DEF IInv
  <2>2. c.requester \in Addr /\ c.reply \in Tag /\ c.reply.cookie \in InUse
    BY <2>1, Fields, Used
  <2>3. Earned(c.requester, c.reply) => Earned(c.requester, c.reply)'
    BY <1>1, <2>2
  <2> QED BY <2>1, <2>3 DEF CallbackOK
<1> QED BY <1>1, <1>2, <1>3

-----------------------------------------------------------------------------
(* The loop.                                                                *)

Probe == [node : Addr \cup {NoAddr}, cookie : Cookies \cup {NoAddr}, acked : BOOLEAN]

\* The invariant holds at first.
LEMMA InitInv == Init => IInv
<1> SUFFICES ASSUME Init PROVE IInv
  OBVIOUS
<1> USE RunLoopAssumption
<1>1. NoProbe \in Probe /\ NoProbe.node = NoAddr
  BY DEF NoProbe, Probe
<1>2. TypeOK
  BY <1>1 DEF Init, TypeOK, Probe, Period
<1>3. \A n \in Addr : NodeOK(n)
  BY <1>1 DEF Init, NodeOK
<1> QED BY <1>2, <1>3 DEF IInv, Init

\* startPeriod without a probe, and endPeriod: the probe of n is given up.
LEMMA GiveUpInv ==
  ASSUME IInv, NEW n \in Addr, StartIdle(n) \/ EndPeriod(n)
  PROVE  IInv'
<1> USE RunLoopAssumption
<1>1. TypeOK /\ NodeOK(n) /\ probe \in [Addr -> Probe]
  BY DEF IInv, TypeOK, Probe
<1>2. PICK q \in Probe : probe' = [probe EXCEPT ![n] = q] /\ q.node = NoAddr
  <2>1. [probe[n] EXCEPT !.node = NoAddr, !.acked = FALSE] \in Probe
        /\ [probe[n] EXCEPT !.node = NoAddr, !.acked = FALSE].node = NoAddr
    BY <1>1 DEF Probe
  <2>2. [probe[n] EXCEPT !.node = NoAddr] \in Probe /\ [probe[n] EXCEPT !.node = NoAddr].node = NoAddr
    BY <1>1 DEF Probe
  <2> QED BY <1>1, <2>1, <2>2 DEF StartIdle, EndPeriod
<1>3. probe' \in [Addr -> Probe] /\ \A k \in Addr : probe'[k] = IF k = n THEN q ELSE probe[k]
  BY <1>1, <1>2
<1>4. UNCHANGED <<inbox, handler, callbacks, msgs, answered, faults>>
  BY DEF StartIdle, EndPeriod
<1>5. /\ id' \in [Addr -> Period] /\ \A k \in Addr : k # n => id'[k] = id[k]
      /\ pc' \in [Addr -> {"start", "wait"}] /\ \A k \in Addr : k # n => pc'[k] = pc[k]
  <2>1. CASE StartIdle(n)
    BY <1>1, <2>1 DEF StartIdle, TypeOK
  <2>2. CASE EndPeriod(n)
    BY <1>1, <2>2 DEF EndPeriod, TypeOK, Period
  <2> QED BY <2>1, <2>2
<1>6. /\ pingTimer' \in [Addr -> BOOLEAN] /\ \A k \in Addr : k # n => pingTimer'[k] = pingTimer[k]
      /\ ~pingTimer'[n]
  <2>1. CASE StartIdle(n)
    BY <1>1, <2>1 DEF StartIdle, TypeOK, NodeOK
  <2>2. CASE EndPeriod(n)
    BY <1>1, <2>2 DEF EndPeriod, TypeOK
  <2> QED BY <2>1, <2>2
<1>7. TypeOK'
  BY <1>1, <1>3, <1>4, <1>5, <1>6 DEF TypeOK, Probe
<1>8. \A k \in Addr : \A tag \in Tag : Kept(k, tag)
  BY <1>2, <1>3, <1>4, <1>5 DEF Kept, Live, TagOf
<1>9. ASSUME NEW k \in Addr PROVE NodeOK(k)'
  <2>1. CASE k = n
    BY <1>2, <1>3, <1>6, <2>1 DEF NodeOK, Earned, Live
  <2>2. CASE k # n
    BY <1>3, <1>4, <1>5, <1>6, <2>2 DEF IInv, NodeOK, Earned, Live, TagOf
  <2> QED BY <2>1, <2>2
<1> QED BY <1>4, <1>7, <1>8, <1>9, Survives DEF IInv

\* startPeriod with a probe: its cookie is in use nowhere, so nothing under way can
\* be taken for an answer to it.
LEMMA StartProbeInv ==
  ASSUME IInv, NEW n \in Addr, NEW m \in Addr, StartProbe(n, m)
  PROVE  IInv'
<1> USE RunLoopAssumption
<1>1. PICK k \in Cookies \ InUse :
        LET tag == [cookie |-> k, period |-> id[n]]
        IN  /\ pc' = [pc EXCEPT ![n] = "wait"]
            /\ probe' = [probe EXCEPT ![n] = [node |-> m, cookie |-> k, acked |-> FALSE]]
            /\ pingTimer' = [pingTimer EXCEPT ![n] = TRUE]
            /\ msgs' = msgs \cup {[type |-> "Ping", from |-> n, to |-> m, tag |-> tag,
                                   requester |-> n, reply |-> tag]}
            /\ answered' = [answered EXCEPT ![n] = FALSE]
            /\ UNCHANGED <<id, inbox, handler, callbacks, faults>>
  BY DEF StartProbe
<1> DEFINE tag == [cookie |-> k, period |-> id[n]]
           q == [node |-> m, cookie |-> k, acked |-> FALSE]
           ping == [type |-> "Ping", from |-> n, to |-> m, tag |-> tag, requester |-> n, reply |-> tag]
<1>2. TypeOK /\ probe \in [Addr -> Probe] /\ id[n] \in Period /\ NoAddr # m
  BY DEF IInv, TypeOK, Probe
<1>3. tag \in Tag /\ q \in Probe /\ ping \in Datagram /\ tag.cookie = k
  BY <1>2 DEF Tag, Probe, Datagram
<1>4. q.node = m /\ q.cookie = k /\ ~q.acked
      /\ ping.type = "Ping" /\ ping.from = n /\ ping.to = m /\ ping.tag = tag
      /\ ping.requester = n /\ ping.reply = tag
  OBVIOUS
<1>5. /\ pc' = [pc EXCEPT ![n] = "wait"] /\ probe' = [probe EXCEPT ![n] = q]
      /\ pingTimer' = [pingTimer EXCEPT ![n] = TRUE] /\ msgs' = msgs \cup {ping}
      /\ answered' = [answered EXCEPT ![n] = FALSE]
      /\ UNCHANGED <<id, inbox, handler, callbacks, faults>>
  BY <1>1
<1>6. TagOf(n)' = tag
  BY <1>2, <1>5 DEF TagOf
<1> HIDE DEF tag, q, ping
<1>7. probe' \in [Addr -> Probe] /\ \A j \in Addr : probe'[j] = IF j = n THEN q ELSE probe[j]
  BY <1>2, <1>3, <1>5
<1>8. TypeOK'
  BY <1>2, <1>3, <1>5, <1>7 DEF TypeOK, Probe
<1>9. ASSUME NEW j \in Addr, NEW t \in Tag, t.cookie \in InUse PROVE Kept(j, t)
  <2>1. CASE j = n
    BY <1>3, <1>6, <1>9, <2>1 DEF Kept, Live
  <2>2. CASE j # n
    BY <1>2, <1>5, <1>7, <2>2 DEF Kept, Live, TagOf, TypeOK
  <2> QED BY <2>1, <2>2
<1>10. ASSUME NEW j \in Addr PROVE NodeOK(j)'
  <2>1. TypeOK /\ NodeOK(j)
    BY DEF IInv
  <2>2. /\ \A i \in DOMAIN inbox'[j] : Earned(j, inbox[j][i].tag)'
        /\ handler'[j] # NoPacket => Earned(j, handler[j].tag)'
    <3>1. ASSUME NEW t \in Tag, t.cookie \in InUse, Earned(j, t) PROVE Earned(j, t)'
      BY <1>9, <3>1 DEF Kept, Earned
    <3>2. ASSUME NEW i \in DOMAIN inbox[j]
          PROVE  inbox[j][i].tag \in Tag /\ inbox[j][i].tag.cookie \in InUse /\ Earned(j, inbox[j][i].tag)
      <4>1. inbox[j][i] \in Packet
        BY <2>1 DEF TypeOK
      <4> QED BY <2>1, <4>1, Used DEF Packet, NodeOK
    <3>3. handler[j] # NoPacket => handler[j].tag \in Tag /\ handler[j].tag.cookie \in InUse
                                   /\ Earned(j, handler[j].tag)
      BY <2>1, Fields, Used DEF NodeOK
    <3> QED BY <1>5, <3>1, <3>2, <3>3
  <2>3. /\ pingTimer'[j] => pc'[j] = "wait" /\ probe'[j].node # NoAddr /\ probe'[j].cookie # NoAddr
        /\ probe'[j].node # NoAddr /\ probe'[j].acked => answered'[j]
    <3>1. CASE j = n
      BY <1>2, <1>4, <1>5, <1>7, <3>1 DEF TypeOK
    <3>2. CASE j # n
      BY <1>2, <1>5, <1>7, <2>1, <3>2 DEF TypeOK, NodeOK
    <3> QED BY <3>1, <3>2
  <2> QED BY <2>2, <2>3 DEF NodeOK
<1>11. ASSUME NEW x, x = ping PROVE MessageOK(x)'
  <2>1. probe'[n].node = m
    BY <1>4, <1>7
  <2>2. x.type = "Ping" /\ x.requester = n /\ x.from = n /\ x.to = m /\ x.tag = tag /\ x.reply = tag
    BY <1>4, <1>11
  <2> QED BY <2>1, <2>2 DEF MessageOK, PingOK
<1>12. \A x \in msgs' : MessageOK(x)'
  BY <1>5, <1>9, <1>11, Survives
<1>13. ASSUME NEW r \in Addr, NEW c \in callbacks'[r], NEW x \in msgs' PROVE CallbackOK(r, c, x)'
  <2>1. c \in callbacks[r] /\ c.tag.cookie \in InUse
    BY <1>5, Used
  <2>2. CASE x \in msgs
    BY <1>9, <2>1, <2>2, Survives
  <2>3. CASE x = ping
    BY <1>3, <1>4, <2>1, <2>3 DEF CallbackOK
  <2> QED BY <1>5, <2>2, <2>3
<1> QED BY <1>8, <1>10, <1>12, <1>13 DEF IInv

\* The ping timeout: the relays are asked about the node being probed.
LEMMA PingTimeoutInv ==
  ASSUME IInv, NEW n \in Addr, PingTimeout(n)
  PROVE  IInv'
<1> DEFINE Asked(S) == {[type |-> "IndirectPing", from |-> n, to |-> r, tag |-> TagOf(n),
                         target |-> probe[n].node] : r \in S}
<1>1. TypeOK /\ NodeOK(n) /\ pingTimer[n]
  BY DEF IInv, PingTimeout
<1>2. PICK S \in SUBSET Addr : msgs' = msgs \cup Asked(S) \/ msgs' = msgs
  BY DEF PingTimeout, Relays
<1>3. /\ pingTimer' = [pingTimer EXCEPT ![n] = FALSE]
      /\ UNCHANGED <<pc, id, probe, inbox, handler, callbacks, answered, faults>>
  BY DEF PingTimeout
<1>4. TagOf(n) \in Tag /\ probe[n].node \in Addr
  BY <1>1 DEF TagOf, TypeOK, NodeOK, Tag
<1>5. \A x \in Asked(S) : /\ x.type = "IndirectPing" /\ x.from = n /\ x.tag = TagOf(n)
                          /\ x.target = probe[n].node /\ x \in Datagram
  BY <1>4 DEF Datagram
<1> HIDE DEF Asked
<1>6. TypeOK'
  BY <1>1, <1>2, <1>3, <1>5 DEF TypeOK
<1>7. \A k \in Addr : \A tag \in Tag : Kept(k, tag)
  BY <1>3 DEF Kept, Live, TagOf
<1>8. ASSUME NEW k \in Addr PROVE NodeOK(k)'
  BY <1>1, <1>3 DEF IInv, NodeOK, Earned, Live, TagOf, TypeOK
<1>9. ASSUME NEW x \in Asked(S) PROVE MessageOK(x)'
  BY <1>3, <1>5 DEF MessageOK, IndirectPingOK
<1>10. \A x \in msgs' : MessageOK(x)'
  BY <1>2, <1>7, <1>9, Survives
<1>11. ASSUME NEW r \in Addr, NEW c \in callbacks'[r], NEW x \in msgs' PROVE CallbackOK(r, c, x)'
  <2>1. CASE x \in msgs
    BY <1>3, <1>7, <2>1, Survives
  <2>2. CASE x \in Asked(S)
    BY <1>5, <2>2 DEF CallbackOK
  <2> QED BY <1>2, <2>1, <2>2
<1> QED BY <1>6, <1>8, <1>10, <1>11 DEF IInv

\* handleMessage: a packet with the tag of the probe follows an answer of its target.
LEMMA HandleMessageInv ==
  ASSUME IInv, NEW n \in Addr, HandleMessage(n)
  PROVE  IInv'
<1> DEFINE head == Head(inbox[n])
<1>1. TypeOK /\ NodeOK(n) /\ inbox \in [Addr -> Seq(Packet)] /\ inbox[n] # << >> /\ probe \in [Addr -> Probe]
  BY DEF IInv, HandleMessage, TypeOK, Probe
<1>2. /\ inbox' = [inbox EXCEPT ![n] = Tail(@)]
      /\ UNCHANGED <<pc, id, pingTimer, handler, callbacks, msgs, answered, faults>>
      /\ probe' = IF Current(n, head) THEN [probe EXCEPT ![n].acked = TRUE] ELSE probe
  BY DEF HandleMessage
<1>3. 1 \in DOMAIN inbox[n] /\ head = inbox[n][1] /\ head.tag \in Tag /\ Earned(n, head.tag)
  <2>1. 1 \in DOMAIN inbox[n] /\ head = inbox[n][1] /\ head \in Packet
    BY <1>1
  <2> QED BY <1>1, <2>1 DEF NodeOK, Packet
<1>4. /\ inbox' \in [Addr -> Seq(Packet)]
      /\ \A k \in Addr : k # n => inbox'[k] = inbox[k]
      /\ inbox'[n] = Tail(inbox[n])
  BY <1>1, <1>2
<1>5. /\ Len(inbox'[n]) <= Len(inbox[n])
      /\ \A i \in DOMAIN inbox'[n] : i + 1 \in DOMAIN inbox[n] /\ inbox'[n][i] = inbox[n][i + 1]
  BY <1>1, <1>4
<1>6. /\ probe' \in [Addr -> Probe]
      /\ \A k \in Addr : /\ probe'[k].node = probe[k].node /\ probe'[k].cookie = probe[k].cookie
                         /\ k # n => probe'[k] = probe[k]
  <2> DEFINE q == [probe[n] EXCEPT !.acked = TRUE]
  <2>1. q \in Probe /\ q.node = probe[n].node /\ q.cookie = probe[n].cookie
    BY <1>1 DEF Probe
  <2>2. probe' = [probe EXCEPT ![n] = q] \/ probe' = probe
    BY <1>2
  <2> HIDE DEF q
  <2> QED BY <1>1, <2>1, <2>2
<1>7. probe'[n].node # NoAddr /\ probe'[n].acked => answered'[n]
  <2>1. CASE Current(n, head) /\ probe[n].node # NoAddr
    <3>1. head.tag = TagOf(n)
      BY <1>3, <2>1 DEF Current, TagOf, Tag
    <3> QED BY <1>2, <1>3, <2>1, <3>1 DEF Earned, Live
  <2>2. CASE ~Current(n, head)
    BY <1>1, <1>2, <2>2 DEF NodeOK
  <2> QED BY <1>6, <2>1, <2>2
<1>8. \A k \in Addr : \A tag \in Tag : Kept(k, tag)
  BY <1>2, <1>6 DEF Kept, Live, TagOf
<1>9. TypeOK'
  <2>1. \A k \in Addr : Len(inbox'[k]) <= ChanCap
    BY <1>1, <1>4, <1>5, RunLoopAssumption DEF TypeOK
  <2> QED BY <1>1, <1>2, <1>4, <1>6, <2>1 DEF TypeOK, Probe
<1>10. ASSUME NEW k \in Addr PROVE NodeOK(k)'
  <2>1. NodeOK(k)
    BY DEF IInv
  <2>2. \A tag : Earned(k, tag) => Earned(k, tag)'
    BY <1>2, <1>6 DEF Earned, Live, TagOf
  <2>3. \A i \in DOMAIN inbox'[k] : Earned(k, inbox[k][i].tag)'
    <3>1. CASE k = n
      <4>1. \A i \in DOMAIN inbox[n] : Earned(n, inbox[n][i].tag)
        BY <2>1, <3>1 DEF NodeOK
      <4> SUFFICES ASSUME NEW i \in DOMAIN inbox'[n] PROVE Earned(n, inbox[n][i].tag)'
        BY <3>1
      <4>2. inbox'[n][i] = inbox[n][i + 1] /\ Earned(n, inbox[n][i + 1].tag)
        BY <1>5, <4>1
      <4>3. \A tag : Earned(n, tag) => Earned(n, tag)'
        BY <2>2, <3>1
      <4> QED BY <4>2, <4>3
    <3>2. CASE k # n
      <4>1. inbox'[k] = inbox[k] /\ \A i \in DOMAIN inbox[k] : Earned(k, inbox[k][i].tag)
        BY <1>4, <2>1, <3>2 DEF NodeOK
      <4> QED BY <2>2, <4>1
    <3> QED BY <3>1, <3>2
  <2>4. handler'[k] # NoPacket => Earned(k, handler[k].tag)'
    BY <1>2, <2>1, <2>2 DEF NodeOK
  <2>5. /\ pingTimer'[k] => pc'[k] = "wait" /\ probe'[k].node # NoAddr /\ probe'[k].cookie # NoAddr
        /\ probe'[k].node # NoAddr /\ probe'[k].acked => answered'[k]
    BY <1>2, <1>6, <1>7, <2>1 DEF NodeOK
  <2> QED BY <2>3, <2>4, <2>5 DEF NodeOK
<1> QED BY <1>2, <1>8, <1>9, <1>10, Survives DEF IInv

-----------------------------------------------------------------------------
(* The handler of datagrams.                                                *)

\* ReceiveMessage: the packet moves from the handler to the channel.
LEMMA EnqueueInv ==
  ASSUME IInv, NEW n \in Addr, Enqueue(n)
  PROVE  IInv'
<1>1. TypeOK /\ NodeOK(n) /\ inbox \in [Addr -> Seq(Packet)] /\ handler[n] # NoPacket
      /\ handler[n] \in Packet /\ Len(inbox[n]) < ChanCap
  BY DEF IInv, Enqueue, TypeOK
<1>2. /\ inbox' = [inbox EXCEPT ![n] = Append(@, handler[n])]
      /\ handler' = [handler EXCEPT ![n] = NoPacket]
      /\ UNCHANGED <<pc, id, probe, pingTimer, callbacks, msgs, answered, faults>>
  BY DEF Enqueue
<1>3. /\ inbox' \in [Addr -> Seq(Packet)]
      /\ \A k \in Addr : k # n => inbox'[k] = inbox[k]
      /\ inbox'[n] = Append(inbox[n], handler[n])
  BY <1>1, <1>2
<1>4. /\ Len(inbox'[n]) <= ChanCap
      /\ \A i \in DOMAIN inbox'[n] : IF i \in DOMAIN inbox[n] THEN inbox'[n][i] = inbox[n][i]
                                     ELSE inbox'[n][i] = handler[n]
  BY <1>1, <1>3, RunLoopAssumption
<1>5. \A k \in Addr : \A tag \in Tag : Kept(k, tag)
  BY <1>2 DEF Kept, Live, TagOf
<1>6. TypeOK'
  BY <1>1, <1>2, <1>3, <1>4 DEF TypeOK
<1>7. ASSUME NEW k \in Addr PROVE NodeOK(k)'
  <2>1. NodeOK(k)
    BY DEF IInv
  <2>2. \A tag : Earned(k, tag) => Earned(k, tag)'
    BY <1>2 DEF Earned, Live, TagOf
  <2>3. \A i \in DOMAIN inbox'[k] : Earned(k, inbox[k][i].tag)'
    BY <1>1, <1>3, <1>4, <2>1, <2>2 DEF NodeOK
  <2>4. handler'[k] # NoPacket => Earned(k, handler[k].tag)'
    BY <1>1, <1>2, <2>1, <2>2 DEF NodeOK, TypeOK
  <2> QED BY <1>2, <2>1, <2>3, <2>4 DEF NodeOK
<1> QED BY <1>2, <1>5, <1>6, <1>7, Survives DEF IInv

\* Steps that leave the nodes as they are and lose callbacks or datagrams.
LEMMA QuietInv ==
  ASSUME IInv, UNCHANGED <<pc, id, probe, pingTimer, inbox, handler, answered>>,
         faults' \in 0 .. MaxFaults, msgs' \subseteq msgs,
         callbacks' \in [Addr -> SUBSET Callback], \A n \in Addr : callbacks'[n] \subseteq callbacks[n]
  PROVE  IInv'
<1>1. TypeOK'
  BY DEF IInv, TypeOK
<1>2. \A k \in Addr : \A tag \in Tag : Kept(k, tag)
  BY DEF Kept, Live, TagOf
<1>3. \A k \in Addr : NodeOK(k)'
  BY DEF IInv, NodeOK, Earned, Live, TagOf
<1> QED BY <1>1, <1>2, <1>3, Survives DEF IInv

\* A datagram that is taken leaves the network as it is but for the replies.
LEMMA TakeValues ==
  ASSUME IInv, NEW x \in msgs, NEW replies, Take(x, replies)
  PROVE  msgs' \subseteq msgs \cup replies /\ faults' \in 0 .. MaxFaults /\ handler[x.to] = NoPacket
BY RunLoopAssumption DEF Take, IInv, TypeOK

\* The handler of a Ping: the target has answered.
LEMMA ReceivePingInv ==
  ASSUME IInv, NEW x \in msgs, ReceivePing(x)
  PROVE  IInv'
<1> DEFINE pong == [type |-> "Pong", from |-> x.to, to |-> x.from, tag |-> x.tag]
<1>1. TypeOK /\ x.type = "Ping" /\ x.from \in Addr /\ x.to \in Addr /\ x.tag \in Tag
      /\ x.requester \in Addr /\ x.reply \in Tag /\ PingOK(x)
  BY Fields DEF IInv, MessageOK, ReceivePing
<1>2. msgs' \subseteq msgs \cup {pong} /\ faults' \in 0 .. MaxFaults
  BY TakeValues DEF ReceivePing
<1>3. /\ answered' = IF Reached(x) THEN [answered EXCEPT ![x.requester] = TRUE] ELSE answered
      /\ UNCHANGED <<pc, id, probe, pingTimer, inbox, handler, callbacks>>
  BY DEF ReceivePing
<1>4. pong \in Datagram /\ pong.type = "Pong" /\ pong.to = x.from /\ pong.tag = x.tag
  BY <1>1 DEF Datagram
<1> HIDE DEF pong
<1>5. /\ answered' \in [Addr -> BOOLEAN]
      /\ \A k \in Addr : answered[k] => answered'[k]
      /\ Reached(x) => answered'[x.requester]
  BY <1>1, <1>3 DEF TypeOK
<1>6. TypeOK'
  BY <1>1, <1>2, <1>3, <1>4, <1>5 DEF TypeOK
<1>7. \A k \in Addr : \A tag \in Tag : Kept(k, tag)
  BY <1>3, <1>5 DEF Kept, Live, TagOf
<1>8. ASSUME NEW k \in Addr PROVE NodeOK(k)'
  <2>1. NodeOK(k)
    BY DEF IInv
  <2>2. \A tag : Earned(k, tag) => Earned(k, tag)'
    BY <1>3, <1>5 DEF Earned, Live, TagOf
  <2> QED BY <1>3, <1>5, <2>1, <2>2 DEF NodeOK
<1>9. Earned(x.requester, x.reply)'
  <2> SUFFICES ASSUME Live(x.requester, x.reply)' PROVE answered'[x.requester]
    BY DEF Earned
  <2>1. Live(x.requester, x.reply)
    BY <1>3 DEF Live, TagOf
  <2>2. Reached(x)
    BY <1>1, <2>1 DEF Reached, PingOK, Live
  <2> QED BY <1>5, <2>2
<1>10. ASSUME NEW y, y = pong PROVE MessageOK(y)'
  <2>1. y.type = "Pong" /\ y.to = x.from /\ y.tag = x.tag
    BY <1>4, <1>10
  <2> SUFFICES ASSUME Live(x.from, x.tag)' PROVE answered'[x.from]
    BY <2>1 DEF MessageOK, Earned
  <2>2. Live(x.from, x.tag)
    BY <1>3 DEF Live, TagOf
  <2>3. x.requester = x.from /\ x.reply = x.tag
    BY <1>1, <2>2 DEF PingOK
  <2> QED BY <1>9, <2>3 DEF Earned
<1>11. \A y \in msgs' : MessageOK(y)'
  BY <1>2, <1>7, <1>10, Survives
<1>12. ASSUME NEW r \in Addr, NEW c \in callbacks'[r], NEW y \in msgs' PROVE CallbackOK(r, c, y)'
  <2>1. c \in callbacks[r]
    BY <1>3
  <2>2. CASE y \in msgs
    BY <1>7, <2>1, <2>2, Survives
  <2>3. CASE y = pong
    <3>1. CallbackOK(r, c, x)
      BY <2>1 DEF IInv
    <3> SUFFICES ASSUME y.to = r, y.tag = c.tag PROVE Earned(c.requester, c.reply)'
      BY <1>4, <2>3 DEF CallbackOK
    <3>2. x.requester = c.requester /\ x.reply = c.reply
      BY <1>1, <1>4, <2>3, <3>1 DEF CallbackOK
    <3> QED BY <1>9, <3>2
  <2> QED BY <1>2, <2>2, <2>3
<1> QED BY <1>6, <1>8, <1>11, <1>12 DEF IInv

\* A packet is handed to the loop of its receiver, and callbacks that are called go.
LEMMA HandOverInv ==
  ASSUME IInv, NEW x \in msgs, x.type \in {"Pong", "IndirectPong"},
         handler' = [handler EXCEPT ![x.to] = [type |-> x.type, tag |-> x.tag]],
         UNCHANGED <<pc, id, probe, pingTimer, inbox, answered>>
  PROVE  /\ handler' \in [Addr -> Packet \cup {NoPacket}]
         /\ \A k \in Addr : NodeOK(k)'
         /\ \A k \in Addr : \A tag \in Tag : Kept(k, tag)
<1> DEFINE packet == [type |-> x.type, tag |-> x.tag]
<1>1. TypeOK /\ x.to \in Addr /\ x.tag \in Tag /\ Earned(x.to, x.tag)
  BY Fields DEF IInv, MessageOK
<1>2. packet \in Packet /\ packet.tag = x.tag
  BY <1>1 DEF Packet
<1>3. handler' = [handler EXCEPT ![x.to] = packet]
  OBVIOUS
<1> HIDE DEF packet
<1>4. handler' \in [Addr -> Packet \cup {NoPacket}]
      /\ \A k \in Addr : handler'[k] = IF k = x.to THEN packet ELSE handler[k]
  BY <1>1, <1>2, <1>3 DEF TypeOK
<1>5. ASSUME NEW k \in Addr PROVE NodeOK(k)'
  <2>1. NodeOK(k)
    BY DEF IInv
  <2>2. \A tag : Earned(k, tag) => Earned(k, tag)'
    BY DEF Earned, Live, TagOf
  <2>3. handler'[k] # NoPacket => Earned(k, handler'[k].tag)
    BY <1>1, <1>2, <1>4, <2>1 DEF NodeOK
  <2>4. handler'[k] # NoPacket => Earned(k, handler[k].tag)'
    BY <2>3 DEF Earned, Live, TagOf
  <2> QED BY <2>1, <2>2, <2>4 DEF NodeOK
<1>6. \A k \in Addr : \A tag \in Tag : Kept(k, tag)
  BY DEF Kept, Live, TagOf
<1> QED BY <1>4, <1>5, <1>6

\* The handler of a Pong: the callback of a relayed ping vouches for its target.
LEMMA ReceivePongInv ==
  ASSUME IInv, NEW x \in msgs, ReceivePong(x)
  PROVE  IInv'
<1> DEFINE called == {c \in callbacks[x.to] : c.tag = x.tag}
           Pongs == {[type |-> "IndirectPong", from |-> x.to, to |-> c.requester, tag |-> c.reply] :
                       c \in called}
<1>1. TypeOK /\ x.type = "Pong" /\ x.to \in Addr
  BY Fields DEF IInv, ReceivePong
<1>2. msgs' \subseteq msgs \cup Pongs /\ faults' \in 0 .. MaxFaults
  BY TakeValues DEF ReceivePong
<1>3. /\ callbacks' = [callbacks EXCEPT ![x.to] = @ \ called]
      /\ handler' = [handler EXCEPT ![x.to] = [type |-> x.type, tag |-> x.tag]]
      /\ UNCHANGED <<pc, id, probe, pingTimer, inbox, answered>>
  BY DEF ReceivePong
<1>4. /\ handler' \in [Addr -> Packet \cup {NoPacket}]
      /\ \A k \in Addr : NodeOK(k)'
      /\ \A k \in Addr : \A tag \in Tag : Kept(k, tag)
  BY <1>1, <1>3, HandOverInv
<1>5. callbacks' \in [Addr -> SUBSET Callback] /\ \A r \in Addr : callbacks'[r] \subseteq callbacks[r]
  BY <1>1, <1>3 DEF TypeOK
<1>6. ASSUME NEW y \in Pongs
      PROVE  /\ y \in Datagram /\ y.type = "IndirectPong"
             /\ \E c \in called : y.to = c.requester /\ y.tag = c.reply
  BY <1>1, Fields, SMTT(30) DEF Datagram
<1>7. TypeOK'
  BY <1>1, <1>2, <1>3, <1>4, <1>5, <1>6 DEF TypeOK
<1>8. ASSUME NEW y \in Pongs PROVE MessageOK(y)'
  <2>1. PICK c \in called : y.to = c.requester /\ y.tag = c.reply
    BY <1>6
  <2>2. CallbackOK(x.to, c, x)
    BY <1>1 DEF IInv
  <2>3. Earned(c.requester, c.reply)
    BY <1>1, <2>2 DEF CallbackOK
  <2>4. Earned(y.to, y.tag)'
    BY <1>3, <2>1, <2>3 DEF Earned, Live, TagOf
  <2> QED BY <1>6, <2>4 DEF MessageOK
<1> HIDE DEF Pongs
<1>9. \A y \in msgs' : MessageOK(y)'
  BY <1>2, <1>4, <1>8, Survives
<1>10. ASSUME NEW r \in Addr, NEW c \in callbacks'[r], NEW y \in msgs' PROVE CallbackOK(r, c, y)'
  <2>1. c \in callbacks[r]
    BY <1>5
  <2>2. CASE y \in msgs
    BY <1>4, <2>1, <2>2, Survives
  <2>3. CASE y \in Pongs
    BY <1>6, <2>3 DEF CallbackOK
  <2> QED BY <1>2, <2>2, <2>3
<1> QED BY <1>4, <1>7, <1>9, <1>10 DEF IInv

\* The handler of an IndirectPong.
LEMMA ReceiveIndirectPongInv ==
  ASSUME IInv, NEW x \in msgs, ReceiveIndirectPong(x)
  PROVE  IInv'
<1>1. TypeOK /\ x.type = "IndirectPong"
  BY DEF IInv, ReceiveIndirectPong
<1>2. msgs' \subseteq msgs /\ faults' \in 0 .. MaxFaults
  BY TakeValues DEF ReceiveIndirectPong
<1>3. /\ handler' = [handler EXCEPT ![x.to] = [type |-> x.type, tag |-> x.tag]]
      /\ UNCHANGED <<pc, id, probe, pingTimer, inbox, callbacks, answered>>
  BY <1>1 DEF ReceiveIndirectPong
<1>4. /\ handler' \in [Addr -> Packet \cup {NoPacket}]
      /\ \A k \in Addr : NodeOK(k)'
      /\ \A k \in Addr : \A tag \in Tag : Kept(k, tag)
  BY <1>1, <1>3, HandOverInv
<1>5. TypeOK'
  BY <1>1, <1>2, <1>3, <1>4 DEF TypeOK
<1> QED BY <1>2, <1>3, <1>4, <1>5, Survives DEF IInv

\* performIndirectPing: the cookie of the relayed ping is in use nowhere, so no other
\* pong can call its callback.
LEMMA ReceiveIndirectPingInv ==
  ASSUME IInv, NEW x \in msgs, ReceiveIndirectPing(x)
  PROVE  IInv'
<1>1. PICK k \in Cookies \ InUse :
        LET tag == [cookie |-> k, period |-> id[x.to]]
        IN  /\ Take(x, {[type |-> "Ping", from |-> x.to, to |-> x.target, tag |-> tag,
                         requester |-> x.from, reply |-> x.tag]})
            /\ callbacks' = [callbacks EXCEPT ![x.to] =
                               @ \cup {[tag |-> tag, requester |-> x.from, reply |-> x.tag]}]
  BY DEF ReceiveIndirectPing
<1> DEFINE tag == [cookie |-> k, period |-> id[x.to]]
           ping == [type |-> "Ping", from |-> x.to, to |-> x.target, tag |-> tag,
                    requester |-> x.from, reply |-> x.tag]
           callback == [tag |-> tag, requester |-> x.from, reply |-> x.tag]
<1>2. TypeOK /\ x.type = "IndirectPing" /\ x.from \in Addr /\ x.to \in Addr /\ x.tag \in Tag
      /\ x.target \in Addr /\ IndirectPingOK(x)
  BY Fields DEF IInv, MessageOK, ReceiveIndirectPing
<1>3. /\ msgs' \subseteq msgs \cup {ping} /\ faults' \in 0 .. MaxFaults
      /\ callbacks' = [callbacks EXCEPT ![x.to] = @ \cup {callback}]
      /\ UNCHANGED <<pc, id, probe, pingTimer, inbox, handler, answered>>
  <2>1. Take(x, {ping}) /\ callbacks' = [callbacks EXCEPT ![x.to] = @ \cup {callback}]
    BY <1>1
  <2>2. UNCHANGED <<pc, id, probe, pingTimer, inbox, handler, answered>>
    BY DEF ReceiveIndirectPing
  <2> HIDE DEF ping, callback
  <2> QED BY <2>1, <2>2, TakeValues
<1>4. tag \in Tag /\ tag.cookie = k
  BY <1>2 DEF TypeOK, Tag
<1>5. /\ ping \in Datagram /\ ping.type = "Ping" /\ ping.from = x.to /\ ping.to = x.target
      /\ ping.tag = tag /\ ping.requester = x.from /\ ping.reply = x.tag
      /\ callback \in Callback /\ callback.tag = tag /\ callback.requester = x.from
      /\ callback.reply = x.tag
  BY <1>2, <1>4 DEF Datagram, Callback
<1> HIDE DEF tag, ping, callback
<1>6. /\ callbacks' \in [Addr -> SUBSET Callback]
      /\ \A r \in Addr : callbacks'[r] = IF r = x.to THEN callbacks[r] \cup {callback} ELSE callbacks[r]
  BY <1>2, <1>3, <1>5 DEF TypeOK
<1>7. TypeOK'
  BY <1>2, <1>3, <1>5, <1>6 DEF TypeOK
<1>8. \A j \in Addr : \A t \in Tag : Kept(j, t)
  BY <1>3 DEF Kept, Live, TagOf
<1>9. \A j \in Addr : NodeOK(j)'
  BY <1>3 DEF IInv, NodeOK, Earned, Live, TagOf
<1>10. ASSUME NEW y, y = ping PROVE MessageOK(y)'
  <2>1. y.type = "Ping" /\ y.from = x.to /\ y.to = x.target /\ y.tag = tag
        /\ y.requester = x.from /\ y.reply = x.tag
    BY <1>5, <1>10
  <2>2. Live(x.from, x.tag)' => x.target = probe'[x.from].node
    BY <1>2, <1>3 DEF IndirectPingOK, Live, TagOf
  <2>3. ASSUME Live(x.to, y.tag)' PROVE FALSE
    <3>1. tag.cookie = probe[x.to].cookie
      BY <1>3, <2>1, <2>3 DEF Live, TagOf
    <3> QED BY <1>2, <1>4, <3>1, Used
  <2> QED BY <2>1, <2>2, <2>3 DEF MessageOK, PingOK
<1>11. \A y \in msgs' : MessageOK(y)'
  BY <1>3, <1>8, <1>10, Survives
<1>12. ASSUME NEW r \in Addr, NEW c \in callbacks'[r], NEW y \in msgs' PROVE CallbackOK(r, c, y)'
  <2>1. CASE c \in callbacks[r] /\ y \in msgs
    BY <1>8, <2>1, Survives
  <2>2. CASE c \in callbacks[r] /\ y = ping
    BY <1>4, <1>5, <2>2, Used DEF CallbackOK
  <2>3. CASE c = callback /\ y \in msgs
    BY <1>4, <1>5, <2>3, Used DEF CallbackOK
  <2>4. CASE c = callback /\ y = ping
    BY <1>5, <2>4 DEF CallbackOK
  <2> QED BY <1>3, <1>6, <2>1, <2>2, <2>3, <2>4
<1> QED BY <1>7, <1>9, <1>11, <1>12 DEF IInv

-----------------------------------------------------------------------------
(* The theorems.                                                            *)

\* Every step preserves the invariant.
LEMMA NextInv == IInv /\ [Next]_vars => IInv'
<1> SUFFICES ASSUME IInv, [Next]_vars PROVE IInv'
  OBVIOUS
<1>0. TypeOK
  BY DEF IInv
<1>1. ASSUME NEW n \in Addr, StartIdle(n) \/ EndPeriod(n) PROVE IInv'
  BY <1>1, GiveUpInv
<1>2. ASSUME NEW n \in Addr, NEW m \in Addr, StartProbe(n, m) PROVE IInv'
  BY <1>2, StartProbeInv
<1>3. ASSUME NEW n \in Addr, PingTimeout(n) PROVE IInv'
  BY <1>3, PingTimeoutInv
<1>4. ASSUME NEW n \in Addr, HandleMessage(n) PROVE IInv'
  BY <1>4, HandleMessageInv
<1>5. ASSUME NEW n \in Addr, Enqueue(n) PROVE IInv'
  BY <1>5, EnqueueInv
<1>6. ASSUME NEW n \in Addr, NEW c \in callbacks[n], ForgetCallback(n, c) PROVE IInv'
  <2>1. callbacks' \in [Addr -> SUBSET Callback] /\ \A k \in Addr : callbacks'[k] \subseteq callbacks[k]
    BY <1>0, <1>6 DEF ForgetCallback, TypeOK
  <2>2. faults' \in 0 .. MaxFaults /\ msgs' = msgs
    BY <1>0, <1>6 DEF ForgetCallback, TypeOK
  <2> QED BY <1>6, <2>1, <2>2, QuietInv DEF ForgetCallback
<1>7. ASSUME NEW x \in msgs, Lose(x) PROVE IInv'
  <2>1. faults' \in 0 .. MaxFaults /\ callbacks \in [Addr -> SUBSET Callback]
    BY <1>0, <1>7, RunLoopAssumption DEF Lose, TypeOK
  <2> QED BY <1>7, <2>1, QuietInv DEF Lose
<1>8. ASSUME NEW x \in msgs, Receive(x) PROVE IInv'
  BY <1>8, ReceivePingInv, ReceivePongInv, ReceiveIndirectPongInv, ReceiveIndirectPingInv DEF Receive
<1>9. CASE UNCHANGED vars
  BY <1>0, <1>9, QuietInv DEF vars, TypeOK
<1> QED BY <1>1, <1>2, <1>3, <1>4, <1>5, <1>6, <1>7, <1>8, <1>9 DEF Next

\* The invariant holds in every behaviour.
LEMMA Invariance == Spec => []IInv
BY InitInv, NextInv, PTL DEF Spec

\* A probe that counts as answered was answered by the node being probed, however
\* many nodes probe and relay and whatever is lost, duplicated or late.
THEOREM Acked == Spec => []AckedByTarget
<1>1. IInv => AckedByTarget
  BY DEF IInv, NodeOK, AckedByTarget
<1> QED BY <1>1, Invariance, PTL

\* An IndirectPong with the tag of the current probe follows an answer of its target.
THEOREM Vouched == Spec => []VouchedFor
<1>1. IInv => VouchedFor
  BY DEF IInv, MessageOK, Earned, Live, VouchedFor
<1> QED BY <1>1, Invariance, PTL

\* The types, and the channel never holds more than its capacity.
THEOREM TypeCorrect == Spec => []TypeOK
<1>1. IInv => TypeOK
  BY DEF IInv
<1> QED BY <1>1, Invariance, PTL

=============================================================================

------------------------------ MODULE RunLoop ------------------------------
(***************************************************************************)
(* The run loops of a cluster and the path of the messages they wait for   *)
(* (internal/core/runloop.go; HandleUDPControlMessage and                  *)
(* performIndirectPing of swim_server.go).                                 *)
(*                                                                         *)
(* A node runs two goroutines: the loop, which waits in a select for the   *)
(* timer of the period, the timeout of the ping and messages, and the      *)
(* handler of datagrams, which hands Pong and IndirectPong over in a       *)
(* channel and blocks when that is full.  Every node also relays probes of *)
(* others; the answer to a relayed ping comes to the same handler as the   *)
(* answer to its own, and goes to its loop as well.                        *)
(*                                                                         *)
(* Time is left open: timers fire at any moment after they are set, and    *)
(* datagrams take any time and any order; some are lost or duplicated.     *)
(* What a probe tells about its target is in module Swim.                  *)
(***************************************************************************)
EXTENDS Integers, Sequences, FiniteSets

CONSTANTS
  Addr,
  NoAddr,         \* NodeHashZero
  Probers,        \* bound of the model: the nodes that have others to probe
  Cookies,        \* bound of the model: cookies, and so probes, at a time
  MaxFaults,      \* bound of the model: datagrams lost or duplicated
  MaxUint16,
  ChanCap,        \* capacity of incomingMessages, 10 in the code
  IndirectPings   \* Options.IndirectPings

ASSUME RunLoopAssumption ==
  /\ NoAddr \notin Addr \cup Cookies
  /\ Probers \subseteq Addr
  /\ MaxUint16 \in Nat /\ MaxUint16 >= 2
  /\ MaxFaults \in Nat
  /\ ChanCap \in Nat \ {0}
  /\ IndirectPings \in Nat

VARIABLES
  pc,         \* "start" before startPeriod, "wait" in waitPeriod
  id,         \* period.id
  probe,      \* period.node, .cookie and .acked
  pingTimer,  \* whether period.pingTimeout has still to fire
  inbox,      \* incomingMessages
  handler,    \* the packet the handler is about to put there, or NoPacket
  callbacks,  \* indirectPingCallbacks
  msgs,       \* the datagrams in flight
  answered,   \* history: the target has answered a ping of the current probe
  faults      \* the datagrams lost or duplicated so far

vars == <<pc, id, probe, pingTimer, inbox, handler, callbacks, msgs, answered, faults>>

Period == 0 .. MaxUint16 - 1

(***************************************************************************)
(* A tag is what a Pong or an IndirectPong is recognised by.  The origin   *)
(* of a Ping, the requester and the tag of its probe, is history: it is    *)
(* not in the datagram.                                                    *)
(***************************************************************************)
Tag      == [cookie : Cookies, period : Period]
Packet   == [type : {"Pong", "IndirectPong"}, tag : Tag]
NoPacket == [type |-> "None", tag |-> NoAddr]

Callback == [tag : Tag, requester : Addr, reply : Tag]

Datagram ==
       [type : {"Ping"}, from : Addr, to : Addr, tag : Tag, requester : Addr, reply : Tag]
  \cup [type : {"IndirectPing"}, from : Addr, to : Addr, tag : Tag, target : Addr]
  \cup [type : {"Pong", "IndirectPong"}, from : Addr, to : Addr, tag : Tag]

NoProbe == [node |-> NoAddr, cookie |-> NoAddr, acked |-> FALSE]

TagOf(n) == [cookie |-> probe[n].cookie, period |-> id[n]]

\* The random cookies in use.  A new one is taken to differ from all of them.
CookiesOf(S) == {x.tag.cookie : x \in S}

CookiesHeld(n) ==
  {probe[n].cookie}
  \cup CookiesOf(callbacks[n]) \cup {c.reply.cookie : c \in callbacks[n]}
  \cup CookiesOf({handler[n]} \ {NoPacket})
  \cup {inbox[n][i].tag.cookie : i \in DOMAIN inbox[n]}

InUse ==
  CookiesOf(msgs)
  \cup {x.reply.cookie : x \in {y \in msgs : y.type = "Ping"}}
  \cup UNION {CookiesHeld(n) : n \in Addr}

-----------------------------------------------------------------------------

Init == /\ pc = [n \in Addr |-> "start"]
        /\ id = [n \in Addr |-> 1]
        /\ probe = [n \in Addr |-> NoProbe]
        /\ pingTimer = [n \in Addr |-> FALSE]
        /\ inbox = [n \in Addr |-> << >>]
        /\ handler = [n \in Addr |-> NoPacket]
        /\ callbacks = [n \in Addr |-> {}]
        /\ msgs = {}
        /\ answered = [n \in Addr |-> FALSE]
        /\ faults = 0

(***************************************************************************)
(* The loop.                                                               *)
(***************************************************************************)

\* startPeriod, when NextProbeSubject returns nil; the ping timeout of such a
\* period has no effect and is left out.
StartIdle(n) ==
  /\ pc[n] = "start"
  /\ pc' = [pc EXCEPT ![n] = "wait"]
  /\ probe' = [probe EXCEPT ![n].node = NoAddr, ![n].acked = FALSE]
  /\ UNCHANGED <<pingTimer, id, inbox, handler, callbacks, msgs, answered, faults>>

StartProbe(n, m) ==
  \E k \in Cookies \ InUse :
    LET tag == [cookie |-> k, period |-> id[n]]
    IN  /\ pc[n] = "start"
        /\ pc' = [pc EXCEPT ![n] = "wait"]
        /\ probe' = [probe EXCEPT ![n] = [node |-> m, cookie |-> k, acked |-> FALSE]]
        /\ pingTimer' = [pingTimer EXCEPT ![n] = TRUE]
        /\ msgs' = msgs \cup {[type |-> "Ping", from |-> n, to |-> m, tag |-> tag,
                               requester |-> n, reply |-> tag]}
        /\ answered' = [answered EXCEPT ![n] = FALSE]
        /\ UNCHANGED <<id, inbox, handler, callbacks, faults>>

\* The nodes IndirectPingMembers may choose; members come and go, and the
\* target itself may no longer be one, in which case nobody is asked.
Relays(n) == {S \in SUBSET (Addr \ {n, probe[n].node}) : Cardinality(S) <= IndirectPings}

\* The ping timeout: pingIndirect, unless the probe has been answered.
PingTimeout(n) ==
  /\ pc[n] = "wait" /\ pingTimer[n]
  /\ pingTimer' = [pingTimer EXCEPT ![n] = FALSE]
  /\ IF probe[n].acked THEN UNCHANGED msgs
     ELSE \E S \in Relays(n) :
            msgs' = msgs \cup {[type |-> "IndirectPing", from |-> n, to |-> r, tag |-> TagOf(n),
                                target |-> probe[n].node] : r \in S}
  /\ UNCHANGED <<pc, id, probe, inbox, handler, callbacks, answered, faults>>

\* Variant of Current: the cookie is not compared.
CurrentPeriodOnly(n, packet) == packet.tag.period = id[n]

\* The checks of handleMessage, the same for both kinds of packets.
Current(n, packet) == packet.tag.period = id[n] /\ packet.tag.cookie = probe[n].cookie

\* Variant of HandleMessage: a packet of another period is not taken.
HandleMessageIfCurrent(n) ==
  /\ pc[n] = "wait" /\ inbox[n] # << >>
  /\ Current(n, Head(inbox[n]))
  /\ inbox' = [inbox EXCEPT ![n] = Tail(@)]
  /\ probe' = [probe EXCEPT ![n].acked = TRUE]
  /\ UNCHANGED <<pc, id, pingTimer, handler, callbacks, msgs, answered, faults>>

HandleMessage(n) ==
  /\ pc[n] = "wait" /\ inbox[n] # << >>
  /\ inbox' = [inbox EXCEPT ![n] = Tail(@)]
  /\ probe' = IF Current(n, Head(inbox[n])) THEN [probe EXCEPT ![n].acked = TRUE] ELSE probe
  /\ UNCHANGED <<pc, id, pingTimer, handler, callbacks, msgs, answered, faults>>

(***************************************************************************)
(* The timer of the period and endPeriod.  What is still in the channel is *)
(* left for the next period; a pending ping timeout is stopped.            *)
(***************************************************************************)
EndPeriod(n) ==
  /\ pc[n] = "wait"
  /\ pc' = [pc EXCEPT ![n] = "start"]
  /\ probe' = [probe EXCEPT ![n].node = NoAddr]
  /\ pingTimer' = [pingTimer EXCEPT ![n] = FALSE]
  /\ id' = [id EXCEPT ![n] = IF @ + 1 >= MaxUint16 THEN 0 ELSE @ + 1]
  /\ UNCHANGED <<inbox, handler, callbacks, msgs, answered, faults>>

(***************************************************************************)
(* The handler of datagrams.  A datagram it takes may be there again.      *)
(***************************************************************************)
Take(x, replies) ==
  /\ handler[x.to] = NoPacket
  /\ \/ /\ msgs' = (msgs \ {x}) \cup replies
        /\ UNCHANGED faults
     \/ /\ faults < MaxFaults
        /\ msgs' = msgs \cup replies
        /\ faults' = faults + 1

\* The history of a ping that has reached its target.
Reached(x) ==
  /\ x.to = probe[x.requester].node
  /\ x.reply = TagOf(x.requester)

ReceivePing(x) ==
  /\ x.type = "Ping"
  /\ Take(x, {[type |-> "Pong", from |-> x.to, to |-> x.from, tag |-> x.tag]})
  /\ answered' = IF Reached(x) THEN [answered EXCEPT ![x.requester] = TRUE] ELSE answered
  /\ UNCHANGED <<pc, id, probe, pingTimer, inbox, handler, callbacks>>

\* The callback of a relayed ping is taken out and sends the IndirectPong.
ReceivePong(x) ==
  LET called == {c \in callbacks[x.to] : c.tag = x.tag}
  IN  /\ x.type = "Pong"
      /\ Take(x, {[type |-> "IndirectPong", from |-> x.to, to |-> c.requester, tag |-> c.reply] :
                    c \in called})
      /\ callbacks' = [callbacks EXCEPT ![x.to] = @ \ called]
      /\ handler' = [handler EXCEPT ![x.to] = [type |-> "Pong", tag |-> x.tag]]
      /\ UNCHANGED <<pc, id, probe, pingTimer, inbox, answered>>

ReceiveIndirectPong(x) ==
  /\ x.type = "IndirectPong"
  /\ Take(x, {})
  /\ handler' = [handler EXCEPT ![x.to] = [type |-> "IndirectPong", tag |-> x.tag]]
  /\ UNCHANGED <<pc, id, probe, pingTimer, inbox, callbacks, answered>>

\* Variant of ReceiveIndirectPing: the requester is answered at once.
ReceiveIndirectPingVouching(x) ==
  \E k \in Cookies \ InUse :
    /\ x.type = "IndirectPing"
    /\ Take(x, {[type |-> "IndirectPong", from |-> x.to, to |-> x.from, tag |-> x.tag]})
    /\ UNCHANGED <<pc, id, probe, pingTimer, inbox, handler, callbacks, answered>>

\* performIndirectPing, in a goroutine of its own: a late start of it is a
\* datagram taken late.
ReceiveIndirectPing(x) ==
  \E k \in Cookies \ InUse :
    LET r == x.to
        tag == [cookie |-> k, period |-> id[r]]
    IN  /\ x.type = "IndirectPing"
        /\ Take(x, {[type |-> "Ping", from |-> r, to |-> x.target, tag |-> tag,
                     requester |-> x.from, reply |-> x.tag]})
        /\ callbacks' = [callbacks EXCEPT ![r] =
                           @ \cup {[tag |-> tag, requester |-> x.from, reply |-> x.tag]}]
        /\ UNCHANGED <<pc, id, probe, pingTimer, inbox, handler, answered>>

\* Variant of Enqueue: the channel takes any number of packets.
EnqueueAlways(n) ==
  /\ handler[n] # NoPacket
  /\ inbox' = [inbox EXCEPT ![n] = Append(@, handler[n])]
  /\ handler' = [handler EXCEPT ![n] = NoPacket]
  /\ UNCHANGED <<pc, id, probe, pingTimer, callbacks, msgs, answered, faults>>

\* ReceiveMessage: blocks while the channel is full.
Enqueue(n) ==
  /\ handler[n] # NoPacket
  /\ Len(inbox[n]) < ChanCap
  /\ inbox' = [inbox EXCEPT ![n] = Append(@, handler[n])]
  /\ handler' = [handler EXCEPT ![n] = NoPacket]
  /\ UNCHANGED <<pc, id, probe, pingTimer, callbacks, msgs, answered, faults>>

\* Five protocol periods after performIndirectPing its callback is deleted.
ForgetCallback(n, c) ==
  /\ callbacks' = [callbacks EXCEPT ![n] = @ \ {c}]
  /\ UNCHANGED <<pc, id, probe, pingTimer, inbox, handler, msgs, answered, faults>>

Lose(x) == /\ faults < MaxFaults
           /\ faults' = faults + 1
           /\ msgs' = msgs \ {x}
           /\ UNCHANGED <<pc, id, probe, pingTimer, inbox, handler, callbacks, answered>>

Receive(x) == \/ ReceivePing(x) \/ ReceivePong(x)
              \/ ReceiveIndirectPing(x) \/ ReceiveIndirectPong(x)

Next ==
  \/ \E n \in Addr :
       \/ StartIdle(n)
       \/ n \in Probers /\ \E m \in Addr \ {n} : StartProbe(n, m)
       \/ PingTimeout(n)
       \/ HandleMessage(n)
       \/ EndPeriod(n)
       \/ Enqueue(n)
       \/ \E c \in callbacks[n] : ForgetCallback(n, c)
  \/ \E x \in msgs : Receive(x) \/ Lose(x)

Spec == Init /\ [][Next]_vars

(***************************************************************************)
(* The timer of a period fires.  The select of waitPeriod chooses at       *)
(* random among what is ready, so a message that is there again and again  *)
(* is taken in the end.                                                    *)
(***************************************************************************)
FairSpec ==
  /\ Spec
  /\ \A n \in Addr : /\ WF_vars(StartIdle(n) \/ \E m \in Addr \ {n} : StartProbe(n, m))
                     /\ WF_vars(EndPeriod(n))
                     /\ SF_vars(HandleMessage(n))
                     /\ WF_vars(Enqueue(n))

-----------------------------------------------------------------------------
(* Properties.                                                              *)

\* Types; the channel holds at most its capacity.
TypeOK ==
  /\ pc \in [Addr -> {"start", "wait"}]
  /\ id \in [Addr -> Period]
  /\ probe \in [Addr -> [node : Addr \cup {NoAddr}, cookie : Cookies \cup {NoAddr}, acked : BOOLEAN]]
  /\ pingTimer \in [Addr -> BOOLEAN]
  /\ inbox \in [Addr -> Seq(Packet)]
  /\ \A n \in Addr : Len(inbox[n]) <= ChanCap
  /\ handler \in [Addr -> Packet \cup {NoPacket}]
  /\ callbacks \in [Addr -> SUBSET Callback]
  /\ msgs \subseteq Datagram
  /\ answered \in [Addr -> BOOLEAN]
  /\ faults \in 0 .. MaxFaults

\* A probe that counts as answered was answered, in its own period, by the node
\* being probed, to the ping itself or to one a relay sent for it.  Pongs of
\* earlier periods, and those for probes relayed for others, do not count:
\* handleMessage does not look at who sent them.
AckedByTarget ==
  \A n \in Addr : pc[n] = "wait" /\ probe[n].node # NoAddr /\ probe[n].acked => answered[n]

\* A relay vouches for the node it was asked about only: an IndirectPong with
\* the tag of the current probe follows an answer of its target.
VouchedFor ==
  \A x \in msgs : /\ x.type = "IndirectPong"
                  /\ probe[x.to].node # NoAddr
                  /\ x.tag = TagOf(x.to)
                  => answered[x.to]

\* The handler never hangs on the channel: the loop, whatever period it is in,
\* goes on to empty it.
HandlerGoesOn == \A n \in Addr : handler[n] # NoPacket ~> handler[n] = NoPacket

=============================================================================

-------------------------------- MODULE Sync --------------------------------
(***************************************************************************)
(* How node lists get around: a node that starts looks for a peer and has  *)
(* it send its list (runBootstrap of swim_server.go with PerformBootstrap  *)
(* and HandleBootstrap of internal/core/sync_manager.go), and running      *)
(* nodes exchange their lists now and then (PerformFullSync, PerformSync,  *)
(* HandleSyncRequest).                                                     *)
(*                                                                         *)
(* Each TCP exchange runs in goroutines of its own on both sides; here it  *)
(* is a session with a phase.  The flags and channels they share with      *)
(* runBootstrap are the state of a node.  Nothing removes a node from a    *)
(* list here; that is the business of modules NodeManager and Swim.        *)
(***************************************************************************)
EXTENDS Integers, FiniteSets

CONSTANTS
  Addr,
  NoAddr,        \* no address (net.IP{}, or nothing in a channel)
  Newcomers,     \* the nodes that have just started; the others know each other
  FullSyncs,     \* the nodes with full syncs enabled (FullSyncProtocolRounds > 0)
  CompletedCap,  \* capacity of bootstrapCompleted, 2 in the code
  MaxSessions,   \* bound of the model: bootstraps at a time
  MaxFaults      \* bound of the model: losses, duplicates, failures, slow peers

ASSUME SyncAssumption ==
  /\ NoAddr \notin Addr
  /\ Newcomers \subseteq Addr
  /\ FullSyncs \subseteq Addr
  /\ CompletedCap \in Nat
  /\ MaxSessions \in Nat \ {0}
  /\ MaxFaults \in Nat

VARIABLES
  pc,         \* where runBootstrap of each node is
  offer,      \* the response in the channel bootstrapResponse
  received,   \* bootstrapResponseReceived
  peer,       \* the source of the response runBootstrap has taken
  source,     \* syncManager.acceptBootstrapFrom
  completed,  \* how many values are in the channel bootstrapCompleted
  known,      \* the members of each node's list
  lastSync,   \* lastFullSyncNode
  msgs,       \* datagrams in flight
  sessions,   \* TCP exchanges under way
  faults,
  invited,    \* history: the peers each node has sent a BootstrapAck to
  joined      \* history: the nodes each node has announced with a Join

boot == <<pc, offer, received, peer, source, completed, invited>>
vars == <<boot, known, lastSync, msgs, sessions, faults, joined>>

Datagram == [type : {"Request", "Response", "Ack"}, from : Addr, to : Addr]

Phase == {"dial", "sent", "accepted", "loaded", "notified", "acked", "replied"}

\* Bootstraps are numbered from 1; a node has one full sync at a time, number 0.
Session == [id : 0 .. MaxSessions, mode : {"Bootstrap", "Sync"}, from : Addr, to : Addr,
            phase : Phase, list : SUBSET Addr, waiting : BOOLEAN]

FreeIds == (1 .. MaxSessions) \ {s.id : s \in sessions}

\* AllKnownNodes: the list and the node itself.
AllKnownNodes(n) == known[n] \cup {n}

\* HandleIncomingNodeList: a node does not add itself (unsafeAdd).
Merged(n, list) == known[n] \cup (list \ {n})

Fault == faults < MaxFaults /\ faults' = faults + 1

-----------------------------------------------------------------------------

Init ==
  /\ pc = [n \in Addr |-> IF n \in Newcomers THEN "start" ELSE "done"]
  /\ offer = [n \in Addr |-> NoAddr]
  /\ received = [n \in Addr |-> n \notin Newcomers]
  /\ peer = [n \in Addr |-> NoAddr]
  /\ source = [n \in Addr |-> NoAddr]
  /\ completed = [n \in Addr |-> 0]
  /\ known = [n \in Addr |-> IF n \in Newcomers THEN {} ELSE Addr \ (Newcomers \cup {n})]
  /\ lastSync = [n \in Addr |-> NoAddr]
  /\ msgs = {}
  /\ sessions = {}
  /\ faults = 0
  /\ invited = [n \in Addr |-> {}]
  /\ joined = [n \in Addr |-> {}]

(***************************************************************************)
(* runBootstrap.                                                           *)
(***************************************************************************)

\* Variant: responses are not let in again.
BeginDeaf(n) ==
  /\ pc[n] = "start"
  /\ pc' = [pc EXCEPT ![n] = "advertise"]
  /\ offer' = [offer EXCEPT ![n] = NoAddr]
  /\ UNCHANGED <<received, peer, source, completed, invited, known, lastSync, msgs, sessions, faults, joined>>

\* The label start: the channel is drained before responses are let in again.
Begin(n) ==
  /\ pc[n] = "start"
  /\ pc' = [pc EXCEPT ![n] = "advertise"]
  /\ offer' = [offer EXCEPT ![n] = NoAddr]
  /\ received' = [received EXCEPT ![n] = FALSE]
  /\ UNCHANGED <<peer, source, completed, invited, known, lastSync, msgs, sessions, faults, joined>>

Publish(n) ==
  /\ pc[n] = "advertise"
  /\ msgs' = msgs \cup {[type |-> "Request", from |-> n, to |-> m] : m \in Addr \ {n}}
  /\ UNCHANGED <<boot, known, lastSync, sessions, faults, joined>>

TakeResponse(n) ==
  /\ pc[n] = "advertise" /\ offer[n] # NoAddr
  /\ pc' = [pc EXCEPT ![n] = "ack"]
  /\ peer' = [peer EXCEPT ![n] = offer[n]]
  /\ offer' = [offer EXCEPT ![n] = NoAddr]
  /\ UNCHANGED <<received, source, completed, invited, known, lastSync, msgs, sessions, faults, joined>>

\* The BootstrapAck goes out before its source is accepted.
SendAck(n) ==
  /\ pc[n] = "ack"
  /\ pc' = [pc EXCEPT ![n] = "source"]
  /\ msgs' = msgs \cup {[type |-> "Ack", from |-> n, to |-> peer[n]]}
  /\ invited' = [invited EXCEPT ![n] = @ \cup {peer[n]}]
  /\ UNCHANGED <<offer, received, peer, source, completed, known, lastSync, sessions, faults, joined>>

SetBootstrapSource(n) ==
  /\ pc[n] = "source"
  /\ pc' = [pc EXCEPT ![n] = "await"]
  /\ source' = [source EXCEPT ![n] = peer[n]]
  /\ UNCHANGED <<offer, received, peer, completed, invited, known, lastSync, msgs, sessions, faults, joined>>

Finish(n) ==
  /\ pc[n] = "await" /\ completed[n] > 0
  /\ pc' = [pc EXCEPT ![n] = "done"]
  /\ completed' = [completed EXCEPT ![n] = 0]
  /\ UNCHANGED <<offer, received, peer, source, invited, known, lastSync, msgs, sessions, faults, joined>>

\* What a node that waits may still be answered by.
UnderWay(n) ==
  \/ \E x \in msgs : x.type = "Ack" /\ x.from = n
  \/ \E s \in sessions : s.mode = "Bootstrap" /\ s.to = n /\ s.phase # "acked"

\* A timeout while the peer is still busy is a fault: the peer was slow.
Timeout(n) ==
  /\ pc[n] = "await" /\ completed[n] = 0
  /\ IF UnderWay(n) THEN Fault ELSE UNCHANGED faults
  /\ pc' = [pc EXCEPT ![n] = "start"]
  /\ source' = [source EXCEPT ![n] = NoAddr]
  /\ UNCHANGED <<offer, received, peer, completed, invited, known, lastSync, msgs, sessions, joined>>

(***************************************************************************)
(* Datagrams.                                                              *)
(***************************************************************************)
Take(x, replies) ==
  \/ /\ msgs' = (msgs \ {x}) \cup replies
     /\ UNCHANGED faults
  \/ /\ Fault
     /\ msgs' = msgs \cup replies

\* HandleMulticastMessage answers every other request or so.
Answer(x) ==
  /\ x.type = "Request"
  /\ Take(x, {[type |-> "Response", from |-> x.to, to |-> x.from]})
  /\ UNCHANGED <<boot, known, lastSync, sessions, joined>>

Ignore(x) ==
  /\ x.type = "Request"
  /\ Take(x, {})
  /\ UNCHANGED <<boot, known, lastSync, sessions, joined>>

\* Only the first response of a round gets into the channel.
ReceiveResponse(x) ==
  /\ x.type = "Response"
  /\ Take(x, {})
  /\ received' = [received EXCEPT ![x.to] = TRUE]
  /\ offer' = IF received[x.to] THEN offer ELSE [offer EXCEPT ![x.to] = x.from]
  /\ UNCHANGED <<pc, peer, source, completed, invited, known, lastSync, sessions, joined>>

\* PerformBootstrap starts a goroutine.
ReceiveAck(x) ==
  /\ x.type = "Ack"
  /\ Take(x, {})
  /\ \E i \in FreeIds :
       /\ \A j \in FreeIds : i <= j
       /\ sessions' = sessions \cup {[id |-> i, mode |-> "Bootstrap", from |-> x.to, to |-> x.from,
                                      phase |-> "dial", list |-> {}, waiting |-> TRUE]}
  /\ UNCHANGED <<boot, known, lastSync, joined>>

Lose(x) == /\ Fault
           /\ msgs' = msgs \ {x}
           /\ UNCHANGED <<boot, known, lastSync, sessions, joined>>

(***************************************************************************)
(* TCP exchanges.                                                          *)
(***************************************************************************)
Goto(s, phase) == sessions' = (sessions \ {s}) \cup {[s EXCEPT !.phase = phase]}

Close(s) == sessions' = sessions \ {s}

\* Variant: any member will do, the last one too.
SyncTargetsAny(n) == known[n]

\* PerformFullSync: a member other than the last one, if there is one.
SyncTargets(n) == IF known[n] \ {lastSync[n]} # {} THEN known[n] \ {lastSync[n]} ELSE known[n]

PerformFullSync(n) ==
  /\ n \in FullSyncs
  /\ ~\E s \in sessions : s.mode = "Sync" /\ s.from = n
  /\ \E m \in SyncTargets(n) :
       /\ lastSync' = [lastSync EXCEPT ![n] = m]
       /\ sessions' = sessions \cup {[id |-> 0, mode |-> "Sync", from |-> n, to |-> m,
                                      phase |-> "dial", list |-> {}, waiting |-> TRUE]}
  /\ UNCHANGED <<boot, known, msgs, faults, joined>>

\* PerformBootstrap and PerformSync dial and write their list.
SendList(s) ==
  /\ s.phase = "dial"
  /\ sessions' = (sessions \ {s})
                 \cup {[s EXCEPT !.phase = "sent", !.list = AllKnownNodes(s.from)]}
  /\ UNCHANGED <<boot, known, lastSync, msgs, faults, joined>>

\* HandleBootstrap turns away everybody but the expected source.  A peer that
\* comes before SetBootstrapSource has been called was too quick: a fault.
CheckSource(s) ==
  /\ s.mode = "Bootstrap" /\ s.phase = "sent"
  /\ IF source[s.to] = s.from THEN Goto(s, "accepted") ELSE Close(s)
  /\ IF pc[s.to] = "source" /\ peer[s.to] = s.from THEN Fault ELSE UNCHANGED faults
  /\ UNCHANGED <<boot, known, lastSync, msgs, joined>>

\* Variant: the list is loaded by the step that signals, too late for the reader.
LoadNothing(s) ==
  /\ s.phase = "accepted"
  /\ Goto(s, "loaded")
  /\ source' = [source EXCEPT ![s.to] = NoAddr]
  /\ UNCHANGED <<pc, offer, received, peer, completed, invited, known, lastSync, msgs, faults, joined>>

LoadList(s) ==
  /\ s.phase = "accepted"
  /\ Goto(s, "loaded")
  /\ source' = [source EXCEPT ![s.to] = NoAddr]
  /\ known' = [known EXCEPT ![s.to] = Merged(s.to, s.list)]
  /\ UNCHANGED <<pc, offer, received, peer, completed, invited, lastSync, msgs, faults, joined>>

\* Variant: the signal is written without regard to the room in the channel.
NotifyCompletedAlways(s) ==
  /\ s.phase = "loaded"
  /\ Goto(s, "notified")
  /\ completed' = [completed EXCEPT ![s.to] = @ + 1]
  /\ UNCHANGED <<pc, offer, received, peer, source, invited, known, lastSync, msgs, faults, joined>>

\* Variant: the signal is written twice where there is room for it.
NotifyCompletedTwice(s) ==
  /\ s.phase = "loaded"
  /\ completed[s.to] < CompletedCap
  /\ Goto(s, "notified")
  /\ completed' = [completed EXCEPT ![s.to] = IF @ + 2 <= CompletedCap THEN @ + 2 ELSE CompletedCap]
  /\ UNCHANGED <<pc, offer, received, peer, source, invited, known, lastSync, msgs, faults, joined>>

\* BootstrapCompleted blocks while the channel is full.
NotifyCompleted(s) ==
  /\ s.phase = "loaded"
  /\ completed[s.to] < CompletedCap
  /\ Goto(s, "notified")
  /\ completed' = [completed EXCEPT ![s.to] = @ + 1]
  /\ UNCHANGED <<pc, offer, received, peer, source, invited, known, lastSync, msgs, faults, joined>>

\* The acknowledgement is written, to nobody if the peer has given up.
AckList(s) ==
  /\ s.phase = "notified"
  /\ IF s.waiting THEN Goto(s, "acked") ELSE Close(s)
  /\ UNCHANGED <<boot, known, lastSync, msgs, faults, joined>>

\* Variant: the peer is announced as soon as the list has been written to it.
PerformBootstrapCompleteEarly(s) ==
  /\ s.mode = "Bootstrap" /\ s.phase = "sent"
  /\ Close(s)
  /\ known' = [known EXCEPT ![s.from] = @ \cup {s.to}]
  /\ joined' = [joined EXCEPT ![s.from] = @ \cup {s.to}]
  /\ UNCHANGED <<boot, lastSync, msgs, faults>>

PerformBootstrapComplete(s) ==
  /\ s.phase = "acked"
  /\ Close(s)
  /\ known' = [known EXCEPT ![s.from] = @ \cup {s.to}]
  /\ joined' = [joined EXCEPT ![s.from] = @ \cup {s.to}]
  /\ UNCHANGED <<boot, lastSync, msgs, faults>>

HandleSyncRequest(s) ==
  /\ s.mode = "Sync" /\ s.phase = "sent"
  /\ known' = [known EXCEPT ![s.to] = Merged(s.to, s.list)]
  /\ IF s.waiting
     THEN sessions' = (sessions \ {s}) \cup {[s EXCEPT !.phase = "replied",
                                                       !.list = Merged(s.to, s.list) \cup {s.to}]}
     ELSE Close(s)
  /\ UNCHANGED <<boot, lastSync, msgs, faults, joined>>

HandleSyncResponse(s) ==
  /\ s.phase = "replied"
  /\ Close(s)
  /\ known' = [known EXCEPT ![s.from] = Merged(s.from, s.list)]
  /\ UNCHANGED <<boot, lastSync, msgs, faults, joined>>

\* The side that dialled fails to connect or to write, or its timeout of a
\* minute ends its wait; the other side does not notice.
GiveUp(s) ==
  /\ Fault
  /\ s.waiting
  /\ IF s.phase \in {"dial", "acked", "replied"} THEN Close(s)
     ELSE sessions' = (sessions \ {s}) \cup {[s EXCEPT !.waiting = FALSE]}
  /\ UNCHANGED <<boot, known, lastSync, msgs, joined>>

-----------------------------------------------------------------------------

Bootstrap(n) ==
  \/ Begin(n) \/ TakeResponse(n) \/ SendAck(n) \/ SetBootstrapSource(n) \/ Finish(n)

Exchange(s) ==
  \/ SendList(s) \/ CheckSource(s) \/ LoadList(s) \/ NotifyCompleted(s) \/ AckList(s)
  \/ PerformBootstrapComplete(s) \/ HandleSyncRequest(s) \/ HandleSyncResponse(s)

Deliver(x) == Ignore(x) \/ Answer(x) \/ ReceiveResponse(x) \/ ReceiveAck(x)

Next ==
  \/ \E n \in Addr : Bootstrap(n) \/ Publish(n) \/ Timeout(n) \/ PerformFullSync(n)
  \/ \E x \in msgs : Deliver(x) \/ Lose(x)
  \/ \E s \in sessions : Exchange(s) \/ GiveUp(s)

Spec == Init /\ [][Next]_vars


(***************************************************************************)
(* The goroutines go on, the timers fire, datagrams arrive, and a request  *)
(* that is made again and again is answered in the end: HandleMulticast-   *)
(* Message tosses a coin each time.                                        *)
(***************************************************************************)
FairSpec ==
  /\ Spec
  /\ \A n \in Addr :
       /\ WF_vars(Bootstrap(n)) /\ WF_vars(Publish(n)) /\ WF_vars(Timeout(n))
       /\ WF_vars(PerformFullSync(n))
       /\ WF_vars(\E s \in sessions : s.id = 0 /\ s.from = n /\ Exchange(s))
       /\ WF_vars(\E x \in msgs : x.to = n /\ (ReceiveResponse(x) \/ ReceiveAck(x)))
       /\ SF_vars(\E x \in msgs : x.from = n /\ Answer(x))
  /\ \A i \in 1 .. MaxSessions : WF_vars(\E s \in sessions : s.id = i /\ Exchange(s))

-----------------------------------------------------------------------------
(* Properties.                                                              *)

\* Types of the flags, channels, lists, datagrams and sessions.
TypeOK ==
  /\ pc \in [Addr -> {"start", "advertise", "ack", "source", "await", "done"}]
  /\ offer \in [Addr -> Addr \cup {NoAddr}]
  /\ received \in [Addr -> BOOLEAN]
  /\ peer \in [Addr -> Addr \cup {NoAddr}]
  /\ source \in [Addr -> Addr \cup {NoAddr}]
  /\ completed \in [Addr -> 0 .. CompletedCap]
  /\ known \in [Addr -> SUBSET Addr]
  /\ lastSync \in [Addr -> Addr \cup {NoAddr}]
  /\ msgs \subseteq Datagram
  /\ sessions \subseteq Session
  /\ faults \in 0 .. MaxFaults
  /\ invited \in [Addr -> SUBSET Addr]
  /\ joined \in [Addr -> SUBSET Addr]

\* A node that has finished its bootstrap has the list of a peer it chose, even
\* when the signal it took came from an exchange it had already given up.
DoneKnowsPeer == \A n \in Newcomers : pc[n] = "done" => known[n] \cap invited[n] # {}

\* A node is announced to the cluster with a Join event only when it knows the
\* node that announces it, so it can at once take part in the protocol.
JoinedKnowsSponsor == \A n, m \in Addr : m \in joined[n] => n \in known[m]

\* HandleBootstrap never blocks for good on the channel bootstrapCompleted: it
\* finds room there, or runBootstrap is still going to read from it.  A handler
\* left blocked would keep tcpControlServer.Shutdown waiting.  The two places of
\* the channel are enough for two faults; with a third, three copies of one
\* BootstrapAck, all past the check of the source before the first of them
\* clears it, fill the channel after its reader is gone and block a fourth.
CompletionFits ==
  faults <= CompletedCap =>
    \A s \in sessions : s.phase = "loaded" => \/ completed[s.to] < CompletedCap
                                              \/ pc[s.to] = "await"

\* Every node that starts is bootstrapped, although an exchange may fail, be
\* turned away or come too late.
Bootstraps == \A n \in Newcomers : <>(pc[n] = "done")

\* A node that syncs becomes known to every node it knows: PerformFullSync does
\* not stay with one member.
BecomesMutual == \A n \in FullSyncs, m \in Addr : m \in known[n] ~> n \in known[m]

=============================================================================

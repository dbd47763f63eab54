----------------------------- MODULE SyncProofs -----------------------------
(***************************************************************************)
(* Proofs about module Sync, for any number of nodes, exchanges and        *)
(* faults.                                                                 *)
(*                                                                         *)
(* A BootstrapAck, and so every exchange that comes of one, goes to a peer *)
(* its sender has chosen, and never to the sender itself.  The list such   *)
(* an exchange carries names the node that sends it.  From the moment it   *)
(* is loaded the receiver knows that node, and lists only grow; so the     *)
(* signal on bootstrapCompleted, whichever exchange it comes from, is      *)
(* worth what runBootstrap takes it for.                                   *)
(***************************************************************************)
EXTENDS Sync, TLAPS

\* What is true of one session, given the lists and the peers chosen.
SessionOK(s, kn, inv) ==
  /\ s.mode = "Bootstrap" => s.from \in inv[s.to] /\ s.from # s.to
  /\ s.mode = "Bootstrap" => s.phase # "replied"
  /\ s.mode = "Sync" => s.phase \in {"dial", "sent", "replied"}
  /\ s.phase \in {"sent", "accepted"} => s.from \in s.list
  /\ s.phase \in {"loaded", "notified", "acked"} => s.from \in kn[s.to]

\* What is true of one datagram.
DatagramOK(x, inv) ==
  /\ x.from # x.to
  /\ x.type = "Ack" => x.to \in inv[x.from]

\* What is true of one node.
NodeOK(n) ==
  /\ offer[n] # n
  /\ peer[n] # n
  /\ pc[n] \in {"ack", "source"} => peer[n] \in Addr
  /\ completed[n] > 0 \/ (n \in Newcomers /\ pc[n] = "done") => known[n] \cap invited[n] # {}

\* The inductive invariant.
IInv ==
  /\ TypeOK
  /\ \A n \in Addr : NodeOK(n)
  /\ \A x \in msgs : DatagramOK(x, invited)
  /\ \A s \in sessions : SessionOK(s, known, invited)
  /\ JoinedKnowsSponsor

-----------------------------------------------------------------------------
(* Lists, and the peers a node has chosen, only grow.                       *)

\* What holds of a session still holds when lists grow.
LEMMA SessionsKeep ==
  ASSUME NEW s \in Session, NEW kn, NEW inv, NEW kn2, NEW inv2, SessionOK(s, kn, inv),
         \A n \in Addr : kn[n] \subseteq kn2[n] /\ inv[n] \subseteq inv2[n]
  PROVE  SessionOK(s, kn2, inv2)
<1>1. s.to \in Addr
  BY DEF Session
<1> QED BY <1>1 DEF SessionOK

\* A new session, or one that goes to another phase, keeps to the types.
LEMMA PhaseTypes ==
  ASSUME NEW s \in Session, NEW phase \in Phase, NEW list \in SUBSET Addr
  PROVE  [s EXCEPT !.phase = phase, !.list = list] \in Session
         /\ [s EXCEPT !.phase = phase] \in Session
         /\ [s EXCEPT !.waiting = FALSE] \in Session
BY DEF Session

\* The fields of a session that has gone to another phase.
LEMMA PhaseFields ==
  ASSUME NEW s \in Session, NEW phase, NEW list
  PROVE  LET t == [s EXCEPT !.phase = phase, !.list = list]
             u == [s EXCEPT !.phase = phase]
             v == [s EXCEPT !.waiting = FALSE] IN
         /\ t.mode = s.mode /\ t.from = s.from /\ t.to = s.to /\ t.phase = phase /\ t.list = list
         /\ u.mode = s.mode /\ u.from = s.from /\ u.to = s.to /\ u.phase = phase /\ u.list = s.list
         /\ v.mode = s.mode /\ v.from = s.from /\ v.to = s.to /\ v.phase = s.phase /\ v.list = s.list
BY DEF Session

\* A step that changes sessions only, by replacing one.
LEMMA Replaced ==
  ASSUME IInv, NEW s \in sessions, NEW t \in Session, SessionOK(t, known, invited),
         sessions' \subseteq (sessions \ {s}) \cup {t},
         faults' \in 0 .. MaxFaults, UNCHANGED <<boot, known, lastSync, msgs, joined>>
  PROVE  IInv'
<1>1. TypeOK'
  BY DEF IInv, TypeOK, boot
<1>2. \A n \in Addr : NodeOK(n)'
  BY DEF IInv, NodeOK, boot
<1>3. \A x \in msgs' : DatagramOK(x, invited')
  BY DEF IInv, boot
<1>4. \A u \in sessions' : SessionOK(u, known', invited')
  BY DEF IInv, boot
<1>5. JoinedKnowsSponsor'
  BY DEF IInv, JoinedKnowsSponsor
<1> QED BY <1>1, <1>2, <1>3, <1>4, <1>5 DEF IInv

\* A fault keeps to the bound.
LEMMA Faults == ASSUME TypeOK, Fault \/ UNCHANGED faults PROVE faults' \in 0 .. MaxFaults
BY SyncAssumption DEF TypeOK, Fault

-----------------------------------------------------------------------------

\* Newcomers have chosen nobody yet, and the others know each other.
LEMMA Initial == Init => IInv
<1> SUFFICES ASSUME Init PROVE IInv
  OBVIOUS
<1>1. TypeOK
  BY SyncAssumption DEF Init, TypeOK
<1>2. \A n \in Addr : NodeOK(n)
  BY SyncAssumption DEF Init, NodeOK
<1> QED BY <1>1, <1>2 DEF Init, IInv, JoinedKnowsSponsor

\* runBootstrap and its requests.
LEMMA BootstrapKeeps ==
  ASSUME IInv, NEW n \in Addr, Bootstrap(n) \/ Publish(n) \/ Timeout(n) PROVE IInv'
<1>1. TypeOK /\ n # NoAddr
  BY SyncAssumption DEF IInv
<1>2. NodeOK(n)
  BY DEF IInv
<1>3. UNCHANGED <<known, lastSync, sessions, joined>>
  BY DEF Bootstrap, Begin, TakeResponse, SendAck, SetBootstrapSource, Finish, Publish, Timeout
<1>4. \A m \in Addr : invited[m] \subseteq invited'[m]
  BY <1>1 DEF Bootstrap, Begin, TakeResponse, SendAck, SetBootstrapSource, Finish, Publish,
              Timeout, boot, TypeOK
<1>5. \A s \in sessions' : SessionOK(s, known', invited')
  <2> SUFFICES ASSUME NEW s \in sessions PROVE SessionOK(s, known', invited')
    BY <1>3
  <2>1. s \in Session /\ SessionOK(s, known, invited)
    BY <1>1 DEF IInv, TypeOK
  <2> QED BY <1>3, <1>4, <2>1, SessionsKeep
<1>6. JoinedKnowsSponsor'
  BY <1>3 DEF IInv, JoinedKnowsSponsor
<1>7. \A m \in Addr : NodeOK(m)
  BY DEF IInv
<1>8. CASE Begin(n)
  <2>1. TypeOK'
    BY <1>1, <1>8 DEF Begin, TypeOK
  <2>2. \A m \in Addr : NodeOK(m)'
    BY <1>1, <1>7, <1>8 DEF Begin, NodeOK, TypeOK
  <2> QED BY <1>5, <1>6, <1>8, <2>1, <2>2 DEF IInv, Begin
<1>9. CASE TakeResponse(n)
  <2>1. TypeOK'
    BY <1>1, <1>9 DEF TakeResponse, TypeOK
  <2>2. offer[n] \in Addr
    BY <1>1, <1>9 DEF TakeResponse, TypeOK
  <2>3. \A m \in Addr : NodeOK(m)'
    BY <1>1, <1>7, <1>9, <2>2 DEF TakeResponse, NodeOK, TypeOK
  <2> QED BY <1>5, <1>6, <1>9, <2>1, <2>3 DEF IInv, TakeResponse
<1>10. CASE SendAck(n)
  <2> DEFINE ack == [type |-> "Ack", from |-> n, to |-> peer[n]]
  <2>1. peer[n] \in Addr /\ peer[n] # n
    BY <1>2, <1>10 DEF SendAck, NodeOK
  <2>2. ack \in Datagram
    BY <2>1 DEF Datagram
  <2>3. invited' \in [Addr -> SUBSET Addr]
    BY <1>1, <1>10, <2>1 DEF SendAck, TypeOK
  <2>4. TypeOK'
    BY <1>1, <1>10, <2>2, <2>3 DEF SendAck, TypeOK
  <2>5. DatagramOK(ack, invited')
    BY <1>1, <1>10, <2>1 DEF SendAck, TypeOK, DatagramOK
  <2>6. \A x \in msgs : DatagramOK(x, invited')
    <3> SUFFICES ASSUME NEW x \in msgs PROVE DatagramOK(x, invited')
      OBVIOUS
    <3>1. x.from \in Addr /\ DatagramOK(x, invited)
      BY <1>1 DEF IInv, TypeOK, Datagram
    <3> QED BY <1>4, <3>1 DEF DatagramOK
  <2>7. \A m \in Addr : NodeOK(m)'
    <3> SUFFICES ASSUME NEW m \in Addr PROVE NodeOK(m)'
      OBVIOUS
    <3>1. NodeOK(m)
      BY <1>7
    <3> QED BY <1>1, <1>4, <1>10, <2>1, <3>1 DEF SendAck, NodeOK, TypeOK
  <2> QED BY <1>5, <1>6, <1>10, <2>4, <2>5, <2>6, <2>7 DEF IInv, SendAck
<1>11. CASE SetBootstrapSource(n)
  <2>1. TypeOK'
    BY <1>1, <1>11 DEF SetBootstrapSource, TypeOK
  <2>2. \A m \in Addr : NodeOK(m)'
    BY <1>1, <1>7, <1>11 DEF SetBootstrapSource, NodeOK, TypeOK
  <2> QED BY <1>5, <1>6, <1>11, <2>1, <2>2 DEF IInv, SetBootstrapSource
<1>12. CASE Finish(n)
  <2>1. TypeOK'
    BY <1>1, <1>12, SyncAssumption DEF Finish, TypeOK
  <2>2. \A m \in Addr : NodeOK(m)'
    BY <1>1, <1>2, <1>7, <1>12 DEF Finish, NodeOK, TypeOK
  <2> QED BY <1>5, <1>6, <1>12, <2>1, <2>2 DEF IInv, Finish
<1>13. CASE Publish(n)
  <2> DEFINE requests == {[type |-> "Request", from |-> n, to |-> m] : m \in Addr \ {n}}
  <2>1. requests \subseteq Datagram /\ \A x \in requests : DatagramOK(x, invited)
    BY DEF Datagram, DatagramOK
  <2>2. msgs' = msgs \cup requests /\ UNCHANGED <<boot, known, lastSync, sessions, faults, joined>>
    BY <1>13 DEF Publish
  <2> HIDE DEF requests
  <2>3. TypeOK'
    BY <1>1, <2>1, <2>2 DEF TypeOK, boot
  <2>4. \A m \in Addr : NodeOK(m)'
    BY <1>7, <2>2 DEF NodeOK, boot
  <2> QED BY <1>5, <1>6, <2>1, <2>2, <2>3, <2>4 DEF IInv, boot
<1>14. CASE Timeout(n)
  <2>1. faults' \in 0 .. MaxFaults
    BY <1>1, <1>14, Faults DEF Timeout
  <2>2. TypeOK'
    BY <1>1, <1>14, <2>1 DEF Timeout, TypeOK
  <2>3. \A m \in Addr : NodeOK(m)'
    BY <1>1, <1>7, <1>14 DEF Timeout, NodeOK, TypeOK
  <2> QED BY <1>5, <1>6, <1>14, <2>2, <2>3 DEF IInv, Timeout
<1> QED BY <1>8, <1>9, <1>10, <1>11, <1>12, <1>13, <1>14 DEF Bootstrap

\* A datagram that is taken, perhaps duplicated, with the replies to it.
LEMMA TakeKeeps ==
  ASSUME IInv, NEW x \in msgs, NEW replies \in SUBSET Datagram, Take(x, replies) \/ Lose(x),
         \A y \in replies : DatagramOK(y, invited), invited' = invited
  PROVE  /\ msgs' \subseteq Datagram /\ faults' \in 0 .. MaxFaults
         /\ \A y \in msgs' : DatagramOK(y, invited')
<1>1. faults' \in 0 .. MaxFaults
  BY Faults DEF IInv, Take, Lose
<1>2. msgs' \subseteq msgs \cup replies
  BY DEF Take, Lose
<1>3. msgs \subseteq Datagram /\ \A y \in msgs : DatagramOK(y, invited)
  BY DEF IInv, TypeOK
<1> QED BY <1>1, <1>2, <1>3

\* Datagrams: only a first response and an acknowledgement change anything else.
LEMMA DeliverKeeps ==
  ASSUME IInv, NEW x \in msgs, Deliver(x) \/ Lose(x) PROVE IInv'
<1>1. TypeOK /\ x \in Datagram /\ DatagramOK(x, invited)
  BY DEF IInv, TypeOK
<1>2. x.from \in Addr /\ x.to \in Addr /\ x.from # x.to
  BY <1>1 DEF Datagram, DatagramOK
<1> DEFINE response == [type |-> "Response", from |-> x.to, to |-> x.from]
<1>3. {response} \in SUBSET Datagram /\ DatagramOK(response, invited)
  BY <1>2 DEF Datagram, DatagramOK
<1>4. CASE Answer(x) \/ Ignore(x) \/ Lose(x)
  <2>1. UNCHANGED <<boot, known, lastSync, sessions, joined>>
    BY <1>4 DEF Answer, Ignore, Lose
  <2>2. invited' = invited
    BY <2>1 DEF boot
  <2>3. /\ msgs' \subseteq Datagram /\ faults' \in 0 .. MaxFaults
        /\ \A y \in msgs' : DatagramOK(y, invited')
    <3>1. CASE Answer(x)
      <4>1. Take(x, {response})
        BY <3>1 DEF Answer
      <4> HIDE DEF response
      <4> QED BY <1>3, <2>2, <4>1, TakeKeeps
    <3>2. CASE Ignore(x)
      <4>1. Take(x, {})
        BY <3>2 DEF Ignore
      <4> QED BY <2>2, <4>1, TakeKeeps
    <3>3. CASE Lose(x)
      <4>1. {} \in SUBSET Datagram /\ \A y \in {} : DatagramOK(y, invited)
        OBVIOUS
      <4> QED BY <2>2, <3>3, <4>1, TakeKeeps
    <3> QED BY <1>4, <3>1, <3>2, <3>3
  <2>4. TypeOK'
    BY <1>1, <2>1, <2>3 DEF TypeOK, boot
  <2>5. \A n \in Addr : NodeOK(n)'
    BY <2>1 DEF IInv, NodeOK, boot
  <2> QED BY <2>1, <2>2, <2>3, <2>4, <2>5 DEF IInv, JoinedKnowsSponsor
<1>5. CASE ReceiveResponse(x)
  <2>1. Take(x, {}) /\ UNCHANGED <<pc, peer, source, completed, invited, known, lastSync, sessions, joined>>
    BY <1>5 DEF ReceiveResponse
  <2>2. /\ msgs' \subseteq Datagram /\ faults' \in 0 .. MaxFaults
        /\ \A y \in msgs' : DatagramOK(y, invited')
    BY <2>1, TakeKeeps
  <2>3. /\ offer' \in [Addr -> Addr \cup {NoAddr}] /\ received' \in [Addr -> BOOLEAN]
        /\ \A n \in Addr : offer'[n] # n
    BY <1>1, <1>2, <1>5 DEF ReceiveResponse, TypeOK, IInv, NodeOK
  <2>4. TypeOK'
    BY <1>1, <2>1, <2>2, <2>3 DEF TypeOK
  <2>5. \A n \in Addr : NodeOK(n)'
    BY <2>1, <2>3 DEF IInv, NodeOK
  <2> QED BY <2>1, <2>2, <2>4, <2>5 DEF IInv, JoinedKnowsSponsor
<1>6. CASE ReceiveAck(x)
  <2>1. Take(x, {}) /\ UNCHANGED <<boot, known, lastSync, joined>>
    BY <1>6 DEF ReceiveAck
  <2>2. invited' = invited
    BY <2>1 DEF boot
  <2>3. /\ msgs' \subseteq Datagram /\ faults' \in 0 .. MaxFaults
        /\ \A y \in msgs' : DatagramOK(y, invited')
    BY <2>1, <2>2, TakeKeeps
  <2>4. PICK i \in FreeIds :
          sessions' = sessions \cup {[id |-> i, mode |-> "Bootstrap", from |-> x.to, to |-> x.from,
                                      phase |-> "dial", list |-> {}, waiting |-> TRUE]}
    BY <1>6 DEF ReceiveAck
  <2> DEFINE s == [id |-> i, mode |-> "Bootstrap", from |-> x.to, to |-> x.from,
                   phase |-> "dial", list |-> {}, waiting |-> TRUE]
  <2>5. i \in 0 .. MaxSessions
    BY SyncAssumption DEF FreeIds
  <2>6. s \in Session
    BY <1>2, <2>5 DEF Session, Phase
  <2>7. SessionOK(s, known, invited)
    BY <1>1, <1>2, <1>6 DEF SessionOK, DatagramOK, ReceiveAck
  <2> HIDE DEF s
  <2>8. TypeOK'
    BY <1>1, <2>1, <2>3, <2>4, <2>6 DEF TypeOK, boot, s
  <2>9. \A n \in Addr : NodeOK(n)'
    BY <2>1 DEF IInv, NodeOK, boot
  <2>10. \A t \in sessions' : SessionOK(t, known', invited')
    BY <2>1, <2>2, <2>4, <2>7 DEF IInv, s
  <2> QED BY <2>1, <2>3, <2>8, <2>9, <2>10 DEF IInv, JoinedKnowsSponsor
<1> QED BY <1>4, <1>5, <1>6 DEF Deliver

\* A step that adds members to the list of one node and ends a session or takes it
\* to another phase.
LEMMA Learnt ==
  ASSUME IInv, NEW s \in sessions, NEW t \in Session,
         sessions' \subseteq (sessions \ {s}) \cup {t},
         known' \in [Addr -> SUBSET Addr], \A n \in Addr : known[n] \subseteq known'[n],
         t = s \/ SessionOK(t, known', invited),
         source' \in [Addr -> Addr \cup {NoAddr}],
         \A a, b \in Addr : b \in joined'[a] => b \in joined[a] \/ a \in known'[b],
         joined' \in [Addr -> SUBSET Addr],
         UNCHANGED <<pc, offer, received, peer, completed, invited, lastSync, msgs, faults>>
  PROVE  IInv'
<1>1. TypeOK
  BY DEF IInv
<1>2. TypeOK'
  BY <1>1 DEF TypeOK
<1>3. \A n \in Addr : NodeOK(n)'
  <2> SUFFICES ASSUME NEW n \in Addr PROVE NodeOK(n)'
    OBVIOUS
  <2>1. NodeOK(n) /\ known[n] \subseteq known'[n]
    BY DEF IInv
  <2> QED BY <2>1 DEF NodeOK
<1>4. \A u \in sessions' : SessionOK(u, known', invited')
  <2>1. \A u \in sessions : SessionOK(u, known', invited)
    BY <1>1, SessionsKeep DEF IInv, TypeOK
  <2> QED BY <2>1
<1>5. JoinedKnowsSponsor'
  BY DEF IInv, JoinedKnowsSponsor
<1> QED BY <1>2, <1>3, <1>4, <1>5 DEF IInv

\* Exchanges that change nobody's list.
LEMMA CarryKeeps ==
  ASSUME IInv, NEW s \in sessions, SendList(s) \/ CheckSource(s) \/ AckList(s) \/ GiveUp(s) PROVE IInv'
<1>1. s \in Session /\ SessionOK(s, known, invited) /\ TypeOK
  BY DEF IInv, TypeOK
<1>2. AllKnownNodes(s.from) \in SUBSET Addr /\ s.from \in AllKnownNodes(s.from)
  BY <1>1 DEF AllKnownNodes, TypeOK, Session
<1>3. UNCHANGED <<boot, known, lastSync, msgs, joined>> /\ faults' \in 0 .. MaxFaults
  BY <1>1, Faults DEF SendList, CheckSource, AckList, GiveUp
<1>4. CASE SendList(s)
  <2> DEFINE t == [s EXCEPT !.phase = "sent", !.list = AllKnownNodes(s.from)]
  <2>1. t \in Session
    BY <1>1, <1>2, PhaseTypes DEF Phase
  <2>2. SessionOK(t, known, invited)
    BY <1>1, <1>2, <1>4, PhaseFields DEF SessionOK, SendList
  <2>3. sessions' = (sessions \ {s}) \cup {t}
    BY <1>4 DEF SendList
  <2> HIDE DEF t
  <2> QED BY <1>3, <2>1, <2>2, <2>3, Replaced
<1>5. CASE CheckSource(s)
  <2> DEFINE t == [s EXCEPT !.phase = "accepted"]
  <2>1. t \in Session
    BY <1>1, PhaseTypes DEF Phase
  <2>2. SessionOK(t, known, invited)
    BY <1>1, <1>5, PhaseFields DEF SessionOK, CheckSource
  <2>3. sessions' \subseteq (sessions \ {s}) \cup {t}
    BY <1>5 DEF CheckSource, Goto, Close
  <2> HIDE DEF t
  <2> QED BY <1>3, <2>1, <2>2, <2>3, Replaced
<1>6. CASE AckList(s)
  <2> DEFINE t == [s EXCEPT !.phase = "acked"]
  <2>1. t \in Session
    BY <1>1, PhaseTypes DEF Phase
  <2>2. SessionOK(t, known, invited)
    BY <1>1, <1>6, PhaseFields DEF SessionOK, AckList
  <2>3. sessions' \subseteq (sessions \ {s}) \cup {t}
    BY <1>6 DEF AckList, Goto, Close
  <2> HIDE DEF t
  <2> QED BY <1>3, <2>1, <2>2, <2>3, Replaced
<1>7. CASE GiveUp(s)
  <2> DEFINE t == [s EXCEPT !.waiting = FALSE]
  <2>1. t \in Session
    BY <1>1 DEF Session
  <2>2. SessionOK(t, known, invited)
    BY <1>1, PhaseFields DEF SessionOK
  <2>3. sessions' \subseteq (sessions \ {s}) \cup {t}
    BY <1>7 DEF GiveUp, Close
  <2> HIDE DEF t
  <2> QED BY <1>3, <2>1, <2>2, <2>3, Replaced
<1> QED BY <1>4, <1>5, <1>6, <1>7

\* Exchanges that bring a list to somebody.
LEMMA LoadKeeps ==
  ASSUME IInv, NEW s \in sessions,
         LoadList(s) \/ PerformBootstrapComplete(s) \/ HandleSyncRequest(s) \/ HandleSyncResponse(s)
  PROVE  IInv'
<1>1. s \in Session /\ SessionOK(s, known, invited) /\ TypeOK
  BY DEF IInv, TypeOK
<1>2. s.from \in Addr /\ s.to \in Addr /\ s.list \subseteq Addr /\ s.mode \in {"Bootstrap", "Sync"}
  BY <1>1 DEF Session
<1>3. \A n \in Addr : Merged(n, s.list) \subseteq Addr /\ known[n] \subseteq Merged(n, s.list)
  BY <1>1, <1>2 DEF Merged, TypeOK
<1>4. CASE LoadList(s)
  <2> DEFINE t == [s EXCEPT !.phase = "loaded"]
  <2>1. t \in Session
    BY <1>1, PhaseTypes DEF Phase
  <2>2. s.mode = "Bootstrap" /\ s.from # s.to /\ s.from \in s.list
    BY <1>1, <1>2, <1>4 DEF LoadList, SessionOK
  <2>3. s.from \in known'[s.to]
    BY <1>1, <1>2, <1>4, <2>2 DEF LoadList, Merged, TypeOK
  <2>4. SessionOK(t, known', invited)
    BY <1>1, <2>2, <2>3, PhaseFields DEF SessionOK
  <2>5. /\ sessions' \subseteq (sessions \ {s}) \cup {t}
        /\ known' = [known EXCEPT ![s.to] = Merged(s.to, s.list)]
        /\ source' \in [Addr -> Addr \cup {NoAddr}]
        /\ UNCHANGED <<pc, offer, received, peer, completed, invited, lastSync, msgs, faults, joined>>
    BY <1>1, <1>4 DEF LoadList, Goto, TypeOK
  <2> HIDE DEF t
  <2>6. /\ joined' \in [Addr -> SUBSET Addr]
        /\ known' \in [Addr -> SUBSET Addr] /\ \A n \in Addr : known[n] \subseteq known'[n]
        /\ \A a, b \in Addr : b \in joined'[a] => b \in joined[a] \/ a \in known'[b]
    BY <1>1, <1>2, <1>3, <2>5 DEF TypeOK
  <2> QED BY <2>1, <2>4, <2>5, <2>6, Learnt
<1>5. CASE PerformBootstrapComplete(s)
  <2> DEFINE list == known[s.from] \cup {s.to}
  <2>1. list \subseteq Addr /\ known[s.from] \subseteq list
    BY <1>1, <1>2 DEF TypeOK
  <2>2. /\ sessions' \subseteq (sessions \ {s}) \cup {s}
        /\ known' = [known EXCEPT ![s.from] = list]
        /\ joined' = [joined EXCEPT ![s.from] = @ \cup {s.to}]
        /\ UNCHANGED <<pc, offer, received, peer, source, completed, invited, lastSync, msgs, faults>>
    BY <1>5 DEF PerformBootstrapComplete, Close, boot
  <2> HIDE DEF list
  <2>3. s.from \in known[s.to]
    BY <1>1, <1>5 DEF PerformBootstrapComplete, SessionOK
  <2>4. s.from \in known'[s.to]
    BY <1>1, <1>2, <2>1, <2>2, <2>3 DEF TypeOK
  <2>5. joined' \in [Addr -> SUBSET Addr]
    BY <1>1, <1>2, <2>2 DEF TypeOK
  <2>6. \A a, b \in Addr : b \in joined'[a] => b \in joined[a] \/ a \in known'[b]
    BY <1>1, <1>2, <2>2, <2>4 DEF TypeOK
  <2>7. source' \in [Addr -> Addr \cup {NoAddr}]
    BY <1>1, <2>2 DEF TypeOK
  <2>8. known' \in [Addr -> SUBSET Addr] /\ \A n \in Addr : known[n] \subseteq known'[n]
    BY <1>1, <1>2, <2>1, <2>2 DEF TypeOK
  <2> QED BY <1>1, <2>2, <2>5, <2>6, <2>7, <2>8, Learnt
<1>6. CASE HandleSyncRequest(s)
  <2> DEFINE t == [s EXCEPT !.phase = "replied", !.list = Merged(s.to, s.list) \cup {s.to}]
  <2>1. t \in Session
    BY <1>1, <1>2, <1>3, PhaseTypes DEF Phase
  <2>2. SessionOK(t, known', invited)
    BY <1>1, <1>6, PhaseFields DEF SessionOK, HandleSyncRequest
  <2>3. /\ sessions' \subseteq (sessions \ {s}) \cup {t}
        /\ known' = [known EXCEPT ![s.to] = Merged(s.to, s.list)]
        /\ UNCHANGED <<pc, offer, received, peer, source, completed, invited, lastSync, msgs, faults, joined>>
    BY <1>6 DEF HandleSyncRequest, Close, boot
  <2> HIDE DEF t
  <2>4. /\ known' \in [Addr -> SUBSET Addr] /\ \A n \in Addr : known[n] \subseteq known'[n]
        /\ joined' \in [Addr -> SUBSET Addr] /\ source' \in [Addr -> Addr \cup {NoAddr}]
        /\ \A a, b \in Addr : b \in joined'[a] => b \in joined[a] \/ a \in known'[b]
    BY <1>1, <1>2, <1>3, <2>3 DEF TypeOK
  <2> QED BY <2>1, <2>2, <2>3, <2>4, Learnt
<1>7. CASE HandleSyncResponse(s)
  <2>1. /\ sessions' \subseteq (sessions \ {s}) \cup {s}
        /\ known' = [known EXCEPT ![s.from] = Merged(s.from, s.list)]
        /\ UNCHANGED <<pc, offer, received, peer, source, completed, invited, lastSync, msgs, faults, joined>>
    BY <1>7 DEF HandleSyncResponse, Close, boot
  <2>2. /\ known' \in [Addr -> SUBSET Addr] /\ \A n \in Addr : known[n] \subseteq known'[n]
        /\ joined' \in [Addr -> SUBSET Addr] /\ source' \in [Addr -> Addr \cup {NoAddr}]
        /\ \A a, b \in Addr : b \in joined'[a] => b \in joined[a] \/ a \in known'[b]
    BY <1>1, <1>2, <1>3, <2>1 DEF TypeOK
  <2> QED BY <1>1, <2>1, <2>2, Learnt
<1> QED BY <1>4, <1>5, <1>6, <1>7

\* The signal on bootstrapCompleted.
LEMMA NotifyKeeps ==
  ASSUME IInv, NEW s \in sessions, NotifyCompleted(s) PROVE IInv'
<1>1. s \in Session /\ SessionOK(s, known, invited) /\ TypeOK
  BY DEF IInv, TypeOK
<1>2. s.from \in Addr /\ s.to \in Addr /\ s.mode \in {"Bootstrap", "Sync"}
  BY <1>1 DEF Session
<1> DEFINE t == [s EXCEPT !.phase = "notified"]
<1>3. t \in Session
  BY <1>1, PhaseTypes DEF Phase
<1>4. s.mode = "Bootstrap" /\ s.from \in known[s.to] \cap invited[s.to]
  BY <1>1, <1>2 DEF NotifyCompleted, SessionOK
<1>5. SessionOK(t, known, invited)
  BY <1>1, <1>4, PhaseFields DEF SessionOK
<1>6. /\ sessions' = (sessions \ {s}) \cup {t}
      /\ completed' = [completed EXCEPT ![s.to] = @ + 1] /\ completed[s.to] < CompletedCap
      /\ UNCHANGED <<pc, offer, received, peer, source, invited, known, lastSync, msgs, faults, joined>>
  BY DEF NotifyCompleted, Goto
<1> HIDE DEF t
<1>7. completed' \in [Addr -> 0 .. CompletedCap]
  <2>1. completed[s.to] + 1 \in 0 .. CompletedCap
    BY <1>1, <1>2, <1>6, SyncAssumption DEF TypeOK
  <2> QED BY <1>1, <1>6, <2>1 DEF TypeOK
<1>8. TypeOK'
  BY <1>1, <1>3, <1>6, <1>7 DEF TypeOK
<1>9. \A n \in Addr : NodeOK(n)'
  <2> SUFFICES ASSUME NEW n \in Addr PROVE NodeOK(n)'
    OBVIOUS
  <2>1. NodeOK(n) /\ (n # s.to => completed'[n] = completed[n])
    BY <1>1, <1>6 DEF IInv, TypeOK
  <2> QED BY <1>4, <1>6, <2>1 DEF NodeOK
<1>10. \A u \in sessions' : SessionOK(u, known', invited')
  BY <1>5, <1>6 DEF IInv
<1> QED BY <1>6, <1>8, <1>9, <1>10 DEF IInv, JoinedKnowsSponsor

\* A full sync is begun.
LEMMA FullSyncKeeps ==
  ASSUME IInv, NEW n \in Addr, PerformFullSync(n) PROVE IInv'
<1>1. TypeOK
  BY DEF IInv
<1>2. PICK m \in SyncTargets(n) :
        /\ lastSync' = [lastSync EXCEPT ![n] = m]
        /\ sessions' = sessions \cup {[id |-> 0, mode |-> "Sync", from |-> n, to |-> m,
                                       phase |-> "dial", list |-> {}, waiting |-> TRUE]}
  BY DEF PerformFullSync
<1> DEFINE s == [id |-> 0, mode |-> "Sync", from |-> n, to |-> m,
                 phase |-> "dial", list |-> {}, waiting |-> TRUE]
<1>3. m \in Addr
  BY <1>1 DEF SyncTargets, TypeOK
<1>4. s \in Session /\ SessionOK(s, known, invited)
  <2>1. 0 \in 0 .. MaxSessions
    BY SyncAssumption
  <2>2. s \in Session
    BY <1>3, <2>1 DEF Session, Phase
  <2>3. SessionOK(s, known, invited)
    BY DEF SessionOK
  <2> QED BY <2>2, <2>3
<1>5. sessions' = sessions \cup {s} /\ UNCHANGED <<boot, known, msgs, faults, joined>>
  BY <1>2 DEF PerformFullSync
<1>6. lastSync' \in [Addr -> Addr \cup {NoAddr}]
  BY <1>1, <1>2, <1>3 DEF TypeOK
<1> HIDE DEF s
<1>7. TypeOK'
  BY <1>1, <1>4, <1>5, <1>6 DEF TypeOK, boot
<1>8. \A a \in Addr : NodeOK(a)'
  BY <1>5 DEF IInv, NodeOK, boot
<1>9. \A t \in sessions' : SessionOK(t, known', invited')
  BY <1>4, <1>5 DEF IInv, boot
<1> QED BY <1>5, <1>7, <1>8, <1>9 DEF IInv, JoinedKnowsSponsor, boot

\* Every step preserves the invariant.
LEMMA Invariance == IInv /\ [Next]_vars => IInv'
<1> SUFFICES ASSUME IInv, [Next]_vars PROVE IInv'
  OBVIOUS
<1>1. CASE Next
  BY <1>1, BootstrapKeeps, DeliverKeeps, CarryKeeps, LoadKeeps, NotifyKeeps, FullSyncKeeps
     DEF Next, Exchange
<1>2. CASE UNCHANGED vars
  <2>1. TypeOK'
    BY <1>2 DEF vars, boot, IInv, TypeOK
  <2>2. \A n \in Addr : NodeOK(n)'
    BY <1>2 DEF vars, boot, IInv, NodeOK
  <2> QED BY <1>2, <2>1, <2>2 DEF vars, boot, IInv, JoinedKnowsSponsor
<1> QED BY <1>1, <1>2

-----------------------------------------------------------------------------

\* Types; in particular bootstrapCompleted never holds more than it has room for.
THEOREM TypeCorrect == Spec => []TypeOK
<1>1. IInv => TypeOK
  BY DEF IInv
<1> QED BY <1>1, Initial, Invariance, PTL DEF Spec

\* A node whose runBootstrap has ended has the list of a peer it had chosen,
\* whichever exchange, late or abandoned, the signal came from.
THEOREM BootstrapSound == Spec => []DoneKnowsPeer
<1>1. IInv => DoneKnowsPeer
  BY SyncAssumption DEF IInv, NodeOK, DoneKnowsPeer
<1> QED BY <1>1, Initial, Invariance, PTL DEF Spec

\* A node announced with a Join event knows the node that announces it.
THEOREM JoinSound == Spec => []JoinedKnowsSponsor
<1>1. IInv => JoinedKnowsSponsor
  BY DEF IInv
<1> QED BY <1>1, Initial, Invariance, PTL DEF Spec

=============================================================================

-------------------------- MODULE LifecycleProofs --------------------------
(***************************************************************************)
(* Proofs about module Lifecycle, for any number of TCP clients.           *)
(*                                                                         *)
(* Both goroutines of a client may call Close.  isClosed decides between   *)
(* them: until it is set the reader is still there to close the client,    *)
(* and from then on either one of the two is between the swap and the      *)
(* close of the channel, or the channel has been closed, once.             *)
(***************************************************************************)
EXTENDS Lifecycle, TLAPS

ClientRecord ==
  [conn : {"none", "backlog", "accepted", "open", "closed"}, isClosed : BOOLEAN,
   closes : 0 .. 1, counted : BOOLEAN, at : [Closer -> {"none", "busy", "close", "closing", "done"}]]

\* The state of one client.
ClientInv(cl) ==
  /\ cl \in ClientRecord
  /\ cl.conn \in {"none", "backlog", "accepted"} =>
       ~cl.counted /\ ~cl.isClosed /\ \A g \in Closer : cl.at[g] = "none"
  /\ cl.conn = "closed" <=> cl.closes = 1
  /\ cl.isClosed <=> cl.closes = 1 \/ \E g \in Closer : cl.at[g] = "closing"
  /\ cl.closes = 1 => \A g \in Closer : cl.at[g] # "closing"
  /\ \A g, h \in Closer : cl.at[g] = "closing" /\ cl.at[h] = "closing" => g = h
  /\ cl.counted /\ ~cl.isClosed => cl.at["reader"] \in {"busy", "close"}

\* The listeners, the run loop and the steps of Shutdown.
ServerInv ==
  /\ caller \in {"running", "tcpClose", "tcpWait", "multicast", "multicastClose", "udp",
                 "udpClose", "loop", "loopWait", "returned"}
  /\ multicast \in Listener
  /\ udp \in Listener
  /\ tcp \in [running : BOOLEAN, listening : BOOLEAN, at : {"test", "accept", "make", "ended"}]
  /\ loop \in [running : BOOLEAN, at : {"period", "ended"}]
  /\ caller \notin {"running", "tcpClose"} => ~tcp.listening
  /\ caller = "returned" => loop.at = "ended"

IInv ==
  /\ ServerInv
  /\ DOMAIN clients = Client /\ clients = [c \in Client |-> clients[c]]
  /\ \A c \in Client : ClientInv(clients[c])

-----------------------------------------------------------------------------
(* What the steps make of a client.                                         *)

\* makeClient: a connection that was waiting is opened.
LEMMA OpenedInv ==
  ASSUME NEW cl, ClientInv(cl), cl.conn \in {"none", "backlog", "accepted"},
         NEW handler \in {"none", "busy"}
  PROVE  ClientInv(Opened(cl, handler))
<1>1. cl \in ClientRecord /\ cl.closes = 0 /\ ~cl.isClosed
  BY DEF ClientInv, ClientRecord
<1> DEFINE new == Opened(cl, handler)
<1>2. /\ new.conn = "open" /\ new.isClosed = cl.isClosed /\ new.closes = cl.closes
      /\ new.counted = TRUE
      /\ new.at = [g \in Closer |-> IF g = "reader" THEN "busy" ELSE handler]
  BY <1>1 DEF Opened, ClientRecord
<1>3. new \in ClientRecord
  BY <1>1 DEF Opened, ClientRecord
<1>4. "reader" \in Closer
  BY DEF Closer
<1>5. new.at["reader"] = "busy" /\ \A g \in Closer : new.at[g] # "closing"
  BY <1>2, <1>4
<1> HIDE DEF new
<1>6. ClientInv(new)
  BY <1>1, <1>2, <1>3, <1>5 DEF ClientInv
<1> QED BY <1>6 DEF new

\* A goroutine moves on without touching isClosed.
LEMMA MovedInv ==
  ASSUME NEW cl, ClientInv(cl), cl.conn \in {"open", "closed"},
         NEW g \in Closer, NEW at \in {"busy", "close", "done"}, cl.at[g] # "closing",
         g = "reader" /\ cl.counted /\ ~cl.isClosed => at \in {"busy", "close"}
  PROVE  ClientInv([cl EXCEPT !.at[g] = at])
<1> DEFINE new == [cl EXCEPT !.at[g] = at]
<1>1. cl \in ClientRecord
  BY DEF ClientInv
<1>2. /\ new \in ClientRecord
      /\ new.conn = cl.conn /\ new.isClosed = cl.isClosed /\ new.closes = cl.closes
      /\ new.counted = cl.counted /\ new.at = [cl.at EXCEPT ![g] = at]
  BY <1>1 DEF ClientRecord
<1>3. \A h \in Closer : new.at[h] = IF h = g THEN at ELSE cl.at[h]
  BY <1>1, <1>2 DEF ClientRecord
<1>4. \A h \in Closer : new.at[h] = "closing" <=> cl.at[h] = "closing"
  BY <1>3
<1>5. "reader" \in Closer
  BY DEF Closer
<1> HIDE DEF new
<1>6. ClientInv(new)
  BY <1>2, <1>3, <1>4, <1>5 DEF ClientInv
<1> QED BY <1>6 DEF new

\* tcpControlClient.Close, the swap.
LEMMA ClaimedInv ==
  ASSUME NEW cl, ClientInv(cl), NEW g \in Closer, cl.at[g] = "close"
  PROVE  ClientInv([cl EXCEPT !.isClosed = TRUE,
                              !.at[g] = IF cl.isClosed THEN "done" ELSE "closing"])
<1> DEFINE new == [cl EXCEPT !.isClosed = TRUE,
                             !.at[g] = IF cl.isClosed THEN "done" ELSE "closing"]
<1>1. cl \in ClientRecord
  BY DEF ClientInv
<1>2. /\ new \in ClientRecord
      /\ new.conn = cl.conn /\ new.isClosed = TRUE /\ new.closes = cl.closes
      /\ new.counted = cl.counted
      /\ new.at = [cl.at EXCEPT ![g] = IF cl.isClosed THEN "done" ELSE "closing"]
  BY <1>1 DEF ClientRecord
<1>3. \A h \in Closer : new.at[h] = IF h = g THEN IF cl.isClosed THEN "done" ELSE "closing"
                                    ELSE cl.at[h]
  BY <1>1, <1>2 DEF ClientRecord
<1>4. cl.conn \in {"open", "closed"}
  BY <1>1 DEF ClientInv, ClientRecord
<1> HIDE DEF new
<1>5. CASE cl.isClosed
  <2>1. \A h \in Closer : new.at[h] = "closing" <=> cl.at[h] = "closing"
    BY <1>3, <1>5
  <2>2. ClientInv(new)
    BY <1>2, <1>4, <1>5, <2>1 DEF ClientInv
  <2> QED BY <2>2 DEF new
<1>6. CASE ~cl.isClosed
  <2>1. \A h \in Closer : new.at[h] = "closing" <=> h = g
    BY <1>3, <1>6 DEF ClientInv
  <2>2. cl.closes # 1
    BY <1>6 DEF ClientInv
  <2>3. ClientInv(new)
    BY <1>2, <1>4, <2>1, <2>2 DEF ClientInv
  <2> QED BY <2>3 DEF new
<1> QED BY <1>5, <1>6

\* tcpControlClient.Close, the rest.
LEMMA ClosedInv ==
  ASSUME NEW cl, ClientInv(cl), NEW g \in Closer, cl.at[g] = "closing"
  PROVE  ClientInv([cl EXCEPT !.conn = "closed", !.closes = @ + 1, !.at[g] = "done"])
<1> DEFINE new == [cl EXCEPT !.conn = "closed", !.closes = @ + 1, !.at[g] = "done"]
<1>1. cl \in ClientRecord
  BY DEF ClientInv
<1>2. cl.closes = 0 /\ cl.isClosed
  BY <1>1 DEF ClientInv, ClientRecord
<1>3. /\ new.conn = "closed" /\ new.isClosed = cl.isClosed /\ new.closes = 1
      /\ new.counted = cl.counted /\ new.at = [cl.at EXCEPT ![g] = "done"]
      /\ new \in ClientRecord
  <2>1. new = [cl EXCEPT !.conn = "closed", !.closes = 1, !.at[g] = "done"]
    BY <1>1, <1>2 DEF ClientRecord
  <2> HIDE DEF new
  <2>2. /\ new.conn = "closed" /\ new.isClosed = cl.isClosed /\ new.closes = 1
        /\ new.counted = cl.counted /\ new.at = [cl.at EXCEPT ![g] = "done"]
    BY <1>1, <2>1 DEF ClientRecord
  <2>3. new \in ClientRecord
    <3> DEFINE at == [cl.at EXCEPT ![g] = "done"]
               r == [cl EXCEPT !.conn = "closed", !.at = at]
    <3>1. at \in [Closer -> {"none", "busy", "close", "closing", "done"}]
      BY <1>1 DEF ClientRecord
    <3>2. r \in ClientRecord
      BY <1>1, <3>1 DEF ClientRecord
    <3>3. new = [r EXCEPT !.closes = 1]
      BY <1>1, <2>1 DEF ClientRecord
    <3> HIDE DEF r
    <3>4. ASSUME NEW n \in 0 .. 1 PROVE [r EXCEPT !.closes = n] \in ClientRecord
      BY <3>2 DEF ClientRecord
    <3>5. 1 \in 0 .. 1
      OBVIOUS
    <3> QED BY <3>3, <3>4, <3>5
  <2> QED BY <2>2, <2>3
<1>4. \A h \in Closer : new.at[h] # "closing"
  BY <1>1, <1>3 DEF ClientRecord, ClientInv
<1> HIDE DEF new
<1>5. ClientInv(new)
  BY <1>2, <1>3, <1>4 DEF ClientInv
<1> QED BY <1>5 DEF new

-----------------------------------------------------------------------------

\* A server that has just been started satisfies the invariant.
LEMMA Initial == Init => IInv
<1> SUFFICES ASSUME Init PROVE IInv
  OBVIOUS
<1>1. ServerInv
  BY DEF Init, ServerInv, NewListener, Listener, Socket
<1>2. ClientInv(NewClient)
  BY DEF ClientInv, ClientRecord, NewClient, Closer
<1> QED BY <1>1, <1>2 DEF Init, IInv

\* A step of one client leaves the others and the server alone.
LEMMA OneClient ==
  ASSUME IInv, NEW c \in Client, NEW cl, clients' = [clients EXCEPT ![c] = cl], ClientInv(cl),
         UNCHANGED <<caller, multicast, udp, tcp, loop>>
  PROVE  IInv'
<1>1. ServerInv'
  BY DEF IInv, ServerInv
<1>2. \A d \in Client : clients'[d] = IF d = c THEN cl ELSE clients[d]
  BY DEF IInv
<1> QED BY <1>1, <1>2 DEF IInv

\* Every step of the goroutines and of Shutdown preserves it.
LEMMA Invariance == IInv /\ [Next]_vars => IInv'
<1> SUFFICES ASSUME IInv, [Next]_vars PROVE IInv'
  OBVIOUS
<1> USE DEF IInv
<1>1. CASE MulticastListen \/ MulticastReadError
  <2>1. multicast' \in Listener
    BY <1>1 DEF MulticastListen, MulticastReadError, Tested, Made, ServerInv, Listener, Socket
  <2>2. UNCHANGED <<caller, udp, tcp, clients, loop>>
    BY <1>1 DEF MulticastListen, MulticastReadError
  <2> QED BY <2>1, <2>2 DEF ServerInv
<1>2. CASE UdpListen \/ UdpRead
  <2>1. udp' \in Listener
    BY <1>2 DEF UdpListen, UdpRead, Tested, Made, ServerInv, Listener, Socket
  <2>2. UNCHANGED <<caller, multicast, tcp, clients, loop>>
    BY <1>2 DEF UdpListen, UdpRead
  <2> QED BY <2>1, <2>2 DEF ServerInv
<1>3. CASE Accept
  <2>1. ServerInv'
    BY <1>3 DEF Accept, ServerInv
  <2>2. CASE UNCHANGED clients
    BY <2>1, <2>2
  <2>3. ASSUME NEW c \in Client, clients[c].conn = "backlog",
               clients' = [clients EXCEPT ![c].conn = "accepted"]
        PROVE  IInv'
    <3> DEFINE cl == clients[c]
               new == [cl EXCEPT !.conn = "accepted"]
    <3>1. ClientInv(cl) /\ cl.conn = "backlog"
      BY <2>3
    <3>2. ClientInv(new)
      BY <3>1 DEF ClientInv, ClientRecord
    <3>3. clients' = [clients EXCEPT ![c] = new]
      BY <2>3
    <3> HIDE DEF new
    <3>4. \A d \in Client : clients'[d] = IF d = c THEN new ELSE clients[d]
      BY <3>3
    <3> QED BY <2>1, <3>2, <3>3, <3>4
  <2> QED BY <1>3, <2>2, <2>3 DEF Accept
<1>4. CASE MakeClient
  <2>1. ServerInv'
    BY <1>4 DEF MakeClient, ServerInv
  <2>2. \A c \in Client : ClientInv(clients'[c])
    <3> SUFFICES ASSUME NEW c \in Client PROVE ClientInv(clients'[c])
      OBVIOUS
    <3>1. clients'[c] = IF clients[c].conn = "accepted" THEN Opened(clients[c], "none") ELSE clients[c]
      BY <1>4 DEF MakeClient
    <3> QED BY <3>1, OpenedInv
  <2> QED BY <1>4, <2>1, <2>2 DEF MakeClient
<1>5. CASE LoopEnds
  BY <1>5 DEF LoopEnds, ServerInv
<1>6. CASE Stopping
  <2>1. UNCHANGED clients
    BY <1>6 DEF Stopping, TcpShutdown, TcpDrained, MulticastShutdown, UdpShutdown, LoopShutdown
  <2>2. CASE TcpShutdown \/ TcpDrained
    BY <2>1, <2>2 DEF TcpShutdown, TcpDrained, ServerInv
  <2>3. CASE MulticastShutdown
    <3>1. multicast' \in Listener
      BY <2>3 DEF MulticastShutdown, Closed, ServerInv, Listener, Socket
    <3> QED BY <2>1, <2>3, <3>1 DEF MulticastShutdown, ServerInv
  <2>4. CASE UdpShutdown
    <3>1. udp' \in Listener
      BY <2>4 DEF UdpShutdown, Closed, ServerInv, Listener, Socket
    <3> QED BY <2>1, <2>4, <3>1 DEF UdpShutdown, ServerInv
  <2>5. CASE LoopShutdown
    BY <2>1, <2>5 DEF LoopShutdown, ServerInv
  <2> QED BY <1>6, <2>2, <2>3, <2>4, <2>5 DEF Stopping
<1>7. ASSUME NEW c \in Client, Connect(c) PROVE IInv'
  <2> DEFINE new == [clients[c] EXCEPT !.conn = "backlog"]
  <2>1. ClientInv(clients[c]) /\ clients[c].conn = "none"
    BY <1>7 DEF Connect
  <2>2. ClientInv(new)
    BY <2>1 DEF ClientInv, ClientRecord
  <2>3. clients' = [clients EXCEPT ![c] = new]
    BY <1>7 DEF Connect
  <2> QED BY <1>7, <2>2, <2>3, OneClient DEF Connect
<1>8. ASSUME NEW c \in Client, Dial(c) PROVE IInv'
  BY <1>8, OpenedInv, OneClient DEF Dial
<1>9. ASSUME NEW c \in Client, ReadMessage(c) PROVE IInv'
  <2> DEFINE new == [clients[c] EXCEPT !.at["handler"] = "busy"]
  <2>1. ClientInv(clients[c]) /\ clients[c].conn = "open" /\ clients[c].at["handler"] = "none"
    BY <1>9 DEF ReadMessage
  <2>2. ClientInv(new)
    BY <2>1, MovedInv DEF Closer
  <2>3. clients' = [clients EXCEPT ![c] = new]
    BY <1>9 DEF ReadMessage
  <2> QED BY <1>9, <2>2, <2>3, OneClient DEF ReadMessage
<1>10. ASSUME NEW c \in Client, ReadError(c) PROVE IInv'
  <2> DEFINE at == IF clients[c].isClosed /\ clients[c].conn = "closed" THEN "done" ELSE "close"
             new == [clients[c] EXCEPT !.at["reader"] = at]
  <2>1. ClientInv(clients[c]) /\ clients[c].at["reader"] = "busy"
    BY <1>10 DEF ReadError
  <2>2. clients[c].conn \in {"open", "closed"}
    BY <2>1 DEF ClientInv, ClientRecord, Closer
  <2>3. ClientInv(new)
    BY <2>1, <2>2, MovedInv DEF Closer
  <2>4. clients' = [clients EXCEPT ![c] = new]
    BY <1>10 DEF ReadError
  <2> QED BY <1>10, <2>3, <2>4, OneClient DEF ReadError
<1>11. ASSUME NEW c \in Client, Handled(c) PROVE IInv'
  <2>1. PICK next \in {"close", "done"} : clients' = [clients EXCEPT ![c].at["handler"] = next]
    BY <1>11 DEF Handled
  <2> DEFINE new == [clients[c] EXCEPT !.at["handler"] = next]
  <2>2. ClientInv(clients[c]) /\ clients[c].at["handler"] = "busy"
    BY <1>11 DEF Handled
  <2>3. clients[c].conn \in {"open", "closed"}
    BY <2>2 DEF ClientInv, ClientRecord, Closer
  <2>4. ClientInv(new)
    BY <2>2, <2>3, MovedInv DEF Closer
  <2>5. clients' = [clients EXCEPT ![c] = new]
    BY <2>1
  <2> QED BY <1>11, <2>4, <2>5, OneClient DEF Handled
<1>12. ASSUME NEW c \in Client, ServeReturns(c) PROVE IInv'
  <2> DEFINE new == [clients[c] EXCEPT !.counted = FALSE]
  <2>1. ClientInv(clients[c])
    OBVIOUS
  <2>2. ClientInv(new)
    <3>1. clients[c] \in ClientRecord
      BY <2>1 DEF ClientInv
    <3>2. /\ new \in ClientRecord /\ new.counted = FALSE
          /\ new.conn = clients[c].conn /\ new.isClosed = clients[c].isClosed
          /\ new.closes = clients[c].closes /\ new.at = clients[c].at
      BY <3>1 DEF ClientRecord
    <3> HIDE DEF new
    <3> QED BY <2>1, <3>2 DEF ClientInv
  <2>3. clients' = [clients EXCEPT ![c] = new]
    BY <1>12 DEF ServeReturns
  <2> QED BY <1>12, <2>2, <2>3, OneClient DEF ServeReturns
<1>13. ASSUME NEW c \in Client, NEW g \in Closer, CloseClaims(c, g) PROVE IInv'
  <2> DEFINE new == [clients[c] EXCEPT !.isClosed = TRUE,
                                       !.at[g] = IF clients[c].isClosed THEN "done" ELSE "closing"]
  <2>1. ClientInv(clients[c]) /\ clients[c].at[g] = "close"
    BY <1>13 DEF CloseClaims
  <2>2. ClientInv(new)
    BY <2>1, ClaimedInv
  <2>3. clients' = [clients EXCEPT ![c] = new]
    BY <1>13 DEF CloseClaims
  <2> QED BY <1>13, <2>2, <2>3, OneClient DEF CloseClaims
<1>14. ASSUME NEW c \in Client, NEW g \in Closer, CloseConn(c, g) PROVE IInv'
  <2> DEFINE new == [clients[c] EXCEPT !.conn = "closed", !.closes = @ + 1, !.at[g] = "done"]
  <2>1. ClientInv(clients[c]) /\ clients[c].at[g] = "closing"
    BY <1>14 DEF CloseConn
  <2>2. ClientInv(new)
    BY <2>1, ClosedInv
  <2>3. clients' = [clients EXCEPT ![c] = new]
    BY <1>14 DEF CloseConn
  <2> QED BY <1>14, <2>2, <2>3, OneClient DEF CloseConn
<1>15. CASE UNCHANGED vars
  BY <1>15 DEF vars, ServerInv
<1> QED BY <1>1, <1>2, <1>3, <1>4, <1>5, <1>6, <1>7, <1>8, <1>9, <1>10, <1>11, <1>12, <1>13,
           <1>14, <1>15 DEF Next, Serve

-----------------------------------------------------------------------------

\* Types, and with them that the channel of a client is closed at most once: a
\* second close(c.closed) would panic.
THEOREM ClosedOnce == Spec => []TypeOK
<1>1. IInv => TypeOK
  BY DEF IInv, ServerInv, ClientInv, ClientRecord, TypeOK
<1> QED BY <1>1, Initial, Invariance, PTL DEF Spec

\* A client that clients.Wait() waits for has a goroutine left that will close it.
THEOREM AlwaysACloser == Spec => []SomebodyCloses
<1>1. IInv => SomebodyCloses
  <2> SUFFICES ASSUME IInv, NEW c \in Client, clients[c].counted, clients[c].closes = 0
               PROVE  \E g \in Closer : clients[c].at[g] \in {"busy", "close", "closing"}
    BY DEF SomebodyCloses
  <2>1. ClientInv(clients[c]) /\ "reader" \in Closer
    BY DEF IInv, Closer
  <2> QED BY <2>1 DEF ClientInv
<1> QED BY <1>1, Initial, Invariance, PTL DEF Spec

\* Once Shutdown has returned no protocol period runs and nothing is accepted.
THEOREM Quiet == Spec => []QuietOnReturn
<1>1. IInv => QuietOnReturn
  BY DEF IInv, ServerInv, QuietOnReturn
<1> QED BY <1>1, Initial, Invariance, PTL DEF Spec

=============================================================================

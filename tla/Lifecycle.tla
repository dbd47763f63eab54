----------------------------- MODULE Lifecycle -----------------------------
(***************************************************************************)
(* One swimServer from Start to the end of Shutdown: the goroutines of the *)
(* two UDP listeners, of the TCP server and its clients, and of the run    *)
(* loop, and the steps in which Shutdown stops them (swim_server.go and    *)
(* internal/wire).  What the goroutines do with what they read is in the   *)
(* other modules.                                                          *)
(***************************************************************************)
EXTENDS Integers

CONSTANT Client   \* the TCP connections there may be, each made once

VARIABLES
  caller,     \* where swimServer.Shutdown is
  multicast,  \* multicastCommunicator
  udp,        \* udpControlServer
  tcp,        \* tcpControlServer
  clients,    \* tcpControlClient, one for each connection
  loop        \* runLoop

vars == <<caller, multicast, udp, tcp, clients, loop>>

Socket == {"none", "open", "closed"}

\* at: the goroutine in Listen; socket: the one it has opened last; shared: the
\* field currentListener or listener, through which Shutdown gets at the socket.
Listener == [at : {"test", "make", "store", "poll", "read", "ended"},
             stopping : BOOLEAN, socket : Socket, shared : BOOLEAN]

NewListener == [at |-> "test", stopping |-> FALSE, socket |-> "none", shared |-> FALSE]

\* Two goroutines may close a client: the one that handles its packet, or has
\* dialled it, and the one that reads from it.
Closer == {"handler", "reader"}

NewClient == [conn |-> "none", isClosed |-> FALSE, closes |-> 0, counted |-> FALSE,
              at |-> [g \in Closer |-> "none"]]

-----------------------------------------------------------------------------

\* swimServer.Start has returned.
Init ==
  /\ caller = "running"
  /\ multicast = NewListener
  /\ udp = NewListener
  /\ tcp = [running |-> TRUE, listening |-> TRUE, at |-> "test"]
  /\ clients = [c \in Client |-> NewClient]
  /\ loop = [running |-> TRUE, at |-> "period"]

(***************************************************************************)
(* The listeners.                                                          *)
(***************************************************************************)

\* The top of both Listen loops.
Tested(l) == [l EXCEPT !.at = IF l.stopping THEN "ended" ELSE "make"]

\* makeListener fails, and Listen goes back to the top, or opens a socket.
Made(l) == {[l EXCEPT !.at = "test"], [l EXCEPT !.at = "store", !.socket = "open"]}

MulticastListen ==
  /\ \/ multicast.at = "test" /\ multicast' = Tested(multicast)
     \/ multicast.at = "make" /\ multicast' \in Made(multicast)
     \/ multicast.at = "store" /\ multicast' = [multicast EXCEPT !.at = "read", !.shared = TRUE]
  /\ UNCHANGED <<caller, udp, tcp, clients, loop>>

\* A read fails once the socket is closed; a datagram that is read changes
\* nothing, the flag stopping is not looked at then.
MulticastReadError ==
  /\ multicast.at = "read" /\ multicast.socket = "closed"
  /\ multicast.stopping
  /\ multicast' = [multicast EXCEPT !.at = "ended"]
  /\ UNCHANGED <<caller, udp, tcp, clients, loop>>

\* readLoop looks at stopping before each read.
UdpListen ==
  /\ \/ udp.at = "test" /\ udp' = Tested(udp)
     \/ udp.at = "make" /\ udp' \in Made(udp)
     \/ udp.at = "store" /\ udp' = [udp EXCEPT !.at = "poll", !.shared = TRUE]
     \/ udp.at = "poll" /\ udp' = [udp EXCEPT !.at = IF udp.stopping THEN "test" ELSE "read"]
     \/ udp.at = "read" /\ udp.socket = "closed" /\ udp' = [udp EXCEPT !.at = "test"]
  /\ UNCHANGED <<caller, multicast, tcp, clients, loop>>

UdpRead ==
  /\ udp.at = "read" /\ udp.socket = "open"
  /\ udp' = [udp EXCEPT !.at = "poll"]
  /\ UNCHANGED <<caller, multicast, tcp, clients, loop>>

(***************************************************************************)
(* The TCP server and its clients.                                         *)
(***************************************************************************)

\* Somebody connects: the connection is in the backlog of the socket.
Connect(c) ==
  /\ tcp.listening /\ clients[c].conn = "none"
  /\ clients' = [clients EXCEPT ![c].conn = "backlog"]
  /\ UNCHANGED <<caller, multicast, udp, tcp, loop>>

\* The for loop of tcpControlServer.loop up to the return of Accept.
Accept ==
  /\ \/ /\ tcp.at = "test"
        /\ tcp' = [tcp EXCEPT !.at = IF tcp.running THEN "accept" ELSE "ended"]
        /\ UNCHANGED clients
     \/ /\ tcp.at = "accept" /\ ~tcp.listening
        /\ tcp' = [tcp EXCEPT !.at = "test"]
        /\ UNCHANGED clients
     \/ /\ tcp.at = "accept" /\ tcp.listening
        /\ \E c \in Client :
             /\ clients[c].conn = "backlog"
             /\ clients' = [clients EXCEPT ![c].conn = "accepted"]
        /\ tcp' = [tcp EXCEPT !.at = "make"]
  /\ UNCHANGED <<caller, multicast, udp, loop>>

\* makeClient: the client is counted, and read from.
Opened(cl, handler) ==
  [cl EXCEPT !.conn = "open", !.counted = TRUE,
             !.at = [g \in Closer |-> IF g = "reader" THEN "busy" ELSE handler]]

MakeClient ==
  /\ tcp.at = "make"
  /\ tcp' = [tcp EXCEPT !.at = "test"]
  /\ clients' = [c \in Client |-> IF clients[c].conn = "accepted" THEN Opened(clients[c], "none")
                                  ELSE clients[c]]
  /\ UNCHANGED <<caller, multicast, udp, loop>>

\* PerformBootstrap and PerformSync dial, and close the client when they end.
Dial(c) ==
  /\ clients[c].conn = "none"
  /\ clients' = [clients EXCEPT ![c] = Opened(clients[c], "busy")]
  /\ UNCHANGED <<caller, multicast, udp, tcp, loop>>

\* A packet arrives, and is given to HandleTCPPacket.
ReadMessage(c) ==
  /\ clients[c].at["reader"] = "busy" /\ clients[c].conn = "open"
  /\ clients[c].at["handler"] = "none"
  /\ clients' = [clients EXCEPT ![c].at["handler"] = "busy"]
  /\ UNCHANGED <<caller, multicast, udp, tcp, loop>>

\* Variant: the reader takes every error for the end of a closed socket.
ReadErrorSilent(c) ==
  /\ clients[c].at["reader"] = "busy"
  /\ clients' = [clients EXCEPT ![c].at["reader"] = "done"]
  /\ UNCHANGED <<caller, multicast, udp, tcp, loop>>

\* The peer has closed its end, or the socket has been closed on this side.
ReadError(c) ==
  /\ clients[c].at["reader"] = "busy"
  /\ clients' = [clients EXCEPT ![c].at["reader"] =
                   IF clients[c].isClosed /\ clients[c].conn = "closed" THEN "done" ELSE "close"]
  /\ UNCHANGED <<caller, multicast, udp, tcp, loop>>

\* HandleTCPPacket, PerformBootstrap and PerformSync end with Close; only a stray
\* acknowledgement leaves the client to its reader.
Handled(c) ==
  /\ clients[c].at["handler"] = "busy"
  /\ \E next \in {"close", "done"} : clients' = [clients EXCEPT ![c].at["handler"] = next]
  /\ UNCHANGED <<caller, multicast, udp, tcp, loop>>

\* Variant: Close looks at isClosed without claiming it.
CloseLooks(c, g) ==
  /\ clients[c].at[g] = "close"
  /\ clients' = [clients EXCEPT ![c].at[g] = IF clients[c].isClosed THEN "done" ELSE "closing"]
  /\ UNCHANGED <<caller, multicast, udp, tcp, loop>>

\* tcpControlClient.Close: isClosed.Swap(true).
CloseClaims(c, g) ==
  /\ clients[c].at[g] = "close"
  /\ clients' = [clients EXCEPT ![c].isClosed = TRUE,
                                ![c].at[g] = IF clients[c].isClosed THEN "done" ELSE "closing"]
  /\ UNCHANGED <<caller, multicast, udp, tcp, loop>>

\* The rest of Close: conn.Close() and close(c.closed).
CloseConn(c, g) ==
  /\ clients[c].at[g] = "closing"
  /\ clients' = [clients EXCEPT ![c].conn = "closed", ![c].closes = @ + 1, ![c].at[g] = "done"]
  /\ UNCHANGED <<caller, multicast, udp, tcp, loop>>

\* serve sees the closed channel and calls clients.Done.
ServeReturns(c) ==
  /\ clients[c].counted /\ clients[c].closes > 0
  /\ clients' = [clients EXCEPT ![c].counted = FALSE]
  /\ UNCHANGED <<caller, multicast, udp, tcp, loop>>

(***************************************************************************)
(* The run loop: the flag is looked at between two protocol periods.       *)
(***************************************************************************)
LoopEnds ==
  /\ loop.at = "period" /\ ~loop.running
  /\ loop' = [loop EXCEPT !.at = "ended"]
  /\ UNCHANGED <<caller, multicast, udp, tcp, clients>>

(***************************************************************************)
(* swimServer.Shutdown, called by one goroutine.                           *)
(***************************************************************************)
Closed(l) == [l EXCEPT !.socket = IF l.shared THEN "closed" ELSE l.socket]

\* The listener is closed, and the flag cleared, before anything is waited for.
TcpShutdown ==
  /\ \/ /\ caller = "running"
        /\ caller' = "tcpClose"
        /\ tcp' = [tcp EXCEPT !.running = FALSE]
     \/ /\ caller = "tcpClose"
        /\ caller' = "tcpWait"
        /\ tcp' = [tcp EXCEPT !.listening = FALSE]
  /\ UNCHANGED <<multicast, udp, clients, loop>>

\* clients.Wait() returns.
TcpDrained ==
  /\ caller = "tcpWait"
  /\ \A c \in Client : ~clients[c].counted
  /\ caller' = "multicast"
  /\ UNCHANGED <<multicast, udp, tcp, clients, loop>>

MulticastShutdown ==
  /\ \/ /\ caller = "multicast"
        /\ caller' = "multicastClose"
        /\ multicast' = [multicast EXCEPT !.stopping = TRUE]
     \/ /\ caller = "multicastClose"
        /\ caller' = "udp"
        /\ multicast' = Closed(multicast)
  /\ UNCHANGED <<udp, tcp, clients, loop>>

\* Variant: the socket is closed before the flag is set.
UdpShutdownClosing ==
  /\ \/ /\ caller = "udp"
        /\ caller' = "udpClose"
        /\ udp' = Closed(udp)
     \/ /\ caller = "udpClose"
        /\ caller' = "loop"
        /\ udp' = [udp EXCEPT !.stopping = TRUE]
  /\ UNCHANGED <<multicast, tcp, clients, loop>>

UdpShutdown ==
  /\ \/ /\ caller = "udp"
        /\ caller' = "udpClose"
        /\ udp' = [udp EXCEPT !.stopping = TRUE]
     \/ /\ caller = "udpClose"
        /\ caller' = "loop"
        /\ udp' = Closed(udp)
  /\ UNCHANGED <<multicast, tcp, clients, loop>>

\* Variant: the loop is told to stop and not waited for.
LoopShutdownAtOnce ==
  /\ caller = "loop"
  /\ caller' = "returned"
  /\ loop' = [loop EXCEPT !.running = FALSE]
  /\ UNCHANGED <<multicast, udp, tcp, clients>>

\* Variant: the loop is waited for and not told to stop.
LoopShutdownSilent ==
  /\ caller = "loop" /\ loop.at = "ended"
  /\ caller' = "returned"
  /\ UNCHANGED <<multicast, udp, tcp, clients, loop>>

LoopShutdown ==
  /\ \/ /\ caller = "loop"
        /\ caller' = "loopWait"
        /\ loop' = [loop EXCEPT !.running = FALSE]
     \/ /\ caller = "loopWait" /\ loop.at = "ended"
        /\ caller' = "returned"
        /\ UNCHANGED loop
  /\ UNCHANGED <<multicast, udp, tcp, clients>>

-----------------------------------------------------------------------------

Stopping ==
  TcpShutdown \/ TcpDrained \/ MulticastShutdown \/ UdpShutdown \/ LoopShutdown

Serve(c) ==
  \/ ReadError(c) \/ Handled(c) \/ ServeReturns(c)
  \/ \E g \in Closer : CloseClaims(c, g) \/ CloseConn(c, g)

Next ==
  \/ MulticastListen \/ MulticastReadError \/ UdpListen \/ UdpRead
  \/ Accept \/ MakeClient \/ LoopEnds \/ Stopping
  \/ \E c \in Client : Connect(c) \/ Dial(c) \/ ReadMessage(c) \/ Serve(c)

Spec == Init /\ [][Next]_vars

(***************************************************************************)
(* The goroutines go on, and a peer ends each exchange: it closes its end  *)
(* when it is done or when its timeout of a minute fires.  Nothing says    *)
(* that another datagram will arrive.                                      *)
(***************************************************************************)
FairSpec ==
  /\ Spec
  /\ WF_vars(MulticastListen) /\ WF_vars(MulticastReadError) /\ WF_vars(UdpListen)
  /\ WF_vars(Accept) /\ WF_vars(MakeClient) /\ WF_vars(LoopEnds) /\ WF_vars(Stopping)
  /\ \A c \in Client : WF_vars(Serve(c))

-----------------------------------------------------------------------------
(* Properties.                                                              *)

\* Types of the listeners, the TCP server, its clients and the run loop.  The
\* channel closed of a client is closed once, whoever closes the client: closing
\* it again would panic.
TypeOK ==
  /\ caller \in {"running", "tcpClose", "tcpWait", "multicast", "multicastClose", "udp",
                 "udpClose", "loop", "loopWait", "returned"}
  /\ multicast \in Listener
  /\ udp \in Listener
  /\ tcp \in [running : BOOLEAN, listening : BOOLEAN, at : {"test", "accept", "make", "ended"}]
  /\ clients \in [Client -> [conn : {"none", "backlog", "accepted", "open", "closed"},
                             isClosed : BOOLEAN, closes : 0 .. 1, counted : BOOLEAN,
                             at : [Closer -> {"none", "busy", "close", "closing", "done"}]]]
  /\ loop \in [running : BOOLEAN, at : {"period", "ended"}]

\* A client that Shutdown waits for has a goroutine left that will close it.
SomebodyCloses ==
  \A c \in Client : clients[c].counted /\ clients[c].closes = 0
                       => \E g \in Closer : clients[c].at[g] \in {"busy", "close", "closing"}

\* When Shutdown has returned no protocol period runs any more: the loop is
\* waited for after the components it sends through have been stopped.
QuietOnReturn == caller = "returned" => loop.at = "ended" /\ ~tcp.listening

\* Shutdown returns, whatever is connected when it is called.
ShutdownReturns == (caller # "running") ~> (caller = "returned")

\* A UDP listener whose socket Shutdown has closed ends; it does not mistake the
\* closed socket for a failure and open another one.
UdpListenEnds == (udp.socket = "closed") ~> (udp.at = "ended")

\* What the comment of TCPControlServer.Shutdown says: it "blocks the calling
\* routine until all clients disconnect".  (A client with no handler is one that
\* was accepted and has not sent anything yet.)
ClientsDrained ==
  caller \notin {"running", "tcpClose", "tcpWait"} =>
    ~\E c \in Client : clients[c].conn = "open" /\ clients[c].at["handler"] = "none"

\* What the comment of MulticastCommunicator.Listen says: it "will block the
\* current calling routine until Shutdown is called", and so no longer than that.
MulticastListenEnds == multicast.stopping ~> (multicast.at = "ended")

=============================================================================

----------------------------- MODULE MCTransport -----------------------------
(* Instances of Transport for TLC.                                           *)
EXTENDS Transport

IPv4 == {[AddressKind |-> AddressIPv4, AddressBytes |-> bytes4] :
           bytes4 \in {<<10, 0, 0, 1>>, <<202, 254, 24, 255>>}}

IPv6 == {[AddressKind |-> AddressIPv6, AddressBytes |-> [i \in 1 .. 16 |-> (254 + 8 * i) % 256]]}

IPs == IPv4 \cup IPv6

\* 0xCAFE, the magic number of a packet, is among the numbers.
Uint16s == {0, 51966}

Events ==
  [kind : Sourced, Source : IPs, Subject : IPs, Incarnation : {51966}]
  \cup [kind : {"Alive", "Left"}, Subject : IPs, Incarnation : Uint16s]
  \cup [kind : {"Wrap"}, Subject : IPs, Incarnation : {65535}, NewIncarnation : {0}]

\* Every event, every event after an Alive, and as many as are small enough.
EventLists ==
  LET alive == CHOOSE e \in Events : e.kind = "Alive" /\ e.Subject \in IPv4
  IN  {<< >>} \cup {<<e>> : e \in Events} \cup {<<alive, e>> : e \in Events}
      \cup {[i \in 1 .. n |-> alive] : n \in {12, 13, 14, 15}}

Pings == [OpCode : {"PING"}, Cookie : {51966}, Period : {258}, TargetIncarnation : {7}, Events : EventLists]

Pongs ==
  {p \in [OpCode : {"PONG"}, Ack : BOOLEAN, Cookie : Uint16s, Period : {258}, IsLastStateKnown : BOOLEAN,
          LastKnownEventKind : DOMAIN EventKinds, LastKnownIncarnation : Uint16s] :
     ~p.IsLastStateKnown => p.LastKnownEventKind = "Join" /\ p.LastKnownIncarnation = 0}

Others ==
  [OpCode : {"IING"}, Cookie : Uint16s, Period : {258}, Address : IPs]
  \cup [OpCode : {"IONG"}, Cookie : Uint16s, Period : {258}]
  \cup [OpCode : Empty]

AllDatagrams == Pings \cup Pongs \cup Others

Node == [Suspect : BOOLEAN, Incarnation : {51966}, Address : IPs]

Numbered(i) == [Suspect |-> i % 2 = 0, Incarnation |-> i,
                Address |-> [AddressKind |-> AddressIPv4, AddressBytes |-> <<10, 0, i \div 256, i % 256>>]]

NodeLists ==
  {<< >>} \cup {<<n, m>> : n, m \in Node}
  \cup {[i \in 1 .. k |-> Numbered(i)] : k \in {255, 256, 257}}

\* The modes of a Sync, from SyncModeFirstPhase to SyncModeBootstrapAck.
AllSyncs == [OpCode : {"SYNC"}, Mode : {0, 1}, Nodes : NodeLists]
            \cup [OpCode : {"SYNC"}, Mode : {2, 3}, Nodes : {<< >>}]

=============================================================================

------------------------------ MODULE Transport ------------------------------
(***************************************************************************)
(* A packet on its way from one node to another: encoded, sealed and sent  *)
(* (DispatchMessage, PerformSync and the like), read, opened and parsed    *)
(* byte by byte (tcpControlClient.loop, readLoop of udpControlServer,      *)
(* DecodeTCPPacket, HandleUDPControlMessage).                              *)
(*                                                                         *)
(* A datagram holds one packet, and a TCP connection carries one in each   *)
(* direction: a Sync.  All nodes have the same key, or none has one.       *)
(***************************************************************************)
EXTENDS Decoder

CONSTANTS
  Incarnations,  \* incarnations of the sender
  Datagrams,     \* the messages that are sent over UDP
  Syncs,         \* the messages that are sent over TCP
  UDPMaxLength,  \* the option of that name, 1200 unless it is set
  ReadBuffer     \* size of the buffer of readLoop, 4096 in the code

ASSUME TransportAssumption ==
  /\ Incarnations \subseteq 0 .. 65535
  /\ UDPMaxLength \in Nat /\ ReadBuffer \in Nat \ {0}

VARIABLES
  pc,      \* idle, stream: the frame of a Sync is read, sealed, parse, done
  keyed,   \* whether the nodes have a key
  packet,  \* history: the packet that was sent
  length,  \* history: the bytes that were sent for it
  bytes,   \* the bytes that are still to be read, opened or parsed
  frame,   \* the machine that reads a TCP stream
  parser,  \* the machine of ParsePacket
  parsed   \* the packet that came out, if any

vars == <<pc, keyed, packet, length, bytes, frame, parser, parsed>>

-----------------------------------------------------------------------------
(* ASCON.  The cipher itself is not part of the program: here it inverts    *)
(* the bytes, and its tag tells how many there were.                        *)

NonceSize == 16
TagSize == 16

Masked(data) == [i \in DOMAIN data |-> 255 - data[i]]

Tag(data) == [i \in 1 .. TagSize |-> Len(data) % 256]

\* A nonce is random; this one has the magic number of a packet in it.
Nonce == [i \in 1 .. NonceSize |-> IF i % 2 = 1 THEN 202 ELSE 254]

Seal(data) == IF keyed THEN Nonce \o Masked(data) \o Tag(data) ELSE data

\* Nothing comes out if the tag is not that of the text.
Open(data) ==
  IF ~keyed THEN {data}
  ELSE LET end == Len(data) - TagSize
           text == Masked(SubSeq(data, NonceSize + 1, end))
       IN  IF SubSeq(data, end + 1, Len(data)) = Tag(text) THEN {text} ELSE {}

-----------------------------------------------------------------------------

Init ==
  /\ pc = "idle"
  /\ keyed \in BOOLEAN
  /\ packet = << >>
  /\ length = 0
  /\ bytes = << >>
  /\ frame = newTCPPacket
  /\ parser = newPacket
  /\ parsed = {}

\* Variant of RoomForEvents: the fields of the ping itself are not counted.
RoomForEventsOnly(m) == m.OpCode = "PING" => EventsSize(m.Events) <= UDPMaxLength

\* A ping takes the gossip that fits (startPeriod): the events have what the
\* ping itself leaves of UDPMaxLength.
RoomForEvents(m) ==
  m.OpCode = "PING" =>
    EventsSize(m.Events) <= UDPMaxLength - RequiredSize([m EXCEPT !.Events = << >>])

\* A datagram that does not fit into the buffer of the reader is cut short.
DispatchMessage(inc, m) ==
  LET data == Seal(EncPkt(inc, m))
  IN  /\ pc = "idle" /\ RoomForEvents(m)
      /\ pc' = "sealed"
      /\ packet' = Pkt(inc, m)
      /\ length' = Len(data)
      /\ bytes' = SubSeq(data, 1, IF Len(data) < ReadBuffer THEN Len(data) ELSE ReadBuffer)
      /\ UNCHANGED <<keyed, frame, parser, parsed>>

\* EncTCPPkt and Write.
WriteSync(inc, m) ==
  LET data == TCPPacketEncode(Seal(EncPkt(inc, m)))
  IN  /\ pc = "idle"
      /\ pc' = "stream"
      /\ packet' = Pkt(inc, m)
      /\ length' = Len(data)
      /\ bytes' = data
      /\ UNCHANGED <<keyed, frame, parser, parsed>>

\* The loop of tcpControlClient: a byte of the stream.
ReadByte ==
  LET g == Fed(frame, Head(bytes))
      r == Feed(g, TCPPacketFeed(g, Head(bytes)), newTCPPacket)
  IN  /\ pc = "stream" /\ bytes # << >>
      /\ frame' = r.fsm
      /\ IF r.out = {} THEN pc' = pc /\ bytes' = Tail(bytes)
         ELSE pc' = "sealed" /\ bytes' \in r.out
      /\ UNCHANGED <<keyed, packet, length, parser, parsed>>

\* The payload is opened, or given up.
OpenPayload ==
  /\ pc = "sealed"
  /\ IF Open(bytes) = {} THEN pc' = "done" /\ UNCHANGED bytes
     ELSE pc' = "parse" /\ bytes' \in Open(bytes)
  /\ UNCHANGED <<keyed, packet, length, frame, parser, parsed>>

\* The loop of ParsePacket ends with the first packet, or at the end of the data.
ParseByte ==
  LET g == Fed(parser, Head(bytes))
      r == Feed(g, PacketFeed(g, Head(bytes)), newPacket)
  IN  /\ pc = "parse" /\ bytes # << >>
      /\ parser' = r.fsm
      /\ bytes' = Tail(bytes)
      /\ parsed' = r.out
      /\ pc' = IF r.out # {} \/ Len(bytes) = 1 THEN "done" ELSE pc
      /\ UNCHANGED <<keyed, packet, length, frame>>

\* There is nothing left to do.  A machine that still waits for bytes when there
\* are none left is a deadlock.
Finished == pc = "done" /\ UNCHANGED vars

Next ==
  \/ \E inc \in Incarnations, m \in Datagrams : DispatchMessage(inc, m)
  \/ \E inc \in Incarnations, m \in Syncs : WriteSync(inc, m)
  \/ ReadByte \/ OpenPayload \/ ParseByte \/ Finished

Spec == Init /\ [][Next]_vars

-----------------------------------------------------------------------------
(* Properties.                                                              *)

\* What the one-byte count of a list lets through.
Counted(list) == SubSeq(list, 1, Len(list) % 256)

Received(pkt) ==
  IF pkt.Header.OpCode = "SYNC" THEN [pkt EXCEPT !.Message.Nodes = Counted(@)]
  ELSE IF pkt.Header.OpCode = "PING" THEN [pkt EXCEPT !.Message.Events = Counted(@)]
  ELSE pkt

\* A packet comes out as it was sent, field by field, whatever its message, the
\* kinds of its addresses and the bytes in it.  A list of more than 255 elements
\* does not: uint8(len(...)) leaves only the rest of the division by 256.  And a
\* datagram that was cut short is never taken for another packet.
ArrivesAsSent ==
  pc = "done" => parsed = IF packet.Header.OpCode # "SYNC" /\ length > ReadBuffer
                          THEN {} ELSE {Received(packet)}

\* RequiredSize allots exactly the bytes Encode writes: the buffer of EncPkt is
\* neither too short, which would be a panic, nor sent with a rest of zeros.
BufferExact ==
  pc = "done" => RequiredSize(packet.Message) = Len(MessageEncode(packet.Message))

\* A datagram exceeds UDPMaxLength by no more than the header, which startPeriod
\* does not count, and by what Seal adds.
DatagramBounded ==
  packet # << >> /\ packet.Header.OpCode = "PING" =>
    length <= UDPMaxLength + 5 + (IF keyed THEN NonceSize + TagSize ELSE 0)

\* No datagram is longer than UDPMaxLength, "the maximum length of any given UDP
\* packet" (options.go).
DatagramFits ==
  packet # << >> /\ packet.Header.OpCode # "SYNC" => length <= UDPMaxLength

=============================================================================

-------------------------------- MODULE Codec --------------------------------
(***************************************************************************)
(* The encoding of packets (internal/proto): the Encode methods, the sizes *)
(* they need and the buffers they are given.  Bytes are numbers; a field   *)
(* of a message has the name it has in the code.  The machines that decode *)
(* the bytes are in module Decoder, translated independently of this one.  *)
(***************************************************************************)
EXTENDS Fsm

protocolMagic == 51966  \* 0xCAFE
protocolVersion == 1

OpCodes == [BTRP |-> 1, BTRR |-> 2, BTRA |-> 3, PING |-> 4,
            PONG |-> 5, IING |-> 6, IONG |-> 7, SYNC |-> 8]

EventKinds == [Join |-> 0, Healthy |-> 1, Suspect |-> 2, Faulty |-> 3,
               Left |-> 4, Alive |-> 5, Wrap |-> 6]

\* The name of a code in one of the tables above.
NameOf(table, code) == CHOOSE name \in DOMAIN table : table[name] = code

Codes(table) == {table[name] : name \in DOMAIN table}

AddressIPv4 == 0
AddressIPv6 == 1

Size(kind) == IF kind = AddressIPv4 THEN 4 ELSE 16

\* An address of a kind; AddressBytes are the Size(kind) bytes that count.
ZeroIP(kind) == [AddressKind |-> kind, AddressBytes |-> [i \in 1 .. Size(kind) |-> 0]]

-----------------------------------------------------------------------------
(* Encoders: the methods of Writer, RequiredSize and Encode of each type.   *)

u8(v) == <<v % 256>>
u16(v) == <<v \div 256, v % 256>>
u32(v) == u16(v \div 65536) \o u16(v % 65536)
ip(addr) == addr.AddressBytes

\* A bit of the flags.
Bit(condition, value) == IF condition THEN value ELSE 0

\* What the Encode methods of the elements of a list write, one after the other.
\* The halves are taken apart so that the recursion is not as deep as a long list.
EncodeAll(parts) ==
  LET joined[lo, hi \in 0 .. Len(parts)] ==
        LET mid == (lo + hi) \div 2
        IN  CASE hi = lo     -> << >>
              [] hi = lo + 1 -> parts[hi]
              [] hi > lo + 1 -> joined[lo, mid] \o joined[mid, hi]
  IN  joined[0, Len(parts)]

\* reduce of the sizes of the elements of a list, in the same way.
SizeOfAll(sizes) ==
  LET total[lo, hi \in 0 .. Len(sizes)] ==
        LET mid == (lo + hi) \div 2
        IN  CASE hi = lo     -> 0
              [] hi = lo + 1 -> sizes[hi]
              [] hi > lo + 1 -> total[lo, mid] + total[mid, hi]
  IN  total[0, Len(sizes)]

JoinEncode(e) == ip(e.Source) \o ip(e.Subject) \o u16(e.Incarnation)
SuspectEncode(e) == ip(e.Source) \o ip(e.Subject) \o u16(e.Incarnation)
FaultyEncode(e) == ip(e.Source) \o ip(e.Subject) \o u16(e.Incarnation)
HealthyEncode(e) == ip(e.Source) \o ip(e.Subject) \o u16(e.Incarnation)

\* Variant of AliveEncode: the incarnation goes first.
AliveEncodeSwapped(e) == u16(e.Incarnation) \o ip(e.Subject)
AliveEncode(e) == ip(e.Subject) \o u16(e.Incarnation)
LeftEncode(e) == ip(e.Subject) \o u16(e.Incarnation)
WrapEncode(e) == ip(e.Subject) \o u16(e.Incarnation) \o u16(e.NewIncarnation)

PayloadEncode(e) ==
  CASE e.kind = "Join"    -> JoinEncode(e)
    [] e.kind = "Suspect" -> SuspectEncode(e)
    [] e.kind = "Faulty"  -> FaultyEncode(e)
    [] e.kind = "Healthy" -> HealthyEncode(e)
    [] e.kind = "Alive"   -> AliveEncode(e)
    [] e.kind = "Left"    -> LeftEncode(e)
    [] e.kind = "Wrap"    -> WrapEncode(e)

Sourced == {"Join", "Suspect", "Faulty", "Healthy"}

\* SourceAddressKind: an event without a source says IPv4.
SourceAddressKind(e) == IF e.kind \in Sourced THEN e.Source.AddressKind ELSE AddressIPv4

EventEncode(e) ==
  u8(EventKinds[e.kind] * 16 + Bit(SourceAddressKind(e) = AddressIPv6, 8)
                             + Bit(e.Subject.AddressKind = AddressIPv6, 4))
  \o PayloadEncode(e)

\* Variant of EventRequiredSize: the second incarnation of a Wrap is forgotten.
EventRequiredSizeShort(e) ==
  3 + Size(e.Subject.AddressKind) + (IF e.kind \in Sourced THEN Size(e.Source.AddressKind) ELSE 0)

EventRequiredSize(e) ==
  1 + (IF e.kind = "Wrap" THEN 4 ELSE 2) + Size(e.Subject.AddressKind)
    + (IF e.kind \in Sourced THEN Size(e.Source.AddressKind) ELSE 0)

NodeEncode(n) ==
  u8(Bit(n.Address.AddressKind = AddressIPv6, 1) + Bit(n.Suspect, 2))
  \o u16(n.Incarnation) \o ip(n.Address)

NodeRequiredSize(n) == 3 + Size(n.Address.AddressKind)

PingEncode(m) ==
  u16(m.Cookie) \o u16(m.Period) \o u16(m.TargetIncarnation)
  \o u8(Len(m.Events)) \o EncodeAll([i \in DOMAIN m.Events |-> EventEncode(m.Events[i])])

PongEncode(m) ==
  u8(Bit(m.Ack, 1) + Bit(m.IsLastStateKnown, 2 + 4 * EventKinds[m.LastKnownEventKind]))
  \o u16(m.Cookie) \o u16(m.Period) \o u16(m.LastKnownIncarnation)

IndirectPingEncode(m) ==
  u8(m.Address.AddressKind) \o u16(m.Cookie) \o u16(m.Period) \o ip(m.Address)

IndirectPongEncode(m) == u16(m.Cookie) \o u16(m.Period)

SyncEncode(m) ==
  u8(m.Mode) \o u8(Len(m.Nodes)) \o EncodeAll([i \in DOMAIN m.Nodes |-> NodeEncode(m.Nodes[i])])

Empty == {"BTRP", "BTRR", "BTRA"}

MessageEncode(m) ==
  CASE m.OpCode = "PING" -> PingEncode(m)
    [] m.OpCode = "PONG" -> PongEncode(m)
    [] m.OpCode = "IING" -> IndirectPingEncode(m)
    [] m.OpCode = "IONG" -> IndirectPongEncode(m)
    [] m.OpCode = "SYNC" -> SyncEncode(m)
    [] m.OpCode \in Empty -> << >>

EventsSize(events) == SizeOfAll([i \in DOMAIN events |-> EventRequiredSize(events[i])])

RequiredSize(m) ==
  CASE m.OpCode = "PING" -> 7 + EventsSize(m.Events)
    [] m.OpCode = "PONG" -> 7
    [] m.OpCode = "IING" -> 5 + Size(m.Address.AddressKind)
    [] m.OpCode = "IONG" -> 4
    [] m.OpCode = "SYNC" -> 2 + SizeOfAll([i \in DOMAIN m.Nodes |-> NodeRequiredSize(m.Nodes[i])])
    [] m.OpCode \in Empty -> 0

HeaderEncode(h) == u16(h.Magic) \o u8(h.Version * 16 + OpCodes[h.OpCode]) \o u16(h.Incarnation)

Pkt(incarnation, m) ==
  [Header |-> [Magic |-> protocolMagic, Version |-> protocolVersion,
               OpCode |-> m.OpCode, Incarnation |-> incarnation],
   Message |-> m]

\* The buffer has the size RequiredSize asks for; what Encode does not fill is 0.
EncPkt(incarnation, m) ==
  LET pkt == Pkt(incarnation, m)
      data == HeaderEncode(pkt.Header) \o MessageEncode(m)
  IN  [i \in 1 .. 5 + RequiredSize(m) |-> IF i <= Len(data) THEN data[i] ELSE 0]

TCPPacketEncode(payload) ==
  u16(protocolMagic) \o u8(protocolVersion) \o u32(Len(payload)) \o payload

=============================================================================

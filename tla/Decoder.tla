------------------------------- MODULE Decoder -------------------------------
(***************************************************************************)
(* The machines that decode what module Codec encodes (the fsm definitions *)
(* of internal/proto).  Most of them take one field after the other: such  *)
(* a definition is the sequence of its states, named for the field each    *)
(* one fills.                                                              *)
(***************************************************************************)
EXTENDS Codec

joinDecoder    == <<"Source", "Subject", "Incarnation">>
suspectDecoder == <<"Source", "Subject", "Incarnation">>
faultyDecoder  == <<"Source", "Subject", "Incarnation">>
healthyDecoder == <<"Source", "Subject", "Incarnation">>
aliveDecoder   == <<"Subject", "Incarnation">>
leftDecoder    == <<"Subject", "Incarnation">>
wrapDecoder    == <<"Subject", "Incarnation", "NewIncarnation">>

eventDecoderList ==
  [Join |-> joinDecoder, Suspect |-> suspectDecoder, Faulty |-> faultyDecoder,
   Healthy |-> healthyDecoder, Alive |-> aliveDecoder, Left |-> leftDecoder, Wrap |-> wrapDecoder]

\* Bytes of the next field of a value whose flags are known.
FieldSize(value, field) ==
  IF field \in {"Source", "Subject", "Address"} THEN Size(value[field].AddressKind) ELSE 2

\* fsmCopyIP, or U16 of the payload.
FieldValue(f, field) ==
  IF field \in {"Source", "Subject", "Address"}
  THEN [f.Value[field] EXCEPT !.AddressBytes = f.Payload]
  ELSE U16(f.Payload)

\* A feed function that fills the field of its state and goes on to the next.
TakeField(f, fields) ==
  LET i == CHOOSE k \in DOMAIN fields : fields[k] = f.state
      g == [f EXCEPT !.Value[f.state] = FieldValue(f, f.state)]
  IN  IF i = Len(fields) THEN Done(g)
      ELSE More(TransitionSatisfySize(g, fields[i + 1], FieldSize(g.Value, fields[i + 1])))

\* A flag of a byte.
FlagBit(b, bit) == (b \div bit) % 2

-----------------------------------------------------------------------------
(* Events.                                                                  *)

(***************************************************************************)
(* A new decoder of an event, after Prepare: it has the kinds of the       *)
(* addresses and waits for the first of them.                              *)
(***************************************************************************)
PayloadDecoder(kind, source, subject) ==
  LET value == IF kind \in Sourced
               THEN [kind |-> kind, Source |-> ZeroIP(source), Subject |-> ZeroIP(subject), Incarnation |-> 0]
               ELSE IF kind = "Wrap"
               THEN [kind |-> kind, Subject |-> ZeroIP(subject), Incarnation |-> 0, NewIncarnation |-> 0]
               ELSE [kind |-> kind, Subject |-> ZeroIP(subject), Incarnation |-> 0]
      first == eventDecoderList[kind][1]
  IN  NewFSM(FieldSize(value, first), first, value, << >>)

PayloadFeed(f, b) == TakeField(f, eventDecoderList[f.Value.kind])

eventDecoder == NewFSM(0, "flags", << >>, << >>)

\* A kind no decoder is known for: the machine is reset, the error is lost.
EventFeed(f, b) ==
  IF f.state = "flags"
  THEN IF b \div 16 \notin Codes(EventKinds) THEN More(eventDecoder)
       ELSE More([Transition(f, "payload") EXCEPT
                    !.context = PayloadDecoder(NameOf(EventKinds, b \div 16), FlagBit(b, 8), FlagBit(b, 4))])
  ELSE LET g == Fed(f.context, b)
           r == Feed(g, PayloadFeed(g, b), eventDecoder)
       IN  IF r.out # {} THEN Done([f EXCEPT !.Value = CHOOSE e \in r.out : TRUE])
           ELSE More([f EXCEPT !.context = r.fsm])

-----------------------------------------------------------------------------
(* Messages.                                                                *)

newNode == NewFSM(0, "flags", [Suspect |-> FALSE, Incarnation |-> 0,
                               Address |-> ZeroIP(AddressIPv4)], << >>)

NodeFeed(f, b) ==
  IF f.state = "flags"
  THEN More(TransitionSatisfySize([f EXCEPT !.Value.Address = ZeroIP(FlagBit(b, 1)),
                                            !.Value.Suspect = FlagBit(b, 2) = 1], "Incarnation", 2))
  ELSE TakeField(f, <<"Incarnation", "Address">>)

newPong == NewFSM(0, "flags", [OpCode |-> "PONG", Ack |-> FALSE, Cookie |-> 0, Period |-> 0,
                               IsLastStateKnown |-> FALSE, LastKnownEventKind |-> "Join",
                               LastKnownIncarnation |-> 0], << >>)

PongFeed(f, b) ==
  IF f.state = "flags"
  THEN More(TransitionSatisfySize(
              [f EXCEPT !.Value.Ack = FlagBit(b, 1) = 1,
                        !.Value.IsLastStateKnown = FlagBit(b, 2) = 1,
                        !.Value.LastKnownEventKind = IF FlagBit(b, 2) = 1
                                                     THEN NameOf(EventKinds, b \div 4) ELSE @],
              "Cookie", 2))
  ELSE TakeField(f, <<"Cookie", "Period", "LastKnownIncarnation">>)

newIndirectPing == NewFSM(1, "flags", [OpCode |-> "IING", Cookie |-> 0, Period |-> 0,
                                       Address |-> ZeroIP(AddressIPv4)], << >>)

IndirectPingFeed(f, b) ==
  IF f.state = "flags"
  THEN More(TransitionSatisfySize([f EXCEPT !.Value.Address = ZeroIP(b)], "Cookie", 2))
  ELSE TakeField(f, <<"Cookie", "Period", "Address">>)

newIndirectPong == NewFSM(2, "Cookie", [OpCode |-> "IONG", Cookie |-> 0, Period |-> 0], << >>)

IndirectPongFeed(f, b) == TakeField(f, <<"Cookie", "Period">>)

\* The machine of a list takes what its inner decoder, which has returned r,
\* yields, and counts down.
ListFeed(f, r, field) ==
  LET g == [f EXCEPT !.context = r.fsm, !.Size = @ - (IF r.out = {} THEN 0 ELSE 1),
                     !.Value[field] = IF r.out = {} THEN @ ELSE Append(@, CHOOSE v \in r.out : TRUE)]
  IN  IF g.Size = 0 THEN Done(g) ELSE More(g)

newPing == NewFSM(2, "Cookie", [OpCode |-> "PING", Cookie |-> 0, Period |-> 0, TargetIncarnation |-> 0,
                                Events |-> << >>], eventDecoder)

\* After the incarnation a byte with the number of events, then the events.
PingFeed(f, b) ==
  CASE f.state \in {"Cookie", "Period"} -> TakeField(f, <<"Cookie", "Period", "TargetIncarnation">>)
    [] f.state = "TargetIncarnation" -> More(Transition(TakeField(f, <<f.state>>).fsm, "eventSize"))
    [] f.state = "eventSize" -> IF b = 0 THEN Done(f) ELSE More(TransitionSize(f, "events", b))
    [] f.state = "events" -> LET g == Fed(f.context, b)
                             IN  ListFeed(f, Feed(g, EventFeed(g, b), eventDecoder), "Events")

newSync == NewFSM(0, "mode", [OpCode |-> "SYNC", Mode |-> 0, Nodes |-> << >>], newNode)

SyncFeed(f, b) ==
  CASE f.state = "mode" -> More(Transition([f EXCEPT !.Value.Mode = b], "size"))
    [] f.state = "size" -> IF b = 0 THEN Done(f) ELSE More(TransitionSize(f, "nodes", b))
    [] f.state = "nodes" -> LET g == Fed(f.context, b)
                            IN  ListFeed(f, Feed(g, NodeFeed(g, b), newNode), "Nodes")

-----------------------------------------------------------------------------
(* Packets.                                                                 *)

newHeader == NewFSM(2, "magic", [Magic |-> 0, Version |-> 0, OpCode |-> "", Incarnation |-> 0], << >>)

HeaderFeed(f, b) ==
  CASE f.state = "magic" ->
         IF U16(f.Payload) # protocolMagic THEN More(newHeader)
         ELSE More(Transition([f EXCEPT !.Value.Magic = protocolMagic], "versionOpCode"))
    [] f.state = "versionOpCode" ->
         IF b \div 16 # protocolVersion \/ b % 16 \notin Codes(OpCodes) THEN More(newHeader)
         ELSE More(TransitionSatisfySize([f EXCEPT !.Value.Version = b \div 16,
                                                   !.Value.OpCode = NameOf(OpCodes, b % 16)],
                                         "incarnation", 2))
    [] f.state = "incarnation" -> Done([f EXCEPT !.Value.Incarnation = U16(f.Payload)])

\* A new decoder of the list messageDecoderList.
MessageDecoder(op) ==
  CASE op = "PING" -> newPing
    [] op = "PONG" -> newPong
    [] op = "IING" -> newIndirectPing
    [] op = "IONG" -> newIndirectPong
    [] op = "SYNC" -> newSync

MessageFeed(op, f, b) ==
  LET g == Fed(f, b)
  IN  CASE op = "PING" -> Feed(g, PingFeed(g, b), newPing)
        [] op = "PONG" -> Feed(g, PongFeed(g, b), newPong)
        [] op = "IING" -> Feed(g, IndirectPingFeed(g, b), newIndirectPing)
        [] op = "IONG" -> Feed(g, IndirectPongFeed(g, b), newIndirectPong)
        [] op = "SYNC" -> Feed(g, SyncFeed(g, b), newSync)

newPacket == NewFSM(0, "header", [Header |-> << >>, Message |-> << >>], [header |-> newHeader, payload |-> << >>])

\* The header, then the decoder of its message; an empty message has none.
PacketFeed(f, b) ==
  IF f.state = "header"
  THEN LET g == Fed(f.context.header, b)
           r == Feed(g, HeaderFeed(g, b), newHeader)
           head == CHOOSE h \in r.out : TRUE
       IN  IF r.out = {} THEN More([f EXCEPT !.context.header = r.fsm])
           ELSE IF head.OpCode \in Empty
           THEN Done([f EXCEPT !.Value = [Header |-> head, Message |-> [OpCode |-> head.OpCode]]])
           ELSE More([Transition(f, "payload") EXCEPT !.Value.Header = head,
                                                      !.context.header = r.fsm,
                                                      !.context.payload = MessageDecoder(head.OpCode)])
  ELSE LET r == MessageFeed(f.Value.Header.OpCode, f.context.payload, b)
       IN  IF r.out = {} THEN More([f EXCEPT !.context.payload = r.fsm])
           ELSE Done([f EXCEPT !.Value.Message = CHOOSE m \in r.out : TRUE])

newTCPPacket == NewFSM(2, "magic", << >>, << >>)

\* The value of a TCPPacket is its payload: magic and version are constants.
TCPPacketFeed(f, b) ==
  CASE f.state = "magic" -> IF U16(f.Payload) # protocolMagic THEN More(newTCPPacket)
                            ELSE More(TransitionSatisfySize(f, "version", 1))
    [] f.state = "version" -> IF b # 1 THEN More(newTCPPacket)
                              ELSE More(TransitionSatisfySize(f, "size", 4))
    [] f.state = "size" -> More(TransitionSatisfySize(f, "payload", U32(f.Payload)))
    [] f.state = "payload" -> Done([f EXCEPT !.Value = f.Payload])

=============================================================================

------------------------------- MODULE Rumours -------------------------------
(***************************************************************************)
(* What a node holds about one member in its gossip queue, as the server   *)
(* uses the queue: NewGossipManager is called with maxTx = 1 and           *)
(* AdjustMaxTransmission is never called (swim_server.go).                 *)
(*                                                                         *)
(* A rumour about a member none was held about is fresh: it is handed out  *)
(* once and forgotten.  A rumour that replaced another one is not fresh,   *)
(* and is never forgotten: it is handed out again and again until another  *)
(* rumour replaces it.  GossipManager is shown to implement this.          *)
(***************************************************************************)
EXTENDS Events

NoRumour == [kind |-> "None", incarnation |-> 0, fresh |-> FALSE]

Rumour == [kind : Kind, incarnation : Incarnation, fresh : BOOLEAN]

Held(s) == s.kind # "None"

\* The slot of the member an event is about, once the event has been added.
AddToSlot(s, kind, incarnation) ==
  LET item == [kind |-> kind, incarnation |-> incarnation]
  IN  IF ~Held(s) THEN [kind |-> kind, incarnation |-> incarnation, fresh |-> TRUE]
      ELSE IF Invalidates(item, s)
           THEN [kind |-> kind, incarnation |-> incarnation, fresh |-> FALSE]
           ELSE s

\* The slot of a member whose rumour has been handed out.
AfterHandOut(s) == IF s.fresh THEN NoRumour ELSE s

EventAbout(a, s) == [kind |-> s.kind, subject |-> a, incarnation |-> s.incarnation]

=============================================================================

------------------------------ MODULE MCGossip ------------------------------
(* Instances of GossipManager for TLC.                                       *)
EXTENDS GossipManager

CONSTANTS a, b, c

\* The kinds a server emits.
Emitted == {"Join", "Alive", "Suspect", "Faulty"}

EmittedEvents == [kind : Emitted, subject : Addr, incarnation : 0 .. 1]

\* One life of a member: it joins, is suspected, refutes or is declared faulty.
LifeEvents == {e \in EmittedEvents : e.incarnation = 1 <=> e.kind = "Alive"}

AllEvents == [kind : Kind, subject : Addr, incarnation : 0 .. 1]

=============================================================================

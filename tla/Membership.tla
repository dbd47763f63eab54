----------------------------- MODULE Membership -----------------------------
(***************************************************************************)
(* What the node manager of a node promises: one entry per other member,   *)
(* changed by the calls in the ways of module Members, and expired against *)
(* the protocol period.  NodeManager, with the three maps of the code, is  *)
(* shown to implement it.                                                  *)
(***************************************************************************)
EXTENDS Members

CONSTANT Self   \* the address of the node itself, never an entry

VARIABLES
  entry,   \* entry[a]: what is known about a
  period   \* the current protocol period

vars == <<entry, period>>

Others == Addr \ {Self}

Init == /\ entry = [a \in Addr |-> NoMember]
        /\ period = 1

Apply(a, e) == /\ entry' = [entry EXCEPT ![a] = e]
               /\ UNCHANGED period

\* A ping was received from a, or a was bootstrapped.
Admit(a, incarnation) == Apply(a, Added(entry[a], period, incarnation, FALSE))

\* A node list arrived: batch[a] is the incarnation it gives for a.
AdmitAll(batch) ==
  /\ entry' = [a \in Addr |-> IF a \in DOMAIN batch \ {Self}
                              THEN Added(entry[a], period, batch[a], FALSE)
                              ELSE entry[a]]
  /\ UNCHANGED period

Trust(a) == Apply(a, MarkedStable(entry[a]))

Suspect(a) == Apply(a, MarkedSuspect(entry[a], period, FALSE))

Update(a, incarnation, suspect) ==
  Apply(a, UpdatedOrCreated(entry[a], period, incarnation, suspect))

Wrap(a, incarnation) == Apply(a, WrappedIncarnation(incarnation))

Remove(a) == Apply(a, NoMember)

\* Suspects announced by other nodes are forgotten without an announcement.
ExpireRemote ==
  /\ entry' = [a \in Addr |-> IF Expired(entry[a], period) /\ entry[a].remote
                              THEN NoMember ELSE entry[a]]
  /\ UNCHANGED period

Tick == /\ period' = Incremented(period)
        /\ UNCHANGED entry

Next ==
  \/ \E a \in Others :
       \/ Trust(a)
       \/ Suspect(a)
       \/ Remove(a)
       \/ \E i \in Incarnation :
            \/ Admit(a, i)
            \/ Wrap(a, i)
            \/ \E s \in BOOLEAN : Update(a, i, s)
  \/ \E S \in SUBSET Addr : \E batch \in [S -> Incarnation] : AdmitAll(batch)
  \/ ExpireRemote
  \/ Tick

Spec == Init /\ [][Next]_vars

=============================================================================

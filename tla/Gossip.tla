------------------------------- MODULE Gossip -------------------------------
(***************************************************************************)
(* What the gossip manager of a node promises to the rest of the node: at  *)
(* most one rumour per member (see Rumours), fresh ones handed out first.  *)
(* GossipManager, the ordered queue of the code, is shown to implement it. *)
(***************************************************************************)
EXTENDS Rumours

VARIABLES
  slot,  \* slot[a]: the rumour held about a, or NoRumour
  sent   \* the events the last call handed out

vars == <<slot, sent>>

-----------------------------------------------------------------------------

Init == /\ slot = [a \in Addr |-> NoRumour]
        /\ sent = {}

Add(item) ==
  /\ slot' = [slot EXCEPT ![item.subject] = AddToSlot(@, item.kind, item.incarnation)]
  /\ sent' = {}

(***************************************************************************)
(* A batch is limited by the space left in the datagram.  Fresh rumours go *)
(* out first: a batch that leaves a fresh one behind has only fresh ones.  *)
(***************************************************************************)
HandOut(B) ==
  /\ \A a \in B : Held(slot[a])
  /\ (\E a \in Addr \ B : slot[a].fresh) => \A a \in B : slot[a].fresh
  /\ sent' = {EventAbout(a, slot[a]) : a \in B}
  /\ slot' = [a \in Addr |-> IF a \in B THEN AfterHandOut(slot[a]) ELSE slot[a]]

Next == \/ \E item \in Event : Add(item)
        \/ \E B \in SUBSET Addr : HandOut(B)

Spec == Init /\ [][Next]_vars

=============================================================================

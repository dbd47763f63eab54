------------------------------- MODULE Events -------------------------------
(***************************************************************************)
(* Gossip events and the rules that say which event about a member makes   *)
(* another one obsolete (internal/proto/base.go, event*.go,                *)
(* invalidation.go).                                                       *)
(*                                                                         *)
(* An event is abstracted to its kind, the member it is about and the      *)
(* incarnation it carries.  Left out, because no code path reads them: the *)
(* Source of an event, and the NewIncarnation of a Wrap (the receiver uses *)
(* Incarnation, the only constructor sets NewIncarnation to 0).            *)
(***************************************************************************)
EXTENDS Integers

CONSTANTS
  Addr,       \* addresses of the members (an address determines a NodeHash)
  MaxUint16   \* 65535 in the code: the largest incarnation and the bound of period ids

ASSUME UintAssumption == MaxUint16 \in Nat /\ MaxUint16 >= 2

Incarnation == 0 .. MaxUint16

Kind == {"Join", "Healthy", "Suspect", "Faulty", "Left", "Alive", "Wrap"}

Event == [kind : Kind, subject : Addr, incarnation : Incarnation]

\* Variant of OverridesOnTie: a Join clears a Suspect of its own incarnation.
OverridesOnTieTooMuch ==
  [Alive   |-> {},
   Join    |-> {"Suspect"},
   Faulty  |-> Kind,
   Suspect |-> {"Alive", "Join", "Healthy", "Wrap"},
   Healthy |-> {"Suspect", "Join"},
   Left    |-> {"Suspect", "Join", "Alive", "Healthy", "Wrap"},
   Wrap    |-> {"Alive", "Suspect", "Join", "Healthy"}]

(***************************************************************************)
(* The kinds an event overrides when the incarnations are equal: the cases *)
(* that use >= in the type switches.                                       *)
(***************************************************************************)
OverridesOnTie ==
  [Alive   |-> {},
   Join    |-> {},
   Faulty  |-> Kind,
   Suspect |-> {"Alive", "Join", "Healthy", "Wrap"},
   Healthy |-> {"Suspect", "Join"},
   Left    |-> {"Suspect", "Join", "Alive", "Healthy", "Wrap"},
   Wrap    |-> {"Alive", "Suspect", "Join", "Healthy"}]

\* The kinds that never override a Faulty event, whatever the incarnations.
YieldsToFaulty == {"Join", "Healthy", "Left", "Wrap"}

\* item.Payload.(Invalidator).Invalidates(current)
Invalidates(item, current) ==
  \/ item.kind = "Faulty"
  \/ /\ current.kind = "Faulty" => item.kind \notin YieldsToFaulty
     /\ \/ item.incarnation > current.incarnation
        \/ /\ item.incarnation = current.incarnation
           /\ current.kind \in OverridesOnTie[item.kind]

=============================================================================

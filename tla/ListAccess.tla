----------------------------- MODULE ListAccess -----------------------------
(***************************************************************************)
(* The member list under concurrent calls (node_list.go, node_manager.go), *)
(* one access to a map at a time.  MarkStable, MarkSuspect and MarkFaulty  *)
(* unlock the list's mutex as soon as they have locked it, and             *)
(* ExpiredSuspects deletes with the lock for reading, so their accesses    *)
(* fall between those of other goroutines; module NodeManager has every    *)
(* call in one step.                                                       *)
(*                                                                         *)
(* The model follows one hash; whether a key is in a map is all that       *)
(* counts.  Go leaves open what concurrent accesses to a map do: here they *)
(* take effect one after the other, and the runtime, which may stop the    *)
(* program instead, does not notice them.                                  *)
(***************************************************************************)
EXTENDS FiniteSets

\* The goroutines that call the list: the handler of datagrams, the run loop, and
\* a handler of a TCP connection.
Proc == {"handler", "loop", "sync"}

NoProc == "nobody"

VARIABLES
  nodeByType,  \* the type recorded for the hash, "Invalid" for none
  stable,      \* whether the hash is in the map stable
  suspects,    \* whether it is in the map suspects
  writer,      \* who holds nodeList.mu for writing
  readers,     \* who hold it for reading
  manager,     \* who holds nodeManager.mu
  pc,          \* where each goroutine is
  found,       \* the type each goroutine has read
  target       \* the type the node of a call is to have

vars == <<nodeByType, stable, suspects, writer, readers, manager, pc, found, target>>

maps  == <<nodeByType, stable, suspects>>
locks == <<writer, readers, manager>>

Init ==
  /\ nodeByType = "Invalid" /\ stable = FALSE /\ suspects = FALSE
  /\ writer = NoProc /\ readers = {} /\ manager = NoProc
  /\ pc = [p \in Proc |-> "idle"]
  /\ found = [p \in Proc |-> "Invalid"]
  /\ target = [p \in Proc |-> "Stable"]

Goto(p, label) == pc' = [pc EXCEPT ![p] = label]

\* The map of a type has the hash.
Holds(type) == IF type = "Stable" THEN stable ELSE suspects

\* The map of a type gets the hash, or loses it.
Store(type, in) ==
  IF type = "Stable" THEN stable' = in /\ UNCHANGED suspects
  ELSE suspects' = in /\ UNCHANGED stable

\* The end of a call, which gives back all the locks the goroutine holds.
Return(p) ==
  /\ Goto(p, "idle")
  /\ writer' = IF writer = p THEN NoProc ELSE writer
  /\ readers' = readers \ {p}
  /\ manager' = IF manager = p THEN NoProc ELSE manager

-----------------------------------------------------------------------------
(* Calls.                                                                   *)

Call(p, label, type) ==
  /\ pc[p] = "idle"
  /\ Goto(p, label)
  /\ target' = [target EXCEPT ![p] = type]
  /\ UNCHANGED <<maps, found>>

\* The sender of a ping is added and marked stable; an event of the ping updates,
\* buries or deletes a node.
HandlerCalls(p) ==
  /\ p = "handler"
  /\ \/ Call(p, "add", "Stable") \/ Call(p, "mark", "Stable") \/ Call(p, "delete", "Stable")
     \/ \E type \in {"Stable", "Suspect"} : Call(p, "update", type)
  /\ UNCHANGED locks

\* MarkFaulty and Bootstrap hold the mutex of the manager from the beginning.
ManagerCalls(p) ==
  /\ manager = NoProc /\ manager' = p
  /\ \/ p \in {"handler", "loop"} /\ Call(p, "bury", "Invalid")
     \/ p = "sync" /\ \E type \in {"Stable", "Suspect"} : Call(p, "add", type)
  /\ UNCHANGED <<writer, readers>>

\* The outcome of a probe, the expiry of suspects and the choice of relays.
LoopCalls(p) ==
  /\ p = "loop"
  /\ \/ \E type \in {"Stable", "Suspect"} : Call(p, "mark", type)
     \/ Call(p, "expire", "Invalid") \/ Call(p, "candidates", "Invalid")
  /\ UNCHANGED locks

-----------------------------------------------------------------------------
(* The steps of the methods.                                                *)

\* mu.Lock and mu.RLock.
WriteLock(p) == writer = NoProc /\ readers = {} /\ writer' = p /\ UNCHANGED <<readers, manager>>
ReadLock(p)  == writer = NoProc /\ readers' = readers \cup {p} /\ UNCHANGED <<writer, manager>>

Lock(p) ==
  /\ \/ pc[p] = "add" /\ WriteLock(p) /\ Goto(p, "addLocked")
     \/ pc[p] = "delete" /\ WriteLock(p) /\ Goto(p, "deleteLocked")
     \/ pc[p] = "update" /\ ReadLock(p) /\ Goto(p, "updateLocked")
     \/ pc[p] = "expire" /\ ReadLock(p) /\ Goto(p, "expireLocked")
     \/ pc[p] = "candidates" /\ ReadLock(p) /\ Goto(p, "candidatesLocked")
     \/ pc[p] = "updateFound" /\ manager = NoProc /\ manager' = p
        /\ UNCHANGED <<writer, readers>> /\ Goto(p, "mark")
  /\ UNCHANGED <<maps, found, target>>

\* mu.Lock and mu.Unlock, one after the other: the goroutine only waits.
LockAndUnlock(p) ==
  /\ pc[p] \in {"mark", "bury"}
  /\ writer = NoProc /\ readers = {}
  /\ Goto(p, "read")
  /\ UNCHANGED <<maps, locks, found, target>>

\* unsafeAdd skips a node that is known.
AddLookup(p) ==
  /\ pc[p] = "addLocked"
  /\ IF nodeByType # "Invalid" THEN Return(p)
     ELSE Goto(p, "putType") /\ UNCHANGED locks
  /\ UNCHANGED <<maps, found, target>>

\* UpdateOrCreate: NodeByHash, then Add for nil.  n.mu is locked afterwards.
UpdateLookup(p) ==
  /\ pc[p] = "updateLocked"
  /\ readers' = readers \ {p}
  /\ Goto(p, IF nodeByType = "Invalid" \/ ~Holds(nodeByType) THEN "add" ELSE "updateFound")
  /\ UNCHANGED <<maps, writer, manager, found, target>>

\* The lookup of the type in MarkStable, MarkSuspect and unsafeMarkFaulty.
ReadType(p) ==
  /\ pc[p] = "read"
  /\ found' = [found EXCEPT ![p] = nodeByType]
  /\ IF nodeByType \in {"Invalid", target[p]} THEN Return(p)
     ELSE Goto(p, "take") /\ UNCHANGED locks
  /\ UNCHANGED <<maps, target>>

\* unsafeTakeAndDelete: the lookup in the map of the type and the deletion from it,
\* then the deletion from nodeByType.
Take(p) ==
  /\ pc[p] = "take"
  /\ IF Holds(found[p])
     THEN Store(found[p], FALSE) /\ Goto(p, "untype") /\ UNCHANGED locks
     ELSE Return(p) /\ UNCHANGED <<stable, suspects>>
  /\ UNCHANGED <<nodeByType, found, target>>

Untype(p) ==
  /\ pc[p] = "untype"
  /\ nodeByType' = "Invalid"
  /\ IF target[p] = "Invalid" THEN Return(p) ELSE Goto(p, "putType") /\ UNCHANGED locks
  /\ UNCHANGED <<stable, suspects, found, target>>

\* The type of a node is recorded, then the node is stored.
PutType(p) ==
  /\ pc[p] = "putType"
  /\ nodeByType' = target[p]
  /\ Goto(p, "putNode")
  /\ UNCHANGED <<stable, suspects, locks, found, target>>

PutNode(p) ==
  /\ pc[p] = "putNode"
  /\ Store(target[p], TRUE)
  /\ Return(p)
  /\ UNCHANGED <<nodeByType, found, target>>

\* Delete has the lock throughout.
DeleteNode(p) ==
  /\ pc[p] = "deleteLocked"
  /\ IF nodeByType = "Invalid" THEN UNCHANGED <<stable, suspects>> ELSE Store(nodeByType, FALSE)
  /\ nodeByType' = "Invalid"
  /\ Return(p)
  /\ UNCHANGED <<found, target>>

\* ExpiredSuspects: an expired suspect that was reported by a peer is removed by
\* unsafeMarkFaulty; others are left in place.
ExpireLookup(p) ==
  /\ pc[p] = "expireLocked"
  /\ \/ Return(p)
     \/ suspects /\ Goto(p, "read") /\ UNCHANGED locks
  /\ UNCHANGED <<maps, found, target>>

\* IndirectPingCandidates: the type of a key, then the node in the map of the type.
CandidateLookup(p) ==
  /\ pc[p] = "candidatesLocked"
  /\ found' = [found EXCEPT ![p] = nodeByType]
  /\ IF nodeByType = "Invalid" THEN Return(p) ELSE Goto(p, "dereference") /\ UNCHANGED locks
  /\ UNCHANGED <<maps, target>>

CandidateNode(p) ==
  /\ pc[p] = "dereference"
  /\ IF found[p] = "Suspect" /\ ~suspects THEN Goto(p, "panic") /\ UNCHANGED locks
     ELSE Return(p)
  /\ UNCHANGED <<maps, found, target>>

Step(p) ==
  \/ HandlerCalls(p) \/ ManagerCalls(p) \/ LoopCalls(p)
  \/ Lock(p) \/ LockAndUnlock(p) \/ AddLookup(p) \/ UpdateLookup(p) \/ ReadType(p)
  \/ Take(p) \/ Untype(p) \/ PutType(p) \/ PutNode(p) \/ DeleteNode(p)
  \/ ExpireLookup(p) \/ CandidateLookup(p) \/ CandidateNode(p)

Next == \E p \in Proc : Step(p)

Spec == Init /\ [][Next]_vars

-----------------------------------------------------------------------------
(* Properties.                                                              *)

\* Once all calls have returned, a node is in one list only and the recorded type
\* says in which: MarkSuspect "moves a node identified by a given `hash` to the
\* suspect list" and does not leave it, or bring it, elsewhere.
OneList ==
  (\A p \in Proc : pc[p] = "idle") =>
    /\ stable <=> nodeByType = "Stable"
    /\ suspects <=> nodeByType = "Suspect"

\* IndirectPingCandidates finds the node of every type it reads.
NoNilCandidate == \A p \in Proc : pc[p] # "panic"

=============================================================================

--------------------------------- MODULE Fsm ---------------------------------
(***************************************************************************)
(* The machine every decoder is built on (internal/fsm/fsm.go).  It is fed *)
(* byte by byte and calls the feed function of its definition, at once or  *)
(* only when as many bytes as the state wants have come in.                *)
(*                                                                         *)
(* A machine is the record NewFSM makes, and a feed function takes a       *)
(* machine and a byte.  The Feed of the code has two parts here, with the  *)
(* call of the feed function between them: for a machine f, a byte b and   *)
(* the feed function of its decoder, g == Fed(f, b) is the machine as the  *)
(* function finds it, and Feed(g, feedFn(g, b), initial) what is returned. *)
(* Feed looks at nothing but whether the function says Done, so an error   *)
(* it returns is the same as nil.  A pointer is a set: empty for nil.      *)
(***************************************************************************)
EXTENDS Integers, Sequences

\* The machine after Init: value is new(T), context has been reset.
NewFSM(initialSize, initialState, value, context) ==
  [Size |-> initialSize, mustSatisfySize |-> initialSize # 0, Payload |-> << >>,
   state |-> initialState, Value |-> value, context |-> context]

Transition(f, next) == [f EXCEPT !.Size = 0, !.state = next, !.Payload = << >>]

TransitionSize(f, next, size) == [Transition(f, next) EXCEPT !.Size = size]

TransitionSatisfySize(f, next, size) ==
  [TransitionSize(f, next, size) EXCEPT !.mustSatisfySize = TRUE]

\* What a feed function returns: the machine it leaves, and whether it says Done.
More(f) == [fsm |-> f, done |-> FALSE]
Done(f) == [fsm |-> f, done |-> TRUE]

\* SizeSatisfied: the byte is appended to the payload.
Appended(f, b) == [f EXCEPT !.Payload = Append(@, b), !.Size = @ - 1]

\* A byte comes in: one more of those the state wants, or the last of them.
Fed(f, b) ==
  IF f.mustSatisfySize THEN [Appended(f, b) EXCEPT !.mustSatisfySize = f.Size # 1] ELSE f

(***************************************************************************)
(* The rest of Feed, where r is what the feed function returns.  It is not *)
(* called while the state wants more bytes.  A machine that is done hands  *)
(* out its value and goes back to its initial form.                        *)
(***************************************************************************)
Feed(g, r, initial) ==
  IF g.mustSatisfySize THEN [fsm |-> g, out |-> {}]
  ELSE IF r.done THEN [fsm |-> initial, out |-> {r.fsm.Value}]
  ELSE [fsm |-> r.fsm, out |-> {}]

U16(payload) == payload[1] * 256 + payload[2]

U32(payload) == U16(payload) * 65536 + U16(SubSeq(payload, 3, 4))

=============================================================================

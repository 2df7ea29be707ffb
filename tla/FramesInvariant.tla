--------------------------- MODULE FramesInvariant ---------------------------
(***************************************************************************)
(* What makes the properties of Frames inductive: where the frames lie and *)
(* what their saved cells hold.                                            *)
(***************************************************************************)
EXTENDS Frames

\* The saved cells of the frame of as[k] in the stack s: those of the caller,
\* and where vm_call_main started from.
Saved(s, as, k) ==
  /\ as[k].fp = as[k].ap + as[k].args + 4
  /\ s[as[k].fp - 3] = as[k].ret
  /\ s[as[k].fp - 2] = IF k = 1 THEN 0 ELSE as[k - 1].ap
  /\ s[as[k].fp - 1] = IF k = 1 THEN 0 ELSE as[k - 1].fp
  /\ as[k].ret = NATIVE <=> k = 1

\* Every frame lies above all those of the activations before it.
Above(as, j, k) == as[j].fp + as[j].locals < as[k].ap

Chain(s, as) ==
  /\ \A k \in 1 .. Len(as) : Saved(s, as, k)
  /\ \A j, k \in 1 .. Len(as) : j < k => Above(as, j, k)
  /\ as # <<>> => as[1].ap = 0

\* The registers are those of the last activation, whose operands begin above
\* its local variables.
Registers(r, as) ==
  as # <<>> =>
    /\ r.fp = as[Len(as)].fp /\ r.ap = as[Len(as)].ap
    /\ r.fp + as[Len(as)].locals < r.sp

(* The inductive invariant.                                                *)
IInv ==
  /\ TypeOK
  /\ Chain(m.stack, acts)
  /\ Registers(m, acts)
  /\ m.sp <= StackSize + Slack
  /\ acts # <<>> <=> status \in {"run", "overflow", "overrun"}
  /\ status = "halted" => m.sp = 1 /\ m.ap = 0 /\ m.fp = 0
=============================================================================

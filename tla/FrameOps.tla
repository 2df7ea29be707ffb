------------------------------ MODULE FrameOps ------------------------------
(***************************************************************************)
(* The frame macros of vm/stack.h on the registers of the virtual machine  *)
(* and the array stack_g.  A frame is laid out as                          *)
(*                                                                         *)
(*   ap: arguments, THIS, return address, caller's ap, caller's fp,        *)
(*   fp: exception table or NULL, local variables, operands  :sp           *)
(*                                                                         *)
(* The saved registers are tagged integers like any other (make_integer).  *)
(***************************************************************************)
EXTENDS Integers

CONSTANTS
  StackSize,  \* stack_size_g: the limit stack_push tests
  Slack,      \* slots that stack_init allocates on top of it
  Null        \* the C NULL

NATIVE == -1

ASSUME StackAssumption == StackSize \in Nat /\ Slack \in Nat

\* A machine state: [stack, sp, ap, fp, ip].  What is above sp is never read.
Stack0(x) == [i \in 0 .. StackSize + Slack - 1 |-> x]
Start == [stack |-> Stack0(Null), sp |-> 0, ap |-> 0, fp |-> 0, ip |-> 0]

Push(m, v) == [m EXCEPT !.stack[m.sp] = v, !.sp = m.sp + 1]
\* The stack ends within the cells that there are.
Allocated(m) == m.sp <= StackSize + Slack
Top(m) == m.stack[m.sp - 1]
Pop(m) == [m EXCEPT !.sp = m.sp - 1]
This(m) == m.stack[m.fp - 4]

\* The end of BC_CALL and BC_TCALL: the exception slot and the locals, set to
\* NULL without a look at stack_size_g.
Enter(m, entry, locals) ==
  [stack |-> [i \in DOMAIN m.stack |->
                IF i \in m.sp .. m.sp + locals THEN Null ELSE m.stack[i]],
   sp |-> m.sp + locals + 1, ap |-> m.ap, fp |-> m.sp, ip |-> entry]

\* Mutant: ap_g is saved after it has been changed.
BC_CALLLate(m, entry, ret, args, locals) ==
  LET r == Push(m, ret)
      a == [r EXCEPT !.ap = r.sp + 1 - args - 3]
  IN Enter(Push(Push(a, a.ap), m.fp), entry, locals)

BC_CALL(m, entry, ret, args, locals) ==
  LET a == Push(Push(m, ret), m.ap)
      f == [Push(a, m.fp) EXCEPT !.ap = a.sp - args - 3]
  IN Enter(f, entry, locals)

\* Mutant: the saved registers are read after the arguments have been moved.
BC_TCALLLate(m, entry, args, locals) ==
  LET tmp   == m.sp - args - 1
      moved == [m EXCEPT !.sp = m.ap + args + 1,
                         !.stack = [i \in DOMAIN m.stack |->
                                      IF i \in m.ap .. m.ap + args
                                        THEN m.stack[tmp + i - m.ap] ELSE m.stack[i]]]
      s     == moved.stack
  IN Enter(Push(Push(Push(moved, s[m.fp - 3]), s[m.fp - 2]), s[m.fp - 1]), entry, locals)

(* The saved registers of the frame are kept for the one that replaces it; *)
(* the arguments and the receiver move down to ap, one at a time from the  *)
(* first: as they move down, none is overwritten before it has moved, and  *)
(* they are where they would be if all had moved at once.                  *)
BC_TCALL(m, entry, args, locals) ==
  LET s     == m.stack
      tmp   == m.sp - args - 1
      moved == [m EXCEPT !.sp = m.ap + args + 1,
                         !.stack = [i \in DOMAIN s |->
                                      IF i \in m.ap .. m.ap + args
                                        THEN s[tmp + i - m.ap] ELSE s[i]]]
  IN Enter(Push(Push(Push(moved, s[m.fp - 3]), s[m.fp - 2]), s[m.fp - 1]), entry, locals)

\* Mutant: fp_g is not restored.
LeaveKeepsFp(m) ==
  [stack |-> m.stack, sp |-> m.ap, ap |-> m.stack[m.fp - 2], fp |-> m.fp,
   ip |-> m.stack[m.fp - 3]]

\* Mutant: an argument stays on the stack.
LeaveHigh(m) ==
  [stack |-> m.stack, sp |-> m.ap + 1, ap |-> m.stack[m.fp - 2], fp |-> m.stack[m.fp - 1],
   ip |-> m.stack[m.fp - 3]]

\* UNWIND, and BC_RET without the value.
Leave(m) ==
  [stack |-> m.stack, sp |-> m.ap, ap |-> m.stack[m.fp - 2], fp |-> m.stack[m.fp - 1],
   ip |-> m.stack[m.fp - 3]]

BC_RET(m)      == Push(Leave(m), Top(m))
BC_RET_SELF(m) == Push(Leave(m), This(m))

\* Contents above sp, forgotten so that states differ only in what is read.
Clean(m) == [m EXCEPT !.stack = [i \in DOMAIN m.stack |->
                                   IF i < m.sp THEN m.stack[i] ELSE Null]]
=============================================================================

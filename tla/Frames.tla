------------------------------- MODULE Frames -------------------------------
(***************************************************************************)
(* The operand and frame stack (vm/stack.c, vm/stack.h) under any sequence *)
(* of pushes, pops, stores, calls, tail calls and returns that the         *)
(* compiler can emit: code that pops only operands of its own frame.  The  *)
(* array of cells and saved registers is shown to be a stack of            *)
(* activations (CallStack).                                                *)
(***************************************************************************)
EXTENDS FrameOps, Sequences, SequencesExt, FiniteSets

CONSTANTS
  Values,     \* objects: nothing the macros look into
  Addresses,  \* return addresses
  MaxArgs,    \* arguments of a method
  MaxLocals   \* its local variables

ASSUME FramesAssumption ==
  /\ MaxArgs \in Nat /\ MaxLocals \in Nat
  /\ Addresses \subseteq Nat
  /\ StackSize > 6

VARIABLES
  m,      \* stack_g and the registers
  acts,   \* history: the methods called, the running one last, with the
          \* registers they were given and their return addresses
  status  \* "run", "halted" (main has returned), "overflow" or "unhandled" (vm_error),
          \* "overrun": cells behind the allocation are written, whatever follows

vars == <<m, acts, status>>

Activated(mm, ret, n, l) ==
  [args |-> n, locals |-> l, ret |-> ret, fp |-> mm.fp, ap |-> mm.ap]

(* vm_call_main: the argument array and the class are pushed and main is   *)
(* called with NATIVE as its return address.  A main with more locals than *)
(* there are cells is stopped where they would begin.                      *)
Main(a, l) == BC_CALL(Push(Push(Start, a), a), 0, NATIVE, 1, l)

Init ==
  \E a \in Values, l \in 0 .. MaxLocals :
    LET k == IF Allocated(Main(a, l)) THEN l ELSE 0 IN
    /\ m = Main(a, k)
    /\ acts = <<Activated(m, NATIVE, 1, k)>>
    /\ status = IF k = l THEN "run" ELSE "overrun"

Running  == Last(acts)
Operands == m.fp + 1 + Running.locals      \* where the operands of the frame begin

Overflow == status' = "overflow" /\ UNCHANGED <<m, acts>>
Overrun  == status' = "overrun" /\ UNCHANGED <<m, acts>>

(* stack_push, with its check.                                             *)
Load(v) ==
  /\ status = "run"
  /\ IF m.sp >= StackSize THEN Overflow
     ELSE m' = Push(m, v) /\ UNCHANGED <<acts, status>>

Drop ==
  /\ status = "run" /\ m.sp > Operands
  /\ m' = Clean(Pop(m))
  /\ UNCHANGED <<acts, status>>

(* ST to ARG(i) or LOC(i).                                                 *)
Store(slot) ==
  /\ m.sp > Operands
  /\ m' = Clean(Pop([m EXCEPT !.stack[slot] = Top(m)]))
  /\ UNCHANGED <<acts, status>>
StoreArg(i)   == status = "run" /\ i <= Running.args /\ Store(m.ap + i - 1)
StoreLocal(i) == status = "run" /\ i <= Running.locals /\ Store(m.fp + i)

\* Mutant: BC_CALL writes its three cells without stack_push.
CallUnchecked(ret, n, l) ==
  /\ status = "run" /\ m.sp > Operands + n
  /\ IF ~Allocated(BC_CALL(m, 0, ret, n, l)) THEN Overrun
     ELSE /\ m' = BC_CALL(m, 0, ret, n, l)
          /\ acts' = Append(acts, Activated(m', ret, n, l))
          /\ UNCHANGED status

(* CALLE with the arguments and the receiver on the stack: the three       *)
(* pushes of BC_CALL are checked, the room for the locals is not.          *)
Call(ret, n, l) ==
  /\ status = "run" /\ m.sp > Operands + n
  /\ IF m.sp + 3 > StackSize THEN Overflow
     ELSE IF ~Allocated(BC_CALL(m, 0, ret, n, l)) THEN Overrun
     ELSE /\ m' = BC_CALL(m, 0, ret, n, l)
          /\ acts' = Append(acts, Activated(m', ret, n, l))
          /\ UNCHANGED status

TailCall(n, l) ==
  /\ status = "run" /\ m.sp > Operands + n
  /\ IF m.ap + n + 4 > StackSize THEN Overflow
     ELSE IF ~Allocated(BC_TCALL(m, 0, n, l)) THEN Overrun
     ELSE /\ m' = Clean(BC_TCALL(m, 0, n, l))
          /\ acts' = Append(Front(acts), Activated(m', Running.ret, n, l))
          /\ UNCHANGED status

(* RET and RET_SELF; the interpreter loop ends when main returns.          *)
Leaving(r) ==
  /\ m' = Clean(r)
  /\ acts' = Front(acts)
  /\ status' = IF r.ip = NATIVE THEN "halted" ELSE "run"
Ret     == status = "run" /\ m.sp > Operands /\ Leaving(BC_RET(m))
RetSelf == status = "run" /\ Leaving(BC_RET_SELF(m))

(* UNWIND: an exception leaves the running method.  The caller goes on in   *)
(* a handler, or is left in turn; main has no caller ("Unhandled           *)
(* exception").                                                            *)
Unwind ==
  /\ status = "run"
  /\ m' = Clean(Leave(m))
  /\ acts' = Front(acts)
  /\ status' = IF Leave(m).ip = NATIVE THEN "unhandled" ELSE "run"

Next ==
  \/ \E v \in Values : Load(v)
  \/ Drop
  \/ \E i \in 1 .. MaxArgs : StoreArg(i)
  \/ \E i \in 1 .. MaxLocals : StoreLocal(i)
  \/ \E ret \in Addresses, n \in 0 .. MaxArgs, l \in 0 .. MaxLocals : Call(ret, n, l)
  \/ \E n \in 0 .. MaxArgs, l \in 0 .. MaxLocals : TailCall(n, l)
  \/ Ret \/ RetSelf \/ Unwind

Spec == Init /\ [][Next]_vars

-----------------------------------------------------------------------------
(* Properties.                                                             *)

Machine == [stack : [0 .. StackSize + Slack - 1 -> Values \cup {Null} \cup Int],
            sp : Nat, ap : Nat, fp : Nat, ip : Int]

(* Types.  Cells hold values or saved registers, the registers never drop  *)
(* below the bottom of stack_g, and activations are what was called.       *)
TypeOK ==
  /\ m \in Machine
  /\ acts \in Seq([args : 0 .. MaxArgs + 1, locals : 0 .. MaxLocals,
                   ret : Addresses \cup {NATIVE}, fp : Nat, ap : Nat])
  /\ status \in {"run", "halted", "overflow", "unhandled", "overrun"}

(* "Stack overflowed" (vm/stack.c:51) is reported before anything is       *)
(* written past the end of what stack_init has allocated.  False: BC_CALL  *)
(* and BC_TCALL clear the locals without a look at the size of the stack.  *)
WithinAllocation == status # "overrun"

(* A method with fewer locals than Slack never does that, wherever in a    *)
(* run it is called: the saved registers are pushed with a check, and what *)
(* is allocated beyond the stack has room for the exception slot and them. *)
FewLocalsFit ==
  /\ status = "overrun" => MaxLocals >= Slack
  /\ [][status' = "overrun" =>
          \A n \in 0 .. MaxArgs, l \in 0 .. MaxLocals :
            TailCall(n, l) \/ (\E ret \in Addresses : Call(ret, n, l)) => l >= Slack]_vars

(* The activations that the array represents.  A caller's operands end     *)
(* where the arguments of its callee begin.                                *)
Frame(k) ==
  LET fp  == acts[k].fp
      n   == acts[k].args
      l   == acts[k].locals
      end == IF k = Len(acts) THEN m.sp ELSE acts[k + 1].ap
  IN [ret    |-> m.stack[fp - 3],
      args   |-> [i \in 1 .. n |-> m.stack[fp - 5 - n + i]],
      self   |-> m.stack[fp - 4],
      locals |-> [i \in 1 .. l |-> m.stack[fp + i]],
      ops    |-> [i \in 1 .. end - (fp + 1 + l) |-> m.stack[fp + l + i]]]

Abstract == INSTANCE CallStack WITH frames <- [k \in 1 .. Len(acts) |-> Frame(k)]

(* The macros implement the stack of activations: no call, tail call or    *)
(* return disturbs the arguments, locals, operands or return address of    *)
(* another activation, whatever the numbers of arguments and locals.       *)
ImplementsCallStack == Abstract!Spec

(* The registers that a return or an unwinding will restore are those the *)
(* caller had: the chain of saved fp_g, ap_g and return addresses follows  *)
(* the activations down to vm_call_main, and no frame overlaps another.    *)
SavedRegisters ==
  \A k \in 1 .. Len(acts) :
    /\ acts[k].fp = acts[k].ap + acts[k].args + 4
    /\ m.stack[acts[k].fp - 3] = acts[k].ret
    /\ k > 1 =>
         /\ m.stack[acts[k].fp - 2] = acts[k - 1].ap
         /\ m.stack[acts[k].fp - 1] = acts[k - 1].fp
         /\ acts[k - 1].fp + acts[k - 1].locals < acts[k].ap
    /\ k = Len(acts) => m.fp = acts[k].fp /\ m.ap = acts[k].ap

(* When main has returned the stack holds its result and nothing else, and *)
(* the registers are back where vm_call_main found them.                   *)
BackToStart == status = "halted" => m.sp = 1 /\ m.ap = 0 /\ m.fp = 0 /\ acts = <<>>

=============================================================================

------------------------------ MODULE Machine ------------------------------
(***************************************************************************)
(* The interpreter loop (vm/vm.c, vm_execute_bc) on the bytecodes that     *)
(* arithmetic, control flow, calls and exceptions are made of.             *)
(*                                                                         *)
(* Every instruction has one address, whatever its length: the code only   *)
(* compares addresses and adds the length of an instruction to them.       *)
(* Three native methods stand for all: one returns the next item of an     *)
(* input, one throws, and one, Meta._new, makes an object of a class and   *)
(* runs its constructor k in an interpreter loop of its own.               *)
(***************************************************************************)
EXTENDS FrameOps, Sequences, Operators

CONSTANTS
  Cls,     \* the class of the static methods, their receiver
  Object,  \* what Meta._new allocates
  Header,  \* STACK_HEADER, the base object of a pointer into the stack
  Failure  \* what the throwing native throws

VARIABLES
  prog,    \* the program: code, methods and their exception tables
  m,       \* stack_g and the registers
  thrown,  \* method -> obj_thrown of its exception table
  in,      \* input that has not been read
  out,     \* what has been written
  status,  \* what the loop is doing
  uw,      \* the registers of find_handler_for_exobj and the exception
  loops,   \* the calls of vm_execute_bc that have not returned
  env      \* bc_loop_env_g: the one of them that called setjmp last

nest == <<loops, env>>
vars == <<prog, m, thrown, in, out, status, uw, loops, env>>

Read    == "read"
Fail    == "fail"
MetaNew == "new"
Native  == {Read, Fail, MetaNew}

Instr  == prog.code[m.ip]
At(op) == status = "run" /\ m.ip \in DOMAIN prog.code /\ Instr[1] = op
Arg    == Instr[2]

\* The machine after ip_g has been moved past the instruction.
Past == [m EXCEPT !.ip = m.ip + 1]

ExInfo(meth) == <<"exinfo", meth>>
DPtr(slot)   == <<"dptr", slot>>

Goes(mm) ==
  /\ m' = Clean(mm)
  /\ UNCHANGED <<prog, thrown, status, uw, nest>>

(* vm_call_main.                                                           *)
Boot(p, input) ==
  /\ prog = p /\ in = input /\ out = <<>>
  /\ m = BC_CALL(Push(Push(Start, 1), Cls), p.entry["main"], NATIVE,
                 p.args["main"], p.locals["main"])
  /\ thrown = [meth \in DOMAIN p.entry |-> Null]
  /\ status = "run" /\ uw = Null /\ loops = 1 /\ env = 1

LVBI_C   == At("LVBI_C")   /\ Goes(Push(Past, Arg)) /\ UNCHANGED <<in, out>>
LVBI_ARG == At("LVBI_ARG") /\ Goes(Push(Past, m.stack[m.ap + Arg])) /\ UNCHANGED <<in, out>>

\* A base object and a pointer relative to it; ST takes both.
LABI_ARG ==
  /\ At("LABI_ARG")
  /\ Goes(Push(Push(Past, Header), DPtr(m.ap + Arg)))
  /\ UNCHANGED <<in, out>>
ST ==
  /\ At("ST")
  /\ LET addr == m.stack[m.sp - 2] IN
       Goes(Pop(Pop(Pop([Past EXCEPT !.stack[addr[2]] = Top(m)]))))
  /\ UNCHANGED <<in, out>>

DUP == At("DUP") /\ Goes(Push(Push(Past, m.stack[m.sp - 2]), Top(m))) /\ UNCHANGED <<in, out>>
DR ==
  /\ At("DR")
  /\ Goes(Push(Pop(Pop(Past)), m.stack[Top(m)[2]]))
  /\ UNCHANGED <<in, out>>

\* Operands of the wrong type are a vm_error: the machine stops.
BOP ==
  LET a == m.stack[m.sp - 2]
      b == Top(m)
      Is(res) == Goes(Push(Pop(Pop(Past)), res)) /\ UNCHANGED <<in, out>>
  IN /\ At("BOP")
     /\ \/ {a, b} \subseteq Int /\ ~DividesByZero(Arg, b) /\ Is(bc_bop(Arg, a, b))
        \/ ~({a, b} \subseteq Int) /\ Arg = "==" /\ Is(Truth(a = b))
        \/ ~({a, b} \subseteq Int) /\ Arg = "!=" /\ Is(Truth(a # b))

\* The processor stops the program.
Trap ==
  /\ At("BOP") /\ {m.stack[m.sp - 2], Top(m)} \subseteq Int /\ DividesByZero(Arg, Top(m))
  /\ status' = "trapped"
  /\ UNCHANGED <<prog, m, thrown, in, out, uw, nest>>

UNM == At("UNM") /\ Top(m) \in Int /\ Goes(Push(Pop(Past), -Top(m))) /\ UNCHANGED <<in, out>>
NOT == At("NOT") /\ Goes(Push(Pop(Past), Truth(Top(m) \in {0, Null}))) /\ UNCHANGED <<in, out>>

WRT ==
  /\ At("WRT") /\ Top(m) \in Int
  /\ out' = Append(out, Top(m))
  /\ Goes(Pop(Past)) /\ UNCHANGED in

POP == At("POP") /\ Goes(Pop(Past)) /\ UNCHANGED <<in, out>>

JU == At("JU") /\ Goes([m EXCEPT !.ip = Arg]) /\ UNCHANGED <<in, out>>

\* Mutant: the condition stays on the stack.
IFNJKeeps ==
  /\ At("IFNJ") /\ Top(m) \in Int \cup {Null}
  /\ Goes(IF Top(m) \in {0, Null} THEN [m EXCEPT !.ip = Arg] ELSE Past)
  /\ UNCHANGED <<in, out>>

IFNJ ==
  /\ At("IFNJ") /\ Top(m) \in Int \cup {Null}
  /\ Goes(IF Top(m) \in {0, Null} THEN [Pop(m) EXCEPT !.ip = Arg] ELSE Pop(Past))
  /\ UNCHANGED <<in, out>>

(* CALL pushes THIS and falls through to CALLE, which makes a tail call    *)
(* when the next instruction is a RET.                                     *)
TailPosition == prog.code[m.ip + 1][1] = "RET"
Entered(entry) ==
  LET c == Push(m, This(m)) IN
  IF TailPosition THEN BC_TCALL(c, entry, prog.args[Arg], prog.locals[Arg])
  ELSE BC_CALL(c, entry, m.ip + 1, prog.args[Arg], prog.locals[Arg])

CALL ==
  /\ At("CALL") /\ Arg \notin Native
  /\ Goes(Entered(prog.entry[Arg]))
  /\ UNCHANGED <<in, out>>

(* A native method runs in its frame and ends with BC_RET.                 *)
CallRead ==
  /\ At("CALL") /\ Arg = Read
  /\ LET v == IF in = <<>> THEN 0 ELSE Head(in) IN
       Goes(BC_RET(Push(Entered(NATIVE), v)))
  /\ in' = IF in = <<>> THEN in ELSE Tail(in)
  /\ UNCHANGED out

(* The loop does not look at ip_g after a native method: one called by a    *)
(* tail call of main has returned to NATIVE, which is no address of the    *)
(* code.                                                                   *)
Astray ==
  /\ status = "run" /\ m.ip = NATIVE
  /\ status' = "astray"
  /\ UNCHANGED <<prog, m, thrown, in, out, uw, nest>>

(* meta_new: the constructor runs in a new loop, which sets the environment *)
(* that exceptions of native methods jump to.  Its arguments, the name of  *)
(* the class and those of the constructor, are left out.                   *)
CallNew ==
  /\ At("CALL") /\ Arg = MetaNew
  /\ m' = Clean(BC_CALL(Push(Entered(NATIVE), Object), prog.entry["k"], NATIVE,
                        prog.args["k"], prog.locals["k"]))
  /\ loops' = loops + 1 /\ env' = loops'
  /\ UNCHANGED <<prog, thrown, in, out, status, uw>>

\* A return ends the loop when the caller is native: the program, or a loop in
\* meta_new, which returns what the constructor has returned.
Returns(mm) ==
  /\ \/ mm.ip # NATIVE /\ m' = Clean(mm) /\ UNCHANGED <<loops, status>>
     \/ mm.ip = NATIVE /\ loops = 1 /\ m' = Clean(mm) /\ status' = "halted" /\ UNCHANGED loops
     \/ mm.ip = NATIVE /\ loops > 1 /\ m' = Clean(BC_RET(mm)) /\ loops' = loops - 1
        /\ UNCHANGED status
  /\ UNCHANGED <<prog, thrown, in, out, uw, env>>

RET      == At("RET") /\ Returns(BC_RET(m))
RET_SELF == At("RET_SELF") /\ Returns(BC_RET_SELF(m))

ST_EXINFO ==
  /\ At("ST_EXINFO")
  /\ Goes([Past EXCEPT !.stack[m.fp] = ExInfo(Arg)])
  /\ UNCHANGED <<in, out>>

\* A frame without a table has no exception to load: the code does not test
\* it, the machine stops.
LD_EXOBJ ==
  /\ At("LD_EXOBJ") /\ m.stack[m.fp] # Null
  /\ Goes(Push(Past, thrown[m.stack[m.fp][2]]))
  /\ UNCHANGED <<in, out>>

-----------------------------------------------------------------------------
(* Exceptions.                                                             *)

\* find_handler_for_exobj starts with ret_addr = ip_g + 1.
Throwing(mm, v, native) ==
  /\ m' = mm
  /\ uw' = [regs |-> [mm EXCEPT !.ip = mm.ip + 1], obj |-> v, native |-> native]
  /\ status' = "throwing"
  /\ UNCHANGED <<prog, thrown, in, out, nest>>

THROW == At("THROW") /\ Throwing(Pop(Past), Top(m), FALSE)

(* vm_throw_obj_from_native_ctxt: ip_g is NATIVE, and stays so if nothing  *)
(* handles the exception.                                                  *)
CallFail == At("CALL") /\ Arg = Fail /\ Throwing(Entered(NATIVE), Failure, TRUE)

\* The blocks of the frame being looked at, and those that cover the address
\* before the return address.
Blocks == LET e == uw.regs.stack[uw.regs.fp] IN IF e = Null THEN <<>> ELSE prog.exinfo[e[2]]
Covers(b) == b.try <= uw.regs.ip - 1 /\ uw.regs.ip - 1 < b.catch
Covering  == {i \in DOMAIN Blocks : Covers(Blocks[i])}

UnwindFrame ==
  /\ status = "throwing" /\ Covering = {}
  /\ LET r == Leave(uw.regs) IN
       /\ uw' = [uw EXCEPT !.regs = r]
       /\ status' = IF r.ip = NATIVE THEN "unhandled" ELSE "throwing"
  /\ UNCHANGED <<prog, m, thrown, in, out, nest>>

\* The first block in the table that covers the address.
Handler == Blocks[CHOOSE n \in Covering : \A k \in Covering : n <= k]

\* Mutant: the registers stay those of the method that has thrown.
CatchInPlace ==
  /\ status = "throwing" /\ Covering # {}
  /\ thrown' = [thrown EXCEPT ![uw.regs.stack[uw.regs.fp][2]] = uw.obj]
  /\ m' = [m EXCEPT !.ip = Handler.catch]
  /\ status' = "run" /\ uw' = Null
  /\ UNCHANGED <<prog, in, out, nest>>

\* An exception of a native method goes on with a longjmp, which may be into a
\* call of vm_execute_bc that has returned: there is no telling what happens.
Catch ==
  /\ status = "throwing" /\ Covering # {}
  /\ thrown' = [thrown EXCEPT ![uw.regs.stack[uw.regs.fp][2]] = uw.obj]
  /\ m' = Clean([uw.regs EXCEPT !.ip = Handler.catch])
  /\ status' = IF uw.native /\ env > loops THEN "undefined" ELSE "run"
  /\ uw' = Null
  /\ UNCHANGED <<prog, in, out, nest>>

Next ==
  \/ LVBI_C \/ LVBI_ARG \/ LABI_ARG \/ ST \/ DUP \/ DR
  \/ BOP \/ Trap \/ UNM \/ NOT \/ WRT \/ POP \/ JU \/ IFNJ
  \/ CALL \/ CallRead \/ CallFail \/ CallNew \/ RET \/ RET_SELF \/ Astray
  \/ ST_EXINFO \/ LD_EXOBJ \/ THROW \/ UnwindFrame \/ Catch
=============================================================================

---------------------------- MODULE MCExceptions ----------------------------
(***************************************************************************)
(* Machine on the bytecode that Codegen makes of small programs, compared  *)
(* with what Source says they mean.                                        *)
(***************************************************************************)
EXTENDS Machine, SequencesExt, TLC

CONSTANT Runs(_)   \* a program of these bodies, compiled, with each of its inputs

Inputs == {<<>>, <<1, 0, 1>>, <<1, 1, 0, 1>>}

C == INSTANCE Codegen WITH Nil <- Null
S == INSTANCE Source WITH SrcNil <- Null, SrcFailure <- Failure, SrcObject <- Object

One   == <<"const", 1>>
Arg0  == <<"arg", 0>>
Call(name, args) == <<"call", name, args>>
CallF == Call("f", <<One, Arg0>>)
ReadE == Call("read", <<>>)
FailE == Call("fail", <<>>)
NewE  == <<"void", Call("new", <<>>)>>

\* Statements without a statement in them, and those for a catch block.
Simple ==
  {<<"write", One>>, <<"throw", <<"const", 5>>>>, <<"void", FailE>>,
   <<"void", CallF>>, <<"set", 0, CallF>>, <<"write", <<"bop", "+", One, CallF>>>>,
   <<"return", CallF>>, <<"return", ReadE>>}
InCatch(e) ==
  {<<"write", <<"exobj", e>>>>, <<"throw", <<"exobj", e>>>>, <<"set", 0, CallF>>}

Seq2(a, b)  == <<"seq", <<a, b>>>>
Try(a, e, b) == <<"try", a, e, b>>
Loop(s)     == <<"while", ReadE, s>>

\* Bodies of main: every way to nest two of seq, try and while.
Shapes ==
  LET A == Simple  B == InCatch("e")  D == InCatch("g") IN
  {<<Try(Seq2(a, b), "e", c)>> : a \in A, b \in A, c \in B} \cup
  {<<a, Try(b, "e", c)>> : a \in A, b \in A, c \in B} \cup
  {<<Try(Try(a, "e", b), "g", c)>> : a \in A, b \in B, c \in D} \cup
  {<<Try(a, "e", Try(b, "g", c))>> : a \in A, b \in A, c \in D} \cup
  {<<Try(a, "e", b), Try(c, "g", d)>> : a \in A, b \in B, c \in A, d \in D} \cup
  {<<Loop(Try(a, "e", b))>> : a \in A \cup {<<"break">>}, b \in B \cup {<<"break">>}} \cup
  {<<Try(Loop(Seq2(a, b)), "e", c)>> : a \in A, b \in A \cup {<<"break">>}, c \in B} \cup
  {<<Loop(<<"if", ReadE, Try(a, "e", b), <<"break">>>>)>> : a \in A, b \in B}

\* Those that make objects.
NewShapes ==
  LET A == Simple  B == InCatch("e")  D == InCatch("g") IN
  {<<Try(Seq2(NewE, a), "e", b)>> : a \in A, b \in B} \cup
  {<<NewE, Try(a, "e", b)>> : a \in A, b \in B} \cup
  {<<Try(NewE, "e", b), Try(a, "g", d)>> : a \in A, b \in B, d \in D} \cup
  {<<Loop(Try(Seq2(a, NewE), "e", b))>> : a \in A \cup {<<"break">>}, b \in B}

Main(shape) == Append(shape, <<"write", Arg0>>)

ret == <<"return", <<"arg", 1>>>>

\* Bodies of f.
Fs ==
  {<<ret>>,
   <<<<"if", ReadE, <<"throw", <<"arg", 0>>>>>>, ret>>,
   <<<<"return", FailE>>>>, <<<<"return", ReadE>>>>} \cup
  {<<Try(a, "x", b), ret>> : a \in {<<"throw", <<"const", 7>>>>, <<"void", FailE>>},
                             b \in {<<"write", <<"exobj", "x">>>>, <<"throw", <<"const", 8>>>>}}

\* Those in programs that make objects.
NewFs == {<<ret>>, <<<<"return", FailE>>>>, <<<<"if", ReadE, NewE>>, ret>>}

\* An object made by a tail call, whose value main does not look at.
TailNewF      == <<<<"if", ReadE, <<"return", NewE[2]>>>>, ret>>
TailNewShapes ==
  LET call == <<"void", CallF>>  B == InCatch("e") \ {<<"set", 0, CallF>>} IN
  {<<Try(call, "e", b), call, Try(a, "e", b)>> : a \in {<<"void", FailE>>, call}, b \in B}

\* Bodies of the constructor k.
Ks ==
  {<<<<"write", One>>>>, <<<<"throw", <<"const", 6>>>>>>,
   <<<<"if", ReadE, NewE>>, <<"write", One>>>>,
   <<<<"if", ReadE, Seq2(NewE, <<"void", FailE>>)>>>>,
   <<Try(Seq2(<<"void", FailE>>, <<"write", One>>), "y", <<"write", <<"exobj", "y">>>>)>>,
   <<Try(<<"if", ReadE, NewE, <<"throw", One>>>>, "y", <<"write", <<"exobj", "y">>>>), <<"void", FailE>>>>,
   <<Try(<<"void", Call("f", <<One, One>>)>>, "y", <<"throw", <<"exobj", "y">>>>)>>}

MCRuns(bodies) ==
  LET p == C!Program(bodies, bodies)
  IN {[input |-> i, means |-> S!Outcome(bodies, i, {"e", "g", "x", "y"})] @@ p : i \in Inputs}

Starts(bodies) == \E p \in Runs(bodies) : Boot(p, p.input)

MCInit ==
  \/ \E s \in Shapes, f \in Fs : Starts(<<Main(s), f>>)
  \/ \E s \in NewShapes, f \in NewFs, k \in Ks : Starts(<<Main(s), f, k>>)
  \/ \E s \in TailNewShapes, k \in Ks : Starts(<<Main(s), TailNewF, k>>)

Done == status \in {"halted", "unhandled", "astray", "undefined"}

\* A program stops only when it is done: anything else is a deadlock.
Terminating == Done /\ UNCHANGED vars
MCNext == Next \/ Terminating
MCSpec == MCInit /\ [][MCNext]_vars

-----------------------------------------------------------------------------
(* Properties.                                                             *)

Outcome == [status |-> status, out |-> out]

TryBlocks == UNION {{prog.exinfo[x][i] : i \in DOMAIN prog.exinfo[x]} : x \in DOMAIN prog.exinfo}
TailCall(a)   == prog.code[a][1] = "CALL" /\ prog.code[a + 1] = <<"RET">>

\* A throw right before a try block.
EarlyThrow ==
  \E b \in TryBlocks : b.try - 1 \in DOMAIN prog.code /\ prog.code[b.try - 1] = <<"THROW">>

\* A tail call in a try block.
LostHandler == \E b \in TryBlocks : \E a \in b.try .. b.catch - 1 : TailCall(a)

\* A native method called by a tail call of main, or of a method that main
\* has made a tail call to.
NativeTail ==
  \E a \in 1 .. Len(prog.code) - 1 :
    /\ TailCall(a) /\ prog.code[a][2] \in Native
    /\ a < prog.entry.f \/ \E c \in 1 .. prog.entry.f - 2 : TailCall(c)

\* An exception in a constructor called by Meta._new is not seen outside of it: the
\* search for a handler ends at the native method.
LeavesConstructor == prog.means.crossed

\* A native method has thrown after such a constructor has ended, and with it the
\* loop that called setjmp last.
JumpsToEndedLoop == prog.means.late

SoFar == IsPrefix(out, prog.means.ends.out)

(* The machine does what the source says: the same output, and an          *)
(* exception is unhandled in the same cases - for all programs but those   *)
(* with a throw right before a try block, a tail call in one, or a native  *)
(* method in place of main; and, up to there, for those that throw out of  *)
(* a constructor called by a native method or after one.                   *)
Agrees ==
  Done /\ ~EarlyThrow /\ ~LostHandler /\ ~NativeTail =>
    \/ Outcome = prog.means.ends
    \/ status = "unhandled" /\ LeavesConstructor /\ SoFar
    \/ status = "undefined" /\ JumpsToEndedLoop /\ SoFar

(* "Check if we are inside a try block" (vm/vm.c:1375): an exception is    *)
(* handled only by a try that the throw is inside of.                      *)
ThrowAgrees ==
  Done /\ ~LostHandler /\ ~NativeTail /\ ~LeavesConstructor /\ ~JumpsToEndedLoop =>
    Outcome = prog.means.ends

\* The method that owns an address.
Owner(a) ==
  CHOOSE x \in DOMAIN prog.entry : prog.entry[x] <= a /\
    \A y \in DOMAIN prog.entry : prog.entry[y] <= a => prog.entry[y] <= prog.entry[x]

(* The registers fit the program counter: the frame that fp_g points to is  *)
(* one of the method whose code is executed, after any number of calls,    *)
(* tail calls, returns and unwindings.                                     *)
FrameMatchesCode ==
  status = "run" /\ m.ip # NATIVE /\ m.stack[m.fp] # Null =>
    m.stack[m.fp] = ExInfo(Owner(m.ip))

(* A method that has caught nothing returns with its value as the only     *)
(* operand: every statement, left by whatever jump, takes from the stack   *)
(* what it has put there.  (A handler finds what the expression that threw *)
(* has left, vm/vm.c:1411.)                                                *)
Balanced ==
  (At("RET") \/ At("RET_SELF")) /\ thrown[Owner(m.ip)] = Null =>
    m.sp = m.fp + 1 + prog.locals[Owner(m.ip)] + IF At("RET") THEN 1 ELSE 0

(* The search for a handler ends: find_handler_for_exobj leaves a frame    *)
(* for one that lies below it, until it finds a handler or main's caller.  *)
SearchDescends ==
  [][status = "throwing" /\ status' = "throwing" => uw'.regs.fp < uw.regs.fp]_vars

=============================================================================

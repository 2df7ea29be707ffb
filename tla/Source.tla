------------------------------- MODULE Source -------------------------------
(***************************************************************************)
(* What a program means in the source language: an evaluator of the        *)
(* statements of Codegen that knows nothing of addresses, stacks or        *)
(* tables.  An exception is handled by the innermost try whose first block *)
(* is being executed, in this activation or in one that called it, and     *)
(* its variable keeps the exception it has caught.                         *)
(***************************************************************************)
EXTENDS Operators

CONSTANTS SrcNil, SrcFailure, SrcObject

\* st: [in, out, args, exn, made, late, crossed] - input, output, arguments,
\* exception variables; whether the last constructor that Meta._new has called has
\* ended; whether a native method has thrown after that; whether an exception has
\* left such a constructor.  The last three are for those who compare.
\* A result says how an expression or a statement ended and with what value.
Ends(how, v, st) == [how |-> how, v |-> v, st |-> st]

IsFalse(v) == v \in {0, SrcNil}

\* Both operands are evaluated whatever the operator; only numbers are added up.
Operate(op, a, b, st) ==
  IF ~({a, b} \subseteq Int) THEN Ends("value", Truth((a = b) = (op = "==")), st)
  ELSE IF DividesByZero(op, b) THEN Ends("trap", 0, st)
  ELSE Ends("value", bc_bop(op, a, b), st)

RECURSIVE Eval(_, _, _), Exec(_, _, _), EvalArgs(_, _, _, _), ExecSeq(_, _, _)
RECURSIVE Matches(_, _, _, _), ExecCase(_, _, _, _), ExecLoop(_, _, _, _, _)

EvalArgs(es, vs, st, ms) ==
  IF es = <<>> THEN Ends("value", vs, st)
  ELSE LET r == Eval(Head(es), st, ms) IN
       IF r.how # "value" THEN r ELSE EvalArgs(Tail(es), Append(vs, r.v), r.st, ms)

\* ms holds the bodies of the methods f and k.
Eval(e, st, ms) ==
  CASE e[1] = "const" -> Ends("value", e[2], st)
    [] e[1] = "arg"   -> Ends("value", st.args[e[2] + 1], st)
    [] e[1] = "exobj" -> Ends("value", st.exn[e[2]], st)
    [] e[1] = "bop"   ->
         LET r == EvalArgs(<<e[3], e[4]>>, <<>>, st, ms)
         IN IF r.how # "value" THEN r ELSE Operate(e[2], r.v[1], r.v[2], r.st)
    [] e[1] \in {"neg", "not"} ->
         LET r == Eval(e[2], st, ms)
         IN IF r.how # "value" THEN r
            ELSE Ends("value", IF e[1] = "neg" THEN -r.v ELSE Truth(IsFalse(r.v)), r.st)
    [] e[1] = "call"  ->
         LET r == EvalArgs(e[3], <<>>, st, ms) IN
         IF r.how # "value" THEN r
         ELSE IF e[2] = "fail" THEN
                Ends("throw", SrcFailure, [r.st EXCEPT !.late = @ \/ r.st.made])
         ELSE IF e[2] = "new" THEN
                LET x == ExecSeq(ms.k, [r.st EXCEPT !.args = <<>>, !.made = FALSE], ms)
                    back == [x.st EXCEPT !.args = r.st.args, !.exn = r.st.exn, !.made = TRUE,
                                         !.crossed = @ \/ x.how = "throw"]
                IN IF x.how = "next" THEN Ends("value", SrcObject, back) ELSE Ends(x.how, x.v, back)
         ELSE IF e[2] = "read" THEN
                IF r.st.in = <<>> THEN Ends("value", 0, r.st)
                ELSE Ends("value", Head(r.st.in), [r.st EXCEPT !.in = Tail(@)])
         ELSE LET x == ExecSeq(ms.f, [r.st EXCEPT !.args = r.v], ms)
                  back == [x.st EXCEPT !.args = r.st.args, !.exn = r.st.exn]
              IN IF x.how = "next" THEN Ends("value", SrcNil, back)
                 ELSE IF x.how = "return" THEN Ends("value", x.v, back)
                 ELSE Ends(x.how, x.v, back)

ExecSeq(ss, st, ms) ==
  IF ss = <<>> THEN Ends("next", 0, st)
  ELSE LET r == Exec(Head(ss), st, ms) IN
       IF r.how = "next" THEN ExecSeq(Tail(ss), r.st, ms) ELSE r

\* Whether one of these scopes holds the value.
Matches(v, scopes, st, ms) ==
  IF scopes = <<>> THEN Ends("value", FALSE, st)
  ELSE LET scope == Head(scopes)
           r == IF scope[1] = "eq" THEN Eval(scope[2], st, ms) ELSE Ends("value", 0, st)
           holds == CASE scope[1] = "else"  -> TRUE
                      [] scope[1] = "eq"    -> r.v = v
                      [] scope[1] = "range" -> scope[2][2] <= v /\ v <= scope[3][2]
       IN IF r.how # "value" THEN r
          ELSE IF holds THEN Ends("value", TRUE, r.st) ELSE Matches(v, Tail(scopes), r.st, ms)

\* The first block with a scope that holds the value, which is computed once.
ExecCase(v, blocks, st, ms) ==
  IF blocks = <<>> THEN Ends("next", 0, st)
  ELSE LET r == Matches(v, Head(blocks).scopes, st, ms) IN
       IF r.how # "value" THEN r
       ELSE IF r.v THEN Exec(Head(blocks).body, r.st, ms)
       ELSE ExecCase(v, Tail(blocks), r.st, ms)

ExecLoop(c, body, step, st, ms) ==
  LET r == Eval(c, st, ms) IN
  IF r.how # "value" THEN r
  ELSE IF IsFalse(r.v) THEN Ends("next", 0, r.st)
  ELSE LET b == ExecSeq(<<body, step>>, r.st, ms) IN
       IF b.how = "next" THEN ExecLoop(c, body, step, b.st, ms)
       ELSE IF b.how = "break" THEN Ends("next", 0, b.st)
       ELSE b

\* The expression that a simple statement begins with.
Value(s) ==
  CASE s[1] = "set"   -> s[3]
    [] s[1] = "setop" -> <<"bop", s[2], <<"arg", s[3]>>, s[4]>>
    [] OTHER          -> s[2]

Exec(s, st, ms) ==
  CASE s[1] = "seq"   -> ExecSeq(s[2], st, ms)
    [] s[1] = "break" -> Ends("break", 0, st)
    [] s[1] = "try"   ->
         LET r == Exec(s[2], st, ms) IN
         IF r.how # "throw" THEN r ELSE Exec(s[4], [r.st EXCEPT !.exn[s[3]] = r.v], ms)
    [] s[1] = "while" -> ExecLoop(s[2], s[3], <<"seq", <<>>>>, st, ms)
    [] s[1] = "for"   ->
         LET r == Exec(s[2], st, ms)
         IN IF r.how # "next" THEN r ELSE ExecLoop(s[3], s[5], s[4], r.st, ms)
    [] OTHER ->
         LET r == Eval(Value(s), st, ms) IN
         IF r.how # "value" THEN r
         ELSE CASE s[1] = "write"  -> Ends("next", 0, [r.st EXCEPT !.out = Append(@, r.v)])
                [] s[1] = "void"   -> Ends("next", 0, r.st)
                [] s[1] = "set"    -> Ends("next", 0, [r.st EXCEPT !.args[s[2] + 1] = r.v])
                [] s[1] = "setop"  -> Ends("next", 0, [r.st EXCEPT !.args[s[3] + 1] = r.v])
                [] s[1] = "throw"  -> Ends("throw", r.v, r.st)
                [] s[1] = "return" -> Ends("return", r.v, r.st)
                [] s[1] = "if"     ->
                     IF ~IsFalse(r.v) THEN Exec(s[3], r.st, ms)
                     ELSE IF Len(s) = 4 THEN Exec(s[4], r.st, ms)
                     ELSE Ends("next", 0, r.st)
                [] s[1] = "case"   -> ExecCase(r.v, s[3], r.st, ms)

(* The outcome of a program of these bodies, of main, f and k: how it ends *)
(* and what it has written.                                                *)
Outcome(bodies, input, exvars) ==
  LET ms == [f |-> bodies[2], k |-> IF Len(bodies) > 2 THEN bodies[3] ELSE <<>>]
      st == [in |-> input, out |-> <<>>, args |-> <<1>>, exn |-> [x \in exvars |-> 0],
             made |-> FALSE, late |-> FALSE, crossed |-> FALSE]
      r  == ExecSeq(bodies[1], st, ms)
  IN [ends    |-> [status |-> CASE r.how = "throw" -> "unhandled" [] r.how = "trap" -> "trapped"
                                [] OTHER -> "halted",
                   out |-> r.st.out],
      late    |-> r.st.late,
      crossed |-> r.st.crossed]
=============================================================================

--------------------------------- MODULE Parser ---------------------------------
(***************************************************************************)
(* The parser (compiler/parser.cpp), by recursive descent over a sequence  *)
(* of tokens.  A token is <<type>> or <<type, value>>; that of a name      *)
(* carries what the name has been declared as, and METHOD stands for the   *)
(* head of a method.                                                       *)
(*                                                                         *)
(* A nonterminal gives [n, p]: the node and the place of the next token.   *)
(* The ways to end without a tree are places too, where no token is.       *)
(***************************************************************************)
EXTENDS Optimizer

CONSTANT Nil

Rejected == -1   \* a message and exit(1)
Overflow == -2   \* the recursion of ZbPrikazu consumes nothing and does not end
Crashed  == -3   \* Optimize, called on parts of the tree, has crashed

At(n, p) == [n |-> n, p |-> p]
Symb(ts, p) == IF p > 0 THEN ts[p][1] ELSE "none"

Fail(p, why) == IF p < 0 THEN p ELSE why
Srovnani(ts, p, type) == IF Symb(ts, p) = type THEN p + 1 ELSE Fail(p, Rejected)
skipNewlines(ts, p) == IF Symb(ts, p) = "NEWLINE" THEN p + 1 ELSE p

----------------------------------------------------------------------------
(* Expressions.                                                            *)

RECURSIVE Operand(_, _, _), Operations(_, _, _), ZbTermu(_, _), Faktor(_, _), Args(_, _, _)

Vyraz(ts, p) == Operand(ts, 1, p)

Bop(ts, left, right) == At(<<"bop", Symb(ts, left.p), left.n, right.n>>, right.p)

\* Vyraz, LOrTerm, XorTerm, ..., Term: an operand of the operators that bind less.
Operand(ts, l, p) ==
  IF l = Len(Levels) THEN ZbTermu(ts, Faktor(ts, p)) ELSE Operations(ts, l, Operand(ts, l + 1, p))

\* Mutant: operators of one level group to the right.
OperationsRight(ts, l, left) ==
  IF Symb(ts, left.p) \notin Levels[l] THEN left
  ELSE Bop(ts, left, Operand(ts, l, left.p + 1))

\* ZbVyrazu, ZbLOrTermu, ...: the operators of a level, from left to right.
Operations(ts, l, left) ==
  IF Symb(ts, left.p) \notin Levels[l] THEN left
  ELSE Operations(ts, l, Bop(ts, left, Operand(ts, l + 1, left.p + 1)))

\* After a division the parser goes on as after a whole expression.
ZbTermu(ts, left) ==
  LET both == Bop(ts, left, Faktor(ts, left.p + 1)) IN
  CASE Symb(ts, left.p) = "*"          -> ZbTermu(ts, both)
    [] Symb(ts, left.p) \in {"/", "%"} -> Operations(ts, 1, both)
    [] OTHER                           -> left

\* The rest of a list of arguments, es being those before.
Args(ts, p, es) ==
  IF Symb(ts, p) = ")" \/ p < 0 THEN At(es, p)
  ELSE LET a == Vyraz(ts, IF es = <<>> THEN p ELSE Srovnani(ts, p, ","))
       IN Args(ts, a.p, Append(es, a.n))

\* Ident: a call or a variable.
Ident(ts, p) ==
  IF Symb(ts, p + 1) # "(" THEN At(ts[p][2], p + 1)
  ELSE LET args == Args(ts, p + 2, <<>>)
       IN At(<<"call", ts[p][2], args.n>>, Srovnani(ts, args.p, ")"))

Faktor(ts, p) ==
  CASE Symb(ts, p) = "-" -> LET e == Faktor(ts, p + 1) IN At(<<"neg", e.n>>, e.p)
    [] Symb(ts, p) = "!" -> LET e == Faktor(ts, p + 1) IN At(<<"not", e.n>>, e.p)
    [] Symb(ts, p) = "IDENT" -> Ident(ts, p)
    [] Symb(ts, p) = "NUMB"  -> At(Numb(ts[p][2]), p + 1)
    [] Symb(ts, p) = "nil"   -> At(<<"const", Nil>>, p + 1)
    [] Symb(ts, p) = "("     -> LET e == Vyraz(ts, p + 1) IN At(e.n, Srovnani(ts, e.p, ")"))
    [] OTHER -> At(Empty, Fail(p, Rejected))

InParens(ts, p) ==
  LET e == Vyraz(ts, Srovnani(ts, p, "(")) IN At(e.n, Srovnani(ts, e.p, ")"))

----------------------------------------------------------------------------
(* Statements.  cycle says whether the context is that of a loop.          *)

RECURSIVE Prikaz(_, _, _), ZbPrikazu(_, _, _, _), CASE_SCOPE(_, _, _), CASE_BODY(_, _, _)

Assignment(ts, p) ==
  LET i == ts[p][2][2]
      e == Vyraz(ts, p + 2)
  IN CASE Symb(ts, p) # "IDENT"   -> At(Empty, Fail(p, Rejected))
       [] Symb(ts, p + 1) = "="   -> At(<<"set", i, e.n>>, e.p)
       [] Symb(ts, p + 1) = "op=" -> At(<<"setop", ts[p + 1][2], i, e.n>>, e.p)
       [] Symb(ts, p + 1) = "++"  -> At(<<"setop", "+", i, Numb(1)>>, p + 2)
       [] OTHER -> At(Empty, Rejected)

AssignmentOrCall(ts, p) ==
  IF Symb(ts, p + 1) # "(" THEN Assignment(ts, p)
  ELSE LET call == Ident(ts, p) IN At(<<"void", call.n>>, call.p)

CastElse(ts, p0, cycle) ==
  LET p == skipNewlines(ts, p0)
  IN IF Symb(ts, p) = "else" THEN Prikaz(ts, p + 1, cycle) ELSE At(NoNode, p)

SlozPrikaz(ts, p, cycle) ==
  LET first == Prikaz(ts, Srovnani(ts, p, "{"), cycle)
      rest  == ZbPrikazu(ts, first.p, cycle, <<first.n>>)
  IN At(<<"seq", rest.n>>, Srovnani(ts, rest.p, "}"))

\* Prikaz takes a token it does not know for an empty statement, and leaves it there.
ZbPrikazu(ts, p, cycle, ss) ==
  LET q == IF Symb(ts, p) \in {";", "NEWLINE"} THEN p + 1 ELSE p
      s == Prikaz(ts, q, cycle)
  IN IF p < 0 \/ Symb(ts, q) = "}" THEN At(ss, q)
     ELSE IF s.p = p THEN At(ss, Overflow)
     ELSE ZbPrikazu(ts, s.p, cycle, Append(ss, s.n))

\* The alternatives of a case; a number may begin a range.
CASE_SCOPE(ts, p, scopes) ==
  LET e    == Vyraz(ts, p)
      lo   == OptimizeExpr(e.n)
      to   == Vyraz(ts, e.p + 1)
      hi   == OptimizeExpr(to.n)
      next == IF IsNumb(lo) /\ Symb(ts, e.p) = ".."
              THEN At(<<"range", lo, hi>>, IF hi = Crash THEN Fail(to.p, Crashed)
                                           ELSE IF IsNumb(hi) THEN to.p ELSE Fail(to.p, Rejected))
              ELSE At(<<"eq", lo>>, IF lo = Crash THEN Fail(e.p, Crashed) ELSE e.p)
      all  == Append(scopes, next.n)
  IN CASE Symb(ts, next.p) = ":" -> At(all, next.p + 1)
       [] Symb(ts, next.p) = "," -> CASE_SCOPE(ts, next.p + 1, all)
       [] OTHER -> At(all, Fail(next.p, Rejected))

\* A brace instead of a default is left where it is.
CASE_BODY(ts, p0, blocks) ==
  LET p      == skipNewlines(ts, p0)
      scope  == IF Symb(ts, p) = "case" THEN CASE_SCOPE(ts, p + 1, <<>>)
                ELSE At(<<<<"else">>>>, Srovnani(ts, p + 1, ":"))
      body   == Prikaz(ts, scope.p, FALSE)
      q      == IF Symb(ts, body.p) = ";" THEN body.p + 1 ELSE Srovnani(ts, body.p, "NEWLINE")
      all    == Append(blocks, [scopes |-> scope.n, body |-> body.n])
  IN CASE Symb(ts, p) = "case"    -> CASE_BODY(ts, q, all)
       [] Symb(ts, p) = "default" -> At(all, Srovnani(ts, q, "}"))
       [] Symb(ts, p) = "}"       -> At(Append(blocks, [scopes |-> <<>>, body |-> NoNode]), p)
       [] OTHER -> At(blocks, Fail(p, Rejected))

While(ts, p) ==
  LET c == InParens(ts, p)
      body == Prikaz(ts, c.p, TRUE)
  IN At(<<"while", c.n, body.n>>, body.p)

For(ts, p) ==
  LET var  == Srovnani(ts, p, "(")
      init == Vyraz(ts, Srovnani(ts, Srovnani(ts, var, "IDENT"), "="))
      c    == Vyraz(ts, Srovnani(ts, init.p, ";"))
      step == Assignment(ts, Srovnani(ts, c.p, ";"))
      body == Prikaz(ts, Srovnani(ts, step.p, ")"), TRUE)
  IN At(<<"for", <<"set", ts[var][2][2], init.n>>, c.n, step.n, body.n>>, body.p)

Try(ts, p, cycle) ==
  LET try   == Prikaz(ts, p, cycle)
      name  == Srovnani(ts, Srovnani(ts, skipNewlines(ts, try.p), "catch"), "(")
      catch == Prikaz(ts, Srovnani(ts, Srovnani(ts, name, "IDENT"), ")"), cycle)
  IN At(<<"try", try.n, IF name > 0 THEN ts[name][2][2] ELSE 0, catch.n>>, catch.p)

Prikaz(ts, p0, cycle) ==
  LET p == skipNewlines(ts, p0)
      s == Symb(ts, p)
      e == Vyraz(ts, p + 1)
  IN CASE s = "return" /\ Symb(ts, p + 1) \in {";", "NEWLINE"} ->
            At(<<"return", <<"const", Nil>>>>, p + 2)
       [] s \in {"write", "throw"} \/ (s = "return" /\ Symb(ts, p + 1) \notin {";", "NEWLINE"}) ->
            At(<<s, e.n>>, e.p)
       [] s = "IDENT" -> AssignmentOrCall(ts, p)
       [] s = "if" ->
            LET c == InParens(ts, p + 1)
                then == Prikaz(ts, c.p, cycle)
                else == CastElse(ts, then.p, cycle)
            IN At(If(c.n, then.n, else.n), else.p)
       [] s = "while" -> While(ts, p + 1)
       [] s = "for"   -> For(ts, p + 1)
       [] s = "break" -> At(<<"break">>, IF cycle THEN p + 1 ELSE Rejected)
       [] s = "switch" ->
            LET sel == InParens(ts, p + 1)
                body == CASE_BODY(ts, Srovnani(ts, sel.p, "{"), <<>>)
            IN At(<<"case", sel.n, body.n>>, body.p)
       [] s = "try" -> Try(ts, p + 1, cycle)
       [] s = "{"   -> SlozPrikaz(ts, p, cycle)
       [] OTHER     -> At(Empty, p)

----------------------------------------------------------------------------
(* A program of one class.                                                 *)

RECURSIVE ZbMetod(_, _, _)
ZbMetod(ts, p0, methods) ==
  LET p == skipNewlines(ts, p0)
      body == SlozPrikaz(ts, p + 1, FALSE)
  IN CASE Symb(ts, p) = "}" -> At(methods, p + 1)
       [] Symb(ts, p) = "METHOD" -> ZbMetod(ts, body.p, Append(methods, body.n))
       [] OTHER -> At(methods, Fail(p, Rejected))

\* The bodies of its methods, and whether there is a tree.
Program(ts) ==
  LET class == ZbMetod(ts, Srovnani(ts, Srovnani(ts, 1, "CLASS"), "{"), <<>>)
      end   == Srovnani(ts, skipNewlines(ts, class.p), "EOI")
  IN [bodies |-> class.n,
      how |-> CASE end = Rejected -> "rejected" [] end = Overflow -> "overflow"
                [] end = Crashed -> "crashed" [] OTHER -> "tree"]

=============================================================================

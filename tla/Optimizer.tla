------------------------------- MODULE Optimizer -------------------------------
(***************************************************************************)
(* The compiler's rewriting of the tree (compiler/strom.cpp, the Optimize  *)
(* methods): constants are folded and branches never taken are dropped.    *)
(* The nodes are those of Codegen.  NoNode stands where a method returns   *)
(* NULL, Crash for the end of the compiler.                                *)
(***************************************************************************)
EXTENDS Operators, SequencesExt

NoNode == <<"null">>
Crash  == <<"crash">>
Empty  == <<"empty">>

\* A node with these children, unless the compiler has crashed on one of them.
Node(n, children) == IF \E i \in DOMAIN children : children[i] = Crash THEN Crash ELSE n

Numb(n)    == <<"const", n>>
IsNumb(e)  == e[1] = "const" /\ e[2] \in Int
IsFalse(e) == IsNumb(e) /\ e[2] = 0

Unary(op, a) == IF op = "neg" THEN -a ELSE Truth(a = 0)

\* Mutant: >= is folded as >.
FoldStrict(op, a, b) ==
  IF DividesByZero(op, b) THEN Crash ELSE Numb(bc_bop(IF op = ">=" THEN ">" ELSE op, a, b))

\* A division by zero ends the compiler.
Fold(op, a, b) == IF DividesByZero(op, b) THEN Crash ELSE Numb(bc_bop(op, a, b))

RECURSIVE OptimizeExpr(_)

\* UnMinus and Not drop the node their operand has become: a number is folded
\* only if it has been one before, otherwise its memory is used after it is freed.
OptimizeUnary(e) ==
  LET x == OptimizeExpr(e[2]) IN
  IF IsNumb(e[2]) THEN Numb(Unary(e[1], e[2][2]))
  ELSE IF IsNumb(x) THEN Crash
  ELSE Node(<<e[1], x>>, <<x>>)

OptimizeExpr(e) ==
  CASE e[1] = "bop" ->
         LET l == OptimizeExpr(e[3])
             r == OptimizeExpr(e[4])
         IN IF IsNumb(l) /\ IsNumb(r) THEN Fold(e[2], l[2], r[2])
            ELSE Node(<<"bop", e[2], l, r>>, <<l, r>>)
    [] e[1] \in {"neg", "not"} -> OptimizeUnary(e)
    [] e[1] = "call" ->
         LET args == [i \in DOMAIN e[3] |-> OptimizeExpr(e[3][i])]
         IN Node(<<"call", e[2], args>>, args)
    [] OTHER -> e

----------------------------------------------------------------------------
(* Statements.  A scope of a case is <<"else">>, <<"eq", e>> or            *)
(* <<"range", lo, hi>> with two numbers.                                   *)

\* Mutant: an else that is not there is translated.
IfAlways(c, then, else) == <<"if", c, then, else>>

If(c, then, else) == IF else = NoNode THEN <<"if", c, then>> ELSE <<"if", c, then, else>>

Decides(scope, v) ==
  CASE scope[1] = "else"  -> TRUE
    [] scope[1] = "eq"    -> IsNumb(scope[2]) /\ scope[2][2] = v
    [] scope[1] = "range" -> scope[2][2] <= v /\ v <= scope[3][2]

\* Ranges of one number become numbers.  Those that hold none are unlinked, but not
\* one that comes after such a one at the head of the list.
Simplified(scopes) ==
  LET holds(i)   == scopes[i][1] # "range" \/ scopes[i][2][2] <= scopes[i][3][2]
      removed(i) == ~holds(i) /\ (i = 1 \/ \E j \in 1 .. i - 1 : holds(j))
      simple(s)  == IF s[1] = "range" /\ s[2] = s[3] THEN <<"eq", s[2]>> ELSE s
      kept       == SetToSortSeq({i \in DOMAIN scopes : ~removed(i)}, LAMBDA i, j : i < j)
  IN [k \in DOMAIN kept |-> simple(scopes[kept[k]])]

RECURSIVE Optimize(_)

\* A constant selector picks its block; scopes that are no constants never match then.
OptimizeCase(sel, blocks) ==
  LET hits == {i \in DOMAIN blocks : \E k \in DOMAIN blocks[i].scopes :
                                       Decides(blocks[i].scopes[k], sel[2])}
      bodies == [i \in DOMAIN blocks |->
                   IF blocks[i].body = NoNode THEN NoNode ELSE Optimize(blocks[i].body)]
  IN IF IsNumb(sel) THEN
       IF hits = {} THEN Empty
       ELSE LET body == Optimize(blocks[Min(hits)].body)
            IN IF body = NoNode THEN Empty ELSE Node(<<"seq", <<body>>>>, <<body>>)
     ELSE Node(<<"case", sel, [i \in DOMAIN blocks |->
                   [scopes |-> Simplified(blocks[i].scopes), body |-> bodies[i]]]>>,
               <<sel>> \o bodies)

Optimize(s) ==
  CASE s[1] \in {"write", "void", "throw", "return"} ->
         LET e == OptimizeExpr(s[2]) IN Node(<<s[1], e>>, <<e>>)
    [] s[1] = "set" -> LET e == OptimizeExpr(s[3]) IN Node(<<"set", s[2], e>>, <<e>>)
    [] s[1] = "setop" -> LET e == OptimizeExpr(s[4]) IN Node(<<"setop", s[2], s[3], e>>, <<e>>)
    [] s[1] = "seq" ->
         LET ss == [i \in DOMAIN s[2] |-> Optimize(s[2][i])] IN Node(<<"seq", ss>>, ss)
    [] s[1] = "if" ->
         LET c == OptimizeExpr(s[2])
             then == Optimize(s[3])
             else == IF Len(s) = 4 THEN Optimize(s[4]) ELSE NoNode
         IN Node(IF ~IsNumb(c) THEN If(c, then, else) ELSE IF IsFalse(c) THEN else ELSE then,
                 <<c, then, else>>)
    [] s[1] = "while" ->
         LET c == OptimizeExpr(s[2])
             body == Optimize(s[3])
         IN Node(IF IsFalse(c) THEN Empty ELSE <<"while", c, body>>, <<c, body>>)
    [] s[1] = "for" ->
         LET c == OptimizeExpr(s[3])
             body == Optimize(s[5])
         IN Node(IF IsFalse(c) THEN Empty ELSE <<"for", s[2], c, s[4], body>>, <<c, body>>)
    [] s[1] = "try" ->
         LET a == Optimize(s[2])
             b == Optimize(s[4])
         IN Node(<<"try", a, s[3], b>>, <<a, b>>)
    [] s[1] = "case" ->
         LET sel == OptimizeExpr(s[2]) IN IF sel = Crash THEN Crash ELSE OptimizeCase(sel, s[3])
    [] OTHER -> s

=============================================================================

------------------------------ MODULE Codegen ------------------------------
(***************************************************************************)
(* The compiler's translation of statements to bytecode                    *)
(* (compiler/strom.cpp, the Translate methods; compiler/bcout.cpp).        *)
(*                                                                         *)
(* An expression is <<"const", n>>, <<"arg", i>>, <<"exobj", name>>,       *)
(* <<"bop", op, e1, e2>>, <<"neg", e>>, <<"not", e>> or                    *)
(* <<"call", method, arguments>>; a statement is <<"write", e>>,           *)
(* <<"void", call>>, <<"set", i, e>>, <<"setop", op, i, e>>, <<"throw", e>>, *)
(* <<"return", e>>, <<"self">> (the return of a constructor), <<"break">>,  *)
(* <<"empty">>, <<"seq", statements>>,                                     *)
(* <<"if", e, s1>>, <<"if", e, s1, s2>>, <<"while", e, s>>,                *)
(* <<"for", s1, e, s2, s3>>, <<"try", s1, name, s2>> or                    *)
(* <<"case", e, blocks>>, whose blocks have scopes and a body.  Where the  *)
(* optimiser has left no node, <<"null">>, the compiler crashes.           *)
(***************************************************************************)
EXTENDS Integers, Sequences, SequencesExt, TLC

CONSTANT Nil   \* the constant nil

RECURSIVE Expr(_)
Expr(e) ==
  CASE e[1] = "const" -> <<<<"LVBI_C", e[2]>>>>
    [] e[1] = "arg"   -> <<<<"LVBI_ARG", e[2]>>>>
    [] e[1] = "exobj" -> <<<<"LD_EXOBJ">>>>
    [] e[1] = "bop"   -> Expr(e[3]) \o Expr(e[4]) \o <<<<"BOP", e[2]>>>>
    [] e[1] = "neg"   -> Expr(e[2]) \o <<<<"UNM">>>>
    [] e[1] = "not"   -> Expr(e[2]) \o <<<<"NOT">>>>
    [] e[1] = "call"  -> FlattenSeq([i \in DOMAIN e[3] |-> Expr(e[3][i])])
                           \o <<<<"CALL", e[2]>>>>

\* Targets of jumps that are patched when they are known: the end of a loop, the
\* block of a case, the end of a case.
BRK   == -1
BLOCK == -2
FINAL == -3
Patch(code, mark, target) ==
  [i \in DOMAIN code |-> IF code[i] \in {<<"JU", mark>>, <<"IFNJ", mark>>}
                         THEN <<code[i][1], target>> ELSE code[i]]

\* [code, ex]: the instructions of a statement that is put at an address, and
\* the try blocks in it, in the order of bco_exinfo_add_block.
Plain(code) == [code |-> code, ex |-> <<>>]

\* Mutant: the outer block of two nested ones is listed first.
AddBlockFirst(inner, block) == <<block>> \o inner

\* bco_exinfo_add_block is called when both blocks have been translated.
AddBlock(inner, block) == Append(inner, block)

\* The test of a scope: it goes to the block, or on to the next one.
ScopeTest(sel, scope, at) ==
  CASE scope[1] = "else" -> <<<<"JU", BLOCK>>>>
    [] scope[1] = "eq"   -> Expr(<<"bop", "!=", sel, scope[2]>>) \o <<<<"IFNJ", BLOCK>>>>
    [] scope[1] = "range" ->
         LET lo == Expr(<<"bop", ">=", sel, scope[2]>>)
             hi == Expr(<<"bop", ">", sel, scope[3]>>)
         IN lo \o <<<<"IFNJ", at + Len(lo) + 1 + Len(hi) + 1>>>> \o hi \o <<<<"IFNJ", BLOCK>>>>

Tests(sel, scopes, at) ==
  FoldLeft(LAMBDA code, scope : code \o ScopeTest(sel, scope, at + Len(code)), <<>>, scopes)

\* The code of parts that are put one after the other.
Then(a, b) == [code |-> a.code \o b.code, ex |-> a.ex \o b.ex]

RECURSIVE Stm(_, _)

\* Mutant: break leaves a loop by the way that goes on with it.
LoopContinues(test, body, step, at) ==
  LET end == at + Len(test) + 1 + Len(body.code) + Len(step) + 1
  IN [code |-> test \o <<<<"IFNJ", end>>>> \o Patch(body.code, BRK, at) \o step \o <<<<"JU", at>>>>,
      ex   |-> body.ex]

\* A loop: its condition, its body, what it does after the body.
Loop(test, body, step, at) ==
  LET end == at + Len(test) + 1 + Len(body.code) + Len(step) + 1
  IN [code |-> test \o <<<<"IFNJ", end>>>> \o Patch(body.code, BRK, end) \o step \o <<<<"JU", at>>>>,
      ex   |-> body.ex]

\* A block of a case: tests, a jump over it, its body, a jump to the end of the case.
Block(sel, block, last, at) ==
  LET tests == Tests(sel, block.scopes, at)
      start == at + Len(tests) + 1
      body  == IF block.body = <<"null">> THEN Plain(<<>>) ELSE Stm(block.body, start)
      final == IF last THEN <<>> ELSE <<<<"JU", FINAL>>>>
      over  == start + Len(body.code) + Len(final)
  IN [code |-> Patch(tests, BLOCK, start) \o <<<<"JU", over>>>> \o body.code \o final,
      ex   |-> body.ex]

Stm(s, at) ==
  CASE s[1] = "write"  -> Plain(Expr(s[2]) \o <<<<"WRT">>>>)
    [] s[1] = "void"   -> Plain(Expr(s[2]) \o <<<<"POP">>>>)
    [] s[1] = "set"    -> Plain(<<<<"LABI_ARG", s[2]>>>> \o Expr(s[3]) \o <<<<"ST">>>>)
    [] s[1] = "throw"  -> Plain(Expr(s[2]) \o <<<<"THROW">>>>)
    [] s[1] = "return" -> Plain(Expr(s[2]) \o <<<<"RET">>>>)
    [] s[1] = "self"   -> Plain(<<<<"RET_SELF">>>>)
    [] s[1] = "setop"  ->
         Plain(<<<<"LABI_ARG", s[3]>>, <<"DUP">>, <<"DR">>>> \o Expr(s[4])
                 \o <<<<"BOP", s[2]>>, <<"ST">>>>)
    [] s[1] = "break"  -> Plain(<<<<"JU", BRK>>>>)
    [] s[1] = "empty"  -> Plain(<<>>)
    [] s[1] = "null"   -> Plain(<<<<"CRASH">>>>)
    [] s[1] = "seq"    ->
         FoldLeft(LAMBDA acc, x : Then(acc, Stm(x, at + Len(acc.code))), Plain(<<>>), s[2])
    [] s[1] = "if" /\ Len(s) = 3 ->
         LET c    == Expr(s[2])
             then == Stm(s[3], at + Len(c) + 1)
         IN [code |-> c \o <<<<"IFNJ", at + Len(c) + 1 + Len(then.code)>>>> \o then.code,
             ex   |-> then.ex]
    [] s[1] = "if" /\ Len(s) = 4 ->
         LET c    == Expr(s[2])
             then == Stm(s[3], at + Len(c) + 1)
             a1   == at + Len(c) + 1 + Len(then.code) + 1
             else == Stm(s[4], a1)
         IN [code |-> c \o <<<<"IFNJ", a1>>>> \o then.code
                        \o <<<<"JU", a1 + Len(else.code)>>>> \o else.code,
             ex   |-> then.ex \o else.ex]
    [] s[1] = "while"  ->
         LET c == Expr(s[2]) IN Loop(c, Stm(s[3], at + Len(c) + 1), <<>>, at)
    [] s[1] = "for"    ->
         LET init == Stm(s[2], at)
             head == at + Len(init.code)
             c    == Expr(s[3])
             step == Stm(s[4], 0)   \* an assignment: no address in it
         IN Then(init, Loop(c, Stm(s[5], head + Len(c) + 1), step.code, head))
    [] s[1] = "case"   ->
         LET n   == Len(s[3])
             all == FoldLeft(LAMBDA acc, i :
                               Then(acc, Block(s[2], s[3][i], i = n, at + Len(acc.code))),
                             Plain(<<>>), [i \in 1 .. n |-> i])
         IN [all EXCEPT !.code = Patch(@, FINAL, at + Len(@))]
    [] s[1] = "try"    ->
         LET try   == Stm(s[2], at)
             catch == at + Len(try.code) + 1
             c     == Stm(s[4], catch)
         IN [code |-> try.code \o <<<<"JU", catch + Len(c.code)>>>> \o c.code,
             ex   |-> AddBlock(try.ex \o c.ex, [try |-> at, catch |-> catch])]

RECURSIVE HasTry(_)
HasTry(s) ==
  \/ s[1] = "try"
  \/ s[1] = "seq" /\ \E i \in DOMAIN s[2] : HasTry(s[2][i])
  \/ s[1] = "if" /\ \E i \in 3 .. Len(s) : HasTry(s[i])
  \/ s[1] = "while" /\ HasTry(s[3])
  \/ s[1] = "for" /\ HasTry(s[5])
  \/ s[1] = "case" /\ \E i \in DOMAIN s[3] : HasTry(s[3][i].body)

(* A method: a body that does not end in a return gets one, of the object  *)
(* if it is a constructor, which has no other.  Its exception variables    *)
(* are those the parser has seen.                                          *)
Method(name, parsed, body, at) ==
  LET ret   == IF Last(body)[1] = "return" THEN body
               ELSE Append(body, IF name = "k" THEN <<"self">> ELSE <<"return", <<"const", Nil>>>>)
      intro == IF HasTry(<<"seq", parsed>>) THEN <<<<"ST_EXINFO", name>>>> ELSE <<>>
      s     == Stm(<<"seq", ret>>, at + Len(intro))
  IN [code |-> intro \o s.code, ex |-> s.ex]

(* The program of a main method, a method f of two arguments and, in some, *)
(* a constructor k, as they have been parsed and as the optimiser has left *)
(* them.                                                                   *)
Program(parsed, bodies) ==
  LET names == SubSeq(<<"main", "f", "k">>, 1, Len(bodies))
      Add(p, i) ==
        LET at == Len(p.code) + 1
            q  == Method(names[i], parsed[i], bodies[i], at)
        IN [code |-> p.code \o q.code, entry |-> p.entry @@ (names[i] :> at),
            exinfo |-> p.exinfo @@ (names[i] :> q.ex)]
  IN FoldLeft(Add, [code |-> <<>>, entry |-> <<>>, exinfo |-> <<>>], [i \in DOMAIN names |-> i])
       @@ [args   |-> [main |-> 1, f |-> 2, k |-> 0, read |-> 0, fail |-> 0, new |-> 0],
           locals |-> [main |-> 0, f |-> 1, k |-> 0, read |-> 0, fail |-> 0, new |-> 0]]
=============================================================================

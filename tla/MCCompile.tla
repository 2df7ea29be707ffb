------------------------------- MODULE MCCompile -------------------------------
(***************************************************************************)
(* The programs that Compiler is checked with: expressions of up to three  *)
(* operators, and statements in statements.                                *)
(***************************************************************************)
EXTENDS Compiler

CONSTANT Runs(_, _)   \* a program of these bodies, compiled, with each of these inputs

Inputs == {<<>>, <<1, 0, 1>>, <<2, 3>>}

N(n)  == <<"const", n>>
A     == <<"arg", 0>>
Read0 == <<"call", "read", <<>>>>
Nil   == <<"const", Null>>
Op(op, x, y) == <<"bop", op, x, y>>
CallF(x)     == <<"call", "f", <<N(1), x>>>>

----------------------------------------------------------------------------
(* Expressions.                                                            *)

Ops   == UNION {P!Levels[l] : l \in DOMAIN P!Levels}
Few   == {"||", "&&", "<", "-", "*", "/"}
NoShift == Few \cup {"^", "+", "%", "==", "|"}

Two(ops, x, y, z) ==
  {Op(p, Op(q, x, y), z) : p \in ops, q \in ops} \cup {Op(p, x, Op(q, y, z)) : p \in ops, q \in ops}

Three(ops, w, x, y, z) ==
  {Op(p, l, z) : p \in ops, l \in Two(ops, w, x, y)} \cup
  {Op(p, w, r) : p \in ops, r \in Two(ops, x, y, z)} \cup
  {Op(p, Op(q, w, x), Op(r, y, z)) : p \in ops, q \in ops, r \in ops}

Unaries ==
  LET Us(E) == {<<u, e>> : u \in {"neg", "not"}, e \in E}
      Once  == Us({A, N(0), N(3), Op("-", A, N(1)), Op("-", N(1), N(1)), Op("/", N(1), N(0))})
      All   == Once \cup Us(Once) \cup {<<"not", Nil>>}
  IN All \cup {Op(op, u, A) : op \in Few, u \in All} \cup {Op(op, N(1), u) : op \in Few, u \in All}

Expressions ==
  Two(Ops, N(7), N(2), N(1)) \cup Two(Ops, A, N(2), N(1)) \cup Two(Ops, N(7), N(2), A)
    \cup Two(NoShift, N(2), N(0), A) \cup Three(Few, A, N(2), N(1), N(3))
    \cup Unaries \cup {Op(op, Nil, e) : op \in {"==", "!="}, e \in {Nil, A}}

\* With a call, to see in what order and how often operands are evaluated.
Calls == {Op(op, CallF(x), CallF(Op("+", N(1), N(1)))) : op \in Ops, x \in {A, N(3)}}

----------------------------------------------------------------------------
(* Statements.                                                             *)

Write(n) == <<"write", N(n)>>
Block(s) == <<"seq", <<s, Write(8)>>>>
If(c, s, t) == <<"if", c, s, t>>
Inc      == <<"setop", "+", 0, N(1)>>

Conditions == {N(0), N(1), Op("-", N(2), N(2)), Nil, Op("-", A, N(1)), Read0}
Simple     == {Write(5), <<"setop", "-", 0, Read0>>, <<"void", CallF(A)>>, <<"return", A>>,
               <<"throw", A>>}

Ifs == {<<"if", c, s>> : c \in Conditions, s \in Simple \cup {Block(Inc)}} \cup
       {If(c, s, Write(6)) : c \in Conditions, s \in Simple} \cup
       {If(c, Write(5), <<"if", d, Inc>>) : c \in Conditions, d \in Conditions}

\* Loops that end by their condition, and those that only a break ends.
Bodies == {Block(Inc), If(Read0, Inc, <<"break">>), Block(If(Read0, <<"break">>, Inc)),
           <<"seq", <<<<"if", Op("<", N(1), Read0), <<"break">>>>, Inc>>>>}
Ends   == {N(0), Nil, Read0, Op("-", N(2), N(2)), Op("<", A, N(3))}
While1 == {<<"while", c, b>> : c \in Ends, b \in Bodies} \cup
          {<<"while", N(1), If(Read0, b, <<"break">>)>> : b \in Simple \cup Bodies}
For1   == {<<"for", <<"set", 0, i>>, c, Inc, b>> :
             i \in {N(0), Read0}, c \in Ends, b \in Bodies}
Nested == {<<"while", Read0, b>> : b \in While1 \cup For1} \cup
          {<<"for", <<"set", 0, N(1)>>, Read0, Inc, Block(b)>> : b \in While1 \cup For1}

Case(scopes, body) == [scopes |-> scopes, body |-> body]
Eq(e)        == <<"eq", e>>
Range_(i, j) == <<"range", N(i), N(j)>>
Selectors == {N(2), Op("+", N(1), N(1)), A, Read0, CallF(N(2)), Op("*", A, N(2))}
Scopes == {<<Eq(N(2))>>, <<Eq(A)>>, <<Eq(Read0)>>, <<Eq(N(-1)), Eq(N(2))>>, <<Range_(1, 2)>>, <<Range_(2, 2)>>,
           <<Range_(3, 1)>>, <<Range_(3, 1), Range_(2, 1), Eq(N(2)), Range_(5, 4)>>,
           <<Eq(N(7)), Range_(0, 1), Range_(3, 2)>>}
CaseBodies == {Write(5), Block(Inc), <<"return", A>>, <<"if", N(0), Inc>>, <<"break">>,
               If(Read0, Inc, Write(6)), <<"while", Read0, <<"if", A, <<"break">>>>>>,
               Block(<<"while", N(1), If(Read0, Inc, <<"break">>)>>)}
Default(body) == Case(<<<<"else">>>>, body)
Switches ==
  {<<"case", v, <<Case(s, b), Default(Write(7))>>>> :
     v \in Selectors, s \in Scopes, b \in CaseBodies} \cup
  {<<"case", v, <<Case(s, Write(5)), Case(t, Write(6)), Default(Write(7))>>>> :
     v \in Selectors, s \in Scopes, t \in Scopes} \cup
  {<<"case", A, <<Case(<<Eq(N(1))>>, <<"case", v, <<Case(s, Write(5)), Default(Write(6))>>>>),
                  Default(Write(7))>>>> : v \in Selectors, s \in Scopes} \cup
  {<<"case", v, <<Case(s, Write(5))>>>> : v \in Selectors, s \in Scopes} \cup
  {<<"case", v, <<Default(b)>>>> : v \in Selectors, b \in CaseBodies}

\* Every place for a statement.
Around(s) ==
  {s, Block(s), If(Read0, Block(s), Inc), If(N(0), Inc, s), <<"while", Read0, Block(s)>>,
   <<"try", Block(s), "e", s>>, <<"try", <<"seq", <<s, <<"throw", A>>>>>>, "e", <<"write", <<"exobj", "e">>>>>>}

Statements == UNION {Around(s) : s \in Ifs \cup While1 \cup For1} \cup Nested \cup Switches
                \cup {<<"while", Read0, s>> : s \in Switches}

----------------------------------------------------------------------------

F == <<<<"write", <<"arg", 0>>>>, <<"return", <<"arg", 1>>>>>>

MCRuns(source, inputs) == LET p == Compile(source) IN WithInputs(p, inputs)

MCInit ==
  \/ \E e \in Expressions \cup Calls :
       \E p \in Runs(<<<<<<"write", e>>>>, F>>, {<<>>}) : Starts(p)
  \/ \E s \in Statements :
       \E p \in Runs(<<<<s, <<"write", A>>>>, F>>, Inputs) : Starts(p)

MCNext == Next \/ Terminating

\* The interpreter goes on while it can: WF_vars(Next), written with what enables
\* Next, which is all that is not done (the run finds no deadlock).
Fairness == []<>Done \/ []<><<Next>>_vars
MCSpec   == MCInit /\ [][MCNext]_vars /\ Fairness

=============================================================================

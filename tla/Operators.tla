------------------------------- MODULE Operators -------------------------------
(***************************************************************************)
(* The operators of the language: how tightly they bind (compiler/         *)
(* parser.cpp, Vyraz to ZbTermu) and what they compute from integers       *)
(* (vm/vm.c, bc_bop; compiler/strom.cpp, Bop::Optimize).                   *)
(*                                                                         *)
(* The numbers of the programs tried stay within Width bits, so that       *)
(* nothing overflows and only bit operations see how negative numbers are  *)
(* represented.                                                            *)
(***************************************************************************)
EXTENDS Integers, Sequences
LOCAL INSTANCE Bitwise

Width == 16

\* From the loosest; the operators of one level group to the left.
Levels ==
  <<{"||"}, {"^"}, {"&&"}, {"|"}, {"&"}, {"==", "!=", "<", ">", "<=", ">="},
    {"<<", ">>"}, {"+", "-"}, {"*", "/", "%"}>>
LevelOf(op) == CHOOSE l \in DOMAIN Levels : op \in Levels[l]

Truth(b)  == IF b THEN 1 ELSE 0
Word(x)   == x % 2^Width
Signed(x) == IF x < 2^(Width - 1) THEN x ELSE x - 2^Width

\* Division of C, towards zero.
Magnitude(x) == IF x < 0 THEN -x ELSE x
Quotient(a, b) ==
  LET q == Magnitude(a) \div Magnitude(b) IN IF (a < 0) = (b < 0) THEN q ELSE -q

DividesByZero(op, b) == op \in {"/", "%"} /\ b = 0

bc_bop(op, a, b) ==
  CASE op = "+"  -> a + b
    [] op = "-"  -> a - b
    [] op = "*"  -> a * b
    [] op = "/"  -> Quotient(a, b)
    [] op = "%"  -> a - b * Quotient(a, b)
    [] op = "==" -> Truth(a = b)
    [] op = "!=" -> Truth(a # b)
    [] op = "<"  -> Truth(a < b)
    [] op = ">"  -> Truth(a > b)
    [] op = "<=" -> Truth(a <= b)
    [] op = ">=" -> Truth(a >= b)
    [] op = "||" -> Truth(a # 0 \/ b # 0)
    [] op = "&&" -> Truth(a # 0 /\ b # 0)
    [] op = "|"  -> Signed(Word(a) | Word(b))
    [] op = "&"  -> Signed(Word(a) & Word(b))
    [] op = "^"  -> Signed(Word(a) ^^ Word(b))
    [] op = "<<" -> a * 2^b
    [] op = ">>" -> a \div 2^b

=============================================================================

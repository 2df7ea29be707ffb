-------------------------------- MODULE Printer --------------------------------
(***************************************************************************)
(* How a programmer writes a tree down: what the parser must read back.    *)
(* An expression has the parentheses that the levels of the operators call *)
(* for and no others; every statement of a block is on a line of its own,  *)
(* a block has braces, and so has a class.                                 *)
(***************************************************************************)
EXTENDS Operators, SequencesExt

CONSTANT Nil

Tok(type) == <<<<type>>>>
NL        == Tok("NEWLINE")

\* The things printed, one after the other with a separator between them.
Join(parts, sep) ==
  FlattenSeq([i \in DOMAIN parts |-> IF i = 1 THEN parts[i] ELSE sep \o parts[i]])

Factor   == Len(Levels) + 1
Level(e) == IF e[1] = "bop" THEN LevelOf(e[2]) ELSE Factor

RECURSIVE Bare(_)
\* An operand of an operator that takes what binds at least as tightly as l.
PrintAt(l, e) == IF Level(e) < l THEN Tok("(") \o Bare(e) \o Tok(")") ELSE Bare(e)

Bare(e) ==
  CASE e[1] = "const" -> IF e[2] = Nil THEN Tok("nil")
                         ELSE IF e[2] < 0 THEN Tok("-") \o <<<<"NUMB", -e[2]>>>>
                         ELSE <<<<"NUMB", e[2]>>>>
    [] e[1] \in {"arg", "exobj"} -> <<<<"IDENT", e>>>>
    [] e[1] = "bop"   -> PrintAt(Level(e), e[3]) \o Tok(e[2]) \o PrintAt(Level(e) + 1, e[4])
    [] e[1] = "neg"   -> Tok("-") \o PrintAt(Factor, e[2])
    [] e[1] = "not"   -> Tok("!") \o PrintAt(Factor, e[2])
    [] e[1] = "call"  -> <<<<"IDENT", e[2]>>>> \o Tok("(")
                           \o Join([i \in DOMAIN e[3] |-> Bare(e[3][i])], Tok(",")) \o Tok(")")

InParens(e) == Tok("(") \o Bare(e) \o Tok(")")
Arg(i)      == <<<<"IDENT", <<"arg", i>>>>>>

PrintScope(s) ==
  CASE s[1] = "eq"    -> Bare(s[2])
    [] s[1] = "range" -> Bare(s[2]) \o Tok("..") \o Bare(s[3])

Label(scopes) ==
  IF scopes = <<<<"else">>>> THEN Tok("default") \o Tok(":")
  ELSE Tok("case") \o Join([i \in DOMAIN scopes |-> PrintScope(scopes[i])], Tok(",")) \o Tok(":")

RECURSIVE Written(_)
Lines(parts) == Tok("{") \o NL \o FlattenSeq([i \in DOMAIN parts |-> parts[i] \o NL]) \o Tok("}")

Written(s) ==
  CASE s[1] \in {"write", "throw", "return"} -> Tok(s[1]) \o Bare(s[2])
    [] s[1] = "void"  -> Bare(s[2])
    [] s[1] = "set"   -> Arg(s[2]) \o Tok("=") \o Bare(s[3])
    [] s[1] = "setop" -> Arg(s[3]) \o <<<<"op=", s[2]>>>> \o Bare(s[4])
    [] s[1] = "break" -> Tok("break")
    [] s[1] = "seq"   -> Lines([i \in DOMAIN s[2] |-> Written(s[2][i])])
    [] s[1] = "if"    -> Tok("if") \o InParens(s[2]) \o Written(s[3])
                           \o IF Len(s) = 4 THEN Tok("else") \o Written(s[4]) ELSE <<>>
    [] s[1] = "while" -> Tok("while") \o InParens(s[2]) \o Written(s[3])
    [] s[1] = "for"   -> Tok("for") \o Tok("(") \o Written(s[2]) \o Tok(";") \o Bare(s[3])
                           \o Tok(";") \o Written(s[4]) \o Tok(")") \o Written(s[5])
    [] s[1] = "try"   -> Tok("try") \o Written(s[2]) \o Tok("catch") \o Tok("(")
                           \o <<<<"IDENT", <<"exobj", s[3]>>>>>> \o Tok(")") \o Written(s[4])
    [] s[1] = "case"  -> Tok("switch") \o InParens(s[2])
                           \o Lines([i \in DOMAIN s[3] |->
                                       Label(s[3][i].scopes) \o Written(s[3][i].body)])

\* A class with a method for each of these bodies.
PrintProgram(bodies) ==
  Tok("CLASS")
    \o Lines([i \in DOMAIN bodies |-> Tok("METHOD") \o Written(<<"seq", bodies[i]>>)])
    \o NL \o Tok("EOI")

=============================================================================

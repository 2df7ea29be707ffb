-------------------------------- MODULE Compiler --------------------------------
(***************************************************************************)
(* The way of a program from its text to its effect: Printer writes it     *)
(* down, Parser, Optimizer and Codegen compile it (compiler/kekc.cpp), *)
(* Machine runs it.  The result is compared with what Source says of the   *)
(* tree that was written down.                                             *)
(***************************************************************************)
EXTENDS Machine, SequencesExt, TLC

C == INSTANCE Codegen WITH Nil <- Null
S == INSTANCE Source WITH SrcNil <- Null, SrcFailure <- Failure, SrcObject <- Object
P == INSTANCE Parser WITH Nil <- Null
W == INSTANCE Printer WITH Nil <- Null

\* What the compiler makes of two bodies, that of main and that of f.
Compile(source) ==
  LET tree      == P!Program(W!PrintProgram(source))
      parsed    == [i \in DOMAIN tree.bodies |-> tree.bodies[i][2]]
      optimised == [i \in DOMAIN parsed |-> P!Optimize(tree.bodies[i])]
      code      == C!Program(parsed, [i \in DOMAIN parsed |-> optimised[i][2]])
      crash     == P!Crash \in Range(optimised) \/ <<"CRASH">> \in Range(code.code)
      how       == IF tree.how = "tree" /\ crash THEN "crashed" ELSE tree.how
  IN [source |-> source, parsed |-> parsed, how |-> how]
       @@ IF how = "tree" THEN code ELSE [code |-> <<>>, entry |-> [main |-> 1]]

\* A compiled program with each of its inputs, and what it should do.
WithInputs(p, inputs) ==
  IF p.how # "tree" THEN {[input |-> <<>>] @@ p}
  ELSE {[input |-> i, means |-> S!Outcome(p.source, i, {"e"})] @@ p : i \in inputs}

\* A program that runs, or one that does not come to it.
Starts(p) ==
  IF p.how = "tree" THEN Boot(p, p.input)
  ELSE /\ prog = p /\ m = Start /\ thrown = [main |-> Null] /\ loops = 1 /\ env = 1
       /\ in = p.input /\ out = <<>> /\ status = p.how /\ uw = Null

Done == status \in {"halted", "unhandled", "trapped", "rejected", "overflow", "crashed"}

\* A program that has not been run.
Compiled == m.ip \in {0, prog.entry["main"]}

Terminating == Done /\ UNCHANGED vars

----------------------------------------------------------------------------
(* The nodes of a program.                                                 *)

\* The expressions and statements right below a node.
Children(n) ==
  CASE n[1] \in {"write", "void", "throw", "return", "neg", "not"} -> {n[2]}
    [] n[1] = "set"   -> {n[3]}
    [] n[1] = "setop" -> {n[4]}
    [] n[1] = "bop"   -> {n[3], n[4]}
    [] n[1] = "call"  -> Range(n[3])
    [] n[1] = "seq"   -> Range(n[2])
    [] n[1] \in {"if", "while", "for"} -> {n[i] : i \in 2 .. Len(n)}
    [] n[1] = "try"   -> {n[2], n[4]}
    [] n[1] = "case"  -> {n[2]} \cup {b.body : b \in Range(n[3])}
                           \cup {s[2] : s \in UNION {Range(b.scopes) : b \in Range(n[3])} \ {<<"else">>}}
    [] OTHER          -> {}

RECURSIVE Below(_, _)
\* The nodes of a tree that can be reached without going through a node of a kind.
Below(n, kinds) ==
  {n} \cup UNION {Below(k, kinds) : k \in {k \in Children(n) : k[1] \notin kinds}}

Nodes == UNION {Below(<<"seq", b>>, {}) : b \in Range(prog.source)}

IsConstant(e) == \A n \in Below(e, {}) : n[1] \in {"const", "bop", "neg", "not"} /\ n # <<"const", Null>>
IsZero(e)     == IsConstant(e) /\ P!OptimizeExpr(e) = <<"const", 0>>
HasCall(e)    == \E n \in Below(e, {}) : n[1] = "call"

AllScopes(n) == UNION {Range(b.scopes) : b \in Range(n[3])}

----------------------------------------------------------------------------
(* Trees that are not read as they are written.                            *)

IsDivision(e) == e[1] = "bop" /\ e[2] \in {"/", "%"}

RECURSIVE EndsInDivision(_)
EndsInDivision(e) ==
  \/ IsDivision(e)
  \/ e[1] = "bop" /\ W!Level(e[4]) > W!Level(e) /\ EndsInDivision(e[4])

\* ZbTermu goes on after a division as after a whole expression (parser.cpp:1083).
OddDivision(e) ==
  /\ e[1] = "bop"
  /\ \/ e[2] \in {"*", "/", "%"} /\ IsDivision(e[3])
     \/ e[2] = "||" /\ EndsInDivision(e[3]) /\ ~IsDivision(e[3])

\* A break in a case, which is no loop, and does not inherit that it is in one.
LostBreak(n) ==
  n[1] = "case" /\ \E b \in Range(n[3]) : <<"break">> \in Below(b.body, {"while", "for"})

\* A brace after the last case is left for someone else to read.
NoDefault(n) == n[1] = "case" /\ <<"else">> \notin AllScopes(n)

RECURSIVE EndsInIf(_)
EndsInIf(s) ==
  \/ s[1] = "if" /\ (Len(s) = 3 \/ EndsInIf(s[4]))
  \/ s[1] = "while" /\ EndsInIf(s[3])
  \/ s[1] = "for" /\ EndsInIf(s[5])
  \/ s[1] = "try" /\ EndsInIf(s[4])

\* The search for an else takes the end of line that a case must end with.
TakesNewline(n) == n[1] = "case" /\ \E b \in Range(n[3]) : EndsInIf(b.body)

Unreadable ==
  \E n \in Nodes : OddDivision(n) \/ LostBreak(n) \/ NoDefault(n) \/ TakesNewline(n)

(* The parser reads back the tree that was written down, whatever the      *)
(* operators, their grouping and the nesting of statements, except for     *)
(* these four and always for these: precedence in the mutually recursive   *)
(* functions of parser.cpp:956 to 1090, what they leave for one another,   *)
(* who takes which end of line and what a break may be in.                 *)
ParsesBack ==
  Compiled => (Unreadable <=> ~(prog.how \in {"tree", "crashed"} /\ prog.parsed = prog.source))

----------------------------------------------------------------------------
(* Programs that end the compiler.                                         *)

\* Folding a constant division by zero is one (strom.cpp:429).
FoldsZero(n) == IsDivision(n) /\ IsConstant(n) /\ IsZero(n[4])

\* The operand of a - or a ! becomes a number and is used after it is freed.
FoldsBelow(n) == n[1] \in {"neg", "not"} /\ n[2][1] # "const" /\ IsConstant(n[2])

\* An if that is left out leaves no node where one is needed.
LeavesNothing(n) == n[1] = "if" /\ Len(n) = 3 /\ IsZero(n[2])

(* The optimiser ends the compiler for these three reasons only, whatever  *)
(* it has folded, dropped and replaced above, below or beside them.        *)
CrashesFewer == prog.how = "crashed" =>
  \E n \in Nodes : FoldsZero(n) \/ FoldsBelow(n) \/ LeavesNothing(n)

----------------------------------------------------------------------------
(* Programs that mean something else when they are compiled.               *)

\* A selector is translated for every test, calls and all (strom.cpp:1240); it is
\* computed once when there is one test.
OneTest(n) == \E e \in Range(n[3]) : /\ Len(e.scopes) = 1 /\ e.scopes[1][1] = "eq"
                                     /\ AllScopes(n) \subseteq {e.scopes[1], <<"else">>}
SelectsAgain(n) == n[1] = "case" /\ HasCall(n[2]) /\ ~(Len(n[3]) <= 2 /\ OneTest(n))

\* With a constant selector, a scope that is no constant never holds.
SkipsScope(n) ==
  n[1] = "case" /\ IsConstant(n[2]) /\ \E s \in AllScopes(n) : s[1] = "eq" /\ ~IsConstant(s[2])

\* A loop that is never entered loses its first assignment.
LosesInit(n) == n[1] = "for" /\ IsZero(n[3])

Outcome == [status |-> status, out |-> out]

(* A program that is read as it is written does what it means, optimised,  *)
(* translated and run: the same output and the same end, by all ways       *)
(* through folded constants, dropped branches, loops, breaks and cases.    *)
Behaves ==
  Done /\ prog.how = "tree" /\ ~Unreadable
       /\ ~(\E n \in Nodes : SelectsAgain(n) \/ SkipsScope(n) \/ LosesInit(n))
    => Outcome = prog.means.ends

(* A program whose meaning is to end does end: compiled code does not go   *)
(* round in circles that the source does not have.                         *)
Halts == <>Done

=============================================================================

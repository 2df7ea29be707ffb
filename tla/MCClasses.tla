----------------------------- MODULE MCClasses -----------------------------
(* Classes on small programs, by what they are about.                      *)
EXTENDS ClassesInvariant

MCNames == <<"A", "B", "C">>

UserParents == {NoParent} \union Range(MCNames)

Var(id, static)  == [id |-> id, static |-> static, const |-> FALSE]
Const(id)        == [id |-> id, static |-> TRUE, const |-> TRUE]
Method(name, st) == [name |-> name, static |-> st]
Ref(k, cls, id, lvalue) == [k |-> k, cls |-> cls, id |-> id, lvalue |-> lvalue]

\* Objects: instance variables under every kind of parent.
Objects ==
  [parents |-> UserParents \union {"Exception", "Sys", "Array"},
   vars |-> {Var("x", FALSE), Var("y", FALSE)}, methods |-> {}, refs |-> {},
   maxVars |-> 3, maxMethods |-> 0, maxRefs |-> 0]

\* Access to instance variables, from inside and outside.
Fields ==
  [parents |-> UserParents,
   vars |-> {Var("x", FALSE)}, methods |-> {Method("m", FALSE), Method("constructor", FALSE)},
   refs |-> {Ref("name", "", "x", TRUE), Ref("obj", "", "x", FALSE)},
   maxVars |-> 2, maxMethods |-> 1, maxRefs |-> 1]

\* Class variables.
Statics ==
  [parents |-> UserParents \union {"Sys"},
   vars |-> {Var("x", TRUE), Var("y", TRUE)},
   methods |-> {Method("m", FALSE), Method("m", TRUE)},
   refs |-> {Ref("name", "", "x", FALSE), Ref("name", "", "y", TRUE),
             Ref("class", "A", "x", FALSE), Ref("class", "B", "y", TRUE)},
   maxVars |-> 2, maxMethods |-> 1, maxRefs |-> 1]

\* Constants, before and after their declaration.
Constants ==
  [parents |-> {NoParent, "A", "Sys"},
   vars |-> {Const("x"), Var("out", TRUE)},
   methods |-> {Method("m", TRUE)},
   refs |-> {Ref("class", c, id, lv) : c \in {"A", "B", "Sys"}, id \in {"x", "out"}, lv \in BOOLEAN}
            \union {Ref("name", "", "x", lv) : lv \in BOOLEAN},
   maxVars |-> 2, maxMethods |-> 1, maxRefs |-> 1]

\* Calls and the inline cache.
Calls ==
  [parents |-> {NoParent, "A", "B"},
   vars |-> {}, methods |-> {Method("m", FALSE), Method("m", TRUE), Method("constructor", FALSE)},
   refs |-> {Ref("call", "", "m", FALSE), Ref("ocall", "", "m", FALSE),
             Ref("ccall", "B", "m", FALSE), Ref("super", "", "m", FALSE)},
   maxVars |-> 0, maxMethods |-> 3, maxRefs |-> 1]

\* Methods of a built-in class, inherited and overridden.
Inherited ==
  [parents |-> {NoParent, "A", "Exception"},
   vars |-> {}, methods |-> {Method("m", FALSE), Method("msg", FALSE)},
   refs |-> {Ref("call", "", "msg", FALSE), Ref("ocall", "", "msg", FALSE),
             Ref("super", "", "msg", FALSE), Ref("scons", "", "", FALSE)},
   maxVars |-> 0, maxMethods |-> 2, maxRefs |-> 1]

\* Constructors and calls of super.
Constructors ==
  [parents |-> UserParents,
   vars |-> {}, methods |-> {Method("constructor", FALSE), Method("m", FALSE)},
   refs |-> {Ref("scons", "", "", FALSE), Ref("super", "", "m", FALSE), Ref("new", "A", "", FALSE)},
   maxVars |-> 0, maxMethods |-> 2, maxRefs |-> 2]

\* The symbols that stand for classes.
Symbols ==
  [parents |-> {NoParent, "A", "B"},
   vars |-> {Var("x", TRUE)}, methods |-> {Method("m", TRUE)},
   refs |-> {Ref("super", "", "B", FALSE), Ref("new", "B", "", FALSE),
             Ref("class", "B", "x", TRUE), Ref("ccall", "B", "m", FALSE)},
   maxVars |-> 1, maxMethods |-> 2, maxRefs |-> 2]

MCPrograms == {Objects, Fields, Statics, Constants, Calls, Inherited, Constructors, Symbols}
=============================================================================

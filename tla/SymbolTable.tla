----------------------------- MODULE SymbolTable -----------------------------
(***************************************************************************)
(* The compiler's table of classes and their members                       *)
(* (compiler/tabsym.cpp).                                                  *)
(*                                                                         *)
(* A table is the list TabClass, newest class first; each class holds its  *)
(* members and methods in lists that are newest first too.  Locals and     *)
(* arguments of methods are left out: they are found before any member and *)
(* involve no other class.                                                 *)
(***************************************************************************)
EXTENDS Naturals, Sequences, SequencesExt

CONSTANT Null

CLASS_UNKNOWN == "unknown class"   \* a parent that has not been declared yet
NoParent      == ""

\* The first element of a list that passes a test, as the linear searches find it.
FirstIn(list, Test(_)) ==
  LET i == SelectInSeq(list, Test) IN IF i = 0 THEN Null ELSE list[i]

\* What the nearest class has, going from c to its parent and on.
Nearest(up, Own(_), c) ==
  LET from[d \in DOMAIN up] ==
        IF Own(d) # Null \/ up[d] \notin DOMAIN up THEN Own(d) ELSE from[up[d]]
  IN from[c]

----------------------------------------------------------------------------
hledejClass(tab, id) == FirstIn(tab, LAMBDA ce : ce.className = id)

Parents(tab) ==
  [c \in {ce.className : ce \in Range(tab)} |-> hledejClass(tab, c).parent]

hledejMember(tab, id, c) ==
  Nearest(Parents(tab),
          LAMBDA d : FirstIn(hledejClass(tab, d).syms, LAMBDA p : p.ident = id), c)

hledejMethod(tab, id, c) ==
  Nearest(Parents(tab),
          LAMBDA d : FirstIn(hledejClass(tab, d).methods, LAMBDA me : me.methodName = id), c)

----------------------------------------------------------------------------
\* Mutant: the counter of instance variables is not taken over.
ClassEnvFromZero(name, parName, pe) ==
  [className |-> name, parentName |-> parName,
   parent |-> IF parName = NoParent THEN NoParent
              ELSE IF pe = Null THEN CLASS_UNKNOWN ELSE parName,
   class_addr_next |-> IF pe = Null THEN 0 ELSE pe.class_addr_next,
   obj_addr_next |-> 0,
   syms |-> <<>>, methods |-> <<>>, constructor |-> FALSE, static_init |-> FALSE]

\* A new class continues the addresses of its parent, if the parent is known by now.
ClassEnv(name, parName, pe) ==
  [className |-> name, parentName |-> parName,
   parent |-> IF parName = NoParent THEN NoParent
              ELSE IF pe = Null THEN CLASS_UNKNOWN ELSE parName,
   class_addr_next |-> IF pe = Null THEN 0 ELSE pe.class_addr_next,
   obj_addr_next |-> IF pe = Null THEN 0 ELSE pe.obj_addr_next,
   syms |-> <<>>, methods |-> <<>>, constructor |-> FALSE, static_init |-> FALSE]

\* The parent is looked up before the class itself is in the table.
deklClass(tab, cls, par) == <<ClassEnv(cls, par, hledejClass(tab, par))>> \o tab

\* What is declared belongs to the class the parser is in, the first of the list.
InClass(tab, ce) == [tab EXCEPT ![1] = ce]

PrvekTab(id, kind, scope, addr) ==
  [ident |-> id, druh |-> kind, sc |-> scope, addr |-> addr]

AddStatic(tab, id, kind) ==
  InClass(tab, [tab[1] EXCEPT
    !.syms = <<PrvekTab(id, kind, "SC_CLASS", tab[1].class_addr_next)>> \o @,
    !.class_addr_next = @ + 1])

\* Mutant: a constant of a class takes no address, as one of a method.
deklKonstNoAddress(tab, id) ==
  InClass(tab, [tab[1] EXCEPT
    !.syms = <<PrvekTab(id, "IdConst", "SC_CLASS", tab[1].class_addr_next)>> \o @])

\* A constant of a class takes an address like a variable.
deklKonst(tab, id) == AddStatic(tab, id, "IdConst")

deklProm(tab, id, isStatic) ==
  IF isStatic THEN AddStatic(tab, id, "IdProm")
  ELSE InClass(tab, [tab[1] EXCEPT
         !.syms = <<PrvekTab(id, "IdProm", "SC_INSTANCE", tab[1].obj_addr_next)>> \o @,
         !.obj_addr_next = @ + 1])

\* A method with the name of its class is the constructor, or the static initialiser.
deklMethod(tab, mth, isStatic) ==
  InClass(tab,
    IF mth # tab[1].className
    THEN [tab[1] EXCEPT !.methods = <<[methodName |-> mth, isStatic |-> isStatic]>> \o @]
    ELSE IF isStatic THEN [tab[1] EXCEPT !.static_init = TRUE]
    ELSE [tab[1] EXCEPT !.constructor = TRUE])

\* The declarations that end the compilation ("druha deklarace").
ClassTwice(tab, cls)  == hledejClass(tab, cls) # Null
MemberTwice(tab, id)  == \E p \in Range(tab[1].syms) : p.ident = id
MethodTwice(tab, mth, isStatic) ==
  IF mth # tab[1].className THEN \E me \in Range(tab[1].methods) : me.methodName = mth
  ELSE IF isStatic THEN tab[1].static_init ELSE tab[1].constructor

=============================================================================

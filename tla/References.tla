----------------------------- MODULE References -----------------------------
(***************************************************************************)
(* How the compiler turns a reference to a variable, a method or a class   *)
(* into an instruction: the resolution by the parser (compiler/parser.cpp, *)
(* ZbIdent and VarOrConst) and the code written for it                     *)
(* (compiler/strom.cpp, the Translate methods; compiler/bcout.cpp).        *)
(*                                                                         *)
(* A reference stands in a method of the class that is being parsed, the   *)
(* first of the table.  Its kinds, by field k:                             *)
(*   "name"   x          "class"  C.x      "obj"     o.x                   *)
(*   "call"   m()        "ccall"  C.m()    "ocall"   o.m()                 *)
(*   "super"  super.m()  "scons"  super()  "new"     new C()               *)
(* where o is a local variable; lvalue says whether it is assigned to.     *)
(***************************************************************************)
EXTENDS SymbolTable

Rejected == [ends |-> "rejected"]   \* Chyba: a message and exit(1)
Crashed  == [ends |-> "crashed"]    \* a null or made-up pointer is followed
NoAccess == [ends |-> "inert"]      \* a constant is loaded and nothing looked up

\* The instruction a reference becomes: about the name id, at the address addr if
\* the compiler has found the declaration, in the class meant.  qual is the class
\* LD_CLASS puts on the stack first, parName the class of a ParentRef; pushed says
\* what the code before the instruction has left for it.
Emits(op, id) ==
  [ends |-> "emits", op |-> op, id |-> id, addr |-> 0, meant |-> Null,
   qual |-> NoParent, parName |-> NoParent, pushed |-> "nothing"]

OfClass(e, cls) == [e EXCEPT !.qual = cls, !.pushed = "class"]

\* Var::Translate.
Access(value, address, lvalue) == IF lvalue THEN address ELSE value

\* The class whose declaration a search has found.
Declarer(tab, id, c) ==
  Nearest(Parents(tab),
          LAMBDA d : IF \E p \in Range(hledejClass(tab, d).syms) : p.ident = id THEN d ELSE Null,
          c)

\* x in a method.  An undeclared name that is read is a symbol.
Name(tab, id, static, lvalue) ==
  LET c == tab[1].className
      p == hledejMember(tab, id, c)
  IN IF p = Null THEN IF lvalue THEN Rejected ELSE NoAccess
     ELSE IF (lvalue /\ p.druh # "IdProm") \/ (static /\ p.sc = "SC_INSTANCE") THEN Rejected
     ELSE IF p.druh = "IdConst" THEN NoAccess
     ELSE [Emits(IF p.sc = "SC_CLASS" THEN Access("LVBI_CV", "LABI_CV", lvalue)
                                      ELSE Access("LVBI_IV", "LABI_IV", lvalue), id)
             EXCEPT !.addr = p.addr, !.meant = Declarer(tab, id, c)]

\* C.x: by address if C is known, by name if it is not.
ClassMember(tab, cls, id, lvalue) ==
  IF hledejClass(tab, cls) = Null
  THEN OfClass(Emits(Access("LVBS_CVE", "LABS_CVE", lvalue), id), cls)
  ELSE LET p == hledejMember(tab, id, cls) IN
       IF p = Null THEN Rejected
       ELSE IF (lvalue /\ p.druh # "IdProm") \/ p.sc # "SC_CLASS" THEN Rejected
       ELSE IF p.druh = "IdConst" THEN NoAccess
       ELSE [OfClass(Emits(Access("LVBI_CVE", "LABI_CVE", lvalue), id), cls)
               EXCEPT !.addr = p.addr, !.meant = Declarer(tab, id, cls)]

----------------------------------------------------------------------------
(* Calls.  Ident reads external without a value when ZbIdent has found     *)
(* neither the method nor a reason to leave it to the machine: either of   *)
(* the two instructions may come out.                                      *)

Either(mth) == {Emits(op, mth) : op \in {"CALL", "CALLE"}}

OwnCall(tab, mth, static) ==
  LET me == hledejMethod(tab, mth, tab[1].className) IN
  IF me = Null THEN Either(mth)
  ELSE IF static /\ ~me.isStatic THEN {Rejected}
  ELSE {Emits("CALL", mth)}

ClassCall(tab, cls, mth) ==
  IF hledejClass(tab, cls) = Null THEN {OfClass(Emits("CALLE", mth), cls)}
  ELSE LET me == hledejMethod(tab, mth, cls) IN
       IF me = Null THEN {OfClass(e, cls) : e \in Either(mth)}
       ELSE IF ~me.isStatic THEN {Rejected}
       ELSE {OfClass(Emits("CALLE", mth), cls)}

\* The name of the parent is read through the pointer, which need not be one.
SuperCall(tab, mth, static) ==
  LET par == tab[1].parent IN
  IF par = NoParent THEN Rejected
  ELSE IF par = CLASS_UNKNOWN THEN Crashed
  ELSE LET me == hledejMethod(tab, mth, par) IN
       IF me # Null /\ static /\ ~me.isStatic THEN Rejected
       ELSE [Emits("CALLS", mth) EXCEPT !.parName = par]

SuperConstructor(tab) ==
  IF tab[1].parent = NoParent THEN Rejected ELSE Emits("CALL", tab[1].parentName)

\* All that can become of a reference in a method of the class being parsed.
Resolve(tab, r, static) ==
  CASE r.k = "name"  -> {Name(tab, r.id, static, r.lvalue)}
    [] r.k = "class" -> {ClassMember(tab, r.cls, r.id, r.lvalue)}
    [] r.k = "obj"   -> {[Emits(Access("LVBS_IVE", "LABS_IVE", r.lvalue), r.id)
                            EXCEPT !.pushed = "object"]}
    [] r.k = "call"  -> OwnCall(tab, r.id, static)
    [] r.k = "ccall" -> ClassCall(tab, r.cls, r.id)
    [] r.k = "ocall" -> {[Emits("CALLE", r.id) EXCEPT !.pushed = "object"]}
    [] r.k = "super" -> {SuperCall(tab, r.id, static)}
    [] r.k = "scons" -> {SuperConstructor(tab)}
    [] r.k = "new"   -> {Emits("NEW", r.cls)}

----------------------------------------------------------------------------
(* The symbols of the constant table.  cls is the place of the symbol that *)
(* names a parent class, 0 when there is none.                             *)

bco_find_sym(ct, text) == SelectInSeq(ct, LAMBDA sym : sym.text = text)

bco_sym(ct, text) ==
  IF bco_find_sym(ct, text) # 0 THEN ct ELSE Append(ct, [text |-> text, cls |-> 0])

\* Call::Translate with a ParentRef: the symbol of the method is made to say
\* whose method it is; another one is made only if it says otherwise already.
SuperSymbol(ct, mth, par) ==
  LET with == bco_sym(ct, mth)
      old  == bco_find_sym(with, mth)
      mine == IF with[old].cls # 0 /\ with[with[old].cls].text # par
              THEN Append(with, [text |-> mth, cls |-> 0]) ELSE with
      idx  == IF mine = with THEN old ELSE Len(mine)
      all  == bco_sym(mine, par)
  IN [ct |-> [all EXCEPT ![idx].cls = bco_find_sym(all, par)], idx |-> idx]

\* Instructions whose argument is an address; the others name a symbol.
ByAddress == {"LVBI_CV", "LABI_CV", "LVBI_CVE", "LABI_CVE", "LVBI_IV", "LABI_IV"}

\* The constant table with the symbols of an instruction, and their places in it:
\* sym for the name, qsym for the class put on the stack.
Translate(ct, e) ==
  LET qualified == IF e.qual = NoParent THEN ct ELSE bco_sym(ct, e.qual)
      named == bco_sym(qualified, e.id)
      t == IF e.op \in ByAddress THEN [ct |-> qualified, idx |-> 0]
           ELSE IF e.parName # NoParent THEN SuperSymbol(qualified, e.id, e.parName)
           ELSE [ct |-> named, idx |-> bco_find_sym(named, e.id)]
  IN [ct |-> t.ct, sym |-> t.idx,
      qsym |-> IF e.qual = NoParent THEN 0 ELSE bco_find_sym(qualified, e.qual)]

=============================================================================

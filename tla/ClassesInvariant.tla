-------------------------- MODULE ClassesInvariant --------------------------
(***************************************************************************)
(* The inductive invariant behind ClassRules: what the compiler's table,   *)
(* the constant table and the compiled references have in common while     *)
(* classes are parsed, and that the machine runs what was parsed.          *)
(***************************************************************************)
EXTENDS ClassRules

BuiltInNames == {b.name : b \in BuiltIns}

(* Classes have names of their own, which no built-in class has: a class   *)
(* with the name of a built-in one would hide it from vm_find_class.       *)
ASSUME NamesAssumption ==
  /\ Names \in Seq(Range(Names))
  /\ \A i, j \in DOMAIN Names : Names[i] = Names[j] => i = j
  /\ Range(Names) \intersect ({NoParent, CLASS_UNKNOWN} \union BuiltInNames) = {}

\* Whatever a program names.
Words ==
  Range(Names) \union UNION {p.parents \union {v.id : v \in p.vars} \union {me.name : me \in p.methods}
                               \union {r.id : r \in p.refs} \union {r.cls : r \in p.refs} : p \in Programs}

RefKinds == {"name", "class", "obj", "call", "ccall", "ocall", "super", "scons", "new"}

(* What the parser can read: declarations and references of the kinds      *)
(* above; before a dot there is the name of a class, which is not empty.   *)
ASSUME ProgramsAssumption ==
  \A p \in Programs :
    /\ \A v \in p.vars : v.static \in BOOLEAN /\ v.const \in BOOLEAN
    /\ \A me \in p.methods : me.static \in BOOLEAN
    /\ \A r \in p.refs : /\ r.k \in RefKinds /\ r.lvalue \in BOOLEAN
                         /\ r.k \in {"class", "ccall"} => r.cls # NoParent

MethodEnvs == [methodName : Words, isStatic : BOOLEAN]
Scopes     == {"SC_CLASS", "SC_INSTANCE"}
PrvekTabs  == [ident : Words, druh : {"IdConst", "IdProm"}, sc : Scopes, addr : Nat]

ClassEnvs ==
  [className : Range(Names), parentName : UNION {p.parents : p \in Programs},
   parent : Range(Names) \union {NoParent, CLASS_UNKNOWN},
   class_addr_next : Nat, obj_addr_next : Nat,
   syms : Seq(PrvekTabs), methods : Seq(MethodEnvs), constructor : BOOLEAN, static_init : BOOLEAN]

\* What a lookup returns.
ClassNames  == Range(Names) \union BuiltInNames
FoundMethod == [of : ClassNames, method : Words]
FoundStatic == [of : ClassNames, id : Words, const : BOOLEAN]

\* Null and Wild are none of the values the machine works with.
ASSUME NullAssumption ==
  /\ Null \notin MethodEnvs \union PrvekTabs \union ClassEnvs
  /\ Null \notin ClassNames \union FoundMethod \union FoundStatic
  /\ Wild \notin FoundStatic \union {Null, 0, 1}

-----------------------------------------------------------------------------
(* The table.                                                              *)

NextAddr(ce, scope) == IF scope = "SC_CLASS" THEN ce.class_addr_next ELSE ce.obj_addr_next

\* The address the first member of a class got: where its parent's end, if that was known.
FirstAddr(t, i, scope) ==
  IF \E j \in DOMAIN t : t[j].className = t[i].parent
  THEN NextAddr(hledejClass(t, t[i].parent), scope) ELSE 0

\* The newest class comes first; parents that are known are older.
Listed ==
  /\ tab \in Seq(ClassEnvs) /\ Len(tab) <= Len(Names)
  /\ \A i \in DOMAIN tab :
       /\ tab[i].className = Names[Len(tab) + 1 - i]
       /\ \/ tab[i].parent \in {NoParent, CLASS_UNKNOWN}
          \/ /\ tab[i].parent = tab[i].parentName
             /\ \E j \in i + 1 .. Len(tab) : tab[j].className = tab[i].parent
       /\ tab[i].parent = NoParent <=> tab[i].parentName = NoParent

\* The members of a class have consecutive addresses, from the first to the next.
Addressed ==
  \A i \in DOMAIN tab, scope \in Scopes :
    LET own == OfScope(tab[i].syms, scope) IN
    /\ FirstAddr(tab, i, scope) + Len(own) = NextAddr(tab[i], scope)
    /\ \A n \in DOMAIN own : own[n].addr + n = NextAddr(tab[i], scope)

-----------------------------------------------------------------------------
(* The compiled references.                                                *)

\* With a class, the set has its known ancestors.
Closed(S) == \A i \in DOMAIN tab :
  tab[i].className \in S /\ tab[i].parent \notin {NoParent, CLASS_UNKNOWN} => tab[i].parent \in S

KnownAncestor(d, c) == \A S \in SUBSET Range(Names) : c \in S /\ Closed(S) => d \in S

\* The class variable an instruction has the address of, if it has one.
Meant(e) == e.op \in {"LVBI_CV", "LABI_CV", "LVBI_CVE", "LABI_CVE"} =>
  \E i \in DOMAIN tab : \E p \in Range(OfScope(tab[i].syms, "SC_CLASS")) :
    /\ e.meant = tab[i].className /\ p.ident = e.id /\ p.addr = e.addr /\ p.druh = "IdProm"
    /\ KnownAncestor(e.meant, IF e.qual = NoParent THEN e.in ELSE e.qual)

Compiled(e) ==
  /\ e.in \in Declared /\ e.context \subseteq BOOLEAN /\ e.id \in Words
  /\ e.op \notin ByAddress => e.sym \in DOMAIN ct /\ ct[e.sym].text = e.id
  /\ e.qual # NoParent => e.qsym \in DOMAIN ct /\ ct[e.qsym].text = e.qual
  /\ e.qual # NoParent <=> e.pushed = "class"
  /\ e.op \in {"LVBS_CVE", "LABS_CVE", "LVBI_CVE", "LABI_CVE"} => e.qual # NoParent
  /\ e.op \in {"LVBI_CV", "LABI_CV", "CALLS"} => e.qual = NoParent
  /\ e.op = "CALLS" => /\ e.parName \in Declared /\ ct[e.sym].cls \in DOMAIN ct
                       /\ ct[ct[e.sym].cls].text = e.parName

\* A symbol has a class of its own only when a call of super has given it one.
ConstantTable ==
  /\ ct \in Seq([text : Words, cls : Nat])
  /\ \A j \in DOMAIN ct : ct[j].cls # 0 =>
       /\ ct[j].cls \in DOMAIN ct
       /\ \E i \in DOMAIN code : /\ code[i].op = "CALLS" /\ code[i].id = ct[j].text
                                 /\ code[i].parName = ct[ct[j].cls].text

-----------------------------------------------------------------------------
(* The machine.                                                            *)

\* The classes of the running program are those that were parsed.
Linked ==
  /\ im = Link(Classes(bcout_to_file(tab)))
  /\ ParentsFound(im.classes) /\ Acyclic(im.up)

Started ==
  /\ status \in {"parse", "written"} => im = Null /\ last = Null
  /\ status = "written" => file = bcout_to_file(tab)
  /\ im # Null \/ last # Null \/ status = "run" => Linked
  /\ last # Null => last.i \in DOMAIN code

\* What the dispatch of methods rests on.
DispatchInv ==
  /\ program \in Programs /\ Listed
  /\ code \in Seq(Range(code)) /\ \A i \in DOMAIN code : Compiled(code[i])
  /\ ConstantTable /\ Started /\ DispatchNearest

ClassInv ==
  /\ DispatchInv /\ Addressed
  /\ \A i \in DOMAIN code : Meant(code[i])
  /\ StaticsResolve
=============================================================================

----------------------------- MODULE ClassRules -----------------------------
(***************************************************************************)
(* What classes promise: objects have a place of their own for every       *)
(* variable, references find the declaration that is nearest in the source *)
(* and the inline cache changes nothing.  The rules are stated over the    *)
(* classes as the source declares them; where the code breaks one, the     *)
(* circumstances are named.                                                *)
(***************************************************************************)
EXTENDS Classes

----------------------------------------------------------------------------
(* The hierarchy of the source.                                            *)

BuiltIns == Range(vm_init_builtin_classes)
Declared == {ce.className : ce \in Range(tab)}
AllNames == Declared \union {b.name : b \in BuiltIns}

SourceParent(c) == IF c \in Declared THEN hledejClass(tab, c).parentName ELSE NoParent

\* The parent of every class there is.
Hierarchy == [c \in AllNames |-> SourceParent(c)]

\* A class and its ancestors, in a program that the machine has linked.
LineageIn(parent, c) ==
  LET line[d \in DOMAIN parent] ==
        {d} \union IF parent[d] = NoParent THEN {} ELSE line[parent[d]]
  IN line[c]

Lineage(c) == LineageIn(Hierarchy, c)

\* The nearest ancestor of c, c included, in a set of classes; Null if there is none.
NearestOf(parent, S, c) ==
  LET candidates == S \intersect LineageIn(parent, c)
      near == {d \in candidates : candidates \subseteq LineageIn(parent, d)}
  IN IF near = {} THEN Null ELSE CHOOSE d \in near : TRUE

NearestIn(S, c) == NearestOf(Hierarchy, S, c)

Members(c, scope) ==
  IF c \in Declared THEN {p \in Range(hledejClass(tab, c).syms) : p.sc = scope} ELSE {}

WithStatic(id) ==
  {c \in Declared : \E p \in Members(c, "SC_CLASS") : p.ident = id}
    \union {b.name : b \in {d \in BuiltIns : \E s \in Range(d.syms_static) : s.name = id}}

\* Those where it is a constant.
WithConstant(id) ==
  {c \in Declared : \E p \in Members(c, "SC_CLASS") : p.ident = id /\ p.druh = "IdConst"}
    \union {b.name : b \in {d \in BuiltIns : \E s \in Range(d.syms_static) : s.name = id /\ s.const}}

WithMethod(id, static) ==
  {c \in Declared : LET ce == hledejClass(tab, c) IN
     \/ \E me \in Range(ce.methods) : me.methodName = id /\ me.isStatic = static
     \/ ce.constructor /\ c = id}
  \union {b.name : b \in {d \in BuiltIns :
     \/ \E me \in Range(d.methods) : me.methodName = id /\ me.isStatic = static
     \/ d.constructor /\ d.name = id}}

----------------------------------------------------------------------------
(* Circumstances in which the code breaks a rule.                          *)

\* An ancestor was declared before its own parent, so that both count the addresses
\* of their variables from 0.
ParentComesLater(c) ==
  \E d \in Lineage(c) \intersect Declared :
    hledejClass(tab, d).parent = CLASS_UNKNOWN /\ SourceParent(d) \in Declared

\* An ancestor is built in and its allocator makes an object when asked for an offset.
ParentAllocates(c) ==
  \E b \in BuiltIns : b.name \in Lineage(c) /\ b.allocator = "allocates"

\* SYM_STATIC looks at the first class variable of a class that has none.
HasNoStatics(c) == Members(c, "SC_CLASS") = {}

\* The name of a class is used as that of a method of super too, and the symbol,
\* of which there is one, has come to stand for the parent there.
Redirected(c) ==
  \E i \in DOMAIN code : code[i].op = "CALLS" /\ code[i].id = c /\ code[i].parName # c

----------------------------------------------------------------------------
NameOf(c) == im.classes[c].name
Executed(ops) == last # Null /\ code[last.i].op \in ops
Ins == code[last.i]

\* The places of the variables of an object of class c.
Places(c) == {<<d, p, INST_VAR(im, vm_find_class(im.classes, c), p.addr)>> :
                d \in Lineage(c), p \in UNION {Members(e, "SC_INSTANCE") : e \in Lineage(c)}}

PlacesOf(c) == {x \in Places(c) : x[2] \in Members(x[1], "SC_INSTANCE")}

NativePart(c) == IF Lineage(c) \intersect {"File", "Exception"} = {} THEN 0 ELSE 1

(* Every variable an object has, its own and the inherited ones, lies in   *)
(* the object, outside the part of a built-in ancestor, and no two share a *)
(* place: the addresses counted by the compiler and the sizes and offsets  *)
(* computed by the machine agree.                                          *)
LayoutSound ==
  im # Null =>
    \A c \in Declared : ParentComesLater(c) \/ ParentAllocates(c) \/
      LET k == vm_find_class(im.classes, c) IN
      /\ \A x \in PlacesOf(c) :
           x[3] >= NativePart(c) /\ x[3] < im.total[k] + im.offset[k]
      /\ \A x, y \in PlacesOf(c) : x[3] = y[3] => x = y

(* A reference to a class variable finds the variable the compiler meant   *)
(* or, when it left the search to the machine, that of the nearest class   *)
(* that declares the name; a constant is never given out for assignment,   *)
(* and nothing else is refused.                                            *)
StaticsResolve ==
  Executed({"LVBI_CV", "LABI_CV", "LVBI_CVE", "LABI_CVE", "LVBS_CVE", "LABS_CVE"}) =>
    LET byName == Ins.op \in {"LVBS_CVE", "LABS_CVE"}
        owner  == IF byName THEN NearestIn(WithStatic(Ins.id), Ins.qual) ELSE Ins.meant
    IN \/ last.out = Null /\ owner = Null
       \/ last.out = Null /\ Ins.op = "LABS_CVE" /\ owner \in WithConstant(Ins.id)
       \/ /\ last.out \notin {Null, Wild}
          /\ last.out.of = owner /\ last.out.id = Ins.id
          /\ Ins.op \in {"LABI_CV", "LABI_CVE", "LABS_CVE"} => ~last.out.const
       \/ ~byName /\ HasNoStatics(NameOf(last.c))
       \/ ~byName /\ ParentComesLater(NameOf(last.c))
       \/ Ins.qual # NoParent /\ Redirected(Ins.qual)

(* A call runs the method of the class that is nearest, in the source, to  *)
(* the receiver's, or to the parent for a call of super; new makes an      *)
(* object of the class it names.                                           *)
DispatchNearest ==
  /\ Executed({"CALL", "CALLE", "CALLS"}) =>
       LET from  == IF Ins.op = "CALLS" THEN Ins.parName ELSE NameOf(last.c)
           owner == NearestIn(WithMethod(Ins.id, last.static), from)
       IN \/ last.out = Null /\ owner = Null
          \/ last.out # Null /\ last.out.of = owner /\ last.out.method = Ins.id
          \/ last.mixed
  /\ Executed({"CALLE"}) =>
       \/ Ins.qual = NoParent \/ NameOf(last.c) = Ins.qual \/ Redirected(Ins.qual)
  /\ Executed({"NEW"}) => last.out.of = Ins.id \/ Redirected(Ins.id)

(* An instruction that takes its method from the inline cache takes the    *)
(* one the lookup would find, unless it has met both a class itself and    *)
(* an object of it: the cache knows the class alone.                       *)
CacheCoherent ==
  last # Null /\ last.hit =>
    last.mixed \/ last.out = vm_find_method_in_class(im, last.c, code[last.i].id, last.static)

=============================================================================

------------------------------ MODULE ClassImage ------------------------------
(***************************************************************************)
(* The classes of a program on their way into the virtual machine: written *)
(* to a file (compiler/bcout.cpp), loaded (vm/loader.c), joined by the     *)
(* built-in classes (vm/k_*.c), linked and laid out (vm/vm.c,              *)
(* vm_init_parent_pointers, vm_calculate_udo_sizes); and the lookups in    *)
(* them.                                                                   *)
(***************************************************************************)
EXTENDS References, Integers

CONSTANT Wild   \* what is read outside the array of an object or a class

----------------------------------------------------------------------------
(* The file: classes, and the members of each, in the order of the lists.  *)

classout_symbol(p) == [name |-> p.ident, addr |-> p.addr, const |-> p.druh = "IdConst"]

classout_prvektab_ll(syms) == [i \in DOMAIN syms |-> classout_symbol(syms[i])]

\* The members of one kind, in the order of the list; n counts from its end.
OfScope(syms, scope) ==
  LET own(p) == IF p.sc = scope THEN <<p>> ELSE <<>>
      last[n \in 0 .. Len(syms)] ==
        IF n = 0 THEN <<>> ELSE own(syms[Len(syms) + 1 - n]) \o last[n - 1]
  IN last[Len(syms)]

classout_class(ce) ==
  [name |-> ce.className,
   parent_name |-> ce.parentName,
   syms_static |-> classout_prvektab_ll(OfScope(ce.syms, "SC_CLASS")),
   syms_instance |-> classout_prvektab_ll(OfScope(ce.syms, "SC_INSTANCE")),
   constructor |-> ce.constructor,
   methods |-> ce.methods]

bcout_to_file(tab) == [i \in DOMAIN tab |-> classout_class(tab[i])]

----------------------------------------------------------------------------
(* The loader.                                                             *)

\* Mutant: the symbols stay in the order of the file.
kexe_load_symsForward(syms) == syms

\* The array is filled from its end: members are in the order of their addresses.
kexe_load_syms(syms) == Reverse(syms)

kexe_load_class(c) ==
  [name |-> c.name, allocator |-> "alloc_udo", parent_name |-> c.parent_name,
   syms_static |-> kexe_load_syms(c.syms_static),
   syms_instance |-> kexe_load_syms(c.syms_instance),
   constructor |-> c.constructor, methods |-> c.methods]

kexe_load_classes(file) == [i \in DOMAIN file |-> kexe_load_class(file[i])]

\* A built-in class: none has instance variables or a parent.  allocator is
\* "helper" for one that answers NULL with the first free place, 1.
BuiltIn(name, allocator, statics, methods) ==
  [name |-> name, parent_name |-> NoParent, allocator |-> allocator,
   syms_static |-> [i \in DOMAIN statics |->
                      [name |-> statics[i], addr |-> i - 1, const |-> TRUE]],
   syms_instance |-> <<>>, constructor |-> name \in {"Array", "File", "Exception"},
   methods |-> methods]

Instance(mth) == [methodName |-> mth, isStatic |-> FALSE]
Static(mth)   == [methodName |-> mth, isStatic |-> TRUE]

vm_init_builtin_classes ==
  <<BuiltIn("Array", "allocates", <<>>, <<Instance("length"), Instance("append")>>),
    BuiltIn("String", "none", <<>>,
            <<Instance("length"), Instance("split"), Instance("replace"), Instance("toInt"),
              Static("fromArray"), Static("fromInt"), Static("fromSymbol")>>),
    BuiltIn("File", "helper", <<>>,
            <<Instance("close"), Instance("readln"), Instance("writeln")>>),
    BuiltIn("Term", "allocates", <<>>, <<Instance("readln")>>),
    BuiltIn("Sys", "none", <<"out", "in", "err", "term">>,
            <<Static("rand"), Static("srand"), Static("time")>>),
    BuiltIn("Exception", "helper", <<>>, <<Instance("msg"), Instance("type")>>),
    BuiltIn("Meta", "none", <<>>, <<Static("_new")>>)>>

\* classes_g when all have been created.
Classes(file) == kexe_load_classes(file) \o vm_init_builtin_classes

----------------------------------------------------------------------------
(* Linking.  A class is known by its place in classes_g.                   *)

vm_find_class(cls, name) == SelectInSeq(cls, LAMBDA c : c.name = name)

\* 0 for no parent.
ParentPointers(cls) ==
  [i \in DOMAIN cls |->
     IF cls[i].parent_name = NoParent THEN 0 ELSE vm_find_class(cls, cls[i].parent_name)]

ParentsFound(cls) ==
  \A i \in DOMAIN cls : cls[i].parent_name # NoParent => ParentPointers(cls)[i] # 0

\* Whether the parents of a class come to an end: calc_total_syms_cnt, which has
\* not set the count of a class when it goes on to its parent, needs that.
Acyclic(up) ==
  LET longer(ending) == {i \in DOMAIN up : up[i] \in {0} \union ending}
      ending[n \in 0 .. Len(up)] == IF n = 0 THEN {} ELSE longer(ending[n - 1])
  IN ending[Len(up)] = DOMAIN up

calc_total_syms_cnt(cls, up) ==
  LET total[i \in DOMAIN cls] ==
        Len(cls[i].syms_instance) + IF up[i] = 0 THEN 0 ELSE total[up[i]]
  IN total

\* The offset of the first variable of a class of the program.  A built-in parent
\* is asked for it by calling its allocator; most make an object instead.
calc_syms_offset(cls, up) ==
  LET offset[i \in DOMAIN cls] ==
        CASE cls[i].allocator = "helper"    -> 1
          [] cls[i].allocator = "allocates" -> Wild
          [] cls[i].allocator = "none"      -> 0
          [] OTHER -> IF up[i] = 0 THEN 0 ELSE offset[up[i]]
  IN offset

vm_calculate_udo_sizes(cls, up) ==
  [total |-> calc_total_syms_cnt(cls, up), offset |-> calc_syms_offset(cls, up)]

\* The class a symbol stands for: the one its parent entry names, or its own name's.
vm_init_const_table_elems(ct, cls) ==
  [i \in DOMAIN ct |->
     vm_find_class(cls, IF ct[i].cls # 0 THEN ct[ct[i].cls].text ELSE ct[i].text)]

----------------------------------------------------------------------------
(* Lookups.  im is the linked image: classes, up, total, offset, symcls.   *)

\* Mutant: an instance method is found by a call to the class.
OwnMethodAnyKind(im, c, name, static) ==
  FirstIn(im.classes[c].methods, LAMBDA me : me.methodName = name)

OwnMethod(im, c, name, static) ==
  FirstIn(im.classes[c].methods, LAMBDA me : me.methodName = name /\ me.isStatic = static)

\* The class whose method it is and its name; constructors are found whatever the call.
vm_find_method_in_class(im, c, name, static) ==
  Nearest(im.up, LAMBDA d : IF \/ im.classes[d].constructor /\ im.classes[d].name = name
                               \/ OwnMethod(im, d, name, static) # Null
                            THEN [of |-> im.classes[d].name, method |-> name] ELSE Null, c)

\* A class variable: the class it is stored in and its place among that one's.
StaticSym(im, d, k) ==
  IF k \in 1 .. Len(im.classes[d].syms_static)
  THEN [of |-> im.classes[d].name, id |-> im.classes[d].syms_static[k].name,
        const |-> im.classes[d].syms_static[k].const]
  ELSE Wild

NamedSym(syms, name) == SelectInSeq(syms, LAMBDA s : s.name = name)

vm_find_static_sym_in_class(im, c, name) ==
  Nearest(im.up, LAMBDA d : IF NamedSym(im.classes[d].syms_static, name) = 0 THEN Null
                            ELSE StaticSym(im, d, NamedSym(im.classes[d].syms_static, name)), c)

vm_find_instance_sym_in_class(im, c, name) ==
  Nearest(im.up, LAMBDA d : IF NamedSym(im.classes[d].syms_instance, name) = 0 THEN Null
                            ELSE [of |-> im.classes[d].name,
                                  addr |-> im.classes[d].syms_instance
                                             [NamedSym(im.classes[d].syms_instance, name)].addr], c)

\* The ends of the walk of SYM_STATIC: up from c with the index k it has there.
SymStaticFrom(im, c, idx, k) ==
  LET first(d) == im.classes[d].syms_static[1].addr
      walk[d \in DOMAIN im.up] ==
        IF im.up[d] = 0 THEN Null     \* "Class member not found."
        ELSE LET p == im.up[d] IN
             IF im.classes[p].syms_static # <<>> /\ idx >= first(p)
             THEN StaticSym(im, p, idx - first(p) + 1)
             ELSE walk[p]
  IN IF k >= 0 THEN StaticSym(im, c, k + 1) ELSE walk[c]

\* SYM_STATIC reads the address of the first class variable of c even if c has none:
\* what it finds then is either too large, and the walk goes on, or it is not.
SYM_STATIC(im, c, idx) ==
  IF im.classes[c].syms_static # <<>>
  THEN {SymStaticFrom(im, c, idx, idx - im.classes[c].syms_static[1].addr)}
  ELSE {Wild, SymStaticFrom(im, c, idx, -1)}

\* INST_VAR: the place of a variable in an object of class c.
INST_VAR(im, c, addr) == IF im.offset[c] = Wild THEN Wild ELSE addr + im.offset[c]

=============================================================================

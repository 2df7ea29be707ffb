------------------------------- MODULE Classes -------------------------------
(***************************************************************************)
(* The life of a program's classes: the parser declares them and compiles  *)
(* the references in their methods, the compiler writes them to a file,    *)
(* the virtual machine loads, links and lays them out, and the interpreter *)
(* executes the references, each any number of times with any receiver it  *)
(* can have (vm/vm.c, vm_execute_bc).                                      *)
(*                                                                         *)
(* Which programs are tried is a constant, Programs: a set of records      *)
(*   parents, vars, methods, refs    what may be declared                  *)
(*   maxVars, maxMethods, maxRefs    how much of it                        *)
(* Classes are named in the order of their declaration.                    *)
(***************************************************************************)
EXTENDS ClassImage

CONSTANTS Programs, Names

VARIABLES
  program,  \* the bounds of the program being written
  tab,      \* TabClass
  ct,       \* the symbols of the constant table
  code,     \* the instructions of all references
  file,     \* the written classes
  im,       \* classes_g, their layout and the classes of the symbols
  cache,    \* the inline cache of each instruction
  last,     \* the last instruction executed and what it found
  status

compiled == <<program, tab, ct, code>>
vars == <<program, tab, ct, code, file, im, cache, last, status>>

Init ==
  /\ program \in Programs
  /\ tab = <<>> /\ ct = <<>> /\ code = <<>>
  /\ file = <<>> /\ im = Null /\ cache = <<>> /\ last = Null
  /\ status = "parse"

----------------------------------------------------------------------------
(* Compilation.                                                            *)

VarCount    == FoldLeft(LAMBDA n, ce : n + Len(ce.syms), 0, tab)
MethodCount ==
  FoldLeft(LAMBDA n, ce : n + Len(ce.methods) + IF ce.constructor THEN 1 ELSE 0, 0, tab)

Stop(why) ==
  /\ status' = why
  /\ UNCHANGED <<program, tab, ct, code, file, im, cache, last>>

Trida(par) ==
  /\ status = "parse" /\ Len(tab) < Len(Names)
  /\ tab' = deklClass(tab, Names[Len(tab) + 1], par)
  /\ UNCHANGED <<program, ct, code, file, im, cache, last, status>>

TridaAgain(name) == status = "parse" /\ ClassTwice(tab, name) /\ Stop("rejected")

Member(v) ==
  /\ status = "parse" /\ tab # <<>> /\ VarCount < program.maxVars
  /\ IF MemberTwice(tab, v.id) THEN Stop("rejected")
     ELSE /\ tab' = IF v.const THEN deklKonst(tab, v.id) ELSE deklProm(tab, v.id, v.static)
          /\ UNCHANGED <<program, ct, code, file, im, cache, last, status>>

\* The name of a method, or of the constructor of the class.
MethodName(me) == IF me.name = "constructor" THEN tab[1].className ELSE me.name

Metoda(me) ==
  /\ status = "parse" /\ tab # <<>> /\ MethodCount < program.maxMethods
  /\ IF MethodTwice(tab, MethodName(me), me.static) THEN Stop("rejected")
     ELSE /\ tab' = deklMethod(tab, MethodName(me), me.static)
          /\ UNCHANGED <<program, ct, code, file, im, cache, last, status>>

\* The method being parsed: the newest of the class, or its constructor.  Its context is
\* whether THIS is a class there; vm_find_method_in_class finds a constructor either way.
Contexts == (IF tab[1].methods # <<>> THEN {{tab[1].methods[1].isStatic}} ELSE {})
              \union (IF tab[1].constructor THEN {BOOLEAN} ELSE {})

\* The reference e is compiled.
Emitted(e, context) ==
  LET t == Translate(ct, e) IN
  /\ ct' = t.ct
  /\ code' = Append(code, [op |-> e.op, id |-> e.id, addr |-> e.addr, meant |-> e.meant,
                           qual |-> e.qual, parName |-> e.parName, pushed |-> e.pushed,
                           sym |-> t.sym, qsym |-> t.qsym,
                           in |-> tab[1].className, context |-> context])
  /\ UNCHANGED <<program, tab, file, im, cache, last, status>>

Compiles(e, context) ==
  \/ e.ends = "rejected" /\ Stop("rejected")
  \/ e.ends = "crashed"  /\ Stop("crashed")
  \/ e.ends = "inert"    /\ UNCHANGED vars
  \/ e.ends = "emits"    /\ Emitted(e, context)

Reference(r) ==
  /\ status = "parse" /\ tab # <<>>
  /\ Len(code) < program.maxRefs
  /\ \E context \in Contexts :
       \E e \in Resolve(tab, r, context = {TRUE}) : Compiles(e, context)

Write ==
  /\ status = "parse" /\ tab # <<>>
  /\ file' = bcout_to_file(tab) /\ status' = "written"
  /\ UNCHANGED <<compiled, im, cache, last>>

----------------------------------------------------------------------------
(* The start of the virtual machine: kexe_load, the built-in classes,      *)
(* parents, layout, symbols.                                               *)

Link(classes) ==
  LET up == ParentPointers(classes)
      sizes == vm_calculate_udo_sizes(classes, up)
  IN [classes |-> classes, up |-> up, total |-> sizes.total, offset |-> sizes.offset,
      symcls |-> vm_init_const_table_elems(ct, classes)]

Start ==
  /\ status = "written"
  /\ LET classes == Classes(file) IN
     IF ~ParentsFound(classes) THEN Stop("aborted")
     ELSE IF ~Acyclic(ParentPointers(classes)) THEN Stop("overflow")
     ELSE /\ im' = Link(classes)
          /\ cache' = [i \in DOMAIN code |-> Null]
          /\ status' = "run"
          /\ UNCHANGED <<compiled, file, last>>

----------------------------------------------------------------------------
(* Execution.  A receiver is a class, or an object of it.                  *)

Line(c) ==
  LET line[d \in DOMAIN im.up] == {d} \union IF im.up[d] = 0 THEN {} ELSE line[im.up[d]]
  IN line[c]

Receivers == [c : 1 .. Len(tab), isClass : BOOLEAN]
This(i) == {th \in Receivers : /\ th.isClass \in code[i].context
                               /\ vm_find_class(im.classes, code[i].in) \in Line(th.c)}

At(i, ops) == status = "run" /\ i \in DOMAIN code /\ code[i].op \in ops

\* What the instruction has looked up; vm_error ends the program if there is nothing.
Found(i, c, static, out) ==
  /\ last' = [i |-> i, c |-> c, static |-> static, out |-> out, hit |-> FALSE, mixed |-> FALSE]
  /\ status' = IF out = Null THEN "stopped" ELSE status
  /\ UNCHANGED <<compiled, file, im, cache>>

\* An address is not given out for a constant.
Assignable(i, s) ==
  IF s \in {Null, Wild} \/ code[i].op \notin {"LABI_CV", "LABI_CVE", "LABS_CVE"} THEN s
  ELSE IF s.const THEN Null ELSE s

StaticOfThis(i) ==
  /\ At(i, {"LVBI_CV", "LABI_CV"})
  /\ \E th \in This(i) : \E s \in SYM_STATIC(im, th.c, code[i].addr) :
       Found(i, th.c, th.isClass, Assignable(i, s))

\* LD_CLASS before the instruction.
Qualifier(i) == im.symcls[code[i].qsym]
NoClass(i) == Qualifier(i) = 0 /\ Stop("stopped")

StaticOfClass(i) ==
  /\ At(i, {"LVBI_CVE", "LABI_CVE"})
  /\ \/ NoClass(i)
     \/ /\ Qualifier(i) # 0
        /\ \E s \in SYM_STATIC(im, Qualifier(i), code[i].addr) :
             Found(i, Qualifier(i), TRUE, Assignable(i, s))

StaticByName(i) ==
  /\ At(i, {"LVBS_CVE", "LABS_CVE"})
  /\ \/ NoClass(i)
     \/ /\ Qualifier(i) # 0
        /\ Found(i, Qualifier(i), TRUE,
                 Assignable(i, vm_find_static_sym_in_class(im, Qualifier(i), code[i].id)))

\* A class as THIS fails an assertion.
InstanceOfThis(i) ==
  /\ At(i, {"LVBI_IV", "LABI_IV"})
  /\ \E th \in This(i) :
       IF th.isClass THEN Stop("aborted")
       ELSE Found(i, th.c, FALSE, INST_VAR(im, th.c, code[i].addr))

\* A class on the stack fails an assertion.
InstanceByName(i) ==
  /\ At(i, {"LVBS_IVE", "LABS_IVE"})
  /\ \E r \in Receivers :
       IF r.isClass THEN Stop("aborted")
       ELSE LET s == vm_find_instance_sym_in_class(im, r.c, code[i].id) IN
            Found(i, r.c, FALSE, IF s = Null THEN Null ELSE INST_VAR(im, r.c, s.addr))

----------------------------------------------------------------------------
(* Calls and the inline cache.                                             *)

\* Mutant: an entry is used whatever the class.
HitAny(i, c) == cache[i] # Null

Hit(i, c) == cache[i] # Null /\ cache[i].cls = c

Call(i, c, static) ==
  LET mth == IF Hit(i, c) THEN cache[i].mth
             ELSE vm_find_method_in_class(im, c, code[i].id, static)
  IN /\ last' = [i |-> i, c |-> c, static |-> static, out |-> mth, hit |-> Hit(i, c),
                 mixed |-> Hit(i, c) /\ cache[i].static # static]
     /\ cache' = IF Hit(i, c) \/ mth = Null THEN cache
                 ELSE [cache EXCEPT ![i] = [cls |-> c, static |-> static, mth |-> mth]]
     /\ status' = IF mth = Null THEN "stopped" ELSE status
     /\ UNCHANGED <<compiled, file, im>>

\* CALL and CALLS put THIS on the stack themselves, whatever is there.
CALL(i)  == At(i, {"CALL"}) /\ \E th \in This(i) : Call(i, th.c, th.isClass)
CALLS(i) == At(i, {"CALLS"}) /\ \E th \in This(i) : Call(i, im.symcls[code[i].sym], th.isClass)

CALLE(i) ==
  /\ At(i, {"CALLE"})
  /\ \/ /\ code[i].pushed = "object"
        /\ \E r \in Receivers : Call(i, r.c, r.isClass)
     \/ /\ code[i].pushed = "class"
        /\ NoClass(i) \/ (Qualifier(i) # 0 /\ Call(i, Qualifier(i), TRUE))
     \/ /\ code[i].pushed = "nothing"     \* whatever the stack holds is called
        /\ Stop("crashed")

NewObject(i) ==
  /\ At(i, {"NEW"})
  /\ LET c == im.symcls[code[i].sym] IN
     IF c = 0 THEN Stop("stopped")
     ELSE Found(i, c, FALSE, [of |-> im.classes[c].name, method |-> im.classes[c].name])

----------------------------------------------------------------------------
Execute(i) ==
  \/ StaticOfThis(i) \/ StaticOfClass(i) \/ StaticByName(i)
  \/ InstanceOfThis(i) \/ InstanceByName(i)
  \/ CALL(i) \/ CALLS(i) \/ CALLE(i) \/ NewObject(i)

Next ==
  \/ \E par \in program.parents : Trida(par)
  \/ \E name \in Range(Names) : TridaAgain(name)
  \/ \E v \in program.vars : Member(v)
  \/ \E me \in program.methods : Metoda(me)
  \/ \E r \in program.refs : Reference(r)
  \/ Write
  \/ Start
  \/ \E i \in DOMAIN code : Execute(i)

Spec == Init /\ [][Next]_vars

=============================================================================

--------------------------- MODULE Classes_proofs ---------------------------
(***************************************************************************)
(* What holds in every program, whatever its classes, members and          *)
(* references: the inline cache is coherent, calls run the method of the   *)
(* nearest class, the places of an object's variables are its own, and a   *)
(* class variable found is the one that was meant.                         *)
(*                                                                         *)
(* The first part is about the cache alone.  The others rest on ClassInv   *)
(* (ClassesInvariant): what the parser, the table of the compiler, the     *)
(* constant table and the linked classes have in common.  What a search    *)
(* computes is reached through the recursion of the module Induction, and  *)
(* what it finds by going down the hierarchy of the classes.               *)
(***************************************************************************)
EXTENDS ClassesInvariant, Induction

-----------------------------------------------------------------------------
(* The inline cache.  Once the machine has started, neither the classes    *)
(* nor the code change, and an entry is what the lookup found for the      *)
(* class and the kind of call it was made for.                             *)

\* What the lookup finds for the method an instruction names.
LookedUp(i, c, static) == vm_find_method_in_class(im, c, code[i].id, static)

\* Every entry is what the lookup found when the entry was made.
EntriesFresh ==
  \A i \in DOMAIN cache :
    cache[i] # Null => cache[i].mth = LookedUp(i, cache[i].cls, cache[i].static)

\* Before the machine has started nothing has been executed.
NothingYet == status \in {"parse", "written"} => cache = <<>> /\ last = Null

\* Every instruction has its cache.
CachePerInstruction == status = "run" => DOMAIN cache = DOMAIN code

CacheInv == EntriesFresh /\ NothingYet /\ CachePerInstruction /\ CacheCoherent

\* A step that stops the program, or leaves everything as it is.
LEMMA StopKeeps ==
  ASSUME CacheInv, NEW why, why \notin {"parse", "written", "run"}, Stop(why)
  PROVE  CacheInv'
  BY DEF CacheInv, EntriesFresh, NothingYet, CachePerInstruction, CacheCoherent, LookedUp, Stop

\* Compilation.
LEMMA ParsingKeeps ==
  ASSUME CacheInv, status = "parse", cache' = cache, last' = last, status' \in {"parse", "written"}
  PROVE  CacheInv'
  <1>1. cache = <<>> /\ last = Null
    BY DEF CacheInv, NothingYet
  <1>2. cache' = <<>> /\ last' = Null
    BY <1>1
  <1>3. DOMAIN cache' = {}
    BY <1>2
  <1> QED
    BY <1>2, <1>3 DEF CacheInv, EntriesFresh, NothingYet, CachePerInstruction, CacheCoherent

\* The start of the machine.
LEMMA StartKeeps ==
  ASSUME CacheInv, Start
  PROVE  CacheInv'
  <1>1. cache = <<>> /\ last = Null
    BY DEF CacheInv, NothingYet, Start
  <1> DEFINE classes == Classes(file)
  <1>2. CASE ~ParentsFound(classes)
    BY <1>2, StopKeeps DEF Start
  <1>3. CASE ParentsFound(classes) /\ ~Acyclic(ParentPointers(classes))
    BY <1>3, StopKeeps DEF Start
  <1>4. CASE ParentsFound(classes) /\ Acyclic(ParentPointers(classes))
    <2>1. /\ cache' = [i \in DOMAIN code |-> Null]
          /\ last' = last /\ status' = "run" /\ code' = code
      BY <1>4 DEF Start, compiled
    <2> QED
      BY <1>1, <2>1 DEF CacheInv, EntriesFresh, NothingYet, CachePerInstruction, CacheCoherent
  <1> QED
    BY <1>2, <1>3, <1>4

\* An instruction that is no call.
LEMMA FoundKeeps ==
  ASSUME CacheInv, status = "run", NEW i, NEW c, NEW static, NEW out, Found(i, c, static, out)
  PROVE  CacheInv'
  <1>1. /\ last'.hit = FALSE /\ cache' = cache /\ im' = im /\ code' = code
        /\ status' \in {"run", "stopped"}
    BY DEF Found, compiled
  <1>2. EntriesFresh'
    BY <1>1 DEF CacheInv, EntriesFresh, LookedUp
  <1> QED
    BY <1>1, <1>2 DEF CacheInv, NothingYet, CachePerInstruction, CacheCoherent

\* A call: a hit repeats the entry, a miss puts what the lookup finds.
LEMMA CallKeeps ==
  ASSUME CacheInv, status = "run", NEW i \in DOMAIN code, NEW c, NEW static,
         Call(i, c, static)
  PROVE  CacheInv'
  <1> DEFINE mth == IF Hit(i, c) THEN cache[i].mth ELSE LookedUp(i, c, static)
  <1>1. /\ im' = im /\ code' = code /\ status' \in {"run", "stopped"}
        /\ last' = [i |-> i, c |-> c, static |-> static, out |-> mth, hit |-> Hit(i, c),
                    mixed |-> Hit(i, c) /\ cache[i].static # static]
        /\ cache' = IF Hit(i, c) \/ mth = Null THEN cache
                    ELSE [cache EXCEPT ![i] = [cls |-> c, static |-> static, mth |-> mth]]
    BY DEF Call, compiled, LookedUp
  <1>2. CacheCoherent'
    <2>1. CASE Hit(i, c) /\ cache[i].static = static
      <3>1. mth = LookedUp(i, c, static)
        BY <2>1 DEF CacheInv, EntriesFresh, CachePerInstruction, Hit
      <3> QED
        BY <1>1, <3>1 DEF CacheCoherent, LookedUp
    <2>2. CASE ~(Hit(i, c) /\ cache[i].static = static)
      BY <1>1, <2>2 DEF CacheCoherent
    <2> QED
      BY <2>1, <2>2
  <1>3. EntriesFresh'
    <2>1. CASE Hit(i, c) \/ mth = Null
      BY <1>1, <2>1 DEF CacheInv, EntriesFresh, LookedUp
    <2>2. CASE ~Hit(i, c) /\ mth # Null
      <3>1. cache' = [cache EXCEPT ![i] = [cls |-> c, static |-> static, mth |-> mth]]
        BY <1>1, <2>2
      <3>2. mth = LookedUp(i, c, static)
        BY <2>2
      <3> QED
        BY <1>1, <3>1, <3>2 DEF CacheInv, EntriesFresh, LookedUp
    <2> QED
      BY <2>1, <2>2
  <1> QED
    BY <1>1, <1>2, <1>3 DEF CacheInv, NothingYet, CachePerInstruction

\* The program before anything is declared.
LEMMA InitIsCoherent == Init => CacheInv
  BY DEF Init, CacheInv, EntriesFresh, NothingYet, CachePerInstruction, CacheCoherent

\* The actions of the compiler.
LEMMA CompilerKeeps ==
  ASSUME CacheInv,
         \/ \E par \in program.parents : Trida(par)
         \/ \E name \in Range(Names) : TridaAgain(name)
         \/ \E v \in program.vars : Member(v)
         \/ \E me \in program.methods : Metoda(me)
         \/ \E r \in program.refs : Reference(r)
         \/ Write
  PROVE  CacheInv'
  <1>1. CASE \E par \in program.parents : Trida(par)
    BY <1>1, ParsingKeeps DEF Trida
  <1>2. CASE \E name \in Range(Names) : TridaAgain(name)
    BY <1>2, StopKeeps DEF TridaAgain
  <1>3. ASSUME NEW v \in program.vars, Member(v) PROVE CacheInv'
    <2>1. CASE MemberTwice(tab, v.id)
      BY <1>3, <2>1, StopKeeps DEF Member
    <2>2. CASE ~MemberTwice(tab, v.id)
      BY <1>3, <2>2, ParsingKeeps DEF Member
    <2> QED
      BY <2>1, <2>2
  <1>4. ASSUME NEW me \in program.methods, Metoda(me) PROVE CacheInv'
    <2>1. CASE MethodTwice(tab, MethodName(me), me.static)
      BY <1>4, <2>1, StopKeeps DEF Metoda
    <2>2. CASE ~MethodTwice(tab, MethodName(me), me.static)
      BY <1>4, <2>2, ParsingKeeps DEF Metoda
    <2> QED
      BY <2>1, <2>2
  <1>5. ASSUME NEW r \in program.refs, Reference(r) PROVE CacheInv'
    <2>1. PICK e, static : Compiles(e, static)
      BY <1>5 DEF Reference
    <2>2. status = "parse"
      BY <1>5 DEF Reference
    <2> QED
      BY <2>1, <2>2, StopKeeps, ParsingKeeps DEF Compiles, vars, Emitted
  <1>6. CASE Write
    BY <1>6, ParsingKeeps DEF Write
  <1> QED
    BY <1>1, <1>2, <1>3, <1>4, <1>5, <1>6

\* The instructions.
LEMMA ExecuteKeeps ==
  ASSUME CacheInv, NEW i \in DOMAIN code, Execute(i)
  PROVE  CacheInv'
  <1>1. CASE StaticOfThis(i)
    BY <1>1, FoundKeeps DEF StaticOfThis, At
  <1>2. CASE StaticOfClass(i)
    BY <1>2, FoundKeeps, StopKeeps DEF StaticOfClass, NoClass, At
  <1>3. CASE StaticByName(i)
    BY <1>3, FoundKeeps, StopKeeps DEF StaticByName, NoClass, At
  <1>4. CASE InstanceOfThis(i)
    <2>1. status = "run"
      BY <1>4 DEF InstanceOfThis, At
    <2>2. PICK th \in This(i) :
            IF th.isClass THEN Stop("aborted")
            ELSE Found(i, th.c, FALSE, INST_VAR(im, th.c, code[i].addr))
      BY <1>4 DEF InstanceOfThis
    <2> QED
      BY <2>1, <2>2, FoundKeeps, StopKeeps
  <1>5. CASE InstanceByName(i)
    <2>1. status = "run"
      BY <1>5 DEF InstanceByName, At
    <2>2. PICK r \in Receivers :
            IF r.isClass THEN Stop("aborted")
            ELSE LET s == vm_find_instance_sym_in_class(im, r.c, code[i].id) IN
                 Found(i, r.c, FALSE, IF s = Null THEN Null ELSE INST_VAR(im, r.c, s.addr))
      BY <1>5 DEF InstanceByName
    <2> QED
      BY <2>1, <2>2, FoundKeeps, StopKeeps
  <1>6. CASE CALL(i)
    BY <1>6, CallKeeps DEF CALL, At
  <1>7. CASE CALLS(i)
    BY <1>7, CallKeeps DEF CALLS, At
  <1>8. CASE CALLE(i)
    BY <1>8, CallKeeps, StopKeeps DEF CALLE, NoClass, At
  <1>9. CASE NewObject(i)
    <2>1. CASE im.symcls[code[i].sym] = 0
      BY <1>9, <2>1, StopKeeps DEF NewObject
    <2>2. CASE im.symcls[code[i].sym] # 0
      BY <1>9, <2>2, FoundKeeps DEF NewObject, At
    <2> QED
      BY <2>1, <2>2
  <1> QED
    BY <1>1, <1>2, <1>3, <1>4, <1>5, <1>6, <1>7, <1>8, <1>9 DEF Execute

LEMMA StepKeeps == CacheInv /\ [Next]_vars => CacheInv'
  <1> SUFFICES ASSUME CacheInv, [Next]_vars PROVE CacheInv'
    OBVIOUS
  <1>1. CASE UNCHANGED vars
    BY <1>1 DEF vars, CacheInv, EntriesFresh, NothingYet, CachePerInstruction, CacheCoherent, LookedUp
  <1>2. CASE Next
    BY <1>2, CompilerKeeps, StartKeeps, ExecuteKeeps DEF Next
  <1> QED
    BY <1>1, <1>2

(* Whatever the classes of a program and the order of its instructions, an *)
(* instruction that takes its method from the inline cache takes the one   *)
(* the lookup would find, unless it has met a class and an object of it.   *)
THEOREM CacheIsCoherent == Spec => []CacheCoherent
  <1>1. CacheInv => CacheCoherent
    BY DEF CacheInv
  <1> QED
    BY <1>1, InitIsCoherent, StepKeeps, PTL DEF Spec

-----------------------------------------------------------------------------
(* The hierarchy.                                                          *)

\* The least of a set of numbers.
LEMMA MinIn ==
  ASSUME NEW I \in SUBSET Nat, I # {}
  PROVE  Min(I) \in I /\ \A x \in I : Min(I) <= x
<1>1. \E x \in I : \A y \in I : x <= y
  BY LeastNat
<1>. QED
  BY <1>1 DEF Min

-----------------------------------------------------------------------------
(* The classes of the machine.                                             *)

\* vm_find_class finds the first class of that name.
LEMMA FindClass ==
  ASSUME NEW cls, Len(cls) \in Nat, NEW name
  PROVE  LET k == vm_find_class(cls, name) IN
         \/ k = 0 /\ \A i \in 1 .. Len(cls) : cls[i].name # name
         \/ k \in 1 .. Len(cls) /\ cls[k].name = name
<1>. DEFINE I == {i \in 1 .. Len(cls) : cls[i].name = name}
<1>1. CASE I = {}
  BY <1>1 DEF vm_find_class, SelectInSeq
<1>2. CASE I # {}
  <2>1. vm_find_class(cls, name) = Min(I)
    BY <1>2 DEF vm_find_class, SelectInSeq
  <2>2. I \in SUBSET Nat
    OBVIOUS
  <2>. QED
    BY <1>2, <2>1, <2>2, MinIn
<1>. QED
  BY <1>1, <1>2

BuiltInAt(i) == vm_init_builtin_classes[i]

LEMMA BuiltInMethods ==
  \A b \in 1 .. 7 : \A k \in DOMAIN BuiltInAt(b).methods :
    BuiltInAt(b).methods[k].methodName \in Words => BuiltInAt(b).methods[k] \in MethodEnvs
<1>. DEFINE Made(x) == \E n : x = Instance(n) \/ x = Static(n)
            AllMade(b) == \A k \in DOMAIN BuiltInAt(b).methods : Made(BuiltInAt(b).methods[k])
<1>a. \A n : Made(Instance(n)) /\ Made(Static(n))
  OBVIOUS
<1>b. /\ BuiltInAt(1).methods = <<Instance("length"), Instance("append")>>
      /\ BuiltInAt(4).methods = <<Instance("readln")>>
      /\ BuiltInAt(6).methods = <<Instance("msg"), Instance("type")>>
      /\ BuiltInAt(7).methods = <<Static("_new")>>
  BY DEF vm_init_builtin_classes, BuiltInAt, BuiltIn
<1>c. BuiltInAt(2).methods =
        <<Instance("length"), Instance("split"), Instance("replace"), Instance("toInt"),
          Static("fromArray"), Static("fromInt"), Static("fromSymbol")>>
  BY DEF vm_init_builtin_classes, BuiltInAt, BuiltIn
<1>d. BuiltInAt(3).methods = <<Instance("close"), Instance("readln"), Instance("writeln")>>
  BY DEF vm_init_builtin_classes, BuiltInAt, BuiltIn
<1>e. BuiltInAt(5).methods = <<Static("rand"), Static("srand"), Static("time")>>
  BY DEF vm_init_builtin_classes, BuiltInAt, BuiltIn
<1>f. AllMade(1) /\ AllMade(4) /\ AllMade(6) /\ AllMade(7)
  <2>. HIDE DEF Made
  <2>. QED
    BY <1>a, <1>b
<1>g. AllMade(2)
  <2>. HIDE DEF Made
  <2>. QED
    BY <1>a, <1>c
<1>h. AllMade(3) /\ AllMade(5)
  <2>. HIDE DEF Made
  <2>. QED
    BY <1>a, <1>d, <1>e
<1>1. \A i \in {1, 2, 3, 4, 5, 6, 7} : AllMade(i)
  BY <1>f, <1>g, <1>h
<1>2. \A i \in 1 .. 7 : i \in {1, 2, 3, 4, 5, 6, 7}
  OBVIOUS
<1>3. \A n \in Words : Instance(n) \in MethodEnvs /\ Static(n) \in MethodEnvs
  BY DEF Instance, Static, MethodEnvs
<1>4. \A n : Instance(n).methodName = n /\ Static(n).methodName = n
  BY DEF Instance, Static
<1>. QED
  BY <1>1, <1>2, <1>3, <1>4

IsList(s) == Len(s) \in Nat /\ DOMAIN s = 1 .. Len(s)

LEMMA BuiltInFacts ==
  /\ IsList(vm_init_builtin_classes) /\ Len(vm_init_builtin_classes) = 7
  /\ \A i \in 1 .. 7 : /\ BuiltInAt(i).parent_name = NoParent
                       /\ BuiltInAt(i).syms_instance = <<>>
                       /\ BuiltInAt(i).allocator \in {"allocates", "none", "helper"}
                       /\ BuiltInAt(i).allocator = "helper" <=> BuiltInAt(i).name \in {"File", "Exception"}
                       /\ IsList(BuiltInAt(i).methods) /\ IsList(BuiltInAt(i).syms_static)
                       /\ BuiltInAt(i).name # NoParent
  /\ \A i, j \in 1 .. 7 : BuiltInAt(i).name = BuiltInAt(j).name => i = j
<1>0. /\ Len(vm_init_builtin_classes) = 7 /\ DOMAIN vm_init_builtin_classes = 1 .. 7
      /\ \A i \in 1 .. 7 : i \in {1, 2, 3, 4, 5, 6, 7}
  BY DEF vm_init_builtin_classes
<1>1. /\ BuiltInAt(1).name = "Array" /\ BuiltInAt(2).name = "String" /\ BuiltInAt(3).name = "File"
      /\ BuiltInAt(4).name = "Term" /\ BuiltInAt(5).name = "Sys" /\ BuiltInAt(6).name = "Exception"
      /\ BuiltInAt(7).name = "Meta"
  BY DEF vm_init_builtin_classes, BuiltInAt, BuiltIn
<1>2. /\ BuiltInAt(1).allocator = "allocates" /\ BuiltInAt(2).allocator = "none"
      /\ BuiltInAt(3).allocator = "helper" /\ BuiltInAt(4).allocator = "allocates"
      /\ BuiltInAt(5).allocator = "none" /\ BuiltInAt(6).allocator = "helper"
      /\ BuiltInAt(7).allocator = "none"
  BY DEF vm_init_builtin_classes, BuiltInAt, BuiltIn
<1>3. \A i \in 1 .. 7 : /\ BuiltInAt(i).parent_name = NoParent /\ BuiltInAt(i).syms_instance = <<>>
  <2>1. \A i \in {1, 2, 3, 4, 5, 6, 7} :
           /\ BuiltInAt(i).parent_name = NoParent /\ BuiltInAt(i).syms_instance = <<>>
    BY DEF vm_init_builtin_classes, BuiltInAt, BuiltIn
  <2>. QED
    BY <1>0, <2>1
<1>4. \A i \in 1 .. 7 : IsList(BuiltInAt(i).methods)
  <2>1. \A i \in {1, 2, 3, 4, 5, 6, 7} : IsList(BuiltInAt(i).methods)
    BY DEF vm_init_builtin_classes, BuiltInAt, BuiltIn, IsList
  <2>. QED
    BY <1>0, <2>1
<1>5. \A i \in 1 .. 7 : IsList(BuiltInAt(i).syms_static)
  <2>1. IsList(BuiltInAt(5).syms_static)
    <3>. DEFINE names == <<"out", "in", "err", "term">>
                sym(i) == [name |-> names[i], addr |-> i - 1, const |-> TRUE]
    <3>1. BuiltInAt(5).syms_static = [i \in DOMAIN names |-> sym(i)]
      BY DEF vm_init_builtin_classes, BuiltInAt, BuiltIn
    <3>2. DOMAIN names = 1 .. 4
      OBVIOUS
    <3>. HIDE DEF names, sym
    <3>3. BuiltInAt(5).syms_static = [i \in 1 .. 4 |-> sym(i)]
      BY <3>1, <3>2
    <3>. QED
      BY <3>3 DEF IsList
  <2>2. \A i \in {1, 2, 3, 4, 6, 7} : BuiltInAt(i).syms_static = <<>>
    BY DEF vm_init_builtin_classes, BuiltInAt, BuiltIn
  <2>3. IsList(<<>>)
    BY DEF IsList
  <2>. QED
    BY <1>0, <2>1, <2>2, <2>3
<1>6. \A i \in 1 .. 7 : /\ BuiltInAt(i).allocator \in {"allocates", "none", "helper"}
                        /\ BuiltInAt(i).allocator = "helper" <=> BuiltInAt(i).name \in {"File", "Exception"}
  <2>1. \A i \in {1, 2, 3, 4, 5, 6, 7} :
          /\ BuiltInAt(i).allocator \in {"allocates", "none", "helper"}
          /\ BuiltInAt(i).allocator = "helper" <=> BuiltInAt(i).name \in {"File", "Exception"}
    BY <1>1, <1>2
  <2>. QED
    BY <1>0, <2>1
<1>7. \A i, j \in 1 .. 7 : BuiltInAt(i).name = BuiltInAt(j).name => i = j
  <2>1. \A i, j \in {1, 2, 3, 4, 5, 6, 7} : BuiltInAt(i).name = BuiltInAt(j).name => i = j
    BY <1>1
  <2>. QED
    BY <1>0, <2>1
<1>8. \A i \in 1 .. 7 : BuiltInAt(i).name # NoParent
  <2>1. \A i \in {1, 2, 3, 4, 5, 6, 7} : BuiltInAt(i).name # NoParent
    BY <1>1 DEF NoParent
  <2>. QED
    BY <1>0, <2>1
<1>. QED
  BY <1>0, <1>3, <1>4, <1>5, <1>6, <1>7, <1>8 DEF IsList

LEMMA Concat ==
  ASSUME NEW s, NEW t, IsList(s), IsList(t), s = [i \in DOMAIN s |-> s[i]], t = [i \in DOMAIN t |-> t[i]]
  PROVE  /\ IsList(s \o t) /\ Len(s \o t) = Len(s) + Len(t)
         /\ \A i \in 1 .. Len(s) : (s \o t)[i] = s[i]
         /\ \A i \in 1 .. Len(t) : (s \o t)[Len(s) + i] = t[i]
<1>1. PICK S : \A i \in 1 .. Len(s) : s[i] \in S
  <2>1. \A i \in 1 .. Len(s) : s[i] \in {s[j] : j \in 1 .. Len(s)}
    OBVIOUS
  <2>. QED
    BY <2>1
<1>2. PICK T : \A i \in 1 .. Len(t) : t[i] \in T
  <2>1. \A i \in 1 .. Len(t) : t[i] \in {t[j] : j \in 1 .. Len(t)}
    OBVIOUS
  <2>. QED
    BY <2>1
<1>3. s \in Seq(S \union T) /\ t \in Seq(S \union T)
  <2>1. s \in [1 .. Len(s) -> S \union T] /\ t \in [1 .. Len(t) -> S \union T]
    BY <1>1, <1>2 DEF IsList
  <2>. QED
    BY <2>1 DEF IsList
<1>. QED
  BY <1>3 DEF IsList

LEMMA ImageClasses ==
  ASSUME Listed, Linked
  PROVE  /\ IsList(im.classes) /\ Len(im.classes) = Len(tab) + 7
         /\ \A i \in 1 .. Len(tab) : im.classes[i] = kexe_load_class(classout_class(tab[i]))
         /\ \A i \in 1 .. 7 : im.classes[Len(tab) + i] = BuiltInAt(i)
<1>. DEFINE own == kexe_load_classes(bcout_to_file(tab))
<1>1. im.classes = own \o vm_init_builtin_classes
  BY DEF Linked, Link, Classes
<1>2. IsList(tab)
  BY DEF Listed, IsList
<1>3. own = [i \in 1 .. Len(tab) |-> kexe_load_class(classout_class(tab[i]))]
  BY <1>2 DEF kexe_load_classes, bcout_to_file, IsList
<1>. HIDE DEF own
<1>4. IsList(own) /\ Len(own) = Len(tab) /\ own = [i \in DOMAIN own |-> own[i]]
  BY <1>2, <1>3 DEF IsList
<1>5. vm_init_builtin_classes = [i \in DOMAIN vm_init_builtin_classes |-> vm_init_builtin_classes[i]]
  BY DEF vm_init_builtin_classes
<1>6. /\ IsList(im.classes) /\ Len(im.classes) = Len(own) + Len(vm_init_builtin_classes)
      /\ \A i \in 1 .. Len(own) : im.classes[i] = own[i]
      /\ \A i \in 1 .. Len(vm_init_builtin_classes) :
            im.classes[Len(own) + i] = vm_init_builtin_classes[i]
  <2>1. PICK a, b : a = own /\ b = vm_init_builtin_classes
    OBVIOUS
  <2>2. IsList(a) /\ IsList(b) /\ a = [i \in DOMAIN a |-> a[i]] /\ b = [i \in DOMAIN b |-> b[i]]
    BY <1>4, <1>5, <2>1, BuiltInFacts
  <2>3. /\ IsList(a \o b) /\ Len(a \o b) = Len(a) + Len(b)
        /\ \A i \in 1 .. Len(a) : (a \o b)[i] = a[i]
        /\ \A i \in 1 .. Len(b) : (a \o b)[Len(a) + i] = b[i]
    BY <2>2, Concat
  <2>. QED
    BY <1>1, <2>1, <2>3
<1>7. Len(vm_init_builtin_classes) = 7
  BY BuiltInFacts
<1>8. \A i \in 1 .. 7 : im.classes[Len(tab) + i] = BuiltInAt(i)
  BY <1>4, <1>6, <1>7 DEF BuiltInAt
<1>9. \A i \in 1 .. Len(tab) : im.classes[i] = kexe_load_class(classout_class(tab[i]))
  BY <1>3, <1>4, <1>6
<1>. QED
  BY <1>4, <1>6, <1>7, <1>8, <1>9

\* The places of all classes, and of those of the program.
ClassIds == 1 .. Len(tab) + 7
Own      == 1 .. Len(tab)

LEMMA TabFacts ==
  ASSUME Listed
  PROVE  /\ IsList(tab) /\ DOMAIN tab = Own /\ Len(tab) \in Nat /\ Own \subseteq ClassIds
         /\ Declared = {tab[i].className : i \in Own}
         /\ \A i, j \in Own : tab[i].className = tab[j].className => i = j
         /\ \A i \in Own : tab[i] \in ClassEnvs /\ tab[i].className \in Range(Names)
         /\ \A i \in Own : hledejClass(tab, tab[i].className) = tab[i]
         /\ \A id : id \notin Declared => hledejClass(tab, id) = Null
<1>1. /\ tab \in Seq(ClassEnvs) /\ DOMAIN tab = Own /\ Len(tab) \in Nat
      /\ Len(Names) \in Nat /\ DOMAIN Names = 1 .. Len(Names) /\ Len(tab) <= Len(Names)
  BY NamesAssumption DEF Listed, Own
<1>2. \A i \in Own : tab[i] \in ClassEnvs /\ tab[i].className \in Range(Names)
  <2>1. \A i \in Own : tab[i] \in ClassEnvs
    BY <1>1 DEF Own
  <2>2. \A ce \in ClassEnvs : ce.className \in Range(Names)
    BY DEF ClassEnvs
  <2>. QED
    BY <2>1, <2>2
<1>3. ASSUME NEW i \in Own, NEW j \in Own, tab[i].className = tab[j].className PROVE i = j
  <2>1. Names[Len(tab) + 1 - i] = Names[Len(tab) + 1 - j]
    BY <1>1, <1>3 DEF Listed
  <2>2. Len(tab) + 1 - i \in DOMAIN Names /\ Len(tab) + 1 - j \in DOMAIN Names
    BY <1>1 DEF Own
  <2>3. Len(tab) + 1 - i = Len(tab) + 1 - j
    BY <2>1, <2>2, NamesAssumption
  <2>. QED
    BY <1>1, <2>3 DEF Own
<1>4. Declared = {tab[i].className : i \in Own}
  BY <1>1 DEF Declared, Range
<1>5. ASSUME NEW id PROVE \/ hledejClass(tab, id) = Null /\ id \notin Declared
                          \/ \E i \in Own : tab[i].className = id /\ hledejClass(tab, id) = tab[i]
  <2>. DEFINE I == {i \in 1 .. Len(tab) : tab[i].className = id}
  <2>1. CASE I = {}
    BY <2>1, <1>4 DEF hledejClass, FirstIn, SelectInSeq, Own
  <2>2. CASE I # {}
    <3>1. I \in SUBSET Nat
      OBVIOUS
    <3>2. Min(I) \in I /\ Min(I) # 0
      BY <2>2, <3>1, MinIn
    <3>3. hledejClass(tab, id) = tab[Min(I)]
      BY <2>2, <3>2 DEF hledejClass, FirstIn, SelectInSeq
    <3>. QED
      BY <3>2, <3>3 DEF Own
  <2>. QED
    BY <2>1, <2>2
<1>6. \A i \in Own : hledejClass(tab, tab[i].className) = tab[i]
  BY <1>3, <1>4, <1>5
<1>7. \A id : id \notin Declared => hledejClass(tab, id) = Null
  BY <1>4, <1>5
<1>8. IsList(tab) /\ Own \subseteq ClassIds
  BY <1>1 DEF IsList, Own, ClassIds
<1>. QED
  BY <1>1, <1>2, <1>3, <1>4, <1>6, <1>7, <1>8

LEMMA OwnClass ==
  ASSUME Listed, Linked, NEW i \in Own
  PROVE  /\ im.classes[i].name = tab[i].className /\ im.classes[i].parent_name = tab[i].parentName
         /\ im.classes[i].allocator = "alloc_udo"
         /\ im.classes[i].constructor = tab[i].constructor /\ im.classes[i].methods = tab[i].methods
         /\ im.classes[i].syms_static =
              Reverse(classout_prvektab_ll(OfScope(tab[i].syms, "SC_CLASS")))
         /\ im.classes[i].syms_instance =
              Reverse(classout_prvektab_ll(OfScope(tab[i].syms, "SC_INSTANCE")))
<1>1. im.classes[i] = kexe_load_class(classout_class(tab[i]))
  BY ImageClasses DEF Own
<1>. QED
  BY <1>1 DEF kexe_load_class, classout_class, kexe_load_syms

LEMMA BuiltInClass ==
  ASSUME Listed, Linked, NEW i \in ClassIds, i \notin Own
  PROVE  \E b \in 1 .. 7 : i = Len(tab) + b /\ im.classes[i] = BuiltInAt(b)
<1>1. i - Len(tab) \in 1 .. 7 /\ i = Len(tab) + (i - Len(tab))
  BY TabFacts DEF ClassIds, Own
<1>. QED
  BY <1>1, ImageClasses

LEMMA BuiltInsAre == BuiltIns = {BuiltInAt(b) : b \in 1 .. 7}
BY BuiltInFacts DEF BuiltIns, Range, BuiltInAt, IsList

LEMMA BuiltInName ==
  ASSUME NEW b \in 1 .. 7
  PROVE  BuiltInAt(b).name \in BuiltInNames /\ BuiltInAt(b).name \notin Range(Names)
<1>1. BuiltInAt(b).name \in BuiltInNames
  BY BuiltInsAre DEF BuiltInNames
<1>. QED
  BY <1>1, NamesAssumption

LEMMA NamesOf ==
  ASSUME Listed, Linked
  PROVE  /\ \A i, j \in ClassIds : NameOf(i) = NameOf(j) => i = j
         /\ AllNames = {NameOf(i) : i \in ClassIds}
         /\ \A i \in ClassIds : i \in Own <=> NameOf(i) \in Declared
         /\ \A i \in ClassIds : NameOf(i) \in ClassNames
         /\ NoParent \notin AllNames
<1>1. \A i \in Own : NameOf(i) = tab[i].className /\ NameOf(i) \in Range(Names) /\ NameOf(i) \in Declared
  BY OwnClass, TabFacts DEF NameOf
<1>2. \A i \in ClassIds \ Own : \E b \in 1 .. 7 : i = Len(tab) + b /\ NameOf(i) = BuiltInAt(b).name
  BY BuiltInClass DEF NameOf
<1>3. \A i \in ClassIds \ Own : NameOf(i) \in BuiltInNames /\ NameOf(i) \notin Range(Names)
  BY <1>2, BuiltInName
<1>4. Declared \subseteq Range(Names)
  BY TabFacts
<1>5. ASSUME NEW i \in ClassIds, NEW j \in ClassIds, NameOf(i) = NameOf(j) PROVE i = j
  <2>1. CASE i \in Own /\ j \in Own
    BY <1>1, <1>5, <2>1, TabFacts
  <2>2. CASE i \notin Own /\ j \notin Own
    BY <1>2, <1>5, <2>2, BuiltInFacts
  <2>. QED
    BY <1>1, <1>3, <1>5, <2>1, <2>2
<1>6. AllNames = {NameOf(i) : i \in ClassIds}
  <2>1. \A b \in 1 .. 7 : Len(tab) + b \in ClassIds /\ NameOf(Len(tab) + b) = BuiltInAt(b).name
    <3>1. \A b \in 1 .. 7 : Len(tab) + b \in ClassIds
      BY TabFacts DEF ClassIds
    <3>2. \A b \in 1 .. 7 : im.classes[Len(tab) + b] = BuiltInAt(b)
      BY ImageClasses
    <3>. QED
      BY <3>1, <3>2 DEF NameOf
  <2>2. AllNames = {tab[i].className : i \in Own} \union {BuiltInAt(b).name : b \in 1 .. 7}
    BY BuiltInsAre, TabFacts DEF AllNames
  <2>3. Own \subseteq ClassIds
    BY TabFacts
  <2>. QED
    BY <1>1, <1>2, <2>1, <2>2, <2>3
<1>7. \A i \in ClassIds : NameOf(i) # NoParent
  BY <1>1, <1>2, BuiltInFacts, NamesAssumption
<1>. QED
  BY <1>1, <1>3, <1>4, <1>5, <1>6, <1>7 DEF ClassNames

-----------------------------------------------------------------------------
(* The hierarchy of the machine is that of the source.                     *)

LEMMA UpFacts ==
  ASSUME Listed, Linked
  PROVE  /\ DOMAIN im.up = ClassIds /\ IsList(im.up) /\ 0 \notin ClassIds
         /\ \A i \in ClassIds : im.up[i] \in ClassIds \union {0}
         /\ \A i \in ClassIds : im.up[i] = 0 => SourceParent(NameOf(i)) = NoParent
         /\ \A i \in ClassIds : im.up[i] # 0 => /\ SourceParent(NameOf(i)) = NameOf(im.up[i])
                                                /\ SourceParent(NameOf(i)) # NoParent
                                                /\ i \in Own
<1>1. /\ IsList(im.classes) /\ DOMAIN im.classes = ClassIds /\ 0 \notin ClassIds
      /\ Len(im.classes) = Len(tab) + 7 /\ Len(tab) \in Nat
  BY ImageClasses, TabFacts DEF IsList, ClassIds
<1>2. im.up = ParentPointers(im.classes)
  BY DEF Linked, Link
<1>3. DOMAIN im.up = ClassIds /\ IsList(im.up)
  BY <1>1, <1>2 DEF ParentPointers, IsList, ClassIds
<1>4. ASSUME NEW i \in ClassIds
      PROVE  \/ im.up[i] = 0 /\ im.classes[i].parent_name = NoParent
             \/ /\ im.up[i] \in ClassIds /\ NameOf(im.up[i]) = im.classes[i].parent_name
                /\ im.classes[i].parent_name # NoParent
  <2>1. CASE im.classes[i].parent_name = NoParent
    BY <1>1, <1>2, <2>1 DEF ParentPointers
  <2>2. CASE im.classes[i].parent_name # NoParent
    <3>1. im.up[i] = vm_find_class(im.classes, im.classes[i].parent_name)
      BY <1>1, <1>2, <2>2 DEF ParentPointers
    <3>2. im.up[i] # 0
      BY <1>1, <1>2, <2>2 DEF Linked, ParentsFound
    <3>. QED
      BY <1>1, <2>2, <3>1, <3>2, FindClass DEF NameOf, ClassIds
  <2>. QED
    BY <2>1, <2>2
<1>5. \A i \in Own : SourceParent(NameOf(i)) = im.classes[i].parent_name
  BY OwnClass, TabFacts DEF SourceParent, NameOf
<1>6. \A i \in ClassIds \ Own : /\ SourceParent(NameOf(i)) = NoParent
                                /\ im.classes[i].parent_name = NoParent
  <2>1. \A i \in ClassIds \ Own : SourceParent(NameOf(i)) = NoParent
    BY NamesOf DEF SourceParent
  <2>2. \A i \in ClassIds \ Own : im.classes[i].parent_name = NoParent
    BY BuiltInClass, BuiltInFacts
  <2>. QED
    BY <2>1, <2>2
<1>7. \A i \in ClassIds : SourceParent(NameOf(i)) = im.classes[i].parent_name
  BY <1>5, <1>6
<1>. QED
  BY <1>1, <1>3, <1>4, <1>6, <1>7

(* Acyclic counts how many classes there are from a class to the end.      *)
LEMMA HasRank ==
  ASSUME NEW up, IsList(up), 0 \notin DOMAIN up, Acyclic(up)
  PROVE  \E rank : Ranked(DOMAIN up, up, rank) /\ \A d \in DOMAIN up : rank[d] < Len(up) + 1
<1>. DEFINE D == DOMAIN up
            longer(S) == {i \in D : up[i] \in {0} \union S}
            V == SUBSET D
            step == [x \in (1 .. Len(up)) \X V |-> longer(x[2])]
<1>1. Len(up) \in Nat /\ {} \in V /\ step \in [(1 .. Len(up)) \X V -> V]
  BY DEF IsList
<1>2. PICK f \in [0 .. Len(up) -> V] :
        f = [m \in 0 .. Len(up) |-> IF m = 0 THEN {} ELSE step[<<m, f[m - 1]>>]]
  <2>1. CountsIn(Len(up), V, {}, step)
    BY <1>1 DEF CountsIn
  <2>. HIDE DEF V, step
  <2>. QED
    BY <2>1, CountingUp
<1>3. \A m \in 0 .. Len(up) : m # 0 => step[<<m, f[m - 1]>>] = longer(f[m - 1])
  <2>. SUFFICES ASSUME NEW m \in 0 .. Len(up), m # 0 PROVE step[<<m, f[m - 1]>>] = longer(f[m - 1])
    OBVIOUS
  <2>1. m - 1 \in 0 .. Len(up) /\ m \in 1 .. Len(up)
    BY <1>1
  <2>2. f[m - 1] \in V
    <3>. HIDE DEF V
    <3>. QED
      BY <1>2, <2>1
  <2>3. <<m, f[m - 1]>> \in (1 .. Len(up)) \X V
    BY <2>1, <2>2
  <2>. QED
    BY <2>3
<1>4. f = [m \in 0 .. Len(up) |-> IF m = 0 THEN {} ELSE longer(f[m - 1])]
  <2>. HIDE DEF longer, step, V
  <2>. QED
    BY <1>2, <1>3
<1>5. PICK g : g = [m \in 0 .. Len(up) |-> IF m = 0 THEN {} ELSE longer(g[m - 1])] /\ g[Len(up)] = D
  BY <1>4 DEF Acyclic
<1>. HIDE DEF step
<1>. DEFINE Since(d) == {m \in 0 .. Len(up) : d \in g[m]}
            rank == [d \in D |-> Min(Since(d))]
<1>6. \A d \in D : /\ Since(d) \in SUBSET Nat /\ Min(Since(d)) \in Since(d)
                   /\ \A m \in Since(d) : Min(Since(d)) <= m
  <2>. SUFFICES ASSUME NEW d \in D PROVE /\ Since(d) \in SUBSET Nat /\ Min(Since(d)) \in Since(d)
                                         /\ \A m \in Since(d) : Min(Since(d)) <= m
    OBVIOUS
  <2>1. Len(up) \in Since(d)
    BY <1>1, <1>5
  <2>2. Since(d) \in SUBSET Nat
    BY <1>1
  <2>. HIDE DEF Since
  <2>. QED
    BY <2>1, <2>2, MinIn
<1>7. rank \in [D -> Nat] /\ \A d \in D : rank[d] < Len(up) + 1
  <2>1. \A d \in D : Since(d) \subseteq 0 .. Len(up)
    OBVIOUS
  <2>2. \A d \in D : Min(Since(d)) \in 0 .. Len(up)
    <3>. HIDE DEF Since
    <3>. QED
      BY <1>6, <2>1
  <2>. HIDE DEF Since
  <2>. QED
    BY <1>1, <2>2
<1>8. ASSUME NEW d \in D, up[d] \in D PROVE rank[up[d]] < rank[d]
  <2>. DEFINE m == rank[d]
  <2>1. m \in 0 .. Len(up) /\ d \in g[m]
    BY <1>6
  <2>2. g[m] = IF m = 0 THEN {} ELSE longer(g[m - 1])
    BY <1>5, <2>1
  <2>3. m # 0 /\ d \in longer(g[m - 1])
    BY <2>1, <2>2
  <2>4. up[d] \in g[m - 1]
    BY <1>8, <2>3
  <2>5. m - 1 \in Since(up[d])
    BY <1>1, <2>1, <2>3, <2>4
  <2>6. rank[up[d]] <= m - 1
    BY <1>6, <1>8, <2>5
  <2>7. rank[up[d]] \in Nat
    BY <1>7, <1>8
  <2>. QED
    BY <2>1, <2>6, <2>7
<1>. HIDE DEF rank
<1>. QED
  BY <1>7, <1>8 DEF Ranked

Ranking(rank) ==
  Ranked(ClassIds, im.up, rank) /\ \A d \in ClassIds : rank[d] < Len(tab) + 8

LEMMA MachineRank ==
  ASSUME Listed, Linked
  PROVE  \E rank : Ranking(rank)
<1>1. IsList(im.up) /\ DOMAIN im.up = ClassIds /\ 0 \notin ClassIds /\ Acyclic(im.up)
  BY UpFacts DEF Linked
<1>2. Len(im.up) = Len(tab) + 7 /\ Len(tab) \in Nat
  BY <1>1, TabFacts DEF IsList, ClassIds
<1>3. PICK rank : Ranked(DOMAIN im.up, im.up, rank) /\ \A d \in DOMAIN im.up : rank[d] < Len(im.up) + 1
  BY <1>1, HasRank
<1>. QED
  BY <1>1, <1>2, <1>3 DEF Ranking

(* The lineage of a class is the class and the lineage of its parent.      *)
LEMMA LineageStep ==
  ASSUME Listed, Linked
  PROVE  \A c \in AllNames :
           Lineage(c) = {c} \union IF SourceParent(c) = NoParent THEN {} ELSE Lineage(SourceParent(c))
<1>. DEFINE D == AllNames
            V == SUBSET AllNames
            up == [c \in D |-> SourceParent(c)]
            base == [c \in D |-> {c}]
            step == [x \in D \X V |-> {x[1]} \union x[2]]
<1>1. PICK rank : Ranking(rank)
  BY MachineRank
<1>2. PICK id : id \in [D -> ClassIds] /\ \A c \in D : NameOf(id[c]) = c
  <2>. DEFINE g == [c \in D |-> CHOOSE i \in ClassIds : NameOf(i) = c]
  <2>1. \A c \in D : \E i \in ClassIds : NameOf(i) = c
    BY NamesOf
  <2>2. g \in [D -> ClassIds] /\ \A c \in D : NameOf(g[c]) = c
    BY <2>1
  <2>. QED
    BY <2>2
<1>. DEFINE level == [c \in D |-> rank[id[c]]]
<1>3. Len(tab) + 8 \in Nat /\ rank \in [ClassIds -> Nat]
  BY <1>1, TabFacts DEF Ranking, Ranked
<1>4. level \in [D -> Nat] /\ \A c \in D : level[c] < Len(tab) + 8
  BY <1>1, <1>2, <1>3 DEF Ranking
<1>5. ASSUME NEW c \in D PROVE \/ up[c] = NoParent /\ up[c] \notin D
                               \/ up[c] # NoParent /\ up[c] \in D /\ level[up[c]] < level[c]
  <2>1. SourceParent(NameOf(id[c])) = up[c] /\ id[c] \in ClassIds
    BY <1>2, <1>5
  <2>2. CASE im.up[id[c]] = 0
    BY <2>1, <2>2, UpFacts, NamesOf
  <2>3. CASE im.up[id[c]] # 0
    <3>1. up[c] = NameOf(im.up[id[c]]) /\ im.up[id[c]] \in ClassIds /\ up[c] # NoParent
      BY <2>1, <2>3, UpFacts
    <3>2. up[c] \in D
      BY <3>1, NamesOf
    <3>3. id[up[c]] = im.up[id[c]]
      BY <1>2, <3>1, <3>2, NamesOf
    <3>4. rank[im.up[id[c]]] < rank[id[c]]
      BY <1>1, <2>1, <3>1 DEF Ranking, Ranked
    <3>. QED
      BY <1>5, <3>1, <3>2, <3>3, <3>4
  <2>. QED
    BY <2>2, <2>3
<1>6. Ranked(D, up, level)
  <2>. HIDE DEF up, level
  <2>. QED
    BY <1>4, <1>5 DEF Ranked
<1>7. StepsIn(D, V, base, step)
  BY DEF StepsIn
<1>8. PICK f \in [D -> V] :
        f = [d \in D |-> IF up[d] \in D THEN step[<<d, f[up[d]]>>] ELSE base[d]]
  <2>. HIDE DEF D, V, up, level, base, step
  <2>. QED
    BY <1>3, <1>4, <1>6, <1>7, RecursionUp
<1>9. f = [d \in D |-> {d} \union IF SourceParent(d) = NoParent THEN {} ELSE f[SourceParent(d)]]
  <2>1. ASSUME NEW d \in D
        PROVE  f[d] = {d} \union IF SourceParent(d) = NoParent THEN {} ELSE f[SourceParent(d)]
    <3>1. CASE up[d] \notin D
      <4>1. f[d] = {d} /\ SourceParent(d) = NoParent
        BY <1>5, <1>8, <3>1
      <4>. QED
        BY <4>1
    <3>2. CASE up[d] \in D
      <4>1. f[up[d]] \in V
        <5>. HIDE DEF V, up
        <5>. QED
          BY <1>8, <3>2
      <4>2. step[<<d, f[up[d]]>>] = {d} \union f[up[d]]
        BY <4>1
      <4>3. f[d] = {d} \union f[up[d]] /\ SourceParent(d) # NoParent /\ up[d] = SourceParent(d)
        <5>. HIDE DEF step, base
        <5>. QED
          BY <1>5, <1>8, <3>2, <4>2
      <4>. QED
        BY <4>3
    <3>. QED
      BY <3>1, <3>2
  <2>. HIDE DEF up, level, base, step, V
  <2>. QED
    BY <1>8, <2>1
<1>. DEFINE h == Hierarchy
<1>10. DOMAIN h = D /\ \A d \in D : h[d] = SourceParent(d)
  BY DEF Hierarchy
<1>11. f = [d \in DOMAIN h |-> {d} \union IF h[d] = NoParent THEN {} ELSE f[h[d]]]
  <2>. HIDE DEF h, D, V, up, level, base, step
  <2>. QED
    BY <1>9, <1>10
<1>12. PICK line : /\ line = [d \in DOMAIN h |-> {d} \union IF h[d] = NoParent THEN {} ELSE line[h[d]]]
                   /\ \A c : LineageIn(h, c) = line[c]
  <2>. HIDE DEF h
  <2>. QED
    BY <1>11 DEF LineageIn
<1>13. \A c : Lineage(c) = line[c]
  BY <1>12 DEF Lineage
<1>14. \A c \in D : line[c] = {c} \union IF SourceParent(c) = NoParent THEN {} ELSE line[SourceParent(c)]
  <2>. HIDE DEF h, D, V, up, level, base, step
  <2>. QED
    BY <1>10, <1>12
<1>. QED
  BY <1>13, <1>14

\* The lineage of the class at place i.
LineageAt(i) == Lineage(NameOf(i))

LEMMA LineageUp ==
  ASSUME Listed, Linked
  PROVE  \A i \in ClassIds :
           LineageAt(i) = {NameOf(i)} \union IF im.up[i] = 0 THEN {} ELSE LineageAt(im.up[i])
<1>. SUFFICES ASSUME NEW i \in ClassIds
              PROVE  LineageAt(i) = {NameOf(i)} \union IF im.up[i] = 0 THEN {} ELSE LineageAt(im.up[i])
  OBVIOUS
<1>1. NameOf(i) \in AllNames
  BY NamesOf
<1>2. LineageAt(i) = {NameOf(i)} \union
        IF SourceParent(NameOf(i)) = NoParent THEN {} ELSE Lineage(SourceParent(NameOf(i)))
  BY <1>1, LineageStep DEF LineageAt
<1>. QED
  BY <1>2, UpFacts DEF LineageAt

\* Induction along the hierarchy of the machine.
LEMMA MachineInduction ==
  ASSUME Listed, Linked, NEW T,
         \A i \in ClassIds : (im.up[i] # 0 => im.up[i] \in T) => i \in T
  PROVE  ClassIds \subseteq T
<1>1. PICK rank : Ranking(rank)
  BY MachineRank
<1>2. \A i \in ClassIds : (im.up[i] \in ClassIds => im.up[i] \in T) => i \in T
  BY UpFacts
<1>3. Ranked(ClassIds, im.up, rank)
  BY <1>1 DEF Ranking
<1>. QED
  BY <1>2, <1>3, DownTheHierarchy

LEMMA LineageRanks ==
  ASSUME Listed, Linked, NEW rank, Ranking(rank)
  PROVE  \A i \in ClassIds : \A d \in LineageAt(i) :
           \E j \in ClassIds : d = NameOf(j) /\ (j = i \/ rank[j] < rank[i])
<1>. DEFINE T == {i \in ClassIds : \A d \in LineageAt(i) :
                    \E j \in ClassIds : d = NameOf(j) /\ (j = i \/ rank[j] < rank[i])}
<1>1. ASSUME NEW i \in ClassIds, im.up[i] # 0 => im.up[i] \in T PROVE i \in T
  <2>1. CASE im.up[i] = 0
    BY <2>1, LineageUp
  <2>2. CASE im.up[i] # 0
    <3>1. im.up[i] \in ClassIds /\ rank[im.up[i]] < rank[i] /\ im.up[i] \in T
      BY <1>1, <2>2, UpFacts DEF Ranking, Ranked
    <3>2. LineageAt(i) = {NameOf(i)} \union LineageAt(im.up[i])
      BY <2>2, LineageUp
    <3>3. rank \in [ClassIds -> Nat]
      BY DEF Ranking, Ranked
    <3>4. ASSUME NEW d \in LineageAt(im.up[i])
          PROVE  \E j \in ClassIds : d = NameOf(j) /\ rank[j] < rank[i]
      <4>1. PICK j \in ClassIds : d = NameOf(j) /\ (j = im.up[i] \/ rank[j] < rank[im.up[i]])
        BY <3>1
      <4>2. rank[j] \in Nat /\ rank[i] \in Nat /\ rank[im.up[i]] \in Nat
        BY <3>1, <3>3
      <4>. QED
        BY <3>1, <4>1, <4>2
    <3>. QED
      BY <3>2, <3>4
  <2>. QED
    BY <2>1, <2>2
<1>. HIDE DEF T
<1>2. ClassIds \subseteq T
  BY <1>1, MachineInduction
<1>. QED
  BY <1>2 DEF T

\* A class is no ancestor of its ancestors.
LEMMA LineageOrder ==
  ASSUME Listed, Linked, NEW i \in ClassIds, im.up[i] # 0
  PROVE  \A d \in LineageAt(im.up[i]) : d # NameOf(i) /\ NameOf(i) \notin Lineage(d)
<1>1. PICK rank : Ranking(rank)
  BY MachineRank
<1>2. im.up[i] \in ClassIds /\ rank[im.up[i]] < rank[i] /\ rank \in [ClassIds -> Nat]
  BY <1>1, UpFacts DEF Ranking, Ranked
<1>. SUFFICES ASSUME NEW d \in LineageAt(im.up[i]) PROVE d # NameOf(i) /\ NameOf(i) \notin Lineage(d)
  OBVIOUS
<1>3. PICK j \in ClassIds : d = NameOf(j) /\ (j = im.up[i] \/ rank[j] < rank[im.up[i]])
  BY <1>1, <1>2, LineageRanks
<1>4. rank[j] < rank[i] /\ j # i
  <2>1. rank[j] \in Nat /\ rank[i] \in Nat /\ rank[im.up[i]] \in Nat
    BY <1>2
  <2>. QED
    BY <1>2, <1>3, <2>1
<1>5. ASSUME NameOf(i) \in LineageAt(j) PROVE FALSE
  <2>1. PICK k \in ClassIds : NameOf(i) = NameOf(k) /\ (k = j \/ rank[k] < rank[j])
    BY <1>1, <1>5, LineageRanks
  <2>2. k = i
    BY <2>1, NamesOf
  <2>3. rank[j] \in Nat /\ rank[i] \in Nat
    BY <1>2
  <2>. QED
    BY <1>4, <2>1, <2>2, <2>3
<1>. QED
  BY <1>3, <1>4, <1>5, NamesOf DEF LineageAt

(* The nearest class of a set is the class itself or that of its parent.   *)
LEMMA NearestUp ==
  ASSUME Listed, Linked, NEW S
  PROVE  \A i \in ClassIds :
           NearestIn(S, NameOf(i)) = IF NameOf(i) \in S THEN NameOf(i)
                                     ELSE IF im.up[i] = 0 THEN Null
                                     ELSE NearestIn(S, NameOf(im.up[i]))
<1>. SUFFICES ASSUME NEW i \in ClassIds
     PROVE  NearestIn(S, NameOf(i)) = IF NameOf(i) \in S THEN NameOf(i)
                                      ELSE IF im.up[i] = 0 THEN Null
                                      ELSE NearestIn(S, NameOf(im.up[i]))
  OBVIOUS
<1>. DEFINE near(c) == {d \in S \intersect Lineage(c) : S \intersect Lineage(c) \subseteq Lineage(d)}
<1>1. NameOf(i) \in LineageAt(i)
  BY LineageUp
<1>2. CASE NameOf(i) \in S
  <2>1. NameOf(i) \in near(NameOf(i))
    BY <1>1, <1>2 DEF LineageAt
  <2>2. ASSUME NEW d \in near(NameOf(i)), d # NameOf(i) PROVE FALSE
    <3>1. d \in LineageAt(i) /\ NameOf(i) \in Lineage(d)
      BY <1>1, <1>2 DEF LineageAt
    <3>2. im.up[i] # 0 /\ d \in LineageAt(im.up[i])
      BY <2>2, <3>1, LineageUp
    <3>. QED
      BY <3>1, <3>2, LineageOrder
  <2>3. near(NameOf(i)) = {NameOf(i)}
    BY <2>1, <2>2
  <2>. QED
    BY <1>2, <2>3 DEF NearestIn, NearestOf, Lineage
<1>3. CASE NameOf(i) \notin S
  <2>1. CASE im.up[i] = 0
    <3>1. S \intersect Lineage(NameOf(i)) = {}
      BY <1>3, <2>1, LineageUp DEF LineageAt
    <3>. QED
      BY <1>3, <2>1, <3>1 DEF NearestIn, NearestOf, Lineage
  <2>2. CASE im.up[i] # 0
    <3>1. S \intersect Lineage(NameOf(i)) = S \intersect Lineage(NameOf(im.up[i]))
      BY <1>3, <2>2, LineageUp DEF LineageAt
    <3>2. near(NameOf(i)) = near(NameOf(im.up[i]))
      BY <3>1
    <3>. DEFINE first(N) == IF N = {} THEN Null ELSE CHOOSE d \in N : TRUE
    <3>3. \A c : NearestIn(S, c) = first(near(c))
      BY DEF NearestIn, NearestOf, Lineage
    <3>. HIDE DEF near, first
    <3>. QED
      BY <1>3, <2>2, <3>2, <3>3
  <2>. QED
    BY <2>1, <2>2
<1>. QED
  BY <1>2, <1>3

-----------------------------------------------------------------------------
(* Lookups.  What the machine finds at a class is what is declared in it.  *)

\* A climb in a hierarchy.
Climbs(f, up, own) ==
  f = [d \in DOMAIN up |-> IF own[d] # Null \/ up[d] \notin DOMAIN up THEN own[d] ELSE f[up[d]]]

LEMMA ClimbAny ==
  ASSUME NEW up, NEW rank, Ranked(DOMAIN up, up, rank), NEW n \in Nat, \A d \in DOMAIN up : rank[d] < n,
         NEW own
  PROVE  \E f : Climbs(f, up, own)
<1>. DEFINE D == DOMAIN up
            V == {own[d] : d \in D}
            base == [d \in D |-> own[d]]
            step == [x \in D \X V |-> IF own[x[1]] # Null THEN own[x[1]] ELSE x[2]]
<1>1. StepsIn(D, V, base, step)
  BY DEF StepsIn
<1>2. PICK f \in [D -> V] :
        f = [d \in D |-> IF up[d] \in D THEN step[<<d, f[up[d]]>>] ELSE base[d]]
  <2>. HIDE DEF D, V, base, step
  <2>. QED
    BY <1>1, RecursionUp DEF D
<1>3. ASSUME NEW d \in D
      PROVE  f[d] = IF own[d] # Null \/ up[d] \notin D THEN own[d] ELSE f[up[d]]
  <2>1. CASE up[d] \notin D
    BY <1>2, <2>1
  <2>2. CASE up[d] \in D
    <3>1. f[up[d]] \in V
      <4>. HIDE DEF V, D
      <4>. QED
        BY <1>2, <2>2
    <3>2. step[<<d, f[up[d]]>>] = IF own[d] # Null THEN own[d] ELSE f[up[d]]
      BY <3>1
    <3>. HIDE DEF step, base, V
    <3>. QED
      BY <1>2, <2>2, <3>2
  <2>. QED
    BY <2>1, <2>2
<1>4. f = [d \in D |-> IF own[d] # Null \/ up[d] \notin D THEN own[d] ELSE f[up[d]]]
  <2>. HIDE DEF step, base, V, D
  <2>. QED
    BY <1>2, <1>3
<1>. QED
  BY <1>4 DEF Climbs

(* A lookup that goes up from a class: own is what each class has.         *)
LEMMA Climb ==
  ASSUME Listed, Linked, NEW own
  PROVE  \E f : f = [d \in DOMAIN im.up |->
                       IF own[d] # Null \/ im.up[d] \notin DOMAIN im.up THEN own[d] ELSE f[im.up[d]]]
<1>1. PICK rank : Ranking(rank)
  BY MachineRank
<1>2. Len(tab) + 8 \in Nat /\ DOMAIN im.up = ClassIds
  BY TabFacts, UpFacts
<1>3. Ranked(DOMAIN im.up, im.up, rank) /\ \A d \in DOMAIN im.up : rank[d] < Len(tab) + 8
  BY <1>1, <1>2 DEF Ranking
<1>4. PICK up : up = im.up
  OBVIOUS
<1>5. \E f : Climbs(f, up, own)
  BY <1>2, <1>3, <1>4, ClimbAny
<1>. QED
  BY <1>4, <1>5 DEF Climbs

\* What the class at place d has for a call.
OwnFound(d, name, static) ==
  IF \/ im.classes[d].constructor /\ im.classes[d].name = name
     \/ OwnMethod(im, d, name, static) # Null
  THEN [of |-> im.classes[d].name, method |-> name] ELSE Null

LEMMA MethodUp ==
  ASSUME Listed, Linked, NEW name, NEW static
  PROVE  \A i \in ClassIds :
           vm_find_method_in_class(im, i, name, static) =
             IF OwnFound(i, name, static) # Null \/ im.up[i] = 0 THEN OwnFound(i, name, static)
             ELSE vm_find_method_in_class(im, im.up[i], name, static)
<1>. DEFINE own == [d \in DOMAIN im.up |-> OwnFound(d, name, static)]
<1>1. \E f : f = [d \in DOMAIN im.up |->
                    IF own[d] # Null \/ im.up[d] \notin DOMAIN im.up THEN own[d] ELSE f[im.up[d]]]
  <2>. HIDE DEF own
  <2>. QED
    BY Climb
<1>2. \E f : f = [d \in DOMAIN im.up |->
                    IF OwnFound(d, name, static) # Null \/ im.up[d] \notin DOMAIN im.up
                    THEN OwnFound(d, name, static) ELSE f[im.up[d]]]
  BY <1>1
<1>3. PICK f : /\ f = [d \in DOMAIN im.up |->
                         IF OwnFound(d, name, static) # Null \/ im.up[d] \notin DOMAIN im.up
                         THEN OwnFound(d, name, static) ELSE f[im.up[d]]]
               /\ \A i : vm_find_method_in_class(im, i, name, static) = f[i]
  BY <1>2 DEF vm_find_method_in_class, Nearest, OwnFound
<1>. QED
  BY <1>3, UpFacts

LEMMA OwnMethodIs ==
  ASSUME Listed, Linked, NEW name \in Words, NEW static \in BOOLEAN
  PROVE  \A i \in ClassIds : OwnMethod(im, i, name, static) # Null
           <=> \E me \in Range(im.classes[i].methods) : me.methodName = name /\ me.isStatic = static
<1>. SUFFICES ASSUME NEW i \in ClassIds
     PROVE  OwnMethod(im, i, name, static) # Null
           <=> \E me \in Range(im.classes[i].methods) : me.methodName = name /\ me.isStatic = static
  OBVIOUS
<1>. DEFINE list == im.classes[i].methods
            S == MethodEnvs
<1>1. IsList(list) /\ \A k \in DOMAIN list : list[k].methodName = name => list[k] \in MethodEnvs
  <2>1. CASE i \in Own
    <3>1. list = tab[i].methods
      BY <2>1, OwnClass
    <3>2. tab[i] \in ClassEnvs
      BY <2>1, TabFacts
    <3>3. tab[i].methods \in Seq(MethodEnvs)
      BY <3>2 DEF ClassEnvs
    <3>. QED
      BY <3>1, <3>3 DEF IsList
  <2>2. CASE i \notin Own
    <3>1. PICK b \in 1 .. 7 : im.classes[i] = BuiltInAt(b)
      BY <2>2, BuiltInClass
    <3>. QED
      BY <3>1, BuiltInFacts, BuiltInMethods
  <2>. QED
    BY <2>1, <2>2
<1>2. Null \notin S
  BY NullAssumption
<1>. DEFINE I == {k \in 1 .. Len(list) : list[k].methodName = name /\ list[k].isStatic = static}
<1>. HIDE DEF list, S
<1>3. DOMAIN list = 1 .. Len(list) /\ Len(list) \in Nat
  BY <1>1 DEF IsList
<1>4. CASE I = {}
  <2>1. OwnMethod(im, i, name, static) = Null
    BY <1>4 DEF FirstIn, SelectInSeq, OwnMethod, list
  <2>2. ~ \E me \in Range(list) : me.methodName = name /\ me.isStatic = static
    BY <1>3, <1>4 DEF Range
  <2>. QED
    BY <2>1, <2>2 DEF list
<1>5. CASE I # {}
  <2>1. I \in SUBSET Nat
    OBVIOUS
  <2>2. Min(I) \in I /\ Min(I) # 0
    BY <1>5, <2>1, MinIn
  <2>3. OwnMethod(im, i, name, static) = list[Min(I)]
    BY <1>5, <2>2 DEF FirstIn, SelectInSeq, OwnMethod, list
  <2>4. list[Min(I)] \in S /\ list[Min(I)] \in Range(list)
    BY <1>1, <1>3, <2>2 DEF Range, S
  <2>5. OwnMethod(im, i, name, static) # Null
    BY <1>2, <2>3, <2>4
  <2>6. \E me \in Range(list) : me.methodName = name /\ me.isStatic = static
    BY <2>2, <2>4
  <2>. QED
    BY <2>5, <2>6 DEF list
<1>. QED
  BY <1>4, <1>5

\* The class d, whose name is own, has a method or constructor for a call.
HasMethod(d, own, name, static) ==
  \/ \E me \in Range(d.methods) : me.methodName = name /\ me.isStatic = static
  \/ d.constructor /\ own = name

LEMMA FoundAt ==
  ASSUME Listed, Linked, NEW name \in Words, NEW static \in BOOLEAN
  PROVE  \A i \in ClassIds : OwnFound(i, name, static) # Null <=> NameOf(i) \in WithMethod(name, static)
<1>. DEFINE OwnWith == {c \in Declared : HasMethod(hledejClass(tab, c), c, name, static)}
            BuiltInWith == {b.name : b \in {d \in BuiltIns : HasMethod(d, d.name, name, static)}}
<1>1. WithMethod(name, static) = OwnWith \union BuiltInWith
  BY DEF WithMethod, HasMethod
<1>2. BuiltInWith \subseteq BuiltInNames /\ OwnWith \subseteq Declared
  BY DEF BuiltInNames
<1>3. Declared \subseteq Range(Names) /\ Range(Names) \intersect BuiltInNames = {}
  BY TabFacts, NamesAssumption
<1>4. ASSUME NEW i \in ClassIds
      PROVE  OwnFound(i, name, static) # Null <=> HasMethod(im.classes[i], NameOf(i), name, static)
  <2>1. OwnMethod(im, i, name, static) # Null
          <=> \E me \in Range(im.classes[i].methods) : me.methodName = name /\ me.isStatic = static
    BY OwnMethodIs
  <2>2. [of |-> NameOf(i), method |-> name] \in FoundMethod
    BY NamesOf DEF FoundMethod
  <2>3. [of |-> NameOf(i), method |-> name] # Null
    BY <2>2, NullAssumption
  <2>4. HasMethod(im.classes[i], NameOf(i), name, static)
          <=> OwnMethod(im, i, name, static) # Null \/ (im.classes[i].constructor /\ NameOf(i) = name)
    BY <2>1 DEF HasMethod
  <2>. QED
    BY <2>3, <2>4 DEF OwnFound, NameOf
<1>5. ASSUME NEW i \in ClassIds
      PROVE  HasMethod(im.classes[i], NameOf(i), name, static) <=> NameOf(i) \in OwnWith \union BuiltInWith
  <2>1. CASE i \in Own
    <3>1. /\ im.classes[i].name = tab[i].className /\ im.classes[i].constructor = tab[i].constructor
          /\ im.classes[i].methods = tab[i].methods /\ NameOf(i) = tab[i].className
      BY <2>1, OwnClass DEF NameOf
    <3>2. hledejClass(tab, tab[i].className) = tab[i] /\ tab[i].className \in Declared
      BY <2>1, TabFacts
    <3>3. NameOf(i) \notin BuiltInWith
      BY <1>2, <1>3, <3>1, <3>2
    <3>4. HasMethod(im.classes[i], NameOf(i), name, static) <=> HasMethod(tab[i], NameOf(i), name, static)
      BY <3>1 DEF HasMethod
    <3>5. NameOf(i) \in OwnWith <=> HasMethod(tab[i], NameOf(i), name, static)
      BY <3>1, <3>2
    <3>. HIDE DEF OwnWith, BuiltInWith
    <3>. QED
      BY <3>3, <3>4, <3>5
  <2>2. CASE i \notin Own
    <3>1. PICK b \in 1 .. 7 : im.classes[i] = BuiltInAt(b)
      BY <2>2, BuiltInClass
    <3>2. NameOf(i) = BuiltInAt(b).name /\ NameOf(i) \in BuiltInNames
      BY <3>1, BuiltInName DEF NameOf
    <3>3. NameOf(i) \notin OwnWith
      BY <1>2, <1>3, <3>2
    <3>4. \A d \in BuiltIns : d.name = BuiltInAt(b).name => d = BuiltInAt(b)
      BY BuiltInsAre, BuiltInFacts
    <3>5. BuiltInAt(b) \in BuiltIns
      BY BuiltInsAre
    <3>6. NameOf(i) \in BuiltInWith <=> HasMethod(BuiltInAt(b), NameOf(i), name, static)
      BY <3>2, <3>4, <3>5
    <3>. HIDE DEF OwnWith, BuiltInWith
    <3>. QED
      BY <3>1, <3>3, <3>6
  <2>. QED
    BY <2>1, <2>2
<1>. HIDE DEF OwnWith, BuiltInWith
<1>. QED
  BY <1>1, <1>4, <1>5

(* The lookup finds the nearest class that has the method.                 *)
LEMMA MethodNearest ==
  ASSUME Listed, Linked, NEW name \in Words, NEW static \in BOOLEAN
  PROVE  \A i \in ClassIds :
           LET owner == NearestIn(WithMethod(name, static), NameOf(i)) IN
           vm_find_method_in_class(im, i, name, static) =
             IF owner = Null THEN Null ELSE [of |-> owner, method |-> name]
<1>. DEFINE W == WithMethod(name, static)
            Near(i) == NearestIn(W, NameOf(i))
            Res(i) == vm_find_method_in_class(im, i, name, static)
            Good(i) == Res(i) = IF Near(i) = Null THEN Null ELSE [of |-> Near(i), method |-> name]
            T == {i \in ClassIds : Good(i)}
<1>1. ASSUME NEW i \in ClassIds, im.up[i] # 0 => im.up[i] \in T PROVE i \in T
  <2>1. Res(i) = IF OwnFound(i, name, static) # Null \/ im.up[i] = 0 THEN OwnFound(i, name, static)
                 ELSE Res(im.up[i])
    BY MethodUp
  <2>2. Near(i) = IF NameOf(i) \in W THEN NameOf(i) ELSE IF im.up[i] = 0 THEN Null ELSE Near(im.up[i])
    BY NearestUp
  <2>3. OwnFound(i, name, static) # Null <=> NameOf(i) \in W
    BY FoundAt
  <2>4. NameOf(i) # Null
    BY NamesOf, NullAssumption
  <2>5. OwnFound(i, name, static) # Null => OwnFound(i, name, static) = [of |-> NameOf(i), method |-> name]
    BY DEF OwnFound, NameOf
  <2>6. im.up[i] # 0 => Good(im.up[i])
    BY <1>1
  <2>7. Good(i)
    <3>. HIDE DEF W, Near, Res
    <3>. QED
      BY <2>1, <2>2, <2>3, <2>4, <2>5, <2>6
  <2>. QED
    BY <2>7
<1>. HIDE DEF T
<1>2. ClassIds \subseteq T
  BY <1>1, MachineInduction
<1>. QED
  BY <1>2 DEF T

-----------------------------------------------------------------------------
(* The classes symbols stand for.                                          *)

LEMMA SymbolClass ==
  ASSUME Listed, Linked, ConstantTable, NEW j \in DOMAIN ct
  PROVE  LET name == IF ct[j].cls # 0 THEN ct[ct[j].cls].text ELSE ct[j].text IN
         /\ im.symcls[j] \in ClassIds \union {0}
         /\ im.symcls[j] # 0 => NameOf(im.symcls[j]) = name
         /\ name \in Declared => im.symcls[j] # 0
<1>. DEFINE name == IF ct[j].cls # 0 THEN ct[ct[j].cls].text ELSE ct[j].text
<1>1. im.symcls[j] = vm_find_class(im.classes, name)
  BY DEF Linked, Link, vm_init_const_table_elems
<1>. HIDE DEF name
<1>2. Len(im.classes) \in Nat /\ 1 .. Len(im.classes) = ClassIds
  BY ImageClasses DEF IsList, ClassIds
<1>3. LET k == vm_find_class(im.classes, name) IN
         \/ k = 0 /\ \A i \in ClassIds : im.classes[i].name # name
         \/ k \in ClassIds /\ im.classes[k].name = name
  <2>1. PICK cls : cls = im.classes
    OBVIOUS
  <2>2. LET k == vm_find_class(cls, name) IN
         \/ k = 0 /\ \A i \in 1 .. Len(cls) : cls[i].name # name
         \/ k \in 1 .. Len(cls) /\ cls[k].name = name
    BY <1>2, <2>1, FindClass
  <2>. QED
    BY <1>2, <2>1, <2>2
<1>4. name \in Declared => \E i \in ClassIds : im.classes[i].name = name
  BY NamesOf DEF AllNames, NameOf
<1>5. 0 \notin ClassIds
  BY UpFacts
<1>. QED
  BY <1>1, <1>3, <1>4, <1>5 DEF NameOf, name

-----------------------------------------------------------------------------
(* Steps that leave the classes alone.                                     *)

LEMMA SameTab ==
  ASSUME tab' = tab
  PROVE  /\ Declared' = Declared /\ Hierarchy' = Hierarchy
         /\ \A id, static : WithMethod(id, static)' = WithMethod(id, static)
         /\ \A id : WithStatic(id)' = WithStatic(id) /\ WithConstant(id)' = WithConstant(id)
         /\ \A c, scope : Members(c, scope)' = Members(c, scope)
<1>1. Declared' = Declared
  BY DEF Declared
<1>2. \A c : SourceParent(c)' = SourceParent(c)
  BY <1>1 DEF SourceParent
<1>3. AllNames' = AllNames
  BY <1>1 DEF AllNames, BuiltIns
<1>4. Hierarchy' = Hierarchy
  BY <1>2, <1>3 DEF Hierarchy
<1>5. \A id, static : WithMethod(id, static)' = WithMethod(id, static)
  BY <1>1 DEF WithMethod, BuiltIns
<1>6. \A c, scope : Members(c, scope)' = Members(c, scope)
  BY <1>1 DEF Members
<1>7. \A id : WithStatic(id)' = WithStatic(id)
  BY <1>1, <1>6 DEF WithStatic, BuiltIns
<1>8. \A id : WithConstant(id)' = WithConstant(id)
  BY <1>1, <1>6 DEF WithConstant, BuiltIns
<1>. QED
  BY <1>1, <1>4, <1>5, <1>6, <1>7, <1>8

\* The compiler has finished: the rest of the invariant is about last and status.
LEMMA CompiledKeeps ==
  ASSUME DispatchInv, UNCHANGED <<compiled, file, im>>
  PROVE  /\ program' \in Programs /\ Listed' /\ ConstantTable'
         /\ (code \in Seq(Range(code)) /\ \A i \in DOMAIN code : Compiled(code[i]))'
         /\ Linked => Linked'
<1>1. /\ program' = program /\ tab' = tab /\ ct' = ct /\ code' = code /\ file' = file /\ im' = im
      /\ Declared' = Declared
  BY SameTab DEF compiled
<1>2. Listed'
  BY <1>1 DEF DispatchInv, Listed
<1>3. ConstantTable'
  BY <1>1 DEF DispatchInv, ConstantTable
<1>4. ASSUME NEW e, Compiled(e) PROVE Compiled(e)'
  BY <1>1, <1>4 DEF Compiled
<1>6. (\A i \in DOMAIN code : Compiled(code[i]))'
  BY <1>1, <1>4 DEF DispatchInv
<1>5. Linked => Linked'
  BY <1>1 DEF Linked, Link
<1>. QED
  BY <1>1, <1>2, <1>3, <1>5, <1>6 DEF DispatchInv

\* Nothing is executed.
LEMMA SameLast ==
  ASSUME tab' = tab, code' = code, im' = im, last' = last
  PROVE  DispatchNearest <=> DispatchNearest'
BY SameTab DEF DispatchNearest, Executed, Ins, NearestIn, NameOf, Redirected

LEMMA StopDispatches ==
  ASSUME DispatchInv, NEW why, why \notin {"parse", "written", "run"}, Stop(why)
  PROVE  DispatchInv'
<1>1. /\ UNCHANGED <<compiled, file, im>> /\ status' = why
      /\ tab' = tab /\ code' = code /\ im' = im /\ last' = last
  BY DEF Stop, compiled
<1>2. DispatchNearest'
  BY <1>1, SameLast DEF DispatchInv
<1>3. Started'
  BY <1>1, CompiledKeeps DEF DispatchInv, Started
<1>. QED
  BY <1>1, <1>2, <1>3, CompiledKeeps DEF DispatchInv

LEMMA SameDispatches ==
  ASSUME DispatchInv, UNCHANGED <<compiled, file, im, last, status>>
  PROVE  DispatchInv'
<1>1. /\ UNCHANGED <<compiled, file, im>> /\ status' = status /\ last' = last /\ file' = file
      /\ tab' = tab /\ code' = code /\ im' = im
  BY DEF compiled
<1>2. DispatchNearest'
  BY <1>1, SameLast DEF DispatchInv
<1>3. Started'
  BY <1>1, CompiledKeeps DEF DispatchInv, Started
<1>. QED
  BY <1>1, <1>2, <1>3, CompiledKeeps DEF DispatchInv

-----------------------------------------------------------------------------
(* Execution.                                                              *)

\* What is left to show of an instruction.
LEMMA ExecutionKeeps ==
  ASSUME DispatchInv, status = "run", UNCHANGED <<compiled, file, im>>,
         last'.i \in DOMAIN code, status' \in {"run", "stopped"}, DispatchNearest'
  PROVE  DispatchInv'
<1>1. code' = code /\ Linked
  BY DEF compiled, DispatchInv, Started
<1>2. Started'
  BY <1>1, CompiledKeeps DEF Started
<1>. QED
  BY <1>2, CompiledKeeps DEF DispatchInv
\* The nearest class is a class.
OwnerKnown(owner) == owner = Null \/ owner \in ClassNames

LEMMA NearestKnown ==
  ASSUME Listed, Linked, NEW S
  PROVE  \A i \in ClassIds : OwnerKnown(NearestIn(S, NameOf(i)))
<1>. DEFINE T == {i \in ClassIds : OwnerKnown(NearestIn(S, NameOf(i)))}
<1>1. ASSUME NEW i \in ClassIds, im.up[i] # 0 => im.up[i] \in T PROVE i \in T
  <2>1. NameOf(i) \in ClassNames
    BY NamesOf
  <2>. QED
    BY <1>1, <2>1, NearestUp DEF OwnerKnown
<1>. HIDE DEF T
<1>2. ClassIds \subseteq T
  BY <1>1, MachineInduction
<1>. QED
  BY <1>2 DEF T
\* The class of a symbol is the one it names, or calls of super have taken it.
LEMMA SymbolNames ==
  ASSUME DispatchInv, Linked, NEW j \in DOMAIN ct, im.symcls[j] # 0
  PROVE  /\ im.symcls[j] \in ClassIds
         /\ NameOf(im.symcls[j]) = ct[j].text \/ Redirected(ct[j].text)
<1>1. Listed /\ ConstantTable
  BY DEF DispatchInv
<1>2. CASE ct[j].cls = 0
  BY <1>1, <1>2, SymbolClass
<1>3. CASE ct[j].cls # 0
  <2>1. NameOf(im.symcls[j]) = ct[ct[j].cls].text /\ im.symcls[j] \in ClassIds
    BY <1>1, <1>3, SymbolClass
  <2>2. PICK i \in DOMAIN code : /\ code[i].op = "CALLS" /\ code[i].id = ct[j].text
                                 /\ code[i].parName = ct[ct[j].cls].text
    BY <1>1, <1>3 DEF ConstantTable
  <2>. QED
    BY <2>1, <2>2 DEF Redirected
<1>. QED
  BY <1>2, <1>3

\* The receivers of an instruction.
LEMMA ReceiverClass ==
  ASSUME Listed
  PROVE  \A r \in Receivers : r.c \in ClassIds /\ r.c \in Own /\ r.isClass \in BOOLEAN
BY TabFacts DEF Receivers, Own, ClassIds

LEMMA CallDispatches ==
  ASSUME DispatchInv, CacheInv, status = "run", NEW i \in DOMAIN code,
         code[i].op \in {"CALL", "CALLE", "CALLS"},
         NEW c \in ClassIds, NEW static \in BOOLEAN, Call(i, c, static),
         code[i].op = "CALLS" => NameOf(c) = code[i].parName,
         code[i].op = "CALLE" => \/ code[i].qual = NoParent \/ NameOf(c) = code[i].qual
                                 \/ Redirected(code[i].qual)
  PROVE  DispatchInv'
<1>. DEFINE mth == IF Hit(i, c) THEN cache[i].mth ELSE LookedUp(i, c, static)
            owner == NearestIn(WithMethod(code[i].id, static), NameOf(c))
<1>1. /\ UNCHANGED <<compiled, file, im>> /\ status' \in {"run", "stopped"}
      /\ last' = [i |-> i, c |-> c, static |-> static, out |-> mth, hit |-> Hit(i, c),
                  mixed |-> Hit(i, c) /\ cache[i].static # static]
  BY DEF Call, LookedUp
<1>2. /\ tab' = tab /\ code' = code /\ im' = im
      /\ last'.i = i /\ last'.c = c /\ last'.static = static /\ last'.out = mth
  BY <1>1 DEF compiled
<1>3. mth = LookedUp(i, c, static) \/ last'.mixed
  <2>1. CASE Hit(i, c) /\ cache[i].static = static
    BY <2>1 DEF CacheInv, EntriesFresh, CachePerInstruction, Hit
  <2>2. CASE Hit(i, c) /\ cache[i].static # static
    BY <1>1, <2>2
  <2>. QED
    BY <2>1, <2>2
<1>4. LookedUp(i, c, static) = IF owner = Null THEN Null ELSE [of |-> owner, method |-> code[i].id]
  <2>1. Listed /\ Linked /\ code[i].id \in Words
    BY DEF DispatchInv, Started, Compiled
  <2>. QED
    BY <2>1, MethodNearest DEF LookedUp
<1>5. owner # Null => LookedUp(i, c, static) # Null
  <2>1. Listed /\ Linked /\ code[i].id \in Words
    BY DEF DispatchInv, Started, Compiled
  <2>2. OwnerKnown(owner)
    BY <2>1, NearestKnown DEF OwnerKnown
  <2>3. owner # Null => [of |-> owner, method |-> code[i].id] \in FoundMethod
    BY <2>1, <2>2 DEF FoundMethod, OwnerKnown
  <2>. QED
    BY <1>4, <2>3, NullAssumption
<1>. HIDE DEF mth
<1>6. owner = NearestIn(WithMethod(code[i].id, static), IF code[i].op = "CALLS" THEN code[i].parName
                                                          ELSE NameOf(c))
  OBVIOUS
<1>. HIDE DEF owner
<1>7. DispatchNearest'
  <2>1. \/ last'.out = Null /\ owner = Null
        \/ last'.out # Null /\ last'.out.of = owner /\ last'.out.method = code[i].id
        \/ last'.mixed
    BY <1>2, <1>3, <1>4, <1>5
  <2>. QED
    BY <1>2, <1>6, <2>1, SameTab DEF DispatchNearest, Executed, Ins, NearestIn, NameOf, Redirected
<1>. QED
  BY <1>1, <1>2, <1>7, ExecutionKeeps

LEMMA FoundDispatches ==
  ASSUME DispatchInv, status = "run", NEW i \in DOMAIN code, NEW c, NEW static, NEW out,
         Found(i, c, static, out), code[i].op \notin {"CALL", "CALLE", "CALLS"},
         code[i].op = "NEW" => out.of = code[i].id \/ Redirected(code[i].id)
  PROVE  DispatchInv'
<1>1. /\ UNCHANGED <<compiled, file, im>> /\ status' \in {"run", "stopped"}
      /\ last'.i = i /\ last'.out = out
  BY DEF Found
<1>2. tab' = tab /\ code' = code /\ im' = im
  BY <1>1 DEF compiled
<1>3. DispatchNearest'
  BY <1>1, <1>2 DEF DispatchNearest, Executed, Ins, Redirected
<1>. QED
  BY <1>1, <1>2, <1>3, ExecutionKeeps

LEMMA NoClassDispatches ==
  ASSUME DispatchInv, NEW i, NoClass(i)
  PROVE  DispatchInv'
BY StopDispatches DEF NoClass

\* The class put on the stack before an instruction.
LEMMA QualifierIs ==
  ASSUME DispatchInv, status = "run", NEW i \in DOMAIN code, code[i].pushed = "class", Qualifier(i) # 0
  PROVE  /\ Qualifier(i) \in ClassIds
         /\ code[i].qual # NoParent
         /\ NameOf(Qualifier(i)) = code[i].qual \/ Redirected(code[i].qual)
<1>1. Linked /\ Compiled(code[i])
  BY DEF DispatchInv, Started
<1>2. code[i].qual # NoParent /\ code[i].qsym \in DOMAIN ct /\ ct[code[i].qsym].text = code[i].qual
  BY <1>1 DEF Compiled
<1>3. im.symcls[code[i].qsym] # 0
  BY DEF Qualifier
<1>. QED
  BY <1>1, <1>2, <1>3, SymbolNames DEF Qualifier

\* The class of the parent that a call of super names.
LEMMA SuperClass ==
  ASSUME DispatchInv, status = "run", NEW i \in DOMAIN code, code[i].op = "CALLS"
  PROVE  im.symcls[code[i].sym] \in ClassIds /\ NameOf(im.symcls[code[i].sym]) = code[i].parName
<1>. DEFINE j == code[i].sym
<1>1. Linked /\ Compiled(code[i]) /\ Listed /\ ConstantTable
  BY DEF DispatchInv, Started
<1>2. j \in DOMAIN ct
  BY <1>1 DEF Compiled, ByAddress
<1>3. code[i].parName \in Declared /\ ct[j].cls \in DOMAIN ct /\ ct[ct[j].cls].text = code[i].parName
  BY <1>1 DEF Compiled
<1>4. ct[j].cls # 0
  BY <1>1, <1>3 DEF ConstantTable
<1>. HIDE DEF j
<1>5. im.symcls[j] \in ClassIds /\ NameOf(im.symcls[j]) = code[i].parName
  BY <1>1, <1>2, <1>3, <1>4, SymbolClass
<1>. QED
  BY <1>5 DEF j

LEMMA ExecuteDispatches ==
  ASSUME DispatchInv, CacheInv, NEW i \in DOMAIN code, Execute(i)
  PROVE  DispatchInv'
<1>0. status = "run" /\ Listed /\ Linked /\ Compiled(code[i]) /\ ConstantTable
  <2>1. status = "run"
    BY DEF Execute, StaticOfThis, StaticOfClass, StaticByName, InstanceOfThis, InstanceByName,
           CALL, CALLS, CALLE, NewObject, At
  <2>. QED
    BY <2>1 DEF DispatchInv, Started
<1>1. CASE StaticOfThis(i)
  BY <1>0, <1>1, FoundDispatches DEF StaticOfThis, At
<1>2. CASE StaticOfClass(i)
  BY <1>0, <1>2, FoundDispatches, NoClassDispatches DEF StaticOfClass, At
<1>3. CASE StaticByName(i)
  BY <1>0, <1>3, FoundDispatches, NoClassDispatches DEF StaticByName, At
<1>4. CASE InstanceOfThis(i)
  <2>1. PICK th \in This(i) :
          IF th.isClass THEN Stop("aborted")
          ELSE Found(i, th.c, FALSE, INST_VAR(im, th.c, code[i].addr))
    BY <1>4 DEF InstanceOfThis
  <2>2. code[i].op \notin {"CALL", "CALLE", "CALLS", "NEW"}
    BY <1>4 DEF InstanceOfThis, At
  <2>. QED
    BY <1>0, <2>1, <2>2, FoundDispatches, StopDispatches
<1>5. CASE InstanceByName(i)
  <2>1. PICK r \in Receivers :
          IF r.isClass THEN Stop("aborted")
          ELSE LET s == vm_find_instance_sym_in_class(im, r.c, code[i].id) IN
               Found(i, r.c, FALSE, IF s = Null THEN Null ELSE INST_VAR(im, r.c, s.addr))
    BY <1>5 DEF InstanceByName
  <2>2. code[i].op \notin {"CALL", "CALLE", "CALLS", "NEW"}
    BY <1>5 DEF InstanceByName, At
  <2>. QED
    BY <1>0, <2>1, <2>2, FoundDispatches, StopDispatches
<1>6. CASE CALL(i)
  <2>1. code[i].op = "CALL"
    BY <1>6 DEF CALL, At
  <2>2. PICK th \in Receivers : Call(i, th.c, th.isClass)
    BY <1>6 DEF CALL, This
  <2>3. th.c \in ClassIds /\ th.isClass \in BOOLEAN
    BY <1>0, ReceiverClass
  <2>. QED
    BY <1>0, <2>1, <2>2, <2>3, CallDispatches
<1>7. CASE CALLS(i)
  <2>1. code[i].op = "CALLS"
    BY <1>7 DEF CALLS, At
  <2>2. PICK th \in Receivers : Call(i, im.symcls[code[i].sym], th.isClass)
    BY <1>7 DEF CALLS, This
  <2>3. th.isClass \in BOOLEAN
    BY <1>0, ReceiverClass
  <2>4. im.symcls[code[i].sym] \in ClassIds /\ NameOf(im.symcls[code[i].sym]) = code[i].parName
    BY <1>0, <2>1, SuperClass
  <2>. QED
    BY <1>0, <2>1, <2>2, <2>3, <2>4, CallDispatches
<1>8. CASE CALLE(i)
  <2>0. code[i].op = "CALLE"
    BY <1>8 DEF CALLE, At
  <2>1. CASE code[i].pushed = "object" /\ \E r \in Receivers : Call(i, r.c, r.isClass)
    <3>1. PICK r \in Receivers : Call(i, r.c, r.isClass)
      BY <2>1
    <3>2. r.c \in ClassIds /\ r.isClass \in BOOLEAN
      BY <1>0, ReceiverClass
    <3>3. code[i].qual = NoParent
      BY <1>0, <2>1 DEF Compiled
    <3>. QED
      BY <1>0, <2>0, <3>1, <3>2, <3>3, CallDispatches
  <2>2. CASE NoClass(i)
    BY <2>2, NoClassDispatches
  <2>3. CASE code[i].pushed = "class" /\ Qualifier(i) # 0 /\ Call(i, Qualifier(i), TRUE)
    <3>1. Qualifier(i) \in ClassIds /\ (NameOf(Qualifier(i)) = code[i].qual \/ Redirected(code[i].qual))
      BY <1>0, <2>3, QualifierIs
    <3>. QED
      BY <1>0, <2>0, <2>3, <3>1, CallDispatches
  <2>4. CASE Stop("crashed")
    BY <2>4, StopDispatches
  <2>. QED
    BY <1>8, <2>1, <2>2, <2>3, <2>4 DEF CALLE
<1>9. CASE NewObject(i)
  <2>. DEFINE c == im.symcls[code[i].sym]
  <2>0. code[i].op = "NEW"
    BY <1>9 DEF NewObject, At
  <2>1. CASE c = 0
    BY <1>9, <2>1, StopDispatches DEF NewObject
  <2>2. CASE c # 0
    <3>1. Found(i, c, FALSE, [of |-> im.classes[c].name, method |-> im.classes[c].name])
      BY <1>9, <2>2 DEF NewObject
    <3>2. code[i].sym \in DOMAIN ct /\ ct[code[i].sym].text = code[i].id
      BY <1>0, <2>0 DEF Compiled, ByAddress
    <3>3. NameOf(c) = code[i].id \/ Redirected(code[i].id)
      BY <1>0, <2>2, <3>2, SymbolNames
    <3>. QED
      BY <1>0, <2>0, <3>1, <3>3, FoundDispatches DEF NameOf
  <2>. QED
    BY <2>1, <2>2
<1>. QED
  BY <1>1, <1>2, <1>3, <1>4, <1>5, <1>6, <1>7, <1>8, <1>9 DEF Execute

-----------------------------------------------------------------------------
(* Writing and starting.                                                   *)

LEMMA WriteDispatches ==
  ASSUME DispatchInv, Write
  PROVE  DispatchInv'
<1>1. /\ UNCHANGED <<compiled, im>> /\ status = "parse" /\ status' = "written" /\ last' = last
      /\ file' = bcout_to_file(tab) /\ im = Null /\ last = Null
  BY DEF Write, DispatchInv, Started
<1>2. tab' = tab /\ code' = code /\ im' = im /\ program' = program /\ ct' = ct /\ Declared' = Declared
  BY <1>1, SameTab DEF compiled
<1>3. DispatchNearest' /\ Started'
  BY <1>1, <1>2 DEF DispatchNearest, Executed, Started
<1>4. Listed' /\ ConstantTable'
  BY <1>2 DEF DispatchInv, Listed, ConstantTable
<1>5. ASSUME NEW e, Compiled(e) PROVE Compiled(e)'
  BY <1>2, <1>5 DEF Compiled
<1>6. (\A i \in DOMAIN code : Compiled(code[i]))'
  BY <1>2, <1>5 DEF DispatchInv
<1>. QED
  BY <1>2, <1>3, <1>4, <1>6 DEF DispatchInv

LEMMA StartDispatches ==
  ASSUME DispatchInv, Start
  PROVE  DispatchInv'
<1>. DEFINE classes == Classes(file)
<1>1. CASE ~ParentsFound(classes)
  BY <1>1, StopDispatches DEF Start
<1>2. CASE ParentsFound(classes) /\ ~Acyclic(ParentPointers(classes))
  BY <1>2, StopDispatches DEF Start
<1>3. CASE ParentsFound(classes) /\ Acyclic(ParentPointers(classes))
  <2>1. /\ im' = Link(classes) /\ status' = "run" /\ last' = last /\ last = Null
        /\ program' = program /\ tab' = tab /\ ct' = ct /\ code' = code /\ file = bcout_to_file(tab)
        /\ Declared' = Declared
    BY <1>3, SameTab DEF Start, compiled, DispatchInv, Started
  <2>2. Linked'
    <3>1. im' = Link(Classes(bcout_to_file(tab)))
      BY <2>1
    <3>2. (Link(Classes(bcout_to_file(tab))))' = Link(Classes(bcout_to_file(tab)))
      BY <2>1 DEF Link
    <3>3. im'.classes = classes /\ im'.up = ParentPointers(classes)
      BY <2>1 DEF Link
    <3>. QED
      BY <1>3, <3>1, <3>2, <3>3 DEF Linked
  <2>3. DispatchNearest' /\ Started'
    BY <2>1, <2>2 DEF DispatchNearest, Executed, Started
  <2>4. Listed' /\ ConstantTable'
    BY <2>1 DEF DispatchInv, Listed, ConstantTable
  <2>5. ASSUME NEW e, Compiled(e) PROVE Compiled(e)'
    BY <2>1, <2>5 DEF Compiled
  <2>6. (\A i \in DOMAIN code : Compiled(code[i]))'
    BY <2>1, <2>5 DEF DispatchInv
  <2>. QED
    BY <2>1, <2>3, <2>4, <2>6 DEF DispatchInv
<1>. QED
  BY <1>1, <1>2, <1>3

-----------------------------------------------------------------------------
(* Parsing declarations.                                                   *)

\* A declaration leaves the code alone.
LEMMA DeclarationDispatches ==
  ASSUME DispatchInv, status = "parse", UNCHANGED <<program, ct, code, file, im, last, status>>,
         Listed', Declared \subseteq Declared'
  PROVE  DispatchInv'
<1>1. im = Null /\ last = Null /\ last' = Null /\ im' = Null /\ status' = "parse" /\ program' = program
  BY DEF DispatchInv, Started
<1>2. DispatchNearest' /\ Started'
  BY <1>1 DEF DispatchNearest, Executed, Started
<1>3. ConstantTable'
  BY DEF DispatchInv, ConstantTable
<1>4. ASSUME NEW e, Compiled(e) PROVE Compiled(e)'
  BY <1>4 DEF Compiled
<1>5. (\A i \in DOMAIN code : Compiled(code[i]))'
  BY <1>4 DEF DispatchInv
<1>. QED
  BY <1>1, <1>2, <1>3, <1>5 DEF DispatchInv

\* A search by name finds a class exactly if there is one.
LEMMA HledejClass ==
  ASSUME Listed
  PROVE  \A id : /\ id \in Declared => hledejClass(tab, id) \in ClassEnvs /\ hledejClass(tab, id) # Null
                 /\ id \notin Declared => hledejClass(tab, id) = Null
<1>1. \A i \in Own : hledejClass(tab, tab[i].className) \in ClassEnvs
  BY TabFacts
<1>2. \A id \in Declared : hledejClass(tab, id) \in ClassEnvs
  BY <1>1, TabFacts
<1>. QED
  BY <1>2, TabFacts, NullAssumption

LEMMA NewClassEnv ==
  ASSUME Listed, NEW name \in Range(Names), NEW par \in UNION {p.parents : p \in Programs}
  PROVE  LET ce == ClassEnv(name, par, hledejClass(tab, par)) IN
         /\ ce \in ClassEnvs /\ ce.className = name /\ ce.parentName = par
         /\ ce.parent = IF par = NoParent THEN NoParent
                        ELSE IF par \in Declared THEN par ELSE CLASS_UNKNOWN
<1>. DEFINE pe == hledejClass(tab, par)
            ce == ClassEnv(name, par, pe)
<1>1. (pe = Null <=> par \notin Declared) /\ (pe # Null => pe \in ClassEnvs)
  BY HledejClass
<1>2. par \in Declared => par \in Range(Names)
  BY TabFacts
<1>. HIDE DEF pe
<1>3. pe # Null => pe.class_addr_next \in Nat /\ pe.obj_addr_next \in Nat
  BY <1>1 DEF ClassEnvs
<1>4. ce.class_addr_next \in Nat /\ ce.obj_addr_next \in Nat
  BY <1>3 DEF ClassEnv
<1>5. ce.parent = IF par = NoParent THEN NoParent ELSE IF par \in Declared THEN par ELSE CLASS_UNKNOWN
  BY <1>1 DEF ClassEnv
<1>6. ce.parent \in Range(Names) \union {NoParent, CLASS_UNKNOWN}
  BY <1>2, <1>5
<1>7. ce = [className |-> name, parentName |-> par, parent |-> ce.parent,
            class_addr_next |-> ce.class_addr_next, obj_addr_next |-> ce.obj_addr_next,
            syms |-> <<>>, methods |-> <<>>, constructor |-> FALSE, static_init |-> FALSE]
  BY DEF ClassEnv
<1>8. <<>> \in Seq(PrvekTabs) /\ <<>> \in Seq(MethodEnvs)
  OBVIOUS
<1>9. ce \in ClassEnvs
  <2>. DEFINE P == ce.parent
              A == ce.class_addr_next
              B == ce.obj_addr_next
  <2>1. ce = [className |-> name, parentName |-> par, parent |-> P, class_addr_next |-> A,
              obj_addr_next |-> B, syms |-> <<>>, methods |-> <<>>, constructor |-> FALSE,
              static_init |-> FALSE]
    BY <1>7
  <2>. HIDE DEF ce, P, A, B
  <2>2. P \in Range(Names) \union {NoParent, CLASS_UNKNOWN} /\ A \in Nat /\ B \in Nat
    BY <1>4, <1>6 DEF P, A, B
  <2>. QED
    BY <2>1, <2>2, <1>8 DEF ClassEnvs
<1>10. ce.className = name /\ ce.parentName = par
  BY DEF ClassEnv
<1>. QED
  BY <1>5, <1>9, <1>10 DEF pe

LEMMA TridaLists ==
  ASSUME DispatchInv, NEW par \in program.parents, Trida(par)
  PROVE  Listed' /\ Declared \subseteq Declared'
<1>. DEFINE n == Len(tab)
            ce == ClassEnv(Names[n + 1], par, hledejClass(tab, par))
<1>1. /\ Listed /\ n \in Nat /\ n < Len(Names) /\ Len(Names) \in Nat /\ DOMAIN Names = 1 .. Len(Names)
      /\ tab \in Seq(ClassEnvs) /\ tab' = <<ce>> \o tab
  BY NamesAssumption DEF DispatchInv, Listed, Trida, deklClass
<1>2. Names[n + 1] \in Range(Names) /\ par \in UNION {p.parents : p \in Programs}
  BY <1>1 DEF Range, DispatchInv
<1>3. /\ ce \in ClassEnvs /\ ce.className = Names[n + 1] /\ ce.parentName = par
      /\ ce.parent = IF par = NoParent THEN NoParent
                     ELSE IF par \in Declared THEN par ELSE CLASS_UNKNOWN
  BY <1>1, <1>2, NewClassEnv
<1>. HIDE DEF ce
<1>4. /\ tab' \in Seq(ClassEnvs) /\ Len(tab') = n + 1 /\ tab'[1] = ce
      /\ \A i \in 1 .. n : tab'[i + 1] = tab[i]
      /\ \A i \in 2 .. n + 1 : tab'[i] = tab[i - 1] /\ i - 1 \in 1 .. n
  BY <1>1, <1>3
<1>. HIDE DEF n
<1>5. Declared = {tab[i].className : i \in 1 .. n}
  BY <1>1, TabFacts DEF Own, n
<1>6. ASSUME NEW i \in 1 .. n + 1
      PROVE  /\ tab'[i].className = Names[n + 2 - i]
             /\ \/ tab'[i].parent \in {NoParent, CLASS_UNKNOWN}
                \/ /\ tab'[i].parent = tab'[i].parentName
                   /\ \E j \in i + 1 .. n + 1 : tab'[j].className = tab'[i].parent
             /\ tab'[i].parent = NoParent <=> tab'[i].parentName = NoParent
  <2>1. CASE i = 1
    <3>1. tab'[i].className = Names[n + 2 - i]
      BY <1>1, <1>3, <1>4, <2>1
    <3>2. par \in Declared => \E j \in 2 .. n + 1 : tab'[j].className = par
      <4>1. ASSUME NEW k \in 1 .. n, tab[k].className = par PROVE \E j \in 2 .. n + 1 : tab'[j].className = par
        <5>1. k + 1 \in 2 .. n + 1 /\ tab'[k + 1].className = par
          BY <1>1, <1>4, <4>1 DEF n
        <5>. QED
          BY <5>1
      <4>. QED
        BY <1>5, <4>1
    <3>3. CLASS_UNKNOWN # NoParent
      BY DEF CLASS_UNKNOWN, NoParent
    <3>. QED
      BY <1>3, <1>4, <2>1, <3>1, <3>2, <3>3
  <2>2. CASE i # 1
    <3>. DEFINE k == i - 1
    <3>1. k \in 1 .. n /\ tab'[i] = tab[k] /\ n + 2 - i = n + 1 - k
      BY <1>1, <1>4, <2>2 DEF n
    <3>2. k \in DOMAIN tab /\ n = Len(tab)
      BY <1>1, <3>1 DEF n
    <3>3. /\ tab[k].className = Names[n + 1 - k]
          /\ \/ tab[k].parent \in {NoParent, CLASS_UNKNOWN}
             \/ /\ tab[k].parent = tab[k].parentName
                /\ \E j \in k + 1 .. n : tab[j].className = tab[k].parent
          /\ tab[k].parent = NoParent <=> tab[k].parentName = NoParent
      BY <1>1, <3>2 DEF Listed
    <3>4. ASSUME NEW j \in k + 1 .. n PROVE j + 1 \in i + 1 .. n + 1 /\ tab'[j + 1] = tab[j]
      BY <1>1, <1>4, <3>1, <3>4 DEF n
    <3>. HIDE DEF k
    <3>5. tab'[i].className = Names[n + 2 - i] /\ (tab'[i].parent = NoParent <=> tab'[i].parentName = NoParent)
      BY <3>1, <3>3
    <3>6. \/ tab'[i].parent \in {NoParent, CLASS_UNKNOWN}
          \/ /\ tab'[i].parent = tab'[i].parentName
             /\ \E j \in i + 1 .. n + 1 : tab'[j].className = tab'[i].parent
      <4>1. CASE tab[k].parent \in {NoParent, CLASS_UNKNOWN}
        BY <3>1, <4>1
      <4>2. ASSUME NEW j \in k + 1 .. n, tab[k].parent = tab[k].parentName,
                   tab[j].className = tab[k].parent
            PROVE  /\ tab'[i].parent = tab'[i].parentName
                   /\ \E h \in i + 1 .. n + 1 : tab'[h].className = tab'[i].parent
        BY <3>1, <3>4, <4>2
      <4>. QED
        BY <3>3, <4>1, <4>2
    <3>. QED
      BY <3>5, <3>6
  <2>. QED
    BY <2>1, <2>2
<1>7. Listed'
  <2>1. DOMAIN tab' = 1 .. n + 1 /\ n + 1 <= Len(Names) /\ tab' \in Seq(ClassEnvs) /\ Len(tab') = n + 1
    BY <1>1, <1>4 DEF n
  <2>2. n + 1 + 1 = n + 2 /\ \A i \in 1 .. n + 1 : n + 1 + 1 - i = n + 2 - i
    BY <1>1
  <2>3. \A i \in 1 .. n + 1 : tab'[i].className = Names[n + 1 + 1 - i]
    BY <1>6, <2>2
  <2>. QED
    BY <1>6, <2>1, <2>3 DEF Listed
<1>8. Declared \subseteq Declared'
  <2>1. \A i \in 1 .. n : tab'[i + 1].className \in Declared'
    <3>1. ASSUME NEW i \in 1 .. n PROVE tab'[i + 1] \in Range(tab')
      <4>1. i + 1 \in DOMAIN tab'
        BY <1>1, <1>4, <3>1 DEF n
      <4>. QED
        BY <4>1 DEF Range
    <3>. QED
      BY <3>1 DEF Declared
  <2>. QED
    BY <1>4, <1>5, <2>1 DEF n
<1>. QED
  BY <1>7, <1>8

\* A declaration in the class being parsed.
SameHead(ce, old) ==
  /\ ce \in ClassEnvs
  /\ ce.className = old.className /\ ce.parentName = old.parentName /\ ce.parent = old.parent

LEMMA InClassLists ==
  ASSUME Listed, tab # <<>>, NEW ce, SameHead(ce, tab[1]), tab' = InClass(tab, ce)
  PROVE  Listed' /\ Declared' = Declared
<1>1. /\ tab \in Seq(ClassEnvs) /\ DOMAIN tab = 1 .. Len(tab) /\ Len(tab) \in Nat /\ 1 \in 1 .. Len(tab)
      /\ Len(tab) <= Len(Names)
  BY DEF Listed
<1>2. tab' = [tab EXCEPT ![1] = ce]
  BY DEF InClass
<1>3. /\ tab' \in Seq(ClassEnvs) /\ Len(tab') = Len(tab) /\ DOMAIN tab' = DOMAIN tab
      /\ tab'[1] = ce /\ \A i \in 2 .. Len(tab) : tab'[i] = tab[i]
  BY <1>1, <1>2 DEF SameHead
<1>4. \A i \in 1 .. Len(tab) : /\ tab'[i].className = tab[i].className
                               /\ tab'[i].parentName = tab[i].parentName
                               /\ tab'[i].parent = tab[i].parent
  <2>1. \A i \in 1 .. Len(tab) : i = 1 \/ i \in 2 .. Len(tab)
    BY <1>1
  <2>. QED
    BY <1>3, <2>1 DEF SameHead
<1>5. \A i \in 1 .. Len(tab) :
        /\ tab'[i].className = Names[Len(tab) + 1 - i]
        /\ \/ tab'[i].parent \in {NoParent, CLASS_UNKNOWN}
           \/ /\ tab'[i].parent = tab'[i].parentName
              /\ \E j \in i + 1 .. Len(tab) : tab'[j].className = tab'[i].parent
        /\ tab'[i].parent = NoParent <=> tab'[i].parentName = NoParent
  <2>. SUFFICES ASSUME NEW i \in 1 .. Len(tab)
       PROVE  /\ tab'[i].className = Names[Len(tab) + 1 - i]
              /\ \/ tab'[i].parent \in {NoParent, CLASS_UNKNOWN}
                 \/ /\ tab'[i].parent = tab'[i].parentName
                    /\ \E j \in i + 1 .. Len(tab) : tab'[j].className = tab'[i].parent
              /\ tab'[i].parent = NoParent <=> tab'[i].parentName = NoParent
    OBVIOUS
  <2>1. \A j \in i + 1 .. Len(tab) : j \in 1 .. Len(tab)
    BY <1>1
  <2>2. i \in DOMAIN tab
    BY <1>1
  <2>3. /\ tab[i].className = Names[Len(tab) + 1 - i]
        /\ \/ tab[i].parent \in {NoParent, CLASS_UNKNOWN}
           \/ /\ tab[i].parent = tab[i].parentName
              /\ \E j \in i + 1 .. Len(tab) : tab[j].className = tab[i].parent
        /\ tab[i].parent = NoParent <=> tab[i].parentName = NoParent
    BY <2>2 DEF Listed
  <2>. QED
    BY <1>4, <2>1, <2>3
<1>6. Listed'
  BY <1>1, <1>3, <1>5 DEF Listed
<1>7. Declared' = Declared
  <2>1. Declared = {tab[i].className : i \in 1 .. Len(tab)}
    BY <1>1 DEF Declared, Range
  <2>2. Declared' = {tab'[i].className : i \in 1 .. Len(tab)}
    BY <1>1, <1>3 DEF Declared, Range
  <2>. QED
    BY <1>4, <2>1, <2>2
<1>. QED
  BY <1>6, <1>7

\* The head of a class with one declaration more.
LEMMA MemberHead ==
  ASSUME NEW old \in ClassEnvs, NEW p \in PrvekTabs
  PROVE  /\ SameHead([old EXCEPT !.syms = <<p>> \o @, !.class_addr_next = @ + 1], old)
         /\ SameHead([old EXCEPT !.syms = <<p>> \o @, !.obj_addr_next = @ + 1], old)
<1>1. old.syms \in Seq(PrvekTabs) /\ old.class_addr_next \in Nat /\ old.obj_addr_next \in Nat
  BY DEF ClassEnvs
<1>2. <<p>> \o old.syms \in Seq(PrvekTabs) /\ old.class_addr_next + 1 \in Nat /\ old.obj_addr_next + 1 \in Nat
  BY <1>1
<1>3. [old EXCEPT !.syms = <<p>> \o @, !.class_addr_next = @ + 1] \in ClassEnvs
  BY <1>2 DEF ClassEnvs
<1>4. [old EXCEPT !.syms = <<p>> \o @, !.obj_addr_next = @ + 1] \in ClassEnvs
  BY <1>2 DEF ClassEnvs
<1>. QED
  BY <1>3, <1>4 DEF SameHead, ClassEnvs

LEMMA MethodHead ==
  ASSUME NEW old \in ClassEnvs, NEW me \in MethodEnvs
  PROVE  /\ SameHead([old EXCEPT !.methods = <<me>> \o @], old)
         /\ SameHead([old EXCEPT !.static_init = TRUE], old)
         /\ SameHead([old EXCEPT !.constructor = TRUE], old)
<1>1. old.methods \in Seq(MethodEnvs)
  BY DEF ClassEnvs
<1>2. <<me>> \o old.methods \in Seq(MethodEnvs)
  BY <1>1
<1>3. [old EXCEPT !.methods = <<me>> \o @] \in ClassEnvs
  BY <1>2 DEF ClassEnvs
<1>. QED
  BY <1>3 DEF SameHead, ClassEnvs

\* The member a declaration puts in the table, and the class it is put in.
NewPrvek(v) ==
  IF v.const THEN PrvekTab(v.id, "IdConst", "SC_CLASS", tab[1].class_addr_next)
  ELSE IF v.static THEN PrvekTab(v.id, "IdProm", "SC_CLASS", tab[1].class_addr_next)
  ELSE PrvekTab(v.id, "IdProm", "SC_INSTANCE", tab[1].obj_addr_next)

WithMember(v) ==
  IF NewPrvek(v).sc = "SC_CLASS"
  THEN [tab[1] EXCEPT !.syms = <<NewPrvek(v)>> \o @, !.class_addr_next = @ + 1]
  ELSE [tab[1] EXCEPT !.syms = <<NewPrvek(v)>> \o @, !.obj_addr_next = @ + 1]

LEMMA MemberIs ==
  ASSUME DispatchInv, NEW v \in program.vars, Member(v), ~MemberTwice(tab, v.id)
  PROVE  /\ tab # <<>> /\ tab[1] \in ClassEnvs /\ NewPrvek(v) \in PrvekTabs
         /\ tab' = InClass(tab, WithMember(v)) /\ SameHead(WithMember(v), tab[1])
<1>1. Listed /\ program \in Programs /\ tab # <<>>
  BY DEF DispatchInv, Member
<1>2. tab[1] \in ClassEnvs
  BY <1>1 DEF Listed
<1>3. tab[1].class_addr_next \in Nat /\ tab[1].obj_addr_next \in Nat
  BY <1>2 DEF ClassEnvs
<1>4. v.id \in Words /\ v.static \in BOOLEAN /\ v.const \in BOOLEAN
  BY <1>1, ProgramsAssumption DEF Words
<1>5. NewPrvek(v) \in PrvekTabs
  BY <1>3, <1>4 DEF NewPrvek, PrvekTab, PrvekTabs, Scopes
<1>6. tab' = IF v.const THEN deklKonst(tab, v.id) ELSE deklProm(tab, v.id, v.static)
  BY DEF Member
<1>7. tab' = InClass(tab, WithMember(v))
  <2>1. CASE v.const
    BY <1>6, <2>1 DEF deklKonst, AddStatic, WithMember, NewPrvek, PrvekTab
  <2>2. CASE ~v.const /\ v.static
    BY <1>6, <2>2 DEF deklProm, AddStatic, WithMember, NewPrvek, PrvekTab
  <2>3. CASE ~v.const /\ ~v.static
    BY <1>6, <2>3 DEF deklProm, WithMember, NewPrvek, PrvekTab
  <2>. QED
    BY <1>4, <2>1, <2>2, <2>3
<1>8. SameHead(WithMember(v), tab[1])
  BY <1>2, <1>5, MemberHead DEF WithMember
<1>. QED
  BY <1>1, <1>2, <1>5, <1>7, <1>8

LEMMA MetodaIs ==
  ASSUME DispatchInv, NEW me \in program.methods, Metoda(me), ~MethodTwice(tab, MethodName(me), me.static)
  PROVE  /\ tab # <<>> /\ \E ce : SameHead(ce, tab[1]) /\ ce.syms = tab[1].syms
                                  /\ ce.class_addr_next = tab[1].class_addr_next
                                  /\ ce.obj_addr_next = tab[1].obj_addr_next
                                  /\ tab' = InClass(tab, ce)
<1>1. Listed /\ program \in Programs /\ tab # <<>>
  BY DEF DispatchInv, Metoda
<1>2. tab[1] \in ClassEnvs
  BY <1>1 DEF Listed
<1>3. MethodName(me) \in Words /\ me.static \in BOOLEAN
  <2>1. tab[1].className \in Words /\ me.name \in Words
    BY <1>1, <1>2 DEF ClassEnvs, Words
  <2>. QED
    BY <1>1, <2>1, ProgramsAssumption DEF MethodName
<1>. DEFINE m == [methodName |-> MethodName(me), isStatic |-> me.static]
            c1 == [tab[1] EXCEPT !.methods = <<m>> \o @]
            c2 == [tab[1] EXCEPT !.static_init = TRUE]
            c3 == [tab[1] EXCEPT !.constructor = TRUE]
<1>4. m \in MethodEnvs
  BY <1>3 DEF MethodEnvs
<1>. DEFINE Good(c) == /\ SameHead(c, tab[1]) /\ c.syms = tab[1].syms
                       /\ c.class_addr_next = tab[1].class_addr_next
                       /\ c.obj_addr_next = tab[1].obj_addr_next
<1>5. Good(c1) /\ Good(c2) /\ Good(c3)
  <2>1. SameHead(c1, tab[1]) /\ SameHead(c2, tab[1]) /\ SameHead(c3, tab[1])
    BY <1>2, <1>4, MethodHead
  <2>2. c1.syms = tab[1].syms /\ c1.class_addr_next = tab[1].class_addr_next /\ c1.obj_addr_next = tab[1].obj_addr_next
    BY <1>2 DEF ClassEnvs
  <2>3. c2.syms = tab[1].syms /\ c2.class_addr_next = tab[1].class_addr_next /\ c2.obj_addr_next = tab[1].obj_addr_next
    BY <1>2 DEF ClassEnvs
  <2>4. c3.syms = tab[1].syms /\ c3.class_addr_next = tab[1].class_addr_next /\ c3.obj_addr_next = tab[1].obj_addr_next
    BY <1>2 DEF ClassEnvs
  <2>. QED
    BY <2>1, <2>2, <2>3, <2>4
<1>6. tab' = InClass(tab, c1) \/ tab' = InClass(tab, c2) \/ tab' = InClass(tab, c3)
  BY DEF Metoda, deklMethod
<1>. HIDE DEF c1, c2, c3
<1>. QED
  BY <1>1, <1>5, <1>6

LEMMA DeclarationsDispatch ==
  ASSUME DispatchInv,
         \/ \E par \in program.parents : Trida(par)
         \/ \E name \in Range(Names) : TridaAgain(name)
         \/ \E v \in program.vars : Member(v)
         \/ \E me \in program.methods : Metoda(me)
  PROVE  DispatchInv'
<1>1. ASSUME NEW par \in program.parents, Trida(par) PROVE DispatchInv'
  BY <1>1, TridaLists, DeclarationDispatches DEF Trida
<1>2. CASE \E name \in Range(Names) : TridaAgain(name)
  BY <1>2, StopDispatches DEF TridaAgain
<1>3. ASSUME NEW v \in program.vars, Member(v) PROVE DispatchInv'
  <2>1. CASE MemberTwice(tab, v.id)
    BY <1>3, <2>1, StopDispatches DEF Member
  <2>2. CASE ~MemberTwice(tab, v.id)
    <3>1. Listed' /\ Declared' = Declared
      BY <1>3, <2>2, MemberIs, InClassLists DEF DispatchInv
    <3>. QED
      BY <1>3, <2>2, <3>1, DeclarationDispatches DEF Member
  <2>. QED
    BY <2>1, <2>2
<1>4. ASSUME NEW me \in program.methods, Metoda(me) PROVE DispatchInv'
  <2>1. CASE MethodTwice(tab, MethodName(me), me.static)
    BY <1>4, <2>1, StopDispatches DEF Metoda
  <2>2. CASE ~MethodTwice(tab, MethodName(me), me.static)
    <3>1. Listed' /\ Declared' = Declared
      BY <1>4, <2>2, MetodaIs, InClassLists DEF DispatchInv
    <3>. QED
      BY <1>4, <2>2, <3>1, DeclarationDispatches DEF Metoda
  <2>. QED
    BY <2>1, <2>2
<1>. QED
  BY <1>1, <1>2, <1>3, <1>4

-----------------------------------------------------------------------------
(* The constant table.                                                     *)

Symbols == [text : Words, cls : Nat]

Table(t) == t \in Seq(Symbols) /\ \A j \in DOMAIN t : t[j].cls # 0 => t[j].cls \in DOMAIN t

\* Symbols stay, and the classes they have been given.
Grows(a, b) ==
  \A j \in DOMAIN a : /\ j \in DOMAIN b /\ b[j].text = a[j].text
                      /\ a[j].cls # 0 => b[j].cls # 0 /\ b[b[j].cls].text = a[a[j].cls].text

\* A symbol has a class only if it had one, or it is id and its class par.
Given(a, b, id, par) ==
  \A j \in DOMAIN b : b[j].cls # 0 => \/ j \in DOMAIN a /\ a[j].cls # 0
                                      \/ b[j].text = id /\ b[b[j].cls].text = par

NoneGiven(a, b) == \A j \in DOMAIN b : b[j].cls # 0 => j \in DOMAIN a /\ a[j].cls # 0

SymbolAt(t, k, text) == k \in DOMAIN t /\ t[k].text = text

LEMMA FindSym ==
  ASSUME NEW t, Table(t), NEW text
  PROVE  \/ bco_find_sym(t, text) = 0
         \/ bco_find_sym(t, text) # 0 /\ SymbolAt(t, bco_find_sym(t, text), text)
<1>. DEFINE I == {i \in 1 .. Len(t) : t[i].text = text}
<1>0. Len(t) \in Nat /\ DOMAIN t = 1 .. Len(t)
  BY DEF Table
<1>1. CASE I = {}
  BY <1>1 DEF bco_find_sym, SelectInSeq
<1>2. CASE I # {}
  <2>1. bco_find_sym(t, text) = Min(I)
    BY <1>2 DEF bco_find_sym, SelectInSeq
  <2>2. I \in SUBSET Nat
    OBVIOUS
  <2>3. Min(I) \in I
    BY <1>2, <2>2, MinIn
  <2>. QED
    BY <1>0, <2>1, <2>3 DEF SymbolAt
<1>. QED
  BY <1>1, <1>2

LEMMA FoundSym ==
  ASSUME NEW t, Table(t), NEW text, NEW k, SymbolAt(t, k, text)
  PROVE  bco_find_sym(t, text) # 0 /\ SymbolAt(t, bco_find_sym(t, text), text)
<1>. DEFINE I == {i \in 1 .. Len(t) : t[i].text = text}
<1>0. Len(t) \in Nat /\ DOMAIN t = 1 .. Len(t)
  BY DEF Table
<1>1. I # {}
  BY <1>0 DEF SymbolAt
<1>2. bco_find_sym(t, text) = Min(I)
  BY <1>1 DEF bco_find_sym, SelectInSeq
<1>3. I \in SUBSET Nat
  OBVIOUS
<1>4. Min(I) \in I
  BY <1>1, <1>3, MinIn
<1>. QED
  BY <1>0, <1>2, <1>4 DEF SymbolAt

LEMMA AppendSym ==
  ASSUME NEW t, Table(t), NEW text \in Words
  PROVE  LET s == Append(t, [text |-> text, cls |-> 0]) IN
         /\ Table(s) /\ Grows(t, s) /\ NoneGiven(t, s) /\ s # t
         /\ SymbolAt(s, Len(s), text) /\ s[Len(s)].cls = 0
<1>. DEFINE x == [text |-> text, cls |-> 0]
            s == Append(t, x)
<1>1. x \in Symbols /\ x.cls = 0 /\ x.text = text
  BY DEF Symbols
<1>. HIDE DEF x
<1>2. t \in Seq(Symbols) /\ Len(t) \in Nat /\ DOMAIN t = 1 .. Len(t)
  BY DEF Table
<1>3. /\ s \in Seq(Symbols) /\ Len(s) = Len(t) + 1 /\ DOMAIN s = 1 .. Len(t) + 1 /\ s[Len(t) + 1] = x
      /\ \A j \in 1 .. Len(t) : s[j] = t[j]
  BY <1>1, <1>2
<1>. HIDE DEF s
<1>4. \A j \in DOMAIN s : j \in DOMAIN t \/ j = Len(t) + 1
  BY <1>2, <1>3
<1>5. \A j \in DOMAIN t : j \in DOMAIN s /\ s[j] = t[j]
  BY <1>2, <1>3
<1>6. Table(s)
  BY <1>1, <1>3, <1>4, <1>5 DEF Table
<1>7. Grows(t, s)
  BY <1>5 DEF Table, Grows
<1>8. NoneGiven(t, s)
  BY <1>1, <1>3, <1>4, <1>5 DEF NoneGiven
<1>9. SymbolAt(s, Len(s), text) /\ s[Len(s)].cls = 0
  BY <1>1, <1>2, <1>3 DEF SymbolAt
<1>10. s # t
  BY <1>2, <1>3
<1>. QED
  BY <1>6, <1>7, <1>8, <1>9, <1>10 DEF s, x

LEMMA Sym ==
  ASSUME NEW t, Table(t), NEW text \in Words
  PROVE  LET s == bco_sym(t, text) IN
         /\ Table(s) /\ Grows(t, s) /\ NoneGiven(t, s)
         /\ SymbolAt(s, bco_find_sym(s, text), text)
<1>. DEFINE s == Append(t, [text |-> text, cls |-> 0])
<1>1. CASE bco_find_sym(t, text) # 0
  <2>1. bco_sym(t, text) = t
    BY <1>1 DEF bco_sym
  <2>2. Grows(t, t) /\ NoneGiven(t, t)
    BY DEF Grows, NoneGiven
  <2>. QED
    BY <1>1, <2>1, <2>2, FindSym
<1>2. CASE bco_find_sym(t, text) = 0
  <2>1. bco_sym(t, text) = s
    BY <1>2 DEF bco_sym
  <2>2. Table(s) /\ Grows(t, s) /\ NoneGiven(t, s) /\ SymbolAt(s, Len(s), text)
    BY AppendSym
  <2>. HIDE DEF s
  <2>3. SymbolAt(s, bco_find_sym(s, text), text)
    BY <2>2, FoundSym
  <2>. QED
    BY <2>1, <2>2, <2>3
<1>. QED
  BY <1>1, <1>2

LEMMA GrowsOn ==
  ASSUME NEW a, NEW b, NEW c, Grows(a, b), Grows(b, c)
  PROVE  /\ Grows(a, c)
         /\ NoneGiven(a, b) /\ NoneGiven(b, c) => NoneGiven(a, c)
         /\ \A id, par : NoneGiven(a, b) /\ Given(b, c, id, par) => Given(a, c, id, par)
BY DEF Grows, NoneGiven, Given

LEMMA GrowsKeeps ==
  ASSUME NEW a, NEW b, Grows(a, b), NEW k, NEW text, SymbolAt(a, k, text)
  PROVE  SymbolAt(b, k, text)
BY DEF Grows, SymbolAt

LEMMA SuperSymbolIs ==
  ASSUME NEW t, Table(t), NEW mth \in Words, NEW par \in Words
  PROVE  LET s == SuperSymbol(t, mth, par) IN
         /\ Table(s.ct) /\ Grows(t, s.ct) /\ Given(t, s.ct, mth, par)
         /\ SymbolAt(s.ct, s.idx, mth) /\ s.ct[s.idx].cls # 0
         /\ SymbolAt(s.ct, s.ct[s.idx].cls, par)
<1>. DEFINE with == bco_sym(t, mth)
            old  == bco_find_sym(with, mth)
            other == with[old].cls # 0 /\ with[with[old].cls].text # par
            mine == IF other THEN Append(with, [text |-> mth, cls |-> 0]) ELSE with
            idx  == IF mine = with THEN old ELSE Len(mine)
            all  == bco_sym(mine, par)
            k    == bco_find_sym(all, par)
            res  == [all EXCEPT ![idx].cls = k]
<1>1. Table(with) /\ Grows(t, with) /\ NoneGiven(t, with) /\ SymbolAt(with, old, mth)
  BY Sym
<1>2. /\ Table(mine) /\ Grows(with, mine) /\ NoneGiven(with, mine) /\ SymbolAt(mine, idx, mth)
      /\ mine[idx].cls = 0 \/ mine[mine[idx].cls].text = par
  <2>1. CASE other
    <3>. DEFINE m == Append(with, [text |-> mth, cls |-> 0])
    <3>1. mine = m
      BY <2>1
    <3>2. /\ Table(m) /\ Grows(with, m) /\ NoneGiven(with, m) /\ m # with
          /\ SymbolAt(m, Len(m), mth) /\ m[Len(m)].cls = 0
      <4>. HIDE DEF with
      <4>. QED
        BY <1>1, AppendSym
    <3>3. idx = Len(m)
      BY <3>1, <3>2
    <3>. HIDE DEF m, idx, mine, with
    <3>. QED
      BY <3>1, <3>2, <3>3
  <2>2. CASE ~other
    <3>1. mine = with /\ idx = old
      BY <2>2
    <3>2. Grows(with, with) /\ NoneGiven(with, with)
      <4>. HIDE DEF with
      <4>. QED
        BY DEF Grows, NoneGiven
    <3>3. with[old].cls = 0 \/ with[with[old].cls].text = par
      BY <2>2
    <3>. HIDE DEF mine, with, idx, old
    <3>. QED
      BY <1>1, <3>1, <3>2, <3>3
  <2>. QED
    BY <2>1, <2>2
<1>. HIDE DEF mine, idx
<1>3. Table(all) /\ Grows(mine, all) /\ NoneGiven(mine, all) /\ SymbolAt(all, k, par)
  BY <1>2, Sym
<1>4. SymbolAt(all, idx, mth) /\ (all[idx].cls = 0 \/ all[all[idx].cls].text = par)
  BY <1>2, <1>3 DEF Grows, NoneGiven, SymbolAt
<1>. HIDE DEF with, all, k
<1>5. /\ DOMAIN res = DOMAIN all /\ k \in DOMAIN all /\ idx \in DOMAIN all /\ k \in Nat /\ k # 0
      /\ res[idx].cls = k /\ \A j \in DOMAIN all : res[j].text = all[j].text
      /\ \A j \in DOMAIN all : j # idx => res[j] = all[j]
      /\ res \in Seq(Symbols)
  <2>1. all \in Seq(Symbols) /\ DOMAIN all = 1 .. Len(all) /\ Len(all) \in Nat
    BY <1>3 DEF Table
  <2>2. k \in DOMAIN all /\ idx \in DOMAIN all
    BY <1>3, <1>4 DEF SymbolAt
  <2>3. k \in Nat /\ k # 0
    BY <2>1, <2>2
  <2>4. \A j \in DOMAIN all : all[j] \in Symbols
    BY <2>1
  <2>5. [all[idx] EXCEPT !.cls = k] \in Symbols /\ [all[idx] EXCEPT !.cls = k].text = all[idx].text
        /\ [all[idx] EXCEPT !.cls = k].cls = k
    BY <2>2, <2>3, <2>4 DEF Symbols
  <2>. DEFINE y == [all[idx] EXCEPT !.cls = k]
  <2>6. res = [all EXCEPT ![idx] = y]
    OBVIOUS
  <2>. HIDE DEF y
  <2>7. y \in Symbols /\ y.text = all[idx].text /\ y.cls = k
    BY <2>5 DEF y
  <2>8. res \in Seq(Symbols)
    BY <2>1, <2>2, <2>6, <2>7
  <2>9. DOMAIN res = DOMAIN all /\ res[idx] = y /\ \A j \in DOMAIN all : j # idx => res[j] = all[j]
    BY <2>2, <2>6
  <2>. QED
    BY <2>2, <2>3, <2>7, <2>8, <2>9
<1>. HIDE DEF res
<1>6. Table(res)
  BY <1>3, <1>5 DEF Table
<1>7. Grows(all, res)
  <2>1. ASSUME NEW j \in DOMAIN all, all[j].cls # 0
        PROVE  res[j].cls # 0 /\ res[res[j].cls].text = all[all[j].cls].text
    <3>1. CASE j = idx
      <4>1. all[all[j].cls].text = par /\ all[k].text = par
        BY <1>3, <1>4, <2>1, <3>1 DEF SymbolAt
      <4>. QED
        BY <1>5, <3>1, <4>1
    <3>2. CASE j # idx
      <4>1. all[j].cls \in DOMAIN all
        BY <1>3, <2>1 DEF Table
      <4>. QED
        BY <1>5, <2>1, <3>2, <4>1
    <3>. QED
      BY <3>1, <3>2
  <2>. QED
    BY <1>5, <2>1 DEF Grows
<1>8. Given(all, res, mth, par)
  BY <1>3, <1>4, <1>5 DEF Given, SymbolAt, Table
<1>9. SymbolAt(res, idx, mth) /\ res[idx].cls # 0 /\ SymbolAt(res, res[idx].cls, par)
  BY <1>3, <1>4, <1>5 DEF SymbolAt
<1>10. Grows(t, all) /\ NoneGiven(t, all)
  <2>1. Grows(t, mine) /\ NoneGiven(t, mine)
    BY <1>1, <1>2, GrowsOn
  <2>. QED
    BY <1>3, <2>1, GrowsOn
<1>11. Grows(t, res) /\ Given(t, res, mth, par)
  BY <1>7, <1>8, <1>10, GrowsOn
<1>12. SuperSymbol(t, mth, par) = [ct |-> res, idx |-> idx]
  BY DEF SuperSymbol, with, old, other, mine, idx, all, k, res
<1>. QED
  BY <1>6, <1>9, <1>11, <1>12

-----------------------------------------------------------------------------
(* Parsing references.                                                     *)

AddressOps == {"LVBI_CV", "LABI_CV", "LVBI_CVE", "LABI_CVE"}

\* What the parser makes of a reference.
Resolved(e) ==
  /\ e.id \in Words /\ e.qual \in Words \union {NoParent}
  /\ e.qual # NoParent <=> e.pushed = "class"
  /\ e.op \in {"LVBS_CVE", "LABS_CVE", "LVBI_CVE", "LABI_CVE"} => e.qual # NoParent
  /\ e.op \in {"LVBI_CV", "LABI_CV", "CALLS"} => e.qual = NoParent
  /\ e.op = "CALLS" <=> e.parName # NoParent
  /\ e.op = "CALLS" => e.parName \in Declared

\* An instruction that names id alone.
Plain == {"LVBI_CV", "LABI_CV", "LVBI_IV", "LABI_IV", "LVBS_IVE", "LABS_IVE", "CALL", "CALLE", "NEW"}

LEMMA PlainResolved ==
  ASSUME NEW op \in Plain, NEW id \in Words
  PROVE  /\ Resolved(Emits(op, id))
         /\ \A addr, meant : Resolved([Emits(op, id) EXCEPT !.addr = addr, !.meant = meant])
         /\ op \notin {"LVBI_CV", "LABI_CV"} => Resolved([Emits(op, id) EXCEPT !.pushed = "object"])
<1>1. op \notin {"LVBS_CVE", "LABS_CVE", "LVBI_CVE", "LABI_CVE", "CALLS"}
  BY DEF Plain
<1>2. Resolved(Emits(op, id))
  BY <1>1 DEF Resolved, Emits
<1>3. ASSUME NEW addr, NEW meant PROVE Resolved([Emits(op, id) EXCEPT !.addr = addr, !.meant = meant])
  BY <1>1 DEF Resolved, Emits
<1>4. op \notin {"LVBI_CV", "LABI_CV"} => Resolved([Emits(op, id) EXCEPT !.pushed = "object"])
  BY <1>1 DEF Resolved, Emits
<1>. QED
  BY <1>2, <1>3, <1>4

LEMMA ClassResolved ==
  ASSUME NEW op \in {"LVBS_CVE", "LABS_CVE", "LVBI_CVE", "LABI_CVE", "CALL", "CALLE"},
         NEW id \in Words, NEW cls \in Words, cls # NoParent
  PROVE  /\ Resolved(OfClass(Emits(op, id), cls))
         /\ \A addr, meant : Resolved([OfClass(Emits(op, id), cls) EXCEPT !.addr = addr, !.meant = meant])
<1>1. op \notin {"LVBI_CV", "LABI_CV", "CALLS"}
  OBVIOUS
<1>2. Resolved(OfClass(Emits(op, id), cls))
  BY <1>1 DEF Resolved, Emits, OfClass
<1>3. ASSUME NEW addr, NEW meant
      PROVE Resolved([OfClass(Emits(op, id), cls) EXCEPT !.addr = addr, !.meant = meant])
  BY <1>1 DEF Resolved, Emits, OfClass
<1>. QED
  BY <1>2, <1>3

LEMMA Ends == Rejected.ends # "emits" /\ Crashed.ends # "emits" /\ NoAccess.ends # "emits"
BY DEF Rejected, Crashed, NoAccess

LEMMA EitherResolved ==
  ASSUME NEW id \in Words
  PROVE  \A e \in Either(id) : /\ Resolved(e) /\ \E op \in {"CALL", "CALLE"} : e = Emits(op, id)
<1>1. \A e \in Either(id) : \E op \in {"CALL", "CALLE"} : e = Emits(op, id)
  BY DEF Either
<1>2. \A op \in {"CALL", "CALLE"} : Resolved(Emits(op, id))
  BY PlainResolved DEF Plain
<1>. QED
  BY <1>1, <1>2

\* The words of a program's references.
LEMMA RefWords ==
  ASSUME DispatchInv, NEW r \in program.refs
  PROVE  /\ r.id \in Words /\ r.cls \in Words /\ r.k \in RefKinds /\ r.lvalue \in BOOLEAN
         /\ r.k \in {"class", "ccall"} => r.cls # NoParent
BY ProgramsAssumption DEF DispatchInv, Words

LEMMA ResolveResolves ==
  ASSUME DispatchInv, tab # <<>>, NEW r \in program.refs, NEW static \in BOOLEAN,
         NEW e \in Resolve(tab, r, static), e.ends = "emits"
  PROVE  Resolved(e)
<1>0. /\ r.id \in Words /\ r.cls \in Words /\ r.k \in RefKinds /\ r.lvalue \in BOOLEAN
      /\ r.k \in {"class", "ccall"} => r.cls # NoParent
  BY RefWords
<1>1. CASE r.k = "name"
  <2>1. e = Name(tab, r.id, static, r.lvalue)
    BY <1>1 DEF Resolve
  <2>. DEFINE p == hledejMember(tab, r.id, tab[1].className)
              op == IF p.sc = "SC_CLASS" THEN Access("LVBI_CV", "LABI_CV", r.lvalue)
                    ELSE Access("LVBI_IV", "LABI_IV", r.lvalue)
              m == Declarer(tab, r.id, tab[1].className)
  <2>2. e = [Emits(op, r.id) EXCEPT !.addr = p.addr, !.meant = m]
    BY <2>1, Ends DEF Name
  <2>3. op \in Plain
    BY DEF Access, Plain
  <2>. HIDE DEF op, p, m
  <2>. QED
    BY <1>0, <2>2, <2>3, PlainResolved
<1>2. CASE r.k = "class"
  <2>1. e = ClassMember(tab, r.cls, r.id, r.lvalue)
    BY <1>2 DEF Resolve
  <2>. DEFINE p == hledejMember(tab, r.id, r.cls)
              op1 == Access("LVBS_CVE", "LABS_CVE", r.lvalue)
              op2 == Access("LVBI_CVE", "LABI_CVE", r.lvalue)
              m == Declarer(tab, r.id, r.cls)
  <2>2. \/ e = OfClass(Emits(op1, r.id), r.cls)
        \/ e = [OfClass(Emits(op2, r.id), r.cls) EXCEPT !.addr = p.addr, !.meant = m]
    BY <2>1, Ends DEF ClassMember
  <2>3. /\ op1 \in {"LVBS_CVE", "LABS_CVE", "LVBI_CVE", "LABI_CVE", "CALL", "CALLE"}
        /\ op2 \in {"LVBS_CVE", "LABS_CVE", "LVBI_CVE", "LABI_CVE", "CALL", "CALLE"}
    BY DEF Access
  <2>. HIDE DEF op1, op2, p, m
  <2>4. PICK cls, id, addr, meant : cls = r.cls /\ id = r.id /\ addr = p.addr /\ meant = m
    OBVIOUS
  <2>5. cls \in Words /\ id \in Words /\ cls # NoParent
    BY <1>0, <1>2, <2>4
  <2>6. /\ Resolved(OfClass(Emits(op1, id), cls))
        /\ Resolved([OfClass(Emits(op2, id), cls) EXCEPT !.addr = addr, !.meant = meant])
    BY <2>3, <2>5, ClassResolved
  <2>. QED
    BY <2>2, <2>4, <2>6
<1>3. CASE r.k = "obj"
  <2>. DEFINE op == Access("LVBS_IVE", "LABS_IVE", r.lvalue)
  <2>1. e = [Emits(op, r.id) EXCEPT !.pushed = "object"]
    BY <1>3 DEF Resolve
  <2>2. op \in Plain /\ op \notin {"LVBI_CV", "LABI_CV"}
    BY DEF Access, Plain
  <2>. HIDE DEF op
  <2>. QED
    BY <1>0, <2>1, <2>2, PlainResolved
<1>4. CASE r.k = "call"
  <2>1. e \in OwnCall(tab, r.id, static)
    BY <1>4 DEF Resolve
  <2>2. e \in Either(r.id) \/ e = Rejected \/ e = Emits("CALL", r.id)
    BY <2>1 DEF OwnCall
  <2>. QED
    BY <1>0, <2>2, Ends, EitherResolved, PlainResolved DEF Plain
<1>5. CASE r.k = "ccall"
  <2>1. e \in ClassCall(tab, r.cls, r.id)
    BY <1>5 DEF Resolve
  <2>2. \/ e = Rejected \/ e = OfClass(Emits("CALLE", r.id), r.cls)
        \/ e \in {OfClass(x, r.cls) : x \in Either(r.id)}
    BY <2>1 DEF ClassCall
  <2>3. e = Rejected \/ \E op \in {"CALL", "CALLE"} : e = OfClass(Emits(op, r.id), r.cls)
    BY <1>0, <2>2, EitherResolved
  <2>. QED
    BY <1>0, <1>5, <2>3, Ends, ClassResolved
<1>6. CASE r.k = "ocall"
  <2>1. e = [Emits("CALLE", r.id) EXCEPT !.pushed = "object"]
    BY <1>6 DEF Resolve
  <2>. QED
    BY <1>0, <2>1, PlainResolved DEF Plain
<1>7. CASE r.k = "super"
  <2>. DEFINE par == tab[1].parent
  <2>1. e = SuperCall(tab, r.id, static)
    BY <1>7 DEF Resolve
  <2>2. par # NoParent /\ par # CLASS_UNKNOWN /\ e = [Emits("CALLS", r.id) EXCEPT !.parName = par]
    BY <2>1, Ends DEF SuperCall
  <2>3. par \in Declared
    <3>1. 1 \in DOMAIN tab
      BY DEF DispatchInv, Listed
    <3>2. \E j \in 2 .. Len(tab) : tab[j].className = par
      BY <2>2, <3>1 DEF DispatchInv, Listed
    <3>. QED
      BY <3>2, TabFacts DEF DispatchInv, Own
  <2>. HIDE DEF par
  <2>. QED
    BY <1>0, <2>2, <2>3 DEF Resolved, Emits
<1>8. CASE r.k = "scons"
  <2>1. e = SuperConstructor(tab)
    BY <1>8 DEF Resolve
  <2>2. e = Emits("CALL", tab[1].parentName)
    BY <2>1, Ends DEF SuperConstructor
  <2>3. tab[1].parentName \in Words
    <3>1. tab[1] \in ClassEnvs
      BY DEF DispatchInv, Listed
    <3>. QED
      BY <3>1 DEF ClassEnvs, Words
  <2>. QED
    BY <2>2, <2>3, PlainResolved DEF Plain
<1>9. CASE r.k = "new"
  <2>1. e = Emits("NEW", r.cls)
    BY <1>9 DEF Resolve
  <2>. QED
    BY <1>0, <2>1, PlainResolved DEF Plain
<1>. QED
  BY <1>0, <1>1, <1>2, <1>3, <1>4, <1>5, <1>6, <1>7, <1>8, <1>9 DEF RefKinds

LEMMA TranslateIs ==
  ASSUME Listed, NEW e, Resolved(e), NEW t, Table(t)
  PROVE  LET s == Translate(t, e) IN
         /\ Table(s.ct) /\ Grows(t, s.ct)
         /\ NoneGiven(t, s.ct) \/ (e.op = "CALLS" /\ Given(t, s.ct, e.id, e.parName))
         /\ e.op \notin ByAddress => SymbolAt(s.ct, s.sym, e.id)
         /\ e.qual # NoParent => SymbolAt(s.ct, s.qsym, e.qual)
         /\ e.op = "CALLS" => s.ct[s.sym].cls # 0 /\ SymbolAt(s.ct, s.ct[s.sym].cls, e.parName)
<1>. DEFINE qualified == IF e.qual = NoParent THEN t ELSE bco_sym(t, e.qual)
            named == bco_sym(qualified, e.id)
            sup == SuperSymbol(qualified, e.id, e.parName)
            s == Translate(t, e)
            q == bco_find_sym(qualified, e.qual)
<1>0. /\ e.id \in Words /\ e.qual \in Words \union {NoParent}
      /\ e.op = "CALLS" <=> e.parName # NoParent
      /\ e.op = "CALLS" => e.parName \in Declared
  BY DEF Resolved
<1>1. /\ Table(qualified) /\ Grows(t, qualified) /\ NoneGiven(t, qualified)
      /\ e.qual # NoParent => SymbolAt(qualified, q, e.qual)
  <2>1. CASE e.qual = NoParent
    <3>1. Grows(t, t) /\ NoneGiven(t, t)
      BY DEF Grows, NoneGiven
    <3>. QED
      BY <2>1, <3>1
  <2>2. CASE e.qual # NoParent
    BY <1>0, <2>2, Sym
  <2>. QED
    BY <2>1, <2>2
<1>. HIDE DEF qualified, q
<1>2. CASE e.op \in ByAddress
  <2>1. s.ct = qualified /\ (e.qual # NoParent => s.qsym = q)
    BY <1>2 DEF Translate, qualified, q
  <2>2. e.op # "CALLS"
    BY <1>2 DEF ByAddress
  <2>. HIDE DEF s
  <2>. QED
    BY <1>1, <1>2, <2>1, <2>2 DEF s
<1>3. CASE e.op \notin ByAddress /\ e.op = "CALLS"
  <2>1. s.ct = sup.ct /\ s.sym = sup.idx /\ (e.qual # NoParent => s.qsym = q)
    BY <1>0, <1>3 DEF Translate, qualified, q
  <2>2. e.parName \in Words
    <3>1. e.parName \in Declared
      BY <1>0, <1>3
    <3>. QED
      BY <3>1, TabFacts DEF Words
  <2>3. /\ Table(sup.ct) /\ Grows(qualified, sup.ct) /\ Given(qualified, sup.ct, e.id, e.parName)
        /\ SymbolAt(sup.ct, sup.idx, e.id) /\ sup.ct[sup.idx].cls # 0
        /\ SymbolAt(sup.ct, sup.ct[sup.idx].cls, e.parName)
    BY <1>0, <1>1, <2>2, SuperSymbolIs
  <2>. HIDE DEF sup, s
  <2>4. Grows(t, sup.ct) /\ Given(t, sup.ct, e.id, e.parName)
    BY <1>1, <2>3, GrowsOn
  <2>5. e.qual # NoParent => SymbolAt(sup.ct, q, e.qual)
    BY <1>1, <2>3, GrowsKeeps
  <2>. QED
    BY <1>3, <2>1, <2>3, <2>4, <2>5 DEF s
<1>4. CASE e.op \notin ByAddress /\ e.op # "CALLS"
  <2>1. s.ct = named /\ s.sym = bco_find_sym(named, e.id) /\ (e.qual # NoParent => s.qsym = q)
    BY <1>0, <1>4 DEF Translate, qualified, q
  <2>2. /\ Table(named) /\ Grows(qualified, named) /\ NoneGiven(qualified, named)
        /\ SymbolAt(named, bco_find_sym(named, e.id), e.id)
    BY <1>0, <1>1, Sym
  <2>. HIDE DEF named, s
  <2>3. Grows(t, named) /\ NoneGiven(t, named)
    BY <1>1, <2>2, GrowsOn
  <2>4. e.qual # NoParent => SymbolAt(named, q, e.qual)
    BY <1>1, <2>2, GrowsKeeps
  <2>. QED
    BY <1>4, <2>1, <2>2, <2>3, <2>4 DEF s
<1>. QED
  BY <1>2, <1>3, <1>4

LEMMA AppendCode ==
  ASSUME NEW s, s \in Seq(Range(s)), NEW x
  PROVE  LET t == Append(s, x) IN
         /\ t \in Seq(Range(t)) /\ Len(t) = Len(s) + 1 /\ t[Len(s) + 1] = x
         /\ DOMAIN t = DOMAIN s \union {Len(s) + 1} /\ \A i \in DOMAIN s : t[i] = s[i]
<1>. DEFINE t == Append(s, x)
<1>1. s \in Seq(Range(s) \union {x}) /\ x \in Range(s) \union {x}
  <2>1. s \in [1 .. Len(s) -> Range(s) \union {x}] /\ Len(s) \in Nat
    OBVIOUS
  <2>. QED
    BY <2>1
<1>2. /\ t \in Seq(Range(s) \union {x}) /\ Len(t) = Len(s) + 1 /\ t[Len(s) + 1] = x
      /\ DOMAIN t = 1 .. Len(s) + 1 /\ DOMAIN s = 1 .. Len(s) /\ Len(s) \in Nat
      /\ \A i \in 1 .. Len(s) : t[i] = s[i]
  BY <1>1
<1>. HIDE DEF t
<1>3. t \in [1 .. Len(s) + 1 -> Range(t)]
  BY <1>2 DEF Range
<1>4. t \in Seq(Range(t))
  BY <1>2, <1>3
<1>5. DOMAIN t = DOMAIN s \union {Len(s) + 1}
  BY <1>2
<1>. QED
  BY <1>2, <1>4, <1>5 DEF t

\* The instruction a resolved reference becomes.
Instruction(e, context) ==
  LET t == Translate(ct, e) IN
  [op |-> e.op, id |-> e.id, addr |-> e.addr, meant |-> e.meant,
   qual |-> e.qual, parName |-> e.parName, pushed |-> e.pushed,
   sym |-> t.sym, qsym |-> t.qsym, in |-> tab[1].className, context |-> context]

LEMMA EmittedDispatches ==
  ASSUME DispatchInv, status = "parse", tab # <<>>, NEW e, Resolved(e), NEW context \in SUBSET BOOLEAN,
         Emitted(e, context)
  PROVE  DispatchInv'
<1>. DEFINE t == Translate(ct, e)
<1>0. PICK x : x = Instruction(e, context)
  OBVIOUS
<1>1. /\ ct' = t.ct /\ code' = Append(code, x)
      /\ UNCHANGED <<program, tab, file, im, last, status>>
      /\ im = Null /\ last = Null /\ Declared' = Declared /\ Listed
  BY <1>0, SameTab DEF Emitted, Instruction, DispatchInv, Started
<1>2. Table(ct)
  <2>1. ct \in Seq(Symbols) /\ \A j \in DOMAIN ct : ct[j].cls # 0 => ct[j].cls \in DOMAIN ct
    BY DEF DispatchInv, ConstantTable, Symbols
  <2>. QED
    BY <2>1 DEF Table
<1>3. /\ Table(t.ct) /\ Grows(ct, t.ct)
      /\ NoneGiven(ct, t.ct) \/ (e.op = "CALLS" /\ Given(ct, t.ct, e.id, e.parName))
      /\ e.op \notin ByAddress => SymbolAt(t.ct, t.sym, e.id)
      /\ e.qual # NoParent => SymbolAt(t.ct, t.qsym, e.qual)
      /\ e.op = "CALLS" => t.ct[t.sym].cls # 0 /\ SymbolAt(t.ct, t.ct[t.sym].cls, e.parName)
  BY <1>1, <1>2, TranslateIs
<1>4. /\ x.op = e.op /\ x.id = e.id /\ x.addr = e.addr /\ x.meant = e.meant /\ x.qual = e.qual
      /\ x.parName = e.parName /\ x.pushed = e.pushed /\ x.sym = t.sym /\ x.qsym = t.qsym
      /\ x.in = tab[1].className /\ x.context = context
  BY <1>0 DEF Instruction
<1>. HIDE DEF t
<1>5. /\ (code \in Seq(Range(code)))' /\ DOMAIN code' = DOMAIN code \union {Len(code) + 1}
      /\ code'[Len(code) + 1] = x /\ \A i \in DOMAIN code : code'[i] = code[i]
  <2>1. code \in Seq(Range(code))
    BY DEF DispatchInv
  <2>. QED
    BY <1>1, <2>1, AppendCode
<1>6. tab[1].className \in Declared
  <2>1. 1 \in Own
    BY <1>1 DEF Listed, Own
  <2>. QED
    BY <1>1, <2>1, TabFacts
<1>7. ASSUME NEW y, Compiled(y) PROVE Compiled(y)'
  <2>1. \A j \in DOMAIN ct : /\ j \in DOMAIN ct' /\ ct'[j].text = ct[j].text
                             /\ ct[j].cls # 0 => ct'[j].cls # 0 /\ ct'[ct'[j].cls].text = ct[ct[j].cls].text
    BY <1>1, <1>3 DEF Grows
  <2>2. \A j \in DOMAIN ct' : ct'[j].cls # 0 => ct'[j].cls \in DOMAIN ct'
    BY <1>1, <1>3 DEF Table
  <2>3. 0 \notin DOMAIN ct
    BY <1>2 DEF Table
  <2>4. y.op \notin ByAddress => y.sym \in DOMAIN ct' /\ ct'[y.sym].text = y.id
    BY <1>7, <2>1 DEF Compiled
  <2>5. y.qual # NoParent => y.qsym \in DOMAIN ct' /\ ct'[y.qsym].text = y.qual
    BY <1>7, <2>1 DEF Compiled
  <2>6. y.op = "CALLS" => /\ y.parName \in Declared /\ ct'[y.sym].cls \in DOMAIN ct'
                          /\ ct'[ct'[y.sym].cls].text = y.parName
    <3>. SUFFICES ASSUME y.op = "CALLS"
         PROVE  /\ y.parName \in Declared /\ ct'[y.sym].cls \in DOMAIN ct'
                /\ ct'[ct'[y.sym].cls].text = y.parName
      OBVIOUS
    <3>1. /\ y.sym \in DOMAIN ct /\ y.parName \in Declared /\ ct[y.sym].cls \in DOMAIN ct
          /\ ct[ct[y.sym].cls].text = y.parName
      BY <1>7 DEF Compiled, ByAddress
    <3>2. ct[y.sym].cls # 0
      BY <2>3, <3>1
    <3>. QED
      BY <2>1, <2>2, <3>1, <3>2
  <2>. QED
    BY <1>1, <1>7, <2>4, <2>5, <2>6 DEF Compiled
<1>8. Compiled(x)'
  <2>1. x.op \notin ByAddress => x.sym \in DOMAIN ct' /\ ct'[x.sym].text = x.id
    BY <1>1, <1>3, <1>4 DEF SymbolAt
  <2>2. x.qual # NoParent => x.qsym \in DOMAIN ct' /\ ct'[x.qsym].text = x.qual
    BY <1>1, <1>3, <1>4 DEF SymbolAt
  <2>3. x.op = "CALLS" => /\ x.parName \in Declared /\ ct'[x.sym].cls \in DOMAIN ct'
                          /\ ct'[ct'[x.sym].cls].text = x.parName
    BY <1>1, <1>3, <1>4 DEF SymbolAt, Resolved
  <2>4. /\ x.in \in Declared' /\ x.context \subseteq BOOLEAN /\ x.id \in Words
        /\ x.qual # NoParent <=> x.pushed = "class"
        /\ x.op \in {"LVBS_CVE", "LABS_CVE", "LVBI_CVE", "LABI_CVE"} => x.qual # NoParent
        /\ x.op \in {"LVBI_CV", "LABI_CV", "CALLS"} => x.qual = NoParent
    BY <1>1, <1>4, <1>6 DEF Resolved
  <2>. QED
    BY <1>1, <2>1, <2>2, <2>3, <2>4 DEF Compiled
<1>9. (\A i \in DOMAIN code : Compiled(code[i]))'
  BY <1>5, <1>7, <1>8 DEF DispatchInv
<1>10. ConstantTable'
  <2>1. ct' \in Seq([text : Words, cls : Nat])
    BY <1>1, <1>3 DEF Table, Symbols
  <2>2. ASSUME NEW j \in DOMAIN ct', ct'[j].cls # 0
        PROVE  /\ ct'[j].cls \in DOMAIN ct'
               /\ \E i \in DOMAIN code' : /\ code'[i].op = "CALLS" /\ code'[i].id = ct'[j].text
                                         /\ code'[i].parName = ct'[ct'[j].cls].text
    <3>1. ct'[j].cls \in DOMAIN ct'
      BY <1>1, <1>3, <2>2 DEF Table
    <3>2. CASE j \in DOMAIN ct /\ ct[j].cls # 0
      <4>1. ct'[j].text = ct[j].text /\ ct'[ct'[j].cls].text = ct[ct[j].cls].text
        BY <1>1, <1>3, <3>2 DEF Grows
      <4>2. PICK i \in DOMAIN code : /\ code[i].op = "CALLS" /\ code[i].id = ct[j].text
                                     /\ code[i].parName = ct[ct[j].cls].text
        BY <3>2 DEF DispatchInv, ConstantTable
      <4>3. i \in DOMAIN code' /\ code'[i] = code[i]
        BY <1>5
      <4>. QED
        BY <3>1, <4>1, <4>2, <4>3
    <3>3. CASE ~(j \in DOMAIN ct /\ ct[j].cls # 0)
      <4>1. e.op = "CALLS" /\ ct'[j].text = e.id /\ ct'[ct'[j].cls].text = e.parName
        BY <1>1, <1>3, <2>2, <3>3 DEF NoneGiven, Given
      <4>2. Len(code) + 1 \in DOMAIN code' /\ code'[Len(code) + 1] = x
        BY <1>5
      <4>. QED
        BY <1>4, <3>1, <4>1, <4>2
    <3>. QED
      BY <3>2, <3>3
  <2>. QED
    BY <2>1, <2>2 DEF ConstantTable
<1>11. Listed'
  BY <1>1 DEF Listed
<1>12. Started' /\ DispatchNearest'
  BY <1>1 DEF Started, DispatchNearest, Executed, DispatchInv
<1>. QED
  BY <1>1, <1>5, <1>9, <1>10, <1>11, <1>12 DEF DispatchInv

LEMMA ContextKinds ==
  ASSUME Listed, tab # <<>>
  PROVE  Contexts \subseteq SUBSET BOOLEAN
<1>1. tab[1] \in ClassEnvs
  BY DEF Listed
<1>2. tab[1].methods \in Seq(MethodEnvs)
  BY <1>1 DEF ClassEnvs
<1>3. tab[1].methods # <<>> => tab[1].methods[1] \in MethodEnvs
  BY <1>2
<1>4. tab[1].methods # <<>> => tab[1].methods[1].isStatic \in BOOLEAN
  BY <1>3 DEF MethodEnvs
<1>. QED
  BY <1>4 DEF Contexts

LEMMA ReferenceDispatches ==
  ASSUME DispatchInv, NEW r \in program.refs, Reference(r)
  PROVE  DispatchInv'
<1>1. status = "parse" /\ tab # <<>> /\ Listed
  BY DEF Reference, DispatchInv
<1>2. PICK context \in Contexts : \E e \in Resolve(tab, r, context = {TRUE}) : Compiles(e, context)
  BY DEF Reference
<1>3. PICK static : static = (context = {TRUE})
  OBVIOUS
<1>4. PICK e \in Resolve(tab, r, static) : Compiles(e, context)
  BY <1>2, <1>3
<1>5. context \in SUBSET BOOLEAN /\ static \in BOOLEAN
  BY <1>1, <1>2, <1>3, ContextKinds
<1>6. CASE Stop("rejected") \/ Stop("crashed")
  BY <1>6, StopDispatches
<1>7. CASE UNCHANGED vars
  BY <1>7, SameDispatches DEF vars, compiled
<1>8. CASE e.ends = "emits" /\ Emitted(e, context)
  BY <1>1, <1>4, <1>5, <1>8, ResolveResolves, EmittedDispatches
<1>. QED
  BY <1>4, <1>6, <1>7, <1>8 DEF Compiles

LEMMA InitDispatches == Init => DispatchInv
<1>. SUFFICES ASSUME Init PROVE DispatchInv
  OBVIOUS
<1>1. /\ program \in Programs /\ tab = <<>> /\ ct = <<>> /\ code = <<>> /\ im = Null /\ last = Null
      /\ status = "parse"
  BY DEF Init
<1>2. Len(Names) \in Nat
  BY NamesAssumption
<1>3. Listed
  BY <1>1, <1>2 DEF Listed
<1>4. code \in Seq(Range(code))
  BY <1>1
<1>5. ConstantTable /\ Started /\ DispatchNearest
  BY <1>1 DEF ConstantTable, Started, DispatchNearest, Executed
<1>. QED
  BY <1>1, <1>3, <1>4, <1>5 DEF DispatchInv

LEMMA DispatchInvStep == DispatchInv /\ CacheInv /\ [Next]_vars => DispatchInv'
<1>. SUFFICES ASSUME DispatchInv, CacheInv, [Next]_vars PROVE DispatchInv'
  OBVIOUS
<1>1. CASE UNCHANGED vars
  BY <1>1, SameDispatches DEF vars, compiled
<1>2. CASE Next
  BY <1>2, DeclarationsDispatch, ReferenceDispatches, WriteDispatches, StartDispatches,
     ExecuteDispatches DEF Next
<1>. QED
  BY <1>1, <1>2

(* In every program, a call runs the method of the class that is nearest   *)
(* to the receiver's in the source, or to the parent for a call of super,  *)
(* and new makes an object of the class it names, except where another     *)
(* call of super has taken the symbol of that class.                       *)
THEOREM DispatchIsNearest == Spec => []DispatchNearest
<1>1. DispatchInv => DispatchNearest
  BY DEF DispatchInv
<1>. QED
  BY <1>1, InitIsCoherent, StepKeeps, InitDispatches, DispatchInvStep, PTL DEF Spec

-----------------------------------------------------------------------------
(* The members of one kind.                                                *)

Kept(p, scope) == IF p.sc = scope THEN <<p>> ELSE <<>>

\* f collects the members of a kind from the end of the list, v at a time.
Collects(f, s, scope) ==
  /\ f \in [0 .. Len(s) -> Seq(PrvekTabs)] /\ f[0] = <<>>
  /\ \A n \in 1 .. Len(s) : f[n] = Kept(s[Len(s) + 1 - n], scope) \o f[n - 1]
  /\ OfScope(s, scope) = f[Len(s)]

LEMMA OfScopeIs ==
  ASSUME NEW s \in Seq(PrvekTabs), NEW scope
  PROVE  \E f : Collects(f, s, scope)
<1>. DEFINE V == Seq(PrvekTabs)
            n == Len(s)
            step == [x \in (1 .. n) \X V |-> Kept(s[n + 1 - x[1]], scope) \o x[2]]
<1>1. n \in Nat /\ <<>> \in V /\ \A i \in 1 .. n : s[i] \in PrvekTabs
  OBVIOUS
<1>2. \A i \in 1 .. n : n + 1 - i \in 1 .. n
  BY <1>1
<1>3. \A i \in 1 .. n : \A v \in V : Kept(s[n + 1 - i], scope) \o v \in V
  <2>1. \A p \in PrvekTabs : Kept(p, scope) \in V
    BY DEF Kept
  <2>2. \A u, v \in V : u \o v \in V
    OBVIOUS
  <2>. QED
    BY <1>1, <1>2, <2>1, <2>2
<1>4. step \in [(1 .. n) \X V -> V] /\ \A i \in 1 .. n : \A v \in V : step[<<i, v>>] = Kept(s[n + 1 - i], scope) \o v
  <2>. HIDE DEF V, n
  <2>. QED
    BY <1>3
<1>. HIDE DEF V, step
<1>5. CountsIn(n, V, <<>>, step)
  BY <1>1, <1>4 DEF CountsIn
<1>6. PICK f \in [0 .. n -> V] : f = [m \in 0 .. n |-> IF m = 0 THEN <<>> ELSE step[<<m, f[m - 1]>>]]
  BY <1>5, CountingUp
<1>7. \A m \in 1 .. n : m - 1 \in 0 .. n /\ f[m - 1] \in V
  <2>1. \A m \in 1 .. n : m - 1 \in 0 .. n
    BY <1>1
  <2>. QED
    BY <1>6, <2>1
<1>8. \A m \in 1 .. n : f[m] = Kept(s[n + 1 - m], scope) \o f[m - 1]
  <2>1. \A m \in 1 .. n : m \in 0 .. n /\ m # 0
    BY <1>1
  <2>. QED
    BY <1>4, <1>6, <1>7, <2>1
<1>9. f = [m \in 0 .. n |-> IF m = 0 THEN <<>> ELSE Kept(s[n + 1 - m], scope) \o f[m - 1]]
  <2>1. \A m \in 0 .. n : m = 0 \/ m \in 1 .. n
    BY <1>1
  <2>2. f[0] = <<>>
    BY <1>1, <1>6
  <2>3. \A m \in 0 .. n : f[m] = IF m = 0 THEN <<>> ELSE Kept(s[n + 1 - m], scope) \o f[m - 1]
    BY <1>8, <2>1, <2>2
  <2>4. f = [m \in 0 .. n |-> f[m]]
    BY <1>6
  <2>. QED
    BY <2>3, <2>4
<1>10. PICK g : /\ g = [m \in 0 .. n |-> IF m = 0 THEN <<>> ELSE Kept(s[n + 1 - m], scope) \o g[m - 1]]
                /\ OfScope(s, scope) = g[n]
  BY <1>9 DEF OfScope, Kept
<1>10a. g[0] = <<>> /\ \A m \in 1 .. n : g[m] = Kept(s[n + 1 - m], scope) \o g[m - 1]
  <2>1. 0 \in 0 .. n /\ \A m \in 1 .. n : m \in 0 .. n /\ m # 0
    BY <1>1
  <2>. QED
    BY <1>10, <2>1
<1>10b. f[0] = <<>>
  BY <1>1, <1>9
<1>11. \A m \in 0 .. n : g[m] = f[m]
  <2>. DEFINE T == {m \in Nat : m <= n => g[m] = f[m]}
  <2>1. 0 \in T
    BY <1>10a, <1>10b
  <2>2. ASSUME NEW m \in Nat, m \in T PROVE m + 1 \in T
    <3>. SUFFICES ASSUME m + 1 <= n PROVE g[m + 1] = f[m + 1]
      OBVIOUS
    <3>1. m + 1 \in 1 .. n /\ (m + 1) - 1 = m /\ g[m] = f[m]
      BY <1>1, <2>2
    <3>2. g[m + 1] = Kept(s[n + 1 - (m + 1)], scope) \o g[m]
      BY <1>10a, <3>1
    <3>3. f[m + 1] = Kept(s[n + 1 - (m + 1)], scope) \o f[m]
      BY <1>8, <3>1
    <3>. QED
      BY <3>1, <3>2, <3>3
  <2>. HIDE DEF T
  <2>3. \A m \in Nat : m \in T
    BY <2>1, <2>2, SetInduction
  <2>. QED
    BY <1>1, <2>3 DEF T
<1>12. OfScope(s, scope) = f[n] /\ f[0] = <<>>
  BY <1>1, <1>10, <1>10b, <1>11
<1>13. Collects(f, s, scope)
  BY <1>6, <1>8, <1>12 DEF Collects, V
<1>. QED
  BY <1>13

LEMMA OfScopeEmpty == \A scope : OfScope(<<>>, scope) = <<>>
<1>. SUFFICES ASSUME NEW scope PROVE OfScope(<<>>, scope) = <<>>
  OBVIOUS
<1>1. <<>> \in Seq(PrvekTabs) /\ Len(<<>>) = 0
  OBVIOUS
<1>2. PICK f : Collects(f, <<>>, scope)
  BY <1>1, OfScopeIs
<1>. QED
  BY <1>1, <1>2 DEF Collects

LEMMA OfScopeAdd ==
  ASSUME NEW s \in Seq(PrvekTabs), NEW p \in PrvekTabs, NEW scope
  PROVE  OfScope(<<p>> \o s, scope) = Kept(p, scope) \o OfScope(s, scope)
<1>. DEFINE n == Len(s)
<1>0. PICK t : t = <<p>> \o s
  OBVIOUS
<1>1. /\ t \in Seq(PrvekTabs) /\ Len(t) = n + 1 /\ n \in Nat /\ t[1] = p
      /\ \A i \in 1 .. n : t[i + 1] = s[i]
  BY <1>0
<1>2. PICK f : Collects(f, s, scope)
  BY OfScopeIs
<1>3. PICK g : Collects(g, t, scope)
  BY <1>1, OfScopeIs
<1>4. ASSUME NEW m \in 1 .. n PROVE t[(n + 1) + 1 - m] = s[n + 1 - m]
  <2>1. n + 1 - m \in 1 .. n /\ (n + 1) + 1 - m = (n + 1 - m) + 1
    BY <1>1
  <2>. QED
    BY <1>1, <2>1
<1>5. \A m \in Nat : m <= n => g[m] = f[m]
  <2>. DEFINE T == {m \in Nat : m <= n => g[m] = f[m]}
  <2>1. 0 \in T
    BY <1>2, <1>3 DEF Collects
  <2>2. ASSUME NEW m \in Nat, m \in T PROVE m + 1 \in T
    <3>. SUFFICES ASSUME m + 1 <= n PROVE g[m + 1] = f[m + 1]
      OBVIOUS
    <3>1. m + 1 \in 1 .. n /\ m + 1 \in 1 .. n + 1 /\ (m + 1) - 1 = m /\ g[m] = f[m]
      BY <1>1, <2>2
    <3>2. f[m + 1] = Kept(s[n + 1 - (m + 1)], scope) \o f[m]
      BY <1>2, <3>1 DEF Collects
    <3>3. g[m + 1] = Kept(t[(n + 1) + 1 - (m + 1)], scope) \o g[m]
      BY <1>1, <1>3, <3>1 DEF Collects
    <3>4. t[(n + 1) + 1 - (m + 1)] = s[n + 1 - (m + 1)]
      BY <1>4, <3>1
    <3>. QED
      BY <3>1, <3>2, <3>3, <3>4
  <2>. HIDE DEF T
  <2>3. \A m \in Nat : m \in T
    BY <2>1, <2>2, SetInduction
  <2>. QED
    BY <2>3 DEF T
<1>6. g[n + 1] = Kept(p, scope) \o g[n]
  <2>1. n + 1 \in 1 .. n + 1 /\ (n + 1) + 1 - (n + 1) = 1 /\ (n + 1) - 1 = n
    BY <1>1
  <2>. QED
    BY <1>1, <1>3, <2>1 DEF Collects
<1>7. OfScope(t, scope) = g[n + 1] /\ OfScope(s, scope) = f[n] /\ g[n] = f[n]
  BY <1>1, <1>2, <1>3, <1>5 DEF Collects
<1>. QED
  BY <1>0, <1>6, <1>7

LEMMA OfScopeRange ==
  ASSUME NEW s \in Seq(PrvekTabs), NEW scope
  PROVE  /\ OfScope(s, scope) \in Seq(PrvekTabs)
         /\ Range(OfScope(s, scope)) = {p \in Range(s) : p.sc = scope}
<1>. DEFINE n == Len(s)
            From(m) == {p \in {s[i] : i \in n + 1 - m .. n} : p.sc = scope}
<1>1. n \in Nat /\ DOMAIN s = 1 .. n
  OBVIOUS
<1>2. PICK f : Collects(f, s, scope)
  BY OfScopeIs
<1>3. \A u, v \in Seq(PrvekTabs) : Range(u \o v) = Range(u) \union Range(v)
  <2>. SUFFICES ASSUME NEW u \in Seq(PrvekTabs), NEW v \in Seq(PrvekTabs)
                PROVE  Range(u \o v) = Range(u) \union Range(v)
    OBVIOUS
  <2>1. /\ Len(u) \in Nat /\ Len(v) \in Nat /\ DOMAIN (u \o v) = 1 .. Len(u) + Len(v)
        /\ DOMAIN u = 1 .. Len(u) /\ DOMAIN v = 1 .. Len(v)
        /\ \A i \in 1 .. Len(u) : (u \o v)[i] = u[i]
        /\ \A i \in Len(u) + 1 .. Len(u) + Len(v) : (u \o v)[i] = v[i - Len(u)]
    OBVIOUS
  <2>2. PICK w : w = u \o v
    OBVIOUS
  <2>3. ASSUME NEW i \in DOMAIN w PROVE w[i] \in Range(u) \union Range(v)
    <3>1. CASE i \in 1 .. Len(u)
      BY <2>1, <2>2, <3>1 DEF Range
    <3>2. CASE i \in Len(u) + 1 .. Len(u) + Len(v)
      <4>1. i - Len(u) \in DOMAIN v /\ w[i] = v[i - Len(u)]
        BY <2>1, <2>2, <3>2
      <4>. QED
        BY <4>1 DEF Range
    <3>. QED
      BY <2>1, <2>2, <3>1, <3>2
  <2>4. ASSUME NEW i \in DOMAIN u PROVE u[i] \in Range(w)
    <3>1. i \in DOMAIN w /\ w[i] = u[i]
      BY <2>1, <2>2
    <3>. QED
      BY <3>1 DEF Range
  <2>5. ASSUME NEW i \in DOMAIN v PROVE v[i] \in Range(w)
    <3>1. i + Len(u) \in Len(u) + 1 .. Len(u) + Len(v) /\ (i + Len(u)) - Len(u) = i
      BY <2>1
    <3>2. i + Len(u) \in DOMAIN w /\ w[i + Len(u)] = v[i]
      BY <2>1, <2>2, <3>1
    <3>. QED
      BY <3>2 DEF Range
  <2>6. Range(w) \subseteq Range(u) \union Range(v)
    BY <2>3 DEF Range
  <2>7. Range(u) \subseteq Range(w) /\ Range(v) \subseteq Range(w)
    BY <2>4, <2>5 DEF Range
  <2>. QED
    BY <2>2, <2>6, <2>7
<1>4. \A p \in PrvekTabs : /\ Kept(p, scope) \in Seq(PrvekTabs)
                           /\ Range(Kept(p, scope)) = {q \in {p} : q.sc = scope}
  BY DEF Kept, Range
<1>5. \A m \in Nat : m <= n => Range(f[m]) = From(m)
  <2>. DEFINE T == {m \in Nat : m <= n => Range(f[m]) = From(m)}
  <2>1. 0 \in T
    <3>1. f[0] = <<>> /\ From(0) = {}
      BY <1>1, <1>2 DEF Collects
    <3>. QED
      BY <3>1 DEF Range
  <2>2. ASSUME NEW m \in Nat, m \in T PROVE m + 1 \in T
    <3>. SUFFICES ASSUME m + 1 <= n PROVE Range(f[m + 1]) = From(m + 1)
      OBVIOUS
    <3>. DEFINE p == s[n + 1 - (m + 1)]
    <3>1. m + 1 \in 1 .. n /\ m \in 0 .. n /\ (m + 1) - 1 = m /\ n + 1 - (m + 1) \in 1 .. n /\ Range(f[m]) = From(m)
      BY <1>1, <2>2
    <3>2. f[m + 1] = Kept(p, scope) \o f[m] /\ f[m] \in Seq(PrvekTabs)
      BY <1>2, <3>1 DEF Collects
    <3>3. p \in PrvekTabs
      BY <1>1, <3>1
    <3>4. From(m + 1) = {q \in {p} : q.sc = scope} \union From(m)
      <4>1. \A i \in Int : i \in n + 1 - (m + 1) .. n <=> i = n + 1 - (m + 1) \/ i \in n + 1 - m .. n
        BY <1>1, <3>1
      <4>2. n + 1 - (m + 1) \in Int
        BY <1>1
      <4>. QED
        BY <4>1, <4>2
    <3>5. Range(f[m + 1]) = Range(Kept(p, scope)) \union Range(f[m])
      BY <1>3, <1>4, <3>2, <3>3
    <3>. HIDE DEF p, From
    <3>. QED
      BY <1>4, <3>1, <3>3, <3>4, <3>5
  <2>. HIDE DEF T
  <2>3. \A m \in Nat : m \in T
    BY <2>1, <2>2, SetInduction
  <2>. QED
    BY <2>3 DEF T
<1>6. OfScope(s, scope) = f[n] /\ f[n] \in Seq(PrvekTabs)
  BY <1>1, <1>2 DEF Collects
<1>7. From(n) = {p \in Range(s) : p.sc = scope}
  <2>1. n + 1 - n = 1
    BY <1>1
  <2>. QED
    BY <1>1, <2>1 DEF Range
<1>. HIDE DEF From
<1>8. Range(f[n]) = From(n)
  BY <1>1, <1>5
<1>. QED
  BY <1>6, <1>7, <1>8

-----------------------------------------------------------------------------
(* Addresses.                                                              *)

\* The order of a table: the newest class comes first.
NameOrder(t) ==
  /\ t \in Seq(ClassEnvs) /\ Len(t) <= Len(Names)
  /\ \A i \in DOMAIN t : t[i].className = Names[Len(t) + 1 - i]

LEMMA ListedOrder == (Listed => NameOrder(tab)) /\ (Listed' => NameOrder(tab'))
BY DEF Listed, NameOrder

\* What a search finds in a table; before NoParent and CLASS_UNKNOWN there is nothing.
LEMMA HledejIn ==
  ASSUME NEW t, NameOrder(t)
  PROVE  /\ \A i \in DOMAIN t : /\ t[i].className \in Range(Names) /\ hledejClass(t, t[i].className) = t[i]
                                /\ t[i].className \notin {NoParent, CLASS_UNKNOWN}
         /\ \A i, j \in DOMAIN t : t[i].className = t[j].className => i = j
<1>1. /\ t \in Seq(ClassEnvs) /\ DOMAIN t = 1 .. Len(t) /\ Len(t) \in Nat
      /\ Len(Names) \in Nat /\ DOMAIN Names = 1 .. Len(Names) /\ Len(t) <= Len(Names)
  BY NamesAssumption DEF NameOrder
<1>2. \A i \in DOMAIN t : t[i].className \in Range(Names) /\ t[i].className \notin {NoParent, CLASS_UNKNOWN}
  <2>1. \A i \in DOMAIN t : t[i] \in ClassEnvs
    BY <1>1
  <2>2. \A ce \in ClassEnvs : ce.className \in Range(Names)
    BY DEF ClassEnvs
  <2>. QED
    BY <2>1, <2>2, NamesAssumption
<1>3. ASSUME NEW i \in DOMAIN t, NEW j \in DOMAIN t, t[i].className = t[j].className PROVE i = j
  <2>1. Names[Len(t) + 1 - i] = Names[Len(t) + 1 - j]
    BY <1>3 DEF NameOrder
  <2>2. Len(t) + 1 - i \in DOMAIN Names /\ Len(t) + 1 - j \in DOMAIN Names
    BY <1>1
  <2>3. Len(t) + 1 - i = Len(t) + 1 - j
    BY <2>1, <2>2, NamesAssumption
  <2>. QED
    BY <1>1, <2>3
<1>4. ASSUME NEW k \in DOMAIN t PROVE hledejClass(t, t[k].className) = t[k]
  <2>. DEFINE I == {i \in 1 .. Len(t) : t[i].className = t[k].className}
  <2>1. I = {k}
    BY <1>1, <1>3
  <2>2. I # {} /\ I \in SUBSET Nat
    BY <1>1, <2>1
  <2>3. Min(I) \in I
    BY <2>2, MinIn
  <2>4. Min(I) = k /\ k # 0
    BY <1>1, <2>1, <2>3
  <2>5. hledejClass(t, t[k].className) = t[Min(I)]
    BY <2>2, <2>4 DEF hledejClass, FirstIn, SelectInSeq
  <2>. QED
    BY <2>4, <2>5
<1>. QED
  BY <1>2, <1>3, <1>4

LEMMA FirstAddrIs ==
  ASSUME NEW t, NameOrder(t), NEW i \in DOMAIN t
  PROVE  /\ t[i].parent \in {NoParent, CLASS_UNKNOWN} => \A scope : FirstAddr(t, i, scope) = 0
         /\ \A j \in DOMAIN t : t[j].className = t[i].parent =>
              \A scope : FirstAddr(t, i, scope) = NextAddr(t[j], scope)
<1>1. t[i].parent \in {NoParent, CLASS_UNKNOWN} => \A scope : FirstAddr(t, i, scope) = 0
  BY HledejIn DEF FirstAddr
<1>2. ASSUME NEW j \in DOMAIN t, t[j].className = t[i].parent
      PROVE  \A scope : FirstAddr(t, i, scope) = NextAddr(t[j], scope)
  <2>1. hledejClass(t, t[i].parent) = t[j]
    BY <1>2, HledejIn
  <2>. QED
    BY <1>2, <2>1 DEF FirstAddr
<1>. QED
  BY <1>1, <1>2

\* Members of one kind with consecutive addresses, from first.
Contiguous(ce, scope, first) ==
  /\ first + Len(OfScope(ce.syms, scope)) = NextAddr(ce, scope)
  /\ \A n \in DOMAIN OfScope(ce.syms, scope) :
        OfScope(ce.syms, scope)[n].addr + n = NextAddr(ce, scope)

ContiguousTable(t) ==
  \A i \in DOMAIN t : \A scope \in Scopes : Contiguous(t[i], scope, FirstAddr(t, i, scope))

LEMMA AddressedIs == (Addressed <=> ContiguousTable(tab)) /\ (Addressed' <=> ContiguousTable(tab'))
BY DEF Addressed, ContiguousTable, Contiguous

LEMMA TridaAddresses ==
  ASSUME DispatchInv, Addressed, NEW par \in program.parents, Trida(par)
  PROVE  Addressed'
<1>. DEFINE n == Len(tab)
            pe == hledejClass(tab, par)
            ce == ClassEnv(Names[n + 1], par, pe)
<1>a. Listed /\ program \in Programs /\ tab' = <<ce>> \o tab /\ n < Len(Names)
  BY DEF DispatchInv, Trida, deklClass
<1>b. Listed' /\ NameOrder(tab) /\ NameOrder(tab') /\ ContiguousTable(tab)
  BY <1>a, TridaLists, ListedOrder, AddressedIs
<1>c. n \in Nat /\ DOMAIN Names = 1 .. Len(Names) /\ Len(Names) \in Nat /\ DOMAIN tab = 1 .. n /\ tab \in Seq(ClassEnvs)
  BY <1>a, NamesAssumption DEF Listed
<1>1. /\ Listed /\ Listed' /\ n \in Nat /\ n < Len(Names) /\ DOMAIN Names = 1 .. Len(Names)
      /\ tab \in Seq(ClassEnvs) /\ DOMAIN tab = 1 .. n /\ tab' = <<ce>> \o tab /\ ContiguousTable(tab)
      /\ NameOrder(tab) /\ NameOrder(tab')
  <2>. HIDE DEF ce, n
  <2>. QED
    BY <1>a, <1>b, <1>c
<1>2. Names[n + 1] \in Range(Names) /\ par \in UNION {p.parents : p \in Programs}
  <2>1. n + 1 \in DOMAIN Names
    BY <1>a, <1>c
  <2>2. Names[n + 1] \in Range(Names)
    BY <2>1 DEF Range
  <2>. QED
    BY <1>a, <2>2
<1>3. /\ ce \in ClassEnvs /\ ce.className = Names[n + 1]
      /\ ce.parent = IF par = NoParent THEN NoParent
                     ELSE IF par \in Declared THEN par ELSE CLASS_UNKNOWN
  BY <1>1, <1>2, NewClassEnv
<1>4. ce.syms = <<>> /\ \A scope : NextAddr(ce, scope) = IF pe = Null THEN 0 ELSE NextAddr(pe, scope)
  BY DEF ClassEnv, NextAddr
<1>5. (pe = Null <=> par \notin Declared) /\ (pe # Null => \A scope : NextAddr(pe, scope) \in Nat)
  <2>1. (pe = Null <=> par \notin Declared) /\ (pe # Null => pe \in ClassEnvs)
    BY <1>1, HledejClass
  <2>. QED
    BY <2>1 DEF ClassEnvs, NextAddr
<1>. HIDE DEF ce
<1>6. /\ Len(tab') = n + 1 /\ tab'[1] = ce /\ DOMAIN tab' = 1 .. n + 1
      /\ \A i \in 1 .. n : tab'[i + 1] = tab[i] /\ i + 1 \in 1 .. n + 1
      /\ \A i \in 2 .. n + 1 : tab'[i] = tab[i - 1] /\ i - 1 \in 1 .. n
  BY <1>1, <1>3
<1>7. \A scope : FirstAddr(tab', 1, scope) = IF pe = Null THEN 0 ELSE NextAddr(pe, scope)
  <2>0. 1 \in DOMAIN tab'
    BY <1>1, <1>6
  <2>1. CASE par \in Declared
    <3>1. PICK j \in 1 .. n : tab[j].className = par
      BY <1>1, <2>1, TabFacts DEF Own
    <3>2. pe = tab[j]
      BY <1>1, <3>1, HledejIn
    <3>3. j + 1 \in DOMAIN tab' /\ tab'[j + 1] = tab[j]
      BY <1>6, <3>1
    <3>4. par # NoParent
      BY <1>1, <3>1, HledejIn
    <3>5. tab'[j + 1].className = tab'[1].parent
      BY <1>3, <1>6, <2>1, <3>1, <3>3, <3>4
    <3>6. \A scope : FirstAddr(tab', 1, scope) = NextAddr(tab'[j + 1], scope)
      BY <1>1, <2>0, <3>3, <3>5, FirstAddrIs
    <3>. HIDE DEF pe
    <3>. QED
      BY <1>5, <2>1, <3>2, <3>3, <3>6
  <2>2. CASE par \notin Declared
    <3>1. tab'[1].parent \in {NoParent, CLASS_UNKNOWN}
      BY <1>3, <1>6, <2>2
    <3>2. \A scope : FirstAddr(tab', 1, scope) = 0
      BY <1>1, <2>0, <3>1, FirstAddrIs
    <3>. HIDE DEF pe
    <3>. QED
      BY <1>5, <2>2, <3>2
  <2>. QED
    BY <2>1, <2>2
<1>. HIDE DEF pe
<1>8. \A scope : Contiguous(ce, scope, FirstAddr(tab', 1, scope))
  <2>1. \A scope : OfScope(ce.syms, scope) = <<>> /\ FirstAddr(tab', 1, scope) = NextAddr(ce, scope)
                   /\ NextAddr(ce, scope) \in Nat
    BY <1>4, <1>5, <1>7, OfScopeEmpty
  <2>. QED
    BY <2>1 DEF Contiguous
<1>9. ASSUME NEW i \in 1 .. n PROVE \A scope : FirstAddr(tab', i + 1, scope) = FirstAddr(tab, i, scope)
  <2>0. i \in DOMAIN tab /\ i + 1 \in DOMAIN tab' /\ tab'[i + 1] = tab[i]
    BY <1>1, <1>6, <1>9
  <2>1. CASE tab[i].parent \in {NoParent, CLASS_UNKNOWN}
    BY <1>1, <2>0, <2>1, FirstAddrIs
  <2>2. CASE tab[i].parent \notin {NoParent, CLASS_UNKNOWN}
    <3>1. PICK j \in i + 1 .. n : tab[j].className = tab[i].parent
      BY <1>1, <2>0, <2>2 DEF Listed
    <3>2. j \in 1 .. n /\ j \in DOMAIN tab
      BY <1>1, <1>9
    <3>3. j + 1 \in DOMAIN tab' /\ tab'[j + 1] = tab[j]
      BY <1>6, <3>2
    <3>4. \A scope : FirstAddr(tab, i, scope) = NextAddr(tab[j], scope)
      BY <1>1, <2>0, <3>1, <3>2, FirstAddrIs
    <3>5. \A scope : FirstAddr(tab', i + 1, scope) = NextAddr(tab'[j + 1], scope)
      BY <1>1, <2>0, <3>1, <3>3, FirstAddrIs
    <3>. QED
      BY <3>3, <3>4, <3>5
  <2>. QED
    BY <2>1, <2>2
<1>10. ContiguousTable(tab')
  <2>1. ASSUME NEW i \in 2 .. n + 1, NEW scope \in Scopes
        PROVE  Contiguous(tab'[i], scope, FirstAddr(tab', i, scope))
    <3>1. i - 1 \in 1 .. n /\ (i - 1) + 1 = i /\ tab'[i] = tab[i - 1]
      BY <1>1, <1>6, <2>1
    <3>2. FirstAddr(tab', i, scope) = FirstAddr(tab, i - 1, scope)
      BY <1>9, <3>1
    <3>3. Contiguous(tab[i - 1], scope, FirstAddr(tab, i - 1, scope))
      BY <1>1, <3>1 DEF ContiguousTable
    <3>. QED
      BY <3>1, <3>2, <3>3
  <2>2. \A i \in DOMAIN tab' : i = 1 \/ i \in 2 .. n + 1
    BY <1>1, <1>6
  <2>. QED
    BY <1>6, <1>8, <2>1, <2>2 DEF ContiguousTable
<1>. QED
  BY <1>10, AddressedIs

\* A declaration in the class being parsed moves no parent's addresses.
LEMMA InClassAddresses ==
  ASSUME Listed, Addressed, tab # <<>>, NEW ce, SameHead(ce, tab[1]), tab' = InClass(tab, ce),
         \A scope \in Scopes : \A first \in Nat :
            Contiguous(tab[1], scope, first) => Contiguous(ce, scope, first)
  PROVE  Addressed'
<1>1. Listed' /\ NameOrder(tab) /\ NameOrder(tab') /\ ContiguousTable(tab)
  BY InClassLists, ListedOrder, AddressedIs
<1>2. /\ tab \in Seq(ClassEnvs) /\ DOMAIN tab = 1 .. Len(tab) /\ Len(tab) \in Nat /\ 1 \in 1 .. Len(tab)
  BY DEF Listed
<1>3. /\ DOMAIN tab' = DOMAIN tab /\ tab'[1] = ce /\ \A i \in 2 .. Len(tab) : tab'[i] = tab[i]
  BY <1>2 DEF InClass
<1>4. \A i \in DOMAIN tab : tab'[i].className = tab[i].className /\ tab'[i].parent = tab[i].parent
  <2>1. \A i \in 1 .. Len(tab) : i = 1 \/ i \in 2 .. Len(tab)
    BY <1>2
  <2>. QED
    BY <1>2, <1>3, <2>1 DEF SameHead
<1>5. ASSUME NEW i \in DOMAIN tab
      PROVE  \A scope : FirstAddr(tab', i, scope) = FirstAddr(tab, i, scope) /\ FirstAddr(tab, i, scope) \in Nat
  <2>1. CASE tab[i].parent \in {NoParent, CLASS_UNKNOWN}
    BY <1>1, <1>3, <1>4, <2>1, FirstAddrIs
  <2>2. CASE tab[i].parent \notin {NoParent, CLASS_UNKNOWN}
    <3>1. PICK j \in i + 1 .. Len(tab) : tab[j].className = tab[i].parent
      BY <2>2 DEF Listed
    <3>2. j \in DOMAIN tab /\ j \in 2 .. Len(tab) /\ i \in DOMAIN tab'
      BY <1>2, <1>3, <1>5
    <3>3. tab'[j] = tab[j] /\ j \in DOMAIN tab'
      BY <1>3, <3>2
    <3>4. \A scope : FirstAddr(tab, i, scope) = NextAddr(tab[j], scope)
      BY <1>1, <1>5, <3>1, <3>2, FirstAddrIs
    <3>5. \A scope : FirstAddr(tab', i, scope) = NextAddr(tab'[j], scope)
      BY <1>1, <1>4, <1>5, <3>1, <3>2, <3>3, FirstAddrIs
    <3>6. tab[j] \in ClassEnvs
      BY <1>2, <3>2
    <3>7. \A scope : NextAddr(tab[j], scope) \in Nat
      BY <3>6 DEF NextAddr, ClassEnvs
    <3>. QED
      BY <3>3, <3>4, <3>5, <3>7
  <2>. QED
    BY <2>1, <2>2
<1>6. ContiguousTable(tab')
  <2>. SUFFICES ASSUME NEW i \in DOMAIN tab, NEW scope \in Scopes
                PROVE  Contiguous(tab'[i], scope, FirstAddr(tab, i, scope))
    BY <1>3, <1>5 DEF ContiguousTable
  <2>1. Contiguous(tab[i], scope, FirstAddr(tab, i, scope)) /\ FirstAddr(tab, i, scope) \in Nat
    BY <1>1, <1>5 DEF ContiguousTable
  <2>2. i = 1 \/ i \in 2 .. Len(tab)
    BY <1>2
  <2>. QED
    BY <1>3, <2>1, <2>2
<1>. QED
  BY <1>6, AddressedIs

\* Instructions change neither the classes nor the code.
LEMMA ExecuteTab ==
  ASSUME NEW i, Execute(i)
  PROVE  UNCHANGED <<compiled, file, im>>
<1>1. \A c, static, out : Found(i, c, static, out) => UNCHANGED <<compiled, file, im>>
  BY DEF Found
<1>2. \A c, static : Call(i, c, static) => UNCHANGED <<compiled, file, im>>
  BY DEF Call
<1>3. \A why : Stop(why) => UNCHANGED <<compiled, file, im>>
  BY DEF Stop, compiled
<1>4. CASE StaticOfThis(i) \/ StaticOfClass(i) \/ StaticByName(i)
  BY <1>1, <1>3, <1>4 DEF StaticOfThis, StaticOfClass, StaticByName, NoClass
<1>5. CASE InstanceByName(i)
  <2>1. PICK r \in Receivers :
          IF r.isClass THEN Stop("aborted")
          ELSE LET s == vm_find_instance_sym_in_class(im, r.c, code[i].id) IN
               Found(i, r.c, FALSE, IF s = Null THEN Null ELSE INST_VAR(im, r.c, s.addr))
    BY <1>5 DEF InstanceByName
  <2>. QED
    BY <1>1, <1>3, <2>1
<1>6. CASE CALL(i) \/ CALLS(i) \/ CALLE(i)
  BY <1>2, <1>3, <1>6 DEF CALL, CALLS, CALLE, NoClass
<1>7. CASE NewObject(i)
  BY <1>1, <1>3, <1>7 DEF NewObject
<1>8. CASE InstanceOfThis(i)
  <2>1. PICK th \in This(i) :
          IF th.isClass THEN Stop("aborted")
          ELSE Found(i, th.c, FALSE, INST_VAR(im, th.c, code[i].addr))
    BY <1>8 DEF InstanceOfThis
  <2>. QED
    BY <1>1, <1>3, <2>1
<1>. QED
  BY <1>4, <1>5, <1>6, <1>7, <1>8 DEF Execute

\* What a new member does to the class it is declared in.
LEMMA NewMember ==
  ASSUME NEW v, tab[1] \in ClassEnvs, NewPrvek(v) \in PrvekTabs
  PROVE  LET p == NewPrvek(v) ce == WithMember(v) IN
         /\ ce.syms = <<p>> \o tab[1].syms /\ p.sc \in Scopes /\ p.addr = NextAddr(tab[1], p.sc)
         /\ NextAddr(ce, p.sc) = NextAddr(tab[1], p.sc) + 1
         /\ \A scope \in Scopes : scope # p.sc => NextAddr(ce, scope) = NextAddr(tab[1], scope)
<1>1. NewPrvek(v).sc \in Scopes
  BY DEF PrvekTabs
<1>2. NewPrvek(v).addr = NextAddr(tab[1], NewPrvek(v).sc)
  BY DEF NewPrvek, PrvekTab, NextAddr
<1>3. CASE NewPrvek(v).sc = "SC_CLASS"
  BY <1>1, <1>2, <1>3 DEF WithMember, NextAddr, ClassEnvs, Scopes
<1>4. CASE NewPrvek(v).sc = "SC_INSTANCE"
  BY <1>1, <1>2, <1>4 DEF WithMember, NextAddr, ClassEnvs, Scopes
<1>. QED
  BY <1>1, <1>3, <1>4 DEF Scopes

LEMMA MemberContiguous ==
  ASSUME NEW v, tab[1] \in ClassEnvs, NewPrvek(v) \in PrvekTabs, NEW scope \in Scopes, NEW first \in Nat,
         Contiguous(tab[1], scope, first)
  PROVE  Contiguous(WithMember(v), scope, first)
<1>. DEFINE p == NewPrvek(v)
            ce == WithMember(v)
            old == OfScope(tab[1].syms, scope)
            new == OfScope(ce.syms, scope)
<1>1. /\ ce.syms = <<p>> \o tab[1].syms /\ p.addr = NextAddr(tab[1], p.sc)
      /\ NextAddr(ce, p.sc) = NextAddr(tab[1], p.sc) + 1
      /\ scope # p.sc => NextAddr(ce, scope) = NextAddr(tab[1], scope)
  BY NewMember
<1>2. p \in PrvekTabs /\ tab[1].syms \in Seq(PrvekTabs) /\ p.addr \in Nat
  BY DEF ClassEnvs, PrvekTabs
<1>. HIDE DEF p, ce
<1>3. new = Kept(p, scope) \o old /\ old \in Seq(PrvekTabs)
  BY <1>1, <1>2, OfScopeAdd, OfScopeRange
<1>. HIDE DEF new, old
<1>4. /\ first + Len(old) = NextAddr(tab[1], scope)
      /\ \A n \in DOMAIN old : old[n].addr + n = NextAddr(tab[1], scope)
  BY DEF Contiguous, old
<1>5. CASE scope # p.sc
  <2>1. Kept(p, scope) = <<>>
    BY <1>5 DEF Kept
  <2>2. new = old
    BY <1>3, <2>1
  <2>. QED
    BY <1>1, <1>4, <1>5, <2>2 DEF Contiguous, new, ce
<1>6. CASE scope = p.sc
  <2>1. Kept(p, scope) = <<p>>
    BY <1>6 DEF Kept
  <2>2. /\ Len(new) = Len(old) + 1 /\ new[1] = p /\ DOMAIN new = 1 .. Len(old) + 1 /\ DOMAIN old = 1 .. Len(old)
        /\ Len(old) \in Nat
        /\ \A n \in 2 .. Len(old) + 1 : new[n] = old[n - 1] /\ n - 1 \in 1 .. Len(old)
    BY <1>2, <1>3, <2>1
  <2>3. \A n \in 1 .. Len(old) : old[n] \in PrvekTabs
    BY <1>3
  <2>4. \A n \in 1 .. Len(old) : old[n].addr \in Nat
    BY <2>3 DEF PrvekTabs
  <2>5. ASSUME NEW n \in DOMAIN new PROVE new[n].addr + n = NextAddr(ce, scope)
    <3>1. CASE n = 1
      <4>1. new[n] = p /\ p.addr \in Nat
        BY <1>2, <2>2, <3>1
      <4>2. NextAddr(ce, scope) = p.addr + 1
        BY <1>1, <1>6
      <4>. QED
        BY <3>1, <4>1, <4>2
    <3>2. CASE n # 1
      <4>1. n \in 2 .. Len(old) + 1
        BY <2>2, <2>5, <3>2
      <4>2. new[n] = old[n - 1] /\ n - 1 \in 1 .. Len(old) /\ n \in Int
        BY <2>2, <4>1
      <4>3. old[n - 1].addr + (n - 1) = NextAddr(tab[1], scope) /\ old[n - 1].addr \in Nat
        BY <1>4, <2>2, <2>4, <4>2
      <4>4. old[n - 1].addr + n = NextAddr(tab[1], scope) + 1
        BY <4>2, <4>3
      <4>5. NextAddr(ce, scope) = NextAddr(tab[1], scope) + 1
        BY <1>1, <1>6
      <4>. QED
        BY <4>2, <4>4, <4>5
    <3>. QED
      BY <3>1, <3>2
  <2>6. first + Len(new) = NextAddr(ce, scope)
    BY <1>1, <1>4, <1>6, <2>2
  <2>. QED
    BY <2>5, <2>6 DEF Contiguous, new, ce
<1>. QED
  BY <1>5, <1>6

LEMMA AddressedStep ==
  ASSUME DispatchInv, Addressed, [Next]_vars
  PROVE  Addressed'
<1>0. Listed
  BY DEF DispatchInv
<1>1. CASE tab' = tab
  BY <1>1 DEF Addressed
<1>2. ASSUME NEW par \in program.parents, Trida(par) PROVE Addressed'
  BY <1>2, TridaAddresses
<1>3. ASSUME NEW v \in program.vars, Member(v), tab' # tab PROVE Addressed'
  <2>1. ~MemberTwice(tab, v.id)
    BY <1>3 DEF Member, Stop
  <2>2. /\ tab # <<>> /\ tab[1] \in ClassEnvs /\ NewPrvek(v) \in PrvekTabs
        /\ tab' = InClass(tab, WithMember(v)) /\ SameHead(WithMember(v), tab[1])
    BY <1>3, <2>1, MemberIs
  <2>3. \A scope \in Scopes : \A first \in Nat :
          Contiguous(tab[1], scope, first) => Contiguous(WithMember(v), scope, first)
    BY <2>2, MemberContiguous
  <2>. QED
    BY <1>0, <2>2, <2>3, InClassAddresses
<1>4. ASSUME NEW me \in program.methods, Metoda(me), tab' # tab PROVE Addressed'
  <2>1. ~MethodTwice(tab, MethodName(me), me.static)
    BY <1>4 DEF Metoda, Stop
  <2>2. PICK ce : /\ SameHead(ce, tab[1]) /\ ce.syms = tab[1].syms /\ tab' = InClass(tab, ce)
                  /\ ce.class_addr_next = tab[1].class_addr_next /\ ce.obj_addr_next = tab[1].obj_addr_next
    BY <1>4, <2>1, MetodaIs
  <2>3. \A scope \in Scopes : \A first \in Nat :
          Contiguous(tab[1], scope, first) => Contiguous(ce, scope, first)
    BY <2>2 DEF Contiguous, NextAddr
  <2>4. tab # <<>>
    BY <1>4 DEF Metoda
  <2>. QED
    BY <1>0, <2>2, <2>3, <2>4, InClassAddresses
<1>5. CASE tab' # tab /\ Next
  <2>1. ASSUME NEW r \in program.refs, Reference(r) PROVE tab' = tab
    <3>1. PICK e, static : Compiles(e, static)
      BY <2>1 DEF Reference
    <3>. QED
      BY <3>1 DEF Compiles, Stop, Emitted, vars
  <2>2. \A name : TridaAgain(name) => tab' = tab
    BY DEF TridaAgain, Stop
  <2>3. Write \/ Start => tab' = tab
    BY DEF Write, Start, Stop, compiled
  <2>4. ASSUME NEW i, Execute(i) PROVE tab' = tab
    BY <2>4, ExecuteTab DEF compiled
  <2>. QED
    BY <1>2, <1>3, <1>4, <1>5, <2>1, <2>2, <2>3, <2>4 DEF Next
<1>. QED
  BY <1>1, <1>5 DEF vars

-----------------------------------------------------------------------------
(* The layout.                                                             *)

\* The members of a kind, as the machine has them: in the order of their addresses.
Loaded(own) == Reverse(classout_prvektab_ll(own))

LEMMA LoadedIs ==
  ASSUME NEW own \in Seq(PrvekTabs)
  PROVE  /\ IsList(Loaded(own)) /\ Len(Loaded(own)) = Len(own)
         /\ \A k \in 1 .. Len(own) : /\ Len(own) + 1 - k \in 1 .. Len(own)
                                     /\ Loaded(own)[k] = classout_symbol(own[Len(own) + 1 - k])
<1>1. DOMAIN own = 1 .. Len(own) /\ Len(own) \in Nat
  OBVIOUS
<1>. DEFINE l == classout_prvektab_ll(own)
<1>2. l = [i \in 1 .. Len(own) |-> classout_symbol(own[i])]
  BY <1>1 DEF classout_prvektab_ll
<1>. HIDE DEF l
<1>3. Len(l) = Len(own)
  BY <1>1, <1>2
<1>4. Loaded(own) = [k \in 1 .. Len(own) |-> l[(Len(own) - k) + 1]]
  BY <1>3 DEF Loaded, Reverse, l
<1>5. IsList(Loaded(own)) /\ Len(Loaded(own)) = Len(own)
  BY <1>1, <1>4 DEF IsList
<1>6. ASSUME NEW k \in 1 .. Len(own)
      PROVE  /\ Len(own) + 1 - k \in 1 .. Len(own)
             /\ Loaded(own)[k] = classout_symbol(own[Len(own) + 1 - k])
  <2>1. Len(own) + 1 - k \in 1 .. Len(own) /\ (Len(own) - k) + 1 = Len(own) + 1 - k
    BY <1>1
  <2>2. Loaded(own)[k] = l[Len(own) + 1 - k]
    BY <1>4, <2>1
  <2>. QED
    BY <1>2, <2>1, <2>2
<1>. QED
  BY <1>5, <1>6

\* The members of the class at place i.
MembersAt(i, scope) == OfScope(tab[i].syms, scope)

LEMMA OwnMembers ==
  ASSUME Listed, NEW i \in Own, NEW scope
  PROVE  /\ MembersAt(i, scope) \in Seq(PrvekTabs)
         /\ Range(MembersAt(i, scope)) = Members(tab[i].className, scope)
<1>1. tab[i] \in ClassEnvs /\ hledejClass(tab, tab[i].className) = tab[i] /\ tab[i].className \in Declared
  BY TabFacts
<1>2. tab[i].syms \in Seq(PrvekTabs)
  BY <1>1 DEF ClassEnvs
<1>3. Members(tab[i].className, scope) = {p \in Range(tab[i].syms) : p.sc = scope}
  BY <1>1 DEF Members
<1>. QED
  BY <1>2, <1>3, OfScopeRange DEF MembersAt

LEMMA OwnLoaded ==
  ASSUME Listed, Linked, NEW i \in Own
  PROVE  /\ im.classes[i].syms_static = Loaded(MembersAt(i, "SC_CLASS"))
         /\ im.classes[i].syms_instance = Loaded(MembersAt(i, "SC_INSTANCE"))
BY OwnClass DEF Loaded, MembersAt

LEMMA InstanceLen ==
  ASSUME Listed, Linked
  PROVE  /\ \A i \in ClassIds : Len(im.classes[i].syms_instance) \in Nat
         /\ \A i \in ClassIds \ Own : Len(im.classes[i].syms_instance) = 0
         /\ \A i \in Own : Len(im.classes[i].syms_instance) = Len(MembersAt(i, "SC_INSTANCE"))
<1>1. \A i \in Own : /\ Len(im.classes[i].syms_instance) = Len(MembersAt(i, "SC_INSTANCE"))
                     /\ Len(im.classes[i].syms_instance) \in Nat
  <2>. SUFFICES ASSUME NEW i \in Own
                PROVE  /\ Len(im.classes[i].syms_instance) = Len(MembersAt(i, "SC_INSTANCE"))
                       /\ Len(im.classes[i].syms_instance) \in Nat
    OBVIOUS
  <2>1. MembersAt(i, "SC_INSTANCE") \in Seq(PrvekTabs)
    BY OwnMembers
  <2>2. Len(Loaded(MembersAt(i, "SC_INSTANCE"))) = Len(MembersAt(i, "SC_INSTANCE"))
    BY <2>1, LoadedIs
  <2>3. Len(MembersAt(i, "SC_INSTANCE")) \in Nat
    BY <2>1
  <2>. QED
    BY <2>2, <2>3, OwnLoaded
<1>2. ASSUME NEW i \in ClassIds, i \notin Own PROVE Len(im.classes[i].syms_instance) = 0
  <2>1. PICK b \in 1 .. 7 : im.classes[i] = BuiltInAt(b)
    BY <1>2, BuiltInClass
  <2>2. im.classes[i].syms_instance = <<>>
    BY <2>1, BuiltInFacts
  <2>. QED
    BY <2>2
<1>. QED
  BY <1>1, <1>2

\* The number of variables of an object.
LEMMA TotalIs ==
  ASSUME Listed, Linked
  PROVE  \A i \in ClassIds :
           /\ im.total[i] \in Nat
           /\ im.total[i] = Len(im.classes[i].syms_instance)
                              + IF im.up[i] = 0 THEN 0 ELSE im.total[im.up[i]]
<1>. DEFINE D == ClassIds
            V == Nat
            cls == im.classes
            up == im.up
            base == [d \in D |-> Len(cls[d].syms_instance)]
            step == [x \in D \X V |-> Len(cls[x[1]].syms_instance) + x[2]]
<1>1. PICK rank : Ranking(rank)
  BY MachineRank
<1>2. \A d \in D : Len(cls[d].syms_instance) \in Nat
  BY InstanceLen
<1>3. StepsIn(D, V, base, step)
  <2>1. base \in [D -> V]
    BY <1>2
  <2>2. step \in [D \X V -> V]
    <3>1. \A d \in D, v \in Nat : Len(cls[d].syms_instance) + v \in Nat
      <4>. HIDE DEF D, cls
      <4>. QED
        BY <1>2
    <3>2. \A x \in D \X V : x[1] \in D /\ x[2] \in V
      OBVIOUS
    <3>3. \A x \in D \X V : Len(cls[x[1]].syms_instance) + x[2] \in V
      BY <3>1, <3>2
    <3>. QED
      BY <3>3
  <2>. QED
    BY <2>1, <2>2 DEF StepsIn
<1>4. Len(tab) + 8 \in Nat /\ DOMAIN up = D /\ DOMAIN cls = D /\ 0 \notin D /\ \A d \in D : up[d] \in D \union {0}
  BY TabFacts, UpFacts, ImageClasses DEF IsList, ClassIds
<1>5. PICK f \in [D -> V] :
        f = [d \in D |-> IF up[d] \in D THEN step[<<d, f[up[d]]>>] ELSE base[d]]
  <2>1. Ranked(D, up, rank) /\ \A d \in D : rank[d] < Len(tab) + 8
    BY <1>1 DEF Ranking
  <2>. HIDE DEF D, V, base, step, up
  <2>. QED
    BY <1>3, <1>4, <2>1, RecursionUp
<1>6. ASSUME NEW d \in D
      PROVE  f[d] = Len(cls[d].syms_instance) + IF up[d] = 0 THEN 0 ELSE f[up[d]]
  <2>1. CASE up[d] = 0
    <3>1. up[d] \notin D
      BY <1>4, <2>1
    <3>2. f[d] = base[d]
      <4>. HIDE DEF base, step, D
      <4>. QED
        BY <1>5, <1>6, <3>1
    <3>. QED
      BY <1>2, <2>1, <3>2
  <2>2. CASE up[d] # 0
    <3>1. up[d] \in D /\ f[up[d]] \in V
      <4>. HIDE DEF D, V, up
      <4>. QED
        BY <1>4, <1>5, <2>2
    <3>2. f[d] = step[<<d, f[up[d]]>>]
      <4>. HIDE DEF base, step, D, up
      <4>. QED
        BY <1>5, <1>6, <3>1
    <3>3. step[<<d, f[up[d]]>>] = Len(cls[d].syms_instance) + f[up[d]]
      BY <3>1
    <3>. QED
      BY <2>2, <3>2, <3>3
  <2>. QED
    BY <2>1, <2>2
<1>. HIDE DEF base, step
<1>7. \E g : g = [i \in DOMAIN cls |-> Len(cls[i].syms_instance) + IF up[i] = 0 THEN 0 ELSE g[up[i]]]
  <2>1. f = [i \in DOMAIN cls |-> Len(cls[i].syms_instance) + IF up[i] = 0 THEN 0 ELSE f[up[i]]]
    <3>. HIDE DEF D, V, cls, up
    <3>. QED
      BY <1>4, <1>5, <1>6
  <2>. QED
    BY <2>1
<1>8. calc_total_syms_cnt(cls, up)
        = [i \in D |-> Len(cls[i].syms_instance) + IF up[i] = 0 THEN 0
                                                   ELSE calc_total_syms_cnt(cls, up)[up[i]]]
  <2>. HIDE DEF cls, up, D
  <2>. QED
    BY <1>4, <1>7 DEF calc_total_syms_cnt
<1>9. im.total = calc_total_syms_cnt(cls, up)
  BY DEF Linked, Link, vm_calculate_udo_sizes
<1>10. \A i \in D : im.total[i] = Len(cls[i].syms_instance) + IF up[i] = 0 THEN 0 ELSE im.total[up[i]]
  <2>. HIDE DEF cls, up, D
  <2>. QED
    BY <1>8, <1>9
<1>. DEFINE T == {i \in ClassIds : im.total[i] \in Nat}
<1>11. ASSUME NEW i \in ClassIds, im.up[i] # 0 => im.up[i] \in T PROVE i \in T
  <2>1. im.total[i] = Len(cls[i].syms_instance) + IF up[i] = 0 THEN 0 ELSE im.total[up[i]]
    BY <1>10
  <2>2. Len(cls[i].syms_instance) \in Nat
    BY <1>2
  <2>3. up[i] # 0 => im.total[up[i]] \in Nat
    BY <1>11
  <2>4. im.total[i] \in Nat
    <3>. HIDE DEF cls, up, D
    <3>. QED
      BY <2>1, <2>2, <2>3
  <2>. QED
    BY <2>4
<1>. HIDE DEF T
<1>12. ClassIds \subseteq T
  BY <1>11, MachineInduction
<1>. QED
  BY <1>10, <1>12 DEF T

\* What calc_syms_offset answers for a class, given the answer for its parent.
OffsetOf(alloc, inherited) ==
  CASE alloc = "helper" -> 1 [] alloc = "allocates" -> Wild [] alloc = "none" -> 0 [] OTHER -> inherited

\* The offset of the variables of an object.
LEMMA OffsetIs ==
  ASSUME Listed, Linked
  PROVE  \A i \in ClassIds :
           im.offset[i] = OffsetOf(im.classes[i].allocator,
                                   IF im.up[i] = 0 THEN 0 ELSE im.offset[im.up[i]])
<1>. DEFINE D == ClassIds
            V == {0, 1, Wild}
            cls == im.classes
            up == im.up
            base == [d \in D |-> OffsetOf(cls[d].allocator, 0)]
            step == [x \in D \X V |-> OffsetOf(cls[x[1]].allocator, x[2])]
<1>1. PICK rank : Ranking(rank)
  BY MachineRank
<1>2. \A a, v : v \in V => OffsetOf(a, v) \in V
  BY DEF OffsetOf
<1>3. StepsIn(D, V, base, step)
  <2>1. base \in [D -> V]
    BY <1>2
  <2>2. step \in [D \X V -> V]
    <3>1. \A x \in D \X V : x[2] \in V
      OBVIOUS
    <3>2. \A x \in D \X V : OffsetOf(cls[x[1]].allocator, x[2]) \in V
      <4>. HIDE DEF D, V, cls
      <4>. QED
        BY <1>2, <3>1
    <3>. QED
      BY <3>2
  <2>. QED
    BY <2>1, <2>2 DEF StepsIn
<1>4. Len(tab) + 8 \in Nat /\ DOMAIN up = D /\ DOMAIN cls = D /\ 0 \notin D /\ \A d \in D : up[d] \in D \union {0}
  BY TabFacts, UpFacts, ImageClasses DEF IsList, ClassIds
<1>5. PICK f \in [D -> V] :
        f = [d \in D |-> IF up[d] \in D THEN step[<<d, f[up[d]]>>] ELSE base[d]]
  <2>1. Ranked(D, up, rank) /\ \A d \in D : rank[d] < Len(tab) + 8
    BY <1>1 DEF Ranking
  <2>. HIDE DEF D, V, base, step, up
  <2>. QED
    BY <1>3, <1>4, <2>1, RecursionUp
<1>6. ASSUME NEW d \in D
      PROVE  f[d] = OffsetOf(cls[d].allocator, IF up[d] = 0 THEN 0 ELSE f[up[d]])
  <2>1. CASE up[d] = 0
    <3>1. up[d] \notin D
      BY <1>4, <2>1
    <3>2. f[d] = base[d]
      <4>. HIDE DEF base, step, D
      <4>. QED
        BY <1>5, <1>6, <3>1
    <3>3. base[d] = OffsetOf(cls[d].allocator, 0)
      OBVIOUS
    <3>. HIDE DEF base, up, cls
    <3>. QED
      BY <2>1, <3>2, <3>3
  <2>2. CASE up[d] # 0
    <3>1. up[d] \in D /\ f[up[d]] \in V
      <4>. HIDE DEF D, V, up
      <4>. QED
        BY <1>4, <1>5, <2>2
    <3>2. f[d] = step[<<d, f[up[d]]>>]
      <4>. HIDE DEF base, step, D, up
      <4>. QED
        BY <1>5, <1>6, <3>1
    <3>3. <<d, f[up[d]]>> \in D \X V
      <4>. HIDE DEF D, V, up
      <4>. QED
        BY <1>6, <3>1
    <3>4. \A x \in D \X V : step[x] = OffsetOf(cls[x[1]].allocator, x[2])
      OBVIOUS
    <3>5. step[<<d, f[up[d]]>>] = OffsetOf(cls[d].allocator, f[up[d]])
      <4>. HIDE DEF step, D, V, up, cls
      <4>. QED
        BY <3>3, <3>4
    <3>. HIDE DEF step, up, cls
    <3>. QED
      BY <2>2, <3>2, <3>5
  <2>. QED
    BY <2>1, <2>2
<1>7. \E g : g = [i \in D |->
        CASE cls[i].allocator = "helper"    -> 1
          [] cls[i].allocator = "allocates" -> Wild
          [] cls[i].allocator = "none"      -> 0
          [] OTHER -> IF up[i] = 0 THEN 0 ELSE g[up[i]]]
  <2>1. f = [d \in D |-> OffsetOf(cls[d].allocator, IF up[d] = 0 THEN 0 ELSE f[up[d]])]
    <3>. HIDE DEF base, step, V, D, cls, up
    <3>. QED
      BY <1>5, <1>6
  <2>. HIDE DEF base, step, V, D, cls, up
  <2>. QED
    BY <2>1 DEF OffsetOf
<1>8. calc_syms_offset(cls, up) = [i \in D |->
        CASE cls[i].allocator = "helper"    -> 1
          [] cls[i].allocator = "allocates" -> Wild
          [] cls[i].allocator = "none"      -> 0
          [] OTHER -> IF up[i] = 0 THEN 0 ELSE calc_syms_offset(cls, up)[up[i]]]
  <2>. HIDE DEF cls, up, D
  <2>. QED
    BY <1>4, <1>7 DEF calc_syms_offset
<1>9. im.offset = calc_syms_offset(cls, up)
  BY DEF Linked, Link, vm_calculate_udo_sizes
<1>. HIDE DEF cls, up, D
<1>10. \A i \in D :
        im.offset[i] = OffsetOf(cls[i].allocator, IF up[i] = 0 THEN 0 ELSE im.offset[up[i]])
  BY <1>8, <1>9 DEF OffsetOf
<1>. QED
  BY <1>10 DEF D, up, cls

\* Where the addresses of the class at place i begin, once its parent is linked.
StartOf(i, scope) ==
  IF im.up[i] \in Own THEN NextAddr(tab[im.up[i]], scope) ELSE 0

\* Unless its parent was declared later, a class goes on where its parent ends.
LEMMA FirstOf ==
  ASSUME Listed, Linked, NEW i \in Own, ~ParentComesLater(NameOf(i)), NEW scope
  PROVE  FirstAddr(tab, i, scope) = StartOf(i, scope)
<1>1. /\ NameOf(i) = tab[i].className /\ tab[i].className \in Declared
      /\ hledejClass(tab, tab[i].className) = tab[i] /\ DOMAIN tab = Own /\ i \in ClassIds
  BY OwnClass, TabFacts DEF NameOf
<1>2. SourceParent(NameOf(i)) = tab[i].parentName
  BY <1>1 DEF SourceParent
<1>3. NameOf(i) \in LineageAt(i)
  BY <1>1, LineageUp
<1>4. tab[i].parent = CLASS_UNKNOWN => tab[i].parentName \notin Declared
  BY <1>1, <1>2, <1>3 DEF ParentComesLater, LineageAt
<1>5. NameOrder(tab)
  BY ListedOrder
<1>6. tab[i].parent \in {NoParent, CLASS_UNKNOWN} \/
      (tab[i].parent = tab[i].parentName /\ \E j \in DOMAIN tab : tab[j].className = tab[i].parent)
  <2>. \A j \in i + 1 .. Len(tab) : j \in DOMAIN tab
    BY TabFacts DEF IsList, Own
  <2>. QED
    BY <1>1 DEF Listed
<1>7. tab[i].parent = NoParent <=> tab[i].parentName = NoParent
  BY <1>1 DEF Listed
<1>8. CASE im.up[i] \in Own
  <2>1. im.up[i] # 0 /\ im.up[i] \in ClassIds
    BY <1>8, TabFacts, UpFacts
  <2>2. NameOf(im.up[i]) = tab[im.up[i]].className /\ tab[im.up[i]].className \in Declared
    BY <1>8, OwnClass, TabFacts DEF NameOf
  <2>3. tab[i].parentName = tab[im.up[i]].className /\ tab[i].parentName # NoParent
    BY <1>1, <1>2, <2>1, <2>2, UpFacts
  <2>4. tab[i].parent = tab[im.up[i]].className
    BY <1>4, <1>6, <1>7, <2>2, <2>3
  <2>. QED
    BY <1>1, <1>5, <1>8, <2>4, FirstAddrIs DEF StartOf
<1>9. CASE im.up[i] \notin Own
  <2>1. tab[i].parentName \notin Declared
    <3>1. CASE im.up[i] = 0
      <4>1. tab[i].parentName = NoParent
        BY <1>1, <1>2, <3>1, UpFacts
      <4>. QED
        BY <4>1, NamesOf DEF AllNames
    <3>2. CASE im.up[i] # 0
      <4>1. im.up[i] \in ClassIds /\ tab[i].parentName = NameOf(im.up[i])
        BY <1>1, <1>2, <3>2, UpFacts
      <4>. QED
        BY <1>9, <4>1, NamesOf
    <3>. QED
      BY <3>1, <3>2
  <2>2. tab[i].parent \in {NoParent, CLASS_UNKNOWN}
    BY <1>1, <1>6, <2>1, TabFacts
  <2>. QED
    BY <1>1, <1>5, <1>9, <2>2, FirstAddrIs DEF StartOf
<1>. QED
  BY <1>8, <1>9

\* The members of one kind that a class declares itself.
OwnMembersOf(i, scope) == Members(NameOf(i), scope)

LEMMA OwnPart ==
  ASSUME Listed, Linked, Addressed, NEW i \in Own, ~ParentComesLater(NameOf(i)), NEW scope \in Scopes
  PROVE  LET own == OwnMembersOf(i, scope)
             first == StartOf(i, scope)
             next == NextAddr(tab[i], scope)
         IN /\ first \in Nat /\ next \in Nat
            /\ first + Len(MembersAt(i, scope)) = next
            /\ \A p \in own : p.addr \in Nat /\ first <= p.addr /\ p.addr < next
            /\ \A p, q \in own : p.addr = q.addr => p = q
<1>1. NameOf(i) = tab[i].className /\ DOMAIN tab = Own /\ tab[i] \in ClassEnvs
  BY OwnClass, TabFacts DEF NameOf
<1>2. Contiguous(tab[i], scope, StartOf(i, scope))
  <2>1. Contiguous(tab[i], scope, FirstAddr(tab, i, scope))
    BY <1>1, AddressedIs DEF ContiguousTable
  <2>. QED
    BY <2>1, FirstOf
<1>3. PICK list : list = MembersAt(i, scope)
  OBVIOUS
<1>4. list \in Seq(PrvekTabs) /\ Range(list) = OwnMembersOf(i, scope)
  BY <1>1, <1>3, OwnMembers DEF OwnMembersOf
<1>5. PICK first : first = StartOf(i, scope)
  OBVIOUS
<1>6. PICK next : next = NextAddr(tab[i], scope)
  OBVIOUS
<1>7. first \in Nat
  <2>1. im.up[i] \in Own => tab[im.up[i]] \in ClassEnvs
    BY TabFacts
  <2>. QED
    BY <1>5, <2>1 DEF StartOf, NextAddr, ClassEnvs
<1>8. next \in Nat
  BY <1>1, <1>6 DEF NextAddr, ClassEnvs
<1>9. first + Len(list) = next /\ \A n \in DOMAIN list : list[n].addr + n = next
  BY <1>2, <1>3, <1>5, <1>6 DEF Contiguous, MembersAt
<1>10. DOMAIN list = 1 .. Len(list) /\ Len(list) \in Nat /\ \A n \in DOMAIN list : list[n].addr \in Nat
  <2>1. \A p \in PrvekTabs : p.addr \in Nat
    BY DEF PrvekTabs
  <2>. QED
    BY <1>4, <2>1
<1>11. \A p \in Range(list) : \E n \in DOMAIN list : p = list[n]
  BY DEF Range
<1>12. ASSUME NEW p \in Range(list)
       PROVE  p.addr \in Nat /\ first <= p.addr /\ p.addr < next
  <2>1. PICK n \in DOMAIN list : p = list[n]
    BY <1>11
  <2>2. n \in 1 .. Len(list) /\ p.addr \in Nat /\ p.addr + n = next
    BY <1>9, <1>10, <2>1
  <2>. QED
    BY <1>7, <1>8, <1>9, <1>10, <2>2
<1>13. ASSUME NEW p \in Range(list), NEW q \in Range(list), p.addr = q.addr
       PROVE  p = q
  <2>1. PICK n \in DOMAIN list : p = list[n]
    BY <1>11
  <2>2. PICK m \in DOMAIN list : q = list[m]
    BY <1>11
  <2>3. n \in Nat /\ m \in Nat /\ p.addr \in Nat /\ p.addr + n = next /\ p.addr + m = next
    BY <1>9, <1>10, <1>13, <2>1, <2>2
  <2>4. n = m
    BY <2>3
  <2>. QED
    BY <2>1, <2>2, <2>4
<1>. QED
  BY <1>3, <1>4, <1>5, <1>6, <1>7, <1>8, <1>9, <1>12, <1>13

\* The addresses of the variables that classes L declare are different, and less than n.
Packed(L, n) ==
  /\ \A d \in L : \A p \in Members(d, "SC_INSTANCE") : p.addr \in Nat /\ p.addr < n
  /\ \A d, e \in L : \A p \in Members(d, "SC_INSTANCE"), q \in Members(e, "SC_INSTANCE") :
       p.addr = q.addr => d = e /\ p = q

LEMMA PackedUp ==
  ASSUME NEW L, NEW m \in Nat, Packed(L, m), NEW n \in Nat, m <= n, NEW c,
         \A p \in Members(c, "SC_INSTANCE") : p.addr \in Nat /\ m <= p.addr /\ p.addr < n,
         \A p, q \in Members(c, "SC_INSTANCE") : p.addr = q.addr => p = q
  PROVE  Packed({c} \union L, n)
<1>1. \A d \in L : \A p \in Members(d, "SC_INSTANCE") : p.addr \in Nat /\ p.addr < m
  BY DEF Packed
<1>2. ASSUME NEW d \in {c} \union L, NEW p \in Members(d, "SC_INSTANCE")
      PROVE  p.addr \in Nat /\ p.addr < n
  BY <1>1
<1>3. ASSUME NEW d \in {c} \union L, NEW e \in {c} \union L,
             NEW p \in Members(d, "SC_INSTANCE"), NEW q \in Members(e, "SC_INSTANCE"), p.addr = q.addr
      PROVE  d = e /\ p = q
  <2>1. d \in L /\ e = c => FALSE
    BY <1>1, <1>3
  <2>2. e \in L /\ d = c => FALSE
    BY <1>1, <1>3
  <2>3. d \in L /\ e \in L => d = e /\ p = q
    BY <1>3 DEF Packed
  <2>4. d = c /\ e = c => d = e /\ p = q
    BY <1>3
  <2>. QED
    BY <2>1, <2>2, <2>3, <2>4
<1>. QED
  BY <1>2, <1>3 DEF Packed

Excused(c) == ParentComesLater(c) \/ ParentAllocates(c)

LEMMA ExcusesInherited ==
  ASSUME Listed, Linked, NEW i \in ClassIds, im.up[i] # 0
  PROVE  /\ ParentComesLater(NameOf(im.up[i])) => ParentComesLater(NameOf(i))
         /\ ParentAllocates(NameOf(im.up[i])) => ParentAllocates(NameOf(i))
<1>1. LineageAt(im.up[i]) \subseteq LineageAt(i)
  BY LineageUp
<1>. QED
  BY <1>1 DEF LineageAt, ParentComesLater, ParentAllocates

\* The number of variables an object of the class at place i has.
Extent(i) == IF i \in Own THEN NextAddr(tab[i], "SC_INSTANCE") ELSE 0

SoundAt(i) ==
  /\ im.offset[i] = NativePart(NameOf(i))
  /\ im.total[i] = Extent(i) /\ Extent(i) \in Nat
  /\ Packed(LineageAt(i), Extent(i))

LEMMA BuiltInSound ==
  ASSUME Listed, Linked, NEW i \in ClassIds, i \notin Own, ~Excused(NameOf(i))
  PROVE  SoundAt(i)
<1>1. im.up[i] = 0 /\ LineageAt(i) = {NameOf(i)}
  BY UpFacts, LineageUp
<1>2. Members(NameOf(i), "SC_INSTANCE") = {}
  BY NamesOf DEF Members
<1>3. PICK b \in 1 .. 7 : im.classes[i] = BuiltInAt(b)
  BY BuiltInClass
<1>4. NameOf(i) = BuiltInAt(b).name /\ BuiltInAt(b) \in BuiltIns
  BY <1>3, BuiltInsAre DEF NameOf
<1>5. NameOf(i) \in LineageAt(i)
  BY <1>1
<1>6. BuiltInAt(b).allocator # "allocates"
  BY <1>4, <1>5 DEF Excused, ParentAllocates, LineageAt
<1>7. BuiltInAt(b).allocator \in {"helper", "none"} /\
      (BuiltInAt(b).allocator = "helper" <=> NameOf(i) \in {"File", "Exception"})
  BY <1>4, <1>6, BuiltInFacts
<1>8. im.offset[i] = OffsetOf(BuiltInAt(b).allocator, 0)
  BY <1>1, <1>3, OffsetIs
<1>9. im.offset[i] = NativePart(NameOf(i))
  BY <1>1, <1>7, <1>8 DEF NativePart, OffsetOf, LineageAt
<1>10. Extent(i) = 0 /\ im.total[i] = 0
  BY <1>1, TotalIs, InstanceLen DEF Extent
<1>11. Packed(LineageAt(i), 0)
  BY <1>1, <1>2 DEF Packed
<1>. QED
  BY <1>9, <1>10, <1>11 DEF SoundAt

LEMMA OwnSound ==
  ASSUME Listed, Linked, Addressed, NEW i \in Own, ~Excused(NameOf(i)),
         im.up[i] # 0 => SoundAt(im.up[i])
  PROVE  SoundAt(i)
<1>0. /\ i \in ClassIds /\ NameOf(i) = tab[i].className /\ NameOf(i) \in Range(Names)
      /\ NameOf(i) \notin {"File", "Exception"}
  <2>1. BuiltInAt(3).name = "File" /\ BuiltInAt(6).name = "Exception"
    BY DEF vm_init_builtin_classes, BuiltInAt, BuiltIn
  <2>2. {"File", "Exception"} \subseteq BuiltInNames
    BY <2>1, BuiltInName
  <2>. QED
    BY <2>2, OwnClass, TabFacts, NamesAssumption DEF NameOf
<1>1. im.classes[i].allocator = "alloc_udo"
  BY OwnClass
<1>2. im.offset[i] = IF im.up[i] = 0 THEN 0 ELSE im.offset[im.up[i]]
  BY <1>0, <1>1, OffsetIs DEF OffsetOf
<1>3. im.total[i] = Len(MembersAt(i, "SC_INSTANCE")) + IF im.up[i] = 0 THEN 0 ELSE im.total[im.up[i]]
  BY <1>0, TotalIs, InstanceLen
<1>4. PICK m : m = StartOf(i, "SC_INSTANCE")
  OBVIOUS
<1>5. PICK n : n = NextAddr(tab[i], "SC_INSTANCE")
  OBVIOUS
<1>6. PICK own : own = Members(NameOf(i), "SC_INSTANCE")
  OBVIOUS
<1>7. /\ m \in Nat /\ n \in Nat /\ m + Len(MembersAt(i, "SC_INSTANCE")) = n
      /\ \A p \in own : p.addr \in Nat /\ m <= p.addr /\ p.addr < n
      /\ \A p, q \in own : p.addr = q.addr => p = q
  BY <1>4, <1>5, <1>6, OwnPart DEF OwnMembersOf, Scopes, Excused
<1>8. Len(MembersAt(i, "SC_INSTANCE")) \in Nat
  BY OwnMembers
<1>9. m <= n
  BY <1>7, <1>8
<1>10. Extent(i) = n
  BY <1>5 DEF Extent
<1>11. im.up[i] # 0 => m = Extent(im.up[i])
  BY <1>4 DEF StartOf, Extent
<1>12. im.up[i] = 0 => m = 0
  BY <1>0, <1>4, UpFacts, TabFacts DEF StartOf
<1>13. im.total[i] = n
  <2>1. CASE im.up[i] = 0
    BY <1>3, <1>7, <1>8, <1>12, <2>1
  <2>2. CASE im.up[i] # 0
    <3>1. im.total[im.up[i]] = m
      BY <1>11, <2>2 DEF SoundAt
    <3>2. im.total[i] = Len(MembersAt(i, "SC_INSTANCE")) + m
      BY <1>3, <2>2, <3>1
    <3>. QED
      BY <1>7, <1>8, <3>2
  <2>. QED
    BY <2>1, <2>2
<1>14. im.offset[i] = NativePart(NameOf(i))
  <2>1. CASE im.up[i] = 0
    <3>1. LineageAt(i) = {NameOf(i)}
      BY <1>0, <2>1, LineageUp
    <3>. QED
      BY <1>0, <1>2, <2>1, <3>1 DEF NativePart, LineageAt
  <2>2. CASE im.up[i] # 0
    <3>1. LineageAt(i) = {NameOf(i)} \union LineageAt(im.up[i])
      BY <1>0, <2>2, LineageUp
    <3>2. im.offset[im.up[i]] = NativePart(NameOf(im.up[i]))
      BY <2>2 DEF SoundAt
    <3>. QED
      BY <1>0, <1>2, <2>2, <3>1, <3>2 DEF NativePart, LineageAt
  <2>. QED
    BY <2>1, <2>2
<1>15. Packed(LineageAt(i), n)
  <2>1. PICK L : L = IF im.up[i] = 0 THEN {} ELSE LineageAt(im.up[i])
    OBVIOUS
  <2>2. LineageAt(i) = {NameOf(i)} \union L
    BY <1>0, <2>1, LineageUp
  <2>3. Packed(L, m)
    <3>1. CASE im.up[i] = 0
      BY <2>1, <3>1 DEF Packed
    <3>2. CASE im.up[i] # 0
      BY <1>11, <2>1, <3>2 DEF SoundAt
    <3>. QED
      BY <3>1, <3>2
  <2>. QED
    BY <1>6, <1>7, <1>9, <2>2, <2>3, PackedUp
<1>. QED
  BY <1>7, <1>10, <1>13, <1>14, <1>15 DEF SoundAt

LEMMA AllSound ==
  ASSUME Listed, Linked, Addressed
  PROVE  \A i \in ClassIds : Excused(NameOf(i)) \/ SoundAt(i)
<1>. DEFINE T == {i \in ClassIds : Excused(NameOf(i)) \/ SoundAt(i)}
<1>1. ASSUME NEW i \in ClassIds, im.up[i] # 0 => im.up[i] \in T PROVE i \in T
  <2>. SUFFICES ASSUME ~Excused(NameOf(i)) PROVE SoundAt(i)
    OBVIOUS
  <2>1. im.up[i] # 0 => ~Excused(NameOf(im.up[i]))
    BY ExcusesInherited DEF Excused
  <2>2. im.up[i] # 0 => SoundAt(im.up[i])
    BY <1>1, <2>1
  <2>. QED
    BY <2>2, BuiltInSound, OwnSound
<1>. HIDE DEF T
<1>2. ClassIds \subseteq T
  BY <1>1, MachineInduction
<1>. QED
  BY <1>2 DEF T

\* The class of a name that is declared.
LEMMA ClassOfName ==
  ASSUME Listed, Linked, NEW c \in AllNames
  PROVE  vm_find_class(im.classes, c) \in ClassIds /\ NameOf(vm_find_class(im.classes, c)) = c
<1>1. Len(im.classes) \in Nat /\ 1 .. Len(im.classes) = ClassIds
  BY ImageClasses DEF IsList, ClassIds
<1>2. PICK cls : cls = im.classes
  OBVIOUS
<1>3. LET k == vm_find_class(cls, c) IN
        \/ k = 0 /\ \A i \in 1 .. Len(cls) : cls[i].name # c
        \/ k \in 1 .. Len(cls) /\ cls[k].name = c
  BY <1>1, <1>2, FindClass
<1>4. \E i \in ClassIds : cls[i].name = c
  BY <1>2, NamesOf DEF NameOf
<1>. QED
  BY <1>1, <1>2, <1>3, <1>4 DEF NameOf

LEMMA LayoutIs ==
  ASSUME DispatchInv, Addressed
  PROVE  LayoutSound
<1>. SUFFICES ASSUME im # Null, NEW c \in Declared, ~ParentComesLater(c), ~ParentAllocates(c)
              PROVE  LET k == vm_find_class(im.classes, c) IN
                     /\ \A x \in PlacesOf(c) :
                          x[3] >= NativePart(c) /\ x[3] < im.total[k] + im.offset[k]
                     /\ \A x, y \in PlacesOf(c) : x[3] = y[3] => x = y
  BY DEF LayoutSound
<1>1. Listed /\ Linked /\ c \in AllNames
  BY DEF DispatchInv, Started, AllNames
<1>2. PICK k : k = vm_find_class(im.classes, c)
  OBVIOUS
<1>3. k \in ClassIds /\ NameOf(k) = c
  BY <1>1, <1>2, ClassOfName
<1>4. SoundAt(k)
  BY <1>1, <1>3, AllSound DEF Excused
<1>5. /\ im.offset[k] = NativePart(c) /\ NativePart(c) \in {0, 1} /\ NativePart(c) # Wild
      /\ im.total[k] = Extent(k) /\ Extent(k) \in Nat /\ Packed(Lineage(c), Extent(k))
  BY <1>3, <1>4, NullAssumption DEF SoundAt, NativePart, LineageAt
<1>6. \A x \in PlacesOf(c) : \E d \in Lineage(c) : \E p \in Members(d, "SC_INSTANCE") :
        x = <<d, p, p.addr + NativePart(c)>>
  <2>1. ASSUME NEW x \in PlacesOf(c)
        PROVE  \E d \in Lineage(c) : \E p \in Members(d, "SC_INSTANCE") :
                  x = <<d, p, p.addr + NativePart(c)>>
    <3>1. x \in Places(c) /\ x[2] \in Members(x[1], "SC_INSTANCE")
      BY DEF PlacesOf
    <3>2. PICK d \in Lineage(c), p \in UNION {Members(e, "SC_INSTANCE") : e \in Lineage(c)} :
             x = <<d, p, INST_VAR(im, k, p.addr)>>
      BY <1>2, <3>1 DEF Places
    <3>3. x[1] = d /\ x[2] = p
      BY <3>2
    <3>4. INST_VAR(im, k, p.addr) = p.addr + NativePart(c)
      BY <1>5 DEF INST_VAR
    <3>. QED
      BY <3>1, <3>2, <3>3, <3>4
  <2>. QED
    BY <2>1
<1>7. ASSUME NEW x \in PlacesOf(c)
      PROVE  x[3] >= NativePart(c) /\ x[3] < im.total[k] + im.offset[k]
  <2>0. PICK d \in Lineage(c) : \E p \in Members(d, "SC_INSTANCE") : x = <<d, p, p.addr + NativePart(c)>>
    BY <1>6
  <2>1. PICK p \in Members(d, "SC_INSTANCE") : x = <<d, p, p.addr + NativePart(c)>>
    BY <2>0
  <2>2. p.addr \in Nat /\ p.addr < Extent(k)
    BY <1>5, <2>1 DEF Packed
  <2>3. x[3] = p.addr + NativePart(c)
    BY <2>1
  <2>. QED
    BY <1>5, <2>2, <2>3
<1>8. ASSUME NEW x \in PlacesOf(c), NEW y \in PlacesOf(c), x[3] = y[3]
      PROVE  x = y
  <2>0. PICK d \in Lineage(c) : \E p \in Members(d, "SC_INSTANCE") : x = <<d, p, p.addr + NativePart(c)>>
    BY <1>6
  <2>1. PICK p \in Members(d, "SC_INSTANCE") : x = <<d, p, p.addr + NativePart(c)>>
    BY <2>0
  <2>a. PICK e \in Lineage(c) : \E q \in Members(e, "SC_INSTANCE") : y = <<e, q, q.addr + NativePart(c)>>
    BY <1>6
  <2>2. PICK q \in Members(e, "SC_INSTANCE") : y = <<e, q, q.addr + NativePart(c)>>
    BY <2>a
  <2>3. p.addr \in Nat /\ q.addr \in Nat
    BY <1>5, <2>1, <2>2 DEF Packed
  <2>4. x[3] = p.addr + NativePart(c) /\ y[3] = q.addr + NativePart(c)
    BY <2>1, <2>2
  <2>5. p.addr = q.addr
    <3>1. PICK n \in Nat : n = NativePart(c)
      BY <1>5
    <3>2. p.addr + n = q.addr + n
      BY <1>8, <2>4, <3>1
    <3>. QED
      BY <2>3, <3>2
  <2>6. d = e /\ p = q
    BY <1>5, <2>1, <2>2, <2>5 DEF Packed
  <2>. QED
    BY <2>1, <2>2, <2>6
<1>. QED
  BY <1>2, <1>7, <1>8

LEMMA InitAddressed == Init => Addressed
BY DEF Init, Addressed

(* Unless a parent was declared later or allocates, the variables of an    *)
(* object, inherited ones included, have places of their own inside it,    *)
(* whatever the classes and however many.                                  *)
THEOREM LayoutIsSound == Spec => []LayoutSound
<1>. DEFINE I == DispatchInv /\ Addressed /\ CacheInv
<1>1. Init => I
  BY InitDispatches, InitAddressed, InitIsCoherent
<1>2. I /\ [Next]_vars => I'
  BY DispatchInvStep, AddressedStep, StepKeeps
<1>3. I => LayoutSound
  BY LayoutIs
<1>. QED
  BY <1>1, <1>2, <1>3, PTL DEF Spec

-----------------------------------------------------------------------------
(* Class variables.                                                        *)

LEMMA OwnContiguous ==
  ASSUME Listed, Linked, Addressed, NEW i \in Own, ~ParentComesLater(NameOf(i)), NEW scope \in Scopes
  PROVE  Contiguous(tab[i], scope, StartOf(i, scope))
<1>1. Contiguous(tab[i], scope, FirstAddr(tab, i, scope))
  BY TabFacts, AddressedIs DEF ContiguousTable
<1>. QED
  BY <1>1, FirstOf

\* A class variable, where the machine keeps it.
LEMMA StaticAt ==
  ASSUME Listed, Linked, Addressed, NEW i \in Own, ~ParentComesLater(NameOf(i)),
         NEW p \in Members(NameOf(i), "SC_CLASS")
  PROVE  /\ im.classes[i].syms_static # <<>>
         /\ im.classes[i].syms_static[1].addr = StartOf(i, "SC_CLASS")
         /\ StaticSym(im, i, p.addr - StartOf(i, "SC_CLASS") + 1) =
              [of |-> NameOf(i), id |-> p.ident, const |-> p.druh = "IdConst"]
<1>0. "SC_CLASS" \in Scopes
  BY DEF Scopes
<1>1. NameOf(i) = tab[i].className
  BY OwnClass DEF NameOf
<1>2. PICK own : own = MembersAt(i, "SC_CLASS")
  OBVIOUS
<1>3. PICK first : first = StartOf(i, "SC_CLASS")
  OBVIOUS
<1>4. PICK next : next = NextAddr(tab[i], "SC_CLASS")
  OBVIOUS
<1>5. own \in Seq(PrvekTabs) /\ p \in Range(own)
  BY <1>1, <1>2, OwnMembers
<1>6. first \in Nat /\ next \in Nat /\ first + Len(own) = next /\ p.addr \in Nat
  BY <1>0, <1>2, <1>3, <1>4, OwnPart DEF OwnMembersOf
<1>7. \A n \in DOMAIN own : own[n].addr + n = next
  BY <1>0, <1>2, <1>4, OwnContiguous DEF Contiguous, MembersAt
<1>8. PICK n \in DOMAIN own : p = own[n]
  BY <1>5 DEF Range
<1>9. Len(own) \in Nat /\ DOMAIN own = 1 .. Len(own) /\ \A m \in DOMAIN own : own[m].addr \in Nat
  <2>1. \A x \in PrvekTabs : x.addr \in Nat
    BY DEF PrvekTabs
  <2>. QED
    BY <1>5, <2>1
<1>10. PICK syms : syms = im.classes[i].syms_static
  OBVIOUS
<1>11. /\ Len(syms) = Len(own) /\ IsList(syms)
       /\ \A k \in 1 .. Len(own) : syms[k] = classout_symbol(own[Len(own) + 1 - k])
  BY <1>2, <1>5, <1>10, OwnLoaded, LoadedIs
<1>12. syms # <<>>
  BY <1>8, <1>9, <1>11
<1>13. syms[1].addr = first
  <2>1. Len(own) \in DOMAIN own /\ 1 \in 1 .. Len(own) /\ Len(own) + 1 - 1 = Len(own)
    BY <1>8, <1>9
  <2>2. syms[1] = classout_symbol(own[Len(own)])
    BY <1>11, <2>1
  <2>3. own[Len(own)].addr + Len(own) = next /\ own[Len(own)].addr \in Nat
    BY <1>7, <1>9, <2>1
  <2>4. own[Len(own)].addr = first
    BY <1>6, <1>9, <2>3
  <2>. QED
    BY <2>2, <2>4 DEF classout_symbol
<1>14. PICK k : k = p.addr - first + 1
  OBVIOUS
<1>15. k \in 1 .. Len(own) /\ Len(own) + 1 - k = n
  <2>1. p.addr + n = next /\ n \in 1 .. Len(own)
    BY <1>7, <1>8, <1>9
  <2>2. PICK a : a = p.addr
    OBVIOUS
  <2>3. PICK len : len = Len(own)
    OBVIOUS
  <2>4. a \in Nat /\ first \in Nat /\ len \in Nat /\ first + len = next /\ a + n = next /\ n \in 1 .. len
    BY <1>6, <1>9, <2>1, <2>2, <2>3
  <2>5. k = (a - first) + 1
    BY <1>14, <2>2
  <2>6. k = (len - n) + 1
    BY <2>4, <2>5
  <2>. QED
    BY <2>3, <2>4, <2>6
<1>16. syms[k] = classout_symbol(p)
  BY <1>8, <1>11, <1>15
<1>17. StaticSym(im, i, k) = [of |-> NameOf(i), id |-> p.ident, const |-> p.druh = "IdConst"]
  BY <1>10, <1>11, <1>15, <1>16 DEF StaticSym, classout_symbol, NameOf
<1>. QED
  BY <1>3, <1>10, <1>12, <1>13, <1>14, <1>17

\* The ancestors of an ancestor are ancestors.
LEMMA LineageOfLineage ==
  ASSUME Listed, Linked
  PROVE  \A i \in ClassIds : \A d \in LineageAt(i) : Lineage(d) \subseteq LineageAt(i)
<1>. DEFINE T == {i \in ClassIds : \A d \in LineageAt(i) : Lineage(d) \subseteq LineageAt(i)}
<1>1. ASSUME NEW i \in ClassIds, im.up[i] # 0 => im.up[i] \in T PROVE i \in T
  <2>1. ASSUME NEW d \in LineageAt(i) PROVE Lineage(d) \subseteq LineageAt(i)
    <3>1. CASE d = NameOf(i)
      BY <3>1 DEF LineageAt
    <3>2. CASE d # NameOf(i)
      <4>1. im.up[i] # 0 /\ d \in LineageAt(im.up[i]) /\ LineageAt(im.up[i]) \subseteq LineageAt(i)
        BY <2>1, <3>2, LineageUp
      <4>. QED
        BY <1>1, <4>1
    <3>. QED
      BY <3>1, <3>2
  <2>. QED
    BY <2>1
<1>. HIDE DEF T
<1>2. ClassIds \subseteq T
  BY <1>1, MachineInduction
<1>. QED
  BY <1>2 DEF T

(* A walk that goes up from a class and takes the first ancestor it can.   *)
ClimbsTo(f, take, val) ==
  f = [d \in DOMAIN im.up |-> IF im.up[d] = 0 THEN Null
                             ELSE IF take[im.up[d]] THEN val[im.up[d]] ELSE f[im.up[d]]]

LEMMA ClimbTo ==
  ASSUME Listed, Linked, NEW take, NEW val
  PROVE  \E f : ClimbsTo(f, take, val)
<1>. DEFINE D == ClassIds
            V == {val[d] : d \in D} \union {Null}
            next(d) == im.up[d]
            base == [d \in D |-> Null]
            step == [x \in D \X V |-> IF next(x[1]) \in D /\ take[next(x[1])] THEN val[next(x[1])] ELSE x[2]]
<1>1. PICK rank : Ranking(rank)
  BY MachineRank
<1>2. StepsIn(D, V, base, step)
  <2>1. \A x \in D \X V : x[2] \in V
    OBVIOUS
  <2>2. \A d \in D : val[d] \in V
    OBVIOUS
  <2>3. Null \in V
    OBVIOUS
  <2>. HIDE DEF V, D, next
  <2>4. step \in [D \X V -> V]
    BY <2>1, <2>2
  <2>. QED
    BY <2>3, <2>4 DEF StepsIn
<1>3. Len(tab) + 8 \in Nat /\ DOMAIN im.up = D /\ 0 \notin D /\ \A d \in D : im.up[d] \in D \union {0}
  BY TabFacts, UpFacts
<1>4. PICK f \in [D -> V] :
        f = [d \in D |-> IF im.up[d] \in D THEN step[<<d, f[im.up[d]]>>] ELSE base[d]]
  <2>1. Ranked(D, im.up, rank) /\ \A d \in D : rank[d] < Len(tab) + 8
    BY <1>1 DEF Ranking
  <2>. HIDE DEF D, V, base, step
  <2>. QED
    BY <1>2, <1>3, <2>1, RecursionUp
<1>5. ASSUME NEW d \in D
      PROVE  f[d] = IF im.up[d] = 0 THEN Null
                    ELSE IF take[im.up[d]] THEN val[im.up[d]] ELSE f[im.up[d]]
  <2>1. CASE im.up[d] = 0
    <3>1. f[d] = base[d] /\ base[d] = Null
      <4>1. base[d] = Null
        OBVIOUS
      <4>. HIDE DEF base, step, V, D
      <4>. QED
        BY <1>3, <1>4, <1>5, <2>1, <4>1
    <3>. QED
      BY <2>1, <3>1
  <2>2. CASE im.up[d] # 0
    <3>1. im.up[d] \in D /\ f[im.up[d]] \in V
      <4>. HIDE DEF V, D
      <4>. QED
        BY <1>3, <1>4, <2>2
    <3>2. step[<<d, f[im.up[d]]>>] = IF take[im.up[d]] THEN val[im.up[d]] ELSE f[im.up[d]]
      <4>1. \A e \in D, v \in V : step[<<e, v>>] =
               IF next(e) \in D /\ take[next(e)] THEN val[next(e)] ELSE v
        OBVIOUS
      <4>. HIDE DEF step, V, D
      <4>. QED
        BY <3>1, <4>1
    <3>. HIDE DEF step, base, V, D
    <3>. QED
      BY <1>4, <2>2, <3>1, <3>2
  <2>. QED
    BY <2>1, <2>2
<1>6. f = [d \in D |-> IF im.up[d] = 0 THEN Null
                       ELSE IF take[im.up[d]] THEN val[im.up[d]] ELSE f[im.up[d]]]
  <2>. HIDE DEF step, base, V, D
  <2>. QED
    BY <1>4, <1>5
<1>. QED
  BY <1>3, <1>6 DEF ClimbsTo

\* What the walk of SYM_STATIC looks at in an ancestor.
FirstStatic(d) == im.classes[d].syms_static[1].addr
Here(d, idx) == im.classes[d].syms_static # <<>> /\ idx >= FirstStatic(d)
StaticOf(d, idx) == StaticSym(im, d, idx - FirstStatic(d) + 1)

Walks(f, idx) ==
  \A d \in DOMAIN im.up :
    f[d] = IF im.up[d] = 0 THEN Null
           ELSE IF Here(im.up[d], idx) THEN StaticOf(im.up[d], idx) ELSE f[im.up[d]]

LEMMA WalkIs ==
  ASSUME Listed, Linked, NEW idx
  PROVE  \E f : /\ Walks(f, idx)
                /\ \A c, k : SymStaticFrom(im, c, idx, k) = IF k >= 0 THEN StaticSym(im, c, k + 1) ELSE f[c]
<1>. DEFINE take == [d \in DOMAIN im.up |-> Here(d, idx)]
            val == [d \in DOMAIN im.up |-> StaticOf(d, idx)]
<1>1. \E f : f = [d \in DOMAIN im.up |->
                    IF im.up[d] = 0 THEN Null
                    ELSE IF take[im.up[d]] THEN val[im.up[d]] ELSE f[im.up[d]]]
  <2>. HIDE DEF take, val
  <2>1. \E f : ClimbsTo(f, take, val)
    BY ClimbTo
  <2>. QED
    BY <2>1 DEF ClimbsTo
<1>2. \A d \in DOMAIN im.up : im.up[d] # 0 => im.up[d] \in DOMAIN im.up
  BY UpFacts
<1>3. \E f : f = [d \in DOMAIN im.up |->
                    IF im.up[d] = 0 THEN Null
                    ELSE IF Here(im.up[d], idx) THEN StaticOf(im.up[d], idx) ELSE f[im.up[d]]]
  BY <1>1, <1>2
<1>4. PICK f : /\ f = [d \in DOMAIN im.up |->
                    IF im.up[d] = 0 THEN Null
                    ELSE IF Here(im.up[d], idx) THEN StaticOf(im.up[d], idx) ELSE f[im.up[d]]]
               /\ \A c, k : SymStaticFrom(im, c, idx, k) = IF k >= 0 THEN StaticSym(im, c, k + 1) ELSE f[c]
  BY <1>3 DEF SymStaticFrom, Here, StaticOf, FirstStatic
<1>. QED
  BY <1>4 DEF Walks

LEMMA NoStatics ==
  ASSUME Listed, Linked, NEW i \in Own, HasNoStatics(NameOf(i))
  PROVE  im.classes[i].syms_static = <<>>
<1>1. NameOf(i) = tab[i].className
  BY OwnClass DEF NameOf
<1>2. PICK own : own = MembersAt(i, "SC_CLASS")
  OBVIOUS
<1>3. own \in Seq(PrvekTabs) /\ Range(own) = {}
  BY <1>1, <1>2, OwnMembers DEF HasNoStatics
<1>4. own = <<>>
  <2>1. \A n \in DOMAIN own : own[n] \in Range(own)
    BY DEF Range
  <2>2. DOMAIN own = {}
    BY <1>3, <2>1
  <2>. QED
    BY <1>3, <2>2
<1>5. classout_prvektab_ll(own) = <<>>
  BY <1>4 DEF classout_prvektab_ll
<1>6. Loaded(own) = <<>>
  BY <1>5 DEF Loaded, Reverse
<1>. QED
  BY <1>2, <1>6, OwnLoaded

\* The class variable p of the class at place m, as the machine finds it.
VarOf(m, p) == [of |-> NameOf(m), id |-> p.ident, const |-> p.druh = "IdConst"]

\* The walk for the address idx, which goes on from i as f says, finds what has it.
Finds(i, f, idx) ==
  \A m \in Own : NameOf(m) \in LineageAt(i) =>
    \A p \in Members(NameOf(m), "SC_CLASS") : p.addr = idx =>
      /\ idx < NextAddr(tab[i], "SC_CLASS")
      /\ (IF Here(i, idx) THEN StaticOf(i, idx) ELSE f[i]) = VarOf(m, p)

\* Members come from the table.
LEMMA MemberIsPrvek ==
  ASSUME Listed, Linked, NEW m \in Own, NEW scope, NEW p \in Members(NameOf(m), scope)
  PROVE  p \in PrvekTabs
<1>1. NameOf(m) = tab[m].className
  BY OwnClass DEF NameOf
<1>2. PICK s : s = MembersAt(m, scope)
  OBVIOUS
<1>3. s \in Seq(PrvekTabs) /\ p \in Range(s)
  BY <1>1, <1>2, OwnMembers
<1>. QED
  BY <1>3 DEF Range

LEMMA WalkStep ==
  ASSUME Listed, Linked, Addressed, NEW idx, NEW f, Walks(f, idx),
         NEW i \in Own, ~ParentComesLater(NameOf(i)),
         im.up[i] \in Own => Finds(im.up[i], f, idx)
  PROVE  Finds(i, f, idx)
<1>0. "SC_CLASS" \in Scopes /\ Own \subseteq ClassIds /\ i \in DOMAIN im.up
  BY TabFacts, UpFacts DEF Scopes
<1>. SUFFICES ASSUME NEW m \in Own, NameOf(m) \in LineageAt(i),
                     NEW p \in Members(NameOf(m), "SC_CLASS"), p.addr = idx
              PROVE  /\ idx < NextAddr(tab[i], "SC_CLASS")
                     /\ (IF Here(i, idx) THEN StaticOf(i, idx) ELSE f[i]) = VarOf(m, p)
  BY DEF Finds
<1>1. PICK start : start = StartOf(i, "SC_CLASS")
  OBVIOUS
<1>2. PICK next : next = NextAddr(tab[i], "SC_CLASS")
  OBVIOUS
<1>3. PICK len : len = Len(MembersAt(i, "SC_CLASS"))
  OBVIOUS
<1>4. start \in Nat /\ next \in Nat /\ len \in Nat /\ start + len = next
  BY <1>0, <1>1, <1>2, <1>3, OwnPart, OwnMembers
<1>5. start <= next
  BY <1>4
<1>6. CASE m = i
  <2>1. idx \in Nat /\ start <= idx /\ idx < next
    BY <1>0, <1>1, <1>2, <1>6, OwnPart DEF OwnMembersOf
  <2>2. /\ im.classes[i].syms_static # <<>> /\ FirstStatic(i) = start
        /\ StaticSym(im, i, idx - start + 1) = VarOf(i, p)
    BY <1>1, <1>6, StaticAt DEF FirstStatic, VarOf
  <2>3. Here(i, idx)
    BY <1>4, <2>1, <2>2 DEF Here
  <2>4. StaticOf(i, idx) = VarOf(i, p)
    BY <2>2 DEF StaticOf
  <2>. QED
    BY <1>2, <1>6, <2>1, <2>3, <2>4
<1>7. CASE m # i
  <2>1. NameOf(m) # NameOf(i)
    BY <1>0, <1>7, NamesOf
  <2>2. im.up[i] # 0 /\ NameOf(m) \in LineageAt(im.up[i]) /\ im.up[i] \in ClassIds
    BY <1>0, <2>1, LineageUp, UpFacts
  <2>3. im.up[i] \in Own
    <3>1. SUFFICES ASSUME im.up[i] \notin Own PROVE FALSE
      OBVIOUS
    <3>2. LineageAt(im.up[i]) = {NameOf(im.up[i])}
      BY <2>2, <3>1, UpFacts, LineageUp
    <3>3. m = im.up[i]
      BY <1>0, <2>2, <3>2, NamesOf
    <3>. QED
      BY <3>1, <3>3
  <2>4. PICK j : j = im.up[i]
    OBVIOUS
  <2>5. Finds(j, f, idx)
    BY <2>3, <2>4
  <2>6. /\ idx < NextAddr(tab[j], "SC_CLASS")
        /\ (IF Here(j, idx) THEN StaticOf(j, idx) ELSE f[j]) = VarOf(m, p)
    BY <2>2, <2>4, <2>5 DEF Finds
  <2>7. start = NextAddr(tab[j], "SC_CLASS")
    BY <1>1, <2>3, <2>4 DEF StartOf
  <2>8. idx \in Nat
    BY MemberIsPrvek DEF PrvekTabs
  <2>9. idx < next
    BY <1>4, <1>5, <2>6, <2>7, <2>8
  <2>10. ~Here(i, idx)
    <3>1. CASE HasNoStatics(NameOf(i))
      BY <3>1, NoStatics DEF Here
    <3>2. CASE ~HasNoStatics(NameOf(i))
      <4>1. PICK q \in Members(NameOf(i), "SC_CLASS") : TRUE
        BY <3>2 DEF HasNoStatics
      <4>2. FirstStatic(i) = start
        BY <1>1, <4>1, StaticAt DEF FirstStatic
      <4>. QED
        BY <1>4, <2>6, <2>7, <2>8, <4>2 DEF Here
    <3>. QED
      BY <3>1, <3>2
  <2>11. f[i] = IF Here(j, idx) THEN StaticOf(j, idx) ELSE f[j]
    BY <1>0, <2>2, <2>4 DEF Walks
  <2>. QED
    BY <1>2, <2>6, <2>9, <2>10, <2>11
<1>. QED
  BY <1>6, <1>7

LEMMA WalkFinds ==
  ASSUME Listed, Linked, Addressed, NEW idx, NEW f, Walks(f, idx)
  PROVE  \A i \in Own : ParentComesLater(NameOf(i)) \/ Finds(i, f, idx)
<1>. DEFINE T == {i \in ClassIds : i \in Own => ParentComesLater(NameOf(i)) \/ Finds(i, f, idx)}
<1>1. ASSUME NEW i \in ClassIds, im.up[i] # 0 => im.up[i] \in T PROVE i \in T
  <2>. SUFFICES ASSUME i \in Own, ~ParentComesLater(NameOf(i)) PROVE Finds(i, f, idx)
    OBVIOUS
  <2>1. ASSUME im.up[i] \in Own PROVE Finds(im.up[i], f, idx)
    <3>1. im.up[i] # 0
      BY <2>1, TabFacts, UpFacts
    <3>2. ~ParentComesLater(NameOf(im.up[i]))
      BY <3>1, ExcusesInherited
    <3>. QED
      BY <1>1, <2>1, <3>1, <3>2
  <2>. QED
    BY <2>1, WalkStep
<1>. HIDE DEF T
<1>2. ClassIds \subseteq T
  BY <1>1, MachineInduction
<1>. QED
  BY <1>2, TabFacts DEF T

LEMMA VarOfIs ==
  ASSUME Listed, Linked, NEW m \in Own, NEW p \in Members(NameOf(m), "SC_CLASS")
  PROVE  VarOf(m, p) \in FoundStatic /\ VarOf(m, p) \notin {Null, Wild}
<1>1. p \in PrvekTabs /\ NameOf(m) \in ClassNames
  BY MemberIsPrvek, NamesOf, TabFacts
<1>2. VarOf(m, p) \in FoundStatic
  BY <1>1 DEF VarOf, FoundStatic, PrvekTabs
<1>. QED
  BY <1>2, NullAssumption

(* The lookup of a class variable by its address, from a class below the   *)
(* one that declares it.                                                   *)
LEMMA SymStaticIs ==
  ASSUME Listed, Linked, Addressed,
         NEW i \in Own, ~ParentComesLater(NameOf(i)), ~HasNoStatics(NameOf(i)),
         NEW m \in Own, NameOf(m) \in LineageAt(i), NEW p \in Members(NameOf(m), "SC_CLASS")
  PROVE  SYM_STATIC(im, i, p.addr) = {VarOf(m, p)}
<1>1. PICK idx : idx = p.addr
  OBVIOUS
<1>2. PICK f : /\ Walks(f, idx)
               /\ \A c, k : SymStaticFrom(im, c, idx, k) = IF k >= 0 THEN StaticSym(im, c, k + 1) ELSE f[c]
  BY WalkIs
<1>3. Finds(i, f, idx)
  BY <1>2, WalkFinds
<1>4. (IF Here(i, idx) THEN StaticOf(i, idx) ELSE f[i]) = VarOf(m, p)
  BY <1>1, <1>3 DEF Finds
<1>5. PICK q \in Members(NameOf(i), "SC_CLASS") : TRUE
  BY DEF HasNoStatics
<1>6. im.classes[i].syms_static # <<>> /\ FirstStatic(i) = StartOf(i, "SC_CLASS")
  BY <1>5, StaticAt DEF FirstStatic
<1>7. FirstStatic(i) \in Nat /\ idx \in Nat
  <2>1. "SC_CLASS" \in Scopes
    BY DEF Scopes
  <2>. QED
    BY <1>1, <1>6, <2>1, OwnPart, MemberIsPrvek DEF PrvekTabs
<1>8. Here(i, idx) <=> idx - FirstStatic(i) >= 0
  BY <1>6, <1>7 DEF Here
<1>9. SymStaticFrom(im, i, idx, idx - FirstStatic(i)) = VarOf(m, p)
  BY <1>2, <1>4, <1>8 DEF StaticOf
<1>10. SYM_STATIC(im, i, idx) = {SymStaticFrom(im, i, idx, idx - FirstStatic(i))}
  BY <1>6 DEF SYM_STATIC, FirstStatic
<1>. QED
  BY <1>1, <1>9, <1>10

\* The classes on the way up from a class.
LineStep(f) == f = [d \in DOMAIN im.up |-> {d} \union IF im.up[d] = 0 THEN {} ELSE f[im.up[d]]]

LEMMA LineExists ==
  ASSUME Listed, Linked
  PROVE  \E f : LineStep(f)
<1>. DEFINE D == ClassIds
            V == SUBSET ClassIds
            base == [d \in D |-> {d}]
            step == [x \in D \X V |-> {x[1]} \union x[2]]
<1>1. PICK rank : Ranking(rank)
  BY MachineRank
<1>2. StepsIn(D, V, base, step)
  BY DEF StepsIn
<1>3. Len(tab) + 8 \in Nat /\ DOMAIN im.up = D /\ 0 \notin D /\ \A d \in D : im.up[d] \in D \union {0}
  BY TabFacts, UpFacts
<1>4. PICK f \in [D -> V] :
        f = [d \in D |-> IF im.up[d] \in D THEN step[<<d, f[im.up[d]]>>] ELSE base[d]]
  <2>1. Ranked(D, im.up, rank) /\ \A d \in D : rank[d] < Len(tab) + 8
    BY <1>1 DEF Ranking
  <2>. HIDE DEF D, V, base, step
  <2>. QED
    BY <1>2, <1>3, <2>1, RecursionUp
<1>5. ASSUME NEW d \in D PROVE f[d] = {d} \union IF im.up[d] = 0 THEN {} ELSE f[im.up[d]]
  <2>0. \A e \in D, v \in V : step[<<e, v>>] = {e} \union v
    OBVIOUS
  <2>1. base[d] = {d}
    OBVIOUS
  <2>. HIDE DEF V, D, base, step
  <2>2. CASE im.up[d] = 0
    BY <1>3, <1>4, <1>5, <2>1, <2>2
  <2>3. CASE im.up[d] # 0
    <3>1. im.up[d] \in D /\ f[im.up[d]] \in V
      BY <1>3, <1>4, <1>5, <2>3
    <3>. QED
      BY <1>4, <1>5, <2>0, <2>3, <3>1
  <2>. QED
    BY <2>2, <2>3
<1>. HIDE DEF V, base, step, D
<1>6. f = [d \in D |-> {d} \union IF im.up[d] = 0 THEN {} ELSE f[im.up[d]]]
  BY <1>4, <1>5
<1>. QED
  BY <1>3, <1>6 DEF LineStep

LEMMA LineIs ==
  ASSUME Listed, Linked
  PROVE  \A i \in ClassIds : \A k \in Line(i) : k \in ClassIds /\ NameOf(k) \in LineageAt(i)
<1>1. \E f : f = [d \in DOMAIN im.up |-> {d} \union IF im.up[d] = 0 THEN {} ELSE f[im.up[d]]]
  BY LineExists DEF LineStep
<1>2. PICK f : /\ f = [d \in DOMAIN im.up |-> {d} \union IF im.up[d] = 0 THEN {} ELSE f[im.up[d]]]
               /\ \A c : Line(c) = f[c]
  BY <1>1 DEF Line
<1>3. \A i \in ClassIds : Line(i) = {i} \union IF im.up[i] = 0 THEN {} ELSE Line(im.up[i])
  BY <1>2, UpFacts
<1>. DEFINE T == {i \in ClassIds : \A k \in Line(i) : k \in ClassIds /\ NameOf(k) \in LineageAt(i)}
<1>4. ASSUME NEW i \in ClassIds, im.up[i] # 0 => im.up[i] \in T PROVE i \in T
  BY <1>3, <1>4, LineageUp
<1>. HIDE DEF T
<1>5. ClassIds \subseteq T
  BY <1>4, MachineInduction
<1>. QED
  BY <1>5 DEF T

\* The parent of an ancestor is an ancestor.
LEMMA ParentInLineage ==
  ASSUME Listed, Linked, NEW c \in AllNames, NEW d \in Lineage(c), d \in AllNames, SourceParent(d) # NoParent
  PROVE  SourceParent(d) \in Lineage(c)
<1>1. PICK i \in ClassIds : NameOf(i) = c
  BY NamesOf
<1>2. PICK k \in ClassIds : NameOf(k) = d
  BY NamesOf
<1>3. LineageAt(k) \subseteq LineageAt(i)
  BY <1>1, <1>2, LineageOfLineage DEF LineageAt
<1>4. im.up[k] # 0 /\ NameOf(im.up[k]) = SourceParent(d) /\ im.up[k] \in ClassIds
  BY <1>2, UpFacts
<1>5. NameOf(im.up[k]) \in LineageAt(im.up[k])
  BY <1>4, LineageUp
<1>6. LineageAt(im.up[k]) \subseteq LineageAt(k)
  BY <1>4, LineageUp
<1>. QED
  BY <1>1, <1>3, <1>4, <1>5, <1>6 DEF LineageAt

(* An ancestor the parser knew is one in the source.                       *)
LEMMA KnownAncestorIs ==
  ASSUME Listed, Linked, NEW c \in Declared, NEW d, KnownAncestor(d, c)
  PROVE  d \in Lineage(c) /\ d \in Declared
<1>. DEFINE S == Lineage(c) \intersect Declared
<1>1. S \in SUBSET Range(Names)
  BY TabFacts
<1>2. c \in S
  <2>1. PICK i \in ClassIds : NameOf(i) = c
    BY NamesOf DEF AllNames
  <2>. QED
    BY <2>1, LineageUp DEF LineageAt
<1>3. Closed(S)
  <2>. SUFFICES ASSUME NEW i \in DOMAIN tab, tab[i].className \in S,
                       tab[i].parent \notin {NoParent, CLASS_UNKNOWN}
                PROVE  tab[i].parent \in S
    BY DEF Closed
  <2>1. i \in Own /\ hledejClass(tab, tab[i].className) = tab[i] /\ tab[i].className \in Declared
    BY TabFacts
  <2>2. tab[i].parent = tab[i].parentName /\ \E j \in i + 1 .. Len(tab) : tab[j].className = tab[i].parent
    BY DEF Listed
  <2>3. \A j \in i + 1 .. Len(tab) : j \in Own
    BY <2>1 DEF Own
  <2>4. tab[i].parent \in Declared
    BY <2>2, <2>3, TabFacts
  <2>5. SourceParent(tab[i].className) = tab[i].parent
    BY <2>1, <2>2 DEF SourceParent
  <2>6. tab[i].parent \in Lineage(c)
    BY <2>1, <2>5, ParentInLineage DEF AllNames
  <2>. QED
    BY <2>4, <2>6
<1>. HIDE DEF S
<1>4. d \in S
  BY <1>1, <1>2, <1>3 DEF KnownAncestor
<1>. QED
  BY <1>4 DEF S

\* The class by whose name an instruction looks for its variable.
Base(e) == IF e.qual = NoParent THEN e.in ELSE e.qual

LEMMA MeantIs ==
  ASSUME Listed, Linked, NEW e, Meant(e), e.op \in AddressOps, Base(e) \in Declared
  PROVE  \E m \in Own : \E p \in Members(NameOf(m), "SC_CLASS") :
           /\ e.meant = NameOf(m) /\ p.ident = e.id /\ p.addr = e.addr /\ p.druh = "IdProm"
           /\ NameOf(m) \in Lineage(Base(e))
<1>1. PICK m \in DOMAIN tab : \E p \in Range(OfScope(tab[m].syms, "SC_CLASS")) :
         /\ e.meant = tab[m].className /\ p.ident = e.id /\ p.addr = e.addr /\ p.druh = "IdProm"
         /\ KnownAncestor(e.meant, Base(e))
  BY DEF Meant, AddressOps, Base
<1>2. m \in Own /\ NameOf(m) = tab[m].className
  BY TabFacts, OwnClass DEF NameOf
<1>3. Range(OfScope(tab[m].syms, "SC_CLASS")) = Members(NameOf(m), "SC_CLASS")
  BY <1>2, OwnMembers DEF MembersAt
<1>4. NameOf(m) \in Lineage(Base(e))
  BY <1>1, <1>2, KnownAncestorIs
<1>. QED
  BY <1>1, <1>2, <1>3, <1>4

\* What a found class variable has to be, for the instruction at i and the class c.
ResolvedTo(i, c, out) ==
  code[i].op \in {"LVBI_CV", "LABI_CV", "LVBI_CVE", "LABI_CVE", "LVBS_CVE", "LABS_CVE"} =>
    LET byName == code[i].op \in {"LVBS_CVE", "LABS_CVE"}
        owner  == IF byName THEN NearestIn(WithStatic(code[i].id), code[i].qual) ELSE code[i].meant
    IN \/ out = Null /\ owner = Null
       \/ out = Null /\ code[i].op = "LABS_CVE" /\ owner \in WithConstant(code[i].id)
       \/ /\ out \notin {Null, Wild}
          /\ out.of = owner /\ out.id = code[i].id
          /\ code[i].op \in {"LABI_CV", "LABI_CVE", "LABS_CVE"} => ~out.const
       \/ ~byName /\ HasNoStatics(NameOf(c))
       \/ ~byName /\ ParentComesLater(NameOf(c))
       \/ code[i].qual # NoParent /\ Redirected(code[i].qual)

LEMMA AddressResolves ==
  ASSUME DispatchInv, Addressed, status = "run", NEW i \in DOMAIN code, Meant(code[i]),
         code[i].op \in AddressOps, NEW c \in ClassIds, NEW s \in SYM_STATIC(im, c, code[i].addr),
         \/ Base(code[i]) \in LineageAt(c) /\ Base(code[i]) \in Declared
         \/ Base(code[i]) = NameOf(c)
         \/ code[i].qual # NoParent /\ Redirected(code[i].qual)
  PROVE  ResolvedTo(i, c, Assignable(i, s))
<1>0. Listed /\ Linked
  BY DEF DispatchInv, Started
<1>. SUFFICES ASSUME ~HasNoStatics(NameOf(c)), ~ParentComesLater(NameOf(c)),
                     ~(code[i].qual # NoParent /\ Redirected(code[i].qual))
              PROVE  LET out == Assignable(i, s) IN
                     out \notin {Null, Wild} /\ out.of = code[i].meant /\ out.id = code[i].id /\ ~out.const
  BY DEF ResolvedTo, AddressOps
<1>1. NameOf(c) \in Declared /\ c \in Own
  <2>1. NameOf(c) \in Declared
    BY DEF HasNoStatics, Members
  <2>. QED
    BY <1>0, <2>1, NamesOf
<1>2. Base(code[i]) \in Declared /\ Base(code[i]) \in LineageAt(c)
  BY <1>0, <1>1, LineageUp
<1>3. PICK m \in Own : \E p \in Members(NameOf(m), "SC_CLASS") :
           /\ code[i].meant = NameOf(m) /\ p.ident = code[i].id /\ p.addr = code[i].addr /\ p.druh = "IdProm"
           /\ NameOf(m) \in Lineage(Base(code[i]))
  <2>1. PICK e : e = code[i]
    OBVIOUS
  <2>2. \E m \in Own : \E p \in Members(NameOf(m), "SC_CLASS") :
           /\ e.meant = NameOf(m) /\ p.ident = e.id /\ p.addr = e.addr /\ p.druh = "IdProm"
           /\ NameOf(m) \in Lineage(Base(e))
    BY <1>0, <1>2, <2>1, MeantIs
  <2>. QED
    BY <2>1, <2>2
<1>4. PICK p \in Members(NameOf(m), "SC_CLASS") :
           /\ code[i].meant = NameOf(m) /\ p.ident = code[i].id /\ p.addr = code[i].addr /\ p.druh = "IdProm"
           /\ NameOf(m) \in Lineage(Base(code[i]))
  BY <1>3
<1>5. NameOf(m) \in LineageAt(c)
  BY <1>0, <1>2, <1>4, LineageOfLineage
<1>6. s = VarOf(m, p)
  BY <1>0, <1>1, <1>4, <1>5, SymStaticIs
<1>7. s \notin {Null, Wild}
  BY <1>0, <1>6, VarOfIs
<1>8. s.of = code[i].meant /\ s.id = code[i].id /\ s.const = FALSE
  BY <1>4, <1>6 DEF VarOf
<1>9. Assignable(i, s) = s
  BY <1>7, <1>8 DEF Assignable
<1>. QED
  BY <1>7, <1>8, <1>9

-----------------------------------------------------------------------------
(* Class variables that are looked up by name.                             *)

LEMMA BuiltInStatics ==
  \A b \in 1 .. 7 : \A k \in DOMAIN BuiltInAt(b).syms_static : BuiltInAt(b).syms_static[k].const = TRUE
<1>1. \A k \in DOMAIN BuiltInAt(5).syms_static : BuiltInAt(5).syms_static[k].const = TRUE
  <2>. DEFINE names == <<"out", "in", "err", "term">>
              sym(i) == [name |-> names[i], addr |-> i - 1, const |-> TRUE]
  <2>1. BuiltInAt(5).syms_static = [i \in DOMAIN names |-> sym(i)]
    BY DEF vm_init_builtin_classes, BuiltInAt, BuiltIn
  <2>2. \A i : sym(i).const = TRUE
    OBVIOUS
  <2>. HIDE DEF names, sym
  <2>. QED
    BY <2>1, <2>2
<1>2. \A b \in {1, 2, 3, 4, 6, 7} : BuiltInAt(b).syms_static = <<>>
  BY DEF vm_init_builtin_classes, BuiltInAt, BuiltIn
<1>3. \A b \in 1 .. 7 : b = 5 \/ b \in {1, 2, 3, 4, 6, 7}
  OBVIOUS
<1>4. DOMAIN <<>> = {}
  OBVIOUS
<1>. QED
  BY <1>1, <1>2, <1>3, <1>4

\* The class variables of a class of the machine.
LEMMA StaticsOfClass ==
  ASSUME Listed, Linked, NEW i \in ClassIds
  PROVE  LET syms == im.classes[i].syms_static IN
         /\ IsList(syms) /\ \A k \in DOMAIN syms : syms[k].const \in BOOLEAN
         /\ \A name : (\E k \in DOMAIN syms : syms[k].name = name) <=> NameOf(i) \in WithStatic(name)
<1>. DEFINE OwnWith(name) == {c \in Declared : \E p \in Members(c, "SC_CLASS") : p.ident = name}
            BuiltInWith(name) == {b.name : b \in {d \in BuiltIns : \E s \in Range(d.syms_static) : s.name = name}}
<1>0. \A name : WithStatic(name) = OwnWith(name) \union BuiltInWith(name)
  BY DEF WithStatic
<1>1. \A name : BuiltInWith(name) \subseteq BuiltInNames /\ OwnWith(name) \subseteq Declared
  BY DEF BuiltInNames
<1>2. Declared \subseteq Range(Names) /\ Range(Names) \intersect BuiltInNames = {}
  BY TabFacts, NamesAssumption
<1>3. PICK syms : syms = im.classes[i].syms_static
  OBVIOUS
<1>4. CASE i \in Own
  <2>1. NameOf(i) = tab[i].className /\ tab[i].className \in Declared
    BY <1>4, OwnClass, TabFacts DEF NameOf
  <2>2. PICK own : own = MembersAt(i, "SC_CLASS")
    OBVIOUS
  <2>3. own \in Seq(PrvekTabs) /\ Range(own) = Members(NameOf(i), "SC_CLASS")
    BY <1>4, <2>1, <2>2, OwnMembers
  <2>4. /\ IsList(syms) /\ Len(syms) = Len(own)
        /\ \A k \in 1 .. Len(own) : /\ Len(own) + 1 - k \in 1 .. Len(own)
                                    /\ syms[k] = classout_symbol(own[Len(own) + 1 - k])
    BY <1>3, <1>4, <2>2, <2>3, OwnLoaded, LoadedIs
  <2>5. DOMAIN syms = 1 .. Len(own) /\ DOMAIN own = 1 .. Len(own) /\ Len(own) \in Nat
    BY <2>3, <2>4 DEF IsList
  <2>6. \A k \in DOMAIN syms : syms[k].const \in BOOLEAN
    <3>1. ASSUME NEW p PROVE classout_symbol(p).const \in BOOLEAN
      <4>1. classout_symbol(p).const = (p.druh = "IdConst")
        BY DEF classout_symbol
      <4>2. (p.druh = "IdConst") \in BOOLEAN
        OBVIOUS
      <4>. QED
        BY <4>1, <4>2
    <3>2. \A k \in DOMAIN syms : \E p : syms[k] = classout_symbol(p)
      BY <2>4, <2>5
    <3>. QED
      BY <3>1, <3>2
  <2>7. ASSUME NEW name
        PROVE  (\E k \in DOMAIN syms : syms[k].name = name) <=> \E n \in DOMAIN own : own[n].ident = name
    <3>1. ASSUME NEW k \in DOMAIN syms, syms[k].name = name PROVE \E n \in DOMAIN own : own[n].ident = name
      <4>1. Len(own) + 1 - k \in DOMAIN own /\ own[Len(own) + 1 - k].ident = name
        BY <2>4, <2>5, <3>1 DEF classout_symbol
      <4>. QED
        BY <4>1
    <3>2. ASSUME NEW n \in DOMAIN own, own[n].ident = name PROVE \E k \in DOMAIN syms : syms[k].name = name
      <4>1. PICK len : len = Len(own)
        OBVIOUS
      <4>2. PICK k : k = len + 1 - n
        OBVIOUS
      <4>3. k \in 1 .. len /\ len + 1 - k = n
        BY <2>5, <4>1, <4>2
      <4>4. syms[k] = classout_symbol(own[n])
        BY <2>4, <4>1, <4>3
      <4>. QED
        BY <2>5, <3>2, <4>1, <4>3, <4>4 DEF classout_symbol
    <3>. QED
      BY <3>1, <3>2
  <2>8. ASSUME NEW name
        PROVE  (\E k \in DOMAIN syms : syms[k].name = name) <=> NameOf(i) \in WithStatic(name)
    <3>1. NameOf(i) \in OwnWith(name) <=> \E p \in Range(own) : p.ident = name
      BY <2>1, <2>3
    <3>2. (\E p \in Range(own) : p.ident = name) <=> \E n \in DOMAIN own : own[n].ident = name
      BY DEF Range
    <3>3. NameOf(i) \notin BuiltInWith(name)
      BY <1>1, <1>2, <2>1
    <3>. HIDE DEF OwnWith, BuiltInWith
    <3>. QED
      BY <1>0, <2>7, <3>1, <3>2, <3>3
  <2>. QED
    BY <1>3, <2>4, <2>6, <2>8
<1>5. CASE i \notin Own
  <2>1. PICK b \in 1 .. 7 : im.classes[i] = BuiltInAt(b)
    BY <1>5, BuiltInClass
  <2>2. NameOf(i) = BuiltInAt(b).name /\ NameOf(i) \in BuiltInNames /\ BuiltInAt(b) \in BuiltIns
    BY <2>1, BuiltInName, BuiltInsAre DEF NameOf
  <2>3. syms = BuiltInAt(b).syms_static
    BY <1>3, <2>1
  <2>4. IsList(syms) /\ \A k \in DOMAIN syms : syms[k].const \in BOOLEAN
    BY <2>3, BuiltInFacts, BuiltInStatics
  <2>5. \A d \in BuiltIns : d.name = BuiltInAt(b).name => d = BuiltInAt(b)
    BY BuiltInsAre, BuiltInFacts
  <2>6. ASSUME NEW name
        PROVE  (\E k \in DOMAIN syms : syms[k].name = name) <=> NameOf(i) \in WithStatic(name)
    <3>1. NameOf(i) \in BuiltInWith(name) <=> \E s \in Range(syms) : s.name = name
      BY <2>2, <2>3, <2>5
    <3>2. (\E s \in Range(syms) : s.name = name) <=> \E k \in DOMAIN syms : syms[k].name = name
      BY DEF Range
    <3>3. NameOf(i) \notin OwnWith(name)
      BY <1>1, <1>2, <2>2
    <3>. HIDE DEF OwnWith, BuiltInWith
    <3>. QED
      BY <1>0, <3>1, <3>2, <3>3
  <2>. QED
    BY <1>3, <2>4, <2>6
<1>. QED
  BY <1>4, <1>5

\* A class variable that the machine has for a constant was declared as one.
LEMMA ConstantsOfClass ==
  ASSUME Listed, Linked, NEW i \in ClassIds, NEW k \in DOMAIN im.classes[i].syms_static,
         im.classes[i].syms_static[k].const
  PROVE  NameOf(i) \in WithConstant(im.classes[i].syms_static[k].name)
<1>1. PICK syms : syms = im.classes[i].syms_static
  OBVIOUS
<1>2. PICK s : s = syms[k]
  OBVIOUS
<1>3. k \in DOMAIN syms /\ s.const
  BY <1>1, <1>2
<1>4. CASE i \in Own
  <2>1. NameOf(i) = tab[i].className /\ tab[i].className \in Declared
    BY <1>4, OwnClass, TabFacts DEF NameOf
  <2>2. PICK own : own = MembersAt(i, "SC_CLASS")
    OBVIOUS
  <2>3. own \in Seq(PrvekTabs) /\ Range(own) = Members(NameOf(i), "SC_CLASS")
    BY <1>4, <2>1, <2>2, OwnMembers
  <2>4. /\ IsList(syms) /\ Len(syms) = Len(own)
        /\ \A n \in 1 .. Len(own) : /\ Len(own) + 1 - n \in 1 .. Len(own)
                                    /\ syms[n] = classout_symbol(own[Len(own) + 1 - n])
    BY <1>1, <1>4, <2>2, <2>3, OwnLoaded, LoadedIs
  <2>5. DOMAIN syms = 1 .. Len(own) /\ DOMAIN own = 1 .. Len(own)
    BY <2>3, <2>4 DEF IsList
  <2>6. PICK p \in Range(own) : s = classout_symbol(p)
    BY <1>2, <1>3, <2>4, <2>5 DEF Range
  <2>7. p.ident = s.name /\ p.druh = "IdConst"
    BY <1>3, <2>6 DEF classout_symbol
  <2>. QED
    BY <1>1, <1>2, <2>1, <2>3, <2>6, <2>7 DEF WithConstant
<1>5. CASE i \notin Own
  <2>1. PICK b \in 1 .. 7 : im.classes[i] = BuiltInAt(b)
    BY <1>5, BuiltInClass
  <2>2. NameOf(i) = BuiltInAt(b).name /\ BuiltInAt(b) \in BuiltIns
    BY <2>1, BuiltInsAre DEF NameOf
  <2>3. s \in Range(BuiltInAt(b).syms_static)
    BY <1>1, <1>2, <1>3, <2>1 DEF Range
  <2>. QED
    BY <1>1, <1>2, <1>3, <2>2, <2>3 DEF WithConstant
<1>. QED
  BY <1>4, <1>5

\* What the class at place d has under a name.
OwnStatic(d, name) ==
  IF NamedSym(im.classes[d].syms_static, name) = 0 THEN Null
  ELSE StaticSym(im, d, NamedSym(im.classes[d].syms_static, name))

LEMMA OwnStaticIs ==
  ASSUME Listed, Linked, NEW i \in ClassIds, NEW name \in Words
  PROVE  IF NameOf(i) \in WithStatic(name)
         THEN /\ OwnStatic(i, name) \in FoundStatic /\ OwnStatic(i, name) # Null
              /\ OwnStatic(i, name).of = NameOf(i) /\ OwnStatic(i, name).id = name
              /\ OwnStatic(i, name).const => NameOf(i) \in WithConstant(name)
         ELSE OwnStatic(i, name) = Null
<1>1. PICK syms : syms = im.classes[i].syms_static
  OBVIOUS
<1>2. /\ IsList(syms) /\ \A k \in DOMAIN syms : syms[k].const \in BOOLEAN
      /\ (\E k \in DOMAIN syms : syms[k].name = name) <=> NameOf(i) \in WithStatic(name)
  BY <1>1, StaticsOfClass
<1>3. PICK k : k = NamedSym(syms, name)
  OBVIOUS
<1>4. Len(syms) \in Nat /\ DOMAIN syms = 1 .. Len(syms)
  BY <1>2 DEF IsList
<1>5. \/ k = 0 /\ \A n \in 1 .. Len(syms) : syms[n].name # name
      \/ k \in 1 .. Len(syms) /\ syms[k].name = name
  <2>1. k = vm_find_class(syms, name)
    BY <1>3 DEF NamedSym, vm_find_class
  <2>. QED
    BY <1>4, <2>1, FindClass
<1>6. OwnStatic(i, name) = IF k = 0 THEN Null ELSE StaticSym(im, i, k)
  BY <1>1, <1>3 DEF OwnStatic
<1>7. CASE k = 0
  BY <1>2, <1>4, <1>5, <1>6, <1>7
<1>8. CASE k # 0
  <2>1. k \in 1 .. Len(syms) /\ syms[k].name = name /\ NameOf(i) \in WithStatic(name)
    BY <1>2, <1>4, <1>5, <1>8
  <2>2. StaticSym(im, i, k) = [of |-> NameOf(i), id |-> name, const |-> syms[k].const]
    BY <1>1, <2>1 DEF StaticSym, NameOf
  <2>3. NameOf(i) \in ClassNames /\ syms[k].const \in BOOLEAN
    BY <1>2, <1>4, <2>1, NamesOf
  <2>4. StaticSym(im, i, k) \in FoundStatic
    BY <2>2, <2>3 DEF FoundStatic
  <2>5. syms[k].const => NameOf(i) \in WithConstant(name)
    BY <1>1, <1>4, <2>1, ConstantsOfClass
  <2>. QED
    BY <1>6, <1>8, <2>1, <2>2, <2>4, <2>5, NullAssumption
<1>. QED
  BY <1>7, <1>8

LEMMA StaticUp ==
  ASSUME Listed, Linked, NEW name
  PROVE  \A i \in ClassIds :
           vm_find_static_sym_in_class(im, i, name) =
             IF OwnStatic(i, name) # Null \/ im.up[i] = 0 THEN OwnStatic(i, name)
             ELSE vm_find_static_sym_in_class(im, im.up[i], name)
<1>. DEFINE own == [d \in DOMAIN im.up |-> OwnStatic(d, name)]
<1>1. \E f : f = [d \in DOMAIN im.up |->
                    IF own[d] # Null \/ im.up[d] \notin DOMAIN im.up THEN own[d] ELSE f[im.up[d]]]
  <2>. HIDE DEF own
  <2>. QED
    BY Climb
<1>2. \E f : f = [d \in DOMAIN im.up |->
                    IF OwnStatic(d, name) # Null \/ im.up[d] \notin DOMAIN im.up
                    THEN OwnStatic(d, name) ELSE f[im.up[d]]]
  BY <1>1
<1>3. PICK f : /\ f = [d \in DOMAIN im.up |->
                         IF OwnStatic(d, name) # Null \/ im.up[d] \notin DOMAIN im.up
                         THEN OwnStatic(d, name) ELSE f[im.up[d]]]
               /\ \A i : vm_find_static_sym_in_class(im, i, name) = f[i]
  BY <1>2 DEF vm_find_static_sym_in_class, Nearest, OwnStatic
<1>. QED
  BY <1>3, UpFacts

(* The lookup by name finds the nearest class that declares the name.      *)
LEMMA StaticNearest ==
  ASSUME Listed, Linked, NEW name \in Words
  PROVE  \A i \in ClassIds :
           LET owner == NearestIn(WithStatic(name), NameOf(i))
               found == vm_find_static_sym_in_class(im, i, name)
           IN IF owner = Null THEN found = Null
              ELSE /\ found \in FoundStatic /\ found.of = owner /\ found.id = name
                   /\ found.const => owner \in WithConstant(name)
<1>. DEFINE W == WithStatic(name)
            K == WithConstant(name)
            Near(i) == NearestIn(W, NameOf(i))
            Res(i) == vm_find_static_sym_in_class(im, i, name)
            Good(i) == IF Near(i) = Null THEN Res(i) = Null
                       ELSE /\ Res(i) \in FoundStatic /\ Res(i).of = Near(i) /\ Res(i).id = name
                            /\ Res(i).const => Near(i) \in K
            T == {i \in ClassIds : Good(i)}
<1>1. ASSUME NEW i \in ClassIds, im.up[i] # 0 => im.up[i] \in T PROVE i \in T
  <2>1. Res(i) = IF OwnStatic(i, name) # Null \/ im.up[i] = 0 THEN OwnStatic(i, name) ELSE Res(im.up[i])
    BY StaticUp
  <2>2. Near(i) = IF NameOf(i) \in W THEN NameOf(i) ELSE IF im.up[i] = 0 THEN Null ELSE Near(im.up[i])
    BY NearestUp
  <2>3. IF NameOf(i) \in W
        THEN /\ OwnStatic(i, name) \in FoundStatic /\ OwnStatic(i, name) # Null
             /\ OwnStatic(i, name).of = NameOf(i) /\ OwnStatic(i, name).id = name
             /\ OwnStatic(i, name).const => NameOf(i) \in K
        ELSE OwnStatic(i, name) = Null
    BY OwnStaticIs
  <2>4. NameOf(i) # Null
    BY NamesOf, NullAssumption
  <2>6. im.up[i] # 0 => Good(im.up[i])
    BY <1>1
  <2>7. Good(i)
    <3>. HIDE DEF W, K, Near, Res
    <3>. QED
      BY <2>1, <2>2, <2>3, <2>4, <2>6
  <2>. QED
    BY <2>7
<1>. HIDE DEF T
<1>2. ClassIds \subseteq T
  BY <1>1, MachineInduction
<1>. QED
  BY <1>2 DEF T

LEMMA NameResolves ==
  ASSUME DispatchInv, status = "run", NEW i \in DOMAIN code, code[i].op \in {"LVBS_CVE", "LABS_CVE"},
         Qualifier(i) # 0
  PROVE  ResolvedTo(i, Qualifier(i),
                    Assignable(i, vm_find_static_sym_in_class(im, Qualifier(i), code[i].id)))
<1>0. Listed /\ Linked /\ Compiled(code[i]) /\ code[i].id \in Words
  BY DEF DispatchInv, Started, Compiled
<1>1. code[i].qual # NoParent /\ code[i].pushed = "class"
  BY <1>0 DEF Compiled
<1>. SUFFICES ASSUME ~Redirected(code[i].qual)
              PROVE  ResolvedTo(i, Qualifier(i),
                       Assignable(i, vm_find_static_sym_in_class(im, Qualifier(i), code[i].id)))
  BY <1>1 DEF ResolvedTo
<1>2. PICK c : c = Qualifier(i)
  OBVIOUS
<1>3. c \in ClassIds /\ NameOf(c) = code[i].qual
  BY <1>1, <1>2, QualifierIs
<1>4. PICK owner : owner = NearestIn(WithStatic(code[i].id), NameOf(c))
  OBVIOUS
<1>5. PICK s : s = vm_find_static_sym_in_class(im, c, code[i].id)
  OBVIOUS
<1>6. IF owner = Null THEN s = Null
      ELSE /\ s \in FoundStatic /\ s.of = owner /\ s.id = code[i].id
           /\ s.const => owner \in WithConstant(code[i].id)
  BY <1>0, <1>3, <1>4, <1>5, StaticNearest
<1>7. PICK out : out = Assignable(i, s)
  OBVIOUS
<1>8. \/ out = Null /\ owner = Null
      \/ out = Null /\ code[i].op = "LABS_CVE" /\ owner \in WithConstant(code[i].id)
      \/ /\ out \notin {Null, Wild}
         /\ out.of = owner /\ out.id = code[i].id
         /\ code[i].op = "LABS_CVE" => ~out.const
  <2>1. CASE owner = Null
    <3>1. s = Null
      BY <1>6, <2>1, Zenon
    <3>. QED
      BY <1>7, <2>1, <3>1 DEF Assignable
  <2>2. CASE owner # Null
    <3>1. /\ s \in FoundStatic /\ s.of = owner /\ s.id = code[i].id
          /\ s.const => owner \in WithConstant(code[i].id)
      BY <1>6, <2>2, Zenon
    <3>2. s \notin {Null, Wild} /\ s.const \in BOOLEAN
      BY <3>1, NullAssumption DEF FoundStatic
    <3>. QED
      BY <1>7, <3>1, <3>2 DEF Assignable
  <2>. QED
    BY <2>1, <2>2
<1>9. owner = NearestIn(WithStatic(code[i].id), code[i].qual)
  BY <1>3, <1>4
<1>10. ResolvedTo(i, c, out)
  BY <1>8, <1>9 DEF ResolvedTo
<1>. QED
  BY <1>2, <1>5, <1>7, <1>10

LEMMA SameRules ==
  ASSUME tab' = tab
  PROVE  \A c : /\ ParentComesLater(c)' <=> ParentComesLater(c)
                /\ HasNoStatics(c)' <=> HasNoStatics(c)
<1>1. Declared' = Declared /\ Hierarchy' = Hierarchy
  BY SameTab
<1>2. \A c : SourceParent(c)' = SourceParent(c)
  BY <1>1 DEF SourceParent
<1>3. \A c : Lineage(c)' = Lineage(c)
  BY <1>1 DEF Lineage
<1>4. \A c, scope : Members(c, scope)' = Members(c, scope)
  BY SameTab
<1>5. ASSUME NEW c PROVE ParentComesLater(c)' <=> ParentComesLater(c)
  BY <1>1, <1>2, <1>3 DEF ParentComesLater
<1>6. ASSUME NEW c PROVE HasNoStatics(c)' <=> HasNoStatics(c)
  BY <1>4 DEF HasNoStatics
<1>. QED
  BY <1>5, <1>6

\* The last instruction was a reference to a class variable, and found its own.
LEMMA ResolvedSays ==
  ASSUME tab' = tab, code' = code, im' = im
  PROVE  StaticsResolve' <=> (last' # Null => ResolvedTo(last'.i, last'.c, last'.out))
<1>1. PICK l : l = last'
  OBVIOUS
<1>2. PICK i : i = l.i
  OBVIOUS
<1>3. PICK c : c = l.c
  OBVIOUS
<1>4. PICK name : name = NameOf(c)
  OBVIOUS
<1>5. /\ \A id, q : NearestIn(WithStatic(id), q)' = NearestIn(WithStatic(id), q)
      /\ \A id : WithConstant(id)' = WithConstant(id)
  BY SameTab DEF NearestIn
<1>6. ParentComesLater(name)' <=> ParentComesLater(name)
  BY SameRules
<1>7. HasNoStatics(name)' <=> HasNoStatics(name)
  BY SameRules
<1>8. \A q : Redirected(q)' <=> Redirected(q)
  BY DEF Redirected
<1>. QED
  BY <1>1, <1>2, <1>3, <1>4, <1>5, <1>6, <1>7, <1>8
     DEF StaticsResolve, ResolvedTo, Executed, Ins, NameOf
LEMMA SameResolves ==
  ASSUME StaticsResolve, UNCHANGED <<compiled, im, last>>
  PROVE  StaticsResolve'
<1>1. tab' = tab /\ code' = code /\ im' = im /\ last' = last
  BY DEF compiled
<1>2. last # Null => ResolvedTo(last.i, last.c, last.out)
  BY DEF StaticsResolve, ResolvedTo, Executed, Ins
<1>. QED
  BY <1>1, <1>2, ResolvedSays

LEMMA FoundResolves ==
  ASSUME NEW i, NEW c, NEW static, NEW out, Found(i, c, static, out), ResolvedTo(i, c, out)
  PROVE  StaticsResolve'
<1>1. tab' = tab /\ code' = code /\ im' = im /\ last'.i = i /\ last'.c = c /\ last'.out = out
  BY DEF Found, compiled
<1>. QED
  BY <1>1, ResolvedSays

StaticOps == {"LVBI_CV", "LABI_CV", "LVBI_CVE", "LABI_CVE", "LVBS_CVE", "LABS_CVE"}

LEMMA OthersResolve ==
  ASSUME NEW i \in DOMAIN code, code[i].op \notin StaticOps, code' = code, last'.i = i
  PROVE  StaticsResolve'
BY DEF StaticsResolve, Executed, StaticOps

\* A receiver in the method of an instruction.
LEMMA ThisIs ==
  ASSUME DispatchInv, status = "run", NEW i \in DOMAIN code, NEW th \in This(i)
  PROVE  th.c \in ClassIds /\ code[i].in \in LineageAt(th.c) /\ code[i].in \in Declared
<1>0. Listed /\ Linked /\ Compiled(code[i])
  BY DEF DispatchInv, Started
<1>1. th \in Receivers /\ vm_find_class(im.classes, code[i].in) \in Line(th.c)
  BY DEF This
<1>2. th.c \in ClassIds
  BY <1>0, <1>1, ReceiverClass
<1>3. code[i].in \in Declared /\ code[i].in \in AllNames
  BY <1>0 DEF Compiled, AllNames
<1>4. NameOf(vm_find_class(im.classes, code[i].in)) = code[i].in
  BY <1>0, <1>3, ClassOfName
<1>. QED
  BY <1>0, <1>1, <1>2, <1>3, <1>4, LineIs

LEMMA ExecuteResolves ==
  ASSUME DispatchInv, Addressed, StaticsResolve, NEW i \in DOMAIN code, Meant(code[i]), Execute(i)
  PROVE  StaticsResolve'
<1>0. status = "run" /\ Listed /\ Linked /\ Compiled(code[i])
  <2>1. status = "run"
    BY DEF Execute, StaticOfThis, StaticOfClass, StaticByName, InstanceOfThis, InstanceByName,
           CALL, CALLS, CALLE, NewObject, At
  <2>. QED
    BY <2>1 DEF DispatchInv, Started
<1>s. ASSUME NEW why, Stop(why) PROVE StaticsResolve'
  BY <1>s, SameResolves DEF Stop, compiled
<1>n. NoClass(i) => StaticsResolve'
  BY <1>s DEF NoClass
<1>c. ASSUME NEW c, NEW static, Call(i, c, static), code[i].op \notin StaticOps PROVE StaticsResolve'
  <2>1. code' = code /\ last'.i = i
    BY <1>c DEF Call, compiled
  <2>. QED
    BY <1>c, <2>1, OthersResolve
<1>f. ASSUME NEW c, NEW static, NEW out, Found(i, c, static, out), code[i].op \notin StaticOps
      PROVE  StaticsResolve'
  <2>1. code' = code /\ last'.i = i
    BY <1>f DEF Found, compiled
  <2>. QED
    BY <1>f, <2>1, OthersResolve
<1>1. CASE StaticOfThis(i)
  <2>0. code[i].op \in AddressOps /\ code[i].qual = NoParent
    BY <1>0, <1>1 DEF StaticOfThis, At, AddressOps, Compiled
  <2>1. PICK th \in This(i) : \E s \in SYM_STATIC(im, th.c, code[i].addr) :
           Found(i, th.c, th.isClass, Assignable(i, s))
    BY <1>1 DEF StaticOfThis
  <2>2. PICK s \in SYM_STATIC(im, th.c, code[i].addr) : Found(i, th.c, th.isClass, Assignable(i, s))
    BY <2>1
  <2>3. PICK c : c = th.c
    OBVIOUS
  <2>4. c \in ClassIds /\ Base(code[i]) \in LineageAt(c) /\ Base(code[i]) \in Declared
    BY <1>0, <2>0, <2>1, <2>3, ThisIs DEF Base
  <2>5. s \in SYM_STATIC(im, c, code[i].addr)
    BY <2>2, <2>3
  <2>6. ResolvedTo(i, c, Assignable(i, s))
    BY <1>0, <2>0, <2>4, <2>5, AddressResolves
  <2>. QED
    BY <2>2, <2>3, <2>6, FoundResolves
<1>2. CASE StaticOfClass(i)
  <2>0. code[i].op \in AddressOps /\ code[i].qual # NoParent /\ code[i].pushed = "class"
    BY <1>0, <1>2 DEF StaticOfClass, At, AddressOps, Compiled
  <2>1. CASE NoClass(i)
    BY <1>n, <2>1
  <2>2. CASE Qualifier(i) # 0 /\ \E s \in SYM_STATIC(im, Qualifier(i), code[i].addr) :
               Found(i, Qualifier(i), TRUE, Assignable(i, s))
    <3>1. PICK s \in SYM_STATIC(im, Qualifier(i), code[i].addr) :
             Found(i, Qualifier(i), TRUE, Assignable(i, s))
      BY <2>2
    <3>2. PICK c : c = Qualifier(i)
      OBVIOUS
    <3>3. c \in ClassIds /\ (NameOf(c) = code[i].qual \/ Redirected(code[i].qual))
      BY <1>0, <2>0, <2>2, <3>2, QualifierIs
    <3>4. ResolvedTo(i, c, Assignable(i, s))
      <4>1. s \in SYM_STATIC(im, c, code[i].addr)
        BY <3>1, <3>2
      <4>2. Base(code[i]) = code[i].qual
        BY <2>0 DEF Base
      <4>. QED
        BY <1>0, <2>0, <3>3, <4>1, <4>2, AddressResolves
    <3>. QED
      BY <3>1, <3>2, <3>4, FoundResolves
  <2>. QED
    BY <1>2, <2>1, <2>2 DEF StaticOfClass
<1>3. CASE StaticByName(i)
  <2>0. code[i].op \in {"LVBS_CVE", "LABS_CVE"}
    BY <1>3 DEF StaticByName, At
  <2>1. CASE NoClass(i)
    BY <1>n, <2>1
  <2>2. CASE Qualifier(i) # 0 /\ Found(i, Qualifier(i), TRUE,
                 Assignable(i, vm_find_static_sym_in_class(im, Qualifier(i), code[i].id)))
    BY <1>0, <2>0, <2>2, NameResolves, FoundResolves
  <2>. QED
    BY <1>3, <2>1, <2>2 DEF StaticByName
<1>4. CASE InstanceOfThis(i)
  <2>1. PICK th \in This(i) :
          IF th.isClass THEN Stop("aborted")
          ELSE Found(i, th.c, FALSE, INST_VAR(im, th.c, code[i].addr))
    BY <1>4 DEF InstanceOfThis
  <2>2. code[i].op \notin StaticOps
    BY <1>4 DEF InstanceOfThis, At, StaticOps
  <2>. QED
    BY <1>f, <1>s, <2>1, <2>2
<1>5. CASE InstanceByName(i)
  <2>1. PICK r \in Receivers :
          IF r.isClass THEN Stop("aborted")
          ELSE LET s == vm_find_instance_sym_in_class(im, r.c, code[i].id) IN
               Found(i, r.c, FALSE, IF s = Null THEN Null ELSE INST_VAR(im, r.c, s.addr))
    BY <1>5 DEF InstanceByName
  <2>2. code[i].op \notin StaticOps
    BY <1>5 DEF InstanceByName, At, StaticOps
  <2>. QED
    BY <1>f, <1>s, <2>1, <2>2
<1>6. CASE CALL(i) \/ CALLS(i)
  BY <1>6, <1>c DEF CALL, CALLS, At, StaticOps
<1>7. CASE CALLE(i)
  <2>1. code[i].op \notin StaticOps
    BY <1>7 DEF CALLE, At, StaticOps
  <2>. QED
    BY <1>7, <1>c, <1>n, <1>s, <2>1 DEF CALLE
<1>8. CASE NewObject(i)
  <2>1. code[i].op \notin StaticOps
    BY <1>8 DEF NewObject, At, StaticOps
  <2>. QED
    BY <1>8, <1>f, <1>s, <2>1 DEF NewObject
<1>. QED
  BY <1>1, <1>2, <1>3, <1>4, <1>5, <1>6, <1>7, <1>8 DEF Execute

LEMMA ResolvesStep ==
  ASSUME DispatchInv, Addressed, \A i \in DOMAIN code : Meant(code[i]), StaticsResolve, [Next]_vars
  PROVE  StaticsResolve'
<1>1. CASE UNCHANGED vars
  BY <1>1, SameResolves DEF vars, compiled
<1>2. ASSUME NEW i \in DOMAIN code, Execute(i) PROVE StaticsResolve'
  BY <1>2, ExecuteResolves
<1>3. CASE status \in {"parse", "written"} /\ last' = last
  <2>1. last = Null
    BY <1>3 DEF DispatchInv, Started
  <2>. QED
    BY <1>3, <2>1 DEF StaticsResolve, Executed
<1>4. ASSUME NEW r, Reference(r) PROVE status \in {"parse", "written"} /\ last' = last
  <2>1. PICK e, context : status = "parse" /\ Compiles(e, context)
    BY <1>4 DEF Reference
  <2>. QED
    BY <2>1 DEF Compiles, Stop, Emitted, vars
<1>5. ASSUME Next, ~ \E i \in DOMAIN code : Execute(i)
      PROVE  status \in {"parse", "written"} /\ last' = last
  <2>1. \A par : Trida(par) => status \in {"parse", "written"} /\ last' = last
    BY DEF Trida
  <2>2. \A name : TridaAgain(name) => status \in {"parse", "written"} /\ last' = last
    BY DEF TridaAgain, Stop
  <2>3. \A v : Member(v) => status \in {"parse", "written"} /\ last' = last
    BY DEF Member, Stop
  <2>4. \A me : Metoda(me) => status \in {"parse", "written"} /\ last' = last
    BY DEF Metoda, Stop
  <2>5. Write \/ Start => status \in {"parse", "written"} /\ last' = last
    BY DEF Write, Start, Stop
  <2>. QED
    BY <1>4, <1>5, <2>1, <2>2, <2>3, <2>4, <2>5 DEF Next
<1>. QED
  BY <1>1, <1>2, <1>3, <1>5

-----------------------------------------------------------------------------
(* What the parser finds.                                                  *)

\* A class whose parent is known comes before it in the table.
LEMMA ParentsRank ==
  ASSUME Listed
  PROVE  /\ DOMAIN Parents(tab) = Declared
         /\ \A i \in Own : Parents(tab)[tab[i].className] = tab[i].parent
         /\ \E rank : /\ Ranked(Declared, Parents(tab), rank)
                      /\ \A d \in Declared : rank[d] < Len(tab) + 1
<1>. DEFINE place(d) == CHOOSE i \in Own : tab[i].className = d
            rank == [d \in Declared |-> Len(tab) - place(d)]
<1>1. DOMAIN Parents(tab) = Declared /\ \A d \in Declared : Parents(tab)[d] = hledejClass(tab, d).parent
  BY DEF Parents, Declared
<1>2. \A i \in Own : /\ Parents(tab)[tab[i].className] = tab[i].parent /\ tab[i].className \in Declared
                     /\ place(tab[i].className) = i
  BY <1>1, TabFacts
<1>3. Len(tab) \in Nat /\ Own = 1 .. Len(tab) /\ Declared = {tab[i].className : i \in Own}
  BY TabFacts DEF Own
<1>. HIDE DEF place
<1>4. \A d \in Declared : place(d) \in Own /\ tab[place(d)].className = d
  BY <1>2, <1>3
<1>5. rank \in [Declared -> Nat] /\ \A d \in Declared : rank[d] < Len(tab) + 1
  <2>1. \A d \in Declared : Len(tab) - place(d) \in Nat /\ Len(tab) - place(d) < Len(tab) + 1
    BY <1>3, <1>4
  <2>. QED
    BY <2>1
<1>6. ASSUME NEW d \in Declared, Parents(tab)[d] \in Declared PROVE rank[Parents(tab)[d]] < rank[d]
  <2>1. PICK i \in Own : tab[i].className = d /\ place(d) = i
    BY <1>4
  <2>2. Parents(tab)[d] = tab[i].parent
    BY <1>2, <2>1
  <2>3. tab[i].parent \notin {NoParent, CLASS_UNKNOWN}
    BY <1>6, <2>2, TabFacts, NamesAssumption
  <2>4. PICK j \in i + 1 .. Len(tab) : tab[j].className = tab[i].parent
    BY <2>3, TabFacts DEF Listed
  <2>5. j \in Own /\ i < j
    BY <1>3, <2>1, <2>4
  <2>6. place(tab[i].parent) = j
    BY <1>2, <2>4, <2>5
  <2>7. Len(tab) - j < Len(tab) - i
    BY <1>3, <2>1, <2>5
  <2>. QED
    BY <1>6, <2>1, <2>2, <2>6, <2>7
<1>. HIDE DEF rank
<1>7. Ranked(Declared, Parents(tab), rank)
  BY <1>5, <1>6 DEF Ranked
<1>. QED
  BY <1>1, <1>2, <1>5, <1>7

\* What a class has itself under a name.
OwnPrvek(id, d) == FirstIn(hledejClass(tab, d).syms, LAMBDA p : p.ident = id)
OwnDeclares(id, d) == IF \E p \in Range(hledejClass(tab, d).syms) : p.ident = id THEN d ELSE Null

\* The step of a search of the parser.
Upward(own, above, d) ==
  IF own # Null \/ Parents(tab)[d] \notin Declared THEN own ELSE above

LEMMA MemberUp ==
  ASSUME Listed, NEW id
  PROVE  \A d \in Declared :
           hledejMember(tab, id, d) = Upward(OwnPrvek(id, d), hledejMember(tab, id, Parents(tab)[d]), d)
<1>. DEFINE own == [d \in Declared |-> OwnPrvek(id, d)]
            up == Parents(tab)
<1>1. PICK rank : Ranked(DOMAIN up, up, rank) /\ \A d \in DOMAIN up : rank[d] < Len(tab) + 1
  BY ParentsRank
<1>2. DOMAIN up = Declared /\ Len(tab) + 1 \in Nat
  BY ParentsRank, TabFacts
<1>3. \E f : Climbs(f, up, own)
  <2>. HIDE DEF own, up
  <2>. QED
    BY <1>1, <1>2, ClimbAny
<1>4. \E f : f = [d \in DOMAIN up |->
                    IF OwnPrvek(id, d) # Null \/ up[d] \notin DOMAIN up THEN OwnPrvek(id, d) ELSE f[up[d]]]
  <2>1. PICK f : Climbs(f, up, own)
    BY <1>3
  <2>2. \A d \in DOMAIN up : own[d] = OwnPrvek(id, d)
    BY <1>2
  <2>. HIDE DEF own, up
  <2>. QED
    BY <2>1, <2>2 DEF Climbs
<1>5. PICK f : /\ f = [d \in DOMAIN up |->
                    IF OwnPrvek(id, d) # Null \/ up[d] \notin DOMAIN up THEN OwnPrvek(id, d) ELSE f[up[d]]]
               /\ \A c : hledejMember(tab, id, c) = f[c]
  BY <1>4 DEF hledejMember, Nearest, OwnPrvek
<1>. QED
  BY <1>2, <1>5 DEF Upward

LEMMA DeclarerUp ==
  ASSUME Listed, NEW id
  PROVE  \A d \in Declared :
           Declarer(tab, id, d) = Upward(OwnDeclares(id, d), Declarer(tab, id, Parents(tab)[d]), d)
<1>. DEFINE own == [d \in Declared |-> OwnDeclares(id, d)]
            up == Parents(tab)
<1>1. PICK rank : Ranked(DOMAIN up, up, rank) /\ \A d \in DOMAIN up : rank[d] < Len(tab) + 1
  BY ParentsRank
<1>2. DOMAIN up = Declared /\ Len(tab) + 1 \in Nat
  BY ParentsRank, TabFacts
<1>3. \E f : Climbs(f, up, own)
  <2>. HIDE DEF own, up
  <2>. QED
    BY <1>1, <1>2, ClimbAny
<1>4. \E f : f = [d \in DOMAIN up |->
                    IF OwnDeclares(id, d) # Null \/ up[d] \notin DOMAIN up THEN OwnDeclares(id, d) ELSE f[up[d]]]
  <2>1. PICK f : Climbs(f, up, own)
    BY <1>3
  <2>2. \A d \in DOMAIN up : own[d] = OwnDeclares(id, d)
    BY <1>2
  <2>. HIDE DEF own, up
  <2>. QED
    BY <2>1, <2>2 DEF Climbs
<1>5. PICK f : /\ f = [d \in DOMAIN up |->
                    IF OwnDeclares(id, d) # Null \/ up[d] \notin DOMAIN up THEN OwnDeclares(id, d) ELSE f[up[d]]]
               /\ \A c : Declarer(tab, id, c) = f[c]
  BY <1>4 DEF Declarer, Nearest, OwnDeclares
<1>. QED
  BY <1>2, <1>5 DEF Upward

LEMMA OwnPrvekIs ==
  ASSUME Listed, NEW i \in Own, NEW id
  PROVE  LET p == OwnPrvek(id, tab[i].className) IN
         \/ p = Null /\ OwnDeclares(id, tab[i].className) = Null
         \/ /\ p # Null /\ OwnDeclares(id, tab[i].className) = tab[i].className
            /\ p \in Range(tab[i].syms) /\ p.ident = id
<1>. DEFINE list == tab[i].syms
            I == {k \in 1 .. Len(list) : list[k].ident = id}
            p == OwnPrvek(id, tab[i].className)
<1>1. hledejClass(tab, tab[i].className) = tab[i] /\ list \in Seq(PrvekTabs) /\ tab[i].className \in Range(Names)
  <2>1. tab[i] \in ClassEnvs
    BY TabFacts
  <2>. QED
    BY <2>1, TabFacts DEF ClassEnvs
<1>2. tab[i].className # Null
  BY <1>1, NullAssumption DEF ClassNames
<1>3. p = FirstIn(list, LAMBDA q : q.ident = id)
  BY <1>1 DEF OwnPrvek
<1>4. OwnDeclares(id, tab[i].className) =
        IF \E q \in Range(list) : q.ident = id THEN tab[i].className ELSE Null
  BY <1>1 DEF OwnDeclares
<1>. HIDE DEF list
<1>5. DOMAIN list = 1 .. Len(list) /\ Len(list) \in Nat /\ \A k \in DOMAIN list : list[k] \in PrvekTabs
  BY <1>1
<1>6. CASE I = {}
  <2>1. p = Null
    BY <1>3, <1>6 DEF FirstIn, SelectInSeq
  <2>2. ~ \E q \in Range(list) : q.ident = id
    BY <1>5, <1>6 DEF Range
  <2>. QED
    BY <1>4, <2>1, <2>2
<1>7. CASE I # {}
  <2>1. I \in SUBSET Nat
    OBVIOUS
  <2>2. Min(I) \in I /\ Min(I) # 0
    BY <1>7, <2>1, MinIn
  <2>3. p = list[Min(I)]
    BY <1>3, <1>7, <2>2 DEF FirstIn, SelectInSeq
  <2>4. p \in Range(list) /\ p.ident = id /\ p \in PrvekTabs
    BY <1>5, <2>2, <2>3 DEF Range
  <2>5. p # Null
    BY <2>4, NullAssumption
  <2>6. OwnDeclares(id, tab[i].className) = tab[i].className
    BY <1>4, <2>4
  <2>. QED
    BY <2>4, <2>5, <2>6 DEF list
<1>. QED
  BY <1>6, <1>7

LEMMA KnownUp ==
  /\ \A c : KnownAncestor(c, c)
  /\ \A i \in DOMAIN tab : \A d :
       tab[i].parent \notin {NoParent, CLASS_UNKNOWN} /\ KnownAncestor(d, tab[i].parent)
         => KnownAncestor(d, tab[i].className)
BY DEF KnownAncestor, Closed

\* The declaration a search has found.
Declares(id, c) ==
  \E m \in Own : /\ Declarer(tab, id, c) = tab[m].className
                 /\ hledejMember(tab, id, c) \in Range(tab[m].syms)
                 /\ hledejMember(tab, id, c).ident = id
                 /\ KnownAncestor(tab[m].className, c)

(* The member a search finds is one of the class it says, an ancestor that *)
(* is known.                                                               *)
LEMMA MemberDeclared ==
  ASSUME Listed, NEW id
  PROVE  \A c \in Declared : hledejMember(tab, id, c) = Null \/ Declares(id, c)
<1>. DEFINE T == {c \in Declared : hledejMember(tab, id, c) = Null \/ Declares(id, c)}
            up == Parents(tab)
<1>1. PICK rank : Ranked(Declared, up, rank)
  BY ParentsRank
<1>2. ASSUME NEW d \in Declared, up[d] \in Declared => up[d] \in T PROVE d \in T
  <2>1. PICK i \in Own : tab[i].className = d
    BY TabFacts
  <2>2. up[d] = tab[i].parent
    BY <2>1, ParentsRank
  <2>3. /\ hledejMember(tab, id, d) = Upward(OwnPrvek(id, d), hledejMember(tab, id, up[d]), d)
        /\ Declarer(tab, id, d) = Upward(OwnDeclares(id, d), Declarer(tab, id, up[d]), d)
    BY MemberUp, DeclarerUp
  <2>4. CASE OwnPrvek(id, d) # Null
    <3>1. /\ OwnDeclares(id, d) = d /\ OwnDeclares(id, d) # Null
          /\ OwnPrvek(id, d) \in Range(tab[i].syms) /\ OwnPrvek(id, d).ident = id
      <4>1. OwnDeclares(id, d) = d /\ OwnPrvek(id, d) \in Range(tab[i].syms) /\ OwnPrvek(id, d).ident = id
        BY <2>1, <2>4, OwnPrvekIs
      <4>2. d \in Range(Names)
        BY TabFacts
      <4>. QED
        BY <4>1, <4>2, NullAssumption DEF ClassNames
    <3>2. hledejMember(tab, id, d) = OwnPrvek(id, d) /\ Declarer(tab, id, d) = d
      BY <2>3, <2>4, <3>1 DEF Upward
    <3>3. Declares(id, d)
      BY <2>1, <3>1, <3>2, KnownUp DEF Declares
    <3>. QED
      BY <3>3
  <2>5. CASE OwnPrvek(id, d) = Null /\ up[d] \in Declared
    <3>1. OwnDeclares(id, d) = Null
      BY <2>1, <2>5, OwnPrvekIs
    <3>2. hledejMember(tab, id, d) = hledejMember(tab, id, up[d]) /\ Declarer(tab, id, d) = Declarer(tab, id, up[d])
      BY <2>3, <2>5, <3>1 DEF Upward
    <3>3. hledejMember(tab, id, up[d]) = Null \/ Declares(id, up[d])
      BY <1>2, <2>5
    <3>4. up[d] \notin {NoParent, CLASS_UNKNOWN} /\ i \in DOMAIN tab
      BY <2>5, TabFacts, NamesAssumption
    <3>5. \A x : KnownAncestor(x, up[d]) => KnownAncestor(x, d)
      BY <2>1, <2>2, <3>4, KnownUp
    <3>6. Declares(id, up[d]) => Declares(id, d)
      BY <3>2, <3>5 DEF Declares
    <3>. QED
      BY <3>2, <3>3, <3>6
  <2>6. CASE OwnPrvek(id, d) = Null /\ up[d] \notin Declared
    BY <2>3, <2>6 DEF Upward
  <2>. QED
    BY <2>4, <2>5, <2>6
<1>. HIDE DEF T, up
<1>3. Declared \subseteq T
  BY <1>1, <1>2, DownTheHierarchy
<1>. QED
  BY <1>3 DEF T

\* The instruction a reference becomes has the address of a class variable it can reach.
MeansIts(e) ==
  e.op \in AddressOps =>
    \E m \in DOMAIN tab : \E p \in Range(OfScope(tab[m].syms, "SC_CLASS")) :
      /\ e.meant = tab[m].className /\ p.ident = e.id /\ p.addr = e.addr /\ p.druh = "IdProm"
      /\ KnownAncestor(e.meant, IF e.qual = NoParent THEN tab[1].className ELSE e.qual)

\* e is about the class variable that a search from c finds under its name.
IsAbout(e, c) ==
  /\ e.meant = Declarer(tab, e.id, c) /\ e.addr = hledejMember(tab, e.id, c).addr
  /\ c = IF e.qual = NoParent THEN tab[1].className ELSE e.qual

LEMMA MemberMeans ==
  ASSUME Listed, NEW e, NEW c \in Declared, IsAbout(e, c),
         hledejMember(tab, e.id, c) # Null,
         hledejMember(tab, e.id, c).sc = "SC_CLASS", hledejMember(tab, e.id, c).druh # "IdConst"
  PROVE  MeansIts(e)
<1>1. PICK p : p = hledejMember(tab, e.id, c)
  OBVIOUS
<1>2. PICK id : id = e.id
  OBVIOUS
<1>3. Declares(id, c)
  BY <1>2, MemberDeclared
<1>4. PICK m \in Own : /\ Declarer(tab, id, c) = tab[m].className /\ p \in Range(tab[m].syms)
                       /\ p.ident = id /\ KnownAncestor(tab[m].className, c)
  BY <1>1, <1>2, <1>3 DEF Declares
<1>5. tab[m].syms \in Seq(PrvekTabs) /\ m \in DOMAIN tab
  <2>1. tab[m] \in ClassEnvs /\ m \in DOMAIN tab
    BY TabFacts
  <2>. QED
    BY <2>1 DEF ClassEnvs
<1>6. p \in Range(OfScope(tab[m].syms, "SC_CLASS"))
  <2>1. Range(OfScope(tab[m].syms, "SC_CLASS")) = {q \in Range(tab[m].syms) : q.sc = "SC_CLASS"}
    BY <1>5, OfScopeRange
  <2>. QED
    BY <1>1, <1>4, <2>1
<1>7. p \in PrvekTabs
  <2>1. PICK s : s = tab[m].syms
    OBVIOUS
  <2>. QED
    BY <1>4, <1>5, <2>1 DEF Range
<1>8. p.druh = "IdProm"
  BY <1>1, <1>7 DEF PrvekTabs
<1>. QED
  BY <1>1, <1>2, <1>4, <1>5, <1>6, <1>8 DEF MeansIts, IsAbout

\* e calls something or makes an object.
MakesCall(e, op, id, cls, par) ==
  /\ op \in {"CALL", "CALLE", "CALLS", "NEW"}
  /\ \/ e = Emits(op, id) \/ e = OfClass(Emits(op, id), cls)
     \/ e = [Emits(op, id) EXCEPT !.pushed = "object"]
     \/ e = [Emits(op, id) EXCEPT !.parName = par]

LEMMA ResolveMeans ==
  ASSUME DispatchInv, tab # <<>>, NEW r \in program.refs, NEW static \in BOOLEAN,
         NEW e \in Resolve(tab, r, static), e.ends = "emits"
  PROVE  MeansIts(e)
<1>0. /\ r.lvalue \in BOOLEAN /\ r.k \in RefKinds
      /\ r.k \in {"class", "ccall"} => r.cls # NoParent
      /\ Listed
  BY RefWords DEF DispatchInv
<1>1. CASE r.k = "name"
  <2>1. e = Name(tab, r.id, static, r.lvalue)
    BY <1>1 DEF Resolve
  <2>2. PICK c : c = tab[1].className
    OBVIOUS
  <2>3. PICK p : p = hledejMember(tab, r.id, c)
    OBVIOUS
  <2>4. PICK m : m = Declarer(tab, r.id, c)
    OBVIOUS
  <2>5. PICK op : op = IF p.sc = "SC_CLASS" THEN Access("LVBI_CV", "LABI_CV", r.lvalue)
                       ELSE Access("LVBI_IV", "LABI_IV", r.lvalue)
    OBVIOUS
  <2>6. /\ e = [Emits(op, r.id) EXCEPT !.addr = p.addr, !.meant = m]
        /\ p # Null /\ p.druh # "IdConst"
    BY <2>1, <2>2, <2>3, <2>4, <2>5, Ends DEF Name
  <2>7. CASE p.sc = "SC_CLASS"
    <3>1. IsAbout(e, c) /\ e.id = r.id
      <4>1. PICK id, addr : id = r.id /\ addr = p.addr
        OBVIOUS
      <4>2. e = [Emits(op, id) EXCEPT !.addr = addr, !.meant = m]
        BY <2>6, <4>1
      <4>3. e.id = id /\ e.addr = addr /\ e.meant = m /\ e.qual = NoParent
        BY <4>2 DEF Emits
      <4>. QED
        BY <2>2, <2>3, <2>4, <4>1, <4>3 DEF IsAbout
    <3>2. c \in Declared
      <4>1. 1 \in Own
        BY <1>0 DEF Listed, Own
      <4>. QED
        BY <1>0, <2>2, <4>1, TabFacts
    <3>. QED
      BY <1>0, <2>3, <2>6, <2>7, <3>1, <3>2, MemberMeans
  <2>8. CASE p.sc # "SC_CLASS"
    <3>1. op \notin AddressOps
      BY <2>5, <2>8 DEF Access, AddressOps
    <3>2. PICK id, addr : id = r.id /\ addr = p.addr
      OBVIOUS
    <3>3. e.op \notin AddressOps
      BY <2>6, <3>1, <3>2 DEF Emits
    <3>. QED
      BY <3>3 DEF MeansIts
  <2>. QED
    BY <2>7, <2>8
<1>2. CASE r.k = "class"
  <2>1. e = ClassMember(tab, r.cls, r.id, r.lvalue)
    BY <1>2 DEF Resolve
  <2>2. PICK c : c = r.cls
    OBVIOUS
  <2>3. PICK p : p = hledejMember(tab, r.id, c)
    OBVIOUS
  <2>4. PICK m : m = Declarer(tab, r.id, c)
    OBVIOUS
  <2>5. PICK op1 : op1 = Access("LVBS_CVE", "LABS_CVE", r.lvalue)
    OBVIOUS
  <2>6. PICK op2 : op2 = Access("LVBI_CVE", "LABI_CVE", r.lvalue)
    OBVIOUS
  <2>7. \/ hledejClass(tab, c) = Null /\ e = OfClass(Emits(op1, r.id), c)
        \/ /\ hledejClass(tab, c) # Null
           /\ e = [OfClass(Emits(op2, r.id), c) EXCEPT !.addr = p.addr, !.meant = m]
           /\ p # Null /\ p.sc = "SC_CLASS" /\ p.druh # "IdConst"
    BY <2>1, <2>2, <2>3, <2>4, <2>5, <2>6, Ends DEF ClassMember
  <2>8. CASE hledejClass(tab, c) = Null
    <3>1. op1 \notin AddressOps
      BY <2>5 DEF Access, AddressOps
    <3>2. PICK id : id = r.id
      OBVIOUS
    <3>3. e.op \notin AddressOps
      BY <2>7, <2>8, <3>1, <3>2 DEF Emits, OfClass
    <3>. QED
      BY <3>3 DEF MeansIts
  <2>9. CASE hledejClass(tab, c) # Null
    <3>1. c \in Declared
      BY <1>0, <2>9, HledejClass
    <3>2. IsAbout(e, c) /\ e.id = r.id
      <4>1. PICK id, addr : id = r.id /\ addr = p.addr
        OBVIOUS
      <4>2. e = [OfClass(Emits(op2, id), c) EXCEPT !.addr = addr, !.meant = m]
        BY <2>7, <2>9, <4>1
      <4>3. e.id = id /\ e.addr = addr /\ e.meant = m /\ e.qual = c
        BY <4>2 DEF Emits, OfClass
      <4>4. c # NoParent
        BY <1>0, <1>2, <2>2
      <4>. QED
        BY <2>3, <2>4, <4>1, <4>3, <4>4 DEF IsAbout
    <3>. QED
      BY <1>0, <2>3, <2>7, <2>9, <3>1, <3>2, MemberMeans
  <2>. QED
    BY <2>8, <2>9
<1>3. CASE r.k = "obj"
  <2>1. PICK op, id : op = Access("LVBS_IVE", "LABS_IVE", r.lvalue) /\ id = r.id
    OBVIOUS
  <2>2. e = [Emits(op, id) EXCEPT !.pushed = "object"]
    BY <1>3, <2>1 DEF Resolve
  <2>3. e.op \notin AddressOps
    BY <2>1, <2>2 DEF Access, AddressOps, Emits
  <2>. QED
    BY <2>3 DEF MeansIts
<1>4. ASSUME NEW op, NEW id, NEW cls, NEW par, MakesCall(e, op, id, cls, par) PROVE MeansIts(e)
  <2>1. /\ op \in {"CALL", "CALLE", "CALLS", "NEW"}
        /\ \/ e = Emits(op, id) \/ e = OfClass(Emits(op, id), cls)
           \/ e = [Emits(op, id) EXCEPT !.pushed = "object"]
           \/ e = [Emits(op, id) EXCEPT !.parName = par]
    BY <1>4 DEF MakesCall
  <2>2. Emits(op, id).op = op /\ OfClass(Emits(op, id), cls).op = op
    BY DEF Emits, OfClass
  <2>3. [Emits(op, id) EXCEPT !.pushed = "object"].op = op
    BY DEF Emits
  <2>4. [Emits(op, id) EXCEPT !.parName = par].op = op
    BY DEF Emits
  <2>5. e.op \notin AddressOps
    <3>1. e.op = op
      BY <2>1, <2>2, <2>3, <2>4
    <3>. QED
      BY <2>1, <3>1 DEF AddressOps
  <2>. QED
    BY <2>5 DEF MeansIts
<1>5. CASE r.k = "call"
  <2>1. e \in Either(r.id) \/ e = Rejected \/ e = Emits("CALL", r.id)
    BY <1>5 DEF Resolve, OwnCall
  <2>. QED
    BY <1>4, <2>1, Ends DEF Either, MakesCall
<1>6. CASE r.k = "ccall"
  <2>1. \/ e = Rejected \/ e = OfClass(Emits("CALLE", r.id), r.cls)
        \/ e \in {OfClass(x, r.cls) : x \in Either(r.id)}
    BY <1>6 DEF Resolve, ClassCall
  <2>. QED
    BY <1>4, <2>1, Ends DEF Either, MakesCall
<1>7. CASE r.k = "ocall"
  BY <1>4, <1>7 DEF Resolve, MakesCall
<1>8. CASE r.k = "super"
  <2>1. e = SuperCall(tab, r.id, static)
    BY <1>8 DEF Resolve
  <2>2. PICK par : par = tab[1].parent
    OBVIOUS
  <2>3. PICK id : id = r.id
    OBVIOUS
  <2>4. e = [Emits("CALLS", id) EXCEPT !.parName = par]
    BY <2>1, <2>2, <2>3, Ends DEF SuperCall
  <2>. QED
    BY <1>4, <2>4 DEF MakesCall
<1>9. CASE r.k = "scons"
  <2>1. e = SuperConstructor(tab)
    BY <1>9 DEF Resolve
  <2>2. e = Emits("CALL", tab[1].parentName)
    BY <2>1, Ends DEF SuperConstructor
  <2>. QED
    BY <1>4, <2>2 DEF MakesCall
<1>10. CASE r.k = "new"
  BY <1>4, <1>10 DEF Resolve, MakesCall
<1>. QED
  BY <1>0, <1>1, <1>2, <1>3, <1>5, <1>6, <1>7, <1>8, <1>9, <1>10 DEF RefKinds

\* Every class of t is one of u, with the same parent and at least its class variables.
TabGrows(t, u) ==
  \A i \in DOMAIN t : \E j \in DOMAIN u :
    /\ u[j].className = t[i].className /\ u[j].parent = t[i].parent
    /\ Range(OfScope(t[i].syms, "SC_CLASS")) \subseteq Range(OfScope(u[j].syms, "SC_CLASS"))

LEMMA AncestorsStay ==
  ASSUME TabGrows(tab, tab'), NEW d, NEW c, KnownAncestor(d, c)
  PROVE  KnownAncestor(d, c)'
<1>1. ASSUME NEW S \in SUBSET Range(Names), Closed(S)' PROVE Closed(S)
  BY <1>1 DEF Closed, TabGrows
<1>. QED
  BY <1>1 DEF KnownAncestor

LEMMA MeantStays ==
  ASSUME TabGrows(tab, tab'), NEW e, Meant(e)
  PROVE  Meant(e)'
<1>1. SUFFICES ASSUME e.op \in AddressOps
               PROVE  \E j \in DOMAIN tab' : \E p \in Range(OfScope(tab'[j].syms, "SC_CLASS")) :
                        /\ e.meant = tab'[j].className /\ p.ident = e.id /\ p.addr = e.addr
                        /\ p.druh = "IdProm"
                        /\ KnownAncestor(e.meant, IF e.qual = NoParent THEN e.in ELSE e.qual)'
  BY DEF Meant, AddressOps
<1>2. PICK i \in DOMAIN tab : \E p \in Range(OfScope(tab[i].syms, "SC_CLASS")) :
        /\ e.meant = tab[i].className /\ p.ident = e.id /\ p.addr = e.addr /\ p.druh = "IdProm"
        /\ KnownAncestor(e.meant, IF e.qual = NoParent THEN e.in ELSE e.qual)
  BY <1>1 DEF Meant, AddressOps
<1>3. PICK p \in Range(OfScope(tab[i].syms, "SC_CLASS")) :
        /\ e.meant = tab[i].className /\ p.ident = e.id /\ p.addr = e.addr /\ p.druh = "IdProm"
        /\ KnownAncestor(e.meant, IF e.qual = NoParent THEN e.in ELSE e.qual)
  BY <1>2
<1>4. PICK j \in DOMAIN tab' :
        /\ tab'[j].className = tab[i].className
        /\ Range(OfScope(tab[i].syms, "SC_CLASS")) \subseteq Range(OfScope(tab'[j].syms, "SC_CLASS"))
  BY DEF TabGrows
<1>5. PICK m, c : m = e.meant /\ c = IF e.qual = NoParent THEN e.in ELSE e.qual
  OBVIOUS
<1>6. KnownAncestor(m, c)'
  BY <1>3, <1>5, AncestorsStay
<1>. QED
  BY <1>3, <1>4, <1>5, <1>6

LEMMA TridaGrows ==
  ASSUME Listed, NEW par, Trida(par)
  PROVE  TabGrows(tab, tab')
<1>. DEFINE ce == ClassEnv(Names[Len(tab) + 1], par, hledejClass(tab, par))
<1>1. tab' = <<ce>> \o tab
  BY DEF Trida, deklClass
<1>. HIDE DEF ce
<1>2. tab \in Seq(ClassEnvs) /\ Len(tab) \in Nat /\ DOMAIN tab = 1 .. Len(tab)
  BY DEF Listed
<1>3. \A i \in 1 .. Len(tab) : i + 1 \in DOMAIN tab' /\ tab'[i + 1] = tab[i]
  BY <1>1, <1>2
<1>. QED
  BY <1>2, <1>3 DEF TabGrows

LEMMA InClassGrows ==
  ASSUME Listed, tab # <<>>, NEW ce, SameHead(ce, tab[1]), tab' = InClass(tab, ce),
         Range(OfScope(tab[1].syms, "SC_CLASS")) \subseteq Range(OfScope(ce.syms, "SC_CLASS"))
  PROVE  TabGrows(tab, tab')
<1>1. /\ tab \in Seq(ClassEnvs) /\ DOMAIN tab = 1 .. Len(tab) /\ Len(tab) \in Nat
  BY DEF Listed
<1>2. /\ DOMAIN tab' = DOMAIN tab /\ tab'[1] = ce /\ \A i \in 2 .. Len(tab) : tab'[i] = tab[i]
  BY <1>1 DEF InClass
<1>3. \A i \in 1 .. Len(tab) : i = 1 \/ i \in 2 .. Len(tab)
  BY <1>1
<1>4. ASSUME NEW i \in DOMAIN tab
      PROVE  /\ tab'[i].className = tab[i].className /\ tab'[i].parent = tab[i].parent
             /\ Range(OfScope(tab[i].syms, "SC_CLASS")) \subseteq Range(OfScope(tab'[i].syms, "SC_CLASS"))
  BY <1>1, <1>2, <1>3 DEF SameHead
<1>. QED
  BY <1>2, <1>4 DEF TabGrows

LEMMA ReferenceKeepsTab ==
  ASSUME NEW r, Reference(r)
  PROVE  tab' = tab
<1>1. PICK e, static : Compiles(e, static)
  BY DEF Reference
<1>. QED
  BY <1>1 DEF Compiles, Stop, Emitted, vars

LEMMA TableGrows ==
  ASSUME DispatchInv, [Next]_vars
  PROVE  TabGrows(tab, tab')
<1>0. Listed
  BY DEF DispatchInv
<1>1. CASE tab' = tab
  BY <1>1 DEF TabGrows
<1>2. ASSUME NEW par \in program.parents, Trida(par) PROVE TabGrows(tab, tab')
  BY <1>0, <1>2, TridaGrows
<1>3. ASSUME NEW v \in program.vars, Member(v), tab' # tab PROVE TabGrows(tab, tab')
  <2>1. ~MemberTwice(tab, v.id)
    BY <1>3 DEF Member, Stop
  <2>2. /\ tab # <<>> /\ tab[1] \in ClassEnvs /\ NewPrvek(v) \in PrvekTabs
        /\ tab' = InClass(tab, WithMember(v)) /\ SameHead(WithMember(v), tab[1])
    BY <1>3, <2>1, MemberIs
  <2>3. WithMember(v).syms = <<NewPrvek(v)>> \o tab[1].syms
    BY <2>2, NewMember
  <2>4. PICK s, p : s = tab[1].syms /\ p = NewPrvek(v) /\ s \in Seq(PrvekTabs) /\ p \in PrvekTabs
    BY <2>2 DEF ClassEnvs
  <2>5. PICK t : t = <<p>> \o s
    OBVIOUS
  <2>6. t \in Seq(PrvekTabs) /\ \A i \in DOMAIN s : i + 1 \in DOMAIN t /\ t[i + 1] = s[i]
    BY <2>4, <2>5
  <2>7. Range(s) \subseteq Range(t)
    BY <2>6 DEF Range
  <2>8. Range(OfScope(s, "SC_CLASS")) \subseteq Range(OfScope(t, "SC_CLASS"))
    BY <2>4, <2>6, <2>7, OfScopeRange
  <2>. QED
    BY <1>0, <2>2, <2>3, <2>4, <2>5, <2>8, InClassGrows
<1>4. ASSUME NEW me \in program.methods, Metoda(me), tab' # tab PROVE TabGrows(tab, tab')
  <2>1. ~MethodTwice(tab, MethodName(me), me.static)
    BY <1>4 DEF Metoda, Stop
  <2>2. PICK ce : SameHead(ce, tab[1]) /\ ce.syms = tab[1].syms /\ tab' = InClass(tab, ce)
    BY <1>4, <2>1, MetodaIs
  <2>3. tab # <<>>
    BY <1>4 DEF Metoda
  <2>. QED
    BY <1>0, <2>2, <2>3, InClassGrows
<1>5. CASE tab' # tab /\ Next
  <2>1. \A name : TridaAgain(name) => tab' = tab
    BY DEF TridaAgain, Stop
  <2>2. Write \/ Start => tab' = tab
    BY DEF Write, Start, Stop, compiled
  <2>3. ASSUME NEW i, Execute(i) PROVE tab' = tab
    BY <2>3, ExecuteTab DEF compiled
  <2>. QED
    BY <1>2, <1>3, <1>4, <1>5, <2>1, <2>2, <2>3, ReferenceKeepsTab DEF Next
<1>. QED
  BY <1>1, <1>5 DEF vars

LEMMA EmittedMeant ==
  ASSUME DispatchInv, \A i \in DOMAIN code : Meant(code[i]), NEW e, NEW context, Emitted(e, context),
         MeansIts(e)
  PROVE  (\A i \in DOMAIN code : Meant(code[i]))'
<1>1. PICK x : /\ code' = Append(code, x)
               /\ x.op = e.op /\ x.id = e.id /\ x.addr = e.addr /\ x.meant = e.meant
               /\ x.qual = e.qual /\ x.in = tab[1].className
  BY DEF Emitted
<1>2. Meant(x)
  BY <1>1 DEF Meant, MeansIts, AddressOps
<1>3. code \in Seq(Range(code)) /\ tab' = tab
  BY DEF DispatchInv, Emitted
<1>4. PICK s : s = code
  OBVIOUS
<1>5. PICK t : t = Append(s, x)
  OBVIOUS
<1>6. DOMAIN t = DOMAIN s \union {Len(s) + 1} /\ t[Len(s) + 1] = x /\ \A i \in DOMAIN s : t[i] = s[i]
  BY <1>3, <1>4, <1>5, AppendCode
<1>7. \A i \in DOMAIN t : Meant(t[i])
  BY <1>2, <1>4, <1>6
<1>8. TabGrows(tab, tab')
  BY <1>3 DEF TabGrows
<1>9. ASSUME NEW i \in DOMAIN t PROVE Meant(t[i])'
  <2>1. PICK y : y = t[i]
    OBVIOUS
  <2>2. Meant(y)'
    BY <1>7, <1>8, <2>1, MeantStays
  <2>. QED
    BY <2>1, <2>2
<1>10. code' = t
  BY <1>1, <1>4, <1>5
<1>. QED
  BY <1>9, <1>10

LEMMA MeantStep ==
  ASSUME DispatchInv, \A i \in DOMAIN code : Meant(code[i]), [Next]_vars
  PROVE  (\A i \in DOMAIN code : Meant(code[i]))'
<1>1. CASE code' = code
  <2>1. PICK s : s = code
    OBVIOUS
  <2>2. ASSUME NEW i \in DOMAIN s PROVE Meant(s[i])'
    <3>1. PICK y : y = s[i]
      OBVIOUS
    <3>2. Meant(y)'
      BY <2>1, <3>1, TableGrows, MeantStays
    <3>. QED
      BY <3>1, <3>2
  <2>. QED
    BY <1>1, <2>1, <2>2
<1>2. ASSUME NEW r \in program.refs, Reference(r), code' # code
      PROVE  (\A i \in DOMAIN code : Meant(code[i]))'
  <2>1. tab # <<>> /\ Listed
    BY <1>2 DEF Reference, DispatchInv
  <2>2. PICK context \in Contexts :
          \E e \in Resolve(tab, r, context = {TRUE}) : Compiles(e, context)
    BY <1>2 DEF Reference
  <2>3. PICK static \in BOOLEAN : static = (context = {TRUE})
    OBVIOUS
  <2>4. PICK e \in Resolve(tab, r, static) : Compiles(e, context)
    BY <2>2, <2>3
  <2>5. e.ends = "emits" /\ Emitted(e, context)
    BY <1>2, <2>4 DEF Compiles, Stop, vars
  <2>6. MeansIts(e)
    BY <2>1, <2>3, <2>4, <2>5, ResolveMeans
  <2>. QED
    BY <2>5, <2>6, EmittedMeant
<1>3. CASE code' # code /\ Next
  <2>1. \A par : Trida(par) => code' = code
    BY DEF Trida
  <2>2. \A name : TridaAgain(name) => code' = code
    BY DEF TridaAgain, Stop
  <2>3. \A v : Member(v) => code' = code
    BY DEF Member, Stop
  <2>4. \A me : Metoda(me) => code' = code
    BY DEF Metoda, Stop
  <2>5. Write \/ Start => code' = code
    BY DEF Write, Start, Stop, compiled
  <2>6. ASSUME NEW i, Execute(i) PROVE code' = code
    BY <2>6, ExecuteTab DEF compiled
  <2>. QED
    BY <1>2, <1>3, <2>1, <2>2, <2>3, <2>4, <2>5, <2>6 DEF Next
<1>. QED
  BY <1>1, <1>3 DEF vars

LEMMA InitResolves == Init => StaticsResolve /\ \A i \in DOMAIN code : Meant(code[i])
BY DEF Init, StaticsResolve, Executed

LEMMA ClassInvStep == ClassInv /\ CacheInv /\ [Next]_vars => ClassInv'
<1>. SUFFICES ASSUME ClassInv, CacheInv, [Next]_vars PROVE ClassInv'
  OBVIOUS
<1>1. DispatchInv /\ Addressed /\ StaticsResolve /\ \A i \in DOMAIN code : Meant(code[i])
  BY DEF ClassInv
<1>2. DispatchInv' /\ Addressed' /\ StaticsResolve'
  BY <1>1, DispatchInvStep, AddressedStep, ResolvesStep
<1>3. (\A i \in DOMAIN code : Meant(code[i]))'
  BY <1>1, MeantStep
<1>. QED
  BY <1>2, <1>3 DEF ClassInv

(* In every program, the table of the compiler, the constant table, the    *)
(* compiled references and the linked classes fit together as ClassInv     *)
(* says, which the other theorems about classes rest on.                   *)
THEOREM ClassInvariant == Spec => []ClassInv
<1>1. Init => ClassInv /\ CacheInv
  BY InitDispatches, InitAddressed, InitIsCoherent, InitResolves DEF ClassInv
<1>2. ClassInv /\ CacheInv /\ [Next]_vars => (ClassInv /\ CacheInv)'
  BY ClassInvStep, StepKeeps
<1>. QED
  BY <1>1, <1>2, PTL DEF Spec

(* In every program, an instruction with the address of a class variable   *)
(* finds the one the compiler meant, and an instruction with its name the  *)
(* one of the nearest class; no constant is given out for assignment.      *)
(* Excepted are classes that declare no class variable themselves, classes *)
(* declared before a parent of theirs, and a class that is named where a   *)
(* call of super has taken its symbol.                                     *)
THEOREM StaticsAreResolved == Spec => []StaticsResolve
<1>1. ClassInv => StaticsResolve
  BY DEF ClassInv
<1>. QED
  BY <1>1, ClassInvariant, PTL

=============================================================================

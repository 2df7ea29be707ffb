# Verification of .KEK on Rails

This directory holds TLA+ models of .KEK on Rails, the compiler and virtual
machine of a small object-oriented language (`compiler/`, `vm/`), TLC
configurations that check them on small instances, and proofs checked by TLAPS.
Paths below are relative to the repository.

    tlc -config MCCheney.cfg MCCheney          # model-check one run
    tlapm Cheney_proofs.tla                    # check one module of proofs

`PROJECT.json` lists the runs, the code lines every definition stands for, for
each property a mutation of the model that violates it, the findings, the
hazards of the code and the theorems.


## 1. The system

`kekc` reads a source file, builds a tree (`parser.cpp`), folds constants
(`Optimize` in `strom.cpp`), and translates it to byte code with a table of
constants (`Translate` in `strom.cpp`, `bcout.cpp`), which is written to a
`.kexe` file. `kek` loads that file (`loader.c`), resolves classes, and
interprets the code in one thread (`vm_execute_bc` in `vm.c`). There is no
concurrency in the sense of threads. What makes the machine hard is that *any
allocation may move every object*, while interpreter, native methods and the
half-finished instructions of the program hold addresses.

| part | state it keeps | operations | modules |
|---|---|---|---|
| copying collector (`memory.c`, `-gn`, the default) | two segments, `to_space_free_g`, `scan_ptr_g`, forwarding pointers | `gc_cheney_malloc`, `_scavenge`, `_copy_root_obj`, `_copy_neighbor` | `Cheney` |
| root set | `gc_rootset_g`: addresses of C locals; stack, class variables | `gc_rootset_add`, `_remove_id`, `gc_rootset` | `Cheney` |
| old space (`memory.c`, `-gg`) | list of old objects, remember set, ages | promotion, write barrier, duplicates | `Generational` |
| stack (`stack.c`, `stack.h`) | `stack_g`, `sp_g`, `ap_g`, `fp_g`, `ip_g` | push, pop, `BC_CALL`, `BC_TCALL`, `BC_RET`, `UNWIND` | `FrameOps`, `Frames` |
| interpreter loop (`vm.c`) | byte code, constant table, inline caches | one case per instruction | `Machine`, `Operators`; `Classes`, `Arrays` |
| exceptions (`vm.c`, `strom.cpp`, `bcout.cpp`) | one table of try blocks per method, `obj_thrown` | `THROW`, `ST_EXINFO`, `LD_EXOBJ`, handler search, `longjmp` | `Machine`, `Codegen` |
| arrays (`k_array.c`, `memory.c`, `vm.c`) | array object, separate elements object, two copies of the length | index, assignment, append, growth | `Arrays` |
| symbol table (`tabsym.cpp`) | `TabClass`: classes, members, methods, next addresses | `deklClass`, `deklProm`, `deklMethod`, `hledej*` | `SymbolTable`, `References` |
| class files, loader (`bcout.cpp`, `loader.c`) | the classes in the file | `classout_*`, `kexe_load_*` | `ClassImage` |
| class layout (`vm.c`) | parents, sizes and offsets of instance and class variables | `vm_init_parent_pointers`, `vm_calculate_udo_sizes`, `SYM_STATIC`, `INST_VAR` | `ClassImage`, `ClassRules` |
| method lookup, inline cache (`vm.c`) | cache cells in the byte code, classes of symbols | `vm_find_method_in_class`, `CALL`, `CALLE`, `CALLS`, `NEW` | `Classes`, `ClassRules` |
| parser (`parser.cpp`) | place in the text, innermost loop | one function per nonterminal | `Parser` |
| optimiser (`strom.cpp`) | the tree | `Optimize` | `Optimizer`, `Operators` |
| code generator (`strom.cpp`, `bcout.cpp`) | byte code, jumps to be patched | `Translate`, `bco_*` | `Codegen`, `References` |
| constant table, 16 bit offsets (`bcout.cpp`) | table that moves when it grows | `ct_malloc`, `bco_w*` | symbols only, in `References` |
| meta programming (`k_meta.c`) | the loops of `vm_execute_bc`, `bc_loop_env_g` | `Meta._new` | `Machine` |
| strings (`k_string.c`) | characters; the pointer `strtok` keeps | `string_split` | `Split` |
| files, terminal, system (`k_*.c`) | C library handles | natives | only as "a native method" |
| lexer (`lexan.cpp`) | | characters to tokens | not modelled |

How they interact: instructions and natives allocate, allocation runs the
collector, the collector reads the stack, the class variables, the constant
arrays and the registered C locals and updates them. Calls and exceptions
share the cells of `stack_g` with operands and variables; the saved registers
are tagged integers between them. The compiler fixes addresses (jumps, try
blocks) that the handler search compares with return addresses. Assignment
is split into an address instruction and `ST`, with any code in between.
The compiler counts the addresses of variables and leaves the rest to the
machine, which finds parents by name, computes offsets and walks the classes
again: both must have the same idea of who declares what. And the two compile
and execute the same operators, once in `Bop::Optimize`, once in `bc_bop`.

What makes the parts correct:

* collector: nothing dangles, sharing and identity survive, garbage goes, a
  collection ends, and the program cannot tell that objects move;
* old space: the remember set lists every reference from the old space to the
  new one; an object ends in one place;
* stack: the cells are a stack of activations; an overflow is reported before
  a write leaves the array;
* exceptions: a thrown object reaches the handler that the source says;
* arrays: they are sequences that grow, and assignment sets what it names;
* classes: every variable of an object has a place of its own, a reference
  finds the declaration nearest in the source, the cache changes nothing;
* compiler: what is written is what is parsed, optimised code does what the
  tree means, and it ends when the tree's meaning does.


## 2. Modules

| module | what it is |
|---|---|
| `ObjGraph` | *abstract*: objects have an identity, slots hold what was last stored; nothing moves |
| `Cheney` | the copying collector and the instructions that use the heap, one pointer update per step |
| `CheneyInvariant` | its inductive invariant |
| `CheneyRefines` | the refinement of `ObjGraph` by `Cheney` (addresses to identities) |
| `Cheney_proofs` | the proofs about `Cheney` |
| `Cheney_refinement` | the proof that `Cheney` implements `ObjGraph` |
| `Generational` | GC_GEN: new space, old space, remember set, write barrier |
| `GenerationalInvariant`, `Generational_proofs` | inductive invariant and proofs |
| `CallStack` | *abstract*: a sequence of activations with arguments, locals, operands |
| `FrameOps` | the macros of `stack.h` as functions on registers and cells |
| `Frames` | their use in any order that compiled code can take; refines `CallStack` |
| `FramesInvariant`, `Frames_proofs` | inductive invariant and proofs |
| `Frames_refinement` | the proof that `Frames` implements `CallStack` |
| `Machine` | the interpreter loop for control flow, calls and exceptions, on `FrameOps` |
| `Operators` | how tightly operators bind and what they compute, for parser, optimiser and machine |
| `Codegen` | the compiler's translation of statements, with exception tables |
| `Source` | *reference*: what those statements mean, without addresses or tables |
| `Printer` | *reference*: how a programmer writes a tree down |
| `Parser` | recursive descent over tokens, with every way to fail |
| `Optimizer` | constant folding, dropped branches, simplified cases |
| `Compiler` | all of these one after the other, then `Machine`; its rules and their exceptions |
| `SymbolTable` | the compiler's table of classes and members |
| `References` | what a reference to a variable, a method or a class is compiled to |
| `ClassImage` | classes in the file, loaded, linked and laid out; the lookups |
| `Classes` | the life of a program's classes: declared, compiled, started, executed |
| `ClassRules` | what classes promise, over the classes as the source declares them |
| `ClassesInvariant`, `Classes_proofs` | inductive invariant and proofs about lookup, layout, class variables and the cache |
| `GrowingArray` | *abstract*: the steps of a sequence that grows |
| `Arrays` | arrays with elements objects, pending assignments, and collections |
| `Split` | `string_split`, a native method that allocates, on `Arrays` |
| `ArraysInvariant`, `Arrays_proofs` | inductive invariant and proofs, of both |
| `Induction` | induction on numbers and along hierarchies, and that recursive functions exist, for the proofs |
| `MC*` | instances for TLC |

### Cheney

State: `heap` maps addresses `<<segment, offset>>` to objects, `to` and `free`
are `segments_to_space_g` and `to_space_free_g`, `root` holds class variables,
registered C locals and `stack_g`. `pc` says whether the program runs or where
the collector is. `New`, `Load`, `LoadField`, `StoreField`, `StoreRoot`, `Pop`
are what instructions do to references; `Register` and `Unregister` are
`gc_rootset_add` and `gc_rootset_remove_id` around a native's local.
`StartScavenge`, `CopyRoot`, `RootsDone`, `ScanObj`, `CopyNeighbor`,
`NeighborsDone`, `EndScavenge`, `Retry` are the loops of
`gc_cheney_scavenge` and the second attempt of `gc_cheney_malloc`. The code
runs a collection without interruption; the steps are separate because the
loop invariants, which are what a change of this code would break, speak about the
states in between.

Abstractions: an object has a type with a number of reference slots
(characters and numbers are not kept); elements objects and constant arrays,
which `gc_rootset` visits like other roots, are objects and roots like others;
an allocation puts its result on the stack, so that a native that keeps an
object in a local without registering it is not a behaviour of the model (the
places where the code does that are hazards, see `PROJECT.json`). What remains in
the from-space is `NoObj`: memory that must not be read.
`AllocSize` and `CopySize` are separate because they are in the code: `alloc_*`
ask for one size, `vm_obj_size` computes another.

### Generational

The same new space with objects of one size. `CopyRoot` ages an object found
in a root slot, `PromoteRoot` starts `gc_os_rec_cpy_neighbors`, whose recursion
is a stack of slots (`work`). `StoreField` has the write barrier,
`NativeStore` (k_array.c) has not. `lost` is a history variable: who first
left a reference out of the remember set.

### Frames and FrameOps

A state of the machine is a record of cells and registers; the macros are functions on it. `Frames` calls
them in any order in which the operands belong to the running method (this is
what the compiler emits; `Balanced` below checks it for the code generator).
`acts` is a history variable: which methods have been called with which
registers. `Slack` is what `stack_init` allocates on top of `stack_size_g`: it
adds `sizeof(header_t)` *cells* where it means bytes, which leaves 21 cells.
Each push is checked against `stack_size_g`, the locals that `BC_CALL` and
`BC_TCALL` clear are checked against nothing. A call whose locals reach behind
the slack ends the model with the status `overrun`: what is overwritten there
is nobody's. `WithinAllocation` says that this does not happen, and is false;
`FewLocalsFit` says that it takes a method with as many locals as the slack.

### Machine, Codegen, Source

Every instruction has one address: the code only compares addresses and adds
lengths. An instruction of the code is an action; an operator that traps
(division by zero) or that is given the wrong types ends the program. Three
native methods stand for all: `read`, whose results also decide the conditions
of a program, `fail`, which throws, and `new`, which is `Meta._new`: it makes
an object and runs its constructor `k` in an interpreter loop of its own. The
handler search is one step per frame. Programs have a `main`, a method `f` of
two arguments and, in some, a constructor `k` without arguments, which
contains `try` blocks, throws and constructors in turn.

`loops` counts the calls of `vm_execute_bc` that have not returned, `env` says
which of them called `setjmp` last. A native method that throws goes on with a
`longjmp` there; when that loop has returned, what happens is undefined, and
the model stops with the status `undefined`.

### Parser, Optimizer, Compiler

The compiler is a function, not a process, so its modules are operators, one
for each nonterminal (`Vyraz` to `Faktor`, `Prikaz`, ...) and one for each
`Optimize` method. They take tokens or trees and give trees; the ways to fail
are results too: a place that is `Rejected` (an error message), `Overflow`
(a recursion that consumes nothing) or `Crashed`, and the trees `NoNode` (a null
pointer) and `Crash`. The parser calls the optimiser on the parts of a `case`
as the code does. `Compiler` writes a tree down with `Printer`, compiles the
text and lets `Machine` run it; `Source` says what it should do. The
length of a run of ends of line, which the lexer makes one token, and all names
but those of variables are left out, as are arrays, strings and objects: their
nodes go on to their parts.

Where the code differs from the rule, the difference has a name, and `ParsesBack` is
an equivalence, so that the names are exact:

* not read as written (`ParsesBack`): `OddDivision` (`ZbTermu` goes on after a division as
  after a whole expression: `a / b * c` is not read, and `x - a / b || c`
  is read as `x - (a / b || c)`), `LostBreak` (`break` in a `case` inside a loop),
  `NoDefault` (a `case` without a last `else`), `TakesNewline` (a body of a
  `case` that ends in an `if` without `else`);
* the compiler dies (`CrashesFewer`): `FoldsZero` (a constant division by zero),
  `FoldsBelow` (`-` or `!` of what folds to a number), `LeavesNothing` (an `if`
  that is never entered, where a node is needed);
* other meaning (`Behaves`): `SelectsAgain` (the selector of a `case` is
  evaluated for each test), `SkipsScope` (a constant selector does not look at
  scopes that are none), `LosesInit` (a `for` that is never entered loses its
  first assignment).

### SymbolTable, References, ClassImage, Classes

One behaviour is the life of one program: `Trida`, `Member`, `Metoda`
and `Reference` are the parser at a declaration or at a reference in a
method, in any order; `Write` makes the file; `Start` is `vm_init` (load, built-in
classes, parents, sizes, symbols); then the instructions of the references
are executed any number of times with any receiver of their class or one
below: an object in an instance method, a class in a static one, and both in a
constructor, which the lookup finds without asking for its kind. A class is known by its place in `classes_g`. Memory read outside an
array is `Wild`. `cache` is the pair of words in the byte code; `last` is a
history variable, the last instruction and what it found, which the rules of
`ClassRules` compare with the hierarchy in the source.

Values of variables, arguments of methods and local variables are left out:
none of them plays a part in who is found. The exceptions that the rules name
follow from the code: `ParentComesLater` (a parent declared after its child
lets both count addresses from 0), `ParentAllocates` (the offset of a
built-in parent is asked for by calling its allocator, which may answer with an object),
`HasNoStatics` (`SYM_STATIC` reads the first class variable of a class
without any), `Redirected` (one symbol for a method called through `super`
and for a class of that name) and, in the cache, an instruction that has met
both a class and its object (`last.mixed`: the cache is keyed by the class alone).
A constant, which `LABS_CVE` refuses, is no exception: `StaticsResolve` allows
nothing else to be refused. The number of arguments, which the machine checks
when it fills the cache and not on a hit, needs no model: both sides of
the check belong to the instruction and the entry, and neither changes.

### Arrays

`arr` and `objs` are `kek_array_t` and `kek_array_objs_t`, each with its length.
`pend` are the addresses that `IDXA` has pushed and `ST` has still to use. A
collection may happen between any two steps and leaves pointers
beyond an elements object's length dangling. The history variable `lost` records that a step has
been taken that the code is known not to survive, so that the other
properties say what holds until then.

`Split` adds a native method that allocates: `string_split` makes an array
(`Begin`), and then one string (`Token`) and one element (`Put1`) at a time,
each of which may collect. `text` is the string, which `strtok` cuts up with
zeros; `split.at` is the pointer that `strtok` keeps into the string, into the
copy that a collection has left behind (`split.old`), or, after a second
collection, into memory in other use, where the model ends ("wild"). It also
ends where a collection in `Begin` finds an array that is no root yet. A program
either works on arrays or splits one string as often as it wants: no array step
can come between the steps of a native method, and an array that is returned is
one like others. `Runs` says what is to come out, without `strtok`: the longest runs of
characters that are no delimiter; `Lists`, that a sequence has all of them, in order.


## 3. Runs

| run | cfg | properties | what it asks | distinct states (depth) |
|---|---|---|---|---|
| `cheney` | `MCCheney.cfg` | `NoDangling`, `Tricolour`, `CopiedOnce`, `ScanOnHeader`, `OnlyReachableSurvive`, `NeverCorrupt` | every interleaving of allocation, loads, stores, registration of C locals and collections one pointer at a time, objects of two slots | 1,585,868 (56) |
| `cheney_refines` | `MCCheneyRefines.cfg` | `RInv`, `Faithful`, `SInv`, `OverflowNeedsGrowth`, `ImplementsGraph`, `CollectionEnds` | allocated and copied sizes that differ, with fairness: no program can tell when objects move; the invariants of the proofs (`IInv` is a part of both), why a to-space may overflow, and that collections end | 484,577 (60) |
| `generational` | `MCGenerational.cfg` | `IInv`, `SoundUntilLost`, `OnePlace`, `BarrierComplete` | aging, promotion and the remember set: what holds as long as the set has been complete, and which stores leave a reference out | 1,345,169 (99) |
| `gen_promotion` | `MCPromotion.cfg` | `PromotionRemembers` | violated: promotion itself leaves a reference out | counterexample |
| `frames` | `MCFrames.cfg` | `SavedRegisters`, `BackToStart`, `IInv`, `ImplementsCallStack`, `FewLocalsFit` | the frame macros in every order implement a stack of activations, and which calls leave the allocation | 123,464 (18) |
| `frames_locals` | `MCFramesLocals.cfg` | `WithinAllocation` | violated: a method with many locals, called at the limit, writes behind the allocation | counterexample |
| `exceptions` | `MCExceptions.cfg` | `Agrees`, `FrameMatchesCode`, `Balanced`, `SearchDescends` | compiled programs behave as their source says, outside five named cases, with interpreter loops in interpreter loops | 702,933 (71) |
| `compile` | `MCCompile.cfg` | `ParsesBack`, `CrashesFewer`, `Behaves`, `Halts` | expressions and statements written down, parsed, optimised, translated and run: do they do what they mean? | 177,654 (143) |
| `classes` | `MCClasses.cfg` | `LayoutSound`, `StaticsResolve`, `DispatchNearest`, `CacheCoherent`, `ClassInv` | what the compiler counts and what the machine finds, for every hierarchy and order of three classes; the invariant of the proofs | 853,289 (14) |
| `exceptions_early_throw` | `MCEarlyThrow.cfg` | `ThrowAgrees` | violated: a `try` catches the throw before it | counterexample |
| `arrays` | `MCArrays.cfg` | `IInv`, `Sound`, `GrowsInside`, `ActsLikeArray`, `StoreLands`, `SplitsAll` | two arrays and an assignment in progress, with collections between any two steps; strings split into arrays | 302,134 (26) |
| `arrays_append` | `MCAppend.cfg` | `LengthsAgree` | violated: `append` sets one length of two | counterexample |

`TypeOK` is a part of `IInv` in `generational`, `frames` and `arrays`, and of
`SInv` and `RInv` in `cheney_refines`; the types of `classes` are in `ClassInv`.

Bounds. *Cheney*: two segments of 3 units hold two live objects and force a
collection at the third allocation (the check is `<`), and the refinement run
has 4 units, for up to three live objects, and starts in a chosen segment (they
differ in name only); two slots per object (one in the refinement run) give
sharing, self references and cycles; four identities give two
to three collections in a row, so that a forwarding pointer of an earlier
collection could be taken for one of a later. The refinement run has a type
that grows when it is copied and one that shrinks. *Generational*: two collections
are needed for a promotion and a third for its consequences; identities of
dead objects are used again, so that the number of collections is not bounded
at all. *Frames*: 15 cells hold main and two or three nested frames, with 0 or
1 arguments and up to two locals each, which is the slack, so that the locals of
a method fit in it or do not. Source and destination of a tail call are apart
in the run: they overlap when the method called has at least five more arguments
than the running one has arguments and locals. The macro copies upwards to
lower cells, and the proofs cover any number of arguments. *Exceptions*: 45,345 programs with their inputs, every nesting
of two of sequence, try and while around eight simple statements, with six
bodies of `f` and three inputs; those that make objects have seven bodies of
`k`, which go up to four interpreter loops deep; a stack of 64 cells is never
exhausted.
*Arrays*: two arrays up to three elements, which contains size 1 (that never
grows), growth in use and growth in a pending assignment; two strings, of two
and of three parts with delimiters at the beginning and in a row, so that the
array grows at the third, a split has up to four places to collect in, and is
repeated on what it has left of the string.
*Compile*: all pairs of the 18 operators in both groupings, with constants
and an argument at different places so that all, some or no parts fold;
three operators out of six (one per kind of function in the parser) in all
groupings; `-` and `!` above, below and beside them; ifs, loops, `for` and
`case` with every kind of condition, selector and scope, in seven contexts
(blocks, branches, loops, both parts of a try) and with three inputs. About
5,000 programs. Numbers are small: nothing overflows.
*Classes*: up to three classes, which is enough for a parent, a child and
one between or beside them, in every order of declaration; eight families of
programs, each about one question (variables of objects, of classes,
constants, calls, inherited natives, constructors, symbols), with up to three
variables, three methods and two references.

Deadlock is not checked where the machine may stop on purpose (`vm_error`, no
memory, program at its end, bound on identities; in `classes` the machine
stops with an error for what is not found). In `exceptions` and `compile` it
is checked: a program that has not ended has a next instruction.

**Fairness.** `CollectionEnds` and `Halts` need it. `MCSpec` of
`MCCheneyRefines` has weak fairness of the collector's steps, since `gc_cheney_malloc` calls the scavenger in the one
thread there is and nothing else can run. `SearchDescends` is the safety half
of the termination of the handler search. `Halts` asks that the interpreter
goes on while it can, which is what its `while` loop does; `Fairness` in
`MCCompile` says so with what enables `Next` (not being done) written out, since
TLC takes very long to evaluate `ENABLED` of these actions. Without it the
property is not void: it is violated by a compiled loop that never ends.


## 4. What is proved

TLAPS checks these for all values of the constants under the assumptions
named in the modules.

* **Cheney_proofs.** Any segment size, any types, sizes, slots, number of
  roots. The inductive invariant `IInv` adds to the properties where the
  copies lie (`Layout`: back to back below `free`, the scan pointer at a
  header), that originals keep their fields while forwarding addresses and
  copies are in one-to-one correspondence (`Originals`, `Copies`,
  `UniqueIds`), and what each phase may assume. `Tricolour` is not inductive
  without these: a forwarded pointer is only as good as the forwarding
  address, and "grey objects point to originals" needs that no original was
  changed. There is a lemma for each action; `CopyRoot` and `CopyNeighbor`
  share one about copying an object. `SInv` adds what room and garbage need.
  `Parents`: each copy was made for a root slot or for a field of a copy before
  it. So there is no copy of least offset outside a set that is closed under
  reachability, which is how `OnlyReachableSurvive` is stated (the least of those
  sets is what the program can reach). `Extents`: objects that
  do not grow lie apart, and the copies fill the to-space without gaps. Each
  unit below `free` is then in a copy whose original covers a unit of the
  from-space as far from its header; this is an injection into the units before the last
  one that an original can end at, and a copy that did not fit would make it an
  injection of more units into fewer (`OverflowNeedsGrowth`). Theorems: `Inductive`,
  `TypeCorrect`, `NoDanglingPointers`, `TricolourHolds`, `ScanFindsHeaders`,
  `SharingSurvives`, `NoCorruption`, `RoomInvariant`, `SurvivorsFit`,
  `GarbageGoes`.
* **Cheney_refinement.** `RefSpec => ImplementsGraph`, for the same constants; an identity
  must not be taken for `Null` (`IdsAssumption`). `RInv` is `IInv` with what
  the history variable `obj` adds: every object in memory, original or copy,
  is what was recorded under its identity (`Faithful`), identities have been given out
  in order (`GivenOut`), and root slots that are not live hold nothing
  (`DeadSlots`; without it the abstract root slots would not be determined by
  the live ones). The mapping sees a heap through headers only, so one lemma
  (`GcInvariant`) serves all steps of the collector: if every object after the step is
  the same as one before it, and every root slot denotes the same identity,
  nothing has changed. `EvacuatedSame` says so of a single pointer. An
  instruction changes a root slot, or one object and its record. Theorems:
  `RefInvariant`, `ObjectsAreFaithful`, `CollectorIsTransparent`.
* **Generational_proofs.** Any segment size, slots, roots and identities; the
  constants are assumed only to be told apart (`WordsAssumption`). The
  invariant says where objects are (`Places`, `Unique`): an identity is in one
  place, except an original and its copy; that originals keep their fields
  (`Originals`); and that only root slots and old fields that are still to be visited, and
  copies that are still to be scanned, refer to the space that is left (`Progress`).
  Every copy in the to-space has an original of its own (`Copies`), so that the to-space
  cannot overflow: this is the pigeonhole principle on the two segments.
  What concerns references holds as long as `lost = "no"`; the shape of the heap
  and the pending slots hold afterwards too. Every step of the collector
  assigns one slot, with or without making a copy, and two lemmas
  (`VisitAssign`, `VisitCopy`) serve all the actions that do. `BarrierComplete`
  follows from the invariant at both ends of a step. Its premise was once
  `Remembered`, which holds in the run but cannot be proved: with three
  stack cells, once something has been lost, `ST` can store a stale pointer
  that the barrier does not recognise. Nothing may have been lost before.
  Theorems: `Invariant`, `SoundUntilLostHolds`, `OnePlaceHolds`,
  `BarrierCompleteHolds`.
* **Frames_proofs.** Any stack size, slack, values, return addresses and bounds on
  arguments and locals. A call that leaves the allocation ends the model, so that
  the theorems speak of what comes before one. `StackIsLargeEnough` says which calls
  those are: none of a method with fewer locals than the slack, which is 21 in the
  program. It follows from the invariant and the sizes of a frame: a call is made
  with room for the three saved registers, so that the exception slot and the
  locals are all that can lie beyond the stack. (The compiler has no bound on
  locals; `frames_locals` shows a method that has too many.) The invariant says that the saved registers of each frame are
  those of the one before and that frames lie above each other; it is stated
  on the history `acts`, whose entries and the cells tell the same story. Theorems:
  `Invariance`, `TypeCorrect`, `StackIsLargeEnough`, `RegistersAreSaved`,
  `MainLeavesItsResult`.
* **Frames_refinement.** `Spec => ImplementsCallStack`:
  the cells are a stack of activations. `View(r, as)` is the refinement
  mapping as a function of a machine and the activations in it. What an
  operation does to it is proved first about any machine whose frames are linked as in the
  invariant (`ViewPush`, `ViewPop`, `ViewStore`, `ViewCall`, `ViewTailCall`,
  `ViewLeave`, `ViewReturn`): the cells it writes are those of the running
  activation, or beyond all of them, so that the others keep their arguments,
  locals and operands (`FrameLies`, `SameCells`). A second group of lemmas says
  which change of the view is which step of `CallStack` (`AbstractCall`, ...),
  and one lemma for each action puts the two together. A report of an overflow, and
  a call that leaves the allocation, are stuttering steps. Theorem: `FramesAreCallStack`.
* **Arrays_proofs.** Any number of arrays, any size of the first elements
  object, any values, strings and pending assignments, with `string_split`
  running between. `IInv` says in whose hands every elements object is (an
  array's, or a pending address's of an array that has grown since), that it is as large
  as the array's capacity, that lengths do not exceed it, and that what lies
  behind a length is `NIL` for as long as nothing in `lost` has happened. The
  last is what makes `Sound` inductive: growing uncovers cells that were behind
  the length, and had a collection left a dangling pointer there, it would
  become an element. That `arr_realloc_elems` ends is induction on the distance
  that is left to grow. `ArraysActLikeSequences` and `StoresLand` are action properties
  that follow from the invariant, step by step. `SplitsAllParts` needs what
  `Splitting` adds to it: strtok's pointer is at the string's beginning, its end, or
  behind a delimiter; from there on, whichever copy it points into is as the string
  was; and `split.got` lists the runs that end before it. A zero that is written
  takes the place of a delimiter before the new pointer, and a collection leaves
  a copy of what was there; so a token is the next run and no run is passed over
  (`NextRun` and the lemmas around it), and at the end every run has been made.
  Theorems: `Invariant`, `ArraysSound`, `ArraysGrowInside`,
  `ArraysActLikeSequences`, `StoresLand`, `SplitsAllParts`.
* **Induction.** The provers cannot use the library's induction theorem,
  which has a predicate as a parameter. `SetInduction` has a set in its place
  and is proved from the well-foundedness of the finite sets under inclusion
  (`FS_StrictSubsetOrderingWellFounded`), by way of `LeastNat`,
  which `GarbageGoes` uses too. A recursive function means the chosen one that
  satisfies its equation, so nothing can be said of it before there is one:
  `CountingUp` says so of functions that count to a number, `RecursionUp` of
  functions that climb a hierarchy of bounded height. What holds of a class
  when it holds of its parent holds of all (`DownTheHierarchy`).
* **Classes_proofs.** Any programs, names and number of classes, members,
  methods and references, under three assumptions of `ClassesInvariant`.
  `NamesAssumption`: classes have different names, none of them that of a
  built-in class. The compiler does not reject a class of such a name, but the
  machine would then find the class of the program where the built-in one is
  meant; the theorems do not speak of such programs. `ProgramsAssumption`:
  what is declared and referred to has the form that the parser reads.
  `NullAssumption`: the model values are told apart from the values of the
  machine.

  The cache comes first: `CacheInv` adds to `CacheCoherent` that an entry
  holds what the lookup finds for its own key (`EntriesFresh`), that there are
  no entries before the machine starts and that every instruction has one. It
  is inductive because after the start neither the classes nor the code
  change: a machine that loaded classes at run time would break
  `EntriesFresh` first.

  The others relate what the compiler wrote to what the machine computes from
  it, three steps of the program later, so that the invariant must carry what
  the compiler knew. `ClassInv` says: the table holds the classes in the order
  of their names, and a known parent is an older class (`Listed`); the members
  of one kind have consecutive addresses, which start where the parent's end
  (`Addressed`); each instruction has the class it is in, and symbols with its
  texts (`Compiled`); an instruction with an address has that of the variable
  it means, in a class that is an ancestor (`Meant`); a symbol has a class
  only if a call of super gave it that one (`ConstantTable`, without which
  `Redirected` would not be the only exception); and the machine runs what is
  in the table (`Started`, `Linked`). `Meant` speaks of ancestors as far as
  they are known when the instruction is compiled (`KnownAncestor`, by closed
  sets, because it must survive the declaration of more classes); `Lineage`,
  which the properties use, is that of the linked program.

  `DispatchNearest`: `classes_g` has the parsed classes newest first, as the
  compiler's table and the file have them, and the built-in ones behind (`ClassIds`, `NameOf`); the parents found by name are
  those of the source, and both are acyclic (`MachineRank`), so that the
  search of the machine and the recursion of the rule go up the same lineage,
  and the first that has the method is the nearest. `LayoutSound`: the
  instance variables of a class, reversed twice between compiler and machine,
  are read in the order of their addresses; along the lineage the parts are
  packed, one behind the other, and the size the machine adds up is where the
  last one ends (`TotalIs`, `PackedUp`). `StaticsResolve`: `SYM_STATIC` climbs
  until the address is that of the first variable or behind it, which is where
  the class of the variable begins (`WalkFinds`); what it finds is what
  `Meant` says, since two classes in one lineage have no address in common.
  The parser's own searches climb the same parents (`MemberUp`, `DeclarerUp`,
  `ResolveMeans`).

  Theorems: `CacheIsCoherent`, `DispatchIsNearest`, `LayoutIsSound`,
  `ClassInvariant`, `StaticsAreResolved`.

Only model-checked: `CollectionEnds` and `Halts` (liveness); everything about
`Compiler` and `Machine`, whose properties relate programs to what becomes of them: `Parser`,
`Optimizer`, `Codegen`, `Source` and `Printer` are RECURSIVE operators over
programs, which the SMT backend does not accept. An operator that takes a
predicate or an order (`SelectSeq`, `SetToSortSeq`) is out of their reach too,
and what they compute is defined otherwise: `OfScope` (the members of one
kind) is a recursive function, `Lists` names the order it means.


## 5. What the runs found

* `gen_promotion`: `gc_os_rec_cpy_neighbors` forwards a neighbour that has
  already been copied within the new space; the promoted object then points
  from the old space to the new and nothing remembers it. The comment at
  `vm/memory.c:1040` says that such pointers are in the remember set. (The
  project's README says "there are some rare bugs" of this mode.)
* `exceptions_early_throw`: the handler search starts one address too far, so
  that a `throw` directly before a `try` is caught by it.
* `frames_locals`: `stack_push` reports "Stack overflowed" (`vm/stack.c:51`)
  before there is no room, `BC_CALL` and `BC_TCALL` clear the locals of a
  method without a look at the size of the stack. With as many locals as there are
  cells of slack (21 in the program), a call at the limit writes behind the
  allocation.
* `arrays_append`: `append` into room that is left sets only one of the two
  lengths, against the assertion at `vm/k_array.c:182`; the collector then does not
  visit what was appended.

The passing runs show that, with these set aside, the rest holds, outside
exceptions that follow from the code and that no document denies: those named
under `Compiler` and `ClassRules` in section 2, and five more: a tail call
inside a try block loses the handler; a native method called in tail position
from `main` returns to no code; an exception that leaves a constructor called
by `Meta._new` is unhandled, whatever `try` the call is in; a native method
that throws after such a constructor has ended jumps into the loop that has
ended with it; and appending an array to itself runs over its end. Splitting a
string survives one collection, by reading the copy that the collector has left
behind (and that `FORCE_CALLOC` would clear), and not two: the second is what the
comment at `vm/k_string.c:106` warns of. A second split of the same string may see
its first part only, where `strtok` has cut it.


## 6. Plan

1. *Constant table.* `ct_malloc` and the pointers that are used after it, the
   sharing of equal constants, and 16 bit offsets and jumps.
2. *Static initialisers.* They run in interpreter loops of their own before
   `main`, like the constructors of `Meta._new` in `Machine`.
3. *Collections outside instructions.* Other native methods that hold an
   object in a local over an allocation, as `string_split` does: at start-up
   (`vm_call_main`) and in `new`.
4. *Proofs.* `SearchDescends`, for code that is any sequence of instructions.

Not modelled: the lexer and the reading of characters (sequential, no state
beyond the character, covered by the tests); the other methods of strings
(formatting, comparing and converting of characters); the mark and sweep
collector and the object table (not finished or not called); files, terminal
and system (thin wrappers of the C library); the writing of numbers to files
(byte order, truncated files).

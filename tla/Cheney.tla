------------------------------- MODULE Cheney -------------------------------
(***************************************************************************)
(* The copying collector of the virtual machine (vm/memory.c, GC_NEW, the  *)
(* default), together with the bytecodes that allocate, load and store     *)
(* heap references (vm/vm.c).                                              *)
(*                                                                         *)
(* An object lives at an address <<segment, offset>> of one of the two     *)
(* segments.  The collector runs when an allocation does not fit; its      *)
(* loops are modelled one pointer at a time, so that what must hold        *)
(* between two pointer updates can be stated.  A segment is not cleared    *)
(* after a collection (FORCE_CALLOC is 0, vm/vm.h:42): what it holds then  *)
(* is garbage, represented by NoObj, and nothing may point to it.          *)
(***************************************************************************)
EXTENDS Integers

CONSTANTS
  Seg,         \* the two segments
  SegSize,     \* NEW_SEGMENT_SIZE, in units of OBJ_ALIGN
  Types,       \* object types (KEK_UDO, KEK_STR, ...)
  Slots,       \* Slots[t]: reference slots that copy_neighbor follows in a t
  MaxSlots,    \* the largest of them
  AllocSize,   \* AllocSize[t]: the size the alloc_ functions ask for
  CopySize,    \* CopySize[t]: the size vm_obj_size computes
  NStatics,    \* number of static variables (of all classes)
  NHandles,    \* bound on the C locals registered with gc_rootset_add
  StackSize,   \* stack_size_g
  MaxId,       \* bound on last_id_g, for model checking
  Null,        \* the C NULL
  Imm,         \* anything the collector skips: tagged integer, constant, class
  NoObj        \* memory that holds no object

ASSUME SegmentsAssumption ==
  /\ \E s1, s2 \in Seg : s1 # s2 /\ Seg = {s1, s2}
  /\ SegSize \in Nat
ASSUME TypesAssumption ==
  /\ MaxSlots \in Nat
  /\ Slots \in [Types -> 0..MaxSlots]
  /\ AllocSize \in [Types -> Nat \ {0}]
  /\ CopySize \in [Types -> Nat \ {0}]
ASSUME RootsAssumption ==
  /\ NStatics \in Nat
  /\ NHandles \in Nat
  /\ StackSize \in Nat
  /\ MaxId \in Nat

Addr == Seg \X (0 .. SegSize - 1)

ASSUME ValuesAssumption ==
  /\ Null \notin Addr /\ Imm \notin Addr /\ Null # Imm
  /\ NoObj \notin [id : Nat, t : Types, f : [1..MaxSlots -> Addr \cup {Null, Imm}],
                   fwd : Addr \cup {Null}]

Slot == 1 .. MaxSlots
Val == Addr \cup {Null, Imm}

(* An object: its unique h.id, its type, its reference slots and, once it  *)
(* has been copied (h.t = KEK_COPIED), the forwarding address that h.cls   *)
(* holds; Null before that.                                                *)
Obj == [id : Nat, t : Types, f : [Slot -> Val], fwd : Addr \cup {Null}]

(* The places gc_rootset visits, numbered from 0 within each kind.         *)
RootSlot == ({"static"} \X (0 .. NStatics - 1)) \cup
            ({"handle"} \X (0 .. NHandles - 1)) \cup
            ({"stack"}  \X (0 .. StackSize - 1))

VARIABLES
  heap,   \* Addr -> object or NoObj
  to,     \* segments_to_space_g
  free,   \* to_space_free_g, as an offset into the to-space
  root,   \* contents of the root slots: static variables, C locals, stack_g
  hp,     \* number of registered C locals (length of gc_rootset_g)
  sp,     \* sp_g
  lastId, \* last_id_g
  pc,     \* what the virtual machine is doing
  req,    \* type of the allocation that waits for the collector, or Null
  todo,   \* root slots that gc_rootset has not visited yet
  scan,   \* scan_ptr_g, as an offset into the to-space
  cur,    \* the object whose neighbours are being copied, or Null
  fld     \* its slot that is copied next

heapVars == <<heap, free, lastId>>
rootVars == <<root, hp, sp>>
gcVars   == <<todo, scan, cur, fld>>
vars     == <<heap, to, free, root, hp, sp, lastId, pc, req, todo, scan, cur, fld>>

-----------------------------------------------------------------------------
(* IS_PTR(v), not NULL and not a constant.                                 *)
IsRef(v) == v \in Addr

Static(i) == <<"static", i>>
Handle(i) == <<"handle", i>>
Stack(i)  == <<"stack", i>>

\* Mutant: gc_rootset forgets the registered locals.
LiveWithoutHandles ==
  {Static(i) : i \in 0 .. NStatics - 1} \cup {Stack(i)  : i \in 0 .. sp - 1}

Live == {Static(i) : i \in 0 .. NStatics - 1} \cup
        {Handle(i) : i \in 0 .. hp - 1} \cup
        {Stack(i)  : i \in 0 .. sp - 1}

(* The order of gc_rootset: static variables upwards, then the list of     *)
(* registered locals, newest first, then the stack from its top.           *)
Rank(r) == CASE r[1] = "static" -> r[2]
             [] r[1] = "handle" -> NStatics + NHandles - r[2]
             [] r[1] = "stack"  -> NStatics + NHandles + StackSize + 1 - r[2]

Top == root[Stack(sp - 1)]

(* The root slots after k pops.  stack_g keeps what was popped, but no      *)
(* bytecode reads a slot above sp_g before it writes it: Null stands for   *)
(* such contents.                                                          *)
Popped(k) == [r \in RootSlot |->
                IF \E i \in 1 .. k : r = Stack(sp - i) THEN Null ELSE root[r]]

\* Mutant: a segment may be filled to the last unit.
CanMallocFull(size) == free + size <= SegSize

(* gc_cheney_can_malloc, and the check of copy_obj_to_space_free.           *)
CanMalloc(size) == free + size < SegSize
CopyFits(size)  == ~(free + size >= SegSize)

(* Types.  The type invariant of the collector: pointers are addresses of  *)
(* the two segments, the indices of its loops stay within them.            *)
TypeOK ==
  /\ heap \in [Addr -> Obj \cup {NoObj}]
  /\ to \in Seg
  /\ free \in Nat
  /\ root \in [RootSlot -> Val]
  /\ hp \in 0 .. NHandles
  /\ sp \in 0 .. StackSize
  /\ lastId \in Nat
  /\ pc \in {"run", "roots", "scan", "retry", "no_space", "no_to_space", "corrupt"}
  /\ req \in Types \cup {Null}
  /\ todo \subseteq RootSlot
  /\ scan \in Nat
  /\ cur \in Addr \cup {Null}
  /\ fld \in Nat

Init ==
  /\ heap = [a \in Addr |-> NoObj]
  /\ to \in Seg
  /\ free = 0
  /\ root = [r \in RootSlot |-> Null]
  /\ hp = 0
  /\ sp = 0
  /\ lastId = 0
  /\ pc = "run"
  /\ req = Null
  /\ todo = {}
  /\ scan = 0
  /\ cur = Null
  /\ fld = 1

-----------------------------------------------------------------------------
(* The mutator.                                                            *)

(* The second half of gc_cheney_malloc and the PUSH of the caller: the     *)
(* free pointer is bumped and the zeroed object is put on the stack.       *)
Place(t) ==
  /\ heap' = [heap EXCEPT ![<<to, free>>] =
                [id |-> lastId + 1, t |-> t, f |-> [i \in Slot |-> Null], fwd |-> Null]]
  /\ free' = free + AllocSize[t]
  /\ lastId' = lastId + 1
  /\ root' = [root EXCEPT ![Stack(sp)] = <<to, free>>]
  /\ sp' = sp + 1

(* NEW and the natives that push a fresh object, when there is room.       *)
New(t) ==
  /\ pc = "run"
  /\ sp < StackSize
  /\ lastId < MaxId
  /\ CanMalloc(AllocSize[t])
  /\ Place(t)
  /\ UNCHANGED <<to, hp, pc, req, gcVars>>

(* Loading a variable (LD_LOC, LD_ARG, LD_SELF, LVBI_C, ...): a copy of a  *)
(* live root slot, or an immediate, is pushed.                             *)
Load(v) ==
  /\ pc = "run"
  /\ sp < StackSize
  /\ root' = [root EXCEPT ![Stack(sp)] = v]
  /\ sp' = sp + 1
  /\ UNCHANGED <<heapVars, to, hp, pc, req, gcVars>>

(* LD_IVE and IDX: the object on top is replaced by one of its slots.      *)
LoadField(i) ==
  /\ pc = "run"
  /\ sp > 0
  /\ IsRef(Top)
  /\ i <= Slots[heap[Top].t]
  /\ root' = [root EXCEPT ![Stack(sp - 1)] = heap[Top].f[i]]
  /\ UNCHANGED <<heapVars, to, hp, sp, pc, req, gcVars>>

(* ST with an object as destination: value, slot offset and object are     *)
(* popped.  The offset is relative to the object (MAKE_DPTR), so it stays  *)
(* right when the object moves between the address computation and ST.     *)
StoreField(i) ==
  /\ pc = "run"
  /\ sp > 1
  /\ LET dst == root[Stack(sp - 2)] IN
       /\ IsRef(dst)
       /\ i <= Slots[heap[dst].t]
       /\ Top # Null                                  \* assert(obj != NULL)
       /\ heap' = [heap EXCEPT ![dst].f[i] = Top]
  /\ root' = Popped(2)
  /\ sp' = sp - 2
  /\ UNCHANGED <<free, lastId, to, hp, pc, req, gcVars>>

(* ST with a NULL destination: the slot is a static variable.  Storing     *)
(* into a local or an argument (LABI_LOC, LABI_ARG) is the same update of  *)
(* another root slot.                                                      *)
StoreRoot(r) ==
  /\ pc = "run"
  /\ sp > 0
  /\ Top # Null
  /\ r \in Live \ {Stack(sp - 1)}
  /\ r[1] # "handle"
  /\ root' = [Popped(1) EXCEPT ![r] = Top]
  /\ sp' = sp - 1
  /\ UNCHANGED <<heapVars, to, hp, pc, req, gcVars>>

Pop ==
  /\ pc = "run"
  /\ sp > 0
  /\ root' = Popped(1)
  /\ sp' = sp - 1
  /\ UNCHANGED <<heapVars, to, hp, pc, req, gcVars>>

(* A native that keeps an object in a C local over an allocation:          *)
(* gc_rootset_add(&local) before, gc_rootset_remove_id after.              *)
Register ==
  /\ pc = "run"
  /\ sp > 0
  /\ IsRef(Top)
  /\ hp < NHandles
  /\ root' = [Popped(1) EXCEPT ![Handle(hp)] = Top]
  /\ hp' = hp + 1
  /\ sp' = sp - 1
  /\ UNCHANGED <<heapVars, to, pc, req, gcVars>>

Unregister ==
  /\ pc = "run"
  /\ hp > 0
  /\ sp < StackSize
  /\ root' = [root EXCEPT ![Stack(sp)] = root[Handle(hp - 1)],
                          ![Handle(hp - 1)] = Null]
  /\ hp' = hp - 1
  /\ sp' = sp + 1
  /\ UNCHANGED <<heapVars, to, pc, req, gcVars>>

-----------------------------------------------------------------------------
(* The collector.                                                          *)

Other(s) == CHOOSE x \in Seg : x # s

\* Mutant: the free pointer is not reset.
StartScavengeKeepsFree(t) ==
  /\ pc = "run"
  /\ sp < StackSize
  /\ lastId < MaxId
  /\ AllocSize[t] < SegSize                       \* else vm_error
  /\ ~CanMalloc(AllocSize[t])
  /\ req' = t
  /\ to' = Other(to)
  /\ scan' = 0
  /\ cur' = Null
  /\ fld' = 1
  /\ todo' = Live
  /\ pc' = "roots"
  /\ UNCHANGED <<heap, free, lastId, rootVars>>

(* An allocation that does not fit starts gc_cheney_scavenge: the spaces   *)
(* are swapped and the free and scan pointers reset.                       *)
StartScavenge(t) ==
  /\ pc = "run"
  /\ sp < StackSize
  /\ lastId < MaxId
  /\ AllocSize[t] < SegSize                       \* else vm_error
  /\ ~CanMalloc(AllocSize[t])
  /\ req' = t
  /\ to' = Other(to)
  /\ free' = 0
  /\ scan' = 0
  /\ cur' = Null
  /\ fld' = 1
  /\ todo' = Live
  /\ pc' = "roots"
  /\ UNCHANGED <<heap, lastId, rootVars>>

\* Mutants: the original is not marked as copied; only the header is copied.
MovedUnmarked(v) == [heap EXCEPT ![<<to, free>>] = heap[v]]
MovedHeader(v) ==
  [heap EXCEPT ![<<to, free>>] = [heap[v] EXCEPT !.f = [i \in Slot |-> Null]],
               ![v] = [heap[v] EXCEPT !.fwd = <<to, free>>]]

(* copy_obj_to_space_free: the object is copied to the free pointer and    *)
(* the original becomes a forwarding pointer.                              *)
Moved(v) ==
  [heap EXCEPT ![<<to, free>>] = heap[v],
               ![v] = [heap[v] EXCEPT !.fwd = <<to, free>>]]

(* What gc_cheney_copy_root_obj and gc_cheney_copy_neighbor_inner do with  *)
(* the pointer v: what is no reference stays as it is; a copied object is  *)
(* replaced by its copy; a pointer into the to-space and a full to-space   *)
(* stop the machine (vm_error); any other object is moved.                 *)
Evacuated(v) ==
  LET same == [val |-> v, heap |-> heap, free |-> free, pc |-> pc] IN
  IF ~IsRef(v) THEN same
  ELSE IF heap[v].fwd # Null THEN [same EXCEPT !.val = heap[v].fwd]
  ELSE IF v[1] = to THEN [same EXCEPT !.pc = "corrupt"]
  ELSE IF ~CopyFits(CopySize[heap[v].t]) THEN [same EXCEPT !.pc = "no_to_space"]
  ELSE [same EXCEPT !.val  = <<to, free>>,
                    !.heap = Moved(v),
                    !.free = free + CopySize[heap[v].t]]

\* Mutants: the root slot is not updated; a slot is visited over and over.
CopyRootUnseen ==
  /\ pc = "roots"
  /\ \E r \in todo :
       /\ \A s \in todo : Rank(r) <= Rank(s)
       /\ todo' = todo \ {r}
       /\ LET e == Evacuated(root[r]) IN
            heap' = e.heap /\ free' = e.free /\ pc' = e.pc
  /\ UNCHANGED <<to, rootVars, lastId, req, scan, cur, fld>>
CopyRootTwice ==
  /\ pc = "roots"
  /\ \E r \in todo :
       /\ \A s \in todo : Rank(r) <= Rank(s)
       /\ todo' \in {todo, todo \ {r}}
       /\ LET e == Evacuated(root[r]) IN
            /\ heap' = e.heap
            /\ free' = e.free
            /\ pc' = e.pc
            /\ root' = [root EXCEPT ![r] = e.val]
  /\ UNCHANGED <<to, hp, sp, lastId, req, scan, cur, fld>>

(* gc_rootset calls gc_cheney_copy_root_obj on the next root slot.         *)
CopyRoot ==
  /\ pc = "roots"
  /\ \E r \in todo :
       /\ \A s \in todo : Rank(r) <= Rank(s)
       /\ todo' = todo \ {r}
       /\ LET e == Evacuated(root[r]) IN
            /\ heap' = e.heap
            /\ free' = e.free
            /\ pc' = e.pc
            /\ root' = [root EXCEPT ![r] = e.val]
  /\ UNCHANGED <<to, hp, sp, lastId, req, scan, cur, fld>>

RootsDone ==
  /\ pc = "roots"
  /\ todo = {}
  /\ pc' = "scan"
  /\ UNCHANGED <<heapVars, to, rootVars, req, gcVars>>

\* Mutant: an object without neighbours has size 0.
ScanObjStuck ==
  /\ pc = "scan"
  /\ cur = Null
  /\ scan < free
  /\ cur' = <<to, scan>>
  /\ fld' = 1
  /\ LET t == heap[<<to, scan>>].t IN
       scan' = scan + (IF Slots[t] = 0 THEN 0 ELSE CopySize[t])
  /\ UNCHANGED <<heapVars, to, rootVars, pc, req, todo>>

(* The loop of gc_cheney_scavenge takes the object under the scan pointer  *)
(* and advances the pointer before it copies the neighbours.               *)
ScanObj ==
  /\ pc = "scan"
  /\ cur = Null
  /\ scan < free
  /\ cur' = <<to, scan>>
  /\ fld' = 1
  /\ scan' = scan + CopySize[heap[<<to, scan>>].t]
  /\ UNCHANGED <<heapVars, to, rootVars, pc, req, todo>>

(* gc_cheney_copy_neighbor on the next slot of the object.                 *)
CopyNeighbor ==
  /\ pc = "scan"
  /\ cur # Null
  /\ fld <= Slots[heap[cur].t]
  /\ fld' = fld + 1
  /\ LET e == Evacuated(heap[cur].f[fld]) IN
       /\ heap' = [e.heap EXCEPT ![cur].f[fld] = e.val]
       /\ free' = e.free
       /\ pc' = e.pc
  /\ UNCHANGED <<to, rootVars, lastId, req, todo, scan, cur>>

\* Mutant: the last slot is left out.
NeighborsDoneEarly ==
  /\ pc = "scan"
  /\ cur # Null
  /\ fld >= Slots[heap[cur].t]
  /\ cur' = Null
  /\ fld' = 1
  /\ UNCHANGED <<heapVars, to, rootVars, pc, req, todo, scan>>

NeighborsDone ==
  /\ pc = "scan"
  /\ cur # Null
  /\ fld > Slots[heap[cur].t]
  /\ cur' = Null
  /\ fld' = 1
  /\ UNCHANGED <<heapVars, to, rootVars, pc, req, todo, scan>>

(* The scan pointer has caught up: the from-space is given up.             *)
EndScavenge ==
  /\ pc = "scan"
  /\ cur = Null
  /\ scan >= free
  /\ heap' = [a \in Addr |-> IF a[1] = to THEN heap[a] ELSE NoObj]
  /\ pc' = "retry"
  /\ UNCHANGED <<free, lastId, to, rootVars, req, gcVars>>

(* The allocation is tried once more; a program whose live objects leave   *)
(* no room is stopped (vm_error).                                          *)
Retry ==
  /\ pc = "retry"
  /\ IF CanMalloc(AllocSize[req])
       THEN /\ Place(req)
            /\ pc' = "run"
            /\ req' = Null
       ELSE /\ pc' = "no_space"
            /\ UNCHANGED <<heapVars, root, sp, req>>
  /\ UNCHANGED <<to, hp, gcVars>>

-----------------------------------------------------------------------------
Mutate ==
  \/ \E t \in Types : New(t)
  \/ \E v \in {root[r] : r \in Live} \cup {Imm} : Load(v)
  \/ \E i \in Slot : LoadField(i) \/ StoreField(i)
  \/ \E r \in RootSlot : StoreRoot(r)
  \/ Pop \/ Register \/ Unregister

Collect ==
  \/ CopyRoot \/ RootsDone
  \/ ScanObj \/ CopyNeighbor \/ NeighborsDone
  \/ EndScavenge \/ Retry

Next == Mutate \/ (\E t \in Types : StartScavenge(t)) \/ Collect

Spec == Init /\ [][Next]_vars

-----------------------------------------------------------------------------
(* Properties.                                                             *)

Collecting == pc \in {"roots", "scan"}

Holds(s, v) == IsRef(v) => v[1] = s /\ heap[v] # NoObj

(* Whatever the program can reach through a live root slot, in any number  *)
(* of steps, is an object of the current to-space: no static variable,     *)
(* registered local, stack slot or instance variable is left pointing      *)
(* into the space that a collection gave up.                               *)
NoDangling ==
  pc = "run" =>
    /\ \A r \in Live : Holds(to, root[r])
    /\ \A a \in Addr : a[1] = to /\ heap[a] # NoObj =>
         \A i \in Slot : Holds(to, heap[a].f[i])

(* The tricolour invariant of the loops of gc_cheney_scavenge.  Visited    *)
(* roots and objects behind the scan pointer (black) point to copies;      *)
(* roots still to be visited and objects ahead of the scan pointer (grey)  *)
(* point to the originals; the object being scanned is split at fld.       *)
Black(a) == a[2] < scan /\ a # cur
Tricolour ==
  Collecting =>
    /\ \A r \in Live : Holds(IF r \in todo THEN Other(to) ELSE to, root[r])
    /\ \A a \in Addr : a[1] = to /\ heap[a] # NoObj =>
         \A i \in Slot :
           Holds(IF Black(a) \/ (a = cur /\ i < fld) THEN to ELSE Other(to), heap[a].f[i])

(* Sharing survives: an object reached over two paths is copied once, so   *)
(* no two objects of the to-space have the same h.id.                      *)
CopiedOnce ==
  \A a, b \in Addr :
    /\ a[1] = to /\ heap[a] # NoObj
    /\ b[1] = to /\ heap[b] # NoObj
    /\ heap[a].id = heap[b].id
    => a = b

(* The loop reads an object header wherever the scan pointer stops: the    *)
(* copies are laid out back to back, by the sizes the loop advances by.    *)
ScanOnHeader ==
  Collecting =>
    /\ scan <= free
    /\ scan < free => heap[<<to, scan>>] # NoObj

(* A set of objects of the to-space that has all those in root slots, and  *)
(* with an object those it refers to; the least of these sets is what the  *)
(* program can reach.                                                      *)
InToSpace == {a \in Addr : a[1] = to /\ heap[a] # NoObj}
Closed(S) ==
  /\ {root[r] : r \in Live} \cap InToSpace \subseteq S
  /\ \A a \in S : {heap[a].f[i] : i \in Slot} \cap InToSpace \subseteq S

(* A collection reclaims all garbage: right after it, every object of the  *)
(* to-space is reachable from the root set.                                *)
OnlyReachableSurvive ==
  pc = "retry" => \A S \in SUBSET InToSpace : Closed(S) => S = InToSpace

(* copy_root_obj and copy_neighbor_inner never meet a pointer that is in   *)
(* the to-space already (their vm_error is unreachable).                   *)
NeverCorrupt == pc # "corrupt"

(* Survivors fit where they were: "To space run out of space" is reached   *)
(* only when an object is larger as a copy (vm_obj_size) than as it was    *)
(* allocated.                                                              *)
OverflowNeedsGrowth ==
  pc = "no_to_space" =>
    \E a \in Addr : heap[a] # NoObj /\ CopySize[heap[a].t] > AllocSize[heap[a].t]

(* A collection comes to an end, also on cyclic graphs: the program goes   *)
(* on with its allocation done, or the machine is stopped because there is *)
(* no room.                                                                *)
CollectionEnds == (pc = "roots") ~> (pc \in {"run", "no_space", "no_to_space"})

=============================================================================

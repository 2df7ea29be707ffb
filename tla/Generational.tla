---------------------------- MODULE Generational ----------------------------
(***************************************************************************)
(* The generational collector (GC_GEN, kekvm -gg): the copying collector   *)
(* of the new space ages what it finds in a root slot and moves it to the  *)
(* old space, with all its neighbours, the second time (vm/memory.c,       *)
(* gc_cheney_copy_root_obj and gc_os_rec_cpy_neighbors).  The old space is *)
(* never collected; a remember set lists its slots that point to the new   *)
(* space.                                                                  *)
(*                                                                         *)
(* Objects have one size.  Constants, which every copying function skips,  *)
(* and the C locals of gc_rootset_add, which are roots like the others,    *)
(* are left out.  gc_os_rec_cpy_neighbors is recursive; work holds the     *)
(* slots that its pending calls have still to visit.                       *)
(***************************************************************************)
EXTENDS Integers, Sequences, SequencesExt, FiniteSets

CONSTANTS
  Seg,         \* the two segments of the new space
  SegSize,     \* their size, in objects
  NSlots,      \* number of reference slots of an object
  NStatics,    \* number of static variables
  StackSize,   \* stack_size_g
  Ids,         \* identities of the objects that exist at a time
  MaxRs,       \* bound on the length of the remember set
  Null,        \* the C NULL
  Tagged,      \* a tagged integer: no pointer
  NoObj        \* memory that holds no object

ASSUME NewSpaceAssumption ==
  /\ \E s1, s2 \in Seg : s1 # s2 /\ Seg = {s1, s2}
  /\ SegSize \in Nat /\ NSlots \in Nat
ASSUME GenRootsAssumption == NStatics \in Nat /\ StackSize \in Nat /\ MaxRs \in Nat /\ Ids \subseteq Nat

Slot    == 1 .. NSlots
NewAddr == Seg \X (0 .. SegSize - 1)
OldAddr == {"old"} \X Ids                 \* malloc'ed, one for every object
Addr    == NewAddr \cup OldAddr
Val     == Addr \cup {Null, Tagged}

Static(i)   == <<"static", i>>
Stack(i)    == <<"stack", i>>
Field(a, i) == <<"field", a, i>>
RootSlot  == {Static(i) : i \in 0 .. NStatics - 1} \cup {Stack(i) : i \in 0 .. StackSize - 1}
FieldSlot == {Field(a, i) : a \in Addr, i \in Slot}

VARIABLES
  heap,   \* address -> object or NoObj
  to,     \* segments_to_space_g
  free,   \* to_space_free_g
  root,   \* static variables and stack_g
  sp,     \* sp_g
  rs,     \* gc_os_remember_set_g: the field slots, newest first
  pc,     \* what the virtual machine is doing
  todo,   \* slots that gc_rootset has still to visit, in its order
  work,   \* slots that gc_os_rec_cpy_neighbors has still to visit
  scan,   \* scan_ptr_g
  fld,    \* slot of the object under the scan pointer that is copied next
  lost    \* history: what first left a reference from old to new out of rs

memVars == <<heap, free>>
gcVars  == <<todo, work, scan, fld>>
vars    == <<heap, to, free, root, sp, rs, pc, todo, work, scan, fld, lost>>

\* h.state is 1 or 2 in the new space (OBJ_1ST_GEN_YOUNG, OBJ_2ND_GEN_YOUNG),
\* 3 in the old space (OBJ_OLD_WHITE).
Obj == [id : Ids, state : 1 .. 3, f : [Slot -> Val], fwd : Addr \cup {Null}]

ASSUME WordsAssumption ==
  "old" \notin Seg /\ Null \notin Addr /\ Tagged \notin Addr /\ NoObj \notin Obj

IsRef(v) == v \in Addr

\* gc_os_is_in_old looks at the state, not at the address.
IsOld(v) == IsRef(v) /\ heap[v] # NoObj /\ heap[v].state = 3
InTo(v)  == v \in NewAddr /\ v[1] = to

Live == {Static(i) : i \in 0 .. NStatics - 1} \cup {Stack(i) : i \in 0 .. sp - 1}
Top == root[Stack(sp - 1)]

\* The contents of a root slot or of an instance variable.
At(s) == IF s[1] = "field" THEN heap[s[2]].f[s[3]] ELSE root[s]

\* *s = v, on top of a change of the heap that leaves s itself alone.
Assign(s, v, h) ==
  /\ heap' = IF s[1] = "field" THEN [h EXCEPT ![s[2]].f[s[3]] = v] ELSE h
  /\ root' = IF s[1] = "field" THEN root ELSE [root EXCEPT ![s] = v]

CanMalloc == free + 1 < SegSize

(* Types.  The type invariant: the remember set holds addresses of slots,   *)
(* the stack of neighbours to promote too, and ages are 1, 2 or 3 (old).   *)
TypeOK ==
  /\ heap \in [Addr -> Obj \cup {NoObj}]
  /\ to \in Seg /\ free \in 0 .. SegSize
  /\ root \in [RootSlot -> Val] /\ sp \in 0 .. StackSize
  /\ rs \in Seq(FieldSlot) /\ Len(rs) <= MaxRs
  /\ pc \in {"run", "roots", "scan", "retry", "no_space", "corrupt", "stray", "assert"}
  /\ todo \in Seq(RootSlot \cup FieldSlot)
  /\ work \in Seq(RootSlot \cup FieldSlot)
  /\ scan \in 0 .. SegSize /\ fld \in 1 .. NSlots + 1
  /\ lost \in {"no", "native", "promotion"}

Init ==
  /\ heap = [a \in Addr |-> NoObj]
  /\ to \in Seg /\ free = 0
  /\ root = [r \in RootSlot |-> Null] /\ sp = 0
  /\ rs = <<>>
  /\ pc = "run"
  /\ todo = <<>> /\ work = <<>> /\ scan = 0 /\ fld = 1
  /\ lost = "no"

(* "pointers in the old space that points to the new space are stored in   *)
(* the remember set" (vm/memory.c:1040).                                   *)
Remembered ==
  pc \in {"run", "retry"} =>
    \A a \in OldAddr : heap[a] # NoObj =>
      \A i \in Slot : heap[a].f[i] \in NewAddr => Field(a, i) \in ToSet(rs)

Blame(who) == lost' = IF lost = "no" /\ ~Remembered' THEN who ELSE lost

-----------------------------------------------------------------------------
(* The mutator.                                                            *)

\* h.id is a counter; here the number of an object that is gone is used again.
FreeIds == Ids \ {heap[a].id : a \in {b \in Addr : heap[b] # NoObj}}

Place ==
  /\ heap' = [heap EXCEPT ![<<to, free>>] =
                [id |-> CHOOSE n \in FreeIds : \A m \in FreeIds : n <= m, state |-> 1, f |-> [i \in Slot |-> Null], fwd |-> Null]]
  /\ free' = free + 1
  /\ root' = [root EXCEPT ![Stack(sp)] = <<to, free>>]
  /\ sp' = sp + 1
  /\ pc' = "run"

New ==
  /\ pc = "run" /\ sp < StackSize /\ FreeIds # {}
  /\ CanMalloc
  /\ Place
  /\ UNCHANGED <<to, rs, lost, gcVars>>

Load(v) ==
  /\ pc = "run" /\ sp < StackSize
  /\ root' = [root EXCEPT ![Stack(sp)] = v]
  /\ sp' = sp + 1
  /\ UNCHANGED <<memVars, to, rs, lost, pc, gcVars>>

\* Following a pointer to memory that holds no object: whatever happens then,
\* the run is of no further interest.
Stray ==
  /\ pc = "run" /\ sp > 0
  /\ IsRef(Top) /\ heap[Top] = NoObj
  /\ pc' = "stray"
  /\ UNCHANGED <<memVars, to, root, sp, rs, lost, gcVars>>

LoadField(i) ==
  /\ pc = "run" /\ sp > 0
  /\ IsRef(Top) /\ heap[Top] # NoObj
  /\ root' = [root EXCEPT ![Stack(sp - 1)] = heap[Top].f[i]]
  /\ UNCHANGED <<memVars, to, sp, rs, lost, pc, gcVars>>

Drop(k) ==
  /\ root' = [r \in RootSlot |->
                IF \E i \in 1 .. k : r = Stack(sp - i) THEN Null ELSE root[r]]
  /\ sp' = sp - k

\* Mutant: the barrier looks at the space of the value alone, the wrong way.
RememberOld(dst, i, v) ==
  IF IsOld(dst) /\ IsOld(v) THEN <<Field(dst, i)>> \o rs ELSE rs

(* gc_os_write_barrier: the slot is remembered when an object of the old   *)
(* space is made to point to the new space.                                *)
Remember(dst, i, v) ==
  IF IsOld(dst) /\ InTo(v) THEN <<Field(dst, i)>> \o rs ELSE rs

(* ST to an instance variable, with the write barrier.                     *)
StoreField(i) ==
  /\ pc = "run" /\ sp > 1
  /\ LET dst == root[Stack(sp - 2)] IN
       /\ IsRef(dst) /\ heap[dst] # NoObj
       /\ Top # Null
       /\ heap' = [heap EXCEPT ![dst].f[i] = Top]
       /\ rs' = Remember(dst, i, Top)
       /\ Len(rs') <= MaxRs
  /\ Drop(2)
  /\ UNCHANGED <<free, to, pc, lost, gcVars>>

(* A native that stores into an object it holds: native_arr_elem_set,      *)
(* array_append and arr_realloc_elems have no write barrier.               *)
NativeStore(i) ==
  /\ pc = "run" /\ sp > 1
  /\ LET dst == root[Stack(sp - 2)] IN
       /\ IsRef(dst) /\ heap[dst] # NoObj
       /\ Top # Null
       /\ heap' = [heap EXCEPT ![dst].f[i] = Top]
  /\ Drop(2)
  /\ UNCHANGED <<free, to, rs, pc, gcVars>>
  /\ Blame("native")

\* ST to a static variable or to a local one.
StoreRoot(r) ==
  /\ pc = "run" /\ sp > 0
  /\ Top # Null
  /\ r \in Live \ {Stack(sp - 1)}
  /\ root' = [root EXCEPT ![r] = Top, ![Stack(sp - 1)] = Null]
  /\ sp' = sp - 1
  /\ UNCHANGED <<memVars, to, rs, lost, pc, gcVars>>

Pop ==
  /\ pc = "run" /\ sp > 0
  /\ Drop(1)
  /\ UNCHANGED <<memVars, to, rs, lost, pc, gcVars>>

-----------------------------------------------------------------------------
(* The collector.                                                          *)

(* gc_os_remove_dups_in_rs keeps the first of equal entries.               *)
WithoutDups(s) ==
  LET First(k) == \A j \in 1 .. k - 1 : s[j] # s[k]
  IN [n \in 1 .. Cardinality({k \in DOMAIN s : First(k)}) |->
        s[CHOOSE k \in DOMAIN s : First(k) /\ Cardinality({j \in 1 .. k : First(j)}) = n]]

\* Mutant: the walk over the stack starts one slot too low.
RootOrderBelowTop ==
  [i \in 1 .. NStatics |-> Static(i - 1)] \o [i \in 1 .. sp - 1 |-> Stack(sp - 1 - i)]

(* The order of gc_rootset: static variables, the stack from its top, the  *)
(* remember set.                                                           *)
RootOrder ==
  [i \in 1 .. NStatics |-> Static(i - 1)] \o [i \in 1 .. sp |-> Stack(sp - i)]

StartScavenge ==
  /\ pc = "run" /\ sp < StackSize
  /\ ~CanMalloc
  /\ to' \in Seg \ {to}
  /\ free' = 0 /\ scan' = 0 /\ fld' = 1
  /\ rs' = WithoutDups(rs)
  /\ todo' = RootOrder \o WithoutDups(rs)
  /\ work' = <<>>
  /\ pc' = "roots"
  /\ UNCHANGED <<heap, root, sp, lost>>

Visiting == pc = "roots" /\ work = <<>> /\ todo # <<>>
Skip ==
  /\ todo' = Tail(todo)
  /\ UNCHANGED <<memVars, to, root, sp, rs, lost, pc, work, scan, fld>>

(* gc_rootset skips what is no pointer into the heap; the assertion on a   *)
(* remembered slot rejects it.                                             *)
SkipValue ==
  /\ Visiting
  /\ LET s == Head(todo) IN
       /\ ~IsRef(At(s))
       /\ IF s[1] = "field"
            THEN pc' = "assert" /\ UNCHANGED <<memVars, to, root, sp, rs, lost, gcVars>>
            ELSE Skip

(* An object of the old space stays; a remembered slot that points to the  *)
(* to-space already is a duplicate.                                        *)
SkipObj ==
  /\ Visiting
  /\ LET s == Head(todo)  v == At(s) IN
       /\ IsRef(v)
       /\ IsOld(v) \/ (InTo(v) /\ s[1] = "field")
       /\ Skip

(* The vm_error of gc_cheney_copy_root_obj, and a pointer to garbage.      *)
Reject ==
  /\ Visiting
  /\ LET s == Head(todo)  v == At(s) IN
       \/ InTo(v) /\ s[1] # "field" /\ pc' = "corrupt"
       \/ IsRef(v) /\ ~InTo(v) /\ heap[v] = NoObj /\ pc' = "stray"
  /\ UNCHANGED <<memVars, to, root, sp, rs, lost, gcVars>>

\* What the next step of gc_rootset does with an object of the from-space.
FromSpace(v) == v \in NewAddr /\ ~InTo(v) /\ heap[v] # NoObj

ForwardRoot ==
  /\ Visiting
  /\ LET s == Head(todo)  v == At(s) IN
       /\ FromSpace(v) /\ heap[v].fwd # Null
       /\ Assign(s, heap[v].fwd, heap)
  /\ todo' = Tail(todo)
  /\ UNCHANGED <<to, free, sp, rs, lost, pc, work, scan, fld>>

(* The first time the object ages and is copied within the new space.      *)
CopyRoot ==
  /\ Visiting
  /\ LET s == Head(todo)  v == At(s)  p == <<to, free>> IN
       /\ FromSpace(v) /\ heap[v].fwd = Null
       /\ heap[v].state = 1
       /\ Assign(s, p, [heap EXCEPT ![p] = [heap[v] EXCEPT !.state = 2],
                                    ![v] = [heap[v] EXCEPT !.state = 2, !.fwd = p]])
  /\ free' = free + 1
  /\ todo' = Tail(todo)
  /\ UNCHANGED <<to, sp, rs, lost, pc, work, scan, fld>>

(* The second time gc_os_rec_cpy_neighbors is called on the slot.          *)
PromoteRoot ==
  /\ Visiting
  /\ LET s == Head(todo)  v == At(s) IN
       /\ FromSpace(v) /\ heap[v].fwd = Null
       /\ heap[v].state = 2
       /\ work' = <<s>>
  /\ todo' = Tail(todo)
  /\ UNCHANGED <<memVars, to, root, sp, rs, lost, pc, scan, fld>>

(* gc_os_rec_cpy_neighbors has nothing to do for constants and objects of  *)
(* the old space, and takes the new address of what has been copied -      *)
(* be it into the old space or into the to-space.                          *)
PromoteSkip ==
  /\ pc = "roots" /\ work # <<>>
  /\ LET v == At(Head(work)) IN ~IsRef(v) \/ IsOld(v)
  /\ work' = Tail(work)
  /\ UNCHANGED <<memVars, to, root, sp, rs, lost, pc, todo, scan, fld>>
PromoteForward ==
  /\ pc = "roots" /\ work # <<>>
  /\ LET s == Head(work)  v == At(s) IN
       /\ v \in NewAddr /\ heap[v] # NoObj /\ heap[v].fwd # Null
       /\ Assign(s, heap[v].fwd, heap)
  /\ work' = Tail(work)
  /\ UNCHANGED <<to, free, sp, rs, lost, pc, todo, scan, fld>>

\* Mutant: the promoted object keeps its age.
PromotedYoung(v, p) == [heap EXCEPT ![p] = heap[v], ![v].fwd = p]

\* Mutant: the original is not marked as copied.
PromotedUnmarked(v, p) == [heap EXCEPT ![p] = [heap[v] EXCEPT !.state = 3]]

\* gc_os_add_item.
Promoted(v, p) ==
  [heap EXCEPT ![p] = [heap[v] EXCEPT !.state = 3], ![v].fwd = p]

(* gc_os_add_item and the recursive calls for the neighbours.              *)
Promote ==
  /\ pc = "roots" /\ work # <<>>
  /\ LET s == Head(work)  v == At(s)  p == <<"old", heap[v].id>> IN
       /\ FromSpace(v) /\ heap[v].fwd = Null
       /\ Assign(s, p, Promoted(v, p))
       /\ work' = [i \in Slot |-> Field(p, i)] \o Tail(work)
  /\ UNCHANGED <<to, free, sp, rs, lost, pc, todo, scan, fld>>

(* Its assertion, and a pointer to garbage.                                *)
PromoteReject ==
  /\ pc = "roots" /\ work # <<>>
  /\ LET v == At(Head(work)) IN
       \/ InTo(v) /\ heap[v] # NoObj /\ heap[v].fwd = Null /\ pc' = "assert"
       \/ v \in NewAddr /\ heap[v] = NoObj /\ pc' = "stray"
  /\ UNCHANGED <<memVars, to, root, sp, rs, lost, gcVars>>

RootsDone ==
  /\ pc = "roots" /\ work = <<>> /\ todo = <<>>
  /\ pc' = "scan"
  /\ UNCHANGED <<memVars, to, root, sp, rs, lost, gcVars>>

(* gc_cheney_copy_neighbor_inner on slot fld of the object under the scan  *)
(* pointer: it neither ages nor promotes.                                  *)
CopyNeighbor ==
  /\ pc = "scan" /\ scan < free /\ fld <= NSlots
  /\ LET s == Field(<<to, scan>>, fld)  v == At(s)  p == <<to, free>> IN
       \/ /\ ~IsRef(v) \/ IsOld(v)
          /\ UNCHANGED <<memVars, root, pc>>
       \/ /\ FromSpace(v) /\ heap[v].fwd # Null
          /\ Assign(s, heap[v].fwd, heap)
          /\ UNCHANGED <<free, pc>>
       \/ /\ FromSpace(v) /\ heap[v].fwd = Null
          /\ Assign(s, p, [heap EXCEPT ![p] = heap[v], ![v] = [heap[v] EXCEPT !.fwd = p]])
          /\ free' = free + 1
          /\ UNCHANGED <<pc>>
       \/ /\ v \in NewAddr /\ ~FromSpace(v)
          /\ pc' = IF InTo(v) THEN "corrupt" ELSE "stray"
          /\ UNCHANGED <<memVars, root>>
  /\ fld' = fld + 1
  /\ UNCHANGED <<to, sp, rs, lost, todo, work, scan>>

NextObj ==
  /\ pc = "scan" /\ scan < free /\ fld > NSlots
  /\ scan' = scan + 1 /\ fld' = 1
  /\ UNCHANGED <<memVars, to, root, sp, rs, lost, pc, todo, work>>

EndScavenge ==
  /\ pc = "scan" /\ scan >= free
  /\ heap' = [a \in Addr |-> IF a \in OldAddr \/ InTo(a) THEN heap[a] ELSE NoObj]
  /\ pc' = "retry"
  /\ UNCHANGED <<free, to, root, sp, rs, gcVars>>
  /\ Blame("promotion")

Retry ==
  /\ pc = "retry"
  /\ IF CanMalloc THEN FreeIds # {} /\ Place
     ELSE pc' = "no_space" /\ UNCHANGED <<memVars, root, sp>>
  /\ UNCHANGED <<to, rs, lost, gcVars>>

-----------------------------------------------------------------------------
Mutate ==
  \/ New \/ Stray \/ Pop
  \/ \E v \in {root[r] : r \in Live} \cup {Tagged} : Load(v)
  \/ \E i \in Slot : LoadField(i) \/ StoreField(i) \/ NativeStore(i)
  \/ \E r \in RootSlot : StoreRoot(r)

Collect ==
  \/ StartScavenge
  \/ SkipValue \/ SkipObj \/ Reject \/ ForwardRoot \/ CopyRoot \/ PromoteRoot
  \/ PromoteSkip \/ PromoteForward \/ Promote \/ PromoteReject
  \/ RootsDone \/ CopyNeighbor \/ NextObj \/ EndScavenge \/ Retry

Next == Mutate \/ Collect

Spec == Init /\ [][Next]_vars

-----------------------------------------------------------------------------
(* Properties.                                                             *)

Sound(v) == IsRef(v) => (v \in OldAddr \/ InTo(v)) /\ heap[v] # NoObj

(* As long as the remember set has been complete all the time, a           *)
(* collection is sound: whatever a live root or an object of either space  *)
(* refers to is there, and no copying function meets a pointer it rejects. *)
SoundUntilLost ==
  lost = "no" =>
    /\ pc \notin {"corrupt", "stray"}
    /\ pc = "run" =>
         /\ \A r \in Live : Sound(root[r])
         /\ \A a \in Addr : (a \in OldAddr \/ InTo(a)) /\ heap[a] # NoObj =>
              \A i \in Slot : Sound(heap[a].f[i])

(* The same comment, for the collector's part: promoting an object whose   *)
(* neighbour has been copied within the new space already makes an old     *)
(* object point to the new space, and gc_os_rec_cpy_neighbors remembers    *)
(* nothing.                                                                *)
PromotionRemembers == lost # "promotion"

(* As long as nothing has been lost, the mutator cannot lose a reference   *)
(* but by a native's store: ST remembers every one it makes, and whatever  *)
(* else it does to the slots of old objects leaves the others remembered.  *)
(* (Afterwards a stack cell may hold what no collection has updated, which *)
(* the barrier does not take for a pointer to the new space.)              *)
BarrierComplete ==
  [][pc = "run" /\ lost = "no" /\ ~Remembered' => \E i \in Slot : NativeStore(i)]_vars

(* An object is promoted or copied, never both, and at most once per       *)
(* collection: between collections an identity has one place.              *)
OnePlace ==
  pc = "run" /\ lost = "no" =>
    \A a, b \in Addr :
      heap[a] # NoObj /\ heap[b] # NoObj /\ heap[a].id = heap[b].id => a = b

=============================================================================

------------------------------- MODULE Arrays -------------------------------
(***************************************************************************)
(* Arrays (vm/k_array.c, arr_realloc_elems in vm/memory.c, IDX, IDXA and    *)
(* ST in vm/vm.c).  An array object points to its elements, an object of   *)
(* its own with a copy of the length and the size, which is replaced by a  *)
(* larger one when the array grows.                                        *)
(*                                                                         *)
(* An assignment a[i] = e evaluates a[i] to an address (IDXA), then e,     *)
(* then stores (ST): anything may happen in between.  A collection copies  *)
(* all of an elements object, but updates only the pointers that are       *)
(* below its length: the others are left dangling.                         *)
(***************************************************************************)
EXTENDS Integers, Sequences, SequencesExt, FiniteSets

CONSTANTS
  Arrays,      \* the array objects
  Refs,        \* pointers to collected objects
  Nil,         \* NIL
  Dangling,    \* a pointer into the from-space of an earlier collection
  Unused,      \* memory that holds no elements object
  InitSize,    \* ARR_INIT_SIZE
  MaxLiteral,  \* bound on the length of an array literal
  MaxLen,      \* bound on the length of an array
  MaxPending   \* bound on assignments that are nested in one another

ASSUME ArraysAssumption ==
  /\ InitSize \in Nat \ {0} /\ MaxLen \in Nat /\ MaxLiteral \in 0 .. MaxLen
  /\ MaxPending \in Nat

VARIABLES
  arr,     \* array -> [len, alloc, objs]: kek_array_t
  objs,    \* id -> [len, cells] or Unused: kek_array_objs_t, cells from 0
  top,     \* the value on top of the operand stack
  pend,    \* addresses that IDXA has pushed and ST has not popped
  status,  \* "run", or why there is no telling what happens next
  lost     \* history: what has been done that these functions do not survive

vars == <<arr, objs, top, pend, status, lost>>

Val == Refs \cup {Nil, Dangling}

\* Elements objects.  No array grows to more than twice what it needs.
MaxSize == InitSize + 2 * MaxLen
Object  == [len : 0 .. MaxLen, cells : UNION {[0 .. n - 1 -> Val] : n \in 1 .. MaxSize}]

ASSUME ValuesAssumption ==
  Nil \notin Refs /\ Dangling \notin Refs /\ Nil # Dangling /\ Unused \notin Object

Elems(a) == objs[arr[a].objs]

\* An elements object belongs to one array for ever.  As many as these can be
\* in use: the current one, one for every address, one to grow into.
Ids == Arrays \X (0 .. MaxPending + 1)
Fresh(a) == <<a, CHOOSE k \in 0 .. MaxPending + 1 :
                   objs[<<a, k>>] = Unused /\ \A j \in 0 .. k - 1 : objs[<<a, j>>] # Unused>>

Index == 0 .. MaxLen - 1

(* Types.  Every array has an elements object exactly as large as its       *)
(* alloc_size says, and pending addresses are addresses of array elements. *)
TypeOK ==
  /\ arr \in [Arrays -> [len : 0 .. MaxLen, alloc : Nat, objs : Ids]]
  /\ objs \in [Ids -> Object \cup {Unused}]
  /\ \A a \in Arrays : objs[arr[a].objs] # Unused /\ DOMAIN Elems(a).cells = 0 .. arr[a].alloc - 1
  /\ top \in Val
  /\ pend \in Seq([a : Arrays, i : Index \cup {-1}, objs : Ids, grown : BOOLEAN])
  /\ status \in {"run", "hang", "overrun", "outside", "assert", "stale", "wild"}
  /\ lost \subseteq {"append", "self", "native"}

(* An array made by new (native_new_array), or a literal of the source     *)
(* (vm_init_const_table_elems), which is as large as it is long.           *)
NewArray  == [len : {0}, alloc : {InitSize}]
Literal   == {[len |-> n, alloc |-> n] : n \in 1 .. MaxLiteral}

Init ==
  \E made \in [Arrays -> NewArray \cup Literal] :
    /\ arr = [a \in Arrays |-> [len |-> made[a].len, alloc |-> made[a].alloc, objs |-> <<a, 0>>]]
    /\ objs = [id \in Ids |->
                 IF id[2] > 0 THEN Unused
                 ELSE [len   |-> made[id[1]].len,
                       cells |-> [i \in 0 .. made[id[1]].alloc - 1 |-> Nil]]]
    /\ top = Nil /\ pend = <<>> /\ status = "run" /\ lost = {}

-----------------------------------------------------------------------------
(* Growth.                                                                 *)

\* Mutant: a factor with which no small array grows.
FiveFourths(n) == (n * 5) \div 4

Larger(n) == (n * 3) \div 2

\* The sizes that the loop of arr_realloc_elems goes through.  A size that
\* Larger does not change is tried for ever.
Sizes(n, len) == LET s[k \in 0 .. len] == IF k = 0 THEN n ELSE Larger(s[k - 1]) IN s
Hangs(n, len) == \A k \in 0 .. len : Sizes(n, len)[k] < len

\* Mutant: the loop ends one element short.
NewSizeShort(n, len) ==
  LET s == Sizes(n, len)
      k == CHOOSE k \in 0 .. len : s[k] >= len - 1 /\ \A j \in 0 .. k - 1 : s[j] < len - 1
  IN s[k]

NewSize(n, len) ==
  LET s == Sizes(n, len)
      k == CHOOSE k \in 0 .. len : s[k] >= len /\ \A j \in 0 .. k - 1 : s[j] < len
  IN s[k]

\* Mutant: the array keeps its old size.
GrownOldSize(a, n) ==
  LET size == NewSize(arr[a].alloc, n) IN
  [arr  |-> [arr EXCEPT ![a] = [len |-> n, alloc |-> arr[a].alloc, objs |-> Fresh(a)]],
   objs |-> [objs EXCEPT ![Fresh(a)] =
               [len   |-> n,
                cells |-> [i \in 0 .. size - 1 |->
                             IF i < arr[a].len THEN Elems(a).cells[i] ELSE Nil]]]]

\* Mutant: one element too few is moved.
GrownLossy(a, n) ==
  LET size == NewSize(arr[a].alloc, n) IN
  [arr  |-> [arr EXCEPT ![a] = [len |-> n, alloc |-> size, objs |-> Fresh(a)]],
   objs |-> [objs EXCEPT ![Fresh(a)] =
               [len   |-> n,
                cells |-> [i \in 0 .. size - 1 |->
                             IF i < arr[a].len - 1 THEN Elems(a).cells[i] ELSE Nil]]]]

(* native_grow_array: arr and objs once the array a has moved to a larger  *)
(* elements object of length n.                                            *)
Grown(a, n) ==
  LET size == NewSize(arr[a].alloc, n) IN
  [arr  |-> [arr EXCEPT ![a] = [len |-> n, alloc |-> size, objs |-> Fresh(a)]],
   objs |-> [objs EXCEPT ![arr[a].objs].len = arr[a].len,
                         ![Fresh(a)] =
               [len   |-> n,
                cells |-> [i \in 0 .. size - 1 |->
                             IF i < arr[a].len THEN Elems(a).cells[i] ELSE Nil]]]]

\* History: the addresses into a that have become old.
Outdated(a) == [k \in DOMAIN pend |-> [pend[k] EXCEPT !.grown = @ \/ pend[k].a = a]]

\* Elements objects that nothing refers to are forgotten at once: that they
\* lie in memory until the next collection makes no difference.
Used(x, p) == {x[a].objs : a \in Arrays} \cup {p[k].objs : k \in DOMAIN p}
Keep(o) == objs' = [id \in Ids |-> IF id \in Used(arr', pend') THEN o[id] ELSE Unused]

Stop(why) == status' = why /\ UNCHANGED <<arr, objs, top, pend>>

-----------------------------------------------------------------------------
(* Reading and assigning.                                                  *)

(* The value of an expression that is no array element.                    *)
Load(v) ==
  /\ status = "run"
  /\ top' = v
  /\ UNCHANGED <<arr, objs, pend, status, lost>>

(* IDX, when its index is below the length: that it is negative is not     *)
(* tested.                                                                 *)
Idx(a, i) ==
  /\ status = "run" /\ i < arr[a].len
  /\ IF i < 0 THEN Stop("outside")
     ELSE top' = Elems(a).cells[i] /\ UNCHANGED <<arr, objs, pend, status>>
  /\ UNCHANGED lost

\* The array a made at least n long: grown, or set to that length.
AtLeast(a, n) ==
  IF n > arr[a].alloc THEN Grown(a, n)
  ELSE IF n > arr[a].len
    THEN [arr  |-> [arr EXCEPT ![a].len = n], objs |-> [objs EXCEPT ![arr[a].objs].len = n]]
  ELSE [arr |-> arr, objs |-> objs]

Address(a, i) == [a |-> a, i |-> i, objs |-> arr'[a].objs, grown |-> FALSE]

IdxA(a, i) ==
  /\ status = "run" /\ Len(pend) < MaxPending
  /\ UNCHANGED lost
  /\ IF i >= arr[a].alloc /\ Hangs(arr[a].alloc, i + 1) THEN Stop("hang")
     ELSE /\ arr' = AtLeast(a, i + 1).arr
          /\ pend' = Append(IF i >= arr[a].alloc THEN Outdated(a) ELSE pend, Address(a, i))
          /\ Keep(AtLeast(a, i + 1).objs)
          /\ UNCHANGED <<top, status>>

\* Mutant: the value goes to the element before.
StBefore ==
  /\ status = "run" /\ pend # <<>> /\ Last(pend).i > 0
  /\ pend' = Front(pend)
  /\ UNCHANGED <<arr, top, status, lost>>
  /\ Keep([objs EXCEPT ![Last(pend).objs].cells[Last(pend).i - 1] = top])

St ==
  /\ status = "run" /\ pend # <<>>
  /\ LET p == Last(pend) IN
       IF p.i < 0 THEN Stop("outside")
       ELSE /\ pend' = Front(pend)
            /\ UNCHANGED <<arr, top, status>>
            /\ Keep([objs EXCEPT ![p.objs].cells[p.i] = top])
  /\ UNCHANGED lost

-----------------------------------------------------------------------------
(* Native methods.                                                         *)

Length(a) ==
  /\ status = "run"
  /\ IF arr[a].len # Elems(a).len THEN Stop("assert")
     ELSE top' = Nil /\ UNCHANGED <<arr, objs, pend, status>>
  /\ UNCHANGED lost

\* s.arr and s.objs with the elements of b, one after the other, put into a
\* from old on.  When b is a, those put first are read again later.
Put(s, a, old, b) ==
  LET src == s.objs[s.arr[b].objs].cells
      n   == s.arr[b].len
      at(j) == IF a = b THEN src[j % old] ELSE src[j]
  IN [s.objs EXCEPT ![s.arr[a].objs].cells =
        [i \in DOMAIN @ |-> IF old <= i /\ i < old + n THEN at(i - old) ELSE @[i]]]

(* array_append.  Without growth only kek_array_t gets the new length.     *)
AppendTo(a, b) ==
  LET old   == arr[a].len
      new   == old + arr[b].len
      grow  == new > arr[a].alloc
      s     == IF grow THEN Grown(a, new)
               ELSE [arr |-> [arr EXCEPT ![a].len = new], objs |-> objs]
  IN /\ status = "run" /\ new <= MaxLen
     /\ lost' = lost \cup (IF a = b /\ old > 0 THEN {"self"} ELSE {})
                     \cup (IF ~grow /\ arr[b].len > 0 THEN {"append"} ELSE {})
     /\ IF grow /\ Hangs(arr[a].alloc, new) THEN Stop("hang")
        ELSE IF old + s.arr[b].len > s.arr[a].alloc THEN Stop("overrun")
        ELSE /\ arr' = s.arr
             /\ pend' = IF grow THEN Outdated(a) ELSE pend
             /\ Keep(Put(s, a, old, b))
             /\ top' = Nil /\ UNCHANGED status

(* native_arr_elem_set behind the last element, as string_split and        *)
(* vm_call_main use it.  The object it adds is no root while the array     *)
(* grows, and a collection leaves the pointer to it dangling.              *)
Add(a, v) ==
  LET i == arr[a].len  s == AtLeast(a, i + 1)  grow == i >= arr[a].alloc IN
  /\ status = "run" /\ i < MaxLen
  /\ IF grow /\ Hangs(arr[a].alloc, i + 1) THEN Stop("hang") /\ UNCHANGED lost
     ELSE /\ arr' = s.arr
          /\ pend' = IF grow THEN Outdated(a) ELSE pend
          /\ \E moved \in IF grow /\ v \in Refs THEN BOOLEAN ELSE {FALSE} :
               /\ Keep([s.objs EXCEPT ![s.arr[a].objs].cells[i] = IF moved THEN Dangling ELSE v])
               /\ lost' = IF moved THEN lost \cup {"native"} ELSE lost
          /\ UNCHANGED <<top, status>>

-----------------------------------------------------------------------------
\* Mutant: the last element is not visited.
VisitedBut1(o) ==
  [o EXCEPT !.cells = [i \in DOMAIN @ |-> IF i >= o.len - 1 /\ @[i] \in Refs THEN Dangling ELSE @[i]]]

\* An elements object after gc_cheney_copy_neighbor.
Visited(o) ==
  [o EXCEPT !.cells = [i \in DOMAIN @ |-> IF i >= o.len /\ @[i] \in Refs THEN Dangling ELSE @[i]]]

VisitedAll == [id \in Ids |-> IF objs[id] = Unused THEN Unused ELSE Visited(objs[id])]

(* A collection, at any allocation.                                        *)
Collect ==
  /\ status = "run"
  /\ objs' = VisitedAll
  /\ UNCHANGED <<arr, top, pend, status, lost>>

Next ==
  \/ \E v \in Refs \cup {Nil} : Load(v)
  \/ \E a \in Arrays, i \in Index \cup {-1} : Idx(a, i) \/ IdxA(a, i)
  \/ St \/ Collect
  \/ \E a \in Arrays : Length(a)
  \/ \E a, b \in Arrays : AppendTo(a, b)
  \/ \E a \in Arrays, v \in Refs \cup {Nil} : Add(a, v)

Spec == Init /\ [][Next]_vars

-----------------------------------------------------------------------------
(* Properties.                                                             *)

Content(a) == [i \in 1 .. arr[a].len |-> Elems(a).cells[i - 1]]

Contents == [a \in Arrays |-> Content(a)]

G == INSTANCE GrowingArray WITH content <- Contents

(* The two lengths of an array agree, as native_array_length asserts       *)
(* ("assert(arr->length == KEK_ARR_OBJS(arr)->h.length)",                  *)
(* vm/k_array.c:182).                                                      *)
LengthsAgree == status = "run" => \A a \in Arrays : arr[a].len = Elems(a).len

(* Until append has used the room left in an array, has been given the     *)
(* array itself, or a native method has added an object that it did not    *)
(* register: no element, no address waiting for its value, and no value    *)
(* read is a dangling pointer, and the lengths agree.                      *)
Sound ==
  lost = {} =>
    /\ LengthsAgree
    /\ top # Dangling
    /\ \A id \in Used(arr, pend) : \A i \in 0 .. objs[id].len - 1 : objs[id].cells[i] # Dangling

(* Until then, and in that first append too, every step is one on          *)
(* sequences or none: growing, moving and collecting keep all elements,    *)
(* change no other array, and uncover nil only.                            *)
ActsLikeArray ==
  [][lost = {} /\ status' = "run" /\ "native" \notin lost' => UNCHANGED Contents \/ G!Step]_vars

(* a[i] = e sets a[i], whatever e does to arrays, unless e makes a grow:   *)
(* then the value goes to the elements that a has left.                    *)
StoreLands ==
  [][St /\ status' = "run" /\ ~Last(pend).grown =>
       Contents'[Last(pend).a][Last(pend).i + 1] = top]_vars

(* Growing ends, but for an array of size 1, which stays 1 (1 * 3 / 2),    *)
(* and nothing is written behind the elements of an array, but when an     *)
(* array is appended to itself.                                            *)
GrowsInside ==
  /\ status = "hang" => \E a \in Arrays : arr[a].alloc = 1
  /\ status = "overrun" => "self" \in lost

=============================================================================

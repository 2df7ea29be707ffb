----------------------- MODULE GenerationalInvariant -----------------------
(***************************************************************************)
(* What makes the properties of Generational inductive: where objects are  *)
(* during a collection and, as long as nothing has been lost, which slots  *)
(* may still refer to the space that is left.                              *)
(***************************************************************************)
EXTENDS Generational

Quiet      == pc \in {"run", "retry", "no_space"}
Collecting == pc \in {"roots", "scan"}
Intact     == lost = "no"

ToObj   == {a \in NewAddr : a[1] = to /\ heap[a] # NoObj}
FromObj == {a \in NewAddr : a[1] # to /\ heap[a] # NoObj}
OldObj  == {a \in OldAddr : heap[a] # NoObj}

\* What a slot may hold before and after the collector has dealt with it.
Before(v) == IsRef(v) => v \in FromObj \cup OldObj
After(v)  == IsRef(v) => v \in ToObj \cup OldObj

Pending(s)  == s \in ToSet(todo) \cup ToSet(work)
Scanned(a, i) == a[2] < scan \/ (a[2] = scan /\ i < fld)

(* Old objects are where their identity says and are never forwarded; the  *)
(* to-space is filled up to the free pointer with what is no original.     *)
Places ==
  /\ \A a \in ToObj \cup FromObj : heap[a].state # 3
  /\ \A a \in OldObj : heap[a].state = 3 /\ heap[a].id = a[2] /\ heap[a].fwd = Null
  /\ \A a \in ToObj : a[2] < free /\ heap[a].fwd = Null
  /\ \A k \in 0 .. free - 1 : <<to, k>> \in ToObj
  /\ Quiet => FromObj = {}

(* Every copy has an original of its own: the to-space cannot overflow.    *)
Copies ==
  Collecting => \A k \in 0 .. free - 1 : \E a \in FromObj : heap[a].fwd = <<to, k>>

(* Remembered and pending slots are live root slots or slots of old        *)
(* objects; no root slot is visited twice.                                 *)
Slots ==
  /\ \A s \in ToSet(rs) \cup ToSet(todo) \cup ToSet(work) :
       s \in FieldSlot => s[2] \in OldObj
  /\ Collecting => \A s \in ToSet(todo) \cup ToSet(work) : s \in RootSlot => s \in Live
  /\ \A j, k \in DOMAIN todo : j < k /\ todo[j] = todo[k] => todo[j] \in FieldSlot
  /\ \A k \in DOMAIN work : work[k] \in RootSlot => Len(work) = 1 /\ work[k] \notin ToSet(todo)

Phases ==
  /\ pc \in {"roots", "scan", "retry"} => sp < StackSize
  /\ pc = "roots" => scan = 0 /\ fld = 1
  /\ pc = "scan" => todo = <<>> /\ work = <<>> /\ scan <= free

(* As long as nothing has been lost, no identity is in two places but in   *)
(* an original and its copy,                                               *)
Unique ==
  Intact =>
    \A a, b \in ToObj \cup FromObj \cup OldObj :
      heap[a].id = heap[b].id => a = b \/ heap[a].fwd = b \/ heap[b].fwd = a

(* originals keep their fields,                                            *)
Originals ==
  Intact /\ Collecting =>
    \A a \in FromObj :
      /\ \A i \in Slot : Before(heap[a].f[i])
      /\ heap[a].fwd # Null =>
           heap[a].fwd \in ToObj \cup OldObj /\ heap[heap[a].fwd].id = heap[a].id

(* and only what is pending or not yet scanned refers to them.             *)
Progress ==
  Intact /\ Collecting =>
    /\ \A r \in Live : IF Pending(r) THEN Before(root[r]) ELSE After(root[r])
    /\ \A a \in OldObj, i \in Slot :
         \/ After(heap[a].f[i])
         \/ Pending(Field(a, i)) /\ Before(heap[a].f[i])
    /\ \A a \in ToObj, i \in Slot :
         IF Scanned(a, i) THEN After(heap[a].f[i]) ELSE Before(heap[a].f[i])

(* Between collections everything is where it belongs and remembered.      *)
Settled ==
  Intact =>
    /\ pc \notin {"corrupt", "stray"}
    /\ Remembered
    /\ Quiet => /\ \A r \in Live : After(root[r])
                /\ \A a \in ToObj \cup OldObj, i \in Slot : After(heap[a].f[i])

(* The inductive invariant.                                                *)
IInv ==
  /\ TypeOK
  /\ Places /\ Copies /\ Slots /\ Phases
  /\ Unique /\ Originals /\ Progress /\ Settled
=============================================================================

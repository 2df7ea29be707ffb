-------------------------- MODULE CheneyInvariant --------------------------
(***************************************************************************)
(* The inductive invariant of the copying collector: what Tricolour and    *)
(* NoDangling need in order to be preserved by every single step.          *)
(***************************************************************************)
EXTENDS Cheney

(* The phases: no collection runs, or one runs or was stopped halfway.     *)
Quiet  == pc \in {"run", "retry", "no_space"}
InCopy == Collecting \/ pc = "no_to_space"

ToObj   == {a \in Addr : a[1] = to /\ heap[a] # NoObj}
FromObj == {a \in Addr : a[1] # to /\ heap[a] # NoObj}

End(a) == a[2] + CopySize[heap[a].t]

(* Slots that copy_neighbor does not look at are never written.            *)
UnusedSlots ==
  \A a \in Addr : heap[a] # NoObj =>
    \A i \in Slot : i > Slots[heap[a].t] => heap[a].f[i] = Null

(* Objects of the to-space lie below the free pointer and are no copies    *)
(* yet; while no collection runs there are no others.                      *)
ToSpaceShape ==
  Quiet \/ InCopy => \A a \in ToObj : a[2] < free /\ heap[a].fwd = Null
FromSpaceEmpty ==
  Quiet => FromObj = {}

(* Originals keep their fields: they point to originals.  A forwarding     *)
(* address is that of the copy, which has the same identity.               *)
Originals ==
  InCopy => \A a \in FromObj :
    /\ \A i \in Slot : Holds(Other(to), heap[a].f[i])
    /\ heap[a].fwd # Null =>
         /\ heap[a].fwd \in ToObj
         /\ heap[heap[a].fwd].id = heap[a].id

(* Every copy is where its original is forwarded to.                       *)
Copies ==
  InCopy => \A b \in ToObj : \E a \in FromObj : heap[a].fwd = b

(* Outside the to-space an identity belongs to one object; so it does in   *)
(* the to-space while there are no originals.                              *)
UniqueIds ==
  /\ \A a \in Addr : heap[a] # NoObj => heap[a].id <= lastId
  /\ Quiet => \A a, b \in ToObj : heap[a].id = heap[b].id => a = b
  /\ InCopy => \A a, b \in FromObj : heap[a].id = heap[b].id => a = b

(* The copies lie back to back from the bottom of the to-space up to the   *)
(* free pointer, and the scan pointer is at the beginning of one of them   *)
(* or at the free pointer.                                                 *)
Layout ==
  Collecting =>
    /\ \A a, b \in ToObj : a[2] < b[2] => End(a) <= b[2]
    /\ \A a \in ToObj : End(a) < free => <<to, End(a)>> \in ToObj
    /\ \A a \in ToObj : End(a) <= free
    /\ scan <= free
    /\ scan < free => <<to, scan>> \in ToObj

(* The object being scanned is behind the scan pointer; roots come first;  *)
(* only live slots are visited; an allocation that waits has a type and    *)
(* room on the stack for its result.                                       *)
Phases ==
  /\ pc # "run" => req \in Types /\ sp < StackSize
  /\ Collecting => todo \subseteq Live
  /\ Collecting /\ cur # Null => cur \in ToObj /\ cur[2] < scan /\ End(cur) = scan
  /\ pc = "roots" => scan = 0 /\ cur = Null
  /\ pc = "scan" => todo = {}
  /\ Collecting => fld >= 1

QuietRefs ==
  Quiet =>
    /\ \A r \in Live : Holds(to, root[r])
    /\ \A a \in ToObj : \A i \in Slot : Holds(to, heap[a].f[i])

IInv ==
  /\ TypeOK
  /\ UnusedSlots
  /\ ToSpaceShape
  /\ FromSpaceEmpty
  /\ Originals
  /\ Copies
  /\ UniqueIds
  /\ Layout
  /\ Phases
  /\ QuietRefs
  /\ Tricolour
  /\ NeverCorrupt

-----------------------------------------------------------------------------
(* What is reclaimed, and how much room the survivors need.                *)

(* A copy was made for a root slot or for a field of a copy before it.     *)
Parents ==
  Collecting \/ pc = "retry" =>
    \A a \in ToObj :
      \/ \E r \in Live \ todo : root[r] = a
      \/ \E b \in ToObj, i \in Slot : b[2] < a[2] /\ heap[b].f[i] = a

(* An object that is no larger as a copy than as it was allocated does not *)
(* reach into the next one, nor to the end of its segment; the copies fill *)
(* the to-space without gaps.                                              *)
Fits(a) == CopySize[heap[a].t] <= AllocSize[heap[a].t]
Apart(S) == \A a, b \in S : Fits(a) /\ a[2] < b[2] => End(a) <= b[2]
Extents ==
  /\ free = 0 \/ free < SegSize
  /\ Quiet => Apart(ToObj) /\ \A a \in ToObj : Fits(a) => End(a) <= free
  /\ InCopy => Apart(FromObj) /\ \A a \in FromObj : Fits(a) => End(a) < SegSize
  /\ InCopy => \A a \in FromObj : heap[a].fwd # Null => heap[heap[a].fwd].t = heap[a].t
  /\ Collecting => \A k \in 0 .. free - 1 : \E b \in ToObj : b[2] <= k /\ k < End(b)

SInv == IInv /\ Parents /\ Extents /\ OverflowNeedsGrowth

=============================================================================

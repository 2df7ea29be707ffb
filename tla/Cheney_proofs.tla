--------------------------- MODULE Cheney_proofs ---------------------------
(***************************************************************************)
(* Proofs about the copying collector for every segment size, every set of *)
(* types and every number of roots.                                        *)
(***************************************************************************)
EXTENDS CheneyInvariant, Induction

(* Addresses are pairs, and the values that are no references are not.     *)
LEMMA AddrFacts ==
  /\ \A a \in Addr : a[1] \in Seg /\ a[2] \in 0 .. SegSize - 1 /\ a = <<a[1], a[2]>>
  /\ \A s \in Seg, k \in 0 .. SegSize - 1 :
       <<s, k>> \in Addr /\ <<s, k>>[1] = s /\ <<s, k>>[2] = k
  /\ Null \notin Addr
  /\ Imm \notin Addr
  /\ NoObj \notin Obj
BY ValuesAssumption DEF Addr, Obj, Val, Slot

(* The two segments.                                                       *)
LEMMA OtherSegment ==
  ASSUME NEW s \in Seg
  PROVE  /\ Other(s) \in Seg
         /\ Other(s) # s
         /\ Other(Other(s)) = s
         /\ \A x \in Seg : x = s \/ x = Other(s)
<1>1. PICK s1 \in Seg, s2 \in Seg : s1 # s2 /\ Seg = {s1, s2}
  BY SegmentsAssumption
<1>2. \A x \in Seg : \E y \in Seg : y # x
  BY <1>1
<1>3. \A x \in Seg : Other(x) \in Seg /\ Other(x) # x
  BY <1>2 DEF Other
<1>. QED
  BY <1>1, <1>3

(* Root slots and the stack.                                               *)
LEMMA RootFacts ==
  /\ \A i \in 0 .. StackSize - 1 : Stack(i) \in RootSlot
  /\ \A i \in 0 .. NHandles - 1 : Handle(i) \in RootSlot
  /\ \A i, j : Stack(i) = Stack(j) => i = j
  /\ \A i, j : Handle(i) = Handle(j) => i = j
  /\ \A i, j : Stack(i) # Handle(j) /\ Stack(i) # Static(j) /\ Handle(i) # Static(j)
BY DEF Stack, Handle, Static, RootSlot

(* The live root slots are among the root slots.                           *)
LEMMA LiveFacts ==
  ASSUME hp \in 0 .. NHandles, sp \in 0 .. StackSize
  PROVE  /\ Live \subseteq RootSlot
         /\ sp > 0 => Stack(sp - 1) \in Live
         /\ sp > 1 => Stack(sp - 2) \in Live
         /\ hp > 0 => Handle(hp - 1) \in Live
BY RootsAssumption DEF Live, RootSlot, Stack, Handle, Static

(* The fields of an object.                                                *)
LEMMA ObjFields ==
  ASSUME NEW o \in Obj
  PROVE  /\ o.id \in Nat /\ o.t \in Types /\ o.f \in [Slot -> Val]
         /\ o.fwd \in Addr \cup {Null}
         /\ \A i \in Slot : o.f[i] \in Val
BY DEF Obj

(* What is popped loses its value, the other slots keep theirs.            *)
LEMMA PoppedFacts ==
  ASSUME TypeOK, NEW k \in Nat
  PROVE  /\ Popped(k) \in [RootSlot -> Val]
         /\ \A r \in RootSlot : Popped(k)[r] = Null \/ Popped(k)[r] = root[r]
BY DEF Popped, TypeOK, Val

-----------------------------------------------------------------------------
(* Outside a collection most of the invariant says nothing.                *)
LEMMA QuietVacuous ==
  ASSUME Quiet', TypeOK', UnusedSlots', ToSpaceShape', FromSpaceEmpty',
         UniqueIds', QuietRefs', pc' # "run" => req' \in Types /\ sp' < StackSize
  PROVE  IInv'
BY DEF IInv, Quiet, InCopy, Collecting, Originals, Copies, Layout, Phases,
       Tricolour, NeverCorrupt

(* A new object at the free pointer: the shape of the memory.              *)
LEMMA PlaceHeap ==
  ASSUME IInv, pc = "run" \/ pc = "retry", NEW t \in Types, sp < StackSize,
         CanMalloc(AllocSize[t]), Place(t),
         to' = to, hp' = hp, pc' = "run", req' \in Types \cup {Null},
         UNCHANGED gcVars
  PROVE  IInv'
<1> DEFINE new == [id |-> lastId + 1, t |-> t, f |-> [i \in Slot |-> Null], fwd |-> Null]
<1> USE DEF Quiet
<1>t. TypeOK
  BY DEF IInv
<1>a. /\ <<to, free>> \in Addr
      /\ <<to, free>>[1] = to
      /\ <<to, free>>[2] = free
  <2>1. free \in 0 .. SegSize - 1
    BY <1>t, TypesAssumption, SegmentsAssumption DEF TypeOK, CanMalloc
  <2>. QED
    BY <2>1, <1>t, AddrFacts DEF TypeOK
<1>n. new \in Obj /\ new # NoObj
  BY <1>t, AddrFacts DEF Obj, Val, TypeOK
<1>h. /\ heap'[<<to, free>>] = new
      /\ \A a \in Addr : a # <<to, free>> => heap'[a] = heap[a]
  BY <1>a, <1>t DEF Place, TypeOK
<1>f. \A a \in Addr : a # <<to, free>> /\ a \in ToObj' => a \in ToObj /\ a[2] < free
  BY <1>h, <1>a DEF ToObj, IInv, ToSpaceShape
<1>1. TypeOK'
  BY <1>t, <1>n, <1>a, RootFacts, RootsAssumption, TypesAssumption
     DEF TypeOK, Place, gcVars, Val
<1>2. UnusedSlots'
  BY <1>h, <1>n DEF UnusedSlots, IInv
<1>3. ToSpaceShape'
  <2>1. free' > free
    BY <1>t, TypesAssumption DEF TypeOK, Place
  <2>2. \A a \in ToObj : a[2] < free /\ heap[a].fwd = Null
    BY DEF ToSpaceShape, IInv
  <2>3. ASSUME NEW a \in ToObj' PROVE a[2] < free' /\ heap'[a].fwd = Null
    <3>1. a \in Addr
      BY DEF ToObj
    <3>2. CASE a = <<to, free>>
      BY <3>2, <1>h, <1>a, <2>1
    <3>3. CASE a # <<to, free>>
      <4>1. a \in ToObj /\ heap'[a] = heap[a]
        BY <3>1, <3>3, <1>f, <1>h
      <4>2. a[2] \in Int /\ free \in Int /\ free' \in Int
        BY <3>1, <1>t, <1>1, AddrFacts DEF TypeOK
      <4>. QED
        BY <4>1, <4>2, <2>1, <2>2
    <3>. QED
      BY <3>2, <3>3
  <2>. QED
    BY <2>3 DEF ToSpaceShape
<1>4. FromSpaceEmpty'
  BY <1>h, <1>a DEF FromSpaceEmpty, FromObj, IInv
<1>5. UniqueIds'
  <2>1. lastId' = lastId + 1 /\ lastId \in Nat
    BY <1>t DEF Place, TypeOK
  <2>2. \A a \in Addr : heap[a] # NoObj => heap[a].id \in Nat /\ heap[a].id <= lastId
    BY <1>t DEF IInv, UniqueIds, TypeOK, Obj
  <2>3. \A a \in Addr : heap'[a] # NoObj => heap'[a].id <= lastId'
    BY <2>1, <2>2, <1>h
  <2>4. \A a, b \in ToObj : heap[a].id = heap[b].id => a = b
    BY DEF IInv, UniqueIds
  <2>5. \A a \in ToObj' : a # <<to, free>> => a \in ToObj /\ heap'[a] = heap[a]
                                             /\ heap[a].id <= lastId /\ heap[a].id \in Nat
    BY <1>f, <1>h, <2>2 DEF ToObj
  <2>6. \A a, b \in ToObj' : heap'[a].id = heap'[b].id => a = b
    BY <2>1, <2>4, <2>5, <1>h
  <2>. QED
    BY <2>3, <2>6 DEF UniqueIds, InCopy, Collecting
<1>6. QuietRefs'
  <2>1. \A v : Holds(to, v) => Holds(to, v)'
    BY <1>h, <1>n DEF Holds, IsRef
  <2>2. ASSUME NEW r \in Live' PROVE Holds(to, root[r])'
    <3>1. r = Stack(sp) \/ r \in Live
      BY <1>t DEF Live, Place, TypeOK
    <3>2. CASE r = Stack(sp)
      <4>1. Stack(sp) \in RootSlot
        BY <1>t, RootFacts, RootsAssumption DEF TypeOK
      <4>2. root'[r] = <<to, free>>
        BY <3>2, <4>1, <1>t DEF Place, TypeOK
      <4>. QED
        BY <4>2, <1>h, <1>a, <1>n DEF Holds
    <3>3. CASE r # Stack(sp)
      <4>1. root'[r] = root[r]
        BY <3>1, <3>3, <1>t, LiveFacts DEF Place, TypeOK
      <4>. QED
        BY <4>1, <3>1, <3>3, <2>1 DEF QuietRefs, IInv
    <3>. QED
      BY <3>2, <3>3
  <2>3. ASSUME NEW a \in ToObj', NEW i \in Slot PROVE Holds(to, heap[a].f[i])'
    <3>1. CASE a = <<to, free>>
      BY <3>1, <1>h, AddrFacts DEF Holds, IsRef
    <3>2. CASE a # <<to, free>>
      BY <3>2, <1>h, <2>1 DEF QuietRefs, IInv, ToObj
    <3>. QED
      BY <3>1, <3>2
  <2>. QED
    BY <2>2, <2>3 DEF QuietRefs
<1>. QED
  BY <1>1, <1>2, <1>3, <1>4, <1>5, <1>6, QuietVacuous

(* An operation that only moves references between root slots.             *)
LEMMA RootsOnly ==
  ASSUME IInv, pc = "run",
         UNCHANGED <<heapVars, to, pc, req, gcVars>>,
         root' \in [RootSlot -> Val],
         hp' \in 0 .. NHandles,
         sp' \in 0 .. StackSize,
         \A r \in Live' : Holds(to, root'[r])
  PROVE  IInv'
<1> USE DEF heapVars, gcVars
<1>1. TypeOK'
  BY DEF IInv, TypeOK
<1>2. UnusedSlots' /\ FromSpaceEmpty' /\ ToSpaceShape'
  BY DEF IInv, UnusedSlots, FromSpaceEmpty, ToSpaceShape, FromObj, ToObj, Quiet, InCopy, Collecting
<1>3. UniqueIds'
  BY DEF IInv, UniqueIds, FromObj, ToObj, Quiet, InCopy, Collecting
<1>4. QuietRefs'
  <2>1. \A v : Holds(to, v)' <=> Holds(to, v)
    BY DEF Holds, IsRef
  <2>2. \A r \in Live' : Holds(to, root[r])'
    BY DEF Holds, IsRef
  <2>3. \A a \in ToObj : \A i \in Slot : Holds(to, heap[a].f[i])
    BY DEF IInv, QuietRefs, Quiet
  <2>4. \A a \in ToObj' : \A i \in Slot : Holds(to, heap[a].f[i])'
    BY <2>3 DEF Holds, IsRef, ToObj
  <2>. QED
    BY <2>2, <2>4 DEF QuietRefs
<1>. QED
  BY <1>1, <1>2, <1>3, <1>4, QuietVacuous DEF Quiet

(* What the mutator can get hold of in a quiet state.                      *)
LEMMA QuietReach ==
  ASSUME IInv, pc = "run"
  PROVE  /\ TypeOK
         /\ \A r \in Live : Holds(to, root[r]) /\ root[r] \in Val
         /\ \A r \in Live : IsRef(root[r]) => root[r] \in ToObj
         /\ \A a \in ToObj : /\ heap[a] \in Obj
                            /\ \A i \in Slot : Holds(to, heap[a].f[i]) /\ heap[a].f[i] \in Val
         /\ Holds(to, Null) /\ Holds(to, Imm)
<1>1. TypeOK
  BY DEF IInv
<1>2. Live \subseteq RootSlot
  BY <1>1, LiveFacts DEF TypeOK
<1>3. \A r \in Live : Holds(to, root[r]) /\ root[r] \in Val
  BY <1>1, <1>2 DEF IInv, QuietRefs, Quiet, TypeOK
<1>4. \A a \in ToObj : \A i \in Slot : Holds(to, heap[a].f[i])
  BY DEF IInv, QuietRefs, Quiet
<1>5. \A a \in ToObj : heap[a] \in Obj
  BY <1>1 DEF TypeOK, ToObj
<1>6. \A a \in ToObj : \A i \in Slot : heap[a].f[i] \in Val
  BY <1>5, ObjFields
<1>7. \A r \in Live : IsRef(root[r]) => root[r] \in ToObj
  BY <1>3 DEF Holds, ToObj, IsRef
<1>. QED
  BY <1>1, <1>3, <1>4, <1>5, <1>6, <1>7, AddrFacts DEF Holds, IsRef

(* Growing and shrinking the set of live root slots.                       *)
LEMMA LiveShift ==
  ASSUME TypeOK
  PROVE  /\ hp' = hp /\ sp' = sp + 1 => Live' = Live \cup {Stack(sp)}
         /\ hp' = hp /\ sp' = sp - 1 /\ sp > 0 => Live' \subseteq Live \ {Stack(sp - 1)}
         /\ hp' = hp /\ sp' = sp - 2 /\ sp > 1 => Live' \subseteq Live \ {Stack(sp - 1)}
         /\ hp' = hp + 1 /\ sp' = sp - 1 /\ sp > 0 =>
              Live' \subseteq Live \cup {Handle(hp)}
         /\ hp' = hp - 1 /\ sp' = sp + 1 /\ hp > 0 =>
              Live' \subseteq (Live \ {Handle(hp - 1)}) \cup {Stack(sp)}
<1> USE DEF TypeOK
<1>1. sp \in Nat /\ hp \in Nat
  BY RootsAssumption
<1>2. ASSUME hp' = hp, sp' = sp + 1 PROVE Live' = Live \cup {Stack(sp)}
  BY <1>1, <1>2 DEF Live
<1>3. ASSUME hp' = hp, sp' = sp - 1, sp > 0 PROVE Live' \subseteq Live \ {Stack(sp - 1)}
  BY <1>1, <1>3, RootFacts DEF Live
<1>4. ASSUME hp' = hp, sp' = sp - 2, sp > 1 PROVE Live' \subseteq Live \ {Stack(sp - 1)}
  BY <1>1, <1>4, RootFacts DEF Live
<1>5. ASSUME hp' = hp + 1, sp' = sp - 1, sp > 0 PROVE Live' \subseteq Live \cup {Handle(hp)}
  BY <1>1, <1>5 DEF Live
<1>6. ASSUME hp' = hp - 1, sp' = sp + 1, hp > 0
      PROVE  Live' \subseteq (Live \ {Handle(hp - 1)}) \cup {Stack(sp)}
  BY <1>1, <1>6, RootFacts DEF Live
<1>. QED
  BY <1>2, <1>3, <1>4, <1>5, <1>6

(* NEW, when there is room.                                                *)
LEMMA NewStep == ASSUME IInv, NEW t \in Types, New(t) PROVE IInv'
<1>1. req' \in Types \cup {Null}
  BY DEF New, IInv, TypeOK
<1>. QED
  BY <1>1, PlaceHeap DEF New

(* Loading copies a live reference.                                        *)
LEMMA LoadStep ==
  ASSUME IInv, NEW v \in {root[r] : r \in Live} \cup {Imm}, Load(v)
  PROVE  IInv'
<1> USE DEF Load
<1>1. TypeOK /\ v \in Val /\ Holds(to, v)
  BY QuietReach DEF Val
<1>2. Stack(sp) \in RootSlot /\ Live' = Live \cup {Stack(sp)}
  BY <1>1, RootFacts, LiveShift, RootsAssumption DEF TypeOK
<1>3. \A r \in Live' : root'[r] = v \/ (r \in Live /\ root'[r] = root[r])
  BY <1>1, <1>2, LiveFacts DEF TypeOK
<1>4. \A r \in Live' : Holds(to, root'[r])
  BY <1>1, <1>3, QuietReach
<1>5. root' \in [RootSlot -> Val] /\ sp' \in 0 .. StackSize /\ hp' \in 0 .. NHandles
  BY <1>1, <1>2, RootsAssumption DEF TypeOK
<1>. QED
  BY <1>4, <1>5, RootsOnly DEF Load

(* What an object of the to-space refers to is in the to-space.            *)
LEMMA LoadFieldStep == ASSUME IInv, NEW i \in Slot, LoadField(i) PROVE IInv'
<1> USE DEF LoadField
<1> DEFINE v == heap[Top].f[i]
<1>0. TypeOK
  BY DEF IInv
<1>1. Stack(sp - 1) \in Live /\ Live \subseteq RootSlot
  BY <1>0, LiveFacts DEF TypeOK
<1>2. Top \in ToObj
  BY <1>1, QuietReach DEF Top
<1>3. v \in Val /\ Holds(to, v)
  BY <1>2, QuietReach
<1>4. Live' = Live
  BY DEF Live
<1>5. \A r \in Live' : root'[r] = v \/ root'[r] = root[r]
  BY <1>0, <1>1, <1>4 DEF TypeOK
<1>6. \A r \in Live' : Holds(to, root'[r])
  BY <1>3, <1>4, <1>5, QuietReach
<1>7. root' \in [RootSlot -> Val] /\ sp' \in 0 .. StackSize /\ hp' \in 0 .. NHandles
  BY <1>0, <1>1, <1>3 DEF TypeOK
<1>. QED
  BY <1>6, <1>7, RootsOnly DEF LoadField

(* ST into a variable.                                                     *)
LEMMA StoreRootStep == ASSUME IInv, NEW r \in RootSlot, StoreRoot(r) PROVE IInv'
<1> USE DEF StoreRoot
<1>0. TypeOK
  BY DEF IInv
<1>1. Stack(sp - 1) \in Live /\ Live \subseteq RootSlot
  BY <1>0, LiveFacts DEF TypeOK
<1>2. Top \in Val /\ Holds(to, Top)
  BY <1>1, QuietReach DEF Top
<1>3. Popped(1) \in [RootSlot -> Val]
      /\ \A q \in RootSlot : Popped(1)[q] = Null \/ Popped(1)[q] = root[q]
  BY <1>0, PoppedFacts
<1>4. Live' \subseteq Live
  BY <1>0, LiveShift
<1>5. \A q \in Live' : root'[q] = Top \/ root'[q] = Null \/ root'[q] = root[q]
  BY <1>1, <1>3, <1>4
<1>6. \A q \in Live' : Holds(to, root'[q])
  BY <1>2, <1>4, <1>5, QuietReach
<1>7. root' \in [RootSlot -> Val] /\ sp' \in 0 .. StackSize /\ hp' \in 0 .. NHandles
  BY <1>0, <1>2, <1>3, RootsAssumption DEF TypeOK
<1>. QED
  BY <1>6, <1>7, RootsOnly DEF StoreRoot

(* Popping only drops a root.                                              *)
LEMMA PopStep == ASSUME IInv, Pop PROVE IInv'
<1> USE DEF Pop
<1>0. TypeOK
  BY DEF IInv
<1>1. root' \in [RootSlot -> Val] /\ \A q \in RootSlot : root'[q] = Null \/ root'[q] = root[q]
  BY <1>0, PoppedFacts
<1>2. Live' \subseteq Live /\ Live \subseteq RootSlot
  BY <1>0, LiveShift, LiveFacts DEF TypeOK
<1>3. \A q \in Live' : Holds(to, root'[q])
  BY <1>1, <1>2, QuietReach
<1>4. sp' \in 0 .. StackSize /\ hp' \in 0 .. NHandles
  BY <1>0, RootsAssumption DEF TypeOK
<1>. QED
  BY <1>1, <1>3, <1>4, RootsOnly DEF Pop

(* gc_rootset_add moves a reference from the stack to a handle.            *)
LEMMA RegisterStep == ASSUME IInv, Register PROVE IInv'
<1> USE DEF Register
<1>0. TypeOK
  BY DEF IInv
<1>1. Stack(sp - 1) \in Live /\ Live \subseteq RootSlot /\ Handle(hp) \in RootSlot
  BY <1>0, LiveFacts, RootFacts, RootsAssumption DEF TypeOK
<1>2. Top \in Val /\ Holds(to, Top)
  BY <1>1, QuietReach DEF Top
<1>3. Popped(1) \in [RootSlot -> Val]
      /\ \A q \in RootSlot : Popped(1)[q] = Null \/ Popped(1)[q] = root[q]
  BY <1>0, PoppedFacts
<1>4. Live' \subseteq Live \cup {Handle(hp)}
  BY <1>0, LiveShift
<1>5. \A q \in Live' : root'[q] = Top \/ root'[q] = Null \/ (q \in Live /\ root'[q] = root[q])
  BY <1>1, <1>3, <1>4
<1>6. \A q \in Live' : Holds(to, root'[q])
  BY <1>2, <1>5, QuietReach
<1>7. root' \in [RootSlot -> Val] /\ sp' \in 0 .. StackSize /\ hp' \in 0 .. NHandles
  BY <1>0, <1>1, <1>2, <1>3, RootsAssumption DEF TypeOK
<1>. QED
  BY <1>6, <1>7, RootsOnly DEF Register

(* gc_rootset_remove_id moves it back.                                     *)
LEMMA UnregisterStep == ASSUME IInv, Unregister PROVE IInv'
<1> USE DEF Unregister
<1> DEFINE v == root[Handle(hp - 1)]
<1>0. TypeOK
  BY DEF IInv
<1>1. /\ Handle(hp - 1) \in Live /\ Live \subseteq RootSlot
      /\ Handle(hp - 1) \in RootSlot /\ Stack(sp) \in RootSlot
  BY <1>0, LiveFacts, RootFacts, RootsAssumption DEF TypeOK
<1>2. v \in Val /\ Holds(to, v)
  BY <1>1, QuietReach
<1>3. Live' \subseteq Live \cup {Stack(sp)}
  BY <1>0, LiveShift
<1>4. \A q \in RootSlot : root'[q] = v \/ root'[q] = Null \/ (q # Stack(sp) /\ root'[q] = root[q])
  BY <1>0, <1>1 DEF TypeOK
<1>5. \A q \in Live' : Holds(to, root'[q])
  BY <1>1, <1>2, <1>3, <1>4, QuietReach
<1>6. root' \in [RootSlot -> Val] /\ sp' \in 0 .. StackSize /\ hp' \in 0 .. NHandles
  BY <1>0, <1>1, <1>2, RootsAssumption DEF TypeOK, Val
<1>. QED
  BY <1>5, <1>6, RootsOnly DEF Unregister

(* ST into an instance variable keeps the object's identity, type and address. *)
LEMMA StoreFieldStep == ASSUME IInv, NEW i \in Slot, StoreField(i) PROVE IInv'
<1> USE DEF StoreField
<1> DEFINE dst == root[Stack(sp - 2)]
           o   == heap[dst]
           n   == [o EXCEPT !.f[i] = Top]
<1>0. TypeOK
  BY DEF IInv
<1>1. Stack(sp - 1) \in Live /\ Stack(sp - 2) \in Live /\ Live \subseteq RootSlot
  BY <1>0, LiveFacts DEF TypeOK
<1>2. Top \in Val /\ Holds(to, Top) /\ dst \in ToObj
  BY <1>1, QuietReach DEF Top
<1>3. o \in Obj /\ n \in Obj /\ n # NoObj
  BY <1>2, QuietReach, AddrFacts DEF Obj
<1>4. /\ n.id = o.id /\ n.t = o.t /\ n.fwd = o.fwd /\ n.f[i] = Top
      /\ \A j \in Slot : j # i => n.f[j] = o.f[j]
  BY <1>3 DEF Obj
<1>5. heap' = [heap EXCEPT ![dst] = n]
  OBVIOUS
<1> HIDE DEF n
<1>6. heap'[dst] = n /\ \A a \in Addr : a # dst => heap'[a] = heap[a]
  BY <1>0, <1>2, <1>5 DEF TypeOK, ToObj
<1>7. ToObj' = ToObj /\ FromObj' = FromObj /\ \A v : Holds(to, v)' <=> Holds(to, v)
  BY <1>2, <1>3, <1>6 DEF ToObj, FromObj, Holds, IsRef
<1>8. /\ Popped(2) \in [RootSlot -> Val]
      /\ \A q \in RootSlot : Popped(2)[q] = Null \/ Popped(2)[q] = root[q]
  BY <1>0, PoppedFacts
<1>9. Live' \subseteq Live
  BY <1>0, LiveShift
<1>a. TypeOK'
  <2>1. heap' \in [Addr -> Obj \cup {NoObj}]
    BY <1>0, <1>3, <1>5 DEF TypeOK
  <2>. QED
    BY <2>1, <1>0, <1>8, RootsAssumption DEF TypeOK, gcVars
<1>b. UnusedSlots'
  <2>1. \A a \in Addr : heap[a] # NoObj =>
          \A j \in Slot : j > Slots[heap[a].t] => heap[a].f[j] = Null
    BY DEF IInv, UnusedSlots
  <2>2. i <= Slots[o.t]
    OBVIOUS
  <2>3. i \in Int /\ Slots[o.t] \in Int
    BY <1>3, TypesAssumption DEF Obj, Slot
  <2>4. \A j \in Slot : j > Slots[n.t] => n.f[j] = Null
    BY <1>2, <1>4, <2>1, <2>2, <2>3 DEF ToObj
  <2>5. ASSUME NEW a \in Addr, heap'[a] # NoObj, NEW j \in Slot, j > Slots[heap'[a].t]
        PROVE  heap'[a].f[j] = Null
    <3>1. CASE a = dst
      BY <3>1, <2>4, <2>5, <1>6, Zenon
    <3>2. CASE a # dst
      <4>1. heap'[a] = heap[a]
        BY <3>2, <1>6, Zenon
      <4>. QED
        BY <4>1, <2>1, <2>5, Zenon
    <3>. QED
      BY <3>1, <3>2, Zenon
  <2>. QED
    BY <2>5, Zenon DEF UnusedSlots
<1>c. ToSpaceShape' /\ FromSpaceEmpty'
  BY <1>4, <1>6, <1>7 DEF ToSpaceShape, FromSpaceEmpty, IInv, ToObj, Quiet, InCopy, Collecting
<1>d. UniqueIds'
  BY <1>2, <1>4, <1>6, <1>7, SMTT(20) DEF UniqueIds, IInv, ToObj, Quiet, InCopy, Collecting
<1>e. QuietRefs'
  <2>1. \A q \in Live' : Holds(to, root'[q])
    BY <1>1, <1>8, <1>9, QuietReach
  <2>2. \A a \in ToObj, j \in Slot : Holds(to, heap'[a].f[j])
    <3>1. \A a \in ToObj, j \in Slot : Holds(to, heap[a].f[j])
      BY QuietReach
    <3>. QED
      BY <3>1, <1>2, <1>4, <1>6, SMTT(20) DEF ToObj, Holds
  <2>. QED
    BY <2>1, <2>2, <1>7 DEF QuietRefs, Holds, IsRef
<1>. QED
  BY <1>a, <1>b, <1>c, <1>d, <1>e, QuietVacuous DEF Quiet

(* Swapping the spaces turns every object into an original.                *)
LEMMA StartStep == ASSUME IInv, NEW t \in Types, StartScavenge(t) PROVE IInv'
<1> USE DEF StartScavenge
<1>0. TypeOK
  BY DEF IInv
<1>1. to' \in Seg /\ to' # to /\ Other(to') = to
  BY <1>0, OtherSegment DEF TypeOK
<1>2. TypeOK'
  <2>1. Live \subseteq RootSlot
    BY <1>0, LiveFacts DEF TypeOK
  <2>. QED
    BY <2>1, <1>0, <1>1 DEF TypeOK, rootVars
<1>3. ToObj' = {} /\ FromObj' = ToObj
  <2>1. \A a \in Addr : a[1] # to => heap[a] = NoObj
    BY DEF IInv, FromSpaceEmpty, FromObj, Quiet
  <2>. QED
    BY <2>1, <1>0, <1>1, AddrFacts, OtherSegment DEF ToObj, FromObj, TypeOK
<1>4. UnusedSlots' /\ ToSpaceShape' /\ FromSpaceEmpty' /\ Copies' /\ Layout' /\ NeverCorrupt'
  BY <1>3, <1>0 DEF IInv, UnusedSlots, ToSpaceShape, FromSpaceEmpty, Copies, Layout, NeverCorrupt,
     Quiet, InCopy, Collecting
<1>5. Originals'
  <2>1. \A a \in ToObj : heap[a].fwd = Null /\ \A i \in Slot : Holds(to, heap[a].f[i])
    BY DEF IInv, ToSpaceShape, QuietRefs, Quiet
  <2>. QED
    BY <2>1, <1>1, <1>3 DEF Originals, Holds, IsRef
<1>6. UniqueIds'
  BY <1>3 DEF IInv, UniqueIds, Quiet, InCopy, Collecting
<1>7. Phases' /\ QuietRefs'
  BY DEF Phases, QuietRefs, Quiet, Collecting, Live, rootVars
<1>8. Tricolour'
  <2>1. Live' = Live
    BY DEF Live, rootVars
  <2>2. \A r \in Live : Holds(to, root[r])
    BY DEF IInv, QuietRefs, Quiet
  <2>3. \A r \in Live' : Holds(IF r \in todo THEN Other(to) ELSE to, root[r])'
    BY <1>1, <2>1, <2>2 DEF Holds, IsRef, rootVars
  <2>4. \A a \in Addr : ~ (a[1] = to' /\ heap'[a] # NoObj)
    BY <1>3 DEF ToObj
  <2>. QED
    BY <2>3, <2>4 DEF Tricolour
<1>. QED
  BY <1>2, <1>4, <1>5, <1>6, <1>7, <1>8 DEF IInv

-----------------------------------------------------------------------------
(* The three things that can become of a pointer to an original.           *)
LEMMA EvacuatedFacts ==
  ASSUME IInv, Collecting, NEW v \in Val, Holds(Other(to), v)
  PROVE  LET e == Evacuated(v) IN
         \/ /\ e.heap = heap /\ e.free = free /\ e.pc = pc
            /\ e.val \in Val /\ Holds(to, e.val)
         \/ /\ e.heap = heap /\ e.free = free /\ e.pc = "no_to_space" /\ e.val = v
         \/ /\ v \in FromObj /\ heap[v].fwd = Null
            /\ CopyFits(CopySize[heap[v].t])
            /\ e.heap = [heap EXCEPT ![<<to, free>>] = heap[v],
                                     ![v] = [heap[v] EXCEPT !.fwd = <<to, free>>]]
            /\ e.free = free + CopySize[heap[v].t]
            /\ e.pc = pc /\ e.val = <<to, free>>
<1>0. TypeOK
  BY DEF IInv
<1>1. CASE ~IsRef(v)
  BY <1>1 DEF Evacuated, Holds
<1>2. CASE IsRef(v)
  <2>1. v \in FromObj /\ v[1] # to
    BY <1>0, <1>2, OtherSegment DEF Holds, FromObj, IsRef, TypeOK
  <2>2. CASE heap[v].fwd # Null
    <3>1. heap[v].fwd \in ToObj
      BY <2>1, <2>2 DEF IInv, Originals, InCopy
    <3>2. heap[v].fwd \in Val /\ Holds(to, heap[v].fwd)
      BY <3>1 DEF ToObj, Holds, Val
    <3>. QED
      BY <1>2, <2>2, <3>2 DEF Evacuated
  <2>3. CASE heap[v].fwd = Null /\ ~CopyFits(CopySize[heap[v].t])
    BY <1>2, <2>1, <2>3 DEF Evacuated
  <2>4. CASE heap[v].fwd = Null /\ CopyFits(CopySize[heap[v].t])
    BY <1>2, <2>1, <2>4 DEF Evacuated, Moved
  <2>. QED
    BY <2>2, <2>3, <2>4
<1>. QED
  BY <1>1, <1>2

(* The place a copy goes to is free memory of the to-space.                *)
LEMMA FreePlace ==
  ASSUME IInv, Collecting, NEW v \in FromObj, CopyFits(CopySize[heap[v].t])
  PROVE  /\ <<to, free>> \in Addr /\ <<to, free>>[1] = to /\ <<to, free>>[2] = free
         /\ <<to, free>> \notin ToObj /\ heap[<<to, free>>] = NoObj
         /\ <<to, free>> # v
         /\ heap[v] \in Obj
         /\ CopySize[heap[v].t] \in Nat \ {0}
         /\ \A a \in ToObj : a[2] < free
<1>0. TypeOK
  BY DEF IInv
<1>1. heap[v] \in Obj /\ CopySize[heap[v].t] \in Nat \ {0}
  BY <1>0, TypesAssumption DEF TypeOK, FromObj, Obj
<1>2. free \in 0 .. SegSize - 1
  BY <1>0, <1>1, SegmentsAssumption DEF TypeOK, CopyFits
<1>3. <<to, free>> \in Addr /\ <<to, free>>[1] = to /\ <<to, free>>[2] = free
  BY <1>0, <1>2, AddrFacts DEF TypeOK
<1>4. \A a \in ToObj : a[2] < free
  BY DEF IInv, ToSpaceShape, InCopy
<1>5. <<to, free>> \notin ToObj
  BY <1>2, <1>3, <1>4
<1>. QED
  BY <1>1, <1>3, <1>4, <1>5 DEF ToObj, FromObj

(* Copying an object keeps every part of the invariant that is about       *)
(* identities, forwarding addresses and the layout of the to-space.        *)
LEMMA AfterCopy ==
  ASSUME IInv, Collecting, NEW v \in FromObj, heap[v].fwd = Null,
         CopyFits(CopySize[heap[v].t]), TypeOK',
         UNCHANGED <<to, lastId, scan, pc>>,
         free' = free + CopySize[heap[v].t],
         heap'[<<to, free>>] = heap[v],
         heap'[v] = [heap[v] EXCEPT !.fwd = <<to, free>>],
         \A a \in Addr : a # v /\ a # <<to, free>> /\ a \notin ToObj => heap'[a] = heap[a],
         \A a \in ToObj : /\ heap'[a] # NoObj /\ heap'[a].id = heap[a].id
                          /\ heap'[a].t = heap[a].t /\ heap'[a].fwd = heap[a].fwd
  PROVE  /\ ToSpaceShape' /\ FromSpaceEmpty' /\ Originals' /\ Copies' /\ UniqueIds' /\ Layout'
         /\ ToObj' = ToObj \cup {<<to, free>>}
         /\ FromObj' = FromObj
         /\ \A s, w : Holds(s, w) => Holds(s, w)'
<1> DEFINE size == CopySize[heap[v].t]
<1>p. PICK p : p = <<to, free>>
  OBVIOUS
<1>0. TypeOK
  BY DEF IInv
<1>1. /\ p \in Addr /\ p[1] = to /\ p[2] = free /\ p \notin ToObj /\ heap[p] = NoObj /\ p # v
      /\ heap[v] \in Obj /\ size \in Nat \ {0} /\ \A a \in ToObj : a[2] < free
  BY <1>p, FreePlace
<1>2. /\ heap'[p] = heap[v] /\ heap[v] # NoObj /\ heap'[v] # NoObj
      /\ heap'[v].id = heap[v].id /\ heap'[v].t = heap[v].t /\ heap'[v].f = heap[v].f
      /\ heap'[v].fwd = p
  BY <1>p, <1>1, AddrFacts DEF FromObj, Obj
<1> HIDE DEF size
<1>3. ToObj' = ToObj \cup {p} /\ FromObj' = FromObj
  BY <1>p, <1>1, <1>2 DEF ToObj, FromObj
<1>4. \A a \in FromObj : a # v => heap'[a] = heap[a]
  BY <1>p, <1>1 DEF ToObj, FromObj
<1>5. \A s, w : Holds(s, w) => Holds(s, w)'
  BY <1>p, <1>2 DEF Holds, ToObj, IsRef
<1>6. ToSpaceShape'
  <2>1. \A a \in ToObj : a[2] < free' /\ heap'[a].fwd = Null
    BY <1>0, <1>1, AddrFacts DEF IInv, ToSpaceShape, InCopy, TypeOK, size, ToObj
  <2>2. p[2] < free' /\ heap'[p].fwd = Null
    BY <1>0, <1>1, <1>2 DEF TypeOK, size
  <2>. QED
    BY <1>3, <2>1, <2>2 DEF ToSpaceShape
<1>7. FromSpaceEmpty'
  BY DEF FromSpaceEmpty, Quiet, Collecting
<1>8. Originals'
  <2>1. \A a \in FromObj : /\ \A i \in Slot : Holds(Other(to), heap[a].f[i])
                           /\ heap[a].fwd # Null => /\ heap[a].fwd \in ToObj
                                                   /\ heap[heap[a].fwd].id = heap[a].id
    BY DEF IInv, Originals, InCopy
  <2>2. ASSUME NEW a \in FromObj, NEW i \in Slot
        PROVE  Holds(Other(to), heap[a].f[i])'
    <3>1. Holds(Other(to), heap[a].f[i])
      BY <2>1, Zenon
    <3>2. heap'[a].f[i] = heap[a].f[i] /\ Other(to)' = Other(to)
      BY <1>2, <1>4 DEF Other
    <3>3. \A s, w : s = Other(to) /\ w = heap[a].f[i] => Holds(s, w)'
      BY <3>1, <1>5, Zenon
    <3>. QED
      BY <3>2, <3>3, Zenon
  <2>3. \A a \in FromObj : a # v /\ heap'[a].fwd # Null =>
           heap'[a].fwd \in ToObj' /\ heap'[heap'[a].fwd].id = heap'[a].id
    BY <2>1, <1>3, <1>4
  <2>4. heap'[v].fwd \in ToObj' /\ heap'[heap'[v].fwd].id = heap'[v].id
    BY <1>2, <1>3
  <2>. QED
    BY <1>3, <2>2, <2>3, <2>4 DEF Originals
<1>9. Copies'
  <2>1. \A b \in ToObj : \E a \in FromObj : heap[a].fwd = b
    BY DEF IInv, Copies, InCopy
  <2>2. \A a \in Addr : a # Null
    BY AddrFacts
  <2>3. \A b \in ToObj : \E a \in FromObj : heap'[a].fwd = b
    BY <2>1, <2>2, <1>4 DEF ToObj
  <2>. QED
    BY <2>3, <1>2, <1>3 DEF Copies
<1>10. UniqueIds'
  <2>1. ASSUME NEW a \in Addr, heap'[a] # NoObj
        PROVE  heap'[a].id <= lastId'
    <3>1. \A b \in Addr : heap[b] # NoObj => heap[b].id <= lastId'
      BY Zenon DEF IInv, UniqueIds
    <3>2. CASE a \in ToObj
      BY <3>1, <3>2 DEF ToObj
    <3>3. CASE a = p \/ a = v
      BY <3>1, <3>3, <1>2 DEF FromObj
    <3>4. CASE a \notin ToObj /\ a # p /\ a # v
      BY <3>1, <3>4, <2>1, <1>p
    <3>. QED
      BY <3>2, <3>3, <3>4, Zenon
  <2>2. \A a \in FromObj : heap'[a].id = heap[a].id
    BY <1>2, <1>4
  <2>3. \A a, b \in FromObj' : heap'[a].id = heap'[b].id => a = b
    BY <2>2, <1>3 DEF IInv, UniqueIds, InCopy
  <2>. QED
    BY <2>1, <2>3 DEF UniqueIds, Quiet, Collecting
<1>11. Layout'
  <2> DEFINE end(a) == a[2] + CopySize[heap[a].t]
  <2>1. /\ \A a, b \in ToObj : a[2] < b[2] => end(a) <= b[2]
        /\ \A a \in ToObj : end(a) < free => <<to, end(a)>> \in ToObj
        /\ \A a \in ToObj : end(a) <= free
        /\ scan <= free
        /\ scan < free => <<to, scan>> \in ToObj
    BY DEF IInv, Layout, End
  <2>2. \A a \in ToObj : /\ heap'[a].t = heap[a].t /\ a[2] \in Int /\ end(a) \in Int
    BY <1>0, AddrFacts, TypesAssumption DEF TypeOK, ToObj, Obj
  <2>3. p[2] + CopySize[heap'[p].t] = free' /\ free' = free + size
        /\ free \in Int /\ size \in Int /\ size > 0 /\ scan \in Int
    BY <1>0, <1>1, <1>2 DEF TypeOK, size
  <2>4. \A a \in ToObj : end(a)' = end(a)
    BY <2>2
  <2> HIDE DEF end
  <2>5. \A a, b \in ToObj' : a[2] < b[2] => end(a)' <= b[2]
    <3>1. \A a, b \in ToObj : a[2] < b[2] => end(a)' <= b[2]
      BY <2>1, <2>4
    <3>2. \A a \in ToObj : end(a)' <= p[2]
      BY <2>1, <2>4, <1>1
    <3>3. \A b \in ToObj : ~ (p[2] < b[2])
      BY <2>2, <2>3, <1>1
    <3>. QED
      BY <3>1, <3>2, <3>3, <2>3, <1>1, <1>3
  <2>6. \A a \in ToObj' : end(a)' <= free' /\ (end(a)' < free' => <<to, end(a)'>> \in ToObj')
    <3>1. ASSUME NEW a \in ToObj
          PROVE  end(a)' <= free' /\ (end(a)' < free' => <<to, end(a)'>> \in ToObj')
      <4>1. end(a) < free \/ end(a) = free
        BY <2>1, <2>2, <2>3
      <4>. QED
        BY <1>p, <4>1, <2>1, <2>2, <2>3, <2>4, <1>3
    <3>2. end(p)' = free'
      BY <2>3 DEF end
    <3>. QED
      BY <3>1, <3>2, <2>3, <1>3
  <2>7. scan' <= free' /\ (scan' < free' => <<to, scan'>> \in ToObj')
    BY <1>p, <2>1, <2>3, <1>3
  <2>. QED
    BY <2>5, <2>6, <2>7 DEF Layout, End, end
<1>. QED
  BY <1>p, <1>3, <1>5, <1>6, <1>7, <1>8, <1>9, <1>10, <1>11

(* A step that copies nothing and at most redirects fields of copies, or   *)
(* stops halfway, keeps the same parts.                                    *)
LEMMA AfterNoCopy ==
  ASSUME IInv, Collecting, TypeOK',
         UNCHANGED <<to, lastId, free>>,
         pc' \in {"roots", "scan", "no_to_space"},
         \A a \in Addr : a \notin ToObj => heap'[a] = heap[a],
         \A a \in ToObj : /\ heap'[a] # NoObj /\ heap'[a].id = heap[a].id
                          /\ heap'[a].t = heap[a].t /\ heap'[a].fwd = heap[a].fwd
  PROVE  /\ ToSpaceShape' /\ FromSpaceEmpty' /\ Originals' /\ Copies' /\ UniqueIds'
         /\ scan' = scan => Layout'
         /\ ToObj' = ToObj
         /\ FromObj' = FromObj
         /\ \A s, w : Holds(s, w) => Holds(s, w)'
<1>0. TypeOK
  BY DEF IInv
<1>1. ToObj' = ToObj /\ FromObj' = FromObj
  BY DEF ToObj, FromObj
<1>2. \A a \in FromObj : heap'[a] = heap[a]
  BY DEF ToObj, FromObj
<1>3. \A s, w : Holds(s, w) => Holds(s, w)'
  BY DEF Holds, ToObj, IsRef
<1>4. ToSpaceShape' /\ FromSpaceEmpty'
  BY <1>1 DEF IInv, ToSpaceShape, FromSpaceEmpty, Quiet, InCopy, Collecting
<1>5. Originals'
  <2>1. \A a \in FromObj : /\ \A i \in Slot : Holds(Other(to), heap[a].f[i])
                           /\ heap[a].fwd # Null => /\ heap[a].fwd \in ToObj
                                                   /\ heap[heap[a].fwd].id = heap[a].id
    BY DEF IInv, Originals, InCopy
  <2>. QED
    BY <2>1, <1>1, <1>2, <1>3 DEF Originals
<1>6. Copies'
  BY <1>1, <1>2 DEF IInv, Copies, InCopy
<1>7. UniqueIds'
  <2>1. \A a \in Addr : heap'[a] # NoObj => heap'[a].id <= lastId'
    BY DEF IInv, UniqueIds, ToObj
  <2>. QED
    BY <2>1, <1>1, <1>2 DEF IInv, UniqueIds, Quiet, InCopy, Collecting
<1>8. ASSUME scan' = scan PROVE Layout'
  BY <1>1, <1>8 DEF IInv, Layout, End
<1>. QED
  BY <1>1, <1>3, <1>4, <1>5, <1>6, <1>7, <1>8

(* A root slot is redirected to the copy.                                  *)
LEMMA CopyRootStep == ASSUME IInv, CopyRoot PROVE IInv'
<1> USE DEF CopyRoot
<1>0. TypeOK /\ Collecting
  BY DEF IInv, Collecting
<1>1. PICK r \in todo :
        /\ todo' = todo \ {r}
        /\ heap' = Evacuated(root[r]).heap
        /\ free' = Evacuated(root[r]).free
        /\ pc' = Evacuated(root[r]).pc
        /\ root' = [root EXCEPT ![r] = Evacuated(root[r]).val]
  OBVIOUS
<1>p. PICK p : p = <<to, free>>
  OBVIOUS
<1>v. PICK v : v = root[r]
  OBVIOUS
<1>2. /\ todo \subseteq Live /\ Live \subseteq RootSlot /\ v \in Val /\ Holds(Other(to), v)
      /\ Live' = Live
  BY <1>0, <1>1, <1>v, LiveFacts DEF IInv, Phases, Tricolour, TypeOK, Live
<1>3. \/ /\ heap' = heap /\ free' = free /\ pc' = pc
         /\ Evacuated(v).val \in Val /\ Holds(to, Evacuated(v).val)
      \/ /\ heap' = heap /\ free' = free /\ pc' = "no_to_space" /\ Evacuated(v).val = v
      \/ /\ v \in FromObj /\ heap[v].fwd = Null
         /\ CopyFits(CopySize[heap[v].t])
         /\ heap' = [heap EXCEPT ![<<to, free>>] = heap[v],
                                 ![v] = [heap[v] EXCEPT !.fwd = <<to, free>>]]
         /\ free' = free + CopySize[heap[v].t]
         /\ pc' = pc /\ Evacuated(v).val = <<to, free>>
  BY <1>0, <1>1, <1>2, <1>v, EvacuatedFacts
<1> DEFINE w == Evacuated(v).val
<1>w. root' = [root EXCEPT ![r] = w] /\ todo' = todo \ {r}
  BY <1>1, <1>v
<1> HIDE DEF w
<1>4. CASE heap' = heap /\ free' = free /\ pc' = pc /\ w \in Val /\ Holds(to, w)
  <2>1. TypeOK'
    BY <1>0, <1>2, <1>4, <1>w DEF TypeOK
  <2>2. UnusedSlots'
    BY <1>4 DEF IInv, UnusedSlots
  <2>3. /\ ToSpaceShape' /\ FromSpaceEmpty' /\ Originals' /\ Copies' /\ UniqueIds' /\ Layout'
        /\ \A s, x : Holds(s, x) => Holds(s, x)'
    BY <1>0, <1>4, <2>1, AfterNoCopy DEF ToObj
  <2>4. Phases' /\ QuietRefs' /\ NeverCorrupt'
    BY <1>2, <1>4, <1>w DEF IInv, Phases, QuietRefs, Quiet, NeverCorrupt, Collecting
  <2>5. Tricolour'
    <3>1. \A q \in Live' : Holds(IF q \in todo' THEN Other(to) ELSE to, root'[q])
      BY <1>0, <1>2, <1>4, <1>w DEF IInv, Tricolour, TypeOK
    <3>2. \A q \in Live' : Holds(IF q \in todo THEN Other(to) ELSE to, root[q])'
      BY <3>1, <2>3
    <3>. QED
      BY <3>2, <2>3, <1>0, <1>4 DEF IInv, Tricolour, Black
  <2>. QED
    BY <2>1, <2>2, <2>3, <2>4, <2>5 DEF IInv
<1>5. CASE heap' = heap /\ free' = free /\ pc' = "no_to_space" /\ w = v
  <2>1. TypeOK'
    BY <1>0, <1>2, <1>5, <1>w DEF TypeOK
  <2>2. UnusedSlots'
    BY <1>5 DEF IInv, UnusedSlots
  <2>3. ToSpaceShape' /\ FromSpaceEmpty' /\ Originals' /\ Copies' /\ UniqueIds' /\ Layout'
    BY <1>0, <1>5, <2>1, AfterNoCopy DEF ToObj
  <2>4. Phases' /\ QuietRefs' /\ NeverCorrupt' /\ Tricolour'
    BY <1>5 DEF IInv, Phases, QuietRefs, Quiet, NeverCorrupt, Collecting, Tricolour
  <2>. QED
    BY <2>1, <2>2, <2>3, <2>4 DEF IInv
<1>6. CASE /\ v \in FromObj /\ heap[v].fwd = Null
           /\ CopyFits(CopySize[heap[v].t])
           /\ heap' = [heap EXCEPT ![p] = heap[v], ![v] = [heap[v] EXCEPT !.fwd = p]]
           /\ free' = free + CopySize[heap[v].t]
           /\ pc' = pc /\ w = p
  <2>1. /\ p \in Addr /\ p[1] = to /\ p[2] = free /\ p \notin ToObj /\ p # v
        /\ heap[v] \in Obj /\ CopySize[heap[v].t] \in Nat
    BY <1>p, <1>0, <1>6, FreePlace
  <2>2. /\ heap'[p] = heap[v] /\ heap'[v] = [heap[v] EXCEPT !.fwd = p]
        /\ \A a \in Addr : a # p /\ a # v => heap'[a] = heap[a]
    BY <1>0, <1>6, <2>1 DEF TypeOK, FromObj
  <2>3. heap'[v] \in Obj /\ heap'[v].t = heap[v].t /\ heap'[v].f = heap[v].f
    BY <2>1, <2>2 DEF Obj
  <2>4. TypeOK'
    <3>1. heap' \in [Addr -> Obj \cup {NoObj}]
      BY <1>0, <1>6, <2>1, <2>2, <2>3 DEF TypeOK
    <3>. QED
      BY <3>1, <1>0, <1>2, <1>6, <1>w, <2>1 DEF TypeOK, Val
  <2>5. UnusedSlots'
    <3>1. \A a \in Addr : heap[a] # NoObj =>
            \A i \in Slot : i > Slots[heap[a].t] => heap[a].f[i] = Null
      BY DEF IInv, UnusedSlots
    <3>2. v \in Addr /\ heap[v] # NoObj
      BY <1>6 DEF FromObj
    <3>3. \A i \in Slot : i > Slots[heap'[v].t] => heap'[v].f[i] = Null
      BY <3>1, <3>2, <2>3
    <3>4. \A i \in Slot : i > Slots[heap'[p].t] => heap'[p].f[i] = Null
      BY <3>1, <3>2, <2>2
    <3>5. \A a \in Addr : a # p /\ a # v /\ heap'[a] # NoObj =>
            \A i \in Slot : i > Slots[heap'[a].t] => heap'[a].f[i] = Null
      BY <3>1, <2>2
    <3>. QED
      BY <3>3, <3>4, <3>5 DEF UnusedSlots
  <2>6. /\ \A a \in Addr : a # v /\ a # p /\ a \notin ToObj => heap'[a] = heap[a]
        /\ \A a \in ToObj : heap'[a] = heap[a] /\ heap[a] # NoObj
    BY <1>6, <2>1, <2>2 DEF ToObj, FromObj
  <2>7. /\ ToSpaceShape' /\ FromSpaceEmpty' /\ Originals' /\ Copies' /\ UniqueIds' /\ Layout'
        /\ ToObj' = ToObj \cup {p}
        /\ \A s, x : Holds(s, x) => Holds(s, x)'
    <3>1. UNCHANGED <<to, lastId, scan, pc>>
      BY <1>6
    <3>2. heap'[<<to, free>>] = heap[v] /\ heap'[v] = [heap[v] EXCEPT !.fwd = <<to, free>>]
      BY <1>p, <2>2
    <3>3. \A a \in Addr : a # v /\ a # <<to, free>> /\ a \notin ToObj => heap'[a] = heap[a]
      BY <1>p, <2>6
    <3>4. \A a \in ToObj : /\ heap'[a] # NoObj /\ heap'[a].id = heap[a].id
                            /\ heap'[a].t = heap[a].t /\ heap'[a].fwd = heap[a].fwd
      BY <2>6
    <3> HIDE DEF CopyRoot
    <3>. QED
      BY <3>1, <3>2, <3>3, <3>4, <1>p, <1>0, <1>6, <2>4, AfterCopy
  <2>8. Phases' /\ QuietRefs' /\ NeverCorrupt'
    BY <1>2, <1>6, <1>w DEF IInv, Phases, QuietRefs, Quiet, NeverCorrupt, Collecting
  <2>9. Tricolour'
    <3>1. \A q \in Live : q # r => Holds(IF q \in todo' THEN Other(to) ELSE to, root'[q])
      BY <1>0, <1>2, <1>w DEF IInv, Tricolour, TypeOK
    <3>2. Holds(to, root[r])'
      BY <1>0, <1>2, <1>6, <1>w, <2>1, <2>2 DEF TypeOK, Holds, FromObj
    <3>3. \A q \in Live' : Holds(IF q \in todo THEN Other(to) ELSE to, root[q])'
      BY <3>1, <3>2, <1>2, <1>w, <2>7
    <3>4. scan = 0 /\ cur = Null /\ cur' = cur /\ scan' = scan
      BY DEF IInv, Phases
    <3>5. \A a \in ToObj : \A i \in Slot : Holds(Other(to), heap[a].f[i])
      <4>1. \A a \in ToObj : a[2] \in Nat /\ a # Null
        BY AddrFacts DEF ToObj
      <4>. QED
        BY <4>1, <3>4, <1>0 DEF IInv, Tricolour, Black, ToObj
    <3>6. \A i \in Slot : Holds(Other(to), heap[v].f[i])
      BY <1>0, <1>6 DEF IInv, Originals, InCopy
    <3>7. \A a \in ToObj' : \A i \in Slot : Holds(Other(to), heap'[a].f[i])
      BY <3>5, <3>6, <2>2, <2>6, <2>7
    <3>8. \A a \in ToObj' : a[2] \in Nat /\ a # Null
      BY AddrFacts DEF ToObj
    <3>. QED
      BY <3>3, <3>4, <3>7, <3>8, <2>7 DEF Tricolour, Black, ToObj
  <2>. QED
    BY <2>4, <2>5, <2>7, <2>8, <2>9 DEF IInv
<1>. QED
  BY <1>p, <1>3, <1>4, <1>5, <1>6 DEF w

(* A field of the object being scanned is redirected to the copy.          *)
LEMMA CopyNeighborStep == ASSUME IInv, CopyNeighbor PROVE IInv'
<1>0. TypeOK /\ Collecting /\ pc = "scan" /\ fld' = fld + 1
      /\ UNCHANGED <<to, root, hp, sp, lastId, req, todo, scan, cur>>
  BY DEF IInv, Collecting, CopyNeighbor, rootVars
<1>p. PICK p : p = <<to, free>>
  OBVIOUS
<1>v. PICK v : v = heap[cur].f[fld]
  OBVIOUS
<1>1. /\ cur \in ToObj /\ cur # Null /\ heap[cur] \in Obj /\ fld \in Slot
      /\ cur[2] < scan /\ End(cur) = scan
  BY <1>0, TypesAssumption, SMTT(20) DEF IInv, Phases, CopyNeighbor, TypeOK, ToObj, Obj, Slot
<1>2. v \in Val /\ Holds(Other(to), v)
  <2>1. \A a \in ToObj : \A i \in Slot :
          Holds(IF Black(a) \/ (a = cur /\ i < fld) THEN to ELSE Other(to), heap[a].f[i])
    BY <1>0 DEF IInv, Tricolour, ToObj
  <2>2. ~Black(cur) /\ ~(fld < fld)
    BY <1>0 DEF Black, TypeOK
  <2>. QED
    BY <2>1, <2>2, <1>1, <1>v, ObjFields
<1>3. \/ /\ Evacuated(v).heap = heap /\ Evacuated(v).free = free /\ Evacuated(v).pc = pc
         /\ Evacuated(v).val \in Val /\ Holds(to, Evacuated(v).val)
      \/ /\ Evacuated(v).heap = heap /\ Evacuated(v).free = free
         /\ Evacuated(v).pc = "no_to_space" /\ Evacuated(v).val = v
      \/ /\ v \in FromObj /\ heap[v].fwd = Null
         /\ CopyFits(CopySize[heap[v].t])
         /\ Evacuated(v).heap = [heap EXCEPT ![<<to, free>>] = heap[v],
                                             ![v] = [heap[v] EXCEPT !.fwd = <<to, free>>]]
         /\ Evacuated(v).free = free + CopySize[heap[v].t]
         /\ Evacuated(v).pc = pc /\ Evacuated(v).val = <<to, free>>
  BY <1>0, <1>2, EvacuatedFacts
<1> DEFINE w == Evacuated(v).val
           g == Evacuated(v).heap
<1>w. /\ heap' = [g EXCEPT ![cur].f[fld] = w]
      /\ free' = Evacuated(v).free /\ pc' = Evacuated(v).pc
  BY <1>v DEF CopyNeighbor
<1> HIDE DEF w, g
<1> DEFINE n == [heap[cur] EXCEPT !.f[fld] = w]
<1>n. ASSUME w \in Val
      PROVE  /\ n \in Obj /\ n # NoObj /\ n.id = heap[cur].id /\ n.t = heap[cur].t
             /\ n.fwd = heap[cur].fwd /\ n.f[fld] = w
             /\ \A i \in Slot : i # fld => n.f[i] = heap[cur].f[i]
  BY <1>1, <1>n, AddrFacts DEF Obj
<1>m. fld <= Slots[heap[cur].t] /\ Slots[heap[cur].t] \in Int
  <2>1. fld <= Slots[heap[cur].t]
    BY Zenon DEF CopyNeighbor
  <2>2. heap[cur].t \in Types
    BY <1>1, Zenon DEF Obj
  <2>3. Slots[heap[cur].t] \in 0 .. MaxSlots
    BY <2>2, TypesAssumption, Zenon
  <2>. QED
    BY <2>1, <2>3, TypesAssumption
<1> HIDE DEF n
<1>4. CASE g = heap /\ free' = free /\ pc' \in {pc, "no_to_space"} /\ w \in Val
           /\ (pc' = pc => Holds(to, w))
  <2>1. heap' = [heap EXCEPT ![cur] = n]
    BY <1>4, <1>w DEF n
  <2>2. heap'[cur] = n /\ \A a \in Addr : a # cur => heap'[a] = heap[a]
    BY <2>1, <1>0, <1>1 DEF TypeOK, ToObj
  <2>3. TypeOK'
    <3>1. heap' \in [Addr -> Obj \cup {NoObj}]
      BY <2>1, <1>0, <1>4, <1>n DEF TypeOK
    <3>. QED
      BY <3>1, <1>0, <1>4 DEF TypeOK
  <2>4. UnusedSlots'
    <3>1. \A a \in Addr : heap[a] # NoObj =>
            \A i \in Slot : i > Slots[heap[a].t] => heap[a].f[i] = Null
      BY DEF IInv, UnusedSlots
    <3>2. \A i \in Slot : i > Slots[n.t] => n.f[i] = Null
      BY <3>1, <1>1, <1>4, <1>n, <1>m DEF ToObj, Slot
    <3>. QED
      BY <3>1, <3>2, <2>2 DEF UnusedSlots
  <2>5. /\ \A a \in Addr : a \notin ToObj => heap'[a] = heap[a]
        /\ \A a \in ToObj : /\ heap'[a] # NoObj /\ heap'[a].id = heap[a].id
                            /\ heap'[a].t = heap[a].t /\ heap'[a].fwd = heap[a].fwd
    BY <2>2, <1>1, <1>4, <1>n DEF ToObj
  <2>6. /\ ToSpaceShape' /\ FromSpaceEmpty' /\ Originals' /\ Copies' /\ UniqueIds' /\ Layout'
        /\ ToObj' = ToObj
        /\ \A s, x : Holds(s, x) => Holds(s, x)'
    BY <1>0, <1>4, <2>3, <2>5, AfterNoCopy
  <2>7. Phases' /\ QuietRefs' /\ NeverCorrupt'
    <3>1. End(cur)' = End(cur)
      BY <1>0, <1>1, <2>5 DEF End
    <3>2. fld \in Nat /\ Live' = Live
      BY <1>0 DEF TypeOK, Live
    <3>. QED
      BY <3>1, <3>2, <1>0, <1>1, <1>4, <2>6
         DEF IInv, Phases, QuietRefs, Quiet, NeverCorrupt, Collecting
  <2>8. Tricolour'
    <3>1. CASE pc' = "no_to_space"
      BY <3>1 DEF Tricolour, Collecting
    <3>2. CASE pc' = pc
      <4>1. \A q \in Live' : Holds(IF q \in todo THEN Other(to) ELSE to, root[q])'
        BY <1>0, <2>6 DEF IInv, Tricolour, Live
      <4>2. \A a \in ToObj : \A i \in Slot :
              Holds(IF Black(a) \/ (a = cur /\ i < fld) THEN to ELSE Other(to), heap[a].f[i])
        BY <1>0 DEF IInv, Tricolour, ToObj
      <4>3. ASSUME NEW a \in ToObj, NEW i \in Slot
            PROVE  Holds(IF Black(a) \/ (a = cur /\ i < fld) THEN to ELSE Other(to),
                         heap[a].f[i])'
        <5>1. CASE a # cur
          BY <5>1, <4>2, <4>3, <2>2, <2>6, <1>0 DEF Black, ToObj
        <5>2. CASE a = cur /\ i = fld
          <6>1. heap'[a].f[i] = w /\ fld < fld'
            BY <5>2, <2>2, <1>0, <1>4, <1>n DEF TypeOK
          <6>. QED
            BY <6>1, <5>2, <3>2, <1>0, <1>4, <2>6
        <5>3. CASE a = cur /\ i # fld
          <6>1. heap'[a].f[i] = heap[a].f[i] /\ (i < fld' <=> i < fld)
            BY <5>3, <2>2, <1>0, <1>4, <1>n DEF TypeOK, Slot
          <6>2. ~Black(a) /\ ~Black(a)'
            BY <5>3, <1>0 DEF Black
          <6>. QED
            BY <6>1, <6>2, <5>3, <4>2, <4>3, <2>6, <1>0
        <5>. QED
          BY <5>1, <5>2, <5>3
      <4>. QED
        BY <4>1, <4>3, <2>6 DEF Tricolour, ToObj
    <3>. QED
      BY <3>1, <3>2, <1>4
  <2>. QED
    BY <2>3, <2>4, <2>6, <2>7, <2>8 DEF IInv
<1>6. CASE /\ v \in FromObj /\ heap[v].fwd = Null
           /\ CopyFits(CopySize[heap[v].t])
           /\ g = [heap EXCEPT ![p] = heap[v], ![v] = [heap[v] EXCEPT !.fwd = p]]
           /\ free' = free + CopySize[heap[v].t]
           /\ pc' = pc /\ w = p
  <2> DEFINE o == [heap[v] EXCEPT !.fwd = p]
  <2>1. /\ p \in Addr /\ p[1] = to /\ p[2] = free /\ p \notin ToObj /\ p # v
        /\ heap[v] \in Obj /\ CopySize[heap[v].t] \in Nat
    BY <1>p, <1>0, <1>6, FreePlace
  <2>2. cur # p /\ cur # v /\ v \in Addr /\ heap[v] # NoObj /\ w \in Val
    BY <1>1, <1>6, <2>1 DEF ToObj, FromObj, Val
  <2>3. g[cur] = heap[cur]
    BY <1>0, <1>1, <1>6, <2>1, <2>2 DEF TypeOK, ToObj
  <2>4. heap' = [g EXCEPT ![cur] = n]
    BY <2>3, <1>w DEF n
  <2>5. o \in Obj /\ o.t = heap[v].t /\ o.f = heap[v].f
    BY <2>1 DEF Obj
  <2> HIDE DEF o
  <2>6. /\ heap'[p] = heap[v] /\ heap'[v] = o /\ heap'[cur] = n
        /\ \A a \in Addr : a # p /\ a # v /\ a # cur => heap'[a] = heap[a]
    BY <1>0, <1>1, <1>6, <2>1, <2>2, <2>4 DEF TypeOK, ToObj, o
  <2>7. TypeOK'
    <3>1. heap' \in [Addr -> Obj \cup {NoObj}]
      BY <1>0, <1>6, <2>1, <2>2, <2>4, <2>5, <1>n DEF TypeOK, o
    <3>. QED
      BY <3>1, <1>0, <1>6, <2>1 DEF TypeOK
  <2>8. UnusedSlots'
    <3>1. \A a \in Addr : heap[a] # NoObj =>
            \A i \in Slot : i > Slots[heap[a].t] => heap[a].f[i] = Null
      BY DEF IInv, UnusedSlots
    <3>2. \A i \in Slot : i > Slots[n.t] => n.f[i] = Null
      BY <3>1, <1>1, <2>2, <1>n, <1>m DEF ToObj, Slot
    <3>3. \A i \in Slot : i > Slots[heap'[v].t] => heap'[v].f[i] = Null
      BY <3>1, <2>2, <2>5, <2>6
    <3>4. \A i \in Slot : i > Slots[heap'[p].t] => heap'[p].f[i] = Null
      BY <3>1, <2>2, <2>6
    <3>5. \A a \in Addr : a # p /\ a # v /\ a # cur /\ heap'[a] # NoObj =>
            \A i \in Slot : i > Slots[heap'[a].t] => heap'[a].f[i] = Null
      BY <3>1, <2>6
    <3>. QED
      BY <3>2, <3>3, <3>4, <3>5, <2>6 DEF UnusedSlots
  <2>9. /\ ToSpaceShape' /\ FromSpaceEmpty' /\ Originals' /\ Copies' /\ UniqueIds' /\ Layout'
        /\ ToObj' = ToObj \cup {p}
        /\ \A s, x : Holds(s, x) => Holds(s, x)'
    <3>1. UNCHANGED <<to, lastId, scan, pc>>
      BY <1>0, <1>6
    <3>2. heap'[<<to, free>>] = heap[v] /\ heap'[v] = [heap[v] EXCEPT !.fwd = <<to, free>>]
      BY <1>p, <2>6 DEF o
    <3>3. \A a \in Addr : a # v /\ a # <<to, free>> /\ a \notin ToObj => heap'[a] = heap[a]
      BY <1>p, <1>1, <2>6
    <3>4. \A a \in ToObj : /\ heap'[a] # NoObj /\ heap'[a].id = heap[a].id
                            /\ heap'[a].t = heap[a].t /\ heap'[a].fwd = heap[a].fwd
      BY <1>6, <2>1, <2>2, <2>6, <1>n DEF ToObj, FromObj
    <3>. QED
      BY <3>1, <3>2, <3>3, <3>4, <1>p, <1>0, <1>6, <2>7, AfterCopy
  <2>10. Phases' /\ QuietRefs' /\ NeverCorrupt'
    <3>1. End(cur)' = End(cur)
      BY <1>0, <1>1, <2>2, <2>6, <1>n DEF End
    <3>2. fld \in Nat /\ Live' = Live
      BY <1>0 DEF TypeOK, Live
    <3>. QED
      BY <3>1, <3>2, <1>0, <1>1, <1>6, <2>9
         DEF IInv, Phases, QuietRefs, Quiet, NeverCorrupt, Collecting
  <2>11. Tricolour'
    <3>1. \A q \in Live' : Holds(IF q \in todo THEN Other(to) ELSE to, root[q])'
      BY <1>0, <2>9 DEF IInv, Tricolour, Live
    <3>2. \A a \in ToObj : \A i \in Slot :
            Holds(IF Black(a) \/ (a = cur /\ i < fld) THEN to ELSE Other(to), heap[a].f[i])
      BY <1>0 DEF IInv, Tricolour, ToObj
    <3>3. \A i \in Slot : Holds(Other(to), heap[v].f[i])
      BY <1>0, <1>6 DEF IInv, Originals, InCopy
    <3>4. ASSUME NEW a \in ToObj', NEW i \in Slot
          PROVE  Holds(IF Black(a) \/ (a = cur /\ i < fld) THEN to ELSE Other(to),
                       heap[a].f[i])'
      <4>1. CASE a = p
        <5>1. ~Black(a)' /\ a # cur'
          <6>1. scan <= free /\ scan \in Nat /\ free \in Nat
            BY <1>0 DEF IInv, Layout, TypeOK
          <6>. QED
            BY <6>1, <4>1, <1>0, <2>1, <2>2 DEF Black
        <5>. QED
          BY <5>1, <4>1, <3>3, <2>6, <2>9, <1>0
      <4>2. CASE a \in ToObj /\ a # cur
        <5>1. heap'[a] = heap[a]
          BY <4>2, <1>6, <2>1, <2>6 DEF ToObj, FromObj
        <5>. QED
          BY <5>1, <4>2, <3>2, <3>4, <2>9, <1>0 DEF Black
      <4>3. CASE a = cur /\ i = fld
        <5>1. heap'[a].f[i] = p /\ fld < fld'
          BY <4>3, <1>6, <2>2, <2>6, <1>0, <1>n DEF TypeOK
        <5>2. Holds(to, p)'
          BY <1>0, <2>1, <2>2, <2>6 DEF Holds
        <5>. QED
          BY <5>1, <5>2, <4>3, <1>0
      <4>4. CASE a = cur /\ i # fld
        <5>1. heap'[a].f[i] = heap[a].f[i] /\ (i < fld' <=> i < fld)
          BY <4>4, <2>2, <2>6, <1>0, <1>n DEF TypeOK, Slot
        <5>2. ~Black(a) /\ ~Black(a)'
          BY <4>4, <1>0 DEF Black
        <5>. QED
          BY <5>1, <5>2, <4>4, <3>2, <3>4, <1>1, <2>9, <1>0
      <4>. QED
        BY <4>1, <4>2, <4>3, <4>4, <2>9
    <3>. QED
      BY <3>1, <3>4 DEF Tricolour, ToObj
  <2>. QED
    BY <2>7, <2>8, <2>9, <2>10, <2>11 DEF IInv
<1>7. \/ g = heap /\ free' = free /\ pc' = pc /\ w \in Val /\ Holds(to, w)
      \/ g = heap /\ free' = free /\ pc' = "no_to_space" /\ w = v
      \/ /\ v \in FromObj /\ heap[v].fwd = Null
         /\ CopyFits(CopySize[heap[v].t])
         /\ g = [heap EXCEPT ![p] = heap[v], ![v] = [heap[v] EXCEPT !.fwd = p]]
         /\ free' = free + CopySize[heap[v].t]
         /\ pc' = pc /\ w = p
  BY <1>p, <1>3, <1>w DEF w, g
<1>. QED
  BY <1>0, <1>2, <1>4, <1>6, <1>7

(* The root set has been visited: no slot is grey any more.                *)
LEMMA RootsDoneStep == ASSUME IInv, RootsDone PROVE IInv'
<1> USE DEF RootsDone, heapVars, rootVars, gcVars
<1>0. TypeOK /\ Collecting
  BY DEF IInv, Collecting
<1>1. TypeOK' /\ UnusedSlots'
  BY <1>0 DEF IInv, UnusedSlots, TypeOK
<1>2. /\ ToSpaceShape' /\ FromSpaceEmpty' /\ Originals' /\ Copies' /\ UniqueIds' /\ Layout'
      /\ ToObj' = ToObj
      /\ \A s, x : Holds(s, x) => Holds(s, x)'
  BY <1>0, <1>1, AfterNoCopy DEF ToObj
<1>3. Phases' /\ QuietRefs' /\ NeverCorrupt'
  BY <1>2 DEF IInv, Phases, QuietRefs, Quiet, NeverCorrupt, Collecting
<1>4. Tricolour'
  BY <1>0, <1>2 DEF IInv, Tricolour, Black, Live
<1>. QED
  BY <1>1, <1>2, <1>3, <1>4 DEF IInv

(* The scan pointer moves from one copy to the next: none is skipped.      *)
LEMMA ScanObjStep == ASSUME IInv, ScanObj PROVE IInv'
<1> USE DEF ScanObj, heapVars, rootVars
<1>0. TypeOK /\ Collecting /\ pc' = pc /\ cur = Null
  BY DEF IInv, Collecting
<1>b. PICK b : b = <<to, scan>>
  OBVIOUS
<1>1. /\ b \in ToObj /\ b[1] = to /\ b[2] = scan /\ heap[b].t \in Types
      /\ scan' = End(b) /\ End(b) \in Nat /\ scan < scan' /\ scan \in Nat
      /\ cur' = b /\ b \in Addr
  <2>1. b \in ToObj /\ b[1] = to /\ b[2] = scan
    BY <1>b, <1>0 DEF IInv, Layout
  <2>2. heap[b].t \in Types /\ scan \in Nat /\ b \in Addr
    BY <2>1, <1>0 DEF TypeOK, ToObj, Obj
  <2>. QED
    BY <1>b, <2>1, <2>2, TypesAssumption DEF End
<1>2. TypeOK' /\ UnusedSlots'
  BY <1>0, <1>1 DEF IInv, UnusedSlots, TypeOK
<1>3. /\ ToSpaceShape' /\ FromSpaceEmpty' /\ Originals' /\ Copies' /\ UniqueIds'
      /\ ToObj' = ToObj
      /\ \A s, x : Holds(s, x) => Holds(s, x)'
  BY <1>0, <1>2, AfterNoCopy DEF ToObj
<1>4. \A a : End(a)' = End(a)
  BY DEF End
<1>5. Layout'
  BY <1>0, <1>1, <1>3, <1>4 DEF IInv, Layout
<1>6. Phases' /\ QuietRefs' /\ NeverCorrupt'
  BY <1>0, <1>1, <1>3, <1>4 DEF IInv, Phases, QuietRefs, Quiet, NeverCorrupt, Collecting, Live
<1>7. Tricolour'
  <2>1. \A r \in Live' : Holds(IF r \in todo THEN Other(to) ELSE to, root[r])'
    BY <1>0, <1>3 DEF IInv, Tricolour, Live
  <2>2. ASSUME NEW a \in ToObj, NEW i \in Slot
        PROVE  (Black(a) \/ (a = cur /\ i < fld))' <=> Black(a) \/ (a = cur /\ i < fld)
    <3>1. a # Null /\ a[2] \in Nat /\ a = <<to, a[2]>>
      BY AddrFacts DEF ToObj
    <3>2. CASE a = b
      BY <3>1, <3>2, <1>0, <1>1 DEF Black, Slot
    <3>3. CASE a # b
      <4>1. a[2] # scan
        BY <3>1, <3>3, <1>b
      <4>2. scan < a[2] => scan' <= a[2]
        BY <1>0, <1>1 DEF IInv, Layout
      <4>. QED
        BY <3>1, <3>3, <4>1, <4>2, <1>0, <1>1 DEF Black
    <3>. QED
      BY <3>2, <3>3
  <2>3. \A a \in ToObj : \A i \in Slot :
          Holds(IF Black(a) \/ (a = cur /\ i < fld) THEN to ELSE Other(to), heap[a].f[i])
    BY <1>0 DEF IInv, Tricolour, ToObj
  <2>4. \A a \in ToObj : \A i \in Slot :
          Holds(IF Black(a) \/ (a = cur /\ i < fld) THEN to ELSE Other(to), heap[a].f[i])'
    BY <2>2, <2>3, <1>3
  <2>. QED
    BY <2>1, <2>4, <1>3 DEF Tricolour, ToObj
<1>. QED
  BY <1>2, <1>3, <1>5, <1>6, <1>7 DEF IInv

(* All slots that copy_neighbor looks at are redirected: the object turns  *)
(* black.                                                                  *)
LEMMA NeighborsDoneStep == ASSUME IInv, NeighborsDone PROVE IInv'
<1> USE DEF NeighborsDone, heapVars, rootVars
<1>0. TypeOK /\ Collecting /\ pc' = pc
  BY DEF IInv, Collecting
<1>1. TypeOK' /\ UnusedSlots'
  BY <1>0 DEF IInv, UnusedSlots, TypeOK
<1>2. /\ ToSpaceShape' /\ FromSpaceEmpty' /\ Originals' /\ Copies' /\ UniqueIds' /\ Layout'
      /\ ToObj' = ToObj
      /\ \A s, x : Holds(s, x) => Holds(s, x)'
  BY <1>0, <1>1, AfterNoCopy DEF ToObj
<1>3. Phases' /\ QuietRefs' /\ NeverCorrupt'
  BY <1>0, <1>2 DEF IInv, Phases, QuietRefs, Quiet, NeverCorrupt, Collecting, Live
<1>4. Tricolour'
  <2>1. \A r \in Live' : Holds(IF r \in todo THEN Other(to) ELSE to, root[r])'
    BY <1>0, <1>2 DEF IInv, Tricolour, Live
  <2>2. cur \in ToObj /\ cur[2] < scan
    BY <1>0 DEF IInv, Phases
  <2>3. \A a \in ToObj : \A i \in Slot :
          Holds(IF Black(a) \/ (a = cur /\ i < fld) THEN to ELSE Other(to), heap[a].f[i])
    BY <1>0 DEF IInv, Tricolour, ToObj
  <2>4. ASSUME NEW i \in Slot PROVE Holds(to, heap[cur].f[i])
    <3>1. CASE i < fld
      BY <3>1, <2>2, <2>3 DEF Black
    <3>2. CASE ~(i < fld)
      <4>1. heap[cur].t \in Types /\ cur \in Addr /\ heap[cur] # NoObj
        BY <2>2, <1>0 DEF ToObj, TypeOK, Obj
      <4>2. Slots[heap[cur].t] \in Nat /\ fld \in Nat
        BY <4>1, <1>0, TypesAssumption DEF TypeOK
      <4>3. heap[cur].f[i] = Null
        BY <3>2, <4>1, <4>2 DEF IInv, UnusedSlots, Slot
      <4>. QED
        BY <4>3, AddrFacts DEF Holds, IsRef
    <3>. QED
      BY <3>1, <3>2
  <2>5. \A a \in ToObj : a # Null
    BY AddrFacts DEF ToObj
  <2>6. \A a \in ToObj : \A i \in Slot :
          Holds(IF Black(a) \/ (a = cur /\ i < fld) THEN to ELSE Other(to), heap[a].f[i])'
    BY <2>2, <2>3, <2>4, <2>5, <1>0, <1>2 DEF Black
  <2>. QED
    BY <2>1, <2>6, <1>2 DEF Tricolour, ToObj
<1>. QED
  BY <1>1, <1>2, <1>3, <1>4 DEF IInv

(* Two copies are never copies of the same object.                         *)
LEMMA UniqueCopies ==
  ASSUME IInv, NEW a \in ToObj, NEW b \in ToObj, heap[a].id = heap[b].id
  PROVE  a = b
<1>1. CASE Quiet
  BY <1>1 DEF IInv, UniqueIds
<1>2. CASE InCopy
  <2>1. PICK x \in FromObj, y \in FromObj : heap[x].fwd = a /\ heap[y].fwd = b
    BY <1>2 DEF IInv, Copies
  <2>2. a # Null /\ b # Null
    BY AddrFacts DEF ToObj
  <2>3. heap[x].id = heap[a].id /\ heap[y].id = heap[b].id
    BY <1>2, <2>1, <2>2 DEF IInv, Originals
  <2>4. x = y
    BY <1>2, <2>1, <2>3 DEF IInv, UniqueIds
  <2>. QED
    BY <2>1, <2>4
<1>. QED
  BY <1>1, <1>2 DEF IInv, TypeOK, NeverCorrupt, Quiet, InCopy, Collecting

(* When the scan pointer has caught up everything live has been copied:    *)
(* the from-space can be given up.                                         *)
LEMMA EndScavengeStep == ASSUME IInv, EndScavenge PROVE IInv'
<1> USE DEF EndScavenge, rootVars, gcVars
<1>0. TypeOK /\ Collecting /\ InCopy
  BY DEF IInv, Collecting, InCopy
<1>1. /\ \A a \in Addr : a[1] = to => heap'[a] = heap[a]
      /\ \A a \in Addr : a[1] # to => heap'[a] = NoObj
  OBVIOUS
<1>2. ToObj' = ToObj /\ FromObj' = {}
  BY <1>1 DEF ToObj, FromObj
<1>3. TypeOK'
  <2>1. heap' \in [Addr -> Obj \cup {NoObj}]
    BY <1>0 DEF TypeOK
  <2>. QED
    BY <2>1, <1>0 DEF TypeOK
<1>4. UnusedSlots' /\ FromSpaceEmpty'
  BY <1>1, <1>2 DEF IInv, UnusedSlots, FromSpaceEmpty
<1>5. ToSpaceShape'
  BY <1>0, <1>1, <1>2 DEF IInv, ToSpaceShape, ToObj
<1>6. UniqueIds'
  <2>1. \A a \in Addr : heap'[a] # NoObj => heap'[a].id <= lastId'
    BY <1>1 DEF IInv, UniqueIds
  <2>2. \A a, b \in ToObj' : heap'[a].id = heap'[b].id => a = b
    BY <1>1, <1>2, UniqueCopies DEF ToObj
  <2>. QED
    BY <2>1, <2>2 DEF UniqueIds, InCopy, Collecting
<1>7. QuietRefs'
  <2>1. \A v : Holds(to, v) => Holds(to, v)'
    BY <1>1 DEF Holds, IsRef
  <2>2. \A r \in Live' : Holds(to, root[r])'
    BY <1>0, <2>1 DEF IInv, Tricolour, Phases, Live
  <2>3. \A a \in ToObj : a[2] < scan /\ a # Null
    <3>1. \A a \in ToObj : a[2] < free /\ a # Null /\ a[2] \in Nat
      BY <1>0, AddrFacts DEF IInv, ToSpaceShape, ToObj
    <3>. QED
      BY <3>1, <1>0 DEF TypeOK
  <2>4. \A a \in ToObj : \A i \in Slot : Holds(to, heap[a].f[i])
    BY <1>0, <2>3 DEF IInv, Tricolour, Black, ToObj
  <2>5. \A a \in ToObj' : \A i \in Slot : Holds(to, heap[a].f[i])'
    BY <1>1, <1>2, <2>1, <2>4 DEF ToObj
  <2>. QED
    BY <2>2, <2>5 DEF QuietRefs
<1>8. Quiet' /\ req' \in Types /\ sp' < StackSize
  BY DEF IInv, Phases, Quiet
<1>. QED
  BY <1>3, <1>4, <1>5, <1>6, <1>7, <1>8, QuietVacuous

(* The second attempt places the object or gives up.                       *)
LEMMA RetryStep == ASSUME IInv, Retry PROVE IInv'
<1> USE DEF Retry
<1>0. TypeOK /\ req \in Types /\ sp < StackSize
  BY DEF IInv, Phases
<1>1. CASE CanMalloc(AllocSize[req])
  BY <1>0, <1>1, PlaceHeap
<1>2. CASE ~CanMalloc(AllocSize[req])
  <2>1. UNCHANGED <<heap, free, lastId, root, sp, req, to, hp, todo, scan, cur, fld>>
        /\ pc' = "no_space"
    BY <1>2 DEF heapVars, gcVars
  <2>2. TypeOK' /\ UnusedSlots'
    BY <1>0, <2>1 DEF IInv, TypeOK, UnusedSlots
  <2>3. ToSpaceShape' /\ FromSpaceEmpty' /\ UniqueIds' /\ QuietRefs'
    BY <2>1 DEF IInv, ToSpaceShape, FromSpaceEmpty, UniqueIds, QuietRefs, Quiet, InCopy,
       Collecting, ToObj, FromObj, Live, Holds, IsRef
  <2>. QED
    BY <1>0, <2>1, <2>2, <2>3, QuietVacuous DEF Quiet
<1>. QED
  BY <1>1, <1>2

-----------------------------------------------------------------------------
(* The machine starts with an empty to-space.                              *)
LEMMA InitStep == Init => IInv
<1> SUFFICES ASSUME Init PROVE IInv
  OBVIOUS
<1> USE DEF Init
<1>1. TypeOK
  BY RootsAssumption DEF TypeOK, Val
<1>2. ToObj = {} /\ FromObj = {}
  BY DEF ToObj, FromObj
<1>3. UnusedSlots /\ ToSpaceShape /\ FromSpaceEmpty /\ UniqueIds
  BY <1>2 DEF UnusedSlots, ToSpaceShape, FromSpaceEmpty, UniqueIds, InCopy, Collecting
<1>4. QuietRefs
  <2>1. Live \subseteq RootSlot
    BY <1>1, LiveFacts DEF TypeOK
  <2>. QED
    BY <2>1, <1>2, AddrFacts DEF QuietRefs, Holds, IsRef
<1>. QED
  BY <1>1, <1>2, <1>3, <1>4 DEF IInv, Originals, Copies, Layout, Phases, Tricolour,
     NeverCorrupt, InCopy, Collecting

(* Every action of the mutator and of the collector preserves the          *)
(* invariant.                                                              *)
LEMMA NextStep == IInv /\ [Next]_vars => IInv'
<1> SUFFICES ASSUME IInv, [Next]_vars PROVE IInv'
  OBVIOUS
<1>1. CASE Mutate
  BY <1>1, NewStep, LoadStep, LoadFieldStep, StoreFieldStep, StoreRootStep, PopStep,
     RegisterStep, UnregisterStep DEF Mutate
<1>2. CASE \E t \in Types : StartScavenge(t)
  BY <1>2, StartStep
<1>3. CASE Collect
  BY <1>3, CopyRootStep, RootsDoneStep, ScanObjStep, CopyNeighborStep, NeighborsDoneStep,
     EndScavengeStep, RetryStep DEF Collect
<1>4. CASE UNCHANGED vars
  BY <1>4, SMTT(20) DEF vars, IInv, TypeOK, UnusedSlots, ToSpaceShape, FromSpaceEmpty, Originals, Copies,
     UniqueIds, Layout, Phases, QuietRefs, Tricolour, NeverCorrupt, Quiet, InCopy, Collecting,
     ToObj, FromObj, End, Live, Black, Holds, IsRef
<1>. QED
  BY <1>1, <1>2, <1>3, <1>4 DEF Next

(* The inductive invariant holds in every state of every run.              *)
THEOREM Inductive == Spec => []IInv
BY InitStep, NextStep, PTL DEF Spec

(* Every variable of the collector keeps its type.                         *)
THEOREM TypeCorrect == Spec => []TypeOK
<1>1. IInv => TypeOK
  BY DEF IInv
<1>. QED
  BY <1>1, Inductive, PTL

(* While the program runs, everything it can reach is an object of the     *)
(* current to-space (copy_root_obj, copy_neighbor_inner and the end of     *)
(* gc_cheney_scavenge).                                                    *)
THEOREM NoDanglingPointers == Spec => []NoDangling
<1>1. IInv => NoDangling
  BY DEF IInv, NoDangling, QuietRefs, Quiet, ToObj
<1>. QED
  BY <1>1, Inductive, PTL

(* Between any two pointer updates of a collection, black refers to copies *)
(* and grey to originals.                                                  *)
THEOREM TricolourHolds == Spec => []Tricolour
<1>1. IInv => Tricolour
  BY DEF IInv
<1>. QED
  BY <1>1, Inductive, PTL

(* The scan pointer of gc_cheney_scavenge is always at an object header.   *)
THEOREM ScanFindsHeaders == Spec => []ScanOnHeader
<1>1. IInv => ScanOnHeader
  BY DEF IInv, ScanOnHeader, Layout, ToObj
<1>. QED
  BY <1>1, Inductive, PTL

(* An object that is reached over several paths is copied once.            *)
THEOREM SharingSurvives == Spec => []CopiedOnce
<1>1. IInv => CopiedOnce
  BY UniqueCopies DEF CopiedOnce, ToObj
<1>. QED
  BY <1>1, Inductive, PTL

(* The copying functions never meet a pointer into the to-space: their     *)
(* vm_error is unreachable.                                                *)
THEOREM NoCorruption == Spec => []NeverCorrupt
<1>1. IInv => NeverCorrupt
  BY DEF IInv
<1>. QED
  BY <1>1, Inductive, PTL

-----------------------------------------------------------------------------
(* Room for the survivors.                                                 *)

LEMMA Sizes ==
  ASSUME TypeOK, NEW a \in Addr, heap[a] # NoObj
  PROVE  /\ heap[a].t \in Types /\ CopySize[heap[a].t] \in Nat \ {0}
         /\ AllocSize[heap[a].t] \in Nat \ {0} /\ a[2] \in 0 .. SegSize - 1 /\ SegSize \in Nat
         /\ End(a) = a[2] + CopySize[heap[a].t] /\ End(a) \in Nat
<1>1. heap[a] \in Obj
  BY DEF TypeOK
<1>2. heap[a].t \in Types
  BY <1>1, ObjFields
<1>3. CopySize[heap[a].t] \in Nat \ {0} /\ AllocSize[heap[a].t] \in Nat \ {0}
  BY <1>2, TypesAssumption
<1>. QED
  BY <1>2, <1>3, AddrFacts, SegmentsAssumption DEF End

\* Objects of one segment are told apart by their offsets.
LEMMA SameOffset ==
  ASSUME TypeOK, NEW a \in FromObj, NEW b \in FromObj, a[2] = b[2]
  PROVE  a = b
<1>1. a[1] = Other(to) /\ b[1] = Other(to)
  BY OtherSegment, AddrFacts DEF FromObj, TypeOK
<1>. QED
  BY <1>1, AddrFacts DEF FromObj

\* Unit j of the object a.
UnitOf(a, j) == j \in Nat /\ j < CopySize[heap[a].t]

LEMMA UnitsApart ==
  ASSUME TypeOK, Apart(FromObj), NEW a \in FromObj, NEW b \in FromObj, Fits(a), Fits(b),
         NEW j, NEW l, UnitOf(a, j), UnitOf(b, l), a[2] + j = b[2] + l
  PROVE  a = b /\ j = l
<1>1. /\ a[2] \in Nat /\ b[2] \in Nat /\ End(a) = a[2] + CopySize[heap[a].t]
      /\ End(b) = b[2] + CopySize[heap[b].t]
      /\ CopySize[heap[a].t] \in Nat /\ CopySize[heap[b].t] \in Nat
  BY Sizes DEF FromObj
<1>2. a[2] < b[2] => End(a) <= b[2]
  BY DEF Apart
<1>3. b[2] < a[2] => End(b) <= a[2]
  BY DEF Apart
<1>4. a[2] = b[2]
  BY <1>1, <1>2, <1>3 DEF UnitOf
<1>5. a = b
  BY <1>4, SameOffset
<1>. QED
  BY <1>1, <1>4, <1>5 DEF UnitOf

\* Where unit k of the to-space has come from, or is to come from if v is
\* copied to the free pointer.
ComesFrom(k, v, a, j) ==
  /\ a \in FromObj /\ UnitOf(a, j)
  /\ \/ k < free /\ heap[a].fwd \in ToObj /\ k = heap[a].fwd[2] + j
     \/ k >= free /\ a = v /\ k = free + j

LEMMA EveryUnitComes ==
  ASSUME IInv, Extents, Collecting, NEW v \in FromObj, heap[v].fwd = Null,
         NEW k \in 0 .. free + CopySize[heap[v].t] - 1
  PROVE  \E a \in FromObj, j \in Nat : ComesFrom(k, v, a, j)
<1>0. TypeOK /\ InCopy /\ free \in Nat /\ CopySize[heap[v].t] \in Nat
  <2>1. TypeOK
    BY DEF IInv
  <2>. QED
    BY <2>1, Sizes DEF TypeOK, InCopy, FromObj
<1>1. CASE k < free
  <2>1. PICK b \in ToObj : b[2] <= k /\ k < End(b)
    BY <1>0, <1>1 DEF Extents
  <2>2. PICK a \in FromObj : heap[a].fwd = b
    BY <1>0 DEF IInv, Copies
  <2>3. heap[b].t = heap[a].t
    BY <1>0, <2>2, AddrFacts DEF Extents, ToObj
  <2>4. b[2] \in Nat /\ End(b) = b[2] + CopySize[heap[b].t] /\ CopySize[heap[b].t] \in Nat
    BY <1>0, Sizes DEF ToObj
  <2>5. k - b[2] \in Nat /\ UnitOf(a, k - b[2]) /\ k = b[2] + (k - b[2])
    BY <1>0, <2>1, <2>3, <2>4 DEF UnitOf
  <2>. QED
    BY <1>1, <2>2, <2>5 DEF ComesFrom
<1>2. CASE k >= free
  <2>1. k - free \in Nat /\ UnitOf(v, k - free) /\ k = free + (k - free)
    BY <1>0, <1>2 DEF UnitOf
  <2>. QED
    BY <1>2, <2>1 DEF ComesFrom
<1>. QED
  BY <1>0, <1>1, <1>2

\* Two units of the to-space never come from the same one.
LEMMA UnitsComeOnce ==
  ASSUME TypeOK, NEW v \in FromObj, heap[v].fwd = Null, NEW a, NEW j, NEW x, NEW y,
         ComesFrom(x, v, a, j), ComesFrom(y, v, a, j)
  PROVE  x = y
<1>1. Null \notin ToObj
  BY AddrFacts DEF ToObj
<1>. QED
  BY <1>1 DEF ComesFrom

(* Survivors fit where they were: if no object were larger as a copy, the  *)
(* units of the copies and of the next one would have to share places in   *)
(* the from-space.                                                         *)
LEMMA NoRoom ==
  ASSUME IInv, Extents, Collecting, NEW v \in FromObj, heap[v].fwd = Null,
         ~CopyFits(CopySize[heap[v].t])
  PROVE  \E a \in FromObj : ~Fits(a)
<1>. SUFFICES ASSUME \A a \in FromObj : Fits(a) PROVE FALSE
  OBVIOUS
<1>. DEFINE size == CopySize[heap[v].t]
            S == 0 .. free + size - 1
            T == 0 .. SegSize - 2
            orig(k) == CHOOSE a \in FromObj : \E j \in Nat : ComesFrom(k, v, a, j)
            unit(k) == CHOOSE j \in Nat : ComesFrom(k, v, orig(k), j)
            f == [k \in S |-> orig(k)[2] + unit(k)]
<1>1. TypeOK /\ InCopy /\ free \in Nat /\ size \in Nat \ {0} /\ SegSize \in Nat
      /\ free + size >= SegSize
  <2>1. TypeOK
    BY DEF IInv
  <2>2. size \in Nat \ {0}
    BY <2>1, Sizes DEF FromObj
  <2>. QED
    BY <2>1, <2>2, SegmentsAssumption DEF TypeOK, InCopy, CopyFits
<1>2. \A k \in S : orig(k) \in FromObj /\ unit(k) \in Nat /\ ComesFrom(k, v, orig(k), unit(k))
  <2>. SUFFICES ASSUME NEW k \in S
                PROVE  orig(k) \in FromObj /\ unit(k) \in Nat /\ ComesFrom(k, v, orig(k), unit(k))
    OBVIOUS
  <2>1. \E a \in FromObj : \E j \in Nat : ComesFrom(k, v, a, j)
    BY EveryUnitComes
  <2>2. orig(k) \in FromObj /\ \E j \in Nat : ComesFrom(k, v, orig(k), j)
    BY <2>1
  <2>. HIDE DEF orig
  <2>. QED
    BY <2>2
<1>. HIDE DEF orig, unit
<1>3. \A k \in S : orig(k)[2] + unit(k) \in T
  <2>. SUFFICES ASSUME NEW k \in S PROVE orig(k)[2] + unit(k) \in T
    OBVIOUS
  <2>1. orig(k) \in FromObj /\ unit(k) \in Nat /\ UnitOf(orig(k), unit(k))
    BY <1>2 DEF ComesFrom
  <2>2. End(orig(k)) < SegSize
    BY <1>1, <2>1 DEF Extents
  <2>3. /\ End(orig(k)) = orig(k)[2] + CopySize[heap[orig(k)].t] /\ orig(k)[2] \in Nat
        /\ CopySize[heap[orig(k)].t] \in Nat
    BY <1>1, <2>1, Sizes DEF FromObj
  <2>. QED
    BY <1>1, <2>1, <2>2, <2>3 DEF UnitOf
<1>4. IsFiniteSet(S) /\ IsFiniteSet(T) /\ Cardinality(T) < Cardinality(S)
  <2>. DEFINE m == free + size
  <2>1. m \in Nat /\ m > 0 /\ m >= SegSize
    BY <1>1
  <2>. HIDE DEF m
  <2>2. IsFiniteSet(0 .. m - 1) /\ Cardinality(0 .. m - 1) = m
    <3>1. m - 1 \in Int /\ 0 \in Int /\ ~(0 > m - 1) /\ m - 1 - 0 + 1 = m
      BY <2>1
    <3>. QED
      BY <3>1, FS_Interval
  <2>3. IsFiniteSet(T) /\ Cardinality(T) < m
    <3>1. SegSize - 2 \in Int /\ 0 \in Int
      BY <1>1
    <3>2. IsFiniteSet(T) /\ Cardinality(T) = IF 0 > SegSize - 2 THEN 0 ELSE SegSize - 2 - 0 + 1
      BY <3>1, FS_Interval
    <3>. HIDE DEF T
    <3>. QED
      BY <1>1, <2>1, <3>2
  <2>4. S = 0 .. m - 1
    BY <1>1 DEF m
  <2>. HIDE DEF S, T
  <2>. QED
    BY <2>2, <2>3, <2>4
<1>5. f \in [S -> T]
  BY <1>3
<1>6. \E x, y \in S : x # y /\ f[x] = f[y]
  <2>. HIDE DEF S, T, f
  <2>. QED
    BY <1>4, <1>5, FS_PigeonHole
<1>7. PICK x \in S, y \in S : x # y /\ orig(x)[2] + unit(x) = orig(y)[2] + unit(y)
  BY <1>6
<1>8. orig(x) = orig(y) /\ unit(x) = unit(y)
  <2>1. /\ orig(x) \in FromObj /\ orig(y) \in FromObj
        /\ UnitOf(orig(x), unit(x)) /\ UnitOf(orig(y), unit(y))
    BY <1>2 DEF ComesFrom
  <2>2. Apart(FromObj) /\ Fits(orig(x)) /\ Fits(orig(y))
    BY <1>1, <2>1 DEF Extents
  <2>. HIDE DEF S
  <2>. QED
    BY <1>1, <1>7, <2>1, <2>2, UnitsApart
<1>9. ComesFrom(x, v, orig(x), unit(x)) /\ ComesFrom(y, v, orig(x), unit(x))
  BY <1>2, <1>8
<1>10. x = y
  BY <1>1, <1>9, UnitsComeOnce
<1>. QED
  BY <1>7, <1>10

\* Objects stay where they are, with their types and forwarding addresses.
NoCopy ==
  /\ to' = to /\ free' = free
  /\ \A a \in Addr : heap'[a] # NoObj <=> heap[a] # NoObj
  /\ \A a \in Addr : heap[a] # NoObj => heap'[a].t = heap[a].t /\ heap'[a].fwd = heap[a].fwd

LEMMA NoCopyObjs ==
  ASSUME NoCopy
  PROVE  /\ ToObj' = ToObj /\ FromObj' = FromObj
         /\ \A a \in ToObj \cup FromObj :
              /\ heap'[a].t = heap[a].t /\ heap'[a].fwd = heap[a].fwd
              /\ End(a)' = End(a) /\ Fits(a)' = Fits(a)
BY DEF NoCopy, ToObj, FromObj, End, Fits

LEMMA ExtentsNoCopy ==
  ASSUME IInv, Extents, NoCopy, Quiet' => Quiet, InCopy' => InCopy, Collecting' => Collecting
  PROVE  Extents'
<1>1. /\ ToObj' = ToObj /\ FromObj' = FromObj
      /\ \A a \in ToObj \cup FromObj :
           /\ heap'[a].t = heap[a].t /\ heap'[a].fwd = heap[a].fwd
           /\ End(a)' = End(a) /\ Fits(a)' = Fits(a)
  BY NoCopyObjs
<1>2. Apart(ToObj)' = Apart(ToObj) /\ Apart(FromObj)' = Apart(FromObj)
  BY <1>1 DEF Apart
<1>3. Quiet' => Apart(ToObj)' /\ \A a \in ToObj' : Fits(a)' => End(a)' <= free'
  BY <1>1, <1>2 DEF Extents, NoCopy
<1>4. InCopy' => Apart(FromObj)' /\ \A a \in FromObj' : Fits(a)' => End(a)' < SegSize
  BY <1>1, <1>2 DEF Extents
<1>5. InCopy' => \A a \in FromObj' : heap'[a].fwd # Null => heap'[heap'[a].fwd].t = heap'[a].t
  <2>1. \A a \in FromObj : InCopy /\ heap[a].fwd # Null => heap[a].fwd \in ToObj
    BY DEF IInv, Originals
  <2>. QED
    BY <1>1, <2>1 DEF Extents
<1>6. Collecting' => \A k \in 0 .. free' - 1 : \E b \in ToObj' : b[2] <= k /\ k < End(b)'
  BY <1>1 DEF Extents, NoCopy
<1>7. free' = 0 \/ free' < SegSize
  BY DEF NoCopy, Extents
<1>. QED
  BY <1>3, <1>4, <1>5, <1>6, <1>7 DEF Extents

\* The object x is copied to p, which is at the free pointer.
CopyTo(x, p) ==
  /\ to' = to /\ pc' = pc
  /\ x \in FromObj /\ heap[x].fwd = Null /\ p \in Addr /\ p[1] = to /\ p[2] = free
  /\ heap[p] = NoObj /\ heap'[p] # NoObj /\ heap'[p].t = heap[x].t
  /\ heap'[x] # NoObj /\ heap'[x].t = heap[x].t /\ heap'[x].fwd = p
  /\ free' = free + CopySize[heap[x].t] /\ free' < SegSize
  /\ \A a \in Addr : a # p => (heap'[a] # NoObj <=> heap[a] # NoObj)
  /\ \A a \in Addr : a # p /\ a # x /\ heap[a] # NoObj =>
       heap'[a].t = heap[a].t /\ heap'[a].fwd = heap[a].fwd

LEMMA ExtentsCopy ==
  ASSUME IInv, Extents, Collecting, NEW x, NEW p, CopyTo(x, p)
  PROVE  Extents'
<1>. USE DEF CopyTo
<1>0. TypeOK /\ InCopy /\ x \in Addr /\ heap[x] # NoObj /\ x # p /\ ~Quiet' /\ free \in Nat
  BY DEF IInv, TypeOK, InCopy, FromObj, Quiet, Collecting
<1>1. ToObj' = ToObj \cup {p} /\ FromObj' = FromObj /\ p \notin ToObj /\ p \notin FromObj
  BY <1>0 DEF ToObj, FromObj
<1>2. \A a \in ToObj \cup FromObj : heap'[a].t = heap[a].t
  BY <1>0, <1>1 DEF ToObj, FromObj
<1>3. /\ \A a \in ToObj \cup FromObj : End(a)' = End(a) /\ Fits(a)' = Fits(a)
      /\ End(p)' = free'
  BY <1>2 DEF End, Fits
<1>4. Apart(FromObj)' = Apart(FromObj)
  BY <1>1, <1>3 DEF Apart
<1>5. Apart(FromObj)' /\ \A a \in FromObj' : Fits(a)' => End(a)' < SegSize
  BY <1>0, <1>1, <1>3, <1>4 DEF Extents
<1>6. \A a \in FromObj' : heap'[a].fwd # Null => heap'[heap'[a].fwd].t = heap'[a].t
  <2>1. ASSUME NEW a \in FromObj, a # x, heap'[a].fwd # Null
        PROVE  heap'[heap'[a].fwd].t = heap'[a].t
    <3>1. heap'[a].fwd = heap[a].fwd /\ heap'[a].t = heap[a].t
      BY <1>1, <2>1 DEF FromObj
    <3>2. heap[a].fwd \in ToObj /\ heap[heap[a].fwd].t = heap[a].t
      BY <1>0, <2>1, <3>1 DEF IInv, Originals, Extents
    <3>. QED
      BY <1>2, <3>1, <3>2
  <2>. QED
    BY <2>1, <1>1
<1>7. \A k \in 0 .. free' - 1 : \E b \in ToObj' : b[2] <= k /\ k < End(b)'
  <2>. SUFFICES ASSUME NEW k \in 0 .. free' - 1 PROVE \E b \in ToObj' : b[2] <= k /\ k < End(b)'
    OBVIOUS
  <2>0. free' \in Nat
    BY <1>0, Sizes
  <2>1. CASE k < free
    <3>1. k \in 0 .. free - 1
      BY <1>0, <2>0, <2>1
    <3>2. PICK b \in ToObj : b[2] <= k /\ k < End(b)
      BY <1>0, <3>1 DEF Extents
    <3>. QED
      BY <1>1, <1>3, <3>2
  <2>2. CASE ~(k < free)
    BY <1>0, <1>1, <1>3, <2>0, <2>2
  <2>. QED
    BY <2>1, <2>2
<1>8. Extents' <=> /\ free' = 0 \/ free' < SegSize
                   /\ InCopy' => Apart(FromObj)' /\ \A a \in FromObj' : Fits(a)' => End(a)' < SegSize
                   /\ InCopy' => \A a \in FromObj' : heap'[a].fwd # Null => heap'[heap'[a].fwd].t = heap'[a].t
                   /\ Collecting' => \A k \in 0 .. free' - 1 : \E b \in ToObj' : b[2] <= k /\ k < End(b)'
  BY <1>0 DEF Extents
<1>. QED
  BY <1>5, <1>6, <1>7, <1>8

\* What the copying of one pointer does to the memory; h is the heap before
\* the pointer is updated.
Shape(h) ==
  /\ \A a \in Addr : heap'[a] # NoObj <=> h[a] # NoObj
  /\ \A a \in Addr : h[a] # NoObj => heap'[a].t = h[a].t /\ heap'[a].fwd = h[a].fwd

Stuck(x) == x \in FromObj /\ heap[x].fwd = Null /\ ~CopyFits(CopySize[heap[x].t])

LEMMA CopyKinds ==
  ASSUME IInv, Collecting, NEW v \in Val, Holds(Other(to), v), NEW h, h = Evacuated(v).heap,
         to' = to, free' = Evacuated(v).free, pc' = Evacuated(v).pc, Shape(h)
  PROVE  \/ NoCopy /\ pc' = pc /\ h = heap
         \/ NoCopy /\ pc' = "no_to_space" /\ Stuck(v)
         \/ /\ CopyTo(v, <<to, free>>) /\ Evacuated(v).val = <<to, free>>
            /\ \A a \in ToObj : h[a] = heap[a]
<1>0. TypeOK
  BY DEF IInv
<1>1. CASE h = heap /\ free' = free /\ pc' = pc
  BY <1>1 DEF NoCopy, Shape
<1>2. CASE h = heap /\ free' = free /\ pc' = "no_to_space" /\ pc' # pc
  <2>1. NoCopy
    BY <1>2 DEF NoCopy, Shape
  <2>2. IsRef(v) /\ v \in FromObj
    <3>1. IsRef(v)
      BY <1>2 DEF Evacuated
    <3>. QED
      BY <1>0, <3>1, OtherSegment DEF Holds, FromObj, IsRef, TypeOK
  <2>3. heap[v].fwd = Null /\ v[1] # to /\ ~CopyFits(CopySize[heap[v].t])
    BY <1>2, <2>2 DEF Evacuated, FromObj
  <2>. QED
    BY <1>2, <2>1, <2>2, <2>3 DEF Stuck
<1>3. CASE /\ v \in FromObj /\ heap[v].fwd = Null /\ CopyFits(CopySize[heap[v].t])
           /\ h = [heap EXCEPT ![<<to, free>>] = heap[v],
                               ![v] = [heap[v] EXCEPT !.fwd = <<to, free>>]]
           /\ free' = free + CopySize[heap[v].t]
           /\ pc' = pc /\ Evacuated(v).val = <<to, free>>
  <2>p. PICK p : p = <<to, free>>
    OBVIOUS
  <2>1. /\ p \in Addr /\ p[1] = to /\ p[2] = free /\ p \notin ToObj /\ heap[p] = NoObj /\ p # v
        /\ heap[v] \in Obj /\ CopySize[heap[v].t] \in Nat
    BY <1>3, <2>p, FreePlace
  <2>2. /\ h[p] = heap[v] /\ h[v] = [heap[v] EXCEPT !.fwd = p]
        /\ \A a \in Addr : a # p /\ a # v => h[a] = heap[a]
    BY <1>0, <1>3, <2>p, <2>1 DEF TypeOK, FromObj
  <2>3. h[v].t = heap[v].t /\ h[v].fwd = p /\ h[v] # NoObj /\ h[p] # NoObj
    <3>1. [heap[v] EXCEPT !.fwd = p] \in Obj
      BY <2>1 DEF Obj
    <3>. QED
      BY <2>1, <2>2, <3>1, AddrFacts DEF Obj
  <2>4. free' < SegSize
    BY <1>0, <1>3, <2>1, SegmentsAssumption DEF CopyFits, TypeOK
  <2>5. \A a \in Addr : a # p => (heap'[a] # NoObj <=> heap[a] # NoObj)
    BY <1>3, <2>2, <2>3 DEF Shape, FromObj
  <2>6. \A a \in Addr : a # p /\ a # v /\ heap[a] # NoObj =>
          heap'[a].t = heap[a].t /\ heap'[a].fwd = heap[a].fwd
    BY <2>2 DEF Shape
  <2>7. heap'[p] # NoObj /\ heap'[p].t = heap[v].t
    BY <2>1, <2>2, <2>3 DEF Shape
  <2>8. heap'[v] # NoObj /\ heap'[v].t = heap[v].t /\ heap'[v].fwd = p
    BY <1>3, <2>3 DEF Shape, FromObj
  <2>9. CopyTo(v, p)
    BY <1>3, <2>1, <2>4, <2>5, <2>6, <2>7, <2>8 DEF CopyTo
  <2>10. \A a \in ToObj : h[a] = heap[a]
    BY <1>3, <2>1, <2>2 DEF ToObj, FromObj
  <2>. QED
    BY <1>3, <2>p, <2>9, <2>10
<1>. QED
  BY <1>1, <1>2, <1>3, EvacuatedFacts

\* What the invariant says of a step of the copying functions.
LEMMA AfterKinds ==
  ASSUME SInv, Collecting, NEW v,
         \/ NoCopy /\ pc' = pc
         \/ NoCopy /\ pc' = "no_to_space" /\ Stuck(v)
         \/ CopyTo(v, <<to, free>>)
  PROVE  Extents' /\ OverflowNeedsGrowth'
<1>0. IInv /\ Extents
  BY DEF SInv
<1>1. CASE NoCopy /\ pc' = pc
  BY <1>0, <1>1, ExtentsNoCopy DEF OverflowNeedsGrowth, Quiet, InCopy, Collecting
<1>2. CASE NoCopy /\ pc' = "no_to_space" /\ Stuck(v)
  <2>1. Extents'
    BY <1>0, <1>2, ExtentsNoCopy DEF Quiet, InCopy, Collecting
  <2>2. PICK a \in FromObj : ~Fits(a)
    BY <1>0, <1>2, NoRoom DEF Stuck
  <2>3. heap'[a] # NoObj /\ heap'[a].t = heap[a].t /\ a \in Addr
    BY <1>2, <2>2 DEF NoCopy, FromObj
  <2>4. CopySize[heap[a].t] > AllocSize[heap[a].t]
    <3>1. CopySize[heap[a].t] \in Nat /\ AllocSize[heap[a].t] \in Nat
      BY <1>0, <2>2, Sizes DEF IInv, FromObj
    <3>. QED
      BY <2>2, <3>1 DEF Fits
  <2>. QED
    BY <2>1, <2>3, <2>4 DEF OverflowNeedsGrowth
<1>3. CASE CopyTo(v, <<to, free>>)
  <2>1. Extents'
    BY <1>0, <1>3, ExtentsCopy
  <2>2. pc' # "no_to_space"
    BY <1>3 DEF CopyTo, Collecting
  <2>. QED
    BY <2>1, <2>2 DEF OverflowNeedsGrowth
<1>. QED
  BY <1>1, <1>2, <1>3

LEMMA CopyToSpace ==
  ASSUME NEW v, CopyTo(v, <<to, free>>)
  PROVE  ToObj' = ToObj \cup {<<to, free>>} /\ <<to, free>>[2] = free
BY DEF CopyTo, ToObj, FromObj

LEMMA CopyRootRoom ==
  ASSUME SInv, CopyRoot
  PROVE  Parents' /\ Extents' /\ OverflowNeedsGrowth'
<1>0. IInv /\ TypeOK /\ Collecting /\ to' = to /\ hp' = hp /\ sp' = sp /\ Live' = Live
  BY DEF SInv, IInv, CopyRoot, Collecting, Live
<1>1. PICK r \in todo : /\ todo' = todo \ {r} /\ heap' = Evacuated(root[r]).heap
                        /\ free' = Evacuated(root[r]).free /\ pc' = Evacuated(root[r]).pc
                        /\ root' = [root EXCEPT ![r] = Evacuated(root[r]).val]
  BY DEF CopyRoot
<1>2. PICK v : v = root[r]
  OBVIOUS
<1>3. r \in Live /\ Live \subseteq RootSlot /\ v \in Val /\ Holds(Other(to), v)
  BY <1>0, <1>1, <1>2, LiveFacts DEF IInv, Phases, Tricolour, TypeOK
<1>4. Shape(heap')
  BY DEF Shape
<1>5. \/ NoCopy /\ pc' = pc /\ heap' = heap
      \/ NoCopy /\ pc' = "no_to_space" /\ Stuck(v)
      \/ /\ CopyTo(v, <<to, free>>) /\ Evacuated(v).val = <<to, free>>
         /\ \A a \in ToObj : heap'[a] = heap[a]
  BY <1>0, <1>1, <1>2, <1>3, <1>4, CopyKinds
<1>6. Extents' /\ OverflowNeedsGrowth'
  BY <1>0, <1>5, AfterKinds
<1>7. ASSUME \A a \in ToObj : heap'[a] = heap[a], ToObj \subseteq ToObj',
             NEW a \in ToObj
      PROVE  \/ \E q \in Live' \ todo' : root'[q] = a
             \/ \E b \in ToObj', i \in Slot : b[2] < a[2] /\ heap'[b].f[i] = a
  <2>1. \A q \in Live \ todo : root'[q] = root[q]
    BY <1>0, <1>1, <1>3 DEF TypeOK
  <2>. QED
    BY <1>0, <1>1, <1>7, <2>1 DEF SInv, Parents
<1>8. Parents'
  <2>1. CASE NoCopy /\ pc' = pc /\ heap' = heap
    BY <1>7, <2>1, NoCopyObjs DEF Parents
  <2>2. CASE pc' = "no_to_space"
    BY <2>2 DEF Parents, Collecting
  <2>3. CASE /\ CopyTo(v, <<to, free>>) /\ Evacuated(v).val = <<to, free>>
             /\ \A a \in ToObj : heap'[a] = heap[a]
    <3>1. ToObj' = ToObj \cup {<<to, free>>}
      BY <2>3, CopyToSpace
    <3>2. r \in Live' \ todo' /\ root'[r] = <<to, free>>
      BY <1>0, <1>1, <1>2, <1>3, <2>3 DEF TypeOK
    <3>. QED
      BY <1>7, <2>3, <3>1, <3>2 DEF Parents
  <2>. QED
    BY <1>5, <2>1, <2>2, <2>3
<1>. QED
  BY <1>6, <1>8

LEMMA CopyNeighborRoom ==
  ASSUME SInv, CopyNeighbor
  PROVE  Parents' /\ Extents' /\ OverflowNeedsGrowth'
<1>0. /\ IInv /\ TypeOK /\ Collecting /\ cur # Null
      /\ UNCHANGED <<to, root, hp, sp, todo, scan, cur>> /\ Live' = Live
  BY DEF SInv, IInv, CopyNeighbor, Collecting, rootVars, Live
<1>1. PICK v, w, h : /\ v = heap[cur].f[fld] /\ w = Evacuated(v).val /\ h = Evacuated(v).heap
                     /\ heap' = [h EXCEPT ![cur].f[fld] = w]
                     /\ free' = Evacuated(v).free /\ pc' = Evacuated(v).pc
  BY DEF CopyNeighbor
<1>2. /\ cur \in ToObj /\ cur \in Addr /\ heap[cur] \in Obj /\ heap[cur] # NoObj /\ fld \in Slot
      /\ cur[2] < free
  <2>1. cur \in ToObj
    BY <1>0 DEF IInv, Phases
  <2>2. heap[cur] \in Obj
    BY <2>1, <1>0 DEF ToObj, TypeOK
  <2>3. Slots[heap[cur].t] \in 0 .. MaxSlots /\ MaxSlots \in Nat
    BY <2>2, TypesAssumption DEF Obj
  <2>4. fld \in Nat /\ fld >= 1 /\ fld <= Slots[heap[cur].t]
    BY <1>0 DEF IInv, Phases, TypeOK, CopyNeighbor
  <2>5. cur[2] < free
    BY <1>0, <2>1 DEF IInv, ToSpaceShape, InCopy
  <2>. QED
    BY <2>1, <2>2, <2>3, <2>4, <2>5 DEF ToObj, Slot
<1>3. v \in Val /\ Holds(Other(to), v)
  <2>1. v \in Val
    BY <1>1, <1>2, ObjFields
  <2>2. ~(Black(cur) \/ (cur = cur /\ fld < fld))
    BY <1>0 DEF Black, TypeOK
  <2>. QED
    BY <2>1, <2>2, <1>0, <1>1, <1>2 DEF IInv, Tricolour, ToObj
<1>4. /\ h \in [Addr -> Obj \cup {NoObj}] /\ h[cur] \in Obj /\ h[cur] # NoObj
  <2>1. \/ h = heap
        \/ /\ v \in FromObj /\ CopyFits(CopySize[heap[v].t])
           /\ h = [heap EXCEPT ![<<to, free>>] = heap[v],
                               ![v] = [heap[v] EXCEPT !.fwd = <<to, free>>]]
    BY <1>0, <1>1, <1>3, EvacuatedFacts
  <2>2. CASE h = heap
    BY <1>0, <1>2, <2>2 DEF TypeOK
  <2>3. CASE /\ v \in FromObj /\ CopyFits(CopySize[heap[v].t])
             /\ h = [heap EXCEPT ![<<to, free>>] = heap[v],
                                 ![v] = [heap[v] EXCEPT !.fwd = <<to, free>>]]
    <3>1. /\ <<to, free>> \in Addr /\ <<to, free>> \notin ToObj /\ heap[v] \in Obj
          /\ v \in Addr /\ v # cur
      BY <1>0, <1>2, <2>3, FreePlace DEF ToObj, FromObj
    <3>2. [heap[v] EXCEPT !.fwd = <<to, free>>] \in Obj
      BY <3>1 DEF Obj
    <3>3. <<to, free>> # cur
      BY <3>1, <1>2
    <3>4. h[cur] = heap[cur]
      BY <1>0, <1>2, <2>3, <3>1, <3>3 DEF TypeOK
    <3>5. h \in [Addr -> Obj \cup {NoObj}]
      BY <1>0, <2>3, <3>1, <3>2 DEF TypeOK
    <3>. QED
      BY <1>2, <3>4, <3>5
  <2>. QED
    BY <2>1, <2>2, <2>3
<1>5. /\ heap'[cur] = [h[cur] EXCEPT !.f[fld] = w]
      /\ \A a \in Addr : a # cur => heap'[a] = h[a]
  BY <1>1, <1>2, <1>4
<1>6. heap'[cur] # NoObj /\ heap'[cur].t = h[cur].t /\ heap'[cur].fwd = h[cur].fwd
      /\ heap'[cur].f[fld] = w /\ \A i \in Slot : i # fld => heap'[cur].f[i] = h[cur].f[i]
  <2>1. w \in Val
    BY <1>0, <1>1, <1>3, EvacuatedFacts, FreePlace DEF Val
  <2>2. [h[cur] EXCEPT !.f[fld] = w] \in Obj
    BY <1>2, <1>4, <2>1 DEF Obj
  <2>. QED
    BY <1>2, <1>4, <1>5, <2>2, ObjFields, AddrFacts DEF Obj
<1>7. Shape(h)
  BY <1>2, <1>4, <1>5, <1>6 DEF Shape
<1>8. \/ NoCopy /\ pc' = pc /\ h = heap
      \/ NoCopy /\ pc' = "no_to_space" /\ Stuck(v)
      \/ /\ CopyTo(v, <<to, free>>) /\ w = <<to, free>>
         /\ \A a \in ToObj : h[a] = heap[a]
  BY <1>0, <1>1, <1>3, <1>7, CopyKinds
<1>9. Extents' /\ OverflowNeedsGrowth'
  BY <1>0, <1>8, AfterKinds
<1>10. v \notin ToObj
  BY <1>0, <1>3, OtherSegment DEF Holds, IsRef, ToObj, TypeOK
<1>11. ASSUME \A a \in ToObj : h[a] = heap[a], ToObj \subseteq ToObj', NEW a \in ToObj
       PROVE  \/ \E q \in Live' \ todo' : root'[q] = a
              \/ \E b \in ToObj', i \in Slot : b[2] < a[2] /\ heap'[b].f[i] = a
  <2>1. \/ \E q \in Live \ todo : root[q] = a
        \/ \E b \in ToObj, i \in Slot : b[2] < a[2] /\ heap[b].f[i] = a
    BY <1>0 DEF SInv, Parents
  <2>2. ASSUME NEW b \in ToObj, NEW i \in Slot, heap[b].f[i] = a PROVE heap'[b].f[i] = a
    <3>1. CASE b = cur
      <4>1. i # fld
        BY <1>1, <1>10, <1>11, <2>2, <3>1
      <4>2. h[cur] = heap[cur]
        BY <1>2, <1>11
      <4>. QED
        BY <1>6, <2>2, <3>1, <4>1, <4>2
    <3>2. CASE b # cur
      BY <1>5, <1>11, <2>2, <3>2 DEF ToObj
    <3>. QED
      BY <3>1, <3>2
  <2>. QED
    BY <1>0, <1>11, <2>1, <2>2
<1>12. Parents'
  <2>1. CASE NoCopy /\ pc' = pc /\ h = heap
    BY <1>11, <2>1, NoCopyObjs DEF Parents
  <2>2. CASE pc' = "no_to_space"
    BY <2>2 DEF Parents, Collecting
  <2>3. CASE CopyTo(v, <<to, free>>) /\ w = <<to, free>> /\ \A a \in ToObj : h[a] = heap[a]
    <3>1. ToObj' = ToObj \cup {<<to, free>>} /\ <<to, free>>[2] = free
      BY <2>3, CopyToSpace
    <3>2. cur \in ToObj' /\ cur[2] < <<to, free>>[2] /\ heap'[cur].f[fld] = <<to, free>>
      BY <1>2, <1>6, <2>3, <3>1
    <3>. QED
      BY <1>2, <1>11, <2>3, <3>1, <3>2 DEF Parents
  <2>. QED
    BY <1>8, <2>1, <2>2, <2>3
<1>. QED
  BY <1>9, <1>12

\* The other steps that leave the objects where they are.
LEMMA StillRoom ==
  ASSUME SInv, NoCopy, pc' # "no_to_space",
         Quiet' => Quiet, Collecting' => Collecting, InCopy' => InCopy,
         Collecting' \/ pc' = "retry" =>
           /\ Collecting \/ pc = "retry"
           /\ UNCHANGED <<heap, root, hp, sp, todo>>
  PROVE  Parents' /\ Extents' /\ OverflowNeedsGrowth'
<1>1. Extents' /\ OverflowNeedsGrowth'
  BY ExtentsNoCopy DEF SInv, OverflowNeedsGrowth
<1>2. Parents'
  <2>. SUFFICES ASSUME Collecting' \/ pc' = "retry" PROVE Parents'
    BY DEF Parents
  <2>1. Live' = Live /\ ToObj' = ToObj
    BY NoCopyObjs DEF Live
  <2>. QED
    BY <2>1 DEF SInv, Parents
<1>. QED
  BY <1>1, <1>2

LEMMA RootsOnlyRoom ==
  ASSUME SInv, pc = "run", pc' = "run", UNCHANGED <<heap, to, free>>
  PROVE  Parents' /\ Extents' /\ OverflowNeedsGrowth'
BY StillRoom DEF NoCopy, Quiet, InCopy, Collecting

LEMMA StoreFieldRoom ==
  ASSUME SInv, NEW i \in Slot, StoreField(i)
  PROVE  Parents' /\ Extents' /\ OverflowNeedsGrowth'
<1>0. IInv /\ TypeOK /\ pc = "run" /\ pc' = "run" /\ to' = to /\ free' = free
  BY DEF SInv, IInv, StoreField
<1>1. PICK d \in Addr : d = root[Stack(sp - 2)] /\ heap' = [heap EXCEPT ![d].f[i] = Top] /\ sp > 1
  BY DEF StoreField, IsRef
<1>2. d \in ToObj
  BY <1>0, <1>1, LiveFacts, QuietReach DEF IsRef, TypeOK
<1>3. heap[d] \in Obj /\ heap[d] # NoObj
  BY <1>0, <1>2 DEF ToObj, TypeOK
<1>4. Top \in Val
  <2>1. Stack(sp - 1) \in Live
    BY <1>0, <1>1, LiveFacts, RootsAssumption DEF TypeOK
  <2>. QED
    BY <1>0, <2>1, QuietReach DEF Top
<1>5. /\ heap'[d] = [heap[d] EXCEPT !.f[i] = Top] /\ \A a \in Addr : a # d => heap'[a] = heap[a]
  BY <1>0, <1>1 DEF TypeOK
<1>6. [heap[d] EXCEPT !.f[i] = Top] \in Obj
  BY <1>3, <1>4 DEF Obj
<1>7. heap'[d] # NoObj /\ heap'[d].t = heap[d].t /\ heap'[d].fwd = heap[d].fwd
  BY <1>3, <1>5, <1>6, AddrFacts DEF Obj
<1>8. NoCopy
  BY <1>0, <1>3, <1>5, <1>7 DEF NoCopy
<1>. QED
  BY <1>0, <1>8, StillRoom DEF Quiet, InCopy, Collecting

\* A new object lies behind all others.
LEMMA PlaceRoom ==
  ASSUME SInv, pc \in {"run", "retry"}, pc' = "run", NEW t \in Types, CanMalloc(AllocSize[t]),
         Place(t), to' = to
  PROVE  Parents' /\ Extents' /\ OverflowNeedsGrowth'
<1>0. IInv /\ TypeOK /\ Quiet /\ Quiet' /\ ~InCopy' /\ ~Collecting'
  BY DEF SInv, IInv, Quiet, InCopy, Collecting
<1>1. /\ AllocSize[t] \in Nat \ {0} /\ CopySize[t] \in Nat \ {0} /\ free \in Nat /\ SegSize \in Nat
      /\ free + AllocSize[t] < SegSize /\ free' = free + AllocSize[t]
  BY <1>0, TypesAssumption, SegmentsAssumption DEF TypeOK, CanMalloc, Place
<1>p. PICK p : p = <<to, free>>
  OBVIOUS
<1>2. p \in Addr /\ p[1] = to /\ p[2] = free
  BY <1>0, <1>1, <1>p, AddrFacts DEF TypeOK
<1>3. \A a \in ToObj : a[2] < free
  BY <1>0 DEF IInv, ToSpaceShape
<1>4. PICK o \in Obj : o.t = t /\ heap' = [heap EXCEPT ![p] = o]
  <2>. DEFINE o == [id |-> lastId + 1, t |-> t, f |-> [i \in Slot |-> Null], fwd |-> Null]
  <2>1. heap' = [heap EXCEPT ![p] = o]
    BY <1>p DEF Place
  <2>2. o \in Obj
    BY <1>0 DEF TypeOK, Obj, Val
  <2>. QED
    BY <2>1, <2>2
<1>5. heap'[p] = o /\ \A a \in Addr : a # p => heap'[a] = heap[a]
  BY <1>0, <1>2, <1>4 DEF TypeOK
<1>6. ToObj' = ToObj \cup {p}
  BY <1>2, <1>4, <1>5, AddrFacts DEF ToObj
<1>7. \A a \in ToObj : a # p /\ End(a)' = End(a) /\ Fits(a)' = Fits(a)
  <2>. SUFFICES ASSUME NEW a \in ToObj
                PROVE  a # p /\ End(a)' = End(a) /\ Fits(a)' = Fits(a)
    OBVIOUS
  <2>1. a # p
    <3>1. a[2] < free
      BY <1>3
    <3>2. ~(free < free)
      BY <1>1
    <3>. QED
      BY <1>2, <3>1, <3>2
  <2>2. heap'[a] = heap[a]
    BY <1>5, <2>1 DEF ToObj
  <2>. QED
    BY <2>1, <2>2 DEF End, Fits
<1>8. End(p)' = free + CopySize[t] /\ (Fits(p)' => CopySize[t] <= AllocSize[t])
  BY <1>2, <1>4, <1>5 DEF End, Fits
<1>9. \A a \in ToObj : Fits(a) => End(a) <= free /\ End(a) \in Nat
  BY <1>0, Sizes DEF SInv, Extents, ToObj
<1>10. Apart(ToObj)'
  <2>1. \A a, b \in ToObj : Fits(a) /\ a[2] < b[2] => End(a) <= b[2]
    BY <1>0 DEF SInv, Extents, Apart
  <2>2. \A a \in ToObj : ~(p[2] < a[2]) /\ a[2] \in Nat
    BY <1>1, <1>2, <1>3, AddrFacts DEF ToObj
  <2>3. \A a, b \in ToObj \cup {p} : Fits(a)' /\ a[2] < b[2] => End(a)' <= b[2]
    <3>1. ASSUME NEW a \in ToObj, NEW b \in ToObj, Fits(a)', a[2] < b[2] PROVE End(a)' <= b[2]
      BY <2>1, <1>7, <3>1
    <3>2. ASSUME NEW a \in ToObj, Fits(a)' PROVE End(a)' <= p[2]
      BY <1>2, <1>7, <1>9, <3>2
    <3>3. ~(p[2] < p[2])
      BY <1>1, <1>2
    <3>. QED
      BY <2>2, <3>1, <3>2, <3>3
  <2>. QED
    BY <1>6, <2>3 DEF Apart
<1>11. \A a \in ToObj' : Fits(a)' => End(a)' <= free'
  BY <1>1, <1>6, <1>7, <1>8, <1>9
<1>12. Extents'
  BY <1>0, <1>1, <1>10, <1>11 DEF Extents
<1>13. Parents' /\ OverflowNeedsGrowth'
  BY DEF Parents, OverflowNeedsGrowth, Collecting
<1>. QED
  BY <1>12, <1>13

\* The objects of the to-space become those of the from-space.
LEMMA StartRoom ==
  ASSUME SInv, NEW t \in Types, StartScavenge(t)
  PROVE  Parents' /\ Extents' /\ OverflowNeedsGrowth'
<1>0. /\ IInv /\ TypeOK /\ Quiet /\ ~Quiet' /\ heap' = heap /\ free' = 0 /\ pc' = "roots"
      /\ to' = Other(to) /\ free \in Nat /\ SegSize \in Nat
  BY SegmentsAssumption DEF SInv, IInv, TypeOK, StartScavenge, Quiet
<1>1. FromObj = {} /\ FromObj' = ToObj /\ ToObj' = {}
  <2>1. to' # to /\ \A a \in Addr : a[1] = to' \/ a[1] = to
    BY <1>0, OtherSegment, AddrFacts DEF TypeOK
  <2>2. FromObj = {}
    BY <1>0 DEF IInv, FromSpaceEmpty
  <2>. QED
    BY <1>0, <2>1, <2>2 DEF ToObj, FromObj
<1>2. \A a \in ToObj : End(a)' = End(a) /\ Fits(a)' = Fits(a)
  BY <1>0 DEF End, Fits
<1>3. Apart(FromObj)'
  BY <1>0, <1>1, <1>2 DEF SInv, Extents, Apart
<1>4. \A a \in ToObj : Fits(a) => End(a) < SegSize
  <2>1. \A a \in ToObj : a[2] < free /\ a[2] \in Nat
    BY <1>0, AddrFacts DEF IInv, ToSpaceShape, ToObj
  <2>2. \A a \in ToObj : Fits(a) => End(a) <= free /\ End(a) \in Nat
    BY <1>0, Sizes DEF SInv, Extents, ToObj
  <2>3. free = 0 \/ free < SegSize
    BY DEF SInv, Extents
  <2>. QED
    BY <1>0, <2>1, <2>2, <2>3
<1>5. \A a \in FromObj' : heap'[a].fwd = Null
  BY <1>0, <1>1 DEF IInv, ToSpaceShape
<1>6. Extents'
  <2>1. 0 .. free' - 1 = {}
    BY <1>0
  <2>. QED
    BY <1>0, <1>1, <1>2, <1>3, <1>4, <1>5, <2>1 DEF Extents
<1>7. Parents' /\ OverflowNeedsGrowth'
  BY <1>0, <1>1 DEF Parents, OverflowNeedsGrowth
<1>. QED
  BY <1>6, <1>7

LEMMA EndRoom ==
  ASSUME SInv, EndScavenge
  PROVE  Parents' /\ Extents' /\ OverflowNeedsGrowth'
<1>0. /\ IInv /\ TypeOK /\ Collecting /\ pc' = "retry" /\ Quiet' /\ ~InCopy' /\ ~Collecting'
      /\ UNCHANGED <<to, free, root, hp, sp, todo>> /\ Live' = Live
  BY DEF SInv, IInv, EndScavenge, Collecting, Quiet, InCopy, rootVars, gcVars, Live
<1>1. \A a \in Addr : heap'[a] = IF a[1] = to THEN heap[a] ELSE NoObj
  BY DEF EndScavenge
<1>2. ToObj' = ToObj /\ \A a \in ToObj : heap'[a] = heap[a]
  BY <1>0, <1>1 DEF ToObj
<1>3. \A a \in ToObj : End(a)' = End(a)
  BY <1>2 DEF End
<1>4. /\ \A a, b \in ToObj : a[2] < b[2] => End(a) <= b[2]
      /\ \A a \in ToObj : End(a) <= free
  BY <1>0 DEF IInv, Layout
<1>5. Extents'
  BY <1>0, <1>2, <1>3, <1>4 DEF SInv, Extents, Apart
<1>6. Parents' /\ OverflowNeedsGrowth'
  BY <1>0, <1>2 DEF SInv, Parents, OverflowNeedsGrowth
<1>. QED
  BY <1>5, <1>6

LEMMA LoopRoom ==
  ASSUME SInv, RootsDone \/ ScanObj \/ NeighborsDone
  PROVE  Parents' /\ Extents' /\ OverflowNeedsGrowth'
<1>1. Collecting /\ Collecting' /\ UNCHANGED <<heap, to, free, root, hp, sp, todo>>
  BY DEF RootsDone, ScanObj, NeighborsDone, Collecting, heapVars, rootVars, gcVars
<1>2. NoCopy
  BY <1>1 DEF NoCopy
<1>. QED
  BY <1>1, <1>2, StillRoom DEF Collecting, Quiet, InCopy

LEMMA RetryRoom ==
  ASSUME SInv, Retry
  PROVE  Parents' /\ Extents' /\ OverflowNeedsGrowth'
<1>1. CASE CanMalloc(AllocSize[req])
  <2>1. req \in Types
    BY DEF SInv, IInv, Phases, Retry
  <2>. QED
    BY <1>1, <2>1, PlaceRoom DEF Retry
<1>2. CASE ~CanMalloc(AllocSize[req])
  <2>1. pc = "retry" /\ pc' = "no_space" /\ UNCHANGED <<heap, to, free>>
    BY <1>2 DEF Retry, heapVars
  <2>. QED
    BY <2>1, StillRoom DEF NoCopy, Collecting, Quiet, InCopy
<1>. QED
  BY <1>1, <1>2

LEMMA SInitStep == Init => SInv
<1>. SUFFICES ASSUME Init PROVE SInv
  OBVIOUS
<1>1. IInv
  BY InitStep
<1>2. ToObj = {} /\ Quiet /\ ~InCopy /\ ~Collecting /\ free = 0 /\ pc = "run"
  BY DEF Init, ToObj, Quiet, InCopy, Collecting
<1>3. Extents /\ Parents /\ OverflowNeedsGrowth
  BY <1>2 DEF Extents, Parents, OverflowNeedsGrowth, Apart
<1>. QED
  BY <1>1, <1>3 DEF SInv

LEMMA SNextStep == SInv /\ [Next]_vars => SInv'
<1>. SUFFICES ASSUME SInv, [Next]_vars PROVE SInv'
  OBVIOUS
<1>0. IInv'
  BY NextStep DEF SInv
<1>1. Parents' /\ Extents' /\ OverflowNeedsGrowth'
  <2>1. ASSUME NEW t \in Types, New(t) PROVE Parents' /\ Extents' /\ OverflowNeedsGrowth'
    BY <2>1, PlaceRoom DEF New
  <2>2. CASE \/ \E v \in {root[r] : r \in Live} \cup {Imm} : Load(v)
             \/ \E i \in Slot : LoadField(i)
             \/ \E r \in RootSlot : StoreRoot(r)
             \/ Pop \/ Register \/ Unregister
    <3>1. pc = "run" /\ pc' = "run" /\ UNCHANGED <<heap, to, free>>
      BY <2>2 DEF Load, LoadField, StoreRoot, Pop, Register, Unregister, heapVars
    <3>. QED
      BY <3>1, RootsOnlyRoom
  <2>3. CASE UNCHANGED vars
    <3>1. NoCopy /\ UNCHANGED <<heap, root, hp, sp, todo, pc>>
      BY <2>3 DEF vars, NoCopy
    <3>2. CASE pc = "no_to_space"
      <4>1. Extents'
        BY <3>1, ExtentsNoCopy DEF SInv, Quiet, InCopy, Collecting
      <4>. QED
        BY <3>1, <3>2, <4>1 DEF SInv, Parents, OverflowNeedsGrowth, Collecting
    <3>3. CASE pc # "no_to_space"
      BY <3>1, <3>3, StillRoom DEF Quiet, InCopy, Collecting
    <3>. QED
      BY <3>2, <3>3
  <2>4. CASE Mutate
    BY <2>1, <2>2, <2>4, StoreFieldRoom DEF Mutate
  <2>5. CASE Collect
    BY <2>5, CopyRootRoom, CopyNeighborRoom, LoopRoom, EndRoom, RetryRoom DEF Collect
  <2>. QED
    BY <2>3, <2>4, <2>5, StartRoom DEF Next
<1>. QED
  BY <1>0, <1>1 DEF SInv

(* What the collector copies and how much room it takes: the invariant for *)
(* what gc_cheney_scavenge reclaims.                                       *)
THEOREM RoomInvariant == Spec => []SInv
BY SInitStep, SNextStep, PTL DEF Spec

(* "To space run out of space" is reached only if an object is larger as a *)
(* copy (vm_obj_size) than as it was allocated.                            *)
THEOREM SurvivorsFit == Spec => []OverflowNeedsGrowth
<1>1. SInv => OverflowNeedsGrowth
  BY DEF SInv
<1>. QED
  BY <1>1, RoomInvariant, PTL

(* A collection reclaims all garbage: a set that has the objects in root   *)
(* slots and with an object those it refers to has all the survivors.      *)
THEOREM GarbageGoes == Spec => []OnlyReachableSurvive
<1>1. ASSUME SInv PROVE OnlyReachableSurvive
  <2>. SUFFICES ASSUME pc = "retry", NEW S \in SUBSET InToSpace, Closed(S), InToSpace \ S # {}
                PROVE  FALSE
    BY DEF OnlyReachableSurvive
  <2>. DEFINE T == {a[2] : a \in InToSpace \ S}
  <2>1. T \in SUBSET Nat /\ T # {}
    BY AddrFacts DEF InToSpace
  <2>2. \E n \in T : \A m \in T : n <= m
    <3>. HIDE DEF T
    <3>. QED
      BY <2>1, LeastNat
  <2>3. PICK a \in InToSpace \ S : \A b \in InToSpace \ S : a[2] <= b[2]
    BY <2>2
  <2>4. a \in ToObj
    BY DEF InToSpace, ToObj
  <2>5. CASE \E r \in Live \ todo : root[r] = a
    BY <2>3, <2>5 DEF Closed
  <2>6. CASE \E b \in ToObj, i \in Slot : b[2] < a[2] /\ heap[b].f[i] = a
    <3>1. PICK b \in ToObj, i \in Slot : b[2] < a[2] /\ heap[b].f[i] = a
      BY <2>6
    <3>2. b \in InToSpace /\ a[2] \in Nat /\ b[2] \in Nat
      BY <2>4, AddrFacts DEF InToSpace, ToObj
    <3>3. b \in S
      BY <2>3, <3>1, <3>2
    <3>. QED
      BY <2>3, <3>1, <3>3 DEF Closed
  <2>. QED
    BY <1>1, <2>4, <2>5, <2>6 DEF SInv, Parents
<1>. QED
  BY <1>1, RoomInvariant, PTL
=============================================================================

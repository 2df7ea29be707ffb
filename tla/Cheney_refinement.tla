------------------------- MODULE Cheney_refinement -------------------------
(***************************************************************************)
(* The copying collector implements the object graph (ObjGraph), for every *)
(* size of the segments, every set of types, object sizes and number of    *)
(* roots.                                                                  *)
(***************************************************************************)
EXTENDS CheneyRefines, Cheney_proofs

-----------------------------------------------------------------------------
(* Root slots.                                                             *)

LEMMA GraphConstants ==
  /\ Graph!Slot = Slot
  /\ Graph!RootSlot = RootSlot
  /\ Graph!Live = Live
  /\ \A i : Graph!Stack(i) = Stack(i) /\ Graph!Handle(i) = Handle(i)
BY DEF Graph!Slot, Slot, Graph!RootSlot, RootSlot, Graph!Live, Live, Graph!Stack, Stack,
       Graph!Handle, Handle, Graph!Static, Static

\* The top of the abstract stack is the identity on top of the stack.
LEMMA GraphTop ==
  ASSUME TypeOK, sp > 0
  PROVE  /\ Stack(sp - 1) \in RootSlot
         /\ Graph!Top = Id(Top)
<1>1. Stack(sp - 1) \in RootSlot
  BY LiveFacts DEF TypeOK
<1>2. Graph!Top = View[Stack(sp - 1)]
  BY GraphConstants DEF Graph!Top
<1>. QED
  BY <1>1, <1>2 DEF View, Top

\* Live slots only come and go at the top of the stack and of the handles.
LEMMA LiveBack ==
  ASSUME TypeOK
  PROVE  /\ hp' = hp /\ sp' = sp + 1 => Live \cup {Stack(sp)} \subseteq Live'
         /\ hp' = hp /\ sp' = sp - 1 /\ sp > 0 => Live \subseteq Live' \cup {Stack(sp - 1)}
         /\ hp' = hp /\ sp' = sp - 2 /\ sp > 1 =>
              Live \subseteq Live' \cup {Stack(sp - 1), Stack(sp - 2)}
         /\ hp' = hp + 1 /\ sp' = sp - 1 /\ sp > 0 =>
              Live \cup {Handle(hp)} \subseteq Live' \cup {Stack(sp - 1)}
         /\ hp' = hp - 1 /\ sp' = sp + 1 /\ hp > 0 =>
              Live \cup {Stack(sp)} \subseteq Live' \cup {Handle(hp - 1)}
<1>1. sp \in Nat /\ hp \in Nat
  BY RootsAssumption DEF TypeOK
<1>2. ASSUME hp' = hp, sp' = sp + 1 PROVE Live \cup {Stack(sp)} \subseteq Live'
  BY <1>1, <1>2 DEF Live
<1>3. ASSUME hp' = hp, sp' = sp - 1, sp > 0 PROVE Live \subseteq Live' \cup {Stack(sp - 1)}
  BY <1>1, <1>3 DEF Live
<1>4. ASSUME hp' = hp, sp' = sp - 2, sp > 1
      PROVE  Live \subseteq Live' \cup {Stack(sp - 1), Stack(sp - 2)}
  <2>1. \A i \in 0 .. sp - 1 : i \in 0 .. sp' - 1 \/ i = sp - 1 \/ i = sp - 2
    BY <1>1, <1>4
  <2>. QED
    BY <1>4, <2>1 DEF Live
<1>5. ASSUME hp' = hp + 1, sp' = sp - 1, sp > 0
      PROVE  Live \cup {Handle(hp)} \subseteq Live' \cup {Stack(sp - 1)}
  BY <1>1, <1>5 DEF Live
<1>6. ASSUME hp' = hp - 1, sp' = sp + 1, hp > 0
      PROVE  Live \cup {Stack(sp)} \subseteq Live' \cup {Handle(hp - 1)}
  BY <1>1, <1>6 DEF Live
<1>. QED
  BY <1>2, <1>3, <1>4, <1>5, <1>6

LEMMA PoppedSlots ==
  ASSUME TypeOK
  PROVE  /\ Popped(1) = [r \in RootSlot |-> IF r = Stack(sp - 1) THEN Null ELSE root[r]]
         /\ Popped(2) = [r \in RootSlot |->
                           IF r \in {Stack(sp - 1), Stack(sp - 2)} THEN Null ELSE root[r]]
<1>1. \A r : (\E i \in 1 .. 1 : r = Stack(sp - i)) <=> r = Stack(sp - 1)
  OBVIOUS
<1>2. \A r : (\E i \in 1 .. 2 : r = Stack(sp - i)) <=> r \in {Stack(sp - 1), Stack(sp - 2)}
  <2>1. \A i \in 1 .. 2 : i = 1 \/ i = 2
    OBVIOUS
  <2>2. 1 \in 1 .. 2 /\ 2 \in 1 .. 2
    OBVIOUS
  <2>. QED
    BY <2>1, <2>2
<1>. QED
  BY <1>1, <1>2 DEF Popped

LEMMA GraphPopped ==
  ASSUME TypeOK
  PROVE  /\ Graph!Popped(1) = [r \in RootSlot |-> IF r = Stack(sp - 1) THEN Null ELSE View[r]]
         /\ Graph!Popped(2) = [r \in RootSlot |->
                                 IF r \in {Stack(sp - 1), Stack(sp - 2)} THEN Null ELSE View[r]]
<1>1. \A r : (\E i \in 1 .. 1 : r = Stack(sp - i)) <=> r = Stack(sp - 1)
  OBVIOUS
<1>2. \A r : (\E i \in 1 .. 2 : r = Stack(sp - i)) <=> r \in {Stack(sp - 1), Stack(sp - 2)}
  <2>1. \A i \in 1 .. 2 : i = 1 \/ i = 2
    OBVIOUS
  <2>2. 1 \in 1 .. 2 /\ 2 \in 1 .. 2
    OBVIOUS
  <2>. QED
    BY <2>1, <2>2
<1>. QED
  BY <1>1, <1>2, GraphConstants DEF Graph!Popped

-----------------------------------------------------------------------------
(* Identities.                                                             *)

Known(v) == IsRef(v) => heap[v] # NoObj

\* What v denotes after the step.
NewId(v) == IF v \in Addr THEN heap'[v].id ELSE v

\* What a reference denotes depends on the header it points to only.
LEMMA SameId ==
  /\ \A v : (IsRef(v) => heap'[v].id = heap[v].id) => Id(v)' = Id(v) /\ NewId(v) = Id(v)
  /\ Id(Null) = Null /\ Id(Imm) = Imm /\ NewId(Null) = Null
BY AddrFacts DEF Id, IsRef, NewId

LEMMA NewView ==
  /\ View' = [r \in RootSlot |-> NewId(root'[r])]
  /\ Faithful' <=> \A a \in Addr : heap'[a] # NoObj =>
       obj'[heap'[a].id] = [t |-> heap'[a].t, f |-> [i \in Slot |-> NewId(heap'[a].f[i])]]
BY DEF View, Faithful, Id, IsRef, NewId

LEMMA AllKnown ==
  ASSUME RInv, pc \in {"run", "roots", "scan", "retry"}
  PROVE  /\ \A r \in RootSlot : root[r] \in Val /\ Known(root[r])
         /\ \A a \in Addr : heap[a] # NoObj =>
              /\ heap[a] \in Obj
              /\ \A i \in Slot : heap[a].f[i] \in Val /\ Known(heap[a].f[i])
<1>1. TypeOK /\ IInv /\ (Quiet \/ Collecting)
  BY DEF RInv, IInv, Quiet, Collecting
<1>2. \A s, v : Holds(s, v) => Known(v)
  BY DEF Holds, Known
<1>3. \A r \in Live : Known(root[r])
  BY <1>1, <1>2 DEF IInv, QuietRefs, Tricolour
<1>4. \A r \in RootSlot \ Live : root[r] = Null
  BY DEF RInv, DeadSlots
<1>5. ASSUME NEW a \in Addr, heap[a] # NoObj, NEW i \in Slot PROVE Known(heap[a].f[i])
  <2>1. CASE a[1] = to
    BY <1>1, <1>2, <1>5, <2>1 DEF IInv, QuietRefs, Tricolour, ToObj
  <2>2. CASE a[1] # to
    BY <1>1, <1>2, <1>5, <2>2 DEF IInv, FromSpaceEmpty, Originals, FromObj, InCopy
  <2>. QED
    BY <2>1, <2>2
<1>6. \A a \in Addr : heap[a] # NoObj => heap[a] \in Obj /\ \A i \in Slot : heap[a].f[i] \in Val
  BY <1>1, ObjFields DEF TypeOK
<1>7. Known(Null)
  BY AddrFacts DEF Known, IsRef
<1>. QED
  BY <1>1, <1>3, <1>4, <1>5, <1>6, <1>7 DEF TypeOK

\* An identity that is known has been given out.
LEMMA KnownIds ==
  ASSUME RInv, NEW v \in Val, Known(v)
  PROVE  /\ IsRef(v) => /\ Id(v) \in 1 .. lastId /\ Id(v) \in 1 .. MaxId
                        /\ Id(v) = heap[v].id /\ v \in Addr /\ heap[v] # NoObj
         /\ Id(v) \in Graph!Ref
         /\ v # Null => Id(v) # Null
<1>1. lastId \in Nat /\ lastId <= MaxId /\ MaxId \in Nat
  BY RootsAssumption DEF RInv, GivenOut, IInv, TypeOK
<1>2. ASSUME IsRef(v)
      PROVE  /\ Id(v) \in 1 .. lastId /\ Id(v) \in 1 .. MaxId
             /\ Id(v) = heap[v].id /\ v \in Addr /\ heap[v] # NoObj
  BY <1>1, <1>2 DEF RInv, GivenOut, Id, IsRef, Known
<1>3. ~IsRef(v) => Id(v) = v /\ v \in {Null, Imm}
  BY DEF Id, IsRef, Val
<1>. QED
  BY <1>2, <1>3, IdsAssumption DEF Graph!Ref

-----------------------------------------------------------------------------
(* Steps that change nothing but root slots.                               *)

RootStep ==
  /\ pc = "run" /\ pc' = "run"
  /\ UNCHANGED <<heap, lastId, obj>>

LEMMA RootIds ==
  ASSUME RootStep, root' \in [RootSlot -> Val]
  PROVE  /\ \A v : Id(v)' = Id(v)
         /\ View' = [r \in RootSlot |-> Id(root'[r])]
BY SameId DEF RootStep, View, Id, IsRef

\* The heap and what is known of it stay as they are.
LEMMA RootInvariant ==
  ASSUME RInv, RootStep, IInv', DeadSlots'
  PROVE  RInv'
<1>1. \A v : Id(v)' = Id(v)
  BY SameId DEF RootStep
<1>2. Faithful'
  BY <1>1 DEF RInv, Faithful, RootStep
<1>3. GivenOut' /\ Recorded'
  BY DEF RInv, GivenOut, Recorded, RootStep, Graph!Ref, IsRef
<1>. QED
  BY <1>2, <1>3 DEF RInv

LEMMA RefLoad ==
  ASSUME RInv, IInv', NEW v \in {root[r] : r \in Live} \cup {Imm}, Load(v), UNCHANGED obj
  PROVE  RInv' /\ Graph!Next
<1> USE DEF Load
<1>0. TypeOK /\ RootStep /\ sp \in Nat
  BY RootsAssumption DEF RInv, IInv, TypeOK, RootStep, heapVars
<1>1. root' \in [RootSlot -> Val] /\ Stack(sp) \in RootSlot
  BY <1>0, RootFacts, RootsAssumption DEF IInv, TypeOK
<1>2. Live \cup {Stack(sp)} \subseteq Live' /\ Live \subseteq RootSlot
  BY <1>0, LiveBack, LiveFacts DEF TypeOK
<1>3. DeadSlots'
  BY <1>0, <1>1, <1>2 DEF RInv, DeadSlots, TypeOK
<1>4. RInv'
  BY <1>0, <1>3, RootInvariant
<1>5. View' = [View EXCEPT ![Stack(sp)] = Id(v)]
  BY <1>0, <1>1, RootIds DEF View, TypeOK
<1>6. Graph!Load(Id(v))
  BY <1>0, <1>5, GraphConstants DEF Graph!Load, RootStep
<1>7. Id(v) \in {View[r] : r \in Live} \cup {Imm}
  BY <1>2, SameId DEF View
<1>. QED
  BY <1>4, <1>6, <1>7, GraphConstants DEF Graph!Next

LEMMA RefLoadField ==
  ASSUME RInv, IInv', NEW i \in Slot, LoadField(i), UNCHANGED obj
  PROVE  RInv' /\ Graph!Next
<1> USE DEF LoadField
<1>0. TypeOK /\ RootStep /\ sp \in Nat
  BY RootsAssumption DEF RInv, IInv, TypeOK, RootStep, heapVars
<1>1. root' \in [RootSlot -> Val] /\ Stack(sp - 1) \in RootSlot /\ Graph!Top = Id(Top)
  BY <1>0, GraphTop DEF IInv, TypeOK
<1>2. Live' = Live /\ Stack(sp - 1) \in Live
  BY <1>0, LiveFacts DEF Live, TypeOK
<1>3. DeadSlots'
  BY <1>0, <1>1, <1>2 DEF RInv, DeadSlots, TypeOK
<1>4. RInv'
  BY <1>0, <1>3, RootInvariant
<1>5. /\ Id(Top) \in 1 .. MaxId /\ Id(Top) = heap[Top].id
      /\ Top \in Addr /\ heap[Top] # NoObj
  BY <1>0, <1>1, AllKnown, KnownIds DEF Top, RootStep
<1>6. obj[Id(Top)] = [t |-> heap[Top].t, f |-> [j \in Slot |-> Id(heap[Top].f[j])]]
  BY <1>5 DEF RInv, Faithful
<1>7. obj[Id(Top)].t = heap[Top].t /\ obj[Id(Top)].f[i] = Id(heap[Top].f[i])
  BY <1>6
<1>8. View' = [View EXCEPT ![Stack(sp - 1)] = Id(heap[Top].f[i])]
  BY <1>0, <1>1, RootIds DEF View, TypeOK
<1>9. Graph!LoadField(i)
  BY <1>0, <1>1, <1>5, <1>7, <1>8, GraphConstants DEF Graph!LoadField, RootStep
<1>. QED
  BY <1>4, <1>9, GraphConstants DEF Graph!Next

LEMMA RefStoreRoot ==
  ASSUME RInv, IInv', NEW q \in RootSlot, StoreRoot(q), UNCHANGED obj
  PROVE  RInv' /\ Graph!Next
<1> USE DEF StoreRoot
<1>0. TypeOK /\ RootStep /\ sp \in Nat
  BY RootsAssumption DEF RInv, IInv, TypeOK, RootStep, heapVars
<1>1. /\ root' \in [RootSlot -> Val] /\ Stack(sp - 1) \in RootSlot /\ Graph!Top = Id(Top)
      /\ root' = [r \in RootSlot |-> IF r = q THEN Top
                                     ELSE IF r = Stack(sp - 1) THEN Null ELSE root[r]]
  BY <1>0, GraphTop, PoppedSlots DEF IInv, TypeOK
<1>2. Live \subseteq Live' \cup {Stack(sp - 1)} /\ q \in Live'
  BY <1>0, LiveBack DEF TypeOK
<1>3. DeadSlots'
  BY <1>0, <1>1, <1>2 DEF RInv, DeadSlots, TypeOK
<1>4. RInv'
  BY <1>0, <1>3, RootInvariant
<1>5. Id(Top) # Null
  BY <1>0, <1>1, AllKnown, KnownIds DEF Top, RootStep
<1>6. View' = [Graph!Popped(1) EXCEPT ![q] = Id(Top)]
  BY <1>0, <1>1, RootIds, GraphPopped, SameId DEF View, TypeOK
<1>7. Graph!StoreRoot(q)
  BY <1>0, <1>1, <1>5, <1>6, GraphConstants DEF Graph!StoreRoot, RootStep
<1>. QED
  BY <1>4, <1>7, GraphConstants DEF Graph!Next

LEMMA RefPop ==
  ASSUME RInv, IInv', Pop, UNCHANGED obj
  PROVE  RInv' /\ Graph!Next
<1> USE DEF Pop
<1>0. TypeOK /\ RootStep /\ sp \in Nat
  BY RootsAssumption DEF RInv, IInv, TypeOK, RootStep, heapVars
<1>1. /\ root' \in [RootSlot -> Val] /\ Stack(sp - 1) \in RootSlot
      /\ root' = [r \in RootSlot |-> IF r = Stack(sp - 1) THEN Null ELSE root[r]]
  BY <1>0, GraphTop, PoppedSlots DEF IInv, TypeOK
<1>2. Live \subseteq Live' \cup {Stack(sp - 1)}
  BY <1>0, LiveBack DEF TypeOK
<1>3. DeadSlots'
  BY <1>0, <1>1, <1>2 DEF RInv, DeadSlots, TypeOK
<1>4. RInv'
  BY <1>0, <1>3, RootInvariant
<1>6. View' = Graph!Popped(1)
  BY <1>0, <1>1, RootIds, GraphPopped, SameId DEF View, TypeOK
<1>7. Graph!Pop
  BY <1>0, <1>6, GraphConstants DEF Graph!Pop, RootStep
<1>. QED
  BY <1>4, <1>7 DEF Graph!Next

LEMMA RefRegister ==
  ASSUME RInv, IInv', Register, UNCHANGED obj
  PROVE  RInv' /\ Graph!Next
<1> USE DEF Register
<1>0. TypeOK /\ RootStep /\ sp \in Nat /\ hp \in Nat
  BY RootsAssumption DEF RInv, IInv, TypeOK, RootStep, heapVars
<1>1. /\ root' \in [RootSlot -> Val] /\ Stack(sp - 1) \in RootSlot /\ Graph!Top = Id(Top)
      /\ Handle(hp) \in RootSlot
      /\ root' = [r \in RootSlot |-> IF r = Handle(hp) THEN Top
                                     ELSE IF r = Stack(sp - 1) THEN Null ELSE root[r]]
  BY <1>0, GraphTop, PoppedSlots, RootFacts, RootsAssumption DEF IInv, TypeOK
<1>2. Live \cup {Handle(hp)} \subseteq Live' \cup {Stack(sp - 1)} /\ Handle(hp) # Stack(sp - 1)
  BY <1>0, LiveBack, RootFacts DEF TypeOK
<1>3. DeadSlots'
  BY <1>0, <1>1, <1>2 DEF RInv, DeadSlots, TypeOK
<1>4. RInv'
  BY <1>0, <1>3, RootInvariant
<1>5. Id(Top) \in 1 .. MaxId
  BY <1>0, <1>1, AllKnown, KnownIds DEF Top, RootStep
<1>6. View' = [Graph!Popped(1) EXCEPT ![Handle(hp)] = Id(Top)]
  BY <1>0, <1>1, RootIds, GraphPopped, SameId DEF View, TypeOK
<1>7. Graph!Register
  BY <1>0, <1>1, <1>5, <1>6, GraphConstants DEF Graph!Register, RootStep
<1>. QED
  BY <1>4, <1>7 DEF Graph!Next

LEMMA RefUnregister ==
  ASSUME RInv, IInv', Unregister, UNCHANGED obj
  PROVE  RInv' /\ Graph!Next
<1> USE DEF Unregister
<1>0. TypeOK /\ RootStep /\ sp \in Nat /\ hp \in Nat
  BY RootsAssumption DEF RInv, IInv, TypeOK, RootStep, heapVars
<1>1. /\ root' \in [RootSlot -> Val] /\ Stack(sp) \in RootSlot /\ Handle(hp - 1) \in RootSlot
      /\ Stack(sp) # Handle(hp - 1)
      /\ root' = [r \in RootSlot |-> IF r = Handle(hp - 1) THEN Null
                                     ELSE IF r = Stack(sp) THEN root[Handle(hp - 1)] ELSE root[r]]
  <2>1. Stack(sp) \in RootSlot /\ Handle(hp - 1) \in RootSlot /\ Stack(sp) # Handle(hp - 1)
    BY <1>0, RootFacts, RootsAssumption DEF TypeOK
  <2>. QED
    BY <1>0, <2>1 DEF IInv, TypeOK
<1>2. Live \cup {Stack(sp)} \subseteq Live' \cup {Handle(hp - 1)}
  BY <1>0, LiveBack DEF TypeOK
<1>3. DeadSlots'
  BY <1>0, <1>1, <1>2 DEF RInv, DeadSlots, TypeOK
<1>4. RInv'
  BY <1>0, <1>3, RootInvariant
<1>6. View' = [View EXCEPT ![Stack(sp)] = View[Handle(hp - 1)], ![Handle(hp - 1)] = Null]
  BY <1>0, <1>1, RootIds, SameId DEF View, TypeOK
<1>7. Graph!Unregister
  BY <1>0, <1>6, GraphConstants DEF Graph!Unregister, RootStep
<1>. QED
  BY <1>4, <1>7 DEF Graph!Next

-----------------------------------------------------------------------------
(* A store: the object and its record change in the same field.            *)

\* While the program runs, an identity belongs to one object.
LEMMA OneObject ==
  ASSUME RInv, pc = "run", NEW a \in Addr, NEW b \in Addr, heap[a] # NoObj, heap[b] # NoObj,
         heap[a].id = heap[b].id
  PROVE  a = b
<1>1. a \in ToObj /\ b \in ToObj
  BY DEF RInv, IInv, FromSpaceEmpty, FromObj, ToObj, Quiet
<1>. QED
  BY <1>1 DEF RInv, IInv, UniqueIds, Quiet

LEMMA RefStoreField ==
  ASSUME RInv, IInv', NEW i \in Slot, StoreField(i), Stored(i)
  PROVE  RInv' /\ Graph!Next
<1> DEFINE d == root[Stack(sp - 2)]
           n == Id(d)
           x == Id(Top)
<1>0. /\ TypeOK /\ sp \in Nat /\ sp > 1 /\ pc = "run" /\ pc' = "run" /\ hp' = hp /\ sp' = sp - 2
      /\ lastId' = lastId /\ root' = Popped(2) /\ IsRef(d) /\ Top # Null
      /\ i <= Slots[heap[d].t] /\ heap' = [heap EXCEPT ![d].f[i] = Top]
      /\ obj' = [obj EXCEPT ![n].f[i] = x]
  BY RootsAssumption DEF RInv, IInv, TypeOK, StoreField, Stored
<1>1. Stack(sp - 1) \in RootSlot /\ Stack(sp - 2) \in RootSlot /\ Graph!Top = x
  BY <1>0, LiveFacts, GraphTop DEF TypeOK
<1>2. /\ n \in 1 .. lastId /\ n \in 1 .. MaxId /\ n = heap[d].id /\ d \in Addr /\ heap[d] # NoObj
      /\ heap[d] \in Obj /\ x \in Graph!Ref /\ x # Null
  BY <1>0, <1>1, AllKnown, KnownIds DEF Top
<1>3. /\ heap' \in [Addr -> Obj \cup {NoObj}] /\ heap'[d] = [heap[d] EXCEPT !.f[i] = Top]
      /\ \A a \in Addr : a # d => heap'[a] = heap[a]
  BY <1>0, <1>2 DEF RInv, IInv, TypeOK
<1>4. /\ heap'[d].id = heap[d].id /\ heap'[d].t = heap[d].t
      /\ heap'[d].f[i] = Top /\ \A j \in Slot : j # i => heap'[d].f[j] = heap[d].f[j]
  BY <1>2, <1>3, ObjFields DEF Obj
<1>5. \A v : Id(v)' = Id(v) /\ NewId(v) = Id(v)
  BY <1>3, <1>4, SameId DEF IsRef
<1>6. obj[n] = [t |-> heap[d].t, f |-> [j \in Slot |-> Id(heap[d].f[j])]]
  BY <1>2 DEF RInv, Faithful
<1>7. /\ obj \in [1 .. MaxId -> [t : Types, f : [Slot -> Graph!Ref]] \cup {NoObj}]
      /\ obj'[n] = [obj[n] EXCEPT !.f[i] = x]
      /\ \A k \in 1 .. MaxId : k # n => obj'[k] = obj[k]
  BY <1>0, <1>2 DEF RInv, Recorded
<1>. HIDE DEF d, n, x
<1>8. obj'[n] = [t |-> heap[d].t, f |-> [j \in Slot |-> IF j = i THEN x ELSE Id(heap[d].f[j])]]
  BY <1>6, <1>7
<1>9. Faithful'
  <2>1. SUFFICES ASSUME NEW a \in Addr, heap'[a] # NoObj
                 PROVE  obj'[heap'[a].id] =
                          [t |-> heap'[a].t, f |-> [j \in Slot |-> NewId(heap'[a].f[j])]]
    BY NewView
  <2>2. CASE a = d
    <3>1. \A j \in Slot : NewId(heap'[d].f[j]) = IF j = i THEN x ELSE Id(heap[d].f[j])
      BY <1>4, <1>5 DEF x
    <3>. QED
      BY <2>2, <3>1, <1>2, <1>4, <1>8
  <2>3. CASE a # d
    <3>1. heap'[a] = heap[a] /\ heap[a] # NoObj
      BY <2>1, <2>3, <1>3
    <3>2. heap[a].id # n
      BY <2>3, <3>1, <1>0, <1>2, OneObject
    <3>3. heap[a].id \in 1 .. MaxId
      BY <3>1, <1>0, RootsAssumption DEF RInv, GivenOut, TypeOK
    <3>4. obj[heap[a].id] = [t |-> heap[a].t, f |-> [j \in Slot |-> Id(heap[a].f[j])]]
      BY <3>1 DEF RInv, Faithful
    <3>. QED
      BY <3>1, <3>2, <3>3, <3>4, <1>5, <1>7
  <2>. QED
    BY <2>2, <2>3
<1>10. DeadSlots'
  <2>1. Live \subseteq Live' \cup {Stack(sp - 1), Stack(sp - 2)}
    BY <1>0, LiveBack
  <2>2. root' = [r \in RootSlot |-> IF r \in {Stack(sp - 1), Stack(sp - 2)} THEN Null ELSE root[r]]
    BY <1>0, PoppedSlots
  <2>. QED
    BY <2>1, <2>2 DEF RInv, DeadSlots
<1>11. GivenOut' /\ Recorded'
  <2>1. GivenOut'
    BY <1>0, <1>3, <1>4, <1>2 DEF RInv, GivenOut
  <2>2. obj'[n] \in [t : Types, f : [Slot -> Graph!Ref]]
    <3>1. heap[d].t \in Types
      BY <1>2, ObjFields
    <3>2. \A j \in Slot : Id(heap[d].f[j]) \in Graph!Ref
      BY <1>0, <1>2, AllKnown, KnownIds
    <3>. QED
      BY <3>1, <3>2, <1>2, <1>8
  <2>3. obj' \in [1 .. MaxId -> [t : Types, f : [Slot -> Graph!Ref]] \cup {NoObj}]
    BY <2>2, <1>7, <1>0, <1>2
  <2>. QED
    BY <2>1, <2>3 DEF Recorded, Graph!Ref
<1>12. View' = Graph!Popped(2)
  <2>1. root' = [r \in RootSlot |-> IF r \in {Stack(sp - 1), Stack(sp - 2)} THEN Null ELSE root[r]]
    BY <1>0, PoppedSlots
  <2>2. View' = [r \in RootSlot |-> Id(root'[r])]
    BY <1>5 DEF View
  <2>3. \A r \in RootSlot : Id(root'[r]) =
          IF r \in {Stack(sp - 1), Stack(sp - 2)} THEN Null ELSE View[r]
    BY <2>1, SameId DEF View
  <2>. QED
    BY <2>2, <2>3, <1>0, GraphPopped
<1>13. Graph!StoreField(i)
  <2>1. View[Graph!Stack(sp - 2)] = n
    BY <1>1, GraphConstants DEF View, n, d
  <2>2. obj[n].t = heap[d].t
    BY <1>6
  <2>. QED
    BY <2>1, <2>2, <1>0, <1>1, <1>2, <1>12 DEF Graph!StoreField
<1>. QED
  BY <1>9, <1>10, <1>11, <1>13, GraphConstants DEF RInv, Graph!Next

-----------------------------------------------------------------------------
(* A new object, in gc_cheney_malloc's first or second attempt.            *)
LEMMA RefPlace ==
  ASSUME RInv, IInv', NEW t \in Types, pc \in {"run", "retry"}, pc' = "run", sp < StackSize,
         lastId < MaxId, CanMalloc(AllocSize[t]), Place(t), UNCHANGED <<to, hp>>, Created(t)
  PROVE  RInv' /\ Graph!New(t)
<1> DEFINE p == <<to, free>>
           n == lastId + 1
           zero == [j \in Slot |-> Null]
<1>0. /\ TypeOK /\ sp \in Nat /\ lastId \in Nat /\ MaxId \in Nat /\ sp' = sp + 1 /\ lastId' = n
      /\ heap' = [heap EXCEPT ![p] = [id |-> n, t |-> t, f |-> zero, fwd |-> Null]]
      /\ root' = [root EXCEPT ![Stack(sp)] = p]
      /\ obj' = [obj EXCEPT ![n] = [t |-> t, f |-> zero]]
  BY RootsAssumption DEF RInv, IInv, TypeOK, Place, Created
<1>1. p \in Addr /\ heap[p] = NoObj
  <2>1. AllocSize[t] \in Nat \ {0} /\ free \in Nat /\ SegSize \in Nat /\ free + AllocSize[t] < SegSize
    BY <1>0, TypesAssumption, SegmentsAssumption DEF TypeOK, CanMalloc
  <2>2. free \in 0 .. SegSize - 1
    BY <2>1
  <2>3. p \in Addr /\ p[1] = to /\ p[2] = free
    BY <1>0, <2>2, AddrFacts DEF TypeOK
  <2>4. p \notin ToObj
    BY <2>1, <2>3 DEF RInv, IInv, ToSpaceShape, Quiet
  <2>. QED
    BY <2>3, <2>4 DEF ToObj
<1>. HIDE DEF p, zero
<1>2. /\ heap'[p] = [id |-> n, t |-> t, f |-> zero, fwd |-> Null]
      /\ \A a \in Addr : a # p => heap'[a] = heap[a]
  BY <1>0, <1>1 DEF TypeOK
<1>3. \A v \in Val : Known(v) => NewId(v) = Id(v)
  <2>1. \A v \in Addr : heap[v] # NoObj => heap'[v].id = heap[v].id
    BY <1>1, <1>2
  <2>. QED
    BY <2>1, SameId DEF Known, IsRef
<1>4. NewId(p) = n
  BY <1>1, <1>2 DEF NewId
<1>5. /\ n \in 1 .. MaxId /\ obj'[n] = [t |-> t, f |-> zero]
      /\ \A k \in 1 .. MaxId : k # n => obj'[k] = obj[k]
  BY <1>0 DEF RInv, Recorded
<1>6. DeadSlots'
  <2>1. Live \cup {Stack(sp)} \subseteq Live'
    BY <1>0, LiveBack
  <2>. QED
    BY <2>1, <1>0 DEF RInv, DeadSlots, TypeOK
<1>7. GivenOut'
  <2>1. \A a \in Addr : heap'[a] # NoObj => heap'[a].id \in 1 .. n
    BY <1>0, <1>2 DEF RInv, GivenOut
  <2>. QED
    BY <2>1, <1>0 DEF GivenOut
<1>8. Recorded'
  <2>1. zero \in [Slot -> Graph!Ref]
    BY DEF zero, Graph!Ref
  <2>2. obj \in [1 .. MaxId -> [t : Types, f : [Slot -> Graph!Ref]] \cup {NoObj}]
    BY DEF RInv, Recorded
  <2>3. obj' \in [1 .. MaxId -> [t : Types, f : [Slot -> Graph!Ref]] \cup {NoObj}]
    BY <2>1, <2>2, <1>0, <1>5
  <2>. QED
    BY <2>3 DEF Recorded, Graph!Ref
<1>9. Faithful'
  <2>1. SUFFICES ASSUME NEW a \in Addr, heap'[a] # NoObj
                 PROVE  obj'[heap'[a].id] =
                          [t |-> heap'[a].t, f |-> [j \in Slot |-> NewId(heap'[a].f[j])]]
    BY NewView
  <2>2. CASE a = p
    <3>1. heap'[p].id = n /\ heap'[p].t = t /\ \A j \in Slot : heap'[p].f[j] = Null
      BY <1>2 DEF zero
    <3>2. NewId(Null) = Null
      BY SameId
    <3>3. [j \in Slot |-> NewId(heap'[p].f[j])] = zero
      BY <3>1, <3>2 DEF zero
    <3>. QED
      BY <2>2, <3>1, <3>3, <1>5
  <2>3. CASE a # p
    <3>1. heap'[a] = heap[a] /\ heap[a] # NoObj
      BY <2>1, <2>3, <1>2
    <3>2. heap[a].id \in 1 .. lastId
      BY <3>1 DEF RInv, GivenOut
    <3>3. obj'[heap[a].id] = obj[heap[a].id]
      BY <3>2, <1>0, <1>5
    <3>4. obj[heap[a].id] = [t |-> heap[a].t, f |-> [j \in Slot |-> Id(heap[a].f[j])]]
      BY <3>1 DEF RInv, Faithful
    <3>5. \A j \in Slot : NewId(heap[a].f[j]) = Id(heap[a].f[j])
      BY <3>1, <1>3, AllKnown
    <3>. QED
      BY <3>1, <3>3, <3>4, <3>5
  <2>. QED
    BY <2>2, <2>3
<1>10. View' = [View EXCEPT ![Stack(sp)] = n]
  <2>1. \A r \in RootSlot : NewId(root[r]) = Id(root[r])
    BY <1>3, AllKnown
  <2>2. \A r \in RootSlot : NewId(root'[r]) = IF r = Stack(sp) THEN n ELSE Id(root[r])
    BY <2>1, <1>0, <1>4 DEF TypeOK
  <2>3. View' = [r \in RootSlot |-> NewId(root'[r])]
    BY NewView
  <2>. QED
    BY <2>2, <2>3 DEF View
<1>11. Graph!New(t)
  BY <1>0, <1>10, GraphConstants DEF Graph!New, Graph!Slot, Slot, zero
<1>. QED
  BY <1>6, <1>7, <1>8, <1>9, <1>11 DEF RInv

-----------------------------------------------------------------------------
(* The collector: objects move, the graph does not change.                 *)

\* An object after the step that is the same as one before it.
Same(a, b) ==
  /\ heap[b] # NoObj /\ heap'[a].id = heap[b].id /\ heap'[a].t = heap[b].t
  /\ \A i \in Slot : NewId(heap'[a].f[i]) = Id(heap[b].f[i])

GcStep ==
  /\ pc' # "run" => lastId < MaxId
  /\ UNCHANGED <<hp, sp, lastId, obj>>

LEMMA GcInvariant ==
  ASSUME RInv, IInv', GcStep, root' \in [RootSlot -> Val],
         \A a \in Addr : heap'[a] # NoObj => \E b \in Addr : Same(a, b),
         \A r \in RootSlot : NewId(root'[r]) = Id(root[r]),
         \A r \in RootSlot \ Live : root'[r] = root[r]
  PROVE  RInv' /\ UNCHANGED <<obj, lastId, View, hp, sp>>
<1>1. View' = View
  BY NewView DEF View
<1>2. DeadSlots'
  BY DEF RInv, DeadSlots, GcStep, Live
<1>3. GivenOut'
  <2>1. \A a \in Addr : heap'[a] # NoObj => heap'[a].id \in 1 .. lastId
    BY DEF Same, RInv, GivenOut
  <2>. QED
    BY <2>1 DEF GivenOut, RInv, GcStep
<1>4. Recorded'
  BY DEF RInv, Recorded, GcStep, Graph!Ref
<1>5. Faithful'
  <2>1. ASSUME NEW a \in Addr, heap'[a] # NoObj
        PROVE  obj'[heap'[a].id] = [t |-> heap'[a].t, f |-> [i \in Slot |-> NewId(heap'[a].f[i])]]
    <3>1. PICK b \in Addr : Same(a, b)
      BY <2>1
    <3>2. obj[heap[b].id] = [t |-> heap[b].t, f |-> [i \in Slot |-> Id(heap[b].f[i])]]
      BY <3>1 DEF RInv, Faithful, Same
    <3>3. [i \in Slot |-> NewId(heap'[a].f[i])] = [i \in Slot |-> Id(heap[b].f[i])]
      BY <3>1 DEF Same
    <3>4. heap'[a].id = heap[b].id /\ heap'[a].t = heap[b].t /\ obj' = obj
      BY <3>1 DEF Same, GcStep
    <3>. QED
      BY <3>2, <3>3, <3>4
  <2>. QED
    BY <2>1, NewView
<1>. QED
  BY <1>1, <1>2, <1>3, <1>4, <1>5 DEF RInv, GcStep

\* Neither objects nor roots change.
LEMMA GcStill ==
  ASSUME RInv, IInv', GcStep, UNCHANGED <<heap, root>>
  PROVE  RInv' /\ UNCHANGED <<obj, lastId, View, hp, sp>>
<1>1. root' \in [RootSlot -> Val]
  BY DEF RInv, IInv, TypeOK
<1>2. \A v : NewId(v) = Id(v)
  BY SameId
<1>3. \A a \in Addr : heap'[a] # NoObj => Same(a, a)
  BY <1>2 DEF Same
<1>. QED
  BY <1>1, <1>2, <1>3, GcInvariant

LEMMA RefStill ==
  ASSUME RInv, IInv', UNCHANGED obj,
         (\E t \in Types : StartScavenge(t)) \/ RootsDone \/ ScanObj \/ NeighborsDone
  PROVE  RInv' /\ UNCHANGED <<obj, lastId, View, hp, sp>>
<1>1. UNCHANGED <<heap, root>> /\ GcStep
  BY DEF StartScavenge, RootsDone, ScanObj, NeighborsDone, heapVars, rootVars, GcStep,
         RInv, GivenOut
<1>. QED
  BY <1>1, GcStill

LEMMA RefRetry ==
  ASSUME RInv, IInv', Retry, IF pc' = "run" THEN Created(req) ELSE UNCHANGED obj
  PROVE  RInv' /\ (Graph!Next \/ UNCHANGED <<obj, lastId, View, hp, sp>>)
<1>1. req \in Types /\ sp < StackSize /\ lastId < MaxId /\ pc = "retry"
  BY DEF Retry, RInv, IInv, Phases, GivenOut
<1>2. CASE CanMalloc(AllocSize[req])
  <2>1. pc' = "run" /\ Place(req) /\ UNCHANGED <<to, hp>> /\ Created(req)
    BY <1>2 DEF Retry
  <2>2. RInv' /\ Graph!New(req)
    BY <1>1, <1>2, <2>1, RefPlace
  <2>. QED
    BY <1>1, <2>2 DEF Graph!Next
<1>3. CASE ~CanMalloc(AllocSize[req])
  <2>1. pc' = "no_space" /\ UNCHANGED <<heap, root>> /\ GcStep
    BY <1>1, <1>3 DEF Retry, heapVars, GcStep
  <2>. QED
    BY <2>1, GcStill
<1>. QED
  BY <1>2, <1>3

\* The from-space is given up: nothing that is left refers to it.
LEMMA RefEndScavenge ==
  ASSUME RInv, IInv', EndScavenge, UNCHANGED obj
  PROVE  RInv' /\ UNCHANGED <<obj, lastId, View, hp, sp>>
<1>1. /\ pc' = "retry" /\ UNCHANGED <<root, hp, sp, lastId>> /\ Collecting /\ pc # "run"
      /\ \A a \in Addr : a[1] = to => heap'[a] = heap[a]
      /\ \A a \in Addr : a[1] # to => heap'[a] = NoObj
  BY DEF EndScavenge, rootVars, Collecting
<1>2. GcStep
  BY <1>1 DEF GcStep, RInv, GivenOut
<1>3. TypeOK /\ to' = to /\ Live' = Live
  BY <1>1 DEF RInv, IInv, EndScavenge, Live
<1>4. \A v : Holds(to, v) => NewId(v) = Id(v)
  BY <1>1, SameId DEF Holds, IsRef
<1>5. \A r \in Live : Holds(to, root[r])'
  BY <1>1, <1>3 DEF IInv, QuietRefs, Quiet
<1>6. \A r \in Live : Holds(to, root[r])
  BY <1>1, <1>3, <1>5 DEF Holds, IsRef
<1>7. \A a \in ToObj, i \in Slot : Holds(to, heap[a].f[i])
  <2>1. ToObj' = ToObj
    BY <1>1, <1>3 DEF ToObj
  <2>2. \A a \in ToObj, i \in Slot : Holds(to, heap[a].f[i])'
    BY <1>1, <2>1 DEF IInv, QuietRefs, Quiet
  <2>. QED
    BY <1>1, <1>3, <2>2 DEF Holds, IsRef, ToObj
<1>8. \A a \in Addr : heap'[a] # NoObj => Same(a, a)
  BY <1>1, <1>4, <1>7 DEF Same, ToObj
<1>9. \A r \in RootSlot : NewId(root'[r]) = Id(root[r])
  BY <1>1, <1>4, <1>6, SameId DEF RInv, DeadSlots
<1>. QED
  BY <1>1, <1>2, <1>3, <1>8, <1>9, GcInvariant DEF TypeOK

\* What becomes of a pointer refers to the same identity, and what becomes
\* of the heap are the same objects, with a copy at most.
LEMMA EvacuatedSame ==
  ASSUME RInv, Collecting, NEW v \in Val, Holds(Other(to), v), NEW h, NEW w,
         h = Evacuated(v).heap, w = Evacuated(v).val
  PROVE  /\ h \in [Addr -> Obj \cup {NoObj}] /\ w \in Val
         /\ IF w \in Addr THEN h[w] # NoObj /\ h[w].id = Id(v) ELSE w = Id(v)
         /\ \A a \in Addr : heap[a] # NoObj =>
              h[a] # NoObj /\ h[a].id = heap[a].id /\ h[a].t = heap[a].t /\ h[a].f = heap[a].f
         /\ \A a \in Addr : h[a] # NoObj /\ heap[a] = NoObj =>
              v \in Addr /\ heap[v] # NoObj /\ h[a] = heap[v]
<1>0. IInv /\ TypeOK /\ InCopy
  BY DEF RInv, IInv, InCopy
<1>1. CASE ~IsRef(v)
  <2>1. h = heap /\ w = v
    BY <1>1 DEF Evacuated
  <2>. QED
    BY <1>0, <1>1, <2>1 DEF Id, IsRef, TypeOK
<1>2. CASE IsRef(v)
  <2>1. v \in FromObj /\ v \in Addr /\ heap[v] # NoObj /\ Id(v) = heap[v].id /\ heap[v] \in Obj
    BY <1>0, <1>2, OtherSegment DEF Holds, FromObj, IsRef, TypeOK, Id
  <2>2. CASE heap[v].fwd # Null
    <3>1. heap[v].fwd \in ToObj /\ heap[heap[v].fwd].id = heap[v].id
      BY <1>0, <2>1, <2>2 DEF IInv, Originals
    <3>2. h = heap /\ w = heap[v].fwd
      BY <1>2, <2>2 DEF Evacuated
    <3>. QED
      BY <1>0, <2>1, <3>1, <3>2 DEF ToObj, TypeOK, Val
  <2>3. CASE heap[v].fwd = Null /\ ~CopyFits(CopySize[heap[v].t])
    <3>1. h = heap /\ w = v
      BY <1>2, <2>1, <2>3 DEF Evacuated, FromObj
    <3>. QED
      BY <1>0, <2>1, <3>1 DEF TypeOK
  <2>4. CASE heap[v].fwd = Null /\ CopyFits(CopySize[heap[v].t])
    <3>p. PICK p : p = <<to, free>>
      OBVIOUS
    <3>1. /\ w = p
          /\ h = [heap EXCEPT ![p] = heap[v], ![v] = [heap[v] EXCEPT !.fwd = p]]
      BY <1>2, <2>1, <2>4, <3>p DEF Evacuated, Moved, FromObj
    <3>2. p \in Addr /\ heap[p] = NoObj /\ p # v
      BY <1>0, <2>1, <2>4, <3>p, FreePlace
    <3>3. [heap[v] EXCEPT !.fwd = p] \in Obj
      BY <2>1, <3>2 DEF Obj
    <3>4. /\ h \in [Addr -> Obj \cup {NoObj}] /\ h[p] = heap[v]
          /\ h[v] = [heap[v] EXCEPT !.fwd = p]
          /\ \A a \in Addr : a # p /\ a # v => h[a] = heap[a]
      BY <1>0, <2>1, <3>1, <3>2, <3>3 DEF TypeOK
    <3>5. h[v].id = heap[v].id /\ h[v].t = heap[v].t /\ h[v].f = heap[v].f /\ h[v] # NoObj
      BY <2>1, <3>3, <3>4, AddrFacts DEF Obj
    <3>. QED
      BY <2>1, <3>1, <3>2, <3>4, <3>5 DEF Val
  <2>. QED
    BY <2>1, <2>2, <2>3, <2>4, AddrFacts DEF Obj
<1>. QED
  BY <1>1, <1>2

\* A root slot is updated.
LEMMA RefCopyRoot ==
  ASSUME RInv, IInv', CopyRoot, UNCHANGED obj
  PROVE  RInv' /\ UNCHANGED <<obj, lastId, View, hp, sp>>
<1>0. /\ IInv /\ TypeOK /\ Collecting /\ pc # "run"
      /\ UNCHANGED <<to, hp, sp, lastId>>
  BY DEF RInv, IInv, CopyRoot, Collecting
<1>1. PICK r \in todo : heap' = Evacuated(root[r]).heap /\ root' = [root EXCEPT ![r] = Evacuated(root[r]).val]
  BY DEF CopyRoot
<1>2. PICK v, w : v = root[r] /\ w = Evacuated(root[r]).val
  OBVIOUS
<1>3. GcStep /\ todo \subseteq Live /\ Live \subseteq RootSlot
  BY <1>0, LiveFacts DEF GcStep, RInv, GivenOut, IInv, Phases, TypeOK
<1>4. v \in Val /\ Holds(Other(to), v)
  BY <1>0, <1>2, <1>3 DEF IInv, Tricolour, TypeOK
<1>5. /\ heap' \in [Addr -> Obj \cup {NoObj}] /\ w \in Val
      /\ IF w \in Addr THEN heap'[w] # NoObj /\ heap'[w].id = Id(v) ELSE w = Id(v)
      /\ \A a \in Addr : heap[a] # NoObj =>
           heap'[a] # NoObj /\ heap'[a].id = heap[a].id /\ heap'[a].t = heap[a].t /\ heap'[a].f = heap[a].f
      /\ \A a \in Addr : heap'[a] # NoObj /\ heap[a] = NoObj =>
           v \in Addr /\ heap[v] # NoObj /\ heap'[a] = heap[v]
  BY <1>0, <1>1, <1>2, <1>4, EvacuatedSame
<1>6. root' = [root EXCEPT ![r] = w] /\ root' \in [RootSlot -> Val]
  BY <1>0, <1>1, <1>2, <1>3, <1>5 DEF TypeOK
<1>7. \A x : Known(x) => NewId(x) = Id(x)
  BY <1>5, SameId DEF Known, IsRef
<1>8. \A a \in Addr : heap'[a] # NoObj => \E b \in Addr : Same(a, b)
  <2>1. ASSUME NEW a \in Addr, heap'[a] # NoObj, heap[a] # NoObj PROVE Same(a, a)
    BY <2>1, <1>0, <1>5, <1>7, AllKnown DEF Same, Collecting
  <2>2. ASSUME NEW a \in Addr, heap'[a] # NoObj, heap[a] = NoObj PROVE v \in Addr /\ Same(a, v)
    <3>1. v \in Addr /\ heap[v] # NoObj /\ heap'[a] = heap[v]
      BY <2>2, <1>5
    <3>. QED
      BY <3>1, <1>0, <1>7, AllKnown DEF Same, Collecting
  <2>. QED
    BY <2>1, <2>2
<1>9. \A q \in RootSlot : NewId(root'[q]) = Id(root[q])
  <2>1. NewId(w) = Id(v)
    BY <1>5 DEF NewId
  <2>2. \A q \in RootSlot : NewId(root[q]) = Id(root[q])
    BY <1>0, <1>7, AllKnown DEF Collecting
  <2>. QED
    BY <2>1, <2>2, <1>0, <1>2, <1>6 DEF TypeOK
<1>10. \A q \in RootSlot \ Live : root'[q] = root[q]
  BY <1>0, <1>3, <1>6 DEF TypeOK
<1>. QED
  BY <1>3, <1>6, <1>8, <1>9, <1>10, GcInvariant

\* A field of a copy is updated.
LEMMA RefCopyNeighbor ==
  ASSUME RInv, IInv', CopyNeighbor, UNCHANGED obj
  PROVE  RInv' /\ UNCHANGED <<obj, lastId, View, hp, sp>>
<1>0. /\ IInv /\ TypeOK /\ Collecting /\ pc # "run" /\ pc = "scan" /\ cur # Null
      /\ UNCHANGED <<to, root, hp, sp, lastId>>
  BY DEF RInv, IInv, CopyNeighbor, Collecting, rootVars
<1>1. PICK v, w, h : /\ v = heap[cur].f[fld] /\ w = Evacuated(v).val /\ h = Evacuated(v).heap
                     /\ heap' = [h EXCEPT ![cur].f[fld] = w]
  BY DEF CopyNeighbor
<1>2. /\ cur \in ToObj /\ cur \in Addr /\ heap[cur] \in Obj /\ heap[cur] # NoObj /\ fld \in Slot
  <2>1. cur \in ToObj
    BY <1>0 DEF IInv, Phases
  <2>2. heap[cur] \in Obj
    BY <2>1, <1>0 DEF ToObj, TypeOK
  <2>3. Slots[heap[cur].t] \in 0 .. MaxSlots /\ MaxSlots \in Nat
    BY <2>2, TypesAssumption DEF Obj
  <2>4. fld \in Nat /\ fld >= 1 /\ fld <= Slots[heap[cur].t]
    BY <1>0 DEF IInv, Phases, TypeOK, CopyNeighbor
  <2>. QED
    BY <2>1, <2>2, <2>3, <2>4 DEF ToObj, Slot
<1>3. v \in Val /\ Holds(Other(to), v)
  <2>1. v \in Val
    BY <1>1, <1>2, ObjFields
  <2>2. ~(Black(cur) \/ (cur = cur /\ fld < fld))
    BY <1>0 DEF Black, TypeOK
  <2>. QED
    BY <2>1, <2>2, <1>0, <1>1, <1>2 DEF IInv, Tricolour, ToObj
<1>4. /\ h \in [Addr -> Obj \cup {NoObj}] /\ w \in Val
      /\ IF w \in Addr THEN h[w] # NoObj /\ h[w].id = Id(v) ELSE w = Id(v)
      /\ \A a \in Addr : heap[a] # NoObj =>
           h[a] # NoObj /\ h[a].id = heap[a].id /\ h[a].t = heap[a].t /\ h[a].f = heap[a].f
      /\ \A a \in Addr : h[a] # NoObj /\ heap[a] = NoObj =>
           v \in Addr /\ heap[v] # NoObj /\ h[a] = heap[v]
  <2>1. h = Evacuated(v).heap /\ w = Evacuated(v).val
    BY <1>1
  <2>2. RInv /\ Collecting
    BY <1>0
  <2>. QED
    BY <1>3, <2>1, <2>2, EvacuatedSame
<1>5. /\ heap'[cur] = [h[cur] EXCEPT !.f[fld] = w]
      /\ \A a \in Addr : a # cur => heap'[a] = h[a]
      /\ h[cur] \in Obj
  BY <1>1, <1>2, <1>4
<1>6. /\ heap'[cur].id = heap[cur].id /\ heap'[cur].t = heap[cur].t /\ heap'[cur].f[fld] = w
      /\ \A i \in Slot : i # fld => heap'[cur].f[i] = heap[cur].f[i]
  <2>1. h[cur].id = heap[cur].id /\ h[cur].t = heap[cur].t /\ h[cur].f = heap[cur].f
    BY <1>2, <1>4
  <2>2. PICK o : o = h[cur]
    OBVIOUS
  <2>3. o \in Obj /\ fld \in Slot /\ heap'[cur] = [o EXCEPT !.f[fld] = w]
    BY <1>2, <1>5, <2>2
  <2>4. /\ heap'[cur].id = o.id /\ heap'[cur].t = o.t /\ heap'[cur].f[fld] = w
        /\ \A i \in Slot : i # fld => heap'[cur].f[i] = o.f[i]
    BY <2>3 DEF Obj
  <2>. QED
    BY <2>1, <2>2, <2>4
<1>7. \A a \in Addr : h[a] # NoObj => heap'[a].id = h[a].id
  <2>. TAKE a \in Addr
  <2>. HAVE h[a] # NoObj
  <2>1. CASE a = cur
    <3>1. heap'[cur].id = heap[cur].id /\ h[cur].id = heap[cur].id
      BY <1>2, <1>4, <1>6
    <3>. QED
      BY <2>1, <3>1
  <2>2. CASE a # cur
    BY <1>5, <2>2
  <2>. QED
    BY <2>1, <2>2
<1>8. \A x : Known(x) => NewId(x) = Id(x)
  BY <1>4, <1>7, SameId DEF Known, IsRef
<1>9. NewId(w) = Id(v)
  BY <1>4, <1>7 DEF NewId
<1>k. /\ \A q \in RootSlot : Known(root[q])
      /\ \A a \in Addr : heap[a] # NoObj => \A i \in Slot : Known(heap[a].f[i])
  BY <1>0, AllKnown
<1>10. \A a \in Addr : heap'[a] # NoObj => \E b \in Addr : Same(a, b)
  <2>1. Same(cur, cur)
    BY <1>1, <1>2, <1>6, <1>8, <1>9, <1>k DEF Same
  <2>2. ASSUME NEW a \in Addr, a # cur, heap'[a] # NoObj, heap[a] # NoObj PROVE Same(a, a)
    BY <2>2, <1>4, <1>5, <1>8, <1>k DEF Same
  <2>3. ASSUME NEW a \in Addr, a # cur, heap'[a] # NoObj, heap[a] = NoObj
        PROVE  v \in Addr /\ Same(a, v)
    <3>1. v \in Addr /\ heap[v] # NoObj /\ heap'[a] = heap[v]
      BY <2>3, <1>4, <1>5
    <3>. QED
      BY <3>1, <1>8, <1>k DEF Same
  <2>. QED
    BY <2>1, <2>2, <2>3, <1>2
<1>11. \A q \in RootSlot : NewId(root'[q]) = Id(root[q])
  BY <1>0, <1>8, <1>k
<1>12. GcStep /\ root' \in [RootSlot -> Val]
  BY <1>0 DEF GcStep, RInv, GivenOut, TypeOK
<1>. QED
  BY <1>0, <1>10, <1>11, <1>12, GcInvariant

-----------------------------------------------------------------------------
LEMMA RefInitStep == RefInit => RInv /\ Graph!Init
<1>. SUFFICES ASSUME RefInit PROVE RInv /\ Graph!Init
  OBVIOUS
<1>. USE DEF RefInit, Init
<1>1. IInv
  BY InitStep
<1>2. DeadSlots /\ GivenOut /\ Recorded /\ Faithful
  BY RootsAssumption DEF DeadSlots, GivenOut, Recorded, Faithful
<1>3. View = [r \in RootSlot |-> Null]
  BY SameId DEF View
<1>4. Graph!Init
  BY <1>3, GraphConstants DEF Graph!Init
<1>. QED
  BY <1>1, <1>2, <1>4 DEF RInv

LEMMA RefNextStep ==
  ASSUME RInv, [RefNext]_refVars
  PROVE  RInv' /\ (Graph!Next \/ UNCHANGED <<obj, lastId, View, hp, sp>>)
<1>1. CASE UNCHANGED refVars
  <2>1. UNCHANGED vars /\ UNCHANGED obj
    BY <1>1 DEF refVars
  <2>2. UNCHANGED <<heap, root>> /\ GcStep /\ IInv'
    BY <2>1, NextStep DEF vars, RInv, GivenOut, GcStep
  <2>. QED
    BY <2>2, GcStill
<1>2. CASE RefNext
  <2>1. Next
    BY <1>2 DEF RefNext, Next, Mutate, Collect
  <2>2. IInv'
    BY <2>1, NextStep DEF RInv
  <2>3. ASSUME NEW t \in Types, New(t), Created(t) PROVE RInv' /\ Graph!Next
    <3>1. RInv' /\ Graph!New(t)
      BY <2>2, <2>3, RefPlace DEF New
    <3>. QED
      BY <3>1 DEF Graph!Next
  <2>. QED
    BY <1>2, <2>2, <2>3, RefLoad, RefLoadField, RefStoreField, RefStoreRoot, RefPop, RefRegister,
       RefUnregister, RefStill, RefCopyRoot, RefCopyNeighbor, RefEndScavenge, RefRetry
       DEF RefNext
<1>. QED
  BY <1>1, <1>2

(* The inductive invariant of the collector together with what the program *)
(* has allocated and stored.                                               *)
THEOREM RefInvariant == RefSpec => []RInv
<1>1. RefInit => RInv
  BY RefInitStep
<1>2. RInv /\ [RefNext]_refVars => RInv'
  BY RefNextStep
<1>. QED
  BY <1>1, <1>2, PTL DEF RefSpec

(* Whatever the phase of a collection, every object in memory, original or *)
(* copy, has the type and the references that the program gave it.         *)
THEOREM ObjectsAreFaithful == RefSpec => []Faithful
<1>1. RInv => Faithful
  BY DEF RInv
<1>. QED
  BY <1>1, RefInvariant, PTL

(* No program can tell when objects move: an instruction does to the       *)
(* object graph what ObjGraph says, and a step of the collector does       *)
(* nothing to it.                                                          *)
THEOREM CollectorIsTransparent == RefSpec => ImplementsGraph
<1>1. RefInit => Graph!Init
  BY RefInitStep
<1>2. RInv /\ [RefNext]_refVars => [Graph!Next]_(Graph!vars)
  BY RefNextStep DEF Graph!vars
<1>. QED
  BY <1>1, <1>2, RefInvariant, PTL DEF RefSpec, ImplementsGraph, Graph!Spec
=============================================================================

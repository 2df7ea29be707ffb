------------------------ MODULE Generational_proofs ------------------------
(***************************************************************************)
(* Proofs about the generational collector for every size of the segments, *)
(* every number of slots, roots and identities.                            *)
(***************************************************************************)
EXTENDS GenerationalInvariant, Induction

-----------------------------------------------------------------------------
(* Addresses, slots and sequences.                                         *)

\* The two segments and the old space.
LEMMA AddrFacts ==
  /\ \A a \in NewAddr : a[1] \in Seg /\ a[2] \in 0 .. SegSize - 1 /\ a = <<a[1], a[2]>>
  /\ \A a \in OldAddr : a[1] = "old" /\ a[2] \in Ids /\ a = <<"old", a[2]>>
  /\ \A t \in Seg, k \in 0 .. SegSize - 1 :
       <<t, k>> \in NewAddr /\ <<t, k>>[1] = t /\ <<t, k>>[2] = k
  /\ \A n \in Ids : <<"old", n>> \in OldAddr /\ <<"old", n>>[2] = n
  /\ NewAddr \cap OldAddr = {} /\ Addr = NewAddr \cup OldAddr
  /\ Null \notin Addr /\ Tagged \notin Addr
BY WordsAssumption DEF Addr, NewAddr, OldAddr

LEMMA TwoSegments ==
  ASSUME NEW t \in Seg
  PROVE  \A x, y \in Seg : x # t /\ y # t => x = y
BY NewSpaceAssumption

LEMMA SlotFacts ==
  /\ \A r \in RootSlot : r[1] # "field"
  /\ \A s \in FieldSlot : s[1] = "field" /\ s[2] \in Addr /\ s[3] \in Slot /\ s = Field(s[2], s[3])
  /\ \A a \in Addr, i \in Slot :
       Field(a, i) \in FieldSlot /\ Field(a, i)[1] = "field" /\ Field(a, i)[2] = a /\ Field(a, i)[3] = i
  /\ \A a, b, i, j : Field(a, i) = Field(b, j) => a = b /\ i = j
  /\ RootSlot \cap FieldSlot = {}
BY DEF RootSlot, FieldSlot, Static, Stack, Field

LEMMA StackFacts ==
  /\ \A i \in 0 .. StackSize - 1 : Stack(i) \in RootSlot
  /\ \A i, j : Stack(i) = Stack(j) => i = j
  /\ \A i, j : Stack(i) # Static(j)
BY DEF Stack, Static, RootSlot

LEMMA LiveFacts ==
  ASSUME sp \in 0 .. StackSize
  PROVE  /\ Live \subseteq RootSlot
         /\ sp > 0 => Stack(sp - 1) \in Live
         /\ sp > 1 => Stack(sp - 2) \in Live
BY GenRootsAssumption DEF Live, RootSlot, Stack, Static

LEMMA ObjFacts ==
  ASSUME NEW o \in Obj
  PROVE  /\ o # NoObj /\ o.id \in Ids /\ o.id \in Nat /\ o.state \in 1 .. 3
         /\ o.f \in [Slot -> Val] /\ o.fwd \in Addr \cup {Null}
         /\ \A i \in Slot : o.f[i] \in Val
BY WordsAssumption, GenRootsAssumption DEF Obj

LEMMA HeadTail ==
  ASSUME NEW S, NEW s \in Seq(S), s # <<>>
  PROVE  /\ Head(s) \in S /\ Tail(s) \in Seq(S)
         /\ ToSet(s) = {Head(s)} \cup ToSet(Tail(s))
         /\ Len(s) \in Nat /\ Len(s) >= 1 /\ Len(Tail(s)) = Len(s) - 1 /\ Head(s) = s[1]
         /\ \A k \in 1 .. Len(s) - 1 : Tail(s)[k] = s[k + 1]
<1>1. /\ Head(s) \in S /\ Tail(s) \in Seq(S) /\ Len(s) \in Nat /\ Len(s) >= 1
      /\ Len(Tail(s)) = Len(s) - 1 /\ Head(s) = s[1]
      /\ \A k \in 1 .. Len(s) - 1 : Tail(s)[k] = s[k + 1]
  OBVIOUS
<1>2. DOMAIN s = 1 .. Len(s) /\ DOMAIN Tail(s) = 1 .. Len(s) - 1
  BY <1>1
<1>3. ASSUME NEW x \in ToSet(s) PROVE x = Head(s) \/ x \in ToSet(Tail(s))
  <2>1. PICK k \in 1 .. Len(s) : x = s[k]
    BY <1>2 DEF ToSet
  <2>2. CASE k = 1
    BY <2>1, <2>2, <1>1
  <2>3. CASE k # 1
    <3>1. k - 1 \in 1 .. Len(s) - 1 /\ (k - 1) + 1 = k
      BY <1>1, <2>3
    <3>. QED
      BY <1>1, <1>2, <2>1, <3>1 DEF ToSet
  <2>. QED
    BY <2>2, <2>3
<1>4. Head(s) \in ToSet(s)
  BY <1>1, <1>2 DEF ToSet
<1>5. ASSUME NEW x \in ToSet(Tail(s)) PROVE x \in ToSet(s)
  <2>1. PICK k \in 1 .. Len(s) - 1 : x = Tail(s)[k]
    BY <1>2 DEF ToSet
  <2>2. k + 1 \in 1 .. Len(s)
    BY <1>1
  <2>. QED
    BY <1>1, <1>2, <2>1, <2>2 DEF ToSet
<1>. QED
  BY <1>1, <1>3, <1>4, <1>5

-----------------------------------------------------------------------------
(* gc_os_remove_dups_in_rs.                                                *)

\* Numbering the elements of F in order.
Counts(g, F, L) == g = [k \in 0 .. L |-> Cardinality(F \cap (1 .. k))]

LEMMA Counted ==
  ASSUME NEW L \in Nat, NEW F \in SUBSET (1 .. L), NEW g, Counts(g, F, L)
  PROVE  /\ Cardinality(F) \in Nat /\ Cardinality(F) <= L
         /\ \A n \in 1 .. Cardinality(F) : \E k \in F : g[k] = n
         /\ \A j, k \in F : g[j] = g[k] => j = k
         /\ \A k \in F : g[k] \in 1 .. Cardinality(F)
<1> DEFINE U(k) == F \cap (1 .. k)
           N == Cardinality(F)
<1>0. \A k \in 0 .. L : g[k] = Cardinality(U(k))
  BY DEF Counts
<1>1. \A k \in 0 .. L : IsFiniteSet(1 .. k) /\ IsFiniteSet(U(k))
  <2>1. \A k \in 0 .. L : IsFiniteSet(1 .. k)
    BY FS_Interval
  <2>2. ASSUME NEW k \in 0 .. L PROVE IsFiniteSet(U(k))
    BY <2>1, FS_Subset
  <2>. QED
    BY <2>1, <2>2
<1>2. IsFiniteSet(F) /\ N \in Nat /\ N <= L
  <2>1. IsFiniteSet(1 .. L) /\ Cardinality(1 .. L) = L
    BY FS_Interval
  <2>. QED
    BY <2>1, FS_Subset, FS_CardinalityType
<1>3. g[0] = 0 /\ g[L] = N
  <2>1. U(0) = {}
    OBVIOUS
  <2>2. U(L) = F
    OBVIOUS
  <2>3. 0 \in 0 .. L /\ L \in 0 .. L
    OBVIOUS
  <2>4. g[0] = Cardinality({})
    BY <1>0, <2>1, <2>3
  <2>5. g[L] = N
    BY <1>0, <2>2, <2>3
  <2>. QED
    BY <2>4, <2>5, FS_EmptySet
<1>4. \A k \in 0 .. L : g[k] \in Nat
  BY <1>0, <1>1, FS_CardinalityType
<1>5. ASSUME NEW k \in 1 .. L
      PROVE  /\ k \notin F => g[k] = g[k - 1]
             /\ k \in F => g[k] = g[k - 1] + 1
  <2>1. k - 1 \in 0 .. L /\ k \in 0 .. L /\ k \notin U(k - 1)
    OBVIOUS
  <2>2. CASE k \in F
    <3>1. U(k) = U(k - 1) \cup {k}
      BY <2>2
    <3>2. Cardinality(U(k - 1) \cup {k}) = Cardinality(U(k - 1)) + 1
      BY <1>1, <2>1, FS_AddElement
    <3>. QED
      BY <1>0, <2>1, <2>2, <3>1, <3>2
  <2>3. CASE k \notin F
    <3>1. U(k) = U(k - 1)
      BY <2>3
    <3>. QED
      BY <1>0, <2>1, <2>3, <3>1
  <2>. QED
    BY <2>2, <2>3
<1>6. ASSUME NEW j \in 0 .. L, NEW k \in 0 .. L, j <= k
      PROVE  g[j] <= g[k]
  <2>1. U(j) \subseteq U(k)
    BY <1>6
  <2>. QED
    BY <1>0, <1>1, <2>1, FS_Subset
<1>. HIDE DEF U, N
<1>7. ASSUME NEW n \in 1 .. N
      PROVE  \E k \in F : g[k] = n
  <2> DEFINE T == {k \in 0 .. L : g[k] >= n}
  <2>1. T \in SUBSET Nat /\ L \in T
    BY <1>2, <1>3
  <2>2. PICK x \in T : \A y \in T : x <= y
    BY <2>1, LeastNat
  <2>3. x # 0 /\ x \in 1 .. L /\ x - 1 \in 0 .. L /\ x - 1 \notin T
    <3>1. x \in 0 .. L /\ g[x] >= n
      BY <2>2
    <3>2. x # 0
      BY <1>3, <3>1
    <3>3. x \in 1 .. L /\ x - 1 \in 0 .. L /\ ~(x <= x - 1)
      BY <3>1, <3>2
    <3>. QED
      BY <2>2, <3>2, <3>3
  <2>4. g[x] >= n /\ ~(g[x - 1] >= n) /\ g[x - 1] \in Nat /\ g[x] \in Nat
    BY <1>4, <2>2, <2>3
  <2>5. x \in F
    BY <1>5, <2>3, <2>4
  <2>6. g[x] = g[x - 1] + 1
    BY <1>5, <2>3, <2>5
  <2>7. g[x] = n
    BY <2>4, <2>6
  <2>. QED
    BY <2>5, <2>7
<1>8. ASSUME NEW j \in F, NEW k \in F, j < k
      PROVE  g[j] < g[k]
  <2>1. k \in 1 .. L /\ k - 1 \in 0 .. L /\ j \in 0 .. L /\ j <= k - 1
    BY <1>8
  <2>2. g[k] = g[k - 1] + 1 /\ g[j] <= g[k - 1]
    BY <1>5, <1>6, <2>1
  <2>. QED
    BY <1>4, <2>1, <2>2
<1>9. ASSUME NEW j \in F, NEW k \in F, g[j] = g[k]
      PROVE  j = k
  <2>1. g[j] \in Nat /\ g[k] \in Nat /\ j \in Nat /\ k \in Nat
    BY <1>4
  <2>. QED
    BY <1>8, <1>9, <2>1
<1>10. ASSUME NEW k \in F PROVE g[k] \in 1 .. N
  <2>1. k \in 1 .. L /\ k - 1 \in 0 .. L /\ k \in 0 .. L /\ L \in 0 .. L
    OBVIOUS
  <2>2. g[k] = g[k - 1] + 1 /\ g[k] <= g[L] /\ g[k - 1] \in Nat
    BY <1>4, <1>5, <1>6, <2>1
  <2>. QED
    BY <1>2, <1>3, <2>2
<1>. QED
  BY <1>2, <1>7, <1>9, <1>10 DEF N

\* Nothing is lost from the remember set but duplicates.
LEMMA DupsFacts ==
  ASSUME NEW S, NEW s \in Seq(S)
  PROVE  /\ WithoutDups(s) \in Seq(S) /\ Len(WithoutDups(s)) <= Len(s)
         /\ ToSet(WithoutDups(s)) = ToSet(s)
<1> DEFINE L == Len(s)
           First(k) == \A j \in 1 .. k - 1 : s[j] # s[k]
           F == {k \in DOMAIN s : First(k)}
           N == Cardinality(F)
           g == [k \in 0 .. L |-> Cardinality(F \cap (1 .. k))]
           At1(n) == CHOOSE k \in DOMAIN s : First(k) /\ Cardinality({j \in 1 .. k : First(j)}) = n
           w == WithoutDups(s)
<1>1. L \in Nat /\ DOMAIN s = 1 .. L /\ \A k \in 1 .. L : s[k] \in S
  OBVIOUS
<1>2. F \in SUBSET (1 .. L)
  BY <1>1
<1>3. /\ N \in Nat /\ N <= L
      /\ \A n \in 1 .. N : \E k \in F : g[k] = n
      /\ \A j, k \in F : g[j] = g[k] => j = k
      /\ \A k \in F : g[k] \in 1 .. N
  <2>1. Counts(g, F, L)
    BY DEF Counts
  <2>. HIDE DEF F, L, g
  <2>. QED
    BY <1>1, <1>2, <2>1, Counted
<1>4. \A k \in 1 .. L : Cardinality({j \in 1 .. k : First(j)}) = g[k]
  <2>1. ASSUME NEW k \in 1 .. L PROVE {j \in 1 .. k : First(j)} = F \cap (1 .. k)
    <3>1. 1 .. k \subseteq DOMAIN s
      BY <1>1
    <3>. HIDE DEF First
    <3>. QED
      BY <3>1
  <2>2. \A k \in 1 .. L : g[k] = Cardinality(F \cap (1 .. k))
    BY <1>1
  <2>. QED
    BY <2>1, <2>2
<1>5. w = [n \in 1 .. N |-> s[At1(n)]]
  BY DEF WithoutDups
<1>6. ASSUME NEW n \in 1 .. N, NEW k \in F, g[k] = n
      PROVE  At1(n) = k
  <2>1. \A j \in DOMAIN s : (First(j) /\ Cardinality({i \in 1 .. j : First(i)}) = n) <=> j = k
    <3>1. \A j \in DOMAIN s : First(j) <=> j \in F
      OBVIOUS
    <3>2. \A j \in DOMAIN s : Cardinality({i \in 1 .. j : First(i)}) = g[j]
      BY <1>1, <1>4
    <3>3. k \in DOMAIN s
      OBVIOUS
    <3>. HIDE DEF F, g, First
    <3>. QED
      BY <1>3, <1>6, <3>1, <3>2, <3>3
  <2>. QED
    BY <1>1, <2>1
<1>. HIDE DEF At1, w
<1>7. \A n \in 1 .. N : At1(n) \in F
  <2>. HIDE DEF F, g, N
  <2>. QED
    BY <1>3, <1>6
<1>8. w \in Seq(S) /\ Len(w) = N /\ DOMAIN w = 1 .. N
  <2>1. \A n \in 1 .. N : s[At1(n)] \in S
    BY <1>1, <1>2, <1>7
  <2>. HIDE DEF N
  <2>. QED
    BY <1>3, <1>5, <2>1
<1>9. ASSUME NEW x \in ToSet(w) PROVE x \in ToSet(s)
  <2>1. PICK n \in 1 .. N : x = s[At1(n)]
    BY <1>5, <1>8 DEF ToSet
  <2>. QED
    BY <1>1, <1>2, <1>7, <2>1 DEF ToSet
<1>10. ASSUME NEW x \in ToSet(s) PROVE x \in ToSet(w)
  <2> DEFINE T == {k \in 1 .. L : s[k] = x}
  <2>1. T \in SUBSET Nat /\ T # {}
    BY <1>1 DEF ToSet
  <2>2. PICK k \in T : \A y \in T : k <= y
    BY <2>1, LeastNat
  <2>3. First(k) /\ k \in F
    BY <1>1, <2>2
  <2>4. g[k] \in 1 .. N
    BY <1>3, <2>3
  <2>5. At1(g[k]) = k
    BY <1>6, <2>3, <2>4
  <2>6. w[g[k]] = x
    BY <1>5, <2>2, <2>4, <2>5
  <2>. QED
    BY <1>8, <2>4, <2>6 DEF ToSet
<1>. QED
  BY <1>3, <1>8, <1>9, <1>10 DEF w

-----------------------------------------------------------------------------
(* The objects of the memory.                                              *)

LEMMA Kinds ==
  ASSUME TypeOK
  PROVE  /\ ToObj \subseteq NewAddr /\ FromObj \subseteq NewAddr /\ OldObj \subseteq OldAddr
         /\ ToObj \cap FromObj = {} /\ ToObj \cap OldObj = {} /\ FromObj \cap OldObj = {}
         /\ \A a \in Addr : heap[a] # NoObj <=> a \in ToObj \cup FromObj \cup OldObj
         /\ \A a \in ToObj \cup FromObj \cup OldObj : a \in Addr /\ heap[a] \in Obj
         /\ to \in Seg
BY AddrFacts DEF ToObj, FromObj, OldObj, TypeOK

\* Two objects of the from-space at the same place are the same.
LEMMA FromPlace ==
  ASSUME TypeOK, NEW a \in FromObj, NEW b \in FromObj, a[2] = b[2]
  PROVE  a = b
<1>1. a \in NewAddr /\ b \in NewAddr /\ a[1] # to /\ b[1] # to /\ to \in Seg
  BY DEF FromObj, TypeOK
<1>2. a[1] = b[1]
  BY <1>1, AddrFacts, TwoSegments
<1>3. a = <<a[1], a[2]>> /\ b = <<b[1], b[2]>>
  BY <1>1, AddrFacts
<1>. QED
  BY <1>2, <1>3

\* As long as there is an object that has not been copied the to-space has room:
\* every copy has an original, and one original is left.
LEMMA Room ==
  ASSUME TypeOK, Collecting, Copies, NEW v \in FromObj, heap[v].fwd = Null
  PROVE  free < SegSize /\ <<to, free>> \in NewAddr /\ free \in 0 .. SegSize - 1
<1>1. SegSize \in Nat /\ free \in 0 .. SegSize /\ to \in Seg
  BY NewSpaceAssumption DEF TypeOK
<1>2. ASSUME free = SegSize PROVE FALSE
  <2> DEFINE S == 0 .. SegSize - 1
             T == S \ {v[2]}
             orig(k) == CHOOSE a \in FromObj : heap[a].fwd = <<to, k>>
             f == [k \in S |-> orig(k)[2]]
  <2>1. \A k \in S : orig(k) \in FromObj /\ heap[orig(k)].fwd = <<to, k>>
    BY <1>2 DEF Copies
  <2>2. \A k \in S : <<to, k>> # Null
    BY <1>1, AddrFacts
  <2>3. \A k \in S : orig(k) # v
    BY <2>1, <2>2
  <2>. HIDE DEF orig
  <2>4. \A k \in S : orig(k)[2] \in S
    BY <2>1, AddrFacts DEF FromObj
  <2>5. \A k \in S : orig(k)[2] # v[2]
    BY <2>1, <2>3, FromPlace
  <2>6. f \in [S -> T]
    BY <2>4, <2>5
  <2>7. v[2] \in S
    BY AddrFacts DEF FromObj
  <2>8. IsFiniteSet(S) /\ Cardinality(S) = SegSize
    BY <1>1, FS_Interval
  <2>9. IsFiniteSet(T) /\ Cardinality(T) = SegSize - 1
    <3>. HIDE DEF S
    <3>1. IsFiniteSet(T) /\ Cardinality(T) = Cardinality(S) - 1
      BY <2>7, <2>8, FS_RemoveElement
    <3>. QED
      BY <2>8, <3>1
  <2>10. \E x, y \in S : x # y /\ f[x] = f[y]
    <3>1. Cardinality(T) < Cardinality(S)
      BY <1>1, <2>8, <2>9
    <3>. HIDE DEF S, T, f
    <3>. QED
      BY <2>6, <2>8, <2>9, <3>1, FS_PigeonHole
  <2>11. PICK x \in S, y \in S : x # y /\ orig(x)[2] = orig(y)[2]
    BY <2>10
  <2>12. orig(x) = orig(y)
    BY <2>1, <2>11, FromPlace
  <2>13. <<to, x>> = <<to, y>>
    BY <2>1, <2>12
  <2>. QED
    BY <2>11, <2>13
<1>3. free < SegSize /\ free \in 0 .. SegSize - 1
  BY <1>1, <1>2
<1>. QED
  BY <1>1, <1>3, AddrFacts

\* *s = w, on top of the heap h.
Assigned(s, w, h) ==
  /\ heap' \in [Addr -> Obj \cup {NoObj}] /\ root' \in [RootSlot -> Val]
  /\ \A a \in Addr : heap'[a] # NoObj <=> h[a] # NoObj
  /\ \A a \in Addr : h[a] # NoObj =>
       /\ heap'[a].id = h[a].id /\ heap'[a].state = h[a].state /\ heap'[a].fwd = h[a].fwd
       /\ \A i \in Slot : heap'[a].f[i] = IF s = Field(a, i) THEN w ELSE h[a].f[i]
  /\ \A r \in RootSlot : root'[r] = IF s = r THEN w ELSE root[r]

WithField(q, o, i, w)    == q = [o EXCEPT !.f[i] = w]
HeapWith(g, h, a, i, w) == g = [h EXCEPT ![a].f[i] = w]

LEMMA FieldUpdate ==
  ASSUME NEW o \in Obj, NEW i \in Slot, NEW w \in Val, NEW q, WithField(q, o, i, w)
  PROVE  /\ q \in Obj /\ q.id = o.id /\ q.state = o.state /\ q.fwd = o.fwd
         /\ \A j \in Slot : q.f[j] = IF j = i THEN w ELSE o.f[j]
BY DEF Obj, WithField

LEMMA HeapUpdate ==
  ASSUME NEW h \in [Addr -> Obj \cup {NoObj}], NEW a \in Addr, h[a] # NoObj,
         NEW i \in Slot, NEW w \in Val, NEW g, HeapWith(g, h, a, i, w)
  PROVE  /\ g \in [Addr -> Obj \cup {NoObj}]
         /\ \A b \in Addr : b # a => g[b] = h[b]
         /\ g[a] # NoObj /\ g[a].id = h[a].id /\ g[a].state = h[a].state /\ g[a].fwd = h[a].fwd
         /\ \A j \in Slot : g[a].f[j] = IF j = i THEN w ELSE h[a].f[j]
<1> DEFINE q == [h[a] EXCEPT !.f[i] = w]
<1>1. g = [h EXCEPT ![a] = q] /\ WithField(q, h[a], i, w)
  BY DEF HeapWith, WithField
<1>2. h[a] \in Obj
  OBVIOUS
<1>3. /\ q \in Obj /\ q.id = h[a].id /\ q.state = h[a].state /\ q.fwd = h[a].fwd
      /\ \A j \in Slot : q.f[j] = IF j = i THEN w ELSE h[a].f[j]
  <2>. HIDE DEF q
  <2>. QED
    BY <1>1, <1>2, FieldUpdate
<1>. HIDE DEF q
<1>4. q # NoObj
  BY <1>3, ObjFacts
<1>5. g \in [Addr -> Obj \cup {NoObj}] /\ g[a] = q /\ \A b \in Addr : b # a => g[b] = h[b]
  BY <1>1, <1>3
<1>. QED
  BY <1>3, <1>4, <1>5

LEMMA AssignFacts ==
  ASSUME TypeOK, NEW s, NEW w \in Val, NEW h \in [Addr -> Obj \cup {NoObj}], Assign(s, w, h),
         s \in RootSlot \/ (s \in FieldSlot /\ h[s[2]] # NoObj)
  PROVE  Assigned(s, w, h)
<1>1. root \in [RootSlot -> Val]
  BY DEF TypeOK
<1>2. CASE s \in RootSlot
  <2>1. s[1] # "field" /\ \A a \in Addr, i \in Slot : s # Field(a, i)
    BY <1>2, SlotFacts
  <2>2. heap' = h /\ root' = [root EXCEPT ![s] = w]
    BY <2>1 DEF Assign
  <2>3. root' \in [RootSlot -> Val] /\ \A r \in RootSlot : root'[r] = IF s = r THEN w ELSE root[r]
    BY <1>1, <1>2, <2>2
  <2>. QED
    BY <2>1, <2>2, <2>3 DEF Assigned
<1>3. CASE s \in FieldSlot /\ h[s[2]] # NoObj
  <2> DEFINE a == s[2]
             i == s[3]
  <2>1. s[1] = "field" /\ a \in Addr /\ i \in Slot /\ s = Field(a, i) /\ s \notin RootSlot
    BY <1>3, SlotFacts
  <2>2. HeapWith(heap', h, a, i, w) /\ root' = root
    BY <2>1 DEF Assign, HeapWith
  <2>3. \A b \in Addr, j \in Slot : s = Field(b, j) <=> b = a /\ j = i
    BY <2>1, SlotFacts
  <2>. HIDE DEF a, i
  <2>4. /\ heap' \in [Addr -> Obj \cup {NoObj}]
        /\ \A b \in Addr : b # a => heap'[b] = h[b]
        /\ heap'[a] # NoObj /\ heap'[a].id = h[a].id /\ heap'[a].state = h[a].state
        /\ heap'[a].fwd = h[a].fwd
        /\ \A j \in Slot : heap'[a].f[j] = IF j = i THEN w ELSE h[a].f[j]
    BY <1>3, <2>1, <2>2, HeapUpdate DEF a
  <2>5. \A r \in RootSlot : root'[r] = IF s = r THEN w ELSE root[r]
    BY <2>1, <2>2
  <2>6. h[a] # NoObj
    BY <1>3 DEF a
  <2>7. \A b \in Addr : heap'[b] # NoObj <=> h[b] # NoObj
    BY <2>4, <2>6
  <2>8. ASSUME NEW b \in Addr, h[b] # NoObj
        PROVE  /\ heap'[b].id = h[b].id /\ heap'[b].state = h[b].state /\ heap'[b].fwd = h[b].fwd
               /\ \A j \in Slot : heap'[b].f[j] = IF s = Field(b, j) THEN w ELSE h[b].f[j]
    <3>1. CASE b = a
      BY <2>3, <2>4, <3>1, <2>1
    <3>2. CASE b # a
      BY <2>3, <2>4, <3>2
    <3>. QED
      BY <3>1, <3>2
  <2>. QED
    BY <1>1, <2>2, <2>4, <2>5, <2>7, <2>8 DEF Assigned
<1>. QED
  BY <1>2, <1>3

-----------------------------------------------------------------------------
(* What a collection does to the memory: a slot is assigned, or an object  *)
(* is copied and then a slot is assigned.                                  *)

Graph == Places /\ Copies /\ Unique /\ Originals

\* A slot is assigned that is not in an original.
LEMMA AfterAssign ==
  ASSUME TypeOK, Collecting, Graph, NEW s, NEW w, Assigned(s, w, heap),
         \A a \in FromObj, i \in Slot : s # Field(a, i),
         Collecting', UNCHANGED <<to, free, lost>>
  PROVE  /\ ToObj' = ToObj /\ FromObj' = FromObj /\ OldObj' = OldObj
         /\ Graph'
<1>1. /\ \A a \in Addr : heap'[a] # NoObj <=> heap[a] # NoObj
      /\ \A a \in Addr : heap[a] # NoObj =>
           heap'[a].id = heap[a].id /\ heap'[a].state = heap[a].state /\ heap'[a].fwd = heap[a].fwd
      /\ \A a \in Addr, i \in Slot : heap[a] # NoObj =>
           heap'[a].f[i] = IF s = Field(a, i) THEN w ELSE heap[a].f[i]
  BY DEF Assigned
<1>2. ToObj' = ToObj /\ FromObj' = FromObj /\ OldObj' = OldObj
  BY <1>1 DEF ToObj, FromObj, OldObj, Addr
<1>3. \A a \in ToObj \cup FromObj \cup OldObj : a \in Addr /\ heap[a] # NoObj
  BY Kinds
<1>4. \A a \in FromObj, i \in Slot : heap'[a].f[i] = heap[a].f[i]
  BY <1>1, <1>3
<1>5. Places'
  <2>1. \A k \in 0 .. free' - 1 : <<to', k>> \in ToObj'
    BY <1>2 DEF Places, Graph
  <2>. QED
    BY <1>1, <1>2, <1>3, <2>1 DEF Places, Graph, Quiet, Collecting
<1>6. Copies'
  BY <1>1, <1>2, <1>3 DEF Copies, Graph
<1>7. Unique'
  BY <1>1, <1>2, <1>3 DEF Unique, Graph, Intact
<1>8. Originals'
  <2>1. \A a \in FromObj : heap[a].fwd # Null /\ Intact =>
          heap[a].fwd \in ToObj \cup OldObj /\ heap[heap[a].fwd].id = heap[a].id
    BY DEF Originals, Graph
  <2>2. Intact => \A a \in FromObj, i \in Slot : Before(heap[a].f[i])
    BY DEF Originals, Graph
  <2>3. Intact => \A a \in FromObj, i \in Slot :
          IsRef(heap'[a].f[i]) => heap'[a].f[i] \in FromObj \cup OldObj
    BY <1>4, <2>2 DEF Before
  <2>4. Intact => \A a \in FromObj : heap'[a].fwd # Null =>
          heap'[a].fwd \in ToObj \cup OldObj /\ heap'[heap'[a].fwd].id = heap'[a].id
    BY <1>1, <1>3, <2>1
  <2>. QED
    BY <1>2, <2>3, <2>4 DEF Originals, Intact, Before, IsRef
<1>. QED
  BY <1>2, <1>5, <1>6, <1>7, <1>8 DEF Graph

\* h is the heap with the object v copied to p.
IsCopied(h, v, p) ==
  /\ h \in [Addr -> Obj \cup {NoObj}]
  /\ \A a \in Addr : a # p /\ a # v => h[a] = heap[a]
  /\ h[p] # NoObj /\ h[p].id = heap[v].id /\ h[p].f = heap[v].f /\ h[p].fwd = Null
  /\ h[p].state = 3 <=> p \in OldAddr
  /\ h[v] # NoObj /\ h[v].id = heap[v].id /\ h[v].f = heap[v].f /\ h[v].fwd = p
  /\ h[v].state # 3

\* Where an object may be copied to.
CopyPlace(v, p) ==
  \/ p = <<"old", heap[v].id>> /\ free' = free
  \/ p = <<to, free>> /\ free' = free + 1

\* The heap after an object v has been copied to p and the slot s been assigned.
Moved(s, v, p) ==
  /\ heap' \in [Addr -> Obj \cup {NoObj}] /\ root' \in [RootSlot -> Val]
  /\ \A a \in Addr : heap'[a] # NoObj <=> (heap[a] # NoObj \/ a = p)
  /\ \A a \in Addr : heap[a] # NoObj /\ a # p =>
       /\ heap'[a].id = heap[a].id /\ heap'[a].fwd = IF a = v THEN p ELSE heap[a].fwd
       /\ heap'[a].state = 3 <=> heap[a].state = 3
       /\ \A i \in Slot : heap'[a].f[i] = IF s = Field(a, i) THEN p ELSE heap[a].f[i]
  /\ heap'[p].id = heap[v].id /\ heap'[p].fwd = Null
  /\ heap'[p].state = 3 <=> p \in OldAddr
  /\ \A i \in Slot : heap'[p].f[i] = IF s = Field(p, i) THEN p ELSE heap[v].f[i]
  /\ \A r \in RootSlot : root'[r] = IF s = r THEN p ELSE root[r]

LEMMA MovedFacts ==
  ASSUME TypeOK, Places, NEW s, NEW v \in FromObj, NEW p \in Addr, v # p, NEW h,
         IsCopied(h, v, p), Assigned(s, p, h)
  PROVE  Moved(s, v, p)
<1>1. v \in Addr /\ heap[v] # NoObj /\ heap[v].state # 3
  BY Kinds DEF Places
<1>2. \A a \in Addr : h[a] # NoObj <=> (heap[a] # NoObj \/ a = p)
  BY <1>1 DEF IsCopied
<1>3. /\ heap' \in [Addr -> Obj \cup {NoObj}] /\ root' \in [RootSlot -> Val]
      /\ \A a \in Addr : heap'[a] # NoObj <=> h[a] # NoObj
      /\ \A r \in RootSlot : root'[r] = IF s = r THEN p ELSE root[r]
  BY DEF Assigned
<1>4. \A a \in Addr : h[a] # NoObj =>
       /\ heap'[a].id = h[a].id /\ heap'[a].state = h[a].state /\ heap'[a].fwd = h[a].fwd
       /\ \A i \in Slot : heap'[a].f[i] = IF s = Field(a, i) THEN p ELSE h[a].f[i]
  BY DEF Assigned
<1>5. \A a \in Addr : heap[a] # NoObj /\ a # p =>
       /\ heap'[a].id = heap[a].id /\ heap'[a].fwd = IF a = v THEN p ELSE heap[a].fwd
       /\ heap'[a].state = 3 <=> heap[a].state = 3
       /\ \A i \in Slot : heap'[a].f[i] = IF s = Field(a, i) THEN p ELSE heap[a].f[i]
  <2>1. ASSUME NEW a \in Addr, heap[a] # NoObj, a # p, a # v
        PROVE  h[a] = heap[a] /\ h[a] # NoObj
    BY <2>1 DEF IsCopied
  <2>2. h[v].id = heap[v].id /\ h[v].f = heap[v].f /\ h[v].fwd = p /\ h[v].state # 3 /\ h[v] # NoObj
    BY DEF IsCopied
  <2>. QED
    BY <1>1, <1>4, <2>1, <2>2
<1>6. /\ heap'[p].id = heap[v].id /\ heap'[p].fwd = Null
      /\ heap'[p].state = 3 <=> p \in OldAddr
      /\ \A i \in Slot : heap'[p].f[i] = IF s = Field(p, i) THEN p ELSE heap[v].f[i]
  <2>1. h[p] # NoObj /\ h[p].id = heap[v].id /\ h[p].f = heap[v].f /\ h[p].fwd = Null
    BY DEF IsCopied
  <2>2. h[p].state = 3 <=> p \in OldAddr
    BY DEF IsCopied
  <2>. QED
    BY <1>4, <2>1, <2>2
<1>. QED
  BY <1>2, <1>3, <1>5, <1>6 DEF Moved

\* The place of a copy: new or, after a loss, taken by an old object.
LEMMA PlaceFacts ==
  ASSUME TypeOK, Collecting, Graph, NEW v \in FromObj, heap[v].fwd = Null, NEW p, CopyPlace(v, p)
  PROVE  /\ p \in Addr /\ v # p /\ p \notin FromObj /\ p # Null
         /\ p = <<to, free>> \/ free' = free
         /\ p \in NewAddr <=> p = <<to, free>> /\ free' = free + 1
         /\ p \in NewAddr => p[1] = to /\ p[2] = free /\ heap[p] = NoObj
         /\ p \in OldAddr => p[2] = heap[v].id
         /\ Intact => heap[p] = NoObj
<1>1. /\ free \in 0 .. SegSize - 1 /\ <<to, free>> \in NewAddr /\ to \in Seg
  BY Room DEF Graph, TypeOK
<1>2. heap[v] \in Obj /\ heap[v].id \in Ids /\ v \in NewAddr /\ v[1] # to /\ v \in Addr
  BY Kinds, ObjFacts DEF FromObj
<1>3. /\ <<"old", heap[v].id>> \in OldAddr /\ <<"old", heap[v].id>>[2] = heap[v].id
      /\ <<to, free>>[1] = to /\ <<to, free>>[2] = free
  BY <1>1, <1>2, AddrFacts
<1>4. CASE p = <<to, free>> /\ free' = free + 1
  <2>1. heap[p] = NoObj
    <3>1. \A a \in ToObj : a[2] < free
      BY DEF Graph, Places
    <3>2. p \notin ToObj
      BY <3>1, <1>1, <1>3, <1>4
    <3>. QED
      BY <3>2, <1>1, <1>3, <1>4 DEF ToObj
  <2>2. p \in NewAddr /\ p \notin OldAddr /\ p \in Addr /\ p # Null
    BY <1>1, <1>4, AddrFacts
  <2>3. p \notin FromObj /\ v # p
    BY <1>2, <1>3, <1>4 DEF FromObj
  <2>. QED
    BY <1>3, <1>4, <2>1, <2>2, <2>3
<1>5. CASE p = <<"old", heap[v].id>> /\ free' = free
  <2>1. p \in OldAddr /\ p \notin NewAddr /\ p \in Addr /\ p # Null /\ p[2] = heap[v].id
    BY <1>3, <1>5, AddrFacts
  <2>2. p \notin FromObj /\ v # p /\ p # <<to, free>>
    BY <1>1, <1>2, <2>1, AddrFacts DEF FromObj
  <2>3. ASSUME Intact, p \in OldObj PROVE FALSE
    <3>1. heap[p].id = heap[v].id /\ heap[p].fwd = Null
      BY <2>1, <2>3 DEF Graph, Places
    <3>2. p = v \/ heap[p].fwd = v \/ heap[v].fwd = p
      BY <2>3, <3>1 DEF Graph, Unique
    <3>3. v # Null
      BY <1>2, AddrFacts
    <3>. QED
      BY <2>1, <2>2, <3>1, <3>2, <3>3
  <2>4. Intact => heap[p] = NoObj
    BY <2>1, <2>3 DEF OldObj
  <2>. QED
    BY <1>5, <2>1, <2>2, <2>4
<1>. QED
  BY <1>4, <1>5 DEF CopyPlace

LEMMA AfterCopy ==
  ASSUME TypeOK, Collecting, Graph, NEW s, NEW v \in FromObj, heap[v].fwd = Null,
         NEW p, CopyPlace(v, p), Moved(s, v, p),
         \A a \in FromObj, i \in Slot : s # Field(a, i),
         Collecting', UNCHANGED <<to, lost>>
  PROVE  /\ FromObj' = FromObj
         /\ ToObj' = IF p \in NewAddr THEN ToObj \cup {p} ELSE ToObj
         /\ OldObj' = IF p \in OldAddr THEN OldObj \cup {p} ELSE OldObj
         /\ Graph'
<1>1. /\ p \in Addr /\ v # p /\ p \notin FromObj /\ p # Null
      /\ p \in NewAddr <=> p = <<to, free>> /\ free' = free + 1
      /\ p = <<to, free>> \/ free' = free
      /\ p \in NewAddr => p[1] = to /\ p[2] = free
      /\ p \in OldAddr => p[2] = heap[v].id
      /\ Intact => heap[p] = NoObj
      /\ p \in NewAddr => heap[p] = NoObj
      /\ p \in NewAddr <=> p \notin OldAddr
  BY PlaceFacts, AddrFacts
<1>2. /\ \A a \in Addr : heap'[a] # NoObj <=> (heap[a] # NoObj \/ a = p)
      /\ \A a \in Addr : heap[a] # NoObj /\ a # p =>
           /\ heap'[a].id = heap[a].id /\ heap'[a].fwd = IF a = v THEN p ELSE heap[a].fwd
           /\ heap'[a].state = 3 <=> heap[a].state = 3
      /\ \A a \in Addr, i \in Slot : heap[a] # NoObj /\ a # p =>
           heap'[a].f[i] = IF s = Field(a, i) THEN p ELSE heap[a].f[i]
      /\ heap'[p].id = heap[v].id /\ heap'[p].fwd = Null
      /\ heap'[p].state = 3 <=> p \in OldAddr
  BY DEF Moved
<1>3. FromObj' = FromObj
  BY <1>1, <1>2 DEF FromObj, Addr
<1>4. ToObj' = IF p \in NewAddr THEN ToObj \cup {p} ELSE ToObj
  BY <1>1, <1>2 DEF ToObj, Addr
<1>5. OldObj' = IF p \in OldAddr THEN OldObj \cup {p} ELSE OldObj
  BY <1>1, <1>2 DEF OldObj, Addr
<1>6. /\ \A a \in ToObj \cup FromObj \cup OldObj : a \in Addr /\ heap[a] # NoObj
      /\ v \in Addr /\ v \notin ToObj /\ v \notin OldObj /\ v # Null
      /\ ToObj \cap OldAddr = {} /\ OldObj \cap NewAddr = {}
      /\ free \in Nat
  BY Kinds, AddrFacts DEF TypeOK
<1>7. /\ \A a \in FromObj : heap'[a].id = heap[a].id /\ heap'[a].fwd = IF a = v THEN p ELSE heap[a].fwd
      /\ \A a \in FromObj : heap'[a].state = 3 <=> heap[a].state = 3
      /\ \A a \in FromObj, i \in Slot : heap'[a].f[i] = heap[a].f[i]
  <2>1. \A a \in FromObj : a \in Addr /\ heap[a] # NoObj /\ a # p
    BY <1>1, <1>6
  <2>. QED
    BY <1>2, <2>1
<1>8. \A a \in ToObj \cup OldObj : a # p =>
        /\ heap'[a].id = heap[a].id /\ heap'[a].fwd = heap[a].fwd
        /\ heap'[a].state = 3 <=> heap[a].state = 3
  BY <1>2, <1>6
<1>9. Places'
  <2>1. /\ \A a \in ToObj \cup FromObj : heap[a].state # 3
        /\ \A a \in OldObj : heap[a].state = 3 /\ heap[a].id = a[2] /\ heap[a].fwd = Null
        /\ \A a \in ToObj : a[2] < free /\ heap[a].fwd = Null
    BY DEF Graph, Places
  <2>2. ASSUME NEW a \in ToObj' \cup FromObj' PROVE heap'[a].state # 3
    <3>1. CASE a = p
      BY <1>1, <1>2, <1>4, <1>3, <1>6, <2>2, <3>1
    <3>2. CASE a # p
      <4>1. a \in ToObj \cup FromObj
        BY <1>3, <1>4, <2>2, <3>2
      <4>. QED
        BY <1>7, <1>8, <2>1, <3>2, <4>1
    <3>. QED
      BY <3>1, <3>2
  <2>3. ASSUME NEW a \in OldObj' PROVE heap'[a].state = 3 /\ heap'[a].id = a[2] /\ heap'[a].fwd = Null
    <3>1. CASE a = p
      <4>1. p \in OldAddr
        BY <1>5, <1>6, <1>1, <2>3, <3>1
      <4>. QED
        BY <1>1, <1>2, <3>1, <4>1
    <3>2. CASE a # p
      <4>1. a \in OldObj
        BY <1>5, <2>3, <3>2
      <4>. QED
        BY <1>8, <2>1, <3>2, <4>1
    <3>. QED
      BY <3>1, <3>2
  <2>4. \A a \in ToObj : a \in NewAddr /\ a[2] \in Nat
    BY AddrFacts DEF ToObj
  <2>5. (free' = free \/ free' = free + 1) /\ (p \in NewAddr => free' = free + 1)
    BY <1>1 DEF CopyPlace
  <2>5a. free' \in Nat /\ free \in Nat /\ free' >= free /\ (p \in NewAddr => free < free')
    BY <1>6, <2>5
  <2>6. ASSUME NEW a \in ToObj' PROVE a[2] < free' /\ heap'[a].fwd = Null
    <3>1. CASE a = p
      BY <1>1, <1>2, <1>4, <1>6, <2>5, <2>6, <3>1
    <3>2. CASE a # p
      <4>1. a \in ToObj
        BY <1>4, <2>6, <3>2
      <4>2. a[2] < free /\ heap'[a].fwd = Null
        BY <1>8, <2>1, <3>2, <4>1
      <4>. QED
        BY <2>4, <2>5, <2>5a, <4>1, <4>2
    <3>. QED
      BY <3>1, <3>2
  <2>7. ~Quiet'
    BY DEF Quiet, Collecting
  <2>8. ASSUME NEW k \in 0 .. free' - 1 PROVE <<to, k>> \in ToObj'
    <3>1. CASE k \in 0 .. free - 1
      BY <1>4, <3>1 DEF Graph, Places
    <3>2. CASE k \notin 0 .. free - 1
      <4>1. free' # free
        BY <2>8, <3>2
      <4>2. free' = free + 1
        BY <2>5, <4>1
      <4>3. k = free
        BY <1>6, <2>8, <3>2, <4>2
      <4>4. p = <<to, free>> /\ p \in NewAddr
        BY <1>1, <4>1, <4>2
      <4>. QED
        BY <1>4, <4>3, <4>4
    <3>. QED
      BY <3>1, <3>2
  <2>. QED
    BY <2>2, <2>3, <2>6, <2>7, <2>8 DEF Places
<1>10. Copies'
  <2>1. \A k \in 0 .. free - 1 : \E a \in FromObj : heap[a].fwd = <<to, k>>
    BY DEF Graph, Copies
  <2>2. ASSUME NEW k \in 0 .. free' - 1 PROVE \E a \in FromObj : heap'[a].fwd = <<to, k>>
    <3>1. CASE k \in 0 .. free - 1
      <4>1. PICK a \in FromObj : heap[a].fwd = <<to, k>>
        BY <2>1, <3>1
      <4>2. <<to, k>> # Null
        <5>1. free \in 0 .. SegSize /\ to \in Seg /\ SegSize \in Nat
          BY NewSpaceAssumption DEF TypeOK
        <5>2. k \in 0 .. SegSize - 1
          BY <3>1, <5>1
        <5>. QED
          BY <5>1, <5>2, AddrFacts
      <4>3. a # v
        BY <4>1, <4>2
      <4>. QED
        BY <1>7, <4>1, <4>3
    <3>2. CASE k \notin 0 .. free - 1
      <4>1. p = <<to, free>> /\ free' = free + 1 /\ k = free
        <5>1. free' = free => FALSE
          BY <2>2, <3>2
        <5>2. p = <<to, free>> /\ free' = free + 1
          BY <5>1, <1>1 DEF CopyPlace
        <5>. QED
          BY <1>6, <2>2, <3>2, <5>2
      <4>. QED
        BY <1>7, <4>1
    <3>. QED
      BY <3>1, <3>2
  <2>. QED
    BY <1>3, <2>2 DEF Copies
<1>11. Unique'
  <2>. SUFFICES ASSUME Intact,
                       NEW a \in ToObj' \cup FromObj' \cup OldObj',
                       NEW b \in ToObj' \cup FromObj' \cup OldObj', heap'[a].id = heap'[b].id
                PROVE  a = b \/ heap'[a].fwd = b \/ heap'[b].fwd = a
    BY DEF Unique, Intact
  <2> DEFINE All == ToObj \cup FromObj \cup OldObj
  <2>1. \A x, y \in All : heap[x].id = heap[y].id => x = y \/ heap[x].fwd = y \/ heap[y].fwd = x
    BY DEF Graph, Unique
  <2>2. /\ a \in All \/ a = p
        /\ b \in All \/ b = p
    BY <1>3, <1>4, <1>5
  <2>3. \A x \in All : x # p /\ heap'[x].id = heap[x].id
                      /\ heap'[x].fwd = IF x = v THEN p ELSE heap[x].fwd
    BY <1>1, <1>2, <1>6
  <2>4. \A x \in All : x # Null
    BY <1>6, AddrFacts
  <2>5. ASSUME NEW x \in All, heap[x].id = heap[v].id PROVE x = v
    <3>1. x = v \/ heap[x].fwd = v \/ heap[v].fwd = x
      BY <2>1, <2>5
    <3>2. heap[v].fwd # x
      BY <2>4
    <3>3. heap[x].fwd # v
      <4>1. CASE x \in FromObj
        BY <4>1, <1>6 DEF Graph, Originals
      <4>2. CASE x \in ToObj \cup OldObj
        BY <4>2, <1>6 DEF Graph, Places
      <4>. QED
        BY <4>1, <4>2
    <3>. QED
      BY <3>1, <3>2, <3>3
  <2>6. v \in All /\ heap'[v].fwd = p
    BY <1>7
  <2>7. ASSUME NEW x \in All, heap'[x].id = heap'[p].id PROVE heap'[x].fwd = p
    BY <1>2, <2>3, <2>5, <2>6, <2>7
  <2>8. ASSUME a \in All, b \in All PROVE a = b \/ heap'[a].fwd = b \/ heap'[b].fwd = a
    <3>1. a = b \/ heap[a].fwd = b \/ heap[b].fwd = a
      BY <2>1, <2>3, <2>8
    <3>2. heap[a].fwd = b => a # v
      BY <2>4, <2>8
    <3>3. heap[b].fwd = a => b # v
      BY <2>4, <2>8
    <3>. QED
      BY <2>3, <2>8, <3>1, <3>2, <3>3
  <2>. HIDE DEF All
  <2>. QED
    BY <2>2, <2>7, <2>8
<1>12. Originals'
  <2>. SUFFICES ASSUME Intact, NEW a \in FromObj
                PROVE  /\ \A i \in Slot : IsRef(heap'[a].f[i]) => heap'[a].f[i] \in FromObj \cup OldObj'
                       /\ heap'[a].fwd # Null =>
                            heap'[a].fwd \in ToObj' \cup OldObj' /\ heap'[heap'[a].fwd].id = heap'[a].id
    BY <1>3 DEF Originals, Intact, Before, IsRef
  <2>1. /\ \A i \in Slot : IsRef(heap[a].f[i]) => heap[a].f[i] \in FromObj \cup OldObj
        /\ heap[a].fwd # Null =>
             heap[a].fwd \in ToObj \cup OldObj /\ heap[heap[a].fwd].id = heap[a].id
    BY DEF Graph, Originals, Before
  <2>2. \A i \in Slot : IsRef(heap'[a].f[i]) => heap'[a].f[i] \in FromObj \cup OldObj'
    BY <1>5, <1>7, <2>1
  <2>3. CASE a = v
    BY <1>1, <1>2, <1>4, <1>5, <1>7, <2>2, <2>3
  <2>4. CASE a # v
    <3>1. heap'[a].fwd = heap[a].fwd /\ heap'[a].id = heap[a].id
      BY <1>7, <2>4
    <3>2. ASSUME heap[a].fwd # Null
          PROVE  heap[a].fwd \in ToObj' \cup OldObj' /\ heap'[heap[a].fwd].id = heap[a].id
      <4>1. heap[a].fwd \in ToObj \cup OldObj /\ heap[heap[a].fwd].id = heap[a].id
        BY <2>1, <3>2
      <4>2. heap[a].fwd # p
        BY <1>1, <1>6, <4>1
      <4>. QED
        BY <1>4, <1>5, <1>8, <4>1, <4>2
    <3>. QED
      BY <2>2, <3>1, <3>2
  <2>. QED
    BY <2>3, <2>4
<1>. QED
  BY <1>3, <1>4, <1>5, <1>9, <1>10, <1>11, <1>12 DEF Graph
-----------------------------------------------------------------------------
(* The walk of the collector over the slots.                               *)

\* The collector is done with the slot s and has put new slots in front of work.
Visited(s, new) ==
  \/ /\ pc = "roots" /\ work = <<>> /\ todo # <<>> /\ s = Head(todo) /\ new = <<>>
     /\ todo' = Tail(todo) /\ UNCHANGED <<pc, work, scan, fld>>
  \/ /\ pc = "roots" /\ work # <<>> /\ s = Head(work)
     /\ work' = new \o Tail(work) /\ UNCHANGED <<pc, todo, scan, fld>>
  \/ /\ pc = "scan" /\ scan < free /\ fld <= NSlots /\ s = Field(<<to, scan>>, fld) /\ new = <<>>
     /\ fld' = fld + 1 /\ UNCHANGED <<pc, todo, work, scan>>

LEMMA PendingFacts ==
  ASSUME TypeOK, Slots, NEW s, NEW new \in Seq(FieldSlot), Visited(s, new), pc = "roots"
  PROVE  /\ Pending(s) /\ (s \in RootSlot => ~Pending(s)')
         /\ \A x : x # s /\ Pending(x) => Pending(x)'
         /\ \A x \in ToSet(new) : Pending(x)'
         /\ \A x : Pending(x)' => Pending(x) \/ x \in ToSet(new)
         /\ todo' \in Seq(RootSlot \cup FieldSlot) /\ work' \in Seq(RootSlot \cup FieldSlot)
         /\ \A j, k \in DOMAIN todo' : j < k /\ todo'[j] = todo'[k] => todo'[j] \in FieldSlot
         /\ \A k \in DOMAIN work' : work'[k] \in RootSlot => Len(work') = 1 /\ work'[k] \notin ToSet(todo')
<1> DEFINE S == RootSlot \cup FieldSlot
<1>0. todo \in Seq(S) /\ work \in Seq(S)
  BY DEF TypeOK
<1>1. /\ \A j, k \in DOMAIN todo : j < k /\ todo[j] = todo[k] => todo[j] \in FieldSlot
      /\ \A k \in DOMAIN work : work[k] \in RootSlot => Len(work) = 1 /\ work[k] \notin ToSet(todo)
      /\ RootSlot \cap FieldSlot = {}
  BY SlotFacts DEF Slots
<1>2. CASE /\ work = <<>> /\ todo # <<>> /\ s = Head(todo) /\ new = <<>>
           /\ todo' = Tail(todo) /\ UNCHANGED work
  <2>1. /\ s \in S /\ todo' \in Seq(S) /\ ToSet(todo) = {s} \cup ToSet(todo')
        /\ Len(todo) \in Nat /\ Len(todo) >= 1 /\ Len(todo') = Len(todo) - 1 /\ s = todo[1]
        /\ \A k \in 1 .. Len(todo) - 1 : todo'[k] = todo[k + 1]
    <3>. HIDE DEF S
    <3>. QED
      BY <1>0, <1>2, HeadTail
  <2>2. DOMAIN todo = 1 .. Len(todo) /\ DOMAIN todo' = 1 .. Len(todo) - 1
    BY <1>0, <2>1
  <2>3. ASSUME s \in RootSlot, s \in ToSet(todo') PROVE FALSE
    <3>1. PICK k \in 1 .. Len(todo) - 1 : s = todo[k + 1]
      BY <2>1, <2>2, <2>3 DEF ToSet
    <3>2. 1 \in DOMAIN todo /\ k + 1 \in DOMAIN todo /\ 1 < k + 1
      BY <2>1, <2>2
    <3>. QED
      BY <1>1, <2>1, <2>3, <3>1, <3>2
  <2>4. ASSUME NEW j \in DOMAIN todo', NEW k \in DOMAIN todo', j < k, todo'[j] = todo'[k]
        PROVE  todo'[j] \in FieldSlot
    <3>1. j + 1 \in DOMAIN todo /\ k + 1 \in DOMAIN todo /\ j + 1 < k + 1
      BY <2>1, <2>2, <2>4
    <3>2. todo'[j] = todo[j + 1] /\ todo'[k] = todo[k + 1]
      BY <2>1, <2>2
    <3>. QED
      BY <1>1, <2>4, <3>1, <3>2
  <2>5. ToSet(work) = {} /\ ToSet(new) = {} /\ DOMAIN work' = {}
    BY <1>2 DEF ToSet
  <2>. QED
    BY <1>0, <1>2, <2>1, <2>3, <2>4, <2>5 DEF Pending
<1>3. CASE work # <<>> /\ s = Head(work) /\ work' = new \o Tail(work) /\ UNCHANGED todo
  <2> DEFINE t == Tail(work)
  <2>1. /\ s \in S /\ t \in Seq(S) /\ ToSet(work) = {s} \cup ToSet(t)
        /\ Len(work) \in Nat /\ Len(work) >= 1 /\ Len(t) = Len(work) - 1 /\ s = work[1]
        /\ \A k \in 1 .. Len(work) - 1 : t[k] = work[k + 1]
    <3>. HIDE DEF S
    <3>. QED
      BY <1>0, <1>3, HeadTail
  <2>2. DOMAIN work = 1 .. Len(work)
    BY <1>0
  <2>. HIDE DEF t
  <2>3. /\ work' \in Seq(S) /\ Len(work') = Len(new) + Len(t) /\ Len(new) \in Nat /\ Len(t) \in Nat
        /\ \A k \in 1 .. Len(new) : work'[k] = new[k]
        /\ \A k \in 1 .. Len(t) : work'[Len(new) + k] = t[k]
    BY <1>3, <2>1 DEF t
  <2>4. DOMAIN work' = 1 .. Len(work') /\ DOMAIN new = 1 .. Len(new) /\ DOMAIN t = 1 .. Len(t)
    BY <2>1, <2>3
  <2>5. ToSet(work') = ToSet(new) \cup ToSet(t)
    <3>1. ASSUME NEW x \in ToSet(new) PROVE x \in ToSet(work')
      <4>1. PICK k \in 1 .. Len(new) : x = new[k]
        BY <2>4 DEF ToSet
      <4>. QED
        BY <2>3, <2>4, <4>1 DEF ToSet
    <3>2. ASSUME NEW x \in ToSet(t) PROVE x \in ToSet(work')
      <4>1. PICK k \in 1 .. Len(t) : x = t[k]
        BY <2>4 DEF ToSet
      <4>2. Len(new) + k \in 1 .. Len(work')
        BY <2>3
      <4>. QED
        BY <2>3, <2>4, <4>1, <4>2 DEF ToSet
    <3>3. ASSUME NEW x \in ToSet(work') PROVE x \in ToSet(new) \cup ToSet(t)
      <4>1. PICK k \in 1 .. Len(work') : x = work'[k]
        BY <2>4 DEF ToSet
      <4>2. CASE k <= Len(new)
        BY <2>3, <2>4, <4>1, <4>2 DEF ToSet
      <4>3. CASE ~(k <= Len(new))
        <5>1. k - Len(new) \in 1 .. Len(t) /\ Len(new) + (k - Len(new)) = k
          BY <2>3, <4>3
        <5>2. x = t[k - Len(new)]
          BY <2>3, <4>1, <5>1
        <5>. QED
          BY <2>4, <5>1, <5>2 DEF ToSet
      <4>. QED
        BY <4>2, <4>3
    <3>. QED
      BY <3>1, <3>2, <3>3
  <2>6. ToSet(new) \subseteq FieldSlot
    BY <2>4 DEF ToSet
  <2>7. ASSUME NEW k \in DOMAIN work, work[k] \in RootSlot
        PROVE  ToSet(t) = {} /\ work[k] \notin ToSet(todo)
    <3>1. Len(work) = 1 /\ work[k] \notin ToSet(todo)
      BY <1>1, <2>7
    <3>2. Len(t) = 0
      BY <2>1, <3>1
    <3>. QED
      BY <2>4, <3>1, <3>2 DEF ToSet
  <2>8. 1 \in DOMAIN work
    BY <2>1, <2>2
  <2>9. ASSUME s \in RootSlot PROVE s \notin ToSet(work') /\ s \notin ToSet(todo')
    BY <1>1, <1>3, <2>1, <2>5, <2>6, <2>7, <2>8, <2>9
  <2>10. ASSUME NEW k \in DOMAIN work', work'[k] \in RootSlot PROVE FALSE
    <3>1. work'[k] \in ToSet(new) \cup ToSet(t)
      BY <2>5, <2>10 DEF ToSet
    <3>2. work'[k] \in ToSet(work) /\ work'[k] \in ToSet(t)
      BY <1>1, <2>1, <2>6, <2>10, <3>1
    <3>3. PICK j \in DOMAIN work : work[j] = work'[k]
      BY <3>2 DEF ToSet
    <3>. QED
      BY <2>7, <2>10, <3>2, <3>3
  <2>. QED
    BY <1>0, <1>1, <1>3, <2>1, <2>3, <2>5, <2>9, <2>10 DEF Pending
<1>. QED
  BY <1>2, <1>3 DEF Visited

\* The same for every phase, and what is scanned.
LEMMA VisitFacts ==
  ASSUME TypeOK, Places, Slots, Phases, NEW s, NEW new \in Seq(FieldSlot), Visited(s, new)
  PROVE  /\ Collecting /\ Collecting' /\ pc' = pc
         /\ s \in RootSlot => s \in Live
         /\ s \in FieldSlot => s[2] \in OldObj \cup ToObj
         /\ s \in RootSlot \cup FieldSlot
         /\ s \in RootSlot => ~Pending(s)'
         /\ \A x : x # s /\ Pending(x) => Pending(x)'
         /\ \A x : Pending(x)' => Pending(x) \/ x \in ToSet(new)
         /\ \A x \in ToSet(new) : Pending(x)'
         /\ todo' \in Seq(RootSlot \cup FieldSlot) /\ work' \in Seq(RootSlot \cup FieldSlot)
         /\ \A j, k \in DOMAIN todo' : j < k /\ todo'[j] = todo'[k] => todo'[j] \in FieldSlot
         /\ \A k \in DOMAIN work' : work'[k] \in RootSlot => Len(work') = 1 /\ work'[k] \notin ToSet(todo')
         /\ scan' = scan /\ fld' \in 1 .. NSlots + 1
         /\ pc = "roots" => scan' = 0 /\ fld' = 1
         /\ pc = "scan" => todo' = <<>> /\ work' = <<>> /\ scan' <= free
         /\ \A a \in ToObj, i \in Slot : Field(a, i) = s => Scanned(a, i)'
         /\ \A a \in ToObj, i \in Slot : Field(a, i) # s => (Scanned(a, i)' <=> Scanned(a, i))
         /\ \A a \in NewAddr, i \in Slot : a[2] >= free => ~Scanned(a, i)'
<1>1. /\ todo \in Seq(RootSlot \cup FieldSlot) /\ work \in Seq(RootSlot \cup FieldSlot)
      /\ free \in Nat /\ scan \in Nat /\ fld \in 1 .. NSlots + 1 /\ NSlots \in Nat
  BY NewSpaceAssumption DEF TypeOK
<1>2. CASE pc = "roots"
  <2>1. UNCHANGED <<pc, scan, fld>> /\ scan = 0 /\ fld = 1
    BY <1>2 DEF Visited, Phases
  <2>2. /\ Pending(s) /\ (s \in RootSlot => ~Pending(s)')
        /\ \A x : x # s /\ Pending(x) => Pending(x)'
        /\ \A x \in ToSet(new) : Pending(x)'
        /\ \A x : Pending(x)' => Pending(x) \/ x \in ToSet(new)
        /\ todo' \in Seq(RootSlot \cup FieldSlot) /\ work' \in Seq(RootSlot \cup FieldSlot)
        /\ \A j, k \in DOMAIN todo' : j < k /\ todo'[j] = todo'[k] => todo'[j] \in FieldSlot
        /\ \A k \in DOMAIN work' : work'[k] \in RootSlot => Len(work') = 1 /\ work'[k] \notin ToSet(todo')
    BY <1>2, PendingFacts
  <2>3. /\ s \in ToSet(todo) \cup ToSet(work)
        /\ s \in RootSlot => s \in Live
        /\ s \in FieldSlot => s[2] \in OldObj
    BY <1>2, <2>2 DEF Pending, Slots, Collecting
  <2>4. s \in RootSlot \cup FieldSlot
    BY <1>1, <2>3 DEF ToSet
  <2>5. \A a \in ToObj, i \in Slot : Field(a, i) # s
    BY <2>3, SlotFacts, AddrFacts DEF ToObj, OldObj
  <2>6. \A a \in NewAddr, i \in Slot : ~Scanned(a, i)'
    <3>1. \A a \in NewAddr : a[2] \in Nat
      BY AddrFacts
    <3>2. \A i \in Slot : i \in Nat /\ i >= 1
      BY <1>1 DEF Slot
    <3>3. scan' = 0 /\ fld' = 1
      BY <2>1
    <3>. QED
      BY <3>1, <3>2, <3>3 DEF Scanned
  <2>7. \A a \in NewAddr, i \in Slot : ~Scanned(a, i)
    BY <2>1, <2>6 DEF Scanned
  <2>8. Collecting /\ Collecting'
    BY <1>2, <2>1 DEF Collecting
  <2>9. pc # "scan" /\ ToObj \subseteq NewAddr
    BY <1>2 DEF ToObj
  <2>10. scan' = 0 /\ fld' = 1 /\ fld' \in 1 .. NSlots + 1 /\ pc' = pc /\ scan' = scan
    BY <1>1, <2>1
  <2>. QED
    BY <2>2, <2>3, <2>4, <2>5, <2>6, <2>7, <2>8, <2>9, <2>10
<1>3. CASE pc = "scan"
  <2>1. /\ scan < free /\ fld <= NSlots /\ s = Field(<<to, scan>>, fld) /\ new = <<>>
        /\ fld' = fld + 1 /\ UNCHANGED <<pc, todo, work, scan>>
        /\ todo = <<>> /\ work = <<>>
    BY <1>3 DEF Visited, Phases
  <2>2. fld \in Slot /\ fld' \in 1 .. NSlots + 1
    BY <1>1, <2>1 DEF Slot
  <2>3. scan \in 0 .. free - 1
    BY <1>1, <2>1
  <2>4. <<to, scan>> \in ToObj /\ <<to, scan>> \in Addr
    BY <2>3, Kinds DEF Places
  <2>5. s \in FieldSlot /\ s[2] = <<to, scan>> /\ s \notin RootSlot
    BY <2>1, <2>2, <2>4, SlotFacts
  <2>6. \A a \in NewAddr : a[2] \in Nat
    BY AddrFacts
  <2>7. ASSUME NEW a \in ToObj, NEW i \in Slot
        PROVE  /\ Field(a, i) = s => Scanned(a, i)'
               /\ Field(a, i) # s => (Scanned(a, i)' <=> Scanned(a, i))
    <3>1. a \in NewAddr /\ a[2] \in Nat /\ a = <<to, a[2]>>
      BY AddrFacts DEF ToObj
    <3>2. i \in Nat
      BY DEF Slot
    <3>3. Field(a, i) = s <=> (a[2] = scan /\ i = fld)
      BY <2>1, <3>1, SlotFacts
    <3>4. Scanned(a, i)' <=> (a[2] < scan \/ (a[2] = scan /\ i < fld + 1))
      BY <2>1 DEF Scanned
    <3>. HIDE DEF Scanned
    <3>5. CASE a[2] = scan
      <4>1. Scanned(a, i) <=> i < fld
        BY <3>5, <1>1 DEF Scanned
      <4>2. Scanned(a, i)' <=> i < fld + 1
        BY <3>4, <3>5, <1>1
      <4>3. Field(a, i) = s <=> i = fld
        BY <3>3, <3>5
      <4>4. i < fld + 1 <=> (i < fld \/ i = fld)
        BY <1>1, <3>2
      <4>. QED
        BY <4>1, <4>2, <4>3, <4>4
    <3>6. CASE a[2] # scan
      <4>1. Scanned(a, i)' <=> Scanned(a, i)
        BY <3>4, <3>6 DEF Scanned
      <4>. QED
        BY <3>3, <3>6, <4>1
    <3>. QED
      BY <3>5, <3>6
  <2>8. ASSUME NEW a \in NewAddr, NEW i \in Slot, a[2] >= free PROVE ~Scanned(a, i)'
    BY <1>1, <2>1, <2>6, <2>8 DEF Scanned
  <2>9. \A x : ~Pending(x) /\ ~Pending(x)'
    BY <2>1 DEF Pending, ToSet
  <2>10. /\ Collecting /\ Collecting' /\ pc' = pc /\ scan' = scan /\ pc # "roots"
         /\ todo' = <<>> /\ work' = <<>> /\ scan' <= free
    BY <1>1, <1>3, <2>1 DEF Collecting
  <2>11. ToSet(new) = {} /\ DOMAIN todo' = {} /\ DOMAIN work' = {}
    BY <2>1, <2>10 DEF ToSet
  <2>12. todo' \in Seq(RootSlot \cup FieldSlot) /\ work' \in Seq(RootSlot \cup FieldSlot)
    BY <1>1, <2>1
  <2>. QED
    BY <2>2, <2>4, <2>5, <2>7, <2>8, <2>9, <2>10, <2>11, <2>12
<1>. QED
  BY <1>2, <1>3 DEF Visited

\* What a visit that leaves the value w in the slot s does to the others.
Effect(s, new, w) ==
  /\ FromObj' = FromObj /\ ToObj \subseteq ToObj' /\ OldObj \subseteq OldObj'
  /\ IsRef(w) => w \in ToObj' \cup OldObj'
  /\ \A r \in RootSlot : root'[r] = IF s = r THEN w ELSE root[r]
  /\ \A a \in ToObj \cup OldObj, i \in Slot :
       heap'[a].f[i] = IF s = Field(a, i) THEN w ELSE heap[a].f[i]
  /\ \A a \in (ToObj' \cup OldObj') \ (ToObj \cup OldObj), i \in Slot :
       IsRef(heap'[a].f[i]) => heap'[a].f[i] \in FromObj \cup OldObj
  /\ \A a \in ToObj' \ ToObj : a \in NewAddr /\ a[2] >= free
  /\ \A a \in OldObj' \ OldObj, i \in Slot : a \notin ToObj /\ Field(a, i) \in ToSet(new)

LEMMA ProgressKept ==
  ASSUME TypeOK, Places, Slots, Phases, Progress, Intact, NEW s, NEW new \in Seq(FieldSlot), NEW w,
         Visited(s, new), Effect(s, new, w), UNCHANGED sp
  PROVE  Progress'
<1>1. /\ Collecting
      /\ s \in RootSlot => ~Pending(s)'
      /\ \A x : x # s /\ Pending(x) => Pending(x)'
      /\ \A x : Pending(x)' => Pending(x) \/ x \in ToSet(new)
      /\ \A x \in ToSet(new) : Pending(x)'
      /\ \A a \in ToObj, i \in Slot : Field(a, i) = s => Scanned(a, i)'
      /\ \A a \in ToObj, i \in Slot : Field(a, i) # s => (Scanned(a, i)' <=> Scanned(a, i))
      /\ \A a \in NewAddr, i \in Slot : a[2] >= free => ~Scanned(a, i)'
  BY VisitFacts
<1>2. /\ \A r \in Live : IF Pending(r) THEN Before(root[r]) ELSE After(root[r])
      /\ \A a \in OldObj, i \in Slot :
           \/ After(heap[a].f[i])
           \/ Pending(Field(a, i)) /\ Before(heap[a].f[i])
      /\ \A a \in ToObj, i \in Slot :
           IF Scanned(a, i) THEN After(heap[a].f[i]) ELSE Before(heap[a].f[i])
  BY <1>1 DEF Progress
<1>3. /\ FromObj' = FromObj /\ ToObj \subseteq ToObj' /\ OldObj \subseteq OldObj'
      /\ IsRef(w) => w \in ToObj' \cup OldObj'
      /\ \A r \in RootSlot : root'[r] = IF s = r THEN w ELSE root[r]
      /\ \A a \in ToObj' \ ToObj : a \in NewAddr /\ a[2] >= free
      /\ \A a \in OldObj' \ OldObj, i \in Slot : a \notin ToObj /\ Field(a, i) \in ToSet(new)
  BY DEF Effect
<1>4. /\ \A a \in ToObj \cup OldObj, i \in Slot :
           heap'[a].f[i] = IF s = Field(a, i) THEN w ELSE heap[a].f[i]
      /\ \A a \in (ToObj' \cup OldObj') \ (ToObj \cup OldObj), i \in Slot :
           IsRef(heap'[a].f[i]) => heap'[a].f[i] \in FromObj \cup OldObj
  BY DEF Effect
<1>5. \A x : Before(x) => (IsRef(x) => x \in FromObj' \cup OldObj')
  BY <1>3 DEF Before
<1>6. \A x : After(x) => (IsRef(x) => x \in ToObj' \cup OldObj')
  BY <1>3 DEF After
<1>7. Live \subseteq RootSlot /\ Live' = Live
  <2>1. sp \in 0 .. StackSize
    BY DEF TypeOK
  <2>. QED
    BY <2>1, LiveFacts DEF Live
<1>8. ASSUME NEW r \in Live
      PROVE  IF Pending(r)' THEN IsRef(root'[r]) => root'[r] \in FromObj' \cup OldObj'
                            ELSE IsRef(root'[r]) => root'[r] \in ToObj' \cup OldObj'
  <2>1. r \in RootSlot
    BY <1>7
  <2>2. CASE r = s
    BY <1>1, <1>3, <2>1, <2>2
  <2>3. CASE r # s
    <3>1. root'[r] = root[r]
      BY <1>3, <2>1, <2>3
    <3>2. r \notin ToSet(new)
      BY <2>1, SlotFacts DEF ToSet
    <3>3. Pending(r)' <=> Pending(r)
      BY <1>1, <2>3, <3>2
    <3>. QED
      BY <1>2, <1>5, <1>6, <3>1, <3>3
  <2>. QED
    BY <2>2, <2>3
<1>9. ASSUME NEW a \in OldObj', NEW i \in Slot
      PROVE  \/ IsRef(heap'[a].f[i]) => heap'[a].f[i] \in ToObj' \cup OldObj'
             \/ /\ Pending(Field(a, i))'
                /\ IsRef(heap'[a].f[i]) => heap'[a].f[i] \in FromObj' \cup OldObj'
  <2>1. CASE a \in OldObj /\ s = Field(a, i)
    BY <1>3, <1>4, <2>1
  <2>2. CASE a \in OldObj /\ s # Field(a, i)
    <3>1. heap'[a].f[i] = heap[a].f[i]
      BY <1>4, <2>2
    <3>2. \/ After(heap[a].f[i])
          \/ Pending(Field(a, i)) /\ Before(heap[a].f[i])
      BY <1>2, <2>2
    <3>3. Pending(Field(a, i)) => Pending(Field(a, i))'
      BY <1>1, <2>2
    <3>. QED
      BY <1>5, <1>6, <3>1, <3>2, <3>3
  <2>3. CASE a \notin OldObj
    <3>1. a \notin ToObj /\ Field(a, i) \in ToSet(new)
      BY <1>3, <2>3
    <3>2. Pending(Field(a, i))'
      BY <1>1, <3>1
    <3>. QED
      BY <1>3, <1>4, <2>3, <3>1, <3>2
  <2>. QED
    BY <2>1, <2>2, <2>3
<1>10. ASSUME NEW a \in ToObj', NEW i \in Slot
       PROVE  IF Scanned(a, i)' THEN IsRef(heap'[a].f[i]) => heap'[a].f[i] \in ToObj' \cup OldObj'
                                ELSE IsRef(heap'[a].f[i]) => heap'[a].f[i] \in FromObj' \cup OldObj'
  <2>1. CASE a \in ToObj /\ Field(a, i) = s
    BY <1>1, <1>3, <1>4, <2>1
  <2>2. CASE a \in ToObj /\ Field(a, i) # s
    <3>1. heap'[a].f[i] = heap[a].f[i]
      BY <1>4, <2>2
    <3>2. Scanned(a, i)' <=> Scanned(a, i)
      BY <1>1, <2>2
    <3>. QED
      BY <1>2, <1>5, <1>6, <2>2, <3>1, <3>2
  <2>3. CASE a \notin ToObj
    <3>1. a \in NewAddr /\ a[2] >= free
      BY <1>3, <2>3
    <3>2. a \notin OldObj
      BY <3>1, AddrFacts DEF OldObj
    <3>3. ~Scanned(a, i)'
      BY <1>1, <3>1
    <3>. QED
      BY <1>3, <1>4, <2>3, <3>2, <3>3
  <2>. QED
    BY <2>1, <2>2, <2>3
<1>. HIDE DEF Effect
<1>. QED
  BY <1>7, <1>8, <1>9, <1>10 DEF Progress, Before, After, IsRef

\* What a visit does whatever becomes of the slot.
LEMMA VisitRest ==
  ASSUME IInv, NEW s, NEW new \in Seq(FieldSlot), Visited(s, new), OldObj \subseteq OldObj',
         \A x \in ToSet(new) : x[2] \in OldObj', free' \in 0 .. SegSize, free <= free',
         UNCHANGED <<to, sp, rs, lost>>,
         heap' \in [Addr -> Obj \cup {NoObj}], root' \in [RootSlot -> Val]
  PROVE  TypeOK' /\ Slots' /\ Phases' /\ Settled'
<1>1. TypeOK /\ Places /\ Slots /\ Phases /\ Settled
  BY DEF IInv
<1>2. /\ Collecting /\ Collecting' /\ pc' = pc
      /\ s \in RootSlot => ~Pending(s)'
      /\ \A x : Pending(x)' => Pending(x) \/ x \in ToSet(new)
      /\ todo' \in Seq(RootSlot \cup FieldSlot) /\ work' \in Seq(RootSlot \cup FieldSlot)
      /\ \A j, k \in DOMAIN todo' : j < k /\ todo'[j] = todo'[k] => todo'[j] \in FieldSlot
      /\ \A k \in DOMAIN work' : work'[k] \in RootSlot => Len(work') = 1 /\ work'[k] \notin ToSet(todo')
      /\ scan' = scan /\ fld' \in 1 .. NSlots + 1
      /\ pc = "roots" => scan' = 0 /\ fld' = 1
      /\ pc = "scan" => todo' = <<>> /\ work' = <<>> /\ scan' <= free
  BY <1>1, VisitFacts
<1>3. Live' = Live
  BY DEF Live
<1>4. TypeOK'
  <2>1. rs' \in Seq(FieldSlot) /\ Len(rs') <= MaxRs
    BY <1>1 DEF TypeOK
  <2>. QED
    BY <1>1, <1>2, <2>1 DEF TypeOK
<1>5. Slots'
  <2>1. \A x \in ToSet(new) : x \in FieldSlot /\ x \notin RootSlot
    BY SlotFacts DEF ToSet
  <2>2. ASSUME NEW x \in ToSet(rs') \cup ToSet(todo') \cup ToSet(work'), x \in FieldSlot
        PROVE  x[2] \in OldObj'
    <3>1. x \in ToSet(rs) \/ Pending(x)'
      BY <2>2 DEF Pending
    <3>2. x \in ToSet(rs) \/ Pending(x) \/ x \in ToSet(new)
      BY <1>2, <3>1
    <3>. QED
      BY <1>1, <2>2, <3>2 DEF Slots, Pending
  <2>3. ASSUME NEW x \in ToSet(todo') \cup ToSet(work'), x \in RootSlot
        PROVE  x \in Live'
    <3>1. Pending(x)
      BY <1>2, <2>1, <2>3 DEF Pending
    <3>. QED
      BY <1>1, <1>2, <1>3, <2>3, <3>1 DEF Slots, Pending
  <2>. QED
    BY <1>2, <2>2, <2>3 DEF Slots
<1>6. Phases'
  <2>1. pc' = "scan" => scan' <= free'
    <3>1. free \in Nat /\ free' \in Nat /\ scan' \in Nat
      BY <1>1, <1>2 DEF TypeOK
    <3>. QED
      BY <1>2, <3>1
  <2>. QED
    BY <1>1, <1>2, <2>1 DEF Phases
<1>7. Settled'
  BY <1>2 DEF Settled, Remembered, Quiet, Collecting
<1>. QED
  BY <1>4, <1>5, <1>6, <1>7

LEMMA VisitAssign ==
  ASSUME IInv, NEW s, NEW w, Visited(s, <<>>), Assigned(s, w, heap),
         Intact => (IsRef(w) => w \in ToObj \cup OldObj),
         UNCHANGED <<to, free, sp, rs, lost>>
  PROVE  IInv'
<1>1. TypeOK /\ Places /\ Slots /\ Phases /\ Progress /\ Graph /\ <<>> \in Seq(FieldSlot)
  BY DEF IInv, Graph
<1>2. /\ Collecting /\ Collecting'
      /\ s \in FieldSlot => s[2] \in OldObj \cup ToObj
      /\ s \in RootSlot \cup FieldSlot
  BY <1>1, VisitFacts
<1>3. \A a \in FromObj, i \in Slot : s # Field(a, i)
  <2>1. ASSUME NEW a \in FromObj, NEW i \in Slot, s = Field(a, i) PROVE FALSE
    <3>1. a \in Addr /\ a \notin OldObj /\ a \notin ToObj
      BY <1>1, Kinds
    <3>2. s \in FieldSlot /\ s[2] = a
      BY <2>1, <3>1, SlotFacts
    <3>. QED
      BY <1>2, <3>1, <3>2
  <2>. QED
    BY <2>1
<1>4. ToObj' = ToObj /\ FromObj' = FromObj /\ OldObj' = OldObj /\ Graph'
  BY <1>1, <1>2, <1>3, AfterAssign
<1>5. /\ heap' \in [Addr -> Obj \cup {NoObj}] /\ root' \in [RootSlot -> Val]
      /\ \A a \in Addr : heap[a] # NoObj =>
           \A i \in Slot : heap'[a].f[i] = IF s = Field(a, i) THEN w ELSE heap[a].f[i]
      /\ \A r \in RootSlot : root'[r] = IF s = r THEN w ELSE root[r]
  BY DEF Assigned
<1>6. TypeOK' /\ Slots' /\ Phases' /\ Settled'
  <2>1. free' \in 0 .. SegSize /\ free <= free'
    BY <1>1, NewSpaceAssumption DEF TypeOK
  <2>2. \A x \in ToSet(<<>>) : x[2] \in OldObj'
    BY DEF ToSet
  <2>. QED
    BY <1>1, <1>4, <1>5, <2>1, <2>2, VisitRest
<1>7. Progress'
  <2>1. CASE Intact
    <3>1. Effect(s, <<>>, w)
      <4>1. \A a \in ToObj \cup OldObj : a \in Addr /\ heap[a] # NoObj
        BY <1>1, Kinds
      <4>. QED
        BY <1>4, <1>5, <2>1, <4>1 DEF Effect
    <3>. QED
      BY <1>1, <2>1, <3>1, ProgressKept
  <2>2. CASE ~Intact
    BY <2>2 DEF Progress, Intact
  <2>. QED
    BY <2>1, <2>2
<1>. QED
  BY <1>4, <1>6, <1>7 DEF IInv, Graph

LEMMA VisitCopy ==
  ASSUME IInv, NEW s, NEW v \in FromObj, heap[v].fwd = Null, NEW p, CopyPlace(v, p), Moved(s, v, p),
         NEW new \in Seq(FieldSlot), Visited(s, new),
         p \in OldAddr => ToSet(new) = {Field(p, i) : i \in Slot},
         p \in NewAddr => ToSet(new) = {},
         UNCHANGED <<to, sp, rs, lost>>
  PROVE  IInv'
<1>1. TypeOK /\ Places /\ Slots /\ Phases /\ Progress /\ Graph /\ Originals
  BY DEF IInv, Graph
<1>2. /\ Collecting /\ Collecting'
      /\ s \in FieldSlot => s[2] \in OldObj \cup ToObj
      /\ s \in RootSlot \cup FieldSlot
  BY <1>1, VisitFacts
<1>3. \A a \in FromObj, i \in Slot : s # Field(a, i)
  <2>1. ASSUME NEW a \in FromObj, NEW i \in Slot, s = Field(a, i) PROVE FALSE
    <3>1. a \in Addr /\ a \notin OldObj /\ a \notin ToObj
      BY <1>1, Kinds
    <3>2. s \in FieldSlot /\ s[2] = a
      BY <2>1, <3>1, SlotFacts
    <3>. QED
      BY <1>2, <3>1, <3>2
  <2>. QED
    BY <2>1
<1>4. /\ FromObj' = FromObj
      /\ ToObj' = IF p \in NewAddr THEN ToObj \cup {p} ELSE ToObj
      /\ OldObj' = IF p \in OldAddr THEN OldObj \cup {p} ELSE OldObj
      /\ Graph'
  BY <1>1, <1>2, <1>3, AfterCopy
<1>5. /\ p \in Addr /\ v # p /\ p \notin FromObj
      /\ p \in NewAddr => p[1] = to /\ p[2] = free
      /\ p \in NewAddr <=> p \notin OldAddr
      /\ Intact => heap[p] = NoObj
      /\ free' = free \/ free' = free + 1
  <2>1. free' = free \/ free' = free + 1
    BY DEF CopyPlace
  <2>. QED
    BY <1>1, <1>2, <2>1, PlaceFacts, AddrFacts
<1>6. TypeOK' /\ Slots' /\ Phases' /\ Settled'
  <2>1. free \in 0 .. SegSize - 1 /\ SegSize \in Nat
    BY <1>1, <1>2, Room, NewSpaceAssumption DEF Graph
  <2>2. free' \in 0 .. SegSize /\ free <= free'
    BY <1>5, <2>1
  <2>3. \A x \in ToSet(new) : x[2] \in OldObj'
    BY <1>4, <1>5, SlotFacts
  <2>4. OldObj \subseteq OldObj' /\ heap' \in [Addr -> Obj \cup {NoObj}] /\ root' \in [RootSlot -> Val]
    BY <1>4 DEF Moved
  <2>. QED
    BY <2>2, <2>3, <2>4, VisitRest
<1>7. Progress'
  <2>1. CASE Intact
    <3>1. \A a \in ToObj \cup OldObj : a \in Addr /\ heap[a] # NoObj /\ a # p /\ a # v
      BY <1>1, <1>5, <2>1, Kinds
    <3>2. \A a \in ToObj \cup OldObj, i \in Slot :
            heap'[a].f[i] = IF s = Field(a, i) THEN p ELSE heap[a].f[i]
      BY <3>1 DEF Moved
    <3>3. \A i \in Slot : s # Field(p, i)
      <4>1. ASSUME NEW i \in Slot, s = Field(p, i) PROVE FALSE
        BY <1>2, <1>5, <3>1, <4>1, SlotFacts
      <4>. QED
        BY <4>1
    <3>4. \A i \in Slot : heap'[p].f[i] = heap[v].f[i]
      BY <3>3 DEF Moved
    <3>5. \A i \in Slot : IsRef(heap[v].f[i]) => heap[v].f[i] \in FromObj \cup OldObj
      BY <1>1, <1>2, <2>1 DEF Originals, Before
    <3>6. \A r \in RootSlot : root'[r] = IF s = r THEN p ELSE root[r]
      BY DEF Moved
    <3>7. p \notin ToObj
      BY <3>1
    <3>8. free >= free
      BY <1>1 DEF TypeOK
    <3>9. Effect(s, new, p)
      BY <1>4, <1>5, <3>2, <3>4, <3>5, <3>6, <3>7, <3>8 DEF Effect
    <3>. QED
      BY <1>1, <2>1, <3>9, ProgressKept
  <2>2. CASE ~Intact
    BY <2>2 DEF Progress, Intact
  <2>. QED
    BY <2>1, <2>2
<1>. QED
  BY <1>4, <1>6, <1>7 DEF IInv, Graph

-----------------------------------------------------------------------------
(* The steps of the collector.                                             *)

\* The slot that is next.
Current(s) ==
  \/ pc = "roots" /\ work = <<>> /\ todo # <<>> /\ s = Head(todo)
  \/ pc = "roots" /\ work # <<>> /\ s = Head(work)
  \/ pc = "scan" /\ scan < free /\ fld <= NSlots /\ s = Field(<<to, scan>>, fld)

LEMMA CurrentFacts ==
  ASSUME TypeOK, Places, Slots, Phases, Progress, NEW s, Current(s)
  PROVE  /\ At(s) \in Val /\ s \in RootSlot \cup FieldSlot
         /\ s \in FieldSlot => heap[s[2]] # NoObj /\ s[1] = "field"
         /\ s \in RootSlot => s[1] # "field"
         /\ Intact /\ IsRef(At(s)) => At(s) \in ToObj \cup FromObj \cup OldObj
         /\ Intact /\ IsRef(At(s)) /\ (s \in RootSlot \/ pc = "scan") => At(s) \in FromObj \cup OldObj
<1>1. /\ todo \in Seq(RootSlot \cup FieldSlot) /\ work \in Seq(RootSlot \cup FieldSlot)
      /\ free \in Nat /\ scan \in Nat /\ fld \in 1 .. NSlots + 1 /\ NSlots \in Nat
  BY NewSpaceAssumption DEF TypeOK
<1>2. CASE pc = "roots"
  <2>1. Pending(s) /\ s \in RootSlot \cup FieldSlot
    <3>1. CASE work = <<>> /\ todo # <<>> /\ s = Head(todo)
      BY <1>1, <3>1, HeadTail DEF Pending
    <3>2. CASE work # <<>> /\ s = Head(work)
      BY <1>1, <3>2, HeadTail DEF Pending
    <3>. QED
      BY <1>2, <3>1, <3>2 DEF Current
  <2>2. CASE s \in RootSlot
    <3>1. s[1] # "field" /\ s \notin FieldSlot /\ At(s) = root[s]
      BY <2>2, SlotFacts DEF At
    <3>2. At(s) \in Val
      BY <2>2, <3>1 DEF TypeOK
    <3>3. s \in Live
      BY <1>2, <2>1, <2>2 DEF Slots, Pending, Collecting
    <3>4. Intact => Before(root[s])
      BY <1>2, <2>1, <3>3 DEF Progress, Collecting
    <3>. QED
      BY <2>2, <3>1, <3>2, <3>4 DEF Before
  <2>3. CASE s \in FieldSlot
    <3>1. /\ s[1] = "field" /\ s \notin RootSlot /\ s[3] \in Slot /\ s = Field(s[2], s[3])
          /\ At(s) = heap[s[2]].f[s[3]]
      BY <2>3, SlotFacts DEF At
    <3>2. s[2] \in OldObj
      BY <2>1, <2>3 DEF Slots, Pending
    <3>3. heap[s[2]] # NoObj /\ heap[s[2]] \in Obj
      BY <3>2, Kinds
    <3>4. At(s) \in Val
      BY <3>1, <3>3, ObjFacts
    <3>5. Intact => After(heap[s[2]].f[s[3]]) \/ Before(heap[s[2]].f[s[3]])
      BY <1>2, <3>1, <3>2 DEF Progress, Collecting
    <3>. QED
      BY <1>2, <2>3, <3>1, <3>3, <3>4, <3>5 DEF Before, After
  <2>. QED
    BY <2>1, <2>2, <2>3
<1>3. CASE pc = "scan"
  <2>1. scan < free /\ fld <= NSlots /\ s = Field(<<to, scan>>, fld)
    BY <1>3 DEF Current
  <2>2. fld \in Slot /\ scan \in 0 .. free - 1
    BY <1>1, <2>1 DEF Slot
  <2>3. <<to, scan>> \in ToObj
    BY <2>2 DEF Places
  <2>4. <<to, scan>> \in Addr /\ heap[<<to, scan>>] # NoObj /\ heap[<<to, scan>>] \in Obj
    BY <2>3, Kinds
  <2>5. s \in FieldSlot /\ s \notin RootSlot /\ s[1] = "field" /\ s[2] = <<to, scan>> /\ s[3] = fld
    BY <2>1, <2>2, <2>4, SlotFacts
  <2>6. At(s) = heap[<<to, scan>>].f[fld]
    BY <2>5 DEF At
  <2>7. At(s) \in Val
    BY <2>2, <2>4, <2>6, ObjFacts
  <2>8. ~Scanned(<<to, scan>>, fld)
    BY <1>1 DEF Scanned
  <2>9. Intact => Before(heap[<<to, scan>>].f[fld])
    BY <1>3, <2>2, <2>3, <2>8 DEF Progress, Collecting
  <2>. QED
    BY <2>4, <2>5, <2>6, <2>7, <2>9 DEF Before
<1>. QED
  BY <1>2, <1>3 DEF Current

LEMMA SpaceFacts ==
  ASSUME TypeOK, Places
  PROVE  /\ \A v : FromSpace(v) => v \in FromObj
         /\ \A v : IsOld(v) => v \in OldObj
         /\ \A v \in NewAddr : heap[v] # NoObj /\ heap[v].fwd # Null => v \in FromObj
         /\ \A v \in FromObj \cup OldObj : ~InTo(v)
         /\ \A v \in ToObj : InTo(v)
         /\ \A v \in FromObj : FromSpace(v)
         /\ \A v \in OldObj : IsOld(v)
<1>1. /\ \A v \in ToObj : v \in NewAddr /\ v[1] = to
      /\ \A v \in FromObj : v \in NewAddr /\ v[1] # to /\ heap[v] # NoObj
      /\ \A v \in OldObj : v \notin NewAddr /\ v \in Addr /\ heap[v] # NoObj /\ heap[v].state = 3
  BY AddrFacts DEF ToObj, FromObj, OldObj, Places
<1>2. \A v \in ToObj \cup FromObj : heap[v].state # 3
  BY DEF Places
<1>3. \A v \in ToObj : heap[v].fwd = Null
  BY DEF Places
<1>4. ASSUME NEW v, FromSpace(v) PROVE v \in FromObj
  BY <1>4 DEF FromSpace, InTo, FromObj
<1>5. ASSUME NEW v, IsOld(v) PROVE v \in OldObj
  <2>1. v \in Addr /\ heap[v] # NoObj /\ heap[v].state = 3
    BY <1>5 DEF IsOld, IsRef
  <2>. QED
    BY <2>1, <1>2, Kinds
<1>6. ASSUME NEW v \in NewAddr, heap[v] # NoObj, heap[v].fwd # Null PROVE v \in FromObj
  <2>1. v \in ToObj \/ v \in FromObj
    BY <1>6 DEF ToObj, FromObj
  <2>. QED
    BY <1>3, <1>6, <2>1
<1>. QED
  BY <1>1, <1>4, <1>5, <1>6 DEF InTo, FromSpace, IsOld, IsRef

\* A step that leaves the slot as it is.
LEMMA VisitSkip ==
  ASSUME IInv, NEW s, Current(s), Visited(s, <<>>), UNCHANGED <<heap, free, to, root, sp, rs, lost>>,
         ~IsRef(At(s)) \/ IsOld(At(s)) \/ (InTo(At(s)) /\ s[1] = "field")
  PROVE  IInv'
<1>1. TypeOK /\ Places /\ Slots /\ Phases /\ Progress
  BY DEF IInv
<1>2. /\ At(s) \in Val /\ s \in RootSlot \cup FieldSlot
      /\ s \in FieldSlot => heap[s[2]] # NoObj /\ s[1] = "field"
      /\ s \in RootSlot => s[1] # "field"
      /\ Intact /\ IsRef(At(s)) => At(s) \in ToObj \cup FromObj \cup OldObj
  BY <1>1, CurrentFacts
<1>3. Assigned(s, At(s), heap)
  <2>1. \A r \in RootSlot : root'[r] = IF s = r THEN At(s) ELSE root[r]
    BY SlotFacts DEF At
  <2>2. \A a \in Addr, i \in Slot : heap'[a].f[i] = IF s = Field(a, i) THEN At(s) ELSE heap[a].f[i]
    <3>1. ASSUME NEW a \in Addr, NEW i \in Slot, s = Field(a, i) PROVE At(s) = heap[a].f[i]
      BY <3>1, SlotFacts DEF At
    <3>. QED
      BY <3>1
  <2>3. heap' \in [Addr -> Obj \cup {NoObj}] /\ root' \in [RootSlot -> Val]
    BY <1>1 DEF TypeOK
  <2>. QED
    BY <2>1, <2>2, <2>3 DEF Assigned
<1>4. Intact /\ IsRef(At(s)) => At(s) \in ToObj \cup OldObj
  BY <1>1, <1>2, SpaceFacts
<1>. QED
  BY <1>3, <1>4, VisitAssign

\* A step that takes the new address of what has been copied.
LEMMA VisitForward ==
  ASSUME IInv, NEW s, Current(s), Visited(s, <<>>), NEW v \in FromObj, heap[v].fwd # Null,
         Assign(s, heap[v].fwd, heap), UNCHANGED <<free, to, sp, rs, lost>>
  PROVE  IInv'
<1>1. TypeOK /\ Places /\ Slots /\ Phases /\ Progress /\ Originals
  BY DEF IInv
<1>2. /\ s \in RootSlot \cup FieldSlot
      /\ s \in FieldSlot => heap[s[2]] # NoObj
  BY <1>1, CurrentFacts
<1>3. heap[v].fwd \in Addr
  <2>1. heap[v] \in Obj
    BY <1>1, Kinds
  <2>. QED
    BY <2>1, ObjFacts
<1>4. Assigned(s, heap[v].fwd, heap)
  <2>1. heap \in [Addr -> Obj \cup {NoObj}] /\ heap[v].fwd \in Val
    BY <1>1, <1>3 DEF TypeOK, Val
  <2>. QED
    BY <1>1, <1>2, <2>1, AssignFacts
<1>5. Collecting
  BY DEF Current, Collecting
<1>6. Intact => heap[v].fwd \in ToObj \cup OldObj
  BY <1>1, <1>5 DEF Originals
<1>. QED
  BY <1>4, <1>6, VisitAssign

\* Two objects of the heap are replaced.
Replaced(h, p, x, v, y) == h = [heap EXCEPT ![p] = x, ![v] = y]

LEMMA Copied ==
  ASSUME TypeOK, NEW v \in Addr, NEW p \in Addr, v # p, NEW x \in Obj, NEW y \in Obj,
         x.id = heap[v].id, x.f = heap[v].f, x.fwd = Null, x.state = 3 <=> p \in OldAddr,
         y.id = heap[v].id, y.f = heap[v].f, y.fwd = p, y.state # 3,
         NEW h, Replaced(h, p, x, v, y)
  PROVE  IsCopied(h, v, p)
<1>1. heap \in [Addr -> Obj \cup {NoObj}]
  BY DEF TypeOK
<1>2. /\ h \in [Addr -> Obj \cup {NoObj}] /\ h[p] = x /\ h[v] = y
      /\ \A a \in Addr : a # p /\ a # v => h[a] = heap[a]
  BY <1>1 DEF Replaced
<1>3. x # NoObj /\ y # NoObj
  BY ObjFacts
<1>. QED
  BY <1>2, <1>3 DEF IsCopied

\* A copy x of the object o and what is left of the original, y.
Marked(x, y, o, p, how) ==
  \/ how = "neighbor" /\ x = o /\ y = [o EXCEPT !.fwd = p]
  \/ how = "root" /\ x = [o EXCEPT !.state = 2] /\ y = [o EXCEPT !.state = 2, !.fwd = p]
  \/ how = "old" /\ x = [o EXCEPT !.state = 3] /\ y = [o EXCEPT !.fwd = p]

LEMMA MarkedFacts ==
  ASSUME NEW o \in Obj, NEW p \in Addr, NEW how, NEW x, NEW y, Marked(x, y, o, p, how),
         o.fwd = Null, o.state # 3
  PROVE  /\ x \in Obj /\ x.id = o.id /\ x.f = o.f /\ x.fwd = Null /\ (x.state = 3 <=> how = "old")
         /\ y \in Obj /\ y.id = o.id /\ y.f = o.f /\ y.fwd = p /\ y.state # 3
<1>1. CASE how = "neighbor" /\ x = o /\ y = [o EXCEPT !.fwd = p]
  BY <1>1 DEF Obj
<1>2. CASE how = "old" /\ x = [o EXCEPT !.state = 3] /\ y = [o EXCEPT !.fwd = p]
  BY <1>2 DEF Obj
<1>3. CASE how = "root" /\ x = [o EXCEPT !.state = 2] /\ y = [o EXCEPT !.state = 2, !.fwd = p]
  <2>1. x \in Obj /\ x.id = o.id /\ x.f = o.f /\ x.fwd = Null /\ x.state = 2
    BY <1>3 DEF Obj
  <2>2. y = [x EXCEPT !.fwd = p]
    BY <1>3 DEF Obj
  <2>3. y \in Obj /\ y.id = x.id /\ y.f = x.f /\ y.fwd = p /\ y.state = x.state
    BY <2>1, <2>2 DEF Obj
  <2>. QED
    BY <1>3, <2>1, <2>3
<1>. QED
  BY <1>1, <1>2, <1>3 DEF Marked

LEMMA VisitMove ==
  ASSUME IInv, NEW s, Current(s), NEW new \in Seq(FieldSlot), Visited(s, new),
         NEW v \in FromObj, heap[v].fwd = Null, NEW p, CopyPlace(v, p),
         NEW h, IsCopied(h, v, p), Assign(s, p, h),
         p \in OldAddr => ToSet(new) = {Field(p, i) : i \in Slot},
         p \in NewAddr => ToSet(new) = {},
         UNCHANGED <<to, sp, rs, lost>>
  PROVE  IInv'
<1>1. TypeOK /\ Places /\ Slots /\ Phases /\ Progress /\ Graph /\ Collecting
  BY DEF IInv, Graph, Current, Collecting
<1>2. p \in Addr /\ v # p
  BY <1>1, PlaceFacts
<1>3. s \in RootSlot \cup FieldSlot /\ (s \in FieldSlot => heap[s[2]] # NoObj)
  BY <1>1, CurrentFacts
<1>4. h \in [Addr -> Obj \cup {NoObj}] /\ p \in Val
  BY <1>2 DEF IsCopied, Val
<1>5. ASSUME s \in FieldSlot PROVE h[s[2]] # NoObj
  <2>1. s[2] \in Addr
    BY <1>5, SlotFacts
  <2>. QED
    BY <1>3, <1>5, <2>1 DEF IsCopied
<1>6. Assigned(s, p, h)
  BY <1>1, <1>3, <1>4, <1>5, AssignFacts
<1>7. Moved(s, v, p)
  BY <1>1, <1>2, <1>6, MovedFacts
<1>. QED
  BY <1>7, VisitCopy

Within(p) == p = <<to, free>> /\ free' = free + 1
MarkedWithin(x, y, o, p) == Marked(x, y, o, p, "neighbor") \/ Marked(x, y, o, p, "root")

\* A step that copies an object within the new space.
LEMMA MoveWithin ==
  ASSUME IInv, NEW s, Current(s), Visited(s, <<>>), NEW v \in FromObj, heap[v].fwd = Null,
         NEW p, Within(p), NEW x, NEW y, NEW h, Replaced(h, p, x, v, y), Assign(s, p, h),
         MarkedWithin(x, y, heap[v], p),
         UNCHANGED <<to, sp, rs, lost>>
  PROVE  IInv'
<1>1. TypeOK /\ Places /\ Slots /\ Phases /\ Progress /\ Graph /\ Collecting
  BY DEF IInv, Graph, Current, Collecting
<1>2. v \in FromObj /\ v \in Addr /\ heap[v] \in Obj /\ heap[v].state # 3
  BY <1>1, Kinds DEF Places
<1>3. CopyPlace(v, p)
  BY DEF CopyPlace, Within
<1>3a. p = <<to, free>> /\ free' = free + 1
  BY DEF Within
<1>4. p \in Addr /\ v # p /\ p \in NewAddr /\ p \notin OldAddr
  BY <1>1, <1>2, <1>3, <1>3a, PlaceFacts, AddrFacts
<1>5. /\ x \in Obj /\ x.id = heap[v].id /\ x.f = heap[v].f /\ x.fwd = Null /\ x.state # 3
      /\ y \in Obj /\ y.id = heap[v].id /\ y.f = heap[v].f /\ y.fwd = p /\ y.state # 3
  <2>1. PICK how \in {"neighbor", "root"} : Marked(x, y, heap[v], p, how)
    BY DEF MarkedWithin
  <2>. QED
    BY <1>2, <1>4, <2>1, MarkedFacts
<1>6. IsCopied(h, v, p)
  BY <1>1, <1>2, <1>4, <1>5, Copied
<1>7. <<>> \in Seq(FieldSlot) /\ ToSet(<<>>) = {}
  BY DEF ToSet
<1>. QED
  BY <1>2, <1>3, <1>4, <1>6, <1>7, VisitMove

\* The program stops.
LEMMA Stopped ==
  ASSUME IInv, pc' \in {"corrupt", "stray", "assert", "no_space"},
         pc' \in {"corrupt", "stray"} => ~Intact, pc' = "no_space" => pc = "retry",
         fld' \in 1 .. NSlots + 1,
         UNCHANGED <<heap, free, to, root, sp, rs, lost, todo, work, scan>>
  PROVE  IInv'
<1>1. /\ ToObj' = ToObj /\ FromObj' = FromObj /\ OldObj' = OldObj /\ Live' = Live /\ Intact' = Intact
      /\ ~Collecting' /\ (Quiet' => Quiet)
  BY DEF ToObj, FromObj, OldObj, Live, Intact, Collecting, Quiet
<1>2. TypeOK'
  BY DEF IInv, TypeOK
<1>3. Places' /\ Unique'
  BY <1>1 DEF IInv, Places, Unique
<1>4. Copies' /\ Originals' /\ Progress' /\ Phases'
  BY <1>1 DEF Copies, Originals, Progress, Phases
<1>5. Slots'
  BY <1>1 DEF IInv, Slots
<1>6. Settled'
  BY <1>1 DEF IInv, Settled, Remembered, After, IsRef
<1>. QED
  BY <1>2, <1>3, <1>4, <1>5, <1>6 DEF IInv

LEMMA SkipValueStep == ASSUME IInv, SkipValue PROVE IInv'
<1> DEFINE s == Head(todo)
<1>1. Visiting /\ ~IsRef(At(s))
  BY DEF SkipValue
<1>2. CASE s[1] = "field"
  <2>1. pc' = "assert" /\ UNCHANGED <<heap, free, to, root, sp, rs, lost, todo, work, scan, fld>>
    BY <1>2 DEF SkipValue, memVars, gcVars
  <2>. QED
    BY <2>1, Stopped DEF IInv, TypeOK
<1>3. CASE s[1] # "field"
  <2>1. Skip
    BY <1>3 DEF SkipValue
  <2>2. Current(s) /\ Visited(s, <<>>)
    BY <1>1, <2>1 DEF Skip, Visiting, Current, Visited
  <2>. QED
    BY <1>1, <2>1, <2>2, VisitSkip DEF Skip, memVars
<1>. QED
  BY <1>2, <1>3

LEMMA SkipObjStep == ASSUME IInv, SkipObj PROVE IInv'
<1> DEFINE s == Head(todo)
<1>1. Visiting /\ Skip /\ (IsOld(At(s)) \/ (InTo(At(s)) /\ s[1] = "field"))
  BY DEF SkipObj
<1>2. Current(s) /\ Visited(s, <<>>)
  BY <1>1 DEF Skip, Visiting, Current, Visited
<1>. QED
  BY <1>1, <1>2, VisitSkip DEF Skip, memVars

LEMMA RejectStep == ASSUME IInv, Reject PROVE IInv'
<1> DEFINE s == Head(todo)
<1>1. /\ Visiting /\ UNCHANGED <<heap, free, to, root, sp, rs, lost, todo, work, scan, fld>>
      /\ \/ InTo(At(s)) /\ s[1] # "field" /\ pc' = "corrupt"
         \/ IsRef(At(s)) /\ heap[At(s)] = NoObj /\ pc' = "stray"
  BY DEF Reject, memVars, gcVars
<1>2. Current(s)
  BY <1>1 DEF Visiting, Current
<1>3. TypeOK /\ Places /\ Slots /\ Phases /\ Progress
  BY DEF IInv
<1>4. /\ s \in RootSlot \cup FieldSlot
      /\ s \in FieldSlot => s[1] = "field"
      /\ Intact /\ IsRef(At(s)) => At(s) \in ToObj \cup FromObj \cup OldObj
      /\ Intact /\ IsRef(At(s)) /\ s \in RootSlot => At(s) \in FromObj \cup OldObj
  BY <1>2, <1>3, CurrentFacts
<1>5. ~Intact
  <2>1. CASE InTo(At(s)) /\ s[1] # "field"
    <3>1. IsRef(At(s)) /\ s \in RootSlot
      BY <1>4, <2>1, AddrFacts DEF InTo, IsRef
    <3>. QED
      BY <1>3, <1>4, <2>1, <3>1, SpaceFacts
  <2>2. CASE IsRef(At(s)) /\ heap[At(s)] = NoObj
    BY <1>3, <1>4, <2>2, Kinds
  <2>. QED
    BY <1>1, <2>1, <2>2
<1>. QED
  BY <1>1, <1>3, <1>5, Stopped DEF TypeOK

LEMMA PromoteRejectStep == ASSUME IInv, PromoteReject PROVE IInv'
<1> DEFINE s == Head(work)
<1>1. /\ UNCHANGED <<heap, free, to, root, sp, rs, lost, todo, work, scan, fld>>
      /\ pc' = "assert" \/ (At(s) \in NewAddr /\ heap[At(s)] = NoObj /\ pc' = "stray")
  BY DEF PromoteReject, memVars, gcVars
<1>2. Current(s)
  BY DEF PromoteReject, Current
<1>3. TypeOK /\ Places /\ Slots /\ Phases /\ Progress
  BY DEF IInv
<1>4. Intact /\ IsRef(At(s)) => At(s) \in ToObj \cup FromObj \cup OldObj
  BY <1>2, <1>3, CurrentFacts
<1>5. pc' = "stray" => ~Intact
  BY <1>1, <1>3, <1>4, Kinds, AddrFacts DEF IsRef
<1>. QED
  BY <1>1, <1>3, <1>5, Stopped DEF TypeOK

LEMMA ForwardRootStep == ASSUME IInv, ForwardRoot PROVE IInv'
<1> DEFINE s == Head(todo)
           v == At(s)
<1>1. /\ Visiting /\ FromSpace(v) /\ heap[v].fwd # Null /\ Assign(s, heap[v].fwd, heap)
      /\ todo' = Tail(todo) /\ UNCHANGED <<to, free, sp, rs, lost, pc, work, scan, fld>>
  BY DEF ForwardRoot
<1>2. Current(s) /\ Visited(s, <<>>)
  BY <1>1 DEF Visiting, Current, Visited
<1>3. v \in FromObj
  BY <1>1, SpaceFacts DEF IInv
<1>. QED
  BY <1>1, <1>2, <1>3, VisitForward

LEMMA PromoteSkipStep == ASSUME IInv, PromoteSkip PROVE IInv'
<1> DEFINE s == Head(work)
<1>1. /\ pc = "roots" /\ work # <<>> /\ (~IsRef(At(s)) \/ IsOld(At(s))) /\ work' = Tail(work)
      /\ UNCHANGED <<heap, free, to, root, sp, rs, lost, pc, todo, scan, fld>>
  BY DEF PromoteSkip, memVars
<1>2. <<>> \o Tail(work) = Tail(work)
  BY <1>1, HeadTail DEF IInv, TypeOK
<1>3. Current(s) /\ Visited(s, <<>>)
  BY <1>1, <1>2 DEF Current, Visited
<1>. QED
  BY <1>1, <1>3, VisitSkip

LEMMA PromoteForwardStep == ASSUME IInv, PromoteForward PROVE IInv'
<1> DEFINE s == Head(work)
           v == At(s)
<1>1. /\ pc = "roots" /\ work # <<>> /\ v \in NewAddr /\ heap[v] # NoObj /\ heap[v].fwd # Null
      /\ Assign(s, heap[v].fwd, heap) /\ work' = Tail(work)
      /\ UNCHANGED <<to, free, sp, rs, lost, pc, todo, scan, fld>>
  BY DEF PromoteForward
<1>2. <<>> \o Tail(work) = Tail(work)
  BY <1>1, HeadTail DEF IInv, TypeOK
<1>3. Current(s) /\ Visited(s, <<>>)
  BY <1>1, <1>2 DEF Current, Visited
<1>4. v \in FromObj
  BY <1>1, SpaceFacts DEF IInv
<1>. QED
  BY <1>1, <1>3, <1>4, VisitForward

LEMMA CopyRootStep == ASSUME IInv, CopyRoot PROVE IInv'
<1> DEFINE s == Head(todo)
           v == At(s)
           p == <<to, free>>
           x == [heap[v] EXCEPT !.state = 2]
           y == [heap[v] EXCEPT !.state = 2, !.fwd = p]
           h == [heap EXCEPT ![p] = x, ![v] = y]
<1>1. /\ Visiting /\ FromSpace(v) /\ heap[v].fwd = Null /\ Assign(s, p, h)
      /\ free' = free + 1 /\ todo' = Tail(todo) /\ UNCHANGED <<to, sp, rs, lost, pc, work, scan, fld>>
  BY DEF CopyRoot
<1>2. Current(s) /\ Visited(s, <<>>)
  BY <1>1 DEF Visiting, Current, Visited
<1>3. Replaced(h, p, x, v, y) /\ MarkedWithin(x, y, heap[v], p)
  BY DEF Replaced, Marked, MarkedWithin
<1>4. Within(p)
  BY <1>1 DEF Within
<1>5. v \in FromObj
  BY <1>1, SpaceFacts DEF IInv
<1>6. heap[v].fwd = Null /\ Assign(s, p, h) /\ UNCHANGED <<to, sp, rs, lost>>
  BY <1>1
<1>. HIDE DEF s, v, p, x, y, h
<1>. QED
  BY <1>2, <1>3, <1>4, <1>5, <1>6, MoveWithin

LEMMA PromoteStep == ASSUME IInv, Promote PROVE IInv'
<1> DEFINE s == Head(work)
           v == At(s)
           p == <<"old", heap[v].id>>
           x == [heap[v] EXCEPT !.state = 3]
           y == [heap[v] EXCEPT !.fwd = p]
           h == Promoted(v, p)
           new == [i \in Slot |-> Field(p, i)]
<1>1. /\ pc = "roots" /\ work # <<>> /\ FromSpace(v) /\ heap[v].fwd = Null /\ Assign(s, p, h)
      /\ work' = new \o Tail(work) /\ UNCHANGED <<to, free, sp, rs, lost, pc, todo, scan, fld>>
  BY DEF Promote
<1>2. Current(s) /\ Visited(s, new)
  BY <1>1 DEF Current, Visited
<1>3. TypeOK /\ Places /\ Graph /\ Collecting
  BY <1>1 DEF IInv, Graph, Collecting
<1>4. v \in FromObj /\ v \in Addr /\ heap[v] \in Obj /\ heap[v].state # 3
  BY <1>1, <1>3, SpaceFacts, Kinds DEF Places
<1>5. CopyPlace(v, p)
  BY <1>1 DEF CopyPlace
<1>6. p \in Addr /\ v # p /\ p \in OldAddr /\ p \notin NewAddr
  <2>1. heap[v].id \in Ids
    BY <1>4, ObjFacts
  <2>2. p \in OldAddr
    BY <2>1, AddrFacts
  <2>. HIDE DEF v, p
  <2>. QED
    BY <1>1, <1>3, <1>4, <1>5, <2>2, PlaceFacts, AddrFacts
<1>7. new \in Seq(FieldSlot) /\ ToSet(new) = {Field(p, i) : i \in Slot}
  <2>1. DOMAIN new = Slot /\ Slot = 1 .. NSlots /\ NSlots \in Nat
    BY NewSpaceAssumption DEF Slot
  <2>2. \A i \in Slot : Field(p, i) \in FieldSlot
    BY <1>6, SlotFacts
  <2>. HIDE DEF p
  <2>3. new \in Seq(FieldSlot)
    BY <2>1, <2>2
  <2>. QED
    BY <2>1, <2>3 DEF ToSet
<1>8. Replaced(h, p, x, v, y)
  <2>1. heap \in [Addr -> Obj \cup {NoObj}]
    BY <1>3 DEF TypeOK
  <2>. HIDE DEF v, p
  <2>. QED
    BY <1>4, <1>6, <2>1 DEF Replaced, Promoted
<1>9. Marked(x, y, heap[v], p, "old")
  BY DEF Marked
<1>10. heap[v].fwd = Null /\ Assign(s, p, h) /\ UNCHANGED <<to, sp, rs, lost>>
  BY <1>1
<1>. HIDE DEF s, v, p, x, y, h, new
<1>11. /\ x \in Obj /\ x.id = heap[v].id /\ x.f = heap[v].f /\ x.fwd = Null /\ x.state = 3
       /\ y \in Obj /\ y.id = heap[v].id /\ y.f = heap[v].f /\ y.fwd = p /\ y.state # 3
  BY <1>4, <1>6, <1>9, <1>10, MarkedFacts
<1>12. IsCopied(h, v, p)
  BY <1>3, <1>4, <1>6, <1>8, <1>11, Copied
<1>. QED
  BY <1>2, <1>4, <1>5, <1>6, <1>7, <1>10, <1>12, VisitMove

LEMMA CopyNeighborStep == ASSUME IInv, CopyNeighbor PROVE IInv'
<1> DEFINE s == Field(<<to, scan>>, fld)
           v == At(s)
           p == <<to, free>>
           x == heap[v]
           y == [heap[v] EXCEPT !.fwd = p]
           h == [heap EXCEPT ![p] = x, ![v] = y]
<1>1. /\ pc = "scan" /\ scan < free /\ fld <= NSlots /\ fld' = fld + 1
      /\ UNCHANGED <<to, sp, rs, lost, todo, work, scan>>
      /\ \/ (~IsRef(v) \/ IsOld(v)) /\ UNCHANGED <<heap, free, root, pc>>
         \/ FromSpace(v) /\ heap[v].fwd # Null /\ Assign(s, heap[v].fwd, heap) /\ UNCHANGED <<free, pc>>
         \/ FromSpace(v) /\ heap[v].fwd = Null /\ Assign(s, p, h) /\ free' = free + 1 /\ UNCHANGED pc
         \/ /\ v \in NewAddr /\ ~FromSpace(v) /\ pc' \in {"corrupt", "stray"}
            /\ UNCHANGED <<heap, free, root>>
  BY DEF CopyNeighbor, memVars
<1>2. TypeOK /\ Places /\ Slots /\ Phases /\ Progress
  BY DEF IInv
<1>3. Current(s)
  BY <1>1 DEF Current
<1>4. UNCHANGED pc => Visited(s, <<>>)
  BY <1>1 DEF Visited
<1>5. CASE (~IsRef(v) \/ IsOld(v)) /\ UNCHANGED <<heap, free, root, pc>>
  <2>. HIDE DEF s
  <2>. QED
    BY <1>1, <1>3, <1>4, <1>5, VisitSkip
<1>6. CASE /\ FromSpace(v) /\ heap[v].fwd # Null /\ Assign(s, heap[v].fwd, heap)
           /\ UNCHANGED <<free, pc>>
  <2>1. v \in FromObj
    BY <1>2, <1>6, SpaceFacts
  <2>. HIDE DEF s, v
  <2>. QED
    BY <1>1, <1>3, <1>4, <1>6, <2>1, VisitForward
<1>7. CASE /\ FromSpace(v) /\ heap[v].fwd = Null /\ Assign(s, p, h) /\ free' = free + 1
           /\ UNCHANGED pc
  <2>1. v \in FromObj
    BY <1>2, <1>7, SpaceFacts
  <2>2. Replaced(h, p, x, v, y) /\ MarkedWithin(x, y, heap[v], p)
    BY DEF Replaced, Marked, MarkedWithin
  <2>3. Within(p) /\ heap[v].fwd = Null /\ Assign(s, p, h) /\ UNCHANGED <<to, sp, rs, lost>>
    BY <1>1, <1>7 DEF Within
  <2>4. Visited(s, <<>>)
    BY <1>4, <1>7
  <2>. HIDE DEF s, v, p, x, y, h
  <2>. QED
    BY <1>3, <2>1, <2>2, <2>3, <2>4, MoveWithin
<1>8. CASE /\ v \in NewAddr /\ ~FromSpace(v) /\ pc' \in {"corrupt", "stray"}
           /\ UNCHANGED <<heap, free, root>>
  <2>1. ASSUME Intact PROVE FALSE
    <3>1. v \in FromObj \cup OldObj
      <4>. HIDE DEF s
      <4>. QED
        BY <1>1, <1>2, <1>3, <1>8, <2>1, CurrentFacts, AddrFacts DEF IsRef
    <3>. HIDE DEF v
    <3>2. v \notin OldObj
      BY <1>8, AddrFacts DEF OldObj
    <3>. QED
      BY <1>2, <1>8, <3>1, <3>2, SpaceFacts
  <2>2. fld' \in 1 .. NSlots + 1
    BY <1>1, <1>2, NewSpaceAssumption DEF TypeOK
  <2>. QED
    BY <1>1, <1>8, <2>1, <2>2, Stopped
<1>. QED
  BY <1>1, <1>5, <1>6, <1>7, <1>8

\* A step that touches neither the memory nor the roots and leaves no slot out.
LEMMA Rearranged ==
  ASSUME IInv, Collecting, Collecting', UNCHANGED <<heap, free, to, root, sp, rs, lost>>,
         \A x : Pending(x)' <=> Pending(x),
         \A a \in ToObj, i \in Slot : Scanned(a, i)' <=> Scanned(a, i),
         todo' \in Seq(RootSlot \cup FieldSlot), work' \in Seq(RootSlot \cup FieldSlot),
         \A j, k \in DOMAIN todo' : j < k /\ todo'[j] = todo'[k] => todo'[j] \in FieldSlot,
         \A k \in DOMAIN work' : work'[k] \in RootSlot => Len(work') = 1 /\ work'[k] \notin ToSet(todo'),
         scan' \in 0 .. SegSize, fld' \in 1 .. NSlots + 1, Phases'
  PROVE  IInv'
<1>1. /\ ToObj' = ToObj /\ FromObj' = FromObj /\ OldObj' = OldObj /\ Live' = Live /\ Intact' = Intact
      /\ ~Quiet' /\ pc' \in {"roots", "scan"}
  BY DEF ToObj, FromObj, OldObj, Live, Intact, Collecting, Quiet
<1>2. TypeOK'
  BY <1>1 DEF IInv, TypeOK
<1>3. Places' /\ Copies' /\ Unique' /\ Originals'
  <2>1. Places'
    BY <1>1 DEF IInv, Places
  <2>2. Copies'
    BY <1>1 DEF IInv, Copies
  <2>3. Unique'
    BY <1>1 DEF IInv, Unique
  <2>4. Originals'
    BY <1>1 DEF IInv, Originals, Before, IsRef
  <2>. QED
    BY <2>1, <2>2, <2>3, <2>4
<1>4. Slots'
  <2>1. \A x : x \in ToSet(todo') \cup ToSet(work') <=> x \in ToSet(todo) \cup ToSet(work)
    BY DEF Pending
  <2>. QED
    BY <1>1, <2>1 DEF IInv, Slots
<1>5. Progress'
  <2>1. Intact =>
        /\ \A r \in Live : IF Pending(r) THEN Before(root[r]) ELSE After(root[r])
        /\ \A a \in OldObj, i \in Slot :
             After(heap[a].f[i]) \/ (Pending(Field(a, i)) /\ Before(heap[a].f[i]))
        /\ \A a \in ToObj, i \in Slot :
             IF Scanned(a, i) THEN After(heap[a].f[i]) ELSE Before(heap[a].f[i])
    BY DEF IInv, Progress
  <2>2. Intact =>
        /\ \A r \in Live : IF Pending(r)' THEN Before(root[r]) ELSE After(root[r])
        /\ \A a \in OldObj, i \in Slot :
             After(heap[a].f[i]) \/ (Pending(Field(a, i))' /\ Before(heap[a].f[i]))
        /\ \A a \in ToObj, i \in Slot :
             IF Scanned(a, i)' THEN After(heap[a].f[i]) ELSE Before(heap[a].f[i])
    BY <2>1
  <2>. QED
    BY <1>1, <2>2 DEF Progress, Before, After, IsRef
<1>6. Settled'
  BY <1>1 DEF Settled, Remembered
<1>. QED
  BY <1>2, <1>3, <1>4, <1>5, <1>6 DEF IInv

LEMMA PromoteRootStep == ASSUME IInv, PromoteRoot PROVE IInv'
<1> DEFINE s == Head(todo)
           S == RootSlot \cup FieldSlot
<1>1. /\ pc = "roots" /\ work = <<>> /\ todo # <<>> /\ work' = <<s>> /\ todo' = Tail(todo)
      /\ UNCHANGED <<heap, free, to, root, sp, rs, lost, pc, scan, fld>>
  BY DEF PromoteRoot, Visiting, memVars
<1>2. TypeOK /\ Places /\ Slots /\ Phases
  BY DEF IInv
<1>3. todo \in Seq(S)
  BY <1>2 DEF TypeOK
<1>4. /\ s \in S /\ todo' \in Seq(S) /\ ToSet(todo) = {s} \cup ToSet(todo')
      /\ Len(todo) \in Nat /\ Len(todo) >= 1 /\ Len(todo') = Len(todo) - 1 /\ s = todo[1]
      /\ \A k \in 1 .. Len(todo) - 1 : todo'[k] = todo[k + 1]
  <2>. HIDE DEF S
  <2>. QED
    BY <1>1, <1>3, HeadTail
<1>5. DOMAIN todo = 1 .. Len(todo) /\ DOMAIN todo' = 1 .. Len(todo) - 1
  BY <1>3, <1>4
<1>6. /\ work' \in Seq(S) /\ DOMAIN work' = {1} /\ Len(work') = 1 /\ work'[1] = s
      /\ ToSet(work') = {s} /\ ToSet(work) = {}
  BY <1>1, <1>4 DEF ToSet
<1>7. \A x : Pending(x)' <=> Pending(x)
  BY <1>4, <1>6 DEF Pending
<1>8. \A j, k \in DOMAIN todo : j < k /\ todo[j] = todo[k] => todo[j] \in FieldSlot
  BY <1>2 DEF Slots
<1>9. ASSUME NEW j \in DOMAIN todo', NEW k \in DOMAIN todo', j < k, todo'[j] = todo'[k]
      PROVE  todo'[j] \in FieldSlot
  <2>1. j + 1 \in DOMAIN todo /\ k + 1 \in DOMAIN todo /\ j + 1 < k + 1
    BY <1>4, <1>5, <1>9
  <2>2. todo'[j] = todo[j + 1] /\ todo'[k] = todo[k + 1]
    BY <1>4, <1>5
  <2>. QED
    BY <1>8, <1>9, <2>1, <2>2
<1>10. ASSUME s \in RootSlot, s \in ToSet(todo') PROVE FALSE
  <2>1. PICK k \in 1 .. Len(todo) - 1 : s = todo[k + 1]
    BY <1>4, <1>5, <1>10 DEF ToSet
  <2>2. 1 \in DOMAIN todo /\ k + 1 \in DOMAIN todo /\ 1 < k + 1
    BY <1>4, <1>5
  <2>3. s \notin FieldSlot
    BY <1>10, SlotFacts
  <2>. QED
    BY <1>4, <1>8, <2>1, <2>2, <2>3
<1>11. \A k \in DOMAIN work' : work'[k] \in RootSlot => Len(work') = 1 /\ work'[k] \notin ToSet(todo')
  BY <1>6, <1>10
<1>12. Collecting /\ Collecting' /\ Phases' /\ \A a \in ToObj, i \in Slot : Scanned(a, i)' <=> Scanned(a, i)
  BY <1>1, <1>2 DEF Collecting, Phases, Scanned
<1>13. scan' \in 0 .. SegSize /\ fld' \in 1 .. NSlots + 1
  BY <1>1, <1>2 DEF TypeOK
<1>. QED
  BY <1>1, <1>4, <1>6, <1>7, <1>9, <1>11, <1>12, <1>13, Rearranged

LEMMA RootsDoneStep == ASSUME IInv, RootsDone PROVE IInv'
<1>1. /\ pc = "roots" /\ work = <<>> /\ todo = <<>> /\ pc' = "scan"
      /\ UNCHANGED <<heap, free, to, root, sp, rs, lost, todo, work, scan, fld>>
  BY DEF RootsDone, memVars, gcVars
<1>2. TypeOK /\ Places /\ Slots /\ Phases
  BY DEF IInv
<1>3. Collecting /\ Collecting'
  BY <1>1 DEF Collecting
<1>4. Phases'
  BY <1>1, <1>2 DEF Phases, TypeOK
<1>5. /\ \A x : Pending(x)' <=> Pending(x)
      /\ \A a \in ToObj, i \in Slot : Scanned(a, i)' <=> Scanned(a, i)
  BY <1>1 DEF Pending, Scanned
<1>6. /\ \A j, k \in DOMAIN todo' : j < k /\ todo'[j] = todo'[k] => todo'[j] \in FieldSlot
      /\ \A k \in DOMAIN work' : work'[k] \in RootSlot => Len(work') = 1 /\ work'[k] \notin ToSet(todo')
      /\ todo' \in Seq(RootSlot \cup FieldSlot) /\ work' \in Seq(RootSlot \cup FieldSlot)
      /\ scan' \in 0 .. SegSize /\ fld' \in 1 .. NSlots + 1
  BY <1>1, <1>2 DEF TypeOK
<1>. QED
  BY <1>1, <1>3, <1>4, <1>5, <1>6, Rearranged

LEMMA NextObjStep == ASSUME IInv, NextObj PROVE IInv'
<1>1. /\ pc = "scan" /\ scan < free /\ fld > NSlots /\ scan' = scan + 1 /\ fld' = 1
      /\ UNCHANGED <<heap, free, to, root, sp, rs, lost, pc, todo, work>>
  BY DEF NextObj, memVars
<1>2. TypeOK /\ Places /\ Slots /\ Phases
  BY DEF IInv
<1>3. Collecting /\ Collecting'
  BY <1>1 DEF Collecting
<1>4. /\ scan \in Nat /\ free \in 0 .. SegSize /\ SegSize \in Nat /\ fld \in 1 .. NSlots + 1 /\ NSlots \in Nat
      /\ todo = <<>> /\ work = <<>> /\ sp < StackSize
  BY <1>1, <1>2, NewSpaceAssumption DEF TypeOK, Phases
<1>5. scan' \in 0 .. SegSize /\ fld' \in 1 .. NSlots + 1 /\ scan' <= free
  BY <1>1, <1>4
<1>6. Phases'
  BY <1>1, <1>4, <1>5 DEF Phases
<1>7. \A x : Pending(x)' <=> Pending(x)
  BY <1>1 DEF Pending
<1>8. ASSUME NEW a \in ToObj, NEW i \in Slot PROVE Scanned(a, i)' <=> Scanned(a, i)
  <2>1. a[2] \in Nat
    BY AddrFacts DEF ToObj
  <2>2. i \in Nat /\ i < fld /\ ~(i < 1)
    BY <1>1, <1>4 DEF Slot
  <2>3. Scanned(a, i) <=> (a[2] < scan \/ a[2] = scan)
    BY <2>2 DEF Scanned
  <2>4. Scanned(a, i)' <=> a[2] < scan + 1
    BY <1>1, <2>2 DEF Scanned
  <2>. QED
    BY <1>4, <2>1, <2>3, <2>4
<1>9. /\ \A j, k \in DOMAIN todo' : j < k /\ todo'[j] = todo'[k] => todo'[j] \in FieldSlot
      /\ \A k \in DOMAIN work' : work'[k] \in RootSlot => Len(work') = 1 /\ work'[k] \notin ToSet(todo')
      /\ todo' \in Seq(RootSlot \cup FieldSlot) /\ work' \in Seq(RootSlot \cup FieldSlot)
  BY <1>1, <1>2, <1>4 DEF TypeOK
<1>. QED
  BY <1>1, <1>3, <1>5, <1>6, <1>7, <1>8, <1>9, Rearranged

LEMMA EndScavengeStep == ASSUME IInv, EndScavenge PROVE IInv'
<1>1. /\ pc = "scan" /\ scan >= free /\ pc' = "retry"
      /\ heap' = [a \in Addr |-> IF a \in OldAddr \/ InTo(a) THEN heap[a] ELSE NoObj]
      /\ UNCHANGED <<free, to, root, sp, rs, todo, work, scan, fld>>
      /\ lost' = IF lost = "no" /\ ~Remembered' THEN "promotion" ELSE lost
  BY DEF EndScavenge, Blame, gcVars
<1>2. TypeOK /\ Places /\ Slots /\ Phases /\ Unique /\ Progress
  BY DEF IInv
<1>3. Collecting /\ ~Collecting' /\ Quiet' /\ (Intact' => Intact) /\ (Intact' => Remembered')
  BY <1>1 DEF Collecting, Quiet, Intact
<1>4. /\ \A a \in ToObj \cup OldObj : heap'[a] = heap[a] /\ heap[a] # NoObj /\ a \in Addr
      /\ \A a \in FromObj : heap'[a] = NoObj
      /\ \A a \in Addr : heap'[a] = heap[a] \/ heap'[a] = NoObj
  BY <1>1, AddrFacts DEF ToObj, OldObj, FromObj, InTo
<1>5. ToObj' = ToObj /\ OldObj' = OldObj /\ FromObj' = {} /\ Live' = Live
  <2>1. ToObj' = ToObj
    BY <1>1, <1>4, AddrFacts DEF ToObj
  <2>2. OldObj' = OldObj
    BY <1>1, <1>4, AddrFacts DEF OldObj
  <2>3. \A a \in NewAddr : a[1] # to => heap'[a] = NoObj
    BY <1>1, AddrFacts DEF InTo
  <2>4. FromObj' = {}
    BY <1>1, <2>3 DEF FromObj
  <2>5. Live' = Live
    BY <1>1 DEF Live
  <2>. QED
    BY <2>1, <2>2, <2>4, <2>5
<1>6. TypeOK'
  <2>1. \A a \in Addr : heap'[a] \in Obj \cup {NoObj}
    BY <1>2, <1>4 DEF TypeOK
  <2>2. heap' \in [Addr -> Obj \cup {NoObj}]
    BY <1>1, <2>1
  <2>3. lost' \in {"no", "native", "promotion"}
    BY <1>1, <1>2 DEF TypeOK
  <2>. HIDE <1>4
  <2>. QED
    BY <1>1, <1>2, <2>2, <2>3 DEF TypeOK
<1>7. Places'
  <2>1. /\ \A a \in ToObj : heap[a].state # 3 /\ a[2] < free /\ heap[a].fwd = Null
        /\ \A a \in OldObj : heap[a].state = 3 /\ heap[a].id = a[2] /\ heap[a].fwd = Null
        /\ \A k \in 0 .. free - 1 : <<to, k>> \in ToObj
    BY <1>2 DEF Places
  <2>2. /\ \A a \in ToObj : heap'[a].state # 3 /\ a[2] < free /\ heap'[a].fwd = Null
        /\ \A a \in OldObj : heap'[a].state = 3 /\ heap'[a].id = a[2] /\ heap'[a].fwd = Null
    BY <1>4, <2>1
  <2>. QED
    BY <1>1, <1>5, <2>1, <2>2 DEF Places
<1>8. Copies' /\ Originals' /\ Progress'
  BY <1>3 DEF Copies, Originals, Progress
<1>9. Slots'
  BY <1>1, <1>2, <1>3, <1>5 DEF Slots
<1>10. Phases'
  BY <1>1, <1>2 DEF Phases
<1>11. Unique'
  BY <1>2, <1>3, <1>4, <1>5 DEF Unique
<1>12. Settled'
  <2>1. todo = <<>> /\ work = <<>>
    BY <1>1, <1>2 DEF Phases
  <2>2. \A x : ~Pending(x)
    BY <2>1 DEF Pending, ToSet
  <2>3. \A a \in ToObj, i \in Slot : Scanned(a, i)
    <3>1. scan \in Nat /\ free \in Nat
      BY <1>2 DEF TypeOK
    <3>2. \A a \in ToObj : a[2] \in Nat /\ a[2] < free
      BY <1>2, AddrFacts DEF Places, ToObj
    <3>. QED
      BY <1>1, <3>1, <3>2 DEF Scanned
  <2>4. Intact => /\ \A r \in Live : After(root[r])
                  /\ \A a \in ToObj \cup OldObj, i \in Slot : After(heap[a].f[i])
    BY <1>2, <1>3, <2>2, <2>3 DEF Progress
  <2>5. Intact => /\ \A r \in Live : IsRef(root'[r]) => root'[r] \in ToObj \cup OldObj
                  /\ \A a \in ToObj \cup OldObj, i \in Slot :
                       IsRef(heap'[a].f[i]) => heap'[a].f[i] \in ToObj \cup OldObj
    BY <1>1, <1>4, <2>4 DEF After
  <2>6. pc' \notin {"corrupt", "stray"}
    BY <1>1
  <2>. QED
    BY <1>3, <1>5, <2>5, <2>6 DEF Settled, After, IsRef
<1>. QED
  BY <1>6, <1>7, <1>8, <1>9, <1>10, <1>11, <1>12 DEF IInv

LEMMA Concatenation ==
  ASSUME NEW S, NEW s \in Seq(S), NEW t \in Seq(S)
  PROVE  /\ s \o t \in Seq(S) /\ Len(s \o t) = Len(s) + Len(t) /\ Len(s) \in Nat /\ Len(t) \in Nat
         /\ \A k \in 1 .. Len(s) : (s \o t)[k] = s[k]
         /\ \A k \in 1 .. Len(t) : (s \o t)[Len(s) + k] = t[k]
OBVIOUS

\* The order in which gc_rootset visits the roots, and each of them once.
LEMMA RootOrderFacts ==
  ASSUME sp \in 0 .. StackSize
  PROVE  /\ RootOrder \in Seq(RootSlot) /\ Len(RootOrder) = NStatics + sp
         /\ \A k \in 1 .. Len(RootOrder) : RootOrder[k] \in Live
         /\ \A r \in Live : \E k \in 1 .. Len(RootOrder) : RootOrder[k] = r
         /\ \A j, k \in 1 .. Len(RootOrder) : j < k => RootOrder[j] # RootOrder[k]
<1> DEFINE s == [i \in 1 .. NStatics |-> Static(i - 1)]
           t == [i \in 1 .. sp |-> Stack(sp - i)]
           o == RootOrder
<1>1. NStatics \in Nat /\ StackSize \in Nat /\ sp \in Nat
  BY GenRootsAssumption
<1>2. Live \subseteq RootSlot
  BY LiveFacts
<1>3. \A i \in 1 .. NStatics : Static(i - 1) \in Live
  BY <1>1 DEF Live
<1>4. \A i \in 1 .. sp : Stack(sp - i) \in Live
  BY <1>1 DEF Live
<1>5. s \in Seq(Live) /\ Len(s) = NStatics /\ t \in Seq(Live) /\ Len(t) = sp
  BY <1>1, <1>3, <1>4
<1>6. \A k \in 1 .. NStatics : s[k] = Static(k - 1)
  OBVIOUS
<1>7. \A k \in 1 .. sp : t[k] = Stack(sp - k)
  OBVIOUS
<1>8. o = s \o t
  BY DEF RootOrder
<1>. HIDE DEF s, t, o
<1>9. /\ o \in Seq(Live) /\ Len(o) = NStatics + sp
      /\ \A k \in 1 .. NStatics : o[k] = s[k]
      /\ \A k \in 1 .. sp : o[NStatics + k] = t[k]
  <2>1. /\ o \in Seq(Live) /\ Len(o) = Len(s) + Len(t)
        /\ \A k \in 1 .. Len(s) : o[k] = s[k]
        /\ \A k \in 1 .. Len(t) : o[Len(s) + k] = t[k]
    <3>1. s \in Seq(Live) /\ t \in Seq(Live)
      BY <1>5
    <3>. QED
      BY <1>8, <3>1, Concatenation
  <2>2. Len(s) = NStatics /\ Len(t) = sp
    BY <1>5
  <2>. QED
    BY <2>1, <2>2
<1>10. /\ \A k \in 1 .. NStatics : o[k] = Static(k - 1)
       /\ \A k \in 1 .. sp : o[NStatics + k] = Stack(sp - k)
  BY <1>6, <1>7, <1>9
<1>11. \A k \in 1 .. NStatics + sp : o[k] \in Live
  BY <1>1, <1>9
<1>12. ASSUME NEW r \in Live PROVE \E k \in 1 .. NStatics + sp : o[k] = r
  <2>1. CASE \E i \in 0 .. NStatics - 1 : r = Static(i)
    <3>1. PICK i \in 0 .. NStatics - 1 : r = Static(i)
      BY <2>1
    <3>2. i + 1 \in 1 .. NStatics /\ i + 1 \in 1 .. NStatics + sp /\ (i + 1) - 1 = i
      BY <1>1
    <3>. QED
      BY <1>10, <3>1, <3>2
  <2>2. CASE \E i \in 0 .. sp - 1 : r = Stack(i)
    <3>1. PICK i \in 0 .. sp - 1 : r = Stack(i)
      BY <2>2
    <3>2. sp - i \in 1 .. sp /\ NStatics + (sp - i) \in 1 .. NStatics + sp /\ sp - (sp - i) = i
      BY <1>1
    <3>. QED
      BY <1>10, <3>1, <3>2
  <2>. QED
    BY <2>1, <2>2 DEF Live
<1>13. ASSUME NEW j \in 1 .. NStatics + sp, NEW k \in 1 .. NStatics + sp, j < k, o[j] = o[k] PROVE FALSE
  <2>1. \A i, m : /\ Stack(i) # Static(m)
                  /\ Stack(i) = Stack(m) => i = m
                  /\ Static(i) = Static(m) => i = m
    BY DEF Stack, Static
  <2>2. CASE k <= NStatics
    <3>1. j \in 1 .. NStatics /\ k \in 1 .. NStatics /\ j - 1 # k - 1
      BY <1>1, <1>13, <2>2
    <3>. QED
      BY <1>10, <1>13, <2>1, <3>1
  <2>3. CASE ~(k <= NStatics) /\ j <= NStatics
    <3>1. j \in 1 .. NStatics /\ k - NStatics \in 1 .. sp /\ NStatics + (k - NStatics) = k
      BY <1>1, <1>13, <2>3
    <3>2. o[j] = Static(j - 1) /\ o[k] = Stack(sp - (k - NStatics))
      BY <1>10, <3>1
    <3>. QED
      BY <1>13, <2>1, <3>2
  <2>4. CASE ~(j <= NStatics)
    <3>1. /\ j - NStatics \in 1 .. sp /\ NStatics + (j - NStatics) = j
          /\ k - NStatics \in 1 .. sp /\ NStatics + (k - NStatics) = k
          /\ sp - (j - NStatics) # sp - (k - NStatics)
      BY <1>1, <1>13, <2>4
    <3>2. o[j] = Stack(sp - (j - NStatics)) /\ o[k] = Stack(sp - (k - NStatics))
      BY <1>10, <3>1
    <3>. QED
      BY <1>13, <2>1, <3>1, <3>2
  <2>. QED
    BY <1>1, <1>13, <2>2, <2>3, <2>4
<1>14. o \in Seq(RootSlot)
  BY <1>2, <1>9
<1>. QED
  BY <1>9, <1>11, <1>12, <1>13, <1>14 DEF o

\* Every live root slot is visited once, and every remembered slot after them.
LEMMA VisitOrder ==
  ASSUME TypeOK, NEW w \in Seq(FieldSlot)
  PROVE  /\ RootOrder \o w \in Seq(RootSlot \cup FieldSlot)
         /\ ToSet(RootOrder \o w) = Live \cup ToSet(w)
         /\ \A j, k \in DOMAIN (RootOrder \o w) :
              j < k /\ (RootOrder \o w)[j] = (RootOrder \o w)[k] => (RootOrder \o w)[j] \in FieldSlot
<1> DEFINE S == RootSlot \cup FieldSlot
           o == RootOrder
           t == o \o w
<1>1. /\ o \in Seq(RootSlot)
      /\ \A k \in 1 .. Len(o) : o[k] \in Live
      /\ \A r \in Live : \E k \in 1 .. Len(o) : o[k] = r
      /\ \A j, k \in 1 .. Len(o) : j < k => o[j] # o[k]
  BY RootOrderFacts DEF TypeOK
<1>2. o \in Seq(S) /\ w \in Seq(S)
  BY <1>1
<1>. HIDE DEF o
<1>3. /\ t \in Seq(S) /\ Len(t) = Len(o) + Len(w) /\ Len(o) \in Nat /\ Len(w) \in Nat
      /\ \A k \in 1 .. Len(o) : t[k] = o[k]
      /\ \A k \in 1 .. Len(w) : t[Len(o) + k] = w[k]
  <2>. HIDE DEF S
  <2>. QED
    BY <1>2, Concatenation
<1>. HIDE DEF t
<1>4. DOMAIN t = 1 .. Len(o) + Len(w) /\ DOMAIN w = 1 .. Len(w)
  BY <1>3
<1>5. ASSUME NEW k \in DOMAIN t
      PROVE  \/ k \in 1 .. Len(o) /\ t[k] = o[k] /\ t[k] \in Live
             \/ k \notin 1 .. Len(o) /\ \E i \in DOMAIN w : t[k] = w[i]
  <2>1. CASE k <= Len(o)
    BY <1>1, <1>3, <1>4, <2>1
  <2>2. CASE ~(k <= Len(o))
    <3>1. k - Len(o) \in 1 .. Len(w) /\ Len(o) + (k - Len(o)) = k /\ k \notin 1 .. Len(o)
      BY <1>3, <1>4, <2>2
    <3>2. t[k] = w[k - Len(o)]
      BY <1>3, <3>1
    <3>. QED
      BY <1>4, <3>1, <3>2
  <2>. QED
    BY <2>1, <2>2
<1>6. ToSet(t) = Live \cup ToSet(w)
  <2>1. ASSUME NEW x \in ToSet(t) PROVE x \in Live \cup ToSet(w)
    BY <1>5 DEF ToSet
  <2>2. ASSUME NEW x \in Live PROVE x \in ToSet(t)
    <3>1. PICK k \in 1 .. Len(o) : o[k] = x
      BY <1>1
    <3>2. k \in DOMAIN t
      BY <1>3, <1>4
    <3>. QED
      BY <1>3, <3>1, <3>2 DEF ToSet
  <2>3. ASSUME NEW x \in ToSet(w) PROVE x \in ToSet(t)
    <3>1. PICK k \in 1 .. Len(w) : w[k] = x
      BY <1>4 DEF ToSet
    <3>2. Len(o) + k \in DOMAIN t
      BY <1>3, <1>4
    <3>. QED
      BY <1>3, <3>1, <3>2 DEF ToSet
  <2>. QED
    BY <2>1, <2>2, <2>3
<1>7. ASSUME NEW j \in DOMAIN t, NEW k \in DOMAIN t, j < k, t[j] = t[k], t[j] \notin FieldSlot PROVE FALSE
  <2>1. \A i \in DOMAIN w : w[i] \in FieldSlot
    BY <1>4
  <2>2. j \in 1 .. Len(o) /\ t[j] = o[j] /\ k \in 1 .. Len(o) /\ t[k] = o[k]
    BY <1>5, <1>7, <2>1
  <2>. QED
    BY <1>1, <1>7, <2>2
<1>. QED
  BY <1>3, <1>6, <1>7 DEF t, o

LEMMA StartScavengeStep == ASSUME IInv, StartScavenge PROVE IInv'
<1> DEFINE w == WithoutDups(rs)
<1>1. /\ pc = "run" /\ pc' = "roots" /\ sp < StackSize /\ to' \in Seg \ {to}
      /\ free' = 0 /\ scan' = 0 /\ fld' = 1 /\ rs' = w /\ todo' = RootOrder \o w /\ work' = <<>>
      /\ UNCHANGED <<heap, root, sp, lost>>
  BY DEF StartScavenge
<1>2. TypeOK /\ Places /\ Slots /\ Unique /\ Settled
  BY DEF IInv
<1>3. w \in Seq(FieldSlot) /\ Len(w) <= MaxRs /\ ToSet(w) = ToSet(rs)
  <2>1. rs \in Seq(FieldSlot) /\ Len(rs) <= MaxRs /\ MaxRs \in Nat
    BY <1>2, GenRootsAssumption DEF TypeOK
  <2>2. w \in Seq(FieldSlot) /\ Len(w) <= Len(rs) /\ ToSet(w) = ToSet(rs)
    BY <2>1, DupsFacts
  <2>3. Len(w) \in Nat /\ Len(rs) \in Nat
    BY <2>1, <2>2
  <2>. QED
    BY <2>1, <2>2, <2>3
<1>. HIDE DEF w
<1>4. /\ todo' \in Seq(RootSlot \cup FieldSlot)
      /\ ToSet(todo') = Live \cup ToSet(rs)
      /\ \A j, k \in DOMAIN todo' : j < k /\ todo'[j] = todo'[k] => todo'[j] \in FieldSlot
  BY <1>1, <1>2, <1>3, VisitOrder
<1>5. Quiet /\ ~Quiet' /\ Collecting' /\ Intact' = Intact /\ Live' = Live
  BY <1>1 DEF Quiet, Collecting, Intact, Live
<1>6. FromObj = {}
  BY <1>2, <1>5 DEF Places
<1>7. FromObj' = ToObj /\ ToObj' = {} /\ OldObj' = OldObj
  <2>1. \A a \in NewAddr : a[1] # to' <=> a[1] = to
    <3>1. to \in Seg /\ to' \in Seg /\ to' # to
      BY <1>1, <1>2 DEF TypeOK
    <3>. QED
      BY <3>1, AddrFacts, TwoSegments
  <2>2. FromObj' = ToObj
    BY <1>1, <2>1 DEF FromObj, ToObj
  <2>3. \A a \in NewAddr : a[1] # to => heap[a] = NoObj
    BY <1>6 DEF FromObj
  <2>4. ToObj' = {}
    BY <1>1, <2>1, <2>3 DEF ToObj
  <2>5. OldObj' = OldObj
    BY <1>1 DEF OldObj
  <2>. QED
    BY <2>2, <2>4, <2>5
<1>8. ToSet(work') = {} /\ DOMAIN work' = {} /\ work' \in Seq(RootSlot \cup FieldSlot)
  BY <1>1 DEF ToSet
<1>9. TypeOK'
  BY <1>1, <1>2, <1>3, <1>4, <1>8, NewSpaceAssumption DEF TypeOK
<1>10. Places'
  BY <1>1, <1>2, <1>5, <1>7 DEF Places
<1>11. Copies'
  BY <1>1 DEF Copies
<1>12. Slots'
  <2>1. \A s \in ToSet(rs) : s \in FieldSlot /\ s \notin RootSlot
    BY <1>2, SlotFacts DEF TypeOK, ToSet
  <2>2. Live \subseteq RootSlot
    BY <1>2, LiveFacts DEF TypeOK
  <2>3. ASSUME NEW s \in ToSet(rs') \cup ToSet(todo') \cup ToSet(work'), s \in FieldSlot PROVE s[2] \in OldObj'
    <3>1. s \in ToSet(rs)
      BY <1>1, <1>3, <1>4, <1>8, <2>2, <2>3, SlotFacts
    <3>. QED
      BY <1>2, <1>7, <2>3, <3>1 DEF Slots
  <2>4. ASSUME NEW s \in ToSet(todo') \cup ToSet(work'), s \in RootSlot PROVE s \in Live'
    BY <1>4, <1>5, <1>8, <2>1, <2>4
  <2>. QED
    BY <1>4, <1>8, <2>3, <2>4 DEF Slots
<1>13. Phases'
  BY <1>1 DEF Phases
<1>14. Unique'
  BY <1>1, <1>2, <1>5, <1>6, <1>7 DEF Unique
<1>15. /\ Intact => Remembered
       /\ Intact => /\ \A r \in Live : After(root[r])
                    /\ \A a \in ToObj \cup OldObj, i \in Slot : After(heap[a].f[i])
  BY <1>2, <1>5 DEF Settled
<1>16. \A a \in ToObj : heap[a].fwd = Null
  BY <1>2 DEF Places
<1>17. Originals'
  BY <1>1, <1>5, <1>7, <1>15, <1>16 DEF Originals, Before, After, IsRef
<1>18. Progress'
  <2>1. \A r \in Live : Pending(r)'
    BY <1>4 DEF Pending
  <2>2. ASSUME Intact, NEW a \in OldObj, NEW i \in Slot
        PROVE  \/ IsRef(heap[a].f[i]) => heap[a].f[i] \in OldObj
               \/ /\ Pending(Field(a, i))'
                  /\ IsRef(heap[a].f[i]) => heap[a].f[i] \in ToObj \cup OldObj
    <3>1. IsRef(heap[a].f[i]) => heap[a].f[i] \in ToObj \cup OldObj
      BY <1>15, <2>2 DEF After
    <3>2. ASSUME heap[a].f[i] \in ToObj PROVE Pending(Field(a, i))'
      <4>1. heap[a].f[i] \in NewAddr /\ a \in OldAddr /\ heap[a] # NoObj
        BY <3>2 DEF ToObj, OldObj
      <4>2. Field(a, i) \in ToSet(rs)
        BY <1>1, <1>15, <2>2, <4>1 DEF Remembered
      <4>. QED
        BY <1>4, <4>2 DEF Pending
    <3>. QED
      BY <3>1, <3>2
  <2>3. Intact => \A r \in Live : IsRef(root[r]) => root[r] \in ToObj \cup OldObj
    BY <1>15 DEF After
  <2>. QED
    BY <1>1, <1>5, <1>7, <2>1, <2>2, <2>3 DEF Progress, Before, After, IsRef
<1>19. Settled'
  BY <1>1, <1>5 DEF Settled, Remembered
<1>. QED
  BY <1>9, <1>10, <1>11, <1>12, <1>13, <1>14, <1>17, <1>18, <1>19 DEF IInv

-----------------------------------------------------------------------------
(* The steps of the mutator.                                               *)

\* A step that changes nothing but what the live root slots hold.
LEMMA RootsOnly ==
  ASSUME IInv, pc = "run", UNCHANGED <<heap, free, to, rs, lost, pc, todo, work, scan, fld>>,
         root' \in [RootSlot -> Val], sp' \in 0 .. StackSize,
         Intact => \A r \in Live' : IsRef(root'[r]) => root'[r] \in ToObj \cup OldObj
  PROVE  IInv'
<1>1. /\ ToObj' = ToObj /\ FromObj' = FromObj /\ OldObj' = OldObj /\ Intact' = Intact
      /\ ~Collecting /\ ~Collecting' /\ Quiet /\ Quiet'
  BY DEF ToObj, FromObj, OldObj, Intact, Collecting, Quiet
<1>2. TypeOK'
  BY DEF IInv, TypeOK
<1>3. Places' /\ Unique'
  BY <1>1 DEF IInv, Places, Unique
<1>4. Copies' /\ Originals' /\ Progress' /\ Phases'
  BY <1>1 DEF Copies, Originals, Progress, Phases
<1>5. Slots'
  BY <1>1 DEF IInv, Slots
<1>6. Settled'
  <2>1. Intact => Remembered'
    BY DEF IInv, Settled, Remembered
  <2>2. Intact => \A a \in ToObj \cup OldObj, i \in Slot : IsRef(heap[a].f[i]) => heap[a].f[i] \in ToObj \cup OldObj
    BY <1>1 DEF IInv, Settled, After
  <2>. QED
    BY <1>1, <2>1, <2>2 DEF Settled, After, IsRef
<1>. QED
  BY <1>2, <1>3, <1>4, <1>5, <1>6 DEF IInv

\* What the live root slots and the objects hold while the program runs.
LEMMA Running ==
  ASSUME IInv, pc = "run"
  PROVE  /\ TypeOK /\ Live \subseteq RootSlot /\ sp \in 0 .. StackSize /\ StackSize \in Nat
         /\ \A r \in RootSlot : root[r] \in Val
         /\ \A a \in Addr : heap[a] # NoObj <=> a \in ToObj \cup OldObj
         /\ Intact => \A r \in Live : IsRef(root[r]) => root[r] \in ToObj \cup OldObj
         /\ Intact => \A a \in ToObj \cup OldObj, i \in Slot :
              IsRef(heap[a].f[i]) => heap[a].f[i] \in ToObj \cup OldObj
         /\ sp > 0 => Stack(sp - 1) \in Live
         /\ sp > 1 => Stack(sp - 2) \in Live
         /\ Val = Addr \cup {Null, Tagged}
         /\ \A a \in Addr : heap[a] # NoObj => heap[a] \in Obj /\ \A i \in Slot : heap[a].f[i] \in Val
<1>1. TypeOK /\ Quiet
  BY DEF IInv, Quiet
<1>2. FromObj = {}
  BY <1>1 DEF IInv, Places
<1>3. sp \in 0 .. StackSize /\ StackSize \in Nat
  BY <1>1, GenRootsAssumption DEF TypeOK
<1>4. Live \subseteq RootSlot /\ (sp > 0 => Stack(sp - 1) \in Live) /\ (sp > 1 => Stack(sp - 2) \in Live)
  BY <1>3, LiveFacts
<1>5. \A r \in RootSlot : root[r] \in Val
  BY <1>1 DEF TypeOK
<1>6. \A a \in Addr : heap[a] # NoObj <=> a \in ToObj \cup OldObj
  BY <1>1, <1>2, Kinds
<1>7. /\ Intact => \A r \in Live : IsRef(root[r]) => root[r] \in ToObj \cup OldObj
      /\ Intact => \A a \in ToObj \cup OldObj, i \in Slot :
           IsRef(heap[a].f[i]) => heap[a].f[i] \in ToObj \cup OldObj
  BY <1>1 DEF IInv, Settled, After
<1>8. \A a \in Addr : heap[a] # NoObj => heap[a] \in Obj /\ \A i \in Slot : heap[a].f[i] \in Val
  BY <1>1, ObjFacts DEF TypeOK
<1>. QED
  BY <1>1, <1>3, <1>4, <1>5, <1>6, <1>7, <1>8 DEF Val

LEMMA DropFacts ==
  ASSUME IInv, pc = "run", NEW k \in 0 .. sp, Drop(k)
  PROVE  /\ root' \in [RootSlot -> Val] /\ sp' = sp - k /\ sp' \in 0 .. StackSize /\ Live' \subseteq Live
         /\ \A r \in RootSlot : root'[r] = root[r] \/ root'[r] = Null
<1>1. sp \in 0 .. StackSize /\ StackSize \in Nat /\ NStatics \in Nat /\ \A r \in RootSlot : root[r] \in Val
  BY Running, GenRootsAssumption
<1>2. Null \in Val
  BY DEF Val
<1>3. sp' = sp - k /\ sp' \in 0 .. StackSize
  BY <1>1 DEF Drop
<1>4. root' = [r \in RootSlot |-> IF \E i \in 1 .. k : r = Stack(sp - i) THEN Null ELSE root[r]]
  BY DEF Drop
<1>5. \A r \in RootSlot : root'[r] = root[r] \/ root'[r] = Null
  BY <1>4
<1>6. root' \in [RootSlot -> Val]
  BY <1>1, <1>2, <1>4
<1>7. 0 .. sp' - 1 \subseteq 0 .. sp - 1
  BY <1>1, <1>3
<1>8. Live' \subseteq Live
  BY <1>7 DEF Live
<1>. QED
  BY <1>3, <1>5, <1>6, <1>8

LEMMA PopStep == ASSUME IInv, Pop PROVE IInv'
<1>1. pc = "run" /\ sp > 0 /\ Drop(1) /\ UNCHANGED <<heap, free, to, rs, lost, pc, todo, work, scan, fld>>
  BY DEF Pop, memVars, gcVars
<1>2. 1 \in 0 .. sp
  BY <1>1, Running
<1>3. /\ root' \in [RootSlot -> Val] /\ sp' \in 0 .. StackSize /\ Live' \subseteq Live
      /\ \A r \in RootSlot : root'[r] = root[r] \/ root'[r] = Null
  BY <1>1, <1>2, DropFacts
<1>4. ASSUME Intact, NEW r \in Live', IsRef(root'[r]) PROVE root'[r] \in ToObj \cup OldObj
  BY <1>1, <1>3, <1>4, Running, AddrFacts DEF IsRef
<1>. QED
  BY <1>1, <1>3, <1>4, RootsOnly

LEMMA LoadStep ==
  ASSUME IInv, NEW v \in {root[r] : r \in Live} \cup {Tagged}, Load(v)
  PROVE  IInv'
<1>1. /\ pc = "run" /\ sp < StackSize /\ root' = [root EXCEPT ![Stack(sp)] = v] /\ sp' = sp + 1
      /\ UNCHANGED <<heap, free, to, rs, lost, pc, todo, work, scan, fld>>
  BY DEF Load, memVars, gcVars
<1>2. /\ TypeOK /\ Live \subseteq RootSlot /\ sp \in 0 .. StackSize /\ StackSize \in Nat
      /\ \A r \in RootSlot : root[r] \in Val
      /\ Intact => \A r \in Live : IsRef(root[r]) => root[r] \in ToObj \cup OldObj
      /\ Tagged \in Val
  BY <1>1, Running
<1>3. sp' \in 0 .. StackSize /\ Stack(sp) \in RootSlot
  BY <1>1, <1>2, StackFacts
<1>4. v \in Val /\ (Intact => (IsRef(v) => v \in ToObj \cup OldObj))
  BY <1>2, AddrFacts DEF IsRef
<1>5. root' \in [RootSlot -> Val] /\ \A r \in RootSlot : root'[r] = IF r = Stack(sp) THEN v ELSE root[r]
  BY <1>1, <1>2, <1>3, <1>4 DEF TypeOK
<1>6. \A r \in Live' : r = Stack(sp) \/ r \in Live
  BY <1>1, <1>2 DEF Live
<1>7. ASSUME Intact, NEW r \in Live', IsRef(root'[r]) PROVE root'[r] \in ToObj \cup OldObj
  BY <1>2, <1>3, <1>4, <1>5, <1>6, <1>7
<1>. QED
  BY <1>1, <1>3, <1>5, <1>7, RootsOnly

LEMMA LoadFieldStep == ASSUME IInv, NEW i \in Slot, LoadField(i) PROVE IInv'
<1> DEFINE v == heap[Top].f[i]
<1>1. /\ pc = "run" /\ sp > 0 /\ IsRef(Top) /\ heap[Top] # NoObj
      /\ root' = [root EXCEPT ![Stack(sp - 1)] = v]
      /\ UNCHANGED <<heap, free, to, sp, rs, lost, pc, todo, work, scan, fld>>
  BY DEF LoadField, memVars, gcVars
<1>2. /\ TypeOK /\ Live \subseteq RootSlot /\ sp \in 0 .. StackSize /\ StackSize \in Nat
      /\ Intact => \A r \in Live : IsRef(root[r]) => root[r] \in ToObj \cup OldObj
      /\ Stack(sp - 1) \in Live
  BY <1>1, Running
<1>3. Top \in Addr /\ Top \in ToObj \cup OldObj
  BY <1>1, Running DEF IsRef
<1>4. v \in Val /\ (Intact => (IsRef(v) => v \in ToObj \cup OldObj))
  <2>. HIDE DEF Top
  <2>. QED
    BY <1>1, <1>3, Running
<1>. HIDE DEF v
<1>5. root' \in [RootSlot -> Val] /\ \A r \in RootSlot : root'[r] = IF r = Stack(sp - 1) THEN v ELSE root[r]
  BY <1>1, <1>2, <1>4 DEF TypeOK
<1>6. Live' = Live
  BY <1>1 DEF Live
<1>7. ASSUME Intact, NEW r \in Live', IsRef(root'[r]) PROVE root'[r] \in ToObj \cup OldObj
  BY <1>2, <1>4, <1>5, <1>6, <1>7
<1>. QED
  BY <1>1, <1>2, <1>5, <1>7, RootsOnly

LEMMA StoreRootStep == ASSUME IInv, NEW r \in RootSlot, StoreRoot(r) PROVE IInv'
<1>1. /\ pc = "run" /\ sp > 0 /\ r \in Live \ {Stack(sp - 1)}
      /\ root' = [root EXCEPT ![r] = Top, ![Stack(sp - 1)] = Null] /\ sp' = sp - 1
      /\ UNCHANGED <<heap, free, to, rs, lost, pc, todo, work, scan, fld>>
  BY DEF StoreRoot, memVars, gcVars
<1>2. /\ TypeOK /\ Live \subseteq RootSlot /\ sp \in 0 .. StackSize /\ StackSize \in Nat
      /\ \A x \in RootSlot : root[x] \in Val
      /\ Intact => \A x \in Live : IsRef(root[x]) => root[x] \in ToObj \cup OldObj
      /\ Stack(sp - 1) \in Live /\ Null \in Val
  BY <1>1, Running
<1>3. Top \in Val /\ (Intact => (IsRef(Top) => Top \in ToObj \cup OldObj))
  BY <1>2 DEF Top
<1>4. /\ root' \in [RootSlot -> Val]
      /\ \A x \in RootSlot : root'[x] = Top \/ root'[x] = Null \/ root'[x] = root[x]
  <2>. HIDE DEF Top
  <2>. QED
    BY <1>1, <1>2, <1>3 DEF TypeOK
<1>5. 0 .. sp' - 1 \subseteq 0 .. sp - 1 /\ sp' \in 0 .. StackSize
  BY <1>1, <1>2
<1>6. Live' \subseteq Live
  BY <1>5 DEF Live
<1>7. ASSUME Intact, NEW x \in Live', IsRef(root'[x]) PROVE root'[x] \in ToObj \cup OldObj
  BY <1>2, <1>3, <1>4, <1>6, <1>7, AddrFacts DEF IsRef
<1>. QED
  BY <1>1, <1>4, <1>5, <1>7, RootsOnly

LEMMA StrayStep == ASSUME IInv, Stray PROVE IInv'
<1>1. /\ pc = "run" /\ sp > 0 /\ IsRef(Top) /\ heap[Top] = NoObj /\ pc' = "stray"
      /\ UNCHANGED <<heap, free, to, root, sp, rs, lost, todo, work, scan, fld>>
  BY DEF Stray, memVars, gcVars
<1>2. ~Intact
  BY <1>1, Running DEF Top, IsRef
<1>. QED
  BY <1>1, <1>2, Stopped, Running DEF TypeOK

\* A value is popped and stored into a field, with a barrier or without.
LEMMA Stored ==
  ASSUME IInv, pc = "run", sp > 1, NEW d \in Addr, heap[d] # NoObj, NEW i \in Slot,
         HeapWith(heap', heap, d, i, Top), Drop(2),
         UNCHANGED <<free, to, pc, todo, work, scan, fld>>,
         rs' \in Seq(FieldSlot), Len(rs') <= MaxRs,
         \A s \in ToSet(rs') : s \in ToSet(rs) \/ (s = Field(d, i) /\ d \in OldObj),
         lost' \in {"no", "native", "promotion"}, Intact' => Intact /\ Remembered'
  PROVE  IInv'
<1>1. /\ TypeOK /\ sp \in 0 .. StackSize /\ StackSize \in Nat
      /\ \A a \in Addr : heap[a] # NoObj <=> a \in ToObj \cup OldObj
      /\ Intact => \A r \in Live : IsRef(root[r]) => root[r] \in ToObj \cup OldObj
      /\ Intact => \A a \in ToObj \cup OldObj, j \in Slot :
           IsRef(heap[a].f[j]) => heap[a].f[j] \in ToObj \cup OldObj
      /\ Stack(sp - 1) \in Live /\ Top \in Val
  BY Running DEF Top
<1>2. /\ heap' \in [Addr -> Obj \cup {NoObj}]
      /\ \A b \in Addr : b # d => heap'[b] = heap[b]
      /\ heap'[d] # NoObj /\ heap'[d].id = heap[d].id /\ heap'[d].state = heap[d].state
      /\ heap'[d].fwd = heap[d].fwd
      /\ \A j \in Slot : heap'[d].f[j] = IF j = i THEN Top ELSE heap[d].f[j]
  <2>1. heap \in [Addr -> Obj \cup {NoObj}]
    BY <1>1 DEF TypeOK
  <2>. HIDE DEF Top
  <2>. QED
    BY <1>1, <2>1, HeapUpdate
<1>3. /\ root' \in [RootSlot -> Val] /\ sp' \in 0 .. StackSize /\ Live' \subseteq Live
      /\ \A r \in RootSlot : root'[r] = root[r] \/ root'[r] = Null
  <2>1. 2 \in 0 .. sp
    BY <1>1
  <2>. QED
    BY <2>1, DropFacts
<1>4. \A a \in Addr :
        /\ heap'[a] # NoObj <=> heap[a] # NoObj
        /\ heap[a] # NoObj => /\ heap'[a].id = heap[a].id /\ heap'[a].state = heap[a].state
                              /\ heap'[a].fwd = heap[a].fwd
  BY <1>2
<1>5. /\ ToObj' = ToObj /\ FromObj' = FromObj /\ OldObj' = OldObj
      /\ ~Collecting /\ ~Collecting' /\ Quiet /\ Quiet'
  BY <1>4 DEF ToObj, FromObj, OldObj, Addr, Collecting, Quiet
<1>6. \A a \in ToObj \cup FromObj \cup OldObj : a \in Addr /\ heap[a] # NoObj
  BY <1>1, Kinds
<1>7. TypeOK'
  BY <1>1, <1>2, <1>3 DEF TypeOK
<1>8. Places'
  <2>1. \A k \in 0 .. free' - 1 : <<to', k>> \in ToObj'
    BY <1>5 DEF IInv, Places
  <2>. QED
    BY <1>4, <1>5, <1>6, <2>1 DEF IInv, Places
<1>9. Unique'
  BY <1>4, <1>5, <1>6 DEF IInv, Unique
<1>10. Copies' /\ Originals' /\ Progress' /\ Phases'
  BY <1>5 DEF Copies, Originals, Progress, Phases
<1>11. Slots'
  <2>1. ASSUME NEW s \in ToSet(rs') \cup ToSet(todo') \cup ToSet(work'), s \in FieldSlot PROVE s[2] \in OldObj'
    <3>1. CASE s \in ToSet(rs) \cup ToSet(todo) \cup ToSet(work)
      BY <1>5, <2>1, <3>1 DEF IInv, Slots
    <3>2. CASE s = Field(d, i) /\ d \in OldObj
      BY <1>5, <3>2, SlotFacts
    <3>. QED
      BY <2>1, <3>1, <3>2
  <2>. QED
    BY <1>5, <2>1 DEF IInv, Slots
<1>12. Settled'
  <2>1. ASSUME Intact, NEW r \in Live', IsRef(root'[r]) PROVE root'[r] \in ToObj \cup OldObj
    BY <1>1, <1>3, <2>1, Running, AddrFacts DEF IsRef
  <2>2. ASSUME Intact, NEW a \in ToObj \cup OldObj, NEW j \in Slot, IsRef(heap'[a].f[j])
        PROVE  heap'[a].f[j] \in ToObj \cup OldObj
    <3>1. CASE a = d /\ j = i
      <4>1. heap'[a].f[j] = Top
        BY <1>2, <3>1
      <4>2. IsRef(Top) => Top \in ToObj \cup OldObj
        BY <1>1, <2>2 DEF Top
      <4>. QED
        BY <2>2, <4>1, <4>2
    <3>2. CASE ~(a = d /\ j = i)
      <4>1. heap'[a].f[j] = heap[a].f[j]
        BY <1>2, <1>6, <3>2
      <4>. QED
        BY <1>1, <2>2, <4>1
    <3>. QED
      BY <3>1, <3>2
  <2>3. pc' \notin {"corrupt", "stray"}
    OBVIOUS
  <2>. QED
    BY <1>5, <2>1, <2>2, <2>3 DEF Settled, After, IsRef
<1>. QED
  BY <1>7, <1>8, <1>9, <1>10, <1>11, <1>12 DEF IInv

LEMMA NativeStoreStep == ASSUME IInv, NEW i \in Slot, NativeStore(i) PROVE IInv'
<1> DEFINE d == root[Stack(sp - 2)]
<1>1. /\ pc = "run" /\ sp > 1 /\ d \in Addr /\ heap[d] # NoObj
      /\ heap' = [heap EXCEPT ![d].f[i] = Top] /\ Drop(2)
      /\ UNCHANGED <<free, to, rs, pc, todo, work, scan, fld>>
      /\ lost' = IF lost = "no" /\ ~Remembered' THEN "native" ELSE lost
  BY DEF NativeStore, Blame, IsRef, gcVars
<1>2. HeapWith(heap', heap, d, i, Top)
  BY <1>1 DEF HeapWith
<1>3. rs' \in Seq(FieldSlot) /\ Len(rs') <= MaxRs /\ lost' \in {"no", "native", "promotion"}
  BY <1>1 DEF IInv, TypeOK
<1>4. Intact' => Intact /\ Remembered'
  BY <1>1 DEF Intact
<1>5. \A s \in ToSet(rs') : s \in ToSet(rs)
  BY <1>1
<1>6. /\ pc = "run" /\ sp > 1 /\ d \in Addr /\ heap[d] # NoObj /\ Drop(2)
      /\ UNCHANGED <<free, to, pc, todo, work, scan, fld>>
  BY <1>1
<1>. HIDE DEF d, Top, Drop
<1>. QED
  BY <1>2, <1>3, <1>4, <1>5, <1>6, Stored

\* ST loses nothing: the slot is remembered when it begins to refer to the new space.
LEMMA StoreFieldStep == ASSUME IInv, NEW i \in Slot, StoreField(i) PROVE IInv'
<1> DEFINE d == root[Stack(sp - 2)]
<1>1. /\ pc = "run" /\ sp > 1 /\ d \in Addr /\ heap[d] # NoObj
      /\ heap' = [heap EXCEPT ![d].f[i] = Top] /\ Drop(2)
      /\ rs' = Remember(d, i, Top) /\ Len(rs') <= MaxRs
      /\ UNCHANGED <<free, to, lost, pc, todo, work, scan, fld>>
  BY DEF StoreField, IsRef, gcVars
<1>2. HeapWith(heap', heap, d, i, Top)
  BY <1>1 DEF HeapWith
<1>3. /\ TypeOK /\ Places
      /\ \A a \in Addr : heap[a] # NoObj <=> a \in ToObj \cup OldObj
      /\ Intact => \A r \in Live : IsRef(root[r]) => root[r] \in ToObj \cup OldObj
      /\ Stack(sp - 1) \in Live /\ Top \in Val
      /\ heap \in [Addr -> Obj \cup {NoObj}] /\ rs \in Seq(FieldSlot)
      /\ lost \in {"no", "native", "promotion"}
  BY <1>1, Running DEF Top, IInv, TypeOK
<1>4. Field(d, i) \in FieldSlot
  BY <1>1, SlotFacts
<1>5. /\ \A b \in Addr : b # d => heap'[b] = heap[b]
      /\ heap'[d] # NoObj
      /\ \A j \in Slot : heap'[d].f[j] = IF j = i THEN Top ELSE heap[d].f[j]
  <2>1. d \in Addr /\ heap[d] # NoObj
    BY <1>1
  <2>. HIDE DEF Top, d
  <2>. QED
    BY <1>2, <1>3, <2>1, HeapUpdate
<1>. HIDE DEF d
<1>6. /\ rs' \in Seq(FieldSlot)
      /\ \A s \in ToSet(rs') : s \in ToSet(rs) \/ (s = Field(d, i) /\ d \in OldObj)
      /\ \A s \in ToSet(rs) : s \in ToSet(rs')
      /\ IsOld(d) /\ InTo(Top) => Field(d, i) \in ToSet(rs')
  <2>1. CASE IsOld(d) /\ InTo(Top)
    <3>1. rs' = <<Field(d, i)>> \o rs
      BY <1>1, <2>1 DEF Remember
    <3>2. <<Field(d, i)>> \in Seq(FieldSlot) /\ Len(<<Field(d, i)>>) = 1 /\ <<Field(d, i)>>[1] = Field(d, i)
      BY <1>4
    <3> DEFINE e == <<Field(d, i)>>
    <3>. HIDE DEF e
    <3>3. /\ rs' \in Seq(FieldSlot) /\ Len(rs') = Len(e) + Len(rs) /\ Len(rs) \in Nat
          /\ \A k \in 1 .. Len(e) : rs'[k] = e[k]
          /\ \A k \in 1 .. Len(rs) : rs'[Len(e) + k] = rs[k]
      BY <1>3, <3>1, <3>2, Concatenation DEF e
    <3>4. Len(e) = 1 /\ e[1] = Field(d, i)
      BY <3>2 DEF e
    <3>5. DOMAIN rs' = 1 .. 1 + Len(rs) /\ DOMAIN rs = 1 .. Len(rs)
      BY <1>3, <3>3, <3>4
    <3>6. rs'[1] = Field(d, i) /\ \A k \in 1 .. Len(rs) : rs'[1 + k] = rs[k]
      BY <3>3, <3>4
    <3>7. Field(d, i) \in ToSet(rs')
      BY <3>3, <3>5, <3>6 DEF ToSet
    <3>8. ASSUME NEW s \in ToSet(rs) PROVE s \in ToSet(rs')
      <4>1. PICK k \in 1 .. Len(rs) : s = rs[k]
        BY <3>5 DEF ToSet
      <4>2. 1 + k \in 1 .. 1 + Len(rs)
        BY <3>3
      <4>. QED
        BY <3>5, <3>6, <4>1, <4>2 DEF ToSet
    <3>9. ASSUME NEW s \in ToSet(rs') PROVE s \in ToSet(rs) \/ s = Field(d, i)
      <4>1. PICK k \in 1 .. 1 + Len(rs) : s = rs'[k]
        BY <3>5 DEF ToSet
      <4>2. CASE k = 1
        BY <3>6, <4>1, <4>2
      <4>3. CASE k # 1
        <5>1. k - 1 \in 1 .. Len(rs) /\ 1 + (k - 1) = k
          BY <3>3, <4>3
        <5>2. s = rs[k - 1]
          BY <3>6, <4>1, <5>1
        <5>. QED
          BY <3>5, <5>1, <5>2 DEF ToSet
      <4>. QED
        BY <4>2, <4>3
    <3>10. d \in OldObj
      BY <1>3, <2>1, SpaceFacts
    <3>. QED
      BY <3>3, <3>7, <3>8, <3>9, <3>10
  <2>2. CASE ~(IsOld(d) /\ InTo(Top))
    <3>1. rs' = rs
      BY <1>1, <2>2 DEF Remember
    <3>. QED
      BY <1>3, <2>2, <3>1
  <2>. QED
    BY <2>1, <2>2
<1>7. ASSUME Intact PROVE Remembered'
  <2>. SUFFICES ASSUME NEW a \in OldAddr, heap'[a] # NoObj, NEW j \in Slot, heap'[a].f[j] \in NewAddr
                PROVE  Field(a, j) \in ToSet(rs')
    BY DEF Remembered
  <2>1. Remembered
    BY <1>7 DEF IInv, Settled
  <2>2. a \in Addr
    BY AddrFacts
  <2>3. CASE a = d /\ j = i
    <3>1. heap'[a].f[j] = Top
      BY <1>5, <2>3
    <3>2. Top \in NewAddr /\ Top \in ToObj \cup OldObj
      <4>1. Top \in NewAddr
        BY <3>1
      <4>2. IsRef(Top)
        BY <4>1, AddrFacts DEF IsRef
      <4>. QED
        BY <1>3, <1>7, <4>1, <4>2 DEF Top
    <3>3. InTo(Top)
      BY <3>2, AddrFacts DEF InTo, ToObj, OldObj
    <3>4. IsOld(d)
      <4>1. d \in OldObj
        BY <1>1, <2>3 DEF OldObj
      <4>. QED
        BY <1>3, <4>1, SpaceFacts
    <3>. QED
      BY <1>6, <2>3, <3>3, <3>4
  <2>4. CASE ~(a = d /\ j = i)
    <3>1. heap[a] # NoObj /\ heap[a].f[j] = heap'[a].f[j]
      BY <1>1, <1>5, <2>2, <2>4
    <3>2. Field(a, j) \in ToSet(rs)
      BY <1>1, <2>1, <3>1 DEF Remembered
    <3>. QED
      BY <1>6, <3>2
  <2>. QED
    BY <2>3, <2>4
<1>8. lost' \in {"no", "native", "promotion"} /\ (Intact' => Intact /\ Remembered')
  BY <1>1, <1>3, <1>7 DEF Intact
<1>9. /\ pc = "run" /\ sp > 1 /\ d \in Addr /\ heap[d] # NoObj /\ Drop(2) /\ Len(rs') <= MaxRs
      /\ UNCHANGED <<free, to, pc, todo, work, scan, fld>>
  BY <1>1
<1>. HIDE DEF Top, Drop
<1>. QED
  BY <1>2, <1>6, <1>8, <1>9, Stored

\* A new object has a place and an identity of its own.
LEMMA Placed ==
  ASSUME IInv, pc \in {"run", "retry"}, sp < StackSize, FreeIds # {}, CanMalloc, Place,
         UNCHANGED <<to, rs, lost, todo, work, scan, fld>>
  PROVE  IInv'
<1> DEFINE n == CHOOSE x \in FreeIds : \A m \in FreeIds : x <= m
           p == <<to, free>>
           o == [id |-> n, state |-> 1, f |-> [i \in Slot |-> Null], fwd |-> Null]
<1>1. /\ heap' = [heap EXCEPT ![p] = o] /\ free' = free + 1
      /\ root' = [root EXCEPT ![Stack(sp)] = p] /\ sp' = sp + 1 /\ pc' = "run"
  BY DEF Place
<1>2. /\ TypeOK /\ Places /\ Slots /\ Unique /\ Settled
      /\ ~Collecting /\ ~Collecting' /\ Quiet /\ Quiet'
  BY <1>1 DEF IInv, Collecting, Quiet
<1>3. /\ free \in 0 .. SegSize /\ free + 1 < SegSize /\ SegSize \in Nat /\ to \in Seg
      /\ sp \in 0 .. StackSize /\ StackSize \in Nat /\ heap \in [Addr -> Obj \cup {NoObj}]
      /\ root \in [RootSlot -> Val]
  BY <1>2, NewSpaceAssumption, GenRootsAssumption DEF TypeOK, CanMalloc
<1>4. free \in 0 .. SegSize - 1 /\ free' \in 0 .. SegSize /\ sp' \in 0 .. StackSize
  BY <1>1, <1>3
<1>5. p \in NewAddr /\ p \in Addr /\ p \in Val /\ p \notin OldAddr /\ p[1] = to /\ p[2] = free
  BY <1>3, <1>4, AddrFacts DEF Val
<1>6. n \in FreeIds /\ n \in Ids
  <2>1. FreeIds \in SUBSET Nat
    BY GenRootsAssumption DEF FreeIds
  <2>2. \E x \in FreeIds : \A m \in FreeIds : x <= m
    BY <2>1, LeastNat
  <2>3. n \in FreeIds
    BY <2>2
  <2>. QED
    BY <2>3 DEF FreeIds
<1>7. \A a \in Addr : heap[a] # NoObj => heap[a].id # n
  BY <1>6 DEF FreeIds
<1>. HIDE DEF n, p
<1>8. /\ o \in Obj /\ o.id = n /\ o.state = 1 /\ o.fwd = Null /\ \A i \in Slot : o.f[i] = Null
  BY <1>6 DEF Obj, Val
<1>. HIDE DEF o
<1>9. o # NoObj
  BY <1>8, ObjFacts
<1>10. heap' \in [Addr -> Obj \cup {NoObj}] /\ heap'[p] = o /\ \A a \in Addr : a # p => heap'[a] = heap[a]
  BY <1>1, <1>3, <1>5, <1>8
<1>11. FromObj = {} /\ FromObj' = {}
  <2>1. FromObj = {}
    BY <1>2 DEF Places
  <2>2. \A a \in NewAddr : a[1] # to => heap'[a] = NoObj
    BY <2>1, <1>5, <1>10 DEF FromObj, Addr
  <2>. QED
    BY <2>1, <2>2 DEF FromObj
<1>12. ToObj' = ToObj \cup {p} /\ OldObj' = OldObj
  <2>1. ToObj' = ToObj \cup {p}
    BY <1>5, <1>9, <1>10 DEF ToObj, Addr
  <2>2. OldObj' = OldObj
    BY <1>5, <1>10 DEF OldObj, Addr
  <2>. QED
    BY <2>1, <2>2
<1>13. p \notin ToObj /\ p \notin OldObj /\ \A a \in ToObj : a[2] \in Nat /\ a[2] < free
  <2>1. \A a \in ToObj : a[2] \in Nat /\ a[2] < free
    BY <1>2, AddrFacts DEF Places, ToObj
  <2>. QED
    BY <1>3, <1>5, <2>1 DEF OldObj
<1>14. \A a \in ToObj \cup OldObj : a \in Addr /\ a # p /\ heap'[a] = heap[a] /\ heap[a] # NoObj
  BY <1>2, <1>10, <1>13, Kinds
<1>15. Stack(sp) \in RootSlot
  BY <1>3, StackFacts
<1>16. root' \in [RootSlot -> Val] /\ \A r \in RootSlot : root'[r] = IF r = Stack(sp) THEN p ELSE root[r]
  BY <1>1, <1>3, <1>5, <1>15
<1>17. TypeOK'
  BY <1>1, <1>2, <1>4, <1>10, <1>16 DEF TypeOK
<1>18. Places'
  <2>1. /\ \A a \in ToObj : heap[a].state # 3 /\ heap[a].fwd = Null
        /\ \A a \in OldObj : heap[a].state = 3 /\ heap[a].id = a[2] /\ heap[a].fwd = Null
        /\ \A k \in 0 .. free - 1 : <<to, k>> \in ToObj
    BY <1>2 DEF Places
  <2>2. ASSUME NEW a \in ToObj' PROVE heap'[a].state # 3 /\ a[2] < free' /\ heap'[a].fwd = Null
    <3>1. CASE a = p
      <4>1. free < free'
        BY <1>1, <1>3
      <4>. QED
        BY <1>5, <1>8, <1>10, <3>1, <4>1
    <3>2. CASE a # p
      <4>1. a \in ToObj
        BY <1>12, <2>2, <3>2
      <4>2. a[2] \in Nat /\ a[2] < free + 1
        BY <1>3, <1>13, <4>1
      <4>. QED
        BY <1>1, <1>14, <2>1, <4>1, <4>2
    <3>. QED
      BY <3>1, <3>2
  <2>3. \A a \in OldObj' : heap'[a].state = 3 /\ heap'[a].id = a[2] /\ heap'[a].fwd = Null
    BY <1>12, <1>14, <2>1
  <2>4. ASSUME NEW k \in 0 .. free' - 1 PROVE <<to', k>> \in ToObj'
    <3>1. k \in 0 .. free - 1 \/ k = free
      BY <1>1, <1>3, <2>4
    <3>. QED
      BY <1>12, <2>1, <3>1 DEF p
  <2>. QED
    BY <1>11, <2>2, <2>3, <2>4 DEF Places
<1>19. Copies' /\ Originals' /\ Progress' /\ Phases'
  BY <1>1, <1>2 DEF Copies, Originals, Progress, Phases
<1>20. Slots'
  BY <1>2, <1>12 DEF Slots
<1>21. Unique'
  <2>1. \A a \in ToObj \cup OldObj : heap'[a].id # heap'[p].id
    BY <1>7, <1>8, <1>10, <1>14
  <2>. QED
    BY <1>2, <1>11, <1>12, <1>14, <2>1 DEF Unique, Intact
<1>22. Settled'
  <2>1. ASSUME Intact, NEW r \in Live', IsRef(root'[r]) PROVE root'[r] \in ToObj' \cup OldObj'
    <3>1. r = Stack(sp) \/ (r \in Live /\ r # Stack(sp))
      BY <1>1, <1>3, <2>1 DEF Live
    <3>2. Live \subseteq RootSlot
      BY <1>3, LiveFacts
    <3>3. \A x \in Live : IsRef(root[x]) => root[x] \in ToObj \cup OldObj
      BY <1>2, <2>1 DEF Settled, After
    <3>. QED
      BY <1>12, <1>15, <1>16, <2>1, <3>1, <3>2, <3>3
  <2>2. ASSUME Intact, NEW a \in ToObj' \cup OldObj', NEW i \in Slot, IsRef(heap'[a].f[i])
        PROVE  heap'[a].f[i] \in ToObj' \cup OldObj'
    <3>1. CASE a = p
      BY <1>8, <1>10, <2>2, <3>1, AddrFacts DEF IsRef
    <3>2. CASE a # p
      <4>1. a \in ToObj \cup OldObj
        BY <1>12, <2>2, <3>2
      <4>2. heap[a].f[i] = heap'[a].f[i]
        BY <1>14, <4>1
      <4>3. heap[a].f[i] \in ToObj \cup OldObj
        BY <1>2, <2>2, <4>1, <4>2 DEF Settled, After
      <4>. QED
        BY <1>12, <4>2, <4>3
    <3>. QED
      BY <3>1, <3>2
  <2>3. Intact => Remembered'
    <3>1. Intact => Remembered
      BY <1>2 DEF Settled
    <3>2. \A a \in OldAddr : heap'[a] = heap[a]
      BY <1>5, <1>10, AddrFacts
    <3>. QED
      BY <3>1, <3>2 DEF Remembered
  <2>4. pc' \notin {"corrupt", "stray"}
    BY <1>1
  <2>. QED
    BY <2>1, <2>2, <2>3, <2>4 DEF Settled, After, IsRef, Intact
<1>. QED
  BY <1>17, <1>18, <1>19, <1>20, <1>21, <1>22 DEF IInv

LEMMA RetryStep == ASSUME IInv, Retry PROVE IInv'
<1>1. pc = "retry" /\ UNCHANGED <<to, rs, lost, todo, work, scan, fld>>
  BY DEF Retry, gcVars
<1>2. CASE CanMalloc
  <2>1. FreeIds # {} /\ Place
    BY <1>2 DEF Retry
  <2>2. sp < StackSize
    BY <1>1 DEF IInv, Phases
  <2>. QED
    BY <1>1, <1>2, <2>1, <2>2, Placed
<1>3. CASE ~CanMalloc
  <2>1. pc' = "no_space" /\ UNCHANGED <<heap, free, root, sp>>
    BY <1>3 DEF Retry, memVars
  <2>. QED
    BY <1>1, <2>1, Stopped DEF IInv, TypeOK
<1>. QED
  BY <1>2, <1>3

-----------------------------------------------------------------------------
(* The theorems.                                                           *)

LEMMA InitStep == ASSUME Init PROVE IInv
<1>1. /\ heap = [a \in Addr |-> NoObj] /\ to \in Seg /\ free = 0
      /\ root = [r \in RootSlot |-> Null] /\ sp = 0 /\ rs = <<>> /\ pc = "run"
      /\ todo = <<>> /\ work = <<>> /\ scan = 0 /\ fld = 1 /\ lost = "no"
  BY DEF Init
<1>2. TypeOK
  <2>1. Null \in Val /\ SegSize \in Nat /\ NSlots \in Nat /\ MaxRs \in Nat /\ StackSize \in Nat
    BY NewSpaceAssumption, GenRootsAssumption DEF Val
  <2>. QED
    BY <1>1, <2>1 DEF TypeOK
<1>3. ToObj = {} /\ FromObj = {} /\ OldObj = {}
  BY <1>1 DEF ToObj, FromObj, OldObj, Addr
<1>4. Places /\ Copies /\ Unique /\ Phases
  BY <1>1, <1>3 DEF Places, Copies, Unique, Phases, Collecting
<1>5. Slots
  <2>1. ToSet(rs) = {} /\ ToSet(todo) = {} /\ ToSet(work) = {} /\ DOMAIN todo = {} /\ DOMAIN work = {}
    BY <1>1 DEF ToSet
  <2>. QED
    BY <2>1 DEF Slots
<1>6. Originals /\ Progress
  BY <1>1 DEF Originals, Progress, Collecting
<1>7. Settled
  <2>1. \A a \in OldAddr : heap[a] = NoObj
    BY <1>1, AddrFacts
  <2>2. Remembered
    BY <2>1 DEF Remembered
  <2>3. \A r \in Live : root[r] = Null
    BY <1>1, <1>2, LiveFacts DEF TypeOK
  <2>. QED
    BY <1>1, <1>3, <2>2, <2>3, AddrFacts DEF Settled, After, IsRef
<1>. QED
  BY <1>2, <1>4, <1>5, <1>6, <1>7 DEF IInv

LEMMA NewStep == ASSUME IInv, New PROVE IInv'
BY Placed DEF New, gcVars

LEMMA NextStep == ASSUME IInv, [Next]_vars PROVE IInv'
<1>1. CASE Mutate
  BY <1>1, NewStep, StrayStep, PopStep, LoadStep, LoadFieldStep, StoreFieldStep, NativeStoreStep,
     StoreRootStep DEF Mutate
<1>2. CASE Collect
  BY <1>2, StartScavengeStep, SkipValueStep, SkipObjStep, RejectStep, ForwardRootStep, CopyRootStep,
     PromoteRootStep, PromoteSkipStep, PromoteForwardStep, PromoteStep, PromoteRejectStep,
     RootsDoneStep, CopyNeighborStep, NextObjStep, EndScavengeStep, RetryStep DEF Collect
<1>3. CASE UNCHANGED vars
  <2>1. /\ UNCHANGED <<heap, to, free, root, sp, rs, pc, todo, work, scan, fld, lost>>
    BY <1>3 DEF vars
  <2>2. /\ ToObj' = ToObj /\ FromObj' = FromObj /\ OldObj' = OldObj /\ Live' = Live
        /\ Intact' = Intact /\ Collecting' = Collecting /\ Quiet' = Quiet /\ Remembered' = Remembered
    BY <2>1 DEF ToObj, FromObj, OldObj, Live, Intact, Collecting, Quiet, Remembered
  <2>3. TypeOK' /\ Copies' /\ Slots' /\ Phases'
    BY <2>1, <2>2 DEF IInv, TypeOK, Copies, Slots, Phases
  <2>4. Places' /\ Unique'
    BY <2>1, <2>2 DEF IInv, Places, Unique
  <2>5. Originals' /\ Settled'
    BY <2>1, <2>2 DEF IInv, Originals, Settled, Before, After, IsRef
  <2>6. Progress'
    BY <2>1, <2>2 DEF IInv, Progress, Before, After, IsRef, Pending, Scanned
  <2>. QED
    BY <2>3, <2>4, <2>5, <2>6 DEF IInv
<1>. QED
  BY <1>1, <1>2, <1>3 DEF Next

(* The invariant of the generational collector: originals keep their       *)
(* fields, an identity is in one place but for an original and its copy,   *)
(* and until a reference from old to new is lost only slots that are still *)
(* to be visited or scanned refer to the space that is left.               *)
THEOREM Invariant == Spec => []IInv
<1>1. Init => IInv
  BY InitStep
<1>2. IInv /\ [Next]_vars => IInv'
  BY NextStep
<1>. QED
  BY <1>1, <1>2, PTL DEF Spec

(* As long as every reference from old to new is remembered, a collection  *)
(* is sound: gc_rootset and the copying functions meet no pointer they     *)
(* reject, and live roots and objects refer to what is there.              *)
THEOREM SoundUntilLostHolds == Spec => []SoundUntilLost
<1>1. ASSUME IInv PROVE SoundUntilLost
  <2>. SUFFICES ASSUME lost = "no"
                PROVE  /\ pc \notin {"corrupt", "stray"}
                       /\ pc = "run" =>
                            /\ \A r \in Live : Sound(root[r])
                            /\ \A a \in Addr : (a \in OldAddr \/ InTo(a)) /\ heap[a] # NoObj =>
                                 \A i \in Slot : Sound(heap[a].f[i])
    BY DEF SoundUntilLost
  <2>1. Intact /\ pc \notin {"corrupt", "stray"}
    BY <1>1 DEF IInv, Settled, Intact
  <2>2. \A v : (IsRef(v) => v \in ToObj \cup OldObj) => Sound(v)
    BY DEF Sound, ToObj, OldObj, InTo
  <2>3. ASSUME pc = "run" PROVE \A r \in Live : Sound(root[r])
    BY <1>1, <2>1, <2>2, <2>3, Running
  <2>4. ASSUME pc = "run", NEW a \in Addr, heap[a] # NoObj, NEW i \in Slot PROVE Sound(heap[a].f[i])
    BY <1>1, <2>1, <2>2, <2>4, Running
  <2>. QED
    BY <2>1, <2>3, <2>4
<1>. QED
  BY <1>1, Invariant, PTL

(* An object is promoted or copied, never both, and at most once per       *)
(* collection: between collections an identity has one place.              *)
THEOREM OnePlaceHolds == Spec => []OnePlace
<1>1. ASSUME IInv PROVE OnePlace
  <2>. SUFFICES ASSUME pc = "run", lost = "no", NEW a \in Addr, NEW b \in Addr,
                       heap[a] # NoObj, heap[b] # NoObj, heap[a].id = heap[b].id
                PROVE  a = b
    BY DEF OnePlace
  <2>1. a \in ToObj \cup OldObj /\ b \in ToObj \cup OldObj
    BY <1>1, Running
  <2>2. heap[a].fwd = Null /\ heap[b].fwd = Null
    BY <1>1, <2>1 DEF IInv, Places
  <2>3. a = b \/ heap[a].fwd = b \/ heap[b].fwd = a
    BY <1>1, <2>1 DEF IInv, Unique, Intact
  <2>. QED
    BY <2>2, <2>3, AddrFacts
<1>. QED
  BY <1>1, Invariant, PTL

(* The mutator cannot lose a reference from old to new but by a native's   *)
(* store: gc_os_write_barrier remembers every one that ST makes, and no    *)
(* other step of the program makes one.                                    *)
THEOREM BarrierCompleteHolds == Spec => BarrierComplete
<1>1. ASSUME IInv, IInv', [Next]_vars, pc = "run", lost = "no", ~Remembered'
      PROVE  \E i \in Slot : NativeStore(i)
  <2>1. lost' # "no"
    BY <1>1 DEF IInv, Settled, Intact
  <2>2. CASE \E i \in Slot : NativeStore(i)
    BY <2>2
  <2>3. CASE UNCHANGED vars
    BY <1>1, <2>1, <2>3 DEF vars
  <2>4. CASE Collect
    BY <1>1, <2>1, <2>4
       DEF Collect, StartScavenge, SkipValue, SkipObj, Reject, ForwardRoot, CopyRoot, PromoteRoot,
           PromoteSkip, PromoteForward, Promote, PromoteReject, RootsDone, CopyNeighbor, NextObj,
           EndScavenge, Retry, Visiting
  <2>5. CASE Mutate /\ ~(\E i \in Slot : NativeStore(i))
    BY <1>1, <2>1, <2>5
       DEF Mutate, New, Stray, Pop, Load, LoadField, StoreField, StoreRoot
  <2>. QED
    BY <1>1, <2>2, <2>3, <2>4, <2>5 DEF Next
<1>2. IInv /\ IInv' /\ [Next]_vars => [pc = "run" /\ lost = "no" /\ ~Remembered' => \E i \in Slot : NativeStore(i)]_vars
  BY <1>1
<1>. QED
  BY <1>2, Invariant, PTL DEF Spec, BarrierComplete
=============================================================================

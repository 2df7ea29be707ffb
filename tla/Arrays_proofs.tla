--------------------------- MODULE Arrays_proofs ---------------------------
(***************************************************************************)
(* Proofs about arrays and the strings that are split into them, for any   *)
(* number of arrays, any lengths and any nesting of assignments.           *)
(***************************************************************************)
EXTENDS ArraysInvariant, Induction, SequenceTheorems

-----------------------------------------------------------------------------
(* The loop that computes a new size.                                      *)

LEMMA LargerFacts ==
  \A n \in Nat : Larger(n) \in Nat /\ (n >= 2 => Larger(n) > n) /\ Larger(n) <= 2 * n
BY DEF Larger

\* The sizes are what their recursion says.
LEMMA SizesExist ==
  ASSUME NEW n, NEW len \in Nat
  PROVE  Sizes(n, len) = [k \in 0 .. len |-> IF k = 0 THEN n ELSE Larger(Sizes(n, len)[k - 1])]
<1> DEFINE Is(f, j) == f = [k \in 0 .. j |-> IF k = 0 THEN n ELSE Larger(f[k - 1])]
           T == {j \in Nat : \E f : Is(f, j)}
<1>1. 0 \in T
  <2>1. Is([k \in 0 .. 0 |-> n], 0)
    OBVIOUS
  <2>. QED BY <2>1
<1>2. ASSUME NEW j \in Nat, j \in T PROVE j + 1 \in T
  <2>1. PICK f : Is(f, j)
    BY <1>2
  <2> DEFINE g == [k \in 0 .. j + 1 |-> IF k = j + 1 THEN Larger(f[j]) ELSE f[k]]
  <2>2. \A k \in 0 .. j + 1 : k # j + 1 => k \in 0 .. j /\ (k # 0 => k - 1 \in 0 .. j /\ k - 1 # j + 1)
    OBVIOUS
  <2>3. \A k \in 0 .. j + 1 : g[k] = IF k = 0 THEN n ELSE Larger(g[k - 1])
    <3>. TAKE k \in 0 .. j + 1
    <3>1. CASE k = j + 1
      <4>1. k # 0 /\ k - 1 = j /\ j \in 0 .. j + 1 /\ j # j + 1
        BY <3>1
      <4>2. g[j] = f[j] /\ g[k] = Larger(f[j])
        BY <3>1, <4>1
      <4>. QED BY <4>1, <4>2
    <3>2. CASE k # j + 1
      <4>1. g[k] = f[k] /\ f[k] = IF k = 0 THEN n ELSE Larger(f[k - 1])
        BY <3>2, <2>1, <2>2
      <4>2. k # 0 => g[k - 1] = f[k - 1]
        BY <3>2, <2>2
      <4>. QED BY <4>1, <4>2
    <3>. QED BY <3>1, <3>2
  <2>4. Is(g, j + 1)
    <3>. HIDE DEF g
    <3>1. g = [k \in 0 .. j + 1 |-> g[k]]
      BY DEF g
    <3>. QED BY <3>1, <2>3
  <2>. HIDE DEF g, Is
  <2>. QED BY <2>4
<1>3. \E f : Is(f, len)
  <2>. HIDE DEF T
  <2>1. len \in T
    BY <1>1, <1>2, SetInduction
  <2>. QED BY <2>1 DEF T
<1>. QED BY <1>3 DEF Sizes

(* What the loop of arr_realloc_elems computes.  It never reaches a length *)
(* from size 1 only; the size it stops at is large enough.                 *)
LEMMA SizesType ==
  ASSUME NEW n \in Nat, NEW len \in Nat
  PROVE  \A k \in 0 .. len : Sizes(n, len)[k] \in Nat
<1> DEFINE s == Sizes(n, len)
           T == {k \in Nat : k \in 0 .. len => s[k] \in Nat}
<1>1. \A k \in 0 .. len : s[k] = IF k = 0 THEN n ELSE Larger(s[k - 1])
  BY SizesExist
<1>. HIDE DEF s
<1>2. 0 \in T
  BY <1>1
<1>3. \A k \in Nat : k \in T => k + 1 \in T
  BY <1>1, LargerFacts
<1>. HIDE DEF T
<1>4. \A k \in Nat : k \in T
  BY <1>2, <1>3, SetInduction
<1>. QED
  BY <1>4 DEF T, s

LEMMA SizesGrow ==
  ASSUME NEW n \in Nat, NEW len \in Nat, n >= 2
  PROVE  \A k \in 0 .. len : Sizes(n, len)[k] >= n + k
<1> DEFINE s == Sizes(n, len)
           T == {k \in Nat : k \in 0 .. len => s[k] >= n + k}
<1>1. \A k \in 0 .. len : s[k] \in Nat /\ s[k] = IF k = 0 THEN n ELSE Larger(s[k - 1])
  BY SizesExist, SizesType
<1>. HIDE DEF s
<1>2. 0 \in T
  BY <1>1
<1>3. ASSUME NEW k \in Nat, k \in T, k + 1 \in 0 .. len PROVE s[k + 1] >= n + (k + 1)
  <2>1. k \in 0 .. len /\ s[k] \in Nat /\ s[k] >= n + k
    BY <1>1, <1>3
  <2>2. s[k + 1] = Larger(s[k])
    BY <1>1, <1>3
  <2>3. Larger(s[k]) \in Nat /\ Larger(s[k]) > s[k]
    BY <2>1, LargerFacts
  <2>. QED
    BY <2>1, <2>2, <2>3
<1>4. \A k \in Nat : k \in T => k + 1 \in T
  BY <1>3
<1>. HIDE DEF T
<1>5. \A k \in Nat : k \in T
  BY <1>2, <1>4, SetInduction
<1>. QED
  BY <1>5 DEF T, s

LEMMA OnlyOneHangs ==
  ASSUME NEW n \in Nat \ {0}, NEW len \in Nat, Hangs(n, len)
  PROVE  n = 1
<1>. SUFFICES ASSUME n >= 2 PROVE FALSE
  OBVIOUS
<1>1. Sizes(n, len)[len] >= n + len /\ Sizes(n, len)[len] \in Nat
  BY SizesGrow, SizesType
<1>. QED
  BY <1>1 DEF Hangs

LEMMA NewSizeFacts ==
  ASSUME NEW n \in Nat, NEW len \in Nat, n < len, ~Hangs(n, len)
  PROVE  NewSize(n, len) \in Nat /\ NewSize(n, len) >= len /\ NewSize(n, len) <= 2 * len
<1> DEFINE s == Sizes(n, len)
           Enough == {k \in 0 .. len : s[k] >= len}
<1>1. \A k \in 0 .. len : s[k] \in Nat /\ s[k] = IF k = 0 THEN n ELSE Larger(s[k - 1])
  BY SizesExist, SizesType
<1>2. Enough # {}
  BY <1>1 DEF Hangs
<1>3. PICK k \in Enough : \A j \in Enough : k <= j
  <2>. HIDE DEF Enough
  <2>1. Enough \in SUBSET Nat
    BY DEF Enough
  <2>. QED
    BY <1>2, <2>1, LeastNat
<1>4. \E k2 \in 0 .. len : s[k2] >= len /\ \A j \in 0 .. k2 - 1 : s[j] < len
  BY <1>1, <1>3
<1>. HIDE DEF s
<1>5. PICK m \in 0 .. len : /\ NewSize(n, len) = s[m]
                           /\ s[m] >= len /\ \A j \in 0 .. m - 1 : s[j] < len
  BY <1>4 DEF NewSize, s
<1>6. m # 0
  BY <1>1, <1>5
<1>7. m - 1 \in 0 .. len /\ s[m] = Larger(s[m - 1]) /\ s[m - 1] < len /\ s[m - 1] \in Nat
  BY <1>1, <1>5, <1>6
<1>. QED
  BY <1>1, <1>5, <1>7, LargerFacts

-----------------------------------------------------------------------------
(* Elements objects.                                                       *)

Address0 == [a : Arrays, i : Index \cup {-1}, objs : Ids, grown : BOOLEAN]

\* What every step starts from.
Ready ==
  /\ objs \in [Ids -> Object \cup {Unused}]
  /\ Fits(arr, objs, pend) /\ Len(pend) <= MaxPending
  /\ \A id \in Ids : objs[id] # Unused => id \in Used(arr, pend)

(* One of the elements objects of an array is free: it uses at most one    *)
(* for each pending address and one for itself.                            *)
LEMMA FreshFacts ==
  ASSUME Ready, NEW a \in Arrays
  PROVE  /\ Fresh(a) \in Ids /\ Fresh(a)[1] = a /\ objs[Fresh(a)] = Unused
         /\ Fresh(a) \notin Used(arr, pend)
<1> DEFINE K == 0 .. MaxPending + 1
           Free == {k \in K : objs[<<a, k>>] = Unused}
<1>1. /\ MaxPending \in Nat /\ pend \in Seq(Address0) /\ Len(pend) <= MaxPending
      /\ \A b \in Arrays : arr[b].objs[1] = b
      /\ \A k \in K : <<a, k>> \in Ids
      /\ \A id \in Used(arr, pend) : objs[id] # Unused
  BY ArraysAssumption, ValuesAssumption DEF Ready, Fits, Address0, Ids
<1>2. ASSUME Free = {} PROVE FALSE
  <2>1. \A k \in K : <<a, k>> = arr[a].objs \/ \E j \in DOMAIN pend : <<a, k>> = pend[j].objs
    <3>. TAKE k \in K
    <3>1. <<a, k>> \in Used(arr, pend)
      BY <1>1, <1>2 DEF Ready
    <3>. QED
      BY <3>1, <1>1 DEF Used
  <2> DEFINE At(k) == CHOOSE j \in DOMAIN pend : <<a, k>> = pend[j].objs
             f == [k \in K |-> IF <<a, k>> = arr[a].objs THEN 0 ELSE At(k)]
  <2>2. \A k \in K : <<a, k>> # arr[a].objs => At(k) \in DOMAIN pend /\ <<a, k>> = pend[At(k)].objs
    BY <2>1
  <2>3. DOMAIN pend = 1 .. Len(pend) /\ Len(pend) \in Nat
    BY <1>1
  <2>. HIDE DEF At
  <2>4. f \in [K -> 0 .. MaxPending]
    BY <2>2, <2>3, <1>1
  <2>5. /\ IsFiniteSet(K) /\ Cardinality(K) = MaxPending + 2
        /\ IsFiniteSet(0 .. MaxPending) /\ Cardinality(0 .. MaxPending) = MaxPending + 1
    BY <1>1, FS_Interval
  <2>6. PICK x, y \in K : x # y /\ f[x] = f[y]
    <3>. HIDE DEF f, K
    <3>1. Cardinality(0 .. MaxPending) < Cardinality(K)
      BY <2>5, <1>1
    <3>. QED
      BY <2>4, <2>5, <3>1, FS_PigeonHole
  <2>7. <<a, x>> = <<a, y>>
    BY <2>2, <2>3, <2>6
  <2>. QED
    BY <2>6, <2>7
<1>3. PICK k \in Free : \A j \in Free : k <= j
  <2>. HIDE DEF Free
  <2>1. Free \in SUBSET Nat /\ Free # {}
    BY <1>2, <1>1 DEF Free
  <2>. QED
    BY <2>1, LeastNat
<1>4. \E k2 \in K : objs[<<a, k2>>] = Unused /\ \A j \in 0 .. k2 - 1 : objs[<<a, j>>] # Unused
  <2>1. \A j \in 0 .. k - 1 : j \in K /\ j \notin Free
    BY <1>1, <1>3
  <2>. QED
    BY <1>3, <2>1
<1>5. PICK k2 \in K : Fresh(a) = <<a, k2>> /\ objs[<<a, k2>>] = Unused
  BY <1>4 DEF Fresh
<1>. QED
  BY <1>1, <1>5

\* What a longer array looks like.
GrownTo(a, n, s) ==
  LET size == NewSize(arr[a].alloc, n) IN
  /\ size \in n .. MaxSize
  /\ s.arr = [arr EXCEPT ![a] = [len |-> n, alloc |-> size, objs |-> Fresh(a)]]
  /\ s.objs[Fresh(a)] \in Object
  /\ s.objs[Fresh(a)].len = n
  /\ DOMAIN s.objs[Fresh(a)].cells = 0 .. size - 1
  /\ \A i \in 0 .. size - 1 :
       s.objs[Fresh(a)].cells[i] = IF i < arr[a].len THEN Elems(a).cells[i] ELSE Nil
  /\ s.objs[arr[a].objs] \in Object
  /\ s.objs[arr[a].objs].len = arr[a].len
  /\ s.objs[arr[a].objs].cells = Elems(a).cells
  /\ \A id \in Ids \ {Fresh(a), arr[a].objs} : s.objs[id] = objs[id]
  /\ s.objs = [id \in Ids |-> s.objs[id]]

LEMMA ObjectFacts ==
  /\ \A n \in 1 .. MaxSize, l \in 0 .. MaxLen : \A c \in [0 .. n - 1 -> Val] :
       [len |-> l, cells |-> c] \in Object
  /\ \A o \in Object : /\ o.len \in 0 .. MaxLen
                       /\ \E n \in 1 .. MaxSize : o.cells \in [0 .. n - 1 -> Val]
                       /\ o = [len |-> o.len, cells |-> o.cells]
                       /\ \A l \in 0 .. MaxLen : [o EXCEPT !.len = l] \in Object
                       /\ o # Unused
BY ValuesAssumption DEF Object

LEMMA ArrayFacts ==
  ASSUME Ready, NEW a \in Arrays
  PROVE  /\ arr[a] \in [len : 0 .. MaxLen, alloc : Nat, objs : Ids]
         /\ arr[a].objs \in Used(arr, pend) /\ Elems(a) \in Object
         /\ arr[a].alloc \in 1 .. MaxSize /\ Elems(a).cells \in [0 .. arr[a].alloc - 1 -> Val]
         /\ arr[a].len \in Nat /\ arr[a].len <= arr[a].alloc
         /\ Elems(a).len \in Nat /\ Elems(a).len <= arr[a].len
         /\ arr[a].objs[1] = a
<1>1. /\ arr[a] \in [len : 0 .. MaxLen, alloc : Nat, objs : Ids]
      /\ arr[a].objs \in Used(arr, pend) /\ Elems(a) \in Object
      /\ Elems(a).len <= arr[a].len /\ arr[a].len <= arr[a].alloc
      /\ DOMAIN Elems(a).cells = 0 .. arr[a].alloc - 1
      /\ arr[a].objs[1] = a
  BY DEF Ready, Fits, Used, Elems
<1>2. PICK n \in 1 .. MaxSize : Elems(a).cells \in [0 .. n - 1 -> Val]
  BY <1>1, ObjectFacts
<1>3. MaxSize \in Nat /\ MaxLen \in Nat
  BY ArraysAssumption DEF MaxSize
<1>4. 0 .. n - 1 = 0 .. arr[a].alloc - 1 /\ n \in Nat /\ arr[a].alloc \in Nat /\ n >= 1
  BY <1>1, <1>2, <1>3
<1>5. n = arr[a].alloc
  <2>1. n - 1 \in 0 .. arr[a].alloc - 1
    BY <1>4
  <2>2. arr[a].alloc >= 1
    BY <2>1, <1>4
  <2>3. arr[a].alloc - 1 \in 0 .. n - 1
    BY <2>2, <1>4
  <2>. QED
    BY <2>1, <2>3, <1>4
<1>6. Elems(a).len \in Nat /\ arr[a].len \in Nat
  BY <1>1, <1>3, ObjectFacts
<1>. QED
  BY <1>1, <1>2, <1>5, <1>6

LEMMA GrownFacts ==
  ASSUME Ready, NEW a \in Arrays, NEW n \in 1 .. MaxLen,
         n > arr[a].alloc, ~Hangs(arr[a].alloc, n)
  PROVE  GrownTo(a, n, Grown(a, n))
<1> DEFINE size == NewSize(arr[a].alloc, n)
           F == Fresh(a)
           c == arr[a].objs
           cells == [i \in 0 .. size - 1 |-> IF i < arr[a].len THEN Elems(a).cells[i] ELSE Nil]
           new == [len |-> n, cells |-> cells]
           x == [arr EXCEPT ![a] = [len |-> n, alloc |-> size, objs |-> F]]
           o1 == [objs EXCEPT ![c].len = arr[a].len]
           o == [o1 EXCEPT ![F] = new]
<1>1. MaxLen \in Nat /\ InitSize \in Nat /\ MaxSize = InitSize + 2 * MaxLen
  BY ArraysAssumption DEF MaxSize
<1>2. /\ size \in Nat /\ size >= n /\ size <= 2 * n
  BY <1>1, NewSizeFacts, ArrayFacts
<1>3. size \in n .. MaxSize /\ size \in 1 .. MaxSize
  BY <1>1, <1>2
<1>4. F \in Ids /\ c \in Ids /\ F # c
  BY FreshFacts, ArrayFacts
<1>. HIDE DEF size
<1>5. cells \in [0 .. size - 1 -> Val]
  BY <1>3, ArrayFacts DEF Val
<1>6. new \in Object /\ new.len = n /\ new.cells = cells
  <2>. HIDE DEF cells
  <2>. QED
    BY <1>1, <1>3, <1>5, ObjectFacts
<1>. HIDE DEF new, F, c
<1>7. objs \in [Ids -> Object \cup {Unused}] /\ objs[c] \in Object /\ objs[c] = Elems(a)
  BY ArrayFacts DEF Ready, c, Elems
<1>8. arr[a].len \in 0 .. MaxLen
  BY ArrayFacts
<1>9. /\ o1[c] = [objs[c] EXCEPT !.len = arr[a].len] /\ DOMAIN o1 = Ids
      /\ \A id \in Ids : id # c => o1[id] = objs[id]
  BY <1>4, <1>7
<1>10. o1[c] \in Object /\ o1[c].len = arr[a].len /\ o1[c].cells = Elems(a).cells
  BY <1>7, <1>8, <1>9, ObjectFacts
<1>. HIDE DEF o1
<1>11. /\ o[F] = new /\ o[c] = o1[c] /\ o = [id \in Ids |-> o[id]]
       /\ \A id \in Ids \ {F, c} : o[id] = objs[id]
  BY <1>4, <1>9
<1>12. Grown(a, n).arr = x /\ Grown(a, n).objs = o
  BY DEF Grown, size, F, c, new, o1
<1>. HIDE DEF o, x, cells
<1>13. /\ DOMAIN o[F].cells = 0 .. size - 1
       /\ \A i \in 0 .. size - 1 : o[F].cells[i] = IF i < arr[a].len THEN Elems(a).cells[i] ELSE Nil
  BY <1>6, <1>11 DEF cells
<1>. QED
  BY <1>3, <1>6, <1>10, <1>11, <1>12, <1>13 DEF GrownTo, size, F, c, x

\* The two lengths of every array agree.
Agreed(x, o) == \A a \in Arrays : x[a].len = o[x[a].objs].len

LEMMA OutdatedFacts ==
  ASSUME Ready, NEW a \in Arrays
  PROVE  /\ Outdated(a) \in Seq(Address0) /\ DOMAIN Outdated(a) = DOMAIN pend
         /\ Len(Outdated(a)) = Len(pend)
         /\ \A k \in DOMAIN pend :
              /\ Outdated(a)[k].a = pend[k].a /\ Outdated(a)[k].i = pend[k].i
              /\ Outdated(a)[k].objs = pend[k].objs
              /\ Outdated(a)[k].grown = (pend[k].grown \/ pend[k].a = a)
<1>1. pend \in Seq(Address0)
  BY DEF Ready, Fits, Address0
<1>2. \A k \in DOMAIN pend : pend[k] \in Address0
  BY <1>1
<1>3. \A k \in DOMAIN pend :
        /\ Outdated(a)[k] \in Address0
        /\ Outdated(a)[k].a = pend[k].a /\ Outdated(a)[k].i = pend[k].i
        /\ Outdated(a)[k].objs = pend[k].objs
        /\ Outdated(a)[k].grown = (pend[k].grown \/ pend[k].a = a)
  BY <1>2 DEF Outdated, Address0
<1>4. DOMAIN Outdated(a) = DOMAIN pend /\ DOMAIN pend = 1 .. Len(pend) /\ Len(pend) \in Nat
  BY <1>1 DEF Outdated
<1>5. Outdated(a) = [k \in 1 .. Len(pend) |-> Outdated(a)[k]]
  BY <1>4 DEF Outdated
<1>6. Outdated(a) \in Seq(Address0)
  BY <1>3, <1>4, <1>5, IsASeq
<1>. QED
  BY <1>3, <1>4, <1>5, <1>6, LenProperties

LEMMA PendFacts ==
  ASSUME Ready
  PROVE  /\ pend \in Seq(Address0)
         /\ \A k \in DOMAIN pend :
              /\ pend[k] \in Address0 /\ pend[k].a \in Arrays /\ pend[k].objs \in Ids
              /\ pend[k].objs \in Used(arr, pend)
              /\ pend[k].objs[1] = pend[k].a
              /\ IF pend[k].grown THEN pend[k].i < objs[pend[k].objs].len
                 ELSE pend[k].i < arr[pend[k].a].len /\ pend[k].objs = arr[pend[k].a].objs
         /\ \A id \in Used(arr, pend) : id \in Ids
<1>1. pend \in Seq(Address0)
  BY DEF Ready, Fits, Address0
<1>2. \A k \in DOMAIN pend : pend[k] \in Address0
  BY <1>1
<1>3. \A k \in DOMAIN pend : pend[k].a \in Arrays /\ pend[k].objs \in Ids
  BY <1>2 DEF Address0
<1>4. \A k \in DOMAIN pend : pend[k].objs \in Used(arr, pend)
  BY DEF Used
<1>5. \A k \in DOMAIN pend :
        /\ pend[k].objs[1] = pend[k].a
        /\ IF pend[k].grown THEN pend[k].i < objs[pend[k].objs].len
           ELSE pend[k].i < arr[pend[k].a].len /\ pend[k].objs = arr[pend[k].a].objs
  BY DEF Ready, Fits
<1>6. \A a \in Arrays : arr[a].objs \in Ids
  BY ArrayFacts
<1>7. \A id \in Used(arr, pend) : id \in Ids
  BY <1>3, <1>6 DEF Used
<1>. QED
  BY <1>1, <1>2, <1>3, <1>4, <1>5, <1>7

(* What the growth of an array leaves of what holds.                       *)
LEMMA GrownFits ==
  ASSUME Ready, NEW a \in Arrays, NEW n \in 1 .. MaxLen, n >= arr[a].len,
         NEW s, GrownTo(a, n, s)
  PROVE  /\ Fits(s.arr, s.objs, Outdated(a))
         /\ Solid(arr, objs, pend) /\ Agreed(arr, objs)
              => Solid(s.arr, s.objs, Outdated(a)) /\ Agreed(s.arr, s.objs)
<1> DEFINE F == Fresh(a)
           c == arr[a].objs
           size == NewSize(arr[a].alloc, n)
           q == Outdated(a)
<1>1. /\ F \in Ids /\ F[1] = a /\ F \notin Used(arr, pend)
      /\ c \in Ids /\ c \in Used(arr, pend) /\ c # F
  BY FreshFacts, ArrayFacts
<1>2. /\ s.arr[a] = [len |-> n, alloc |-> size, objs |-> F]
      /\ \A b \in Arrays \ {a} : s.arr[b] = arr[b]
      /\ DOMAIN s.arr = Arrays
  BY DEF Ready, Fits, GrownTo
<1>3. MaxLen \in Nat /\ MaxSize \in Nat /\ size \in n .. MaxSize
  BY ArraysAssumption DEF MaxSize, GrownTo
<1>4. s.arr \in [Arrays -> [len : 0 .. MaxLen, alloc : Nat, objs : Ids]]
  <2>1. \A b \in Arrays : s.arr[b] \in [len : 0 .. MaxLen, alloc : Nat, objs : Ids]
    BY <1>1, <1>2, <1>3, ArrayFacts
  <2>2. s.arr = [b \in Arrays |-> s.arr[b]]
    BY DEF GrownTo, Ready, Fits
  <2>. QED
    BY <2>1, <2>2
<1>5. \A id \in Used(s.arr, q) : id = F \/ (id \in Used(arr, pend) /\ id # F)
  <2>. SUFFICES ASSUME NEW id \in Used(s.arr, q), id # F
                PROVE  id \in Used(arr, pend)
    BY <1>1
  <2>1. CASE \E b \in Arrays : id = s.arr[b].objs
    BY <1>2, <2>1 DEF Used
  <2>2. CASE \E k \in DOMAIN q : id = q[k].objs
    BY <2>2, OutdatedFacts DEF Used
  <2>. QED
    BY <2>1, <2>2 DEF Used
<1>6. \A id \in Used(arr, pend) : id \in Ids
  BY PendFacts
<1>7. /\ s.objs[F] \in Object /\ s.objs[F].len = n
      /\ DOMAIN s.objs[F].cells = 0 .. size - 1
      /\ s.objs[c] \in Object /\ s.objs[c].len = arr[a].len
      /\ s.objs[c].cells = objs[c].cells
      /\ \A id \in Used(arr, pend) : id # c => s.objs[id] = objs[id]
  BY <1>1, <1>6 DEF GrownTo, Elems
<1>8. arr[a].len \in Nat /\ objs[c].len \in Nat /\ objs[c].len <= arr[a].len /\ arr[a].len <= arr[a].alloc
      /\ DOMAIN objs[c].cells = 0 .. arr[a].alloc - 1 /\ arr[a].alloc \in Nat
  BY ArrayFacts DEF Elems
<1>9. \A id \in Used(s.arr, q) : s.objs[id] \in Object /\ 0 .. s.objs[id].len - 1 \subseteq DOMAIN s.objs[id].cells
  <2>. SUFFICES ASSUME NEW id \in Used(s.arr, q)
                PROVE  s.objs[id] \in Object /\ 0 .. s.objs[id].len - 1 \subseteq DOMAIN s.objs[id].cells
    OBVIOUS
  <2>1. CASE id = F
    BY <2>1, <1>7, <1>3
  <2>2. CASE id = c
    BY <2>2, <1>7, <1>8
  <2>3. CASE id # F /\ id # c
    BY <2>3, <1>5, <1>7 DEF Ready, Fits
  <2>. QED
    BY <2>1, <2>2, <2>3
<1>10. \A b \in Arrays : b # a => arr[b].objs # c /\ arr[b].objs # F /\ arr[b].objs \in Used(arr, pend)
  BY <1>1, ArrayFacts
<1>11. \A b \in Arrays :
        /\ s.arr[b].objs[1] = b
        /\ s.objs[s.arr[b].objs].len <= s.arr[b].len /\ s.arr[b].len <= s.arr[b].alloc
        /\ DOMAIN s.objs[s.arr[b].objs].cells = 0 .. s.arr[b].alloc - 1
  <2>. TAKE b \in Arrays
  <2>1. CASE b = a
    BY <2>1, <1>1, <1>2, <1>3, <1>7
  <2>2. CASE b # a
    <3>1. s.arr[b] = arr[b] /\ s.objs[arr[b].objs] = objs[arr[b].objs]
      BY <2>2, <1>2, <1>7, <1>10
    <3>. QED
      BY <3>1 DEF Ready, Fits
  <2>. QED
    BY <2>1, <2>2
<1>12. \A k \in DOMAIN q :
        /\ q[k].objs[1] = q[k].a
        /\ IF q[k].grown THEN q[k].i < s.objs[q[k].objs].len
           ELSE q[k].i < s.arr[q[k].a].len /\ q[k].objs = s.arr[q[k].a].objs
  <2>. SUFFICES ASSUME NEW k \in DOMAIN pend
                PROVE  /\ q[k].objs[1] = q[k].a
                       /\ IF q[k].grown THEN q[k].i < s.objs[q[k].objs].len
                          ELSE q[k].i < s.arr[q[k].a].len /\ q[k].objs = s.arr[q[k].a].objs
    BY OutdatedFacts
  <2>1. /\ q[k].a = pend[k].a /\ q[k].i = pend[k].i /\ q[k].objs = pend[k].objs
        /\ q[k].grown = (pend[k].grown \/ pend[k].a = a)
    BY OutdatedFacts
  <2>2. /\ pend[k] \in Address0 /\ pend[k].objs[1] = pend[k].a
        /\ IF pend[k].grown THEN pend[k].i < objs[pend[k].objs].len
           ELSE pend[k].i < arr[pend[k].a].len /\ pend[k].objs = arr[pend[k].a].objs
        /\ pend[k].objs \in Used(arr, pend)
    BY PendFacts
  <2>3. pend[k].i \in Int /\ pend[k].a \in Arrays
    BY <2>2, <1>3 DEF Address0, Index
  <2>4. CASE pend[k].objs = c
    <3>1. s.objs[c].len = arr[a].len /\ pend[k].a = a
      BY <2>2, <2>4, <1>7, ArrayFacts
    <3>2. pend[k].i < arr[a].len
      BY <2>2, <2>3, <2>4, <3>1, <1>8
    <3>. QED
      BY <2>1, <2>2, <2>4, <3>1, <3>2
  <2>5. CASE pend[k].objs # c
    <3>1. s.objs[pend[k].objs] = objs[pend[k].objs]
      BY <2>2, <2>5, <1>7
    <3>2. pend[k].a = a => pend[k].grown
      BY <2>2, <2>5
    <3>3. pend[k].a # a => s.arr[pend[k].a] = arr[pend[k].a]
      BY <1>2, <2>3
    <3>. QED
      BY <2>1, <2>2, <3>1, <3>2, <3>3
  <2>. QED
    BY <2>4, <2>5
<1>13. Fits(s.arr, s.objs, q)
  BY <1>4, <1>9, <1>11, <1>12, OutdatedFacts DEF Fits, Address0
<1>14. ASSUME Solid(arr, objs, pend), Agreed(arr, objs)
       PROVE  Solid(s.arr, s.objs, q) /\ Agreed(s.arr, s.objs)
  <2>1. objs[c].len = arr[a].len
    BY <1>14 DEF Agreed
  <2>2. Agreed(s.arr, s.objs)
    BY <1>14, <1>2, <1>7, <1>10 DEF Agreed
  <2>3. ASSUME NEW i \in DOMAIN s.objs[F].cells
        PROVE  IF i < n THEN s.objs[F].cells[i] # Dangling ELSE s.objs[F].cells[i] = Nil
    <3>1. i \in 0 .. size - 1 /\ s.objs[F].cells[i] = IF i < arr[a].len THEN objs[c].cells[i] ELSE Nil
      BY <2>3, <1>7 DEF GrownTo, Elems
    <3>2. CASE i < arr[a].len
      <4>1. i \in DOMAIN objs[c].cells
        BY <1>3, <1>8, <3>1, <3>2
      <4>2. objs[c].cells[i] # Dangling
        BY <4>1, <2>1, <3>2, <1>1, <1>14 DEF Solid
      <4>. QED
        BY <4>2, <3>1, <3>2, <1>8, <1>3
    <3>3. CASE ~(i < arr[a].len)
      BY <3>1, <3>3, ValuesAssumption
    <3>. QED
      BY <3>2, <3>3
  <2>4. ASSUME NEW id \in Used(s.arr, q), id # F, NEW i \in DOMAIN s.objs[id].cells
        PROVE  IF i < s.objs[id].len THEN s.objs[id].cells[i] # Dangling ELSE s.objs[id].cells[i] = Nil
    <3>1. id \in Used(arr, pend) /\ s.objs[id].cells = objs[id].cells /\ s.objs[id].len = objs[id].len
      BY <2>4, <1>5, <1>7, <2>1
    <3>. QED
      BY <3>1, <2>4, <1>14 DEF Solid
  <2>5. Solid(s.arr, s.objs, q)
    BY <2>3, <2>4, <1>7 DEF Solid
  <2>. QED
    BY <2>2, <2>5
<1>. QED
  BY <1>13, <1>14

-----------------------------------------------------------------------------
(* Small changes.                                                          *)

(* An array is made longer.                                                *)
LEMMA AtLeastFits ==
  ASSUME Ready, NEW a \in Arrays, NEW n \in 0 .. MaxLen,
         ~ (n > arr[a].alloc /\ Hangs(arr[a].alloc, n)), NEW s, s = AtLeast(a, n)
  PROVE  LET q == IF n > arr[a].alloc THEN Outdated(a) ELSE pend IN
         /\ Fits(s.arr, s.objs, q) /\ DOMAIN s.objs = Ids
         /\ s.arr[a].len = IF n > arr[a].len THEN n ELSE arr[a].len
         /\ Solid(arr, objs, pend) /\ Agreed(arr, objs)
              => Solid(s.arr, s.objs, q) /\ Agreed(s.arr, s.objs)
<1>1. MaxLen \in Nat
  BY ArraysAssumption
<1>2. /\ arr[a].len \in Nat /\ arr[a].len <= arr[a].alloc /\ arr[a].alloc \in Nat
  BY ArrayFacts
<1>3. CASE n > arr[a].alloc
  <2>1. s = Grown(a, n)
    BY <1>3 DEF AtLeast
  <2>2. n \in 1 .. MaxLen /\ n >= arr[a].len /\ n > arr[a].len
    BY <1>1, <1>2, <1>3
  <2>3. GrownTo(a, n, s)
    BY <2>1, <2>2, <1>3, GrownFacts
  <2>4. s.arr[a].len = n /\ DOMAIN s.objs = Ids
    BY <2>3 DEF GrownTo, Ready, Fits
  <2>. QED
    BY <1>3, <2>2, <2>3, <2>4, GrownFits
<1>4. CASE ~(n > arr[a].alloc) /\ n > arr[a].len
  <2> DEFINE c == arr[a].objs
             x == [arr EXCEPT ![a].len = n]
             o == [objs EXCEPT ![c].len = n]
  <2>1. s = [arr |-> x, objs |-> o]
    BY <1>4 DEF AtLeast
  <2>2. /\ c \in Ids /\ c \in Used(arr, pend) /\ objs[c] \in Object /\ Elems(a) = objs[c]
        /\ objs[c].len \in Nat /\ objs[c].len <= arr[a].len
        /\ DOMAIN objs[c].cells = 0 .. arr[a].alloc - 1 /\ arr[a].alloc \in Nat
    BY ArrayFacts DEF Elems
  <2>3. /\ o[c] = [objs[c] EXCEPT !.len = n] /\ DOMAIN o = Ids
        /\ \A id \in Ids : id # c => o[id] = objs[id]
    BY <2>2 DEF Ready
  <2>4. o[c] \in Object /\ o[c].len = n /\ o[c].cells = objs[c].cells
    BY <2>2, <2>3, ObjectFacts
  <2>5. /\ DOMAIN x = Arrays /\ x = [b \in Arrays |-> x[b]]
        /\ x[a] = [arr[a] EXCEPT !.len = n]
        /\ \A b \in Arrays : b # a => x[b] = arr[b]
    BY DEF Ready, Fits
  <2>6. /\ x[a] \in [len : 0 .. MaxLen, alloc : Nat, objs : Ids]
        /\ x[a].len = n /\ x[a].objs = c /\ x[a].alloc = arr[a].alloc
    BY <2>5, ArrayFacts
  <2>. HIDE DEF o, x
  <2>7. Used(x, pend) = Used(arr, pend)
    BY <2>5, <2>6 DEF Used
  <2>8. \A id \in Used(arr, pend) : id \in Ids
    BY PendFacts
  <2>9. \A b \in Arrays : b # a => arr[b].objs # c /\ arr[b].objs \in Ids
    BY ArrayFacts
  <2>10. x \in [Arrays -> [len : 0 .. MaxLen, alloc : Nat, objs : Ids]]
    BY <2>5, <2>6, ArrayFacts
  <2>11. \A id \in Used(x, pend) : o[id] \in Object /\ 0 .. o[id].len - 1 \subseteq DOMAIN o[id].cells
    <3>. SUFFICES ASSUME NEW id \in Used(arr, pend)
                  PROVE  o[id] \in Object /\ 0 .. o[id].len - 1 \subseteq DOMAIN o[id].cells
      BY <2>7
    <3>1. CASE id = c
      BY <3>1, <2>2, <2>4, <1>4, <1>1
    <3>2. CASE id # c
      BY <3>2, <2>3, <2>8 DEF Ready, Fits
    <3>. QED
      BY <3>1, <3>2
  <2>12. \A b \in Arrays :
           /\ x[b].objs[1] = b
           /\ o[x[b].objs].len <= x[b].len /\ x[b].len <= x[b].alloc
           /\ DOMAIN o[x[b].objs].cells = 0 .. x[b].alloc - 1
    <3>. TAKE b \in Arrays
    <3>1. CASE b = a
      BY <3>1, <2>2, <2>4, <2>6, <1>4, <1>1, ArrayFacts
    <3>2. CASE b # a
      <4>1. x[b] = arr[b] /\ o[arr[b].objs] = objs[arr[b].objs]
        BY <3>2, <2>3, <2>5, <2>9
      <4>. QED
        BY <4>1 DEF Ready, Fits
    <3>. QED
      BY <3>1, <3>2
  <2>13. \A k \in DOMAIN pend :
           /\ pend[k].objs[1] = pend[k].a
           /\ IF pend[k].grown THEN pend[k].i < o[pend[k].objs].len
              ELSE pend[k].i < x[pend[k].a].len /\ pend[k].objs = x[pend[k].a].objs
    <3>. TAKE k \in DOMAIN pend
    <3>1. /\ pend[k].i \in Int /\ pend[k].a \in Arrays /\ pend[k].objs \in Ids
      BY PendFacts, <1>1 DEF Address0, Index
    <3>2. /\ pend[k].objs[1] = pend[k].a
          /\ IF pend[k].grown THEN pend[k].i < objs[pend[k].objs].len
             ELSE pend[k].i < arr[pend[k].a].len /\ pend[k].objs = arr[pend[k].a].objs
      BY PendFacts
    <3>3. pend[k].grown => pend[k].i < o[pend[k].objs].len
      <4>1. CASE pend[k].objs = c
        BY <4>1, <3>1, <3>2, <2>2, <2>4, <1>4, <1>2, <1>1
      <4>2. CASE pend[k].objs # c
        BY <4>2, <3>1, <3>2, <2>3
      <4>. QED
        BY <4>1, <4>2
    <3>4. ~pend[k].grown => pend[k].i < x[pend[k].a].len /\ pend[k].objs = x[pend[k].a].objs
      <4>1. CASE pend[k].a = a
        BY <4>1, <3>1, <3>2, <2>6, <1>4, <1>2, <1>1
      <4>2. CASE pend[k].a # a
        BY <4>2, <3>1, <3>2, <2>5
      <4>. QED
        BY <4>1, <4>2
    <3>. QED
      BY <3>2, <3>3, <3>4
  <2>14. Fits(x, o, pend)
    BY <2>10, <2>11, <2>12, <2>13, PendFacts DEF Fits, Address0
  <2>15. ASSUME Solid(arr, objs, pend), Agreed(arr, objs)
         PROVE  Solid(x, o, pend) /\ Agreed(x, o)
    <3>1. ASSUME NEW b \in Arrays PROVE x[b].len = o[x[b].objs].len
      <4>1. CASE b = a
        BY <4>1, <2>4, <2>6
      <4>2. CASE b # a
        <5>1. x[b] = arr[b] /\ o[arr[b].objs] = objs[arr[b].objs]
          BY <4>2, <2>3, <2>5, <2>9
        <5>. QED
          BY <5>1, <2>15 DEF Agreed
      <4>. QED
        BY <4>1, <4>2
    <3>2. ASSUME NEW i \in DOMAIN objs[c].cells
          PROVE  IF i < n THEN objs[c].cells[i] # Dangling ELSE objs[c].cells[i] = Nil
      <4>1. IF i < objs[c].len THEN objs[c].cells[i] # Dangling ELSE objs[c].cells[i] = Nil
        BY <2>15, <2>2 DEF Solid
      <4>2. i \in Int /\ objs[c].len \in Nat /\ objs[c].len <= n /\ n \in Nat
        BY <2>2, <1>4, <1>2, <1>1
      <4>3. Nil # Dangling
        BY ValuesAssumption
      <4>. QED
        BY <4>1, <4>2, <4>3
    <3>3. ASSUME NEW id \in Used(arr, pend), id # c, NEW i \in DOMAIN o[id].cells
          PROVE  IF i < o[id].len THEN o[id].cells[i] # Dangling ELSE o[id].cells[i] = Nil
      BY <3>3, <2>15, <2>3, <2>8 DEF Solid
    <3>4. Solid(x, o, pend)
      BY <3>2, <3>3, <2>4, <2>7 DEF Solid
    <3>. QED
      BY <3>1, <3>4 DEF Agreed
  <2>. QED
    BY <1>4, <2>1, <2>3, <2>6, <2>14, <2>15
<1>5. CASE ~(n > arr[a].alloc) /\ ~(n > arr[a].len)
  <2>1. s = [arr |-> arr, objs |-> objs]
    BY <1>5 DEF AtLeast
  <2>. QED
    BY <1>5, <2>1 DEF Ready
<1>. QED
  BY <1>3, <1>4, <1>5

LEMMA UsedIds ==
  ASSUME NEW x, NEW o, NEW q, Fits(x, o, q)
  PROVE  /\ \A id \in Used(x, q) : id \in Ids
         /\ \A k \in DOMAIN q : q[k] \in Address0 /\ q[k].a \in Arrays /\ q[k].objs \in Ids
<1>1. q \in Seq(Address0)
  BY DEF Fits, Address0
<1>2. \A k \in DOMAIN q : q[k] \in Address0
  BY <1>1
<1>3. \A k \in DOMAIN q : q[k].a \in Arrays /\ q[k].objs \in Ids
  BY <1>2 DEF Address0
<1>4. \A a \in Arrays : x[a].objs \in Ids
  BY DEF Fits
<1>. QED
  BY <1>2, <1>3, <1>4 DEF Used

(* Values are written.                                                     *)
LEMMA CellsFit ==
  ASSUME NEW x, NEW o, NEW q, Fits(x, o, q), DOMAIN o = Ids, o = [j \in Ids |-> o[j]],
         NEW id \in Used(x, q), NEW c \in [DOMAIN o[id].cells -> Val]
  PROVE  LET w == [o EXCEPT ![id].cells = c] IN
         /\ Fits(x, w, q) /\ w = [j \in Ids |-> w[j]]
         /\ Agreed(x, o) => Agreed(x, w)
         /\ Solid(x, o, q) /\ (\A i \in DOMAIN c : IF i < o[id].len THEN c[i] # Dangling ELSE c[i] = Nil)
              => Solid(x, w, q)
<1> DEFINE w == [o EXCEPT ![id].cells = c]
<1>1. PICK n \in 1 .. MaxSize : o[id].cells \in [0 .. n - 1 -> Val]
  BY ObjectFacts DEF Fits
<1>2. o[id] \in Object /\ o[id].len \in 0 .. MaxLen
  BY ObjectFacts DEF Fits
<1>3. \A j \in Used(x, q) : j \in Ids
  BY UsedIds
<1>4. w[id] = [o[id] EXCEPT !.cells = c] /\ \A j \in Ids : j # id => w[j] = o[j]
  BY <1>3
<1>5. w = [j \in Ids |-> w[j]]
  OBVIOUS
<1>. HIDE DEF w
<1>6. w[id] = [len |-> o[id].len, cells |-> c]
  BY <1>2, <1>4, ObjectFacts
<1>7. w[id] \in Object /\ w[id].len = o[id].len /\ w[id].cells = c /\ DOMAIN c = DOMAIN o[id].cells
  <2>1. c \in [0 .. n - 1 -> Val] /\ DOMAIN c = DOMAIN o[id].cells
    BY <1>1
  <2>. QED
    BY <2>1, <1>2, <1>6, ObjectFacts
<1>8. \A j \in Used(x, q) : w[j].len = o[j].len /\ DOMAIN w[j].cells = DOMAIN o[j].cells /\ w[j] \in Object
  BY <1>3, <1>4, <1>7 DEF Fits
<1>9. \A a \in Arrays : x[a].objs \in Used(x, q)
  BY DEF Used
<1>10. \A k \in DOMAIN q : q[k].objs \in Used(x, q)
  BY DEF Used
<1>11. Fits(x, w, q)
  BY <1>8, <1>9, <1>10 DEF Fits
<1>12. Agreed(x, o) => Agreed(x, w)
  BY <1>8, <1>9 DEF Agreed
<1>13. ASSUME Solid(x, o, q),
              \A i \in DOMAIN c : IF i < o[id].len THEN c[i] # Dangling ELSE c[i] = Nil
       PROVE  Solid(x, w, q)
  <2>. SUFFICES ASSUME NEW j \in Used(x, q), NEW k \in DOMAIN w[j].cells
                PROVE  IF k < w[j].len THEN w[j].cells[k] # Dangling ELSE w[j].cells[k] = Nil
    BY DEF Solid
  <2>1. CASE j = id
    BY <2>1, <1>7, <1>13
  <2>2. CASE j # id
    <3>1. w[j] = o[j]
      BY <2>2, <1>3, <1>4
    <3>. QED
      BY <3>1, <1>13 DEF Solid
  <2>. QED
    BY <2>1, <2>2
<1>. QED
  BY <1>5, <1>11, <1>12, <1>13 DEF w

LEMMA WriteFits ==
  ASSUME NEW x, NEW o, NEW q, Fits(x, o, q), DOMAIN o = Ids, o = [j \in Ids |-> o[j]],
         NEW id \in Used(x, q), NEW i \in DOMAIN o[id].cells, NEW v \in Val
  PROVE  LET w == [o EXCEPT ![id].cells[i] = v] IN
         /\ Fits(x, w, q)
         /\ Agreed(x, o) => Agreed(x, w)
         /\ Solid(x, o, q) /\ i < o[id].len /\ v # Dangling => Solid(x, w, q)
<1> DEFINE c == [o[id].cells EXCEPT ![i] = v]
           w == [o EXCEPT ![id].cells = c]
<1>1. PICK n \in 1 .. MaxSize : o[id].cells \in [0 .. n - 1 -> Val]
  BY ObjectFacts DEF Fits
<1>2. /\ c \in [DOMAIN o[id].cells -> Val]
      /\ c[i] = v /\ \A j \in DOMAIN c : j # i => c[j] = o[id].cells[j]
  BY <1>1
<1>3. w = [o EXCEPT ![id].cells[i] = v]
  OBVIOUS
<1>. HIDE DEF c
<1>4. /\ Fits(x, w, q)
      /\ Agreed(x, o) => Agreed(x, w)
      /\ Solid(x, o, q) /\ (\A j \in DOMAIN c : IF j < o[id].len THEN c[j] # Dangling ELSE c[j] = Nil)
           => Solid(x, w, q)
  BY <1>2, CellsFit
<1>5. ASSUME Solid(x, o, q), i < o[id].len, v # Dangling
      PROVE  \A j \in DOMAIN c : IF j < o[id].len THEN c[j] # Dangling ELSE c[j] = Nil
  BY <1>2, <1>5 DEF Solid
<1>. HIDE DEF w
<1>. QED
  BY <1>3, <1>4, <1>5

\* Elements objects that are not used do not matter.
LEMMA KeepFits ==
  ASSUME NEW x, NEW o, NEW q, NEW w, Fits(x, o, q),
         w = [id \in Ids |-> IF id \in Used(x, q) THEN o[id] ELSE Unused]
  PROVE  /\ Fits(x, w, q)
         /\ Solid(x, o, q) => Solid(x, w, q)
         /\ Agreed(x, o) => Agreed(x, w)
         /\ w \in [Ids -> Object \cup {Unused}]
         /\ \A id \in Ids : w[id] # Unused => id \in Used(x, q)
<1>1. \A id \in Used(x, q) : id \in Ids /\ w[id] = o[id] /\ o[id] \in Object
  BY UsedIds DEF Fits
<1>2. /\ \A a \in Arrays : x[a].objs \in Used(x, q)
      /\ \A k \in DOMAIN q : q[k].objs \in Used(x, q)
  BY DEF Used
<1>3. Fits(x, w, q)
  BY <1>1, <1>2 DEF Fits
<1>4. Solid(x, o, q) => Solid(x, w, q)
  BY <1>1 DEF Solid
<1>5. Agreed(x, o) => Agreed(x, w)
  BY <1>1, <1>2 DEF Agreed
<1>. QED
  BY <1>1, <1>3, <1>4, <1>5

\* Of an array, and of an address that is waiting for its value.
LEMMA OneMore ==
  ASSUME NEW x, NEW o, NEW q, NEW r \in Address0, Fits(x, o, q),
         r.objs = x[r.a].objs, r.i < x[r.a].len, ~r.grown
  PROVE  /\ Fits(x, o, Append(q, r))
         /\ Solid(x, o, q) => Solid(x, o, Append(q, r))
<1>1. q \in Seq(Address0) /\ DOMAIN q = 1 .. Len(q) /\ Len(q) \in Nat
  BY DEF Fits, Address0
<1> DEFINE p == Append(q, r)
<1>2. /\ p \in Seq(Address0) /\ DOMAIN p = 1 .. Len(q) + 1
      /\ \A k \in 1 .. Len(q) : p[k] = q[k]
      /\ p[Len(q) + 1] = r
  BY <1>1, AppendProperties
<1>3. \A k \in DOMAIN p : p[k] = r \/ (k \in DOMAIN q /\ p[k] = q[k])
  BY <1>1, <1>2
<1>. HIDE DEF p
<1>4. r.a \in Arrays
  BY DEF Address0
<1>5. \A id \in Used(x, p) : id \in Used(x, q)
  <2>. SUFFICES ASSUME NEW k \in DOMAIN p PROVE p[k].objs \in Used(x, q)
    BY DEF Used
  <2>. QED
    BY <1>3, <1>4 DEF Used
<1>6. /\ r.objs[1] = r.a
      /\ \A k \in DOMAIN q :
           /\ q[k].objs[1] = q[k].a
           /\ IF q[k].grown THEN q[k].i < o[q[k].objs].len
              ELSE q[k].i < x[q[k].a].len /\ q[k].objs = x[q[k].a].objs
  BY <1>4 DEF Fits
<1>7. \A k \in DOMAIN p :
           /\ p[k].objs[1] = p[k].a
           /\ IF p[k].grown THEN p[k].i < o[p[k].objs].len
              ELSE p[k].i < x[p[k].a].len /\ p[k].objs = x[p[k].a].objs
  <2>. TAKE k \in DOMAIN p
  <2>1. CASE p[k] = r
    BY <2>1, <1>6
  <2>2. CASE k \in DOMAIN q /\ p[k] = q[k]
    BY <2>2, <1>6
  <2>. QED
    BY <2>1, <2>2, <1>3
<1>8. Fits(x, o, p)
  BY <1>2, <1>5, <1>7 DEF Fits, Address0
<1>9. Solid(x, o, q) => Solid(x, o, p)
  BY <1>5 DEF Solid
<1>. QED
  BY <1>8, <1>9 DEF p

LEMMA OneLess ==
  ASSUME NEW x, NEW o, NEW q, q # <<>>, Fits(x, o, q)
  PROVE  /\ Fits(x, o, Front(q)) /\ Len(Front(q)) = Len(q) - 1
         /\ Solid(x, o, q) => Solid(x, o, Front(q))
         /\ Len(q) \in Nat \ {0} /\ Last(q) = q[Len(q)]
         /\ \A k \in DOMAIN Front(q) : k \in DOMAIN q /\ Front(q)[k] = q[k]
<1>1. q \in Seq(Address0) /\ DOMAIN q = 1 .. Len(q) /\ Len(q) \in Nat
  BY DEF Fits, Address0
<1>2. Len(q) # 0
  BY <1>1, EmptySeq
<1> DEFINE p == Front(q)
<1>3. p = [k \in 1 .. Len(q) - 1 |-> q[k]]
  BY <1>1 DEF Front, SubSeq
<1>4. \A k \in 1 .. Len(q) - 1 : k \in DOMAIN q
  BY <1>1
<1>5. p \in Seq(Address0) /\ Len(p) = Len(q) - 1
  <2>1. Len(q) - 1 \in Nat
    BY <1>1, <1>2
  <2>. HIDE DEF p
  <2>2. p \in [1 .. Len(q) - 1 -> Address0]
    BY <1>1, <1>3, <1>4
  <2>. QED
    BY <2>1, <2>2, LenProperties DEF Seq
<1>. HIDE DEF p
<1>6. \A k \in DOMAIN p : k \in DOMAIN q /\ p[k] = q[k]
  BY <1>3, <1>4
<1>7. \A id \in Used(x, p) : id \in Used(x, q)
  BY <1>6 DEF Used
<1>8. Fits(x, o, p)
  <2>1. \A k \in DOMAIN p :
           /\ p[k].objs[1] = p[k].a
           /\ IF p[k].grown THEN p[k].i < o[p[k].objs].len
              ELSE p[k].i < x[p[k].a].len /\ p[k].objs = x[p[k].a].objs
    BY <1>6 DEF Fits
  <2>. QED
    BY <1>5, <1>7, <2>1 DEF Fits, Address0
<1>9. Solid(x, o, q) => Solid(x, o, p)
  BY <1>7 DEF Solid
<1>. QED
  BY <1>1, <1>2, <1>5, <1>6, <1>8, <1>9 DEF p, Last

-----------------------------------------------------------------------------
(* What the invariant says, and what it takes to show it of a next state.  *)

\* Of the invariant without the string.
Core ==
  /\ TypeOK
  /\ Fits(arr, objs, pend) /\ Len(pend) <= MaxPending
  /\ \A id \in Ids : objs[id] # Unused => id \in Used(arr, pend)
  /\ lost = {} => Solid(arr, objs, pend)
  /\ Sound
  /\ GrowsInside

LEMMA CoreFacts ==
  ASSUME Core
  PROVE  /\ Ready /\ top \in Val /\ lost \subseteq {"append", "self", "native"}
         /\ objs = [id \in Ids |-> objs[id]]
         /\ lost = {} => Solid(arr, objs, pend) /\ top # Dangling
         /\ lost = {} /\ status = "run" => Agreed(arr, objs)
BY DEF Core, TypeOK, Ready, Sound, LengthsAgree, Agreed, Elems

(* A step after which the program runs on, or strtok reads other memory.   *)
LEMMA RunsOn ==
  ASSUME NEW o, Fits(arr', o, pend'), Keep(o), Len(pend') <= MaxPending,
         status' \in {"run", "wild"},
         top' \in Val, lost' \subseteq {"append", "self", "native"},
         lost' = {} => Solid(arr', o, pend') /\ Agreed(arr', o) /\ top' # Dangling
  PROVE  Core'
<1>1. /\ Fits(arr', objs', pend')
      /\ Solid(arr', o, pend') => Solid(arr', objs', pend')
      /\ Agreed(arr', o) => Agreed(arr', objs')
      /\ objs' \in [Ids -> Object \cup {Unused}]
      /\ \A id \in Ids : objs'[id] # Unused => id \in Used(arr', pend')
  BY KeepFits DEF Keep
<1>2. \A a \in Arrays : arr'[a].objs \in Used(arr', pend')
  BY DEF Used
<1>3. TypeOK'
  <2>1. \A a \in Arrays : objs'[arr'[a].objs] # Unused
                          /\ DOMAIN Elems(a)'.cells = 0 .. arr'[a].alloc - 1
    BY <1>1, <1>2, ValuesAssumption DEF Fits, Elems
  <2>. QED
    BY <1>1, <2>1 DEF TypeOK, Fits
<1>4. ASSUME lost' = {}
      PROVE  \A id \in Used(arr', pend') : \A i \in 0 .. objs'[id].len - 1 :
               objs'[id].cells[i] # Dangling
  <2>. SUFFICES ASSUME NEW id \in Used(arr', pend'), NEW i \in 0 .. objs'[id].len - 1
                PROVE  objs'[id].cells[i] # Dangling
    OBVIOUS
  <2>1. objs'[id].len \in 0 .. MaxLen /\ i \in DOMAIN objs'[id].cells
    BY <1>1, ObjectFacts DEF Fits
  <2>2. i < objs'[id].len
    BY <2>1, ArraysAssumption
  <2>. QED
    BY <1>1, <1>4, <2>1, <2>2 DEF Solid
<1>5. lost' = {} => LengthsAgree'
  BY <1>1 DEF LengthsAgree, Agreed, Elems
<1>6. Sound' /\ GrowsInside'
  BY <1>4, <1>5 DEF Sound, GrowsInside
<1>. QED
  BY <1>1, <1>3, <1>6 DEF Core

(* A step with which there is no telling what happens next.                *)
LEMMA StopsWell ==
  ASSUME Core, status = "run",
         NEW why \in {"hang", "overrun", "outside", "assert", "stale", "wild"}, Stop(why),
         lost \subseteq lost', lost' \subseteq {"append", "self", "native"},
         why = "hang" => \E a \in Arrays : arr[a].alloc = 1,
         why = "overrun" => "self" \in lost'
  PROVE  Core'
<1>1. status' = why /\ arr' = arr /\ objs' = objs /\ top' = top /\ pend' = pend
  BY DEF Stop
<1>2. TypeOK'
  BY <1>1 DEF Core, TypeOK, Elems
<1>3. lost' = {} => lost = {}
  OBVIOUS
<1>4. Sound' /\ GrowsInside'
  BY <1>1, <1>3 DEF Core, Sound, LengthsAgree, GrowsInside
<1>. QED
  BY <1>1, <1>2, <1>3, <1>4 DEF Core

\* Nothing but the operand stack and the reason to stop is another.
LEMMA StaysWell ==
  ASSUME Core, status = "run", status' = "run", UNCHANGED <<arr, objs, pend>>,
         top' \in Val, lost' = lost, lost = {} => top' # Dangling
  PROVE  Core'
BY DEF Core, TypeOK, Sound, LengthsAgree, GrowsInside, Elems

-----------------------------------------------------------------------------
(* The actions of Arrays.                                                  *)

LEMMA LoadStep ==
  ASSUME Core, NEW v \in Refs \cup {Nil}, Load(v)
  PROVE  Core'
BY StaysWell, ValuesAssumption DEF Load, Val

LEMMA IdxStep ==
  ASSUME Core, NEW a \in Arrays, NEW i \in Index \cup {-1}, Idx(a, i)
  PROVE  Core'
<1>1. status = "run" /\ i < arr[a].len /\ lost' = lost
  BY DEF Idx
<1>2. CASE i < 0
  BY <1>1, <1>2, CoreFacts, StopsWell DEF Idx
<1>3. CASE ~(i < 0)
  <2>1. top' = Elems(a).cells[i] /\ UNCHANGED <<arr, objs, pend, status>>
    BY <1>3 DEF Idx
  <2>2. /\ arr[a].objs \in Used(arr, pend) /\ Elems(a) \in Object
        /\ Elems(a).cells \in [0 .. arr[a].alloc - 1 -> Val]
        /\ arr[a].len \in Nat /\ arr[a].len <= arr[a].alloc /\ arr[a].alloc \in Nat
    BY ArrayFacts, CoreFacts
  <2>3. i \in 0 .. arr[a].alloc - 1
    BY <1>1, <1>3, <2>2, ArraysAssumption DEF Index
  <2>4. ASSUME lost = {} PROVE Elems(a).cells[i] # Dangling
    <3>1. arr[a].len = Elems(a).len /\ Solid(arr, objs, pend)
      BY <1>1, <2>4, CoreFacts DEF Agreed, Elems
    <3>. QED
      BY <1>1, <2>2, <2>3, <3>1 DEF Solid, Elems
  <2>. QED
    BY <1>1, <2>1, <2>2, <2>3, <2>4, StaysWell
<1>. QED
  BY <1>2, <1>3

LEMMA LengthStep ==
  ASSUME Core, NEW a \in Arrays, Length(a)
  PROVE  Core'
<1>1. status = "run" /\ lost' = lost
  BY DEF Length
<1>2. CASE Stop("assert")
  BY <1>1, <1>2, CoreFacts, StopsWell
<1>3. CASE top' = Nil /\ UNCHANGED <<arr, objs, pend, status>>
  BY <1>1, <1>3, StaysWell, ValuesAssumption DEF Val
<1>. QED
  BY <1>2, <1>3 DEF Length

\* The loop that grows an array ends, unless the array has size 1.
LEMMA HangsAtOne ==
  ASSUME Core, NEW a \in Arrays, NEW n \in Nat, Hangs(arr[a].alloc, n)
  PROVE  \E b \in Arrays : arr[b].alloc = 1
<1>1. arr[a].alloc \in Nat \ {0}
  BY CoreFacts, ArrayFacts, ArraysAssumption DEF MaxSize
<1>. QED
  BY <1>1, OnlyOneHangs

LEMMA IdxAStep ==
  ASSUME Core, NEW a \in Arrays, NEW i \in Index \cup {-1}, IdxA(a, i)
  PROVE  Core'
<1> DEFINE s == AtLeast(a, i + 1)
           q == IF i >= arr[a].alloc THEN Outdated(a) ELSE pend
<1>1. status = "run" /\ Len(pend) < MaxPending /\ lost' = lost
  BY DEF IdxA
<1>2. i \in Int /\ i >= -1 /\ i + 1 \in 0 .. MaxLen
  BY ArraysAssumption DEF Index
<1>3. arr[a].alloc \in Nat /\ (i >= arr[a].alloc <=> i + 1 > arr[a].alloc) /\ arr[a].len \in Nat
  BY <1>2, CoreFacts, ArrayFacts
<1>4. CASE i >= arr[a].alloc /\ Hangs(arr[a].alloc, i + 1)
  <2>1. Stop("hang")
    BY <1>4 DEF IdxA
  <2>2. \E b \in Arrays : arr[b].alloc = 1
    BY <1>2, <1>4, HangsAtOne
  <2>. QED
    BY <1>1, <2>1, <2>2, CoreFacts, StopsWell
<1>5. CASE ~(i >= arr[a].alloc /\ Hangs(arr[a].alloc, i + 1))
  <2>1. /\ arr' = s.arr /\ pend' = Append(q, Address(a, i)) /\ Keep(s.objs)
        /\ top' = top /\ status' = status
    BY <1>5 DEF IdxA
  <2>2. /\ Fits(s.arr, s.objs, q) /\ DOMAIN s.objs = Ids
        /\ s.arr[a].len = IF i + 1 > arr[a].len THEN i + 1 ELSE arr[a].len
        /\ Solid(arr, objs, pend) /\ Agreed(arr, objs)
             => Solid(s.arr, s.objs, q) /\ Agreed(s.arr, s.objs)
    BY <1>2, <1>3, <1>5, CoreFacts, AtLeastFits
  <2>3. i < s.arr[a].len /\ s.arr[a].objs \in Ids
    BY <1>2, <1>3, <2>2 DEF Fits
  <2>. HIDE DEF s, q
  <2>4. Address(a, i) = [a |-> a, i |-> i, objs |-> s.arr[a].objs, grown |-> FALSE]
    BY <2>1 DEF Address
  <2>5. Address(a, i) \in Address0
    BY <2>3, <2>4 DEF Address0
  <2>6. /\ Fits(s.arr, s.objs, pend')
        /\ Solid(s.arr, s.objs, q) => Solid(s.arr, s.objs, pend')
    BY <2>1, <2>2, <2>3, <2>4, <2>5, OneMore
  <2>7. Len(q) = Len(pend) /\ q \in Seq(Address0) /\ Len(pend) \in Nat
    BY CoreFacts, PendFacts, OutdatedFacts DEF q
  <2>8. Len(pend') <= MaxPending
    BY <1>1, <2>1, <2>5, <2>7, AppendProperties, ArraysAssumption
  <2>. QED
    BY <1>1, <2>1, <2>2, <2>6, <2>8, CoreFacts, RunsOn
<1>. QED
  BY <1>4, <1>5

\* The address that St pops.
LEMMA LastFacts ==
  ASSUME Core, status = "run", pend # <<>>, Last(pend).i >= 0
  PROVE  LET p == Last(pend) IN
         /\ p \in Address0 /\ p.objs \in Used(arr, pend) /\ p.a \in Arrays /\ p.objs \in Ids
         /\ p.i \in DOMAIN objs[p.objs].cells
         /\ lost = {} => p.i < objs[p.objs].len
         /\ p.objs[1] = p.a
         /\ ~p.grown => p.objs = arr[p.a].objs /\ p.i < arr[p.a].len
<1> DEFINE p == Last(pend)
<1>1. Fits(arr, objs, pend) /\ Ready
  BY CoreFacts DEF Ready
<1>2. Len(pend) \in DOMAIN pend /\ p = pend[Len(pend)]
  <2>1. Len(pend) \in Nat \ {0} /\ p = pend[Len(pend)]
    BY <1>1, OneLess
  <2>2. pend \in Seq(Address0)
    BY <1>1, PendFacts
  <2>. QED
    BY <2>1, <2>2
<1>3. /\ p \in Address0 /\ p.a \in Arrays /\ p.objs \in Ids /\ p.objs \in Used(arr, pend)
      /\ p.objs[1] = p.a
      /\ IF p.grown THEN p.i < objs[p.objs].len
         ELSE p.i < arr[p.a].len /\ p.objs = arr[p.a].objs
  BY <1>1, <1>2, PendFacts
<1>. HIDE DEF p
<1>4. p.i \in Int
  BY <1>3, ArraysAssumption DEF Address0, Index
<1>5. /\ objs[p.objs] \in Object /\ 0 .. objs[p.objs].len - 1 \subseteq DOMAIN objs[p.objs].cells
      /\ objs[p.objs].len \in Nat
  BY <1>1, <1>3, ObjectFacts, ArraysAssumption DEF Fits
<1>6. p.i >= 0
  BY DEF p
<1>7. CASE p.grown
  <2>1. p.i < objs[p.objs].len
    BY <1>3, <1>7
  <2>2. p.i \in 0 .. objs[p.objs].len - 1
    BY <2>1, <1>4, <1>5, <1>6
  <2>. QED
    BY <2>1, <2>2, <1>3, <1>5, <1>7 DEF p
<1>8. CASE ~p.grown
  <2>1. p.i < arr[p.a].len /\ p.objs = arr[p.a].objs
    BY <1>3, <1>8
  <2>2. /\ arr[p.a].len \in Nat /\ arr[p.a].len <= arr[p.a].alloc
        /\ arr[p.a].alloc \in Nat
        /\ Elems(p.a).cells \in [0 .. arr[p.a].alloc - 1 -> Val]
    BY <1>1, <1>3, ArrayFacts
  <2>3. p.i \in 0 .. arr[p.a].alloc - 1
    BY <2>1, <2>2, <1>4, <1>6
  <2>4. p.i \in DOMAIN objs[p.objs].cells
    BY <2>1, <2>2, <2>3 DEF Elems
  <2>5. lost = {} => p.i < objs[p.objs].len
    BY <2>1, <1>3, CoreFacts DEF Agreed
  <2>. QED
    BY <2>1, <2>4, <2>5, <1>3 DEF p
<1>. QED
  BY <1>7, <1>8

LEMMA StStep ==
  ASSUME Core, St
  PROVE  Core'
<1> DEFINE p == Last(pend)
           w == [objs EXCEPT ![p.objs].cells[p.i] = top]
<1>1. status = "run" /\ pend # <<>> /\ lost' = lost
  BY DEF St
<1>2. CASE p.i < 0
  BY <1>1, <1>2, CoreFacts, StopsWell DEF St
<1>3. CASE ~(p.i < 0)
  <2>1. pend' = Front(pend) /\ arr' = arr /\ top' = top /\ status' = status /\ Keep(w)
    BY <1>3 DEF St
  <2>2. Fits(arr, objs, pend) /\ Ready /\ top \in Val
    BY CoreFacts DEF Ready
  <2>3. p.i \in Int
    <3>1. pend \in Seq(Address0) /\ Len(pend) \in Nat \ {0} /\ p = pend[Len(pend)]
      BY <2>2, <1>1, OneLess, PendFacts
    <3>2. p \in Address0
      BY <3>1
    <3>. QED
      BY <3>2, ArraysAssumption DEF Address0, Index
  <2>4. /\ p.objs \in Used(arr, pend) /\ p.i \in DOMAIN objs[p.objs].cells
        /\ lost = {} => p.i < objs[p.objs].len
    BY <1>1, <1>3, <2>3, LastFacts
  <2>. HIDE DEF p
  <2>5. /\ Fits(arr, w, pend)
        /\ Agreed(arr, objs) => Agreed(arr, w)
        /\ Solid(arr, objs, pend) /\ p.i < objs[p.objs].len /\ top # Dangling => Solid(arr, w, pend)
    BY <2>2, <2>4, CoreFacts, WriteFits
  <2>. HIDE DEF w
  <2>6. /\ Fits(arr, w, pend') /\ Len(pend') = Len(pend) - 1 /\ Len(pend) \in Nat
        /\ Solid(arr, w, pend) => Solid(arr, w, pend')
    BY <1>1, <2>1, <2>5, OneLess
  <2>7. Len(pend') <= MaxPending
    BY <2>6, ArraysAssumption DEF Core
  <2>. QED
    BY <1>1, <2>1, <2>2, <2>4, <2>5, <2>6, <2>7, CoreFacts, RunsOn
<1>. QED
  BY <1>2, <1>3

LEMMA AddStep ==
  ASSUME Core, NEW a \in Arrays, NEW v \in Refs \cup {Nil}, Add(a, v)
  PROVE  Core'
<1> DEFINE i == arr[a].len
           s == AtLeast(a, i + 1)
           q == IF i >= arr[a].alloc THEN Outdated(a) ELSE pend
<1>1. status = "run" /\ i < MaxLen
  BY DEF Add
<1>2. i \in Nat /\ i + 1 \in 0 .. MaxLen /\ arr[a].alloc \in Nat
      /\ (i >= arr[a].alloc <=> i + 1 > arr[a].alloc)
  BY <1>1, CoreFacts, ArrayFacts, ArraysAssumption
<1>3. CASE i >= arr[a].alloc /\ Hangs(arr[a].alloc, i + 1)
  <2>1. Stop("hang") /\ lost' = lost
    BY <1>3 DEF Add
  <2>2. \E b \in Arrays : arr[b].alloc = 1
    BY <1>2, <1>3, HangsAtOne
  <2>. QED
    BY <1>1, <2>1, <2>2, CoreFacts, StopsWell
<1>4. CASE ~(i >= arr[a].alloc /\ Hangs(arr[a].alloc, i + 1))
  <2>1. arr' = s.arr /\ pend' = q /\ top' = top /\ status' = status
    BY <1>4 DEF Add
  <2>2. PICK moved \in BOOLEAN :
          /\ Keep([s.objs EXCEPT ![s.arr[a].objs].cells[i] = IF moved THEN Dangling ELSE v])
          /\ lost' = IF moved THEN lost \cup {"native"} ELSE lost
    BY <1>4 DEF Add
  <2> DEFINE u == IF moved THEN Dangling ELSE v
             w == [s.objs EXCEPT ![s.arr[a].objs].cells[i] = u]
  <2>3. Keep(w)
    BY <2>2
  <2>4. /\ Fits(s.arr, s.objs, q) /\ DOMAIN s.objs = Ids
        /\ s.arr[a].len = i + 1
        /\ Solid(arr, objs, pend) /\ Agreed(arr, objs)
             => Solid(s.arr, s.objs, q) /\ Agreed(s.arr, s.objs)
        /\ s.objs = [id \in Ids |-> s.objs[id]]
    <3>1. s.objs = [id \in Ids |-> s.objs[id]]
      BY CoreFacts DEF AtLeast, Grown
    <3>2. ~(i + 1 > arr[a].alloc /\ Hangs(arr[a].alloc, i + 1)) /\ Ready
      BY <1>2, <1>4, CoreFacts
    <3>3. q = IF i + 1 > arr[a].alloc THEN Outdated(a) ELSE pend
      BY <1>2
    <3>. HIDE DEF q
    <3>. QED
      BY <1>2, <3>1, <3>2, <3>3, AtLeastFits
  <2>. HIDE DEF s, q
  <2>5. /\ s.arr[a].objs \in Used(s.arr, q)
        /\ DOMAIN s.objs[s.arr[a].objs].cells = 0 .. s.arr[a].alloc - 1
        /\ s.arr[a].len <= s.arr[a].alloc /\ s.arr[a].alloc \in Nat
    BY <2>4 DEF Fits, Used
  <2>6. i \in DOMAIN s.objs[s.arr[a].objs].cells
    BY <1>2, <2>4, <2>5
  <2>7. u \in Val
    BY DEF Val
  <2>. HIDE DEF u, i
  <2>8. /\ Fits(s.arr, w, q)
        /\ Agreed(s.arr, s.objs) => Agreed(s.arr, w)
        /\ Solid(s.arr, s.objs, q) /\ i < s.objs[s.arr[a].objs].len /\ u # Dangling
             => Solid(s.arr, w, q)
    BY <2>4, <2>5, <2>6, <2>7, WriteFits
  <2>. HIDE DEF w
  <2>9. Len(pend') <= MaxPending
    BY <2>1, CoreFacts, OutdatedFacts DEF q, Ready
  <2>10. ASSUME lost' = {} PROVE Solid(s.arr, w, q) /\ Agreed(s.arr, w) /\ top # Dangling
    <3>1. lost = {} /\ ~moved
      BY <2>2, <2>10
    <3>2. Solid(s.arr, s.objs, q) /\ Agreed(s.arr, s.objs) /\ top # Dangling
      BY <3>1, <1>1, <2>4, CoreFacts
    <3>3. s.objs[s.arr[a].objs].len = i + 1
      BY <2>4, <3>2 DEF Agreed
    <3>4. u # Dangling
      BY <3>1, ValuesAssumption DEF u
    <3>5. i < s.objs[s.arr[a].objs].len
      BY <3>3, <1>2 DEF i
    <3>. QED
      BY <3>2, <3>4, <3>5, <2>8
  <2>11. lost' \subseteq {"append", "self", "native"}
    BY <2>2, CoreFacts
  <2>. QED
    BY <1>1, <2>1, <2>3, <2>8, <2>9, <2>10, <2>11, CoreFacts, RunsOn
<1>. QED
  BY <1>3, <1>4

-----------------------------------------------------------------------------
(* append: first the array gets its new length, then the elements.         *)

LEMMA GrownWell ==
  ASSUME Ready, NEW a \in Arrays, NEW n \in 1 .. MaxLen, n >= arr[a].len,
         n > arr[a].alloc, ~Hangs(arr[a].alloc, n), NEW s, s = Grown(a, n)
  PROVE  /\ Fits(s.arr, s.objs, Outdated(a)) /\ s.objs = [id \in Ids |-> s.objs[id]]
         /\ s.arr[a].len = n /\ s.arr[a].alloc \in Nat /\ n <= s.arr[a].alloc
         /\ \A c \in Arrays \ {a} : s.arr[c] = arr[c]
         /\ Solid(arr, objs, pend) /\ Agreed(arr, objs)
              => Solid(s.arr, s.objs, Outdated(a)) /\ Agreed(s.arr, s.objs)
<1>1. GrownTo(a, n, s)
  BY GrownFacts
<1>2. NewSize(arr[a].alloc, n) \in Nat /\ NewSize(arr[a].alloc, n) >= n
  BY <1>1, ArraysAssumption DEF GrownTo, MaxSize
<1>3. /\ s.arr[a] = [len |-> n, alloc |-> NewSize(arr[a].alloc, n), objs |-> Fresh(a)]
      /\ \A c \in Arrays \ {a} : s.arr[c] = arr[c]
      /\ s.objs = [id \in Ids |-> s.objs[id]]
  BY <1>1 DEF GrownTo, Ready, Fits
<1>. QED
  BY <1>1, <1>2, <1>3, GrownFits

\* The array a once append has made it n long.
Extended(a, n) ==
  IF n > arr[a].alloc THEN Grown(a, n)
  ELSE [arr |-> [arr EXCEPT ![a].len = n], objs |-> objs]

LEMMA ExtendedFits ==
  ASSUME Core, status = "run", NEW a \in Arrays, NEW b \in Arrays,
         NEW new, new = arr[a].len + arr[b].len, new <= MaxLen,
         ~ (new > arr[a].alloc /\ Hangs(arr[a].alloc, new)),
         NEW s, s = Extended(a, new), NEW q, q = IF new > arr[a].alloc THEN Outdated(a) ELSE pend
  PROVE  /\ Fits(s.arr, s.objs, q) /\ s.objs = [id \in Ids |-> s.objs[id]]
         /\ s.arr[a].len = new /\ s.arr[a].alloc \in Nat /\ new <= s.arr[a].alloc
         /\ \A c \in Arrays \ {a} : s.arr[c] = arr[c]
         /\ lost = {} /\ (new > arr[a].alloc \/ arr[b].len = 0)
              => Solid(s.arr, s.objs, q) /\ Agreed(s.arr, s.objs)
<1>1. /\ arr[a].len \in Nat /\ arr[a].len <= arr[a].alloc /\ arr[a].alloc \in 1 .. MaxSize
      /\ arr[b].len \in Nat /\ MaxLen \in Nat /\ Ready
  BY CoreFacts, ArrayFacts, ArraysAssumption
<1>2. CASE new > arr[a].alloc
  <2>1. new \in 1 .. MaxLen /\ new >= arr[a].len /\ s = Grown(a, new)
    BY <1>1, <1>2 DEF Extended
  <2>. QED
    BY <1>1, <1>2, <2>1, GrownWell, CoreFacts
<1>3. CASE ~(new > arr[a].alloc)
  <2> DEFINE x == [arr EXCEPT ![a].len = new]
  <2>1. s = [arr |-> x, objs |-> objs]
    BY <1>3 DEF Extended
  <2>2. /\ DOMAIN x = Arrays /\ x = [c \in Arrays |-> x[c]]
        /\ x[a] = [arr[a] EXCEPT !.len = new]
        /\ \A c \in Arrays \ {a} : x[c] = arr[c]
    BY <1>1 DEF Ready, Fits
  <2>3. /\ x[a] \in [len : 0 .. MaxLen, alloc : Nat, objs : Ids]
        /\ x[a].len = new /\ x[a].objs = arr[a].objs /\ x[a].alloc = arr[a].alloc
    <3>1. arr[a] \in [len : 0 .. MaxLen, alloc : Nat, objs : Ids] /\ new \in 0 .. MaxLen
      BY <1>1, ArrayFacts
    <3>. HIDE DEF x
    <3>. QED
      BY <3>1, <2>2
  <2>4. new = arr[a].len => x = arr
    BY <1>1, ArrayFacts DEF Ready, Fits
  <2>. HIDE DEF x
  <2>5. x \in [Arrays -> [len : 0 .. MaxLen, alloc : Nat, objs : Ids]]
    BY <2>2, <2>3, <1>1, ArrayFacts
  <2>6. Used(x, pend) = Used(arr, pend)
    BY <2>2, <2>3 DEF Used
  <2>7. \A c \in Arrays :
           /\ x[c].objs[1] = c
           /\ objs[x[c].objs].len <= x[c].len /\ x[c].len <= x[c].alloc
           /\ DOMAIN objs[x[c].objs].cells = 0 .. x[c].alloc - 1
    <3>. TAKE c \in Arrays
    <3>1. CASE c = a
      BY <3>1, <2>3, <1>1, <1>3, ArrayFacts DEF Elems
    <3>2. CASE c # a
      BY <3>2, <2>2, <1>1 DEF Ready, Fits
    <3>. QED
      BY <3>1, <3>2
  <2>8. \A k \in DOMAIN pend :
           /\ pend[k].objs[1] = pend[k].a
           /\ IF pend[k].grown THEN pend[k].i < objs[pend[k].objs].len
              ELSE pend[k].i < x[pend[k].a].len /\ pend[k].objs = x[pend[k].a].objs
    <3>. TAKE k \in DOMAIN pend
    <3>1. /\ pend[k].i \in Int /\ pend[k].a \in Arrays
          /\ pend[k].objs[1] = pend[k].a
          /\ IF pend[k].grown THEN pend[k].i < objs[pend[k].objs].len
             ELSE pend[k].i < arr[pend[k].a].len /\ pend[k].objs = arr[pend[k].a].objs
      BY <1>1, PendFacts DEF Address0, Index
    <3>2. CASE pend[k].a = a
      BY <3>1, <3>2, <2>3, <1>1
    <3>3. CASE pend[k].a # a
      BY <3>1, <3>3, <2>2
    <3>. QED
      BY <3>2, <3>3
  <2>9. Fits(x, objs, pend)
    BY <2>5, <2>6, <2>7, <2>8, <1>1 DEF Ready, Fits
  <2>10. arr[b].len = 0 => x = arr
    BY <2>4, <1>1
  <2>11. lost = {} /\ arr[b].len = 0 => Solid(x, objs, pend) /\ Agreed(x, objs)
    BY <2>10, CoreFacts
  <2>12. s.arr = x /\ s.objs = objs /\ objs = [id \in Ids |-> objs[id]]
    BY <2>1, CoreFacts
  <2>13. x[a].alloc \in Nat /\ new <= x[a].alloc
    BY <2>3, <1>1, <1>3
  <2>. QED
    BY <1>3, <2>2, <2>3, <2>9, <2>11, <2>12, <2>13
<1>. QED
  BY <1>2, <1>3

\* The elements after append.
Putting(s, a, old, b) ==
  LET src == s.objs[s.arr[b].objs].cells
      n   == s.arr[b].len
      at(j) == IF a = b THEN src[j % old] ELSE src[j]
      is  == s.objs[s.arr[a].objs].cells
  IN [i \in DOMAIN is |-> IF old <= i /\ i < old + n THEN at(i - old) ELSE is[i]]

LEMMA PutFits ==
  ASSUME NEW s, NEW q, NEW a \in Arrays, NEW b \in Arrays,
         Fits(s.arr, s.objs, q), s.objs = [id \in Ids |-> s.objs[id]],
         NEW old \in Nat, old <= s.arr[a].len, a = b /\ old = 0 => s.arr[b].len = 0
  PROVE  /\ Fits(s.arr, Put(s, a, old, b), q)
         /\ Solid(s.arr, s.objs, q) /\ Agreed(s.arr, s.objs)
              /\ (a = b => old = 0) /\ (a # b => s.arr[a].len = old + s.arr[b].len)
              => Solid(s.arr, Put(s, a, old, b), q) /\ Agreed(s.arr, Put(s, a, old, b))
<1> DEFINE id == s.arr[a].objs
           is == s.objs[id].cells
           src == s.objs[s.arr[b].objs].cells
           n == s.arr[b].len
           c == Putting(s, a, old, b)
           w == [s.objs EXCEPT ![id].cells = c]
           new(i) == IF a = b THEN src[(i - old) % old] ELSE src[i - old]
<1>1. Put(s, a, old, b) = w
  BY DEF Put, Putting
<1>2. /\ \A d \in Arrays : /\ s.arr[d].objs \in Used(s.arr, q) /\ s.arr[d].objs \in Ids
                           /\ s.arr[d].len \in 0 .. MaxLen
                           /\ s.arr[d].len <= s.arr[d].alloc /\ s.arr[d].alloc \in Nat
                           /\ s.objs[s.arr[d].objs] \in Object
                           /\ DOMAIN s.objs[s.arr[d].objs].cells = 0 .. s.arr[d].alloc - 1
      /\ MaxLen \in Nat
  BY UsedIds, ArraysAssumption DEF Fits, Used
<1>3. \A d \in Arrays : \A i \in 0 .. s.arr[d].len - 1 :
        i \in DOMAIN s.objs[s.arr[d].objs].cells /\ s.objs[s.arr[d].objs].cells[i] \in Val
  <2>. TAKE d \in Arrays
  <2>. TAKE i \in 0 .. s.arr[d].len - 1
  <2>1. i \in DOMAIN s.objs[s.arr[d].objs].cells
    <3>1. /\ DOMAIN s.objs[s.arr[d].objs].cells = 0 .. s.arr[d].alloc - 1
          /\ s.arr[d].len \in Nat /\ s.arr[d].len <= s.arr[d].alloc /\ s.arr[d].alloc \in Nat
      BY <1>2
    <3>2. i \in 0 .. s.arr[d].alloc - 1
      BY <3>1
    <3>. QED
      BY <3>1, <3>2
  <2>2. PICK m \in 1 .. MaxSize : s.objs[s.arr[d].objs].cells \in [0 .. m - 1 -> Val]
    BY <1>2, ObjectFacts
  <2>. QED
    BY <2>1, <2>2
<1>4. ASSUME NEW i \in DOMAIN is, old <= i, i < old + n
      PROVE  IF a = b THEN old > 0 /\ (i - old) % old \in 0 .. s.arr[b].len - 1
             ELSE i - old \in 0 .. s.arr[b].len - 1
  <2>1. i \in Int /\ n \in Nat
    BY <1>2
  <2>2. a = b => old > 0
    BY <2>1, <1>4
  <2>3. a = b => (i - old) % old \in 0 .. old - 1
    BY <2>1, <2>2, <1>4
  <2>. QED
    BY <1>2, <1>4, <2>1, <2>2, <2>3
<1>5. PICK m \in 1 .. MaxSize : is \in [0 .. m - 1 -> Val]
  BY <1>2, ObjectFacts
<1>6. c = [i \in DOMAIN is |-> IF old <= i /\ i < old + n THEN new(i) ELSE is[i]]
  BY DEF Putting
<1>7. ASSUME NEW i \in DOMAIN is, old <= i, i < old + n
      PROVE  new(i) \in Val
  BY <1>3, <1>4, <1>7
<1>8. c \in [DOMAIN is -> Val]
  <2>. HIDE DEF c, new, n
  <2>. QED
    BY <1>5, <1>6, <1>7
<1>9. id \in Used(s.arr, q) /\ DOMAIN s.objs = Ids
  BY <1>2
<1>10. /\ Fits(s.arr, w, q)
       /\ Agreed(s.arr, s.objs) => Agreed(s.arr, w)
       /\ Solid(s.arr, s.objs, q)
            /\ (\A i \in DOMAIN c : IF i < s.objs[id].len THEN c[i] # Dangling ELSE c[i] = Nil)
              => Solid(s.arr, w, q)
  <2>. HIDE DEF c, id, is
  <2>1. c \in [DOMAIN s.objs[id].cells -> Val]
    BY <1>8 DEF is
  <2>. QED
    BY <1>9, <2>1, CellsFit
<1>11. ASSUME Solid(s.arr, s.objs, q), Agreed(s.arr, s.objs),
              a = b => old = 0, a # b => s.arr[a].len = old + s.arr[b].len,
              NEW i \in DOMAIN c
       PROVE  IF i < s.objs[id].len THEN c[i] # Dangling ELSE c[i] = Nil
  <2>1. /\ i \in DOMAIN is /\ s.objs[id].len = s.arr[a].len
        /\ IF i < s.objs[id].len THEN is[i] # Dangling ELSE is[i] = Nil
    BY <1>6, <1>9, <1>11 DEF Solid, Agreed
  <2>2. CASE old <= i /\ i < old + n
    <3>1. a # b /\ i - old \in 0 .. s.arr[b].len - 1
      BY <1>4, <1>11, <2>1, <2>2
    <3>2. c[i] = src[i - old]
      BY <1>6, <2>1, <2>2, <3>1
    <3>3. i - old < s.objs[s.arr[b].objs].len /\ i - old \in DOMAIN src
      <4>1. s.objs[s.arr[b].objs].len = s.arr[b].len /\ s.arr[b].len \in Nat
        BY <1>2, <1>11 DEF Agreed
      <4>2. i - old \in DOMAIN src
        BY <1>3, <3>1
      <4>3. i - old < s.arr[b].len
        BY <4>1, <3>1
      <4>. QED
        BY <4>1, <4>2, <4>3
    <3>4. src[i - old] # Dangling
      BY <1>2, <1>11, <3>3 DEF Solid
    <3>5. i < s.objs[id].len
      BY <1>2, <1>11, <2>1, <2>2, <3>1
    <3>. QED
      BY <3>2, <3>4, <3>5
  <2>3. CASE ~(old <= i /\ i < old + n)
    BY <1>6, <2>1, <2>3
  <2>. QED
    BY <2>2, <2>3
<1>. QED
  <2>. HIDE DEF id, is, w, c
  <2>. QED
    BY <1>1, <1>10, <1>11

LEMMA AppendToStep ==
  ASSUME Core, NEW a \in Arrays, NEW b \in Arrays, AppendTo(a, b)
  PROVE  Core'
<1> DEFINE old == arr[a].len
           new == old + arr[b].len
           grow == new > arr[a].alloc
           s == Extended(a, new)
           q == IF grow THEN Outdated(a) ELSE pend
<1>1. /\ status = "run" /\ new <= MaxLen
      /\ lost' = lost \cup (IF a = b /\ old > 0 THEN {"self"} ELSE {})
                      \cup (IF ~grow /\ arr[b].len > 0 THEN {"append"} ELSE {})
      /\ IF grow /\ Hangs(arr[a].alloc, new) THEN Stop("hang")
         ELSE IF old + s.arr[b].len > s.arr[a].alloc THEN Stop("overrun")
         ELSE /\ arr' = s.arr
              /\ pend' = q
              /\ Keep(Put(s, a, old, b))
              /\ top' = Nil /\ UNCHANGED status
  BY DEF AppendTo, Extended
<1>2. old \in Nat /\ arr[b].len \in Nat /\ new \in Nat /\ arr[a].alloc \in 1 .. MaxSize
  BY CoreFacts, ArrayFacts
<1>3. lost \subseteq lost' /\ lost' \subseteq {"append", "self", "native"}
  BY <1>1, CoreFacts
<1>4. CASE grow /\ Hangs(arr[a].alloc, new)
  <2>1. \E c \in Arrays : arr[c].alloc = 1
    BY <1>2, <1>4, HangsAtOne
  <2>. HIDE DEF s
  <2>. QED
    BY <1>1, <1>3, <1>4, <2>1, StopsWell
<1>5. ASSUME ~(grow /\ Hangs(arr[a].alloc, new))
      PROVE  /\ Fits(s.arr, s.objs, q) /\ s.objs = [id \in Ids |-> s.objs[id]]
             /\ s.arr[a].len = new /\ s.arr[a].alloc \in Nat /\ new <= s.arr[a].alloc
             /\ \A c \in Arrays \ {a} : s.arr[c] = arr[c]
             /\ lost = {} /\ (grow \/ arr[b].len = 0)
                  => Solid(s.arr, s.objs, q) /\ Agreed(s.arr, s.objs)
  <2>1. s = Extended(a, new) /\ q = IF new > arr[a].alloc THEN Outdated(a) ELSE pend
    OBVIOUS
  <2>2. new <= MaxLen /\ new = arr[a].len + arr[b].len /\ status = "run"
    BY <1>1
  <2>3. ~(new > arr[a].alloc /\ Hangs(arr[a].alloc, new))
    BY <1>5
  <2>. HIDE DEF s, q, new
  <2>. QED
    BY <2>1, <2>2, <2>3, ExtendedFits
<1>. HIDE DEF s, q
<1>6. CASE ~(grow /\ Hangs(arr[a].alloc, new)) /\ old + s.arr[b].len > s.arr[a].alloc
  <2>1. a = b /\ old > 0
    BY <1>2, <1>5, <1>6
  <2>2. "self" \in lost'
    BY <1>1, <2>1
  <2>. QED
    BY <1>1, <1>3, <1>6, <2>2, StopsWell
<1>7. CASE ~(grow /\ Hangs(arr[a].alloc, new)) /\ ~(old + s.arr[b].len > s.arr[a].alloc)
  <2> DEFINE w == Put(s, a, old, b)
  <2>1. arr' = s.arr /\ pend' = q /\ Keep(w) /\ top' = Nil /\ status' = status
    BY <1>1, <1>7
  <2>2. old <= s.arr[a].len /\ (a = b /\ old = 0 => s.arr[b].len = 0)
        /\ (a # b => s.arr[a].len = old + s.arr[b].len)
    BY <1>2, <1>5, <1>7
  <2>. HIDE DEF old, new, grow, w
  <2>3. /\ Fits(s.arr, w, q)
        /\ Solid(s.arr, s.objs, q) /\ Agreed(s.arr, s.objs) /\ (a = b => old = 0)
              => Solid(s.arr, w, q) /\ Agreed(s.arr, w)
    BY <1>2, <1>5, <1>7, <2>2, PutFits DEF w
  <2>4. Len(pend') <= MaxPending
    BY <2>1, CoreFacts, OutdatedFacts DEF q, Ready
  <2>5. ASSUME lost' = {} PROVE Solid(s.arr, w, q) /\ Agreed(s.arr, w) /\ top' # Dangling
    <3>1. lost = {} /\ (a = b => old = 0) /\ (grow \/ arr[b].len = 0)
      BY <1>1, <1>2, <2>5
    <3>. QED
      BY <1>5, <1>7, <2>1, <2>3, <3>1, ValuesAssumption
  <2>6. top' \in Val
    BY <2>1 DEF Val
  <2>. QED
    BY <1>1, <1>3, <2>1, <2>3, <2>4, <2>5, <2>6, RunsOn
<1>. QED
  BY <1>4, <1>6, <1>7

-----------------------------------------------------------------------------
(* A collection.                                                           *)

LEMMA VisitedFits ==
  ASSUME Ready
  PROVE  /\ Fits(arr, VisitedAll, pend)
         /\ \A id \in Used(arr, pend) :
              /\ VisitedAll[id].len = objs[id].len
              /\ DOMAIN VisitedAll[id].cells = DOMAIN objs[id].cells
              /\ \A i \in DOMAIN objs[id].cells :
                   VisitedAll[id].cells[i] = objs[id].cells[i]
                   \/ (i >= objs[id].len /\ objs[id].cells[i] \in Refs)
         /\ Solid(arr, objs, pend) => Solid(arr, VisitedAll, pend)
         /\ Agreed(arr, objs) => Agreed(arr, VisitedAll)
         /\ VisitedAll = [id \in Ids |-> IF id \in Used(arr, pend) THEN VisitedAll[id] ELSE Unused]
<1>1. Fits(arr, objs, pend) /\ \A id \in Used(arr, pend) : id \in Ids /\ objs[id] \in Object /\ objs[id] # Unused
  BY PendFacts, ObjectFacts DEF Ready, Fits
<1> DEFINE cells(o) == [i \in DOMAIN o.cells |->
                          IF i >= o.len /\ o.cells[i] \in Refs THEN Dangling ELSE o.cells[i]]
<1>2. \A id \in Used(arr, pend) : VisitedAll[id] = [objs[id] EXCEPT !.cells = cells(objs[id])]
  BY <1>1 DEF VisitedAll, Visited
<1>3. ASSUME NEW o \in Object
      PROVE  [o EXCEPT !.cells = cells(o)] \in Object
             /\ [o EXCEPT !.cells = cells(o)].len = o.len
             /\ [o EXCEPT !.cells = cells(o)].cells = cells(o)
  <2>1. PICK n \in 1 .. MaxSize : o.cells \in [0 .. n - 1 -> Val]
    BY ObjectFacts
  <2>2. cells(o) \in [0 .. n - 1 -> Val]
    BY <2>1 DEF Val
  <2>. HIDE DEF cells
  <2>3. o = [len |-> o.len, cells |-> o.cells] /\ o.len \in 0 .. MaxLen
    BY ObjectFacts
  <2>4. [o EXCEPT !.cells = cells(o)] = [len |-> o.len, cells |-> cells(o)]
    BY <2>3
  <2>. QED
    BY <2>2, <2>3, <2>4, ObjectFacts
<1>4. \A id \in Used(arr, pend) :
        /\ VisitedAll[id] \in Object /\ VisitedAll[id].len = objs[id].len
        /\ VisitedAll[id].cells = cells(objs[id])
  <2>. HIDE DEF cells
  <2>. QED
    BY <1>1, <1>2, <1>3
<1>5. \A id \in Used(arr, pend) :
        /\ DOMAIN VisitedAll[id].cells = DOMAIN objs[id].cells
        /\ \A i \in DOMAIN objs[id].cells :
             VisitedAll[id].cells[i] = objs[id].cells[i]
             \/ (i >= objs[id].len /\ objs[id].cells[i] \in Refs)
  BY <1>4
<1>. HIDE DEF cells
<1>6. \A a \in Arrays : arr[a].objs \in Used(arr, pend)
  BY DEF Used
<1>7. \A k \in DOMAIN pend : pend[k].objs \in Used(arr, pend)
  BY DEF Used
<1>8. Fits(arr, VisitedAll, pend)
  BY <1>1, <1>4, <1>5, <1>6, <1>7 DEF Fits
<1>9. ASSUME Solid(arr, objs, pend) PROVE Solid(arr, VisitedAll, pend)
  <2>. SUFFICES ASSUME NEW id \in Used(arr, pend), NEW i \in DOMAIN objs[id].cells
                PROVE  IF i < objs[id].len THEN VisitedAll[id].cells[i] # Dangling
                       ELSE VisitedAll[id].cells[i] = Nil
    BY <1>4, <1>5 DEF Solid
  <2>1. IF i < objs[id].len THEN objs[id].cells[i] # Dangling ELSE objs[id].cells[i] = Nil
    BY <1>9 DEF Solid
  <2>2. i \in Int /\ objs[id].len \in Int
    <3>1. objs[id].len \in 0 .. MaxLen /\ \E n \in 1 .. MaxSize : objs[id].cells \in [0 .. n - 1 -> Val]
      BY <1>1, ObjectFacts
    <3>. QED
      BY <3>1, ArraysAssumption
  <2>. QED
    BY <2>1, <2>2, <1>5, ValuesAssumption
<1>10. Agreed(arr, objs) => Agreed(arr, VisitedAll)
  BY <1>4, <1>6 DEF Agreed
<1>11. VisitedAll = [id \in Ids |-> IF id \in Used(arr, pend) THEN VisitedAll[id] ELSE Unused]
  <2>1. \A id \in Ids : id \notin Used(arr, pend) => VisitedAll[id] = Unused
    BY DEF VisitedAll, Ready
  <2>2. VisitedAll = [id \in Ids |-> VisitedAll[id]]
    BY DEF VisitedAll
  <2>. QED
    BY <2>1, <2>2
<1>. QED
  BY <1>4, <1>5, <1>8, <1>9, <1>10, <1>11

LEMMA CollectedWell ==
  ASSUME Core, status = "run", status' \in {"run", "wild"}, objs' = VisitedAll,
         UNCHANGED <<arr, top, pend, lost>>
  PROVE  Core'
<1>1. /\ Fits(arr, VisitedAll, pend) /\ Keep(VisitedAll)
      /\ Solid(arr, objs, pend) => Solid(arr, VisitedAll, pend)
      /\ Agreed(arr, objs) => Agreed(arr, VisitedAll)
  BY CoreFacts, VisitedFits DEF Keep
<1>2. Len(pend') <= MaxPending
  BY DEF Core
<1>. QED
  BY <1>1, <1>2, CoreFacts, RunsOn

-----------------------------------------------------------------------------
(* Strings.                                                                *)

LEMMA NewArrayFits ==
  ASSUME Core, NEW a \in Arrays, pend = <<>>,
         NEW x, x = [arr EXCEPT ![a] = [len |-> 0, alloc |-> InitSize, objs |-> Fresh(a)]],
         NEW o, o = [objs EXCEPT ![Fresh(a)] =
                       [len |-> 0, cells |-> [i \in 0 .. InitSize - 1 |-> Nil]]]
  PROVE  /\ Fits(x, o, pend) /\ Outdated(a) = pend
         /\ Solid(arr, objs, pend) => Solid(x, o, pend)
         /\ Agreed(arr, objs) => Agreed(x, o)
<1> DEFINE F == Fresh(a)
           cells == [i \in 0 .. InitSize - 1 |-> Nil]
           new == [len |-> 0, cells |-> cells]
<1>1. /\ F \in Ids /\ F[1] = a /\ F \notin Used(arr, pend)
      /\ objs = [id \in Ids |-> objs[id]]
      /\ InitSize \in Nat /\ InitSize >= 1 /\ MaxLen \in Nat /\ InitSize \in 1 .. MaxSize
  BY FreshFacts, CoreFacts, ArraysAssumption DEF MaxSize
<1>2. new \in Object /\ new.len = 0 /\ new.cells = cells
  <2>1. cells \in [0 .. InitSize - 1 -> Val]
    BY DEF Val
  <2>2. InitSize \in 1 .. MaxSize /\ 0 \in 0 .. MaxLen
    BY <1>1
  <2>. HIDE DEF cells
  <2>3. [len |-> 0, cells |-> cells] \in Object
    BY <2>1, <2>2, ObjectFacts
  <2>. QED
    BY <2>3
<1>. HIDE DEF F, new
<1>3. o[F] = new /\ \A id \in Ids : id # F => o[id] = objs[id]
  BY <1>1 DEF F, new
<1>4. /\ x[a] = [len |-> 0, alloc |-> InitSize, objs |-> F]
      /\ \A b \in Arrays : b # a => x[b] = arr[b]
      /\ DOMAIN x = Arrays /\ x = [b \in Arrays |-> x[b]]
  BY CoreFacts DEF F, Ready, Fits
<1>5. x \in [Arrays -> [len : 0 .. MaxLen, alloc : Nat, objs : Ids]]
  <2>1. \A b \in Arrays : x[b] \in [len : 0 .. MaxLen, alloc : Nat, objs : Ids]
    BY <1>1, <1>4, CoreFacts, ArrayFacts
  <2>. QED
    BY <2>1, <1>4
<1>6. DOMAIN pend = {} /\ pend \in Seq(Address0)
  BY CoreFacts, PendFacts
<1>7. /\ \A id \in Used(x, pend) : id = F \/ (id \in Used(arr, pend) /\ id \in Ids /\ id # F)
      /\ \A b \in Arrays : b # a => arr[b].objs \in Used(arr, pend) /\ o[arr[b].objs] = objs[arr[b].objs]
  <2>1. \A b \in Arrays : b # a => /\ x[b].objs = arr[b].objs
                                   /\ arr[b].objs \in Used(arr, pend) /\ arr[b].objs \in Ids
    BY <1>4, CoreFacts, ArrayFacts
  <2>2. x[a].objs = F
    BY <1>4
  <2>3. \A id \in Used(x, pend) : \E b \in Arrays : id = x[b].objs
    BY <1>6 DEF Used
  <2>4. \A b \in Arrays : b # a => arr[b].objs # F
    BY <2>1, <1>1
  <2>5. ASSUME NEW id \in Used(x, pend), id # F
        PROVE  id \in Used(arr, pend) /\ id \in Ids
    <3>1. PICK b \in Arrays : id = x[b].objs
      BY <2>3
    <3>2. b # a
      BY <2>2, <2>5, <3>1
    <3>. QED
      BY <2>1, <3>1, <3>2
  <2>. QED
    BY <2>1, <2>4, <2>5, <1>3
<1>8. \A id \in Used(x, pend) : o[id] \in Object /\ 0 .. o[id].len - 1 \subseteq DOMAIN o[id].cells
  <2>. TAKE id \in Used(x, pend)
  <2>1. CASE id = F
    <3>1. 0 .. new.len - 1 = {}
      BY <1>2
    <3>. QED
      BY <2>1, <3>1, <1>2, <1>3
  <2>2. CASE id # F
    BY <2>2, <1>3, <1>7, CoreFacts DEF Ready, Fits
  <2>. QED
    BY <2>1, <2>2
<1>9. \A b \in Arrays :
        /\ x[b].objs[1] = b
        /\ o[x[b].objs].len <= x[b].len /\ x[b].len <= x[b].alloc
        /\ DOMAIN o[x[b].objs].cells = 0 .. x[b].alloc - 1
  <2>. TAKE b \in Arrays
  <2>1. CASE b = a
    <3>1. x[b] = [len |-> 0, alloc |-> InitSize, objs |-> F] /\ o[F] = new
      BY <2>1, <1>3, <1>4
    <3>. QED
      BY <2>1, <3>1, <1>1, <1>2
  <2>2. CASE b # a
    BY <2>2, <1>4, <1>7, CoreFacts DEF Ready, Fits
  <2>. QED
    BY <2>1, <2>2
<1>10. Fits(x, o, pend)
  BY <1>5, <1>6, <1>8, <1>9 DEF Fits, Address0
<1>11. Outdated(a) = pend
  <2>1. Outdated(a) \in Seq(Address0) /\ Len(Outdated(a)) = 0
    BY <1>6, CoreFacts, OutdatedFacts
  <2>. QED
    BY <2>1, EmptySeq
<1>12. ASSUME Solid(arr, objs, pend) PROVE Solid(x, o, pend)
  <2>. SUFFICES ASSUME NEW id \in Used(x, pend), NEW i \in DOMAIN o[id].cells
                PROVE  IF i < o[id].len THEN o[id].cells[i] # Dangling ELSE o[id].cells[i] = Nil
    BY DEF Solid
  <2>1. CASE id = F
    <3>1. o[id].len = 0 /\ i \in 0 .. InitSize - 1 /\ o[id].cells[i] = Nil
      <4>1. o[id].len = 0 /\ o[id].cells = cells
        BY <2>1, <1>2, <1>3
      <4>2. i \in DOMAIN cells
        BY <4>1
      <4>. QED
        BY <4>1, <4>2
    <3>2. ~(i < o[id].len)
      BY <3>1, <1>1
    <3>. QED
      BY <3>1, <3>2
  <2>2. CASE id # F
    <3>1. o[id] = objs[id] /\ id \in Used(arr, pend)
      BY <2>2, <1>3, <1>7
    <3>2. i \in DOMAIN objs[id].cells
      BY <3>1
    <3>. QED
      BY <3>1, <3>2, <1>12 DEF Solid
  <2>. QED
    BY <2>1, <2>2
<1>13. ASSUME Agreed(arr, objs) PROVE Agreed(x, o)
  <2>. SUFFICES ASSUME NEW b \in Arrays PROVE x[b].len = o[x[b].objs].len
    BY DEF Agreed
  <2>1. CASE b = a
    BY <2>1, <1>2, <1>3, <1>4
  <2>2. CASE b # a
    BY <2>2, <1>4, <1>7, <1>13 DEF Agreed
  <2>. QED
    BY <2>1, <2>2
<1>. QED
  BY <1>10, <1>11, <1>12, <1>13

\* Of the invariant: the string and the split.
Strings ==
  /\ text \in String \cup {Idle}
  /\ text # Idle => pend = <<>>
  /\ split # Idle => text # Idle /\ "a" \in DOMAIN split /\ split.a \in Arrays

LEMMA BeginStep ==
  ASSUME Core, Strings, NEW a \in Arrays, Begin(a)
  PROVE  Core' /\ Strings'
<1>1. /\ text # Idle /\ split = Idle /\ status = "run" /\ pend = <<>>
      /\ top' = top /\ lost' = lost /\ text' = text
  BY DEF Begin, Strings
<1>2. CASE Renew(a) /\ split' = Started(a, text.chars) /\ UNCHANGED status
  <2> DEFINE x == [arr EXCEPT ![a] = [len |-> 0, alloc |-> InitSize, objs |-> Fresh(a)]]
             o == [objs EXCEPT ![Fresh(a)] =
                       [len |-> 0, cells |-> [i \in 0 .. InitSize - 1 |-> Nil]]]
  <2>1. arr' = x /\ pend' = Outdated(a) /\ Keep(o)
    BY <1>2 DEF Renew
  <2>2. /\ Fits(x, o, pend) /\ Outdated(a) = pend
        /\ Solid(arr, objs, pend) => Solid(x, o, pend)
        /\ Agreed(arr, objs) => Agreed(x, o)
    BY <1>1, NewArrayFits
  <2>. HIDE DEF x, o
  <2>3. Core'
    <3>1. Len(pend') <= MaxPending
      BY <2>1, <2>2 DEF Core
    <3>. QED
      BY <1>1, <1>2, <2>1, <2>2, <3>1, CoreFacts, RunsOn
  <2>4. "a" \in DOMAIN split' /\ split'.a = a
    BY <1>2 DEF Started
  <2>. QED
    BY <1>1, <2>1, <2>2, <2>3, <2>4 DEF Strings
<1>3. ASSUME NEW why \in {"wild", "stale"}, Stop(why), split' = split
      PROVE  Core' /\ Strings'
  <2>1. Core'
    BY <1>1, <1>3, CoreFacts, StopsWell
  <2>. QED
    BY <2>1, <1>1, <1>3 DEF Strings, Stop
<1>. QED
  BY <1>2, <1>3 DEF Begin

LEMMA TokenStep ==
  ASSUME Core, Strings, Token
  PROVE  Core' /\ Strings'
<1> DEFINE s == Chars
           from == Begins(s, split.at)
           to == Stops(s, split.at)
           cut == IF Ends(s, to) THEN s ELSE [s EXCEPT ![to] = End]
           next == [split EXCEPT !.pc = "put", !.at = IF Ends(s, to) THEN to ELSE to + 1,
                                 !.old = IF split.copy = 2 THEN cut ELSE @]
           now(c) == IF c THEN Moved(next, text'.chars) ELSE next
           here(c) == IF now(c).copy = 2 THEN now(c).old ELSE cut
           got(c) == SubSeq(here(c), from, FirstOf(here(c), from, {}) - 1)
<1>1. /\ split # Idle /\ status = "run" /\ UNCHANGED <<arr, top, pend, lost>>
      /\ text' = [text EXCEPT !.chars = IF split.copy = 1 THEN cut ELSE @]
  BY DEF Token
<1>2. PICK c \in BOOLEAN :
        /\ objs' = IF c THEN VisitedAll ELSE objs
        /\ IF now(c).copy = 3 /\ c
           THEN status' = "wild" /\ UNCHANGED split
           ELSE /\ split' = [now(c) EXCEPT !.got = Append(@, got(c))]
                /\ UNCHANGED status
  <2>. HIDE DEF Chars
  <2>. QED
    BY DEF Token
<1>3. pend = <<>> /\ text \in String /\ "a" \in DOMAIN split /\ split.a \in Arrays
  BY <1>1 DEF Strings
<1>4. text' \in String
  <2>1. text.chars \in Seq(Char) /\ text = [chars |-> text.chars, literal |-> text.literal]
    BY <1>3 DEF String
  <2>2. CASE split.copy = 1
    <3>1. s = text.chars
      BY <2>2 DEF Chars
    <3>2. [s EXCEPT ![to] = End] \in Seq(Char)
      <4>1. End \in Char
        BY DEF Char
      <4>2. s \in [1 .. Len(s) -> Char] /\ Len(s) \in Nat
        BY <2>1, <3>1
      <4>. HIDE DEF s, to
      <4>3. [s EXCEPT ![to] = End] \in [1 .. Len(s) -> Char]
        BY <4>1, <4>2
      <4>. QED
        BY <4>2, <4>3 DEF Seq
    <3>3. cut \in Seq(Char)
      <4>. HIDE DEF to, s
      <4>. QED
        BY <2>1, <3>1, <3>2
    <3>. HIDE DEF cut
    <3>. QED
      BY <1>1, <1>3, <2>2, <3>3 DEF String
  <2>3. CASE split.copy # 1
    <3>. HIDE DEF cut
    <3>. QED
      BY <1>1, <1>3, <2>3 DEF String
  <2>. QED
    BY <2>2, <2>3
<1>5. "a" \in DOMAIN next /\ next.a = split.a
  <2>. HIDE DEF cut, to, s
  <2>. QED
    BY <1>3
<1>. HIDE DEF next, got, cut, to, from, s
<1>6. "a" \in DOMAIN now(c) /\ now(c).a = split.a
  BY <1>5 DEF Moved
<1>. HIDE DEF now
<1>7. Strings'
  <2>1. "a" \in DOMAIN split' /\ split'.a = split.a
    <3>1. CASE split' = split
      BY <3>1, <1>3
    <3>2. CASE split' = [now(c) EXCEPT !.got = Append(@, got(c))]
      BY <3>2, <1>6
    <3>. QED
      BY <3>1, <3>2, <1>2
  <2>2. text' # Idle
    BY <1>4, TextsAssumption
  <2>. QED
    BY <1>1, <1>3, <1>4, <2>1, <2>2 DEF Strings
<1>8. CASE c
  <2>1. objs' = VisitedAll /\ status' \in {"run", "wild"}
    BY <1>1, <1>2, <1>8
  <2>. QED
    BY <1>1, <1>7, <2>1, CollectedWell
<1>9. CASE ~c
  <2>1. objs' = objs /\ status' = "run"
    BY <1>1, <1>2, <1>9
  <2>. QED
    BY <1>1, <1>7, <2>1, StaysWell, CoreFacts
<1>. QED
  BY <1>8, <1>9

LEMMA Put1Step ==
  ASSUME Core, Strings, NEW v \in Refs, Put1(v)
  PROVE  Core' /\ Strings'
<1>1. split # Idle /\ Add(split.a, v) /\ text' = text
  BY DEF Put1
<1>2. text # Idle /\ pend = <<>> /\ "a" \in DOMAIN split /\ split.a \in Arrays
  BY <1>1 DEF Strings
<1>3. Core'
  BY <1>1, <1>2, AddStep
<1>4. pend' = <<>>
  <2>1. pend' = Outdated(split.a) \/ pend' = pend
    BY <1>1 DEF Add, Stop
  <2>2. Outdated(split.a) \in Seq(Address0) /\ Len(Outdated(split.a)) = Len(pend)
    BY <1>2, CoreFacts, OutdatedFacts
  <2>3. Len(pend) = 0
    BY <1>2
  <2>. QED
    BY <1>2, <2>1, <2>2, <2>3, EmptySeq
<1> DEFINE next == [split EXCEPT !.pc = "scan"]
<1>5. split' = next \/ split' = Moved(next, text.chars)
  BY DEF Put1
<1>6. "a" \in DOMAIN next /\ next.a = split.a
  BY <1>2
<1>. HIDE DEF next
<1>7. "a" \in DOMAIN split' /\ split'.a = split.a
  BY <1>5, <1>6 DEF Moved
<1>. QED
  BY <1>1, <1>2, <1>3, <1>4, <1>7 DEF Strings

-----------------------------------------------------------------------------
(* strtok.  What it finds, and what that says of the runs of a string.     *)

FirstIs(s, p, chars, i) ==
  /\ i \in p .. Len(s) + 1
  /\ i \in DOMAIN s => s[i] \in chars \cup {End}
  /\ \A j \in p .. i - 1 : s[j] \notin chars \cup {End}

LEMMA FirstOfIs ==
  ASSUME NEW s \in Seq(Char), NEW p \in 1 .. Len(s) + 1, NEW chars
  PROVE  FirstIs(s, p, chars, FirstOf(s, p, chars))
<1> DEFINE T == {i \in p .. Len(s) + 1 : i \in DOMAIN s => s[i] \in chars \cup {End}}
<1>1. Len(s) \in Nat /\ DOMAIN s = 1 .. Len(s)
  OBVIOUS
<1>2. T \in SUBSET Nat /\ Len(s) + 1 \in T
  BY <1>1
<1>3. PICK i \in T : \A j \in T : i <= j
  <2>. HIDE DEF T
  <2>. QED
    BY <1>2, LeastNat
<1>4. \A j \in p .. i - 1 : s[j] \notin chars \cup {End}
  <2>. SUFFICES ASSUME NEW j \in p .. i - 1 PROVE s[j] \notin chars \cup {End}
    OBVIOUS
  <2>1. j \in p .. Len(s) + 1 /\ ~(i <= j) /\ j \in DOMAIN s
    BY <1>1, <1>2, <1>3
  <2>. QED
    BY <1>3, <2>1
<1>5. FirstIs(s, p, chars, i) /\ i \in p .. Len(s) + 1
  BY <1>3, <1>4 DEF FirstIs
<1>. QED
  BY <1>5 DEF FirstOf, FirstIs

LEMMA FirstOfOnly ==
  ASSUME NEW s \in Seq(Char), NEW p \in 1 .. Len(s) + 1, NEW chars, NEW i, FirstIs(s, p, chars, i)
  PROVE  FirstOf(s, p, chars) = i
<1>1. PICK k : k = FirstOf(s, p, chars)
  OBVIOUS
<1>2. FirstIs(s, p, chars, k)
  BY <1>1, FirstOfIs
<1>3. Len(s) \in Nat /\ DOMAIN s = 1 .. Len(s) /\ k \in p .. Len(s) + 1 /\ i \in p .. Len(s) + 1
  BY <1>2 DEF FirstIs
<1>4. ~(k < i)
  <2>. SUFFICES ASSUME k < i PROVE FALSE
    OBVIOUS
  <2>1. k \in p .. i - 1 /\ k \in DOMAIN s
    BY <1>3
  <2>. QED
    BY <1>2, <2>1 DEF FirstIs
<1>5. ~(i < k)
  <2>. SUFFICES ASSUME i < k PROVE FALSE
    OBVIOUS
  <2>1. i \in p .. k - 1 /\ i \in DOMAIN s
    BY <1>3
  <2>. QED
    BY <1>2, <2>1 DEF FirstIs
<1>6. k = i
  BY <1>3, <1>4, <1>5
<1>. QED
  BY <1>1, <1>6

\* c is s from a place on that a part of s may begin at.
Agree(c, s, at) ==
  /\ s \in Seq(Char) /\ c \in Seq(Char) /\ Len(c) = Len(s)
  /\ at \in 1 .. EndOf(s) /\ (at = 1 \/ at = EndOf(s) \/ s[at - 1] = Delim)
  /\ \A i \in at .. Len(s) : c[i] = s[i]

LEMMA EndFacts ==
  ASSUME NEW s \in Seq(Char)
  PROVE  /\ EndOf(s) \in 1 .. Len(s) + 1
         /\ EndOf(s) \in 1 .. Len(s) => s[EndOf(s)] = End
         /\ \A i \in 1 .. EndOf(s) - 1 : i \in 1 .. Len(s) /\ s[i] # End
<1>1. PICK e : e = EndOf(s)
  OBVIOUS
<1>2. FirstIs(s, 1, {}, e)
  BY <1>1, FirstOfIs, 1 \in 1 .. Len(s) + 1 DEF EndOf
<1>3. Len(s) \in Nat /\ DOMAIN s = 1 .. Len(s) /\ e \in 1 .. Len(s) + 1
  BY <1>2 DEF FirstIs
<1>4. \A i \in 1 .. e - 1 : i \in 1 .. Len(s) /\ s[i] # End
  BY <1>2, <1>3 DEF FirstIs
<1>. QED
  BY <1>1, <1>2, <1>3, <1>4 DEF FirstIs

\* Between the place where strtok goes on and the token there are only delimiters.
Begun(s, at, from) ==
  /\ from \in at .. EndOf(s)
  /\ \A i \in at .. from - 1 : s[i] = Delim
  /\ from # EndOf(s) => s[from] # Delim

LEMMA BeginsIs ==
  ASSUME NEW c, NEW s, NEW at, Agree(c, s, at), NEW from, from = Begins(c, at)
  PROVE  Begun(s, at, from) /\ (Ends(c, from) <=> from = EndOf(s))
<1>1. PICK e : e = EndOf(s)
  OBVIOUS
<1>2. /\ s \in Seq(Char) /\ c \in Seq(Char) /\ Len(c) = Len(s) /\ at \in 1 .. e
      /\ \A i \in at .. Len(s) : c[i] = s[i]
  BY <1>1 DEF Agree
<1>3. /\ e \in 1 .. Len(s) + 1 /\ Len(s) \in Nat
      /\ e \in 1 .. Len(s) => s[e] = End
      /\ \A i \in 1 .. e - 1 : i \in 1 .. Len(s) /\ s[i] # End
      /\ DOMAIN s = 1 .. Len(s) /\ DOMAIN c = 1 .. Len(s)
  BY <1>1, <1>2, EndFacts
<1>4. FirstIs(c, at, Letters(c), from)
  <2>1. at \in 1 .. Len(c) + 1
    BY <1>2, <1>3
  <2>. QED
    BY <1>2, <2>1, FirstOfIs DEF Begins
<1>5. /\ from \in at .. Len(s) + 1
      /\ from \in 1 .. Len(s) => c[from] \in Letters(c) \cup {End}
      /\ \A j \in at .. from - 1 : c[j] \notin Letters(c) \cup {End}
  BY <1>2, <1>3, <1>4 DEF FirstIs
<1>6. ASSUME NEW j \in at .. from - 1 PROVE j \in 1 .. Len(s) /\ c[j] = s[j] /\ s[j] = Delim /\ s[j] # End
  <2>1. j \in 1 .. Len(s) /\ j \in at .. Len(s)
    BY <1>2, <1>3, <1>5
  <2>2. c[j] \in {c[i] : i \in DOMAIN c}
    BY <1>3, <2>1
  <2>3. c[j] \in {Delim, End} /\ c[j] # End
    BY <1>5, <2>2 DEF Letters
  <2>. QED
    BY <1>2, <2>1, <2>3
<1>7. from <= e
  <2>. SUFFICES ASSUME from > e PROVE FALSE
    BY <1>2, <1>3, <1>5
  <2>1. e \in at .. from - 1 /\ e \in 1 .. Len(s)
    BY <1>2, <1>3, <1>5
  <2>. QED
    BY <1>3, <1>6, <2>1
<1>8. CASE from = e
  <2>1. Ends(c, from)
    <3>. SUFFICES ASSUME from \in DOMAIN c PROVE c[from] = End
      BY DEF Ends
    <3>1. from \in 1 .. Len(s) /\ from \in at .. Len(s)
      BY <1>2, <1>3, <1>5
    <3>. QED
      BY <1>2, <1>3, <1>8, <3>1
  <2>2. from \in at .. e
    BY <1>2, <1>3, <1>8
  <2>3. \A i \in at .. from - 1 : s[i] = Delim
    BY <1>6
  <2>. QED
    BY <1>1, <1>8, <2>1, <2>2, <2>3 DEF Begun
<1>9. CASE from # e
  <2>1. from \in 1 .. e - 1 /\ from \in at .. e
    BY <1>2, <1>3, <1>5, <1>7, <1>9
  <2>2. from \in 1 .. Len(s) /\ s[from] # End /\ from \in at .. Len(s)
    BY <1>2, <1>3, <2>1
  <2>3. c[from] = s[from]
    BY <1>2, <2>2
  <2>4. s[from] # Delim
    BY <1>5, <2>2, <2>3 DEF Letters
  <2>5. ~Ends(c, from)
    BY <1>3, <2>2, <2>3 DEF Ends
  <2>. QED
    BY <1>1, <1>6, <1>9, <2>1, <2>4, <2>5 DEF Begun
<1>. QED
  BY <1>8, <1>9

\* A token ends at the end of the string or before a delimiter.
Stopped(s, from, to) ==
  /\ to \in from + 1 .. EndOf(s)
  /\ \A i \in from .. to - 1 : s[i] # Delim
  /\ to # EndOf(s) => s[to] = Delim

LEMMA StopsIs ==
  ASSUME NEW c, NEW s, NEW at, Agree(c, s, at), NEW from, from = Begins(c, at),
         from # EndOf(s), NEW to, to = Stops(c, at)
  PROVE  /\ Stopped(s, from, to) /\ (Ends(c, to) <=> to = EndOf(s))
         /\ \A i \in from .. to - 1 : i \in 1 .. Len(c) /\ c[i] = s[i] /\ c[i] # End
<1>1. PICK e : e = EndOf(s)
  OBVIOUS
<1>2. /\ s \in Seq(Char) /\ c \in Seq(Char) /\ Len(c) = Len(s) /\ at \in 1 .. e
      /\ \A i \in at .. Len(s) : c[i] = s[i]
  BY <1>1 DEF Agree
<1>3. /\ e \in 1 .. Len(s) + 1 /\ Len(s) \in Nat
      /\ e \in 1 .. Len(s) => s[e] = End
      /\ \A i \in 1 .. e - 1 : i \in 1 .. Len(s) /\ s[i] # End
      /\ DOMAIN s = 1 .. Len(s) /\ DOMAIN c = 1 .. Len(s)
  BY <1>1, <1>2, EndFacts
<1>4. from \in at .. e - 1 /\ s[from] # Delim
  <2>1. Begun(s, at, from)
    BY BeginsIs
  <2>. QED
    BY <1>1, <1>2, <1>3, <2>1 DEF Begun
<1>5. /\ to \in from .. Len(s) + 1
      /\ to \in 1 .. Len(s) => c[to] \in {Delim, End}
      /\ \A j \in from .. to - 1 : c[j] \notin {Delim, End}
  <2>1. from \in 1 .. Len(c) + 1
    BY <1>2, <1>3, <1>4
  <2>2. FirstIs(c, from, {Delim}, to)
    BY <1>2, <2>1, FirstOfIs DEF Stops
  <2>. QED
    BY <1>2, <1>3, <2>2 DEF FirstIs
<1>6. ASSUME NEW j \in from .. e - 1
      PROVE  j \in 1 .. Len(s) /\ c[j] = s[j] /\ s[j] # End
  <2>1. j \in 1 .. e - 1 /\ j \in at .. Len(s)
    BY <1>2, <1>3, <1>4
  <2>. QED
    BY <1>2, <1>3, <2>1
<1>7. e \in 1 .. Len(s) => c[e] = End
  <2>1. e \in 1 .. Len(s) => e \in at .. Len(s)
    BY <1>2
  <2>. QED
    BY <1>2, <1>3, <2>1
<1>8. to <= e
  <2>. SUFFICES ASSUME to > e PROVE FALSE
    BY <1>3, <1>4, <1>5
  <2>1. e \in from .. to - 1 /\ e \in 1 .. Len(s)
    BY <1>2, <1>3, <1>4, <1>5
  <2>. QED
    BY <1>5, <1>7, <2>1
<1>9. to # from
  <2>. SUFFICES ASSUME to = from PROVE FALSE
    OBVIOUS
  <2>1. from \in from .. e - 1
    BY <1>2, <1>3, <1>4
  <2>2. from \in 1 .. Len(s) /\ c[from] = s[from] /\ s[from] # End
    BY <1>6, <2>1
  <2>. QED
    BY <1>4, <1>5, <2>2
<1>10. to \in from + 1 .. e
  BY <1>2, <1>3, <1>4, <1>5, <1>8, <1>9
<1>11. ASSUME NEW i \in from .. to - 1
       PROVE  i \in 1 .. Len(c) /\ c[i] = s[i] /\ c[i] # End /\ s[i] # Delim
  <2>1. i \in from .. e - 1
    BY <1>2, <1>3, <1>4, <1>10
  <2>. QED
    BY <1>2, <1>5, <1>6, <2>1
<1>12. CASE to = e
  <2>1. Ends(c, to)
    BY <1>3, <1>7, <1>12 DEF Ends
  <2>. QED
    BY <1>1, <1>10, <1>11, <1>12, <2>1 DEF Stopped
<1>13. CASE to # e
  <2>1. to \in from .. e - 1
    BY <1>2, <1>3, <1>4, <1>10, <1>13
  <2>2. to \in 1 .. Len(s) /\ c[to] = s[to] /\ s[to] # End
    BY <1>6, <2>1
  <2>3. s[to] = Delim /\ ~Ends(c, to)
    BY <1>3, <1>5, <2>2 DEF Ends
  <2>. QED
    BY <1>1, <1>10, <1>11, <1>13, <2>3 DEF Stopped
<1>. QED
  BY <1>12, <1>13

\* The runs that end before a place.
Before(s, at) == {r \in Runs(s) : r[2] < at}

LEMMA RunFacts ==
  ASSUME NEW s \in Seq(Char), NEW r \in Runs(s)
  PROVE  /\ r[1] \in 1 .. EndOf(s) - 1 /\ r[2] \in 1 .. EndOf(s) - 1 /\ r[1] <= r[2]
         /\ r = <<r[1], r[2]>>
         /\ \A i \in r[1] .. r[2] : s[i] # Delim
         /\ r[1] = 1 \/ s[r[1] - 1] = Delim
         /\ r[2] = EndOf(s) - 1 \/ s[r[2] + 1] = Delim
BY DEF Runs

\* No token is left: no run is left.
LEMMA NoMoreRuns ==
  ASSUME NEW s \in Seq(Char), NEW at \in 1 .. EndOf(s), Begun(s, at, EndOf(s))
  PROVE  Before(s, at) = Runs(s)
<1>. SUFFICES ASSUME NEW r \in Runs(s) PROVE r[2] < at
  BY DEF Before
<1>1. PICK e : e = EndOf(s)
  OBVIOUS
<1>2. e \in Nat /\ at \in Nat
  BY <1>1, EndFacts
<1>3. r[1] \in Int /\ r[2] \in 1 .. e - 1 /\ r[1] <= r[2] /\ \A i \in r[1] .. r[2] : s[i] # Delim
  BY <1>1, <1>2, RunFacts
<1>4. \A i \in at .. e - 1 : s[i] = Delim
  BY <1>1 DEF Begun
<1>5. r[2] \in r[1] .. r[2]
  BY <1>3
<1>6. r[2] \notin at .. e - 1
  BY <1>3, <1>4, <1>5
<1>. QED
  BY <1>2, <1>3, <1>6

\* A token is the next run.
LEMMA NextRun ==
  ASSUME NEW s \in Seq(Char), NEW at \in 1 .. EndOf(s),
         at = 1 \/ at = EndOf(s) \/ s[at - 1] = Delim,
         NEW from, Begun(s, at, from), from # EndOf(s), NEW to, Stopped(s, from, to),
         NEW new, new = IF to = EndOf(s) THEN to ELSE to + 1
  PROVE  /\ new \in 1 .. EndOf(s) /\ (new = EndOf(s) \/ s[new - 1] = Delim)
         /\ Before(s, new) = Before(s, at) \cup {<<from, to - 1>>}
         /\ \A r \in Before(s, at) : r[2] < from
<1>1. PICK e : e = EndOf(s)
  OBVIOUS
<1>2. e \in Nat /\ at \in 1 .. e /\ from \in at .. e - 1 /\ to \in from + 1 .. e
  BY <1>1, EndFacts DEF Begun, Stopped
<1>3. /\ \A i \in at .. from - 1 : s[i] = Delim
      /\ \A i \in from .. to - 1 : s[i] # Delim
      /\ to # e => s[to] = Delim
      /\ at = 1 \/ at = e \/ s[at - 1] = Delim
      /\ new = IF to = e THEN to ELSE to + 1
  BY <1>1 DEF Begun, Stopped
<1>4. new \in 1 .. e /\ (new = e \/ s[new - 1] = Delim) /\ new > at /\ new > to - 1
  <2>1. CASE to = e
    BY <1>2, <1>3, <2>1
  <2>2. CASE to # e
    <3>1. new = to + 1 /\ new - 1 = to
      BY <1>2, <1>3, <2>2
    <3>. QED
      BY <1>2, <1>3, <2>2, <3>1
  <2>. QED
    BY <2>1, <2>2
<1>5. <<from, to - 1>> \in Runs(s)
  <2>1. from \in 1 .. e - 1 /\ to - 1 \in 1 .. e - 1 /\ from <= to - 1 /\ (to - 1) + 1 = to
    BY <1>2
  <2>2. from = 1 \/ s[from - 1] = Delim
    <3>1. CASE from = at
      BY <1>2, <1>3, <3>1
    <3>2. CASE from # at
      <4>1. from - 1 \in at .. from - 1
        BY <1>2, <3>2
      <4>. QED
        BY <1>3, <4>1
    <3>. QED
      BY <3>1, <3>2
  <2>3. to - 1 = e - 1 \/ s[to] = Delim
    BY <1>2, <1>3
  <2>4. <<from, to - 1>> \in (1 .. e - 1) \X (1 .. e - 1)
    BY <2>1
  <2>. QED
    BY <1>1, <1>3, <2>1, <2>2, <2>3, <2>4 DEF Runs
<1>6. ASSUME NEW r \in Runs(s)
      PROVE  /\ r[1] \in 1 .. e - 1 /\ r[2] \in 1 .. e - 1 /\ r[1] <= r[2] /\ r = <<r[1], r[2]>>
             /\ \A i \in r[1] .. r[2] : s[i] # Delim
             /\ r[1] = 1 \/ s[r[1] - 1] = Delim
             /\ r[2] = e - 1 \/ s[r[2] + 1] = Delim
  BY <1>1, RunFacts
<1>7. ASSUME NEW r \in Runs(s), at <= r[2], r[2] < new
      PROVE  r = <<from, to - 1>>
  <2>1. r[2] \notin at .. from - 1
    <3>1. r[2] \in r[1] .. r[2]
      BY <1>6
    <3>. QED
      BY <1>3, <1>6, <3>1
  <2>2. r[2] \in from .. to - 1
    <3>1. CASE to = e
      BY <1>2, <1>6, <1>7, <2>1, <3>1
    <3>2. CASE to # e
      <4>1. r[2] \in r[1] .. r[2] /\ s[to] = Delim
        BY <1>3, <1>6, <3>2
      <4>2. r[2] # to /\ r[2] < to + 1
        BY <1>3, <1>6, <1>7, <3>2, <4>1
      <4>. QED
        BY <1>2, <1>6, <1>7, <2>1, <4>2
    <3>. QED
      BY <3>1, <3>2
  <2>3. r[2] = to - 1
    <3>. SUFFICES ASSUME r[2] # to - 1 PROVE FALSE
      OBVIOUS
    <3>1. PICK y : y = r[2]
      OBVIOUS
    <3>2. y \in from .. to - 1 /\ y # to - 1
      BY <2>2, <3>1
    <3>3. y + 1 \in from .. to - 1 /\ y # e - 1
      BY <1>2, <3>2
    <3>. QED
      BY <1>3, <1>6, <3>1, <3>3
  <2>4. ~(r[1] < from)
    <3>. SUFFICES ASSUME r[1] < from PROVE FALSE
      OBVIOUS
    <3>1. from - 1 \in r[1] .. r[2] /\ r[1] \in Nat /\ from # 1
      BY <1>2, <1>6, <2>2
    <3>2. s[from - 1] # Delim
      BY <1>6, <3>1
    <3>3. from - 1 \in at .. from - 1 \/ from = at
      BY <1>2
    <3>4. at # e
      BY <1>2
    <3>. QED
      BY <1>3, <3>1, <3>2, <3>3, <3>4
  <2>5. ~(r[1] > from)
    <3>. SUFFICES ASSUME r[1] > from PROVE FALSE
      OBVIOUS
    <3>1. r[1] - 1 \in from .. to - 1 /\ r[1] # 1
      BY <1>2, <1>6, <2>2
    <3>. QED
      BY <1>3, <1>6, <3>1
  <2>6. r[1] = from
    BY <1>2, <1>6, <2>4, <2>5
  <2>. QED
    BY <1>6, <2>3, <2>6
<1>8. Before(s, new) = Before(s, at) \cup {<<from, to - 1>>}
  <2>1. ASSUME NEW r \in Before(s, new) PROVE r \in Before(s, at) \cup {<<from, to - 1>>}
    <3>1. r \in Runs(s) /\ r[2] < new
      BY <2>1 DEF Before
    <3>2. CASE at <= r[2]
      BY <1>7, <3>1, <3>2
    <3>3. CASE ~(at <= r[2])
      <4>1. r[2] < at
        BY <1>2, <1>6, <3>1, <3>3
      <4>. QED
        BY <3>1, <4>1 DEF Before
    <3>. QED
      BY <3>2, <3>3
  <2>2. ASSUME NEW r \in Before(s, at) PROVE r \in Before(s, new)
    <3>1. r \in Runs(s) /\ r[2] < at
      BY <2>2 DEF Before
    <3>2. r[2] < new
      BY <1>2, <1>4, <1>6, <3>1
    <3>. QED
      BY <3>1, <3>2 DEF Before
  <2>3. <<from, to - 1>> \in Before(s, new)
    BY <1>4, <1>5 DEF Before
  <2>. QED
    BY <2>1, <2>2, <2>3
<1>9. ASSUME NEW r \in Before(s, at) PROVE r[2] < from
  <2>1. r \in Runs(s) /\ r[2] < at
    BY <1>9 DEF Before
  <2>. QED
    BY <1>2, <1>6, <2>1
<1>. QED
  BY <1>1, <1>4, <1>8, <1>9

\* The k-th of the parts is what s has in the k-th of the runs.
ByRuns(run, q, s, runs) ==
  /\ run \in [DOMAIN q -> runs]
  /\ \A r \in runs : \E k \in DOMAIN q : run[k] = r
  /\ \A k \in DOMAIN q : q[k] = SubSeq(s, run[k][1], run[k][2])
  /\ \A j, k \in DOMAIN q : j < k => run[j][2] < run[k][1]

LEMMA ListsBy ==
  ASSUME NEW q, NEW s, NEW runs
  PROVE  Lists(q, s, runs) <=> \E run : ByRuns(run, q, s, runs)
BY DEF Lists, ByRuns

Longer(t, q, p) ==
  Len(t) = Len(q) + 1 /\ t[Len(q) + 1] = p /\ \A k \in 1 .. Len(q) : t[k] = q[k]

LEMMA Appended ==
  ASSUME NEW W, NEW q \in Seq(W), NEW p \in W
  PROVE  Append(q, p) \in Seq(W) /\ Longer(Append(q, p), q, p)
BY AppendProperties DEF Longer

LEMMA ListsMore ==
  ASSUME NEW s, NEW q \in Seq(Seq(Char)), NEW R, Lists(q, s, R), NEW r,
         \A x \in R : x[2] < r[1], NEW p \in Seq(Char), p = SubSeq(s, r[1], r[2])
  PROVE  Lists(Append(q, p), s, R \cup {r})
<1>1. PICK run \in [DOMAIN q -> R] :
        /\ \A x \in R : \E k \in DOMAIN q : run[k] = x
        /\ \A k \in DOMAIN q : q[k] = SubSeq(s, run[k][1], run[k][2])
        /\ \A j, k \in DOMAIN q : j < k => run[j][2] < run[k][1]
  BY ListsBy DEF ByRuns
<1>2. PICK t : t = Append(q, p)
  OBVIOUS
<1>3. PICK n : n = Len(q)
  OBVIOUS
<1>4. /\ n \in Nat /\ DOMAIN q = 1 .. n /\ DOMAIN t = 1 .. n + 1 /\ t[n + 1] = p
      /\ \A k \in 1 .. n : t[k] = q[k]
  <2>1. t \in Seq(Seq(Char)) /\ Len(t) = n + 1 /\ t[n + 1] = p /\ \A k \in 1 .. n : t[k] = q[k]
    <3>1. Append(q, p) \in Seq(Seq(Char)) /\ Longer(Append(q, p), q, p)
      BY Appended
    <3>. QED
      BY <1>2, <1>3, <3>1 DEF Longer
  <2>2. n \in Nat /\ DOMAIN q = 1 .. n
    BY <1>3
  <2>. QED
    BY <2>1, <2>2
<1> DEFINE new == [k \in 1 .. n + 1 |-> IF k = n + 1 THEN r ELSE run[k]]
<1>5. new[n + 1] = r /\ \A k \in 1 .. n : new[k] = run[k] /\ run[k] \in R
  BY <1>1, <1>4
<1>6. \A k \in 1 .. n + 1 : k = n + 1 \/ k \in 1 .. n
  BY <1>4
<1>7. new \in [DOMAIN t -> R \cup {r}]
  <2>1. \A k \in 1 .. n + 1 : new[k] \in R \cup {r}
    BY <1>5, <1>6
  <2>. QED
    BY <1>4, <2>1
<1>. HIDE DEF new
<1>8. \A x \in R \cup {r} : \E k \in DOMAIN t : new[k] = x
  <2>1. n + 1 \in DOMAIN t /\ \A k \in 1 .. n : k \in DOMAIN t
    BY <1>4
  <2>. QED
    BY <1>1, <1>4, <1>5, <2>1
<1>9. \A k \in DOMAIN t : t[k] = SubSeq(s, new[k][1], new[k][2])
  BY <1>1, <1>4, <1>5, <1>6
<1>10. ASSUME NEW j \in DOMAIN t, NEW k \in DOMAIN t, j < k
       PROVE  new[j][2] < new[k][1]
  <2>1. j \in 1 .. n
    BY <1>4, <1>10
  <2>2. CASE k = n + 1
    BY <1>5, <2>1, <2>2
  <2>3. CASE k \in 1 .. n
    BY <1>1, <1>4, <1>5, <1>10, <2>1, <2>3
  <2>. QED
    BY <1>4, <1>6, <2>2, <2>3
<1>. QED
  <2>1. ByRuns(new, t, s, R \cup {r})
    BY <1>7, <1>8, <1>9, <1>10 DEF ByRuns
  <2>. QED
    BY <1>2, <2>1, ListsBy

\* What strtok leaves: a zero behind the token.
CutAt(c, to) == IF Ends(c, to) THEN c ELSE [c EXCEPT ![to] = End]
Behind(c, to) == IF Ends(c, to) THEN to ELSE to + 1

LEMMA SameParts ==
  ASSUME NEW s \in Seq(Char), NEW t \in Seq(Char), NEW m \in 1 .. Len(s) + 1, NEW n \in m - 1 .. Len(s),
         Len(t) = Len(s), \A i \in m .. n : s[i] = t[i]
  PROVE  SubSeq(s, m, n) = SubSeq(t, m, n) /\ SubSeq(t, m, n) \in Seq(Char)
<1>1. m \in Nat /\ n \in Int /\ Len(s) \in Nat
  OBVIOUS
<1>2. /\ SubSeq(s, m, n) \in Seq(Char) /\ Len(SubSeq(s, m, n)) = n - m + 1
      /\ \A i \in 1 .. n - m + 1 : SubSeq(s, m, n)[i] = s[m + i - 1]
  BY SubSeqProperties
<1>3. /\ SubSeq(t, m, n) \in Seq(Char) /\ Len(SubSeq(t, m, n)) = n - m + 1
      /\ \A i \in 1 .. n - m + 1 : SubSeq(t, m, n)[i] = t[m + i - 1]
  BY SubSeqProperties
<1>4. \A i \in 1 .. n - m + 1 : m + i - 1 \in m .. n
  BY <1>1
<1>. QED
  BY <1>2, <1>3, <1>4

\* strtok takes the token from .. to - 1 of c and goes on at new, with cut left of c.
Takes(c, at, from, to, cut, new) ==
  from = Begins(c, at) /\ to = Stops(c, at) /\ cut = CutAt(c, to) /\ new = Behind(c, to)

\* The string made of a token that begins there, and the characters from .. to - 1 of s.
Made(cut, from) == SubSeq(cut, from, FirstOf(cut, from, {}) - 1)
PartOf(s, from, to) == SubSeq(s, from, to - 1)

\* The string made of the token is what the string had there, and what comes is as it was.
LEMMA CutIs ==
  ASSUME NEW c, NEW s, NEW at, Agree(c, s, at), NEW from, from # EndOf(s),
         NEW to, NEW cut, NEW new, Takes(c, at, from, to, cut, new)
  PROVE  Agree(cut, s, new) /\ Made(cut, from) = PartOf(s, from, to) /\ PartOf(s, from, to) \in Seq(Char)
<1>1. PICK e : e = EndOf(s)
  OBVIOUS
<1>2. /\ s \in Seq(Char) /\ c \in Seq(Char) /\ Len(c) = Len(s) /\ at \in 1 .. e
      /\ at = 1 \/ at = e \/ s[at - 1] = Delim
      /\ \A i \in at .. Len(s) : c[i] = s[i]
      /\ e \in 1 .. Len(s) + 1 /\ Len(s) \in Nat
      /\ DOMAIN s = 1 .. Len(s) /\ DOMAIN c = 1 .. Len(s)
  BY <1>1, EndFacts DEF Agree
<1>0. from = Begins(c, at) /\ to = Stops(c, at) /\ cut = CutAt(c, to) /\ new = Behind(c, to)
  BY DEF Takes
<1>3. Begun(s, at, from) /\ Stopped(s, from, to) /\ (Ends(c, to) <=> to = e)
      /\ \A i \in from .. to - 1 : i \in 1 .. Len(c) /\ c[i] = s[i] /\ c[i] # End
  BY <1>0, <1>1, BeginsIs, StopsIs
<1>4. from \in at .. e - 1 /\ to \in from + 1 .. e
  BY <1>1, <1>2, <1>3 DEF Begun, Stopped
<1>5. new = IF to = e THEN to ELSE to + 1
  BY <1>0, <1>3 DEF Behind
<1>6. new \in 1 .. e /\ (new = e \/ s[new - 1] = Delim)
  <2>1. new = IF to = EndOf(s) THEN to ELSE to + 1
    BY <1>1, <1>5
  <2>. QED
    BY <1>1, <1>2, <1>3, <2>1, NextRun
<1>7. /\ cut \in Seq(Char) /\ Len(cut) = Len(s) /\ DOMAIN cut = 1 .. Len(s)
      /\ \A i \in 1 .. Len(s) : i # to => cut[i] = c[i]
      /\ to \in 1 .. Len(s) => cut[to] = End
  <2>1. CASE Ends(c, to)
    BY <1>0, <1>2, <2>1 DEF CutAt, Ends
  <2>2. CASE ~Ends(c, to)
    <3>1. to \in 1 .. Len(s) /\ cut = [c EXCEPT ![to] = End] /\ End \in Char
      BY <1>0, <1>2, <2>2 DEF CutAt, Ends, Char
    <3>2. cut \in [1 .. Len(s) -> Char]
      BY <1>2, <3>1
    <3>3. cut \in Seq(Char) /\ Len(cut) = Len(s)
      BY <1>2, <3>2
    <3>. QED
      BY <1>2, <3>1, <3>2, <3>3
  <2>. QED
    BY <2>1, <2>2
<1>8. Agree(cut, s, new)
  <2>1. ASSUME NEW i \in new .. Len(s) PROVE cut[i] = s[i]
    <3>1. i \in 1 .. Len(s) /\ i \in at .. Len(s) /\ i >= to
      <4>1. at \in Int /\ at >= 1 /\ from \in Int /\ from >= at /\ to \in Int /\ to > from
        BY <1>2, <1>4
      <4>2. new \in Int /\ new >= to
        BY <1>5, <4>1
      <4>3. i \in Int /\ i >= new /\ i <= Len(s)
        BY <1>2, <2>1, <4>2
      <4>. QED
        BY <1>2, <4>1, <4>2, <4>3
    <3>2. CASE i = to
      <4>1. to = e
        BY <1>4, <1>5, <3>2
      <4>2. Ends(c, to)
        BY <1>3, <4>1
      <4>. QED
        BY <1>0, <1>2, <3>1, <4>2 DEF CutAt
    <3>3. CASE i # to
      BY <1>2, <1>7, <3>1, <3>3
    <3>. QED
      BY <3>2, <3>3
  <2>. QED
    BY <1>1, <1>2, <1>6, <1>7, <2>1 DEF Agree
<1>9. FirstOf(cut, from, {}) = to
  <2>1. from \in 1 .. Len(cut) + 1 /\ to \in from .. Len(cut) + 1
    BY <1>2, <1>4, <1>7
  <2>2. \A i \in from .. to - 1 : i \in 1 .. Len(s) /\ i # to /\ c[i] # End
    BY <1>2, <1>3, <1>4
  <2>3. FirstIs(cut, from, {}, to)
    BY <1>7, <2>1, <2>2 DEF FirstIs
  <2>. QED
    BY <1>7, <2>1, <2>3, FirstOfOnly
<1>10. /\ SubSeq(cut, from, to - 1) = SubSeq(s, from, to - 1)
       /\ SubSeq(s, from, to - 1) \in Seq(Char)
  <2>1. \A i \in from .. to - 1 : cut[i] = s[i]
    <3>1. \A i \in from .. to - 1 : i \in 1 .. Len(s) /\ i # to
      BY <1>2, <1>3, <1>4
    <3>. QED
      BY <1>3, <1>7, <3>1
  <2>2. from \in 1 .. Len(s) + 1 /\ to - 1 \in from - 1 .. Len(s)
    <3>1. at \in Int /\ at >= 1 /\ from \in Int /\ from >= at /\ to \in Int /\ to > from /\ to <= e
      BY <1>2, <1>4
    <3>. QED
      BY <1>2, <3>1
  <2>. QED
    BY <1>2, <1>7, <2>1, <2>2, SameParts
<1>. QED
  BY <1>8, <1>9, <1>10 DEF Made, PartOf

\* The parts of s before a place have been made, and c has the rest.
Parted(got, c, s, at) ==
  Agree(c, s, at) /\ got \in Seq(Seq(Char)) /\ Lists(got, s, Before(s, at))

LEMMA TokenParts ==
  ASSUME NEW got, NEW c, NEW s, NEW at, Parted(got, c, s, at),
         NEW from, ~Ends(c, from), NEW to, NEW cut, NEW new, Takes(c, at, from, to, cut, new),
         NEW part, part = Made(cut, from)
  PROVE  Parted(Append(got, part), cut, s, new)
<1>1. Agree(c, s, at) /\ got \in Seq(Seq(Char)) /\ Lists(got, s, Before(s, at)) /\ s \in Seq(Char)
  BY DEF Parted, Agree
<1>0. from = Begins(c, at) /\ to = Stops(c, at) /\ new = Behind(c, to)
  BY DEF Takes
<1>2. Begun(s, at, from) /\ from # EndOf(s)
  BY <1>0, <1>1, BeginsIs
<1>3. Stopped(s, from, to) /\ (Ends(c, to) <=> to = EndOf(s))
  BY <1>0, <1>1, <1>2, StopsIs
<1>4. Agree(cut, s, new) /\ part = PartOf(s, from, to) /\ part \in Seq(Char)
  BY <1>1, <1>2, CutIs
<1>5. new = IF to = EndOf(s) THEN to ELSE to + 1
  BY <1>0, <1>3 DEF Behind
<1>6. /\ Before(s, new) = Before(s, at) \cup {<<from, to - 1>>}
      /\ \A r \in Before(s, at) : r[2] < from
  <2>1. at \in 1 .. EndOf(s) /\ (at = 1 \/ at = EndOf(s) \/ s[at - 1] = Delim)
    BY <1>1 DEF Agree
  <2>. QED
    BY <1>1, <1>2, <1>3, <1>5, <2>1, NextRun
<1>7. PICK r : r = <<from, to - 1>>
  OBVIOUS
<1>8. r[1] = from /\ r[2] = to - 1
  BY <1>7
<1>9. Lists(Append(got, part), s, Before(s, at) \cup {r})
  <2>1. part = SubSeq(s, r[1], r[2]) /\ \A x \in Before(s, at) : x[2] < r[1]
    BY <1>4, <1>6, <1>8 DEF PartOf
  <2>. QED
    BY <1>1, <1>4, <2>1, ListsMore
<1>10. Append(got, part) \in Seq(Seq(Char))
  BY <1>1, <1>4, Appended
<1>. QED
  BY <1>4, <1>6, <1>7, <1>9, <1>10 DEF Parted

LEMMA NoTokenParts ==
  ASSUME NEW got, NEW c, NEW s, NEW at, Parted(got, c, s, at), Ends(c, Begins(c, at))
  PROVE  Lists(got, s, Runs(s))
<1>1. PICK from : from = Begins(c, at)
  OBVIOUS
<1>2. Agree(c, s, at) /\ Lists(got, s, Before(s, at))
      /\ s \in Seq(Char) /\ at \in 1 .. EndOf(s)
  BY DEF Parted, Agree
<1>3. Begun(s, at, from) /\ from = EndOf(s)
  BY <1>1, <1>2, BeginsIs
<1>4. Before(s, at) = Runs(s)
  BY <1>2, <1>3, NoMoreRuns
<1>. QED
  BY <1>2, <1>4

-----------------------------------------------------------------------------
(* The steps of a split.                                                   *)

SplitRecord ==
  [pc : {"scan", "put"}, a : Arrays, copy : 1 .. 3, at : Nat, old : Seq(Char),
   whole : Seq(Char), got : Seq(Seq(Char))]

\* Of the invariant: a split sp that goes on in c.
Good(sp, c) ==
  LET s == sp.whole  at == sp.at IN
  /\ sp \in SplitRecord
  /\ at \in 1 .. EndOf(s) /\ (at = 1 \/ at = EndOf(s) \/ s[at - 1] = Delim)
  /\ sp.copy < 3 => Len(c) = Len(s) /\ \A i \in at .. Len(s) : c[i] = s[i]
  /\ Lists(sp.got, s, Before(s, at))

\* The array x has the parts that sp has made, but for the one that it puts next.
Counted(sp, x) == Len(sp.got) = x[sp.a].len + IF sp.pc = "put" THEN 1 ELSE 0

Splits == split # Idle => Splitting

LEMMA SplittingIs == Splitting <=> Good(split, Chars) /\ (status = "run" => Counted(split, arr))
BY DEF Splitting, Good, Counted, SplitRecord, Before

LEMMA SplittingNext == Splitting' <=> Good(split', Chars') /\ (status' = "run" => Counted(split', arr'))
BY DEF Splitting, Good, Counted, SplitRecord, Before

LEMMA RecordFacts ==
  ASSUME NEW sp \in SplitRecord
  PROVE  /\ sp.pc \in {"scan", "put"} /\ sp.a \in Arrays /\ sp.copy \in 1 .. 3 /\ sp.at \in Nat
         /\ sp.old \in Seq(Char) /\ sp.whole \in Seq(Char) /\ sp.got \in Seq(Seq(Char))
         /\ "a" \in DOMAIN sp
         /\ sp = [pc |-> sp.pc, a |-> sp.a, copy |-> sp.copy, at |-> sp.at, old |-> sp.old,
                  whole |-> sp.whole, got |-> sp.got]
BY DEF SplitRecord

LEMMA GoodParts ==
  ASSUME NEW sp, NEW c \in Seq(Char), Good(sp, c), sp.copy < 3
  PROVE  Parted(sp.got, c, sp.whole, sp.at)
BY RecordFacts DEF Good, Parted, Agree

LEMMA PartsGood ==
  ASSUME NEW sp \in SplitRecord, NEW c, Parted(sp.got, c, sp.whole, sp.at)
  PROVE  Good(sp, c)
BY DEF Good, Parted, Agree

LEMMA CharsType ==
  ASSUME Strings, Splits, split # Idle
  PROVE  /\ Good(split, Chars) /\ split \in SplitRecord /\ Chars \in Seq(Char)
         /\ text \in String /\ text.chars \in Seq(Char)
         /\ status = "run" => Counted(split, arr)
<1>1. Good(split, Chars) /\ (status = "run" => Counted(split, arr))
  BY SplittingIs DEF Splits
<1>2. split \in SplitRecord
  BY <1>1 DEF Good
<1>3. text \in String /\ text.chars \in Seq(Char)
  BY DEF Strings, String
<1>. QED
  BY <1>1, <1>2, <1>3, RecordFacts DEF Chars

\* Another place to read from: the string, or the copy that a collection has left behind.
LEMMA MovedGood ==
  ASSUME NEW sp, NEW c \in Seq(Char), Good(sp, c), NEW chars \in Seq(Char),
         sp.copy = 1 => c = chars, sp.copy # 1 => c = sp.old,
         NEW m, m = sp \/ m = Moved(sp, chars),
         NEW d, d = IF m.copy = 1 THEN chars ELSE m.old
  PROVE  Good(m, d) /\ m.pc = sp.pc /\ m.a = sp.a /\ m.got = sp.got
<1>1. sp \in SplitRecord
  BY DEF Good
<1>2. CASE m = sp
  <2>1. d = c
    BY <1>2
  <2>. QED
    BY <1>2, <2>1
<1>3. CASE m = [sp EXCEPT !.copy = 2, !.old = chars] /\ sp.copy = 1
  <2>0. m = [pc |-> sp.pc, a |-> sp.a, copy |-> 2, at |-> sp.at, old |-> chars,
             whole |-> sp.whole, got |-> sp.got]
    BY <1>1, <1>3, RecordFacts
  <2>1. m \in SplitRecord
    BY <1>1, <2>0, RecordFacts DEF SplitRecord
  <2>2. /\ m.pc = sp.pc /\ m.a = sp.a /\ m.got = sp.got /\ m.at = sp.at /\ m.whole = sp.whole
        /\ m.copy = 2 /\ m.old = chars
    BY <2>0
  <2>3. d = c
    BY <1>3, <2>2
  <2>. QED
    BY <1>3, <2>1, <2>2, <2>3 DEF Good
<1>4. CASE m = [sp EXCEPT !.copy = 3]
  <2>0. m = [pc |-> sp.pc, a |-> sp.a, copy |-> 3, at |-> sp.at, old |-> sp.old,
             whole |-> sp.whole, got |-> sp.got]
    BY <1>1, <1>4, RecordFacts
  <2>1. m \in SplitRecord
    BY <1>1, <2>0, RecordFacts DEF SplitRecord
  <2>2. /\ m.pc = sp.pc /\ m.a = sp.a /\ m.got = sp.got /\ m.at = sp.at /\ m.whole = sp.whole
        /\ m.copy = 3
    BY <2>0
  <2>. QED
    BY <2>1, <2>2 DEF Good
<1>. QED
  BY <1>2, <1>3, <1>4 DEF Moved

LEMMA BeginSplits ==
  ASSUME Core, Strings, NEW a \in Arrays, Begin(a)
  PROVE  Splits'
<1>1. text # Idle /\ split = Idle /\ text' = text /\ text \in String /\ text.chars \in Seq(Char)
  BY DEF Begin, Strings, String
<1>2. CASE split' = split
  BY <1>1, <1>2 DEF Splits
<1>3. CASE Renew(a) /\ split' = Started(a, text.chars)
  <2>1. PICK s \in Seq(Char) : s = text.chars
    BY <1>1
  <2>2. PICK sp : sp = Started(a, s)
    OBVIOUS
  <2>3. /\ sp.pc = "scan" /\ sp.a = a /\ sp.copy = 1 /\ sp.at = 1 /\ sp.got = <<>> /\ sp.whole = s
        /\ sp \in SplitRecord
    BY <2>2 DEF Started, SplitRecord
  <2>4. Agree(s, s, 1)
    <3>1. 1 \in 1 .. EndOf(s)
      BY EndFacts
    <3>. QED
      BY <3>1 DEF Agree
  <2>5. Before(s, 1) = {}
    <3>1. ASSUME NEW r \in Runs(s) PROVE ~(r[2] < 1)
      <4>1. r[2] \in 1 .. EndOf(s) - 1 /\ EndOf(s) \in Nat
        BY RunFacts, EndFacts
      <4>. QED
        BY <4>1
    <3>. QED
      BY <3>1 DEF Before
  <2>6. Lists(<<>>, s, {})
    <3>1. ByRuns(<<>>, <<>>, s, {})
      BY DEF ByRuns
    <3>. QED
      BY <3>1, ListsBy
  <2>7. Good(sp, s)
    <3>1. Parted(<<>>, s, s, 1)
      BY <2>4, <2>5, <2>6 DEF Parted
    <3>2. Parted(sp.got, s, sp.whole, sp.at)
      BY <2>3, <3>1
    <3>. QED
      BY <2>3, <3>2, PartsGood
  <2>8. arr'[a].len = 0
    BY <1>3, CoreFacts DEF Renew, Ready, Fits
  <2>9. Counted(sp, arr')
    BY <2>3, <2>8 DEF Counted
  <2>10. split' = sp /\ Chars' = s
    BY <1>1, <1>3, <2>1, <2>2, <2>3 DEF Chars
  <2>. QED
    BY <2>7, <2>9, <2>10, SplittingNext DEF Splits
<1>. QED
  BY <1>2, <1>3 DEF Begin

LEMMA StraySet ==
  ASSUME NEW sp \in SplitRecord, NEW x
  PROVE  [sp EXCEPT !.copy = x] =
           [pc |-> sp.pc, a |-> sp.a, copy |-> x, at |-> sp.at, old |-> sp.old,
            whole |-> sp.whole, got |-> sp.got]
<1>1. PICK p, a, c, at, old, w, g : sp = [pc |-> p, a |-> a, copy |-> c, at |-> at, old |-> old, whole |-> w, got |-> g]
  BY RecordFacts
<1>2. /\ sp.pc = p /\ sp.a = a /\ sp.copy = c /\ sp.at = at /\ sp.old = old
      /\ sp.whole = w /\ sp.got = g
  BY <1>1
<1>3. [sp EXCEPT !.copy = x] =
        [pc |-> p, a |-> a, copy |-> x, at |-> at, old |-> old,
            whole |-> w, got |-> g]
  BY <1>1
<1>. QED
  BY <1>2, <1>3

LEMMA ScanSet ==
  ASSUME NEW sp \in SplitRecord, NEW x
  PROVE  [sp EXCEPT !.pc = x] =
           [pc |-> x, a |-> sp.a, copy |-> sp.copy, at |-> sp.at, old |-> sp.old,
            whole |-> sp.whole, got |-> sp.got]
<1>1. PICK p, a, c, at, old, w, g : sp = [pc |-> p, a |-> a, copy |-> c, at |-> at, old |-> old, whole |-> w, got |-> g]
  BY RecordFacts
<1>2. /\ sp.pc = p /\ sp.a = a /\ sp.copy = c /\ sp.at = at /\ sp.old = old
      /\ sp.whole = w /\ sp.got = g
  BY <1>1
<1>3. [sp EXCEPT !.pc = x] =
        [pc |-> x, a |-> a, copy |-> c, at |-> at, old |-> old,
            whole |-> w, got |-> g]
  BY <1>1
<1>. QED
  BY <1>2, <1>3

LEMMA GotSet ==
  ASSUME NEW sp \in SplitRecord, NEW x
  PROVE  [sp EXCEPT !.got = x] =
           [pc |-> sp.pc, a |-> sp.a, copy |-> sp.copy, at |-> sp.at, old |-> sp.old,
            whole |-> sp.whole, got |-> x]
<1>1. PICK p, a, c, at, old, w, g : sp = [pc |-> p, a |-> a, copy |-> c, at |-> at, old |-> old, whole |-> w, got |-> g]
  BY RecordFacts
<1>2. /\ sp.pc = p /\ sp.a = a /\ sp.copy = c /\ sp.at = at /\ sp.old = old
      /\ sp.whole = w /\ sp.got = g
  BY <1>1
<1>3. [sp EXCEPT !.got = x] =
        [pc |-> p, a |-> a, copy |-> c, at |-> at, old |-> old,
            whole |-> w, got |-> x]
  BY <1>1
<1>. QED
  BY <1>2, <1>3

SetAt(sp, x, y, z) == [sp EXCEPT !.pc = x, !.at = y, !.old = z]
SetCopy(sp, x, y) == [sp EXCEPT !.copy = x, !.old = y]

LEMMA AtSet ==
  ASSUME NEW sp \in SplitRecord, NEW x \in {"scan", "put"}, NEW y \in Nat, NEW z \in Seq(Char),
         NEW m, m = SetAt(sp, x, y, z)
  PROVE  m \in SplitRecord /\ m = [pc |-> x, a |-> sp.a, copy |-> sp.copy, at |-> y, old |-> z,
                                   whole |-> sp.whole, got |-> sp.got]
<1>1. PICK u : u = [sp EXCEPT !.pc = x]
  OBVIOUS
<1>2. PICK v : v = [u EXCEPT !.at = y]
  OBVIOUS
<1>3. m = [v EXCEPT !.old = z]
  BY <1>1, <1>2 DEF SetAt
<1>4. u = [pc |-> x, a |-> sp.a, copy |-> sp.copy, at |-> sp.at, old |-> sp.old,
           whole |-> sp.whole, got |-> sp.got]
  BY <1>1, ScanSet
<1>5. v = [pc |-> x, a |-> sp.a, copy |-> sp.copy, at |-> y, old |-> sp.old,
           whole |-> sp.whole, got |-> sp.got]
  BY <1>2, <1>4
<1>6. m = [pc |-> x, a |-> sp.a, copy |-> sp.copy, at |-> y, old |-> z,
           whole |-> sp.whole, got |-> sp.got]
  BY <1>3, <1>5
<1>7. m \in SplitRecord
  BY <1>6, RecordFacts DEF SplitRecord
<1>. QED
  BY <1>6, <1>7

CopyIs(m, sp, x, y) ==
  /\ m \in SplitRecord
  /\ m = [pc |-> sp.pc, a |-> sp.a, copy |-> x, at |-> sp.at, old |-> y, whole |-> sp.whole, got |-> sp.got]

LEMMA CopySet ==
  ASSUME NEW sp \in SplitRecord, NEW x \in 1 .. 3, NEW y \in Seq(Char),
         NEW m, m = SetCopy(sp, x, y)
  PROVE  CopyIs(m, sp, x, y)
<1>1. PICK u : u = [sp EXCEPT !.copy = x]
  OBVIOUS
<1>2. m = [u EXCEPT !.old = y]
  BY <1>1 DEF SetCopy
<1>3. u = [pc |-> sp.pc, a |-> sp.a, copy |-> x, at |-> sp.at, old |-> sp.old,
           whole |-> sp.whole, got |-> sp.got]
  BY <1>1, StraySet
<1>4. m = [pc |-> sp.pc, a |-> sp.a, copy |-> x, at |-> sp.at, old |-> y,
           whole |-> sp.whole, got |-> sp.got]
  BY <1>2, <1>3
<1>5. m \in SplitRecord
  BY <1>4, RecordFacts DEF SplitRecord
<1>. QED
  BY <1>4, <1>5 DEF CopyIs

\* A split before its next part is listed: sp, but that it puts, goes on at new, and
\* has cut where it has strtok's characters of its own.
Cutting(sp, cut, new) ==
  [sp EXCEPT !.pc = "put", !.at = new, !.old = IF sp.copy = 2 THEN cut ELSE @]

LEMMA CuttingIs ==
  ASSUME NEW sp \in SplitRecord, NEW cut \in Seq(Char), NEW new \in Nat
  PROVE  /\ Cutting(sp, cut, new) \in SplitRecord
         /\ Cutting(sp, cut, new) =
              [pc |-> "put", a |-> sp.a, copy |-> sp.copy, at |-> new,
               old |-> IF sp.copy = 2 THEN cut ELSE sp.old, whole |-> sp.whole, got |-> sp.got]
<1>1. PICK m : m = Cutting(sp, cut, new)
  OBVIOUS
<1>2. m = [pc |-> "put", a |-> sp.a, copy |-> sp.copy, at |-> new,
           old |-> IF sp.copy = 2 THEN cut ELSE sp.old, whole |-> sp.whole, got |-> sp.got]
  <2>1. PICK z : z = IF sp.copy = 2 THEN cut ELSE sp.old
    OBVIOUS
  <2>2. m = SetAt(sp, "put", new, z)
    BY <1>1, <2>1 DEF Cutting, SetAt
  <2>3. z \in Seq(Char)
    BY <2>1, RecordFacts
  <2>4. m = [pc |-> "put", a |-> sp.a, copy |-> sp.copy, at |-> new, old |-> z,
             whole |-> sp.whole, got |-> sp.got]
    BY <2>2, <2>3, AtSet
  <2>. QED
    BY <2>1, <2>4
<1>3. m \in SplitRecord
  BY <1>2, RecordFacts DEF SplitRecord
<1>. QED
  BY <1>1, <1>2, <1>3

\* What a split is while its part is listed, after a collection or without one.
LEMMA MovedCutting ==
  ASSUME NEW sp \in SplitRecord, sp.copy < 3, NEW cut \in Seq(Char), NEW new \in Nat,
         NEW chars \in Seq(Char), sp.copy = 1 => chars = cut,
         NEW next, next = Cutting(sp, cut, new), NEW now, now = next \/ now = Moved(next, chars)
  PROVE  /\ now \in SplitRecord
         /\ now.pc = "put" /\ now.a = sp.a /\ now.at = new /\ now.whole = sp.whole /\ now.got = sp.got
         /\ now.copy = 1 => sp.copy = 1
         /\ now.copy = 2 => now.old = cut
         /\ now.copy = 3 => sp.copy = 2
<1>1. next \in SplitRecord
  BY CuttingIs
<1>2. /\ next.pc = "put" /\ next.a = sp.a /\ next.at = new /\ next.whole = sp.whole /\ next.got = sp.got
      /\ next.copy = sp.copy /\ (sp.copy = 2 => next.old = cut) /\ sp.copy \in 1 .. 2
  <2>1. next = [pc |-> "put", a |-> sp.a, copy |-> sp.copy, at |-> new,
                old |-> IF sp.copy = 2 THEN cut ELSE sp.old, whole |-> sp.whole, got |-> sp.got]
    BY CuttingIs
  <2>2. sp.copy \in 1 .. 2
    BY RecordFacts
  <2>. QED
    BY <2>1, <2>2
<1>3. CASE now = next
  BY <1>1, <1>2, <1>3
<1>4. CASE now = [next EXCEPT !.copy = 2, !.old = chars] /\ next.copy = 1
  <2>1. now = [pc |-> next.pc, a |-> next.a, copy |-> 2, at |-> next.at, old |-> chars,
               whole |-> next.whole, got |-> next.got]
    <3>1. PICK x \in 1 .. 3 : x = 2
      OBVIOUS
    <3>2. now = SetCopy(next, x, chars)
      BY <1>4, <3>1 DEF SetCopy
    <3>3. CopyIs(now, next, x, chars)
      BY <1>1, <3>2, CopySet
    <3>. QED
      BY <3>1, <3>3 DEF CopyIs
  <2>2. now \in SplitRecord
    BY <1>1, <2>1, RecordFacts DEF SplitRecord
  <2>. QED
    BY <1>2, <1>4, <2>1, <2>2
<1>5. CASE now = [next EXCEPT !.copy = 3] /\ next.copy # 1
  <2>1. now = [pc |-> next.pc, a |-> next.a, copy |-> 3, at |-> next.at, old |-> next.old,
               whole |-> next.whole, got |-> next.got]
    BY <1>1, <1>5, StraySet
  <2>2. now \in SplitRecord
    BY <1>1, <2>1, RecordFacts DEF SplitRecord
  <2>. QED
    BY <1>2, <1>5, <2>1, <2>2
<1>. QED
  BY <1>3, <1>4, <1>5 DEF Moved

\* One more part is listed.
Listing(sp, part) == [sp EXCEPT !.got = Append(@, part)]

LEMMA ListedGood ==
  ASSUME NEW now \in SplitRecord, NEW cut, NEW part,
         Parted(Append(now.got, part), cut, now.whole, now.at),
         NEW m, m = Listing(now, part)
  PROVE  /\ Good(m, cut) /\ m.copy = now.copy /\ m.old = now.old /\ m.a = now.a /\ m.pc = now.pc
         /\ m.got = Append(now.got, part)
<1>1. m = [pc |-> now.pc, a |-> now.a, copy |-> now.copy, at |-> now.at, old |-> now.old,
           whole |-> now.whole, got |-> Append(now.got, part)]
  <2>1. PICK g : g = Append(now.got, part)
    OBVIOUS
  <2>2. m = [now EXCEPT !.got = g]
    BY <2>1 DEF Listing
  <2>. QED
    BY <2>1, <2>2, GotSet
<1>2. Append(now.got, part) \in Seq(Seq(Char))
  BY DEF Parted
<1>3. m \in SplitRecord
  BY <1>1, <1>2, RecordFacts DEF SplitRecord
<1>4. Parted(m.got, cut, m.whole, m.at)
  BY <1>1
<1>. QED
  <2>1. Good(m, cut)
    BY <1>3, <1>4, PartsGood
  <2>. QED
    BY <1>1, <2>1

\* What Token does to the split: next, or what a collection makes of it.
Tokens(from, cut, next) ==
  \E k \in BOOLEAN :
    LET now == IF k THEN Moved(next, text'.chars) ELSE next
        here == IF now.copy = 2 THEN now.old ELSE cut
    IN IF now.copy = 3 /\ k
       THEN status' = "wild" /\ UNCHANGED split
       ELSE split' = Listing(now, Made(here, from)) /\ UNCHANGED status

LEMMA TokenSplits ==
  ASSUME Core, Strings, Splits, Token
  PROVE  Splits'
<1>1. PICK c : c = Chars
  OBVIOUS
<1>2. PICK from : from = Begins(c, split.at)
  OBVIOUS
<1>3. PICK to : to = Stops(c, split.at)
  OBVIOUS
<1>4. PICK cut : cut = CutAt(c, to)
  OBVIOUS
<1>5. PICK new : new = Behind(c, to)
  OBVIOUS
<1>6. /\ split # Idle /\ split.pc = "scan" /\ status = "run" /\ split.copy < 3
      /\ ~Ends(c, from) /\ arr' = arr
      /\ text' = [text EXCEPT !.chars = IF split.copy = 1 THEN cut ELSE @]
  BY <1>1, <1>2, <1>3, <1>4 DEF Token, CutAt
<1>7. PICK next : next = Cutting(split, cut, new)
  OBVIOUS
<1>8. PICK k \in BOOLEAN :
        LET now == IF k THEN Moved(next, text'.chars) ELSE next
            here == IF now.copy = 2 THEN now.old ELSE cut
        IN IF now.copy = 3 /\ k
           THEN status' = "wild" /\ UNCHANGED split
           ELSE split' = Listing(now, Made(here, from)) /\ UNCHANGED status
  <2>1. LET s == Chars
            f == Begins(s, split.at)
            t == Stops(s, split.at)
            u == IF Ends(s, t) THEN s ELSE [s EXCEPT ![t] = End]
        IN Tokens(f, u, [split EXCEPT !.pc = "put", !.at = IF Ends(s, t) THEN t ELSE t + 1,
                                      !.old = IF split.copy = 2 THEN u ELSE @])
    BY Zenon DEF Token, Tokens, Listing, Made
  <2>2. Tokens(from, CutAt(c, to), Cutting(split, CutAt(c, to), Behind(c, to)))
    BY <1>1, <1>2, <1>3, <2>1, Zenon DEF CutAt, Cutting, Behind
  <2>3. Tokens(from, cut, next)
    BY <1>4, <1>5, <1>7, <2>2, Zenon
  <2>. QED
    BY <2>3, Zenon DEF Tokens
<1>9. PICK now : now = IF k THEN Moved(next, text'.chars) ELSE next
  OBVIOUS
<1>10. \/ now.copy = 3 /\ status' = "wild" /\ split' = split
       \/ /\ ~(now.copy = 3 /\ k) /\ status' = "run"
          /\ split' = Listing(now, Made(IF now.copy = 2 THEN now.old ELSE cut, from))
  BY <1>6, <1>8, <1>9
<1>11. /\ Good(split, c) /\ split \in SplitRecord /\ c \in Seq(Char) /\ Counted(split, arr)
       /\ text \in String /\ text.chars \in Seq(Char)
  BY <1>1, <1>6, CharsType
<1>12. PICK part : part = Made(cut, from)
  OBVIOUS
<1>13. Parted(Append(split.got, part), cut, split.whole, new)
  <2>1. Parted(split.got, c, split.whole, split.at)
    BY <1>6, <1>11, GoodParts
  <2>2. Takes(c, split.at, from, to, cut, new)
    BY <1>2, <1>3, <1>4, <1>5 DEF Takes
  <2>. QED
    BY <1>6, <1>12, <2>1, <2>2, TokenParts
<1>14. cut \in Seq(Char) /\ new \in Nat
  <2>1. Agree(cut, split.whole, new)
    BY <1>13 DEF Parted
  <2>2. EndOf(split.whole) \in Nat
    BY <1>11, RecordFacts, EndFacts
  <2>. QED
    BY <2>1, <2>2 DEF Agree
<1>15. text'.chars = (IF split.copy = 1 THEN cut ELSE text.chars) /\ text'.chars \in Seq(Char)
  BY <1>6, <1>11, <1>14 DEF String
<1>16. /\ now \in SplitRecord
       /\ now.pc = "put" /\ now.a = split.a /\ now.at = new /\ now.whole = split.whole /\ now.got = split.got
       /\ now.copy = 1 => split.copy = 1
       /\ now.copy = 2 => now.old = cut
       /\ now.copy = 3 => split.copy = 2
  <2>1. now = next \/ now = Moved(next, text'.chars)
    BY <1>9
  <2>2. PICK chars \in Seq(Char) : chars = text'.chars
    BY <1>15
  <2>3. (now = next \/ now = Moved(next, chars)) /\ (split.copy = 1 => chars = cut)
    BY <1>15, <2>1, <2>2
  <2>. QED
    BY <1>6, <1>7, <1>11, <1>14, <2>3, MovedCutting
<1>17. CASE now.copy = 3 /\ status' = "wild" /\ split' = split
  <2>1. split.copy = 2
    BY <1>16, <1>17
  <2>2. Chars' = c
    BY <1>1, <1>17, <2>1 DEF Chars
  <2>. QED
    BY <1>11, <1>17, <2>2, SplittingNext DEF Splits
<1>18. CASE /\ ~(now.copy = 3 /\ k) /\ status' = "run"
            /\ split' = Listing(now, Made(IF now.copy = 2 THEN now.old ELSE cut, from))
  <2>1. now.copy \in 1 .. 2
    <3>1. now.copy = 3 => k
      <4>1. ~k => next.copy = split.copy
        BY <1>7, <1>11, <1>14, CuttingIs
      <4>. QED
        BY <1>6, <1>9, <4>1
    <3>. QED
      BY <1>16, <1>18, <3>1, RecordFacts
  <2>2. (IF now.copy = 2 THEN now.old ELSE cut) = cut
    BY <1>16
  <2>3. split' = Listing(now, part)
    BY <1>12, <1>18, <2>2
  <2>4. Parted(Append(now.got, part), cut, now.whole, now.at)
    BY <1>13, <1>16
  <2>5. PICK m : m = split'
    OBVIOUS
  <2>6. /\ Good(m, cut) /\ m.copy = now.copy /\ m.old = now.old /\ m.a = now.a /\ m.pc = now.pc
        /\ m.got = Append(now.got, part)
    BY <1>16, <2>3, <2>4, <2>5, ListedGood
  <2>7. Chars' = cut
    BY <1>15, <1>16, <2>1, <2>5, <2>6 DEF Chars
  <2>8. Counted(m, arr')
    <3>1. Len(Append(split.got, part)) = Len(split.got) + 1
      <4>1. split.got \in Seq(Seq(Char))
        BY <1>11, RecordFacts
      <4>. QED
        BY <4>1
    <3>2. Len(split.got) = arr[split.a].len + 0
      BY <1>6, <1>11 DEF Counted
    <3>3. Len(split.got) \in Nat
      BY <1>11, RecordFacts
    <3>4. m.got = Append(split.got, part) /\ m.pc = "put" /\ arr'[m.a].len = arr[split.a].len
      BY <1>6, <1>16, <2>6
    <3>5. arr[split.a].len + 0 = arr[split.a].len
      <4>1. arr[split.a].len \in Nat
        BY <1>11, RecordFacts, CoreFacts, ArrayFacts
      <4>. QED
        BY <4>1
    <3>. QED
      BY <3>1, <3>2, <3>3, <3>4, <3>5 DEF Counted
  <2>. QED
    BY <1>18, <2>5, <2>6, <2>7, <2>8, SplittingNext DEF Splits
<1>. QED
  BY <1>10, <1>17, <1>18

\* Adding an element makes the array one longer, or stops.
LEMMA AddCounts ==
  ASSUME Core, NEW a \in Arrays, NEW v, Add(a, v)
  PROVE  /\ status = "run" /\ (status' = "run" \/ status' = "hang")
         /\ status' = "run" => arr'[a].len = arr[a].len + 1
<1>1. arr[a].len \in Nat /\ arr \in [Arrays -> [len : 0 .. MaxLen, alloc : Nat, objs : Ids]]
  BY CoreFacts, ArrayFacts DEF Ready, Fits
<1>2. status = "run" /\ (status' = "run" \/ status' = "hang")
  BY DEF Add, Stop
<1>3. ASSUME status' = "run" PROVE arr'[a].len = arr[a].len + 1
  <2>1. arr' = AtLeast(a, arr[a].len + 1).arr
    BY <1>3 DEF Add, Stop
  <2>2. PICK n : n = arr[a].len + 1
    OBVIOUS
  <2>3. CASE n > arr[a].alloc
    <3>1. arr' = [arr EXCEPT ![a] = [len |-> n, alloc |-> NewSize(arr[a].alloc, n), objs |-> Fresh(a)]]
      BY <2>1, <2>2, <2>3 DEF AtLeast, Grown
    <3>. QED
      BY <1>1, <2>2, <3>1
  <2>4. CASE ~(n > arr[a].alloc)
    <3>1. n > arr[a].len
      BY <1>1, <2>2
    <3>2. arr' = [arr EXCEPT ![a].len = n]
      BY <2>1, <2>2, <2>4, <3>1 DEF AtLeast
    <3>. QED
      BY <1>1, <2>2, <3>2
  <2>. QED
    BY <2>3, <2>4
<1>. QED
  BY <1>2, <1>3

LEMMA Put1Splits ==
  ASSUME Core, Strings, Splits, NEW v \in Refs, Put1(v)
  PROVE  Splits'
<1>1. split # Idle /\ split.pc = "put" /\ Add(split.a, v) /\ text' = text
  BY DEF Put1
<1>2. PICK next : next = [split EXCEPT !.pc = "scan"]
  OBVIOUS
<1>3. split' = next \/ split' = Moved(next, text.chars)
  BY <1>2 DEF Put1
<1>4. PICK c : c = Chars
  OBVIOUS
<1>5. /\ Good(split, c) /\ split \in SplitRecord /\ c \in Seq(Char) /\ text.chars \in Seq(Char)
      /\ status = "run" => Counted(split, arr)
  BY <1>1, <1>4, CharsType
<1>6. split.a \in Arrays /\ split.got \in Seq(Seq(Char))
  BY <1>5, RecordFacts
<1>7. next = [pc |-> "scan", a |-> split.a, copy |-> split.copy, at |-> split.at, old |-> split.old,
              whole |-> split.whole, got |-> split.got]
  BY <1>2, <1>5, ScanSet
<1>8. next \in SplitRecord
  BY <1>5, <1>7, RecordFacts DEF SplitRecord
<1>9. Good(next, c)
  BY <1>5, <1>7, <1>8 DEF Good
<1>10. PICK m : m = split'
  OBVIOUS
<1>11. PICK d : d = Chars'
  OBVIOUS
<1>12. d = IF m.copy = 1 THEN text.chars ELSE m.old
  BY <1>1, <1>10, <1>11 DEF Chars
<1>13. (next.copy = 1 => c = text.chars) /\ (next.copy # 1 => c = next.old)
  BY <1>4, <1>7 DEF Chars
<1>14. PICK chars \in Seq(Char) : chars = text.chars
  BY <1>5
<1>15. Good(m, d) /\ m.pc = next.pc /\ m.a = next.a /\ m.got = next.got
  <2>1. m = next \/ m = Moved(next, chars)
    BY <1>3, <1>10, <1>14
  <2>2. /\ d = IF m.copy = 1 THEN chars ELSE m.old
        /\ next.copy = 1 => c = chars
        /\ next.copy # 1 => c = next.old
    BY <1>12, <1>13, <1>14
  <2>. QED
    BY <1>5, <1>9, <2>1, <2>2, MovedGood
<1>16. status' = "run" => Counted(m, arr')
  <2>. SUFFICES ASSUME status' = "run" PROVE Counted(m, arr')
    OBVIOUS
  <2>1. status = "run" /\ arr'[split.a].len = arr[split.a].len + 1
    BY <1>1, <1>6, AddCounts
  <2>2. Len(split.got) = arr[split.a].len + 1
    BY <1>1, <1>5, <2>1 DEF Counted
  <2>3. m.pc = "scan" /\ m.a = split.a /\ m.got = split.got
    BY <1>7, <1>15
  <2>4. Len(split.got) \in Nat
    BY <1>6
  <2>. QED
    BY <2>1, <2>2, <2>3, <2>4 DEF Counted
<1>. QED
  BY <1>10, <1>11, <1>15, <1>16, SplittingNext DEF Splits

\* The part of the invariant that is about splits is kept by every step.
LEMMA StepSplits ==
  ASSUME Core, Strings, Splits, [SplitNext]_all
  PROVE  Splits'
<1>1. CASE text = Idle /\ Next /\ UNCHANGED <<text, split>>
  BY <1>1 DEF Strings, Splits
<1>2. ASSUME NEW a \in Arrays, Begin(a) PROVE Splits'
  BY <1>2, BeginSplits
<1>3. CASE Token
  BY <1>3, TokenSplits
<1>4. CASE Strays
  <2>1. status' = "wild" /\ arr' = arr /\ text' = text /\ split' = split
    BY <1>4 DEF Strays, Stop
  <2>2. Chars' = Chars
    BY <2>1 DEF Chars
  <2>. QED
    BY <2>1, <2>2, SplittingIs, SplittingNext DEF Splits
<1>5. CASE UNCHANGED all \/ Return
  <2>1. CASE UNCHANGED all
    <3>1. status' = status /\ arr' = arr /\ text' = text /\ split' = split
      BY <2>1 DEF all, vars
    <3>2. Chars' = Chars
      BY <3>1 DEF Chars
    <3>. QED
      BY <3>1, <3>2, SplittingIs, SplittingNext DEF Splits
  <2>2. CASE Return
    BY <2>2 DEF Return, Splits
  <2>. QED
    BY <1>5, <2>1, <2>2
<1>6. ASSUME NEW v \in Refs, Put1(v) PROVE Splits'
  BY <1>6, Put1Splits
<1>. QED
  BY <1>1, <1>2, <1>3, <1>4, <1>5, <1>6 DEF SplitNext

\* A split that returns has listed every run of its string.
LEMMA ReturnSplits ==
  ASSUME Core, Strings, Splits, Return
  PROVE  Lists(split.got, split.whole, Runs(split.whole)) /\ arr[split.a].len = Len(split.got)
<1>1. /\ split # Idle /\ split.pc = "scan" /\ status = "run" /\ split.copy < 3
      /\ Ends(Chars, Begins(Chars, split.at))
  BY DEF Return
<1>2. PICK c : c = Chars
  OBVIOUS
<1>3. Good(split, c) /\ split \in SplitRecord /\ c \in Seq(Char) /\ Counted(split, arr)
  BY <1>1, <1>2, CharsType
<1>4. Lists(split.got, split.whole, Runs(split.whole))
  <2>1. Parted(split.got, c, split.whole, split.at)
    BY <1>1, <1>3, GoodParts
  <2>2. Ends(c, Begins(c, split.at))
    BY <1>1, <1>2
  <2>. QED
    BY <2>1, <2>2, NoTokenParts
<1>5. arr[split.a].len = Len(split.got)
  <2>1. arr[split.a].len \in Nat
    BY <1>3, RecordFacts, CoreFacts, ArrayFacts
  <2>2. Len(split.got) = arr[split.a].len + 0
    BY <1>1, <1>3 DEF Counted
  <2>. QED
    BY <2>1, <2>2
<1>. QED
  BY <1>4, <1>5

-----------------------------------------------------------------------------
(* The theorems.                                                           *)

LEMMA InitCore ==
  ASSUME SplitInit
  PROVE  Core /\ Strings
<1>1. PICK made \in [Arrays -> NewArray \cup Literal] :
        /\ arr = [a \in Arrays |-> [len |-> made[a].len, alloc |-> made[a].alloc, objs |-> <<a, 0>>]]
        /\ objs = [id \in Ids |->
                     IF id[2] > 0 THEN Unused
                     ELSE [len   |-> made[id[1]].len,
                           cells |-> [i \in 0 .. made[id[1]].alloc - 1 |-> Nil]]]
        /\ top = Nil /\ pend = <<>> /\ status = "run" /\ lost = {}
  BY DEF SplitInit, Init
<1>2. MaxLen \in Nat /\ MaxSize \in Nat /\ MaxLen <= MaxSize /\ InitSize \in 1 .. MaxSize
      /\ MaxPending \in Nat /\ MaxLiteral \in 0 .. MaxLen
  BY ArraysAssumption DEF MaxSize
<1>3. ASSUME NEW a \in Arrays
      PROVE  /\ made[a].len \in 0 .. MaxLen /\ made[a].alloc \in 1 .. MaxSize
             /\ made[a].len <= made[a].alloc
  <2>1. made[a] \in NewArray \/ made[a] \in Literal
    OBVIOUS
  <2>2. CASE made[a] \in NewArray
    BY <2>2, <1>2 DEF NewArray
  <2>3. CASE made[a] \in Literal
    <3>1. PICK n \in 1 .. MaxLiteral : made[a] = [len |-> n, alloc |-> n]
      BY <2>3 DEF Literal
    <3>. QED
      BY <3>1, <1>2
  <2>. QED
    BY <2>1, <2>2, <2>3
<1> DEFINE cells(a) == [i \in 0 .. made[a].alloc - 1 |-> Nil]
           new(a) == [len |-> made[a].len, cells |-> cells(a)]
<1>4. ASSUME NEW a \in Arrays
      PROVE  new(a) \in Object /\ new(a).len = made[a].len /\ new(a).cells = cells(a)
  <2>1. cells(a) \in [0 .. made[a].alloc - 1 -> Val]
    BY DEF Val
  <2>. HIDE DEF cells
  <2>. QED
    BY <2>1, <1>3, ObjectFacts
<1>5. objs = [id \in Ids |-> IF id[2] > 0 THEN Unused ELSE new(id[1])]
  BY <1>1
<1>. HIDE DEF new
<1>5a. \A a \in Arrays : <<a, 0>> \in Ids
  BY <1>2 DEF Ids
<1>5b. \A a \in Arrays : objs[<<a, 0>>] = new(a)
  <2>. TAKE a \in Arrays
  <2>1. ~(<<a, 0>>[2] > 0) /\ <<a, 0>>[1] = a
    OBVIOUS
  <2>. QED
    BY <2>1, <1>5, <1>5a
<1>6. \A id \in Ids : IF id[2] > 0 THEN objs[id] = Unused
                      ELSE id[1] \in Arrays /\ id = <<id[1], 0>>
  BY <1>5 DEF Ids
<1>7. \A a \in Arrays :
        /\ arr[a] \in [len : 0 .. MaxLen, alloc : Nat, objs : Ids]
        /\ arr[a].len = made[a].len /\ arr[a].alloc = made[a].alloc /\ arr[a].objs = <<a, 0>>
  <2>. TAKE a \in Arrays
  <2>1. arr[a] = [len |-> made[a].len, alloc |-> made[a].alloc, objs |-> <<a, 0>>]
    BY <1>1
  <2>2. made[a].alloc \in Nat /\ made[a].len \in 0 .. MaxLen /\ <<a, 0>> \in Ids
    BY <1>2, <1>3, <1>5a
  <2>. QED
    BY <2>1, <2>2
<1>8. DOMAIN pend = {} /\ Len(pend) = 0 /\ \A S : pend \in Seq(S)
  BY <1>1
<1>9. /\ \A a \in Arrays : arr[a].objs \in Used(arr, pend) /\ <<a, 0>> \in Used(arr, pend)
      /\ \A id \in Used(arr, pend) : \E a \in Arrays : id = arr[a].objs
  BY <1>7, <1>8 DEF Used
<1>10. arr = [a \in Arrays |-> arr[a]] /\ objs = [id \in Ids |-> objs[id]]
  BY <1>1
<1>11. objs \in [Ids -> Object \cup {Unused}]
  <2>1. ASSUME NEW id \in Ids PROVE objs[id] \in Object \cup {Unused}
    <3>1. CASE id[2] > 0
      BY <3>1, <1>6
    <3>2. CASE ~(id[2] > 0)
      BY <3>2, <1>4, <1>6, <1>5b
    <3>. QED
      BY <3>1, <3>2
  <2>. QED
    BY <2>1, <1>10
<1>12. \A id \in Ids : objs[id] # Unused => id \in Used(arr, pend)
  BY <1>6, <1>9
<1>13. ASSUME NEW a \in Arrays
       PROVE  /\ objs[arr[a].objs] \in Object /\ objs[arr[a].objs].len = arr[a].len
              /\ DOMAIN objs[arr[a].objs].cells = 0 .. arr[a].alloc - 1
              /\ arr[a].len <= arr[a].alloc
              /\ 0 .. arr[a].len - 1 \subseteq 0 .. arr[a].alloc - 1
              /\ \A i \in DOMAIN objs[arr[a].objs].cells : objs[arr[a].objs].cells[i] = Nil
  <2>1. objs[arr[a].objs] = new(a)
    BY <1>7, <1>5b
  <2>2. arr[a].len \in Int /\ arr[a].alloc \in Int /\ arr[a].len <= arr[a].alloc
    BY <1>2, <1>3, <1>7
  <2>3. 0 .. arr[a].len - 1 \subseteq 0 .. arr[a].alloc - 1
    BY <2>2
  <2>4. DOMAIN cells(a) = 0 .. arr[a].alloc - 1 /\ \A i \in DOMAIN cells(a) : cells(a)[i] = Nil
    BY <1>7
  <2>. HIDE DEF cells
  <2>5. objs[arr[a].objs].len = arr[a].len /\ objs[arr[a].objs].cells = cells(a)
    BY <2>1, <1>4, <1>7
  <2>6. objs[arr[a].objs] \in Object
    BY <2>1, <1>4
  <2>. QED
    BY <2>2, <2>3, <2>4, <2>5, <2>6
<1>14. Fits(arr, objs, pend)
  <2>1. arr \in [Arrays -> [len : 0 .. MaxLen, alloc : Nat, objs : Ids]]
    BY <1>7, <1>10
  <2>2. \A id \in Used(arr, pend) : objs[id] \in Object /\ 0 .. objs[id].len - 1 \subseteq DOMAIN objs[id].cells
    <3>. TAKE id \in Used(arr, pend)
    <3>1. PICK a \in Arrays : id = arr[a].objs
      BY <1>9
    <3>2. objs[id] \in Object /\ objs[id].len = arr[a].len
      BY <3>1, <1>13
    <3>3. DOMAIN objs[id].cells = 0 .. arr[a].alloc - 1
      BY <3>1, <1>13
    <3>4. 0 .. arr[a].len - 1 \subseteq 0 .. arr[a].alloc - 1
      BY <1>13
    <3>. QED
      BY <3>2, <3>3, <3>4
  <2>3. \A a \in Arrays :
          /\ arr[a].objs[1] = a
          /\ objs[arr[a].objs].len <= arr[a].len /\ arr[a].len <= arr[a].alloc
          /\ DOMAIN objs[arr[a].objs].cells = 0 .. arr[a].alloc - 1
    <3>. TAKE a \in Arrays
    <3>1. arr[a].objs[1] = a
      BY <1>7
    <3>2. arr[a].len \in Int /\ objs[arr[a].objs].len = arr[a].len
      BY <1>2, <1>7, <1>13
    <3>. QED
      BY <3>1, <3>2, <1>13
  <2>. QED
    BY <2>1, <2>2, <2>3, <1>8 DEF Fits
<1>15. \A id \in Used(arr, pend) : \A i \in DOMAIN objs[id].cells : objs[id].cells[i] = Nil
  <2>. TAKE id \in Used(arr, pend)
  <2>1. PICK a \in Arrays : id = arr[a].objs
    BY <1>9
  <2>. QED
    BY <2>1, <1>13
<1>16. TypeOK
  <2>1. \A a \in Arrays : objs[arr[a].objs] # Unused /\ DOMAIN Elems(a).cells = 0 .. arr[a].alloc - 1
    BY <1>13, ValuesAssumption DEF Elems
  <2>2. top \in Val
    BY <1>1 DEF Val
  <2>. QED
    BY <2>1, <2>2, <1>1, <1>8, <1>11, <1>14 DEF TypeOK, Fits
<1>17. Nil # Dangling
  BY ValuesAssumption
<1>18. Solid(arr, objs, pend)
  BY <1>15, <1>17 DEF Solid
<1>19. LengthsAgree
  BY <1>13 DEF LengthsAgree, Elems
<1>20. Sound
  <2>1. \A id \in Used(arr, pend) : 0 .. objs[id].len - 1 \subseteq DOMAIN objs[id].cells
    BY <1>14 DEF Fits
  <2>2. \A id \in Used(arr, pend) : \A i \in 0 .. objs[id].len - 1 : objs[id].cells[i] # Dangling
    BY <2>1, <1>15, <1>17
  <2>. QED
    BY <2>2, <1>1, <1>17, <1>19 DEF Sound
<1>21. GrowsInside
  BY <1>1 DEF GrowsInside
<1>22. Core
  BY <1>2, <1>8, <1>12, <1>14, <1>16, <1>18, <1>20, <1>21 DEF Core
<1>23. Strings
  BY <1>1, TextsAssumption DEF SplitInit, Strings, String
<1>. QED
  BY <1>22, <1>23

LEMMA NextCore ==
  ASSUME Core, Next
  PROVE  Core'
<1>1. ASSUME NEW v \in Refs \cup {Nil}, Load(v) PROVE Core'
  BY <1>1, LoadStep
<1>2. ASSUME NEW a \in Arrays, NEW i \in Index \cup {-1}, Idx(a, i) PROVE Core'
  BY <1>2, IdxStep
<1>3. ASSUME NEW a \in Arrays, NEW i \in Index \cup {-1}, IdxA(a, i) PROVE Core'
  BY <1>3, IdxAStep
<1>4. CASE St
  BY <1>4, StStep
<1>5. CASE Collect
  BY <1>5, CollectedWell DEF Collect
<1>6. ASSUME NEW a \in Arrays, Length(a) PROVE Core'
  BY <1>6, LengthStep
<1>7. ASSUME NEW a \in Arrays, NEW b \in Arrays, AppendTo(a, b) PROVE Core'
  BY <1>7, AppendToStep
<1>8. ASSUME NEW a \in Arrays, NEW v \in Refs \cup {Nil}, Add(a, v) PROVE Core'
  BY <1>8, AddStep
<1>. QED
  BY <1>1, <1>2, <1>3, <1>4, <1>5, <1>6, <1>7, <1>8 DEF Next

LEMMA StepCore ==
  ASSUME Core, Strings, [SplitNext]_all
  PROVE  Core' /\ Strings'
<1>1. CASE text = Idle /\ Next /\ UNCHANGED <<text, split>>
  BY <1>1, NextCore DEF Strings
<1>2. ASSUME NEW a \in Arrays, Begin(a) PROVE Core' /\ Strings'
  BY <1>2, BeginStep
<1>3. CASE Token
  BY <1>3, TokenStep
<1>4. CASE Strays
  <2>1. status = "run" /\ Stop("wild") /\ UNCHANGED <<lost, text, split>>
    BY <1>4 DEF Strays
  <2>. QED
    BY <2>1, CoreFacts, StopsWell DEF Strings, Stop
<1>5. CASE UNCHANGED all \/ Return
  <2>1. UNCHANGED vars
    BY <1>5 DEF Return, all
  <2>2. Core'
    BY <2>1 DEF vars, Core, TypeOK, Sound, LengthsAgree, GrowsInside, Elems
  <2>3. Strings'
    BY <1>5, <2>1 DEF Strings, Return, all, vars
  <2>. QED
    BY <2>2, <2>3
<1>6. ASSUME NEW v \in Refs, Put1(v) PROVE Core' /\ Strings'
  BY <1>6, Put1Step
<1>. QED
  BY <1>1, <1>2, <1>3, <1>4, <1>5, <1>6 DEF SplitNext

LEMMA IInvParts == IInv <=> Core /\ Strings /\ Splits
<1>1. Splitting => "a" \in DOMAIN split /\ split.a \in Arrays
  BY SplittingIs, RecordFacts DEF Good
<1>. QED
  BY <1>1 DEF IInv, Core, Strings, Splits

(* Arrays and what splits strings into them keep the inductive invariant:  *)
(* every elements object is in the hands of one array, is as large as the  *)
(* array says, and holds nothing behind its length but NIL until append    *)
(* has been used there (k_array.c, arr_realloc_elems, k_string.c).         *)
THEOREM Invariant == SplitSpec => []IInv
<1>1. SplitInit => IInv
  BY InitCore, IInvParts DEF SplitInit, Splits
<1>2. IInv /\ [SplitNext]_all => IInv'
  <2>1. Core' /\ Strings' /\ Splits' => IInv'
    BY DEF IInv, Core, Strings, Splits
  <2>. QED
    BY <2>1, StepCore, StepSplits, IInvParts
<1>. QED
  BY <1>1, <1>2, PTL DEF SplitSpec

(* Until one of the three things happens that the code does not survive,   *)
(* no element below a length, no value read and no address waiting for its *)
(* value is a dangling pointer, and the two lengths of an array agree.     *)
THEOREM ArraysSound == SplitSpec => []Sound
<1>1. IInv => Sound
  BY DEF IInv
<1>. QED
  BY <1>1, Invariant, PTL

(* The loop of arr_realloc_elems ends from every size but 1, and nothing   *)
(* is written behind the elements of an array unless it is appended to     *)
(* itself.                                                                 *)
THEOREM ArraysGrowInside == SplitSpec => []GrowsInside
<1>1. IInv => GrowsInside
  BY DEF IInv
<1>. QED
  BY <1>1, Invariant, PTL

-----------------------------------------------------------------------------
(* Contents.                                                               *)

\* The sequence that array a holds when the arrays are x and the elements o.
ContentOf(x, o, a) == [i \in 1 .. x[a].len |-> o[x[a].objs].cells[i - 1]]

LEMMA ContentFacts ==
  ASSUME Core, NEW a \in Arrays
  PROVE  /\ Content(a) = ContentOf(arr, objs, a) /\ Contents[a] = Content(a)
         /\ Content(a) \in Seq(Val) /\ Len(Content(a)) = arr[a].len
         /\ DOMAIN Content(a) = 1 .. arr[a].len
         /\ \A i \in 0 .. arr[a].len - 1 :
              i \in DOMAIN Elems(a).cells /\ Elems(a).cells[i] \in Val
              /\ i + 1 \in 1 .. arr[a].len /\ Content(a)[i + 1] = Elems(a).cells[i]
<1>1. /\ arr[a].len \in Nat /\ arr[a].len <= arr[a].alloc /\ arr[a].alloc \in Nat
      /\ Elems(a).cells \in [0 .. arr[a].alloc - 1 -> Val]
  BY CoreFacts, ArrayFacts
<1>2. \A i \in 0 .. arr[a].len - 1 : i \in 0 .. arr[a].alloc - 1 /\ i + 1 \in 1 .. arr[a].len
                                     /\ (i + 1) - 1 = i
  BY <1>1
<1>3. \A i \in 1 .. arr[a].len : i - 1 \in 0 .. arr[a].alloc - 1
  BY <1>1
<1>4. Content(a) \in [1 .. arr[a].len -> Val]
  BY <1>1, <1>3 DEF Content
<1>5. Content(a) \in Seq(Val) /\ Len(Content(a)) = arr[a].len
  BY <1>1, <1>4, LenProperties DEF Seq
<1>6. Content(a) = ContentOf(arr, objs, a) /\ Contents[a] = Content(a)
  BY DEF Content, ContentOf, Contents, Elems
<1>. QED
  BY <1>1, <1>2, <1>4, <1>5, <1>6 DEF Content

LEMMA NewContents ==
  ASSUME NEW o, Keep(o), Core'
  PROVE  Contents' = [a \in Arrays |-> ContentOf(arr', o, a)]
<1>1. ASSUME NEW a \in Arrays
      PROVE  Content(a)' = ContentOf(arr', o, a)
  <2>1. arr'[a].objs \in Used(arr', pend') /\ arr'[a].objs \in Ids
    BY DEF Core, TypeOK, Used
  <2>2. objs'[arr'[a].objs] = o[arr'[a].objs]
    BY <2>1 DEF Keep
  <2>. QED
    BY <2>2 DEF Content, ContentOf, Elems
<1>. QED
  BY <1>1 DEF Contents

\* One array has become X.
LEMMA OneChanges ==
  ASSUME NEW o, Keep(o), Core', NEW a \in Arrays, NEW X, ContentOf(arr', o, a) = X,
         \A b \in Arrays : b # a => ContentOf(arr', o, b) = Content(b)
  PROVE  Contents' = [Contents EXCEPT ![a] = X] /\ Contents'[a] = X
<1>1. Contents = [b \in Arrays |-> Content(b)]
  BY DEF Contents
<1>2. Contents' = [b \in Arrays |-> ContentOf(arr', o, b)]
  BY NewContents
<1>. HIDE DEF Contents, ContentOf, Content
<1>. QED
  BY <1>1, <1>2

\* Every array is what it has been.
LEMMA NoneChanges ==
  ASSUME NEW o, Keep(o), Core',
         \A b \in Arrays : ContentOf(arr', o, b) = Content(b)
  PROVE  Contents' = Contents
BY NewContents DEF Contents

LEMMA SameArrays ==
  ASSUME UNCHANGED <<arr, objs>>
  PROVE  Contents' = Contents
BY DEF Contents, Content, Elems

(* Equal lengths and equal elements below them make equal contents.        *)
LEMMA SameContent ==
  ASSUME Core, NEW b \in Arrays, NEW x, NEW o, x[b].len = arr[b].len,
         \A i \in 0 .. arr[b].len - 1 : o[x[b].objs].cells[i] = Elems(b).cells[i]
  PROVE  ContentOf(x, o, b) = Content(b)
<1>1. arr[b].len \in Nat
  BY CoreFacts, ArrayFacts
<1>2. \A i \in 1 .. arr[b].len : i - 1 \in 0 .. arr[b].len - 1
  BY <1>1
<1>. QED
  BY <1>2 DEF ContentOf, Content

\* Arrays promise these steps.
Allowed == UNCHANGED Contents \/ G!Step

LEMMA ReserveAllowed ==
  ASSUME Core, NEW a \in Arrays, NEW n \in Nat, n > arr[a].len, NEW X,
         Contents' = [Contents EXCEPT ![a] = X], Contents'[a] = X,
         X = [i \in 1 .. n |-> IF i <= arr[a].len THEN Content(a)[i] ELSE Nil]
  PROVE  Allowed
<1>1. /\ Contents[a] = Content(a) /\ Content(a) \in Seq(Val) /\ Len(Content(a)) = arr[a].len
  BY ContentFacts
<1>2. Len(X) = n
  BY LenProperties
<1>3. X = G!Padded(Contents[a], n)
  BY <1>1 DEF G!Padded
<1>4. Contents' = [Contents EXCEPT ![a] = G!Padded(Contents[a], n)]
  BY <1>3
<1>5. G!Reserve(a, Len(Contents'[a]))
  BY <1>1, <1>2, <1>4 DEF G!Reserve
<1>. QED
  BY <1>5 DEF Allowed, G!Step

LEMMA MakeAllowed ==
  ASSUME NEW a \in Arrays, Contents' = [Contents EXCEPT ![a] = <<>>]
  PROVE  Allowed
BY DEF Allowed, G!Step, G!Make

LEMMA AssignAllowed ==
  ASSUME Core, NEW a \in Arrays, NEW i \in 1 .. arr[a].len, NEW v, NEW X,
         Contents' = [Contents EXCEPT ![a] = X], Contents'[a] = X,
         X = [Content(a) EXCEPT ![i] = v]
  PROVE  Allowed
<1>1. /\ Contents[a] = Content(a) /\ DOMAIN Content(a) = 1 .. arr[a].len
  BY ContentFacts
<1>2. X[i] = v
  BY <1>1
<1>3. Contents' = [Contents EXCEPT ![a][i] = Contents'[a][i]]
  BY <1>1, <1>2
<1>4. i \in DOMAIN Contents[a] /\ G!Assign(a, i, Contents'[a][i])
  BY <1>1, <1>3 DEF G!Assign
<1>. QED
  BY <1>4 DEF Allowed, G!Step

\* A sequence and then another.
LEMMA Concatenated ==
  ASSUME Core, NEW a \in Arrays, NEW t \in Seq(Val), NEW X,
         X = [i \in 1 .. arr[a].len + Len(t) |->
                IF i <= arr[a].len THEN Content(a)[i] ELSE t[i - arr[a].len]]
  PROVE  X = Contents[a] \o t
<1>1. /\ Contents[a] = Content(a) /\ Content(a) \in Seq(Val) /\ Len(Content(a)) = arr[a].len
  BY ContentFacts
<1>2. /\ Content(a) \o t \in Seq(Val) /\ Len(Content(a) \o t) = Len(Content(a)) + Len(t)
      /\ \A i \in 1 .. Len(Content(a)) + Len(t) : (Content(a) \o t)[i] =
           IF i <= Len(Content(a)) THEN Content(a)[i] ELSE t[i - Len(Content(a))]
  BY <1>1, ConcatProperties, Zenon
<1> DEFINE c == Content(a) \o t
           n == arr[a].len + Len(t)
<1>3. c \in Seq(Val) /\ Len(c) = n
  BY <1>1, <1>2
<1>4. \A i \in 1 .. n : c[i] = IF i <= arr[a].len THEN Content(a)[i] ELSE t[i - arr[a].len]
  BY <1>1, <1>2
<1>. HIDE DEF c
<1>5. c = [i \in 1 .. n |-> c[i]]
  BY <1>3
<1>6. X = c
  BY <1>4, <1>5
<1>. QED
  BY <1>1, <1>6 DEF c

LEMMA AppendAllowed ==
  ASSUME Core, NEW a \in Arrays, NEW b \in Arrays, NEW X,
         Contents' = [Contents EXCEPT ![a] = X], X = Contents[a] \o Contents[b]
  PROVE  Allowed
<1>1. G!Concat(a, Contents[b])
  BY DEF G!Concat
<1>. QED
  BY <1>1 DEF Allowed, G!Step

LEMMA AddAllowed ==
  ASSUME Core, NEW a \in Arrays, NEW v \in Val, NEW X,
         Contents' = [Contents EXCEPT ![a] = X], Contents'[a] = X,
         X = Contents[a] \o <<v>>
  PROVE  Allowed
<1>1. Contents[a] \in Seq(Val)
  BY ContentFacts
<1>2. X # <<>> /\ X[Len(X)] = v
  BY <1>1
<1>3. G!Last(X) = v
  BY <1>2 DEF G!Last
<1>4. G!Concat(a, <<G!Last(Contents'[a])>>) /\ Contents'[a] # <<>>
  BY <1>2, <1>3 DEF G!Concat
<1>. QED
  BY <1>4 DEF Allowed, G!Step

-----------------------------------------------------------------------------
(* The steps, as steps on sequences.                                       *)

\* The other arrays while a grows.
LEMMA GrownOthers ==
  ASSUME Core, NEW a \in Arrays, NEW n, NEW s, GrownTo(a, n, s), NEW b \in Arrays, b # a
  PROVE  /\ s.arr[b] = arr[b] /\ s.objs[arr[b].objs] = Elems(b)
         /\ arr[b].objs # arr[a].objs /\ arr[b].objs # Fresh(a)
<1>1. /\ arr[b].objs \in Ids /\ arr[b].objs[1] = b /\ arr[a].objs[1] = a /\ Fresh(a)[1] = a
  BY CoreFacts, ArrayFacts, FreshFacts
<1>2. arr[b].objs \in Ids \ {Fresh(a), arr[a].objs}
  BY <1>1
<1>3. s.arr[b] = arr[b]
  BY CoreFacts DEF GrownTo, Ready, Fits
<1>. QED
  BY <1>1, <1>2, <1>3 DEF GrownTo, Elems

\* An array that has been made longer, with or without a new object.
LEMMA LongerContent ==
  ASSUME Core, status = "run", lost = {}, NEW a \in Arrays, NEW n \in 0 .. MaxLen,
         ~ (n > arr[a].alloc /\ Hangs(arr[a].alloc, n)), NEW s, s = AtLeast(a, n)
  PROVE  /\ \A b \in Arrays : b # a =>
              /\ ContentOf(s.arr, s.objs, b) = Content(b)
              /\ s.arr[b] = arr[b] /\ s.objs[s.arr[b].objs].cells = Elems(b).cells
              /\ s.arr[b].objs # s.arr[a].objs
         /\ n <= arr[a].len => ContentOf(s.arr, s.objs, a) = Content(a)
         /\ n > arr[a].len =>
              /\ s.arr[a].len = n
              /\ ContentOf(s.arr, s.objs, a) =
                   [i \in 1 .. n |-> IF i <= arr[a].len THEN Content(a)[i] ELSE Nil]
<1>1. /\ arr[a].len \in Nat /\ arr[a].len <= arr[a].alloc /\ arr[a].alloc \in Nat
      /\ arr[a].objs \in Ids /\ arr[a].objs \in Used(arr, pend) /\ n \in Int /\ MaxLen \in Nat
      /\ DOMAIN Elems(a).cells = 0 .. arr[a].alloc - 1 /\ objs[arr[a].objs] = Elems(a)
  BY CoreFacts, ArrayFacts, ArraysAssumption DEF Elems
<1>2. Solid(arr, objs, pend) /\ Elems(a).len = arr[a].len
  BY CoreFacts DEF Agreed, Elems
<1>3. \A i \in DOMAIN Elems(a).cells : i >= arr[a].len => Elems(a).cells[i] = Nil
  <2>. SUFFICES ASSUME NEW i \in DOMAIN Elems(a).cells, i >= arr[a].len
                PROVE  Elems(a).cells[i] = Nil
    OBVIOUS
  <2>1. ~(i < objs[arr[a].objs].len)
    BY <1>1, <1>2
  <2>. QED
    BY <2>1, <1>1, <1>2 DEF Solid
<1>4. CASE n > arr[a].alloc
  <2>1. s = Grown(a, n)
    BY <1>4 DEF AtLeast
  <2>2. n \in 1 .. MaxLen /\ n > arr[a].len /\ ~(n <= arr[a].len)
    BY <1>1, <1>4
  <2>3. GrownTo(a, n, s)
    BY <2>1, <2>2, <1>4, GrownFacts, CoreFacts
  <2>4. ASSUME NEW b \in Arrays, b # a
        PROVE  /\ ContentOf(s.arr, s.objs, b) = Content(b)
               /\ s.arr[b] = arr[b] /\ s.objs[s.arr[b].objs].cells = Elems(b).cells
               /\ s.arr[b].objs # Fresh(a)
    <3>1. /\ s.arr[b] = arr[b] /\ s.objs[s.arr[b].objs].cells = Elems(b).cells
          /\ s.arr[b].objs # Fresh(a)
      BY <2>3, <2>4, GrownOthers
    <3>. QED
      BY <3>1, <2>4, SameContent
  <2>5. s.arr[a].len = n /\ s.arr[a].objs = Fresh(a)
    BY <2>3, CoreFacts DEF GrownTo, Ready, Fits
  <2>6. \A i \in 1 .. n : s.objs[Fresh(a)].cells[i - 1] =
                            IF i - 1 < arr[a].len THEN Elems(a).cells[i - 1] ELSE Nil
    <3>1. NewSize(arr[a].alloc, n) \in Int /\ NewSize(arr[a].alloc, n) >= n
      BY <2>3, ArraysAssumption DEF GrownTo, MaxSize
    <3>2. \A i \in 1 .. n : i - 1 \in 0 .. NewSize(arr[a].alloc, n) - 1
      BY <3>1
    <3>. QED
      BY <3>2, <2>3 DEF GrownTo
  <2>7. \A i \in 1 .. n : IF i <= arr[a].len THEN i - 1 < arr[a].len /\ Content(a)[i] = Elems(a).cells[i - 1]
                          ELSE ~(i - 1 < arr[a].len)
    BY <1>1 DEF Content
  <2>8. ContentOf(s.arr, s.objs, a) =
           [i \in 1 .. n |-> IF i <= arr[a].len THEN Content(a)[i] ELSE Nil]
    BY <2>5, <2>6, <2>7 DEF ContentOf
  <2>. QED
    BY <2>2, <2>4, <2>5, <2>8
<1>5. CASE ~(n > arr[a].alloc) /\ n > arr[a].len
  <2> DEFINE c == arr[a].objs
             x == [arr EXCEPT ![a].len = n]
             o == [objs EXCEPT ![c].len = n]
  <2>1. s.arr = x /\ s.objs = o
    BY <1>5 DEF AtLeast
  <2>2. /\ x[a].len = n /\ x[a].objs = c
        /\ \A b \in Arrays : b # a => x[b] = arr[b]
    <3>1. x[a] = [arr[a] EXCEPT !.len = n] /\ \A b \in Arrays : b # a => x[b] = arr[b]
      BY CoreFacts DEF Ready, Fits
    <3>2. arr[a] \in [len : 0 .. MaxLen, alloc : Nat, objs : Ids]
      BY CoreFacts, ArrayFacts
    <3>. HIDE DEF x
    <3>. QED
      BY <3>1, <3>2
  <2>3. o[c].cells = Elems(a).cells /\ \A id \in Ids : id # c => o[id] = objs[id]
    <3>1. o[c] = [objs[c] EXCEPT !.len = n] /\ \A id \in Ids : id # c => o[id] = objs[id]
      BY <1>1, CoreFacts
    <3>2. objs[c] \in Object
      BY <1>1, CoreFacts, ArrayFacts
    <3>. HIDE DEF o
    <3>. QED
      BY <3>1, <3>2, <1>1, ObjectFacts
  <2>. HIDE DEF x, o
  <2>4. ASSUME NEW b \in Arrays, b # a
        PROVE  /\ ContentOf(x, o, b) = Content(b)
               /\ x[b] = arr[b] /\ o[x[b].objs].cells = Elems(b).cells
               /\ x[b].objs # x[a].objs
    <3>1. arr[b].objs \in Ids /\ arr[b].objs # c
      BY <2>4, CoreFacts, ArrayFacts
    <3>2. /\ x[b] = arr[b] /\ o[x[b].objs].cells = Elems(b).cells
      BY <3>1, <2>2, <2>3, <2>4 DEF Elems
    <3>. QED
      BY <3>1, <3>2, <2>2, <2>4, SameContent
  <2>5. ASSUME NEW i \in 1 .. n
        PROVE  o[c].cells[i - 1] = IF i <= arr[a].len THEN Content(a)[i] ELSE Nil
    <3>1. i - 1 \in DOMAIN Elems(a).cells /\ (i <= arr[a].len \/ i - 1 >= arr[a].len)
      BY <1>1, <1>5, <2>5
    <3>2. i <= arr[a].len => Content(a)[i] = Elems(a).cells[i - 1]
      BY <1>1 DEF Content
    <3>. QED
      BY <3>1, <3>2, <2>3, <1>1, <1>3
  <2>6. ContentOf(x, o, a) = [i \in 1 .. n |-> IF i <= arr[a].len THEN Content(a)[i] ELSE Nil]
    BY <2>2, <2>5 DEF ContentOf
  <2>7. ~(n <= arr[a].len)
    BY <1>1, <1>5
  <2>. QED
    BY <2>1, <2>2, <2>4, <2>6, <2>7
<1>6. CASE ~(n > arr[a].alloc) /\ ~(n > arr[a].len)
  <2>1. s.arr = arr /\ s.objs = objs
    BY <1>6 DEF AtLeast
  <2>2. \A b \in Arrays : ContentOf(arr, objs, b) = Content(b)
    BY ContentFacts
  <2>3. \A b \in Arrays : b # a => arr[b].objs # arr[a].objs
    BY CoreFacts, ArrayFacts
  <2>. QED
    BY <2>1, <2>2, <2>3, <1>6 DEF Elems
<1>. QED
  BY <1>4, <1>5, <1>6

LEMMA IdxAActs ==
  ASSUME Core, Core', NEW a \in Arrays, NEW i \in Index \cup {-1}, IdxA(a, i), lost = {}, status' = "run"
  PROVE  Allowed
<1> DEFINE s == AtLeast(a, i + 1)
           q == IF i >= arr[a].alloc THEN Outdated(a) ELSE pend
<1>1. status = "run" /\ Len(pend) < MaxPending /\ lost' = lost
  BY DEF IdxA
<1>2. i \in Int /\ i >= -1 /\ i + 1 \in 0 .. MaxLen
  BY ArraysAssumption DEF Index
<1>3. arr[a].alloc \in Nat /\ (i >= arr[a].alloc <=> i + 1 > arr[a].alloc) /\ arr[a].len \in Nat
  BY <1>2, CoreFacts, ArrayFacts
<1>4. ~(i >= arr[a].alloc /\ Hangs(arr[a].alloc, i + 1))
  BY DEF IdxA, Stop
<1>5. arr' = s.arr /\ Keep(s.objs) /\ pend' = Append(q, Address(a, i))
  BY <1>4 DEF IdxA
<1>7. /\ \A b \in Arrays : b # a => ContentOf(s.arr, s.objs, b) = Content(b)
      /\ i + 1 <= arr[a].len => ContentOf(s.arr, s.objs, a) = Content(a)
      /\ i + 1 > arr[a].len =>
           ContentOf(s.arr, s.objs, a) =
             [j \in 1 .. i + 1 |-> IF j <= arr[a].len THEN Content(a)[j] ELSE Nil]
  BY <1>1, <1>2, <1>3, <1>4, LongerContent
<1>. HIDE DEF s, q
<1>8. CASE i + 1 <= arr[a].len
  <2>1. \A b \in Arrays : ContentOf(s.arr, s.objs, b) = Content(b)
    BY <1>7, <1>8
  <2>. QED
    BY <2>1, <1>5, NoneChanges DEF Allowed
<1>9. CASE i + 1 > arr[a].len
  <2> DEFINE X == [j \in 1 .. i + 1 |-> IF j <= arr[a].len THEN Content(a)[j] ELSE Nil]
  <2>1. ContentOf(s.arr, s.objs, a) = X
    BY <1>7, <1>9
  <2>2. Contents' = [Contents EXCEPT ![a] = X] /\ Contents'[a] = X
    <3>. HIDE DEF X
    <3>. QED
      BY <2>1, <1>5, <1>7, OneChanges
  <2>3. i + 1 \in Nat
    BY <1>2, <1>3
  <2>. QED
    BY <2>2, <2>3, <1>9, ReserveAllowed
<1>. QED
  BY <1>2, <1>3, <1>8, <1>9

\* A store, and where it leaves its value.
LEMMA StoreContent ==
  ASSUME Core, St, status' = "run"
  PROVE  LET p == Last(pend)
             w == [objs EXCEPT ![p.objs].cells[p.i] = top] IN
         /\ status = "run" /\ pend # <<>> /\ p.i \in Int /\ p.i >= 0 /\ p.a \in Arrays
         /\ Keep(w) /\ arr' = arr
         /\ \A b \in Arrays : arr[b].objs # p.objs => ContentOf(arr, w, b) = Content(b)
         /\ p.objs = arr[p.a].objs /\ p.i < arr[p.a].len =>
              ContentOf(arr, w, p.a) = [Content(p.a) EXCEPT ![p.i + 1] = top]
         /\ \A b \in Arrays : b # p.a => arr[b].objs # p.objs
         /\ ~p.grown => p.objs = arr[p.a].objs /\ p.i < arr[p.a].len
         /\ lost = {} => p.i < objs[p.objs].len
<1> DEFINE p == Last(pend)
           w == [objs EXCEPT ![p.objs].cells[p.i] = top]
<1>1. status = "run" /\ pend # <<>> /\ lost' = lost
  BY DEF St
<1>2. ~(p.i < 0) /\ Keep(w) /\ arr' = arr
  BY <1>1 DEF St, Stop
<1>3. p.i \in Int
  <2>1. pend \in Seq(Address0) /\ Len(pend) \in Nat \ {0} /\ p = pend[Len(pend)]
    BY <1>1, CoreFacts, OneLess, PendFacts DEF Ready
  <2>2. p \in Address0
    BY <2>1
  <2>. QED
    BY <2>2, ArraysAssumption DEF Address0, Index
<1>4. p.i >= 0
  BY <1>2, <1>3
<1>5. /\ p.objs \in Used(arr, pend) /\ p.a \in Arrays /\ p.objs \in Ids
      /\ p.i \in DOMAIN objs[p.objs].cells
      /\ p.objs[1] = p.a
      /\ ~p.grown => p.objs = arr[p.a].objs /\ p.i < arr[p.a].len
      /\ lost = {} => p.i < objs[p.objs].len
  BY <1>1, <1>4, LastFacts
<1>. HIDE DEF p
<1>6. objs[p.objs] \in Object
  BY <1>5, CoreFacts DEF Ready, Fits
<1>7. /\ \A id \in Ids : id # p.objs => w[id] = objs[id]
      /\ w[p.objs].cells = [objs[p.objs].cells EXCEPT ![p.i] = top]
  <2>1. w[p.objs] = [objs[p.objs] EXCEPT !.cells = [objs[p.objs].cells EXCEPT ![p.i] = top]]
        /\ \A id \in Ids : id # p.objs => w[id] = objs[id]
    BY <1>5, CoreFacts
  <2>. HIDE DEF w
  <2>. QED
    BY <2>1, <1>6, ObjectFacts
<1>. HIDE DEF w
<1>8. ASSUME NEW b \in Arrays, arr[b].objs # p.objs
      PROVE  ContentOf(arr, w, b) = Content(b)
  <2>1. w[arr[b].objs] = Elems(b)
    BY <1>7, <1>8, CoreFacts, ArrayFacts DEF Elems
  <2>. QED
    BY <2>1, SameContent
<1>9. \A b \in Arrays : b # p.a => arr[b].objs # p.objs
  BY <1>5, CoreFacts, ArrayFacts
<1>10. ASSUME p.objs = arr[p.a].objs, p.i < arr[p.a].len
       PROVE  ContentOf(arr, w, p.a) = [Content(p.a) EXCEPT ![p.i + 1] = top]
  <2>1. arr[p.a].len \in Nat /\ p.i + 1 \in 1 .. arr[p.a].len /\ (p.i + 1) - 1 = p.i
        /\ Elems(p.a) = objs[p.objs]
    BY <1>3, <1>4, <1>5, <1>10, CoreFacts, ArrayFacts DEF Elems
  <2>2. \A i \in 1 .. arr[p.a].len : w[p.objs].cells[i - 1] =
            IF i = p.i + 1 THEN top ELSE Elems(p.a).cells[i - 1]
    <3>. TAKE i \in 1 .. arr[p.a].len
    <3>1. i - 1 = p.i <=> i = p.i + 1
      BY <2>1, <1>3
    <3>2. i - 1 \in DOMAIN objs[p.objs].cells
      <4>1. i - 1 \in 0 .. arr[p.a].len - 1
        BY <2>1
      <4>. QED
        BY <4>1, <2>1, <1>5, ContentFacts
    <3>. QED
      BY <3>1, <3>2, <2>1, <1>7
  <2>. QED
    BY <2>1, <2>2, <1>10 DEF ContentOf, Content
<1>. QED
  BY <1>1, <1>2, <1>3, <1>4, <1>5, <1>8, <1>9, <1>10 DEF p, w

LEMMA StActs ==
  ASSUME Core, Core', St, status' = "run", lost = {}
  PROVE  Allowed
<1> DEFINE p == Last(pend)
           w == [objs EXCEPT ![p.objs].cells[p.i] = top]
<1>1. /\ status = "run" /\ p.i \in Int /\ p.i >= 0 /\ p.a \in Arrays /\ p.i < objs[p.objs].len
      /\ Keep(w) /\ arr' = arr
      /\ \A b \in Arrays : arr[b].objs # p.objs => ContentOf(arr, w, b) = Content(b)
      /\ \A b \in Arrays : b # p.a => arr[b].objs # p.objs
      /\ p.objs = arr[p.a].objs /\ p.i < arr[p.a].len =>
           ContentOf(arr, w, p.a) = [Content(p.a) EXCEPT ![p.i + 1] = top]
  BY StoreContent
<1>. HIDE DEF p, w
<1>2. CASE p.objs = arr[p.a].objs
  <2> DEFINE X == [Content(p.a) EXCEPT ![p.i + 1] = top]
  <2>1. p.i < arr[p.a].len /\ arr[p.a].len \in Nat
    BY <1>1, <1>2, CoreFacts, ArrayFacts DEF Agreed
  <2>2. p.i + 1 \in 1 .. arr[p.a].len
    BY <2>1, <1>1
  <2>3. ContentOf(arr', w, p.a) = X
        /\ \A b \in Arrays : b # p.a => ContentOf(arr', w, b) = Content(b)
    BY <2>1, <1>1, <1>2
  <2>4. Contents' = [Contents EXCEPT ![p.a] = X] /\ Contents'[p.a] = X
    <3>. HIDE DEF X
    <3>. QED
      BY <2>3, <1>1, OneChanges
  <2>. QED
    BY <2>2, <2>4, <1>1, AssignAllowed
<1>3. CASE p.objs # arr[p.a].objs
  <2>1. \A b \in Arrays : ContentOf(arr', w, b) = Content(b)
    BY <1>1, <1>3
  <2>. QED
    BY <2>1, <1>1, NoneChanges DEF Allowed
<1>. QED
  BY <1>2, <1>3

LEMMA StLands ==
  ASSUME Core, Core', St, status' = "run", ~Last(pend).grown
  PROVE  Contents'[Last(pend).a][Last(pend).i + 1] = top
<1> DEFINE p == Last(pend)
           w == [objs EXCEPT ![p.objs].cells[p.i] = top]
           X == [Content(p.a) EXCEPT ![p.i + 1] = top]
<1>1. /\ p.i \in Int /\ p.i >= 0 /\ p.a \in Arrays
      /\ Keep(w) /\ arr' = arr /\ p.i < arr[p.a].len
      /\ ContentOf(arr, w, p.a) = X
  BY StoreContent
<1>. HIDE DEF p, w, X
<1>2. Contents'[p.a] = X
  BY <1>1, NewContents
<1>3. p.i + 1 \in DOMAIN Content(p.a)
  BY <1>1, ContentFacts
<1>. QED
  BY <1>2, <1>3 DEF X, p

LEMMA AddActs ==
  ASSUME Core, Core', NEW a \in Arrays, NEW v \in Refs \cup {Nil}, Add(a, v),
         status' = "run", lost = {}, "native" \notin lost'
  PROVE  Allowed
<1> DEFINE i == arr[a].len
           s == AtLeast(a, i + 1)
           w == [s.objs EXCEPT ![s.arr[a].objs].cells[i] = v]
<1>1. status = "run" /\ i < MaxLen
  BY DEF Add
<1>2. i \in Nat /\ i + 1 \in 0 .. MaxLen /\ arr[a].alloc \in Nat
      /\ (i >= arr[a].alloc <=> i + 1 > arr[a].alloc)
  BY <1>1, CoreFacts, ArrayFacts, ArraysAssumption
<1>3. ~(i >= arr[a].alloc /\ Hangs(arr[a].alloc, i + 1))
  BY DEF Add, Stop
<1>4. arr' = s.arr
  BY <1>3 DEF Add
<1>5. Keep(w)
  <2>1. PICK moved \in BOOLEAN :
          /\ Keep([s.objs EXCEPT ![s.arr[a].objs].cells[i] = IF moved THEN Dangling ELSE v])
          /\ lost' = IF moved THEN lost \cup {"native"} ELSE lost
    BY <1>3 DEF Add
  <2>2. ~moved
    BY <2>1
  <2>. QED
    BY <2>1, <2>2
<1>6. /\ s.arr[a].len = i + 1
      /\ Fits(s.arr, s.objs, IF i + 1 > arr[a].alloc THEN Outdated(a) ELSE pend)
      /\ s.objs = [id \in Ids |-> s.objs[id]]
  <2>1. s.objs = [id \in Ids |-> s.objs[id]]
    BY CoreFacts DEF AtLeast, Grown
  <2>. QED
    BY <2>1, <1>2, <1>3, CoreFacts, AtLeastFits
<1>7. /\ \A b \in Arrays : b # a =>
           /\ s.arr[b] = arr[b] /\ s.objs[s.arr[b].objs].cells = Elems(b).cells
           /\ s.arr[b].objs # s.arr[a].objs
      /\ ContentOf(s.arr, s.objs, a) =
             [j \in 1 .. i + 1 |-> IF j <= i THEN Content(a)[j] ELSE Nil]
  <2>1. i + 1 > arr[a].len
    BY <1>2
  <2>. QED
    BY <2>1, <1>1, <1>2, <1>3, LongerContent
<1>. HIDE DEF s, i
<1>8. /\ \A b \in Arrays : s.arr[b].objs \in Ids
      /\ s.objs[s.arr[a].objs] \in Object
      /\ i \in DOMAIN s.objs[s.arr[a].objs].cells
      /\ \A j \in 0 .. i : j \in DOMAIN s.objs[s.arr[a].objs].cells
  <2>1. /\ \A b \in Arrays : s.arr[b].objs \in Ids
        /\ s.arr[a].len <= s.arr[a].alloc /\ s.arr[a].alloc \in Nat
        /\ DOMAIN s.objs[s.arr[a].objs].cells = 0 .. s.arr[a].alloc - 1
        /\ s.objs[s.arr[a].objs] \in Object
    <3> DEFINE q == IF i + 1 > arr[a].alloc THEN Outdated(a) ELSE pend
    <3>1. Fits(s.arr, s.objs, q)
      BY <1>6
    <3>. HIDE DEF q
    <3>2. \A b \in Arrays : s.arr[b].objs \in Used(s.arr, q)
      BY DEF Used
    <3>. QED
      BY <3>1, <3>2 DEF Fits
  <2>. QED
    BY <2>1, <1>2, <1>6
<1>9. /\ \A id \in Ids : id # s.arr[a].objs => w[id] = s.objs[id]
      /\ w[s.arr[a].objs].cells = [s.objs[s.arr[a].objs].cells EXCEPT ![i] = v]
  <2> DEFINE c == s.arr[a].objs
  <2>1. w[c] = [s.objs[c] EXCEPT !.cells = [s.objs[c].cells EXCEPT ![i] = v]]
        /\ \A id \in Ids : id # c => w[id] = s.objs[id]
    BY <1>6, <1>8
  <2>. HIDE DEF w, c
  <2>2. s.objs[c] \in Object
    BY <1>8 DEF c
  <2>. QED
    BY <2>1, <2>2, ObjectFacts DEF c
<1>. HIDE DEF w
<1>10. ASSUME NEW b \in Arrays, b # a PROVE ContentOf(s.arr, w, b) = Content(b)
  <2>1. s.arr[b] = arr[b] /\ w[s.arr[b].objs].cells = Elems(b).cells
    BY <1>7, <1>8, <1>9, <1>10
  <2>. QED
    BY <2>1, SameContent
<1> DEFINE X == [j \in 1 .. i + 1 |-> IF j <= i THEN Content(a)[j] ELSE v]
<1>11. ContentOf(s.arr, w, a) = X
  <2>1. ASSUME NEW j \in 1 .. i + 1
        PROVE  w[s.arr[a].objs].cells[j - 1] = IF j <= i THEN Content(a)[j] ELSE v
    <3>1. s.objs[s.arr[a].objs].cells[j - 1] = IF j <= i THEN Content(a)[j] ELSE Nil
      <4>1. ContentOf(s.arr, s.objs, a)[j] = IF j <= i THEN Content(a)[j] ELSE Nil
        BY <2>1, <1>7
      <4>2. ContentOf(s.arr, s.objs, a)[j] = s.objs[s.arr[a].objs].cells[j - 1]
        BY <2>1, <1>6 DEF ContentOf
      <4>. QED
        BY <4>1, <4>2
    <3>2. j - 1 \in 0 .. i /\ (j - 1 = i <=> ~(j <= i))
      BY <2>1, <1>2 DEF i
    <3>. QED
      BY <3>1, <3>2, <1>8, <1>9
  <2>. QED
    BY <2>1, <1>6 DEF ContentOf
<1>12. X = Contents[a] \o <<v>>
  <2>1. v \in Val /\ Len(<<v>>) = 1 /\ <<v>> \in Seq(Val)
    BY DEF Val
  <2>2. X = [j \in 1 .. i + Len(<<v>>) |-> IF j <= i THEN Content(a)[j] ELSE <<v>>[j - i]]
    <3>1. ASSUME NEW j \in 1 .. i + 1, ~(j <= i) PROVE <<v>>[j - i] = v
      <4>1. j - i = 1
        BY <3>1, <1>2 DEF i
      <4>. QED
        BY <4>1
    <3>. QED
      BY <2>1, <3>1
  <2>. HIDE DEF X
  <2>. QED
    BY <2>1, <2>2, Concatenated DEF i
<1>. HIDE DEF X
<1>13. Contents' = [Contents EXCEPT ![a] = X] /\ Contents'[a] = X
  BY <1>4, <1>5, <1>10, <1>11, OneChanges
<1>14. v \in Val
  BY DEF Val
<1>. QED
  BY <1>12, <1>13, <1>14, AddAllowed

\* An array whose length append has already raised by what it is to put.
Raised(s, q, a, old, b) ==
  /\ Fits(s.arr, s.objs, q) /\ s.objs = [id \in Ids |-> s.objs[id]]
  /\ old \in Nat /\ old <= s.arr[a].len
  /\ s.arr[a].len = old + (IF a = b THEN old ELSE s.arr[b].len)

\* The objects w hold b's elements behind the first old ones of a, and every
\* other array's as before.
PutBehind(s, w, a, old, b) ==
  /\ \A c \in Arrays : c # a => w[s.arr[c].objs] = s.objs[s.arr[c].objs]
  /\ \A j \in 0 .. s.arr[a].len - 1 : w[s.arr[a].objs].cells[j] =
       IF j < old THEN s.objs[s.arr[a].objs].cells[j] ELSE s.objs[s.arr[b].objs].cells[j - old]

\* The copying loop of append leaves the old elements and puts the other array's
\* behind them, also when an array is appended to itself.
LEMMA PutContent ==
  ASSUME Core, NEW s, NEW q, NEW a \in Arrays, NEW b \in Arrays, NEW old,
         Raised(s, q, a, old, b)
  PROVE  PutBehind(s, Put(s, a, old, b), a, old, b)
<1>0. /\ Fits(s.arr, s.objs, q) /\ s.objs = [id \in Ids |-> s.objs[id]]
      /\ old \in Nat /\ old <= s.arr[a].len
      /\ s.arr[a].len = old + (IF a = b THEN old ELSE s.arr[b].len)
  BY Zenon DEF Raised
<1>. USE <1>0
<1> DEFINE id == s.arr[a].objs
           c == Putting(s, a, old, b)
           w == [s.objs EXCEPT ![id].cells = c]
           is == s.objs[id].cells
           src == s.objs[s.arr[b].objs].cells
           m == s.arr[b].len
           n == IF a = b THEN old ELSE m
           new(i) == IF a = b THEN src[(i - old) % old] ELSE src[i - old]
<1>1. Put(s, a, old, b) = w
  BY DEF Put, Putting
<1>2. \A d \in Arrays : s.arr[d].objs \in Used(s.arr, q) /\ s.arr[d].objs \in Ids /\ s.arr[d].objs[1] = d
  BY UsedIds DEF Fits, Used
<1>3. id \in Ids /\ s.objs[id] \in Object /\ DOMAIN is = 0 .. s.arr[a].alloc - 1
      /\ s.arr[a].len <= s.arr[a].alloc /\ s.arr[a].alloc \in Nat
      /\ m \in Nat /\ s.arr[a].len = old + n
  <2>1. id \in Ids /\ s.objs[id] \in Object /\ DOMAIN is = 0 .. s.arr[a].alloc - 1
        /\ s.arr[a].len <= s.arr[a].alloc
    BY <1>2 DEF Fits
  <2>2. s.arr[a].alloc \in Nat /\ m \in 0 .. MaxLen /\ MaxLen \in Nat
    BY ArraysAssumption DEF Fits
  <2>. QED
    BY <2>1, <2>2
<1>4. w[id].cells = c /\ \A d \in Ids : d # id => w[d] = s.objs[d]
  <2>1. w[id] = [s.objs[id] EXCEPT !.cells = c] /\ \A d \in Ids : d # id => w[d] = s.objs[d]
    BY <1>3
  <2>. HIDE DEF w, c, id
  <2>. QED
    BY <2>1, <1>3, ObjectFacts
<1>5. c = [i \in DOMAIN is |-> IF old <= i /\ i < old + m THEN new(i) ELSE is[i]]
  BY DEF Putting
<1>. HIDE DEF w, c
<1>6. ASSUME NEW j \in 0 .. s.arr[a].len - 1
      PROVE  c[j] = IF j < old THEN is[j] ELSE src[j - old]
  <2>1. j \in DOMAIN is /\ j \in Int /\ j < old + n
    <3>1. n \in Nat
      BY <1>0, <1>3
    <3>. HIDE DEF n, is, id, m
    <3>. HIDE <1>0
    <3>2. old \in Nat
      BY <1>0
    <3>. QED
      BY <3>1, <3>2, <1>3, <1>6
  <2>2. CASE j < old
    <3>1. ~(old <= j)
      BY <2>1, <2>2
    <3>. HIDE DEF is, src, m, id, new
    <3>. QED
      BY <3>1, <2>1, <2>2, <1>5
  <2>3. CASE ~(j < old)
    <3>1. old <= j /\ j < old + m /\ j - old \in 0 .. n - 1
      BY <2>1, <2>3, <1>3
    <3>2. a = b => (j - old) % old = j - old
      <4>. SUFFICES ASSUME a = b PROVE (j - old) % old = j - old
        OBVIOUS
      <4>1. j - old \in 0 .. old - 1
        BY <3>1
      <4>. HIDE DEF m, n, id
      <4>. QED
        BY <4>1
    <3>3. new(j) = src[j - old]
      BY <3>2
    <3>. HIDE DEF is, src, m, id, new
    <3>. QED
      BY <3>1, <3>3, <2>1, <2>3, <1>5
  <2>. QED
    BY <2>2, <2>3
<1>7. \A d \in Arrays : d # a => w[s.arr[d].objs] = s.objs[s.arr[d].objs]
  BY <1>2, <1>4
<1>. QED
  BY <1>1, <1>4, <1>6, <1>7 DEF PutBehind

LEMMA ExtendedContent ==
  ASSUME Core, status = "run", lost = {}, NEW a \in Arrays, NEW new,
         new \in Nat, new >= arr[a].len, new <= MaxLen,
         ~ (new > arr[a].alloc /\ Hangs(arr[a].alloc, new)), NEW s, s = Extended(a, new)
  PROVE  /\ \A c \in Arrays : c # a => /\ s.arr[c] = arr[c]
                                       /\ s.objs[s.arr[c].objs].cells = Elems(c).cells
         /\ \A j \in 0 .. arr[a].len - 1 : s.objs[s.arr[a].objs].cells[j] = Elems(a).cells[j]
<1>1. /\ arr[a].len \in Nat /\ arr[a].len <= arr[a].alloc /\ arr[a].alloc \in Nat
      /\ MaxLen \in Nat /\ arr[a] \in [len : 0 .. MaxLen, alloc : Nat, objs : Ids]
  BY CoreFacts, ArrayFacts, ArraysAssumption
<1>2. CASE new > arr[a].alloc
  <2>1. new \in 1 .. MaxLen /\ s = Grown(a, new)
    BY <1>1, <1>2 DEF Extended
  <2>2. GrownTo(a, new, s)
    BY <2>1, <1>2, GrownFacts, CoreFacts
  <2>3. \A c \in Arrays : c # a => /\ s.arr[c] = arr[c]
                                   /\ s.objs[s.arr[c].objs].cells = Elems(c).cells
    BY <2>2, GrownOthers
  <2>4. s.arr[a].objs = Fresh(a)
    BY <2>2, CoreFacts DEF GrownTo, Ready, Fits
  <2>5. NewSize(arr[a].alloc, new) \in Int /\ NewSize(arr[a].alloc, new) >= new
    BY <2>1, <2>2, ArraysAssumption DEF GrownTo, MaxSize
  <2>6. \A j \in 0 .. arr[a].len - 1 : j \in 0 .. NewSize(arr[a].alloc, new) - 1 /\ j < arr[a].len
    BY <2>5, <1>1
  <2>7. \A j \in 0 .. arr[a].len - 1 : s.objs[Fresh(a)].cells[j] = Elems(a).cells[j]
    BY <2>2, <2>6 DEF GrownTo
  <2>. QED
    BY <2>3, <2>4, <2>7
<1>3. CASE ~(new > arr[a].alloc)
  <2> DEFINE x == [arr EXCEPT ![a].len = new]
  <2>1. s.arr = x /\ s.objs = objs
    BY <1>3 DEF Extended
  <2>2. x[a] = [arr[a] EXCEPT !.len = new] /\ \A c \in Arrays : c # a => x[c] = arr[c]
    BY CoreFacts DEF Ready, Fits
  <2>. HIDE DEF x
  <2>3. x[a].objs = arr[a].objs
    BY <2>2, <1>1
  <2>. QED
    BY <2>1, <2>2, <2>3 DEF Elems
<1>. QED
  BY <1>2, <1>3

LEMMA AppendToActs ==
  ASSUME Core, Core', NEW a \in Arrays, NEW b \in Arrays, AppendTo(a, b),
         status' = "run", lost = {}
  PROVE  Allowed
<1> DEFINE old == arr[a].len
           n == arr[b].len
           new == old + n
           s == Extended(a, new)
           q == IF new > arr[a].alloc THEN Outdated(a) ELSE pend
           w == Put(s, a, old, b)
<1>1. status = "run" /\ new <= MaxLen
  BY DEF AppendTo
<1>2. /\ ~(new > arr[a].alloc /\ Hangs(arr[a].alloc, new))
      /\ arr' = s.arr /\ Keep(w)
  BY <1>1 DEF AppendTo, Extended, Stop
<1>3. old \in Nat /\ n \in Nat /\ new \in Nat /\ new >= old
  BY CoreFacts, ArrayFacts
<1>. HIDE DEF w
<1>4. /\ Fits(s.arr, s.objs, q) /\ s.objs = [id \in Ids |-> s.objs[id]]
      /\ s.arr[a].len = new
  <2>1. /\ s = Extended(a, new)
        /\ q = IF new > arr[a].alloc THEN Outdated(a) ELSE pend
        /\ new = arr[a].len + arr[b].len
    OBVIOUS
  <2>. HIDE DEF s, q, new
  <2>. QED
    BY <2>1, <1>1, <1>2, ExtendedFits
<1>5. /\ \A c \in Arrays : c # a => /\ s.arr[c] = arr[c]
                                    /\ s.objs[s.arr[c].objs].cells = Elems(c).cells
      /\ \A j \in 0 .. old - 1 : s.objs[s.arr[a].objs].cells[j] = Elems(a).cells[j]
  <2>1. s = Extended(a, new)
    OBVIOUS
  <2>. HIDE DEF s, new
  <2>. QED
    BY <2>1, <1>1, <1>2, <1>3, ExtendedContent
<1>. HIDE DEF s, q
<1>6. /\ \A c \in Arrays : c # a => w[s.arr[c].objs] = s.objs[s.arr[c].objs]
      /\ \A j \in 0 .. old + n - 1 : w[s.arr[a].objs].cells[j] =
              IF j < old THEN s.objs[s.arr[a].objs].cells[j] ELSE s.objs[s.arr[b].objs].cells[j - old]
  <2>1. old \in Nat /\ n \in Nat
    BY <1>3
  <2>2. s.arr[a].len = old + n /\ (a # b => s.arr[b] = arr[b]) /\ (a = b => n = old)
    BY <1>4, <1>5
  <2>3. old <= s.arr[a].len
    BY <2>1, <2>2
  <2>4. s.arr[a].len = old + (IF a = b THEN old ELSE s.arr[b].len)
    BY <2>2
  <2>5. 0 .. old + n - 1 = 0 .. s.arr[a].len - 1
    BY <2>1, <2>2
  <2>6. old \in Nat
    BY <2>1
  <2>7. Put(s, a, old, b) = w
    BY DEF w
  <2>. HIDE DEF old, n
  <2>8. PutBehind(s, w, a, old, b)
    <3>1. Raised(s, q, a, old, b)
      BY <1>4, <2>3, <2>4, <2>6 DEF Raised
    <3>. QED
      BY <3>1, <2>7, PutContent
  <2>9. /\ \A c \in Arrays : c # a => w[s.arr[c].objs] = s.objs[s.arr[c].objs]
        /\ \A j \in 0 .. s.arr[a].len - 1 : w[s.arr[a].objs].cells[j] =
             IF j < old THEN s.objs[s.arr[a].objs].cells[j] ELSE s.objs[s.arr[b].objs].cells[j - old]
    BY <2>8, Zenon DEF PutBehind
  <2>. QED
    BY <2>5, <2>9
<1>7. ASSUME NEW c \in Arrays, c # a PROVE ContentOf(s.arr, w, c) = Content(c)
  BY <1>5, <1>6, <1>7, SameContent
<1> DEFINE X == [j \in 1 .. old + n |-> IF j <= old THEN Content(a)[j] ELSE Content(b)[j - old]]
<1>8. ContentOf(s.arr, w, a) = X
  <2>1. ASSUME NEW j \in 1 .. old + n
        PROVE  w[s.arr[a].objs].cells[j - 1] = IF j <= old THEN Content(a)[j] ELSE Content(b)[j - old]
    <3>1. j - 1 \in 0 .. old + n - 1 /\ j \in Int
      BY <1>3, <2>1
    <3>2. CASE j <= old
      <4>1. j - 1 \in 0 .. old - 1 /\ j - 1 < old /\ j \in 1 .. old
        BY <1>3, <3>1, <3>2
      <4>2. Content(a)[j] = Elems(a).cells[j - 1]
        BY <4>1 DEF Content
      <4>. QED
        BY <3>1, <3>2, <4>1, <4>2, <1>5, <1>6
    <3>3. CASE ~(j <= old)
      <4> DEFINE k == (j - 1) - old
      <4>1. k \in 0 .. n - 1 /\ ~(j - 1 < old) /\ j - old \in 1 .. n /\ (j - old) - 1 = k
        BY <1>3, <3>1, <3>3
      <4>2. Content(b)[j - old] = Elems(b).cells[k]
        BY <4>1 DEF Content
      <4>3. s.objs[s.arr[b].objs].cells[k] = Elems(b).cells[k]
        BY <4>1, <1>5
      <4>4. w[s.arr[a].objs].cells[j - 1] = s.objs[s.arr[b].objs].cells[k]
        BY <3>1, <4>1, <1>6
      <4>. QED
        BY <3>3, <4>2, <4>3, <4>4
    <3>. QED
      BY <3>2, <3>3
  <2>. QED
    BY <2>1, <1>4 DEF ContentOf
<1>9. X = Contents[a] \o Contents[b]
  <2>1. Contents[b] = Content(b) /\ Content(b) \in Seq(Val) /\ Len(Content(b)) = n
    BY ContentFacts
  <2>2. X = [j \in 1 .. arr[a].len + Len(Contents[b]) |->
                IF j <= arr[a].len THEN Content(a)[j] ELSE Contents[b][j - arr[a].len]]
    BY <2>1
  <2>. HIDE DEF X
  <2>. QED
    BY <2>1, <2>2, Concatenated
<1>. HIDE DEF X
<1>10. Contents' = [Contents EXCEPT ![a] = X]
  BY <1>2, <1>7, <1>8, OneChanges
<1>. QED
  BY <1>9, <1>10, AppendAllowed

LEMMA CollectActs ==
  ASSUME Core, status = "run", lost = {}, objs' = VisitedAll, arr' = arr
  PROVE  Contents' = Contents
<1>1. ASSUME NEW a \in Arrays PROVE ContentOf(arr, VisitedAll, a) = Content(a)
  <2>1. arr[a].objs \in Used(arr, pend) /\ objs[arr[a].objs] = Elems(a)
        /\ Elems(a).len = arr[a].len /\ arr[a].len \in Nat
    BY CoreFacts, ArrayFacts DEF Agreed, Elems
  <2>2. \A i \in DOMAIN Elems(a).cells :
          VisitedAll[arr[a].objs].cells[i] = Elems(a).cells[i] \/ i >= Elems(a).len
    BY <2>1, CoreFacts, VisitedFits
  <2>3. \A i \in 0 .. arr[a].len - 1 : i \in DOMAIN Elems(a).cells /\ ~(i >= arr[a].len)
    BY <2>1, ContentFacts
  <2>. QED
    BY <2>1, <2>2, <2>3, SameContent
<1>2. \A a \in Arrays : Content(a)' = ContentOf(arr, VisitedAll, a)
  BY DEF Content, ContentOf, Elems
<1>. QED
  BY <1>1, <1>2 DEF Contents

LEMMA BeginActs ==
  ASSUME Core, Core', NEW a \in Arrays, pend = <<>>, Renew(a)
  PROVE  Allowed
<1> DEFINE x == [arr EXCEPT ![a] = [len |-> 0, alloc |-> InitSize, objs |-> Fresh(a)]]
           o == [objs EXCEPT ![Fresh(a)] =
                     [len |-> 0, cells |-> [i \in 0 .. InitSize - 1 |-> Nil]]]
<1>1. arr' = x /\ Keep(o)
  BY DEF Renew
<1>2. Fresh(a) \in Ids /\ Fresh(a)[1] = a /\ \A b \in Arrays : arr[b].objs \in Ids /\ arr[b].objs[1] = b
  BY CoreFacts, FreshFacts, ArrayFacts
<1>3. /\ x[a].len = 0 /\ \A b \in Arrays : b # a => x[b] = arr[b]
      /\ \A id \in Ids : id # Fresh(a) => o[id] = objs[id]
  BY CoreFacts DEF Ready, Fits
<1>. HIDE DEF x, o
<1>4. ContentOf(x, o, a) = <<>>
  BY <1>3 DEF ContentOf
<1>5. ASSUME NEW b \in Arrays, b # a PROVE ContentOf(x, o, b) = Content(b)
  <2>1. x[b] = arr[b] /\ o[x[b].objs] = Elems(b)
    BY <1>2, <1>3, <1>5 DEF Elems
  <2>. QED
    BY <2>1, SameContent
<1>6. Contents' = [Contents EXCEPT ![a] = <<>>]
  BY <1>1, <1>4, <1>5, OneChanges
<1>. QED
  BY <1>6, MakeAllowed

LEMMA NextActs ==
  ASSUME Core, Core', Next, lost = {}, status' = "run", "native" \notin lost'
  PROVE  Allowed
<1>1. ASSUME NEW v \in Refs \cup {Nil}, Load(v) PROVE Allowed
  BY <1>1, SameArrays DEF Load, Allowed
<1>2. ASSUME NEW a \in Arrays, NEW i \in Index \cup {-1}, Idx(a, i) PROVE Allowed
  BY <1>2, SameArrays DEF Idx, Stop, Allowed
<1>3. ASSUME NEW a \in Arrays, NEW i \in Index \cup {-1}, IdxA(a, i) PROVE Allowed
  BY <1>3, IdxAActs
<1>4. CASE St
  BY <1>4, StActs
<1>5. CASE Collect
  BY <1>5, CollectActs DEF Collect, Allowed
<1>6. ASSUME NEW a \in Arrays, Length(a) PROVE Allowed
  BY <1>6, SameArrays DEF Length, Stop, Allowed
<1>7. ASSUME NEW a \in Arrays, NEW b \in Arrays, AppendTo(a, b) PROVE Allowed
  BY <1>7, AppendToActs
<1>8. ASSUME NEW a \in Arrays, NEW v \in Refs \cup {Nil}, Add(a, v) PROVE Allowed
  BY <1>8, AddActs
<1>. QED
  BY <1>1, <1>2, <1>3, <1>4, <1>5, <1>6, <1>7, <1>8 DEF Next

LEMMA StepActs ==
  ASSUME Core, Core', Strings, [SplitNext]_all, lost = {}, status' = "run", "native" \notin lost'
  PROVE  Allowed
<1>1. CASE text = Idle /\ Next /\ UNCHANGED <<text, split>>
  BY <1>1, NextActs
<1>2. ASSUME NEW a \in Arrays, Begin(a) PROVE Allowed
  <2>1. text # Idle /\ status = "run" /\ pend = <<>>
    BY <1>2 DEF Begin, Strings
  <2>2. Renew(a)
    BY <1>2 DEF Begin, Stop
  <2>. QED
    BY <2>1, <2>2, BeginActs
<1>3. CASE Token
  <2>1. status = "run" /\ arr' = arr /\ (objs' = VisitedAll \/ objs' = objs)
    BY <1>3 DEF Token
  <2>. QED
    BY <2>1, CollectActs, SameArrays DEF Allowed
<1>4. CASE Strays
  BY <1>4 DEF Strays, Stop
<1>5. CASE UNCHANGED all \/ Return
  BY <1>5, SameArrays DEF Return, all, vars, Allowed
<1>6. ASSUME NEW v \in Refs, Put1(v) PROVE Allowed
  <2>1. Add(split.a, v) /\ split.a \in Arrays
    BY <1>6 DEF Put1, Strings
  <2>. QED
    BY <2>1, AddActs
<1>. QED
  BY <1>1, <1>2, <1>3, <1>4, <1>5, <1>6 DEF SplitNext

(* While nothing has gone wrong, and in the first append that uses room    *)
(* that is left or appends an array to itself, every step of the program   *)
(* is a step on sequences: it makes one longer, assigns one element,       *)
(* concatenates, makes a new array, or changes no content at all.          *)
THEOREM ArraysActLikeSequences == SplitSpec => ActsLikeArray
<1> DEFINE A == lost = {} /\ status' = "run" /\ "native" \notin lost'
                  => UNCHANGED Contents \/ G!Step
<1>1. IInv /\ IInv' /\ [SplitNext]_all => [A]_vars
  <2>1. IInv' => Core'
    BY DEF IInv, Core
  <2>. QED
    BY <2>1, IInvParts, StepActs DEF Allowed
<1>. QED
  BY <1>1, Invariant, PTL DEF SplitSpec, ActsLikeArray

(* a[i] = e sets a[i] whatever e does to arrays, unless e makes a grow:    *)
(* the address that IDXA has pushed is an address into the current         *)
(* elements of a, below its length.                                        *)
THEOREM StoresLand == SplitSpec => StoreLands
<1> DEFINE A == St /\ status' = "run" /\ ~Last(pend).grown =>
                  Contents'[Last(pend).a][Last(pend).i + 1] = top
<1>1. IInv /\ IInv' => [A]_vars
  <2>1. IInv' => Core'
    BY DEF IInv, Core
  <2>. QED
    BY <2>1, IInvParts, StLands
<1>. QED
  BY <1>1, Invariant, PTL DEF SplitSpec, StoreLands

(* A split that returns has made all the parts of the string, one element  *)
(* for each, in their order: the zeros that strtok writes lie before the   *)
(* place where it goes on, and while its pointer is in the copy that the   *)
(* last collection has left, the rest of the string is still there.        *)
THEOREM SplitsAllParts == SplitSpec => SplitsAll
<1> DEFINE A == Return => /\ Lists(split.got, split.whole, Runs(split.whole))
                          /\ arr[split.a].len = Len(split.got)
<1>1. IInv => [A]_all
  BY IInvParts, ReturnSplits
<1>. QED
  BY <1>1, Invariant, PTL DEF SplitSpec, SplitsAll
=============================================================================

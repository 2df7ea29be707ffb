----------------------------- MODULE Induction -----------------------------
(***************************************************************************)
(* Induction on natural numbers without a predicate as a parameter: from   *)
(* the library's theorem that the finite sets are well-founded.            *)
(***************************************************************************)
EXTENDS Integers, FiniteSetTheorems, WellFoundedInduction, TLAPS

(* A number is the least of its kind when the numbers below it are the     *)
(* smallest set of numbers.                                                *)
LEMMA LeastNat ==
  ASSUME NEW T \in SUBSET Nat, T # {}
  PROVE  \E x \in T : \A y \in T : x <= y
<1> DEFINE Below(x) == 0 .. x - 1
           U == {Below(x) : x \in T}
           R == StrictSubsetOrdering(Nat)
           S == FiniteSubsetsOf(Nat)
<1>1. \A x \in T : Below(x) \in SUBSET Nat /\ IsFiniteSet(Below(x))
  BY FS_Interval
<1>2. U \subseteq S /\ U # {}
  BY <1>1 DEF FiniteSubsetsOf
<1>3. IsWellFoundedOn(R, S)
  BY FS_StrictSubsetOrderingWellFounded
<1>4. \E X \in U : \A Y \in U : ~ (<<Y, X>> \in R)
  <2>. HIDE DEF U, R, S
  <2>. QED
    BY <1>2, <1>3, WFMin
<1>5. PICK x \in T : \A y \in T : ~ (<<Below(y), Below(x)>> \in R)
  BY <1>4
<1>6. ASSUME NEW y \in T, y < x PROVE FALSE
  <2>1. Below(y) \subseteq Below(x) /\ x - 1 \in Below(x) /\ x - 1 \notin Below(y)
    BY <1>6
  <2>2. <<Below(y), Below(x)>> \in R
    BY <2>1, <1>1 DEF StrictSubsetOrdering
  <2>. QED
    BY <2>2, <1>5
<1>. QED
  BY <1>6

LEMMA SetInduction ==
  ASSUME NEW T, 0 \in T, \A n \in Nat : n \in T => n + 1 \in T
  PROVE  \A n \in Nat : n \in T
<1>. SUFFICES ASSUME Nat \ T # {} PROVE FALSE
  OBVIOUS
<1>1. PICK x \in Nat \ T : \A y \in Nat \ T : x <= y
  BY LeastNat
<1>2. x - 1 \in Nat /\ x - 1 \in T
  BY <1>1, x # 0
<1>. QED
  BY <1>1, <1>2

-----------------------------------------------------------------------------
(* Recursion.  The definition of a recursive function chooses one that     *)
(* satisfies its equation; these lemmas say that there is one.             *)

(* Counting up to n, from base, with values in V.                          *)
CountsIn(n, V, base, step) == n \in Nat /\ base \in V /\ step \in [(1 .. n) \X V -> V]

LEMMA CountingUp ==
  ASSUME NEW n, NEW V, NEW base, NEW step, CountsIn(n, V, base, step)
  PROVE  \E f \in [0 .. n -> V] :
           f = [m \in 0 .. n |-> IF m = 0 THEN base ELSE step[<<m, f[m - 1]>>]]
<1>. DEFINE Eq(f, k) == \A m \in 0 .. k : f[m] = IF m = 0 THEN base ELSE step[<<m, f[m - 1]>>]
            T == {k \in Nat : k <= n => \E f \in [0 .. n -> V] : Eq(f, k)}
<1>0. n \in Nat /\ base \in V /\ step \in [(1 .. n) \X V -> V]
  BY DEF CountsIn
<1>1. 0 \in T
  <2>1. Eq([m \in 0 .. n |-> base], 0)
    BY <1>0
  <2>2. [m \in 0 .. n |-> base] \in [0 .. n -> V]
    BY <1>0
  <2>. QED
    BY <2>1, <2>2
<1>2. ASSUME NEW k \in Nat, k \in T PROVE k + 1 \in T
  <2>. SUFFICES ASSUME k + 1 <= n PROVE \E f \in [0 .. n -> V] : Eq(f, k + 1)
    OBVIOUS
  <2>1. PICK f \in [0 .. n -> V] : Eq(f, k)
    BY <1>0, <1>2
  <2>2. k + 1 \in 1 .. n /\ k \in 0 .. n /\ f[k] \in V /\ step[<<k + 1, f[k]>>] \in V
    BY <1>0, <2>1
  <2>. DEFINE v == step[<<k + 1, f[k]>>]
              g == [m \in 0 .. n |-> IF m = k + 1 THEN v ELSE f[m]]
  <2>3. g \in [0 .. n -> V]
    BY <2>2
  <2>4. ASSUME NEW m \in 0 .. k + 1
        PROVE  g[m] = IF m = 0 THEN base ELSE step[<<m, g[m - 1]>>]
    <3>1. CASE m = k + 1
      <4>1. m # 0 /\ m - 1 = k /\ k # k + 1 /\ m \in 0 .. n
        BY <1>0, <2>2, <3>1
      <4>2. g[m] = v /\ g[m - 1] = f[k]
        BY <1>0, <2>2, <3>1, <4>1
      <4>. QED
        BY <3>1, <4>1, <4>2
    <3>2. CASE m # k + 1
      <4>1. m \in 0 .. k /\ m \in 0 .. n
        BY <1>0, <2>2, <3>2
      <4>2. g[m] = f[m] /\ (m # 0 => g[m - 1] = f[m - 1])
        BY <1>0, <2>2, <3>2, <4>1
      <4>. QED
        BY <2>1, <4>1, <4>2
    <3>. QED
      BY <3>1, <3>2
  <2>. HIDE DEF g
  <2>. QED
    BY <2>3, <2>4
<1>. HIDE DEF T
<1>3. n \in T
  BY <1>0, <1>1, <1>2, SetInduction
<1>. QED
  <2>1. PICK f \in [0 .. n -> V] : Eq(f, n)
    BY <1>3 DEF T
  <2>2. f = [m \in 0 .. n |-> IF m = 0 THEN base ELSE step[<<m, f[m - 1]>>]]
    BY <2>1
  <2>. QED
    BY <2>1, <2>2

(* A hierarchy: up leads from an element of D to its parent, which need not *)
(* be in D; the rank of a parent is less than the rank of the child.        *)
Ranked(D, up, rank) ==
  /\ rank \in [D -> Nat]
  /\ \A d \in D : up[d] \in D => rank[up[d]] < rank[d]

(* What holds of an element when it holds of its parent holds of all.       *)
LEMMA DownTheHierarchy ==
  ASSUME NEW D, NEW up, NEW rank, Ranked(D, up, rank), NEW T,
         \A d \in D : (up[d] \in D => up[d] \in T) => d \in T
  PROVE  D \subseteq T
<1>. SUFFICES ASSUME NEW e \in D, e \notin T PROVE FALSE
  OBVIOUS
<1>. DEFINE R == {rank[d] : d \in {c \in D : c \notin T}}
<1>1. R \in SUBSET Nat /\ R # {}
  BY DEF Ranked
<1>2. PICK x \in R : \A y \in R : x <= y
  BY <1>1, LeastNat
<1>3. PICK d \in D : d \notin T /\ rank[d] = x
  BY <1>2
<1>4. up[d] \in D /\ up[d] \notin T
  BY <1>3
<1>5. rank[up[d]] \in R /\ rank[up[d]] < x /\ rank[up[d]] \in Nat /\ x \in Nat
  BY <1>1, <1>3, <1>4 DEF Ranked
<1>. QED
  BY <1>2, <1>5

(* A function on a hierarchy of bounded height, defined from the root down. *)
StepsIn(D, V, base, step) == base \in [D -> V] /\ step \in [D \X V -> V]

LEMMA RecursionUp ==
  ASSUME NEW D, NEW up, NEW rank, Ranked(D, up, rank), NEW n \in Nat, \A d \in D : rank[d] < n,
         NEW V, NEW base, NEW step, StepsIn(D, V, base, step)
  PROVE  \E f \in [D -> V] :
           f = [d \in D |-> IF up[d] \in D THEN step[<<d, f[up[d]]>>] ELSE base[d]]
<1>. DEFINE Val(f, d) == IF up[d] \in D THEN step[<<d, f[up[d]]>>] ELSE base[d]
            Eq(f, k)  == \A d \in D : rank[d] < k => f[d] = Val(f, d)
            T == {k \in Nat : \E f \in [D -> V] : Eq(f, k)}
<1>0. base \in [D -> V] /\ step \in [D \X V -> V]
  BY DEF StepsIn
<1>1. 0 \in T
  <2>1. Eq(base, 0)
    BY DEF Ranked
  <2>. QED
    BY <1>0, <2>1
<1>2. ASSUME NEW k \in Nat, k \in T PROVE k + 1 \in T
  <2>1. PICK f \in [D -> V] : Eq(f, k)
    BY <1>2
  <2>. DEFINE g == [d \in D |-> Val(f, d)]
  <2>2. g \in [D -> V]
    BY <1>0, <2>1
  <2>3. ASSUME NEW d \in D, rank[d] < k + 1 PROVE g[d] = Val(g, d)
    <3>1. CASE up[d] \notin D
      BY <3>1
    <3>2. CASE up[d] \in D
      <4>1. rank[up[d]] < k
        BY <2>3, <3>2 DEF Ranked
      <4>2. f[up[d]] = Val(f, up[d])
        BY <2>1, <3>2, <4>1
      <4>3. g[up[d]] = f[up[d]]
        BY <3>2, <4>2
      <4>. QED
        BY <3>2, <4>3
    <3>. QED
      BY <3>1, <3>2
  <2>. HIDE DEF g
  <2>. QED
    BY <2>2, <2>3
<1>. HIDE DEF T
<1>3. n \in T
  BY <1>1, <1>2, SetInduction
<1>. QED
  <2>1. PICK f \in [D -> V] : Eq(f, n)
    BY <1>3 DEF T
  <2>2. f = [d \in D |-> Val(f, d)]
    BY <2>1
  <2>. QED
    BY <2>1, <2>2
=============================================================================

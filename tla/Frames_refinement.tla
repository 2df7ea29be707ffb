-------------------------- MODULE Frames_refinement --------------------------
(***************************************************************************)
(* The frame macros implement a stack of activations (CallStack), for      *)
(* every size of the stack, every number of arguments, and local variables *)
(* that fit what stack_init allocates on top of stack_size_g.              *)
(***************************************************************************)
EXTENDS Frames_proofs

-----------------------------------------------------------------------------
(* Sequences as functions.                                                 *)

IsList(s, n) == n \in Nat /\ s = [i \in 1 .. n |-> s[i]]
Plus(s, x)   == Append(s, x)

LEMMA ListIsSeq ==
  ASSUME NEW s, NEW n \in Nat, IsList(s, n)
  PROVE  s \in Seq({s[i] : i \in 1 .. n}) /\ Len(s) = n /\ DOMAIN s = 1 .. n
<1>1. n \in Nat /\ s \in [1 .. n -> {s[i] : i \in 1 .. n}]
  BY DEF IsList
<1>. QED
  BY <1>1, SeqDef, LenProperties

\* Two lists with the same elements are equal.
LEMMA SameLists ==
  ASSUME NEW s, NEW t, NEW n \in Nat, IsList(s, n), IsList(t, n), \A i \in 1 .. n : s[i] = t[i]
  PROVE  s = t
BY DEF IsList

LEMMA ListFront ==
  ASSUME NEW s, NEW n \in Nat, IsList(s, n), n >= 1
  PROVE  /\ IsList(Front(s), n - 1) /\ \A i \in 1 .. n - 1 : Front(s)[i] = s[i]
         /\ Last(s) = s[n] /\ s # <<>>
<1>1. s \in Seq({s[i] : i \in 1 .. n}) /\ Len(s) = n /\ n \in Nat
  BY ListIsSeq DEF IsList
<1>2. Front(s) = [i \in 1 .. n - 1 |-> s[i]]
  BY <1>1 DEF Front
<1>3. n - 1 \in Nat /\ n \in 1 .. n
  BY <1>1
<1>4. Last(s) = s[n]
  BY <1>1 DEF Last
<1>5. s # <<>>
  BY <1>1, EmptySeq
<1>. HIDE DEF Front
<1>. QED
  BY <1>2, <1>3, <1>4, <1>5 DEF IsList

LEMMA ListAppend ==
  ASSUME NEW s, NEW n \in Nat, NEW x, IsList(s, n)
  PROVE  /\ IsList(Plus(s, x), n + 1)
         /\ \A i \in 1 .. n : Plus(s, x)[i] = s[i]
         /\ Plus(s, x)[n + 1] = x
<1>1. s \in Seq({s[i] : i \in 1 .. n} \cup {x}) /\ Len(s) = n /\ n \in Nat
  BY ListIsSeq, SeqMonotonic DEF IsList
<1>. QED
  BY <1>1, AppendProperties DEF IsList, Plus

LEMMA Replaced ==
  ASSUME NEW V, NEW W, NEW n \in Nat, IsList(V, n), IsList(W, n), n >= 1,
         \A k \in 1 .. n : k # n => W[k] = V[k]
  PROVE  W = Plus(Front(V), W[n])
<1> DEFINE F == Front(V)
           x == W[n]
           p == n - 1
<1>1. IsList(F, p) /\ \A i \in 1 .. p : F[i] = V[i]
  BY ListFront
<1>2. p \in Nat /\ p + 1 = n
  OBVIOUS
<1>3. /\ IsList(Plus(F, x), n) /\ Plus(F, x)[n] = x
      /\ \A i \in 1 .. p : Plus(F, x)[i] = F[i]
  <2>. HIDE DEF F, x, p
  <2>1. /\ IsList(Plus(F, x), p + 1) /\ Plus(F, x)[p + 1] = x
        /\ \A i \in 1 .. p : Plus(F, x)[i] = F[i]
    BY <1>1, <1>2, ListAppend
  <2>. QED
    BY <1>2, <2>1
<1>4. \A i \in 1 .. n : W[i] = Plus(F, x)[i]
  <2>1. \A i \in 1 .. n : i = n \/ (i \in 1 .. n - 1 /\ i # n)
    BY <1>2
  <2>. QED
    BY <1>1, <1>3, <2>1
<1>. HIDE DEF F, x
<1>. QED
  BY <1>3, <1>4, SameLists DEF F, x

LEMMA FrontOfPlus ==
  ASSUME NEW F, NEW p \in Nat, IsList(F, p), NEW x
  PROVE  Front(Plus(F, x)) = F /\ Last(Plus(F, x)) = x
<1> DEFINE W == Plus(F, x)
           n == p + 1
<1>1. n \in Nat /\ n >= 1 /\ n - 1 = p
  OBVIOUS
<1>2. IsList(W, p + 1) /\ W[p + 1] = x /\ \A i \in 1 .. p : W[i] = F[i]
  BY ListAppend
<1>3. IsList(W, n) /\ W[n] = x
  BY <1>2
<1>. HIDE DEF W, n
<1>4. IsList(Front(W), p) /\ (\A i \in 1 .. p : Front(W)[i] = W[i]) /\ Last(W) = x
  BY <1>1, <1>3, ListFront
<1>5. Front(W) = F
  BY <1>2, <1>4, SameLists
<1>. QED
  BY <1>4, <1>5 DEF W

LEMMA ListSub ==
  ASSUME NEW s, NEW n \in Nat, NEW a \in 1 .. n + 1, NEW b \in 0 .. n, IsList(s, n), a <= b + 1
  PROVE  /\ IsList(SubSeq(s, a, b), b - a + 1)
         /\ \A i \in 1 .. b - a + 1 : SubSeq(s, a, b)[i] = s[a + i - 1]
<1>1. s \in Seq({s[i] : i \in 1 .. n}) /\ Len(s) = n /\ n \in Nat
  BY ListIsSeq DEF IsList
<1>2. SubSeq(s, a, b) = [i \in 1 .. (b - a + 1) |-> s[a + i - 1]]
  BY <1>1
<1>3. b - a + 1 \in Nat
  BY <1>1
<1> DEFINE t == SubSeq(s, a, b)
           c == b - a + 1
<1>. HIDE DEF t, c
<1>4. t = [i \in 1 .. c |-> s[a + i - 1]] /\ c \in Nat
  BY <1>2, <1>3 DEF t, c
<1>5. IsList(t, c) /\ \A i \in 1 .. c : t[i] = s[a + i - 1]
  BY <1>4 DEF IsList
<1>. QED
  BY <1>5 DEF t, c

-----------------------------------------------------------------------------
(* The activations that registers and cells represent.                     *)
\* Where the operands of the k-th activation end.
EndOf(r, as, k) == IF k = Len(as) THEN r.sp ELSE as[k + 1].ap

\* The activation x whose operands end at e, in the cells st.
FrameAt(st, x, e) ==
  [ret    |-> st[x.fp - 3],
   args   |-> [i \in 1 .. x.args |-> st[x.fp - 5 - x.args + i]],
   self   |-> st[x.fp - 4],
   locals |-> [i \in 1 .. x.locals |-> st[x.fp + i]],
   ops    |-> [i \in 1 .. e - (x.fp + 1 + x.locals) |-> st[x.fp + x.locals + i]]]

FrameOf(r, as, k) == FrameAt(r.stack, as[k], EndOf(r, as, k))
View(r, as)       == [k \in 1 .. Len(as) |-> FrameOf(r, as, k)]

LEMMA ViewIsFrames ==
  /\ [k \in 1 .. Len(acts) |-> Frame(k)] = View(m, acts)
  /\ [k \in 1 .. Len(acts) |-> Frame(k)]' = View(m', acts')
BY DEF View, Frame, FrameOf, FrameAt, EndOf

LEMMA ViewIsList ==
  ASSUME NEW r, NEW as, NEW n \in Nat, n = Len(as)
  PROVE  /\ IsList(View(r, as), n)
         /\ \A k \in 1 .. n : View(r, as)[k] = FrameOf(r, as, k)
BY DEF View, IsList

-----------------------------------------------------------------------------
(* Where frames lie, and what they depend on.                              *)

\* The cells of a frame are in the array and below its end.
Lies(x, e) ==
  /\ x \in Act /\ x.fp = x.ap + x.args + 4 /\ x.fp + x.locals < e
  /\ e \in Nat /\ e <= StackSize + Slack

Agree(p, q, e) == \A i \in Index : i < e => q[i] = p[i]

LEMMA BoundArithmetic ==
  ASSUME NEW ap \in Nat, NEW fp \in Nat, NEW n \in Nat, NEW l \in Nat, NEW b \in Nat, NEW sp \in Nat,
         fp = ap + n + 4, fp + l < b, b <= sp
  PROVE  ap <= sp
OBVIOUS

LEMMA CellsOfFrame ==
  ASSUME NEW ap \in Nat, NEW fp \in Nat, NEW n \in Nat, NEW l \in Nat, NEW e \in Nat,
         NEW size \in Nat, fp = ap + n + 4, fp + l < e, e <= size
  PROVE  /\ fp - 3 \in 0 .. size - 1 /\ fp - 4 \in 0 .. size - 1 /\ fp - 3 < e /\ fp - 4 < e
         /\ \A i \in 1 .. n : fp - 5 - n + i \in 0 .. size - 1 /\ fp - 5 - n + i < e
         /\ \A i \in 1 .. l : fp + i \in 0 .. size - 1 /\ fp + i < e
         /\ \A i \in 1 .. e - (fp + 1 + l) : fp + l + i \in 0 .. size - 1 /\ fp + l + i < e
OBVIOUS

LEMMA SameCells ==
  ASSUME NEW x, NEW e, NEW p, NEW q, Lies(x, e), Agree(p, q, e)
  PROVE  FrameAt(q, x, e) = FrameAt(p, x, e)
<1> DEFINE fp == x.fp
           ap == x.ap
           n  == x.args
           l  == x.locals
           size == StackSize + Slack
<1>1. /\ fp = ap + n + 4 /\ fp + l < e /\ e <= size
      /\ fp \in Nat /\ ap \in Nat /\ n \in Nat /\ l \in Nat /\ e \in Nat
  BY ActNumbers DEF Lies
<1>2. size \in Nat /\ Index = 0 .. size - 1
  BY StackAssumption DEF Index
<1>3. FrameAt(p, x, e) =
        [ret |-> p[fp - 3], args |-> [i \in 1 .. n |-> p[fp - 5 - n + i]],
         self |-> p[fp - 4], locals |-> [i \in 1 .. l |-> p[fp + i]],
         ops |-> [i \in 1 .. e - (fp + 1 + l) |-> p[fp + l + i]]]
  BY DEF FrameAt
<1>4. FrameAt(q, x, e) =
        [ret |-> q[fp - 3], args |-> [i \in 1 .. n |-> q[fp - 5 - n + i]],
         self |-> q[fp - 4], locals |-> [i \in 1 .. l |-> q[fp + i]],
         ops |-> [i \in 1 .. e - (fp + 1 + l) |-> q[fp + l + i]]]
  BY DEF FrameAt
<1>. HIDE DEF fp, ap, n, l, size
<1>5. /\ fp - 3 \in 0 .. size - 1 /\ fp - 4 \in 0 .. size - 1 /\ fp - 3 < e /\ fp - 4 < e
      /\ \A i \in 1 .. n : fp - 5 - n + i \in 0 .. size - 1 /\ fp - 5 - n + i < e
      /\ \A i \in 1 .. l : fp + i \in 0 .. size - 1 /\ fp + i < e
      /\ \A i \in 1 .. e - (fp + 1 + l) : fp + l + i \in 0 .. size - 1 /\ fp + l + i < e
  BY <1>1, <1>2, CellsOfFrame
<1>6. \A i \in 0 .. size - 1 : i < e => q[i] = p[i]
  BY <1>2 DEF Agree
<1>7. q[fp - 3] = p[fp - 3] /\ q[fp - 4] = p[fp - 4]
  BY <1>5, <1>6, Zenon
<1>8. \A i \in 1 .. n : q[fp - 5 - n + i] = p[fp - 5 - n + i]
  BY <1>5, <1>6, Zenon
<1>9. \A i \in 1 .. l : q[fp + i] = p[fp + i]
  BY <1>5, <1>6, Zenon
<1>10. \A i \in 1 .. e - (fp + 1 + l) : q[fp + l + i] = p[fp + l + i]
  BY <1>5, <1>6, Zenon
<1>. QED
  BY <1>3, <1>4, <1>7, <1>8, <1>9, <1>10

LEMMA FrameBounds ==
  ASSUME NEW r, NEW as, Linked(r, as), NEW k \in 1 .. Len(as)
  PROVE  /\ as[k].fp = as[k].ap + as[k].args + 4
         /\ as[k].fp + as[k].locals < EndOf(r, as, k) /\ EndOf(r, as, k) <= r.sp
         /\ r.sp <= StackSize + Slack
         /\ as[k].fp \in Nat /\ as[k].ap \in Nat /\ as[k].args \in Nat /\ as[k].locals \in Nat
         /\ EndOf(r, as, k) \in Nat /\ r.sp \in Nat
<1> DEFINE n == Len(as)
<1>1. as \in Acts /\ n \in Nat /\ as # <<>> /\ n \in 1 .. n /\ k \in Nat /\ 1 <= k /\ k <= n
  <2>1. as \in Acts /\ n \in Nat
    BY LenProperties DEF Linked, Acts
  <2>2. as # <<>>
    <3>1. SUFFICES ASSUME as = <<>> PROVE FALSE
      OBVIOUS
    <3>2. Len(as) = 0
      BY <3>1, EmptySeq
    <3>. QED
      BY <3>2
  <2>3. n \in 1 .. n
    BY <2>1, <2>2, NonEmpty, Zenon
  <2>4. k \in Nat /\ 1 <= k /\ k <= n
    <3>1. k \in 1 .. n
      OBVIOUS
    <3>. HIDE DEF n
    <3>. QED
      BY <2>1, <3>1
  <2>. QED
    BY <2>1, <2>2, <2>3, <2>4
<1>2. \A j \in 1 .. n : as[j].fp \in Nat /\ as[j].ap \in Nat /\ as[j].args \in Nat /\ as[j].locals \in Nat
  BY <1>1, ActFacts
<1>3. \A j \in 1 .. n : as[j].fp = as[j].ap + as[j].args + 4
  BY DEF Linked, Chain, Saved
<1>4. \A i, j \in 1 .. n : i < j => as[i].fp + as[i].locals < as[j].ap
  BY DEF Linked, Chain, Above
<1>5. r.sp \in Nat /\ r.sp <= StackSize + Slack /\ as[n].fp + as[n].locals < r.sp
  BY <1>1 DEF Linked, Registers, Machine
<1>6. EndOf(r, as, k) = IF k = n THEN r.sp ELSE as[k + 1].ap
  BY DEF EndOf
<1>7. /\ as[k].fp \in Nat /\ as[k].ap \in Nat /\ as[k].args \in Nat /\ as[k].locals \in Nat
      /\ as[k].fp = as[k].ap + as[k].args + 4
  BY <1>2, <1>3
<1>. HIDE DEF n
<1>8. CASE k = n
  <2>1. EndOf(r, as, k) = r.sp
    BY <1>6, <1>8
  <2>2. as[k].fp + as[k].locals < r.sp
    BY <1>5, <1>8
  <2>3. r.sp <= r.sp
    BY <1>5
  <2>. QED
    BY <1>5, <1>7, <2>1, <2>2, <2>3, Zenon
<1>9. CASE k # n
  <2> DEFINE j == k + 1
  <2>1. j \in 1 .. n /\ k < j /\ k \in 1 .. n /\ (j = n \/ j < n)
    BY <1>1, <1>9
  <2>2. EndOf(r, as, k) = as[j].ap
    BY <1>6, <1>9
  <2>. HIDE DEF j
  <2>3. /\ as[j].fp \in Nat /\ as[j].ap \in Nat /\ as[j].args \in Nat /\ as[j].locals \in Nat
        /\ as[j].fp = as[j].ap + as[j].args + 4
    BY <1>2, <1>3, <2>1
  <2>4. as[k].fp + as[k].locals < as[j].ap
    BY <1>4, <2>1
  <2>5. as[n].fp \in Nat /\ as[n].ap \in Nat /\ as[n].args \in Nat /\ as[n].locals \in Nat
        /\ as[n].fp = as[n].ap + as[n].args + 4
    BY <1>1, <1>2, <1>3
  <2>6. j < n => as[j].fp + as[j].locals < as[n].ap
    BY <1>1, <1>4, <2>1
  <2>7. as[j].ap <= r.sp
    <3> DEFINE x == as[j]
               y == as[n]
               sp == r.sp
    <3>1. /\ x.ap \in Nat /\ x.fp \in Nat /\ x.args \in Nat /\ x.locals \in Nat /\ sp \in Nat
          /\ x.fp = x.ap + x.args + 4
          /\ y.ap \in Nat /\ y.fp \in Nat /\ y.args \in Nat /\ y.locals \in Nat
          /\ y.fp = y.ap + y.args + 4 /\ y.fp + y.locals < sp
          /\ j = n \/ x.fp + x.locals < y.ap
      BY <1>5, <2>1, <2>3, <2>5, <2>6, Zenon
    <3>2. sp <= sp
      BY <3>1
    <3>3. y.ap <= sp
      <4>. HIDE DEF x, y, sp
      <4>. QED
        BY <3>1, <3>2, BoundArithmetic, Zenon
    <3>4. j = n => x.ap <= sp
      BY <3>3
    <3>5. x.fp + x.locals < y.ap => x.ap <= sp
      <4> DEFINE xa == x.ap
                 xf == x.fp
                 xn == x.args
                 xl == x.locals
                 ya == y.ap
      <4>1. /\ xa \in Nat /\ xf \in Nat /\ xn \in Nat /\ xl \in Nat /\ ya \in Nat /\ sp \in Nat
            /\ xf = xa + xn + 4 /\ ya <= sp
        BY <3>1, <3>3
      <4>. HIDE DEF xa, xf, xn, xl, ya, sp
      <4>2. xf + xl < ya => xa <= sp
        BY <4>1
      <4>. QED
        BY <4>2 DEF xa, xf, xl, ya
    <3>. QED
      BY <3>1, <3>4, <3>5, Zenon
  <2>. QED
    BY <1>5, <1>7, <2>2, <2>3, <2>4, <2>7
<1>. QED
  BY <1>8, <1>9

LEMMA FrameLies ==
  ASSUME NEW r, NEW as, Linked(r, as), NEW n, n = Len(as), NEW k \in 1 .. n
  PROVE  Lies(as[k], EndOf(r, as, k))
<1> DEFINE e == EndOf(r, as, k)
           size == StackSize + Slack
<1>1. as[k].fp = as[k].ap + as[k].args + 4 /\ as[k].fp + as[k].locals < e
      /\ e <= r.sp /\ r.sp <= size /\ e \in Nat /\ r.sp \in Nat
  BY FrameBounds
<1>2. size \in Nat
  BY StackAssumption
<1>3. e <= size
  <2> DEFINE sp == r.sp
  <2>1. e <= sp /\ sp <= size /\ e \in Nat /\ sp \in Nat
    BY <1>1
  <2>. HIDE DEF e, size, sp
  <2>. QED
    BY <1>2, <2>1
<1>4. as[k] \in Act
  BY ActFacts DEF Linked
<1>. HIDE DEF e
<1>. QED
  BY <1>1, <1>3, <1>4 DEF Lies, e

\* The operands of a caller end where the frame of its callee begins.
LEMMA LowerEnds ==
  ASSUME NEW r, NEW as, Linked(r, as), NEW k \in 1 .. Len(as), k # Len(as)
  PROVE  /\ EndOf(r, as, k) = as[k + 1].ap /\ EndOf(r, as, k) <= r.ap /\ r.ap \in Nat
         /\ k + 1 = Len(as) => EndOf(r, as, k) = r.ap
<1> DEFINE n == Len(as)
           j == k + 1
<1>1. as \in Acts /\ n \in Nat /\ k \in 1 .. n
  BY LenProperties DEF Linked, Acts
<1>2. j \in 1 .. n /\ k < j /\ (j = n \/ j < n) /\ n \in 1 .. n
  <2>. HIDE DEF n
  <2>1. k # n
    BY DEF n
  <2>. QED
    BY <1>1, <2>1
<1>3. EndOf(r, as, k) = as[j].ap
  BY DEF EndOf
<1>4. as # <<>>
  <2>1. SUFFICES ASSUME as = <<>> PROVE FALSE
    OBVIOUS
  <2>2. n = 0
    BY <2>1, EmptySeq
  <2>. HIDE DEF n
  <2>. QED
    BY <1>1, <2>2
<1>5. r.ap = as[n].ap /\ as[n].ap \in Nat /\ as[j].ap \in Nat /\ as[j].fp \in Nat
      /\ as[j].args \in Nat /\ as[j].locals \in Nat
  BY <1>1, <1>2, <1>4, ActFacts DEF Linked, Registers
<1>6. as[j].fp = as[j].ap + as[j].args + 4
  BY <1>2 DEF Linked, Chain, Saved
<1>7. j < n => as[j].fp + as[j].locals < as[n].ap
  BY <1>2 DEF Linked, Chain, Above
<1>8. as[j].ap <= r.ap
  <2> DEFINE xa == as[j].ap
             xf == as[j].fp
             xn == as[j].args
             xl == as[j].locals
             ya == as[n].ap
  <2>1. /\ xa \in Nat /\ xf \in Nat /\ xn \in Nat /\ xl \in Nat /\ ya \in Nat
        /\ xf = xa + xn + 4
        /\ j < n => xf + xl < ya
    BY <1>5, <1>6, <1>7
  <2>2. j = n => xa = ya
    OBVIOUS
  <2>3. j = n \/ j < n
    BY <1>2
  <2>. HIDE DEF xa, xf, xn, xl, ya
  <2>4. j = n => xa <= ya
    BY <2>1, <2>2
  <2>5. xf + xl < ya => xa <= ya
    BY <2>1
  <2>. QED
    BY <2>1, <2>3, <2>4, <2>5, <1>5 DEF xa, ya
<1>. QED
  BY <1>3, <1>5, <1>8

-----------------------------------------------------------------------------
(* The parts of an activation.                                             *)

Rec(ret, args, self, locals, ops) ==
  [ret |-> ret, args |-> args, self |-> self, locals |-> locals, ops |-> ops]

ArgsAt(p, x)   == [i \in 1 .. x.args |-> p[x.fp - 5 - x.args + i]]
LocalsAt(p, x) == [i \in 1 .. x.locals |-> p[x.fp + i]]
Depth(x, e)    == e - (x.fp + 1 + x.locals)
OpsAt(p, x, e) == [i \in 1 .. Depth(x, e) |-> p[x.fp + x.locals + i]]

LEMMA Parts ==
  ASSUME NEW p, NEW x, NEW e
  PROVE  FrameAt(p, x, e) =
           Rec(p[x.fp - 3], ArgsAt(p, x), p[x.fp - 4], LocalsAt(p, x), OpsAt(p, x, e))
BY DEF FrameAt, Rec, ArgsAt, LocalsAt, OpsAt, Depth

LEMMA SameParts ==
  ASSUME NEW a, NEW b, NEW c, NEW d, NEW o, NEW a1, NEW b1, NEW c1, NEW d1, NEW o1,
         Rec(a, b, c, d, o) = Rec(a1, b1, c1, d1, o1)
  PROVE  a = a1 /\ b = b1 /\ c = c1 /\ d = d1 /\ o = o1
<1> DEFINE x == Rec(a, b, c, d, o)
           y == Rec(a1, b1, c1, d1, o1)
<1>1. x.ret = a /\ x.args = b /\ x.self = c /\ x.locals = d /\ x.ops = o
  BY DEF Rec
<1>2. y.ret = a1 /\ y.args = b1 /\ y.self = c1 /\ y.locals = d1 /\ y.ops = o1
  BY DEF Rec
<1>3. x = y
  OBVIOUS
<1>. HIDE DEF x, y
<1>. QED
  BY <1>1, <1>2, <1>3

LEMMA PartFacts ==
  ASSUME NEW p, NEW x, NEW e, Lies(x, e)
  PROVE  /\ IsList(ArgsAt(p, x), x.args) /\ x.args \in Nat
         /\ IsList(LocalsAt(p, x), x.locals) /\ x.locals \in Nat
         /\ IsList(OpsAt(p, x, e), Depth(x, e)) /\ Depth(x, e) \in Nat
         /\ \A i \in 1 .. Depth(x, e) : OpsAt(p, x, e)[i] = p[x.fp + x.locals + i]
<1>1. x.args \in Nat /\ x.locals \in Nat /\ x.fp \in Nat /\ e \in Nat /\ x.fp + x.locals < e
  BY ActNumbers DEF Lies
<1>2. Depth(x, e) \in Nat
  <2> DEFINE l == x.locals
             f == x.fp
  <2>1. l \in Nat /\ f \in Nat /\ e \in Nat /\ f + l < e
    BY <1>1
  <2>. HIDE DEF l, f
  <2>2. e - (f + 1 + l) \in Nat
    BY <2>1
  <2>. QED
    BY <2>2 DEF Depth, l, f
<1>3. IsList(ArgsAt(p, x), x.args) /\ IsList(LocalsAt(p, x), x.locals)
  BY <1>1 DEF IsList, ArgsAt, LocalsAt
<1>. HIDE DEF Depth
<1>4. /\ IsList(OpsAt(p, x, e), Depth(x, e))
      /\ \A i \in 1 .. Depth(x, e) : OpsAt(p, x, e)[i] = p[x.fp + x.locals + i]
  BY <1>2 DEF IsList, OpsAt
<1>. QED
  BY <1>1, <1>2, <1>3, <1>4

\* The same cells with another end.
LEMMA OtherEnd ==
  ASSUME NEW x, NEW e, NEW d, NEW p, NEW q, Lies(x, e), Lies(x, d), Agree(p, q, e)
  PROVE  FrameAt(q, x, d) =
           Rec(p[x.fp - 3], ArgsAt(p, x), p[x.fp - 4], LocalsAt(p, x), OpsAt(q, x, d))
<1>1. FrameAt(q, x, e) = FrameAt(p, x, e)
  BY SameCells
<1>2. /\ q[x.fp - 3] = p[x.fp - 3] /\ ArgsAt(q, x) = ArgsAt(p, x)
      /\ q[x.fp - 4] = p[x.fp - 4] /\ LocalsAt(q, x) = LocalsAt(p, x)
  <2>1. Rec(q[x.fp - 3], ArgsAt(q, x), q[x.fp - 4], LocalsAt(q, x), OpsAt(q, x, e))
          = Rec(p[x.fp - 3], ArgsAt(p, x), p[x.fp - 4], LocalsAt(p, x), OpsAt(p, x, e))
    BY <1>1, Parts, Zenon
  <2>. QED
    BY <2>1, SameParts
<1>. QED
  BY <1>2, Parts

LEMMA DepthNext ==
  ASSUME NEW x, NEW e, Lies(x, e)
  PROVE  /\ Depth(x, e + 1) = Depth(x, e) + 1 /\ x.fp + x.locals + Depth(x, e + 1) = e
         /\ x.fp + x.locals + 1 + Depth(x, e) = e
         /\ x.fp + x.locals + 1 < e => Depth(x, e - 1) = Depth(x, e) - 1 /\ Depth(x, e) >= 1
         /\ Depth(x, e) >= 0
<1> DEFINE l == x.locals
           f == x.fp
<1>1. l \in Nat /\ f \in Nat /\ e \in Nat /\ f + l < e
  BY ActNumbers DEF Lies
<1>. HIDE DEF l, f
<1>2. /\ (e + 1) - (f + 1 + l) = (e - (f + 1 + l)) + 1 /\ f + l + ((e + 1) - (f + 1 + l)) = e
      /\ f + l + 1 + (e - (f + 1 + l)) = e
      /\ f + l + 1 < e => /\ (e - 1) - (f + 1 + l) = (e - (f + 1 + l)) - 1
                          /\ (e - (f + 1 + l)) >= 1
      /\ e - (f + 1 + l) >= 0
  BY <1>1
<1>. QED
  BY <1>2 DEF Depth, l, f

\* One more operand.
LEMMA OpsPush ==
  ASSUME NEW x, NEW e, NEW p, NEW q, NEW v, Lies(x, e), Lies(x, e + 1), Agree(p, q, e), q[e] = v
  PROVE  FrameAt(q, x, e + 1) =
           Rec(p[x.fp - 3], ArgsAt(p, x), p[x.fp - 4], LocalsAt(p, x), Plus(OpsAt(p, x, e), v))
<1> DEFINE n == Depth(x, e)
           s == OpsAt(q, x, e + 1)
           t == OpsAt(p, x, e)
           b == x.fp + x.locals
<1>1. n \in Nat /\ Depth(x, e + 1) = n + 1 /\ b + (n + 1) = e
  <2>1. n \in Nat /\ Depth(x, e + 1) = n + 1 /\ b + Depth(x, e + 1) = e
    BY PartFacts, DepthNext
  <2>. QED
    BY <2>1
<1>2. IsList(s, n + 1) /\ \A i \in 1 .. n + 1 : s[i] = q[b + i]
  BY PartFacts, <1>1
<1>3. IsList(t, n) /\ \A i \in 1 .. n : t[i] = p[b + i]
  BY PartFacts
<1>4. \A i \in 1 .. n : q[b + i] = p[b + i]
  <2>1. OpsAt(q, x, e) = t
    <3>1. FrameAt(q, x, e) = FrameAt(p, x, e)
      BY SameCells
    <3>2. Rec(q[x.fp - 3], ArgsAt(q, x), q[x.fp - 4], LocalsAt(q, x), OpsAt(q, x, e))
            = Rec(p[x.fp - 3], ArgsAt(p, x), p[x.fp - 4], LocalsAt(p, x), OpsAt(p, x, e))
      BY <3>1, Parts, Zenon
    <3>. QED
      BY <3>2, SameParts
  <2>2. \A i \in 1 .. n : OpsAt(q, x, e)[i] = q[b + i]
    BY PartFacts
  <2>. QED
    BY <2>1, <2>2, <1>3
<1>. HIDE DEF n, s, t, b
<1>5. /\ IsList(Plus(t, v), n + 1) /\ Plus(t, v)[n + 1] = v
      /\ \A i \in 1 .. n : Plus(t, v)[i] = t[i]
  BY <1>1, <1>3, ListAppend
<1>6. \A i \in 1 .. n + 1 : s[i] = Plus(t, v)[i]
  <2>1. \A i \in 1 .. n + 1 : i \in 1 .. n \/ i = n + 1
    BY <1>1
  <2>2. s[n + 1] = v
    BY <1>1, <1>2
  <2>3. \A i \in 1 .. n : i \in 1 .. n + 1
    BY <1>1
  <2>4. \A i \in 1 .. n : s[i] = t[i]
    BY <1>2, <1>3, <1>4, <2>3
  <2>. QED
    BY <1>5, <2>1, <2>2, <2>4
<1>7. s = Plus(t, v)
  BY <1>1, <1>2, <1>5, <1>6, SameLists
<1>. QED
  BY <1>7, OtherEnd DEF s, t

\* One operand less.
LEMMA OpsPop ==
  ASSUME NEW x, NEW e, NEW p, Lies(x, e), x.fp + x.locals + 1 < e
  PROVE  /\ FrameAt(p, x, e - 1) =
              Rec(p[x.fp - 3], ArgsAt(p, x), p[x.fp - 4], LocalsAt(p, x), Front(OpsAt(p, x, e)))
         /\ OpsAt(p, x, e) # <<>> /\ Last(OpsAt(p, x, e)) = p[e - 1]
<1> DEFINE n == Depth(x, e)
           t == OpsAt(p, x, e)
           s == OpsAt(p, x, e - 1)
           b == x.fp + x.locals
<1>1. n \in Nat /\ n >= 1 /\ Depth(x, e - 1) = n - 1 /\ b + n = e - 1 /\ n - 1 \in Nat
  <2>1. n \in Nat /\ n >= 1 /\ Depth(x, e - 1) = n - 1 /\ b + 1 + n = e
    BY PartFacts, DepthNext
  <2>2. b \in Nat
    BY ActNumbers DEF Lies
  <2>. HIDE DEF n, b
  <2>. QED
    BY <2>1, <2>2
<1>2. IsList(t, n) /\ \A i \in 1 .. n : t[i] = p[b + i]
  BY PartFacts
<1>3. IsList(s, n - 1) /\ \A i \in 1 .. n - 1 : s[i] = p[b + i]
  <2>1. s = [i \in 1 .. n - 1 |-> p[b + i]]
    BY <1>1 DEF OpsAt
  <2>. HIDE DEF s, n, b
  <2>. QED
    BY <1>1, <2>1 DEF IsList
<1>. HIDE DEF n, s, t, b
<1>4. /\ IsList(Front(t), n - 1) /\ \A i \in 1 .. n - 1 : Front(t)[i] = t[i]
      /\ Last(t) = t[n] /\ t # <<>>
  BY <1>1, <1>2, ListFront
<1>5. s = Front(t)
  <2>1. \A i \in 1 .. n - 1 : i \in 1 .. n
    BY <1>1
  <2>2. \A i \in 1 .. n - 1 : s[i] = Front(t)[i]
    BY <1>2, <1>3, <1>4, <2>1
  <2> DEFINE k == n - 1
  <2>3. k \in Nat /\ IsList(s, k) /\ IsList(Front(t), k) /\ \A i \in 1 .. k : s[i] = Front(t)[i]
    BY <1>1, <1>3, <1>4, <2>2
  <2>. HIDE DEF k
  <2>. QED
    BY <2>3, SameLists
<1>6. t[n] = p[e - 1]
  BY <1>1, <1>2
<1>. QED
  BY <1>4, <1>5, <1>6, Parts DEF s, t

LEMMA SlotsApart ==
  ASSUME NEW ap \in Nat, NEW fp \in Nat, NEW n \in Nat, NEW l \in Nat, NEW e \in Nat,
         NEW size \in Nat, fp = ap + n + 4, fp + l < e, e <= size, NEW i \in Nat, i >= 1
  PROVE  /\ i <= n =>
              /\ ap + i - 1 \in 0 .. size - 1
              /\ fp - 3 # ap + i - 1 /\ fp - 4 # ap + i - 1
              /\ \A j \in 1 .. n : (fp - 5 - n + j = ap + i - 1 <=> j = i)
              /\ \A j \in 1 .. l : fp + j # ap + i - 1
              /\ \A j \in 1 .. e - (fp + 1 + l) : fp + l + j # ap + i - 1
         /\ i <= l =>
              /\ fp + i \in 0 .. size - 1
              /\ fp - 3 # fp + i /\ fp - 4 # fp + i
              /\ \A j \in 1 .. n : fp - 5 - n + j # fp + i
              /\ \A j \in 1 .. l : (fp + j = fp + i <=> j = i)
              /\ \A j \in 1 .. e - (fp + 1 + l) : fp + l + j # fp + i
OBVIOUS

StoredAt(s, i, v) == [s EXCEPT ![i] = v]

\* A store to an argument or to a local variable changes that and nothing else.
LEMMA StoreParts ==
  ASSUME NEW x, NEW e, NEW p \in [Index -> Cell], NEW q, NEW v, Lies(x, e), NEW i \in Nat, i >= 1
  PROVE  /\ i <= x.args /\ q = StoredAt(p, x.ap + i - 1, v) =>
              FrameAt(q, x, e) =
                Rec(p[x.fp - 3], StoredAt(ArgsAt(p, x), i, v), p[x.fp - 4], LocalsAt(p, x),
                    OpsAt(p, x, e))
         /\ i <= x.locals /\ q = StoredAt(p, x.fp + i, v) =>
              FrameAt(q, x, e) =
                Rec(p[x.fp - 3], ArgsAt(p, x), p[x.fp - 4], StoredAt(LocalsAt(p, x), i, v),
                    OpsAt(p, x, e))
<1> DEFINE fp == x.fp
           ap == x.ap
           n  == x.args
           l  == x.locals
           size == StackSize + Slack
<1>1. /\ fp = ap + n + 4 /\ fp + l < e /\ e <= size
      /\ fp \in Nat /\ ap \in Nat /\ n \in Nat /\ l \in Nat /\ e \in Nat
  BY ActNumbers DEF Lies
<1>2. size \in Nat /\ Index = 0 .. size - 1
  BY StackAssumption DEF Index
<1>3. FrameAt(q, x, e) =
        Rec(q[fp - 3], [j \in 1 .. n |-> q[fp - 5 - n + j]], q[fp - 4], [j \in 1 .. l |-> q[fp + j]],
            [j \in 1 .. e - (fp + 1 + l) |-> q[fp + l + j]])
  BY DEF FrameAt, Rec
<1>4. /\ ArgsAt(p, x) = [j \in 1 .. n |-> p[fp - 5 - n + j]]
      /\ LocalsAt(p, x) = [j \in 1 .. l |-> p[fp + j]]
      /\ OpsAt(p, x, e) = [j \in 1 .. e - (fp + 1 + l) |-> p[fp + l + j]]
  BY DEF ArgsAt, LocalsAt, OpsAt, Depth
<1>. HIDE DEF fp, ap, n, l, size
<1>5. \A j \in 0 .. size - 1 : j < e => j \in Index
  BY <1>2
<1>6. /\ fp - 3 \in 0 .. size - 1 /\ fp - 4 \in 0 .. size - 1
      /\ \A j \in 1 .. n : fp - 5 - n + j \in 0 .. size - 1
      /\ \A j \in 1 .. l : fp + j \in 0 .. size - 1
      /\ \A j \in 1 .. e - (fp + 1 + l) : fp + l + j \in 0 .. size - 1
  BY <1>1, <1>2, CellsOfFrame
<1>7. ASSUME i <= n, q = StoredAt(p, ap + i - 1, v)
      PROVE  FrameAt(q, x, e) =
                Rec(p[fp - 3], StoredAt(ArgsAt(p, x), i, v), p[fp - 4], LocalsAt(p, x),
                    OpsAt(p, x, e))
  <2> DEFINE slot == ap + i - 1
  <2>1. /\ slot \in 0 .. size - 1
        /\ fp - 3 # slot /\ fp - 4 # slot
        /\ \A j \in 1 .. n : (fp - 5 - n + j = slot <=> j = i)
        /\ \A j \in 1 .. l : fp + j # slot
        /\ \A j \in 1 .. e - (fp + 1 + l) : fp + l + j # slot
    BY <1>1, <1>2, <1>7, SlotsApart
  <2>2. q = [p EXCEPT ![slot] = v]
    BY <1>7 DEF StoredAt
  <2>. HIDE DEF slot
  <2>3. q[slot] = v /\ \A j \in 0 .. size - 1 : j # slot => q[j] = p[j]
    BY <1>2, <2>1, <2>2
  <2>4. q[fp - 3] = p[fp - 3] /\ q[fp - 4] = p[fp - 4]
    BY <1>6, <2>1, <2>3
  <2>5. [j \in 1 .. l |-> q[fp + j]] = [j \in 1 .. l |-> p[fp + j]]
    BY <1>6, <2>1, <2>3
  <2>6. [j \in 1 .. e - (fp + 1 + l) |-> q[fp + l + j]] = [j \in 1 .. e - (fp + 1 + l) |-> p[fp + l + j]]
    BY <1>6, <2>1, <2>3
  <2>7. [j \in 1 .. n |-> q[fp - 5 - n + j]] = [[j \in 1 .. n |-> p[fp - 5 - n + j]] EXCEPT ![i] = v]
    <3>1. \A j \in 1 .. n : q[fp - 5 - n + j] = IF j = i THEN v ELSE p[fp - 5 - n + j]
      BY <1>6, <2>1, <2>3
    <3>. QED
      BY <3>1
  <2>. QED
    BY <1>3, <1>4, <2>4, <2>5, <2>6, <2>7 DEF StoredAt
<1>8. ASSUME i <= l, q = StoredAt(p, fp + i, v)
      PROVE  FrameAt(q, x, e) =
                Rec(p[fp - 3], ArgsAt(p, x), p[fp - 4], StoredAt(LocalsAt(p, x), i, v),
                    OpsAt(p, x, e))
  <2> DEFINE slot == fp + i
  <2>1. /\ slot \in 0 .. size - 1
        /\ fp - 3 # slot /\ fp - 4 # slot
        /\ \A j \in 1 .. n : fp - 5 - n + j # slot
        /\ \A j \in 1 .. l : (fp + j = slot <=> j = i)
        /\ \A j \in 1 .. e - (fp + 1 + l) : fp + l + j # slot
    BY <1>1, <1>2, <1>8, SlotsApart
  <2>2. q = [p EXCEPT ![slot] = v]
    BY <1>8 DEF StoredAt
  <2>. HIDE DEF slot
  <2>3. q[slot] = v /\ \A j \in 0 .. size - 1 : j # slot => q[j] = p[j]
    BY <1>2, <2>1, <2>2
  <2>4. q[fp - 3] = p[fp - 3] /\ q[fp - 4] = p[fp - 4]
    BY <1>6, <2>1, <2>3
  <2>5. [j \in 1 .. n |-> q[fp - 5 - n + j]] = [j \in 1 .. n |-> p[fp - 5 - n + j]]
    BY <1>6, <2>1, <2>3
  <2>6. [j \in 1 .. e - (fp + 1 + l) |-> q[fp + l + j]] = [j \in 1 .. e - (fp + 1 + l) |-> p[fp + l + j]]
    BY <1>6, <2>1, <2>3
  <2>7. [j \in 1 .. l |-> q[fp + j]] = [[j \in 1 .. l |-> p[fp + j]] EXCEPT ![i] = v]
    <3>1. \A j \in 1 .. l : q[fp + j] = IF j = i THEN v ELSE p[fp + j]
      BY <1>6, <2>1, <2>3
    <3>. QED
      BY <3>1
  <2>. QED
    BY <1>3, <1>4, <2>4, <2>5, <2>6, <2>7 DEF StoredAt
<1>. QED
  BY <1>7, <1>8 DEF fp, ap, n, l

LEMMA NewArithmetic ==
  ASSUME NEW k \in Nat, NEW f \in Nat, NEW n \in Nat, NEW l \in Nat, NEW e \in Nat, NEW b \in Nat,
         NEW z \in Nat, NEW size \in Nat,
         f = k + n + 4, f + l + 1 <= size, b + 1 + z = e, n < z
  PROVE  /\ \A i \in 1 .. n : /\ i - 1 \in 0 .. n /\ f - 5 - n + i = k + (i - 1)
                              /\ e - n - 1 + (i - 1) = b + (z - n + i - 1)
                              /\ z - n + i - 1 \in 1 .. z
         /\ f - 4 = k + n /\ n \in 0 .. n /\ e - n - 1 + n = b + z /\ z \in 1 .. z
         /\ \A i \in 1 .. l : f + i \in 0 .. size - 1 /\ f <= f + i /\ f + i < f + l + 1
         /\ (f + l + 1) - (f + 1 + l) = 0
         /\ z - n \in 1 .. z + 1 /\ z - 1 \in 0 .. z /\ z - n <= (z - 1) + 1
         /\ (z - 1) - (z - n) + 1 = n
OBVIOUS

\* The cells q after a method was called whose n arguments and receiver were
\* the upper operands, that end at e in p.
Entered(p, e, q, a, d, n, l, ret) ==
  /\ a.args = n /\ a.locals = l /\ d = a.fp + l + 1 /\ q[a.fp - 3] = ret
  /\ \A i \in 0 .. n : q[a.ap + i] = p[e - n - 1 + i]
  /\ \A i \in Index : a.fp <= i /\ i < d => q[i] = Null

\* The frame of a method that has just been called with n arguments, the upper
\* operands of x.
LEMMA NewFrame ==
  ASSUME NEW x, NEW e, NEW p, NEW q, Lies(x, e), NEW n \in Nat, NEW l \in Nat, n < Depth(x, e),
         NEW a, NEW d, Lies(a, d), NEW ret, Entered(p, e, q, a, d, n, l, ret)
  PROVE  FrameAt(q, a, d) =
           Rec(ret, SubSeq(OpsAt(p, x, e), Depth(x, e) - n, Depth(x, e) - 1), Last(OpsAt(p, x, e)),
               [i \in 1 .. l |-> Null], <<>>)
<1>0. /\ a.args = n /\ a.locals = l /\ d = a.fp + l + 1 /\ q[a.fp - 3] = ret
      /\ \A i \in 0 .. n : q[a.ap + i] = p[e - n - 1 + i]
      /\ \A i \in Index : a.fp <= i /\ i < d => q[i] = Null
  BY DEF Entered
<1> DEFINE k == a.ap
           f == a.fp
           b == x.fp + x.locals
           z == Depth(x, e)
           o == OpsAt(p, x, e)
           size == StackSize + Slack
           s == SubSeq(o, z - n, z - 1)
<1>1. k \in Nat /\ f \in Nat /\ f = k + n + 4 /\ f + l + 1 <= size
  BY <1>0, ActNumbers DEF Lies
<1>2. e \in Nat /\ b \in Nat
  BY ActNumbers DEF Lies
<1>3. z \in Nat /\ b + 1 + z = e /\ n < z
  BY PartFacts, DepthNext
<1>4. size \in Nat /\ Index = 0 .. size - 1
  BY StackAssumption DEF Index
<1>5. IsList(o, z) /\ \A i \in 1 .. z : o[i] = p[b + i]
  BY PartFacts
<1>6. FrameAt(q, a, d) =
        Rec(q[f - 3], [i \in 1 .. n |-> q[f - 5 - n + i]], q[f - 4], [i \in 1 .. l |-> q[f + i]],
            [i \in 1 .. (f + l + 1) - (f + 1 + l) |-> q[f + l + i]])
  BY <1>0 DEF FrameAt, Rec
<1>7. /\ \A i \in 0 .. n : q[k + i] = p[e - n - 1 + i]
      /\ \A i \in 0 .. size - 1 : f <= i /\ i < f + l + 1 => q[i] = Null
      /\ q[f - 3] = ret
  BY <1>0, <1>4
<1>. HIDE DEF k, f, b, z, o, size, s
<1>8. /\ \A i \in 1 .. n : /\ i - 1 \in 0 .. n /\ f - 5 - n + i = k + (i - 1)
                           /\ e - n - 1 + (i - 1) = b + (z - n + i - 1)
                           /\ z - n + i - 1 \in 1 .. z
      /\ f - 4 = k + n /\ n \in 0 .. n /\ e - n - 1 + n = b + z /\ z \in 1 .. z
      /\ \A i \in 1 .. l : f + i \in 0 .. size - 1 /\ f <= f + i /\ f + i < f + l + 1
      /\ (f + l + 1) - (f + 1 + l) = 0
      /\ z - n \in 1 .. z + 1 /\ z - 1 \in 0 .. z /\ z - n <= (z - 1) + 1
      /\ (z - 1) - (z - n) + 1 = n
  BY <1>1, <1>2, <1>3, <1>4, NewArithmetic
<1>9. IsList(s, n) /\ \A i \in 1 .. n : s[i] = o[z - n + i - 1]
  <2> DEFINE u == z - n
             w == z - 1
  <2>1. u \in 1 .. z + 1 /\ w \in 0 .. z /\ u <= w + 1 /\ w - u + 1 = n
    BY <1>8
  <2>2. s = SubSeq(o, u, w)
    BY DEF s
  <2>. HIDE DEF u, w
  <2>3. /\ IsList(SubSeq(o, u, w), w - u + 1)
        /\ \A i \in 1 .. w - u + 1 : SubSeq(o, u, w)[i] = o[u + i - 1]
    BY <1>3, <1>5, <2>1, ListSub
  <2>4. IsList(s, n) /\ \A i \in 1 .. n : s[i] = o[u + i - 1]
    BY <2>1, <2>2, <2>3
  <2>. QED
    BY <2>4 DEF u
<1>10. [i \in 1 .. n |-> q[f - 5 - n + i]] = s
  <2>1. ASSUME NEW i \in 1 .. n PROVE q[f - 5 - n + i] = s[i]
    <3>1. i - 1 \in 0 .. n /\ f - 5 - n + i = k + (i - 1)
          /\ e - n - 1 + (i - 1) = b + (z - n + i - 1) /\ z - n + i - 1 \in 1 .. z
      BY <1>8
    <3> DEFINE j == i - 1
               y == z - n + i - 1
    <3>2. j \in 0 .. n /\ f - 5 - n + i = k + j /\ e - n - 1 + j = b + y /\ y \in 1 .. z
      BY <3>1
    <3>. HIDE DEF j
    <3>3. q[k + j] = p[e - n - 1 + j]
      BY <1>7, <3>2
    <3>4. s[i] = o[y]
      BY <1>9
    <3>. HIDE DEF y
    <3>5. o[y] = p[b + y]
      BY <1>5, <3>2
    <3>. QED
      BY <3>2, <3>3, <3>4, <3>5
  <2>. QED
    BY <1>9, <2>1 DEF IsList
<1>11. q[f - 4] = Last(o)
  <2>1. q[k + n] = p[e - n - 1 + n]
    BY <1>7, <1>8
  <2>2. o[z] = p[b + z]
    BY <1>5, <1>8
  <2>3. Last(o) = o[z]
    BY <1>3, <1>5, ListIsSeq DEF Last
  <2>. QED
    BY <1>8, <2>1, <2>2, <2>3
<1>12. [i \in 1 .. l |-> q[f + i]] = [i \in 1 .. l |-> Null]
  BY <1>7, <1>8
<1>13. [i \in 1 .. (f + l + 1) - (f + 1 + l) |-> q[f + l + i]] = <<>>
  <2>1. 1 .. 0 = {}
    OBVIOUS
  <2>2. [i \in 1 .. 0 |-> q[f + l + i]] = <<>>
    OBVIOUS
  <2>. QED
    BY <1>8, <2>2
<1>. QED
  BY <1>6, <1>7, <1>10, <1>11, <1>12, <1>13 DEF s, o, z

\* The caller keeps the operands below the arguments.
LEMMA CallerParts ==
  ASSUME NEW x, NEW e, NEW p, NEW q, Lies(x, e), NEW n \in Nat, n < Depth(x, e),
         NEW d, d = e - n - 1, Agree(p, q, e)
  PROVE  /\ Lies(x, d)
         /\ FrameAt(q, x, d) =
              Rec(p[x.fp - 3], ArgsAt(p, x), p[x.fp - 4], LocalsAt(p, x),
                  SubSeq(OpsAt(p, x, e), 1, Depth(x, e) - n - 1))
<1> DEFINE f == x.fp
           l == x.locals
           b == f + l
           z == Depth(x, e)
           o == OpsAt(p, x, e)
           s == SubSeq(o, 1, z - n - 1)
           size == StackSize + Slack
           w == z - n - 1
<1>1. f \in Nat /\ l \in Nat /\ e \in Nat /\ e <= size /\ b = f + l /\ b \in Nat /\ f + l < e
  BY ActNumbers DEF Lies
<1>2. size \in Nat
  BY StackAssumption
<1>3. z \in Nat /\ b + 1 + z = e /\ n < z
  BY PartFacts, DepthNext
<1>4. w \in Nat /\ w <= z /\ d = b + 1 + w /\ d - (f + 1 + l) = w /\ f + l < d /\ d \in Nat /\ d <= size
      /\ w \in 0 .. z /\ 1 \in 1 .. z + 1 /\ 1 <= w + 1 /\ w - 1 + 1 = w
  <2>. HIDE DEF f, l, b, z, size
  <2>. QED
    BY <1>1, <1>2, <1>3
<1>5. Lies(x, d)
  BY <1>4 DEF Lies
<1>6. IsList(o, z) /\ \A i \in 1 .. z : o[i] = p[b + i]
  BY PartFacts
<1>7. Depth(x, d) = w
  BY <1>4 DEF Depth
<1>8. OpsAt(q, x, d) = [i \in 1 .. w |-> q[b + i]]
  BY <1>7 DEF OpsAt
<1>9. OpsAt(q, x, e) = o
  <2>1. FrameAt(q, x, e) = FrameAt(p, x, e)
    BY SameCells
  <2>2. Rec(q[x.fp - 3], ArgsAt(q, x), q[x.fp - 4], LocalsAt(q, x), OpsAt(q, x, e))
          = Rec(p[x.fp - 3], ArgsAt(p, x), p[x.fp - 4], LocalsAt(p, x), OpsAt(p, x, e))
    BY <2>1, Parts, Zenon
  <2>. QED
    BY <2>2, SameParts
<1>10. \A i \in 1 .. z : o[i] = q[b + i]
  BY <1>9, PartFacts
<1>11. s = OpsAt(q, x, d)
  <2>1. s = SubSeq(o, 1, w)
    OBVIOUS
  <2>. HIDE DEF f, l, b, z, o, size, w, s
  <2>2. /\ IsList(SubSeq(o, 1, w), w - 1 + 1)
        /\ \A i \in 1 .. w - 1 + 1 : SubSeq(o, 1, w)[i] = o[1 + i - 1]
    BY <1>3, <1>4, <1>6, ListSub
  <2>3. IsList(s, w) /\ \A i \in 1 .. w : s[i] = o[1 + i - 1]
    BY <1>4, <2>1, <2>2
  <2>4. \A i \in 1 .. w : 1 + i - 1 = i /\ i \in 1 .. z
    BY <1>3, <1>4
  <2>5. \A i \in 1 .. w : s[i] = q[b + i]
    BY <1>10, <2>3, <2>4
  <2>. QED
    BY <1>8, <2>3, <2>5 DEF IsList
<1>. QED
  BY <1>5, <1>11, OtherEnd

LEMMA AgreeLess ==
  ASSUME NEW p, NEW q, NEW e \in Nat, NEW d \in Nat, d <= e, Agree(p, q, e)
  PROVE  Agree(p, q, d)
BY StackAssumption DEF Agree, Index

-----------------------------------------------------------------------------
(* What the operations do to the activations.                              *)

\* The running one.
Current(r, as) == FrameAt(r.stack, Last(as), r.sp)

LEMMA ViewTop ==
  ASSUME NEW r, NEW as, Linked(r, as), as # <<>>
  PROVE  /\ as \in Acts /\ Len(as) \in Nat /\ Len(as) >= 1 /\ Last(as) = as[Len(as)]
         /\ IsList(View(r, as), Len(as)) /\ View(r, as) # <<>>
         /\ Last(View(r, as)) = Current(r, as)
         /\ Lies(Last(as), r.sp) /\ r.fp = Last(as).fp /\ r.ap = Last(as).ap
<1> DEFINE n == Len(as)
<1>0. n = Len(as)
  OBVIOUS
<1>1. n \in Nat /\ n >= 1 /\ n \in 1 .. n /\ as \in Acts /\ Last(as) = as[n]
  BY NonEmpty DEF Linked
<1>2. EndOf(r, as, n) = r.sp
  BY DEF EndOf
<1>. HIDE DEF n
<1>3. Lies(as[n], r.sp)
  <2>1. Lies(as[n], EndOf(r, as, n))
    BY <1>0, <1>1, FrameLies, Zenon
  <2>. QED
    BY <1>2, <2>1
<1>4. IsList(View(r, as), n) /\ View(r, as)[n] = FrameOf(r, as, n)
  BY <1>0, <1>1, ViewIsList
<1>5. Last(View(r, as)) = View(r, as)[n] /\ View(r, as) # <<>>
  BY <1>1, <1>4, ListFront
<1>6. r.fp = Last(as).fp /\ r.ap = Last(as).ap
  BY LinkedFacts, Zenon
<1>. QED
  BY <1>0, <1>1, <1>2, <1>3, <1>4, <1>5, <1>6 DEF FrameOf, Current

LEMMA NextIndex ==
  ASSUME NEW n \in Nat, n >= 1
  PROVE  n \in 1 .. n /\ \A k \in 1 .. n : k # n => k + 1 \in 1 .. n
OBVIOUS

\* as with another last activation a, at the same place.
Replaces(a, r, as, bs, n) ==
  /\ n \in Nat /\ n = Len(as) /\ n >= 1 /\ Len(bs) = n
  /\ \A k \in 1 .. n : k # n => bs[k] = as[k]
  /\ bs[n] = a /\ a.ap = r.ap

\* The activations V with another last one.
Becomes(V, W, f) == W = Plus(Front(V), f)

\* The running activation is changed or replaced: its callers do not notice.
LEMMA ViewUpdate ==
  ASSUME NEW r, NEW as, Linked(r, as), NEW t, NEW bs, NEW n, NEW a, Replaces(a, r, as, bs, n),
         Agree(r.stack, t.stack, r.ap)
  PROVE  Becomes(View(r, as), View(t, bs), FrameAt(t.stack, a, t.sp))
<1>0. /\ n \in Nat /\ n = Len(as) /\ n >= 1 /\ Len(bs) = n
      /\ \A k \in 1 .. n : k # n => bs[k] = as[k]
      /\ bs[n].ap = r.ap
  BY DEF Replaces
<1>. USE <1>0
<1>1. /\ IsList(View(r, as), n) /\ IsList(View(t, bs), n)
      /\ \A k \in 1 .. n : View(r, as)[k] = FrameOf(r, as, k) /\ View(t, bs)[k] = FrameOf(t, bs, k)
  BY ViewIsList
<1>2. View(t, bs)[n] = FrameAt(t.stack, bs[n], t.sp)
  <2>1. n \in 1 .. n
    BY NextIndex, Zenon
  <2>2. EndOf(t, bs, n) = t.sp
    BY DEF EndOf
  <2>. QED
    BY <1>1, <2>1, <2>2 DEF FrameOf
<1>3. ASSUME NEW k \in 1 .. n, k # n
      PROVE  FrameOf(t, bs, k) = FrameOf(r, as, k)
  <2> DEFINE e == EndOf(r, as, k)
             j == k + 1
  <2>1. e = as[j].ap /\ e <= r.ap /\ r.ap \in Nat /\ (j = n => e = r.ap)
    <3>1. k \in 1 .. Len(as) /\ k # Len(as)
      BY <1>3
    <3>2. /\ e = as[j].ap /\ e <= r.ap /\ r.ap \in Nat
          /\ j = Len(as) => e = r.ap
      BY <3>1, LowerEnds, Zenon
    <3>. QED
      BY <3>2, Zenon
  <2>2. EndOf(t, bs, k) = bs[j].ap
    BY <1>3 DEF EndOf
  <2>3. j \in 1 .. n
    BY <1>3, NextIndex, Zenon
  <2>4. bs[j].ap = e
    BY <2>1, <2>3
  <2>5. Lies(as[k], e)
    BY FrameLies
  <2>6. Agree(r.stack, t.stack, e)
    <3>1. e \in Nat
      BY <2>5 DEF Lies
    <3>. HIDE DEF e
    <3>. QED
      BY <2>1, <3>1, AgreeLess
  <2>7. FrameAt(t.stack, as[k], e) = FrameAt(r.stack, as[k], e)
    BY <2>5, <2>6, SameCells
  <2>. QED
    BY <1>3, <2>2, <2>4, <2>7 DEF FrameOf
<1>4. \A k \in 1 .. n : k # n => View(t, bs)[k] = View(r, as)[k]
  BY <1>1, <1>3
<1>5. View(t, bs) = Plus(Front(View(r, as)), View(t, bs)[n])
  BY <1>1, <1>4, Replaced
<1>6. bs[n] = a
  BY DEF Replaces
<1>. QED
  BY <1>2, <1>5, <1>6, Zenon DEF Becomes

\* Work on the running activation.
LEMMA ViewWork ==
  ASSUME NEW r, NEW as, Linked(r, as), as # <<>>, NEW t, Agree(r.stack, t.stack, r.ap)
  PROVE  View(t, as) = Plus(Front(View(r, as)), Current(t, as))
<1> DEFINE n == Len(as)
           bs == as
<1>1. n \in Nat /\ n >= 1 /\ Last(as) = bs[n] /\ r.ap = Last(as).ap
  BY ViewTop, Zenon
<1>0. Len(bs) = n /\ n = Len(as) /\ \A k \in 1 .. n : k # n => bs[k] = as[k]
  OBVIOUS
<1>2. Last(as).ap = r.ap
  BY <1>1
<1>. HIDE DEF n, bs
<1>3. Becomes(View(r, as), View(t, bs), FrameAt(t.stack, Last(as), t.sp))
  <2>1. Replaces(Last(as), r, as, bs, n)
    BY <1>0, <1>1, <1>2, Zenon DEF Replaces
  <2>. QED
    BY <2>1, ViewUpdate, Zenon
<1>. QED
  BY <1>3, Zenon DEF Current, bs, Becomes

\* An activation on top.
LEMMA ViewAppend ==
  ASSUME NEW as \in Acts, NEW a \in Act, NEW t, NEW u, t.stack = u.stack, u.sp = a.ap
  PROVE  View(t, Append(as, a)) = Plus(View(u, as), FrameAt(t.stack, a, t.sp))
<1> DEFINE n == Len(as)
           bs == Append(as, a)
           V == View(u, as)
           W == View(t, bs)
           x == FrameAt(t.stack, a, t.sp)
<1>1. n \in Nat /\ (\A i \in 1 .. n : bs[i] = as[i]) /\ bs[n + 1] = a
  BY AppendFacts, Zenon
<1>0. Len(bs) = n + 1 /\ n = Len(as)
  BY AppendFacts, Zenon
<1>. HIDE DEF bs, n
<1>2. IsList(V, n) /\ \A k \in 1 .. n : V[k] = FrameOf(u, as, k)
  BY <1>0, <1>1, ViewIsList
<1>3. IsList(W, n + 1) /\ \A k \in 1 .. n + 1 : W[k] = FrameOf(t, bs, k)
  <2> DEFINE p == n + 1
  <2>0. p \in Nat
    BY <1>1
  <2>1. p \in Nat /\ p = Len(bs)
    BY <1>0, <2>0, Zenon
  <2>. HIDE DEF p
  <2>2. IsList(W, p) /\ \A k \in 1 .. p : W[k] = FrameOf(t, bs, k)
    BY <2>1, ViewIsList
  <2>. QED
    BY <2>2 DEF p
<1>4. W[n + 1] = x
  <2>1. n + 1 \in 1 .. n + 1
    BY <1>1
  <2>. QED
    BY <1>0, <1>1, <1>3, <2>1, Zenon DEF FrameOf, EndOf
<1>5. ASSUME NEW k \in 1 .. n PROVE FrameOf(t, bs, k) = FrameOf(u, as, k)
  <2>1. EndOf(t, bs, k) = bs[k + 1].ap
    <3>1. k # n + 1
      BY <1>1
    <3>. QED
      BY <1>0, <3>1, Zenon DEF EndOf
  <2>2. EndOf(u, as, k) = IF k = n THEN u.sp ELSE as[k + 1].ap
    BY <1>0, Zenon DEF EndOf
  <2>3. k = n => bs[k + 1].ap = u.sp
    BY <1>1
  <2>4. k # n => bs[k + 1] = as[k + 1]
    <3>1. n >= 1
      BY <1>1
    <3>2. k # n => k + 1 \in 1 .. n
      BY <1>1, <3>1, NextIndex, Zenon
    <3>. QED
      BY <1>1, <3>2, Zenon
  <2>5. EndOf(t, bs, k) = EndOf(u, as, k)
    BY <2>1, <2>2, <2>3, <2>4
  <2>. QED
    BY <1>1, <2>5 DEF FrameOf
<1>. HIDE DEF n, V, W, x
<1>6. /\ IsList(Plus(V, x), n + 1) /\ Plus(V, x)[n + 1] = x
      /\ \A i \in 1 .. n : Plus(V, x)[i] = V[i]
  BY <1>1, <1>2, ListAppend
<1>7. \A i \in 1 .. n + 1 : W[i] = Plus(V, x)[i]
  <2>1. \A i \in 1 .. n + 1 : i \in 1 .. n \/ i = n + 1
    BY <1>1
  <2>2. \A i \in 1 .. n : i \in 1 .. n + 1
    BY <1>1
  <2>3. \A i \in 1 .. n : W[i] = V[i]
    BY <1>2, <1>3, <1>5, <2>2
  <2>. QED
    BY <1>4, <1>6, <2>1, <2>3
<1>8. W = Plus(V, x)
  <2> DEFINE p == n + 1
  <2>1. p \in Nat /\ IsList(W, p) /\ IsList(Plus(V, x), p) /\ \A i \in 1 .. p : W[i] = Plus(V, x)[i]
    BY <1>1, <1>3, <1>6, <1>7
  <2>. HIDE DEF p
  <2>. QED
    BY <2>1, SameLists
<1>. QED
  BY <1>8 DEF V, W, x, bs

\* An activation with other operands, or with a store as well.
WithOps(f, o)         == [f EXCEPT !.ops = o]
WithArg(f, i, v, o)   == [f EXCEPT !.args[i] = v, !.ops = o]
WithLocal(f, i, v, o) == [f EXCEPT !.locals[i] = v, !.ops = o]

LEMMA RecParts ==
  ASSUME NEW a, NEW b, NEW c, NEW d, NEW o, NEW f, f = Rec(a, b, c, d, o)
  PROVE  f.ret = a /\ f.args = b /\ f.self = c /\ f.locals = d /\ f.ops = o
BY DEF Rec

LEMMA RecOps ==
  ASSUME NEW a, NEW b, NEW c, NEW d, NEW o, NEW o1
  PROVE  WithOps(Rec(a, b, c, d, o), o1) = Rec(a, b, c, d, o1)
BY DEF Rec, WithOps

LEMMA RecArg ==
  ASSUME NEW a, NEW b, NEW c, NEW d, NEW o, NEW o1, NEW i, NEW v
  PROVE  WithArg(Rec(a, b, c, d, o), i, v, o1) = Rec(a, StoredAt(b, i, v), c, d, o1)
<1> DEFINE f == Rec(a, b, c, d, o)
           g == [b EXCEPT ![i] = v]
           h == [f EXCEPT !.args = g]
<1>1. f.args = b
  BY DEF Rec
<1>2. WithArg(f, i, v, o1) = [[f EXCEPT !.args = [f.args EXCEPT ![i] = v]] EXCEPT !.ops = o1]
  BY Zenon DEF WithArg
<1>3. WithArg(f, i, v, o1) = [h EXCEPT !.ops = o1]
  BY <1>1, <1>2, Zenon
<1>. HIDE DEF g
<1>4. h = Rec(a, g, c, d, o)
  BY DEF Rec
<1>. HIDE DEF f, h
<1>5. [h EXCEPT !.ops = o1] = Rec(a, g, c, d, o1)
  BY <1>4 DEF Rec
<1>. QED
  BY <1>3, <1>5, Zenon DEF f, g, h, StoredAt

LEMMA RecLocal ==
  ASSUME NEW a, NEW b, NEW c, NEW d, NEW o, NEW o1, NEW i, NEW v
  PROVE  WithLocal(Rec(a, b, c, d, o), i, v, o1) = Rec(a, b, c, StoredAt(d, i, v), o1)
<1> DEFINE f == Rec(a, b, c, d, o)
           g == [d EXCEPT ![i] = v]
           h == [f EXCEPT !.locals = g]
<1>1. f.locals = d
  BY DEF Rec
<1>2. WithLocal(f, i, v, o1) = [[f EXCEPT !.locals = [f.locals EXCEPT ![i] = v]] EXCEPT !.ops = o1]
  BY Zenon DEF WithLocal
<1>3. WithLocal(f, i, v, o1) = [h EXCEPT !.ops = o1]
  BY <1>1, <1>2, Zenon
<1>. HIDE DEF g
<1>4. h = Rec(a, b, c, g, o)
  BY DEF Rec
<1>. HIDE DEF f, h
<1>5. [h EXCEPT !.ops = o1] = Rec(a, b, c, g, o1)
  BY <1>4 DEF Rec
<1>. QED
  BY <1>3, <1>5, Zenon DEF f, g, h, StoredAt

LEMMA CurrentParts ==
  ASSUME NEW r, NEW as
  PROVE  LET x == Last(as)
             p == r.stack
         IN Current(r, as) =
              Rec(p[x.fp - 3], ArgsAt(p, x), p[x.fp - 4], LocalsAt(p, x), OpsAt(p, x, r.sp))
BY Parts DEF Current

LEMMA AgreeBelow ==
  ASSUME NEW r, NEW as, Linked(r, as), as # <<>>, NEW q, Agree(r.stack, q, r.sp)
  PROVE  Agree(r.stack, q, r.ap)
<1> DEFINE a == r.ap
           f == r.fp
           s == r.sp
           n == Last(as).args
           l == Last(as).locals
<1>1. /\ a \in Nat /\ f \in Nat /\ s \in Nat /\ n \in Nat /\ l \in Nat
      /\ f = a + n + 4 /\ f + l < s
  BY LinkedFacts, Zenon
<1>. HIDE DEF a, f, s, n, l
<1>2. a <= s
  BY <1>1
<1>3. Agree(r.stack, q, a)
  <2>1. Agree(r.stack, q, s)
    BY DEF s
  <2>. QED
    BY <1>1, <1>2, <2>1, AgreeLess
<1>. QED
  BY <1>3 DEF a

\* Nothing below sp has changed.
LEMMA ViewSame ==
  ASSUME NEW r, NEW as, Linked(r, as), as # <<>>, NEW t, t.sp = r.sp, Agree(r.stack, t.stack, r.sp)
  PROVE  View(t, as) = View(r, as)
<1>1. Agree(r.stack, t.stack, r.ap)
  BY AgreeBelow
<1>2. View(t, as) = Plus(Front(View(r, as)), Current(t, as))
  BY <1>1, ViewWork
<1>3. Agree(r.stack, r.stack, r.ap)
  BY DEF Agree
<1>4. View(r, as) = Plus(Front(View(r, as)), Current(r, as))
  BY <1>3, ViewWork
<1>5. Lies(Last(as), r.sp)
  BY ViewTop, Zenon
<1>6. Current(t, as) = Current(r, as)
  BY <1>5, SameCells DEF Current
<1>. QED
  BY <1>2, <1>4, <1>6

LEMMA ViewClean ==
  ASSUME NEW r, NEW as, Linked(r, as), as # <<>>
  PROVE  View(Clean(r), as) = View(r, as)
<1> DEFINE t == Clean(r)
<1>1. r \in Machine
  BY LinkedFacts, Zenon
<1>2. t.sp = r.sp /\ Agree(r.stack, t.stack, r.sp)
  BY <1>1, CleanFacts DEF Agree
<1>. HIDE DEF t
<1>3. View(t, as) = View(r, as)
  BY <1>2, ViewSame, Zenon
<1>. QED
  BY <1>3 DEF t

LEMMA ViewPush ==
  ASSUME NEW r, NEW as, Linked(r, as), as # <<>>, NEW v \in Cell, r.sp < StackSize + Slack
  PROVE  View(Push(r, v), as) =
           Plus(Front(View(r, as)), WithOps(Current(r, as), Plus(Current(r, as).ops, v)))
<1> DEFINE t == Push(r, v)
           x == Last(as)
           e == r.sp
           p == r.stack
           f == Current(r, as)
<1>1. r \in Machine /\ e \in Nat
  BY LinkedFacts, Zenon
<1>2. t.sp = e + 1 /\ t.stack[e] = v /\ Agree(p, t.stack, e)
  <2>1. t.sp = e + 1 /\ t.stack[e] = v /\ \A i \in Index : i # e => t.stack[i] = p[i]
    BY <1>1, PushFacts
  <2>2. \A i \in Index : i < e => i # e
    BY <1>1 DEF Index
  <2>. HIDE DEF t, p, e
  <2>. QED
    BY <2>1, <2>2 DEF Agree
<1>3. Linked(t, as)
  BY LinkedPush, Zenon
<1>. HIDE DEF t
<1>4. Lies(x, e) /\ Lies(x, t.sp)
  BY <1>3, ViewTop, Zenon
<1>5. View(t, as) = Plus(Front(View(r, as)), Current(t, as))
  <2>1. Agree(p, t.stack, r.ap)
    BY <1>2, AgreeBelow
  <2>. QED
    BY <2>1, ViewWork
<1>6. Current(t, as) = FrameAt(t.stack, x, e + 1)
  BY <1>2 DEF Current
<1>7. f = Rec(p[x.fp - 3], ArgsAt(p, x), p[x.fp - 4], LocalsAt(p, x), OpsAt(p, x, e))
  BY CurrentParts
<1>8. Lies(x, e + 1)
  BY <1>2, <1>4
<1>. HIDE DEF x, e, p, f
<1>9. FrameAt(t.stack, x, e + 1) =
        Rec(p[x.fp - 3], ArgsAt(p, x), p[x.fp - 4], LocalsAt(p, x), Plus(OpsAt(p, x, e), v))
  BY <1>2, <1>4, <1>8, OpsPush
<1>10. WithOps(f, Plus(f.ops, v)) =
         Rec(p[x.fp - 3], ArgsAt(p, x), p[x.fp - 4], LocalsAt(p, x), Plus(OpsAt(p, x, e), v))
  <2>1. f.ops = OpsAt(p, x, e)
    BY <1>7 DEF Rec
  <2>. QED
    BY <1>7, <2>1 DEF Rec, WithOps
<1>11. Current(t, as) = WithOps(f, Plus(f.ops, v))
  BY <1>6, <1>9, <1>10, Zenon
<1>. QED
  BY <1>5, <1>11, Zenon DEF f, t

LEMMA ViewPop ==
  ASSUME NEW r, NEW as, Linked(r, as), as # <<>>, r.sp > r.fp + 1 + Last(as).locals
  PROVE  /\ View(Pop(r), as) =
              Plus(Front(View(r, as)), WithOps(Current(r, as), Front(Current(r, as).ops)))
         /\ Current(r, as).ops # <<>> /\ Last(Current(r, as).ops) = Top(r)
<1> DEFINE t == Pop(r)
           x == Last(as)
           e == r.sp
           p == r.stack
           f == Current(r, as)
<1>1. r \in Machine /\ e \in Nat /\ x.locals \in Nat /\ r.fp \in Nat /\ r.fp = x.fp
  BY LinkedFacts, Zenon
<1>2. e > 0 /\ x.fp + x.locals + 1 < e
  <2> DEFINE g == x.fp
             l == x.locals
  <2>1. e \in Nat /\ g \in Nat /\ l \in Nat /\ e > g + 1 + l
    BY <1>1
  <2>. HIDE DEF e, g, l
  <2>2. e > 0 /\ g + l + 1 < e
    BY <2>1
  <2>. QED
    BY <2>2 DEF g, l
<1>3. t.sp = e - 1 /\ t.stack = p
  BY <1>1, <1>2, PopFacts
<1>. HIDE DEF t
<1>4. Lies(x, e)
  BY ViewTop, Zenon
<1>5. View(t, as) = Plus(Front(View(r, as)), Current(t, as))
  <2>1. Agree(p, t.stack, r.ap)
    BY <1>3 DEF Agree
  <2>. QED
    BY <2>1, ViewWork
<1>6. Current(t, as) = FrameAt(p, x, e - 1)
  BY <1>3 DEF Current
<1>7. f = Rec(p[x.fp - 3], ArgsAt(p, x), p[x.fp - 4], LocalsAt(p, x), OpsAt(p, x, e))
  BY CurrentParts
<1>8. p[e - 1] = Top(r)
  BY DEF Top
<1>. HIDE DEF x, e, p, f
<1>9. /\ FrameAt(p, x, e - 1) =
           Rec(p[x.fp - 3], ArgsAt(p, x), p[x.fp - 4], LocalsAt(p, x), Front(OpsAt(p, x, e)))
      /\ OpsAt(p, x, e) # <<>> /\ Last(OpsAt(p, x, e)) = p[e - 1]
  BY <1>2, <1>4, OpsPop
<1>10. /\ WithOps(f, Front(f.ops)) =
            Rec(p[x.fp - 3], ArgsAt(p, x), p[x.fp - 4], LocalsAt(p, x), Front(OpsAt(p, x, e)))
       /\ f.ops = OpsAt(p, x, e)
  <2>1. f.ops = OpsAt(p, x, e)
    BY <1>7 DEF Rec
  <2>. QED
    BY <1>7, <2>1 DEF Rec, WithOps
<1>11. Current(t, as) = WithOps(f, Front(f.ops))
  BY <1>6, <1>9, <1>10, Zenon
<1>. QED
  BY <1>5, <1>8, <1>9, <1>10, <1>11, Zenon DEF f, t

\* The frame of the running activation when slot holds v and has taken the
\* operand on top.
LEMMA ViewStore ==
  ASSUME NEW r, NEW as, Linked(r, as), as # <<>>, r.sp > r.fp + 1 + Last(as).locals,
         NEW v \in Cell, NEW slot \in Index,
         r.fp <= slot \/ (r.ap <= slot /\ slot <= r.ap + Last(as).args)
  PROVE  View(Clean(Pop(Written(r, slot, v))), as) =
           Plus(Front(View(r, as)),
                WithOps(Current(Written(r, slot, v), as),
                        Front(Current(Written(r, slot, v), as).ops)))
<1> DEFINE c == Written(r, slot, v)
           u == Pop(c)
           V == View(r, as)
           f == Current(c, as)
<1>1. Linked(c, as) /\ c.sp = r.sp /\ c.fp = r.fp
  BY LinkedStore, Zenon
<1>2. Agree(r.stack, c.stack, r.ap)
  <2> DEFINE a == r.ap
             g == r.fp
             n == Last(as).args
  <2>1. r \in Machine /\ a \in Nat /\ g \in Nat /\ n \in Nat /\ g = a + n + 4
    BY LinkedFacts, Zenon
  <2>2. \A i \in Index : i < a => i # slot
    <3>1. slot \in Index /\ (g <= slot \/ a <= slot)
      OBVIOUS
    <3>. HIDE DEF a, g, n
    <3>2. Index \subseteq Int
      BY DEF Index
    <3>. QED
      BY <2>1, <3>1, <3>2
  <2>3. \A i \in Index : i # slot => c.stack[i] = r.stack[i]
    BY <2>1 DEF Written, Machine, Index
  <2>. HIDE DEF c
  <2>. QED
    BY <2>2, <2>3 DEF Agree
<1>3. c.sp > c.fp + 1 + Last(as).locals
  BY <1>1
<1>. HIDE DEF c
<1>4. View(c, as) = Plus(Front(V), f)
  BY <1>2, ViewWork
<1>5. View(u, as) = Plus(Front(View(c, as)), WithOps(f, Front(f.ops)))
  BY <1>1, <1>3, ViewPop, Zenon
<1>6. Linked(u, as)
  BY <1>1, <1>3, LinkedPop, Zenon
<1>. HIDE DEF u
<1>7. View(Clean(u), as) = View(u, as)
  BY <1>6, ViewClean, Zenon
<1>8. Front(View(c, as)) = Front(V)
  <2> DEFINE n == Len(as)
  <2>1. n \in Nat /\ n >= 1 /\ IsList(V, n)
    BY ViewTop, Zenon
  <2>. HIDE DEF n, V, f
  <2> DEFINE F == Front(V)
             p == n - 1
  <2>3. p \in Nat /\ IsList(F, p)
    BY <2>1, ListFront
  <2>. HIDE DEF F, p
  <2>4. Front(Plus(F, f)) = F
    BY <2>3, FrontOfPlus
  <2>2. Front(Plus(Front(V), f)) = Front(V)
    BY <2>4 DEF F
  <2>. QED
    BY <1>4, <2>2
<1>. QED
  BY <1>5, <1>7, <1>8 DEF c, u, f

\* ST to an argument or to a local variable.
StoresArg(r, as, i, v) ==
  LET f == Current(r, as)
      g == Current(Written(r, r.ap + i - 1, v), as)
  IN g.ops = f.ops /\ \A o : WithOps(g, o) = WithArg(f, i, v, o)
StoresLocal(r, as, i, v) ==
  LET f == Current(r, as)
      h == Current(Written(r, r.fp + i, v), as)
  IN h.ops = f.ops /\ \A o : WithOps(h, o) = WithLocal(f, i, v, o)

LEMMA CurrentStored ==
  ASSUME NEW r, NEW as, Linked(r, as), as # <<>>, NEW v, NEW i \in Nat, i >= 1
  PROVE  /\ i <= Last(as).args => StoresArg(r, as, i, v)
         /\ i <= Last(as).locals => StoresLocal(r, as, i, v)
<1> DEFINE x == Last(as)
           e == r.sp
           p == r.stack
           f == Current(r, as)
           g == Current(Written(r, r.ap + i - 1, v), as)
           h == Current(Written(r, r.fp + i, v), as)
           q1 == Written(r, r.ap + i - 1, v).stack
           q2 == Written(r, r.fp + i, v).stack
<1>1. Lies(x, e) /\ r.fp = x.fp /\ r.ap = x.ap
  BY ViewTop, Zenon
<1>2. r \in Machine
  BY LinkedFacts, Zenon
<1>3. p \in [Index -> Cell]
  BY <1>2 DEF Machine, Index, Cell
<1>4. /\ q1 = StoredAt(p, x.ap + i - 1, v) /\ g = FrameAt(q1, x, e)
      /\ q2 = StoredAt(p, x.fp + i, v) /\ h = FrameAt(q2, x, e)
  BY <1>1, <1>2 DEF Written, Current, Machine, StoredAt
<1>5. f = Rec(p[x.fp - 3], ArgsAt(p, x), p[x.fp - 4], LocalsAt(p, x), OpsAt(p, x, e))
  BY CurrentParts
<1>. HIDE DEF x, e, p, f, g, h, q1, q2
<1>6. /\ i <= x.args =>
           g = Rec(p[x.fp - 3], StoredAt(ArgsAt(p, x), i, v), p[x.fp - 4], LocalsAt(p, x), OpsAt(p, x, e))
      /\ i <= x.locals =>
           h = Rec(p[x.fp - 3], ArgsAt(p, x), p[x.fp - 4], StoredAt(LocalsAt(p, x), i, v), OpsAt(p, x, e))
  <2>1. ASSUME i <= x.args
        PROVE  FrameAt(q1, x, e) =
                 Rec(p[x.fp - 3], StoredAt(ArgsAt(p, x), i, v), p[x.fp - 4], LocalsAt(p, x), OpsAt(p, x, e))
    <3>1. Lies(x, e) /\ q1 = StoredAt(p, x.ap + i - 1, v)
      BY <1>1, <1>4
    <3>. QED
      BY <1>3, <2>1, <3>1, StoreParts, SMTT(30)
  <2>2. ASSUME i <= x.locals
        PROVE  FrameAt(q2, x, e) =
                 Rec(p[x.fp - 3], ArgsAt(p, x), p[x.fp - 4], StoredAt(LocalsAt(p, x), i, v), OpsAt(p, x, e))
    <3>1. Lies(x, e) /\ q2 = StoredAt(p, x.fp + i, v)
      BY <1>1, <1>4
    <3>. QED
      BY <1>3, <2>2, <3>1, StoreParts, SMTT(30)
  <2>. QED
    BY <1>4, <2>1, <2>2
<1> DEFINE a == p[x.fp - 3]
           b == ArgsAt(p, x)
           s == p[x.fp - 4]
           l == LocalsAt(p, x)
           d == OpsAt(p, x, e)
           b1 == StoredAt(b, i, v)
           l1 == StoredAt(l, i, v)
<1>7. /\ f = Rec(a, b, s, l, d)
      /\ i <= x.args => g = Rec(a, b1, s, l, d)
      /\ i <= x.locals => h = Rec(a, b, s, l1, d)
  BY <1>5, <1>6
<1>. HIDE DEF a, b, s, l, d
<1>8. \A o : WithArg(Rec(a, b, s, l, d), i, v, o) = Rec(a, b1, s, l, o)
  BY RecArg
<1>9. \A o : WithLocal(Rec(a, b, s, l, d), i, v, o) = Rec(a, b, s, l1, o)
  BY RecLocal
<1>. HIDE DEF b1, l1
<1>10. ASSUME i <= x.args PROVE g.ops = f.ops /\ \A o : WithOps(g, o) = WithArg(f, i, v, o)
  <2>1. g.ops = d /\ f.ops = d
    BY <1>7, <1>10, RecParts
  <2>2. \A o : WithOps(g, o) = Rec(a, b1, s, l, o)
    BY <1>7, <1>10, RecOps
  <2>. QED
    BY <1>7, <1>8, <2>1, <2>2
<1>11. ASSUME i <= x.locals PROVE h.ops = f.ops /\ \A o : WithOps(h, o) = WithLocal(f, i, v, o)
  <2>1. h.ops = d /\ f.ops = d
    BY <1>7, <1>11, RecParts
  <2>2. \A o : WithOps(h, o) = Rec(a, b, s, l1, o)
    BY <1>7, <1>11, RecOps
  <2>. QED
    BY <1>7, <1>9, <2>1, <2>2
<1>. QED
  BY <1>10, <1>11 DEF f, g, h, x, StoresArg, StoresLocal

LEMMA ActsAreLists ==
  ASSUME NEW as \in Acts
  PROVE  Len(as) \in Nat /\ IsList(as, Len(as))
<1> DEFINE n == Len(as)
<1>1. as \in [1 .. n -> Act] /\ n \in Nat
  BY LenProperties, Zenon DEF Acts
<1>. HIDE DEF n
<1>2. IsList(as, n)
  BY <1>1 DEF IsList
<1>. QED
  BY <1>1, <1>2 DEF n

LEMMA LastAppend ==
  ASSUME NEW as \in Acts, NEW a
  PROVE  Last(Append(as, a)) = a
<1> DEFINE n == Len(as)
<1>1. n \in Nat /\ IsList(as, n)
  BY ActsAreLists
<1>. HIDE DEF n
<1>2. Last(Plus(as, a)) = a
  BY <1>1, FrontOfPlus
<1>. QED
  BY <1>2, Zenon DEF Plus

LEMMA WholeActs ==
  ASSUME NEW as \in Acts, as # <<>>
  PROVE  Append(Front(as), Last(as)) = as
<1> DEFINE n == Len(as)
<1>1. n \in Nat /\ n >= 1 /\ Last(as) = as[n]
  BY NonEmpty
<1>2. IsList(as, n)
  BY ActsAreLists
<1>. HIDE DEF n
<1>3. as = Plus(Front(as), as[n])
  BY <1>1, <1>2, Replaced
<1>. QED
  BY <1>1, <1>3 DEF Plus

LEMMA ViewEmpty ==
  ASSUME NEW r
  PROVE  View(r, <<>>) = <<>>
<1>1. Len(<<>>) = 0
  OBVIOUS
<1>2. [k \in 1 .. 0 |-> FrameOf(r, <<>>, k)] = <<>>
  OBVIOUS
<1>. QED
  BY <1>1, <1>2 DEF View

\* UNWIND.
LEMMA ViewLeave ==
  ASSUME NEW r, NEW as, Linked(r, as), as # <<>>
  PROVE  View(Leave(r), Front(as)) = Front(View(r, as))
<1> DEFINE u == Leave(r)
           f == Front(as)
           a == Last(as)
<1>1. u.stack = r.stack /\ u.sp = r.ap
  BY DEF Leave
<1>2. r.ap = a.ap /\ as \in Acts
  BY ViewTop, Zenon
<1>3. a \in Act
  BY SavedFacts, Zenon
<1>4. f \in Acts
  BY <1>2, FrontFacts, Zenon
<1>5. Append(f, a) = as
  BY <1>2, WholeActs, Zenon
<1> DEFINE p == Len(f)
<1>6. p \in Nat
  BY <1>4, LenProperties DEF Acts
<1>. HIDE DEF u, f, a
<1>7. View(r, Append(f, a)) = Plus(View(u, f), FrameAt(r.stack, a, r.sp))
  BY <1>1, <1>2, <1>3, <1>4, ViewAppend
<1>8. p = Len(f)
  OBVIOUS
<1>. HIDE DEF p
<1>9. IsList(View(u, f), p)
  BY <1>6, <1>8, ViewIsList
<1>10. Front(Plus(View(u, f), FrameAt(r.stack, a, r.sp))) = View(u, f)
  BY <1>6, <1>9, FrontOfPlus
<1>. QED
  BY <1>5, <1>7, <1>10 DEF u, f

\* RET and RET_SELF.
LEMMA ViewReturn ==
  ASSUME NEW r, NEW as, Linked(r, as), as # <<>>, NEW v \in Cell
  PROVE  LET t == Clean(Push(Leave(r), v))
             C == Front(View(r, as))
         IN /\ Front(as) = <<>> => View(t, Front(as)) = <<>> /\ C = <<>>
            /\ Front(as) # <<>> =>
                 /\ C # <<>>
                 /\ View(t, Front(as)) =
                      Plus(Front(C), WithOps(Last(C), Plus(Last(C).ops, v)))
<1> DEFINE u == Leave(r)
           p == Push(u, v)
           t == Clean(p)
           f == Front(as)
           C == Front(View(r, as))
<1>1. u.sp = r.ap /\ r.ap < StackSize + Slack /\ (f # <<>> => Linked(u, f))
  BY LinkedLeave, Zenon
<1>2. View(u, f) = C
  BY ViewLeave, Zenon
<1>. HIDE DEF u, C, f
<1>3. ASSUME f = <<>> PROVE View(t, f) = <<>> /\ C = <<>>
  BY <1>2, <1>3, ViewEmpty
<1>4. ASSUME f # <<>>
      PROVE  C # <<>> /\ View(t, f) = Plus(Front(C), WithOps(Last(C), Plus(Last(C).ops, v)))
  <2>1. Linked(u, f) /\ u.sp < StackSize + Slack
    BY <1>1, <1>4
  <2>2. C # <<>> /\ Last(C) = Current(u, f)
    BY <1>2, <1>4, <2>1, ViewTop
  <2>3. View(p, f) = Plus(Front(C), WithOps(Last(C), Plus(Last(C).ops, v)))
    BY <1>2, <1>4, <2>1, <2>2, ViewPush
  <2>4. Linked(p, f)
    BY <1>4, <2>1, LinkedPush, Zenon
  <2>. HIDE DEF p
  <2>5. View(t, f) = View(p, f)
    BY <1>4, <2>4, ViewClean, Zenon
  <2>. QED
    BY <2>2, <2>3, <2>5
<1>. QED
  BY <1>3, <1>4 DEF u, C, f

\* The operands of the running frame.
LEMMA CurrentOps ==
  ASSUME NEW r, NEW as, Linked(r, as), as # <<>>
  PROVE  LET f == Current(r, as)
             x == Last(as)
         IN /\ f.ops = OpsAt(r.stack, x, r.sp) /\ Len(f.ops) = Depth(x, r.sp)
            /\ Depth(x, r.sp) \in Nat /\ f.ret = r.stack[r.fp - 3]
            /\ f.self = This(r) /\ f.args = ArgsAt(r.stack, x) /\ f.locals = LocalsAt(r.stack, x)
            /\ \A o : WithOps(f, o) = Rec(f.ret, f.args, f.self, f.locals, o)
<1> DEFINE f == Current(r, as)
           x == Last(as)
           e == r.sp
           p == r.stack
<1>1. Lies(x, e) /\ r.fp = x.fp
  BY ViewTop, Zenon
<1>2. f = Rec(p[x.fp - 3], ArgsAt(p, x), p[x.fp - 4], LocalsAt(p, x), OpsAt(p, x, e))
  BY CurrentParts
<1>3. This(r) = p[x.fp - 4]
  BY <1>1 DEF This
<1>. HIDE DEF f, x, e, p
<1>4. /\ f.ret = p[x.fp - 3] /\ f.args = ArgsAt(p, x) /\ f.self = p[x.fp - 4]
      /\ f.locals = LocalsAt(p, x) /\ f.ops = OpsAt(p, x, e)
  BY <1>2, RecParts
<1>5. IsList(OpsAt(p, x, e), Depth(x, e)) /\ Depth(x, e) \in Nat
  BY <1>1, PartFacts
<1>6. Len(OpsAt(p, x, e)) = Depth(x, e)
  BY <1>5, ListIsSeq
<1>7. ASSUME NEW o PROVE WithOps(f, o) = Rec(f.ret, f.args, f.self, f.locals, o)
  BY <1>2, <1>4, RecOps
<1>. QED
  BY <1>1, <1>3, <1>4, <1>5, <1>6, <1>7 DEF f, x, e, p

LEMMA Deep ==
  ASSUME NEW r, NEW as, Linked(r, as), as # <<>>, NEW n \in Nat,
         r.sp > r.fp + 1 + Last(as).locals + n
  PROVE  n < Depth(Last(as), r.sp)
<1> DEFINE f == r.fp
           s == r.sp
           l == Last(as).locals
<1>1. f \in Nat /\ s \in Nat /\ l \in Nat /\ s > f + 1 + l + n
  BY LinkedFacts, Zenon
<1>3. f = Last(as).fp
  BY LinkedFacts, Zenon
<1>. HIDE DEF f, s, l
<1>2. n < s - (f + 1 + l)
  BY <1>1
<1>. QED
  BY <1>2, <1>3 DEF Depth, s, l

\* The method that is called with the upper n operands of f as its arguments.
Callee(ret, f, n, l) ==
  Rec(ret, SubSeq(f.ops, Len(f.ops) - n, Len(f.ops) - 1), Last(f.ops), [i \in 1 .. l |-> Null], <<>>)

LEMMA CallCells ==
  ASSUME NEW sp \in Nat, NEW n \in Nat, NEW l \in Nat, NEW size \in Nat, n + 1 <= sp, sp <= size
  PROVE  /\ (sp + 3) - 3 = sp /\ sp + l + 4 = (sp + 3) + l + 1
         /\ \A i \in 0 .. n : /\ sp - n - 1 + i \in 0 .. size - 1 /\ sp - n - 1 + i < sp
OBVIOUS

LEMMA ViewCall ==
  ASSUME NEW r, NEW as, Linked(r, as), as # <<>>,
         NEW ret \in Addresses, NEW n \in 0 .. MaxArgs, NEW l \in 0 .. MaxLocals,
         r.sp > r.fp + 1 + Last(as).locals + n, r.sp + 3 <= StackSize,
         Allocated(BC_CALL(r, 0, ret, n, l))
  PROVE  LET c == BC_CALL(r, 0, ret, n, l)
             f == Current(r, as)
         IN /\ Len(f.ops) > n
            /\ View(c, Append(as, Activated(c, ret, n, l))) =
                 Plus(Plus(Front(View(r, as)), WithOps(f, SubSeq(f.ops, 1, Len(f.ops) - n - 1))),
                      Callee(ret, f, n, l))
<1> DEFINE c == BC_CALL(r, 0, ret, n, l)
           a == Activated(c, ret, n, l)
           f == Current(r, as)
           x == Last(as)
           e == r.sp
           p == r.stack
           q == c.stack
           d == e - n - 1
           u == [c EXCEPT !.sp = c.ap]
<1>1. /\ r \in Machine /\ as \in Acts /\ e \in Nat /\ r.fp \in Nat /\ r.ap \in Nat /\ x.locals \in Nat
      /\ e <= StackSize + Slack
  BY LinkedFacts, Zenon
<1>2. n \in Nat /\ l \in Nat /\ l <= MaxLocals
  BY FramesAssumption
<1>3. ret \in Int /\ ret \in Addresses \cup {NATIVE} /\ n \in 0 .. MaxArgs + 1 /\ 0 \in Int
  BY FramesAssumption
<1>4. n + 1 <= e
  <2> DEFINE k == x.locals
             g == r.fp
  <2>1. e > g + 1 + k + n /\ e \in Nat /\ g \in Nat /\ k \in Nat /\ n \in Nat
    BY <1>1, <1>2
  <2>. HIDE DEF e, g, k
  <2>. QED
    BY <2>1, CallArithmetic
<1>5. Called(c, r, ret, n, l)
  BY <1>1, <1>2, <1>3, <1>4, CallFacts
<1>6. Linked(c, Append(as, a)) /\ Append(as, a) # <<>>
  BY LinkedCall, Zenon
<1>7. n < Depth(x, e) /\ Lies(x, e)
  BY <1>2, Deep, ViewTop
<1>. HIDE DEF c
<1>8. Describes(a, c, ret, n, l)
  <2>1. c \in Machine
    BY <1>5 DEF Called
  <2>. QED
    BY <1>3, <2>1, ActivatedFacts
<1>. HIDE DEF a
<1>9. /\ c \in Machine /\ c.sp = e + l + 4 /\ c.ap = d /\ c.fp = e + 3 /\ q[e] = ret
      /\ \A i \in Index : i < e => q[i] = p[i]
      /\ \A i \in Index : c.fp <= i /\ i < c.sp => q[i] = Null
  BY <1>5 DEF Called
<1>10. a \in Act /\ a.args = n /\ a.locals = l /\ a.fp = c.fp /\ a.ap = c.ap
  BY <1>8 DEF Describes
<1>11. u.stack = q /\ u.sp = d
  BY <1>9 DEF Machine
<1>12. Agree(p, q, e)
  BY <1>9 DEF Agree
<1>13. Agree(p, u.stack, r.ap)
  BY <1>11, <1>12, AgreeBelow
<1>14. View(u, as) = Plus(Front(View(r, as)), Current(u, as))
  BY <1>13, ViewWork
<1>15. Current(u, as) = FrameAt(q, x, d)
  BY <1>11 DEF Current
<1>16. Lies(a, c.sp)
  <2>1. Last(Append(as, a)) = a
    BY <1>1, LastAppend, Zenon
  <2>2. Lies(Last(Append(as, a)), c.sp)
    BY <1>6, ViewTop, Zenon
  <2>. QED
    BY <2>1, <2>2
<1>17. View(c, Append(as, a)) = Plus(View(u, as), FrameAt(q, a, c.sp))
  <2>1. c.stack = u.stack /\ u.sp = a.ap
    BY <1>9, <1>10, <1>11
  <2>. HIDE DEF u
  <2>. QED
    BY <1>1, <1>10, <2>1, ViewAppend
<1>17a. d = e - n - 1
  OBVIOUS
<1>. HIDE DEF u, q, p, e, d, x
<1>18. FrameAt(q, x, d) =
         Rec(p[x.fp - 3], ArgsAt(p, x), p[x.fp - 4], LocalsAt(p, x),
             SubSeq(OpsAt(p, x, e), 1, Depth(x, e) - n - 1))
  BY <1>2, <1>7, <1>12, <1>17a, CallerParts
<1> DEFINE size == StackSize + Slack
<1>19. /\ size \in Nat /\ Index = 0 .. size - 1 /\ e <= size
  BY <1>1, StackAssumption DEF Index, e
<1>. HIDE DEF size
<1>20. /\ (e + 3) - 3 = e /\ e + l + 4 = (e + 3) + l + 1
       /\ \A i \in 0 .. n : /\ d + i \in Index /\ d + i < e
  <2>1. /\ (e + 3) - 3 = e /\ e + l + 4 = (e + 3) + l + 1
        /\ \A i \in 0 .. n : /\ e - n - 1 + i \in 0 .. size - 1 /\ e - n - 1 + i < e
    BY <1>1, <1>2, <1>4, <1>19, CallCells
  <2>. QED
    BY <1>17a, <1>19, <2>1
<1>21. FrameAt(q, a, c.sp) =
         Rec(ret, SubSeq(OpsAt(p, x, e), Depth(x, e) - n, Depth(x, e) - 1), Last(OpsAt(p, x, e)),
             [i \in 1 .. l |-> Null], <<>>)
  <2>1. c.sp = a.fp + l + 1
    BY <1>9, <1>10, <1>20
  <2>2. \A i \in 0 .. n : q[a.ap + i] = p[d + i]
    BY <1>9, <1>10, <1>20
  <2>3. q[a.fp - 3] = ret
    BY <1>9, <1>10, <1>20
  <2>4. \A i \in Index : a.fp <= i /\ i < c.sp => q[i] = Null
    BY <1>9, <1>10
  <2>. QED
    <3>1. Entered(p, e, q, a, c.sp, n, l, ret)
      BY <1>10, <1>17a, <2>1, <2>2, <2>3, <2>4 DEF Entered
    <3>. QED
      BY <1>2, <1>7, <1>16, <3>1, NewFrame
<1>22. /\ f.ops = OpsAt(p, x, e) /\ Len(f.ops) = Depth(x, e) /\ Depth(x, e) \in Nat
       /\ f.ret = p[r.fp - 3] /\ f.self = This(r) /\ f.args = ArgsAt(p, x)
       /\ f.locals = LocalsAt(p, x)
       /\ \A o : WithOps(f, o) = Rec(f.ret, f.args, f.self, f.locals, o)
  BY CurrentOps DEF p, e, x
<1>23. r.fp = x.fp /\ This(r) = p[x.fp - 4]
  <2>1. r.fp = x.fp
    BY LinkedFacts, Zenon DEF x
  <2>. QED
    BY <2>1 DEF This, p, x
<1>. HIDE DEF f
<1>24. FrameAt(q, x, d) = WithOps(f, SubSeq(f.ops, 1, Len(f.ops) - n - 1))
  BY <1>18, <1>22, <1>23
<1>25. FrameAt(q, a, c.sp) = Callee(ret, f, n, l)
  BY <1>21, <1>22 DEF Callee
<1>26. Len(f.ops) > n
  BY <1>2, <1>7, <1>22
<1>. QED
  BY <1>14, <1>15, <1>17, <1>24, <1>25, <1>26 DEF f, a, c, q

LEMMA TailCells ==
  ASSUME NEW ap \in Nat, NEW n \in Nat, NEW l \in Nat, NEW size \in Nat, NEW sp,
         sp = ap + n + l + 5, sp <= size
  PROVE  /\ sp = (ap + n + 4) + l + 1 /\ ap <= sp
         /\ (ap + n + 4) - 3 \in 0 .. size - 1 /\ (ap + n + 4) - 3 < sp
         /\ \A i \in 0 .. n : ap + i \in 0 .. size - 1 /\ ap + i < sp
OBVIOUS

LEMMA ViewTailCall ==
  ASSUME NEW r, NEW as, Linked(r, as), as # <<>>,
         NEW n \in 0 .. MaxArgs, NEW l \in 0 .. MaxLocals,
         r.sp > r.fp + 1 + Last(as).locals + n, r.ap + n + 4 <= StackSize,
         Allocated(BC_TCALL(r, 0, n, l))
  PROVE  LET c == Clean(BC_TCALL(r, 0, n, l))
             f == Current(r, as)
         IN /\ Len(f.ops) > n
            /\ View(c, Append(Front(as), Activated(c, Last(as).ret, n, l))) =
                 Plus(Front(View(r, as)), Callee(f.ret, f, n, l))
<1> DEFINE b == BC_TCALL(r, 0, n, l)
           c == Clean(b)
           rt == Last(as).ret
           a == Activated(c, rt, n, l)
           f == Current(r, as)
           F == Front(as)
           bs == Append(F, a)
           x == Last(as)
           e == r.sp
           p == r.stack
           q == c.stack
           N == Len(as)
<1>1. /\ r \in Machine /\ as \in Acts /\ e \in Nat /\ r.fp \in Nat /\ r.ap \in Nat /\ x.locals \in Nat
      /\ x.args \in Nat /\ e <= StackSize + Slack /\ r.fp = r.ap + x.args + 4
  BY LinkedFacts, Zenon
<1>2. n \in Nat /\ l \in Nat /\ l <= MaxLocals /\ 0 \in Int /\ n \in 0 .. MaxArgs + 1
  BY FramesAssumption
<1>3. r.ap + 4 <= r.fp /\ r.fp < e /\ r.ap <= e - n - 1
  <2> DEFINE k == x.locals
             o == x.args
             g == r.fp
             z == r.ap
  <2>1. e > g + 1 + k + n /\ g = z + o + 4 /\ e \in Nat /\ g \in Nat /\ k \in Nat /\ n \in Nat
        /\ z \in Nat /\ o \in Nat
    BY <1>1, <1>2
  <2>. HIDE DEF e, g, k, o, z
  <2>2. z + 4 <= g /\ g < e /\ z <= e - n - 1
    BY <2>1, TailCallArithmetic
  <2>. QED
    BY <2>2 DEF g, z
<1>4. TailCalled(b, r, n, l)
  BY <1>1, <1>2, <1>3, TailCallFacts
<1>5. Linked(c, bs) /\ bs # <<>>
  BY LinkedTailCall, Zenon
<1>6. n < Depth(x, e) /\ Lies(x, e)
  BY <1>2, Deep, ViewTop
<1>7. rt \in Addresses \cup {NATIVE} /\ F \in Acts
  BY SavedFacts, Zenon
<1>. HIDE DEF b
<1>8. /\ b \in Machine /\ b.sp = r.ap + n + l + 5 /\ b.ap = r.ap /\ b.fp = r.ap + n + 4
      /\ b.stack[b.fp - 3] = p[r.fp - 3]
      /\ \A i \in Index : i < r.ap => b.stack[i] = p[i]
      /\ \A i \in 0 .. n : b.stack[r.ap + i] = p[e - n - 1 + i]
      /\ \A i \in Index : b.fp <= i /\ i < b.sp => b.stack[i] = Null
  BY <1>4 DEF TailCalled
<1>9. /\ c \in Machine /\ c.sp = b.sp /\ c.ap = b.ap /\ c.fp = b.fp
      /\ \A i \in Index : i < b.sp => q[i] = b.stack[i]
  BY <1>8, CleanFacts
<1>. HIDE DEF c
<1>10. a \in Act /\ a.args = n /\ a.locals = l /\ a.fp = c.fp /\ a.ap = c.ap
  <2>1. Describes(a, c, rt, n, l)
    BY <1>2, <1>7, <1>9, ActivatedFacts
  <2>. HIDE DEF a
  <2>. QED
    BY <2>1 DEF Describes
<1>. HIDE DEF a, rt
<1>11. Lies(a, c.sp)
  <2>1. Last(bs) = a
    BY <1>7, LastAppend, Zenon
  <2>2. Lies(Last(bs), c.sp)
    BY <1>5, ViewTop, Zenon
  <2>. QED
    BY <2>1, <2>2
<1> DEFINE size == StackSize + Slack
<1>12. size \in Nat /\ Index = 0 .. size - 1 /\ c.sp <= size
  BY <1>11, StackAssumption DEF Index, Lies
<1>. HIDE DEF size
<1>13. /\ c.sp = c.fp + l + 1 /\ r.ap <= c.sp
       /\ c.fp - 3 \in Index /\ c.fp - 3 < c.sp
       /\ \A i \in 0 .. n : r.ap + i \in Index /\ r.ap + i < c.sp
  <2> DEFINE z == r.ap
             sp == c.sp
  <2>1. z \in Nat /\ sp = z + n + l + 5 /\ sp <= size /\ c.fp = z + n + 4
    BY <1>1, <1>8, <1>9, <1>12
  <2>. HIDE DEF z, sp
  <2>2. /\ sp = (z + n + 4) + l + 1 /\ z <= sp
        /\ (z + n + 4) - 3 \in 0 .. size - 1 /\ (z + n + 4) - 3 < sp
        /\ \A i \in 0 .. n : z + i \in 0 .. size - 1 /\ z + i < sp
    BY <1>2, <1>12, <2>1, TailCells
  <2>. QED
    BY <1>12, <2>1, <2>2 DEF z, sp
<1>14. Agree(p, q, r.ap)
  <2> DEFINE z == r.ap
             sp == c.sp
  <2>1. z \in Nat /\ z <= sp /\ sp \in Nat /\ sp = b.sp
    BY <1>1, <1>9, <1>13 DEF Machine
  <2>2. \A i \in Index : i < z => b.stack[i] = p[i]
    BY <1>8
  <2>3. \A i \in Index : i < sp => q[i] = b.stack[i]
    BY <1>9, <2>1
  <2>. HIDE DEF z, sp, q, p
  <2>4. \A i \in Index : i < z => i < sp
    BY <1>12, <2>1
  <2>5. Agree(p, q, z)
    BY <2>2, <2>3, <2>4 DEF Agree
  <2>. QED
    BY <2>5 DEF z
<1>15. Replaces(a, r, as, bs, N)
  <2>1. N \in Nat /\ N >= 1
    BY <1>1, NonEmpty, Zenon
  <2> DEFINE M == Len(F)
  <2>2. M = N - 1 /\ \A i \in 1 .. N - 1 : F[i] = as[i]
    BY <1>1, FrontFacts, Zenon
  <2>3. Len(bs) = M + 1 /\ (\A i \in 1 .. M : bs[i] = F[i]) /\ bs[M + 1] = a
    BY <1>7, <1>10, AppendFacts, Zenon
  <2>4. N = Len(as)
    OBVIOUS
  <2>. HIDE DEF M, N, bs, F
  <2>5. M + 1 = N /\ \A k \in 1 .. N : k # N => k \in 1 .. M
    <3>1. M = N - 1
      BY <2>2
    <3>. QED
      BY <2>1, <3>1
  <2>6. \A k \in 1 .. N : k # N => bs[k] = as[k]
    <3>1. \A i \in 1 .. M : F[i] = as[i]
      BY <2>2
    <3>. QED
      BY <2>3, <2>5, <3>1, Zenon
  <2>7. Len(bs) = N /\ bs[N] = a
    BY <2>3, <2>5
  <2>8. a.ap = r.ap
    BY <1>8, <1>9, <1>10
  <2>. QED
    BY <2>1, <2>4, <2>6, <2>7, <2>8, Zenon DEF Replaces
<1>16. View(c, bs) = Plus(Front(View(r, as)), FrameAt(q, a, c.sp))
  <2>. HIDE DEF bs, N
  <2>1. Becomes(View(r, as), View(c, bs), FrameAt(c.stack, a, c.sp))
    BY <1>14, <1>15, ViewUpdate, Zenon
  <2>. QED
    BY <2>1, Zenon DEF Becomes
<1>. HIDE DEF bs, N, F
<1>17. f.ret = p[r.fp - 3] /\ f.ops = OpsAt(p, x, e) /\ Len(f.ops) = Depth(x, e)
       /\ Depth(x, e) \in Nat
  BY CurrentOps
<1>. HIDE DEF f, x, e, p, q
<1>18. Entered(p, e, q, a, c.sp, n, l, f.ret)
  <2>1. \A i \in 0 .. n : q[a.ap + i] = p[e - n - 1 + i]
    BY <1>8, <1>9, <1>10, <1>13
  <2>2. q[a.fp - 3] = f.ret
    BY <1>8, <1>9, <1>10, <1>13, <1>17
  <2>3. \A i \in Index : a.fp <= i /\ i < c.sp => q[i] = Null
    BY <1>8, <1>9, <1>10
  <2>4. c.sp = a.fp + l + 1
    BY <1>10, <1>13
  <2>. QED
    BY <1>10, <2>1, <2>2, <2>3, <2>4 DEF Entered
<1>19. FrameAt(q, a, c.sp) =
         Rec(f.ret, SubSeq(OpsAt(p, x, e), Depth(x, e) - n, Depth(x, e) - 1), Last(OpsAt(p, x, e)),
             [i \in 1 .. l |-> Null], <<>>)
  BY <1>2, <1>6, <1>11, <1>18, NewFrame
<1>20. FrameAt(q, a, c.sp) = Callee(f.ret, f, n, l)
  BY <1>17, <1>19 DEF Callee
<1>21. Len(f.ops) > n
  BY <1>2, <1>6, <1>17
<1>. QED
  BY <1>16, <1>20, <1>21 DEF f, bs, F, a, c, b, rt

-----------------------------------------------------------------------------
(* The steps of CallStack.                                                 *)

V0 == View(m, acts)
V1 == View(m', acts')

LEMMA AbstractLoad ==
  ASSUME NEW v, V0 # <<>>, V1 = Plus(Front(V0), WithOps(Last(V0), Plus(Last(V0).ops, v)))
  PROVE  Abstract!Load(v)
BY ViewIsFrames DEF Abstract!Load, Abstract!Change, Abstract!Running, Abstract!Callers,
     Abstract!Front, Abstract!Last, Front, Last, V0, V1, WithOps, Plus

LEMMA AbstractDrop ==
  ASSUME V0 # <<>>, Last(V0).ops # <<>>,
         V1 = Plus(Front(V0), WithOps(Last(V0), Front(Last(V0).ops)))
  PROVE  Abstract!Drop
BY ViewIsFrames DEF Abstract!Drop, Abstract!Change, Abstract!Running, Abstract!Callers,
     Abstract!Front, Abstract!Last, Front, Last, V0, V1, WithOps, Plus

LEMMA AbstractStoreArg ==
  ASSUME NEW i, V0 # <<>>, Last(V0).ops # <<>>, i \in DOMAIN Last(V0).args,
         V1 = Plus(Front(V0), WithArg(Last(V0), i, Last(Last(V0).ops), Front(Last(V0).ops)))
  PROVE  Abstract!StoreArg(i)
BY ViewIsFrames DEF Abstract!StoreArg, Abstract!Change, Abstract!Running, Abstract!Callers,
     Abstract!Front, Abstract!Last, Front, Last, V0, V1, WithArg, Plus

LEMMA AbstractStoreLocal ==
  ASSUME NEW i, V0 # <<>>, Last(V0).ops # <<>>, i \in DOMAIN Last(V0).locals,
         V1 = Plus(Front(V0), WithLocal(Last(V0), i, Last(Last(V0).ops), Front(Last(V0).ops)))
  PROVE  Abstract!StoreLocal(i)
BY ViewIsFrames DEF Abstract!StoreLocal, Abstract!Change, Abstract!Running, Abstract!Callers,
     Abstract!Front, Abstract!Last, Front, Last, V0, V1, WithLocal, Plus

\* Two activations on top.
LEMMA PlusTwice ==
  ASSUME NEW s, NEW n \in Nat, IsList(s, n), NEW x, NEW y
  PROVE  Plus(Plus(s, x), y) = s \o <<x, y>>
<1>1. s \in Seq({s[i] : i \in 1 .. n}) /\ Len(s) = n
  BY ListIsSeq
<1>. QED
  BY <1>1 DEF Plus

LEMMA AbstractCall ==
  ASSUME NEW ret, NEW n, NEW l, V0 # <<>>, Len(Last(V0).ops) > n,
         V1 = Front(V0) \o <<WithOps(Last(V0), SubSeq(Last(V0).ops, 1, Len(Last(V0).ops) - n - 1)),
                            Callee(ret, Last(V0), n, l)>>
  PROVE  Abstract!Call(ret, n, l)
<1> DEFINE f == [k \in 1 .. Len(acts) |-> Frame(k)]
           g == Last(f)
<1>1. /\ f # <<>> /\ Len(g.ops) > n /\ g = Last(V0)
      /\ f' = Front(f) \o <<[g EXCEPT !.ops = SubSeq(@, 1, Len(@) - n - 1)], Callee(ret, g, n, l)>>
  BY ViewIsFrames DEF V0, V1, WithOps
<1>2. Callee(ret, g, n, l) = Abstract!Callee(ret, n, l)
  BY DEF Abstract!Callee, Abstract!Taken, Abstract!Activation, Abstract!Running,
     Abstract!Last, Last, Callee, Rec
<1>3. g = Abstract!Running /\ Front(f) = Abstract!Callers
  BY DEF Abstract!Running, Abstract!Callers, Abstract!Front, Abstract!Last, Front, Last
<1>. HIDE DEF f, g
<1>. QED
  BY <1>1, <1>2, <1>3, Zenon DEF Abstract!Call, f

LEMMA AbstractTailCall ==
  ASSUME NEW n, NEW l, V0 # <<>>, Len(Last(V0).ops) > n,
         V1 = Plus(Front(V0), Callee(Last(V0).ret, Last(V0), n, l))
  PROVE  Abstract!TailCall(n, l)
BY ViewIsFrames DEF Abstract!TailCall, Abstract!Callee, Abstract!Taken, Abstract!Activation,
     Abstract!Change, Abstract!Running, Abstract!Callers, Abstract!Front, Abstract!Last,
     Front, Last, V0, V1, Plus, Callee, Rec

LEMMA AbstractReturn ==
  ASSUME NEW v, V0 # <<>>,
         V1 = IF Front(V0) = <<>> THEN <<>>
              ELSE Plus(Front(Front(V0)),
                        WithOps(Last(Front(V0)), Plus(Last(Front(V0)).ops, v)))
  PROVE  Abstract!Return(v)
BY ViewIsFrames DEF Abstract!Return, Abstract!Running, Abstract!Callers, Abstract!Front,
     Abstract!Last, Front, Last, V0, V1, WithOps, Plus

LEMMA AbstractUnwind ==
  ASSUME V0 # <<>>, V1 = Front(V0)
  PROVE  Abstract!Unwind
BY ViewIsFrames DEF Abstract!Unwind, Abstract!Callers, Abstract!Front, Front, V0, V1

LEMMA AbstractStutter ==
  ASSUME V1 = V0
  PROVE  [Abstract!Next]_([k \in 1 .. Len(acts) |-> Frame(k)])
BY ViewIsFrames DEF V0, V1

-----------------------------------------------------------------------------
(* Every step is one of CallStack or leaves the activations as they are.   *)

NextView == [Abstract!Next]_([k \in 1 .. Len(acts) |-> Frame(k)])

LEMMA RunningView ==
  ASSUME IInv, status = "run"
  PROVE  /\ Linked(m, acts) /\ acts # <<>>
         /\ V0 # <<>> /\ Last(V0) = Current(m, acts)
<1>1. Linked(m, acts) /\ acts # <<>>
  BY InvLinked
<1>. QED
  BY <1>1, ViewTop DEF V0

LEMMA LoadView ==
  ASSUME IInv, NEW v \in Values, Load(v)
  PROVE  NextView
<1>1. status = "run" /\ Linked(m, acts) /\ acts # <<>> /\ V0 # <<>> /\ Last(V0) = Current(m, acts)
  BY RunningView DEF Load
<1>2. CASE Overflow
  <2>1. V1 = V0
    BY <1>2 DEF Overflow, V0, V1
  <2>. QED
    BY <2>1, AbstractStutter DEF NextView
<1>3. CASE m.sp < StackSize /\ m' = Push(m, v) /\ UNCHANGED <<acts, status>>
  <2>1. v \in Cell
    BY DEF Cell
  <2>2. m.sp < StackSize + Slack
    BY <1>1, <1>3, TopFacts, StackAssumption
  <2>3. View(Push(m, v), acts) =
          Plus(Front(View(m, acts)), WithOps(Current(m, acts), Plus(Current(m, acts).ops, v)))
    BY <1>1, <2>1, <2>2, ViewPush, Zenon
  <2>4. V1 = Plus(Front(V0), WithOps(Last(V0), Plus(Last(V0).ops, v)))
    BY <1>1, <1>3, <2>3 DEF V0, V1
  <2>5. Abstract!Load(v)
    BY <1>1, <2>4, AbstractLoad, Zenon
  <2>. QED
    BY <2>5, Zenon DEF NextView, Abstract!Next
<1>4. m.sp \in Nat
  BY <1>1, TopFacts, Zenon
<1>5. m.sp >= StackSize \/ m.sp < StackSize
  BY <1>4, StackAssumption
<1>. QED
  BY <1>2, <1>3, <1>5 DEF Load

LEMMA DropView ==
  ASSUME IInv, Drop
  PROVE  NextView
<1>1. status = "run" /\ Linked(m, acts) /\ acts # <<>> /\ V0 # <<>> /\ Last(V0) = Current(m, acts)
  BY RunningView DEF Drop
<1>2. m.sp > m.fp + 1 + Last(acts).locals
  BY DEF Drop, Operands, Running
<1>3. /\ View(Pop(m), acts) =
           Plus(Front(View(m, acts)), WithOps(Current(m, acts), Front(Current(m, acts).ops)))
      /\ Current(m, acts).ops # <<>>
  BY <1>1, <1>2, ViewPop, Zenon
<1>4. View(Clean(Pop(m)), acts) = View(Pop(m), acts)
  BY <1>1, <1>2, LinkedPop, ViewClean, Zenon
<1>5. V1 = Plus(Front(V0), WithOps(Last(V0), Front(Last(V0).ops))) /\ Last(V0).ops # <<>>
  BY <1>1, <1>3, <1>4 DEF V0, V1, Drop
<1>6. Abstract!Drop
  BY <1>1, <1>5, AbstractDrop, Zenon
<1>. QED
  BY <1>6, Zenon DEF NextView, Abstract!Next

LEMMA StoreView ==
  ASSUME IInv, status = "run", NEW slot \in Index, Store(slot),
         m.fp <= slot \/ (m.ap <= slot /\ slot <= m.ap + Last(acts).args),
         NEW g, g = Current(Written(m, slot, Top(m)), acts), g.ops = Last(V0).ops
  PROVE  /\ V1 = Plus(Front(V0), WithOps(g, Front(Last(V0).ops)))
         /\ V0 # <<>> /\ Last(V0).ops # <<>> /\ Last(Last(V0).ops) = Top(m)
<1>1. Linked(m, acts) /\ acts # <<>> /\ V0 # <<>> /\ Last(V0) = Current(m, acts)
  BY RunningView
<1>2. m.sp > m.fp + 1 + Last(acts).locals
  BY DEF Store, Operands, Running
<1>3. Top(m) \in Cell
  BY <1>1, TopFacts, Zenon
<1>4. View(Clean(Pop(Written(m, slot, Top(m)))), acts) =
        Plus(Front(View(m, acts)), WithOps(g, Front(g.ops)))
  BY <1>1, <1>2, <1>3, ViewStore
<1>5. m' = Clean(Pop(Written(m, slot, Top(m)))) /\ acts' = acts
  BY DEF Store, Written
<1>6. Current(m, acts).ops # <<>> /\ Last(Current(m, acts).ops) = Top(m)
  BY <1>1, <1>2, ViewPop, Zenon
<1>7. V1 = Plus(Front(V0), WithOps(g, Front(g.ops)))
  BY <1>4, <1>5, Zenon DEF V0, V1
<1>. QED
  BY <1>1, <1>6, <1>7

LEMMA StoreArgView ==
  ASSUME IInv, NEW i \in 1 .. MaxArgs, StoreArg(i)
  PROVE  NextView
<1> DEFINE v == Top(m)
           slot == m.ap + i - 1
           f == Current(m, acts)
           g == Current(Written(m, slot, v), acts)
<1>1. status = "run" /\ Linked(m, acts) /\ acts # <<>> /\ V0 # <<>> /\ Last(V0) = f
      /\ i <= Last(acts).args /\ Store(slot)
  BY RunningView DEF StoreArg, Running
<1>2. i \in Nat /\ i >= 1
  BY FramesAssumption
<1>3. slot \in Index /\ m.ap <= slot /\ slot <= m.ap + Last(acts).args
  BY <1>1, <1>2, SlotFacts, Zenon
<1>4. g.ops = f.ops /\ \A o : WithOps(g, o) = WithArg(f, i, v, o)
  <2>1. StoresArg(m, acts, i, v)
    BY <1>1, <1>2, CurrentStored, Zenon
  <2>. QED
    BY <2>1, Zenon DEF StoresArg
<1>5. i \in DOMAIN f.args
  <2>1. f.args = ArgsAt(m.stack, Last(acts))
    BY <1>1, CurrentOps, Zenon
  <2>2. DOMAIN ArgsAt(m.stack, Last(acts)) = 1 .. Last(acts).args /\ Last(acts).args \in Nat
    BY <1>1, LinkedFacts DEF ArgsAt
  <2>. QED
    BY <1>1, <1>2, <2>1, <2>2
<1>. HIDE DEF f, slot
<1>6. g.ops = Last(V0).ops
  BY <1>1, <1>4
<1>7. /\ V1 = Plus(Front(V0), WithOps(g, Front(Last(V0).ops)))
      /\ Last(V0).ops # <<>> /\ Last(Last(V0).ops) = v
  BY <1>1, <1>3, <1>6, StoreView
<1>8. V1 = Plus(Front(V0), WithArg(Last(V0), i, Last(Last(V0).ops), Front(Last(V0).ops)))
  BY <1>1, <1>4, <1>7
<1>9. Abstract!StoreArg(i)
  BY <1>1, <1>5, <1>7, <1>8, AbstractStoreArg
<1>. QED
  BY <1>9, Zenon DEF NextView, Abstract!Next

LEMMA StoreLocalView ==
  ASSUME IInv, NEW i \in 1 .. MaxLocals, StoreLocal(i)
  PROVE  NextView
<1> DEFINE v == Top(m)
           slot == m.fp + i
           f == Current(m, acts)
           g == Current(Written(m, slot, v), acts)
<1>1. status = "run" /\ Linked(m, acts) /\ acts # <<>> /\ V0 # <<>> /\ Last(V0) = f
      /\ i <= Last(acts).locals /\ Store(slot)
  BY RunningView DEF StoreLocal, Running
<1>2. i \in Nat /\ i >= 1
  BY FramesAssumption
<1>3. slot \in Index /\ m.fp <= slot
  BY <1>1, <1>2, SlotFacts, Zenon
<1>4. g.ops = f.ops /\ \A o : WithOps(g, o) = WithLocal(f, i, v, o)
  <2>1. StoresLocal(m, acts, i, v)
    BY <1>1, <1>2, CurrentStored, Zenon
  <2>. QED
    BY <2>1, Zenon DEF StoresLocal
<1>5. i \in DOMAIN f.locals
  <2>1. f.locals = LocalsAt(m.stack, Last(acts))
    BY <1>1, CurrentOps, Zenon
  <2>2. DOMAIN LocalsAt(m.stack, Last(acts)) = 1 .. Last(acts).locals /\ Last(acts).locals \in Nat
    BY <1>1, LinkedFacts DEF LocalsAt
  <2>. QED
    BY <1>1, <1>2, <2>1, <2>2
<1>. HIDE DEF f, slot
<1>6. g.ops = Last(V0).ops
  BY <1>1, <1>4
<1>7. /\ V1 = Plus(Front(V0), WithOps(g, Front(Last(V0).ops)))
      /\ Last(V0).ops # <<>> /\ Last(Last(V0).ops) = v
  BY <1>1, <1>3, <1>6, StoreView
<1>8. V1 = Plus(Front(V0), WithLocal(Last(V0), i, Last(Last(V0).ops), Front(Last(V0).ops)))
  BY <1>1, <1>4, <1>7
<1>9. Abstract!StoreLocal(i)
  BY <1>1, <1>5, <1>7, <1>8, AbstractStoreLocal
<1>. QED
  BY <1>9, Zenon DEF NextView, Abstract!Next

LEMMA CallView ==
  ASSUME IInv,
         NEW ret \in Addresses, NEW n \in 0 .. MaxArgs, NEW l \in 0 .. MaxLocals, Call(ret, n, l)
  PROVE  NextView
<1>1. status = "run" /\ Linked(m, acts) /\ acts # <<>> /\ V0 # <<>> /\ Last(V0) = Current(m, acts)
  BY RunningView DEF Call
<1>2. CASE Overflow
  <2>1. V1 = V0
    BY <1>2 DEF Overflow, V0, V1
  <2>. QED
    BY <2>1, AbstractStutter DEF NextView
<1>3. CASE /\ m.sp + 3 <= StackSize /\ Allocated(BC_CALL(m, 0, ret, n, l))
           /\ m' = BC_CALL(m, 0, ret, n, l)
           /\ acts' = Append(acts, Activated(m', ret, n, l))
  <2> DEFINE f == Last(V0)
             C == Front(V0)
             c == BC_CALL(m, 0, ret, n, l)
             g == WithOps(f, SubSeq(f.ops, 1, Len(f.ops) - n - 1))
             h == Callee(ret, f, n, l)
             N == Len(acts)
  <2>1. m.sp > m.fp + 1 + Last(acts).locals + n
    BY DEF Call, Operands, Running
  <2>2. /\ Len(f.ops) > n
        /\ View(c, Append(acts, Activated(c, ret, n, l))) = Plus(Plus(C, g), h)
    BY <1>1, <1>3, <2>1, ViewCall DEF V0
  <2>3. V1 = View(c, Append(acts, Activated(c, ret, n, l)))
    BY <1>3 DEF V1
  <2>. HIDE DEF f, c, g, h
  <2>4. IsList(V0, N) /\ N \in Nat /\ N >= 1
    BY <1>1, ViewTop DEF V0
  <2>. HIDE DEF N
  <2>5. IsList(C, N - 1) /\ N - 1 \in Nat
    BY <2>4, ListFront
  <2>. HIDE DEF C
  <2>6. V1 = C \o <<g, h>>
    BY <2>2, <2>3, <2>5, PlusTwice
  <2>7. Abstract!Call(ret, n, l)
    BY <1>1, <2>2, <2>6, AbstractCall DEF C, f, g, h
  <2>. QED
    BY <2>7, Zenon DEF NextView, Abstract!Next
<1>4. m.sp \in Nat /\ StackSize \in Nat
  BY <1>1, TopFacts, StackAssumption, Zenon
<1>5. m.sp + 3 > StackSize \/ m.sp + 3 <= StackSize
  BY <1>4
<1>6. CASE Overrun
  <2>1. V1 = V0
    BY <1>6 DEF Overrun, V0, V1
  <2>. QED
    BY <2>1, AbstractStutter DEF NextView
<1>. QED
  BY <1>2, <1>3, <1>5, <1>6 DEF Call

LEMMA TailCallView ==
  ASSUME IInv,
         NEW n \in 0 .. MaxArgs, NEW l \in 0 .. MaxLocals, TailCall(n, l)
  PROVE  NextView
<1>1. status = "run" /\ Linked(m, acts) /\ acts # <<>> /\ V0 # <<>> /\ Last(V0) = Current(m, acts)
  BY RunningView DEF TailCall
<1>2. CASE Overflow
  <2>1. V1 = V0
    BY <1>2 DEF Overflow, V0, V1
  <2>. QED
    BY <2>1, AbstractStutter DEF NextView
<1>3. CASE /\ m.ap + n + 4 <= StackSize /\ Allocated(BC_TCALL(m, 0, n, l))
           /\ m' = Clean(BC_TCALL(m, 0, n, l))
           /\ acts' = Append(Front(acts), Activated(m', Running.ret, n, l))
  <2> DEFINE c == Clean(BC_TCALL(m, 0, n, l))
  <2>1. m.sp > m.fp + 1 + Last(acts).locals + n
    BY DEF TailCall, Operands, Running
  <2>2. /\ Len(Last(V0).ops) > n
        /\ View(c, Append(Front(acts), Activated(c, Last(acts).ret, n, l))) =
             Plus(Front(V0), Callee(Last(V0).ret, Last(V0), n, l))
    BY <1>1, <1>3, <2>1, ViewTailCall DEF V0
  <2>3. V1 = View(c, Append(Front(acts), Activated(c, Last(acts).ret, n, l)))
    BY <1>3 DEF V1, Running
  <2>. HIDE DEF c
  <2>4. Abstract!TailCall(n, l)
    BY <1>1, <2>2, <2>3, AbstractTailCall
  <2>. QED
    BY <2>4, Zenon DEF NextView, Abstract!Next
<1>4. m.ap \in Nat /\ n \in Nat /\ StackSize \in Nat
  BY <1>1, LinkedFacts, StackAssumption, FramesAssumption
<1>5. m.ap + n + 4 > StackSize \/ m.ap + n + 4 <= StackSize
  BY <1>4
<1>6. CASE Overrun
  <2>1. V1 = V0
    BY <1>6 DEF Overrun, V0, V1
  <2>. QED
    BY <2>1, AbstractStutter DEF NextView
<1>. QED
  BY <1>2, <1>3, <1>5, <1>6 DEF TailCall

\* What RET and RET_SELF have in common.
LEMMA LeavingView ==
  ASSUME IInv, status = "run", NEW v \in Cell, Leaving(Push(Leave(m), v))
  PROVE  Abstract!Return(v)
<1> DEFINE C == Front(V0)
           f == Front(acts)
           t == Clean(Push(Leave(m), v))
<1>1. Linked(m, acts) /\ acts # <<>> /\ V0 # <<>>
  BY RunningView
<1>2. /\ f = <<>> => View(t, f) = <<>> /\ C = <<>>
      /\ f # <<>> => /\ C # <<>>
                     /\ View(t, f) = Plus(Front(C), WithOps(Last(C), Plus(Last(C).ops, v)))
  BY <1>1, ViewReturn DEF V0
<1>3. V1 = View(t, f)
  BY DEF V1, Leaving
<1>. HIDE DEF t, f
<1>4. V1 = IF C = <<>> THEN <<>> ELSE Plus(Front(C), WithOps(Last(C), Plus(Last(C).ops, v)))
  BY <1>2, <1>3
<1>. QED
  BY <1>1, <1>4, AbstractReturn

LEMMA RetView ==
  ASSUME IInv, Ret
  PROVE  NextView
<1>1. status = "run" /\ Linked(m, acts) /\ acts # <<>> /\ V0 # <<>> /\ Last(V0) = Current(m, acts)
  BY RunningView DEF Ret
<1>2. m.sp > m.fp + 1 + Last(acts).locals
  BY DEF Ret, Operands, Running
<1>3. Current(m, acts).ops # <<>> /\ Last(Current(m, acts).ops) = Top(m)
  BY <1>1, <1>2, ViewPop, Zenon
<1>4. Top(m) \in Cell
  BY <1>1, TopFacts, Zenon
<1>5. Leaving(Push(Leave(m), Top(m)))
  BY DEF Ret, BC_RET
<1>6. Abstract!Return(Last(Last(V0).ops)) /\ Last(V0).ops # <<>>
  BY <1>1, <1>3, <1>4, <1>5, LeavingView
<1>7. Abstract!Running = Last(V0) /\ [k \in 1 .. Len(acts) |-> Frame(k)] = V0
  BY ViewIsFrames DEF Abstract!Running, Abstract!Last, Last, V0
<1>. QED
  BY <1>1, <1>6, <1>7 DEF NextView, Abstract!Next, Abstract!Last, Last

LEMMA RetSelfView ==
  ASSUME IInv, RetSelf
  PROVE  NextView
<1>1. status = "run" /\ Linked(m, acts) /\ acts # <<>> /\ V0 # <<>> /\ Last(V0) = Current(m, acts)
  BY RunningView DEF RetSelf
<1>2. Current(m, acts).self = This(m)
  BY <1>1, CurrentOps
<1>3. This(m) \in Cell
  BY <1>1, TopFacts, Zenon
<1>4. Leaving(Push(Leave(m), This(m)))
  BY DEF RetSelf, BC_RET_SELF
<1>5. Abstract!Return(Last(V0).self)
  BY <1>1, <1>2, <1>3, <1>4, LeavingView
<1>6. Abstract!Running = Last(V0) /\ [k \in 1 .. Len(acts) |-> Frame(k)] = V0
  BY ViewIsFrames DEF Abstract!Running, Abstract!Last, Last, V0
<1>. QED
  BY <1>1, <1>5, <1>6 DEF NextView, Abstract!Next

LEMMA UnwindView ==
  ASSUME IInv, Unwind
  PROVE  NextView
<1> DEFINE f == Front(acts)
           u == Leave(m)
<1>1. Linked(m, acts) /\ acts # <<>> /\ V0 # <<>>
  BY RunningView DEF Unwind
<1>2. f # <<>> => Linked(u, f)
  BY <1>1, LinkedLeave, Zenon
<1>3. View(u, f) = Front(V0)
  BY <1>1, ViewLeave DEF V0
<1>4. V1 = View(Clean(u), f)
  BY DEF Unwind, V1
<1>. HIDE DEF u, f
<1>5. CASE f # <<>>
  <2>1. View(Clean(u), f) = View(u, f)
    BY <1>2, <1>5, ViewClean, Zenon
  <2>. QED
    BY <1>1, <1>3, <1>4, <2>1, AbstractUnwind, Zenon DEF NextView, Abstract!Next
<1>6. CASE f = <<>>
  <2>1. View(Clean(u), f) = View(u, f)
    BY <1>6, ViewEmpty
  <2>. QED
    BY <1>1, <1>3, <1>4, <2>1, AbstractUnwind, Zenon DEF NextView, Abstract!Next
<1>. QED
  BY <1>5, <1>6

LEMMA StepView ==
  ASSUME IInv, [Next]_vars
  PROVE  NextView
<1>1. ASSUME UNCHANGED vars PROVE NextView
  <2>1. V1 = V0
    BY <1>1 DEF vars, V0, V1
  <2>. QED
    BY <2>1, AbstractStutter DEF NextView
<1>. QED
  BY <1>1, LoadView, DropView, StoreArgView, StoreLocalView, CallView, TailCallView, RetView,
     RetSelfView, UnwindView, Zenon DEF Next

-----------------------------------------------------------------------------
(* The machine that vm_call_main starts with is one activation, of main.   *)

LEMMA MainFrame ==
  ASSUME NEW st, NEW a, NEW v, NEW l \in Nat, a.args = 1, a.locals = l, a.fp = 5,
         st[0] = v, st[1] = v, st[2] = NATIVE,
         \A i \in 1 .. l : st[5 + i] = Null
  PROVE  FrameAt(st, a, l + 6) = Rec(NATIVE, <<v>>, v, [i \in 1 .. l |-> Null], <<>>)
<1>1. 5 - 3 = 2 /\ 5 - 4 = 1 /\ (\A i \in 1 .. 1 : i = 1 /\ 5 - 5 - 1 + i = 0)
      /\ l + 6 - (5 + 1 + l) = 0 /\ 1 .. 0 = {}
  OBVIOUS
<1>2. ArgsAt(st, a) = <<v>>
  <2>1. ArgsAt(st, a) = [i \in 1 .. 1 |-> st[5 - 5 - 1 + i]]
    BY DEF ArgsAt
  <2>2. [i \in 1 .. 1 |-> st[5 - 5 - 1 + i]] = [i \in 1 .. 1 |-> v]
    BY <1>1
  <2>3. [i \in 1 .. 1 |-> v] = <<v>>
    OBVIOUS
  <2>. QED
    BY <2>1, <2>2, <2>3
<1>3. LocalsAt(st, a) = [i \in 1 .. l |-> Null]
  BY DEF LocalsAt
<1>4. OpsAt(st, a, l + 6) = <<>>
  <2>1. OpsAt(st, a, l + 6) = [i \in 1 .. 0 |-> st[a.fp + a.locals + i]]
    BY <1>1 DEF OpsAt, Depth
  <2>2. [i \in 1 .. 0 |-> st[a.fp + a.locals + i]] = <<>>
    OBVIOUS
  <2>. QED
    BY <2>1, <2>2
<1>5. st[a.fp - 3] = NATIVE /\ st[a.fp - 4] = v
  BY <1>1
<1>. QED
  BY <1>2, <1>3, <1>4, <1>5, Parts

LEMMA InitView ==
  ASSUME Init
  PROVE  Abstract!Init
<1>. PICK v \in Values, l \in 0 .. MaxLocals :
            /\ m = Main(v, l)
            /\ acts = <<Activated(m, NATIVE, 1, l)>>
            /\ Allocated(Main(v, l))
  BY InitFacts, Zenon
<1> DEFINE c == Main(v, l)
           a == Activated(c, NATIVE, 1, l)
           f == Rec(NATIVE, <<v>>, v, [i \in 1 .. l |-> Null], <<>>)
<1>1. l \in Nat /\ StackSize \in Nat /\ Slack \in Nat /\ StackSize > 6
  BY StackAssumption, FramesAssumption
<1>2. c.sp <= StackSize + Slack
  BY DEF Allocated
<1>3. Started(c, v, l) /\ Describes(a, c, NATIVE, 1, l)
  BY MainFacts
<1>4. m = c /\ acts = <<a>>
  OBVIOUS
<1>. HIDE DEF c, a
<1>5. a.args = 1 /\ a.locals = l /\ a.fp = 5 /\ c.sp = l + 6
      /\ c.stack[0] = v /\ c.stack[1] = v /\ c.stack[2] = NATIVE
  BY <1>3, Zenon DEF Started, Describes
<1>6. \A i \in 1 .. l : c.stack[5 + i] = Null
  <2>1. \A i \in 1 .. l : 5 + i \in Index /\ 5 <= 5 + i /\ 5 + i < l + 6
    BY <1>1, <1>2, <1>5 DEF Index
  <2>. QED
    BY <1>3, <2>1, Zenon DEF Started
<1>7. FrameAt(c.stack, a, l + 6) = f
  BY <1>1, <1>5, <1>6, MainFrame
<1>8. V0 = <<f>>
  <2>1. Len(<<a>>) = 1 /\ <<a>>[1] = a
    OBVIOUS
  <2>2. FrameOf(c, <<a>>, 1) = f
    BY <1>5, <1>7, <2>1 DEF FrameOf, EndOf
  <2>3. View(c, <<a>>) = [k \in 1 .. 1 |-> FrameOf(c, <<a>>, k)]
    BY <2>1 DEF View
  <2>4. \A k \in 1 .. 1 : FrameOf(c, <<a>>, k) = f
    BY <2>2
  <2>. HIDE DEF f
  <2>5. View(c, <<a>>) = [k \in 1 .. 1 |-> f]
    BY <2>3, <2>4
  <2>. QED
    BY <1>4, <2>5 DEF V0
<1>9. f = Abstract!Activation(-1, <<v>>, v, l)
  BY DEF Abstract!Activation, Rec, NATIVE
<1>. HIDE DEF f
<1>. QED
  BY <1>8, <1>9, ViewIsFrames DEF Abstract!Init, V0

(* The array of cells and saved registers is a stack of activations: every *)
(* push, pop, store, call, tail call, return and unwinding does what it    *)
(* would do to activations with arguments, locals and operands of their    *)
(* own, at every depth and for every number of arguments and locals.       *)
THEOREM FramesAreCallStack == Spec => ImplementsCallStack
<1>1. Init => Abstract!Init
  BY InitView
<1>2. IInv /\ [Next]_vars => [Abstract!Next]_([k \in 1 .. Len(acts) |-> Frame(k)])
  BY StepView DEF NextView
<1>3. Spec => []IInv
  BY Invariance
<1>. QED
  BY <1>1, <1>2, <1>3, PTL DEF Spec, ImplementsCallStack, Abstract!Spec
=============================================================================

--------------------------- MODULE Frames_proofs ---------------------------
(***************************************************************************)
(* Proofs about the frame macros for every size of the stack and every     *)
(* number of arguments, provided that the local variables of a method fit  *)
(* what stack_init allocates on top of stack_size_g.                       *)
(***************************************************************************)
EXTENDS FramesInvariant, SequenceTheorems, TLAPS

Cell == Values \cup {Null} \cup Int
Index == 0 .. StackSize + Slack - 1

(* Clean forgets only what is above sp.                                    *)
LEMMA CleanFacts ==
  ASSUME NEW r \in Machine
  PROVE  /\ Clean(r) \in Machine
         /\ Clean(r).sp = r.sp /\ Clean(r).ap = r.ap /\ Clean(r).fp = r.fp /\ Clean(r).ip = r.ip
         /\ \A i \in Index : i < r.sp => Clean(r).stack[i] = r.stack[i]
BY DEF Clean, Machine, Index

LEMMA PushFacts ==
  ASSUME NEW r \in Machine, NEW v \in Cell, r.sp < StackSize + Slack
  PROVE  /\ Push(r, v) \in Machine
         /\ Push(r, v).sp = r.sp + 1 /\ Push(r, v).ap = r.ap /\ Push(r, v).fp = r.fp
         /\ Push(r, v).ip = r.ip
         /\ Push(r, v).stack[r.sp] = v
         /\ \A i \in Index : i # r.sp => Push(r, v).stack[i] = r.stack[i]
<1> DEFINE st == [r.stack EXCEPT ![r.sp] = v]
           r1 == [r EXCEPT !.stack = st]
<1>1. r.stack \in [Index -> Cell] /\ r.sp \in Index
  BY StackAssumption DEF Machine, Index, Cell
<1>2. /\ st \in [Index -> Cell] /\ st[r.sp] = v
      /\ \A i \in Index : i # r.sp => st[i] = r.stack[i]
  BY <1>1
<1>3. Push(r, v) = [r1 EXCEPT !.sp = r.sp + 1]
  BY DEF Push, Machine
<1>. HIDE DEF st
<1>4. r1 \in Machine /\ r1.stack = st
  BY <1>2 DEF Machine, Index, Cell
<1>5a. r1.sp = r.sp /\ r1.ap = r.ap /\ r1.fp = r.fp /\ r1.ip = r.ip
  BY  DEF Machine, Index, Cell
<1>. HIDE DEF r1
<1>5. /\ Push(r, v) \in Machine /\ Push(r, v).stack = st /\ Push(r, v).sp = r.sp + 1
  BY <1>3, <1>4, <1>5a DEF Machine
<1>6. /\ Push(r, v).ap = r.ap /\ Push(r, v).fp = r.fp /\ Push(r, v).ip = r.ip
  BY <1>3, <1>4, <1>5a DEF Machine
<1>. QED
  BY <1>2, <1>5, <1>6

LEMMA PopFacts ==
  ASSUME NEW r \in Machine, r.sp > 0
  PROVE  /\ Pop(r) \in Machine
         /\ Pop(r).sp = r.sp - 1 /\ Pop(r).ap = r.ap /\ Pop(r).fp = r.fp /\ Pop(r).ip = r.ip
         /\ Pop(r).stack = r.stack
BY DEF Pop, Machine

(* The end of a call: the room of the locals is all that changes.          *)
LEMMA EnterFacts ==
  ASSUME NEW r \in Machine, NEW entry \in Int, NEW l \in Nat
  PROVE  /\ Enter(r, entry, l) \in Machine
         /\ Enter(r, entry, l).sp = r.sp + l + 1 /\ Enter(r, entry, l).ap = r.ap
         /\ Enter(r, entry, l).fp = r.sp /\ Enter(r, entry, l).ip = entry
         /\ \A i \in Index : i < r.sp => Enter(r, entry, l).stack[i] = r.stack[i]
         /\ \A i \in Index : r.sp <= i /\ i <= r.sp + l => Enter(r, entry, l).stack[i] = Null
<1> DEFINE st == [i \in DOMAIN r.stack |-> IF i \in r.sp .. r.sp + l THEN Null ELSE r.stack[i]]
<1>1. Enter(r, entry, l) =
        [stack |-> st, sp |-> r.sp + l + 1, ap |-> r.ap, fp |-> r.sp, ip |-> entry]
  BY DEF Enter, Machine
<1>2. r.stack \in [Index -> Cell] /\ r.sp \in Nat
  BY DEF Machine, Index, Cell
<1>3. /\ st \in [Index -> Cell] /\ \A i \in Index : i < r.sp => st[i] = r.stack[i]
      /\ \A i \in Index : r.sp <= i /\ i <= r.sp + l => st[i] = Null
  BY <1>2, StackAssumption DEF Index, Cell
<1>4. r.sp + l + 1 \in Nat /\ r.ap \in Nat
  BY DEF Machine
<1>. HIDE DEF st
<1>5. Enter(r, entry, l) \in Machine
  BY <1>1, <1>2, <1>3, <1>4 DEF Machine, Index, Cell
<1>. QED
  BY <1>1, <1>3, <1>5

\* What a call leaves on the stack, and a tail call.
Called(c, r, ret, n, l) ==
  /\ c \in Machine
  /\ c.sp = r.sp + l + 4 /\ c.ap = r.sp - n - 1 /\ c.fp = r.sp + 3
  /\ c.stack[r.sp] = ret /\ c.stack[r.sp + 1] = r.ap /\ c.stack[r.sp + 2] = r.fp
  /\ \A i \in Index : i < r.sp => c.stack[i] = r.stack[i]
  /\ \A i \in Index : c.fp <= i /\ i < c.sp => c.stack[i] = Null

TailCalled(c, r, n, l) ==
  /\ c \in Machine
  /\ c.sp = r.ap + n + l + 5 /\ c.ap = r.ap /\ c.fp = r.ap + n + 4
  /\ c.stack[c.fp - 3] = r.stack[r.fp - 3]
  /\ c.stack[c.fp - 2] = r.stack[r.fp - 2]
  /\ c.stack[c.fp - 1] = r.stack[r.fp - 1]
  /\ \A i \in Index : i < r.ap => c.stack[i] = r.stack[i]
  /\ \A i \in 0 .. n : c.stack[r.ap + i] = r.stack[r.sp - n - 1 + i]
  /\ \A i \in Index : c.fp <= i /\ i < c.sp => c.stack[i] = Null

(* BC_CALL saves the return address and the registers right below the new  *)
(* frame, and touches nothing below the operands.                          *)
LEMMA CallFacts ==
  ASSUME NEW r \in Machine, NEW entry \in Int, NEW ret \in Int, NEW n \in Nat, NEW l \in Nat,
         r.sp + 3 <= StackSize, n + 1 <= r.sp
  PROVE  Called(BC_CALL(r, entry, ret, n, l), r, ret, n, l)
<1> DEFINE p1 == Push(r, ret)
           p2 == Push(p1, r.ap)
           p3 == Push(p2, r.fp)
           f  == [p3 EXCEPT !.ap = p2.sp - n - 3]
<1>1. /\ r.sp \in Nat /\ r.ap \in Nat /\ r.fp \in Nat /\ StackSize \in Nat /\ Slack \in Nat
  BY StackAssumption DEF Machine
<1>2. /\ p1 \in Machine /\ p1.sp = r.sp + 1 /\ p1.ap = r.ap /\ p1.fp = r.fp
      /\ p1.stack[r.sp] = ret
      /\ \A i \in Index : i # r.sp => p1.stack[i] = r.stack[i]
  BY <1>1, PushFacts DEF Cell
<1>3. /\ p2 \in Machine /\ p2.sp = r.sp + 2 /\ p2.fp = r.fp
      /\ p2.stack[r.sp + 1] = r.ap
      /\ \A i \in Index : i # r.sp + 1 => p2.stack[i] = p1.stack[i]
  <2>. HIDE DEF p1
  <2>. QED
    BY <1>1, <1>2, PushFacts DEF Cell
<1>4. /\ p3 \in Machine /\ p3.sp = r.sp + 3
      /\ p3.stack[r.sp + 2] = r.fp
      /\ \A i \in Index : i # r.sp + 2 => p3.stack[i] = p2.stack[i]
  <2>. HIDE DEF p1, p2
  <2>. QED
    BY <1>1, <1>3, PushFacts DEF Cell
<1>5. /\ f \in Machine /\ f.sp = r.sp + 3 /\ f.ap = r.sp - n - 1 /\ f.stack = p3.stack
  <2>. HIDE DEF p1, p2, p3
  <2>1. p2.sp - n - 3 \in Nat /\ p2.sp - n - 3 = r.sp - n - 1
    BY <1>1, <1>3
  <2>. QED
    BY <1>4, <2>1 DEF Machine
<1>6. BC_CALL(r, entry, ret, n, l) = Enter(f, entry, l)
  BY <1>2 DEF BC_CALL
<1>7. /\ r.sp \in Index /\ r.sp + 1 \in Index /\ r.sp + 2 \in Index
  BY <1>1 DEF Index
<1>. HIDE DEF p1, p2, p3, f
<1>8. /\ f.stack[r.sp] = ret /\ f.stack[r.sp + 1] = r.ap /\ f.stack[r.sp + 2] = r.fp
      /\ \A i \in Index : i < r.sp => f.stack[i] = r.stack[i]
  BY <1>1, <1>2, <1>3, <1>4, <1>5, <1>7
<1> DEFINE c == Enter(f, entry, l)
<1>9. /\ c \in Machine
      /\ c.sp = f.sp + l + 1 /\ c.ap = f.ap /\ c.fp = f.sp
      /\ \A i \in Index : i < f.sp => c.stack[i] = f.stack[i]
      /\ \A i \in Index : f.sp <= i /\ i <= f.sp + l => c.stack[i] = Null
  <2>1. f \in Machine
    BY <1>5
  <2>2. c \in Machine
    BY <2>1, EnterFacts
  <2>3. c.sp = f.sp + l + 1 /\ c.ap = f.ap /\ c.fp = f.sp
    BY <2>1, EnterFacts
  <2>4. /\ \A i \in Index : i < f.sp => c.stack[i] = f.stack[i]
        /\ \A i \in Index : f.sp <= i /\ i <= f.sp + l => c.stack[i] = Null
    BY <2>1, EnterFacts
  <2>. QED
    BY <2>2, <2>3, <2>4
<1>. HIDE DEF c
<1>10. /\ c.sp = r.sp + l + 4 /\ c.ap = r.sp - n - 1 /\ c.fp = r.sp + 3
  BY <1>1, <1>5, <1>9
<1>11. /\ c.stack[r.sp] = ret /\ c.stack[r.sp + 1] = r.ap /\ c.stack[r.sp + 2] = r.fp
       /\ \A i \in Index : i < r.sp => c.stack[i] = r.stack[i]
  <2>1. \A i \in Index : i < r.sp + 3 => c.stack[i] = f.stack[i]
    BY <1>5, <1>9
  <2>2. \A i \in Index : i < r.sp => i < r.sp + 3
    BY <1>1 DEF Index
  <2>3. r.sp < r.sp + 3 /\ r.sp + 1 < r.sp + 3 /\ r.sp + 2 < r.sp + 3
    BY <1>1
  <2>. HIDE DEF Index
  <2>. QED
    BY <1>7, <1>8, <2>1, <2>2, <2>3
<1>12. BC_CALL(r, entry, ret, n, l) = c
  BY <1>6 DEF c
<1>12a. \A i \in Index : c.fp <= i /\ i < c.sp => c.stack[i] = Null
  <2>1. \A i \in Index : i < f.sp + l + 1 => i <= f.sp + l
    BY <1>1, <1>5 DEF Index
  <2>. QED
    BY <1>9, <2>1
<1>13. Called(c, r, ret, n, l)
  BY <1>9, <1>10, <1>11, <1>12a, Zenon DEF Called
<1>. QED
  BY <1>12, <1>13, Zenon

(* BC_TCALL puts the new frame where the running one was: its saved cells  *)
(* are the ones of the running frame, and nothing below ap changes.        *)
LEMMA TailCallFacts ==
  ASSUME NEW r \in Machine, NEW entry \in Int, NEW n \in Nat, NEW l \in Nat,
         r.ap + n + 4 <= StackSize, r.ap + 4 <= r.fp, r.fp < r.sp, r.sp <= StackSize + Slack,
         r.ap <= r.sp - n - 1
  PROVE  TailCalled(BC_TCALL(r, entry, n, l), r, n, l)
<1> DEFINE s   == r.stack
           tmp == r.sp - n - 1
           st  == [i \in DOMAIN s |-> IF i \in r.ap .. r.ap + n THEN s[tmp + i - r.ap] ELSE s[i]]
           mv  == [r EXCEPT !.sp = r.ap + n + 1, !.stack = st]
           p1  == Push(mv, s[r.fp - 3])
           p2  == Push(p1, s[r.fp - 2])
           p3  == Push(p2, s[r.fp - 1])
           c   == Enter(p3, entry, l)
<1>1. r.sp \in Nat /\ r.ap \in Nat /\ r.fp \in Nat /\ StackSize \in Nat /\ Slack \in Nat
  BY StackAssumption DEF Machine
<1>1a. s \in [Index -> Cell]
  BY DEF Machine, Index, Cell
<1>2. /\ st \in [Index -> Cell]
      /\ \A i \in Index : i < r.ap => st[i] = s[i]
      /\ \A i \in 0 .. n : st[r.ap + i] = s[tmp + i] /\ r.ap + i \in Index
  <2>1. \A i \in Index : i \in r.ap .. r.ap + n => tmp + i - r.ap \in Index
    BY <1>1 DEF Index
  <2>2. \A i \in Index : i < r.ap => i \notin r.ap .. r.ap + n
    BY <1>1 DEF Index
  <2>3. \A i \in 0 .. n : r.ap + i \in r.ap .. r.ap + n /\ r.ap + i \in Index
                       /\ tmp + (r.ap + i) - r.ap = tmp + i
    BY <1>1 DEF Index
  <2>. HIDE DEF tmp, s
  <2>4. \A i \in 0 .. n : st[r.ap + i] = s[tmp + (r.ap + i) - r.ap]
    BY <1>1a, <2>3
  <2>. QED
    BY <1>1a, <2>1, <2>2, <2>3, <2>4
<1>3. /\ s[r.fp - 3] \in Cell /\ s[r.fp - 2] \in Cell /\ s[r.fp - 1] \in Cell
  <2>1. r.fp - 3 \in Index /\ r.fp - 2 \in Index /\ r.fp - 1 \in Index
    BY <1>1 DEF Index
  <2>. QED
    BY <1>1a, <2>1
<1>. HIDE DEF st
<1>4. mv \in Machine /\ mv.sp = r.ap + n + 1 /\ mv.ap = r.ap /\ mv.stack = st
  <2> DEFINE q  == r.ap + n + 1
             r1 == [r EXCEPT !.sp = q]
  <2>1. q \in Nat
    BY <1>1
  <2>2. mv = [r1 EXCEPT !.stack = st]
    OBVIOUS
  <2>. HIDE DEF q
  <2>3. r1 \in Machine
    BY <2>1 DEF Machine
  <2>3a. r1.sp = q /\ r1.ap = r.ap
    BY DEF Machine
  <2>. HIDE DEF r1, mv
  <2>4. mv \in Machine /\ mv.sp = q /\ mv.ap = r.ap /\ mv.stack = st
    BY <1>2, <2>2, <2>3, <2>3a DEF Machine, Index, Cell
  <2>. QED
    BY <2>4 DEF q
<1>. HIDE DEF mv
<1>5. /\ p1 \in Machine /\ p1.sp = r.ap + n + 2 /\ p1.ap = r.ap
      /\ p1.stack[r.ap + n + 1] = s[r.fp - 3]
      /\ \A i \in Index : i # r.ap + n + 1 => p1.stack[i] = st[i]
  <2>1. mv.sp < StackSize + Slack
    BY <1>1, <1>4
  <2>. QED
    BY <1>1, <1>3, <1>4, <2>1, PushFacts
<1>. HIDE DEF p1
<1>6. /\ p2 \in Machine /\ p2.sp = r.ap + n + 3 /\ p2.ap = r.ap
      /\ p2.stack[r.ap + n + 2] = s[r.fp - 2]
      /\ \A i \in Index : i # r.ap + n + 2 => p2.stack[i] = p1.stack[i]
  <2>1. p1.sp < StackSize + Slack
    BY <1>1, <1>5
  <2>. QED
    BY <1>1, <1>3, <1>5, <2>1, PushFacts
<1>. HIDE DEF p2
<1>7. /\ p3 \in Machine /\ p3.sp = r.ap + n + 4 /\ p3.ap = r.ap
      /\ p3.stack[r.ap + n + 3] = s[r.fp - 1]
      /\ \A i \in Index : i # r.ap + n + 3 => p3.stack[i] = p2.stack[i]
  <2>1. p2.sp < StackSize + Slack
    BY <1>1, <1>6
  <2>. QED
    BY <1>1, <1>3, <1>6, <2>1, PushFacts
<1>. HIDE DEF p3
<1>8. /\ c \in Machine
      /\ c.sp = r.ap + n + l + 5 /\ c.ap = r.ap /\ c.fp = r.ap + n + 4
      /\ \A i \in Index : i < r.ap + n + 4 => c.stack[i] = p3.stack[i]
      /\ \A i \in Index : c.fp <= i /\ i < c.sp => c.stack[i] = Null
  <2>1. p3 \in Machine
    BY <1>7
  <2>2. c \in Machine
    BY <2>1, EnterFacts
  <2>3. c.sp = p3.sp + l + 1 /\ c.ap = p3.ap /\ c.fp = p3.sp
    BY <2>1, EnterFacts
  <2>4. \A i \in Index : i < p3.sp => c.stack[i] = p3.stack[i]
    BY <2>1, EnterFacts
  <2>5. \A i \in Index : p3.sp <= i /\ i <= p3.sp + l => c.stack[i] = Null
    BY <2>1, EnterFacts
  <2>6. \A i \in Index : i < p3.sp + l + 1 => i <= p3.sp + l
    BY <1>1, <1>7 DEF Index
  <2>7. \A i \in Index : c.fp <= i /\ i < c.sp => c.stack[i] = Null
    BY <2>3, <2>5, <2>6
  <2>. QED
    BY <1>1, <1>7, <2>2, <2>3, <2>4, <2>7
<1>9. BC_TCALL(r, entry, n, l) = c
  BY DEF BC_TCALL, c, p3, p2, p1, mv, st
<1>. HIDE DEF c
<1>10. /\ c.stack[r.ap + n + 1] = s[r.fp - 3]
       /\ c.stack[r.ap + n + 2] = s[r.fp - 2]
       /\ c.stack[r.ap + n + 3] = s[r.fp - 1]
  <2>1. r.ap + n + 1 \in Index /\ r.ap + n + 2 \in Index /\ r.ap + n + 3 \in Index
    BY <1>1 DEF Index
  <2>. HIDE DEF s
  <2>. QED
    BY <1>1, <1>5, <1>6, <1>7, <1>8, <2>1
<1>11. \A i \in Index : i < r.ap => c.stack[i] = s[i]
  <2>1. SUFFICES ASSUME NEW i \in Index, i < r.ap PROVE c.stack[i] = s[i]
    OBVIOUS
  <2>2. i < r.ap + n + 4 /\ i # r.ap + n + 1 /\ i # r.ap + n + 2 /\ i # r.ap + n + 3
    BY <1>1, <2>1 DEF Index
  <2>. QED
    BY <2>1, <2>2, <1>2, <1>5, <1>6, <1>7, <1>8
<1>11a. \A i \in 0 .. n : c.stack[r.ap + i] = s[r.sp - n - 1 + i]
  <2>1. SUFFICES ASSUME NEW i \in 0 .. n PROVE c.stack[r.ap + i] = s[r.sp - n - 1 + i]
    OBVIOUS
  <2>2. /\ r.ap + i < r.ap + n + 4 /\ r.ap + i # r.ap + n + 1 /\ r.ap + i # r.ap + n + 2
        /\ r.ap + i # r.ap + n + 3
    BY <1>1, <2>1
  <2>3. st[r.ap + i] = s[r.sp - n - 1 + i] /\ r.ap + i \in Index
    BY <1>2, <2>1
  <2>. QED
    BY <2>2, <2>3, <1>5, <1>6, <1>7, <1>8
<1>12. c.fp - 3 = r.ap + n + 1 /\ c.fp - 2 = r.ap + n + 2 /\ c.fp - 1 = r.ap + n + 3
  BY <1>1, <1>8
<1>13. /\ c.stack[c.fp - 3] = s[r.fp - 3]
       /\ c.stack[c.fp - 2] = s[r.fp - 2]
       /\ c.stack[c.fp - 1] = s[r.fp - 1]
  BY <1>10, <1>12, Zenon
<1>14. TailCalled(c, r, n, l)
  BY <1>8, <1>11, <1>11a, <1>13, Zenon DEF TailCalled
<1>. QED
  BY <1>9, <1>14, Zenon

(* UNWIND restores what the frame has saved.                               *)
LEMMA LeaveFacts ==
  ASSUME NEW r \in Machine, r.stack[r.fp - 3] \in Int, r.stack[r.fp - 2] \in Nat,
         r.stack[r.fp - 1] \in Nat
  PROVE  LET c == Leave(r) IN
         /\ c \in Machine
         /\ c.stack = r.stack /\ c.sp = r.ap /\ c.ip = r.stack[r.fp - 3]
         /\ c.ap = r.stack[r.fp - 2] /\ c.fp = r.stack[r.fp - 1]
BY DEF Leave, Machine

-----------------------------------------------------------------------------
(* The chain of activations.                                               *)

Act  == [args : 0 .. MaxArgs + 1, locals : 0 .. MaxLocals,
         ret : Addresses \cup {NATIVE}, fp : Nat, ap : Nat]
Acts == Seq(Act)

\* What the invariant says of the stack and the registers.
Linked(r, as) ==
  /\ r \in Machine /\ as \in Acts
  /\ Chain(r.stack, as) /\ Registers(r, as) /\ r.sp <= StackSize + Slack

\* Where the activations keep the registers of their callers.
SavedCells(as) == UNION {as[k].fp - 3 .. as[k].fp - 1 : k \in 1 .. Len(as)}

LEMMA ActFacts ==
  ASSUME NEW as \in Acts, NEW k \in 1 .. Len(as)
  PROVE  /\ as[k].args \in Nat /\ as[k].locals \in Nat /\ as[k].locals <= MaxLocals
         /\ as[k].fp \in Nat /\ as[k].ap \in Nat
         /\ as[k].ret \in Int /\ as[k].ret \in Addresses \cup {NATIVE}
         /\ as[k] \in Act
<1>1. as[k] \in Act
  BY ElementOfSeq DEF Acts
<1>2. ASSUME NEW a \in Act
      PROVE  /\ a.args \in 0 .. MaxArgs + 1 /\ a.locals \in 0 .. MaxLocals
             /\ a.fp \in Nat /\ a.ap \in Nat /\ a.ret \in Addresses \cup {NATIVE}
  BY DEF Act
<1>3. \A x \in 0 .. MaxArgs + 1 : x \in Nat
  OBVIOUS
<1>4. \A x \in 0 .. MaxLocals : x \in Nat /\ x <= MaxLocals
  BY FramesAssumption
<1>5. Addresses \cup {NATIVE} \subseteq Int
  BY FramesAssumption DEF NATIVE
<1>. QED
  BY <1>1, <1>2, <1>3, <1>4, <1>5, Zenon

LEMMA NonEmpty ==
  ASSUME NEW as \in Acts, as # <<>>
  PROVE  /\ Len(as) \in Nat /\ Len(as) >= 1 /\ Len(as) \in 1 .. Len(as)
         /\ Last(as) = as[Len(as)]
<1>1. PICK s \in Acts, e \in Act : as = Append(s, e)
  BY SequenceEmptyOrAppend DEF Acts
<1>2. Len(s) \in Nat /\ Len(as) = Len(s) + 1
  BY <1>1, LenProperties, AppendProperties DEF Acts
<1>3. \A x \in Nat : x + 1 \in Nat /\ x + 1 >= 1 /\ x + 1 \in 1 .. x + 1
  OBVIOUS
<1>. QED
  BY <1>2, <1>3, Zenon DEF Last

\* The most specific premises come first: Zenon matches them in this order.
LEMMA CellArithmetic ==
  ASSUME NEW i, NEW fk, NEW lk, NEW f, NEW a, NEW n, NEW l, NEW sp, NEW size,
         i \in fk - 3 .. fk - 1, f = a + n + 4, f + l < sp, sp <= size,
         fk = f \/ fk + lk < a, fk >= 4,
         fk \in Nat, lk \in Nat, f \in Nat, a \in Nat, n \in Nat, l \in Nat,
         sp \in Nat, size \in Nat
  PROVE  /\ i \in 0 .. size - 1 /\ i < f /\ i < sp
         /\ a <= i => a + n < i
OBVIOUS

(* The saved cells lie below the running frame and outside its arguments.  *)
LEMMA CellsBelow ==
  ASSUME NEW r, NEW as, Linked(r, as), as # <<>>, NEW i \in SavedCells(as)
  PROVE  /\ i \in Index /\ i < r.fp /\ i < r.sp
         /\ r.ap <= i => r.ap + Last(as).args < i
<1> DEFINE n == Len(as)
           x == as[n]
<1>0. as \in Acts
  BY DEF Linked
<1>1. n \in Nat /\ n \in 1 .. n
  BY <1>0, NonEmpty
<1>2. PICK k \in 1 .. n : i \in as[k].fp - 3 .. as[k].fp - 1
  BY DEF SavedCells
<1> DEFINE y == as[k]
<1>3. y.fp = y.ap + y.args + 4 /\ x.fp = x.ap + x.args + 4
  BY <1>1, <1>2 DEF Linked, Chain, Saved
<1>4. k < n => y.fp + y.locals < x.ap
  BY <1>1, <1>2, Zenon DEF Linked, Chain, Above
<1>5. k = n \/ k < n
  <2>1. \A p \in Nat : \A q \in 1 .. p : q = p \/ q < p
    OBVIOUS
  <2>. QED
    BY <1>1, <1>2, <2>1, Zenon
<1>6. /\ r.fp = x.fp /\ r.ap = x.ap /\ r.fp + x.locals < r.sp
      /\ r.sp <= StackSize + Slack
  BY DEF Linked, Registers
<1>7. r.sp \in Nat /\ r.fp \in Nat /\ r.ap \in Nat
  BY DEF Linked, Machine
<1>8. y.args \in Nat /\ y.locals \in Nat /\ y.fp \in Nat /\ y.ap \in Nat
  BY <1>0, <1>2, ActFacts
<1>9. x.args \in Nat /\ x.locals \in Nat
  BY <1>0, <1>1, ActFacts
<1>10. StackSize + Slack \in Nat
  BY StackAssumption
<1>11. y.fp = r.fp \/ y.fp + y.locals < r.ap
  BY <1>4, <1>5, <1>6, Zenon
<1>12. i \in y.fp - 3 .. y.fp - 1
  BY <1>2
<1>13. r.fp = r.ap + x.args + 4
  BY <1>3, <1>6, Zenon
<1> DEFINE size == StackSize + Slack
<1>14. r.fp + x.locals < r.sp /\ r.sp <= size
  BY <1>6
<1>15. size \in Nat
  BY <1>10
<1>. HIDE DEF n, x, y, size
<1>16. y.fp >= 4
  BY <1>3, <1>8
<1>17. /\ i \in 0 .. size - 1 /\ i < r.fp /\ i < r.sp
       /\ r.ap <= i => r.ap + x.args < i
  BY <1>7, <1>8, <1>9, <1>11, <1>12, <1>13, <1>14, <1>15, <1>16, CellArithmetic, Zenon
<1>. QED
  <2>1. i \in Index
    <3>1. Index = 0 .. size - 1
      BY StackAssumption DEF Index, size
    <3>. QED
      BY <1>17, <3>1, Zenon
  <2>2. r.ap <= i => r.ap + Last(as).args < i
    BY <1>17, Zenon DEF x, n, Last
  <2>. QED
    BY <1>17, <2>1, <2>2

(* The chain is what the saved cells hold.                                 *)
LEMMA ChainKept ==
  ASSUME NEW s, NEW t, NEW as \in Acts, Chain(s, as), \A i \in SavedCells(as) : t[i] = s[i]
  PROVE  Chain(t, as)
<1>1. ASSUME NEW k \in 1 .. Len(as)
      PROVE  Saved(t, as, k)
  <2>1. as[k].fp \in Nat
    BY ActFacts
  <2>2. /\ as[k].fp - 3 \in as[k].fp - 3 .. as[k].fp - 1
        /\ as[k].fp - 2 \in as[k].fp - 3 .. as[k].fp - 1
        /\ as[k].fp - 1 \in as[k].fp - 3 .. as[k].fp - 1
    <3>1. \A f \in Nat : f - 3 \in f - 3 .. f - 1 /\ f - 2 \in f - 3 .. f - 1 /\ f - 1 \in f - 3 .. f - 1
      OBVIOUS
    <3>. QED
      BY <2>1, <3>1, Zenon
  <2>3. /\ as[k].fp - 3 \in SavedCells(as)
        /\ as[k].fp - 2 \in SavedCells(as)
        /\ as[k].fp - 1 \in SavedCells(as)
    BY <2>2, Zenon DEF SavedCells
  <2>4. Saved(s, as, k)
    BY DEF Chain
  <2>. QED
    BY <2>3, <2>4 DEF Saved
<1>. QED
  BY <1>1 DEF Chain

(* Work on the operands, arguments and locals of the running frame keeps   *)
(* the links.                                                              *)
LEMMA LinkedKept ==
  ASSUME NEW r, NEW as, Linked(r, as), as # <<>>,
         NEW c \in Machine, c.fp = r.fp, c.ap = r.ap,
         c.fp + Last(as).locals < c.sp, c.sp <= StackSize + Slack,
         \A i \in SavedCells(as) : c.stack[i] = r.stack[i]
  PROVE  Linked(c, as)
<1>1. Chain(c.stack, as)
  BY ChainKept DEF Linked
<1>2. Registers(c, as)
  BY DEF Linked, Registers, Last
<1>. QED
  BY <1>1, <1>2 DEF Linked

LEMMA LinkedFacts ==
  ASSUME NEW r, NEW as, Linked(r, as), as # <<>>
  PROVE  /\ r \in Machine /\ as \in Acts
         /\ r.sp \in Nat /\ r.ap \in Nat /\ r.fp \in Nat /\ r.ip \in Int
         /\ r.sp <= StackSize + Slack
         /\ r.fp + Last(as).locals < r.sp
         /\ r.fp = Last(as).fp /\ r.ap = Last(as).ap
         /\ r.fp = r.ap + Last(as).args + 4
         /\ Last(as).args \in Nat /\ Last(as).locals \in Nat
<1>1. r \in Machine /\ as \in Acts /\ r.sp <= StackSize + Slack
  BY DEF Linked
<1>2. Len(as) \in 1 .. Len(as) /\ Last(as) = as[Len(as)]
  BY <1>1, NonEmpty, Zenon
<1>3. Last(as).args \in Nat /\ Last(as).locals \in Nat
  BY <1>1, <1>2, ActFacts, Zenon
<1>4. /\ r.fp + Last(as).locals < r.sp
      /\ r.fp = Last(as).fp /\ r.ap = Last(as).ap
  BY Zenon DEF Linked, Registers, Last
<1>5. r.fp = r.ap + Last(as).args + 4
  <2>1. Saved(r.stack, as, Len(as))
    BY <1>2, Zenon DEF Linked, Chain
  <2>2. Last(as).fp = Last(as).ap + Last(as).args + 4
    BY <1>2, <2>1, Zenon DEF Saved
  <2>. QED
    BY <1>4, <2>2, Zenon
<1>6. r.sp \in Nat /\ r.ap \in Nat /\ r.fp \in Nat /\ r.ip \in Int
  BY <1>1 DEF Machine
<1>. QED
  BY <1>1, <1>3, <1>4, <1>5, <1>6, Zenon

LEMMA LinkedPush ==
  ASSUME NEW r, NEW as, Linked(r, as), as # <<>>, NEW v \in Cell, r.sp < StackSize + Slack
  PROVE  Linked(Push(r, v), as)
<1> DEFINE c == Push(r, v)
           l == Last(as).locals
<1>1. /\ r \in Machine /\ r.sp \in Nat /\ r.fp \in Nat /\ l \in Nat /\ r.fp + l < r.sp
  BY LinkedFacts, Zenon
<1>2. /\ c \in Machine /\ c.sp = r.sp + 1 /\ c.ap = r.ap /\ c.fp = r.fp
  BY <1>1, PushFacts
<1>3. \A i \in Index : i # r.sp => c.stack[i] = r.stack[i]
  BY <1>1, PushFacts
<1>4. \A i \in SavedCells(as) : i \in Index /\ i < r.sp
  BY CellsBelow, Zenon
<1>5. \A x \in Index : x < r.sp => x # r.sp
  BY <1>1 DEF Index
<1>6. \A i \in SavedCells(as) : c.stack[i] = r.stack[i]
  BY <1>3, <1>4, <1>5, Zenon
<1>7. StackSize + Slack \in Nat
  BY StackAssumption
<1>. HIDE DEF c, l
<1>8. c.fp + l < c.sp /\ c.sp <= StackSize + Slack
  BY <1>1, <1>2, <1>7
<1>9. c.fp + Last(as).locals < c.sp
  BY <1>8 DEF l
<1>10. Linked(c, as)
  BY <1>2, <1>6, <1>8, <1>9, LinkedKept, Zenon
<1>. QED
  BY <1>10 DEF c

LEMMA LinkedPop ==
  ASSUME NEW r, NEW as, Linked(r, as), as # <<>>, r.sp > r.fp + 1 + Last(as).locals
  PROVE  Linked(Pop(r), as)
<1> DEFINE c == Pop(r)
           l == Last(as).locals
<1>1. /\ r \in Machine /\ r.sp \in Nat /\ r.fp \in Nat /\ l \in Nat
      /\ r.sp <= StackSize + Slack
  BY LinkedFacts, Zenon
<1>2. r.sp > r.fp + 1 + l
  OBVIOUS
<1>3. StackSize + Slack \in Nat
  BY StackAssumption
<1>. HIDE DEF l
<1>4. r.sp > 0
  BY <1>1, <1>2
<1>5. /\ c \in Machine /\ c.sp = r.sp - 1 /\ c.ap = r.ap /\ c.fp = r.fp /\ c.stack = r.stack
  BY <1>1, <1>4, PopFacts
<1>. HIDE DEF c
<1>6. c.fp + l < c.sp /\ c.sp <= StackSize + Slack
  BY <1>1, <1>2, <1>3, <1>5
<1>7. c.fp + Last(as).locals < c.sp
  BY <1>6 DEF l
<1>8. Linked(c, as)
  BY <1>5, <1>6, <1>7, LinkedKept, Zenon
<1>. QED
  BY <1>8 DEF c

LEMMA LinkedClean ==
  ASSUME NEW r, NEW as, Linked(r, as), as # <<>>
  PROVE  Linked(Clean(r), as)
<1> DEFINE c == Clean(r)
<1>1. /\ r \in Machine /\ r.sp <= StackSize + Slack
      /\ r.fp + Last(as).locals < r.sp
  BY LinkedFacts, Zenon
<1>2. /\ c \in Machine /\ c.sp = r.sp /\ c.ap = r.ap /\ c.fp = r.fp
      /\ \A i \in Index : i < r.sp => c.stack[i] = r.stack[i]
  BY <1>1, CleanFacts
<1>3. \A i \in SavedCells(as) : c.stack[i] = r.stack[i]
  BY <1>2, CellsBelow, Zenon
<1>. HIDE DEF c
<1>4. Linked(c, as)
  BY <1>1, <1>2, <1>3, LinkedKept, Zenon
<1>. QED
  BY <1>4 DEF c

Written(r, slot, v) == [r EXCEPT !.stack[slot] = v]

(* ST writes to an argument or to a local variable, never to a saved cell. *)
LEMMA LinkedStore ==
  ASSUME NEW r, NEW as, Linked(r, as), as # <<>>, NEW v \in Cell, NEW slot \in Index,
         r.fp <= slot \/ (r.ap <= slot /\ slot <= r.ap + Last(as).args)
  PROVE  /\ Linked(Written(r, slot, v), as)
         /\ Written(r, slot, v).sp = r.sp /\ Written(r, slot, v).fp = r.fp
<1> DEFINE st == [r.stack EXCEPT ![slot] = v]
           c  == Written(r, slot, v)
           n  == Last(as).args
<1>1. /\ r \in Machine /\ r.sp <= StackSize + Slack
      /\ r.fp + Last(as).locals < r.sp
      /\ r.fp \in Nat /\ r.ap \in Nat /\ n \in Nat
  BY LinkedFacts, Zenon
<1>2. c = [r EXCEPT !.stack = st]
  BY <1>1 DEF Machine, Written
<1>3. r.stack \in [Index -> Cell]
  BY <1>1 DEF Machine, Index, Cell
<1>4. st \in [Index -> Cell] /\ \A i \in Index : i # slot => st[i] = r.stack[i]
  BY <1>3
<1>. HIDE DEF st, c
<1>5. c \in Machine /\ c.stack = st
  BY <1>1, <1>2, <1>4 DEF Machine, Index, Cell
<1>6. c.sp = r.sp /\ c.ap = r.ap /\ c.fp = r.fp
  BY <1>1, <1>2 DEF Machine
<1>7. \A i \in SavedCells(as) : i \in Index /\ i < r.fp /\ (r.ap <= i => r.ap + n < i)
  BY CellsBelow, Zenon
<1>8. r.fp <= slot \/ (r.ap <= slot /\ slot <= r.ap + n)
  OBVIOUS
<1>. HIDE DEF n
<1>9. \A i \in Index : i < r.fp /\ (r.ap <= i => r.ap + n < i) => i # slot
  BY <1>1, <1>8 DEF Index
<1>10. \A i \in SavedCells(as) : c.stack[i] = r.stack[i]
  BY <1>4, <1>5, <1>7, <1>9, Zenon
<1>11. Linked(c, as)
  BY <1>1, <1>5, <1>6, <1>10, LinkedKept, Zenon
<1>. QED
  BY <1>6, <1>11, Zenon DEF c

LEMMA AppendFacts ==
  ASSUME NEW as \in Acts, NEW a \in Act
  PROVE  /\ Append(as, a) \in Acts /\ Append(as, a) # <<>>
         /\ Len(as) \in Nat /\ Len(Append(as, a)) = Len(as) + 1
         /\ \A i \in 1 .. Len(as) : Append(as, a)[i] = as[i]
         /\ Append(as, a)[Len(as) + 1] = a
<1>1. Len(as) \in Nat
  BY LenProperties, Zenon DEF Acts
<1>2. Append(as, a) \in Acts /\ Append(as, a) # <<>> /\ Len(Append(as, a)) = Len(as) + 1
  BY AppendProperties, Zenon DEF Acts
<1>3. \A i \in 1 .. Len(as) : Append(as, a)[i] = as[i]
  BY AppendProperties DEF Acts
<1>4. Append(as, a)[Len(as) + 1] = a
  BY AppendProperties, Zenon DEF Acts
<1>. QED
  BY <1>1, <1>2, <1>3, <1>4, Zenon

LEMMA FrontFacts ==
  ASSUME NEW as \in Acts, as # <<>>
  PROVE  /\ Front(as) \in Acts /\ Len(Front(as)) = Len(as) - 1
         /\ Len(as) \in Nat /\ Len(as) >= 1
         /\ \A i \in 1 .. Len(as) - 1 : Front(as)[i] = as[i]
         /\ Front(as) = <<>> <=> Len(as) = 1
<1> DEFINE n == Len(as)
           k == n - 1
           f == SubSeq(as, 1, k)
<1>1. n \in Nat /\ n >= 1
  BY NonEmpty
<1>2. \A i \in 1 .. n : as[i] \in Act
  BY ElementOfSeq, Zenon DEF Acts
<1>3. Front(as) = f
  BY Zenon DEF Front
<1>. HIDE DEF n
<1>4. k \in Int /\ 1 \in Int /\ \A i \in 1 .. k : i \in 1 .. n
  BY <1>1
<1>5. \A i \in 1 .. k : as[i] \in Act
  BY <1>2, <1>4, Zenon
<1>6. k - 1 + 1 = k /\ (IF 1 <= k THEN k - 1 + 1 ELSE 0) = k /\ \A i \in 1 .. k : 1 + i - 1 = i
  BY <1>1
<1>. HIDE DEF k
<1>7. /\ f \in Seq(Act) /\ Len(f) = (IF 1 <= k THEN k - 1 + 1 ELSE 0)
      /\ \A i \in 1 .. k - 1 + 1 : f[i] = as[1 + i - 1]
  <2>1. f \in Seq(Act)
    BY <1>4, <1>5, SubSeqProperties, Zenon
  <2>2. Len(f) = (IF 1 <= k THEN k - 1 + 1 ELSE 0)
    BY <1>4, <1>5, SubSeqProperties
  <2>3. \A i \in 1 .. k - 1 + 1 : f[i] = as[1 + i - 1]
    BY <1>4, <1>5, SubSeqProperties
  <2>. QED
    BY <2>1, <2>2, <2>3
<1>8. f \in Acts /\ Len(f) = k /\ \A i \in 1 .. k : f[i] = as[i]
  BY <1>6, <1>7, Zenon DEF Acts
<1>9. f = <<>> <=> Len(f) = 0
  <2>1. Len(<<>>) = 0 /\ (f # <<>> => Len(f) \in Nat \ {0})
    BY <1>8, EmptySeq, Zenon DEF Acts
  <2>. QED
    BY <2>1, Zenon
<1>10. k = 0 <=> n = 1
  BY <1>1 DEF k
<1>11. f = <<>> <=> n = 1
  BY <1>8, <1>9, <1>10, Zenon
<1>. HIDE DEF f
<1>. QED
  BY <1>1, <1>3, <1>8, <1>11, Zenon DEF n, k

LEMMA ActNumbers ==
  ASSUME NEW x \in Act
  PROVE  x.args \in Nat /\ x.locals \in Nat /\ x.fp \in Nat /\ x.ap \in Nat
<1>1. \A k \in 0 .. MaxArgs + 1 : k \in Nat
  OBVIOUS
<1>2. \A k \in 0 .. MaxLocals : k \in Nat
  OBVIOUS
<1>3. x.args \in 0 .. MaxArgs + 1 /\ x.locals \in 0 .. MaxLocals /\ x.fp \in Nat /\ x.ap \in Nat
  BY DEF Act
<1>. QED
  BY <1>1, <1>2, <1>3, Zenon

LEMMA AboveTransitive ==
  ASSUME NEW x \in Act, NEW y \in Act, NEW z \in Act,
         y.fp = y.ap + y.args + 4, y.fp + y.locals < z.ap, x.fp + x.locals < y.ap
  PROVE  x.fp + x.locals < z.ap
<1>1. /\ x.fp \in Nat /\ x.locals \in Nat /\ z.ap \in Nat
      /\ y.args \in Nat /\ y.locals \in Nat /\ y.fp \in Nat /\ y.ap \in Nat
  BY ActNumbers, Zenon
<1>. QED
  BY <1>1

(* A frame on top of a chain, that has saved the registers of the one      *)
(* below it.                                                               *)
LEMMA ChainExtend ==
  ASSUME NEW s, NEW t, NEW as \in Acts, Chain(s, as), \A i \in SavedCells(as) : t[i] = s[i],
         NEW a \in Act,
         a.fp = a.ap + a.args + 4,
         t[a.fp - 3] = a.ret,
         t[a.fp - 2] = IF as = <<>> THEN 0 ELSE Last(as).ap,
         t[a.fp - 1] = IF as = <<>> THEN 0 ELSE Last(as).fp,
         a.ret = NATIVE <=> as = <<>>,
         as # <<>> => Last(as).fp + Last(as).locals < a.ap,
         as = <<>> => a.ap = 0
  PROVE  Chain(t, Append(as, a))
<1> DEFINE q == Append(as, a)
           n == Len(as)
<1>1. /\ q \in Acts /\ n \in Nat /\ Len(q) = n + 1
      /\ \A i \in 1 .. n : q[i] = as[i]
      /\ q[n + 1] = a
  BY AppendFacts, Zenon
<1>2. Chain(t, as)
  BY ChainKept
<1>3. as = <<>> <=> n = 0
  <2>1. Len(<<>>) = 0 /\ (as # <<>> => Len(as) \in Nat \ {0})
    BY EmptySeq, Zenon DEF Acts
  <2>. QED
    BY <2>1, Zenon
<1>4. /\ \A k \in 1 .. n : Saved(t, as, k)
      /\ \A j, k \in 1 .. n : j < k => Above(as, j, k)
      /\ n # 0 => as[1].ap = 0
  BY <1>2, <1>3, Zenon DEF Chain
<1>5. /\ t[a.fp - 2] = IF n = 0 THEN 0 ELSE as[n].ap
      /\ t[a.fp - 1] = IF n = 0 THEN 0 ELSE as[n].fp
      /\ a.ret = NATIVE <=> n = 0
      /\ n # 0 => as[n].fp + as[n].locals < a.ap
  BY <1>3, Zenon DEF Last
<1>. HIDE DEF n, q
<1>6. /\ \A k \in 1 .. n + 1 : k = n + 1 \/ k \in 1 .. n
      /\ \A k \in 1 .. n : k # 1 => k - 1 \in 1 .. n
      /\ n + 1 - 1 = n /\ (n + 1 = 1 <=> n = 0)
      /\ n # 0 => 1 \in 1 .. n /\ n \in 1 .. n
      /\ \A j \in 1 .. n : j < n \/ j = n
  BY <1>1
<1>7. ASSUME NEW k \in 1 .. n
      PROVE  Saved(t, q, k)
  <2>1. q[k] = as[k] /\ Saved(t, as, k)
    BY <1>1, <1>4, Zenon
  <2>2. k # 1 => q[k - 1] = as[k - 1]
    BY <1>1, <1>6, Zenon
  <2>. QED
    BY <2>1, <2>2 DEF Saved
<1>8. Saved(t, q, n + 1)
  <2> DEFINE k == n + 1
             p == as[n]
  <2>2. q[k] = a
    BY <1>1
  <2>3. k = 1 <=> n = 0
    BY <1>6
  <2>4a. n # 0 => q[n] = p
    BY <1>1, <1>6, Zenon
  <2>4b. k - 1 = n
    BY <1>6
  <2>5. /\ t[a.fp - 2] = IF n = 0 THEN 0 ELSE p.ap
        /\ t[a.fp - 1] = IF n = 0 THEN 0 ELSE p.fp
        /\ a.ret = NATIVE <=> n = 0
    BY <1>5
  <2>. HIDE DEF k, p
  <2>6. Saved(t, q, k)
    BY <2>2, <2>3, <2>4a, <2>4b, <2>5 DEF Saved
  <2>. QED
    BY <2>6 DEF k
<1>9. ASSUME NEW j \in 1 .. n, NEW k \in 1 .. n, j < k
      PROVE  Above(q, j, k)
  BY <1>1, <1>4, <1>9, Zenon DEF Above
<1>10. ASSUME NEW j \in 1 .. n
       PROVE  Above(q, j, n + 1)
  <2>1. n # 0 /\ n \in 1 .. n
    BY <1>1
  <2>2. as[n].fp + as[n].locals < a.ap
    BY <1>5, <2>1, Zenon
  <2>3. as[j].fp + as[j].locals < a.ap
    <3> DEFINE x == as[j]
               y == as[n]
    <3>1. j = n \/ Above(as, j, n)
      BY <1>4, <1>6, <2>1, Zenon
    <3>2. x \in Act /\ y \in Act
      BY <2>1, ActFacts, Zenon DEF n
    <3>4. y.fp = y.ap + y.args + 4
      BY <1>4, <2>1, Zenon DEF Saved
    <3>5. j = n => x = y
      OBVIOUS
    <3>6. Above(as, j, n) => x.fp + x.locals < y.ap
      BY Zenon DEF Above
    <3>7. y.fp + y.locals < a.ap
      BY <2>2
    <3>. HIDE DEF x, y
    <3>8. x.fp + x.locals < y.ap => x.fp + x.locals < a.ap
      BY <3>2, <3>4, <3>7, AboveTransitive
    <3>9. x.fp + x.locals < a.ap
      BY <3>1, <3>5, <3>6, <3>7, <3>8, Zenon
    <3>. QED
      BY <3>9 DEF x
  <2>. QED
    BY <1>1, <2>3, Zenon DEF Above
<1>11. q # <<>> => q[1].ap = 0
  BY <1>1, <1>3, <1>4, <1>6, Zenon
<1>12. \A k \in 1 .. n + 1 : Saved(t, q, k)
  BY <1>6, <1>7, <1>8, Zenon
<1>13. \A j, k \in 1 .. n + 1 : j < k => Above(q, j, k)
  <2>1. \A j, k \in 1 .. n + 1 : j < k => j \in 1 .. n
    BY <1>1
  <2>. QED
    BY <1>6, <1>9, <1>10, <2>1, Zenon
<1>14. Chain(t, q)
  BY <1>1, <1>11, <1>12, <1>13, Zenon DEF Chain
<1>. QED
  BY <1>14 DEF q

(* What is left of a chain when its last activation returns.               *)
LEMMA ChainFront ==
  ASSUME NEW s, NEW as \in Acts, Chain(s, as), as # <<>>
  PROVE  Chain(s, Front(as)) /\ SavedCells(Front(as)) \subseteq SavedCells(as)
<1> DEFINE q == Front(as)
           n == Len(as) - 1
<1>1. /\ q \in Acts /\ Len(q) = n /\ Len(as) \in Nat /\ Len(as) >= 1
      /\ \A i \in 1 .. n : q[i] = as[i]
      /\ q = <<>> <=> Len(as) = 1
  BY FrontFacts, Zenon
<1>2. /\ \A k \in 1 .. n : k \in 1 .. Len(as)
      /\ \A k \in 1 .. n : k # 1 => k - 1 \in 1 .. n
      /\ Len(as) # 1 => 1 \in 1 .. n
  <2> DEFINE l == Len(as)
  <2>1. l \in Nat /\ l >= 1
    BY <1>1
  <2>. HIDE DEF l
  <2>2. /\ \A k \in 1 .. l - 1 : k \in 1 .. l
        /\ \A k \in 1 .. l - 1 : k # 1 => k - 1 \in 1 .. l - 1
        /\ l # 1 => 1 \in 1 .. l - 1
    BY <2>1
  <2>. QED
    BY <2>2, Zenon DEF l
<1>. HIDE DEF q, n
<1>3. ASSUME NEW k \in 1 .. n
      PROVE  Saved(s, q, k)
  <2>1. q[k] = as[k] /\ Saved(s, as, k)
    BY <1>1, <1>2, Zenon DEF Chain
  <2>2. k # 1 => q[k - 1] = as[k - 1]
    BY <1>1, <1>2, Zenon
  <2>. QED
    BY <2>1, <2>2 DEF Saved
<1>4. ASSUME NEW j \in 1 .. n, NEW k \in 1 .. n, j < k
      PROVE  Above(q, j, k)
  BY <1>1, <1>2, <1>4, Zenon DEF Above, Chain
<1>5. q # <<>> => q[1].ap = 0
  BY <1>1, <1>2, Zenon DEF Chain
<1>6. Chain(s, q)
  BY <1>1, <1>3, <1>4, <1>5, Zenon DEF Chain
<1>7. SavedCells(q) \subseteq SavedCells(as)
  <2>. SUFFICES ASSUME NEW i \in SavedCells(q) PROVE i \in SavedCells(as)
    BY Zenon
  <2>1. PICK k \in 1 .. n : i \in q[k].fp - 3 .. q[k].fp - 1
    BY <1>1, Zenon DEF SavedCells
  <2>2. k \in 1 .. Len(as) /\ i \in as[k].fp - 3 .. as[k].fp - 1
    BY <1>1, <1>2, <2>1, Zenon
  <2>. QED
    BY <2>2, Zenon DEF SavedCells
<1>. QED
  BY <1>6, <1>7 DEF q

\* The activation that the registers of a machine describe.
Describes(a, c, ret, n, l) ==
  /\ a \in Act /\ a.args = n /\ a.locals = l /\ a.ret = ret
  /\ a.fp = c.fp /\ a.ap = c.ap

LEMMA ActivatedFacts ==
  ASSUME NEW c \in Machine, NEW ret \in Addresses \cup {NATIVE},
         NEW n \in 0 .. MaxArgs + 1, NEW l \in 0 .. MaxLocals
  PROVE  Describes(Activated(c, ret, n, l), c, ret, n, l)
BY DEF Activated, Act, Machine, Describes

LEMMA LinkedExtend ==
  ASSUME NEW s, NEW as \in Acts, Chain(s, as), NEW c \in Machine, NEW a \in Act,
         \A i \in SavedCells(as) : c.stack[i] = s[i],
         a.fp = c.fp, a.ap = c.ap,
         c.fp = c.ap + a.args + 4,
         c.stack[c.fp - 3] = a.ret,
         c.stack[c.fp - 2] = IF as = <<>> THEN 0 ELSE Last(as).ap,
         c.stack[c.fp - 1] = IF as = <<>> THEN 0 ELSE Last(as).fp,
         a.ret = NATIVE <=> as = <<>>,
         as # <<>> => Last(as).fp + Last(as).locals < c.ap,
         as = <<>> => c.ap = 0,
         c.fp + a.locals < c.sp, c.sp <= StackSize + Slack
  PROVE  Linked(c, Append(as, a)) /\ Append(as, a) # <<>>
<1> DEFINE q == Append(as, a)
           t == c.stack
<1>1. q \in Acts /\ q # <<>> /\ q[Len(q)] = a
  <2>1. q \in Acts /\ q # <<>> /\ Len(q) = Len(as) + 1 /\ q[Len(as) + 1] = a
    BY AppendFacts, Zenon
  <2>. HIDE DEF q
  <2>. QED
    BY <2>1, Zenon
<1>2. /\ a.fp = a.ap + a.args + 4
      /\ t[a.fp - 3] = a.ret
      /\ t[a.fp - 2] = IF as = <<>> THEN 0 ELSE Last(as).ap
      /\ t[a.fp - 1] = IF as = <<>> THEN 0 ELSE Last(as).fp
      /\ as # <<>> => Last(as).fp + Last(as).locals < a.ap
      /\ as = <<>> => a.ap = 0
  OBVIOUS
<1>3. \A i \in SavedCells(as) : t[i] = s[i]
  OBVIOUS
<1>. HIDE DEF t
<1>4. Chain(t, q)
  BY <1>2, <1>3, ChainExtend
<1>. HIDE DEF q
<1>5. Registers(c, q)
  BY <1>1 DEF Registers
<1>6. Linked(c, q)
  BY <1>1, <1>4, <1>5 DEF Linked, t
<1>. QED
  BY <1>1, <1>6 DEF q

LEMMA CallArithmetic ==
  ASSUME NEW sp, NEW fp, NEW k, NEW n,
         sp > fp + 1 + k + n, sp \in Nat, fp \in Nat, k \in Nat, n \in Nat
  PROVE  n + 1 <= sp /\ fp + k < sp - n - 1 /\ 0 \in Int
OBVIOUS

LEMMA CallSizes ==
  ASSUME NEW sp, NEW l, sp + 3 <= StackSize, sp \in Nat, l \in Nat
  PROVE  /\ sp + 3 + l < sp + l + 4
         /\ sp + l + 4 > StackSize + Slack => l >= Slack
BY StackAssumption

LEMMA LinkedCall ==
  ASSUME NEW r, NEW as, Linked(r, as), as # <<>>,
         NEW ret \in Addresses, NEW n \in 0 .. MaxArgs, NEW l \in 0 .. MaxLocals,
         r.sp > r.fp + 1 + Last(as).locals + n, r.sp + 3 <= StackSize
  PROVE  LET c == BC_CALL(r, 0, ret, n, l) IN
         /\ c.sp = r.sp + l + 4
         /\ Allocated(c) => /\ Linked(c, Append(as, Activated(c, ret, n, l)))
                            /\ Append(as, Activated(c, ret, n, l)) # <<>>
<1> DEFINE c == BC_CALL(r, 0, ret, n, l)
           a == Activated(c, ret, n, l)
           k == Last(as).locals
<1>1. /\ r \in Machine /\ as \in Acts
      /\ r.sp \in Nat /\ r.ap \in Nat /\ r.fp \in Nat /\ k \in Nat
      /\ r.fp = Last(as).fp /\ r.ap = Last(as).ap
  BY LinkedFacts, Zenon
<1>2. /\ n \in Nat /\ l \in Nat /\ l <= MaxLocals /\ n \in 0 .. MaxArgs + 1
      /\ StackSize \in Nat /\ Slack \in Nat /\ MaxLocals \in Nat
  BY FramesAssumption, StackAssumption
<1>3. ret \in Int /\ ret # NATIVE /\ ret \in Addresses \cup {NATIVE}
  BY FramesAssumption DEF NATIVE
<1>4. r.sp > r.fp + 1 + k + n
  OBVIOUS
<1>. HIDE DEF k
<1>5. n + 1 <= r.sp /\ r.fp + k < r.sp - n - 1 /\ 0 \in Int
  BY <1>1, <1>2, <1>4, CallArithmetic, Zenon
<1>6. /\ c \in Machine
      /\ c.sp = r.sp + l + 4 /\ c.ap = r.sp - n - 1 /\ c.fp = r.sp + 3
      /\ c.stack[r.sp] = ret /\ c.stack[r.sp + 1] = r.ap /\ c.stack[r.sp + 2] = r.fp
      /\ \A i \in Index : i < r.sp => c.stack[i] = r.stack[i]
  <2>1. r \in Machine /\ 0 \in Int /\ ret \in Int /\ n \in Nat /\ l \in Nat /\ n + 1 <= r.sp
    BY <1>1, <1>2, <1>3, <1>5, Zenon
  <2>2. Called(c, r, ret, n, l)
    BY <2>1, CallFacts, Zenon
  <2>. QED
    BY <2>2, Zenon DEF Called
<1>. HIDE DEF c
<1>7. a \in Act /\ a.args = n /\ a.locals = l /\ a.ret = ret /\ a.fp = c.fp /\ a.ap = c.ap
  <2>1. Describes(a, c, ret, n, l)
    BY <1>2, <1>3, <1>6, ActivatedFacts, Zenon
  <2>. QED
    BY <2>1, Zenon DEF Describes
<1>. HIDE DEF a
<1>8. c.fp - 3 = r.sp /\ c.fp - 2 = r.sp + 1 /\ c.fp - 1 = r.sp + 2
  BY <1>1, <1>6, SMTT(30)
<1>9. c.fp = c.ap + a.args + 4
  BY <1>1, <1>2, <1>6, <1>7
<1>. SUFFICES ASSUME Allocated(c)
              PROVE  Linked(c, Append(as, a)) /\ Append(as, a) # <<>>
  BY <1>6, Zenon DEF a, c
<1>10. c.fp + a.locals < c.sp /\ c.sp <= StackSize + Slack
  <2>0. c.sp <= StackSize + Slack
    BY Zenon DEF Allocated
  <2>1. r.sp + 3 + l < r.sp + l + 4
    BY <1>1, <1>2, CallSizes, Zenon
  <2>. QED
    BY <2>0, <2>1, <1>6, <1>7, Zenon
<1>11. Last(as).fp + Last(as).locals < c.ap
  BY <1>1, <1>5, <1>6, Zenon DEF k
<1>12. /\ c.stack[c.fp - 3] = a.ret
       /\ c.stack[c.fp - 2] = IF as = <<>> THEN 0 ELSE Last(as).ap
       /\ c.stack[c.fp - 1] = IF as = <<>> THEN 0 ELSE Last(as).fp
  BY <1>1, <1>6, <1>7, <1>8, Zenon
<1>13. \A i \in SavedCells(as) : c.stack[i] = r.stack[i]
  BY <1>6, CellsBelow, Zenon
<1>14. Chain(r.stack, as)
  BY DEF Linked
<1>15. Linked(c, Append(as, a)) /\ Append(as, a) # <<>>
  BY <1>1, <1>3, <1>6, <1>7, <1>9, <1>10, <1>11, <1>12, <1>13, <1>14, LinkedExtend
<1>. QED
  BY <1>15 DEF a, c

LEMMA BelowArithmetic ==
  ASSUME NEW i, NEW f, NEW l, NEW a,
         i \in f - 3 .. f - 1, f + l < a, f \in Nat, l \in Nat, a \in Nat
  PROVE  i < a
OBVIOUS

\* The cells of the callers lie below the arguments of the running frame.
LEMMA FrontCells ==
  ASSUME NEW r, NEW as, Linked(r, as), as # <<>>, NEW i \in SavedCells(Front(as))
  PROVE  i \in Index /\ i < r.ap /\ i < r.sp /\ Len(as) # 1
<1> DEFINE n == Len(as)
<1>1. /\ as \in Acts /\ n \in Nat /\ n >= 1 /\ Len(Front(as)) = n - 1
      /\ \A k \in 1 .. n - 1 : Front(as)[k] = as[k]
      /\ Chain(r.stack, as)
  BY FrontFacts, Zenon DEF Linked
<1>2. PICK k \in 1 .. n - 1 : i \in as[k].fp - 3 .. as[k].fp - 1
  BY <1>1, Zenon DEF SavedCells
<1>. HIDE DEF n
<1>3. k \in 1 .. n /\ n \in 1 .. n /\ k < n /\ n # 1
  BY <1>1, <1>2
<1>4. as[k].fp + as[k].locals < as[n].ap /\ as[n].ap = r.ap
  BY <1>1, <1>3, Zenon DEF Chain, Above, n, Linked, Registers
<1> DEFINE y == as[k]
<1>5. y.fp \in Nat /\ y.locals \in Nat
  BY <1>1, <1>3, ActFacts, Zenon DEF n
<1>6. i \in y.fp - 3 .. y.fp - 1 /\ y.fp + y.locals < r.ap
  BY <1>2, <1>4, Zenon
<1>7. r.ap \in Nat
  BY LinkedFacts, Zenon
<1>. HIDE DEF y
<1>8. i < r.ap
  BY <1>5, <1>6, <1>7, BelowArithmetic, Zenon
<1>9. i \in Index /\ i < r.sp
  BY <1>1, CellsBelow, ChainFront, Zenon
<1>. QED
  BY <1>3, <1>8, <1>9, Zenon DEF n

\* The registers that the running frame has saved.
LEMMA SavedFacts ==
  ASSUME NEW r, NEW as, Linked(r, as), as # <<>>
  PROVE  /\ r.stack[r.fp - 3] = Last(as).ret
         /\ r.stack[r.fp - 2] = IF Front(as) = <<>> THEN 0 ELSE Last(Front(as)).ap
         /\ r.stack[r.fp - 1] = IF Front(as) = <<>> THEN 0 ELSE Last(Front(as)).fp
         /\ Last(as).ret = NATIVE <=> Front(as) = <<>>
         /\ Front(as) # <<>> => Last(Front(as)).fp + Last(Front(as)).locals < r.ap
         /\ Front(as) = <<>> => r.ap = 0
         /\ Front(as) \in Acts /\ Chain(r.stack, Front(as))
         /\ Last(as).ret \in Addresses \cup {NATIVE} /\ Last(as) \in Act
<1> DEFINE n == Len(as)
           f == Front(as)
<1>1. /\ as \in Acts /\ n \in Nat /\ n >= 1 /\ Len(f) = n - 1 /\ f \in Acts
      /\ \A k \in 1 .. n - 1 : f[k] = as[k]
      /\ f = <<>> <=> n = 1
      /\ Chain(r.stack, as) /\ Last(as) = as[n]
  BY FrontFacts, Zenon DEF Linked, Last
<1>2. r.fp = as[n].fp /\ r.ap = as[n].ap
  BY <1>1, LinkedFacts, Zenon DEF Last
<1>3. Chain(r.stack, f)
  BY <1>1, ChainFront, Zenon
<1>4. n \in 1 .. n /\ (n # 1 => n - 1 \in 1 .. n - 1 /\ n - 1 \in 1 .. n /\ n - 1 < n)
  <2>. HIDE DEF n
  <2>. QED
    BY <1>1
<1>5. Saved(r.stack, as, n)
  BY <1>1, <1>4, Zenon DEF Chain
<1>6. n # 1 => Last(f) = as[n - 1] /\ Above(as, n - 1, n)
  BY <1>1, <1>4, Zenon DEF Chain, Last
<1>7. Last(as).ret \in Addresses \cup {NATIVE} /\ Last(as) \in Act
  BY <1>1, <1>4, ActFacts, Zenon
<1>8. n = 1 => r.ap = 0
  BY <1>1, <1>2, Zenon DEF Chain
<1>. HIDE DEF n, f
<1>9. /\ r.stack[r.fp - 3] = Last(as).ret
      /\ r.stack[r.fp - 2] = IF n = 1 THEN 0 ELSE as[n - 1].ap
      /\ r.stack[r.fp - 1] = IF n = 1 THEN 0 ELSE as[n - 1].fp
      /\ Last(as).ret = NATIVE <=> n = 1
  BY <1>1, <1>2, <1>5, Zenon DEF Saved
<1>10. n # 1 => as[n - 1].fp + as[n - 1].locals < r.ap
  BY <1>2, <1>6, Zenon DEF Above
<1>11. /\ r.stack[r.fp - 2] = IF f = <<>> THEN 0 ELSE Last(f).ap
       /\ r.stack[r.fp - 1] = IF f = <<>> THEN 0 ELSE Last(f).fp
       /\ f # <<>> => Last(f).fp + Last(f).locals < r.ap
  BY <1>1, <1>6, <1>9, <1>10, Zenon
<1>. QED
  BY <1>1, <1>3, <1>7, <1>8, <1>9, <1>11, Zenon DEF f

LEMMA TailCallArithmetic ==
  ASSUME NEW sp, NEW fp, NEW ap, NEW k, NEW n, NEW o,
         sp > fp + 1 + k + n, fp = ap + o + 4,
         sp \in Nat, fp \in Nat, ap \in Nat, k \in Nat, n \in Nat, o \in Nat
  PROVE  ap + 4 <= fp /\ fp < sp /\ ap <= sp - n - 1 /\ 0 \in Int
OBVIOUS

LEMMA TailSizes ==
  ASSUME NEW ap \in Nat, NEW n \in Nat, NEW l \in Nat, ap + n + 4 <= StackSize
  PROVE  /\ ap + n + 4 = ap + n + 4 /\ ap + n + 4 + l < ap + n + l + 5
         /\ ap + n + l + 5 > StackSize + Slack => l >= Slack
BY StackAssumption

LEMMA LinkedTailCall ==
  ASSUME NEW r, NEW as, Linked(r, as), as # <<>>,
         NEW n \in 0 .. MaxArgs, NEW l \in 0 .. MaxLocals,
         r.sp > r.fp + 1 + Last(as).locals + n, r.ap + n + 4 <= StackSize
  PROVE  LET b == BC_TCALL(r, 0, n, l)
             c == Clean(b)
             q == Append(Front(as), Activated(c, Last(as).ret, n, l))
         IN b.sp = r.ap + n + l + 5 /\ (Allocated(b) => Linked(c, q) /\ q # <<>>)
<1> DEFINE c == BC_TCALL(r, 0, n, l)
           rt == Last(as).ret
           a == Activated(c, rt, n, l)
           f == Front(as)
           k == Last(as).locals
           o == Last(as).args
<1>1. /\ r \in Machine /\ as \in Acts
      /\ r.sp \in Nat /\ r.ap \in Nat /\ r.fp \in Nat /\ k \in Nat /\ o \in Nat
      /\ r.fp = r.ap + o + 4 /\ r.sp <= StackSize + Slack
  BY LinkedFacts, Zenon
<1>2. n \in Nat /\ l \in Nat /\ n \in 0 .. MaxArgs + 1
  BY FramesAssumption, StackAssumption
<1>3. r.sp > r.fp + 1 + k + n
  OBVIOUS
<1>. HIDE DEF k, o
<1>4. r.ap + 4 <= r.fp /\ r.fp < r.sp /\ r.ap <= r.sp - n - 1 /\ 0 \in Int
  BY <1>1, <1>2, <1>3, TailCallArithmetic, Zenon
<1>5. TailCalled(c, r, n, l)
  BY <1>1, <1>2, <1>4, TailCallFacts, Zenon
<1>. HIDE DEF c
<1>6. /\ c \in Machine
      /\ c.sp = r.ap + n + l + 5 /\ c.ap = r.ap /\ c.fp = r.ap + n + 4
      /\ c.stack[c.fp - 3] = r.stack[r.fp - 3]
      /\ c.stack[c.fp - 2] = r.stack[r.fp - 2]
      /\ c.stack[c.fp - 1] = r.stack[r.fp - 1]
      /\ \A i \in Index : i < r.ap => c.stack[i] = r.stack[i]
  BY <1>5, Zenon DEF TailCalled
<1>7. /\ r.stack[r.fp - 3] = Last(as).ret
      /\ r.stack[r.fp - 2] = IF f = <<>> THEN 0 ELSE Last(f).ap
      /\ r.stack[r.fp - 1] = IF f = <<>> THEN 0 ELSE Last(f).fp
      /\ Last(as).ret = NATIVE <=> f = <<>>
      /\ f # <<>> => Last(f).fp + Last(f).locals < r.ap
      /\ f = <<>> => r.ap = 0
      /\ f \in Acts /\ Chain(r.stack, f)
      /\ Last(as).ret \in Addresses \cup {NATIVE}
  BY SavedFacts, Zenon
<1>8. \A i \in SavedCells(f) : c.stack[i] = r.stack[i]
  BY <1>6, FrontCells, Zenon
<1>. HIDE DEF f, rt
<1>9. a \in Act /\ a.args = n /\ a.locals = l /\ a.ret = rt /\ a.fp = c.fp /\ a.ap = c.ap
  <2>1. rt \in Addresses \cup {NATIVE}
    BY <1>7 DEF rt
  <2>2. c \in Machine
    BY <1>6
  <2>3. Describes(a, c, rt, n, l)
    BY <1>2, <2>1, <2>2, ActivatedFacts, Zenon
  <2>. QED
    BY <2>3, Zenon DEF Describes
<1>. HIDE DEF a
<1>. SUFFICES ASSUME Allocated(c)
              PROVE  LET e == Clean(c)
                         q == Append(f, Activated(e, Last(as).ret, n, l))
                     IN Linked(e, q) /\ q # <<>>
  BY <1>6, Zenon DEF c, f
<1>10. c.fp + a.locals < c.sp /\ c.sp <= StackSize + Slack
  <2>1. c.sp <= StackSize + Slack
    BY Zenon DEF Allocated
  <2>2. r.ap + n + 4 + l < r.ap + n + l + 5
    BY <1>1, <1>2, TailSizes, Zenon
  <2>. QED
    BY <1>6, <1>9, <2>1, <2>2, Zenon
<1>11. c.fp = c.ap + a.args + 4
  BY <1>6, <1>9, Zenon
<1>12. /\ c.stack[c.fp - 3] = a.ret
       /\ c.stack[c.fp - 2] = IF f = <<>> THEN 0 ELSE Last(f).ap
       /\ c.stack[c.fp - 1] = IF f = <<>> THEN 0 ELSE Last(f).fp
       /\ a.ret = NATIVE <=> f = <<>>
       /\ f # <<>> => Last(f).fp + Last(f).locals < c.ap
       /\ f = <<>> => c.ap = 0
  BY <1>6, <1>7, <1>9, Zenon DEF rt
<1>13. Linked(c, Append(f, a)) /\ Append(f, a) # <<>>
  BY <1>6, <1>7, <1>8, <1>9, <1>10, <1>11, <1>12, LinkedExtend
<1>14. Linked(Clean(c), Append(f, a))
  BY <1>13, LinkedClean, Zenon
<1>15. Activated(Clean(c), Last(as).ret, n, l) = a
  BY <1>6, CleanFacts, Zenon DEF Activated, a, rt
<1>. QED
  BY <1>13, <1>14, <1>15, Zenon

LEMMA LeaveArithmetic ==
  ASSUME NEW ap, NEW fp, NEW sp, NEW o, NEW k, NEW size,
         fp = ap + o + 4, fp + k < sp, sp <= size,
         ap \in Nat, fp \in Nat, sp \in Nat, o \in Nat, k \in Nat, size \in Nat
  PROVE  ap < size
OBVIOUS

LEMMA LinkedLeave ==
  ASSUME NEW r, NEW as, Linked(r, as), as # <<>>
  PROVE  /\ Leave(r) \in Machine
         /\ Leave(r).sp = r.ap /\ r.ap < StackSize + Slack
         /\ Leave(r).ip = NATIVE <=> Front(as) = <<>>
         /\ Front(as) = <<>> => Leave(r).sp = 0 /\ Leave(r).ap = 0 /\ Leave(r).fp = 0
         /\ Front(as) # <<>> => Linked(Leave(r), Front(as))
<1> DEFINE c == Leave(r)
           f == Front(as)
           k == Last(as).locals
           o == Last(as).args
<1>1. /\ r \in Machine /\ as \in Acts
      /\ r.sp \in Nat /\ r.ap \in Nat /\ r.fp \in Nat /\ k \in Nat /\ o \in Nat
      /\ r.fp = r.ap + o + 4 /\ r.sp <= StackSize + Slack /\ r.fp + k < r.sp
  BY LinkedFacts, Zenon
<1>2. /\ r.stack[r.fp - 3] = Last(as).ret
      /\ r.stack[r.fp - 2] = IF f = <<>> THEN 0 ELSE Last(f).ap
      /\ r.stack[r.fp - 1] = IF f = <<>> THEN 0 ELSE Last(f).fp
      /\ Last(as).ret = NATIVE <=> f = <<>>
      /\ f # <<>> => Last(f).fp + Last(f).locals < r.ap
      /\ f = <<>> => r.ap = 0
      /\ f \in Acts /\ Chain(r.stack, f)
      /\ Last(as) \in Act
  BY SavedFacts, Zenon
<1>3. f # <<>> => Last(f).ap \in Nat /\ Last(f).fp \in Nat
  BY <1>2, NonEmpty, ActFacts, Zenon
<1>4. Last(as).ret \in Int
  <2>1. Last(as).ret \in Addresses \cup {NATIVE}
    BY <1>2 DEF Act
  <2>2. Addresses \cup {NATIVE} \subseteq Int
    BY FramesAssumption DEF NATIVE
  <2>. QED
    BY <2>1, <2>2
<1>5. 0 \in Nat
  OBVIOUS
<1>. HIDE DEF f
<1>6. /\ r.stack[r.fp - 3] \in Int /\ r.stack[r.fp - 2] \in Nat /\ r.stack[r.fp - 1] \in Nat
  BY <1>2, <1>3, <1>4, <1>5, Zenon
<1>7. /\ c \in Machine
      /\ c.stack = r.stack /\ c.sp = r.ap /\ c.ip = Last(as).ret
      /\ c.ap = r.stack[r.fp - 2] /\ c.fp = r.stack[r.fp - 1]
  BY <1>1, <1>2, <1>6, LeaveFacts
<1>. HIDE DEF c, k, o
<1>8. r.ap < StackSize + Slack
  <2> DEFINE size == StackSize + Slack
  <2>1. size \in Nat
    BY StackAssumption
  <2>2. r.sp <= size
    BY <1>1
  <2>. HIDE DEF size
  <2>3. r.ap < size
    BY <1>1, <2>1, <2>2, LeaveArithmetic, Zenon
  <2>. QED
    BY <2>3 DEF size
<1>9. c.ip = NATIVE <=> f = <<>>
  BY <1>2, <1>7, Zenon
<1>10. f = <<>> => c.sp = 0 /\ c.ap = 0 /\ c.fp = 0
  BY <1>2, <1>7, Zenon
<1>11. f # <<>> => c.ap = Last(f).ap /\ c.fp = Last(f).fp /\ Last(f).fp + Last(f).locals < c.sp
  BY <1>2, <1>7, Zenon
<1>12. f # <<>> => Registers(c, f)
  BY <1>11, Zenon DEF Registers, Last
<1>13. c.sp <= StackSize + Slack
  BY <1>1, <1>7, <1>8, StackAssumption
<1>14. f # <<>> => Linked(c, f)
  BY <1>2, <1>7, <1>12, <1>13, Zenon DEF Linked
<1>. QED
  BY <1>7, <1>8, <1>9, <1>10, <1>14, Zenon DEF c, f

-----------------------------------------------------------------------------
(* The invariant, one step at a time.                                      *)

LEMMA InvLinked ==
  ASSUME IInv, status = "run"
  PROVE  Linked(m, acts) /\ acts # <<>>
BY DEF IInv, TypeOK, Linked, Acts, Act

LEMMA LinkedInv ==
  ASSUME Linked(m', acts'), acts' # <<>>, status' \in {"run", "overflow", "overrun"}
  PROVE  IInv'
<1>1. /\ m' \in Machine /\ acts' \in Acts
      /\ Chain(m'.stack, acts') /\ Registers(m', acts')
      /\ m'.sp <= StackSize + Slack
  BY DEF Linked
<1>2. TypeOK'
  BY <1>1 DEF TypeOK, Acts, Act
<1>3. status' # "halted"
  OBVIOUS
<1>. QED
  BY <1>1, <1>2, <1>3, Zenon DEF IInv

LEMMA EmptyInv ==
  ASSUME m' \in Machine, acts' = <<>>, status' \in {"halted", "unhandled"},
         m'.sp <= StackSize + Slack,
         status' = "halted" => m'.sp = 1 /\ m'.ap = 0 /\ m'.fp = 0
  PROVE  IInv'
<1>1. acts' \in Acts /\ Len(acts') = 0
  BY EmptySeq, Zenon DEF Acts
<1>2. TypeOK'
  BY <1>1 DEF TypeOK, Acts, Act
<1>3. \A k \in 1 .. 0 : FALSE
  OBVIOUS
<1>4. Chain(m'.stack, acts')
  BY <1>1, <1>3, Zenon DEF Chain
<1>5. Registers(m', acts')
  BY Zenon DEF Registers
<1>6. status' \notin {"run", "overflow", "overrun"}
  OBVIOUS
<1>. QED
  BY <1>2, <1>4, <1>5, <1>6, Zenon DEF IInv

LEMMA TopArithmetic ==
  ASSUME NEW sp, NEW fp, NEW ap, NEW o, NEW k, NEW size,
         fp = ap + o + 4, fp + k < sp, sp <= size,
         sp \in Nat, fp \in Nat, ap \in Nat, o \in Nat, k \in Nat, size \in Nat
  PROVE  sp - 1 \in 0 .. size - 1 /\ fp - 4 \in 0 .. size - 1 /\ fp < sp
OBVIOUS

\* The operands of the running frame are cells of the stack.
LEMMA TopFacts ==
  ASSUME NEW r, NEW as, Linked(r, as), as # <<>>
  PROVE  /\ Top(r) \in Cell /\ This(r) \in Cell
         /\ r.sp \in Nat /\ r.ap \in Nat /\ r.fp \in Nat
         /\ r.fp < r.sp /\ r.sp <= StackSize + Slack
<1> DEFINE k == Last(as).locals
           o == Last(as).args
           size == StackSize + Slack
<1>1. /\ r \in Machine /\ r.sp \in Nat /\ r.ap \in Nat /\ r.fp \in Nat /\ k \in Nat /\ o \in Nat
      /\ r.fp = r.ap + o + 4 /\ r.sp <= size /\ r.fp + k < r.sp
  BY LinkedFacts, Zenon
<1>2. size \in Nat /\ Index = 0 .. size - 1
  BY StackAssumption DEF Index
<1>. HIDE DEF k, o, size
<1>3. r.sp - 1 \in 0 .. size - 1 /\ r.fp - 4 \in 0 .. size - 1 /\ r.fp < r.sp
  BY <1>1, <1>2, TopArithmetic, Zenon
<1>4. r.stack \in [Index -> Cell]
  BY <1>1 DEF Machine, Index, Cell
<1>5. Top(r) \in Cell /\ This(r) \in Cell
  BY <1>2, <1>3, <1>4, Zenon DEF Top, This
<1>. QED
  BY <1>1, <1>3, <1>5, Zenon DEF size

\* The machine that vm_call_main starts with.
Started(c, v, l) ==
  /\ c \in Machine /\ c.sp = l + 6 /\ c.ap = 0 /\ c.fp = 5
  /\ c.stack[0] = v /\ c.stack[1] = v
  /\ c.stack[2] = NATIVE /\ c.stack[3] = 0 /\ c.stack[4] = 0
  /\ \A i \in Index : 5 <= i /\ i < l + 6 => c.stack[i] = Null

LEMMA MainFacts ==
  ASSUME NEW v \in Values, NEW l \in 0 .. MaxLocals
  PROVE  LET c == Main(v, l)
         IN Started(c, v, l) /\ Describes(Activated(c, NATIVE, 1, l), c, NATIVE, 1, l)
<1> DEFINE p == Push(Start, v)
           q == Push(p, v)
           c == BC_CALL(q, 0, NATIVE, 1, l)
<1>1. /\ StackSize \in Nat /\ Slack \in Nat /\ StackSize > 6 /\ l \in Nat
      /\ MaxArgs \in Nat
  BY StackAssumption, FramesAssumption
<1>2. Start \in Machine /\ Start.sp = 0 /\ Start.ap = 0 /\ Start.fp = 0
  <2>1. Stack0(Null) \in [0 .. StackSize + Slack - 1 -> Values \cup {Null} \cup Int]
    BY DEF Stack0
  <2>. QED
    BY <2>1 DEF Start, Machine
<1>3. v \in Cell
  BY DEF Cell
<1>4. p \in Machine /\ p.sp = 1 /\ p.ap = 0 /\ p.fp = 0 /\ p.stack[0] = v
  <2>1. 0 < StackSize + Slack /\ 0 + 1 = 1
    BY <1>1
  <2>. QED
    BY <1>2, <1>3, <2>1, PushFacts
<1>. HIDE DEF p
<1>5. q \in Machine /\ q.sp = 2 /\ q.ap = 0 /\ q.fp = 0 /\ q.stack[0] = v /\ q.stack[1] = v
  <2>1. 1 < StackSize + Slack /\ 1 + 1 = 2 /\ 0 \in Index
    BY <1>1 DEF Index
  <2>. QED
    BY <1>3, <1>4, <2>1, PushFacts
<1>. HIDE DEF q
<1>6. Called(c, q, NATIVE, 1, l)
  <2>1. q.sp + 3 <= StackSize /\ 1 + 1 <= q.sp /\ 0 \in Int /\ NATIVE \in Int /\ 1 \in Nat
    BY <1>1, <1>5 DEF NATIVE
  <2>. QED
    BY <1>1, <1>5, <2>1, CallFacts, Zenon
<1>. HIDE DEF c
<1>7. Started(c, v, l)
  <2>1. 2 + l + 4 = l + 6 /\ 2 - 1 - 1 = 0 /\ 2 + 3 = 5 /\ 2 + 1 = 3 /\ 2 + 2 = 4
    BY <1>1
  <2>2. /\ c \in Machine /\ c.sp = l + 6 /\ c.ap = 0 /\ c.fp = 5
        /\ c.stack[2] = NATIVE /\ c.stack[3] = 0 /\ c.stack[4] = 0
    BY <1>5, <1>6, <2>1, Zenon DEF Called
  <2>3. 0 \in Index /\ 0 < 2 /\ 1 \in Index /\ 1 < 2
    BY <1>1 DEF Index
  <2>4. c.stack[0] = v /\ c.stack[1] = v
    BY <1>5, <1>6, <2>3, Zenon DEF Called
  <2>5. \A i \in Index : 5 <= i /\ i < l + 6 => c.stack[i] = Null
    BY <1>6, <2>2, Zenon DEF Called
  <2>. QED
    BY <2>2, <2>4, <2>5, Zenon DEF Started
<1>8. Describes(Activated(c, NATIVE, 1, l), c, NATIVE, 1, l)
  <2>1. 1 \in 0 .. MaxArgs + 1 /\ NATIVE \in Addresses \cup {NATIVE}
    BY <1>1
  <2>. QED
    BY <1>7, <2>1, ActivatedFacts, Zenon DEF Started
<1>. QED
  BY <1>7, <1>8, Zenon DEF c, q, p, Main

\* main has been called with the locals that it has, or stands where they begin.
LEMMA InitFacts ==
  ASSUME Init
  PROVE  /\ \E v \in Values, k \in 0 .. MaxLocals :
              /\ m = Main(v, k) /\ acts = <<Activated(m, NATIVE, 1, k)>>
              /\ Allocated(Main(v, k))
         /\ status \in {"run", "overrun"}
         /\ status = "overrun" => MaxLocals >= Slack
<1>1. PICK v \in Values, l \in 0 .. MaxLocals :
        LET k == IF Allocated(Main(v, l)) THEN l ELSE 0 IN
        /\ m = Main(v, k) /\ acts = <<Activated(m, NATIVE, 1, k)>>
        /\ status = IF k = l THEN "run" ELSE "overrun"
  BY Zenon DEF Init
<1> DEFINE k == IF Allocated(Main(v, l)) THEN l ELSE 0
<1>2. /\ StackSize \in Nat /\ Slack \in Nat /\ StackSize > 6
      /\ MaxLocals \in Nat /\ l \in Nat /\ 0 \in 0 .. MaxLocals /\ l <= MaxLocals
  BY StackAssumption, FramesAssumption
<1>3. Main(v, l).sp = l + 6 /\ Main(v, 0).sp = 0 + 6
  BY <1>2, MainFacts, Zenon DEF Started
<1>4. Allocated(Main(v, 0)) /\ (~Allocated(Main(v, l)) => l >= Slack)
  BY <1>2, <1>3 DEF Allocated
<1>5. k \in 0 .. MaxLocals /\ Allocated(Main(v, k))
  BY <1>2, <1>4
<1>6. k # l => MaxLocals >= Slack
  BY <1>2, <1>4
<1>7. /\ m = Main(v, k) /\ acts = <<Activated(m, NATIVE, 1, k)>>
      /\ status = IF k = l THEN "run" ELSE "overrun"
  BY <1>1, Zenon
<1>. HIDE DEF k
<1>. QED
  BY <1>5, <1>6, <1>7

LEMMA InitStep == Init => IInv
<1>. SUFFICES ASSUME NEW v \in Values, NEW l \in 0 .. MaxLocals, Allocated(Main(v, l)),
                     m = Main(v, l),
                     acts = <<Activated(m, NATIVE, 1, l)>>,
                     status \in {"run", "overrun"}
              PROVE  IInv
  BY InitFacts
<1> DEFINE c == Main(v, l)
           a == Activated(c, NATIVE, 1, l)
<1>1. l \in Nat
  OBVIOUS
<1>1a. c.sp <= StackSize + Slack
  BY DEF Allocated
<1>2. Started(c, v, l) /\ Describes(a, c, NATIVE, 1, l)
  BY MainFacts
<1>. HIDE DEF c, a
<1>7. /\ c \in Machine /\ c.sp = l + 6 /\ c.ap = 0 /\ c.fp = 5
      /\ c.stack[2] = NATIVE /\ c.stack[3] = 0 /\ c.stack[4] = 0
  BY <1>2, Zenon DEF Started
<1>8. a \in Act /\ a.args = 1 /\ a.locals = l /\ a.ret = NATIVE /\ a.fp = c.fp /\ a.ap = c.ap
  BY <1>2, Zenon DEF Describes
<1>9. /\ c.fp = c.ap + a.args + 4
      /\ c.stack[c.fp - 3] = a.ret /\ c.stack[c.fp - 2] = 0 /\ c.stack[c.fp - 1] = 0
      /\ c.fp + a.locals < c.sp /\ c.sp <= StackSize + Slack
  <2>1. 5 = 0 + 1 + 4 /\ 5 - 3 = 2 /\ 5 - 2 = 3 /\ 5 - 1 = 4
    OBVIOUS
  <2>2. 5 + l < l + 6
    BY <1>1
  <2>. QED
    BY <1>1a, <1>7, <1>8, <2>1, <2>2, Zenon
<1>10. /\ <<>> \in Acts /\ Len(<<>>) = 0
  BY EmptySeq, Zenon DEF Acts
<1>11. SavedCells(<<>>) = {} /\ Chain(c.stack, <<>>)
  BY <1>10 DEF SavedCells, Chain
<1>12. Append(<<>>, a) = <<a>>
  OBVIOUS
<1>13. Linked(c, <<a>>) /\ <<a>> # <<>>
  BY <1>7, <1>8, <1>9, <1>10, <1>11, <1>12, LinkedExtend
<1>14. /\ c \in Machine /\ <<a>> \in Acts /\ <<a>> # <<>>
       /\ Chain(c.stack, <<a>>) /\ Registers(c, <<a>>)
       /\ c.sp <= StackSize + Slack
  BY <1>13, Zenon DEF Linked
<1>15. m = c /\ acts = <<a>>
  BY DEF a, c
<1>16. TypeOK
  BY <1>14, <1>15 DEF TypeOK, Acts, Act
<1>. QED
  BY <1>14, <1>15, <1>16 DEF IInv

LEMMA LoadStep ==
  ASSUME IInv, NEW v \in Values, Load(v)
  PROVE  IInv'
<1>1. status = "run" /\ Linked(m, acts) /\ acts # <<>>
  BY InvLinked DEF Load
<1>2. CASE Overflow
  BY <1>1, <1>2, LinkedInv DEF Overflow
<1>3. CASE m.sp < StackSize /\ m' = Push(m, v) /\ UNCHANGED <<acts, status>>
  <2>1. v \in Cell
    BY DEF Cell
  <2>2. m.sp < StackSize + Slack
    BY <1>1, <1>3, TopFacts, StackAssumption
  <2>3. Linked(Push(m, v), acts)
    BY <1>1, <2>1, <2>2, LinkedPush, Zenon
  <2>. QED
    BY <1>1, <1>3, <2>3, LinkedInv
<1>4. m.sp \in Nat
  BY <1>1, TopFacts, Zenon
<1>5. m.sp >= StackSize \/ m.sp < StackSize
  BY <1>4, StackAssumption
<1>. QED
  BY <1>2, <1>3, <1>5 DEF Load

LEMMA DropStep ==
  ASSUME IInv, Drop
  PROVE  IInv'
<1>1. status = "run" /\ Linked(m, acts) /\ acts # <<>>
  BY InvLinked DEF Drop
<1>2. m.sp > m.fp + 1 + Last(acts).locals
  BY DEF Drop, Operands, Running
<1>3. Linked(Clean(Pop(m)), acts)
  BY <1>1, <1>2, LinkedPop, LinkedClean, Zenon
<1>. QED
  BY <1>1, <1>3, LinkedInv DEF Drop

LEMMA StoreStep ==
  ASSUME IInv, status = "run", NEW slot \in Index, Store(slot),
         m.fp <= slot \/ (m.ap <= slot /\ slot <= m.ap + Last(acts).args)
  PROVE  IInv'
<1> DEFINE c == Written(m, slot, Top(m))
<1>1. Linked(m, acts) /\ acts # <<>>
  BY InvLinked
<1>2. m.sp > m.fp + 1 + Last(acts).locals
  BY DEF Store, Operands, Running
<1>3. Top(m) \in Cell
  BY <1>1, TopFacts, Zenon
<1>4. Linked(c, acts) /\ c.sp = m.sp /\ c.fp = m.fp
  BY <1>1, <1>3, LinkedStore, Zenon
<1>5. m' = Clean(Pop(c)) /\ acts' = acts /\ status' = status
  BY DEF Store, Written
<1>. HIDE DEF c
<1>6. Linked(Clean(Pop(c)), acts)
  BY <1>1, <1>2, <1>4, LinkedPop, LinkedClean, Zenon
<1>. QED
  BY <1>1, <1>5, <1>6, LinkedInv

LEMMA SlotArithmetic ==
  ASSUME NEW sp, NEW fp, NEW ap, NEW o, NEW k, NEW size, NEW i,
         fp = ap + o + 4, fp + k < sp, sp <= size, i >= 1, i \in Nat,
         sp \in Nat, fp \in Nat, ap \in Nat, o \in Nat, k \in Nat, size \in Nat
  PROVE  /\ i <= o => ap + i - 1 \in 0 .. size - 1 /\ ap <= ap + i - 1 /\ ap + i - 1 <= ap + o
         /\ i <= k => fp + i \in 0 .. size - 1 /\ fp <= fp + i
OBVIOUS

LEMMA SlotFacts ==
  ASSUME NEW r, NEW as, Linked(r, as), as # <<>>, NEW i \in Nat, i >= 1
  PROVE  /\ i <= Last(as).args => /\ r.ap + i - 1 \in Index /\ r.ap <= r.ap + i - 1
                                  /\ r.ap + i - 1 <= r.ap + Last(as).args
         /\ i <= Last(as).locals => r.fp + i \in Index /\ r.fp <= r.fp + i
<1> DEFINE k == Last(as).locals
           o == Last(as).args
           size == StackSize + Slack
<1>1. /\ r.sp \in Nat /\ r.ap \in Nat /\ r.fp \in Nat /\ k \in Nat /\ o \in Nat
      /\ r.fp = r.ap + o + 4 /\ r.sp <= size /\ r.fp + k < r.sp
  BY LinkedFacts, Zenon
<1>2. size \in Nat /\ Index = 0 .. size - 1
  BY StackAssumption DEF Index
<1>. HIDE DEF k, o, size
<1>3. /\ i <= o => /\ r.ap + i - 1 \in 0 .. size - 1 /\ r.ap <= r.ap + i - 1
                   /\ r.ap + i - 1 <= r.ap + o
      /\ i <= k => r.fp + i \in 0 .. size - 1 /\ r.fp <= r.fp + i
  BY <1>1, <1>2, SlotArithmetic, ZenonT(40)
<1>. QED
  BY <1>2, <1>3, Zenon DEF k, o

LEMMA StoreArgStep ==
  ASSUME IInv, NEW i \in 1 .. MaxArgs, StoreArg(i)
  PROVE  IInv'
<1>1. status = "run" /\ Linked(m, acts) /\ acts # <<>> /\ i <= Last(acts).args
  BY InvLinked DEF StoreArg, Running
<1>2. i \in Nat /\ i >= 1
  BY FramesAssumption
<1>3. /\ m.ap + i - 1 \in Index /\ m.ap <= m.ap + i - 1
      /\ m.ap + i - 1 <= m.ap + Last(acts).args
  BY <1>1, <1>2, SlotFacts, Zenon
<1>. QED
  BY <1>1, <1>3, StoreStep, Zenon DEF StoreArg

LEMMA StoreLocalStep ==
  ASSUME IInv, NEW i \in 1 .. MaxLocals, StoreLocal(i)
  PROVE  IInv'
<1>1. status = "run" /\ Linked(m, acts) /\ acts # <<>> /\ i <= Last(acts).locals
  BY InvLinked DEF StoreLocal, Running
<1>2. i \in Nat /\ i >= 1
  BY FramesAssumption
<1>3. m.fp + i \in Index /\ m.fp <= m.fp + i
  BY <1>1, <1>2, SlotFacts, Zenon
<1>. QED
  BY <1>1, <1>3, StoreStep, Zenon DEF StoreLocal

LEMMA CallStep ==
  ASSUME IInv,
         NEW ret \in Addresses, NEW n \in 0 .. MaxArgs, NEW l \in 0 .. MaxLocals,
         Call(ret, n, l)
  PROVE  IInv' /\ (status' = "overrun" => l >= Slack)
<1>1. status = "run" /\ Linked(m, acts) /\ acts # <<>>
  BY InvLinked DEF Call
<1>2. m.sp > m.fp + 1 + Last(acts).locals + n
  BY DEF Call, Operands, Running
<1>3. CASE Overflow
  BY <1>1, <1>3, LinkedInv DEF Overflow
<1>4. CASE /\ m.sp + 3 <= StackSize /\ Allocated(BC_CALL(m, 0, ret, n, l))
           /\ m' = BC_CALL(m, 0, ret, n, l)
           /\ acts' = Append(acts, Activated(m', ret, n, l))
           /\ UNCHANGED status
  <2> DEFINE c == BC_CALL(m, 0, ret, n, l)
             q == Append(acts, Activated(c, ret, n, l))
  <2>1. Linked(c, q) /\ q # <<>>
    BY <1>1, <1>2, <1>4, LinkedCall, Zenon
  <2>2. m' = c /\ acts' = q
    BY <1>4
  <2>. HIDE DEF c, q
  <2>. QED
    BY <1>1, <1>4, <2>1, <2>2, LinkedInv
<1>5. m.sp \in Nat
  BY <1>1, TopFacts, Zenon
<1>6. m.sp + 3 > StackSize \/ m.sp + 3 <= StackSize
  BY <1>5, StackAssumption
<1>7. CASE m.sp + 3 <= StackSize /\ ~Allocated(BC_CALL(m, 0, ret, n, l)) /\ Overrun
  <2>1. BC_CALL(m, 0, ret, n, l).sp = m.sp + l + 4
    BY <1>1, <1>2, <1>7, LinkedCall, Zenon
  <2>2. m.sp + l + 4 > StackSize + Slack
    BY <1>5, <1>7, <2>1, StackAssumption DEF Allocated
  <2>3. l >= Slack
    BY <1>5, <1>7, <2>2, CallSizes
  <2>. QED
    BY <1>1, <1>7, <2>3, LinkedInv DEF Overrun
<1>. QED
  BY <1>3, <1>4, <1>6, <1>7 DEF Call

LEMMA TailCallStep ==
  ASSUME IInv, NEW n \in 0 .. MaxArgs, NEW l \in 0 .. MaxLocals, TailCall(n, l)
  PROVE  IInv' /\ (status' = "overrun" => l >= Slack)
<1>1. status = "run" /\ Linked(m, acts) /\ acts # <<>>
  BY InvLinked DEF TailCall
<1>2. m.sp > m.fp + 1 + Last(acts).locals + n
  BY DEF TailCall, Operands, Running
<1>3. CASE Overflow
  BY <1>1, <1>3, LinkedInv DEF Overflow
<1>4. CASE /\ m.ap + n + 4 <= StackSize /\ Allocated(BC_TCALL(m, 0, n, l))
           /\ m' = Clean(BC_TCALL(m, 0, n, l))
           /\ acts' = Append(Front(acts), Activated(m', Running.ret, n, l))
           /\ UNCHANGED status
  <2> DEFINE c == Clean(BC_TCALL(m, 0, n, l))
             q == Append(Front(acts), Activated(c, Last(acts).ret, n, l))
  <2>1. Linked(c, q) /\ q # <<>>
    BY <1>1, <1>2, <1>4, LinkedTailCall, Zenon
  <2>2. m' = c /\ acts' = q
    BY <1>4 DEF Running
  <2>. HIDE DEF c, q
  <2>. QED
    BY <1>1, <1>4, <2>1, <2>2, LinkedInv
<1>5. m.ap \in Nat /\ n \in Nat
  BY <1>1, TopFacts
<1>6. m.ap + n + 4 > StackSize \/ m.ap + n + 4 <= StackSize
  BY <1>5, StackAssumption
<1>7. CASE m.ap + n + 4 <= StackSize /\ ~Allocated(BC_TCALL(m, 0, n, l)) /\ Overrun
  <2>1. BC_TCALL(m, 0, n, l).sp = m.ap + n + l + 5
    BY <1>1, <1>2, <1>7, LinkedTailCall, Zenon
  <2>2. m.ap + n + l + 5 > StackSize + Slack
    BY <1>5, <1>7, <2>1, StackAssumption DEF Allocated
  <2>3. l >= Slack
    BY <1>5, <1>7, <2>2, TailSizes
  <2>. QED
    BY <1>1, <1>7, <2>3, LinkedInv DEF Overrun
<1>. QED
  BY <1>3, <1>4, <1>6, <1>7 DEF TailCall

(* RET and RET_SELF: the caller's frame is the running one again, with the *)
(* returned value on top.                                                  *)
LEMMA ReturnStep ==
  ASSUME IInv, status = "run", NEW v \in Cell, Leaving(Push(Leave(m), v))
  PROVE  IInv'
<1> DEFINE c == Leave(m)
           f == Front(acts)
           p == Push(c, v)
           d == Clean(p)
<1>1. Linked(m, acts) /\ acts # <<>>
  BY InvLinked
<1>2. /\ c \in Machine /\ c.sp = m.ap /\ m.ap < StackSize + Slack
      /\ c.ip = NATIVE <=> f = <<>>
      /\ f = <<>> => c.sp = 0 /\ c.ap = 0 /\ c.fp = 0
      /\ f # <<>> => Linked(c, f)
  BY <1>1, LinkedLeave, Zenon
<1>3. m' = d /\ acts' = f /\ status' = IF p.ip = NATIVE THEN "halted" ELSE "run"
  BY DEF Leaving
<1>. HIDE DEF c, f
<1>4. p \in Machine /\ p.sp = c.sp + 1 /\ p.ap = c.ap /\ p.fp = c.fp /\ p.ip = c.ip
  BY <1>2, PushFacts
<1>5. f # <<>> => Linked(p, f)
  BY <1>2, LinkedPush, Zenon
<1>. HIDE DEF p
<1>6. f # <<>> => Linked(d, f)
  BY <1>5, LinkedClean, Zenon
<1>7. d \in Machine /\ d.sp = p.sp /\ d.ap = p.ap /\ d.fp = p.fp
  BY <1>4, CleanFacts, Zenon
<1>. HIDE DEF d
<1>8. CASE f # <<>>
  <2>1. status' = "run"
    BY <1>2, <1>3, <1>4, <1>8
  <2>. QED
    BY <1>3, <1>6, <1>8, <2>1, LinkedInv
<1>9. CASE f = <<>>
  <2>1. status' = "halted"
    BY <1>2, <1>3, <1>4, <1>9
  <2>2. d.sp = 1 /\ d.ap = 0 /\ d.fp = 0
    BY <1>2, <1>4, <1>7, <1>9
  <2>3. 1 <= StackSize + Slack
    BY StackAssumption, FramesAssumption
  <2>. QED
    BY <1>3, <1>7, <1>9, <2>1, <2>2, <2>3, EmptyInv
<1>. QED
  BY <1>8, <1>9

LEMMA UnwindStep ==
  ASSUME IInv, Unwind
  PROVE  IInv'
<1> DEFINE c == Leave(m)
           f == Front(acts)
           d == Clean(c)
<1>1. Linked(m, acts) /\ acts # <<>>
  BY InvLinked DEF Unwind
<1>2. /\ c \in Machine /\ c.sp = m.ap /\ m.ap < StackSize + Slack
      /\ c.ip = NATIVE <=> f = <<>>
      /\ f = <<>> => c.sp = 0 /\ c.ap = 0 /\ c.fp = 0
      /\ f # <<>> => Linked(c, f)
  BY <1>1, LinkedLeave, Zenon
<1>3. m' = d /\ acts' = f /\ status' = IF c.ip = NATIVE THEN "unhandled" ELSE "run"
  BY DEF Unwind
<1>. HIDE DEF c, f
<1>4. f # <<>> => Linked(d, f)
  BY <1>2, LinkedClean, Zenon
<1>5. d \in Machine /\ d.sp = c.sp
  BY <1>2, CleanFacts, Zenon
<1>. HIDE DEF d
<1>6. CASE f # <<>>
  <2>1. status' = "run"
    BY <1>2, <1>3, <1>6
  <2>. QED
    BY <1>3, <1>4, <1>6, <2>1, LinkedInv
<1>7. CASE f = <<>>
  <2>1. status' = "unhandled"
    BY <1>2, <1>3, <1>7
  <2>2. d.sp = 0
    BY <1>2, <1>5, <1>7
  <2>3. 0 <= StackSize + Slack
    BY StackAssumption
  <2>. QED
    BY <1>3, <1>5, <1>7, <2>1, <2>2, <2>3, EmptyInv
<1>. QED
  BY <1>6, <1>7

LEMMA StutterStep ==
  ASSUME IInv, UNCHANGED vars
  PROVE  IInv'
BY DEF vars, IInv, TypeOK, Chain, Saved, Above, Registers

LEMMA NextStep ==
  ASSUME IInv, [Next]_vars
  PROVE  IInv'
<1>1. ASSUME NEW v \in Values, Load(v) PROVE IInv'
  BY <1>1, LoadStep
<1>2. ASSUME Drop PROVE IInv'
  BY <1>2, DropStep
<1>3. ASSUME NEW i \in 1 .. MaxArgs, StoreArg(i) PROVE IInv'
  BY <1>3, StoreArgStep
<1>4. ASSUME NEW i \in 1 .. MaxLocals, StoreLocal(i) PROVE IInv'
  BY <1>4, StoreLocalStep
<1>5. ASSUME NEW ret \in Addresses, NEW n \in 0 .. MaxArgs, NEW l \in 0 .. MaxLocals,
             Call(ret, n, l)
      PROVE  IInv'
  BY <1>5, CallStep, Zenon
<1>6. ASSUME NEW n \in 0 .. MaxArgs, NEW l \in 0 .. MaxLocals, TailCall(n, l) PROVE IInv'
  BY <1>6, TailCallStep, Zenon
<1>7. ASSUME Ret PROVE IInv'
  <2>1. status = "run" /\ Leaving(Push(Leave(m), Top(m)))
    BY <1>7 DEF Ret, BC_RET
  <2>2. Top(m) \in Cell
    BY <2>1, InvLinked, TopFacts, Zenon
  <2>. QED
    BY <2>1, <2>2, ReturnStep, Zenon
<1>8. ASSUME RetSelf PROVE IInv'
  <2>1. status = "run" /\ Leaving(Push(Leave(m), This(m)))
    BY <1>8 DEF RetSelf, BC_RET_SELF
  <2>2. This(m) \in Cell
    BY <2>1, InvLinked, TopFacts, Zenon
  <2>. QED
    BY <2>1, <2>2, ReturnStep, Zenon
<1>9. ASSUME Unwind PROVE IInv'
  BY <1>9, UnwindStep
<1>10. ASSUME UNCHANGED vars PROVE IInv'
  BY <1>10, StutterStep
<1>. QED
  BY <1>1, <1>2, <1>3, <1>4, <1>5, <1>6, <1>7, <1>8, <1>9, <1>10, Zenon DEF Next

-----------------------------------------------------------------------------
(* The theorems.                                                           *)

(* The frames are laid out one above the other and each keeps the          *)
(* registers of the one below it (BC_CALL, BC_TCALL, BC_RET, UNWIND),      *)
(* until the locals of a method are written past the allocation.           *)
THEOREM Invariance == Spec => []IInv
<1>1. Init => IInv
  BY InitStep
<1>2. IInv /\ [Next]_vars => IInv'
  BY NextStep
<1>. QED
  BY <1>1, <1>2, PTL DEF Spec

(* The registers, the cells and the activations keep their types.          *)
THEOREM TypeCorrect == Spec => []TypeOK
<1>1. IInv => TypeOK
  BY DEF IInv
<1>. QED
  BY <1>1, Invariance, PTL

(* Only a method with Slack locals or more can make BC_CALL or BC_TCALL    *)
(* write past the allocation, however deep the stack is when it is called: *)
(* everything but the locals is pushed with a check.                       *)
THEOREM StackIsLargeEnough == Spec => FewLocalsFit
<1> DEFINE A == status' = "overrun" =>
                  \A n \in 0 .. MaxArgs, l \in 0 .. MaxLocals :
                    TailCall(n, l) \/ (\E ret \in Addresses : Call(ret, n, l)) => l >= Slack
<1>1. Init => (status = "overrun" => MaxLocals >= Slack)
  BY InitFacts
<1>2. IInv => [A]_vars
  BY CallStep, TailCallStep, Zenon
<1>. QED
  BY <1>1, <1>2, Invariance, PTL DEF Spec, FewLocalsFit

(* A return restores the registers that the caller had, at every depth and *)
(* after any sequence of calls and tail calls.                             *)
THEOREM RegistersAreSaved == Spec => []SavedRegisters
<1>1. ASSUME IInv, NEW k \in 1 .. Len(acts)
      PROVE  /\ acts[k].fp = acts[k].ap + acts[k].args + 4
             /\ m.stack[acts[k].fp - 3] = acts[k].ret
             /\ k > 1 =>
                  /\ m.stack[acts[k].fp - 2] = acts[k - 1].ap
                  /\ m.stack[acts[k].fp - 1] = acts[k - 1].fp
                  /\ acts[k - 1].fp + acts[k - 1].locals < acts[k].ap
             /\ k = Len(acts) => m.fp = acts[k].fp /\ m.ap = acts[k].ap
  <2> DEFINE n == Len(acts)
  <2>1. /\ \A j \in 1 .. n : Saved(m.stack, acts, j)
        /\ \A i, j \in 1 .. n : i < j => Above(acts, i, j)
        /\ acts # <<>> => m.fp = acts[n].fp /\ m.ap = acts[n].ap
    BY <1>1, Zenon DEF IInv, Chain, Registers
  <2>2. acts \in Acts
    BY <1>1 DEF IInv, TypeOK, Acts, Act
  <2>3. n \in Nat /\ (acts = <<>> => n = 0)
    BY <2>2, LenProperties, EmptySeq, Zenon DEF Acts
  <2>. HIDE DEF n
  <2>4. acts # <<>>
    BY <2>3 DEF n
  <2>5. k > 1 => k # 1 /\ k - 1 \in 1 .. n /\ k - 1 < k
    BY <2>3 DEF n
  <2>6. Saved(m.stack, acts, k)
    BY <2>1, Zenon DEF n
  <2>7. k > 1 => Above(acts, k - 1, k)
    BY <2>1, <2>5, Zenon DEF n
  <2>. QED
    BY <2>1, <2>4, <2>5, <2>6, <2>7, Zenon DEF Saved, Above, n
<1>2. IInv => SavedRegisters
  BY <1>1, Zenon DEF SavedRegisters
<1>. QED
  BY <1>2, Invariance, PTL

(* When main has returned nothing but its result is left.                  *)
THEOREM MainLeavesItsResult == Spec => []BackToStart
<1>1. ASSUME IInv
      PROVE  BackToStart
  <2>1. status = "halted" => acts = <<>> /\ m.sp = 1 /\ m.ap = 0 /\ m.fp = 0
    BY <1>1 DEF IInv
  <2>. QED
    BY <2>1 DEF BackToStart
<1>. QED
  BY <1>1, Invariance, PTL
=============================================================================

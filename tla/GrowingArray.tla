---------------------------- MODULE GrowingArray ----------------------------
(***************************************************************************)
(* What the arrays of the language promise ("Growing arrays (like C++      *)
(* vectors)", README.md:25): every array is a sequence of its own.         *)
(***************************************************************************)
EXTENDS Integers, Sequences, SequencesExt

CONSTANTS Arrays, Nil

VARIABLE content   \* array -> the sequence of its elements

Padded(s, n) == [i \in 1 .. n |-> IF i <= Len(s) THEN s[i] ELSE Nil]

\* The left side of a[n - 1] = v is evaluated first, and makes room.
Reserve(a, n) == n > Len(content[a]) /\ content' = [content EXCEPT ![a] = Padded(@, n)]

Assign(a, i, v) == content' = [content EXCEPT ![a][i] = v]

\* a.append(b), or a native method that adds an element.
Concat(a, s) == content' = [content EXCEPT ![a] = @ \o s]

\* a = new Array().
Make(a) == content' = [content EXCEPT ![a] = <<>>]

Step ==
  \E a \in Arrays :
    \/ Make(a)
    \/ Reserve(a, Len(content'[a]))
    \/ \E i \in DOMAIN content[a] : Assign(a, i, content'[a][i])
    \/ \E b \in Arrays : Concat(a, content[b])
    \/ content'[a] # <<>> /\ Concat(a, <<Last(content'[a])>>)
=============================================================================

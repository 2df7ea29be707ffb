------------------------------- MODULE Split -------------------------------
(***************************************************************************)
(* string_split (vm/k_string.c) on Arrays: a native method that allocates, *)
(* while strtok of the C library keeps a pointer into the string that is   *)
(* being split and writes into it.                                         *)
(*                                                                         *)
(* A collection copies a string to the other segment.  The copy left       *)
(* behind can still be read, as the collector overwrites its header only;  *)
(* the next collection uses its memory for something else.  A literal lies *)
(* in the constant table and is never moved, nor is a string in old space. *)
(***************************************************************************)
EXTENDS Arrays

CONSTANTS
  Delim, End,   \* a delimiter, and the zero that ends a C string
  Texts,        \* the strings that are split: sequences of characters
  Idle          \* no split is going on; a program without strings

\* Characters.
Char   == {Delim, End} \cup UNION {{t[i] : i \in DOMAIN t} : t \in Texts}
String == [chars : Seq(Char), literal : BOOLEAN]

ASSUME TextsAssumption == Texts \subseteq Seq(Char) /\ Idle \notin String

VARIABLES
  text,   \* the string, [chars, literal], or Idle
  split   \* the split going on

all == <<vars, text, split>>

\* [pc, a, copy, at, old, whole, got]: the array being filled; strtok's pointer, which
\* is at a character of the string (copy 1), of the copy the last collection has left
\* behind (copy 2, old) or of memory in other use (copy 3); history: the string as it
\* was, and the parts that have been made.
Started(a, whole) ==
  [pc |-> "scan", a |-> a, copy |-> 1, at |-> 1, old |-> <<>>, whole |-> whole, got |-> <<>>]

SplitInit ==
  /\ Init
  /\ text \in [chars : Texts, literal : BOOLEAN] \cup {Idle}
  /\ split = Idle

----------------------------------------------------------------------------
(* C strings.                                                              *)

\* The first place from p on that is one of these characters or ends the string.
FirstOf(s, p, chars) ==
  CHOOSE i \in p .. Len(s) + 1 :
    /\ i \in DOMAIN s => s[i] \in chars \cup {End}
    /\ \A j \in p .. i - 1 : s[j] \notin chars \cup {End}

Ends(s, i) == i \in DOMAIN s => s[i] = End
Letters(s) == {s[i] : i \in DOMAIN s} \ {Delim, End}

\* strtok from p on: where a token begins and where it ends.
Begins(s, p) == FirstOf(s, p, Letters(s))
Stops(s, p)  == FirstOf(s, Begins(s, p), {Delim})

\* Reference: the parts of a string are its longest runs of other characters.
EndOf(s) == FirstOf(s, 1, {})
Runs(s) ==
  LET n == EndOf(s) - 1 IN
  {r \in (1 .. n) \X (1 .. n) :
     /\ r[1] <= r[2] /\ \A i \in r[1] .. r[2] : s[i] # Delim
     /\ r[1] = 1 \/ s[r[1] - 1] = Delim
     /\ r[2] = n \/ s[r[2] + 1] = Delim}

\* q has what s has in these runs, in their order.
Lists(q, s, runs) ==
  \E run \in [DOMAIN q -> runs] :
    /\ \A r \in runs : \E k \in DOMAIN q : run[k] = r
    /\ \A k \in DOMAIN q : q[k] = SubSeq(s, run[k][1], run[k][2])
    /\ \A j, k \in DOMAIN q : j < k => run[j][2] < run[k][1]

----------------------------------------------------------------------------
(* The native method.                                                      *)

\* What strtok's pointer points into.
Chars == IF split.copy = 1 THEN text.chars ELSE split.old

\* Mutant: the collector clears what it leaves behind (FORCE_CALLOC == 1).
MovedCleared(sp, chars) ==
  IF text.literal THEN sp
  ELSE IF sp.copy = 1 THEN [sp EXCEPT !.copy = 2, !.old = [i \in DOMAIN chars |-> End]]
  ELSE [sp EXCEPT !.copy = 3]

\* A split after a collection; these are the characters of the string.
Moved(sp, chars) ==
  IF text.literal THEN sp
  ELSE IF sp.copy = 1 THEN [sp EXCEPT !.copy = 2, !.old = chars]
  ELSE [sp EXCEPT !.copy = 3]

\* The array a replaced by a new one (native_new_array).
Renew(a) ==
  /\ arr' = [arr EXCEPT ![a] = [len |-> 0, alloc |-> InitSize, objs |-> Fresh(a)]]
  /\ pend' = Outdated(a)
  /\ Keep([objs EXCEPT ![Fresh(a)] = [len |-> 0, cells |-> [i \in 0 .. InitSize - 1 |-> Nil]]])

(* arr is registered as a root before it has a value, and native_new_array *)
(* has a copy of it that nobody knows of: a collection in either of the    *)
(* first two allocations follows no pointer, or lets the new elements be   *)
(* stored where the array has been.                                        *)
Begin(a) ==
  /\ text # Idle /\ split = Idle /\ status = "run"
  /\ UNCHANGED <<top, lost, text>>
  /\ \/ /\ Renew(a)
        /\ split' = Started(a, text.chars)
        /\ UNCHANGED status
     \/ \E why \in {"wild", "stale"} : Stop(why) /\ UNCHANGED split

\* The next token is ended by a zero, and a string made of it: its length is taken
\* before, its characters after the allocation.
Token ==
  /\ split # Idle /\ split.pc = "scan" /\ status = "run"
  /\ split.copy < 3 /\ ~Ends(Chars, Begins(Chars, split.at))
  /\ LET s == Chars
         from == Begins(s, split.at)
         to == Stops(s, split.at)
         cut == IF Ends(s, to) THEN s ELSE [s EXCEPT ![to] = End]
         next == [split EXCEPT !.pc = "put", !.at = IF Ends(s, to) THEN to ELSE to + 1,
                               !.old = IF split.copy = 2 THEN cut ELSE @]
     IN /\ text' = [text EXCEPT !.chars = IF split.copy = 1 THEN cut ELSE @]
        /\ \E collected \in BOOLEAN :
             LET now == IF collected THEN Moved(next, text'.chars) ELSE next
                 here == IF now.copy = 2 THEN now.old ELSE cut
             IN /\ objs' = IF collected THEN VisitedAll ELSE objs
                /\ IF now.copy = 3 /\ collected
                   THEN status' = "wild" /\ UNCHANGED split
                   ELSE /\ split' = [now EXCEPT
                              !.got = Append(@, SubSeq(here, from, FirstOf(here, from, {}) - 1))]
                        /\ UNCHANGED status
  /\ UNCHANGED <<arr, top, pend, lost>>

\* A pointer into memory that is in other use.
Strays ==
  /\ split # Idle /\ split.pc = "scan" /\ split.copy = 3 /\ status = "run"
  /\ Stop("wild") /\ UNCHANGED <<lost, text, split>>

\* The new string becomes an element; the array may have to grow.
Put1(v) ==
  /\ split # Idle /\ split.pc = "put"
  /\ Add(split.a, v)
  /\ LET collected == Last(Contents'[split.a]) = Dangling
         next == [split EXCEPT !.pc = "scan"]
     IN split' = IF collected THEN Moved(next, text.chars) ELSE next
  /\ UNCHANGED text

\* No token is left: the array is returned.
Return ==
  /\ split # Idle /\ split.pc = "scan" /\ status = "run"
  /\ split.copy < 3 /\ Ends(Chars, Begins(Chars, split.at))
  /\ split' = Idle
  /\ UNCHANGED <<vars, text>>

\* A program works on arrays, or it splits a string as often as it wants.
SplitNext ==
  \/ text = Idle /\ Next /\ UNCHANGED <<text, split>>
  \/ \E a \in Arrays : Begin(a)
  \/ Token \/ Strays \/ Return
  \/ \E v \in Refs : Put1(v)

SplitSpec == SplitInit /\ [][SplitNext]_all

----------------------------------------------------------------------------
(* Properties.                                                             *)

(* A split that returns has made all the parts that the string had when it *)
(* was called, one element for each, although it cuts the string up and    *)
(* strtok's pointer stays behind in a copy of it.                          *)
SplitsAll ==
  [][Return => /\ Lists(split.got, split.whole, Runs(split.whole))
               /\ arr[split.a].len = Len(split.got)]_all

=============================================================================

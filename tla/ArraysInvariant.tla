-------------------------- MODULE ArraysInvariant --------------------------
(***************************************************************************)
(* What makes the properties of Arrays and Split inductive: which elements *)
(* objects there are, whose they are, and what lies behind their lengths.  *)
(***************************************************************************)
EXTENDS Split

\* Arrays x and pending addresses p whose elements objects are in o.
Fits(x, o, p) ==
  /\ x \in [Arrays -> [len : 0 .. MaxLen, alloc : Nat, objs : Ids]]
  /\ p \in Seq([a : Arrays, i : Index \cup {-1}, objs : Ids, grown : BOOLEAN])
  /\ \A id \in Used(x, p) : o[id] \in Object /\ 0 .. o[id].len - 1 \subseteq DOMAIN o[id].cells
  /\ \A a \in Arrays :
       /\ x[a].objs[1] = a
       /\ o[x[a].objs].len <= x[a].len /\ x[a].len <= x[a].alloc
       /\ DOMAIN o[x[a].objs].cells = 0 .. x[a].alloc - 1
  /\ \A k \in DOMAIN p :
       /\ p[k].objs[1] = p[k].a
       /\ IF p[k].grown THEN p[k].i < o[p[k].objs].len
          ELSE p[k].i < x[p[k].a].len /\ p[k].objs = x[p[k].a].objs

\* Below its length an elements object holds no dangling pointer, and from there
\* on only NIL, which growing without a new object may uncover.
Solid(x, o, p) ==
  \A id \in Used(x, p) : \A i \in DOMAIN o[id].cells :
    IF i < o[id].len THEN o[id].cells[i] # Dangling ELSE o[id].cells[i] = Nil

\* strtok's pointer is at the end of the string, at its beginning, or behind a
\* delimiter.  The parts before it have been made, and what comes is as it was.
Splitting ==
  LET s == split.whole  at == split.at IN
  /\ split \in [pc : {"scan", "put"}, a : Arrays, copy : 1 .. 3, at : Nat, old : Seq(Char),
                whole : Seq(Char), got : Seq(Seq(Char))]
  /\ at \in 1 .. EndOf(s) /\ (at = 1 \/ at = EndOf(s) \/ s[at - 1] = Delim)
  /\ split.copy < 3 => Len(Chars) = Len(s) /\ \A i \in at .. Len(s) : Chars[i] = s[i]
  /\ Lists(split.got, s, {r \in Runs(s) : r[2] < at})
  /\ status = "run" =>
       Len(split.got) = arr[split.a].len + IF split.pc = "put" THEN 1 ELSE 0

(* The inductive invariant.                                                *)
IInv ==
  /\ TypeOK
  /\ Fits(arr, objs, pend) /\ Len(pend) <= MaxPending
  /\ \A id \in Ids : objs[id] # Unused => id \in Used(arr, pend)
  /\ lost = {} => Solid(arr, objs, pend)
  /\ Sound
  /\ GrowsInside
  /\ text \in String \cup {Idle}
  /\ text # Idle => pend = <<>>
  /\ split # Idle => text # Idle /\ Splitting
=============================================================================

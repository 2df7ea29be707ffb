----------------------------- MODULE CallStack -----------------------------
(***************************************************************************)
(* What the frame macros of vm/stack.h promise: a stack of activations,    *)
(* each with its return address, receiver, arguments, local variables and  *)
(* operands of its own.                                                    *)
(***************************************************************************)
EXTENDS Integers, Sequences, SequencesExt

CONSTANTS Values, Addresses, MaxArgs, MaxLocals, Null

VARIABLE frames   \* the activations, the running one last

Cell == Values \cup {Null}

Activation(ret, args, self, locals) ==
  [ret |-> ret, args |-> args, self |-> self,
   locals |-> [i \in 1 .. locals |-> Null], ops |-> <<>>]

Init ==
  \E a \in Values, l \in 0 .. MaxLocals :
    frames = <<Activation(-1, <<a>>, a, l)>>

Running == Last(frames)
Callers == Front(frames)
Change(f) == frames' = Append(Callers, f)

Load(v) == frames # <<>> /\ Change([Running EXCEPT !.ops = Append(@, v)])

Drop ==
  /\ frames # <<>> /\ Running.ops # <<>>
  /\ Change([Running EXCEPT !.ops = Front(@)])

StoreArg(i) ==
  /\ frames # <<>> /\ Running.ops # <<>>
  /\ i \in DOMAIN Running.args
  /\ Change([Running EXCEPT !.args[i] = Last(Running.ops), !.ops = Front(@)])
StoreLocal(i) ==
  /\ frames # <<>> /\ Running.ops # <<>>
  /\ i \in DOMAIN Running.locals
  /\ Change([Running EXCEPT !.locals[i] = Last(Running.ops), !.ops = Front(@)])

\* The arguments and the receiver are the operands on top.
Taken(n)    == SubSeq(Running.ops, Len(Running.ops) - n, Len(Running.ops) - 1)
Callee(ret, n, l) == Activation(ret, Taken(n), Last(Running.ops), l)

Call(ret, n, l) ==
  /\ frames # <<>> /\ Len(Running.ops) > n
  /\ frames' =
       Callers \o
         <<[Running EXCEPT !.ops = SubSeq(@, 1, Len(@) - n - 1)], Callee(ret, n, l)>>

\* The running activation gives its place to the callee.
TailCall(n, l) ==
  /\ frames # <<>> /\ Len(Running.ops) > n
  /\ Change(Callee(Running.ret, n, l))

Return(v) ==
  /\ frames # <<>>
  /\ frames' =
       IF Callers = <<>> THEN <<>>
       ELSE Append(Front(Callers), [Last(Callers) EXCEPT !.ops = Append(@, v)])

Unwind ==
  /\ frames # <<>>
  /\ frames' = Callers

Next ==
  \/ \E v \in Values : Load(v)
  \/ Drop
  \/ \E i \in 1 .. MaxArgs : StoreArg(i)
  \/ \E i \in 1 .. MaxLocals : StoreLocal(i)
  \/ \E ret \in Addresses, n \in 0 .. MaxArgs, l \in 0 .. MaxLocals : Call(ret, n, l)
  \/ \E n \in 0 .. MaxArgs, l \in 0 .. MaxLocals : TailCall(n, l)
  \/ frames # <<>> /\ Running.ops # <<>> /\ Return(Last(Running.ops))
  \/ frames # <<>> /\ Return(Running.self)
  \/ Unwind

Spec == Init /\ [][Next]_frames
=============================================================================

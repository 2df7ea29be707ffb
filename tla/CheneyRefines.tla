--------------------------- MODULE CheneyRefines ---------------------------
(***************************************************************************)
(* The copying collector implements the object graph of ObjGraph.  Since a *)
(* collection forgets garbage, the graph is kept in a history variable obj *)
(* that the mutator's operations extend and the collector never touches;   *)
(* the mapping replaces every address by the h.id of the object there,     *)
(* which memcpy carries along.                                             *)
(***************************************************************************)
EXTENDS CheneyInvariant

(* An identity is not taken for the C NULL.                                *)
ASSUME IdsAssumption == Null \notin 1 .. MaxId

VARIABLE obj   \* what was allocated and stored so far, by identity

refVars == <<vars, obj>>

(* A pointer is an identity: the one in the header it points to.           *)
Id(v) == IF IsRef(v) THEN heap[v].id ELSE v

View == [r \in RootSlot |-> Id(root[r])]

Graph == INSTANCE ObjGraph WITH root <- View

RefInit == Init /\ obj = [n \in 1 .. MaxId |-> NoObj]

Created(t) ==
  obj' = [obj EXCEPT ![lastId + 1] = [t |-> t, f |-> [i \in Slot |-> Null]]]

Stored(i) ==
  LET dst == root[Stack(sp - 2)] IN
  obj' = [obj EXCEPT ![Id(dst)].f[i] = Id(Top)]

RefNext ==
  \/ \E t \in Types : New(t) /\ Created(t)
  \/ \E v \in {root[r] : r \in Live} \cup {Imm} : Load(v) /\ UNCHANGED obj
  \/ \E i \in Slot : LoadField(i) /\ UNCHANGED obj
  \/ \E i \in Slot : StoreField(i) /\ Stored(i)
  \/ \E r \in RootSlot : StoreRoot(r) /\ UNCHANGED obj
  \/ (Pop \/ Register \/ Unregister) /\ UNCHANGED obj
  \/ \E t \in Types : StartScavenge(t) /\ UNCHANGED obj
  \/ CopyRoot /\ UNCHANGED obj
  \/ RootsDone /\ UNCHANGED obj
  \/ ScanObj /\ UNCHANGED obj
  \/ CopyNeighbor /\ UNCHANGED obj
  \/ NeighborsDone /\ UNCHANGED obj
  \/ EndScavenge /\ UNCHANGED obj
  \/ Retry /\ IF pc' = "run" THEN Created(req) ELSE UNCHANGED obj

RefSpec == RefInit /\ [][RefNext]_refVars

(* The program cannot tell when the collector runs: each step of the       *)
(* virtual machine is a step of ObjGraph or leaves the graph alone.  A     *)
(* collection may change every address, but never an identity behind a     *)
(* root slot or a stored reference.                                        *)
ImplementsGraph == Graph!Spec

(* The reason: every object in memory, original or copy, in whatever phase *)
(* the collector is, has the type and the references that the program gave *)
(* it.                                                                     *)
Faithful ==
  \A a \in Addr : heap[a] # NoObj =>
    obj[heap[a].id] = [t |-> heap[a].t, f |-> [i \in Slot |-> Id(heap[a].f[i])]]

-----------------------------------------------------------------------------
(* The inductive invariant: that of the collector, Faithful, and           *)

\* root slots that are not live hold nothing (see Popped),
DeadSlots == \A r \in RootSlot \ Live : root[r] = Null

\* identities are given out in order, and one is left for what waits,
GivenOut ==
  /\ lastId <= MaxId
  /\ pc # "run" => lastId < MaxId
  /\ \A a \in Addr : heap[a] # NoObj => heap[a].id \in 1 .. lastId

\* what has been recorded is an object with references to identities.
Recorded == obj \in [1 .. MaxId -> [t : Types, f : [Slot -> Graph!Ref]] \cup {NoObj}]

RInv == IInv /\ DeadSlots /\ GivenOut /\ Recorded /\ Faithful

=============================================================================

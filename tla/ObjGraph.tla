------------------------------ MODULE ObjGraph ------------------------------
(***************************************************************************)
(* What the virtual machine promises a program about the heap, whichever   *)
(* collector runs underneath: objects have an identity and keep it, a      *)
(* reference denotes the object it was made from until it is overwritten,  *)
(* and reading a slot gives what was last stored into it.  There are no    *)
(* addresses and nothing ever moves or is reclaimed.                       *)
(*                                                                         *)
(* The operations are the bytecodes of vm_execute_bc that touch references *)
(* (vm/vm.c) and the registration of C locals by natives (vm/memory.c).    *)
(***************************************************************************)
EXTENDS Integers

CONSTANTS
  Types,     \* object types
  Slots,     \* Slots[t]: number of reference slots of an object of type t
  MaxSlots,  \* the largest of them
  NStatics,  \* number of static variables
  NHandles,  \* bound on registered C locals
  StackSize, \* stack_size_g
  MaxId,     \* bound on the number of objects ever created
  Null,      \* the C NULL
  Imm,       \* a value that is no reference to a heap object
  NoObj      \* an identity that has not been given out

Slot == 1 .. MaxSlots
Ref == (1 .. MaxId) \cup {Null, Imm}
RootSlot == ({"static"} \X (0 .. NStatics - 1)) \cup
            ({"handle"} \X (0 .. NHandles - 1)) \cup
            ({"stack"}  \X (0 .. StackSize - 1))

VARIABLES
  obj,    \* identity -> [t, f], or NoObj
  lastId, \* the last identity given out
  root,   \* root slots, as identities
  hp,     \* number of registered C locals
  sp      \* depth of the stack

vars == <<obj, lastId, root, hp, sp>>

Static(i) == <<"static", i>>
Handle(i) == <<"handle", i>>
Stack(i)  == <<"stack", i>>
Live == {Static(i) : i \in 0 .. NStatics - 1} \cup
        {Handle(i) : i \in 0 .. hp - 1} \cup
        {Stack(i)  : i \in 0 .. sp - 1}
Top == root[Stack(sp - 1)]
Popped(k) == [r \in RootSlot |->
                IF \E i \in 1 .. k : r = Stack(sp - i) THEN Null ELSE root[r]]

Init ==
  /\ obj = [n \in 1 .. MaxId |-> NoObj]
  /\ lastId = 0
  /\ root = [r \in RootSlot |-> Null]
  /\ hp = 0
  /\ sp = 0

New(t) ==
  /\ sp < StackSize
  /\ lastId < MaxId
  /\ obj' = [obj EXCEPT ![lastId + 1] = [t |-> t, f |-> [i \in Slot |-> Null]]]
  /\ lastId' = lastId + 1
  /\ root' = [root EXCEPT ![Stack(sp)] = lastId + 1]
  /\ sp' = sp + 1
  /\ UNCHANGED hp

Load(v) ==
  /\ sp < StackSize
  /\ root' = [root EXCEPT ![Stack(sp)] = v]
  /\ sp' = sp + 1
  /\ UNCHANGED <<obj, lastId, hp>>

LoadField(i) ==
  /\ sp > 0
  /\ Top \in 1 .. MaxId
  /\ i <= Slots[obj[Top].t]
  /\ root' = [root EXCEPT ![Stack(sp - 1)] = obj[Top].f[i]]
  /\ UNCHANGED <<obj, lastId, hp, sp>>

StoreField(i) ==
  /\ sp > 1
  /\ Top # Null
  /\ LET dst == root[Stack(sp - 2)] IN
       /\ dst \in 1 .. MaxId
       /\ i <= Slots[obj[dst].t]
       /\ obj' = [obj EXCEPT ![dst].f[i] = Top]
  /\ root' = Popped(2)
  /\ sp' = sp - 2
  /\ UNCHANGED <<lastId, hp>>

StoreRoot(r) ==
  /\ sp > 0
  /\ Top # Null
  /\ r \in Live \ {Stack(sp - 1)}
  /\ r[1] # "handle"
  /\ root' = [Popped(1) EXCEPT ![r] = Top]
  /\ sp' = sp - 1
  /\ UNCHANGED <<obj, lastId, hp>>

Pop ==
  /\ sp > 0
  /\ root' = Popped(1)
  /\ sp' = sp - 1
  /\ UNCHANGED <<obj, lastId, hp>>

Register ==
  /\ sp > 0
  /\ Top \in 1 .. MaxId
  /\ hp < NHandles
  /\ root' = [Popped(1) EXCEPT ![Handle(hp)] = Top]
  /\ hp' = hp + 1
  /\ sp' = sp - 1
  /\ UNCHANGED <<obj, lastId>>

Unregister ==
  /\ hp > 0
  /\ sp < StackSize
  /\ root' = [root EXCEPT ![Stack(sp)] = root[Handle(hp - 1)],
                          ![Handle(hp - 1)] = Null]
  /\ hp' = hp - 1
  /\ sp' = sp + 1
  /\ UNCHANGED <<obj, lastId>>

Next ==
  \/ \E t \in Types : New(t)
  \/ \E v \in {root[r] : r \in Live} \cup {Imm} : Load(v)
  \/ \E i \in Slot : LoadField(i) \/ StoreField(i)
  \/ \E r \in RootSlot : StoreRoot(r)
  \/ Pop \/ Register \/ Unregister

Spec == Init /\ [][Next]_vars

=============================================================================

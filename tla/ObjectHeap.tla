----------------------------- MODULE ObjectHeap -----------------------------
(***************************************************************************)
(* What a collected heap promises its client (src/copying_gc.c): objects   *)
(* have identities and fields, the client's local variables name objects,  *)
(* and a collection is invisible except that a local variable that is not  *)
(* registered on the stack may not be used afterwards.  There are no       *)
(* addresses, no semispaces and no forwarding pointers here: objects that  *)
(* are no longer reachable simply are not part of the state.               *)
(***************************************************************************)
EXTENDS Naturals, Sequences, FiniteSets

CONSTANTS
  Locals,     \* the client's Block* variables
  Sizes,      \* the sizes it asks for
  Literals,   \* the literals it stores
  Ids,        \* object identities
  Nil         \* "no object"

VARIABLES
  objs,       \* the fields of every reachable object
  root,       \* the object each local variable names
  registered, \* the stack of registered local variables
  mode        \* whose turn it is: "client" or "collector"

vars == <<objs, root, registered, mode>>

Unset == [kind |-> "unset", val |-> 0]
Lit(x) == [kind |-> "literal", val |-> x]
Ref(o) == [kind |-> "pointer", val |-> o]

Refs(fields) == {fields[k].val : k \in {n \in DOMAIN fields : fields[n].kind = "pointer"}}

\* The objects the set S of objects reaches through pointer fields of heap h.
ReachIn(h, S) ==
  LET reach[n \in 0 .. Cardinality(Ids)] ==
        IF n = 0 THEN S ELSE reach[n - 1] \cup UNION {Refs(h[o]) : o \in reach[n - 1]}
  IN  reach[Cardinality(Ids)]

Named(r) == {r[v] : v \in Locals} \ {Nil}

\* The state after the locals become r and the heap h: garbage vanishes.
Settle(h, r) ==
  /\ root' = r
  /\ objs' = [o \in ReachIn(h, Named(r)) |-> h[o]]

Init ==
  /\ objs = [o \in {} |-> <<>>]
  /\ root = [v \in Locals |-> Nil]
  /\ registered = <<>>
  /\ mode = "client"

Register(v) ==
  /\ root[v] # Nil
  /\ registered' = Append(registered, v)
  /\ UNCHANGED <<objs, root>>

Unregister ==
  /\ registered # <<>>
  /\ registered' = SubSeq(registered, 1, Len(registered) - 1)
  /\ UNCHANGED <<objs, root>>

\* v->data[k] becomes word w.
Store(v, k, w) ==
  /\ root[v] # Nil
  /\ k \in DOMAIN objs[root[v]]
  /\ Settle([objs EXCEPT ![root[v]][k] = w], root)
  /\ UNCHANGED registered

\* w = v->data[k].as_block
Load(w, v, k) ==
  /\ root[v] # Nil
  /\ k \in DOMAIN objs[root[v]]
  /\ \E o \in DOMAIN objs : objs[root[v]][k] = Ref(o) /\ Settle(objs, [root EXCEPT ![w] = o])
  /\ UNCHANGED registered

\* A new object o of n unset fields, named by v or stored in v->data[k].
With(o, n) == [p \in DOMAIN objs \cup {o} |->
                 IF p = o THEN [k \in 1 .. n |-> Unset] ELSE objs[p]]

New(v, n) ==
  /\ \E o \in Ids \ DOMAIN objs : Settle(With(o, n), [root EXCEPT ![v] = o])
  /\ UNCHANGED registered

NewInField(v, k, n) ==
  /\ root[v] # Nil
  /\ k \in DOMAIN objs[root[v]]
  /\ \E o \in Ids \ DOMAIN objs :
       Settle([With(o, n) EXCEPT ![root[v]][k] = Ref(o)], root)
  /\ UNCHANGED registered

\* A collection starts, and ends.  All it may do is retire the unregistered
\* local variables; while it runs the heap stands still.
CollectBegin ==
  /\ mode = "client" /\ mode' = "collector"
  /\ UNCHANGED <<objs, root, registered>>

CollectEnd ==
  /\ mode = "collector" /\ mode' = "client"
  /\ Settle(objs, [v \in Locals |->
                     IF \E k \in DOMAIN registered : registered[k] = v THEN root[v] ELSE Nil])
  /\ UNCHANGED registered

Client ==
  \/ Unregister
  \/ \E v \in Locals :
       \/ Register(v)
       \/ \E n \in Sizes : New(v, n)
       \/ \E k \in 1 .. (CHOOSE m \in Sizes : \A n \in Sizes : n <= m) :
            \/ \E x \in Literals : Store(v, k, Lit(x))
            \/ \E w \in Locals :
                 \/ Load(w, v, k)
                 \/ root[w] # Nil /\ Store(v, k, Ref(root[w]))
            \/ \E n \in Sizes : NewInField(v, k, n)

Next ==
  \/ mode = "client" /\ Client /\ UNCHANGED mode
  \/ CollectBegin
  \/ CollectEnd

Spec == Init /\ [][Next]_vars

=============================================================================

----------------------------- MODULE BinaryHeap -----------------------------
(***************************************************************************)
(* src/binary_heap.c: a binary min-heap in an array, with removal by key.  *)
(*                                                                         *)
(* insert, pop and drop change the array and then call balance_up or       *)
(* balance_down, whose loops run one iteration per step here: the heap is  *)
(* in order except at i while pc is "up" or "down".  The array keeps what  *)
(* lies behind len_nodes, because drop reads one element there when it     *)
(* removes the last one (lines 103-107).                                   *)
(***************************************************************************)
EXTENDS Integers, FiniteSets

CONSTANTS
  CAP_NODES,
  Node   \* the nodes the client inserts, and the zero node of calloc

\* Up to 127 the u8 positions of the children of a node do not wrap around.
ASSUME CapAssumption == CAP_NODES \in 1 .. 127
ASSUME NodeAssumption ==
  /\ \A m \in Node : m.priority \in Nat
  /\ \E m \in Node : m.key = 0 /\ m.priority = 0

VARIABLES
  nodes, len_nodes,
  pc,      \* "idle", "up" or "down"; "exit" after an EXIT_IF
  i,       \* the loops' position
  call     \* the last operation, with its argument or with what it returns

vars == <<nodes, len_nodes, pc, i, call>>

Index == 0 .. CAP_NODES - 1
GET_PARENT(k) == ((k + 1) \div 2) - 1

GET_LEFT_CHILD(k) == (k + 1) * 2 - 1

Zero == CHOOSE m \in Node : m.key = 0 /\ m.priority = 0
Swapped(a, j, k) == [a EXCEPT ![j] = a[k], ![k] = a[j]]

Init ==
  /\ nodes = [k \in Index |-> Zero] /\ len_nodes = 0
  /\ pc = "idle" /\ i = 0
  /\ call = <<"none">>

Exit == pc' = "exit" /\ UNCHANGED <<nodes, len_nodes, i, call>>

\* One iteration of balance_up; it climbs to the root even without a swap.
balance_up ==
  /\ pc = "up"
  /\ IF i = 0 THEN pc' = "idle" /\ UNCHANGED <<nodes, i>>
     ELSE LET j == GET_PARENT(i)
          IN  /\ nodes' = IF nodes[i].priority < nodes[j].priority
                          THEN Swapped(nodes, i, j) ELSE nodes
              /\ i' = j /\ UNCHANGED pc
  /\ UNCHANGED <<len_nodes, call>>

\* Fault: the right child is compared with the parent, not with the smaller.
SmallestLeftFirst(k) ==
  LET l == GET_LEFT_CHILD(k)
      Below(c) == c < len_nodes /\ nodes[c].priority < nodes[k].priority
  IN  IF Below(l) THEN l ELSE IF Below(l + 1) THEN l + 1 ELSE k

\* The m of balance_down: k or the child it must change places with.
Smallest(k) ==
  LET l == GET_LEFT_CHILD(k)
      r == l + 1
      m == IF l < len_nodes /\ nodes[l].priority < nodes[k].priority THEN l ELSE k
  IN  IF r < len_nodes /\ nodes[r].priority < nodes[m].priority THEN r ELSE m

\* One iteration of balance_down.
balance_down ==
  /\ pc = "down"
  /\ LET m == Smallest(i)
     IN  IF m = i THEN pc' = "idle" /\ i' = 0 /\ UNCHANGED nodes
         ELSE nodes' = Swapped(nodes, i, m) /\ i' = m /\ UNCHANGED pc
  /\ UNCHANGED <<len_nodes, call>>

insert(m) ==
  /\ pc = "idle"
  /\ IF CAP_NODES <= len_nodes THEN Exit
     ELSE /\ nodes' = [nodes EXCEPT ![len_nodes] = m]
          /\ len_nodes' = len_nodes + 1
          /\ pc' = "up" /\ i' = len_nodes
          /\ call' = <<"insert", m>>

\* pop returns nodes[0].
pop ==
  /\ pc = "idle"
  /\ IF len_nodes = 0 THEN Exit
     ELSE /\ nodes' = [nodes EXCEPT ![0] = nodes[len_nodes - 1]]
          /\ len_nodes' = len_nodes - 1
          /\ pc' = "down" /\ i' = 0
          /\ call' = <<"pop", nodes[0]>>

\* The first node with the key.
Holders(key) == {k \in 0 .. len_nodes - 1 : nodes[k].key = key}
First(key) == CHOOSE k \in Holders(key) : \A l \in Holders(key) : k <= l

\* Fault: the last node is not moved into the gap.
drop_cut(key) ==
  /\ pc = "idle"
  /\ IF Holders(key) = {} THEN Exit
     ELSE /\ len_nodes' = len_nodes - 1
          /\ i' = First(key) /\ pc' = "up"
          /\ call' = <<"drop", key>>
          /\ UNCHANGED nodes

drop(key) ==
  /\ pc = "idle"
  /\ IF Holders(key) = {} THEN Exit
     ELSE LET k == First(key)
              moved == nodes[len_nodes - 1]
          IN  /\ nodes' = [nodes EXCEPT ![k] = moved]
              /\ len_nodes' = len_nodes - 1
              /\ i' = k
              /\ pc' = IF nodes[k].priority < moved.priority THEN "down" ELSE "up"
              /\ call' = <<"drop", key>>

Balance == balance_up \/ balance_down
Next == Balance \/ pop \/ \E m \in Node : insert(m) \/ drop(m.key)

Spec == Init /\ [][Next]_vars

-----------------------------------------------------------------------------
(* Properties.                                                             *)

\* Type invariant; the loops stay inside the array, also when drop has removed
\* the last node and starts one behind the end.
TypeOK ==
  /\ nodes \in [Index -> Node]
  /\ len_nodes \in 0 .. CAP_NODES
  /\ call \in {<<"none">>} \cup ({"insert", "pop"} \X Node)
                \cup ({"drop"} \X {m.key : m \in Node})
  /\ pc \in {"idle", "up", "down", "exit"}
  /\ i \in Index

\* check(heap, 0), which main requires after every operation (lines 129, 135 and
\* 180): no child has a smaller priority than its parent.
check ==
  \A k \in 0 .. len_nodes - 1 : \A c \in {GET_LEFT_CHILD(k), GET_LEFT_CHILD(k) + 1} :
    c < len_nodes => nodes[k].priority <= nodes[c].priority
Ordered == pc \in {"idle", "exit"} => check

Queue == INSTANCE PriorityQueue WITH
           count <- [m \in Node |-> Cardinality({k \in 0 .. len_nodes - 1 : nodes[k] = m})],
           open <- pc # "exit"

\* The heap is a priority queue: pop takes a node of least priority from the
\* whole heap and returns it (what main requires of its last loop, line 180),
\* drop takes one with the key it is given, and balancing neither loses nor
\* doubles a node.
IsQueue == Queue!Spec
=============================================================================

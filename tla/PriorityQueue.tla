--------------------------- MODULE PriorityQueue ----------------------------
(***************************************************************************)
(* What src/binary_heap.c promises: a bag of nodes from which pop takes one*)
(* of least priority and drop takes one with a given key.                  *)
(***************************************************************************)
EXTENDS Integers

CONSTANT Node   \* the nodes there may be: [key, priority]

VARIABLES
  count,  \* how often each node is in the queue
  open,   \* FALSE once the program has exited
  call    \* the last operation, with its argument or with what it returns

vars == <<count, open, call>>

Init == count = [m \in Node |-> 0] /\ open = TRUE /\ call = <<"none">>

Add(m, k) == count' = [count EXCEPT ![m] = @ + k]
Present == {m \in Node : count[m] > 0}

Insert(m) == open /\ Add(m, 1) /\ call' = <<"insert", m>> /\ UNCHANGED open

Pop ==
  /\ open
  /\ \E m \in Present :
       /\ \A o \in Present : m.priority <= o.priority
       /\ Add(m, -1)
       /\ call' = <<"pop", m>>
  /\ UNCHANGED open

Drop(key) ==
  /\ open
  /\ \E m \in Present : m.key = key /\ Add(m, -1) /\ call' = <<"drop", key>>
  /\ UNCHANGED open

Exit == open /\ open' = FALSE /\ UNCHANGED <<count, call>>

Next == Pop \/ Exit \/ \E m \in Node : Insert(m) \/ Drop(m.key)

Spec == Init /\ [][Next]_vars
=============================================================================

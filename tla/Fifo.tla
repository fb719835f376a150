-------------------------------- MODULE Fifo --------------------------------
(***************************************************************************)
(* src/fifo.c: a linked queue whose `last` is NULL not only when the queue *)
(* is empty but also when it holds a single node.                          *)
(*                                                                         *)
(* The C heap is the function `heap` from the addresses in use to the      *)
(* nodes there; malloc takes any free address, or fails, and free gives an *)
(* address back.                                                           *)
(***************************************************************************)
EXTENDS Integers, FiniteSets, Sequences, Functions

CONSTANTS
  Address,   \* where malloc may put a node, a finite set without NULL
  NULL,
  T          \* the values

VARIABLES
  heap,         \* the nodes: address |-> [value, next]
  first, last,  \* the queue
  call          \* the last operation, with its argument or its result

vars == <<heap, first, last, call>>

Init == heap = <<>> /\ first = NULL /\ last = NULL /\ call = <<"none">>

\* What malloc and the assignments to the new node leave.
With(a, v) ==
  [b \in DOMAIN heap \cup {a} |-> IF b = a THEN [value |-> v, next |-> NULL] ELSE heap[b]]
Link(h, a, b) == [h EXCEPT ![a].next = b]
free(h, S) == Restrict(h, DOMAIN h \ S)

\* Fault: a queue of one node is taken for an empty one.
push_over(v) ==
  \E a \in Address \ DOMAIN heap :
    LET h == With(a, v)
    IN  /\ call' = <<"push", v>>
        /\ IF last # NULL
           THEN heap' = Link(h, last, a) /\ last' = a /\ UNCHANGED first
           ELSE heap' = h /\ first' = a /\ UNCHANGED last

push(v) ==
  \/ \E a \in Address \ DOMAIN heap :
       LET h == With(a, v)
       IN  /\ call' = <<"push", v>>
           /\ CASE first # NULL /\ last = NULL ->
                     heap' = Link(h, first, a) /\ last' = a /\ UNCHANGED first
                [] last # NULL ->
                     heap' = Link(h, last, a) /\ last' = a /\ UNCHANGED first
                [] OTHER ->
                     heap' = h /\ first' = a /\ UNCHANGED last
  \/ \* malloc fails
     /\ call' = <<"push error", v>>
     /\ UNCHANGED <<heap, first, last>>

pop ==
  IF first = NULL
  THEN call' = <<"pop error">> /\ UNCHANGED <<heap, first, last>>
  ELSE /\ first' = heap[first].next
       /\ last' = IF first' = last THEN NULL ELSE last
       /\ call' = <<"pop", heap[first].value>>
       /\ heap' = free(heap, {first})

\* The addresses on the chain from a, among the nodes h.
Chain(h, a) ==
  LET chain[n \in 0 .. Cardinality(DOMAIN h)] ==
        [b \in DOMAIN h \cup {NULL} |->
           IF b = NULL \/ n = 0 THEN <<>> ELSE <<b>> \o chain[n - 1][h[b].next]]
  IN  chain[Cardinality(DOMAIN h)][a]

destroy ==
  /\ heap' = free(heap, Range(Chain(heap, first)))
  /\ first' = NULL /\ last' = NULL
  /\ call' = <<"destroy">>

Next == pop \/ destroy \/ \E v \in T : push(v)

Spec == Init /\ [][Next]_vars

-----------------------------------------------------------------------------
(* Properties.                                                             *)

\* last is the end of the chain if there are two nodes or more and NULL otherwise,
\* which push's three branches (lines 58-66) rely on and pop's line 78 must
\* restore.  Every allocated node is on the chain, once, and the chain ends: no
\* node leaks, and destroy's loop (lines 93-97) frees all of them and stops.
Shape ==
  LET c == Chain(heap, first)
  IN  /\ last = IF Len(c) < 2 THEN NULL ELSE c[Len(c)]
      /\ IsInjective(c) /\ Range(c) = DOMAIN heap
      /\ c # <<>> => heap[c[Len(c)]].next = NULL

Abstract == INSTANCE Queue WITH
  items <- LET c == Chain(heap, first) IN [k \in DOMAIN c |-> heap[c[k]].value]

\* Values come out in the order in which they were pushed, whatever pushes,
\* failed pushes, pops and destroys come between.
IsQueue == Abstract!Spec
=============================================================================

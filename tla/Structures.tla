------------------------------ MODULE Structures ------------------------------
(***************************************************************************)
(* The small programs that keep a structure in memory: binary_heap, bfs,   *)
(* fifo, lines, runtime, the sorts and binary_search, with their variables *)
(* side by side.  They do not interact; what each promises has a name of   *)
(* its own here.                                                           *)
(***************************************************************************)
EXTENDS BinaryHeap, BFSMap, FiniteSets

CONSTANTS
  Address, NULL, T,                                              \* of Fifo
  WIDTH, HEIGHT,                                                 \* of Lines
  Names, Values, CAP_SCOPES, CAP_LISTS, None,                    \* of Runtime
  Arrays, Numbers, MAX                                           \* of Sorting

\* malloc never gives NULL, and memory is finite.
ASSUME AddressAssumption == IsFiniteSet(Address) /\ NULL \notin Address

ASSUME MaskAssumption == WIDTH \in Nat /\ HEIGHT \in Nat

\* The arrays have a length, and None stands for no value.
ASSUME ScopeAssumption == CAP_SCOPES \in Nat /\ CAP_LISTS \in Nat /\ None \notin Values

\* Elements have four bytes, so the length of an array is far from the values of a size_t.
ASSUME ArraysAssumption ==
  /\ MAX \in Nat /\ Numbers \subseteq Int
  /\ \A array \in Arrays :
       LET n == Cardinality(DOMAIN array)
       IN  n \in Nat /\ 2 * n <= MAX /\ array \in [0 .. n - 1 -> Int]

VARIABLES
  fifo_heap, first, last, fifo_call,                \* those of Fifo
  bfs_pc, walls, start, end, stack, at, parents, visited, parent, side, cell,
  path, depth,                                      \* those of BFS
  line_pc, mask, from, to, x0, y0, error_a,         \* those of Lines
  lists_used, scopes, scope_call,                   \* those of Runtime
  sort_call, result                                 \* those of Sorting

fifo_vars == <<fifo_heap, first, last, fifo_call>>
bfs_vars == <<bfs_pc, walls, start, end, stack, at, parents, visited, parent, side, cell, path, depth>>
line_vars == <<line_pc, mask, from, to, x0, y0, error_a>>
scope_vars == <<lists_used, scopes, scope_call>>
sort_vars == <<sort_call, result>>

Fifo == INSTANCE Fifo WITH heap <- fifo_heap, call <- fifo_call
BFS == INSTANCE BFS WITH pc <- bfs_pc, i <- at
Lines == INSTANCE Lines WITH pc <- line_pc
Runtime == INSTANCE Runtime WITH lists <- lists_used, call <- scope_call
Sorting == INSTANCE Sorting WITH call <- sort_call, Targets <- Numbers

-----------------------------------------------------------------------------
(* The properties of the instances under names of their own.                 *)

\* Values leave the queue in the order in which they came: see Fifo.
FifoIsQueue == Fifo!IsQueue

\* bfs finds a shortest path: see BFS.
Shortest == BFS!Shortest

\* Neither the queue nor the path of bfs outgrows its array: see BFS.
WithinArrays == BFS!WithinArrays

\* A line stays near the ideal one and ends at its end: see Lines.
LineDrawn == Lines!LineDrawn

\* Scopes are an environment: see Runtime.
IsEnvironment == Runtime!IsEnvironment

\* Three ways to sort: see Sorting.
SortedRight == Sorting!SortedRight

\* binary_search is right inside the array's range: see Sorting.
SearchedRight == Sorting!SearchedRight
=============================================================================

---------------------------- MODULE MCStructures ----------------------------
(* The small sequential programs.  They do not interact, so each behaviour   *)
(* runs one of them and leaves the others as they start.  The bounds:        *)
(*   binary_heap  up to six nodes, the fewest with which drop moves a node   *)
(*                up, whose keys do not follow their priorities              *)
(*   fifo         up to four nodes                                           *)
(*   bfs          all maps of three by three cells                           *)
(*   sorting      all arrays of up to five numbers, and increasing ones of   *)
(*                six, searched for every number within and beside them      *)
(*   levenshtein  all texts of up to four letters                            *)
(*   spatial_hash up to three cubes in six cells, with too few list elements *)
(*                for some, and queries inside, across and outside of them   *)
(*   kdtree       all arrays of up to five points, which share coordinates   *)
(*   lines        all lines in a mask of nine by eight pixels                *)
(*   runtime      up to three scopes and two insertions of two names         *)
EXTENDS Structures

CONSTANTS
  Texts, Garbage,                                                \* of Levenshtein
  COUNT_X, COUNT_Y, COUNT_Z, COUNT_LISTS, EPSILON, CubeLists, Queries, \* of SpatialHash
  PointArrays, Targets, Radii                                    \* of KDTree

VARIABLES
  program,                                          \* the one that runs
  a, b, answer,                                     \* those of Levenshtein
  hash_pc, CUBES, bounds, cube, k, n, grid, lists, intersects,  \* those of SpatialHash
  POINTS, root, target, radius_squared, shown       \* those of KDTree

text_vars == <<a, b, answer>>
hash_vars == <<hash_pc, CUBES, bounds, cube, k, n, grid, lists, intersects>>
tree_vars == <<POINTS, root, target, radius_squared, shown>>

Text == INSTANCE Levenshtein
Space == INSTANCE SpatialHash WITH pc <- hash_pc, i <- k
Tree == INSTANCE KDTree

-----------------------------------------------------------------------------
FewNodes == {[key |-> 0, priority |-> 0], [key |-> 1, priority |-> 1],
             [key |-> 0, priority |-> 2], [key |-> 2, priority |-> 3]}

AllWalls == SUBSET Cells
FewStarts == {<<0, 0>>, <<1, 0>>, <<1, 1>>}

FewArrays ==
  UNION {[0 .. size - 1 -> 0 .. 3] : size \in 1 .. 5}
  \cup {array \in [0 .. 5 -> 0 .. 7] : \A l \in 1 .. 5 : array[l - 1] < array[l]}

FewTexts == UNION {[1 .. size -> {"a", "b", "c"}] : size \in 0 .. 4}

Cube(x, y) == [lower |-> <<x[1], y[1], 0>>, upper |-> <<x[2], y[2], 10>>]
FewCubes ==
  {Cube(x, y) : x \in {<<0, 10>>, <<10, 20>>, <<0, 30>>, <<20, 20>>, <<30, 40>>},
                y \in {<<0, 10>>, <<10, 10>>, <<10, 30>>}}
FewCubeLists ==
  {<<c>> : c \in FewCubes} \cup {<<c, d>> : c, d \in FewCubes}
  \cup {<<Cube(<<0, 10>>, <<0, 10>>), c, d>> : c, d \in FewCubes}
FewQueries ==
  {Cube(x, y) : x \in {<<-20, -10>>, <<5, 10>>, <<15, 45>>, <<30, 20>>},
                y \in {<<-5, 5>>, <<15, 60>>, <<10, 10>>}}

FewPoints == {<<0, 0, 0>>, <<1, 2, 0>>, <<2, 1, 0>>, <<2, 0, 1>>}
FewPointArrays == UNION {[0 .. size - 1 -> FewPoints] : size \in 1 .. 5}
FewTargets == {<<1, 1, 0>>, <<2, 0, 0>>, <<0, 1, 1>>}

-----------------------------------------------------------------------------
NoMap ==
  /\ bfs_pc = "call" /\ walls = {} /\ start = <<0, 0>> /\ end = <<0, 0>>
  /\ stack = <<>> /\ at = 0 /\ parents = <<>> /\ visited = {} /\ parent = <<0, 0>>
  /\ side = 1 /\ cell = <<0, 0>> /\ path = <<>> /\ depth = <<>>

MCInit ==
  /\ program \in {"binary_heap", "fifo", "bfs", "sorting", "levenshtein", "spatial_hash",
                  "kdtree", "lines", "runtime"}
  /\ Init /\ Fifo!Init /\ Sorting!Init /\ Text!Init /\ Space!Init /\ Tree!Init /\ Lines!Init /\ Runtime!Init
  /\ IF program = "bfs" THEN BFS!Init ELSE NoMap

MCNext ==
  \/ /\ program = "binary_heap" /\ Next
     /\ UNCHANGED <<program, fifo_vars, bfs_vars, sort_vars, text_vars, hash_vars, tree_vars, line_vars, scope_vars>>
  \/ /\ program = "fifo" /\ Fifo!Next
     /\ UNCHANGED <<program, vars, bfs_vars, sort_vars, text_vars, hash_vars, tree_vars, line_vars, scope_vars>>
  \/ /\ program = "bfs" /\ BFS!Next
     /\ UNCHANGED <<program, vars, fifo_vars, sort_vars, text_vars, hash_vars, tree_vars, line_vars, scope_vars>>
  \/ /\ program = "sorting" /\ Sorting!Next
     /\ UNCHANGED <<program, vars, fifo_vars, bfs_vars, text_vars, hash_vars, tree_vars, line_vars, scope_vars>>
  \/ /\ program = "levenshtein" /\ Text!Next
     /\ UNCHANGED <<program, vars, fifo_vars, bfs_vars, sort_vars, hash_vars, tree_vars, line_vars, scope_vars>>
  \/ /\ program = "spatial_hash" /\ Space!Next
     /\ UNCHANGED <<program, vars, fifo_vars, bfs_vars, sort_vars, text_vars, tree_vars, line_vars, scope_vars>>
  \/ /\ program = "kdtree" /\ Tree!Next
     /\ UNCHANGED <<program, vars, fifo_vars, bfs_vars, sort_vars, text_vars, hash_vars, line_vars, scope_vars>>
  \/ /\ program = "lines" /\ Lines!Next
     /\ UNCHANGED <<program, vars, fifo_vars, bfs_vars, sort_vars, text_vars, hash_vars, tree_vars, scope_vars>>
  \/ /\ program = "runtime" /\ Runtime!Next
     /\ UNCHANGED <<program, vars, fifo_vars, bfs_vars, sort_vars, text_vars, hash_vars, tree_vars, line_vars>>

MCvars == <<program, vars, fifo_vars, bfs_vars, sort_vars, text_vars, hash_vars, tree_vars, line_vars, scope_vars>>

MCSpec == MCInit /\ [][MCNext]_MCvars

-----------------------------------------------------------------------------
(* The properties of the instances under names of their own.                 *)

\* The edit distance, but for texts too far apart: see Levenshtein.
DistanceRight == Text!DistanceRight

\* A query of the grid misses no cube: see SpatialHash.
QueryRight == Space!QueryRight

\* The tree shows exactly the points within the radius: see KDTree.
FoundWithinRadius == Tree!FoundWithinRadius
=============================================================================

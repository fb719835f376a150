----------------------------- MODULE SpatialHash -----------------------------
(***************************************************************************)
(* src/spatial_hash.c: cubes are entered into the lists of the grid's cells*)
(* that they reach into, a cell per step, and a query looks through the    *)
(* lists of the cells its cube reaches into, a cell per step.  A list's    *)
(* first element is in the grid itself, the others are in lists.  A cube is*)
(* named by its index in CUBES, and coordinates are integers.              *)
(***************************************************************************)
EXTENDS Integers, Sequences

LOCAL INSTANCE FiniteSets
LOCAL INSTANCE FiniteSetsExt
LOCAL INSTANCE SequencesExt

CONSTANTS
  COUNT_X, COUNT_Y, COUNT_Z, COUNT_LISTS, EPSILON,
  CubeLists,     \* what CUBES may be
  Queries        \* the cubes that are looked for

Cells == (0 .. COUNT_X - 1) \X (0 .. COUNT_Y - 1) \X (0 .. COUNT_Z - 1)
COUNT_GRID == <<COUNT_X, COUNT_Y, COUNT_Z>>
Dims == 1 .. 3

VARIABLES
  pc,            \* "bounds", "grid", "query", "look", "return" or "exit"
  CUBES, bounds, \* cubes have a lower and an upper corner
  cube,          \* the one that is entered, later the one that is looked for
  i, n,          \* the next cube, and which of its cells is next
  grid, lists,   \* elements: a cube or 0; next, a position in lists or 0; last
  intersects

vars == <<pc, CUBES, bounds, cube, i, n, grid, lists, intersects>>

NoCube == [lower |-> <<0, 0, 0>>, upper |-> <<0, 0, 0>>]

Init ==
  /\ pc = "bounds"
  /\ CUBES = <<>>
  /\ bounds = NoCube /\ cube = NoCube
  /\ i = 1 /\ n = 0
  /\ grid = [c \in Cells |-> [cube |-> 0, next |-> 0, last |-> 0]]
  /\ lists = <<>>
  /\ intersects = <<>>

set_bounds ==
  /\ pc = "bounds"
  /\ CUBES' \in CubeLists
  /\ bounds' = [lower |-> [d \in Dims |-> Min({c.lower[d] : c \in Range(CUBES')})],
                upper |-> [d \in Dims |-> Max({c.upper[d] : c \in Range(CUBES')}) + EPSILON]]
  /\ pc' = "grid"
  /\ UNCHANGED <<cube, i, n, grid, lists, intersects>>

-----------------------------------------------------------------------------
span == [d \in Dims |-> bounds.upper[d] - bounds.lower[d]]

Index(point) ==
  [d \in Dims |-> ((point[d] - bounds.lower[d]) * COUNT_GRID[d]) \div span[d]]

get_range(c) == [lower |-> Index(c.lower), upper |-> Index(c.upper)]

\* A range's cells in the order of the three loops: x is the outermost.
Sizes(range) == [d \in Dims |-> range.upper[d] - range.lower[d] + 1]
Size(range) == LET s == Sizes(range) IN s[1] * s[2] * s[3]
Cell(range, k) ==
  LET s == Sizes(range)
  IN  <<range.lower[1] + k \div (s[2] * s[3]), range.lower[2] + ((k \div s[3]) % s[2]),
        range.lower[3] + (k % s[3])>>

\* Fault: a second element becomes the last without being linked.
LinkedLoose(c) ==
  /\ grid' = [grid EXCEPT ![c].last = Len(lists) + 1]
  /\ lists' = Append(IF grid[c].last = 0 THEN lists ELSE [lists EXCEPT ![grid[c].last].next = Len(lists) + 1],
                     [cube |-> i, next |-> 0])

\* A new element follows the one in the grid or the last of its list.
Linked(c) ==
  LET new == Len(lists) + 1
      link == Append(lists, [cube |-> i, next |-> 0])
  IN  IF grid[c].next = 0
      THEN grid' = [grid EXCEPT ![c].next = new, ![c].last = new] /\ lists' = link
      ELSE grid' = [grid EXCEPT ![c].last = new] /\ lists' = [link EXCEPT ![grid[c].last].next = new]

push_grid ==
  /\ pc = "grid" /\ i <= Len(CUBES)
  /\ LET range == get_range(CUBES[i])
         c == Cell(range, n)
         first == grid[c].cube = 0
         full == ~first /\ Len(lists) >= COUNT_LISTS
         done == n + 1 = Size(range)
     IN  /\ CASE first          -> grid' = [grid EXCEPT ![c].cube = i] /\ UNCHANGED lists
              [] full           -> UNCHANGED <<grid, lists>>
              [] ~first /\ ~full -> Linked(c)
         /\ pc' = IF full THEN "exit" ELSE "grid"
         /\ n' = IF done THEN 0 ELSE n + 1
         /\ i' = IF done THEN i + 1 ELSE i
  /\ UNCHANGED <<CUBES, bounds, cube, intersects>>

-----------------------------------------------------------------------------
Clip(x, l, r) == Min({r, Max({l, x})})

get_within_bounds(c) ==
  LET clipped(p) == [d \in Dims |-> Clip(p[d], bounds.lower[d], bounds.upper[d] - EPSILON)]
  IN  [lower |-> clipped(c.lower), upper |-> clipped(c.upper)]

Query ==
  /\ pc = "grid" /\ i > Len(CUBES)
  /\ \E c \in Queries :
       /\ cube' = c
       /\ pc' = IF \E d \in Dims : c.upper[d] < c.lower[d] THEN "exit" ELSE "look"
  /\ n' = 0
  /\ UNCHANGED <<CUBES, bounds, i, grid, lists, intersects>>

\* The cubes from an element of lists on.
RECURSIVE From(_)
From(l) == IF l = 0 THEN <<>> ELSE <<lists[l].cube>> \o From(lists[l].next)

List(c) == IF grid[c].cube = 0 THEN <<>> ELSE <<grid[c].cube>> \o From(grid[c].next)

\* A cell of set_intersects: its cubes that have not been seen are appended.
set_intersects ==
  /\ pc = "look"
  /\ LET range == get_range(get_within_bounds(cube))
         seen == FoldLeft(LAMBDA s, k : IF Contains(s, k) THEN s ELSE Append(s, k),
                          intersects, List(Cell(range, n)))
         full == Len(seen) > Len(CUBES)
     IN  /\ intersects' = IF full THEN SubSeq(seen, 1, Len(CUBES)) ELSE seen
         /\ n' = n + 1
         /\ pc' = IF full THEN "exit" ELSE IF n + 1 = Size(range) THEN "return" ELSE "look"
  /\ UNCHANGED <<CUBES, bounds, cube, i, grid, lists>>

Next == set_bounds \/ push_grid \/ Query \/ set_intersects

Spec == Init /\ [][Next]_vars

-----------------------------------------------------------------------------
(* Properties.                                                             *)

Overlap(c, other) == \A d \in Dims : c.lower[d] <= other.upper[d] /\ other.lower[d] <= c.upper[d]

\* A cube has a point in the cell: the coordinates are multiplied by COUNT_GRID.
ReachesInto(c, cell) ==
  \A d \in Dims :
    LET from == bounds.lower[d] * COUNT_GRID[d] + cell[d] * span[d]
    IN  c.upper[d] * COUNT_GRID[d] >= from /\ c.lower[d] * COUNT_GRID[d] < from + span[d]

\* No cube that overlaps the query is missed, wherever the query lies, none is
\* returned twice, and those returned share a cell with the part of the query that
\* is in bounds; the program only exits when the lists run out or the query is
\* inverted (lines 224-274).
QueryRight ==
  /\ pc = "return" =>
       LET found == Range(intersects)
           within == get_within_bounds(cube)
           sharing == {k \in DOMAIN CUBES :
                         \E c \in Cells : ReachesInto(CUBES[k], c) /\ ReachesInto(within, c)}
       IN  /\ {k \in DOMAIN CUBES : Overlap(CUBES[k], cube)} \subseteq found
           /\ found = sharing
           /\ Len(intersects) = Cardinality(found)
  /\ pc = "exit" => Len(lists) = COUNT_LISTS \/ \E d \in Dims : cube.upper[d] < cube.lower[d]
=============================================================================

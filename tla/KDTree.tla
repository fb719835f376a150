------------------------------- MODULE KDTree -------------------------------
(***************************************************************************)
(* src/kdtree.c: the points are sorted in place while a tree is made of    *)
(* them, which splits at a point in each dimension in turn, and then those *)
(* within a radius are shown.  Coordinates are integers instead of floats. *)
(***************************************************************************)
EXTENDS Integers, Sequences, FiniteSets

Q == INSTANCE Quicksort

CONSTANTS
  PointArrays,   \* what POINTS may be
  Targets,       \* the points around which
  Radii          \* and the squared radii within which points are looked for

VARIABLES
  POINTS,
  root,          \* the tree, or <<>>
  target, radius_squared,
  shown          \* the points in the order in which they are shown

vars == <<POINTS, root, target, radius_squared, shown>>

Init ==
  /\ POINTS = <<>>
  /\ root = <<>>
  /\ target = <<0, 0, 0>> /\ radius_squared = 0
  /\ shown = <<>>

Next_dim(dim) == (dim % 3) + 1

\* The tree of the points from l to r, and all points as they were sorted.
RECURSIVE make_tree(_, _, _, _)
make_tree(points, l, r, dim) ==
  IF l = r THEN [points |-> points, node |-> [dim |-> dim, point |-> points[l], left |-> <<>>, right |-> <<>>]]
  ELSE LET sorted == Q!Sort(points, l, r, dim)
           m == (r - l) \div 2 + l
           Side(p, from, to) == IF to < from THEN [points |-> p, node |-> <<>>]
                                ELSE make_tree(p, from, to, Next_dim(dim))
           left == Side(sorted, l, m - 1)
           right == Side(left.points, m + 1, r)
       IN  [points |-> right.points,
            node |-> [dim |-> dim, point |-> sorted[m], left |-> left.node, right |-> right.node]]

Make ==
  /\ root = <<>>
  /\ \E points \in PointArrays :
       LET made == make_tree(points, 0, Cardinality(DOMAIN points) - 1, 1)
       IN  POINTS' = made.points /\ root' = made.node
  /\ UNCHANGED <<target, radius_squared, shown>>

Square(x) == x * x
distance_squared(a, b) == Square(a[1] - b[1]) + Square(a[2] - b[2]) + Square(a[3] - b[3])

\* Fault: points on the splitting plane lie to its left.
SidesHalf(node, point, r2) ==
  LET split == node.point[node.dim]
      near == Square(split - point[node.dim]) < r2
  IN  CASE point[node.dim] <= split -> <<node.left>> \o (IF near /\ point[node.dim] # split THEN <<node.right>> ELSE <<>>)
        [] split < point[node.dim] -> <<node.right>> \o (IF near THEN <<node.left>> ELSE <<>>)

\* TRAVERSE: the sides of a node that are looked at, in this order.
Sides(node, point, r2) ==
  LET split == node.point[node.dim]
      near == Square(split - point[node.dim]) < r2
  IN  CASE point[node.dim] < split -> <<node.left>> \o (IF near THEN <<node.right>> ELSE <<>>)
        [] split < point[node.dim] -> <<node.right>> \o (IF near THEN <<node.left>> ELSE <<>>)
        [] point[node.dim] = split -> <<node.left, node.right>>

RECURSIVE show_within_radius(_, _, _)
show_within_radius(node, point, r2) ==
  IF node = <<>> THEN <<>>
  ELSE LET sides == Sides(node, point, r2)
           below == [k \in DOMAIN sides |-> show_within_radius(sides[k], point, r2)]
       IN  (IF distance_squared(point, node.point) < r2 THEN <<node.point>> ELSE <<>>)
             \o below[1] \o (IF Len(below) = 2 THEN below[2] ELSE <<>>)

Show ==
  /\ root # <<>> /\ radius_squared = 0
  /\ target' \in Targets /\ radius_squared' \in Radii
  /\ shown' = show_within_radius(root, target', radius_squared')
  /\ UNCHANGED <<POINTS, root>>

Next == Make \/ Show

Spec == Init /\ [][Next]_vars

-----------------------------------------------------------------------------
(* Properties.                                                             *)

Times(array, p) == Cardinality({k \in DOMAIN array : array[k] = p})

\* Every point within the radius is shown, as often as it is among the points, and
\* no other, although sides of the tree are skipped and points that are equal in
\* the dimension of a split may lie on both of its sides (lines 189-207).
FoundWithinRadius ==
  radius_squared > 0 =>
    \A p \in {POINTS[k] : k \in DOMAIN POINTS} \cup {shown[k] : k \in DOMAIN shown} :
      Times(shown, p) = IF distance_squared(p, target) < radius_squared THEN Times(POINTS, p) ELSE 0
=============================================================================

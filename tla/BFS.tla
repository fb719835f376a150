--------------------------------- MODULE BFS ---------------------------------
(***************************************************************************)
(* src/bfs.c: breadth-first search on a map of cells, some of which are    *)
(* walls.  A step takes a cell off the queue, pushes one of its neighbours *)
(* or follows a parent on the way back from the end.  The queue is the     *)
(* array stack from i up to j, where j is its length.                      *)
(*                                                                         *)
(* depth is a history variable: how many parents a visited cell has.       *)
(***************************************************************************)
EXTENDS BFSMap, Sequences

VARIABLES
  pc,       \* "call", "search", "push", "walk" or "return"
  walls, start, end,
  stack, i, parents, visited,
  parent,   \* the cell whose neighbours are pushed
  side,     \* the neighbour that bfs_push is called for, 1 .. 4
  cell,     \* where the way back has come
  path,     \* in the end what bfs returns: <<>> if it returns 0
  depth

vars == <<pc, walls, start, end, stack, i, parents, visited, parent, side, cell, path, depth>>
map == <<walls, start, end>>
queue == <<stack, parents, visited, depth>>

Init ==
  /\ pc = "call"
  /\ walls \in Walls /\ start \in Starts /\ end \in Cells
  /\ stack = <<>> /\ i = 0
  /\ parents = [c \in Cells |-> <<0, 0>>]
  /\ visited = {}
  /\ parent = <<0, 0>> /\ side = 1
  /\ cell = <<0, 0>>
  /\ path = <<>>
  /\ depth = [c \in Cells |-> 0]

bfs ==
  /\ pc = "call"
  /\ pc' = "search"
  /\ stack' = <<start>>
  /\ visited' = {start}
  /\ UNCHANGED <<map, i, parents, parent, side, cell, path, depth>>

-----------------------------------------------------------------------------
\* A cell is taken off the queue.
Take ==
  /\ pc = "search" /\ i < Len(stack)
  /\ i' = i + 1
  /\ IF stack[i'] = end
     THEN pc' = "walk" /\ cell' = end /\ UNCHANGED <<parent, side>>
     ELSE pc' = "push" /\ parent' = stack[i'] /\ side' = 1 /\ UNCHANGED cell
  /\ UNCHANGED <<map, queue, path>>

NotFound ==
  /\ pc = "search" /\ i = Len(stack)
  /\ pc' = "return"
  /\ UNCHANGED <<map, queue, i, parent, side, cell, path>>

\* Fault: walls are not looked at.
FreshOrWall(c) == c \in Cells /\ c \notin visited

\* Fault: only what is still in the queue counts as visited.
FreshInQueue(c) ==
  c \in Cells /\ c \notin walls /\ c \notin {stack[k] : k \in i + 1 .. Len(stack)}

\* A cell of the map that is no wall and has not been visited.
Fresh(c) == c \in Cells /\ c \notin walls /\ c \notin visited

bfs_push ==
  /\ pc = "push"
  /\ LET child == Beside(parent, side)
     IN  IF Fresh(child)
         THEN /\ stack' = Append(stack, child)
              /\ parents' = [parents EXCEPT ![child] = parent]
              /\ visited' = visited \cup {child}
              /\ depth' = [depth EXCEPT ![child] = depth[parent] + 1]
         ELSE UNCHANGED queue
  /\ side' = side + 1
  /\ pc' = IF side = 4 THEN "search" ELSE "push"
  /\ UNCHANGED <<map, i, parent, cell, path>>

reverse_vec2u(s) == [k \in DOMAIN s |-> s[Len(s) - k + 1]]

\* Cells are appended up to the start, and then the path is reversed.
Walk ==
  /\ pc = "walk"
  /\ LET longer == Append(path, cell)
     IN  IF cell = start
         THEN pc' = "return" /\ path' = reverse_vec2u(longer) /\ UNCHANGED cell
         ELSE cell' = parents[cell] /\ path' = longer /\ UNCHANGED pc
  /\ UNCHANGED <<map, queue, i, parent, side>>

Next == bfs \/ Take \/ NotFound \/ bfs_push \/ Walk

Spec == Init /\ [][Next]_vars

-----------------------------------------------------------------------------
(* Properties.                                                             *)

\* One step on the map leads from c to d.
Adjacent(c, d) == d \in Cells /\ d \notin walls /\ \E k \in 1 .. 4 : d = Beside(c, k)

Onward(c) == {c} \cup {d \in {Beside(c, k) : k \in 1 .. 4} : Adjacent(c, d)}

\* The cells within n steps of those of S.
Within(n, S) ==
  LET W[m \in 0 .. n] == IF m = 0 THEN S ELSE UNION {Onward(c) : c \in W[m - 1]}
  IN  W[n]

\* bfs returns a shortest path from start to end over cells that are no walls, and
\* 0 only if there is none (lines 67-104).
Shortest ==
  pc = "return" =>
    IF path = <<>> THEN end \notin Within(MAP_X * MAP_Y, {start})
    ELSE /\ path[1] = start /\ path[Len(path)] = end
         /\ \A k \in 1 .. Len(path) - 1 : Adjacent(path[k], path[k + 1])
         /\ Len(path) > 1 => end \notin Within(Len(path) - 2, {start})

\* Every cell is pushed at most once, so neither the queue nor the path outgrows
\* its array of as many cells as the map has (lines 47 and 74).
WithinArrays ==
  /\ \A k, l \in DOMAIN stack : stack[k] = stack[l] => k = l
  /\ \A k, l \in DOMAIN path : path[k] = path[l] => k = l
=============================================================================

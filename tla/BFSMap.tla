------------------------------- MODULE BFSMap -------------------------------
(***************************************************************************)
(* The maps of src/bfs.c.                                                  *)
(***************************************************************************)
EXTENDS Integers

CONSTANTS MAP_X, MAP_Y,
          Walls,     \* the sets of walls that maps may have
          Starts     \* where the client may start

ASSUME SizeAssumption == MAP_X \in Nat \ {0} /\ MAP_Y \in Nat \ {0}

Cells == (0 .. MAP_X - 1) \X (0 .. MAP_Y - 1)

ASSUME ClientAssumption == Walls \subseteq SUBSET Cells /\ Starts \subseteq Cells

\* The neighbours of a cell in the order of the calls.
Beside(c, k) ==
  CASE k = 1 -> <<c[1] - 1, c[2]>>
    [] k = 2 -> <<c[1], c[2] - 1>>
    [] k = 3 -> <<c[1] + 1, c[2]>>
    [] k = 4 -> <<c[1], c[2] + 1>>
=============================================================================

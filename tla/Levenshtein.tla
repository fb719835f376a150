----------------------------- MODULE Levenshtein -----------------------------
(***************************************************************************)
(* src/levenshtein.c: the edit distance of two texts, a row of the table at*)
(* a time in one buffer.  Its last element is read in the first row before *)
(* it is written (lines 36-50): what malloc returned is in it, which is any*)
(* number.                                                                 *)
(***************************************************************************)
EXTENDS Naturals, Sequences

CONSTANTS
  Texts,     \* those compared, sequences of letters
  Garbage    \* what the last element of the buffer may hold

VARIABLES a, b, answer     \* the two texts and what distance returned

vars == <<a, b, answer>>

Init == a = <<>> /\ b = <<>> /\ answer = 0

Least(x, y) == IF x < y THEN x ELSE y

\* Fault: on a match the cost is that of the row before, straight above.
CostAbove(x, y, i, j, buffer, previous) ==
  IF x[i + 1] = y[j + 1] THEN buffer[j + 1]
  ELSE Least(Least(previous, buffer[j + 1]), buffer[j]) + 1

Cost(x, y, i, j, buffer, previous) ==
  IF x[i + 1] = y[j + 1] THEN buffer[j]
  ELSE Least(Least(previous, buffer[j + 1]), buffer[j]) + 1

\* The two loops, from row i and column j.
RECURSIVE Rows(_, _, _, _, _, _)
Rows(x, y, i, j, buffer, previous) ==
  LET m == Len(y)
  IN  CASE i = Len(x)           -> buffer[m]
        [] i < Len(x) /\ j = m  -> Rows(x, y, i + 1, 0, [buffer EXCEPT ![m] = previous], i + 2)
        [] i < Len(x) /\ j < m  ->
             Rows(x, y, i, j + 1, [buffer EXCEPT ![j] = previous], Cost(x, y, i, j, buffer, previous))

distance(x, y, garbage) ==
  CASE x = <<>> -> Len(y)
    [] x # <<>> /\ y = <<>> -> Len(x)
    [] x # <<>> /\ y # <<>> ->
         LET short == IF Len(y) < Len(x) THEN y ELSE x
             long == IF Len(y) < Len(x) THEN x ELSE y
             m == Len(long)
         IN  Rows(short, long, 0, 0, [j \in 0 .. m |-> IF j < m THEN j ELSE garbage], 1)

Compare ==
  /\ a = <<>> /\ b = <<>>
  /\ a' \in Texts /\ b' \in Texts
  /\ \E garbage \in Garbage : answer' = distance(a', b', garbage)

Next == Compare

Spec == Init /\ [][Next]_vars

-----------------------------------------------------------------------------
(* Properties.                                                             *)

\* The least number of letters to insert, delete or replace.
RECURSIVE Edits(_, _)
Edits(x, y) ==
  CASE x = <<>> -> Len(y)
    [] x # <<>> /\ y = <<>> -> Len(x)
    [] x # <<>> /\ y # <<>> /\ Head(x) = Head(y) -> Edits(Tail(x), Tail(y))
    [] x # <<>> /\ y # <<>> /\ Head(x) # Head(y) ->
         1 + Least(Edits(Tail(x), Tail(y)), Least(Edits(Tail(x), y), Edits(x, Tail(y))))

\* Whatever is in the buffer, distance is right for texts whose distance does not
\* exceed the length of the shorter one; otherwise it may be too small, but not
\* less than that length (lines 36-50).
DistanceRight ==
  LET right == Edits(a, b)
      shorter == Least(Len(a), Len(b))
  IN  /\ answer <= right
      /\ answer < right => shorter > 0 /\ shorter < right /\ shorter <= answer
=============================================================================

-------------------------------- MODULE Lines --------------------------------
(***************************************************************************)
(* src/lines.c: set_line draws a line between two points of a mask, a pixel*)
(* per round of its loop.                                                  *)
(***************************************************************************)
EXTENDS Integers, FiniteSets

CONSTANTS WIDTH, HEIGHT

Pixels == (0 .. WIDTH - 1) \X (0 .. HEIGHT - 1)

VARIABLES
  pc,              \* "call", "loop" or "return"
  mask,            \* the pixels that are set
  from, to,        \* the ends of the line
  x0, y0, error_a

vars == <<pc, mask, from, to, x0, y0, error_a>>

Abs(x) == IF x < 0 THEN -x ELSE x
x_delta == Abs(to[1] - from[1])
y_delta == Abs(to[2] - from[2])
x_sign == IF from[1] < to[1] THEN 1 ELSE -1
y_sign == IF from[2] < to[2] THEN 1 ELSE -1

Init ==
  /\ pc = "call"
  /\ mask = {}
  /\ from = <<0, 0>> /\ to = <<0, 0>>
  /\ x0 = 0 /\ y0 = 0
  /\ error_a = 0

\* Division by two goes towards 0.
set_line ==
  /\ pc = "call"
  /\ pc' = "loop"
  /\ from' \in Pixels /\ to' \in Pixels
  /\ x0' = from'[1] /\ y0' = from'[2]
  /\ error_a' = IF y_delta' < x_delta' THEN x_delta' \div 2 ELSE -(y_delta' \div 2)
  /\ UNCHANGED mask

\* Fault: the second condition sees the error after the first has changed it.
StepUpdated ==
  LET right == -x_delta < error_a
      error_b == IF right THEN error_a - y_delta ELSE error_a
      down == error_b < y_delta
  IN  /\ x0' = IF right THEN x0 + x_sign ELSE x0
      /\ y0' = IF down THEN y0 + y_sign ELSE y0
      /\ error_a' = error_b + (IF down THEN x_delta ELSE 0)

Step ==
  LET right == -x_delta < error_a
      down == error_a < y_delta
  IN  /\ x0' = IF right THEN x0 + x_sign ELSE x0
      /\ y0' = IF down THEN y0 + y_sign ELSE y0
      /\ error_a' = error_a - (IF right THEN y_delta ELSE 0) + (IF down THEN x_delta ELSE 0)

\* A pixel is set, and unless it is the last the loop moves on.
Draw ==
  /\ pc = "loop"
  /\ mask' = mask \cup {<<x0, y0>>}
  /\ IF <<x0, y0>> = to
     THEN pc' = "return" /\ UNCHANGED <<x0, y0, error_a>>
     ELSE pc' = "loop" /\ Step
  /\ UNCHANGED <<from, to>>

Next == set_line \/ Draw

Spec == Init /\ [][Next]_vars

-----------------------------------------------------------------------------
(* Properties.                                                             *)

Longer == IF x_delta < y_delta THEN y_delta ELSE x_delta

\* The loop never passes the end, so it never leaves the mask and ends: every pixel
\* it comes to is a different one between the ends and no more than half a pixel
\* away from the line, in the direction in which the line is shorter; and the last
\* of a line's pixels is its end (lines 111-126).
LineDrawn ==
  /\ pc \in {"loop", "return"} =>
       /\ <<x0, y0>> \in Pixels
       /\ 2 * Abs((x0 - from[1]) * (to[2] - from[2]) - (y0 - from[2]) * (to[1] - from[1])) <= Longer
  /\ pc = "loop" => <<x0, y0>> \notin mask /\ Cardinality(mask) <= Longer
  /\ pc = "return" => <<x0, y0>> = to /\ to \in mask /\ Cardinality(mask) = Longer + 1
=============================================================================

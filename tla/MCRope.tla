------------------------------- MODULE MCRope -------------------------------
(* A few nodes, two characters, and positions on both sides of the text.     *)
EXTENDS Rope

CONSTANTS a, b

ShortStrings == {<<a>>, <<b, a>>}
NearPositions == {-1, 1, 2, 4}
\* The last is as long as an i8 can say.
Forward == {r \in NearPositions \X NearPositions : r[1] <= r[2]} \cup {<<0, 1>>, <<-1, 126>>}
AnyOrder == NearPositions \X NearPositions
=============================================================================

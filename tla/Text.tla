-------------------------------- MODULE Text --------------------------------
(***************************************************************************)
(* What src/rope.c promises: a text that is edited at positions.  A        *)
(* position before the text means its start, one behind it its end.  A call*)
(* ends the program if its text would be longer than LIMIT, and only then. *)
(***************************************************************************)
EXTENDS Integers, Sequences

CONSTANTS
  Strings,    \* the strings the client makes
  Positions,  \* the positions it passes
  Ranges,     \* the pairs of positions it deletes between
  LIMIT       \* the longest text that there is memory for

VARIABLES
  text,
  open,  \* the program has not ended
  call   \* the last call, with its arguments

vars == <<text, open, call>>

Clip(s, i) == IF i < 0 THEN 0 ELSE IF i > Len(s) THEN Len(s) ELSE i
Take(s, i) == SubSeq(s, 1, Clip(s, i))
Drop(s, i) == SubSeq(s, Clip(s, i) + 1, Len(s))

Fits(s) == Len(s) <= LIMIT

Init ==
  \E s \in Strings :
    /\ call = <<"new", s>>
    /\ open = Fits(s) /\ text = IF Fits(s) THEN s ELSE <<>>

\* The call asked for makes the text s, or ends the program.
Make(asked, s) ==
  /\ open /\ call' = asked
  /\ open' = Fits(s) /\ text' = IF Fits(s) THEN s ELSE text

Insert(s, i) == Make(<<"insert", s, i>>, Take(text, i) \o s \o Drop(text, i))
InsertInto(s, i) == Make(<<"insert_into", s, i>>, Take(s, i) \o text \o Drop(s, i))

\* The range's length is what is deleted, also when it starts before the text.
Delete(i, j) == Make(<<"delete", i, j>>, Take(text, i) \o Drop(Drop(text, i), j - i))

Balance == Make(<<"balance">>, text)

Next ==
  \/ \E s \in Strings, i \in Positions : Insert(s, i) \/ InsertInto(s, i)
  \/ \E r \in Ranges : Delete(r[1], r[2])
  \/ Balance

Spec == Init /\ [][Next]_vars
=============================================================================

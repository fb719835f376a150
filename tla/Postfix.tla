------------------------------ MODULE Postfix -------------------------------
(***************************************************************************)
(* src/postfix.c: get_postfix writes an infix regex in the postfix notation*)
(* that src/regex.c reads, in one pass and without a tree.  At each depth  *)
(* of parentheses it counts the operands that wait for a CONCAT and the    *)
(* bars that wait for the end.  It is sequential and keeps nothing, so it  *)
(* is one step.                                                            *)
(***************************************************************************)
EXTENDS Integers, SequencesExt

CONSTANTS
  Alphabet,
  Expressions,      \* the texts it is called with
  POSTFIX_STACK     \* STACK_CAP, the depth of parentheses

Re == INSTANCE Regex

VARIABLES
  expression,   \* get_postfix's argument, <<>> before the call
  outcome,      \* "none", "exit" or "text"
  output        \* the text

vars == <<expression, outcome, output>>

Init == expression = <<>> /\ outcome = "none" /\ output = <<>>

\* The pass at work: its OpCounter, those of the open parentheses, innermost last,
\* what is written, and whether exit() was not called.
Counter == [concat |-> 0, either |-> 0]
Start == [counter |-> Counter, stack |-> <<>>, buffer |-> <<>>, ok |-> TRUE]

Times(n, c) == [k \in 1 .. n |-> c]

\* A CONCAT for two operands that wait, before there is a third.
OneJoined(p) ==
  IF 1 < p.counter.concat
  THEN [p EXCEPT !.counter.concat = @ - 1, !.buffer = Append(@, Re!CONCAT)] ELSE p

\* The loops while (0 < --counter.concat) and while (0 < counter.either--).
AllJoined(p) ==
  [p EXCEPT !.counter.concat = 0, !.buffer = @ \o Times(p.counter.concat - 1, Re!CONCAT)]
AllEither(p) == [p EXCEPT !.buffer = @ \o Times(p.counter.either, "|")]

Operand(p) == [p EXCEPT !.counter.concat = @ + 1]

\* Fault: the bars outside the parenthesis are counted inside it too.
OpenCounting(p) ==
  LET joined == OneJoined(p)
  IN  [joined EXCEPT !.stack = Append(@, joined.counter), !.counter.concat = 0]

Open(p) ==
  LET joined == OneJoined(p)
  IN  [joined EXCEPT !.stack = Append(@, joined.counter), !.counter = Counter]
Close(p) ==
  Operand([AllEither(AllJoined(p)) EXCEPT !.counter = Last(p.stack), !.stack = Front(@)])

\* One character of the loop.
Refuses(p, token) ==
  \/ token = Re!CONCAT
  \/ token = "(" /\ POSTFIX_STACK <= Len(p.stack)
  \/ token = ")" /\ p.stack = <<>>
  \/ token \in {"|", ")"} \cup Re!Repeats /\ p.counter.concat = 0
Read(p, token) ==
  CASE ~p.ok \/ Refuses(p, token) -> [p EXCEPT !.ok = FALSE]
    [] token = "(" -> Open(p)
    [] token = ")" -> Close(p)
    [] token = "|" -> [AllJoined(p) EXCEPT !.counter.either = @ + 1]
    [] token \in Re!Repeats -> [p EXCEPT !.buffer = Append(@, token)]
    [] OTHER -> Operand([OneJoined(p) EXCEPT !.buffer = Append(@, token)])

get_postfix(r) ==
  LET p == FoldLeft(Read, Start, r)
  IN  /\ expression' = r
      /\ IF r = <<>> \/ ~p.ok \/ p.stack # <<>> THEN outcome' = "exit" /\ output' = <<>>
         ELSE outcome' = "text" /\ output' = AllEither(AllJoined(p)).buffer

Next == outcome = "none" /\ \E r \in Expressions : get_postfix(r)

Spec == Init /\ [][Next]_vars

-----------------------------------------------------------------------------
(* Properties.                                                             *)

Deep(r) ==
  \E k \in DOMAIN r : POSTFIX_STACK < Re!Count(SubSeq(r, 1, k), "(") - Re!Count(Re!Before(r, k), ")")

\* What get_postfix makes of a regex is the postfix of one with the same words,
\* however bars, repeats and parentheses are nested, and it fits its buffer of twice
\* the length with the terminator (line 30).  It exits for what is not a regex or is
\* too deep; the one thing that passes its tests and is none, a bar at the end,
\* becomes a text that regex.c refuses.
PostfixRight ==
  /\ outcome = "exit" => ~Re!Valid(expression) \/ Deep(expression)
  /\ outcome = "text" =>
       /\ Len(output) < 2 * Len(expression)
       /\ IF Re!Valid(expression)
          THEN /\ Re!Postfix(output) # {}
               /\ \A e \in Re!Postfix(output) :
                    Re!Language(e, 3) = Re!Language(Re!Parsed(expression), 3)
          ELSE Last(expression) = "|" /\ Re!Postfix(output) = {}
=============================================================================

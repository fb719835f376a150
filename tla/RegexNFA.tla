------------------------------ MODULE RegexNFA ------------------------------
(***************************************************************************)
(* src/regex.c: a postfix regex becomes an automaton whose states carry a  *)
(* character or up to two silent arrows; get_match follows all states of   *)
(* the automaton at once.  get_nfa and get_match are sequential and keep   *)
(* nothing but the automaton, so each is one step.                         *)
(*                                                                         *)
(* A state is its index in memory->states and 0 is NULL; a state of type   *)
(* EPSILON is one without a token.                                         *)
(***************************************************************************)
EXTENDS Naturals, SequencesExt

CONSTANTS
  Alphabet,
  Exprs,      \* the postfix expressions the client compiles
  Inputs,     \* the strings it matches
  STATE_CAP, STACK_CAP

Re == INSTANCE Regex

VARIABLES
  postfix_expr, states, link,   \* get_nfa's argument and result; <<0, 0>> if it exits
  input, answer                 \* get_match's; "match", "no match", "exit" or "none"

vars == <<postfix_expr, states, link, input, answer>>

EPSILON == ""
Epsilon == [next |-> 0, next_split |-> 0, token |-> EPSILON, end |-> FALSE]
NoLink == <<0, 0>>

Init == postfix_expr = <<>> /\ states = <<>> /\ link = NoLink /\ input = <<>> /\ answer = "none"

-----------------------------------------------------------------------------
(* get_nfa, a fold over the characters with m == [states, links, ok].      *)

\* Fault: the character repeated is not given back to the loop.
ArrowsOnce(op, s, f, l, a) ==
  CASE op = "?" -> [s EXCEPT ![f].next = l, ![f].next_split = a[1], ![a[2]].next = l]
    [] op = "*" -> [s EXCEPT ![f].next = l, ![f].next_split = a[1], ![a[2]].next = l]
    [] op = "+" -> [s EXCEPT ![f].next = a[1], ![a[2]].next = l, ![a[2]].next_split = a[1]]

\* The arrows between the new states f and l and the operand a.
Arrows(op, s, f, l, a) ==
  CASE op = "?" -> [s EXCEPT ![f].next = l, ![f].next_split = a[1], ![a[2]].next = l]
    [] op = "*" -> [s EXCEPT ![f].next = l, ![f].next_split = a[1],
                             ![a[2]].next = l, ![a[2]].next_split = a[1]]
    [] op = "+" -> [s EXCEPT ![f].next = a[1], ![a[2]].next = l, ![a[2]].next_split = a[1]]

set_op(m, op) ==
  LET n == Len(m.links)
      f == Len(m.states) + 1
      l == f + 1
      new == m.states \o <<Epsilon, Epsilon>>
      room == l <= STATE_CAP
      fail == [m EXCEPT !.ok = FALSE]
      To(s, k, ln) == [states |-> s, links |-> Append(SubSeq(m.links, 1, n - k), ln), ok |-> TRUE]
  IN  CASE ~m.ok -> m
        [] m.ok /\ op = Re!CONCAT ->
             IF n < 2 THEN fail
             ELSE LET a == m.links[n - 1]
                      b == m.links[n]
                  IN  To([m.states EXCEPT ![a[2]].next = b[1]], 2, <<a[1], b[2]>>)
        [] m.ok /\ op = "|" ->
             IF n < 2 \/ ~room THEN fail
             ELSE LET a == m.links[n - 1]
                      b == m.links[n]
                  IN  To([new EXCEPT ![f].next = a[1], ![f].next_split = b[1],
                                     ![a[2]].next = l, ![b[2]].next = l], 2, <<f, l>>)
        [] m.ok /\ op \in Re!Repeats ->
             IF n < 1 \/ ~room THEN fail
             ELSE To(Arrows(op, new, f, l, m.links[n]), 1, <<f, l>>)
        [] OTHER ->
             IF STACK_CAP <= n \/ ~room THEN fail
             ELSE To([new EXCEPT ![f].token = op, ![f].next = l], 0, <<f, l>>)

get_nfa ==
  /\ postfix_expr = <<>>
  /\ postfix_expr' \in Exprs
  /\ LET m == FoldLeft(set_op, [states |-> <<>>, links |-> <<>>, ok |-> TRUE], postfix_expr')
     IN  IF m.ok /\ Len(m.links) = 1
         THEN link' = m.links[1] /\ states' = [m.states EXCEPT ![link'[2]].end = TRUE]
         ELSE link' = NoLink /\ states' = <<>>
  /\ UNCHANGED <<input, answer>>

-----------------------------------------------------------------------------
(* get_match.                                                              *)

Full(stack) == Len(stack) > STACK_CAP
Arrow(s) == SelectSeq(<<s.next, s.next_split>>, LAMBDA t : t # 0)

RECURSIVE Silent(_)
\* get_empty_match's loop: depth first, and no state is remembered.
Silent(stack) ==
  LET s == states[Last(stack)]
  IN  CASE Full(stack) -> "exit"
        [] stack = <<>> -> "no match"
        [] ~Full(stack) /\ stack # <<>> /\ s.token = EPSILON ->
             IF s.end THEN "match" ELSE Silent(Front(stack) \o Arrow(s))
        [] OTHER -> Silent(Front(stack))

get_empty_match(first) == IF states[first].token # EPSILON THEN "no match" ELSE Silent(<<first>>)

\* One state of stack_all.
Visit(m, k) ==
  IF Contains(m.visited, k) THEN m
  ELSE IF states[k].token = EPSILON
       THEN [m EXCEPT !.buffer = @ \o Arrow(states[k]), !.visited = Append(@, k)]
       ELSE [m EXCEPT !.tokens = Append(@, k), !.visited = Append(@, k)]

RECURSIVE Expand(_)
\* Rounds of the inner loop, until the buffer stays empty.
Expand(m) ==
  LET round == FoldLeft(Visit, [m EXCEPT !.buffer = <<>>], m.buffer)
  IN  IF round.buffer = <<>> \/ Full(round.buffer) \/ Full(round.visited) \/ Full(round.tokens)
      THEN round ELSE Expand(round)

RECURSIVE Terminal(_)
\* Whether the end is found from state k by following next.
Terminal(k) ==
  IF k = 0 THEN FALSE
  ELSE states[k].token = EPSILON /\ (states[k].end \/ Terminal(states[k].next))

RECURSIVE MatchFrom(_, _)
\* get_match's loop from the states all, with the string s left to read.
MatchFrom(all, s) ==
  LET m == Expand([buffer |-> all, visited |-> <<>>, tokens |-> <<>>])
      hits == SelectSeq(m.tokens, LAMBDA k : states[k].token = s[1] /\ states[k].next # 0)
      nexts == [k \in DOMAIN hits |-> states[hits[k]].next]
  IN  IF Full(m.buffer) \/ Full(m.visited) \/ Full(m.tokens) THEN "exit"
      ELSE IF Len(s) = 1
           THEN IF \E k \in DOMAIN nexts : Terminal(nexts[k]) THEN "match" ELSE "no match"
           ELSE IF nexts = <<>> THEN "no match" ELSE MatchFrom(nexts, Tail(s))

get_match(s) ==
  /\ link # NoLink
  /\ input' = s
  /\ answer' = IF s = <<>> THEN get_empty_match(link[1]) ELSE MatchFrom(<<link[1]>>, s)
  /\ UNCHANGED <<postfix_expr, states, link>>

Next == get_nfa \/ \E s \in Inputs : get_match(s)

Spec == Init /\ [][Next]_vars

-----------------------------------------------------------------------------
(* Properties.                                                             *)

Meant == CHOOSE e \in Re!Postfix(postfix_expr) : TRUE
Language == Re!Language(Meant, Len(input))

\* An alternative whose second branch may be empty: get_match does not see that it
\* may be left at the end of the string.
HidesTheEnd == \E e \in Re!Subexpressions(Meant) : e[1] = "|" /\ Re!Nullable(e[3])

\* A loop around something that may be empty: get_empty_match runs in it until its
\* stack is full.
LoopsOnNothing == \E e \in Re!Subexpressions(Meant) : e[1] \in {"*", "+"} /\ Re!Nullable(e[2])

\* get_nfa makes an automaton of what is a postfix expression.  What get_match calls
\* a match is one; what it does not is none, but for the expressions that hide the
\* end; and it exits only when there are more states than its stacks hold, or on the
\* empty string, in a loop around nothing.
AnswersRight ==
  /\ link # NoLink => Re!Postfix(postfix_expr) # {}
  /\ link = NoLink => \/ Re!Postfix(postfix_expr) = {}
                      \/ 2 * Len(postfix_expr) > STATE_CAP
  /\ answer = "match" => input \in Language
  /\ answer = "no match" => input \notin Language \/ (input # <<>> /\ HidesTheEnd)
  /\ answer = "exit" => STACK_CAP < Len(states) \/ (input = <<>> /\ LoopsOnNothing)

\* The NOTE at lines 341-345: it is safe to search for the end by following next
\* when the loops are inscribed onto next_split, so a string of the language matches.
NextReachesEnd == answer = "no match" => input \notin Language
=============================================================================

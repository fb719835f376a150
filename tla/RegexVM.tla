------------------------------ MODULE RegexVM ------------------------------
(***************************************************************************)
(* src/regex_vm.c: a regex is tokenised, parsed by binding powers, emitted *)
(* as instructions with labels and resolved to a program; search runs every*)
(* thread of the program over the string in lockstep, from each start.     *)
(*                                                                         *)
(* compile is sequential and reads only its argument: it is one step.  Each*)
(* turn of search's inner loop is a step.  A character is its token.  The  *)
(* flags are memory of their own beside the buffers, which search does not *)
(* own: they stay as they are until a memset clears them.                  *)
(***************************************************************************)
EXTENDS Naturals, SequencesExt

CONSTANTS
  Alphabet,
  Regexes,    \* the regexes the client compiles
  Strings,    \* the strings it searches
  CAP_TOKENS, CAP_EXPRS, CAP_PRE_INSTS, CAP_LABELS, CAP_INSTS, CAP_STRING, CAP_THREADS

Re == INSTANCE Regex

VARIABLES
  pc,             \* "start", "refused" (compile exits), "ready", "search", "done" or "exit"
  regex, insts,   \* compile's argument and its result
  string,         \* search's argument
  i, j,           \* its loop counters
  current, next,  \* Threads: buffer, a sequence of <<index, start>>, and flags, the
                  \* set of the <<index, start>> with flags[index] >> start & 1
  result

vars == <<pc, regex, insts, string, i, j, current, next, result>>

CONCAT == Re!CONCAT
Nothing == [start |-> 0, end |-> 0, match |-> FALSE]
NoThreads == [buffer |-> <<>>, flags |-> {}]

Init ==
  /\ pc = "start" /\ regex = <<>> /\ insts = <<>> /\ string = <<>>
  /\ i = 0 /\ j = 0 /\ current = NoThreads /\ next = NoThreads /\ result = Nothing

-----------------------------------------------------------------------------
(* compile.                                                                *)

SET_CONCAT(tokens) ==
  IF tokens # <<>> /\ Last(tokens) \notin {"|", CONCAT, "("}
  THEN Append(tokens, CONCAT) ELSE tokens

set_token(m, char) ==
  [tokens |-> Append(IF char \in {"|", ")"} \cup Re!Repeats THEN m.tokens ELSE SET_CONCAT(m.tokens), char),
   open   |-> m.open + (IF char = "(" THEN 1 ELSE 0),
   close  |-> m.close + (IF char = ")" THEN 1 ELSE 0),
   ok     |-> m.ok /\ m.open >= m.close]

set_tokens(s) ==
  LET m == FoldLeft(set_token, [tokens |-> <<>>, open |-> 0, close |-> 0, ok |-> TRUE], s)
  IN  [tokens |-> m.tokens, ok |-> m.ok /\ m.open = m.close /\ Len(m.tokens) <= CAP_TOKENS]

BINDING_INIT == 0
BINDING_PAREN == BINDING_INIT

\* Fault: | binds tighter than juxtaposition.
BindingSwapped(token) == CASE token = "|" -> 2 [] token = CONCAT -> 1 [] OTHER -> 3

Binding(token) == CASE token = "|" -> 1 [] token = CONCAT -> 2 [] OTHER -> 3

\* A parser: the expression so far, the next token, the expressions allocated.
Parser(expr, cur, len, ok) == [expr |-> expr, cur |-> cur, len |-> len, ok |-> ok /\ len <= CAP_EXPRS]
Null == <<"empty">>

RECURSIVE parse_expr(_, _, _, _), parse_rest(_, _, _)

\* parse_expr from token cur with len expressions allocated.
parse_expr(tokens, cur, len, prev_binding) ==
  IF Len(tokens) < cur THEN Parser(Null, cur, len, TRUE)
  ELSE CASE tokens[cur] = "(" ->
              parse_rest(tokens, parse_expr(tokens, cur + 1, len + 1, BINDING_PAREN), prev_binding)
         [] tokens[cur] \in {"|", ")", CONCAT} \cup Re!Repeats -> Parser(Null, cur, len, FALSE)
         [] OTHER ->
              parse_rest(tokens, Parser(<<"char", tokens[cur]>>, cur + 1, len + 1, TRUE), prev_binding)

\* Its loop, once p holds an expression.
parse_rest(tokens, p, prev_binding) ==
  LET token == tokens[p.cur]
      stops == Binding(token) < prev_binding
  IN  IF ~p.ok \/ Len(tokens) < p.cur THEN p
      ELSE CASE token \in Re!Infixes /\ stops -> Parser(p.expr, p.cur, p.len + 1, TRUE)
             [] token \in Re!Infixes /\ ~stops ->
                  LET right == parse_expr(tokens, p.cur + 1, p.len + 1, Binding(token))
                  IN  parse_rest(tokens, [right EXCEPT !.expr = <<token, p.expr, @>>], prev_binding)
             [] token \in Re!Repeats /\ stops -> Parser(p.expr, p.cur, p.len + 1, TRUE)
             [] token \in Re!Repeats /\ ~stops ->
                  parse_rest(tokens, Parser(<<token, p.expr>>, p.cur + 1, p.len + 1, TRUE), prev_binding)
             [] token = "(" ->
                  parse_rest(tokens, parse_expr(tokens, p.cur + 1, p.len, BINDING_PAREN), prev_binding)
             [] token = ")" ->
                  IF BINDING_PAREN < prev_binding THEN p ELSE [p EXCEPT !.cur = @ + 1]
             [] OTHER -> [p EXCEPT !.ok = FALSE]

\* The emitted code: instructions whose operands are labels, and labels taken.
Label(l) == <<"label", l>>
Split(k, l) == <<"split", k, l>>
Jump(l) == <<"jump", l>>
Put(m, pre_insts) == [m EXCEPT !.pre_insts = @ \o pre_insts]

RECURSIVE emit(_, _)
emit(m, expr) ==
  LET l == m.len_labels
      Take(k) == [m EXCEPT !.len_labels = @ + k]
  IN  CASE expr = Null -> m
        [] expr[1] = "char" -> Put(m, <<expr>>)
        [] expr[1] = CONCAT -> emit(emit(m, expr[2]), expr[3])
        [] expr[1] = "|" ->
             LET left  == emit(Put(Take(3), <<Split(l, l + 1), Label(l)>>), expr[2])
                 right == emit(Put(left, <<Jump(l + 2), Label(l + 1)>>), expr[3])
             IN  Put(right, <<Label(l + 2)>>)
        [] expr[1] = "?" ->
             Put(emit(Put(Take(2), <<Split(l, l + 1), Label(l)>>), expr[2]), <<Label(l + 1)>>)
        [] expr[1] = "*" ->
             Put(emit(Put(Take(3), <<Label(l), Split(l + 1, l + 2), Label(l + 1)>>), expr[2]),
                 <<Jump(l), Label(l + 2)>>)
        [] expr[1] = "+" ->
             Put(emit(Put(Take(2), <<Label(l)>>), expr[2]), <<Split(l, l + 1), Label(l + 1)>>)

\* The labels' lines, then the instructions without labels; lines count from 0.
resolve_labels(m) ==
  LET isCode(p) == p[1] # "label"
      line(l) == LET at == CHOOSE k \in DOMAIN m.pre_insts : m.pre_insts[k] = Label(l)
                 IN  Len(SelectSeq(SubSeq(m.pre_insts, 1, at), isCode))
      code == SelectSeq(m.pre_insts, isCode)
      resolved == [k \in DOMAIN code |->
        CASE code[k][1] = "jump"  -> Jump(line(code[k][2]))
          [] code[k][1] = "split" -> Split(line(code[k][2]), line(code[k][3]))
          [] OTHER -> code[k]]
  IN  [insts |-> resolved,
       ok    |-> /\ m.len_labels < CAP_LABELS
                 /\ Len(m.pre_insts) <= CAP_PRE_INSTS
                 /\ Len(code) <= CAP_INSTS
                 /\ \A k \in DOMAIN code : code[k][1] \in {"jump", "split"} =>
                      \A n \in 2 .. Len(code[k]) : resolved[k][n] < Len(code)]

Refused == [insts |-> <<>>, ok |-> FALSE]

Compiled(s) ==
  LET t == set_tokens(s)
      p == parse_expr(t.tokens, 1, 0, BINDING_INIT)
      m == emit([pre_insts |-> <<>>, len_labels |-> 0], p.expr)
  IN  IF t.ok THEN IF p.ok THEN resolve_labels(Put(m, <<<<"match">>>>)) ELSE Refused ELSE Refused

compile ==
  /\ pc = "start"
  /\ regex' \in Regexes
  /\ LET c == Compiled(regex')
     IN  insts' = c.insts /\ pc' = IF c.ok THEN "ready" ELSE "refused"
  /\ UNCHANGED <<string, i, j, current, next, result>>

-----------------------------------------------------------------------------
(* search.                                                                 *)

\* Fault: the buffer is emptied, but its flags are not cleared.
EmptiedOnly(threads) == [threads EXCEPT !.buffer = <<>>]

\* len = 0 and the memset of the flags.
Emptied(threads) == [threads EXCEPT !.buffer = <<>>, !.flags = {}]

push_threads(threads, index, start) ==
  LET thread == <<index, start>>
  IN  IF thread \in threads.flags THEN threads
      ELSE [buffer |-> Append(threads.buffer, thread), flags |-> threads.flags \cup {thread}]

\* The new threads, unless push_threads exits for want of room.
Pushed(c, n) ==
  IF Len(c.buffer) > CAP_THREADS \/ Len(n.buffer) > CAP_THREADS
  THEN pc' = "exit" /\ UNCHANGED <<current, next>>
  ELSE pc' = "search" /\ current' = c /\ next' = n

\* The thread that starts at position k of s, unless that is its end.
Started(threads, s, k) == IF k < Len(s) THEN push_threads(threads, 0, k) ELSE threads

search(s) ==
  /\ pc \in {"ready", "done"}
  /\ string' = s /\ i' = 0 /\ j' = 0 /\ result' = Nothing
  /\ IF CAP_STRING <= Len(s) THEN pc' = "exit" /\ UNCHANGED <<current, next>>
     ELSE Pushed(Started(Emptied(current), s, 0), Emptied(next))
  /\ UNCHANGED <<regex, insts>>

\* Fault: a match is never replaced, not even an empty one.
FirstFound(r, start, end) ==
  CASE ~r.match -> [start |-> start, end |-> end, match |-> TRUE]
    [] r.match /\ r.start = start /\ r.end < end -> [r EXCEPT !.end = end]
    [] OTHER -> r

Found(r, start, end) ==
  CASE ~r.match \/ r.start = r.end -> [start |-> start, end |-> end, match |-> TRUE]
    [] r.match /\ r.start # r.end /\ r.start = start /\ r.end < end -> [r EXCEPT !.end = end]
    [] OTHER -> r

\* One thread, in the loop over string or in the one at its end (i = string.len).
Thread ==
  /\ pc = "search" /\ j < Len(current.buffer)
  /\ j' = j + 1
  /\ LET index == current.buffer[j + 1][1]
         start == current.buffer[j + 1][2]
         inst  == insts[index + 1]
     IN  /\ CASE inst[1] = "char" /\ i < Len(string) ->
                   Pushed(current, IF string[i + 1] = inst[2]
                                   THEN push_threads(next, index + 1, start) ELSE next)
              [] inst[1] = "jump" -> Pushed(push_threads(current, inst[2], start), next)
              [] inst[1] = "split" ->
                   Pushed(push_threads(push_threads(current, inst[2], start), inst[3], start), next)
              [] OTHER -> UNCHANGED <<pc, current, next>>
         /\ result' = IF inst[1] = "match" THEN Found(result, start, i) ELSE result
  /\ UNCHANGED <<regex, insts, string, i>>

\* The buffers change places with their flags, the one behind is emptied, and the next
\* position is entered.
Advance ==
  /\ pc = "search" /\ j = Len(current.buffer) /\ i < Len(string)
  /\ i' = i + 1 /\ j' = 0
  /\ Pushed(Started(next, string, i + 1), Emptied(current))
  /\ UNCHANGED <<regex, insts, string, result>>

\* The buffers are search's own, but the flags stay in memory.
Return ==
  /\ pc = "search" /\ j = Len(current.buffer) /\ i = Len(string)
  /\ pc' = "done" /\ i' = 0 /\ j' = 0 /\ current' = [current EXCEPT !.buffer = <<>>]
  /\ UNCHANGED <<regex, insts, string, next, result>>

Next == compile \/ Thread \/ Advance \/ Return \/ \E s \in Strings : search(s)

Spec == Init /\ [][Next]_vars

-----------------------------------------------------------------------------
(* What the program means: the lines it can be at after reading a word.    *)

Closure(S) ==
  LET reach[n \in 0 .. Len(insts)] ==
        IF n = 0 THEN S
        ELSE reach[n - 1] \cup UNION {{insts[k + 1][m] : m \in 2 .. Len(insts[k + 1])} :
               k \in {k \in reach[n - 1] : insts[k + 1][1] \in {"jump", "split"}}}
  IN  reach[Len(insts)]

LinesAfter(w) ==
  LET after[n \in 0 .. Len(w)] ==
        Closure(IF n = 0 THEN {0}
                ELSE {k + 1 : k \in {k \in after[n - 1] : insts[k + 1] = <<"char", w[n]>>}})
  IN  after[Len(w)]

Slice(from, to) == SubSeq(string, from + 1, to)
MinOf(a, b) == IF a < b THEN a ELSE b

\* The threads of position k: from every start, every line its slice leads to.
ThreadsAt(k) ==
  UNION {{<<line, s>> : line \in LinesAfter(Slice(s, k))} : s \in 0 .. MinOf(k, Len(string) - 1)}

\* A regex of the client, of which the last alternative may be missing
\* (parse_expr returns NULL at the end of the tokens).
Accepted(r) ==
  r = <<>> \/ Re!Valid(r) \/ (Last(r) = "|" /\ Re!Valid(Front(r)))

\* The tables hold whatever r needs: a token and a CONCAT for each character,
\* two expressions for each token but the first, six instructions and three labels for
\* each character.
Roomy(r) ==
  /\ 2 * Len(r) <= CAP_TOKENS /\ 4 * Len(r) - 2 <= CAP_EXPRS /\ 3 * Len(r) < CAP_LABELS
  /\ 6 * Len(r) + 1 <= CAP_PRE_INSTS /\ 3 * Len(r) + 1 <= CAP_INSTS

-----------------------------------------------------------------------------
(* Properties.                                                             *)

\* compile (lines 611-620) refuses exactly what is not a regex, while its tables
\* have room, and the program it makes of the others has the language of the
\* regex: precedences, nested parentheses, labels and jumps are all right.
CompiledRight ==
  /\ pc = "refused" => ~Accepted(regex) \/ ~Roomy(regex)
  /\ pc = "ready" =>
       /\ Accepted(regex)
       /\ LET language == Re!Language(Re!Parsed(regex), 2)
          IN  \A w \in Re!Words(2) : w \in language <=> Len(insts) - 1 \in LinesAfter(w)

\* At every position the threads are, once each, the lines that the program can be
\* at from every start: none is lost to a flag that another thread set, that an
\* earlier position or search left, or that was cleared with the wrong buffer (lines
\* 663-676 and 725-735), and none is left over.
ThreadsRight ==
  pc = "search" =>
    /\ IsInjective(current.buffer) /\ IsInjective(next.buffer)
    /\ ToSet(current.buffer) \subseteq ThreadsAt(i)
    /\ j = Len(current.buffer) =>
         /\ ToSet(current.buffer) = ThreadsAt(i)
         /\ i < Len(string) =>
              ToSet(next.buffer) = {<<t[1] + 1, t[2]>> :
                t \in {t \in ThreadsAt(i) : insts[t[1] + 1] = <<"char", string[i + 1]>>}}

\* What search returns (lines 687-771).  There is a match iff a slice that starts
\* before the end of the string is in the language; it is not empty if such a slice
\* is not; it is the longest from its start, and no slice ends before the first one
\* from its start.  If all are empty it is the last.  search gives up (lines 666 and
\* 675) only if the string is too long or if the different threads of a position are
\* more than a buffer holds: loops of jumps do not fill it.
SearchRight ==
  /\ pc = "done" =>
       LET language == Re!Language(Re!Parsed(regex), Len(string))
           spans == {<<s, e>> \in (0 .. Len(string) - 1) \X (0 .. Len(string)) :
                      s <= e /\ Slice(s, e) \in language}
           long  == {sp \in spans : sp[1] < sp[2]}
           found == <<result.start, result.end>>
       IN  /\ result.match <=> spans # {}
           /\ result.match /\ long = {} => found = <<Len(string) - 1, Len(string) - 1>>
           /\ long # {} =>
                /\ found \in long
                /\ \A sp \in long : sp[1] = found[1] => sp[2] <= found[2]
                /\ \E sp \in long : sp[1] = found[1] /\ \A other \in long : sp[2] <= other[2]
  /\ pc = "exit" =>
       \/ CAP_STRING <= Len(string)
       \/ \E k \in {i, i + 1} : k <= Len(string) /\ CAP_THREADS < Cardinality(ThreadsAt(k))
=============================================================================

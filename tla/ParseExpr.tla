----------------------------- MODULE ParseExpr -----------------------------
(***************************************************************************)
(* src/parse_expr.c: tokens become a tree by operator precedence.  The     *)
(* parser is sequential and is one step; the nodes it allocates are those  *)
(* of the tree it returns, so their number is taken from the tree.         *)
(***************************************************************************)
EXTENDS Naturals, SequencesExt

CONSTANTS
  Idents, Numbers, Worth,
  Programs,    \* the token sequences the client parses, without TOKEN_END
  CAP_NODES

G == INSTANCE ExprLanguage

VARIABLES
  pc,       \* "start", "parsed" or "exit", in EvalExpr also "evaluated"
  tokens,
  expr      \* the tree that parse_expr returns

vars == <<pc, tokens, expr>>

Init == pc = "start" /\ tokens = <<>> /\ expr = <<>>

\* The token at *tokens.  After an exit, k is 0.
Token(ts, k) == IF k = 0 THEN "EXIT" ELSE IF k <= Len(ts) THEN ts[k] ELSE "END"

At(k, e) == [k |-> k, expr |-> e]
Exit == At(0, <<>>)

\* Fault: = groups to the left like the others.
BindingLeftwards(t) ==
  CASE t = ";" -> <<1, 2>> [] t = "=" -> <<3, 4>> [] t = "+" -> <<5, 6>> [] t = "*" -> <<7, 8>>

\* The left and the right binding of an infix token.
Binding(t) ==
  CASE t = ";" -> <<1, 2>> [] t = "=" -> <<4, 3>> [] t = "+" -> <<5, 6>> [] t = "*" -> <<7, 8>>

BINDING_LEFT == 9
BINDING_RIGHT == 10

RECURSIVE parse_expr(_, _, _, _), parse_fn(_, _, _), parse_rest(_, _, _, _)

\* r if the token at its end is a closing parenthesis, which is read.
Closed(ts, r) == IF Token(ts, r.k) = ")" THEN At(r.k + 1, r.expr) ELSE Exit

\* After \.
parse_fn(ts, k, depth) ==
  IF Token(ts, k) \notin Idents
  THEN LET body == parse_expr(ts, k + 1, 0, depth)
       IN  IF Token(ts, k) = "->" THEN At(body.k, <<"fn0", body.expr>>) ELSE Exit
  ELSE LET body == parse_expr(ts, k + 2, 0, depth)
       IN  IF Token(ts, k + 1) = "->" THEN At(body.k, <<"fn1", ts[k], body.expr>>) ELSE Exit

\* The first operand, and then the loop.
parse_expr(ts, k, binding, depth) ==
  LET t == Token(ts, k)
      operand == CASE t = "("        -> Closed(ts, parse_expr(ts, k + 1, 0, depth + 1))
                   [] t \in G!Atoms  -> At(k + 1, G!AtomOf(t))
                   [] t = "\\"       -> parse_fn(ts, k + 1, depth)
                   [] OTHER          -> Exit
  IN  parse_rest(ts, operand, binding, depth)

\* The loop, from the expression r.  TOKEN_LPAREN is read before the test.
parse_rest(ts, r, binding, depth) ==
  LET t == Token(ts, r.k)
      Continue(arg, e) == parse_rest(ts, At(arg.k, e), binding, depth)
      CallWith(arg) == Continue(arg, G!CallOf(r.expr, arg.expr))
  IN  CASE t \in G!Atoms ->
             IF BINDING_LEFT < binding THEN r ELSE CallWith(parse_expr(ts, r.k, BINDING_RIGHT, depth))
        [] t = "(" ->
             IF BINDING_LEFT < binding THEN At(r.k + 1, r.expr)
             ELSE CallWith(Closed(ts, parse_expr(ts, r.k + 1, 0, depth + 1)))
        [] t = "\\" ->
             IF BINDING_LEFT < binding THEN r ELSE CallWith(parse_fn(ts, r.k + 1, depth))
        [] t \in G!Infixes ->
             IF Binding(t)[1] < binding THEN r
             ELSE LET arg == parse_expr(ts, r.k + 1, Binding(t)[2], depth)
                  IN  Continue(arg, G!InfixOf(t, r.expr, arg.expr))
        [] t = "END" \/ (t = ")" /\ depth # 0) -> r
        [] OTHER -> Exit

RECURSIVE Nodes(_)
Nodes(e) ==
  CASE e[1] \in {"void", "ident", "i64"} -> 1
    [] e[1] = "fn0" -> 1 + Nodes(e[2])
    [] e[1] \in {"fn1", "intrin"} -> 1 + Nodes(e[3])
    [] e[1] = "call" -> 1 + Nodes(e[2]) + Nodes(e[3])

Parse ==
  /\ pc = "start"
  /\ tokens' \in Programs
  /\ LET r == parse_expr(tokens', 1, 0, 0)
     IN  IF r.k = 0 \/ CAP_NODES < Nodes(r.expr)
         THEN pc' = "exit" /\ UNCHANGED expr
         ELSE pc' = "parsed" /\ expr' = r.expr

Next == Parse

Spec == Init /\ [][Next]_vars

-----------------------------------------------------------------------------
(* Properties.                                                             *)

\* A token t after the tokens heard, of which the last was lost or not.
Hear(m, t) ==
  LET n == Len(m.heard)
      argument == n > 1 /\ m.heard[n] \in G!Atoms /\ m.heard[n - 1] \in G!Atoms \cup {")"}
      lost == t = "(" /\ argument /\ ~m.lost
  IN  [heard |-> IF lost THEN m.heard ELSE Append(m.heard, t), lost |-> lost]

\* The tokens as the parser hears them.  An argument that is a name or a number is
\* parsed with the higher binding, and a parenthesis after it is read before the
\* loop returns (lines 421-425): it is lost.
Heard(ts) == FoldLeft(Hear, [heard |-> <<>>, lost |-> FALSE], ts).heard

\* The parser accepts exactly what the grammar writes, and with its tree, in the
\* tokens it hears: precedences, the two ways to group, functions to the end of
\* their parentheses and the nesting of all of these.
ParsedRight ==
  LET trees == G!Trees(Heard(tokens))
  IN  /\ pc = "parsed" => trees = {expr}
      /\ pc = "exit" => \A e \in trees : CAP_NODES < Nodes(e)
=============================================================================

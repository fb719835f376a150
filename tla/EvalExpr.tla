------------------------------ MODULE EvalExpr ------------------------------
(***************************************************************************)
(* src/parse_expr.c: what the parser returns is evaluated.  The evaluator  *)
(* is sequential and is one step.  A value is an expression and the scope  *)
(* it belongs to; arguments are passed as they are.  Scopes are named by   *)
(* their positions, from 1, and 0 is no scope.                             *)
(***************************************************************************)
EXTENDS ParseExpr

LOCAL INSTANCE TLC

CONSTANTS
  CAP_VARS, CAP_SCOPES,
  STACK      \* how many calls of the evaluator the processor's stack has room for

VARIABLE value     \* how the evaluator ended, and what it returned: see Return

Return(m, scope, e) == [m |-> m, scope |-> scope, expr |-> e]
NULL == <<"null">>
Stop(m, why) == Return([m EXCEPT !.status = why], 0, NULL)

\* What follows a call that may have ended the program.
Then(r, Rest(_)) == IF r.m.status = "run" THEN Rest(r) ELSE r

\* The innermost scope from s on that has the variable, or 0.
RECURSIVE lookup_scope(_, _, _)
lookup_scope(m, s, label) ==
  IF s = 0 \/ label \in DOMAIN m.scopes[s].vars THEN s
  ELSE lookup_scope(m, m.scopes[s].next, label)

Set(m, s, label, env) == [m EXCEPT !.scopes[s].vars = (label :> env) @@ @]

push_var(m, s, label, env) ==
  IF m.len_vars < CAP_VARS THEN [Set(m, s, label, env) EXCEPT !.len_vars = @ + 1]
  ELSE [m EXCEPT !.status = "full"]

NoVars == [label \in {} |-> NULL]

push_scope(m, parent) ==
  IF Len(m.scopes) < CAP_SCOPES THEN [m EXCEPT !.scopes = Append(@, [vars |-> NoVars, next |-> parent])]
  ELSE [m EXCEPT !.status = "full"]

alloc_expr_i64(m, s, x) ==
  IF m.len_nodes < CAP_NODES THEN Return([m EXCEPT !.len_nodes = @ + 1], s, <<"i64", x>>)
  ELSE Stop(m, "full")

-----------------------------------------------------------------------------
RECURSIVE eval_expr(_, _, _, _), eval_expr_intrinsic(_, _, _, _, _), eval_expr_call(_, _, _, _, _)

\* d calls still fit the stack.  A name is looked up once: what it stands for is
\* returned as it is.
eval_expr(m, s, e, d) ==
  CASE d = 0 -> Stop(m, "stack")
    [] d > 0 /\ e[1] = "ident" ->
         LET found == lookup_scope(m, s, e[2])
             env == m.scopes[found].vars[e[2]]
         IN  IF found = 0 THEN Stop(m, "exit") ELSE Return(m, env.scope, env.expr)
    [] d > 0 /\ e[1] \in {"i64", "fn0", "fn1", "intrin"} -> Return(m, s, e)
    [] d > 0 /\ e[1] = "call" -> eval_expr_call(m, s, e[2], e[3], d - 1)
    [] d > 0 /\ e[1] = "void" -> Stop(m, "exit")

\* Only a number is let through; the tag of no expression cannot be read.
Number(r) ==
  CASE r.expr = NULL -> Stop(r.m, "crash")
    [] r.expr # NULL /\ r.expr[1] = "i64" -> r
    [] r.expr # NULL /\ r.expr[1] # "i64" -> Stop(r.m, "exit")

\* Fault: an assignment is always to the innermost scope.
assign_inner(r, s, label) ==
  LET env == [scope |-> r.scope, expr |-> r.expr]
      m == IF label \in DOMAIN r.m.scopes[s].vars THEN Set(r.m, s, label, env)
           ELSE push_var(r.m, s, label, env)
  IN  Return(m, s, NULL)

\* A variable that is found anywhere is updated.
assign(r, s, label) ==
  LET env == [scope |-> r.scope, expr |-> r.expr]
      found == lookup_scope(r.m, s, label)
      m == IF found # 0 THEN Set(r.m, found, label, env) ELSE push_var(r.m, s, label, env)
  IN  Return(m, s, NULL)

\* f is the intrinsic with its left operand.
eval_expr_intrinsic(m, s, f, arg, d) ==
  LET Operand(r, e) == Then(eval_expr(r.m, s, e, d), Number)
  IN  CASE f[2] = ";" -> Then(eval_expr(m, s, f[3], d), LAMBDA r : eval_expr(r.m, s, arg, d))
        [] f[2] = "=" ->
             IF f[3][1] # "ident" THEN Stop(m, "exit")
             ELSE Then(eval_expr(m, s, arg, d), LAMBDA r : assign(r, s, f[3][2]))
        [] f[2] \in {"+", "*"} ->
             Then(Operand(Return(m, s, NULL), f[3]), LAMBDA l :
               Then(Operand(l, arg), LAMBDA r :
                 alloc_expr_i64(r.m, s, IF f[2] = "+" THEN l.expr[2] + r.expr[2] ELSE l.expr[2] * r.expr[2])))

\* The argument gets the function's new scope, not that of the call.
eval_expr_call(m, s, f, arg, d) ==
  LET Applied(r) == eval_expr_call(r.m, r.scope, r.expr, arg, d - 1)
      inner == push_scope(m, s)
      new == Len(inner.scopes)
      Body(entered, e) == Then(Return(entered, new, NULL), LAMBDA r : eval_expr(r.m, new, e, d - 1))
  IN  CASE d = 0 -> Stop(m, "stack")
        [] d > 0 /\ f[1] = "intrin" -> eval_expr_intrinsic(m, s, f, arg, d - 1)
        [] d > 0 /\ f[1] = "ident"  -> Then(eval_expr(m, s, f, d - 1), Applied)
        [] d > 0 /\ f[1] = "call"   -> Then(eval_expr_call(m, s, f[2], f[3], d - 1), Applied)
        [] d > 0 /\ f[1] = "fn0"    -> Body(inner, f[2])
        [] d > 0 /\ f[1] = "fn1"    ->
             Body(IF inner.status = "run" THEN push_var(inner, new, f[2], [scope |-> new, expr |-> arg])
                  ELSE inner, f[3])
        [] d > 0 /\ f = NULL        -> Stop(m, "crash")
        [] d > 0 /\ f[1] \in {"i64", "void"} -> Stop(m, "exit")

\* main: the scope of the whole program is the first; no expression cannot be printed.
Evaluated(e) ==
  LET empty == [scopes |-> <<>>, len_vars |-> 0, len_nodes |-> Nodes(e), status |-> "run"]
      r == eval_expr(push_scope(empty, 0), 1, e, STACK)
  IN  [status |-> IF r.m.status = "run" /\ r.expr = NULL THEN "crash" ELSE r.m.status, expr |-> r.expr]

EvalInit == Init /\ value = [status |-> "run", expr |-> NULL]

Eval ==
  /\ pc = "parsed"
  /\ pc' = "evaluated"
  /\ value' = Evaluated(expr)
  /\ UNCHANGED <<tokens, expr>>

EvalNext == (Next /\ UNCHANGED value) \/ Eval

EvalSpec == EvalInit /\ [][EvalNext]_<<vars, value>>
-----------------------------------------------------------------------------
(* Properties.                                                             *)

Outcome ==
  CASE value.status # "run"        -> <<"fail">>
    [] value.status = "run" /\ value.expr[1] = "i64" -> <<"number", value.expr[2]>>
    [] value.status = "run" /\ value.expr[1] \in {"fn0", "fn1"} -> <<"fn">>
    [] OTHER                       -> <<"later">>

\* A number that a program returns is what the language means, although arguments
\* are passed unevaluated and in the scope of the function, unless an argument has
\* a name that is not the whole program's; and a program whose arguments are only
\* values ends as it should, also when it should not end well (lines 567-667).
EvaluatedRight ==
  pc = "evaluated" /\ value.status # "full" /\ ~G!Captures(expr) =>
    LET meant == G!Meaning(expr, STACK)
    IN  /\ value.status # "stack"
        /\ Outcome[1] = "number" => G!Forced(meant, STACK).v = Outcome
        /\ G!ValuesOnly(expr) => Outcome = G!Kind(meant.v)
=============================================================================

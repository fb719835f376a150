------------------------------- MODULE Lambda -------------------------------
(***************************************************************************)
(* What the expressions of src/lambda_lift.c mean: the reference for its   *)
(* two transformations.  The program prints its three lists and runs none; *)
(* the meaning is the one its names say.  A list is worth its last         *)
(* expression; := binds in the scope at hand and = in the nearest one that *)
(* has the variable; a call opens a scope in the one of the function.      *)
(*                                                                         *)
(* The transformed lists say the same with scopes as values: the variables *)
(* that begin with @ are the operations on them, and a pair of a scope and *)
(* a function is called with the scope as its first argument.  A function  *)
(* sees its arguments, its own variables and the functions at the top.     *)
(*                                                                         *)
(* A name is a tuple, so that the labels <<"_s", 0>> can be told from those*)
(* of the client, <<"x">>.  Calls nest at most `fuel` deep.                *)
(***************************************************************************)
EXTENDS Integers, Sequences, FiniteSets, TLC

I64(n) == <<"i64", n>>
Var(name) == <<"var", name>>
Str(name) == <<"str", name>>
Fn(args, exprs) == <<"fn", args, exprs>>
Call(func, args) == <<"call", func, args>>
Assign(name, e) == <<"assign", name, e>>
Update(name, e) == <<"update", name, e>>
Pair(e, f) == <<"pair", e, f>>

NEW_SCOPE == Var(<<"@newScope">>)
NEW_SCOPE_FROM == Var(<<"@newScopeFrom">>)
LOOKUP_SCOPE == Var(<<"@lookupScope">>)
INSERT_SCOPE == Var(<<"@insertScope">>)
UPDATE_SCOPE == Var(<<"@updateScope">>)
Operations == {NEW_SCOPE, NEW_SCOPE_FROM, LOOKUP_SCOPE, INSERT_SCOPE, UPDATE_SCOPE}

Error == <<"error">>
Result(v, scopes, env) == [v |-> v, scopes |-> scopes, env |-> env]

-----------------------------------------------------------------------------
(* Scopes: a sequence of [vars, parent], the parent an earlier one or 0.   *)

NewScope(scopes, parent) == Append(scopes, [vars |-> <<>>, parent |-> parent])

\* The scope at or above k that has the name, or 0.
Holder(scopes, k, name) ==
  LET holder[l \in 0 .. Len(scopes)] ==
        IF l = 0 \/ name \in DOMAIN scopes[l].vars THEN l ELSE holder[scopes[l].parent]
  IN  holder[k]

Insert(scopes, k, name, v) == [scopes EXCEPT ![k].vars = (name :> v) @@ @]

-----------------------------------------------------------------------------
RECURSIVE Eval(_, _, _, _), EvalList(_, _, _, _)

\* The client's expression e in scope k.
Eval(e, k, scopes, fuel) ==
  CASE e[1] = "i64" -> Result(e, scopes, <<>>)
    [] e[1] = "fn"  -> Result(<<"closure", k, e>>, scopes, <<>>)
    [] e[1] = "var" ->
         LET h == Holder(scopes, k, e[2])
         IN  Result(IF h = 0 THEN Error ELSE scopes[h].vars[e[2]], scopes, <<>>)
    [] e[1] \in {"assign", "update"} ->
         LET r == Eval(e[3], k, scopes, fuel)
             h == IF e[1] = "assign" THEN k ELSE Holder(r.scopes, k, e[2])
         IN  IF r.v = Error \/ h = 0 THEN Result(Error, r.scopes, <<>>)
             ELSE Result(r.v, Insert(r.scopes, h, e[2], r.v), <<>>)
    [] e[1] = "call" ->
         LET f == Eval(e[2], k, scopes, fuel)
             a == IF e[3] = <<>> THEN f ELSE Eval(e[3][1], k, f.scopes, fuel)
             fn == f.v[3]
             opened == NewScope(a.scopes, f.v[2])
         IN  IF f.v[1] # "closure" \/ a.v = Error \/ fuel = 0 THEN Result(Error, a.scopes, <<>>)
             ELSE IF Len(fn[2]) # Len(e[3]) THEN Result(Error, a.scopes, <<>>)
             ELSE EvalList(fn[3], Len(opened),
                           IF e[3] = <<>> THEN opened
                           ELSE Insert(opened, Len(opened), fn[2][1], a.v), fuel - 1)

EvalList(exprs, k, scopes, fuel) ==
  LET r == Eval(exprs[1], k, scopes, fuel)
  IN  IF r.v = Error \/ Len(exprs) = 1 THEN r ELSE EvalList(Tail(exprs), k, r.scopes, fuel)

-----------------------------------------------------------------------------
RECURSIVE Run(_, _, _, _, _), RunList(_, _, _, _, _), RunArgs(_, _, _, _, _)

\* The values of the expressions es, in order.
RunArgs(es, funcs, scopes, env, fuel) ==
  IF es = <<>> THEN Result(<<>>, scopes, env)
  ELSE LET r == Run(es[1], funcs, scopes, env, fuel)
           s == RunArgs(Tail(es), funcs, r.scopes, r.env, fuel)
       IN  Result(<<r.v>> \o s.v, s.scopes, s.env)

Fails(vs) == \E m \in DOMAIN vs : vs[m] = Error

\* One of the operations, on values.
Operate(op, vs, scopes, env) ==
  LET k == vs[1][2]
      h == Holder(scopes, k, vs[2][2])
  IN  CASE op = NEW_SCOPE ->
             Result(<<"scope", Len(scopes) + 1>>, NewScope(scopes, 0), env)
        [] op = NEW_SCOPE_FROM ->
             Result(<<"scope", Len(scopes) + 1>>, NewScope(scopes, k), env)
        [] op = LOOKUP_SCOPE ->
             Result(IF h = 0 THEN Error ELSE scopes[h].vars[vs[2][2]], scopes, env)
        [] op = INSERT_SCOPE -> Result(vs[3], Insert(scopes, k, vs[2][2], vs[3]), env)
        [] op = UPDATE_SCOPE ->
             IF h = 0 THEN Result(Error, scopes, env)
             ELSE Result(vs[3], Insert(scopes, h, vs[2][2], vs[3]), env)

\* The transformed expression e, with the variables env of the function at hand
\* and the functions at the top, funcs.
Run(e, funcs, scopes, env, fuel) ==
  CASE e[1] \in {"i64", "str", "fn"} -> Result(e, scopes, env)
    [] e[1] = "var" ->
         Result(CASE e[2] \in DOMAIN env -> env[e[2]]
                  [] e[2] \notin DOMAIN env /\ e[2] \in DOMAIN funcs -> funcs[e[2]]
                  [] OTHER -> Error, scopes, env)
    [] e[1] = "assign" ->
         LET r == Run(e[3], funcs, scopes, env, fuel)
         IN  IF r.v = Error THEN r ELSE Result(r.v, r.scopes, (e[2] :> r.v) @@ r.env)
    [] e[1] = "pair" ->
         LET r == RunArgs(<<e[2], e[3]>>, funcs, scopes, env, fuel)
         IN  Result(IF Fails(r.v) THEN Error ELSE <<"closure", r.v[1], r.v[2]>>, r.scopes, r.env)
    [] e[1] = "call" /\ e[2] \in Operations ->
         LET r == RunArgs(e[3], funcs, scopes, env, fuel)
         IN  IF Fails(r.v) THEN Result(Error, r.scopes, r.env)
             ELSE Operate(e[2], r.v, r.scopes, r.env)
    [] e[1] = "call" /\ e[2] \notin Operations ->
         LET f == Run(e[2], funcs, scopes, env, fuel)
             a == RunArgs(e[3], funcs, f.scopes, f.env, fuel)
             fn == f.v[3]
             args == <<f.v[2]>> \o a.v
             called == RunList(fn[3], funcs, a.scopes,
                               [n \in {fn[2][m] : m \in DOMAIN fn[2]} |->
                                  args[CHOOSE m \in DOMAIN fn[2] : fn[2][m] = n]], fuel - 1)
         IN  IF f.v[1] # "closure" \/ Fails(a.v) \/ fuel = 0 THEN Result(Error, a.scopes, a.env)
             ELSE IF Len(fn[2]) # Len(args) THEN Result(Error, a.scopes, a.env)
             ELSE Result(called.v, called.scopes, a.env)
    [] OTHER -> Result(Error, scopes, env)

RunList(exprs, funcs, scopes, env, fuel) ==
  LET r == Run(exprs[1], funcs, scopes, env, fuel)
  IN  IF r.v = Error \/ Len(exprs) = 1 THEN r
      ELSE RunList(Tail(exprs), funcs, r.scopes, r.env, fuel)

-----------------------------------------------------------------------------
\* What a client sees of a value and of its variables.
Seen(v) == IF v[1] = "closure" THEN <<"function">> ELSE v
SeenOf(r) ==
  IF r.v = Error THEN Error
  ELSE <<Seen(r.v), [n \in DOMAIN r.scopes[1].vars |-> Seen(r.scopes[1].vars[n])]>>

\* What a list of the client means, and what a transformed list does.
Meaning(exprs, fuel) == SeenOf(EvalList(exprs, 1, NewScope(<<>>, 0), fuel))

Behaviour(exprs, fuel) ==
  LET tops == {m \in DOMAIN exprs : exprs[m][1] = "assign" /\ exprs[m][3][1] = "fn"}
      funcs == [n \in {exprs[m][2] : m \in tops} |->
                  exprs[CHOOSE m \in tops : exprs[m][2] = n][3]]
  IN  SeenOf(RunList(exprs, funcs, <<>>, <<>>, fuel))
=============================================================================

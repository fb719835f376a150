----------------------------- MODULE LambdaLift -----------------------------
(***************************************************************************)
(* src/lambda_lift.c: a list of expressions is rewritten in place so that  *)
(* scopes become values (get_top_scope), and then so that every function   *)
(* has a name at the top of the list (map_extract_func and merge_lists).   *)
(*                                                                         *)
(* Each rewriting is sequential and is one step.  No expression is shared, *)
(* so an expression is a tree (see Lambda); a list is the sequence of its  *)
(* expressions, and where `last` is read, [exprs, last] with the position  *)
(* of the node the head's last points to, or 0 for NULL.  The memory is    *)
(* what is left of the tables: a label takes LABEL characters.             *)
(***************************************************************************)
EXTENDS Integers, SequencesExt

CONSTANTS
  Sources,     \* the lists the client makes
  CAP_BUFFER, CAP_EXPRS, CAP_EXPR_LISTS,
  LABEL,       \* the length of a label: 4 below the tenth
  Fuel         \* how deep calls are followed when a list is run

L == INSTANCE Lambda

VARIABLES
  pc,       \* "source", "scoped", "lifted" or "exit"
  source,   \* the list that the client made
  exprs,    \* the list as it is now
  memory    \* [scopes, funcs: COUNT_SCOPES, COUNT_FUNCS; exprs, lists: the tables' lengths]

vars == <<pc, source, exprs, memory>>

RECURSIVE Size(_), Lists(_)
\* The expressions and the list nodes that the client allocates for e.
SizeOfList(es) == FoldLeft(LAMBDA n, e : n + Size(e), 0, es)
ListsOfList(es) == FoldLeft(LAMBDA n, e : n + Lists(e), Len(es), es)
Size(e) ==
  CASE e[1] \in {"i64", "var"} -> 1
    [] e[1] = "fn" -> 1 + SizeOfList(e[3])
    [] e[1] = "call" -> 1 + Size(e[2]) + SizeOfList(e[3])
    [] e[1] \in {"assign", "update"} -> 1 + Size(e[3])
Lists(e) ==
  CASE e[1] \in {"i64", "var"} -> 0
    [] e[1] = "fn" -> ListsOfList(e[3])
    [] e[1] = "call" -> Lists(e[2]) + ListsOfList(e[3]) - Len(e[3])
    [] e[1] \in {"assign", "update"} -> Lists(e[3])

Init ==
  /\ source \in Sources /\ exprs = source /\ pc = "source"
  /\ memory = [scopes |-> 0, funcs |-> 0, exprs |-> SizeOfList(source), lists |-> ListsOfList(source)]

Alloc(m, es, ls) == [m EXCEPT !.exprs = @ + es, !.lists = @ + ls]
At(m, e) == [memory |-> m, expr |-> e]
Fits(m) ==
  /\ (m.scopes + m.funcs) * LABEL <= CAP_BUFFER
  /\ m.exprs <= CAP_EXPRS /\ m.lists <= CAP_EXPR_LISTS

-----------------------------------------------------------------------------
(* get_top_scope.                                                          *)

RECURSIVE inject_scope(_, _, _), map_inject_scope(_, _, _)

get_scope_label(m) == <<"_s", m.scopes>>

\* The expressions es, each rewritten for the scope, with the memory threaded through.
map_inject_scope(m, es, scope) ==
  IF es = <<>> THEN [memory |-> m, exprs |-> <<>>]
  ELSE LET first == inject_scope(m, Head(es), scope)
           rest == map_inject_scope(first.memory, Tail(es), scope)
       IN  [rest EXCEPT !.exprs = <<first.expr>> \o @]

\* Fault: the scope of a call is opened in the top scope, not in the function's.
scope_from_top(scope, parent, args) ==
  <<L!Assign(scope, L!Call(L!NEW_SCOPE_FROM, <<L!Var(<<"_s", 0>>)>>))>> \o
  [n \in DOMAIN args |->
     L!Call(L!INSERT_SCOPE, <<L!Var(scope), L!Str(args[n]), L!Var(args[n])>>)]

\* The expressions put before the body of a function.
scope_prologue(scope, parent, args) ==
  <<L!Assign(scope, L!Call(L!NEW_SCOPE_FROM, <<L!Var(parent)>>))>> \o
  [n \in DOMAIN args |->
     L!Call(L!INSERT_SCOPE, <<L!Var(scope), L!Str(args[n]), L!Var(args[n])>>)]

\* get_inner_scope0 and get_inner_scope1, for no argument and for one.
get_inner_scope(m, es, parent, args) ==
  LET scope == get_scope_label(m)
      body == map_inject_scope([m EXCEPT !.scopes = @ + 1], es, scope)
      n == Len(args)
  IN  [memory |-> Alloc(body.memory, 3 + 4 * n, 1 + n),
       exprs  |-> scope_prologue(scope, parent, args) \o body.exprs]

inject_scope(m, e, scope) ==
  CASE e[1] = "i64" -> At(m, e)
    [] e[1] = "var" ->
         At(Alloc(m, 2, 0), L!Call(L!LOOKUP_SCOPE, <<L!Var(scope), L!Str(e[2])>>))
    [] e[1] \in {"assign", "update"} ->
         LET r == inject_scope(m, e[3], scope)
             op == IF e[1] = "assign" THEN L!INSERT_SCOPE ELSE L!UPDATE_SCOPE
         IN  At(Alloc(r.memory, 2, 0), L!Call(op, <<L!Var(scope), L!Str(e[2]), r.expr>>))
    [] e[1] = "fn" ->
         LET r == get_inner_scope(m, e[3], scope, e[2])
         IN  At(Alloc(r.memory, 2, 0), L!Pair(L!Var(scope), L!Fn(<<scope>> \o e[2], r.exprs)))
    [] e[1] = "call" ->
         LET f == inject_scope(m, e[2], scope)
             a == map_inject_scope(f.memory, e[3], scope)
         IN  At(a.memory, L!Call(f.expr, a.exprs))

get_top_scope ==
  /\ pc = "source"
  /\ LET scope == get_scope_label(memory)
         body == map_inject_scope([memory EXCEPT !.scopes = @ + 1], exprs, scope)
     IN  /\ memory' = Alloc(body.memory, 2, 1)
         /\ exprs' = <<L!Assign(scope, L!Call(L!NEW_SCOPE, <<>>))>> \o body.exprs
  /\ pc' = IF Fits(memory') THEN "scoped" ELSE "exit"
  /\ UNCHANGED source

-----------------------------------------------------------------------------
(* map_extract_func.                                                       *)

NULL == [exprs |-> <<>>, last |-> 0]

\* A list with the node of e at its end.
append_list(list, e) ==
  IF list = NULL THEN [exprs |-> <<e>>, last |-> 0]
  ELSE LET end == IF list.last = 0 THEN 1 ELSE list.last
       IN  [exprs |-> Append(SubSeq(list.exprs, 1, end), e), last |-> end + 1]

\* Fault: last is not moved to the end of the second list.
merge_lists_stale(first, second) ==
  LET end == IF first.last = 0 THEN 1 ELSE first.last
  IN  IF second = NULL THEN first
      ELSE [exprs |-> SubSeq(first.exprs, 1, end) \o second.exprs, last |-> end + 1]

merge_lists(first, second) ==
  LET end == IF first.last = 0 THEN 1 ELSE first.last
  IN  IF second = NULL THEN first
      ELSE [exprs |-> SubSeq(first.exprs, 1, end) \o second.exprs,
            last  |-> end + (IF second.last = 0 THEN 1 ELSE second.last)]

RECURSIVE extract_func(_, _, _), map_extract_func(_, _, _)

\* The expressions es without functions, and the list of those functions.
map_extract_func(m, funcs, es) ==
  IF es = <<>> THEN [memory |-> m, funcs |-> funcs, exprs |-> <<>>]
  ELSE LET first == extract_func(m, funcs, Head(es))
           rest == map_extract_func(first.memory, first.funcs, Tail(es))
       IN  [rest EXCEPT !.exprs = <<first.exprs>> \o @]

\* As map_extract_func, for one expression: exprs is what becomes of it.
extract_func(m, funcs, e) ==
  CASE e[1] \in {"i64", "var", "str"} -> [memory |-> m, funcs |-> funcs, exprs |-> e]
    [] e[1] = "fn" ->
         LET label == <<"_f", m.funcs>>
             body == map_extract_func(Alloc([m EXCEPT !.funcs = @ + 1], 2, 1), NULL, e[3])
             named == append_list(funcs, L!Assign(label, L!Fn(e[2], body.exprs)))
         IN  [memory |-> body.memory, funcs |-> merge_lists(named, body.funcs), exprs |-> L!Var(label)]
    [] e[1] = "call" ->
         LET r == map_extract_func(m, funcs, <<e[2]>> \o e[3])
         IN  [r EXCEPT !.exprs = L!Call(@[1], Tail(@))]
    [] e[1] \in {"assign", "update"} ->
         LET r == extract_func(m, funcs, e[3]) IN [r EXCEPT !.exprs = <<e[1], e[2], @>>]
    [] e[1] = "pair" ->
         LET r == map_extract_func(m, funcs, <<e[2], e[3]>>)
         IN  [r EXCEPT !.exprs = L!Pair(@[1], @[2])]

\* merge_lists exits if there is no function at all.
lift ==
  /\ pc = "scoped"
  /\ LET r == map_extract_func(memory, NULL, exprs)
     IN  /\ memory' = r.memory
         /\ IF r.funcs = NULL \/ ~Fits(memory') THEN pc' = "exit" /\ UNCHANGED exprs
            ELSE /\ pc' = "lifted"
                 /\ exprs' = merge_lists(r.funcs, [exprs |-> r.exprs, last |-> 0]).exprs
  /\ UNCHANGED source

Next == get_top_scope \/ lift

Spec == Init /\ [][Next]_vars

-----------------------------------------------------------------------------
(* Properties.                                                             *)

\* Both rewritings keep what the list means: a variable is found in the scope in
\* which the function was written and not in the one that calls it, an argument
\* hides what is outside, and moving the functions to the top loses none of them
\* and changes no scope (lines 493-593 and 609-686).
MeaningKept ==
  pc \in {"scoped", "lifted"} => L!Behaviour(exprs, Fuel) = L!Meaning(source, Fuel)

RECURSIVE HasFn(_)
HasFn(e) ==
  CASE e[1] \in {"i64", "var", "str"} -> FALSE
    [] e[1] = "fn" -> TRUE
    [] e[1] = "call" -> HasFn(e[2]) \/ \E n \in DOMAIN e[3] : HasFn(e[3][n])
    [] e[1] \in {"assign", "update"} -> HasFn(e[3])
    [] e[1] = "pair" -> HasFn(e[2]) \/ HasFn(e[3])

\* In the end functions are only at the front, each with a label of its own, and no
\* expression in them or after them holds another one.
Flat ==
  pc = "lifted" =>
    LET n == memory.funcs
    IN  /\ {exprs[k][2] : k \in 1 .. n} = {<<"_f", k>> : k \in 0 .. n - 1}
        /\ \A k \in 1 .. n : /\ exprs[k][1] = "assign" /\ exprs[k][3][1] = "fn"
                             /\ \A m \in DOMAIN exprs[k][3][3] : ~HasFn(exprs[k][3][3][m])
        /\ \A k \in n + 1 .. Len(exprs) : ~HasFn(exprs[k])

\* What the two rewritings of main promise of every list that fits the tables.
LiftedRight == MeaningKept /\ Flat
=============================================================================

---------------------------- MODULE ExprLanguage ---------------------------
(***************************************************************************)
(* The language of src/parse_expr.c: a grammar, written without bindings,  *)
(* which is the reference for its parser, and below it what the programs   *)
(* mean, the reference for its evaluator.                                  *)
(*                                                                         *)
(* ; binds least, then =, then + and then *; = takes all it can to its     *)
(* right, the others to their left; juxtaposition is a call; \ reaches as  *)
(* far to the right as it can.                                             *)
(*                                                                         *)
(* A tree is <<"void">>, <<"ident", x>>, <<"i64", n>>, <<"fn0", e>>,       *)
(* <<"fn1", x, e>>, <<"intrin", op, e>> or <<"call", e, f>>, and an infix  *)
(* expression is the call of an intrinsic that has its left operand.       *)
(***************************************************************************)
EXTENDS Integers, Sequences, FiniteSets

LOCAL INSTANCE TLC

CONSTANTS
  Idents, Numbers,   \* the tokens that are a name or a number
  Worth              \* what a number is worth

Infixes == {";", "=", "+", "*"}
Atoms == Idents \cup Numbers \cup {"_"}

AtomOf(t) ==
  CASE t \in Idents -> <<"ident", t>> [] t \in Numbers -> <<"i64", Worth[t]>> [] t = "_" -> <<"void">>
CallOf(e, f) == <<"call", e, f>>
InfixOf(op, e, f) == CallOf(<<"intrin", op, e>>, f)

Before(ts, k) == SubSeq(ts, 1, k - 1)
From(ts, k) == SubSeq(ts, k, Len(ts))
Count(ts, t) == Cardinality({k \in DOMAIN ts : ts[k] = t})

\* The positions of ts that are in no parentheses and in no function.
Outside(ts) ==
  {k \in DOMAIN ts : /\ Count(Before(ts, k), "(") = Count(Before(ts, k), ")")
                     /\ \A l \in 1 .. k - 1 :
                          ts[l] = "\\" => Count(Before(ts, l), "(") # Count(Before(ts, l), ")")}

First(S) == CHOOSE k \in S : \A l \in S : k <= l
Final(S) == CHOOSE k \in S : \A l \in S : l <= k

RECURSIVE Trees(_), Applied(_), Operand(_)
\* The trees, at most one, that the whole of ts writes.
Trees(ts) ==
  LET at(op) == {k \in Outside(ts) : ts[k] = op}
      cut(op, k) == {InfixOf(op, e, f) : e \in Trees(Before(ts, k)), f \in Trees(From(ts, k + 1))}
  IN  CASE at(";") # {} -> cut(";", Final(at(";")))
        [] at(";") = {} /\ at("=") # {} -> cut("=", First(at("=")))
        [] at(";") \cup at("=") = {} /\ at("+") # {} -> cut("+", Final(at("+")))
        [] at(";") \cup at("=") \cup at("+") = {} /\ at("*") # {} -> cut("*", Final(at("*")))
        [] OTHER -> Applied(ts)

\* One operand, or the call of what is before the last one.
Applied(ts) ==
  IF ts = <<>> THEN {}
  ELSE LET k == Final(Outside(ts))
       IN  IF k = 1 THEN Operand(ts)
           ELSE {CallOf(e, f) : e \in Applied(Before(ts, k)), f \in Operand(From(ts, k))}

Operand(ts) ==
  LET n == Len(ts)
  IN  CASE n = 1 /\ ts[1] \in Atoms -> {AtomOf(ts[1])}
        [] ts[1] = "(" /\ ts[n] = ")" -> Trees(SubSeq(ts, 2, n - 1))
        [] n > 2 /\ ts[1] = "\\" /\ ts[2] = "->" -> {<<"fn0", e>> : e \in Trees(From(ts, 3))}
        [] n > 3 /\ ts[1] = "\\" /\ ts[2] \in Idents /\ ts[3] = "->" ->
             {<<"fn1", ts[2], e>> : e \in Trees(From(ts, 4))}
        [] OTHER -> {}

-----------------------------------------------------------------------------
(***************************************************************************)
(* What the programs mean.  Scopes are nested by name: a scope is a path,  *)
(* below that of the scope around it, and a variable is bound for a path.  *)
(* An argument that is no value is computed where it is used, in the scope *)
(* of the call.                                                            *)
(*                                                                         *)
(* A value is <<"number", n>>, <<"fn", path, e>>, <<"none">> after an      *)
(* assignment, <<"later", path, e>> or <<"fail">>.                         *)
(***************************************************************************)

Result(v, st) == [v |-> v, st |-> st]
Fail(st) == Result(<<"fail">>, st)

\* The innermost path from p outwards for which x is bound.
RECURSIVE Bound(_, _, _)
Bound(p, x, st) ==
  IF p = <<>> \/ <<p, x>> \in DOMAIN st.binds THEN p ELSE Bound(SubSeq(p, 1, Len(p) - 1), x, st)

Bind(st, p, x, v) == [st EXCEPT !.binds = (<<p, x>> :> v) @@ @]

Delayed(e, p) ==
  CASE e[1] = "i64" -> <<"number", e[2]>>
    [] e[1] \in {"fn0", "fn1"} -> <<"fn", p, e>>
    [] e[1] \in {"ident", "void", "call"} -> <<"later", p, e>>

RECURSIVE Value(_, _, _, _), Forced(_, _), Infix(_, _, _, _, _)

\* A value that is put off is computed.
Forced(r, d) ==
  IF r.v[1] # "later" THEN r ELSE Forced(Value(r.v[3], r.v[2], r.st, d), d - 1)

\* After n steps inwards nothing is found.
Value(e, p, st, d) ==
  LET f == Forced(Value(e[2], p, st, d - 1), d - 1)
      inner == Append(f.v[2], f.st.fresh)
      entered == [f.st EXCEPT !.fresh = @ + 1]
  IN  CASE d <= 0 \/ e[1] = "void" -> Fail(st)
        [] d > 0 /\ e[1] \in {"i64", "fn0", "fn1"} -> Result(Delayed(e, p), st)
        [] d > 0 /\ e[1] = "ident" ->
             LET q == Bound(p, e[2], st)
             IN  IF q = <<>> THEN Fail(st) ELSE Result(st.binds[<<q, e[2]>>], st)
        [] d > 0 /\ e[1] = "call" /\ e[2][1] = "intrin" -> Infix(e[2], e[3], p, st, d - 1)
        [] d > 0 /\ e[1] = "call" /\ e[2][1] # "intrin" ->
             CASE f.v[1] # "fn" -> Fail(f.st)
               [] f.v[1] = "fn" /\ f.v[3][1] = "fn0" -> Value(f.v[3][2], inner, entered, d - 1)
               [] f.v[1] = "fn" /\ f.v[3][1] = "fn1" ->
                    Value(f.v[3][3], inner, Bind(entered, inner, f.v[3][2], Delayed(e[3], p)), d - 1)

Infix(f, arg, p, st, d) ==
  LET left == Forced(Value(f[3], p, st, d), d)
      right == Forced(Value(arg, p, left.st, d), d)
      first == Value(f[3], p, st, d)
      assigned == Value(arg, p, st, d)
      x == f[3][2]
      q == Bound(p, x, assigned.st)
  IN  CASE f[2] = ";" -> IF first.v = <<"fail">> THEN first ELSE Value(arg, p, first.st, d)
        [] f[2] = "=" ->
             IF f[3][1] # "ident" \/ assigned.v = <<"fail">> THEN Fail(st)
             ELSE Result(<<"none">>, Bind(assigned.st, IF q = <<>> THEN p ELSE q, x, assigned.v))
        [] f[2] \in {"+", "*"} ->
             IF left.v[1] # "number" \/ right.v[1] # "number" THEN Fail(st)
             ELSE Result(<<"number", IF f[2] = "+" THEN left.v[2] + right.v[2] ELSE left.v[2] * right.v[2]>>,
                         right.st)

Meaning(e, d) == Value(e, <<0>>, [binds |-> [b \in {} |-> <<"none">>], fresh |-> 1], d)

\* A program whose value is none cannot print it.
Kind(v) ==
  CASE v[1] \in {"number", "later"} -> IF v[1] = "number" THEN v ELSE <<"later">>
    [] v[1] = "fn" -> <<"fn">>
    [] v[1] \in {"none", "fail"} -> <<"fail">>

-----------------------------------------------------------------------------
Parts(e) ==
  CASE e[1] \in {"i64", "void", "ident"} -> {}
    [] e[1] = "fn0" -> {e[2]}
    [] e[1] \in {"fn1", "intrin"} -> {e[3]}
    [] e[1] = "call" -> {e[2], e[3]}

RECURSIVE Within(_), Free(_)
\* All expressions in e.
Within(e) == {e} \cup UNION {Within(part) : part \in Parts(e)}

\* The names in e that no function in it binds.
Free(e) ==
  CASE e[1] = "ident" -> {e[2]}
    [] e[1] = "fn1" -> Free(e[3]) \ {e[2]}
    [] e[1] \notin {"ident", "fn1"} -> UNION {Free(part) : part \in Parts(e)}

Arguments(e) == {c[3] : c \in {d \in Within(e) : d[1] = "call" /\ d[2][1] # "intrin"}}

Assigned(e) == {d[3][2] : d \in {c \in Within(e) : c[1] = "intrin" /\ c[2] = "=" /\ c[3][1] = "ident"}}

\* The names that are not the whole program's: parameters, and what functions assign.
Local(e) ==
  LET functions == {d \in Within(e) : d[1] \in {"fn0", "fn1"}}
  IN  {d[2] : d \in {c \in functions : c[1] = "fn1"}} \cup UNION {Assigned(d) : d \in functions}

\* An argument means something else in the scope of the function, or might.
Captures(e) == \E arg \in Arguments(e) : Free(arg) \cap Local(e) # {} \/ Assigned(arg) # {}

ValuesOnly(e) == \A arg \in Arguments(e) : arg[1] \in {"i64", "fn0", "fn1"}
=============================================================================

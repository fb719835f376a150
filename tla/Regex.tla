------------------------------- MODULE Regex -------------------------------
(***************************************************************************)
(* What a regular expression means: the reference for src/regex_vm.c and   *)
(* src/regex.c, written without a parser, a program or an automaton.       *)
(*                                                                         *)
(* An expression is <<"empty">>, <<"char", c>>, <<op, e>> with op one of   *)
(* ? * +, or <<op, e, f>> with op | or the invisible CONCAT; a regex is the*)
(* sequence of its characters.                                             *)
(***************************************************************************)
EXTENDS Naturals, Sequences, FiniteSets

CONSTANT Alphabet   \* the characters that are neither operators nor parentheses

CONCAT == "."
Repeats == {"?", "*", "+"}
Infixes == {CONCAT, "|"}

Words(n) == UNION {[1 .. k -> Alphabet] : k \in 0 .. n}

Joined(L, M, n) == {w \in {x \o y : x \in L, y \in M} : Len(w) <= n}

\* L, LL, LLL ... with words of up to n characters.
Repeated(L, n) ==
  LET some[k \in 0 .. n] ==
        IF k = 0 THEN L ELSE some[k - 1] \cup Joined(some[k - 1], L, n)
  IN  some[n]

RECURSIVE Language(_, _)
\* The words of up to n characters that e matches.
Language(e, n) ==
  CASE e[1] = "empty" -> {<<>>}
    [] e[1] = "char"  -> {w \in {<<e[2]>>} : n >= 1}
    [] e[1] = "|"     -> Language(e[2], n) \cup Language(e[3], n)
    [] e[1] = CONCAT  -> Joined(Language(e[2], n), Language(e[3], n), n)
    [] e[1] = "?"     -> {<<>>} \cup Language(e[2], n)
    [] e[1] = "*"     -> {<<>>} \cup Repeated(Language(e[2], n), n)
    [] e[1] = "+"     -> Repeated(Language(e[2], n), n)

Nullable(e) == <<>> \in Language(e, 0)

RECURSIVE Subexpressions(_)
Subexpressions(e) ==
  {e} \cup UNION {Subexpressions(e[k]) : k \in 2 .. IF e[1] = "char" THEN 1 ELSE Len(e)}

-----------------------------------------------------------------------------
(* The infix notation: | binds less than juxtaposition, juxtaposition less *)
(* than the repeats.                                                       *)

Count(r, c) == Cardinality({k \in DOMAIN r : r[k] = c})
Before(r, k) == SubSeq(r, 1, k - 1)
From(r, k) == SubSeq(r, k, Len(r))

\* The positions of r at which no parenthesis is open.
Outside(r) == {k \in DOMAIN r : Count(Before(r, k), "(") = Count(Before(r, k), ")")}

Balanced(r) ==
  /\ \A k \in DOMAIN r : Count(Before(r, k), "(") >= Count(Before(r, k), ")")
  /\ Count(r, "(") = Count(r, ")")

RECURSIVE Valid(_)
\* r is a regex: a character, (x), x?, xy or x|y of regexes x and y.
Valid(r) ==
  /\ r # <<>> /\ Balanced(r)
  /\ \/ Len(r) = 1 /\ r[1] \in Alphabet
     \/ r[1] = "(" /\ r[Len(r)] = ")" /\ Valid(SubSeq(r, 2, Len(r) - 1))
     \/ r[Len(r)] \in Repeats /\ Valid(Before(r, Len(r)))
     \/ \E k \in 2 .. Len(r) : Valid(Before(r, k)) /\ Valid(From(r, k))
     \/ \E k \in 2 .. Len(r) - 1 :
          r[k] = "|" /\ Valid(Before(r, k)) /\ Valid(From(r, k + 1))

RECURSIVE Parsed(_)
\* The expression that r writes; the empty one if there is nothing to read.
Parsed(r) ==
  LET bars == {k \in Outside(r) : r[k] = "|"}
      cuts == {k \in Outside(r) : k > 1 /\ r[k] \notin Repeats}
      first(S) == CHOOSE k \in S : \A l \in S : k <= l
  IN  CASE r = <<>> -> <<"empty">>
        [] bars # {} ->
             <<"|", Parsed(Before(r, first(bars))), Parsed(From(r, first(bars) + 1))>>
        [] bars = {} /\ cuts # {} ->
             <<CONCAT, Parsed(Before(r, first(cuts))), Parsed(From(r, first(cuts)))>>
        [] bars = {} /\ cuts = {} /\ Len(r) > 1 /\ r[Len(r)] \in Repeats ->
             <<r[Len(r)], Parsed(Before(r, Len(r)))>>
        [] bars = {} /\ cuts = {} /\ Len(r) > 1 /\ r[1] = "(" /\ r[Len(r)] = ")" ->
             Parsed(SubSeq(r, 2, Len(r) - 1))
        [] Len(r) = 1 -> <<"char", r[1]>>

-----------------------------------------------------------------------------
(* The postfix notation of src/regex.c, in which CONCAT is written.        *)

RECURSIVE Postfix(_)
\* The expressions, at most one, that the whole of r writes.
Postfix(r) ==
  LET n == Len(r)
  IN  IF n = 0 THEN {}
      ELSE IF r[n] \in Repeats THEN {<<r[n], e>> : e \in Postfix(Before(r, n))}
      ELSE IF r[n] \in Infixes
           THEN UNION {{<<r[n], e, f>> : e \in Postfix(Before(r, k)),
                                         f \in Postfix(SubSeq(r, k, n - 1))} : k \in 2 .. n - 1}
      ELSE IF n = 1 THEN {<<"char", r[1]>>} ELSE {}
=============================================================================

---------------------------- MODULE MCLanguages ----------------------------
(* The three programs for regular expressions, the one that lifts functions  *)
(* and the parser and evaluator of expressions. They do not interact, so     *)
(* each behaviour runs one of them. The regexes of regex_vm.c are all texts  *)
(* of up to four characters, most of which are not regexes, and a few longer *)
(* ones, some of which do not fit the tables; those of regex.c are all       *)
(* postfix texts of up to five and one that hides the end of its automaton.  *)
(* The lists of lambda_lift.c have up to three expressions over two          *)
(* variables, with functions in functions; its labels fit eight times, which *)
(* is too few for some lists. The programs of parse_expr.c are all token     *)
(* sequences of up to four, longer ones of a few tokens each, and some seven *)
(* thousand that define a function and use it twice; some need too many      *)
(* nodes, variables or scopes.                                               *)
EXTENDS RegexVM

CONSTANTS
  Exprs, Inputs, STATE_CAP, STACK_CAP,                           \* of RegexNFA
  Sources, CAP_BUFFER, LIFT_CAP_EXPRS, CAP_EXPR_LISTS, LABEL, Fuel, \* of LambdaLift
  Idents, Numbers, Worth, Programs, CAP_NODES, CAP_VARS, CAP_SCOPES, STACK, \* of EvalExpr
  Expressions, POSTFIX_STACK                                     \* of Postfix

VARIABLES
  program,                                             \* the one that runs
  postfix_expr, states, link, input, answer,           \* those of RegexNFA
  stage, source, exprs, room,                          \* those of LambdaLift
  step, tokens, tree, value,                           \* those of EvalExpr
  expression, outcome, output                                \* those of Postfix

nfa_vars == <<postfix_expr, states, link, input, answer>>
lift_vars == <<stage, source, exprs, room>>
parse_vars == <<step, tokens, tree, value>>
postfix_vars == <<expression, outcome, output>>

NFA == INSTANCE RegexNFA
Lift == INSTANCE LambdaLift WITH pc <- stage, memory <- room, CAP_EXPRS <- LIFT_CAP_EXPRS
Pratt == INSTANCE EvalExpr WITH pc <- step, expr <- tree
L == INSTANCE Lambda
Infix == INSTANCE Postfix

Symbols == Alphabet \cup {"|", "(", ")"} \cup Re!Repeats
Long ==
  {<<"(", "a", "*", ")", "+">>, <<"a", "b", "?", "|", "b">>,
   <<"(", "a", "|", "b", "?", ")", "*">>, <<"a", "*", "*", "b">>,
   <<"(", "a", "b", "|", "a", ")", "*", "b">>, <<"a", "|", "b", "a", "*", "|">>,
   <<"(", "(", "a", "|", "b", ")", "a", ")", "?">>,
   <<"a", "b", "a", "|", "b", "?", "a", "|">>}
ShortRegexes == Long \cup UNION {[1 .. n -> Symbols] : n \in 0 .. 4}
ShortStrings == Re!Words(3) \cup {<<"a", "a", "a", "a">>}

ShortExprs ==
  {<<"a", "b", "a", "?", "|", Re!CONCAT>>} \cup
  UNION {[1 .. n -> Alphabet \cup Re!Infixes \cup Re!Repeats] : n \in 0 .. 5}
ShortInputs == Re!Words(3)

\* All texts of up to four characters for get_postfix, those of up to seven in few of
\* them, and one that is too deep.
ShortInfixes ==
  {<<"(", "(", "(", "a", ")", ")", ")">>, <<"a", Re!CONCAT, "b">>} \cup ShortRegexes
  \cup UNION {[1 .. n -> {"a", "b", "|", "(", ")"}] : n \in 5 .. 6}
  \cup [1 .. 5 -> {"a", "|", "(", ")", "*", "?"}] \cup [1 .. 7 -> {"a", "|", "(", ")"}]

-----------------------------------------------------------------------------
(* The lists of lambda_lift.c.                                               *)

x == <<"x">>
f == <<"f">>
Bodies ==
  {<<L!Var(x)>>, <<L!Assign(x, L!I64(1)), L!Var(x)>>, <<L!Update(x, L!I64(1))>>,
   <<L!Fn(<<>>, <<L!Var(x)>>)>>, <<L!Call(L!Var(f), <<>>)>>,
   <<L!Assign(x, L!I64(1)), L!Fn(<<>>, <<L!Var(x)>>), L!Fn(<<x>>, <<L!Var(x)>>)>>,
   <<L!Fn(<<x>>, <<L!Var(x), L!Fn(<<>>, <<L!Var(x)>>)>>)>>}
Fns == {L!Fn(args, body) : args \in {<<>>, <<x>>}, body \in Bodies}
Calls ==
  {L!Call(g, args) : g \in {L!Var(f), L!Call(L!Var(f), <<>>), L!Call(L!Var(f), <<L!I64(2)>>)},
                     args \in {<<>>, <<L!I64(3)>>, <<L!Var(x)>>}}
AssignX == L!Assign(x, L!I64(0))
Functions2 == {L!Assign(f, g) : g \in Fns}
Statements ==
  {AssignX, L!Var(x)} \cup Functions2 \cup Calls \cup {L!Update(x, c) : c \in Calls \cup {L!I64(5)}}
  \cup {L!Call(g, args) : g \in Fns, args \in {<<>>, <<L!I64(4)>>}}
ShortSources ==
  {<<s>> : s \in Statements} \cup {<<s, t>> : s, t \in Statements}
  \cup {<<AssignX, s, t>> : s \in Functions2, t \in Statements}
  \cup {<<s, AssignX, t>> : s \in Functions2, t \in Statements}

-----------------------------------------------------------------------------
(* The programs of parse_expr.c.                                             *)

ShortPrograms ==
  UNION {[1 .. n -> {"x", "1", "_", "(", ")", "\\", "->", ";", "=", "+", "*"}] : n \in 0 .. 4}
  \cup [1 .. 6 -> {"x", "(", ")", "*", ";"}] \cup [1 .. 6 -> {"x", "1", "=", "+", "("}]
  \cup [1 .. 6 -> {"x", "\\", "->", ";", ")"}] \cup [1 .. 7 -> {"x", "(", ")"}]

\* Programs that define two variables and a function, use it twice and look at what
\* has become of the variables.
Definitions ==
  {<<"\\", "x", "->", "x", "+", "y">>, <<"\\", "->", "x", "=", "y", "+", "1", ";", "x">>,
   <<"\\", "x", "->", "\\", "y", "->", "x", "+", "y">>,
   <<"\\", "z", "->", "y", "=", "\\", "->", "x", "=", "x", "+", "z", ";", "x">>,
   <<"\\", "z", "->", "z", "_">>, <<"\\", "z", "->", "\\", "->", "y", "=", "y", "+", "z", ";", "y">>,
   <<"\\", "z", "->", "f", "z">>, <<"\\", "z", "->", "z", "=", "x", ";", "z", "*", "y">>,
   <<"\\", "->", "\\", "x", "->", "z", "=", "x", ";", "x", "=", "2", ";", "z", "+", "x">>}
Uses ==
  {<<"f", "2">>, <<"f", "_">>, <<"f", "x">>, <<"f", "1", "2">>, <<"f", "_", "1">>, <<"f", "g">>,
   <<"f", "(", "\\", "->", "x", ")">>, <<"f", "(", "\\", "->", "z", ")">>, <<"y", "=", "f", "2">>,
   <<"x", "=", "f", "2", "+", "f", "_">>, <<"x", "=", "x", "+", "y">>, <<"g", "=", "f", "1">>,
   <<"g", "1">>, <<"z", "=", "x">>, <<"g", "=", "f">>, <<"y", "=", "g", "_", "*", "2">>,
   <<"f", "z">>}
LongPrograms ==
  {<<"x", "=", "1", ";", "y", "=", "2", ";", "f", "=", "(">> \o d \o <<")", ";">> \o u \o <<";">> \o v
     \o <<";">> \o w : d \in Definitions, u \in Uses, v \in Uses,
                       w \in {<<"x", "+", "2", "*", "y">>, <<"f", "2">>, <<"g", "_">>}}
AllPrograms == ShortPrograms \cup LongPrograms
Worths == [t \in {"1", "2"} |-> IF t = "1" THEN 1 ELSE 2]

-----------------------------------------------------------------------------
MCInit ==
  /\ program \in {"regex_vm", "regex", "lambda_lift", "parse_expr", "postfix"}
  /\ Init /\ NFA!Init /\ Pratt!EvalInit /\ Infix!Init
  /\ IF program = "lambda_lift" THEN Lift!Init
     ELSE stage = "source" /\ source = <<>> /\ exprs = <<>> /\ room = <<>>

MCNext ==
  \/ program = "regex_vm" /\ Next /\ UNCHANGED <<program, nfa_vars, lift_vars, parse_vars, postfix_vars>>
  \/ program = "regex" /\ NFA!Next /\ UNCHANGED <<program, vars, lift_vars, parse_vars, postfix_vars>>
  \/ program = "lambda_lift" /\ Lift!Next /\ UNCHANGED <<program, vars, nfa_vars, parse_vars, postfix_vars>>
  \/ program = "parse_expr" /\ Pratt!EvalNext /\ UNCHANGED <<program, vars, nfa_vars, lift_vars, postfix_vars>>
  \/ program = "postfix" /\ Infix!Next /\ UNCHANGED <<program, vars, nfa_vars, lift_vars, parse_vars>>

MCSpec == MCInit /\ [][MCNext]_<<program, vars, nfa_vars, lift_vars, parse_vars, postfix_vars>>

-----------------------------------------------------------------------------
(* The properties of the other modules under names of their own.             *)

\* What get_match answers is right, but for two kinds of expressions: see RegexNFA.
NFARight == NFA!AnswersRight

\* Both rewritings of lambda_lift.c keep what a list means, and in the end its
\* functions are only at the front: see LambdaLift.
LiftedRight == program = "lambda_lift" => Lift!LiftedRight

\* The parser of parse_expr.c accepts what the grammar writes: see ParseExpr.
ParsedRight == Pratt!ParsedRight

\* The evaluator of parse_expr.c returns what the program means: see EvalExpr.
EvaluatedRight == Pratt!EvaluatedRight

\* get_postfix keeps what a regex means, in the notation of regex.c: see Postfix.
PostfixRight == Infix!PostfixRight

\* A comment's claim, that following next finds the end: see RegexNFA.
NextReachesEnd == NFA!NextReachesEnd
=============================================================================

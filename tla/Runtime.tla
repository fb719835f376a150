------------------------------ MODULE Runtime -------------------------------
(***************************************************************************)
(* src/runtime.c: scopes that point to their parent and to a linked list of*)
(* names with values, all taken from two arrays and never given back.  The *)
(* client is main's kind of code: it holds any scope it has made and calls *)
(* the functions in any order.  A pointer into an array is an index, 0 is  *)
(* NULL, and a name stands for its characters and their number.            *)
(***************************************************************************)
EXTENDS Naturals, Sequences

CONSTANTS Names, Values, CAP_SCOPES, CAP_LISTS, None

VARIABLES
  lists,    \* the lists in use, [key, value, next]
  scopes,   \* the scopes in use, [list, parent]
  call      \* the last call, with what it gave; "unbound" and "full" are its EXITs

vars == <<lists, scopes, call>>

\* memory_init
Init == lists = <<>> /\ scopes = <<>> /\ call = <<"none">>

Running == call \notin {<<"unbound">>, <<"full">>}
Exit(why) == call' = <<why>> /\ UNCHANGED <<lists, scopes>>

\* scope_new, of parent 0, and scope_new_from
scope_new_from(parent) ==
  IF CAP_SCOPES <= Len(scopes) THEN Exit("full")
  ELSE /\ scopes' = Append(scopes, [list |-> 0, parent |-> parent])
       /\ call' = <<"new", parent>>
       /\ UNCHANGED lists

\* The two loops that scope_lookup and scope_update share: the first list with key
\* k from list l on, and from scope s outwards.
Find(s, k) ==
  LET InList[l \in 0 .. Len(lists)] ==
        IF l = 0 \/ lists[l].key = k THEN l ELSE InList[lists[l].next]
      InScope[q \in 0 .. Len(scopes)] ==
        IF q = 0 THEN 0
        ELSE IF InList[scopes[q].list] # 0 THEN InList[scopes[q].list]
        ELSE InScope[scopes[q].parent]
  IN  InScope[s]

scope_lookup(s, k) ==
  LET l == Find(s, k)
  IN  IF l = 0 THEN Exit("unbound")
      ELSE call' = <<"lookup", s, k, lists[l].value>> /\ UNCHANGED <<lists, scopes>>

\* Fault: the new list is put behind the scope's first.
scope_insert_behind(s, k, v) ==
  IF CAP_LISTS <= Len(lists) THEN Exit("full")
  ELSE LET l == Len(lists) + 1
           head == scopes[s].list
       IN  /\ IF head = 0
              THEN /\ lists' = Append(lists, [key |-> k, value |-> v, next |-> 0])
                   /\ scopes' = [scopes EXCEPT ![s].list = l]
              ELSE /\ lists' = [Append(lists, [key |-> k, value |-> v, next |-> lists[head].next])
                                EXCEPT ![head].next = l]
                   /\ UNCHANGED scopes
           /\ call' = <<"insert", s, k, v>>

scope_insert(s, k, v) ==
  IF CAP_LISTS <= Len(lists) THEN Exit("full")
  ELSE /\ lists' = Append(lists, [key |-> k, value |-> v, next |-> scopes[s].list])
       /\ scopes' = [scopes EXCEPT ![s].list = Len(lists')]
       /\ call' = <<"insert", s, k, v>>

scope_update(s, k, v) ==
  LET l == Find(s, k)
  IN  IF l = 0 THEN Exit("unbound")
      ELSE lists' = [lists EXCEPT ![l].value = v] /\ call' = <<"update", s, k, v>> /\ UNCHANGED scopes

Next ==
  /\ Running
  /\ \/ \E s \in DOMAIN scopes \cup {0} : scope_new_from(s)
     \/ \E s \in DOMAIN scopes, k \in Names :
          scope_lookup(s, k) \/ \E v \in Values : scope_insert(s, k, v) \/ scope_update(s, k, v)

Spec == Init /\ [][Next]_vars

-----------------------------------------------------------------------------
(* Properties.                                                             *)

\* The value a scope gives a name of its own: the first in its list.
Own(s, k) ==
  LET l == Find(s, k)
      outer == Find(scopes[s].parent, k)
  IN  IF l = outer THEN None ELSE lists[l].value

\* Seen through lookups, the lists are an environment: a name inserted twice in a
\* scope, or again in an inner one, hides the older value, an update reaches the one
\* that a lookup finds and no other, and what is inserted in an outer scope late is
\* seen by the inner ones that were there before.  The program exits only for names
\* that are unbound and arrays that are full.
Env == INSTANCE Environment WITH
         parents <- [s \in DOMAIN scopes |-> scopes[s].parent],
         bound <- [s \in DOMAIN scopes |-> [k \in Names |-> Own(s, k)]],
         inserted <- Len(lists)
IsEnvironment == Env!Init /\ [][Env!Next]_(Env!vars)
=============================================================================

---------------------------- MODULE Environment -----------------------------
(***************************************************************************)
(* What src/runtime.c promises the code it is the runtime of: nested       *)
(* scopes, in each of which a name has at most one value, the last one     *)
(* given to it, and hides the names of the scopes around it.               *)
(***************************************************************************)
EXTENDS Naturals, Sequences

CONSTANTS Names, Values, CAP_SCOPES, CAP_LISTS, None

VARIABLES
  parents,   \* the scope around each scope, or 0
  bound,     \* for each scope, a value or None for each name
  inserted,  \* how often scope_insert was called
  call       \* the last operation; "unbound" and "full" end the program

vars == <<parents, bound, inserted, call>>

Unbound == [k \in Names |-> None]
Running == call \notin {<<"unbound">>, <<"full">>}
Scopes == DOMAIN parents

Init == parents = <<>> /\ bound = <<>> /\ inserted = 0 /\ call = <<"none">>

\* The scopes from s outwards, and the nearest that knows k.
Around(s) ==
  LET outer[n \in 0 .. Len(parents)] ==
        IF n = 0 THEN {s} ELSE outer[n - 1] \cup ({parents[q] : q \in outer[n - 1] \ {0}})
  IN  outer[Len(parents)] \ {0}
Knowing(s, k) == {q \in Around(s) : bound[q][k] # None}

\* A scope is younger than those around it.
Nearest(s, k) == CHOOSE q \in Knowing(s, k) : \A r \in Knowing(s, k) : r <= q

Fails(why) == call' = <<why>> /\ UNCHANGED <<parents, bound, inserted>>

New(parent) ==
  IF Len(parents) = CAP_SCOPES THEN Fails("full")
  ELSE /\ call' = <<"new", parent>>
       /\ parents' = Append(parents, parent)
       /\ bound' = Append(bound, Unbound)
       /\ UNCHANGED inserted

Insert(s, k, v) ==
  IF inserted = CAP_LISTS THEN Fails("full")
  ELSE /\ call' = <<"insert", s, k, v>>
       /\ bound' = [bound EXCEPT ![s][k] = v]
       /\ inserted' = inserted + 1
       /\ UNCHANGED parents

Lookup(s, k) ==
  IF Knowing(s, k) = {} THEN Fails("unbound")
  ELSE /\ call' = <<"lookup", s, k, bound[Nearest(s, k)][k]>>
       /\ UNCHANGED <<parents, bound, inserted>>

Update(s, k, v) ==
  IF Knowing(s, k) = {} THEN Fails("unbound")
  ELSE /\ call' = <<"update", s, k, v>>
       /\ bound' = [bound EXCEPT ![Nearest(s, k)][k] = v]
       /\ UNCHANGED <<parents, inserted>>

Next ==
  /\ Running
  /\ \/ \E s \in Scopes \cup {0} : New(s)
     \/ \E s \in Scopes, k \in Names :
          Lookup(s, k) \/ \E v \in Values : Insert(s, k, v) \/ Update(s, k, v)

Spec == Init /\ [][Next]_vars
=============================================================================

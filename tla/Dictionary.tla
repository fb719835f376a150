----------------------------- MODULE Dictionary -----------------------------
(***************************************************************************)
(* What src/btree.c promises the code that calls insert_tree and           *)
(* lookup_block: a map from keys to values that only grows, and refuses a  *)
(* key it already has.                                                     *)
(***************************************************************************)
CONSTANTS Keys, Values

VARIABLES
  entries,  \* the map
  open      \* FALSE once the program has exited

vars == <<entries, open>>

Init == entries = [k \in {} |-> k] /\ open = TRUE

Insert(k, v) ==
  /\ open /\ k \notin DOMAIN entries
  /\ entries' = [q \in DOMAIN entries \cup {k} |-> IF q = k THEN v ELSE entries[q]]
  /\ UNCHANGED open

\* A duplicate key, or a map that has no room left, ends the program.
Refuse == open /\ open' = FALSE /\ UNCHANGED entries

Next == Refuse \/ \E k \in Keys, v \in Values : Insert(k, v)

Spec == Init /\ [][Next]_vars
=============================================================================

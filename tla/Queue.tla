------------------------------- MODULE Queue --------------------------------
(***************************************************************************)
(* What src/fifo.c promises: values leave in the order in which they came. *)
(***************************************************************************)
EXTENDS Sequences

CONSTANT T   \* the values

VARIABLES
  items,  \* the queue, oldest first
  call    \* the last operation, with its argument or its result

Init == items = <<>> /\ call = <<"none">>

Push(v) ==
  \/ items' = Append(items, v) /\ call' = <<"push", v>>
  \/ items' = items /\ call' = <<"push error", v>>

Pop ==
  \/ /\ items # <<>>
     /\ items' = Tail(items)
     /\ call' = <<"pop", Head(items)>>
  \/ /\ items = <<>>
     /\ items' = <<>>
     /\ call' = <<"pop error">>

Destroy == items' = <<>> /\ call' = <<"destroy">>

Next == Pop \/ Destroy \/ \E v \in T : Push(v)

Spec == Init /\ [][Next]_<<items, call>>
=============================================================================

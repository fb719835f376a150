----------------------------- MODULE RefCounter -----------------------------
(***************************************************************************)
(* src/ref_counter.c: blocks with counted references.  A block's array is  *)
(* carved off HEAP and never given back; the block itself is handed out    *)
(* again by alloc_block once its count is zero or it is not alive.  A count*)
(* that reaches zero takes one reference from each child (free_block);     *)
(* cycles are found when a root is popped, by marking from the others.     *)
(*                                                                         *)
(* The client calls one function at a time, so each is one step, but for   *)
(* pop_root, whose marking takes a step for each call of mark.  A block    *)
(* from alloc_block has no reference yet, and the next alloc_block may hand*)
(* it out again: the client must insert it at once, as main does (lines 230*)
(* and 231), and may otherwise insert only a block that stays reachable    *)
(* when the slot it goes into has been emptied.                            *)
(***************************************************************************)
EXTENDS Integers, Sequences, FiniteSets, Functions

CONSTANTS
  CAP_HEAP,    \* words in HEAP
  CAP_BLOCKS,  \* blocks in BLOCKS; ROOTS and the trace's STACK hold as many
  BITS,        \* bits in a block's bitmap: the slots that may hold a child
  U8,          \* the number of values of the u8 that counts parents
  Lens,        \* the lengths the client asks for
  Nil

CAP_ROOTS == CAP_BLOCKS

\* A count of parents may need as many values as there are words in HEAP.
ASSUME CapAssumption == {CAP_HEAP, CAP_BLOCKS, BITS, U8} \subseteq Nat \ {0} /\ CAP_HEAP <= U8
ASSUME LensAssumption == Lens \subseteq Nat \ {0}
ASSUME NilAssumption == Nil \notin Nat

VARIABLES
  BLOCKS,    \* the blocks so far, in order
  LEN_HEAP,
  ROOTS,
  exited,    \* the EXIT_IF that ended the program, or "none"
  pc,        \* "client", or "mark" inside pop_root
  calls       \* the calls of mark that are still to be made, in their order

vars == <<BLOCKS, LEN_HEAP, ROOTS, exited, pc, calls>>

Init ==
  /\ BLOCKS = <<>> /\ LEN_HEAP = 0
  /\ ROOTS = <<>>
  /\ exited = "none"
  /\ pc = "client" /\ calls = <<>>

\* The client may call a function.
Idle == exited = "none" /\ pc = "client"

Handles == DOMAIN BLOCKS

\* child[i] is the block in slot i if its bit is set, and Nil if it is not.
Children(b) == {b.child[i] : i \in DOMAIN b.child} \ {Nil}

\* What a set of blocks of bs reaches, itself included.
ReachIn(bs, S) ==
  LET reach[k \in 0 .. CAP_BLOCKS] ==
        IF k = 0 THEN S ELSE reach[k - 1] \cup UNION {Children(bs[b]) : b \in reach[k - 1]}
  IN  reach[CAP_BLOCKS]
Reachable == ReachIn(BLOCKS, Range(ROOTS))

Up(p) == (p + 1) % U8

-----------------------------------------------------------------------------
(* Allocation.                                                             *)

\* alloc_array's test; like the code it leaves the last word alone.
ArrayFits(len) == LEN_HEAP + len < CAP_HEAP

\* Fault: a block that is long enough is reused while it has parents.
ReusableIfLong(b, len) == len <= b.cap

\* alloc_block's test.  A reused block gets a new array no longer than the old one.
Reusable(b, len) == len <= b.cap /\ (b.parents = 0 \/ ~b.alive)

\* The block alloc_block hands out: the first that is reusable, or a new one.
Picked(len) ==
  LET reusable == {k \in Handles : Reusable(BLOCKS[k], len)}
  IN  IF reusable = {} THEN Len(BLOCKS) + 1
      ELSE CHOOSE k \in reusable : \A l \in reusable : k <= l

Fresh(len, parents) ==
  [array |-> LEN_HEAP, len |-> len, cap |-> len, parents |-> parents, alive |-> TRUE,
   child |-> [i \in 0 .. len - 1 |-> Nil]]

With(bs, k, b) == [l \in DOMAIN bs \cup {k} |-> IF l = k THEN b ELSE bs[l]]

\* Why alloc_block would exit.  The table must have room even for reuse.
AllocExit(len) ==
  CASE CAP_BLOCKS <= Len(BLOCKS) -> "blocks"
    [] ~ArrayFits(len) -> "heap"
    [] OTHER -> "none"

Exit(why) == exited' = why /\ UNCHANGED <<BLOCKS, LEN_HEAP, ROOTS, pc, calls>>

alloc_root(len) ==
  LET why == IF AllocExit(len) = "none" /\ CAP_ROOTS <= Len(ROOTS)
             THEN "roots" ELSE AllocExit(len)
  IN  /\ Idle
      /\ IF why # "none" THEN Exit(why)
         ELSE /\ BLOCKS' = With(BLOCKS, Picked(len), Fresh(len, 1))
              /\ ROOTS' = Append(ROOTS, Picked(len))
              /\ LEN_HEAP' = LEN_HEAP + len
              /\ UNCHANGED <<exited, pc, calls>>

-----------------------------------------------------------------------------
(* Freeing.                                                                *)

\* The slots of b in their order.
Slots(b) == [i \in 1 .. b.len |-> b.child[i - 1]]

\* Fault: a reference is taken from the children though others remain.
FreeEager(m) ==
  LET b == Head(m.work)
      rest == Tail(m.work)
  IN  IF b = Nil \/ m.blocks[b].parents = 0 \/ ~m.blocks[b].alive THEN [m EXCEPT !.work = rest]
      ELSE [blocks |-> [m.blocks EXCEPT ![b].parents = @ - 1],
            work |-> Slots(m.blocks[b]) \o rest]

\* free_block on the first block of the work m still holds; a block whose count
\* reaches zero puts its children in front, as the recursive calls do.
free_block(m) ==
  LET b == Head(m.work)
      rest == Tail(m.work)
  IN  IF b = Nil \/ m.blocks[b].parents = 0 \/ ~m.blocks[b].alive THEN [m EXCEPT !.work = rest]
      ELSE [blocks |-> [m.blocks EXCEPT ![b].parents = @ - 1],
            work |-> IF m.blocks[b].parents = 1 THEN Slots(m.blocks[b]) \o rest ELSE rest]

\* The blocks bs when block b and what it takes with it is freed.  Every word of
\* HEAP is looked at most once, as a slot of the one block that it belongs to.
Free(bs, b) ==
  LET m[k \in 0 .. CAP_HEAP + 1] ==
        IF k = 0 THEN [blocks |-> bs, work |-> <<b>>]
        ELSE IF m[k - 1].work = <<>> THEN m[k - 1]
        ELSE free_block(m[k - 1])
  IN  m[CAP_HEAP + 1].blocks

-----------------------------------------------------------------------------
(* Popping a root.                                                         *)

\* Fault: the first loop is missing.
Uncleared(bs) == bs

\* pop_root's first loop.
Cleared(bs) == [b \in DOMAIN bs |-> [bs[b] EXCEPT !.alive = FALSE]]

\* pop_root up to its second loop, which calls mark for the roots that are left.
pop_root ==
  /\ Idle
  /\ IF ROOTS = <<>> THEN Exit("pop")
     ELSE LET roots == SubSeq(ROOTS, 1, Len(ROOTS) - 1)
          IN  /\ ROOTS' = roots
              /\ BLOCKS' = Cleared(Free(BLOCKS, ROOTS[Len(ROOTS)]))
              /\ pc' = "mark" /\ calls' = roots
              /\ UNCHANGED <<LEN_HEAP, exited>>

\* mark, up to its loop over the children, whose calls come next.
mark ==
  /\ pc = "mark" /\ calls # <<>>
  /\ LET b == Head(calls)
     IN  IF b = Nil \/ BLOCKS[b].alive THEN calls' = Tail(calls) /\ UNCHANGED BLOCKS
         ELSE /\ BLOCKS' = [BLOCKS EXCEPT ![b].alive = TRUE]
              /\ calls' = Slots(BLOCKS[b]) \o Tail(calls)
  /\ UNCHANGED <<LEN_HEAP, ROOTS, exited, pc>>

\* pop_root's last loop: what was not marked has no parents.
sweep ==
  /\ pc = "mark" /\ calls = <<>>
  /\ BLOCKS' = [b \in Handles |-> IF BLOCKS[b].alive THEN BLOCKS[b]
                                  ELSE [BLOCKS[b] EXCEPT !.parents = 0]]
  /\ pc' = "client"
  /\ UNCHANGED <<LEN_HEAP, ROOTS, exited, calls>>

-----------------------------------------------------------------------------
(* Children.                                                               *)

BadIndex(parent, i) == BITS <= i \/ BLOCKS[parent].len <= i

\* remove_child_at on blocks bs.
Removed(bs, parent, i) ==
  LET c == bs[parent].child[i]
  IN  IF c = Nil THEN bs ELSE Free([bs EXCEPT ![parent].child[i] = Nil], c)

\* insert_child_at on blocks bs.
Inserted(bs, parent, c, i) ==
  [Removed(bs, parent, i) EXCEPT ![parent].child[i] = c, ![c].parents = Up(@)]

remove_child_at(parent, i) ==
  /\ Idle /\ parent \in Reachable
  /\ IF BadIndex(parent, i) THEN Exit("index")
     ELSE BLOCKS' = Removed(BLOCKS, parent, i) /\ UNCHANGED <<LEN_HEAP, ROOTS, exited, pc, calls>>

\* A child the client still reaches once the slot is empty.
insert_child_at(parent, c, i) ==
  /\ Idle /\ parent \in Reachable
  /\ IF parent = c THEN Exit("self")
     ELSE IF BadIndex(parent, i) THEN Exit("index")
     ELSE /\ c \in ReachIn([BLOCKS EXCEPT ![parent].child[i] = Nil], Range(ROOTS))
          /\ BLOCKS' = Inserted(BLOCKS, parent, c, i)
          /\ UNCHANGED <<LEN_HEAP, ROOTS, exited, pc, calls>>

\* insert_child_at(parent, alloc_block(len), i)
insert_new_child_at(parent, len, i) ==
  /\ Idle /\ parent \in Reachable
  /\ IF AllocExit(len) # "none" THEN Exit(AllocExit(len))
     ELSE IF BadIndex(parent, i) THEN Exit("index")
     ELSE LET c == Picked(len)
          IN  /\ BLOCKS' = Inserted(With(BLOCKS, c, Fresh(len, 0)), parent, c, i)
              /\ LEN_HEAP' = LEN_HEAP + len
              /\ UNCHANGED <<ROOTS, exited, pc, calls>>

Next ==
  \/ pop_root \/ mark \/ sweep
  \/ \E len \in Lens : alloc_root(len)
  \/ \E parent \in Handles, i \in 0 .. BITS :
       \/ remove_child_at(parent, i)
       \/ \E c \in Handles : insert_child_at(parent, c, i)
       \/ \E len \in Lens : insert_new_child_at(parent, len, i)

Spec == Init /\ [][Next]_vars

-----------------------------------------------------------------------------
(* Properties.                                                             *)

\* The references to b that count: a root, and one per slot of a reachable block.
References(b) ==
  Cardinality({k \in DOMAIN ROOTS : ROOTS[k] = b}) +
  Cardinality({e \in Reachable \X (0 .. BITS - 1) :
                 e[2] \in DOMAIN BLOCKS[e[1]].child /\ BLOCKS[e[1]].child[e[2]] = b})

\* Between calls a block the client can reach is alive and its count is never below its true
\* number of references, whatever cycles are built and broken, so that neither
\* free_block (lines 107-122) nor the reuse in alloc_block (line 77) can lose it.
\* Dead blocks leave their children counted too high, but a word of HEAP counts
\* at most once, now or in the past: a count is bounded by the words of the other
\* arrays, plus a root.  As HEAP is no larger than the values of a u8, the u8
\* never wraps (line 175).
CountsCover ==
  pc = "client" => \A b \in Reachable :
    /\ BLOCKS[b].alive
    /\ References(b) <= BLOCKS[b].parents
    /\ BLOCKS[b].parents <= LEN_HEAP - BLOCKS[b].len + 1

\* A block the client can reach is never handed out again (line 86).
NeverReused == [][ \A b \in Reachable : BLOCKS'[b].array = BLOCKS[b].array ]_vars

\* When pop_root returns, the test of alloc_block (line 77) holds of exactly the
\* blocks that the remaining roots do not reach: marking, which turns back at blocks
\* that are alive (line 125), goes round every cycle and past every shared block, and
\* marks nothing on behalf of the popped root or of a dead block (lines 141-151).
CyclesReclaimed ==
  [][ pc = "mark" /\ pc' = "client" =>
        \A b \in Handles : Reusable(BLOCKS'[b], BLOCKS'[b].cap) <=> b \notin Reachable' ]_vars

=============================================================================

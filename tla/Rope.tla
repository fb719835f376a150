-------------------------------- MODULE Rope --------------------------------
(***************************************************************************)
(* src/rope.c: a text as a binary tree of leaves of one character, in a    *)
(* pool of SIZE nodes with a stack of free slots.  An edit splits the tree *)
(* at a position and concatenates the pieces: _split gives every node on   *)
(* its path back to the pool before it goes on below it, and concat takes  *)
(* slots out again while the recursion returns.                            *)
(*                                                                         *)
(* The program is sequential, so one call is one step.  A slot that has    *)
(* been given back is marked, so that any use of it afterwards would show. *)
(* The client does not use a rope all of whose text it has deleted (NULL). *)
(* Positions are i8: the length of a range is narrowed to one (I8), so that*)
(* one of more than 127 is negative, as with bounds in the other order.    *)
(***************************************************************************)
EXTENDS Integers, Sequences, FiniteSets, Functions

CONSTANTS
  SIZE,       \* nodes in the pool
  Strings,    \* the strings the client makes ropes of
  Positions,  \* the positions it passes
  Ranges,     \* the pairs of positions it deletes between
  Nil

ASSUME SizeAssumption == SIZE \in Nat \ {0}

VARIABLES
  ropes,   \* the pool: a leaf, a node or free
  slots,   \* memory->slots, up to memory->index
  rope,    \* the client's rope
  exited,  \* "none", "full" (alloc) or "null" (a NULL rope was followed)
  call     \* the client's last call, with its arguments

vars == <<ropes, slots, rope, exited, call>>

Slots == 0 .. SIZE - 1
FreeRope == [type |-> "free", weight |-> 0]
LeafOf(c) == [type |-> "leaf", weight |-> 1, value |-> c]
NodeOf(l, r, w) == [type |-> "node", weight |-> w, left |-> l, right |-> r]

-----------------------------------------------------------------------------
(* Functions of the memory, mem == [ropes, slots, exited].  Those that also*)
(* return ropes return [mem, at] or [mem, left, right].                    *)

Memory == [ropes |-> ropes, slots |-> slots, exited |-> exited]
At(mem, a) == [mem |-> mem, at |-> a]
Pair(mem, l, r) == [mem |-> mem, left |-> l, right |-> r]
Failed(mem, why) == [mem EXCEPT !.exited = IF @ = "none" THEN why ELSE @]

\* alloc, and the fields its caller sets.
alloc(mem, r) ==
  IF mem.slots = <<>> \/ mem.exited # "none" THEN At(Failed(mem, "full"), Nil)
  ELSE LET slot == mem.slots[Len(mem.slots)]
       IN  At([mem EXCEPT !.slots = SubSeq(@, 1, Len(@) - 1), !.ropes[slot] = r], slot)

dealloc(mem, a) == [mem EXCEPT !.slots = Append(@, a), !.ropes[a] = FreeRope]

\* Fault: the weight is the left part's, as in many descriptions of ropes.
concat_left_weight(mem, l, r) ==
  IF l = Nil THEN At(mem, r) ELSE IF r = Nil THEN At(mem, l)
  ELSE alloc(mem, NodeOf(l, r, mem.ropes[l].weight))

concat(mem, l, r) ==
  IF l = Nil THEN At(mem, r) ELSE IF r = Nil THEN At(mem, l)
  ELSE alloc(mem, NodeOf(l, r, mem.ropes[l].weight + mem.ropes[r].weight))

\* new_ on a string that is not empty: halves, the left one first.
RECURSIVE new_(_, _)
new_(mem, s) ==
  IF Len(s) = 1 THEN alloc(mem, LeafOf(s[1]))
  ELSE LET m == Len(s) \div 2
           l == new_(mem, SubSeq(s, 1, m))
           r == new_(l.mem, SubSeq(s, m + 1, Len(s)))
       IN  IF r.mem.exited # "none" THEN r ELSE concat(r.mem, l.at, r.at)

\* _split at position i.  Its (i8)(i - weight) changes nothing, as 0 < weight <= i.
RECURSIVE _split(_, _, _)
_split(mem, a, i) ==
  LET node == mem.ropes[a]
      weight == mem.ropes[node.left].weight
      given == dealloc(mem, a)
      below == IF i < weight THEN _split(given, node.left, i)
               ELSE _split(given, node.right, i - weight)
      joined == IF i < weight THEN concat(below.mem, below.right, node.right)
                ELSE concat(below.mem, node.left, below.left)
  IN  IF node.type = "leaf" THEN IF i < 1 THEN Pair(mem, Nil, a) ELSE Pair(mem, a, Nil)
      ELSE IF i < weight THEN Pair(joined.mem, below.left, joined.at)
      ELSE Pair(joined.mem, joined.at, below.right)

insert(mem, a, b, i) ==
  LET pair == _split(mem, a, i)
      head == concat(pair.mem, pair.left, b)
  IN  IF head.mem.exited # "none" THEN head ELSE concat(head.mem, head.at, pair.right)

\* free_; it follows its argument without a test.
RECURSIVE free_(_, _)
free_(mem, a) ==
  IF a = Nil THEN Failed(mem, "null")
  ELSE IF mem.ropes[a].type = "leaf" THEN dealloc(mem, a)
  ELSE dealloc(free_(free_(mem, mem.ropes[a].left), mem.ropes[a].right), a)

\* Fault: the second split takes the end of the range for its length.
delete_end(mem, a, i, j) ==
  LET outer == _split(mem, a, i)
      inner == _split(outer.mem, outer.right, j)
      freed == free_(inner.mem, inner.left)
  IN  IF outer.right = Nil THEN At(outer.mem, outer.left)
      ELSE IF freed.exited # "none" THEN At(freed, Nil)
      ELSE concat(freed, outer.left, inner.right)

\* The conversion of n to an i8.
I8(n) == ((n + 128) % 256) - 128

\* delete_ between different positions.  With j < i the code splits at j, as it
\* does between j and i, but then j - i, which is negative, is its length.
delete_(mem, a, i, j) ==
  LET outer == _split(mem, a, IF j < i THEN j ELSE i)
      inner == _split(outer.mem, outer.right, I8(j - i))
      freed == free_(inner.mem, inner.left)
  IN  IF outer.right = Nil THEN At(outer.mem, outer.left)
      ELSE IF freed.exited # "none" THEN At(freed, Nil)
      ELSE concat(freed, outer.left, inner.right)

RECURSIVE balance(_, _)
balance(mem, a) ==
  LET pair == _split(mem, a, mem.ropes[a].weight \div 2)
      l == IF pair.left = Nil THEN At(pair.mem, Nil) ELSE balance(pair.mem, pair.left)
      r == IF pair.right = Nil THEN At(l.mem, Nil) ELSE balance(l.mem, pair.right)
  IN  IF mem.ropes[a].type = "leaf" THEN At(mem, a) ELSE concat(r.mem, l.at, r.at)

RECURSIVE ping(_, _)
ping(a, i) ==
  LET node == ropes[a]
      weight == ropes[node.left].weight
  IN  IF node.type = "leaf" THEN node.value
      ELSE IF i < weight THEN ping(node.left, i) ELSE ping(node.right, i - weight)

-----------------------------------------------------------------------------
\* The result of the call asked for becomes the client's rope, unless the call ended
\* the program.
Returns(asked, result) ==
  /\ call' = asked
  /\ exited' = result.mem.exited
  /\ IF exited' = "none"
     THEN ropes' = result.mem.ropes /\ slots' = result.mem.slots /\ rope' = result.at
     ELSE UNCHANGED <<ropes, slots, rope>>

Usable == exited = "none" /\ rope # Nil

\* init() and main's first new_: slots are taken from the top of the stack.
Init ==
  \E s \in Strings :
    LET empty == [ropes |-> [a \in Slots |-> FreeRope],
                  slots |-> [n \in 1 .. SIZE |-> n - 1], exited |-> "none"]
        made == new_(empty, s)
    IN  /\ ropes = made.mem.ropes /\ slots = made.mem.slots
        /\ rope = made.at /\ exited = made.mem.exited
        /\ call = <<"new", s>>

\* insert(memory, rope, new_(...), i)
Insert ==
  /\ Usable
  /\ \E s \in Strings, i \in Positions :
       LET made == new_(Memory, s)
       IN  Returns(<<"insert", s, i>>,
                   IF made.mem.exited # "none" THEN made ELSE insert(made.mem, rope, made.at, i))

\* insert(memory, new_(...), rope, i)
InsertInto ==
  /\ Usable
  /\ \E s \in Strings, i \in Positions :
       LET made == new_(Memory, s)
       IN  Returns(<<"insert_into", s, i>>,
                   IF made.mem.exited # "none" THEN made ELSE insert(made.mem, made.at, rope, i))

Delete ==
  /\ Usable
  /\ \E r \in Ranges :
       Returns(<<"delete", r[1], r[2]>>,
               IF r[1] = r[2] THEN At(Memory, rope) ELSE delete_(Memory, rope, r[1], r[2]))

Balance == Usable /\ Returns(<<"balance">>, balance(Memory, rope))

Next == Insert \/ InsertInto \/ Delete \/ Balance

Spec == Init /\ [][Next]_vars

-----------------------------------------------------------------------------
(* Properties.                                                             *)

RECURSIVE Tree(_)
Tree(a) ==
  IF a = Nil THEN {}
  ELSE {a} \cup IF ropes[a].type # "node" THEN {} ELSE Tree(ropes[a].left) \cup Tree(ropes[a].right)

\* Every slot is either in the client's rope or on the stack of free slots, and
\* there once: no edit leaks a node, frees one twice, or keeps one it has given
\* back.  This is what main prints as memory->index in the end (line 323).
SlotsConserved ==
  /\ Range(slots) = Slots \ Tree(rope)
  /\ Cardinality(Range(slots)) = Len(slots)
  /\ \A a \in Tree(rope) : ropes[a].type # "free"

RECURSIVE TextAt(_)
TextAt(a) ==
  IF a = Nil THEN <<>> ELSE IF ropes[a].type = "leaf" THEN <<ropes[a].value>>
  ELSE TextAt(ropes[a].left) \o TextAt(ropes[a].right)

T == INSTANCE Text WITH text <- TextAt(rope), open <- exited = "none", call <- call,
                        LIMIT <- (SIZE + 1) \div 2

\* The weights that _split and ping steer by (lines 114 and 209) are the lengths
\* of the text below, and so ping finds the character at a position, clipped to
\* the text (lines 201-221).
PingRight ==
  /\ \A a \in Tree(rope) : ropes[a].weight = Len(TextAt(a))
  /\ rope # Nil => \A i \in Positions :
       ping(rope, i) = TextAt(rope)[IF i < 0 THEN 1 ELSE IF i < Len(TextAt(rope)) THEN i + 1
                                    ELSE Len(TextAt(rope))]

\* The edits of a rope are edits of its text, whatever shape earlier splits gave
\* the tree, and balance changes nothing.  n characters need 2 * n - 1 nodes and a
\* split needs none (lines 117-124), so a call ends the program for want of memory
\* exactly if it is an insertion whose result does not fit the pool: no deletion and no
\* balance does, nor an insertion that fits; and no call follows a NULL rope.
IsText == T!Spec

RECURSIVE DepthIn(_, _)
DepthIn(mem, a) ==
  IF mem.ropes[a].type = "leaf" THEN 0
  ELSE LET l == DepthIn(mem, mem.ropes[a].left)
           r == DepthIn(mem, mem.ropes[a].right)
       IN  1 + IF l < r THEN r ELSE l

\* From every rope an edit can leave behind, balance makes one that is as flat as
\* a binary tree of that many leaves can be (lines 177-199).
BalanceIsFlat ==
  Usable =>
    LET flat == balance(Memory, rope)
        depth == DepthIn(flat.mem, flat.at)
    IN  depth > 0 => 2 ^ (depth - 1) < Len(TextAt(rope))

\* The pool and the tree that splits, concatenations and balancing rely on.
WellFormed == SlotsConserved /\ PingRight /\ BalanceIsFlat

\* delete_ takes its bounds in either order, as new_ does (lines 90-94 and
\* 159-162): no order of bounds makes it follow a NULL rope.
DeleteTakesAnyOrder == exited # "null"
=============================================================================

------------------------------- MODULE BTree --------------------------------
(***************************************************************************)
(* src/btree.c: a B+ tree.  Leaves hold the entries in key order and are   *)
(* chained by next; blocks hold separator keys and children, all leaves or *)
(* all blocks.  insert_block inserts below and then splits the child it    *)
(* went into if that is now full, so a split travels up as the recursion   *)
(* returns; insert_tree splits a full root under a new one.                *)
(*                                                                         *)
(* One insertion is one step: the program is sequential.  Arrays with a    *)
(* length are sequences, pointers are positions in the two pools.  The     *)
(* value the client gives a key is told from other values by the key alone.*)
(***************************************************************************)
EXTENDS Integers, SequencesExt

CONSTANTS
  CAP_LEAF_BUFFER, CAP_NODES,  \* when a leaf, and a block, is full
  CAP_BLOCKS, CAP_LEAFS,       \* the pools
  Keys

ASSUME CapAssumption ==
  /\ CAP_LEAF_BUFFER \in Nat /\ 1 < CAP_LEAF_BUFFER
  /\ CAP_NODES \in Nat /\ 2 < CAP_NODES
  /\ CAP_BLOCKS \in Nat \ {0} /\ CAP_LEAFS \in Nat \ {0}
\* A Key is an int32_t.
Key == {k \in Int : -2147483647 - 1 <= k /\ k <= 2147483647}
ASSUME KeysAssumption == Keys \subseteq Key

VARIABLES
  leafs,     \* the pool of leaves: [buffer, next], next = 0 for NULL
  blocks,    \* the pool of blocks: [nodes, children, tag]
  tree,      \* the root block
  exited     \* the EXIT_IF that ended the program, or "none"

vars == <<leafs, blocks, tree, exited>>

NewLeafs == [buffer |-> <<>>, next |-> 0]

\* new_tree
Init ==
  /\ leafs = <<NewLeafs>>
  /\ blocks = <<[nodes |-> <<>>, children |-> <<1>>, tag |-> "leafs"]>>
  /\ tree = 1
  /\ exited = "none"

-----------------------------------------------------------------------------
(* Functions of the two pools, as a record mem == [leafs, blocks, exited]. *)

Exit(mem, why) == [mem EXCEPT !.exited = why]

\* How many elements of keys the code's loops pass before one above key.
Passed(keys, key) ==
  IF \E n \in DOMAIN keys : key < keys[n]
  THEN (CHOOSE n \in DOMAIN keys : key < keys[n] /\ \A o \in 1 .. n - 1 : keys[o] <= key) - 1
  ELSE Len(keys)

KeysOf(buffer) == [n \in DOMAIN buffer |-> buffer[n].key]

insert_leafs(mem, l, entry) ==
  LET buffer == mem.leafs[l].buffer
      i == Passed(KeysOf(buffer), entry.key)
  IN  IF CAP_LEAF_BUFFER <= Len(buffer) THEN Exit(mem, "leaf full")
      ELSE IF \E n \in 1 .. i : buffer[n].key = entry.key THEN Exit(mem, "duplicate")
      ELSE [mem EXCEPT !.leafs[l].buffer = InsertAt(@, i + 1, entry)]

\* Fault: the new leaf is not given the old one's successor.
SplitLeafsUnlinked(mem, l) ==
  LET buffer == mem.leafs[l].buffer
      half == CAP_LEAF_BUFFER \div 2
      r == Len(mem.leafs) + 1
  IN  [mem EXCEPT !.leafs = Append([@ EXCEPT ![l] = [buffer |-> SubSeq(buffer, 1, half), next |-> r]],
                                   [buffer |-> SubSeq(buffer, half + 1, Len(buffer)), next |-> 0])]

\* alloc_leafs, and move_half_leafs from leaf l to the new one.
SplitLeafs(mem, l) ==
  LET buffer == mem.leafs[l].buffer
      half == CAP_LEAF_BUFFER \div 2
      r == Len(mem.leafs) + 1
  IN  IF CAP_LEAFS < r THEN Exit(mem, "leafs")
      ELSE [mem EXCEPT !.leafs = Append(
              [@ EXCEPT ![l] = [buffer |-> SubSeq(buffer, 1, half), next |-> r]],
              [buffer |-> SubSeq(buffer, half + 1, Len(buffer)), next |-> mem.leafs[l].next])]

\* alloc_block, and move_half_block from block b to the new one.  The middle
\* separator, SplitKey(block), goes to neither.
SplitKey(block) == block.nodes[CAP_NODES \div 2 + 1]
SplitBlock(mem, b) ==
  LET block == mem.blocks[b]
      half == CAP_NODES \div 2
  IN  IF CAP_BLOCKS <= Len(mem.blocks) THEN Exit(mem, "blocks")
      ELSE [mem EXCEPT !.blocks = Append(
              [@ EXCEPT ![b] = [block EXCEPT !.nodes = SubSeq(block.nodes, 1, half),
                                             !.children = SubSeq(block.children, 1, half + 1)]],
              [nodes |-> SubSeq(block.nodes, half + 2, CAP_NODES),
               children |-> SubSeq(block.children, half + 2, CAP_NODES + 1),
               tag |-> block.tag])]

\* Fault: the new child goes before the one it was split from.
WithChildBefore(mem, b, i, key, child) ==
  LET block == mem.blocks[b]
  IN  [mem EXCEPT !.blocks[b] = [block EXCEPT !.nodes = InsertAt(block.nodes, i + 1, key),
                                              !.children = InsertAt(block.children, i + 1, child)]]

\* Separator key and the child right of it enter block b after i separators.
WithChild(mem, b, i, key, child) ==
  LET block == mem.blocks[b]
  IN  [mem EXCEPT !.blocks[b] = [block EXCEPT !.nodes = InsertAt(block.nodes, i + 1, key),
                                              !.children = InsertAt(block.children, i + 2, child)]]

Full(sequence, cap) == cap <= Len(sequence)

ChildFor(block, key) == block.children[Passed(block.nodes, key) + 1]

\* insert_block above leaves, and above blocks, where put is what it returns for the child.
AboveLeafs(mem, b, entry) ==
  LET i == Passed(mem.blocks[b].nodes, entry.key)
      child == mem.blocks[b].children[i + 1]
      put == insert_leafs(mem, child, entry)
      split == SplitLeafs(put, child)
  IN  IF put.exited # "none" \/ ~Full(put.leafs[child].buffer, CAP_LEAF_BUFFER) THEN put
      ELSE IF split.exited # "none" THEN split
      ELSE WithChild(split, b, i, Last(split.leafs).buffer[1].key, Len(split.leafs))

AboveBlocks(put, b, child) ==
  LET key == SplitKey(put.blocks[child])
      split == SplitBlock(put, child)
  IN  IF put.exited # "none" \/ ~Full(put.blocks[child].nodes, CAP_NODES) THEN put
      ELSE IF split.exited # "none" THEN split
      ELSE WithChild(split, b, Passed(put.blocks[b].nodes, key), key, Len(split.blocks))

\* The calls of a recursion down the tree: a block, and the levels there may be below
\* it.  A tree has no more levels than blocks.
Calls(pool) == (0 .. Len(pool)) \X DOMAIN pool
Below(call, child) == <<call[1] - 1, child>>

insert_block(mem, root, entry) ==
  LET result[call \in Calls(mem.blocks)] ==
        LET b == call[2]
            block == mem.blocks[b]
            child == ChildFor(block, entry.key)
        IN  IF call[1] = 0 \/ Full(block.nodes, CAP_NODES) THEN Exit(mem, "block full")
            ELSE IF block.tag = "leafs" THEN AboveLeafs(mem, b, entry)
            ELSE AboveBlocks(result[Below(call, child)], b, child)
  IN  result[<<Len(mem.blocks), root>>]

\* insert_tree's last lines: a full root is split under a new root.
Grown(mem, root) ==
  LET split == SplitBlock(mem, root)
      parent == [nodes |-> <<SplitKey(mem.blocks[root])>>,
                 children |-> <<root, Len(split.blocks)>>, tag |-> "block"]
  IN  IF ~Full(mem.blocks[root].nodes, CAP_NODES) THEN [mem |-> mem, root |-> root]
      ELSE IF split.exited # "none" \/ CAP_BLOCKS <= Len(split.blocks)
      THEN [mem |-> Exit(split, "blocks"), root |-> root]
      ELSE [mem |-> [split EXCEPT !.blocks = Append(@, parent)], root |-> Len(split.blocks) + 1]

ValueOf(key) == key

insert_tree(key) ==
  /\ exited = "none"
  /\ LET put == insert_block([leafs |-> leafs, blocks |-> blocks, exited |-> "none"], tree,
                             [key |-> key, value |-> ValueOf(key)])
         grown == IF put.exited # "none" THEN [mem |-> put, root |-> tree] ELSE Grown(put, tree)
     IN  IF grown.mem.exited # "none"
         THEN exited' = grown.mem.exited /\ UNCHANGED <<leafs, blocks, tree>>
         ELSE /\ leafs' = grown.mem.leafs /\ blocks' = grown.mem.blocks
              /\ tree' = grown.root
              /\ UNCHANGED exited

Next == \E key \in Keys : insert_tree(key)

Spec == Init /\ [][Next]_vars

-----------------------------------------------------------------------------
(* lookup_block: the leaf a key is searched in, and what is found there.   *)

LeafFor(root, key) ==
  LET result[call \in Calls(blocks)] ==
        LET block == blocks[call[2]]
            child == ChildFor(block, key)
        IN  IF call[1] = 0 \/ block.tag = "leafs" THEN child ELSE result[Below(call, child)]
  IN  result[<<Len(blocks), root>>]

Found(key) ==
  LET buffer == leafs[LeafFor(tree, key)].buffer
      i == Passed(KeysOf(buffer), key)
  IN  {buffer[n].value : n \in {o \in 1 .. i : buffer[o].key = key}}

-----------------------------------------------------------------------------
(* Properties.                                                             *)

\* The depths of the leaves below block b.
Depths(b) ==
  LET depths[call \in Calls(blocks)] ==
        LET block == blocks[call[2]]
        IN  IF call[1] = 0 \/ block.tag = "leafs" THEN {1}
            ELSE UNION {{d + 1 : d \in depths[Below(call, block.children[n])]} :
                          n \in DOMAIN block.children}
  IN  depths[<<Len(blocks), b>>]

\* The tree stays height-balanced (lines 216-217 and 254-256), the levels being
\* told apart by the tags that say how the union Child is read (line 157).
Balanced == Cardinality(Depths(tree)) = 1

\* Nothing remains full (lines 181-186 and 217-219), so that the tests for a full
\* leaf (line 123) and a full block (line 188) never end the program.  Nor does a
\* split leave a leaf empty or a block without a separator, apart from the first
\* ones: print_walk_leafs prints the first entry of a leaf before it looks at the
\* length (line 359) and exits on a block with no separator (line 374).
Occupied ==
  /\ exited \notin {"leaf full", "block full"}
  /\ \A l \in DOMAIN leafs :
       /\ Len(leafs[l].buffer) < CAP_LEAF_BUFFER
       /\ leafs[l].buffer = <<>> => leafs = <<NewLeafs>>
  /\ \A b \in DOMAIN blocks :
       /\ Len(blocks[b].nodes) < CAP_NODES
       /\ blocks[b].nodes = <<>> => b = tree /\ blocks[b].tag = "leafs"

\* The leaves below block b from left to right.
LeafsBelow(b) ==
  LET below[call \in Calls(blocks)] ==
        LET block == blocks[call[2]]
        IN  IF call[1] = 0 \/ block.tag = "leafs" THEN block.children
            ELSE FlattenSeq([n \in DOMAIN block.children |->
                               below[Below(call, block.children[n])]])
  IN  below[<<Len(blocks), b>>]

\* print_walk_leafs visits the leaves the tree has, each once, from left to
\* right, and the keys it prints are strictly ascending (lines 356-371).
ChainInOrder ==
  LET chain == LeafsBelow(tree)
      keys == FlattenSeq([n \in DOMAIN chain |-> KeysOf(leafs[chain[n]].buffer)])
  IN  /\ Len(chain) = Len(leafs)
      /\ \A n \in DOMAIN chain :
           leafs[chain[n]].next = IF n < Len(chain) THEN chain[n + 1] ELSE 0
      /\ \A n \in 1 .. Len(keys) - 1 : keys[n] < keys[n + 1]

\* The shape that lookups and walks rely on, after every insertion.
WellFormed == Balanced /\ Occupied /\ ChainInOrder

\* Seen through lookup_block, the tree is a dictionary: an insertion adds its
\* entry and disturbs no other one, however the splits fall, and only a
\* duplicate key or a full pool ends the program.
Dict == INSTANCE Dictionary WITH
          Values <- {ValueOf(k) : k \in Keys},
          entries <- [k \in {q \in Keys : Found(q) # {}} |-> CHOOSE v \in Found(k) : TRUE],
          open <- exited = "none"
IsDictionary == Dict!Init /\ [][\/ Dict!Refuse
                                \/ \E k \in Keys : Dict!Insert(k, ValueOf(k))]_(Dict!vars)
=============================================================================

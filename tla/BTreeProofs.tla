---------------------------- MODULE BTreeProofs -----------------------------
(***************************************************************************)
(* After every insertion the B+ tree of src/btree.c is balanced, has room  *)
(* in each leaf and block and chains its leaves in the order of their keys,*)
(* and lookup_block finds what was inserted: for any sizes of the leaves,  *)
(* the blocks and the two pools, and any keys of 32 bits.                  *)
(*                                                                         *)
(* The invariant gives every leaf and block a height and a range of keys.  *)
(* Nodes of one height have disjoint ranges, a block's range falls to its  *)
(* children between its separators, a leaf has keys of its range only and  *)
(* points to the leaf whose range comes next, and the root's range is all  *)
(* keys.  A split cuts one node's range in two and leaves every other one. *)
(***************************************************************************)
EXTENDS BTree, NumberLemmas, SequenceTheorems, FiniteSetTheorems, TLAPS

-----------------------------------------------------------------------------
(* Sequences.                                                              *)

LEMMA SequenceFacts ==
  ASSUME NEW S, NEW s \in Seq(S)
  PROVE  Len(s) \in Nat /\ DOMAIN s = 1 .. Len(s) /\ \A n \in 1 .. Len(s) : s[n] \in S
  OBVIOUS

LEMMA PartIs ==
  ASSUME NEW S, NEW s \in Seq(S), NEW a \in Nat, NEW b \in Nat,
         1 <= a, a <= b + 1, b <= Len(s)
  PROVE  /\ SubSeq(s, a, b) \in Seq(S)
         /\ Len(SubSeq(s, a, b)) = b - a + 1
         /\ \A n \in 1 .. b - a + 1 : SubSeq(s, a, b)[n] = s[a + n - 1]
<1>1. Len(s) \in Nat /\ \A n \in 1 .. Len(s) : s[n] \in S
  BY SequenceFacts
<1>2. \A n \in a .. b : s[n] \in S
  BY <1>1
<1> QED
  BY <1>1, <1>2, SubSeqProperties

LEMMA InsertAtIs ==
  ASSUME NEW S, NEW s \in Seq(S), NEW e \in S, NEW p \in 1 .. Len(s) + 1
  PROVE  /\ InsertAt(s, p, e) \in Seq(S)
         /\ Len(InsertAt(s, p, e)) = Len(s) + 1
         /\ \A n \in 1 .. p - 1 : InsertAt(s, p, e)[n] = s[n]
         /\ InsertAt(s, p, e)[p] = e
         /\ \A n \in p + 1 .. Len(s) + 1 : InsertAt(s, p, e)[n] = s[n - 1]
<1>1. Len(s) \in Nat /\ p \in Nat /\ p - 1 \in Nat /\ 1 <= p /\ p <= Len(s) + 1
  BY SequenceFacts
<1> DEFINE l == SubSeq(s, 1, p - 1)
           m == <<e>>
           r == SubSeq(s, p, Len(s))
<1>2. /\ l \in Seq(S) /\ Len(l) = p - 1
      /\ \A n \in 1 .. p - 1 : l[n] = s[n]
  <2>1. /\ l \in Seq(S) /\ Len(l) = (p - 1) - 1 + 1
        /\ \A n \in 1 .. (p - 1) - 1 + 1 : l[n] = s[1 + n - 1]
    BY <1>1, PartIs
  <2> HIDE DEF l
  <2> QED
    BY <1>1, <2>1
<1>3. /\ r \in Seq(S) /\ Len(r) = Len(s) - p + 1
      /\ \A n \in 1 .. Len(s) - p + 1 : r[n] = s[p + n - 1]
  BY <1>1, PartIs
<1>4. m \in Seq(S) /\ Len(m) = 1 /\ m[1] = e
  OBVIOUS
<1> HIDE DEF l, m, r
<1>5. /\ l \o m \in Seq(S) /\ Len(l \o m) = p
      /\ \A n \in 1 .. p : (l \o m)[n] = IF n <= p - 1 THEN l[n] ELSE m[n - (p - 1)]
  <2>1. /\ l \o m \in Seq(S) /\ Len(l \o m) = Len(l) + Len(m)
        /\ \A n \in 1 .. Len(l) + Len(m) :
             (l \o m)[n] = IF n <= Len(l) THEN l[n] ELSE m[n - Len(l)]
    BY <1>2, <1>4, ConcatProperties
  <2>2. Len(l) + Len(m) = p
    BY <1>1, <1>2, <1>4
  <2> QED
    BY <1>2, <2>1, <2>2
<1> DEFINE lm == l \o m
<1>51. /\ lm \in Seq(S) /\ Len(lm) = p
       /\ \A n \in 1 .. p - 1 : lm[n] = l[n]
       /\ lm[p] = e
  <2>1. p - (p - 1) = 1 /\ ~(p <= p - 1) /\ p \in 1 .. p
    BY <1>1
  <2> QED
    BY <1>1, <1>4, <1>5, <2>1
<1> HIDE DEF lm
<1>6. /\ lm \o r \in Seq(S) /\ Len(lm \o r) = Len(s) + 1
      /\ \A n \in 1 .. Len(s) + 1 : (lm \o r)[n] = IF n <= p THEN lm[n] ELSE r[n - p]
  <2>1. /\ lm \o r \in Seq(S) /\ Len(lm \o r) = Len(lm) + Len(r)
        /\ \A n \in 1 .. Len(lm) + Len(r) :
             (lm \o r)[n] = IF n <= Len(lm) THEN lm[n] ELSE r[n - Len(lm)]
    BY <1>3, <1>51, ConcatProperties
  <2>2. Len(lm) + Len(r) = Len(s) + 1
    BY <1>1, <1>3, <1>51
  <2> QED
    BY <1>51, <2>1, <2>2
<1>7. InsertAt(s, p, e) = lm \o r
  BY DEF InsertAt, l, m, r, lm
<1> DEFINE t == InsertAt(s, p, e)
<1> HIDE DEF t
<1>8. t \in Seq(S) /\ Len(t) = Len(s) + 1
  BY <1>6, <1>7 DEF t
<1>9. ASSUME NEW n \in 1 .. p - 1 PROVE t[n] = s[n]
  BY <1>1, <1>2, <1>51, <1>6, <1>7 DEF t
<1>10. t[p] = e
  <2>1. p \in 1 .. Len(s) + 1 /\ p <= p
    BY <1>1
  <2> QED
    BY <1>51, <1>6, <1>7, <2>1 DEF t
<1>11. ASSUME NEW n \in p + 1 .. Len(s) + 1 PROVE t[n] = s[n - 1]
  <2>1. n \in 1 .. Len(s) + 1 /\ ~(n <= p) /\ n - p \in 1 .. Len(s) - p + 1 /\ p + (n - p) - 1 = n - 1
    BY <1>1
  <2>2. t[n] = r[n - p]
    BY <1>6, <1>7, <2>1 DEF t
  <2> QED
    BY <1>3, <2>1, <2>2
<1> QED
  BY <1>8, <1>9, <1>10, <1>11 DEF t

-----------------------------------------------------------------------------
(* The loops that look for a key's place.                                  *)

Ascending(keys) == \A m, n \in DOMAIN keys : m < n => keys[m] < keys[n]

LEMMA PassedIs ==
  ASSUME NEW keys \in Seq(Int), Ascending(keys), NEW key \in Int
  PROVE  /\ Passed(keys, key) \in 0 .. Len(keys)
         /\ \A n \in 1 .. Passed(keys, key) : keys[n] <= key
         /\ \A n \in Passed(keys, key) + 1 .. Len(keys) : key < keys[n]
<1>1. Len(keys) \in Nat /\ DOMAIN keys = 1 .. Len(keys) /\ \A n \in 1 .. Len(keys) : keys[n] \in Int
  BY SequenceFacts
<1>2. \A m, n \in 1 .. Len(keys) : m < n => keys[m] < keys[n]
  BY <1>1 DEF Ascending
<1>3. CASE \E n \in DOMAIN keys : key < keys[n]
  <2> DEFINE S == {n \in 1 .. Len(keys) : key < keys[n]}
  <2>1. S \subseteq Nat /\ S # {}
    BY <1>1, <1>3
  <2>2. PICK k \in S : \A l \in S : k <= l
    <3> HIDE DEF S
    <3> QED
      BY <2>1, LeastNumber
  <2>3. /\ k \in DOMAIN keys /\ key < keys[k] /\ \A o \in 1 .. k - 1 : keys[o] <= key
    BY <1>1, <2>2
  <2> DEFINE First(n) == key < keys[n] /\ \A o \in 1 .. n - 1 : keys[o] <= key
             p == CHOOSE n \in DOMAIN keys : First(n)
  <2>4. p \in DOMAIN keys /\ First(p)
    <3>1. \E n \in DOMAIN keys : First(n)
      BY <2>3
    <3> QED
      BY <3>1, Zenon
  <2>5. Passed(keys, key) = p - 1
    BY <1>3 DEF Passed
  <2> HIDE DEF p
  <2>6. p \in 1 .. Len(keys) /\ key < keys[p] /\ \A o \in 1 .. p - 1 : keys[o] <= key
    BY <1>1, <2>4
  <2>7. ASSUME NEW n \in p .. Len(keys) PROVE key < keys[n]
    BY <1>1, <1>2, <2>6
  <2> HIDE DEF First
  <2> QED
    BY <1>1, <2>5, <2>6, <2>7
<1>4. CASE ~ \E n \in DOMAIN keys : key < keys[n]
  <2>1. Passed(keys, key) = Len(keys)
    BY <1>4, Zenon DEF Passed
  <2>2. \A n \in 1 .. Len(keys) : keys[n] <= key
    BY <1>1, <1>4
  <2> QED
    BY <1>1, <2>1, <2>2
<1> QED
  BY <1>3, <1>4

LEMMA PassedTo ==
  ASSUME NEW keys \in Seq(Int), Ascending(keys), NEW key \in Int, NEW i \in 0 .. Len(keys),
         i = 0 \/ keys[i] <= key, i = Len(keys) \/ key < keys[i + 1]
  PROVE  Passed(keys, key) = i
<1>1. Len(keys) \in Nat /\ \A n \in 1 .. Len(keys) : keys[n] \in Int
  BY SequenceFacts
<1> DEFINE p == Passed(keys, key)
<1>2. /\ p \in 0 .. Len(keys)
      /\ \A n \in 1 .. p : keys[n] <= key
      /\ \A n \in p + 1 .. Len(keys) : key < keys[n]
  BY PassedIs
<1> HIDE DEF p
<1>3. ASSUME p < i PROVE FALSE
  <2>1. i \in p + 1 .. Len(keys) /\ i \in 1 .. Len(keys) /\ i # 0
    BY <1>1, <1>2, <1>3
  <2> QED
    BY <1>1, <1>2, <2>1
<1>4. ASSUME i < p PROVE FALSE
  <2>1. i + 1 \in 1 .. p /\ i + 1 \in 1 .. Len(keys) /\ i # Len(keys)
    BY <1>1, <1>2, <1>4
  <2> QED
    BY <1>1, <1>2, <2>1
<1> QED
  BY <1>1, <1>2, <1>3, <1>4 DEF p

-----------------------------------------------------------------------------
(* The tree with every node's height, and the range of keys it is for.     *)

\* A Key is an int32_t.
Least == -2147483647 - 1
Beyond == 2147483648

EntryOf(key) == [key |-> key, value |-> ValueOf(key)]
Entries == {EntryOf(key) : key \in Int}

Blk(b) == <<"block", b>>
Lf(l) == <<"leafs", l>>
Nodes(L, B) == {Blk(b) : b \in DOMAIN B} \cup {Lf(l) : l \in DOMAIN L}
Kid(block, i) == <<block.tag, block.children[i]>>

\* The range of a block's i-th child lies between two separators.
KidLo(block, low, i) == IF i = 1 THEN low ELSE block.nodes[i - 1]
KidHi(block, high, i) == IF i = Len(block.children) THEN high ELSE block.nodes[i]

\* Nodes of the same height have ranges without a common key.
Ordered(N, h, lo, hi) ==
  /\ h \in [N -> Nat] /\ lo \in [N -> Int] /\ hi \in [N -> Int]
  /\ \A x \in N : Least <= lo[x] /\ lo[x] < hi[x] /\ hi[x] <= Beyond
  /\ \A x, y \in N : h[x] = h[y] /\ x # y => hi[x] <= lo[y] \/ hi[y] <= lo[x]

Blocks == [nodes : Seq(Int), children : Seq(Nat), tag : {"leafs", "block"}]

\* A block's children share its range out among them.
IsBlock(block, N, h, lo, hi, x) ==
  /\ block \in Blocks
  /\ Len(block.children) = Len(block.nodes) + 1
  /\ Ascending(block.nodes)
  /\ \A n \in 1 .. Len(block.nodes) : lo[x] < block.nodes[n] /\ block.nodes[n] < hi[x]
  /\ \A i \in 1 .. Len(block.children) :
       /\ Kid(block, i) \in N
       /\ h[Kid(block, i)] + 1 = h[x]
       /\ lo[Kid(block, i)] = KidLo(block, lo[x], i)
       /\ hi[Kid(block, i)] = KidHi(block, hi[x], i)

\* Node x with its range is split at s; y is the new right half.
IsSplit(N, h, lo, hi, x, y, s, NN, hh, ll, uu) ==
  /\ x \in N /\ y \notin N /\ NN = N \cup {y}
  /\ s \in Int /\ lo[x] < s /\ s < hi[x]
  /\ hh \in [NN -> Nat] /\ ll \in [NN -> Int] /\ uu \in [NN -> Int]
  /\ \A z \in N : hh[z] = h[z] /\ ll[z] = lo[z]
  /\ \A z \in N \ {x} : uu[z] = hi[z]
  /\ uu[x] = s
  /\ hh[y] = h[x] /\ ll[y] = s /\ uu[y] = hi[x]

LEMMA SplitExists ==
  ASSUME NEW N, NEW h, NEW lo, NEW hi, Ordered(N, h, lo, hi),
         NEW x \in N, NEW y, y \notin N, NEW s \in Int, lo[x] < s, s < hi[x]
  PROVE  \E hh, ll, uu : IsSplit(N, h, lo, hi, x, y, s, N \cup {y}, hh, ll, uu)
<1> DEFINE NN == N \cup {y}
           hh == [z \in NN |-> IF z = y THEN h[x] ELSE h[z]]
           ll == [z \in NN |-> IF z = y THEN s ELSE lo[z]]
           uu == [z \in NN |-> IF z = y THEN hi[x] ELSE IF z = x THEN s ELSE hi[z]]
<1>1. hh \in [NN -> Nat] /\ ll \in [NN -> Int] /\ uu \in [NN -> Int]
  BY DEF Ordered
<1>2. /\ \A z \in N : hh[z] = h[z] /\ ll[z] = lo[z]
      /\ \A z \in N \ {x} : uu[z] = hi[z]
      /\ uu[x] = s
      /\ hh[y] = h[x] /\ ll[y] = s /\ uu[y] = hi[x]
  OBVIOUS
<1> HIDE DEF hh, ll, uu
<1>3. IsSplit(N, h, lo, hi, x, y, s, NN, hh, ll, uu)
  BY <1>1, <1>2, Zenon DEF IsSplit
<1> QED
  BY <1>3

LEMMA SplitOrdered ==
  ASSUME NEW N, NEW h, NEW lo, NEW hi, Ordered(N, h, lo, hi),
         NEW x, NEW y, NEW s, NEW NN, NEW hh, NEW ll, NEW uu,
         IsSplit(N, h, lo, hi, x, y, s, NN, hh, ll, uu)
  PROVE  Ordered(NN, hh, ll, uu)
<1>1. /\ x \in N /\ y \notin N /\ NN = N \cup {y} /\ s \in Int /\ lo[x] < s /\ s < hi[x]
      /\ hh \in [NN -> Nat] /\ ll \in [NN -> Int] /\ uu \in [NN -> Int]
      /\ \A z \in N : hh[z] = h[z] /\ ll[z] = lo[z]
      /\ \A z \in N \ {x} : uu[z] = hi[z]
      /\ uu[x] = s
      /\ hh[y] = h[x] /\ ll[y] = s /\ uu[y] = hi[x]
  BY DEF IsSplit
<1>2. /\ \A z \in N : h[z] \in Nat /\ lo[z] \in Int /\ hi[z] \in Int
      /\ \A z \in N : Least <= lo[z] /\ lo[z] < hi[z] /\ hi[z] <= Beyond
      /\ \A u, v \in N : h[u] = h[v] /\ u # v => hi[u] <= lo[v] \/ hi[v] <= lo[u]
  BY DEF Ordered
<1>20. Least \in Int /\ Beyond \in Int
  BY DEF Least, Beyond
<1>3. ASSUME NEW z \in NN PROVE Least <= ll[z] /\ ll[z] < uu[z] /\ uu[z] <= Beyond
  <2>1. CASE z = y
    BY <1>1, <1>2, <1>20, <2>1
  <2>2. CASE z = x
    BY <1>1, <1>2, <1>20, <2>2
  <2>3. CASE z \in N \ {x}
    BY <1>1, <1>2, <1>20, <2>3
  <2> QED
    BY <1>1, <2>1, <2>2, <2>3
<1>4. ASSUME NEW u \in N, NEW v \in N, hh[u] = hh[v], u # v PROVE uu[u] <= ll[v] \/ uu[v] <= ll[u]
  <2>1. h[u] = h[v] /\ ll[u] = lo[u] /\ ll[v] = lo[v]
    BY <1>1, <1>4
  <2>2. uu[u] <= hi[u] /\ uu[v] <= hi[v] /\ uu[u] \in Int /\ uu[v] \in Int
    BY <1>1, <1>2
  <2> QED
    BY <1>2, <1>4, <2>1, <2>2
<1>5. ASSUME NEW u \in N, hh[u] = hh[y] PROVE uu[u] <= ll[y] \/ uu[y] <= ll[u]
  <2>1. CASE u = x
    BY <1>1, <2>1
  <2>2. CASE u # x
    <3>1. hi[u] <= lo[x] \/ hi[x] <= lo[u]
      BY <1>1, <1>2, <1>5, <2>2
    <3>2. uu[u] = hi[u] /\ ll[u] = lo[u]
      BY <1>1, <2>2
    <3> QED
      BY <1>1, <1>2, <3>1, <3>2
  <2> QED
    BY <2>1, <2>2
<1>6. ASSUME NEW u \in NN, NEW v \in NN, hh[u] = hh[v], u # v PROVE uu[u] <= ll[v] \/ uu[v] <= ll[u]
  BY <1>1, <1>4, <1>5, <1>6
<1> QED
  BY <1>1, <1>3, <1>6 DEF Ordered

\* What a block knows about its children.
LEMMA BlockFacts ==
  ASSUME NEW N, NEW h, NEW lo, NEW hi, Ordered(N, h, lo, hi),
         NEW block, NEW x \in N, IsBlock(block, N, h, lo, hi, x)
  PROVE  /\ block = [nodes |-> block.nodes, children |-> block.children, tag |-> block.tag]
         /\ block.nodes \in Seq(Int) /\ block.children \in Seq(Nat)
         /\ block.tag \in {"leafs", "block"}
         /\ Len(block.nodes) \in Nat /\ Len(block.children) = Len(block.nodes) + 1
         /\ \A n \in 1 .. Len(block.nodes) :
              /\ block.nodes[n] \in Int /\ lo[x] < block.nodes[n] /\ block.nodes[n] < hi[x]
         /\ \A m, n \in 1 .. Len(block.nodes) : m < n => block.nodes[m] < block.nodes[n]
         /\ h[x] \in Nat /\ lo[x] \in Int /\ hi[x] \in Int /\ lo[x] < hi[x]
<1>1. block \in Blocks
  BY DEF IsBlock
<1>2. /\ block = [nodes |-> block.nodes, children |-> block.children, tag |-> block.tag]
      /\ block.nodes \in Seq(Int) /\ block.children \in Seq(Nat)
      /\ block.tag \in {"leafs", "block"}
  BY <1>1, Zenon DEF Blocks
<1>3. Len(block.nodes) \in Nat /\ DOMAIN block.nodes = 1 .. Len(block.nodes)
      /\ \A n \in 1 .. Len(block.nodes) : block.nodes[n] \in Int
  BY <1>2, SequenceFacts
<1>4. /\ \A m, n \in 1 .. Len(block.nodes) : m < n => block.nodes[m] < block.nodes[n]
      /\ Len(block.children) = Len(block.nodes) + 1
      /\ \A n \in 1 .. Len(block.nodes) : lo[x] < block.nodes[n] /\ block.nodes[n] < hi[x]
  BY <1>3 DEF IsBlock, Ascending
<1>5. h[x] \in Nat /\ lo[x] \in Int /\ hi[x] \in Int /\ lo[x] < hi[x]
  BY DEF Ordered
<1> QED
  BY <1>2, <1>3, <1>4, <1>5

LEMMA KidFacts ==
  ASSUME NEW N, NEW h, NEW lo, NEW hi, Ordered(N, h, lo, hi),
         NEW block, NEW x \in N, IsBlock(block, N, h, lo, hi, x),
         NEW i \in 1 .. Len(block.children)
  PROVE  /\ Kid(block, i) \in N
         /\ h[Kid(block, i)] \in Nat /\ h[Kid(block, i)] + 1 = h[x]
         /\ lo[Kid(block, i)] \in Int /\ hi[Kid(block, i)] \in Int
         /\ lo[Kid(block, i)] = IF i = 1 THEN lo[x] ELSE block.nodes[i - 1]
         /\ hi[Kid(block, i)] = IF i = Len(block.nodes) + 1 THEN hi[x] ELSE block.nodes[i]
         /\ lo[x] <= lo[Kid(block, i)] /\ hi[Kid(block, i)] <= hi[x]
         /\ lo[Kid(block, i)] < hi[Kid(block, i)]
<1> DEFINE c == Kid(block, i)
<1>1. /\ c \in N /\ h[c] + 1 = h[x]
      /\ lo[c] = IF i = 1 THEN lo[x] ELSE block.nodes[i - 1]
      /\ hi[c] = IF i = Len(block.children) THEN hi[x] ELSE block.nodes[i]
  BY DEF IsBlock, KidLo, KidHi
<1>2. /\ h[c] \in Nat /\ lo[c] \in Int /\ hi[c] \in Int /\ lo[c] < hi[c]
  BY <1>1 DEF Ordered
<1>3. /\ Len(block.nodes) \in Nat /\ Len(block.children) = Len(block.nodes) + 1
      /\ \A n \in 1 .. Len(block.nodes) :
           block.nodes[n] \in Int /\ lo[x] < block.nodes[n] /\ block.nodes[n] < hi[x]
      /\ lo[x] \in Int /\ hi[x] \in Int
  BY BlockFacts
<1> HIDE DEF c
<1>4. lo[x] <= lo[c] /\ hi[c] <= hi[x]
  BY <1>1, <1>3
<1> QED
  BY <1>1, <1>2, <1>3, <1>4 DEF c

\* A node is the child of one block, and one of its children.
LEMMA OneParent ==
  ASSUME NEW N, NEW h, NEW lo, NEW hi, Ordered(N, h, lo, hi),
         NEW one, NEW x \in N, IsBlock(one, N, h, lo, hi, x),
         NEW other, NEW y \in N, IsBlock(other, N, h, lo, hi, y),
         NEW i \in 1 .. Len(one.children), NEW j \in 1 .. Len(other.children),
         Kid(one, i) = Kid(other, j)
  PROVE  x = y
<1> DEFINE c == Kid(one, i)
<1>1. /\ h[c] + 1 = h[x] /\ h[c] + 1 = h[y] /\ lo[c] < hi[c] /\ lo[c] \in Int /\ hi[c] \in Int
      /\ lo[x] <= lo[c] /\ hi[c] <= hi[x] /\ lo[y] <= lo[c] /\ hi[c] <= hi[y]
  BY KidFacts
<1> HIDE DEF c
<1>2. /\ lo[x] \in Int /\ hi[x] \in Int /\ lo[y] \in Int /\ hi[y] \in Int
      /\ h[x] = h[y] /\ x # y => hi[x] <= lo[y] \/ hi[y] <= lo[x]
  BY DEF Ordered
<1> QED
  BY <1>1, <1>2

LEMMA OnePlace ==
  ASSUME NEW N, NEW h, NEW lo, NEW hi, Ordered(N, h, lo, hi),
         NEW block, NEW x \in N, IsBlock(block, N, h, lo, hi, x),
         NEW i \in 1 .. Len(block.children), NEW j \in 1 .. Len(block.children),
         Kid(block, i) = Kid(block, j)
  PROVE  i = j
<1>1. ASSUME NEW a \in 1 .. Len(block.children), NEW b \in 1 .. Len(block.children), a < b
      PROVE  hi[Kid(block, a)] <= lo[Kid(block, b)]
  <2>1. /\ Len(block.nodes) \in Nat /\ Len(block.children) = Len(block.nodes) + 1
        /\ \A n \in 1 .. Len(block.nodes) : block.nodes[n] \in Int
        /\ \A m, n \in 1 .. Len(block.nodes) : m < n => block.nodes[m] < block.nodes[n]
    BY BlockFacts
  <2>2. a \in 1 .. Len(block.nodes) /\ b - 1 \in 1 .. Len(block.nodes) /\ a <= b - 1
        /\ b # 1 /\ a # Len(block.nodes) + 1
    BY <1>1, <2>1
  <2>3. hi[Kid(block, a)] = block.nodes[a] /\ lo[Kid(block, b)] = block.nodes[b - 1]
    BY <2>2, KidFacts
  <2> QED
    BY <2>1, <2>2, <2>3
<1>2. /\ lo[Kid(block, i)] < hi[Kid(block, i)]
      /\ lo[Kid(block, i)] \in Int /\ hi[Kid(block, i)] \in Int
  BY KidFacts
<1>3. i \in Int /\ j \in Int
  OBVIOUS
<1> QED
  BY <1>1, <1>2, <1>3

LEMMA IsBlockFrom ==
  ASSUME NEW N, NEW h, NEW lo, NEW hi, NEW x, NEW nodes \in Seq(Int), NEW children \in Seq(Nat),
         NEW tag \in {"leafs", "block"},
         Len(children) = Len(nodes) + 1,
         \A m, n \in 1 .. Len(nodes) : m < n => nodes[m] < nodes[n],
         \A n \in 1 .. Len(nodes) : lo[x] < nodes[n] /\ nodes[n] < hi[x],
         \A i \in 1 .. Len(children) :
           /\ <<tag, children[i]>> \in N
           /\ h[<<tag, children[i]>>] + 1 = h[x]
           /\ lo[<<tag, children[i]>>] = IF i = 1 THEN lo[x] ELSE nodes[i - 1]
           /\ hi[<<tag, children[i]>>] = IF i = Len(nodes) + 1 THEN hi[x] ELSE nodes[i]
  PROVE  IsBlock([nodes |-> nodes, children |-> children, tag |-> tag], N, h, lo, hi, x)
<1> DEFINE block == [nodes |-> nodes, children |-> children, tag |-> tag]
<1>1. block.nodes = nodes /\ block.children = children /\ block.tag = tag /\ block \in Blocks
  BY DEF Blocks
<1>2. DOMAIN nodes = 1 .. Len(nodes)
  BY SequenceFacts
<1> HIDE DEF block
<1>3. Ascending(block.nodes)
  BY <1>1, <1>2 DEF Ascending
<1>4. ASSUME NEW i \in 1 .. Len(block.children)
      PROVE  /\ Kid(block, i) \in N
             /\ h[Kid(block, i)] + 1 = h[x]
             /\ lo[Kid(block, i)] = KidLo(block, lo[x], i)
             /\ hi[Kid(block, i)] = KidHi(block, hi[x], i)
  <2>1. Kid(block, i) = <<tag, children[i]>> /\ i \in 1 .. Len(children)
    BY <1>1 DEF Kid
  <2>2. /\ KidLo(block, lo[x], i) = IF i = 1 THEN lo[x] ELSE nodes[i - 1]
        /\ KidHi(block, hi[x], i) = IF i = Len(nodes) + 1 THEN hi[x] ELSE nodes[i]
    BY <1>1 DEF KidLo, KidHi
  <2> QED
    BY <2>1, <2>2
<1> QED
  BY <1>1, <1>3, <1>4 DEF IsBlock, block

\* A block that has not the split node as a child is as it was.
LEMMA SplitElsewhere ==
  ASSUME NEW N, NEW h, NEW lo, NEW hi, Ordered(N, h, lo, hi),
         NEW x, NEW y, NEW s, NEW NN, NEW hh, NEW ll, NEW uu,
         IsSplit(N, h, lo, hi, x, y, s, NN, hh, ll, uu),
         NEW block, NEW p \in N, IsBlock(block, N, h, lo, hi, p), p # x,
         \A i \in 1 .. Len(block.children) : Kid(block, i) # x
  PROVE  IsBlock(block, NN, hh, ll, uu, p)
<1>1. /\ x \in N /\ y \notin N /\ NN = N \cup {y}
      /\ \A z \in N : hh[z] = h[z] /\ ll[z] = lo[z]
      /\ \A z \in N \ {x} : uu[z] = hi[z]
  BY DEF IsSplit
<1>2. hh[p] = h[p] /\ ll[p] = lo[p] /\ uu[p] = hi[p]
  BY <1>1
<1>3. /\ block \in Blocks
      /\ Len(block.children) = Len(block.nodes) + 1
      /\ Ascending(block.nodes)
      /\ \A n \in 1 .. Len(block.nodes) : lo[p] < block.nodes[n] /\ block.nodes[n] < hi[p]
      /\ \A i \in 1 .. Len(block.children) :
           /\ Kid(block, i) \in N
           /\ h[Kid(block, i)] + 1 = h[p]
           /\ lo[Kid(block, i)] = KidLo(block, lo[p], i)
           /\ hi[Kid(block, i)] = KidHi(block, hi[p], i)
  BY DEF IsBlock
<1>4. ASSUME NEW i \in 1 .. Len(block.children)
      PROVE  /\ Kid(block, i) \in NN
             /\ hh[Kid(block, i)] + 1 = hh[p]
             /\ ll[Kid(block, i)] = KidLo(block, ll[p], i)
             /\ uu[Kid(block, i)] = KidHi(block, uu[p], i)
  BY <1>1, <1>2, <1>3
<1> QED
  BY <1>2, <1>3, <1>4 DEF IsBlock

\* The block above the split node gets the new one as a child, right of the old.
LEMMA SplitParent ==
  ASSUME NEW N, NEW h, NEW lo, NEW hi, Ordered(N, h, lo, hi),
         NEW x, NEW y, NEW s, NEW NN, NEW hh, NEW ll, NEW uu,
         IsSplit(N, h, lo, hi, x, y, s, NN, hh, ll, uu),
         NEW block, NEW p \in N, IsBlock(block, N, h, lo, hi, p),
         NEW i \in 0 .. Len(block.nodes), x = Kid(block, i + 1),
         NEW r \in Nat, y = <<block.tag, r>>
  PROVE  IsBlock([nodes |-> InsertAt(block.nodes, i + 1, s),
                  children |-> InsertAt(block.children, i + 2, r), tag |-> block.tag],
                 NN, hh, ll, uu, p)
<1>1. /\ x \in N /\ y \notin N /\ NN = N \cup {y} /\ s \in Int /\ lo[x] < s /\ s < hi[x]
      /\ \A z \in N : hh[z] = h[z] /\ ll[z] = lo[z]
      /\ \A z \in N \ {x} : uu[z] = hi[z]
      /\ uu[x] = s
      /\ hh[y] = h[x] /\ ll[y] = s /\ uu[y] = hi[x]
  BY DEF IsSplit
<1> DEFINE n2 == InsertAt(block.nodes, i + 1, s)
           c2 == InsertAt(block.children, i + 2, r)
<1>2. PICK nodes, children, tag, top :
        /\ nodes = block.nodes /\ children = block.children /\ tag = block.tag
        /\ top = Len(nodes)
  OBVIOUS
<1>21. /\ top \in Nat /\ i \in 0 .. top
       /\ nodes \in Seq(Int) /\ children \in Seq(Nat) /\ tag \in {"leafs", "block"}
       /\ Len(nodes) = top /\ Len(children) = top + 1
  BY <1>2, BlockFacts
<1>22. /\ \A n \in 1 .. top : nodes[n] \in Int /\ lo[p] < nodes[n] /\ nodes[n] < hi[p]
       /\ \A m, n \in 1 .. top : m < n => nodes[m] < nodes[n]
       /\ h[p] \in Nat /\ lo[p] \in Int /\ hi[p] \in Int /\ lo[p] < hi[p]
  BY <1>2, BlockFacts
<1>23. top \in Nat /\ i \in 0 .. top /\ i \in Nat /\ i <= top
  BY <1>21
<1>20. /\ n2 = InsertAt(nodes, i + 1, s) /\ c2 = InsertAt(children, i + 2, r)
       /\ y = <<tag, r>>
  BY <1>2
<1> HIDE DEF n2, c2
<1>3. ASSUME NEW k \in 1 .. top + 1
      PROVE  /\ Kid(block, k) \in N /\ Kid(block, k) = <<tag, children[k]>>
             /\ h[Kid(block, k)] \in Nat /\ h[Kid(block, k)] + 1 = h[p]
             /\ lo[Kid(block, k)] = IF k = 1 THEN lo[p] ELSE nodes[k - 1]
             /\ hi[Kid(block, k)] = IF k = top + 1 THEN hi[p] ELSE nodes[k]
             /\ k # i + 1 => Kid(block, k) # x
  <2>1. k \in 1 .. Len(block.children) /\ i + 1 \in 1 .. Len(block.children)
    BY <1>2, <1>21, <1>23
  <2>2. Kid(block, k) = x => k = i + 1
    BY <2>1, OnePlace
  <2>3. Kid(block, k) = <<tag, children[k]>>
    BY <1>2 DEF Kid
  <2>4. /\ Kid(block, k) \in N
        /\ h[Kid(block, k)] \in Nat /\ h[Kid(block, k)] + 1 = h[p]
        /\ lo[Kid(block, k)] = IF k = 1 THEN lo[p] ELSE nodes[k - 1]
        /\ hi[Kid(block, k)] = IF k = top + 1 THEN hi[p] ELSE nodes[k]
    BY <1>2, <1>21, <2>1, KidFacts
  <2> QED
    BY <2>2, <2>3, <2>4
<1>4. /\ i + 1 \in 1 .. top + 1 /\ i + 2 \in 1 .. top + 2
  BY <1>23
<1>5. /\ n2 \in Seq(Int) /\ Len(n2) = top + 1
      /\ \A n \in 1 .. i : n2[n] = nodes[n]
      /\ n2[i + 1] = s
      /\ \A n \in i + 2 .. top + 1 : n2[n] = nodes[n - 1]
  <2>1. PICK a : a = i + 1
    OBVIOUS
  <2>2. a \in 1 .. Len(nodes) + 1 /\ nodes \in Seq(Int) /\ s \in Int /\ n2 = InsertAt(nodes, a, s)
    BY <1>1, <1>4, <1>20, <1>21, <2>1
  <2>300. PICK T : T = Int
    OBVIOUS
  <2>30. a \in 1 .. Len(nodes) + 1 /\ nodes \in Seq(T) /\ s \in T
    BY <2>2, <2>300
  <2>31. /\ InsertAt(nodes, a, s) \in Seq(T) /\ Len(InsertAt(nodes, a, s)) = Len(nodes) + 1
         /\ \A n \in 1 .. a - 1 : InsertAt(nodes, a, s)[n] = nodes[n]
         /\ InsertAt(nodes, a, s)[a] = s
         /\ \A n \in a + 1 .. Len(nodes) + 1 : InsertAt(nodes, a, s)[n] = nodes[n - 1]
    BY ONLY <2>30, InsertAtIs
  <2>3. /\ n2 \in Seq(Int) /\ Len(n2) = Len(nodes) + 1
        /\ \A n \in 1 .. a - 1 : n2[n] = nodes[n]
        /\ n2[a] = s
        /\ \A n \in a + 1 .. Len(nodes) + 1 : n2[n] = nodes[n - 1]
    BY <2>2, <2>300, <2>31
  <2>4. a - 1 = i /\ a + 1 = i + 2
    BY <1>23, <2>1
  <2> QED
    BY <1>21, <2>1, <2>3, <2>4
<1>6. /\ c2 \in Seq(Nat) /\ Len(c2) = top + 2
      /\ \A n \in 1 .. i + 1 : c2[n] = children[n]
      /\ c2[i + 2] = r
      /\ \A n \in i + 3 .. top + 2 : c2[n] = children[n - 1]
  <2>1. PICK a : a = i + 2
    OBVIOUS
  <2>2. /\ a \in 1 .. Len(children) + 1 /\ children \in Seq(Nat) /\ r \in Nat
        /\ c2 = InsertAt(children, a, r)
    BY <1>20, <1>21, <1>23, <2>1
  <2>300. PICK T : T = Nat
    OBVIOUS
  <2>30. a \in 1 .. Len(children) + 1 /\ children \in Seq(T) /\ r \in T
    BY <2>2, <2>300
  <2>31. /\ InsertAt(children, a, r) \in Seq(T) /\ Len(InsertAt(children, a, r)) = Len(children) + 1
         /\ \A n \in 1 .. a - 1 : InsertAt(children, a, r)[n] = children[n]
         /\ InsertAt(children, a, r)[a] = r
         /\ \A n \in a + 1 .. Len(children) + 1 : InsertAt(children, a, r)[n] = children[n - 1]
    BY ONLY <2>30, InsertAtIs
  <2>3. /\ c2 \in Seq(Nat) /\ Len(c2) = Len(children) + 1
        /\ \A n \in 1 .. a - 1 : c2[n] = children[n]
        /\ c2[a] = r
        /\ \A n \in a + 1 .. Len(children) + 1 : c2[n] = children[n - 1]
    BY <2>2, <2>300, <2>31
  <2>4. a - 1 = i + 1 /\ a + 1 = i + 3 /\ Len(children) + 1 = top + 2
    BY <1>21, <1>23, <2>1
  <2> QED
    BY <2>1, <2>3, <2>4
<1>7. /\ i + 1 \in 1 .. top + 1 /\ Kid(block, i + 1) = x /\ h[x] + 1 = h[p] /\ h[x] \in Nat
      /\ lo[x] = (IF i = 0 THEN lo[p] ELSE nodes[i])
      /\ hi[x] = (IF i = top THEN hi[p] ELSE nodes[i + 1])
      /\ lo[x] \in Int /\ hi[x] \in Int
  <2>1. i + 1 = 1 <=> i = 0
    OBVIOUS
  <2>2. (i + 1) - 1 = i /\ (i + 1 = top + 1 <=> i = top)
    BY <1>23
  <2>3. lo[x] \in Int /\ hi[x] \in Int
    BY <1>1 DEF Ordered
  <2> QED
    BY <1>3, <1>4, <2>1, <2>2, <2>3
<1>8. p # x /\ hh[p] = h[p] /\ ll[p] = lo[p] /\ uu[p] = hi[p]
  <2>1. p # x
    BY <1>7
  <2> QED
    BY <1>1, <2>1
<1>9. ASSUME NEW m \in 1 .. top + 1, NEW n \in 1 .. top + 1, m < n PROVE n2[m] < n2[n]
  <2>1. CASE n <= i
    <3>1. m \in 1 .. i /\ n \in 1 .. i /\ m \in 1 .. top /\ n \in 1 .. top
      BY <1>23, <1>9, <2>1
    <3> QED
      BY <1>22, <1>5, <1>9, <3>1
  <2>2. CASE n = i + 1
    <3>1. m \in 1 .. i /\ i \in 1 .. top /\ m \in 1 .. top /\ m <= i
      BY <1>23, <1>9, <2>2
    <3>2. nodes[m] <= nodes[i] /\ nodes[m] \in Int /\ nodes[i] \in Int
      BY <1>22, <3>1
    <3>3. lo[x] = nodes[i]
      BY <1>7, <3>1
    <3> QED
      BY <1>1, <1>5, <2>2, <3>1, <3>2, <3>3
  <2>3. CASE n > i + 1 /\ m <= i
    <3>1. m \in 1 .. i /\ n \in i + 2 .. top + 1 /\ n - 1 \in 1 .. top /\ m < n - 1
          /\ m \in 1 .. top
      BY <1>23, <1>9, <2>3
    <3> QED
      BY <1>22, <1>5, <3>1
  <2>4. CASE n > i + 1 /\ m = i + 1
    <3>1. n \in i + 2 .. top + 1 /\ n - 1 \in 1 .. top /\ i + 1 \in 1 .. top
          /\ i + 1 <= n - 1 /\ i # top
      BY <1>23, <1>9, <2>4
    <3>2. nodes[i + 1] <= nodes[n - 1] /\ nodes[i + 1] \in Int /\ nodes[n - 1] \in Int
      BY <1>22, <3>1
    <3>3. hi[x] = nodes[i + 1]
      BY <1>7, <3>1
    <3> QED
      BY <1>1, <1>5, <2>4, <3>1, <3>2, <3>3
  <2>5. CASE m > i + 1
    <3>1. /\ m \in i + 2 .. top + 1 /\ n \in i + 2 .. top + 1
          /\ m - 1 \in 1 .. top /\ n - 1 \in 1 .. top /\ m - 1 < n - 1
      BY <1>23, <1>9, <2>5
    <3> QED
      BY <1>22, <1>5, <3>1
  <2>6. m \in Int /\ n \in Int /\ i \in Int
    OBVIOUS
  <2> QED
    BY <1>9, <2>1, <2>2, <2>3, <2>4, <2>5, <2>6
<1>10. ASSUME NEW n \in 1 .. top + 1 PROVE ll[p] < n2[n] /\ n2[n] < uu[p]
  <2>1. CASE n <= i
    <3>1. n \in 1 .. i /\ n \in 1 .. top
      BY <1>23, <2>1
    <3> QED
      BY <1>22, <1>5, <1>8, <3>1
  <2>2. CASE n = i + 1
    <3>1. lo[p] <= lo[x] /\ hi[x] <= hi[p]
      <4>1. i # 0 => i \in 1 .. top
        BY <1>23
      <4>2. i # top => i + 1 \in 1 .. top
        BY <1>23
      <4> QED
        BY <1>7, <1>22, <4>1, <4>2
    <3> QED
      BY <1>1, <1>22, <1>5, <1>7, <1>8, <2>2, <3>1
  <2>3. CASE n > i + 1
    <3>1. n \in i + 2 .. top + 1 /\ n - 1 \in 1 .. top
      BY <1>23, <2>3
    <3> QED
      BY <1>22, <1>5, <1>8, <3>1
  <2> QED
    BY <2>1, <2>2, <2>3
<1>11. ASSUME NEW k \in 1 .. top + 2
       PROVE  /\ <<tag, c2[k]>> \in NN
              /\ hh[<<tag, c2[k]>>] + 1 = hh[p]
              /\ ll[<<tag, c2[k]>>] = IF k = 1 THEN ll[p] ELSE n2[k - 1]
              /\ uu[<<tag, c2[k]>>] = IF k = top + 2 THEN uu[p] ELSE n2[k]
  <2>1. CASE k <= i
    <3>1. /\ k \in 1 .. i /\ k \in 1 .. top + 1 /\ k \in 1 .. i + 1
          /\ k # i + 1 /\ k # top + 1 /\ k # top + 2
          /\ k # 1 => k - 1 \in 1 .. i
      BY <1>23, <2>1
    <3>2. <<tag, c2[k]>> = Kid(block, k)
      BY <1>3, <1>6, <3>1
    <3>3. /\ hh[Kid(block, k)] = h[Kid(block, k)] /\ ll[Kid(block, k)] = lo[Kid(block, k)]
          /\ uu[Kid(block, k)] = hi[Kid(block, k)]
      BY <1>1, <1>3, <3>1
    <3>4. Kid(block, k) \in NN /\ hh[Kid(block, k)] + 1 = hh[p]
      BY <1>1, <1>3, <1>8, <3>1, <3>3
    <3>5. ll[Kid(block, k)] = IF k = 1 THEN ll[p] ELSE n2[k - 1]
      BY <1>3, <1>5, <1>8, <3>1, <3>3
    <3>6. uu[Kid(block, k)] = IF k = top + 2 THEN uu[p] ELSE n2[k]
      BY <1>3, <1>5, <1>8, <3>1, <3>3
    <3> QED
      BY <3>2, <3>4, <3>5, <3>6
  <2>2. CASE k = i + 1
    <3>1. <<tag, c2[k]>> = x
      BY <1>3, <1>4, <1>6, <1>7, <2>2
    <3>2. k # top + 2 /\ k - 1 = i /\ (k = 1 <=> i = 0) /\ (i # 0 => i \in 1 .. i)
      BY <1>23, <2>2
    <3> QED
      BY <1>1, <1>5, <1>7, <1>8, <2>2, <3>1, <3>2
  <2>3. CASE k = i + 2
    <3>1. <<tag, c2[k]>> = y
      BY <1>6, <1>20, <2>3
    <3>2. k # 1 /\ k - 1 = i + 1 /\ (k = top + 2 <=> i = top)
          /\ (i # top => k \in i + 2 .. top + 1)
      BY <1>23, <2>3
    <3> QED
      BY <1>1, <1>5, <1>7, <1>8, <2>3, <3>1, <3>2
  <2>4. CASE k > i + 2
    <3>1. /\ k \in i + 3 .. top + 2 /\ k - 1 \in 1 .. top + 1
          /\ k - 1 # i + 1 /\ k # 1 /\ k - 1 # 1 /\ (k = top + 2 <=> k - 1 = top + 1)
          /\ (k # top + 2 => k \in i + 2 .. top + 1)
          /\ k - 1 \in i + 2 .. top + 1
      BY <1>23, <2>4
    <3>2. <<tag, c2[k]>> = Kid(block, k - 1)
      BY <1>3, <1>6, <3>1
    <3>3. /\ hh[Kid(block, k - 1)] = h[Kid(block, k - 1)]
          /\ ll[Kid(block, k - 1)] = lo[Kid(block, k - 1)]
          /\ uu[Kid(block, k - 1)] = hi[Kid(block, k - 1)]
      BY <1>1, <1>3, <3>1
    <3>4. Kid(block, k - 1) \in NN /\ hh[Kid(block, k - 1)] + 1 = hh[p]
      BY <1>1, <1>3, <1>8, <3>1, <3>3
    <3>5. ll[Kid(block, k - 1)] = IF k = 1 THEN ll[p] ELSE n2[k - 1]
      BY <1>3, <1>5, <1>8, <3>1, <3>3
    <3>6. uu[Kid(block, k - 1)] = IF k = top + 2 THEN uu[p] ELSE n2[k]
      BY <1>3, <1>5, <1>8, <3>1, <3>3
    <3> QED
      BY <3>2, <3>4, <3>5, <3>6
  <2>5. k \in Int /\ i \in Int
    OBVIOUS
  <2> QED
    BY <2>1, <2>2, <2>3, <2>4, <2>5
<1>12. Len(c2) = Len(n2) + 1 /\ Len(n2) = top + 1
  BY <1>23, <1>5, <1>6
<1>13. IsBlock([nodes |-> n2, children |-> c2, tag |-> tag], NN, hh, ll, uu, p)
  <2>1. /\ n2 \in Seq(Int) /\ c2 \in Seq(Nat) /\ tag \in {"leafs", "block"}
        /\ Len(n2) = top + 1 /\ Len(c2) = top + 2 /\ Len(c2) = Len(n2) + 1
    BY <1>21, <1>5, <1>6, <1>12
  <2>2. \A m, n \in 1 .. Len(n2) : m < n => n2[m] < n2[n]
    BY <1>9, <2>1
  <2>3. \A n \in 1 .. Len(n2) : ll[p] < n2[n] /\ n2[n] < uu[p]
    BY <1>10, <2>1
  <2>4. \A k \in 1 .. Len(c2) :
          /\ <<tag, c2[k]>> \in NN
          /\ hh[<<tag, c2[k]>>] + 1 = hh[p]
          /\ ll[<<tag, c2[k]>>] = IF k = 1 THEN ll[p] ELSE n2[k - 1]
          /\ uu[<<tag, c2[k]>>] = IF k = Len(n2) + 1 THEN uu[p] ELSE n2[k]
    <3>1. top + 2 = Len(n2) + 1
      BY <2>1
    <3> QED
      BY <1>11, <2>1, <3>1
  <2> QED
    BY <2>1, <2>2, <2>3, <2>4, IsBlockFrom
<1> QED
  BY <1>2, <1>13, <1>20

\* What SplitHalves needs of the split block.
LEMMA SplitKids ==
  ASSUME NEW N, NEW h, NEW lo, NEW hi, Ordered(N, h, lo, hi),
         NEW x, NEW y, NEW s, NEW NN, NEW hh, NEW ll, NEW uu,
         IsSplit(N, h, lo, hi, x, y, s, NN, hh, ll, uu),
         NEW block, IsBlock(block, N, h, lo, hi, x),
         NEW k \in 1 .. Len(block.nodes) + 1
  PROVE  /\ <<block.tag, block.children[k]>> \in NN
         /\ hh[<<block.tag, block.children[k]>>] + 1 = hh[x]
         /\ hh[<<block.tag, block.children[k]>>] + 1 = hh[y]
         /\ ll[<<block.tag, block.children[k]>>] = IF k = 1 THEN lo[x] ELSE block.nodes[k - 1]
         /\ uu[<<block.tag, block.children[k]>>] =
              IF k = Len(block.nodes) + 1 THEN hi[x] ELSE block.nodes[k]
<1> DEFINE c == Kid(block, k)
<1>1. /\ x \in N /\ y \notin N /\ NN = N \cup {y}
      /\ \A z \in N : hh[z] = h[z] /\ ll[z] = lo[z]
      /\ \A z \in N \ {x} : uu[z] = hi[z]
      /\ hh[y] = h[x]
  BY DEF IsSplit
<1>2. k \in 1 .. Len(block.children)
  BY <1>1, BlockFacts
<1>3. /\ c \in N /\ h[c] \in Nat /\ h[c] + 1 = h[x]
      /\ lo[c] = IF k = 1 THEN lo[x] ELSE block.nodes[k - 1]
      /\ hi[c] = IF k = Len(block.nodes) + 1 THEN hi[x] ELSE block.nodes[k]
  BY <1>1, <1>2, KidFacts
<1>4. c = <<block.tag, block.children[k]>>
  BY DEF Kid
<1> HIDE DEF c
<1>5. c # x
  BY <1>3
<1> QED
  BY <1>1, <1>3, <1>4, <1>5

\* A block split at a separator leaves two blocks, the separator between their ranges.
LEMMA SplitHalves ==
  ASSUME NEW N, NEW h, NEW lo, NEW hi, Ordered(N, h, lo, hi),
         NEW x, NEW y, NEW s, NEW NN, NEW hh, NEW ll, NEW uu,
         IsSplit(N, h, lo, hi, x, y, s, NN, hh, ll, uu),
         NEW block, IsBlock(block, N, h, lo, hi, x),
         NEW j \in 1 .. Len(block.nodes), s = block.nodes[j]
  PROVE  /\ IsBlock([nodes |-> SubSeq(block.nodes, 1, j - 1),
                     children |-> SubSeq(block.children, 1, j), tag |-> block.tag],
                    NN, hh, ll, uu, x)
         /\ IsBlock([nodes |-> SubSeq(block.nodes, j + 1, Len(block.nodes)),
                     children |-> SubSeq(block.children, j + 1, Len(block.nodes) + 1),
                     tag |-> block.tag],
                    NN, hh, ll, uu, y)
<1>1. /\ x \in N /\ y \notin N /\ NN = N \cup {y} /\ s \in Int /\ lo[x] < s /\ s < hi[x]
      /\ hh[x] = h[x] /\ ll[x] = lo[x] /\ uu[x] = s
      /\ hh[y] = h[x] /\ ll[y] = s /\ uu[y] = hi[x]
  BY DEF IsSplit
<1>2. PICK nodes, children, tag, top :
        /\ nodes = block.nodes /\ children = block.children /\ tag = block.tag
        /\ top = Len(nodes)
  OBVIOUS
<1>3. /\ nodes \in Seq(Int) /\ children \in Seq(Nat) /\ tag \in {"leafs", "block"}
      /\ Len(nodes) = top /\ Len(children) = top + 1
  BY <1>1, <1>2, BlockFacts
<1>4. /\ \A n \in 1 .. top : nodes[n] \in Int /\ lo[x] < nodes[n] /\ nodes[n] < hi[x]
      /\ \A m, n \in 1 .. top : m < n => nodes[m] < nodes[n]
      /\ lo[x] \in Int /\ hi[x] \in Int
  BY <1>1, <1>2, BlockFacts
<1>5. top \in Nat /\ j \in 1 .. top /\ s = nodes[j] /\ j \in Nat /\ 1 <= j /\ j <= top
      /\ j - 1 \in Nat /\ j + 1 \in Nat
  BY <1>1, <1>2, BlockFacts
<1>6. ASSUME NEW k \in 1 .. top + 1
      PROVE  /\ <<tag, children[k]>> \in NN
             /\ hh[<<tag, children[k]>>] + 1 = hh[x] /\ hh[<<tag, children[k]>>] + 1 = hh[y]
             /\ ll[<<tag, children[k]>>] = IF k = 1 THEN lo[x] ELSE nodes[k - 1]
             /\ uu[<<tag, children[k]>>] = IF k = top + 1 THEN hi[x] ELSE nodes[k]
  BY <1>2, SplitKids
<1>7. IsBlock([nodes |-> SubSeq(nodes, 1, j - 1), children |-> SubSeq(children, 1, j), tag |-> tag],
              NN, hh, ll, uu, x)
  <2>1. PICK n2, c2 : n2 = SubSeq(nodes, 1, j - 1) /\ c2 = SubSeq(children, 1, j)
    OBVIOUS
  <2>2. n2 \in Seq(Int) /\ Len(n2) = j - 1 /\ \A n \in 1 .. j - 1 : n2[n] = nodes[n]
    <3>1. PICK T : T = Int
      OBVIOUS
    <3>2. /\ nodes \in Seq(T) /\ 1 \in Nat /\ j - 1 \in Nat /\ 1 <= 1 /\ 1 <= (j - 1) + 1
          /\ j - 1 <= Len(nodes)
      BY <1>3, <1>5, <3>1
    <3>3. /\ SubSeq(nodes, 1, j - 1) \in Seq(T)
          /\ Len(SubSeq(nodes, 1, j - 1)) = (j - 1) - 1 + 1
          /\ \A n \in 1 .. (j - 1) - 1 + 1 : SubSeq(nodes, 1, j - 1)[n] = nodes[1 + n - 1]
      BY ONLY <3>2, PartIs
    <3>4. (j - 1) - 1 + 1 = j - 1 /\ \A n \in 1 .. j - 1 : 1 + n - 1 = n
      BY <1>5
    <3> QED
      BY <2>1, <3>1, <3>3, <3>4
  <2>3. c2 \in Seq(Nat) /\ Len(c2) = j /\ \A n \in 1 .. j : c2[n] = children[n]
    <3>1. PICK T : T = Nat
      OBVIOUS
    <3>2. /\ children \in Seq(T) /\ 1 \in Nat /\ j \in Nat /\ 1 <= 1 /\ 1 <= j + 1
          /\ j <= Len(children)
      BY <1>3, <1>5, <3>1
    <3>3. /\ SubSeq(children, 1, j) \in Seq(T)
          /\ Len(SubSeq(children, 1, j)) = j - 1 + 1
          /\ \A n \in 1 .. j - 1 + 1 : SubSeq(children, 1, j)[n] = children[1 + n - 1]
      BY ONLY <3>2, PartIs
    <3>4. j - 1 + 1 = j /\ \A n \in 1 .. j : 1 + n - 1 = n
      BY <1>5
    <3> QED
      BY <2>1, <3>1, <3>3, <3>4
  <2>4. \A m, n \in 1 .. Len(n2) : m < n => n2[m] < n2[n]
    <3>1. \A n \in 1 .. Len(n2) : n \in 1 .. top /\ n2[n] = nodes[n]
      BY <1>5, <2>2
    <3> QED
      BY <1>4, <3>1
  <2>5. \A n \in 1 .. Len(n2) : ll[x] < n2[n] /\ n2[n] < uu[x]
    <3>1. \A n \in 1 .. Len(n2) : n \in 1 .. top /\ n < j /\ n2[n] = nodes[n]
      BY <1>5, <2>2
    <3> QED
      BY <1>1, <1>4, <1>5, <3>1
  <2>6. ASSUME NEW k \in 1 .. Len(c2)
        PROVE  /\ <<tag, c2[k]>> \in NN
               /\ hh[<<tag, c2[k]>>] + 1 = hh[x]
               /\ ll[<<tag, c2[k]>>] = IF k = 1 THEN ll[x] ELSE n2[k - 1]
               /\ uu[<<tag, c2[k]>>] = IF k = Len(n2) + 1 THEN uu[x] ELSE n2[k]
    <3>1. /\ k \in 1 .. top + 1 /\ k \in 1 .. j /\ k # top + 1
          /\ k # 1 => k - 1 \in 1 .. j - 1
          /\ k = Len(n2) + 1 <=> k = j
          /\ k # j => k \in 1 .. j - 1
      BY <1>5, <2>2, <2>3
    <3>2. c2[k] = children[k]
      BY <2>3, <3>1
    <3>3. ll[<<tag, c2[k]>>] = IF k = 1 THEN ll[x] ELSE n2[k - 1]
      BY <1>1, <1>6, <2>2, <3>1, <3>2
    <3>4. uu[<<tag, c2[k]>>] = IF k = Len(n2) + 1 THEN uu[x] ELSE n2[k]
      BY <1>1, <1>5, <1>6, <2>2, <3>1, <3>2
    <3> QED
      BY <1>6, <3>1, <3>2, <3>3, <3>4
  <2>7. Len(c2) = Len(n2) + 1
    BY <1>5, <2>2, <2>3
  <2>8. IsBlock([nodes |-> n2, children |-> c2, tag |-> tag], NN, hh, ll, uu, x)
    BY <1>3, <2>2, <2>3, <2>4, <2>5, <2>6, <2>7, IsBlockFrom
  <2> QED
    BY <2>1, <2>8
<1>8. IsBlock([nodes |-> SubSeq(nodes, j + 1, top), children |-> SubSeq(children, j + 1, top + 1),
               tag |-> tag], NN, hh, ll, uu, y)
  <2>1. PICK n2, c2 : n2 = SubSeq(nodes, j + 1, top) /\ c2 = SubSeq(children, j + 1, top + 1)
    OBVIOUS
  <2>2. n2 \in Seq(Int) /\ Len(n2) = top - j /\ \A n \in 1 .. top - j : n2[n] = nodes[j + n]
    <3>1. PICK T : T = Int
      OBVIOUS
    <3>2. /\ nodes \in Seq(T) /\ j + 1 \in Nat /\ top \in Nat /\ 1 <= j + 1 /\ j + 1 <= top + 1
          /\ top <= Len(nodes)
      BY <1>3, <1>5, <3>1
    <3>3. /\ SubSeq(nodes, j + 1, top) \in Seq(T)
          /\ Len(SubSeq(nodes, j + 1, top)) = top - (j + 1) + 1
          /\ \A n \in 1 .. top - (j + 1) + 1 : SubSeq(nodes, j + 1, top)[n] = nodes[(j + 1) + n - 1]
      BY ONLY <3>2, PartIs
    <3>4. top - (j + 1) + 1 = top - j /\ \A n \in 1 .. top - j : (j + 1) + n - 1 = j + n
      BY <1>5
    <3> QED
      BY <2>1, <3>1, <3>3, <3>4
  <2>3. c2 \in Seq(Nat) /\ Len(c2) = top - j + 1 /\ \A n \in 1 .. top - j + 1 : c2[n] = children[j + n]
    <3>1. PICK T : T = Nat
      OBVIOUS
    <3>2. /\ children \in Seq(T) /\ j + 1 \in Nat /\ top + 1 \in Nat /\ 1 <= j + 1
          /\ j + 1 <= (top + 1) + 1 /\ top + 1 <= Len(children)
      BY <1>3, <1>5, <3>1
    <3>3. /\ SubSeq(children, j + 1, top + 1) \in Seq(T)
          /\ Len(SubSeq(children, j + 1, top + 1)) = (top + 1) - (j + 1) + 1
          /\ \A n \in 1 .. (top + 1) - (j + 1) + 1 :
               SubSeq(children, j + 1, top + 1)[n] = children[(j + 1) + n - 1]
      BY ONLY <3>2, PartIs
    <3>4. (top + 1) - (j + 1) + 1 = top - j + 1 /\ \A n \in 1 .. top - j + 1 : (j + 1) + n - 1 = j + n
      BY <1>5
    <3> QED
      BY <2>1, <3>1, <3>3, <3>4
  <2>4. \A m, n \in 1 .. Len(n2) : m < n => n2[m] < n2[n]
    <3>1. \A n \in 1 .. Len(n2) : j + n \in 1 .. top /\ n2[n] = nodes[j + n]
      BY <1>5, <2>2
    <3>2. \A m, n \in 1 .. Len(n2) : m < n => j + m < j + n
      BY <1>5
    <3> QED
      BY <1>4, <3>1, <3>2
  <2>5. \A n \in 1 .. Len(n2) : ll[y] < n2[n] /\ n2[n] < uu[y]
    <3>1. \A n \in 1 .. Len(n2) : j + n \in 1 .. top /\ j < j + n /\ n2[n] = nodes[j + n]
      BY <1>5, <2>2
    <3> QED
      BY <1>1, <1>4, <1>5, <3>1
  <2>6. ASSUME NEW k \in 1 .. Len(c2)
        PROVE  /\ <<tag, c2[k]>> \in NN
               /\ hh[<<tag, c2[k]>>] + 1 = hh[y]
               /\ ll[<<tag, c2[k]>>] = IF k = 1 THEN ll[y] ELSE n2[k - 1]
               /\ uu[<<tag, c2[k]>>] = IF k = Len(n2) + 1 THEN uu[y] ELSE n2[k]
    <3>1. /\ j + k \in 1 .. top + 1 /\ k \in 1 .. top - j + 1 /\ j + k # 1
          /\ k = 1 => (j + k) - 1 = j
          /\ k # 1 => k - 1 \in 1 .. top - j /\ j + (k - 1) = (j + k) - 1
          /\ k = top - j + 1 <=> j + k = top + 1
          /\ j + k # top + 1 => k \in 1 .. top - j
      <4>1. k \in 1 .. top - j + 1 /\ j \in 1 .. top /\ top \in Nat
        BY <1>5, <2>3
      <4> QED
        BY <4>1
    <3>2. c2[k] = children[j + k]
      BY <2>3, <3>1
    <3>3. ll[<<tag, c2[k]>>] = IF k = 1 THEN ll[y] ELSE n2[k - 1]
      <4>1. ll[<<tag, children[j + k]>>] = nodes[(j + k) - 1]
        BY <1>6, <3>1
      <4>2. CASE k = 1
        BY <1>1, <1>5, <3>1, <3>2, <4>1, <4>2
      <4>3. CASE k # 1
        <5>1. n2[k - 1] = nodes[j + (k - 1)]
          BY <2>2, <3>1, <4>3
        <5> QED
          BY <3>1, <3>2, <4>1, <4>3, <5>1
      <4> QED
        BY <4>2, <4>3
    <3>4. uu[<<tag, c2[k]>>] = IF k = Len(n2) + 1 THEN uu[y] ELSE n2[k]
      <4>1. Len(n2) + 1 = top - j + 1
        BY <2>2
      <4>2. uu[<<tag, children[j + k]>>] = IF j + k = top + 1 THEN hi[x] ELSE nodes[j + k]
        BY <1>6, <3>1
      <4>3. j + k # top + 1 => n2[k] = nodes[j + k]
        BY <2>2, <3>1
      <4> QED
        BY <1>1, <3>1, <3>2, <4>1, <4>2, <4>3
    <3> QED
      BY <1>6, <3>1, <3>2, <3>3, <3>4
  <2>7. Len(c2) = Len(n2) + 1
    BY <1>5, <2>2, <2>3
  <2>8. IsBlock([nodes |-> n2, children |-> c2, tag |-> tag], NN, hh, ll, uu, y)
    BY <1>3, <2>2, <2>3, <2>4, <2>5, <2>6, <2>7, IsBlockFrom
  <2> QED
    BY <2>1, <2>8
<1> QED
  BY <1>2, <1>7, <1>8

Leaves == [buffer : Seq(Entries), next : Nat]
KeySet(buffer) == {buffer[n].key : n \in 1 .. Len(buffer)}

\* A leaf has keys of its range, in order, and knows the leaf whose range comes next.
IsLeaf(leaf, N, h, lo, hi, x) ==
  /\ leaf \in Leaves
  /\ h[x] = 0
  /\ Ascending(KeysOf(leaf.buffer))
  /\ \A n \in 1 .. Len(leaf.buffer) :
       lo[x] <= leaf.buffer[n].key /\ leaf.buffer[n].key < hi[x]
  /\ IF hi[x] = Beyond THEN leaf.next = 0
     ELSE Lf(leaf.next) \in N /\ lo[Lf(leaf.next)] = hi[x]

LEMMA EntryFacts ==
  /\ \A key \in Int : EntryOf(key) \in Entries /\ EntryOf(key).key = key
                      /\ EntryOf(key).value = ValueOf(key)
  /\ \A e \in Entries : e.key \in Int /\ e = EntryOf(e.key)
<1>1. \A key \in Int : EntryOf(key) \in Entries /\ EntryOf(key).key = key
                      /\ EntryOf(key).value = ValueOf(key)
  BY DEF Entries, EntryOf
<1>2. ASSUME NEW e \in Entries PROVE e.key \in Int /\ e = EntryOf(e.key)
  <2>1. PICK key \in Int : e = EntryOf(key)
    BY DEF Entries
  <2> QED
    BY <1>1, <2>1
<1> QED
  BY <1>1, <1>2

LEMMA KeysOfIs ==
  ASSUME NEW buffer \in Seq(Entries)
  PROVE  /\ KeysOf(buffer) \in Seq(Int) /\ Len(KeysOf(buffer)) = Len(buffer)
         /\ Len(buffer) \in Nat /\ DOMAIN buffer = 1 .. Len(buffer)
         /\ DOMAIN KeysOf(buffer) = 1 .. Len(buffer)
         /\ \A n \in 1 .. Len(buffer) :
              /\ buffer[n] \in Entries /\ buffer[n].key \in Int
              /\ KeysOf(buffer)[n] = buffer[n].key
<1>1. /\ Len(buffer) \in Nat /\ DOMAIN buffer = 1 .. Len(buffer)
      /\ \A n \in 1 .. Len(buffer) : buffer[n] \in Entries
  BY SequenceFacts
<1>2. \A n \in 1 .. Len(buffer) : buffer[n].key \in Int
  BY <1>1, EntryFacts
<1>3. KeysOf(buffer) = [n \in 1 .. Len(buffer) |-> buffer[n].key]
  BY <1>1 DEF KeysOf
<1>4. PICK top : top = Len(buffer)
  OBVIOUS
<1>5. KeysOf(buffer) \in [1 .. top -> Int] /\ top \in Nat
  BY <1>1, <1>2, <1>3, <1>4
<1>6. KeysOf(buffer) \in Seq(Int) /\ Len(KeysOf(buffer)) = top
  BY <1>5
<1> QED
  BY <1>1, <1>2, <1>3, <1>4, <1>6

LEMMA LeafFacts ==
  ASSUME NEW N, NEW h, NEW lo, NEW hi, Ordered(N, h, lo, hi),
         NEW leaf, NEW x \in N, IsLeaf(leaf, N, h, lo, hi, x)
  PROVE  /\ leaf = [buffer |-> leaf.buffer, next |-> leaf.next]
         /\ leaf.buffer \in Seq(Entries) /\ leaf.next \in Nat
         /\ Len(leaf.buffer) \in Nat /\ DOMAIN leaf.buffer = 1 .. Len(leaf.buffer)
         /\ \A n \in 1 .. Len(leaf.buffer) :
              /\ leaf.buffer[n] \in Entries /\ leaf.buffer[n].key \in Int
              /\ lo[x] <= leaf.buffer[n].key /\ leaf.buffer[n].key < hi[x]
         /\ \A m, n \in 1 .. Len(leaf.buffer) : m < n => leaf.buffer[m].key < leaf.buffer[n].key
         /\ h[x] = 0 /\ lo[x] \in Int /\ hi[x] \in Int /\ lo[x] < hi[x]
<1>1. leaf = [buffer |-> leaf.buffer, next |-> leaf.next]
      /\ leaf.buffer \in Seq(Entries) /\ leaf.next \in Nat
  BY DEF IsLeaf, Leaves
<1>2. /\ KeysOf(leaf.buffer) \in Seq(Int)
      /\ Len(leaf.buffer) \in Nat /\ DOMAIN leaf.buffer = 1 .. Len(leaf.buffer)
      /\ DOMAIN KeysOf(leaf.buffer) = 1 .. Len(leaf.buffer)
      /\ \A n \in 1 .. Len(leaf.buffer) :
           /\ leaf.buffer[n] \in Entries /\ leaf.buffer[n].key \in Int
           /\ KeysOf(leaf.buffer)[n] = leaf.buffer[n].key
  BY <1>1, KeysOfIs
<1>3. \A m, n \in 1 .. Len(leaf.buffer) : m < n => KeysOf(leaf.buffer)[m] < KeysOf(leaf.buffer)[n]
  BY <1>2 DEF IsLeaf, Ascending
<1>4. \A m, n \in 1 .. Len(leaf.buffer) : m < n => leaf.buffer[m].key < leaf.buffer[n].key
  BY <1>2, <1>3
<1>5. \A n \in 1 .. Len(leaf.buffer) :
        lo[x] <= leaf.buffer[n].key /\ leaf.buffer[n].key < hi[x]
  BY DEF IsLeaf
<1>6. h[x] = 0 /\ lo[x] \in Int /\ hi[x] \in Int /\ lo[x] < hi[x]
  BY DEF Ordered, IsLeaf
<1> QED
  BY <1>1, <1>2, <1>4, <1>5, <1>6

LEMMA IsLeafFrom ==
  ASSUME NEW N, NEW h, NEW lo, NEW hi, NEW x, NEW buffer \in Seq(Entries), NEW next \in Nat,
         h[x] = 0,
         \A m, n \in 1 .. Len(buffer) : m < n => buffer[m].key < buffer[n].key,
         \A n \in 1 .. Len(buffer) : lo[x] <= buffer[n].key /\ buffer[n].key < hi[x],
         IF hi[x] = Beyond THEN next = 0 ELSE Lf(next) \in N /\ lo[Lf(next)] = hi[x]
  PROVE  IsLeaf([buffer |-> buffer, next |-> next], N, h, lo, hi, x)
<1> DEFINE leaf == [buffer |-> buffer, next |-> next]
<1>1. leaf \in Leaves /\ leaf.buffer = buffer /\ leaf.next = next
  BY DEF Leaves
<1>2. DOMAIN KeysOf(buffer) = 1 .. Len(buffer)
      /\ \A n \in 1 .. Len(buffer) : KeysOf(buffer)[n] = buffer[n].key
  BY KeysOfIs
<1>3. Ascending(KeysOf(buffer))
  BY <1>2 DEF Ascending
<1> HIDE DEF leaf
<1>4. IsLeaf(leaf, N, h, lo, hi, x)
  BY <1>1, <1>3 DEF IsLeaf
<1> QED
  BY <1>4 DEF leaf

\* A leaf that is not the split node is as it was.
LEMMA LeafElsewhere ==
  ASSUME NEW N, NEW h, NEW lo, NEW hi, Ordered(N, h, lo, hi),
         NEW x, NEW y, NEW s, NEW NN, NEW hh, NEW ll, NEW uu,
         IsSplit(N, h, lo, hi, x, y, s, NN, hh, ll, uu),
         NEW leaf, NEW p \in N, IsLeaf(leaf, N, h, lo, hi, p), p # x
  PROVE  IsLeaf(leaf, NN, hh, ll, uu, p)
<1>1. /\ x \in N /\ y \notin N /\ NN = N \cup {y}
      /\ \A z \in N : hh[z] = h[z] /\ ll[z] = lo[z]
      /\ \A z \in N \ {x} : uu[z] = hi[z]
  BY DEF IsSplit
<1>2. hh[p] = h[p] /\ ll[p] = lo[p] /\ uu[p] = hi[p]
  BY <1>1
<1>3. /\ leaf \in Leaves
      /\ h[p] = 0
      /\ Ascending(KeysOf(leaf.buffer))
      /\ \A n \in 1 .. Len(leaf.buffer) :
           lo[p] <= leaf.buffer[n].key /\ leaf.buffer[n].key < hi[p]
      /\ IF hi[p] = Beyond THEN leaf.next = 0
         ELSE Lf(leaf.next) \in N /\ lo[Lf(leaf.next)] = hi[p]
  BY DEF IsLeaf
<1>4. IF uu[p] = Beyond THEN leaf.next = 0
      ELSE Lf(leaf.next) \in NN /\ ll[Lf(leaf.next)] = uu[p]
  BY <1>1, <1>2, <1>3
<1> QED
  BY <1>2, <1>3, <1>4 DEF IsLeaf

\* insert_leafs keeps a leaf's entries in order.
LEMMA LeafPut ==
  ASSUME NEW N, NEW h, NEW lo, NEW hi, Ordered(N, h, lo, hi),
         NEW x \in N, NEW leaf, IsLeaf(leaf, N, h, lo, hi, x),
         NEW key \in Int, lo[x] <= key, key < hi[x],
         NEW i, i = Passed(KeysOf(leaf.buffer), key),
         \A n \in 1 .. i : leaf.buffer[n].key # key,
         NEW b2, b2 = InsertAt(leaf.buffer, i + 1, EntryOf(key))
  PROVE  /\ IsLeaf([buffer |-> b2, next |-> leaf.next], N, h, lo, hi, x)
         /\ b2 \in Seq(Entries) /\ Len(b2) = Len(leaf.buffer) + 1
         /\ KeySet(b2) = KeySet(leaf.buffer) \cup {key} /\ key \notin KeySet(leaf.buffer)
<1>1. PICK buffer, next, top : buffer = leaf.buffer /\ next = leaf.next /\ top = Len(buffer)
  OBVIOUS
<1>2. /\ buffer \in Seq(Entries) /\ next \in Nat
      /\ Len(buffer) = top /\ top \in Nat
      /\ \A n \in 1 .. top :
           /\ buffer[n] \in Entries /\ buffer[n].key \in Int
           /\ lo[x] <= buffer[n].key /\ buffer[n].key < hi[x]
      /\ \A m, n \in 1 .. top : m < n => buffer[m].key < buffer[n].key
      /\ h[x] = 0 /\ lo[x] \in Int /\ hi[x] \in Int
  BY <1>1, LeafFacts
<1>3. /\ KeysOf(buffer) \in Seq(Int) /\ Len(KeysOf(buffer)) = top
      /\ \A n \in 1 .. top : KeysOf(buffer)[n] = buffer[n].key
      /\ Ascending(KeysOf(buffer))
  BY <1>1, <1>2, KeysOfIs DEF IsLeaf
<1>4. /\ i \in 0 .. top
      /\ \A n \in 1 .. i : buffer[n].key <= key
      /\ \A n \in i + 1 .. top : key < buffer[n].key
  <2>1. /\ i \in 0 .. Len(KeysOf(buffer))
        /\ \A n \in 1 .. i : KeysOf(buffer)[n] <= key
        /\ \A n \in i + 1 .. Len(KeysOf(buffer)) : key < KeysOf(buffer)[n]
    BY <1>1, <1>3, PassedIs
  <2>2. i \in 0 .. top
    BY <1>3, <2>1
  <2>3. \A n \in 1 .. i : n \in 1 .. top
    BY <1>2, <2>2
  <2>4. \A n \in i + 1 .. top : n \in 1 .. top
    BY <1>2, <2>2
  <2> QED
    BY <1>3, <2>1, <2>2, <2>3, <2>4
<1>5. /\ b2 \in Seq(Entries) /\ Len(b2) = top + 1
      /\ \A n \in 1 .. i : b2[n] = buffer[n]
      /\ b2[i + 1] = EntryOf(key)
      /\ \A n \in i + 2 .. top + 1 : b2[n] = buffer[n - 1]
  <2>1. PICK a, e : a = i + 1 /\ e = EntryOf(key)
    OBVIOUS
  <2>2. a \in 1 .. Len(buffer) + 1 /\ e \in Entries /\ buffer \in Seq(Entries)
    BY <1>2, <1>4, <2>1, EntryFacts
  <2>3. /\ InsertAt(buffer, a, e) \in Seq(Entries)
        /\ Len(InsertAt(buffer, a, e)) = Len(buffer) + 1
        /\ \A n \in 1 .. a - 1 : InsertAt(buffer, a, e)[n] = buffer[n]
        /\ InsertAt(buffer, a, e)[a] = e
        /\ \A n \in a + 1 .. Len(buffer) + 1 : InsertAt(buffer, a, e)[n] = buffer[n - 1]
    BY ONLY <2>2, InsertAtIs
  <2>4. a - 1 = i /\ a + 1 = i + 2
    BY <1>4, <2>1
  <2>5. b2 = InsertAt(buffer, a, e)
    BY <1>1, <2>1
  <2> QED
    BY <1>2, <2>1, <2>3, <2>4, <2>5
<1>6. EntryOf(key).key = key
  BY EntryFacts
<1>7. \A n \in 1 .. i : buffer[n].key < key
  <2>1. ASSUME NEW n \in 1 .. i PROVE buffer[n].key < key
    <3>1. n \in 1 .. top
      BY <1>2, <1>4
    <3>2. buffer[n].key \in Int /\ buffer[n].key <= key /\ buffer[n].key # key
      BY <1>1, <1>2, <1>4, <3>1
    <3> QED
      BY <3>2
  <2> QED
    BY <2>1
<1>8. ASSUME NEW m \in 1 .. top + 1, NEW n \in 1 .. top + 1, m < n PROVE b2[m].key < b2[n].key
  <2>1. CASE n <= i
    <3>1. m \in 1 .. i /\ n \in 1 .. i /\ m \in 1 .. top /\ n \in 1 .. top
      BY <1>2, <1>4, <1>8, <2>1
    <3> QED
      BY <1>2, <1>5, <1>8, <3>1
  <2>2. CASE n = i + 1
    <3>1. m \in 1 .. i
      BY <1>4, <1>8, <2>2
    <3> QED
      BY <1>5, <1>6, <1>7, <2>2, <3>1
  <2>3. CASE n > i + 1 /\ m <= i
    <3>1. m \in 1 .. i /\ n \in i + 2 .. top + 1 /\ n - 1 \in 1 .. top /\ m < n - 1 /\ m \in 1 .. top
      BY <1>2, <1>4, <1>8, <2>3
    <3> QED
      BY <1>2, <1>5, <3>1
  <2>4. CASE n > i + 1 /\ m = i + 1
    <3>1. n \in i + 2 .. top + 1 /\ n - 1 \in i + 1 .. top
      BY <1>2, <1>4, <1>8, <2>4
    <3> QED
      BY <1>4, <1>5, <1>6, <2>4, <3>1
  <2>5. CASE m > i + 1
    <3>1. /\ m \in i + 2 .. top + 1 /\ n \in i + 2 .. top + 1
          /\ m - 1 \in 1 .. top /\ n - 1 \in 1 .. top /\ m - 1 < n - 1
      BY <1>2, <1>4, <1>8, <2>5
    <3> QED
      BY <1>2, <1>5, <3>1
  <2>6. m \in Int /\ n \in Int /\ i \in Int
    BY <1>4
  <2> QED
    BY <1>8, <2>1, <2>2, <2>3, <2>4, <2>5, <2>6
<1>9. ASSUME NEW n \in 1 .. top + 1
      PROVE  /\ lo[x] <= b2[n].key /\ b2[n].key < hi[x]
             /\ b2[n].key \in KeySet(buffer) \cup {key}
  <2>1. CASE n <= i
    <3>1. n \in 1 .. i /\ n \in 1 .. top
      BY <1>2, <1>4, <2>1
    <3> QED
      BY <1>2, <1>5, <3>1 DEF KeySet
  <2>2. CASE n = i + 1
    BY <1>5, <1>6, <2>2
  <2>3. CASE n > i + 1
    <3>1. n \in i + 2 .. top + 1 /\ n - 1 \in 1 .. top
      BY <1>2, <1>4, <2>3
    <3> QED
      BY <1>2, <1>5, <3>1 DEF KeySet
  <2>6. n \in Int /\ i \in Int
    BY <1>4
  <2> QED
    BY <2>1, <2>2, <2>3, <2>6
<1>10. ASSUME NEW n \in 1 .. top PROVE buffer[n].key \in KeySet(b2) /\ buffer[n].key # key
  <2>1. CASE n <= i
    <3>1. n \in 1 .. i /\ n \in 1 .. top + 1
      BY <1>2, <1>4, <2>1
    <3>2. b2[n] = buffer[n] /\ buffer[n].key < key
      BY <1>5, <1>7, <3>1
    <3> QED
      BY <1>2, <1>5, <3>1, <3>2 DEF KeySet
  <2>2. CASE n > i
    <3>1. n + 1 \in i + 2 .. top + 1 /\ n + 1 \in 1 .. top + 1 /\ (n + 1) - 1 = n
          /\ n \in i + 1 .. top
      BY <1>2, <1>4, <2>2
    <3>2. b2[n + 1] = buffer[n] /\ key < buffer[n].key
      BY <1>4, <1>5, <3>1
    <3> QED
      BY <1>2, <1>5, <3>1, <3>2 DEF KeySet
  <2>6. n \in Int /\ i \in Int
    BY <1>4
  <2> QED
    BY <2>1, <2>2, <2>6
<1>11. KeySet(b2) = KeySet(buffer) \cup {key} /\ key \notin KeySet(buffer)
  <2>1. key \in KeySet(b2)
    <3>1. i + 1 \in 1 .. top + 1
      BY <1>2, <1>4
    <3> QED
      BY <1>5, <1>6, <3>1 DEF KeySet
  <2>2. \A k \in KeySet(b2) : k \in KeySet(buffer) \cup {key}
    BY <1>5, <1>9 DEF KeySet
  <2>3. \A k \in KeySet(buffer) : k \in KeySet(b2) /\ k # key
    BY <1>2, <1>10 DEF KeySet
  <2> QED
    BY <2>1, <2>2, <2>3
<1>12. IF hi[x] = Beyond THEN next = 0 ELSE Lf(next) \in N /\ lo[Lf(next)] = hi[x]
  BY <1>1 DEF IsLeaf
<1>13. IsLeaf([buffer |-> b2, next |-> next], N, h, lo, hi, x)
  <2>1. \A m, n \in 1 .. Len(b2) : m < n => b2[m].key < b2[n].key
    BY <1>5, <1>8
  <2>2. \A n \in 1 .. Len(b2) : lo[x] <= b2[n].key /\ b2[n].key < hi[x]
    BY <1>5, <1>9
  <2> QED
    BY <1>2, <1>5, <1>12, <2>1, <2>2, IsLeafFrom
<1> QED
  BY <1>1, <1>2, <1>5, <1>11, <1>13

\* A leaf is cut after its j-th entry, before key s.
IsCut(leaf, j, s, bl, br) ==
  /\ j \in 1 .. Len(leaf.buffer) - 1 /\ s = leaf.buffer[j + 1].key
  /\ bl = SubSeq(leaf.buffer, 1, j) /\ br = SubSeq(leaf.buffer, j + 1, Len(leaf.buffer))
AreHalves(leaf, j, s, bl, br) ==
  /\ bl \in Seq(Entries) /\ br \in Seq(Entries)
  /\ Len(bl) = j /\ Len(br) = Len(leaf.buffer) - j
  /\ br[1].key = s
  /\ KeySet(bl) \cup KeySet(br) = KeySet(leaf.buffer)
LeafWith(buffer, next) == [buffer |-> buffer, next |-> next]

\* A leaf split at an entry leaves two leaves, chained, that share its entries out.
LEMMA LeafHalves ==
  ASSUME NEW N, NEW h, NEW lo, NEW hi, Ordered(N, h, lo, hi),
         NEW x, NEW y, NEW s, NEW NN, NEW hh, NEW ll, NEW uu,
         IsSplit(N, h, lo, hi, x, y, s, NN, hh, ll, uu),
         NEW leaf, IsLeaf(leaf, N, h, lo, hi, x),
         NEW r \in Nat, y = Lf(r),
         NEW j, NEW bl, NEW br, IsCut(leaf, j, s, bl, br)
  PROVE  /\ IsLeaf(LeafWith(bl, r), NN, hh, ll, uu, x)
         /\ IsLeaf(LeafWith(br, leaf.next), NN, hh, ll, uu, y)
         /\ AreHalves(leaf, j, s, bl, br)
<1>1. /\ x \in N /\ y \notin N /\ NN = N \cup {y} /\ s \in Int /\ lo[x] < s /\ s < hi[x]
      /\ \A z \in N : hh[z] = h[z] /\ ll[z] = lo[z]
      /\ hh[x] = h[x] /\ ll[x] = lo[x] /\ uu[x] = s
      /\ hh[y] = h[x] /\ ll[y] = s /\ uu[y] = hi[x]
  BY DEF IsSplit
<1>0. /\ j \in 1 .. Len(leaf.buffer) - 1 /\ s = leaf.buffer[j + 1].key
      /\ bl = SubSeq(leaf.buffer, 1, j) /\ br = SubSeq(leaf.buffer, j + 1, Len(leaf.buffer))
  BY DEF IsCut
<1>2. PICK buffer, next, top : buffer = leaf.buffer /\ next = leaf.next /\ top = Len(buffer)
  OBVIOUS
<1>3. /\ buffer \in Seq(Entries) /\ next \in Nat
      /\ Len(buffer) = top /\ top \in Nat
      /\ \A n \in 1 .. top :
           /\ buffer[n] \in Entries /\ buffer[n].key \in Int
           /\ lo[x] <= buffer[n].key /\ buffer[n].key < hi[x]
      /\ \A m, n \in 1 .. top : m < n => buffer[m].key < buffer[n].key
      /\ h[x] = 0 /\ lo[x] \in Int /\ hi[x] \in Int
  BY <1>1, <1>2, LeafFacts
<1>4. /\ j \in Nat /\ 1 <= j /\ j + 1 <= top /\ top \in Nat /\ j \in 1 .. top
      /\ j + 1 \in 1 .. top /\ j + 1 \in Nat /\ s = buffer[j + 1].key
  BY <1>0, <1>2, <1>3
<1>5. bl \in Seq(Entries) /\ Len(bl) = j /\ \A n \in 1 .. j : bl[n] = buffer[n]
  <2>1. /\ 1 \in Nat /\ j \in Nat /\ 1 <= 1 /\ 1 <= j + 1 /\ j <= Len(buffer)
    BY <1>3, <1>4
  <2>2. /\ SubSeq(buffer, 1, j) \in Seq(Entries)
        /\ Len(SubSeq(buffer, 1, j)) = j - 1 + 1
        /\ \A n \in 1 .. j - 1 + 1 : SubSeq(buffer, 1, j)[n] = buffer[1 + n - 1]
    BY <1>3, <2>1, PartIs
  <2>3. j - 1 + 1 = j /\ \A n \in 1 .. j : 1 + n - 1 = n
    BY <1>4
  <2> QED
    BY <1>0, <1>2, <2>2, <2>3
<1>6. br \in Seq(Entries) /\ Len(br) = top - j /\ \A n \in 1 .. top - j : br[n] = buffer[j + n]
  <2>1. /\ j + 1 \in Nat /\ top \in Nat /\ 1 <= j + 1 /\ j + 1 <= top + 1 /\ top <= Len(buffer)
    BY <1>3, <1>4
  <2>2. /\ SubSeq(buffer, j + 1, top) \in Seq(Entries)
        /\ Len(SubSeq(buffer, j + 1, top)) = top - (j + 1) + 1
        /\ \A n \in 1 .. top - (j + 1) + 1 :
             SubSeq(buffer, j + 1, top)[n] = buffer[(j + 1) + n - 1]
    BY <1>3, <2>1, PartIs
  <2>3. top - (j + 1) + 1 = top - j /\ \A n \in 1 .. top - j : (j + 1) + n - 1 = j + n
    BY <1>4
  <2> QED
    BY <1>0, <1>2, <2>2, <2>3
<1>61. ASSUME NEW n \in 1 .. top - j
       PROVE  j + n \in 1 .. top /\ (j + 1 = j + n \/ j + 1 < j + n) /\ n \in Nat
  BY <1>4
<1>62. \A n \in 1 .. Len(br) : /\ j + n \in 1 .. top /\ (j + 1 = j + n \/ j + 1 < j + n)
                                /\ br[n] = buffer[j + n] /\ n \in Nat
  BY <1>6, <1>61
<1>7. IsLeaf([buffer |-> bl, next |-> r], NN, hh, ll, uu, x)
  <2>1. \A m, n \in 1 .. Len(bl) : m < n => bl[m].key < bl[n].key
    <3>1. \A n \in 1 .. Len(bl) : n \in 1 .. top /\ bl[n] = buffer[n]
      BY <1>4, <1>5
    <3> QED
      BY <1>3, <3>1
  <2>2. \A n \in 1 .. Len(bl) : ll[x] <= bl[n].key /\ bl[n].key < uu[x]
    <3>1. \A n \in 1 .. Len(bl) : n \in 1 .. top /\ n < j + 1 /\ bl[n] = buffer[n]
      BY <1>4, <1>5
    <3> QED
      BY <1>1, <1>3, <1>4, <3>1
  <2>3. uu[x] # Beyond
    <3>1. hi[x] <= Beyond /\ Beyond \in Int
      BY <1>1 DEF Ordered, Beyond
    <3> QED
      BY <1>1, <1>3, <3>1
  <2>4. IF uu[x] = Beyond THEN r = 0 ELSE Lf(r) \in NN /\ ll[Lf(r)] = uu[x]
    BY <1>1, <2>3
  <2>5. hh[x] = 0
    BY <1>1, <1>3
  <2> QED
    BY <1>5, <2>1, <2>2, <2>4, <2>5, IsLeafFrom
<1>8. IsLeaf([buffer |-> br, next |-> next], NN, hh, ll, uu, y)
  <2>1. \A m, n \in 1 .. Len(br) : m < n => br[m].key < br[n].key
    <3>1. ASSUME NEW m \in 1 .. Len(br), NEW n \in 1 .. Len(br), m < n
          PROVE  br[m].key < br[n].key
      <4>1. j + m < j + n
        BY <1>4, <1>62, <3>1
      <4>2. br[m] = buffer[j + m] /\ br[n] = buffer[j + n] /\ j + m \in 1 .. top /\ j + n \in 1 .. top
        BY <1>62
      <4> QED
        BY <1>3, <4>1, <4>2
    <3> QED
      BY <3>1
  <2>2. \A n \in 1 .. Len(br) : ll[y] <= br[n].key /\ br[n].key < uu[y]
    <3>1. ASSUME NEW n \in 1 .. Len(br) PROVE ll[y] <= br[n].key /\ br[n].key < uu[y]
      <4>1. /\ j + n \in 1 .. top /\ (j + 1 = j + n \/ j + 1 < j + n) /\ br[n] = buffer[j + n]
        BY <1>62
      <4>2. s <= buffer[j + n].key
        BY <1>1, <1>3, <1>4, <4>1
      <4> QED
        BY <1>1, <1>3, <4>1, <4>2
    <3> QED
      BY <3>1
  <2>3. IF hi[x] = Beyond THEN next = 0 ELSE Lf(next) \in N /\ lo[Lf(next)] = hi[x]
    BY <1>2 DEF IsLeaf
  <2>4. IF uu[y] = Beyond THEN next = 0 ELSE Lf(next) \in NN /\ ll[Lf(next)] = uu[y]
    BY <1>1, <2>3
  <2>5. hh[y] = 0
    BY <1>1, <1>3
  <2> QED
    BY <1>3, <1>6, <2>1, <2>2, <2>4, <2>5, IsLeafFrom
<1>9. br[1].key = s
  <2>1. 1 \in 1 .. top - j
    BY <1>4
  <2> QED
    BY <1>4, <1>6, <2>1
<1>10. KeySet(bl) \cup KeySet(br) = KeySet(buffer)
  <2>1. \A n \in 1 .. Len(bl) : n \in 1 .. top /\ bl[n] = buffer[n]
    BY <1>4, <1>5
  <2>2. \A n \in 1 .. Len(br) : j + n \in 1 .. top /\ br[n] = buffer[j + n]
    BY <1>62
  <2>3. ASSUME NEW n \in 1 .. top PROVE buffer[n].key \in KeySet(bl) \cup KeySet(br)
    <3>1. CASE n <= j
      <4>1. n \in 1 .. Len(bl) /\ bl[n] = buffer[n]
        BY <1>4, <1>5, <3>1
      <4> QED
        BY <4>1 DEF KeySet
    <3>2. CASE n > j
      <4>1. n - j \in 1 .. top - j /\ j + (n - j) = n
        BY <1>4, <3>2
      <4>2. n - j \in 1 .. Len(br) /\ br[n - j] = buffer[n]
        BY <1>6, <4>1
      <4> QED
        BY <4>2 DEF KeySet
    <3> QED
      BY <1>4, <3>1, <3>2
  <2>4. KeySet(bl) \subseteq KeySet(buffer)
    BY <1>3, <2>1 DEF KeySet
  <2>5. KeySet(br) \subseteq KeySet(buffer)
    <3>1. \A k \in KeySet(br) : \E n \in 1 .. Len(br) : k = br[n].key
      BY DEF KeySet
    <3>2. \A n \in 1 .. top : buffer[n].key \in KeySet(buffer)
      BY <1>3 DEF KeySet
    <3>3. ASSUME NEW k \in KeySet(br) PROVE k \in KeySet(buffer)
      <4>1. PICK n \in 1 .. Len(br) : k = br[n].key
        BY <3>1
      <4>2. PICK a : a = j + n
        OBVIOUS
      <4>3. a \in 1 .. top /\ br[n] = buffer[a]
        BY <2>2, <4>2
      <4> QED
        BY <3>2, <4>1, <4>3
    <3> QED
      BY <3>3
  <2>6. KeySet(buffer) \subseteq KeySet(bl) \cup KeySet(br)
    <3>1. \A k \in KeySet(buffer) : \E n \in 1 .. top : k = buffer[n].key
      BY <1>3 DEF KeySet
    <3> QED
      BY <2>3, <3>1
  <2> QED
    BY <2>4, <2>5, <2>6
<1>11. IsLeaf(LeafWith(bl, r), NN, hh, ll, uu, x) /\ IsLeaf(LeafWith(br, next), NN, hh, ll, uu, y)
  BY <1>7, <1>8 DEF LeafWith
<1> QED
  BY <1>2, <1>3, <1>5, <1>6, <1>9, <1>10, <1>11 DEF AreHalves

-----------------------------------------------------------------------------
(* The whole tree.                                                         *)

Shape(L, B, h, lo, hi) ==
  /\ Ordered(Nodes(L, B), h, lo, hi)
  /\ \A l \in DOMAIN L : IsLeaf(L[l], Nodes(L, B), h, lo, hi, Lf(l))
  /\ \A b \in DOMAIN B : IsBlock(B[b], Nodes(L, B), h, lo, hi, Blk(b))

Contents(L) == UNION {KeySet(L[l].buffer) : l \in DOMAIN L}

LEMMA NodeFacts ==
  ASSUME NEW L, NEW B
  PROVE  /\ \A l : Lf(l) \in Nodes(L, B) <=> l \in DOMAIN L
         /\ \A b : Blk(b) \in Nodes(L, B) <=> b \in DOMAIN B
         /\ \A l, b : Lf(l) # Blk(b)
         /\ \A k, l : Lf(k) = Lf(l) <=> k = l
         /\ \A b, c : Blk(b) = Blk(c) <=> b = c
         /\ \A x \in Nodes(L, B) : \/ \E b \in DOMAIN B : x = Blk(b)
                                   \/ \E l \in DOMAIN L : x = Lf(l)
<1>1. "leafs" # "block"
  OBVIOUS
<1> QED
  BY <1>1 DEF Nodes, Lf, Blk

\* What kind of children a block has is told by its tag.
LEMMA TagFacts ==
  ASSUME NEW L, NEW B, NEW h, NEW lo, NEW hi, Shape(L, B, h, lo, hi),
         NEW b \in DOMAIN B, NEW i \in 1 .. Len(B[b].children)
  PROVE  /\ B[b].tag = "leafs" => /\ B[b].children[i] \in DOMAIN L
                                  /\ Kid(B[b], i) = Lf(B[b].children[i])
                                  /\ h[Blk(b)] = 1
         /\ B[b].tag = "block" => /\ B[b].children[i] \in DOMAIN B
                                  /\ Kid(B[b], i) = Blk(B[b].children[i])
                                  /\ h[Blk(b)] > 1
         /\ B[b].tag \in {"leafs", "block"}
<1> DEFINE N == Nodes(L, B)
<1>1. Ordered(N, h, lo, hi) /\ Blk(b) \in N /\ IsBlock(B[b], N, h, lo, hi, Blk(b))
  BY NodeFacts DEF Shape
<1>2. /\ Kid(B[b], i) \in N /\ h[Kid(B[b], i)] \in Nat /\ h[Kid(B[b], i)] + 1 = h[Blk(b)]
      /\ B[b].tag \in {"leafs", "block"}
  <2> HIDE DEF N
  <2> QED
    BY <1>1, KidFacts, BlockFacts
<1>3. CASE B[b].tag = "leafs"
  <2>1. Kid(B[b], i) = Lf(B[b].children[i])
    BY <1>3 DEF Kid, Lf
  <2>2. B[b].children[i] \in DOMAIN L
    BY <1>2, <2>1, NodeFacts
  <2>3. h[Lf(B[b].children[i])] = 0
    BY <2>2 DEF Shape, IsLeaf
  <2>4. h[Blk(b)] = 1
    BY <1>2, <2>1, <2>3
  <2> QED
    BY <1>3, <2>1, <2>2, <2>4
<1>4. CASE B[b].tag = "block"
  <2>1. Kid(B[b], i) = Blk(B[b].children[i])
    BY <1>4 DEF Kid, Blk
  <2>2. B[b].children[i] \in DOMAIN B
    BY <1>2, <2>1, NodeFacts
  <2> DEFINE c == B[b].children[i]
  <2>3. /\ Blk(c) \in N /\ IsBlock(B[c], N, h, lo, hi, Blk(c))
    BY <2>2, NodeFacts DEF Shape
  <2>4. 1 \in 1 .. Len(B[c].children)
    <3>1. Len(B[c].nodes) \in Nat /\ Len(B[c].children) = Len(B[c].nodes) + 1
      <4> HIDE DEF N, c
      <4> QED
        BY <1>1, <2>3, BlockFacts
    <3> QED
      BY <3>1
  <2>5. h[Kid(B[c], 1)] \in Nat /\ h[Kid(B[c], 1)] + 1 = h[Blk(c)]
    <3> HIDE DEF N, c
    <3> QED
      BY <1>1, <2>3, <2>4, KidFacts
  <2>6. h[Blk(b)] > 1
    BY <1>2, <2>1, <2>5
  <2> QED
    BY <1>4, <2>1, <2>2, <2>6
<1> QED
  BY <1>2, <1>3, <1>4

\* insert_leafs keeps the shape, when it takes the leaf whose range has the key.
IsPut(L, l, key, b2, L2) ==
  LET i == Passed(KeysOf(L[l].buffer), key)
  IN  /\ \A n \in 1 .. i : L[l].buffer[n].key # key
      /\ b2 = InsertAt(L[l].buffer, i + 1, EntryOf(key))
      /\ L2 = [L EXCEPT ![l] = LeafWith(b2, L[l].next)]

LEMMA ShapePut ==
  ASSUME NEW L, NEW B, NEW h, NEW lo, NEW hi, Shape(L, B, h, lo, hi),
         NEW l \in DOMAIN L, NEW key \in Int, lo[Lf(l)] <= key, key < hi[Lf(l)],
         NEW b2, NEW L2, IsPut(L, l, key, b2, L2)
  PROVE  /\ Shape(L2, B, h, lo, hi)
         /\ Contents(L2) = Contents(L) \cup {key} /\ key \notin Contents(L)
         /\ b2 \in Seq(Entries) /\ Len(b2) = Len(L[l].buffer) + 1
         /\ DOMAIN L2 = DOMAIN L /\ L2[l] = LeafWith(b2, L[l].next)
         /\ L2[l].buffer = b2 /\ L2[l].next = L[l].next
         /\ \A k \in DOMAIN L \ {l} : L2[k] = L[k]
         /\ Nodes(L2, B) = Nodes(L, B)
<1>0. PICK i : i = Passed(KeysOf(L[l].buffer), key)
  OBVIOUS
<1>00. /\ \A n \in 1 .. i : L[l].buffer[n].key # key
       /\ b2 = InsertAt(L[l].buffer, i + 1, EntryOf(key))
       /\ DOMAIN L2 = DOMAIN L /\ L2[l] = LeafWith(b2, L[l].next)
       /\ \A k \in DOMAIN L \ {l} : L2[k] = L[k]
  BY <1>0 DEF IsPut
<1>000. L2[l] = [buffer |-> b2, next |-> L[l].next]
  BY <1>00 DEF LeafWith
<1> USE <1>0, <1>00, <1>000
<1>1. PICK N : N = Nodes(L, B)
  OBVIOUS
<1>2. Nodes(L2, B) = N
  BY <1>1 DEF Nodes
<1>3. /\ Ordered(N, h, lo, hi) /\ Lf(l) \in N /\ IsLeaf(L[l], N, h, lo, hi, Lf(l))
      /\ \A k \in DOMAIN L : Lf(k) \in N /\ IsLeaf(L[k], N, h, lo, hi, Lf(k))
      /\ \A b \in DOMAIN B : IsBlock(B[b], N, h, lo, hi, Blk(b))
  BY <1>1, NodeFacts DEF Shape
<1>4. /\ IsLeaf(L2[l], N, h, lo, hi, Lf(l))
      /\ b2 \in Seq(Entries) /\ Len(b2) = Len(L[l].buffer) + 1
      /\ KeySet(b2) = KeySet(L[l].buffer) \cup {key} /\ key \notin KeySet(L[l].buffer)
  <2>1. PICK leaf, x : leaf = L[l] /\ x = Lf(l)
    OBVIOUS
  <2>2. /\ Ordered(N, h, lo, hi) /\ x \in N /\ IsLeaf(leaf, N, h, lo, hi, x)
        /\ lo[x] <= key /\ key < hi[x] /\ i = Passed(KeysOf(leaf.buffer), key)
        /\ \A n \in 1 .. i : leaf.buffer[n].key # key
        /\ b2 = InsertAt(leaf.buffer, i + 1, EntryOf(key))
    BY <1>3, <2>1
  <2>3. /\ IsLeaf([buffer |-> b2, next |-> leaf.next], N, h, lo, hi, x)
        /\ b2 \in Seq(Entries) /\ Len(b2) = Len(leaf.buffer) + 1
        /\ KeySet(b2) = KeySet(leaf.buffer) \cup {key} /\ key \notin KeySet(leaf.buffer)
    BY ONLY <2>2, LeafPut, key \in Int
  <2> QED
    BY <2>1, <2>3
<1>5. Shape(L2, B, h, lo, hi)
  BY <1>2, <1>3, <1>4 DEF Shape
<1>6. ASSUME NEW k \in DOMAIN L, k # l PROVE key \notin KeySet(L[k].buffer)
  <2> SUFFICES ASSUME key \in KeySet(L[k].buffer) PROVE FALSE
    OBVIOUS
  <2>1. PICK n \in 1 .. Len(L[k].buffer) : L[k].buffer[n].key = key
    BY DEF KeySet
  <2>2. /\ lo[Lf(k)] <= key /\ key < hi[Lf(k)] /\ h[Lf(k)] = 0
        /\ lo[Lf(k)] \in Int /\ hi[Lf(k)] \in Int
    BY <1>3, <2>1, LeafFacts
  <2>3. h[Lf(l)] = 0 /\ lo[Lf(l)] \in Int /\ hi[Lf(l)] \in Int
    BY <1>3, LeafFacts
  <2>4. hi[Lf(k)] <= lo[Lf(l)] \/ hi[Lf(l)] <= lo[Lf(k)]
    BY <1>3, <1>6, <2>2, <2>3, NodeFacts DEF Ordered
  <2> QED
    BY <2>2, <2>3, <2>4
<1>7. L2[l].buffer = b2
  OBVIOUS
<1>8. Contents(L2) = Contents(L) \cup {key}
  BY <1>4, <1>7 DEF Contents
<1>9. key \notin Contents(L)
  BY <1>4, <1>6 DEF Contents
<1> QED
  BY <1>1, <1>2, <1>4, <1>5, <1>7, <1>8, <1>9

\* A block that gets a child next to one that is split.
Widened(block, i, s, r) ==
  [nodes |-> InsertAt(block.nodes, i + 1, s),
   children |-> InsertAt(block.children, i + 2, r), tag |-> block.tag]

IsWidened(B, b, i, s, r, B2) ==
  /\ DOMAIN B2 = DOMAIN B /\ B2[b] = Widened(B[b], i, s, r)
  /\ \A d \in DOMAIN B \ {b} : B2[d] = B[d]

IsLeafSplit(L, c, r, j, s, bl, br, L2) ==
  /\ r \in Nat /\ r \notin DOMAIN L
  /\ j \in 1 .. Len(L[c].buffer) - 1 /\ s = L[c].buffer[j + 1].key
  /\ bl = SubSeq(L[c].buffer, 1, j) /\ br = SubSeq(L[c].buffer, j + 1, Len(L[c].buffer))
  /\ DOMAIN L2 = DOMAIN L \cup {r}
  /\ L2[c] = LeafWith(bl, r) /\ L2[r] = LeafWith(br, L[c].next)
  /\ \A k \in DOMAIN L \ {c} : L2[k] = L[k]

IsKidAt(block, i, c) == i \in 0 .. Len(block.nodes) /\ c = block.children[i + 1]

\* The shape after node x was split at s into x and y.
Split(L, B, h, lo, hi, x, y, s, L2, B2) ==
  \E hh, ll, uu : /\ Shape(L2, B2, hh, ll, uu)
                  /\ IsSplit(Nodes(L, B), h, lo, hi, x, y, s, Nodes(L2, B2), hh, ll, uu)

\* A leaf is split, and the block above it gets the new one.
LEMMA ShapeLeafSplit ==
  ASSUME NEW L, NEW B, NEW h, NEW lo, NEW hi, Shape(L, B, h, lo, hi),
         NEW b \in DOMAIN B, B[b].tag = "leafs",
         NEW i, NEW c, IsKidAt(B[b], i, c),
         NEW r, NEW j, NEW s, NEW bl, NEW br,
         NEW L2, IsLeafSplit(L, c, r, j, s, bl, br, L2),
         NEW B2, IsWidened(B, b, i, s, r, B2)
  PROVE  /\ Split(L, B, h, lo, hi, Lf(c), Lf(r), s, L2, B2)
         /\ Contents(L2) = Contents(L)
         /\ AreHalves(L[c], j, s, bl, br)
<1>0. /\ r \in Nat /\ r \notin DOMAIN L
      /\ j \in 1 .. Len(L[c].buffer) - 1 /\ s = L[c].buffer[j + 1].key
      /\ bl = SubSeq(L[c].buffer, 1, j) /\ br = SubSeq(L[c].buffer, j + 1, Len(L[c].buffer))
      /\ DOMAIN L2 = DOMAIN L \cup {r}
      /\ L2[c] = [buffer |-> bl, next |-> r]  /\ L2[r] = [buffer |-> br, next |-> L[c].next]
      /\ \A k \in DOMAIN L \ {c} : L2[k] = L[k]
  BY DEF IsLeafSplit, LeafWith
<1>00. /\ DOMAIN B2 = DOMAIN B /\ B2[b] = Widened(B[b], i, s, r)
       /\ \A d \in DOMAIN B \ {b} : B2[d] = B[d]
  BY DEF IsWidened
<1>000. i \in 0 .. Len(B[b].nodes) /\ c = B[b].children[i + 1]
  BY DEF IsKidAt
<1> USE <1>0, <1>00, <1>000
<1>1. PICK N : N = Nodes(L, B)
  OBVIOUS
<1>2. PICK x, y, p : x = Lf(c) /\ y = Lf(r) /\ p = Blk(b)
  OBVIOUS
<1>3. /\ Ordered(N, h, lo, hi) /\ p \in N /\ IsBlock(B[b], N, h, lo, hi, p)
      /\ \A k \in DOMAIN L : Lf(k) \in N /\ IsLeaf(L[k], N, h, lo, hi, Lf(k))
      /\ \A d \in DOMAIN B : Blk(d) \in N /\ IsBlock(B[d], N, h, lo, hi, Blk(d))
  BY <1>1, <1>2, NodeFacts DEF Shape
<1>4. Len(B[b].nodes) \in Nat /\ Len(B[b].children) = Len(B[b].nodes) + 1
  BY <1>3, BlockFacts
<1>5. i + 1 \in 1 .. Len(B[b].children)
  BY ONLY <1>4, <1>000
<1>6. c \in DOMAIN L /\ Kid(B[b], i + 1) = x
  BY <1>2, <1>5, TagFacts
<1>7. x \in N /\ y \notin N /\ IsLeaf(L[c], N, h, lo, hi, x) /\ p # x
  BY <1>1, <1>2, <1>3, <1>6, NodeFacts
<1>8. s \in Int /\ lo[x] < s /\ s < hi[x]
  <2>0. PICK leaf, top : leaf = L[c] /\ top = Len(leaf.buffer)
    OBVIOUS
  <2>1. /\ top \in Nat
        /\ \A n \in 1 .. top :
             /\ leaf.buffer[n].key \in Int
             /\ lo[x] <= leaf.buffer[n].key /\ leaf.buffer[n].key < hi[x]
        /\ \A m, n \in 1 .. top : m < n => leaf.buffer[m].key < leaf.buffer[n].key
        /\ lo[x] \in Int
    <3>1. IsLeaf(leaf, N, h, lo, hi, x) /\ Ordered(N, h, lo, hi) /\ x \in N
      BY <1>3, <1>7, <2>0
    <3> QED
      BY ONLY <2>0, <3>1, LeafFacts
  <2>2. j \in 1 .. top - 1 /\ s = leaf.buffer[j + 1].key
    BY <2>0
  <2>3. 1 \in 1 .. top /\ j + 1 \in 1 .. top /\ 1 < j + 1
    BY ONLY <2>1, <2>2
  <2> QED
    BY ONLY <2>1, <2>2, <2>3
<1>9. PICK hh, ll, uu : IsSplit(N, h, lo, hi, x, y, s, N \cup {y}, hh, ll, uu)
  BY <1>3, <1>7, <1>8, SplitExists
<1>10. PICK NN : NN = N \cup {y}
  OBVIOUS
<1>11. Nodes(L2, B2) = NN
  BY <1>1, <1>2, <1>10 DEF Nodes
<1>12. IsSplit(N, h, lo, hi, x, y, s, NN, hh, ll, uu) /\ Ordered(NN, hh, ll, uu)
  BY <1>3, <1>9, <1>10, SplitOrdered
<1>13. /\ IsLeaf(L2[c], NN, hh, ll, uu, x)
       /\ IsLeaf(L2[r], NN, hh, ll, uu, y)
       /\ bl \in Seq(Entries) /\ br \in Seq(Entries)
       /\ Len(bl) = j /\ Len(br) = Len(L[c].buffer) - j
       /\ br[1].key = s
       /\ KeySet(bl) \cup KeySet(br) = KeySet(L[c].buffer)
       /\ AreHalves(L[c], j, s, bl, br)
  <2>1. PICK leaf : leaf = L[c]
    OBVIOUS
  <2>2. /\ IsLeaf(leaf, N, h, lo, hi, x) /\ y = Lf(r)
        /\ IsCut(leaf, j, s, bl, br)
    BY <1>2, <1>7, <2>1 DEF IsCut
  <2>3. /\ IsLeaf(LeafWith(bl, r), NN, hh, ll, uu, x)
        /\ IsLeaf(LeafWith(br, leaf.next), NN, hh, ll, uu, y)
        /\ bl \in Seq(Entries) /\ br \in Seq(Entries)
        /\ Len(bl) = j /\ Len(br) = Len(leaf.buffer) - j
        /\ br[1].key = s
        /\ KeySet(bl) \cup KeySet(br) = KeySet(leaf.buffer)
        /\ AreHalves(leaf, j, s, bl, br)
    <3>1. r \in Nat
      OBVIOUS
    <3>2. Ordered(N, h, lo, hi) /\ IsSplit(N, h, lo, hi, x, y, s, NN, hh, ll, uu)
      BY <1>3, <1>12
    <3>3. /\ IsLeaf(LeafWith(bl, r), NN, hh, ll, uu, x)
          /\ IsLeaf(LeafWith(br, leaf.next), NN, hh, ll, uu, y)
          /\ AreHalves(leaf, j, s, bl, br)
      BY ONLY <2>2, <3>1, <3>2, LeafHalves
    <3> QED
      BY ONLY <3>3, <3>3 DEF AreHalves
  <2> QED
    BY <2>1, <2>3 DEF LeafWith
<1>14. ASSUME NEW k \in DOMAIN L2 PROVE IsLeaf(L2[k], NN, hh, ll, uu, Lf(k))
  <2>1. CASE k = c \/ k = r
    BY <1>2, <1>13, <2>1
  <2>2. CASE k # c /\ k # r
    <3>1. k \in DOMAIN L /\ L2[k] = L[k]
      BY <2>2
    <3>11. Lf(k) # x
      BY ONLY <1>2, <2>2 DEF Lf
    <3> QED
      BY ONLY <1>3, <1>12, <3>1, <3>11, LeafElsewhere
  <2> QED
    BY <2>1, <2>2
<1>15. ASSUME NEW d \in DOMAIN B2 PROVE IsBlock(B2[d], NN, hh, ll, uu, Blk(d))
  <2>1. CASE d = b
    <3>1. y = <<B[b].tag, r>>
      BY <1>2 DEF Lf
    <3>2. IsBlock(Widened(B[b], i, s, r), NN, hh, ll, uu, p)
      BY <1>3, <1>6, <1>12, <3>1, SplitParent DEF Widened
    <3> QED
      BY <1>2, <2>1, <3>2
  <2>2. CASE d # b
    <3>1. d \in DOMAIN B /\ B2[d] = B[d] /\ Blk(d) # x /\ Blk(d) # p
      BY <1>2, <2>2, NodeFacts
    <3>2. \A k \in 1 .. Len(B[d].children) : Kid(B[d], k) # x
      BY <1>3, <1>5, <1>6, <3>1, OneParent
    <3> QED
      BY ONLY <1>3, <1>12, <3>1, <3>2, SplitElsewhere
  <2> QED
    BY <2>1, <2>2
<1>16. Shape(L2, B2, hh, ll, uu)
  BY <1>11, <1>12, <1>14, <1>15 DEF Shape
<1>17. Contents(L2) = Contents(L)
  <2>1. L2[c].buffer = bl /\ L2[r].buffer = br
    BY ONLY <1>0
  <2>2. r # c
    BY <1>6
  <2> QED
    <3>1. ASSUME NEW k \in DOMAIN L PROVE KeySet(L[k].buffer) \subseteq Contents(L2)
      <4>1. CASE k = c
        <5>1. KeySet(L2[c].buffer) \subseteq Contents(L2) /\ KeySet(L2[r].buffer) \subseteq Contents(L2)
          BY <1>6 DEF Contents
        <5> QED
          BY ONLY <1>13, <2>1, <4>1, <5>1
      <4>2. CASE k # c
        <5>1. L2[k] = L[k] /\ k \in DOMAIN L2
          BY <4>2
        <5> QED
          BY ONLY <5>1 DEF Contents
      <4> QED
        BY <4>1, <4>2
    <3>2. ASSUME NEW k \in DOMAIN L2 PROVE KeySet(L2[k].buffer) \subseteq Contents(L)
      <4>1. CASE k = c \/ k = r
        <5>1. KeySet(L[c].buffer) \subseteq Contents(L)
          BY ONLY <1>6 DEF Contents
        <5> QED
          BY ONLY <1>13, <2>1, <4>1, <5>1
      <4>2. CASE k # c /\ k # r
        <5>1. L2[k] = L[k] /\ k \in DOMAIN L
          BY <4>2
        <5> QED
          BY ONLY <5>1 DEF Contents
      <4> QED
        BY <4>1, <4>2
    <3> QED
      BY ONLY <3>1, <3>2 DEF Contents
<1>18. IsSplit(Nodes(L, B), h, lo, hi, Lf(c), Lf(r), s, Nodes(L2, B2), hh, ll, uu)
  BY <1>1, <1>2, <1>11, <1>12
<1>19. Split(L, B, h, lo, hi, Lf(c), Lf(r), s, L2, B2)
  BY ONLY <1>16, <1>18 DEF Split
<1> QED
  BY <1>13, <1>17, <1>19

\* The halves of a block.
LeftOf(block, j) ==
  [nodes |-> SubSeq(block.nodes, 1, j - 1),
   children |-> SubSeq(block.children, 1, j), tag |-> block.tag]
RightOf(block, j) ==
  [nodes |-> SubSeq(block.nodes, j + 1, Len(block.nodes)),
   children |-> SubSeq(block.children, j + 1, Len(block.nodes) + 1), tag |-> block.tag]

IsBlockSplit(B, b, i, c, r, j, s, B2) ==
  /\ r \in Nat /\ r \notin DOMAIN B
  /\ j \in 1 .. Len(B[c].nodes) /\ s = B[c].nodes[j]
  /\ DOMAIN B2 = DOMAIN B \cup {r} /\ B2[b] = Widened(B[b], i, s, r)
  /\ B2[c] = LeftOf(B[c], j) /\ B2[r] = RightOf(B[c], j)
  /\ \A d \in DOMAIN B \ {b, c} : B2[d] = B[d]

\* A block is split, and the block above it gets the new one.
LEMMA ShapeBlockSplit ==
  ASSUME NEW L, NEW B, NEW h, NEW lo, NEW hi, Shape(L, B, h, lo, hi),
         NEW b \in DOMAIN B, B[b].tag = "block",
         NEW i, NEW c, IsKidAt(B[b], i, c),
         NEW r, NEW j, NEW s, NEW B2, IsBlockSplit(B, b, i, c, r, j, s, B2)
  PROVE  /\ c \in DOMAIN B /\ c # b
         /\ Split(L, B, h, lo, hi, Blk(c), Blk(r), s, L, B2)
<1>0. /\ r \in Nat /\ r \notin DOMAIN B
      /\ j \in 1 .. Len(B[c].nodes) /\ s = B[c].nodes[j]
      /\ DOMAIN B2 = DOMAIN B \cup {r} /\ B2[b] = Widened(B[b], i, s, r)
      /\ B2[c] = LeftOf(B[c], j) /\ B2[r] = RightOf(B[c], j)
      /\ \A d \in DOMAIN B \ {b, c} : B2[d] = B[d]
  BY DEF IsBlockSplit
<1>000. i \in 0 .. Len(B[b].nodes) /\ c = B[b].children[i + 1]
  BY DEF IsKidAt
<1> USE <1>0, <1>000
<1>1. PICK N : N = Nodes(L, B)
  OBVIOUS
<1>2. PICK x, y, p : x = Blk(c) /\ y = Blk(r) /\ p = Blk(b)
  OBVIOUS
<1>3. /\ Ordered(N, h, lo, hi) /\ p \in N /\ IsBlock(B[b], N, h, lo, hi, p)
      /\ \A k \in DOMAIN L : Lf(k) \in N /\ IsLeaf(L[k], N, h, lo, hi, Lf(k))
      /\ \A d \in DOMAIN B : Blk(d) \in N /\ IsBlock(B[d], N, h, lo, hi, Blk(d))
  BY <1>1, <1>2, NodeFacts DEF Shape
<1>4. Len(B[b].nodes) \in Nat /\ Len(B[b].children) = Len(B[b].nodes) + 1
  BY <1>3, BlockFacts
<1>5. i + 1 \in 1 .. Len(B[b].children)
  BY <1>4
<1>6. c \in DOMAIN B /\ Kid(B[b], i + 1) = x
  BY <1>2, <1>5, TagFacts
<1>7. x \in N /\ y \notin N /\ IsBlock(B[c], N, h, lo, hi, x)
  BY <1>1, <1>2, <1>3, <1>6, NodeFacts
<1>70. p # x
  <2>1. h[x] \in Nat /\ h[x] + 1 = h[p]
    BY <1>3, <1>5, <1>6, KidFacts
  <2> QED
    BY <2>1
<1>8. s \in Int /\ lo[x] < s /\ s < hi[x]
  BY <1>3, <1>7, BlockFacts
<1>9. PICK hh, ll, uu : IsSplit(N, h, lo, hi, x, y, s, N \cup {y}, hh, ll, uu)
  BY <1>3, <1>7, <1>8, SplitExists
<1>10. PICK NN : NN = N \cup {y}
  OBVIOUS
<1>11. Nodes(L, B2) = NN
  BY <1>1, <1>2, <1>10 DEF Nodes
<1>12. IsSplit(N, h, lo, hi, x, y, s, NN, hh, ll, uu) /\ Ordered(NN, hh, ll, uu)
  BY <1>3, <1>9, <1>10, SplitOrdered
<1>13. /\ IsBlock(B2[c], NN, hh, ll, uu, x)
       /\ IsBlock(B2[r], NN, hh, ll, uu, y)
  <2>1. PICK block : block = B[c]
    OBVIOUS
  <2>2. IsBlock(block, N, h, lo, hi, x) /\ j \in 1 .. Len(block.nodes) /\ s = block.nodes[j]
    BY <1>7, <2>1
  <2>3. IsBlock(LeftOf(block, j), NN, hh, ll, uu, x) /\ IsBlock(RightOf(block, j), NN, hh, ll, uu, y)
    BY ONLY <1>3, <1>12, <2>2, SplitHalves DEF LeftOf, RightOf
  <2> QED
    BY <2>1, <2>3 DEF LeafWith
<1>14. ASSUME NEW k \in DOMAIN L PROVE IsLeaf(L[k], NN, hh, ll, uu, Lf(k))
  <2>1. Lf(k) # x
    BY <1>2, NodeFacts
  <2> QED
    BY <1>3, <1>12, <2>1, LeafElsewhere
<1>15. ASSUME NEW d \in DOMAIN B2 PROVE IsBlock(B2[d], NN, hh, ll, uu, Blk(d))
  <2>1. CASE d = b
    <3>1. y = <<B[b].tag, r>>
      BY <1>2 DEF Blk
    <3>2. IsBlock(Widened(B[b], i, s, r), NN, hh, ll, uu, p)
      BY <1>3, <1>6, <1>12, <3>1, SplitParent DEF Widened
    <3> QED
      BY <1>2, <2>1, <3>2
  <2>2. CASE d = c \/ d = r
    BY <1>2, <1>13, <2>2
  <2>3. CASE d # b /\ d # c /\ d # r
    <3>1. d \in DOMAIN B /\ B2[d] = B[d] /\ Blk(d) # x /\ Blk(d) # p
      BY <1>2, <2>3, NodeFacts
    <3>2. \A k \in 1 .. Len(B[d].children) : Kid(B[d], k) # x
      BY <1>3, <1>5, <1>6, <3>1, OneParent
    <3> QED
      BY <1>3, <1>12, <3>1, <3>2, SplitElsewhere
  <2> QED
    BY <2>1, <2>2, <2>3
<1>16. Shape(L, B2, hh, ll, uu)
  BY <1>11, <1>12, <1>14, <1>15 DEF Shape
<1>17. c # b
  BY <1>2, <1>70
<1>18. IsSplit(Nodes(L, B), h, lo, hi, Blk(c), Blk(r), s, Nodes(L, B2), hh, ll, uu)
  BY <1>1, <1>2, <1>11, <1>12
<1>19. Split(L, B, h, lo, hi, Blk(c), Blk(r), s, L, B2)
  BY ONLY <1>16, <1>18 DEF Split
<1> QED
  BY <1>6, <1>17, <1>19

\* The child a key is sent to has the key in its range.
LEMMA KidForKey ==
  ASSUME NEW N, NEW h, NEW lo, NEW hi, Ordered(N, h, lo, hi),
         NEW x \in N, NEW block, IsBlock(block, N, h, lo, hi, x),
         NEW key \in Int, lo[x] <= key, key < hi[x],
         NEW i, i = Passed(block.nodes, key)
  PROVE  /\ i \in 0 .. Len(block.nodes) /\ i + 1 \in 1 .. Len(block.children)
         /\ lo[Kid(block, i + 1)] <= key /\ key < hi[Kid(block, i + 1)]
         /\ h[Kid(block, i + 1)] \in Nat /\ h[Kid(block, i + 1)] + 1 = h[x]
<1>1. PICK nodes, top : nodes = block.nodes /\ top = Len(nodes)
  OBVIOUS
<1>2. /\ nodes \in Seq(Int) /\ top \in Nat /\ Len(block.children) = top + 1
      /\ Ascending(nodes)
  BY <1>1, BlockFacts DEF IsBlock
<1>3. /\ i \in 0 .. top
      /\ \A n \in 1 .. i : nodes[n] <= key
      /\ \A n \in i + 1 .. top : key < nodes[n]
  BY <1>1, <1>2, PassedIs
<1>4. PICK a, c : a = i + 1 /\ c = Kid(block, a)
  OBVIOUS
<1>5. a \in 1 .. Len(block.children)
  BY <1>2, <1>3, <1>4
<1>6. /\ h[c] \in Nat /\ h[c] + 1 = h[x]
      /\ lo[c] = IF a = 1 THEN lo[x] ELSE nodes[a - 1]
      /\ hi[c] = IF a = top + 1 THEN hi[x] ELSE nodes[a]
  BY <1>1, <1>4, <1>5, KidFacts
<1>7. a # 1 => a - 1 \in 1 .. i
  BY <1>3, <1>4
<1>8. a # top + 1 => a \in i + 1 .. top
  BY <1>2, <1>3, <1>4
<1>9. lo[c] <= key /\ key < hi[c]
  BY <1>3, <1>6, <1>7, <1>8
<1> QED
  BY <1>1, <1>3, <1>4, <1>5, <1>6, <1>9

\* Nothing changed its range at height top or above, and nothing is new there.
Keeps(N, h, lo, hi, NN, hh, ll, uu, top) ==
  /\ N \subseteq NN
  /\ \A z \in N : hh[z] = h[z] /\ ll[z] = lo[z]
  /\ \A z \in N : top <= h[z] => uu[z] = hi[z]
  /\ \A z \in NN \ N : hh[z] < top

LEMMA KeepsSame ==
  ASSUME NEW N, NEW h, NEW lo, NEW hi, NEW top
  PROVE  Keeps(N, h, lo, hi, N, h, lo, hi, top)
BY DEF Keeps

LEMMA SplitKeeps ==
  ASSUME NEW N, NEW h, NEW lo, NEW hi, Ordered(N, h, lo, hi),
         NEW x, NEW y, NEW s, NEW NN, NEW hh, NEW ll, NEW uu,
         IsSplit(N, h, lo, hi, x, y, s, NN, hh, ll, uu),
         NEW top \in Nat, h[x] < top
  PROVE  Keeps(N, h, lo, hi, NN, hh, ll, uu, top)
<1>1. /\ x \in N /\ y \notin N /\ NN = N \cup {y}
      /\ \A z \in N : hh[z] = h[z] /\ ll[z] = lo[z]
      /\ \A z \in N \ {x} : uu[z] = hi[z]
      /\ hh[y] = h[x]
  BY DEF IsSplit
<1>2. h[x] \in Nat
  BY <1>1 DEF Ordered
<1>3. ASSUME NEW z \in N, top <= h[z] PROVE uu[z] = hi[z]
  <2>1. z # x
    BY <1>2, <1>3
  <2> QED
    BY <1>1, <2>1
<1> QED
  BY <1>1, <1>3 DEF Keeps

LEMMA KeepsTrans ==
  ASSUME NEW N, NEW h, NEW lo, NEW hi, Ordered(N, h, lo, hi),
         NEW M, NEW ha, NEW la, NEW ua, Ordered(M, ha, la, ua),
         NEW O, NEW hb, NEW lb, NEW ub, Ordered(O, hb, lb, ub),
         NEW low \in Nat, NEW top \in Nat, low <= top,
         Keeps(N, h, lo, hi, M, ha, la, ua, low),
         Keeps(M, ha, la, ua, O, hb, lb, ub, top)
  PROVE  Keeps(N, h, lo, hi, O, hb, lb, ub, top)
<1>1. /\ N \subseteq M /\ M \subseteq O
      /\ \A z \in N : h[z] \in Nat /\ ha[z] = h[z] /\ la[z] = lo[z]
      /\ \A z \in N : low <= h[z] => ua[z] = hi[z]
      /\ \A z \in M \ N : ha[z] < low
      /\ \A z \in M : ha[z] \in Nat /\ hb[z] = ha[z] /\ lb[z] = la[z]
      /\ \A z \in M : top <= ha[z] => ub[z] = ua[z]
      /\ \A z \in O \ M : hb[z] < top
  BY DEF Keeps, Ordered
<1>2. \A z \in N : hb[z] = h[z] /\ lb[z] = lo[z]
  BY <1>1
<1>3. ASSUME NEW z \in N, top <= h[z] PROVE ub[z] = hi[z]
  <2>1. z \in M /\ top <= ha[z] /\ low <= h[z]
    BY <1>1, <1>3
  <2> QED
    BY <1>1, <2>1
<1>4. ASSUME NEW z \in O \ N PROVE hb[z] < top
  <2>1. CASE z \in M
    BY <1>1, <1>4, <2>1
  <2>2. CASE z \notin M
    BY <1>1, <1>4, <2>2
  <2> QED
    BY <2>1, <2>2
<1> QED
  BY <1>1, <1>2, <1>3, <1>4 DEF Keeps

\* The root has all keys in its range, and nothing is higher.
Rooted(N, root, h, lo, hi) ==
  /\ Blk(root) \in N /\ lo[Blk(root)] = Least /\ hi[Blk(root)] = Beyond
  /\ \A z \in N : h[z] <= h[Blk(root)]

LEMMA KeepsRoot ==
  ASSUME NEW N, NEW h, NEW lo, NEW hi, Ordered(N, h, lo, hi),
         NEW NN, NEW hh, NEW ll, NEW uu, Ordered(NN, hh, ll, uu),
         NEW root, Rooted(N, root, h, lo, hi),
         NEW top \in Nat, top <= h[Blk(root)],
         Keeps(N, h, lo, hi, NN, hh, ll, uu, top)
  PROVE  Rooted(NN, root, hh, ll, uu) /\ hh[Blk(root)] = h[Blk(root)]
<1>1. PICK x : x = Blk(root)
  OBVIOUS
<1>2. /\ x \in N /\ lo[x] = Least /\ hi[x] = Beyond /\ h[x] \in Nat /\ top <= h[x]
      /\ \A z \in N : h[z] <= h[x] /\ h[z] \in Nat
      /\ \A z \in NN : hh[z] \in Nat
  BY <1>1 DEF Rooted, Ordered
<1>3. /\ N \subseteq NN
      /\ \A z \in N : hh[z] = h[z] /\ ll[z] = lo[z]
      /\ \A z \in N : top <= h[z] => uu[z] = hi[z]
      /\ \A z \in NN \ N : hh[z] < top
  BY DEF Keeps
<1>4. x \in NN /\ ll[x] = Least /\ uu[x] = Beyond /\ hh[x] = h[x]
  BY <1>2, <1>3
<1>5. ASSUME NEW z \in NN PROVE hh[z] <= hh[x]
  <2>1. CASE z \in N
    BY <1>2, <1>3, <1>4, <2>1
  <2>2. CASE z \notin N
    BY <1>2, <1>3, <1>4, <2>2
  <2> QED
    BY <2>1, <2>2
<1> QED
  BY <1>1, <1>4, <1>5 DEF Rooted

IsStubbed(B, root, p, B2) ==
  /\ p \notin DOMAIN B /\ DOMAIN B2 = DOMAIN B \cup {p}
  /\ B2[p] = [nodes |-> <<>>, children |-> <<root>>, tag |-> "block"]
  /\ \A d \in DOMAIN B : B2[d] = B[d]

\* A block over the root, with the root as its only child, keeps the shape.
LEMMA ShapeUnderNew ==
  ASSUME NEW L, NEW B, NEW h, NEW lo, NEW hi, Shape(L, B, h, lo, hi),
         NEW root \in Nat, Rooted(Nodes(L, B), root, h, lo, hi),
         NEW p \in Nat, NEW B2, IsStubbed(B, root, p, B2)
  PROVE  \E hh, ll, uu :
           /\ Shape(L, B2, hh, ll, uu)
           /\ Rooted(Nodes(L, B2), p, hh, ll, uu)
           /\ hh[Blk(p)] = h[Blk(root)] + 1
<1>0. /\ p \notin DOMAIN B /\ DOMAIN B2 = DOMAIN B \cup {p}
      /\ B2[p] = [nodes |-> <<>>, children |-> <<root>>, tag |-> "block"]
      /\ \A d \in DOMAIN B : B2[d] = B[d]
  BY DEF IsStubbed
<1> USE <1>0
<1>1. PICK N, x, y : N = Nodes(L, B) /\ x = Blk(root) /\ y = Blk(p)
  OBVIOUS
<1>2. /\ Ordered(N, h, lo, hi) /\ x \in N /\ y \notin N
      /\ lo[x] = Least /\ hi[x] = Beyond /\ \A z \in N : h[z] <= h[x]
      /\ \A k \in DOMAIN L : Lf(k) \in N /\ IsLeaf(L[k], N, h, lo, hi, Lf(k))
      /\ \A d \in DOMAIN B : Blk(d) \in N /\ IsBlock(B[d], N, h, lo, hi, Blk(d))
  BY <1>1, NodeFacts DEF Shape, Rooted
<1> DEFINE NN == N \cup {y}
           hh == [z \in NN |-> IF z = y THEN h[x] + 1 ELSE h[z]]
           ll == [z \in NN |-> IF z = y THEN Least ELSE lo[z]]
           uu == [z \in NN |-> IF z = y THEN Beyond ELSE hi[z]]
<1>3. /\ \A z \in N : h[z] \in Nat /\ lo[z] \in Int /\ hi[z] \in Int
      /\ \A z \in N : Least <= lo[z] /\ lo[z] < hi[z] /\ hi[z] <= Beyond
      /\ \A u, v \in N : h[u] = h[v] /\ u # v => hi[u] <= lo[v] \/ hi[v] <= lo[u]
  BY <1>2 DEF Ordered
<1>4. Least \in Int /\ Beyond \in Int /\ Least < Beyond
  BY DEF Least, Beyond
<1>5. hh \in [NN -> Nat] /\ ll \in [NN -> Int] /\ uu \in [NN -> Int]
  BY <1>2, <1>3, <1>4
<1>6. /\ \A z \in N : hh[z] = h[z] /\ ll[z] = lo[z] /\ uu[z] = hi[z]
      /\ hh[y] = h[x] + 1 /\ ll[y] = Least /\ uu[y] = Beyond
  BY <1>2
<1>7. PICK N2 : N2 = NN
  OBVIOUS
<1>8. N2 = N \cup {y} /\ Nodes(L, B2) = N2
  BY <1>1, <1>7 DEF Nodes
<1> HIDE DEF hh, ll, uu
<1>9. Ordered(N2, hh, ll, uu)
  <2>1. \A z \in N2 : Least <= ll[z] /\ ll[z] < uu[z] /\ uu[z] <= Beyond
    BY <1>3, <1>4, <1>6, <1>8
  <2>2. \A z \in N : hh[z] # hh[y]
    BY <1>2, <1>3, <1>6
  <2>3. \A u, v \in N2 : hh[u] = hh[v] /\ u # v => uu[u] <= ll[v] \/ uu[v] <= ll[u]
    BY <1>3, <1>6, <1>8, <2>2
  <2> QED
    BY <1>5, <1>7, <2>1, <2>3 DEF Ordered
<1>10. ASSUME NEW k \in DOMAIN L PROVE IsLeaf(L[k], N2, hh, ll, uu, Lf(k))
  <2>1. PICK leaf, z : leaf = L[k] /\ z = Lf(k)
    OBVIOUS
  <2>2. IsLeaf(leaf, N, h, lo, hi, z) /\ z \in N
    BY <1>2, <2>1
  <2>3. hh[z] = h[z] /\ ll[z] = lo[z] /\ uu[z] = hi[z]
    BY <1>6, <2>2
  <2>4. /\ leaf \in Leaves
        /\ h[z] = 0
        /\ Ascending(KeysOf(leaf.buffer))
        /\ \A n \in 1 .. Len(leaf.buffer) :
             lo[z] <= leaf.buffer[n].key /\ leaf.buffer[n].key < hi[z]
        /\ IF hi[z] = Beyond THEN leaf.next = 0
           ELSE Lf(leaf.next) \in N /\ lo[Lf(leaf.next)] = hi[z]
    BY <2>2 DEF IsLeaf
  <2>5. IF uu[z] = Beyond THEN leaf.next = 0
        ELSE Lf(leaf.next) \in N2 /\ ll[Lf(leaf.next)] = uu[z]
    BY <1>6, <1>8, <2>3, <2>4
  <2>6. IsLeaf(leaf, N2, hh, ll, uu, z)
    BY ONLY <2>3, <2>4, <2>5 DEF IsLeaf
  <2> QED
    BY <2>1, <2>6
<1>11. ASSUME NEW d \in DOMAIN B PROVE IsBlock(B[d], N2, hh, ll, uu, Blk(d))
  <2>1. PICK block, z : block = B[d] /\ z = Blk(d)
    OBVIOUS
  <2>2. IsBlock(block, N, h, lo, hi, z) /\ z \in N
    BY <1>2, <2>1
  <2>3. hh[z] = h[z] /\ ll[z] = lo[z] /\ uu[z] = hi[z]
    BY <1>6, <2>2
  <2>4. /\ block \in Blocks
        /\ Len(block.children) = Len(block.nodes) + 1
        /\ Ascending(block.nodes)
        /\ \A n \in 1 .. Len(block.nodes) : lo[z] < block.nodes[n] /\ block.nodes[n] < hi[z]
        /\ \A i \in 1 .. Len(block.children) :
             /\ Kid(block, i) \in N
             /\ h[Kid(block, i)] + 1 = h[z]
             /\ lo[Kid(block, i)] = KidLo(block, lo[z], i)
             /\ hi[Kid(block, i)] = KidHi(block, hi[z], i)
    BY <2>2 DEF IsBlock
  <2>5. \A i \in 1 .. Len(block.children) :
             /\ Kid(block, i) \in N2
             /\ hh[Kid(block, i)] + 1 = hh[z]
             /\ ll[Kid(block, i)] = KidLo(block, ll[z], i)
             /\ uu[Kid(block, i)] = KidHi(block, uu[z], i)
    BY <1>6, <1>8, <2>3, <2>4
  <2>6. IsBlock(block, N2, hh, ll, uu, z)
    BY ONLY <2>3, <2>4, <2>5 DEF IsBlock
  <2> QED
    BY <2>1, <2>6
<1>12. IsBlock(B2[p], N2, hh, ll, uu, y)
  <2>1. PICK nodes, children, tag : nodes = <<>> /\ children = <<root>> /\ tag = "block"
    OBVIOUS
  <2>2. /\ nodes \in Seq(Int) /\ children \in Seq(Nat) /\ tag \in {"leafs", "block"}
        /\ Len(nodes) = 0 /\ Len(children) = 1 /\ children[1] = root /\ 1 .. Len(nodes) = {}
    BY <2>1
  <2>3. <<tag, children[1]>> = x
    BY <1>1, <2>1, <2>2 DEF Blk
  <2>4. ASSUME NEW i \in 1 .. Len(children)
        PROVE  /\ <<tag, children[i]>> \in N2
               /\ hh[<<tag, children[i]>>] + 1 = hh[y]
               /\ ll[<<tag, children[i]>>] = IF i = 1 THEN ll[y] ELSE nodes[i - 1]
               /\ uu[<<tag, children[i]>>] = IF i = Len(nodes) + 1 THEN uu[y] ELSE nodes[i]
    <3>1. i = 1 /\ i = Len(nodes) + 1
      BY <2>2
    <3>2. <<tag, children[i]>> = x
      BY <2>3, <3>1
    <3> QED
      BY <1>2, <1>6, <1>8, <3>1, <3>2
  <2>5. IsBlock([nodes |-> nodes, children |-> children, tag |-> tag], N2, hh, ll, uu, y)
    <3>1. /\ Len(children) = Len(nodes) + 1
          /\ \A m, n \in 1 .. Len(nodes) : m < n => nodes[m] < nodes[n]
          /\ \A n \in 1 .. Len(nodes) : ll[y] < nodes[n] /\ nodes[n] < uu[y]
      BY <2>2
    <3> QED
      BY <2>2, <2>4, <3>1, IsBlockFrom
  <2> QED
    BY <2>1, <2>5
<1>13. Shape(L, B2, hh, ll, uu)
  <2>1. \A d \in DOMAIN B2 : IsBlock(B2[d], N2, hh, ll, uu, Blk(d))
    BY <1>1, <1>11, <1>12
  <2> QED
    BY <1>8, <1>9, <1>10, <2>1 DEF Shape
<1>14. Rooted(N2, p, hh, ll, uu) /\ hh[Blk(p)] = h[Blk(root)] + 1
  <2>1. \A z \in N2 : hh[z] <= hh[y]
    BY <1>2, <1>3, <1>6, <1>8
  <2> QED
    BY <1>1, <1>6, <1>8, <2>1 DEF Rooted
<1> QED
  BY <1>8, <1>13, <1>14

-----------------------------------------------------------------------------
(* What the operators of the code do to the two pools.                     *)

Mem(L, B) == [leafs |-> L, blocks |-> B, exited |-> "none"]

LEMMA MemFacts ==
  ASSUME NEW L, NEW B
  PROVE  Mem(L, B).leafs = L /\ Mem(L, B).blocks = B /\ Mem(L, B).exited = "none"
BY DEF Mem

LEMMA ExitFacts ==
  ASSUME NEW L, NEW B, NEW why
  PROVE  Exit(Mem(L, B), why).exited = why
BY DEF Mem, Exit

LeafPutIn(L, B, l, key, out) == \E b2, L2 : IsPut(L, l, key, b2, L2) /\ out = Mem(L2, B)


\* One element of a pool is changed, and one is new.
LEMMA AppendIs ==
  ASSUME NEW S, NEW s \in Seq(S), NEW c \in DOMAIN s, NEW e \in S, NEW f \in S,
         NEW t, t = Append([s EXCEPT ![c] = e], f)
  PROVE  /\ t \in Seq(S) /\ Len(t) = Len(s) + 1 /\ DOMAIN t = DOMAIN s \cup {Len(s) + 1}
         /\ t[c] = e /\ t[Len(s) + 1] = f
         /\ \A k \in DOMAIN s \ {c} : t[k] = s[k]
         /\ Len(s) + 1 \notin DOMAIN s /\ Len(s) \in Nat /\ DOMAIN s = 1 .. Len(s)
<1>1. Len(s) \in Nat /\ DOMAIN s = 1 .. Len(s) /\ \A n \in 1 .. Len(s) : s[n] \in S
  BY SequenceFacts
<1>2. PICK u : u = [s EXCEPT ![c] = e]
  OBVIOUS
<1>3. /\ u \in Seq(S) /\ Len(u) = Len(s) /\ DOMAIN u = DOMAIN s
      /\ u[c] = e /\ \A k \in DOMAIN s \ {c} : u[k] = s[k]
  BY <1>1, <1>2
<1>4. t = Append(u, f)
  BY <1>2
<1>5. /\ t \in Seq(S) /\ Len(t) = Len(u) + 1 /\ t[Len(u) + 1] = f
      /\ \A k \in 1 .. Len(u) : t[k] = u[k]
  BY ONLY <1>3, <1>4, f \in S, AppendProperties
<1>6. DOMAIN t = 1 .. Len(s) + 1
  BY <1>3, <1>5, SequenceFacts
<1>7. 1 .. Len(s) + 1 = (1 .. Len(s)) \cup {Len(s) + 1} /\ Len(s) + 1 \notin 1 .. Len(s)
  BY <1>1
<1> QED
  BY <1>1, <1>3, <1>5, <1>6, <1>7

LEMMA InsertLeafsIs ==
  ASSUME NEW L \in Seq(Leaves), NEW B, NEW l \in DOMAIN L, NEW key \in Int,
         Len(L[l].buffer) < CAP_LEAF_BUFFER,
         NEW out, out = insert_leafs(Mem(L, B), l, EntryOf(key))
  PROVE  out.exited = "duplicate" \/ LeafPutIn(L, B, l, key, out)
<1>0. PICK i : i = Passed(KeysOf(L[l].buffer), key)
  OBVIOUS
<1>1. /\ EntryOf(key).key = key
      /\ CAP_LEAF_BUFFER \in Nat /\ Len(L[l].buffer) \in Nat /\ L[l] \in Leaves
      /\ L[l] = [buffer |-> L[l].buffer, next |-> L[l].next]
  <2>1. L[l] \in Leaves
    BY SequenceFacts
  <2>2. L[l].buffer \in Seq(Entries) /\ L[l] = [buffer |-> L[l].buffer, next |-> L[l].next]
    BY <2>1 DEF Leaves
  <2> QED
    BY <2>1, <2>2, EntryFacts, CapAssumption, SequenceFacts
<1>2. ~ (CAP_LEAF_BUFFER <= Len(L[l].buffer))
  BY <1>1
<1>3. out = IF \E n \in 1 .. i : L[l].buffer[n].key = key THEN Exit(Mem(L, B), "duplicate")
            ELSE [Mem(L, B) EXCEPT !.leafs[l].buffer = InsertAt(@, i + 1, EntryOf(key))]
  <2>1. PICK m, e : m = Mem(L, B) /\ e = EntryOf(key)
    OBVIOUS
  <2>2. m.leafs = L /\ e.key = key
    BY <1>1, <2>1, MemFacts
  <2>3. out = IF CAP_LEAF_BUFFER <= Len(m.leafs[l].buffer) THEN Exit(m, "leaf full")
              ELSE IF \E n \in 1 .. Passed(KeysOf(m.leafs[l].buffer), e.key) :
                        m.leafs[l].buffer[n].key = e.key
              THEN Exit(m, "duplicate")
              ELSE [m EXCEPT !.leafs[l].buffer =
                      InsertAt(@, Passed(KeysOf(m.leafs[l].buffer), e.key) + 1, e)]
    BY <2>1, Zenon DEF insert_leafs
  <2>4. out = IF \E n \in 1 .. i : L[l].buffer[n].key = key THEN Exit(m, "duplicate")
              ELSE [m EXCEPT !.leafs[l].buffer = InsertAt(@, i + 1, e)]
    BY ONLY <1>0, <1>2, <2>2, <2>3
  <2> QED
    BY ONLY <2>1, <2>4
<1>4. CASE \E n \in 1 .. i : L[l].buffer[n].key = key
  BY <1>3, <1>4, ExitFacts
<1>5. CASE \A n \in 1 .. i : L[l].buffer[n].key # key
  <2>1. out = [Mem(L, B) EXCEPT !.leafs[l].buffer = InsertAt(@, i + 1, EntryOf(key))]
    BY <1>3, <1>5
  <2>2. PICK b2 : b2 = InsertAt(L[l].buffer, i + 1, EntryOf(key))
    OBVIOUS
  <2>3. out = Mem([L EXCEPT ![l].buffer = b2], B)
    BY <2>1, <2>2 DEF Mem
  <2>4. [L EXCEPT ![l].buffer = b2] = [L EXCEPT ![l] = LeafWith(b2, L[l].next)]
    <3>1. PICK leaf, m, n : leaf = L[l] /\ m = leaf.buffer /\ n = leaf.next
      OBVIOUS
    <3>2. leaf = [buffer |-> m, next |-> n]
      BY ONLY <1>1, <3>1
    <3>3. [leaf EXCEPT !.buffer = b2] = [buffer |-> b2, next |-> n]
      BY ONLY <3>2
    <3>4. [L EXCEPT ![l].buffer = b2] = [L EXCEPT ![l] = [leaf EXCEPT !.buffer = b2]]
      BY ONLY <3>1, Zenon
    <3> QED
      BY ONLY <3>1, <3>3, <3>4 DEF LeafWith
  <2>5. PICK L2 : L2 = [L EXCEPT ![l] = LeafWith(b2, L[l].next)]
    OBVIOUS
  <2>6. IsPut(L, l, key, b2, L2)
    BY ONLY <1>0, <1>5, <2>2, <2>5 DEF IsPut
  <2>7. out = Mem(L2, B)
    BY ONLY <2>3, <2>4, <2>5
  <2> QED
    BY ONLY <2>6, <2>7 DEF LeafPutIn
<1> QED
  BY <1>4, <1>5

\* The pool after a split of leaf l before entry j + 1.
LeafHalved(L, l, j) ==
  Append([L EXCEPT ![l] = LeafWith(SubSeq(L[l].buffer, 1, j), Len(L) + 1)],
         LeafWith(SubSeq(L[l].buffer, j + 1, Len(L[l].buffer)), L[l].next))

LEMMA SplitLeafsIs ==
  ASSUME NEW L, NEW B, NEW l, NEW out, out = SplitLeafs(Mem(L, B), l)
  PROVE  out.exited = "leafs" \/ out = Mem(LeafHalved(L, l, CAP_LEAF_BUFFER \div 2), B)
<1>0. PICK j, buffer : j = CAP_LEAF_BUFFER \div 2 /\ buffer = L[l].buffer
  OBVIOUS
<1>1. CASE CAP_LEAFS < Len(L) + 1
  <2>1. out = Exit(Mem(L, B), "leafs")
    BY <1>1, MemFacts DEF SplitLeafs
  <2> QED
    BY <2>1, ExitFacts
<1>2. CASE ~ (CAP_LEAFS < Len(L) + 1)
  <2>1. out = [Mem(L, B) EXCEPT !.leafs = Append(
              [@ EXCEPT ![l] = [buffer |-> SubSeq(buffer, 1, j), next |-> Len(L) + 1]],
              [buffer |-> SubSeq(buffer, j + 1, Len(buffer)), next |-> L[l].next])]
    BY <1>0, <1>2, MemFacts DEF SplitLeafs
  <2>2. out = Mem(Append([L EXCEPT ![l] = LeafWith(SubSeq(buffer, 1, j), Len(L) + 1)],
                         LeafWith(SubSeq(buffer, j + 1, Len(buffer)), L[l].next)), B)
    BY <2>1 DEF Mem, LeafWith
  <2> QED
    BY ONLY <1>0, <2>2 DEF LeafHalved
<1> QED
  BY <1>1, <1>2

LEMMA LeafHalvedIs ==
  ASSUME NEW L \in Seq(Leaves), NEW l \in DOMAIN L, NEW j \in 1 .. Len(L[l].buffer) - 1,
         NEW L2, L2 = LeafHalved(L, l, j)
  PROVE  /\ L2 \in Seq(Leaves) /\ Len(L2) = Len(L) + 1
         /\ \E s, bl, br : IsLeafSplit(L, l, Len(L) + 1, j, s, bl, br, L2)
<1>1. PICK leaf, top, r : leaf = L[l] /\ top = Len(leaf.buffer) /\ r = Len(L) + 1
  OBVIOUS
<1>2. /\ leaf.buffer \in Seq(Entries) /\ leaf.next \in Nat /\ top \in Nat
      /\ j \in 1 .. top - 1 /\ r \in Nat
  <2>1. Len(L) \in Nat /\ leaf \in Leaves
    BY <1>1, SequenceFacts
  <2>2. leaf.buffer \in Seq(Entries) /\ leaf.next \in Nat
    BY ONLY <2>1 DEF Leaves
  <2>3. top \in Nat
    BY ONLY <1>1, <2>2, SequenceFacts
  <2> QED
    BY <1>1, <2>1, <2>2, <2>3
<1>3. PICK s, bl, br : /\ s = leaf.buffer[j + 1].key
                       /\ bl = SubSeq(leaf.buffer, 1, j) /\ br = SubSeq(leaf.buffer, j + 1, top)
  OBVIOUS
<1>4. bl \in Seq(Entries) /\ br \in Seq(Entries)
  <2>1. /\ 1 \in Nat /\ j \in Nat /\ 1 <= 1 /\ 1 <= j + 1 /\ j <= top
        /\ j + 1 \in Nat /\ top \in Nat /\ 1 <= j + 1 /\ j + 1 <= top + 1 /\ top <= top
    BY ONLY <1>2
  <2> QED
    BY ONLY <1>1, <1>2, <1>3, <2>1, PartIs
<1>5. PICK e, f : e = LeafWith(bl, r) /\ f = LeafWith(br, leaf.next)
  OBVIOUS
<1>6. e \in Leaves /\ f \in Leaves
  BY ONLY <1>2, <1>4, <1>5 DEF LeafWith, Leaves
<1>7. L2 = Append([L EXCEPT ![l] = e], f)
  BY <1>1, <1>3, <1>5 DEF LeafHalved
<1>8. /\ L2 \in Seq(Leaves) /\ Len(L2) = Len(L) + 1 /\ DOMAIN L2 = DOMAIN L \cup {Len(L) + 1}
      /\ L2[l] = e /\ L2[Len(L) + 1] = f
      /\ \A k \in DOMAIN L \ {l} : L2[k] = L[k]
      /\ Len(L) + 1 \notin DOMAIN L
  BY <1>6, <1>7, AppendIs
<1>9. IsLeafSplit(L, l, r, j, s, bl, br, L2)
  BY ONLY <1>1, <1>2, <1>3, <1>5, <1>8 DEF IsLeafSplit
<1> QED
  BY <1>1, <1>8, <1>9

\* The fields of a record that are replaced.
LEMMA BlockUpdated ==
  ASSUME NEW block \in Blocks, NEW nl, NEW cl
  PROVE  [block EXCEPT !.nodes = nl, !.children = cl]
           = [nodes |-> nl, children |-> cl, tag |-> block.tag]
<1>1. PICK no, ch, ta : no = block.nodes /\ ch = block.children /\ ta = block.tag
  OBVIOUS
<1>2. block = [nodes |-> no, children |-> ch, tag |-> ta]
  BY <1>1 DEF Blocks
<1>3. [[nodes |-> no, children |-> ch, tag |-> ta] EXCEPT !.nodes = nl]
        = [nodes |-> nl, children |-> ch, tag |-> ta]
  OBVIOUS
<1>4. [[nodes |-> nl, children |-> ch, tag |-> ta] EXCEPT !.children = cl]
        = [nodes |-> nl, children |-> cl, tag |-> ta]
  OBVIOUS
<1>5. [[block EXCEPT !.nodes = nl] EXCEPT !.children = cl] = [nodes |-> nl, children |-> cl, tag |-> ta]
  BY ONLY <1>2, <1>3, <1>4
<1>6. [block EXCEPT !.nodes = nl, !.children = cl]
        = [[block EXCEPT !.nodes = nl] EXCEPT !.children = cl]
  BY ONLY Zenon
<1> QED
  BY ONLY <1>1, <1>5, <1>6

\* The pool after a split of block b at separator j.
BlockHalved(B, b, j) == Append([B EXCEPT ![b] = LeftOf(B[b], j)], RightOf(B[b], j))

LEMMA SplitBlockIs ==
  ASSUME NEW L, NEW B, NEW b, NEW j, j = CAP_NODES \div 2 + 1, CAP_NODES \div 2 \in Int,
         B[b] \in Blocks, Len(B[b].nodes) = CAP_NODES, CAP_NODES \in Nat,
         NEW out, out = SplitBlock(Mem(L, B), b), b \in DOMAIN B
  PROVE  /\ out.exited = "blocks" \/ out = Mem(L, BlockHalved(B, b, j))
         /\ SplitKey(B[b]) = B[b].nodes[j]
<1>0. PICK half, block : half = CAP_NODES \div 2 /\ block = B[b]
  OBVIOUS
<1>00. half \in Int /\ j = half + 1
  BY <1>0
<1>1. j - 1 = half /\ half + 1 = j /\ half + 2 = j + 1
  BY ONLY <1>00
<1>2. CASE CAP_BLOCKS <= Len(B)
  <2>1. out = Exit(Mem(L, B), "blocks")
    BY <1>2, MemFacts DEF SplitBlock
  <2> QED
    BY <1>0, <1>1, <2>1, ExitFacts DEF SplitKey
<1>3. CASE ~ (CAP_BLOCKS <= Len(B))
  <2>1. out = [Mem(L, B) EXCEPT !.blocks = Append(
              [B EXCEPT ![b] = [block EXCEPT !.nodes = SubSeq(block.nodes, 1, half),
                                             !.children = SubSeq(block.children, 1, half + 1)]],
              [nodes |-> SubSeq(block.nodes, half + 2, CAP_NODES),
               children |-> SubSeq(block.children, half + 2, CAP_NODES + 1),
               tag |-> block.tag])]
    <3>1. PICK m, X, nr, cr :
            /\ m = Mem(L, B)
            /\ X = [block EXCEPT !.nodes = SubSeq(block.nodes, 1, half),
                                 !.children = SubSeq(block.children, 1, half + 1)]
            /\ nr = SubSeq(block.nodes, half + 2, CAP_NODES)
            /\ cr = SubSeq(block.children, half + 2, CAP_NODES + 1)
      OBVIOUS
    <3>2. m.blocks = B /\ m.blocks[b] = block
      BY <1>0, <3>1, MemFacts
    <3>3. SplitBlock(m, b) = IF CAP_BLOCKS <= Len(m.blocks) THEN Exit(m, "blocks")
            ELSE [m EXCEPT !.blocks = Append(
                    [@ EXCEPT ![b] = [m.blocks[b] EXCEPT
                        !.nodes = SubSeq(m.blocks[b].nodes, 1, CAP_NODES \div 2),
                        !.children = SubSeq(m.blocks[b].children, 1, CAP_NODES \div 2 + 1)]],
                    [nodes |-> SubSeq(m.blocks[b].nodes, CAP_NODES \div 2 + 2, CAP_NODES),
                     children |-> SubSeq(m.blocks[b].children, CAP_NODES \div 2 + 2, CAP_NODES + 1),
                     tag |-> m.blocks[b].tag])]
      BY DEF SplitBlock
    <3>4. SplitBlock(m, b) = [m EXCEPT !.blocks = Append([@ EXCEPT ![b] = X],
                                 [nodes |-> nr, children |-> cr, tag |-> block.tag])]
      BY ONLY <1>0, <1>3, <3>1, <3>2, <3>3
    <3>5. \A f, g : [Mem(L, B) EXCEPT !.blocks = Append([@ EXCEPT ![b] = f], g)]
                     = [Mem(L, B) EXCEPT !.blocks = Append([B EXCEPT ![b] = f], g)]
      BY ONLY DEF Mem
    <3>6. PICK g : g = [nodes |-> nr, children |-> cr, tag |-> block.tag]
      OBVIOUS
    <3>7. SplitBlock(m, b) = [m EXCEPT !.blocks = Append([@ EXCEPT ![b] = X], g)]
      BY ONLY <3>4, <3>6
    <3>8. out = [Mem(L, B) EXCEPT !.blocks = Append([@ EXCEPT ![b] = X], g)]
      BY <3>1, <3>7
    <3>9. out = [Mem(L, B) EXCEPT !.blocks = Append([B EXCEPT ![b] = X], g)]
      BY ONLY <3>5, <3>8
    <3> QED
      BY ONLY <3>1, <3>6, <3>9
  <2>2. PICK nl, cl, nr, cr :
          /\ nl = SubSeq(block.nodes, 1, half) /\ cl = SubSeq(block.children, 1, half + 1)
          /\ nr = SubSeq(block.nodes, half + 2, CAP_NODES)
          /\ cr = SubSeq(block.children, half + 2, CAP_NODES + 1)
    OBVIOUS
  <2>4. [block EXCEPT !.nodes = nl, !.children = cl] = [nodes |-> nl, children |-> cl, tag |-> block.tag]
    BY <1>0, BlockUpdated
  <2>5. out = [Mem(L, B) EXCEPT !.blocks =
                 Append([B EXCEPT ![b] = [nodes |-> nl, children |-> cl, tag |-> block.tag]],
                        [nodes |-> nr, children |-> cr, tag |-> block.tag])]
    BY ONLY <2>1, <2>2, <2>4
  <2>6. /\ LeftOf(block, j) = [nodes |-> nl, children |-> cl, tag |-> block.tag]
        /\ RightOf(block, j) = [nodes |-> nr, children |-> cr, tag |-> block.tag]
    BY <1>0, <1>1, <2>2 DEF LeftOf, RightOf
  <2>7. out = [Mem(L, B) EXCEPT !.blocks = Append([B EXCEPT ![b] = LeftOf(block, j)], RightOf(block, j))]
    BY ONLY <2>5, <2>6
  <2>8. \A X : [Mem(L, B) EXCEPT !.blocks = X] = Mem(L, X)
    BY ONLY DEF Mem
  <2>9. out = Mem(L, Append([B EXCEPT ![b] = LeftOf(block, j)], RightOf(block, j)))
    BY ONLY <2>7, <2>8
  <2> QED
    BY <1>0, <1>1, <2>9 DEF SplitKey, BlockHalved
<1> QED
  BY <1>2, <1>3

WidenedAt(B, b, i, key, child) == [B EXCEPT ![b] = Widened(B[b], i, key, child)]

LEMMA WithChildIs ==
  ASSUME NEW L, NEW B, NEW b, b \in DOMAIN B, B[b] \in Blocks, NEW i, NEW key, NEW child
  PROVE  WithChild(Mem(L, B), b, i, key, child) = Mem(L, WidenedAt(B, b, i, key, child))
<1>1. PICK block : block = B[b]
  OBVIOUS
<1>3. PICK n2, c2 : n2 = InsertAt(block.nodes, i + 1, key) /\ c2 = InsertAt(block.children, i + 2, child)
  OBVIOUS
<1>4. WithChild(Mem(L, B), b, i, key, child)
        = Mem(L, [B EXCEPT ![b] = [block EXCEPT !.nodes = n2, !.children = c2]])
  <2>1. PICK m : m = Mem(L, B)
    OBVIOUS
  <2>2. m.blocks = B /\ m.blocks[b] = block
    BY <1>1, <2>1, MemFacts
  <2>3. WithChild(m, b, i, key, child)
          = [m EXCEPT !.blocks[b] =
               [m.blocks[b] EXCEPT !.nodes = InsertAt(m.blocks[b].nodes, i + 1, key),
                                   !.children = InsertAt(m.blocks[b].children, i + 2, child)]]
    BY DEF WithChild
  <2>4. WithChild(m, b, i, key, child)
          = [m EXCEPT !.blocks[b] = [block EXCEPT !.nodes = n2, !.children = c2]]
    BY ONLY <1>3, <2>2, <2>3
  <2>5. \A e : [Mem(L, B) EXCEPT !.blocks[b] = e] = Mem(L, [B EXCEPT ![b] = e])
    BY ONLY DEF Mem
  <2> QED
    BY ONLY <2>1, <2>4, <2>5
<1>5. [block EXCEPT !.nodes = n2, !.children = c2] = [nodes |-> n2, children |-> c2, tag |-> block.tag]
  BY <1>1, BlockUpdated
<1>6. Widened(block, i, key, child) = [nodes |-> n2, children |-> c2, tag |-> block.tag]
  BY <1>3 DEF Widened
<1>7. WithChild(Mem(L, B), b, i, key, child) = Mem(L, [B EXCEPT ![b] = Widened(B[b], i, key, child)])
  BY ONLY <1>1, <1>4, <1>5, <1>6
<1> QED
  BY ONLY <1>7 DEF WidenedAt

LEMMA WidenedFacts ==
  ASSUME NEW block \in Blocks, NEW i \in 0 .. Len(block.nodes), NEW s \in Int, NEW r
  PROVE  /\ Len(Widened(block, i, s, r).nodes) = Len(block.nodes) + 1
         /\ Widened(block, i, s, r).tag = block.tag
         /\ Len(block.nodes) \in Nat
<1>1. PICK T, nodes, a : T = Int /\ nodes = block.nodes /\ a = i + 1
  OBVIOUS
<1>2. nodes \in Seq(T) /\ s \in T /\ Len(nodes) \in Nat /\ i \in 0 .. Len(nodes)
  BY <1>1 DEF Blocks
<1>3. a \in 1 .. Len(nodes) + 1
  BY <1>1, <1>2
<1>4. Len(InsertAt(nodes, a, s)) = Len(nodes) + 1
  BY ONLY <1>2, <1>3, InsertAtIs
<1>5. Widened(block, i, s, r).nodes = InsertAt(nodes, a, s)
  BY <1>1 DEF Widened
<1> QED
  BY <1>1, <1>2, <1>4, <1>5 DEF Widened

LEMMA HalvesFacts ==
  ASSUME NEW block \in Blocks, NEW j \in 1 .. Len(block.nodes)
  PROVE  /\ Len(LeftOf(block, j).nodes) = j - 1
         /\ Len(RightOf(block, j).nodes) = Len(block.nodes) - j
         /\ Len(block.nodes) \in Nat
<1>1. PICK T, nodes, top : T = Int /\ nodes = block.nodes /\ top = Len(nodes)
  OBVIOUS
<1>2. nodes \in Seq(T) /\ Len(nodes) \in Nat /\ j \in 1 .. top /\ top = Len(nodes)
  BY <1>1 DEF Blocks
<1>3. /\ 1 \in Nat /\ j - 1 \in Nat /\ 1 <= 1 /\ 1 <= (j - 1) + 1 /\ j - 1 <= Len(nodes)
      /\ j + 1 \in Nat /\ top \in Nat /\ 1 <= j + 1 /\ j + 1 <= top + 1 /\ top <= Len(nodes)
  BY ONLY <1>2
<1>4. Len(SubSeq(nodes, 1, j - 1)) = (j - 1) - 1 + 1
  BY ONLY <1>2, <1>3, PartIs
<1>5. Len(SubSeq(nodes, j + 1, top)) = top - (j + 1) + 1
  BY ONLY <1>2, <1>3, PartIs
<1>6. (j - 1) - 1 + 1 = j - 1 /\ top - (j + 1) + 1 = top - j
  BY ONLY <1>2
<1> QED
  BY <1>1, <1>2, <1>4, <1>5, <1>6 DEF LeftOf, RightOf

-----------------------------------------------------------------------------
(* What an insertion below a block does.                                   *)

LeavesFit(L) == \A l \in DOMAIN L : Len(L[l].buffer) < CAP_LEAF_BUFFER
LeavesUsed(L) == \A l \in DOMAIN L : L[l].buffer # <<>>

\* Only the blocks in over may be full, for now.
BlocksFit(B, root, over) ==
  \A d \in DOMAIN B :
    /\ Len(B[d].nodes) <= CAP_NODES
    /\ Len(B[d].nodes) = CAP_NODES => d \in over
    /\ B[d].nodes = <<>> => d = root /\ B[d].tag = "leafs"

\* The pools before and after the key was put below block b.
Done(L, B, root, h, lo, hi, key, b, L2, B2) ==
  /\ L2 \in Seq(Leaves) /\ B2 \in Seq(Blocks) /\ Len(B) <= Len(B2)
  /\ Contents(L2) = Contents(L) \cup {key} /\ key \notin Contents(L)
  /\ LeavesFit(L2) /\ LeavesUsed(L2) /\ BlocksFit(B2, root, {b})
  /\ \A d \in DOMAIN B : h[Blk(b)] <= h[Blk(d)] /\ d # b => B2[d] = B[d]
  /\ \E hh, ll, uu : /\ Shape(L2, B2, hh, ll, uu)
                     /\ Keeps(Nodes(L, B), h, lo, hi, Nodes(L2, B2), hh, ll, uu, h[Blk(b)])

Good(L, B, root, h, lo, hi, key, b, out) ==
  \/ out.exited \in {"duplicate", "leafs", "blocks"}
  \/ \E L2, B2 : out = Mem(L2, B2) /\ Done(L, B, root, h, lo, hi, key, b, L2, B2)

Start(L, B, root, h, lo, hi) ==
  /\ L \in Seq(Leaves) /\ B \in Seq(Blocks)
  /\ Shape(L, B, h, lo, hi)
  /\ LeavesFit(L) /\ (LeavesUsed(L) \/ L = <<NewLeafs>>) /\ BlocksFit(B, root, {})

LEMMA AboveLeafsGood ==
  ASSUME NEW L, NEW B, NEW root, NEW h, NEW lo, NEW hi, Start(L, B, root, h, lo, hi),
         NEW b \in DOMAIN B, B[b].tag = "leafs",
         NEW key \in Int, lo[Blk(b)] <= key, key < hi[Blk(b)],
         NEW out, out = AboveLeafs(Mem(L, B), b, EntryOf(key))
  PROVE  Good(L, B, root, h, lo, hi, key, b, out)
<1>1. /\ L \in Seq(Leaves) /\ B \in Seq(Blocks) /\ Shape(L, B, h, lo, hi)
      /\ LeavesFit(L) /\ (LeavesUsed(L) \/ L = <<NewLeafs>>) /\ BlocksFit(B, root, {})
      /\ B[b] \in Blocks /\ Len(B) \in Nat /\ DOMAIN B = 1 .. Len(B)
      /\ Len(L) \in Nat /\ DOMAIN L = 1 .. Len(L) /\ \A l \in DOMAIN L : L[l] \in Leaves
  <2>1. /\ L \in Seq(Leaves) /\ B \in Seq(Blocks) /\ Shape(L, B, h, lo, hi)
        /\ LeavesFit(L) /\ (LeavesUsed(L) \/ L = <<NewLeafs>>) /\ BlocksFit(B, root, {})
    BY DEF Start
  <2>2. Len(B) \in Nat /\ DOMAIN B = 1 .. Len(B) /\ \A d \in 1 .. Len(B) : B[d] \in Blocks
    BY <2>1, SequenceFacts
  <2>3. Len(L) \in Nat /\ DOMAIN L = 1 .. Len(L) /\ \A l \in 1 .. Len(L) : L[l] \in Leaves
    BY <2>1, SequenceFacts
  <2> QED
    BY <2>1, <2>2, <2>3
<1>2. PICK i, c : i = Passed(B[b].nodes, key) /\ c = B[b].children[i + 1]
  OBVIOUS
<1>3. PICK N, x, p : N = Nodes(L, B) /\ x = Lf(c) /\ p = Blk(b)
  OBVIOUS
<1>4. Ordered(N, h, lo, hi) /\ p \in N /\ IsBlock(B[b], N, h, lo, hi, p)
  BY <1>1, <1>3, NodeFacts DEF Shape
<1>5. /\ i \in 0 .. Len(B[b].nodes) /\ i + 1 \in 1 .. Len(B[b].children)
      /\ lo[Kid(B[b], i + 1)] <= key /\ key < hi[Kid(B[b], i + 1)]
      /\ h[Kid(B[b], i + 1)] \in Nat /\ h[Kid(B[b], i + 1)] + 1 = h[p]
  BY <1>2, <1>3, <1>4, KidForKey
<1>6. c \in DOMAIN L /\ Kid(B[b], i + 1) = x
  BY <1>1, <1>2, <1>3, <1>5, TagFacts
<1>7. lo[x] <= key /\ key < hi[x] /\ h[x] < h[p] /\ h[p] \in Nat
  BY <1>4, <1>5, <1>6 DEF Ordered
<1>8. PICK put, split :
        /\ put = insert_leafs(Mem(L, B), c, EntryOf(key)) /\ split = SplitLeafs(put, c)
  OBVIOUS
<1>9. out = IF put.exited # "none" \/ ~Full(put.leafs[c].buffer, CAP_LEAF_BUFFER) THEN put
            ELSE IF split.exited # "none" THEN split
            ELSE WithChild(split, b, i, Last(split.leafs).buffer[1].key, Len(split.leafs))
  <2>1. PICK m, e : m = Mem(L, B) /\ e = EntryOf(key)
    OBVIOUS
  <2>2. m.blocks = B /\ e.key = key
    BY <2>1, MemFacts, EntryFacts
  <2>3. i = Passed(m.blocks[b].nodes, e.key) /\ c = m.blocks[b].children[i + 1]
    BY ONLY <1>2, <2>2
  <2>4. put = insert_leafs(m, m.blocks[b].children[Passed(m.blocks[b].nodes, e.key) + 1], e)
    BY ONLY <1>8, <2>1, <2>3
  <2>5. out = AboveLeafs(m, b, e)
    BY <2>1
  <2> QED
    BY ONLY <1>8, <2>3, <2>4, <2>5 DEF AboveLeafs
<1>10. CASE put.exited = "duplicate"
  <2>1. out = put
    BY <1>9, <1>10
  <2> QED
    BY <1>10, <2>1 DEF Good
<1>11. CASE LeafPutIn(L, B, c, key, put)
  <2>0. PICK b2, L2 : IsPut(L, c, key, b2, L2) /\ put = Mem(L2, B)
    BY <1>11 DEF LeafPutIn
  <2>2. /\ Shape(L2, B, h, lo, hi)
        /\ Contents(L2) = Contents(L) \cup {key} /\ key \notin Contents(L)
        /\ b2 \in Seq(Entries) /\ Len(b2) = Len(L[c].buffer) + 1
        /\ DOMAIN L2 = DOMAIN L /\ L2[c] = LeafWith(b2, L[c].next)
        /\ L2[c].buffer = b2 /\ L2[c].next = L[c].next
        /\ \A l \in DOMAIN L \ {c} : L2[l] = L[l]
        /\ Nodes(L2, B) = Nodes(L, B)
        /\ L2 = [L EXCEPT ![c] = LeafWith(b2, L[c].next)]
    <3>1. Shape(L, B, h, lo, hi) /\ lo[Lf(c)] <= key /\ key < hi[Lf(c)]
      BY <1>1, <1>3, <1>7
    <3>2. L2 = [L EXCEPT ![c] = LeafWith(b2, L[c].next)]
      BY <2>0 DEF IsPut
    <3>3. c \in DOMAIN L /\ key \in Int
      BY <1>6
    <3>4. /\ Shape(L2, B, h, lo, hi)
          /\ Contents(L2) = Contents(L) \cup {key} /\ key \notin Contents(L)
          /\ b2 \in Seq(Entries) /\ Len(b2) = Len(L[c].buffer) + 1
          /\ DOMAIN L2 = DOMAIN L /\ L2[c] = LeafWith(b2, L[c].next)
          /\ L2[c].buffer = b2 /\ L2[c].next = L[c].next
          /\ \A l \in DOMAIN L \ {c} : L2[l] = L[l]
          /\ Nodes(L2, B) = Nodes(L, B)
      BY ONLY <2>0, <3>1, <3>3, ShapePut
    <3> QED
      BY ONLY <3>2, <3>4, Zenon
  <2>3. L2[c] \in Leaves
    <3>1. L[c].next \in Nat
      BY <1>1, <1>6 DEF Leaves
    <3> QED
      BY <2>2, <3>1 DEF LeafWith, Leaves
  <2>4. L2 \in Seq(Leaves) /\ Len(L2) = Len(L)
    BY <1>1, <1>6, <2>2, <2>3
  <2>5. b2 # <<>> /\ Len(b2) \in Nat /\ Len(b2) <= CAP_LEAF_BUFFER
    <3>1. Len(L[c].buffer) < CAP_LEAF_BUFFER /\ Len(L[c].buffer) \in Nat
      BY <1>1, <1>6 DEF LeavesFit, Leaves
    <3> QED
      BY <2>2, <3>1, CapAssumption
  <2>6. LeavesUsed(L2)
    <3>1. CASE LeavesUsed(L)
      BY <2>2, <2>5, <3>1 DEF LeavesUsed
    <3>2. CASE L = <<NewLeafs>>
      <4>1. DOMAIN L = {1}
        BY <3>2
      <4> QED
        BY <1>6, <2>2, <2>5, <4>1 DEF LeavesUsed
    <3> QED
      BY <1>1, <3>1, <3>2
  <2>7. BlocksFit(B, root, {b})
    BY <1>1 DEF BlocksFit
  <2>8. Nodes(L2, B) = N
    BY <1>3, <2>2
  <2>9. put.exited = "none" /\ put.leafs = L2 /\ put.leafs[c].buffer = b2
    BY ONLY <2>0, <2>2, MemFacts
  <2>10. CASE ~Full(b2, CAP_LEAF_BUFFER)
    <3>1. out = Mem(L2, B)
      BY <1>9, <2>0, <2>9, <2>10
    <3>2. LeavesFit(L2)
      <4>1. Len(b2) < CAP_LEAF_BUFFER
        BY <2>5, <2>10, CapAssumption DEF Full
      <4> QED
        BY <1>1, <2>2, <4>1 DEF LeavesFit
    <3>3. Keeps(Nodes(L, B), h, lo, hi, Nodes(L2, B), h, lo, hi, h[Blk(b)])
      BY <1>3, <2>8, KeepsSame
    <3>30. Len(B) <= Len(B)
      BY <1>1
    <3>4. Done(L, B, root, h, lo, hi, key, b, L2, B)
      BY ONLY <3>30, <1>1, <2>2, <2>4, <2>6, <2>7, <3>2, <3>3 DEF Done
    <3> QED
      BY <3>1, <3>4 DEF Good
  <2>11. CASE Full(b2, CAP_LEAF_BUFFER)
    <3>1. Len(b2) = CAP_LEAF_BUFFER
      BY <2>5, <2>11, CapAssumption DEF Full
    <3>2. PICK j, r : j = CAP_LEAF_BUFFER \div 2 /\ r = Len(L2) + 1
      OBVIOUS
    <3>3. j \in 1 .. CAP_LEAF_BUFFER - 1 /\ j < CAP_LEAF_BUFFER /\ CAP_LEAF_BUFFER - j < CAP_LEAF_BUFFER
          /\ 0 < j /\ 0 < CAP_LEAF_BUFFER - j
      BY <3>2, CapAssumption
    <3>4. PICK L3 : L3 = LeafHalved(L2, c, j)
      OBVIOUS
    <3>5. split.exited = "leafs" \/ split = Mem(L3, B)
      <4>1. split = SplitLeafs(Mem(L2, B), c)
        BY <1>8, <2>0
      <4> QED
        BY ONLY <3>2, <3>4, <4>1, SplitLeafsIs
    <3>6. CASE split.exited = "leafs"
      <4>1. out = split
        BY <1>9, <2>9, <2>11, <3>6
      <4> QED
        BY <3>6, <4>1 DEF Good
    <3>7. CASE split = Mem(L3, B)
      <4>1. /\ L2 \in Seq(Leaves) /\ c \in DOMAIN L2 /\ j \in 1 .. Len(L2[c].buffer) - 1
            /\ L2[c].buffer = b2
        BY <1>6, <2>2, <2>4, <3>1, <3>3
      <4>2. /\ L3 \in Seq(Leaves) /\ Len(L3) = r
            /\ \E s, bl, br : IsLeafSplit(L2, c, r, j, s, bl, br, L3)
        BY ONLY <3>2, <3>4, <4>1, LeafHalvedIs
      <4>3. PICK s, bl, br : IsLeafSplit(L2, c, r, j, s, bl, br, L3)
        BY <4>2
      <4>5. PICK B3 : B3 = WidenedAt(B, b, i, s, r)
        OBVIOUS
      <4>6. IsWidened(B, b, i, s, r, B3) /\ B3[b] = Widened(B[b], i, s, r)
        BY <4>5 DEF IsWidened, WidenedAt
      <4>7. /\ Split(L2, B, h, lo, hi, Lf(c), Lf(r), s, L3, B3)
            /\ Contents(L3) = Contents(L2)
            /\ AreHalves(L2[c], j, s, bl, br)
        <5>1. b \in DOMAIN B /\ B[b].tag = "leafs" /\ Shape(L2, B, h, lo, hi)
          BY <2>2
        <5>2. IsKidAt(B[b], i, c)
          BY ONLY <1>2, <1>5 DEF IsKidAt
        <5> QED
          BY ONLY <4>3, <4>6, <5>1, <5>2, ShapeLeafSplit
      <4>8. /\ Len(bl) = j /\ Len(br) = CAP_LEAF_BUFFER - j /\ br[1].key = s
        BY ONLY <3>1, <4>1, <4>7 DEF AreHalves
      <4>81. /\ DOMAIN L3 = DOMAIN L2 \cup {r} /\ L3[c].buffer = bl /\ L3[r].buffer = br
             /\ \A l \in DOMAIN L2 \ {c} : L3[l] = L2[l]
        BY ONLY <4>3 DEF IsLeafSplit, LeafWith
      <4>9. out = Mem(L3, B3)
        <5>1. split.exited = "none" /\ split.leafs = L3
          BY <3>7, MemFacts
        <5>2. out = WithChild(split, b, i, Last(split.leafs).buffer[1].key, Len(split.leafs))
          BY <1>9, <2>9, <2>11, <5>1
        <5>3. Last(split.leafs).buffer[1].key = s /\ Len(split.leafs) = r
          BY ONLY <4>2, <4>8, <4>81, <5>1 DEF Last
        <5>4. out = WithChild(Mem(L3, B), b, i, s, r)
          BY ONLY <3>7, <5>2, <5>3
        <5>5. b \in DOMAIN B /\ B[b] \in Blocks
          BY <1>1
        <5> QED
          BY ONLY <4>5, <5>4, <5>5, WithChildIs
      <4>10. PICK hh, ll, uu : /\ Shape(L3, B3, hh, ll, uu)
                               /\ IsSplit(N, h, lo, hi, x, Lf(r), s, Nodes(L3, B3), hh, ll, uu)
        BY <1>3, <2>8, <4>7 DEF Split
      <4>11. Keeps(Nodes(L, B), h, lo, hi, Nodes(L3, B3), hh, ll, uu, h[Blk(b)])
        BY <1>3, <1>4, <1>7, <4>10, SplitKeeps
      <4>12. s \in Int
        BY <4>10 DEF IsSplit
      <4>13. LeavesFit(L3) /\ LeavesUsed(L3)
        <5>1. /\ L3[c].buffer = bl /\ L3[r].buffer = br
              /\ Len(bl) < CAP_LEAF_BUFFER /\ Len(br) < CAP_LEAF_BUFFER
              /\ bl # <<>> /\ br # <<>>
          BY <3>3, <4>8, <4>81
        <5>2. \A l \in DOMAIN L3 \ {c, r} : L3[l] = L[l] /\ l \in DOMAIN L
          BY <2>2, <4>81
        <5>3. \A l \in DOMAIN L3 \ {c, r} : L3[l].buffer # <<>>
          BY <2>6, <4>81 DEF LeavesUsed
        <5> QED
          BY <1>1, <5>1, <5>2, <5>3 DEF LeavesFit, LeavesUsed
      <4>14. /\ Len(B3[b].nodes) = Len(B[b].nodes) + 1 /\ B3[b].tag = B[b].tag
             /\ Len(B[b].nodes) \in Nat
        BY <1>1, <1>5, <4>6, <4>12, WidenedFacts
      <4>15. BlocksFit(B3, root, {b})
        <5>1. Len(B[b].nodes) < CAP_NODES
          BY <1>1, <4>14, CapAssumption DEF BlocksFit
        <5>2. Len(B3[b].nodes) <= CAP_NODES /\ B3[b].nodes # <<>>
          BY <4>14, <5>1, CapAssumption
        <5> QED
          BY <1>1, <4>6, <5>2 DEF BlocksFit, IsWidened
      <4>16. B3 \in Seq(Blocks) /\ Len(B3) = Len(B)
        <5>1. B3[b] \in Blocks
          BY <4>6, <4>10 DEF Shape, IsBlock, IsWidened
        <5> QED
          BY <1>1, <4>5, <4>6, <5>1 DEF WidenedAt
      <4>17. \A d \in DOMAIN B : h[Blk(b)] <= h[Blk(d)] /\ d # b => B3[d] = B[d]
        BY <4>6 DEF IsWidened
      <4>18. Contents(L3) = Contents(L) \cup {key} /\ key \notin Contents(L)
        BY <2>2, <4>7
      <4>19. Done(L, B, root, h, lo, hi, key, b, L3, B3)
        <5>1. Len(B) <= Len(B3)
          BY <1>1, <4>16
        <5> QED
          BY <4>2, <4>10, <4>11, <4>13, <4>15, <4>16, <4>17, <4>18, <5>1 DEF Done
      <4> QED
        BY <4>9, <4>19 DEF Good
    <3> QED
      BY <3>5, <3>6, <3>7
  <2> QED
    BY <2>10, <2>11
<1> QED
  <2>1. Len(L[c].buffer) < CAP_LEAF_BUFFER
    BY <1>1, <1>6 DEF LeavesFit
  <2>2. L \in Seq(Leaves) /\ c \in DOMAIN L /\ key \in Int
    BY <1>1, <1>6
  <2>3. put.exited = "duplicate" \/ LeafPutIn(L, B, c, key, put)
    BY ONLY <1>8, <2>1, <2>2, InsertLeafsIs
  <2> QED
    BY <1>10, <1>11, <2>3

IsHalved(B, c, j, B2) ==
  /\ B2 \in Seq(Blocks) /\ Len(B2) = Len(B) + 1
  /\ DOMAIN B2 = DOMAIN B \cup {Len(B) + 1} /\ Len(B) + 1 \notin DOMAIN B
  /\ B2[c] = LeftOf(B[c], j) /\ B2[Len(B) + 1] = RightOf(B[c], j)
  /\ \A d \in DOMAIN B \ {c} : B2[d] = B[d]

LEMMA BlockHalvedIs ==
  ASSUME NEW B \in Seq(Blocks), NEW c \in DOMAIN B, NEW j \in 1 .. Len(B[c].nodes),
         Len(B[c].children) = Len(B[c].nodes) + 1
  PROVE  IsHalved(B, c, j, BlockHalved(B, c, j))
<1>1. PICK block, top, nodes, children, tag :
        /\ block = B[c] /\ top = Len(block.nodes)
        /\ nodes = block.nodes /\ children = block.children /\ tag = block.tag
  OBVIOUS
<1>2. block \in Blocks
  BY <1>1, SequenceFacts
<1>3. PICK S, T : S = Int /\ T = Nat
  OBVIOUS
<1>4. nodes \in Seq(S) /\ children \in Seq(T) /\ tag \in {"leafs", "block"}
  BY ONLY <1>1, <1>2, <1>3 DEF Blocks
<1>5. top = Len(nodes) /\ Len(children) = top + 1 /\ j \in 1 .. top /\ top \in Nat
  BY <1>1, <1>4, SequenceFacts
<1>6. /\ 1 \in Nat /\ j - 1 \in Nat /\ 1 <= 1 /\ 1 <= (j - 1) + 1 /\ j - 1 <= top
      /\ j + 1 \in Nat /\ 1 <= j + 1 /\ j + 1 <= top + 1 /\ top <= top
      /\ j \in Nat /\ 1 <= j + 1 /\ j <= top + 1
      /\ top + 1 \in Nat /\ j + 1 <= (top + 1) + 1 /\ top + 1 <= top + 1
  BY ONLY <1>5
<1>7. SubSeq(nodes, 1, j - 1) \in Seq(S) /\ SubSeq(nodes, j + 1, top) \in Seq(S)
  BY ONLY <1>4, <1>5, <1>6, PartIs
<1>8. SubSeq(children, 1, j) \in Seq(T) /\ SubSeq(children, j + 1, top + 1) \in Seq(T)
  BY ONLY <1>4, <1>5, <1>6, PartIs
<1>9. LeftOf(block, j) \in Blocks /\ RightOf(block, j) \in Blocks
  <2>1. PICK a, b, f, g : /\ a = SubSeq(nodes, 1, j - 1) /\ b = SubSeq(nodes, j + 1, top)
                          /\ f = SubSeq(children, 1, j) /\ g = SubSeq(children, j + 1, top + 1)
    OBVIOUS
  <2>2. /\ LeftOf(block, j) = [nodes |-> a, children |-> f, tag |-> tag]
        /\ RightOf(block, j) = [nodes |-> b, children |-> g, tag |-> tag]
    BY ONLY <1>1, <2>1 DEF LeftOf, RightOf
  <2>3. a \in Seq(Int) /\ b \in Seq(Int) /\ f \in Seq(Nat) /\ g \in Seq(Nat)
    BY ONLY <1>3, <1>7, <1>8, <2>1
  <2> QED
    BY ONLY <1>4, <2>2, <2>3 DEF Blocks
<1>10. PICK e, f, t : e = LeftOf(block, j) /\ f = RightOf(block, j) /\ t = BlockHalved(B, c, j)
  OBVIOUS
<1>11. t = Append([B EXCEPT ![c] = e], f) /\ e \in Blocks /\ f \in Blocks
  BY ONLY <1>1, <1>9, <1>10 DEF BlockHalved
<1>12. /\ t \in Seq(Blocks) /\ Len(t) = Len(B) + 1 /\ DOMAIN t = DOMAIN B \cup {Len(B) + 1}
       /\ t[c] = e /\ t[Len(B) + 1] = f
       /\ \A k \in DOMAIN B \ {c} : t[k] = B[k]
       /\ Len(B) + 1 \notin DOMAIN B
  BY ONLY B \in Seq(Blocks), c \in DOMAIN B, <1>11, AppendIs
<1> QED
  BY ONLY <1>1, <1>10, <1>12 DEF IsHalved

\* Where a full block is split.
LEMMA SplitPoint ==
  ASSUME NEW j, j = CAP_NODES \div 2 + 1
  PROVE  /\ CAP_NODES \div 2 \in Int /\ CAP_NODES \in Nat /\ j \in 1 .. CAP_NODES
         /\ 0 < j - 1 /\ j - 1 < CAP_NODES /\ 0 < CAP_NODES - j /\ CAP_NODES - j < CAP_NODES
BY CapAssumption

\* A key between the separators around a child is for that child.
LEMMA PassedAt ==
  ASSUME NEW N, NEW h, NEW lo, NEW hi, Ordered(N, h, lo, hi),
         NEW block, NEW p \in N, IsBlock(block, N, h, lo, hi, p),
         NEW i, NEW c, IsKidAt(block, i, c), NEW x, x = Kid(block, i + 1),
         NEW s \in Int, lo[x] < s, s < hi[x]
  PROVE  Passed(block.nodes, s) = i
<1>1. i \in 0 .. Len(block.nodes)
  BY DEF IsKidAt
<1>2. /\ block.nodes \in Seq(Int) /\ Len(block.nodes) \in Nat
      /\ Len(block.children) = Len(block.nodes) + 1
      /\ \A n \in 1 .. Len(block.nodes) : block.nodes[n] \in Int
  BY BlockFacts
<1>3. i + 1 \in 1 .. Len(block.children)
  BY ONLY <1>1, <1>2
<1>4. /\ lo[x] \in Int /\ hi[x] \in Int
      /\ lo[x] = IF i + 1 = 1 THEN lo[p] ELSE block.nodes[(i + 1) - 1]
      /\ hi[x] = IF i + 1 = Len(block.nodes) + 1 THEN hi[p] ELSE block.nodes[i + 1]
  BY <1>3, KidFacts
<1>5. Ascending(block.nodes)
  BY DEF IsBlock
<1>6. PICK keys, top : keys = block.nodes /\ top = Len(block.nodes)
  OBVIOUS
<1>7. /\ i \in 0 .. top /\ lo[x] \in Int /\ hi[x] \in Int
      /\ lo[x] = IF i + 1 = 1 THEN lo[p] ELSE keys[(i + 1) - 1]
      /\ hi[x] = IF i + 1 = top + 1 THEN hi[p] ELSE keys[i + 1]
      /\ top \in Nat /\ s \in Int /\ lo[x] < s /\ s < hi[x]
  BY <1>1, <1>2, <1>4, <1>6
<1>71. i # 0 => i + 1 # 1 /\ (i + 1) - 1 = i
  BY ONLY <1>7
<1>72. i # top => i + 1 # top + 1
  BY ONLY <1>7
<1>8. (i = 0 \/ keys[i] <= s) /\ (i = top \/ s < keys[i + 1])
  <2>1. i = 0 \/ keys[i] = lo[x]
    BY ONLY <1>7, <1>71
  <2>2. i = top \/ keys[i + 1] = hi[x]
    BY ONLY <1>7, <1>72
  <2> QED
    BY ONLY <1>7, <2>1, <2>2
<1> QED
  BY ONLY <1>1, <1>2, <1>5, <1>6, <1>8, s \in Int, PassedTo

LEMMA KeepsUp ==
  ASSUME NEW N, NEW h, NEW lo, NEW hi, Ordered(N, h, lo, hi),
         NEW M, NEW ha, NEW la, NEW ua, Ordered(M, ha, la, ua),
         NEW low \in Nat, NEW top \in Nat, low <= top,
         Keeps(N, h, lo, hi, M, ha, la, ua, low)
  PROVE  Keeps(N, h, lo, hi, M, ha, la, ua, top)
<1>1. Keeps(M, ha, la, ua, M, ha, la, ua, top)
  BY KeepsSame
<1> QED
  BY ONLY Ordered(N, h, lo, hi), Ordered(M, ha, la, ua), low \in Nat, top \in Nat, low <= top,
          Keeps(N, h, lo, hi, M, ha, la, ua, low), <1>1, KeepsTrans

\* After the split of a full child.
LEMMA SplitFits ==
  ASSUME NEW B, NEW root, NEW b \in DOMAIN B, NEW c \in DOMAIN B, b # c,
         \A d \in DOMAIN B : B[d] \in Blocks,
         BlocksFit(B, root, {c}), Len(B[c].nodes) = CAP_NODES,
         NEW i, NEW r, NEW s \in Int, NEW j, j = CAP_NODES \div 2 + 1, i \in 0 .. Len(B[b].nodes),
         NEW B2, IsBlockSplit(B, b, i, c, r, j, s, B2)
  PROVE  BlocksFit(B2, root, {b})
<1>1. /\ DOMAIN B2 = DOMAIN B \cup {r} /\ B2[b] = Widened(B[b], i, s, r)
      /\ B2[c] = LeftOf(B[c], j) /\ B2[r] = RightOf(B[c], j)
      /\ \A d \in DOMAIN B \ {b, c} : B2[d] = B[d]
  BY DEF IsBlockSplit
<1>2. /\ CAP_NODES \in Nat /\ j \in 1 .. CAP_NODES
      /\ 0 < j - 1 /\ j - 1 < CAP_NODES /\ 0 < CAP_NODES - j /\ CAP_NODES - j < CAP_NODES
  BY SplitPoint
<1>3. Len(B2[b].nodes) = Len(B[b].nodes) + 1 /\ Len(B[b].nodes) \in Nat
  <2>1. PICK block, w : block = B[b] /\ w = Widened(block, i, s, r)
    OBVIOUS
  <2>2. block \in Blocks /\ i \in 0 .. Len(block.nodes) /\ s \in Int
    BY <2>1
  <2>3. Len(w.nodes) = Len(block.nodes) + 1 /\ Len(block.nodes) \in Nat
    BY ONLY <2>1, <2>2, WidenedFacts
  <2> QED
    BY ONLY <1>1, <2>1, <2>3
<1>4. Len(B2[c].nodes) = j - 1 /\ Len(B2[r].nodes) = CAP_NODES - j
  <2>1. B[c] \in Blocks /\ j \in 1 .. Len(B[c].nodes) /\ Len(B[c].nodes) = CAP_NODES
    BY <1>2
  <2> QED
    BY ONLY <1>1, <2>1, HalvesFacts
<1>5. \A d \in DOMAIN B : /\ Len(B[d].nodes) <= CAP_NODES
                          /\ Len(B[d].nodes) = CAP_NODES => d = c
                          /\ B[d].nodes = <<>> => d = root /\ B[d].tag = "leafs"
  BY DEF BlocksFit
<1>6. Len(B2[b].nodes) <= CAP_NODES /\ 0 < Len(B2[b].nodes)
  <2>1. Len(B[b].nodes) # CAP_NODES /\ Len(B[b].nodes) <= CAP_NODES
    BY <1>5
  <2> QED
    BY ONLY <1>2, <1>3, <2>1
<1>7. Len(<<>>) = 0
  OBVIOUS
<1>8. ASSUME NEW d \in DOMAIN B2
      PROVE  /\ Len(B2[d].nodes) <= CAP_NODES
             /\ Len(B2[d].nodes) = CAP_NODES => d \in {b}
             /\ B2[d].nodes = <<>> => d = root /\ B2[d].tag = "leafs"
  <2>1. CASE d = b
    BY ONLY <1>6, <1>7, <2>1
  <2>2. CASE d = c \/ d = r
    BY ONLY <1>2, <1>4, <1>7, <2>2
  <2>3. CASE d # b /\ d # c /\ d # r
    BY ONLY <1>1, <1>5, <1>8, <2>3
  <2> QED
    BY <2>1, <2>2, <2>3
<1> QED
  BY <1>8 DEF BlocksFit

LEMMA StartFacts ==
  ASSUME NEW L, NEW B, NEW root, NEW h, NEW lo, NEW hi, Start(L, B, root, h, lo, hi)
  PROVE  /\ L \in Seq(Leaves) /\ B \in Seq(Blocks) /\ Shape(L, B, h, lo, hi)
         /\ LeavesFit(L) /\ (LeavesUsed(L) \/ L = <<NewLeafs>>) /\ BlocksFit(B, root, {})
         /\ Len(B) \in Nat /\ DOMAIN B = 1 .. Len(B) /\ \A d \in DOMAIN B : B[d] \in Blocks
         /\ Len(L) \in Nat /\ DOMAIN L = 1 .. Len(L) /\ \A l \in DOMAIN L : L[l] \in Leaves
         /\ Ordered(Nodes(L, B), h, lo, hi)
         /\ \A b \in DOMAIN B : Blk(b) \in Nodes(L, B)
                                /\ IsBlock(B[b], Nodes(L, B), h, lo, hi, Blk(b))
         /\ \A b \in DOMAIN B : h[Blk(b)] \in Nat
<1>1. /\ L \in Seq(Leaves) /\ B \in Seq(Blocks) /\ Shape(L, B, h, lo, hi)
      /\ LeavesFit(L) /\ (LeavesUsed(L) \/ L = <<NewLeafs>>) /\ BlocksFit(B, root, {})
  BY DEF Start
<1>2. Len(B) \in Nat /\ DOMAIN B = 1 .. Len(B) /\ \A d \in 1 .. Len(B) : B[d] \in Blocks
  BY <1>1, SequenceFacts
<1>3. Len(L) \in Nat /\ DOMAIN L = 1 .. Len(L) /\ \A l \in 1 .. Len(L) : L[l] \in Leaves
  BY <1>1, SequenceFacts
<1>4. /\ Ordered(Nodes(L, B), h, lo, hi)
      /\ \A b \in DOMAIN B : Blk(b) \in Nodes(L, B)
                             /\ IsBlock(B[b], Nodes(L, B), h, lo, hi, Blk(b))
  BY <1>1, NodeFacts DEF Shape
<1>5. \A b \in DOMAIN B : h[Blk(b)] \in Nat
  BY <1>4 DEF Ordered
<1> QED
  BY <1>1, <1>2, <1>3, <1>4, <1>5

\* A block's child for a key.
LEMMA ChildForIs ==
  ASSUME NEW L, NEW B, NEW h, NEW lo, NEW hi, Shape(L, B, h, lo, hi),
         NEW b \in DOMAIN B, NEW key \in Int, lo[Blk(b)] <= key, key < hi[Blk(b)],
         NEW c, c = ChildFor(B[b], key), NEW x, x = <<B[b].tag, c>>
  PROVE  /\ IsKidAt(B[b], Passed(B[b].nodes, key), c)
         /\ x = Kid(B[b], Passed(B[b].nodes, key) + 1)
         /\ lo[x] <= key /\ key < hi[x] /\ h[x] \in Nat /\ h[x] + 1 = h[Blk(b)]
         /\ B[b].tag = "leafs" => c \in DOMAIN L /\ x = Lf(c) /\ h[Blk(b)] = 1
         /\ B[b].tag = "block" => c \in DOMAIN B /\ x = Blk(c) /\ h[Blk(b)] > 1
         /\ B[b].tag \in {"leafs", "block"}
<1>1. PICK N, i, block : N = Nodes(L, B) /\ i = Passed(B[b].nodes, key) /\ block = B[b]
  OBVIOUS
<1>2. Ordered(N, h, lo, hi) /\ Blk(b) \in N /\ IsBlock(block, N, h, lo, hi, Blk(b))
  BY <1>1, NodeFacts DEF Shape
<1>3. c = block.children[i + 1]
  BY <1>1 DEF ChildFor
<1>4. x = Kid(block, i + 1)
  BY <1>1, <1>3 DEF Kid
<1>5. /\ i \in 0 .. Len(block.nodes) /\ i + 1 \in 1 .. Len(block.children)
      /\ lo[x] <= key /\ key < hi[x] /\ h[x] \in Nat /\ h[x] + 1 = h[Blk(b)]
  BY <1>1, <1>2, <1>4, KidForKey
<1>6. IsKidAt(block, i, c)
  BY ONLY <1>3, <1>5 DEF IsKidAt
<1>7. /\ B[b].tag = "leafs" => B[b].children[i + 1] \in DOMAIN L /\ h[Blk(b)] = 1
      /\ B[b].tag = "block" => B[b].children[i + 1] \in DOMAIN B /\ h[Blk(b)] > 1
      /\ B[b].tag \in {"leafs", "block"}
  BY <1>1, <1>5, TagFacts
<1> QED
  BY ONLY <1>1, <1>3, <1>4, <1>5, <1>6, <1>7, x = <<B[b].tag, c>> DEF Lf, Blk

LEMMA AboveBlocksGood ==
  ASSUME NEW L, NEW B, NEW root, NEW h, NEW lo, NEW hi, Start(L, B, root, h, lo, hi),
         NEW b \in DOMAIN B, B[b].tag = "block",
         NEW key \in Int, lo[Blk(b)] <= key, key < hi[Blk(b)],
         NEW c, c = ChildFor(B[b], key),
         NEW put, Good(L, B, root, h, lo, hi, key, c, put),
         NEW out, out = AboveBlocks(put, b, c)
  PROVE  Good(L, B, root, h, lo, hi, key, b, out)
<1>1. PICK s0, split : s0 = SplitKey(put.blocks[c]) /\ split = SplitBlock(put, c)
  OBVIOUS
<1>2. out = IF put.exited # "none" \/ ~Full(put.blocks[c].nodes, CAP_NODES) THEN put
            ELSE IF split.exited # "none" THEN split
            ELSE WithChild(split, b, Passed(put.blocks[b].nodes, s0), s0, Len(split.blocks))
  BY <1>1 DEF AboveBlocks
<1>3. CASE put.exited \in {"duplicate", "leafs", "blocks"}
  <2>1. out = put
    BY ONLY <1>2, <1>3
  <2> QED
    BY ONLY <1>3, <2>1 DEF Good
<1>4. CASE \E L2, B2 : put = Mem(L2, B2) /\ Done(L, B, root, h, lo, hi, key, c, L2, B2)
  <2>1. PICK L2, B2 : put = Mem(L2, B2) /\ Done(L, B, root, h, lo, hi, key, c, L2, B2)
    BY <1>4
  <2>2. PICK N, i, x, p : /\ N = Nodes(L, B) /\ i = Passed(B[b].nodes, key)
                          /\ x = Blk(c) /\ p = Blk(b)
    OBVIOUS
  <2>3. /\ Shape(L, B, h, lo, hi) /\ Ordered(N, h, lo, hi)
        /\ Len(B) \in Nat /\ DOMAIN B = 1 .. Len(B) /\ \A d \in DOMAIN B : B[d] \in Blocks
        /\ \A d \in DOMAIN B : h[Blk(d)] \in Nat
        /\ p \in N /\ IsBlock(B[b], N, h, lo, hi, p)
    BY ONLY Start(L, B, root, h, lo, hi), b \in DOMAIN B, <2>2, StartFacts
  <2>4. /\ IsKidAt(B[b], i, c) /\ x = Kid(B[b], i + 1) /\ c \in DOMAIN B
        /\ h[x] \in Nat /\ h[x] + 1 = h[p] /\ h[p] > 1
        /\ lo[x] <= key /\ key < hi[x]
    <3>1. PICK z : z = <<B[b].tag, c>>
      OBVIOUS
    <3>2. /\ IsKidAt(B[b], Passed(B[b].nodes, key), c)
          /\ z = Kid(B[b], Passed(B[b].nodes, key) + 1)
          /\ lo[z] <= key /\ key < hi[z] /\ h[z] \in Nat /\ h[z] + 1 = h[Blk(b)]
          /\ B[b].tag = "block" => c \in DOMAIN B /\ z = Blk(c) /\ h[Blk(b)] > 1
      BY <2>3, <3>1, ChildForIs
    <3> QED
      BY ONLY <2>2, <3>2, B[b].tag = "block"
  <2>5. h[p] \in Nat /\ h[x] < h[p] /\ h[x] <= h[p] /\ b # c
    <3>1. h[p] \in Nat
      BY <2>2, <2>3
    <3>2. h[x] < h[p] /\ h[x] <= h[p]
      BY ONLY <2>4, <3>1
    <3>3. b = c => x = p
      BY ONLY <2>2
    <3>4. x # p
      BY ONLY <3>1, <3>2
    <3> QED
      BY ONLY <3>1, <3>2, <3>3, <3>4
  <2>6. /\ L2 \in Seq(Leaves) /\ B2 \in Seq(Blocks) /\ Len(B) <= Len(B2)
        /\ Contents(L2) = Contents(L) \cup {key} /\ key \notin Contents(L)
        /\ LeavesFit(L2) /\ LeavesUsed(L2) /\ BlocksFit(B2, root, {c})
        /\ \A d \in DOMAIN B : h[x] <= h[Blk(d)] /\ d # c => B2[d] = B[d]
        /\ \E hh, ll, uu : /\ Shape(L2, B2, hh, ll, uu)
                           /\ Keeps(N, h, lo, hi, Nodes(L2, B2), hh, ll, uu, h[x])
    BY ONLY <2>1, <2>2 DEF Done
  <2>7. PICK ha, la, ua : /\ Shape(L2, B2, ha, la, ua)
                          /\ Keeps(N, h, lo, hi, Nodes(L2, B2), ha, la, ua, h[x])
    BY ONLY <2>6
  <2>8. PICK M : M = Nodes(L2, B2)
    OBVIOUS
  <2>9. /\ Ordered(M, ha, la, ua) /\ Keeps(N, h, lo, hi, M, ha, la, ua, h[x])
        /\ \A d \in DOMAIN B2 : Blk(d) \in M /\ IsBlock(B2[d], M, ha, la, ua, Blk(d))
    BY ONLY <2>7, <2>8, NodeFacts DEF Shape
  <2>10. /\ Len(B2) \in Nat /\ DOMAIN B2 = 1 .. Len(B2) /\ \A d \in DOMAIN B2 : B2[d] \in Blocks
         /\ DOMAIN B \subseteq DOMAIN B2
    <3>1. Len(B2) \in Nat /\ DOMAIN B2 = 1 .. Len(B2) /\ \A d \in 1 .. Len(B2) : B2[d] \in Blocks
      BY ONLY <2>6, SequenceFacts
    <3> QED
      BY ONLY <2>3, <2>6, <3>1
  <2>11. B2[b] = B[b] /\ b \in DOMAIN B2 /\ c \in DOMAIN B2
    <3>1. b \in DOMAIN B
      OBVIOUS
    <3> QED
      BY ONLY <2>2, <2>4, <2>5, <2>6, <2>10, <3>1
  <2>12. \A d \in DOMAIN B : h[p] <= h[Blk(d)] /\ d # b => B2[d] = B[d] /\ d # c
    <3> SUFFICES ASSUME NEW d \in DOMAIN B, h[p] <= h[Blk(d)], d # b
                 PROVE  B2[d] = B[d] /\ d # c
      OBVIOUS
    <3>1. h[Blk(d)] \in Nat
      BY <2>3
    <3>2. h[x] < h[Blk(d)] /\ h[x] <= h[Blk(d)]
      BY ONLY <2>4, <2>5, <3>1, h[p] <= h[Blk(d)]
    <3>30. Blk(d) # x
      BY ONLY <2>4, <3>1, <3>2
    <3>3. d # c
      BY ONLY <2>2, <3>30
    <3> QED
      BY <2>6, <3>2, <3>3
  <2>13. put.exited = "none" /\ put.blocks = B2
    BY ONLY <2>1, MemFacts
  <2>14. CASE ~Full(B2[c].nodes, CAP_NODES)
    <3>1. out = Mem(L2, B2)
      BY ONLY <1>2, <2>1, <2>13, <2>14
    <3>2. BlocksFit(B2, root, {b})
      <4>1. Len(B2[c].nodes) # CAP_NODES
        BY ONLY <2>14, CapAssumption DEF Full
      <4> QED
        BY ONLY <2>6, <4>1 DEF BlocksFit
    <3>3. Keeps(N, h, lo, hi, M, ha, la, ua, h[p])
      BY ONLY <2>3, <2>4, <2>5, <2>9, KeepsUp
    <3>4. \A d \in DOMAIN B : h[p] <= h[Blk(d)] /\ d # b => B2[d] = B[d]
      BY ONLY <2>12
    <3>5. Done(L, B, root, h, lo, hi, key, b, L2, B2)
      BY ONLY <2>2, <2>6, <2>7, <2>8, <3>2, <3>3, <3>4 DEF Done
    <3> QED
      BY ONLY <3>1, <3>5 DEF Good
  <2>15. CASE Full(B2[c].nodes, CAP_NODES)
    <3>1. Len(B2[c].nodes) = CAP_NODES
      <4>1. B2[c].nodes \in Seq(Int) /\ Len(B2[c].nodes) <= CAP_NODES
        BY ONLY <2>6, <2>10, <2>11 DEF BlocksFit, Blocks
      <4>2. Len(B2[c].nodes) \in Nat
        BY ONLY <4>1, SequenceFacts
      <4> QED
        BY ONLY <2>15, <4>1, <4>2, CapAssumption DEF Full
    <3>2. PICK j, r, s : j = CAP_NODES \div 2 + 1 /\ r = Len(B2) + 1 /\ s = B2[c].nodes[j]
      OBVIOUS
    <3>3. /\ CAP_NODES \div 2 \in Int /\ CAP_NODES \in Nat /\ j \in 1 .. CAP_NODES
          /\ 0 < j - 1 /\ j - 1 < CAP_NODES /\ 0 < CAP_NODES - j /\ CAP_NODES - j < CAP_NODES
      BY ONLY <3>2, SplitPoint
    <3>4. PICK B3 : B3 = BlockHalved(B2, c, j)
      OBVIOUS
    <3>5. (split.exited = "blocks" \/ split = Mem(L2, B3)) /\ s0 = s
      <4>1. /\ j = CAP_NODES \div 2 + 1 /\ CAP_NODES \div 2 \in Int /\ B2[c] \in Blocks
            /\ Len(B2[c].nodes) = CAP_NODES /\ CAP_NODES \in Nat /\ c \in DOMAIN B2
            /\ split = SplitBlock(Mem(L2, B2), c)
        BY ONLY <1>1, <2>1, <2>10, <2>11, <3>1, <3>2, <3>3
      <4>2. /\ split.exited = "blocks" \/ split = Mem(L2, BlockHalved(B2, c, j))
            /\ SplitKey(B2[c]) = B2[c].nodes[j]
        BY ONLY <4>1, SplitBlockIs
      <4> QED
        BY ONLY <1>1, <2>13, <3>2, <3>4, <4>2
    <3>6. CASE split.exited = "blocks"
      <4>1. out = split
        BY ONLY <1>2, <2>13, <2>15, <3>6
      <4> QED
        BY ONLY <3>6, <4>1 DEF Good
    <3>7. CASE split = Mem(L2, B3)
      <4>1. IsHalved(B2, c, j, B3)
        <5>1. Len(B2[c].children) = Len(B2[c].nodes) + 1
          BY ONLY <2>9, <2>11 DEF IsBlock
        <5>2. j \in 1 .. Len(B2[c].nodes) /\ c \in DOMAIN B2 /\ B2 \in Seq(Blocks)
          BY ONLY <2>6, <2>11, <3>1, <3>3
        <5> QED
          BY ONLY <3>4, <5>1, <5>2, BlockHalvedIs
      <4>2. /\ B3 \in Seq(Blocks) /\ Len(B3) = r /\ DOMAIN B3 = DOMAIN B2 \cup {r}
            /\ r \notin DOMAIN B2 /\ r \in Nat
            /\ B3[c] = LeftOf(B2[c], j) /\ B3[r] = RightOf(B2[c], j)
            /\ \A d \in DOMAIN B2 \ {c} : B3[d] = B2[d]
        <5>1. r \in Nat
          BY ONLY <2>10, <3>2
        <5> QED
          BY ONLY <3>2, <4>1, <5>1 DEF IsHalved
      <4>3. /\ s \in Int /\ la[x] < s /\ s < ua[x]
        <5>1. x \in M /\ IsBlock(B2[c], M, ha, la, ua, x) /\ j \in 1 .. Len(B2[c].nodes)
          BY ONLY <2>2, <2>9, <2>11, <3>1, <3>3
        <5>2. /\ B2[c].nodes[j] \in Int /\ la[x] < B2[c].nodes[j] /\ B2[c].nodes[j] < ua[x]
          BY ONLY <2>9, <5>1, BlockFacts
        <5> QED
          BY ONLY <3>2, <5>2
      <4>4. Passed(B[b].nodes, s) = i
        <5>1. x \in N /\ p \in N
          <6>1. \A d \in DOMAIN B : Blk(d) \in Nodes(L, B)
            BY ONLY NodeFacts
          <6>2. b \in DOMAIN B /\ c \in DOMAIN B
            BY <2>4
          <6> QED
            BY ONLY <2>2, <6>1, <6>2
        <5>2. la[x] = lo[x] /\ ua[x] = hi[x]
          <6>1. h[x] <= h[x]
            BY ONLY <2>4
          <6> QED
            BY ONLY <2>9, <5>1, <6>1 DEF Keeps
        <5>3. lo[x] < s /\ s < hi[x] /\ s \in Int
          BY ONLY <4>3, <5>2
        <5> QED
          BY ONLY <2>3, <2>4, <5>3, PassedAt
      <4>5. PICK B4 : B4 = WidenedAt(B3, b, i, s, r)
        OBVIOUS
      <4>6. out = Mem(L2, B4)
        <5>1. split.exited = "none" /\ split.blocks = B3
          BY ONLY <3>7, MemFacts
        <5>2. out = WithChild(split, b, Passed(put.blocks[b].nodes, s0), s0, Len(split.blocks))
          BY ONLY <1>2, <2>13, <2>15, <5>1
        <5>3. out = WithChild(Mem(L2, B3), b, i, s, r)
          BY ONLY <2>11, <2>13, <3>5, <3>7, <4>2, <4>4, <5>1, <5>2
        <5>4. b \in DOMAIN B3 /\ B3[b] \in Blocks
          BY ONLY <2>5, <2>10, <2>11, <4>2
        <5> QED
          BY ONLY <4>5, <5>3, <5>4, WithChildIs
      <4>7. /\ B4 = [B3 EXCEPT ![b] = Widened(B2[b], i, s, r)] /\ B3[b] = B2[b] /\ b \in DOMAIN B3
        BY ONLY <2>5, <2>11, <4>2, <4>5 DEF WidenedAt
      <4>8. /\ DOMAIN B4 = DOMAIN B3 /\ B4[b] = Widened(B2[b], i, s, r)
            /\ \A d \in DOMAIN B3 \ {b} : B4[d] = B3[d]
        BY ONLY <4>7
      <4>80. b # r /\ c # r
        BY ONLY <2>11, <4>2
      <4>9. IsBlockSplit(B2, b, i, c, r, j, s, B4)
        <5>1. j \in 1 .. Len(B2[c].nodes)
          BY ONLY <3>1, <3>3
        <5>2. B4[c] = LeftOf(B2[c], j) /\ B4[r] = RightOf(B2[c], j) /\ DOMAIN B4 = DOMAIN B2 \cup {r}
          BY ONLY <2>5, <2>11, <4>2, <4>8, <4>80
        <5>3. \A d \in DOMAIN B2 \ {b, c} : B4[d] = B2[d]
          BY ONLY <4>2, <4>8
        <5> QED
          BY ONLY <3>2, <4>2, <4>8, <5>1, <5>2, <5>3 DEF IsBlockSplit
      <4>10. Split(L2, B2, ha, la, ua, Blk(c), Blk(r), s, L2, B4)
        <5>1. IsKidAt(B2[b], i, c) /\ B2[b].tag = "block"
          BY <2>4, <2>11
        <5> QED
          BY ONLY <2>7, <2>11, <4>9, <5>1, ShapeBlockSplit
      <4>11. PICK hb, lb, ub : /\ Shape(L2, B4, hb, lb, ub)
                               /\ IsSplit(M, ha, la, ua, x, Blk(r), s, Nodes(L2, B4), hb, lb, ub)
        BY ONLY <2>2, <2>8, <4>10 DEF Split
      <4>12. PICK O : O = Nodes(L2, B4)
        OBVIOUS
      <4>13. Ordered(O, hb, lb, ub) /\ \A d \in DOMAIN B4 : B4[d] \in Blocks
        BY ONLY <4>11, <4>12 DEF Shape, IsBlock
      <4>14. Keeps(N, h, lo, hi, O, hb, lb, ub, h[p])
        <5>1. ha[x] = h[x]
          <6>1. x \in N
            <7>1. \A d \in DOMAIN B : Blk(d) \in Nodes(L, B)
              BY ONLY NodeFacts
            <7>2. c \in DOMAIN B
              BY <2>4
            <7> QED
              BY ONLY <2>2, <7>1, <7>2
          <6> QED
            BY ONLY <2>9, <6>1 DEF Keeps
        <5>2. x \in M /\ ha[x] < h[p] /\ IsSplit(M, ha, la, ua, x, Blk(r), s, O, hb, lb, ub)
          BY ONLY <2>2, <2>5, <2>9, <2>11, <4>11, <4>12, <5>1
        <5>3. Keeps(M, ha, la, ua, O, hb, lb, ub, h[p])
          BY ONLY <2>5, <2>9, <5>2, SplitKeeps
        <5> QED
          BY ONLY <2>3, <2>4, <2>5, <2>9, <4>13, <5>3, KeepsTrans
      <4>15. B4 \in Seq(Blocks) /\ Len(B4) = r
        <5>1. B4[b] \in Blocks /\ b \in DOMAIN B3 /\ B3 \in Seq(Blocks)
          BY ONLY <4>2, <4>7, <4>8, <4>13
        <5>2. PICK w : w = Widened(B2[b], i, s, r)
          OBVIOUS
        <5>3. w \in Blocks /\ B4 = [B3 EXCEPT ![b] = w]
          BY ONLY <4>7, <4>8, <5>1, <5>2
        <5> QED
          BY ONLY <4>2, <5>1, <5>3
      <4>16. BlocksFit(B4, root, {b})
        <5>1. i \in 0 .. Len(B2[b].nodes)
          BY ONLY <2>4, <2>11 DEF IsKidAt
        <5> QED
          BY ONLY <2>5, <2>6, <2>10, <2>11, <3>1, <3>2, <4>3, <4>9, <5>1, SplitFits
      <4>17. \A d \in DOMAIN B : h[p] <= h[Blk(d)] /\ d # b => B4[d] = B[d]
        BY ONLY <2>10, <2>12, <4>2, <4>8
      <4>18. Len(B) <= Len(B4)
        BY ONLY <2>3, <2>6, <2>10, <3>2, <4>15
      <4>19. Done(L, B, root, h, lo, hi, key, b, L2, B4)
        BY ONLY <2>2, <2>6, <4>11, <4>12, <4>14, <4>15, <4>16, <4>17, <4>18 DEF Done
      <4> QED
        BY ONLY <4>6, <4>19 DEF Good
    <3> QED
      BY <3>5, <3>6, <3>7
  <2> QED
    BY <2>14, <2>15
<1> QED
  BY ONLY <1>3, <1>4, Good(L, B, root, h, lo, hi, key, c, put) DEF Good

LEMMA ChildInPool ==
  ASSUME NEW L, NEW B, NEW h, NEW lo, NEW hi, Shape(L, B, h, lo, hi),
         NEW b \in DOMAIN B, NEW key \in Int
  PROVE  /\ B[b].tag \in {"leafs", "block"}
         /\ B[b].tag = "leafs" => ChildFor(B[b], key) \in DOMAIN L /\ h[Blk(b)] = 1
         /\ B[b].tag = "block" => ChildFor(B[b], key) \in DOMAIN B /\ h[Blk(b)] > 1
<1>1. PICK N, i, block : N = Nodes(L, B) /\ i = Passed(B[b].nodes, key) /\ block = B[b]
  OBVIOUS
<1>2. Ordered(N, h, lo, hi) /\ Blk(b) \in N /\ IsBlock(block, N, h, lo, hi, Blk(b))
  BY <1>1, NodeFacts DEF Shape
<1>3. block.nodes \in Seq(Int) /\ Len(block.nodes) \in Nat /\ Len(block.children) = Len(block.nodes) + 1
  BY <1>2, BlockFacts
<1>4. Ascending(block.nodes)
  BY <1>2 DEF IsBlock
<1>5. i \in 0 .. Len(block.nodes)
  BY ONLY <1>1, <1>3, <1>4, key \in Int, PassedIs
<1>6. i + 1 \in 1 .. Len(block.children)
  BY ONLY <1>3, <1>5
<1>7. /\ B[b].tag = "leafs" => B[b].children[i + 1] \in DOMAIN L /\ h[Blk(b)] = 1
      /\ B[b].tag = "block" => B[b].children[i + 1] \in DOMAIN B /\ h[Blk(b)] > 1
      /\ B[b].tag \in {"leafs", "block"}
  BY <1>1, <1>6, TagFacts
<1> QED
  BY ONLY <1>1, <1>7 DEF ChildFor

\* The recursion of insert_block, down to level n.
PutAt(mem, f, call, entry) ==
  LET b == call[2]
      block == mem.blocks[b]
      child == ChildFor(block, entry.key)
  IN  IF call[1] = 0 \/ Full(block.nodes, CAP_NODES) THEN Exit(mem, "block full")
      ELSE IF block.tag = "leafs" THEN AboveLeafs(mem, b, entry)
      ELSE AboveBlocks(f[Below(call, child)], b, child)
Puts(f, mem, entry, n) ==
  f = [call \in (0 .. n) \X DOMAIN mem.blocks |-> PutAt(mem, f, call, entry)]

LEMMA PutsExist ==
  ASSUME NEW mem, NEW entry, NEW n \in Nat,
         \A b \in DOMAIN mem.blocks :
           mem.blocks[b].tag # "leafs" => ChildFor(mem.blocks[b], entry.key) \in DOMAIN mem.blocks
  PROVE  \E f : Puts(f, mem, entry, n)
<1> DEFINE D == {m \in Nat : \E f : Puts(f, mem, entry, m)}
<1>0. PICK P : P = DOMAIN mem.blocks
  OBVIOUS
<1>1. 0 \in D
  <2> DEFINE f == [call \in (0 .. 0) \X P |-> Exit(mem, "block full")]
  <2>1. \A call \in (0 .. 0) \X P : PutAt(mem, f, call, entry) = Exit(mem, "block full")
    <3> HIDE DEF f
    <3> SUFFICES ASSUME NEW call \in (0 .. 0) \X P
                 PROVE  PutAt(mem, f, call, entry) = Exit(mem, "block full")
      OBVIOUS
    <3>1. call[1] = 0
      OBVIOUS
    <3> QED
      BY ONLY <3>1, Zenon DEF PutAt
  <2>2. f = [call \in (0 .. 0) \X P |-> PutAt(mem, f, call, entry)]
    BY ONLY <2>1, Zenon
  <2> HIDE DEF f
  <2>3. Puts(f, mem, entry, 0)
    BY ONLY <1>0, <2>2 DEF Puts
  <2> QED
    BY <2>3
<1>2. ASSUME NEW m \in Nat, m \in D PROVE m + 1 \in D
  <2>1. PICK f : f = [call \in (0 .. m) \X P |-> PutAt(mem, f, call, entry)]
    BY <1>0, <1>2 DEF Puts
  <2> DEFINE g == [call \in (0 .. m + 1) \X P |-> PutAt(mem, f, call, entry)]
  <2>2. \A call \in (0 .. m) \X P : g[call] = f[call]
    <3>1. (0 .. m) \X P \subseteq (0 .. m + 1) \X P
      OBVIOUS
    <3> QED
      BY ONLY <2>1, <3>1, Zenon
  <2>3. ASSUME NEW call \in (0 .. m + 1) \X P
        PROVE  PutAt(mem, g, call, entry) = PutAt(mem, f, call, entry)
    <3>1. PICK b, block, child : /\ b = call[2] /\ block = mem.blocks[b]
                                 /\ child = ChildFor(block, entry.key)
      OBVIOUS
    <3>2. CASE call[1] = 0 \/ Full(block.nodes, CAP_NODES) \/ block.tag = "leafs"
      <4> HIDE DEF g
      <4> QED
        BY ONLY <3>1, <3>2, Zenon DEF PutAt
    <3>3. CASE call[1] # 0 /\ block.tag # "leafs"
      <4>1. b \in P /\ child \in P /\ call[1] - 1 \in 0 .. m
        BY <1>0, <3>1, <3>3
      <4>2. Below(call, child) \in (0 .. m) \X P
        BY ONLY <4>1 DEF Below
      <4> HIDE DEF g
      <4>3. g[Below(call, child)] = f[Below(call, child)]
        BY ONLY <2>2, <4>2, Zenon
      <4> QED
        BY ONLY <3>1, <4>3, Zenon DEF PutAt
    <3> QED
      BY <3>2, <3>3
  <2>4. g = [call \in (0 .. m + 1) \X P |-> PutAt(mem, g, call, entry)]
    <3> DEFINE k == [call \in (0 .. m + 1) \X P |-> PutAt(mem, g, call, entry)]
    <3>1. \A call \in (0 .. m + 1) \X P : g[call] = k[call]
      BY ONLY <2>3, Zenon
    <3> QED
      BY ONLY <3>1, Zenon
  <2> HIDE DEF g
  <2>5. Puts(g, mem, entry, m + 1)
    BY ONLY <1>0, <2>4 DEF Puts
  <2>6. m + 1 \in Nat
    OBVIOUS
  <2> QED
    BY ONLY <2>5, <2>6
<1>3. \A m \in Nat : m \in D
  <2> HIDE DEF D
  <2> QED
    BY <1>1, <1>2, NatSetInduction
<1> QED
  BY <1>3

LEMMA InsertBlockIs ==
  ASSUME NEW mem, NEW root, NEW entry, Len(mem.blocks) \in Nat,
         \A b \in DOMAIN mem.blocks :
           mem.blocks[b].tag # "leafs" => ChildFor(mem.blocks[b], entry.key) \in DOMAIN mem.blocks
  PROVE  \E f : /\ Puts(f, mem, entry, Len(mem.blocks))
                /\ insert_block(mem, root, entry) = f[<<Len(mem.blocks), root>>]
<1> DEFINE f == CHOOSE f : Puts(f, mem, entry, Len(mem.blocks))
<1>1. Puts(f, mem, entry, Len(mem.blocks))
  BY PutsExist
<1>2. insert_block(mem, root, entry) = f[<<Len(mem.blocks), root>>]
  BY ONLY Zenon DEF insert_block, Puts, PutAt, Calls
<1> HIDE DEF f
<1> QED
  BY ONLY <1>1, <1>2

LEMMA InsertBlockGood ==
  ASSUME NEW L, NEW B, NEW root \in DOMAIN B, NEW h, NEW lo, NEW hi, Start(L, B, root, h, lo, hi),
         Rooted(Nodes(L, B), root, h, lo, hi), h[Blk(root)] <= Len(B),
         NEW key \in Int, Least <= key, key < Beyond,
         NEW out, out = insert_block(Mem(L, B), root, EntryOf(key))
  PROVE  Good(L, B, root, h, lo, hi, key, root, out)
<1>1. /\ Shape(L, B, h, lo, hi) /\ Len(B) \in Nat /\ DOMAIN B = 1 .. Len(B)
      /\ \A d \in DOMAIN B : B[d] \in Blocks
      /\ BlocksFit(B, root, {}) /\ \A d \in DOMAIN B : h[Blk(d)] \in Nat
  BY StartFacts
<1>2. PICK mem, entry : mem = Mem(L, B) /\ entry = EntryOf(key)
  OBVIOUS
<1>3. mem.blocks = B /\ entry.key = key
  BY <1>2, MemFacts, EntryFacts
<1>4. \A b \in DOMAIN B : /\ B[b].tag \in {"leafs", "block"}
                          /\ B[b].tag = "block" => ChildFor(B[b], key) \in DOMAIN B
                          /\ h[Blk(b)] >= 1
  <2> SUFFICES ASSUME NEW b \in DOMAIN B
               PROVE  /\ B[b].tag \in {"leafs", "block"}
                      /\ B[b].tag = "block" => ChildFor(B[b], key) \in DOMAIN B
                      /\ h[Blk(b)] >= 1
    OBVIOUS
  <2>1. /\ B[b].tag \in {"leafs", "block"}
        /\ B[b].tag = "leafs" => ChildFor(B[b], key) \in DOMAIN L /\ h[Blk(b)] = 1
        /\ B[b].tag = "block" => ChildFor(B[b], key) \in DOMAIN B /\ h[Blk(b)] > 1
    BY <1>1, ChildInPool
  <2>2. h[Blk(b)] \in Nat
    BY <1>1
  <2> QED
    BY ONLY <2>1, <2>2
<1>5. PICK f : Puts(f, mem, entry, Len(B)) /\ out = f[<<Len(B), root>>]
  <2>1. /\ Len(mem.blocks) \in Nat
        /\ \A b \in DOMAIN mem.blocks :
             mem.blocks[b].tag # "leafs" => ChildFor(mem.blocks[b], entry.key) \in DOMAIN mem.blocks
    BY ONLY <1>1, <1>3, <1>4
  <2>2. \E f : /\ Puts(f, mem, entry, Len(mem.blocks))
               /\ insert_block(mem, root, entry) = f[<<Len(mem.blocks), root>>]
    BY ONLY <2>1, InsertBlockIs
  <2> QED
    BY <1>2, <1>3, <2>2
<1>6. \A call \in (0 .. Len(B)) \X DOMAIN B : f[call] = PutAt(mem, f, call, entry)
  BY ONLY <1>3, <1>5, Zenon DEF Puts
<1> DEFINE G(n, b) == h[Blk(b)] <= n /\ lo[Blk(b)] <= key /\ key < hi[Blk(b)]
                      => Good(L, B, root, h, lo, hi, key, b, f[<<n, b>>])
           D == {n \in 0 .. Len(B) : \A b \in DOMAIN B : G(n, b)}
<1>7. 0 \in D
  <2>1. \A b \in DOMAIN B : ~ (h[Blk(b)] <= 0)
    BY ONLY <1>1, <1>4
  <2> QED
    BY ONLY <1>1, <2>1
<1>8. ASSUME NEW n \in 0 .. Len(B) - 1, n \in D PROVE n + 1 \in D
  <2> SUFFICES ASSUME NEW b \in DOMAIN B, h[Blk(b)] <= n + 1, lo[Blk(b)] <= key, key < hi[Blk(b)]
               PROVE  Good(L, B, root, h, lo, hi, key, b, f[<<n + 1, b>>])
    BY <1>1, <1>8
  <2>1. PICK c, call : c = ChildFor(B[b], key) /\ call = <<n + 1, b>>
    OBVIOUS
  <2>2. /\ call \in (0 .. Len(B)) \X DOMAIN B /\ call[1] = n + 1 /\ call[2] = b
        /\ call[1] # 0 /\ call[1] - 1 = n
    BY <1>1, <2>1
  <2>3. f[call] = PutAt(mem, f, call, entry)
    BY ONLY <1>6, <2>2
  <2>4. ~Full(B[b].nodes, CAP_NODES)
    <3>1. Len(B[b].nodes) <= CAP_NODES /\ Len(B[b].nodes) # CAP_NODES /\ B[b] \in Blocks
      BY <1>1 DEF BlocksFit
    <3>2. Len(B[b].nodes) \in Nat
      BY ONLY <3>1, SequenceFacts DEF Blocks
    <3> QED
      BY ONLY <3>1, <3>2, CapAssumption DEF Full
  <2>5. Below(call, c) = <<n, c>>
    BY ONLY <2>2 DEF Below
  <2>6. f[call] = IF B[b].tag = "leafs" THEN AboveLeafs(mem, b, entry)
                  ELSE AboveBlocks(f[<<n, c>>], b, c)
    <3>1. PutAt(mem, f, call, entry)
            = IF call[1] = 0 \/ Full(B[b].nodes, CAP_NODES) THEN Exit(mem, "block full")
              ELSE IF B[b].tag = "leafs" THEN AboveLeafs(mem, b, entry)
              ELSE AboveBlocks(f[Below(call, c)], b, c)
      BY ONLY <1>3, <2>1, <2>2, Zenon DEF PutAt
    <3> QED
      BY ONLY <2>2, <2>3, <2>4, <2>5, <3>1
  <2>7. CASE B[b].tag = "leafs"
    <3>1. f[call] = AboveLeafs(Mem(L, B), b, EntryOf(key))
      BY ONLY <1>2, <2>6, <2>7
    <3>2. Good(L, B, root, h, lo, hi, key, b, f[call])
      BY <2>7, <3>1, AboveLeafsGood
    <3> QED
      BY ONLY <2>1, <3>2
  <2>8. CASE B[b].tag = "block"
    <3>1. f[call] = AboveBlocks(f[<<n, c>>], b, c)
      BY ONLY <2>6, <2>8
    <3>2. c \in DOMAIN B /\ h[Blk(c)] \in Nat /\ h[Blk(c)] + 1 = h[Blk(b)]
          /\ lo[Blk(c)] <= key /\ key < hi[Blk(c)]
      <4>1. PICK z : z = <<B[b].tag, c>>
        OBVIOUS
      <4>2. /\ lo[z] <= key /\ key < hi[z] /\ h[z] \in Nat /\ h[z] + 1 = h[Blk(b)]
            /\ B[b].tag = "block" => c \in DOMAIN B /\ z = Blk(c)
        BY <1>1, <2>1, <4>1, ChildForIs
      <4> QED
        BY ONLY <2>8, <4>2
    <3>3. h[Blk(c)] <= n
      <4>1. h[Blk(b)] <= n + 1 /\ n \in Nat
        OBVIOUS
      <4> QED
        BY ONLY <3>2, <4>1
    <3>4. Good(L, B, root, h, lo, hi, key, c, f[<<n, c>>])
      <4>1. G(n, c)
        BY <1>8, <3>2
      <4> QED
        BY <3>2, <3>3, <4>1
    <3>5. Good(L, B, root, h, lo, hi, key, b, f[call])
      BY <2>1, <2>8, <3>1, <3>4, AboveBlocksGood
    <3> QED
      BY ONLY <2>1, <3>5
  <2> QED
    BY <1>4, <2>7, <2>8
<1>9. \A n \in 0 .. Len(B) : n \in D
  <2> HIDE DEF D
  <2> QED
    BY <1>1, <1>7, <1>8, SetInduction
<1>10. G(Len(B), root)
  <2>1. Len(B) \in 0 .. Len(B)
    BY ONLY <1>1
  <2> QED
    BY <1>9, <2>1
<1>11. lo[Blk(root)] = Least /\ hi[Blk(root)] = Beyond
  BY DEF Rooted
<1> QED
  BY <1>5, <1>10, <1>11

ParentOf(root, s, r) == [nodes |-> <<s>>, children |-> <<root, r>>, tag |-> "block"]
Stub(root) == [nodes |-> <<>>, children |-> <<root>>, tag |-> "block"]

LEMMA StubWidened ==
  ASSUME NEW root \in Nat, NEW s \in Int, NEW r \in Nat
  PROVE  Widened(Stub(root), 0, s, r) = ParentOf(root, s, r)
<1>1. InsertAt(<<>>, 1, s) = <<s>>
  <2>1. PICK t, u, q : t = InsertAt(u, q, s) /\ u = <<>> /\ q = 1
    OBVIOUS
  <2>20. PICK T : T = Int
    OBVIOUS
  <2>21. u \in Seq(T) /\ s \in T /\ q \in 1 .. Len(u) + 1
    BY ONLY <2>1, <2>20, s \in Int
  <2>22. Len(u) = 0 /\ q = 1
    BY ONLY <2>1
  <2>2. InsertAt(u, q, s) \in Seq(T) /\ Len(InsertAt(u, q, s)) = Len(u) + 1 /\ InsertAt(u, q, s)[q] = s
    BY ONLY <2>21, InsertAtIs
  <2>3. t \in Seq(T) /\ Len(t) = 1 /\ t[1] = s
    BY ONLY <2>1, <2>2, <2>22
  <2>4. t = <<s>>
    BY ONLY <2>3
  <2> QED
    BY ONLY <2>1, <2>4
<1>2. InsertAt(<<root>>, 2, r) = <<root, r>>
  <2>1. PICK t, u, q : t = InsertAt(u, q, r) /\ u = <<root>> /\ q = 2
    OBVIOUS
  <2>20. PICK T : T = Nat
    OBVIOUS
  <2>21. u \in Seq(T) /\ r \in T /\ q \in 1 .. Len(u) + 1
    BY ONLY <2>1, <2>20, root \in Nat, r \in Nat
  <2>22. Len(u) = 1 /\ u[1] = root /\ q = 2
    BY ONLY <2>1
  <2>2. /\ InsertAt(u, q, r) \in Seq(T) /\ Len(InsertAt(u, q, r)) = Len(u) + 1
        /\ \A n \in 1 .. q - 1 : InsertAt(u, q, r)[n] = u[n]
        /\ InsertAt(u, q, r)[q] = r
    BY ONLY <2>21, InsertAtIs
  <2>3. t \in Seq(T) /\ Len(t) = 2 /\ t[1] = root /\ t[2] = r
    BY ONLY <2>1, <2>2, <2>22
  <2>4. t = <<root, r>>
    BY ONLY <2>3
  <2> QED
    BY ONLY <2>1, <2>4
<1>3. 0 + 1 = 1 /\ 0 + 2 = 2
  OBVIOUS
<1> QED
  BY ONLY <1>1, <1>2, <1>3 DEF Widened, Stub, ParentOf

\* What an insertion starts from.
Ready(L, B, root) ==
  /\ root \in DOMAIN B
  /\ \E h, lo, hi : /\ Start(L, B, root, h, lo, hi)
                    /\ Rooted(Nodes(L, B), root, h, lo, hi) /\ h[Blk(root)] <= Len(B)

IsGrown(B, root, j, s, r, p, B3) ==
  /\ j \in 1 .. Len(B[root].nodes) /\ s = B[root].nodes[j]
  /\ r = Len(B) + 1 /\ p = Len(B) + 2
  /\ \E B2 : IsHalved(B, root, j, B2) /\ B3 = Append(B2, ParentOf(root, s, r))

GrownTo(L, B, root, h, j, s, r, p, B3) ==
  /\ B3 \in Seq(Blocks) /\ Len(B3) = p /\ p \in Nat
  /\ DOMAIN B3 = DOMAIN B \cup {r, p} /\ B3[p] = ParentOf(root, s, r)
  /\ B3[root] = LeftOf(B[root], j) /\ B3[r] = RightOf(B[root], j)
  /\ \A d \in DOMAIN B \ {root} : B3[d] = B[d]
  /\ \E hh, ll, uu : /\ Shape(L, B3, hh, ll, uu)
                     /\ Rooted(Nodes(L, B3), p, hh, ll, uu)
                     /\ hh[Blk(p)] = h[Blk(root)] + 1

\* A full root is split under a new one.
LEMMA ShapeGrown ==
  ASSUME NEW L, NEW B \in Seq(Blocks), NEW root \in DOMAIN B,
         NEW h, NEW lo, NEW hi, Shape(L, B, h, lo, hi), Rooted(Nodes(L, B), root, h, lo, hi),
         NEW j, NEW s, NEW r, NEW p, NEW B3, IsGrown(B, root, j, s, r, p, B3)
  PROVE  GrownTo(L, B, root, h, j, s, r, p, B3)
<1>0. /\ j \in 1 .. Len(B[root].nodes) /\ s = B[root].nodes[j]
      /\ r = Len(B) + 1 /\ p = Len(B) + 2
  BY DEF IsGrown
<1>00. PICK B2 : IsHalved(B, root, j, B2) /\ B3 = Append(B2, ParentOf(root, s, r))
  BY DEF IsGrown
<1> USE <1>0, <1>00
<1>1. /\ Len(B) \in Nat /\ DOMAIN B = 1 .. Len(B) /\ B[root] \in Blocks
      /\ Ordered(Nodes(L, B), h, lo, hi)
      /\ Blk(root) \in Nodes(L, B) /\ IsBlock(B[root], Nodes(L, B), h, lo, hi, Blk(root))
  <2>1. Len(B) \in Nat /\ DOMAIN B = 1 .. Len(B) /\ \A d \in 1 .. Len(B) : B[d] \in Blocks
    BY SequenceFacts
  <2> QED
    BY <2>1, NodeFacts DEF Shape
<1>2. s \in Int
  <2>1. PICK N : N = Nodes(L, B)
    OBVIOUS
  <2>2. \A n \in 1 .. Len(B[root].nodes) : B[root].nodes[n] \in Int
    BY ONLY <1>1, BlockFacts
  <2> QED
    BY <2>2
<1>3. /\ root \in Nat /\ r \in Nat /\ p \in Nat /\ p = r + 1
      /\ r \notin DOMAIN B /\ p \notin DOMAIN B /\ r # p /\ root # r /\ root # p
  BY <1>1
<1>4. /\ B2 \in Seq(Blocks) /\ Len(B2) = r /\ DOMAIN B2 = DOMAIN B \cup {r}
      /\ B2[root] = LeftOf(B[root], j) /\ B2[r] = RightOf(B[root], j)
      /\ \A d \in DOMAIN B \ {root} : B2[d] = B[d]
  BY DEF IsHalved
<1>5. PICK e : e = ParentOf(root, s, r)
  OBVIOUS
<1>6. e \in Blocks /\ e.nodes = <<s>>
  BY ONLY <1>2, <1>3, <1>5 DEF Blocks, ParentOf
<1>7. /\ B3 \in Seq(Blocks) /\ Len(B3) = p /\ B3[p] = e
      /\ \A k \in 1 .. r : B3[k] = B2[k]
  <2>1. B3 = Append(B2, e)
    BY <1>5
  <2>2. /\ B3 \in Seq(Blocks) /\ Len(B3) = Len(B2) + 1 /\ B3[Len(B2) + 1] = e
        /\ \A k \in 1 .. Len(B2) : B3[k] = B2[k]
    BY ONLY <1>4, <1>6, <2>1, AppendProperties
  <2> QED
    BY ONLY <1>3, <1>4, <2>2
<1>8. DOMAIN B3 = DOMAIN B \cup {r, p}
  <2>1. DOMAIN B3 = 1 .. p
    BY ONLY <1>7, SequenceFacts
  <2>2. DOMAIN B2 = 1 .. r
    BY ONLY <1>4, SequenceFacts
  <2>3. 1 .. p = (1 .. r) \cup {p}
    BY ONLY <1>3
  <2> QED
    BY ONLY <1>4, <2>1, <2>2, <2>3
<1>9. /\ B3[root] = LeftOf(B[root], j) /\ B3[r] = RightOf(B[root], j)
      /\ \A d \in DOMAIN B \ {root} : B3[d] = B[d]
  <2>1. DOMAIN B2 = 1 .. r
    BY ONLY <1>4, SequenceFacts
  <2>2. \A k \in DOMAIN B2 : B3[k] = B2[k]
    BY ONLY <1>7, <2>1
  <2> QED
    BY <1>4, <2>2
<1>10. PICK BU : BU = [d \in DOMAIN B \cup {p} |-> IF d = p THEN Stub(root) ELSE B[d]]
  OBVIOUS
<1>11. /\ DOMAIN BU = DOMAIN B \cup {p} /\ BU[p] = Stub(root)
       /\ \A d \in DOMAIN B : BU[d] = B[d]
  BY ONLY <1>3, <1>10
<1>12. PICK ha, la, ua : /\ Shape(L, BU, ha, la, ua)
                         /\ Rooted(Nodes(L, BU), p, ha, la, ua)
                         /\ ha[Blk(p)] = h[Blk(root)] + 1
  <2>1. BU[p] = [nodes |-> <<>>, children |-> <<root>>, tag |-> "block"]
    BY ONLY <1>11 DEF Stub
  <2>2. IsStubbed(B, root, p, BU)
    BY ONLY <1>3, <1>11, <2>1 DEF IsStubbed
  <2> QED
    BY ONLY Shape(L, B, h, lo, hi), Rooted(Nodes(L, B), root, h, lo, hi), <1>3, <2>2, ShapeUnderNew
<1>13. IsBlockSplit(BU, p, 0, root, r, j, s, B3)
  <2>1. BU[root] = B[root] /\ root \in DOMAIN B
    BY <1>11
  <2>2. r \notin DOMAIN BU /\ DOMAIN B3 = DOMAIN BU \cup {r}
    BY ONLY <1>3, <1>8, <1>11
  <2>3. B3[p] = Widened(BU[p], 0, s, r)
    BY ONLY <1>2, <1>3, <1>5, <1>7, <1>11, StubWidened
  <2>4. \A d \in DOMAIN BU \ {p, root} : B3[d] = BU[d]
    BY ONLY <1>9, <1>11
  <2>5. j \in 1 .. Len(B[root].nodes) /\ s = B[root].nodes[j]
    OBVIOUS
  <2> QED
    BY ONLY <1>3, <1>9, <2>1, <2>2, <2>3, <2>4, <2>5 DEF IsBlockSplit
<1>14. Split(L, BU, ha, la, ua, Blk(root), Blk(r), s, L, B3)
  <2>1. IsKidAt(BU[p], 0, root) /\ BU[p].tag = "block" /\ p \in DOMAIN BU
    <3>1. /\ Stub(root).nodes = <<>> /\ Stub(root).children[1] = root /\ Stub(root).tag = "block"
          /\ Len(<<>>) = 0 /\ 0 \in 0 .. 0 /\ 0 + 1 = 1
      BY ONLY DEF Stub
    <3> QED
      BY ONLY <1>11, <3>1 DEF IsKidAt
  <2> QED
    BY ONLY <1>12, <1>13, <2>1, ShapeBlockSplit
<1>15. PICK M, x : M = Nodes(L, BU) /\ x = Blk(root)
  OBVIOUS
<1>16. PICK hh, ll, uu : /\ Shape(L, B3, hh, ll, uu)
                         /\ IsSplit(M, ha, la, ua, x, Blk(r), s, Nodes(L, B3), hh, ll, uu)
  BY ONLY <1>14, <1>15 DEF Split
<1>17. Ordered(M, ha, la, ua) /\ Ordered(Nodes(L, B3), hh, ll, uu)
  BY ONLY <1>12, <1>15, <1>16 DEF Shape
<1>18. x \in M /\ ha[x] < ha[Blk(p)] /\ ha[Blk(p)] \in Nat
  <2>1. /\ root \in DOMAIN BU /\ BU[p] = Stub(root) /\ p \in DOMAIN BU
    BY <1>11
  <2>2. x \in M /\ Blk(p) \in M /\ IsBlock(Stub(root), M, ha, la, ua, Blk(p))
    <3>1. \A d \in DOMAIN BU : Blk(d) \in Nodes(L, BU)
      BY ONLY NodeFacts
    <3> QED
      BY ONLY <1>12, <1>15, <2>1, <3>1 DEF Shape
  <2>3. Len(Stub(root).children) = 1 /\ Kid(Stub(root), 1) = x
    BY ONLY <1>15 DEF Stub, Kid, Blk
  <2>4. ha[x] + 1 = ha[Blk(p)] /\ ha[x] \in Nat
    <3>1. PICK st, q, z : st = Stub(root) /\ q = 1 /\ z = Blk(p)
      OBVIOUS
    <3>200. Len(st.children) = 1
      BY ONLY <2>3, <3>1
    <3>201. Kid(st, 1) = x
      BY ONLY <2>3, <3>1
    <3>202. Kid(st, q) = x
      BY ONLY <3>1, <3>201, Zenon
    <3>203. q \in 1 .. Len(st.children)
      BY ONLY <3>1, <3>200
    <3>20. q \in 1 .. Len(st.children) /\ Kid(st, q) = x
      BY ONLY <3>202, <3>203
    <3>21. z \in M /\ IsBlock(st, M, ha, la, ua, z)
      BY ONLY <2>2, <3>1
    <3>2. /\ q \in 1 .. Len(st.children) /\ Kid(st, q) = x
          /\ z \in M /\ IsBlock(st, M, ha, la, ua, z)
      BY ONLY <3>20, <3>21
    <3>3. ha[Kid(st, q)] \in Nat /\ ha[Kid(st, q)] + 1 = ha[z]
      BY ONLY <1>17, <3>2, KidFacts
    <3> QED
      BY ONLY <3>1, <3>2, <3>3
  <2> QED
    BY ONLY <2>2, <2>4
<1>19. Keeps(M, ha, la, ua, Nodes(L, B3), hh, ll, uu, ha[Blk(p)])
  BY ONLY <1>16, <1>17, <1>18, SplitKeeps
<1>20. Rooted(Nodes(L, B3), p, hh, ll, uu) /\ hh[Blk(p)] = ha[Blk(p)]
  <2>1. ha[Blk(p)] <= ha[Blk(p)]
    BY ONLY <1>18
  <2> QED
    BY ONLY <1>12, <1>15, <1>17, <1>18, <1>19, <2>1, KeepsRoot
<1>21. \E hf, lf, uf : /\ Shape(L, B3, hf, lf, uf)
                       /\ Rooted(Nodes(L, B3), p, hf, lf, uf)
                       /\ hf[Blk(p)] = h[Blk(root)] + 1
  BY ONLY <1>12, <1>16, <1>20
<1> QED
  BY ONLY <1>3, <1>5, <1>7, <1>8, <1>9, <1>21 DEF GrownTo

LEMMA GrownReady ==
  ASSUME NEW L \in Seq(Leaves), NEW B \in Seq(Blocks), NEW root \in DOMAIN B,
         NEW h, NEW lo, NEW hi, Shape(L, B, h, lo, hi), Rooted(Nodes(L, B), root, h, lo, hi),
         h[Blk(root)] <= Len(B), LeavesFit(L), LeavesUsed(L), BlocksFit(B, root, {root}),
         NEW g, g = Grown(Mem(L, B), root)
  PROVE  \/ g.mem.exited = "blocks"
         \/ \E B3 : g.mem = Mem(L, B3) /\ Ready(L, B3, g.root)
<1>1. PICK m, split, s0 : /\ m = Mem(L, B) /\ split = SplitBlock(m, root)
                          /\ s0 = SplitKey(m.blocks[root])
  OBVIOUS
<1>2. m.blocks = B
  BY <1>1, MemFacts
<1>3. g = IF ~Full(B[root].nodes, CAP_NODES) THEN [mem |-> m, root |-> root]
          ELSE IF split.exited # "none" \/ CAP_BLOCKS <= Len(split.blocks)
          THEN [mem |-> Exit(split, "blocks"), root |-> root]
          ELSE [mem |-> [split EXCEPT !.blocks =
                           Append(@, [nodes |-> <<s0>>,
                                      children |-> <<root, Len(split.blocks)>>, tag |-> "block"])],
                root |-> Len(split.blocks) + 1]
  <2>1. g = Grown(m, root)
    BY <1>1
  <2>2. g = IF ~Full(m.blocks[root].nodes, CAP_NODES) THEN [mem |-> m, root |-> root]
          ELSE IF split.exited # "none" \/ CAP_BLOCKS <= Len(split.blocks)
          THEN [mem |-> Exit(split, "blocks"), root |-> root]
          ELSE [mem |-> [split EXCEPT !.blocks =
                           Append(@, [nodes |-> <<s0>>,
                                      children |-> <<root, Len(split.blocks)>>, tag |-> "block"])],
                root |-> Len(split.blocks) + 1]
    BY ONLY <1>1, <2>1, Zenon DEF Grown
  <2> QED
    BY ONLY <1>2, <2>2
<1>4. /\ Len(B) \in Nat /\ DOMAIN B = 1 .. Len(B) /\ \A d \in DOMAIN B : B[d] \in Blocks
  <2>1. Len(B) \in Nat /\ DOMAIN B = 1 .. Len(B) /\ \A d \in 1 .. Len(B) : B[d] \in Blocks
    BY SequenceFacts
  <2> QED
    BY <2>1
<1>5. \A d \in DOMAIN B : /\ Len(B[d].nodes) <= CAP_NODES
                          /\ Len(B[d].nodes) = CAP_NODES => d = root
                          /\ B[d].nodes = <<>> => d = root /\ B[d].tag = "leafs"
                          /\ Len(B[d].nodes) \in Nat
  <2> SUFFICES ASSUME NEW d \in DOMAIN B
               PROVE  /\ Len(B[d].nodes) <= CAP_NODES
                      /\ Len(B[d].nodes) = CAP_NODES => d = root
                      /\ B[d].nodes = <<>> => d = root /\ B[d].tag = "leafs"
                      /\ Len(B[d].nodes) \in Nat
    OBVIOUS
  <2>1. B[d] \in Blocks
    BY <1>4
  <2>2. Len(B[d].nodes) \in Nat
    BY ONLY <2>1, SequenceFacts DEF Blocks
  <2> QED
    BY <2>2 DEF BlocksFit
<1>6. CASE ~Full(B[root].nodes, CAP_NODES)
  <2>1. g.mem = Mem(L, B) /\ g.root = root
    BY ONLY <1>1, <1>3, <1>6
  <2>2. BlocksFit(B, root, {})
    <3>1. Len(B[root].nodes) # CAP_NODES
      BY ONLY <1>6, CapAssumption DEF Full
    <3> QED
      BY ONLY <1>5, <3>1 DEF BlocksFit
  <2>3. Start(L, B, root, h, lo, hi)
    BY <2>2 DEF Start
  <2>4. Ready(L, B, g.root)
    BY <2>1, <2>3 DEF Ready
  <2> QED
    BY ONLY <2>1, <2>4
<1>7. CASE Full(B[root].nodes, CAP_NODES)
  <2>1. Len(B[root].nodes) = CAP_NODES
    BY ONLY <1>5, <1>7, CapAssumption, root \in DOMAIN B DEF Full
  <2>2. PICK j, r, s, p : /\ j = CAP_NODES \div 2 + 1 /\ r = Len(B) + 1 /\ s = B[root].nodes[j]
                          /\ p = Len(B) + 2
    OBVIOUS
  <2>3. /\ CAP_NODES \div 2 \in Int /\ CAP_NODES \in Nat /\ j \in 1 .. CAP_NODES
        /\ 0 < j - 1 /\ j - 1 < CAP_NODES /\ 0 < CAP_NODES - j /\ CAP_NODES - j < CAP_NODES
    BY ONLY <2>2, SplitPoint
  <2>4. PICK B2 : B2 = BlockHalved(B, root, j)
    OBVIOUS
  <2>5. (split.exited = "blocks" \/ split = Mem(L, B2)) /\ s0 = s
    <3>1. /\ j = CAP_NODES \div 2 + 1 /\ CAP_NODES \div 2 \in Int /\ B[root] \in Blocks
          /\ Len(B[root].nodes) = CAP_NODES /\ CAP_NODES \in Nat /\ root \in DOMAIN B
          /\ split = SplitBlock(Mem(L, B), root)
      BY <1>1, <1>4, <2>1, <2>2, <2>3
    <3>2. /\ split.exited = "blocks" \/ split = Mem(L, BlockHalved(B, root, j))
          /\ SplitKey(B[root]) = B[root].nodes[j]
      BY ONLY <3>1, SplitBlockIs
    <3> QED
      BY ONLY <1>1, <1>2, <2>2, <2>4, <3>2
  <2>6. CASE split.exited = "blocks"
    <3>1. g.mem = Exit(split, "blocks")
      BY ONLY <1>3, <1>7, <2>6
    <3>2. PICK L2, B4 : split = Exit(Mem(L2, B4), "blocks")
      <4>1. split = IF CAP_BLOCKS <= Len(B) THEN Exit(m, "blocks") ELSE split
        BY <1>1, <1>2 DEF SplitBlock
      <4>2. CAP_BLOCKS <= Len(B)
        <5>1. CASE ~(CAP_BLOCKS <= Len(B))
          <6>1. \E X : split = [m EXCEPT !.blocks = X]
            BY ONLY <1>1, <1>2, <5>1 DEF SplitBlock
          <6>2. split.exited = "none"
            BY ONLY <1>1, <6>1 DEF Mem
          <6> QED
            BY ONLY <2>6, <6>2
        <5> QED
          BY <5>1
      <4> QED
        BY ONLY <1>1, <4>1, <4>2
    <3>3. g.mem.exited = "blocks"
      BY ONLY <3>1, <3>2 DEF Mem, Exit
    <3> QED
      BY ONLY <3>3
  <2>7. CASE split = Mem(L, B2)
    <3>1. split.exited = "none" /\ split.blocks = B2
      BY ONLY <2>7, MemFacts
    <3>2. CASE CAP_BLOCKS <= Len(B2)
      <4>1. g.mem = Exit(Mem(L, B2), "blocks")
        BY ONLY <1>3, <1>7, <2>7, <3>1, <3>2
      <4> QED
        BY ONLY <4>1, ExitFacts
    <3>3. CASE ~(CAP_BLOCKS <= Len(B2))
      <4>1. IsHalved(B, root, j, B2)
        <5>1. Len(B[root].children) = Len(B[root].nodes) + 1
          BY NodeFacts DEF Shape, IsBlock
        <5>2. j \in 1 .. Len(B[root].nodes) /\ root \in DOMAIN B /\ B \in Seq(Blocks)
          BY <2>1, <2>3
        <5> QED
          BY ONLY <2>4, <5>1, <5>2, BlockHalvedIs
      <4>2. Len(B2) = r
        BY ONLY <2>2, <4>1 DEF IsHalved
      <4>3. PICK B3 : B3 = Append(B2, ParentOf(root, s, r))
        OBVIOUS
      <4>4. g.mem = Mem(L, B3) /\ g.root = p
        <5>1. g = [mem |-> [split EXCEPT !.blocks =
                              Append(@, [nodes |-> <<s0>>,
                                         children |-> <<root, Len(split.blocks)>>,
                                         tag |-> "block"])],
                   root |-> Len(split.blocks) + 1]
          BY ONLY <1>3, <1>7, <3>1, <3>3
        <5>2. [nodes |-> <<s0>>, children |-> <<root, Len(split.blocks)>>, tag |-> "block"]
                = ParentOf(root, s, r)
          BY ONLY <2>5, <3>1, <4>2 DEF ParentOf
        <5>3. g.mem = [split EXCEPT !.blocks = Append(@, ParentOf(root, s, r))]
          BY ONLY <5>1, <5>2
        <5>30. g.mem = [split EXCEPT !.blocks = B3]
          BY ONLY <3>1, <4>3, <5>3
        <5>4. \A X : [Mem(L, B2) EXCEPT !.blocks = X] = Mem(L, X)
          BY ONLY DEF Mem
        <5>5. g.mem = Mem(L, B3)
          BY ONLY <2>7, <5>30, <5>4
        <5>6. g.root = Len(split.blocks) + 1
          BY ONLY <5>1
        <5>7. g.root = p
          BY ONLY <1>4, <2>2, <3>1, <4>2, <5>6
        <5> QED
          BY ONLY <5>5, <5>7
      <4>5. /\ B3 \in Seq(Blocks) /\ Len(B3) = p /\ p \in Nat
            /\ DOMAIN B3 = DOMAIN B \cup {r, p} /\ B3[p] = ParentOf(root, s, r)
            /\ B3[root] = LeftOf(B[root], j) /\ B3[r] = RightOf(B[root], j)
            /\ \A d \in DOMAIN B \ {root} : B3[d] = B[d]
            /\ \E hh, ll, uu : /\ Shape(L, B3, hh, ll, uu)
                               /\ Rooted(Nodes(L, B3), p, hh, ll, uu)
                               /\ hh[Blk(p)] = h[Blk(root)] + 1
        <5>1. j \in 1 .. Len(B[root].nodes)
          BY ONLY <2>1, <2>3
        <5>2. IsGrown(B, root, j, s, r, p, B3)
          BY ONLY <2>2, <4>1, <4>3, <5>1 DEF IsGrown
        <5>3. GrownTo(L, B, root, h, j, s, r, p, B3)
          BY ONLY B \in Seq(Blocks), root \in DOMAIN B, Shape(L, B, h, lo, hi),
                  Rooted(Nodes(L, B), root, h, lo, hi), <5>2, ShapeGrown
        <5> QED
          BY ONLY <5>3 DEF GrownTo
      <4>6. PICK hh, ll, uu : /\ Shape(L, B3, hh, ll, uu)
                              /\ Rooted(Nodes(L, B3), p, hh, ll, uu)
                              /\ hh[Blk(p)] = h[Blk(root)] + 1
        BY <4>5
      <4>7. hh[Blk(p)] <= Len(B3)
        <5>1. h[Blk(root)] \in Nat
          <6>1. Ordered(Nodes(L, B), h, lo, hi) /\ Blk(root) \in Nodes(L, B)
            BY NodeFacts DEF Shape
          <6> QED
            BY ONLY <6>1 DEF Ordered
        <5>2. h[Blk(root)] <= Len(B)
          OBVIOUS
        <5> QED
          BY ONLY <1>4, <2>2, <4>5, <4>6, <5>1, <5>2
      <4>8. BlocksFit(B3, p, {})
        <5>1. Len(B3[root].nodes) = j - 1 /\ Len(B3[r].nodes) = CAP_NODES - j
          <6>1. B[root] \in Blocks /\ j \in 1 .. Len(B[root].nodes) /\ Len(B[root].nodes) = CAP_NODES
            BY <1>4, <2>1, <2>3
          <6> QED
            BY ONLY <4>5, <6>1, HalvesFacts
        <5>2. B3[p].nodes = <<s>> /\ Len(<<s>>) = 1 /\ Len(<<>>) = 0
          BY ONLY <4>5 DEF ParentOf
        <5>3. 1 < CAP_NODES
          BY CapAssumption
        <5>4. ASSUME NEW d \in DOMAIN B3
              PROVE  /\ Len(B3[d].nodes) <= CAP_NODES
                     /\ Len(B3[d].nodes) = CAP_NODES => d \in {}
                     /\ B3[d].nodes = <<>> => d = p /\ B3[d].tag = "leafs"
          <6>1. CASE d = p
            <7>1. Len(B3[d].nodes) = 1
              BY ONLY <5>2, <6>1
            <7>2. B3[d].nodes # <<>>
              <8>1. B3[d].nodes = <<s>> /\ <<s>> # <<>>
                BY ONLY <5>2, <6>1
              <8> QED
                BY ONLY <8>1
            <7>3. 1 <= CAP_NODES /\ 1 # CAP_NODES
              BY ONLY <5>3, <2>3
            <7> QED
              BY ONLY <7>1, <7>2, <7>3
          <6>2. CASE d = root \/ d = r
            BY ONLY <2>3, <5>1, <5>2, <6>2
          <6>3. CASE d # p /\ d # root /\ d # r
            <7>1. d \in DOMAIN B /\ B3[d] = B[d]
              BY ONLY <4>5, <5>4, <6>3
            <7> QED
              BY ONLY <1>5, <6>3, <7>1
          <6> QED
            BY <6>1, <6>2, <6>3
        <5> QED
          BY <5>4 DEF BlocksFit
      <4>9. Start(L, B3, p, hh, ll, uu)
        BY <4>5, <4>6, <4>8 DEF Start
      <4>10. Ready(L, B3, g.root)
        <5>1. p \in DOMAIN B3
          BY ONLY <4>5
        <5> QED
          BY ONLY <4>4, <4>6, <4>7, <4>9, <5>1 DEF Ready
      <4> QED
        BY ONLY <4>4, <4>10
    <3> QED
      BY <3>2, <3>3
  <2> QED
    BY <2>5, <2>6, <2>7
<1> QED
  BY <1>6, <1>7

LEMMA ReadyInit ==
  ASSUME Init
  PROVE  Ready(leafs, blocks, tree) /\ exited = "none" /\ leafs = <<NewLeafs>> /\ Contents(leafs) = {}
<1>1. PICK L, B, b1 : /\ L = <<NewLeafs>> /\ B = <<b1>>
                      /\ b1 = [nodes |-> <<>>, children |-> <<1>>, tag |-> "leafs"]
  OBVIOUS
<1>2. leafs = L /\ blocks = B /\ tree = 1 /\ exited = "none"
  <2>1. leafs = <<NewLeafs>> /\ tree = 1 /\ exited = "none"
        /\ blocks = <<[nodes |-> <<>>, children |-> <<1>>, tag |-> "leafs"]>>
    BY DEF Init
  <2> QED
    BY ONLY <1>1, <2>1
<1>3. PICK N, x, y : N = Nodes(L, B) /\ x = Blk(1) /\ y = Lf(1)
  OBVIOUS
<1>4. DOMAIN L = {1} /\ DOMAIN B = {1} /\ L[1] = NewLeafs /\ B[1] = b1 /\ Len(B) = 1
  BY ONLY <1>1
<1>5. N = {x, y} /\ x # y
  <2>1. N = {Blk(b) : b \in {1}} \cup {Lf(l) : l \in {1}}
    BY ONLY <1>3, <1>4 DEF Nodes
  <2>2. x # y
    BY ONLY <1>3, NodeFacts
  <2> QED
    BY ONLY <1>3, <2>1, <2>2
<1>6. PICK h, lo, hi : /\ h = [z \in N |-> IF z = x THEN 1 ELSE 0]
                       /\ lo = [z \in N |-> Least] /\ hi = [z \in N |-> Beyond]
  OBVIOUS
<1>7. /\ h[x] = 1 /\ h[y] = 0 /\ lo[x] = Least /\ lo[y] = Least /\ hi[x] = Beyond /\ hi[y] = Beyond
      /\ h \in [N -> Nat] /\ lo \in [N -> Int] /\ hi \in [N -> Int]
  <2>1. Least \in Int /\ Beyond \in Int
    BY DEF Least, Beyond
  <2> QED
    BY <1>5, <1>6, <2>1
<1>8. Ordered(N, h, lo, hi)
  <2>1. Least <= Least /\ Least < Beyond /\ Beyond <= Beyond
    BY DEF Least, Beyond
  <2>2. \A z \in N : Least <= lo[z] /\ lo[z] < hi[z] /\ hi[z] <= Beyond
    BY ONLY <1>5, <1>7, <2>1
  <2>3. \A z, w \in N : h[z] = h[w] /\ z # w => hi[z] <= lo[w] \/ hi[w] <= lo[z]
    BY ONLY <1>5, <1>7
  <2> QED
    BY ONLY <1>7, <2>2, <2>3 DEF Ordered
<1>9. IsLeaf(L[1], N, h, lo, hi, y)
  <2>1. NewLeafs = [buffer |-> <<>>, next |-> 0] /\ <<>> \in Seq(Entries) /\ Len(<<>>) = 0
    BY DEF NewLeafs
  <2>2. PICK u : u = <<>>
    OBVIOUS
  <2>3. /\ u \in Seq(Entries) /\ 0 \in Nat
        /\ \A m, n \in 1 .. Len(u) : m < n => u[m].key < u[n].key
        /\ \A n \in 1 .. Len(u) : lo[y] <= u[n].key /\ u[n].key < hi[y]
    BY ONLY <2>1, <2>2
  <2>4. IF hi[y] = Beyond THEN 0 = 0 ELSE Lf(0) \in N /\ lo[Lf(0)] = hi[y]
    BY ONLY <1>7
  <2>5. IsLeaf([buffer |-> u, next |-> 0], N, h, lo, hi, y)
    BY ONLY <1>7, <2>3, <2>4, IsLeafFrom
  <2> QED
    BY ONLY <1>4, <2>1, <2>2, <2>5
<1>10. IsBlock(B[1], N, h, lo, hi, x)
  <2>1. PICK nodes, children, tag : nodes = <<>> /\ children = <<1>> /\ tag = "leafs"
    OBVIOUS
  <2>2. /\ nodes \in Seq(Int) /\ children \in Seq(Nat) /\ tag \in {"leafs", "block"}
        /\ Len(nodes) = 0 /\ Len(children) = 1 /\ children[1] = 1
    BY ONLY <2>1
  <2>3. <<tag, children[1]>> = y
    BY ONLY <1>3, <2>1 DEF Lf
  <2>4. ASSUME NEW i \in 1 .. Len(children)
        PROVE  /\ <<tag, children[i]>> \in N
               /\ h[<<tag, children[i]>>] + 1 = h[x]
               /\ lo[<<tag, children[i]>>] = IF i = 1 THEN lo[x] ELSE nodes[i - 1]
               /\ hi[<<tag, children[i]>>] = IF i = Len(nodes) + 1 THEN hi[x] ELSE nodes[i]
    <3>1. i = 1 /\ i = Len(nodes) + 1
      BY ONLY <2>2, <2>4
    <3>2. <<tag, children[i]>> = y
      BY ONLY <2>3, <3>1
    <3> QED
      BY ONLY <1>5, <1>7, <3>1, <3>2
  <2>5. /\ Len(children) = Len(nodes) + 1
        /\ \A m, n \in 1 .. Len(nodes) : m < n => nodes[m] < nodes[n]
        /\ \A n \in 1 .. Len(nodes) : lo[x] < nodes[n] /\ nodes[n] < hi[x]
    BY ONLY <2>2
  <2>6. IsBlock([nodes |-> nodes, children |-> children, tag |-> tag], N, h, lo, hi, x)
    BY ONLY <2>2, <2>4, <2>5, IsBlockFrom
  <2> QED
    BY ONLY <1>1, <1>4, <2>1, <2>6
<1>11. Shape(L, B, h, lo, hi)
  <2>1. \A l \in DOMAIN L : IsLeaf(L[l], N, h, lo, hi, Lf(l))
    BY ONLY <1>3, <1>4, <1>9
  <2>2. \A b \in DOMAIN B : IsBlock(B[b], N, h, lo, hi, Blk(b))
    BY ONLY <1>3, <1>4, <1>10
  <2> QED
    BY ONLY <1>3, <1>8, <2>1, <2>2 DEF Shape
<1>12. Rooted(N, 1, h, lo, hi) /\ h[Blk(1)] <= Len(B)
  <2>1. \A z \in N : h[z] <= h[Blk(1)]
    BY ONLY <1>3, <1>5, <1>7
  <2> QED
    BY ONLY <1>3, <1>4, <1>5, <1>7, <2>1 DEF Rooted
<1>13. L \in Seq(Leaves) /\ B \in Seq(Blocks)
  <2>1. L[1] \in Leaves /\ B[1] \in Blocks
    BY ONLY <1>9, <1>10 DEF IsLeaf, IsBlock
  <2>2. PICK e, S : e = L[1] /\ S = Leaves
    OBVIOUS
  <2>3. <<e>> \in Seq(S)
    BY ONLY <2>1, <2>2
  <2>4. PICK f, T : f = B[1] /\ T = Blocks
    OBVIOUS
  <2>5. <<f>> \in Seq(T)
    BY ONLY <2>1, <2>4
  <2> QED
    BY ONLY <1>1, <1>4, <2>2, <2>3, <2>4, <2>5
<1>14. LeavesFit(L) /\ BlocksFit(B, 1, {})
  <2>1. Len(L[1].buffer) = 0 /\ Len(B[1].nodes) = 0 /\ B[1].tag = "leafs"
    BY ONLY <1>1, <1>4 DEF NewLeafs
  <2>2. 0 < CAP_LEAF_BUFFER /\ 0 <= CAP_NODES /\ 0 # CAP_NODES
    BY CapAssumption
  <2> QED
    BY ONLY <1>4, <2>1, <2>2 DEF LeavesFit, BlocksFit
<1>15. Ready(L, B, 1)
  <2>1. Start(L, B, 1, h, lo, hi)
    BY ONLY <1>1, <1>11, <1>13, <1>14 DEF Start
  <2> QED
    BY ONLY <1>3, <1>4, <1>12, <2>1 DEF Ready
<1>16. Contents(L) = {}
  <2>1. KeySet(L[1].buffer) = {}
    BY ONLY <1>4 DEF NewLeafs, KeySet
  <2> QED
    BY ONLY <1>4, <2>1 DEF Contents
<1> QED
  BY ONLY <1>1, <1>2, <1>15, <1>16

\* One insertion ends the program and leaves the tree as it was, or adds its key.
LEMMA InsertTreeIs ==
  ASSUME Ready(leafs, blocks, tree), NEW key \in Keys, insert_tree(key)
  PROVE  /\ exited = "none" /\ Ready(leafs, blocks, tree)'
         /\ \/ exited' \in {"duplicate", "leafs", "blocks"} /\ UNCHANGED <<leafs, blocks, tree>>
            \/ /\ exited' = "none" /\ key \notin Contents(leafs)
               /\ Contents(leafs)' = Contents(leafs) \cup {key}
               /\ LeavesUsed(leafs)'
<1>1. PICK L, B, r, ex, L2, B2, r2, ex2 :
        /\ L = leafs /\ B = blocks /\ r = tree /\ ex = exited
        /\ L2 = leafs' /\ B2 = blocks' /\ r2 = tree' /\ ex2 = exited'
  OBVIOUS
<1>2. Ready(L, B, r)
  BY <1>1
<1>3. PICK mem, put, grown :
        /\ mem = Mem(L, B) /\ put = insert_block(mem, r, EntryOf(key))
        /\ grown = IF put.exited # "none" THEN [mem |-> put, root |-> r] ELSE Grown(put, r)
  OBVIOUS
<1>4. /\ ex = "none"
      /\ IF grown.mem.exited # "none"
         THEN ex2 = grown.mem.exited /\ L2 = L /\ B2 = B /\ r2 = r
         ELSE L2 = grown.mem.leafs /\ B2 = grown.mem.blocks /\ r2 = grown.root /\ ex2 = ex
  <2>1. /\ mem = [leafs |-> leafs, blocks |-> blocks, exited |-> "none"]
        /\ EntryOf(key) = [key |-> key, value |-> ValueOf(key)]
    BY ONLY <1>1, <1>3 DEF Mem, EntryOf
  <2>2. /\ put = insert_block([leafs |-> leafs, blocks |-> blocks, exited |-> "none"], tree,
                              [key |-> key, value |-> ValueOf(key)])
        /\ grown = IF put.exited # "none" THEN [mem |-> put, root |-> tree] ELSE Grown(put, tree)
    BY ONLY <1>1, <1>3, <2>1
  <2>3. /\ exited = "none"
        /\ IF grown.mem.exited # "none"
           THEN exited' = grown.mem.exited /\ UNCHANGED <<leafs, blocks, tree>>
           ELSE leafs' = grown.mem.leafs /\ blocks' = grown.mem.blocks
                /\ tree' = grown.root /\ UNCHANGED exited
    BY ONLY <2>2, insert_tree(key), Zenon DEF insert_tree
  <2> QED
    BY ONLY <1>1, <2>3
<1>5. PICK h, lo, hi : /\ Start(L, B, r, h, lo, hi) /\ r \in DOMAIN B
                       /\ Rooted(Nodes(L, B), r, h, lo, hi) /\ h[Blk(r)] <= Len(B)
  BY ONLY <1>2 DEF Ready
<1>6. key \in Int /\ Least <= key /\ key < Beyond
  <2>1. key \in Key
    <3>1. key \in Keys
      OBVIOUS
    <3> QED
      BY ONLY <3>1, KeysAssumption
  <2>2. \A k \in Key : k \in Int /\ Least <= k /\ k < Beyond
    BY ONLY SMT DEF Key, Least, Beyond
  <2> QED
    BY ONLY <2>1, <2>2
<1>7. Good(L, B, r, h, lo, hi, key, r, put)
  BY ONLY <1>3, <1>5, <1>6, InsertBlockGood
<1>8. \/ ex2 \in {"duplicate", "leafs", "blocks"} /\ L2 = L /\ B2 = B /\ r2 = r
      \/ /\ ex2 = "none" /\ Ready(L2, B2, r2) /\ LeavesUsed(L2)
         /\ Contents(L2) = Contents(L) \cup {key} /\ key \notin Contents(L)
  <2>1. CASE put.exited \in {"duplicate", "leafs", "blocks"}
    <3>1. grown.mem = put
      BY ONLY <1>3, <2>1
    <3> QED
      BY ONLY <1>4, <2>1, <3>1
  <2>2. CASE \E L3, B3 : put = Mem(L3, B3) /\ Done(L, B, r, h, lo, hi, key, r, L3, B3)
    <3>1. PICK L3, B3 : put = Mem(L3, B3) /\ Done(L, B, r, h, lo, hi, key, r, L3, B3)
      BY ONLY <2>2
    <3>2. put.exited = "none"
      BY ONLY <3>1, MemFacts
    <3>3. grown = Grown(Mem(L3, B3), r)
      BY ONLY <1>3, <3>1, <3>2
    <3>4. /\ L3 \in Seq(Leaves) /\ B3 \in Seq(Blocks) /\ Len(B) <= Len(B3)
          /\ Contents(L3) = Contents(L) \cup {key} /\ key \notin Contents(L)
          /\ LeavesFit(L3) /\ LeavesUsed(L3) /\ BlocksFit(B3, r, {r})
          /\ \E hh, ll, uu : /\ Shape(L3, B3, hh, ll, uu)
                             /\ Keeps(Nodes(L, B), h, lo, hi, Nodes(L3, B3), hh, ll, uu, h[Blk(r)])
      BY ONLY <3>1 DEF Done
    <3>5. PICK hh, ll, uu : /\ Shape(L3, B3, hh, ll, uu)
                            /\ Keeps(Nodes(L, B), h, lo, hi, Nodes(L3, B3), hh, ll, uu, h[Blk(r)])
      BY ONLY <3>4
    <3>6. /\ Ordered(Nodes(L, B), h, lo, hi) /\ h[Blk(r)] \in Nat /\ Len(B) \in Nat
          /\ Len(B3) \in Nat /\ Ordered(Nodes(L3, B3), hh, ll, uu) /\ r \in DOMAIN B3
      <4>1. /\ Ordered(Nodes(L, B), h, lo, hi) /\ h[Blk(r)] \in Nat /\ Len(B) \in Nat
            /\ DOMAIN B = 1 .. Len(B)
        BY ONLY <1>5, StartFacts
      <4>2. Len(B3) \in Nat /\ DOMAIN B3 = 1 .. Len(B3)
        BY ONLY <3>4, SequenceFacts
      <4>3. Ordered(Nodes(L3, B3), hh, ll, uu)
        BY ONLY <3>5 DEF Shape
      <4>4. r \in DOMAIN B3
        BY ONLY <1>5, <3>4, <4>1, <4>2
      <4> QED
        BY ONLY <4>1, <4>2, <4>3, <4>4
    <3>7. Rooted(Nodes(L3, B3), r, hh, ll, uu) /\ hh[Blk(r)] = h[Blk(r)]
      <4>1. h[Blk(r)] <= h[Blk(r)]
        BY ONLY <3>6
      <4> QED
        BY ONLY <1>5, <3>5, <3>6, <4>1, KeepsRoot
    <3>8. hh[Blk(r)] <= Len(B3)
      BY ONLY <1>5, <3>4, <3>6, <3>7
    <3>9. \/ grown.mem.exited = "blocks"
          \/ \E B4 : grown.mem = Mem(L3, B4) /\ Ready(L3, B4, grown.root)
      BY ONLY <3>3, <3>4, <3>5, <3>6, <3>7, <3>8, GrownReady
    <3>10. CASE grown.mem.exited = "blocks"
      BY ONLY <1>4, <3>10
    <3>11. CASE \E B4 : grown.mem = Mem(L3, B4) /\ Ready(L3, B4, grown.root)
      <4>1. PICK B4 : grown.mem = Mem(L3, B4) /\ Ready(L3, B4, grown.root)
        BY ONLY <3>11
      <4>2. grown.mem.exited = "none" /\ grown.mem.leafs = L3 /\ grown.mem.blocks = B4
        BY ONLY <4>1, MemFacts
      <4>3. L2 = L3 /\ B2 = B4 /\ r2 = grown.root /\ ex2 = "none"
        BY ONLY <1>4, <4>2
      <4> QED
        BY ONLY <3>4, <4>1, <4>3
    <3> QED
      BY ONLY <3>9, <3>10, <3>11
  <2> QED
    BY ONLY <1>7, <2>1, <2>2 DEF Good
<1>9. Ready(L2, B2, r2)
  BY ONLY <1>2, <1>8
<1>10. \/ ex2 \in {"duplicate", "leafs", "blocks"} /\ L2 = L /\ B2 = B /\ r2 = r
       \/ /\ ex2 = "none" /\ key \notin Contents(L)
          /\ Contents(L2) = Contents(L) \cup {key} /\ LeavesUsed(L2)
  BY ONLY <1>8
<1>11. /\ exited = "none" /\ Ready(leafs', blocks', tree')
       /\ \/ exited' \in {"duplicate", "leafs", "blocks"} /\ UNCHANGED <<leafs, blocks, tree>>
          \/ /\ exited' = "none" /\ key \notin Contents(leafs)
             /\ Contents(leafs') = Contents(leafs) \cup {key} /\ LeavesUsed(leafs')
  BY ONLY <1>1, <1>4, <1>9, <1>10
<1> QED
  BY <1>11 DEF Ready, Contents, LeavesUsed

\* The recursion of lookup_block, down to level n.
LeafAt(B, f, call, key) ==
  LET block == B[call[2]]
      child == ChildFor(block, key)
  IN  IF call[1] = 0 \/ block.tag = "leafs" THEN child ELSE f[Below(call, child)]
Lookups(f, B, key, n) == f = [call \in (0 .. n) \X DOMAIN B |-> LeafAt(B, f, call, key)]

LEMMA LookupsExist ==
  ASSUME NEW B, NEW key, NEW n \in Nat,
         \A b \in DOMAIN B : B[b].tag # "leafs" => ChildFor(B[b], key) \in DOMAIN B
  PROVE  \E f : Lookups(f, B, key, n)
<1> DEFINE D == {m \in Nat : \E f : Lookups(f, B, key, m)}
<1>0. PICK P : P = DOMAIN B
  OBVIOUS
<1>1. 0 \in D
  <2> DEFINE f == [call \in (0 .. 0) \X P |-> ChildFor(B[call[2]], key)]
  <2>1. \A call \in (0 .. 0) \X P : LeafAt(B, f, call, key) = ChildFor(B[call[2]], key)
    <3> HIDE DEF f
    <3> SUFFICES ASSUME NEW call \in (0 .. 0) \X P
                 PROVE  LeafAt(B, f, call, key) = ChildFor(B[call[2]], key)
      OBVIOUS
    <3>1. call[1] = 0
      OBVIOUS
    <3> QED
      BY ONLY <3>1, Zenon DEF LeafAt
  <2>2. f = [call \in (0 .. 0) \X P |-> LeafAt(B, f, call, key)]
    BY ONLY <2>1, Zenon
  <2> HIDE DEF f
  <2>3. Lookups(f, B, key, 0)
    BY ONLY <1>0, <2>2 DEF Lookups
  <2> QED
    BY <2>3
<1>2. ASSUME NEW m \in Nat, m \in D PROVE m + 1 \in D
  <2>1. PICK f : f = [call \in (0 .. m) \X P |-> LeafAt(B, f, call, key)]
    BY <1>0, <1>2 DEF Lookups
  <2> DEFINE g == [call \in (0 .. m + 1) \X P |-> LeafAt(B, f, call, key)]
  <2>2. \A call \in (0 .. m) \X P : g[call] = f[call]
    <3>1. (0 .. m) \X P \subseteq (0 .. m + 1) \X P
      OBVIOUS
    <3> QED
      BY ONLY <2>1, <3>1, Zenon
  <2>3. ASSUME NEW call \in (0 .. m + 1) \X P
        PROVE  LeafAt(B, g, call, key) = LeafAt(B, f, call, key)
    <3>1. PICK b, block, child : /\ b = call[2] /\ block = B[b] /\ child = ChildFor(block, key)
      OBVIOUS
    <3>2. CASE call[1] = 0 \/ block.tag = "leafs"
      <4> HIDE DEF g
      <4> QED
        BY ONLY <3>1, <3>2, Zenon DEF LeafAt
    <3>3. CASE call[1] # 0 /\ block.tag # "leafs"
      <4>1. b \in P /\ child \in P /\ call[1] - 1 \in 0 .. m
        BY <1>0, <3>1, <3>3
      <4>2. Below(call, child) \in (0 .. m) \X P
        BY ONLY <4>1 DEF Below
      <4> HIDE DEF g
      <4>3. g[Below(call, child)] = f[Below(call, child)]
        BY ONLY <2>2, <4>2, Zenon
      <4> QED
        BY ONLY <3>1, <4>3, Zenon DEF LeafAt
    <3> QED
      BY <3>2, <3>3
  <2>4. g = [call \in (0 .. m + 1) \X P |-> LeafAt(B, g, call, key)]
    <3> DEFINE k == [call \in (0 .. m + 1) \X P |-> LeafAt(B, g, call, key)]
    <3>1. \A call \in (0 .. m + 1) \X P : g[call] = k[call]
      BY ONLY <2>3, Zenon
    <3> QED
      BY ONLY <3>1, Zenon
  <2> HIDE DEF g
  <2>5. Lookups(g, B, key, m + 1)
    BY ONLY <1>0, <2>4 DEF Lookups
  <2>6. m + 1 \in Nat
    OBVIOUS
  <2> QED
    BY ONLY <2>5, <2>6
<1>3. \A m \in Nat : m \in D
  <2> HIDE DEF D
  <2> QED
    BY <1>1, <1>2, NatSetInduction
<1> QED
  BY <1>3

\* LeafFor and Found of any pools.
LeafIn(B, root, key) == (CHOOSE f : Lookups(f, B, key, Len(B)))[<<Len(B), root>>]
FoundIn(L, B, root, key) ==
  LET buffer == L[LeafIn(B, root, key)].buffer
      i == Passed(KeysOf(buffer), key)
  IN  {buffer[n].value : n \in {o \in 1 .. i : buffer[o].key = key}}

LEMMA FoundNow ==
  ASSUME NEW key
  PROVE  Found(key) = FoundIn(leafs, blocks, tree, key)
<1>1. LeafFor(tree, key) = LeafIn(blocks, tree, key)
  BY ONLY Zenon DEF LeafFor, LeafIn, Lookups, LeafAt, Calls
<1> QED
  BY ONLY <1>1, Zenon DEF Found, FoundIn

\* A key is searched in the leaf whose range it is in.
LEMMA LeafInRange ==
  ASSUME NEW L, NEW B, NEW root, NEW h, NEW lo, NEW hi, Start(L, B, root, h, lo, hi),
         root \in DOMAIN B, Rooted(Nodes(L, B), root, h, lo, hi), h[Blk(root)] <= Len(B),
         NEW key \in Int, Least <= key, key < Beyond,
         NEW l, l = LeafIn(B, root, key)
  PROVE  l \in DOMAIN L /\ lo[Lf(l)] <= key /\ key < hi[Lf(l)]
<1>1. /\ Shape(L, B, h, lo, hi) /\ Len(B) \in Nat /\ DOMAIN B = 1 .. Len(B)
      /\ \A d \in DOMAIN B : h[Blk(d)] \in Nat
  BY StartFacts
<1>4. \A b \in DOMAIN B : /\ B[b].tag \in {"leafs", "block"}
                          /\ B[b].tag = "block" => ChildFor(B[b], key) \in DOMAIN B
                          /\ h[Blk(b)] >= 1
  <2> SUFFICES ASSUME NEW b \in DOMAIN B
               PROVE  /\ B[b].tag \in {"leafs", "block"}
                      /\ B[b].tag = "block" => ChildFor(B[b], key) \in DOMAIN B
                      /\ h[Blk(b)] >= 1
    OBVIOUS
  <2>1. /\ B[b].tag \in {"leafs", "block"}
        /\ B[b].tag = "leafs" => ChildFor(B[b], key) \in DOMAIN L /\ h[Blk(b)] = 1
        /\ B[b].tag = "block" => ChildFor(B[b], key) \in DOMAIN B /\ h[Blk(b)] > 1
    BY <1>1, ChildInPool
  <2>2. h[Blk(b)] \in Nat
    BY <1>1
  <2> QED
    BY ONLY <2>1, <2>2
<1>5. PICK f : Lookups(f, B, key, Len(B)) /\ l = f[<<Len(B), root>>]
  <2>1. \A b \in DOMAIN B : B[b].tag # "leafs" => ChildFor(B[b], key) \in DOMAIN B
    BY ONLY <1>4
  <2>2. \E f : Lookups(f, B, key, Len(B))
    BY ONLY <1>1, <2>1, LookupsExist
  <2>3. Lookups(CHOOSE f : Lookups(f, B, key, Len(B)), B, key, Len(B))
    BY ONLY <2>2, Zenon
  <2> QED
    BY <2>3 DEF LeafIn
<1>6. \A call \in (0 .. Len(B)) \X DOMAIN B : f[call] = LeafAt(B, f, call, key)
  BY ONLY <1>5, Zenon DEF Lookups
<1> DEFINE In(z) == z \in DOMAIN L /\ lo[Lf(z)] <= key /\ key < hi[Lf(z)]
           G(n, b) == h[Blk(b)] <= n /\ lo[Blk(b)] <= key /\ key < hi[Blk(b)] => In(f[<<n, b>>])
           D == {n \in 0 .. Len(B) : \A b \in DOMAIN B : G(n, b)}
<1>7. 0 \in D
  <2>1. \A b \in DOMAIN B : ~ (h[Blk(b)] <= 0)
    BY ONLY <1>1, <1>4
  <2> QED
    BY ONLY <1>1, <2>1
<1>8. ASSUME NEW n \in 0 .. Len(B) - 1, n \in D PROVE n + 1 \in D
  <2> SUFFICES ASSUME NEW b \in DOMAIN B, h[Blk(b)] <= n + 1, lo[Blk(b)] <= key, key < hi[Blk(b)]
               PROVE  In(f[<<n + 1, b>>])
    BY <1>1, <1>8
  <2>1. PICK c, call : c = ChildFor(B[b], key) /\ call = <<n + 1, b>>
    OBVIOUS
  <2>2. /\ call \in (0 .. Len(B)) \X DOMAIN B /\ call[1] = n + 1 /\ call[2] = b
        /\ call[1] # 0 /\ call[1] - 1 = n
    BY <1>1, <2>1
  <2>3. f[call] = LeafAt(B, f, call, key)
    BY ONLY <1>6, <2>2
  <2>5. Below(call, c) = <<n, c>>
    BY ONLY <2>2 DEF Below
  <2>6. f[call] = IF B[b].tag = "leafs" THEN c ELSE f[<<n, c>>]
    <3>1. LeafAt(B, f, call, key)
            = IF call[1] = 0 \/ B[b].tag = "leafs" THEN c ELSE f[Below(call, c)]
      BY ONLY <2>1, <2>2, Zenon DEF LeafAt
    <3> QED
      BY ONLY <2>2, <2>3, <2>5, <3>1
  <2>7. PICK z : z = <<B[b].tag, c>>
    OBVIOUS
  <2>8. /\ lo[z] <= key /\ key < hi[z] /\ h[z] \in Nat /\ h[z] + 1 = h[Blk(b)]
        /\ B[b].tag = "leafs" => c \in DOMAIN L /\ z = Lf(c)
        /\ B[b].tag = "block" => c \in DOMAIN B /\ z = Blk(c)
    BY <1>1, <2>1, <2>7, ChildForIs
  <2>9. CASE B[b].tag = "leafs"
    BY ONLY <2>1, <2>6, <2>8, <2>9
  <2>10. CASE B[b].tag = "block"
    <3>1. c \in DOMAIN B /\ lo[Blk(c)] <= key /\ key < hi[Blk(c)] /\ h[Blk(c)] <= n
      <4>1. h[Blk(b)] <= n + 1 /\ n \in Nat
        OBVIOUS
      <4> QED
        BY ONLY <2>8, <2>10, <4>1
    <3>2. G(n, c)
      BY <1>8, <3>1
    <3>3. In(f[<<n, c>>])
      BY ONLY <3>1, <3>2
    <3>4. f[<<n + 1, b>>] = f[<<n, c>>]
      BY ONLY <2>1, <2>6, <2>10
    <3> QED
      BY ONLY <3>3, <3>4
  <2> QED
    BY <1>4, <2>9, <2>10
<1>9. \A n \in 0 .. Len(B) : n \in D
  <2> HIDE DEF D
  <2> QED
    BY <1>1, <1>7, <1>8, SetInduction
<1>10. G(Len(B), root)
  <2>1. Len(B) \in 0 .. Len(B)
    BY ONLY <1>1
  <2> QED
    BY <1>9, <2>1
<1>11. lo[Blk(root)] = Least /\ hi[Blk(root)] = Beyond
  BY DEF Rooted
<1> QED
  BY <1>5, <1>10, <1>11

\* A key that some leaf has is in the leaf whose range it is in.
LEMMA KeyInLeaf ==
  ASSUME NEW L, NEW B, NEW h, NEW lo, NEW hi, Shape(L, B, h, lo, hi),
         NEW l \in DOMAIN L, NEW key \in Int, lo[Lf(l)] <= key, key < hi[Lf(l)]
  PROVE  key \in Contents(L) <=> key \in KeySet(L[l].buffer)
<1>1. key \in KeySet(L[l].buffer) => key \in Contents(L)
  BY DEF Contents
<1>2. ASSUME key \in Contents(L) PROVE key \in KeySet(L[l].buffer)
  <2>1. PICK k \in DOMAIN L : key \in KeySet(L[k].buffer)
    BY <1>2 DEF Contents
  <2>2. PICK N, x, y : N = Nodes(L, B) /\ x = Lf(l) /\ y = Lf(k)
    OBVIOUS
  <2>3. /\ Ordered(N, h, lo, hi) /\ x \in N /\ y \in N
        /\ IsLeaf(L[l], N, h, lo, hi, x) /\ IsLeaf(L[k], N, h, lo, hi, y)
    BY <2>2, NodeFacts DEF Shape
  <2>4. PICK n \in 1 .. Len(L[k].buffer) : key = L[k].buffer[n].key
    BY <2>1 DEF KeySet
  <2>5. lo[y] <= key /\ key < hi[y] /\ h[y] = 0 /\ lo[y] \in Int /\ hi[y] \in Int
    BY <2>3, <2>4, LeafFacts
  <2>6. h[x] = 0 /\ lo[x] \in Int /\ hi[x] \in Int
    BY <2>3, LeafFacts
  <2>7. lo[x] <= key /\ key < hi[x]
    BY <2>2
  <2>8. x = y
    <3>1. h[x] = h[y] /\ x # y => hi[x] <= lo[y] \/ hi[y] <= lo[x]
      BY ONLY <2>3 DEF Ordered
    <3> QED
      BY ONLY <2>5, <2>6, <2>7, <3>1, key \in Int
  <2>9. k = l
    BY <2>2, <2>8, NodeFacts
  <2> QED
    BY <2>1, <2>9
<1> QED
  BY <1>1, <1>2

\* What lookup_block finds in a leaf.
LEMMA FoundInLeaf ==
  ASSUME NEW buffer \in Seq(Entries), NEW key \in Int,
         \A m, n \in 1 .. Len(buffer) : m < n => buffer[m].key < buffer[n].key,
         NEW i, i = Passed(KeysOf(buffer), key)
  PROVE  {buffer[n].value : n \in {o \in 1 .. i : buffer[o].key = key}}
           = IF key \in KeySet(buffer) THEN {ValueOf(key)} ELSE {}
<1>1. PICK keys : keys = KeysOf(buffer)
  OBVIOUS
<1>2. /\ keys \in Seq(Int) /\ Len(keys) = Len(buffer) /\ DOMAIN keys = 1 .. Len(buffer)
      /\ \A n \in 1 .. Len(buffer) : buffer[n] \in Entries /\ keys[n] = buffer[n].key
      /\ Len(buffer) \in Nat
  BY <1>1, KeysOfIs
<1>3. Ascending(keys)
  BY <1>2 DEF Ascending
<1>4. /\ i \in 0 .. Len(keys)
      /\ \A n \in i + 1 .. Len(keys) : key < keys[n]
  BY <1>1, <1>2, <1>3, PassedIs
<1>5. \A n \in 1 .. Len(buffer) : buffer[n].key = key => buffer[n].value = ValueOf(key) /\ n \in 1 .. i
  <2> SUFFICES ASSUME NEW n \in 1 .. Len(buffer), buffer[n].key = key
               PROVE  buffer[n].value = ValueOf(key) /\ n \in 1 .. i
    OBVIOUS
  <2>1. buffer[n] = EntryOf(key)
    BY <1>2, EntryFacts
  <2>2. buffer[n].value = ValueOf(key)
    BY <2>1, EntryFacts
  <2>3. keys[n] = key
    BY <1>2
  <2>4. n \in i + 1 .. Len(keys) => FALSE
    BY ONLY <1>4, <2>3, key \in Int
  <2>5. n \in 1 .. i
    BY <1>2, <1>4, <2>4
  <2> QED
    BY <2>2, <2>5
<1>6. 1 .. i \subseteq 1 .. Len(buffer)
  BY ONLY <1>2, <1>4
<1>7. PICK S : S = {o \in 1 .. i : buffer[o].key = key}
  OBVIOUS
<1>8. CASE key \in KeySet(buffer)
  <2>1. PICK n \in 1 .. Len(buffer) : key = buffer[n].key
    BY <1>8 DEF KeySet
  <2>2. n \in S
    BY <1>5, <1>7, <2>1
  <2>3. \A o \in S : buffer[o].value = ValueOf(key)
    BY <1>5, <1>6, <1>7
  <2>4. {buffer[o].value : o \in S} = {ValueOf(key)}
    BY ONLY <2>2, <2>3
  <2> QED
    BY <1>7, <1>8, <2>4
<1>9. CASE key \notin KeySet(buffer)
  <2>1. S = {}
    BY <1>6, <1>7, <1>9 DEF KeySet
  <2>2. {buffer[o].value : o \in S} = {}
    BY ONLY <2>1
  <2> QED
    BY <1>7, <1>9, <2>2
<1> QED
  BY <1>8, <1>9

LEMMA FoundIs ==
  ASSUME NEW L, NEW B, NEW root, Ready(L, B, root),
         NEW key \in Int, Least <= key, key < Beyond
  PROVE  FoundIn(L, B, root, key) = IF key \in Contents(L) THEN {ValueOf(key)} ELSE {}
<1>1. PICK h, lo, hi : /\ Start(L, B, root, h, lo, hi) /\ root \in DOMAIN B
                       /\ Rooted(Nodes(L, B), root, h, lo, hi) /\ h[Blk(root)] <= Len(B)
  BY DEF Ready
<1>2. PICK l : l = LeafIn(B, root, key)
  OBVIOUS
<1>3. l \in DOMAIN L /\ lo[Lf(l)] <= key /\ key < hi[Lf(l)]
  BY <1>1, <1>2, LeafInRange
<1>4. Shape(L, B, h, lo, hi)
  BY <1>1, StartFacts
<1>5. key \in Contents(L) <=> key \in KeySet(L[l].buffer)
  BY <1>3, <1>4, KeyInLeaf
<1>6. PICK buffer, i : buffer = L[l].buffer /\ i = Passed(KeysOf(buffer), key)
  OBVIOUS
<1>7. /\ buffer \in Seq(Entries)
      /\ \A m, n \in 1 .. Len(buffer) : m < n => buffer[m].key < buffer[n].key
  <2>1. PICK N, x : N = Nodes(L, B) /\ x = Lf(l)
    OBVIOUS
  <2>2. Ordered(N, h, lo, hi) /\ x \in N /\ IsLeaf(L[l], N, h, lo, hi, x)
    BY <1>3, <1>4, <2>1, NodeFacts DEF Shape
  <2> QED
    BY <1>6, <2>2, LeafFacts
<1>8. {buffer[n].value : n \in {o \in 1 .. i : buffer[o].key = key}}
        = IF key \in KeySet(buffer) THEN {ValueOf(key)} ELSE {}
  BY ONLY <1>6, <1>7, key \in Int, FoundInLeaf
<1>9. FoundIn(L, B, root, key) = {buffer[n].value : n \in {o \in 1 .. i : buffer[o].key = key}}
  BY ONLY <1>2, <1>6, Zenon DEF FoundIn
<1> QED
  BY ONLY <1>5, <1>6, <1>8, <1>9

LEMMA KeysInRange ==
  \A k \in Keys : k \in Int /\ Least <= k /\ k < Beyond
<1>1. \A k \in Key : k \in Int /\ Least <= k /\ k < Beyond
  BY ONLY SMT DEF Key, Least, Beyond
<1> QED
  BY ONLY <1>1, KeysAssumption

TreeInv == exited \in {"none", "duplicate", "leafs", "blocks"} /\ Ready(leafs, blocks, tree)

THEOREM TreeIsSound == Spec => []TreeInv
<1>1. Init => TreeInv
  BY ReadyInit DEF TreeInv
<1>2. TreeInv /\ [Next]_vars => TreeInv'
  <2> SUFFICES ASSUME TreeInv, [Next]_vars PROVE TreeInv'
    OBVIOUS
  <2>1. CASE UNCHANGED vars
    BY <2>1 DEF vars, TreeInv, Ready
  <2>2. ASSUME NEW key \in Keys, insert_tree(key) PROVE TreeInv'
    <3>1. Ready(leafs, blocks, tree)
      BY DEF TreeInv
    <3>2. Ready(leafs, blocks, tree)' /\ exited' \in {"none", "duplicate", "leafs", "blocks"}
      BY <2>2, <3>1, InsertTreeIs
    <3> QED
      BY <3>2 DEF TreeInv
  <2> QED
    BY <2>1, <2>2 DEF Next
<1> QED
  BY <1>1, <1>2, PTL DEF Spec

\* What lookup_block finds, of the keys of the leaves.
LEMMA FoundKeys ==
  TreeInv => \A k \in Keys : Found(k) = IF k \in Contents(leafs) THEN {ValueOf(k)} ELSE {}
<1> SUFFICES ASSUME TreeInv, NEW k \in Keys
             PROVE  Found(k) = IF k \in Contents(leafs) THEN {ValueOf(k)} ELSE {}
  OBVIOUS
<1>1. PICK L, B, r : L = leafs /\ B = blocks /\ r = tree
  OBVIOUS
<1>2. Ready(L, B, r)
  BY <1>1 DEF TreeInv
<1>3. k \in Int /\ Least <= k /\ k < Beyond
  BY KeysInRange
<1>4. FoundIn(L, B, r, k) = IF k \in Contents(L) THEN {ValueOf(k)} ELSE {}
  BY ONLY <1>2, <1>3, FoundIs
<1> QED
  BY ONLY <1>1, <1>4, FoundNow

-----------------------------------------------------------------------------
(* The tree seen through lookup_block.                                     *)

Looked == [k \in {q \in Keys : Found(q) # {}} |-> CHOOSE v \in Found(k) : TRUE]
ValuesOf(C) == [k \in {q \in Keys : q \in C} |-> ValueOf(k)]

LEMMA LookedIs ==
  TreeInv => Looked = ValuesOf(Contents(leafs))
<1> SUFFICES ASSUME TreeInv PROVE Looked = ValuesOf(Contents(leafs))
  OBVIOUS
<1>1. PICK C : C = Contents(leafs)
  OBVIOUS
<1>2. \A k \in Keys : Found(k) = IF k \in C THEN {ValueOf(k)} ELSE {}
  BY <1>1, FoundKeys
<1>3. {q \in Keys : Found(q) # {}} = {q \in Keys : q \in C}
  BY <1>2
<1>4. \A k \in {q \in Keys : q \in C} : (CHOOSE v \in Found(k) : TRUE) = ValueOf(k)
  BY <1>2
<1>5. [k \in {q \in Keys : q \in C} |-> CHOOSE v \in Found(k) : TRUE] = ValuesOf(C)
  BY ONLY <1>4, Zenon DEF ValuesOf
<1> QED
  BY ONLY <1>1, <1>3, <1>5, Zenon DEF Looked

LEMMA ValuesOfMore ==
  ASSUME NEW C, NEW key \in Keys, key \notin C
  PROVE  /\ key \notin DOMAIN ValuesOf(C)
         /\ ValuesOf(C \cup {key})
              = [q \in DOMAIN ValuesOf(C) \cup {key} |->
                   IF q = key THEN ValueOf(key) ELSE ValuesOf(C)[q]]
<1>1. PICK S : S = {q \in Keys : q \in C}
  OBVIOUS
<1>2. {q \in Keys : q \in C \cup {key}} = S \cup {key} /\ key \notin S
  BY <1>1
<1>3. DOMAIN ValuesOf(C) = S /\ \A q \in S : ValuesOf(C)[q] = ValueOf(q)
  BY <1>1 DEF ValuesOf
<1>4. ValuesOf(C \cup {key}) = [q \in S \cup {key} |-> ValueOf(q)]
  BY ONLY <1>2, Zenon DEF ValuesOf
<1>5. \A q \in S \cup {key} : ValueOf(q) = IF q = key THEN ValueOf(key) ELSE ValuesOf(C)[q]
  BY ONLY <1>3
<1>6. [q \in S \cup {key} |-> ValueOf(q)]
        = [q \in S \cup {key} |-> IF q = key THEN ValueOf(key) ELSE ValuesOf(C)[q]]
  BY ONLY <1>5, Zenon
<1> QED
  BY ONLY <1>2, <1>3, <1>4, <1>6

\* Seen through lookup_block, the tree is a dictionary that every insertion
\* adds its entry to, until a duplicate key or a full pool ends the program.
THEOREM TreeIsDictionary == Spec => IsDictionary
<1>1. Init => Dict!Init
  <2> SUFFICES ASSUME Init PROVE Dict!Init
    OBVIOUS
  <2>1. TreeInv /\ exited = "none" /\ Contents(leafs) = {}
    BY ReadyInit DEF TreeInv
  <2>2. Looked = ValuesOf({})
    BY <2>1, LookedIs
  <2>3. ValuesOf({}) = [k \in {} |-> k]
    BY DEF ValuesOf
  <2>4. Looked = [k \in {} |-> k]
    BY ONLY <2>2, <2>3
  <2> QED
    BY <2>1, <2>4 DEF Dict!Init, Looked
<1>2. TreeInv /\ TreeInv' /\ [Next]_vars
      => [Dict!Refuse \/ \E k \in Keys : Dict!Insert(k, ValueOf(k))]_(Dict!vars)
  <2> SUFFICES ASSUME TreeInv, TreeInv', [Next]_vars
               PROVE  [Dict!Refuse \/ \E k \in Keys : Dict!Insert(k, ValueOf(k))]_(Dict!vars)
    OBVIOUS
  <2>1. PICK C, C2, M, M2 : /\ C = Contents(leafs) /\ C2 = Contents(leafs)'
                            /\ M = Looked /\ M2 = Looked'
    OBVIOUS
  <2>2. M = ValuesOf(C)
    BY <2>1, LookedIs
  <2>3. (TreeInv => Looked = ValuesOf(Contents(leafs)))'
    BY LookedIs, PTL
  <2>4. M2 = ValuesOf(C2)
    BY <2>1, <2>3 DEF ValuesOf
  <2>5. CASE UNCHANGED vars
    <3>1. C2 = C
      BY <2>1, <2>5 DEF vars, Contents
    <3>2. M2 = M /\ exited' = exited
      BY <2>2, <2>4, <2>5, <3>1 DEF vars
    <3> QED
      BY <2>1, <3>2 DEF Dict!vars, Looked
  <2>6. ASSUME NEW key \in Keys, insert_tree(key)
        PROVE  Dict!Refuse \/ Dict!Insert(key, ValueOf(key))
    <3>1. Ready(leafs, blocks, tree)
      BY DEF TreeInv
    <3>2. /\ exited = "none"
          /\ \/ exited' \in {"duplicate", "leafs", "blocks"} /\ UNCHANGED <<leafs, blocks, tree>>
             \/ exited' = "none" /\ key \notin Contents(leafs)
                /\ Contents(leafs)' = Contents(leafs) \cup {key}
      BY <2>6, <3>1, InsertTreeIs
    <3>3. CASE exited' \in {"duplicate", "leafs", "blocks"} /\ UNCHANGED <<leafs, blocks, tree>>
      <4>1. C2 = C
        BY <2>1, <3>3 DEF Contents
      <4>2. M2 = M
        BY ONLY <2>2, <2>4, <4>1
      <4>3. Looked' = Looked
        BY ONLY <2>1, <4>2
      <4>4. (exited = "none") = TRUE /\ (exited' = "none") = FALSE
        BY <3>2, <3>3
      <4> QED
        BY <4>3, <4>4 DEF Dict!Refuse, Looked
    <3>4. CASE exited' = "none" /\ key \notin Contents(leafs)
               /\ Contents(leafs)' = Contents(leafs) \cup {key}
      <4>1. key \notin C /\ C2 = C \cup {key}
        BY <2>1, <3>4
      <4>2. key \notin DOMAIN M /\ M2 = [q \in DOMAIN M \cup {key} |->
                                          IF q = key THEN ValueOf(key) ELSE M[q]]
        BY <2>2, <2>4, <4>1, ValuesOfMore
      <4>3. key \notin DOMAIN Looked /\ Looked' = [q \in DOMAIN Looked \cup {key} |->
                                                    IF q = key THEN ValueOf(key) ELSE Looked[q]]
        BY ONLY <2>1, <4>2
      <4>4. exited = "none" /\ exited' = "none"
        BY <3>2, <3>4
      <4> QED
        BY <4>3, <4>4 DEF Dict!Insert, Looked
    <3> QED
      BY <3>2, <3>3, <3>4
  <2> QED
    BY <2>5, <2>6 DEF Next
<1> QED
  BY <1>1, <1>2, TreeIsSound, PTL DEF Spec, IsDictionary

-----------------------------------------------------------------------------
(* The shape of the tree.                                                  *)

LEMMA InvOccupied ==
  TreeInv => Occupied
<1> SUFFICES ASSUME TreeInv PROVE Occupied
  OBVIOUS
<1>1. PICK L, B, r : L = leafs /\ B = blocks /\ r = tree
  OBVIOUS
<1>2. PICK h, lo, hi : Start(L, B, r, h, lo, hi)
  BY <1>1 DEF TreeInv, Ready
<1>3. LeavesFit(L) /\ (LeavesUsed(L) \/ L = <<NewLeafs>>) /\ BlocksFit(B, r, {})
      /\ \A d \in DOMAIN B : B[d] \in Blocks
  BY <1>2, StartFacts
<1>4. \A l \in DOMAIN L : Len(L[l].buffer) < CAP_LEAF_BUFFER
                          /\ (L[l].buffer = <<>> => L = <<NewLeafs>>)
  BY ONLY <1>3 DEF LeavesFit, LeavesUsed
<1>5. \A b \in DOMAIN B : Len(B[b].nodes) < CAP_NODES
                          /\ (B[b].nodes = <<>> => b = r /\ B[b].tag = "leafs")
  <2> SUFFICES ASSUME NEW b \in DOMAIN B
               PROVE  Len(B[b].nodes) < CAP_NODES
                      /\ (B[b].nodes = <<>> => b = r /\ B[b].tag = "leafs")
    OBVIOUS
  <2>1. /\ Len(B[b].nodes) <= CAP_NODES /\ Len(B[b].nodes) # CAP_NODES
        /\ B[b].nodes = <<>> => b = r /\ B[b].tag = "leafs"
    BY <1>3 DEF BlocksFit
  <2>2. Len(B[b].nodes) \in Nat
    BY <1>3, SequenceFacts DEF Blocks
  <2> QED
    BY ONLY <2>1, <2>2, CapAssumption
<1>6. exited \notin {"leaf full", "block full"}
  BY DEF TreeInv
<1> QED
  BY ONLY <1>1, <1>4, <1>5, <1>6 DEF Occupied

\* The recursion of Depths, down to level n.
DepthsAt(B, f, call) ==
  LET block == B[call[2]]
  IN  IF call[1] = 0 \/ block.tag = "leafs" THEN {1}
      ELSE UNION {{d + 1 : d \in f[Below(call, block.children[n])]} : n \in DOMAIN block.children}
Deep(f, B, n) == f = [call \in (0 .. n) \X DOMAIN B |-> DepthsAt(B, f, call)]

LEMMA DeepExist ==
  ASSUME NEW B, NEW n \in Nat,
         \A b \in DOMAIN B : B[b].tag # "leafs" =>
           \A i \in DOMAIN B[b].children : B[b].children[i] \in DOMAIN B
  PROVE  \E f : Deep(f, B, n)
<1> DEFINE D == {m \in Nat : \E f : Deep(f, B, m)}
<1>0. PICK P : P = DOMAIN B
  OBVIOUS
<1>1. 0 \in D
  <2> DEFINE f == [call \in (0 .. 0) \X P |-> {1}]
  <2>1. \A call \in (0 .. 0) \X P : DepthsAt(B, f, call) = {1}
    <3> HIDE DEF f
    <3> SUFFICES ASSUME NEW call \in (0 .. 0) \X P PROVE DepthsAt(B, f, call) = {1}
      OBVIOUS
    <3>1. call[1] = 0
      OBVIOUS
    <3> QED
      BY ONLY <3>1, Zenon DEF DepthsAt
  <2>2. f = [call \in (0 .. 0) \X P |-> DepthsAt(B, f, call)]
    BY ONLY <2>1, Zenon
  <2> HIDE DEF f
  <2>3. Deep(f, B, 0)
    BY ONLY <1>0, <2>2 DEF Deep
  <2> QED
    BY <2>3
<1>2. ASSUME NEW m \in Nat, m \in D PROVE m + 1 \in D
  <2>1. PICK f : f = [call \in (0 .. m) \X P |-> DepthsAt(B, f, call)]
    BY <1>0, <1>2 DEF Deep
  <2> DEFINE g == [call \in (0 .. m + 1) \X P |-> DepthsAt(B, f, call)]
  <2>2. \A call \in (0 .. m) \X P : g[call] = f[call]
    <3>1. (0 .. m) \X P \subseteq (0 .. m + 1) \X P
      OBVIOUS
    <3> QED
      BY ONLY <2>1, <3>1, Zenon
  <2>3. ASSUME NEW call \in (0 .. m + 1) \X P
        PROVE  DepthsAt(B, g, call) = DepthsAt(B, f, call)
    <3>1. PICK b, block : b = call[2] /\ block = B[b]
      OBVIOUS
    <3>2. CASE call[1] = 0 \/ block.tag = "leafs"
      <4> HIDE DEF g
      <4> QED
        BY ONLY <3>1, <3>2, Zenon DEF DepthsAt
    <3>3. CASE call[1] # 0 /\ block.tag # "leafs"
      <4>1. \A i \in DOMAIN block.children : g[Below(call, block.children[i])]
                                             = f[Below(call, block.children[i])]
        <5> SUFFICES ASSUME NEW i \in DOMAIN block.children
                     PROVE  g[Below(call, block.children[i])] = f[Below(call, block.children[i])]
          OBVIOUS
        <5>1. PICK child : child = block.children[i]
          OBVIOUS
        <5>2. b \in P /\ child \in P /\ call[1] - 1 \in 0 .. m
          BY <1>0, <3>1, <3>3, <5>1
        <5>3. Below(call, child) \in (0 .. m) \X P
          BY ONLY <5>2 DEF Below
        <5> HIDE DEF g
        <5> QED
          BY ONLY <2>2, <5>1, <5>3, Zenon
      <4> HIDE DEF g
      <4>2. {{d + 1 : d \in g[Below(call, block.children[i])]} : i \in DOMAIN block.children}
              = {{d + 1 : d \in f[Below(call, block.children[i])]} : i \in DOMAIN block.children}
        BY ONLY <4>1, Zenon
      <4>3. /\ DepthsAt(B, g, call) = UNION {{d + 1 : d \in g[Below(call, block.children[i])]} :
                                               i \in DOMAIN block.children}
            /\ DepthsAt(B, f, call) = UNION {{d + 1 : d \in f[Below(call, block.children[i])]} :
                                               i \in DOMAIN block.children}
        BY ONLY <3>1, <3>3, Zenon DEF DepthsAt
      <4> QED
        BY ONLY <4>2, <4>3, Zenon
    <3> QED
      BY <3>2, <3>3
  <2>4. g = [call \in (0 .. m + 1) \X P |-> DepthsAt(B, g, call)]
    <3> DEFINE k == [call \in (0 .. m + 1) \X P |-> DepthsAt(B, g, call)]
    <3>1. \A call \in (0 .. m + 1) \X P : g[call] = k[call]
      BY ONLY <2>3, Zenon
    <3> QED
      BY ONLY <3>1, Zenon
  <2> HIDE DEF g
  <2>5. Deep(g, B, m + 1)
    BY ONLY <1>0, <2>4 DEF Deep
  <2>6. m + 1 \in Nat
    OBVIOUS
  <2> QED
    BY ONLY <2>5, <2>6
<1>3. \A m \in Nat : m \in D
  <2> HIDE DEF D
  <2> QED
    BY <1>1, <1>2, NatSetInduction
<1> QED
  BY <1>3

DepthsIn(B, root) == (CHOOSE f : Deep(f, B, Len(B)))[<<Len(B), root>>]

LEMMA DepthsNow ==
  ASSUME NEW b
  PROVE  Depths(b) = DepthsIn(blocks, b)
  BY ONLY Zenon DEF Depths, DepthsIn, Deep, DepthsAt, Calls

\* The children a block has.
LEMMA ChildrenInPool ==
  ASSUME NEW L, NEW B, NEW root, NEW h, NEW lo, NEW hi, Start(L, B, root, h, lo, hi),
         NEW b \in DOMAIN B
  PROVE  /\ B[b].tag \in {"leafs", "block"} /\ h[Blk(b)] \in Nat
         /\ Len(B[b].nodes) \in Nat /\ Len(B[b].children) = Len(B[b].nodes) + 1
         /\ DOMAIN B[b].children = 1 .. Len(B[b].children)
         /\ B[b].tag = "leafs" => h[Blk(b)] = 1
         /\ B[b].tag = "block" => /\ h[Blk(b)] > 1
                                  /\ \A i \in 1 .. Len(B[b].children) :
                                       B[b].children[i] \in DOMAIN B
                                       /\ h[Blk(B[b].children[i])] + 1 = h[Blk(b)]
<1>1. PICK N : N = Nodes(L, B)
  OBVIOUS
<1>2. /\ Shape(L, B, h, lo, hi) /\ Ordered(N, h, lo, hi)
      /\ Blk(b) \in N /\ IsBlock(B[b], N, h, lo, hi, Blk(b)) /\ h[Blk(b)] \in Nat
      /\ B[b] \in Blocks
  BY <1>1, StartFacts
<1>3. Len(B[b].nodes) \in Nat /\ Len(B[b].children) = Len(B[b].nodes) + 1
  BY <1>2, BlockFacts
<1>4. DOMAIN B[b].children = 1 .. Len(B[b].children)
  BY <1>2, SequenceFacts DEF Blocks
<1>5. 1 \in 1 .. Len(B[b].children)
  BY ONLY <1>3
<1>6. /\ B[b].tag = "leafs" => h[Blk(b)] = 1
      /\ B[b].tag = "block" => h[Blk(b)] > 1
      /\ B[b].tag \in {"leafs", "block"}
  BY <1>2, <1>5, TagFacts
<1>7. ASSUME B[b].tag = "block", NEW i \in 1 .. Len(B[b].children)
      PROVE  B[b].children[i] \in DOMAIN B /\ h[Blk(B[b].children[i])] + 1 = h[Blk(b)]
  <2>1. B[b].children[i] \in DOMAIN B /\ Kid(B[b], i) = Blk(B[b].children[i])
    BY <1>2, <1>7, TagFacts
  <2>2. h[Kid(B[b], i)] + 1 = h[Blk(b)]
    BY <1>2, KidFacts
  <2> QED
    BY <2>1, <2>2
<1> QED
  BY <1>2, <1>3, <1>4, <1>6, <1>7

\* The leaves are all as deep as the tree is high.
LEMMA DepthsAre ==
  ASSUME NEW L, NEW B, NEW root, NEW h, NEW lo, NEW hi, Start(L, B, root, h, lo, hi),
         root \in DOMAIN B, h[Blk(root)] <= Len(B)
  PROVE  DepthsIn(B, root) = {h[Blk(root)]}
<1>1. Len(B) \in Nat
  BY StartFacts
<1>2. \A b \in DOMAIN B :
        /\ B[b].tag \in {"leafs", "block"} /\ h[Blk(b)] \in Nat
        /\ DOMAIN B[b].children = 1 .. Len(B[b].children) /\ 1 \in DOMAIN B[b].children
        /\ B[b].tag = "leafs" => h[Blk(b)] = 1
        /\ B[b].tag = "block" => /\ h[Blk(b)] > 1
                                 /\ \A i \in DOMAIN B[b].children :
                                      B[b].children[i] \in DOMAIN B
                                      /\ h[Blk(B[b].children[i])] + 1 = h[Blk(b)]
  <2> SUFFICES ASSUME NEW b \in DOMAIN B
               PROVE  /\ B[b].tag \in {"leafs", "block"} /\ h[Blk(b)] \in Nat
                      /\ DOMAIN B[b].children = 1 .. Len(B[b].children) /\ 1 \in DOMAIN B[b].children
                      /\ B[b].tag = "leafs" => h[Blk(b)] = 1
                      /\ B[b].tag = "block" => /\ h[Blk(b)] > 1
                                               /\ \A i \in DOMAIN B[b].children :
                                                    B[b].children[i] \in DOMAIN B
                                                    /\ h[Blk(B[b].children[i])] + 1 = h[Blk(b)]
    OBVIOUS
  <2>1. /\ B[b].tag \in {"leafs", "block"} /\ h[Blk(b)] \in Nat
        /\ Len(B[b].nodes) \in Nat /\ Len(B[b].children) = Len(B[b].nodes) + 1
        /\ DOMAIN B[b].children = 1 .. Len(B[b].children)
        /\ B[b].tag = "leafs" => h[Blk(b)] = 1
        /\ B[b].tag = "block" => /\ h[Blk(b)] > 1
                                 /\ \A i \in 1 .. Len(B[b].children) :
                                      B[b].children[i] \in DOMAIN B
                                      /\ h[Blk(B[b].children[i])] + 1 = h[Blk(b)]
    BY ChildrenInPool
  <2>2. 1 \in 1 .. Len(B[b].children)
    BY ONLY <2>1
  <2> QED
    BY ONLY <2>1, <2>2
<1>5. PICK f : Deep(f, B, Len(B)) /\ DepthsIn(B, root) = f[<<Len(B), root>>]
  <2>1. \A b \in DOMAIN B : B[b].tag # "leafs" =>
          \A i \in DOMAIN B[b].children : B[b].children[i] \in DOMAIN B
    BY ONLY <1>2
  <2>2. \E f : Deep(f, B, Len(B))
    BY ONLY <1>1, <2>1, DeepExist
  <2>3. Deep(CHOOSE f : Deep(f, B, Len(B)), B, Len(B))
    BY ONLY <2>2, Zenon
  <2> QED
    BY <2>3 DEF DepthsIn
<1>6. \A call \in (0 .. Len(B)) \X DOMAIN B : f[call] = DepthsAt(B, f, call)
  BY ONLY <1>5, Zenon DEF Deep
<1> DEFINE G(n, b) == h[Blk(b)] <= n => f[<<n, b>>] = {h[Blk(b)]}
           D == {n \in 0 .. Len(B) : \A b \in DOMAIN B : G(n, b)}
<1>7. 0 \in D
  <2>1. \A b \in DOMAIN B : ~ (h[Blk(b)] <= 0)
    BY ONLY <1>2
  <2> QED
    BY ONLY <1>1, <2>1
<1>8. ASSUME NEW n \in 0 .. Len(B) - 1, n \in D PROVE n + 1 \in D
  <2> SUFFICES ASSUME NEW b \in DOMAIN B, h[Blk(b)] <= n + 1
               PROVE  f[<<n + 1, b>>] = {h[Blk(b)]}
    BY <1>1, <1>8
  <2>1. PICK call, kids, top : call = <<n + 1, b>> /\ kids = B[b].children /\ top = h[Blk(b)]
    OBVIOUS
  <2>2. /\ call \in (0 .. Len(B)) \X DOMAIN B /\ call[1] = n + 1 /\ call[2] = b
        /\ call[1] # 0 /\ call[1] - 1 = n
    BY <1>1, <2>1
  <2>3. f[call] = DepthsAt(B, f, call)
    BY ONLY <1>6, <2>2
  <2>5. \A c : Below(call, c) = <<n, c>>
    BY ONLY <2>2 DEF Below
  <2>6. f[call] = IF B[b].tag = "leafs" THEN {1}
                  ELSE UNION {{d + 1 : d \in f[Below(call, kids[i])]} : i \in DOMAIN kids}
    <3>1. DepthsAt(B, f, call)
            = IF call[1] = 0 \/ B[b].tag = "leafs" THEN {1}
              ELSE UNION {{d + 1 : d \in f[Below(call, kids[i])]} : i \in DOMAIN kids}
      BY ONLY <2>1, <2>2, Zenon DEF DepthsAt
    <3> QED
      BY ONLY <2>2, <2>3, <3>1
  <2>9. CASE B[b].tag = "leafs"
    BY ONLY <1>2, b \in DOMAIN B, <2>1, <2>6, <2>9
  <2>10. CASE B[b].tag = "block"
    <3>1. 1 \in DOMAIN kids /\ top \in Nat
          /\ \A i \in DOMAIN kids : kids[i] \in DOMAIN B /\ h[Blk(kids[i])] + 1 = top
                                    /\ h[Blk(kids[i])] \in Nat
      BY ONLY <1>2, b \in DOMAIN B, <2>1, <2>10
    <3>2. \A i \in DOMAIN kids : f[Below(call, kids[i])] = {top - 1}
      <4> SUFFICES ASSUME NEW i \in DOMAIN kids PROVE f[Below(call, kids[i])] = {top - 1}
        OBVIOUS
      <4>1. PICK c : c = kids[i]
        OBVIOUS
      <4>2. c \in DOMAIN B /\ h[Blk(c)] + 1 = top /\ h[Blk(c)] \in Nat
        BY <3>1, <4>1
      <4>3. top <= n + 1 /\ n \in Nat
        BY <2>1
      <4>4. h[Blk(c)] <= n /\ h[Blk(c)] = top - 1
        BY ONLY <4>2, <4>3, <3>1
      <4>5. G(n, c)
        BY <1>8, <4>2
      <4>6. f[<<n, c>>] = {top - 1}
        BY ONLY <4>4, <4>5
      <4> QED
        BY ONLY <2>5, <4>1, <4>6
    <3>3. \A i \in DOMAIN kids : {d + 1 : d \in f[Below(call, kids[i])]} = {top}
      <4>1. {d + 1 : d \in {top - 1}} = {top}
        BY ONLY <3>1
      <4> QED
        BY ONLY <3>2, <4>1
    <3>4. UNION {{d + 1 : d \in f[Below(call, kids[i])]} : i \in DOMAIN kids} = {top}
      BY ONLY <3>1, <3>3
    <3>5. f[call] = {top}
      BY ONLY <2>6, <2>10, <3>4
    <3> QED
      BY ONLY <2>1, <3>5
  <2> QED
    BY <1>2, <2>9, <2>10
<1>9. \A n \in 0 .. Len(B) : n \in D
  <2> HIDE DEF D
  <2> QED
    BY <1>1, <1>7, <1>8, SetInduction
<1>10. G(Len(B), root)
  <2>1. Len(B) \in 0 .. Len(B)
    BY ONLY <1>1
  <2> QED
    BY <1>9, <2>1
<1> QED
  BY <1>5, <1>10

LEMMA InvBalanced ==
  TreeInv => Balanced
<1> SUFFICES ASSUME TreeInv PROVE Balanced
  OBVIOUS
<1>1. PICK L, B, r : L = leafs /\ B = blocks /\ r = tree
  OBVIOUS
<1>2. PICK h, lo, hi : Start(L, B, r, h, lo, hi) /\ r \in DOMAIN B /\ h[Blk(r)] <= Len(B)
  BY <1>1 DEF TreeInv, Ready
<1>3. DepthsIn(B, r) = {h[Blk(r)]}
  BY ONLY <1>2, DepthsAre
<1>4. Depths(tree) = {h[Blk(r)]}
  BY ONLY <1>1, <1>3, DepthsNow
<1>5. Cardinality({h[Blk(r)]}) = 1
  BY ONLY FS_Singleton
<1> QED
  BY ONLY <1>4, <1>5 DEF Balanced

\* FlattenSeq of the first n sequences.
JoinAt(seqs, f, i) == IF i = 1 THEN seqs[i] ELSE f[i - 1] \o seqs[i]
Joins(f, seqs, n) == f = [i \in 1 .. n |-> JoinAt(seqs, f, i)]

LEMMA JoinsExist ==
  ASSUME NEW seqs, NEW n \in Nat
  PROVE  \E f : Joins(f, seqs, n)
<1> DEFINE D == {m \in Nat : \E f : Joins(f, seqs, m)}
<1>1. 0 \in D
  <2> DEFINE f == [i \in 1 .. 0 |-> 0]
  <2>1. f = [i \in 1 .. 0 |-> JoinAt(seqs, f, i)]
    <3> HIDE DEF f
    <3>1. 1 .. 0 = {}
      OBVIOUS
    <3>2. \A x, y : [i \in {} |-> 0] = [i \in {} |-> JoinAt(x, y, i)]
      BY ONLY Zenon
    <3> QED
      BY ONLY <3>1, <3>2, Zenon DEF f
  <2> HIDE DEF f
  <2>2. Joins(f, seqs, 0)
    BY ONLY <2>1 DEF Joins
  <2> QED
    BY <2>2
<1>2. ASSUME NEW m \in Nat, m \in D PROVE m + 1 \in D
  <2>1. PICK f : f = [i \in 1 .. m |-> JoinAt(seqs, f, i)]
    BY <1>2 DEF Joins
  <2> DEFINE g == [i \in 1 .. m + 1 |-> JoinAt(seqs, f, i)]
  <2>2. \A i \in 1 .. m : g[i] = f[i]
    <3>1. 1 .. m \subseteq 1 .. m + 1
      OBVIOUS
    <3> QED
      BY ONLY <2>1, <3>1, Zenon
  <2>3. ASSUME NEW i \in 1 .. m + 1 PROVE JoinAt(seqs, g, i) = JoinAt(seqs, f, i)
    <3>1. CASE i = 1
      <4> HIDE DEF g
      <4> QED
        BY ONLY <3>1, Zenon DEF JoinAt
    <3>2. CASE i # 1
      <4>1. i - 1 \in 1 .. m
        BY <3>2
      <4> HIDE DEF g
      <4>2. g[i - 1] = f[i - 1]
        BY ONLY <2>2, <4>1, Zenon
      <4> QED
        BY ONLY <3>2, <4>2, Zenon DEF JoinAt
    <3> QED
      BY ONLY <3>1, <3>2
  <2>4. g = [i \in 1 .. m + 1 |-> JoinAt(seqs, g, i)]
    <3> DEFINE k == [i \in 1 .. m + 1 |-> JoinAt(seqs, g, i)]
    <3>1. \A i \in 1 .. m + 1 : g[i] = k[i]
      BY ONLY <2>3, Zenon
    <3> QED
      BY ONLY <3>1, Zenon
  <2> HIDE DEF g
  <2>5. Joins(g, seqs, m + 1)
    BY ONLY <2>4 DEF Joins
  <2>6. m + 1 \in Nat
    OBVIOUS
  <2> QED
    BY ONLY <2>5, <2>6
<1>3. \A m \in Nat : m \in D
  <2> HIDE DEF D
  <2> QED
    BY <1>1, <1>2, NatSetInduction
<1> QED
  BY <1>3

LEMMA FlattenIs ==
  ASSUME NEW seqs, Len(seqs) \in Nat, Len(seqs) # 0
  PROVE  \E f : /\ FlattenSeq(seqs) = f[Len(seqs)] /\ f[1] = seqs[1]
                /\ \A i \in 1 .. Len(seqs) - 1 : f[i + 1] = f[i] \o seqs[i + 1]
<1> DEFINE f == CHOOSE f : Joins(f, seqs, Len(seqs))
<1>1. Joins(f, seqs, Len(seqs))
  BY JoinsExist
<1>2. FlattenSeq(seqs) = f[Len(seqs)]
  BY Zenon DEF FlattenSeq, Joins, JoinAt
<1> HIDE DEF f
<1>3. \A i \in 1 .. Len(seqs) : f[i] = JoinAt(seqs, f, i)
  BY ONLY <1>1, Zenon DEF Joins
<1>4. f[1] = seqs[1]
  <2>1. 1 \in 1 .. Len(seqs)
    OBVIOUS
  <2> QED
    BY ONLY <1>3, <2>1 DEF JoinAt
<1>5. ASSUME NEW i \in 1 .. Len(seqs) - 1 PROVE f[i + 1] = f[i] \o seqs[i + 1]
  <2>1. i + 1 \in 1 .. Len(seqs) /\ i + 1 # 1 /\ (i + 1) - 1 = i
    OBVIOUS
  <2> QED
    BY ONLY <1>3, <2>1 DEF JoinAt
<1> QED
  BY ONLY <1>2, <1>4, <1>5

-----------------------------------------------------------------------------
(* Leaves that share a range out among them from left to right.            *)

Spans(S, lo, hi, s, a, z) ==
  /\ s \in Seq(S) /\ Len(s) # 0
  /\ lo[Lf(s[1])] = a /\ hi[Lf(s[Len(s)])] = z
  /\ \A i \in 1 .. Len(s) - 1 : hi[Lf(s[i])] = lo[Lf(s[i + 1])]

LEMMA SpansJoin ==
  ASSUME NEW S, NEW lo, NEW hi, NEW s, NEW t, NEW a, NEW m, NEW z,
         Spans(S, lo, hi, s, a, m), Spans(S, lo, hi, t, m, z)
  PROVE  Spans(S, lo, hi, s \o t, a, z)
<1>1. /\ s \in Seq(S) /\ Len(s) # 0 /\ lo[Lf(s[1])] = a /\ hi[Lf(s[Len(s)])] = m
      /\ \A i \in 1 .. Len(s) - 1 : hi[Lf(s[i])] = lo[Lf(s[i + 1])]
      /\ t \in Seq(S) /\ Len(t) # 0 /\ lo[Lf(t[1])] = m /\ hi[Lf(t[Len(t)])] = z
      /\ \A i \in 1 .. Len(t) - 1 : hi[Lf(t[i])] = lo[Lf(t[i + 1])]
  BY DEF Spans
<1>2. PICK u, p, q : u = s \o t /\ p = Len(s) /\ q = Len(t)
  OBVIOUS
<1>3. p \in Nat /\ q \in Nat /\ p # 0 /\ q # 0
  BY <1>1, <1>2, SequenceFacts
<1>4. /\ u \in Seq(S) /\ Len(u) = p + q
      /\ \A i \in 1 .. p : u[i] = s[i]
      /\ \A i \in 1 .. q : u[p + i] = t[i]
  <2>1. /\ s \o t \in Seq(S) /\ Len(s \o t) = Len(s) + Len(t)
        /\ \A i \in 1 .. Len(s) + Len(t) : (s \o t)[i] = IF i <= Len(s) THEN s[i] ELSE t[i - Len(s)]
    BY <1>1, ConcatProperties
  <2>2. \A i \in 1 .. p + q : u[i] = IF i <= p THEN s[i] ELSE t[i - p]
    BY ONLY <1>2, <2>1
  <2>3. \A i \in 1 .. p : u[i] = s[i]
    BY ONLY <1>3, <2>2
  <2>4. \A i \in 1 .. q : u[p + i] = t[i]
    BY ONLY <1>3, <2>2
  <2> QED
    BY ONLY <1>2, <2>1, <2>3, <2>4
<1>5. lo[Lf(u[1])] = a /\ hi[Lf(u[p + q])] = z
  <2>1. u[1] = s[1] /\ u[p + q] = t[q]
    BY ONLY <1>3, <1>4
  <2> QED
    BY ONLY <1>1, <1>2, <2>1
<1>6. ASSUME NEW i \in 1 .. p + q - 1 PROVE hi[Lf(u[i])] = lo[Lf(u[i + 1])]
  <2>1. CASE i < p
    <3>1. u[i] = s[i] /\ u[i + 1] = s[i + 1] /\ i \in 1 .. p - 1
      BY ONLY <1>3, <1>4, <2>1, i \in 1 .. p + q - 1
    <3> QED
      BY ONLY <1>1, <1>2, <3>1
  <2>2. CASE i = p
    <3>1. u[i] = s[p] /\ u[i + 1] = t[1]
      BY ONLY <1>3, <1>4, <2>2
    <3> QED
      BY ONLY <1>1, <1>2, <3>1
  <2>3. CASE i > p
    <3>1. PICK j : j = i - p
      OBVIOUS
    <3>2. j \in 1 .. q - 1 /\ j \in 1 .. q /\ j + 1 \in 1 .. q /\ i = p + j /\ i + 1 = p + (j + 1)
      BY ONLY <1>3, <2>3, <3>1, i \in 1 .. p + q - 1
    <3>3. u[i] = t[j] /\ u[i + 1] = t[j + 1]
      BY ONLY <1>4, <3>2
    <3> QED
      BY ONLY <1>1, <1>2, <3>2, <3>3
  <2> QED
    BY ONLY <1>3, <2>1, <2>2, <2>3, i \in 1 .. p + q - 1
<1>7. Len(u) # 0
  BY ONLY <1>3, <1>4
<1>8. Spans(S, lo, hi, u, a, z)
  <2>0. Len(u) = p + q
    BY ONLY <1>4
  <2>1. hi[Lf(u[Len(u)])] = z
    BY ONLY <1>5, <2>0
  <2>2. \A i \in 1 .. Len(u) - 1 : hi[Lf(u[i])] = lo[Lf(u[i + 1])]
    <3>1. 1 .. Len(u) - 1 = 1 .. p + q - 1
      BY ONLY <1>3, <2>0
    <3> QED
      BY ONLY <1>6, <3>1, Zenon
  <2> QED
    BY ONLY <1>4, <1>5, <1>7, <2>1, <2>2, Zenon DEF Spans
<1> QED
  BY ONLY <1>2, <1>8

LEMMA FlattenSpans ==
  ASSUME NEW S, NEW lo, NEW hi, NEW seqs, NEW n, n = Len(seqs), n \in Nat, n # 0, NEW a, NEW z,
         \A i \in 1 .. n : Spans(S, lo, hi, seqs[i], a[i], z[i]),
         \A i \in 1 .. n - 1 : z[i] = a[i + 1]
  PROVE  Spans(S, lo, hi, FlattenSeq(seqs), a[1], z[n])
<1>1. PICK f : /\ FlattenSeq(seqs) = f[n] /\ f[1] = seqs[1]
               /\ \A i \in 1 .. n - 1 : f[i + 1] = f[i] \o seqs[i + 1]
  BY FlattenIs
<1> DEFINE D == {i \in 0 .. n : i # 0 => Spans(S, lo, hi, f[i], a[1], z[i])}
<1>2. 0 \in D
  OBVIOUS
<1>3. ASSUME NEW i \in 0 .. n - 1, i \in D PROVE i + 1 \in D
  <2>0. CASE i = 0
    <3>1. 0 + 1 = 1 /\ 1 \in 1 .. n
      OBVIOUS
    <3> QED
      BY <1>1, <2>0, <3>1
  <2> SUFFICES ASSUME i # 0 PROVE i + 1 \in D
    BY <2>0
  <2>1. i + 1 \in 1 .. n /\ i \in 1 .. n - 1
    OBVIOUS
  <2>2. Spans(S, lo, hi, f[i], a[1], z[i]) /\ Spans(S, lo, hi, seqs[i + 1], z[i], z[i + 1])
    BY <1>3, <2>1
  <2>3. Spans(S, lo, hi, f[i] \o seqs[i + 1], a[1], z[i + 1])
    BY ONLY <2>2, SpansJoin
  <2>4. f[i + 1] = f[i] \o seqs[i + 1]
    BY ONLY <1>1, <2>1
  <2>5. i + 1 \in 0 .. n
    BY ONLY <2>1, n \in Nat
  <2> QED
    BY <2>3, <2>4, <2>5
<1>4. \A i \in 0 .. n : i \in D
  <2> HIDE DEF D
  <2> QED
    BY <1>2, <1>3, SetInduction
<1>5. n \in 0 .. n
  OBVIOUS
<1> QED
  BY <1>1, <1>4, <1>5

-----------------------------------------------------------------------------
(* Keys in order, all from a range.                                        *)

SortedIn(t, a, z) ==
  /\ t \in Seq(Int) /\ a \in Int /\ z \in Int /\ a <= z
  /\ \A n \in 1 .. Len(t) : a <= t[n] /\ t[n] < z
  /\ \A m, n \in 1 .. Len(t) : m < n => t[m] < t[n]

LEMMA SortedJoin ==
  ASSUME NEW s, NEW t, NEW a, NEW m, NEW z, SortedIn(s, a, m), SortedIn(t, m, z)
  PROVE  SortedIn(s \o t, a, z)
<1>1. /\ s \in Seq(Int) /\ a \in Int /\ m \in Int /\ a <= m
      /\ \A i \in 1 .. Len(s) : a <= s[i] /\ s[i] < m
      /\ \A i, j \in 1 .. Len(s) : i < j => s[i] < s[j]
      /\ t \in Seq(Int) /\ z \in Int /\ m <= z
      /\ \A i \in 1 .. Len(t) : m <= t[i] /\ t[i] < z
      /\ \A i, j \in 1 .. Len(t) : i < j => t[i] < t[j]
  BY DEF SortedIn
<1>2. PICK u, p, q : u = s \o t /\ p = Len(s) /\ q = Len(t)
  OBVIOUS
<1>3. /\ p \in Nat /\ q \in Nat /\ (\A i \in 1 .. p : s[i] \in Int) /\ (\A i \in 1 .. q : t[i] \in Int)
  BY <1>1, <1>2, SequenceFacts
<1>4. /\ u \in Seq(Int) /\ Len(u) = p + q
      /\ \A i \in 1 .. p + q : u[i] = IF i <= p THEN s[i] ELSE t[i - p]
  <2>1. PICK S : S = Int
    OBVIOUS
  <2>2. s \in Seq(S) /\ t \in Seq(S)
    BY ONLY <1>1, <2>1
  <2>3. /\ s \o t \in Seq(S) /\ Len(s \o t) = Len(s) + Len(t)
        /\ \A i \in 1 .. Len(s) + Len(t) : (s \o t)[i] = IF i <= Len(s) THEN s[i] ELSE t[i - Len(s)]
    BY ONLY <2>2, ConcatProperties
  <2> QED
    BY ONLY <1>2, <2>1, <2>3
<1>5. \A i \in 1 .. p : a <= s[i] /\ s[i] < m
  BY ONLY <1>1, <1>2
<1>6. \A i \in 1 .. q : m <= t[i] /\ t[i] < z
  BY ONLY <1>1, <1>2
<1>7. ASSUME NEW i \in 1 .. p + q PROVE a <= u[i] /\ u[i] < z
  <2>1. CASE i <= p
    <3>1. u[i] = s[i] /\ i \in 1 .. p
      BY ONLY <1>3, <1>4, <2>1, i \in 1 .. p + q
    <3>2. s[i] \in Int /\ a <= s[i] /\ s[i] < m
      BY ONLY <1>3, <1>5, <3>1
    <3> QED
      BY ONLY <1>1, <3>1, <3>2
  <2>2. CASE i > p
    <3>1. u[i] = t[i - p] /\ i - p \in 1 .. q
      BY ONLY <1>3, <1>4, <2>2, i \in 1 .. p + q
    <3>2. t[i - p] \in Int /\ m <= t[i - p] /\ t[i - p] < z
      BY ONLY <1>3, <1>6, <3>1, Zenon
    <3> QED
      BY ONLY <1>1, <3>1, <3>2
  <2> QED
    BY ONLY <1>3, <2>1, <2>2, i \in 1 .. p + q
<1>8. ASSUME NEW i \in 1 .. p + q, NEW j \in 1 .. p + q, i < j PROVE u[i] < u[j]
  <2>1. CASE j <= p
    <3>1. u[i] = s[i] /\ u[j] = s[j] /\ i \in 1 .. p /\ j \in 1 .. p
      BY ONLY <1>3, <1>4, <1>8, <2>1, i \in 1 .. p + q, j \in 1 .. p + q
    <3> QED
      BY ONLY <1>1, <1>2, <1>8, <3>1
  <2>2. CASE p < i
    <3>1. /\ u[i] = t[i - p] /\ u[j] = t[j - p] /\ i - p \in 1 .. q /\ j - p \in 1 .. q
          /\ i - p < j - p
      BY ONLY <1>3, <1>4, <1>8, <2>2, i \in 1 .. p + q, j \in 1 .. p + q
    <3> QED
      BY ONLY <1>1, <1>2, <3>1
  <2>3. CASE i <= p /\ p < j
    <3>1. u[i] = s[i] /\ u[j] = t[j - p] /\ i \in 1 .. p /\ j - p \in 1 .. q
      BY ONLY <1>3, <1>4, <2>3, i \in 1 .. p + q, j \in 1 .. p + q
    <3>2. s[i] < m /\ m <= t[j - p] /\ s[i] \in Int /\ t[j - p] \in Int
      BY ONLY <1>3, <1>5, <1>6, <3>1
    <3> QED
      BY ONLY <1>1, <3>1, <3>2
  <2> QED
    BY ONLY <1>3, <2>1, <2>2, <2>3, i \in 1 .. p + q, j \in 1 .. p + q
<1>9. a <= z
  BY ONLY <1>1
<1>10. SortedIn(u, a, z)
  BY ONLY <1>1, <1>4, <1>7, <1>8, <1>9 DEF SortedIn
<1> QED
  BY ONLY <1>2, <1>10

LEMMA FlattenSorted ==
  ASSUME NEW seqs, NEW n, n = Len(seqs), n \in Nat, n # 0, NEW a, NEW z,
         \A i \in 1 .. n : SortedIn(seqs[i], a[i], z[i]),
         \A i \in 1 .. n - 1 : z[i] = a[i + 1]
  PROVE  SortedIn(FlattenSeq(seqs), a[1], z[n])
<1>1. PICK f : /\ FlattenSeq(seqs) = f[n] /\ f[1] = seqs[1]
               /\ \A i \in 1 .. n - 1 : f[i + 1] = f[i] \o seqs[i + 1]
  BY FlattenIs
<1> DEFINE D == {i \in 0 .. n : i # 0 => SortedIn(f[i], a[1], z[i])}
<1>2. 0 \in D
  OBVIOUS
<1>3. ASSUME NEW i \in 0 .. n - 1, i \in D PROVE i + 1 \in D
  <2>0. CASE i = 0
    <3>1. 0 + 1 = 1 /\ 1 \in 1 .. n
      OBVIOUS
    <3> QED
      BY <1>1, <2>0, <3>1
  <2> SUFFICES ASSUME i # 0 PROVE i + 1 \in D
    BY <2>0
  <2>1. i + 1 \in 1 .. n /\ i \in 1 .. n - 1
    OBVIOUS
  <2>2. SortedIn(f[i], a[1], z[i]) /\ SortedIn(seqs[i + 1], z[i], z[i + 1])
    BY <1>3, <2>1
  <2>3. SortedIn(f[i] \o seqs[i + 1], a[1], z[i + 1])
    BY ONLY <2>2, SortedJoin
  <2>4. f[i + 1] = f[i] \o seqs[i + 1]
    BY ONLY <1>1, <2>1
  <2>5. i + 1 \in 0 .. n
    BY ONLY <2>1, n \in Nat
  <2> QED
    BY <2>3, <2>4, <2>5
<1>4. \A i \in 0 .. n : i \in D
  <2> HIDE DEF D
  <2> QED
    BY <1>2, <1>3, SetInduction
<1>5. n \in 0 .. n
  OBVIOUS
<1> QED
  BY <1>1, <1>4, <1>5

\* The recursion of LeafsBelow, down to level n.
RowAt(B, f, call) ==
  LET block == B[call[2]]
  IN  IF call[1] = 0 \/ block.tag = "leafs" THEN block.children
      ELSE FlattenSeq([n \in DOMAIN block.children |-> f[Below(call, block.children[n])]])
Rows(f, B, n) == f = [call \in (0 .. n) \X DOMAIN B |-> RowAt(B, f, call)]

LEMMA RowsExist ==
  ASSUME NEW B, NEW n \in Nat,
         \A b \in DOMAIN B : B[b].tag # "leafs" =>
           \A i \in DOMAIN B[b].children : B[b].children[i] \in DOMAIN B
  PROVE  \E f : Rows(f, B, n)
<1> DEFINE D == {m \in Nat : \E f : Rows(f, B, m)}
<1>0. PICK P : P = DOMAIN B
  OBVIOUS
<1>1. 0 \in D
  <2> DEFINE f == [call \in (0 .. 0) \X P |-> B[call[2]].children]
  <2>1. \A call \in (0 .. 0) \X P : RowAt(B, f, call) = B[call[2]].children
    <3> HIDE DEF f
    <3> SUFFICES ASSUME NEW call \in (0 .. 0) \X P PROVE RowAt(B, f, call) = B[call[2]].children
      OBVIOUS
    <3>1. call[1] = 0
      OBVIOUS
    <3> QED
      BY ONLY <3>1, Zenon DEF RowAt
  <2>2. f = [call \in (0 .. 0) \X P |-> RowAt(B, f, call)]
    BY ONLY <2>1, Zenon
  <2> HIDE DEF f
  <2>3. Rows(f, B, 0)
    BY ONLY <1>0, <2>2 DEF Rows
  <2> QED
    BY <2>3
<1>2. ASSUME NEW m \in Nat, m \in D PROVE m + 1 \in D
  <2>1. PICK f : f = [call \in (0 .. m) \X P |-> RowAt(B, f, call)]
    BY <1>0, <1>2 DEF Rows
  <2> DEFINE g == [call \in (0 .. m + 1) \X P |-> RowAt(B, f, call)]
  <2>2. \A call \in (0 .. m) \X P : g[call] = f[call]
    <3>1. (0 .. m) \X P \subseteq (0 .. m + 1) \X P
      OBVIOUS
    <3> QED
      BY ONLY <2>1, <3>1, Zenon
  <2>3. ASSUME NEW call \in (0 .. m + 1) \X P PROVE RowAt(B, g, call) = RowAt(B, f, call)
    <3>1. PICK b, block : b = call[2] /\ block = B[b]
      OBVIOUS
    <3>2. CASE call[1] = 0 \/ block.tag = "leafs"
      <4> HIDE DEF g
      <4> QED
        BY ONLY <3>1, <3>2, Zenon DEF RowAt
    <3>3. CASE call[1] # 0 /\ block.tag # "leafs"
      <4>1. \A i \in DOMAIN block.children : g[Below(call, block.children[i])]
                                             = f[Below(call, block.children[i])]
        <5> SUFFICES ASSUME NEW i \in DOMAIN block.children
                     PROVE  g[Below(call, block.children[i])] = f[Below(call, block.children[i])]
          OBVIOUS
        <5>1. PICK child : child = block.children[i]
          OBVIOUS
        <5>2. b \in P /\ child \in P /\ call[1] - 1 \in 0 .. m
          BY <1>0, <3>1, <3>3, <5>1
        <5>3. Below(call, child) \in (0 .. m) \X P
          BY ONLY <5>2 DEF Below
        <5> HIDE DEF g
        <5> QED
          BY ONLY <2>2, <5>1, <5>3, Zenon
      <4> HIDE DEF g
      <4>2. [i \in DOMAIN block.children |-> g[Below(call, block.children[i])]]
              = [i \in DOMAIN block.children |-> f[Below(call, block.children[i])]]
        BY ONLY <4>1, Zenon
      <4>3. /\ RowAt(B, g, call)
                 = FlattenSeq([i \in DOMAIN block.children |-> g[Below(call, block.children[i])]])
            /\ RowAt(B, f, call)
                 = FlattenSeq([i \in DOMAIN block.children |-> f[Below(call, block.children[i])]])
        BY ONLY <3>1, <3>3, Zenon DEF RowAt
      <4> QED
        BY ONLY <4>2, <4>3, Zenon
    <3> QED
      BY <3>2, <3>3
  <2>4. g = [call \in (0 .. m + 1) \X P |-> RowAt(B, g, call)]
    <3> DEFINE k == [call \in (0 .. m + 1) \X P |-> RowAt(B, g, call)]
    <3>1. \A call \in (0 .. m + 1) \X P : g[call] = k[call]
      BY ONLY <2>3, Zenon
    <3> QED
      BY ONLY <3>1, Zenon
  <2> HIDE DEF g
  <2>5. Rows(g, B, m + 1)
    BY ONLY <1>0, <2>4 DEF Rows
  <2>6. m + 1 \in Nat
    OBVIOUS
  <2> QED
    BY ONLY <2>5, <2>6
<1>3. \A m \in Nat : m \in D
  <2> HIDE DEF D
  <2> QED
    BY <1>1, <1>2, NatSetInduction
<1> QED
  BY <1>3

RowIn(B, root) == (CHOOSE f : Rows(f, B, Len(B)))[<<Len(B), root>>]

LEMMA RowNow ==
  ASSUME NEW b
  PROVE  LeafsBelow(b) = RowIn(blocks, b)
  BY ONLY Zenon DEF LeafsBelow, RowIn, Rows, RowAt, Calls

\* A block's range falls to its children from left to right.
IsRow(kids, tag, lo, hi, n, low, high, a, z) ==
  /\ n = Len(kids) /\ n \in Nat /\ n # 0
  /\ a[1] = low /\ z[n] = high
  /\ \A i \in 1 .. n - 1 : z[i] = a[i + 1]
  /\ \A i \in 1 .. n : a[i] = lo[<<tag, kids[i]>>] /\ z[i] = hi[<<tag, kids[i]>>]

LEMMA KidRow ==
  ASSUME NEW L, NEW B, NEW root, NEW h, NEW lo, NEW hi, Start(L, B, root, h, lo, hi),
         NEW b \in DOMAIN B
  PROVE  \E n, a, z : IsRow(B[b].children, B[b].tag, lo, hi, n, lo[Blk(b)], hi[Blk(b)], a, z)
<1>0. PICK kids, n, tag : kids = B[b].children /\ n = Len(kids) /\ tag = B[b].tag
  OBVIOUS
<1>1. PICK N, block, x, m : N = Nodes(L, B) /\ block = B[b] /\ x = Blk(b) /\ m = Len(block.nodes)
  OBVIOUS
<1>2. Ordered(N, h, lo, hi) /\ x \in N /\ IsBlock(block, N, h, lo, hi, x)
  BY <1>1, StartFacts
<1>3. m \in Nat /\ n = m + 1
  BY <1>0, <1>1, <1>2, BlockFacts
<1>4. \A i \in 1 .. n : /\ lo[<<tag, kids[i]>>] = IF i = 1 THEN lo[x] ELSE block.nodes[i - 1]
                        /\ hi[<<tag, kids[i]>>] = IF i = n THEN hi[x] ELSE block.nodes[i]
  <2> SUFFICES ASSUME NEW i \in 1 .. n
               PROVE  /\ lo[<<tag, kids[i]>>] = IF i = 1 THEN lo[x] ELSE block.nodes[i - 1]
                      /\ hi[<<tag, kids[i]>>] = IF i = n THEN hi[x] ELSE block.nodes[i]
    OBVIOUS
  <2>1. Kid(block, i) = <<tag, kids[i]>>
    BY <1>0, <1>1 DEF Kid
  <2>2. i \in 1 .. Len(block.children)
    BY <1>0, <1>1
  <2>3. /\ lo[Kid(block, i)] = IF i = 1 THEN lo[x] ELSE block.nodes[i - 1]
        /\ hi[Kid(block, i)] = IF i = Len(block.nodes) + 1 THEN hi[x] ELSE block.nodes[i]
    BY ONLY <1>2, <2>2, KidFacts
  <2> QED
    BY ONLY <1>1, <1>3, <2>1, <2>3
<1>5. PICK a, z : /\ a = [i \in 1 .. n |-> lo[<<tag, kids[i]>>]]
                  /\ z = [i \in 1 .. n |-> hi[<<tag, kids[i]>>]]
  OBVIOUS
<1>6. \A i \in 1 .. n : a[i] = lo[<<tag, kids[i]>>] /\ z[i] = hi[<<tag, kids[i]>>]
  BY ONLY <1>5
<1>7. \A i \in 1 .. n : /\ a[i] = IF i = 1 THEN lo[x] ELSE block.nodes[i - 1]
                        /\ z[i] = IF i = n THEN hi[x] ELSE block.nodes[i]
  BY ONLY <1>4, <1>6, Zenon
<1>8. a[1] = lo[x] /\ z[n] = hi[x]
  <2>1. 1 \in 1 .. n /\ n \in 1 .. n
    BY ONLY <1>3
  <2> QED
    BY ONLY <1>7, <2>1
<1>9. ASSUME NEW i \in 1 .. n - 1 PROVE z[i] = a[i + 1]
  <2>1. i \in 1 .. n /\ i # n /\ i + 1 \in 1 .. n /\ i + 1 # 1 /\ (i + 1) - 1 = i
    BY ONLY <1>3, i \in 1 .. n - 1
  <2> QED
    BY ONLY <1>7, <2>1
<1>10. IsRow(kids, tag, lo, hi, n, lo[x], hi[x], a, z)
  BY ONLY <1>0, <1>3, <1>6, <1>8, <1>9 DEF IsRow
<1> QED
  BY ONLY <1>0, <1>1, <1>10

\* The leaves below the root share all keys out among them.
LEMMA RowSpans ==
  ASSUME NEW L, NEW B, NEW root, NEW h, NEW lo, NEW hi, Start(L, B, root, h, lo, hi),
         root \in DOMAIN B, Rooted(Nodes(L, B), root, h, lo, hi), h[Blk(root)] <= Len(B)
  PROVE  Spans(DOMAIN L, lo, hi, RowIn(B, root), Least, Beyond)
<1>1. Len(B) \in Nat /\ Shape(L, B, h, lo, hi) /\ \A b \in DOMAIN B : B[b] \in Blocks
  BY StartFacts
<1>2. \A b \in DOMAIN B :
        /\ B[b].tag \in {"leafs", "block"} /\ h[Blk(b)] \in Nat
        /\ B[b].tag = "leafs" => h[Blk(b)] = 1
        /\ B[b].tag = "block" => /\ h[Blk(b)] > 1
                                 /\ \A i \in DOMAIN B[b].children :
                                      B[b].children[i] \in DOMAIN B
                                      /\ h[Blk(B[b].children[i])] + 1 = h[Blk(b)]
  <2> SUFFICES ASSUME NEW b \in DOMAIN B
               PROVE  /\ B[b].tag \in {"leafs", "block"} /\ h[Blk(b)] \in Nat
                      /\ B[b].tag = "leafs" => h[Blk(b)] = 1
                      /\ B[b].tag = "block" => /\ h[Blk(b)] > 1
                                               /\ \A i \in DOMAIN B[b].children :
                                                    B[b].children[i] \in DOMAIN B
                                                    /\ h[Blk(B[b].children[i])] + 1 = h[Blk(b)]
    OBVIOUS
  <2>1. /\ B[b].tag \in {"leafs", "block"} /\ h[Blk(b)] \in Nat
        /\ DOMAIN B[b].children = 1 .. Len(B[b].children)
        /\ B[b].tag = "leafs" => h[Blk(b)] = 1
        /\ B[b].tag = "block" => /\ h[Blk(b)] > 1
                                 /\ \A i \in 1 .. Len(B[b].children) :
                                      B[b].children[i] \in DOMAIN B
                                      /\ h[Blk(B[b].children[i])] + 1 = h[Blk(b)]
    BY ChildrenInPool
  <2> QED
    BY ONLY <2>1
<1>5. PICK f : Rows(f, B, Len(B)) /\ RowIn(B, root) = f[<<Len(B), root>>]
  <2>1. \A b \in DOMAIN B : B[b].tag # "leafs" =>
          \A i \in DOMAIN B[b].children : B[b].children[i] \in DOMAIN B
    BY ONLY <1>2
  <2>2. \E f : Rows(f, B, Len(B))
    BY ONLY <1>1, <2>1, RowsExist
  <2>3. Rows(CHOOSE f : Rows(f, B, Len(B)), B, Len(B))
    BY ONLY <2>2, Zenon
  <2> QED
    BY <2>3 DEF RowIn
<1>6. \A call \in (0 .. Len(B)) \X DOMAIN B : f[call] = RowAt(B, f, call)
  BY ONLY <1>5, Zenon DEF Rows
<1> DEFINE G(n, b) == h[Blk(b)] <= n
                      => Spans(DOMAIN L, lo, hi, f[<<n, b>>], lo[Blk(b)], hi[Blk(b)])
           D == {n \in 0 .. Len(B) : \A b \in DOMAIN B : G(n, b)}
<1>7. 0 \in D
  <2>1. \A b \in DOMAIN B : ~ (h[Blk(b)] <= 0)
    BY ONLY <1>2
  <2> QED
    BY ONLY <1>1, <2>1
<1>8. ASSUME NEW n \in 0 .. Len(B) - 1, n \in D PROVE n + 1 \in D
  <2> SUFFICES ASSUME NEW b \in DOMAIN B, h[Blk(b)] <= n + 1
               PROVE  Spans(DOMAIN L, lo, hi, f[<<n + 1, b>>], lo[Blk(b)], hi[Blk(b)])
    BY <1>1, <1>8
  <2>1. PICK call, kids, top, tag : /\ call = <<n + 1, b>> /\ kids = B[b].children
                                    /\ top = h[Blk(b)] /\ tag = B[b].tag
    OBVIOUS
  <2>2. /\ call \in (0 .. Len(B)) \X DOMAIN B /\ call[1] = n + 1 /\ call[2] = b
        /\ call[1] # 0 /\ call[1] - 1 = n
    BY <1>1, <2>1
  <2>3. f[call] = RowAt(B, f, call)
    BY ONLY <1>6, <2>2
  <2>5. \A c : Below(call, c) = <<n, c>>
    BY ONLY <2>2 DEF Below
  <2>6. f[call] = IF tag = "leafs" THEN kids
                  ELSE FlattenSeq([i \in DOMAIN kids |-> f[Below(call, kids[i])]])
    <3>1. RowAt(B, f, call)
            = IF call[1] = 0 \/ tag = "leafs" THEN kids
              ELSE FlattenSeq([i \in DOMAIN kids |-> f[Below(call, kids[i])]])
      BY ONLY <2>1, <2>2, Zenon DEF RowAt
    <3> QED
      BY ONLY <2>2, <2>3, <3>1
  <2>7. PICK last, a, z : IsRow(kids, tag, lo, hi, last, lo[Blk(b)], hi[Blk(b)], a, z)
    <3>1. b \in DOMAIN B /\ Start(L, B, root, h, lo, hi)
      OBVIOUS
    <3> QED
      BY ONLY <2>1, <3>1, KidRow
  <2>8. /\ last = Len(kids) /\ last \in Nat /\ last # 0
        /\ a[1] = lo[Blk(b)] /\ z[last] = hi[Blk(b)]
        /\ \A i \in 1 .. last - 1 : z[i] = a[i + 1]
        /\ \A i \in 1 .. last : a[i] = lo[<<tag, kids[i]>>] /\ z[i] = hi[<<tag, kids[i]>>]
    BY ONLY <2>7 DEF IsRow
  <2>9. kids \in Seq(Nat) /\ DOMAIN kids = 1 .. last /\ \A i \in 1 .. last : kids[i] \in Nat
    BY <1>1, <2>1, <2>8, SequenceFacts DEF Blocks
  <2>10. CASE tag = "leafs"
    <3>1. \A i \in 1 .. last : kids[i] \in DOMAIN L /\ <<tag, kids[i]>> = Lf(kids[i])
      <4>1. \A i \in 1 .. Len(B[b].children) :
              B[b].children[i] \in DOMAIN L /\ Kid(B[b], i) = Lf(B[b].children[i])
        <5> SUFFICES ASSUME NEW i \in 1 .. Len(B[b].children)
                     PROVE  B[b].children[i] \in DOMAIN L /\ Kid(B[b], i) = Lf(B[b].children[i])
          OBVIOUS
        <5>1. i \in 1 .. Len(B[b].children) /\ b \in DOMAIN B
          OBVIOUS
        <5>2. B[b].tag = "leafs" => /\ B[b].children[i] \in DOMAIN L
                                    /\ Kid(B[b], i) = Lf(B[b].children[i])
          BY ONLY <1>1, <5>1, TagFacts
        <5> QED
          BY ONLY <2>1, <2>10, <5>2
      <4> QED
        BY ONLY <2>1, <2>8, <4>1 DEF Kid
    <3>2. kids \in Seq(DOMAIN L)
      <4>1. PICK S : S = DOMAIN L
        OBVIOUS
      <4>2. \A i \in 1 .. last : kids[i] \in S
        BY ONLY <3>1, <4>1
      <4>3. kids \in Seq(S)
        BY ONLY <2>8, <2>9, <4>2
      <4> QED
        BY ONLY <4>1, <4>3
    <3>3. \A i \in 1 .. last : a[i] = lo[Lf(kids[i])] /\ z[i] = hi[Lf(kids[i])]
      BY ONLY <2>8, <3>1
    <3>4. 1 \in 1 .. last /\ last \in 1 .. last
          /\ \A i \in 1 .. last - 1 : i \in 1 .. last /\ i + 1 \in 1 .. last
      BY ONLY <2>8
    <3>5. /\ lo[Lf(kids[1])] = lo[Blk(b)] /\ hi[Lf(kids[last])] = hi[Blk(b)]
          /\ \A i \in 1 .. last - 1 : hi[Lf(kids[i])] = lo[Lf(kids[i + 1])]
      BY ONLY <2>8, <3>3, <3>4
    <3>6. Spans(DOMAIN L, lo, hi, kids, lo[Blk(b)], hi[Blk(b)])
      BY ONLY <2>8, <3>2, <3>5 DEF Spans
    <3> QED
      BY ONLY <2>1, <2>6, <2>10, <3>6
  <2>11. CASE tag = "block"
    <3>1. PICK seqs : seqs = [i \in DOMAIN kids |-> f[Below(call, kids[i])]]
      OBVIOUS
    <3>2. \A i \in 1 .. last : seqs[i] = f[<<n, kids[i]>>]
      BY ONLY <2>5, <2>9, <3>1
    <3>3. Len(seqs) = last
      BY ONLY <2>8, <2>9, <3>1
    <3>4. ASSUME NEW i \in 1 .. last PROVE Spans(DOMAIN L, lo, hi, seqs[i], a[i], z[i])
      <4>1. PICK c : c = kids[i]
        OBVIOUS
      <4>2. c \in DOMAIN B /\ h[Blk(c)] + 1 = top /\ h[Blk(c)] \in Nat
        BY <1>2, <2>1, <2>9, <2>11, <4>1
      <4>3. top <= n + 1 /\ n \in Nat
        BY <2>1
      <4>4. h[Blk(c)] <= n
        BY ONLY <4>2, <4>3
      <4>5. G(n, c)
        BY <1>8, <4>2
      <4>6. Spans(DOMAIN L, lo, hi, f[<<n, c>>], lo[Blk(c)], hi[Blk(c)])
        BY ONLY <4>4, <4>5
      <4>7. a[i] = lo[Blk(c)] /\ z[i] = hi[Blk(c)]
        <5>1. <<tag, kids[i]>> = Blk(c)
          BY ONLY <2>11, <4>1 DEF Blk
        <5> QED
          BY ONLY <2>8, <5>1, i \in 1 .. last
      <4>8. seqs[i] = f[<<n, c>>]
        BY ONLY <3>2, <4>1, i \in 1 .. last
      <4> QED
        BY ONLY <4>6, <4>7, <4>8
    <3>5. Spans(DOMAIN L, lo, hi, FlattenSeq(seqs), a[1], z[last])
      BY ONLY <2>8, <3>3, <3>4, FlattenSpans
    <3> QED
      BY ONLY <2>1, <2>6, <2>8, <2>11, <3>1, <3>5
  <2> QED
    BY <1>2, <2>1, <2>10, <2>11
<1>9. \A n \in 0 .. Len(B) : n \in D
  <2> HIDE DEF D
  <2> QED
    BY <1>1, <1>7, <1>8, SetInduction
<1>10. G(Len(B), root)
  <2>1. Len(B) \in 0 .. Len(B)
    BY ONLY <1>1
  <2> QED
    BY <1>9, <2>1
<1>11. lo[Blk(root)] = Least /\ hi[Blk(root)] = Beyond
  BY DEF Rooted
<1> QED
  BY <1>5, <1>10, <1>11

\* What the leaves' ranges say of them.
LEMMA RangeFacts ==
  ASSUME NEW L, NEW B, NEW h, NEW lo, NEW hi, Shape(L, B, h, lo, hi)
  PROVE  /\ \A l \in DOMAIN L : /\ lo[Lf(l)] \in Int /\ hi[Lf(l)] \in Int /\ lo[Lf(l)] < hi[Lf(l)]
                                /\ Least <= lo[Lf(l)] /\ hi[Lf(l)] <= Beyond
         /\ \A k, l \in DOMAIN L : k # l => hi[Lf(k)] <= lo[Lf(l)] \/ hi[Lf(l)] <= lo[Lf(k)]
<1>1. PICK N : N = Nodes(L, B)
  OBVIOUS
<1>2. Ordered(N, h, lo, hi) /\ \A l \in DOMAIN L : Lf(l) \in N /\ IsLeaf(L[l], N, h, lo, hi, Lf(l))
  BY <1>1, NodeFacts DEF Shape
<1>3. \A l \in DOMAIN L : Lf(l) \in N /\ h[Lf(l)] = 0
  BY ONLY <1>2 DEF IsLeaf
<1>4. \A k, l \in DOMAIN L : k # l => Lf(k) # Lf(l)
  BY ONLY NodeFacts
<1> QED
  BY ONLY <1>2, <1>3, <1>4 DEF Ordered

LEMMA SameStart ==
  ASSUME NEW L, NEW B, NEW h, NEW lo, NEW hi, Shape(L, B, h, lo, hi),
         NEW k \in DOMAIN L, NEW l \in DOMAIN L, lo[Lf(k)] = lo[Lf(l)]
  PROVE  k = l
<1>1. /\ lo[Lf(k)] \in Int /\ hi[Lf(k)] \in Int /\ lo[Lf(k)] < hi[Lf(k)]
      /\ lo[Lf(l)] \in Int /\ hi[Lf(l)] \in Int /\ lo[Lf(l)] < hi[Lf(l)]
      /\ k # l => hi[Lf(k)] <= lo[Lf(l)] \/ hi[Lf(l)] <= lo[Lf(k)]
  BY ONLY Shape(L, B, h, lo, hi), k \in DOMAIN L, l \in DOMAIN L, RangeFacts
<1> QED
  BY ONLY <1>1, lo[Lf(k)] = lo[Lf(l)]

\* No leaf is twice in a row of leaves that share a range out.
LEMMA SpansUp ==
  ASSUME NEW L, NEW B, NEW h, NEW lo, NEW hi, Shape(L, B, h, lo, hi),
         NEW s, NEW a, NEW z, Spans(DOMAIN L, lo, hi, s, a, z)
  PROVE  \A i, j \in 1 .. Len(s) : s[i] = s[j] => i = j
<1>1. PICK S, n : S = DOMAIN L /\ n = Len(s)
  OBVIOUS
<1>2. s \in Seq(S) /\ \A i \in 1 .. n - 1 : hi[Lf(s[i])] = lo[Lf(s[i + 1])]
  BY ONLY <1>1, Spans(DOMAIN L, lo, hi, s, a, z) DEF Spans
<1>3. n \in Nat /\ \A i \in 1 .. n : s[i] \in S
  BY ONLY <1>1, <1>2, SequenceFacts
<1>4. \A i \in 1 .. n : lo[Lf(s[i])] \in Int /\ hi[Lf(s[i])] \in Int /\ lo[Lf(s[i])] < hi[Lf(s[i])]
  BY ONLY <1>1, <1>3, Shape(L, B, h, lo, hi), RangeFacts
<1>5. PICK b, e : b = [i \in 1 .. n |-> lo[Lf(s[i])]] /\ e = [i \in 1 .. n |-> hi[Lf(s[i])]]
  OBVIOUS
<1>6. \A i \in 1 .. n : /\ b[i] = lo[Lf(s[i])] /\ b[i] \in Int /\ e[i] \in Int /\ b[i] < e[i]
  BY ONLY <1>4, <1>5
<1>7. ASSUME NEW i \in 1 .. n - 1 PROVE e[i] = b[i + 1]
  <2>1. i \in 1 .. n /\ i + 1 \in 1 .. n
    BY ONLY <1>3, i \in 1 .. n - 1
  <2> QED
    BY ONLY <1>2, <1>5, <2>1, i \in 1 .. n - 1
<1> DEFINE D == {j \in 0 .. n : \A i \in 1 .. j - 1 : e[i] <= b[j]}
<1>8. 0 \in D
  BY ONLY <1>3
<1>9. ASSUME NEW j \in 0 .. n - 1, j \in D PROVE j + 1 \in D
  <2>1. j + 1 \in 0 .. n
    BY ONLY <1>3, j \in 0 .. n - 1
  <2>2. ASSUME NEW i \in 1 .. (j + 1) - 1 PROVE e[i] <= b[j + 1]
    <3>1. j \in 1 .. n - 1 /\ j \in 1 .. n /\ i \in 1 .. j /\ j + 1 \in 1 .. n
      BY ONLY <1>3, j \in 0 .. n - 1, i \in 1 .. (j + 1) - 1
    <3>2. e[j] = b[j + 1] /\ b[j] \in Int /\ e[j] \in Int /\ b[j] < e[j] /\ b[j + 1] \in Int
      BY ONLY <1>6, <1>7, <3>1
    <3>3. CASE i = j
      BY ONLY <3>2, <3>3
    <3>4. CASE i # j
      <4>1. i \in 1 .. j - 1 /\ i \in 1 .. n
        BY ONLY <1>3, <3>1, <3>4
      <4>2. e[i] <= b[j] /\ e[i] \in Int
        BY <1>6, <1>9, <4>1
      <4> QED
        BY ONLY <3>2, <4>2
    <3> QED
      BY ONLY <3>3, <3>4
  <2> QED
    BY <2>1, <2>2
<1>10. \A j \in 0 .. n : j \in D
  <2> HIDE DEF D
  <2> QED
    BY ONLY <1>3, <1>8, <1>9, SetInduction
<1>11. ASSUME NEW i \in 1 .. n, NEW j \in 1 .. n, i < j PROVE s[i] # s[j]
  <2>1. j \in 0 .. n /\ i \in 1 .. j - 1
    BY ONLY <1>3, <1>11, i \in 1 .. n, j \in 1 .. n
  <2>2. e[i] <= b[j]
    BY <1>10, <2>1
  <2>3. b[i] \in Int /\ e[i] \in Int /\ b[j] \in Int /\ b[i] < e[i]
    BY ONLY <1>6, i \in 1 .. n, j \in 1 .. n
  <2>4. b[i] # b[j]
    BY ONLY <2>2, <2>3
  <2> QED
    BY ONLY <1>6, <2>4, i \in 1 .. n, j \in 1 .. n
<1>12. ASSUME NEW i \in 1 .. n, NEW j \in 1 .. n, s[i] = s[j] PROVE i = j
  <2>1. ~ (i < j) /\ ~ (j < i)
    BY <1>11, <1>12
  <2> QED
    BY ONLY <1>3, <2>1, i \in 1 .. n, j \in 1 .. n
<1> QED
  BY ONLY <1>1, <1>12

\* When they share all keys out, every leaf is among them.
LEMMA SpansAll ==
  ASSUME NEW L, NEW B, NEW h, NEW lo, NEW hi, Shape(L, B, h, lo, hi),
         NEW s, Spans(DOMAIN L, lo, hi, s, Least, Beyond), NEW l \in DOMAIN L
  PROVE  \E i \in 1 .. Len(s) : s[i] = l
<1>1. PICK S, n, low, high, x, y : /\ S = DOMAIN L /\ n = Len(s) /\ low = Least /\ high = Beyond
                                   /\ x = lo[Lf(l)] /\ y = hi[Lf(l)]
  OBVIOUS
<1>2. /\ s \in Seq(S) /\ n # 0 /\ lo[Lf(s[1])] = low /\ hi[Lf(s[n])] = high
      /\ \A i \in 1 .. n - 1 : hi[Lf(s[i])] = lo[Lf(s[i + 1])]
  BY ONLY <1>1, Spans(DOMAIN L, lo, hi, s, Least, Beyond) DEF Spans
<1>3. n \in Nat /\ \A i \in 1 .. n : s[i] \in S
  BY ONLY <1>1, <1>2, SequenceFacts
<1>4. /\ x \in Int /\ y \in Int /\ x < y /\ low <= x /\ y <= high
      /\ \A k \in S : /\ lo[Lf(k)] \in Int /\ hi[Lf(k)] \in Int /\ lo[Lf(k)] < hi[Lf(k)]
                      /\ k # l => hi[Lf(k)] <= x \/ y <= lo[Lf(k)]
  <2>1. /\ \A k \in DOMAIN L : /\ lo[Lf(k)] \in Int /\ hi[Lf(k)] \in Int /\ lo[Lf(k)] < hi[Lf(k)]
                               /\ Least <= lo[Lf(k)] /\ hi[Lf(k)] <= Beyond
        /\ \A j, k \in DOMAIN L : j # k => hi[Lf(j)] <= lo[Lf(k)] \/ hi[Lf(k)] <= lo[Lf(j)]
    BY ONLY Shape(L, B, h, lo, hi), RangeFacts
  <2> QED
    BY ONLY <1>1, <2>1, l \in DOMAIN L
<1>5. SUFFICES ASSUME \A i \in 1 .. n : s[i] # l PROVE FALSE
  BY <1>1
<1>6. PICK b, e : b = [i \in 1 .. n |-> lo[Lf(s[i])]] /\ e = [i \in 1 .. n |-> hi[Lf(s[i])]]
  OBVIOUS
<1>7. \A i \in 1 .. n : b[i] \in Int /\ e[i] \in Int /\ b[i] < e[i] /\ (e[i] <= x \/ y <= b[i])
  BY ONLY <1>3, <1>4, <1>5, <1>6
<1>8. b[1] = low /\ e[n] = high
  <2>1. 1 \in 1 .. n /\ n \in 1 .. n
    BY ONLY <1>2, <1>3
  <2> QED
    BY ONLY <1>2, <1>6, <2>1
<1>9. ASSUME NEW i \in 1 .. n - 1 PROVE e[i] = b[i + 1]
  <2>1. i \in 1 .. n /\ i + 1 \in 1 .. n
    BY ONLY <1>3, i \in 1 .. n - 1
  <2> QED
    BY ONLY <1>2, <1>6, <2>1, i \in 1 .. n - 1
<1> DEFINE D == {j \in 0 .. n : j = 0 \/ e[j] <= x}
<1>10. 0 \in D
  BY ONLY <1>3
<1>11. ASSUME NEW j \in 0 .. n - 1, j \in D PROVE j + 1 \in D
  <2>1. j + 1 \in 0 .. n /\ j + 1 \in 1 .. n /\ (j # 0 => j \in 1 .. n - 1 /\ j \in 1 .. n)
    BY ONLY <1>3, j \in 0 .. n - 1
  <2>2. b[j + 1] <= x
    <3>1. CASE j = 0
      <4>1. j + 1 = 1
        BY ONLY <3>1
      <4> QED
        BY ONLY <1>4, <1>8, <4>1
    <3>2. CASE j # 0
      <4>1. e[j] <= x /\ e[j] = b[j + 1]
        BY <1>9, <1>11, <2>1, <3>2
      <4> QED
        BY ONLY <4>1
    <3> QED
      BY ONLY <3>1, <3>2
  <2>3. b[j + 1] \in Int /\ e[j + 1] \in Int /\ (e[j + 1] <= x \/ y <= b[j + 1])
    BY ONLY <1>7, <2>1
  <2>4. e[j + 1] <= x
    BY ONLY <1>4, <2>2, <2>3
  <2> QED
    BY <2>1, <2>4
<1>12. \A j \in 0 .. n : j \in D
  <2> HIDE DEF D
  <2> QED
    BY ONLY <1>3, <1>10, <1>11, SetInduction
<1>13. e[n] <= x
  <2>1. n \in 0 .. n
    BY ONLY <1>3
  <2> QED
    BY <1>2, <1>12, <2>1
<1>14. low \in Int /\ high \in Int
  BY ONLY <1>1 DEF Least, Beyond
<1> QED
  BY ONLY <1>4, <1>8, <1>13, <1>14

\* A row that has every number up to m once is m long.
LEMMA OnceEach ==
  ASSUME NEW m \in Nat, NEW s \in Seq(1 .. m),
         \A i, j \in 1 .. Len(s) : s[i] = s[j] => i = j,
         \A l \in 1 .. m : \E i \in 1 .. Len(s) : s[i] = l
  PROVE  Len(s) = m
<1>1. PICK n : n = Len(s)
  OBVIOUS
<1>2. n \in Nat /\ DOMAIN s = 1 .. n /\ s \in [1 .. n -> 1 .. m]
  BY <1>1
<1>3. s \in Bijection(1 .. n, 1 .. m)
  BY <1>1, <1>2 DEF Bijection, Injection, Surjection, IsInjective
<1>4. IsFiniteSet(1 .. n) /\ Cardinality(1 .. n) = n /\ Cardinality(1 .. m) = m /\ IsFiniteSet(1 .. m)
  BY <1>2, FS_Interval
<1>5. Cardinality(1 .. n) = Cardinality(1 .. m)
  BY <1>3, <1>4, FS_Bijection DEF ExistsBijection
<1> QED
  BY ONLY <1>1, <1>4, <1>5

\* The chain of leaves, for any pools.
RowInOrder(L, chain) ==
  LET keys == FlattenSeq([n \in DOMAIN chain |-> KeysOf(L[chain[n]].buffer)])
  IN  /\ Len(chain) = Len(L)
      /\ \A n \in DOMAIN chain : L[chain[n]].next = IF n < Len(chain) THEN chain[n + 1] ELSE 0
      /\ \A n \in 1 .. Len(keys) - 1 : keys[n] < keys[n + 1]

LEMMA RowOrdered ==
  ASSUME NEW L, NEW B, NEW root, NEW h, NEW lo, NEW hi, Start(L, B, root, h, lo, hi),
         NEW chain, Spans(DOMAIN L, lo, hi, chain, Least, Beyond)
  PROVE  RowInOrder(L, chain)
<1>1. PICK n, low, high, N : n = Len(chain) /\ low = Least /\ high = Beyond /\ N = Nodes(L, B)
  OBVIOUS
<1>2. /\ Shape(L, B, h, lo, hi) /\ Len(L) \in Nat /\ DOMAIN L = 1 .. Len(L) /\ Ordered(N, h, lo, hi)
  BY <1>1, StartFacts
<1>3. /\ chain \in Seq(DOMAIN L) /\ n # 0 /\ lo[Lf(chain[1])] = low /\ hi[Lf(chain[n])] = high
      /\ \A i \in 1 .. n - 1 : hi[Lf(chain[i])] = lo[Lf(chain[i + 1])]
  BY ONLY <1>1, Spans(DOMAIN L, lo, hi, chain, Least, Beyond) DEF Spans
<1>4. n \in Nat /\ DOMAIN chain = 1 .. n /\ \A i \in 1 .. n : chain[i] \in DOMAIN L
  BY ONLY <1>1, <1>3, SequenceFacts
<1>5. Len(chain) = Len(L)
  <2>1. \A i, j \in 1 .. Len(chain) : chain[i] = chain[j] => i = j
    BY ONLY <1>2, Spans(DOMAIN L, lo, hi, chain, Least, Beyond), SpansUp
  <2>2. \A l \in DOMAIN L : \E i \in 1 .. Len(chain) : chain[i] = l
    <3> SUFFICES ASSUME NEW l \in DOMAIN L PROVE \E i \in 1 .. Len(chain) : chain[i] = l
      OBVIOUS
    <3>1. l \in DOMAIN L
      OBVIOUS
    <3> QED
      BY ONLY <1>2, <3>1, Spans(DOMAIN L, lo, hi, chain, Least, Beyond), SpansAll
  <2>3. PICK m : m = Len(L)
    OBVIOUS
  <2>4. /\ m \in Nat /\ chain \in Seq(1 .. m)
        /\ \A l \in 1 .. m : \E i \in 1 .. Len(chain) : chain[i] = l
    BY ONLY <1>2, <1>3, <2>2, <2>3
  <2>5. Len(chain) = m
    BY ONLY <2>1, <2>4, OnceEach
  <2> QED
    BY ONLY <2>3, <2>5
<1>6. \A l \in DOMAIN L : /\ lo[Lf(l)] \in Int /\ hi[Lf(l)] \in Int /\ lo[Lf(l)] < hi[Lf(l)]
                          /\ low <= lo[Lf(l)] /\ hi[Lf(l)] <= high
  BY ONLY <1>1, <1>2, RangeFacts
<1>7. \A l \in DOMAIN L : Lf(l) \in N /\ IsLeaf(L[l], N, h, lo, hi, Lf(l))
  BY ONLY <1>1, <1>2, NodeFacts DEF Shape
<1>8. low \in Int /\ high \in Int
  BY ONLY <1>1 DEF Least, Beyond
<1>9. ASSUME NEW i \in 1 .. n
      PROVE  L[chain[i]].next = IF i < n THEN chain[i + 1] ELSE 0
  <2>1. PICK l : l = chain[i]
    OBVIOUS
  <2>2. l \in DOMAIN L
    BY ONLY <1>4, <2>1, i \in 1 .. n
  <2>3. IF hi[Lf(l)] = high THEN L[l].next = 0
        ELSE Lf(L[l].next) \in N /\ lo[Lf(L[l].next)] = hi[Lf(l)]
    BY ONLY <1>1, <1>7, <2>2 DEF IsLeaf
  <2>4. CASE i = n
    <3>1. hi[Lf(l)] = high /\ ~ (i < n)
      BY ONLY <1>3, <1>4, <2>1, <2>4
    <3> QED
      BY ONLY <2>1, <2>3, <3>1
  <2>5. CASE i # n
    <3>1. PICK k : k = chain[i + 1]
      OBVIOUS
    <3>2. i \in 1 .. n - 1 /\ i + 1 \in 1 .. n /\ i < n
      BY ONLY <1>4, <2>5, i \in 1 .. n
    <3>3. k \in DOMAIN L /\ hi[Lf(l)] = lo[Lf(k)]
      BY ONLY <1>3, <1>4, <2>1, <3>1, <3>2
    <3>4. hi[Lf(l)] # high
      <4>1. /\ lo[Lf(k)] \in Int /\ hi[Lf(k)] \in Int /\ lo[Lf(k)] < hi[Lf(k)] /\ hi[Lf(k)] <= high
        BY ONLY <1>6, <3>3
      <4> QED
        BY ONLY <1>8, <3>3, <4>1
    <3>5. PICK next : next = L[l].next
      OBVIOUS
    <3>6. Lf(next) \in N /\ lo[Lf(next)] = lo[Lf(k)]
      BY ONLY <2>3, <3>3, <3>4, <3>5
    <3>7. next \in DOMAIN L
      BY ONLY <1>1, <3>6, NodeFacts
    <3>8. next = k
      BY ONLY <1>2, <3>3, <3>6, <3>7, SameStart
    <3> QED
      BY ONLY <2>1, <3>1, <3>2, <3>5, <3>8
  <2> QED
    BY ONLY <2>4, <2>5
<1>10. PICK seqs, a, z : /\ seqs = [i \in 1 .. n |-> KeysOf(L[chain[i]].buffer)]
                         /\ a = [i \in 1 .. n |-> lo[Lf(chain[i])]]
                         /\ z = [i \in 1 .. n |-> hi[Lf(chain[i])]]
  OBVIOUS
<1>11. /\ Len(seqs) = n
       /\ \A i \in 1 .. n : /\ seqs[i] = KeysOf(L[chain[i]].buffer)
                            /\ a[i] = lo[Lf(chain[i])] /\ z[i] = hi[Lf(chain[i])]
  BY ONLY <1>4, <1>10
<1>12. ASSUME NEW i \in 1 .. n PROVE SortedIn(seqs[i], a[i], z[i])
  <2>1. PICK l, x, buffer, t : l = chain[i] /\ x = Lf(l) /\ buffer = L[l].buffer /\ t = KeysOf(buffer)
    OBVIOUS
  <2>2. x \in N /\ IsLeaf(L[l], N, h, lo, hi, x) /\ l \in DOMAIN L
    BY ONLY <1>4, <1>7, <2>1, i \in 1 .. n
  <2>3. /\ L[l].buffer \in Seq(Entries)
        /\ \A p \in 1 .. Len(L[l].buffer) :
             lo[x] <= L[l].buffer[p].key /\ L[l].buffer[p].key < hi[x]
        /\ \A p, q \in 1 .. Len(L[l].buffer) : p < q => L[l].buffer[p].key < L[l].buffer[q].key
        /\ lo[x] \in Int /\ hi[x] \in Int /\ lo[x] < hi[x]
    BY ONLY <1>2, <2>2, LeafFacts
  <2>4. /\ buffer \in Seq(Entries)
        /\ \A p \in 1 .. Len(buffer) : lo[x] <= buffer[p].key /\ buffer[p].key < hi[x]
        /\ \A p, q \in 1 .. Len(buffer) : p < q => buffer[p].key < buffer[q].key
    BY ONLY <2>1, <2>3
  <2>5. /\ t \in Seq(Int) /\ Len(t) = Len(buffer) /\ \A p \in 1 .. Len(buffer) : t[p] = buffer[p].key
    BY ONLY <2>1, <2>4, KeysOfIs
  <2>6. /\ \A p \in 1 .. Len(t) : lo[x] <= t[p] /\ t[p] < hi[x]
        /\ \A p, q \in 1 .. Len(t) : p < q => t[p] < t[q]
    BY ONLY <2>4, <2>5
  <2>7. SortedIn(t, lo[x], hi[x])
    BY ONLY <2>3, <2>5, <2>6 DEF SortedIn
  <2>8. seqs[i] = t /\ a[i] = lo[x] /\ z[i] = hi[x]
    BY ONLY <1>11, <2>1, i \in 1 .. n
  <2> QED
    BY ONLY <2>7, <2>8
<1>13. ASSUME NEW i \in 1 .. n - 1 PROVE z[i] = a[i + 1]
  <2>1. i \in 1 .. n /\ i + 1 \in 1 .. n
    BY ONLY <1>4, i \in 1 .. n - 1
  <2> QED
    BY ONLY <1>3, <1>11, <2>1, i \in 1 .. n - 1
<1>14. PICK keys : keys = FlattenSeq(seqs)
  OBVIOUS
<1>15. SortedIn(keys, a[1], z[n])
  BY ONLY <1>3, <1>4, <1>11, <1>12, <1>13, <1>14, FlattenSorted
<1>16. \A i \in 1 .. Len(keys) - 1 : keys[i] < keys[i + 1]
  <2>1. keys \in Seq(Int) /\ \A p, q \in 1 .. Len(keys) : p < q => keys[p] < keys[q]
    BY ONLY <1>15 DEF SortedIn
  <2>2. Len(keys) \in Nat
    BY ONLY <2>1
  <2>3. \A i \in 1 .. Len(keys) - 1 : i \in 1 .. Len(keys) /\ i + 1 \in 1 .. Len(keys) /\ i < i + 1
    BY ONLY <2>2
  <2> QED
    BY ONLY <2>1, <2>3
<1>17. keys = FlattenSeq([i \in DOMAIN chain |-> KeysOf(L[chain[i]].buffer)])
  BY ONLY <1>4, <1>10, <1>14
<1> QED
  BY ONLY <1>1, <1>4, <1>5, <1>9, <1>16, <1>17, Zenon DEF RowInOrder

LEMMA InvChain ==
  TreeInv => ChainInOrder
<1> SUFFICES ASSUME TreeInv PROVE ChainInOrder
  OBVIOUS
<1>1. PICK L, B, r : L = leafs /\ B = blocks /\ r = tree
  OBVIOUS
<1>2. PICK h, lo, hi : /\ Start(L, B, r, h, lo, hi) /\ r \in DOMAIN B
                       /\ Rooted(Nodes(L, B), r, h, lo, hi) /\ h[Blk(r)] <= Len(B)
  BY <1>1 DEF TreeInv, Ready
<1>3. PICK chain : chain = RowIn(B, r)
  OBVIOUS
<1>4. Spans(DOMAIN L, lo, hi, chain, Least, Beyond)
  BY ONLY <1>2, <1>3, RowSpans
<1>5. RowInOrder(L, chain)
  BY ONLY <1>2, <1>4, RowOrdered
<1>6. LeafsBelow(tree) = chain
  BY ONLY <1>1, <1>3, RowNow
<1> QED
  BY ONLY <1>1, <1>5, <1>6, Zenon DEF ChainInOrder, RowInOrder

\* After every insertion the tree is balanced, its leaves and blocks have room,
\* and its leaves are chained in the order of their keys.
THEOREM TreeIsWellFormed == Spec => []WellFormed
<1>1. TreeInv => WellFormed
  BY InvOccupied, InvBalanced, InvChain DEF WellFormed
<1> QED
  BY <1>1, TreeIsSound, PTL
=============================================================================

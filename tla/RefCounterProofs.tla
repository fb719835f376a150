-------------------------- MODULE RefCounterProofs --------------------------
(***************************************************************************)
(* Proofs about RefCounter, for every heap, every table of blocks and every*)
(* client: counts cover the references, blocks in use are not handed out   *)
(* again, and popping a root reclaims what no other root reaches.          *)
(***************************************************************************)
EXTENDS RefCounter, NumberLemmas, FiniteSetTheorems, SequenceTheorems, TLAPS

Record ==
  [array : Nat, len : Nat, cap : Nat, parents : Nat, alive : BOOLEAN,
   child : UNION {[0 .. l - 1 -> Nat \cup {Nil}] : l \in Nat}]

\* How often c is in the sequence s.
CountIn(s, c) == Cardinality({k \in DOMAIN s : s[k] = c})

\* The slots that hold c, of blocks that have parents.
SlotsTo(bs, c) ==
  {e \in (1 .. Len(bs)) \X (0 .. CAP_HEAP) :
     bs[e[1]].parents > 0 /\ e[2] < bs[e[1]].len /\ bs[e[1]].child[e[2]] = c}

-----------------------------------------------------------------------------
(* Counting.                                                               *)

LEMMA SameSize ==
  ASSUME NEW S, NEW T, IsFiniteSet(S), NEW f \in [S -> T],
         \A x, y \in S : f[x] = f[y] => x = y, \A z \in T : \E x \in S : f[x] = z
  PROVE  IsFiniteSet(T) /\ Cardinality(T) = Cardinality(S)
<1>1. f \in Bijection(S, T)
  BY DEF Bijection, Injection, Surjection, IsInjective
<1> QED
  BY <1>1, FS_Bijection DEF ExistsBijection

LEMMA CountType ==
  ASSUME NEW X, NEW s \in Seq(X), NEW c
  PROVE  IsFiniteSet({k \in DOMAIN s : s[k] = c}) /\ CountIn(s, c) \in Nat
<1> DEFINE A == {k \in DOMAIN s : s[k] = c}
<1>1. Len(s) \in Nat /\ DOMAIN s = 1 .. Len(s)
  BY LenProperties
<1>2. IsFiniteSet(1 .. Len(s)) /\ A \in SUBSET (1 .. Len(s))
  BY <1>1, FS_Interval
<1>3. IsFiniteSet(A)
  BY <1>2, FS_Subset
<1> QED
  BY <1>3, FS_CardinalityType DEF CountIn

LEMMA CountNone ==
  ASSUME NEW X, NEW s \in Seq(X), NEW c
  PROVE  CountIn(s, c) = 0 <=> \A k \in 1 .. Len(s) : s[k] # c
<1> DEFINE A == {k \in DOMAIN s : s[k] = c}
<1>1. IsFiniteSet(A) /\ DOMAIN s = 1 .. Len(s)
  BY CountType, LenProperties
<1>2. Cardinality(A) = 0 <=> A = {}
  BY <1>1, FS_EmptySet
<1> QED
  BY <1>1, <1>2 DEF CountIn

LEMMA CountOne == ASSUME NEW x, NEW c PROVE CountIn(<<x>>, c) = IF x = c THEN 1 ELSE 0
<1>1. {k \in DOMAIN <<x>> : <<x>>[k] = c} = IF x = c THEN {1} ELSE {}
  OBVIOUS
<1> QED
  BY <1>1, FS_Singleton, FS_EmptySet DEF CountIn

LEMMA CountEmpty == ASSUME NEW c PROVE CountIn(<<>>, c) = 0
<1>1. {k \in DOMAIN <<>> : <<>>[k] = c} = {}
  OBVIOUS
<1> QED
  BY <1>1, FS_EmptySet DEF CountIn

LEMMA CountConcat ==
  ASSUME NEW X, NEW s \in Seq(X), NEW t \in Seq(X), NEW c
  PROVE  CountIn(s \o t, c) = CountIn(s, c) + CountIn(t, c)
<1> DEFINE A == {k \in DOMAIN s : s[k] = c}
           B == {k \in DOMAIN t : t[k] = c}
           C == {k \in DOMAIN (s \o t) : (s \o t)[k] = c}
           D == {k \in C : k > Len(s)}
           f == [k \in B |-> Len(s) + k]
<1>1. /\ Len(s) \in Nat /\ Len(t) \in Nat /\ s \o t \in Seq(X)
      /\ DOMAIN s = 1 .. Len(s) /\ DOMAIN t = 1 .. Len(t)
      /\ DOMAIN (s \o t) = 1 .. Len(s) + Len(t)
      /\ \A k \in 1 .. Len(s) + Len(t) :
           (s \o t)[k] = IF k <= Len(s) THEN s[k] ELSE t[k - Len(s)]
  BY LenProperties, ConcatProperties
<1>2. IsFiniteSet(A) /\ IsFiniteSet(B) /\ Cardinality(A) \in Nat
  BY CountType, FS_CardinalityType
<1>3. f \in [B -> D] /\ (\A x, y \in B : f[x] = f[y] => x = y) /\ \A z \in D : \E x \in B : f[x] = z
  <2>1. ASSUME NEW x \in B PROVE f[x] \in D
    <3>1. x \in 1 .. Len(t) /\ t[x] = c /\ f[x] = Len(s) + x
      BY <1>1
    <3>2. Len(s) + x \in 1 .. Len(s) + Len(t) /\ ~(Len(s) + x <= Len(s)) /\ (Len(s) + x) - Len(s) = x
      BY <1>1, <3>1
    <3> QED
      BY <1>1, <3>1, <3>2
  <2>2. ASSUME NEW z \in D PROVE z - Len(s) \in B /\ f[z - Len(s)] = z
    <3>1. z \in 1 .. Len(s) + Len(t) /\ z > Len(s) /\ (s \o t)[z] = c
      BY <1>1
    <3>2. z - Len(s) \in 1 .. Len(t) /\ t[z - Len(s)] = c
      BY <1>1, <3>1
    <3> QED
      BY <1>1, <3>1, <3>2
  <2>3. \A x, y \in B : f[x] = f[y] => x = y
    BY <1>1
  <2> QED
    BY <2>1, <2>2, <2>3
<1>4. IsFiniteSet(D) /\ Cardinality(D) = Cardinality(B)
  <2> HIDE DEF f, D, B
  <2> QED
    BY <1>2, <1>3, SameSize
<1>5. C = A \cup D /\ A \cap D = {}
  BY <1>1
<1>6. Cardinality(A \cup D) = Cardinality(A) + Cardinality(D) - Cardinality(A \cap D)
  BY <1>2, <1>4, FS_Union
<1>7. Cardinality(A \cap D) = 0 /\ Cardinality(D) \in Nat
  BY <1>4, <1>5, FS_EmptySet, FS_CardinalityType
<1>8. CountIn(s \o t, c) = Cardinality(C) /\ CountIn(s, c) = Cardinality(A)
      /\ CountIn(t, c) = Cardinality(B)
  BY DEF CountIn
<1> HIDE DEF A, B, C, D
<1> QED
  BY <1>2, <1>4, <1>5, <1>6, <1>7, <1>8

-----------------------------------------------------------------------------
(* Blocks and their slots.                                                 *)

\* Blocks whose slots hold blocks of the table or nothing, alive if they have parents.
Table(bs) ==
  /\ bs \in Seq(Record) /\ Len(bs) <= CAP_BLOCKS
  /\ \A b \in 1 .. Len(bs) :
       /\ bs[b].len > 0 /\ bs[b].len < CAP_HEAP
       /\ bs[b].child \in [0 .. bs[b].len - 1 -> 1 .. Len(bs) \cup {Nil}]
       /\ bs[b].parents > 0 => bs[b].alive

SlotsOf(bs, p, c) ==
  {e \in {p} \X (0 .. CAP_HEAP) : e[2] < bs[p].len /\ bs[p].child[e[2]] = c}

\* What is known of a block of the table, for leaves that need its types.
LEMMA BlockTypes ==
  ASSUME NEW bs, Table(bs), NEW b \in 1 .. Len(bs)
  PROVE  /\ bs[b] \in Record /\ bs[b].array \in Nat /\ bs[b].len \in Nat /\ bs[b].parents \in Nat
         /\ bs[b].len < CAP_HEAP /\ CAP_HEAP \in Nat
         /\ DOMAIN bs[b].child = 0 .. bs[b].len - 1
         /\ \A i \in 0 .. bs[b].len - 1 : bs[b].child[i] \in 1 .. Len(bs) \cup {Nil}
<1>1. bs[b] \in Record
  BY ElementOfSeq DEF Table
<1>2. bs[b].array \in Nat /\ bs[b].len \in Nat /\ bs[b].parents \in Nat
  BY <1>1 DEF Record
<1> QED
  BY <1>1, <1>2, CapAssumption DEF Table

LEMMA SlotsFinite ==
  ASSUME NEW bs, Table(bs), NEW c
  PROVE  IsFiniteSet(SlotsTo(bs, c)) /\ Cardinality(SlotsTo(bs, c)) \in Nat
<1>1. Len(bs) \in Nat /\ CAP_HEAP \in Nat
  BY CapAssumption, LenProperties DEF Table
<1>2. IsFiniteSet((1 .. Len(bs)) \X (0 .. CAP_HEAP))
  <2>1. IsFiniteSet(1 .. Len(bs)) /\ IsFiniteSet(0 .. CAP_HEAP)
    BY <1>1, FS_Interval
  <2> QED
    BY <2>1, FS_Product
<1>3. SlotsTo(bs, c) \in SUBSET ((1 .. Len(bs)) \X (0 .. CAP_HEAP))
  BY DEF SlotsTo
<1>4. IsFiniteSet(SlotsTo(bs, c))
  BY <1>2, <1>3, FS_Subset
<1> QED
  BY <1>4, FS_CardinalityType

LEMMA SlotsInOrder ==
  ASSUME NEW bs, Table(bs), NEW p \in 1 .. Len(bs), NEW c
  PROVE  /\ Slots(bs[p]) \in Seq(1 .. Len(bs) \cup {Nil})
         /\ IsFiniteSet(SlotsOf(bs, p, c))
         /\ Cardinality(SlotsOf(bs, p, c)) = CountIn(Slots(bs[p]), c)
<1> DEFINE s == Slots(bs[p])
           A == {k \in DOMAIN s : s[k] = c}
           B == SlotsOf(bs, p, c)
           f == [k \in A |-> <<p, k - 1>>]
<1>1. /\ bs[p].len \in Nat /\ bs[p].len < CAP_HEAP /\ CAP_HEAP \in Nat
      /\ \A i \in 0 .. bs[p].len - 1 : bs[p].child[i] \in 1 .. Len(bs) \cup {Nil}
  BY BlockTypes
<1>2. s \in Seq(1 .. Len(bs) \cup {Nil})
  <2>1. s \in [1 .. bs[p].len -> 1 .. Len(bs) \cup {Nil}]
    BY <1>1 DEF Slots
  <2> QED
    BY <1>1, <2>1, SeqDef
<1>3. IsFiniteSet(A) /\ Cardinality(A) = CountIn(s, c)
  BY <1>2, CountType DEF CountIn
<1>4. DOMAIN s = 1 .. bs[p].len /\ \A k \in 1 .. bs[p].len : s[k] = bs[p].child[k - 1]
  BY DEF Slots
<1>5. f \in [A -> B] /\ (\A x, y \in A : f[x] = f[y] => x = y) /\ \A z \in B : \E x \in A : f[x] = z
  <2>1. ASSUME NEW x \in A PROVE f[x] \in B
    <3>1. x \in 1 .. bs[p].len /\ bs[p].child[x - 1] = c /\ f[x] = <<p, x - 1>>
      BY <1>4
    <3>2. x - 1 \in 0 .. CAP_HEAP /\ x - 1 < bs[p].len
      BY <1>1, <3>1
    <3> QED
      BY <3>1, <3>2 DEF SlotsOf
  <2>2. ASSUME NEW z \in B PROVE \E x \in A : f[x] = z
    <3>1. PICK j \in 0 .. CAP_HEAP : z = <<p, j>> /\ j < bs[p].len /\ bs[p].child[j] = c
      BY DEF SlotsOf
    <3>2. j + 1 \in 1 .. bs[p].len /\ (j + 1) - 1 = j
      BY <1>1, <3>1
    <3>3. j + 1 \in A
      BY <1>4, <3>1, <3>2
    <3> QED
      BY <3>1, <3>2, <3>3
  <2>3. \A x, y \in A : f[x] = f[y] => x = y
    BY <1>4
  <2> QED
    BY <2>1, <2>2, <2>3
<1>6. IsFiniteSet(B) /\ Cardinality(B) = Cardinality(A)
  <2> HIDE DEF f, A, B
  <2> QED
    BY <1>3, <1>5, SameSize
<1> QED
  BY <1>2, <1>3, <1>6

-----------------------------------------------------------------------------
(* Freeing.                                                                *)

\* ds is bs with some counts lower.
Lowered(bs, ds) ==
  /\ ds \in Seq(Record) /\ Len(ds) = Len(bs)
  /\ \A b \in 1 .. Len(bs) :
       /\ ds[b].array = bs[b].array /\ ds[b].len = bs[b].len
       /\ ds[b].alive = bs[b].alive /\ ds[b].child = bs[b].child
       /\ ds[b].parents <= bs[b].parents

\* No count is below the number of roots, of slots of blocks with parents, and of
\* the times that the block is still to be freed.
Covered(bs, roots, work) ==
  \A c \in 1 .. Len(bs) :
    Cardinality(SlotsTo(bs, c)) + CountIn(roots, c) + CountIn(work, c) <= bs[c].parents

\* The states of the iteration in Free.
Freeing(bs, roots) ==
  {m \in [blocks : Seq(Record), work : Seq(1 .. Len(bs) \cup {Nil})] :
     Lowered(bs, m.blocks) /\ Covered(m.blocks, roots, m.work)}

LEMMA LoweredTable == ASSUME NEW bs, NEW ds, Table(bs), Lowered(bs, ds) PROVE Table(ds)
<1>1. \A b \in 1 .. Len(bs) : ds[b] \in Record /\ ds[b].parents \in Nat
  <2> SUFFICES ASSUME NEW b \in 1 .. Len(bs) PROVE ds[b] \in Record /\ ds[b].parents \in Nat
    OBVIOUS
  <2>1. ds[b] \in Record
    BY ElementOfSeq DEF Lowered
  <2> QED
    BY <2>1 DEF Record
<1>2. \A b \in 1 .. Len(bs) : bs[b].parents \in Nat
  BY BlockTypes
<1> QED
  BY <1>1, <1>2 DEF Table, Lowered

\* One call of free_block moves the references of a block that it frees to the work
\* that is left, and takes one from the count of the block.
LEMMA FreeStep ==
  ASSUME NEW bs, Table(bs), NEW roots \in Seq(Nat), NEW m \in Freeing(bs, roots), m.work # <<>>
  PROVE  /\ free_block(m) \in Freeing(bs, roots)
         /\ Head(m.work) # Nil =>
              free_block(m).blocks[Head(m.work)].parents < m.blocks[Head(m.work)].parents
<1> DEFINE X == 1 .. Len(bs) \cup {Nil}
<1>1. PICK ds \in Seq(Record), work \in Seq(X) :
        m = [blocks |-> ds, work |-> work] /\ Lowered(bs, ds) /\ Covered(ds, roots, work)
  BY DEF Freeing
<1>2. PICK b \in X, rest \in Seq(X) :
        work = <<b>> \o rest /\ Head(work) = b /\ Tail(work) = rest /\ <<b>> \in Seq(X)
  <2>1. work # <<>>
    BY <1>1
  <2>2. Head(work) \in X /\ Tail(work) \in Seq(X) /\ work = <<Head(work)>> \o Tail(work)
    BY <2>1, HeadTailProperties
  <2>3. <<Head(work)>> \in Seq(X)
    BY <2>2
  <2> QED
    BY <2>2, <2>3
<1>3. m.work = work /\ m.blocks = ds /\ Head(m.work) = b /\ Tail(m.work) = rest
  BY <1>1, <1>2
<1>4. \A es, w : es \in Seq(Record) /\ w \in Seq(X) /\ Lowered(bs, es) /\ Covered(es, roots, w)
                 => [blocks |-> es, work |-> w] \in Freeing(bs, roots)
  BY DEF Freeing
<1>5. ASSUME NEW c PROVE /\ CountIn(work, c) = (IF b = c THEN 1 ELSE 0) + CountIn(rest, c)
                         /\ CountIn(rest, c) \in Nat /\ CountIn(roots, c) \in Nat
                         /\ Cardinality(SlotsTo(ds, c)) \in Nat
  <2>1. CountIn(<<b>> \o rest, c) = CountIn(<<b>>, c) + CountIn(rest, c)
    <3>1. <<b>> \in Seq(X)
      BY <1>2
    <3> HIDE DEF X
    <3> QED
      BY <3>1, CountConcat
  <2> QED
    BY <1>1, <1>2, <2>1, CountOne, CountType, LoweredTable, SlotsFinite
<1>6. Len(bs) \in Nat /\ Len(ds) = Len(bs) /\ Table(ds)
  BY <1>1, LoweredTable, LenProperties DEF Table, Lowered
<1>7. \A c \in 1 .. Len(bs) : ds[c] \in Record /\ ds[c].parents \in Nat
  BY <1>6, BlockTypes
<1>8. CASE b = Nil
  <2>1. ASSUME NEW c \in 1 .. Len(bs) PROVE CountIn(rest, c) = CountIn(work, c)
    <3>1. b # c
      BY <1>6, <1>8, NilAssumption
    <3>2. /\ CountIn(work, c) = (IF b = c THEN 1 ELSE 0) + CountIn(rest, c)
          /\ CountIn(rest, c) \in Nat
      BY <1>5
    <3> QED
      BY <3>1, <3>2
  <2>2. Covered(ds, roots, rest)
    BY <1>1, <1>6, <2>1 DEF Covered
  <2>3. free_block(m) = [blocks |-> ds, work |-> rest]
    BY <1>1, <1>3, <1>8 DEF free_block
  <2> QED
    BY <1>1, <1>3, <1>4, <1>8, <2>2, <2>3
<1>9. CASE b # Nil
  <2>1. b \in 1 .. Len(bs)
    BY <1>9
  <2>2. ds[b].parents > 0 /\ ds[b].alive
    BY <1>1, <1>5, <1>6, <1>7, <2>1 DEF Covered, Table
  <2>3. PICK es : es = [ds EXCEPT ![b].parents = @ - 1]
    OBVIOUS
  <2>4. /\ es \in Seq(Record) /\ Len(es) = Len(bs)
        /\ \A c \in 1 .. Len(bs) :
             /\ es[c].array = ds[c].array /\ es[c].len = ds[c].len /\ es[c].alive = ds[c].alive
             /\ es[c].child = ds[c].child
             /\ es[c].parents = IF c = b THEN ds[c].parents - 1 ELSE ds[c].parents
    <3>1. ds[b].parents - 1 \in Nat
      BY <1>7, <2>1, <2>2
    <3>2. PICK r : r = [ds[b] EXCEPT !.parents = ds[b].parents - 1]
      OBVIOUS
    <3>3. /\ r \in Record /\ r.parents = ds[b].parents - 1
          /\ r.array = ds[b].array /\ r.len = ds[b].len /\ r.alive = ds[b].alive
          /\ r.child = ds[b].child
      BY <1>7, <2>1, <3>1, <3>2 DEF Record
    <3>4. es = [ds EXCEPT ![b] = r]
      BY <2>3, <3>2
    <3>5. /\ es \in Seq(Record) /\ Len(es) = Len(bs)
          /\ \A c \in 1 .. Len(bs) : es[c] = IF c = b THEN r ELSE ds[c]
      BY <1>6, <2>1, <3>3, <3>4, ExceptSeq
    <3> QED
      BY <3>3, <3>5
  <2>5. Lowered(bs, es)
    <3>1. \A c \in 1 .. Len(bs) : es[c].parents \in Nat /\ bs[c].parents \in Nat
      <4> SUFFICES ASSUME NEW c \in 1 .. Len(bs) PROVE es[c].parents \in Nat /\ bs[c].parents \in Nat
        OBVIOUS
      <4>1. es[c] \in Record
        BY <2>4, ElementOfSeq
      <4> QED
        BY <4>1, BlockTypes DEF Record
    <3>2. \A c \in 1 .. Len(bs) : es[c].parents <= ds[c].parents
      BY <1>7, <2>4
    <3> QED
      BY <1>1, <1>7, <2>4, <3>1, <3>2 DEF Lowered
  <2>6. SUFFICES ASSUME NEW w, free_block(m) = [blocks |-> es, work |-> w],
                        w \in Seq(X), Covered(es, roots, w)
                 PROVE  /\ free_block(m) \in Freeing(bs, roots)
                        /\ free_block(m).blocks[b].parents < ds[b].parents
    <3>1. CASE ds[b].parents > 1
      <4>1. free_block(m) = [blocks |-> es, work |-> rest]
        <5>1. ds[b].parents # 0 /\ ds[b].parents # 1
          BY <1>7, <2>1, <3>1
        <5> QED
          BY <1>3, <1>9, <2>2, <2>3, <5>1, Zenon DEF free_block
      <4>2. ASSUME NEW c PROVE SlotsTo(es, c) = SlotsTo(ds, c)
        <5>1. \A p \in 1 .. Len(bs) : es[p].parents > 0 <=> ds[p].parents > 0
          BY <1>7, <2>4, <3>1
        <5> QED
          BY <1>6, <2>4, <5>1 DEF SlotsTo
      <4>3. Covered(es, roots, rest)
        <5> SUFFICES ASSUME NEW c \in 1 .. Len(bs)
                     PROVE  Cardinality(SlotsTo(es, c)) + CountIn(roots, c) + CountIn(rest, c) <= es[c].parents
          BY <2>4 DEF Covered
        <5>1. Cardinality(SlotsTo(ds, c)) + CountIn(roots, c) + CountIn(work, c) <= ds[c].parents
          BY <1>1, <1>6 DEF Covered
        <5>2. es[c].parents = IF c = b THEN ds[c].parents - 1 ELSE ds[c].parents
          BY <2>4
        <5> QED
          BY <1>5, <1>7, <4>2, <5>1, <5>2
      <4> QED
        BY <1>2, <1>3, <4>1, <4>3
    <3>2. CASE ds[b].parents = 1
      <4>1. PICK s : s = Slots(ds[b])
        OBVIOUS
      <4>2. free_block(m) = [blocks |-> es, work |-> s \o rest]
        <5>1. ds[b].parents # 0
          BY <3>2
        <5> QED
          BY <1>3, <1>9, <2>2, <2>3, <3>2, <4>1, <5>1, Zenon DEF free_block
      <4>3. s \in Seq(X) /\ s \o rest \in Seq(X)
        BY <1>2, <1>6, <2>1, <4>1, SlotsInOrder, ConcatProperties
      <4>4. Covered(es, roots, s \o rest)
        <5> SUFFICES ASSUME NEW c \in 1 .. Len(bs)
                     PROVE  Cardinality(SlotsTo(es, c)) + CountIn(roots, c) + CountIn(s \o rest, c) <= es[c].parents
          BY <2>4 DEF Covered
        <5>1. Cardinality(SlotsTo(ds, c)) + CountIn(roots, c) + CountIn(work, c) <= ds[c].parents
          BY <1>1, <1>6 DEF Covered
        <5>2. es[c].parents = IF c = b THEN ds[c].parents - 1 ELSE ds[c].parents
          BY <2>4
        <5>3. CountIn(s \o rest, c) = CountIn(s, c) + CountIn(rest, c)
          BY <1>2, <4>3, CountConcat
        <5>4. SlotsTo(es, c) = SlotsTo(ds, c) \ SlotsOf(ds, b, c)
          <6>1. \A p \in 1 .. Len(bs) : es[p].parents > 0 <=> ds[p].parents > 0 /\ p # b
            <7> SUFFICES ASSUME NEW p \in 1 .. Len(bs)
                         PROVE  es[p].parents > 0 <=> ds[p].parents > 0 /\ p # b
              OBVIOUS
            <7> QED
              BY <1>7, <2>4, <3>2
          <6> QED
            BY <1>6, <2>4, <6>1 DEF SlotsTo, SlotsOf
        <5>5. SlotsTo(ds, c) \cap SlotsOf(ds, b, c) = SlotsOf(ds, b, c)
          BY <1>6, <2>1, <2>2 DEF SlotsTo, SlotsOf
        <5>6. Cardinality(SlotsTo(es, c)) = Cardinality(SlotsTo(ds, c)) - CountIn(s, c)
          <6>1. /\ IsFiniteSet(SlotsTo(ds, c))
                /\ Cardinality(SlotsOf(ds, b, c)) = CountIn(s, c)
            BY <1>6, <2>1, <4>1, SlotsFinite, SlotsInOrder
          <6>2. Cardinality(SlotsTo(ds, c) \ SlotsOf(ds, b, c))
                = Cardinality(SlotsTo(ds, c)) - Cardinality(SlotsTo(ds, c) \cap SlotsOf(ds, b, c))
            BY <6>1, FS_Difference
          <6> QED
            BY <5>4, <5>5, <6>1, <6>2
        <5>7. CountIn(s, c) \in Nat
          BY <4>3, CountType
        <5> QED
          BY SMTT(60), <1>5, <1>7, <5>1, <5>2, <5>3, <5>6, <5>7
      <4> QED
        BY <1>3, <4>2, <4>3, <4>4
    <3> QED
      BY <1>7, <2>1, <2>2, <3>1, <3>2
  <2>7. free_block(m).blocks[b].parents = ds[b].parents - 1
    <3>1. free_block(m).blocks = es
      BY <2>6
    <3> QED
      BY <2>1, <2>4, <3>1
  <2> QED
    BY <1>4, <1>7, <2>1, <2>4, <2>5, <2>6, <2>7
<1> QED
  BY <1>3, <1>8, <1>9

LEMMA LoweredSelf == ASSUME NEW bs, Table(bs) PROVE Lowered(bs, bs)
BY BlockTypes DEF Lowered, Table

LEMMA FreeStepLowers ==
  ASSUME NEW bs, Table(bs), NEW roots \in Seq(Nat), NEW m \in Freeing(bs, roots), m.work # <<>>
  PROVE  Lowered(m.blocks, free_block(m).blocks)
<1>1. /\ m \in [blocks : Seq(Record), work : Seq(1 .. Len(bs) \cup {Nil})]
      /\ Lowered(bs, m.blocks) /\ Covered(m.blocks, roots, m.work)
  BY DEF Freeing
<1>2. Table(m.blocks) /\ Len(m.blocks) = Len(bs) /\ Lowered(m.blocks, m.blocks)
  BY <1>1, LoweredTable, LoweredSelf DEF Lowered
<1>3. m \in Freeing(m.blocks, roots)
  BY <1>1, <1>2 DEF Freeing
<1> QED
  BY <1>2, <1>3, FreeStep DEF Freeing

\* The recursive function in the definition of Free.
IsFree(m, bs, b) ==
  m = [k \in 0 .. CAP_HEAP + 1 |->
         IF k = 0 THEN [blocks |-> bs, work |-> <<b>>]
         ELSE IF m[k - 1].work = <<>> THEN m[k - 1]
         ELSE free_block(m[k - 1])]

LEMMA FreeExists ==
  ASSUME NEW bs, Table(bs), NEW roots \in Seq(Nat), NEW b \in 1 .. Len(bs), Covered(bs, roots, <<b>>)
  PROVE  \E m : IsFree(m, bs, b) /\ \A k \in 0 .. CAP_HEAP + 1 : m[k] \in Freeing(bs, roots)
<1> DEFINE X == Freeing(bs, roots)
           first == [blocks |-> bs, work |-> <<b>>]
           step == [m \in X |-> IF m.work = <<>> THEN m ELSE free_block(m)]
<1>1. first \in X
  BY LoweredSelf DEF Freeing, Table
<1>2. step \in [X -> X]
  BY FreeStep
<1>3. CAP_HEAP + 1 \in Nat
  BY CapAssumption
<1>4. PICK f \in [0 .. CAP_HEAP + 1 -> X] :
        f[0] = first /\ \A k \in 1 .. CAP_HEAP + 1 : f[k] = step[f[k - 1]]
  <2> DEFINE N == CAP_HEAP + 1
  <2> HIDE DEF X, first, step, N
  <2>1. N \in Nat
    BY <1>3 DEF N
  <2>2. \E f \in [0 .. N -> X] : Iterates(f, step, first, N)
    BY <1>1, <1>2, <2>1, IterationExists
  <2> QED
    BY <2>2 DEF N, Iterates
<1>5. \A k \in 0 .. CAP_HEAP + 1 :
        f[k] = IF k = 0 THEN first
               ELSE IF f[k - 1].work = <<>> THEN f[k - 1] ELSE free_block(f[k - 1])
  <2> SUFFICES ASSUME NEW k \in 1 .. CAP_HEAP + 1
               PROVE  f[k] = IF f[k - 1].work = <<>> THEN f[k - 1] ELSE free_block(f[k - 1])
    BY <1>4
  <2>1. f[k - 1] \in X
    BY <1>3
  <2> QED
    BY <1>4, <2>1
<1>6. IsFree(f, bs, b)
  BY <1>5 DEF IsFree
<1> QED
  BY <1>6

LEMMA FreeIs ==
  ASSUME NEW bs, NEW b, \E m : IsFree(m, bs, b)
  PROVE  \E m : IsFree(m, bs, b) /\ Free(bs, b) = m[CAP_HEAP + 1].blocks
<1> DEFINE m == CHOOSE m : IsFree(m, bs, b)
<1>1. IsFree(m, bs, b)
  OBVIOUS
<1>2. Free(bs, b) = m[CAP_HEAP + 1].blocks
  BY DEF Free, IsFree
<1> QED
  BY <1>1, <1>2

\* Freeing a block takes one from its count, and whatever else it frees no count
\* falls below the number of references.
LEMMA FreeCovers ==
  ASSUME NEW bs, Table(bs), NEW roots \in Seq(Nat), NEW b \in 1 .. Len(bs), Covered(bs, roots, <<b>>)
  PROVE  /\ Lowered(bs, Free(bs, b))
         /\ Covered(Free(bs, b), roots, <<>>)
         /\ Free(bs, b)[b].parents < bs[b].parents
<1> DEFINE X == Freeing(bs, roots)
<1>1. PICK m : IsFree(m, bs, b) /\ Free(bs, b) = m[CAP_HEAP + 1].blocks
  BY FreeExists, FreeIs
<1>2. CAP_HEAP \in Nat /\ CAP_HEAP > 0
  BY CapAssumption
<1>3. m[0] = [blocks |-> bs, work |-> <<b>>]
  BY <1>1, <1>2 DEF IsFree
<1>4. \A k \in 0 .. CAP_HEAP :
        m[k + 1] = IF m[k].work = <<>> THEN m[k] ELSE free_block(m[k])
  <2> SUFFICES ASSUME NEW k \in 0 .. CAP_HEAP
               PROVE  m[k + 1] = IF m[k].work = <<>> THEN m[k] ELSE free_block(m[k])
    OBVIOUS
  <2>1. k + 1 \in 0 .. CAP_HEAP + 1 /\ k + 1 # 0 /\ (k + 1) - 1 = k
    BY <1>2
  <2> QED
    BY <1>1, <2>1 DEF IsFree
<1> DEFINE S == {k \in Nat : m[k] \in X /\ (k > 0 => m[k].blocks[b].parents < bs[b].parents)}
<1>5. 0 \in S
  <2>1. [blocks |-> bs, work |-> <<b>>] \in X
    BY LoweredSelf DEF Freeing, Table
  <2> QED
    BY <1>3, <2>1
<1>6. ASSUME NEW k \in 0 .. (CAP_HEAP + 1) - 1, k \in S PROVE k + 1 \in S
  <2>1. k \in Nat /\ k \in 0 .. CAP_HEAP /\ m[k] \in X
    BY <1>2, <1>6
  <2>2. CASE m[k].work = <<>>
    <3>1. m[k + 1] = m[k]
      BY <1>4, <2>1, <2>2
    <3>2. k # 0
      <4>1. m[0].work = <<b>>
        BY <1>3
      <4>2. <<b>> # <<>>
        OBVIOUS
      <4> QED
        BY <2>2, <4>1, <4>2
    <3> QED
      BY <1>6, <2>1, <3>1, <3>2
  <2>3. CASE m[k].work # <<>>
    <3>1. m[k + 1] = free_block(m[k]) /\ m[k + 1] \in X
      BY <1>4, <2>1, <2>3, FreeStep
    <3>2. CASE k = 0
      <4>1. m[k].blocks = bs /\ Head(m[k].work) = b /\ b # Nil
        BY <1>3, <3>2, NilAssumption
      <4>2. m[k + 1].blocks[b].parents < bs[b].parents
        BY <2>1, <2>3, <3>1, <4>1, FreeStep
      <4> QED
        BY <2>1, <3>1, <4>2
    <3>3. CASE k > 0
      <4>1. m[k].blocks[b].parents < bs[b].parents
        BY <1>6, <3>3
      <4>2. Lowered(m[k].blocks, m[k + 1].blocks) /\ Lowered(bs, m[k].blocks) /\ Lowered(bs, m[k + 1].blocks)
        BY <2>1, <2>3, <3>1, FreeStepLowers DEF Freeing
      <4>3. m[k + 1].blocks[b].parents <= m[k].blocks[b].parents
        BY <4>2 DEF Lowered
      <4>4. /\ bs[b].parents \in Nat /\ m[k].blocks[b].parents \in Nat
            /\ m[k + 1].blocks[b].parents \in Nat
        <5>1. Table(m[k].blocks) /\ Table(m[k + 1].blocks)
          BY <4>2, LoweredTable
        <5>2. b \in 1 .. Len(m[k].blocks) /\ b \in 1 .. Len(m[k + 1].blocks)
          BY <4>2 DEF Lowered
        <5> QED
          BY <5>1, <5>2, BlockTypes
      <4> QED
        BY <2>1, <3>1, <4>1, <4>3, <4>4
    <3> QED
      BY <2>1, <3>2, <3>3
  <2> QED
    BY <2>2, <2>3
<1>7. CAP_HEAP + 1 \in S
  <2> DEFINE N == CAP_HEAP + 1
  <2>1. N \in Nat
    BY <1>2
  <2>2. \A k \in 0 .. N - 1 : k \in S => k + 1 \in S
    BY <1>6
  <2> HIDE DEF N, S
  <2>3. \A k \in 0 .. N : k \in S
    BY <1>5, <2>1, <2>2, SetInduction
  <2> QED
    BY <2>1, <2>3 DEF N
<1>8. m[CAP_HEAP + 1] \in X /\ m[CAP_HEAP + 1].blocks[b].parents < bs[b].parents
  BY <1>2, <1>7 DEF S
<1>9. PICK ds \in Seq(Record), work \in Seq(1 .. Len(bs) \cup {Nil}) :
        Free(bs, b) = ds /\ Lowered(bs, ds) /\ Covered(ds, roots, work)
  BY <1>1, <1>8 DEF Freeing
<1>10. Covered(ds, roots, <<>>)
  <2> SUFFICES ASSUME NEW c \in 1 .. Len(bs)
               PROVE  Cardinality(SlotsTo(ds, c)) + CountIn(roots, c) + CountIn(<<>>, c) <= ds[c].parents
    BY <1>9 DEF Covered, Lowered
  <2>1. Cardinality(SlotsTo(ds, c)) + CountIn(roots, c) + CountIn(work, c) <= ds[c].parents
    BY <1>9 DEF Covered, Lowered
  <2>2. Table(ds) /\ c \in 1 .. Len(ds)
    BY <1>9, LoweredTable DEF Lowered
  <2>3. /\ Cardinality(SlotsTo(ds, c)) \in Nat /\ CountIn(roots, c) \in Nat
        /\ CountIn(work, c) \in Nat /\ ds[c].parents \in Nat
    BY <2>2, SlotsFinite, CountType, BlockTypes
  <2>4. CountIn(<<>>, c) = 0
    BY CountEmpty
  <2> QED
    BY <2>1, <2>3, <2>4
<1> QED
  BY <1>1, <1>8, <1>9, <1>10

-----------------------------------------------------------------------------
(* What a set of blocks reaches.                                           *)

Closed(bs, S) == \A b \in S : Children(bs[b]) \subseteq S

Grown(bs, S) == S \cup UNION {Children(bs[b]) : b \in S}

\* The recursive function in the definition of ReachIn.
IsReach(r, bs, S) ==
  r = [k \in 0 .. CAP_BLOCKS |-> IF k = 0 THEN S ELSE Grown(bs, r[k - 1])]

LEMMA ChildrenAre ==
  ASSUME NEW bs, Table(bs), NEW b \in 1 .. Len(bs)
  PROVE  /\ Children(bs[b]) \subseteq 1 .. Len(bs)
         /\ \A c \in 1 .. Len(bs) :
              c \in Children(bs[b]) <=> \E i \in 0 .. bs[b].len - 1 : bs[b].child[i] = c
<1>1. Len(bs) \in Nat /\ \A c \in 1 .. Len(bs) : c # Nil
  BY NilAssumption, LenProperties DEF Table
<1>2. /\ DOMAIN bs[b].child = 0 .. bs[b].len - 1
      /\ \A i \in 0 .. bs[b].len - 1 : bs[b].child[i] \in 1 .. Len(bs) \cup {Nil}
  BY BlockTypes
<1> QED
  BY <1>1, <1>2 DEF Children

LEMMA ReachExists ==
  ASSUME NEW bs, Table(bs), NEW S \in SUBSET (1 .. Len(bs))
  PROVE  \E r \in [0 .. CAP_BLOCKS -> SUBSET (1 .. Len(bs))] : IsReach(r, bs, S)
<1> DEFINE X == SUBSET (1 .. Len(bs))
           step == [U \in X |-> Grown(bs, U)]
<1>1. step \in [X -> X]
  BY ChildrenAre DEF Grown
<1>2. PICK f \in [0 .. CAP_BLOCKS -> X] : Iterates(f, step, S, CAP_BLOCKS)
  <2>1. CAP_BLOCKS \in Nat
    BY CapAssumption
  <2>2. S \in X
    OBVIOUS
  <2> HIDE DEF step, X
  <2> QED
    BY <1>1, <2>1, <2>2, IterationExists
<1>3. \A k \in 0 .. CAP_BLOCKS : f[k] = IF k = 0 THEN S ELSE Grown(bs, f[k - 1])
  <2> SUFFICES ASSUME NEW k \in 1 .. CAP_BLOCKS PROVE f[k] = Grown(bs, f[k - 1])
    BY <1>2 DEF Iterates
  <2>1. k - 1 \in 0 .. CAP_BLOCKS
    BY CapAssumption
  <2>2. f[k - 1] \in X /\ f[k] = step[f[k - 1]]
    <3> HIDE DEF X, step
    <3> QED
      BY <1>2, <2>1 DEF Iterates
  <2> QED
    BY <2>2
<1>4. IsReach(f, bs, S)
  BY <1>3 DEF IsReach
<1> QED
  BY <1>4

LEMMA ReachIs ==
  ASSUME NEW bs, NEW S, \E r : IsReach(r, bs, S)
  PROVE  \E r : IsReach(r, bs, S) /\ ReachIn(bs, S) = r[CAP_BLOCKS]
<1> DEFINE r == CHOOSE r : IsReach(r, bs, S)
<1>1. IsReach(r, bs, S)
  OBVIOUS
<1>2. ReachIn(bs, S) = r[CAP_BLOCKS]
  BY DEF ReachIn, IsReach, Grown
<1> QED
  BY <1>1, <1>2

\* What is reached is the least closed set that holds the start: each round of
\* marking but the last finds a block more, and there are no more than CAP_BLOCKS.
LEMMA ReachIsLeast ==
  ASSUME NEW bs, Table(bs), NEW S \in SUBSET (1 .. Len(bs))
  PROVE  /\ ReachIn(bs, S) \subseteq 1 .. Len(bs)
         /\ S \subseteq ReachIn(bs, S)
         /\ Closed(bs, ReachIn(bs, S))
         /\ \A U : S \subseteq U /\ Closed(bs, U) => ReachIn(bs, S) \subseteq U
<1>1. PICK r : IsReach(r, bs, S) /\ ReachIn(bs, S) = r[CAP_BLOCKS]
  BY ReachExists, ReachIs
<1>2. CAP_BLOCKS \in Nat /\ Len(bs) \in Nat /\ Len(bs) <= CAP_BLOCKS
  BY CapAssumption, LenProperties DEF Table
<1>3. r[0] = S
  BY <1>1, <1>2 DEF IsReach
<1>4. \A k \in 0 .. CAP_BLOCKS - 1 : r[k + 1] = Grown(bs, r[k])
  <2> SUFFICES ASSUME NEW k \in 0 .. CAP_BLOCKS - 1 PROVE r[k + 1] = Grown(bs, r[k])
    OBVIOUS
  <2>1. k + 1 \in 0 .. CAP_BLOCKS /\ k + 1 # 0 /\ (k + 1) - 1 = k
    BY <1>2
  <2> QED
    BY <1>1, <2>1 DEF IsReach
<1>5. \A T \in SUBSET (1 .. Len(bs)) : IsFiniteSet(T) /\ Cardinality(T) \in Nat /\ Cardinality(T) <= Len(bs)
  <2>1. IsFiniteSet(1 .. Len(bs)) /\ Cardinality(1 .. Len(bs)) = Len(bs)
    <3>1. /\ IsFiniteSet(1 .. Len(bs))
          /\ Cardinality(1 .. Len(bs)) = IF 1 > Len(bs) THEN 0 ELSE Len(bs) - 1 + 1
      <4>1. 1 \in Int /\ Len(bs) \in Int
        BY <1>2
      <4> QED
        BY <4>1, FS_Interval, Zenon
    <3> QED
      BY <1>2, <3>1
  <2> SUFFICES ASSUME NEW T \in SUBSET (1 .. Len(bs))
               PROVE  IsFiniteSet(T) /\ Cardinality(T) \in Nat /\ Cardinality(T) <= Len(bs)
    OBVIOUS
  <2>2. IsFiniteSet(T) /\ Cardinality(T) <= Cardinality(1 .. Len(bs))
    BY <2>1, FS_Subset
  <2> QED
    BY <2>1, <2>2, FS_CardinalityType
<1> DEFINE D == {k \in Nat : /\ r[k] \subseteq 1 .. Len(bs) /\ S \subseteq r[k]
                             /\ Closed(bs, r[k]) \/ Cardinality(r[k]) > k}
<1>6. 0 \in D
  <2>1. CASE S = {}
    BY <1>3, <2>1 DEF Closed
  <2>2. CASE S # {}
    <3>1. IsFiniteSet(S) /\ Cardinality(S) \in Nat
      BY <1>5
    <3>2. Cardinality(S) # 0
      BY <2>2, <3>1, FS_EmptySet
    <3>3. Cardinality(r[0]) > 0
      BY <1>3, <3>1, <3>2
    <3> QED
      BY <1>3, <3>3
  <2> QED
    BY <2>1, <2>2
<1>7. ASSUME NEW k \in 0 .. CAP_BLOCKS - 1, k \in D PROVE k + 1 \in D
  <2>1. k + 1 \in Nat /\ k \in Nat /\ r[k] \in SUBSET (1 .. Len(bs)) /\ S \subseteq r[k]
    <3>1. k + 1 \in Nat
      BY <1>2
    <3> QED
      BY <1>7, <3>1
  <2>2. /\ r[k + 1] = Grown(bs, r[k]) /\ r[k] \subseteq r[k + 1]
        /\ r[k + 1] \in SUBSET (1 .. Len(bs))
    BY <1>4, <2>1, ChildrenAre DEF Grown
  <2>3. CASE Closed(bs, r[k])
    <3>1. r[k + 1] = r[k]
      BY <2>2, <2>3 DEF Closed, Grown
    <3> QED
      BY <2>1, <2>3, <3>1
  <2>4. CASE ~Closed(bs, r[k])
    <3>1. PICK x : x \in r[k + 1] /\ x \notin r[k]
      BY <2>2, <2>4 DEF Closed, Grown
    <3>2. Cardinality(r[k]) > k
      BY <1>7, <2>4
    <3>3. Cardinality(r[k]) # Cardinality(r[k + 1]) /\ Cardinality(r[k]) <= Cardinality(r[k + 1])
      <4>1. IsFiniteSet(r[k + 1]) /\ r[k] \in SUBSET r[k + 1]
        BY <1>5, <2>2
      <4> QED
        BY <3>1, <4>1, FS_Subset
    <3>4. Cardinality(r[k + 1]) > k + 1
      BY <1>5, <2>1, <2>2, <3>2, <3>3
    <3> QED
      BY <2>1, <2>2, <3>4
  <2> QED
    BY <2>3, <2>4
<1>8. CAP_BLOCKS \in D
  <2>1. \A k \in 0 .. CAP_BLOCKS - 1 : k \in D => k + 1 \in D
    BY <1>7
  <2> HIDE DEF D
  <2>2. \A k \in 0 .. CAP_BLOCKS : k \in D
    BY <1>2, <1>6, <2>1, SetInduction
  <2> QED
    BY <1>2, <2>2
<1>9. ASSUME NEW U, S \subseteq U, Closed(bs, U) PROVE r[CAP_BLOCKS] \subseteq U
  <2> DEFINE E == {k \in Nat : r[k] \subseteq U}
  <2>1. 0 \in E
    BY <1>3, <1>9
  <2>2. ASSUME NEW k \in 0 .. CAP_BLOCKS - 1, k \in E PROVE k + 1 \in E
    <3>1. k + 1 \in Nat /\ r[k + 1] = Grown(bs, r[k]) /\ r[k] \subseteq U
      BY <1>2, <1>4, <2>2
    <3>2. Grown(bs, r[k]) \subseteq U
      BY <1>9, <3>1 DEF Closed, Grown
    <3> QED
      BY <3>1, <3>2
  <2>3. \A k \in 0 .. CAP_BLOCKS - 1 : k \in E => k + 1 \in E
    BY <2>2
  <2> HIDE DEF E
  <2>4. \A k \in 0 .. CAP_BLOCKS : k \in E
    BY <1>2, <2>1, <2>3, SetInduction
  <2> QED
    BY <1>2, <2>4 DEF E
<1>10. /\ r[CAP_BLOCKS] \subseteq 1 .. Len(bs) /\ S \subseteq r[CAP_BLOCKS]
       /\ Closed(bs, r[CAP_BLOCKS])
  <2>1. /\ r[CAP_BLOCKS] \in SUBSET (1 .. Len(bs)) /\ S \subseteq r[CAP_BLOCKS]
        /\ Closed(bs, r[CAP_BLOCKS]) \/ Cardinality(r[CAP_BLOCKS]) > CAP_BLOCKS
    BY <1>8
  <2>2. Cardinality(r[CAP_BLOCKS]) \in Nat /\ Cardinality(r[CAP_BLOCKS]) <= Len(bs)
    BY <1>5, <2>1
  <2> QED
    BY <1>2, <2>1, <2>2
<1> QED
  BY <1>1, <1>9, <1>10

-----------------------------------------------------------------------------
(* The inductive invariant.                                                *)

\* Arrays lie in the heap that is used, side by side, and no block is its own child.
Layout(bs, h) ==
  \A p \in 1 .. Len(bs) :
    /\ bs[p].array + bs[p].len <= h
    /\ \A i \in 0 .. bs[p].len - 1 : bs[p].child[i] # p
    /\ \A q \in 1 .. Len(bs) :
         p # q => bs[p].array + bs[p].len <= bs[q].array \/ bs[q].array + bs[q].len <= bs[p].array

Owned(owner, h, c) == {w \in 0 .. h - 1 : owner[w] = c}

\* Every word of the heap owns at most one reference: that to the child in it, or
\* one that was left behind in an array that is not used any more.  What the words
\* and the roots own bounds the counts.
Owners(bs, h, roots, owner) ==
  /\ owner \in [0 .. h - 1 -> Nat \cup {Nil}]
  /\ \A p \in 1 .. Len(bs) : \A i \in 0 .. bs[p].len - 1 :
       owner[bs[p].array + i] = bs[p].child[i]
  /\ \A c \in 1 .. Len(bs) :
       bs[c].parents <= Cardinality(Owned(owner, h, c)) + CountIn(roots, c)

Good(bs, h, roots) ==
  /\ Table(bs) /\ h \in Nat /\ h < CAP_HEAP
  /\ roots \in Seq(1 .. Len(bs))
  /\ \A c \in 1 .. Len(bs) : CountIn(roots, c) <= 1
  /\ Covered(bs, roots, <<>>)
  /\ Layout(bs, h)
  /\ \E owner : Owners(bs, h, roots, owner)

\* Between calls.
Sound == Good(BLOCKS, LEN_HEAP, ROOTS)

Marked == {b \in Handles : BLOCKS[b].alive}

\* While roots are marked: the flags aside, the blocks are bs.  Only what the roots
\* reach is marked or waits for it, and a root, or a child of a marked block, does
\* one or the other.
Marking(bs) ==
  /\ Good(bs, LEN_HEAP, ROOTS)
  /\ BLOCKS \in Seq(Record) /\ Len(BLOCKS) = Len(bs)
  /\ \A b \in 1 .. Len(bs) :
       /\ BLOCKS[b].array = bs[b].array /\ BLOCKS[b].len = bs[b].len
       /\ BLOCKS[b].child = bs[b].child /\ BLOCKS[b].parents = bs[b].parents
  /\ calls \in Seq(1 .. Len(bs) \cup {Nil})
  /\ Marked \cup Range(calls) \subseteq ReachIn(bs, Range(ROOTS)) \cup {Nil}
  /\ Range(ROOTS) \subseteq Marked \cup Range(calls)
  /\ \A b \in Marked : Children(bs[b]) \subseteq Marked \cup Range(calls)

IInv ==
  /\ pc = "client" => Sound
  /\ pc = "mark" => \E bs : Marking(bs)

LEMMA OwnedFinite ==
  ASSUME NEW owner, NEW h \in Nat, NEW c
  PROVE  IsFiniteSet(Owned(owner, h, c)) /\ Cardinality(Owned(owner, h, c)) \in Nat
<1>1. IsFiniteSet(0 .. h - 1) /\ Owned(owner, h, c) \in SUBSET (0 .. h - 1)
  BY FS_Interval DEF Owned
<1> QED
  BY <1>1, FS_Subset, FS_CardinalityType

\* What the roots reach has parents.
LEMMA ReachableHasParents ==
  ASSUME NEW bs, Table(bs), NEW roots \in Seq(1 .. Len(bs)), Covered(bs, roots, <<>>)
  PROVE  /\ Range(roots) \in SUBSET (1 .. Len(bs))
         /\ ReachIn(bs, Range(roots)) \subseteq {b \in 1 .. Len(bs) : bs[b].parents > 0}
<1> DEFINE U == {b \in 1 .. Len(bs) : bs[b].parents > 0}
<1>1. \A c : CountIn(<<>>, c) = 0
  BY CountEmpty
<1>2. ASSUME NEW c \in 1 .. Len(bs)
      PROVE  /\ Cardinality(SlotsTo(bs, c)) \in Nat /\ IsFiniteSet(SlotsTo(bs, c))
             /\ CountIn(roots, c) \in Nat /\ bs[c].parents \in Nat
             /\ Cardinality(SlotsTo(bs, c)) + CountIn(roots, c) <= bs[c].parents
  <2>1. Cardinality(SlotsTo(bs, c)) + CountIn(roots, c) + CountIn(<<>>, c) <= bs[c].parents
    BY DEF Covered
  <2>2. /\ Cardinality(SlotsTo(bs, c)) \in Nat /\ IsFiniteSet(SlotsTo(bs, c))
        /\ CountIn(roots, c) \in Nat /\ bs[c].parents \in Nat
    BY SlotsFinite, CountType, BlockTypes
  <2> QED
    BY <1>1, <2>1, <2>2
<1>3. Range(roots) \in SUBSET (1 .. Len(bs)) /\ DOMAIN roots = 1 .. Len(roots)
  BY LenProperties DEF Range
<1>4. Range(roots) \subseteq U
  <2> SUFFICES ASSUME NEW c \in Range(roots) PROVE bs[c].parents > 0
    BY <1>3
  <2>1. c \in 1 .. Len(bs) /\ CountIn(roots, c) # 0
    <3>1. \E k \in 1 .. Len(roots) : roots[k] = c
      BY <1>3 DEF Range
    <3> QED
      BY <1>3, <3>1, CountNone
  <2> QED
    BY <1>2, <2>1
<1>5. Closed(bs, U)
  <2> SUFFICES ASSUME NEW b \in U, NEW c \in Children(bs[b]) PROVE c \in U
    BY DEF Closed
  <2>1. PICK i \in 0 .. bs[b].len - 1 : c \in 1 .. Len(bs) /\ bs[b].child[i] = c
    <3>1. b \in 1 .. Len(bs)
      OBVIOUS
    <3>2. Children(bs[b]) \subseteq 1 .. Len(bs)
      BY <3>1, ChildrenAre
    <3>3. c \in 1 .. Len(bs)
      BY <3>2
    <3>4. \E i \in 0 .. bs[b].len - 1 : bs[b].child[i] = c
      BY <3>1, <3>3, ChildrenAre
    <3> QED
      BY <3>3, <3>4
  <2>2. bs[b].len \in Nat /\ bs[b].len < CAP_HEAP /\ CAP_HEAP \in Nat
    BY BlockTypes
  <2>3. <<b, i>> \in SlotsTo(bs, c)
    BY <2>1, <2>2 DEF SlotsTo
  <2>4. Cardinality(SlotsTo(bs, c)) # 0
    BY <1>2, <2>1, <2>3, FS_EmptySet
  <2> QED
    BY <1>2, <2>1, <2>4
<1> QED
  BY <1>3, <1>4, <1>5, ReachIsLeast

LEMMA LoweredLayout ==
  ASSUME NEW bs, NEW ds, NEW h, Lowered(bs, ds), Layout(bs, h)
  PROVE  Layout(ds, h)
BY DEF Lowered, Layout

\* Freeing a block that one root less refers to.
LEMMA PopGood ==
  ASSUME NEW bs, NEW h, NEW rs, Good(bs, h, rs), rs # <<>>
  PROVE  LET roots == SubSeq(rs, 1, Len(rs) - 1)
             ds == Free(bs, rs[Len(rs)])
         IN  /\ Good(ds, h, roots) /\ Lowered(bs, ds)
             /\ Len(roots) = Len(rs) - 1
<1>1. PICK n \in Nat \ {0} : n = Len(rs)
  BY EmptySeq DEF Good
<1>2. PICK roots, b, ds : /\ roots = SubSeq(rs, 1, Len(rs) - 1) /\ b = rs[Len(rs)]
                          /\ ds = Free(bs, b)
  OBVIOUS
<1>3. Table(bs) /\ rs \in Seq(1 .. Len(bs)) /\ Len(bs) \in Nat
  BY LenProperties DEF Good, Table
<1>4. b \in 1 .. Len(bs)
  BY <1>1, <1>2, <1>3, ElementOfSeq
<1>5. roots \in Seq(1 .. Len(bs)) /\ rs = roots \o <<b>> /\ Len(roots) = n - 1
  <2>1. \A k \in 1 .. n - 1 : rs[k] \in 1 .. Len(bs)
    BY <1>1, <1>3, ElementOfSeq
  <2>2. roots \in Seq(1 .. Len(bs)) /\ Len(roots) = n - 1
    BY <1>1, <1>2, <2>1, SubSeqProperties
  <2>3. SubSeq(rs, 1, n) = roots \o <<b>> /\ SubSeq(rs, 1, n) = rs
    BY <1>1, <1>2, <1>3, SubSeqRecursiveSecond, SubSeqFull
  <2> QED
    BY <2>2, <2>3
<1>6. \A c : CountIn(<<>>, c) = 0
  BY CountEmpty
<1>7. ASSUME NEW c
      PROVE  /\ CountIn(rs, c) = CountIn(roots, c) + CountIn(<<b>>, c)
             /\ CountIn(<<b>>, c) = (IF b = c THEN 1 ELSE 0)
             /\ CountIn(roots, c) \in Nat
  <2>1. <<b>> \in Seq(1 .. Len(bs))
    BY <1>4
  <2>2. CountIn(roots \o <<b>>, c) = CountIn(roots, c) + CountIn(<<b>>, c)
    BY <1>5, <2>1, CountConcat
  <2> QED
    BY <1>5, <2>2, CountOne, CountType
<1>8. Covered(bs, roots, <<b>>)
  <2> SUFFICES ASSUME NEW c \in 1 .. Len(bs)
               PROVE  Cardinality(SlotsTo(bs, c)) + CountIn(roots, c) + CountIn(<<b>>, c) <= bs[c].parents
    BY DEF Covered
  <2>1. Cardinality(SlotsTo(bs, c)) + CountIn(rs, c) + CountIn(<<>>, c) <= bs[c].parents
    BY DEF Good, Covered
  <2>2. Cardinality(SlotsTo(bs, c)) \in Nat
    BY <1>3, SlotsFinite
  <2> QED
    BY <1>6, <1>7, <2>1, <2>2
<1>9. /\ Lowered(bs, ds) /\ Covered(ds, roots, <<>>)
      /\ ds[b].parents < bs[b].parents
  <2>1. roots \in Seq(Nat)
    BY <1>3, <1>5, SeqMonotonic
  <2> QED
    BY <1>2, <1>3, <1>4, <1>8, <2>1, FreeCovers
<1>10. Table(ds) /\ Len(ds) = Len(bs) /\ Layout(ds, h)
  BY <1>3, <1>9, LoweredTable, LoweredLayout DEF Lowered, Good
<1>11. \A c \in 1 .. Len(bs) : CountIn(roots, c) <= 1
  <2> SUFFICES ASSUME NEW c \in 1 .. Len(bs) PROVE CountIn(roots, c) <= 1
    OBVIOUS
  <2>1. CountIn(rs, c) <= 1
    BY DEF Good
  <2> QED
    BY <1>7, <2>1
<1>12. PICK owner : Owners(bs, h, rs, owner)
  BY DEF Good
<1>13. Owners(ds, h, roots, owner)
  <2>1. ASSUME NEW c \in 1 .. Len(bs)
        PROVE  ds[c].parents <= Cardinality(Owned(owner, h, c)) + CountIn(roots, c)
    <3>1. ds[c].parents \in Nat /\ bs[c].parents \in Nat /\ ds[c].parents <= bs[c].parents
      BY <1>3, <1>9, <1>10, BlockTypes DEF Lowered
    <3>2. bs[c].parents <= Cardinality(Owned(owner, h, c)) + CountIn(rs, c)
      BY <1>12 DEF Owners
    <3>3. Cardinality(Owned(owner, h, c)) \in Nat
      BY OwnedFinite DEF Good
    <3> QED
      BY <1>7, <1>9, <3>1, <3>2, <3>3
  <2> QED
    BY <1>9, <1>10, <1>12, <2>1 DEF Owners, Lowered
<1>14. Good(ds, h, roots)
  <2>1. h \in Nat /\ h < CAP_HEAP
    BY DEF Good
  <2> QED
    BY <1>5, <1>9, <1>10, <1>11, <1>13, <2>1 DEF Good
<1> QED
  BY <1>1, <1>2, <1>5, <1>9, <1>14

\* The mark and sweep after a root is popped.
\* es is bs when what is not marked has lost its parents.
IsSwept(bs, marked, es) ==
  /\ es \in Seq(Record) /\ Len(es) = Len(bs)
  /\ \A b \in 1 .. Len(bs) :
       /\ es[b].array = bs[b].array /\ es[b].len = bs[b].len /\ es[b].child = bs[b].child
       /\ b \in marked => es[b].alive
       /\ es[b].parents = IF b \in marked THEN bs[b].parents ELSE 0

LEMMA SweepGood ==
  ASSUME NEW bs, NEW h, NEW roots, Good(bs, h, roots),
         NEW marked, marked = ReachIn(bs, Range(roots)), NEW es, IsSwept(bs, marked, es)
  PROVE  Good(es, h, roots) /\ marked \subseteq ReachIn(es, Range(roots))
<1>2. /\ Table(bs) /\ h \in Nat /\ h < CAP_HEAP /\ roots \in Seq(1 .. Len(bs))
      /\ Covered(bs, roots, <<>>) /\ Layout(bs, h)
  BY DEF Good
<1>3. /\ Range(roots) \in SUBSET (1 .. Len(bs))
      /\ marked \subseteq {b \in 1 .. Len(bs) : bs[b].parents > 0}
      /\ Range(roots) \subseteq marked /\ Closed(bs, marked)
  BY <1>2, ReachableHasParents, ReachIsLeast
<1>5. ASSUME NEW b \in 1 .. Len(bs)
      PROVE  /\ es[b].array = bs[b].array /\ es[b].len = bs[b].len /\ es[b].child = bs[b].child
             /\ b \in marked => es[b].alive
             /\ es[b].parents = IF b \in marked THEN bs[b].parents ELSE 0
  BY DEF IsSwept
<1>6. es \in Seq(Record) /\ Len(es) = Len(bs)
  BY DEF IsSwept
<1>7. Table(es) /\ Layout(es, h)
  <2>1. ASSUME NEW b \in 1 .. Len(bs), es[b].parents > 0 PROVE es[b].alive
    <3>1. b \in marked
      BY <1>5, <2>1
    <3> QED
      BY <1>5, <3>1
  <2>2. Layout(es, h)
    BY <1>2, <1>5, <1>6 DEF Layout
  <2> QED
    BY <1>2, <1>5, <1>6, <2>1, <2>2 DEF Table
<1>8. Covered(es, roots, <<>>)
  <2> SUFFICES ASSUME NEW c \in 1 .. Len(bs)
               PROVE  Cardinality(SlotsTo(es, c)) + CountIn(roots, c) + CountIn(<<>>, c) <= es[c].parents
    BY <1>6 DEF Covered
  <2>1. Cardinality(SlotsTo(bs, c)) + CountIn(roots, c) + CountIn(<<>>, c) <= bs[c].parents
    BY <1>2 DEF Covered
  <2>2. /\ CountIn(<<>>, c) = 0 /\ CountIn(roots, c) \in Nat /\ bs[c].parents \in Nat
        /\ Cardinality(SlotsTo(bs, c)) \in Nat /\ IsFiniteSet(SlotsTo(bs, c))
        /\ Cardinality(SlotsTo(es, c)) \in Nat /\ IsFiniteSet(SlotsTo(es, c))
    BY <1>2, <1>7, CountEmpty, CountType, BlockTypes, SlotsFinite
  <2>3. \A e \in SlotsTo(es, c) : e \in SlotsTo(bs, c) /\ e[1] \in marked
    BY <1>5, <1>6 DEF SlotsTo
  <2>4. CASE c \in marked
    <3>1. SlotsTo(es, c) \in SUBSET SlotsTo(bs, c)
      BY <2>3
    <3>2. Cardinality(SlotsTo(es, c)) <= Cardinality(SlotsTo(bs, c))
      BY <2>2, <3>1, FS_Subset
    <3>3. es[c].parents = bs[c].parents
      BY <1>5, <2>4
    <3> QED
      BY <2>1, <2>2, <3>2, <3>3
  <2>5. CASE c \notin marked
    <3>1. SlotsTo(es, c) = {}
      <4> SUFFICES ASSUME NEW e \in SlotsTo(es, c) PROVE FALSE
        OBVIOUS
      <4>1. PICK p \in marked, i \in 0 .. CAP_HEAP :
              p \in 1 .. Len(bs) /\ i < bs[p].len /\ bs[p].child[i] = c
        BY <2>3 DEF SlotsTo
      <4>2. bs[p].len \in Nat /\ i \in 0 .. bs[p].len - 1
        BY <1>2, <4>1, BlockTypes
      <4>3. c \in Children(bs[p])
        BY <1>2, <4>1, <4>2, ChildrenAre
      <4> QED
        BY <1>3, <2>5, <4>3 DEF Closed
    <3>2. CountIn(roots, c) = 0
      <4>1. DOMAIN roots = 1 .. Len(roots) /\ \A k \in DOMAIN roots : roots[k] # c
        BY <1>2, <1>3, <2>5, LenProperties DEF Range
      <4> QED
        BY <1>2, <4>1, CountNone
    <3>3. es[c].parents = 0
      BY <1>5, <2>5
    <3> QED
      BY <2>2, <3>1, <3>2, <3>3, FS_EmptySet
  <2> QED
    BY <2>4, <2>5
<1>9. PICK owner : Owners(bs, h, roots, owner)
  BY DEF Good
<1>10. Owners(es, h, roots, owner)
  <2>1. ASSUME NEW c \in 1 .. Len(bs)
        PROVE  es[c].parents <= Cardinality(Owned(owner, h, c)) + CountIn(roots, c)
    <3>1. bs[c].parents <= Cardinality(Owned(owner, h, c)) + CountIn(roots, c)
      BY <1>9 DEF Owners
    <3>2. bs[c].parents \in Nat /\ es[c].parents = IF c \in marked THEN bs[c].parents ELSE 0
      BY <1>2, <1>5, BlockTypes
    <3>3. Cardinality(Owned(owner, h, c)) \in Nat /\ CountIn(roots, c) \in Nat
      BY <1>2, OwnedFinite, CountType
    <3> QED
      BY <3>1, <3>2, <3>3
  <2> QED
    BY <1>5, <1>6, <1>9, <2>1 DEF Owners
<1>11. Good(es, h, roots)
  <2>1. \A c \in 1 .. Len(bs) : CountIn(roots, c) <= 1
    BY DEF Good
  <2> QED
    BY <1>2, <1>6, <1>7, <1>8, <1>10, <2>1 DEF Good
<1>12. marked \subseteq ReachIn(es, Range(roots))
  <2> DEFINE U == ReachIn(es, Range(roots))
  <2>1. U \subseteq 1 .. Len(bs) /\ Range(roots) \subseteq U /\ Closed(es, U)
    BY <1>3, <1>6, <1>7, ReachIsLeast
  <2>2. \A b \in 1 .. Len(bs) : Children(es[b]) = Children(bs[b])
    BY <1>5 DEF Children
  <2>3. Closed(bs, U)
    BY <2>1, <2>2 DEF Closed
  <2> QED
    BY <1>2, <1>3, <2>1, <2>3, ReachIsLeast
<1> QED
  BY <1>11, <1>12

\* n when an x is exchanged: old was counted if it was x, and new is.
Exchanged(n, old, new, x) == n - (IF old = x THEN 1 ELSE 0) + (IF new = x THEN 1 ELSE 0)

Replaced(owner, w, x) == [owner EXCEPT ![w] = x]

\* The number of words that own a reference to c, when word w gets x.
OwnedMove(owner, h, w, x, c, changed) ==
  Cardinality(Owned(changed, h, c)) = Exchanged(Cardinality(Owned(owner, h, c)), owner[w], x, c)

LEMMA OwnedChanged ==
  ASSUME NEW h \in Nat, NEW owner \in [0 .. h - 1 -> Nat \cup {Nil}], NEW w \in 0 .. h - 1, NEW x, NEW c,
         NEW changed, changed = Replaced(owner, w, x)
  PROVE  OwnedMove(owner, h, w, x, c, changed)
<1>1. PICK rest : rest = Owned(owner, h, c) \ {w}
  OBVIOUS
<1>2. IsFiniteSet(Owned(owner, h, c)) /\ Cardinality(Owned(owner, h, c)) \in Nat
  BY OwnedFinite
<1>3. /\ IsFiniteSet(rest)
      /\ Cardinality(rest) = Cardinality(Owned(owner, h, c)) - (IF owner[w] = c THEN 1 ELSE 0)
  <2>1. w \in Owned(owner, h, c) <=> owner[w] = c
    BY DEF Owned
  <2>2. /\ IsFiniteSet(rest)
        /\ Cardinality(rest) = IF w \in Owned(owner, h, c) THEN Cardinality(Owned(owner, h, c)) - 1
                               ELSE Cardinality(Owned(owner, h, c))
    BY <1>1, <1>2, FS_RemoveElement
  <2> QED
    BY <1>2, <2>1, <2>2
<1>4. \A v \in 0 .. h - 1 : changed[v] = IF v = w THEN x ELSE owner[v]
  BY DEF Replaced
<1>5. CASE x = c
  <2>1. Owned(changed, h, c) = rest \cup {w} /\ w \notin rest
    BY <1>1, <1>4, <1>5 DEF Owned
  <2>2. Cardinality(rest \cup {w}) = Cardinality(rest) + 1
    BY <1>3, <2>1, FS_AddElement
  <2> QED
    BY <1>3, <1>5, <2>1, <2>2 DEF Exchanged, OwnedMove
<1>6. CASE x # c
  <2>1. Owned(changed, h, c) = rest
    BY <1>1, <1>4, <1>6 DEF Owned
  <2> QED
    BY <1>2, <1>3, <1>6, <2>1 DEF Exchanged, OwnedMove
<1> QED
  BY <1>5, <1>6

\* The words of a block's own array do not own references to it.
LEMMA OwnedBound ==
  ASSUME NEW bs, NEW h \in Nat, NEW roots, NEW owner, Table(bs), Layout(bs, h),
         Owners(bs, h, roots, owner), NEW c \in 1 .. Len(bs)
  PROVE  /\ Cardinality(Owned(owner, h, c)) <= h - bs[c].len
         /\ \A w \in 0 .. h - 1 :
              owner[w] # c /\ w \notin bs[c].array .. bs[c].array + bs[c].len - 1
                => Cardinality(Owned(owner, h, c)) < h - bs[c].len
<1>1. PICK a \in Nat, n \in Nat : a = bs[c].array /\ n = bs[c].len /\ a + n <= h
  BY BlockTypes DEF Layout
<1> DEFINE A == a .. a + n - 1
           B == (0 .. h - 1) \ A
<1>2. IsFiniteSet(0 .. h - 1) /\ Cardinality(0 .. h - 1) = h
  <2>1. 0 \in Int /\ h - 1 \in Int
    OBVIOUS
  <2>2. /\ IsFiniteSet(0 .. h - 1)
        /\ Cardinality(0 .. h - 1) = IF 0 > h - 1 THEN 0 ELSE (h - 1) - 0 + 1
    BY <2>1, FS_Interval, Zenon
  <2> QED
    BY <2>2
<1>3. Cardinality(A) = n
  <2>1. a \in Int /\ a + n - 1 \in Int
    OBVIOUS
  <2>2. Cardinality(A) = IF a > a + n - 1 THEN 0 ELSE (a + n - 1) - a + 1
    BY <2>1, FS_Interval, Zenon
  <2> QED
    BY <2>2
<1>4. (0 .. h - 1) \cap A = A
  BY <1>1
<1>5. IsFiniteSet(B) /\ Cardinality(B) = h - n
  <2> HIDE DEF A
  <2>1. /\ IsFiniteSet((0 .. h - 1) \ A)
        /\ Cardinality((0 .. h - 1) \ A) = Cardinality(0 .. h - 1) - Cardinality((0 .. h - 1) \cap A)
    BY <1>2, FS_Difference
  <2> QED
    BY <1>2, <1>3, <1>4, <2>1
<1>6. Owned(owner, h, c) \in SUBSET B
  <2> SUFFICES ASSUME NEW w \in A, w \in 0 .. h - 1, owner[w] = c PROVE FALSE
    BY DEF Owned
  <2>1. w - a \in 0 .. n - 1 /\ a + (w - a) = w
    BY <1>1
  <2>2. owner[w] = bs[c].child[w - a]
    BY <1>1, <2>1 DEF Owners
  <2> QED
    BY <1>1, <2>1, <2>2 DEF Layout
<1>7. Cardinality(Owned(owner, h, c)) <= h - n
  BY <1>5, <1>6, FS_Subset
<1>8. ASSUME NEW w \in 0 .. h - 1, owner[w] # c, w \notin A
      PROVE  Cardinality(Owned(owner, h, c)) < h - n
  <2>1. w \in B /\ w \notin Owned(owner, h, c)
    BY <1>8 DEF Owned
  <2>2. Cardinality(Owned(owner, h, c)) # Cardinality(B)
    BY <1>5, <1>6, <2>1, FS_Subset
  <2>3. Cardinality(Owned(owner, h, c)) \in Nat
    BY OwnedFinite
  <2> HIDE DEF B
  <2> QED
    BY <1>1, <1>5, <1>7, <2>2, <2>3
<1> QED
  BY <1>1, <1>7, <1>8

-----------------------------------------------------------------------------
(* The operations.                                                         *)

Put(bs, p, i, c) == [bs EXCEPT ![p].child[i] = c]

\* cut is bs with c in slot i of p.
IsPut(bs, p, i, c, cut) ==
  /\ Table(cut) /\ Len(cut) = Len(bs)
  /\ \A b \in 1 .. Len(bs) :
       /\ cut[b].array = bs[b].array /\ cut[b].len = bs[b].len /\ cut[b].parents = bs[b].parents
       /\ cut[b].alive = bs[b].alive /\ (b # p => cut[b].child = bs[b].child)
  /\ \A j \in 0 .. bs[p].len - 1 : cut[p].child[j] = IF j = i THEN c ELSE bs[p].child[j]

LEMMA SlotChanged ==
  ASSUME NEW bs, Table(bs), NEW p \in 1 .. Len(bs), NEW i \in 0 .. bs[p].len - 1,
         NEW c \in 1 .. Len(bs) \cup {Nil}, NEW cut, cut = Put(bs, p, i, c)
  PROVE  IsPut(bs, p, i, c, cut)
<1>1. PICK kids : kids = [bs[p].child EXCEPT ![i] = c]
  OBVIOUS
<1>2. PICK r : r = [bs[p] EXCEPT !.child = kids]
  OBVIOUS
<1>3. cut = [bs EXCEPT ![p] = r]
  BY <1>1, <1>2 DEF Put
<1>4. /\ bs[p] \in Record /\ bs[p].len \in Nat
      /\ bs[p].child \in [0 .. bs[p].len - 1 -> 1 .. Len(bs) \cup {Nil}]
  BY BlockTypes DEF Table
<1>5. /\ kids \in [0 .. bs[p].len - 1 -> 1 .. Len(bs) \cup {Nil}]
      /\ \A j \in 0 .. bs[p].len - 1 : kids[j] = IF j = i THEN c ELSE bs[p].child[j]
  BY <1>1, <1>4
<1>6. kids \in UNION {[0 .. l - 1 -> Nat \cup {Nil}] : l \in Nat}
  <2>1. Len(bs) \in Nat
    BY LenProperties DEF Table
  <2>2. kids \in [0 .. bs[p].len - 1 -> Nat \cup {Nil}]
    BY <1>5, <2>1
  <2> QED
    BY <1>4, <2>2
<1>7. /\ r \in Record /\ r.array = bs[p].array /\ r.len = bs[p].len /\ r.parents = bs[p].parents
      /\ r.alive = bs[p].alive /\ r.child = kids
  BY <1>2, <1>4, <1>6 DEF Record
<1>8. /\ cut \in Seq(Record) /\ Len(cut) = Len(bs)
      /\ \A b \in 1 .. Len(bs) : cut[b] = IF b = p THEN r ELSE bs[b]
  <2>1. bs \in Seq(Record) /\ r \in Record /\ p \in 1 .. Len(bs)
    BY <1>7 DEF Table
  <2> HIDE DEF Record
  <2> QED
    BY <1>3, <2>1, ExceptSeq
<1>9. \A b \in 1 .. Len(bs) :
        /\ cut[b].array = bs[b].array /\ cut[b].len = bs[b].len /\ cut[b].parents = bs[b].parents
        /\ cut[b].alive = bs[b].alive /\ (b # p => cut[b].child = bs[b].child)
        /\ cut[b].child \in [0 .. bs[b].len - 1 -> 1 .. Len(bs) \cup {Nil}]
  BY <1>5, <1>7, <1>8 DEF Table
<1>10. Table(cut)
  BY <1>8, <1>9 DEF Table
<1>11. \A j \in 0 .. bs[p].len - 1 : cut[p].child[j] = IF j = i THEN c ELSE bs[p].child[j]
  <2>1. cut[p].child = kids
    BY <1>7, <1>8
  <2> QED
    BY <1>5, <2>1
<1> QED
  BY <1>8, <1>9, <1>10, <1>11 DEF IsPut

\* The number of slots that hold x, when c is put in slot i of p.
SlotsMove(bs, p, i, c, cut, x) ==
  Cardinality(SlotsTo(cut, x))
  = IF bs[p].parents > 0 THEN Exchanged(Cardinality(SlotsTo(bs, x)), bs[p].child[i], c, x)
    ELSE Cardinality(SlotsTo(bs, x))

LEMMA SlotsChanged ==
  ASSUME NEW bs, Table(bs), NEW p \in 1 .. Len(bs), NEW i \in 0 .. bs[p].len - 1,
         NEW c \in 1 .. Len(bs) \cup {Nil}, NEW cut, cut = Put(bs, p, i, c), NEW x
  PROVE  SlotsMove(bs, p, i, c, cut, x)
<1>1. PICK rest : rest = SlotsTo(bs, x) \ {<<p, i>>}
  OBVIOUS
<1>2. IsFiniteSet(SlotsTo(bs, x)) /\ Cardinality(SlotsTo(bs, x)) \in Nat
  BY SlotsFinite
<1>3. bs[p].len \in Nat /\ bs[p].len < CAP_HEAP /\ CAP_HEAP \in Nat
  BY BlockTypes
<1>4. /\ Len(cut) = Len(bs)
      /\ \A b \in 1 .. Len(bs) :
           cut[b].len = bs[b].len /\ cut[b].parents = bs[b].parents /\ (b # p => cut[b].child = bs[b].child)
      /\ \A j \in 0 .. bs[p].len - 1 : cut[p].child[j] = IF j = i THEN c ELSE bs[p].child[j]
  BY SlotChanged DEF IsPut
<1>5. /\ IsFiniteSet(rest) /\ Cardinality(rest) \in Nat
      /\ Cardinality(rest) = Cardinality(SlotsTo(bs, x))
                             - (IF bs[p].parents > 0 /\ bs[p].child[i] = x THEN 1 ELSE 0)
  <2>1. <<p, i>> \in SlotsTo(bs, x) <=> bs[p].parents > 0 /\ bs[p].child[i] = x
    BY <1>3 DEF SlotsTo
  <2>2. /\ IsFiniteSet(rest)
        /\ Cardinality(rest) = IF <<p, i>> \in SlotsTo(bs, x) THEN Cardinality(SlotsTo(bs, x)) - 1
                               ELSE Cardinality(SlotsTo(bs, x))
    BY <1>1, <1>2, FS_RemoveElement
  <2> QED
    BY <1>2, <2>1, <2>2, FS_CardinalityType
<1>6. ASSUME NEW e \in (1 .. Len(bs)) \X (0 .. CAP_HEAP)
      PROVE  e \in SlotsTo(cut, x) <=>
               e \in rest \/ (e = <<p, i>> /\ bs[p].parents > 0 /\ c = x)
  <2>1. CASE e = <<p, i>>
    BY <1>1, <1>3, <1>4, <2>1 DEF SlotsTo
  <2>2. CASE e # <<p, i>>
    <3>1. PICK b \in 1 .. Len(bs), j \in 0 .. CAP_HEAP : e = <<b, j>>
      OBVIOUS
    <3>2. j < bs[b].len => cut[b].child[j] = bs[b].child[j]
      BY <1>3, <1>4, <2>2, <3>1
    <3> QED
      BY <1>1, <1>4, <2>2, <3>1, <3>2 DEF SlotsTo
  <2> QED
    BY <2>1, <2>2
<1>7. /\ SlotsTo(cut, x) \subseteq (1 .. Len(bs)) \X (0 .. CAP_HEAP)
      /\ rest \subseteq (1 .. Len(bs)) \X (0 .. CAP_HEAP)
      /\ <<p, i>> \in (1 .. Len(bs)) \X (0 .. CAP_HEAP)
  BY <1>1, <1>3, <1>4 DEF SlotsTo
<1>8. CASE bs[p].parents > 0 /\ c = x
  <2>1. SlotsTo(cut, x) = rest \cup {<<p, i>>} /\ <<p, i>> \notin rest
    BY <1>1, <1>6, <1>7, <1>8
  <2>2. Cardinality(rest \cup {<<p, i>>}) = Cardinality(rest) + 1
    BY <1>5, <2>1, FS_AddElement
  <2> QED
    BY <1>5, <1>8, <2>1, <2>2 DEF Exchanged, SlotsMove
<1>9. CASE ~(bs[p].parents > 0 /\ c = x)
  <2>1. SlotsTo(cut, x) = rest
    BY <1>6, <1>7, <1>9
  <2> QED
    BY <1>2, <1>5, <1>9, <2>1 DEF Exchanged, SlotsMove
<1> QED
  BY <1>8, <1>9

\* The slots of two blocks are different words.
LEMMA WordsApart ==
  ASSUME NEW bs, Table(bs), NEW h \in Nat, Layout(bs, h),
         NEW p \in 1 .. Len(bs), NEW i \in 0 .. bs[p].len - 1,
         NEW q \in 1 .. Len(bs), NEW j \in 0 .. bs[q].len - 1
  PROVE  /\ bs[p].array + i \in 0 .. h - 1
         /\ bs[p].array + i = bs[q].array + j => p = q /\ i = j
<1>1. bs[p].array \in Nat /\ bs[p].len \in Nat /\ bs[q].array \in Nat /\ bs[q].len \in Nat
  BY BlockTypes
<1>2. PICK a \in Nat, n \in Nat, b \in Nat, l \in Nat :
        a = bs[p].array /\ n = bs[p].len /\ b = bs[q].array /\ l = bs[q].len
  BY <1>1
<1>3. a + n <= h /\ (p # q => a + n <= b \/ b + l <= a)
  BY <1>2 DEF Layout
<1>4. i \in 0 .. n - 1 /\ j \in 0 .. l - 1
  BY <1>2
<1>5. p = q => a = b
  BY <1>2
<1>6. a + i \in 0 .. h - 1 /\ (a + i = b + j => p = q /\ i = j)
  BY <1>3, <1>4, <1>5
<1> QED
  BY <1>2, <1>6

\* Taking a child out of a slot.
LEMMA RemoveGood ==
  ASSUME NEW bs, NEW h, NEW roots, Good(bs, h, roots), NEW p \in 1 .. Len(bs), bs[p].parents > 0,
         NEW i \in 0 .. bs[p].len - 1, NEW cut, cut = Put(bs, p, i, Nil)
  PROVE  Good(Removed(bs, p, i), h, roots) /\ Lowered(cut, Removed(bs, p, i))
<1>1. /\ Table(bs) /\ h \in Nat /\ h < CAP_HEAP /\ roots \in Seq(1 .. Len(bs)) /\ Len(bs) \in Nat
      /\ Covered(bs, roots, <<>>) /\ Layout(bs, h) /\ \A c \in 1 .. Len(bs) : CountIn(roots, c) <= 1
  BY LenProperties DEF Good, Table
<1>2. /\ Table(cut) /\ Len(cut) = Len(bs)
      /\ \A b \in 1 .. Len(bs) :
           /\ cut[b].array = bs[b].array /\ cut[b].len = bs[b].len /\ cut[b].parents = bs[b].parents
           /\ cut[b].alive = bs[b].alive /\ (b # p => cut[b].child = bs[b].child)
      /\ \A j \in 0 .. bs[p].len - 1 : cut[p].child[j] = IF j = i THEN Nil ELSE bs[p].child[j]
  <2>1. Nil \in 1 .. Len(bs) \cup {Nil}
    OBVIOUS
  <2>2. IsPut(bs, p, i, Nil, cut)
    BY <1>1, <2>1, SlotChanged
  <2> QED
    BY <2>2 DEF IsPut
<1>3. bs[p].len \in Nat /\ bs[p].child[i] \in 1 .. Len(bs) \cup {Nil}
  BY <1>1, BlockTypes
<1>4. CASE bs[p].child[i] = Nil
  <2>1. Removed(bs, p, i) = bs
    BY <1>4 DEF Removed
  <2>2. cut[p].child = bs[p].child
    <3>2. \A j \in 0 .. bs[p].len - 1 : cut[p].child[j] = bs[p].child[j]
      BY <1>2, <1>4
    <3>1. /\ bs[p].child \in [0 .. bs[p].len - 1 -> 1 .. Len(bs) \cup {Nil}]
          /\ cut[p].child \in [0 .. bs[p].len - 1 -> 1 .. Len(bs) \cup {Nil}]
      BY <1>1, <1>2 DEF Table
    <3>3. PICK f, g : f = bs[p].child /\ g = cut[p].child
      OBVIOUS
    <3> DEFINE D == 0 .. bs[p].len - 1
               Y == 1 .. Len(bs) \cup {Nil}
    <3>4. f \in [D -> Y] /\ g \in [D -> Y] /\ \A j \in D : f[j] = g[j]
      BY <3>1, <3>2, <3>3
    <3> HIDE DEF D, Y
    <3>5. f = g
      BY <3>4
    <3> QED
      BY <3>3, <3>5
  <2>3. Lowered(cut, bs)
    <3>1. \A b \in 1 .. Len(bs) : bs[b].parents \in Nat
      BY <1>1, BlockTypes
    <3> QED
      BY <1>1, <1>2, <2>2, <3>1 DEF Lowered, Table
  <2> QED
    BY <2>1, <2>3
<1>5. CASE bs[p].child[i] # Nil
  <2>1. PICK c, ds :
          c \in 1 .. Len(bs) /\ c = bs[p].child[i] /\ ds = Free(cut, c) /\ Removed(bs, p, i) = ds
    <3>1. Removed(bs, p, i) = Free(cut, bs[p].child[i])
      BY <1>5 DEF Removed, Put
    <3> QED
      BY <1>3, <1>5, <3>1
  <2>2. ASSUME NEW x \in 1 .. Len(bs)
        PROVE  Cardinality(SlotsTo(cut, x)) + CountIn(roots, x) + CountIn(<<c>>, x) <= cut[x].parents
    <3>1. Cardinality(SlotsTo(cut, x)) = Cardinality(SlotsTo(bs, x)) - (IF c = x THEN 1 ELSE 0)
      <4>1. Cardinality(SlotsTo(cut, x))
            = Exchanged(Cardinality(SlotsTo(bs, x)), bs[p].child[i], Nil, x)
        <5>1. Nil \in 1 .. Len(bs) \cup {Nil}
          OBVIOUS
        <5>2. SlotsMove(bs, p, i, Nil, cut, x)
          BY <1>1, <5>1, SlotsChanged
        <5> QED
          BY <5>2 DEF SlotsMove
      <4>2. Nil # x /\ Cardinality(SlotsTo(bs, x)) \in Nat
        BY <1>1, SlotsFinite, NilAssumption
      <4> QED
        BY <2>1, <4>1, <4>2 DEF Exchanged
    <3>2. Cardinality(SlotsTo(bs, x)) + CountIn(roots, x) + CountIn(<<>>, x) <= bs[x].parents
      BY <1>1 DEF Covered
    <3>3. /\ CountIn(<<>>, x) = 0 /\ CountIn(<<c>>, x) = (IF c = x THEN 1 ELSE 0)
          /\ CountIn(roots, x) \in Nat /\ Cardinality(SlotsTo(bs, x)) \in Nat /\ bs[x].parents \in Nat
      BY <1>1, CountEmpty, CountOne, CountType, SlotsFinite, BlockTypes
    <3> QED
      BY <1>2, <3>1, <3>2, <3>3
  <2>3. /\ Lowered(cut, ds) /\ Covered(ds, roots, <<>>) /\ ds[c].parents < cut[c].parents
    <3>1. Covered(cut, roots, <<c>>)
      BY <1>2, <2>2 DEF Covered
    <3>2. roots \in Seq(Nat) /\ Table(cut) /\ c \in 1 .. Len(cut)
      BY <1>1, <1>2, <2>1, SeqMonotonic
    <3> QED
      BY <2>1, <3>1, <3>2, FreeCovers
  <2>4. Layout(cut, h)
    <3>1. \A b \in 1 .. Len(bs) : \A j \in 0 .. bs[b].len - 1 : cut[b].child[j] # b
      BY <1>1, <1>2, NilAssumption DEF Layout
    <3> QED
      BY <1>1, <1>2, <3>1 DEF Layout
  <2>5. Table(ds) /\ Len(ds) = Len(bs) /\ Layout(ds, h)
    BY <1>2, <2>3, <2>4, LoweredTable, LoweredLayout DEF Lowered
  <2>6. PICK owner : Owners(bs, h, roots, owner)
    BY DEF Good
  <2>7. PICK w, changed : w = bs[p].array + i /\ changed = Replaced(owner, w, Nil)
    OBVIOUS
  <2>8. w \in 0 .. h - 1 /\ owner[w] = c /\ owner \in [0 .. h - 1 -> Nat \cup {Nil}]
    BY <1>1, <2>1, <2>6, <2>7, WordsApart DEF Owners
  <2>9. Owners(ds, h, roots, changed)
    <3>1. changed \in [0 .. h - 1 -> Nat \cup {Nil}]
      BY <2>7, <2>8 DEF Replaced
    <3>2. ASSUME NEW q \in 1 .. Len(bs), NEW j \in 0 .. bs[q].len - 1
          PROVE  changed[bs[q].array + j] = ds[q].child[j]
      <4>1. /\ bs[q].array + j \in 0 .. h - 1
            /\ bs[q].array + j = w <=> q = p /\ j = i
        BY <1>1, <2>7, WordsApart
      <4>2. owner[bs[q].array + j] = bs[q].child[j]
        BY <2>6 DEF Owners
      <4>3. ds[q].child = cut[q].child
        BY <1>2, <2>3 DEF Lowered
      <4>4. cut[q].child[j] = IF q = p /\ j = i THEN Nil ELSE bs[q].child[j]
        BY <1>2
      <4> QED
        BY <2>7, <2>8, <4>1, <4>2, <4>3, <4>4 DEF Replaced
    <3>3. ASSUME NEW x \in 1 .. Len(bs)
          PROVE  ds[x].parents <= Cardinality(Owned(changed, h, x)) + CountIn(roots, x)
      <4>1. OwnedMove(owner, h, w, Nil, x, changed)
        BY <1>1, <2>7, <2>8, OwnedChanged
      <4>2. bs[x].parents <= Cardinality(Owned(owner, h, x)) + CountIn(roots, x)
        BY <2>6 DEF Owners
      <4>3. ds[x].parents <= cut[x].parents /\ cut[x].parents = bs[x].parents /\ Nil # x
        BY <1>1, <1>2, <2>3, NilAssumption DEF Lowered
      <4>4. /\ ds[x].parents \in Nat /\ bs[x].parents \in Nat /\ CountIn(roots, x) \in Nat
            /\ Cardinality(Owned(owner, h, x)) \in Nat
        BY <1>1, <2>5, BlockTypes, CountType, OwnedFinite
      <4> QED
        BY <1>2, <2>3, <2>8, <4>1, <4>2, <4>3, <4>4 DEF OwnedMove, Exchanged
    <3>4. \A q \in 1 .. Len(bs) : ds[q].array = bs[q].array /\ ds[q].len = bs[q].len
      BY <1>2, <2>3 DEF Lowered
    <3> QED
      BY <2>5, <3>1, <3>2, <3>3, <3>4 DEF Owners
  <2>10. Good(ds, h, roots)
    BY <1>1, <2>3, <2>5, <2>9 DEF Good
  <2> QED
    BY <2>1, <2>3, <2>10
<1> QED
  BY <1>4, <1>5

\* Lower counts do not change what is reached.
LEMMA LoweredReach ==
  ASSUME NEW bs, NEW ds, Table(bs), Lowered(bs, ds), NEW S \in SUBSET (1 .. Len(bs))
  PROVE  ReachIn(bs, S) \subseteq ReachIn(ds, S)
<1> DEFINE U == ReachIn(ds, S)
<1>1. Table(ds) /\ Len(ds) = Len(bs)
  BY LoweredTable DEF Lowered
<1>2. U \subseteq 1 .. Len(bs) /\ S \subseteq U /\ Closed(ds, U)
  BY <1>1, ReachIsLeast
<1>3. \A b \in 1 .. Len(bs) : Children(ds[b]) = Children(bs[b])
  BY DEF Lowered, Children
<1>4. Closed(bs, U)
  BY <1>2, <1>3 DEF Closed
<1> QED
  BY <1>2, <1>4, ReachIsLeast

\* es is bs with one more parent of c.
IsCounted(bs, c, es) ==
  /\ es \in Seq(Record) /\ Len(es) = Len(bs)
  /\ \A b \in 1 .. Len(bs) :
       /\ es[b].array = bs[b].array /\ es[b].len = bs[b].len /\ es[b].alive = bs[b].alive
       /\ es[b].child = bs[b].child
       /\ es[b].parents = IF b = c THEN bs[b].parents + 1 ELSE bs[b].parents

LEMMA CountedUp ==
  ASSUME NEW bs, Table(bs), NEW c \in 1 .. Len(bs), bs[c].parents + 1 < U8,
         NEW es, es = [bs EXCEPT ![c].parents = Up(@)]
  PROVE  IsCounted(bs, c, es)
<1>1. bs[c] \in Record /\ bs[c].parents \in Nat
  BY BlockTypes
<1>2. PICK up \in Nat : up = bs[c].parents + 1 /\ up = Up(bs[c].parents)
  BY SMTT(60), <1>1, CapAssumption DEF Up
<1>3. PICK r : r = [bs[c] EXCEPT !.parents = up]
  OBVIOUS
<1>4. /\ r \in Record /\ r.array = bs[c].array /\ r.len = bs[c].len /\ r.alive = bs[c].alive
      /\ r.child = bs[c].child /\ r.parents = up
  BY <1>1, <1>3 DEF Record
<1>5. es = [bs EXCEPT ![c] = r]
  BY <1>2, <1>3
<1>6. /\ es \in Seq(Record) /\ Len(es) = Len(bs)
      /\ \A b \in 1 .. Len(bs) : es[b] = IF b = c THEN r ELSE bs[b]
  <2>1. bs \in Seq(Record) /\ r \in Record
    BY <1>4 DEF Table
  <2> HIDE DEF Record
  <2> QED
    BY <1>5, <2>1, ExceptSeq
<1> QED
  BY <1>2, <1>4, <1>6 DEF IsCounted

PutCounted(bs, p, i, c) == [bs EXCEPT ![p].child[i] = c, ![c].parents = Up(@)]

\* Putting a child into an empty slot.  The word of the slot owns no reference yet,
\* so that the count of the child is less than the number of words.
LEMMA PutGood ==
  ASSUME NEW ds, NEW h, NEW roots, Good(ds, h, roots),
         NEW p \in 1 .. Len(ds), NEW i \in 0 .. ds[p].len - 1, ds[p].child[i] = Nil,
         NEW c \in 1 .. Len(ds), c # p, ds[c].alive,
         ds[c].parents > 0 \/ \A j \in 0 .. ds[c].len - 1 : ds[c].child[j] = Nil,
         NEW es, es = PutCounted(ds, p, i, c)
  PROVE  /\ Good(es, h, roots) /\ Len(es) = Len(ds)
         /\ \A b \in 1 .. Len(ds) : es[b].array = ds[b].array
<1>1. /\ Table(ds) /\ h \in Nat /\ h < CAP_HEAP /\ roots \in Seq(1 .. Len(ds)) /\ Len(ds) \in Nat
      /\ Covered(ds, roots, <<>>) /\ Layout(ds, h) /\ \A x \in 1 .. Len(ds) : CountIn(roots, x) <= 1
  BY LenProperties DEF Good, Table
<1>2. PICK cut : cut = Put(ds, p, i, c)
  OBVIOUS
<1>3. IsPut(ds, p, i, c, cut)
  BY <1>1, <1>2, SlotChanged
<1>4. /\ Table(cut) /\ Len(cut) = Len(ds)
      /\ \A b \in 1 .. Len(ds) :
           /\ cut[b].array = ds[b].array /\ cut[b].len = ds[b].len /\ cut[b].parents = ds[b].parents
           /\ cut[b].alive = ds[b].alive /\ (b # p => cut[b].child = ds[b].child)
      /\ \A j \in 0 .. ds[p].len - 1 : cut[p].child[j] = IF j = i THEN c ELSE ds[p].child[j]
  BY <1>3 DEF IsPut
<1>5. PICK owner : Owners(ds, h, roots, owner)
  BY DEF Good
<1>6. PICK w, changed : w = ds[p].array + i /\ changed = Replaced(owner, w, c)
  OBVIOUS
<1>7. w \in 0 .. h - 1 /\ owner[w] = Nil /\ owner \in [0 .. h - 1 -> Nat \cup {Nil}]
  BY <1>1, <1>5, <1>6, WordsApart DEF Owners
<1>8. cut[c].parents + 1 < U8
  <2>1. w \notin ds[c].array .. ds[c].array + ds[c].len - 1
    <3>1. PICK a \in Nat, n \in Nat, b \in Nat, l \in Nat :
            a = ds[p].array /\ n = ds[p].len /\ b = ds[c].array /\ l = ds[c].len
      BY <1>1, BlockTypes
    <3>2. i \in 0 .. n - 1 /\ (a + n <= b \/ b + l <= a)
      BY <1>1, <3>1 DEF Layout
    <3>3. w = a + i
      BY <1>6, <3>1
    <3>4. a + i \notin b .. b + l - 1
      BY <3>2
    <3> QED
      BY <3>1, <3>3, <3>4
  <2>2. owner[w] # c
    BY <1>1, <1>7, NilAssumption
  <2>3. Cardinality(Owned(owner, h, c)) < h - ds[c].len
    BY <1>1, <1>5, <1>7, <2>1, <2>2, OwnedBound
  <2>4. ds[c].parents <= Cardinality(Owned(owner, h, c)) + CountIn(roots, c)
    BY <1>5 DEF Owners
  <2>5. /\ ds[c].parents \in Nat /\ ds[c].len \in Nat /\ CountIn(roots, c) \in Nat
        /\ Cardinality(Owned(owner, h, c)) \in Nat
    BY <1>1, BlockTypes, CountType, OwnedFinite
  <2>6. cut[c].parents = ds[c].parents /\ CountIn(roots, c) <= 1 /\ ds[c].len > 0
    BY <1>1, <1>4 DEF Table
  <2> QED
    BY <1>1, <2>3, <2>4, <2>5, <2>6, CapAssumption
<1>9. IsCounted(cut, c, es)
  <2>1. es = [cut EXCEPT ![c].parents = Up(@)]
    BY <1>2 DEF Put, PutCounted
  <2>2. c \in 1 .. Len(cut)
    BY <1>4
  <2> QED
    BY <1>4, <1>8, <2>1, <2>2, CountedUp
<1>10. /\ es \in Seq(Record) /\ Len(es) = Len(ds)
       /\ \A b \in 1 .. Len(ds) :
            /\ es[b].array = ds[b].array /\ es[b].len = ds[b].len /\ es[b].alive = ds[b].alive
            /\ es[b].child = cut[b].child
            /\ es[b].parents = IF b = c THEN ds[b].parents + 1 ELSE ds[b].parents
  BY <1>4, <1>9 DEF IsCounted
<1>11. Table(es) /\ Layout(es, h)
  <2>1. Table(es)
    <3>1. \A b \in 1 .. Len(ds) : es[b].parents > 0 => es[b].alive
      BY <1>1, <1>10 DEF Table
    <3>2. \A b \in 1 .. Len(ds) : cut[b].child \in [0 .. ds[b].len - 1 -> 1 .. Len(ds) \cup {Nil}]
      BY <1>4 DEF Table
    <3> QED
      BY <1>1, <1>10, <3>1, <3>2 DEF Table
  <2>2. ASSUME NEW b \in 1 .. Len(ds), NEW j \in 0 .. ds[b].len - 1 PROVE es[b].child[j] # b
    <3>1. es[b].child = cut[b].child /\ ds[b].child[j] # b
      BY <1>1, <1>10 DEF Layout
    <3>2. CASE b = p
      <4>1. cut[b].child[j] = IF j = i THEN c ELSE ds[b].child[j]
        BY <1>4, <3>2
      <4> QED
        BY <3>1, <3>2, <4>1
    <3>3. CASE b # p
      <4>1. cut[b].child = ds[b].child
        BY <1>4, <3>3
      <4> QED
        BY <3>1, <4>1
    <3> QED
      BY <3>2, <3>3
  <2>3. Len(es) = Len(ds) /\ \A b \in 1 .. Len(ds) : es[b].array = ds[b].array /\ es[b].len = ds[b].len
    BY <1>10
  <2>4. Layout(es, h)
    BY <1>1, <2>2, <2>3 DEF Layout
  <2> QED
    BY <2>1, <2>4
<1>12. ASSUME NEW b \in 1 .. Len(ds)
       PROVE  /\ ds[b].parents \in Nat /\ es[b].parents \in Nat
              /\ b = c => es[b].parents = ds[b].parents + 1
              /\ b # c => es[b].parents = ds[b].parents
  <2>1. ds[b].parents \in Nat
    BY <1>1, BlockTypes
  <2>2. es[b].parents = IF b = c THEN ds[b].parents + 1 ELSE ds[b].parents
    BY <1>10
  <2> QED
    BY <2>1, <2>2
<1>13. ASSUME NEW x \in 1 .. Len(ds)
       PROVE  /\ x = c => Cardinality(SlotsTo(es, x)) <= Cardinality(SlotsTo(ds, x)) + 1
              /\ x # c => Cardinality(SlotsTo(es, x)) <= Cardinality(SlotsTo(ds, x))
  <2>1. SlotsTo(es, x) = SlotsTo(cut, x)
    <3>1. /\ Len(es) = Len(ds) /\ Len(cut) = Len(ds)
          /\ \A b \in 1 .. Len(ds) :
               /\ es[b].len = ds[b].len /\ cut[b].len = ds[b].len
               /\ es[b].child = cut[b].child /\ cut[b].parents = ds[b].parents
      BY <1>4, <1>10
    <3>2. ASSUME NEW b \in 1 .. Len(ds), NEW j \in 0 .. CAP_HEAP, j < ds[b].len, cut[b].child[j] = x
          PROVE  es[b].parents > 0 <=> ds[b].parents > 0
      <4>1. CASE b # c
        BY <1>12, <4>1
      <4>2. CASE b = c
        <5>1. ds[c].len \in Nat /\ j \in 0 .. ds[c].len - 1 /\ ds[c].child[j] = x
          <6>1. ds[b].len \in Nat /\ b # p /\ cut[b].child = ds[b].child
            BY <1>1, <1>4, <4>2, BlockTypes
          <6>2. j \in Nat
            BY CapAssumption
          <6> QED
            BY <3>2, <4>2, <6>1, <6>2
        <5>2. ds[c].parents > 0
          BY <1>1, <5>1, NilAssumption
        <5> QED
          BY <1>12, <4>2, <5>2
      <4> QED
        BY <4>1, <4>2
    <3>3. ASSUME NEW e \in (1 .. Len(ds)) \X (0 .. CAP_HEAP)
          PROVE  e \in SlotsTo(es, x) <=> e \in SlotsTo(cut, x)
      <4>1. PICK b \in 1 .. Len(ds), j \in 0 .. CAP_HEAP : e[1] = b /\ e[2] = j
        OBVIOUS
      <4>2. j < ds[b].len /\ cut[b].child[j] = x => (es[b].parents > 0 <=> ds[b].parents > 0)
        BY <3>2
      <4> QED
        BY <3>1, <4>1, <4>2 DEF SlotsTo
    <3>4. SlotsTo(es, x) \subseteq (1 .. Len(ds)) \X (0 .. CAP_HEAP)
          /\ SlotsTo(cut, x) \subseteq (1 .. Len(ds)) \X (0 .. CAP_HEAP)
      BY <3>1 DEF SlotsTo
    <3> QED
      BY <3>3, <3>4
  <2>2. SlotsMove(ds, p, i, c, cut, x)
    BY <1>1, <1>2, SlotsChanged
  <2>3. Nil # x /\ Cardinality(SlotsTo(ds, x)) \in Nat
    BY <1>1, SlotsFinite, NilAssumption
  <2> QED
    BY <2>1, <2>2, <2>3 DEF SlotsMove, Exchanged
<1>14. Covered(es, roots, <<>>)
  <2> SUFFICES ASSUME NEW x \in 1 .. Len(ds)
               PROVE  Cardinality(SlotsTo(es, x)) + CountIn(roots, x) + CountIn(<<>>, x) <= es[x].parents
    BY <1>10 DEF Covered
  <2>1. Cardinality(SlotsTo(ds, x)) + CountIn(roots, x) + CountIn(<<>>, x) <= ds[x].parents
    BY <1>1 DEF Covered
  <2>2. /\ CountIn(<<>>, x) = 0 /\ CountIn(roots, x) \in Nat /\ Cardinality(SlotsTo(ds, x)) \in Nat
        /\ Cardinality(SlotsTo(es, x)) \in Nat
    BY <1>1, <1>11, CountEmpty, CountType, SlotsFinite
  <2>3. ds[x].parents \in Nat /\ es[x].parents \in Nat
    BY <1>12
  <2>4. CASE x = c
    <3>1. /\ es[x].parents = ds[x].parents + 1
          /\ Cardinality(SlotsTo(es, x)) <= Cardinality(SlotsTo(ds, x)) + 1
      BY <1>12, <1>13, <2>4
    <3> QED
      BY <2>1, <2>2, <2>3, <3>1
  <2>5. CASE x # c
    <3>1. /\ es[x].parents = ds[x].parents
          /\ Cardinality(SlotsTo(es, x)) <= Cardinality(SlotsTo(ds, x))
      BY <1>12, <1>13, <2>5
    <3> QED
      BY <2>1, <2>2, <2>3, <3>1
  <2> QED
    BY <2>4, <2>5
<1>15. Owners(es, h, roots, changed)
  <2>1. changed \in [0 .. h - 1 -> Nat \cup {Nil}]
    BY <1>1, <1>6, <1>7 DEF Replaced
  <2>2. ASSUME NEW q \in 1 .. Len(ds), NEW j \in 0 .. ds[q].len - 1
        PROVE  changed[ds[q].array + j] = es[q].child[j]
    <3>1. /\ ds[q].array + j \in 0 .. h - 1
          /\ ds[q].array + j = w <=> q = p /\ j = i
      BY <1>1, <1>6, WordsApart
    <3>2. owner[ds[q].array + j] = ds[q].child[j]
      BY <1>5 DEF Owners
    <3>3. es[q].child[j] = IF q = p /\ j = i THEN c ELSE ds[q].child[j]
      <4>1. es[q].child = cut[q].child
        BY <1>10
      <4>2. CASE q = p
        BY <1>4, <4>1, <4>2
      <4>3. CASE q # p
        <5>1. cut[q].child = ds[q].child
          BY <1>4, <4>3
        <5> QED
          BY <4>1, <4>3, <5>1
      <4> QED
        BY <4>2, <4>3
    <3> QED
      BY <1>6, <1>7, <3>1, <3>2, <3>3 DEF Replaced
  <2>3. ASSUME NEW x \in 1 .. Len(ds)
        PROVE  es[x].parents <= Cardinality(Owned(changed, h, x)) + CountIn(roots, x)
    <3>1. OwnedMove(owner, h, w, c, x, changed)
      BY <1>1, <1>6, <1>7, OwnedChanged
    <3>2. ds[x].parents <= Cardinality(Owned(owner, h, x)) + CountIn(roots, x)
      BY <1>5 DEF Owners
    <3>3. Nil # x
      BY <1>1, NilAssumption
    <3>4. CountIn(roots, x) \in Nat /\ Cardinality(Owned(owner, h, x)) \in Nat
      BY <1>1, CountType, OwnedFinite
    <3>5. Cardinality(Owned(changed, h, x))
          = Cardinality(Owned(owner, h, x)) + (IF c = x THEN 1 ELSE 0)
      BY <1>7, <3>1, <3>3, <3>4 DEF OwnedMove, Exchanged
    <3>6. ds[x].parents \in Nat /\ es[x].parents \in Nat
      BY <1>12
    <3>7. CASE x = c
      <4>1. es[x].parents = ds[x].parents + 1
        BY <1>12, <3>7
      <4> QED
        BY <3>2, <3>4, <3>5, <3>6, <3>7, <4>1
    <3>8. CASE x # c
      <4>1. es[x].parents = ds[x].parents
        BY <1>12, <3>8
      <4> QED
        BY <3>2, <3>4, <3>5, <3>6, <3>8, <4>1
    <3> QED
      BY <3>7, <3>8
  <2>4. Len(es) = Len(ds) /\ \A b \in 1 .. Len(ds) : es[b].array = ds[b].array /\ es[b].len = ds[b].len
    BY <1>10
  <2> QED
    BY <2>1, <2>2, <2>3, <2>4 DEF Owners
<1>16. Good(es, h, roots)
  BY <1>1, <1>10, <1>11, <1>14, <1>15 DEF Good
<1> QED
  BY <1>10, <1>16

\* What alloc_block hands out, with the array behind the others and q parents.
New(h, len, q) ==
  [array |-> h, len |-> len, cap |-> len, parents |-> q, alive |-> TRUE,
   child |-> [i \in 0 .. len - 1 |-> Nil]]

Rooted(roots, c, q) == IF q = 1 THEN Append(roots, c) ELSE roots

\* A block in place c of the table, new or without parents.  No slot that counts
\* holds c, and the words of the new array own nothing.
LEMMA AllocGood ==
  ASSUME NEW bs, NEW h, NEW roots, Good(bs, h, roots),
         NEW len \in Nat \ {0}, h + len < CAP_HEAP, Len(bs) < CAP_BLOCKS,
         NEW c \in 1 .. Len(bs) + 1, c <= Len(bs) => bs[c].parents = 0, NEW q \in {0, 1},
         NEW es, es = With(bs, c, New(h, len, q)),
         NEW rs, rs = Rooted(roots, c, q)
  PROVE  /\ Good(es, h + len, rs)
         /\ c \in 1 .. Len(es) /\ es[c] = New(h, len, q) /\ Len(bs) <= Len(es)
         /\ \A x \in 1 .. Len(bs) : x # c => es[x] = bs[x]
<1>1. /\ Table(bs) /\ h \in Nat /\ roots \in Seq(1 .. Len(bs)) /\ Len(bs) \in Nat
      /\ Covered(bs, roots, <<>>) /\ Layout(bs, h) /\ \A x \in 1 .. Len(bs) : CountIn(roots, x) <= 1
      /\ bs \in Seq(Record) /\ DOMAIN bs = 1 .. Len(bs) /\ CAP_HEAP \in Nat /\ CAP_BLOCKS \in Nat
  BY LenProperties, CapAssumption DEF Good, Table
<1>2. PICK n \in Nat : (c <= Len(bs) => n = Len(bs)) /\ (~(c <= Len(bs)) => n = Len(bs) + 1)
  <2>1. Len(bs) \in Nat /\ Len(bs) + 1 \in Nat
    BY <1>1
  <2> QED
    BY <2>1
<1>3. PICK r : r = New(h, len, q)
  OBVIOUS
<1>4. /\ r \in Record /\ r.array = h /\ r.len = len /\ r.parents = q /\ r.alive
      /\ r.child \in [0 .. len - 1 -> {Nil}]
  <2>1. [i \in 0 .. len - 1 |-> Nil] \in UNION {[0 .. l - 1 -> Nat \cup {Nil}] : l \in Nat}
    <3>1. [i \in 0 .. len - 1 |-> Nil] \in [0 .. len - 1 -> Nat \cup {Nil}]
      OBVIOUS
    <3> QED
      BY <3>1
  <2>2. PICK kids : kids = [i \in 0 .. len - 1 |-> Nil]
    OBVIOUS
  <2>3. kids \in [0 .. len - 1 -> {Nil}]
    BY <2>2
  <2>4. r = [array |-> h, len |-> len, cap |-> len, parents |-> q, alive |-> TRUE, child |-> kids]
    BY <1>3, <2>2 DEF New
  <2>5. q \in Nat /\ len \in Nat /\ h \in Nat
    BY <1>1
  <2>6. /\ r.array = h /\ r.len = len /\ r.parents = q /\ r.alive = TRUE /\ r.child = kids
    BY <2>4
  <2>7. r \in Record
    <3> HIDE DEF New
    <3> QED
      BY <2>1, <2>2, <2>4, <2>5 DEF Record
  <2> QED
    BY <2>3, <2>6, <2>7
<1>5. /\ 1 .. Len(bs) \cup {c} = 1 .. n /\ c \in 1 .. n
      /\ n >= Len(bs) /\ n <= CAP_BLOCKS /\ 1 .. Len(bs) \subseteq 1 .. n
  <2>1. PICK m \in Nat : m = Len(bs) /\ m < CAP_BLOCKS /\ c \in 1 .. m + 1
    BY <1>1
  <2>2. (c <= m => n = m) /\ (~(c <= m) => n = m + 1)
    BY <1>2, <2>1
  <2>3. /\ 1 .. m \cup {c} = 1 .. n /\ c \in 1 .. n
        /\ n >= m /\ n <= CAP_BLOCKS /\ 1 .. m \subseteq 1 .. n
    <3>1. CASE c <= m
      BY <1>1, <2>1, <2>2, <3>1
    <3>2. CASE ~(c <= m)
      <4>1. c = m + 1 /\ n = m + 1
        BY <2>1, <2>2, <3>2
      <4>2. n \in Nat /\ CAP_BLOCKS \in Nat /\ n <= CAP_BLOCKS
        BY <1>1, <2>1, <4>1
      <4> QED
        BY <2>1, <4>1, <4>2
    <3> QED
      BY <3>1, <3>2
  <2> QED
    BY <2>1, <2>3
<1>6. \A x \in 1 .. n : x # c => x \in 1 .. Len(bs)
  BY <1>5
<1>7. /\ es \in Seq(Record) /\ Len(es) = n /\ es[c] = r
      /\ \A x \in 1 .. Len(bs) : x # c => es[x] = bs[x]
  <2>1. es = [x \in 1 .. n |-> IF x = c THEN r ELSE bs[x]]
    BY <1>1, <1>3, <1>5 DEF With
  <2>2. \A x \in 1 .. Len(bs) : bs[x] \in Record
    BY <1>1, ElementOfSeq
  <2>3. es \in [1 .. n -> Record]
    BY <1>4, <1>6, <2>1, <2>2
  <2> QED
    BY <1>5, <2>1, <2>3, SeqDef, LenProperties
<1>8. Table(es)
  <2>1. ASSUME NEW x \in 1 .. n
        PROVE  /\ es[x].len > 0 /\ es[x].len < CAP_HEAP
               /\ es[x].child \in [0 .. es[x].len - 1 -> 1 .. n \cup {Nil}]
               /\ es[x].parents > 0 => es[x].alive
    <3>1. CASE x = c
      <4>1. r.child \in [0 .. len - 1 -> 1 .. n \cup {Nil}]
        BY <1>4
      <4>2. len > 0 /\ len < CAP_HEAP
        BY <1>1
      <4> QED
        BY <1>4, <1>7, <3>1, <4>1, <4>2
    <3>2. CASE x # c
      <4>1. x \in 1 .. Len(bs) /\ es[x] = bs[x]
        BY <1>6, <1>7, <3>2
      <4>2. bs[x].child \in [0 .. bs[x].len - 1 -> 1 .. n \cup {Nil}]
        <5>1. bs[x].child \in [0 .. bs[x].len - 1 -> 1 .. Len(bs) \cup {Nil}]
          BY <1>1, <4>1 DEF Table
        <5>2. 1 .. Len(bs) \cup {Nil} \subseteq 1 .. n \cup {Nil}
          BY <1>5
        <5> QED
          BY <5>1, <5>2
      <4> QED
        BY <1>1, <4>1, <4>2 DEF Table
    <3> QED
      BY <3>1, <3>2
  <2> QED
    BY <1>5, <1>7, <2>1 DEF Table
<1>9. Layout(es, h + len)
  <2>1. ASSUME NEW x \in 1 .. Len(bs)
        PROVE  /\ bs[x].array \in Nat /\ bs[x].len \in Nat
               /\ bs[x].array + bs[x].len <= h
               /\ \A i \in 0 .. bs[x].len - 1 : bs[x].child[i] # x
               /\ \A y \in 1 .. Len(bs) :
                    x # y => bs[x].array + bs[x].len <= bs[y].array \/ bs[y].array + bs[y].len <= bs[x].array
    BY <1>1, BlockTypes DEF Layout
  <2>2. ASSUME NEW x \in 1 .. n
        PROVE  /\ es[x].array + es[x].len <= h + len
               /\ \A i \in 0 .. es[x].len - 1 : es[x].child[i] # x
               /\ \A y \in 1 .. n :
                    x # y => es[x].array + es[x].len <= es[y].array \/ es[y].array + es[y].len <= es[x].array
    <3>1. CASE x = c
      <4>1. \A i \in 0 .. len - 1 : r.child[i] # x
        BY <1>4, NilAssumption
      <4>2. ASSUME NEW y \in 1 .. n, x # y PROVE es[y].array + es[y].len <= h
        BY <1>6, <1>7, <2>1, <3>1, <4>2
      <4>3. \A y \in 1 .. n : x # y => es[y].array + es[y].len <= es[x].array
        BY <1>4, <1>7, <3>1, <4>2
      <4> QED
        BY <1>1, <1>4, <1>7, <3>1, <4>1, <4>3
    <3>2. CASE x # c
      <4>1. x \in 1 .. Len(bs) /\ es[x] = bs[x]
        BY <1>6, <1>7, <3>2
      <4>2. ASSUME NEW y \in 1 .. n, x # y
            PROVE  es[x].array + es[x].len <= es[y].array \/ es[y].array + es[y].len <= es[x].array
        <5>1. CASE y = c
          BY <1>4, <1>7, <2>1, <4>1, <5>1
        <5>2. CASE y # c
          <6>1. y \in 1 .. Len(bs) /\ es[y] = bs[y]
            BY <1>6, <1>7, <5>2
          <6> QED
            BY <2>1, <4>1, <4>2, <6>1
        <5> QED
          BY <5>1, <5>2
      <4>3. bs[x].array + bs[x].len <= h + len
        BY <1>1, <2>1, <4>1
      <4>4. \A i \in 0 .. bs[x].len - 1 : bs[x].child[i] # x
        BY <2>1, <4>1
      <4> QED
        BY <4>1, <4>2, <4>3, <4>4
    <3> QED
      BY <3>1, <3>2
  <2> QED
    BY <1>7, <2>2 DEF Layout
<1>10. CountIn(roots, c) = 0
  <2>1. CASE c <= Len(bs)
    <3>1. /\ Cardinality(SlotsTo(bs, c)) + CountIn(roots, c) + CountIn(<<>>, c) <= bs[c].parents
          /\ bs[c].parents = 0
      BY <1>1, <2>1 DEF Covered
    <3>2. CountIn(<<>>, c) = 0 /\ CountIn(roots, c) \in Nat /\ Cardinality(SlotsTo(bs, c)) \in Nat
      BY <1>1, CountEmpty, CountType, SlotsFinite
    <3> QED
      BY <3>1, <3>2
  <2>2. CASE ~(c <= Len(bs))
    <3>1. \A j \in 1 .. Len(roots) : roots[j] # c
      <4> SUFFICES ASSUME NEW j \in 1 .. Len(roots) PROVE roots[j] # c
        OBVIOUS
      <4>1. roots[j] \in 1 .. Len(bs)
        BY <1>1, ElementOfSeq
      <4> QED
        BY <1>1, <2>2, <4>1
    <3> QED
      BY <1>1, <3>1, CountNone
  <2> QED
    BY <2>1, <2>2
<1>11. /\ rs \in Seq(1 .. n)
       /\ CountIn(rs, c) = q
       /\ \A x \in 1 .. Len(bs) : x # c => CountIn(rs, x) = CountIn(roots, x)
  <2>1. roots \in Seq(1 .. n)
    BY <1>1, <1>5, SeqMonotonic
  <2>2. CASE q = 0
    BY <1>10, <2>1, <2>2 DEF Rooted
  <2>3. CASE q = 1
    <3>1. <<c>> \in Seq(1 .. n)
      BY <1>5
    <3>2. rs = roots \o <<c>>
      BY <2>1, <2>3, <3>1 DEF Rooted
    <3>3. rs \in Seq(1 .. n)
      BY <2>1, <3>1, <3>2, ConcatProperties
    <3>4. ASSUME NEW x PROVE CountIn(rs, x) = CountIn(roots, x) + CountIn(<<c>>, x)
      <4> DEFINE X == 1 .. n
      <4>1. roots \in Seq(X) /\ <<c>> \in Seq(X)
        BY <2>1, <3>1
      <4> HIDE DEF X
      <4>2. CountIn(roots \o <<c>>, x) = CountIn(roots, x) + CountIn(<<c>>, x)
        BY <4>1, CountConcat
      <4> QED
        BY <3>2, <4>2
    <3>5. CountIn(rs, c) = 1
      <4>1. CountIn(<<c>>, c) = 1 /\ CountIn(rs, c) = CountIn(roots, c) + CountIn(<<c>>, c)
        BY <3>4, CountOne
      <4> QED
        BY <1>10, <4>1
    <3>6. ASSUME NEW x \in 1 .. Len(bs), x # c PROVE CountIn(rs, x) = CountIn(roots, x)
      <4>1. CountIn(<<c>>, x) = 0 /\ CountIn(roots, x) \in Nat
        BY <1>1, <3>6, CountOne, CountType
      <4>2. CountIn(rs, x) = CountIn(roots, x) + CountIn(<<c>>, x)
        BY <3>4
      <4> QED
        BY <4>1, <4>2
    <3> QED
      BY <2>3, <3>3, <3>5, <3>6
  <2> QED
    BY <2>2, <2>3
<1>12. ASSUME NEW x, x # Nil, NEW e \in SlotsTo(es, x) PROVE e \in SlotsTo(bs, x)
  <2>1. PICK p \in 1 .. n, i \in 0 .. CAP_HEAP :
          e = <<p, i>> /\ es[p].parents > 0 /\ i < es[p].len /\ es[p].child[i] = x
    BY <1>7 DEF SlotsTo
  <2>2. p # c
    <3> SUFFICES ASSUME p = c PROVE FALSE
      OBVIOUS
    <3>1. i \in 0 .. len - 1 /\ r.child[i] = x
      BY <1>1, <1>4, <1>7, <2>1
    <3> QED
      BY <1>4, <1>12, <3>1
  <2>3. p \in 1 .. Len(bs) /\ es[p] = bs[p]
    BY <1>6, <1>7, <2>2
  <2> QED
    BY <2>1, <2>3 DEF SlotsTo
<1>13. SlotsTo(es, c) = {}
  <2> SUFFICES ASSUME NEW e \in SlotsTo(es, c) PROVE FALSE
    OBVIOUS
  <2>1. e \in SlotsTo(bs, c)
    BY <1>1, <1>12, NilAssumption
  <2>2. PICK p \in 1 .. Len(bs), i \in 0 .. CAP_HEAP :
          e = <<p, i>> /\ i < bs[p].len /\ bs[p].child[i] = c
    BY <2>1 DEF SlotsTo
  <2>3. c \in 1 .. Len(bs)
    <3>1. bs[p].len \in Nat /\ i \in 0 .. bs[p].len - 1
      BY <1>1, <2>2, BlockTypes
    <3>2. bs[p].child[i] \in 1 .. Len(bs) \cup {Nil}
      BY <1>1, <3>1, BlockTypes
    <3> QED
      BY <1>1, <2>2, <3>2, NilAssumption
  <2>4. /\ Cardinality(SlotsTo(bs, c)) + CountIn(roots, c) + CountIn(<<>>, c) <= bs[c].parents
        /\ bs[c].parents = 0
    BY <1>1, <2>3 DEF Covered
  <2>5. /\ CountIn(<<>>, c) = 0 /\ CountIn(roots, c) \in Nat /\ Cardinality(SlotsTo(bs, c)) \in Nat
        /\ IsFiniteSet(SlotsTo(bs, c))
    BY <1>1, CountEmpty, CountType, SlotsFinite
  <2>6. Cardinality(SlotsTo(bs, c)) = 0
    BY <2>4, <2>5
  <2> QED
    BY <2>1, <2>5, <2>6, FS_EmptySet
<1>14. Covered(es, rs, <<>>)
  <2> SUFFICES ASSUME NEW x \in 1 .. n
               PROVE  Cardinality(SlotsTo(es, x)) + CountIn(rs, x) + CountIn(<<>>, x) <= es[x].parents
    BY <1>7 DEF Covered
  <2>1. CountIn(<<>>, x) = 0
    BY CountEmpty
  <2>2. CASE x = c
    <3>1. Cardinality(SlotsTo(es, x)) = 0
      BY <1>13, <2>2, FS_EmptySet
    <3>2. es[x].parents = q /\ CountIn(rs, x) = q
      BY <1>4, <1>7, <1>11, <2>2
    <3> QED
      BY <2>1, <3>1, <3>2
  <2>3. CASE x # c
    <3>1. x \in 1 .. Len(bs) /\ es[x] = bs[x] /\ CountIn(rs, x) = CountIn(roots, x)
      BY <1>6, <1>7, <1>11, <2>3
    <3>2. Cardinality(SlotsTo(bs, x)) + CountIn(roots, x) + CountIn(<<>>, x) <= bs[x].parents
      BY <1>1, <3>1 DEF Covered
    <3>3. /\ Cardinality(SlotsTo(bs, x)) \in Nat /\ IsFiniteSet(SlotsTo(bs, x))
          /\ Cardinality(SlotsTo(es, x)) \in Nat /\ CountIn(roots, x) \in Nat
          /\ bs[x].parents \in Nat
      BY <1>1, <1>8, <3>1, SlotsFinite, CountType, BlockTypes
    <3>4. Cardinality(SlotsTo(es, x)) <= Cardinality(SlotsTo(bs, x))
      <4>1. SlotsTo(es, x) \in SUBSET SlotsTo(bs, x)
        BY <1>12, NilAssumption
      <4> QED
        BY <3>3, <4>1, FS_Subset
    <3> QED
      BY <2>1, <3>1, <3>2, <3>3, <3>4
  <2> QED
    BY <2>2, <2>3
<1>15. PICK owner : Owners(bs, h, roots, owner)
  BY DEF Good
<1>16. PICK grown : grown = [w \in 0 .. (h + len) - 1 |-> IF w < h THEN owner[w] ELSE Nil]
  OBVIOUS
<1>17. owner \in [0 .. h - 1 -> Nat \cup {Nil}]
  BY <1>15 DEF Owners
<1>18. \A x \in Nat : Owned(grown, h + len, x) = Owned(owner, h, x)
  <2> SUFFICES ASSUME NEW x \in Nat PROVE Owned(grown, h + len, x) = Owned(owner, h, x)
    OBVIOUS
  <2>1. ASSUME NEW w \in 0 .. (h + len) - 1
        PROVE  grown[w] = x <=> w \in 0 .. h - 1 /\ owner[w] = x
    BY <1>1, <1>16, NilAssumption
  <2>2. 0 .. h - 1 \subseteq 0 .. (h + len) - 1
    BY <1>1
  <2>3. \A w : w \in Owned(grown, h + len, x) <=> w \in 0 .. (h + len) - 1 /\ grown[w] = x
    BY Zenon DEF Owned
  <2>4. \A w : w \in Owned(owner, h, x) <=> w \in 0 .. h - 1 /\ owner[w] = x
    BY Zenon DEF Owned
  <2>5. \A w : w \in Owned(grown, h + len, x) <=> w \in Owned(owner, h, x)
    BY <2>1, <2>2, <2>3, <2>4, Zenon
  <2> QED
    BY <2>5
<1>19. Owners(es, h + len, rs, grown)
  <2>1. grown \in [0 .. (h + len) - 1 -> Nat \cup {Nil}]
    BY <1>1, <1>16, <1>17
  <2>2. ASSUME NEW p \in 1 .. n, NEW i \in 0 .. es[p].len - 1
        PROVE  grown[es[p].array + i] = es[p].child[i]
    <3>1. CASE p = c
      <4>1. i \in 0 .. len - 1 /\ es[p].array = h /\ es[p].child[i] = Nil
        BY <1>4, <1>7, <3>1
      <4>2. h + i \in 0 .. (h + len) - 1 /\ ~(h + i < h)
        BY <1>1, <4>1
      <4> QED
        BY <1>16, <4>1, <4>2
    <3>2. CASE p # c
      <4>1. p \in 1 .. Len(bs) /\ es[p] = bs[p]
        BY <1>6, <1>7, <3>2
      <4>2. bs[p].array + i \in 0 .. h - 1
        BY <1>1, <4>1, WordsApart
      <4>3. owner[bs[p].array + i] = bs[p].child[i]
        BY <1>15, <4>1 DEF Owners
      <4>4. bs[p].array + i \in 0 .. (h + len) - 1 /\ bs[p].array + i < h
        BY <1>1, <4>2
      <4> QED
        BY <1>16, <4>1, <4>3, <4>4
    <3> QED
      BY <3>1, <3>2
  <2>3. ASSUME NEW x \in 1 .. n
        PROVE  es[x].parents <= Cardinality(Owned(grown, h + len, x)) + CountIn(rs, x)
    <3>1. /\ Owned(grown, h + len, x) = Owned(owner, h, x)
          /\ Cardinality(Owned(owner, h, x)) \in Nat
      <4>1. x \in Nat
        OBVIOUS
      <4> QED
        BY <1>1, <1>18, <4>1, OwnedFinite
    <3>2. CASE x = c
      <4>1. es[x].parents = q /\ CountIn(rs, x) = q
        BY <1>4, <1>7, <1>11, <3>2
      <4> QED
        BY <3>1, <4>1
    <3>3. CASE x # c
      <4>1. x \in 1 .. Len(bs) /\ es[x] = bs[x] /\ CountIn(rs, x) = CountIn(roots, x)
        BY <1>6, <1>7, <1>11, <3>3
      <4>2. bs[x].parents <= Cardinality(Owned(owner, h, x)) + CountIn(roots, x)
        BY <1>15, <4>1 DEF Owners
      <4> QED
        BY <3>1, <4>1, <4>2
    <3> QED
      BY <3>2, <3>3
  <2>4. Len(es) = n
    BY <1>7
  <2> QED
    <3>1. \A p \in 1 .. Len(es) : \A i \in 0 .. es[p].len - 1 :
            grown[es[p].array + i] = es[p].child[i]
      BY <2>2, <2>4, Zenon
    <3>2. \A x \in 1 .. Len(es) :
            es[x].parents <= Cardinality(Owned(grown, h + len, x)) + CountIn(rs, x)
      BY <2>3, <2>4, Zenon
    <3> QED
      BY <2>1, <3>1, <3>2, Zenon DEF Owners
<1>20. \A x \in 1 .. n : CountIn(rs, x) <= 1
  <2> SUFFICES ASSUME NEW x \in 1 .. n PROVE CountIn(rs, x) <= 1
    OBVIOUS
  <2>1. CASE x = c
    BY <1>11, <2>1
  <2>2. CASE x # c
    <3>1. x \in 1 .. Len(bs) /\ CountIn(rs, x) = CountIn(roots, x)
      BY <1>6, <1>11, <2>2
    <3> QED
      BY <1>1, <3>1
  <2> QED
    BY <2>1, <2>2
<1>21. Good(es, h + len, rs)
  <2>1. h + len \in Nat
    BY <1>1
  <2> QED
    BY <1>7, <1>8, <1>9, <1>11, <1>14, <1>19, <1>20, <2>1 DEF Good
<1> QED
  BY <1>3, <1>5, <1>7, <1>21

\* insert_child_at of a block that stays reachable, or of one that is new.
LEMMA InsertGood ==
  ASSUME NEW bs, NEW h, NEW roots, Good(bs, h, roots), NEW p \in 1 .. Len(bs), bs[p].parents > 0,
         NEW i \in 0 .. bs[p].len - 1, NEW c \in 1 .. Len(bs), c # p,
         \/ c \in ReachIn(Put(bs, p, i, Nil), Range(roots))
         \/ bs[c].alive /\ \A j \in 0 .. bs[c].len - 1 : bs[c].child[j] = Nil
  PROVE  /\ Good(Inserted(bs, p, c, i), h, roots) /\ Len(Inserted(bs, p, c, i)) = Len(bs)
         /\ \A b \in 1 .. Len(bs) : Inserted(bs, p, c, i)[b].array = bs[b].array
<1>1. PICK cut, ds, es : cut = Put(bs, p, i, Nil) /\ ds = Removed(bs, p, i) /\ es = Inserted(bs, p, c, i)
  OBVIOUS
<1>2. Table(bs) /\ roots \in Seq(1 .. Len(bs))
  BY DEF Good
<1>3. IsPut(bs, p, i, Nil, cut)
  <2>1. Nil \in 1 .. Len(bs) \cup {Nil}
    OBVIOUS
  <2> QED
    BY <1>1, <1>2, <2>1, SlotChanged
<1>4. Good(ds, h, roots) /\ Lowered(cut, ds)
  BY <1>1, RemoveGood
<1>5. /\ Len(cut) = Len(bs) /\ Len(ds) = Len(bs) /\ Table(cut) /\ Table(ds)
      /\ roots \in Seq(1 .. Len(ds)) /\ Covered(ds, roots, <<>>)
      /\ \A b \in 1 .. Len(bs) :
           /\ ds[b].array = bs[b].array /\ ds[b].len = bs[b].len /\ ds[b].alive = bs[b].alive
           /\ b # p => ds[b].child = bs[b].child
      /\ ds[p].child[i] = Nil
  BY <1>3, <1>4 DEF IsPut, Lowered, Good
<1>6. ds[c].alive /\ (ds[c].parents > 0 \/ \A j \in 0 .. ds[c].len - 1 : ds[c].child[j] = Nil)
  <2>1. CASE c \in ReachIn(Put(bs, p, i, Nil), Range(roots))
    <3>1. Range(roots) \in SUBSET (1 .. Len(cut))
      BY <1>5, ReachableHasParents
    <3>2. ReachIn(cut, Range(roots)) \subseteq ReachIn(ds, Range(roots))
      BY <1>4, <1>5, <3>1, LoweredReach
    <3>3. ds[c].parents > 0
      BY <1>1, <1>5, <2>1, <3>2, ReachableHasParents
    <3> QED
      BY <1>5, <3>3 DEF Table
  <2>2. CASE bs[c].alive /\ \A j \in 0 .. bs[c].len - 1 : bs[c].child[j] = Nil
    BY <1>5, <2>2
  <2> QED
    BY <2>1, <2>2
<1>7. es = PutCounted(ds, p, i, c)
  BY <1>1 DEF Inserted, PutCounted
<1>8. p \in 1 .. Len(ds) /\ i \in 0 .. ds[p].len - 1 /\ c \in 1 .. Len(ds)
  BY <1>5
<1>9. /\ Good(es, h, roots) /\ Len(es) = Len(ds)
      /\ \A b \in 1 .. Len(ds) : es[b].array = ds[b].array
  BY <1>4, <1>5, <1>6, <1>7, <1>8, PutGood
<1> QED
  BY <1>1, <1>5, <1>9

-----------------------------------------------------------------------------
(* The steps.                                                              *)

Kept == \A b \in Reachable : BLOCKS'[b].array = BLOCKS[b].array

Reclaimed ==
  pc = "mark" /\ pc' = "client" =>
    \A b \in Handles : Reusable(BLOCKS'[b], BLOCKS'[b].cap) <=> b \notin Reachable'

LEMMA InvFacts ==
  ASSUME Sound
  PROVE  /\ Table(BLOCKS) /\ Handles = 1 .. Len(BLOCKS) /\ Len(BLOCKS) \in Nat
         /\ ROOTS \in Seq(1 .. Len(BLOCKS)) /\ Len(ROOTS) \in Nat /\ LEN_HEAP \in Nat
         /\ Covered(BLOCKS, ROOTS, <<>>)
         /\ Reachable \subseteq {b \in 1 .. Len(BLOCKS) : BLOCKS[b].parents > 0}
<1>1. /\ Table(BLOCKS) /\ ROOTS \in Seq(1 .. Len(BLOCKS)) /\ LEN_HEAP \in Nat
      /\ Covered(BLOCKS, ROOTS, <<>>)
  BY DEF Sound, Good
<1> QED
  BY <1>1, LenProperties, ReachableHasParents DEF Handles, Table, Reachable

LEMMA Same ==
  ASSUME Sound, UNCHANGED <<BLOCKS, LEN_HEAP, ROOTS>>
  PROVE  Sound' /\ Kept
BY DEF Sound, Kept

LEMMA PickedIs ==
  ASSUME Sound, NEW len
  PROVE  /\ Picked(len) \in 1 .. Len(BLOCKS) + 1
         /\ Picked(len) <= Len(BLOCKS) => BLOCKS[Picked(len)].parents = 0
<1> DEFINE reusable == {k \in Handles : Reusable(BLOCKS[k], len)}
<1>1. Table(BLOCKS) /\ Handles = 1 .. Len(BLOCKS) /\ Len(BLOCKS) \in Nat
  BY InvFacts
<1>2. CASE reusable = {}
  <2>1. Picked(len) = Len(BLOCKS) + 1
    BY <1>2 DEF Picked
  <2> QED
    BY <1>1, <2>1
<1>3. CASE reusable # {}
  <2>1. Picked(len) = CHOOSE k \in reusable : \A l \in reusable : k <= l
    BY <1>3 DEF Picked
  <2>2. \E k \in reusable : \A l \in reusable : k <= l
    <3>1. reusable \subseteq Nat
      BY <1>1
    <3> HIDE DEF reusable
    <3> QED
      BY <1>3, <3>1, LeastNumber
  <2>3. Picked(len) \in reusable
    <3> HIDE DEF reusable
    <3> QED
      BY <2>1, <2>2
  <2>4. PICK k \in 1 .. Len(BLOCKS) : k = Picked(len) /\ Reusable(BLOCKS[k], len)
    BY <1>1, <2>3
  <2>5. BLOCKS[k].parents \in Nat /\ (BLOCKS[k].parents > 0 => BLOCKS[k].alive)
    BY <1>1, BlockTypes DEF Table
  <2>6. BLOCKS[k].parents = 0
    BY <2>4, <2>5 DEF Reusable
  <2> QED
    BY <1>1, <2>4, <2>6
<1> QED
  BY <1>2, <1>3

\* What both kinds of allocation share.
LEMMA AllocStep ==
  ASSUME Sound, NEW len \in Lens, AllocExit(len) = "none", NEW q \in {0, 1},
         NEW es, es = With(BLOCKS, Picked(len), Fresh(len, q)),
         NEW rs, rs = Rooted(ROOTS, Picked(len), q)
  PROVE  /\ Good(es, LEN_HEAP + len, rs)
         /\ Picked(len) \in 1 .. Len(es) /\ es[Picked(len)] = Fresh(len, q) /\ Len(BLOCKS) <= Len(es)
         /\ \A x \in 1 .. Len(BLOCKS) : x # Picked(len) => es[x] = BLOCKS[x]
<1>1. len \in Nat \ {0} /\ Len(BLOCKS) \in Nat /\ LEN_HEAP \in Nat
      /\ CAP_HEAP \in Nat /\ CAP_BLOCKS \in Nat
  BY InvFacts, LensAssumption, CapAssumption
<1>2. LEN_HEAP + len < CAP_HEAP /\ Len(BLOCKS) < CAP_BLOCKS
  BY <1>1 DEF AllocExit, ArrayFits
<1>3. PICK c : c = Picked(len)
  OBVIOUS
<1>4. c \in 1 .. Len(BLOCKS) + 1 /\ (c <= Len(BLOCKS) => BLOCKS[c].parents = 0)
  BY <1>3, PickedIs
<1>5. Fresh(len, q) = New(LEN_HEAP, len, q)
  BY DEF Fresh, New
<1>6. Good(BLOCKS, LEN_HEAP, ROOTS)
  BY DEF Sound
<1>7. es = With(BLOCKS, c, New(LEN_HEAP, len, q)) /\ rs = Rooted(ROOTS, c, q)
  BY <1>3, <1>5
<1>8. /\ Good(es, LEN_HEAP + len, rs)
      /\ c \in 1 .. Len(es) /\ es[c] = New(LEN_HEAP, len, q) /\ Len(BLOCKS) <= Len(es)
      /\ \A x \in 1 .. Len(BLOCKS) : x # c => es[x] = BLOCKS[x]
  BY <1>1, <1>2, <1>4, <1>6, <1>7, AllocGood
<1> QED
  BY <1>3, <1>5, <1>8

LEMMA AllocRootStep ==
  ASSUME Sound, NEW len \in Lens, alloc_root(len) PROVE Sound' /\ Kept
<1>1. CASE BLOCKS' = BLOCKS /\ LEN_HEAP' = LEN_HEAP /\ ROOTS' = ROOTS
  BY <1>1, Same
<1>2. CASE ~(BLOCKS' = BLOCKS /\ LEN_HEAP' = LEN_HEAP /\ ROOTS' = ROOTS)
  <2>1. /\ AllocExit(len) = "none"
        /\ BLOCKS' = With(BLOCKS, Picked(len), Fresh(len, 1))
        /\ ROOTS' = Append(ROOTS, Picked(len))
        /\ LEN_HEAP' = LEN_HEAP + len
    BY <1>2 DEF alloc_root, Exit
  <2>2. /\ Good(BLOCKS', LEN_HEAP + len, ROOTS')
        /\ \A x \in 1 .. Len(BLOCKS) : x # Picked(len) => BLOCKS'[x] = BLOCKS[x]
    BY <2>1, AllocStep DEF Rooted
  <2>3. Reachable \subseteq {b \in 1 .. Len(BLOCKS) : BLOCKS[b].parents > 0}
        /\ Len(ROOTS) \in Nat /\ ROOTS \in Seq(1 .. Len(BLOCKS))
    BY InvFacts
  <2>4. Picked(len) \notin Reachable
    BY <2>3, PickedIs
  <2>5. Kept
    BY <2>2, <2>3, <2>4 DEF Kept
  <2>8. Sound'
    BY <2>1, <2>2 DEF Sound
  <2> QED
    BY <2>5, <2>8
<1> QED
  BY <1>1, <1>2

\* The index that passes the test is that of a slot.
LEMMA GoodIndex ==
  ASSUME Sound, NEW parent \in Reachable, NEW i \in 0 .. BITS, ~BadIndex(parent, i)
  PROVE  /\ parent \in 1 .. Len(BLOCKS) /\ BLOCKS[parent].parents > 0
         /\ i \in 0 .. BLOCKS[parent].len - 1
<1>1. parent \in 1 .. Len(BLOCKS) /\ BLOCKS[parent].parents > 0 /\ Table(BLOCKS)
  BY InvFacts
<1>2. BLOCKS[parent].len \in Nat /\ BITS \in Nat
  BY <1>1, BlockTypes, CapAssumption
<1> QED
  BY <1>1, <1>2 DEF BadIndex

LEMMA RemoveStep ==
  ASSUME Sound, NEW parent \in Handles, NEW i \in 0 .. BITS, remove_child_at(parent, i)
  PROVE  Sound' /\ Kept
<1>1. CASE BadIndex(parent, i)
  BY <1>1, Same DEF remove_child_at, Exit
<1>2. CASE ~BadIndex(parent, i)
  <2>1. /\ parent \in Reachable /\ BLOCKS' = Removed(BLOCKS, parent, i)
        /\ LEN_HEAP' = LEN_HEAP /\ ROOTS' = ROOTS
    BY <1>2 DEF remove_child_at
  <2>2. /\ parent \in 1 .. Len(BLOCKS) /\ BLOCKS[parent].parents > 0
        /\ i \in 0 .. BLOCKS[parent].len - 1
    BY <1>2, <2>1, GoodIndex
  <2>3. PICK cut : cut = Put(BLOCKS, parent, i, Nil)
    OBVIOUS
  <2>4. Good(BLOCKS', LEN_HEAP, ROOTS) /\ Lowered(cut, BLOCKS')
    BY <2>1, <2>2, <2>3, RemoveGood DEF Sound
  <2>5. IsPut(BLOCKS, parent, i, Nil, cut)
    <3>1. Nil \in 1 .. Len(BLOCKS) \cup {Nil} /\ Table(BLOCKS)
      BY InvFacts
    <3> QED
      BY <2>2, <2>3, <3>1, SlotChanged
  <2>6. \A b \in 1 .. Len(BLOCKS) : BLOCKS'[b].array = BLOCKS[b].array
    BY <2>4, <2>5 DEF Lowered, IsPut
  <2>7. Reachable \subseteq 1 .. Len(BLOCKS) /\ Len(ROOTS) \in Nat
    BY InvFacts
  <2> QED
    BY <2>1, <2>4, <2>6, <2>7 DEF Sound, Kept
<1> QED
  BY <1>1, <1>2

LEMMA InsertStep ==
  ASSUME Sound, NEW parent \in Handles, NEW i \in 0 .. BITS, NEW c \in Handles,
         insert_child_at(parent, c, i)
  PROVE  Sound' /\ Kept
<1>1. CASE parent = c \/ BadIndex(parent, i)
  BY <1>1, Same DEF insert_child_at, Exit
<1>2. CASE ~(parent = c \/ BadIndex(parent, i))
  <2>1. /\ parent \in Reachable /\ BLOCKS' = Inserted(BLOCKS, parent, c, i)
        /\ c \in ReachIn(Put(BLOCKS, parent, i, Nil), Range(ROOTS))
        /\ LEN_HEAP' = LEN_HEAP /\ ROOTS' = ROOTS
    BY <1>2 DEF insert_child_at, Put
  <2>2. /\ parent \in 1 .. Len(BLOCKS) /\ BLOCKS[parent].parents > 0
        /\ i \in 0 .. BLOCKS[parent].len - 1
    BY <1>2, <2>1, GoodIndex
  <2>3. /\ Handles = 1 .. Len(BLOCKS) /\ Reachable \subseteq 1 .. Len(BLOCKS)
        /\ Len(ROOTS) \in Nat
    BY InvFacts
  <2>4. /\ Good(BLOCKS', LEN_HEAP, ROOTS)
        /\ \A b \in 1 .. Len(BLOCKS) : BLOCKS'[b].array = BLOCKS[b].array
    BY <1>2, <2>1, <2>2, <2>3, InsertGood DEF Sound
  <2> QED
    BY <2>1, <2>3, <2>4 DEF Sound, Kept
<1> QED
  BY <1>1, <1>2

LEMMA InsertNewStep ==
  ASSUME Sound, NEW parent \in Handles, NEW i \in 0 .. BITS, NEW len \in Lens,
         insert_new_child_at(parent, len, i)
  PROVE  Sound' /\ Kept
<1>1. CASE AllocExit(len) # "none" \/ BadIndex(parent, i)
  BY <1>1, Same DEF insert_new_child_at, Exit
<1>2. CASE ~(AllocExit(len) # "none" \/ BadIndex(parent, i))
  <2>1. PICK c, bs : c = Picked(len) /\ bs = With(BLOCKS, c, Fresh(len, 0))
    OBVIOUS
  <2>2. /\ parent \in Reachable /\ AllocExit(len) = "none"
        /\ BLOCKS' = Inserted(bs, parent, c, i)
        /\ LEN_HEAP' = LEN_HEAP + len /\ ROOTS' = ROOTS
    BY <1>2, <2>1 DEF insert_new_child_at
  <2>3. /\ parent \in 1 .. Len(BLOCKS) /\ BLOCKS[parent].parents > 0
        /\ i \in 0 .. BLOCKS[parent].len - 1
    BY <1>2, <2>2, GoodIndex
  <2>4. /\ Good(bs, LEN_HEAP + len, ROOTS)
        /\ c \in 1 .. Len(bs) /\ bs[c] = Fresh(len, 0) /\ Len(BLOCKS) <= Len(bs)
        /\ \A x \in 1 .. Len(BLOCKS) : x # c => bs[x] = BLOCKS[x]
    <3>1. 0 \in {0, 1} /\ ROOTS = Rooted(ROOTS, Picked(len), 0)
      BY DEF Rooted
    <3> QED
      BY <2>1, <2>2, <3>1, AllocStep
  <2>5. /\ Reachable \subseteq {b \in 1 .. Len(BLOCKS) : BLOCKS[b].parents > 0}
        /\ Len(ROOTS) \in Nat /\ Len(BLOCKS) \in Nat /\ Table(BLOCKS)
    BY InvFacts
  <2>6. c \notin Reachable
    BY <2>1, <2>5, PickedIs
  <2>7. parent # c /\ bs[parent] = BLOCKS[parent]
    BY <2>2, <2>3, <2>4, <2>6
  <2>8. bs[c].alive /\ \A j \in 0 .. bs[c].len - 1 : bs[c].child[j] = Nil
    BY <2>4 DEF Fresh
  <2>9. parent \in 1 .. Len(bs) /\ bs[parent].parents > 0 /\ i \in 0 .. bs[parent].len - 1
    <3>1. Len(bs) \in Nat
      BY <2>4, LenProperties DEF Good, Table
    <3> QED
      BY <2>3, <2>4, <2>5, <2>7, <3>1
  <2>10. /\ Good(BLOCKS', LEN_HEAP + len, ROOTS)
         /\ \A b \in 1 .. Len(bs) : BLOCKS'[b].array = bs[b].array
    BY <2>2, <2>4, <2>7, <2>8, <2>9, InsertGood
  <2>11. Kept
    <3> SUFFICES ASSUME NEW b \in Reachable PROVE BLOCKS'[b].array = BLOCKS[b].array
      BY DEF Kept
    <3>1. b \in 1 .. Len(BLOCKS) /\ b \in 1 .. Len(bs) /\ b # c
      <4>1. Len(bs) \in Nat
        BY <2>4, LenProperties DEF Good, Table
      <4> QED
        BY <2>4, <2>5, <2>6, <4>1
    <3> QED
      BY <2>4, <2>10, <3>1
  <2> QED
    BY <2>2, <2>5, <2>10, <2>11 DEF Sound
<1> QED
  BY <1>1, <1>2

-----------------------------------------------------------------------------
(* Popping a root.                                                         *)

LEMMA FunctionIsSeq ==
  ASSUME NEW X, NEW n \in Nat, NEW f \in [1 .. n -> X]
  PROVE  f \in Seq(X) /\ Len(f) = n /\ DOMAIN f = 1 .. n
<1>1. f \in Seq(X)
  BY SeqDef
<1>2. Len(f) \in Nat /\ DOMAIN f = 1 .. Len(f) /\ DOMAIN f = 1 .. n
  BY <1>1, LenProperties
<1> QED
  BY <1>1, <1>2

LEMMA RangeTail ==
  ASSUME NEW X, NEW s \in Seq(X), s # <<>>
  PROVE  Head(s) \in X /\ Tail(s) \in Seq(X) /\ Range(s) = {Head(s)} \cup Range(Tail(s))
<1>1. /\ Head(s) \in X /\ Tail(s) \in Seq(X) /\ Len(Tail(s)) = Len(s) - 1 /\ Head(s) = s[1]
      /\ \A k \in 1 .. Len(Tail(s)) : Tail(s)[k] = s[k + 1]
  BY HeadTailProperties
<1>2. Len(s) \in Nat /\ Len(s) # 0 /\ DOMAIN s = 1 .. Len(s) /\ DOMAIN Tail(s) = 1 .. Len(s) - 1
  BY <1>1, LenProperties, EmptySeq
<1>3. ASSUME NEW x \in Range(s) PROVE x = Head(s) \/ x \in Range(Tail(s))
  <2>1. PICK k \in 1 .. Len(s) : x = s[k]
    BY <1>2 DEF Range
  <2>2. CASE k = 1
    BY <1>1, <2>1, <2>2
  <2>3. CASE k # 1
    <3>1. k - 1 \in 1 .. Len(s) - 1 /\ (k - 1) + 1 = k
      BY <1>2, <2>3
    <3>2. Tail(s)[k - 1] = x
      BY <1>1, <2>1, <3>1
    <3> QED
      BY <1>2, <3>1, <3>2 DEF Range
  <2> QED
    BY <2>2, <2>3
<1>4. ASSUME NEW x \in Range(Tail(s)) PROVE x \in Range(s)
  <2>1. PICK k \in 1 .. Len(s) - 1 : x = Tail(s)[k]
    BY <1>2 DEF Range
  <2>2. k + 1 \in 1 .. Len(s)
    BY <1>2
  <2> QED
    BY <1>1, <1>2, <2>1, <2>2 DEF Range
<1>5. Head(s) \in Range(s)
  BY <1>1, <1>2 DEF Range
<1> QED
  BY <1>1, <1>3, <1>4, <1>5

LEMMA RangeConcat ==
  ASSUME NEW X, NEW s \in Seq(X), NEW t \in Seq(X)
  PROVE  s \o t \in Seq(X) /\ Range(s \o t) = Range(s) \cup Range(t)
<1>1. /\ Len(s) \in Nat /\ Len(t) \in Nat /\ s \o t \in Seq(X)
      /\ DOMAIN s = 1 .. Len(s) /\ DOMAIN t = 1 .. Len(t)
      /\ DOMAIN (s \o t) = 1 .. Len(s) + Len(t)
      /\ \A k \in 1 .. Len(s) + Len(t) :
           (s \o t)[k] = IF k <= Len(s) THEN s[k] ELSE t[k - Len(s)]
  BY LenProperties, ConcatProperties
<1>2. ASSUME NEW x \in Range(s \o t) PROVE x \in Range(s) \cup Range(t)
  <2>1. PICK k \in 1 .. Len(s) + Len(t) : x = (s \o t)[k]
    BY <1>1 DEF Range
  <2>2. k \in 1 .. Len(s) \/ (~(k <= Len(s)) /\ k - Len(s) \in 1 .. Len(t))
    BY <1>1
  <2> QED
    BY <1>1, <2>1, <2>2 DEF Range
<1>3. ASSUME NEW x \in Range(s) PROVE x \in Range(s \o t)
  <2>1. PICK k \in 1 .. Len(s) : x = s[k]
    BY <1>1 DEF Range
  <2>2. k \in 1 .. Len(s) + Len(t) /\ k <= Len(s)
    BY <1>1
  <2> QED
    BY <1>1, <2>1, <2>2 DEF Range
<1>4. ASSUME NEW x \in Range(t) PROVE x \in Range(s \o t)
  <2>1. PICK k \in 1 .. Len(t) : x = t[k]
    BY <1>1 DEF Range
  <2>2. Len(s) + k \in 1 .. Len(s) + Len(t) /\ ~(Len(s) + k <= Len(s)) /\ (Len(s) + k) - Len(s) = k
    BY <1>1
  <2> QED
    BY <1>1, <2>1, <2>2 DEF Range
<1> QED
  BY <1>1, <1>2, <1>3, <1>4

\* The calls that mark makes for a block are those for its children.
LEMMA SlotsAreChildren ==
  ASSUME NEW bs, Table(bs), NEW b \in 1 .. Len(bs)
  PROVE  /\ Slots(bs[b]) \in Seq(1 .. Len(bs) \cup {Nil})
         /\ Children(bs[b]) = Range(Slots(bs[b])) \ {Nil}
<1>1. /\ bs[b].len \in Nat /\ DOMAIN bs[b].child = 0 .. bs[b].len - 1
  BY BlockTypes
<1>2. DOMAIN Slots(bs[b]) = 1 .. bs[b].len /\ \A k \in 1 .. bs[b].len : Slots(bs[b])[k] = bs[b].child[k - 1]
  BY DEF Slots
<1>3. ASSUME NEW i \in 0 .. bs[b].len - 1 PROVE bs[b].child[i] \in Range(Slots(bs[b]))
  <2>1. i + 1 \in 1 .. bs[b].len /\ (i + 1) - 1 = i
    BY <1>1
  <2> QED
    BY <1>2, <2>1 DEF Range
<1>4. ASSUME NEW k \in 1 .. bs[b].len PROVE k - 1 \in 0 .. bs[b].len - 1
  BY <1>1
<1> QED
  BY <1>1, <1>2, <1>3, <1>4, SlotsInOrder DEF Children, Range

\* Blocks that have the same children as those of a table reach no others.
LEMMA ReachWithin ==
  ASSUME NEW bs, Table(bs), NEW S \in SUBSET (1 .. Len(bs)),
         NEW es, \A b \in 1 .. Len(bs) : Children(es[b]) = Children(bs[b])
  PROVE  ReachIn(es, S) \subseteq 1 .. Len(bs)
<1>1. CAP_BLOCKS \in Nat
  BY CapAssumption
<1>2. PICK r \in [0 .. CAP_BLOCKS -> SUBSET (1 .. Len(bs))] : IsReach(r, bs, S)
  BY ReachExists
<1>3. ASSUME NEW U \in SUBSET (1 .. Len(bs))
      PROVE  Grown(es, U) = Grown(bs, U) /\ Grown(bs, U) \subseteq 1 .. Len(bs)
  <2>1. \A b \in U : Children(es[b]) = Children(bs[b])
    OBVIOUS
  <2>2. \A b \in U : Children(bs[b]) \subseteq 1 .. Len(bs)
    BY ChildrenAre
  <2>3. UNION {Children(es[b]) : b \in U} = UNION {Children(bs[b]) : b \in U}
    BY <2>1
  <2>4. UNION {Children(bs[b]) : b \in U} \subseteq 1 .. Len(bs)
    BY <2>2
  <2> QED
    BY <2>3, <2>4 DEF Grown
<1>4. IsReach(r, es, S)
  <2>1. \A k \in 0 .. CAP_BLOCKS : k # 0 => k - 1 \in 0 .. CAP_BLOCKS
    BY <1>1
  <2>2. \A k \in 0 .. CAP_BLOCKS : k # 0 => Grown(es, r[k - 1]) = Grown(bs, r[k - 1])
    BY <1>2, <1>3, <2>1
  <2> QED
    BY <1>2, <2>2 DEF IsReach
<1>5. PICK q : IsReach(q, es, S) /\ ReachIn(es, S) = q[CAP_BLOCKS]
  BY <1>4, ReachIs
<1> DEFINE D == {k \in Nat : q[k] \subseteq 1 .. Len(bs)}
<1>6. 0 \in D
  <2>1. 0 \in 0 .. CAP_BLOCKS
    BY <1>1
  <2>2. q[0] = S
    BY <1>5, <2>1 DEF IsReach
  <2> QED
    BY <2>2
<1>7. ASSUME NEW k \in 0 .. CAP_BLOCKS - 1, k \in D PROVE k + 1 \in D
  <2>1. k + 1 \in 0 .. CAP_BLOCKS /\ k + 1 # 0 /\ (k + 1) - 1 = k /\ k + 1 \in Nat
    BY <1>1
  <2>2. q[k + 1] = Grown(es, q[k])
    BY <1>5, <2>1 DEF IsReach
  <2> QED
    BY <1>3, <1>7, <2>1, <2>2
<1>8. \A k \in 0 .. CAP_BLOCKS - 1 : k \in D => k + 1 \in D
  BY <1>7
<1> HIDE DEF D
<1>9. \A k \in 0 .. CAP_BLOCKS : k \in D
  BY <1>1, <1>6, <1>8, SetInduction
<1> QED
  BY <1>1, <1>5, <1>9 DEF D

LEMMA MarkingFacts ==
  ASSUME NEW bs, Marking(bs)
  PROVE  /\ Table(bs) /\ Handles = 1 .. Len(bs) /\ Len(bs) \in Nat /\ Nil \notin 1 .. Len(bs)
         /\ Range(ROOTS) \in SUBSET (1 .. Len(bs))
         /\ Reachable \subseteq 1 .. Len(bs)
         /\ Marked \subseteq 1 .. Len(bs)
<1>1. Table(bs) /\ ROOTS \in Seq(1 .. Len(bs)) /\ Covered(bs, ROOTS, <<>>)
  BY DEF Marking, Good
<1>2. Len(bs) \in Nat /\ Handles = 1 .. Len(bs)
  BY <1>1, LenProperties DEF Handles, Marking, Table
<1>3. Range(ROOTS) \in SUBSET (1 .. Len(bs))
  BY <1>1, ReachableHasParents
<1>4. \A b \in 1 .. Len(bs) : Children(BLOCKS[b]) = Children(bs[b])
  BY DEF Marking, Children
<1>5. Reachable \subseteq 1 .. Len(bs)
  BY <1>1, <1>3, <1>4, ReachWithin DEF Reachable
<1> QED
  BY <1>1, <1>2, <1>3, <1>5, NilAssumption DEF Marked

LEMMA PopStep == ASSUME Sound, pop_root PROVE IInv' /\ Kept
<1>1. CASE ROOTS = <<>>
  <2>1. Sound' /\ Kept /\ pc' = "client"
    BY <1>1, Same DEF pop_root, Exit, Idle
  <2> QED
    BY <2>1 DEF IInv
<1>2. CASE ROOTS # <<>>
  <2>1. PICK roots, ds : /\ roots = SubSeq(ROOTS, 1, Len(ROOTS) - 1)
                         /\ ds = Free(BLOCKS, ROOTS[Len(ROOTS)])
    OBVIOUS
  <2>2. /\ BLOCKS' = Cleared(ds) /\ ROOTS' = roots /\ LEN_HEAP' = LEN_HEAP
        /\ pc' = "mark" /\ calls' = roots
    BY <1>2, <2>1 DEF pop_root
  <2>3. Good(ds, LEN_HEAP, roots) /\ Lowered(BLOCKS, ds)
    BY <1>2, <2>1, PopGood DEF Sound
  <2>4. /\ Table(ds) /\ ds \in Seq(Record) /\ Len(ds) \in Nat /\ DOMAIN ds = 1 .. Len(ds)
        /\ roots \in Seq(1 .. Len(ds)) /\ Covered(ds, roots, <<>>)
    BY <2>3, LenProperties DEF Good, Table
  <2>5. ASSUME NEW b \in 1 .. Len(ds)
        PROVE  /\ BLOCKS'[b] \in Record /\ ~BLOCKS'[b].alive
               /\ BLOCKS'[b].array = ds[b].array /\ BLOCKS'[b].len = ds[b].len
               /\ BLOCKS'[b].child = ds[b].child /\ BLOCKS'[b].parents = ds[b].parents
    <3>1. ds[b] \in Record /\ BLOCKS'[b] = [ds[b] EXCEPT !.alive = FALSE]
      BY <2>2, <2>4, BlockTypes DEF Cleared
    <3> QED
      BY <3>1 DEF Record
  <2>6. BLOCKS' \in Seq(Record) /\ Len(BLOCKS') = Len(ds) /\ DOMAIN BLOCKS' = 1 .. Len(ds)
    <3>1. BLOCKS' \in [1 .. Len(ds) -> Record]
      BY <2>2, <2>4, <2>5 DEF Cleared
    <3> QED
      BY <2>4, <3>1, FunctionIsSeq
  <2>7. Marked' = {}
    BY <2>5, <2>6 DEF Marked, Handles
  <2>8. Range(roots) \in SUBSET (1 .. Len(ds)) /\ Range(roots) \subseteq ReachIn(ds, Range(roots))
    BY <2>4, ReachableHasParents, ReachIsLeast
  <2>9. roots \in Seq(1 .. Len(ds) \cup {Nil})
    BY <2>4
  <2>10. Marking(ds)'
    BY <2>2, <2>3, <2>5, <2>6, <2>7, <2>8, <2>9 DEF Marking
  <2>11. Kept
    <3>1. Reachable \subseteq 1 .. Len(BLOCKS) /\ Len(ds) = Len(BLOCKS)
          /\ \A b \in 1 .. Len(BLOCKS) : ds[b].array = BLOCKS[b].array
      BY <2>3, InvFacts DEF Lowered
    <3> QED
      BY <2>5, <3>1 DEF Kept
  <2>12. IInv'
    BY <2>2, <2>10 DEF IInv
  <2> QED
    BY <2>11, <2>12
<1> QED
  BY <1>1, <1>2

LEMMA MarkStep == ASSUME NEW bs, Marking(bs), mark PROVE Marking(bs)' /\ Kept
<1> DEFINE X == 1 .. Len(bs) \cup {Nil}
           R == ReachIn(bs, Range(ROOTS))
<1>1. /\ Table(bs) /\ Handles = 1 .. Len(bs) /\ Len(bs) \in Nat /\ Nil \notin 1 .. Len(bs)
      /\ Range(ROOTS) \in SUBSET (1 .. Len(bs)) /\ Reachable \subseteq 1 .. Len(bs)
      /\ Marked \subseteq 1 .. Len(bs)
  BY MarkingFacts
<1>2. /\ calls \in Seq(X) /\ calls # <<>> /\ ROOTS' = ROOTS /\ LEN_HEAP' = LEN_HEAP
  BY DEF Marking, mark
<1>3. PICK c \in X, rest \in Seq(X) :
        c = Head(calls) /\ rest = Tail(calls) /\ Range(calls) = {c} \cup Range(rest)
  <2>1. Head(calls) \in X /\ Tail(calls) \in Seq(X) /\ Range(calls) = {Head(calls)} \cup Range(Tail(calls))
    <3> HIDE DEF X
    <3> QED
      BY <1>2, RangeTail
  <2> HIDE DEF X
  <2> QED
    BY <2>1
<1>4. CASE c = Nil \/ BLOCKS[c].alive
  <2>1. BLOCKS' = BLOCKS /\ calls' = rest
    BY <1>3, <1>4 DEF mark
  <2>2. Marked' = Marked
    BY <2>1 DEF Marked, Handles
  <2>3. c = Nil \/ c \in Marked
    BY <1>1, <1>4 DEF Marked
  <2>4. Marked \cup Range(rest) \subseteq R \cup {Nil} /\ Range(ROOTS) \subseteq Marked \cup Range(rest)
    BY <1>1, <1>3, <2>3 DEF Marking
  <2>5. \A b \in Marked : Children(bs[b]) \subseteq Marked \cup Range(rest)
    BY <1>1, <1>3, <2>3 DEF Marking, Children
  <2>6. Marking(bs)'
    BY <1>2, <1>3, <2>1, <2>2, <2>4, <2>5 DEF Marking
  <2> QED
    BY <2>1, <2>6 DEF Kept
<1>5. CASE c # Nil /\ ~BLOCKS[c].alive
  <2>1. /\ c \in 1 .. Len(bs) /\ BLOCKS' = [BLOCKS EXCEPT ![c].alive = TRUE]
        /\ calls' = Slots(BLOCKS[c]) \o rest
    BY <1>3, <1>5 DEF mark
  <2>2. /\ BLOCKS \in Seq(Record) /\ Len(BLOCKS) = Len(bs) /\ DOMAIN BLOCKS = 1 .. Len(bs)
        /\ \A b \in 1 .. Len(bs) :
             /\ BLOCKS[b] \in Record
             /\ BLOCKS[b].array = bs[b].array /\ BLOCKS[b].len = bs[b].len
             /\ BLOCKS[b].child = bs[b].child /\ BLOCKS[b].parents = bs[b].parents
    BY <1>1, ElementOfSeq DEF Marking, Handles
  <2>3. PICK x \in Record : /\ x = [BLOCKS[c] EXCEPT !.alive = TRUE] /\ x.alive
                            /\ x.array = bs[c].array /\ x.len = bs[c].len
                            /\ x.child = bs[c].child /\ x.parents = bs[c].parents
    <3>1. BLOCKS[c] \in Record
      BY <2>1, <2>2
    <3>2. [BLOCKS[c] EXCEPT !.alive = TRUE] \in Record
      BY <3>1 DEF Record
    <3> QED
      BY <2>1, <2>2, <3>1, <3>2 DEF Record
  <2>4. /\ BLOCKS' \in Seq(Record) /\ Len(BLOCKS') = Len(bs) /\ DOMAIN BLOCKS' = 1 .. Len(bs)
        /\ \A b \in 1 .. Len(bs) : BLOCKS'[b] = IF b = c THEN x ELSE BLOCKS[b]
    <3>1. BLOCKS' = [BLOCKS EXCEPT ![c] = x] /\ c \in 1 .. Len(BLOCKS) /\ x \in Record
          /\ BLOCKS \in Seq(Record)
      BY <2>1, <2>2, <2>3
    <3>2. /\ BLOCKS' \in Seq(Record) /\ Len(BLOCKS') = Len(BLOCKS)
          /\ \A b \in 1 .. Len(BLOCKS) : BLOCKS'[b] = IF b = c THEN x ELSE BLOCKS[b]
      <4> HIDE DEF Record
      <4> QED
        BY <3>1, ExceptSeq
    <3>3. DOMAIN BLOCKS' = 1 .. Len(BLOCKS')
      BY <3>2, LenProperties
    <3> QED
      BY <2>2, <3>2, <3>3
  <2>5. Marked' = Marked \cup {c}
    BY <1>1, <2>1, <2>2, <2>3, <2>4 DEF Marked, Handles
  <2>6. /\ Slots(BLOCKS[c]) \in Seq(X) /\ Children(bs[c]) = Range(Slots(BLOCKS[c])) \ {Nil}
    <3>1. Slots(BLOCKS[c]) = Slots(bs[c])
      BY <2>1, <2>2 DEF Slots
    <3> QED
      BY <1>1, <2>1, <3>1, SlotsAreChildren
  <2>7. calls' \in Seq(X) /\ Range(calls') = Range(Slots(BLOCKS[c])) \cup Range(rest)
    <3>1. PICK s \in Seq(X) : s = Slots(BLOCKS[c])
      BY <2>6
    <3>2. calls' = s \o rest /\ rest \in Seq(X)
      BY <1>3, <2>1, <3>1
    <3>3. calls' \in Seq(X) /\ Range(calls') = Range(s) \cup Range(rest)
      <4> HIDE DEF X
      <4> QED
        BY <3>2, RangeConcat
    <3> QED
      BY <3>1, <3>3
  <2>8. c \in R /\ Children(bs[c]) \subseteq R
    <3>1. c \in R
      BY <1>1, <1>3, <2>1 DEF Marking
    <3>2. Closed(bs, R)
      BY <1>1, ReachIsLeast
    <3> QED
      BY <3>1, <3>2 DEF Closed
  <2>9. Marked' \cup Range(calls') \subseteq R \cup {Nil}
    <3>1. Marked \cup Range(calls) \subseteq R \cup {Nil}
      BY DEF Marking
    <3> QED
      BY <1>3, <2>5, <2>6, <2>7, <2>8, <3>1
  <2>10. Range(ROOTS) \subseteq Marked' \cup Range(calls')
    BY <1>3, <2>5, <2>7 DEF Marking
  <2>11. \A b \in Marked' : Children(bs[b]) \subseteq Marked' \cup Range(calls')
    <3>1. \A b \in Marked : Children(bs[b]) \subseteq Marked \cup Range(calls)
      BY DEF Marking
    <3> QED
      BY <1>3, <2>5, <2>6, <2>7, <3>1
  <2>12. \A b \in 1 .. Len(bs) :
           /\ BLOCKS'[b].array = bs[b].array /\ BLOCKS'[b].len = bs[b].len
           /\ BLOCKS'[b].child = bs[b].child /\ BLOCKS'[b].parents = bs[b].parents
    BY <2>2, <2>3, <2>4
  <2>13. Good(bs, LEN_HEAP, ROOTS)
    BY DEF Marking
  <2>14. Marking(bs)'
    BY <1>2, <2>4, <2>7, <2>9, <2>10, <2>11, <2>12, <2>13 DEF Marking
  <2>15. Kept
    BY <1>1, <2>2, <2>12 DEF Kept
  <2> QED
    BY <2>14, <2>15
<1> QED
  BY <1>4, <1>5

\* When no call of mark is left, what is marked is what the roots reach.
LEMMA SweepStep == ASSUME NEW bs, Marking(bs), sweep PROVE Sound' /\ Kept /\ Reclaimed
<1> DEFINE R == ReachIn(bs, Range(ROOTS))
<1>1. /\ Table(bs) /\ Handles = 1 .. Len(bs) /\ Len(bs) \in Nat /\ Nil \notin 1 .. Len(bs)
      /\ Range(ROOTS) \in SUBSET (1 .. Len(bs)) /\ Reachable \subseteq 1 .. Len(bs)
      /\ Marked \subseteq 1 .. Len(bs)
  BY MarkingFacts
<1>2. Good(bs, LEN_HEAP, ROOTS) /\ BLOCKS \in Seq(Record) /\ Len(BLOCKS) = Len(bs)
  BY DEF Marking
<1>3. Marked = R
  <2>1. Range(calls) = {}
    BY DEF sweep, Range
  <2>2. Marked \subseteq R /\ Range(ROOTS) \subseteq Marked /\ Closed(bs, Marked)
    BY <1>1, <2>1 DEF Marking, Closed
  <2> QED
    BY <1>1, <2>2, ReachIsLeast
<1>4. ASSUME NEW b \in 1 .. Len(bs)
      PROVE  /\ BLOCKS'[b] \in Record
             /\ BLOCKS'[b].array = bs[b].array /\ BLOCKS'[b].len = bs[b].len
             /\ BLOCKS'[b].child = bs[b].child
             /\ b \in R => BLOCKS'[b].alive
             /\ BLOCKS'[b].parents = IF b \in R THEN bs[b].parents ELSE 0
  <2>1. /\ BLOCKS[b] \in Record
        /\ BLOCKS[b].array = bs[b].array /\ BLOCKS[b].len = bs[b].len
        /\ BLOCKS[b].child = bs[b].child /\ BLOCKS[b].parents = bs[b].parents
    BY <1>2, ElementOfSeq DEF Marking
  <2>2. BLOCKS[b].alive <=> b \in R
    BY <1>1, <1>3 DEF Marked
  <2>3. CASE BLOCKS[b].alive
    <3>1. BLOCKS'[b] = BLOCKS[b]
      BY <1>1, <2>3 DEF sweep
    <3> QED
      BY <2>1, <2>2, <2>3, <3>1
  <2>4. CASE ~BLOCKS[b].alive
    <3>1. BLOCKS'[b] = [BLOCKS[b] EXCEPT !.parents = 0]
      BY <1>1, <2>4 DEF sweep
    <3>2. /\ BLOCKS'[b] \in Record /\ BLOCKS'[b].parents = 0
          /\ BLOCKS'[b].array = BLOCKS[b].array /\ BLOCKS'[b].len = BLOCKS[b].len
          /\ BLOCKS'[b].child = BLOCKS[b].child
      BY <2>1, <3>1 DEF Record
    <3> QED
      BY <2>1, <2>2, <2>4, <3>2
  <2> QED
    BY <2>3, <2>4
<1>5. BLOCKS' \in Seq(Record) /\ Len(BLOCKS') = Len(bs) /\ LEN_HEAP' = LEN_HEAP /\ ROOTS' = ROOTS
  <2>1. BLOCKS' \in [1 .. Len(bs) -> Record]
    BY <1>1, <1>4 DEF sweep
  <2>2. BLOCKS' \in Seq(Record) /\ Len(BLOCKS') = Len(bs)
    <3> HIDE DEF R
    <3> QED
      BY <1>1, <2>1, FunctionIsSeq
  <2>3. LEN_HEAP' = LEN_HEAP /\ ROOTS' = ROOTS
    BY DEF sweep
  <2> QED
    BY <2>2, <2>3
<1>6. IsSwept(bs, R, BLOCKS')
  <2> HIDE DEF R
  <2> QED
    BY <1>4, <1>5 DEF IsSwept
<1>7. Good(BLOCKS', LEN_HEAP, ROOTS) /\ R \subseteq ReachIn(BLOCKS', Range(ROOTS))
  BY <1>2, <1>6, SweepGood
<1>8. Sound'
  BY <1>5, <1>7 DEF Sound
<1>9. Kept
  <2>1. \A b \in 1 .. Len(bs) : BLOCKS[b].array = bs[b].array
    BY DEF Marking
  <2> QED
    BY <1>1, <1>4, <2>1 DEF Kept
<1>10. Reclaimed
  <2> SUFFICES ASSUME NEW b \in Handles
               PROVE  Reusable(BLOCKS'[b], BLOCKS'[b].cap) <=> b \notin Reachable'
    BY DEF Reclaimed
  <2>1. Reachable' = ReachIn(BLOCKS', Range(ROOTS))
    BY <1>5 DEF Reachable
  <2>2. /\ Table(BLOCKS') /\ ROOTS \in Seq(1 .. Len(BLOCKS')) /\ Covered(BLOCKS', ROOTS, <<>>)
    BY <1>7 DEF Good
  <2>3. b \in 1 .. Len(BLOCKS') /\ BLOCKS'[b].cap \in Nat /\ BLOCKS'[b].parents \in Nat
    BY <1>1, <1>4, <1>5 DEF Record
  <2>4. CASE b \in Reachable'
    <3>1. BLOCKS'[b].parents > 0
      BY <2>1, <2>2, <2>4, ReachableHasParents
    <3>2. BLOCKS'[b].alive
      BY <2>2, <2>3, <3>1 DEF Table
    <3> QED
      BY <2>3, <2>4, <3>1, <3>2 DEF Reusable
  <2>5. CASE b \notin Reachable'
    <3>1. BLOCKS'[b].parents = 0
      BY <1>1, <1>4, <1>7, <2>1, <2>5
    <3> QED
      BY <2>3, <2>5, <3>1 DEF Reusable
  <2> QED
    BY <2>4, <2>5
<1> QED
  BY <1>8, <1>9, <1>10

-----------------------------------------------------------------------------
(* All steps.                                                              *)

LEMMA NextStep == ASSUME IInv, [Next]_vars PROVE IInv' /\ Kept /\ Reclaimed
<1>1. ASSUME pc = "client", pc' = "client", Sound' /\ Kept PROVE IInv' /\ Kept /\ Reclaimed
  BY <1>1 DEF IInv, Reclaimed
<1>2. CASE pop_root
  <2>1. pc = "client" /\ Sound
    BY <1>2 DEF pop_root, Idle, IInv
  <2> QED
    BY <1>2, <2>1, PopStep DEF Reclaimed
<1>3. CASE mark
  <2>1. pc = "mark" /\ pc' = "mark"
    BY <1>3 DEF mark
  <2>2. PICK bs : Marking(bs)
    BY <2>1 DEF IInv
  <2>3. Marking(bs)' /\ Kept
    BY <1>3, <2>2, MarkStep
  <2> QED
    BY <2>1, <2>3 DEF IInv, Reclaimed
<1>4. CASE sweep
  <2>1. pc = "mark" /\ pc' = "client"
    BY <1>4 DEF sweep
  <2>2. PICK bs : Marking(bs)
    BY <2>1 DEF IInv
  <2>3. Sound' /\ Kept /\ Reclaimed
    BY <1>4, <2>2, SweepStep
  <2> QED
    BY <2>1, <2>3 DEF IInv
<1>5. ASSUME NEW len \in Lens, alloc_root(len) PROVE IInv' /\ Kept /\ Reclaimed
  <2>1. pc = "client" /\ pc' = "client"
    BY <1>5 DEF alloc_root, Idle, Exit
  <2> QED
    BY <1>1, <1>5, <2>1, AllocRootStep DEF IInv
<1>6. ASSUME NEW parent \in Handles, NEW i \in 0 .. BITS, remove_child_at(parent, i)
      PROVE  IInv' /\ Kept /\ Reclaimed
  <2>1. pc = "client" /\ pc' = "client"
    BY <1>6 DEF remove_child_at, Idle, Exit
  <2> QED
    BY <1>1, <1>6, <2>1, RemoveStep DEF IInv
<1>7. ASSUME NEW parent \in Handles, NEW i \in 0 .. BITS, NEW c \in Handles,
             insert_child_at(parent, c, i)
      PROVE  IInv' /\ Kept /\ Reclaimed
  <2>1. pc = "client" /\ pc' = "client"
    BY <1>7 DEF insert_child_at, Idle, Exit
  <2> QED
    BY <1>1, <1>7, <2>1, InsertStep DEF IInv
<1>8. ASSUME NEW parent \in Handles, NEW i \in 0 .. BITS, NEW len \in Lens,
             insert_new_child_at(parent, len, i)
      PROVE  IInv' /\ Kept /\ Reclaimed
  <2>1. pc = "client" /\ pc' = "client"
    BY <1>8 DEF insert_new_child_at, Idle, Exit
  <2> QED
    BY <1>1, <1>8, <2>1, InsertNewStep DEF IInv
<1>9. CASE UNCHANGED vars
  <2>1. BLOCKS' = BLOCKS /\ LEN_HEAP' = LEN_HEAP /\ ROOTS' = ROOTS /\ pc' = pc /\ calls' = calls
    BY <1>9 DEF vars
  <2>2. IInv' /\ Kept
    <3>1. Sound' = Sound /\ Marked' = Marked
      BY <2>1 DEF Sound, Marked, Handles
    <3>2. \A bs : Marking(bs)' = Marking(bs)
      BY <2>1, <3>1 DEF Marking
    <3> QED
      BY <2>1, <3>1, <3>2 DEF IInv, Kept
  <2> QED
    BY <2>1, <2>2 DEF Reclaimed
<1> QED
  BY <1>2, <1>3, <1>4, <1>5, <1>6, <1>7, <1>8, <1>9 DEF Next

LEMMA InitGood == Init => IInv
<1> SUFFICES ASSUME Init PROVE IInv
  OBVIOUS
<1>1. BLOCKS = <<>> /\ LEN_HEAP = 0 /\ ROOTS = <<>> /\ pc = "client"
  BY DEF Init
<1>2. Table(<<>>) /\ Len(<<>>) = 0 /\ 1 .. 0 = {}
  BY CapAssumption DEF Table
<1>3. Covered(<<>>, <<>>, <<>>) /\ Layout(<<>>, 0)
  BY <1>2 DEF Covered, Layout
<1>4. Owners(<<>>, 0, <<>>, [w \in 0 .. 0 - 1 |-> Nil])
  BY <1>2 DEF Owners
<1>5. <<>> \in Seq(1 .. 0) /\ 0 < CAP_HEAP
  BY CapAssumption
<1> QED
  BY <1>1, <1>2, <1>3, <1>4, <1>5 DEF IInv, Sound, Good

\* IInv is an invariant.
THEOREM Invariant == Spec => []IInv
<1>1. Init => IInv
  BY InitGood
<1>2. IInv /\ [Next]_vars => IInv'
  BY NextStep
<1> QED
  BY <1>1, <1>2, PTL DEF Spec

-----------------------------------------------------------------------------
(* The properties.                                                         *)

LEMMA CoverFromInv == IInv => CountsCover
<1> SUFFICES ASSUME Sound, NEW b \in Reachable
             PROVE  /\ BLOCKS[b].alive
                    /\ References(b) <= BLOCKS[b].parents
                    /\ BLOCKS[b].parents <= LEN_HEAP - BLOCKS[b].len + 1
  BY DEF CountsCover, IInv
<1>1. /\ Table(BLOCKS) /\ LEN_HEAP \in Nat /\ ROOTS \in Seq(1 .. Len(BLOCKS))
      /\ Covered(BLOCKS, ROOTS, <<>>)
      /\ Reachable \subseteq {x \in 1 .. Len(BLOCKS) : BLOCKS[x].parents > 0}
  BY InvFacts
<1>2. b \in 1 .. Len(BLOCKS) /\ BLOCKS[b].parents > 0
  BY <1>1
<1>3. BLOCKS[b].alive
  BY <1>1, <1>2 DEF Table
<1>4. References(b) <= BLOCKS[b].parents
  <2> DEFINE D == {e \in Reachable \X (0 .. BITS - 1) :
                     e[2] \in DOMAIN BLOCKS[e[1]].child /\ BLOCKS[e[1]].child[e[2]] = b}
  <2>1. D \in SUBSET SlotsTo(BLOCKS, b)
    <3> SUFFICES ASSUME NEW e \in D PROVE e \in SlotsTo(BLOCKS, b)
      OBVIOUS
    <3>1. PICK p, i : p \in Reachable /\ e = <<p, i>> /\ i \in DOMAIN BLOCKS[p].child /\ BLOCKS[p].child[i] = b
      OBVIOUS
    <3>2. p \in 1 .. Len(BLOCKS) /\ BLOCKS[p].parents > 0
      BY <1>1, <3>1
    <3>3. i \in 0 .. CAP_HEAP /\ i < BLOCKS[p].len
      <4>1. /\ DOMAIN BLOCKS[p].child = 0 .. BLOCKS[p].len - 1
            /\ BLOCKS[p].len \in Nat /\ BLOCKS[p].len < CAP_HEAP /\ CAP_HEAP \in Nat
        BY <1>1, <3>2, BlockTypes
      <4> QED
        BY <3>1, <4>1
    <3> QED
      BY <3>1, <3>2, <3>3 DEF SlotsTo
  <2>2. IsFiniteSet(SlotsTo(BLOCKS, b)) /\ Cardinality(SlotsTo(BLOCKS, b)) \in Nat
    BY <1>1, SlotsFinite
  <2>3. Cardinality(D) \in Nat /\ Cardinality(D) <= Cardinality(SlotsTo(BLOCKS, b))
    <3> HIDE DEF D
    <3>1. IsFiniteSet(D) /\ Cardinality(D) <= Cardinality(SlotsTo(BLOCKS, b))
      BY <2>1, <2>2, FS_Subset
    <3> QED
      BY <3>1, FS_CardinalityType
  <2>4. References(b) = CountIn(ROOTS, b) + Cardinality(D)
    BY DEF References, CountIn
  <2>5. Cardinality(SlotsTo(BLOCKS, b)) + CountIn(ROOTS, b) + CountIn(<<>>, b) <= BLOCKS[b].parents
    BY <1>1, <1>2 DEF Covered
  <2>6. CountIn(<<>>, b) = 0 /\ CountIn(ROOTS, b) \in Nat /\ BLOCKS[b].parents \in Nat
    BY <1>1, <1>2, CountEmpty, CountType, BlockTypes
  <2> HIDE DEF D
  <2> QED
    BY <2>2, <2>3, <2>4, <2>5, <2>6
<1>5. BLOCKS[b].parents <= LEN_HEAP - BLOCKS[b].len + 1
  <2>1. PICK owner : Owners(BLOCKS, LEN_HEAP, ROOTS, owner)
    BY DEF Sound, Good
  <2>2. Layout(BLOCKS, LEN_HEAP) /\ CountIn(ROOTS, b) <= 1
    BY <1>2 DEF Sound, Good
  <2>3. Cardinality(Owned(owner, LEN_HEAP, b)) <= LEN_HEAP - BLOCKS[b].len
    BY <1>1, <1>2, <2>1, <2>2, OwnedBound
  <2>4. BLOCKS[b].parents <= Cardinality(Owned(owner, LEN_HEAP, b)) + CountIn(ROOTS, b)
    BY <1>2, <2>1 DEF Owners
  <2>5. /\ BLOCKS[b].parents \in Nat /\ BLOCKS[b].len \in Nat /\ CountIn(ROOTS, b) \in Nat
        /\ Cardinality(Owned(owner, LEN_HEAP, b)) \in Nat
    BY <1>1, <1>2, BlockTypes, CountType, OwnedFinite
  <2> QED
    BY <1>1, <2>2, <2>3, <2>4, <2>5
<1> QED
  BY <1>3, <1>4, <1>5

\* Between calls a block the client can reach is alive and counts at least its references, and
\* its count is at most that of the words of the other arrays and a root, so that
\* it never wraps (free_block, alloc_block and insert_child_at).
THEOREM CountsAreCovered == Spec => []CountsCover
BY Invariant, CoverFromInv, PTL

\* alloc_block never hands out a block that the client can reach (line 86).
THEOREM LiveIsNeverReused == Spec => NeverReused
<1>1. IInv /\ [Next]_vars => [Kept]_vars
  BY NextStep
<1> QED
  BY <1>1, Invariant, PTL DEF Spec, NeverReused, Kept

\* When pop_root returns, the blocks that alloc_block may hand out again are those
\* that the roots do not reach: marking them one by one, and turning back at each that
\* is alive, marks exactly what is reached (lines 124-151).
THEOREM CyclesAreReclaimed == Spec => CyclesReclaimed
<1>1. IInv /\ [Next]_vars => [Reclaimed]_vars
  BY NextStep
<1> QED
  BY <1>1, Invariant, PTL DEF Spec, CyclesReclaimed, Reclaimed
=============================================================================

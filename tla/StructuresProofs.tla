--------------------------- MODULE StructuresProofs ---------------------------
(***************************************************************************)
(* Proofs about the small programs of Structures, for every value of the   *)
(* constants: what BFSProofs proves of the searches of BFS in the variables*)
(* of Structures, the lines of Lines, the list of Fifo, the scopes of      *)
(* Runtime, the heap of BinaryHeap, and the sorts and the search of        *)
(* Sorting.                                                                *)
(***************************************************************************)
EXTENDS Structures, NumberLemmas, FiniteSetTheorems, SequenceTheorems, TLAPS

Search == INSTANCE BFSProofs WITH pc <- bfs_pc, i <- at

\* The behaviours of the two instances of BFS are the same.
LEMMA SameSearch == BFS!Spec => Search!Spec
<1>1. BFS!Init => Search!Init
  BY DEF BFS!Init, Search!Init, BFS!Cells, Search!Cells
<1>2. BFS!Next => Search!Next
  BY DEF BFS!Next, BFS!bfs, BFS!Take, BFS!NotFound, BFS!bfs_push, BFS!Walk, BFS!map, BFS!queue,
         BFS!Fresh, BFS!Cells, BFS!Beside, BFS!reverse_vec2u,
         Search!Next, Search!bfs, Search!Take, Search!NotFound, Search!bfs_push, Search!Walk,
         Search!map, Search!queue, Search!Fresh, Search!Cells, Search!Beside, Search!reverse_vec2u
<1>3. [BFS!Next]_(BFS!vars) => [Search!Next]_(Search!vars)
  BY <1>2 DEF BFS!vars, Search!vars
<1> QED
  BY <1>1, <1>3, PTL DEF BFS!Spec, Search!Spec

\* bfs returns a shortest path on every map, and 0 only if there is no path at all
\* (lines 67-104).
THEOREM SearchIsShortest == BFS!Spec => []Shortest
<1>1. Search!Shortest => Shortest
  BY DEF Shortest, BFS!Shortest, BFS!Within, BFS!Onward, BFS!Adjacent, BFS!Cells, BFS!Beside,
         Search!Shortest, Search!Within, Search!Onward, Search!Adjacent, Search!Cells, Search!Beside
<1>2. Search!Spec => []Search!Shortest
  BY Search!PathIsShortest, SizeAssumption, ClientAssumption DEF Cells, Search!Cells
<1> QED
  BY <1>1, <1>2, SameSearch, PTL

\* Neither the queue nor the path of bfs outgrows its array, on any map (lines 47 and
\* 80).
THEOREM SearchStaysWithin == BFS!Spec => []WithinArrays
<1>1. Search!WithinArrays => WithinArrays
  BY DEF WithinArrays, BFS!WithinArrays, Search!WithinArrays
<1>2. Search!Spec => []Search!WithinArrays
  BY Search!ArraysSuffice, SizeAssumption, ClientAssumption DEF Cells, Search!Cells
<1> QED
  BY <1>1, <1>2, SameSearch, PTL

-----------------------------------------------------------------------------
(* Lines.  A line is steep or flat; seen in the direction in which it is     *)
(* longer, both kinds behave alike: a step is taken in that direction every  *)
(* time, and one aside when the error asks for it.                           *)

Steep == Lines!x_delta <= Lines!y_delta
Long == IF Steep THEN Lines!y_delta ELSE Lines!x_delta
Short == IF Steep THEN Lines!x_delta ELSE Lines!y_delta

\* How far the pixel is from the start of the line.
Across == IF from[1] < to[1] THEN x0 - from[1] ELSE from[1] - x0
Along == IF from[2] < to[2] THEN y0 - from[2] ELSE from[2] - y0
Gone == IF Steep THEN Along ELSE Across
Aside == IF Steep THEN Across ELSE Along
Fault == IF Steep THEN -error_a ELSE error_a

Reach(p) == Lines!Abs(IF Steep THEN p[2] - from[2] ELSE p[1] - from[1])

\* The error is that of the ideal line, and less than a step.
OnLine ==
  /\ Gone \in 0 .. Long /\ Aside \in 0 .. Short
  /\ Fault = Long \div 2 - Gone * Short + Aside * Long
  /\ IF Long = 0 THEN Fault = 0 ELSE Fault \in 0 .. Long - 1

\* The pixels that are set are those passed, one in each place along the line.
Behind ==
  /\ IsFiniteSet(mask)
  /\ line_pc = "loop" => Cardinality(mask) = Gone /\ \A p \in mask : Reach(p) \in 0 .. Gone - 1
  /\ line_pc = "return" => <<x0, y0>> = to /\ to \in mask /\ Cardinality(mask) = Gone + 1

LineInv ==
  /\ line_pc \in {"call", "loop", "return"}
  /\ line_pc = "call" => mask = {}
  /\ line_pc # "call" =>
       /\ from \in Lines!Pixels /\ to \in Lines!Pixels
       /\ x0 \in Int /\ y0 \in Int /\ error_a \in Int
       /\ OnLine /\ Behind

\* Products of numbers keep their order.
LEMMA Products ==
  \A a, b \in Int, c \in Nat : (a <= b => a * c <= b * c) /\ (c # 0 /\ a * c < b * c => a < b)
<1>1. ASSUME NEW a \in Int, NEW b \in Int, NEW c \in Nat, a <= b PROVE a * c <= b * c
  <2>1. PICK d \in Nat : d = b - a
    BY <1>1
  <2>2. d * c >= 0
    OBVIOUS
  <2>3. b * c = a * c + d * c
    BY <2>1
  <2> QED
    BY <2>2, <2>3
<1> QED
  BY <1>1

\* One step, in either kind of line.
LEMMA LongStep ==
  ASSUME NEW l \in Nat \ {0}, NEW s \in 0 .. l, NEW gone \in 0 .. l, NEW aside \in 0 .. s,
         NEW e0 \in 0 .. l - 1, NEW e \in 0 .. l - 1, e = e0 - gone * s + aside * l,
         NEW next, next = IF e < s THEN aside + 1 ELSE aside,
         NEW error, error = IF e < s THEN e - s + l ELSE e - s
  PROVE  /\ gone = l => aside = s
         /\ gone # l => /\ gone + 1 \in 0 .. l /\ next \in 0 .. s /\ error \in 0 .. l - 1
                        /\ error = e0 - (gone + 1) * s + next * l
<1>1. /\ l * s \in Nat /\ s * l \in Nat /\ gone * s \in Nat /\ aside * l \in Nat
      /\ l * s = s * l
  OBVIOUS
<1>2. ASSUME gone = l PROVE aside = s
  <2>1. aside * l < s * l + l /\ s * l < aside * l + l
    BY <1>1, <1>2
  <2>2. (s + 1) * l = s * l + l /\ (aside + 1) * l = aside * l + l
    OBVIOUS
  <2>3. aside < s + 1 /\ s < aside + 1
    BY <2>1, <2>2, Products
  <2> QED
    BY <2>3
<1>3. ASSUME gone # l
      PROVE  /\ gone + 1 \in 0 .. l /\ next \in 0 .. s /\ error \in 0 .. l - 1
             /\ error = e0 - (gone + 1) * s + next * l
  <2>1. gone + 1 \in 0 .. l /\ next \in Nat /\ error \in 0 .. l - 1
    BY <1>3
  <2>2. (gone + 1) * s = gone * s + s /\ (aside + 1) * l = aside * l + l
    OBVIOUS
  <2>3. error = e0 - (gone + 1) * s + next * l
    BY <1>1, <2>2
  <2>4. (gone + 1) * s <= l * s
    BY <2>1, Products
  <2>5. (s + 1) * l = s * l + l /\ next * l \in Nat /\ (gone + 1) * s \in Nat
    BY <2>1
  <2>6. next * l < (s + 1) * l
    BY <1>1, <2>1, <2>3, <2>4, <2>5
  <2>7. next < s + 1
    BY <2>1, <2>6, Products
  <2> QED
    BY <2>1, <2>3, <2>7
<1> QED
  BY <1>2, <1>3

\* Both directions of a line have their sizes.
Sizes ==
  /\ from[1] \in 0 .. WIDTH - 1 /\ from[2] \in 0 .. HEIGHT - 1
  /\ to[1] \in 0 .. WIDTH - 1 /\ to[2] \in 0 .. HEIGHT - 1
  /\ to = <<to[1], to[2]>>
  /\ Lines!x_delta \in Nat /\ Lines!y_delta \in Nat
  /\ Lines!x_delta = IF from[1] < to[1] THEN to[1] - from[1] ELSE from[1] - to[1]
  /\ Lines!y_delta = IF from[2] < to[2] THEN to[2] - from[2] ELSE from[2] - to[2]
  /\ Long \in Nat /\ Short \in 0 .. Long

LEMMA LineSizes == from \in Lines!Pixels /\ to \in Lines!Pixels => Sizes
<1> SUFFICES ASSUME from \in Lines!Pixels, to \in Lines!Pixels PROVE Sizes
  OBVIOUS
<1>1. /\ from[1] \in 0 .. WIDTH - 1 /\ from[2] \in 0 .. HEIGHT - 1
      /\ to[1] \in 0 .. WIDTH - 1 /\ to[2] \in 0 .. HEIGHT - 1
      /\ to = <<to[1], to[2]>>
  BY DEF Lines!Pixels
<1>2. /\ Lines!x_delta = IF from[1] < to[1] THEN to[1] - from[1] ELSE from[1] - to[1]
      /\ Lines!y_delta = IF from[2] < to[2] THEN to[2] - from[2] ELSE from[2] - to[2]
  BY <1>1, MaskAssumption DEF Lines!x_delta, Lines!y_delta, Lines!Abs
<1>3. Lines!x_delta \in Nat /\ Lines!y_delta \in Nat
  BY <1>1, <1>2, MaskAssumption
<1>4. Long \in Nat /\ Short \in 0 .. Long
  BY <1>3 DEF Long, Short, Steep
<1> QED
  BY <1>1, <1>2, <1>3, <1>4 DEF Sizes

\* Where the pixel is, from how far it has come.
LEMMA LinePlace ==
  ASSUME from \in Lines!Pixels, to \in Lines!Pixels, x0 \in Int, y0 \in Int, OnLine
  PROVE  /\ Across \in 0 .. Lines!x_delta /\ Along \in 0 .. Lines!y_delta
         /\ x0 = from[1] + Lines!x_sign * Across /\ y0 = from[2] + Lines!y_sign * Along
         /\ <<x0, y0>> \in Lines!Pixels
         /\ Reach(<<x0, y0>>) = Gone
         /\ <<x0, y0>> = to <=> Gone = Long /\ Aside = Short
<1>1. /\ from[1] \in 0 .. WIDTH - 1 /\ from[2] \in 0 .. HEIGHT - 1
      /\ to[1] \in 0 .. WIDTH - 1 /\ to[2] \in 0 .. HEIGHT - 1
      /\ to = <<to[1], to[2]>>
      /\ Lines!x_delta \in Nat /\ Lines!y_delta \in Nat
      /\ Lines!x_delta = IF from[1] < to[1] THEN to[1] - from[1] ELSE from[1] - to[1]
      /\ Lines!y_delta = IF from[2] < to[2] THEN to[2] - from[2] ELSE from[2] - to[2]
  BY LineSizes DEF Sizes
<1>2. Across \in 0 .. Lines!x_delta /\ Along \in 0 .. Lines!y_delta
  BY DEF OnLine, Gone, Aside, Long, Short
<1>3. x0 \in 0 .. WIDTH - 1 /\ y0 \in 0 .. HEIGHT - 1
  BY <1>1, <1>2, MaskAssumption DEF Across, Along
<1>4. x0 = from[1] + Lines!x_sign * Across
  BY <1>1, <1>3, MaskAssumption DEF Lines!x_sign, Across
<1>5. y0 = from[2] + Lines!y_sign * Along
  BY <1>1, <1>3, MaskAssumption DEF Lines!y_sign, Along
<1>6. <<x0, y0>> \in Lines!Pixels
  BY <1>3 DEF Lines!Pixels
<1>7. Reach(<<x0, y0>>) = Gone
  BY <1>1, <1>2, <1>3, MaskAssumption DEF Reach, Gone, Across, Along, Lines!Abs
<1>8. <<x0, y0>> = to <=> x0 = to[1] /\ y0 = to[2]
  BY <1>1
<1>9. (x0 = to[1] <=> Across = Lines!x_delta) /\ (y0 = to[2] <=> Along = Lines!y_delta)
  BY <1>1, <1>2, <1>3, MaskAssumption DEF Across, Along
<1>10. <<x0, y0>> = to <=> Gone = Long /\ Aside = Short
  BY <1>8, <1>9 DEF Gone, Aside, Long, Short
<1> QED
  BY <1>2, <1>4, <1>5, <1>6, <1>7, <1>10

LEMMA LineInit == Lines!Init => LineInv
BY DEF Lines!Init, LineInv

LEMMA LineStarts == ASSUME LineInv, Lines!set_line PROVE LineInv'
<1>1. /\ line_pc' = "loop" /\ mask' = {} /\ from' \in Lines!Pixels /\ to' \in Lines!Pixels
      /\ x0' = from'[1] /\ y0' = from'[2]
      /\ error_a' = IF Lines!y_delta' < Lines!x_delta' THEN Lines!x_delta' \div 2
                    ELSE -(Lines!y_delta' \div 2)
  BY DEF LineInv, Lines!set_line
<1>2. /\ from'[1] \in Int /\ from'[2] \in Int /\ Lines!x_delta' \in Nat /\ Lines!y_delta' \in Nat
      /\ Long' \in Nat /\ Short' \in 0 .. Long'
  <2>1. (from \in Lines!Pixels /\ to \in Lines!Pixels => Sizes)'
    BY LineSizes, PTL
  <2> QED
    BY <1>1, <2>1, MaskAssumption DEF Sizes
<1>3. Across' = 0 /\ Along' = 0 /\ Gone' = 0 /\ Aside' = 0
  BY <1>1, <1>2 DEF Across, Along, Gone, Aside
<1>4. Fault' = Long' \div 2 /\ error_a' \in Int
  BY <1>1, <1>2 DEF Fault, Long, Steep
<1>5. OnLine'
  <2>1. PICK l, s : l = Long' /\ s = Short'
    OBVIOUS
  <2>2. l \in Nat /\ s \in 0 .. l
    BY <1>2, <2>1
  <2>3. 0 \in 0 .. l /\ 0 \in 0 .. s /\ l \div 2 = l \div 2 - 0 * s + 0 * l
    BY <2>2
  <2>4. IF l = 0 THEN l \div 2 = 0 ELSE l \div 2 \in 0 .. l - 1
    BY <2>2
  <2> QED
    BY <1>3, <1>4, <2>1, <2>3, <2>4 DEF OnLine
<1>6. IsFiniteSet(mask') /\ Cardinality(mask') = 0
  BY <1>1, FS_EmptySet
<1>7. Behind'
  BY <1>1, <1>3, <1>6 DEF Behind
<1> QED
  BY <1>1, <1>2, <1>4, <1>5, <1>7 DEF LineInv

LEMMA LineStep == ASSUME LineInv, Lines!Draw PROVE LineInv'
<1>1. /\ line_pc = "loop" /\ mask' = mask \cup {<<x0, y0>>} /\ UNCHANGED <<from, to>>
      /\ from \in Lines!Pixels /\ to \in Lines!Pixels
      /\ x0 \in Int /\ y0 \in Int /\ error_a \in Int
      /\ OnLine /\ IsFiniteSet(mask) /\ Cardinality(mask) = Gone /\ \A p \in mask : Reach(p) \in 0 .. Gone - 1
  BY DEF LineInv, Behind, Lines!Draw
<1>2. /\ Lines!x_delta \in Nat /\ Lines!y_delta \in Nat /\ Long \in Nat /\ Short \in 0 .. Long
      /\ Lines!x_delta = IF from[1] < to[1] THEN to[1] - from[1] ELSE from[1] - to[1]
      /\ Lines!y_delta = IF from[2] < to[2] THEN to[2] - from[2] ELSE from[2] - to[2]
      /\ from[1] \in Int /\ from[2] \in Int
  BY <1>1, LineSizes, MaskAssumption DEF Sizes
<1>3. /\ Across \in 0 .. Lines!x_delta /\ Along \in 0 .. Lines!y_delta
      /\ Reach(<<x0, y0>>) = Gone
      /\ <<x0, y0>> = to <=> Gone = Long /\ Aside = Short
  BY <1>1, LinePlace
<1>4. /\ Gone \in 0 .. Long /\ Aside \in 0 .. Short
      /\ Fault = Long \div 2 - Gone * Short + Aside * Long
      /\ IF Long = 0 THEN Fault = 0 ELSE Fault \in 0 .. Long - 1
  BY <1>1 DEF OnLine
<1>5. /\ UNCHANGED <<Lines!x_delta, Lines!y_delta, Lines!x_sign, Lines!y_sign, Long, Short, Steep>>
      /\ \A p : Reach(p)' = Reach(p)
  BY <1>1 DEF Lines!x_delta, Lines!y_delta, Lines!x_sign, Lines!y_sign, Long, Short, Steep, Reach
<1>6. IsFiniteSet(mask') /\ Cardinality(mask') = Gone + 1
  <2>1. <<x0, y0>> \notin mask
    BY <1>1, <1>3, <1>4
  <2> QED
    BY <1>1, <2>1, FS_AddElement
<1>7. CASE <<x0, y0>> = to
  <2>1. line_pc' = "return" /\ UNCHANGED <<x0, y0, error_a>>
    BY <1>7 DEF Lines!Draw
  <2>2. UNCHANGED <<Gone, Aside, Fault>>
    BY <1>1, <1>5, <2>1 DEF Gone, Aside, Fault, Across, Along
  <2>3. OnLine'
    BY <1>4, <1>5, <2>2 DEF OnLine
  <2>4. Behind'
    BY <1>1, <1>6, <1>7, <2>1, <2>2 DEF Behind
  <2> QED
    BY <1>1, <2>1, <2>3, <2>4 DEF LineInv
<1>8. CASE <<x0, y0>> # to
  <2>1. line_pc' = "loop" /\ Lines!Step
    BY <1>8 DEF Lines!Draw
  <2>2. Long # 0 /\ Fault \in 0 .. Long - 1
    BY <1>2, <1>3, <1>4, <1>8
  <2>3. /\ x0' \in Int /\ y0' \in Int /\ error_a' \in Int
        /\ Gone' = Gone + 1
        /\ Aside' = IF Fault < Short THEN Aside + 1 ELSE Aside
        /\ Fault' = IF Fault < Short THEN Fault - Short + Long ELSE Fault - Short
    <3>1. CASE Steep
      BY <1>1, <1>2, <1>5, <2>1, <2>2, <3>1
      DEF Lines!Step, Lines!x_sign, Lines!y_sign, Gone, Aside, Fault, Long, Short, Across, Along
    <3>2. CASE ~Steep
      BY <1>1, <1>2, <1>5, <2>1, <2>2, <3>2
      DEF Lines!Step, Lines!x_sign, Lines!y_sign, Gone, Aside, Fault, Long, Short, Across, Along
    <3> QED
      BY <3>1, <3>2
  <2>4. Long \div 2 \in 0 .. Long - 1
    BY <1>2, <2>2
  <2>5. /\ Gone = Long => Aside = Short
        /\ Gone # Long => /\ Gone + 1 \in 0 .. Long /\ Aside' \in 0 .. Short /\ Fault' \in 0 .. Long - 1
                          /\ Fault' = Long \div 2 - (Gone + 1) * Short + Aside' * Long
    BY <1>2, <1>4, <2>2, <2>3, <2>4, LongStep
  <2>6. OnLine'
    BY <1>2, <1>3, <1>5, <1>8, <2>2, <2>3, <2>5 DEF OnLine
  <2>7. Behind'
    <3>1. ASSUME NEW p \in mask' PROVE Reach(p)' \in 0 .. Gone' - 1
      <4>1. PICK x : x = Reach(p)
        OBVIOUS
      <4>2. x \in 0 .. Gone - 1 \/ x = Gone
        BY <1>1, <1>3, <4>1
      <4>3. Gone' = Gone + 1 /\ Gone \in Nat /\ Reach(p)' = x
        BY <1>4, <1>5, <2>3, <4>1
      <4> QED
        BY <4>2, <4>3
    <3> QED
      BY <1>6, <2>1, <2>3, <3>1 DEF Behind
  <2> QED
    BY <1>1, <2>1, <2>3, <2>6, <2>7 DEF LineInv
<1> QED
  BY <1>7, <1>8

\* The line between any two pixels, in a mask of any size, stays within half a pixel
\* of the ideal one, comes to a different pixel every time and ends at its end
\* (lines 111-126).
THEOREM LinesAreDrawn == Lines!Spec => []LineDrawn
<1>1. LineInv /\ [Lines!Next]_(Lines!vars) => LineInv'
  <2> SUFFICES ASSUME LineInv, [Lines!Next]_(Lines!vars) PROVE LineInv'
    OBVIOUS
  <2>1. CASE Lines!Next
    BY <2>1, LineStarts, LineStep DEF Lines!Next
  <2>2. CASE UNCHANGED Lines!vars
    BY <2>2 DEF Lines!vars, LineInv, OnLine, Behind, Gone, Aside, Fault, Across, Along, Long, Short,
                Steep, Reach, Lines!x_delta, Lines!y_delta
  <2> QED
    BY <2>1, <2>2
<1>2. LineInv => LineDrawn
  <2> SUFFICES ASSUME LineInv, line_pc \in {"loop", "return"} PROVE LineDrawn
    BY DEF LineDrawn, Lines!LineDrawn
  <2>1. /\ from \in Lines!Pixels /\ to \in Lines!Pixels
        /\ x0 \in Int /\ y0 \in Int /\ error_a \in Int /\ OnLine /\ Behind
    BY DEF LineInv
  <2>2. Sizes
    BY <2>1, LineSizes
  <2>3. /\ Across \in 0 .. Lines!x_delta /\ Along \in 0 .. Lines!y_delta
        /\ x0 = from[1] + Lines!x_sign * Across /\ y0 = from[2] + Lines!y_sign * Along
        /\ <<x0, y0>> \in Lines!Pixels
        /\ Reach(<<x0, y0>>) = Gone
        /\ <<x0, y0>> = to <=> Gone = Long /\ Aside = Short
    BY <2>1, LinePlace
  <2>4. Long = Lines!Longer /\ Long \in Nat /\ Short \in 0 .. Long /\ Gone \in 0 .. Long
    BY <2>1, <2>2 DEF Long, Steep, Sizes, OnLine, Lines!Longer
  <2>5. 2 * Lines!Abs((x0 - from[1]) * (to[2] - from[2]) - (y0 - from[2]) * (to[1] - from[1])) <= Long
    <3>1. 2 * Lines!Abs(Long \div 2 - Fault) <= Long
      BY <2>1, <2>4 DEF OnLine, Fault, Lines!Abs
    <3> DEFINE p == Across * Lines!y_delta
    <3> DEFINE q == Along * Lines!x_delta
    <3>2. p \in Int /\ q \in Int
      BY <2>2, <2>3 DEF Sizes
    <3>3. Lines!Abs(Long \div 2 - Fault) = Lines!Abs(p - q)
      BY <2>1, <2>2, <2>3, <2>4, <3>2 DEF OnLine, Gone, Aside, Long, Short, Sizes, Lines!Abs
    <3>4. /\ x0 - from[1] = Lines!x_sign * Across /\ y0 - from[2] = Lines!y_sign * Along
          /\ to[1] - from[1] = Lines!x_sign * Lines!x_delta
          /\ to[2] - from[2] = Lines!y_sign * Lines!y_delta
          /\ Lines!x_sign \in {1, -1} /\ Lines!y_sign \in {1, -1}
      BY <2>2, <2>3, MaskAssumption DEF Sizes, Lines!x_sign, Lines!y_sign
    <3> DEFINE r == (x0 - from[1]) * (to[2] - from[2]) - (y0 - from[2]) * (to[1] - from[1])
    <3>5. r = Lines!x_sign * Lines!y_sign * (p - q)
      <4>1. PICK a \in {1, -1}, b \in {1, -1} : a = Lines!x_sign /\ b = Lines!y_sign
        BY <3>4
      <4>2. PICK c, d \in Int : c = Across /\ d = Along
        BY <2>2, <2>3 DEF Sizes
      <4>3. PICK u, v \in Int : u = Lines!x_delta /\ v = Lines!y_delta
        BY <2>2 DEF Sizes
      <4>4. (a * c) * (b * v) - (b * d) * (a * u) = a * b * (c * v - d * u)
        BY <4>1, <4>2, <4>3
      <4> QED
        BY <3>4, <4>1, <4>2, <4>3, <4>4
    <3> HIDE DEF p, q, r
    <3>6. r = p - q \/ r = -(p - q)
      BY <3>2, <3>4, <3>5
    <3>7. Lines!Abs(r) = Lines!Abs(p - q)
      BY <3>2, <3>6 DEF Lines!Abs
    <3> QED
      BY <3>1, <3>3, <3>7 DEF r
  <2>6. line_pc = "loop" => <<x0, y0>> \notin mask /\ Cardinality(mask) <= Long
    BY <2>1, <2>3, <2>4 DEF Behind
  <2>7. line_pc = "return" => <<x0, y0>> = to /\ to \in mask /\ Cardinality(mask) = Long + 1
    BY <2>1, <2>3, <2>4 DEF Behind
  <2> QED
    <3>1. <<x0, y0>> \in Lines!Pixels
      BY <2>3
    <3>2. 2 * Lines!Abs((x0 - from[1]) * (to[2] - from[2]) - (y0 - from[2]) * (to[1] - from[1]))
            <= Lines!Longer
      BY <2>4, <2>5, Zenon
    <3>3. /\ line_pc = "loop" => <<x0, y0>> \notin mask /\ Cardinality(mask) <= Lines!Longer
          /\ line_pc = "return" => /\ <<x0, y0>> = to /\ to \in mask
                                   /\ Cardinality(mask) = Lines!Longer + 1
      BY <2>4, <2>6, <2>7
    <3>4. Lines!Cardinality(mask) = Cardinality(mask)
      BY DEF Lines!Cardinality, Cardinality, Lines!IsFiniteSet, IsFiniteSet
    <3> QED
      BY <3>1, <3>2, <3>3, <3>4, Zenon DEF LineDrawn, Lines!LineDrawn
<1> QED
  BY <1>1, <1>2, LineInit, PTL DEF Lines!Spec
-----------------------------------------------------------------------------
(* Fifo.                                                                     *)

Cell == [value : T, next : Address \cup {NULL}]
PlaceIn(c, k) == IF k \in 1 .. Len(c) THEN c[k] ELSE NULL

\* The nodes h are those of the addresses c, each once, each linked to the one after
\* it; f is the first of them, and l the last unless it is also the first.
Linked(c, h, f, l) ==
  /\ c \in Seq(Address)
  /\ \A k, m \in 1 .. Len(c) : c[k] = c[m] => k = m
  /\ h \in [{c[k] : k \in 1 .. Len(c)} -> Cell]
  /\ \A k \in 1 .. Len(c) : h[c[k]].next = PlaceIn(c, k + 1)
  /\ f = PlaceIn(c, 1)
  /\ l = IF Len(c) < 2 THEN NULL ELSE c[Len(c)]

Items(c, h) == [k \in 1 .. Len(c) |-> h[c[k]].value]

Chains(r, h) ==
  r = [n \in 0 .. Cardinality(DOMAIN h) |->
         [b \in DOMAIN h \cup {NULL} |->
            IF b = NULL \/ n = 0 THEN <<>> ELSE <<b>> \o r[n - 1][h[b].next]]]

LEMMA LinkedFacts ==
  ASSUME NEW c, NEW h, NEW f, NEW l, Linked(c, h, f, l)
  PROVE  /\ Len(c) \in Nat /\ c \in [1 .. Len(c) -> Address]
         /\ DOMAIN h = {c[k] : k \in 1 .. Len(c)} /\ DOMAIN h \subseteq Address /\ NULL \notin DOMAIN h
         /\ IsFiniteSet(DOMAIN h) /\ Cardinality(DOMAIN h) = Len(c)
         /\ \A b \in DOMAIN h : h[b].next \in DOMAIN h \cup {NULL}
<1>1. Len(c) \in Nat /\ c \in [1 .. Len(c) -> Address] /\ DOMAIN h = {c[k] : k \in 1 .. Len(c)}
  BY LenProperties DEF Linked
<1>2. DOMAIN h \subseteq Address /\ NULL \notin DOMAIN h
  BY <1>1, AddressAssumption
<1>3. IsFiniteSet(DOMAIN h) /\ Cardinality(DOMAIN h) = Len(c)
  <2>1. c \in Bijection(1 .. Len(c), DOMAIN h)
    <3>1. c \in [1 .. Len(c) -> DOMAIN h]
      BY <1>1
    <3>2. \A a, b \in 1 .. Len(c) : c[a] = c[b] => a = b
      BY DEF Linked
    <3>3. \A t \in DOMAIN h : \E s \in 1 .. Len(c) : c[s] = t
      BY <1>1
    <3> QED
      BY <3>1, <3>2, <3>3 DEF Bijection, Injection, Surjection, IsInjective
  <2>2. ExistsBijection(1 .. Len(c), DOMAIN h)
    BY <2>1 DEF ExistsBijection
  <2> QED
    BY <1>1, <2>2, FS_CountingElements, FS_NatBijection
<1>4. ASSUME NEW b \in DOMAIN h PROVE h[b].next \in DOMAIN h \cup {NULL}
  <2>1. PICK k \in 1 .. Len(c) : b = c[k]
    BY <1>1
  <2>2. h[b].next = PlaceIn(c, k + 1)
    BY <2>1 DEF Linked
  <2> QED
    BY <1>1, <2>2 DEF PlaceIn
<1> QED
  BY <1>1, <1>2, <1>3, <1>4

LEMMA ChainsExist ==
  ASSUME NEW c, NEW h, NEW f, NEW l, Linked(c, h, f, l)
  PROVE  \E r : Chains(r, h)
<1> DEFINE B == DOMAIN h \cup {NULL}
           X == [B -> Seq(DOMAIN h)]
           step == [g \in X |-> [b \in B |-> IF b = NULL THEN <<>> ELSE <<b>> \o g[h[b].next]]]
           zero == [b \in B |-> <<>>]
           bound == Cardinality(DOMAIN h)
<1>1. bound \in Nat /\ \A b \in DOMAIN h : h[b].next \in B
  BY LinkedFacts
<1>2. step \in [X -> X] /\ zero \in X
  <2>1. ASSUME NEW g \in X PROVE [b \in B |-> IF b = NULL THEN <<>> ELSE <<b>> \o g[h[b].next]] \in X
    <3>1. <<>> \in Seq(DOMAIN h)
      OBVIOUS
    <3>2. ASSUME NEW b \in B, b # NULL PROVE <<b>> \o g[h[b].next] \in Seq(DOMAIN h)
      <4>1. <<b>> \in Seq(DOMAIN h) /\ g[h[b].next] \in Seq(DOMAIN h)
        BY <1>1, <3>2
      <4> QED
        BY <4>1, ConcatProperties
    <3> QED
      BY <3>1, <3>2
  <2>2. zero \in X
    OBVIOUS
  <2> QED
    BY <2>1, <2>2
<1> HIDE DEF X, zero, bound
<1>3. PICK r \in [0 .. bound -> X] : Iterates(r, step, zero, bound)
  BY <1>1, <1>2, IterationExists
<1>4. ASSUME NEW n \in 0 .. bound
      PROVE  r[n] = [b \in B |-> IF b = NULL \/ n = 0 THEN <<>> ELSE <<b>> \o r[n - 1][h[b].next]]
  <2>1. CASE n = 0
    BY <1>3, <2>1 DEF Iterates, zero
  <2>2. CASE n # 0
    <3>1. n \in 1 .. bound /\ n - 1 \in 0 .. bound
      BY <1>1, <2>2
    <3>2. r[n] = step[r[n - 1]] /\ r[n - 1] \in X
      BY <1>3, <3>1 DEF Iterates
    <3> QED
      BY <2>2, <3>2
  <2> QED
    BY <2>1, <2>2
<1>5. r = [n \in 0 .. bound |-> r[n]]
  BY <1>3
<1> QED
  <2>1. r = [n \in 0 .. bound |->
               [b \in B |-> IF b = NULL \/ n = 0 THEN <<>> ELSE <<b>> \o r[n - 1][h[b].next]]]
    BY <1>4, <1>5
  <2> QED
    BY <2>1 DEF Chains, bound

LEMMA ChainIs ==
  ASSUME NEW c, NEW h, NEW f, NEW l, Linked(c, h, f, l)
  PROVE  Fifo!Chain(h, f) = c
<1> DEFINE bound == Cardinality(DOMAIN h)
           B == DOMAIN h \cup {NULL}
<1>1. PICK r : Chains(r, h) /\ Fifo!Chain(h, f) = r[bound][f]
  <2> DEFINE r == CHOOSE r : Chains(r, h)
  <2>1. Chains(r, h)
    BY ChainsExist
  <2>2. Fifo!Cardinality(DOMAIN h) = Cardinality(DOMAIN h)
    BY DEF Fifo!Cardinality, Cardinality, Fifo!IsFiniteSet, IsFiniteSet
  <2>3. Fifo!Chain(h, f) = r[bound][f]
    BY <2>2 DEF Fifo!Chain, Chains
  <2> QED
    BY <2>1, <2>3
<1>2. /\ Len(c) \in Nat /\ bound = Len(c) /\ c \in [1 .. Len(c) -> Address]
      /\ DOMAIN h = {c[k] : k \in 1 .. Len(c)} /\ NULL \notin DOMAIN h
  BY LinkedFacts
<1>3. \A n \in 0 .. bound : \A b \in B :
        r[n][b] = IF b = NULL \/ n = 0 THEN <<>> ELSE <<b>> \o r[n - 1][h[b].next]
  <2> SUFFICES ASSUME NEW n \in 0 .. bound, NEW b \in B
               PROVE  r[n][b] = IF b = NULL \/ n = 0 THEN <<>> ELSE <<b>> \o r[n - 1][h[b].next]
    OBVIOUS
  <2>1. r[n] = [d \in B |-> IF d = NULL \/ n = 0 THEN <<>> ELSE <<d>> \o r[n - 1][h[d].next]]
    <3> HIDE DEF bound
    <3> QED
      BY <1>1 DEF Chains, bound
  <2> QED
    BY <2>1
<1> HIDE DEF bound
<1> DEFINE Rest(k) == SubSeq(c, k, Len(c))
           D == {n \in 0 .. bound : \A k \in Len(c) + 1 - n .. Len(c) + 1 : r[n][PlaceIn(c, k)] = Rest(k)}
<1>4. PlaceIn(c, Len(c) + 1) = NULL /\ Rest(Len(c) + 1) = <<>>
  BY <1>2, SubSeqEmpty DEF PlaceIn
<1>5. 0 \in D
  <2>1. 0 \in 0 .. bound /\ NULL \in B
    BY <1>2
  <2>2. r[0][NULL] = <<>>
    BY <1>3, <2>1
  <2>3. \A k \in Len(c) + 1 - 0 .. Len(c) + 1 : k = Len(c) + 1
    BY <1>2
  <2> HIDE DEF Rest
  <2> QED
    BY <1>4, <2>1, <2>2, <2>3
<1>6. ASSUME NEW n \in 0 .. bound - 1, n \in D PROVE n + 1 \in D
  <2> SUFFICES ASSUME NEW k \in Len(c) + 1 - (n + 1) .. Len(c) + 1
               PROVE  r[n + 1][PlaceIn(c, k)] = Rest(k)
    BY <1>2
  <2>1. n + 1 \in 0 .. bound /\ n + 1 # 0 /\ (n + 1) - 1 = n /\ n \in Nat
    BY <1>2
  <2>2. CASE k = Len(c) + 1
    <3>1. r[n + 1][NULL] = <<>>
      BY <1>3, <2>1
    <3> QED
      BY <1>4, <2>2, <3>1
  <2>3. CASE k # Len(c) + 1
    <3>0. k \in 1 .. Len(c) /\ k + 1 \in Len(c) + 1 - n .. Len(c) + 1
      BY <1>2, <2>1, <2>3
    <3>1. /\ k \in 1 .. Len(c) /\ PlaceIn(c, k) = c[k] /\ c[k] \in B /\ c[k] # NULL
          /\ k + 1 \in Len(c) + 1 - n .. Len(c) + 1
      BY <1>2, <3>0 DEF PlaceIn
    <3>2. h[c[k]].next = PlaceIn(c, k + 1)
      BY <3>1 DEF Linked
    <3>3. r[n][PlaceIn(c, k + 1)] = Rest(k + 1)
      BY <1>6, <3>1
    <3>4. r[n + 1][c[k]] = <<c[k]>> \o Rest(k + 1)
      <4>1. r[n + 1][c[k]] = IF c[k] = NULL \/ n + 1 = 0 THEN <<>> ELSE <<c[k]>> \o r[(n + 1) - 1][h[c[k]].next]
        BY <1>3, <2>1, <3>1
      <4> HIDE DEF Rest, D
      <4>2. r[n + 1][c[k]] = <<c[k]>> \o r[n][h[c[k]].next]
        BY <2>1, <3>1, <4>1
      <4> QED
        BY <3>2, <3>3, <4>2
    <3>5. <<c[k]>> \o Rest(k + 1) = Rest(k)
      <4>1. c \in Seq(Address) /\ Len(c) \in k .. Len(c)
        BY <1>2, <3>1 DEF Linked
      <4> QED
        BY <3>1, <4>1, SubSeqRecursiveFirst
    <3> QED
      BY <3>1, <3>4, <3>5
  <2> QED
    BY <2>2, <2>3
<1>7. bound \in D
  <2>1. bound \in Nat /\ \A n \in 0 .. bound - 1 : n \in D => n + 1 \in D
    BY <1>2, <1>6
  <2> HIDE DEF D, bound
  <2>2. \A n \in 0 .. bound : n \in D
    BY <1>5, <2>1, SetInduction
  <2> QED
    BY <2>1, <2>2
<1>8. r[bound][PlaceIn(c, 1)] = Rest(1)
  <2>1. 1 \in Len(c) + 1 - bound .. Len(c) + 1
    BY <1>2
  <2> QED
    BY <1>7, <2>1
<1>9. Rest(1) = c
  BY SubSeqFull DEF Linked
<1> QED
  BY <1>1, <1>8, <1>9 DEF Linked
-----------------------------------------------------------------------------
FifoInv == \E c : Linked(c, fifo_heap, first, last)

\* An operation of Queue, on the values of the nodes.
QueueStep(c, d) ==
  LET items == Items(c, fifo_heap)
      later == Items(d, fifo_heap')
  IN  \/ \E v \in T : later = Append(items, v) /\ fifo_call' = <<"push", v>>
      \/ \E v \in T : later = items /\ fifo_call' = <<"push error", v>>
      \/ items # <<>> /\ later = Tail(items) /\ fifo_call' = <<"pop", Head(items)>>
      \/ items = <<>> /\ later = <<>> /\ fifo_call' = <<"pop error">>
      \/ later = <<>> /\ fifo_call' = <<"destroy">>
      \/ later = items /\ fifo_call' = fifo_call

Follows(c) == \E d : Linked(d, fifo_heap', first', last') /\ QueueStep(c, d)

LEMMA FifoStands ==
  ASSUME NEW c, Linked(c, fifo_heap, first, last), UNCHANGED <<fifo_heap, first, last>>,
         \/ UNCHANGED fifo_call
         \/ \E v \in T : fifo_call' = <<"push error", v>>
         \/ Items(c, fifo_heap) = <<>> /\ fifo_call' = <<"pop error">>
  PROVE  Follows(c)
BY DEF Follows, QueueStep

LEMMA PushFollows ==
  ASSUME NEW c, Linked(c, fifo_heap, first, last), NEW v \in T, Fifo!push(v)
  PROVE  Follows(c)
<1>1. CASE fifo_call' = <<"push error", v>> /\ UNCHANGED <<fifo_heap, first, last>>
  BY <1>1, FifoStands
<1>2. ASSUME NEW a \in Address \ DOMAIN fifo_heap,
             fifo_call' = <<"push", v>>,
             LET h == Fifo!With(a, v)
             IN  CASE first # NULL /\ last = NULL ->
                        fifo_heap' = Fifo!Link(h, first, a) /\ last' = a /\ UNCHANGED first
                   [] last # NULL ->
                        fifo_heap' = Fifo!Link(h, last, a) /\ last' = a /\ UNCHANGED first
                   [] OTHER ->
                        fifo_heap' = h /\ first' = a /\ UNCHANGED last
      PROVE  Follows(c)
  <2>0. PICK n, h, g : n \in Nat /\ n = Len(c) /\ h = fifo_heap /\ g = fifo_heap'
    BY LinkedFacts
  <2>1. /\ c \in [1 .. n -> Address] /\ c \in Seq(Address) /\ a \notin {c[k] : k \in 1 .. n}
        /\ DOMAIN h = {c[k] : k \in 1 .. n} /\ h \in [DOMAIN h -> Cell]
        /\ a \in Address /\ a # NULL /\ \A k \in 1 .. n : c[k] # NULL
    BY <1>2, <2>0, LinkedFacts, AddressAssumption DEF Linked
  <2> DEFINE d == Append(c, a)
  <2>2. /\ d \in Seq(Address) /\ Len(d) = n + 1 /\ d[n + 1] = a
        /\ \A k \in 1 .. n : d[k] = c[k]
    BY <2>0, <2>1, AppendProperties
  <2> HIDE DEF d
  <2>3. /\ g \in [DOMAIN h \cup {a} -> Cell] /\ first' = PlaceIn(d, 1)
        /\ last' = IF Len(d) < 2 THEN NULL ELSE d[Len(d)]
        /\ g[a].value = v /\ g[a].next = NULL
        /\ \A k \in 1 .. n : /\ g[c[k]].value = h[c[k]].value
                             /\ g[c[k]].next = IF k = n THEN a ELSE h[c[k]].next
    <3>1. Fifo!With(a, v) \in [DOMAIN h \cup {a} -> Cell] /\ Fifo!With(a, v)[a] = [value |-> v, next |-> NULL]
          /\ \A b \in DOMAIN h : Fifo!With(a, v)[b] = h[b]
      BY <2>0, <2>1 DEF Fifo!With, Cell
    <3>2. \A k \in 1 .. n : h[c[k]] = [value |-> h[c[k]].value, next |-> h[c[k]].next]
      BY <2>1 DEF Cell
    <3>3. /\ first = IF n = 0 THEN NULL ELSE c[1]
          /\ last = IF n < 2 THEN NULL ELSE c[n]
      BY <2>0, <2>1 DEF Linked, PlaceIn
    <3>4. CASE n = 0
      <4>1. g = Fifo!With(a, v) /\ first' = a /\ last' = NULL
        BY <1>2, <2>0, <2>1, <3>3, <3>4
      <4> QED
        BY <2>2, <3>1, <3>4, <4>1 DEF PlaceIn
    <3>5. CASE n # 0
      <4>1. g = Fifo!Link(Fifo!With(a, v), c[n], a) /\ first' = c[1] /\ last' = a
        <5>1. CASE n = 1
          BY <1>2, <2>0, <2>1, <3>3, <5>1
        <5>2. CASE n >= 2
          BY <1>2, <2>0, <2>1, <3>3, <5>2
        <5> QED
          BY <2>0, <3>5, <5>1, <5>2
      <4>2. c[n] \in DOMAIN h /\ n \in 1 .. n /\ c[n] # a
        BY <2>0, <2>1, <3>5
      <4>3. /\ g \in [DOMAIN h \cup {a} -> Cell]
            /\ g[c[n]] = [Fifo!With(a, v)[c[n]] EXCEPT !.next = a]
            /\ \A b \in DOMAIN h \cup {a} : b # c[n] => g[b] = Fifo!With(a, v)[b]
        BY <2>1, <3>1, <4>1, <4>2 DEF Fifo!Link, Cell
      <4>4. \A k \in 1 .. n : k # n => c[k] # c[n]
        BY <2>0, <4>2 DEF Linked
      <4>5. ASSUME NEW k \in 1 .. n
            PROVE  /\ g[c[k]].value = h[c[k]].value
                   /\ g[c[k]].next = IF k = n THEN a ELSE h[c[k]].next
        <5>1. CASE k = n
          <6>1. Fifo!With(a, v)[c[n]] = h[c[n]] /\ h[c[n]] \in Cell
            BY <2>1, <3>1, <4>2
          <6>2. g[c[n]].value = h[c[n]].value /\ g[c[n]].next = a
            BY <4>3, <6>1 DEF Cell
          <6> QED
            BY <5>1, <6>2
        <5>2. CASE k # n
          BY <2>1, <3>1, <3>2, <4>3, <4>4, <5>2
        <5> QED
          BY <5>1, <5>2
      <4>6. first' = PlaceIn(d, 1) /\ last' = IF Len(d) < 2 THEN NULL ELSE d[Len(d)]
        BY <2>0, <2>2, <3>5, <4>1 DEF PlaceIn
      <4>7. g[a].value = v /\ g[a].next = NULL
        BY <3>1, <4>2, <4>3
      <4> QED
        BY <4>3, <4>5, <4>6, <4>7
    <3> QED
      BY <3>4, <3>5
  <2>4. {d[k] : k \in 1 .. Len(d)} = DOMAIN h \cup {a}
    BY <2>0, <2>1, <2>2
  <2>5. \A k, m \in 1 .. Len(d) : d[k] = d[m] => k = m
    <3>1. \A k, m \in 1 .. n : c[k] = c[m] => k = m
      BY <2>0 DEF Linked
    <3>2. \A k \in 1 .. Len(d) : k \in 1 .. n \/ k = n + 1
      BY <2>0, <2>2
    <3> QED
      BY <2>1, <2>2, <3>1, <3>2
  <2>6. ASSUME NEW k \in 1 .. Len(d) PROVE g[d[k]].next = PlaceIn(d, k + 1)
    <3>1. CASE k = n + 1
      BY <2>2, <2>3, <3>1 DEF PlaceIn
    <3>2. CASE k = n
      BY <2>2, <2>3, <3>2 DEF PlaceIn
    <3>3. CASE k < n
      <4>1. h[c[k]].next = PlaceIn(c, k + 1) /\ k \in 1 .. n /\ k + 1 \in 1 .. n /\ k # n
        BY <2>0, <3>3 DEF Linked
      <4> QED
        BY <2>0, <2>2, <2>3, <4>1 DEF PlaceIn
    <3> QED
      BY <2>0, <2>2, <3>1, <3>2, <3>3
  <2>7. Linked(d, g, first', last')
    BY <2>2, <2>3, <2>4, <2>5, <2>6 DEF Linked
  <2>8. Items(d, g) = Append(Items(c, h), v)
    <3>1. \A k \in 1 .. n : h[c[k]].value \in T
      BY <2>1 DEF Cell
    <3>2. Items(c, h) \in Seq(T) /\ Len(Items(c, h)) = n /\ \A k \in 1 .. n : Items(c, h)[k] = h[c[k]].value
      BY <2>0, <3>1 DEF Items
    <3>3. \A k \in 1 .. n + 1 : g[d[k]].value \in T
      BY <2>0, <2>2, <2>3, <3>1
    <3>4. Items(d, g) \in Seq(T) /\ Len(Items(d, g)) = n + 1 /\ \A k \in 1 .. n + 1 : Items(d, g)[k] = g[d[k]].value
      BY <2>2, <3>3 DEF Items
    <3>5. \A k \in 1 .. n : Items(d, g)[k] = Items(c, h)[k]
      BY <2>2, <2>3, <3>2, <3>4
    <3>6. Items(d, g)[n + 1] = v
      BY <2>0, <2>2, <2>3, <3>4
    <3>7. /\ Append(Items(c, h), v) \in Seq(T) /\ Len(Append(Items(c, h), v)) = n + 1
          /\ \A k \in 1 .. n : Append(Items(c, h), v)[k] = Items(c, h)[k]
          /\ Append(Items(c, h), v)[n + 1] = v
      BY <3>2, AppendProperties
    <3>8. \A k \in 1 .. n + 1 : Items(d, g)[k] = Append(Items(c, h), v)[k]
      BY <2>0, <3>5, <3>6, <3>7
    <3> QED
      BY <3>4, <3>7, <3>8, SeqEqual
  <2> QED
    BY <1>2, <2>0, <2>7, <2>8 DEF Follows, QueueStep
<1> QED
  BY <1>1, <1>2 DEF Fifo!push

LEMMA PopFollows ==
  ASSUME NEW c, Linked(c, fifo_heap, first, last), Fifo!pop
  PROVE  Follows(c)
<1>0. PICK n, h, g : n \in Nat /\ n = Len(c) /\ h = fifo_heap /\ g = fifo_heap'
  BY LinkedFacts
<1>1. /\ c \in [1 .. n -> Address] /\ c \in Seq(Address)
      /\ DOMAIN h = {c[k] : k \in 1 .. n} /\ h \in [DOMAIN h -> Cell]
      /\ \A k \in 1 .. n : c[k] # NULL
  BY <1>0, LinkedFacts, AddressAssumption DEF Linked
<1>2. first = IF n = 0 THEN NULL ELSE c[1]
  BY <1>0 DEF Linked, PlaceIn
<1>3. CASE n = 0
  <2>1. fifo_call' = <<"pop error">> /\ UNCHANGED <<fifo_heap, first, last>>
    BY <1>2, <1>3 DEF Fifo!pop
  <2>2. Items(c, fifo_heap) = <<>>
    BY <1>0, <1>3 DEF Items
  <2> QED
    BY <2>1, <2>2, FifoStands
<1>4. CASE n # 0
  <2>1. /\ 1 \in 1 .. n /\ first = c[1] /\ first # NULL /\ c # <<>>
    BY <1>0, <1>1, <1>2, <1>4
  <2>2. /\ first' = h[c[1]].next /\ fifo_call' = <<"pop", h[c[1]].value>>
        /\ g = [b \in DOMAIN h \ {c[1]} |-> h[b]]
        /\ last' = IF first' = last THEN NULL ELSE last
    BY <1>0, <2>1 DEF Fifo!pop, Fifo!free, Fifo!Restrict
  <2> DEFINE d == Tail(c)
  <2>3. /\ d \in Seq(Address) /\ Len(d) = n - 1 /\ \A k \in 1 .. n - 1 : d[k] = c[k + 1]
    BY <1>0, <1>1, <2>1, HeadTailProperties
  <2> HIDE DEF d
  <2>4. \A k, m \in 1 .. n : c[k] = c[m] => k = m
    BY <1>0 DEF Linked
  <2>5. \A k, m \in 1 .. Len(d) : d[k] = d[m] => k = m
    BY <1>0, <2>3, <2>4
  <2>6. {d[k] : k \in 1 .. Len(d)} = DOMAIN h \ {c[1]}
    <3>1. ASSUME NEW k \in 1 .. Len(d) PROVE d[k] \in DOMAIN h \ {c[1]}
      <4>1. k \in 1 .. n - 1 /\ k + 1 \in 1 .. n /\ k + 1 # 1
        BY <1>0, <2>3
      <4> QED
        BY <1>1, <2>1, <2>3, <2>4, <4>1
    <3>2. ASSUME NEW b \in DOMAIN h \ {c[1]} PROVE \E k \in 1 .. Len(d) : b = d[k]
      <4>1. PICK m \in 1 .. n : b = c[m]
        BY <1>1
      <4>2. m - 1 \in 1 .. n - 1 /\ (m - 1) + 1 = m
        BY <1>0, <4>1
      <4> QED
        BY <2>3, <4>1, <4>2
    <3> QED
      BY <3>1, <3>2
  <2>7. g \in [{d[k] : k \in 1 .. Len(d)} -> Cell] /\ \A k \in 1 .. Len(d) : g[d[k]] = h[d[k]]
    BY <1>1, <2>2, <2>6
  <2>8. ASSUME NEW k \in 1 .. Len(d) PROVE g[d[k]].next = PlaceIn(d, k + 1)
    <3>1. k + 1 \in 1 .. n /\ d[k] = c[k + 1]
      BY <1>0, <2>3
    <3>2. h[c[k + 1]].next = PlaceIn(c, (k + 1) + 1)
      BY <1>0, <3>1 DEF Linked
    <3>3. PlaceIn(c, (k + 1) + 1) = PlaceIn(d, k + 1)
      BY <1>0, <2>3 DEF PlaceIn
    <3> QED
      BY <2>7, <3>1, <3>2, <3>3
  <2>9. first' = PlaceIn(d, 1)
    <3>1. h[c[1]].next = PlaceIn(c, 1 + 1)
      BY <1>0, <2>1 DEF Linked
    <3>2. PlaceIn(c, 1 + 1) = PlaceIn(d, 1)
      BY <1>0, <2>3 DEF PlaceIn
    <3> QED
      BY <2>2, <3>1, <3>2
  <2>10. last' = IF Len(d) < 2 THEN NULL ELSE d[Len(d)]
    <3>1. last = IF n < 2 THEN NULL ELSE c[n]
      BY <1>0 DEF Linked
    <3>2. CASE n = 1
      <4>1. first' = NULL
        BY <1>0, <2>3, <2>9, <3>2 DEF PlaceIn
      <4> QED
        BY <1>0, <2>2, <2>3, <3>1, <3>2, <4>1
    <3>3. CASE n = 2
      <4>1. first' = c[2]
        BY <1>0, <2>3, <2>9, <3>3 DEF PlaceIn
      <4> QED
        BY <1>0, <2>2, <2>3, <3>1, <3>3, <4>1
    <3>4. CASE n > 2
      <4>1. first' = c[2] /\ 2 \in 1 .. n /\ n \in 1 .. n /\ n # 2
        BY <1>0, <2>3, <2>9, <3>4 DEF PlaceIn
      <4>2. first' # last /\ last = c[n]
        BY <1>0, <2>4, <3>1, <3>4, <4>1
      <4>3. last' = c[n] /\ Len(d) = n - 1 /\ ~(Len(d) < 2) /\ n - 1 \in 1 .. n - 1 /\ (n - 1) + 1 = n
        BY <1>0, <2>2, <2>3, <3>4, <4>2
      <4> QED
        BY <2>3, <4>3
    <3> QED
      BY <1>0, <1>4, <3>2, <3>3, <3>4
  <2>11. Linked(d, g, first', last')
    BY <2>3, <2>5, <2>7, <2>8, <2>9, <2>10 DEF Linked
  <2>12. /\ Items(c, h) # <<>> /\ Head(Items(c, h)) = h[c[1]].value
         /\ Items(d, g) = Tail(Items(c, h))
    <3>1. \A k \in 1 .. n : h[c[k]].value \in T
      BY <1>1 DEF Cell
    <3>2. Items(c, h) \in Seq(T) /\ Len(Items(c, h)) = n /\ \A k \in 1 .. n : Items(c, h)[k] = h[c[k]].value
      BY <1>0, <3>1 DEF Items
    <3>3. Items(c, h) # <<>> /\ Head(Items(c, h)) = h[c[1]].value
      BY <1>0, <1>4, <2>1, <3>2
    <3>4. /\ Tail(Items(c, h)) \in Seq(T) /\ Len(Tail(Items(c, h))) = n - 1
          /\ \A k \in 1 .. n - 1 : Tail(Items(c, h))[k] = Items(c, h)[k + 1]
      BY <3>2, <3>3, HeadTailProperties
    <3>5. ASSUME NEW k \in 1 .. n - 1
          PROVE  Items(d, g)[k] = Tail(Items(c, h))[k] /\ g[d[k]].value \in T
      <4>1. k \in 1 .. Len(d) /\ k + 1 \in 1 .. n /\ d[k] = c[k + 1]
        BY <1>0, <2>3
      <4>2. Items(d, g)[k] = g[d[k]].value /\ g[d[k]].value = h[c[k + 1]].value
        BY <2>7, <4>1 DEF Items
      <4> QED
        BY <3>1, <3>2, <3>4, <4>1, <4>2
    <3>6. Items(d, g) \in Seq(T) /\ Len(Items(d, g)) = n - 1
      <4>1. n - 1 \in Nat /\ Items(d, g) = [k \in 1 .. n - 1 |-> g[d[k]].value]
        BY <1>0, <1>4, <2>3 DEF Items
      <4>2. Items(d, g) \in [1 .. n - 1 -> T]
        BY <3>5, <4>1
      <4> QED
        BY <4>1, <4>2
    <3> QED
      BY <3>3, <3>4, <3>5, <3>6, SeqEqual
  <2> QED
    BY <1>0, <2>2, <2>11, <2>12 DEF Follows, QueueStep
<1> QED
  BY <1>3, <1>4

LEMMA DestroyFollows ==
  ASSUME NEW c, Linked(c, fifo_heap, first, last), Fifo!destroy
  PROVE  Follows(c)
<1>1. Fifo!Chain(fifo_heap, first) = c /\ c \in Seq(Address)
  BY ChainIs DEF Linked
<1>2. DOMAIN fifo_heap = {c[k] : k \in 1 .. Len(c)} /\ DOMAIN c = 1 .. Len(c)
  <2>1. DOMAIN fifo_heap = {c[k] : k \in 1 .. Len(c)}
    BY LinkedFacts
  <2>2. DOMAIN c = 1 .. Len(c)
    BY <1>1, LenProperties
  <2> QED
    BY <2>1, <2>2
<1>3. fifo_heap' = [b \in {} |-> fifo_heap[b]] /\ first' = NULL /\ last' = NULL
  <2>1. Fifo!Range(c) = DOMAIN fifo_heap
    BY <1>2 DEF Fifo!Range
  <2> QED
    BY <1>1, <2>1 DEF Fifo!destroy, Fifo!free, Fifo!Restrict
<1>4. Linked(<<>>, fifo_heap', first', last')
  BY <1>3 DEF Linked, PlaceIn
<1>5. Items(<<>>, fifo_heap') = <<>> /\ fifo_call' = <<"destroy">>
  BY DEF Items, Fifo!destroy
<1> QED
  BY <1>4, <1>5 DEF Follows, QueueStep

LEMMA FifoFollows ==
  ASSUME NEW c, Linked(c, fifo_heap, first, last), [Fifo!Next]_(Fifo!vars)
  PROVE  Follows(c)
<1>1. CASE UNCHANGED Fifo!vars
  BY <1>1, FifoStands DEF Fifo!vars
<1> QED
  BY <1>1, PushFollows, PopFollows, DestroyFollows DEF Fifo!Next

\* What the list looks like whatever is pushed, popped and destroyed: last is its end if it
\* has two nodes or more and NULL otherwise (lines 58-66 and 78), and every node that is
\* allocated is on it, once, so that destroy frees all of them and stops (lines 93-97).
THEOREM ListIsLinked == Fifo!Spec => []Fifo!Shape
<1>1. Fifo!Init => FifoInv
  <2> SUFFICES ASSUME Fifo!Init PROVE Linked(<<>>, fifo_heap, first, last)
    BY DEF FifoInv
  <2>1. fifo_heap = <<>> /\ first = NULL /\ last = NULL
    BY DEF Fifo!Init
  <2> QED
    BY <2>1 DEF Linked, PlaceIn
<1>2. FifoInv /\ [Fifo!Next]_(Fifo!vars) => FifoInv'
  BY FifoFollows DEF FifoInv, Follows
<1>3. FifoInv => Fifo!Shape
  <2> SUFFICES ASSUME NEW c, Linked(c, fifo_heap, first, last) PROVE Fifo!Shape
    BY DEF FifoInv
  <2>1. Fifo!Chain(fifo_heap, first) = c /\ c \in Seq(Address)
    BY ChainIs DEF Linked
  <2>2. DOMAIN fifo_heap = {c[k] : k \in 1 .. Len(c)} /\ DOMAIN c = 1 .. Len(c) /\ Len(c) \in Nat
    <3>1. DOMAIN fifo_heap = {c[k] : k \in 1 .. Len(c)}
      BY LinkedFacts
    <3>2. DOMAIN c = 1 .. Len(c) /\ Len(c) \in Nat
      BY <2>1, LenProperties
    <3> QED
      BY <3>1, <3>2
  <2>3. Fifo!IsInjective(c) /\ Fifo!Range(c) = DOMAIN fifo_heap
    BY <2>2 DEF Linked, Fifo!IsInjective, Fifo!Range
  <2>4. c # <<>> => fifo_heap[c[Len(c)]].next = NULL
    BY <2>1, <2>2 DEF Linked, PlaceIn
  <2> QED
    BY <2>1, <2>3, <2>4 DEF Fifo!Shape, Linked
<1> QED
  BY <1>1, <1>2, <1>3, PTL DEF Fifo!Spec

\* Values come out of the queue in the order in which they were pushed, whatever pushes,
\* failed pushes, pops and destroys come between (lines 47-104).
THEOREM ListIsQueue == Fifo!Spec => FifoIsQueue
<1> DEFINE chain == Fifo!Chain(fifo_heap, first)
           items == [k \in DOMAIN chain |-> fifo_heap[chain[k]].value]
<1>1. ASSUME NEW c, Linked(c, fifo_heap, first, last) PROVE items = Items(c, fifo_heap)
  <2>1. chain = c /\ DOMAIN c = 1 .. Len(c)
    BY <1>1, ChainIs, LenProperties DEF Linked
  <2> QED
    BY <2>1 DEF Items
<1>2. ASSUME NEW c, Linked(c, fifo_heap', first', last') PROVE items' = Items(c, fifo_heap')
  <2>1. chain' = c /\ DOMAIN c = 1 .. Len(c)
    BY <1>2, ChainIs, LenProperties DEF Linked
  <2> QED
    BY <2>1 DEF Items
<1> HIDE DEF items
<1>3. Fifo!Init => FifoInv /\ Fifo!Abstract!Init
  <2> SUFFICES ASSUME Fifo!Init PROVE FifoInv /\ Fifo!Abstract!Init
    OBVIOUS
  <2>1. fifo_heap = <<>> /\ first = NULL /\ last = NULL /\ fifo_call = <<"none">>
    BY DEF Fifo!Init
  <2>2. Linked(<<>>, fifo_heap, first, last)
    BY <2>1 DEF Linked, PlaceIn
  <2>3. items = <<>>
    BY <1>1, <2>2 DEF Items
  <2> QED
    BY <2>1, <2>2, <2>3 DEF FifoInv, Fifo!Abstract!Init, items
<1>4. FifoInv /\ [Fifo!Next]_(Fifo!vars) => FifoInv' /\ [Fifo!Abstract!Next]_(<<items, fifo_call>>)
  <2> SUFFICES ASSUME NEW c, Linked(c, fifo_heap, first, last), [Fifo!Next]_(Fifo!vars)
               PROVE  FifoInv' /\ [Fifo!Abstract!Next]_(<<items, fifo_call>>)
    BY DEF FifoInv
  <2>1. PICK d : Linked(d, fifo_heap', first', last') /\ QueueStep(c, d)
    BY FifoFollows DEF Follows
  <2>2. items = Items(c, fifo_heap) /\ items' = Items(d, fifo_heap')
    BY <1>1, <1>2, <2>1
  <2>3. \/ \E v \in T : items' = Append(items, v) /\ fifo_call' = <<"push", v>>
        \/ \E v \in T : items' = items /\ fifo_call' = <<"push error", v>>
        \/ items # <<>> /\ items' = Tail(items) /\ fifo_call' = <<"pop", Head(items)>>
        \/ items = <<>> /\ items' = <<>> /\ fifo_call' = <<"pop error">>
        \/ items' = <<>> /\ fifo_call' = <<"destroy">>
        \/ items' = items /\ fifo_call' = fifo_call
    BY <2>1, <2>2 DEF QueueStep
  <2>4. Fifo!Abstract!Next \/ (items' = items /\ fifo_call' = fifo_call)
    <3>1. Fifo!Abstract!Next <=>
            \/ items # <<>> /\ items' = Tail(items) /\ fifo_call' = <<"pop", Head(items)>>
            \/ items = <<>> /\ items' = <<>> /\ fifo_call' = <<"pop error">>
            \/ items' = <<>> /\ fifo_call' = <<"destroy">>
            \/ \E v \in T : (items' = Append(items, v) /\ fifo_call' = <<"push", v>>)
                            \/ (items' = items /\ fifo_call' = <<"push error", v>>)
      BY DEF Fifo!Abstract!Next, Fifo!Abstract!Push, Fifo!Abstract!Pop, Fifo!Abstract!Destroy, items
    <3> QED
      BY <2>3, <3>1
  <2> QED
    BY <2>1, <2>4 DEF FifoInv
<1> QED
  BY <1>3, <1>4, PTL DEF Fifo!Spec, FifoIsQueue, Fifo!IsQueue, Fifo!Abstract!Spec, items
-----------------------------------------------------------------------------
(* Runtime.                                                                  *)

\* own gives the scope whose list an entry is on: every list and every chain of scopes
\* leads to older entries, and no two scopes share an entry.
Belongs(own, L, S) ==
  /\ L \in Seq([key : Names, value : Values, next : Nat])
  /\ S \in Seq([list : Nat, parent : Nat])
  /\ Len(L) <= CAP_LISTS /\ Len(S) <= CAP_SCOPES
  /\ \A l \in 1 .. Len(L) :
       L[l].next \in 0 .. l - 1 /\ own[l] \in 1 .. Len(S) /\ (L[l].next # 0 => own[L[l].next] = own[l])
  /\ \A s \in 1 .. Len(S) :
       S[s].parent \in 0 .. s - 1 /\ S[s].list \in 0 .. Len(L) /\ (S[s].list # 0 => own[S[s].list] = s)

\* The two loops of Find, on any lists and scopes.
InLists(f, L, k) ==
  f = [l \in 0 .. Len(L) |-> IF l = 0 \/ L[l].key = k THEN l ELSE f[L[l].next]]
InScopes(g, f, S) ==
  g = [q \in 0 .. Len(S) |-> IF q = 0 THEN 0 ELSE IF f[S[q].list] # 0 THEN f[S[q].list] ELSE g[S[q].parent]]
FindIn(L, S, s, k) ==
  LET f == CHOOSE f : InLists(f, L, k)
      g == CHOOSE g : InScopes(g, f, S)
  IN  g[s]

ParentsOf(S) == [s \in DOMAIN S |-> S[s].parent]
BoundIn(L, S) ==
  [s \in DOMAIN S |-> [k \in Names |->
     IF FindIn(L, S, s, k) = FindIn(L, S, S[s].parent, k) THEN None ELSE L[FindIn(L, S, s, k)].value]]

LEMMA BelongsFacts ==
  ASSUME NEW own, NEW L, NEW S, Belongs(own, L, S)
  PROVE  /\ Len(L) \in Nat /\ Len(S) \in Nat /\ DOMAIN L = 1 .. Len(L) /\ DOMAIN S = 1 .. Len(S)
         /\ \A l \in 1 .. Len(L) : L[l] \in [key : Names, value : Values, next : Nat]
         /\ \A s \in 1 .. Len(S) : S[s] \in [list : Nat, parent : Nat]
<1>1. Len(L) \in Nat /\ L \in [1 .. Len(L) -> [key : Names, value : Values, next : Nat]]
  BY LenProperties DEF Belongs
<1>2. Len(S) \in Nat /\ S \in [1 .. Len(S) -> [list : Nat, parent : Nat]]
  BY LenProperties DEF Belongs
<1> QED
  BY <1>1, <1>2

LEMMA InListsFacts ==
  ASSUME NEW own, NEW L, NEW S, Belongs(own, L, S), NEW k, NEW f, InLists(f, L, k)
  PROVE  \A l \in 0 .. Len(L) :
           /\ f[l] = IF l = 0 \/ L[l].key = k THEN l ELSE f[L[l].next]
           /\ f[l] \in 0 .. l
           /\ f[l] # 0 => L[f[l]].key = k /\ own[f[l]] = own[l]
<1>0. PICK n \in Nat : n = Len(L)
  BY BelongsFacts
<1>1. \A l \in 0 .. n : f[l] = IF l = 0 \/ L[l].key = k THEN l ELSE f[L[l].next]
  <2> SUFFICES ASSUME NEW l \in 0 .. n PROVE f[l] = IF l = 0 \/ L[l].key = k THEN l ELSE f[L[l].next]
    OBVIOUS
  <2>1. f = [d \in 0 .. n |-> IF d = 0 \/ L[d].key = k THEN d ELSE f[L[d].next]]
    BY <1>0 DEF InLists
  <2> QED
    BY <2>1
<1> DEFINE Good(l) == f[l] \in 0 .. l /\ (f[l] # 0 => L[f[l]].key = k /\ own[f[l]] = own[l])
           D == {m \in 0 .. n : \A l \in 0 .. m : Good(l)}
<1>2. 0 \in D
  BY <1>1
<1>3. ASSUME NEW m \in 0 .. n - 1, m \in D PROVE m + 1 \in D
  <2>1. m + 1 \in 1 .. n /\ m + 1 # 0 /\ \A l \in 0 .. m : Good(l)
    BY <1>3
  <2>2. /\ L[m + 1].next \in 0 .. m
        /\ (L[m + 1].next # 0 => own[L[m + 1].next] = own[m + 1])
    BY <1>0, <2>1 DEF Belongs
  <2>3. Good(m + 1)
    <3>1. CASE L[m + 1].key = k
      BY <1>1, <2>1, <3>1
    <3>2. CASE L[m + 1].key # k
      <4>1. f[m + 1] = f[L[m + 1].next] /\ f[0] = 0
        BY <1>1, <2>1, <3>2
      <4>2. Good(L[m + 1].next)
        BY <2>1, <2>2
      <4>3. L[m + 1].next = 0 => f[m + 1] = 0
        BY <4>1
      <4> QED
        BY <2>2, <4>1, <4>2, <4>3
    <3> QED
      BY <3>1, <3>2
  <2> HIDE DEF Good
  <2> QED
    BY <2>1, <2>3
<1>4. \A m \in 0 .. n : m \in D
  <2> HIDE DEF D
  <2> QED
    BY <1>2, <1>3, SetInduction
<1> QED
  BY <1>0, <1>1, <1>4

Lengthens(L, M) ==
  Len(L) <= Len(M) /\ \A l \in 1 .. Len(L) : M[l].key = L[l].key /\ M[l].next = L[l].next

\* Neither an entry more nor another value changes what the older lists give.
LEMMA InListsAgree ==
  ASSUME NEW own, NEW L, NEW S, Belongs(own, L, S), NEW more, NEW M, NEW R, Belongs(more, M, R),
         NEW k, NEW f, InLists(f, L, k), NEW h, InLists(h, M, k), Lengthens(L, M)
  PROVE  \A l \in 0 .. Len(L) : h[l] = f[l]
<1>0. PICK n \in Nat : n = Len(L)
  BY BelongsFacts
<1> USE DEF Lengthens
<1>1. \A l \in 0 .. n : f[l] = IF l = 0 \/ L[l].key = k THEN l ELSE f[L[l].next]
  BY <1>0, InListsFacts
<1>2. \A l \in 0 .. n : h[l] = IF l = 0 \/ M[l].key = k THEN l ELSE h[M[l].next]
  <2>1. \A l \in 0 .. n : l \in 0 .. Len(M)
    BY <1>0, BelongsFacts
  <2> QED
    BY <2>1, InListsFacts
<1> DEFINE D == {m \in 0 .. n : \A l \in 0 .. m : h[l] = f[l]}
<1>3. 0 \in D
  BY <1>1, <1>2
<1>4. ASSUME NEW m \in 0 .. n - 1, m \in D PROVE m + 1 \in D
  <2>1. m + 1 \in 1 .. n /\ m + 1 # 0 /\ \A l \in 0 .. m : h[l] = f[l]
    BY <1>4
  <2>2. L[m + 1].next \in 0 .. m /\ M[m + 1].key = L[m + 1].key /\ M[m + 1].next = L[m + 1].next
    BY <1>0, <2>1 DEF Belongs
  <2>3. h[m + 1] = f[m + 1]
    BY <1>1, <1>2, <2>1, <2>2
  <2> QED
    BY <2>1, <2>3
<1>5. \A m \in 0 .. n : m \in D
  <2> HIDE DEF D
  <2> QED
    BY <1>3, <1>4, SetInduction
<1> QED
  BY <1>0, <1>5

\* What Find gives is on the list of a scope at or around s.
LEMMA InScopesFacts ==
  ASSUME NEW own, NEW L, NEW S, Belongs(own, L, S), NEW k, NEW f, InLists(f, L, k),
         NEW g, InScopes(g, f, S)
  PROVE  /\ g[0] = 0
         /\ \A s \in 1 .. Len(S) :
              /\ g[s] = IF f[S[s].list] # 0 THEN f[S[s].list] ELSE g[S[s].parent]
              /\ f[S[s].list] \in 0 .. Len(L)
              /\ f[S[s].list] # 0 => own[f[S[s].list]] = s /\ L[f[S[s].list]].key = k
         /\ \A s \in 0 .. Len(S) :
              /\ g[s] \in 0 .. Len(L)
              /\ g[s] # 0 => /\ own[g[s]] \in 1 .. s /\ L[g[s]].key = k
                             /\ f[S[own[g[s]]].list] = g[s]
<1>0. PICK n \in Nat : n = Len(S)
  BY BelongsFacts
<1>1. \A s \in 0 .. n :
        g[s] = IF s = 0 THEN 0 ELSE IF f[S[s].list] # 0 THEN f[S[s].list] ELSE g[S[s].parent]
  <2> SUFFICES ASSUME NEW s \in 0 .. n
               PROVE  g[s] = IF s = 0 THEN 0
                             ELSE IF f[S[s].list] # 0 THEN f[S[s].list] ELSE g[S[s].parent]
    OBVIOUS
  <2>1. g = [q \in 0 .. n |->
              IF q = 0 THEN 0 ELSE IF f[S[q].list] # 0 THEN f[S[q].list] ELSE g[S[q].parent]]
    BY <1>0 DEF InScopes
  <2> QED
    BY <2>1
<1>2. g[0] = 0
  BY <1>1
<1>3. ASSUME NEW s \in 1 .. n
      PROVE  /\ g[s] = IF f[S[s].list] # 0 THEN f[S[s].list] ELSE g[S[s].parent]
             /\ f[S[s].list] \in 0 .. Len(L)
             /\ f[S[s].list] # 0 => own[f[S[s].list]] = s /\ L[f[S[s].list]].key = k
  <2>1. S[s].list \in 0 .. Len(L) /\ (S[s].list # 0 => own[S[s].list] = s)
    BY <1>0 DEF Belongs
  <2>2. /\ f[S[s].list] \in 0 .. S[s].list
        /\ f[S[s].list] # 0 => L[f[S[s].list]].key = k /\ own[f[S[s].list]] = own[S[s].list]
    BY <2>1, InListsFacts
  <2>3. f[S[s].list] \in 0 .. Len(L) /\ (S[s].list = 0 => f[S[s].list] = 0)
    BY <2>1, <2>2, BelongsFacts
  <2>4. g[s] = IF f[S[s].list] # 0 THEN f[S[s].list] ELSE g[S[s].parent]
    BY <1>1
  <2> QED
    BY <2>1, <2>2, <2>3, <2>4
<1> DEFINE Good(s) ==
             /\ g[s] \in 0 .. Len(L)
             /\ g[s] # 0 => /\ own[g[s]] \in 1 .. s /\ L[g[s]].key = k
                            /\ f[S[own[g[s]]].list] = g[s]
           D == {m \in 0 .. n : \A s \in 0 .. m : Good(s)}
<1>4. 0 \in D
  BY <1>2, BelongsFacts
<1>5. ASSUME NEW m \in 0 .. n - 1, m \in D PROVE m + 1 \in D
  <2>1. m + 1 \in 1 .. n /\ \A s \in 0 .. m : Good(s)
    BY <1>5
  <2>2. S[m + 1].parent \in 0 .. m
    <3>1. m + 1 \in 1 .. Len(S) /\ (m + 1) - 1 = m
      BY <1>0, <2>1
    <3> HIDE DEF Good
    <3> QED
      BY <3>1 DEF Belongs
  <2>3. Good(m + 1)
    <3>1. CASE f[S[m + 1].list] # 0
      BY <1>3, <2>1, <3>1
    <3>2. CASE f[S[m + 1].list] = 0
      <4>1. g[m + 1] = g[S[m + 1].parent]
        BY <1>3, <2>1, <3>2
      <4>2. Good(S[m + 1].parent)
        BY <2>1, <2>2
      <4>3. \A o \in 1 .. S[m + 1].parent : o \in 1 .. m + 1
        BY <2>2
      <4> QED
        BY <4>1, <4>2, <4>3
    <3> QED
      BY <3>1, <3>2
  <2> HIDE DEF Good
  <2> QED
    BY <2>1, <2>3
<1>6. \A m \in 0 .. n : m \in D
  <2> HIDE DEF D
  <2> QED
    BY <1>4, <1>5, SetInduction
<1> QED
  BY <1>0, <1>2, <1>3, <1>6

\* Find and the values seen, by way of the two loops.
Loops(f, g, L, S, k) ==
  /\ InLists(f, L, k) /\ InScopes(g, f, S)
  /\ \A s \in 0 .. Len(S) : FindIn(L, S, s, k) = g[s]
  /\ \A s \in 1 .. Len(S) :
       BoundIn(L, S)[s][k] = IF f[S[s].list] = 0 THEN None ELSE L[f[S[s].list]].value

LEMMA FindIs ==
  ASSUME NEW own, NEW L, NEW S, Belongs(own, L, S), NEW k \in Names
  PROVE  \E f, g : Loops(f, g, L, S, k)
<1>0. /\ Len(L) \in Nat /\ Len(S) \in Nat /\ DOMAIN S = 1 .. Len(S)
  BY BelongsFacts
<1> DEFINE f == CHOOSE f : InLists(f, L, k)
           g == CHOOSE g : InScopes(g, f, S)
<1>1. InLists(f, L, k)
  <2> DEFINE stop == {l \in 0 .. Len(L) : l = 0 \/ L[l].key = k}
             val == [l \in 0 .. Len(L) |-> l]
             down == [l \in 0 .. Len(L) |-> L[l].next]
  <2>1. 0 \in stop /\ \A l \in 0 .. Len(L) : l \notin stop => down[l] \in 0 .. l - 1
    BY <1>0 DEF Belongs
  <2>2. PICK h : Descends(h, Len(L), stop, val, down)
    <3> HIDE DEF stop, val, down
    <3> QED
      BY <1>0, <2>1, DownwardExists
  <2>3. h = [l \in 0 .. Len(L) |-> IF l = 0 \/ L[l].key = k THEN l ELSE h[L[l].next]]
    <3> DEFINE e == [l \in 0 .. Len(L) |-> IF l \in stop THEN val[l] ELSE h[down[l]]]
               d == [l \in 0 .. Len(L) |-> IF l = 0 \/ L[l].key = k THEN l ELSE h[L[l].next]]
    <3>1. \A l \in 0 .. Len(L) : e[l] = d[l]
      OBVIOUS
    <3>2. e = d
      BY <3>1, Zenon
    <3> QED
      BY <2>2, <3>2, Zenon DEF Descends
  <2>4. InLists(h, L, k)
    BY <2>3, Zenon DEF InLists
  <2> QED
    BY <2>4
<1> HIDE DEF f
<1>2. InScopes(g, f, S)
  <2> DEFINE stop == {q \in 0 .. Len(S) : q = 0 \/ f[S[q].list] # 0}
             val == [q \in 0 .. Len(S) |-> IF q = 0 THEN 0 ELSE f[S[q].list]]
             down == [q \in 0 .. Len(S) |-> S[q].parent]
  <2>1. 0 \in stop /\ \A q \in 0 .. Len(S) : q \notin stop => down[q] \in 0 .. q - 1
    BY <1>0 DEF Belongs
  <2>2. PICK h : Descends(h, Len(S), stop, val, down)
    <3> HIDE DEF stop, val, down
    <3> QED
      BY <1>0, <2>1, DownwardExists
  <2>3. h = [q \in 0 .. Len(S) |->
               IF q = 0 THEN 0 ELSE IF f[S[q].list] # 0 THEN f[S[q].list] ELSE h[S[q].parent]]
    <3> DEFINE e == [q \in 0 .. Len(S) |-> IF q \in stop THEN val[q] ELSE h[down[q]]]
               d == [q \in 0 .. Len(S) |->
                       IF q = 0 THEN 0 ELSE IF f[S[q].list] # 0 THEN f[S[q].list] ELSE h[S[q].parent]]
    <3>1. \A q \in 0 .. Len(S) : e[q] = d[q]
      OBVIOUS
    <3>2. e = d
      BY <3>1, Zenon
    <3> QED
      BY <2>2, <3>2, Zenon DEF Descends
  <2>4. InScopes(h, f, S)
    BY <2>3, Zenon DEF InScopes
  <2> QED
    BY <2>4
<1>3. \A s \in 0 .. Len(S) : FindIn(L, S, s, k) = g[s]
  BY DEF FindIn, f
<1> HIDE DEF g
<1>4. ASSUME NEW s \in 1 .. Len(S)
      PROVE  BoundIn(L, S)[s][k] = IF f[S[s].list] = 0 THEN None ELSE L[f[S[s].list]].value
  <2>1. S[s].parent \in 0 .. Len(S) /\ S[s].parent \in 0 .. s - 1 /\ s \in 0 .. Len(S)
    BY <1>0 DEF Belongs
  <2>2. BoundIn(L, S)[s][k] = IF g[s] = g[S[s].parent] THEN None ELSE L[g[s]].value
    BY <1>0, <1>3, <2>1 DEF BoundIn
  <2>3. /\ g[s] = IF f[S[s].list] # 0 THEN f[S[s].list] ELSE g[S[s].parent]
        /\ f[S[s].list] # 0 => own[f[S[s].list]] = s
    BY <1>1, <1>2, InScopesFacts
  <2>4. g[S[s].parent] # 0 => own[g[S[s].parent]] \in 1 .. S[s].parent
    BY <1>1, <1>2, <2>1, InScopesFacts
  <2>5. f[S[s].list] # 0 => g[s] # g[S[s].parent]
    BY <2>1, <2>3, <2>4
  <2> QED
    BY <2>2, <2>3, <2>5
<1>5. Loops(f, g, L, S, k)
  BY <1>1, <1>2, <1>3, <1>4 DEF Loops
<1> QED
  BY <1>5

\* The scopes around s in n rounds, as Environment computes them.
OuterFrom(o, P, s) ==
  o = [n \in 0 .. Len(P) |-> IF n = 0 THEN {s} ELSE o[n - 1] \cup ({P[q] : q \in o[n - 1] \ {0}})]
AroundIn(P, s) == (CHOOSE o : OuterFrom(o, P, s))[Len(P)] \ {0}
KnowingIn(P, B, s, k) == {q \in AroundIn(P, s) : B[q][k] # None}
NearestIn(P, B, s, k) ==
  CHOOSE q \in KnowingIn(P, B, s, k) : \A r \in KnowingIn(P, B, s, k) : r <= q

LEMMA OuterExists ==
  ASSUME NEW P, NEW m \in Nat, Len(P) = m, \A q \in 1 .. m : P[q] \in 0 .. m, NEW s \in 0 .. m
  PROVE  \E o : OuterFrom(o, P, s)
<1> DEFINE X == SUBSET (0 .. m)
           step == [Y \in X |-> Y \cup ({P[q] : q \in Y \ {0}})]
<1>1. step \in [X -> X] /\ {s} \in X
  <2>1. ASSUME NEW Y \in X PROVE Y \cup ({P[q] : q \in Y \ {0}}) \in X
    <3>1. \A q \in Y \ {0} : P[q] \in 0 .. m
      OBVIOUS
    <3> QED
      BY <3>1
  <2> QED
    BY <2>1
<1> HIDE DEF X
<1>2. PICK r \in [0 .. m -> X] : Iterates(r, step, {s}, m)
  BY <1>1, IterationExists
<1>3. ASSUME NEW n \in 0 .. m
      PROVE  r[n] = IF n = 0 THEN {s} ELSE r[n - 1] \cup ({P[q] : q \in r[n - 1] \ {0}})
  <2>1. CASE n = 0
    BY <1>2, <2>1 DEF Iterates
  <2>2. CASE n # 0
    <3>1. n \in 1 .. m /\ n - 1 \in 0 .. m
      BY <2>2
    <3>2. r[n] = step[r[n - 1]] /\ r[n - 1] \in X
      BY <1>2, <3>1 DEF Iterates
    <3> QED
      BY <2>2, <3>2
  <2> QED
    BY <2>1, <2>2
<1>4. r = [n \in 0 .. m |-> r[n]]
  BY <1>2
<1>5. r = [n \in 0 .. m |-> IF n = 0 THEN {s} ELSE r[n - 1] \cup ({P[q] : q \in r[n - 1] \ {0}})]
  BY <1>3, <1>4
<1> QED
  BY <1>5 DEF OuterFrom

\* The nearest scope that knows k is the one whose list has what Find finds.
LEMMA NearestIs ==
  ASSUME NEW own, NEW L, NEW S, Belongs(own, L, S), NEW k \in Names,
         NEW f, NEW g, Loops(f, g, L, S, k), None \notin Values,
         NEW s \in 1 .. Len(S)
  PROVE  /\ KnowingIn(ParentsOf(S), BoundIn(L, S), s, k) = {} <=> g[s] = 0
         /\ g[s] # 0 => NearestIn(ParentsOf(S), BoundIn(L, S), s, k) = own[g[s]]
<1> DEFINE P == ParentsOf(S)
           K == KnowingIn(P, BoundIn(L, S), s, k)
<1>0. PICK m \in Nat : m = Len(S) /\ DOMAIN S = 1 .. m
  BY BelongsFacts
<1> USE DEF Loops
<1>1. Len(P) = m /\ \A q \in 1 .. m : P[q] = S[q].parent /\ P[q] \in 0 .. q - 1 /\ P[q] \in 0 .. m
  <2>1. Len(P) = m
    BY <1>0 DEF ParentsOf
  <2>2. \A q \in 1 .. m : P[q] = S[q].parent /\ S[q].parent \in 0 .. q - 1
    BY <1>0 DEF ParentsOf, Belongs
  <2> HIDE DEF P
  <2> QED
    BY <1>0, <2>1, <2>2
<1> HIDE DEF P
<1>2. PICK o : OuterFrom(o, P, s) /\ AroundIn(P, s) = o[m] \ {0}
  <2>1. s \in 0 .. m
    BY <1>0
  <2> QED
    BY <1>1, <2>1, OuterExists DEF AroundIn
<1>3. /\ o[0] = {s}
      /\ \A n \in 0 .. m - 1 : o[n + 1] = o[n] \cup ({P[q] : q \in o[n] \ {0}})
  <2>1. o = [n \in 0 .. m |-> IF n = 0 THEN {s} ELSE o[n - 1] \cup ({P[q] : q \in o[n - 1] \ {0}})]
    BY <1>1, <1>2 DEF OuterFrom
  <2>2. o[0] = {s}
    BY <2>1
  <2>3. ASSUME NEW n \in 0 .. m - 1 PROVE o[n + 1] = o[n] \cup ({P[q] : q \in o[n] \ {0}})
    <3>1. n + 1 \in 0 .. m /\ n + 1 # 0 /\ (n + 1) - 1 = n
      OBVIOUS
    <3>2. \A d \in 0 .. m : o[d] = IF d = 0 THEN {s} ELSE o[d - 1] \cup ({P[q] : q \in o[d - 1] \ {0}})
      BY <2>1
    <3> QED
      BY <3>1, <3>2
  <2> QED
    BY <2>2, <2>3
<1>4. /\ g[0] = 0
      /\ \A q \in 1 .. m :
           /\ g[q] = IF f[S[q].list] # 0 THEN f[S[q].list] ELSE g[P[q]]
           /\ f[S[q].list] # 0 => own[f[S[q].list]] = q
  <2>1. g[0] = 0
    BY InScopesFacts
  <2>2. ASSUME NEW q \in 1 .. m
        PROVE  /\ g[q] = IF f[S[q].list] # 0 THEN f[S[q].list] ELSE g[P[q]]
               /\ f[S[q].list] # 0 => own[f[S[q].list]] = q
    <3>1. q \in 1 .. Len(S) /\ P[q] = S[q].parent
      BY <1>0, <1>1
    <3> QED
      BY <3>1, InScopesFacts
  <2> QED
    BY <2>1, <2>2
<1>5. g[s] # 0 => own[g[s]] \in 1 .. s
  <2>1. s \in 0 .. Len(S)
    BY <1>0
  <2> QED
    BY <2>1, InScopesFacts
<1>6. \A q \in 1 .. m : BoundIn(L, S)[q][k] # None <=> f[S[q].list] # 0
  <2> SUFFICES ASSUME NEW q \in 1 .. m, f[S[q].list] # 0 PROVE L[f[S[q].list]].value # None
    BY <1>0
  <2>1. f[S[q].list] \in 0 .. Len(L)
    BY <1>0, InScopesFacts
  <2>2. f[S[q].list] \in 1 .. Len(L)
    BY <2>1, BelongsFacts
  <2> QED
    BY <2>2, BelongsFacts
\* Outwards from s, a scope gives what s gives until the owner of that is passed.
<1> DEFINE Passed(r) == r \in 0 .. s /\ (g[r] = g[s] \/ (g[s] # 0 /\ r < own[g[s]]))
<1>7. \A n \in 0 .. m : \A r \in o[n] : Passed(r)
  <2> DEFINE D == {n \in 0 .. m : \A r \in o[n] : Passed(r)}
  <2>1. 0 \in D
    BY <1>0, <1>3
  <2>2. ASSUME NEW n \in 0 .. m - 1, n \in D PROVE n + 1 \in D
    <3> SUFFICES ASSUME NEW r \in o[n + 1] PROVE Passed(r)
      OBVIOUS
    <3>1. CASE r \in o[n]
      BY <2>2, <3>1
    <3>2. CASE r \notin o[n]
      <4>1. PICK q \in o[n] \ {0} : r = P[q]
        BY <1>3, <3>2
      <4>2. Passed(q)
        BY <2>2, <4>1
      <4>3. q \in 1 .. s /\ q \in 1 .. m /\ r \in 0 .. q - 1
        BY <1>0, <1>1, <4>1, <4>2
      <4> QED
        BY <1>4, <1>5, <4>1, <4>2, <4>3
    <3> QED
      BY <3>1, <3>2
  <2>3. \A n \in 0 .. m : n \in D
    <3> HIDE DEF D
    <3> QED
      BY <2>1, <2>2, SetInduction
  <2> QED
    BY <2>3
<1>8. ASSUME NEW q \in K PROVE g[s] # 0 /\ q <= own[g[s]] /\ q \in 1 .. m
  <2>1. q \in o[m] /\ q # 0 /\ BoundIn(L, S)[q][k] # None
    BY <1>2 DEF KnowingIn
  <2>2. Passed(q)
    BY <1>7, <2>1
  <2>3. q \in 1 .. m
    BY <1>0, <2>1, <2>2
  <2>4. f[S[q].list] # 0 /\ g[q] = f[S[q].list] /\ own[g[q]] = q
    BY <1>4, <1>6, <2>1, <2>3
  <2> QED
    BY <1>5, <2>2, <2>3, <2>4
\* After n rounds the owner is reached, or a scope that is n scopes further out.
<1>9. ASSUME g[s] # 0 PROVE own[g[s]] \in K
  <2> DEFINE Near(n, r) == r \in 0 .. m /\ g[r] = g[s] /\ (r + n <= s \/ (r # 0 /\ f[S[r].list] # 0))
             D == {n \in 0 .. m : \E r \in o[n] : Near(n, r)}
  <2>1. 0 \in D
    BY <1>0, <1>3
  <2>2. ASSUME NEW n \in 0 .. m - 1, n \in D PROVE n + 1 \in D
    <3>1. PICK r \in o[n] : Near(n, r)
      BY <2>2
    <3>2. r # 0 /\ r \in 1 .. m
      BY <1>4, <1>9, <3>1
    <3>3. CASE f[S[r].list] # 0
      <4>1. r \in o[n + 1] /\ Near(n + 1, r)
        BY <1>3, <3>1, <3>2, <3>3
      <4> QED
        BY <4>1
    <3>4. CASE f[S[r].list] = 0
      <4>1. P[r] \in o[n + 1]
        BY <1>3, <3>1, <3>2
      <4>2. P[r] \in 0 .. r - 1 /\ g[P[r]] = g[s] /\ r + n <= s /\ P[r] \in 0 .. m
        BY <1>1, <1>4, <3>1, <3>2, <3>4
      <4>3. Near(n + 1, P[r])
        BY <3>2, <4>2
      <4> QED
        BY <4>1, <4>3
    <3> QED
      BY <3>3, <3>4
  <2>3. m \in D
    <3> HIDE DEF D
    <3>1. \A n \in 0 .. m : n \in D
      BY <2>1, <2>2, SetInduction
    <3> QED
      BY <3>1
  <2>4. PICK r \in o[m] : Near(m, r)
    BY <2>3
  <2>5. r # 0 /\ r \in 1 .. m /\ f[S[r].list] # 0
    BY <1>0, <1>4, <1>9, <2>4
  <2>6. own[g[s]] = r
    BY <1>4, <2>4, <2>5
  <2> QED
    BY <1>2, <1>6, <2>4, <2>5, <2>6 DEF KnowingIn
<1>10. ASSUME g[s] # 0 PROVE NearestIn(P, BoundIn(L, S), s, k) = own[g[s]]
  <2>1. own[g[s]] \in K /\ \A r \in K : r <= own[g[s]]
    BY <1>8, <1>9, <1>10
  <2>2. own[g[s]] \in Nat /\ K \subseteq Nat
    BY <1>5, <1>8, <1>10
  <2> DEFINE near == NearestIn(P, BoundIn(L, S), s, k)
  <2>3. near \in K /\ \A r \in K : r <= near
    BY <2>1 DEF NearestIn
  <2> HIDE DEF near, K
  <2>4. near = own[g[s]]
    <3>1. near <= own[g[s]] /\ own[g[s]] <= near
      BY <2>1, <2>3
    <3>2. near \in Nat
      BY <2>2, <2>3
    <3> QED
      BY <2>2, <3>1, <3>2
  <2> QED
    BY <2>4 DEF near
<1> QED
  BY <1>8, <1>9, <1>10 DEF P

-----------------------------------------------------------------------------
\* What the steps of Runtime do to the values seen.

LEMMA BoundType ==
  ASSUME NEW own, NEW L, NEW S, Belongs(own, L, S)
  PROVE  BoundIn(L, S) \in [1 .. Len(S) -> [Names -> Values \cup {None}]]
<1>1. ASSUME NEW s \in 1 .. Len(S), NEW k \in Names PROVE BoundIn(L, S)[s][k] \in Values \cup {None}
  <2>1. PICK f, g : Loops(f, g, L, S, k)
    BY FindIs
  <2>2. f[S[s].list] \in 0 .. Len(L)
    BY <2>1, InScopesFacts DEF Loops
  <2>3. f[S[s].list] # 0 => L[f[S[s].list]].value \in Values
    <3>1. f[S[s].list] # 0 => f[S[s].list] \in 1 .. Len(L)
      BY <2>2, BelongsFacts
    <3> QED
      BY <3>1, BelongsFacts
  <2> QED
    BY <2>1, <2>3 DEF Loops
<1>2. DOMAIN S = 1 .. Len(S)
  BY BelongsFacts
<1>3. BoundIn(L, S) = [s \in 1 .. Len(S) |-> [k \in Names |-> BoundIn(L, S)[s][k]]]
  BY <1>2 DEF BoundIn
<1>4. \A s \in 1 .. Len(S) : [k \in Names |-> BoundIn(L, S)[s][k]] \in [Names -> Values \cup {None}]
  BY <1>1
<1> QED
  BY <1>3, <1>4

LEMMA ArrayIsSeq ==
  ASSUME NEW X, NEW m \in Nat, NEW b \in [1 .. m -> X]
  PROVE  b \in Seq(X) /\ Len(b) = m
OBVIOUS

LEMMA AppendIs ==
  ASSUME NEW X, NEW m \in Nat, NEW a \in Seq(X), Len(a) = m, NEW x \in X
  PROVE  /\ Append(a, x) \in Seq(X) /\ Len(Append(a, x)) = m + 1
         /\ \A k \in 1 .. m : Append(a, x)[k] = a[k]
         /\ Append(a, x)[m + 1] = x
BY AppendProperties

LEMMA ScopeAdded ==
  ASSUME NEW own, NEW L, NEW S, Belongs(own, L, S), NEW p \in 0 .. Len(S), Len(S) + 1 <= CAP_SCOPES,
         NEW R, R \in Seq([list : Nat, parent : Nat]), Len(R) = Len(S) + 1,
         \A s \in 1 .. Len(S) : R[s] = S[s], R[Len(S) + 1] = [list |-> 0, parent |-> p]
  PROVE  /\ Belongs(own, L, R)
         /\ ParentsOf(R) = Append(ParentsOf(S), p)
         /\ BoundIn(L, R) = Append(BoundIn(L, S), [k \in Names |-> None])
<1>0. PICK n \in Nat : n = Len(S) /\ DOMAIN S = 1 .. n /\ Len(L) \in Nat
  BY BelongsFacts
<1>1. /\ R \in Seq([list : Nat, parent : Nat]) /\ Len(R) = n + 1 /\ DOMAIN R = 1 .. n + 1
      /\ \A s \in 1 .. n : R[s] = S[s]
      /\ R[n + 1].list = 0 /\ R[n + 1].parent = p
  <2>1. DOMAIN R = 1 .. n + 1
    BY <1>0, LenProperties
  <2> QED
    BY <1>0, <2>1
<1>2. Belongs(own, L, R)
  <2>1. \A l \in 1 .. Len(L) :
          L[l].next \in 0 .. l - 1 /\ own[l] \in 1 .. Len(R) /\ (L[l].next # 0 => own[L[l].next] = own[l])
    <3>1. \A o \in 1 .. Len(S) : o \in 1 .. Len(R)
      BY <1>0, <1>1
    <3> QED
      BY <3>1 DEF Belongs
  <2>2. ASSUME NEW s \in 1 .. Len(R)
        PROVE  R[s].parent \in 0 .. s - 1 /\ R[s].list \in 0 .. Len(L) /\ (R[s].list # 0 => own[R[s].list] = s)
    <3>1. CASE s \in 1 .. n
      <4>1. R[s] = S[s] /\ s \in 1 .. Len(S)
        BY <1>0, <1>1, <3>1
      <4> QED
        BY <4>1 DEF Belongs
    <3>2. CASE s = n + 1
      BY <1>0, <1>1, <3>2
    <3> QED
      BY <1>0, <1>1, <3>1, <3>2
  <2> QED
    BY <1>0, <1>1, <2>1, <2>2 DEF Belongs
<1>3. ParentsOf(R) = Append(ParentsOf(S), p)
  <2>1. ParentsOf(S) \in Seq(Nat) /\ Len(ParentsOf(S)) = n /\ \A s \in 1 .. n : ParentsOf(S)[s] = S[s].parent
    <3>1. \A s \in 1 .. n : S[s].parent \in Nat
      BY <1>0, BelongsFacts
    <3> QED
      BY <1>0, <3>1 DEF ParentsOf
  <2>2. /\ ParentsOf(R) \in Seq(Nat) /\ Len(ParentsOf(R)) = n + 1
        /\ \A s \in 1 .. n + 1 : ParentsOf(R)[s] = R[s].parent
    <3>1. \A s \in 1 .. n + 1 : R[s].parent \in Nat
      BY <1>1, <1>2, BelongsFacts
    <3> QED
      BY <1>1, <3>1 DEF ParentsOf
  <2> DEFINE A == Append(ParentsOf(S), p)
  <2>3. /\ A \in Seq(Nat) /\ Len(A) = n + 1 /\ \A s \in 1 .. n : A[s] = S[s].parent
        /\ A[n + 1] = p
    <3>1. p \in Nat
      BY <1>0
    <3> DEFINE Q == ParentsOf(S)
    <3>2. Q \in Seq(Nat) /\ Len(Q) = n /\ \A s \in 1 .. n : Q[s] = S[s].parent
      BY <2>1
    <3> HIDE DEF Q
    <3>3. /\ Append(Q, p) \in Seq(Nat) /\ Len(Append(Q, p)) = n + 1
          /\ \A s \in 1 .. n : Append(Q, p)[s] = Q[s]
          /\ Append(Q, p)[n + 1] = p
      BY <3>1, <3>2, AppendIs
    <3>4. \A s \in 1 .. n : Append(Q, p)[s] = S[s].parent
      BY <3>2, <3>3
    <3> QED
      BY <3>3, <3>4 DEF Q
  <2> HIDE DEF A
  <2>4. ASSUME NEW s \in 1 .. n + 1 PROVE ParentsOf(R)[s] = A[s]
    <3>1. CASE s \in 1 .. n
      BY <1>1, <2>2, <2>3, <3>1
    <3>2. CASE s = n + 1
      BY <1>1, <2>2, <2>3, <3>2
    <3> QED
      BY <3>1, <3>2
  <2>5. ParentsOf(R) = A
    BY <2>2, <2>3, <2>4, SeqEqual
  <2> QED
    BY <2>5 DEF A
<1>4. BoundIn(L, R) = Append(BoundIn(L, S), [k \in Names |-> None])
  <2> DEFINE X == [Names -> Values \cup {None}]
             A == Append(BoundIn(L, S), [k \in Names |-> None])
  <2>1. BoundIn(L, S) \in Seq(X) /\ Len(BoundIn(L, S)) = n
    <3>1. BoundIn(L, S) \in [1 .. n -> X]
      BY <1>0, BoundType
    <3> HIDE DEF X
    <3> QED
      BY <3>1, ArrayIsSeq
  <2>2. BoundIn(L, R) \in Seq(X) /\ Len(BoundIn(L, R)) = n + 1
    <3>1. BoundIn(L, R) \in [1 .. n + 1 -> X]
      BY <1>1, <1>2, BoundType
    <3>2. n + 1 \in Nat
      OBVIOUS
    <3> HIDE DEF X
    <3> QED
      BY <3>1, <3>2, ArrayIsSeq
  <2>3. /\ A \in Seq(X) /\ Len(A) = n + 1 /\ \A s \in 1 .. n : A[s] = BoundIn(L, S)[s]
        /\ A[n + 1] = [k \in Names |-> None]
    <3>1. [k \in Names |-> None] \in X
      OBVIOUS
    <3> HIDE DEF X
    <3> QED
      BY <2>1, <3>1, AppendIs
  <2>4. ASSUME NEW s \in 1 .. n + 1, NEW k \in Names PROVE BoundIn(L, R)[s][k] = A[s][k]
    <3>1. PICK f, g : Loops(f, g, L, S, k)
      BY FindIs
    <3>2. PICK h, e : Loops(h, e, L, R, k)
      BY <1>2, FindIs
    <3>3. \A l \in 0 .. Len(L) : h[l] = f[l]
      <4>1. Lengthens(L, L)
        BY <1>0 DEF Lengthens
      <4> QED
        BY <1>2, <3>1, <3>2, <4>1, InListsAgree DEF Loops
    <3>4. CASE s \in 1 .. n
      <4>1. R[s] = S[s] /\ S[s].list \in 0 .. Len(L)
        BY <1>0, <1>1, <3>4 DEF Belongs
      <4>2. BoundIn(L, R)[s][k] = BoundIn(L, S)[s][k]
        <5>1. BoundIn(L, S)[s][k] = IF f[S[s].list] = 0 THEN None ELSE L[f[S[s].list]].value
          BY <1>0, <3>1, <3>4 DEF Loops
        <5>2. BoundIn(L, R)[s][k] = IF h[R[s].list] = 0 THEN None ELSE L[h[R[s].list]].value
          BY <1>1, <3>2, <3>4 DEF Loops
        <5> QED
          BY <3>3, <4>1, <5>1, <5>2
      <4> QED
        BY <2>3, <3>4, <4>2
    <3>5. CASE s = n + 1
      <4>1. h[0] = 0
        BY <1>0, <3>2, InListsFacts DEF Loops
      <4>2. BoundIn(L, R)[s][k] = None
        BY <1>1, <3>2, <3>5, <4>1 DEF Loops
      <4> QED
        BY <2>3, <3>5, <4>2
    <3> HIDE DEF A, X
    <3>6. s \in 1 .. n \/ s = n + 1
      OBVIOUS
    <3> QED
      BY <3>4, <3>5, <3>6
  <2> HIDE DEF A
  <2>5. ASSUME NEW s \in 1 .. n + 1 PROVE BoundIn(L, R)[s] = A[s]
    <3>1. BoundIn(L, R)[s] \in X /\ A[s] \in X
      BY <2>2, <2>3, ElementOfSeq
    <3> QED
      BY <2>4, <3>1
  <2>6. BoundIn(L, R) = A
    <3> HIDE DEF X
    <3> QED
      BY <2>2, <2>3, <2>5, SeqEqual
  <2> QED
    BY <2>6 DEF A
<1> QED
  BY <1>2, <1>3, <1>4

LEMMA OneValueSet ==
  ASSUME NEW X, NEW Y, NEW Z, NEW B \in [X -> [Y -> Z]], NEW C \in [X -> [Y -> Z]],
         NEW s \in X, NEW k \in Y, NEW v \in Z,
         \A q \in X : \A j \in Y : C[q][j] = IF q = s /\ j = k THEN v ELSE B[q][j]
  PROVE  C = [B EXCEPT ![s][k] = v]
<1>1. [B EXCEPT ![s][k] = v] \in [X -> [Y -> Z]]
  OBVIOUS
<1>2. ASSUME NEW q \in X PROVE C[q] = [B EXCEPT ![s][k] = v][q]
  <2>1. C[q] \in [Y -> Z] /\ B[q] \in [Y -> Z]
    OBVIOUS
  <2>2. CASE q = s
    <3>1. [B EXCEPT ![s][k] = v][q] = [B[s] EXCEPT ![k] = v]
      BY <2>2
    <3>2. \A j \in Y : C[q][j] = [B[s] EXCEPT ![k] = v][j]
      BY <2>1, <2>2
    <3> QED
      BY <2>1, <2>2, <3>1, <3>2
  <2>3. CASE q # s
    <3>1. [B EXCEPT ![s][k] = v][q] = B[q]
      BY <2>3
    <3>2. \A j \in Y : C[q][j] = B[q][j]
      BY <2>3
    <3> QED
      BY <2>1, <3>1, <3>2
  <2> QED
    BY <2>2, <2>3
<1> QED
  BY <1>1, <1>2

Sets(C, B, s, k, v) == C = [B EXCEPT ![s][k] = v]

\* M and R are L and S with an entry more, at the head of the list of s.
Prepends(M, R, L, S, s, k, v) ==
  /\ M \in Seq([key : Names, value : Values, next : Nat]) /\ Len(M) = Len(L) + 1
  /\ \A l \in 1 .. Len(L) : M[l] = L[l]
  /\ M[Len(L) + 1] = [key |-> k, value |-> v, next |-> S[s].list]
  /\ R \in Seq([list : Nat, parent : Nat]) /\ Len(R) = Len(S)
  /\ \A q \in 1 .. Len(S) : /\ R[q].parent = S[q].parent
                             /\ R[q].list = IF q = s THEN Len(L) + 1 ELSE S[q].list

\* M is L with v for the value of entry t.
Assigns(M, L, t, v) ==
  /\ M \in Seq([key : Names, value : Values, next : Nat]) /\ Len(M) = Len(L)
  /\ \A l \in 1 .. Len(L) : /\ M[l].key = L[l].key /\ M[l].next = L[l].next
                             /\ M[l].value = IF l = t THEN v ELSE L[l].value

LEMMA EntryInserted ==
  ASSUME NEW own, NEW L, NEW S, Belongs(own, L, S), NEW s \in 1 .. Len(S), NEW k \in Names, NEW v \in Values,
         Len(L) + 1 <= CAP_LISTS, NEW M, NEW R, Prepends(M, R, L, S, s, k, v)
  PROVE  /\ \E more : Belongs(more, M, R)
         /\ ParentsOf(R) = ParentsOf(S)
         /\ Sets(BoundIn(M, R), BoundIn(L, S), s, k, v)
<1> USE DEF Prepends
<1>0. PICK n, m : /\ n \in Nat /\ n = Len(L) /\ m \in Nat /\ m = Len(S)
                  /\ DOMAIN S = 1 .. m /\ DOMAIN R = 1 .. m
  <2>1. Len(L) \in Nat /\ Len(S) \in Nat /\ DOMAIN S = 1 .. Len(S)
    BY BelongsFacts
  <2>2. DOMAIN R = 1 .. Len(R)
    BY LenProperties
  <2> QED
    BY <2>1, <2>2
<1>1. /\ M[n + 1].key = k /\ M[n + 1].value = v /\ M[n + 1].next = S[s].list
      /\ \A l \in 1 .. n : M[l].key = L[l].key /\ M[l].value = L[l].value /\ M[l].next = L[l].next
  BY <1>0
<1>2. /\ S[s].list \in 0 .. n /\ (S[s].list # 0 => own[S[s].list] = s)
  BY <1>0 DEF Belongs
<1> DEFINE more == [l \in 1 .. n + 1 |-> IF l = n + 1 THEN s ELSE own[l]]
<1>3. Belongs(more, M, R)
  <2>1. ASSUME NEW l \in 1 .. Len(M)
        PROVE  /\ M[l].next \in 0 .. l - 1 /\ more[l] \in 1 .. Len(R)
               /\ (M[l].next # 0 => more[M[l].next] = more[l])
    <3>1. CASE l = n + 1
      <4>1. M[l].next = S[s].list /\ more[l] = s /\ M[l].next \in 0 .. n
        BY <1>0, <1>1, <1>2, <3>1
      <4>2. M[l].next # 0 => more[M[l].next] = own[M[l].next]
        BY <1>0, <4>1
      <4> QED
        BY <1>0, <1>2, <3>1, <4>1, <4>2
    <3>2. CASE l \in 1 .. n
      <4>1. /\ L[l].next \in 0 .. l - 1 /\ own[l] \in 1 .. m
            /\ (L[l].next # 0 => own[L[l].next] = own[l])
        BY <1>0, <3>2 DEF Belongs
      <4>2. M[l].next = L[l].next /\ more[l] = own[l]
        BY <1>0, <1>1, <3>2
      <4>3. M[l].next # 0 => more[M[l].next] = own[M[l].next]
        <5>1. M[l].next \in 0 .. n
          BY <1>0, <3>2, <4>1, <4>2
        <5> QED
          BY <1>0, <5>1
      <4> QED
        BY <1>0, <4>1, <4>2, <4>3
    <3> QED
      BY <1>0, <3>1, <3>2
  <2>2. ASSUME NEW q \in 1 .. Len(R)
        PROVE  R[q].parent \in 0 .. q - 1 /\ R[q].list \in 0 .. Len(M) /\ (R[q].list # 0 => more[R[q].list] = q)
    <3>1. S[q].parent \in 0 .. q - 1 /\ S[q].list \in 0 .. n /\ (S[q].list # 0 => own[S[q].list] = q)
      BY <1>0 DEF Belongs
    <3>2. CASE q = s
      BY <1>0, <3>1, <3>2
    <3>3. CASE q # s
      <4>1. R[q].list = S[q].list /\ R[q].parent = S[q].parent
        BY <1>0, <3>3
      <4>2. R[q].list # 0 => more[R[q].list] = own[R[q].list]
        BY <1>0, <3>1, <4>1
      <4> QED
        BY <1>0, <3>1, <4>1, <4>2
    <3> QED
      BY <3>2, <3>3
  <2>3. Len(M) <= CAP_LISTS /\ Len(R) <= CAP_SCOPES
    BY DEF Belongs
  <2> HIDE DEF more
  <2> QED
    BY <2>1, <2>2, <2>3 DEF Belongs
<1> HIDE DEF more
<1>4. ParentsOf(R) = ParentsOf(S)
  <2>1. \A q \in 1 .. m : R[q].parent = S[q].parent
    BY <1>0
  <2> QED
    BY <1>0, <2>1 DEF ParentsOf
<1>5. Sets(BoundIn(M, R), BoundIn(L, S), s, k, v)
  <2> DEFINE X == [Names -> Values \cup {None}]
             B == BoundIn(L, S)
             C == BoundIn(M, R)
  <2>1. B \in [1 .. m -> X] /\ C \in [1 .. m -> X]
    BY <1>0, <1>3, BoundType
  <2>2. ASSUME NEW q \in 1 .. m, NEW j \in Names PROVE C[q][j] = IF q = s /\ j = k THEN v ELSE B[q][j]
    <3>1. PICK f, g : Loops(f, g, L, S, j)
      BY FindIs
    <3>2. PICK h, e : Loops(h, e, M, R, j)
      BY <1>3, FindIs
    <3>3. B[q][j] = IF f[S[q].list] = 0 THEN None ELSE L[f[S[q].list]].value
      BY <1>0, <3>1 DEF Loops
    <3>4. C[q][j] = IF h[R[q].list] = 0 THEN None ELSE M[h[R[q].list]].value
      BY <1>0, <3>2 DEF Loops
    <3>5. \A l \in 0 .. n : h[l] = f[l]
      <4>1. Lengthens(L, M)
        BY <1>0, <1>1 DEF Lengthens
      <4>2. InLists(f, L, j) /\ InLists(h, M, j)
        BY <3>1, <3>2 DEF Loops
      <4>3. \A l \in 0 .. Len(L) : h[l] = f[l]
        BY <1>3, <4>1, <4>2, InListsAgree
      <4> QED
        BY <1>0, <4>3
    <3>6. f[S[q].list] \in 0 .. n /\ S[q].list \in 0 .. n
      <4>1. f[S[q].list] \in 0 .. n
        BY <1>0, <3>1, InScopesFacts DEF Loops
      <4> QED
        BY <1>0, <4>1 DEF Belongs
    <3>7. f[S[q].list] # 0 => M[f[S[q].list]].value = L[f[S[q].list]].value
      <4>1. f[S[q].list] # 0 => f[S[q].list] \in 1 .. n
        BY <3>6
      <4> QED
        BY <1>1, <4>1
    <3>8. h[n + 1] = IF j = k THEN n + 1 ELSE h[S[s].list]
      <4>1. n + 1 \in 0 .. Len(M) /\ n + 1 # 0
        BY <1>0
      <4>2. h[n + 1] = IF n + 1 = 0 \/ M[n + 1].key = j THEN n + 1 ELSE h[M[n + 1].next]
        BY <1>3, <3>2, <4>1, InListsFacts DEF Loops
      <4> QED
        BY <1>1, <4>1, <4>2
    <3>9. CASE q # s
      <4>1. R[q].list = S[q].list
        BY <1>0, <3>9
      <4> HIDE DEF B, C, Prepends
      <4> QED
        BY <3>3, <3>4, <3>5, <3>6, <3>7, <3>9, <4>1
    <3>10. CASE q = s
      <4>1. R[q].list = n + 1
        BY <1>0, <3>10
      <4>2. CASE j = k
        BY <1>0, <1>1, <3>4, <3>8, <3>10, <4>1, <4>2
      <4>3. CASE j # k
        <5>1. h[n + 1] = f[S[q].list]
          BY <3>5, <3>6, <3>8, <3>10, <4>3
        <5> QED
          BY <3>3, <3>4, <3>7, <4>1, <4>3, <5>1
      <4> QED
        BY <4>2, <4>3
    <3> QED
      BY <3>9, <3>10
  <2> HIDE DEF B, C
  <2>3. s \in 1 .. m
    BY <1>0
  <2>4. C = [B EXCEPT ![s][k] = v]
    BY <2>3, <2>1, <2>2, OneValueSet
  <2> QED
    BY <2>4 DEF B, C, Sets
<1> QED
  BY <1>3, <1>4, <1>5

LEMMA EntryUpdated ==
  ASSUME NEW own, NEW L, NEW S, Belongs(own, L, S), NEW t \in 1 .. Len(L), NEW v \in Values,
         NEW M, Assigns(M, L, t, v), NEW k \in Names, NEW a, InLists(a, L, k), a[S[own[t]].list] = t
  PROVE  Belongs(own, M, S) /\ Sets(BoundIn(M, S), BoundIn(L, S), own[t], k, v)
<1> USE DEF Assigns
<1>0. PICK n, m : /\ n \in Nat /\ n = Len(L) /\ m \in Nat /\ m = Len(S)
  BY BelongsFacts
<1>1. Belongs(own, M, S)
  BY DEF Belongs
<1> DEFINE s == own[t]
<1>2. s \in 1 .. m
  BY <1>0 DEF Belongs
<1> HIDE DEF s
<1>3. L[t].key = k
  <2>1. S[s].list \in 0 .. Len(L)
    BY <1>0, <1>2 DEF Belongs
  <2>2. a[S[s].list] = t /\ t # 0
    BY DEF s
  <2> QED
    BY <2>1, <2>2, InListsFacts
<1>4. Sets(BoundIn(M, S), BoundIn(L, S), s, k, v)
  <2> DEFINE X == [Names -> Values \cup {None}]
             B == BoundIn(L, S)
             C == BoundIn(M, S)
  <2>1. B \in [1 .. m -> X] /\ C \in [1 .. m -> X]
    BY <1>0, <1>1, BoundType
  <2>2. ASSUME NEW q \in 1 .. m, NEW j \in Names PROVE C[q][j] = IF q = s /\ j = k THEN v ELSE B[q][j]
    <3>1. PICK f, g : Loops(f, g, L, S, j)
      BY FindIs
    <3>2. PICK h, e : Loops(h, e, M, S, j)
      BY <1>1, FindIs
    <3>3. B[q][j] = IF f[S[q].list] = 0 THEN None ELSE L[f[S[q].list]].value
      BY <1>0, <3>1 DEF Loops
    <3>4. C[q][j] = IF h[S[q].list] = 0 THEN None ELSE M[h[S[q].list]].value
      BY <1>0, <3>2 DEF Loops
    <3>5. S[q].list \in 0 .. n
      BY <1>0 DEF Belongs
    <3>6. h[S[q].list] = f[S[q].list]
      <4>1. Lengthens(L, M)
        BY <1>0 DEF Lengthens
      <4>2. InLists(f, L, j) /\ InLists(h, M, j)
        BY <3>1, <3>2 DEF Loops
      <4>3. \A l \in 0 .. Len(L) : h[l] = f[l]
        BY <1>1, <4>1, <4>2, InListsAgree
      <4> QED
        BY <1>0, <3>5, <4>3
    <3>7. /\ f[S[q].list] \in 0 .. n
          /\ f[S[q].list] # 0 => own[f[S[q].list]] = q /\ L[f[S[q].list]].key = j
      BY <1>0, <3>1, InScopesFacts DEF Loops
    <3>8. f[S[q].list] # 0 => M[f[S[q].list]].value = IF f[S[q].list] = t THEN v ELSE L[f[S[q].list]].value
      <4>1. f[S[q].list] # 0 => f[S[q].list] \in 1 .. n
        BY <3>7
      <4> QED
        BY <1>0, <4>1
    <3>9. CASE f[S[q].list] = t
      <4>1. q = s /\ j = k /\ t # 0
        BY <1>0, <1>3, <3>7, <3>9 DEF s
      <4> QED
        BY <3>4, <3>6, <3>8, <3>9, <4>1
    <3>10. CASE f[S[q].list] # t
      <4>1. ~(q = s /\ j = k)
        <5> SUFFICES ASSUME q = s, j = k PROVE FALSE
          OBVIOUS
        <5>1. \A l \in 0 .. n : a[l] = f[l]
          <6>1. Lengthens(L, L)
            BY <1>0 DEF Lengthens
          <6> QED
            BY <1>0, <3>1, <6>1, InListsAgree DEF Loops
        <5>2. a[S[q].list] = t
          BY DEF s
        <5> QED
          BY <3>5, <3>10, <5>1, <5>2
      <4> QED
        BY <3>3, <3>4, <3>6, <3>8, <3>10, <4>1
    <3> QED
      BY <3>9, <3>10
  <2> HIDE DEF B, C
  <2>4. C = [B EXCEPT ![s][k] = v]
    <3> HIDE DEF X, Assigns
    <3>1. C \in [1 .. m -> [Names -> Values \cup {None}]] /\ B \in [1 .. m -> [Names -> Values \cup {None}]]
      BY <2>1 DEF X
    <3>2. v \in Values \cup {None}
      OBVIOUS
    <3> QED
      BY <1>2, <2>2, <3>1, <3>2, OneValueSet
  <2> QED
    BY <2>4 DEF B, C, Sets
<1> QED
  BY <1>1, <1>4 DEF s

-----------------------------------------------------------------------------
ScopesInv == \E own : Belongs(own, lists_used, scopes)

\* The operations of Environment, on the values seen.
EnvironmentStep ==
  LET P == ParentsOf(scopes)
      B == BoundIn(lists_used, scopes)
      n == Len(lists_used)
      Fails(why) == /\ scope_call' = <<why>> /\ ParentsOf(scopes') = P
                    /\ BoundIn(lists_used', scopes') = B /\ Len(lists_used') = n
  IN  \/ \E p \in DOMAIN P \cup {0} :
           IF Len(P) = CAP_SCOPES THEN Fails("full")
           ELSE /\ scope_call' = <<"new", p>>
                /\ ParentsOf(scopes') = Append(P, p)
                /\ BoundIn(lists_used', scopes') = Append(B, [k \in Names |-> None])
                /\ Len(lists_used') = n
      \/ \E s \in DOMAIN P, k \in Names :
           \/ IF KnowingIn(P, B, s, k) = {} THEN Fails("unbound")
              ELSE /\ scope_call' = <<"lookup", s, k, B[NearestIn(P, B, s, k)][k]>>
                   /\ ParentsOf(scopes') = P /\ BoundIn(lists_used', scopes') = B
                   /\ Len(lists_used') = n
           \/ \E v \in Values :
                \/ IF n = CAP_LISTS THEN Fails("full")
                   ELSE /\ scope_call' = <<"insert", s, k, v>>
                        /\ ParentsOf(scopes') = P
                        /\ BoundIn(lists_used', scopes') = [B EXCEPT ![s][k] = v]
                        /\ Len(lists_used') = n + 1
                \/ IF KnowingIn(P, B, s, k) = {} THEN Fails("unbound")
                   ELSE /\ scope_call' = <<"update", s, k, v>>
                        /\ ParentsOf(scopes') = P
                        /\ BoundIn(lists_used', scopes') = [B EXCEPT ![NearestIn(P, B, s, k)][k] = v]
                        /\ Len(lists_used') = n

LEMMA AtBound ==
  ASSUME NEW a \in Nat, NEW b \in Nat, a <= b
  PROVE  /\ b <= a => a = b
         /\ ~(b <= a) => a # b /\ a + 1 <= b
OBVIOUS

LEMMA NewFollows ==
  ASSUME NEW own, Belongs(own, lists_used, scopes), NEW p \in DOMAIN scopes \cup {0},
         Runtime!scope_new_from(p)
  PROVE  ScopesInv' /\ EnvironmentStep
<1>0. /\ Len(lists_used) \in Nat /\ Len(scopes) \in Nat /\ DOMAIN scopes = 1 .. Len(scopes)
      /\ Len(scopes) <= CAP_SCOPES
  BY BelongsFacts DEF Belongs
<1>1. /\ DOMAIN ParentsOf(scopes) = DOMAIN scopes /\ Len(ParentsOf(scopes)) = Len(scopes)
      /\ p \in 0 .. Len(scopes)
  BY <1>0 DEF ParentsOf
<1>2. CASE CAP_SCOPES <= Len(scopes)
  <2>0. Len(scopes) = CAP_SCOPES
    BY <1>0, <1>2, ScopeAssumption, AtBound
  <2>1. Len(ParentsOf(scopes)) = CAP_SCOPES
    BY <1>1, <2>0
  <2>2. scope_call' = <<"full">> /\ UNCHANGED <<lists_used, scopes>>
    BY <1>2 DEF Runtime!scope_new_from, Runtime!Exit
  <2> QED
    BY <1>1, <2>1, <2>2 DEF EnvironmentStep, ScopesInv
<1>3. CASE ~(CAP_SCOPES <= Len(scopes))
  <2>0. Len(scopes) # CAP_SCOPES /\ Len(scopes) + 1 <= CAP_SCOPES
    BY <1>0, <1>3, ScopeAssumption, AtBound
  <2>1. Len(ParentsOf(scopes)) # CAP_SCOPES /\ Len(scopes) + 1 <= CAP_SCOPES
    BY <1>1, <2>0
  <2>2. /\ scopes' = Append(scopes, [list |-> 0, parent |-> p])
        /\ scope_call' = <<"new", p>> /\ lists_used' = lists_used
    BY <1>3 DEF Runtime!scope_new_from
  <2>3. /\ scopes' \in Seq([list : Nat, parent : Nat]) /\ Len(scopes') = Len(scopes) + 1
        /\ \A s \in 1 .. Len(scopes) : scopes'[s] = scopes[s]
        /\ scopes'[Len(scopes) + 1] = [list |-> 0, parent |-> p]
    <3>1. [list |-> 0, parent |-> p] \in [list : Nat, parent : Nat] /\ scopes \in Seq([list : Nat, parent : Nat])
      BY <1>1 DEF Belongs
    <3> QED
      BY <2>2, <3>1, AppendProperties
  <2>4. /\ Belongs(own, lists_used, scopes')
        /\ ParentsOf(scopes') = Append(ParentsOf(scopes), p)
        /\ BoundIn(lists_used, scopes') = Append(BoundIn(lists_used, scopes), [k \in Names |-> None])
    BY <1>1, <2>1, <2>3, ScopeAdded
  <2> QED
    BY <1>1, <2>1, <2>2, <2>4 DEF EnvironmentStep, ScopesInv
<1> QED
  BY <1>2, <1>3

LEMMA InsertFollows ==
  ASSUME NEW own, Belongs(own, lists_used, scopes), NEW s \in DOMAIN scopes, NEW k \in Names, NEW v \in Values,
         Runtime!scope_insert(s, k, v)
  PROVE  ScopesInv' /\ EnvironmentStep
<1>0. /\ Len(lists_used) \in Nat /\ Len(scopes) \in Nat /\ DOMAIN scopes = 1 .. Len(scopes)
      /\ Len(lists_used) <= CAP_LISTS
  BY BelongsFacts DEF Belongs
<1>1. DOMAIN ParentsOf(scopes) = DOMAIN scopes
  BY <1>0 DEF ParentsOf
<1>2. CASE CAP_LISTS <= Len(lists_used)
  <2>1. Len(lists_used) = CAP_LISTS
    BY <1>0, <1>2, ScopeAssumption, AtBound
  <2>2. scope_call' = <<"full">> /\ UNCHANGED <<lists_used, scopes>>
    BY <1>2 DEF Runtime!scope_insert, Runtime!Exit
  <2> QED
    BY <1>1, <2>1, <2>2 DEF EnvironmentStep, ScopesInv
<1>3. CASE ~(CAP_LISTS <= Len(lists_used))
  <2>1. Len(lists_used) # CAP_LISTS /\ Len(lists_used) + 1 <= CAP_LISTS /\ s \in 1 .. Len(scopes)
    BY <1>0, <1>3, ScopeAssumption
  <2> DEFINE e == [key |-> k, value |-> v, next |-> scopes[s].list]
  <2>2. /\ lists_used' = Append(lists_used, e)
        /\ scopes' = [scopes EXCEPT ![s].list = Len(lists_used')]
        /\ scope_call' = <<"insert", s, k, v>>
    BY <1>3 DEF Runtime!scope_insert
  <2>3. /\ lists_used' \in Seq([key : Names, value : Values, next : Nat]) /\ Len(lists_used') = Len(lists_used) + 1
        /\ \A l \in 1 .. Len(lists_used) : lists_used'[l] = lists_used[l]
        /\ lists_used'[Len(lists_used) + 1] = e
    <3>1. e \in [key : Names, value : Values, next : Nat]
      BY <2>1, BelongsFacts
    <3>2. lists_used \in Seq([key : Names, value : Values, next : Nat])
      BY DEF Belongs
    <3> HIDE DEF e
    <3> QED
      BY <2>2, <3>1, <3>2, AppendProperties
  <2>4. /\ scopes' \in Seq([list : Nat, parent : Nat]) /\ Len(scopes') = Len(scopes)
        /\ \A q \in 1 .. Len(scopes) :
             /\ scopes'[q].parent = scopes[q].parent
             /\ scopes'[q].list = IF q = s THEN Len(lists_used) + 1 ELSE scopes[q].list
    <3>1. PICK m, d : m \in Nat /\ m = Len(scopes) /\ d \in Nat /\ d = Len(lists_used')
      BY <1>0, <2>3
    <3>2. scopes \in [1 .. m -> [list : Nat, parent : Nat]] /\ s \in 1 .. m
      BY <2>1, <3>1, LenProperties DEF Belongs
    <3>3. scopes' = [q \in 1 .. m |-> IF q = s THEN [list |-> d, parent |-> scopes[q].parent] ELSE scopes[q]]
      <4>1. scopes' = [scopes EXCEPT ![s] = [scopes[s] EXCEPT !.list = d]]
        BY <2>2, <3>1
      <4>2. [scopes[s] EXCEPT !.list = d] = [list |-> d, parent |-> scopes[s].parent]
        BY <3>2
      <4> QED
        BY <3>2, <4>1, <4>2
    <3>4. scopes' \in [1 .. m -> [list : Nat, parent : Nat]]
      BY <3>1, <3>2, <3>3
    <3>5. scopes' \in Seq([list : Nat, parent : Nat]) /\ Len(scopes') = m
      BY <3>1, <3>3, <3>4
    <3>6. ASSUME NEW q \in 1 .. m
          PROVE  /\ scopes'[q].parent = scopes[q].parent
                 /\ scopes'[q].list = IF q = s THEN d ELSE scopes[q].list
      BY <3>2, <3>3
    <3> QED
      BY <2>3, <3>1, <3>5, <3>6
  <2>5. Prepends(lists_used', scopes', lists_used, scopes, s, k, v)
    BY <2>3, <2>4 DEF Prepends
  <2>6. /\ \E more : Belongs(more, lists_used', scopes')
        /\ ParentsOf(scopes') = ParentsOf(scopes)
        /\ Sets(BoundIn(lists_used', scopes'), BoundIn(lists_used, scopes), s, k, v)
    BY <2>1, <2>5, EntryInserted
  <2>7. EnvironmentStep
    BY <1>1, <2>1, <2>2, <2>3, <2>6 DEF EnvironmentStep, Sets
  <2> QED
    BY <2>6, <2>7 DEF ScopesInv
<1> QED
  BY <1>2, <1>3

LEMMA FoundIs ==
  ASSUME NEW own, Belongs(own, lists_used, scopes), NEW s \in DOMAIN scopes, NEW k \in Names
  PROVE  LET t == Runtime!Find(s, k)
             P == ParentsOf(scopes)
             B == BoundIn(lists_used, scopes)
         IN  /\ KnowingIn(P, B, s, k) = {} <=> t = 0
             /\ t # 0 => /\ t \in 1 .. Len(lists_used) /\ NearestIn(P, B, s, k) = own[t]
                         /\ B[own[t]][k] = lists_used[t].value
                         /\ \E f : InLists(f, lists_used, k) /\ f[scopes[own[t]].list] = t
<1>0. /\ Len(lists_used) \in Nat /\ Len(scopes) \in Nat /\ DOMAIN scopes = 1 .. Len(scopes)
      /\ s \in 1 .. Len(scopes) /\ s \in 0 .. Len(scopes)
  BY BelongsFacts
<1>1. PICK f, g : Loops(f, g, lists_used, scopes, k)
  BY FindIs
<1>2. Runtime!Find(s, k) = g[s]
  <2>1. Runtime!Find(s, k) = FindIn(lists_used, scopes, s, k)
    BY DEF Runtime!Find, FindIn, InLists, InScopes
  <2>2. FindIn(lists_used, scopes, s, k) = g[s]
    BY <1>0, <1>1 DEF Loops
  <2> QED
    BY <2>1, <2>2
<1> DEFINE P == ParentsOf(scopes)
           B == BoundIn(lists_used, scopes)
<1>3. /\ KnowingIn(P, B, s, k) = {} <=> g[s] = 0
      /\ g[s] # 0 => NearestIn(P, B, s, k) = own[g[s]]
  BY <1>0, <1>1, NearestIs, ScopeAssumption
<1>4. InLists(f, lists_used, k) /\ InScopes(g, f, scopes)
  BY <1>1 DEF Loops
<1>5. /\ g[s] \in 0 .. Len(lists_used)
      /\ g[s] # 0 => own[g[s]] \in 1 .. s /\ f[scopes[own[g[s]]].list] = g[s]
  BY <1>0, <1>4, InScopesFacts
<1>6. ASSUME g[s] # 0 PROVE B[own[g[s]]][k] = lists_used[g[s]].value /\ g[s] \in 1 .. Len(lists_used)
  <2>1. own[g[s]] \in 1 .. Len(scopes) /\ g[s] \in 1 .. Len(lists_used)
    BY <1>0, <1>5, <1>6
  <2>2. B[own[g[s]]][k] = IF f[scopes[own[g[s]]].list] = 0 THEN None ELSE lists_used[f[scopes[own[g[s]]].list]].value
    BY <1>1, <2>1 DEF Loops
  <2> QED
    BY <1>5, <1>6, <2>1, <2>2
<1> HIDE DEF P, B
<1> QED
  BY <1>2, <1>3, <1>4, <1>5, <1>6 DEF P, B

LEMMA LookupFollows ==
  ASSUME NEW own, Belongs(own, lists_used, scopes), NEW s \in DOMAIN scopes, NEW k \in Names,
         Runtime!scope_lookup(s, k)
  PROVE  ScopesInv' /\ EnvironmentStep
<1> DEFINE t == Runtime!Find(s, k)
           P == ParentsOf(scopes)
           B == BoundIn(lists_used, scopes)
<1>1. /\ KnowingIn(P, B, s, k) = {} <=> t = 0
      /\ t # 0 => B[NearestIn(P, B, s, k)][k] = lists_used[t].value
  BY FoundIs
<1>2. /\ t = 0 => scope_call' = <<"unbound">>
      /\ t # 0 => scope_call' = <<"lookup", s, k, lists_used[t].value>>
      /\ lists_used' = lists_used /\ scopes' = scopes
  BY DEF Runtime!scope_lookup, Runtime!Exit
<1>3. s \in DOMAIN P
  BY BelongsFacts DEF ParentsOf
<1> HIDE DEF t
<1>4. EnvironmentStep
  BY <1>1, <1>2, <1>3 DEF EnvironmentStep
<1> QED
  BY <1>2, <1>4 DEF ScopesInv

LEMMA UpdateFollows ==
  ASSUME NEW own, Belongs(own, lists_used, scopes), NEW s \in DOMAIN scopes, NEW k \in Names, NEW v \in Values,
         Runtime!scope_update(s, k, v)
  PROVE  ScopesInv' /\ EnvironmentStep
<1> DEFINE t == Runtime!Find(s, k)
           P == ParentsOf(scopes)
           B == BoundIn(lists_used, scopes)
<1>1. /\ KnowingIn(P, B, s, k) = {} <=> t = 0
      /\ t # 0 => /\ t \in 1 .. Len(lists_used) /\ NearestIn(P, B, s, k) = own[t]
                  /\ \E f : InLists(f, lists_used, k) /\ f[scopes[own[t]].list] = t
  BY FoundIs
<1>2. /\ t = 0 => scope_call' = <<"unbound">> /\ lists_used' = lists_used
      /\ t # 0 => /\ scope_call' = <<"update", s, k, v>>
                  /\ lists_used' = [lists_used EXCEPT ![t].value = v]
      /\ scopes' = scopes
  BY DEF Runtime!scope_update, Runtime!Exit
<1>3. s \in DOMAIN P
  BY BelongsFacts DEF ParentsOf
<1> HIDE DEF t
<1>4. CASE t = 0
  <2>1. EnvironmentStep
    BY <1>1, <1>2, <1>3, <1>4 DEF EnvironmentStep
  <2> QED
    BY <1>2, <1>4, <2>1 DEF ScopesInv
<1>5. CASE t # 0
  <2>1. Assigns(lists_used', lists_used, t, v)
    <3> DEFINE E == [key : Names, value : Values, next : Nat]
    <3>1. PICK n \in Nat : n = Len(lists_used) /\ lists_used \in [1 .. n -> E]
      BY LenProperties DEF Belongs
    <3>2. t \in 1 .. n
      BY <1>1, <1>5, <3>1
    <3>3. lists_used' = [l \in 1 .. n |-> IF l = t THEN [lists_used[t] EXCEPT !.value = v] ELSE lists_used[l]]
      BY <1>2, <1>5, <3>1, <3>2
    <3>4. lists_used[t] \in E
      BY <3>1, <3>2
    <3>5. /\ [lists_used[t] EXCEPT !.value = v] \in E
          /\ [lists_used[t] EXCEPT !.value = v].key = lists_used[t].key
          /\ [lists_used[t] EXCEPT !.value = v].next = lists_used[t].next
          /\ [lists_used[t] EXCEPT !.value = v].value = v
      BY <3>4
    <3> HIDE DEF E
    <3>6. lists_used' \in [1 .. n -> E]
      BY <3>1, <3>3, <3>5
    <3>7. lists_used' \in Seq(E) /\ Len(lists_used') = n
      BY <3>3, <3>6
    <3>8. \A l \in 1 .. n : /\ lists_used'[l].key = lists_used[l].key /\ lists_used'[l].next = lists_used[l].next
                            /\ lists_used'[l].value = IF l = t THEN v ELSE lists_used[l].value
      BY <3>3, <3>5
    <3> QED
      BY <3>1, <3>7, <3>8 DEF Assigns, E
  <2>2. PICK f : InLists(f, lists_used, k) /\ f[scopes[own[t]].list] = t
    BY <1>1, <1>5
  <2>3. /\ Belongs(own, lists_used', scopes)
        /\ Sets(BoundIn(lists_used', scopes), BoundIn(lists_used, scopes), own[t], k, v)
    BY <1>1, <1>5, <2>1, <2>2, EntryUpdated
  <2>4. Len(lists_used') = Len(lists_used)
    BY <2>1 DEF Assigns
  <2>5. EnvironmentStep
    BY <1>1, <1>2, <1>3, <1>5, <2>3, <2>4 DEF EnvironmentStep, Sets
  <2> QED
    BY <1>2, <2>3, <2>5 DEF ScopesInv
<1> QED
  BY <1>4, <1>5

\* Scopes, and the lists in which a name may stand more than once, are an environment:
\* however calls of scope_new_from, scope_insert, scope_lookup and scope_update follow
\* each other, a lookup gives the value last given to the name in the nearest scope
\* that has it, and an update reaches that one and no other (lines 66-121).
THEOREM ScopesAreEnvironment == Runtime!Spec => IsEnvironment
<1> DEFINE P == [s \in DOMAIN scopes |-> scopes[s].parent]
           B == [s \in DOMAIN scopes |-> [k \in Names |-> Runtime!Own(s, k)]]
           n == Len(lists_used)
<1>1. P = ParentsOf(scopes) /\ P' = ParentsOf(scopes')
  BY DEF ParentsOf
<1>2. B = BoundIn(lists_used, scopes)
  BY DEF BoundIn, Runtime!Own, Runtime!Find, FindIn, InLists, InScopes
<1>3. B' = BoundIn(lists_used', scopes')
  BY DEF BoundIn, Runtime!Own, Runtime!Find, FindIn, InLists, InScopes
<1>4. \A s, k : Runtime!Env!Knowing(s, k) = KnowingIn(P, B, s, k)
  BY DEF Runtime!Env!Knowing, Runtime!Env!Around, KnowingIn, AroundIn, OuterFrom
<1>5. \A s, k : Runtime!Env!Nearest(s, k) = NearestIn(P, B, s, k)
  BY <1>4 DEF Runtime!Env!Nearest, NearestIn
<1> HIDE DEF P, B
<1>6. Runtime!Init => ScopesInv /\ Runtime!Env!Init
  <2> SUFFICES ASSUME Runtime!Init PROVE ScopesInv /\ Runtime!Env!Init
    OBVIOUS
  <2>1. lists_used = <<>> /\ scopes = <<>> /\ scope_call = <<"none">>
    BY DEF Runtime!Init
  <2>2. Belongs(<<>>, lists_used, scopes)
    BY <2>1, ScopeAssumption DEF Belongs
  <2>3. P = <<>> /\ B = <<>> /\ n = 0
    BY <2>1 DEF P, B
  <2> QED
    BY <2>1, <2>2, <2>3 DEF ScopesInv, Runtime!Env!Init, P, B
<1>7. ScopesInv /\ [Runtime!Next]_(Runtime!vars)
        => ScopesInv' /\ [Runtime!Env!Next]_(<<P, B, n, scope_call>>)
  <2> SUFFICES ASSUME NEW own, Belongs(own, lists_used, scopes), [Runtime!Next]_(Runtime!vars)
               PROVE  ScopesInv' /\ [Runtime!Env!Next]_(<<P, B, n, scope_call>>)
    BY DEF ScopesInv
  <2>1. CASE UNCHANGED Runtime!vars
    <3>1. lists_used' = lists_used /\ scopes' = scopes /\ scope_call' = scope_call
      BY <2>1 DEF Runtime!vars
    <3>2. P' = P /\ B' = B /\ n' = n
      BY <1>1, <1>2, <1>3, <3>1
    <3> QED
      BY <3>1, <3>2 DEF ScopesInv
  <2>2. CASE Runtime!Next
    <3>1. ScopesInv' /\ EnvironmentStep
      BY <2>2, NewFollows, InsertFollows, LookupFollows, UpdateFollows DEF Runtime!Next
    <3>2. Runtime!Env!Running
      BY <2>2 DEF Runtime!Next, Runtime!Running, Runtime!Env!Running
    <3> DEFINE Fails(why) == scope_call' = <<why>> /\ P' = P /\ B' = B /\ n' = n
    <3>3. ASSUME NEW p
          PROVE  Runtime!Env!New(p) <=>
                   IF Len(P) = CAP_SCOPES THEN Fails("full")
                   ELSE /\ scope_call' = <<"new", p>> /\ P' = Append(P, p)
                        /\ B' = Append(B, [k \in Names |-> None]) /\ n' = n
      BY DEF Runtime!Env!New, Runtime!Env!Fails, Runtime!Env!Unbound, P, B
    <3>4. ASSUME NEW s, NEW k
          PROVE  Runtime!Env!Lookup(s, k) <=>
                   IF KnowingIn(P, B, s, k) = {} THEN Fails("unbound")
                   ELSE /\ scope_call' = <<"lookup", s, k, B[NearestIn(P, B, s, k)][k]>>
                        /\ P' = P /\ B' = B /\ n' = n
      <4>1. Runtime!Env!Lookup(s, k) <=>
              IF Runtime!Env!Knowing(s, k) = {} THEN Fails("unbound")
              ELSE /\ scope_call' = <<"lookup", s, k, B[Runtime!Env!Nearest(s, k)][k]>>
                   /\ P' = P /\ B' = B /\ n' = n
        BY DEF Runtime!Env!Lookup, Runtime!Env!Fails, P, B
      <4> QED
        BY <1>4, <1>5, <4>1
    <3>5. ASSUME NEW s, NEW k, NEW v
          PROVE  Runtime!Env!Insert(s, k, v) <=>
                   IF n = CAP_LISTS THEN Fails("full")
                   ELSE /\ scope_call' = <<"insert", s, k, v>> /\ P' = P
                        /\ B' = [B EXCEPT ![s][k] = v] /\ n' = n + 1
      BY DEF Runtime!Env!Insert, Runtime!Env!Fails, P, B
    <3>6. ASSUME NEW s, NEW k, NEW v
          PROVE  Runtime!Env!Update(s, k, v) <=>
                   IF KnowingIn(P, B, s, k) = {} THEN Fails("unbound")
                   ELSE /\ scope_call' = <<"update", s, k, v>> /\ P' = P
                        /\ B' = [B EXCEPT ![NearestIn(P, B, s, k)][k] = v] /\ n' = n
      <4>1. Runtime!Env!Update(s, k, v) <=>
              IF Runtime!Env!Knowing(s, k) = {} THEN Fails("unbound")
              ELSE /\ scope_call' = <<"update", s, k, v>> /\ P' = P
                   /\ B' = [B EXCEPT ![Runtime!Env!Nearest(s, k)][k] = v] /\ n' = n
        BY DEF Runtime!Env!Update, Runtime!Env!Fails, P, B
      <4> QED
        BY <1>4, <1>5, <4>1
    <3>7. Runtime!Env!Next <=>
            /\ Runtime!Env!Running
            /\ \/ \E p \in DOMAIN P \cup {0} : Runtime!Env!New(p)
               \/ \E s \in DOMAIN P, k \in Names :
                    \/ Runtime!Env!Lookup(s, k)
                    \/ \E v \in Values : Runtime!Env!Insert(s, k, v) \/ Runtime!Env!Update(s, k, v)
      BY DEF Runtime!Env!Next, Runtime!Env!Scopes, P
    <3>8. Runtime!Env!Next
      BY <1>1, <1>2, <1>3, <3>1, <3>2, <3>3, <3>4, <3>5, <3>6, <3>7 DEF EnvironmentStep
    <3> QED
      BY <3>1, <3>8
  <2> QED
    BY <2>1, <2>2
<1> QED
  BY <1>6, <1>7, PTL DEF Runtime!Spec, IsEnvironment, Runtime!IsEnvironment, Runtime!Env!vars, P, B

-----------------------------------------------------------------------------
(* BinaryHeap.  The loops stay in the array, and the heap is in order        *)
(* between operations.                                                       *)

Priority(a, k) == a[k].priority

(* The order of the heap in the array a, seen from the children: c is not   *)
(* before its parent.  Skips: the children of k, in a heap of n nodes, are   *)
(* not before the parent of k.                                              *)
InOrder(a, c) == Priority(a, GET_PARENT(c)) <= Priority(a, c)
Skips(a, n, k) ==
  \A c \in 1 .. n - 1 : GET_PARENT(c) = k /\ k # 0 => Priority(a, GET_PARENT(k)) <= Priority(a, c)

\* While balance_up runs only the node at k may be before its parent; if drop
\* has removed the last node, k is behind the heap and in order as well.
UpOrder(a, n, k) ==
  /\ k <= n
  /\ \A c \in 1 .. n - 1 : c # k => InOrder(a, c)
  /\ Skips(a, n, k)
  /\ k = n /\ k # 0 => InOrder(a, k)

\* While balance_down runs only the children of k may be before k.
DownOrder(a, n, k) ==
  /\ \A c \in 1 .. n - 1 : GET_PARENT(c) # k => InOrder(a, c)
  /\ Skips(a, n, k)

RestOrder(a, n) == \A c \in 1 .. n - 1 : InOrder(a, c)

OrderInv ==
  /\ pc = "up" => UpOrder(nodes, len_nodes, i)
  /\ pc = "down" => DownOrder(nodes, len_nodes, i)
  /\ pc \in {"idle", "exit"} => RestOrder(nodes, len_nodes)

HeapInv == TypeOK /\ OrderInv

-----------------------------------------------------------------------------
(* The shape of the heap: a node is a child of its parent and of no other.  *)

\* The parent of a node comes before it and has it as a child.
LEMMA ParentFacts ==
  ASSUME NEW c \in Nat \ {0}
  PROVE  /\ GET_PARENT(c) \in Nat
         /\ GET_PARENT(c) < c
         /\ c = GET_LEFT_CHILD(GET_PARENT(c)) \/ c = GET_LEFT_CHILD(GET_PARENT(c)) + 1
  BY DEF GET_PARENT, GET_LEFT_CHILD

\* Both children of a node come after it and have it as their parent.
LEMMA ChildFacts ==
  ASSUME NEW k \in Nat
  PROVE  /\ GET_LEFT_CHILD(k) \in Nat \ {0}
         /\ GET_LEFT_CHILD(k) > k
         /\ GET_PARENT(GET_LEFT_CHILD(k)) = k
         /\ GET_PARENT(GET_LEFT_CHILD(k) + 1) = k
  BY DEF GET_PARENT, GET_LEFT_CHILD

\* drop's loop stops at a node of the heap.
LEMMA FirstIsHolder ==
  ASSUME NEW key, len_nodes \in Nat, Holders(key) # {}
  PROVE  First(key) \in Holders(key)
<1>1. Holders(key) \subseteq Nat
  BY DEF Holders
<1>2. \E k \in Holders(key) : \A l \in Holders(key) : k <= l
  BY <1>1, LeastNumber
<1> QED
  BY <1>2 DEF First

-----------------------------------------------------------------------------
(* The invariant is inductive, an action at a time.                          *)

\* calloc's heap is empty.
LEMMA InitInv == Init => HeapInv
<1> SUFFICES ASSUME Init PROVE HeapInv
  OBVIOUS
<1>1. Zero \in Node
  BY NodeAssumption DEF Zero
<1>2. TypeOK
  BY <1>1, CapAssumption DEF Init, TypeOK, Index
<1> QED
  BY <1>2 DEF HeapInv, Init, OrderInv, RestOrder

\* An EXIT_IF ends the program between two operations.
LEMMA ExitStep == HeapInv /\ pc = "idle" /\ Exit => HeapInv'
  BY DEF HeapInv, TypeOK, OrderInv, Exit

\* insert puts the node behind the others: only it may be before its parent.
LEMMA InsertStep ==
  ASSUME HeapInv, NEW m \in Node, insert(m)
  PROVE  HeapInv'
<1> USE DEF HeapInv
<1>1. CASE CAP_NODES <= len_nodes
  BY <1>1, ExitStep DEF insert
<1>2. CASE ~ (CAP_NODES <= len_nodes)
  <2>1. /\ pc = "idle" /\ pc' = "up" /\ i' = len_nodes /\ len_nodes' = len_nodes + 1
        /\ nodes' = [nodes EXCEPT ![len_nodes] = m] /\ call' = <<"insert", m>>
        /\ len_nodes \in Index /\ len_nodes \in Nat
    BY <1>2, CapAssumption DEF insert, TypeOK, Index
  <2>2. TypeOK'
    BY <2>1, CapAssumption DEF TypeOK, Index
  <2>3. \A c \in 1 .. len_nodes - 1 : InOrder(nodes', c)
    <3> SUFFICES ASSUME NEW c \in 1 .. len_nodes - 1 PROVE InOrder(nodes', c)
      OBVIOUS
    <3>1. GET_PARENT(c) \in Nat /\ GET_PARENT(c) < c /\ c < len_nodes
      BY <2>1, ParentFacts
    <3>2. InOrder(nodes, c)
      BY <2>1 DEF OrderInv, RestOrder
    <3> QED
      BY <2>1, <3>1, <3>2 DEF InOrder, Priority, TypeOK, Index
  <2>4. \A c \in 1 .. len_nodes : GET_PARENT(c) # len_nodes
    BY <2>1, ParentFacts
  <2>5. UpOrder(nodes', len_nodes + 1, len_nodes)
    <3>1. 1 .. (len_nodes + 1) - 1 = 1 .. len_nodes
      BY <2>1
    <3>2. ASSUME NEW c \in 1 .. len_nodes, c # len_nodes PROVE InOrder(nodes', c)
      <4>1. c \in 1 .. len_nodes - 1
        BY <2>1, <3>2
      <4> QED
        BY <2>3, <4>1
    <3>3. len_nodes <= len_nodes + 1 /\ len_nodes # len_nodes + 1
      BY <2>1
    <3> QED
      BY <2>4, <3>1, <3>2, <3>3 DEF UpOrder, Skips
  <2> QED
    BY <2>1, <2>2, <2>5 DEF OrderInv
<1> QED
  BY <1>1, <1>2

\* pop puts the last node at the root: only the root may be behind a child.
LEMMA PopStep == HeapInv /\ pop => HeapInv'
<1> SUFFICES ASSUME HeapInv, pop PROVE HeapInv'
  OBVIOUS
<1> USE DEF HeapInv
<1>1. CASE len_nodes = 0
  BY <1>1, ExitStep DEF pop
<1>2. CASE len_nodes # 0
  <2>1. /\ pc = "idle" /\ pc' = "down" /\ i' = 0 /\ len_nodes' = len_nodes - 1
        /\ nodes' = [nodes EXCEPT ![0] = nodes[len_nodes - 1]] /\ call' = <<"pop", nodes[0]>>
        /\ len_nodes \in Nat \ {0} /\ 0 \in Index /\ len_nodes - 1 \in Index
    BY <1>2, CapAssumption DEF pop, TypeOK, Index
  <2>2. TypeOK'
    BY <2>1, CapAssumption DEF TypeOK, Index
  <2>3. \A c \in 1 .. len_nodes - 2 : GET_PARENT(c) # 0 => InOrder(nodes', c)
    <3> SUFFICES ASSUME NEW c \in 1 .. len_nodes - 2, GET_PARENT(c) # 0 PROVE InOrder(nodes', c)
      OBVIOUS
    <3>1. GET_PARENT(c) \in Nat \ {0} /\ GET_PARENT(c) < c
      BY <2>1, ParentFacts
    <3>2. InOrder(nodes, c)
      BY <2>1 DEF OrderInv, RestOrder
    <3> QED
      BY <2>1, <3>1, <3>2 DEF InOrder, Priority, TypeOK, Index
  <2>4. DownOrder(nodes', len_nodes - 1, 0)
    <3>1. 1 .. (len_nodes - 1) - 1 = 1 .. len_nodes - 2
      BY <2>1
    <3> QED
      BY <2>3, <3>1 DEF DownOrder, Skips
  <2> QED
    BY <2>1, <2>2, <2>4 DEF OrderInv
<1> QED
  BY <1>1, <1>2

\* What drop writes at k: the last node of the heap, which is then shorter.
LEMMA DropOrder ==
  ASSUME TypeOK, RestOrder(nodes, len_nodes), NEW k \in 0 .. len_nodes - 1, NEW moved,
         moved = nodes[len_nodes - 1], NEW a, a = [nodes EXCEPT ![k] = moved]
  PROVE  IF nodes[k].priority < moved.priority
         THEN DownOrder(a, len_nodes - 1, k) ELSE UpOrder(a, len_nodes - 1, k)
<1>1. PICK n \in Nat : /\ n = len_nodes - 1 /\ n \in Index
                      /\ k \in Nat /\ k \in Index /\ k <= n /\ n < CAP_NODES
  <2>1. len_nodes \in 0 .. CAP_NODES /\ CAP_NODES \in Nat
    BY CapAssumption DEF TypeOK
  <2>2. /\ len_nodes - 1 \in Nat /\ len_nodes - 1 \in 0 .. CAP_NODES - 1
        /\ k \in Nat /\ k \in 0 .. CAP_NODES - 1 /\ k <= len_nodes - 1 /\ len_nodes - 1 < CAP_NODES
    BY <2>1
  <2> QED
    BY <2>2 DEF Index
<1>2. /\ \A c \in Index : Priority(nodes, c) \in Nat
      /\ \A c \in Index : c # k => Priority(a, c) = Priority(nodes, c)
      /\ Priority(a, k) = Priority(nodes, n) /\ moved.priority = Priority(nodes, n)
  BY <1>1, NodeAssumption DEF Priority, TypeOK
<1>3. ASSUME NEW c \in 1 .. n
      PROVE  /\ c \in Index /\ GET_PARENT(c) \in Index /\ GET_PARENT(c) # c
             /\ Priority(nodes, GET_PARENT(c)) <= Priority(nodes, c)
  <2>1. c \in Nat \ {0} /\ c \in Index
    BY <1>1, CapAssumption DEF Index
  <2>2. GET_PARENT(c) \in Index /\ GET_PARENT(c) # c
    BY <2>1, ParentFacts, CapAssumption DEF Index
  <2>3. InOrder(nodes, c)
    BY <1>1, c \in 1 .. len_nodes - 1 DEF RestOrder
  <2> QED
    BY <2>1, <2>2, <2>3 DEF InOrder
<1>0. 1 .. n - 1 \subseteq 1 .. n
  BY <1>1
<1>4. \A c \in 1 .. n : c # k /\ GET_PARENT(c) # k => InOrder(a, c)
  BY <1>2, <1>3 DEF InOrder
<1>5. Skips(a, n, k)
  <2> SUFFICES ASSUME NEW c \in 1 .. n - 1, GET_PARENT(c) = k, k # 0
               PROVE  Priority(a, GET_PARENT(k)) <= Priority(a, c)
    BY DEF Skips
  <2>1. k \in 1 .. n /\ c \in 1 .. n
    BY <1>1
  <2>2. /\ c # k /\ c \in Index /\ GET_PARENT(k) # k /\ GET_PARENT(k) \in Index
        /\ Priority(nodes, GET_PARENT(k)) <= Priority(nodes, k)
        /\ Priority(nodes, k) <= Priority(nodes, c)
    BY <1>3, <2>1
  <2>3. Priority(nodes, GET_PARENT(k)) <= Priority(nodes, c)
    BY <1>1, <1>2, <2>2
  <2> QED
    BY <1>2, <2>2, <2>3
<1>6. ASSUME k # 0
      PROVE  /\ k \in 1 .. n /\ GET_PARENT(k) \in Index
             /\ Priority(a, GET_PARENT(k)) <= Priority(nodes, k)
  <2>1. k \in 1 .. n
    BY <1>1, <1>6
  <2> QED
    BY <1>2, <1>3, <2>1
<1>7. CASE nodes[k].priority < moved.priority
  <2>1. Priority(nodes, k) <= Priority(a, k)
    BY <1>1, <1>2, <1>7 DEF Priority
  <2>2. k # 0 => InOrder(a, k)
    <3> SUFFICES ASSUME k # 0 PROVE InOrder(a, k)
      OBVIOUS
    <3>1. Priority(a, GET_PARENT(k)) <= Priority(nodes, k) /\ GET_PARENT(k) \in Index
          /\ GET_PARENT(k) # k
      BY <1>3, <1>6
    <3>2. Priority(a, GET_PARENT(k)) = Priority(nodes, GET_PARENT(k))
      BY <1>2, <3>1
    <3>3. Priority(a, k) \in Nat /\ Priority(nodes, k) \in Nat /\ Priority(a, GET_PARENT(k)) \in Nat
      BY <1>1, <1>2, <3>1, <3>2
    <3> QED
      BY <2>1, <3>1, <3>3 DEF InOrder
  <2>3. \A c \in 1 .. n - 1 : GET_PARENT(c) # k => InOrder(a, c)
    <3> SUFFICES ASSUME NEW c \in 1 .. n - 1, GET_PARENT(c) # k PROVE InOrder(a, c)
      OBVIOUS
    <3>1. c \in 1 .. n /\ (c = k => k # 0)
      BY <1>1
    <3>2. CASE c = k
      BY <2>2, <3>1, <3>2
    <3> QED
      BY <1>4, <3>1, <3>2
  <2>4. DownOrder(a, n, k)
    BY <1>5, <2>3 DEF DownOrder
  <2> QED
    BY <1>1, <1>7, <2>4
<1>8. CASE ~ (nodes[k].priority < moved.priority)
  <2>1. Priority(a, k) <= Priority(nodes, k)
    BY <1>1, <1>2, <1>8 DEF Priority
  <2>2. \A c \in 1 .. n - 1 : c # k => InOrder(a, c)
    <3> SUFFICES ASSUME NEW c \in 1 .. n - 1, c # k, GET_PARENT(c) = k PROVE InOrder(a, c)
      BY <1>0, <1>4
    <3>1. c \in Index /\ Priority(nodes, k) <= Priority(nodes, c)
      BY <1>1, <1>3
    <3>2. Priority(a, c) = Priority(nodes, c) /\ Priority(nodes, c) \in Nat
          /\ Priority(nodes, k) \in Nat /\ Priority(a, k) \in Nat
      BY <1>1, <1>2, <3>1
    <3> QED
      BY <2>1, <3>1, <3>2 DEF InOrder
  <2>3. k = n /\ k # 0 => InOrder(a, k)
    BY <1>2, <1>6 DEF InOrder
  <2>4. UpOrder(a, n, k)
    BY <1>1, <1>5, <2>2, <2>3 DEF UpOrder
  <2> QED
    BY <1>1, <1>8, <2>4
<1> QED
  BY <1>7, <1>8

\* drop starts the loop that its comparison of priorities calls for.
LEMMA DropStep ==
  ASSUME HeapInv, NEW key \in {m.key : m \in Node}, drop(key)
  PROVE  HeapInv'
<1> USE DEF HeapInv
<1>1. CASE Holders(key) = {}
  BY <1>1, ExitStep DEF drop
<1>2. CASE Holders(key) # {}
  <2>1. PICK k \in 0 .. len_nodes - 1 : k = First(key)
    BY <1>2, FirstIsHolder DEF Holders, TypeOK
  <2>2. PICK moved : moved = nodes[len_nodes - 1]
    OBVIOUS
  <2>3. /\ pc = "idle" /\ i' = k /\ len_nodes' = len_nodes - 1
        /\ nodes' = [nodes EXCEPT ![k] = moved] /\ call' = <<"drop", key>>
        /\ pc' = IF nodes[k].priority < moved.priority THEN "down" ELSE "up"
    BY <1>2, <2>1, <2>2 DEF drop
  <2>4. TypeOK'
    BY <2>2, <2>3, CapAssumption DEF TypeOK, Index
  <2>5. IF nodes[k].priority < moved.priority
        THEN DownOrder(nodes', len_nodes - 1, k) ELSE UpOrder(nodes', len_nodes - 1, k)
    BY <2>2, <2>3, DropOrder DEF OrderInv
  <2>6. OrderInv'
    BY <2>3, <2>5 DEF OrderInv
  <2> QED
    BY <2>4, <2>6
<1> QED
  BY <1>1, <1>2

\* An iteration of balance_up moves the gap to the parent, or ends.
LEMMA UpStep == HeapInv /\ balance_up => HeapInv'
<1> SUFFICES ASSUME HeapInv, balance_up PROVE HeapInv'
  OBVIOUS
<1> USE DEF HeapInv
<1>1. CASE i = 0
  <2>1. pc' = "idle" /\ UNCHANGED <<nodes, i, len_nodes, call>> /\ pc = "up"
    BY <1>1 DEF balance_up
  <2>2. RestOrder(nodes, len_nodes)
    BY <1>1, <2>1 DEF OrderInv, UpOrder, RestOrder
  <2> QED
    BY <2>1, <2>2 DEF TypeOK, OrderInv
<1>2. CASE i # 0
  <2>1. i \in Index /\ i \in Nat \ {0} /\ i < CAP_NODES
    BY <1>2, CapAssumption DEF TypeOK, Index
  <2>2. PICK j \in Index : j = GET_PARENT(i) /\ j < i /\ j \in Nat
    BY <2>1, ParentFacts, CapAssumption DEF Index
  <2>3. /\ pc = "up" /\ pc' = "up" /\ i' = j /\ UNCHANGED <<len_nodes, call>>
        /\ nodes' = IF Priority(nodes, i) < Priority(nodes, j) THEN Swapped(nodes, i, j) ELSE nodes
    BY <1>2, <2>2 DEF balance_up, Priority
  <2>4. /\ len_nodes \in Nat /\ len_nodes <= CAP_NODES /\ i <= len_nodes
        /\ \A c \in Index : Priority(nodes, c) \in Nat
    BY <2>3, CapAssumption, NodeAssumption DEF TypeOK, OrderInv, UpOrder, Priority
  <2>5. \A c \in 1 .. len_nodes - 1 : /\ c # i => InOrder(nodes, c)
                                      /\ c \in Index /\ c \in Nat \ {0}
                                      /\ GET_PARENT(c) \in Index /\ GET_PARENT(c) < c
    BY <2>3, <2>4, ParentFacts, CapAssumption DEF OrderInv, UpOrder, Index
  <2>6. \A c \in 1 .. len_nodes - 1 : GET_PARENT(c) = i => Priority(nodes, j) <= Priority(nodes, c)
    BY <1>2, <2>2, <2>3 DEF OrderInv, UpOrder, Skips
  <2>7. j # 0 => /\ j \in 1 .. len_nodes - 1 /\ InOrder(nodes, j)
                 /\ GET_PARENT(j) \in Index /\ GET_PARENT(j) < j
    BY <2>1, <2>2, <2>4, <2>5
  <2>8. CASE Priority(nodes, i) < Priority(nodes, j)
    <3>1. nodes' = Swapped(nodes, i, j)
      BY <2>3, <2>8
    <3>2. /\ Priority(nodes', i) = Priority(nodes, j) /\ Priority(nodes', j) = Priority(nodes, i)
          /\ \A c \in Index : c # i /\ c # j => Priority(nodes', c) = Priority(nodes, c)
      BY <2>1, <2>2, <3>1 DEF Swapped, Priority, TypeOK
    <3>3. TypeOK'
      BY <2>1, <2>2, <2>3, <3>1 DEF TypeOK, Swapped
    <3>4. i < len_nodes
      BY <1>2, <2>1, <2>2, <2>3, <2>4, <2>8 DEF OrderInv, UpOrder, InOrder
    <3>5. \A c \in 1 .. len_nodes - 1 : c # j => InOrder(nodes', c)
      <4> SUFFICES ASSUME NEW c \in 1 .. len_nodes - 1, c # j PROVE InOrder(nodes', c)
        OBVIOUS
      <4> DEFINE p == GET_PARENT(c)
      <4>1. /\ c # i => InOrder(nodes, c)
            /\ c \in Index /\ p \in Index /\ p < c /\ c \in Nat
        BY <2>5
      <4>2. CASE c = i
        <5>1. p = j
          BY <4>2, <2>2
        <5> QED
          BY <2>1, <2>2, <2>4, <2>8, <3>2, <4>2, <5>1 DEF InOrder
      <4>3. CASE c # i /\ p = i
        BY <2>1, <2>2, <2>4, <2>6, <3>2, <4>1, <4>3 DEF InOrder
      <4>4. CASE c # i /\ p = j
        <5>1. Priority(nodes, j) <= Priority(nodes, c)
          BY <4>1, <4>4 DEF InOrder
        <5>2. Priority(nodes, i) <= Priority(nodes, c)
          BY <2>1, <2>2, <2>4, <2>8, <4>1, <5>1
        <5> QED
          BY <3>2, <4>1, <4>4, <5>2 DEF InOrder
      <4>5. CASE c # i /\ p # i /\ p # j
        BY <3>2, <4>1, <4>5 DEF InOrder
      <4> QED
        BY <4>2, <4>3, <4>4, <4>5
    <3>6. Skips(nodes', len_nodes', j)
      <4> SUFFICES ASSUME NEW c \in 1 .. len_nodes - 1, GET_PARENT(c) = j, j # 0
                   PROVE  Priority(nodes', GET_PARENT(j)) <= Priority(nodes', c)
        BY <2>3 DEF Skips
      <4>1. /\ Priority(nodes', GET_PARENT(j)) = Priority(nodes, GET_PARENT(j))
            /\ Priority(nodes, GET_PARENT(j)) <= Priority(nodes, j)
        BY <2>1, <2>2, <2>7, <3>2 DEF InOrder, Index
      <4>2. CASE c = i
        BY <2>1, <3>2, <4>1, <4>2
      <4>3. CASE c # i
        <5>1. Priority(nodes, j) <= Priority(nodes, c) /\ c # j /\ c \in Index
          BY <2>5, <4>3 DEF InOrder
        <5>2. Priority(nodes, GET_PARENT(j)) <= Priority(nodes, c)
          <6>1. /\ Priority(nodes, GET_PARENT(j)) \in Nat /\ Priority(nodes, j) \in Nat
                /\ Priority(nodes, c) \in Nat
            BY <2>2, <2>4, <2>7, <5>1
          <6> QED
            BY <4>1, <5>1, <6>1
        <5> QED
          BY <3>2, <4>1, <4>3, <5>1, <5>2
      <4> QED
        BY <4>2, <4>3
    <3>7. j <= len_nodes /\ j # len_nodes
      BY <2>1, <2>2, <2>4, <3>4
    <3>8. UpOrder(nodes', len_nodes, j)
      BY <2>3, <3>5, <3>6, <3>7 DEF UpOrder
    <3> QED
      BY <2>3, <3>3, <3>8 DEF OrderInv
  <2>9. CASE ~ (Priority(nodes, i) < Priority(nodes, j))
    <3>1. nodes' = nodes /\ UNCHANGED <<len_nodes, call>> /\ pc' = pc
      BY <2>3, <2>9
    <3>2. InOrder(nodes, i) /\ \A c \in 1 .. len_nodes - 1 : InOrder(nodes, c)
      BY <2>1, <2>2, <2>4, <2>5, <2>9 DEF InOrder
    <3>3. Skips(nodes, len_nodes, j)
      <4> SUFFICES ASSUME NEW c \in 1 .. len_nodes - 1, GET_PARENT(c) = j, j # 0
                   PROVE  Priority(nodes, GET_PARENT(j)) <= Priority(nodes, c)
        BY DEF Skips
      <4>1. /\ Priority(nodes, GET_PARENT(j)) <= Priority(nodes, j)
            /\ Priority(nodes, j) <= Priority(nodes, c)
            /\ c \in Index /\ GET_PARENT(j) \in Index
        BY <2>5, <2>7, <3>2 DEF InOrder
      <4>2. /\ Priority(nodes, GET_PARENT(j)) \in Nat /\ Priority(nodes, j) \in Nat
            /\ Priority(nodes, c) \in Nat
        BY <2>2, <2>4, <4>1
      <4> QED
        BY <4>1, <4>2
    <3>4. j <= len_nodes /\ j # len_nodes
      BY <2>1, <2>2, <2>4
    <3>5. TypeOK'
      BY <2>2, <2>3, <3>1 DEF TypeOK
    <3>6. UpOrder(nodes, len_nodes, j)
      BY <3>2, <3>3, <3>4 DEF UpOrder
    <3> QED
      BY <2>3, <3>1, <3>5, <3>6 DEF OrderInv
  <2> QED
    BY <2>8, <2>9
<1> QED
  BY <1>1, <1>2

\* balance_down goes to a child that is before its parent and not behind the
\* other child, if there is one.
LEMMA SmallestFacts ==
  ASSUME TypeOK
  PROVE  /\ Smallest(i) = i =>
              \A c \in 1 .. len_nodes - 1 : GET_PARENT(c) = i => InOrder(nodes, c)
         /\ Smallest(i) # i =>
              /\ Smallest(i) \in 1 .. len_nodes - 1
              /\ GET_PARENT(Smallest(i)) = i
              /\ Priority(nodes, Smallest(i)) < Priority(nodes, i)
              /\ \A c \in 1 .. len_nodes - 1 :
                   GET_PARENT(c) = i => Priority(nodes, Smallest(i)) <= Priority(nodes, c)
<1>1. /\ i \in Index /\ i \in Nat /\ len_nodes \in Nat /\ len_nodes <= CAP_NODES
      /\ \A c \in Index : nodes[c].priority \in Nat
  BY CapAssumption, NodeAssumption DEF TypeOK, Index
<1>2. PICK l \in Nat \ {0} : /\ l = GET_LEFT_CHILD(i) /\ l > i
                             /\ GET_PARENT(l) = i /\ GET_PARENT(l + 1) = i
  BY <1>1, ChildFacts
<1>3. PICK n \in Nat : n = nodes[i].priority
  BY <1>1
<1>4. /\ l < len_nodes => l \in 1 .. len_nodes - 1 /\ nodes[l].priority \in Nat
      /\ l + 1 < len_nodes => l + 1 \in 1 .. len_nodes - 1 /\ nodes[l + 1].priority \in Nat
      /\ l # i /\ l + 1 # i /\ l + 1 # l
  BY <1>1, <1>2, CapAssumption DEF Index
<1>5. ASSUME NEW c \in 1 .. len_nodes - 1, GET_PARENT(c) = i
      PROVE  c < len_nodes /\ (c = l \/ c = l + 1)
  <2>1. c \in Nat \ {0} /\ c < len_nodes
    BY <1>1
  <2> QED
    BY <1>2, <1>5, <2>1, ParentFacts
<1>6. Smallest(i) =
        LET m == IF l < len_nodes /\ nodes[l].priority < nodes[i].priority THEN l ELSE i
        IN  IF l + 1 < len_nodes /\ nodes[l + 1].priority < nodes[m].priority THEN l + 1 ELSE m
  BY <1>2 DEF Smallest
<1>7. CASE Smallest(i) = i
  <2>1. /\ l < len_nodes => nodes[i].priority <= nodes[l].priority
        /\ l + 1 < len_nodes => nodes[i].priority <= nodes[l + 1].priority
    BY <1>1, <1>3, <1>4, <1>6, <1>7
  <2>2. ASSUME NEW c \in 1 .. len_nodes - 1, GET_PARENT(c) = i PROVE InOrder(nodes, c)
    BY <1>5, <2>1, <2>2 DEF InOrder, Priority
  <2> QED
    BY <1>7, <2>2
<1>8. CASE Smallest(i) # i
  <2>1. /\ Smallest(i) \in {l, l + 1} /\ Smallest(i) < len_nodes
        /\ nodes[Smallest(i)].priority < nodes[i].priority
        /\ l < len_nodes => nodes[Smallest(i)].priority <= nodes[l].priority
        /\ l + 1 < len_nodes => nodes[Smallest(i)].priority <= nodes[l + 1].priority
    BY <1>1, <1>3, <1>4, <1>6, <1>8
  <2>2. Smallest(i) \in 1 .. len_nodes - 1 /\ GET_PARENT(Smallest(i)) = i
    BY <1>2, <1>4, <2>1
  <2>3. ASSUME NEW c \in 1 .. len_nodes - 1, GET_PARENT(c) = i
        PROVE  Priority(nodes, Smallest(i)) <= Priority(nodes, c)
    BY <1>5, <2>1, <2>3 DEF Priority
  <2> QED
    BY <1>8, <2>1, <2>2, <2>3 DEF Priority
<1> QED
  BY <1>7, <1>8

\* An iteration of balance_down moves the gap to the smaller child, or ends.
LEMMA DownStep == HeapInv /\ balance_down => HeapInv'
<1> SUFFICES ASSUME HeapInv, balance_down PROVE HeapInv'
  OBVIOUS
<1> USE DEF HeapInv
<1>1. /\ pc = "down" /\ UNCHANGED <<len_nodes, call>>
      /\ i \in Index /\ i \in Nat /\ len_nodes \in Nat /\ len_nodes <= CAP_NODES
      /\ \A c \in Index : Priority(nodes, c) \in Nat
  BY CapAssumption, NodeAssumption DEF balance_down, TypeOK, Index, Priority
<1>2. PICK m : m = Smallest(i)
  OBVIOUS
<1>3. ASSUME NEW c \in 1 .. len_nodes - 1
      PROVE  /\ c \in Index /\ c \in Nat \ {0}
             /\ GET_PARENT(c) \in Index /\ GET_PARENT(c) < c
             /\ GET_PARENT(c) # i => InOrder(nodes, c)
             /\ GET_PARENT(c) = i /\ i # 0 => Priority(nodes, GET_PARENT(i)) <= Priority(nodes, c)
  <2>1. c \in Index /\ c \in Nat \ {0}
    BY <1>1, CapAssumption DEF Index
  <2>2. GET_PARENT(c) \in Index /\ GET_PARENT(c) < c
    BY <2>1, ParentFacts, CapAssumption DEF Index
  <2> QED
    BY <1>1, <2>1, <2>2 DEF OrderInv, DownOrder, Skips
<1>4. CASE m = i
  <2>1. pc' = "idle" /\ i' = 0 /\ nodes' = nodes
    BY <1>2, <1>4 DEF balance_down
  <2>2. RestOrder(nodes, len_nodes)
    BY <1>2, <1>3, <1>4, SmallestFacts DEF RestOrder
  <2>3. TypeOK'
    BY <1>1, <2>1, CapAssumption DEF TypeOK, Index
  <2> QED
    BY <1>1, <2>1, <2>2, <2>3 DEF OrderInv
<1>5. CASE m # i
  <2>1. nodes' = Swapped(nodes, i, m) /\ i' = m /\ pc' = pc
    BY <1>2, <1>5 DEF balance_down
  <2>2. /\ m \in 1 .. len_nodes - 1 /\ m \in Index /\ i < m
        /\ GET_PARENT(m) = i /\ Priority(nodes, m) < Priority(nodes, i)
        /\ \A c \in 1 .. len_nodes - 1 : GET_PARENT(c) = i => Priority(nodes, m) <= Priority(nodes, c)
    BY <1>2, <1>3, <1>5, SmallestFacts
  <2>3. /\ Priority(nodes', i) = Priority(nodes, m) /\ Priority(nodes', m) = Priority(nodes, i)
        /\ \A c \in Index : c # i /\ c # m => Priority(nodes', c) = Priority(nodes, c)
    BY <1>1, <2>1, <2>2 DEF Swapped, Priority, TypeOK
  <2>4. TypeOK'
    BY <1>1, <2>1, <2>2 DEF TypeOK, Swapped
  <2>5. ASSUME NEW c \in 1 .. len_nodes - 1, GET_PARENT(c) # m
        PROVE  InOrder(nodes', c)
    <3>1. PICK p \in Index : p = GET_PARENT(c) /\ p # c /\ c \in Index
      BY <1>1, <1>3 DEF Index
    <3>2. CASE c = m
      <4>1. p = i /\ Priority(nodes, m) <= Priority(nodes, i)
        BY <1>1, <2>2, <3>1, <3>2
      <4> QED
        BY <2>3, <3>1, <3>2, <4>1 DEF InOrder
    <3>3. CASE c # m /\ p = i
      BY <2>2, <2>3, <3>1, <3>3 DEF InOrder
    <3>4. CASE c = i
      <4>1. i # 0 /\ GET_PARENT(m) = i /\ GET_PARENT(i) = p /\ p # m /\ p # i
        BY <1>1, <2>2, <2>5, <3>1, <3>4
      <4>2. Priority(nodes, p) <= Priority(nodes, m)
        BY <1>3, <2>2, <4>1
      <4> QED
        BY <2>3, <3>1, <3>4, <4>1, <4>2 DEF InOrder
    <3>5. CASE c # m /\ c # i /\ p # i
      <4>1. Priority(nodes, p) <= Priority(nodes, c)
        BY <1>3, <3>1, <3>5 DEF InOrder
      <4> QED
        BY <2>3, <2>5, <3>1, <3>5, <4>1 DEF InOrder
    <3> QED
      BY <3>2, <3>3, <3>4, <3>5
  <2>6. Skips(nodes', len_nodes, m)
    <3> SUFFICES ASSUME NEW c \in 1 .. len_nodes - 1, GET_PARENT(c) = m
                 PROVE  Priority(nodes', GET_PARENT(m)) <= Priority(nodes', c)
      BY DEF Skips
    <3>1. c # m /\ c # i /\ c \in Index
      BY <1>1, <1>3, <2>2
    <3>2. Priority(nodes, m) <= Priority(nodes, c)
      BY <1>3, <2>2 DEF InOrder
    <3> QED
      BY <2>2, <2>3, <3>1, <3>2
  <2>7. DownOrder(nodes', len_nodes, m)
    BY <2>5, <2>6 DEF DownOrder
  <2> QED
    BY <1>1, <2>1, <2>4, <2>7 DEF OrderInv
<1> QED
  BY <1>4, <1>5

\* Every step of the heap preserves the invariant.
LEMMA HeapInductive == HeapInv /\ [Next]_vars => HeapInv'
<1> SUFFICES ASSUME HeapInv, [Next]_vars PROVE HeapInv'
  OBVIOUS
<1>1. CASE balance_up
  BY <1>1, UpStep
<1>2. CASE balance_down
  BY <1>2, DownStep
<1>3. CASE pop
  BY <1>3, PopStep
<1>4. ASSUME NEW m \in Node, insert(m) PROVE HeapInv'
  BY <1>4, InsertStep
<1>5. ASSUME NEW m \in Node, drop(m.key) PROVE HeapInv'
  BY <1>5, DropStep
<1>6. CASE UNCHANGED vars
  BY <1>6 DEF vars, HeapInv, TypeOK, OrderInv
<1> QED
  BY <1>1, <1>2, <1>3, <1>4, <1>5, <1>6 DEF Next, Balance

-----------------------------------------------------------------------------

\* The invariant of the loops holds at every step of every client.
THEOREM HeapInvariant == Spec => []HeapInv
  BY InitInv, HeapInductive, PTL DEF Spec

\* No loop and no operation leaves the array, whatever its capacity: insert
\* writes inside it, and drop reads inside it when it removes the last node.
THEOREM HeapInArray == Spec => []TypeOK
  BY HeapInvariant, PTL DEF HeapInv

\* After every operation the heap is in order (check, which main requires at
\* lines 129, 135 and 180), for every capacity and every client.
THEOREM HeapOrdered == Spec => []Ordered
<1>1. HeapInv => Ordered
  <2> SUFFICES ASSUME HeapInv, pc \in {"idle", "exit"},
                      NEW k \in 0 .. len_nodes - 1,
                      NEW c \in {GET_LEFT_CHILD(k), GET_LEFT_CHILD(k) + 1}, c < len_nodes
               PROVE  nodes[k].priority <= nodes[c].priority
    BY DEF Ordered, check
  <2>1. len_nodes \in Nat /\ k \in Nat
    BY DEF HeapInv, TypeOK
  <2>2. c \in 1 .. len_nodes - 1 /\ GET_PARENT(c) = k
    BY <2>1, ChildFacts
  <2> QED
    BY <2>2 DEF HeapInv, OrderInv, RestOrder, InOrder, Priority
<1> QED
  BY <1>1, HeapInvariant, PTL

-----------------------------------------------------------------------------
(* The heap is a priority queue: its bag of nodes.                          *)

\* Where node m lies among the first n nodes of array a, and how often it does.
Places(a, n, m) == {k \in 0 .. n - 1 : a[k] = m}
Bag(a, n) == [m \in Node |-> Cardinality(Places(a, n, m))]

LEMMA PlacesFinite ==
  ASSUME NEW a, NEW n \in Nat, NEW m
  PROVE  IsFiniteSet(Places(a, n, m)) /\ Cardinality(Places(a, n, m)) \in Nat
<1>1. IsFiniteSet(0 .. n - 1)
  BY FS_Interval
<1>2. Places(a, n, m) \subseteq 0 .. n - 1
  BY DEF Places
<1> QED
  BY <1>1, <1>2, FS_Subset, FS_CardinalityType

\* insert's node is one more.
LEMMA BagGrows ==
  ASSUME NEW a \in [Index -> Node], NEW n \in Index, n \in Nat, NEW m \in Node, NEW b,
         b[n] = m, \A k \in Index : k # n => b[k] = a[k]
  PROVE  \A o \in Node : Bag(b, n + 1)[o] = IF o = m THEN Bag(a, n)[o] + 1 ELSE Bag(a, n)[o]
<1>1. ASSUME NEW o \in Node
      PROVE  Cardinality(Places(b, n + 1, o)) = Cardinality(Places(a, n, o)) + (IF o = m THEN 1 ELSE 0)
  <2>1. /\ n \notin Places(a, n, o) /\ n \in 0 .. n /\ (n + 1) - 1 = n
        /\ \A k \in 0 .. n - 1 : k \in Index /\ k # n
        /\ \A k \in 0 .. n : k = n \/ k \in 0 .. n - 1
    BY CapAssumption DEF Places, Index
  <2>2. CASE o = m
    <3>1. Places(b, n + 1, o) = Places(a, n, o) \cup {n}
      BY <2>1, <2>2 DEF Places
    <3> QED
      BY <2>1, <2>2, <3>1, PlacesFinite, FS_AddElement
  <2>3. CASE o # m
    <3>1. Places(b, n + 1, o) = Places(a, n, o)
      BY <2>1, <2>3 DEF Places
    <3> QED
      BY <2>3, <3>1, PlacesFinite
  <2> QED
    BY <2>2, <2>3
<1>2. \A o \in Node : Cardinality(Places(a, n, o)) \in Nat
  BY PlacesFinite
<1> QED
  BY <1>1, <1>2 DEF Bag

\* pop and drop fill the gap at k with the last node: the node at k is one fewer.
LEMMA BagShrinks ==
  ASSUME NEW a \in [Index -> Node], NEW n \in Nat, n <= CAP_NODES, NEW k \in 0 .. n - 1, NEW b,
         \A l \in Index : b[l] = IF l = k THEN a[n - 1] ELSE a[l]
  PROVE  \A o \in Node : Bag(b, n - 1)[o] = IF o = a[k] THEN Bag(a, n)[o] - 1 ELSE Bag(a, n)[o]
<1>1. n - 1 \in Nat /\ n - 1 \in 0 .. n - 1 /\ k \in Nat /\ k <= n - 1 /\ \A l \in 0 .. n - 1 : l \in Index
  BY CapAssumption DEF Index
<1>2. \A l \in 0 .. n - 1 : b[l] = IF l = k THEN a[n - 1] ELSE a[l]
  BY <1>1
<1>3. ASSUME NEW o \in Node
      PROVE  Cardinality(Places(b, n - 1, o)) = Cardinality(Places(a, n, o) \ {k})
  <2> DEFINE S == Places(a, n, o) \ {k}
             R == Places(b, n - 1, o)
             f == [l \in S |-> IF l = n - 1 THEN k ELSE l]
  <2>1. IsFiniteSet(S)
    BY PlacesFinite, FS_RemoveElement
  <2>2. \A l \in S : l \in 0 .. n - 1 /\ l # k /\ a[l] = o
    BY DEF Places
  <2>3. \A l \in S : l # n - 1 => l \in 0 .. (n - 1) - 1
    BY <1>1, <2>2
  <2>4. f \in [S -> R]
    <3> SUFFICES ASSUME NEW l \in S PROVE (IF l = n - 1 THEN k ELSE l) \in R
      OBVIOUS
    <3>1. CASE l = n - 1
      <4>1. k \in 0 .. (n - 1) - 1
        BY <1>1, <2>2, <3>1
      <4>2. b[k] = o
        BY <1>1, <1>2, <2>2, <3>1
      <4> QED
        BY <3>1, <4>1, <4>2 DEF Places
    <3>2. CASE l # n - 1
      <4>1. l \in 0 .. (n - 1) - 1 /\ b[l] = o
        BY <1>2, <2>2, <2>3, <3>2
      <4> QED
        BY <3>2, <4>1 DEF Places
    <3> QED
      BY <3>1, <3>2
  <2>5. IsInjective(f)
    BY <2>2 DEF IsInjective
  <2>6. \A t \in R : \E l \in S : f[l] = t
    <3> SUFFICES ASSUME NEW t \in R PROVE \E l \in S : f[l] = t
      OBVIOUS
    <3>1. t \in 0 .. (n - 1) - 1 /\ b[t] = o
      BY DEF Places
    <3>2. t \in 0 .. n - 1 /\ t # n - 1
      BY <1>1, <3>1
    <3>3. CASE t = k
      <4>1. a[n - 1] = o /\ n - 1 # k
        BY <1>2, <3>1, <3>2, <3>3
      <4>2. n - 1 \in S
        BY <1>1, <4>1 DEF Places
      <4> QED
        BY <3>3, <4>2
    <3>4. CASE t # k
      <4>1. t \in S
        BY <1>2, <3>1, <3>2, <3>4 DEF Places
      <4> QED
        BY <3>2, <4>1
    <3> QED
      BY <3>3, <3>4
  <2>7. ExistsBijection(S, R)
    BY <2>4, <2>5, <2>6 DEF ExistsBijection, Bijection, Injection, Surjection
  <2> HIDE DEF S, R
  <2>8. Cardinality(R) = Cardinality(S)
    BY <2>1, <2>7, FS_Bijection
  <2> QED
    BY <2>8 DEF S, R
<1>4. ASSUME NEW o \in Node
      PROVE  Cardinality(Places(a, n, o) \ {k})
               = IF o = a[k] THEN Cardinality(Places(a, n, o)) - 1 ELSE Cardinality(Places(a, n, o))
  <2> DEFINE P == Places(a, n, o)
  <2>1. k \in P <=> o = a[k]
    BY DEF Places
  <2>2. IsFiniteSet(P) /\ Cardinality(P) \in Nat
    BY PlacesFinite
  <2> HIDE DEF P
  <2>3. Cardinality(P \ {k}) = IF k \in P THEN Cardinality(P) - 1 ELSE Cardinality(P)
    BY <2>2, FS_RemoveElement
  <2> QED
    BY <2>1, <2>3 DEF P
<1>5. \A o \in Node : /\ Bag(b, n - 1)[o] = Cardinality(Places(b, n - 1, o))
                      /\ Bag(a, n)[o] = Cardinality(Places(a, n, o))
  BY DEF Bag
<1> QED
  BY <1>3, <1>4, <1>5

\* A swap of two nodes of the heap loses and doubles none.
LEMMA BagSwaps ==
  ASSUME NEW a \in [Index -> Node], NEW n \in Nat, n <= CAP_NODES,
         NEW j \in 0 .. n - 1, NEW k \in 0 .. n - 1
  PROVE  Bag(Swapped(a, j, k), n) = Bag(a, n)
<1> DEFINE b == Swapped(a, j, k)
<1>1. \A l \in 0 .. n - 1 : l \in Index
  BY CapAssumption DEF Index
<1>2. \A l \in 0 .. n - 1 : b[l] = IF l = k THEN a[j] ELSE IF l = j THEN a[k] ELSE a[l]
  BY <1>1 DEF Swapped
<1> HIDE DEF b
<1>3. ASSUME NEW o \in Node PROVE Cardinality(Places(b, n, o)) = Cardinality(Places(a, n, o))
  <2> DEFINE S == Places(a, n, o)
             R == Places(b, n, o)
             g(l) == IF l = k THEN j ELSE IF l = j THEN k ELSE l
             f == [l \in S |-> g(l)]
  <2>1. IsFiniteSet(S)
    BY PlacesFinite
  <2>2. \A l \in 0 .. n - 1 : g(l) \in 0 .. n - 1 /\ b[g(l)] = a[l] /\ a[g(l)] = b[l] /\ g(g(l)) = l
    BY <1>2
  <2> HIDE DEF g
  <2>3. f \in [S -> R] /\ IsInjective(f) /\ \A t \in R : \E l \in S : f[l] = t
    BY <2>2 DEF Places, IsInjective
  <2>4. ExistsBijection(S, R)
    BY <2>3 DEF ExistsBijection, Bijection, Injection, Surjection
  <2> QED
    BY <2>1, <2>4, FS_Bijection
<1> QED
  BY <1>3 DEF Bag, b

\* The root of a heap in order is a node of least priority.
LEMMA RootIsLeast ==
  ASSUME TypeOK, RestOrder(nodes, len_nodes)
  PROVE  \A k \in 0 .. len_nodes - 1 : nodes[0].priority <= nodes[k].priority
<1>1. /\ len_nodes \in Nat /\ len_nodes <= CAP_NODES
      /\ \A k \in 0 .. len_nodes - 1 : k \in Index /\ k \in Nat /\ nodes[k].priority \in Nat
  <2>1. len_nodes \in 0 .. CAP_NODES /\ CAP_NODES \in Nat
    BY CapAssumption DEF TypeOK
  <2>2. \A k \in 0 .. len_nodes - 1 : k \in Index /\ k \in Nat
    BY <2>1 DEF Index
  <2>3. \A k \in Index : nodes[k].priority \in Nat
    <3>1. \A k \in Index : nodes[k] \in Node
      BY DEF TypeOK
    <3> QED
      BY <3>1, NodeAssumption
  <2> QED
    BY <2>1, <2>2, <2>3
<1> DEFINE Bad == {k \in 0 .. len_nodes - 1 : ~(nodes[0].priority <= nodes[k].priority)}
<1> SUFFICES ASSUME Bad # {} PROVE FALSE
  OBVIOUS
<1>2. PICK k \in Bad : \A l \in Bad : k <= l
  <2>1. Bad \subseteq Nat
    BY <1>1
  <2> HIDE DEF Bad
  <2> QED
    BY <2>1, LeastNumber
<1>3. k \in 1 .. len_nodes - 1 /\ k \in Nat \ {0} /\ 0 \in 0 .. len_nodes - 1
  BY <1>1
<1> DEFINE p == GET_PARENT(k)
<1>4. p \in Nat /\ p < k
  BY <1>3, ParentFacts
<1>5. nodes[p].priority <= nodes[k].priority
  BY <1>3 DEF RestOrder, InOrder, Priority
<1> HIDE DEF p
<1>6. p \in 0 .. len_nodes - 1
  BY <1>1, <1>3, <1>4
<1>7. nodes[0].priority <= nodes[p].priority
  BY <1>2, <1>4, <1>6
<1> QED
  BY <1>1, <1>3, <1>5, <1>6, <1>7

-----------------------------------------------------------------------------
(* Every step of the heap is one of the priority queue, or none.            *)

\* The refinement mapping.
count == Bag(nodes, len_nodes)
open == pc # "exit"

Counts(m, more) == \A o \in Node : count'[o] = IF o = m THEN count[o] + more ELSE count[o]

HeapStep ==
  \/ /\ open /\ ~open' /\ count' = count /\ call' = call
  \/ /\ open /\ open'
     /\ \/ \E m \in Node : Counts(m, 1) /\ call' = <<"insert", m>>
        \/ \E m \in Node :
             /\ count[m] > 0 /\ Counts(m, -1)
             /\ \/ call' = <<"drop", m.key>>
                \/ call' = <<"pop", m>> /\ \A o \in Node : count[o] > 0 => m.priority <= o.priority
  \/ open' = open /\ count' = count /\ call' = call

\* A node is counted if it is in the heap.
LEMMA Counted ==
  ASSUME TypeOK, NEW m \in Node
  PROVE  count[m] > 0 <=> \E k \in 0 .. len_nodes - 1 : nodes[k] = m
<1>1. IsFiniteSet(Places(nodes, len_nodes, m)) /\ count[m] = Cardinality(Places(nodes, len_nodes, m))
      /\ count[m] \in Nat
  BY PlacesFinite DEF TypeOK, count, Bag
<1>2. count[m] = 0 <=> Places(nodes, len_nodes, m) = {}
  BY <1>1, FS_EmptySet
<1> QED
  BY <1>1, <1>2 DEF Places

LEMMA ExitRefines == ASSUME pc = "idle", Exit PROVE HeapStep
  BY DEF Exit, HeapStep, open, count

LEMMA InsertRefines == ASSUME HeapInv, NEW m \in Node, insert(m) PROVE HeapStep
<1>1. CASE CAP_NODES <= len_nodes
  BY <1>1, ExitRefines DEF insert
<1>2. CASE ~(CAP_NODES <= len_nodes)
  <2>1. /\ pc = "idle" /\ pc' = "up" /\ len_nodes' = len_nodes + 1 /\ call' = <<"insert", m>>
        /\ nodes' = [nodes EXCEPT ![len_nodes] = m]
    BY <1>2 DEF insert
  <2>2. nodes \in [Index -> Node] /\ len_nodes \in Index /\ len_nodes \in Nat
    BY <1>2, CapAssumption DEF HeapInv, TypeOK, Index
  <2>3. nodes'[len_nodes] = m /\ \A k \in Index : k # len_nodes => nodes'[k] = nodes[k]
    BY <2>1, <2>2
  <2>4. Counts(m, 1)
    <3>1. \A o \in Node : Bag(nodes', len_nodes + 1)[o]
                            = IF o = m THEN Bag(nodes, len_nodes)[o] + 1 ELSE Bag(nodes, len_nodes)[o]
      BY <2>2, <2>3, BagGrows
    <3> QED
      BY <2>1, <3>1 DEF Counts, count
  <2> QED
    BY <2>1, <2>4 DEF HeapStep, open
<1> QED
  BY <1>1, <1>2

LEMMA PopRefines == ASSUME HeapInv, pop PROVE HeapStep
<1>1. CASE len_nodes = 0
  BY <1>1, ExitRefines DEF pop
<1>2. CASE len_nodes # 0
  <2>1. /\ pc = "idle" /\ pc' = "down" /\ len_nodes' = len_nodes - 1 /\ call' = <<"pop", nodes[0]>>
        /\ nodes' = [nodes EXCEPT ![0] = nodes[len_nodes - 1]]
    BY <1>2 DEF pop
  <2>2. /\ nodes \in [Index -> Node] /\ len_nodes \in Nat /\ len_nodes <= CAP_NODES
        /\ 0 \in 0 .. len_nodes - 1 /\ nodes[0] \in Node
    BY <1>2, CapAssumption DEF HeapInv, TypeOK, Index
  <2>3. Counts(nodes[0], -1)
    <3>1. \A l \in Index : nodes'[l] = IF l = 0 THEN nodes[len_nodes - 1] ELSE nodes[l]
      BY <2>1, <2>2
    <3>2. \A o \in Node : Bag(nodes', len_nodes - 1)[o]
                            = IF o = nodes[0] THEN Bag(nodes, len_nodes)[o] - 1 ELSE Bag(nodes, len_nodes)[o]
      BY <2>2, <3>1, BagShrinks
    <3>3. \A o \in Node : count[o] \in Nat
      BY <2>2, PlacesFinite DEF count, Bag
    <3> QED
      BY <2>1, <3>2, <3>3 DEF Counts, count
  <2>4. count[nodes[0]] > 0
    BY <2>2, Counted DEF HeapInv
  <2>5. \A o \in Node : count[o] > 0 => nodes[0].priority <= o.priority
    BY <2>1, RootIsLeast, Counted DEF HeapInv, OrderInv
  <2> QED
    BY <2>1, <2>2, <2>3, <2>4, <2>5 DEF HeapStep, open
<1> QED
  BY <1>1, <1>2

LEMMA DropRefines == ASSUME HeapInv, NEW key, drop(key) PROVE HeapStep
<1>1. CASE Holders(key) = {}
  BY <1>1, ExitRefines DEF drop
<1>2. CASE Holders(key) # {}
  <2> DEFINE k == First(key)
  <2>1. /\ pc = "idle" /\ pc' \in {"up", "down"} /\ len_nodes' = len_nodes - 1
        /\ call' = <<"drop", key>> /\ nodes' = [nodes EXCEPT ![k] = nodes[len_nodes - 1]]
    BY <1>2 DEF drop
  <2>2. k \in 0 .. len_nodes - 1 /\ nodes[k].key = key
    BY <1>2, FirstIsHolder DEF HeapInv, TypeOK, Holders
  <2> HIDE DEF k
  <2>3. nodes \in [Index -> Node] /\ len_nodes \in Nat /\ len_nodes <= CAP_NODES /\ nodes[k] \in Node
    BY <2>2, CapAssumption DEF HeapInv, TypeOK, Index
  <2>4. Counts(nodes[k], -1)
    <3>1. \A l \in Index : nodes'[l] = IF l = k THEN nodes[len_nodes - 1] ELSE nodes[l]
      BY <2>1, <2>2, <2>3
    <3>2. \A o \in Node : Bag(nodes', len_nodes - 1)[o]
                            = IF o = nodes[k] THEN Bag(nodes, len_nodes)[o] - 1 ELSE Bag(nodes, len_nodes)[o]
      BY <2>2, <2>3, <3>1, BagShrinks
    <3>3. \A o \in Node : count[o] \in Nat
      BY <2>3, PlacesFinite DEF count, Bag
    <3> QED
      BY <2>1, <3>2, <3>3 DEF Counts, count
  <2>5. count[nodes[k]] > 0
    BY <2>2, <2>3, Counted DEF HeapInv
  <2> QED
    BY <2>1, <2>2, <2>3, <2>4, <2>5 DEF HeapStep, open
<1> QED
  BY <1>1, <1>2

\* Behind the heap, where drop may leave it, balance_up swaps nothing.
LEMMA BalanceRefines == ASSUME HeapInv, Balance PROVE HeapStep
<1> SUFFICES count' = count
  BY DEF HeapStep, Balance, balance_up, balance_down, open
<1>0. /\ nodes \in [Index -> Node] /\ len_nodes \in Nat /\ len_nodes <= CAP_NODES
      /\ i \in Nat /\ i \in Index /\ len_nodes' = len_nodes
      /\ \A c \in Index : nodes[c].priority \in Nat
  BY CapAssumption, NodeAssumption DEF HeapInv, TypeOK, Index, Balance, balance_up, balance_down
<1>1. CASE nodes' = nodes
  BY <1>0, <1>1 DEF count
<1>2. CASE nodes' # nodes /\ balance_up
  <2> DEFINE j == GET_PARENT(i)
  <2>1. /\ i # 0 /\ pc = "up" /\ nodes[i].priority < nodes[j].priority /\ nodes' = Swapped(nodes, i, j)
    BY <1>2 DEF balance_up
  <2>2. j \in Nat /\ j < i
    BY <1>0, <2>1, ParentFacts
  <2>3. i < len_nodes
    <3>1. i <= len_nodes /\ (i = len_nodes => Priority(nodes, j) <= Priority(nodes, i))
      BY <2>1 DEF HeapInv, OrderInv, UpOrder, InOrder
    <3> HIDE DEF j
    <3>2. j \in Index
      BY <1>0, <2>2, CapAssumption DEF Index
    <3>3. nodes[i].priority \in Nat /\ nodes[j].priority \in Nat
      BY <1>0, <3>2
    <3> QED
      BY <1>0, <2>1, <3>1, <3>3 DEF Priority
  <2> HIDE DEF j
  <2>4. i \in 0 .. len_nodes - 1 /\ j \in 0 .. len_nodes - 1
    BY <1>0, <2>2, <2>3
  <2> QED
    BY <1>0, <2>1, <2>4, BagSwaps DEF count
<1>3. CASE nodes' # nodes /\ balance_down
  <2> DEFINE m == Smallest(i)
  <2>1. m # i /\ nodes' = Swapped(nodes, i, m)
    BY <1>3 DEF balance_down
  <2>2. m \in 1 .. len_nodes - 1 /\ GET_PARENT(m) = i
    BY <2>1, SmallestFacts DEF HeapInv
  <2>3. i < m
    BY <1>0, <2>2, ParentFacts
  <2> HIDE DEF m
  <2>4. i \in 0 .. len_nodes - 1 /\ m \in 0 .. len_nodes - 1
    BY <1>0, <2>2, <2>3
  <2> QED
    BY <1>0, <2>1, <2>4, BagSwaps DEF count
<1> QED
  BY <1>1, <1>2, <1>3 DEF Balance

LEMMA StepRefines == HeapInv /\ [Next]_vars => HeapStep
<1> SUFFICES ASSUME HeapInv, [Next]_vars PROVE HeapStep
  OBVIOUS
<1>1. CASE UNCHANGED vars
  BY <1>1 DEF vars, HeapStep, count, open
<1> QED
  BY <1>1, InsertRefines, PopRefines, DropRefines, BalanceRefines DEF Next

\* The heap implements the priority queue: whatever is inserted, popped and dropped, pop
\* returns a node of least priority from the whole heap (main, line 180), drop takes one
\* with its key, and balancing neither loses nor doubles a node.
THEOREM HeapIsQueue == Spec => IsQueue
<1>1. Init => Queue!Init
  <2> SUFFICES ASSUME Init PROVE Queue!Init
    OBVIOUS
  <2>1. \A m \in Node : {k \in 0 .. len_nodes - 1 : nodes[k] = m} = {}
    BY DEF Init
  <2>2. \A m \in Node : Cardinality({k \in 0 .. len_nodes - 1 : nodes[k] = m}) = 0
    BY <2>1, FS_EmptySet
  <2>3. (pc # "exit") = TRUE
    BY DEF Init
  <2> QED
    BY <2>2, <2>3 DEF Init, Queue!Init
<1>2. HeapStep => [Queue!Next]_(Queue!vars)
  <2> SUFFICES ASSUME HeapStep PROVE [Queue!Next]_(Queue!vars)
    OBVIOUS
  <2> DEFINE held == [m \in Node |-> Cardinality({k \in 0 .. len_nodes - 1 : nodes[k] = m})]
  <2>1. count = held /\ count' = held'
    BY DEF count, Bag, Places
  <2>2. ASSUME NEW m \in Node, NEW more, Counts(m, more) PROVE Queue!Add(m, more)
    <3>1. held' = [held EXCEPT ![m] = @ + more]
      BY <2>1, <2>2 DEF Counts
    <3> QED
      BY <3>1 DEF Queue!Add
  <2>3. \A m \in Node : count[m] > 0 <=> m \in Queue!Present
    BY <2>1 DEF Queue!Present
  <2>4. CASE open /\ ~open' /\ count' = count /\ call' = call
    <3>1. held' = held /\ pc # "exit" /\ (pc # "exit")' = FALSE
      BY <2>1, <2>4 DEF open
    <3> QED
      BY <2>4, <3>1 DEF Queue!Next, Queue!Exit
  <2>5. CASE open' = open /\ count' = count /\ call' = call
    <3>1. held' = held /\ UNCHANGED (pc # "exit")
      BY <2>1, <2>5 DEF open
    <3> QED
      BY <2>5, <3>1 DEF Queue!vars
  <2>6. CASE open /\ open'
    <3>1. pc # "exit" /\ UNCHANGED (pc # "exit")
      BY <2>6 DEF open
    <3>2. ASSUME NEW m \in Node, Counts(m, 1), call' = <<"insert", m>> PROVE Queue!Next
      BY <2>2, <3>1, <3>2 DEF Queue!Next, Queue!Insert
    <3>3. ASSUME NEW m \in Node, count[m] > 0, Counts(m, -1), call' = <<"drop", m.key>>
          PROVE  Queue!Next
      BY <2>2, <2>3, <3>1, <3>3 DEF Queue!Next, Queue!Drop
    <3>4. ASSUME NEW m \in Node, count[m] > 0, Counts(m, -1), call' = <<"pop", m>>,
                 \A o \in Node : count[o] > 0 => m.priority <= o.priority
          PROVE  Queue!Next
      <4>1. \A o \in Queue!Present : m.priority <= o.priority
        BY <2>3, <3>4 DEF Queue!Present
      <4> QED
        BY <2>2, <2>3, <3>1, <3>4, <4>1 DEF Queue!Next, Queue!Pop
    <3>5. CASE count' = count /\ call' = call
      <4>1. held' = held
        BY <2>1, <3>5
      <4> QED
        BY <3>1, <3>5, <4>1 DEF Queue!vars
    <3> QED
      BY <2>6, <3>2, <3>3, <3>4, <3>5 DEF HeapStep
  <2> QED
    BY <2>4, <2>5, <2>6 DEF HeapStep
<1> QED
  BY <1>1, <1>2, HeapInvariant, StepRefines, PTL DEF Spec, IsQueue, Queue!Spec

-----------------------------------------------------------------------------
(* Sorting.  What moves elements only between the positions lo and hi.      *)

\* The positions of an array of n elements.
Place(n) == 0 .. n - 1

\* The array b is a, rearranged from lo to hi: what is at k was at p[k].
Rearranges(p, a, b, n, lo, hi) ==
  /\ p \in [Place(n) -> Place(n)]
  /\ \A k, m \in Place(n) : p[k] = p[m] => k = m
  /\ \A k \in Place(n) : \E m \in Place(n) : p[m] = k
  /\ \A k \in Place(n) : k < lo \/ hi < k => p[k] = k
  /\ \A k \in Place(n) : b[k] = a[p[k]]

Moved(a, b, n, lo, hi) == \E p : Rearranges(p, a, b, n, lo, hi)

LEMMA MovedNot ==
  ASSUME NEW n \in Nat, NEW a, NEW b, NEW lo, NEW hi, \A k \in Place(n) : b[k] = a[k]
  PROVE  Moved(a, b, n, lo, hi)
<1> DEFINE p == [k \in Place(n) |-> k]
<1>1. Rearranges(p, a, b, n, lo, hi)
  BY DEF Rearranges
<1> QED
  BY <1>1 DEF Moved

LEMMA MovedOn ==
  ASSUME NEW n \in Nat, NEW a, NEW b, NEW c, NEW lo \in Int, NEW hi \in Int,
         NEW l \in Int, NEW h \in Int, NEW x \in Int, NEW y \in Int,
         lo <= l, h <= hi, lo <= x, y <= hi,
         Moved(a, b, n, l, h), Moved(b, c, n, x, y)
  PROVE  Moved(a, c, n, lo, hi)
<1>1. PICK p : Rearranges(p, a, b, n, l, h)
  BY DEF Moved
<1>2. PICK q : Rearranges(q, b, c, n, x, y)
  BY DEF Moved
<1> DEFINE r == [k \in Place(n) |-> p[q[k]]]
<1>3. r \in [Place(n) -> Place(n)] /\ \A k, m \in Place(n) : r[k] = r[m] => k = m
  BY <1>1, <1>2 DEF Rearranges
<1>4. ASSUME NEW k \in Place(n) PROVE \E m \in Place(n) : r[m] = k
  <2>1. PICK m \in Place(n) : p[m] = k
    BY <1>1 DEF Rearranges
  <2>2. PICK o \in Place(n) : q[o] = m
    BY <1>2 DEF Rearranges
  <2> QED
    BY <2>1, <2>2
<1>5. ASSUME NEW k \in Place(n), k < lo \/ hi < k PROVE r[k] = k
  <2>1. k \in Int /\ (k < l \/ h < k) /\ (k < x \/ y < k)
    BY <1>5 DEF Place
  <2> QED
    BY <1>1, <1>2, <2>1 DEF Rearranges
<1>6. \A k \in Place(n) : c[k] = a[r[k]]
  BY <1>1, <1>2 DEF Rearranges
<1> HIDE DEF r
<1>7. Rearranges(r, a, c, n, lo, hi)
  BY <1>3, <1>4, <1>5, <1>6 DEF Rearranges
<1> QED
  BY <1>7 DEF Moved

\* What is in the part after it was rearranged was in it before, and the rest stays.
LEMMA MovedWithin ==
  ASSUME NEW n \in Nat, NEW a, NEW b, NEW lo \in Int, NEW hi \in Int, Moved(a, b, n, lo, hi)
  PROVE  /\ \A k \in Place(n) : lo <= k /\ k <= hi => \E m \in Place(n) : lo <= m /\ m <= hi /\ b[k] = a[m]
         /\ \A k \in Place(n) : k < lo \/ hi < k => b[k] = a[k]
<1>1. PICK p : Rearranges(p, a, b, n, lo, hi)
  BY DEF Moved
<1>2. ASSUME NEW k \in Place(n), lo <= k, k <= hi
      PROVE  \E m \in Place(n) : lo <= m /\ m <= hi /\ b[k] = a[m]
  <2>1. p[k] \in Place(n) /\ b[k] = a[p[k]] /\ k \in Int /\ p[k] \in Int
    BY <1>1 DEF Rearranges, Place
  <2>2. ~(p[k] < lo \/ hi < p[k])
    <3> SUFFICES ASSUME p[k] < lo \/ hi < p[k] PROVE FALSE
      OBVIOUS
    <3>1. p[p[k]] = p[k]
      BY <1>1, <2>1 DEF Rearranges
    <3>2. p[k] = k
      BY <1>1, <2>1, <3>1 DEF Rearranges
    <3> QED
      BY <1>2, <2>1, <3>2
  <2> QED
    BY <2>1, <2>2
<1>3. \A k \in Place(n) : k < lo \/ hi < k => b[k] = a[k]
  BY <1>1 DEF Rearranges
<1> QED
  BY <1>2, <1>3

LEMMA MovedSwap ==
  ASSUME NEW n \in Nat, NEW a, DOMAIN a = Place(n), NEW x \in Place(n), NEW y \in Place(n),
         NEW lo \in Int, NEW hi \in Int, lo <= x, x <= hi, lo <= y, y <= hi
  PROVE  /\ Sorting!Swap(a, x, y) = [k \in Place(n) |-> IF k = x THEN a[y] ELSE IF k = y THEN a[x] ELSE a[k]]
         /\ Moved(a, Sorting!Swap(a, x, y), n, lo, hi)
<1> DEFINE b == Sorting!Swap(a, x, y)
           p == [k \in Place(n) |-> IF k = x THEN y ELSE IF k = y THEN x ELSE k]
<1>1. b = [k \in Place(n) |-> IF k = x THEN a[y] ELSE IF k = y THEN a[x] ELSE a[k]]
  BY DEF Sorting!Swap
<1> HIDE DEF b
<1>2. p \in [Place(n) -> Place(n)] /\ \A k \in Place(n) : p[k] = IF k = x THEN y ELSE IF k = y THEN x ELSE k
  OBVIOUS
<1> HIDE DEF p
<1>3. \A k, m \in Place(n) : p[k] = p[m] => k = m
  BY <1>2
<1>4. \A k \in Place(n) : p[p[k]] = k
  BY <1>2
<1>5. x \in Int /\ y \in Int
  BY DEF Place
<1>6. \A k \in Place(n) : k < lo \/ hi < k => p[k] = k
  BY <1>2, <1>5
<1>7. Rearranges(p, a, b, n, lo, hi)
  BY <1>1, <1>2, <1>3, <1>4, <1>6 DEF Rearranges
<1> QED
  BY <1>1, <1>7 DEF Moved, b

\* Each element occurs as often as before.
LEMMA MovedOccurs ==
  ASSUME NEW n \in Nat, NEW a, NEW b, NEW lo, NEW hi, Moved(a, b, n, lo, hi),
         DOMAIN a = Place(n), DOMAIN b = Place(n), NEW v
  PROVE  Sorting!Occurs(b, v) = Sorting!Occurs(a, v)
<1>1. PICK p : Rearranges(p, a, b, n, lo, hi)
  BY DEF Moved
<1> DEFINE A == {k \in Place(n) : a[k] = v}
           B == {k \in Place(n) : b[k] = v}
           f == [k \in B |-> p[k]]
<1>2. f \in [B -> A] /\ (\A k, m \in B : f[k] = f[m] => k = m) /\ \A k \in A : \E m \in B : f[m] = k
  BY <1>1 DEF Rearranges
<1>3. ExistsBijection(B, A)
  BY <1>2 DEF ExistsBijection, Bijection, Injection, Surjection, IsInjective
<1>4. IsFiniteSet(A) /\ IsFiniteSet(B)
  <2>1. IsFiniteSet(0 .. n - 1)
    BY FS_Interval
  <2> QED
    BY <2>1, FS_Subset DEF Place
<1> HIDE DEF A, B
<1>5. Cardinality(B) = Cardinality(A)
  BY <1>3, <1>4, FS_Bijection
<1>6. Sorting!Cardinality(A) = Cardinality(A) /\ Sorting!Cardinality(B) = Cardinality(B)
  BY DEF Sorting!Cardinality, Cardinality
<1> QED
  BY <1>5, <1>6 DEF Sorting!Occurs, A, B

-----------------------------------------------------------------------------
(* Quicksort.                                                                *)

\* What the sort compares are numbers.
Measured(S, dim) == \A v \in S : v[dim] \in Int

\* An iteration of the loop of partition, and the loop as the function Scan defines.
ScanStep(s, j, dim, pivot) ==
  IF s.array[j][dim] <= pivot
  THEN [array |-> Sorting!Swap(s.array, s.i + 1, j), i |-> s.i + 1]
  ELSE s

Scans(f, a, low, high, dim, bound) ==
  f = [m \in 0 .. bound |->
         IF m = 0 THEN [array |-> a, i |-> low - 1] ELSE ScanStep(f[m - 1], low + m - 1, dim, a[high][dim])]

LEMMA ScanExists ==
  ASSUME NEW a, NEW low, NEW high, NEW dim, NEW bound \in Nat
  PROVE  \E f : Scans(f, a, low, high, dim, bound)
<1> DEFINE D == {l \in Nat : \E f : Scans(f, a, low, high, dim, l)}
           S0 == [array |-> a, i |-> low - 1]
<1>1. 0 \in D
  <2> DEFINE f == [m \in 0 .. 0 |-> S0]
  <2>1. Scans(f, a, low, high, dim, 0)
    BY DEF Scans
  <2> HIDE DEF f
  <2> QED
    BY <2>1
<1>2. ASSUME NEW l \in Nat, l \in D PROVE l + 1 \in D
  <2>1. PICK f : Scans(f, a, low, high, dim, l)
    BY <1>2
  <2> DEFINE g == [m \in 0 .. l + 1 |-> IF m = 0 THEN S0 ELSE ScanStep(f[m - 1], low + m - 1, dim, a[high][dim])]
             h == [m \in 0 .. l + 1 |-> IF m = 0 THEN S0 ELSE ScanStep(g[m - 1], low + m - 1, dim, a[high][dim])]
  <2>2. ASSUME NEW m \in 0 .. l PROVE g[m] = f[m]
    BY <2>1 DEF Scans
  <2>3. ASSUME NEW m \in 0 .. l + 1 PROVE g[m] = h[m]
    <3>1. CASE m = 0
      BY <3>1
    <3>2. CASE m # 0
      <4>1. m - 1 \in 0 .. l
        BY <3>2
      <4>2. g[m - 1] = f[m - 1]
        BY <2>2, <4>1
      <4>3. /\ g[m] = ScanStep(f[m - 1], low + m - 1, dim, a[high][dim])
            /\ h[m] = ScanStep(g[m - 1], low + m - 1, dim, a[high][dim])
        BY <3>2
      <4> HIDE DEF g, h
      <4> QED
        BY <4>2, <4>3
    <3> QED
      BY <3>1, <3>2
  <2>4. g = h
    BY <2>3, Zenon
  <2>5. Scans(g, a, low, high, dim, l + 1)
    BY <2>4, Zenon DEF Scans
  <2> HIDE DEF g, h
  <2> QED
    BY <2>5
<1> HIDE DEF D
<1>3. bound \in D
  BY <1>1, <1>2, NatSetInduction
<1> QED
  BY <1>3 DEF D

\* After the loop has passed the elements before j: those up to i do not exceed the pivot.
Scanned(s, a, n, S, low, high, dim, j) ==
  /\ s = [array |-> s.array, i |-> s.i]
  /\ s.array \in [Place(n) -> S] /\ s.i \in low - 1 .. j - 1
  /\ Moved(a, s.array, n, low, high) /\ s.array[high] = a[high]
  /\ \A k \in Place(n) : low <= k /\ k <= s.i => s.array[k][dim] <= a[high][dim]
  /\ \A k \in Place(n) : s.i < k /\ k < j => s.array[k][dim] > a[high][dim]

LEMMA ScannedOn ==
  ASSUME NEW n \in Nat, NEW S, NEW dim, Measured(S, dim), NEW a \in [Place(n) -> S],
         NEW low \in Place(n), NEW high \in Place(n), NEW j \in Place(n), low <= j, j < high,
         NEW s, Scanned(s, a, n, S, low, high, dim, j)
  PROVE  Scanned(ScanStep(s, j, dim, a[high][dim]), a, n, S, low, high, dim, j + 1)
<1>0. low \in Int /\ high \in Int /\ j \in Int /\ high <= n - 1 /\ 0 <= low
  BY DEF Place
<1>1. PICK b, d : b = s.array /\ d = s.i /\ s = [array |-> b, i |-> d]
  BY DEF Scanned
<1>2. /\ b \in [Place(n) -> S] /\ d \in low - 1 .. j - 1
      /\ Moved(a, b, n, low, high) /\ b[high] = a[high]
      /\ \A k \in Place(n) : low <= k /\ k <= d => b[k][dim] <= a[high][dim]
      /\ \A k \in Place(n) : d < k /\ k < j => b[k][dim] > a[high][dim]
  BY <1>1 DEF Scanned
<1>3. \A k \in Place(n) : b[k][dim] \in Int /\ k \in Int
  BY <1>2 DEF Measured, Place
<1>4. CASE b[j][dim] <= a[high][dim]
  <2>7. PICK e : e = d + 1
    OBVIOUS
  <2>2. e \in Place(n) /\ low <= e /\ e <= j /\ e <= high
    BY <1>0, <1>2, <2>7 DEF Place
  <2>1. PICK c :
          /\ c = Sorting!Swap(b, e, j) /\ Moved(b, c, n, low, high)
          /\ c = [k \in Place(n) |-> IF k = e THEN b[j] ELSE IF k = j THEN b[e] ELSE b[k]]
    <3>1. j <= high /\ low \in Int /\ high \in Int /\ DOMAIN b = Place(n)
      BY <1>0, <1>2
    <3> QED
      BY <2>2, <3>1, MovedSwap
  <2>3. /\ c \in [Place(n) -> S] /\ Moved(b, c, n, low, high)
        /\ \A k \in Place(n) : c[k] = IF k = e THEN b[j] ELSE IF k = j THEN b[e] ELSE b[k]
    BY <1>2, <2>1, <2>2
  <2>4. Moved(a, c, n, low, high)
    BY <1>0, <1>2, <2>3, MovedOn
  <2>5. c[high] = a[high]
    BY <1>0, <1>2, <2>2, <2>3
  <2>6. ASSUME NEW k \in Place(n), low <= k, k <= e PROVE c[k][dim] <= a[high][dim]
    BY <1>0, <1>2, <1>3, <1>4, <2>2, <2>3, <2>6, <2>7
  <2>9. ASSUME NEW k \in Place(n), e < k, k < j + 1 PROVE c[k][dim] > a[high][dim]
    BY <1>0, <1>2, <1>3, <2>2, <2>3, <2>7, <2>9
  <2>8. ScanStep(s, j, dim, a[high][dim]) = [array |-> c, i |-> e]
    BY <1>1, <1>4, <2>1, <2>7 DEF ScanStep
  <2> QED
    <3>1. e \in low - 1 .. (j + 1) - 1
      BY <1>0, <1>2, <2>2, <2>7
    <3>2. Scanned([array |-> c, i |-> e], a, n, S, low, high, dim, j + 1)
      BY <2>3, <2>4, <2>5, <2>6, <2>9, <3>1 DEF Scanned
    <3> QED
      BY <2>8, <3>2
<1>5. CASE ~(b[j][dim] <= a[high][dim])
  <2>1. ScanStep(s, j, dim, a[high][dim]) = s
    BY <1>1, <1>5 DEF ScanStep
  <2>2. b[j][dim] > a[high][dim]
    BY <1>2, <1>3, <1>5
  <2> QED
    BY <1>0, <1>1, <1>2, <1>3, <2>1, <2>2 DEF Scanned
<1> QED
  BY <1>4, <1>5

\* The part from l to h has its pivot at o.
Parted(a, b, n, S, l, h, o, dim) ==
  /\ b \in [Place(n) -> S] /\ Moved(a, b, n, l, h) /\ o \in l .. h
  /\ \A k \in Place(n) : l <= k /\ k < o => b[k][dim] <= b[o][dim]
  /\ \A k \in Place(n) : o < k /\ k <= h => b[k][dim] > b[o][dim]

LEMMA PartitionIs ==
  ASSUME NEW n \in Nat, NEW S, NEW dim, Measured(S, dim), NEW a \in [Place(n) -> S],
         NEW low \in Place(n), NEW high \in Place(n), low < high
  PROVE  LET p == Sorting!Partition(a, low, high, dim)
         IN  Parted(a, p.array, n, S, low, high, p.i, dim)
<1>0. low \in Int /\ high \in Int /\ high <= n - 1 /\ 0 <= low /\ high - low \in Nat
  BY DEF Place
<1>1. PICK f : Scans(f, a, low, high, dim, high - low) /\ Sorting!Scan(a, low, high, dim) = f[high - low]
  <2>1. Sorting!Scan(a, low, high, dim) = (CHOOSE f : Scans(f, a, low, high, dim, high - low))[high - low]
    BY DEF Sorting!Scan, Scans, ScanStep
  <2>2. \E f : Scans(f, a, low, high, dim, high - low)
    BY <1>0, ScanExists
  <2> QED
    BY <2>1, <2>2, Zenon
<1>2. /\ f[0] = [array |-> a, i |-> low - 1]
      /\ \A m \in 1 .. high - low : f[m] = ScanStep(f[m - 1], low + m - 1, dim, a[high][dim])
  BY <1>0, <1>1 DEF Scans
<1> DEFINE D == {m \in 0 .. high - low : Scanned(f[m], a, n, S, low, high, dim, low + m)}
<1>3. 0 \in D
  <2>1. Moved(a, a, n, low, high)
    BY MovedNot
  <2>2. Scanned([array |-> a, i |-> low - 1], a, n, S, low, high, dim, low + 0)
    BY <1>0, <2>1 DEF Scanned, Place
  <2> QED
    BY <1>0, <1>2, <2>2
<1>4. ASSUME NEW m \in 0 .. high - low - 1, m \in D PROVE m + 1 \in D
  <2>1. low + m \in Place(n) /\ low <= low + m /\ low + m < high
    BY <1>0 DEF Place
  <2>2. Scanned(ScanStep(f[m], low + m, dim, a[high][dim]), a, n, S, low, high, dim, low + m + 1)
    BY <1>4, <2>1, ScannedOn
  <2>3. f[m + 1] = ScanStep(f[m], low + m, dim, a[high][dim])
    <3>1. m + 1 \in 1 .. high - low /\ (m + 1) - 1 = m /\ low + (m + 1) - 1 = low + m
      BY <1>0
    <3>2. f[m + 1] = ScanStep(f[(m + 1) - 1], low + (m + 1) - 1, dim, a[high][dim])
      BY <1>2, <3>1
    <3> QED
      BY <3>1, <3>2
  <2>4. low + m + 1 = low + (m + 1) /\ m + 1 \in 0 .. high - low
    BY <1>0
  <2> QED
    BY <2>2, <2>3, <2>4
<1>5. Scanned(f[high - low], a, n, S, low, high, dim, high)
  <2> HIDE DEF D
  <2>1. high - low \in D
    BY <1>0, <1>3, <1>4, SetInduction
  <2>2. low + (high - low) = high
    BY <1>0
  <2> QED
    BY <2>1, <2>2 DEF D
<1>6. PICK s : s = f[high - low] /\ Sorting!Scan(a, low, high, dim) = s /\ Scanned(s, a, n, S, low, high, dim, high)
  BY <1>1, <1>5
<1>7. PICK b, o : b = s.array /\ o = s.i + 1
  OBVIOUS
<1>10. /\ b \in [Place(n) -> S] /\ o \in low .. high /\ Moved(a, b, n, low, high) /\ b[high] = a[high]
       /\ \A k \in Place(n) : low <= k /\ k < o => b[k][dim] <= a[high][dim]
       /\ \A k \in Place(n) : o <= k /\ k < high => b[k][dim] > a[high][dim]
  <2>1. /\ b \in [Place(n) -> S] /\ s.i \in low - 1 .. high - 1
        /\ Moved(a, b, n, low, high) /\ b[high] = a[high]
        /\ \A k \in Place(n) : low <= k /\ k <= s.i => b[k][dim] <= a[high][dim]
        /\ \A k \in Place(n) : s.i < k /\ k < high => b[k][dim] > a[high][dim]
    BY <1>6, <1>7 DEF Scanned
  <2>2. o \in low .. high
    BY <1>0, <1>7, <2>1
  <2>3. \A k \in Place(n) : (k < o <=> k <= s.i) /\ (o <= k <=> s.i < k)
    BY <1>0, <1>7, <2>1 DEF Place
  <2> QED
    BY <2>1, <2>2, <2>3
<1>8. PICK c :
        /\ c = Sorting!Swap(b, o, high) /\ Moved(b, c, n, low, high)
        /\ c = [k \in Place(n) |-> IF k = o THEN b[high] ELSE IF k = high THEN b[o] ELSE b[k]]
  <2>1. o \in Place(n) /\ low <= o /\ o <= high /\ low <= high
    BY <1>0, <1>10 DEF Place
  <2>2. high <= high /\ low \in Int /\ high \in Int /\ DOMAIN b = Place(n)
    BY <1>0, <1>10
  <2> QED
    BY <2>1, <2>2, MovedSwap
<1>9. Sorting!Partition(a, low, high, dim) = [array |-> c, i |-> o]
  BY <1>6, <1>7, <1>8 DEF Sorting!Partition
<1>13. o \in Place(n) /\ \A k \in Place(n) : k \in Int
  BY <1>0, <1>10 DEF Place
<1>11. /\ c \in [Place(n) -> S] /\ Moved(b, c, n, low, high)
       /\ \A k \in Place(n) : c[k] = IF k = o THEN b[high] ELSE IF k = high THEN b[o] ELSE b[k]
  BY <1>8, <1>10, <1>13
<1>12. Moved(a, c, n, low, high)
  BY <1>0, <1>10, <1>11, MovedOn
<1>17. c[o] = a[high]
  BY <1>10, <1>11, <1>13
<1>14. ASSUME NEW k \in Place(n), low <= k, k < o PROVE c[k][dim] <= c[o][dim]
  BY <1>0, <1>10, <1>11, <1>13, <1>17, <1>14
<1>15. ASSUME NEW k \in Place(n), o < k, k <= high PROVE c[k][dim] > c[o][dim]
  BY <1>0, <1>10, <1>11, <1>13, <1>17, <1>15
<1>16. Parted(a, c, n, S, low, high, o, dim)
  BY <1>10, <1>11, <1>12, <1>14, <1>15 DEF Parted
<1> QED
  BY <1>9, <1>16

\* The arrays of n elements of S.
Filled(n, S) == [Place(n) -> S]

Climbs(b, n, l, h, dim) ==
  \A k, m \in Place(n) : l <= k /\ k < m /\ m <= h => b[k][dim] <= b[m][dim]

\* The array b is a, of which the part from l to h has been sorted.
SortedPart(a, b, n, S, l, h, dim) ==
  b \in Filled(n, S) /\ Moved(a, b, n, l, h) /\ Climbs(b, n, l, h, dim)

LEMMA NothingToSort ==
  ASSUME NEW n \in Nat, NEW S, NEW dim, NEW l \in Int, NEW h \in Int, h <= l, NEW a \in Filled(n, S)
  PROVE  SortedPart(a, a, n, S, l, h, dim)
<1>1. Moved(a, a, n, l, h)
  BY MovedNot
<1>2. Climbs(a, n, l, h, dim)
  BY DEF Climbs, Place
<1> QED
  BY <1>1, <1>2 DEF SortedPart

LEMMA PartsJoin ==
  ASSUME NEW n \in Nat, NEW S, NEW dim, Measured(S, dim), NEW l \in Int, NEW h \in Int, NEW o,
         0 <= l, h <= n - 1, NEW a, NEW b, NEW c, NEW d,
         Parted(a, b, n, S, l, h, o, dim), SortedPart(b, c, n, S, l, o - 1, dim),
         SortedPart(c, d, n, S, o + 1, h, dim)
  PROVE  SortedPart(a, d, n, S, l, h, dim)
<1>1. o \in Int /\ l <= o /\ o <= h /\ o \in Place(n)
  BY DEF Parted, Place
<1>2. b \in [Place(n) -> S] /\ c \in [Place(n) -> S] /\ d \in [Place(n) -> S]
  BY DEF Parted, SortedPart, Filled
<1>3. /\ \A k \in Place(n) : l <= k /\ k <= o - 1 => \E m \in Place(n) : l <= m /\ m <= o - 1 /\ c[k] = b[m]
      /\ \A k \in Place(n) : k < l \/ o - 1 < k => c[k] = b[k]
  BY <1>1, MovedWithin DEF SortedPart
<1>4. /\ \A k \in Place(n) : o + 1 <= k /\ k <= h => \E m \in Place(n) : o + 1 <= m /\ m <= h /\ d[k] = c[m]
      /\ \A k \in Place(n) : k < o + 1 \/ h < k => d[k] = c[k]
  BY <1>1, MovedWithin DEF SortedPart
<1>5. \A k \in Place(n) : k \in Int /\ b[k][dim] \in Int /\ c[k][dim] \in Int /\ d[k][dim] \in Int
  BY <1>2 DEF Measured, Place
<1>6. d[o] = b[o]
  BY <1>1, <1>3, <1>4
<1>7. ASSUME NEW k \in Place(n), l <= k, k < o PROVE d[k] = c[k] /\ d[k][dim] <= d[o][dim]
  <2>1. d[k] = c[k] /\ k <= o - 1
    BY <1>1, <1>4, <1>5, <1>7
  <2>2. PICK m \in Place(n) : l <= m /\ m <= o - 1 /\ c[k] = b[m]
    BY <1>3, <1>7, <2>1
  <2>3. m < o
    BY <1>1, <1>5, <2>2
  <2>4. b[m][dim] <= b[o][dim]
    BY <2>2, <2>3 DEF Parted
  <2> QED
    BY <1>6, <2>1, <2>2, <2>4
<1>8. ASSUME NEW k \in Place(n), o < k, k <= h PROVE d[k][dim] > d[o][dim]
  <2>1. o + 1 <= k
    BY <1>1, <1>5, <1>8
  <2>2. PICK m \in Place(n) : o + 1 <= m /\ m <= h /\ d[k] = c[m]
    BY <1>4, <1>8, <2>1
  <2>3. o < m /\ c[m] = b[m]
    BY <1>1, <1>3, <1>5, <2>2
  <2>4. b[m][dim] > b[o][dim]
    BY <2>2, <2>3 DEF Parted
  <2> QED
    BY <1>6, <2>2, <2>3, <2>4
<1>9. ASSUME NEW k \in Place(n), NEW m \in Place(n), l <= k, k < m, m <= h PROVE d[k][dim] <= d[m][dim]
  <2>0. k \in Int /\ m \in Int
    BY <1>5
  <2>1. CASE m < o
    <3>1. k < o /\ l <= m /\ m <= o - 1
      BY <1>1, <1>9, <2>0, <2>1
    <3>2. c[k][dim] <= c[m][dim]
      BY <1>9, <3>1 DEF SortedPart, Climbs
    <3> QED
      BY <1>7, <1>9, <2>1, <3>1, <3>2
  <2>2. CASE m = o
    BY <1>7, <1>9, <2>2
  <2>3. CASE o < m /\ k < o
    BY <1>1, <1>5, <1>7, <1>8, <1>9, <2>3
  <2>4. CASE o < m /\ k = o
    BY <1>1, <1>5, <1>8, <1>9, <2>4
  <2>5. CASE o < k
    <3>1. o + 1 <= k
      BY <1>1, <2>0, <2>5
    <3> QED
      BY <1>9, <3>1 DEF SortedPart, Climbs
  <2> QED
    BY <1>1, <2>0, <2>1, <2>2, <2>3, <2>4, <2>5
<1>10. Moved(a, c, n, l, h)
  <2>1. Moved(a, b, n, l, h) /\ Moved(b, c, n, l, o - 1)
    BY DEF Parted, SortedPart
  <2>2. l <= l /\ h <= h /\ o - 1 <= h /\ o - 1 \in Int
    BY <1>1
  <2> QED
    BY <2>1, <2>2, MovedOn
<1>11. Moved(a, d, n, l, h)
  <2>1. Moved(c, d, n, o + 1, h)
    BY DEF SortedPart
  <2>2. l <= l /\ h <= h /\ l <= o + 1 /\ o + 1 \in Int
    BY <1>1
  <2> QED
    BY <1>10, <2>1, <2>2, MovedOn
<1> QED
  BY <1>2, <1>9, <1>11 DEF SortedPart, Climbs, Filled

\* What a call does by the calls f one level below it, and the function Sort defines so.
SortStep(f, d, a, l, h, dim) ==
  LET p == Sorting!Partition(a, l, h, dim)
      left == IF p.i = 0 THEN p.array ELSE f[<<d - 1, p.array, l, p.i - 1>>]
  IN  IF d = 0 \/ l >= h THEN a ELSE f[<<d - 1, left, p.i + 1, h>>]

\* The calls with up to so many levels below them.
Levels(top, n, S) == (0 .. top) \X Filled(n, S) \X (0 .. n) \X (-1 .. n - 1)

Sorts(f, top, n, S, dim) ==
  f = [args \in Levels(top, n, S) |-> SortStep(f, args[1], args[2], args[3], args[4], dim)]

\* What f gives for the calls with d levels below them is an array.
Fills(f, d, n, S) ==
  \A a \in Filled(n, S), l \in 0 .. n, h \in -1 .. n - 1 : f[<<d, a, l, h>>] \in Filled(n, S)

\* With as many levels below it as its part has elements, a call sorts the part.
SortsPart(f, d, n, S, dim) ==
  \A a \in Filled(n, S), l \in 0 .. n, h \in -1 .. n - 1 :
    h - l + 1 <= d => SortedPart(a, f[<<d, a, l, h>>], n, S, l, h, dim)

LEMMA PartitionFills ==
  ASSUME NEW n \in Nat, NEW S, NEW dim, Measured(S, dim), NEW a \in Filled(n, S),
         NEW l \in 0 .. n, NEW h \in -1 .. n - 1, l < h
  PROVE  \E p : /\ p = Sorting!Partition(a, l, h, dim) /\ p.array \in Filled(n, S)
                /\ p.i \in l .. h /\ p.i + 1 \in 0 .. n /\ p.i - 1 \in -1 .. n - 1
                /\ Parted(a, p.array, n, S, l, h, p.i, dim)
<1>1. l \in Place(n) /\ h \in Place(n) /\ a \in [Place(n) -> S]
  BY DEF Place, Filled
<1>2. PICK p : p = Sorting!Partition(a, l, h, dim) /\ Parted(a, p.array, n, S, l, h, p.i, dim)
  BY <1>1, PartitionIs
<1>3. p.array \in Filled(n, S) /\ p.i \in l .. h
  BY <1>2 DEF Parted, Filled
<1>4. p.i + 1 \in 0 .. n /\ p.i - 1 \in -1 .. n - 1
  BY <1>3
<1> QED
  BY <1>2, <1>3, <1>4

\* One level below d, g gives what f gives, and that are arrays.
AgreeBelow(f, g, d, n, S) ==
  d # 0 => /\ Fills(f, d - 1, n, S)
           /\ \A b \in Filled(n, S), x \in 0 .. n, y \in -1 .. n - 1 :
                g[<<d - 1, b, x, y>>] = f[<<d - 1, b, x, y>>]

\* A call depends only on the calls one level below it.
LEMMA SortStepLocal ==
  ASSUME NEW n \in Nat, NEW S, NEW dim, Measured(S, dim), NEW d \in Nat, NEW f, NEW g,
         NEW a \in Filled(n, S), NEW l \in 0 .. n, NEW h \in -1 .. n - 1,
         AgreeBelow(f, g, d, n, S)
  PROVE  /\ SortStep(g, d, a, l, h, dim) = SortStep(f, d, a, l, h, dim)
         /\ SortStep(f, d, a, l, h, dim) \in Filled(n, S)
<1>1. CASE d = 0 \/ l >= h
  BY <1>1 DEF SortStep
<1>2. CASE d # 0 /\ l < h
  <2>1. PICK p : /\ p = Sorting!Partition(a, l, h, dim) /\ p.array \in Filled(n, S)
                 /\ p.i + 1 \in 0 .. n /\ p.i - 1 \in -1 .. n - 1
    BY <1>2, PartitionFills
  <2>2. PICK b : b = IF p.i = 0 THEN p.array ELSE f[<<d - 1, p.array, l, p.i - 1>>]
    OBVIOUS
  <2>3. b \in Filled(n, S) /\ b = IF p.i = 0 THEN p.array ELSE g[<<d - 1, p.array, l, p.i - 1>>]
    BY <1>2, <2>1, <2>2 DEF AgreeBelow, Fills
  <2>4. ~(d = 0 \/ l >= h)
    BY <1>2
  <2>5. SortStep(f, d, a, l, h, dim) = f[<<d - 1, b, p.i + 1, h>>]
    BY <2>1, <2>2, <2>4 DEF SortStep
  <2>6. SortStep(g, d, a, l, h, dim) = g[<<d - 1, b, p.i + 1, h>>]
    BY <2>1, <2>3, <2>4 DEF SortStep
  <2> QED
    BY <1>2, <2>1, <2>3, <2>5, <2>6 DEF AgreeBelow, Fills
<1> QED
  BY <1>1, <1>2

LEMMA SortStepRight ==
  ASSUME NEW n \in Nat, NEW S, NEW dim, Measured(S, dim), NEW d \in Nat, NEW f,
         NEW a \in Filled(n, S), NEW l \in 0 .. n, NEW h \in -1 .. n - 1, h - l + 1 <= d,
         d # 0 => Fills(f, d - 1, n, S) /\ SortsPart(f, d - 1, n, S, dim)
  PROVE  SortedPart(a, SortStep(f, d, a, l, h, dim), n, S, l, h, dim)
<1>1. CASE d = 0 \/ l >= h
  <2>1. SortStep(f, d, a, l, h, dim) = a
    BY <1>1 DEF SortStep
  <2>2. h <= l /\ l \in Int /\ h \in Int
    BY <1>1
  <2> QED
    BY <2>1, <2>2, NothingToSort
<1>2. CASE d # 0 /\ l < h
  <2>1. PICK p : /\ p = Sorting!Partition(a, l, h, dim) /\ p.array \in Filled(n, S)
                 /\ p.i \in l .. h /\ p.i + 1 \in 0 .. n /\ p.i - 1 \in -1 .. n - 1
                 /\ Parted(a, p.array, n, S, l, h, p.i, dim)
    BY <1>2, PartitionFills
  <2>2. PICK b : b = IF p.i = 0 THEN p.array ELSE f[<<d - 1, p.array, l, p.i - 1>>]
    OBVIOUS
  <2>3. SortedPart(p.array, b, n, S, l, p.i - 1, dim)
    <3>1. CASE p.i = 0
      <4>1. b = p.array /\ p.i - 1 <= l /\ l \in Int /\ p.i - 1 \in Int
        BY <2>2, <3>1
      <4> QED
        BY <2>1, <4>1, NothingToSort
    <3>2. CASE p.i # 0
      <4>1. (p.i - 1) - l + 1 <= d - 1
        BY <1>2, <2>1
      <4> QED
        BY <1>2, <2>1, <2>2, <3>2, <4>1 DEF SortsPart
    <3> QED
      BY <3>1, <3>2
  <2>4. PICK c : c = f[<<d - 1, b, p.i + 1, h>>]
    OBVIOUS
  <2>5. SortedPart(b, c, n, S, p.i + 1, h, dim)
    <3>1. b \in Filled(n, S) /\ h - (p.i + 1) + 1 <= d - 1
      BY <1>2, <2>1, <2>3 DEF SortedPart
    <3> QED
      BY <1>2, <2>1, <2>4, <3>1 DEF SortsPart
  <2>6. SortStep(f, d, a, l, h, dim) = c
    <3>1. ~(d = 0 \/ l >= h)
      BY <1>2
    <3> QED
      BY <2>1, <2>2, <2>4, <3>1 DEF SortStep
  <2>7. l \in Int /\ h \in Int /\ 0 <= l /\ h <= n - 1
    OBVIOUS
  <2> QED
    BY <2>1, <2>3, <2>5, <2>6, <2>7, PartsJoin
<1> QED
  BY <1>1, <1>2

LEMMA SortsExist ==
  ASSUME NEW n \in Nat, NEW S, NEW dim, Measured(S, dim), NEW top \in Nat
  PROVE  \E f : Sorts(f, top, n, S, dim)
<1> DEFINE D == {t \in Nat : \E f : Sorts(f, t, n, S, dim) /\ \A d \in 0 .. t : Fills(f, d, n, S)}
<1>1. ASSUME NEW f, NEW t \in Nat, t # 0 => Sorts(f, t - 1, n, S, dim),
             \A d \in Nat : d < t => Fills(f, d, n, S)
      PROVE  t \in D
  <2> DEFINE g == [args \in Levels(t, n, S) |->
                     IF args[1] < t THEN f[args] ELSE SortStep(f, args[1], args[2], args[3], args[4], dim)]
             s == [args \in Levels(t, n, S) |-> SortStep(g, args[1], args[2], args[3], args[4], dim)]
  <2>1. ASSUME NEW d \in 0 .. t, NEW a \in Filled(n, S), NEW l \in 0 .. n, NEW h \in -1 .. n - 1
        PROVE  /\ <<d, a, l, h>> \in Levels(t, n, S)
               /\ g[<<d, a, l, h>>] = IF d < t THEN f[<<d, a, l, h>>] ELSE SortStep(f, d, a, l, h, dim)
               /\ s[<<d, a, l, h>>] = SortStep(g, d, a, l, h, dim)
    BY DEF Levels
  <2>2. g = [args \in Levels(t, n, S) |-> g[args]] /\ s = [args \in Levels(t, n, S) |-> s[args]]
    OBVIOUS
  <2> HIDE DEF g, s
  <2>3. ASSUME NEW d \in 0 .. t, NEW a \in Filled(n, S), NEW l \in 0 .. n, NEW h \in -1 .. n - 1
        PROVE  g[<<d, a, l, h>>] = s[<<d, a, l, h>>] /\ g[<<d, a, l, h>>] \in Filled(n, S)
    <3>1. AgreeBelow(f, g, d, n, S)
      <4> SUFFICES ASSUME d # 0
                   PROVE  /\ Fills(f, d - 1, n, S)
                          /\ \A b \in Filled(n, S), x \in 0 .. n, y \in -1 .. n - 1 :
                               g[<<d - 1, b, x, y>>] = f[<<d - 1, b, x, y>>]
        BY DEF AgreeBelow
      <4>1. d - 1 \in 0 .. t /\ d - 1 < t /\ d - 1 \in Nat
        OBVIOUS
      <4> QED
        BY <1>1, <2>1, <4>1
    <3>2. /\ SortStep(g, d, a, l, h, dim) = SortStep(f, d, a, l, h, dim)
          /\ SortStep(f, d, a, l, h, dim) \in Filled(n, S)
      <4>1. d \in Nat
        OBVIOUS
      <4> QED
        BY <3>1, <4>1, SortStepLocal
    <3>3. CASE d < t
      <4>1. d \in 0 .. t - 1 /\ t # 0
        BY <3>3
      <4>2. <<d, a, l, h>> \in Levels(t - 1, n, S)
        BY <4>1 DEF Levels
      <4>3. f[<<d, a, l, h>>] = SortStep(f, d, a, l, h, dim)
        BY <1>1, <4>1, <4>2 DEF Sorts
      <4> QED
        BY <2>1, <3>2, <3>3, <4>3
    <3>4. CASE ~(d < t)
      BY <2>1, <3>2, <3>4
    <3> QED
      BY <3>3, <3>4
  <2>4. ASSUME NEW args \in Levels(t, n, S) PROVE g[args] = s[args]
    <3>1. PICK d \in 0 .. t, a \in Filled(n, S), l \in 0 .. n, h \in -1 .. n - 1 : args = <<d, a, l, h>>
      BY DEF Levels
    <3> QED
      BY <2>3, <3>1
  <2>5. g = s
    BY <2>2, <2>4, Zenon
  <2>6. Sorts(g, t, n, S, dim)
    BY <2>5, Zenon DEF Sorts, s
  <2>7. \A d \in 0 .. t : Fills(g, d, n, S)
    BY <2>3 DEF Fills
  <2> QED
    BY <2>6, <2>7
<1>2. 0 \in D
  <2>1. PICK f : f = 0
    OBVIOUS
  <2>2. \A d \in Nat : ~(d < 0)
    OBVIOUS
  <2> HIDE DEF D
  <2> QED
    BY <1>1, <2>2
<1>3. ASSUME NEW t \in Nat, t \in D PROVE t + 1 \in D
  <2>1. PICK f : Sorts(f, t, n, S, dim) /\ \A d \in 0 .. t : Fills(f, d, n, S)
    BY <1>3
  <2>2. (t + 1) - 1 = t /\ t + 1 \in Nat /\ \A d \in Nat : d < t + 1 => d \in 0 .. t
    OBVIOUS
  <2> HIDE DEF D
  <2> QED
    BY <1>1, <2>1, <2>2
<1> HIDE DEF D
<1>4. top \in D
  BY <1>2, <1>3, NatSetInduction
<1> QED
  BY <1>4 DEF D

\* A call with more levels below it than its part has elements sorts that part.
LEMMA SortsRight ==
  ASSUME NEW n \in Nat, NEW S, NEW dim, Measured(S, dim), NEW top \in Nat,
         NEW f, Sorts(f, top, n, S, dim)
  PROVE  Fills(f, top, n, S) /\ SortsPart(f, top, n, S, dim)
<1> DEFINE D == {d \in 0 .. top : Fills(f, d, n, S) /\ SortsPart(f, d, n, S, dim)}
<1>1. ASSUME NEW d \in 0 .. top, d # 0 => Fills(f, d - 1, n, S) /\ SortsPart(f, d - 1, n, S, dim)
      PROVE  d \in D
  <2>1. ASSUME NEW a \in Filled(n, S), NEW l \in 0 .. n, NEW h \in -1 .. n - 1
        PROVE  /\ f[<<d, a, l, h>>] \in Filled(n, S)
               /\ h - l + 1 <= d => SortedPart(a, f[<<d, a, l, h>>], n, S, l, h, dim)
    <3>0. d \in Nat
      OBVIOUS
    <3>1. f[<<d, a, l, h>>] = SortStep(f, d, a, l, h, dim)
      <4>1. <<d, a, l, h>> \in Levels(top, n, S)
        BY DEF Levels
      <4> QED
        BY <4>1 DEF Sorts
    <3>2. AgreeBelow(f, f, d, n, S)
      BY <1>1 DEF AgreeBelow
    <3>3. SortStep(f, d, a, l, h, dim) \in Filled(n, S)
      BY <3>0, <3>2, SortStepLocal
    <3>4. ASSUME h - l + 1 <= d PROVE SortedPart(a, SortStep(f, d, a, l, h, dim), n, S, l, h, dim)
      BY <1>1, <3>0, <3>4, SortStepRight
    <3> QED
      BY <3>1, <3>3, <3>4
  <2> QED
    BY <2>1 DEF Fills, SortsPart
<1>2. 0 \in D
  <2> HIDE DEF D
  <2>1. 0 \in 0 .. top
    OBVIOUS
  <2> QED
    BY <1>1, <2>1
<1>3. ASSUME NEW d \in 0 .. top - 1, d \in D PROVE d + 1 \in D
  <2>1. d + 1 \in 0 .. top /\ (d + 1) - 1 = d
    OBVIOUS
  <2>2. Fills(f, d, n, S) /\ SortsPart(f, d, n, S, dim)
    BY <1>3
  <2> HIDE DEF D
  <2> QED
    BY <1>1, <2>1, <2>2
<1> HIDE DEF D
<1>4. top \in D
  BY <1>2, <1>3, SetInduction
<1> QED
  BY <1>4 DEF D

SortsCalls(f, C, dim) ==
  f = [args \in C |-> SortStep(f, args[1], args[2], args[3], args[4], dim)]

LEMMA SortIs ==
  ASSUME NEW n \in Nat, NEW a, NEW dim, NEW S, a \in [Place(n) -> S], S = {a[k] : k \in Place(n)},
         Measured(S, dim)
  PROVE  SortedPart(a, Sorting!Sort(a, 0, n - 1, dim), n, S, 0, n - 1, dim)
<1>1. PICK C : C = Sorting!Calls(a, n - 1 + 1)
  OBVIOUS
<1>2. C = Levels(n, n, S) /\ n - 1 + 1 = n
  <2>1. n - 1 + 1 = n /\ DOMAIN a = Place(n)
    OBVIOUS
  <2>2. [DOMAIN a -> {a[k] : k \in DOMAIN a}] = Filled(n, S)
    BY <2>1 DEF Filled
  <2>3. C = (0 .. n) \X [DOMAIN a -> {a[k] : k \in DOMAIN a}] \X (0 .. n) \X (-1 .. n - 1)
    BY <1>1, <2>1 DEF Sorting!Calls
  <2> QED
    BY <2>1, <2>2, <2>3, Zenon DEF Levels
<1>3. PICK f : SortsCalls(f, C, dim) /\ Sorting!Sort(a, 0, n - 1, dim) = f[<<n, a, 0, n - 1>>]
  <2>1. Sorting!Sort(a, 0, n - 1, dim)
          = (CHOOSE x : SortsCalls(x, Sorting!Calls(a, n - 1 + 1), dim))[<<n - 1 + 1, a, 0, n - 1>>]
    BY DEF Sorting!Sort, SortsCalls, SortStep
  <2>2. \E f : SortsCalls(f, C, dim)
    <3>1. PICK f : Sorts(f, n, n, S, dim)
      BY SortsExist
    <3>2. SortsCalls(f, C, dim)
      BY <1>2, <3>1, Zenon DEF Sorts, SortsCalls
    <3> QED
      BY <3>2
  <2>3. PICK f : f = CHOOSE x : SortsCalls(x, Sorting!Calls(a, n - 1 + 1), dim)
    OBVIOUS
  <2>4. SortsCalls(f, C, dim)
    <3>1. \E x : SortsCalls(x, Sorting!Calls(a, n - 1 + 1), dim)
      BY <1>1, <2>2, Zenon
    <3>2. SortsCalls(f, Sorting!Calls(a, n - 1 + 1), dim)
      BY <2>3, <3>1, Zenon
    <3> QED
      BY <1>1, <3>2, Zenon
  <2> QED
    BY <1>2, <2>1, <2>3, <2>4, Zenon
<1>4. SortsPart(f, n, n, S, dim)
  <2>1. Sorts(f, n, n, S, dim)
    BY <1>2, <1>3, Zenon DEF Sorts, SortsCalls
  <2> QED
    BY <2>1, SortsRight
<1>5. a \in Filled(n, S) /\ 0 \in 0 .. n /\ n - 1 \in -1 .. n - 1 /\ (n - 1) - 0 + 1 <= n
  BY DEF Filled
<1> QED
  BY <1>3, <1>4, <1>5 DEF SortsPart

\* What SortedRight asks of a sorted array.
Right(a, b) ==
  /\ DOMAIN b = DOMAIN a
  /\ \A k, l \in DOMAIN b : k < l => b[k] <= b[l]
  /\ \A k \in DOMAIN b : Sorting!Occurs(b, b[k]) = Sorting!Occurs(a, b[k])

LEMMA MovedRight ==
  ASSUME NEW n \in Nat, NEW a \in [Place(n) -> Int], NEW b \in [Place(n) -> Int],
         Moved(a, b, n, 0, n - 1), \A k, m \in Place(n) : k < m => b[k] <= b[m]
  PROVE  Right(a, b)
<1>1. DOMAIN a = Place(n) /\ DOMAIN b = Place(n)
  OBVIOUS
<1>2. \A v : Sorting!Occurs(b, v) = Sorting!Occurs(a, v)
  BY <1>1, MovedOccurs
<1> QED
  BY <1>1, <1>2 DEF Right

LEMMA QuicksortIs ==
  ASSUME NEW n \in Nat, NEW a \in [Place(n) -> Int], n = Sorting!Size(a)
  PROVE  LET bytes == [k \in DOMAIN a |-> <<a[k]>>]
             sorted == Sorting!Sort(bytes, 0, Sorting!Size(a) - 1, 1)
         IN  Right(a, [k \in DOMAIN a |-> sorted[k][1]])
<1> DEFINE bytes == [k \in DOMAIN a |-> <<a[k]>>]
           S == {bytes[k] : k \in Place(n)}
           sorted == Sorting!Sort(bytes, 0, n - 1, 1)
           b == [k \in DOMAIN a |-> sorted[k][1]]
<1>1. bytes \in [Place(n) -> S] /\ \A k \in Place(n) : bytes[k] = <<a[k]>>
  OBVIOUS
<1> HIDE DEF bytes
<1>2. Measured(S, 1)
  <2>1. \A k \in Place(n) : bytes[k][1] \in Int
    BY <1>1
  <2> QED
    BY <2>1 DEF Measured
<1>3. SortedPart(bytes, sorted, n, S, 0, n - 1, 1)
  <2>1. S = {bytes[k] : k \in Place(n)}
    OBVIOUS
  <2> HIDE DEF S
  <2> QED
    BY <1>1, <1>2, <2>1, SortIs
<1> HIDE DEF sorted
<1>4. sorted \in [Place(n) -> S] /\ Moved(bytes, sorted, n, 0, n - 1) /\ Climbs(sorted, n, 0, n - 1, 1)
  BY <1>3 DEF SortedPart, Filled
<1>5. b \in [Place(n) -> Int] /\ \A k \in Place(n) : b[k] = sorted[k][1]
  BY <1>2, <1>4 DEF Measured
<1> HIDE DEF S, b
<1>6. Moved(a, b, n, 0, n - 1)
  <2>1. PICK p : Rearranges(p, bytes, sorted, n, 0, n - 1)
    BY <1>4 DEF Moved
  <2>2. ASSUME NEW k \in Place(n) PROVE b[k] = a[p[k]]
    <3>1. p[k] \in Place(n) /\ sorted[k] = bytes[p[k]]
      BY <2>1 DEF Rearranges
    <3> QED
      BY <1>1, <1>5, <3>1
  <2>3. Rearranges(p, a, b, n, 0, n - 1)
    BY <2>1, <2>2 DEF Rearranges
  <2> QED
    BY <2>3 DEF Moved
<1>7. \A k, m \in Place(n) : k < m => b[k] <= b[m]
  BY <1>4, <1>5 DEF Climbs, Place
<1>8. Right(a, b)
  BY <1>5, <1>6, <1>7, MovedRight
<1> QED
  BY <1>8, Zenon DEF b, sorted, bytes

-----------------------------------------------------------------------------
(* Insertion sort.                                                          *)

Rises(b, n, l, h) == \A k, m \in Place(n) : l <= k /\ k < m /\ m <= h => b[k] <= b[m]

\* The place the element at x sinks to.
Stopped(a, x, stop) ==
  /\ stop \in 0 .. x /\ (stop = 0 \/ a[stop - 1] <= a[x])
  /\ \A m \in stop + 1 .. x : ~(m = 0 \/ a[m - 1] <= a[x])

LEMMA SinkStops ==
  ASSUME NEW n \in Nat, NEW a \in [Place(n) -> Int], NEW x \in Place(n)
  PROVE  \E stop : /\ Stopped(a, x, stop)
                   /\ Sorting!Sink(a, x) =
                        [k \in Place(n) |-> IF k = stop THEN a[x]
                                            ELSE IF stop < k /\ k <= x THEN a[k - 1] ELSE a[k]]
<1>0. x \in Nat
  BY DEF Place
<1>1. \E stop \in 0 .. x : Stopped(a, x, stop)
  <2> DEFINE D == {m \in 0 .. x : x - m = 0 \/ a[x - m - 1] <= a[x]}
  <2>1. x \in D /\ D \subseteq Nat
    BY <1>0
  <2>2. PICK m \in D : \A o \in D : m <= o
    <3> HIDE DEF D
    <3> QED
      BY <2>1, LeastNumber
  <2>3. x - m \in 0 .. x /\ (x - m = 0 \/ a[x - m - 1] <= a[x])
    BY <1>0, <2>2
  <2>4. ASSUME NEW o \in x - m + 1 .. x, o = 0 \/ a[o - 1] <= a[x] PROVE FALSE
    <3>1. x - o \in 0 .. x /\ x - (x - o) = o /\ x - o < m
      BY <1>0, <2>2, <2>4
    <3>2. x - o \in D
      BY <2>4, <3>1
    <3> QED
      BY <1>0, <2>2, <3>1, <3>2
  <2> QED
    BY <2>3, <2>4 DEF Stopped
<1>2. PICK stop : stop = CHOOSE s \in 0 .. x : Stopped(a, x, s)
  OBVIOUS
<1>3. Stopped(a, x, stop)
  BY <1>1, <1>2
<1>4. Sorting!Sink(a, x) =
        [k \in Place(n) |-> IF k = stop THEN a[x]
                            ELSE IF stop < k /\ k <= x THEN a[k - 1] ELSE a[k]]
  BY <1>2 DEF Sorting!Sink, Stopped
<1> QED
  BY <1>3, <1>4

LEMMA SinkIs ==
  ASSUME NEW n \in Nat, NEW a \in [Place(n) -> Int], NEW x \in Place(n), Rises(a, n, 0, x - 1)
  PROVE  /\ Sorting!Sink(a, x) \in [Place(n) -> Int]
         /\ Moved(a, Sorting!Sink(a, x), n, 0, x) /\ Rises(Sorting!Sink(a, x), n, 0, x)
<1>0. x \in Nat /\ x <= n - 1
  BY DEF Place
<1>1. PICK stop, b :
        /\ Stopped(a, x, stop) /\ b = Sorting!Sink(a, x)
        /\ b = [k \in Place(n) |-> IF k = stop THEN a[x] ELSE IF stop < k /\ k <= x THEN a[k - 1] ELSE a[k]]
  BY SinkStops
<1>2. stop \in 0 .. x /\ \A k \in Place(n) : k \in Int /\ 0 <= k
  BY <1>1 DEF Stopped, Place
<1>3. ASSUME NEW k \in Place(n), stop < k, k <= x PROVE k - 1 \in Place(n)
  BY <1>0, <1>2, <1>3 DEF Place
<1>4. b \in [Place(n) -> Int]
  BY <1>1, <1>3
<1>5. \A k \in Place(n) : b[k] = IF k = stop THEN a[x] ELSE IF stop < k /\ k <= x THEN a[k - 1] ELSE a[k]
  BY <1>1
<1>6. Moved(a, b, n, 0, x)
  <2> DEFINE p == [k \in Place(n) |-> IF k = stop THEN x ELSE IF stop < k /\ k <= x THEN k - 1 ELSE k]
  <2>1. p \in [Place(n) -> Place(n)]
    BY <1>3
  <2>2. \A k \in Place(n) : p[k] = IF k = stop THEN x ELSE IF stop < k /\ k <= x THEN k - 1 ELSE k
    OBVIOUS
  <2> HIDE DEF p
  <2>3. ASSUME NEW k \in Place(n), NEW m \in Place(n), p[k] = p[m] PROVE k = m
    BY <1>0, <1>2, <2>2, <2>3
  <2>4. ASSUME NEW k \in Place(n) PROVE \E m \in Place(n) : p[m] = k
    <3>1. CASE k = x
      <4>1. stop \in Place(n)
        BY <1>0, <1>2 DEF Place
      <4> QED
        BY <2>2, <3>1, <4>1
    <3>2. CASE stop <= k /\ k < x
      <4>1. k + 1 \in Place(n) /\ stop < k + 1 /\ k + 1 <= x /\ k + 1 # stop /\ (k + 1) - 1 = k
        BY <1>0, <1>2, <3>2 DEF Place
      <4> QED
        BY <2>2, <4>1
    <3>3. CASE k < stop \/ x < k
      BY <1>0, <1>2, <2>2, <3>3
    <3> QED
      BY <1>0, <1>2, <3>1, <3>2, <3>3
  <2>5. \A k \in Place(n) : k < 0 \/ x < k => p[k] = k
    BY <1>0, <1>2, <2>2
  <2>6. \A k \in Place(n) : b[k] = a[p[k]]
    BY <1>5, <2>2
  <2> QED
    BY <2>1, <2>3, <2>4, <2>5, <2>6 DEF Moved, Rearranges
<1>7. ASSUME NEW k \in Place(n), stop < k, k <= x PROVE a[k - 1] > a[x]
  <2>1. k \in stop + 1 .. x
    BY <1>0, <1>2, <1>7
  <2>2. ~(a[k - 1] <= a[x])
    BY <1>1, <2>1 DEF Stopped
  <2> QED
    BY <1>3, <1>7, <2>2
<1>8. ASSUME NEW k \in Place(n), k < stop PROVE a[k] <= a[x]
  <2>1. stop # 0 /\ stop - 1 \in Place(n) /\ stop - 1 <= x - 1
    BY <1>0, <1>2, <1>8 DEF Place
  <2>2. a[stop - 1] <= a[x]
    BY <1>1, <2>1 DEF Stopped
  <2>3. a[k] <= a[stop - 1]
    <3>1. CASE k = stop - 1
      BY <2>1, <3>1
    <3>2. CASE k # stop - 1
      <4>1. 0 <= k /\ k < stop - 1
        BY <1>2, <1>8, <3>2
      <4> QED
        BY <2>1, <4>1 DEF Rises
    <3> QED
      BY <3>1, <3>2
  <2> QED
    BY <2>1, <2>2, <2>3
<1>9. ASSUME NEW k \in Place(n), NEW m \in Place(n), 0 <= k, k < m, m <= x PROVE b[k] <= b[m]
  <2>0. k \in Int /\ m \in Int
    BY <1>2
  <2>1. CASE m < stop
    <3>1. b[k] = a[k] /\ b[m] = a[m] /\ m <= x - 1
      BY <1>0, <1>2, <1>5, <1>9, <2>0, <2>1
    <3> QED
      BY <1>9, <3>1 DEF Rises
  <2>2. CASE m = stop
    <3>1. b[k] = a[k] /\ b[m] = a[x] /\ k < stop
      BY <1>2, <1>5, <1>9, <2>0, <2>2
    <3> QED
      BY <1>8, <3>1
  <2>3. CASE stop < m
    <3>1. b[m] = a[m - 1] /\ m - 1 \in Place(n) /\ m - 1 <= x - 1
      BY <1>0, <1>2, <1>3, <1>5, <1>9, <2>0, <2>3
    <3>2. CASE k < stop
      <4>1. b[k] = a[k] /\ k < m - 1
        BY <1>2, <1>5, <2>0, <2>3, <3>2
      <4> QED
        BY <1>9, <3>1, <4>1 DEF Rises
    <3>3. CASE k = stop
      <4>1. b[k] = a[x]
        BY <1>5, <3>3
      <4>2. a[m - 1] > a[x]
        BY <1>7, <1>9, <2>3
      <4> QED
        BY <3>1, <4>1, <4>2
    <3>4. CASE stop < k
      <4>1. b[k] = a[k - 1] /\ k - 1 \in Place(n) /\ 0 <= k - 1 /\ k - 1 < m - 1
        BY <1>0, <1>2, <1>3, <1>5, <1>9, <2>0, <3>4
      <4> QED
        BY <3>1, <4>1 DEF Rises
    <3> QED
      BY <1>2, <2>0, <3>2, <3>3, <3>4
  <2> QED
    BY <1>2, <2>0, <2>1, <2>2, <2>3
<1>10. Rises(b, n, 0, x)
  BY <1>9 DEF Rises
<1> QED
  BY <1>1, <1>4, <1>6, <1>10

\* The function that insertion_sort defines.
Sinks(f, a, bound) ==
  f = [m \in 0 .. bound |-> IF m = 0 THEN a ELSE Sorting!Sink(f[m - 1], m - 1)]

LEMMA SinksExist ==
  ASSUME NEW a, NEW bound \in Nat
  PROVE  \E f : Sinks(f, a, bound)
<1> DEFINE D == {l \in Nat : \E f : Sinks(f, a, l)}
<1>1. 0 \in D
  <2> DEFINE f == [m \in 0 .. 0 |-> a]
  <2>1. Sinks(f, a, 0)
    BY DEF Sinks
  <2> HIDE DEF f
  <2> QED
    BY <2>1
<1>2. ASSUME NEW l \in Nat, l \in D PROVE l + 1 \in D
  <2>1. PICK f : Sinks(f, a, l)
    BY <1>2
  <2> DEFINE g == [m \in 0 .. l + 1 |-> IF m = 0 THEN a ELSE Sorting!Sink(f[m - 1], m - 1)]
             h == [m \in 0 .. l + 1 |-> IF m = 0 THEN a ELSE Sorting!Sink(g[m - 1], m - 1)]
  <2>2. ASSUME NEW m \in 0 .. l PROVE g[m] = f[m]
    BY <2>1 DEF Sinks
  <2>3. ASSUME NEW m \in 0 .. l + 1 PROVE g[m] = h[m]
    <3>1. CASE m = 0
      BY <3>1
    <3>2. CASE m # 0
      <4>1. m - 1 \in 0 .. l
        BY <3>2
      <4>2. g[m - 1] = f[m - 1]
        BY <2>2, <4>1
      <4>3. /\ g[m] = Sorting!Sink(f[m - 1], m - 1)
            /\ h[m] = Sorting!Sink(g[m - 1], m - 1)
        BY <3>2
      <4> HIDE DEF g, h
      <4> QED
        BY <4>2, <4>3
    <3> QED
      BY <3>1, <3>2
  <2>4. g = h
    BY <2>3, Zenon
  <2>5. Sinks(g, a, l + 1)
    BY <2>4, Zenon DEF Sinks
  <2> HIDE DEF g, h
  <2> QED
    BY <2>5
<1> HIDE DEF D
<1>3. bound \in D
  BY <1>1, <1>2, NatSetInduction
<1> QED
  BY <1>3 DEF D

LEMMA InsertionSortIs ==
  ASSUME NEW n \in Nat, NEW a \in [Place(n) -> Int]
  PROVE  Right(a, Sorting!insertion_sort(a, n))
<1>1. PICK f : Sinks(f, a, n) /\ Sorting!insertion_sort(a, n) = f[n]
  <2>1. Sorting!insertion_sort(a, n) = (CHOOSE f : Sinks(f, a, n))[n]
    BY DEF Sorting!insertion_sort, Sinks
  <2>2. \E f : Sinks(f, a, n)
    BY SinksExist
  <2> QED
    BY <2>1, <2>2, Zenon
<1>2. f[0] = a /\ \A m \in 1 .. n : f[m] = Sorting!Sink(f[m - 1], m - 1)
  BY <1>1 DEF Sinks
<1> DEFINE D == {m \in 0 .. n : /\ f[m] \in [Place(n) -> Int] /\ Moved(a, f[m], n, 0, n - 1)
                                /\ Rises(f[m], n, 0, m - 1)}
<1>3. 0 \in D
  <2>1. Moved(a, a, n, 0, n - 1)
    BY MovedNot
  <2>2. Rises(a, n, 0, 0 - 1)
    BY DEF Rises, Place
  <2> QED
    BY <1>2, <2>1, <2>2
<1>4. ASSUME NEW m \in 0 .. n - 1, m \in D PROVE m + 1 \in D
  <2>1. PICK b : b = f[m] /\ b \in [Place(n) -> Int] /\ Moved(a, b, n, 0, n - 1) /\ Rises(b, n, 0, m - 1)
    BY <1>4
  <2>2. m \in Place(n) /\ m + 1 \in 1 .. n /\ (m + 1) - 1 = m
    BY DEF Place
  <2>3. PICK c : c = f[m + 1] /\ c = Sorting!Sink(b, m)
    BY <1>2, <2>1, <2>2
  <2>4. c \in [Place(n) -> Int] /\ Moved(b, c, n, 0, m) /\ Rises(c, n, 0, m)
    BY <2>1, <2>2, <2>3, SinkIs
  <2>5. Moved(a, c, n, 0, n - 1)
    <3>1. 0 <= 0 /\ n - 1 <= n - 1 /\ m <= n - 1 /\ m \in Int /\ n - 1 \in Int
      OBVIOUS
    <3> QED
      BY <2>1, <2>4, <3>1, MovedOn
  <2> QED
    <3>1. m + 1 \in 0 .. n /\ (m + 1) - 1 = m
      OBVIOUS
    <3>2. Rises(f[m + 1], n, 0, (m + 1) - 1)
      BY <2>2, <2>3, <2>4
    <3> QED
      BY <2>3, <2>4, <2>5, <3>1, <3>2
<1>5. n \in D
  <2> HIDE DEF D
  <2> QED
    BY <1>3, <1>4, SetInduction
<1>6. \A k, m \in Place(n) : k < m => f[n][k] <= f[n][m]
  BY <1>5 DEF Rises, Place
<1> QED
  BY <1>1, <1>5, <1>6, MovedRight

-----------------------------------------------------------------------------
(* Merge sort.                                                              *)

\* An iteration of the loops of the merge, and the loops as the function Merge defines.
MergeStep(s, a, b, k) ==
  IF s.i < Sorting!Size(a) /\ (s.j >= Sorting!Size(b) \/ a[s.i] <= b[s.j])
  THEN [array |-> [s.array EXCEPT ![k] = a[s.i]], i |-> s.i + 1, j |-> s.j]
  ELSE [array |-> [s.array EXCEPT ![k] = b[s.j]], i |-> s.i, j |-> s.j + 1]

Merges(f, c, a, b, l, bound) ==
  f = [m \in 0 .. bound |->
         IF m = 0 THEN [array |-> c, i |-> 0, j |-> 0] ELSE MergeStep(f[m - 1], a, b, l + m - 1)]

LEMMA MergesExist ==
  ASSUME NEW c, NEW a, NEW b, NEW l, NEW bound \in Nat
  PROVE  \E f : Merges(f, c, a, b, l, bound)
<1> DEFINE D == {t \in Nat : \E f : Merges(f, c, a, b, l, t)}
           S0 == [array |-> c, i |-> 0, j |-> 0]
<1>1. 0 \in D
  <2> DEFINE f == [m \in 0 .. 0 |-> S0]
  <2>1. Merges(f, c, a, b, l, 0)
    BY DEF Merges
  <2> HIDE DEF f
  <2> QED
    BY <2>1
<1>2. ASSUME NEW t \in Nat, t \in D PROVE t + 1 \in D
  <2>1. PICK f : Merges(f, c, a, b, l, t)
    BY <1>2
  <2> DEFINE g == [m \in 0 .. t + 1 |-> IF m = 0 THEN S0 ELSE MergeStep(f[m - 1], a, b, l + m - 1)]
             h == [m \in 0 .. t + 1 |-> IF m = 0 THEN S0 ELSE MergeStep(g[m - 1], a, b, l + m - 1)]
  <2>2. ASSUME NEW m \in 0 .. t PROVE g[m] = f[m]
    BY <2>1 DEF Merges
  <2>3. ASSUME NEW m \in 0 .. t + 1 PROVE g[m] = h[m]
    <3>1. CASE m = 0
      BY <3>1
    <3>2. CASE m # 0
      <4>1. m - 1 \in 0 .. t
        BY <3>2
      <4>2. g[m - 1] = f[m - 1]
        BY <2>2, <4>1
      <4>3. /\ g[m] = MergeStep(f[m - 1], a, b, l + m - 1)
            /\ h[m] = MergeStep(g[m - 1], a, b, l + m - 1)
        BY <3>2
      <4> HIDE DEF g, h
      <4> QED
        BY <4>2, <4>3
    <3> QED
      BY <3>1, <3>2
  <2>4. g = h
    BY <2>3, Zenon
  <2>5. Merges(g, c, a, b, l, t + 1)
    BY <2>4, Zenon DEF Merges
  <2> HIDE DEF g, h
  <2> QED
    BY <2>5
<1> HIDE DEF D
<1>3. bound \in D
  BY <1>1, <1>2, NatSetInduction
<1> QED
  BY <1>3 DEF D

\* The positions in c of the elements the merge has taken when it has x of the first half,
\* which starts at l, and y of the second, which starts at o.
Taken(l, o, x, y) == (l .. l + x - 1) \cup (o .. o + y - 1)

\* The q elements of b from l on are those of c at the positions in U.
Takes(b, c, l, q, U) ==
  \E p : /\ \A k \in l .. l + q - 1 : p[k] \in U /\ b[k] = c[p[k]]
         /\ \A k, m \in l .. l + q - 1 : p[k] = p[m] => k = m
         /\ \A u \in U : \E k \in l .. l + q - 1 : p[k] = u

\* The merge of the parts of c from l to o - 1 and from o to h has taken x and y elements:
\* b holds them in order, and what comes is not smaller.
Merged(b, c, n, l, o, h, x, y) ==
  /\ b \in [Place(n) -> Int]
  /\ x \in 0 .. o - l /\ y \in 0 .. h - o + 1
  /\ Takes(b, c, l, x + y, Taken(l, o, x, y))
  /\ \A k \in Place(n) : k < l \/ l + x + y - 1 < k => b[k] = c[k]
  /\ \A k, m \in l .. l + x + y - 1 : k < m => b[k] <= b[m]
  /\ \A k \in l .. l + x + y - 1, m \in l + x .. o - 1 : b[k] <= c[m]
  /\ \A k \in l .. l + x + y - 1, m \in o + y .. h : b[k] <= c[m]

\* The merge takes the element v at position t next, which is none it has taken before.
LEMMA TakeNext ==
  ASSUME NEW n \in Nat, NEW b \in [Place(n) -> Int], NEW c, NEW l \in Int, NEW q \in Nat,
         NEW U, NEW t, t \notin U, l + q \in Place(n), 0 <= l, Takes(b, c, l, q, U)
  PROVE  Takes([b EXCEPT ![l + q] = c[t]], c, l, q + 1, U \cup {t})
<1>1. PICK p : /\ \A k \in l .. l + q - 1 : p[k] \in U /\ b[k] = c[p[k]]
               /\ \A k, m \in l .. l + q - 1 : p[k] = p[m] => k = m
               /\ \A u \in U : \E k \in l .. l + q - 1 : p[k] = u
  BY DEF Takes
<1>2. PICK e : e = l + q /\ e \in Int
  OBVIOUS
<1> DEFINE r == [k \in l .. e |-> IF k = e THEN t ELSE p[k]]
           d == [b EXCEPT ![l + q] = c[t]]
<1>3. \A k \in l .. e : r[k] = IF k = e THEN t ELSE p[k]
  OBVIOUS
<1>4. \A k \in Place(n) : d[k] = IF k = e THEN c[t] ELSE b[k]
  BY <1>2
<1> HIDE DEF r, d
<1>5. \A k \in l .. e : k \in Place(n) /\ (k = e \/ k \in l .. e - 1)
  BY <1>2 DEF Place
<1>6. \A k \in l .. e : r[k] \in U \cup {t} /\ d[k] = c[r[k]]
  BY <1>1, <1>2, <1>3, <1>4, <1>5
<1>7. \A k, m \in l .. e : r[k] = r[m] => k = m
  BY <1>1, <1>2, <1>3, <1>5
<1>8. ASSUME NEW u \in U \cup {t} PROVE \E k \in l .. e : r[k] = u
  <2>1. CASE u \in U
    <3>1. PICK k \in l .. l + q - 1 : p[k] = u
      BY <1>1, <2>1
    <3>2. k \in l .. e /\ k # e
      BY <1>2, <3>1
    <3> QED
      BY <1>3, <3>1, <3>2
  <2>2. CASE u = t
    <3>1. e \in l .. e
      BY <1>2
    <3> QED
      BY <1>3, <2>2, <3>1
  <2> QED
    BY <2>1, <2>2
<1>9. e = l + (q + 1) - 1
  BY <1>2
<1> QED
  BY <1>6, <1>7, <1>8, <1>9 DEF Takes, d

LEMMA MergedTakes ==
  ASSUME NEW n \in Nat, NEW b, NEW c \in [Place(n) -> Int], NEW l \in Int, NEW o \in Int, NEW h \in Int,
         0 <= l, h <= n - 1, NEW x \in Nat, NEW y \in Nat, Merged(b, c, n, l, o, h, x, y),
         NEW x1 \in 0 .. o - l, NEW y1 \in 0 .. h - o + 1, x <= x1, y <= y1, x1 + y1 = x + y + 1,
         NEW t \in Place(n), t \notin Taken(l, o, x, y), Taken(l, o, x1, y1) = Taken(l, o, x, y) \cup {t},
         \A k \in l .. l + x + y - 1 : b[k] <= c[t],
         \A m \in l + x1 .. o - 1 : c[t] <= c[m],
         \A m \in o + y1 .. h : c[t] <= c[m]
  PROVE  Merged([b EXCEPT ![l + x + y] = c[t]], c, n, l, o, h, x1, y1)
<1> DEFINE d == [b EXCEPT ![l + x + y] = c[t]]
<1>1. PICK e : e = l + x + y /\ e = l + (x + y) /\ e \in Place(n) /\ e \in Int /\ l <= e /\ e = l + x1 + y1 - 1
  BY DEF Place
<1>2. b \in [Place(n) -> Int]
  BY DEF Merged
<1>3. d \in [Place(n) -> Int] /\ \A k \in Place(n) : d[k] = IF k = e THEN c[t] ELSE b[k]
  BY <1>1, <1>2
<1>4. Takes(d, c, l, x1 + y1, Taken(l, o, x1, y1))
  <2>1. PICK q : q = x + y /\ q \in Nat /\ l + q = l + x + y /\ l + q \in Place(n) /\ x1 + y1 = q + 1
    BY <1>1
  <2>2. Takes(b, c, l, q, Taken(l, o, x, y))
    BY <2>1 DEF Merged
  <2>3. Takes([b EXCEPT ![l + q] = c[t]], c, l, q + 1, Taken(l, o, x, y) \cup {t})
    BY <1>2, <2>1, <2>2, TakeNext
  <2> QED
    BY <2>1, <2>3
<1> HIDE DEF d
<1>5. \A k \in l .. e : k \in Place(n) /\ k \in Int /\ (k = e \/ k \in l .. l + x + y - 1)
  BY <1>1 DEF Place
<1>6. ASSUME NEW k \in l .. l + x + y - 1 PROVE k # e /\ k \in Place(n) /\ d[k] = b[k] /\ d[k] \in Int
  <2>1. k # e /\ k \in Place(n)
    BY <1>1 DEF Place
  <2> QED
    BY <1>3, <2>1
<1>7. ASSUME NEW k \in Place(n), k < l \/ e < k PROVE d[k] = c[k]
  <2>1. k \in Int /\ k # e /\ (k < l \/ l + x + y - 1 < k)
    BY <1>1, <1>7 DEF Place
  <2> QED
    BY <1>3, <2>1 DEF Merged
<1>8. ASSUME NEW k \in l .. e, NEW m \in l .. e, k < m PROVE d[k] <= d[m]
  <2>1. k \in l .. l + x + y - 1
    BY <1>1, <1>8
  <2>2. CASE m = e
    BY <1>1, <1>3, <1>6, <2>1, <2>2
  <2>3. CASE m # e
    <3>1. m \in l .. l + x + y - 1
      BY <1>5, <2>3
    <3>2. b[k] <= b[m]
      BY <1>8, <2>1, <3>1 DEF Merged
    <3> QED
      BY <1>6, <2>1, <3>1, <3>2
  <2> QED
    BY <2>2, <2>3
<1>9. ASSUME NEW k \in l .. e, NEW m \in l + x1 .. o - 1 PROVE d[k] <= c[m]
  <2>1. CASE k = e
    BY <1>1, <1>3, <2>1
  <2>2. CASE k # e
    <3>1. k \in l .. l + x + y - 1 /\ m \in l + x .. o - 1
      BY <1>5, <2>2
    <3>2. b[k] <= c[m]
      BY <3>1 DEF Merged
    <3> QED
      BY <1>6, <3>1, <3>2
  <2> QED
    BY <2>1, <2>2
<1>10. ASSUME NEW k \in l .. e, NEW m \in o + y1 .. h PROVE d[k] <= c[m]
  <2>1. CASE k = e
    BY <1>1, <1>3, <2>1
  <2>2. CASE k # e
    <3>1. k \in l .. l + x + y - 1 /\ m \in o + y .. h
      BY <1>5, <2>2
    <3>2. b[k] <= c[m]
      BY <3>1 DEF Merged
    <3> QED
      BY <1>6, <3>1, <3>2
  <2> QED
    BY <2>1, <2>2
<1>11. Merged(d, c, n, l, o, h, x1, y1)
  <2>1. e = l + x1 + y1 - 1
    BY <1>1
  <2> QED
    BY <1>3, <1>4, <1>7, <1>8, <1>9, <1>10, <2>1 DEF Merged
<1> QED
  BY <1>11 DEF d

LEMMA PartIs ==
  ASSUME NEW c, NEW l \in Int, NEW h \in Int, l <= h
  PROVE  /\ Sorting!Size(Sorting!Part(c, l, h)) = h - l + 1
         /\ \A k \in 0 .. h - l : Sorting!Part(c, l, h)[k] = c[l + k]
<1>1. Sorting!Part(c, l, h) = [k \in 0 .. h - l |-> c[l + k]]
  BY DEF Sorting!Part
<1>2. DOMAIN Sorting!Part(c, l, h) = 0 .. h - l
  BY <1>1
<1>3. Cardinality(0 .. h - l) = h - l - 0 + 1
  BY FS_Interval
<1>4. Sorting!Cardinality(0 .. h - l) = Cardinality(0 .. h - l)
  BY DEF Sorting!Cardinality, Cardinality
<1> QED
  BY <1>1, <1>2, <1>3, <1>4 DEF Sorting!Size

\* The loop of the merge has taken q elements.
Reached(s, c, n, l, o, h, q) ==
  \E b : \E x, y \in Nat :
    s = [array |-> b, i |-> x, j |-> y] /\ x + y = q /\ Merged(b, c, n, l, o, h, x, y)

LEMMA MergeStepIs ==
  ASSUME NEW n \in Nat, NEW s, NEW c \in [Place(n) -> Int], NEW l \in Int, NEW o \in Int, NEW h \in Int,
         0 <= l, l < o, o <= h, h <= n - 1, Rises(c, n, l, o - 1), Rises(c, n, o, h),
         NEW q \in Nat, q < h - l + 1, Reached(s, c, n, l, o, h, q)
  PROVE  Reached(MergeStep(s, Sorting!Part(c, l, o - 1), Sorting!Part(c, o, h), l + q), c, n, l, o, h, q + 1)
<1>0. PICK b : \E x, y \in Nat :
        s = [array |-> b, i |-> x, j |-> y] /\ x + y = q /\ Merged(b, c, n, l, o, h, x, y)
  BY DEF Reached
<1>7. PICK x \in Nat, y \in Nat :
        s = [array |-> b, i |-> x, j |-> y] /\ x + y = q /\ Merged(b, c, n, l, o, h, x, y)
  BY <1>0
<1>8. x + y < h - l + 1 /\ l + q = l + x + y
  BY <1>7
<1> DEFINE A == Sorting!Part(c, l, o - 1)
           B == Sorting!Part(c, o, h)
           step == MergeStep(s, A, B, l + q)
<1>1. /\ Sorting!Size(A) = o - l /\ \A k \in 0 .. o - 1 - l : A[k] = c[l + k]
      /\ Sorting!Size(B) = h - o + 1 /\ \A k \in 0 .. h - o : B[k] = c[o + k]
  <2>1. l <= o - 1 /\ o - 1 \in Int /\ (o - 1) - l + 1 = o - l
    OBVIOUS
  <2> QED
    BY <2>1, PartIs
<1> HIDE DEF A, B
<1>2. x \in 0 .. o - l /\ y \in 0 .. h - o + 1
  BY <1>7 DEF Merged
<1>3. \A k, m \in l .. o - 1 : k <= m => c[k] <= c[m]
  BY DEF Rises, Place
<1>4. \A k, m \in o .. h : k <= m => c[k] <= c[m]
  BY DEF Rises, Place
<1>5. CASE x < o - l /\ (y >= h - o + 1 \/ c[l + x] <= c[o + y])
  <2>1. x \in 0 .. o - 1 - l /\ A[x] = c[l + x] /\ (y < h - o + 1 => B[y] = c[o + y])
    BY <1>1, <1>2, <1>5
  <2>2. step = [array |-> [b EXCEPT ![l + x + y] = c[l + x]], i |-> x + 1, j |-> y]
    BY <1>1, <1>2, <1>5, <2>1, <1>7, <1>8 DEF MergeStep
  <2>3. PICK t : t = l + x /\ t \in Place(n) /\ t \in l + x .. o - 1
    BY <1>5 DEF Place
  <2>4. t \notin Taken(l, o, x, y) /\ Taken(l, o, x + 1, y) = Taken(l, o, x, y) \cup {t}
    BY <1>2, <1>5, <2>3 DEF Taken
  <2>5. \A k \in l .. l + x + y - 1 : b[k] <= c[t]
    BY <1>7, <2>3 DEF Merged
  <2>6. ASSUME NEW m \in l + (x + 1) .. o - 1 PROVE c[t] <= c[m]
    <3>1. t \in l .. o - 1 /\ m \in l .. o - 1 /\ t <= m
      BY <2>3
    <3> QED
      BY <1>3, <3>1
  <2>7. ASSUME NEW m \in o + y .. h PROVE c[t] <= c[m]
    <3>1. y < h - o + 1 /\ o + y \in o .. h /\ m \in o .. h /\ o + y <= m
      BY <1>2
    <3>2. c[t] <= c[o + y] /\ c[o + y] <= c[m]
      BY <1>2, <1>4, <1>5, <2>3, <3>1
    <3>3. t \in Place(n) /\ o + y \in Place(n) /\ m \in Place(n)
      BY <2>3, <3>1 DEF Place
    <3> QED
      BY <3>2, <3>3
  <2>8. Merged([b EXCEPT ![l + x + y] = c[t]], c, n, l, o, h, x + 1, y)
    <3>1. x + 1 \in 0 .. o - l /\ x <= x + 1 /\ y <= y /\ (x + 1) + y = x + y + 1
      BY <1>5
    <3> QED
      BY <1>2, <2>3, <2>4, <2>5, <2>6, <2>7, <3>1, <1>7, <1>8, MergedTakes
  <2>9. (x + 1) + y = q + 1 /\ x + 1 \in Nat
    BY <1>7
  <2>10. step = [array |-> [b EXCEPT ![l + x + y] = c[t]], i |-> x + 1, j |-> y]
    BY <2>2, <2>3
  <2> QED
    BY <2>8, <2>9, <2>10, Zenon DEF Reached, A, B
<1>6. CASE ~(x < o - l /\ (y >= h - o + 1 \/ c[l + x] <= c[o + y]))
  <2>1. y < h - o + 1 /\ y \in 0 .. h - o /\ B[y] = c[o + y] /\ (x < o - l => A[x] = c[l + x])
    BY <1>1, <1>2, <1>6, <1>7, <1>8
  <2>2. step = [array |-> [b EXCEPT ![l + x + y] = c[o + y]], i |-> x, j |-> y + 1]
    BY <1>1, <1>2, <1>6, <2>1, <1>7, <1>8 DEF MergeStep
  <2>3. PICK t : t = o + y /\ t \in Place(n) /\ t \in o + y .. h
    BY <2>1 DEF Place
  <2>4. t \notin Taken(l, o, x, y) /\ Taken(l, o, x, y + 1) = Taken(l, o, x, y) \cup {t}
    BY <1>2, <2>1, <2>3 DEF Taken
  <2>5. \A k \in l .. l + x + y - 1 : b[k] <= c[t]
    BY <1>7, <2>3 DEF Merged
  <2>6. ASSUME NEW m \in l + x .. o - 1 PROVE c[t] <= c[m]
    <3>1. x < o - l /\ l + x \in l .. o - 1 /\ m \in l .. o - 1 /\ l + x <= m
      BY <1>2
    <3>3. t \in Place(n) /\ l + x \in Place(n) /\ m \in Place(n)
      BY <2>3, <3>1 DEF Place
    <3>2. c[t] <= c[l + x] /\ c[l + x] <= c[m]
      BY <1>2, <1>3, <1>6, <2>1, <2>3, <3>1, <3>3
    <3> QED
      BY <3>2, <3>3
  <2>7. ASSUME NEW m \in o + (y + 1) .. h PROVE c[t] <= c[m]
    <3>1. t \in o .. h /\ m \in o .. h /\ t <= m
      BY <2>3
    <3> QED
      BY <1>4, <3>1
  <2>8. Merged([b EXCEPT ![l + x + y] = c[t]], c, n, l, o, h, x, y + 1)
    <3>1. y + 1 \in 0 .. h - o + 1 /\ x <= x /\ y <= y + 1 /\ x + (y + 1) = x + y + 1
      BY <2>1
    <3> QED
      BY <1>2, <2>3, <2>4, <2>5, <2>6, <2>7, <3>1, <1>7, <1>8, MergedTakes
  <2>9. x + (y + 1) = q + 1 /\ y + 1 \in Nat
    BY <1>7
  <2>10. step = [array |-> [b EXCEPT ![l + x + y] = c[t]], i |-> x, j |-> y + 1]
    BY <2>2, <2>3
  <2> QED
    BY <2>8, <2>9, <2>10, Zenon DEF Reached, A, B
<1> QED
  BY <1>5, <1>6 DEF A, B

\* The loops of the merge as a function of the number of elements they have written.
LEMMA MergeLoop ==
  ASSUME NEW c, NEW A, NEW B, NEW l, NEW bound \in Nat, bound = Sorting!Size(A) + Sorting!Size(B)
  PROVE  \E f : Merges(f, c, A, B, l, bound) /\ Sorting!Merge(c, A, B, l) = f[bound].array
<1>1. Sorting!Merge(c, A, B, l)
        = (CHOOSE f : Merges(f, c, A, B, l, Sorting!Size(A) + Sorting!Size(B)))[Sorting!Size(A) + Sorting!Size(B)].array
  BY DEF Sorting!Merge, Merges, MergeStep
<1>2. PICK f : f = CHOOSE g : Merges(g, c, A, B, l, Sorting!Size(A) + Sorting!Size(B))
  OBVIOUS
<1>3. \E g : Merges(g, c, A, B, l, bound)
  BY MergesExist
<1>4. Merges(f, c, A, B, l, Sorting!Size(A) + Sorting!Size(B))
  BY <1>2, <1>3, Zenon
<1> QED
  BY <1>1, <1>2, <1>4, Zenon

LEMMA MergeIs ==
  ASSUME NEW n \in Nat, NEW c \in [Place(n) -> Int], NEW l \in Int, NEW o \in Int, NEW h \in Int,
         0 <= l, l < o, o <= h, h <= n - 1, Rises(c, n, l, o - 1), Rises(c, n, o, h)
  PROVE  \E b \in [Place(n) -> Int] :
           /\ b = Sorting!Merge(c, Sorting!Part(c, l, o - 1), Sorting!Part(c, o, h), l)
           /\ Moved(c, b, n, l, h) /\ Rises(b, n, l, h)
<1>1. PICK A, B, bound : /\ A = Sorting!Part(c, l, o - 1) /\ B = Sorting!Part(c, o, h)
                         /\ bound = Sorting!Size(A) + Sorting!Size(B)
  OBVIOUS
<1>2. bound = h - l + 1 /\ bound \in Nat
  <2>1. l <= o - 1 /\ o - 1 \in Int
    OBVIOUS
  <2>2. Sorting!Size(A) = (o - 1) - l + 1 /\ Sorting!Size(B) = h - o + 1
    BY <1>1, <2>1, PartIs
  <2> QED
    BY <1>1, <2>2
<1>3. PICK f : Merges(f, c, A, B, l, bound) /\ Sorting!Merge(c, A, B, l) = f[bound].array
  BY <1>1, <1>2, MergeLoop
<1>4. /\ f[0] = [array |-> c, i |-> 0, j |-> 0]
      /\ \A m \in 1 .. bound : f[m] = MergeStep(f[m - 1], A, B, l + m - 1)
  BY <1>2, <1>3 DEF Merges
<1> DEFINE D == {m \in 0 .. bound : Reached(f[m], c, n, l, o, h, m)}
<1>5. 0 \in D
  <2>1. Merged(c, c, n, l, o, h, 0, 0)
    <3>1. l .. l + 0 + 0 - 1 = {} /\ Taken(l, o, 0, 0) = {}
      BY DEF Taken
    <3> QED
      BY <3>1 DEF Merged, Takes
  <2>2. Reached(f[0], c, n, l, o, h, 0)
    BY <1>4, <2>1 DEF Reached
  <2> QED
    BY <1>2, <2>2
<1>6. ASSUME NEW m \in 0 .. bound - 1, m \in D PROVE m + 1 \in D
  <2>1. m \in Nat /\ m < h - l + 1 /\ m + 1 \in 1 .. bound /\ (m + 1) - 1 = m /\ l + (m + 1) - 1 = l + m
    BY <1>2
  <2>2. Reached(MergeStep(f[m], Sorting!Part(c, l, o - 1), Sorting!Part(c, o, h), l + m), c, n, l, o, h, m + 1)
    BY <1>6, <2>1, MergeStepIs
  <2>3. f[m + 1] = MergeStep(f[m], A, B, l + m)
    <3>1. f[m + 1] = MergeStep(f[(m + 1) - 1], A, B, l + (m + 1) - 1)
      BY <1>4, <2>1
    <3> QED
      BY <2>1, <3>1
  <2> QED
    BY <1>1, <2>1, <2>2, <2>3
<1>7. bound \in D
  <2> HIDE DEF D
  <2> QED
    BY <1>2, <1>5, <1>6, SetInduction
<1>8. PICK b : \E x, y \in Nat :
        f[bound] = [array |-> b, i |-> x, j |-> y] /\ x + y = bound /\ Merged(b, c, n, l, o, h, x, y)
  BY <1>7 DEF Reached
<1>9. PICK x \in Nat, y \in Nat :
        f[bound] = [array |-> b, i |-> x, j |-> y] /\ x + y = bound /\ Merged(b, c, n, l, o, h, x, y)
  BY <1>8
<1>10. /\ l + x + y - 1 = h /\ Taken(l, o, x, y) = l .. h
  <2>1. x = o - l /\ y = h - o + 1
    BY <1>2, <1>9 DEF Merged
  <2> QED
    BY <2>1 DEF Taken
<1>11. /\ b \in [Place(n) -> Int]
       /\ Takes(b, c, l, h - l + 1, l .. h)
       /\ \A k \in Place(n) : k < l \/ h < k => b[k] = c[k]
       /\ \A k, m \in l .. h : k < m => b[k] <= b[m]
  <2>1. x + y = h - l + 1
    BY <1>10
  <2>2. Takes(b, c, l, h - l + 1, l .. h)
    BY <1>9, <1>10, <2>1 DEF Merged
  <2> QED
    BY <1>9, <1>10, <2>2 DEF Merged
<1>12. Moved(c, b, n, l, h)
  <2>1. PICK p : /\ \A k \in l .. h : p[k] \in l .. h /\ b[k] = c[p[k]]
                 /\ \A k, m \in l .. h : p[k] = p[m] => k = m
                 /\ \A t \in l .. h : \E k \in l .. h : p[k] = t
    <3>1. l + (h - l + 1) - 1 = h
      OBVIOUS
    <3> QED
      BY <1>11, <3>1 DEF Takes
  <2> DEFINE r == [k \in Place(n) |-> IF k \in l .. h THEN p[k] ELSE k]
  <2>2. \A k \in Place(n) : r[k] = IF k \in l .. h THEN p[k] ELSE k
    OBVIOUS
  <2>3. \A k \in Place(n) : k \in Int /\ (k \in l .. h \/ k < l \/ h < k)
    BY DEF Place
  <2>4. \A k \in l .. h : k \in Place(n)
    BY DEF Place
  <2>5. r \in [Place(n) -> Place(n)]
    BY <2>1, <2>4
  <2> HIDE DEF r
  <2>6. \A k, m \in Place(n) : r[k] = r[m] => k = m
    BY <2>1, <2>2
  <2>7. \A k \in Place(n) : \E m \in Place(n) : r[m] = k
    BY <2>1, <2>2, <2>4
  <2>8. \A k \in Place(n) : k < l \/ h < k => r[k] = k
    BY <2>2, <2>3
  <2>9. \A k \in Place(n) : b[k] = c[r[k]]
    BY <1>11, <2>1, <2>2, <2>3
  <2> QED
    BY <2>5, <2>6, <2>7, <2>8, <2>9 DEF Moved, Rearranges
<1>13. Rises(b, n, l, h)
  BY <1>11 DEF Rises, Place
<1> QED
  BY <1>1, <1>3, <1>9, <1>11, <1>12, <1>13

\* Merging leaves an array of the same elements, in whatever order its halves are.
LEMMA MergeFills ==
  ASSUME NEW n \in Nat, NEW S, NEW c \in Filled(n, S), NEW l \in Int, NEW o \in Int, NEW h \in Int,
         0 <= l, l < o, o <= h, h <= n - 1
  PROVE  Sorting!Merge(c, Sorting!Part(c, l, o - 1), Sorting!Part(c, o, h), l) \in Filled(n, S)
<1>1. PICK A, B, bound : /\ A = Sorting!Part(c, l, o - 1) /\ B = Sorting!Part(c, o, h)
                         /\ bound = Sorting!Size(A) + Sorting!Size(B)
  OBVIOUS
<1>2. /\ bound = h - l + 1 /\ bound \in Nat /\ Sorting!Size(A) = o - l /\ Sorting!Size(B) = h - o + 1
      /\ \A k \in 0 .. o - 1 - l : A[k] = c[l + k]
      /\ \A k \in 0 .. h - o : B[k] = c[o + k]
  <2>1. l <= o - 1 /\ o - 1 \in Int
    OBVIOUS
  <2>2. /\ Sorting!Size(A) = (o - 1) - l + 1 /\ Sorting!Size(B) = h - o + 1
        /\ \A k \in 0 .. o - 1 - l : A[k] = c[l + k]
        /\ \A k \in 0 .. h - o : B[k] = c[o + k]
    BY <1>1, <2>1, PartIs
  <2> QED
    BY <1>1, <2>2
<1>3. PICK f : Merges(f, c, A, B, l, bound) /\ Sorting!Merge(c, A, B, l) = f[bound].array
  BY <1>1, <1>2, MergeLoop
<1>4. /\ f[0] = [array |-> c, i |-> 0, j |-> 0]
      /\ \A m \in 1 .. bound : f[m] = MergeStep(f[m - 1], A, B, l + m - 1)
  BY <1>2, <1>3 DEF Merges
<1> DEFINE Halfway(s, m) == \E b \in Filled(n, S) : \E x \in 0 .. o - l, y \in 0 .. h - o + 1 :
                             s = [array |-> b, i |-> x, j |-> y] /\ x + y = m
           D == {m \in 0 .. bound : Halfway(f[m], m)}
<1>5. 0 \in D
  BY <1>2, <1>4
<1>6. ASSUME NEW m \in 0 .. bound - 1, m \in D PROVE m + 1 \in D
  <2>1. PICK b \in Filled(n, S), x \in 0 .. o - l, y \in 0 .. h - o + 1 :
          f[m] = [array |-> b, i |-> x, j |-> y] /\ x + y = m
    BY <1>6
  <2>2. f[m + 1] = MergeStep(f[m], A, B, l + m) /\ m + 1 \in 0 .. bound /\ l + m \in Place(n)
    <3>1. m + 1 \in 1 .. bound /\ (m + 1) - 1 = m /\ l + (m + 1) - 1 = l + m
      BY <1>2
    <3>2. f[m + 1] = MergeStep(f[(m + 1) - 1], A, B, l + (m + 1) - 1)
      BY <1>4, <3>1
    <3>3. l + m \in Place(n)
      BY <1>2 DEF Place
    <3> QED
      BY <3>1, <3>2, <3>3
  <2>3. \A k \in Place(n) : c[k] \in S
    BY DEF Filled
  <2>4. CASE x < o - l /\ (y >= h - o + 1 \/ A[x] <= B[y])
    <3>1. f[m + 1] = [array |-> [b EXCEPT ![l + m] = A[x]], i |-> x + 1, j |-> y]
      BY <1>2, <2>1, <2>2, <2>4 DEF MergeStep
    <3>2. A[x] \in S
      <4>1. x \in 0 .. o - 1 - l /\ l + x \in Place(n)
        BY <2>4 DEF Place
      <4> QED
        BY <1>2, <2>3, <4>1
    <3>3. [b EXCEPT ![l + m] = A[x]] \in Filled(n, S)
      BY <3>2 DEF Filled
    <3>4. x + 1 \in 0 .. o - l /\ (x + 1) + y = m + 1
      BY <2>1, <2>4
    <3>5. Halfway(f[m + 1], m + 1)
      BY <3>1, <3>3, <3>4
    <3> QED
      BY <2>2, <3>5
  <2>5. CASE ~(x < o - l /\ (y >= h - o + 1 \/ A[x] <= B[y]))
    <3>1. f[m + 1] = [array |-> [b EXCEPT ![l + m] = B[y]], i |-> x, j |-> y + 1]
      BY <1>2, <2>1, <2>2, <2>5 DEF MergeStep
    <3>0. y < h - o + 1
      BY <1>2, <2>1, <2>5
    <3>2. B[y] \in S
      <4>1. y \in 0 .. h - o /\ o + y \in Place(n)
        BY <3>0 DEF Place
      <4> QED
        BY <1>2, <2>3, <4>1
    <3>3. [b EXCEPT ![l + m] = B[y]] \in Filled(n, S)
      BY <3>2 DEF Filled
    <3>4. y + 1 \in 0 .. h - o + 1 /\ x + (y + 1) = m + 1
      BY <2>1, <3>0
    <3>5. Halfway(f[m + 1], m + 1)
      BY <3>1, <3>3, <3>4
    <3> QED
      BY <2>2, <3>5
  <2> QED
    BY <2>4, <2>5
<1>7. bound \in D
  <2> HIDE DEF D
  <2> QED
    BY <1>2, <1>5, <1>6, SetInduction
<1>8. PICK b \in Filled(n, S) : \E x \in 0 .. o - l, y \in 0 .. h - o + 1 : f[bound] = [array |-> b, i |-> x, j |-> y]
  BY <1>7
<1>9. f[bound].array = b
  BY <1>8
<1> QED
  BY <1>1, <1>3, <1>9

\* The array b is a, of which the part from l to h has been sorted.
SortedRun(a, b, n, S, l, h) == b \in Filled(n, S) /\ Moved(a, b, n, l, h) /\ Rises(b, n, l, h)

LEMMA HalvesJoin ==
  ASSUME NEW n \in Nat, NEW S, S \subseteq Int, NEW l \in Int, NEW h \in Int, NEW m \in Int,
         0 <= l, l <= m, m < h, h <= n - 1, NEW a, NEW b, NEW c,
         SortedRun(a, b, n, S, l, m), SortedRun(b, c, n, S, m + 1, h)
  PROVE  SortedRun(a, Sorting!Merge(c, Sorting!Part(c, l, m), Sorting!Part(c, m + 1, h), l), n, S, l, h)
<1>1. PICK o : o = m + 1 /\ o - 1 = m /\ o \in Int /\ l < o /\ o <= h /\ l <= o
  OBVIOUS
<1>2. /\ b \in [Place(n) -> Int] /\ c \in [Place(n) -> Int] /\ c \in Filled(n, S)
      /\ Moved(a, b, n, l, o - 1) /\ Rises(b, n, l, o - 1)
      /\ Moved(b, c, n, o, h) /\ Rises(c, n, o, h)
  BY <1>1 DEF SortedRun, Filled
<1>3. Rises(c, n, l, o - 1)
  <2>1. \A k \in Place(n) : k < o \/ h < k => c[k] = b[k]
    BY <1>1, <1>2, MovedWithin
  <2>2. \A k \in Place(n) : k <= o - 1 => c[k] = b[k]
    BY <1>1, <2>1 DEF Place
  <2>3. ASSUME NEW k \in Place(n), NEW t \in Place(n), l <= k, k < t, t <= o - 1 PROVE c[k] <= c[t]
    <3>1. k <= o - 1
      BY <1>1, <2>3 DEF Place
    <3> QED
      BY <1>2, <2>2, <2>3, <3>1 DEF Rises
  <2> QED
    BY <2>3 DEF Rises
<1>4. PICK d : /\ d = Sorting!Merge(c, Sorting!Part(c, l, o - 1), Sorting!Part(c, o, h), l)
               /\ Moved(c, d, n, l, h) /\ Rises(d, n, l, h)
  BY <1>1, <1>2, <1>3, MergeIs
<1>5. d \in Filled(n, S)
  BY <1>1, <1>2, <1>4, MergeFills
<1>6. Moved(a, c, n, l, h)
  <2>1. l <= l /\ o - 1 <= h /\ l <= o /\ h <= h /\ o - 1 \in Int
    BY <1>1
  <2> QED
    BY <1>1, <1>2, <2>1, MovedOn
<1>7. Moved(a, d, n, l, h)
  <2>1. l <= l /\ h <= h
    OBVIOUS
  <2> QED
    BY <1>4, <1>6, <2>1, MovedOn
<1>8. SortedRun(a, d, n, S, l, h)
  BY <1>4, <1>5, <1>7 DEF SortedRun
<1> QED
  BY <1>1, <1>4, <1>8

\* What a call of merge_sort does by the calls one level below it.
MergeSortStep(f, d, a, l, r) ==
  LET m == l + (r - l) \div 2
      halves == f[<<d - 1, f[<<d - 1, a, l, m>>], m + 1, r>>]
  IN  IF d = 0 \/ l >= r THEN a
      ELSE Sorting!Merge(halves, Sorting!Part(halves, l, m), Sorting!Part(halves, m + 1, r), l)

MergeSorts(f, top, n, S) ==
  f = [args \in Levels(top, n, S) |-> MergeSortStep(f, args[1], args[2], args[3], args[4])]

LEMMA Middle ==
  ASSUME NEW n \in Nat, NEW l \in 0 .. n, NEW h \in -1 .. n - 1, l < h
  PROVE  \E m \in -1 .. n - 1 : /\ m = l + (h - l) \div 2 /\ l <= m /\ m < h /\ m + 1 \in 0 .. n
<1>1. (h - l) \div 2 \in Nat /\ (h - l) \div 2 < h - l
  BY SMT
<1> QED
  BY <1>1

\* A call depends only on the calls one level below it.
LEMMA MergeSortStepLocal ==
  ASSUME NEW n \in Nat, NEW S, NEW d \in Nat, NEW f, NEW g,
         NEW a \in Filled(n, S), NEW l \in 0 .. n, NEW h \in -1 .. n - 1, AgreeBelow(f, g, d, n, S)
  PROVE  /\ MergeSortStep(g, d, a, l, h) = MergeSortStep(f, d, a, l, h)
         /\ MergeSortStep(f, d, a, l, h) \in Filled(n, S)
<1>1. CASE d = 0 \/ l >= h
  BY <1>1 DEF MergeSortStep
<1>2. CASE d # 0 /\ l < h
  <2>1. PICK m \in -1 .. n - 1 : /\ m = l + (h - l) \div 2 /\ l <= m /\ m < h /\ m + 1 \in 0 .. n
    BY <1>2, Middle
  <2>2. PICK b : b = f[<<d - 1, a, l, m>>]
    OBVIOUS
  <2>3. b \in Filled(n, S) /\ b = g[<<d - 1, a, l, m>>]
    BY <1>2, <2>2 DEF AgreeBelow, Fills
  <2>4. PICK c : c = f[<<d - 1, b, m + 1, h>>]
    OBVIOUS
  <2>5. c \in Filled(n, S) /\ c = g[<<d - 1, b, m + 1, h>>]
    BY <1>2, <2>1, <2>3, <2>4 DEF AgreeBelow, Fills
  <2>6. ~(d = 0 \/ l >= h)
    BY <1>2
  <2>7. /\ MergeSortStep(f, d, a, l, h) = Sorting!Merge(c, Sorting!Part(c, l, m), Sorting!Part(c, m + 1, h), l)
        /\ MergeSortStep(g, d, a, l, h) = Sorting!Merge(c, Sorting!Part(c, l, m), Sorting!Part(c, m + 1, h), l)
    BY <2>1, <2>2, <2>3, <2>4, <2>5, <2>6 DEF MergeSortStep
  <2>8. Sorting!Merge(c, Sorting!Part(c, l, m), Sorting!Part(c, m + 1, h), l) \in Filled(n, S)
    <3>1. PICK o : o = m + 1 /\ o - 1 = m /\ o \in Int /\ l < o /\ o <= h /\ 0 <= l /\ h <= n - 1
      BY <2>1
    <3> QED
      BY <2>5, <3>1, MergeFills
  <2> QED
    BY <2>7, <2>8
<1> QED
  BY <1>1, <1>2

LEMMA MergeSortsExist ==
  ASSUME NEW n \in Nat, NEW S, NEW top \in Nat
  PROVE  \E f : MergeSorts(f, top, n, S)
<1> DEFINE D == {t \in Nat : \E f : MergeSorts(f, t, n, S) /\ \A d \in 0 .. t : Fills(f, d, n, S)}
<1>1. ASSUME NEW f, NEW t \in Nat, t # 0 => MergeSorts(f, t - 1, n, S),
             \A d \in Nat : d < t => Fills(f, d, n, S)
      PROVE  t \in D
  <2> DEFINE g == [args \in Levels(t, n, S) |->
                     IF args[1] < t THEN f[args] ELSE MergeSortStep(f, args[1], args[2], args[3], args[4])]
             s == [args \in Levels(t, n, S) |-> MergeSortStep(g, args[1], args[2], args[3], args[4])]
  <2>1. ASSUME NEW d \in 0 .. t, NEW a \in Filled(n, S), NEW l \in 0 .. n, NEW h \in -1 .. n - 1
        PROVE  /\ <<d, a, l, h>> \in Levels(t, n, S)
               /\ g[<<d, a, l, h>>] = IF d < t THEN f[<<d, a, l, h>>] ELSE MergeSortStep(f, d, a, l, h)
               /\ s[<<d, a, l, h>>] = MergeSortStep(g, d, a, l, h)
    BY DEF Levels
  <2>2. g = [args \in Levels(t, n, S) |-> g[args]] /\ s = [args \in Levels(t, n, S) |-> s[args]]
    OBVIOUS
  <2> HIDE DEF g, s
  <2>3. ASSUME NEW d \in 0 .. t, NEW a \in Filled(n, S), NEW l \in 0 .. n, NEW h \in -1 .. n - 1
        PROVE  g[<<d, a, l, h>>] = s[<<d, a, l, h>>] /\ g[<<d, a, l, h>>] \in Filled(n, S)
    <3>1. AgreeBelow(f, g, d, n, S)
      <4> SUFFICES ASSUME d # 0
                   PROVE  /\ Fills(f, d - 1, n, S)
                          /\ \A b \in Filled(n, S), x \in 0 .. n, y \in -1 .. n - 1 :
                               g[<<d - 1, b, x, y>>] = f[<<d - 1, b, x, y>>]
        BY DEF AgreeBelow
      <4>1. d - 1 \in 0 .. t /\ d - 1 < t /\ d - 1 \in Nat
        OBVIOUS
      <4> QED
        BY <1>1, <2>1, <4>1
    <3>2. /\ MergeSortStep(g, d, a, l, h) = MergeSortStep(f, d, a, l, h)
          /\ MergeSortStep(f, d, a, l, h) \in Filled(n, S)
      <4>1. d \in Nat
        OBVIOUS
      <4> QED
        BY <3>1, <4>1, MergeSortStepLocal
    <3>3. CASE d < t
      <4>1. d \in 0 .. t - 1 /\ t # 0
        BY <3>3
      <4>2. <<d, a, l, h>> \in Levels(t - 1, n, S)
        BY <4>1 DEF Levels
      <4>3. f[<<d, a, l, h>>] = MergeSortStep(f, d, a, l, h)
        BY <1>1, <4>1, <4>2 DEF MergeSorts
      <4> QED
        BY <2>1, <3>2, <3>3, <4>3
    <3>4. CASE ~(d < t)
      BY <2>1, <3>2, <3>4
    <3> QED
      BY <3>3, <3>4
  <2>4. ASSUME NEW args \in Levels(t, n, S) PROVE g[args] = s[args]
    <3>1. PICK d \in 0 .. t, a \in Filled(n, S), l \in 0 .. n, h \in -1 .. n - 1 : args = <<d, a, l, h>>
      BY DEF Levels
    <3> QED
      BY <2>3, <3>1
  <2>5. g = s
    BY <2>2, <2>4, Zenon
  <2>6. MergeSorts(g, t, n, S)
    BY <2>5, Zenon DEF MergeSorts, s
  <2>7. \A d \in 0 .. t : Fills(g, d, n, S)
    BY <2>3 DEF Fills
  <2> QED
    BY <2>6, <2>7
<1>2. 0 \in D
  <2>1. \A d \in Nat : ~(d < 0)
    OBVIOUS
  <2> HIDE DEF D
  <2> QED
    BY <1>1, <2>1
<1>3. ASSUME NEW t \in Nat, t \in D PROVE t + 1 \in D
  <2>1. PICK f : MergeSorts(f, t, n, S) /\ \A d \in 0 .. t : Fills(f, d, n, S)
    BY <1>3
  <2>2. (t + 1) - 1 = t /\ t + 1 \in Nat /\ \A d \in Nat : d < t + 1 => d \in 0 .. t
    OBVIOUS
  <2> HIDE DEF D
  <2> QED
    BY <1>1, <2>1, <2>2
<1> HIDE DEF D
<1>4. top \in D
  BY <1>2, <1>3, NatSetInduction
<1> QED
  BY <1>4 DEF D

MergeSortsPart(f, d, n, S) ==
  \A a \in Filled(n, S), l \in 0 .. n, h \in -1 .. n - 1 :
    h - l + 1 <= d => SortedRun(a, f[<<d, a, l, h>>], n, S, l, h)

LEMMA MergeSortStepRight ==
  ASSUME NEW n \in Nat, NEW S, S \subseteq Int, NEW d \in Nat, NEW f,
         NEW a \in Filled(n, S), NEW l \in 0 .. n, NEW h \in -1 .. n - 1, h - l + 1 <= d,
         d # 0 => MergeSortsPart(f, d - 1, n, S)
  PROVE  SortedRun(a, MergeSortStep(f, d, a, l, h), n, S, l, h)
<1>1. CASE d = 0 \/ l >= h
  <2>1. MergeSortStep(f, d, a, l, h) = a
    BY <1>1 DEF MergeSortStep
  <2>2. Moved(a, a, n, l, h)
    BY MovedNot
  <2>3. h <= l
    BY <1>1
  <2>4. Rises(a, n, l, h)
    BY <2>3 DEF Rises, Place
  <2> QED
    BY <2>1, <2>2, <2>4 DEF SortedRun
<1>2. CASE d # 0 /\ l < h
  <2>1. PICK m \in -1 .. n - 1 : /\ m = l + (h - l) \div 2 /\ l <= m /\ m < h /\ m + 1 \in 0 .. n
    BY <1>2, Middle
  <2>2. PICK b : b = f[<<d - 1, a, l, m>>]
    OBVIOUS
  <2>3. SortedRun(a, b, n, S, l, m)
    <3>1. m - l + 1 <= d - 1
      BY <2>1
    <3> QED
      BY <1>2, <2>2, <3>1 DEF MergeSortsPart
  <2>4. PICK c : c = f[<<d - 1, b, m + 1, h>>]
    OBVIOUS
  <2>5. SortedRun(b, c, n, S, m + 1, h)
    <3>1. b \in Filled(n, S) /\ h - (m + 1) + 1 <= d - 1
      BY <2>1, <2>3 DEF SortedRun
    <3> QED
      BY <1>2, <2>1, <2>4, <3>1 DEF MergeSortsPart
  <2>6. MergeSortStep(f, d, a, l, h) = Sorting!Merge(c, Sorting!Part(c, l, m), Sorting!Part(c, m + 1, h), l)
    <3>1. ~(d = 0 \/ l >= h)
      BY <1>2
    <3> QED
      BY <2>1, <2>2, <2>4, <3>1 DEF MergeSortStep
  <2>7. l \in Int /\ h \in Int /\ m \in Int /\ 0 <= l /\ h <= n - 1
    OBVIOUS
  <2> QED
    BY <2>1, <2>3, <2>5, <2>6, <2>7, HalvesJoin
<1> QED
  BY <1>1, <1>2

LEMMA MergeSortsRight ==
  ASSUME NEW n \in Nat, NEW S, S \subseteq Int, NEW top \in Nat, NEW f, MergeSorts(f, top, n, S)
  PROVE  MergeSortsPart(f, top, n, S)
<1> DEFINE D == {d \in 0 .. top : MergeSortsPart(f, d, n, S)}
<1>1. ASSUME NEW d \in 0 .. top, d # 0 => MergeSortsPart(f, d - 1, n, S)
      PROVE  d \in D
  <2>1. ASSUME NEW a \in Filled(n, S), NEW l \in 0 .. n, NEW h \in -1 .. n - 1, h - l + 1 <= d
        PROVE  SortedRun(a, f[<<d, a, l, h>>], n, S, l, h)
    <3>1. f[<<d, a, l, h>>] = MergeSortStep(f, d, a, l, h)
      <4>1. <<d, a, l, h>> \in Levels(top, n, S)
        BY DEF Levels
      <4> QED
        BY <4>1 DEF MergeSorts
    <3>2. d \in Nat
      OBVIOUS
    <3>3. SortedRun(a, MergeSortStep(f, d, a, l, h), n, S, l, h)
      BY <1>1, <2>1, <3>2, MergeSortStepRight
    <3> QED
      BY <3>1, <3>3
  <2> QED
    BY <2>1 DEF MergeSortsPart
<1>2. 0 \in D
  <2> HIDE DEF D
  <2>1. 0 \in 0 .. top
    OBVIOUS
  <2> QED
    BY <1>1, <2>1
<1>3. ASSUME NEW d \in 0 .. top - 1, d \in D PROVE d + 1 \in D
  <2>1. d + 1 \in 0 .. top /\ (d + 1) - 1 = d
    OBVIOUS
  <2>2. MergeSortsPart(f, d, n, S)
    BY <1>3
  <2> HIDE DEF D
  <2> QED
    BY <1>1, <2>1, <2>2
<1> HIDE DEF D
<1>4. top \in D
  BY <1>2, <1>3, SetInduction
<1> QED
  BY <1>4 DEF D

MergeSortCalls(f, C) ==
  f = [args \in C |-> MergeSortStep(f, args[1], args[2], args[3], args[4])]

LEMMA MergeSortIs ==
  ASSUME NEW n \in Nat, NEW a \in [Place(n) -> Int]
  PROVE  Right(a, Sorting!merge_sort(a, 0, n - 1))
<1>1. PICK S, C : S = {a[k] : k \in Place(n)} /\ C = Sorting!Calls(a, n - 1 + 1)
  OBVIOUS
<1>2. C = Levels(n, n, S) /\ n - 1 + 1 = n /\ S \subseteq Int /\ a \in Filled(n, S)
  <2>1. n - 1 + 1 = n /\ DOMAIN a = Place(n)
    OBVIOUS
  <2>2. [DOMAIN a -> {a[k] : k \in DOMAIN a}] = Filled(n, S)
    BY <1>1, <2>1 DEF Filled
  <2>3. C = (0 .. n) \X [DOMAIN a -> {a[k] : k \in DOMAIN a}] \X (0 .. n) \X (-1 .. n - 1)
    BY <1>1, <2>1 DEF Sorting!Calls
  <2>4. C = Levels(n, n, S)
    BY <2>2, <2>3, Zenon DEF Levels
  <2> QED
    BY <1>1, <2>1, <2>4 DEF Filled
<1>3. PICK f : MergeSortCalls(f, C) /\ Sorting!merge_sort(a, 0, n - 1) = f[<<n, a, 0, n - 1>>]
  <2>1. Sorting!merge_sort(a, 0, n - 1)
          = (CHOOSE x : MergeSortCalls(x, Sorting!Calls(a, n - 1 + 1)))[<<n - 1 + 1, a, 0, n - 1>>]
    BY DEF Sorting!merge_sort, MergeSortCalls, MergeSortStep
  <2>2. \E f : MergeSortCalls(f, C)
    <3>1. PICK f : MergeSorts(f, n, n, S)
      BY MergeSortsExist
    <3>2. MergeSortCalls(f, C)
      BY <1>2, <3>1, Zenon DEF MergeSorts, MergeSortCalls
    <3> QED
      BY <3>2
  <2>3. PICK f : f = CHOOSE x : MergeSortCalls(x, Sorting!Calls(a, n - 1 + 1))
    OBVIOUS
  <2>4. MergeSortCalls(f, C)
    <3>1. \E x : MergeSortCalls(x, Sorting!Calls(a, n - 1 + 1))
      BY <1>1, <2>2, Zenon
    <3>2. MergeSortCalls(f, Sorting!Calls(a, n - 1 + 1))
      BY <2>3, <3>1, Zenon
    <3> QED
      BY <1>1, <3>2, Zenon
  <2> QED
    BY <1>2, <2>1, <2>3, <2>4, Zenon
<1>4. MergeSortsPart(f, n, n, S)
  <2>1. MergeSorts(f, n, n, S)
    BY <1>2, <1>3, Zenon DEF MergeSorts, MergeSortCalls
  <2> QED
    BY <1>2, <2>1, MergeSortsRight
<1>5. 0 \in 0 .. n /\ n - 1 \in -1 .. n - 1 /\ (n - 1) - 0 + 1 <= n
  OBVIOUS
<1>6. PICK b : b = Sorting!merge_sort(a, 0, n - 1) /\ SortedRun(a, b, n, S, 0, n - 1)
  BY <1>2, <1>3, <1>4, <1>5 DEF MergeSortsPart
<1>7. b \in [Place(n) -> Int] /\ Moved(a, b, n, 0, n - 1)
  BY <1>2, <1>6 DEF SortedRun, Filled
<1>8. \A k, m \in Place(n) : k < m => b[k] <= b[m]
  BY <1>6 DEF SortedRun, Rises, Place
<1> QED
  BY <1>6, <1>7, <1>8, MovedRight

-----------------------------------------------------------------------------
(* The search of binary_search, and what the sorts leave.                    *)

\* The part of an array that the loop of binary_search has still to look at: what is left of
\* it is too small and what is right of it too large, unless the right end has wrapped.
Narrowed(a, n, t, l, r) ==
  /\ l \in 0 .. n /\ r \in Nat
  /\ l = 0 \/ a[l - 1] < t
  /\ \/ r = n
     \/ r + 1 \in 0 .. n - 1 /\ a[r + 1] > t
     \/ r = MAX /\ a[0] > t

\* What binary_search answers, if anything, is true, and it stays inside the array exactly
\* if what it searches for lies between the first element and the last.
Answered(a, n, t, answer) ==
  LET between == a[0] <= t /\ t <= a[n - 1]
  IN  \/ answer = [inside |-> FALSE] /\ ~between
      \/ answer = [inside |-> TRUE, ok |-> FALSE] /\ between /\ \A k \in 0 .. n - 1 : a[k] # t
      \/ \E mid \in 0 .. n - 1 : answer = [inside |-> TRUE, ok |-> TRUE, value |-> mid] /\ between /\ a[mid] = t

Ascends(a, n) == \A k, l \in 0 .. n - 1 : k < l => a[k] < a[l]

\* What is between the steps: a sorted array, a search that has narrowed or an answer.
SortingInv ==
  \/ sort_call = <<"start">>
  \/ \E a : sort_call = <<"sort", a>> /\ Right(a, result)
  \/ \E a \in Arrays, t \in Numbers, n \in Nat :
       /\ a \in [0 .. n - 1 -> Int] /\ n # 0 /\ 2 * n <= MAX /\ n = Sorting!Size(a) /\ Ascends(a, n)
       /\ \/ /\ sort_call = <<"searching", a, t>>
             /\ \E l, r \in Nat : result = [l |-> l, r |-> r] /\ Narrowed(a, n, t, l, r)
          \/ sort_call = <<"search", a, t>> /\ Answered(a, n, t, result)

LEMMA ModFacts ==
  ASSUME NEW m \in Nat
  PROVE  (0 - 1) % (m + 1) = m /\ \A x \in 0 .. m : x % (m + 1) = x
  BY SMT

LEMMA SearchStarts == ASSUME Sorting!Search PROVE SortingInv'
<1>1. PICK a \in Arrays, t \in Numbers :
        /\ a # <<>> /\ Sorting!Increasing(a)
        /\ sort_call' = <<"searching", a, t>> /\ result' = Sorting!Whole(a)
  BY DEF Sorting!Search
<1>2. PICK n : n = Cardinality(DOMAIN a) /\ n \in Nat /\ 2 * n <= MAX /\ a \in [0 .. n - 1 -> Int]
  BY ArraysAssumption
<1>3. n = Sorting!Size(a)
  BY <1>2 DEF Sorting!Size, Sorting!Cardinality, Cardinality
<1>4. n # 0
  <2> SUFFICES ASSUME n = 0 PROVE FALSE
    OBVIOUS
  <2>1. DOMAIN a = {}
    BY <1>2
  <2>2. a = <<>>
    BY <1>2, <2>1
  <2> QED
    BY <1>1, <2>2
<1>5. Ascends(a, n)
  BY <1>1, <1>2 DEF Sorting!Increasing, Ascends
<1>6. result' = [l |-> 0, r |-> n]
  BY <1>1, <1>3 DEF Sorting!Whole
<1>7. Narrowed(a, n, t, 0, n)
  BY <1>2 DEF Narrowed
<1> QED
  BY <1>1, <1>2, <1>3, <1>4, <1>5, <1>6, <1>7 DEF SortingInv

LEMMA HalvedRight ==
  ASSUME NEW n \in Nat, n # 0, 2 * n <= MAX, NEW a \in [0 .. n - 1 -> Int], Ascends(a, n),
         NEW t \in Int, NEW l \in Nat, NEW r \in Nat, Narrowed(a, n, t, l, r),
         NEW mid, mid = l + (r - l) \div 2
  PROVE  /\ r < l => Answered(a, n, t, [inside |-> TRUE, ok |-> FALSE])
         /\ r >= l /\ mid \notin 0 .. n - 1 => Answered(a, n, t, [inside |-> FALSE])
         /\ r >= l /\ mid \in 0 .. n - 1 /\ a[mid] = t => Answered(a, n, t, [inside |-> TRUE, ok |-> TRUE, value |-> mid])
         /\ r >= l /\ mid \in 0 .. n - 1 /\ a[mid] > t =>
              (mid - 1) % (MAX + 1) \in Nat /\ Narrowed(a, n, t, l, (mid - 1) % (MAX + 1))
         /\ r >= l /\ mid \in 0 .. n - 1 /\ a[mid] < t => mid + 1 \in Nat /\ Narrowed(a, n, t, mid + 1, r)
<1>1. MAX \in Nat
  BY ArraysAssumption
<1>2. \A k, m \in 0 .. n - 1 : k <= m => a[k] <= a[m]
  BY DEF Ascends
<1>3. \A k \in 0 .. n - 1 : a[k] \in Int /\ a[0] <= a[k] /\ a[k] <= a[n - 1]
  BY <1>2
<1>4. /\ l \in 0 .. n
      /\ l # 0 => \A k \in 0 .. l - 1 : a[k] < t
      /\ r # n /\ r # MAX => r + 1 \in 0 .. n - 1 /\ \A k \in r + 1 .. n - 1 : a[k] > t
      /\ r = MAX => r = n \/ a[0] > t \/ r + 1 \in 0 .. n - 1
      /\ n < MAX
  BY <1>1, <1>2, <1>3 DEF Narrowed
<1>5. ASSUME r < l PROVE Answered(a, n, t, [inside |-> TRUE, ok |-> FALSE])
  <2>1. r # n /\ r # MAX /\ l # 0
    BY <1>1, <1>4, <1>5
  <2>2. a[0] < t /\ a[n - 1] > t
    BY <1>4, <1>5, <2>1
  <2>3. \A k \in 0 .. n - 1 : k \in 0 .. l - 1 \/ k \in r + 1 .. n - 1
    BY <1>5
  <2>4. \A k \in 0 .. n - 1 : a[k] # t
    BY <1>3, <1>4, <2>1, <2>3
  <2> QED
    BY <1>3, <2>2, <2>4 DEF Answered
<1>6. r >= l => mid \in Nat /\ l <= mid /\ mid <= r /\ (l < r => mid < r)
  OBVIOUS
<1>7. ASSUME r >= l, mid \notin 0 .. n - 1 PROVE Answered(a, n, t, [inside |-> FALSE])
  <2>1. CASE r = MAX
    BY <1>1, <1>3, <1>4, <2>1 DEF Answered
  <2>2. CASE r = n
    <3>1. l = n
      BY <1>4, <1>6, <1>7, <2>2
    <3>2. a[n - 1] < t
      BY <1>4, <3>1
    <3> QED
      BY <1>3, <3>2 DEF Answered
  <2>3. r = MAX \/ r = n
    BY <1>1, <1>4, <1>6, <1>7
  <2> QED
    BY <2>1, <2>2, <2>3
<1>8. ASSUME r >= l, mid \in 0 .. n - 1, a[mid] = t
      PROVE  Answered(a, n, t, [inside |-> TRUE, ok |-> TRUE, value |-> mid])
  BY <1>3, <1>8 DEF Answered
<1>9. ASSUME r >= l, mid \in 0 .. n - 1, a[mid] > t
      PROVE  (mid - 1) % (MAX + 1) \in Nat /\ Narrowed(a, n, t, l, (mid - 1) % (MAX + 1))
  <2>1. CASE mid = 0
    <3>1. (mid - 1) % (MAX + 1) = MAX
      BY <1>1, <2>1, ModFacts
    <3>2. a[0] > t
      BY <1>9, <2>1
    <3> QED
      BY <1>1, <3>1, <3>2 DEF Narrowed
  <2>2. CASE mid # 0
    <3>1. mid - 1 \in 0 .. MAX /\ (mid - 1) + 1 = mid
      BY <1>1, <1>4, <1>9, <2>2
    <3>2. (mid - 1) % (MAX + 1) = mid - 1
      BY <1>1, <3>1, ModFacts
    <3> QED
      BY <1>9, <3>1, <3>2 DEF Narrowed
  <2> QED
    BY <2>1, <2>2
<1>10. ASSUME r >= l, mid \in 0 .. n - 1, a[mid] < t PROVE mid + 1 \in Nat /\ Narrowed(a, n, t, mid + 1, r)
  BY <1>10 DEF Narrowed
<1> QED
  BY <1>5, <1>7, <1>8, <1>9, <1>10

LEMMA SearchStep == ASSUME SortingInv, Sorting!binary_search PROVE SortingInv'
<1>1. PICK a \in Arrays, t \in Numbers, n \in Nat, l \in Nat, r \in Nat :
        /\ a \in [0 .. n - 1 -> Int] /\ n # 0 /\ 2 * n <= MAX /\ n = Sorting!Size(a) /\ Ascends(a, n)
        /\ sort_call = <<"searching", a, t>> /\ result = [l |-> l, r |-> r] /\ Narrowed(a, n, t, l, r)
  BY DEF SortingInv, Sorting!binary_search
<1>2. sort_call[2] = a /\ sort_call[3] = t /\ result.l = l /\ result.r = r /\ DOMAIN a = 0 .. n - 1 /\ t \in Int
  BY <1>1, ArraysAssumption
<1>3. PICK mid : mid = l + (r - l) \div 2
  OBVIOUS
<1>4. \/ r < l /\ Sorting!Return([inside |-> TRUE, ok |-> FALSE])
      \/ r >= l /\ mid \notin 0 .. n - 1 /\ Sorting!Return([inside |-> FALSE])
      \/ r >= l /\ mid \in 0 .. n - 1 /\ a[mid] = t /\ Sorting!Return([inside |-> TRUE, ok |-> TRUE, value |-> mid])
      \/ /\ r >= l /\ mid \in 0 .. n - 1 /\ a[mid] > t
         /\ result' = [result EXCEPT !.r = (mid - 1) % (MAX + 1)] /\ sort_call' = sort_call
      \/ /\ r >= l /\ mid \in 0 .. n - 1 /\ a[mid] < t
         /\ result' = [result EXCEPT !.l = mid + 1] /\ sort_call' = sort_call
  BY <1>2, <1>3 DEF Sorting!binary_search
<1>5. ASSUME NEW answer, Sorting!Return(answer), Answered(a, n, t, answer) PROVE SortingInv'
  <2>1. sort_call' = <<"search", a, t>> /\ result' = answer
    BY <1>2, <1>5 DEF Sorting!Return
  <2> QED
    BY <1>1, <1>5, <2>1 DEF SortingInv
<1>6. ASSUME NEW x \in Nat, NEW y \in Nat, result' = [l |-> x, r |-> y], sort_call' = sort_call, Narrowed(a, n, t, x, y)
      PROVE  SortingInv'
  BY <1>1, <1>6 DEF SortingInv
<1>7. /\ [result EXCEPT !.r = (mid - 1) % (MAX + 1)] = [l |-> l, r |-> (mid - 1) % (MAX + 1)]
      /\ [result EXCEPT !.l = mid + 1] = [l |-> mid + 1, r |-> r]
  BY <1>1
<1> HIDE DEF Sorting!Return
<1>8. /\ r < l => Answered(a, n, t, [inside |-> TRUE, ok |-> FALSE])
      /\ r >= l /\ mid \notin 0 .. n - 1 => Answered(a, n, t, [inside |-> FALSE])
      /\ r >= l /\ mid \in 0 .. n - 1 /\ a[mid] = t => Answered(a, n, t, [inside |-> TRUE, ok |-> TRUE, value |-> mid])
      /\ r >= l /\ mid \in 0 .. n - 1 /\ a[mid] > t =>
           (mid - 1) % (MAX + 1) \in Nat /\ Narrowed(a, n, t, l, (mid - 1) % (MAX + 1))
      /\ r >= l /\ mid \in 0 .. n - 1 /\ a[mid] < t => mid + 1 \in Nat /\ Narrowed(a, n, t, mid + 1, r)
  BY <1>1, <1>2, <1>3, HalvedRight
<1> QED
  BY <1>4, <1>5, <1>6, <1>7, <1>8

LEMMA SearchedWhenInv == SortingInv => SearchedRight
<1> SUFFICES ASSUME SortingInv, sort_call[1] = "search" PROVE SearchedRight
  BY DEF SearchedRight, Sorting!SearchedRight
<1>1. PICK a \in Arrays, t \in Numbers, n \in Nat :
        /\ a \in [0 .. n - 1 -> Int] /\ n = Sorting!Size(a)
        /\ sort_call = <<"search", a, t>> /\ Answered(a, n, t, result)
  BY DEF SortingInv
<1>2. sort_call[2] = a /\ sort_call[3] = t /\ DOMAIN a = 0 .. n - 1
  BY <1>1
<1>3. \/ result.inside = FALSE /\ ~(a[0] <= t /\ t <= a[n - 1])
      \/ /\ result.inside = TRUE /\ result.ok = FALSE /\ a[0] <= t /\ t <= a[n - 1]
         /\ \A k \in 0 .. n - 1 : a[k] # t
      \/ /\ result.inside = TRUE /\ result.ok = TRUE /\ a[0] <= t /\ t <= a[n - 1]
         /\ result.value \in 0 .. n - 1 /\ a[result.value] = t
  BY <1>1 DEF Answered
<1> QED
  BY <1>1, <1>2, <1>3 DEF SearchedRight, Sorting!SearchedRight

LEMMA SortedWhenInv == SortingInv => SortedRight
<1> SUFFICES ASSUME SortingInv, sort_call[1] = "sort" PROVE SortedRight
  BY DEF SortedRight, Sorting!SortedRight
<1>1. PICK a : sort_call = <<"sort", a>> /\ Right(a, result)
  BY DEF SortingInv
<1>2. sort_call[2] = a
  BY <1>1
<1> QED
  BY <1>1, <1>2 DEF Right, SortedRight, Sorting!SortedRight

\* Each of the sorts leaves the array right.
LEMMA SortStepsRight ==
  ASSUME Sorting!Quicksort \/ Sorting!MergeSort \/ Sorting!InsertionSort
  PROVE  \E a : sort_call' = <<"sort", a>> /\ Right(a, result')
<1>1. ASSUME NEW a \in Arrays
      PROVE  Sorting!Size(a) \in Nat /\ a \in [Place(Sorting!Size(a)) -> Int]
  <2>1. PICK n : n = Cardinality(DOMAIN a) /\ n \in Nat /\ a \in [0 .. n - 1 -> Int]
    BY ArraysAssumption
  <2>2. n = Sorting!Size(a)
    BY <2>1 DEF Sorting!Size, Sorting!Cardinality, Cardinality
  <2> QED
    BY <2>1, <2>2 DEF Place
<1>2. CASE Sorting!Quicksort
  <2>1. PICK a \in Arrays :
          /\ sort_call' = <<"sort", a>>
          /\ result' = LET bytes == [k \in DOMAIN a |-> <<a[k]>>]
                           sorted == Sorting!Sort(bytes, 0, Sorting!Size(a) - 1, 1)
                       IN  [k \in DOMAIN a |-> sorted[k][1]]
    BY <1>2 DEF Sorting!Quicksort
  <2>2. Right(a, result')
    BY <1>1, <2>1, QuicksortIs
  <2> QED
    BY <2>1, <2>2
<1>3. CASE Sorting!MergeSort
  <2>1. PICK a \in Arrays : sort_call' = <<"sort", a>> /\ result' = Sorting!merge_sort(a, 0, Sorting!Size(a) - 1)
    BY <1>3 DEF Sorting!MergeSort
  <2>2. Right(a, result')
    BY <1>1, <2>1, MergeSortIs
  <2> QED
    BY <2>1, <2>2
<1>4. CASE Sorting!InsertionSort
  <2>1. PICK a \in Arrays : sort_call' = <<"sort", a>> /\ result' = Sorting!insertion_sort(a, Sorting!Size(a))
    BY <1>4 DEF Sorting!InsertionSort
  <2>2. Right(a, result')
    BY <1>1, <2>1, InsertionSortIs
  <2> QED
    BY <2>1, <2>2
<1> QED
  BY <1>2, <1>3, <1>4

LEMMA SortingInductive == SortingInv /\ [Sorting!Next]_(Sorting!vars) => SortingInv'
<1> SUFFICES ASSUME SortingInv, [Sorting!Next]_(Sorting!vars) PROVE SortingInv'
  OBVIOUS
<1>1. ASSUME NEW a, sort_call' = <<"sort", a>>, Right(a, result') PROVE SortingInv'
  BY <1>1 DEF SortingInv
<1>2. Sorting!Quicksort \/ Sorting!MergeSort \/ Sorting!InsertionSort
        => \E a : sort_call' = <<"sort", a>> /\ Right(a, result')
  BY SortStepsRight
<1>3. UNCHANGED Sorting!vars => SortingInv'
  BY DEF Sorting!vars, SortingInv
<1> QED
  BY <1>1, <1>2, <1>3, SearchStarts, SearchStep DEF Sorting!Next

\* binary_search answers right whenever what is searched for lies between the first element
\* and the last, for all arrays of numbers, although r starts one too far (line 50), and
\* only then stays inside the array.
THEOREM SearchIsRight == Sorting!Spec => []SearchedRight
<1>1. Sorting!Init => SortingInv
  BY DEF Sorting!Init, SortingInv
<1> QED
  BY <1>1, SortingInductive, SearchedWhenInv, PTL DEF Sorting!Spec

\* quicksort, merge_sort and insertion_sort leave every array of numbers in order, with
\* the elements it had and each as often as before.
THEOREM SortsAreRight == Sorting!Spec => []SortedRight
<1>1. Sorting!Init => SortingInv
  BY DEF Sorting!Init, SortingInv
<1> QED
  BY <1>1, SortingInductive, SortedWhenInv, PTL DEF Sorting!Spec
=============================================================================

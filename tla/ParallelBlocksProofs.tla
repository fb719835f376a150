------------------------ MODULE ParallelBlocksProofs ------------------------
(***************************************************************************)
(* Proofs about ParallelBlocks, for every buffer, block size and number of *)
(* workers.  The inductive invariant is IInv: the geometry of the blocks   *)
(* (built while main runs alone), the order of the claims, and how far     *)
(* each claimed block is filled.                                           *)
(***************************************************************************)
EXTENDS ParallelBlocks, FiniteSetTheorems, TLAPS

-----------------------------------------------------------------------------
(* Arithmetic.                                                             *)

\* Integer division rounds down.
LEMMA DivFacts ==
  ASSUME NEW a \in Nat, NEW b \in Nat \ {0}
  PROVE  /\ a \div b \in Nat
         /\ (a \div b) * b <= a
         /\ a < (a \div b) * b + b
  OBVIOUS

\* A side of length w cut into blocks of w \div N, one more if that leaves a
\* rest: the blocks are not empty, cover the side, and the last one starts
\* inside it.
LEMMA SideGeometry ==
  ASSUME NEW w \in Nat, NEW k \in Nat \ {0}, k <= w,
         NEW bw, bw = w \div k,
         NEW xb, xb = (w + bw - 1) \div bw
  PROVE  /\ bw \in Nat \ {0} /\ xb \in Nat \ {0}
         /\ w <= xb * bw /\ xb * bw < w + bw
<1>1. bw \in Nat /\ bw * k <= w /\ w < bw * k + k
  BY DivFacts
<1>2. bw # 0
  BY <1>1
<1>3. w + bw - 1 \in Nat
  BY <1>1, <1>2
<1>4. xb \in Nat /\ xb * bw <= w + bw - 1 /\ w + bw - 1 < xb * bw + bw
  BY <1>1, <1>2, <1>3, DivFacts
<1>5. xb # 0
  <2>1. 0 * bw = 0
    BY <1>1
  <2> QED
    BY <1>1, <1>4, <2>1
<1>6. xb * bw \in Nat
  BY <1>1, <1>4
<1> QED
  BY <1>1, <1>2, <1>4, <1>5, <1>6

\* The buffer's geometry: SideGeometry for its width and its height.
LEMMA Geometry ==
  /\ BLOCK_WIDTH \in Nat \ {0} /\ BLOCK_HEIGHT \in Nat \ {0}
  /\ X_BLOCKS \in Nat \ {0} /\ Y_BLOCKS \in Nat \ {0}
  /\ BUFFER_WIDTH <= X_BLOCKS * BLOCK_WIDTH
  /\ X_BLOCKS * BLOCK_WIDTH < BUFFER_WIDTH + BLOCK_WIDTH
  /\ BUFFER_HEIGHT <= Y_BLOCKS * BLOCK_HEIGHT
  /\ Y_BLOCKS * BLOCK_HEIGHT < BUFFER_HEIGHT + BLOCK_HEIGHT
  BY SideGeometry, SizeAssumption DEF BLOCK_WIDTH, BLOCK_HEIGHT, X_BLOCKS, Y_BLOCKS

\* There is at least one block.
LEMMA LenType == BLOCKS_LEN \in Nat \ {0}
<1>1. ASSUME NEW a \in Nat \ {0}, NEW b \in Nat \ {0} PROVE a * b \in Nat \ {0}
  BY <1>1
<1> QED
  BY <1>1, Geometry DEF BLOCKS_LEN

\* Fewer whole blocks than there are start inside the side: a < m gives
\* a whole block less.
LEMMA MulBound ==
  ASSUME NEW a \in Nat, NEW m \in Nat, NEW b \in Nat, a < m
  PROVE  a * b \in Nat /\ m * b \in Nat /\ a * b + b <= m * b /\ (a + 1) * b = a * b + b
<1>1. a * b \in Nat /\ m * b \in Nat /\ (a + 1) * b = a * b + b
  OBVIOUS
<1>2. m - a - 1 \in Nat
  OBVIOUS
<1>3. (m - a - 1) * b \in Nat
  BY <1>2
<1>4. (m - a - 1) * b = m * b - a * b - b
  OBVIOUS
<1> QED
  BY <1>1, <1>3, <1>4

-----------------------------------------------------------------------------
(* The inductive invariant holds initially and is preserved by every step. *)

\* main starts with no block built and no worker created (lines 96-105).
LEMMA InitInv == Init => IInv
<1> SUFFICES ASSUME Init PROVE IInv
  OBVIOUS
<1> USE SizeAssumption, LenType DEF Init, Origin, XY
<1>1. Origin \in Pixels
  BY DEF Pixels
<1>2. TypeOK
  BY <1>1, WidthAssumption DEF TypeOK, Block
<1>3. Built = {}
  BY DEF Built
<1>4. Done = {} /\ Cardinality(Done) = 0
  BY FS_EmptySet DEF Done
<1>5. LoopInv
  BY Geometry DEF LoopInv
<1>6. BlocksInv
  BY <1>3 DEF BlocksInv
<1>7. FrontierInv
  <2>1. y * BLOCK_HEIGHT = 0 /\ x * BLOCK_WIDTH = 0
    BY Geometry
  <2> QED
    BY <1>3, <2>1 DEF FrontierInv, Pixels
<1>8. CoverInv /\ JoinInv
  BY DEF CoverInv, JoinInv
<1>9. CounterInv
  BY <1>4 DEF CounterInv
<1>10. ClaimInv /\ FillInv
  BY DEF ClaimInv, FillInv
<1> QED
  BY <1>2, <1>5, <1>6, <1>7, <1>8, <1>9, <1>10 DEF IInv

\* The number of the block main builds next is in range, and the last one is
\* the last block of the last row.
LEMMA BlockNumber ==
  ASSUME NEW a \in Nat, NEW b \in Nat, a < X_BLOCKS, b < Y_BLOCKS
  PROVE  /\ b * X_BLOCKS + a \in 0 .. BLOCKS_LEN - 1
         /\ (b + 1) * X_BLOCKS = b * X_BLOCKS + X_BLOCKS
         /\ a + 1 >= X_BLOCKS /\ b + 1 >= Y_BLOCKS => b * X_BLOCKS + a = BLOCKS_LEN - 1
<1>1. X_BLOCKS \in Nat /\ Y_BLOCKS \in Nat
  BY Geometry
<1>2. BLOCKS_LEN = Y_BLOCKS * X_BLOCKS
  BY <1>1 DEF BLOCKS_LEN
<1>3. /\ b * X_BLOCKS \in Nat /\ Y_BLOCKS * X_BLOCKS \in Nat
      /\ b * X_BLOCKS + X_BLOCKS <= Y_BLOCKS * X_BLOCKS
      /\ (b + 1) * X_BLOCKS = b * X_BLOCKS + X_BLOCKS
  BY <1>1, MulBound
<1>4. CASE a + 1 >= X_BLOCKS /\ b + 1 >= Y_BLOCKS
  <2>1. b + 1 = Y_BLOCKS /\ a + 1 = X_BLOCKS
    BY <1>1, <1>4
  <2> QED
    BY <1>1, <1>2, <1>3, <2>1
<1>5. CASE ~(a + 1 >= X_BLOCKS /\ b + 1 >= Y_BLOCKS)
  BY <1>1, <1>2, <1>3, <1>5
<1> QED
  BY <1>4, <1>5

\* Outside main's building loops the geometry is what it was.
LEMMA GeometryKept ==
  ASSUME IInv, blocks' = blocks, pc # "build", pc' # "build"
  PROVE  BlocksInv' /\ FrontierInv' /\ CoverInv' /\ Built' = Built
<1>1. Built' = Built
  BY DEF Built
<1> QED
  BY <1>1 DEF IInv, BlocksInv, FrontierInv, CoverInv

\* Starting a worker (lines 126-130): it holds no block yet.
LEMMA CreateStep ==
  ASSUME IInv, Create PROVE IInv'
<1> USE SizeAssumption DEF IInv, Create, Threads
<1>1. TypeOK'
  <2>1. status' \in [Threads -> {"none", "failed", "fetch", "write", "done"}]
    BY DEF TypeOK
  <2>2. n' \in Nat /\ pc' \in {"create", "join"}
    BY DEF TypeOK
  <2> QED
    BY <2>1, <2>2 DEF TypeOK
<1>2. LoopInv'
  BY DEF LoopInv, TypeOK
<1>3. BlocksInv' /\ FrontierInv' /\ CoverInv'
  BY GeometryKept
<1>4. status[n] = "none" /\ n \in Threads
  BY DEF LoopInv, TypeOK
<1>5. \A t \in Threads : status'[t] \in {"write", "done"} <=> status[t] \in {"write", "done"}
  BY <1>4 DEF TypeOK
<1>6. \A t \in Threads : status[t] \in {"write", "done"} => status'[t] = status[t]
  BY <1>4 DEF TypeOK
<1>7. Done' = Done
  BY <1>5, <1>6 DEF Done
<1>8. CounterInv'
  BY <1>7 DEF CounterInv
<1>9. ClaimInv'
  BY <1>5, <1>6 DEF ClaimInv
<1>10. JoinInv'
  BY DEF JoinInv, LoopInv, TypeOK
<1>11. FillInv'
  BY <1>5, <1>6 DEF FillInv
<1> QED
  BY <1>1, <1>2, <1>3, <1>8, <1>9, <1>10, <1>11

\* Joining a worker (lines 131-133): it is done, and so are all before it.
LEMMA JoinStep ==
  ASSUME IInv, Join PROVE IInv'
<1> USE SizeAssumption DEF IInv, Join, Threads
<1>1. TypeOK'
  BY DEF TypeOK
<1>2. LoopInv'
  BY DEF LoopInv, TypeOK
<1>3. BlocksInv' /\ FrontierInv' /\ CoverInv'
  BY GeometryKept
<1>4. CounterInv'
  BY DEF CounterInv, Done
<1>5. ClaimInv' /\ FillInv'
  BY DEF ClaimInv, FillInv
<1>6. JoinInv'
  BY DEF JoinInv, LoopInv, TypeOK
<1> QED
  BY <1>1, <1>2, <1>3, <1>4, <1>5, <1>6

\* Printing (line 134) changes nothing but where main is.
LEMMA PrintStep ==
  ASSUME IInv, PrintBuffer PROVE IInv'
<1> USE DEF IInv, PrintBuffer
<1>1. TypeOK'
  BY DEF TypeOK
<1>2. LoopInv' /\ JoinInv'
  BY DEF LoopInv, JoinInv
<1>3. BlocksInv' /\ FrontierInv' /\ CoverInv'
  BY GeometryKept
<1>4. CounterInv'
  BY DEF CounterInv, Done
<1>5. ClaimInv' /\ FillInv'
  BY DEF ClaimInv, FillInv
<1> QED
  BY <1>1, <1>2, <1>3, <1>4, <1>5

\* What leaves all variables alone keeps the invariant.
LEMMA StutterStep ==
  ASSUME IInv, UNCHANGED vars PROVE IInv'
<1> USE DEF IInv, vars
<1>1. TypeOK' /\ LoopInv' /\ BlocksInv' /\ FrontierInv' /\ CoverInv'
  BY DEF TypeOK, LoopInv, BlocksInv, FrontierInv, CoverInv, Built
<1>2. CounterInv' /\ ClaimInv' /\ JoinInv' /\ FillInv'
  BY DEF CounterInv, ClaimInv, JoinInv, FillInv, Done
<1> QED
  BY <1>1, <1>2

\* Building a block (lines 104-125): it is sound, apart from the blocks built
\* before it, and moves the frontier of what they cover.
LEMMA BuildStep ==
  ASSUME IInv, Build PROVE IInv'
<1> DEFINE a == x * BLOCK_WIDTH
           b == y * BLOCK_HEIGHT
           new == BlockFrom(a, b)
<1> USE DEF IInv, Build
<1>1. /\ x \in Nat /\ y \in Nat /\ n \in 0 .. BLOCKS_LEN - 1 /\ BLOCKS_LEN \in Nat
      /\ x < X_BLOCKS /\ y < Y_BLOCKS /\ n = y * X_BLOCKS + x
      /\ Built = 0 .. n - 1
  BY BlockNumber, LenType DEF LoopInv, TypeOK, Built
<1>2. /\ a \in Nat /\ (x + 1) * BLOCK_WIDTH = a + BLOCK_WIDTH
      /\ a + BLOCK_WIDTH < BUFFER_WIDTH + BLOCK_WIDTH
      /\ x + 1 >= X_BLOCKS => a + BLOCK_WIDTH >= BUFFER_WIDTH
  <2>1. a + BLOCK_WIDTH <= X_BLOCKS * BLOCK_WIDTH
    BY <1>1, MulBound, Geometry
  <2>2. x + 1 >= X_BLOCKS => x + 1 = X_BLOCKS
    BY <1>1, Geometry
  <2> QED
    BY <1>1, <2>1, <2>2, MulBound, Geometry, SizeAssumption
<1>3. /\ b \in Nat /\ (y + 1) * BLOCK_HEIGHT = b + BLOCK_HEIGHT
      /\ b + BLOCK_HEIGHT < BUFFER_HEIGHT + BLOCK_HEIGHT
      /\ y + 1 >= Y_BLOCKS => b + BLOCK_HEIGHT >= BUFFER_HEIGHT
  <2>1. b + BLOCK_HEIGHT <= Y_BLOCKS * BLOCK_HEIGHT
    BY <1>1, MulBound, Geometry
  <2>2. y + 1 >= Y_BLOCKS => y + 1 = Y_BLOCKS
    BY <1>1, Geometry
  <2> QED
    BY <1>1, <2>1, <2>2, MulBound, Geometry, SizeAssumption
<1>4. /\ new \in Block /\ new.start.x = a /\ new.start.y = b
      /\ new.end.x \in Nat /\ new.end.y \in Nat
      /\ new.end.x <= a + BLOCK_WIDTH /\ new.end.y <= b + BLOCK_HEIGHT
      /\ new.end.x = a + BLOCK_WIDTH \/ new.end.x = BUFFER_WIDTH
      /\ new.end.y = b + BLOCK_HEIGHT \/ new.end.y = BUFFER_HEIGHT
      /\ Sound(new)
  BY <1>2, <1>3, Geometry, SizeAssumption DEF BlockFrom, XY, Least, Block, Sound
<1>5. /\ blocks'[n] = new
      /\ \A k \in Built : blocks'[k] = blocks[k]
      /\ blocks' \in [0 .. BLOCKS_LEN - 1 -> Block]
      /\ \A k \in Built : blocks[k] \in Block
  BY <1>1, <1>4 DEF TypeOK
<1>6. Built' = Built \cup {n}
  <2>1. CASE pc' = "build"
    <3>1. n' = n + 1
      BY <2>1
    <3> QED
      BY <1>1, <2>1, <3>1 DEF Built
  <2>2. CASE pc' # "build"
    <3>1. ~(x + 1 < X_BLOCKS) /\ ~(y + 1 < Y_BLOCKS)
      BY <2>2
    <3>2. x + 1 >= X_BLOCKS /\ y + 1 >= Y_BLOCKS
      BY <1>1, <3>1, Geometry
    <3>3. n = BLOCKS_LEN - 1
      BY <1>1, <3>2, BlockNumber
    <3> QED
      BY <1>1, <2>2, <3>3 DEF Built
  <2> QED
    BY <2>1, <2>2
\* Every block so far ends above the new one or to the left of it.
<1>7. \A k \in Built : \/ blocks[k].end.y <= b
                       \/ blocks[k].end.y <= b + BLOCK_HEIGHT /\ blocks[k].end.x <= a
  BY DEF FrontierInv
<1>7a. \A k \in Built' :
        /\ blocks'[k].end.y <= b + BLOCK_HEIGHT
        /\ blocks'[k].end.y <= b \/ blocks'[k].end.x <= a + BLOCK_WIDTH
  <2> SUFFICES ASSUME NEW k \in Built'
               PROVE  /\ blocks'[k].end.y <= b + BLOCK_HEIGHT
                      /\ blocks'[k].end.y <= b \/ blocks'[k].end.x <= a + BLOCK_WIDTH
    OBVIOUS
  <2>1. CASE k = n
    BY <1>4, <1>5, <2>1
  <2>2. CASE k \in Built
    <3>1. blocks[k].end.x \in Nat /\ blocks[k].end.y \in Nat /\ blocks'[k] = blocks[k]
      BY <1>5, <2>2 DEF Block
    <3> QED
      BY <1>2, <1>3, <1>7, <2>2, <3>1, Geometry
  <2> QED
    BY <1>6, <2>1, <2>2
<1>8. BlocksInv'
  <2>1. \A k \in Built : Sound(blocks[k]) /\ Apart(blocks[k], new) /\ Apart(new, blocks[k])
    BY <1>4, <1>5, <1>7 DEF BlocksInv, Apart
  <2> QED
    BY <1>4, <1>5, <1>6, <2>1 DEF BlocksInv
<1>9. \A p \in Pixels :
        p.y < b \/ (p.y < b + BLOCK_HEIGHT /\ p.x < a + BLOCK_WIDTH)
          => \E k \in Built' : In(p, blocks'[k])
  <2> SUFFICES ASSUME NEW p \in Pixels,
                      p.y < b \/ (p.y < b + BLOCK_HEIGHT /\ p.x < a + BLOCK_WIDTH)
               PROVE  \E k \in Built' : In(p, blocks'[k])
    OBVIOUS
  <2>1. /\ p.x \in Int /\ 0 <= p.x /\ p.x < BUFFER_WIDTH
        /\ p.y \in Int /\ 0 <= p.y /\ p.y < BUFFER_HEIGHT
    BY SizeAssumption DEF Pixels
  <2>2. CASE p.y < b \/ p.x < a
    <3>1. \E k \in Built : In(p, blocks[k])
      BY <2>2 DEF FrontierInv
    <3> QED
      BY <1>5, <1>6, <3>1 DEF In
  <2>3. CASE ~(p.y < b \/ p.x < a)
    <3>1. In(p, new)
      BY <1>2, <1>3, <1>4, <2>1, <2>3 DEF In
    <3> QED
      BY <1>5, <1>6, <3>1
  <2> QED
    BY <2>2, <2>3
<1>10. LoopInv'
  <2>1. CASE x + 1 < X_BLOCKS
    BY <1>1, <2>1, Geometry DEF LoopInv
  <2>2. CASE ~(x + 1 < X_BLOCKS) /\ y + 1 < Y_BLOCKS
    <3>1. x + 1 = X_BLOCKS /\ (y + 1) * X_BLOCKS = y * X_BLOCKS + X_BLOCKS
      BY <1>1, <2>2, BlockNumber, Geometry
    <3>2. y * X_BLOCKS \in Int
      BY <1>1, Geometry
    <3> QED
      BY <1>1, <2>2, <3>1, <3>2, Geometry DEF LoopInv
  <2>3. CASE ~(x + 1 < X_BLOCKS) /\ ~(y + 1 < Y_BLOCKS)
    BY <2>3, SizeAssumption DEF LoopInv, ClaimInv
  <2> QED
    BY <2>1, <2>2, <2>3
<1>11. TypeOK'
  <2>1. x' \in Nat /\ y' \in Nat /\ n' \in Nat /\ pc' \in {"build", "create"}
    BY <1>1
  <2> QED
    BY <1>5, <2>1 DEF TypeOK
<1>12. FrontierInv'
  <2>1. CASE x + 1 < X_BLOCKS
    <3>1. x' * BLOCK_WIDTH = a + BLOCK_WIDTH /\ y' * BLOCK_HEIGHT = b
      BY <1>2, <2>1
    <3> QED
      BY <1>9, <1>7a, <3>1 DEF FrontierInv
  <2>2. CASE ~(x + 1 < X_BLOCKS) /\ y + 1 < Y_BLOCKS
    <3>1. x' * BLOCK_WIDTH = 0 /\ y' * BLOCK_HEIGHT = b + BLOCK_HEIGHT
      BY <1>3, <2>2, Geometry
    <3>2. a + BLOCK_WIDTH >= BUFFER_WIDTH
      BY <1>1, <1>2, <2>2, Geometry
    <3>3. \A p \in Pixels : p.x < a + BLOCK_WIDTH /\ 0 <= p.x /\ p.x \in Int /\ p.y \in Int
      BY <1>2, <3>2, Geometry, SizeAssumption DEF Pixels
    <3> QED
      BY <1>3, <1>9, <1>7a, <3>1, <3>3, Geometry DEF FrontierInv
  <2>3. CASE ~(x + 1 < X_BLOCKS) /\ ~(y + 1 < Y_BLOCKS)
    BY <2>3 DEF FrontierInv
  <2> QED
    BY <2>1, <2>2, <2>3
<1>13. CoverInv'
  <2> SUFFICES ASSUME pc' # "build", NEW p \in Pixels
               PROVE  \E k \in Built' : In(p, blocks'[k])
    BY DEF CoverInv
  <2>1. a + BLOCK_WIDTH >= BUFFER_WIDTH /\ b + BLOCK_HEIGHT >= BUFFER_HEIGHT
    BY <1>1, <1>2, <1>3, Geometry
  <2>2. p.x < a + BLOCK_WIDTH /\ p.y < b + BLOCK_HEIGHT
    BY <1>2, <1>3, <2>1, Geometry, SizeAssumption DEF Pixels
  <2> QED
    BY <1>9, <2>2
<1>14. INDEX = 0 /\ INDEX' = 0 /\ \A t \in Threads : status[t] = "none" /\ status'[t] = "none"
  BY DEF ClaimInv
<1>15. CounterInv'
  BY <1>14 DEF CounterInv, Done
<1>16. ClaimInv' /\ JoinInv'
  BY <1>14 DEF ClaimInv, JoinInv
<1>17. FillInv'
  BY <1>14 DEF FillInv
<1> QED
  BY <1>8, <1>10, <1>11, <1>12, <1>13, <1>15, <1>16, <1>17

\* While a worker still works, the counter has not been claimed too often: it
\* fits a u16.
LEMMA CounterFits ==
  ASSUME IInv, NEW t \in Threads, status[t] # "done"
  PROVE  /\ INDEX % U16 = INDEX /\ INDEX \in 0 .. U16 - 1
         /\ IsFiniteSet(Done) /\ Cardinality(Done) \in Nat
         /\ t \notin Done /\ Cardinality(Done \cup {t}) = Cardinality(Done) + 1
<1>1. IsFiniteSet(Threads) /\ Cardinality(Threads) = THREAD_CAP
  BY FS_Interval, SizeAssumption DEF Threads
<1>2. Done \subseteq Threads /\ t \notin Done /\ Done # Threads
  BY DEF Done
<1>3. IsFiniteSet(Done) /\ Cardinality(Done) \in Nat /\ Cardinality(Done) < THREAD_CAP
  BY <1>1, <1>2, FS_Subset, FS_CardinalityType
<1>4. Cardinality(Done \cup {t}) = Cardinality(Done) + 1
  BY <1>2, <1>3, FS_AddElement
<1>5. INDEX \in Nat /\ INDEX < U16
  BY <1>3, SizeAssumption, WidthAssumption, LenType DEF IInv, TypeOK, CounterInv
<1>6. INDEX % U16 = INDEX
  BY <1>5, WidthAssumption
<1> QED
  BY <1>2, <1>3, <1>4, <1>5, <1>6, WidthAssumption

\* A claim (lines 64-72): the block is nobody else's, or the worker is done.
LEMMA FetchStep ==
  ASSUME IInv, NEW t \in Threads, Fetch(t) PROVE IInv'
<1> USE DEF IInv, Fetch
<1>1. pc # "build" /\ Built = 0 .. BLOCKS_LEN - 1 /\ BLOCKS_LEN \in Nat \ {0} /\ INDEX \in Nat
  BY LenType DEF ClaimInv, Built, TypeOK
<1>2. /\ INDEX % U16 = INDEX /\ INDEX \in 0 .. U16 - 1
      /\ Cardinality(Done) \in Nat /\ Cardinality(Done \cup {t}) = Cardinality(Done) + 1
  BY CounterFits
<1>2a. /\ INDEX' = INDEX + 1 /\ INDEX <= BLOCKS_LEN + Cardinality(Done)
       /\ \A u \in Done : BLOCKS_LEN <= INDEX
  BY DEF CounterInv
<1>3. BlocksInv' /\ FrontierInv' /\ CoverInv'
  BY <1>1, GeometryKept
<1>4. LoopInv' /\ JoinInv'
  BY <1>1 DEF LoopInv, JoinInv, TypeOK
<1>5. CASE BLOCKS_LEN <= INDEX
  <2>1. status' = [status EXCEPT ![t] = "done"] /\ at' = at /\ index' = [index EXCEPT ![t] = INDEX]
    BY <1>2, <1>5
  <2>2. TypeOK'
    BY <1>2, <2>1 DEF TypeOK
  <2>3. Done' = Done \cup {t}
    BY <2>1 DEF Done, TypeOK
  <2>4. CounterInv'
    BY <1>1, <1>2, <1>2a, <1>5, <2>3 DEF CounterInv
  <2>5. \A u \in Threads : status'[u] = "write" <=> status[u] = "write" /\ u # t
    BY <2>1 DEF TypeOK
  <2>6. ClaimInv'
    BY <1>1, <2>1, <2>5 DEF ClaimInv, TypeOK
  <2>7. FillInv'
    BY <1>1, <1>5, <2>1, <2>5 DEF FillInv, TypeOK
  <2> QED
    BY <1>3, <1>4, <2>2, <2>4, <2>6, <2>7
<1>6. CASE INDEX < BLOCKS_LEN
  <2> DEFINE b == blocks[INDEX]
  <2>1. /\ status' = [status EXCEPT ![t] = "write"]
        /\ at' = [at EXCEPT ![t] = b.start]
        /\ index' = [index EXCEPT ![t] = INDEX]
    <3>1. ~(BLOCKS_LEN <= INDEX)
      BY <1>1, <1>6
    <3> QED
      BY <1>2, <3>1
  <2>2. b \in Block /\ Sound(b)
    BY <1>1, <1>6 DEF BlocksInv, TypeOK
  <2>3. b.start \in Pixels /\ In(b.start, b)
    BY <2>2, SizeAssumption DEF Block, Sound, Pixels, In
  <2>4. TypeOK'
    BY <1>2, <2>1, <2>3 DEF TypeOK
  <2>5. \A u \in Threads :
          /\ status'[u] = IF u = t THEN "write" ELSE status[u]
          /\ at'[u] = IF u = t THEN b.start ELSE at[u]
          /\ index'[u] = IF u = t THEN INDEX ELSE index[u]
    BY <2>1 DEF TypeOK
  <2>6. Done' = Done
    BY <2>5 DEF Done
  <2>7. CounterInv'
    BY <1>1, <1>2, <1>2a, <1>6, <2>6 DEF CounterInv
  <2>8. ClaimInv'
    BY <1>1, <1>6, <2>3, <2>5 DEF ClaimInv, TypeOK
  <2>9. FillInv'
    <3>1. \A p \in Pixels : buffer'[p] # 0 => pc' # "build" /\ In(p, blocks'[buffer'[p]])
      BY DEF FillInv
    <3>2. ASSUME NEW k \in 0 .. BLOCKS_LEN - 1, k < INDEX',
                 \A u \in Threads : ~(status'[u] = "write" /\ index'[u] = k),
                 NEW p \in Pixels, In(p, blocks[k])
          PROVE  buffer'[p] = k
      <4>1. k # INDEX /\ k < INDEX
        BY <1>1, <2>5, <3>2
      <4>2. \A u \in Threads : ~(status[u] = "write" /\ index[u] = k)
        BY <2>5, <3>2
      <4> QED
        BY <3>2, <4>1, <4>2 DEF FillInv
    <3>3. ASSUME NEW u \in Threads, status'[u] = "write",
                 NEW p \in Pixels, In(p, blocks[index'[u]]), Earlier(p, at'[u])
          PROVE  buffer'[p] = index'[u]
      <4>1. CASE u = t
        <5>1. In(p, b) /\ Earlier(p, b.start)
          BY <2>5, <3>3, <4>1
        <5> QED
          BY <2>2, <5>1, SizeAssumption DEF In, Earlier, Pixels, Block
      <4>2. CASE u # t
        BY <2>5, <3>3, <4>2 DEF FillInv
      <4> QED
        BY <4>1, <4>2
    <3> QED
      BY <3>1, <3>2, <3>3 DEF FillInv
  <2> QED
    BY <1>3, <1>4, <2>4, <2>7, <2>8, <2>9
<1> QED
  BY <1>1, <1>5, <1>6

\* Two blocks that share a pixel are the same block.
LEMMA SharedPixel ==
  ASSUME IInv, pc # "build",
         NEW k \in 0 .. BLOCKS_LEN - 1, NEW l \in 0 .. BLOCKS_LEN - 1,
         NEW p \in Pixels, In(p, blocks[k]), In(p, blocks[l])
  PROVE  k = l
<1>1. k # l => Apart(blocks[k], blocks[l])
  BY DEF IInv, BlocksInv, Built
<1>2. blocks[k] \in Block /\ blocks[l] \in Block
  BY DEF IInv, TypeOK
<1>3. p.x \in Int /\ p.y \in Int
  BY SizeAssumption DEF Pixels
<1> QED
  BY <1>1, <1>2, <1>3 DEF Apart, In, Block

\* The worker's view of one step of Write: it moves to the next pixel of its
\* block, or has filled the block.
LEMMA WriteMoves ==
  ASSUME IInv, NEW t \in Threads, Write(t)
  PROVE  LET b == blocks[index[t]] IN
         /\ pc # "build" /\ index[t] \in 0 .. BLOCKS_LEN - 1 /\ index[t] < INDEX
         /\ INDEX \in Nat /\ at[t] \in Pixels /\ In(at[t], b)
         /\ \A p \in Pixels : buffer'[p] = IF p = at[t] THEN index[t] ELSE buffer[p]
         /\ \A u \in Threads : u # t => status'[u] = status[u] /\ at'[u] = at[u]
         /\ \/ /\ status' = status /\ at' \in [Threads -> Pixels] /\ In(at'[t], b)
               /\ \A p \in Pixels : Earlier(p, at'[t]) /\ In(p, b) => Earlier(p, at[t]) \/ p = at[t]
            \/ /\ status' = [status EXCEPT ![t] = "fetch"] /\ at' = at
               /\ \A p \in Pixels : In(p, b) => Earlier(p, at[t]) \/ p = at[t]
<1> DEFINE b == blocks[index[t]]
<1> USE DEF IInv, Write
<1>1. /\ status[t] = "write" /\ pc # "build" /\ index[t] \in 0 .. BLOCKS_LEN - 1
      /\ index[t] < INDEX /\ INDEX \in Nat /\ at[t] \in Pixels /\ In(at[t], b)
  BY LenType DEF ClaimInv, TypeOK
<1>2. b \in Block /\ Sound(b)
  BY <1>1 DEF TypeOK, BlocksInv, Built
<1>3. \A p \in Pixels : p.x \in Nat /\ p.y \in Nat
  BY SizeAssumption DEF Pixels
<1>4. \A p \in Pixels : p.x = at[t].x /\ p.y = at[t].y => p = at[t]
  BY <1>1 DEF Pixels
<1>5. \A p \in Pixels : buffer'[p] = IF p = at[t] THEN index[t] ELSE buffer[p]
  BY DEF TypeOK
<1>6. \A u \in Threads : u # t => status'[u] = status[u] /\ at'[u] = at[u]
  BY DEF TypeOK
<1>7. CASE at[t].x + 1 < b.end.x
  <2> DEFINE q == XY(at[t].x + 1, at[t].y)
  <2>1. status' = status /\ at' = [at EXCEPT ![t] = q]
    BY <1>7
  <2>2. q \in Pixels /\ q.x = at[t].x + 1 /\ q.y = at[t].y
    BY <1>1, <1>2, <1>3, <1>7, SizeAssumption DEF Pixels, XY, Block, Sound
  <2>3. at'[t] = q /\ at' \in [Threads -> Pixels]
    BY <2>1, <2>2 DEF TypeOK
  <2>4. In(q, b)
    BY <1>1, <1>2, <1>3, <1>7, <2>2 DEF In, Block
  <2>5. \A p \in Pixels : Earlier(p, q) => Earlier(p, at[t]) \/ p = at[t]
    BY <1>1, <1>3, <1>4, <2>2 DEF Earlier
  <2> QED
    BY <1>1, <1>5, <1>6, <2>1, <2>3, <2>4, <2>5
<1>8. CASE ~(at[t].x + 1 < b.end.x) /\ at[t].y + 1 < b.end.y
  <2> DEFINE q == XY(b.start.x, at[t].y + 1)
  <2>1. status' = status /\ at' = [at EXCEPT ![t] = q]
    BY <1>8
  <2>2. q \in Pixels /\ q.x = b.start.x /\ q.y = at[t].y + 1
    BY <1>1, <1>2, <1>3, <1>8, SizeAssumption DEF Pixels, XY, Block, Sound
  <2>3. at'[t] = q /\ at' \in [Threads -> Pixels]
    BY <2>1, <2>2 DEF TypeOK
  <2>4. In(q, b)
    BY <1>1, <1>2, <1>3, <1>8, <2>2 DEF In, Block, Sound
  <2>5. \A p \in Pixels : Earlier(p, q) /\ In(p, b) => Earlier(p, at[t]) \/ p = at[t]
    BY <1>1, <1>2, <1>3, <1>4, <1>8, <2>2 DEF Earlier, In, Block
  <2> QED
    BY <1>1, <1>5, <1>6, <2>1, <2>3, <2>4, <2>5
<1>9. CASE ~(at[t].x + 1 < b.end.x) /\ ~(at[t].y + 1 < b.end.y)
  <2>1. status' = [status EXCEPT ![t] = "fetch"] /\ at' = at
    BY <1>9
  <2>2. \A p \in Pixels : In(p, b) => Earlier(p, at[t]) \/ p = at[t]
    BY <1>1, <1>2, <1>3, <1>4, <1>9 DEF Earlier, In, Block
  <2> QED
    BY <1>1, <1>5, <1>6, <2>1, <2>2
<1> QED
  BY <1>7, <1>8, <1>9

\* One store of set_buffer (lines 54-62): the elements the worker has passed hold
\* the number of its block, and no other block loses one.
LEMMA WriteStep ==
  ASSUME IInv, NEW t \in Threads, Write(t) PROVE IInv'
<1> USE DEF IInv
<1> DEFINE b == blocks[index[t]]
<1>1. UNCHANGED <<INDEX, blocks, index, pc, x, y, n>> /\ status[t] = "write"
  BY DEF Write
<1>2. /\ pc # "build" /\ index[t] \in 0 .. BLOCKS_LEN - 1 /\ index[t] < INDEX
      /\ INDEX \in Nat /\ at[t] \in Pixels /\ In(at[t], b)
      /\ \A p \in Pixels : buffer'[p] = IF p = at[t] THEN index[t] ELSE buffer[p]
      /\ \A u \in Threads : u # t => status'[u] = status[u] /\ at'[u] = at[u]
      /\ \/ /\ status' = status /\ at' \in [Threads -> Pixels] /\ In(at'[t], b)
            /\ \A p \in Pixels : Earlier(p, at'[t]) /\ In(p, b) => Earlier(p, at[t]) \/ p = at[t]
         \/ /\ status' = [status EXCEPT ![t] = "fetch"] /\ at' = at
            /\ \A p \in Pixels : In(p, b) => Earlier(p, at[t]) \/ p = at[t]
  BY WriteMoves
<1>3. /\ status' \in [Threads -> {"none", "failed", "fetch", "write", "done"}]
      /\ at' \in [Threads -> Pixels] /\ status'[t] \in {"write", "fetch"}
  BY <1>1, <1>2 DEF TypeOK
<1>4. buffer' \in [Pixels -> 0 .. BLOCKS_LEN - 1]
  BY <1>2 DEF Write, TypeOK
<1>5. TypeOK'
  BY <1>1, <1>3, <1>4 DEF TypeOK
<1>6. BlocksInv' /\ FrontierInv' /\ CoverInv'
  BY <1>1, <1>2, GeometryKept
<1>7. LoopInv' /\ JoinInv'
  BY <1>1, <1>2, <1>3 DEF LoopInv, JoinInv
<1>8. \A u \in Threads : status'[u] = "done" <=> status[u] = "done"
  BY <1>1, <1>2, <1>3
<1>9. CounterInv'
  <2>1. Done' = Done
    BY <1>8 DEF Done
  <2> QED
    BY <1>1, <2>1 DEF CounterInv
<1>10. \A u \in Threads : status'[u] = "write" => status[u] = "write"
  BY <1>1, <1>2
<1>11. ClaimInv'
  <2>1. \A u \in Threads : status'[u] = "write" => In(at'[u], blocks[index[u]])
    BY <1>2, <1>3, <1>10 DEF ClaimInv, TypeOK
  <2> QED
    BY <1>1, <1>2, <1>10, <2>1 DEF ClaimInv
<1>12. FillInv'
  <2>1. ASSUME NEW p \in Pixels, buffer'[p] # 0
        PROVE  pc' # "build" /\ In(p, blocks'[buffer'[p]])
    BY <1>1, <1>2, <2>1 DEF FillInv
  <2>2. ASSUME NEW k \in 0 .. BLOCKS_LEN - 1, k < INDEX',
               \A u \in Threads : ~(status'[u] = "write" /\ index'[u] = k),
               NEW p \in Pixels, In(p, blocks'[k])
        PROVE  buffer'[p] = k
    <3>1. CASE k = index[t]
      <4>1. Earlier(p, at[t]) \/ p = at[t]
        BY <1>1, <1>2, <2>2, <3>1
      <4>2. Earlier(p, at[t]) => buffer[p] = k
        BY <1>1, <2>2, <3>1 DEF FillInv
      <4> QED
        BY <1>2, <3>1, <4>1, <4>2
    <3>2. CASE k # index[t]
      <4>1. p # at[t]
        BY <1>1, <1>2, <2>2, <3>2, SharedPixel
      <4>2. \A u \in Threads : ~(status[u] = "write" /\ index[u] = k)
        BY <1>1, <1>2, <2>2, <3>2
      <4>3. buffer[p] = k
        BY <1>1, <2>2, <4>2 DEF FillInv
      <4> QED
        BY <1>2, <4>1, <4>3
    <3> QED
      BY <3>1, <3>2
  <2>3. ASSUME NEW u \in Threads, status'[u] = "write",
               NEW p \in Pixels, In(p, blocks'[index'[u]]), Earlier(p, at'[u])
        PROVE  buffer'[p] = index'[u]
    <3>1. CASE u = t
      <4>1. Earlier(p, at[t]) \/ p = at[t]
        BY <1>1, <1>2, <2>3, <3>1
      <4>2. Earlier(p, at[t]) => buffer[p] = index[t]
        BY <1>1, <2>3, <3>1 DEF FillInv
      <4> QED
        BY <1>1, <1>2, <3>1, <4>1, <4>2
    <3>2. CASE u # t
      <4>1. /\ status[u] = "write" /\ at'[u] = at[u] /\ index[u] # index[t]
            /\ index[u] \in 0 .. BLOCKS_LEN - 1
        BY <1>1, <1>2, <2>3, <3>2, LenType DEF ClaimInv, TypeOK
      <4>2. p # at[t]
        BY <1>1, <1>2, <2>3, <4>1, SharedPixel
      <4>3. buffer[p] = index[u]
        BY <1>1, <2>3, <4>1 DEF FillInv
      <4> QED
        BY <1>1, <1>2, <4>2, <4>3
    <3> QED
      BY <3>1, <3>2
  <2> QED
    BY <2>1, <2>2, <2>3 DEF FillInv
<1> QED
  BY <1>5, <1>6, <1>7, <1>9, <1>11, <1>12

\* The invariant is inductive: one case for each action.
LEMMA Inductive == IInv /\ [Next]_vars => IInv'
<1> SUFFICES ASSUME IInv, [Next]_vars PROVE IInv'
  OBVIOUS
<1>1. CASE Build
  BY <1>1, BuildStep
<1>2. CASE Create
  BY <1>2, CreateStep
<1>3. CASE Join
  BY <1>3, JoinStep
<1>4. CASE PrintBuffer
  BY <1>4, PrintStep
<1>5. CASE \E t \in Threads : Fetch(t)
  BY <1>5, FetchStep
<1>6. CASE \E t \in Threads : Write(t)
  BY <1>6, WriteStep
<1>7. CASE UNCHANGED vars
  BY <1>7, StutterStep
<1> QED
  BY <1>1, <1>2, <1>3, <1>4, <1>5, <1>6, <1>7 DEF Next, Main, Worker

\* The inductive invariant holds in every reachable state.
THEOREM Invariant == Spec => []IInv
  BY InitInv, Inductive, PTL DEF Spec

-----------------------------------------------------------------------------
(* What follows from it.                                                   *)

\* Type correctness: in particular a worker only ever writes inside the buffer
\* (lines 54-60), for every buffer and block size.
THEOREM TypeCorrect == Spec => []TypeOK
<1>1. IInv => TypeOK
  BY DEF IInv
<1> QED
  BY <1>1, Invariant, PTL

\* Two workers are never about to store to the same element (line 58): the
\* atomic counter hands every block to one worker, and blocks do not overlap.
THEOREM RaceFree == Spec => []NoRace
<1>1. IInv => NoRace
  <2> SUFFICES ASSUME IInv, NEW t \in Threads, NEW u \in Threads, t # u,
                      status[t] = "write", status[u] = "write", at[t] = at[u]
               PROVE  FALSE
    BY DEF NoRace
  <2>1. /\ pc # "build" /\ at[t] \in Pixels
        /\ index[t] \in 0 .. BLOCKS_LEN - 1 /\ index[u] \in 0 .. BLOCKS_LEN - 1
        /\ In(at[t], blocks[index[t]]) /\ In(at[t], blocks[index[u]])
        /\ index[t] # index[u]
    BY LenType DEF IInv, ClaimInv, TypeOK
  <2> QED
    BY <2>1, SharedPixel
<1> QED
  BY <1>1, Invariant, PTL

\* When main prints the buffer (line 134), every element holds the number of
\* the block it lies in: no block was skipped and none was left half full.
THEOREM PrintedRight == Spec => []Printed
<1>1. IInv => Printed
  <2> SUFFICES ASSUME IInv, pc = "print", NEW p \in Pixels
               PROVE  In(p, blocks[buffer[p]])
    BY DEF Printed
  <2>1. \A t \in Threads : status[t] = "done"
    BY DEF IInv, JoinInv
  <2>2. 0 \in Done
    BY <2>1, SizeAssumption DEF Done, Threads
  <2>3. BLOCKS_LEN <= INDEX /\ INDEX \in Nat
    BY <2>2 DEF IInv, CounterInv, TypeOK
  <2>4. PICK k \in 0 .. BLOCKS_LEN - 1 : In(p, blocks[k])
    BY DEF IInv, CoverInv, Built
  <2>5. k < INDEX
    BY <2>3, LenType
  <2>6. buffer[p] = k
    BY <2>1, <2>4, <2>5 DEF IInv, FillInv
  <2> QED
    BY <2>4, <2>6
<1> QED
  BY <1>1, Invariant, PTL

\* A block number once stored is never overwritten by another one (line 58).
THEOREM NeverOverwritten == Spec => WrittenOnce
<1>1. IInv /\ [Next]_vars => [\A p \in Pixels : buffer[p] # 0 => buffer'[p] = buffer[p]]_vars
  <2> SUFFICES ASSUME IInv, [Next]_vars, NEW p \in Pixels, buffer[p] # 0
               PROVE  buffer'[p] = buffer[p]
    OBVIOUS
  <2>1. CASE \E t \in Threads : Write(t)
    <3>1. PICK t \in Threads : Write(t)
      BY <2>1
    <3>2. /\ pc # "build" /\ index[t] \in 0 .. BLOCKS_LEN - 1
          /\ In(at[t], blocks[index[t]])
          /\ buffer'[p] = IF p = at[t] THEN index[t] ELSE buffer[p]
      BY <3>1, WriteMoves
    <3>3. buffer[p] \in 0 .. BLOCKS_LEN - 1 /\ In(p, blocks[buffer[p]])
      BY DEF IInv, TypeOK, FillInv
    <3> QED
      BY <3>2, <3>3, SharedPixel
  <2>2. CASE ~\E t \in Threads : Write(t)
    BY <2>2 DEF Next, Main, Worker, Build, Create, Join, PrintBuffer, Fetch, vars
  <2> QED
    BY <2>1, <2>2
<1> QED
  BY <1>1, Invariant, PTL DEF Spec, WrittenOnce

=============================================================================

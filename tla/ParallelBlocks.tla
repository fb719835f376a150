--------------------------- MODULE ParallelBlocks ---------------------------
(***************************************************************************)
(* src/parallel_blocks.c: main cuts a BUFFER_WIDTH x BUFFER_HEIGHT buffer  *)
(* into blocks, starts THREAD_CAP workers that claim block numbers from the*)
(* atomic counter INDEX and fill their blocks with the number they claimed,*)
(* joins the workers and prints the buffer.                                *)
(*                                                                         *)
(* A worker writes one element per step, so two workers that were ever     *)
(* given overlapping blocks would be seen racing.  pthread_create's result *)
(* is not checked by main: a call that fails leaves threads[i] zero, and   *)
(* joining that is undefined ("undefined" ends the program).               *)
(***************************************************************************)
EXTENDS Integers, FiniteSets

CONSTANTS
  BUFFER_WIDTH, BUFFER_HEIGHT,
  N,              \* a block is 1/N of the buffer wide and high, rounded down
  THREAD_CAP,
  U16             \* the number of values of a u16

Threads == 0 .. THREAD_CAP - 1
BLOCK_WIDTH == BUFFER_WIDTH \div N
BLOCK_HEIGHT == BUFFER_HEIGHT \div N
X_BLOCKS == (BUFFER_WIDTH + BLOCK_WIDTH - 1) \div BLOCK_WIDTH
Y_BLOCKS == (BUFFER_HEIGHT + BLOCK_HEIGHT - 1) \div BLOCK_HEIGHT
BLOCKS_LEN == X_BLOCKS * Y_BLOCKS

ASSUME SizeAssumption ==
  /\ N \in Nat \ {0} /\ THREAD_CAP \in Nat \ {0}
  /\ BUFFER_WIDTH \in Nat /\ N <= BUFFER_WIDTH
  /\ BUFFER_HEIGHT \in Nat /\ N <= BUFFER_HEIGHT

\* main refuses more than BLOCKS_CAP = 512 blocks, so a u16 counts them and the
\* one extra claim each worker makes with room to spare.
ASSUME WidthAssumption == U16 \in Nat /\ BLOCKS_LEN + THREAD_CAP <= U16

VARIABLES
  INDEX,      \* the shared counter
  blocks,     \* memory->blocks
  buffer,     \* memory->buffer, one element per pixel
  status,     \* per worker: "none", "failed", "fetch", "write" or "done"
  index,      \* per worker: the block it claimed
  at,         \* per worker: the pixel it writes next
  pc,         \* main: "build", "create", "join", "print", "exit", "undefined"
  x, y, n     \* main's loop counters

vars == <<INDEX, blocks, buffer, status, index, at, pc, x, y, n>>

Pixels == [x : 0 .. BUFFER_WIDTH - 1, y : 0 .. BUFFER_HEIGHT - 1]
XY(a, b) == [x |-> a, y |-> b]
Origin == XY(0, 0)

Init ==
  /\ INDEX = 0
  /\ blocks = [k \in 0 .. BLOCKS_LEN - 1 |-> [start |-> Origin, end |-> Origin]]
  /\ buffer = [p \in Pixels |-> 0]
  /\ status = [t \in Threads |-> "none"]
  /\ index = [t \in Threads |-> 0]
  /\ at = [t \in Threads |-> Origin]
  /\ pc = "build" /\ x = 0 /\ y = 0 /\ n = 0

Least(a, b) == IF a < b THEN a ELSE b

\* Fault: a block is one column too wide.
BlockWide(a, b) ==
  [start |-> XY(a, b),
   end |-> XY(Least(a + BLOCK_WIDTH + 1, BUFFER_WIDTH), Least(b + BLOCK_HEIGHT, BUFFER_HEIGHT))]

\* The block whose upper left corner is (a, b).
BlockFrom(a, b) ==
  [start |-> XY(a, b),
   end |-> XY(Least(a + BLOCK_WIDTH, BUFFER_WIDTH), Least(b + BLOCK_HEIGHT, BUFFER_HEIGHT))]

\* One iteration of main's loops over the columns and rows of blocks.
Build ==
  /\ pc = "build"
  /\ blocks' = [blocks EXCEPT ![n] = BlockFrom(x * BLOCK_WIDTH, y * BLOCK_HEIGHT)]
  /\ IF x + 1 < X_BLOCKS
     THEN x' = x + 1 /\ n' = n + 1 /\ UNCHANGED <<y, pc>>
     ELSE IF y + 1 < Y_BLOCKS
     THEN x' = 0 /\ y' = y + 1 /\ n' = n + 1 /\ UNCHANGED pc
     ELSE x' = 0 /\ y' = y + 1 /\ n' = 0 /\ pc' = "create"
  /\ UNCHANGED <<INDEX, buffer, status, index, at>>

\* pthread_create for worker n succeeds or fails; main goes on either way.
Create ==
  /\ pc = "create"
  /\ \E s \in {"fetch", "failed"} : status' = [status EXCEPT ![n] = s]
  /\ IF n + 1 < THREAD_CAP THEN n' = n + 1 /\ UNCHANGED pc ELSE n' = 0 /\ pc' = "join"
  /\ UNCHANGED <<INDEX, blocks, buffer, index, at, x, y>>

Join ==
  /\ pc = "join" /\ status[n] \in {"done", "failed"}
  /\ IF status[n] = "failed" THEN pc' = "undefined" /\ UNCHANGED n
     ELSE IF n + 1 < THREAD_CAP THEN n' = n + 1 /\ UNCHANGED pc
     ELSE n' = 0 /\ pc' = "print"
  /\ UNCHANGED <<INDEX, blocks, buffer, status, index, at, x, y>>

\* main prints the buffer, frees it and returns.
PrintBuffer ==
  /\ pc = "print" /\ pc' = "exit"
  /\ UNCHANGED <<INDEX, blocks, buffer, status, index, at, x, y, n>>

Alive == pc \notin {"exit", "undefined"}

\* Fault: the counter is read and written in two steps; another worker's claim
\* in between is lost.
FetchTorn(t) ==
  /\ Alive /\ status[t] = "fetch"
  /\ \E claim \in {INDEX} \cup {INDEX - 1} :
       /\ claim >= 0
       /\ index' = [index EXCEPT ![t] = claim]
       /\ INDEX' = claim + 1
       /\ IF BLOCKS_LEN <= claim
          THEN status' = [status EXCEPT ![t] = "done"] /\ UNCHANGED at
          ELSE /\ status' = [status EXCEPT ![t] = "write"]
               /\ at' = [at EXCEPT ![t] = blocks[claim].start]
  /\ UNCHANGED <<blocks, buffer, pc, x, y, n>>

\* Fault: the worker that finds no block left goes round its loop again.
FetchForever(t) ==
  /\ Alive /\ status[t] = "fetch"
  /\ LET claim == INDEX % U16
     IN  IF BLOCKS_LEN <= claim
         THEN UNCHANGED <<INDEX, index, status, at>>
         ELSE /\ index' = [index EXCEPT ![t] = claim]
              /\ INDEX' = INDEX + 1
              /\ status' = [status EXCEPT ![t] = "write"]
              /\ at' = [at EXCEPT ![t] = blocks[claim].start]
  /\ UNCHANGED <<blocks, buffer, pc, x, y, n>>

\* A worker claims the next block, or finds that there is none and returns.
Fetch(t) ==
  /\ Alive /\ status[t] = "fetch"
  /\ LET claim == INDEX % U16
     IN  /\ index' = [index EXCEPT ![t] = claim]
         /\ IF BLOCKS_LEN <= claim
            THEN status' = [status EXCEPT ![t] = "done"] /\ UNCHANGED at
            ELSE /\ status' = [status EXCEPT ![t] = "write"]
                 /\ at' = [at EXCEPT ![t] = blocks[claim].start]
  /\ INDEX' = INDEX + 1
  /\ UNCHANGED <<blocks, buffer, pc, x, y, n>>

\* Fault: the worker stops one row early.
WriteShort(t) ==
  /\ Alive /\ status[t] = "write"
  /\ buffer' = [buffer EXCEPT ![at[t]] = index[t]]
  /\ LET b == blocks[index[t]]
     IN  IF at[t].x + 1 < b.end.x
         THEN at' = [at EXCEPT ![t] = XY(@.x + 1, @.y)] /\ UNCHANGED status
         ELSE IF at[t].y + 2 < b.end.y
         THEN at' = [at EXCEPT ![t] = XY(b.start.x, @.y + 1)] /\ UNCHANGED status
         ELSE status' = [status EXCEPT ![t] = "fetch"] /\ UNCHANGED at
  /\ UNCHANGED <<INDEX, blocks, index, pc, x, y, n>>

\* One iteration of set_buffer's inner loop.
Write(t) ==
  /\ Alive /\ status[t] = "write"
  /\ buffer' = [buffer EXCEPT ![at[t]] = index[t]]
  /\ LET b == blocks[index[t]]
     IN  IF at[t].x + 1 < b.end.x
         THEN at' = [at EXCEPT ![t] = XY(@.x + 1, @.y)] /\ UNCHANGED status
         ELSE IF at[t].y + 1 < b.end.y
         THEN at' = [at EXCEPT ![t] = XY(b.start.x, @.y + 1)] /\ UNCHANGED status
         ELSE status' = [status EXCEPT ![t] = "fetch"] /\ UNCHANGED at
  /\ UNCHANGED <<INDEX, blocks, index, pc, x, y, n>>

Main == Build \/ Create \/ Join \/ PrintBuffer
Worker(t) == Fetch(t) \/ Write(t)

Next == Main \/ \E t \in Threads : Worker(t)

\* Each thread is scheduled by the kernel as long as it can run.
Spec == Init /\ [][Next]_vars /\ WF_vars(Main) /\ \A t \in Threads : WF_vars(Worker(t))

-----------------------------------------------------------------------------
Block == [start : [x : Nat, y : Nat], end : [x : Nat, y : Nat]]

\* Type invariant; a worker that is writing is inside the buffer.
TypeOK ==
  /\ INDEX \in Nat
  /\ blocks \in [0 .. BLOCKS_LEN - 1 -> Block]
  /\ buffer \in [Pixels -> 0 .. BLOCKS_LEN - 1]
  /\ status \in [Threads -> {"none", "failed", "fetch", "write", "done"}]
  /\ index \in [Threads -> 0 .. U16 - 1]
  /\ at \in [Threads -> Pixels]
  /\ pc \in {"build", "create", "join", "print", "exit", "undefined"}
  /\ x \in Nat /\ y \in Nat /\ n \in Nat

\* Two workers never write the same element of the buffer, so the plain stores
\* of set_buffer (line 54) do not race.
NoRace == \A t, u \in Threads :
  (t # u /\ status[t] = "write" /\ status[u] = "write") => at[t] # at[u]

In(p, b) == b.start.x <= p.x /\ p.x < b.end.x /\ b.start.y <= p.y /\ p.y < b.end.y

\* What main prints (line 134): every element holds the number of the block it
\* lies in, whatever the interleaving, also when BLOCK_WIDTH does not divide
\* the width, as with 17 and 4.
Printed == pc = "print" => \A p \in Pixels : In(p, blocks[buffer[p]])

\* An element that has received a block number never changes again.
WrittenOnce == [][ \A p \in Pixels : buffer[p] # 0 => buffer'[p] = buffer[p] ]_vars

\* main returns, or has joined a worker that could not be created.
Finishes == <>(pc \in {"exit", "undefined"})

-----------------------------------------------------------------------------
(* The inductive invariant behind these properties.                        *)

Built == IF pc = "build" THEN 0 .. n - 1 ELSE 0 .. BLOCKS_LEN - 1

\* main's loops are where the number of the next block says they are.
LoopInv ==
  /\ pc = "build" => x < X_BLOCKS /\ y < Y_BLOCKS /\ n = y * X_BLOCKS + x
  /\ pc \in {"create", "join"} => n < THREAD_CAP
  /\ pc = "create" => \A t \in Threads : n <= t => status[t] = "none"

\* A built block is a non-empty rectangle inside the buffer.
Sound(b) ==
  /\ b.start.x < b.end.x /\ b.end.x <= BUFFER_WIDTH
  /\ b.start.y < b.end.y /\ b.end.y <= BUFFER_HEIGHT

Apart(a, b) ==
  \/ a.end.x <= b.start.x \/ b.end.x <= a.start.x
  \/ a.end.y <= b.start.y \/ b.end.y <= a.start.y

BlocksInv ==
  /\ \A k \in Built : Sound(blocks[k])
  /\ \A k, l \in Built : k # l => Apart(blocks[k], blocks[l])

\* While main builds, the blocks so far are those above and left of the corner
\* it has reached, and they cover everything there; then they cover the buffer.
FrontierInv ==
  pc = "build" =>
    /\ \A k \in Built : \/ blocks[k].end.y <= y * BLOCK_HEIGHT
                        \/ /\ blocks[k].end.y <= y * BLOCK_HEIGHT + BLOCK_HEIGHT
                           /\ blocks[k].end.x <= x * BLOCK_WIDTH
    /\ \A p \in Pixels :
         \/ p.y < y * BLOCK_HEIGHT
         \/ p.y < y * BLOCK_HEIGHT + BLOCK_HEIGHT /\ p.x < x * BLOCK_WIDTH
         => \E k \in Built : In(p, blocks[k])

CoverInv == pc # "build" => \A p \in Pixels : \E k \in Built : In(p, blocks[k])

Done == {t \in Threads : status[t] = "done"}

\* The counter passes the last block by at most one claim per finished worker.
CounterInv ==
  /\ INDEX <= BLOCKS_LEN + Cardinality(Done)
  /\ \A t \in Done : BLOCKS_LEN <= INDEX

\* Claims: made in order, never shared, and a writer is inside its own block.
ClaimInv ==
  /\ pc = "build" => INDEX = 0 /\ \A t \in Threads : status[t] = "none"
  /\ \A t \in Threads : status[t] = "write" =>
       /\ index[t] < INDEX /\ index[t] < BLOCKS_LEN
       /\ In(at[t], blocks[index[t]])
  /\ \A t, u \in Threads :
       (t # u /\ status[t] = "write" /\ status[u] = "write") => index[t] # index[u]

\* main has joined the workers below n.
JoinInv ==
  /\ pc = "join" => \A t \in Threads : t < n => status[t] = "done"
  /\ pc = "print" => \A t \in Threads : status[t] = "done"

\* An element is zero or holds the number of its block.  A claimed block is
\* full unless its worker is still at it, and then it is full up to there.
Earlier(p, q) == p.y < q.y \/ (p.y = q.y /\ p.x < q.x)
FillInv ==
  /\ \A p \in Pixels : buffer[p] # 0 => pc # "build" /\ In(p, blocks[buffer[p]])
  /\ \A k \in 0 .. BLOCKS_LEN - 1 :
       k < INDEX /\ (\A t \in Threads : ~(status[t] = "write" /\ index[t] = k)) =>
         \A p \in Pixels : In(p, blocks[k]) => buffer[p] = k
  /\ \A t \in Threads : status[t] = "write" =>
       \A p \in Pixels : In(p, blocks[index[t]]) /\ Earlier(p, at[t]) => buffer[p] = index[t]

IInv ==
  /\ TypeOK /\ LoopInv /\ BlocksInv /\ FrontierInv /\ CoverInv
  /\ CounterInv /\ ClaimInv /\ JoinInv /\ FillInv
=============================================================================

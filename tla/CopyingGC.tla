----------------------------- MODULE CopyingGC ------------------------------
(***************************************************************************)
(* src/copying_gc.c: Cheney's copying collector.  A block is one header    *)
(* word followed by its data words.  Blocks are bump-allocated in the half *)
(* of MEMORY that starts at FROM; when the half is full, collect() swaps   *)
(* the halves, copies the blocks the registered locals point at, then scans*)
(* the copies word by word, copying what they point at, and leaves a       *)
(* forwarding address in the first data word of every block it moves.      *)
(*                                                                         *)
(* collect() is a loop over shared state, so the model takes one step per  *)
(* iteration: pc is "roots" in the first loop, "scan" in the second one.   *)
(* The client (main) runs only while pc = "run".  Terminal values of pc    *)
(* name the EXIT_IF that ended the program, or what went wrong:            *)
(*   "undefined"  the collector read a word nobody has written             *)
(*   "wild"       the collector followed an address that is no block       *)
(***************************************************************************)
EXTENDS Integers, Sequences, FiniteSets, Functions

CONSTANTS
  CAP_MEMORY,  \* words per half
  CAP_STACK,   \* registered locals at most
  Locals,      \* the client's Block* variables
  Sizes,       \* the sizes the client passes to alloc
  Literals,    \* the literals it stores
  Nil

ASSUME CapAssumption == CAP_MEMORY \in Nat \ {0} /\ CAP_STACK \in Nat
ASSUME SizesAssumption == Sizes \subseteq Nat \ {0}
ASSUME LiteralsAssumption == Literals \subseteq Nat
ASSUME NilAssumption == Nil \notin Nat

VARIABLES
  MEMORY,      \* both halves, one word per address
  FROM,        \* where the current half starts
  LEN_FROM,    \* words in use in the current half
  STACK,       \* the registered locals (STACK holds their addresses)
  local,       \* the client's variables: an address or Nil
  pc, i, j,    \* control: where the program is, collect's loop counters
  pending,     \* the alloc call waiting for its collection
  name         \* auxiliary: the object each block is (see ObjectHeap)

vars == <<MEMORY, FROM, LEN_FROM, STACK, local, pc, i, j, pending, name>>

Addr == 0 .. (2 * CAP_MEMORY - 1)
TO == CAP_MEMORY - FROM
Half(start) == start .. (start + CAP_MEMORY - 1)
Ids == 1 .. ((CAP_MEMORY + 1) \div 2)
BLOCK_HEADER_SIZE == 1

\* A word: a header (its forward bit set or not), a tagged literal, a pointer,
\* a data word alloc has handed out unwritten, or memory no block owns.
Word == [kind : {"header", "forward", "literal", "pointer", "unset", "free"}, val : Nat]
W(k, x) == [kind |-> k, val |-> x]
Free == W("free", 0)

None == [op |-> "none", v |-> Nil, k |-> 0, size |-> 0]
Request == [op : {"none", "local", "field"}, v : Locals \cup {Nil}, k : Nat, size : Nat]

IsBlock(a) == a \in Addr /\ MEMORY[a].kind \in {"header", "forward"}
Registered == {STACK[n] : n \in DOMAIN STACK}

Init ==
  /\ MEMORY = [a \in Addr |-> Free]
  /\ FROM = 0
  /\ LEN_FROM = 0
  /\ STACK = <<>>
  /\ local = [v \in Locals |-> Nil]
  /\ pc = "run" /\ i = 0 /\ j = 0
  /\ pending = None
  /\ name = [a \in Addr |-> Nil]

-----------------------------------------------------------------------------
(* The registration stack.                                                 *)

\* The client registers a local that holds a block, and each local once.
stack_push(v) ==
  /\ pc = "run" /\ local[v] # Nil /\ v \notin Registered
  /\ IF CAP_STACK <= Len(STACK)
     THEN pc' = "exit_push" /\ UNCHANGED STACK
     ELSE STACK' = Append(STACK, v) /\ UNCHANGED pc
  /\ UNCHANGED <<MEMORY, FROM, LEN_FROM, local, i, j, pending, name>>

stack_pop ==
  /\ pc = "run"
  /\ IF Len(STACK) = 0
     THEN pc' = "exit_pop" /\ UNCHANGED STACK
     ELSE STACK' = SubSeq(STACK, 1, Len(STACK) - 1) /\ UNCHANGED pc
  /\ UNCHANGED <<MEMORY, FROM, LEN_FROM, local, i, j, pending, name>>

-----------------------------------------------------------------------------
(* The client reads and writes data words through its locals.              *)

HasWord(v, k) == local[v] # Nil /\ k \in 1 .. MEMORY[local[v]].val

StoreLiteral(v, k, x) ==
  /\ pc = "run" /\ HasWord(v, k)
  /\ MEMORY' = [MEMORY EXCEPT ![local[v] + k] = W("literal", x)]
  /\ UNCHANGED <<FROM, LEN_FROM, STACK, local, pc, i, j, pending, name>>

StorePointer(v, k, w) ==
  /\ pc = "run" /\ HasWord(v, k) /\ local[w] # Nil
  /\ MEMORY' = [MEMORY EXCEPT ![local[v] + k] = W("pointer", local[w])]
  /\ UNCHANGED <<FROM, LEN_FROM, STACK, local, pc, i, j, pending, name>>

LoadPointer(w, v, k) ==
  /\ pc = "run" /\ HasWord(v, k) /\ MEMORY[local[v] + k].kind = "pointer"
  /\ local' = [local EXCEPT ![w] = MEMORY[local[v] + k].val]
  /\ UNCHANGED <<MEMORY, FROM, LEN_FROM, STACK, pc, i, j, pending, name>>

-----------------------------------------------------------------------------
(* alloc.  Its result goes to a local (op "local") or straight into a data *)
(* word, as in parent->data[2].as_block = alloc(1) (op "field").  The      *)
(* build's compiler evaluates the call before the address it assigns to,   *)
(* so the address is taken from the local after a collection.              *)

FreshId == CHOOSE o \in Ids : o \notin Range(name) /\
                              \A p \in Ids : p < o => p \in Range(name)

\* Fault: the last word of the half is forgotten.
FitsButLastWord(size) == LEN_FROM + BLOCK_HEADER_SIZE + size < CAP_MEMORY

Fits(size) == LEN_FROM + BLOCK_HEADER_SIZE + size <= CAP_MEMORY

\* alloc's last lines, and the caller's assignment of the block it returns.
Place(request) ==
  LET b == FROM + LEN_FROM
      placed == [a \in Addr |-> IF a = b THEN W("header", request.size)
                                ELSE IF a \in b + 1 .. b + request.size THEN W("unset", 0)
                                ELSE MEMORY[a]]
  IN  /\ LEN_FROM' = LEN_FROM + BLOCK_HEADER_SIZE + request.size
      /\ name' = [name EXCEPT ![b] = FreshId]
      /\ IF request.op = "local"
         THEN local' = [local EXCEPT ![request.v] = b] /\ MEMORY' = placed
         ELSE /\ MEMORY' = [placed EXCEPT ![local[request.v] + request.k] = W("pointer", b)]
              /\ UNCHANGED local

\* The swap and the reset at the head of collect().
Swap ==
  /\ FROM' = TO
  /\ LEN_FROM' = 0
  /\ pc' = "roots" /\ i' = 0 /\ j' = 0
  /\ UNCHANGED <<MEMORY, STACK, local, name>>

alloc(request) ==
  /\ pc = "run"
  /\ request.op = "field" => HasWord(request.v, request.k) /\ request.v \in Registered
  /\ IF Fits(request.size)
     THEN Place(request) /\ UNCHANGED <<FROM, STACK, pc, i, j, pending>>
     ELSE Swap /\ pending' = request

\* alloc after its collection has returned: it fits now, or the program exits.
alloc_resume ==
  /\ pc = "resume"
  /\ IF Fits(pending.size)
     THEN Place(pending) /\ pc' = "run" /\ pending' = None
     ELSE pc' = "exit_alloc" /\ UNCHANGED <<MEMORY, LEN_FROM, local, name, pending>>
  /\ UNCHANGED <<FROM, STACK, i, j>>

-----------------------------------------------------------------------------
(* collect and copy.                                                       *)

Forwarded(old) == MEMORY[old].kind = "forward"
Overflows(old) == ~Forwarded(old) /\ ~Fits(MEMORY[old].val)

\* Fault: a forwarded block's old address is returned instead of its new one.
CopiedStale(old) == IF Forwarded(old) THEN old ELSE FROM + LEN_FROM

\* What copy(old) returns, and the memory and auxiliary names it leaves.
Copied(old) == IF Forwarded(old) THEN MEMORY[old + 1].val ELSE FROM + LEN_FROM
LenAfter(old) == IF Forwarded(old) THEN LEN_FROM
                 ELSE LEN_FROM + BLOCK_HEADER_SIZE + MEMORY[old].val

\* Fault: the forwarding address is written before the data is copied.
MemoryAfterSwapped(old) ==
  LET new == FROM + LEN_FROM
      size == MEMORY[old].val
  IN  IF Forwarded(old) THEN MEMORY
      ELSE [a \in Addr |->
              IF a = new THEN W("header", size)
              ELSE IF a \in {new + 1, old + 1} THEN W("pointer", new)
              ELSE IF a \in new + 2 .. new + size THEN MEMORY[old + (a - new)]
              ELSE IF a = old THEN W("forward", size)
              ELSE MEMORY[a]]

MemoryAfter(old) ==
  LET new == FROM + LEN_FROM
      size == MEMORY[old].val
  IN  IF Forwarded(old) THEN MEMORY
      ELSE [a \in Addr |->
              IF a = new THEN W("header", size)
              ELSE IF a \in new + 1 .. new + size THEN MEMORY[old + (a - new)]
              ELSE IF a = old THEN W("forward", size)
              ELSE IF a = old + 1 THEN W("pointer", new)
              ELSE MEMORY[a]]
NameAfter(old) == IF Forwarded(old) THEN name ELSE [name EXCEPT ![FROM + LEN_FROM] = name[old]]

collect ==
  /\ pc = "run"
  /\ Swap /\ UNCHANGED pending

\* One iteration of the loop over STACK.
CopyRoot ==
  /\ pc = "roots" /\ i < Len(STACK)
  /\ LET v == STACK[i + 1]
         old == local[v]
     IN  IF ~IsBlock(old)
         THEN pc' = "wild" /\ UNCHANGED <<MEMORY, LEN_FROM, name, local, i>>
         ELSE IF Overflows(old)
         THEN pc' = "exit_copy" /\ UNCHANGED <<MEMORY, LEN_FROM, name, local, i>>
         ELSE /\ MEMORY' = MemoryAfter(old)
              /\ LEN_FROM' = LenAfter(old)
              /\ name' = NameAfter(old)
              /\ local' = [local EXCEPT ![v] = Copied(old)]
              /\ i' = i + 1
              /\ UNCHANGED pc
  /\ UNCHANGED <<FROM, STACK, j, pending>>

\* Fault: the last registered local is not visited.
RootsDoneEarly ==
  /\ pc = "roots" /\ i + 1 = Len(STACK)
  /\ pc' = "scan" /\ i' = 0 /\ j' = 0
  /\ UNCHANGED <<MEMORY, FROM, LEN_FROM, STACK, local, pending, name>>

RootsDone ==
  /\ pc = "roots" /\ i = Len(STACK)
  /\ pc' = "scan" /\ i' = 0 /\ j' = 0
  /\ UNCHANGED <<MEMORY, FROM, LEN_FROM, STACK, local, pending, name>>

\* One iteration of the inner scanning loop: word j of the block at offset i.
ScanWord ==
  /\ pc = "scan" /\ i < LEN_FROM /\ j < MEMORY[FROM + i].val
  /\ LET at == FROM + i + BLOCK_HEADER_SIZE + j
         word == MEMORY[at]
         old == word.val
     IN  IF word.kind \in {"unset", "free"}
         THEN pc' = "undefined" /\ UNCHANGED <<MEMORY, LEN_FROM, name, j>>
         ELSE IF word.kind # "pointer"
         THEN j' = j + 1 /\ UNCHANGED <<MEMORY, LEN_FROM, name, pc>>
         ELSE IF ~IsBlock(old)
         THEN pc' = "wild" /\ UNCHANGED <<MEMORY, LEN_FROM, name, j>>
         ELSE IF Overflows(old)
         THEN pc' = "exit_copy" /\ UNCHANGED <<MEMORY, LEN_FROM, name, j>>
         ELSE /\ MEMORY' = [MemoryAfter(old) EXCEPT ![at] = W("pointer", Copied(old))]
              /\ LEN_FROM' = LenAfter(old)
              /\ name' = NameAfter(old)
              /\ j' = j + 1
              /\ UNCHANGED pc
  /\ UNCHANGED <<FROM, STACK, local, i, pending>>

\* Fault: the loop rescans the same block.
NextBlockStuck ==
  /\ pc = "scan" /\ i < LEN_FROM /\ j = MEMORY[FROM + i].val
  /\ j' = 0
  /\ UNCHANGED <<MEMORY, FROM, LEN_FROM, STACK, local, pc, i, pending, name>>

\* The outer scanning loop moves to the next block.
NextBlock ==
  /\ pc = "scan" /\ i < LEN_FROM /\ j = MEMORY[FROM + i].val
  /\ i' = i + BLOCK_HEADER_SIZE + j
  /\ j' = 0
  /\ UNCHANGED <<MEMORY, FROM, LEN_FROM, STACK, local, pc, pending, name>>

\* collect() returns.  The bytes of the old half stay as they were; the model
\* poisons them, and retires the locals that point there, so that any use of a
\* stale address would be caught as "wild".
ScanDone ==
  /\ pc = "scan" /\ i = LEN_FROM
  /\ pc' = IF pending.op = "none" THEN "run" ELSE "resume"
  /\ MEMORY' = [a \in Addr |-> IF a \in Half(TO) THEN Free ELSE MEMORY[a]]
  /\ name' = [a \in Addr |-> IF a \in Half(TO) THEN Nil ELSE name[a]]
  /\ local' = [v \in Locals |-> IF v \in Registered THEN local[v] ELSE Nil]
  /\ i' = 0 /\ j' = 0
  /\ UNCHANGED <<FROM, LEN_FROM, STACK, pending>>

-----------------------------------------------------------------------------
Words == 1 .. (CHOOSE m \in Sizes : \A n \in Sizes : n <= m)

Requests(v) ==
  {[op |-> "local", v |-> v, k |-> 0, size |-> n] : n \in Sizes} \cup
  {[op |-> "field", v |-> v, k |-> k, size |-> n] : k \in Words, n \in Sizes}

Client ==
  \/ stack_pop
  \/ collect
  \/ \E v \in Locals :
       \/ stack_push(v)
       \/ \E r \in Requests(v) : alloc(r)
       \/ \E k \in Words :
            \/ \E x \in Literals : StoreLiteral(v, k, x)
            \/ \E w \in Locals : StorePointer(v, k, w) \/ LoadPointer(w, v, k)

Collector == CopyRoot \/ RootsDone \/ ScanWord \/ NextBlock \/ ScanDone \/ alloc_resume

Next == Client \/ Collector

\* The program is sequential: once collect() runs, it runs to its end.
Spec == Init /\ [][Next]_vars /\ WF_vars(Collector)

-----------------------------------------------------------------------------
(* Properties.                                                             *)

Terminal == {"exit_push", "exit_pop", "exit_alloc", "exit_copy", "undefined", "wild"}

\* The addresses of the blocks in the half that starts at s, and what a set of
\* addresses reaches, following forwarding addresses to nowhere else.
Pointees(a) == {MEMORY[a + k].val : k \in {n \in 1 .. MEMORY[a].val :
                                             MEMORY[a + n].kind = "pointer"}}
Reachable(S) ==
  LET reach[n \in 0 .. Cardinality(Ids)] ==
        IF n = 0 THEN S ELSE reach[n - 1] \cup UNION {Pointees(a) : a \in reach[n - 1]}
  IN  reach[Cardinality(Ids)]
Blocks == {a \in FROM .. FROM + LEN_FROM - 1 : MEMORY[a].kind \in {"header", "forward"}}
FootPrint(S) == UNION {a .. a + MEMORY[a].val : a \in S}
RootAddresses == {local[v] : v \in Registered}

\* Between collections the blocks tile the used part of the half exactly: they
\* do not overlap and leave no gap, so the scanning loop, which steps from
\* header to header (line 168), can never land inside a block.
Tiled ==
  pc \in {"run", "scan", "resume"} =>
    /\ FootPrint(Blocks) = FROM .. FROM + LEN_FROM - 1
    /\ \A a, b \in Blocks : a # b => (a .. a + MEMORY[a].val) \cap (b .. b + MEMORY[b].val) = {}
    /\ \A a \in Blocks : MEMORY[a].kind = "header"

\* A collection keeps exactly what the registered locals reach and nothing
\* more.  With an empty stack that is nothing at all, which is what main
\* asserts of its last collect() (line 222).
Precise ==
  [][ pc = "scan" /\ pc' \in {"run", "resume"} =>
        Blocks' = Reachable(RootAddresses)' ]_vars

\* alloc gives up (line 181) only when the request does not fit beside the
\* live data, never because of garbage.
ExhaustionIsReal ==
  pc = "exit_alloc" =>
    Cardinality(FootPrint(Reachable(RootAddresses))) + BLOCK_HEADER_SIZE + pending.size
      > CAP_MEMORY

\* What a collection can trip over.  The blocks tile the half, so the scan stays
\* on headers.  It never follows an address that is not a
\* block: no root and no field is left pointing into the abandoned half (lines
\* 114-169).  What is reachable always fits, so copy's capacity check (line 122)
\* never ends the program.  The one thing that hurts it is a word nobody wrote in
\* a block that is reachable when alloc or collect is called, as parent->data[2]
\* is in line 197: garbage is never looked at (line 155).
CollectionSafe ==
  /\ Tiled
  /\ pc \notin {"wild", "exit_copy"}
  /\ pc = "undefined" =>
       \E a \in Reachable(RootAddresses \cup Blocks) : \E k \in 1 .. MEMORY[a].val :
         MEMORY[a + k].kind = "unset"

\* Every collection ends: the scanning loop catches up with the copies it makes.
Terminates == pc \in {"roots", "scan", "resume"} ~> pc \in {"run"} \cup Terminal

-----------------------------------------------------------------------------
(* A collection is invisible: CopyingGC implements ObjectHeap.  An object  *)
(* is the unforwarded block that carries its name; during a collection that*)
(* is the copy if there is one, and the original otherwise.                *)

BlockOf(o) == CHOOSE a \in Addr : name[a] = o /\ MEMORY[a].kind = "header"
Field(w) == IF w.kind = "pointer" THEN [w EXCEPT !.val = name[w.val]] ELSE w
Object(o) == LET a == BlockOf(o) IN [k \in 1 .. MEMORY[a].val |-> Field(MEMORY[a + k])]
RootObject == [v \in Locals |-> IF local[v] = Nil THEN Nil ELSE name[local[v]]]
LiveObjects ==
  LET refs(o) == {name[p] : p \in Pointees(BlockOf(o))}
      reach[n \in 0 .. Cardinality(Ids)] ==
        IF n = 0 THEN Range(RootObject) \ {Nil}
        ELSE reach[n - 1] \cup UNION {refs(o) : o \in reach[n - 1]}
  IN  reach[Cardinality(Ids)]

Heap == INSTANCE ObjectHeap WITH
          objs <- [o \in LiveObjects |-> Object(o)],
          root <- RootObject,
          registered <- STACK,
          mode <- IF pc \in {"roots", "scan", "exit_copy", "undefined", "wild"}
                  THEN "collector" ELSE "client"

\* Whatever the client does, it sees the objects of ObjectHeap: no field, no
\* identity and no sharing is changed by moving blocks around.
Invisible == Heap!Spec
=============================================================================

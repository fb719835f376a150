--------------------------- MODULE CopyingGCProofs ---------------------------
(***************************************************************************)
(* Proofs about CopyingGC, for every size of the halves, of the stack and  *)
(* of the requests: a collection follows no stale address, never runs out  *)
(* of room, and keeps exactly what the registered locals reach; and what   *)
(* the client sees are the objects of ObjectHeap, which do not move.       *)
(***************************************************************************)
EXTENDS CopyingGC, NumberLemmas, FiniteSetTheorems, SequenceTheorems, TLAPS

-----------------------------------------------------------------------------
(* The inductive invariant.                                                *)

DataKinds == {"literal", "pointer", "unset"}
Collecting == pc \in {"roots", "scan"}
Settled == pc \in {"run", "resume", "exit_push", "exit_pop", "exit_alloc"}

\* A block of the half in use, and during a collection one of the half left behind.
NewBlock(a) == a \in Half(FROM) /\ MEMORY[a].kind \in {"header", "forward"}
OldBlock(a) == a \in Half(TO) /\ MEMORY[a].kind \in {"header", "forward"}

Types ==
  /\ MEMORY \in [Addr -> Word]
  /\ FROM \in {0, CAP_MEMORY} /\ LEN_FROM \in 0 .. CAP_MEMORY
  /\ STACK \in Seq(Locals)
  /\ local \in [Locals -> Addr \cup {Nil}]
  /\ pc \in {"run", "roots", "scan", "resume"} \cup Terminal
  /\ i \in Nat /\ j \in Nat
  /\ pending \in Request

\* A block lies within one half, and the words after its header are data.
Shaped ==
  \A a \in Addr : MEMORY[a].kind \in {"header", "forward"} =>
    /\ MEMORY[a].val >= 1
    /\ a \in Half(FROM) => a + MEMORY[a].val \in Half(FROM)
    /\ a \in Half(TO) => a + MEMORY[a].val \in Half(TO)
    /\ \A k \in 1 .. MEMORY[a].val : MEMORY[a + k].kind \in DataKinds

\* Blocks that have not been moved cover the used part of the half; the rest is free.
Covered ==
  /\ \A x \in FROM .. FROM + LEN_FROM - 1 :
       \E a \in FROM .. x : MEMORY[a].kind = "header" /\ x <= a + MEMORY[a].val
  /\ \A x \in FROM + LEN_FROM .. FROM + CAP_MEMORY - 1 : MEMORY[x].kind = "free"
  /\ \A x \in Half(FROM) : MEMORY[x].kind # "forward"

\* Between collections nothing refers to the other half, which is empty.
SettledInv ==
  Settled =>
    /\ \A x \in Half(TO) : MEMORY[x].kind = "free"
    /\ \A x \in Half(FROM) : MEMORY[x].kind = "pointer" => NewBlock(MEMORY[x].val)
    /\ \A v \in Locals : local[v] # Nil => NewBlock(local[v])

\* A local is registered once, while it holds a block.  The first loop moves them in
\* the order of the stack.
RootsInv ==
  /\ \A n, l \in 1 .. Len(STACK) : STACK[n] = STACK[l] => n = l
  /\ \A n \in 1 .. Len(STACK) : local[STACK[n]] # Nil
  /\ pc = "roots" =>
       /\ i <= Len(STACK)
       /\ \A n \in 1 .. i : NewBlock(local[STACK[n]])
       /\ \A n \in i + 1 .. Len(STACK) : OldBlock(local[STACK[n]])
  /\ pc = "scan" => \A n \in 1 .. Len(STACK) : NewBlock(local[STACK[n]])

\* The first word that has not been scanned.
ScanAt == IF pc = "scan" THEN FROM + i + BLOCK_HEADER_SIZE + j ELSE FROM

\* The scan stands in the data of a block, or behind the last one.
ScanInv ==
  pc = "scan" =>
    /\ i <= LEN_FROM
    /\ i < LEN_FROM => MEMORY[FROM + i].kind = "header" /\ j <= MEMORY[FROM + i].val
    /\ i = LEN_FROM => j = 0

\* Scanned words point to copies, words not scanned yet to the old half.
CopiesInv ==
  Collecting =>
    \A x \in Half(FROM) : MEMORY[x].kind = "pointer" =>
      IF x < ScanAt THEN NewBlock(MEMORY[x].val) ELSE OldBlock(MEMORY[x].val)

\* A moved block says where its copy is, which has its size; one that has not been
\* moved is as it was.
OriginalsInv ==
  Collecting =>
    \A a \in Half(TO) :
      /\ MEMORY[a].kind = "forward" =>
           /\ NewBlock(MEMORY[a + 1].val)
           /\ MEMORY[MEMORY[a + 1].val].val = MEMORY[a].val
      /\ MEMORY[a].kind = "header" =>
           \A k \in 1 .. MEMORY[a].val :
             MEMORY[a + k].kind = "pointer" => OldBlock(MEMORY[a + k].val)

\* The copies take as many words as the originals that have been moved.
Moved == {a \in Half(TO) : MEMORY[a].kind = "forward"}
RoomInv == Collecting => Cardinality(FootPrint(Moved)) = LEN_FROM

\* What keeps a copy: a registered local, or a word that has been scanned and lies
\* before it.
HeldByRoot(a) == \E n \in 1 .. Len(STACK) : (pc = "roots" => n <= i) /\ local[STACK[n]] = a
HeldByWord(a) ==
  \E x \in FROM .. a - 1 :
    (pc = "scan" => x < ScanAt) /\ MEMORY[x].kind = "pointer" /\ MEMORY[x].val = a

HeldInv ==
  pc \in {"roots", "scan", "resume", "exit_alloc"} =>
    \A a \in Half(FROM) :
      MEMORY[a].kind = "header" => HeldByRoot(a) \/ (pc # "roots" /\ HeldByWord(a))

\* The call of alloc that waits for the collection: the word it assigns to stays.
PendingInv ==
  /\ pc = "run" => pending.op = "none"
  /\ pc = "resume" => pending.op # "none"
  /\ pending.op # "none" => pending.v \in Locals /\ pending.size \in Sizes
  /\ pending.op = "field" /\ (Collecting \/ pc = "resume") =>
       /\ pending.v \in Registered
       /\ pending.k \in 1 .. MEMORY[local[pending.v]].val

\* How a collection may end the program.
EndInv ==
  /\ pc \notin {"wild", "exit_copy"}
  /\ pc = "undefined" =>
       \E a \in Blocks : \E k \in 1 .. MEMORY[a].val : MEMORY[a + k].kind = "unset"
  /\ pc = "exit_alloc" => ~Fits(pending.size)

IInv ==
  /\ Types /\ Shaped /\ Covered /\ SettledInv /\ RootsInv /\ ScanInv /\ CopiesInv
  /\ OriginalsInv /\ RoomInv /\ HeldInv /\ PendingInv /\ EndInv

-----------------------------------------------------------------------------
(* The halves and the blocks in them.                                      *)

LEMMA Halves ==
  ASSUME Types
  PROVE  /\ CAP_MEMORY \in Nat /\ CAP_MEMORY > 0 /\ FROM \in Nat /\ TO \in Nat /\ LEN_FROM \in Nat
         /\ LEN_FROM <= CAP_MEMORY
         /\ \A a \in Half(FROM) : a \in Addr /\ a \in Nat /\ a \notin Half(TO)
         /\ \A a \in Half(TO) : a \in Addr /\ a \in Nat /\ a \notin Half(FROM)
         /\ \A a \in Addr : a \in Nat /\ (a \in Half(FROM) \/ a \in Half(TO))
<1>1. CAP_MEMORY \in Nat /\ CAP_MEMORY > 0
  BY CapAssumption
<1> QED
  BY <1>1 DEF Types, Half, TO, Addr

LEMMA WordTypes ==
  ASSUME Types, NEW a \in Addr
  PROVE  MEMORY[a] \in Word /\ MEMORY[a].val \in Nat /\ MEMORY[a] = W(MEMORY[a].kind, MEMORY[a].val)
<1>1. MEMORY[a] \in Word
  BY DEF Types
<1> QED
  BY <1>1 DEF Word, W

\* Blocks do not overlap.
LEMMA Apart ==
  ASSUME Types, Shaped, NEW a \in Addr, NEW b \in Addr, a < b,
         MEMORY[a].kind \in {"header", "forward"}, MEMORY[b].kind \in {"header", "forward"}
  PROVE  a + MEMORY[a].val < b
<1>1. a \in Nat /\ b \in Nat /\ MEMORY[a].val \in Nat
  BY Halves, WordTypes
<1> SUFFICES ASSUME b <= a + MEMORY[a].val PROVE FALSE
  BY <1>1
<1>2. b - a \in 1 .. MEMORY[a].val /\ a + (b - a) = b
  BY <1>1
<1>3. MEMORY[b].kind \in DataKinds
  BY <1>2 DEF Shaped
<1> QED
  BY <1>3 DEF DataKinds

\* The words of a block are addresses.
LEMMA BlockWords ==
  ASSUME Types, Shaped, NEW a \in Addr, MEMORY[a].kind \in {"header", "forward"}
  PROVE  \A k \in 0 .. MEMORY[a].val :
           /\ a + k \in Addr
           /\ a \in Half(FROM) => a + k \in Half(FROM)
           /\ a \in Half(TO) => a + k \in Half(TO)
<1>1. /\ a \in Nat /\ MEMORY[a].val \in Nat /\ FROM \in Nat /\ TO \in Nat /\ CAP_MEMORY \in Nat
      /\ a \in Half(FROM) \/ a \in Half(TO)
  BY Halves, WordTypes
<1>2. /\ a \in Half(FROM) => a + MEMORY[a].val \in Half(FROM)
      /\ a \in Half(TO) => a + MEMORY[a].val \in Half(TO)
  BY DEF Shaped
<1>3. \A k \in 0 .. MEMORY[a].val : /\ a \in Half(FROM) => a + k \in Half(FROM)
                                    /\ a \in Half(TO) => a + k \in Half(TO)
  BY <1>1, <1>2 DEF Half
<1> QED
  BY <1>1, <1>3, Halves

\* The last word of a block in use is in use.
LEMMA InUse ==
  ASSUME Types, Shaped, Covered, NEW a \in Half(FROM), MEMORY[a].kind = "header"
  PROVE  a + MEMORY[a].val < FROM + LEN_FROM
<1>1. /\ a \in Addr /\ a \in Nat /\ MEMORY[a].val \in Nat /\ FROM \in Nat /\ LEN_FROM \in Nat
      /\ CAP_MEMORY \in Nat
  BY Halves, WordTypes
<1>2. /\ MEMORY[a].val >= 1 /\ a + MEMORY[a].val \in Half(FROM)
      /\ MEMORY[a + MEMORY[a].val].kind \in DataKinds
  BY <1>1 DEF Shaped
<1> SUFFICES ASSUME FROM + LEN_FROM <= a + MEMORY[a].val PROVE FALSE
  BY <1>1
<1>3. a + MEMORY[a].val \in FROM + LEN_FROM .. FROM + CAP_MEMORY - 1
  BY <1>1, <1>2 DEF Half
<1> QED
  BY <1>2, <1>3 DEF Covered, DataKinds

\* The footprint of an original that has not been moved is disjoint from those that have
\* been, and all of them are in the old half: there is room for its copy.
LEMMA ItFits ==
  ASSUME IInv, Collecting, NEW old \in Half(TO), MEMORY[old].kind = "header"
  PROVE  /\ Fits(MEMORY[old].val)
         /\ IsFiniteSet(FootPrint(Moved))
         /\ Cardinality(FootPrint(Moved) \cup (old .. old + MEMORY[old].val))
              = LEN_FROM + 1 + MEMORY[old].val
<1> DEFINE size == MEMORY[old].val
           mine == old .. old + size
<1>1. /\ old \in Addr /\ old \in Nat /\ size \in Nat /\ LEN_FROM \in Nat /\ TO \in Nat
      /\ CAP_MEMORY \in Nat
  BY Halves, WordTypes DEF IInv
<1>2. IsFiniteSet(Half(TO)) /\ Cardinality(Half(TO)) = CAP_MEMORY
  <2>1. Half(TO) = TO .. TO + CAP_MEMORY - 1
    BY DEF Half
  <2>2. CASE TO + CAP_MEMORY - 1 >= TO
    BY <1>1, <2>1, <2>2, FS_Interval
  <2> QED
    BY <1>1, <2>1, <2>2, CapAssumption
<1>3. IsFiniteSet(mine) /\ Cardinality(mine) = size + 1
  <2>1. old \in Int /\ old + size \in Int /\ ~(old > old + size) /\ (old + size) - old + 1 = size + 1
    BY <1>1
  <2> HIDE DEF size
  <2> QED
    BY <2>1, FS_Interval
<1>4. mine \subseteq Half(TO)
  <2>1. old + size \in Half(TO)
    BY <1>1 DEF IInv, Shaped
  <2> QED
    BY <1>1, <2>1 DEF Half
<1>5. \A a \in Moved : /\ a \in Addr /\ a \in Nat /\ MEMORY[a].val \in Nat
                       /\ a .. a + MEMORY[a].val \subseteq Half(TO)
                       /\ a # old
  <2> SUFFICES ASSUME NEW a \in Moved
               PROVE  /\ a \in Addr /\ a \in Nat /\ MEMORY[a].val \in Nat
                      /\ a .. a + MEMORY[a].val \subseteq Half(TO)
                      /\ a # old
    OBVIOUS
  <2>1. a \in Half(TO) /\ a \in Addr /\ a \in Nat /\ MEMORY[a].val \in Nat /\ a # old
    BY Halves, WordTypes DEF IInv, Moved
  <2>2. a + MEMORY[a].val \in Half(TO)
    BY <2>1 DEF IInv, Shaped, Moved
  <2> QED
    BY <1>1, <2>1, <2>2 DEF Half
<1>6. FootPrint(Moved) \subseteq Half(TO)
  BY <1>5 DEF FootPrint
<1>7. FootPrint(Moved) \cap mine = {}
  <2> SUFFICES ASSUME NEW x \in mine, NEW a \in Moved, x \in a .. a + MEMORY[a].val
               PROVE  FALSE
    BY DEF FootPrint
  <2>1. CASE a < old
    <3>1. a + MEMORY[a].val < old
      BY <1>1, <1>5, <2>1, Apart DEF IInv, Moved
    <3> QED
      BY <1>1, <1>5, <3>1
  <2>2. CASE old < a
    <3>1. old + size < a
      BY <1>1, <1>5, <2>2, Apart DEF IInv, Moved
    <3> QED
      BY <1>1, <1>5, <3>1
  <2> QED
    BY <1>1, <1>5, <2>1, <2>2
<1>8. IsFiniteSet(FootPrint(Moved)) /\ Cardinality(FootPrint(Moved)) = LEN_FROM
  BY <1>2, <1>6, FS_Subset DEF IInv, RoomInv
<1>9. Cardinality(FootPrint(Moved) \cup mine) = LEN_FROM + (size + 1)
  <2>1. Cardinality(FootPrint(Moved) \cap mine) = 0
    BY <1>7, FS_EmptySet
  <2>2. Cardinality(FootPrint(Moved) \cup mine)
          = Cardinality(FootPrint(Moved)) + Cardinality(mine) - Cardinality(FootPrint(Moved) \cap mine)
    BY <1>3, <1>8, FS_Union
  <2> QED
    BY <1>1, <1>3, <1>8, <2>1, <2>2
<1>10. Cardinality(FootPrint(Moved) \cup mine) <= CAP_MEMORY
  BY <1>2, <1>4, <1>6, FS_Subset
<1> QED
  BY <1>1, <1>8, <1>9, <1>10 DEF Fits, BLOCK_HEADER_SIZE

-----------------------------------------------------------------------------
(* The client's steps.                                                     *)

LEMMA InitInv == Init => IInv
<1> SUFFICES ASSUME Init PROVE IInv
  OBVIOUS
<1>1. CAP_MEMORY \in Nat /\ CAP_MEMORY > 0 /\ FROM = 0 /\ LEN_FROM = 0 /\ pc = "run" /\ TO = CAP_MEMORY
  BY CapAssumption DEF Init, TO
<1>2. \A a \in Addr : MEMORY[a] = [kind |-> "free", val |-> 0]
  BY DEF Init, Free, W
<1>3. Half(FROM) \subseteq Addr /\ Half(TO) \subseteq Addr
  BY <1>1 DEF Half, Addr
<1>4. Types
  <2>1. MEMORY \in [Addr -> Word]
    BY DEF Init, Free, W, Word
  <2>2. pending \in Request
    BY DEF Init, None, Request
  <2> QED
    BY <1>1, <2>1, <2>2 DEF Init, Types
<1>5. Shaped /\ Covered /\ SettledInv
  BY <1>1, <1>2, <1>3 DEF Init, Shaped, Covered, SettledInv, Half
<1>6. RootsInv /\ ScanInv /\ CopiesInv /\ OriginalsInv /\ RoomInv /\ HeldInv
  BY <1>1 DEF Init, RootsInv, ScanInv, CopiesInv, OriginalsInv, RoomInv, HeldInv, Collecting
<1>7. PendingInv /\ EndInv
  BY <1>1 DEF Init, PendingInv, EndInv, None
<1> QED
  BY <1>4, <1>5, <1>6, <1>7 DEF IInv

\* What is said of collections only is not at stake while the client runs.
LEMMA NotCollecting ==
  ASSUME pc' \in {"run", "exit_push", "exit_pop"}
  PROVE  ScanInv' /\ CopiesInv' /\ OriginalsInv' /\ RoomInv' /\ HeldInv'
BY DEF ScanInv, CopiesInv, OriginalsInv, RoomInv, HeldInv, Collecting

LEMMA SameMemoryInv ==
  ASSUME IInv, pc = "run", pc' \in {"run", "exit_push", "exit_pop"},
         UNCHANGED <<MEMORY, FROM, LEN_FROM, i, j, pending>>,
         STACK' \in Seq(Locals), local' \in [Locals -> Addr \cup {Nil}],
         \A n, l \in 1 .. Len(STACK') : STACK'[n] = STACK'[l] => n = l,
         \A n \in 1 .. Len(STACK') : local'[STACK'[n]] # Nil,
         \A v \in Locals : local'[v] # Nil => NewBlock(local'[v])
  PROVE  IInv'
<1>1. Half(FROM)' = Half(FROM) /\ Half(TO)' = Half(TO) /\ (\A a : NewBlock(a)' <=> NewBlock(a))
  BY DEF Half, TO, NewBlock
<1>2. Types'
  BY DEF IInv, Types, Terminal, TO
<1>6. Shaped' /\ Covered'
  BY <1>1 DEF IInv, Shaped, Covered
<1>3. SettledInv'
  BY <1>1 DEF IInv, SettledInv, Settled, NewBlock, Half, TO
<1>4. RootsInv'
  BY DEF RootsInv
<1>5. PendingInv' /\ EndInv'
  BY DEF IInv, PendingInv, EndInv, Collecting
<1> QED
  BY <1>2, <1>3, <1>4, <1>5, <1>6, NotCollecting DEF IInv

LEMMA PushInv == ASSUME IInv, NEW v \in Locals, stack_push(v) PROVE IInv'
<1>1. local' = local /\ local \in [Locals -> Addr \cup {Nil}] /\ STACK \in Seq(Locals)
  BY DEF IInv, Types, stack_push
<1>2. \A w \in Locals : local[w] # Nil => NewBlock(local[w])
  BY DEF IInv, SettledInv, Settled, stack_push
<1>3. CASE UNCHANGED STACK
  <2>1. pc' \in {"run", "exit_push", "exit_pop"}
    BY <1>3 DEF stack_push
  <2> QED
    BY <1>1, <1>2, <1>3, <2>1, SameMemoryInv DEF IInv, RootsInv, stack_push
<1>4. CASE STACK' = Append(STACK, v) /\ UNCHANGED pc
  <2>1. /\ STACK' \in Seq(Locals) /\ Len(STACK') = Len(STACK) + 1 /\ STACK'[Len(STACK) + 1] = v
        /\ \A n \in 1 .. Len(STACK) : STACK'[n] = STACK[n]
    BY <1>1, <1>4
  <2>2. \A n \in 1 .. Len(STACK) : STACK[n] # v
    BY DEF stack_push, Registered
  <2>3. \A n, l \in 1 .. Len(STACK') : STACK'[n] = STACK'[l] => n = l
    BY <1>1, <2>1, <2>2 DEF IInv, RootsInv
  <2>4. \A n \in 1 .. Len(STACK') : local'[STACK'[n]] # Nil
    BY <1>1, <2>1 DEF IInv, RootsInv, stack_push
  <2> QED
    BY <1>1, <1>2, <1>4, <2>1, <2>3, <2>4, SameMemoryInv DEF stack_push
<1> QED
  BY <1>3, <1>4 DEF stack_push

LEMMA PopInv == ASSUME IInv, stack_pop PROVE IInv'
<1>1. local' = local /\ local \in [Locals -> Addr \cup {Nil}] /\ STACK \in Seq(Locals)
  BY DEF IInv, Types, stack_pop
<1>2. \A w \in Locals : local[w] # Nil => NewBlock(local[w])
  BY DEF IInv, SettledInv, Settled, stack_pop
<1>3. CASE UNCHANGED STACK
  <2>1. pc' \in {"run", "exit_push", "exit_pop"}
    BY <1>3 DEF stack_pop
  <2> QED
    BY <1>1, <1>2, <1>3, <2>1, SameMemoryInv DEF IInv, RootsInv, stack_pop
<1>4. CASE Len(STACK) # 0 /\ STACK' = SubSeq(STACK, 1, Len(STACK) - 1) /\ UNCHANGED pc
  <2>1. /\ STACK' \in Seq(Locals) /\ Len(STACK') = Len(STACK) - 1
        /\ \A n \in 1 .. Len(STACK) - 1 : STACK'[n] = STACK[n]
    <3>1. PICK less \in Nat : less = Len(STACK) - 1 /\ less <= Len(STACK)
      BY <1>1, <1>4
    <3>2. \A n \in 1 .. less : STACK[n] \in Locals
      BY <1>1, <3>1
    <3>3. STACK' = SubSeq(STACK, 1, less)
      BY <1>4, <3>1
    <3>4. /\ SubSeq(STACK, 1, less) \in Seq(Locals)
          /\ Len(SubSeq(STACK, 1, less)) = IF 1 <= less THEN less - 1 + 1 ELSE 0
          /\ \A n \in 1 .. less - 1 + 1 : SubSeq(STACK, 1, less)[n] = STACK[1 + n - 1]
      BY <3>2, SubSeqProperties
    <3> QED
      BY <3>1, <3>3, <3>4
  <2>2. /\ \A n, l \in 1 .. Len(STACK') : STACK'[n] = STACK'[l] => n = l
        /\ \A n \in 1 .. Len(STACK') : local'[STACK'[n]] # Nil
    BY <1>1, <2>1 DEF IInv, RootsInv
  <2> QED
    BY <1>1, <1>2, <1>4, <2>1, <2>2, SameMemoryInv DEF stack_pop
<1> QED
  BY <1>3, <1>4 DEF stack_pop

\* The client gets at the data words of the blocks its locals hold.
LEMMA ClientWord ==
  ASSUME IInv, Settled, NEW v \in Locals, NEW k, HasWord(v, k)
  PROVE  /\ NewBlock(local[v]) /\ local[v] \in Addr /\ local[v] \in Nat /\ k \in Nat
         /\ MEMORY[local[v]].kind = "header"
         /\ k \in 1 .. MEMORY[local[v]].val
         /\ local[v] + k \in Half(FROM) /\ local[v] + k < FROM + LEN_FROM
         /\ MEMORY[local[v] + k].kind \in DataKinds
<1>1. NewBlock(local[v]) /\ k \in 1 .. MEMORY[local[v]].val
  BY DEF IInv, SettledInv, HasWord
<1>2. local[v] \in Half(FROM) /\ local[v] \in Addr /\ local[v] \in Nat /\ MEMORY[local[v]].val \in Nat
  BY <1>1, Halves, WordTypes DEF IInv, NewBlock
<1>3. MEMORY[local[v]].kind = "header"
  BY <1>1 DEF IInv, Covered, NewBlock
<1>4. local[v] + MEMORY[local[v]].val < FROM + LEN_FROM
  BY <1>2, <1>3, InUse DEF IInv
<1>5. MEMORY[local[v] + k].kind \in DataKinds /\ local[v] + MEMORY[local[v]].val \in Half(FROM)
  BY <1>1, <1>2, <1>3 DEF IInv, Shaped
<1>6. local[v] + k \in Half(FROM) /\ local[v] + k < FROM + LEN_FROM
  <2>1. FROM \in Nat /\ CAP_MEMORY \in Nat /\ LEN_FROM \in Nat
    BY Halves DEF IInv
  <2> QED
    BY <1>1, <1>2, <1>4, <1>5, <2>1 DEF Half
<1> QED
  BY <1>1, <1>2, <1>3, <1>5, <1>6

LEMMA WriteInv ==
  ASSUME IInv, pc = "run", NEW v \in Locals, NEW k, HasWord(v, k),
         NEW w \in Word, w.kind \in DataKinds, w.kind = "pointer" => NewBlock(w.val),
         MEMORY' = [MEMORY EXCEPT ![local[v] + k] = w],
         UNCHANGED <<FROM, LEN_FROM, STACK, local, pc, i, j, pending>>
  PROVE  IInv'
<1> DEFINE p == local[v] + k
<1>1. p \in Half(FROM) /\ p \in Addr /\ MEMORY[p].kind \in DataKinds
  BY ClientWord, Halves DEF IInv, Settled
<1>2. MEMORY' \in [Addr -> Word] /\ MEMORY'[p] = w /\ \A x \in Addr : x # p => MEMORY'[x] = MEMORY[x]
  BY <1>1 DEF IInv, Types
<1> HIDE DEF p
<1>3. /\ Half(FROM)' = Half(FROM) /\ Half(TO)' = Half(TO)
      /\ Half(FROM) \subseteq Addr /\ Half(TO) \subseteq Addr
      /\ \A x \in Half(TO) : x \notin Half(FROM)
  BY Halves DEF IInv, Half, TO
<1>4. \A x \in Addr : MEMORY[x].kind \in {"header", "forward"} \/ MEMORY'[x].kind \in {"header", "forward"}
                      => MEMORY'[x] = MEMORY[x]
  BY <1>1, <1>2 DEF DataKinds
<1>5. \A x \in Addr : MEMORY[x].kind \in DataKinds => MEMORY'[x].kind \in DataKinds
  BY <1>1, <1>2
<1>6. \A x \in Addr : NewBlock(x) => NewBlock(x)'
  BY <1>3, <1>4 DEF NewBlock
<1>7. Types'
  BY <1>2 DEF IInv, Types
<1>8. Shaped'
  <2> SUFFICES ASSUME NEW a \in Addr, MEMORY'[a].kind \in {"header", "forward"}
               PROVE  /\ MEMORY'[a].val >= 1
                      /\ a \in Half(FROM) => a + MEMORY'[a].val \in Half(FROM)
                      /\ a \in Half(TO) => a + MEMORY'[a].val \in Half(TO)
                      /\ \A n \in 1 .. MEMORY'[a].val : MEMORY'[a + n].kind \in DataKinds
    BY <1>3 DEF Shaped, Addr
  <2>1. MEMORY'[a] = MEMORY[a]
    BY <1>4
  <2>2. \A n \in 1 .. MEMORY[a].val : a + n \in Addr
    BY <2>1, BlockWords DEF IInv
  <2> QED
    BY <1>5, <2>1, <2>2 DEF IInv, Shaped
<1>9. Covered'
  <2>1. \A x \in FROM .. FROM + LEN_FROM - 1 :
          \E a \in FROM .. x : MEMORY'[a].kind = "header" /\ x <= a + MEMORY'[a].val
    <3> SUFFICES ASSUME NEW x \in FROM .. FROM + LEN_FROM - 1
                 PROVE  \E a \in FROM .. x : MEMORY'[a].kind = "header" /\ x <= a + MEMORY'[a].val
      OBVIOUS
    <3>1. PICK a \in FROM .. x : MEMORY[a].kind = "header" /\ x <= a + MEMORY[a].val
      BY DEF IInv, Covered
    <3>2. a \in Addr
      BY Halves DEF IInv, Half
    <3> QED
      BY <1>4, <3>1, <3>2
  <2>2. \A x \in FROM + LEN_FROM .. FROM + CAP_MEMORY - 1 : MEMORY'[x].kind = "free"
    <3> SUFFICES ASSUME NEW x \in FROM + LEN_FROM .. FROM + CAP_MEMORY - 1
                 PROVE  MEMORY'[x].kind = "free"
      OBVIOUS
    <3>1. MEMORY[x].kind = "free" /\ x \in Addr
      BY Halves DEF IInv, Covered, Half
    <3> QED
      BY <1>1, <1>2, <3>1 DEF DataKinds
  <2>3. \A x \in Half(FROM) : MEMORY'[x].kind # "forward"
    BY <1>3, <1>4 DEF IInv, Covered
  <2> QED
    BY <1>3, <2>1, <2>2, <2>3 DEF Covered
<1>10. SettledInv'
  <2>1. \A x \in Half(TO) : MEMORY'[x].kind = "free"
    BY <1>1, <1>2, <1>3 DEF IInv, SettledInv, Settled
  <2>2. \A x \in Half(FROM) : MEMORY'[x].kind = "pointer" => NewBlock(MEMORY'[x].val)
    BY <1>1, <1>2, <1>3 DEF IInv, SettledInv, Settled
  <2>3. \A a : NewBlock(a) => NewBlock(a)'
    BY <1>3, <1>6 DEF NewBlock
  <2> QED
    BY <1>3, <2>1, <2>2, <2>3 DEF IInv, SettledInv, Settled
<1>11. RootsInv' /\ PendingInv' /\ EndInv'
  BY DEF IInv, RootsInv, PendingInv, EndInv, Collecting
<1> QED
  BY <1>7, <1>8, <1>9, <1>10, <1>11, NotCollecting DEF IInv

LEMMA StoreLiteralInv ==
  ASSUME IInv, NEW v \in Locals, NEW k, NEW x \in Literals, StoreLiteral(v, k, x)
  PROVE  IInv'
<1>1. W("literal", x) \in Word /\ W("literal", x).kind = "literal"
  BY LiteralsAssumption DEF W, Word
<1> QED
  BY <1>1, WriteInv DEF StoreLiteral, DataKinds

LEMMA StorePointerInv ==
  ASSUME IInv, NEW v \in Locals, NEW w \in Locals, NEW k, StorePointer(v, k, w)
  PROVE  IInv'
<1>1. NewBlock(local[w])
  BY DEF StorePointer, IInv, SettledInv, Settled
<1>2. local[w] \in Nat
  BY <1>1, Halves DEF NewBlock, IInv
<1>3. /\ W("pointer", local[w]) \in Word /\ W("pointer", local[w]).kind = "pointer"
      /\ W("pointer", local[w]).val = local[w]
  BY <1>2 DEF W, Word
<1> QED
  BY <1>1, <1>3, WriteInv DEF StorePointer, DataKinds

LEMMA LoadPointerInv ==
  ASSUME IInv, NEW v \in Locals, NEW w \in Locals, NEW k, LoadPointer(w, v, k)
  PROVE  IInv'
<1>1. pc = "run" /\ Settled /\ HasWord(v, k)
  BY DEF LoadPointer, Settled
<1>2. NewBlock(MEMORY[local[v] + k].val)
  BY <1>1, ClientWord DEF LoadPointer, IInv, SettledInv
<1>3. MEMORY[local[v] + k].val \in Addr /\ MEMORY[local[v] + k].val # Nil
  BY <1>2, Halves, NilAssumption DEF NewBlock, IInv
<1>4. local' \in [Locals -> Addr \cup {Nil}]
  BY <1>3 DEF LoadPointer, IInv, Types
<1>5. \A u \in Locals : local'[u] = IF u = w THEN MEMORY[local[v] + k].val ELSE local[u]
  BY DEF LoadPointer, IInv, Types
<1>6. \A u \in Locals : local'[u] # Nil => NewBlock(local'[u])
  BY <1>1, <1>2, <1>5 DEF IInv, SettledInv
<1>7. \A n \in 1 .. Len(STACK) : STACK[n] \in Locals /\ local'[STACK[n]] # Nil
  BY <1>3, <1>5 DEF IInv, Types, RootsInv
<1> QED
  BY <1>1, <1>4, <1>6, <1>7, SameMemoryInv DEF LoadPointer, IInv, Types, RootsInv

\* What alloc leaves in memory: the new block, and its address in the word it is
\* assigned to, if it is assigned to one.
Placed(b, size, target) ==
  /\ MEMORY' \in [Addr -> Word]
  /\ MEMORY'[b].kind = "header" /\ MEMORY'[b].val = size
  /\ \A k \in 1 .. size : MEMORY'[b + k].kind = "unset" /\ MEMORY'[b + k].val = 0
  /\ target # -1 => MEMORY'[target].kind = "pointer" /\ MEMORY'[target].val = b
  /\ \A x \in Addr : x \notin (b .. b + size) \cup {target} => MEMORY'[x] = MEMORY[x]

LEMMA PlacedInv ==
  ASSUME IInv, pc \in {"run", "resume"}, pc' = "run", pending'.op = "none", pending' \in Request,
         NEW size \in Sizes, Fits(size), NEW target,
         target # -1 => /\ target \in FROM .. FROM + LEN_FROM - 1
                        /\ MEMORY[target].kind \in DataKinds,
         Placed(FROM + LEN_FROM, size, target),
         LEN_FROM' = LEN_FROM + 1 + size,
         local' \in [Locals -> Addr \cup {Nil}],
         \A v \in Locals : local'[v] = local[v] \/ local'[v] = FROM + LEN_FROM,
         UNCHANGED <<FROM, STACK, i, j>>
  PROVE  IInv'
<1> DEFINE b == FROM + LEN_FROM
<1>1. /\ size \in Nat /\ size >= 1 /\ FROM \in Nat /\ LEN_FROM \in Nat /\ CAP_MEMORY \in Nat
      /\ LEN_FROM + 1 + size <= CAP_MEMORY
  BY Halves, SizesAssumption DEF IInv, Fits, BLOCK_HEADER_SIZE
<1>2. /\ Half(FROM)' = Half(FROM) /\ Half(TO)' = Half(TO)
      /\ Half(FROM) \subseteq Addr /\ Half(TO) \subseteq Addr
      /\ \A x \in Half(TO) : x \notin Half(FROM)
      /\ \A x : x \in Half(FROM) <=> x \in FROM .. FROM + CAP_MEMORY - 1
  BY Halves DEF IInv, Half, TO
<1>3. b .. b + size \subseteq FROM + LEN_FROM .. FROM + CAP_MEMORY - 1
  BY <1>1
<1>4. b \in Nat /\ b \in Half(FROM) /\ b + size \in Half(FROM) /\ b \in Addr
  BY <1>1, <1>2
<1>5. \A x \in b .. b + size : x \in Half(FROM) /\ MEMORY[x].kind = "free"
  BY <1>1, <1>2, <1>3 DEF IInv, Covered
<1>6. target # -1 => target \in Half(FROM) /\ target < b /\ target \notin b .. b + size
  BY <1>1, <1>2
<1>7. /\ MEMORY'[b].kind = "header" /\ MEMORY'[b].val = size
      /\ \A k \in 1 .. size : MEMORY'[b + k].kind = "unset"
      /\ target # -1 => MEMORY'[target].kind = "pointer" /\ MEMORY'[target].val = b
      /\ \A x \in Addr : x \notin (b .. b + size) \cup {target} => MEMORY'[x] = MEMORY[x]
  BY DEF Placed
<1> HIDE DEF b
<1>8. \A x \in Addr : MEMORY[x].kind \in {"header", "forward"} =>
        MEMORY'[x] = MEMORY[x] /\ x \notin b .. b + size /\ x # target
  BY <1>5, <1>7, Halves DEF DataKinds, IInv
<1>9. \A x \in b .. b + size : x # b => x - b \in 1 .. size /\ x = b + (x - b)
  BY <1>1, <1>4
<1>10. \A x \in Addr : MEMORY'[x].kind \in {"header", "forward"} => x = b \/ MEMORY'[x] = MEMORY[x]
  <2> SUFFICES ASSUME NEW x \in Addr, MEMORY'[x].kind \in {"header", "forward"}, x # b
               PROVE  MEMORY'[x] = MEMORY[x]
    OBVIOUS
  <2>1. CASE x \in b .. b + size
    BY <1>7, <1>9, <2>1
  <2>2. CASE x = target
    BY <1>7, <2>2, Halves DEF IInv
  <2> QED
    BY <1>7, <2>1, <2>2
<1>11. \A x \in Addr : MEMORY[x].kind \in DataKinds => MEMORY'[x].kind \in DataKinds
  <2> SUFFICES ASSUME NEW x \in Addr, MEMORY[x].kind \in DataKinds PROVE MEMORY'[x].kind \in DataKinds
    OBVIOUS
  <2>1. x \notin b .. b + size
    BY <1>5 DEF DataKinds
  <2>2. x \in Nat
    BY Halves DEF IInv
  <2> QED
    BY <1>7, <2>1, <2>2 DEF DataKinds
<1>12. \A x : NewBlock(x) => NewBlock(x)'
  BY <1>2, <1>8 DEF NewBlock
<1>13. \A x : x = b => NewBlock(x)'
  BY <1>2, <1>4, <1>7 DEF NewBlock
<1>14. Types'
  BY <1>1 DEF IInv, Types, Placed, TO
<1>15. Shaped'
  <2> SUFFICES ASSUME NEW a \in Addr, MEMORY'[a].kind \in {"header", "forward"}
               PROVE  /\ MEMORY'[a].val >= 1
                      /\ a \in Half(FROM) => a + MEMORY'[a].val \in Half(FROM)
                      /\ a \in Half(TO) => a + MEMORY'[a].val \in Half(TO)
                      /\ \A n \in 1 .. MEMORY'[a].val : MEMORY'[a + n].kind \in DataKinds
    BY <1>2 DEF Shaped, Addr
  <2>1. CASE a = b
    BY <1>1, <1>2, <1>4, <1>7, <2>1 DEF DataKinds
  <2>2. CASE MEMORY'[a] = MEMORY[a]
    <3>1. \A n \in 1 .. MEMORY[a].val : a + n \in Addr
      BY <2>2, BlockWords DEF IInv
    <3> QED
      BY <1>11, <2>2, <3>1 DEF IInv, Shaped
  <2> QED
    BY <1>10, <2>1, <2>2
<1>16. Covered'
  <2>1. \A x \in FROM .. FROM + LEN_FROM' - 1 :
          \E a \in FROM .. x : MEMORY'[a].kind = "header" /\ x <= a + MEMORY'[a].val
    <3> SUFFICES ASSUME NEW x \in FROM .. FROM + LEN_FROM' - 1
                 PROVE  \E a \in FROM .. x : MEMORY'[a].kind = "header" /\ x <= a + MEMORY'[a].val
      OBVIOUS
    <3>1. CASE x < b
      <4>1. x \in FROM .. FROM + LEN_FROM - 1
        BY <1>1, <3>1 DEF b
      <4>2. PICK a \in FROM .. x : MEMORY[a].kind = "header" /\ x <= a + MEMORY[a].val
        BY <4>1 DEF IInv, Covered
      <4>3. a \in Addr
        BY <1>1, <1>2, <4>1
      <4> QED
        BY <1>8, <4>2, <4>3
    <3>2. CASE x >= b
      <4>1. b \in FROM .. x /\ x <= b + size
        BY <1>1, <3>2 DEF b
      <4> QED
        BY <1>7, <4>1
    <3> QED
      BY <1>1, <1>4, <3>1, <3>2
  <2>2. \A x \in FROM + LEN_FROM' .. FROM + CAP_MEMORY - 1 : MEMORY'[x].kind = "free"
    <3> SUFFICES ASSUME NEW x \in FROM + LEN_FROM' .. FROM + CAP_MEMORY - 1
                 PROVE  MEMORY'[x].kind = "free"
      OBVIOUS
    <3>1. x \in FROM + LEN_FROM .. FROM + CAP_MEMORY - 1 /\ x \notin b .. b + size /\ x # target
      BY <1>1 DEF b
    <3>2. MEMORY[x].kind = "free" /\ x \in Addr
      BY <1>1, <1>2, <3>1 DEF IInv, Covered
    <3> QED
      BY <1>7, <3>1, <3>2
  <2>3. \A x \in Half(FROM) : MEMORY'[x].kind # "forward"
    BY <1>2, <1>7, <1>10 DEF IInv, Covered
  <2> QED
    BY <1>2, <2>1, <2>2, <2>3 DEF Covered
<1>17. SettledInv'
  <2>1. Settled
    BY DEF Settled
  <2>2. \A x \in Half(TO) : MEMORY'[x].kind = "free"
    <3> SUFFICES ASSUME NEW x \in Half(TO) PROVE MEMORY'[x].kind = "free"
      OBVIOUS
    <3>1. x \notin b .. b + size /\ x # target /\ x \in Addr
      BY <1>2, <1>5, <1>6, Halves DEF IInv
    <3> QED
      BY <1>7, <2>1, <3>1 DEF IInv, SettledInv
  <2>3. \A x \in Half(FROM) : MEMORY'[x].kind = "pointer" => NewBlock(MEMORY[x].val)'
    <3> SUFFICES ASSUME NEW x \in Half(FROM), MEMORY'[x].kind = "pointer"
                 PROVE  NewBlock(MEMORY[x].val)'
      OBVIOUS
    <3>1. x \notin b .. b + size
      BY <1>7, <1>9
    <3>2. CASE x = target
      <4>1. MEMORY'[x].val = b
        BY <1>2, <1>7, <3>2, Halves DEF IInv
      <4> QED
        BY <1>13, <4>1
    <3>3. CASE MEMORY'[x] = MEMORY[x]
      BY <1>12, <2>1, <3>3 DEF IInv, SettledInv
    <3> QED
      BY <1>2, <1>7, <3>1, <3>2, <3>3
  <2>4. \A v \in Locals : local'[v] # Nil => NewBlock(local[v])'
    BY <1>12, <1>13, <2>1 DEF IInv, SettledInv, b
  <2> QED
    BY <1>2, <2>2, <2>3, <2>4 DEF SettledInv
<1>18. RootsInv'
  <2>1. \A n \in 1 .. Len(STACK) : STACK[n] \in Locals
    BY DEF IInv, Types
  <2> QED
    BY <1>4, <2>1, NilAssumption DEF IInv, RootsInv, b
<1>19. PendingInv' /\ EndInv'
  BY DEF PendingInv, EndInv, Collecting
<1> QED
  BY <1>14, <1>15, <1>16, <1>17, <1>18, <1>19, NotCollecting DEF IInv

\* The word alloc's result is assigned to, if it is not a local.
PlaceTarget(r) == IF r.op = "local" THEN -1 ELSE local[r.v] + r.k

LEMMA PlaceLeaves ==
  ASSUME IInv, Settled, NEW r, r.op \in {"local", "field"}, r.v \in Locals, r.size \in Sizes,
         Fits(r.size), r.op = "field" => HasWord(r.v, r.k), Place(r),
         NEW target, target = PlaceTarget(r)
  PROVE  /\ r.size \in Nat /\ r.size >= 1 /\ LEN_FROM' = LEN_FROM + 1 + r.size
         /\ FROM + LEN_FROM .. FROM + LEN_FROM + r.size \subseteq Half(FROM)
         /\ Placed(FROM + LEN_FROM, r.size, target)
         /\ target # -1 => /\ target \in FROM .. FROM + LEN_FROM - 1
                           /\ MEMORY[target].kind \in DataKinds
         /\ r.op = "local" => local' = [local EXCEPT ![r.v] = FROM + LEN_FROM]
         /\ r.op = "field" => local' = local /\ target # -1
         /\ local' \in [Locals -> Addr \cup {Nil}]
         /\ \A v \in Locals : local'[v] = local[v] \/ local'[v] = FROM + LEN_FROM
<1> DEFINE b == FROM + LEN_FROM
           size == r.size
           placed == [a \in Addr |-> IF a = b THEN W("header", size)
                                     ELSE IF a \in b + 1 .. b + size THEN W("unset", 0)
                                     ELSE MEMORY[a]]
<1>1. /\ size \in Nat /\ size >= 1 /\ FROM \in Nat /\ LEN_FROM \in Nat /\ CAP_MEMORY \in Nat
      /\ LEN_FROM + 1 + size <= CAP_MEMORY /\ b \in Nat
  <2>1. size \in Nat /\ size >= 1
    <3>1. \A n \in Sizes : n \in Nat /\ n >= 1
      BY SizesAssumption
    <3> QED
      BY <3>1
  <2>2. FROM \in Nat /\ LEN_FROM \in Nat /\ CAP_MEMORY \in Nat
    BY Halves DEF IInv
  <2>3. LEN_FROM + 1 + size <= CAP_MEMORY
    BY DEF Fits, BLOCK_HEADER_SIZE
  <2> QED
    BY <2>1, <2>2, <2>3
<1>2. b .. b + size \subseteq Half(FROM) /\ Half(FROM) \subseteq Addr
  BY <1>1, Halves DEF IInv, Half
<1>3. LEN_FROM' = LEN_FROM + 1 + size
  BY DEF Place, BLOCK_HEADER_SIZE
<1>4. placed \in [Addr -> Word]
  <2>1. W("header", size) \in Word /\ W("unset", 0) \in Word
    BY <1>1 DEF W, Word
  <2> QED
    BY <2>1, WordTypes DEF IInv
<1>5. /\ placed[b].kind = "header" /\ placed[b].val = size
      /\ \A k \in 1 .. size : placed[b + k].kind = "unset" /\ placed[b + k].val = 0
      /\ \A x \in Addr : x \notin b .. b + size => placed[x] = MEMORY[x]
  <2>1. b \in Addr /\ placed[b] = [kind |-> "header", val |-> size]
    BY <1>1, <1>2 DEF W
  <2>2. \A k \in 1 .. size : b + k \in Addr /\ b + k # b /\ b + k \in b + 1 .. b + size
    BY <1>1, <1>2
  <2>3. \A x \in Addr : x \notin b .. b + size => x # b /\ x \notin b + 1 .. b + size
    BY <1>1
  <2> QED
    BY <2>1, <2>2, <2>3 DEF W
<1> HIDE DEF placed
<1>6. CASE r.op = "local"
  <2>1. local' = [local EXCEPT ![r.v] = b] /\ MEMORY' = placed
    BY <1>6 DEF Place, placed
  <2>2. Placed(b, size, -1)
    BY <1>4, <1>5, <2>1 DEF Placed
  <2>3. local' \in [Locals -> Addr \cup {Nil}] /\ \A v \in Locals : local'[v] = local[v] \/ local'[v] = b
    BY <1>1, <1>2, <2>1 DEF IInv, Types
  <2> QED
    BY <1>1, <1>2, <1>3, <1>6, <2>1, <2>2, <2>3 DEF PlaceTarget
<1>7. CASE r.op = "field"
  <2>1. target = local[r.v] + r.k
    BY <1>7 DEF PlaceTarget
  <2>2. local' = local /\ MEMORY' = [placed EXCEPT ![target] = W("pointer", b)]
    BY <1>7, <2>1 DEF Place, placed
  <2>3. /\ target \in FROM .. FROM + LEN_FROM - 1 /\ target \in Addr
        /\ MEMORY[target].kind \in DataKinds
    <3>1. target \in Half(FROM) /\ target < FROM + LEN_FROM /\ MEMORY[target].kind \in DataKinds
      BY <1>7, <2>1, ClientWord
    <3> QED
      BY <1>1, <1>2, <3>1 DEF Half
  <2>4. W("pointer", b) \in Word
    BY <1>1 DEF W, Word
  <2>5. /\ MEMORY' \in [Addr -> Word]
        /\ MEMORY'[target].kind = "pointer" /\ MEMORY'[target].val = b
        /\ \A x \in Addr : x # target => MEMORY'[x] = placed[x]
    BY <1>4, <2>2, <2>3, <2>4 DEF W
  <2>6. \A k \in 0 .. size : b + k \in Addr /\ b + k # target
    BY <1>1, <1>2, <2>3
  <2>7. Placed(b, size, target)
    <3>1. b \in Addr /\ b # target
      BY <1>1, <1>2, <2>3
    <3> QED
      BY <1>5, <2>5, <2>6, <3>1 DEF Placed
  <2>8. local' \in [Locals -> Addr \cup {Nil}] /\ \A v \in Locals : local'[v] = local[v] \/ local'[v] = b
    BY <2>2 DEF IInv, Types
  <2>9. target # -1
    BY <1>1, <2>3
  <2> QED
    BY <1>1, <1>2, <1>3, <1>7, <2>2, <2>3, <2>7, <2>8, <2>9
<1> QED
  BY <1>6, <1>7

LEMMA PlaceInv ==
  ASSUME IInv, pc \in {"run", "resume"}, pc' = "run", pending'.op = "none", pending' \in Request,
         NEW r, r.op \in {"local", "field"}, r.v \in Locals, r.size \in Sizes, Fits(r.size),
         r.op = "field" => HasWord(r.v, r.k),
         Place(r), UNCHANGED <<FROM, STACK, i, j>>
  PROVE  IInv'
<1>1. PICK target : target = PlaceTarget(r)
  OBVIOUS
<1>2. Settled
  BY DEF Settled
<1> QED
  BY <1>1, <1>2, PlaceLeaves, PlacedInv

\* The halves change places: the one in use becomes the old one, and the other is empty.
LEMMA SwapInv ==
  ASSUME IInv, pc = "run", Swap, pending' \in Request,
         pending'.op # "none" => pending'.v \in Locals /\ pending'.size \in Sizes,
         pending'.op = "field" => HasWord(pending'.v, pending'.k) /\ pending'.v \in Registered
  PROVE  IInv'
<1>1. /\ FROM' = TO /\ TO' = FROM /\ LEN_FROM' = 0 /\ pc' = "roots" /\ i' = 0 /\ j' = 0
      /\ UNCHANGED <<MEMORY, STACK, local>>
      /\ CAP_MEMORY \in Nat /\ FROM \in Nat /\ TO \in Nat
  BY Halves DEF IInv, Types, Swap, TO
<1>2. /\ Half(FROM)' = Half(TO) /\ Half(TO)' = Half(FROM)
      /\ Half(FROM) \subseteq Addr /\ Half(TO) \subseteq Addr
  BY <1>1, Halves DEF IInv, Half
<1>3. \A x : OldBlock(x)' <=> NewBlock(x)
  BY <1>1, <1>2 DEF OldBlock, NewBlock
<1>4. /\ \A x \in Half(TO) : MEMORY[x].kind = "free"
      /\ \A x \in Half(FROM) : MEMORY[x].kind = "pointer" => NewBlock(MEMORY[x].val)
      /\ \A v \in Locals : local[v] # Nil => NewBlock(local[v])
      /\ \A x \in Half(FROM) : MEMORY[x].kind # "forward"
  BY DEF IInv, SettledInv, Settled, Covered
<1>5. Types'
  BY <1>1 DEF IInv, Types, TO
<1>6. Shaped'
  BY <1>1, <1>2 DEF IInv, Shaped
<1>7. Covered'
  <2>1. \A x \in TO + 0 .. TO + CAP_MEMORY - 1 : MEMORY[x].kind = "free"
    BY <1>1, <1>4 DEF Half
  <2> QED
    BY <1>1, <1>2, <1>4, <2>1 DEF Covered
<1>8. SettledInv' /\ ScanInv'
  BY <1>1 DEF SettledInv, Settled, ScanInv
<1>9. RootsInv'
  <2>1. \A n \in 1 .. Len(STACK) : STACK[n] \in Locals /\ OldBlock(local[STACK[n]])'
    BY <1>1, <1>3, <1>4 DEF IInv, Types, RootsInv
  <2> QED
    BY <1>1, <2>1 DEF IInv, RootsInv, Types
<1>10. CopiesInv'
  BY <1>1, <1>2, <1>4 DEF CopiesInv
<1>11. OriginalsInv'
  <2> SUFFICES ASSUME NEW a \in Half(FROM), MEMORY[a].kind = "header",
                      NEW k \in 1 .. MEMORY[a].val, MEMORY[a + k].kind = "pointer"
               PROVE  OldBlock(MEMORY[a + k].val)'
    BY <1>1, <1>2, <1>4 DEF OriginalsInv
  <2>1. a + k \in Half(FROM)
    BY <1>2, BlockWords DEF IInv
  <2> QED
    BY <1>1, <1>3, <1>4, <2>1
<1>12. RoomInv'
  <2>1. Moved' = {}
    BY <1>1, <1>2, <1>4 DEF Moved
  <2>2. FootPrint(Moved)' = {}
    BY <2>1 DEF FootPrint
  <2> QED
    BY <1>1, <2>2, FS_EmptySet DEF RoomInv
<1>13. HeldInv'
  BY <1>1, <1>2, <1>4 DEF HeldInv
<1>14. PendingInv' /\ EndInv'
  BY <1>1 DEF PendingInv, EndInv, HasWord, Registered
<1> QED
  BY <1>5, <1>6, <1>7, <1>8, <1>9, <1>10, <1>11, <1>12, <1>13, <1>14 DEF IInv

LEMMA AllocInv ==
  ASSUME IInv, NEW v \in Locals, NEW r \in Requests(v), alloc(r)
  PROVE  IInv'
<1>1. /\ r.op \in {"local", "field"} /\ r.v = v /\ r.size \in Sizes /\ r \in Request
      /\ r.op = "field" => HasWord(v, r.k) /\ v \in Registered
      /\ pc = "run" /\ pending.op = "none" /\ pending \in Request
  <2>1. pc = "run" /\ pending.op = "none" /\ pending \in Request
    BY DEF alloc, IInv, PendingInv, Types
  <2>2. CASE r \in {[op |-> "local", v |-> v, k |-> 0, size |-> n] : n \in Sizes}
    <3>1. PICK n \in Sizes : r = [op |-> "local", v |-> v, k |-> 0, size |-> n]
      BY <2>2
    <3> QED
      BY <2>1, <3>1, SizesAssumption DEF Request
  <2>3. CASE r \in {[op |-> "field", v |-> v, k |-> k, size |-> n] : k \in Words, n \in Sizes}
    <3>1. PICK k \in Words, n \in Sizes : r = [op |-> "field", v |-> v, k |-> k, size |-> n]
      BY <2>3
    <3>2. HasWord(v, k) /\ v \in Registered
      BY <3>1 DEF alloc
    <3>3. k \in Nat
      BY <2>1, <3>2, ClientWord DEF Settled
    <3> QED
      BY <2>1, <3>1, <3>2, <3>3, SizesAssumption DEF Request
  <2> QED
    BY <2>1, <2>2, <2>3 DEF Requests
<1>2. CASE Fits(r.size) /\ Place(r) /\ UNCHANGED <<FROM, STACK, pc, i, j, pending>>
  BY <1>1, <1>2, PlaceInv
<1>3. CASE Swap /\ pending' = r
  BY <1>1, <1>3, SwapInv
<1> QED
  BY <1>2, <1>3 DEF alloc

LEMMA CollectInv == ASSUME IInv, collect PROVE IInv'
<1>1. pending' = pending /\ pending.op = "none" /\ pending \in Request /\ pc = "run" /\ Swap
  BY DEF collect, IInv, PendingInv, Types
<1> QED
  BY <1>1, SwapInv

LEMMA ResumeInv == ASSUME IInv, alloc_resume PROVE IInv'
<1>1. pc = "resume" /\ pending.op \in {"local", "field"} /\ pending.v \in Locals
      /\ pending.size \in Sizes
  BY DEF alloc_resume, IInv, PendingInv, Types, Request
<1>2. pending.op = "field" => HasWord(pending.v, pending.k)
  <2>1. ASSUME pending.op = "field"
        PROVE  /\ pending.v \in Registered /\ pending.k \in 1 .. MEMORY[local[pending.v]].val
    BY <1>1, <2>1 DEF IInv, PendingInv
  <2>2. \A w \in Registered : local[w] # Nil
    BY DEF IInv, RootsInv, Registered, Types
  <2> QED
    BY <2>1, <2>2 DEF HasWord
<1>3. CASE Fits(pending.size) /\ Place(pending) /\ pc' = "run" /\ pending' = None
  <2>1. None \in Request /\ None.op = "none"
    BY DEF None, Request
  <2> QED
    BY <1>1, <1>2, <1>3, <2>1, PlaceInv DEF alloc_resume
<1>4. CASE /\ ~Fits(pending.size) /\ pc' = "exit_alloc"
           /\ UNCHANGED <<MEMORY, LEN_FROM, local, name, pending>>
  <2>1. UNCHANGED <<MEMORY, LEN_FROM, local, pending, FROM, STACK, i, j>>
    BY <1>4 DEF alloc_resume
  <2>2. Types' /\ TO' = TO
    BY <1>4, <2>1 DEF IInv, Types, Terminal, TO
  <2>3. Half(FROM)' = Half(FROM) /\ Half(TO)' = Half(TO) /\ (\A a : NewBlock(a)' <=> NewBlock(a))
    BY <2>1, <2>2 DEF Half, NewBlock
  <2>4. Shaped' /\ Covered'
    BY <2>1, <2>3 DEF IInv, Shaped, Covered
  <2>5. SettledInv'
    BY <1>1, <1>4, <2>1, <2>3 DEF IInv, SettledInv, Settled
  <2>6. RootsInv' /\ ScanInv' /\ CopiesInv' /\ OriginalsInv' /\ RoomInv'
    BY <1>4, <2>1 DEF IInv, RootsInv, ScanInv, CopiesInv, OriginalsInv, RoomInv, Collecting
  <2>7. HeldInv'
    BY <1>1, <1>4, <2>1, <2>3 DEF IInv, HeldInv, HeldByRoot, HeldByWord
  <2>8. PendingInv' /\ EndInv'
    BY <1>1, <1>4, <2>1 DEF IInv, PendingInv, EndInv, Fits, Collecting
  <2> QED
    BY <2>2, <2>4, <2>5, <2>6, <2>7, <2>8 DEF IInv
<1> QED
  BY <1>3, <1>4 DEF alloc_resume

-----------------------------------------------------------------------------
(* copy, and the assignment of what it returns to a local or to word at.   *)

\* Memory when the block at old has been copied behind the other copies.
MovedTo(old, at) ==
  LET new == FROM + LEN_FROM
      size == MEMORY[old].val
  IN  /\ MEMORY' \in [Addr -> Word]
      /\ MEMORY'[new].kind = "header" /\ MEMORY'[new].val = size
      /\ \A k \in 1 .. size : MEMORY'[new + k] = MEMORY[old + k]
      /\ MEMORY'[old].kind = "forward" /\ MEMORY'[old].val = size
      /\ MEMORY'[old + 1].kind = "pointer" /\ MEMORY'[old + 1].val = new
      /\ at # -1 => MEMORY'[at].kind = "pointer" /\ MEMORY'[at].val = new
      /\ \A x \in Addr : x \notin (new .. new + size) \cup {old, old + 1, at} => MEMORY'[x] = MEMORY[x]

\* What the two loops use of a copy, whether it is a new one or was made before.
CopyMade(old, at, new) ==
  /\ MEMORY' \in [Addr -> Word] /\ LEN_FROM' \in LEN_FROM .. CAP_MEMORY
  /\ Shaped' /\ Covered' /\ OriginalsInv' /\ RoomInv'
  /\ \A x : NewBlock(x) => NewBlock(x)' /\ MEMORY'[x].val = MEMORY[x].val
  /\ \A x : OldBlock(x) => OldBlock(x)' /\ MEMORY'[x].val = MEMORY[x].val
  /\ new \in Half(FROM) /\ MEMORY'[new].kind = "header" /\ MEMORY'[new].val = MEMORY[old].val
  /\ new = FROM + LEN_FROM \/ MEMORY[new].kind = "header"
  /\ \A x \in Half(FROM) : MEMORY'[x].kind = "header" => x = new \/ MEMORY[x].kind = "header"
  /\ at # -1 => MEMORY'[at].kind = "pointer" /\ MEMORY'[at].val = new
  /\ \A x \in FROM .. FROM + LEN_FROM - 1 : x # at => MEMORY'[x] = MEMORY[x]
  /\ \A x \in FROM + LEN_FROM .. FROM + CAP_MEMORY - 1 :
       MEMORY'[x].kind = "pointer" => OldBlock(MEMORY'[x].val)

LEMMA MovedInv ==
  ASSUME IInv, Collecting, NEW old \in Half(TO), MEMORY[old].kind = "header", NEW at,
         at # -1 => at \in FROM .. FROM + LEN_FROM - 1 /\ MEMORY[at].kind = "pointer",
         MovedTo(old, at),
         LEN_FROM' = LEN_FROM + 1 + MEMORY[old].val, FROM' = FROM
  PROVE  CopyMade(old, at, FROM + LEN_FROM)
<1> DEFINE new == FROM + LEN_FROM
           size == MEMORY[old].val
<1>1. /\ size \in Nat /\ size >= 1 /\ FROM \in Nat /\ LEN_FROM \in Nat /\ CAP_MEMORY \in Nat
      /\ LEN_FROM + 1 + size <= CAP_MEMORY /\ new \in Nat /\ old \in Nat /\ old \in Addr
      /\ LEN_FROM' \in LEN_FROM .. CAP_MEMORY
  <2>1. /\ size \in Nat /\ FROM \in Nat /\ LEN_FROM \in Nat /\ CAP_MEMORY \in Nat
        /\ old \in Nat /\ old \in Addr
    BY Halves, WordTypes DEF IInv
  <2>2. size >= 1
    BY <2>1 DEF IInv, Shaped
  <2>3. LEN_FROM + 1 + size <= CAP_MEMORY
    BY ItFits DEF Fits, BLOCK_HEADER_SIZE
  <2> QED
    BY <2>1, <2>2, <2>3
<1>2. /\ Half(FROM)' = Half(FROM) /\ Half(TO)' = Half(TO)
      /\ Half(FROM) \subseteq Addr /\ Half(TO) \subseteq Addr
      /\ \A x \in Half(TO) : x \notin Half(FROM)
      /\ \A x : x \in Half(FROM) <=> x \in FROM .. FROM + CAP_MEMORY - 1
  BY Halves DEF IInv, Half, TO
<1>3. \A x \in new .. new + size : x \in Half(FROM) /\ MEMORY[x].kind = "free"
  <2>1. new .. new + size \subseteq FROM + LEN_FROM .. FROM + CAP_MEMORY - 1
    BY <1>1
  <2> QED
    BY <1>1, <1>2, <2>1 DEF IInv, Covered
<1>4. at # -1 => /\ at \in Half(FROM) /\ at \in Addr /\ at < new /\ at \notin new .. new + size
  BY <1>1, <1>2
<1>5. \A k \in 1 .. size : /\ old + k \in Half(TO) /\ old + k \in Addr
                           /\ MEMORY[old + k].kind \in DataKinds
                           /\ MEMORY[old + k].kind = "pointer" => OldBlock(MEMORY[old + k].val)
  <2>1. \A k \in 1 .. size : old + k \in Half(TO) /\ old + k \in Addr
    BY <1>1, <1>2, BlockWords DEF IInv
  <2> QED
    BY <1>1, <2>1 DEF IInv, Shaped, OriginalsInv
<1>6. old + 1 \in Half(TO) /\ MEMORY[old + 1].kind \in DataKinds
  <2>1. 1 \in 1 .. size
    BY <1>1
  <2> QED
    BY <1>5, <2>1
<1>7. /\ MEMORY' \in [Addr -> Word]
      /\ MEMORY'[new].kind = "header" /\ MEMORY'[new].val = size
      /\ \A k \in 1 .. size : MEMORY'[new + k] = MEMORY[old + k]
      /\ MEMORY'[old].kind = "forward" /\ MEMORY'[old].val = size
      /\ MEMORY'[old + 1].kind = "pointer" /\ MEMORY'[old + 1].val = new
      /\ at # -1 => MEMORY'[at].kind = "pointer" /\ MEMORY'[at].val = new
      /\ \A x \in Addr : x \notin (new .. new + size) \cup {old, old + 1, at} => MEMORY'[x] = MEMORY[x]
  BY DEF MovedTo
<1>8. new \in Half(FROM) /\ new \in Addr /\ new + size \in Half(FROM)
  BY <1>1, <1>2
<1>9. \A x \in new .. new + size : x # new => x - new \in 1 .. size /\ x = new + (x - new)
  BY <1>1
<1> HIDE DEF new, size
<1>10. \A x \in Addr : MEMORY[x].kind \in {"header", "forward"} =>
         /\ MEMORY'[x].kind \in {"header", "forward"} /\ MEMORY'[x].val = MEMORY[x].val
         /\ x # old => MEMORY'[x] = MEMORY[x]
  <2> SUFFICES ASSUME NEW x \in Addr, MEMORY[x].kind \in {"header", "forward"}
               PROVE  /\ MEMORY'[x].kind \in {"header", "forward"} /\ MEMORY'[x].val = MEMORY[x].val
                      /\ x # old => MEMORY'[x] = MEMORY[x]
    OBVIOUS
  <2>1. x \notin new .. new + size /\ x # old + 1 /\ x # at
    BY <1>3, <1>6, Halves DEF DataKinds, IInv
  <2> QED
    BY <1>7, <2>1 DEF size
<1>11. \A x \in Addr : MEMORY[x].kind \in DataKinds => MEMORY'[x].kind \in DataKinds
  <2> SUFFICES ASSUME NEW x \in Addr, MEMORY[x].kind \in DataKinds PROVE MEMORY'[x].kind \in DataKinds
    OBVIOUS
  <2>1. x \notin new .. new + size /\ x # old /\ x \in Nat
    BY <1>3, Halves DEF DataKinds, IInv
  <2> QED
    BY <1>7, <2>1 DEF DataKinds
<1>12. \A x \in Addr : MEMORY'[x].kind \in {"header", "forward"} =>
         x = new \/ MEMORY[x].kind \in {"header", "forward"}
  <2> SUFFICES ASSUME NEW x \in Addr, MEMORY'[x].kind \in {"header", "forward"}, x # new
               PROVE  MEMORY[x].kind \in {"header", "forward"}
    OBVIOUS
  <2>1. x \notin new .. new + size
    <3> SUFFICES ASSUME x \in new .. new + size PROVE FALSE
      OBVIOUS
    <3>1. PICK k \in 1 .. size : x = new + k
      BY <1>9
    <3> QED
      BY <1>5, <1>7, <3>1 DEF DataKinds
  <2>2. x # old + 1 /\ x # at
    BY <1>7, Halves DEF IInv
  <2> QED
    BY <1>7, <2>1, <2>2
<1>13. \A x : NewBlock(x) => NewBlock(x)' /\ MEMORY'[x].val = MEMORY[x].val
  BY <1>2, <1>10 DEF NewBlock
<1>14. \A x : OldBlock(x) => OldBlock(x)' /\ MEMORY'[x].val = MEMORY[x].val
  BY <1>2, <1>10 DEF OldBlock
<1>15. \A x \in FROM .. FROM + LEN_FROM - 1 : x # at => MEMORY'[x] = MEMORY[x]
  <2> SUFFICES ASSUME NEW x \in FROM .. FROM + LEN_FROM - 1, x # at PROVE MEMORY'[x] = MEMORY[x]
    OBVIOUS
  <2>1. x \in Half(FROM) /\ x \notin new .. new + size
    BY <1>1, <1>2 DEF new
  <2>2. x # old /\ x # old + 1
    BY <1>2, <1>6, <2>1
  <2> QED
    BY <1>2, <1>7, <2>1, <2>2
<1>16. \A x \in FROM + LEN_FROM .. FROM + CAP_MEMORY - 1 :
         /\ x \in new .. new + size \/ MEMORY'[x].kind = "free"
         /\ MEMORY'[x].kind = "pointer" => OldBlock(MEMORY'[x].val)
  <2> SUFFICES ASSUME NEW x \in FROM + LEN_FROM .. FROM + CAP_MEMORY - 1
               PROVE  /\ x \in new .. new + size \/ MEMORY'[x].kind = "free"
                      /\ MEMORY'[x].kind = "pointer" => OldBlock(MEMORY'[x].val)
    OBVIOUS
  <2>1. x \in Half(FROM) /\ MEMORY[x].kind = "free" /\ x \in Nat /\ x >= new
    BY <1>1, <1>2 DEF IInv, Covered, new
  <2>2. CASE x \in new .. new + size /\ x # new
    <3>1. PICK k \in 1 .. size : x = new + k
      BY <1>9, <2>2
    <3> QED
      BY <1>5, <1>7, <2>2, <3>1
  <2>3. CASE x \notin new .. new + size
    <3>1. x # at /\ x # old /\ x # old + 1
      BY <1>2, <1>4, <1>6, <2>1
    <3> QED
      BY <1>2, <1>7, <2>1, <2>3, <3>1
  <2> QED
    BY <1>1, <1>7, <2>1, <2>2, <2>3
<1>17. \A x \in Half(FROM) : /\ MEMORY'[x].kind # "forward"
                             /\ MEMORY'[x].kind = "header" => x = new \/ MEMORY[x].kind = "header"
  <2> SUFFICES ASSUME NEW x \in Half(FROM)
               PROVE  /\ MEMORY'[x].kind # "forward"
                      /\ MEMORY'[x].kind = "header" => x = new \/ MEMORY[x].kind = "header"
    OBVIOUS
  <2>1. MEMORY[x].kind # "forward" /\ x # old
    BY <1>2 DEF IInv, Covered
  <2> QED
    BY <1>2, <1>7, <1>10, <1>12, <2>1
<1>18. Shaped'
  <2> SUFFICES ASSUME NEW a \in Addr, MEMORY'[a].kind \in {"header", "forward"}
               PROVE  /\ MEMORY'[a].val >= 1
                      /\ a \in Half(FROM) => a + MEMORY'[a].val \in Half(FROM)
                      /\ a \in Half(TO) => a + MEMORY'[a].val \in Half(TO)
                      /\ \A n \in 1 .. MEMORY'[a].val : MEMORY'[a + n].kind \in DataKinds
    BY <1>2 DEF Shaped, Addr
  <2>1. CASE a = new
    BY <1>1, <1>2, <1>5, <1>7, <1>8, <2>1
  <2>2. CASE MEMORY[a].kind \in {"header", "forward"}
    <3>1. \A n \in 1 .. MEMORY[a].val : a + n \in Addr
      BY <2>2, BlockWords DEF IInv
    <3>2. MEMORY'[a].val = MEMORY[a].val
      BY <1>10, <2>2
    <3> QED
      BY <1>11, <2>2, <3>1, <3>2 DEF IInv, Shaped
  <2> QED
    BY <1>12, <2>1, <2>2
<1>19. Covered'
  <2>1. \A x \in FROM .. FROM + LEN_FROM' - 1 :
          \E a \in FROM .. x : MEMORY'[a].kind = "header" /\ x <= a + MEMORY'[a].val
    <3> SUFFICES ASSUME NEW x \in FROM .. FROM + LEN_FROM' - 1
                 PROVE  \E a \in FROM .. x : MEMORY'[a].kind = "header" /\ x <= a + MEMORY'[a].val
      OBVIOUS
    <3>1. CASE x < new
      <4>1. x \in FROM .. FROM + LEN_FROM - 1
        BY <1>1, <3>1 DEF new
      <4>2. PICK a \in FROM .. x : MEMORY[a].kind = "header" /\ x <= a + MEMORY[a].val
        BY <4>1 DEF IInv, Covered
      <4>3. a \in Addr /\ a \in Half(FROM) /\ a # old
        BY <1>1, <1>2, <4>1
      <4> QED
        BY <1>10, <4>2, <4>3
    <3>2. CASE x >= new
      <4>1. new \in FROM .. x /\ x <= new + size
        BY <1>1, <3>2 DEF new, size
      <4> QED
        BY <1>7, <4>1
    <3> QED
      BY <1>1, <3>1, <3>2
  <2>2. \A x \in FROM + LEN_FROM' .. FROM + CAP_MEMORY - 1 : MEMORY'[x].kind = "free"
    <3> SUFFICES ASSUME NEW x \in FROM + LEN_FROM' .. FROM + CAP_MEMORY - 1
                 PROVE  MEMORY'[x].kind = "free"
      OBVIOUS
    <3>1. x \in FROM + LEN_FROM .. FROM + CAP_MEMORY - 1 /\ x \notin new .. new + size
      BY <1>1 DEF new, size
    <3> QED
      BY <1>16, <3>1
  <2> QED
    BY <1>2, <1>17, <2>1, <2>2 DEF Covered
<1>20. OriginalsInv'
  <2>1. \A x : x = new => NewBlock(x)'
    BY <1>2, <1>7, <1>8 DEF NewBlock
  <2>2. ASSUME NEW a \in Half(TO), MEMORY'[a].kind = "forward"
        PROVE  /\ NewBlock(MEMORY[a + 1].val)'
               /\ MEMORY'[MEMORY'[a + 1].val].val = MEMORY'[a].val
    <3>1. CASE a = old
      BY <1>7, <2>1, <3>1
    <3>2. CASE a # old
      <4>1. a \in Addr /\ MEMORY[a].kind = "forward" /\ MEMORY'[a] = MEMORY[a]
        BY <1>2, <1>8, <1>10, <1>12, <2>2, <3>2
      <4>2. NewBlock(MEMORY[a + 1].val) /\ MEMORY[MEMORY[a + 1].val].val = MEMORY[a].val
        BY <4>1 DEF IInv, OriginalsInv
      <4>3. a + 1 \in Half(TO) /\ a + 1 # old /\ a + 1 # old + 1
        <5>1. 1 \in 1 .. MEMORY[a].val /\ a \in Nat
          BY <4>1, Halves, WordTypes DEF IInv, Shaped
        <5>2. a + 1 \in Half(TO) /\ MEMORY[a + 1].kind \in DataKinds
          BY <4>1, <5>1, BlockWords DEF IInv, Shaped
        <5> QED
          BY <1>1, <3>2, <5>1, <5>2 DEF DataKinds
      <4>4. MEMORY'[a + 1] = MEMORY[a + 1]
        BY <1>2, <1>3, <1>4, <1>7, <4>3, Halves DEF IInv
      <4> QED
        BY <1>13, <4>1, <4>2, <4>4
    <3> QED
      BY <3>1, <3>2
  <2>3. ASSUME NEW a \in Half(TO), MEMORY'[a].kind = "header",
               NEW k \in 1 .. MEMORY'[a].val, MEMORY'[a + k].kind = "pointer"
        PROVE  OldBlock(MEMORY[a + k].val)'
    <3>1. a # old /\ a # new /\ a \in Addr
      BY <1>2, <1>7, <1>8, <2>3
    <3>2. MEMORY'[a] = MEMORY[a]
      BY <1>10, <1>12, <2>3, <3>1
    <3>3. a + k \in Half(TO) /\ MEMORY[a + k].kind \in DataKinds
      BY <2>3, <3>1, <3>2, BlockWords DEF IInv, Shaped
    <3>4. a + k # old /\ a + k # old + 1
      <4>1. a + k # old
        BY <3>3 DEF DataKinds
      <4>2. a \in Nat /\ MEMORY[a].val \in Nat /\ k \in 1 .. MEMORY[a].val
        BY <3>1, <3>2, Halves, WordTypes DEF IInv
      <4>3. CASE a < old
        <5>1. a + MEMORY[a].val < old
          BY <1>1, <2>3, <3>1, <3>2, <4>3, Apart DEF IInv
        <5> QED
          BY <1>1, <4>2, <5>1
      <4>4. CASE old < a
        <5>1. old + size < a
          BY <1>1, <2>3, <3>1, <3>2, <4>4, Apart DEF IInv, size
        <5> QED
          BY <1>1, <4>2, <5>1
      <4> QED
        BY <1>1, <3>1, <4>1, <4>2, <4>3, <4>4
    <3>5. MEMORY'[a + k] = MEMORY[a + k]
      BY <1>2, <1>3, <1>4, <1>7, <3>3, <3>4, Halves DEF IInv
    <3>6. OldBlock(MEMORY[a + k].val)
      BY <2>3, <3>2, <3>5 DEF IInv, OriginalsInv
    <3> QED
      BY <1>14, <3>5, <3>6
  <2> QED
    BY <1>2, <2>2, <2>3 DEF OriginalsInv
<1>21. RoomInv'
  <2>1. Moved' = Moved \cup {old}
    BY <1>2, <1>7, <1>10, <1>12, <1>8 DEF Moved
  <2>2. \A a \in Moved' : MEMORY'[a].val = MEMORY[a].val
    BY <1>2, <1>10, <2>1 DEF Moved
  <2>3. FootPrint(Moved)' = FootPrint(Moved) \cup (old .. old + MEMORY[old].val)
    BY <2>1, <2>2 DEF FootPrint
  <2> QED
    BY <2>3, ItFits DEF RoomInv
<1> QED
  BY <1>1, <1>7, <1>8, <1>13, <1>14, <1>15, <1>16, <1>17, <1>18, <1>19, <1>20, <1>21
     DEF CopyMade, new, size

LEMMA ForwardedInv ==
  ASSUME IInv, Collecting, NEW old \in Half(TO), MEMORY[old].kind = "forward", NEW at,
         at # -1 => at \in FROM .. FROM + LEN_FROM - 1 /\ MEMORY[at].kind = "pointer",
         MEMORY' \in [Addr -> Word],
         at # -1 => MEMORY'[at].kind = "pointer" /\ MEMORY'[at].val = MEMORY[old + 1].val,
         \A x \in Addr : x # at => MEMORY'[x] = MEMORY[x],
         LEN_FROM' = LEN_FROM, FROM' = FROM
  PROVE  CopyMade(old, at, MEMORY[old + 1].val)
<1> DEFINE new == MEMORY[old + 1].val
<1>1. /\ FROM \in Nat /\ LEN_FROM \in Nat /\ CAP_MEMORY \in Nat /\ LEN_FROM' \in LEN_FROM .. CAP_MEMORY
      /\ Half(FROM)' = Half(FROM) /\ Half(TO)' = Half(TO)
      /\ Half(FROM) \subseteq Addr /\ Half(TO) \subseteq Addr
      /\ \A x \in Half(TO) : x \notin Half(FROM)
      /\ \A x : x \in Half(FROM) <=> x \in FROM .. FROM + CAP_MEMORY - 1
  BY Halves DEF IInv, Half, TO
<1>2. at # -1 => at \in Half(FROM)
  BY <1>1
<1>3. NewBlock(new) /\ MEMORY[new].val = MEMORY[old].val /\ MEMORY[new].kind = "header"
  <2>1. NewBlock(new) /\ MEMORY[new].val = MEMORY[old].val
    BY DEF IInv, OriginalsInv
  <2> QED
    BY <2>1 DEF NewBlock, IInv, Covered
<1> HIDE DEF new
<1>4. \A x \in Addr : x # at => MEMORY'[x] = MEMORY[x]
  OBVIOUS
<1>5. \A x \in Addr : MEMORY[x].kind \in {"header", "forward"} \/ MEMORY'[x].kind \in {"header", "forward"}
                      => MEMORY'[x] = MEMORY[x]
  BY <1>4, Halves DEF IInv
<1>6. \A x \in Addr : MEMORY[x].kind \in DataKinds => MEMORY'[x].kind \in DataKinds
  BY <1>4, Halves DEF IInv, DataKinds
<1>7. \A x : NewBlock(x) => NewBlock(x)' /\ MEMORY'[x].val = MEMORY[x].val
  BY <1>1, <1>5 DEF NewBlock
<1>8. \A x : OldBlock(x) => OldBlock(x)' /\ MEMORY'[x].val = MEMORY[x].val
  BY <1>1, <1>5 DEF OldBlock
<1>9. Shaped'
  <2> SUFFICES ASSUME NEW a \in Addr, MEMORY'[a].kind \in {"header", "forward"}
               PROVE  /\ MEMORY'[a].val >= 1
                      /\ a \in Half(FROM) => a + MEMORY'[a].val \in Half(FROM)
                      /\ a \in Half(TO) => a + MEMORY'[a].val \in Half(TO)
                      /\ \A n \in 1 .. MEMORY'[a].val : MEMORY'[a + n].kind \in DataKinds
    BY <1>1 DEF Shaped, Addr
  <2>1. MEMORY'[a] = MEMORY[a]
    BY <1>5
  <2>2. \A n \in 1 .. MEMORY[a].val : a + n \in Addr
    BY <2>1, BlockWords DEF IInv
  <2> QED
    BY <1>6, <2>1, <2>2 DEF IInv, Shaped
<1>10. Covered'
  <2>1. \A x \in FROM .. FROM + LEN_FROM - 1 :
          \E a \in FROM .. x : MEMORY'[a].kind = "header" /\ x <= a + MEMORY'[a].val
    <3> SUFFICES ASSUME NEW x \in FROM .. FROM + LEN_FROM - 1
                 PROVE  \E a \in FROM .. x : MEMORY'[a].kind = "header" /\ x <= a + MEMORY'[a].val
      OBVIOUS
    <3>1. PICK a \in FROM .. x : MEMORY[a].kind = "header" /\ x <= a + MEMORY[a].val
      BY DEF IInv, Covered
    <3>2. a \in Addr
      BY <1>1
    <3> QED
      BY <1>5, <3>1, <3>2
  <2>2. \A x \in FROM + LEN_FROM .. FROM + CAP_MEMORY - 1 : MEMORY'[x].kind = "free"
    <3> SUFFICES ASSUME NEW x \in FROM + LEN_FROM .. FROM + CAP_MEMORY - 1
                 PROVE  MEMORY'[x].kind = "free"
      OBVIOUS
    <3>1. MEMORY[x].kind = "free" /\ x \in Addr /\ x # -1
      BY <1>1, Halves DEF IInv, Covered
    <3> QED
      BY <1>4, <3>1
  <2>3. \A x \in Half(FROM) : MEMORY'[x].kind # "forward"
    BY <1>1, <1>5 DEF IInv, Covered
  <2> QED
    BY <1>1, <2>1, <2>2, <2>3 DEF Covered
<1>11. \A x \in Half(TO) : MEMORY'[x] = MEMORY[x]
  BY <1>1, <1>2, <1>4, Halves DEF IInv
<1>12. OriginalsInv'
  <2>1. ASSUME NEW a \in Half(TO), MEMORY[a].kind = "forward"
        PROVE  /\ NewBlock(MEMORY[a + 1].val)' /\ MEMORY'[a + 1] = MEMORY[a + 1]
               /\ MEMORY'[MEMORY'[a + 1].val].val = MEMORY'[a].val
    <3>1. NewBlock(MEMORY[a + 1].val) /\ MEMORY[MEMORY[a + 1].val].val = MEMORY[a].val
      BY <2>1 DEF IInv, OriginalsInv
    <3>2. 1 \in 1 .. MEMORY[a].val /\ a \in Addr
      BY <2>1, Halves, WordTypes DEF IInv, Shaped
    <3>3. a + 1 \in Half(TO)
      BY <2>1, <3>2, BlockWords DEF IInv
    <3> QED
      BY <1>7, <1>11, <3>1, <3>3
  <2>2. ASSUME NEW a \in Half(TO), MEMORY[a].kind = "header",
               NEW k \in 1 .. MEMORY[a].val, MEMORY'[a + k].kind = "pointer"
        PROVE  OldBlock(MEMORY[a + k].val)'
    <3>1. a + k \in Half(TO)
      BY <1>1, <2>2, BlockWords DEF IInv
    <3>2. MEMORY'[a + k] = MEMORY[a + k]
      BY <1>11, <3>1
    <3>3. OldBlock(MEMORY[a + k].val)
      BY <2>2, <3>2 DEF IInv, OriginalsInv
    <3> QED
      BY <1>8, <3>2, <3>3
  <2> QED
    BY <1>1, <1>11, <2>1, <2>2 DEF OriginalsInv
<1>13. RoomInv'
  <2>1. Moved' = Moved
    BY <1>1, <1>11 DEF Moved
  <2>2. FootPrint(Moved)' = FootPrint(Moved)
    BY <1>11, <2>1 DEF FootPrint, Moved
  <2> QED
    BY <2>2 DEF IInv, RoomInv
<1>14. \A x \in FROM .. FROM + LEN_FROM - 1 : x # at => MEMORY'[x] = MEMORY[x]
  BY <1>1, <1>4, Halves DEF IInv
<1>15. \A x \in FROM + LEN_FROM .. FROM + CAP_MEMORY - 1 : MEMORY'[x].kind # "pointer"
  BY <1>1, <1>10 DEF Covered
<1>16. \A x \in Half(FROM) : MEMORY'[x].kind = "header" => MEMORY[x].kind = "header"
  BY <1>1, <1>5
<1>17. new \in Half(FROM) /\ MEMORY'[new].kind = "header" /\ MEMORY'[new].val = MEMORY[old].val
  BY <1>1, <1>3, <1>5 DEF NewBlock
<1> QED
  BY <1>1, <1>3, <1>7, <1>8, <1>9, <1>10, <1>12, <1>13, <1>14, <1>15, <1>16, <1>17
     DEF CopyMade, new

\* Memory after the call of copy in one of the two loops: at is the word, if any, that
\* is overwritten with what it returns.
CopyCall(old, at) ==
  /\ MEMORY' = IF at = -1 THEN MemoryAfter(old)
               ELSE [MemoryAfter(old) EXCEPT ![at] = W("pointer", Copied(old))]
  /\ LEN_FROM' = LenAfter(old) /\ FROM' = FROM

\* A block that has been moved before stays where it is.
LEMMA CopyStays ==
  ASSUME IInv, Collecting, NEW old, OldBlock(old), MEMORY[old].kind = "forward", NEW at,
         at # -1 => at \in FROM .. FROM + LEN_FROM - 1 /\ MEMORY[at].kind = "pointer",
         CopyCall(old, at)
  PROVE  /\ Copied(old) = MEMORY[old + 1].val /\ LEN_FROM' = LEN_FROM /\ FROM' = FROM
         /\ MEMORY' \in [Addr -> Word]
         /\ at # -1 => MEMORY'[at].kind = "pointer" /\ MEMORY'[at].val = Copied(old)
         /\ \A x \in Addr : x # at => MEMORY'[x] = MEMORY[x]
<1>1. /\ Copied(old) = MEMORY[old + 1].val /\ LEN_FROM' = LEN_FROM /\ MemoryAfter(old) = MEMORY
      /\ FROM' = FROM
  BY DEF CopyCall, Copied, LenAfter, MemoryAfter, Forwarded
<1>2. MEMORY \in [Addr -> Word] /\ (at # -1 => at \in Addr)
  BY Halves DEF IInv, Types, Half
<1>3. Copied(old) \in Nat
  <2>1. NewBlock(MEMORY[old + 1].val)
    BY DEF IInv, OriginalsInv, OldBlock
  <2> QED
    BY <1>1, <2>1, Halves DEF IInv, NewBlock
<1>4. W("pointer", Copied(old)) \in Word
  BY <1>3 DEF W, Word
<1>5. CASE at = -1
  BY <1>1, <1>2, <1>5 DEF CopyCall
<1>6. CASE at # -1
  BY <1>1, <1>2, <1>4, <1>6 DEF CopyCall, W
<1> QED
  BY <1>1, <1>5, <1>6

\* The others are moved behind the copies.
LEMMA CopyMoves ==
  ASSUME IInv, Collecting, NEW old, OldBlock(old), MEMORY[old].kind = "header", NEW at,
         at # -1 => at \in FROM .. FROM + LEN_FROM - 1 /\ MEMORY[at].kind = "pointer",
         CopyCall(old, at)
  PROVE  /\ Copied(old) = FROM + LEN_FROM /\ LEN_FROM' = LEN_FROM + 1 + MEMORY[old].val
         /\ FROM' = FROM
         /\ MovedTo(old, at)
<1>1. old \in Half(TO) /\ old \in Addr /\ old \in Nat
  BY Halves DEF IInv, OldBlock
<1>2. at # -1 => at \in Addr
  BY Halves DEF IInv, Half
<1> DEFINE new == FROM + LEN_FROM
           size == MEMORY[old].val
           moved == MemoryAfter(old)
<1>3. /\ Copied(old) = new /\ LEN_FROM' = LEN_FROM + 1 + size
      /\ moved = [a \in Addr |->
                    IF a = new THEN W("header", size)
                    ELSE IF a \in new + 1 .. new + size THEN MEMORY[old + (a - new)]
                    ELSE IF a = old THEN W("forward", size)
                    ELSE IF a = old + 1 THEN W("pointer", new)
                    ELSE MEMORY[a]]
  BY DEF CopyCall, Copied, LenAfter, MemoryAfter, Forwarded, BLOCK_HEADER_SIZE
<1> HIDE DEF moved
<1>4. /\ size \in Nat /\ size >= 1 /\ FROM \in Nat /\ LEN_FROM \in Nat /\ CAP_MEMORY \in Nat
      /\ LEN_FROM + 1 + size <= CAP_MEMORY /\ new \in Nat
  <2>1. size \in Nat /\ FROM \in Nat /\ LEN_FROM \in Nat /\ CAP_MEMORY \in Nat
    BY <1>1, Halves, WordTypes DEF IInv
  <2>2. size >= 1
    BY <1>1 DEF IInv, Shaped
  <2>3. LEN_FROM + 1 + size <= CAP_MEMORY
    BY <1>1, ItFits DEF Fits, BLOCK_HEADER_SIZE
  <2> QED
    BY <2>1, <2>2, <2>3
<1>5. /\ new .. new + size \subseteq Half(FROM) /\ Half(FROM) \subseteq Addr
      /\ old \notin Half(FROM) /\ old + 1 \notin Half(FROM)
      /\ \A k \in 1 .. size : old + k \in Addr
  <2>1. new .. new + size \subseteq Half(FROM)
    BY <1>4 DEF Half
  <2>2. \A k \in 0 .. size : old + k \in Addr /\ old + k \in Half(TO)
    BY <1>1, BlockWords DEF IInv
  <2>3. old + 1 \in Half(TO)
    BY <1>4, <2>2
  <2>4. \A k \in 1 .. size : old + k \in Addr
    BY <1>4, <2>2
  <2> QED
    BY <1>1, <2>1, <2>3, <2>4, Halves DEF IInv
<1> HIDE DEF new, size
<1>6. W("header", size) \in Word /\ W("forward", size) \in Word /\ W("pointer", new) \in Word
  BY <1>4 DEF W, Word
<1>7. moved \in [Addr -> Word]
  <2>1. \A a \in Addr : a \in new + 1 .. new + size => MEMORY[old + (a - new)] \in Word
    <3> SUFFICES ASSUME NEW a \in new + 1 .. new + size PROVE MEMORY[old + (a - new)] \in Word
      OBVIOUS
    <3>1. a - new \in 1 .. size
      BY <1>4
    <3> QED
      BY <1>5, <3>1, WordTypes DEF IInv
  <2>2. \A a \in Addr : MEMORY[a] \in Word
    BY WordTypes DEF IInv
  <2> QED
    BY <1>3, <1>6, <2>1, <2>2
<1>8. /\ moved[new] = W("header", size)
      /\ \A k \in 1 .. size : moved[new + k] = MEMORY[old + k]
      /\ moved[old] = W("forward", size) /\ moved[old + 1] = W("pointer", new)
      /\ \A x \in Addr : x \notin (new .. new + size) \cup {old, old + 1} => moved[x] = MEMORY[x]
  <2>1. new \in Addr /\ moved[new] = W("header", size)
    BY <1>3, <1>4, <1>5
  <2>2. ASSUME NEW k \in 1 .. size PROVE moved[new + k] = MEMORY[old + k]
    <3>1. new + k \in Addr /\ new + k # new /\ new + k \in new + 1 .. new + size /\ (new + k) - new = k
      BY <1>4, <1>5
    <3> QED
      BY <1>3, <3>1
  <2>3. old \notin new + 1 .. new + size /\ old # new /\ old + 1 \notin new + 1 .. new + size
        /\ old + 1 # new /\ old + 1 # old /\ old + 1 \in Addr
    <3>1. 1 \in 1 .. size /\ new + 1 .. new + size \subseteq new .. new + size
          /\ new \in new .. new + size
      BY <1>4
    <3> QED
      BY <1>1, <1>5, <3>1
  <2>4. moved[old] = W("forward", size) /\ moved[old + 1] = W("pointer", new)
    BY <1>1, <1>3, <2>3
  <2>5. ASSUME NEW x \in Addr, x \notin (new .. new + size) \cup {old, old + 1}
        PROVE  moved[x] = MEMORY[x]
    <3>1. x # new /\ x \notin new + 1 .. new + size
      BY <1>4, <2>5
    <3> QED
      BY <1>3, <2>5, <3>1
  <2> QED
    BY <2>1, <2>2, <2>4, <2>5
<1>9. at # -1 => /\ at \in Half(FROM) /\ at \notin new .. new + size /\ at # old /\ at # old + 1
                 /\ MEMORY' = [moved EXCEPT ![at] = W("pointer", new)]
  <2> SUFFICES ASSUME at # -1
               PROVE  /\ at \in Half(FROM) /\ at \notin new .. new + size /\ at # old /\ at # old + 1
                      /\ MEMORY' = [moved EXCEPT ![at] = W("pointer", new)]
    OBVIOUS
  <2>1. at \in Half(FROM) /\ at \notin new .. new + size
    BY <1>4 DEF Half, new
  <2> QED
    BY <1>3, <1>5, <2>1 DEF CopyCall, moved, new
<1>10. MovedTo(old, at)
  <2>1. CASE at = -1
    <3>1. MEMORY' = moved
      BY <2>1 DEF CopyCall, moved
    <3> QED
      BY <1>7, <1>8, <2>1, <3>1 DEF MovedTo, W, new, size
  <2>2. CASE at # -1
    <3>1. /\ MEMORY' \in [Addr -> Word] /\ MEMORY'[at] = W("pointer", new)
          /\ \A x \in Addr : x # at => MEMORY'[x] = moved[x]
      BY <1>2, <1>6, <1>7, <1>9, <2>2
    <3>2. /\ new \in Addr /\ old + 1 \in Addr
          /\ \A k \in 1 .. size : new + k \in Addr /\ new + k # at
          /\ new # at
      <4>1. 1 \in 1 .. size /\ new \in new .. new + size
            /\ \A k \in 1 .. size : new + k \in new .. new + size
        BY <1>4
      <4> QED
        BY <1>5, <1>9, <2>2, <4>1
    <3>3. /\ MEMORY'[new] = W("header", size)
          /\ \A k \in 1 .. size : MEMORY'[new + k] = MEMORY[old + k]
          /\ MEMORY'[old] = W("forward", size) /\ MEMORY'[old + 1] = W("pointer", new)
          /\ \A x \in Addr : x \notin (new .. new + size) \cup {old, old + 1, at} =>
               MEMORY'[x] = MEMORY[x]
      BY <1>1, <1>8, <1>9, <2>2, <3>1, <3>2
    <3> QED
      BY <3>1, <3>3 DEF MovedTo, W, new, size
  <2> QED
    BY <2>1, <2>2
<1> QED
  BY <1>3, <1>10 DEF CopyCall, new, size

LEMMA CopyInv ==
  ASSUME IInv, Collecting, NEW old, OldBlock(old), NEW at,
         at # -1 => at \in FROM .. FROM + LEN_FROM - 1 /\ MEMORY[at].kind = "pointer",
         CopyCall(old, at)
  PROVE  CopyMade(old, at, Copied(old))
<1>1. old \in Half(TO) /\ MEMORY[old].kind \in {"header", "forward"}
  BY DEF OldBlock
<1>2. CASE MEMORY[old].kind = "forward"
  BY <1>1, <1>2, CopyStays, ForwardedInv
<1>3. CASE MEMORY[old].kind = "header"
  BY <1>1, <1>3, CopyMoves, MovedInv
<1> QED
  BY <1>1, <1>2, <1>3

-----------------------------------------------------------------------------
(* The collector's steps.                                                  *)

\* What holds a copy goes on to hold it while blocks are copied.
LEMMA StaysHeld ==
  ASSUME IInv, Collecting, pc' = pc, FROM' = FROM, STACK' = STACK, i <= i', i' \in Nat, NEW at, NEW old, NEW new,
         CopyMade(old, at, new), at # -1 => at >= ScanAt, ScanAt <= ScanAt', ScanAt' \in Nat,
         ScanAt \in Nat,
         \A n \in 1 .. Len(STACK) : (pc = "roots" => n <= i) => local'[STACK[n]] = local[STACK[n]],
         NEW a \in Half(FROM), MEMORY[a].kind = "header"
  PROVE  HeldByRoot(a)' \/ (pc # "roots" /\ HeldByWord(a)')
<1>1. HeldByRoot(a) \/ (pc # "roots" /\ HeldByWord(a))
  BY DEF IInv, HeldInv, Collecting
<1>2. CASE HeldByRoot(a)
  <2>1. PICK n \in 1 .. Len(STACK) : (pc = "roots" => n <= i) /\ local[STACK[n]] = a
    BY <1>2 DEF HeldByRoot
  <2>2. (pc' = "roots" => n <= i') /\ local'[STACK'[n]] = a
    BY <2>1 DEF IInv, Types
  <2> QED
    BY <2>1, <2>2 DEF HeldByRoot
<1>3. CASE pc # "roots" /\ HeldByWord(a)
  <2>1. PICK x \in FROM .. a - 1 :
          (pc = "scan" => x < ScanAt) /\ MEMORY[x].kind = "pointer" /\ MEMORY[x].val = a
    BY <1>3 DEF HeldByWord
  <2>2. pc = "scan"
    BY <1>3 DEF Collecting
  <2>3. /\ FROM \in Nat /\ LEN_FROM \in Nat /\ a \in Nat /\ MEMORY[a].val \in Nat
        /\ a + MEMORY[a].val < FROM + LEN_FROM
    BY InUse, Halves, WordTypes DEF IInv
  <2>4. x \in FROM .. FROM + LEN_FROM - 1 /\ x # at
    BY <2>1, <2>2, <2>3
  <2>5. MEMORY'[x] = MEMORY[x]
    BY <2>4 DEF CopyMade
  <2>6. x < ScanAt'
    BY <2>1, <2>2, <2>3
  <2> QED
    BY <1>3, <2>1, <2>5, <2>6 DEF HeldByWord
<1> QED
  BY <1>1, <1>2, <1>3

LEMMA CopyRootInv == ASSUME IInv, CopyRoot PROVE IInv'
<1> DEFINE v == STACK[i + 1]
           old == local[v]
           new == Copied(old)
<1>1. /\ pc = "roots" /\ i < Len(STACK) /\ Collecting /\ i \in Nat /\ i + 1 \in 1 .. Len(STACK)
      /\ UNCHANGED <<FROM, STACK, j, pending>>
      /\ STACK \in Seq(Locals) /\ v \in Locals
  BY DEF CopyRoot, Collecting, IInv, Types
<1>2. OldBlock(old)
  BY <1>1 DEF IInv, RootsInv
<1>3. IsBlock(old) /\ ~Overflows(old)
  <2>1. old \in Half(TO) /\ old \in Addr /\ MEMORY[old].kind \in {"header", "forward"}
    BY <1>2, Halves DEF IInv, OldBlock
  <2> QED
    BY <1>1, <2>1, ItFits DEF IsBlock, Overflows, Forwarded
<1>4. /\ MEMORY' = MemoryAfter(old) /\ LEN_FROM' = LenAfter(old)
      /\ local' = [local EXCEPT ![v] = new]
      /\ i' = i + 1 /\ pc' = "roots"
  BY <1>1, <1>3 DEF CopyRoot
<1>5. CopyMade(old, -1, new)
  BY <1>1, <1>2, <1>4, CopyInv DEF CopyCall
<1> HIDE DEF v, old, new
<1>6. /\ Half(FROM)' = Half(FROM) /\ Half(TO)' = Half(TO) /\ TO' = TO
      /\ FROM \in Nat /\ LEN_FROM \in Nat /\ CAP_MEMORY \in Nat
      /\ \A x : x \in Half(FROM) <=> x \in FROM .. FROM + CAP_MEMORY - 1
      /\ \A x \in Half(FROM) : x \in Addr
  BY <1>1, Halves DEF IInv, Half, TO
<1>7. new \in Addr /\ new # Nil /\ \A x : x = new => NewBlock(x)'
  BY <1>5, <1>6, Halves, NilAssumption DEF CopyMade, NewBlock, IInv
<1>8. \A n \in 1 .. Len(STACK) : local'[STACK[n]] = IF n = i + 1 THEN new ELSE local[STACK[n]]
  <2>1. local \in [Locals -> Addr \cup {Nil}]
    BY DEF IInv, Types
  <2>2. \A n \in 1 .. Len(STACK) : STACK[n] \in Locals /\ (STACK[n] = v => n = i + 1)
    BY <1>1 DEF IInv, RootsInv, v
  <2> QED
    BY <1>4, <2>1, <2>2 DEF v
<1>9. Types'
  <2>1. LEN_FROM' \in 0 .. CAP_MEMORY /\ MEMORY' \in [Addr -> Word]
    BY <1>5, <1>6 DEF CopyMade
  <2>2. local' \in [Locals -> Addr \cup {Nil}]
    BY <1>4, <1>7 DEF IInv, Types
  <2> QED
    BY <1>1, <1>4, <2>1, <2>2 DEF IInv, Types
<1>10. Shaped' /\ Covered' /\ OriginalsInv' /\ RoomInv'
  BY <1>5 DEF CopyMade
<1>11. SettledInv' /\ ScanInv'
  BY <1>4 DEF SettledInv, Settled, ScanInv
<1>12. RootsInv'
  <2>1. \A n \in 1 .. i' : NewBlock(local[STACK[n]])'
    <3> SUFFICES ASSUME NEW n \in 1 .. i' PROVE NewBlock(local[STACK[n]])'
      OBVIOUS
    <3>1. n \in 1 .. Len(STACK)
      BY <1>1, <1>4
    <3>2. CASE n = i + 1
      BY <1>1, <1>7, <1>8, <3>1, <3>2
    <3>3. CASE n # i + 1
      <4>1. n \in 1 .. i
        BY <1>1, <1>4, <3>3
      <4>2. NewBlock(local[STACK[n]])
        BY <1>1, <4>1 DEF IInv, RootsInv
      <4> QED
        BY <1>1, <1>5, <1>8, <3>1, <3>3, <4>2 DEF CopyMade
    <3> QED
      BY <3>2, <3>3
  <2>2. \A n \in i' + 1 .. Len(STACK) : OldBlock(local[STACK[n]])'
    <3> SUFFICES ASSUME NEW n \in i' + 1 .. Len(STACK) PROVE OldBlock(local[STACK[n]])'
      OBVIOUS
    <3>1. n \in 1 .. Len(STACK) /\ n # i + 1 /\ n \in i + 1 .. Len(STACK)
      BY <1>1, <1>4
    <3>2. OldBlock(local[STACK[n]])
      BY <1>1, <3>1 DEF IInv, RootsInv
    <3> QED
      BY <1>1, <1>5, <1>8, <3>1, <3>2 DEF CopyMade
  <2>3. \A n \in 1 .. Len(STACK) : local'[STACK[n]] # Nil
    BY <1>7, <1>8 DEF IInv, RootsInv
  <2>4. i' <= Len(STACK)
    BY <1>1, <1>4
  <2> QED
    BY <1>1, <1>4, <2>1, <2>2, <2>3, <2>4 DEF IInv, RootsInv
<1>13. CopiesInv'
  <2> SUFFICES ASSUME NEW x \in Half(FROM), MEMORY'[x].kind = "pointer"
               PROVE  ~(x < FROM) /\ OldBlock(MEMORY[x].val)'
    BY <1>1, <1>4, <1>6 DEF CopiesInv, ScanAt
  <2>1. x >= FROM /\ x \in Nat
    BY <1>6
  <2>2. CASE x < FROM + LEN_FROM
    <3>1. MEMORY'[x] = MEMORY[x] /\ x # -1
      BY <1>5, <1>6, <2>1, <2>2 DEF CopyMade
    <3>2. OldBlock(MEMORY[x].val)
      BY <1>1, <1>6, <2>1, <3>1 DEF IInv, CopiesInv, ScanAt
    <3> QED
      BY <1>5, <1>6, <2>1, <3>1, <3>2 DEF CopyMade
  <2>3. CASE x >= FROM + LEN_FROM
    <3>1. OldBlock(MEMORY'[x].val)
      BY <1>5, <1>6, <2>3 DEF CopyMade
    <3> QED
      BY <1>5, <1>6, <2>1, <3>1 DEF CopyMade
  <2> QED
    BY <1>6, <2>1, <2>2, <2>3
<1>14. HeldInv'
  <2> SUFFICES ASSUME NEW a \in Half(FROM), MEMORY'[a].kind = "header"
               PROVE  HeldByRoot(a)'
    BY <1>4, <1>6 DEF HeldInv
  <2>1. CASE a = new
    <3>1. i + 1 \in 1 .. Len(STACK') /\ i + 1 <= i' /\ local'[STACK'[i + 1]] = a
      BY <1>1, <1>4, <1>8, <2>1
    <3> QED
      BY <3>1 DEF HeldByRoot
  <2>2. CASE MEMORY[a].kind = "header"
    <3>1. /\ ScanAt = FROM /\ ScanAt' = FROM /\ i <= i' /\ i' \in Nat
          /\ \A n \in 1 .. Len(STACK) : n <= i => local'[STACK[n]] = local[STACK[n]]
      BY <1>1, <1>4, <1>8 DEF ScanAt
    <3> QED
      BY <1>1, <1>4, <1>5, <1>6, <2>2, <3>1, StaysHeld
  <2> QED
    BY <1>5, <2>1, <2>2 DEF CopyMade
<1>15. PendingInv'
  <2>1. ASSUME pending.op = "field"
        PROVE  pending.v \in Registered /\ pending.k \in 1 .. MEMORY'[local'[pending.v]].val
    <3>1. pending.v \in Registered /\ pending.k \in 1 .. MEMORY[local[pending.v]].val
      BY <1>1, <2>1 DEF IInv, PendingInv
    <3>2. PICK n \in 1 .. Len(STACK) : pending.v = STACK[n]
      BY <1>1, <3>1 DEF Registered
    <3>3. MEMORY'[local'[STACK[n]]].val = MEMORY[local[STACK[n]]].val
      <4>1. CASE n = i + 1
        BY <1>5, <1>8, <4>1 DEF CopyMade, old, v
      <4>2. CASE n # i + 1
        <5>1. n \in 1 .. i \/ n \in i + 1 .. Len(STACK)
          BY <1>1
        <5>2. NewBlock(local[STACK[n]]) \/ OldBlock(local[STACK[n]])
          BY <1>1, <5>1 DEF IInv, RootsInv
        <5> QED
          BY <1>5, <1>8, <4>2, <5>2 DEF CopyMade
      <4> QED
        BY <4>1, <4>2
    <3> QED
      BY <3>1, <3>2, <3>3
  <2> QED
    BY <1>1, <1>4, <2>1 DEF IInv, PendingInv, Registered
<1>16. EndInv'
  BY <1>4 DEF EndInv
<1> QED
  BY <1>9, <1>10, <1>11, <1>12, <1>13, <1>14, <1>15, <1>16 DEF IInv

\* The loops' counters move, memory stays: only ScanAt changes for the invariant.
LEMMA SameBlocksInv ==
  ASSUME IInv, Collecting, pc' \in {"scan", "undefined"}, j' \in Nat, i' \in Nat,
         UNCHANGED <<MEMORY, FROM, LEN_FROM, STACK, local, pending>>,
         pc = "roots" => i = Len(STACK)
  PROVE  /\ Types' /\ Shaped' /\ Covered' /\ SettledInv' /\ RootsInv' /\ OriginalsInv' /\ RoomInv'
         /\ PendingInv'
         /\ Half(FROM)' = Half(FROM)
         /\ \A x : NewBlock(x)' <=> NewBlock(x)
         /\ \A x : OldBlock(x)' <=> OldBlock(x)
<1>1. TO' = TO /\ Half(FROM)' = Half(FROM) /\ Half(TO)' = Half(TO)
  BY DEF IInv, Types, TO, Half
<1>2. (\A x : NewBlock(x)' <=> NewBlock(x)) /\ (\A x : OldBlock(x)' <=> OldBlock(x))
  BY <1>1 DEF NewBlock, OldBlock
<1>3. Types'
  BY DEF IInv, Types, Terminal
<1>4. Shaped' /\ Covered'
  BY <1>1 DEF IInv, Shaped, Covered
<1>5. SettledInv'
  BY DEF SettledInv, Settled
<1>6. RootsInv'
  <2>1. \A n \in 1 .. Len(STACK) : NewBlock(local[STACK[n]])
    BY DEF IInv, RootsInv, Collecting
  <2> QED
    BY <1>2, <2>1 DEF IInv, RootsInv
<1>7. OriginalsInv'
  BY <1>1, <1>2 DEF IInv, OriginalsInv, Collecting
<1>8. RoomInv'
  <2>1. Moved' = Moved
    BY <1>1 DEF Moved
  <2>2. FootPrint(Moved)' = FootPrint(Moved)
    BY <2>1 DEF FootPrint
  <2> QED
    BY <2>2 DEF IInv, RoomInv, Collecting
<1>9. PendingInv'
  BY DEF IInv, PendingInv, Collecting, Registered
<1> QED
  BY <1>1, <1>2, <1>3, <1>4, <1>5, <1>6, <1>7, <1>8, <1>9

LEMMA RootsDoneInv == ASSUME IInv, RootsDone PROVE IInv'
<1>1. /\ pc = "roots" /\ pc' = "scan" /\ i' = 0 /\ j' = 0 /\ i = Len(STACK) /\ Collecting
      /\ UNCHANGED <<MEMORY, FROM, LEN_FROM, STACK, local, pending>>
      /\ STACK \in Seq(Locals)
  BY DEF RootsDone, Collecting, IInv, Types
<1>2. /\ FROM \in Nat /\ LEN_FROM \in Nat /\ CAP_MEMORY \in Nat /\ LEN_FROM <= CAP_MEMORY
      /\ CAP_MEMORY > 0 /\ FROM \in Half(FROM)
      /\ \A x : x \in Half(FROM) <=> x \in FROM .. FROM + CAP_MEMORY - 1
      /\ \A x \in Half(FROM) : x \in Addr
  BY Halves DEF IInv, Half
<1>3. MEMORY[FROM].kind \in {"header", "free"} /\ (0 < LEN_FROM => MEMORY[FROM].kind = "header")
  <2>1. CASE 0 < LEN_FROM
    <3>1. FROM \in FROM .. FROM + LEN_FROM - 1
      BY <1>2, <2>1
    <3>2. PICK a \in FROM .. FROM : MEMORY[a].kind = "header"
      BY <3>1 DEF IInv, Covered
    <3> QED
      BY <1>2, <3>2
  <2>2. CASE LEN_FROM = 0
    <3>1. FROM \in FROM + LEN_FROM .. FROM + CAP_MEMORY - 1
      BY <1>2, <2>2
    <3> QED
      BY <2>2, <3>1 DEF IInv, Covered
  <2> QED
    BY <1>2, <2>1, <2>2
<1>4. ScanInv'
  BY <1>1, <1>2, <1>3, WordTypes DEF IInv, ScanInv
<1>5. ScanAt = FROM /\ ScanAt' = FROM + 1
  BY <1>1, <1>2 DEF ScanAt, BLOCK_HEADER_SIZE
<1>6. CopiesInv'
  <2> SUFFICES ASSUME NEW x \in Half(FROM), MEMORY[x].kind = "pointer"
               PROVE  ~(x < FROM + 1) /\ OldBlock(MEMORY[x].val)'
    BY <1>1, <1>5, SameBlocksInv DEF CopiesInv
  <2>1. x \in Nat /\ x >= FROM /\ x # FROM
    BY <1>2, <1>3
  <2>2. OldBlock(MEMORY[x].val)
    BY <1>1, <1>2, <1>5, <2>1 DEF IInv, CopiesInv
  <2> QED
    BY <1>1, <1>2, <2>1, <2>2, SameBlocksInv
<1>7. HeldInv'
  <2> SUFFICES ASSUME NEW a \in Half(FROM), MEMORY[a].kind = "header"
               PROVE  HeldByRoot(a)'
    BY <1>1, SameBlocksInv DEF HeldInv
  <2>1. HeldByRoot(a)
    BY <1>1 DEF IInv, HeldInv
  <2> QED
    BY <1>1, <2>1 DEF HeldByRoot
<1>8. EndInv'
  BY <1>1 DEF EndInv
<1> QED
  BY <1>1, <1>4, <1>6, <1>7, <1>8, SameBlocksInv DEF IInv

\* Where the scan stands while it is in a block.
LEMMA ScanPosition ==
  ASSUME IInv, pc = "scan", i < LEN_FROM
  PROVE  /\ i \in Nat /\ j \in Nat /\ FROM \in Nat /\ LEN_FROM \in Nat /\ CAP_MEMORY \in Nat
         /\ FROM + i \in Half(FROM) /\ FROM + i \in Addr
         /\ MEMORY[FROM + i].kind = "header" /\ MEMORY[FROM + i].val \in Nat
         /\ j <= MEMORY[FROM + i].val
         /\ FROM + i + MEMORY[FROM + i].val < FROM + LEN_FROM
         /\ ScanAt = FROM + i + 1 + j /\ ScanAt \in Nat
         /\ \A x : x \in Half(FROM) <=> x \in FROM .. FROM + CAP_MEMORY - 1
         /\ \A x \in Half(FROM) : x \in Addr
         /\ LEN_FROM <= CAP_MEMORY
<1>1. /\ i \in Nat /\ j \in Nat /\ FROM \in Nat /\ LEN_FROM \in Nat /\ CAP_MEMORY \in Nat
      /\ LEN_FROM <= CAP_MEMORY
      /\ \A x : x \in Half(FROM) <=> x \in FROM .. FROM + CAP_MEMORY - 1
      /\ \A x \in Half(FROM) : x \in Addr
  BY Halves DEF IInv, Types, Half
<1>2. FROM + i \in Half(FROM)
  BY <1>1
<1>3. MEMORY[FROM + i].kind = "header" /\ j <= MEMORY[FROM + i].val
  BY DEF IInv, ScanInv
<1>4. FROM + i + MEMORY[FROM + i].val < FROM + LEN_FROM
  BY <1>2, <1>3, InUse DEF IInv
<1>5. ScanAt = FROM + i + 1 + j
  BY DEF ScanAt, BLOCK_HEADER_SIZE
<1> QED
  BY <1>1, <1>2, <1>3, <1>4, <1>5, WordTypes DEF IInv

LEMMA NextBlockInv == ASSUME IInv, NextBlock PROVE IInv'
<1>0. PICK next : i' = next
  OBVIOUS
<1>1. /\ pc = "scan" /\ pc' = "scan" /\ i < LEN_FROM /\ j = MEMORY[FROM + i].val
      /\ next = i + 1 + j /\ j' = 0 /\ Collecting
      /\ UNCHANGED <<MEMORY, FROM, LEN_FROM, STACK, local, pending>>
  BY <1>0 DEF NextBlock, Collecting, BLOCK_HEADER_SIZE
<1>2. /\ i \in Nat /\ j \in Nat /\ FROM \in Nat /\ LEN_FROM \in Nat /\ CAP_MEMORY \in Nat
      /\ FROM + i \in Addr /\ MEMORY[FROM + i].kind = "header"
      /\ next \in Nat /\ next <= LEN_FROM
      /\ ScanAt = FROM + next /\ ScanAt' = FROM + next + 1
      /\ \A x : x \in Half(FROM) <=> x \in FROM .. FROM + CAP_MEMORY - 1
      /\ \A x \in Half(FROM) : x \in Addr
      /\ LEN_FROM <= CAP_MEMORY
  <2>1. ScanAt' = FROM + next + 1
    BY <1>0, <1>1, ScanPosition DEF ScanAt, BLOCK_HEADER_SIZE
  <2> QED
    BY <1>1, <2>1, ScanPosition
<1>9. next \in Nat /\ FROM \in Nat /\ LEN_FROM \in Nat /\ CAP_MEMORY \in Nat /\ LEN_FROM <= CAP_MEMORY
  BY <1>2
<1>3. next < LEN_FROM => MEMORY[FROM + next].kind = "header" /\ MEMORY[FROM + next].val \in Nat
  <2> SUFFICES ASSUME next < LEN_FROM PROVE MEMORY[FROM + next].kind = "header" /\ FROM + next \in Addr
    BY WordTypes DEF IInv
  <2>1. FROM + next \in FROM .. FROM + LEN_FROM - 1 /\ FROM + next \in Addr
    <3>1. FROM + next \in FROM .. FROM + CAP_MEMORY - 1 /\ FROM + next \in FROM .. FROM + LEN_FROM - 1
      BY <1>9
    <3> QED
      BY <1>2, <3>1
  <2>2. PICK a \in FROM .. FROM + next : MEMORY[a].kind = "header" /\ FROM + next <= a + MEMORY[a].val
    BY <2>1 DEF IInv, Covered
  <2>3. a \in Addr /\ a \in Nat /\ MEMORY[a].val \in Nat
    <3>1. a \in FROM .. FROM + CAP_MEMORY - 1 /\ a \in Nat
      BY <1>2, <2>1
    <3> QED
      BY <1>2, <3>1, WordTypes DEF IInv
  <2>4. ~ (a < FROM + i)
    <3> SUFFICES ASSUME a < FROM + i PROVE FALSE
      OBVIOUS
    <3>1. a + MEMORY[a].val < FROM + i
      BY <1>2, <2>2, <2>3, Apart DEF IInv
    <3> QED
      BY <1>1, <1>2, <2>2, <2>3, <3>1
  <2>5. a # FROM + i
    BY <1>1, <1>2, <2>2
  <2>6. FROM + i + MEMORY[FROM + i].val < a
    BY <1>2, <2>2, <2>3, <2>4, <2>5, Apart DEF IInv
  <2>7. a = FROM + next
    BY <1>1, <1>2, <2>2, <2>3, <2>6
  <2> QED
    BY <2>1, <2>2, <2>7
<1>4. ScanInv'
  BY <1>0, <1>1, <1>2, <1>3 DEF ScanInv
<1>5. \A x \in Half(FROM) : x = FROM + next => MEMORY[x].kind # "pointer"
  <2> SUFFICES ASSUME FROM + next \in Half(FROM) PROVE MEMORY[FROM + next].kind # "pointer"
    OBVIOUS
  <2>1. CASE next = LEN_FROM
    <3>1. FROM + next \in FROM + LEN_FROM .. FROM + CAP_MEMORY - 1
      BY <1>2, <2>1
    <3> QED
      BY <3>1 DEF IInv, Covered
  <2> QED
    BY <1>2, <1>3, <2>1
<1>6. CopiesInv'
  <2> SUFFICES ASSUME NEW x \in Half(FROM), MEMORY[x].kind = "pointer"
               PROVE  IF x < FROM + next + 1 THEN NewBlock(MEMORY[x].val) ELSE OldBlock(MEMORY[x].val)
    BY <1>0, <1>1, <1>2, SameBlocksInv DEF CopiesInv
  <2>1. x \in Nat /\ x # FROM + next
    <3>1. x \in FROM .. FROM + CAP_MEMORY - 1
      BY <1>2
    <3> QED
      BY <1>2, <1>5, <3>1
  <2>2. IF x < FROM + next THEN NewBlock(MEMORY[x].val) ELSE OldBlock(MEMORY[x].val)
    BY <1>1, <1>2 DEF IInv, CopiesInv
  <2> QED
    BY <1>2, <2>1, <2>2
<1>7. HeldInv'
  <2> SUFFICES ASSUME NEW a \in Half(FROM), MEMORY[a].kind = "header"
               PROVE  HeldByRoot(a)' \/ HeldByWord(a)'
    BY <1>0, <1>1, <1>2, SameBlocksInv DEF HeldInv
  <2>1. HeldByRoot(a) \/ HeldByWord(a)
    BY <1>1 DEF IInv, HeldInv
  <2>2. CASE HeldByRoot(a)
    BY <1>1, <2>2 DEF HeldByRoot
  <2>3. CASE HeldByWord(a)
    <3>1. PICK x \in FROM .. a - 1 : x < ScanAt /\ MEMORY[x].kind = "pointer" /\ MEMORY[x].val = a
      BY <1>1, <2>3 DEF HeldByWord
    <3>2. x < ScanAt'
      BY <1>2, <3>1
    <3> QED
      BY <1>1, <3>1, <3>2 DEF HeldByWord
  <2> QED
    BY <2>1, <2>2, <2>3
<1>8. EndInv'
  BY <1>1 DEF EndInv
<1> QED
  BY <1>0, <1>1, <1>2, <1>4, <1>6, <1>7, <1>8, SameBlocksInv DEF IInv

LEMMA ScanWordInv == ASSUME IInv, ScanWord PROVE IInv'
<1> DEFINE at == FROM + i + BLOCK_HEADER_SIZE + j
           old == MEMORY[at].val
           new == Copied(old)
           size == MEMORY[FROM + i].val
<1>1. /\ pc = "scan" /\ i < LEN_FROM /\ j < size /\ Collecting /\ i' = i
      /\ UNCHANGED <<FROM, STACK, local, i, pending>>
  BY DEF ScanWord, Collecting
<1>2. /\ i \in Nat /\ j \in Nat /\ FROM \in Nat /\ LEN_FROM \in Nat /\ CAP_MEMORY \in Nat
      /\ size \in Nat /\ at = ScanAt /\ at \in Nat
      /\ FROM + i \in Half(FROM) /\ FROM + i \in Addr /\ MEMORY[FROM + i].kind = "header"
      /\ FROM + i + size < FROM + LEN_FROM
      /\ \A x : x \in Half(FROM) <=> x \in FROM .. FROM + CAP_MEMORY - 1
      /\ \A x \in Half(FROM) : x \in Addr
      /\ LEN_FROM <= CAP_MEMORY
  BY <1>1, ScanPosition DEF BLOCK_HEADER_SIZE
<1>3. /\ at \in FROM .. FROM + LEN_FROM - 1 /\ at \in Half(FROM) /\ at # -1
      /\ j + 1 \in 1 .. size /\ at = (FROM + i) + (j + 1)
  BY <1>1, <1>2 DEF BLOCK_HEADER_SIZE
<1>4. MEMORY[at].kind \in DataKinds
  BY <1>2, <1>3 DEF IInv, Shaped
<1>5. MEMORY[at].kind = "pointer" => OldBlock(old)
  BY <1>1, <1>2, <1>3 DEF IInv, CopiesInv
<1> HIDE DEF at, old, new, size
<1>6. CASE MEMORY[at].kind \in {"unset", "free"}
  <2>1. pc' = "undefined" /\ UNCHANGED <<MEMORY, LEN_FROM, j>>
    BY <1>6 DEF ScanWord, at
  <2>2. \E a \in Blocks' : \E k \in 1 .. MEMORY'[a].val : MEMORY'[a + k].kind = "unset"
    <3>1. FROM + i \in Blocks'
      BY <1>1, <1>2, <2>1 DEF Blocks
    <3>2. MEMORY'[(FROM + i) + (j + 1)].kind = "unset"
      BY <1>3, <1>4, <1>6, <2>1 DEF DataKinds
    <3> QED
      BY <1>3, <2>1, <3>1, <3>2 DEF size
  <2>3. EndInv'
    BY <2>1, <2>2 DEF EndInv
  <2>4. ScanInv' /\ CopiesInv' /\ HeldInv'
    BY <2>1 DEF ScanInv, CopiesInv, Collecting, HeldInv
  <2> QED
    BY <1>1, <1>2, <2>1, <2>3, <2>4, SameBlocksInv DEF IInv
<1>7. CASE MEMORY[at].kind = "literal"
  <2>1. pc' = "scan" /\ j' = j + 1 /\ UNCHANGED <<MEMORY, LEN_FROM>>
    BY <1>1, <1>7 DEF ScanWord, at
  <2>2. ScanAt' = at + 1
    BY <1>1, <1>2, <1>3, <2>1 DEF ScanAt, BLOCK_HEADER_SIZE
  <2>3. ScanInv'
    BY <1>1, <1>2, <1>3, <2>1 DEF ScanInv, size
  <2>4. CopiesInv'
    <3> SUFFICES ASSUME NEW x \in Half(FROM), MEMORY[x].kind = "pointer"
                 PROVE  IF x < at + 1 THEN NewBlock(MEMORY[x].val) ELSE OldBlock(MEMORY[x].val)
      BY <1>1, <1>2, <2>1, <2>2, SameBlocksInv DEF CopiesInv
    <3>1. x \in Nat /\ x # at
      BY <1>2, <1>7
    <3>2. IF x < at THEN NewBlock(MEMORY[x].val) ELSE OldBlock(MEMORY[x].val)
      BY <1>1, <1>2 DEF IInv, CopiesInv
    <3> QED
      BY <1>2, <3>1, <3>2
  <2>5. HeldInv'
    <3> SUFFICES ASSUME NEW a \in Half(FROM), MEMORY[a].kind = "header"
                 PROVE  HeldByRoot(a)' \/ HeldByWord(a)'
      BY <1>1, <1>2, <2>1, SameBlocksInv DEF HeldInv
    <3>1. HeldByRoot(a) \/ HeldByWord(a)
      BY <1>1 DEF IInv, HeldInv
    <3>2. CASE HeldByRoot(a)
      BY <1>1, <2>1, <3>2 DEF HeldByRoot
    <3>3. CASE HeldByWord(a)
      <4>1. PICK x \in FROM .. a - 1 : x < ScanAt /\ MEMORY[x].kind = "pointer" /\ MEMORY[x].val = a
        BY <1>1, <3>3 DEF HeldByWord
      <4>2. x < ScanAt'
        BY <1>2, <2>2, <4>1
      <4> QED
        BY <1>1, <2>1, <4>1, <4>2 DEF HeldByWord
    <3> QED
      BY <3>1, <3>2, <3>3
  <2>6. EndInv'
    BY <2>1 DEF EndInv
  <2> QED
    BY <1>1, <1>2, <2>1, <2>3, <2>4, <2>5, <2>6, SameBlocksInv DEF IInv
<1>8. CASE MEMORY[at].kind = "pointer"
  <2>1. IsBlock(old) /\ ~Overflows(old)
    <3>1. old \in Half(TO) /\ old \in Addr /\ MEMORY[old].kind \in {"header", "forward"}
      BY <1>5, <1>8, Halves DEF IInv, OldBlock
    <3> QED
      BY <1>1, <3>1, ItFits DEF IsBlock, Overflows, Forwarded
  <2>2. /\ MEMORY' = [MemoryAfter(old) EXCEPT ![at] = W("pointer", new)]
        /\ LEN_FROM' = LenAfter(old) /\ j' = j + 1 /\ pc' = "scan"
    BY <1>1, <1>8, <2>1 DEF ScanWord, at, old, new
  <2>3. CopyMade(old, at, new)
    BY <1>1, <1>3, <1>5, <1>8, <2>2, CopyInv DEF new, CopyCall
  <2>4. /\ Half(FROM)' = Half(FROM) /\ TO' = TO
        /\ \A x : x = new => NewBlock(x)'
        /\ LEN_FROM' \in LEN_FROM .. CAP_MEMORY
        /\ ScanAt' = at + 1
    <3>1. Half(FROM)' = Half(FROM) /\ TO' = TO /\ LEN_FROM' \in LEN_FROM .. CAP_MEMORY
      BY <1>1, <2>3 DEF CopyMade, Half, TO
    <3>2. ScanAt' = at + 1
      BY <1>1, <1>2, <1>3, <2>2 DEF ScanAt, BLOCK_HEADER_SIZE
    <3> QED
      BY <2>3, <3>1, <3>2 DEF CopyMade, NewBlock
  <2>5. Types'
    <3>1. MEMORY' \in [Addr -> Word] /\ LEN_FROM' \in 0 .. CAP_MEMORY
      BY <1>2, <2>3, <2>4 DEF CopyMade
    <3> QED
      BY <1>1, <1>2, <2>2, <3>1 DEF IInv, Types
  <2>6. Shaped' /\ Covered' /\ OriginalsInv' /\ RoomInv'
    BY <2>3 DEF CopyMade
  <2>7. SettledInv' /\ EndInv'
    BY <2>2 DEF SettledInv, Settled, EndInv
  <2>8. RootsInv'
    <3>1. \A n \in 1 .. Len(STACK) : NewBlock(local[STACK[n]])'
      BY <1>1, <2>3 DEF IInv, RootsInv, CopyMade
    <3> QED
      BY <1>1, <2>2, <3>1 DEF IInv, RootsInv
  <2>9. ScanInv'
    <3>1. MEMORY'[FROM + i] = MEMORY[FROM + i]
      <4>1. FROM + i \in FROM .. FROM + LEN_FROM - 1 /\ FROM + i # at
        BY <1>1, <1>2, <1>3
      <4> QED
        BY <2>3, <4>1 DEF CopyMade
    <3> QED
      BY <1>1, <1>2, <1>3, <2>2, <2>4, <3>1 DEF ScanInv, size
  <2>10. CopiesInv'
    <3> SUFFICES ASSUME NEW x \in Half(FROM), MEMORY'[x].kind = "pointer"
                 PROVE  IF x < at + 1 THEN NewBlock(MEMORY[x].val)' ELSE OldBlock(MEMORY[x].val)'
      BY <2>4 DEF CopiesInv
    <3>1. x \in Nat /\ x \in FROM .. FROM + CAP_MEMORY - 1
      BY <1>2
    <3>2. CASE x = at
      <4>1. MEMORY'[x].val = new
        BY <1>3, <2>3, <3>2 DEF CopyMade
      <4> QED
        BY <1>2, <2>4, <3>2, <4>1
    <3>3. CASE x # at /\ x < FROM + LEN_FROM
      <4>1. MEMORY'[x] = MEMORY[x]
        BY <1>2, <2>3, <3>1, <3>3 DEF CopyMade
      <4>2. IF x < at THEN NewBlock(MEMORY[x].val) ELSE OldBlock(MEMORY[x].val)
        BY <1>1, <1>2, <4>1 DEF IInv, CopiesInv
      <4>3. CASE x < at
        BY <1>2, <2>3, <3>1, <4>1, <4>2, <4>3 DEF CopyMade
      <4>4. CASE ~(x < at)
        BY <1>2, <2>3, <3>1, <3>3, <4>1, <4>2, <4>4 DEF CopyMade
      <4> QED
        BY <4>3, <4>4
    <3>4. CASE x >= FROM + LEN_FROM
      <4>1. OldBlock(MEMORY'[x].val)
        BY <1>2, <2>3, <3>1, <3>4 DEF CopyMade
      <4>2. ~(x < at + 1)
        BY <1>2, <1>3, <3>1, <3>4
      <4> QED
        BY <2>3, <4>1, <4>2 DEF CopyMade
    <3> QED
      BY <1>2, <3>1, <3>2, <3>3, <3>4
  <2>11. HeldInv'
    <3> SUFFICES ASSUME NEW a \in Half(FROM), MEMORY'[a].kind = "header"
                 PROVE  HeldByRoot(a)' \/ HeldByWord(a)'
      BY <2>2, <2>4 DEF HeldInv
    <3>1. CASE MEMORY[a].kind = "header"
      <4>1. /\ i <= i' /\ i' \in Nat /\ at >= ScanAt /\ ScanAt <= ScanAt' /\ ScanAt' \in Nat
            /\ ScanAt \in Nat /\ pc' = pc
        BY <1>1, <1>2, <2>2, <2>4
      <4> QED
        BY <1>1, <2>3, <3>1, <4>1, StaysHeld
    <3>2. CASE MEMORY[a].kind # "header"
      <4>1. a = new /\ a = FROM + LEN_FROM
        BY <2>3, <3>2 DEF CopyMade
      <4>2. MEMORY'[at].kind = "pointer" /\ MEMORY'[at].val = a
        BY <1>3, <2>3, <4>1 DEF CopyMade
      <4>3. at \in FROM .. a - 1 /\ at < ScanAt'
        BY <1>2, <1>3, <2>4, <4>1
      <4> QED
        BY <1>1, <4>2, <4>3 DEF HeldByWord
    <3> QED
      BY <3>1, <3>2
  <2>12. PendingInv'
    <3>1. ASSUME pending.op = "field"
          PROVE  pending.v \in Registered /\ pending.k \in 1 .. MEMORY'[local[pending.v]].val
      <4>1. pending.v \in Registered /\ pending.k \in 1 .. MEMORY[local[pending.v]].val
        BY <1>1, <3>1 DEF IInv, PendingInv
      <4>2. NewBlock(local[pending.v])
        BY <1>1, <4>1 DEF Registered, IInv, RootsInv
      <4> QED
        BY <2>3, <4>1, <4>2 DEF CopyMade
    <3> QED
      BY <1>1, <2>2, <3>1 DEF IInv, PendingInv, Registered
  <2> QED
    BY <2>5, <2>6, <2>7, <2>8, <2>9, <2>10, <2>11, <2>12 DEF IInv
<1> QED
  BY <1>4, <1>6, <1>7, <1>8 DEF DataKinds

\* What keeps a block once the scan has ended.
Held(a) ==
  \/ \E n \in 1 .. Len(STACK) : local[STACK[n]] = a
  \/ \E x \in FROM .. a - 1 : MEMORY[x].kind = "pointer" /\ MEMORY[x].val = a
AllHeld == \A a \in Half(FROM) : MEMORY[a].kind = "header" => Held(a)

LEMMA ScanDoneInv == ASSUME IInv, ScanDone PROVE IInv' /\ AllHeld'
<1>1. /\ pc = "scan" /\ i = LEN_FROM /\ Collecting /\ i' = 0 /\ j' = 0
      /\ pc' = IF pending.op = "none" THEN "run" ELSE "resume"
      /\ MEMORY' = [a \in Addr |-> IF a \in Half(TO) THEN Free ELSE MEMORY[a]]
      /\ local' = [v \in Locals |-> IF v \in Registered THEN local[v] ELSE Nil]
      /\ FROM' = FROM /\ LEN_FROM' = LEN_FROM /\ STACK' = STACK /\ pending' = pending
  BY DEF ScanDone, Collecting
<1>2. /\ FROM \in Nat /\ LEN_FROM \in Nat /\ CAP_MEMORY \in Nat /\ LEN_FROM <= CAP_MEMORY
      /\ \A x \in Half(FROM) : x \in Addr /\ x \in Nat /\ x \notin Half(TO)
      /\ \A x \in Half(TO) : x \in Addr /\ x \notin Half(FROM)
      /\ \A x \in Addr : x \in Half(FROM) \/ x \in Half(TO)
      /\ \A x : x \in Half(FROM) <=> x \in FROM .. FROM + CAP_MEMORY - 1
  BY Halves DEF IInv, Half
<1>3. /\ Half(FROM)' = Half(FROM) /\ Half(TO)' = Half(TO)
      /\ \A x \in Half(FROM) : MEMORY'[x] = MEMORY[x]
      /\ \A x \in Half(TO) : MEMORY'[x].kind = "free"
      /\ \A x : x \in FROM .. FROM + CAP_MEMORY - 1 => MEMORY'[x] = MEMORY[x]
  <2>1. Half(FROM)' = Half(FROM) /\ Half(TO)' = Half(TO)
    BY <1>1 DEF Half, TO
  <2>2. Free.kind = "free"
    BY DEF Free, W
  <2>3. \A x \in Half(FROM) : MEMORY'[x] = MEMORY[x]
    BY <1>1, <1>2
  <2> QED
    BY <1>1, <1>2, <2>1, <2>2, <2>3
<1>4. \A x : NewBlock(x)' <=> NewBlock(x)
  BY <1>3 DEF NewBlock
<1>5. ScanAt = FROM + LEN_FROM + 1
  <2>1. j = 0
    BY <1>1 DEF IInv, ScanInv
  <2> QED
    BY <1>1, <1>2, <2>1 DEF ScanAt, BLOCK_HEADER_SIZE
<1>6. \A x \in Half(FROM) : MEMORY[x].kind = "pointer" => x < ScanAt /\ NewBlock(MEMORY[x].val)
  <2> SUFFICES ASSUME NEW x \in Half(FROM), MEMORY[x].kind = "pointer"
               PROVE  x < ScanAt
    BY <1>1 DEF IInv, CopiesInv
  <2>1. x \notin FROM + LEN_FROM .. FROM + CAP_MEMORY - 1
    BY DEF IInv, Covered
  <2>2. x \in FROM .. FROM + CAP_MEMORY - 1
    BY <1>2
  <2> QED
    BY <1>2, <1>5, <2>1, <2>2
<1>7. \A n \in 1 .. Len(STACK) : /\ STACK[n] \in Locals /\ STACK[n] \in Registered
                                 /\ local'[STACK[n]] = local[STACK[n]]
                                 /\ NewBlock(local[STACK[n]]) /\ local[STACK[n]] # Nil
  BY <1>1 DEF IInv, Types, RootsInv, Registered
<1>8. Types'
  <2>1. Free \in Word
    BY DEF Free, W, Word
  <2>2. MEMORY' \in [Addr -> Word]
    BY <1>1, <2>1 DEF IInv, Types
  <2>3. local' \in [Locals -> Addr \cup {Nil}]
    BY <1>1 DEF IInv, Types
  <2> QED
    BY <1>1, <2>2, <2>3 DEF IInv, Types
<1>9. Shaped'
  <2> SUFFICES ASSUME NEW a \in Addr, MEMORY'[a].kind \in {"header", "forward"}
               PROVE  /\ MEMORY'[a].val >= 1
                      /\ a \in Half(FROM) => a + MEMORY'[a].val \in Half(FROM)
                      /\ a \in Half(TO) => a + MEMORY'[a].val \in Half(TO)
                      /\ \A k \in 1 .. MEMORY'[a].val : MEMORY'[a + k].kind \in DataKinds
    BY <1>3 DEF Shaped, Addr
  <2>1. a \in Half(FROM) /\ MEMORY'[a] = MEMORY[a] /\ a \notin Half(TO)
    BY <1>2, <1>3
  <2>2. \A k \in 1 .. MEMORY[a].val : MEMORY'[a + k] = MEMORY[a + k]
    BY <1>3, <2>1, BlockWords DEF IInv
  <2> QED
    BY <2>1, <2>2 DEF IInv, Shaped
<1>10. Covered'
  <2>1. \A x \in FROM .. FROM + LEN_FROM - 1 :
          \E a \in FROM .. x : MEMORY'[a].kind = "header" /\ x <= a + MEMORY'[a].val
    <3> SUFFICES ASSUME NEW x \in FROM .. FROM + LEN_FROM - 1
                 PROVE  \E a \in FROM .. x : MEMORY'[a].kind = "header" /\ x <= a + MEMORY'[a].val
      OBVIOUS
    <3>1. PICK a \in FROM .. x : MEMORY[a].kind = "header" /\ x <= a + MEMORY[a].val
      BY DEF IInv, Covered
    <3>2. a \in FROM .. FROM + CAP_MEMORY - 1
      BY <1>2
    <3> QED
      BY <1>3, <3>1, <3>2
  <2>2. \A x \in FROM + LEN_FROM .. FROM + CAP_MEMORY - 1 : MEMORY'[x].kind = "free"
    <3> SUFFICES ASSUME NEW x \in FROM + LEN_FROM .. FROM + CAP_MEMORY - 1
                 PROVE  MEMORY'[x].kind = "free"
      OBVIOUS
    <3>1. x \in FROM .. FROM + CAP_MEMORY - 1
      BY <1>2
    <3> QED
      BY <1>3, <3>1 DEF IInv, Covered
  <2> QED
    BY <1>1, <1>3, <2>1, <2>2 DEF IInv, Covered
<1>11. SettledInv'
  <2>1. \A v \in Locals : local'[v] # Nil => NewBlock(local[v])'
    <3> SUFFICES ASSUME NEW v \in Locals, local'[v] # Nil
                 PROVE  \A x : x = local'[v] => NewBlock(x)
      BY <1>4 DEF NewBlock
    <3>1. v \in Registered /\ local'[v] = local[v]
      BY <1>1
    <3> QED
      BY <1>7, <3>1 DEF Registered
  <2>2. \A x \in Half(FROM) : MEMORY'[x].kind = "pointer" => NewBlock(MEMORY[x].val)'
    <3> SUFFICES ASSUME NEW x \in Half(FROM), MEMORY'[x].kind = "pointer"
                 PROVE  \A y : y = MEMORY'[x].val => NewBlock(y)
      BY <1>4 DEF NewBlock
    <3> QED
      BY <1>3, <1>6
  <2> QED
    BY <1>3, <2>1, <2>2 DEF SettledInv
<1>12. RootsInv'
  BY <1>1, <1>7 DEF IInv, RootsInv
<1>13. ScanInv' /\ CopiesInv' /\ OriginalsInv' /\ RoomInv'
  BY <1>1 DEF ScanInv, CopiesInv, OriginalsInv, RoomInv, Collecting
<1>14. AllHeld'
  <2> SUFFICES ASSUME NEW a \in Half(FROM), MEMORY[a].kind = "header" PROVE Held(a)'
    BY <1>3 DEF AllHeld
  <2>1. HeldByRoot(a) \/ HeldByWord(a)
    BY <1>1 DEF IInv, HeldInv
  <2>2. CASE HeldByRoot(a)
    BY <1>1, <1>7, <2>2 DEF HeldByRoot, Held
  <2>3. CASE HeldByWord(a)
    <3>1. PICK x \in FROM .. a - 1 : MEMORY[x].kind = "pointer" /\ MEMORY[x].val = a
      BY <2>3 DEF HeldByWord
    <3>2. x \in FROM .. FROM + CAP_MEMORY - 1
      <4>1. a \in FROM .. FROM + CAP_MEMORY - 1
        BY <1>2
      <4> QED
        BY <1>2, <4>1
    <3>3. MEMORY'[x] = MEMORY[x]
      BY <1>3, <3>2
    <3> QED
      BY <1>1, <3>1, <3>3 DEF Held
  <2> QED
    BY <2>1, <2>2, <2>3
<1>15. HeldInv'
  BY <1>1, <1>14 DEF HeldInv, AllHeld, Held, HeldByRoot, HeldByWord
<1>16. PendingInv'
  <2>1. ASSUME pending.op = "field"
        PROVE  pending.v \in Registered /\ pending.k \in 1 .. MEMORY'[local'[pending.v]].val
    <3>1. pending.v \in Registered /\ pending.k \in 1 .. MEMORY[local[pending.v]].val
      BY <1>1, <2>1 DEF IInv, PendingInv
    <3>2. NewBlock(local[pending.v]) /\ local'[pending.v] = local[pending.v]
      BY <1>7, <3>1 DEF Registered
    <3> QED
      BY <1>3, <3>1, <3>2 DEF NewBlock
  <2> QED
    BY <1>1, <2>1 DEF IInv, PendingInv, Registered, Collecting
<1>17. EndInv'
  BY <1>1 DEF EndInv
<1> QED
  BY <1>8, <1>9, <1>10, <1>11, <1>12, <1>13, <1>14, <1>15, <1>16, <1>17 DEF IInv

-----------------------------------------------------------------------------
(* Every step keeps the invariant.                                         *)

LEMMA SameVarsInv == ASSUME IInv, UNCHANGED vars PROVE IInv'
<1>1. UNCHANGED <<MEMORY, FROM, LEN_FROM, STACK, local, pc, i, j, pending>>
  BY DEF vars
<1>2. Half(FROM)' = Half(FROM) /\ Half(TO)' = Half(TO)
  BY <1>1 DEF Half, TO
<1>3. (\A x : NewBlock(x)' <=> NewBlock(x)) /\ (\A x : OldBlock(x)' <=> OldBlock(x))
  BY <1>1, <1>2 DEF NewBlock, OldBlock
<1>4. Types' /\ Shaped' /\ Covered'
  BY <1>1, <1>2 DEF IInv, Types, Shaped, Covered
<1>5. SettledInv' /\ RootsInv'
  BY <1>1, <1>2, <1>3 DEF IInv, SettledInv, RootsInv, Settled
<1>6. ScanAt' = ScanAt
  BY <1>1 DEF ScanAt
<1>7. ScanInv' /\ CopiesInv' /\ OriginalsInv'
  BY <1>1, <1>2, <1>3, <1>6 DEF IInv, ScanInv, CopiesInv, OriginalsInv, Collecting
<1>8. RoomInv'
  <2>1. Moved' = Moved
    BY <1>1, <1>2 DEF Moved
  <2>2. FootPrint(Moved)' = FootPrint(Moved)
    BY <1>1, <2>1 DEF FootPrint
  <2> QED
    BY <1>1, <2>2 DEF IInv, RoomInv, Collecting
<1>9. HeldInv'
  BY <1>1, <1>2, <1>6 DEF IInv, HeldInv, HeldByRoot, HeldByWord
<1>10. PendingInv'
  BY <1>1 DEF IInv, PendingInv, Collecting, Registered
<1>11. EndInv'
  BY <1>1 DEF IInv, EndInv, Blocks, Fits
<1> QED
  BY <1>4, <1>5, <1>7, <1>8, <1>9, <1>10, <1>11 DEF IInv

LEMMA StepInv == IInv /\ [Next]_vars => IInv'
<1> SUFFICES ASSUME IInv, [Next]_vars PROVE IInv'
  OBVIOUS
<1>1. CASE Client
  <2>1. CASE stack_pop \/ collect
    BY <2>1, PopInv, CollectInv
  <2>2. ASSUME NEW v \in Locals, stack_push(v) PROVE IInv'
    BY <2>2, PushInv
  <2>3. ASSUME NEW v \in Locals, NEW r \in Requests(v), alloc(r) PROVE IInv'
    BY <2>3, AllocInv
  <2>4. ASSUME NEW v \in Locals, NEW k \in Words, NEW x \in Literals, StoreLiteral(v, k, x)
        PROVE  IInv'
    BY <2>4, StoreLiteralInv
  <2>5. ASSUME NEW v \in Locals, NEW k \in Words, NEW w \in Locals,
               StorePointer(v, k, w) \/ LoadPointer(w, v, k)
        PROVE  IInv'
    BY <2>5, StorePointerInv, LoadPointerInv
  <2> QED
    BY <1>1, <2>1, <2>2, <2>3, <2>4, <2>5 DEF Client
<1>2. CASE Collector
  BY <1>2, CopyRootInv, RootsDoneInv, ScanWordInv, NextBlockInv, ScanDoneInv, ResumeInv
     DEF Collector
<1>3. CASE UNCHANGED vars
  BY <1>3, SameVarsInv
<1> QED
  BY <1>1, <1>2, <1>3 DEF Next

-----------------------------------------------------------------------------
(* What a set of addresses reaches.                                        *)

\* The recursive function in the definition of Reachable exists.
IsReach(r, S, bound) ==
  r = [n \in 0 .. bound |->
         IF n = 0 THEN S ELSE r[n - 1] \cup UNION {Pointees(a) : a \in r[n - 1]}]

LEMMA ReachExists == ASSUME NEW S, NEW bound \in Nat PROVE \E r : IsReach(r, S, bound)
<1> DEFINE D == {m \in Nat : \E r : IsReach(r, S, m)}
<1>1. 0 \in D
  <2> DEFINE r == [n \in 0 .. 0 |-> S]
  <2>1. r = [n \in 0 .. 0 |-> IF n = 0 THEN S ELSE r[n - 1] \cup UNION {Pointees(a) : a \in r[n - 1]}]
    OBVIOUS
  <2> QED
    BY <2>1 DEF IsReach
<1>2. \A m \in Nat : m \in D => m + 1 \in D
  <2> SUFFICES ASSUME NEW m \in Nat, NEW r, IsReach(r, S, m) PROVE \E q : IsReach(q, S, m + 1)
    OBVIOUS
  <2> DEFINE q == [n \in 0 .. m + 1 |->
                     IF n <= m THEN r[n] ELSE r[m] \cup UNION {Pointees(a) : a \in r[m]}]
  <2>1. \A n \in 0 .. m : r[n] = IF n = 0 THEN S
                                 ELSE r[n - 1] \cup UNION {Pointees(a) : a \in r[n - 1]}
    BY DEF IsReach
  <2>2. \A n \in 0 .. m + 1 : q[n] = IF n = 0 THEN S
                                     ELSE q[n - 1] \cup UNION {Pointees(a) : a \in q[n - 1]}
    <3> SUFFICES ASSUME NEW n \in 0 .. m + 1
                 PROVE  q[n] = IF n = 0 THEN S
                               ELSE q[n - 1] \cup UNION {Pointees(a) : a \in q[n - 1]}
      OBVIOUS
    <3>1. CASE n = 0
      <4>1. q[n] = r[n] /\ n \in 0 .. m
        BY <3>1
      <4> HIDE DEF q
      <4> QED
        BY <2>1, <3>1, <4>1
    <3>2. CASE n \in 1 .. m
      <4>1. q[n] = r[n] /\ q[n - 1] = r[n - 1] /\ n # 0 /\ n \in 0 .. m
        BY <3>2
      <4> HIDE DEF q
      <4> QED
        BY <2>1, <4>1
    <3>3. CASE n = m + 1
      <4>1. q[n] = r[m] \cup UNION {Pointees(a) : a \in r[m]} /\ q[n - 1] = r[m] /\ n # 0
        BY <3>3
      <4> HIDE DEF q
      <4> QED
        BY <4>1
    <3> QED
      BY <3>1, <3>2, <3>3
  <2>3. q = [n \in 0 .. m + 1 |-> q[n]]
    OBVIOUS
  <2> HIDE DEF q
  <2>4. IsReach(q, S, m + 1)
    BY <2>2, <2>3 DEF IsReach
  <2> QED
    BY <2>4
<1> HIDE DEF D
<1>3. bound \in D
  BY <1>1, <1>2, NatSetInduction
<1> QED
  BY <1>3 DEF D

LEMMA ReachableIs ==
  ASSUME NEW S, Cardinality(Ids) \in Nat
  PROVE  \E r : IsReach(r, S, Cardinality(Ids)) /\ Reachable(S) = r[Cardinality(Ids)]
<1> DEFINE r == CHOOSE r : IsReach(r, S, Cardinality(Ids))
<1>1. IsReach(r, S, Cardinality(Ids))
  BY ReachExists
<1>2. Reachable(S) = r[Cardinality(Ids)]
  BY DEF Reachable, IsReach
<1> QED
  BY <1>1, <1>2

\* The blocks in use are those of the half, all of them with their header.
LEMMA BlocksInUse ==
  ASSUME IInv
  PROVE  /\ Blocks \subseteq Half(FROM)
         /\ \A a \in Blocks : /\ a \in Nat /\ a \in Addr /\ MEMORY[a].kind = "header"
                              /\ MEMORY[a].val \in Nat /\ a + MEMORY[a].val < FROM + LEN_FROM
                              /\ a >= FROM
         /\ \A a : NewBlock(a) => a \in Blocks
<1>1. /\ FROM \in Nat /\ LEN_FROM \in Nat /\ CAP_MEMORY \in Nat /\ LEN_FROM <= CAP_MEMORY
      /\ \A x \in Half(FROM) : x \in Addr /\ x \in Nat
      /\ \A x : x \in Half(FROM) <=> x \in FROM .. FROM + CAP_MEMORY - 1
  BY Halves DEF IInv, Half
<1>2. \A a \in Blocks : a \in Half(FROM)
  BY <1>1 DEF Blocks
<1>3. \A a \in Half(FROM) : MEMORY[a].kind # "forward"
  BY DEF IInv, Covered
<1>4. \A a \in Blocks : a \in Half(FROM) /\ MEMORY[a].kind = "header" /\ a >= FROM
  BY <1>1, <1>2, <1>3 DEF Blocks
<1>5. ASSUME NEW a, NewBlock(a) PROVE a \in Blocks
  <2>1. a \in Half(FROM) /\ a \in FROM .. FROM + CAP_MEMORY - 1 /\ MEMORY[a].kind = "header"
    BY <1>1, <1>3, <1>5 DEF NewBlock
  <2>2. a \notin FROM + LEN_FROM .. FROM + CAP_MEMORY - 1
    BY <2>1 DEF IInv, Covered
  <2> QED
    BY <1>1, <2>1, <2>2 DEF Blocks
<1> QED
  BY <1>1, <1>4, <1>5, InUse, WordTypes DEF IInv

LEMMA BlocksTile ==
  ASSUME IInv
  PROVE  /\ FootPrint(Blocks) = FROM .. FROM + LEN_FROM - 1
         /\ \A a, b \in Blocks : a # b => (a .. a + MEMORY[a].val) \cap (b .. b + MEMORY[b].val) = {}
<1>1. FROM \in Nat /\ LEN_FROM \in Nat /\ CAP_MEMORY \in Nat /\ LEN_FROM <= CAP_MEMORY
  BY Halves DEF IInv
<1>2. FootPrint(Blocks) \subseteq FROM .. FROM + LEN_FROM - 1
  BY <1>1, BlocksInUse DEF FootPrint
<1>3. ASSUME NEW x \in FROM .. FROM + LEN_FROM - 1 PROVE x \in FootPrint(Blocks)
  <2>1. PICK a \in FROM .. x : MEMORY[a].kind = "header" /\ x <= a + MEMORY[a].val
    BY <1>3 DEF IInv, Covered
  <2>2. a \in Blocks /\ x \in Int /\ a \in Int
    BY <1>1, <2>1 DEF Blocks
  <2>3. x \in a .. a + MEMORY[a].val
    BY <2>1, <2>2, BlocksInUse
  <2> QED
    BY <2>2, <2>3 DEF FootPrint
<1>4. ASSUME NEW a \in Blocks, NEW b \in Blocks, a < b
      PROVE  (a .. a + MEMORY[a].val) \cap (b .. b + MEMORY[b].val) = {}
  <2>1. a + MEMORY[a].val < b
    BY <1>4, BlocksInUse, Apart DEF IInv
  <2> QED
    BY <2>1, BlocksInUse
<1>5. \A a, b \in Blocks : a # b => a < b \/ b < a
  BY BlocksInUse
<1>6. \A a, b \in Blocks : a # b => (a .. a + MEMORY[a].val) \cap (b .. b + MEMORY[b].val) = {}
  BY <1>4, <1>5
<1> QED
  BY <1>2, <1>3, <1>6

LEMMA IdsCount ==
  ASSUME CAP_MEMORY \in Nat
  PROVE  Cardinality(Ids) \in Nat /\ 2 * Cardinality(Ids) >= CAP_MEMORY
<1> DEFINE half == (CAP_MEMORY + 1) \div 2
<1>1. half \in Nat /\ 2 * half >= CAP_MEMORY
  OBVIOUS
<1> HIDE DEF half
<1>2. Cardinality(1 .. half) = half
  <2>1. CASE half = 0
    <3>1. 1 .. half = {}
      BY <2>1
    <3> QED
      BY <2>1, <3>1, FS_EmptySet
  <2>2. CASE half > 0
    BY <1>1, <2>2, FS_Interval
  <2> QED
    BY <1>1, <2>1, <2>2
<1>3. Ids = 1 .. half
  BY DEF Ids, half
<1> QED
  BY <1>1, <1>2, <1>3

\* A set of addresses is part of what it reaches.
LEMMA ReachesItself ==
  ASSUME CAP_MEMORY \in Nat, NEW S
  PROVE  S \subseteq Reachable(S)
<1>1. Cardinality(Ids) \in Nat
  BY IdsCount
<1>2. PICK r : IsReach(r, S, Cardinality(Ids)) /\ Reachable(S) = r[Cardinality(Ids)]
  BY <1>1, ReachableIs
<1> DEFINE D == {n \in 0 .. Cardinality(Ids) : S \subseteq r[n]}
<1>3. \A n \in 0 .. Cardinality(Ids) :
        r[n] = IF n = 0 THEN S ELSE r[n - 1] \cup UNION {Pointees(a) : a \in r[n - 1]}
  BY <1>2 DEF IsReach
<1>4. 0 \in D
  <2>1. 0 \in 0 .. Cardinality(Ids)
    BY <1>1
  <2>2. r[0] = S
    BY <1>3, <2>1
  <2> QED
    BY <2>1, <2>2
<1>5. ASSUME NEW n \in 0 .. Cardinality(Ids) - 1, n \in D PROVE n + 1 \in D
  <2>1. n + 1 \in 0 .. Cardinality(Ids) /\ n + 1 # 0 /\ (n + 1) - 1 = n
    BY <1>1
  <2>2. r[n] \subseteq r[n + 1]
    BY <1>3, <2>1
  <2> QED
    BY <1>5, <2>1, <2>2
<1> HIDE DEF D
<1>6. Cardinality(Ids) \in D
  BY <1>1, <1>4, <1>5, SetInduction
<1> QED
  BY <1>2, <1>6 DEF D

\* When nothing refers to the other half and every block is held, by a registered local
\* or by a block before it, the blocks are what the registered locals reach.
LEMMA BlocksAreReachable ==
  IInv /\ AllHeld /\ Settled => Blocks = Reachable(RootAddresses)
<1> SUFFICES ASSUME IInv, AllHeld, Settled PROVE Blocks = Reachable(RootAddresses)
  OBVIOUS
<1>1. /\ FROM \in Nat /\ LEN_FROM \in Nat /\ CAP_MEMORY \in Nat /\ LEN_FROM <= CAP_MEMORY
      /\ \A x : x \in Half(FROM) <=> x \in FROM .. FROM + CAP_MEMORY - 1
      /\ Cardinality(Ids) \in Nat /\ 2 * Cardinality(Ids) >= CAP_MEMORY
  BY Halves, IdsCount DEF IInv, Half
<1> DEFINE top == Cardinality(Ids)
<1>2. PICK r : IsReach(r, RootAddresses, top) /\ Reachable(RootAddresses) = r[top]
  BY <1>1, ReachableIs
<1>3. \A n \in 0 .. top :
        r[n] = IF n = 0 THEN RootAddresses
               ELSE r[n - 1] \cup UNION {Pointees(a) : a \in r[n - 1]}
  BY <1>2 DEF IsReach
<1>4. RootAddresses \subseteq Blocks
  <2> SUFFICES ASSUME NEW n \in 1 .. Len(STACK) PROVE local[STACK[n]] \in Blocks
    BY DEF RootAddresses, Registered, IInv, Types
  <2>1. STACK[n] \in Locals /\ local[STACK[n]] # Nil
    BY DEF IInv, Types, RootsInv
  <2> QED
    BY <2>1, BlocksInUse DEF IInv, SettledInv
<1>5. \A a \in Blocks : Pointees(a) \subseteq Blocks
  <2> SUFFICES ASSUME NEW a \in Blocks, NEW k \in 1 .. MEMORY[a].val, MEMORY[a + k].kind = "pointer"
               PROVE  MEMORY[a + k].val \in Blocks
    BY DEF Pointees
  <2>1. a + k \in Half(FROM)
    BY BlocksInUse, BlockWords DEF IInv
  <2> QED
    BY <2>1, BlocksInUse DEF IInv, SettledInv
<1>6. \A a \in Blocks :
        \/ a \in RootAddresses
        \/ \E p \in Blocks : p + 2 <= a /\ a \in Pointees(p)
  <2> SUFFICES ASSUME NEW a \in Blocks, a \notin RootAddresses
               PROVE  \E p \in Blocks : p + 2 <= a /\ a \in Pointees(p)
    OBVIOUS
  <2>1. a \in Half(FROM) /\ MEMORY[a].kind = "header" /\ a \in Nat /\ a < FROM + LEN_FROM
    BY <1>1, BlocksInUse
  <2>2. ~ \E n \in 1 .. Len(STACK) : local[STACK[n]] = a
    BY DEF RootAddresses, Registered, IInv, Types
  <2>3. PICK x \in FROM .. a - 1 : MEMORY[x].kind = "pointer" /\ MEMORY[x].val = a
    BY <2>1, <2>2 DEF AllHeld, Held
  <2>4. x \in FROM .. FROM + LEN_FROM - 1 /\ x \in Nat /\ x < a
    BY <1>1, <2>1
  <2>5. PICK p \in FROM .. x : MEMORY[p].kind = "header" /\ x <= p + MEMORY[p].val
    BY <2>4 DEF IInv, Covered
  <2>6. p \in Blocks /\ p \in Nat /\ MEMORY[p].val \in Nat /\ p # x
    <3>1. p \in Blocks
      BY <1>1, <2>4, <2>5 DEF Blocks
    <3> QED
      BY <2>3, <2>5, <3>1, BlocksInUse
  <2>7. x - p \in 1 .. MEMORY[p].val /\ p + (x - p) = x /\ p + 2 <= a
    BY <2>4, <2>5, <2>6
  <2>8. a \in Pointees(p)
    BY <2>3, <2>7 DEF Pointees
  <2> QED
    BY <2>6, <2>7, <2>8
<1> DEFINE D == {n \in 0 .. top : /\ r[n] \subseteq Blocks
                                  /\ RootAddresses \subseteq r[n]
                                  /\ \A a \in Blocks : a - FROM <= 2 * n + 1 => a \in r[n]}
<1>7. 0 \in D
  <2>1. 0 \in 0 .. top
    BY <1>1
  <2>2. r[0] = RootAddresses
    BY <1>3, <2>1
  <2>3. \A a \in Blocks : a - FROM <= 1 => a \in RootAddresses
    BY <1>1, <1>6, BlocksInUse
  <2> QED
    BY <1>4, <2>1, <2>2, <2>3
<1>8. ASSUME NEW n \in 0 .. top - 1, n \in D PROVE n + 1 \in D
  <2>1. n + 1 \in 0 .. top /\ n + 1 # 0 /\ (n + 1) - 1 = n /\ n \in Nat /\ 2 * (n + 1) + 1 = 2 * n + 3
    BY <1>1
  <2>2. r[n + 1] = r[n] \cup UNION {Pointees(a) : a \in r[n]}
    BY <1>3, <2>1
  <2>3. r[n + 1] \subseteq Blocks /\ RootAddresses \subseteq r[n + 1]
    BY <1>5, <1>8, <2>2
  <2>4. ASSUME NEW a \in Blocks, a - FROM <= 2 * n + 3 PROVE a \in r[n + 1]
    <3>1. CASE a \in RootAddresses
      BY <2>3, <3>1
    <3>2. CASE \E p \in Blocks : p + 2 <= a /\ a \in Pointees(p)
      <4>1. PICK p \in Blocks : p + 2 <= a /\ a \in Pointees(p)
        BY <3>2
      <4>2. p - FROM <= 2 * n + 1
        BY <1>1, <2>1, <2>4, <4>1, BlocksInUse
      <4>3. p \in r[n]
        BY <1>8, <4>2
      <4> QED
        BY <2>2, <4>1, <4>3
    <3> QED
      BY <1>6, <3>1, <3>2
  <2> QED
    BY <2>1, <2>3, <2>4
<1>9. top \in D
  <2> HIDE DEF D
  <2> QED
    BY <1>1, <1>7, <1>8, SetInduction
<1>10. \A a \in Blocks : a - FROM <= 2 * top + 1
  BY <1>1, BlocksInUse
<1> QED
  BY <1>2, <1>9, <1>10

-----------------------------------------------------------------------------
(* The theorems.                                                           *)

LEMMA IsInductive == Spec => []IInv
<1> QED
  BY InitInv, StepInv, PTL DEF Spec

LEMMA SafeWhenInv == IInv => CollectionSafe
<1> SUFFICES ASSUME IInv PROVE CollectionSafe
  OBVIOUS
<1>1. Tiled
  BY BlocksTile, BlocksInUse DEF Tiled
<1>2. pc \notin {"wild", "exit_copy"}
  BY DEF IInv, EndInv
<1>3. ASSUME pc = "undefined"
      PROVE  \E a \in Reachable(RootAddresses \cup Blocks) : \E k \in 1 .. MEMORY[a].val :
               MEMORY[a + k].kind = "unset"
  <2>1. PICK a \in Blocks : \E k \in 1 .. MEMORY[a].val : MEMORY[a + k].kind = "unset"
    BY <1>3 DEF IInv, EndInv
  <2>2. RootAddresses \cup Blocks \subseteq Reachable(RootAddresses \cup Blocks)
    BY CapAssumption, ReachesItself
  <2> QED
    BY <2>1, <2>2
<1> QED
  BY <1>1, <1>2, <1>3 DEF CollectionSafe

\* Whatever the client stores, loads, registers and allocates, for every size of the
\* halves: between collections the blocks tile the used part of the half, a collection
\* (lines 149-169) never follows an address that is not a block and never runs out of
\* room for a copy, and only a word nobody wrote, in a block it kept, can trip it up.
THEOREM CollectionIsSafe == Spec => []CollectionSafe
<1> QED
  BY IsInductive, SafeWhenInv, PTL

LEMMA ExhaustionWhenInv == IInv => ExhaustionIsReal
<1> SUFFICES ASSUME IInv, pc = "exit_alloc"
             PROVE  Cardinality(FootPrint(Reachable(RootAddresses))) + BLOCK_HEADER_SIZE + pending.size
                      > CAP_MEMORY
  BY DEF ExhaustionIsReal
<1>1. FROM \in Nat /\ LEN_FROM \in Nat /\ CAP_MEMORY \in Nat /\ pending.size \in Nat
  BY Halves DEF IInv, Types, Request
<1>2. AllHeld
  BY DEF IInv, HeldInv, AllHeld, Held, HeldByRoot, HeldByWord
<1>3. Blocks = Reachable(RootAddresses)
  BY <1>2, BlocksAreReachable DEF Settled
<1>4. FootPrint(Reachable(RootAddresses)) = FROM .. FROM + LEN_FROM - 1
  BY <1>3, BlocksTile
<1>5. Cardinality(FROM .. FROM + LEN_FROM - 1) = LEN_FROM
  <2>1. CASE LEN_FROM = 0
    <3>1. FROM .. FROM + LEN_FROM - 1 = {}
      BY <1>1, <2>1
    <3> QED
      BY <2>1, <3>1, FS_EmptySet
  <2>2. CASE LEN_FROM > 0
    <3>1. /\ FROM \in Int /\ FROM + LEN_FROM - 1 \in Int /\ ~(FROM > FROM + LEN_FROM - 1)
          /\ (FROM + LEN_FROM - 1) - FROM + 1 = LEN_FROM
      BY <1>1, <2>2
    <3> QED
      BY <3>1, FS_Interval
  <2> QED
    BY <1>1, <2>1, <2>2
<1>6. ~(LEN_FROM + 1 + pending.size <= CAP_MEMORY)
  BY DEF IInv, EndInv, Fits, BLOCK_HEADER_SIZE
<1> QED
  BY <1>1, <1>4, <1>5, <1>6 DEF BLOCK_HEADER_SIZE

\* When alloc ends the program (line 181), the blocks the registered locals reach and the
\* request do not fit in a half together: the collection has left no garbage behind that
\* could have made room.
THEOREM OnlyRealExhaustion == Spec => []ExhaustionIsReal
<1> QED
  BY IsInductive, ExhaustionWhenInv, PTL

\* A collection leaves exactly the blocks that the registered locals reach: it loses none
\* of them, and keeps no garbage (lines 149-169).
THEOREM CollectionIsPrecise == Spec => Precise
<1>1. IInv /\ [Next]_vars =>
        [pc = "scan" /\ pc' \in {"run", "resume"} => Blocks' = Reachable(RootAddresses)']_vars
  <2> SUFFICES ASSUME IInv, Next, pc = "scan", pc' \in {"run", "resume"}
               PROVE  Blocks' = Reachable(RootAddresses)'
    OBVIOUS
  <2>1. ScanDone
    BY DEF Next, Client, Collector, stack_pop, collect, stack_push, alloc, StoreLiteral,
           StorePointer, LoadPointer, CopyRoot, RootsDone, ScanWord, NextBlock, alloc_resume
  <2>2. IInv' /\ AllHeld'
    BY <2>1, ScanDoneInv
  <2>3. Settled'
    BY DEF Settled
  <2>4. (Blocks = Reachable(RootAddresses))'
    BY <2>2, <2>3, BlocksAreReachable, PTL
  <2> QED
    BY <2>4
<1> QED
  BY <1>1, IsInductive, PTL DEF Spec, Precise

-----------------------------------------------------------------------------
(* A set that grows by what its elements refer to, in a graph on D whose   *)
(* references are F, and the set it has become after top rounds.           *)

Grows(f, F, S, top) ==
  f[0] = S /\ \A n \in 1 .. top : f[n] = f[n - 1] \cup UNION {F[o] : o \in f[n - 1]}
Reached(L, D, F, S, top) == \E f \in [0 .. top -> SUBSET D] : Grows(f, F, S, top) /\ L = f[top]

LEMMA GrowthExists ==
  ASSUME NEW D, NEW F \in [D -> SUBSET D], NEW S \in SUBSET D, NEW top \in Nat
  PROVE  \E f \in [0 .. top -> SUBSET D] : Grows(f, F, S, top)
<1> DEFINE step == [T \in SUBSET D |-> T \cup UNION {F[o] : o \in T}]
<1>1. step \in [SUBSET D -> SUBSET D]
  <2> SUFFICES ASSUME NEW T \in SUBSET D PROVE T \cup UNION {F[o] : o \in T} \subseteq D
    OBVIOUS
  <2>1. \A o \in T : F[o] \subseteq D
    OBVIOUS
  <2> QED
    BY <2>1
<1>2. \A T \in SUBSET D : step[T] = T \cup UNION {F[o] : o \in T}
  OBVIOUS
<1> HIDE DEF step
<1>3. PICK f \in [0 .. top -> SUBSET D] : Iterates(f, step, S, top)
  BY <1>1, IterationExists
<1>4. \A n \in 1 .. top : f[n - 1] \in SUBSET D
  <2> SUFFICES ASSUME NEW n \in 1 .. top PROVE f[n - 1] \in SUBSET D
    OBVIOUS
  <2>1. n - 1 \in 0 .. top
    OBVIOUS
  <2> QED
    BY <2>1
<1> QED
  BY <1>2, <1>3, <1>4 DEF Iterates, Grows

\* There is one such set.
LEMMA SameGrowth ==
  ASSUME NEW F, NEW S, NEW top \in Nat, NEW f, NEW g, Grows(f, F, S, top), Grows(g, F, S, top)
  PROVE  \A n \in 0 .. top : f[n] = g[n]
<1> DEFINE D == {n \in 0 .. top : f[n] = g[n]}
<1>1. 0 \in D
  BY DEF Grows
<1>2. ASSUME NEW n \in 0 .. top - 1, n \in D PROVE n + 1 \in D
  <2>1. n + 1 \in 1 .. top /\ (n + 1) - 1 = n /\ f[n] = g[n]
    BY <1>2
  <2>2. f[n + 1] = g[n + 1]
    BY <2>1 DEF Grows
  <2> QED
    BY <2>1, <2>2
<1>3. \A n \in 0 .. top : n \in D
  <2> HIDE DEF D
  <2> QED
    BY <1>1, <1>2, SetInduction
<1> QED
  BY <1>3

LEMMA ReachedOnce ==
  ASSUME NEW D, NEW F, NEW S, NEW top \in Nat, NEW L, NEW M,
         Reached(L, D, F, S, top), Reached(M, D, F, S, top)
  PROVE  L = M
<1>1. PICK f : Grows(f, F, S, top) /\ L = f[top]
  BY DEF Reached
<1>2. PICK g : Grows(g, F, S, top) /\ M = g[top]
  BY DEF Reached
<1>3. top \in 0 .. top
  OBVIOUS
<1> QED
  BY <1>1, <1>2, <1>3, SameGrowth

\* When the graph has no more than top nodes, the set is closed: each round but the last
\* finds a node more.
LEMMA ReachedClosed ==
  ASSUME NEW D, NEW F \in [D -> SUBSET D], NEW S \in SUBSET D, NEW top \in Nat, NEW L,
         IsFiniteSet(D), Cardinality(D) <= top, Reached(L, D, F, S, top)
  PROVE  L \subseteq D /\ S \subseteq L /\ \A o \in L : F[o] \subseteq L
<1>1. PICK f \in [0 .. top -> SUBSET D] : Grows(f, F, S, top) /\ L = f[top]
  BY DEF Reached
<1>2. /\ f[0] = S
      /\ \A k \in 0 .. top - 1 : f[k + 1] = f[k] \cup UNION {F[o] : o \in f[k]}
  <2> SUFFICES ASSUME NEW k \in 0 .. top - 1 PROVE f[k + 1] = f[k] \cup UNION {F[o] : o \in f[k]}
    BY <1>1 DEF Grows
  <2>1. k + 1 \in 1 .. top /\ (k + 1) - 1 = k
    OBVIOUS
  <2> QED
    BY <1>1, <2>1 DEF Grows
<1>3. \A T \in SUBSET D : IsFiniteSet(T) /\ Cardinality(T) \in Nat /\ Cardinality(T) <= top
  <2> SUFFICES ASSUME NEW T \in SUBSET D
               PROVE  IsFiniteSet(T) /\ Cardinality(T) \in Nat /\ Cardinality(T) <= top
    OBVIOUS
  <2>1. IsFiniteSet(T) /\ Cardinality(T) <= Cardinality(D)
    BY FS_Subset
  <2>2. Cardinality(T) \in Nat /\ Cardinality(D) \in Nat
    BY <2>1, FS_CardinalityType
  <2> QED
    BY <2>1, <2>2
<1> DEFINE Closed(T) == \A o \in T : F[o] \subseteq T
           Good == {k \in 0 .. top : /\ f[k] \subseteq D /\ S \subseteq f[k]
                                     /\ Closed(f[k]) \/ Cardinality(f[k]) > k}
<1>4. 0 \in Good
  <2>1. CASE S = {}
    BY <1>2, <2>1
  <2>2. CASE S # {}
    <3>1. Cardinality(S) > 0
      BY <1>3, <2>2, FS_EmptySet
    <3> QED
      BY <1>2, <3>1
  <2> QED
    BY <2>1, <2>2
<1>5. ASSUME NEW k \in 0 .. top - 1, k \in Good PROVE k + 1 \in Good
  <2>1. /\ k + 1 \in 0 .. top /\ k \in Nat /\ f[k] \in SUBSET D /\ S \subseteq f[k]
        /\ Closed(f[k]) \/ Cardinality(f[k]) > k
    BY <1>5
  <2>2. f[k + 1] = f[k] \cup UNION {F[o] : o \in f[k]} /\ f[k + 1] \in SUBSET D
    BY <1>2, <2>1
  <2>3. CASE Closed(f[k])
    <3>1. f[k + 1] = f[k]
      BY <2>2, <2>3
    <3> QED
      BY <2>1, <2>3, <3>1
  <2>4. CASE ~Closed(f[k])
    <3>1. PICK x : x \in f[k + 1] /\ x \notin f[k]
      BY <2>2, <2>4
    <3>2. Cardinality(f[k]) > k
      BY <2>1, <2>4
    <3>3. Cardinality(f[k]) # Cardinality(f[k + 1]) /\ Cardinality(f[k]) <= Cardinality(f[k + 1])
      <4>1. IsFiniteSet(f[k + 1]) /\ f[k] \in SUBSET f[k + 1]
        BY <1>3, <2>2
      <4> QED
        BY <3>1, <4>1, FS_Subset
    <3>4. Cardinality(f[k + 1]) > k + 1
      BY <1>3, <2>1, <2>2, <3>2, <3>3
    <3> QED
      BY <2>1, <2>2, <3>4
  <2> QED
    BY <2>3, <2>4
<1>6. top \in Good
  <2> HIDE DEF Good
  <2>1. \A k \in 0 .. top : k \in Good
    BY <1>4, <1>5, SetInduction
  <2> QED
    BY <2>1
<1>7. f[top] \in SUBSET D /\ ~(Cardinality(f[top]) > top)
  BY <1>3
<1> QED
  BY <1>1, <1>6, <1>7

-----------------------------------------------------------------------------
(* The objects in memory.                                                  *)

Headers == {a \in Addr : MEMORY[a].kind = "header"}
Objects == {name[a] : a \in Headers}
NamedByLocals == {RootObject[v] : v \in Locals} \ {Nil}
RefsOf(o) == Heap!Refs(Object(o))

\* Each block has a name, which only a moved block and its copy share.
Named ==
  /\ name \in [Addr -> Ids \cup {Nil}]
  /\ \A a \in Addr : name[a] # Nil <=> MEMORY[a].kind \in {"header", "forward"}
  /\ \A a, b \in Headers : name[a] = name[b] => a = b
  /\ \A a \in Addr : MEMORY[a].kind = "forward" => name[MEMORY[a + 1].val] = name[a]

NamesInv ==
  /\ Named
  /\ \A v \in Locals : local[v] # Nil => IsBlock(local[v])
  /\ pending.op = "field" => pending.k \in Words

\* The states in which a step is still to come.
Sound == IInv /\ NamesInv /\ pc # "undefined"

LEMMA IdsAre == Ids \subseteq Nat /\ Nil \notin Ids /\ IsFiniteSet(Ids) /\ Cardinality(Ids) \in Nat
<1> DEFINE half == (CAP_MEMORY + 1) \div 2
<1>1. half \in Nat
  BY CapAssumption
<1>2. Ids = 1 .. half
  BY DEF Ids
<1> HIDE DEF half
<1>3. IsFiniteSet(1 .. half)
  BY <1>1, FS_Interval
<1>4. Ids \subseteq Nat
  BY <1>1, <1>2
<1> QED
  BY <1>2, <1>3, <1>4, NilAssumption, CapAssumption, IdsCount

LEMMA HeaderOf == Named => \A a \in Headers : BlockOf(name[a]) = a
<1> SUFFICES ASSUME Named, NEW a \in Headers PROVE BlockOf(name[a]) = a
  OBVIOUS
<1>1. a \in Addr /\ MEMORY[a].kind = "header"
  BY DEF Headers
<1>2. \A b \in Addr : name[b] = name[a] /\ MEMORY[b].kind = "header" => b = a
  BY DEF Named, Headers
<1> QED
  BY <1>1, <1>2 DEF BlockOf

\* Every pointer in a block that has not been moved leads to a block.
LEMMA PointersLead ==
  ASSUME IInv, pc # "undefined", NEW a \in Headers, NEW k \in 1 .. MEMORY[a].val,
         MEMORY[a + k].kind = "pointer"
  PROVE  IsBlock(MEMORY[a + k].val)
<1>1. a \in Addr /\ MEMORY[a].kind = "header" /\ (a \in Half(FROM) \/ a \in Half(TO))
  BY Halves DEF IInv, Headers
<1>2. k \in 0 .. MEMORY[a].val
  BY <1>1, WordTypes DEF IInv
<1>3. /\ a \in Half(FROM) => a + k \in Half(FROM)
      /\ a \in Half(TO) => a + k \in Half(TO)
  BY <1>1, <1>2, BlockWords DEF IInv
<1>4. \A x : NewBlock(x) \/ OldBlock(x) => IsBlock(x)
  BY Halves DEF IInv, NewBlock, OldBlock, IsBlock
<1>5. Settled \/ Collecting
  BY DEF Settled, Collecting, IInv, Types, EndInv, Terminal
<1>6. CASE Settled
  <2>1. a \in Half(FROM)
    BY <1>1, <1>6 DEF IInv, SettledInv
  <2> QED
    BY <1>3, <1>4, <1>6, <2>1 DEF IInv, SettledInv
<1>7. CASE Collecting /\ a \in Half(FROM)
  BY <1>3, <1>4, <1>7 DEF IInv, CopiesInv
<1>8. CASE Collecting /\ a \in Half(TO)
  BY <1>1, <1>4, <1>8 DEF IInv, OriginalsInv
<1> QED
  BY <1>1, <1>5, <1>6, <1>7, <1>8

\* The name of a block is the name of an object.
LEMMA BlockNames == Sound => \A p : IsBlock(p) => name[p] \in Objects
<1> SUFFICES ASSUME Sound, NEW p, IsBlock(p) PROVE name[p] \in Objects
  OBVIOUS
<1>1. p \in Addr /\ MEMORY[p].kind \in {"header", "forward"} /\ (p \in Half(FROM) \/ p \in Half(TO))
  BY Halves DEF Sound, IInv, IsBlock
<1>2. CASE MEMORY[p].kind = "header"
  BY <1>1, <1>2 DEF Objects, Headers
<1>3. CASE MEMORY[p].kind = "forward"
  <2>1. p \in Half(TO)
    BY <1>1, <1>3 DEF Sound, IInv, Covered
  <2>2. Collecting
    BY <1>3, <2>1 DEF Sound, IInv, SettledInv, Settled, Collecting, Types, EndInv, Terminal
  <2>3. NewBlock(MEMORY[p + 1].val)
    BY <1>3, <2>1, <2>2 DEF Sound, IInv, OriginalsInv
  <2>4. MEMORY[p + 1].val \in Headers
    BY <2>3, Halves DEF Sound, IInv, NewBlock, Covered, Headers
  <2>5. name[MEMORY[p + 1].val] = name[p]
    BY <1>1, <1>3 DEF Sound, NamesInv, Named
  <2> QED
    BY <2>4, <2>5 DEF Objects
<1> QED
  BY <1>1, <1>2, <1>3

\* The fields of an object, and what they refer to.
FieldsAreThere ==
  \A a \in Headers : Object(name[a]) = [k \in 1 .. MEMORY[a].val |-> Field(MEMORY[a + k])]

LEMMA ObjectAt == Named => FieldsAreThere
<1> SUFFICES ASSUME Named, NEW a \in Headers
             PROVE  Object(name[a]) = [k \in 1 .. MEMORY[a].val |-> Field(MEMORY[a + k])]
  BY DEF FieldsAreThere
<1>1. BlockOf(name[a]) = a
  BY HeaderOf
<1> QED
  BY <1>1 DEF Object

LEMMA FieldIs ==
  \A w : /\ w.kind = "pointer" /\ w = W("pointer", w.val) => Field(w) = Heap!Ref(name[w.val])
         /\ w.kind # "pointer" => Field(w) = w
BY DEF Field, W, Heap!Ref

LEMMA RefsAre ==
  IInv /\ Named => \A o \in Objects : RefsOf(o) = {name[p] : p \in Pointees(BlockOf(o))}
<1> SUFFICES ASSUME IInv, Named, NEW a \in Headers
             PROVE  RefsOf(name[a]) = {name[p] : p \in Pointees(a)}
  BY HeaderOf DEF Objects
<1>1. a \in Addr /\ MEMORY[a].kind = "header" /\ MEMORY[a].val \in Nat
  BY WordTypes DEF IInv, Headers
<1>2. \A k \in 1 .. MEMORY[a].val : a + k \in Addr
  <2>1. \A k \in 1 .. MEMORY[a].val : k \in 0 .. MEMORY[a].val
    BY <1>1
  <2> QED
    BY <1>1, <2>1, BlockWords DEF IInv
<1>3. \A k \in 1 .. MEMORY[a].val : MEMORY[a + k] = W(MEMORY[a + k].kind, MEMORY[a + k].val)
  BY <1>2, WordTypes DEF IInv
<1> DEFINE fields == [k \in 1 .. MEMORY[a].val |-> Field(MEMORY[a + k])]
<1>4. Object(name[a]) = fields
  BY ObjectAt DEF FieldsAreThere
<1>5. \A k \in 1 .. MEMORY[a].val :
        /\ MEMORY[a + k].kind = "pointer" =>
             fields[k].kind = "pointer" /\ fields[k].val = name[MEMORY[a + k].val]
        /\ MEMORY[a + k].kind # "pointer" => fields[k].kind # "pointer"
  BY <1>3, FieldIs DEF Heap!Ref
<1>6. DOMAIN fields = 1 .. MEMORY[a].val
  OBVIOUS
<1> HIDE DEF fields
<1>7. Heap!Refs(fields) = {name[p] : p \in Pointees(a)}
  BY <1>5, <1>6 DEF Heap!Refs, Pointees
<1> QED
  BY <1>4, <1>7 DEF RefsOf

\* The objects are the nodes of a graph.
LEMMA GraphIs ==
  Sound => /\ \A o \in Objects : RefsOf(o) \subseteq Objects
           /\ NamedByLocals \subseteq Objects
           /\ Objects \subseteq Ids /\ IsFiniteSet(Objects) /\ Cardinality(Objects) <= Cardinality(Ids)
           /\ Nil \notin Objects
<1> SUFFICES ASSUME Sound
             PROVE  /\ \A o \in Objects : RefsOf(o) \subseteq Objects
                    /\ NamedByLocals \subseteq Objects
                    /\ Objects \subseteq Ids /\ IsFiniteSet(Objects)
                    /\ Cardinality(Objects) <= Cardinality(Ids) /\ Nil \notin Objects
  OBVIOUS
<1>1. \A o \in Objects : RefsOf(o) \subseteq Objects
  <2> SUFFICES ASSUME NEW a \in Headers, NEW p \in Pointees(a) PROVE name[p] \in Objects
    BY RefsAre, HeaderOf DEF Objects, Sound, NamesInv
  <2>1. PICK k \in 1 .. MEMORY[a].val : MEMORY[a + k].kind = "pointer" /\ p = MEMORY[a + k].val
    BY DEF Pointees
  <2> QED
    BY <2>1, PointersLead, BlockNames DEF Sound
<1>2. NamedByLocals \subseteq Objects
  <2> SUFFICES ASSUME NEW v \in Locals, RootObject[v] # Nil PROVE RootObject[v] \in Objects
    BY DEF NamedByLocals
  <2> QED
    BY BlockNames DEF Sound, NamesInv, RootObject
<1>3. Objects \subseteq Ids
  <2> SUFFICES ASSUME NEW a \in Headers PROVE name[a] \in Ids
    BY DEF Objects
  <2> QED
    BY DEF Sound, NamesInv, Named, Headers
<1> QED
  BY <1>1, <1>2, <1>3, IdsAre, FS_Subset

-----------------------------------------------------------------------------
(* What the two specifications call reachable.                             *)

IsLive(r) ==
  r = [n \in 0 .. Cardinality(Ids) |->
         IF n = 0 THEN Range(RootObject) \ {Nil}
         ELSE r[n - 1] \cup UNION {{name[p] : p \in Pointees(BlockOf(o))} : o \in r[n - 1]}]

LEMMA LiveIs == (\E r : IsLive(r)) => \E r : IsLive(r) /\ LiveObjects = r[Cardinality(Ids)]
<1> SUFFICES ASSUME \E r : IsLive(r) PROVE \E r : IsLive(r) /\ LiveObjects = r[Cardinality(Ids)]
  OBVIOUS
<1> DEFINE r == CHOOSE r : IsLive(r)
<1>1. IsLive(r)
  OBVIOUS
<1>2. LiveObjects = r[Cardinality(Ids)]
  BY DEF LiveObjects, IsLive
<1> QED
  BY <1>1, <1>2

IsHeapReach(r, h, S) ==
  r = [n \in 0 .. Heap!Cardinality(Ids) |->
         IF n = 0 THEN S ELSE r[n - 1] \cup UNION {Heap!Refs(h[o]) : o \in r[n - 1]}]

LEMMA HeapReachIs ==
  ASSUME NEW h, NEW S, \E r : IsHeapReach(r, h, S)
  PROVE  \E r : IsHeapReach(r, h, S) /\ Heap!ReachIn(h, S) = r[Heap!Cardinality(Ids)]
<1> DEFINE r == CHOOSE r : IsHeapReach(r, h, S)
<1>1. IsHeapReach(r, h, S)
  OBVIOUS
<1>2. Heap!ReachIn(h, S) = r[Heap!Cardinality(Ids)]
  BY DEF Heap!ReachIn, IsHeapReach
<1> QED
  BY <1>1, <1>2

\* Two modules mean the same by the size of a set.
LEMMA SameCardinality == Heap!Cardinality(Ids) = Cardinality(Ids)
BY DEF Heap!Cardinality, Cardinality

\* Both are the set that grows from the named objects, in any closed part of the graph.
LiveIsReached ==
  \A D, F : /\ F \in [D -> SUBSET D] /\ NamedByLocals \subseteq D
            /\ \A o \in D : F[o] = {name[p] : p \in Pointees(BlockOf(o))}
            => Reached(LiveObjects, D, F, NamedByLocals, Cardinality(Ids))

LEMMA LiveReached == LiveIsReached
<1> SUFFICES ASSUME NEW D, NEW F, F \in [D -> SUBSET D], NamedByLocals \subseteq D,
                    \A o \in D : F[o] = {name[p] : p \in Pointees(BlockOf(o))}
             PROVE  Reached(LiveObjects, D, F, NamedByLocals, Cardinality(Ids))
  BY DEF LiveIsReached
<1>1. PICK top \in Nat : top = Cardinality(Ids)
  BY IdsAre
<1>2. PICK S : S = NamedByLocals
  OBVIOUS
<1>3. S = Range(RootObject) \ {Nil}
  BY <1>2 DEF NamedByLocals, Range, RootObject
<1>4. PICK f \in [0 .. top -> SUBSET D] : Grows(f, F, S, top)
  BY <1>2, GrowthExists
<1>5. \A n \in 1 .. top :
        f[n] = f[n - 1] \cup UNION {{name[p] : p \in Pointees(BlockOf(o))} : o \in f[n - 1]}
  <2> SUFFICES ASSUME NEW n \in 1 .. top
               PROVE  f[n] = f[n - 1] \cup UNION {{name[p] : p \in Pointees(BlockOf(o))} : o \in f[n - 1]}
    OBVIOUS
  <2>1. n - 1 \in 0 .. top /\ f[n - 1] \subseteq D
    BY <1>4
  <2>2. f[n] = f[n - 1] \cup UNION {F[o] : o \in f[n - 1]}
    BY <1>4 DEF Grows
  <2>3. \A o \in f[n - 1] : F[o] = {name[p] : p \in Pointees(BlockOf(o))}
    BY <2>1
  <2> QED
    BY <2>2, <2>3
<1>6. IsLive(f)
  <2>1. \A n \in 0 .. top : n # 0 => n \in 1 .. top
    OBVIOUS
  <2>2. f[0] = S
    BY <1>4 DEF Grows
  <2>3. f = [n \in 0 .. top |-> f[n]]
    BY <1>4
  <2> QED
    BY <1>1, <1>3, <1>5, <2>1, <2>2, <2>3 DEF IsLive
<1>7. PICK r : IsLive(r) /\ LiveObjects = r[top]
  BY <1>1, <1>6, LiveIs
<1> DEFINE E == {n \in 0 .. top : r[n] = f[n]}
<1>8. \A n \in 0 .. top :
        r[n] = IF n = 0 THEN S
               ELSE r[n - 1] \cup UNION {{name[p] : p \in Pointees(BlockOf(o))} : o \in r[n - 1]}
  BY <1>1, <1>3, <1>7 DEF IsLive
<1>9. 0 \in E
  <2>1. 0 \in 0 .. top
    OBVIOUS
  <2>2. r[0] = S
    BY <1>8, <2>1
  <2> QED
    BY <1>4, <2>1, <2>2 DEF Grows
<1>10. ASSUME NEW n \in 0 .. top - 1, n \in E PROVE n + 1 \in E
  <2>1. n + 1 \in 0 .. top /\ n + 1 \in 1 .. top /\ n + 1 # 0 /\ (n + 1) - 1 = n /\ r[n] = f[n]
    BY <1>10
  <2>2. r[n + 1] = r[n] \cup UNION {{name[p] : p \in Pointees(BlockOf(o))} : o \in r[n]}
    BY <1>8, <2>1
  <2>3. f[n + 1] = f[n] \cup UNION {{name[p] : p \in Pointees(BlockOf(o))} : o \in f[n]}
    BY <1>5, <2>1
  <2>4. r[n + 1] = f[n + 1]
    BY <2>1, <2>2, <2>3
  <2> QED
    BY <2>1, <2>4
<1>11. top \in E
  <2> HIDE DEF E
  <2>1. \A n \in 0 .. top : n \in E
    BY <1>9, <1>10, SetInduction
  <2> QED
    BY <2>1
<1> QED
  BY <1>1, <1>2, <1>4, <1>7, <1>11 DEF Reached

LEMMA HeapReached ==
  ASSUME NEW h, NEW D, NEW F \in [D -> SUBSET D], NEW S \in SUBSET D,
         \A o \in D : F[o] = Heap!Refs(h[o])
  PROVE  Reached(Heap!ReachIn(h, S), D, F, S, Cardinality(Ids))
<1>1. PICK top \in Nat : top = Cardinality(Ids)
  BY IdsAre
<1>2. PICK f \in [0 .. top -> SUBSET D] : Grows(f, F, S, top)
  BY GrowthExists
<1>3. \A n \in 1 .. top : f[n] = f[n - 1] \cup UNION {Heap!Refs(h[o]) : o \in f[n - 1]}
  <2> SUFFICES ASSUME NEW n \in 1 .. top
               PROVE  f[n] = f[n - 1] \cup UNION {Heap!Refs(h[o]) : o \in f[n - 1]}
    OBVIOUS
  <2>1. n - 1 \in 0 .. top /\ f[n - 1] \subseteq D
    BY <1>2
  <2>2. f[n] = f[n - 1] \cup UNION {F[o] : o \in f[n - 1]}
    BY <1>2 DEF Grows
  <2>3. \A o \in f[n - 1] : F[o] = Heap!Refs(h[o])
    BY <2>1
  <2> QED
    BY <2>2, <2>3
<1>4. IsHeapReach(f, h, S)
  <2>1. \A n \in 0 .. top : n # 0 => n \in 1 .. top
    OBVIOUS
  <2>2. f[0] = S
    BY <1>2 DEF Grows
  <2>3. f = [n \in 0 .. top |-> f[n]]
    BY <1>2
  <2> QED
    BY <1>1, <1>3, <2>1, <2>2, <2>3, SameCardinality DEF IsHeapReach
<1>5. PICK r : IsHeapReach(r, h, S) /\ Heap!ReachIn(h, S) = r[top]
  BY <1>1, <1>4, HeapReachIs, SameCardinality
<1> DEFINE E == {n \in 0 .. top : r[n] = f[n]}
<1>6. \A n \in 0 .. top :
        r[n] = IF n = 0 THEN S ELSE r[n - 1] \cup UNION {Heap!Refs(h[o]) : o \in r[n - 1]}
  BY <1>1, <1>5, SameCardinality DEF IsHeapReach
<1>7. 0 \in E
  <2>1. 0 \in 0 .. top
    OBVIOUS
  <2>2. r[0] = S
    BY <1>6, <2>1
  <2> QED
    BY <1>2, <2>1, <2>2 DEF Grows
<1>8. ASSUME NEW n \in 0 .. top - 1, n \in E PROVE n + 1 \in E
  <2>1. n + 1 \in 0 .. top /\ n + 1 \in 1 .. top /\ n + 1 # 0 /\ (n + 1) - 1 = n /\ r[n] = f[n]
    BY <1>8
  <2>2. r[n + 1] = r[n] \cup UNION {Heap!Refs(h[o]) : o \in r[n]}
    BY <1>6, <2>1
  <2>3. f[n + 1] = f[n] \cup UNION {Heap!Refs(h[o]) : o \in f[n]}
    BY <1>3, <2>1
  <2>4. r[n + 1] = f[n + 1]
    BY <2>1, <2>2, <2>3
  <2> QED
    BY <2>1, <2>4
<1>9. top \in E
  <2> HIDE DEF E
  <2>1. \A n \in 0 .. top : n \in E
    BY <1>7, <1>8, SetInduction
  <2> QED
    BY <2>1
<1> QED
  BY <1>1, <1>2, <1>5, <1>9 DEF Reached

-----------------------------------------------------------------------------
(* What the client sees.                                                   *)

\* The graph of the objects, and the part of it that is live.
Graph ==
  /\ \A D, F : /\ F \in [D -> SUBSET D] /\ NamedByLocals \subseteq D
               /\ D \subseteq Objects /\ \A o \in D : F[o] = RefsOf(o)
               => Reached(LiveObjects, D, F, NamedByLocals, Cardinality(Ids))
  /\ NamedByLocals \subseteq LiveObjects /\ LiveObjects \subseteq Objects
  /\ \A o \in LiveObjects : RefsOf(o) \subseteq LiveObjects
  /\ \A o \in Objects : RefsOf(o) \subseteq Objects
  /\ NamedByLocals \subseteq Objects /\ Objects \subseteq Ids /\ Nil \notin Objects

LEMMA GraphWhenSound == Sound => Graph
<1> SUFFICES ASSUME Sound PROVE Graph
  OBVIOUS
<1>1. \A o \in Objects : RefsOf(o) = {name[p] : p \in Pointees(BlockOf(o))}
  BY RefsAre DEF Sound, NamesInv
<1>2. ASSUME NEW D, NEW F, F \in [D -> SUBSET D], NamedByLocals \subseteq D,
             D \subseteq Objects, \A o \in D : F[o] = RefsOf(o)
      PROVE  Reached(LiveObjects, D, F, NamedByLocals, Cardinality(Ids))
  <2>1. \A o \in D : F[o] = {name[p] : p \in Pointees(BlockOf(o))}
    BY <1>1, <1>2
  <2> QED
    BY <1>2, <2>1, LiveReached DEF LiveIsReached
<1> DEFINE F == [o \in Objects |-> RefsOf(o)]
<1>3. F \in [Objects -> SUBSET Objects] /\ \A o \in Objects : F[o] = RefsOf(o)
  BY GraphIs
<1> HIDE DEF F
<1>4. Reached(LiveObjects, Objects, F, NamedByLocals, Cardinality(Ids))
  BY <1>2, <1>3, GraphIs
<1>5. /\ LiveObjects \subseteq Objects /\ NamedByLocals \subseteq LiveObjects
      /\ \A o \in LiveObjects : F[o] \subseteq LiveObjects
  BY <1>3, <1>4, GraphIs, IdsAre, ReachedClosed
<1> QED
  BY <1>2, <1>3, <1>5, GraphIs DEF Graph

\* The client's view of the objects: those that are live, with their fields.
LiveHeap == [o \in LiveObjects |-> Object(o)]

\* A step that changes no object and no name of a local is not seen.
LEMMA SameView ==
  ASSUME Sound, IInv', Named', Objects' = Objects, RootObject' = RootObject,
         \A o \in Objects : Object(o)' = Object(o)
  PROVE  LiveHeap' = LiveHeap
<1>1. Graph
  BY GraphWhenSound
<1>2. PICK D, F, S : /\ D = Objects /\ S = NamedByLocals
                     /\ F \in [D -> SUBSET D] /\ \A o \in D : F[o] = RefsOf(o)
  <2> DEFINE F == [o \in Objects |-> RefsOf(o)]
  <2>1. F \in [Objects -> SUBSET Objects] /\ \A o \in Objects : F[o] = RefsOf(o)
    BY <1>1 DEF Graph
  <2> HIDE DEF F
  <2> QED
    BY <2>1
<1>3. NamedByLocals' = S
  BY <1>2 DEF NamedByLocals
<1>4. \A o \in D : F[o] = {name[p] : p \in Pointees(BlockOf(o))}'
  <2>1. (IInv /\ Named => \A o \in Objects : RefsOf(o) = {name[p] : p \in Pointees(BlockOf(o))})'
    BY RefsAre, PTL
  <2>2. \A o \in D : RefsOf(o)' = {name[p] : p \in Pointees(BlockOf(o))}'
    BY <1>2, <2>1
  <2> QED
    BY <1>2, <2>2 DEF RefsOf
<1>5. Reached(LiveObjects, D, F, S, Cardinality(Ids))
  BY <1>1, <1>2 DEF Graph
<1>6. Reached(LiveObjects', D, F, S, Cardinality(Ids))
  <2>1. LiveIsReached'
    BY LiveReached, PTL
  <2>2. S \subseteq D
    BY <1>1, <1>2 DEF Graph
  <2> QED
    BY <1>2, <1>3, <1>4, <2>1, <2>2 DEF LiveIsReached
<1>7. LiveObjects' = LiveObjects
  BY <1>5, <1>6, IdsAre, ReachedOnce
<1>8. \A o \in LiveObjects : Object(o)' = Object(o)
  BY <1>1 DEF Graph
<1> QED
  BY <1>7, <1>8 DEF LiveHeap

\* Where the heap h of a step of ObjectHeap agrees with the objects in memory on a closed
\* set that holds the named ones, both leave the same live objects.
LEMMA SettleIs ==
  ASSUME Sound', NEW h, NEW D, D \subseteq Objects', NamedByLocals' \subseteq D,
         \A o \in D : h[o] = Object(o)' /\ RefsOf(o)' \subseteq D
  PROVE  LiveHeap' = [o \in Heap!ReachIn(h, NamedByLocals') |-> h[o]]
<1>1. Graph'
  <2>1. (Sound => Graph)'
    BY GraphWhenSound, PTL
  <2> QED
    BY <2>1
<1> DEFINE F == [o \in D |-> Heap!Refs(h[o])]
<1>2. \A o \in D : F[o] = Heap!Refs(h[o]) /\ F[o] = RefsOf(o)' /\ F[o] \subseteq D
  BY DEF RefsOf
<1>3. F \in [D -> SUBSET D]
  BY <1>2
<1> HIDE DEF F
<1>4. PICK S : S = NamedByLocals' /\ S \in SUBSET D
  OBVIOUS
<1>5. Reached(LiveObjects', D, F, S, Cardinality(Ids))
  BY <1>1, <1>2, <1>3, <1>4 DEF Graph
<1>6. Reached(Heap!ReachIn(h, S), D, F, S, Cardinality(Ids))
  BY <1>2, <1>3, <1>4, HeapReached
<1>7. LiveObjects' = Heap!ReachIn(h, S)
  BY <1>5, <1>6, IdsAre, ReachedOnce
<1>8. LiveObjects' \subseteq D
  BY <1>5, IdsAre DEF Reached
<1>9. \A o \in LiveObjects' : Object(o)' = h[o]
  BY <1>8
<1> QED
  BY <1>4, <1>7, <1>9 DEF LiveHeap

-----------------------------------------------------------------------------
(* The collector moves the objects, and they stay.                         *)

\* What the names make of a copy.
CopyNamed(old, new) ==
  /\ Named' /\ Objects' = Objects
  /\ \A o \in Objects : Object(o)' = Object(o)
  /\ \A p : IsBlock(p) => IsBlock(p)' /\ name'[p] = name[p]
  /\ new \in Addr /\ MEMORY'[new].kind = "header" /\ name'[new] = name[old]

\* Where memory changes by one word that points to another block of the same name, the
\* objects stay.
LEMMA StaysNamed ==
  ASSUME Sound, Collecting, NEW old, OldBlock(old), MEMORY[old].kind = "forward", NEW at,
         at # -1 => /\ at \in FROM .. FROM + LEN_FROM - 1 /\ MEMORY[at].kind = "pointer"
                    /\ MEMORY[at].val = old,
         CopyCall(old, at), name' = name
  PROVE  CopyNamed(old, Copied(old))
<1> DEFINE new == Copied(old)
<1>1. /\ new = MEMORY[old + 1].val /\ MEMORY' \in [Addr -> Word]
      /\ at # -1 => MEMORY'[at].kind = "pointer" /\ MEMORY'[at].val = new
      /\ \A x \in Addr : x # at => MEMORY'[x] = MEMORY[x]
  BY CopyStays DEF Sound
<1>2. old \in Half(TO) /\ old \in Addr /\ (at # -1 => at \in Half(FROM) /\ at \in Addr)
      /\ -1 \notin Addr
  BY Halves DEF Sound, IInv, OldBlock, Half, Addr
<1>3. NewBlock(new) /\ MEMORY[new].kind = "header" /\ new \in Addr /\ name[new] = name[old]
  <2>1. NewBlock(new)
    BY <1>1, <1>2 DEF Sound, IInv, OriginalsInv
  <2> QED
    BY <1>1, <1>2, <2>1, Halves DEF Sound, IInv, NewBlock, Covered, NamesInv, Named
<1> HIDE DEF new
<1>4. \A x \in Addr : /\ MEMORY'[x].kind = MEMORY[x].kind
                      /\ MEMORY[x].kind \in {"header", "forward"} => MEMORY'[x] = MEMORY[x]
  BY <1>1, <1>2
<1>5. Headers' = Headers
  BY <1>4 DEF Headers, Addr
<1>6. Objects' = Objects
  BY <1>5 DEF Objects
<1>7. \A a \in Addr : MEMORY[a].kind = "forward" => MEMORY'[a + 1] = MEMORY[a + 1]
  <2> SUFFICES ASSUME NEW a \in Addr, MEMORY[a].kind = "forward" PROVE MEMORY'[a + 1] = MEMORY[a + 1]
    OBVIOUS
  <2>1. a \in Half(TO) /\ a \notin Half(FROM)
    BY Halves DEF Sound, IInv, Covered
  <2>2. 1 \in 0 .. MEMORY[a].val
    BY WordTypes DEF Sound, IInv, Shaped
  <2>3. a + 1 \in Addr /\ a + 1 \notin Half(FROM)
    BY <2>1, <2>2, BlockWords, Halves DEF Sound, IInv
  <2> QED
    BY <1>1, <1>2, <2>3
<1>8. Named'
  <2>1. \A a \in Addr : MEMORY'[a].kind = "forward" => name[MEMORY'[a + 1].val] = name[a]
    BY <1>4, <1>7 DEF Sound, NamesInv, Named
  <2> QED
    BY <1>4, <1>5, <2>1 DEF Sound, NamesInv, Named, Addr, Ids
<1>9. \A o \in Objects : Object(o)' = Object(o)
  <2> SUFFICES ASSUME NEW a \in Headers PROVE Object(name[a])' = Object(name[a])
    BY DEF Objects
  <2>1. Object(name[a]) = [k \in 1 .. MEMORY[a].val |-> Field(MEMORY[a + k])]
    BY ObjectAt DEF Sound, NamesInv, FieldsAreThere
  <2>2. Object(name[a])' = [k \in 1 .. MEMORY'[a].val |-> Field(MEMORY[a + k])']
    <3>1. (Named => FieldsAreThere)'
      BY ObjectAt, PTL
    <3> QED
      BY <1>5, <1>8, <3>1 DEF FieldsAreThere
  <2>3. a \in Addr /\ MEMORY'[a] = MEMORY[a] /\ MEMORY[a].kind = "header" /\ MEMORY[a].val \in Nat
    BY <1>4, WordTypes DEF Headers, Sound, IInv
  <2>4. ASSUME NEW k \in 1 .. MEMORY[a].val PROVE Field(MEMORY[a + k])' = Field(MEMORY[a + k])
    <3>1. a + k \in Addr
      <4>1. k \in 0 .. MEMORY[a].val
        BY <2>3
      <4> QED
        BY <2>3, <4>1, BlockWords DEF Sound, IInv
    <3>2. CASE a + k # at
      BY <1>1, <3>1, <3>2 DEF Field
    <3>3. CASE a + k = at
      <4>1. at # -1
        BY <3>1, <3>3 DEF Addr
      <4>2. /\ MEMORY[at] = W("pointer", old) /\ MEMORY'[at] = W("pointer", new)
        <5>1. MEMORY'[at] = W(MEMORY'[at].kind, MEMORY'[at].val)
          <6>1. MEMORY'[at] \in Word
            BY <1>1, <1>2, <4>1
          <6> QED
            BY <6>1 DEF Word, W
        <5> QED
          BY <1>1, <1>2, <4>1, <5>1, WordTypes DEF Sound, IInv
      <4>3. Field(W("pointer", old)) = [kind |-> "pointer", val |-> name[old]]
        BY DEF Field, W
      <4>4. Field(MEMORY[at])' = [kind |-> "pointer", val |-> name[new]]
        BY <4>2 DEF Field, W
      <4> QED
        BY <1>3, <3>3, <4>2, <4>3, <4>4
    <3> QED
      BY <3>2, <3>3
  <2> QED
    BY <2>1, <2>2, <2>3, <2>4
<1>10. /\ \A p : IsBlock(p) => IsBlock(p)' /\ name'[p] = name[p]
       /\ new \in Addr /\ MEMORY'[new].kind = "header" /\ name'[new] = name[old]
  BY <1>3, <1>4 DEF IsBlock, Addr
<1> QED
  BY <1>6, <1>8, <1>9, <1>10 DEF CopyNamed, new

\* Where a block is moved, its name moves with it.
LEMMA MovesName ==
  ASSUME Sound, Collecting, NEW old, OldBlock(old), MEMORY[old].kind = "header", NEW at,
         at # -1 => /\ at \in FROM .. FROM + LEN_FROM - 1 /\ MEMORY[at].kind = "pointer"
                    /\ MEMORY[at].val = old,
         CopyCall(old, at), name' = [name EXCEPT ![FROM + LEN_FROM] = name[old]]
  PROVE  CopyNamed(old, FROM + LEN_FROM)
<1>0. PICK new, size : new = FROM + LEN_FROM /\ size = MEMORY[old].val
  OBVIOUS
<1>1. /\ MEMORY' \in [Addr -> Word]
      /\ MEMORY'[new].kind = "header" /\ MEMORY'[new].val = size
      /\ \A k \in 1 .. size : MEMORY'[new + k] = MEMORY[old + k]
      /\ MEMORY'[old].kind = "forward" /\ MEMORY'[old].val = size
      /\ MEMORY'[old + 1].kind = "pointer" /\ MEMORY'[old + 1].val = new
      /\ at # -1 => MEMORY'[at].kind = "pointer" /\ MEMORY'[at].val = new
      /\ \A x \in Addr : x \notin (new .. new + size) \cup {old, old + 1, at} => MEMORY'[x] = MEMORY[x]
  BY <1>0, CopyMoves DEF Sound, MovedTo
<1>2. /\ old \in Half(TO) /\ old \in Addr /\ old \in Nat /\ -1 \notin Addr
      /\ at # -1 => at \in Half(FROM) /\ at \in Addr /\ at < new
      /\ FROM \in Nat /\ LEN_FROM \in Nat /\ CAP_MEMORY \in Nat /\ new \in Nat
      /\ size \in Nat /\ size >= 1
      /\ Half(FROM) \subseteq Addr
      /\ \A x \in Half(TO) : x \notin Half(FROM)
  <2>1. old \in Half(TO) /\ old \in Addr /\ old \in Nat /\ size \in Nat /\ size >= 1
    BY <1>0, Halves, WordTypes DEF Sound, IInv, OldBlock, Shaped
  <2>2. at # -1 => at \in Half(FROM) /\ at \in Addr /\ at < new
    BY <1>0, Halves DEF Sound, IInv, Half
  <2> QED
    BY <1>0, <2>1, <2>2, Halves DEF Sound, IInv, Addr
<1>3. \A x \in new .. new + size : x \in Half(FROM) /\ x \in Addr /\ MEMORY[x].kind = "free"
  <2>1. LEN_FROM + 1 + size <= CAP_MEMORY
    BY <1>0, <1>2, ItFits DEF Sound, Fits, BLOCK_HEADER_SIZE
  <2>2. new .. new + size \subseteq FROM + LEN_FROM .. FROM + CAP_MEMORY - 1
    BY <1>0, <1>2, <2>1
  <2>3. new .. new + size \subseteq Half(FROM)
    BY <1>0, <1>2, <2>1 DEF Half
  <2> QED
    BY <1>0, <1>2, <2>2, <2>3 DEF Sound, IInv, Covered
<1>4. new \in new .. new + size /\ new \in Addr /\ new # old
  <2>1. new \in new .. new + size
    BY <1>0, <1>2
  <2> QED
    BY <1>0, <1>2, <1>3, <2>1
<1>5. /\ old + 1 \in Half(TO) /\ old + 1 \in Addr /\ MEMORY[old + 1].kind \in DataKinds
      /\ \A k \in 1 .. size : old + k \in Addr /\ MEMORY[old + k].kind \in DataKinds
  <2>1. 1 \in 0 .. size /\ 1 \in 1 .. size /\ \A k \in 1 .. size : k \in 0 .. size
    BY <1>0, <1>2
  <2> QED
    BY <1>0, <1>2, <2>1, BlockWords DEF Sound, IInv, Shaped, OldBlock
<1>6. ASSUME NEW x \in new .. new + size, x # new
      PROVE  /\ MEMORY'[x].kind \in DataKinds
  <2>1. x - new \in 1 .. size /\ new + (x - new) = x
    BY <1>2, <1>6
  <2> QED
    BY <1>1, <1>5, <2>1
\* The blocks: a new one, which was free, and the old one, which has been moved.
<1>7. \A x \in Addr : MEMORY[x].kind \in {"header", "forward"} =>
        x \notin new .. new + size /\ x # old + 1 /\ x # at
  BY <1>2, <1>3, <1>5 DEF DataKinds
<1>8. \A x \in Addr : MEMORY[x].kind \in {"header", "forward"} =>
        IF x = old THEN MEMORY'[x].kind = "forward" ELSE MEMORY'[x] = MEMORY[x]
  BY <1>1, <1>7
<1>9. \A x \in Addr : MEMORY'[x].kind \in {"header", "forward"} =>
        x = new \/ MEMORY[x].kind \in {"header", "forward"}
  <2> SUFFICES ASSUME NEW x \in Addr, MEMORY'[x].kind \in {"header", "forward"}, x # new, x # old
               PROVE  MEMORY[x].kind \in {"header", "forward"}
    BY DEF OldBlock
  <2>1. x \notin new .. new + size
    BY <1>6 DEF DataKinds
  <2>2. x # old + 1 /\ x # at
    BY <1>1, <1>2
  <2> QED
    BY <1>1, <2>1, <2>2
<1>10. Headers' = (Headers \ {old}) \cup {new}
  <2>1. \A x \in Addr : MEMORY'[x].kind = "header" <=> x = new \/ (x # old /\ MEMORY[x].kind = "header")
    <3> SUFFICES ASSUME NEW x \in Addr
                 PROVE  MEMORY'[x].kind = "header" <=> x = new \/ (x # old /\ MEMORY[x].kind = "header")
      OBVIOUS
    <3>1. CASE x = new
      BY <1>1, <3>1
    <3>2. CASE x = old
      BY <1>1, <1>4, <3>2
    <3>3. CASE x # new /\ x # old
      BY <1>8, <1>9, <3>3
    <3> QED
      BY <3>1, <3>2, <3>3
  <2>2. Headers' = {x \in Addr : MEMORY'[x].kind = "header"}
    BY DEF Headers, Addr
  <2> QED
    BY <1>4, <2>1, <2>2 DEF Headers
<1>11. /\ name \in [Addr -> Ids \cup {Nil}] /\ name' = [name EXCEPT ![new] = name[old]]
       /\ name[new] = Nil /\ name'[new] = name[old] /\ name[old] \in Ids
       /\ \A x \in Addr : x # new => name'[x] = name[x]
  <2>1. /\ name \in [Addr -> Ids \cup {Nil}] /\ name[new] = Nil /\ name[old] # Nil
        /\ name[old] \in Ids \cup {Nil}
    BY <1>2, <1>3, <1>4 DEF Sound, NamesInv, Named, OldBlock
  <2>2. name' = [name EXCEPT ![new] = name[old]]
    BY <1>0
  <2> QED
    BY <1>2, <1>4, <2>1, <2>2
<1>12. Objects' = Objects
  <2>1. old \in Headers /\ new \notin Headers /\ Headers \subseteq Addr
    BY <1>2, <1>3, <1>4 DEF Headers
  <2>2. Objects' = {name'[a] : a \in Headers'}
    BY DEF Objects
  <2> QED
    BY <1>10, <1>11, <2>1, <2>2 DEF Objects
<1>13. Named'
  <2>1. name' \in [Addr -> Ids \cup {Nil}]
    BY <1>4, <1>11
  <2>2. \A a \in Addr : name'[a] # Nil <=> MEMORY'[a].kind \in {"header", "forward"}
    <3> SUFFICES ASSUME NEW a \in Addr
                 PROVE  name'[a] # Nil <=> MEMORY'[a].kind \in {"header", "forward"}
      OBVIOUS
    <3>1. CASE a = new
      BY <1>1, <1>11, <3>1, IdsAre
    <3>2. CASE a # new
      <4>1. MEMORY'[a].kind \in {"header", "forward"} <=> MEMORY[a].kind \in {"header", "forward"}
        BY <1>8, <1>9, <3>2
      <4> QED
        BY <1>11, <3>2, <4>1 DEF Sound, NamesInv, Named
    <3> QED
      BY <3>1, <3>2
  <2>3. \A a, b \in Headers' : name'[a] = name'[b] => a = b
    <3>1. \A a \in Headers \ {old} : a # new /\ name'[a] = name[a] /\ name[a] # name[old]
      <4>1. old \in Headers /\ new \notin Headers
        BY <1>2, <1>3, <1>4 DEF Headers
      <4> QED
        BY <1>11, <4>1 DEF Sound, NamesInv, Named
    <3> QED
      BY <1>10, <1>11, <3>1 DEF Sound, NamesInv, Named
  <2>4. \A a \in Addr : MEMORY'[a].kind = "forward" => name'[MEMORY'[a + 1].val] = name'[a]
    <3> SUFFICES ASSUME NEW a \in Addr, MEMORY'[a].kind = "forward"
                 PROVE  name'[MEMORY'[a + 1].val] = name'[a]
      OBVIOUS
    <3>1. a # new
      BY <1>1
    <3>2. CASE a = old
      BY <1>1, <1>11, <3>1, <3>2
    <3>3. CASE a # old
      <4>1. MEMORY'[a] = MEMORY[a] /\ MEMORY[a].kind = "forward"
        BY <1>8, <1>9, <3>1, <3>3
      <4>2. a \in Half(TO) /\ a \in Nat /\ MEMORY[a].val \in Nat /\ MEMORY[a].val >= 1
        BY <4>1, Halves, WordTypes DEF Sound, IInv, Covered, Shaped
      <4>3. 1 \in 0 .. MEMORY[a].val /\ 1 \in 1 .. MEMORY[a].val
        BY <4>2
      <4>4. a + 1 \in Half(TO) /\ a + 1 \in Addr /\ MEMORY[a + 1].kind \in DataKinds
        BY <4>1, <4>2, <4>3, BlockWords DEF Sound, IInv, Shaped
      <4>5. a + 1 # old /\ a + 1 # old + 1 /\ a + 1 \notin Half(FROM)
        BY <1>2, <3>3, <4>2, <4>4 DEF DataKinds
      <4>6. MEMORY'[a + 1] = MEMORY[a + 1]
        BY <1>1, <1>2, <1>3, <4>4, <4>5
      <4>7. name[MEMORY[a + 1].val] = name[a] /\ name[a] # Nil
        BY <4>1 DEF Sound, NamesInv, Named
      <4>8. MEMORY[a + 1].val \in Addr
        BY <4>1, <4>2, Halves DEF Sound, IInv, OriginalsInv, NewBlock
      <4> QED
        BY <1>11, <3>1, <4>6, <4>7, <4>8
    <3> QED
      BY <3>2, <3>3
  <2> QED
    BY <2>1, <2>2, <2>3, <2>4 DEF Named, Addr, Ids
<1>14. \A p : IsBlock(p) => IsBlock(p)' /\ name'[p] = name[p]
  <2> SUFFICES ASSUME NEW p, IsBlock(p) PROVE IsBlock(p)' /\ name'[p] = name[p]
    OBVIOUS
  <2>1. p \in Addr /\ MEMORY[p].kind \in {"header", "forward"}
    BY DEF IsBlock
  <2>2. p # new
    BY <1>4, <1>7, <2>1
  <2>3. MEMORY'[p].kind \in {"header", "forward"}
    BY <1>8, <2>1
  <2> QED
    BY <1>11, <2>1, <2>2, <2>3 DEF IsBlock, Addr
\* The words: those of the moved block are those of the copy, and one may have become
\* the address of the copy.
<1>15. FieldsAreThere /\ FieldsAreThere'
  <2>1. (Named => FieldsAreThere)'
    BY ObjectAt, PTL
  <2> QED
    BY <1>13, <2>1, ObjectAt DEF Sound, NamesInv
<1>16. \A a \in Headers : /\ a \in Addr /\ MEMORY[a].kind = "header" /\ MEMORY[a].val \in Nat
                          /\ \A k \in 1 .. MEMORY[a].val : a + k \in Addr
  <2> SUFFICES ASSUME NEW a \in Headers
               PROVE  /\ a \in Addr /\ MEMORY[a].kind = "header" /\ MEMORY[a].val \in Nat
                      /\ \A k \in 1 .. MEMORY[a].val : a + k \in Addr
    OBVIOUS
  <2>1. a \in Addr /\ MEMORY[a].kind = "header" /\ MEMORY[a].val \in Nat
    BY WordTypes DEF Headers, Sound, IInv
  <2>2. \A k \in 1 .. MEMORY[a].val : k \in 0 .. MEMORY[a].val
    BY <2>1
  <2> QED
    BY <2>1, <2>2, BlockWords DEF Sound, IInv
<1>17. \A a \in Headers : \A k \in 1 .. MEMORY[a].val :
         Field(MEMORY[a + k]) = (IF MEMORY[a + k].kind = "pointer"
                                 THEN Heap!Ref(name'[MEMORY[a + k].val]) ELSE MEMORY[a + k])
  <2> SUFFICES ASSUME NEW a \in Headers, NEW k \in 1 .. MEMORY[a].val
               PROVE  Field(MEMORY[a + k]) = (IF MEMORY[a + k].kind = "pointer"
                                              THEN Heap!Ref(name'[MEMORY[a + k].val])
                                              ELSE MEMORY[a + k])
    OBVIOUS
  <2>1. MEMORY[a + k] = W(MEMORY[a + k].kind, MEMORY[a + k].val)
    BY <1>16, WordTypes DEF Sound, IInv
  <2>2. MEMORY[a + k].kind = "pointer" => name'[MEMORY[a + k].val] = name[MEMORY[a + k].val]
    BY <1>14, PointersLead DEF Sound
  <2> QED
    BY <2>1, <2>2, FieldIs
<1>18. \A x \in Addr :
         Field(MEMORY[x])' = (IF MEMORY'[x].kind = "pointer"
                              THEN Heap!Ref(name'[MEMORY'[x].val]) ELSE MEMORY'[x])
  <2> SUFFICES ASSUME NEW x \in Addr
               PROVE  Field(MEMORY[x])' = (IF MEMORY'[x].kind = "pointer"
                                           THEN Heap!Ref(name'[MEMORY'[x].val]) ELSE MEMORY'[x])
    OBVIOUS
  <2>1. MEMORY'[x] = W(MEMORY'[x].kind, MEMORY'[x].val)
    <3>1. MEMORY'[x] \in Word
      BY <1>1
    <3> QED
      BY <3>1 DEF Word, W
  <2> QED
    BY <2>1 DEF Field, W, Heap!Ref
<1>19. \A o \in Objects : Object(o)' = Object(o)
  <2> SUFFICES ASSUME NEW o \in Objects PROVE Object(o)' = Object(o)
    OBVIOUS
  <2>0. PICK a \in Headers : o = name[a]
    BY DEF Objects
  <2>1. Object(o) = [k \in 1 .. MEMORY[a].val |-> Field(MEMORY[a + k])]
    BY <1>15, <2>0 DEF FieldsAreThere
  <2>2. CASE a = old
    <3>1. Object(o)' = [k \in 1 .. MEMORY'[new].val |-> Field(MEMORY[new + k])']
      <4>1. new \in Headers' /\ name'[new] = o
        BY <1>10, <1>11, <2>0, <2>2
      <4>2. \A b \in Headers' :
              \A q : q = name'[b] => Object(q)' = [k \in 1 .. MEMORY'[b].val |-> Field(MEMORY[b + k])']
        BY <1>15 DEF FieldsAreThere
      <4> QED
        BY <4>1, <4>2
    <3>2. ASSUME NEW k \in 1 .. size PROVE Field(MEMORY[new + k])' = Field(MEMORY[a + k])
      <4>1. new + k \in Addr /\ MEMORY'[new + k] = MEMORY[a + k]
        <5>1. new + k \in new .. new + size
          BY <1>2
        <5> QED
          BY <1>1, <1>3, <2>2, <5>1
      <4>2. Field(MEMORY[a + k]) = (IF MEMORY[a + k].kind = "pointer"
                                    THEN Heap!Ref(name'[MEMORY[a + k].val]) ELSE MEMORY[a + k])
        BY <1>0, <1>17, <2>2
      <4>3. \A x \in Addr : x = new + k =>
              Field(MEMORY[x])' = (IF MEMORY'[x].kind = "pointer"
                                   THEN Heap!Ref(name'[MEMORY'[x].val]) ELSE MEMORY'[x])
        BY <1>18
      <4> QED
        BY <4>1, <4>2, <4>3
    <3> QED
      BY <1>0, <1>1, <2>1, <2>2, <3>1, <3>2
  <2>3. CASE a # old
    <3>1. a \in Headers' /\ name'[a] = o /\ MEMORY'[a] = MEMORY[a]
      <4>1. a # new
        BY <1>3, <1>4 DEF Headers
      <4> QED
        BY <1>8, <1>10, <1>11, <1>16, <2>0, <2>3, <4>1
    <3>2. Object(o)' = [k \in 1 .. MEMORY'[a].val |-> Field(MEMORY[a + k])']
      <4>1. \A b \in Headers' :
              \A q : q = name'[b] => Object(q)' = [k \in 1 .. MEMORY'[b].val |-> Field(MEMORY[b + k])']
        BY <1>15 DEF FieldsAreThere
      <4> QED
        BY <3>1, <4>1
    <3>3. ASSUME NEW k \in 1 .. MEMORY[a].val PROVE Field(MEMORY[a + k])' = Field(MEMORY[a + k])
      <4> DEFINE x == a + k
      <4>1. x \in Addr /\ MEMORY[x].kind \in DataKinds
        BY <1>16 DEF Sound, IInv, Shaped
      <4>2. x \notin new .. new + size /\ x # old /\ x # old + 1
        <5>1. x # old + 1
          <6>1. a \in Nat /\ k \in Nat /\ k >= 1 /\ k <= MEMORY[a].val /\ MEMORY[a].val \in Nat
            BY <1>16, Halves DEF Sound, IInv
          <6>2. CASE a < old
            <7>1. a + MEMORY[a].val < old
              BY <1>2, <1>16, <6>2, Apart DEF Sound, IInv, OldBlock
            <7> QED
              BY <1>2, <6>1, <7>1
          <6>3. CASE a > old
            BY <1>2, <6>1, <6>3
          <6> QED
            BY <1>2, <2>3, <6>1, <6>2, <6>3
        <5> QED
          BY <1>3, <4>1, <5>1 DEF DataKinds
      <4>3. CASE x = at
        <5>1. /\ MEMORY[x].kind = "pointer" /\ MEMORY[x].val = old
              /\ MEMORY'[x].kind = "pointer" /\ MEMORY'[x].val = new
          BY <1>1, <1>2, <4>1, <4>3
        <5>2. name'[new] = name'[old]
          BY <1>4, <1>11
        <5> HIDE DEF x
        <5>3. Field(MEMORY[x])' = Heap!Ref(name'[new])
          BY <1>18, <4>1, <5>1
        <5>4. Field(MEMORY[a + k]) = Heap!Ref(name'[old])
          BY <1>17, <5>1 DEF x
        <5> QED
          BY <5>2, <5>3, <5>4 DEF x
      <4>4. CASE x # at
        <5>1. MEMORY'[x] = MEMORY[x]
          BY <1>1, <4>1, <4>2, <4>4
        <5> QED
          BY <1>17, <1>18, <4>1, <5>1
      <4> QED
        BY <4>3, <4>4
    <3> QED
      BY <2>1, <3>1, <3>2, <3>3
  <2> QED
    BY <2>2, <2>3
<1> QED
  BY <1>0, <1>1, <1>4, <1>11, <1>12, <1>13, <1>14, <1>19 DEF CopyNamed

\* Where memory stays, so do the objects.
LEMMA StillObjects ==
  ASSUME Sound, UNCHANGED <<MEMORY, name>>
  PROVE  /\ Headers' = Headers /\ Objects' = Objects /\ Named'
         /\ \A o \in Objects : Object(o)' = Object(o)
<1>1. Headers' = Headers
  BY DEF Headers
<1>2. Objects' = Objects
  BY <1>1 DEF Objects
<1>3. Named'
  BY <1>1 DEF Sound, NamesInv, Named
<1>4. \A o \in Objects : Object(o)' = Object(o)
  <2> SUFFICES ASSUME NEW o \in Objects PROVE Object(o)' = Object(o)
    OBVIOUS
  <2>1. PICK a \in Headers : o = name[a]
    BY DEF Objects
  <2>2. FieldsAreThere /\ FieldsAreThere'
    <3>1. (Named => FieldsAreThere)'
      BY ObjectAt, PTL
    <3> QED
      BY <1>3, <3>1, ObjectAt DEF Sound, NamesInv
  <2>3. Object(o) = [k \in 1 .. MEMORY[a].val |-> Field(MEMORY[a + k])]
    BY <2>1, <2>2 DEF FieldsAreThere
  <2>4. Object(o)' = [k \in 1 .. MEMORY[a].val |-> Field(MEMORY[a + k])']
    <3>1. \A b \in Headers' : \A q : q = name'[b] =>
            Object(q)' = [k \in 1 .. MEMORY'[b].val |-> Field(MEMORY[b + k])']
      BY <2>2 DEF FieldsAreThere
    <3> QED
      BY <1>1, <2>1, <3>1
  <2>5. \A k \in 1 .. MEMORY[a].val : Field(MEMORY[a + k])' = Field(MEMORY[a + k])
    BY DEF Field
  <2> QED
    BY <2>3, <2>4, <2>5
<1> QED
  BY <1>1, <1>2, <1>3, <1>4

\* Where the locals stay too, there is nothing to be seen.
LEMMA StillView ==
  ASSUME Sound, IInv', UNCHANGED <<MEMORY, name, local>>
  PROVE  Named' /\ LiveHeap' = LiveHeap /\ RootObject' = RootObject
<1>1. RootObject' = RootObject
  BY DEF RootObject
<1> QED
  BY <1>1, StillObjects, SameView

LEMMA CopyRootView ==
  ASSUME Sound, IInv', CopyRoot
  PROVE  NamesInv' /\ LiveHeap' = LiveHeap /\ RootObject' = RootObject /\ pc' = "roots"
<1>0. PICK v, old, new : v = STACK[i + 1] /\ old = local[v] /\ new = Copied(old)
  OBVIOUS
<1>1. /\ pc = "roots" /\ i < Len(STACK) /\ Collecting /\ i \in Nat /\ i + 1 \in 1 .. Len(STACK)
      /\ UNCHANGED <<FROM, STACK, j, pending>>
      /\ STACK \in Seq(Locals) /\ v \in Locals /\ local \in [Locals -> Addr \cup {Nil}]
  BY <1>0 DEF CopyRoot, Collecting, Sound, IInv, Types
<1>2. OldBlock(old)
  BY <1>0, <1>1 DEF Sound, IInv, RootsInv
<1>3. IsBlock(old) /\ ~Overflows(old)
  <2>1. old \in Half(TO) /\ old \in Addr /\ MEMORY[old].kind \in {"header", "forward"}
    BY <1>2, Halves DEF Sound, IInv, OldBlock
  <2> QED
    BY <1>1, <2>1, ItFits DEF IsBlock, Overflows, Forwarded, Sound
<1>4. /\ MEMORY' = MemoryAfter(old) /\ LEN_FROM' = LenAfter(old)
      /\ local' = [local EXCEPT ![v] = new] /\ name' = NameAfter(old)
      /\ pc' = "roots"
  BY <1>0, <1>1, <1>3 DEF CopyRoot
<1>5. CopyNamed(old, new)
  <2>1. CopyCall(old, -1)
    BY <1>1, <1>4 DEF CopyCall
  <2>2. CASE MEMORY[old].kind = "forward"
    BY <1>0, <1>1, <1>2, <1>4, <2>1, <2>2, StaysNamed DEF NameAfter, Forwarded
  <2>3. CASE MEMORY[old].kind = "header"
    BY <1>0, <1>1, <1>2, <1>4, <2>1, <2>3, MovesName DEF NameAfter, Forwarded, Copied
  <2> QED
    BY <1>2, <2>2, <2>3 DEF OldBlock
<1>6. new \in Addr /\ new # Nil /\ MEMORY'[new].kind = "header" /\ name'[new] = name[old] /\ old # Nil
  BY <1>3, <1>5, NilAssumption DEF CopyNamed, Addr, IsBlock
<1>7. \A w \in Locals : local[w] # Nil => IsBlock(local[w])
  BY DEF Sound, NamesInv
<1>8. \A w \in Locals : local'[w] = IF w = v THEN new ELSE local[w]
  BY <1>1, <1>4
<1>9. \A w \in Locals : local'[w] # Nil => IsBlock(local[w])'
  <2> SUFFICES ASSUME NEW w \in Locals, local'[w] # Nil
               PROVE  local'[w] \in Addr /\ MEMORY'[local'[w]].kind \in {"header", "forward"}
    BY DEF IsBlock, Addr
  <2>1. CASE w = v
    BY <1>6, <1>8, <2>1
  <2>2. CASE w # v
    <3>1. local'[w] = local[w] /\ IsBlock(local[w])
      BY <1>7, <1>8, <2>2
    <3>2. PICK p : p = local[w]
      OBVIOUS
    <3>3. IsBlock(p)'
      BY <1>5, <3>1, <3>2 DEF CopyNamed
    <3> QED
      BY <3>1, <3>2, <3>3 DEF IsBlock
  <2> QED
    BY <2>1, <2>2
<1>10. RootObject' = RootObject
  <2>1. \A w \in Locals : (IF local'[w] = Nil THEN Nil ELSE name'[local'[w]])
                            = (IF local[w] = Nil THEN Nil ELSE name[local[w]])
    BY <1>0, <1>5, <1>6, <1>7, <1>8 DEF CopyNamed
  <2> QED
    BY <2>1 DEF RootObject
<1>11. NamesInv'
  <2>1. pending' = pending /\ (pending.op = "field" => pending.k \in Words)
    BY <1>1 DEF Sound, NamesInv
  <2> QED
    BY <1>5, <1>9, <2>1 DEF NamesInv, CopyNamed, Words
<1> QED
  BY <1>4, <1>5, <1>10, <1>11, SameView DEF CopyNamed

LEMMA ScanWordView ==
  ASSUME Sound, IInv', ScanWord
  PROVE  NamesInv' /\ LiveHeap' = LiveHeap /\ RootObject' = RootObject /\ pc' \in {"scan", "undefined"}
<1>0. PICK at, old, new : at = FROM + i + BLOCK_HEADER_SIZE + j /\ old = MEMORY[at].val /\ new = Copied(old)
  OBVIOUS
<1>1. /\ pc = "scan" /\ i < LEN_FROM /\ j < MEMORY[FROM + i].val /\ Collecting
      /\ UNCHANGED <<FROM, STACK, local, i, pending>>
  BY DEF ScanWord, Collecting
<1>2. /\ at = ScanAt /\ at \in FROM .. FROM + LEN_FROM - 1 /\ at \in Half(FROM) /\ at # -1
      /\ MEMORY[at].kind \in DataKinds
  <2>1. /\ i \in Nat /\ j \in Nat /\ FROM \in Nat /\ LEN_FROM \in Nat /\ CAP_MEMORY \in Nat
        /\ MEMORY[FROM + i].val \in Nat /\ at = ScanAt /\ at \in Nat
        /\ FROM + i \in Addr /\ MEMORY[FROM + i].kind = "header"
        /\ FROM + i + MEMORY[FROM + i].val < FROM + LEN_FROM
        /\ \A x : x \in Half(FROM) <=> x \in FROM .. FROM + CAP_MEMORY - 1
        /\ LEN_FROM <= CAP_MEMORY
    BY <1>0, <1>1, ScanPosition DEF BLOCK_HEADER_SIZE, Sound
  <2>2. /\ at \in FROM .. FROM + LEN_FROM - 1 /\ at # -1
        /\ j + 1 \in 1 .. MEMORY[FROM + i].val /\ at = (FROM + i) + (j + 1)
    BY <1>0, <1>1, <2>1 DEF BLOCK_HEADER_SIZE
  <2>3. at \in Half(FROM)
    BY <2>1, <2>2
  <2> QED
    BY <2>1, <2>2, <2>3 DEF Sound, IInv, Shaped
<1>3. MEMORY[at].kind = "pointer" => OldBlock(old)
  <2>1. ~(at < ScanAt)
    BY <1>2 DEF Half
  <2> QED
    BY <1>0, <1>1, <1>2, <2>1 DEF Sound, IInv, CopiesInv
<1>4. pending' = pending /\ (pending.op = "field" => pending.k \in Words)
  BY <1>1 DEF Sound, NamesInv
<1>5. CASE MEMORY[at].kind # "pointer"
  <2>1. UNCHANGED <<MEMORY, name, local>> /\ pc' \in {"scan", "undefined"}
    BY <1>0, <1>1, <1>5 DEF ScanWord
  <2>2. Named' /\ LiveHeap' = LiveHeap /\ RootObject' = RootObject
    BY <2>1, StillView
  <2>3. \A v \in Locals : local'[v] # Nil => IsBlock(local[v])'
    BY <2>1 DEF Sound, NamesInv, IsBlock
  <2> QED
    BY <1>4, <2>1, <2>2, <2>3 DEF NamesInv, Words
<1>6. CASE MEMORY[at].kind = "pointer"
  <2>1. IsBlock(old) /\ ~Overflows(old)
    <3>1. old \in Half(TO) /\ old \in Addr /\ MEMORY[old].kind \in {"header", "forward"}
      BY <1>3, <1>6, Halves DEF Sound, IInv, OldBlock
    <3> QED
      BY <1>1, <3>1, ItFits DEF IsBlock, Overflows, Forwarded, Sound
  <2>2. /\ MEMORY' = [MemoryAfter(old) EXCEPT ![at] = W("pointer", new)]
        /\ LEN_FROM' = LenAfter(old) /\ name' = NameAfter(old) /\ pc' = "scan"
    BY <1>0, <1>1, <1>6, <2>1 DEF ScanWord
  <2>3. CopyNamed(old, new)
    <3>1. CopyCall(old, at)
      BY <1>0, <1>1, <1>2, <2>2 DEF CopyCall
    <3>2. CASE MEMORY[old].kind = "forward"
      BY <1>0, <1>1, <1>2, <1>3, <1>6, <2>2, <3>1, <3>2, StaysNamed DEF NameAfter, Forwarded
    <3>3. CASE MEMORY[old].kind = "header"
      BY <1>0, <1>1, <1>2, <1>3, <1>6, <2>2, <3>1, <3>3, MovesName DEF NameAfter, Forwarded, Copied
    <3> QED
      BY <1>3, <1>6, <3>2, <3>3 DEF OldBlock
  <2>4. \A v \in Locals : local[v] # Nil => IsBlock(local[v])
    BY DEF Sound, NamesInv
  <2>5. \A p : \A v \in Locals : p = local[v] /\ p # Nil => IsBlock(p)' /\ name'[p] = name[p]
    BY <2>3, <2>4 DEF CopyNamed
  <2>6. \A v \in Locals : local'[v] # Nil => IsBlock(local[v])'
    BY <1>1, <2>5 DEF IsBlock
  <2>7. RootObject' = RootObject
    BY <1>1, <2>5 DEF RootObject
  <2>8. NamesInv'
    BY <1>4, <2>3, <2>6 DEF NamesInv, CopyNamed, Words
  <2> QED
    BY <2>2, <2>3, <2>7, <2>8, SameView DEF CopyNamed
<1> QED
  BY <1>5, <1>6

\* The block a stays as it is, but for its word at, whose field becomes f.
BlockKept(a, at, f) ==
  /\ a \in Headers' /\ name'[a] = name[a] /\ MEMORY'[a] = MEMORY[a]
  /\ \A k \in 1 .. MEMORY[a].val :
       IF a + k = at THEN Field(MEMORY[a + k])' = f
       ELSE /\ MEMORY'[a + k] = MEMORY[a + k]
            /\ MEMORY[a + k].kind = "pointer" => name'[MEMORY[a + k].val] = name[MEMORY[a + k].val]

BecomesAt(o, a, at, f) ==
  /\ DOMAIN Object(o) = 1 .. MEMORY[a].val
  /\ Object(o)' = [k \in 1 .. MEMORY[a].val |-> IF a + k = at THEN f ELSE Object(o)[k]]

LEMMA ObjectAfter ==
  ASSUME Sound, Named', NEW at, NEW f, NEW a \in Headers, BlockKept(a, at, f), NEW o, o = name[a]
  PROVE  BecomesAt(o, a, at, f)
<1>1. FieldsAreThere /\ FieldsAreThere'
  <2>1. (Named => FieldsAreThere)'
    BY ObjectAt, PTL
  <2> QED
    BY <2>1, ObjectAt DEF Sound, NamesInv
<1>2. Object(o) = [k \in 1 .. MEMORY[a].val |-> Field(MEMORY[a + k])]
  BY <1>1 DEF FieldsAreThere
<1>3. Object(o)' = [k \in 1 .. MEMORY[a].val |-> Field(MEMORY[a + k])']
  <2>1. \A b \in Headers' : \A q : q = name'[b] =>
          Object(q)' = [k \in 1 .. MEMORY'[b].val |-> Field(MEMORY[b + k])']
    BY <1>1 DEF FieldsAreThere
  <2> QED
    BY <2>1 DEF BlockKept
<1>4. \A k \in 1 .. MEMORY[a].val :
        Field(MEMORY[a + k])' = IF a + k = at THEN f ELSE Object(o)[k]
  <2> SUFFICES ASSUME NEW k \in 1 .. MEMORY[a].val, a + k # at
               PROVE  Field(MEMORY[a + k])' = Field(MEMORY[a + k])
    BY <1>2 DEF BlockKept
  <2> QED
    BY DEF Field, BlockKept
<1> QED
  BY <1>2, <1>3, <1>4 DEF BecomesAt

\* The end of a collection: a local that is not registered names nothing any more.
LEMMA ScanDoneView ==
  ASSUME Sound, IInv', ScanDone
  PROVE  /\ NamesInv'
         /\ RootObject' = [v \in Locals |-> IF \E k \in DOMAIN STACK : STACK[k] = v
                                            THEN RootObject[v] ELSE Nil]
         /\ LiveHeap' = [o \in Heap!ReachIn(LiveHeap, NamedByLocals') |-> LiveHeap[o]]
<1>1. /\ pc = "scan" /\ Collecting /\ pc' \in {"run", "resume"}
      /\ MEMORY' = [a \in Addr |-> IF a \in Half(TO) THEN Free ELSE MEMORY[a]]
      /\ name' = [a \in Addr |-> IF a \in Half(TO) THEN Nil ELSE name[a]]
      /\ local' = [v \in Locals |-> IF v \in Registered THEN local[v] ELSE Nil]
      /\ FROM' = FROM /\ STACK' = STACK /\ pending' = pending
  BY DEF ScanDone, Collecting
<1>2. /\ \A x \in Half(FROM) : x \in Addr /\ x \in Nat /\ x \notin Half(TO)
      /\ \A x \in Half(TO) : x \in Addr /\ x \notin Half(FROM)
      /\ \A x \in Addr : x \in Half(FROM) \/ x \in Half(TO)
      /\ Half(FROM)' = Half(FROM) /\ Addr' = Addr
  BY <1>1, Halves DEF Sound, IInv, Half, Addr
<1>3. /\ \A x \in Half(FROM) : MEMORY'[x] = MEMORY[x] /\ name'[x] = name[x]
      /\ \A x \in Half(TO) : MEMORY'[x].kind = "free" /\ name'[x] = Nil
  BY <1>1, <1>2 DEF Free, W
<1>4. /\ Headers' = {a \in Headers : a \in Half(FROM)}
      /\ \A a \in Half(FROM) : MEMORY[a].kind # "forward"
  <2>1. \A a \in Addr : MEMORY'[a].kind = "header" <=> MEMORY[a].kind = "header" /\ a \in Half(FROM)
    BY <1>2, <1>3
  <2> QED
    BY <1>2, <2>1 DEF Headers, Sound, IInv, Covered
<1>5. Named'
  <2>1. name' \in [Addr -> Ids \cup {Nil}]
    BY <1>1 DEF Sound, NamesInv, Named
  <2>2. \A a \in Addr : name'[a] # Nil <=> MEMORY'[a].kind \in {"header", "forward"}
    BY <1>2, <1>3 DEF Sound, NamesInv, Named
  <2>3. \A a, b \in Headers' : name'[a] = name'[b] => a = b
    BY <1>3, <1>4 DEF Sound, NamesInv, Named
  <2>4. \A a \in Addr : MEMORY'[a].kind # "forward"
    BY <1>2, <1>3, <1>4
  <2> QED
    BY <1>2, <2>1, <2>2, <2>3, <2>4 DEF Named, Ids
<1>6. \A v \in Registered : v \in Locals /\ NewBlock(local[v]) /\ local[v] \in Half(FROM) /\ local[v] # Nil
  <2>1. \A n \in 1 .. Len(STACK) : /\ STACK[n] \in Locals /\ NewBlock(local[STACK[n]])
                                   /\ local[STACK[n]] # Nil
    BY <1>1 DEF Sound, IInv, Types, RootsInv
  <2> QED
    BY <2>1 DEF Registered, NewBlock, Sound, IInv, Types
<1>7. \A v \in Locals : local'[v] = IF v \in Registered THEN local[v] ELSE Nil
  BY <1>1
<1>8. NamesInv'
  <2>1. \A v \in Locals : local'[v] # Nil => local'[v] \in Addr /\ MEMORY'[local'[v]].kind \in {"header", "forward"}
    BY <1>2, <1>3, <1>6, <1>7 DEF NewBlock
  <2>2. pending'.op = "field" => pending'.k \in Words
    BY <1>1 DEF Sound, NamesInv
  <2> QED
    BY <1>2, <1>5, <2>1, <2>2 DEF NamesInv, IsBlock, Words
<1>9. Sound'
  BY <1>1, <1>8 DEF Sound
<1>10. RootObject' = [v \in Locals |-> IF \E k \in DOMAIN STACK : STACK[k] = v
                                       THEN RootObject[v] ELSE Nil]
  <2>1. \A v \in Locals : v \in Registered <=> \E k \in DOMAIN STACK : STACK[k] = v
    BY DEF Registered
  <2>2. \A v \in Locals : (IF local'[v] = Nil THEN Nil ELSE name'[local'[v]])
                            = IF v \in Registered THEN RootObject[v] ELSE Nil
    BY <1>3, <1>6, <1>7 DEF RootObject
  <2> QED
    BY <2>1, <2>2 DEF RootObject
<1>11. Graph /\ Graph'
  <2>1. (Sound => Graph)'
    BY GraphWhenSound, PTL
  <2> QED
    BY <1>9, <2>1, GraphWhenSound
<1>12. \A o \in Objects' : Object(o)' = Object(o)
  <2> SUFFICES ASSUME NEW o \in Objects' PROVE Object(o)' = Object(o)
    OBVIOUS
  <2>1. PICK a \in Headers' : o = name'[a]
    BY DEF Objects
  <2>2. /\ a \in Headers /\ a \in Half(FROM) /\ a \in Addr /\ o = name[a] /\ name'[a] = name[a]
        /\ MEMORY'[a] = MEMORY[a] /\ MEMORY[a].val \in Nat /\ a \in Nat /\ MEMORY[a].kind = "header"
    BY <1>2, <1>3, <1>4, <2>1, WordTypes DEF Sound, IInv, Headers
  <2>3. \A k \in 1 .. MEMORY[a].val :
          /\ a + k # -1 /\ MEMORY'[a + k] = MEMORY[a + k]
          /\ MEMORY[a + k].kind = "pointer" => name'[MEMORY[a + k].val] = name[MEMORY[a + k].val]
    <3> SUFFICES ASSUME NEW k \in 1 .. MEMORY[a].val
                 PROVE  /\ a + k # -1 /\ MEMORY'[a + k] = MEMORY[a + k]
                        /\ MEMORY[a + k].kind = "pointer" => name'[MEMORY[a + k].val] = name[MEMORY[a + k].val]
      OBVIOUS
    <3>1. k \in 0 .. MEMORY[a].val /\ a + k # -1
      BY <2>2
    <3>2. a + k \in Half(FROM)
      BY <2>2, <3>1, BlockWords DEF Sound, IInv
    <3>3. MEMORY'[a + k] = MEMORY[a + k]
      BY <1>3, <3>2
    <3>4. ASSUME MEMORY[a + k].kind = "pointer" PROVE MEMORY[a + k].val \in Half(FROM)
      <4>1. \A x \in Half(FROM) : MEMORY'[x].kind = "pointer" => MEMORY'[x].val \in Half(FROM)
        BY <1>1, <1>2 DEF IInv, SettledInv, Settled, NewBlock
      <4> QED
        BY <3>2, <3>3, <3>4, <4>1
    <3> QED
      BY <1>3, <3>1, <3>3, <3>4
  <2>4. PICK at, f : at = -1 /\ f = 0
    OBVIOUS
  <2>7. /\ DOMAIN Object(o) = 1 .. MEMORY[a].val
        /\ Object(o)' = [k \in 1 .. MEMORY[a].val |-> IF a + k = at THEN f ELSE Object(o)[k]]
    <3>1. BlockKept(a, at, f)
      BY <2>1, <2>2, <2>3, <2>4 DEF BlockKept
    <3>2. Sound /\ Named' /\ a \in Headers /\ o = name[a]
      BY <1>5, <2>2
    <3>3. BecomesAt(o, a, at, f)
      BY <3>1, <3>2, ObjectAfter
    <3> QED
      BY <3>3 DEF BecomesAt
  <2>5. Object(o) = [k \in 1 .. MEMORY[a].val |-> Object(o)[k]]
    <3>1. Object(o) = [k \in 1 .. MEMORY[a].val |-> Field(MEMORY[a + k])]
      BY <2>2, ObjectAt DEF Sound, NamesInv, FieldsAreThere
    <3> QED
      BY <3>1
  <2> QED
    BY <2>3, <2>4, <2>5, <2>7
<1>13. PICK h, D : h = LiveHeap /\ D = LiveObjects \cap Objects'
  OBVIOUS
<1>14. NamedByLocals' \subseteq D
  <2>1. NamedByLocals' \subseteq NamedByLocals
    BY <1>10 DEF NamedByLocals
  <2> QED
    BY <1>11, <1>13, <2>1 DEF Graph
<1>15. \A o \in D : h[o] = Object(o)' /\ RefsOf(o)' \subseteq D
  <2> SUFFICES ASSUME NEW o \in D PROVE h[o] = Object(o)' /\ RefsOf(o)' \subseteq D
    OBVIOUS
  <2>1. o \in LiveObjects /\ o \in Objects' /\ Object(o)' = Object(o)
    BY <1>12, <1>13
  <2>2. RefsOf(o)' = RefsOf(o)
    BY <2>1 DEF RefsOf
  <2> QED
    BY <1>11, <1>13, <2>1, <2>2 DEF Graph, LiveHeap
<1>16. LiveHeap' = [o \in Heap!ReachIn(h, NamedByLocals') |-> h[o]]
  BY <1>9, <1>13, <1>14, <1>15, SettleIs
<1> QED
  BY <1>8, <1>10, <1>13, <1>16

-----------------------------------------------------------------------------
(* The client changes them.                                                *)

\* Where a block fits there is an identity no block has: the blocks take two words each.
LEMMA FreshIsFree ==
  ASSUME Sound, Settled, NEW size \in Nat, size >= 1, Fits(size)
  PROVE  FreshId \in Ids /\ FreshId \notin Range(name)
<1> DEFINE Unused(o) == o \in Ids /\ o \notin Range(name)
           half == (CAP_MEMORY + 1) \div 2
<1>1. /\ FROM \in Nat /\ LEN_FROM \in Nat /\ CAP_MEMORY \in Nat /\ LEN_FROM + 2 <= CAP_MEMORY
      /\ half \in Nat /\ half >= 1 /\ CAP_MEMORY <= 2 * half /\ Ids = 1 .. half
  <2>1. FROM \in Nat /\ LEN_FROM \in Nat /\ CAP_MEMORY \in Nat /\ LEN_FROM + 2 <= CAP_MEMORY
    BY Halves DEF Sound, IInv, Fits, BLOCK_HEADER_SIZE
  <2> QED
    BY <2>1 DEF Ids
<1> HIDE DEF half
<1>2. \E o : Unused(o)
  <2> SUFFICES ASSUME \A o \in Ids : o \in Range(name) PROVE FALSE
    OBVIOUS
  <2>1. \A o \in Ids : \E a \in Headers : name[a] = o
    <3> SUFFICES ASSUME NEW o \in Ids PROVE \E a \in Headers : name[a] = o
      OBVIOUS
    <3>1. PICK a \in Addr : name[a] = o
      BY DEF Range, Sound, NamesInv, Named
    <3>2. MEMORY[a].kind \in {"header", "forward"}
      BY <3>1, IdsAre DEF Sound, NamesInv, Named
    <3>3. a \in Half(FROM) \/ a \in Half(TO)
      BY Halves DEF Sound, IInv
    <3>4. MEMORY[a].kind = "header"
      BY <3>2, <3>3 DEF Sound, IInv, SettledInv, Covered
    <3> QED
      BY <3>1, <3>4 DEF Headers
  <2> DEFINE at == [o \in Ids |-> CHOOSE a \in Headers : name[a] = o]
  <2>2. \A o \in Ids : at[o] \in Headers /\ name[at[o]] = o
    BY <2>1
  <2> HIDE DEF at
  <2>3. \A o \in Ids : at[o] \in Nat /\ FROM <= at[o] /\ at[o] + 1 < FROM + LEN_FROM
    <3> SUFFICES ASSUME NEW o \in Ids
                 PROVE  at[o] \in Nat /\ FROM <= at[o] /\ at[o] + 1 < FROM + LEN_FROM
      OBVIOUS
    <3>1. at[o] \in Addr /\ MEMORY[at[o]].kind = "header"
      BY <2>2 DEF Headers
    <3>2. at[o] \in Half(FROM)
      BY <3>1, Halves DEF Sound, IInv, SettledInv
    <3>3. MEMORY[at[o]].val \in Nat /\ MEMORY[at[o]].val >= 1
      BY <3>1, WordTypes DEF Sound, IInv, Shaped
    <3>4. at[o] + MEMORY[at[o]].val < FROM + LEN_FROM
      BY <3>1, <3>2, InUse DEF Sound, IInv
    <3>5. at[o] \in Nat /\ FROM <= at[o]
      BY <1>1, <3>2 DEF Half
    <3> QED
      BY <1>1, <3>3, <3>4, <3>5
  <2>4. \A o, p \in Ids : at[o] < at[p] => at[o] + 1 < at[p]
    <3> SUFFICES ASSUME NEW o \in Ids, NEW p \in Ids, at[o] < at[p] PROVE at[o] + 1 < at[p]
      OBVIOUS
    <3>1. /\ at[o] \in Addr /\ MEMORY[at[o]].kind = "header"
          /\ at[p] \in Addr /\ MEMORY[at[p]].kind = "header"
      BY <2>2 DEF Headers
    <3>2. at[o] + MEMORY[at[o]].val < at[p]
      BY <3>1, Apart DEF Sound, IInv
    <3>3. MEMORY[at[o]].val \in Nat /\ MEMORY[at[o]].val >= 1
      BY <3>1, WordTypes DEF Sound, IInv, Shaped
    <3> QED
      BY <2>3, <3>2, <3>3
  <2> DEFINE f == [o \in Ids |-> (at[o] - FROM) \div 2]
  <2>5. \A o \in Ids : f[o] \in 0 .. half - 2
    <3> SUFFICES ASSUME NEW o \in Ids PROVE (at[o] - FROM) \div 2 \in 0 .. half - 2
      OBVIOUS
    <3>1. PICK d \in Nat : d = at[o] - FROM /\ d + 1 < LEN_FROM
      BY <1>1, <2>3
    <3>2. d \div 2 \in Nat /\ 2 * (d \div 2) <= d
      OBVIOUS
    <3> QED
      BY <1>1, <3>1, <3>2
  <2>6. \A o, p \in Ids : f[o] = f[p] => o = p
    <3>1. \A o, p \in Ids : at[o] < at[p] => f[o] # f[p]
      <4> SUFFICES ASSUME NEW o \in Ids, NEW p \in Ids, at[o] < at[p]
                   PROVE  (at[o] - FROM) \div 2 # (at[p] - FROM) \div 2
        OBVIOUS
      <4>1. PICK d \in Nat, e \in Nat : d = at[o] - FROM /\ e = at[p] - FROM /\ d + 2 <= e
        BY <1>1, <2>3, <2>4
      <4>2. d \div 2 # e \div 2
        BY <4>1
      <4> QED
        BY <4>1, <4>2
    <3>2. \A o, p \in Ids : at[o] = at[p] => o = p
      BY <2>2
    <3>3. \A o, p \in Ids : at[o] < at[p] \/ at[p] < at[o] \/ at[o] = at[p]
      BY <2>3
    <3> HIDE DEF f
    <3> QED
      BY <3>1, <3>2, <3>3
  <2>7. f \in Injection(Ids, 0 .. half - 2)
    <3>1. f \in [Ids -> 0 .. half - 2]
      BY <2>5
    <3> HIDE DEF f
    <3> QED
      BY <2>6, <3>1 DEF Injection, IsInjective
  <2> HIDE DEF f
  <2>8. Cardinality(0 .. half - 2) < Cardinality(1 .. half) /\ IsFiniteSet(0 .. half - 2)
    <3>1. IsFiniteSet(0 .. half - 2) /\ Cardinality(0 .. half - 2) = half - 1
      <4>1. CASE half = 1
        <5>1. 0 .. half - 2 = {}
          BY <4>1
        <5> QED
          BY <4>1, <5>1, FS_EmptySet
      <4>2. CASE half > 1
        <5>1. PICK m \in Nat : m = half - 2
          BY <1>1, <4>2
        <5> QED
          BY <1>1, <5>1, FS_Interval
      <4> QED
        BY <1>1, <4>1, <4>2
    <3>2. Cardinality(1 .. half) = half
      BY <1>1, FS_Interval
    <3> QED
      BY <1>1, <3>1, <3>2
  <2>9. Cardinality(Ids) <= Cardinality(0 .. half - 2)
    BY <2>7, <2>8, FS_Injection
  <2>10. Cardinality(Ids) \in Nat /\ Cardinality(0 .. half - 2) \in Nat
    BY <2>8, IdsAre, FS_CardinalityType
  <2> QED
    BY <1>1, <2>8, <2>9, <2>10
<1>3. \E o : Unused(o) /\ \A p \in Ids : p < o => p \in Range(name)
  <2> DEFINE S == {o \in Ids : Unused(o)}
  <2>1. S \subseteq Nat /\ S # {}
    BY <1>2, IdsAre
  <2>2. PICK o \in S : \A p \in S : o <= p
    BY <2>1, LeastNumber
  <2>3. \A p \in Ids : p < o => p \in Range(name)
    BY <2>2, IdsAre
  <2> QED
    BY <2>2, <2>3
<1> QED
  BY <1>3 DEF FreshId

\* A step settles on what it leaves in memory.
LEMMA SettleView ==
  ASSUME Sound', NEW h, NEW r, RootObject' = r, NEW D, D \subseteq Objects', NamedByLocals' \subseteq D,
         \A o \in D : h[o] = Object(o)' /\ RefsOf(o)' \subseteq D
  PROVE  Heap!Settle(h, r)
<1>1. LiveHeap' = [o \in Heap!ReachIn(h, NamedByLocals') |-> h[o]]
  BY SettleIs
<1>2. NamedByLocals' = Heap!Named(r)
  BY DEF NamedByLocals, Heap!Named
<1> QED
  BY <1>1, <1>2 DEF Heap!Settle, LiveHeap

\* The word k of the block a local holds is the field k of the object it names.
LEMMA WordWritten ==
  ASSUME Sound, Settled, Named', NEW v \in Locals, NEW k, HasWord(v, k), NEW f,
         NEW at, at = local[v] + k, NEW x0, x0 = RootObject[v],
         \A a \in Headers : BlockKept(a, at, f)
  PROVE  /\ x0 \in Objects /\ x0 # Nil /\ k \in DOMAIN Object(x0)
         /\ \A x \in Objects : Object(x)' = IF x = x0 THEN [Object(x) EXCEPT ![k] = f] ELSE Object(x)
<1>1. PICK c : /\ c = local[v] /\ c \in Headers /\ c \in Addr /\ c \in Nat /\ x0 = name[c]
               /\ k \in 1 .. MEMORY[c].val /\ k \in Nat /\ at = c + k
               /\ MEMORY[at].kind \in DataKinds
  BY ClientWord DEF Sound, Headers, RootObject, HasWord
<1>2. x0 \in Objects /\ x0 # Nil
  BY <1>1 DEF Objects, Headers, Sound, NamesInv, Named
<1>3. FieldsAreThere
  BY ObjectAt DEF Sound, NamesInv
<1>4. \A a \in Headers : \A n \in 1 .. MEMORY[a].val : a + n = at => a = c
  <2> SUFFICES ASSUME NEW a \in Headers, NEW n \in 1 .. MEMORY[a].val, a + n = at, a # c PROVE FALSE
    OBVIOUS
  <2>1. /\ a \in Addr /\ a \in Nat /\ MEMORY[a].kind = "header" /\ MEMORY[a].val \in Nat
        /\ MEMORY[c].kind = "header" /\ MEMORY[c].val \in Nat
    BY <1>1, Halves, WordTypes DEF Headers, Sound, IInv
  <2>2. a < c => a + MEMORY[a].val < c
    BY <1>1, <2>1, Apart DEF Sound, IInv
  <2>3. c < a => c + MEMORY[c].val < a
    BY <1>1, <2>1, Apart DEF Sound, IInv
  <2> QED
    BY <1>1, <2>1, <2>2, <2>3
<1>5. Object(x0) = [n \in 1 .. MEMORY[c].val |-> Field(MEMORY[c + n])]
  BY <1>1, <1>3 DEF FieldsAreThere
<1>6. \A x \in Objects : Object(x)' = IF x = x0 THEN [Object(x) EXCEPT ![k] = f] ELSE Object(x)
  <2> SUFFICES ASSUME NEW x \in Objects
               PROVE  Object(x)' = IF x = x0 THEN [Object(x) EXCEPT ![k] = f] ELSE Object(x)
    OBVIOUS
  <2>1. PICK a \in Headers : x = name[a]
    BY DEF Objects
  <2>2. BecomesAt(x, a, at, f)
    BY <2>1, ObjectAfter
  <2>3. Object(x) = [n \in 1 .. MEMORY[a].val |-> Field(MEMORY[a + n])]
    BY <1>3, <2>1 DEF FieldsAreThere
  <2>4. PICK F : F = Object(x) /\ DOMAIN F = 1 .. MEMORY[a].val /\ F = [n \in DOMAIN F |-> F[n]]
    BY <2>3
  <2>5. Object(x)' = [n \in DOMAIN F |-> IF a + n = at THEN f ELSE F[n]]
    BY <2>2, <2>4 DEF BecomesAt
  <2>6. CASE x = x0
    <3>1. a = c
      <4>1. \A p, q \in Headers : name[p] = name[q] => p = q
        BY DEF Sound, NamesInv, Named
      <4> QED
        BY <1>1, <2>1, <2>6, <4>1
    <3>2. \A n \in DOMAIN F : a + n = at <=> n = k
      BY <1>1, <2>4, <3>1
    <3>3. [F EXCEPT ![k] = f] = [n \in DOMAIN F |-> IF n = k THEN f ELSE F[n]]
      OBVIOUS
    <3> QED
      BY <2>4, <2>5, <2>6, <3>2, <3>3
  <2>7. CASE x # x0
    <3>1. \A n \in DOMAIN F : a + n # at
      BY <1>1, <1>4, <2>1, <2>4, <2>7
    <3> QED
      BY <2>4, <2>5, <2>7, <3>1
  <2> QED
    BY <2>6, <2>7
<1> QED
  BY <1>1, <1>2, <1>5, <1>6

LEMMA RefsAfter ==
  ASSUME NEW F, F = [n \in DOMAIN F |-> F[n]], NEW k, NEW f
  PROVE  Heap!Refs([F EXCEPT ![k] = f]) \subseteq Heap!Refs(F) \cup {p \in {f.val} : f.kind = "pointer"}
<1> DEFINE G == [F EXCEPT ![k] = f]
<1>1. DOMAIN G = DOMAIN F /\ \A n \in DOMAIN F : G[n] = F[n] \/ G[n] = f
  OBVIOUS
<1> HIDE DEF G
<1>2. Heap!Refs(G) \subseteq Heap!Refs(F) \cup {p \in {f.val} : f.kind = "pointer"}
  BY <1>1 DEF Heap!Refs
<1> QED
  BY <1>2 DEF G

\* The client writes a literal or the address of a block into a word.
LEMMA WriteView ==
  ASSUME Sound, IInv', pc = "run", pc' = "run", NEW v \in Locals, NEW k, HasWord(v, k),
         NEW w \in Word, w.kind \in DataKinds, NEW f, f = Field(w),
         f.kind = "pointer" => f.val \in NamedByLocals,
         MEMORY' = [MEMORY EXCEPT ![local[v] + k] = w], UNCHANGED <<STACK, local, pending, name>>
  PROVE  NamesInv' /\ Heap!Store(v, k, f)
<1>1. PICK at, x0 : at = local[v] + k /\ x0 = RootObject[v]
  OBVIOUS
<1>2. Settled /\ Graph
  BY GraphWhenSound DEF Settled
<1>3. at \in Addr /\ MEMORY[at].kind \in DataKinds
  <2>1. at \in Half(FROM) /\ MEMORY[at].kind \in DataKinds
    BY <1>1, <1>2, ClientWord DEF Sound
  <2> QED
    BY <2>1, Halves DEF Sound, IInv
<1>4. MEMORY'[at] = w /\ \A x \in Addr : x # at => MEMORY'[x] = MEMORY[x]
  BY <1>1, <1>3 DEF Sound, IInv, Types
<1>5. \A x \in Addr : /\ MEMORY[x].kind \in {"header", "forward"} => MEMORY'[x] = MEMORY[x]
                      /\ MEMORY'[x].kind \in {"header", "forward"} <=> MEMORY[x].kind \in {"header", "forward"}
  BY <1>3, <1>4 DEF DataKinds
<1>6. Headers' = Headers
  <2>1. \A x \in Addr : MEMORY'[x].kind = "header" <=> MEMORY[x].kind = "header"
    BY <1>5
  <2> QED
    BY <2>1 DEF Headers, Addr
<1>7. Objects' = Objects /\ RootObject' = RootObject
  BY <1>6 DEF Objects, RootObject
<1>8. Named'
  <2>1. \A a \in Addr : MEMORY[a].kind # "forward"
    <3>1. \A a \in Addr : a \in Half(FROM) \/ a \in Half(TO)
      BY Halves DEF Sound, IInv
    <3> QED
      BY <1>2, <3>1 DEF Sound, IInv, SettledInv, Covered
  <2>2. \A a \in Addr : MEMORY'[a].kind # "forward"
    BY <1>5, <2>1
  <2>3. Addr' = Addr /\ Ids' = Ids
    BY DEF Addr, Ids
  <2> QED
    BY <1>5, <1>6, <2>2, <2>3 DEF Sound, NamesInv, Named
<1>9. NamesInv'
  <2>1. \A u \in Locals : local'[u] # Nil => local'[u] \in Addr /\ MEMORY'[local'[u]].kind \in {"header", "forward"}
    BY <1>5 DEF Sound, NamesInv, IsBlock
  <2>2. pending'.op = "field" => pending'.k \in Words
    BY DEF Sound, NamesInv
  <2> QED
    BY <1>8, <2>1, <2>2 DEF NamesInv, IsBlock, Addr, Words
<1>10. Sound'
  BY <1>9 DEF Sound
<1>11. Field(w)' = f
  BY DEF Field
<1>12. \A a \in Headers : BlockKept(a, at, f)
  <2> SUFFICES ASSUME NEW a \in Headers PROVE BlockKept(a, at, f)
    OBVIOUS
  <2>1. a \in Addr /\ MEMORY[a].kind = "header" /\ MEMORY[a].val \in Nat /\ MEMORY'[a] = MEMORY[a]
    BY <1>5, WordTypes DEF Headers, Sound, IInv
  <2>2. \A n \in 1 .. MEMORY[a].val : a + n \in Addr
    <3>1. \A n \in 1 .. MEMORY[a].val : n \in 0 .. MEMORY[a].val
      BY <2>1
    <3> QED
      BY <2>1, <3>1, BlockWords DEF Sound, IInv
  <2>3. ASSUME NEW n \in 1 .. MEMORY[a].val, a + n = at PROVE Field(MEMORY[a + n])' = f
    BY <1>4, <1>11, <2>3 DEF Field
  <2> QED
    BY <1>4, <1>6, <2>1, <2>2, <2>3 DEF BlockKept
<1>13. /\ x0 \in Objects /\ x0 # Nil /\ k \in DOMAIN Object(x0)
       /\ \A x \in Objects : Object(x)' = IF x = x0 THEN [Object(x) EXCEPT ![k] = f] ELSE Object(x)
  BY <1>1, <1>2, <1>8, <1>12, WordWritten
<1>14. x0 \in LiveObjects
  BY <1>1, <1>2, <1>13 DEF Graph, NamedByLocals
<1>15. PICK h, D : h = [LiveHeap EXCEPT ![x0][k] = f] /\ D = LiveObjects
  OBVIOUS
<1>16. \A o \in D : h[o] = IF o = x0 THEN [Object(o) EXCEPT ![k] = f] ELSE Object(o)
  BY <1>14, <1>15 DEF LiveHeap
<1>17. \A o \in D : h[o] = Object(o)' /\ RefsOf(o)' \subseteq D
  <2> SUFFICES ASSUME NEW o \in D PROVE h[o] = Object(o)' /\ RefsOf(o)' \subseteq D
    OBVIOUS
  <2>1. o \in LiveObjects /\ o \in Objects /\ RefsOf(o) \subseteq D /\ h[o] = Object(o)'
    BY <1>2, <1>13, <1>15, <1>16 DEF Graph
  <2>2. CASE o # x0
    BY <1>13, <2>1, <2>2 DEF RefsOf
  <2>3. CASE o = x0
    <3>1. PICK F : F = Object(o) /\ F = [n \in DOMAIN F |-> F[n]]
      BY DEF Object
    <3>2. Object(o)' = [F EXCEPT ![k] = f]
      BY <1>13, <2>1, <2>3, <3>1
    <3>3. Heap!Refs(F) \subseteq D /\ (f.kind = "pointer" => f.val \in D)
      BY <1>2, <1>15, <2>1, <3>1 DEF RefsOf, Graph
    <3>4. Heap!Refs([F EXCEPT ![k] = f]) \subseteq D
      BY <3>1, <3>3, RefsAfter
    <3> QED
      BY <2>1, <3>2, <3>4 DEF RefsOf
  <2> QED
    BY <2>2, <2>3
<1>18. D \subseteq Objects' /\ NamedByLocals' \subseteq D
  BY <1>2, <1>7, <1>15 DEF Graph, NamedByLocals
<1>19. Heap!Settle(h, RootObject)
  <2>1. PICK r : r = RootObject
    OBVIOUS
  <2> QED
    BY <1>7, <1>10, <1>17, <1>18, <2>1, SettleView
<1>20. k \in DOMAIN LiveHeap[x0]
  BY <1>13, <1>14 DEF LiveHeap
<1> QED
  BY <1>1, <1>9, <1>13, <1>15, <1>19, <1>20 DEF Heap!Store, LiveHeap

LEMMA StoreLiteralView ==
  ASSUME Sound, IInv', NEW v \in Locals, NEW k, NEW x \in Literals, StoreLiteral(v, k, x)
  PROVE  NamesInv' /\ Heap!Store(v, k, Heap!Lit(x)) /\ pc = "run" /\ pc' = "run"
<1>1. PICK w, f : w = W("literal", x) /\ f = Heap!Lit(x)
  OBVIOUS
<1>2. w \in Word /\ w.kind \in DataKinds /\ f = Field(w) /\ f.kind # "pointer"
  BY <1>1, LiteralsAssumption DEF W, Word, DataKinds, Field, Heap!Lit
<1>3. /\ pc = "run" /\ pc' = "run" /\ HasWord(v, k) /\ MEMORY' = [MEMORY EXCEPT ![local[v] + k] = w]
      /\ UNCHANGED <<STACK, local, pending, name>>
  BY <1>1 DEF StoreLiteral
<1> QED
  BY <1>1, <1>2, <1>3, WriteView

LEMMA StorePointerView ==
  ASSUME Sound, IInv', NEW v \in Locals, NEW k, NEW u \in Locals, StorePointer(v, k, u)
  PROVE  /\ NamesInv' /\ Heap!Store(v, k, Heap!Ref(RootObject[u])) /\ pc = "run" /\ pc' = "run"
         /\ RootObject[u] # Nil
<1>1. PICK w, f : w = W("pointer", local[u]) /\ f = Heap!Ref(RootObject[u])
  OBVIOUS
<1>2. /\ pc = "run" /\ pc' = "run" /\ HasWord(v, k) /\ MEMORY' = [MEMORY EXCEPT ![local[v] + k] = w]
      /\ UNCHANGED <<STACK, local, pending, name>> /\ local[u] # Nil
  BY <1>1 DEF StorePointer
<1>3. local[u] \in Nat /\ RootObject[u] = name[local[u]] /\ RootObject[u] # Nil
  BY <1>2, Halves DEF Sound, IInv, NamesInv, Named, IsBlock, RootObject
<1>4. RootObject[u] \in NamedByLocals
  BY <1>3 DEF NamedByLocals
<1>5. /\ w \in Word /\ w.kind \in DataKinds /\ f = Field(w)
      /\ f.kind = "pointer" => f.val \in NamedByLocals
  BY <1>1, <1>3, <1>4 DEF W, Word, DataKinds, Field, Heap!Ref
<1> QED
  BY <1>1, <1>2, <1>3, <1>5, WriteView

\* The client reads an address out of a word.
LEMMA LoadView ==
  ASSUME Sound, IInv', NEW u \in Locals, NEW v \in Locals, NEW k, LoadPointer(u, v, k)
  PROVE  NamesInv' /\ Heap!Load(u, v, k) /\ pc = "run" /\ pc' = "run"
<1>1. PICK c, p, x0, o : c = local[v] /\ p = MEMORY[c + k].val /\ x0 = RootObject[v] /\ o = name[p]
  OBVIOUS
<1>2. /\ pc = "run" /\ pc' = "run" /\ HasWord(v, k) /\ MEMORY[c + k].kind = "pointer"
      /\ local' = [local EXCEPT ![u] = p] /\ UNCHANGED <<MEMORY, STACK, pending, name>>
  BY <1>1 DEF LoadPointer
<1>3. Settled /\ Graph
  BY <1>2, GraphWhenSound DEF Settled
<1>4. c \in Headers /\ k \in 1 .. MEMORY[c].val /\ c + k \in Half(FROM) /\ x0 = name[c]
  BY <1>1, <1>2, <1>3, ClientWord DEF Sound, Headers, RootObject, HasWord
<1>5. IsBlock(p) /\ p \in Nat /\ p # Nil /\ o # Nil
  <2>1. NewBlock(p)
    BY <1>1, <1>2, <1>3, <1>4 DEF Sound, IInv, SettledInv
  <2> QED
    BY <1>1, <2>1, Halves, NilAssumption DEF Sound, IInv, NewBlock, IsBlock, NamesInv, Named
<1>6. Object(x0) = [n \in 1 .. MEMORY[c].val |-> Field(MEMORY[c + n])]
  BY <1>4, ObjectAt DEF Sound, NamesInv, FieldsAreThere
<1>7. k \in DOMAIN Object(x0) /\ Object(x0)[k] = Heap!Ref(o)
  <2>1. MEMORY[c + k] = W("pointer", p)
    BY <1>1, <1>2, <1>4, Halves, WordTypes DEF Sound, IInv
  <2>2. Field(W("pointer", p)) = Heap!Ref(o)
    BY <1>1 DEF Field, W, Heap!Ref
  <2> QED
    BY <1>4, <1>6, <2>1, <2>2
<1>8. x0 # Nil /\ x0 \in LiveObjects
  <2>1. x0 # Nil
    BY <1>4 DEF Sound, NamesInv, Named, Headers
  <2> QED
    BY <1>1, <1>3, <2>1 DEF Graph, NamedByLocals
<1>9. o \in LiveObjects
  <2>1. o \in RefsOf(x0)
    BY <1>7 DEF RefsOf, Heap!Refs, Heap!Ref
  <2> QED
    BY <1>3, <1>8, <2>1 DEF Graph
<1>10. local \in [Locals -> Addr \cup {Nil}] /\ \A w \in Locals : local'[w] = IF w = u THEN p ELSE local[w]
  BY <1>2 DEF Sound, IInv, Types
<1>11. /\ Headers' = Headers /\ Objects' = Objects /\ Named'
       /\ \A x \in Objects : Object(x)' = Object(x)
  BY <1>2, StillObjects
<1>12. NamesInv'
  <2>1. \A w \in Locals : local'[w] # Nil => local'[w] \in Addr /\ MEMORY'[local'[w]].kind \in {"header", "forward"}
    BY <1>2, <1>5, <1>10 DEF Sound, NamesInv, IsBlock
  <2>2. pending'.op = "field" => pending'.k \in Words
    BY <1>2 DEF Sound, NamesInv
  <2> QED
    BY <1>11, <2>1, <2>2 DEF NamesInv, IsBlock, Addr, Words
<1>13. Sound'
  BY <1>2, <1>12 DEF Sound
<1>14. PICK r, h, D : r = [RootObject EXCEPT ![u] = o] /\ h = LiveHeap /\ D = LiveObjects
  OBVIOUS
<1>15. RootObject' = r
  <2>1. \A w \in Locals : (IF local'[w] = Nil THEN Nil ELSE name'[local'[w]])
                            = IF w = u THEN o ELSE RootObject[w]
    BY <1>1, <1>2, <1>5, <1>10 DEF RootObject
  <2> QED
    BY <1>14, <2>1 DEF RootObject
<1>16. NamedByLocals' \subseteq D /\ D \subseteq Objects'
  <2>1. \A w \in Locals : r[w] = o \/ r[w] = RootObject[w]
    BY <1>14 DEF RootObject
  <2>2. NamedByLocals' \subseteq NamedByLocals \cup {o}
    BY <1>15, <2>1 DEF NamedByLocals
  <2> QED
    BY <1>3, <1>9, <1>11, <1>14, <2>2 DEF Graph
<1>17. \A x \in D : h[x] = Object(x)' /\ RefsOf(x)' \subseteq D
  <2> SUFFICES ASSUME NEW x \in D PROVE h[x] = Object(x)' /\ RefsOf(x)' \subseteq D
    OBVIOUS
  <2>1. x \in LiveObjects /\ x \in Objects /\ Object(x)' = Object(x)
    BY <1>3, <1>11, <1>14 DEF Graph
  <2>2. RefsOf(x)' = RefsOf(x)
    BY <2>1 DEF RefsOf
  <2> QED
    BY <1>3, <1>14, <2>1, <2>2 DEF Graph, LiveHeap
<1>18. Heap!Settle(h, r)
  BY <1>13, <1>15, <1>16, <1>17, SettleView
<1>19. /\ o \in DOMAIN LiveHeap /\ LiveHeap[x0][k] = Heap!Ref(o) /\ k \in DOMAIN LiveHeap[x0]
       /\ Heap!Settle(LiveHeap, [RootObject EXCEPT ![u] = o])
  BY <1>7, <1>8, <1>9, <1>14, <1>18 DEF LiveHeap
<1> QED
  BY <1>1, <1>2, <1>8, <1>12, <1>19 DEF Heap!Load, LiveHeap

\* What a new block leaves of the others: o is the new object, and the block at is assigned
\* in, if there is one, gets a field that refers to it.
PlacedNamed(at, o, size) ==
  /\ Named' /\ o \in Ids \ Objects /\ Objects' = Objects \cup {o}
  /\ Object(o)' = [k \in 1 .. size |-> Heap!Unset]
  /\ \A a \in Headers : BlockKept(a, at, Heap!Ref(o))
  /\ name'[FROM + LEN_FROM] = o
  /\ \A p : IsBlock(p) \/ p = FROM + LEN_FROM => IsBlock(p)'
  /\ \A p : IsBlock(p) => name'[p] = name[p]

LEMMA PlaceNames ==
  ASSUME Sound, Settled, IInv', NEW target, NEW size, NEW o, o = FreshId,
         Fits(size), size \in Nat, size >= 1,
         FROM + LEN_FROM .. FROM + LEN_FROM + size \subseteq Half(FROM),
         Placed(FROM + LEN_FROM, size, target),
         target # -1 => /\ target \in FROM .. FROM + LEN_FROM - 1
                        /\ MEMORY[target].kind \in DataKinds,
         name' = [name EXCEPT ![FROM + LEN_FROM] = o]
  PROVE  PlacedNamed(target, o, size)
<1>0. -1 \notin Addr
  BY DEF Addr
<1>1. PICK b : b = FROM + LEN_FROM
  OBVIOUS
<1>2. /\ MEMORY' \in [Addr -> Word]
      /\ MEMORY'[b].kind = "header" /\ MEMORY'[b].val = size
      /\ \A k \in 1 .. size : MEMORY'[b + k].kind = "unset" /\ MEMORY'[b + k].val = 0
      /\ target # -1 => MEMORY'[target].kind = "pointer" /\ MEMORY'[target].val = b
      /\ \A x \in Addr : x \notin (b .. b + size) \cup {target} => MEMORY'[x] = MEMORY[x]
  BY <1>1 DEF Placed
<1>3. /\ FROM \in Nat /\ LEN_FROM \in Nat /\ CAP_MEMORY \in Nat /\ b \in Nat
      /\ target # -1 => target \in Nat /\ target < b
      /\ LEN_FROM + 1 + size <= CAP_MEMORY
  BY <1>1, Halves DEF Sound, IInv, Fits, BLOCK_HEADER_SIZE
<1>4. \A x \in b .. b + size : x \in Half(FROM) /\ x \in Addr /\ MEMORY[x].kind = "free" /\ x # target
  <2>1. b .. b + size \subseteq FROM + LEN_FROM .. FROM + CAP_MEMORY - 1
    BY <1>1, <1>3
  <2>2. b .. b + size \subseteq Half(FROM)
    BY <1>1
  <2>3. \A x \in b .. b + size : x # target
    BY <1>3
  <2> QED
    BY <2>1, <2>2, <2>3, Halves DEF Sound, IInv, Covered
<1>5. b \in b .. b + size /\ b \in Addr
  <2>1. b \in b .. b + size
    BY <1>3
  <2> QED
    BY <1>4, <2>1
<1>6. \A x \in Addr : MEMORY[x].kind \in {"header", "forward"} => MEMORY'[x] = MEMORY[x] /\ x # b
  BY <1>0, <1>2, <1>4, <1>5 DEF DataKinds
<1>7. \A x \in Addr : MEMORY[x].kind # "forward"
  <2>1. \A x \in Addr : x \in Half(FROM) \/ x \in Half(TO)
    BY Halves DEF Sound, IInv
  <2> QED
    BY <2>1 DEF Sound, IInv, SettledInv, Covered
<1>8. \A x \in Addr : x # b /\ MEMORY'[x].kind \in {"header", "forward"} =>
        MEMORY[x].kind \in {"header", "forward"}
  <2> SUFFICES ASSUME NEW x \in Addr, x # b, MEMORY'[x].kind \in {"header", "forward"}
               PROVE  MEMORY[x].kind \in {"header", "forward"}
    OBVIOUS
  <2>1. x # target
    BY <1>0, <1>2, <1>3
  <2>2. x \notin b .. b + size
    <3> SUFFICES ASSUME x \in b .. b + size PROVE FALSE
      OBVIOUS
    <3>1. x - b \in 1 .. size /\ b + (x - b) = x
      BY <1>3
    <3> QED
      BY <1>2, <3>1
  <2> QED
    BY <1>2, <2>1, <2>2
<1>9. Headers' = Headers \cup {b} /\ b \notin Headers
  <2>1. \A x \in Addr : MEMORY'[x].kind = "header" <=> x = b \/ MEMORY[x].kind = "header"
    BY <1>2, <1>6, <1>7, <1>8
  <2>2. Headers' = {x \in Addr : MEMORY'[x].kind = "header"}
    BY DEF Headers, Addr
  <2>3. b \notin Headers
    BY <1>6 DEF Headers
  <2> QED
    BY <1>5, <2>1, <2>2, <2>3 DEF Headers
<1>10. o \in Ids /\ o \notin Range(name) /\ o # Nil
  BY FreshIsFree, IdsAre
<1>11. /\ name' \in [Addr -> Ids \cup {Nil}] /\ name'[b] = o
       /\ \A x \in Addr : x # b => name'[x] = name[x]
       /\ \A x \in Addr : name[x] # o
  <2>1. name \in [Addr -> Ids \cup {Nil}]
    BY DEF Sound, NamesInv, Named
  <2>2. \A x \in Addr : name[x] \in Range(name)
    BY <2>1 DEF Range
  <2>3. name' = [name EXCEPT ![b] = o]
    BY <1>1
  <2> QED
    BY <1>5, <1>10, <2>1, <2>2, <2>3
<1>12. \A a \in Headers : a \in Addr /\ a # b /\ name'[a] = name[a] /\ MEMORY'[a] = MEMORY[a]
  BY <1>6, <1>11 DEF Headers
<1>13. Objects' = Objects \cup {o} /\ o \notin Objects
  <2>1. Objects' = {name'[a] : a \in Headers'}
    BY DEF Objects
  <2>2. o \notin Objects
    BY <1>11 DEF Objects, Headers
  <2> QED
    BY <1>9, <1>11, <1>12, <2>1, <2>2 DEF Objects
<1>14. Named'
  <2>1. \A a \in Addr : name'[a] # Nil <=> MEMORY'[a].kind \in {"header", "forward"}
    <3> SUFFICES ASSUME NEW a \in Addr
                 PROVE  name'[a] # Nil <=> MEMORY'[a].kind \in {"header", "forward"}
      OBVIOUS
    <3>1. CASE a = b
      BY <1>2, <1>10, <1>11, <3>1
    <3>2. CASE a # b
      <4>1. MEMORY'[a].kind \in {"header", "forward"} <=> MEMORY[a].kind \in {"header", "forward"}
        BY <1>6, <1>8, <3>2
      <4> QED
        BY <1>11, <3>2, <4>1 DEF Sound, NamesInv, Named
    <3> QED
      BY <3>1, <3>2
  <2>2. \A p, q \in Headers' : name'[p] = name'[q] => p = q
    <3>1. \A p, q \in Headers : name[p] = name[q] => p = q
      BY DEF Sound, NamesInv, Named
    <3> QED
      BY <1>9, <1>11, <1>12, <3>1
  <2>3. \A a \in Addr : MEMORY'[a].kind # "forward"
    BY <1>2, <1>6, <1>7, <1>8
  <2> QED
    BY <1>11, <2>1, <2>2, <2>3 DEF Named, Addr, Ids
<1>15. \A p : IsBlock(p) => p \in Addr /\ p # b /\ MEMORY'[p] = MEMORY[p] /\ name'[p] = name[p]
  BY <1>6, <1>11 DEF IsBlock
<1>16. \A p : IsBlock(p) \/ p = b => IsBlock(p)'
  BY <1>2, <1>5, <1>15 DEF IsBlock, Addr
<1>17. \A a \in Headers : BlockKept(a, target, Heap!Ref(o))
  <2> SUFFICES ASSUME NEW a \in Headers PROVE BlockKept(a, target, Heap!Ref(o))
    OBVIOUS
  <2>1. /\ a \in Addr /\ MEMORY[a].kind = "header" /\ MEMORY[a].val \in Nat
        /\ MEMORY'[a] = MEMORY[a] /\ name'[a] = name[a] /\ a \in Headers'
    BY <1>9, <1>12, WordTypes DEF Headers, Sound, IInv
  <2>2. \A k \in 1 .. MEMORY[a].val : a + k \in Addr /\ MEMORY[a + k].kind \in DataKinds
    <3>1. \A k \in 1 .. MEMORY[a].val : k \in 0 .. MEMORY[a].val
      BY <2>1
    <3> QED
      BY <2>1, <3>1, BlockWords DEF Sound, IInv, Shaped
  <2>3. ASSUME NEW k \in 1 .. MEMORY[a].val, a + k = target
        PROVE  Field(MEMORY[a + k])' = Heap!Ref(o)
    <3>1. target # -1 /\ target \in Addr
      BY <1>3, <2>2, <2>3 DEF Addr
    <3>2. MEMORY'[target] \in Word
      BY <1>2, <3>1
    <3>3. MEMORY'[target] = W("pointer", b)
      BY <1>2, <3>1, <3>2 DEF Word, W
    <3>4. Field(MEMORY[a + k])' = [kind |-> "pointer", val |-> name'[b]]
      BY <2>3, <3>3 DEF Field, W
    <3> QED
      BY <1>11, <3>4 DEF Heap!Ref
  <2>4. ASSUME NEW k \in 1 .. MEMORY[a].val, a + k # target
        PROVE  /\ MEMORY'[a + k] = MEMORY[a + k]
               /\ MEMORY[a + k].kind = "pointer" => name'[MEMORY[a + k].val] = name[MEMORY[a + k].val]
    <3>1. a + k \notin b .. b + size
      BY <1>4, <2>2 DEF DataKinds
    <3>2. MEMORY[a + k].kind = "pointer" => IsBlock(MEMORY[a + k].val)
      BY PointersLead DEF Sound
    <3> QED
      BY <1>2, <1>15, <2>2, <2>4, <3>1, <3>2
  <2> QED
    BY <2>1, <2>3, <2>4 DEF BlockKept
<1>18. Object(o)' = [k \in 1 .. size |-> Heap!Unset]
  <2>1. (Named => FieldsAreThere)'
    BY ObjectAt, PTL
  <2>2. \A a \in Headers' : \A q : q = name'[a] =>
          Object(q)' = [k \in 1 .. MEMORY'[a].val |-> Field(MEMORY[a + k])']
    BY <1>14, <2>1 DEF FieldsAreThere
  <2>3. b \in Headers' /\ o = name'[b] /\ MEMORY'[b].val = size
    BY <1>2, <1>9, <1>11
  <2>4. Object(o)' = [k \in 1 .. size |-> Field(MEMORY[b + k])']
    BY <2>2, <2>3
  <2>5. \A k \in 1 .. size : Field(MEMORY[b + k])' = Heap!Unset
    <3> SUFFICES ASSUME NEW k \in 1 .. size PROVE Field(MEMORY[b + k])' = Heap!Unset
      OBVIOUS
    <3>1. b + k \in b .. b + size
      BY <1>3
    <3>2. MEMORY'[b + k] \in Word
      BY <1>2, <1>4, <3>1
    <3>3. MEMORY'[b + k] = [kind |-> "unset", val |-> 0]
      BY <1>2, <3>2 DEF Word
    <3> QED
      BY <3>3 DEF Field, Heap!Unset
  <2> QED
    BY <2>4, <2>5
<1> QED
  BY <1>1, <1>10, <1>11, <1>13, <1>14, <1>15, <1>16, <1>17, <1>18 DEF PlacedNamed

PlacedAsHeap(r) ==
  \/ r.op = "local" /\ Heap!New(r.v, r.size)
  \/ r.op = "field" /\ Heap!NewInField(r.v, r.k, r.size)

LEMMA PlaceView ==
  ASSUME Sound, Settled, IInv', NEW r, r.op \in {"local", "field"}, r.v \in Locals, r.size \in Sizes,
         Fits(r.size), r.op = "field" => HasWord(r.v, r.k), Place(r), pc' = "run",
         pending'.op = "field" => pending'.k \in Words, UNCHANGED STACK
  PROVE  NamesInv' /\ PlacedAsHeap(r)
<1>1. PICK b, target, size, o, v : /\ b = FROM + LEN_FROM /\ target = PlaceTarget(r) /\ size = r.size
                                   /\ o = FreshId /\ v = r.v /\ v \in Locals
  OBVIOUS
<1>2. /\ size \in Nat /\ size >= 1 /\ b .. b + size \subseteq Half(FROM)
      /\ Placed(b, size, target)
      /\ target # -1 => /\ target \in FROM .. FROM + LEN_FROM - 1
                        /\ MEMORY[target].kind \in DataKinds
      /\ r.op = "local" => local' = [local EXCEPT ![v] = b]
      /\ r.op = "field" => local' = local /\ target # -1
      /\ \A u \in Locals : local'[u] = local[u] \/ local'[u] = b
  BY <1>1, PlaceLeaves DEF Sound
<1>3. name' = [name EXCEPT ![FROM + LEN_FROM] = o]
  BY <1>1 DEF Place
<1>4. PlacedNamed(target, o, size)
  BY <1>1, <1>2, <1>3, PlaceNames
<1>5. /\ Named' /\ o \in Ids /\ o \notin Objects /\ Objects' = Objects \cup {o}
      /\ Object(o)' = [k \in 1 .. size |-> Heap!Unset]
      /\ \A a \in Headers : BlockKept(a, target, Heap!Ref(o))
      /\ name'[b] = o
      /\ \A p : IsBlock(p) \/ p = b => IsBlock(p)'
      /\ \A p : IsBlock(p) => name'[p] = name[p]
  BY <1>1, <1>4 DEF PlacedNamed
<1>6. \A u \in Locals : local[u] # Nil => IsBlock(local[u])
  BY DEF Sound, NamesInv
<1>7. NamesInv'
  <2>1. \A p : p = b \/ IsBlock(p) => p \in Addr /\ MEMORY'[p].kind \in {"header", "forward"}
    BY <1>5 DEF IsBlock, Addr
  <2>2. \A u \in Locals : local'[u] # Nil => local'[u] \in Addr /\ MEMORY'[local'[u]].kind \in {"header", "forward"}
    BY <1>2, <1>6, <2>1
  <2> QED
    BY <1>5, <2>2 DEF NamesInv, IsBlock, Addr, Words
<1>8. Sound'
  BY <1>7 DEF Sound
<1>9. Graph
  BY GraphWhenSound
<1>10. PICK D, g : D = LiveObjects \cup {o} /\ g = Heap!With(o, size)
  OBVIOUS
<1>11. /\ o \in Ids /\ o \notin LiveObjects /\ D \subseteq Objects' /\ NamedByLocals \subseteq D
       /\ \A x \in LiveObjects : x \in Objects /\ x \in D /\ x # o /\ RefsOf(x) \subseteq D
       /\ b # Nil
  <2>1. b \in Nat
    BY <1>1, Halves DEF Sound, IInv
  <2> QED
    BY <1>5, <1>9, <1>10, <2>1, NilAssumption DEF Graph
<1>12. /\ DOMAIN g = D /\ g[o] = [k \in 1 .. size |-> Heap!Unset]
       /\ \A x \in LiveObjects : g[x] = Object(x)
  BY <1>10, <1>11 DEF Heap!With
<1>13. g[o] = Object(o)' /\ RefsOf(o)' = {}
  <2>1. PICK F : F = [k \in 1 .. size |-> Heap!Unset]
    OBVIOUS
  <2>2. \A k \in DOMAIN F : F[k].kind # "pointer"
    BY <2>1 DEF Heap!Unset
  <2>3. Heap!Refs(F) = {}
    BY <2>2 DEF Heap!Refs
  <2> QED
    BY <1>5, <1>12, <2>1, <2>3 DEF RefsOf
\* The block goes to a local.
<1>14. CASE r.op = "local"
  <2>1. target = -1
    BY <1>1, <1>14 DEF PlaceTarget
  <2>2. \A x \in LiveObjects : Object(x)' = Object(x)
    <3> SUFFICES ASSUME NEW x \in LiveObjects PROVE Object(x)' = Object(x)
      OBVIOUS
    <3>1. PICK a \in Headers : x = name[a]
      BY <1>11 DEF Objects
    <3>2. PICK f : f = Heap!Ref(o)
      OBVIOUS
    <3>3. BecomesAt(x, a, target, f)
      BY <1>5, <3>1, <3>2, ObjectAfter
    <3>4. PICK F : F = Object(x) /\ F = [n \in 1 .. MEMORY[a].val |-> F[n]]
      <4>1. Object(x) = [n \in 1 .. MEMORY[a].val |-> Field(MEMORY[a + n])]
        BY <3>1, ObjectAt DEF Sound, NamesInv, FieldsAreThere
      <4> QED
        BY <4>1
    <3>5. \A n \in 1 .. MEMORY[a].val : a + n # target
      BY <2>1, <3>1, Halves, WordTypes DEF Headers, Sound, IInv
    <3> QED
      BY <3>3, <3>4, <3>5 DEF BecomesAt
  <2>3. PICK q : q = [RootObject EXCEPT ![v] = o]
    OBVIOUS
  <2>4. RootObject' = q
    <3>1. \A u \in Locals : local'[u] = IF u = v THEN b ELSE local[u]
      BY <1>2, <1>14 DEF Sound, IInv, Types
    <3>2. \A u \in Locals : (IF local'[u] = Nil THEN Nil ELSE name'[local'[u]])
                              = IF u = v THEN o ELSE RootObject[u]
      BY <1>5, <1>6, <1>11, <3>1 DEF RootObject
    <3> QED
      BY <2>3, <3>2 DEF RootObject
  <2>5. NamedByLocals' \subseteq D
    <3>1. \A u \in Locals : q[u] = o \/ q[u] = RootObject[u]
      BY <2>3 DEF RootObject
    <3>2. NamedByLocals' \subseteq NamedByLocals \cup {o}
      BY <2>4, <3>1 DEF NamedByLocals
    <3> QED
      BY <1>10, <1>11, <3>2
  <2>6. \A x \in D : g[x] = Object(x)' /\ RefsOf(x)' \subseteq D
    <3> SUFFICES ASSUME NEW x \in LiveObjects PROVE g[x] = Object(x)' /\ RefsOf(x)' \subseteq D
      BY <1>10, <1>13
    <3>1. RefsOf(x)' = RefsOf(x)
      BY <2>2 DEF RefsOf
    <3> QED
      BY <1>11, <1>12, <2>2, <3>1
  <2>7. Heap!Settle(g, q)
    BY <1>8, <1>11, <2>4, <2>5, <2>6, SettleView
  <2>8. o \in Ids \ DOMAIN LiveHeap
    BY <1>11 DEF LiveHeap
  <2>9. Heap!Settle(Heap!With(o, size), [RootObject EXCEPT ![v] = o])
    BY <1>10, <2>3, <2>7
  <2>10. Heap!New(v, size)
    BY <2>8, <2>9 DEF Heap!New, LiveHeap
  <2> QED
    BY <1>1, <1>7, <1>14, <2>10 DEF PlacedAsHeap
\* It goes into a field of an object.
<1>15. CASE r.op = "field"
  <2>1. PICK k, x0, f : k = r.k /\ x0 = RootObject[v] /\ f = Heap!Ref(o)
    OBVIOUS
  <2>2. target = local[v] + k /\ HasWord(v, k) /\ local' = local
    BY <1>1, <1>2, <1>15, <2>1 DEF PlaceTarget
  <2>3. /\ x0 \in Objects /\ x0 # Nil /\ k \in DOMAIN Object(x0)
        /\ \A x \in Objects : Object(x)' = IF x = x0 THEN [Object(x) EXCEPT ![k] = f] ELSE Object(x)
    <3>1. \A a \in Headers : BlockKept(a, target, f)
      BY <1>5, <2>1
    <3>2. /\ target = local[v] + k /\ HasWord(v, k) /\ x0 = RootObject[v] /\ v \in Locals
          /\ Named'
      BY <1>1, <1>5, <2>1, <2>2
    <3> QED
      BY <3>1, <3>2, WordWritten
  <2>4. x0 \in LiveObjects
    BY <1>1, <1>9, <2>1, <2>3 DEF Graph, NamedByLocals
  <2>5. RootObject' = RootObject
    BY <1>5, <1>6, <2>2 DEF RootObject
  <2>6. PICK h : h = [g EXCEPT ![x0][k] = f]
    OBVIOUS
  <2>7. h[o] = g[o] /\ \A x \in LiveObjects : h[x] = IF x = x0 THEN [Object(x) EXCEPT ![k] = f] ELSE Object(x)
    BY <1>10, <1>11, <1>12, <2>4, <2>6
  <2>8. \A x \in D : h[x] = Object(x)' /\ RefsOf(x)' \subseteq D
    <3> SUFFICES ASSUME NEW x \in LiveObjects PROVE h[x] = Object(x)' /\ RefsOf(x)' \subseteq D
      BY <1>10, <1>13, <2>7
    <3>1. h[x] = Object(x)'
      BY <1>11, <2>3, <2>7
    <3>2. CASE x # x0
      BY <1>11, <2>3, <3>1, <3>2 DEF RefsOf
    <3>3. CASE x = x0
      <4>1. PICK F : F = Object(x) /\ F = [n \in DOMAIN F |-> F[n]]
        BY DEF Object
      <4>2. Object(x)' = [F EXCEPT ![k] = f]
        BY <1>11, <2>3, <3>3, <4>1
      <4>3. Heap!Refs(F) \subseteq D /\ f.val = o /\ o \in D
        BY <1>10, <1>11, <2>1, <4>1 DEF RefsOf, Heap!Ref
      <4>4. Heap!Refs([F EXCEPT ![k] = f]) \subseteq D
        BY <4>1, <4>3, RefsAfter
      <4> QED
        BY <3>1, <4>2, <4>4 DEF RefsOf
    <3> QED
      BY <3>2, <3>3
  <2>9. NamedByLocals' \subseteq D
    BY <1>11, <2>5 DEF NamedByLocals
  <2>10. PICK q : q = RootObject
    OBVIOUS
  <2>11. Heap!Settle(h, q)
    BY <1>8, <1>11, <2>5, <2>8, <2>9, <2>10, SettleView
  <2>12. o \in Ids \ DOMAIN LiveHeap /\ k \in DOMAIN LiveHeap[x0]
    BY <1>11, <2>3, <2>4 DEF LiveHeap
  <2>13. Heap!Settle([Heap!With(o, size) EXCEPT ![RootObject[v]][k] = Heap!Ref(o)], RootObject)
    BY <1>10, <2>1, <2>6, <2>10, <2>11
  <2>14. RootObject[v] # Nil /\ k \in DOMAIN LiveHeap[RootObject[v]]
    BY <2>1, <2>3, <2>12
  <2>15. Heap!NewInField(v, k, size)
    BY <2>12, <2>13, <2>14 DEF Heap!NewInField, LiveHeap
  <2> QED
    BY <1>1, <1>7, <1>15, <2>1, <2>15 DEF PlacedAsHeap
<1> QED
  BY <1>14, <1>15

-----------------------------------------------------------------------------
(* Every step is a step of ObjectHeap, or is not seen there.               *)

Mode == IF pc \in {"roots", "scan", "exit_copy", "undefined", "wild"} THEN "collector" ELSE "client"
Seen == Heap!Next \/ UNCHANGED <<LiveHeap, RootObject, STACK, Mode>>

LEMMA ClientSeen ==
  ASSUME Heap!Client, pc \in {"run", "resume"}, pc' = "run"
  PROVE  Seen
<1>1. Heap!Next
  BY DEF Heap!Next
<1> QED
  BY <1>1 DEF Seen

\* Locals that are left alone hold what they held.
LEMMA StillNames ==
  ASSUME Sound, UNCHANGED <<MEMORY, name, local>>, pending'.op = "field" => pending'.k \in Words
  PROVE  NamesInv'
<1>1. Named'
  BY StillObjects
<1>2. \A v \in Locals : local'[v] # Nil => IsBlock(local[v])'
  BY DEF Sound, NamesInv, IsBlock
<1> QED
  BY <1>1, <1>2 DEF NamesInv, Words

LEMMA PushView ==
  ASSUME Sound, IInv', NEW v \in Locals, stack_push(v)
  PROVE  NamesInv' /\ Seen
<1>1. UNCHANGED <<MEMORY, name, local, pending>> /\ pc = "run"
  BY DEF stack_push
<1>2. NamesInv' /\ LiveHeap' = LiveHeap /\ RootObject' = RootObject
  BY <1>1, StillNames, StillView DEF Sound, NamesInv
<1>3. CASE STACK' = STACK /\ pc' = "exit_push"
  BY <1>1, <1>2, <1>3 DEF Seen, Mode
<1>4. CASE STACK' = Append(STACK, v) /\ pc' = pc
  <2>1. RootObject[v] # Nil
    BY DEF stack_push, RootObject, Sound, NamesInv, Named, IsBlock
  <2>2. Heap!Register(v)
    BY <1>2, <1>4, <2>1 DEF Heap!Register, LiveHeap
  <2>3. Heap!Client
    BY <2>2 DEF Heap!Client
  <2> QED
    BY <1>1, <1>2, <1>4, <2>3, ClientSeen
<1> QED
  BY <1>3, <1>4 DEF stack_push

LEMMA PopView ==
  ASSUME Sound, IInv', stack_pop
  PROVE  NamesInv' /\ Seen
<1>1. UNCHANGED <<MEMORY, name, local, pending>> /\ pc = "run"
  BY DEF stack_pop
<1>2. NamesInv' /\ LiveHeap' = LiveHeap /\ RootObject' = RootObject
  BY <1>1, StillNames, StillView DEF Sound, NamesInv
<1>3. CASE STACK' = STACK /\ pc' = "exit_pop"
  BY <1>1, <1>2, <1>3 DEF Seen, Mode
<1>4. CASE Len(STACK) # 0 /\ STACK' = SubSeq(STACK, 1, Len(STACK) - 1) /\ pc' = pc
  <2>1. STACK # <<>>
    BY <1>4
  <2>2. Heap!Unregister
    BY <1>2, <1>4, <2>1 DEF Heap!Unregister, LiveHeap
  <2>3. Heap!Client
    BY <2>2 DEF Heap!Client
  <2> QED
    BY <1>1, <1>2, <1>4, <2>3, ClientSeen
<1> QED
  BY <1>3, <1>4 DEF stack_pop

LEMMA WordsSeen ==
  ASSUME Sound, IInv', NEW v \in Locals, NEW k \in Words,
         \/ \E x \in Literals : StoreLiteral(v, k, x)
         \/ \E u \in Locals : StorePointer(v, k, u) \/ LoadPointer(u, v, k)
  PROVE  NamesInv' /\ Seen
<1>1. ASSUME NEW x \in Literals, StoreLiteral(v, k, x) PROVE NamesInv' /\ Seen
  <2>1. NamesInv' /\ Heap!Store(v, k, Heap!Lit(x)) /\ pc = "run" /\ pc' = "run"
    BY <1>1, StoreLiteralView
  <2>2. Heap!Client
    BY <2>1 DEF Heap!Client, Words
  <2> QED
    BY <2>1, <2>2, ClientSeen
<1>2. ASSUME NEW u \in Locals, StorePointer(v, k, u) PROVE NamesInv' /\ Seen
  <2>1. /\ NamesInv' /\ Heap!Store(v, k, Heap!Ref(RootObject[u])) /\ pc = "run" /\ pc' = "run"
        /\ RootObject[u] # Nil
    BY <1>2, StorePointerView
  <2>2. Heap!Client
    BY <2>1 DEF Heap!Client, Words
  <2> QED
    BY <2>1, <2>2, ClientSeen
<1>3. ASSUME NEW u \in Locals, LoadPointer(u, v, k) PROVE NamesInv' /\ Seen
  <2>1. NamesInv' /\ Heap!Load(u, v, k) /\ pc = "run" /\ pc' = "run"
    BY <1>3, LoadView
  <2>2. Heap!Client
    BY <2>1 DEF Heap!Client, Words
  <2> QED
    BY <2>1, <2>2, ClientSeen
<1> QED
  BY <1>1, <1>2, <1>3

LEMMA PlaceSeen ==
  ASSUME NEW r, PlacedAsHeap(r), r.v \in Locals, r.size \in Sizes, r.op = "field" => r.k \in Words,
         pc \in {"run", "resume"}, pc' = "run"
  PROVE  Seen
<1>1. Heap!Client
  BY DEF PlacedAsHeap, Heap!Client, Words
<1> QED
  BY <1>1, ClientSeen

\* A collection begins.
LEMMA SwapView ==
  ASSUME Sound, IInv', pc = "run", Swap, pending'.op = "field" => pending'.k \in Words
  PROVE  NamesInv' /\ Seen
<1>1. UNCHANGED <<MEMORY, STACK, name, local>> /\ pc' = "roots"
  BY DEF Swap
<1>2. NamesInv' /\ LiveHeap' = LiveHeap /\ RootObject' = RootObject
  BY <1>1, StillNames, StillView
<1>3. Heap!CollectBegin
  BY <1>1, <1>2 DEF Heap!CollectBegin, LiveHeap
<1> QED
  BY <1>2, <1>3 DEF Seen, Heap!Next

LEMMA AllocView ==
  ASSUME Sound, IInv', NEW v \in Locals, NEW r \in Requests(v), alloc(r)
  PROVE  NamesInv' /\ Seen
<1>1. /\ r.op \in {"local", "field"} /\ r.v = v /\ r.v \in Locals /\ r.size \in Sizes
      /\ r.op = "field" => r.k \in Words
  BY DEF Requests
<1>2. pc = "run" /\ (r.op = "field" => HasWord(r.v, r.k)) /\ Settled
  BY DEF alloc, Settled
<1>3. CASE Fits(r.size) /\ Place(r) /\ UNCHANGED <<FROM, STACK, pc, i, j, pending>>
  <2>1. pending'.op = "field" => pending'.k \in Words
    BY <1>3 DEF Sound, NamesInv
  <2>2. pc' = "run" /\ UNCHANGED STACK /\ Fits(r.size) /\ Place(r)
    BY <1>2, <1>3
  <2>3. NamesInv' /\ PlacedAsHeap(r)
    BY <1>1, <1>2, <2>1, <2>2, PlaceView
  <2> QED
    BY <1>1, <1>2, <2>2, <2>3, PlaceSeen
<1>4. CASE Swap /\ pending' = r
  BY <1>1, <1>2, <1>4, SwapView
<1> QED
  BY <1>3, <1>4 DEF alloc

LEMMA ResumeView ==
  ASSUME Sound, IInv', alloc_resume
  PROVE  NamesInv' /\ Seen
<1>1. PICK r : r = pending
  OBVIOUS
<1>2. /\ pc = "resume" /\ Settled /\ r.op \in {"local", "field"} /\ r.v \in Locals /\ r.size \in Sizes
      /\ r.op = "field" => r.k \in Words
  BY <1>1 DEF alloc_resume, Settled, Sound, NamesInv, IInv, PendingInv, Types, Request
<1>3. r.op = "field" => HasWord(r.v, r.k)
  <2>1. ASSUME r.op = "field"
        PROVE  r.v \in Registered /\ r.k \in 1 .. MEMORY[local[r.v]].val
    BY <1>1, <1>2, <2>1 DEF Sound, IInv, PendingInv
  <2>2. \A w \in Registered : local[w] # Nil
    BY DEF Sound, IInv, RootsInv, Registered, Types
  <2> QED
    BY <2>1, <2>2 DEF HasWord
<1>4. CASE Fits(r.size)
  <2>1. Place(r) /\ pc' = "run" /\ pending' = None /\ UNCHANGED STACK
    BY <1>1, <1>4 DEF alloc_resume
  <2>2. NamesInv' /\ PlacedAsHeap(r)
    BY <1>2, <1>3, <1>4, <2>1, PlaceView DEF None
  <2> QED
    BY <1>2, <2>1, <2>2, PlaceSeen
<1>5. CASE ~Fits(r.size)
  <2>1. pc' = "exit_alloc" /\ UNCHANGED <<MEMORY, local, name, pending, STACK>>
    BY <1>1, <1>5 DEF alloc_resume
  <2>2. NamesInv' /\ LiveHeap' = LiveHeap /\ RootObject' = RootObject
    BY <2>1, StillNames, StillView DEF Sound, NamesInv
  <2> QED
    BY <1>2, <2>1, <2>2 DEF Seen, Mode
<1> QED
  BY <1>4, <1>5

\* While a collection runs the heap stands still; at its end a local that is not
\* registered is retired.
LEMMA CollectorView ==
  ASSUME Sound, IInv', Collector
  PROVE  NamesInv' /\ Seen
<1>1. ASSUME CopyRoot PROVE NamesInv' /\ Seen
  <2>1. NamesInv' /\ LiveHeap' = LiveHeap /\ RootObject' = RootObject /\ pc' = "roots"
    BY <1>1, CopyRootView
  <2> QED
    BY <1>1, <2>1 DEF CopyRoot, Seen, Mode
<1>2. ASSUME ScanWord PROVE NamesInv' /\ Seen
  <2>1. NamesInv' /\ LiveHeap' = LiveHeap /\ RootObject' = RootObject /\ pc' \in {"scan", "undefined"}
    BY <1>2, ScanWordView
  <2> QED
    BY <1>2, <2>1 DEF ScanWord, Seen, Mode
<1>3. ASSUME RootsDone \/ NextBlock PROVE NamesInv' /\ Seen
  <2>1. /\ UNCHANGED <<MEMORY, STACK, local, pending, name>>
        /\ pc \in {"roots", "scan"} /\ pc' = "scan"
    BY <1>3 DEF RootsDone, NextBlock
  <2>2. NamesInv' /\ LiveHeap' = LiveHeap /\ RootObject' = RootObject
    BY <2>1, StillNames, StillView DEF Sound, NamesInv
  <2> QED
    BY <2>1, <2>2 DEF Seen, Mode
<1>4. ASSUME ScanDone PROVE NamesInv' /\ Seen
  <2>1. PICK r : r = [v \in Locals |-> IF \E k \in DOMAIN STACK : STACK[k] = v THEN RootObject[v] ELSE Nil]
    OBVIOUS
  <2>2. /\ NamesInv' /\ RootObject' = r
        /\ LiveHeap' = [o \in Heap!ReachIn(LiveHeap, NamedByLocals') |-> LiveHeap[o]]
    BY <1>4, <2>1, ScanDoneView
  <2>3. NamedByLocals' = Heap!Named(r)
    BY <2>2 DEF NamedByLocals, Heap!Named
  <2>4. Heap!Settle(LiveHeap, r)
    BY <2>2, <2>3 DEF Heap!Settle, LiveHeap
  <2>5. pc = "scan" /\ pc' \in {"run", "resume"} /\ STACK' = STACK
    BY <1>4 DEF ScanDone
  <2>6. Heap!CollectEnd
    BY <2>1, <2>4, <2>5 DEF Heap!CollectEnd, LiveHeap
  <2> QED
    BY <2>2, <2>6 DEF Seen, Heap!Next
<1> QED
  BY <1>1, <1>2, <1>3, <1>4, ResumeView DEF Collector

LEMMA StepView ==
  ASSUME IInv, NamesInv, IInv', Next
  PROVE  NamesInv' /\ Seen
<1>1. Sound
  BY DEF Sound, Next, Client, Collector, stack_pop, collect, stack_push, alloc, StoreLiteral,
         StorePointer, LoadPointer, CopyRoot, RootsDone, ScanWord, NextBlock, ScanDone, alloc_resume
<1>2. CASE Client
  <2>1. CASE collect
    <3>1. Swap /\ pc = "run" /\ (pending'.op = "field" => pending'.k \in Words)
      BY <2>1 DEF collect, NamesInv
    <3> QED
      BY <1>1, <3>1, SwapView
  <2>2. ASSUME NEW v \in Locals, stack_push(v) PROVE NamesInv' /\ Seen
    BY <1>1, <2>2, PushView
  <2>3. ASSUME NEW v \in Locals, NEW r \in Requests(v), alloc(r) PROVE NamesInv' /\ Seen
    BY <1>1, <2>3, AllocView
  <2>4. ASSUME NEW v \in Locals, NEW k \in Words,
               \/ \E x \in Literals : StoreLiteral(v, k, x)
               \/ \E u \in Locals : StorePointer(v, k, u) \/ LoadPointer(u, v, k)
        PROVE  NamesInv' /\ Seen
    BY <1>1, <2>4, WordsSeen
  <2>5. CASE stack_pop
    BY <1>1, <2>5, PopView
  <2> QED
    BY <1>2, <2>1, <2>2, <2>3, <2>4, <2>5 DEF Client
<1>3. CASE Collector
  BY <1>1, <1>3, CollectorView
<1> QED
  BY <1>2, <1>3 DEF Next

LEMMA InitView == Init => NamesInv /\ Heap!Init
<1> SUFFICES ASSUME Init PROVE NamesInv /\ Heap!Init
  OBVIOUS
<1>1. /\ \A a \in Addr : MEMORY[a].kind = "free" /\ name[a] = Nil
      /\ \A v \in Locals : local[v] = Nil
      /\ name = [a \in Addr |-> Nil] /\ STACK = <<>> /\ pc = "run" /\ pending.op = "none"
  BY DEF Init, Free, W, None
<1>2. NamesInv
  BY <1>1 DEF NamesInv, Named, Headers
<1>3. RootObject = [v \in Locals |-> Nil]
  BY <1>1 DEF RootObject
<1>4. LiveObjects = {}
  <2>1. NamedByLocals = {}
    BY <1>3 DEF NamedByLocals
  <2>2. PICK D, F : D = {} /\ F \in [D -> SUBSET D]
    <3>1. [o \in {} |-> {}] \in [{} -> SUBSET {}]
      OBVIOUS
    <3> QED
      BY <3>1
  <2>3. Reached(LiveObjects, D, F, NamedByLocals, Cardinality(Ids))
    BY <2>1, <2>2, LiveReached DEF LiveIsReached
  <2> QED
    BY <2>2, <2>3, IdsAre DEF Reached
<1>5. LiveHeap = [o \in {} |-> <<>>]
  BY <1>4 DEF LiveHeap
<1> QED
  BY <1>1, <1>2, <1>3, <1>5 DEF Heap!Init, LiveHeap

\* A collection is invisible (lines 114-169): whatever the client stores, loads, registers
\* and allocates, for every size of the halves, it sees the objects of ObjectHeap, with the
\* fields, the identities and the sharing they had, and loses but what it can no longer name.
THEOREM CollectionIsInvisible == Spec => Invisible
<1>1. IInv /\ NamesInv /\ [Next]_vars => IInv' /\ NamesInv' /\ [Heap!Next]_(Heap!vars)
  <2> SUFFICES ASSUME IInv, NamesInv, [Next]_vars PROVE IInv' /\ NamesInv' /\ [Heap!Next]_(Heap!vars)
    OBVIOUS
  <2>1. IInv'
    BY StepInv
  <2>2. CASE Next
    <3>1. NamesInv' /\ Seen
      BY <2>1, <2>2, StepView
    <3> QED
      BY <2>1, <3>1 DEF Seen, Heap!vars, LiveHeap, Mode
  <2>3. CASE UNCHANGED vars
    <3>1. UNCHANGED <<MEMORY, name, local, pending, pc, STACK>>
      BY <2>3 DEF vars
    <3>2. NamesInv'
      BY <3>1 DEF NamesInv, Named, Headers, IsBlock, Addr, Ids, Words
    <3>3. UNCHANGED <<LiveHeap, RootObject, STACK, Mode>>
      <4>1. LiveHeap' = LiveHeap
        BY <3>1 DEF LiveHeap, LiveObjects, Object, Pointees, BlockOf, Field, RootObject
      <4> QED
        BY <3>1, <4>1 DEF RootObject, Mode
    <3> QED
      BY <2>1, <3>2, <3>3 DEF Heap!vars, LiveHeap, Mode
  <2> QED
    BY <2>2, <2>3
<1>2. Init => IInv /\ NamesInv
  BY InitInv, InitView
<1> QED
  BY <1>1, <1>2, InitView, PTL DEF Spec, Invisible, Heap!Spec
=============================================================================

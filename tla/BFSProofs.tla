------------------------------ MODULE BFSProofs ------------------------------
(***************************************************************************)
(* Proofs about BFS, for every map: the queue holds no cell twice, and the *)
(* path that is returned is a shortest one.                                *)
(***************************************************************************)
EXTENDS BFS, NumberLemmas, TLAPS

\* A walk on the map from the start.
WalkFromStart(w) ==
  /\ w \in Seq(Cells) /\ w # <<>>
  /\ w[1] = start
  /\ \A k \in 1 .. Len(w) - 1 : Adjacent(w[k], w[k + 1])

WalkTo(w, c) == WalkFromStart(w) /\ w[Len(w)] = c

\* What bfs promises, stated with walks instead of the cells within some steps: it
\* returns a walk that no walk to the end is shorter than, or 0 if there is none.
ShortestWalk ==
  pc = "return" =>
    IF path = <<>> THEN \A w : ~WalkTo(w, end)
    ELSE WalkTo(path, end) /\ \A w : WalkTo(w, end) => Len(path) <= Len(w)

-----------------------------------------------------------------------------
(* The inductive invariant.                                                *)

Called == pc # "call"
Position(k) == k \in 1 .. Len(stack)

Types ==
  /\ pc \in {"call", "search", "push", "walk", "return"}
  /\ walls \in SUBSET Cells /\ start \in Cells /\ end \in Cells
  /\ stack \in Seq(Cells) /\ i \in Nat /\ i <= Len(stack)
  /\ parents \in [Cells -> Cells] /\ depth \in [Cells -> Nat]
  /\ visited \in SUBSET Cells
  /\ parent \in Cells /\ side \in Nat
  /\ cell \in Cells
  /\ path \in Seq(Cells)
  /\ pc \in {"call", "search", "push"} => path = <<>>

\* The queue holds every visited cell once, and starts with the start.
QueueInv ==
  /\ ~Called => i = 0 /\ \A c \in Cells : depth[c] = 0
  /\ Called => Len(stack) > 0 /\ stack[1] = start /\ depth[start] = 0
  /\ \A k \in 1 .. Len(stack) : stack[k] \in visited
  /\ \A c \in visited : \E k \in 1 .. Len(stack) : stack[k] = c
  /\ \A k, l \in 1 .. Len(stack) : stack[k] = stack[l] => k = l

\* Where a visited cell comes from.
From(c) == parents[c] \in visited /\ Adjacent(parents[c], c) /\ depth[c] = depth[parents[c]] + 1

Tree == \A c \in visited : c # start => From(c)

\* The position of the cell whose neighbours come next or are being pushed.
Front == IF pc = "search" THEN i + 1 ELSE i

\* Depths never fall along the queue, nor rise by more than one from its front.
Layers ==
  /\ \A k, l \in 1 .. Len(stack) : k <= l => depth[stack[k]] <= depth[stack[l]]
  /\ Front \in 1 .. Len(stack) =>
       \A k \in 1 .. Len(stack) : depth[stack[k]] <= depth[stack[Front]] + 1

Seen(c, d) == d \in visited /\ depth[d] <= depth[c] + 1

\* Every neighbour of c has been pushed.
Done(c) == \A d \in Cells : Adjacent(c, d) => Seen(c, d)

\* All neighbours of the cells before the front have been pushed, and some of those
\* of the cell at the front.
Expanded ==
  /\ \A k \in 1 .. Len(stack) : k < Front => Done(stack[k])
  /\ pc = "push" =>
       /\ i \in 1 .. Len(stack) /\ parent = stack[i] /\ side \in 1 .. 4
       /\ \A k \in 1 .. side - 1 :
            Beside(parent, k) \in Cells \ walls => Seen(parent, Beside(parent, k))

\* Where the end is.
EndInv ==
  /\ pc = "search" => \A k \in 1 .. i : stack[k] # end
  /\ pc = "push" => \A k \in 1 .. i : stack[k] # end
  /\ pc = "walk" \/ (pc = "return" /\ path # <<>>) => i > 0 /\ stack[i] = end
  /\ pc = "return" /\ path = <<>> =>
       /\ \A k \in 1 .. Len(stack) : stack[k] # end
       /\ i = Len(stack)
       /\ \A k \in 1 .. Len(stack) : Done(stack[k])

\* The way back: each cell of path is the parent of the one before it.
WayBack ==
  /\ pc = "walk" =>
       /\ cell \in visited
       /\ depth[cell] + Len(path) = depth[end]
       /\ path = <<>> => cell = end
       /\ path # <<>> => path[1] = end /\ Adjacent(cell, path[Len(path)])
       /\ \A k \in 1 .. Len(path) : depth[path[k]] + k = depth[end] + 1
       /\ \A k \in 1 .. Len(path) - 1 : Adjacent(path[k + 1], path[k])
  /\ pc = "return" /\ path # <<>> =>
       /\ WalkTo(path, end)
       /\ Len(path) = depth[end] + 1
       /\ \A k \in 1 .. Len(path) : depth[path[k]] = k - 1

IInv == Types /\ QueueInv /\ Tree /\ Layers /\ Expanded /\ EndInv /\ WayBack
-----------------------------------------------------------------------------
LEMMA InitInv == Init => IInv
<1> SUFFICES ASSUME Init PROVE IInv
  OBVIOUS
<1>1. <<0, 0>> \in Cells
  BY SizeAssumption DEF Cells
<1>2. Types
  BY <1>1, ClientAssumption DEF Init, Types
<1>3. QueueInv /\ Tree /\ Layers /\ Expanded /\ EndInv /\ WayBack
  BY DEF Init, QueueInv, Called, Tree, Layers, Front, Expanded, EndInv, WayBack
<1> QED
  BY <1>2, <1>3 DEF IInv

LEMMA CallInv == ASSUME IInv, bfs PROVE IInv'
<1>1. /\ stack' \in Seq(Cells) /\ Len(stack') = 1 /\ stack'[1] = start
      /\ visited' = {start} /\ i = 0 /\ depth[start] = 0
  BY DEF IInv, bfs, Types, QueueInv, Called
<1>2. Types'
  BY <1>1 DEF IInv, bfs, map, Types
<1>3. QueueInv' /\ Tree'
  BY <1>1 DEF IInv, bfs, map, Types, QueueInv, Called, Tree
<1>4. Layers' /\ Expanded'
  BY <1>1 DEF IInv, bfs, map, Types, Layers, Front, Expanded
<1>5. EndInv' /\ WayBack'
  BY <1>1 DEF IInv, bfs, map, Types, EndInv, WayBack
<1> QED
  BY <1>2, <1>3, <1>4, <1>5 DEF IInv

LEMMA TakeInv == ASSUME IInv, Take PROVE IInv'
<1>1. /\ pc = "search" /\ i' = i + 1 /\ i' \in 1 .. Len(stack) /\ stack[i'] \in Cells
      /\ UNCHANGED <<walls, start, end, stack, parents, visited, depth, path>>
  BY DEF IInv, Take, map, queue, Types
<1>2. CASE stack[i'] = end
  <2>1. pc' = "walk" /\ cell' = end /\ UNCHANGED <<parent, side>> /\ path = <<>>
    BY <1>2 DEF IInv, Take, Types
  <2>2. Types' /\ QueueInv' /\ Tree'
    BY <1>1, <2>1 DEF IInv, Types, QueueInv, Called, Tree, From, Adjacent
  <2>3. Layers' /\ Expanded'
    BY <1>1, <2>1 DEF IInv, Types, Layers, Front, Expanded, Done, Adjacent, Seen
  <2>4. EndInv' /\ WayBack'
    BY <1>1, <1>2, <2>1 DEF IInv, Types, QueueInv, EndInv, WayBack
  <2> QED
    BY <2>2, <2>3, <2>4 DEF IInv
<1>3. CASE stack[i'] # end
  <2>1. pc' = "push" /\ parent' = stack[i'] /\ side' = 1 /\ UNCHANGED cell
    BY <1>3 DEF Take
  <2>2. Types' /\ QueueInv' /\ Tree'
    BY <1>1, <2>1 DEF IInv, Types, QueueInv, Called, Tree, From, Adjacent
  <2>3. Layers' /\ Expanded'
    BY <1>1, <2>1 DEF IInv, Types, Layers, Front, Expanded, Done, Adjacent, Seen
  <2>4. EndInv' /\ WayBack'
    BY <1>1, <1>3, <2>1 DEF IInv, Types, QueueInv, EndInv, WayBack
  <2> QED
    BY <2>2, <2>3, <2>4 DEF IInv
<1> QED
  BY <1>2, <1>3

LEMMA NotFoundInv == ASSUME IInv, NotFound PROVE IInv'
<1>1. /\ pc = "search" /\ pc' = "return" /\ i = Len(stack) /\ path = <<>>
      /\ UNCHANGED <<walls, start, end, stack, i, parents, visited, depth, path, cell, parent, side>>
  BY DEF IInv, NotFound, map, queue, Types
<1>2. Types' /\ QueueInv' /\ Tree'
  BY <1>1 DEF IInv, Types, QueueInv, Called, Tree, From, Adjacent
<1>3. Layers'
  BY <1>1 DEF IInv, Types, Layers, Front
<1>4. /\ \A k \in 1 .. Len(stack) : k < i + 1 => Done(stack[k])
      /\ \A k \in 1 .. i : stack[k] # end
  BY <1>1 DEF IInv, Expanded, Front, EndInv
<1>5. \A c : Done(c)' = Done(c)
  BY <1>1 DEF Done, Adjacent, Seen
<1>6. Expanded'
  BY <1>1, <1>4, <1>5 DEF IInv, Types, Expanded, Front
<1>7. EndInv' /\ WayBack'
  BY <1>1, <1>4, <1>5 DEF IInv, Types, EndInv, WayBack
<1> QED
  BY <1>2, <1>3, <1>6, <1>7 DEF IInv

\* When bfs_push has come past a side, everything it should have pushed is there.
LEMMA PushedSides ==
  ASSUME IInv, bfs_push, UNCHANGED <<walls, i, parent>>,
         NEW p, p = parent, NEW s, s = side,
         \A c \in visited : c \in visited' /\ depth'[c] = depth[c],
         Len(stack) <= Len(stack)', stack' \in Seq(Cells), depth' \in [Cells -> Nat],
         \A k \in 1 .. Len(stack) : stack'[k] = stack[k],
         Beside(p, s) \in Cells \ walls => Seen(p, Beside(p, s))'
  PROVE  Expanded'
<1>1. /\ pc = "push" /\ s \in 1 .. 4 /\ side' = s + 1
      /\ pc' = IF s = 4 THEN "search" ELSE "push"
      /\ i \in 1 .. Len(stack) /\ i' = i /\ p = stack[i] /\ p \in visited
      /\ p = stack'[i] /\ parent' = p /\ walls' = walls
      /\ Len(stack) \in Nat /\ Len(stack)' \in Nat
  <2>1. pc = "push" /\ side' = s + 1 /\ pc' = IF s = 4 THEN "search" ELSE "push"
    BY DEF bfs_push
  <2>2. s \in 1 .. 4 /\ i \in 1 .. Len(stack) /\ p = stack[i]
    BY <2>1 DEF IInv, Expanded
  <2>3. p \in visited
    BY <2>2 DEF IInv, QueueInv
  <2>4. Len(stack) \in Nat /\ Len(stack)' \in Nat
    BY DEF IInv, Types
  <2> QED
    BY <2>1, <2>2, <2>3, <2>4
<1>2. /\ \A c, d : Adjacent(c, d)' = Adjacent(c, d)
      /\ \A c \in visited : \A d : Seen(c, d) => Seen(c, d)'
      /\ \A c \in visited : Done(c) => Done(c)'
  BY <1>1 DEF Adjacent, Seen, Done
<1>3. \A k \in 1 .. Len(stack) : stack[k] \in visited
  BY DEF IInv, QueueInv
<1>4. \A c : \A k \in 1 .. Len(stack) : k < i /\ c = stack[k] => Done(c)'
  BY <1>1, <1>2, <1>3 DEF IInv, Expanded, Front
<1>5. \A k \in 1 .. s : Beside(p, k) \in Cells \ walls => Seen(p, Beside(p, k))'
  <2> SUFFICES ASSUME NEW k \in 1 .. s, Beside(p, k) \in Cells \ walls
               PROVE  Seen(p, Beside(p, k))'
    OBVIOUS
  <2>1. CASE k = s
    BY <2>1
  <2>2. CASE k # s
    <3>1. k \in 1 .. s - 1
      BY <2>2, <1>1
    <3>2. Seen(p, Beside(p, k))
      BY <1>1, <3>1 DEF IInv, Expanded
    <3> QED
      BY <3>2, <1>1, <1>2
  <2> QED
    BY <2>1, <2>2
<1>6. \A c : \A k \in 1 .. Len(stack)' : k < i /\ c = stack'[k] => Done(c)'
  <2> SUFFICES ASSUME NEW c, NEW k \in 1 .. Len(stack)', k < i, c = stack'[k] PROVE Done(c)'
    OBVIOUS
  <2>1. k \in 1 .. Len(stack)
    BY <1>1
  <2> QED
    BY <1>4, <2>1
<1>7. CASE s = 4
  <2>1. Done(p)'
    BY <1>1, <1>5, <1>7 DEF Adjacent, Done
  <2>2. pc' = "search" /\ Front' = i + 1
    BY <1>1, <1>7 DEF Front
  <2>3. \A c : \A k \in 1 .. Len(stack)' : k < i + 1 /\ c = stack'[k] => Done(c)'
    <3> SUFFICES ASSUME NEW c, NEW k \in 1 .. Len(stack)', k < i + 1, c = stack'[k] PROVE Done(c)'
      OBVIOUS
    <3>1. k < i \/ k = i
      BY <1>1
    <3>2. CASE k = i
      BY <1>1, <2>1, <3>2
    <3>3. CASE k < i
      BY <1>6, <3>3
    <3> QED
      BY <3>1, <3>2, <3>3
  <2> QED
    BY <2>2, <2>3 DEF Expanded
<1>8. CASE s # 4
  <2>1. pc' = "push" /\ Front' = i /\ side' \in 1 .. 4 /\ side' - 1 = s
    BY <1>1, <1>8 DEF Front
  <2>2. i' \in 1 .. Len(stack)' /\ parent' = stack'[i']
    BY <1>1
  <2> QED
    BY <1>1, <1>5, <1>6, <2>1, <2>2 DEF Expanded
<1> QED
  BY <1>7, <1>8

LEMMA PushInv == ASSUME IInv, bfs_push PROVE IInv'
<1> PICK child : child = Beside(parent, side)
  OBVIOUS
<1> PICK p, s : p = parent /\ s = side
  OBVIOUS
<1>1. /\ pc = "push" /\ side \in 1 .. 4 /\ side' = side + 1 /\ pc' = IF side = 4 THEN "search" ELSE "push"
      /\ i \in 1 .. Len(stack) /\ parent = stack[i] /\ parent \in visited /\ path = <<>>
      /\ \A k \in 1 .. Len(stack) : depth[stack[k]] <= depth[parent] + 1
      /\ UNCHANGED <<walls, start, end, i, parent, cell, path>>
  BY DEF IInv, bfs_push, map, Expanded, Layers, Front, QueueInv, Types
<1>2. CASE ~Fresh(child)
  <2>1. UNCHANGED <<stack, parents, visited, depth>>
    BY <1>2 DEF bfs_push, queue
  <2>2. child \in Cells \ walls => Seen(parent, child)
    <3> SUFFICES ASSUME child \in Cells \ walls PROVE Seen(parent, child)
      OBVIOUS
    <3>1. child \in visited
      BY <1>2 DEF Fresh
    <3>2. PICK k \in 1 .. Len(stack) : stack[k] = child
      BY <3>1 DEF IInv, QueueInv
    <3> QED
      BY <3>1, <3>2, <1>1 DEF Seen
  <2>3. Types' /\ QueueInv' /\ Tree'
    BY <1>1, <2>1 DEF IInv, Types, QueueInv, Called, Tree, From, Adjacent
  <2>4. Layers'
    BY <1>1, <2>1 DEF IInv, Types, Layers, Front
  <2>5. EndInv' /\ WayBack'
    BY <1>1, <2>1 DEF IInv, Types, EndInv, WayBack
  <2>6. Expanded'
    <3>1. child \in Cells \ walls => Seen(p, child)'
      BY <2>1, <2>2, <1>1 DEF Seen
    <3>2. /\ UNCHANGED <<walls, i, parent>> /\ Len(stack) <= Len(stack)'
          /\ stack' \in Seq(Cells) /\ depth' \in [Cells -> Nat]
          /\ \A c \in visited : c \in visited' /\ depth'[c] = depth[c]
          /\ \A k \in 1 .. Len(stack) : stack'[k] = stack[k]
      BY <1>1, <2>1 DEF IInv, Types
    <3> QED
      BY <3>1, <3>2, PushedSides
  <2> QED
    BY <2>3, <2>4, <2>5, <2>6 DEF IInv
<1>3. CASE Fresh(child)
  <2>1. /\ child \in Cells /\ child \notin walls /\ child \notin visited
        /\ stack' = Append(stack, child)
        /\ parents' = [parents EXCEPT ![child] = parent]
        /\ visited' = visited \cup {child}
        /\ depth' = [depth EXCEPT ![child] = depth[parent] + 1]
    BY <1>3 DEF Fresh, bfs_push
  <2>2. PICK n \in Nat : n = Len(stack)
    BY DEF IInv, Types
  <2>3. /\ stack' \in Seq(Cells) /\ Len(stack') = n + 1 /\ stack'[n + 1] = child
        /\ \A k \in 1 .. n : stack'[k] = stack[k] /\ stack[k] \in visited
    BY <2>1, <2>2 DEF IInv, Types, QueueInv
  <2>4. /\ parents' \in [Cells -> Cells] /\ depth' \in [Cells -> Nat]
        /\ parents'[child] = parent /\ depth'[child] = depth[parent] + 1
        /\ \A c \in visited : parents'[c] = parents[c] /\ depth'[c] = depth[c]
    BY <2>1, <1>1 DEF IInv, Types
  <2>5. Types'
    BY <1>1, <2>1, <2>2, <2>3, <2>4 DEF IInv, Types
  <2>6. QueueInv'
    <3>1. stack'[1] = start /\ depth'[start] = 0 /\ pc # "call" /\ pc' # "call"
      BY <1>1, <2>2, <2>3, <2>4 DEF IInv, QueueInv, Called
    <3>2. \A c \in visited' : \E k \in 1 .. n + 1 : stack'[k] = c
      BY <2>1, <2>2, <2>3 DEF IInv, QueueInv
    <3>3. \A k \in 1 .. n + 1 : stack'[k] \in visited'
      BY <2>1, <2>2, <2>3
    <3>4. \A k, l \in 1 .. n + 1 : stack'[k] = stack'[l] => k = l
      BY <2>1, <2>2, <2>3 DEF IInv, QueueInv
    <3> QED
      BY <1>1, <2>3, <3>1, <3>2, <3>3, <3>4 DEF QueueInv, Called
  <2>7. Tree'
    <3>1. \A c, d : Adjacent(c, d)' = Adjacent(c, d)
      BY <1>1 DEF Adjacent
    <3>2. Adjacent(parent, child)
      BY <1>1, <2>1 DEF Adjacent
    <3>3. From(child)'
      BY <1>1, <2>1, <2>4, <3>1, <3>2 DEF From
    <3>4. ASSUME NEW c \in visited, c # start PROVE From(c)'
      <4>1. From(c)
        BY <3>4 DEF IInv, Tree
      <4> QED
        BY <2>1, <2>4, <3>1, <4>1 DEF From
    <3> QED
      BY <1>1, <2>1, <3>3, <3>4 DEF Tree
  <2>8. Layers'
    <3>1. \A k \in 1 .. n : /\ depth'[stack'[k]] = depth[stack[k]]
                           /\ depth[stack[k]] \in Nat /\ depth[stack[k]] <= depth[parent] + 1
      BY <1>1, <2>2, <2>3, <2>4 DEF IInv, Types
    <3>2. depth[parent] \in Nat /\ depth'[stack'[n + 1]] = depth[parent] + 1
      BY <1>1, <2>3, <2>4 DEF IInv, Types
    <3>3. \A k, l \in 1 .. n : k <= l => depth[stack[k]] <= depth[stack[l]]
      BY <2>2 DEF IInv, Layers
    <3>4. \A k, l \in 1 .. n + 1 : k <= l => depth'[stack'[k]] <= depth'[stack'[l]]
      BY <3>1, <3>2, <3>3
    <3>5. Front' \in {i, i + 1} /\ i \in 1 .. n
      BY <1>1, <2>2 DEF Front
    <3>6. \A k \in 1 .. n + 1 : depth'[stack'[k]] <= depth[parent] + 1
      BY <3>1, <3>2
    <3>7. /\ depth'[stack'[i]] = depth[parent] /\ depth'[stack'[i]] \in Nat
          /\ depth'[stack'[i + 1]] \in Nat /\ depth'[stack'[i]] <= depth'[stack'[i + 1]]
      <4>1. i \in 1 .. n + 1 /\ i + 1 \in 1 .. n + 1 /\ (i + 1 \in 1 .. n \/ i + 1 = n + 1)
        BY <3>5
      <4>2. depth'[stack'[i + 1]] \in Nat
        BY <3>1, <3>2, <4>1
      <4> QED
        BY <1>1, <3>1, <3>2, <3>4, <3>5, <4>1, <4>2
    <3>8. \A k \in 1 .. n + 1 : depth'[stack'[k]] \in Nat /\ depth'[stack'[k]] <= depth'[stack'[Front']] + 1
      BY <3>1, <3>2, <3>5, <3>6, <3>7
    <3> QED
      BY <2>3, <3>4, <3>8 DEF Layers
  <2>9. Expanded'
    <3>1. Seen(p, child)'
      BY <1>1, <2>1, <2>4 DEF Seen, IInv, Types
    <3>2. \A c \in visited : c \in visited' /\ depth'[c] = depth[c]
      BY <2>1, <2>4
    <3>3. Len(stack) <= Len(stack)' /\ \A k \in 1 .. Len(stack) : stack'[k] = stack[k]
      BY <2>2, <2>3
    <3> QED
      BY <1>1, <2>3, <2>4, <3>1, <3>2, <3>3, PushedSides
  <2>10. EndInv' /\ WayBack'
    <3>1. \A k \in 1 .. i : stack'[k] # end
      BY <1>1, <2>2, <2>3 DEF IInv, EndInv
    <3> QED
      BY <1>1, <3>1 DEF EndInv, WayBack
  <2> QED
    BY <2>5, <2>6, <2>7, <2>8, <2>9, <2>10 DEF IInv
<1> QED
  BY <1>2, <1>3
LEMMA WalkInv == ASSUME IInv, Walk PROVE IInv'
<1>1. /\ pc = "walk" /\ cell \in visited /\ cell \in Cells /\ path \in Seq(Cells)
      /\ UNCHANGED <<walls, start, end, stack, i, parents, visited, depth, parent, side>>
      /\ Len(path) \in Nat /\ depth[cell] \in Nat /\ depth[end] \in Nat
  BY DEF IInv, Walk, map, queue, WayBack, Types
<1>2. PICK n, q : n = Len(path) /\ q = Append(path, cell)
  OBVIOUS
<1>3. /\ q \in Seq(Cells) /\ Len(q) = n + 1 /\ q # <<>> /\ q[n + 1] = cell
      /\ \A k \in 1 .. n : q[k] = path[k]
  BY <1>1, <1>2
<1>4. /\ q[1] = end /\ depth[cell] + n = depth[end]
      /\ \A k \in 1 .. n + 1 : q[k] \in Cells /\ depth[q[k]] + k = depth[end] + 1
      /\ \A k \in 1 .. n : Adjacent(q[k + 1], q[k])
  <2>1. depth[cell] + n = depth[end]
    BY <1>1, <1>2 DEF IInv, WayBack
  <2>2. q[1] = end
    BY <1>1, <1>2, <1>3 DEF IInv, WayBack
  <2>3. ASSUME NEW k \in 1 .. n + 1 PROVE q[k] \in Cells /\ depth[q[k]] + k = depth[end] + 1
    <3>1. CASE k = n + 1
      BY <1>1, <1>2, <1>3, <2>1, <3>1
    <3>2. CASE k # n + 1
      <4>1. k \in 1 .. n /\ q[k] = path[k]
        BY <1>1, <1>2, <1>3, <3>2
      <4> QED
        BY <1>1, <1>2, <4>1 DEF IInv, WayBack, Types
    <3> QED
      BY <3>1, <3>2
  <2>4. ASSUME NEW k \in 1 .. n PROVE Adjacent(q[k + 1], q[k])
    <3>1. CASE k = n
      <4>1. path # <<>> /\ q[k + 1] = cell /\ q[k] = path[n]
        BY <1>1, <1>2, <1>3, <3>1
      <4>2. Adjacent(cell, path[Len(path)])
        BY <1>1, <4>1 DEF IInv, WayBack
      <4> QED
        BY <1>2, <4>1, <4>2
    <3>2. CASE k # n
      <4>1. k \in 1 .. n - 1 /\ k + 1 \in 1 .. n /\ q[k + 1] = path[k + 1] /\ q[k] = path[k]
        BY <1>1, <1>2, <1>3, <3>2
      <4> QED
        BY <1>1, <1>2, <4>1 DEF IInv, WayBack
    <3> QED
      BY <3>1, <3>2
  <2> QED
    BY <2>1, <2>2, <2>3, <2>4
<1>5. \A c, d : Adjacent(c, d)' = Adjacent(c, d)
  BY <1>1 DEF Adjacent
<1>6. \A c : Done(c)' = Done(c)
  BY <1>1 DEF Done, Adjacent, Seen
<1>7. (pc' = "walk" \/ pc' = "return") /\ path' \in Seq(Cells) /\ path' # <<>> /\ cell' \in Cells
  <2>1. CASE cell = start
    <3>1. path' = [k \in 1 .. n + 1 |-> q[n + 1 - k + 1]] /\ pc' = "return" /\ cell' = cell
      BY <1>1, <1>2, <1>3, <2>1 DEF Walk, reverse_vec2u
    <3>2. \A k \in 1 .. n + 1 : q[n + 1 - k + 1] \in Cells
      BY <1>1, <1>2, <1>4
    <3>3. path' \in Seq(Cells)
      BY <1>1, <1>2, <3>1, <3>2
    <3> QED
      BY <1>1, <1>2, <3>1, <3>3
  <2>2. CASE cell # start
    BY <1>1, <1>2, <1>3, <2>2 DEF Walk, IInv, Types
  <2> QED
    BY <2>1, <2>2
<1>8. Types' /\ QueueInv' /\ Tree'
  BY <1>1, <1>5, <1>7 DEF IInv, Types, QueueInv, Called, Tree, From
<1>9. Layers' /\ Expanded'
  BY <1>1, <1>6, <1>7 DEF IInv, Types, Layers, Front, Expanded
<1>10. EndInv'
  BY <1>1, <1>7 DEF IInv, EndInv
<1>11. WayBack'
  <2>1. CASE cell # start
    <3>1. pc' = "walk" /\ cell' = parents[cell] /\ path' = q
      BY <1>2, <2>1 DEF Walk
    <3>2. From(cell)
      BY <1>1, <2>1 DEF IInv, Tree
    <3>3. /\ cell' \in visited' /\ depth[cell] = depth[cell'] + 1 /\ depth[cell'] \in Nat
      BY <1>1, <1>7, <3>1, <3>2 DEF From, IInv, Types
    <3>4. \A c, d : c = cell' /\ d = q[n + 1] => Adjacent(c, d)
      BY <1>3, <3>1, <3>2 DEF From
    <3>5. depth'[cell'] + Len(path') = depth'[end']
      BY <1>1, <1>2, <1>3, <1>4, <3>1, <3>3
    <3> QED
      BY <1>1, <1>2, <1>3, <1>4, <1>5, <3>1, <3>3, <3>4, <3>5 DEF WayBack
  <2>2. CASE cell = start
    <3>1. path' = [k \in 1 .. n + 1 |-> q[n + 1 - k + 1]] /\ pc' = "return" /\ cell' = cell
      BY <1>1, <1>2, <1>3, <2>2 DEF Walk, reverse_vec2u
    <3>2. depth[start] = 0 /\ n = depth[end]
      BY <1>1, <1>2, <1>4, <2>2 DEF IInv, QueueInv, Called
    <3>3. Len(path') = n + 1 /\ path'[1] = start /\ path'[n + 1] = end
      BY <1>1, <1>2, <1>3, <1>4, <1>7, <2>2, <3>1
    <3>4. ASSUME NEW k \in 1 .. n PROVE \A c, d : c = path'[k] /\ d = path'[k + 1] => Adjacent(c, d)
      <4>1. path'[k] = q[n + 1 - k + 1] /\ path'[k + 1] = q[n + 1 - k] /\ n + 1 - k \in 1 .. n
        BY <1>1, <1>2, <3>1
      <4> QED
        BY <1>4, <4>1
    <3>5. \A k \in 1 .. n + 1 : depth[path'[k]] = k - 1
      <4> SUFFICES ASSUME NEW k \in 1 .. n + 1 PROVE depth[path'[k]] = k - 1
        OBVIOUS
      <4>1. path'[k] = q[n + 1 - k + 1] /\ n + 1 - k + 1 \in 1 .. n + 1
        BY <1>1, <1>2, <3>1
      <4>2. PICK x \in Nat : x = depth[q[n + 1 - k + 1]]
        BY <1>4, <4>1 DEF IInv, Types
      <4>3. x + (n + 1 - k + 1) = n + 1
        BY <1>4, <3>2, <4>1, <4>2
      <4>4. x = k - 1
        BY <1>1, <1>2, <4>3
      <4> QED
        BY <4>1, <4>2, <4>4
    <3>6. WalkTo(path, end)'
      BY <1>1, <1>2, <1>5, <1>7, <3>3, <3>4 DEF WalkTo, WalkFromStart
    <3> QED
      BY <1>1, <1>2, <3>1, <3>2, <3>3, <3>5, <3>6 DEF WayBack
  <2> QED
    BY <2>1, <2>2
<1> QED
  BY <1>8, <1>9, <1>10, <1>11 DEF IInv

LEMMA StutterInv == ASSUME IInv, UNCHANGED vars PROVE IInv'
<1>1. \A c, d : Adjacent(c, d)' = Adjacent(c, d)
  BY DEF vars, Adjacent
<1>2. \A c : Done(c)' = Done(c)
  BY DEF vars, Done, Adjacent, Seen
<1>3. Types' /\ QueueInv' /\ Tree'
  BY <1>1 DEF vars, IInv, Types, QueueInv, Called, Tree, From
<1>4. Layers' /\ Expanded'
  BY <1>2 DEF vars, IInv, Types, Layers, Front, Expanded, Seen
<1>5. EndInv' /\ WayBack'
  BY <1>1, <1>2 DEF vars, IInv, EndInv, WayBack, WalkTo, WalkFromStart
<1> QED
  BY <1>3, <1>4, <1>5 DEF IInv

\* The inductive invariant holds in every state, for every map.
THEOREM Invariant == Spec => []IInv
<1>1. IInv /\ [Next]_vars => IInv'
  BY CallInv, TakeInv, NotFoundInv, PushInv, WalkInv, StutterInv DEF Next
<1> QED
  BY <1>1, InitInv, PTL DEF Spec

-----------------------------------------------------------------------------
(* What follows from the invariant.                                        *)

\* Along a walk every cell has been visited that comes before one deeper than the
\* front: otherwise take the first cell on it that is not.
LEMMA WalkIsSeen ==
  ASSUME IInv, NEW w, WalkFromStart(w), pc = "return",
         NEW bound \in 1 .. Len(w),
         \A m \in 1 .. Len(stack) : depth[stack[m]] < bound - 1 => Done(stack[m])
  PROVE  \A k \in 1 .. bound : w[k] \in visited /\ depth[w[k]] <= k - 1
<1> DEFINE Good(k) == w[k] \in visited /\ depth[w[k]] <= k - 1
<1> DEFINE Bad == {k \in 1 .. bound : ~Good(k)}
<1> SUFFICES ASSUME Bad # {} PROVE FALSE
  OBVIOUS
<1>1. PICK k \in Bad : \A l \in Bad : k <= l
  <2>1. Bad \subseteq Nat
    OBVIOUS
  <2> HIDE DEF Bad
  <2> QED
    BY <2>1, LeastNumber
<1>2. w \in Seq(Cells) /\ w[1] = start /\ Len(w) \in Nat
  BY DEF WalkFromStart
<1>3. Good(1)
  BY <1>2 DEF IInv, QueueInv, Called, Types
<1>4. k # 1 /\ k \in 2 .. bound /\ k - 1 \in 1 .. bound /\ k - 1 \in 1 .. Len(w) - 1
  BY <1>1, <1>2, <1>3
<1>5. Good(k - 1)
  BY <1>1, <1>4
<1>6. PICK m \in 1 .. Len(stack) : stack[m] = w[k - 1]
  BY <1>5 DEF IInv, QueueInv
<1>7. depth[w[k - 1]] \in Nat /\ depth[w[k - 1]] <= k - 2 /\ depth[w[k - 1]] < bound - 1
  <2>1. PICK x \in Nat : x = depth[w[k - 1]]
    BY <1>5 DEF IInv, Types
  <2>2. x <= (k - 1) - 1
    BY <1>5, <2>1
  <2> HIDE DEF Bad
  <2>3. x <= k - 2 /\ x < bound - 1
    BY <1>2, <1>4, <2>2
  <2> QED
    BY <2>1, <2>3
<1>8. Done(w[k - 1])
  BY <1>6, <1>7
<1>9. Adjacent(w[k - 1], w[k]) /\ w[k] \in Cells
  <2>1. Adjacent(w[k - 1], w[(k - 1) + 1])
    BY <1>4 DEF WalkFromStart
  <2>2. (k - 1) + 1 = k
    BY <1>4
  <2> QED
    BY <2>1, <2>2 DEF Adjacent
<1>10. w[k] \in visited /\ depth[w[k]] <= depth[w[k - 1]] + 1
  BY <1>8, <1>9 DEF Done, Seen
<1>11. depth[w[k]] \in Nat
  BY <1>9 DEF IInv, Types
<1>12. Good(k)
  BY <1>4, <1>7, <1>10, <1>11
<1> QED
  BY <1>1, <1>12

\* bfs returns a shortest walk to the end, and 0 only if there is none, on every
\* map, with every start and end (lines 67-104).
THEOREM ShortestPath == Spec => []ShortestWalk
<1>1. ASSUME IInv PROVE ShortestWalk
  <2> SUFFICES ASSUME pc = "return" PROVE ShortestWalk
    BY DEF ShortestWalk
  <2>1. CASE path = <<>>
    <3> SUFFICES ASSUME NEW w, WalkTo(w, end) PROVE FALSE
      BY <2>1 DEF ShortestWalk
    <3>1. WalkFromStart(w) /\ w[Len(w)] = end /\ Len(w) \in 1 .. Len(w)
      BY DEF WalkTo, WalkFromStart
    <3>2. \A m \in 1 .. Len(stack) : Done(stack[m]) /\ stack[m] # end
      BY <1>1, <2>1 DEF IInv, EndInv
    <3>3. end \in visited
      BY <1>1, <3>1, <3>2, WalkIsSeen
    <3> QED
      BY <1>1, <3>2, <3>3 DEF IInv, QueueInv
  <2>2. CASE path # <<>>
    <3>1. WalkTo(path, end) /\ Len(path) = depth[end] + 1 /\ i \in 1 .. Len(stack) /\ stack[i] = end
      BY <1>1, <2>2 DEF IInv, WayBack, EndInv, Types
    <3> SUFFICES ASSUME NEW w, WalkTo(w, end), Len(w) < Len(path) PROVE FALSE
      BY <2>2, <3>1 DEF ShortestWalk, WalkTo, WalkFromStart
    <3>2. WalkFromStart(w) /\ w[Len(w)] = end /\ Len(w) \in 1 .. Len(w) /\ Len(w) \in Nat
      BY DEF WalkTo, WalkFromStart
    <3>3. depth[end] \in Nat /\ Len(w) <= depth[end]
      BY <1>1, <3>1, <3>2 DEF IInv, Types
    <3>4. ASSUME NEW m \in 1 .. Len(stack), depth[stack[m]] < Len(w) - 1 PROVE Done(stack[m])
      <4>1. depth[stack[m]] \in Nat /\ ~(depth[end] <= depth[stack[m]])
        BY <1>1, <3>2, <3>3, <3>4 DEF IInv, Types
      <4>2. ~(i <= m)
        BY <1>1, <3>1, <4>1 DEF IInv, Layers
      <4>3. m < Front
        BY <3>1, <4>2 DEF Front
      <4> QED
        BY <1>1, <4>3 DEF IInv, Expanded
    <3>5. depth[end] <= Len(w) - 1
      BY <1>1, <3>2, <3>4, WalkIsSeen
    <3> QED
      BY <3>2, <3>3, <3>5
  <2> QED
    BY <2>1, <2>2
<1> QED
  BY <1>1, Invariant, PTL

\* For every map neither the queue nor the path holds a cell twice, so neither
\* outgrows an array with room for every cell (lines 47 and 80).
THEOREM ArraysSuffice == Spec => []WithinArrays
<1>1. ASSUME IInv PROVE WithinArrays
  <2>1. \A k, l \in DOMAIN stack : stack[k] = stack[l] => k = l
    <3>1. DOMAIN stack = 1 .. Len(stack)
      BY <1>1 DEF IInv, Types
    <3>2. \A k, l \in 1 .. Len(stack) : stack[k] = stack[l] => k = l
      BY <1>1 DEF IInv, QueueInv
    <3> QED
      BY <3>1, <3>2
  <2>2. ASSUME NEW k \in DOMAIN path, NEW l \in DOMAIN path, path[k] = path[l] PROVE k = l
    <3>1. k \in 1 .. Len(path) /\ l \in 1 .. Len(path) /\ path # <<>>
      BY <1>1, <2>2 DEF IInv, Types
    <3>2. depth[path[k]] \in Nat /\ depth[path[l]] = depth[path[k]] /\ depth[end] \in Nat
      BY <1>1, <2>2, <3>1 DEF IInv, Types
    <3>3. CASE pc = "walk"
      <4>1. depth[path[k]] + k = depth[end] + 1 /\ depth[path[l]] + l = depth[end] + 1
        BY <1>1, <3>1, <3>3 DEF IInv, WayBack
      <4> QED
        BY <3>1, <3>2, <4>1
    <3>4. CASE pc = "return"
      <4>1. depth[path[k]] = k - 1 /\ depth[path[l]] = l - 1
        BY <1>1, <3>1, <3>4 DEF IInv, WayBack
      <4> QED
        BY <3>1, <3>2, <4>1
    <3> QED
      BY <1>1, <3>1, <3>3, <3>4 DEF IInv, Types
  <2> QED
    BY <2>1, <2>2 DEF WithinArrays
<1> QED
  BY <1>1, Invariant, PTL

-----------------------------------------------------------------------------
(* The cells within some steps, which a recursive function computes one step *)
(* at a time, are those that walks of so many steps end at: the ends of walks*)
(* solve the function's equation, so there is a solution, and by induction on*)
(* the number of steps there is no other.                                    *)

\* A walk of at most n steps from a cell of S to d.
Leads(w, n, S, d) ==
  /\ w \in Seq(Cells) /\ w # <<>> /\ Len(w) <= n + 1
  /\ w[1] \in S /\ w[Len(w)] = d
  /\ \A k \in 1 .. Len(w) - 1 : Adjacent(w[k], w[k + 1])

Ends(n, S) == {d \in Cells : \E w : Leads(w, n, S, d)}

AllOnward(S) == UNION {Onward(c) : c \in S}

LEMMA OnwardIsAdjacent ==
  \A S, d : d \in AllOnward(S) <=> d \in S \/ (d \in Cells /\ \E c \in S : Adjacent(c, d))
BY DEF AllOnward, Onward, Adjacent

\* No step leads nowhere else.
LEMMA NoSteps == \A S \in SUBSET Cells : Ends(0, S) = S
<1> SUFFICES ASSUME NEW S \in SUBSET Cells PROVE Ends(0, S) = S
  OBVIOUS
<1>1. ASSUME NEW d \in S PROVE d \in Ends(0, S)
  <2>1. PICK w : w = <<d>>
    OBVIOUS
  <2>2. d \in Cells /\ w \in Seq(Cells) /\ Len(w) = 1 /\ w[1] = d /\ w # <<>>
    BY <2>1
  <2>3. Leads(w, 0, S, d)
    BY <2>2 DEF Leads
  <2> QED
    BY <2>2, <2>3 DEF Ends
<1>2. ASSUME NEW d \in Ends(0, S) PROVE d \in S
  <2>1. PICK w : Leads(w, 0, S, d)
    BY DEF Ends
  <2>2. w \in Seq(Cells) /\ w # <<>> /\ Len(w) <= 0 + 1 /\ w[1] \in S /\ w[Len(w)] = d
    BY <2>1 DEF Leads
  <2>3. PICK m : m = Len(w)
    OBVIOUS
  <2>4. m \in Nat /\ m # 0 /\ m <= 0 + 1 /\ w[1] \in S /\ w[m] = d
    BY <2>2, <2>3
  <2>5. m = 1
    BY <2>4
  <2> QED
    BY <2>4, <2>5
<1> QED
  BY <1>1, <1>2

\* The last step may be taken after the others.
LEMMA LastStep ==
  \A n \in Nat, S \in SUBSET Cells : Ends(n + 1, S) = AllOnward(Ends(n, S))
<1> SUFFICES ASSUME NEW n \in Nat, NEW S \in SUBSET Cells
             PROVE  Ends(n + 1, S) = AllOnward(Ends(n, S))
  OBVIOUS
<1>1. ASSUME NEW d \in Ends(n + 1, S) PROVE d \in AllOnward(Ends(n, S))
  <2>1. PICK w : Leads(w, n + 1, S, d)
    BY DEF Ends
  <2>2. /\ w \in Seq(Cells) /\ Len(w) \in Nat /\ Len(w) > 0 /\ Len(w) <= n + 2
        /\ w[1] \in S /\ w[Len(w)] = d /\ d \in Cells
    BY <2>1 DEF Leads
  <2>3. CASE Len(w) = 1
    <3>1. Leads(w, n, S, d)
      BY <2>1, <2>2, <2>3 DEF Leads
    <3> QED
      BY <2>2, <3>1, OnwardIsAdjacent DEF Ends
  <2>4. CASE Len(w) # 1
    <3>1. PICK m : m = Len(w) - 1
      OBVIOUS
    <3>2. m \in Nat /\ m > 0 /\ m <= n + 1 /\ m \in 1 .. Len(w) - 1 /\ m + 1 = Len(w)
      BY <2>2, <2>4, <3>1
    <3>3. PICK v : v = [k \in 1 .. m |-> w[k]]
      OBVIOUS
    <3>4. /\ v \in Seq(Cells) /\ Len(v) = m /\ v # <<>>
          /\ \A k \in 1 .. m : v[k] = w[k]
      BY <2>2, <3>2, <3>3
    <3>5. Leads(v, n, S, w[m])
      BY <2>1, <2>2, <3>2, <3>4 DEF Leads
    <3>6. w[m] \in Ends(n, S)
      BY <2>2, <3>2, <3>5 DEF Ends
    <3>7. Adjacent(w[m], w[m + 1])
      BY <2>1, <3>2 DEF Leads
    <3> QED
      BY <2>2, <3>2, <3>6, <3>7, OnwardIsAdjacent
  <2> QED
    BY <2>3, <2>4
<1>2. ASSUME NEW d \in Ends(n, S) PROVE d \in Ends(n + 1, S)
  <2>1. PICK w : Leads(w, n, S, d)
    BY DEF Ends
  <2>2. Leads(w, n + 1, S, d)
    BY <2>1 DEF Leads
  <2> QED
    BY <2>2 DEF Ends
<1>3. ASSUME NEW c \in Ends(n, S), NEW d \in Cells, Adjacent(c, d) PROVE d \in Ends(n + 1, S)
  <2>1. PICK w : Leads(w, n, S, c)
    BY DEF Ends
  <2>2. PICK m : m = Len(w)
    OBVIOUS
  <2>3. w \in Seq(Cells) /\ m \in Nat /\ m > 0 /\ m <= n + 1 /\ w[1] \in S /\ w[m] = c
    BY <2>1, <2>2 DEF Leads
  <2>4. PICK v : v = Append(w, d)
    OBVIOUS
  <2>5. /\ v \in Seq(Cells) /\ Len(v) = m + 1 /\ v # <<>> /\ v[m + 1] = d
        /\ \A k \in 1 .. m : v[k] = w[k]
    BY <2>2, <2>3, <2>4
  <2>6. ASSUME NEW k \in 1 .. m PROVE Adjacent(v[k], v[k + 1])
    <3>1. CASE k = m
      BY <1>3, <2>3, <2>5, <3>1
    <3>2. CASE k # m
      <4>1. k \in 1 .. Len(w) - 1 /\ k + 1 \in 1 .. m
        BY <2>2, <2>3, <3>2
      <4>2. Adjacent(w[k], w[k + 1])
        BY <2>1, <4>1 DEF Leads
      <4> QED
        BY <2>5, <4>1, <4>2
    <3> QED
      BY <3>1, <3>2
  <2>7. Leads(v, n + 1, S, d)
    BY <2>3, <2>5, <2>6 DEF Leads
  <2> QED
    BY <2>7 DEF Ends
<1> QED
  BY <1>1, <1>2, <1>3, OnwardIsAdjacent

LEMMA WithinIsEnds == \A n \in Nat, S \in SUBSET Cells : Within(n, S) = Ends(n, S)
<1> SUFFICES ASSUME NEW n \in Nat, NEW S \in SUBSET Cells PROVE Within(n, S) = Ends(n, S)
  OBVIOUS
<1> DEFINE Solves(W) == W = [m \in 0 .. n |-> IF m = 0 THEN S ELSE UNION {Onward(c) : c \in W[m - 1]}]
<1> DEFINE Steps == CHOOSE W : Solves(W)
<1>1. Within(n, S) = Steps[n]
  BY DEF Within
<1>2. \E W : Solves(W)
  <2> DEFINE V == [m \in 0 .. n |-> Ends(m, S)]
  <2>1. ASSUME NEW m \in 0 .. n PROVE Ends(m, S) = IF m = 0 THEN S ELSE AllOnward(V[m - 1])
    <3>1. CASE m = 0
      BY NoSteps, <3>1
    <3>2. CASE m # 0
      <4>1. m - 1 \in Nat /\ m - 1 \in 0 .. n /\ m = (m - 1) + 1
        BY <3>2
      <4> QED
        BY LastStep, <3>2, <4>1
    <3> QED
      BY <3>1, <3>2
  <2>2. Solves(V)
    BY <2>1 DEF AllOnward
  <2> QED
    BY <2>2
<1>3. Solves(Steps)
  <2> HIDE DEF Solves
  <2> QED
    BY <1>2
<1>4. \A m \in 0 .. n : Steps[m] = IF m = 0 THEN S ELSE AllOnward(Steps[m - 1])
  <2> HIDE DEF Steps
  <2> QED
    BY <1>3 DEF AllOnward
<1> HIDE DEF Steps
<1> DEFINE Good == {m \in 0 .. n : Steps[m] = Ends(m, S)}
<1>5. 0 \in Good
  BY <1>4, NoSteps
<1>6. ASSUME NEW m \in 0 .. n - 1, m \in Good PROVE m + 1 \in Good
  <2>1. m \in Nat /\ m + 1 \in 0 .. n /\ m + 1 # 0 /\ (m + 1) - 1 = m
    OBVIOUS
  <2>2. Steps[m + 1] = AllOnward(Steps[m])
    BY <1>4, <2>1
  <2> QED
    BY <1>6, <2>1, <2>2, LastStep
<1> HIDE DEF Good
<1>7. n \in Good
  BY <1>5, <1>6, SetInduction
<1> QED
  BY <1>1, <1>7 DEF Good

\* The same as ShortestPath in the words of the run: the end is not within fewer
\* steps than the path that bfs returns has, and not within any if it returns 0.
THEOREM PathIsShortest == Spec => []Shortest
<1>1. ASSUME IInv, ShortestWalk PROVE Shortest
  <2> SUFFICES ASSUME pc = "return" PROVE Shortest
    BY DEF Shortest
  <2>1. start \in Cells /\ {start} \in SUBSET Cells
    BY <1>1 DEF IInv, Types
  <2>2. ASSUME NEW n \in Nat, end \in Within(n, {start}) PROVE \E w : WalkTo(w, end) /\ Len(w) <= n + 1
    <3>1. end \in Ends(n, {start})
      BY <2>1, <2>2, WithinIsEnds
    <3>2. PICK w : Leads(w, n, {start}, end)
      BY <3>1 DEF Ends
    <3>3. WalkTo(w, end) /\ Len(w) <= n + 1
      BY <3>2 DEF Leads, WalkTo, WalkFromStart
    <3> QED
      BY <3>3
  <2>3. CASE path = <<>>
    <3>1. MAP_X * MAP_Y \in Nat
      BY SizeAssumption
    <3>2. end \notin Within(MAP_X * MAP_Y, {start})
      BY <1>1, <2>2, <2>3, <3>1 DEF ShortestWalk
    <3> QED
      BY <2>3, <3>2 DEF Shortest
  <2>4. CASE path # <<>>
    <3>1. WalkTo(path, end) /\ \A w : WalkTo(w, end) => Len(path) <= Len(w)
      BY <1>1, <2>4 DEF ShortestWalk
    <3>2. ASSUME Len(path) > 1 PROVE end \notin Within(Len(path) - 2, {start})
      <4>1. Len(path) \in Nat /\ Len(path) - 2 \in Nat
        BY <1>1, <3>2 DEF IInv, Types
      <4> SUFFICES ASSUME end \in Within(Len(path) - 2, {start}) PROVE FALSE
        OBVIOUS
      <4>2. PICK w : WalkTo(w, end) /\ Len(w) <= (Len(path) - 2) + 1
        BY <2>2, <4>1
      <4>3. Len(w) \in Nat /\ Len(path) <= Len(w)
        BY <3>1, <4>2 DEF WalkTo, WalkFromStart
      <4>4. Len(w) <= Len(path) - 1
        BY <4>1, <4>2, <4>3
      <4> QED
        BY <4>1, <4>3, <4>4
    <3> QED
      BY <2>4, <3>1, <3>2 DEF Shortest, WalkTo, WalkFromStart
  <2> QED
    BY <2>3, <2>4
<1> QED
  BY <1>1, Invariant, ShortestPath, PTL
=============================================================================

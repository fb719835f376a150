------------------------------ MODULE Quicksort ------------------------------
(***************************************************************************)
(* quicksort as src/quicksort.c has it for bytes and src/kdtree.c, in      *)
(* macros, for points and each of their dimensions.  An array is a function*)
(* on 0 .. n - 1, and its elements are tuples of which dim is compared.    *)
(***************************************************************************)
EXTENDS Integers

Swap(array, i, j) == [array EXCEPT ![i] = array[j], ![j] = array[i]]

\* The loop of partition: the array, and the last position known not to exceed the pivot.
Scan(array, low, high, dim) ==
  LET after[n \in 0 .. high - low] ==
        IF n = 0 THEN [array |-> array, i |-> low - 1]
        ELSE LET s == after[n - 1]
                 j == low + n - 1
             IN  IF s.array[j][dim] <= array[high][dim]
                 THEN [array |-> Swap(s.array, s.i + 1, j), i |-> s.i + 1]
                 ELSE s
  IN  after[high - low]

\* Fault: the pivot is not put between the two parts.
PartitionUnplaced(array, low, high, dim) ==
  LET s == Scan(array, low, high, dim) IN [array |-> s.array, i |-> s.i + 1]

\* The array, and where the pivot has come to lie.
Partition(array, low, high, dim) ==
  LET s == Scan(array, low, high, dim)
  IN  [array |-> Swap(s.array, s.i + 1, high), i |-> s.i + 1]

\* The calls of a sort that cuts an array in parts: the levels there may be below a
\* call, the array as it finds it, and the ends of its part.
Calls(array, size) ==
  (0 .. size) \X [DOMAIN array -> {array[k] : k \in DOMAIN array}] \X (0 .. size) \X (-1 .. size - 1)

\* No part has more levels below it than it has elements.
Sort(array, low, high, dim) ==
  LET sorted[args \in Calls(array, high + 1)] ==
        LET d == args[1]
            l == args[3]
            h == args[4]
            p == Partition(args[2], l, h, dim)
            left == IF p.i = 0 THEN p.array ELSE sorted[<<d - 1, p.array, l, p.i - 1>>]
        IN  IF d = 0 \/ l >= h THEN args[2] ELSE sorted[<<d - 1, left, p.i + 1, h>>]
  IN  sorted[<<high + 1, array, low, high>>]
=============================================================================

------------------------------- MODULE Sorting -------------------------------
(***************************************************************************)
(* src/quicksort.c, src/merge_sort.c and src/insertion_sort.c sort an array*)
(* in place, and src/binary_search.c searches one.  A sort is one step, and*)
(* so is an iteration of the search.  An array is a function on 0 .. n - 1.*)
(***************************************************************************)
EXTENDS Quicksort, FiniteSets

CONSTANTS
  Arrays,      \* those the client sorts or searches, of numbers
  Targets,     \* the numbers it searches for
  MAX          \* the last value of a size_t, far beyond any array

VARIABLES
  call,        \* <<"start">>, <<"sort", array>>, <<"searching", array, target>> or <<"search", ..>>
  result       \* the array after it was sorted, or what is left to search, or what was found

vars == <<call, result>>

Init == call = <<"start">> /\ result = <<>>

Size(array) == Cardinality(DOMAIN array)

Quicksort ==
  /\ call = <<"start">>
  /\ \E array \in Arrays :
       /\ call' = <<"sort", array>>
       /\ result' = LET bytes == [k \in DOMAIN array |-> <<array[k]>>]
                        sorted == Sort(bytes, 0, Size(array) - 1, 1)
                    IN  [k \in DOMAIN array |-> sorted[k][1]]

-----------------------------------------------------------------------------
\* The three loops that merge a and b into array from l on.
Merge(array, a, b, l) ==
  LET size == Size(a) + Size(b)
      after[n \in 0 .. size] ==
        IF n = 0 THEN [array |-> array, i |-> 0, j |-> 0]
        ELSE LET s == after[n - 1]
                 k == l + n - 1
             IN  IF s.i < Size(a) /\ (s.j >= Size(b) \/ a[s.i] <= b[s.j])
                 THEN [array |-> [s.array EXCEPT ![k] = a[s.i]], i |-> s.i + 1, j |-> s.j]
                 ELSE [array |-> [s.array EXCEPT ![k] = b[s.j]], i |-> s.i, j |-> s.j + 1]
  IN  after[size].array

\* The copies of a part that merge_sort makes.
Part(array, l, r) == [k \in 0 .. r - l |-> array[l + k]]

merge_sort(array, left, right) ==
  LET sorted[args \in Calls(array, right + 1)] ==
        LET d == args[1]
            l == args[3]
            r == args[4]
            m == l + (r - l) \div 2
            halves == sorted[<<d - 1, sorted[<<d - 1, args[2], l, m>>], m + 1, r>>]
        IN  IF d = 0 \/ l >= r THEN args[2]
            ELSE Merge(halves, Part(halves, l, m), Part(halves, m + 1, r), l)
  IN  sorted[<<right + 1, array, left, right>>]

MergeSort ==
  /\ call = <<"start">>
  /\ \E array \in Arrays :
       /\ Size(array) \in 1 .. 255          \* main keeps the length in a u8
       /\ call' = <<"sort", array>>
       /\ result' = merge_sort(array, 0, Size(array) - 1)

\* The element at i moves down past those that are larger, which move up.
Sink(array, i) ==
  LET Stops(j) == j = 0 \/ array[j - 1] <= array[i]
      stop == CHOOSE j \in 0 .. i : Stops(j) /\ \A m \in j + 1 .. i : ~Stops(m)
  IN  [k \in DOMAIN array |->
         IF k = stop THEN array[i] ELSE IF stop < k /\ k <= i THEN array[k - 1] ELSE array[k]]

insertion_sort(array, size) ==
  LET after[n \in 0 .. size] == IF n = 0 THEN array ELSE Sink(after[n - 1], n - 1)
  IN  after[size]

InsertionSort ==
  /\ call = <<"start">>
  /\ \E array \in Arrays :
       /\ call' = <<"sort", array>>
       /\ result' = insertion_sort(array, Size(array))

-----------------------------------------------------------------------------
Increasing(array) == \A k, l \in DOMAIN array : k < l => array[k] < array[l]

\* Fault: the first element is left out.
WholeButFirst(array) == [l |-> 1, r |-> Size(array)]

\* main passes the length as the right end, one too many.
Whole(array) == [l |-> 0, r |-> Size(array)]

Search ==
  /\ call = <<"start">>
  /\ \E array \in {a \in Arrays : a # <<>> /\ Increasing(a)}, target \in Targets :
       call' = <<"searching", array, target>> /\ result' = Whole(array)

Return(answer) == call' = <<"search", call[2], call[3]>> /\ result' = answer

\* An iteration of the loop; l, r and i are unsigned.  It may look outside the
\* array, and what it then reads is not modelled.
binary_search ==
  /\ call[1] = "searching"
  /\ LET array == call[2]
         target == call[3]
         i == result.l + (result.r - result.l) \div 2
     IN  \/ result.r < result.l /\ Return([inside |-> TRUE, ok |-> FALSE])
         \/ /\ result.r >= result.l
            /\ \/ i \notin DOMAIN array /\ Return([inside |-> FALSE])
               \/ i \in DOMAIN array /\ array[i] = target /\ Return([inside |-> TRUE, ok |-> TRUE, value |-> i])
               \/ /\ i \in DOMAIN array /\ array[i] > target
                  /\ result' = [result EXCEPT !.r = (i - 1) % (MAX + 1)] /\ UNCHANGED call
               \/ /\ i \in DOMAIN array /\ array[i] < target
                  /\ result' = [result EXCEPT !.l = i + 1] /\ UNCHANGED call

Next == Quicksort \/ MergeSort \/ InsertionSort \/ Search \/ binary_search

Spec == Init /\ [][Next]_vars

-----------------------------------------------------------------------------
(* Properties.                                                             *)

Occurs(array, x) == Cardinality({k \in DOMAIN array : array[k] = x})

\* All three ways to sort leave the array in order with the elements it had, each
\* as often as before.
SortedRight ==
  call[1] = "sort" =>
    /\ DOMAIN result = DOMAIN call[2]
    /\ \A k, l \in DOMAIN result : k < l => result[k] <= result[l]
    /\ \A k \in DOMAIN result : Occurs(result, result[k]) = Occurs(call[2], result[k])

\* binary_search stays inside the array and answers right for every target from
\* its first to its last element, though r starts one too far (line 51); outside of
\* these it leaves the array, below it because i - 1 wraps (line 33).
SearchedRight ==
  call[1] = "search" =>
    LET array == call[2]
        target == call[3]
        between == array[0] <= target /\ target <= array[Size(array) - 1]
    IN  /\ result.inside <=> between
        /\ between =>
             /\ result.ok <=> \E k \in DOMAIN array : array[k] = target
             /\ result.ok => array[result.value] = target
=============================================================================

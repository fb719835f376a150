# cproto in TLA+

`cproto` is a collection of some ninety independent C programs, one file each
under `src/`, each a prototype of one idea: a collector, a B+ tree, a regular
expression machine, a few threads around a counter. They share no code and have
no documentation but their comments, their assertions and the checks in their
`main`. They are built by the script `.shellhook` with clang, the address and
undefined-behaviour sanitizers and assertions enabled, `char` unsigned.

This directory models the programs with an algorithm or a protocol of their own,
checks the models with TLC, and proves theorems with TLAPS about fifteen of them: `copying_gc.c`,
`ref_counter.c`, `btree.c`, `parallel_blocks.c`, `pthread_conditions.c`, `http_server.c`,
`binary_heap.c`, `fifo.c`, `runtime.c`, `bfs.c`, `lines.c`, `quicksort.c`, `merge_sort.c`, `insertion_sort.c` and `binary_search.c`.
`PROJECT.json` lists components, runs, theorems, findings and hazards, and maps
every definition to the lines it translates. File names below are those under
`src/src/`.

## 1. The programs

### Modelled

| program | state | operations | what is hard | what makes it correct |
|---|---|---|---|---|
| `copying_gc.c` | two halves of `MEMORY`, lengths, the stack `STACK` of registered locals | `alloc`, `stack_push`, `stack_pop`, `collect` (copy roots, scan) | collection runs inside `alloc`, between any two stores of the client; sharing and cycles; a scan that walks what it appends | nothing live is lost or changed, nothing dead is kept, exhaustion is real, collections end |
| `parallel_blocks.c` | block table, shared buffer, atomic `INDEX`, threads | `main` builds blocks, creates and joins workers, prints; `do_work`, `set_buffer` | unlocked writes of several threads; cut blocks at the edges | no two writers on one element, everything written once, main prints a full buffer |
| `pthread_conditions.c` | a mutex, a condition variable | `main` waits, `child` signals and unlocks main's mutex | a wait without a predicate, spurious wakeups, a signal without the lock, a detached thread | assertions hold, main is woken |
| `ref_counter.c` | `HEAP` words, `BLOCKS` with counts, `ROOTS` | `alloc_block`, `push_root`, `pop_root`, `insert_child_at`, `remove_child_at`, `free_block`, `mark` | cycles, blocks handed out again while dead blocks still point at them, an 8-bit count | counts never too low, live blocks never reused, exactly what no root reaches is reclaimed |
| `btree.c` | pools of leaves and blocks, the root | `insert_tree`, `insert_block`, `insert_leafs`, `lookup_block`, walks | splits that travel up as the recursion returns; the chain of leaves | a dictionary; balanced, filled, chained in order |
| `rope.c` | a pool of nodes and a stack of free slots | `new_`, `insert`, `delete_`, `balance`, `ping` | `_split` frees nodes it still walks below; weights; bounds in any order | a text, edited call by call; exits only for a text too long; slots conserved |
| `binary_heap.c` | an array and its length | `insert`, `pop`, `drop` | removal in the middle, order broken while it is repaired | a priority queue |
| `fifo.c` | a linked list, `first` and `last` | `push`, `pop`, `destroy` | `last` is NULL for no node and for one; `malloc` fails | a queue, no leak |
| `regex_vm.c` | tokens, expressions, instructions; two buffers of threads with flags | `compile` (tokenizer, parser, emitter, labels), `search` | early returns in the parser, duplicate threads, loops of jumps, which match wins | the program has the language of the regex, the search finds the right slice |
| `regex.c` | automaton states, stacks | `get_nfa`, `get_match`, `get_empty_match` | loops of silent arrows, where the end can be reached from | answers agree with the language |
| `lambda_lift.c` | expressions, lists and labels in tables; two counters | `get_top_scope`, `map_extract_func`, `merge_lists` | rewriting in place, nested functions, lists with a lazily kept `last` | the meaning is kept, functions end at the front |
| `parse_expr.c` | nodes, variables, scopes in tables | the parser, the lazy evaluator | precedences by early return, a token read too soon; arguments are bound unevaluated, in the scope of the function | the tree of the grammar; a number that is returned is what the program means |
| `postfix.c` | counters of pending operators, a stack of them | `get_postfix` | operators written in one pass without a tree | the postfix text means the same to `regex.c` |
| `runtime.c` | arrays of scopes and lists | `scope_new`, `scope_new_from`, `scope_lookup`, `scope_insert`, `scope_update` | shadowing in one scope and across scopes, late insertions in outer scopes | an environment |
| `http_server.c` | descriptors, one shared buffer | a loop of `accept`, `read`, `sscanf`, `write`, `close` | any call may fail or do a part; an error goes on to the next round; the buffer is not cleared | no descriptor lost but those of failed clients; each client's own words |
| `bfs.c` | a queue in an array, parents, marks | `bfs`, `bfs_push` | everything about the order of the queue | a shortest path, no array overrun |
| `spatial_hash.c` | a grid of lists, a pool of list elements | `set_bounds`, `push_grid`, `set_intersects` | cubes in several cells, corners on borders and out of bounds | no overlapping cube is missed, none returned twice |
| `kdtree.c` | points in an array, nodes | `make_tree` with its quicksort, `show_within_radius` | skipping a side; equal coordinates on both sides of a split | exactly the points within the radius |
| `quicksort.c`, `merge_sort.c`, `insertion_sort.c`, `binary_search.c` | an array | one call each | ends of ranges, unsigned arithmetic | sorted, the same elements; found if and only if there |
| `levenshtein.c` | one row of the table | `distance` | the row's last element is read before it is written | the edit distance |
| `lines.c` | a bitmap | `set_line` | two tests on one error term, in every direction | pixels near the ideal line, ending at its end |

No two of the programs interact: each is a component with a client, its own `main`,
that the models let do whatever an honest caller of its functions may do.

### Not modelled yet

* `recursive_descent.c`, `tokenizer.c`, `tokenizer_0.c`, `rev_polish.c`,
  `insert_infix.c`: they split or evaluate one fixed text; `recursive_descent.c`
  is its own grammar.
* `linked_list.c`, `linked_list_redux.c`, `doubly_linked_list.c`,
  `intrusive_linked_list.c`, `rev_list.c`, `flex_array.c`, `stack.c`: small
  structures; correct if they are sequences, and leak nothing.
* `alloc_linear.c`: a bump allocator (`memory_pool.c` fills three fixed slots and has
  nothing to allocate).
* `even_odd_in_place.c`, `reverse.c`: a loop of swaps each.
* `cps.c`, `lazy.c`, `thunk_model.c`, `ackermann_peter*.c`, `bury.c`, `counter.c`:
  roundabout ways of computing what a short definition says.
* `base64.c`: an encoding with padding.
* of `lines.c`, the file that `main` writes.

### Left out

Programs that keep no state worth a property: wrappers of one system call
(`handshake.c`, `signal.c`, `page_fault.c`, `mmap_write.c`, `jit_func.c`,
`exit_with_trace.c`, `sleep.c`), formatting and files (`read_hex.c`,
`show_string.c`, `write_bmp.c`, `openssl_get.c`, ...), random numbers and floating
point (`random.c`, `noise.c`, `gauss.c`, `pi.c`, `euler.c`), and demonstrations
of a language or processor feature (`bit_fields.c`, `simd.c`, `casts.c`, ...).
`PROJECT.json` names each file under its component.

## 2. The modules

```
ObjectHeap    <== CopyingGC                                        CopyingGCProofs
                  ParallelBlocks                                   ParallelBlocksProofs
                  PthreadConditions \
                  HttpServer        /               MCSystemCalls  SystemCallsProofs
                  RefCounter                                       RefCounterProofs
Dictionary    <== BTree                                            BTreeProofs
Text          <== Rope                              MCRope
PriorityQueue <== BinaryHeap  \
Queue         <== Fifo         |
Environment   <== Runtime      |  Structures                       StructuresProofs
                  BFSMap, BFS  |                                   BFSProofs
                  Lines        |
                  Sorting     /  (Quicksort)
                  KDTree      \  (Quicksort)        MCStructures   (extends Structures)
                  SpatialHash  |
                  Levenshtein /
Regex         --  RegexVM     \
Regex         --  RegexNFA     |
Regex         --  Postfix      |                    MCLanguages
Lambda        --  LambdaLift   |
ExprLanguage  --  ParseExpr    |
ExprLanguage  --  EvalExpr    /   (extends ParseExpr)
```

`<==` is a refinement: the left module is an abstract specification, the right
one instantiates it with a mapping of its state and has its behaviour as a
property. `--` is a reference: constant-level definitions of what a text means,
written without the algorithm, against which each result is compared. `Quicksort` is
used by two programs that contain the same code.

`MCStructures`, `MCLanguages` and `MCSystemCalls` hold several programs that do not
interact, one running per behaviour; `Structures` is the part of `MCStructures` with no
recursive operators, about which something can be proved. `MCRope` gives `Rope` its constants. The other
modules are run as they are, with a `.cfg` of their own name that gives their constants;
`PthreadConditions` alone has two, for the runs that end in a violation. `NumberLemmas` holds
what several proofs need of numbers.

Conventions. Names are those of the source. A definition whose comment begins with
*Fault* is a plausible bug: it has the parameters of the definition it stands before and
is used by no specification; the mutants of `PROJECT.json` put it in that one's
place and show that the property named there then fails. An `EXIT_IF` leads to a state
whose control variable names it. A sequential function is one step unless its
intermediate states are visible to another thread, or are worth an invariant
(the collector's loops, the heap's balancing, the search's threads).

**CopyingGC.** `MEMORY` is a function from addresses to words, which are tagged as
`is_pointer` and the header tags tell them apart; a word handed out by `alloc` and
not yet written is `unset`, and reading it as a tag is `"undefined"`. `alloc`,
`stack_push`, `stack_pop`, the client's loads and stores are actions while `pc` is
`"run"`; `collect` and an `alloc` that collects go through `CopyRoot` and
`ScanWord`/`NextBlock`, one iteration of lines 145-152 and 154-169 each. The
auxiliary `name` gives each block an identity, which only the mapping reads.
Precondition, from `main`: a local that is used after an allocation is registered,
once. `ObjectHeap` has objects with fields and no addresses; a collection is
invisible in it, and `alloc` may fail.

**ParallelBlocks.** `Build` is an iteration of `main`'s loops (104-125), `Create` and
`Join` one call each, `Fetch` the `atomic_fetch_add` and the test after it (68-72),
`Write` one store of `set_buffer` (58). `INDEX` counts without a bound and is read
modulo `U16`; that `U16` is large enough is `WidthAssumption`, from `BLOCKS_CAP`.
`pthread_create` may fail; joining that worker is undefined and ends the behaviour.

**PthreadConditions.** Each thread is a list of calls. `pthread_cond_wait` is split
where it sleeps; `Spurious` is external. The mutex is glibc's normal one, where any
thread may unlock.

**RefCounter.** A function of the client is one step, but for `pop_root`: it frees and clears the `alive` flags
(107-143) in its first step; then `mark` is a step for each call, with the calls still to be made in `calls`, those for a
block's children in front; and `sweep` is its last loop (147-151). Blocks are records with
`array` (an offset of the heap), `cap`, `parents`, `alive` and `child`. The recursion of `free_block` is a
list of the blocks still to be freed, in the order the calls reach them; as each word of the heap is looked at
once, `CAP_HEAP + 1` iterations end it. `CAP_HEAP` is at most the number of values of a count, as it is
in the source: 256 words, a `u8`. Precondition,
from `main`: a new block is inserted before the next allocation, and a block is
inserted only if it stays reachable while its slot is emptied first.

**BTree.** Leaves and blocks are two sequences of records and pointers their indices.
`insert_block` and `lookup_block` are recursive: each is a function of its `Calls`, a block together with the number of
levels that may be below it, which the number of blocks bounds. A split is made by the caller, as in the code. Each insertion is one
step. Keys are of 32 bits (`Key`). `Dictionary` has entries only, and refuses duplicates and full pools.

**Rope.** The pool and the stack of free slots are explicit, and threaded through
`_split`, `concat`, `new_`, `free_` and `balance` as they are in the code; a slot is
marked when it is given back. Positions are `i8`: the length of a range is narrowed (`I8`, lines 162 and 164), so that one of more than 127
is negative and fails like bounds in the other order; the client of the run passes none. The narrowing of `i - weight` in `_split` and `ping` changes
nothing, because the weight is positive and not above `i`. `call` is the client's last call with its arguments. `Text` is a sequence of characters
of at most `LIMIT`, edited by the same calls: the refinement keeps `call`, so that each call is matched with its own edit and
ends the program exactly if the edit's result is too long, which is never so of `Delete` and `Balance`.

**BinaryHeap, Fifo.** `balance_up` and `balance_down` run one swap per step, so that
the array is what the C array is in between. `malloc` may fail in `push`.

**RegexVM.** `compile` is one step (`set_tokens`, `parse_expr`, `emit` and
`resolve_labels` are operators of the same names); `search` then runs one thread of
a buffer per step. Each buffer has its flags beside it, the set of threads whose bit is set: `push_threads` tests and sets them
(663, 671), the swap (726-734) carries them along, and the memsets (676, 735) are all that clears them (`Emptied`); when `search` returns they stay in memory as they
are. **RegexNFA** keeps the automaton as a sequence of states, and the matchers are
operators that follow the C loops, with the limits of their stacks.

**LambdaLift.** `get_top_scope` and `lift` are a step each. Expressions are trees,
since the code shares none; lists keep `last` where the code reads it. `Lambda` has two
evaluators: one for the client's lists, where calls open scopes, and one for the
rewritten lists, where scopes are values and a function sees only its arguments. The
program prints its lists and runs none of them: that they should mean the same is the
modellers' reading of the names `@newScopeFrom`, `@lookupScope`, `@insertScope`,
`@updateScope`.

**ParseExpr, EvalExpr.** The parser is a step. A position of 0 is an exit, and passes through
every caller. `ExprLanguage` derives the tree by cutting at the operator that binds least.
The evaluator is another step: `eval_expr`, `eval_expr_call` and `eval_expr_intrinsic` are
recursive operators of the same names, which carry the tables and a count `d` of the
calls that still fit the processor's stack. Reading the tag of no expression, which an
assignment returns, is `"crash"`. `ExprLanguage` evaluates the same trees too, with scopes that
are paths and arguments that are computed in the scope of the call. Overflow of 64-bit
numbers is not modelled.

**Postfix.** A fold of one function over the characters, with the counter, the stack
and the buffer as its record.

**Runtime.** Each function is a step. `Environment` gives each scope one value per name;
the mapping reads it off the lists as a lookup would.

**HttpServer.** A call of the kernel is a step, and each may fail as its manual says. A
client is named by the round that serves it, and each character of the buffer remembers
whose it is, so that a stale one shows. A request is a text of letters and blanks; that
its words fit `method`, `uri` and `version`, which `sscanf` does not check, and that it is
shorter than the buffer, are preconditions. `Words` is a function of the position in the text. `write` to a client that has gone may also end
the process by a signal.

**BFS.** A cell taken off the queue, a call of `bfs_push` and a cell of the way back are a
step each. `depth` is a history variable.

**SpatialHash, KDTree, Lines.** Coordinates are integers, on which the programs' arithmetic is exact: nothing
is said about rounding. Entering a cube in a cell, looking through a
cell, and setting a pixel are steps; building the tree, and a query of it, are one each.

**Sorting, Levenshtein.** A call of a sort or of `distance` is a step, and so is an iteration of `binary_search`. The calls of a sort that calls
itself are a function of their arguments and of a bound on the levels below them (`Calls`), which no part reaches. Array accesses outside the array are
recorded (`inside`), and what `malloc` leaves in the one element that is read before it
is written is a choice from `Garbage`.

## 3. What TLC checks

Eight runs pass and explore their state spaces completely. Bounds are in the `.cfg`
files; deadlock is not checked because every program may come to its end.

| run | states | properties |
|---|---|---|
| `copying_gc` | 556,476 | `CollectionSafe`: a collection never follows an address that is no block, copying never runs out of room, and blocks tile the half, so the scan never lands inside one; only a word nobody wrote, in a reachable block, can hurt it. `ExhaustionIsReal`: `alloc` gives up only when live data leaves no room. `Precise`: exactly what is reachable survives. `Terminates`. `Invisible`: refines `ObjectHeap`. |
| `parallel_blocks` | 58,893 | `NoRace`: no two workers are about to store to one element. `Printed`: each element has its block's number when `main` prints. `WrittenOnce`: a number stored stays. `Finishes`. |
| `system_calls` | 4,960 | `OnlySpuriousHurts`: the assertion on `trylock` fails, and a destroyed condition is signalled, only after a spurious wakeup. `SignalIsHeard`: a child that has not signalled when `main` sleeps wakes it. `DescriptorsAccounted`: the server's open descriptors are its own, the client's it serves, and one for each client whose read or write failed. `OwnWords`: what it prints for a client is that client's, but for a word that its request was cut off in and those behind. |
| `ref_counter` | 35,835 | `CountsCover`: a reachable block is alive, its count is at least its references, and small enough that a `u8` does not wrap. `NeverReused`. `CyclesReclaimed`: when `pop_root` returns, `alloc_block`'s test holds of exactly the blocks that the remaining roots do not reach. |
| `btree` | 32,145 | `WellFormed`: balanced, nothing stays full or is left empty, and the leaves are chained in order. `IsDictionary`: refines `Dictionary`. |
| `rope` | 1,046,882 | `WellFormed`: every slot is in the rope or free, once; weights are lengths and `ping` finds the character; `balance` flattens. `IsText`: refines `Text`, each call its own edit, and a call ends the program exactly if it is an insertion whose result does not fit. |
| `structures` | 461,335 | `Ordered`: the heap's order between calls. `IsQueue`: refines `PriorityQueue` through every swap. `FifoIsQueue`: refines `Queue`. `Shortest`: the path of `bfs` is a shortest one. `WithinArrays`: neither queue nor path outgrows its array. `SortedRight`: three sorts. `SearchedRight`: `binary_search` finds what is there, and where it leaves the array. `DistanceRight`: the edit distance, and how wrong it may be. `QueryRight`: which cubes a query returns. `FoundWithinRadius`. `LineDrawn`: near the ideal line, without repeating a pixel, to its end. `IsEnvironment`: refines `Environment`. |
| `languages` | 286,241 | `CompiledRight`: `compile` refuses what is no regex and its program has the language of the others. `ThreadsRight`: at each position exactly the lines reachable, once each, none lost to a flag that was left over. `SearchRight`: which slice `search` returns, and that it exits only for too many different threads. `NFARight`: `regex.c`'s answers, and when it exits. `PostfixRight`: `get_postfix` keeps the language. `LiftedRight`: `lambda_lift.c`'s lists mean what they meant, and end flat. `ParsedRight`: the parser builds the grammar's tree or exits. `EvaluatedRight`: the evaluator returns what the program means. |

`WellFormed`, `CollectionSafe`, `CountsCover` and `LiftedRight` are conjunctions of named or commented parts.
There are two `TypeOK`, of `ParallelBlocks` and `BinaryHeap`, which are proved (section 5);
elsewhere a wrong type makes an action or a property fail.

Each property has a mutant: a fault in the model that breaks it under the same bounds.

**Why the bounds are enough.**
*copying_gc*: five words per half hold two blocks and a rest, so there are collections with
sharing, a cycle, garbage before and after live blocks, and every size that just fits
or does not; two locals and a stack of two overflow and underflow it.
*parallel_blocks*: 5 by 5 with N = 2 gives three by three blocks, the last of each row and
column cut to one; three workers, and a counter whose modulus is just what
`WidthAssumption` needs.
*ref_counter*: five words in the heap, two slots per block: self-references, cycles of two,
shared children, a reused block with a shorter array; the count wraps at 5.
*btree*: eight keys in every order reach height three and every split of a leaf (2) and a
block (3), left, right and at the root.
*rope*: a pool of eight nodes holds four characters and has a node to spare, as that of 64 has one: an insertion that does not fit may run out
in `new_` or in `insert`. Positions before, inside, at the end of and past the text, and a range of 127. Four leaves are the fewest of which an edit can
make a tree that `balance` must flatten.
*structures*: six nodes are the fewest with which `drop` must move a node up; four
addresses reach all branches of `push` and `pop` and reuse of addresses. All 512 maps of three by
three, from a corner, a side and the middle, have detours of six steps and ends that
are walled off. All arrays of up to five numbers, with repeats, and increasing ones of six
reach every branch of the sorts and searches. Texts of four letters over three have distances
above the length of the shorter. Three cubes in six cells, some flat, some on the border, share cells, and
do not all fit five list elements. Four points, of which some
share a coordinate, in all arrays of up to five. Lines in all directions in nine by eight pixels. Three scopes,
nested or side by side, with two insertions: in one scope, in an inner and an outer one, in either order.
*system_calls*: three descriptors besides the standard ones, so that after two failures `accept` fails for want of
one; four rounds of requests that are empty, short, complete, longer and cut off in a word.
*languages*: all texts of up to four symbols contain each pair of operators in each
order; longer ones are added for nested parentheses and for the tables' limits. Strings
of up to three characters tell such regexes apart. Lists of up to three expressions with
functions three deep show capture, shadowing, update of an outer variable and a
closure that outlives its scope; `lambda_lift.c`'s tables have their own sizes, and
several lists do not fit. Token sequences of up to four are complete, those of six and
seven are over few tokens, for precedences and for parentheses. Some seven thousand programs
define two variables and a function and use it twice, so that scopes outlive calls, and names
are updated from inside functions. Infix regexes are complete up to four characters too,
and up to seven over few.

**Fairness.** `CopyingGC`: weak fairness of the collector, which is a loop that runs
without waiting for anyone. `ParallelBlocks`: weak fairness of `main` and of each
worker: they are kernel threads, always runnable (or, in a join, enabled once the other is
done), and the scheduler runs each. `PthreadConditions`: weak fairness of both threads' calls,
none for the spurious wakeup, which nothing promises. `HttpServer` has none: a client
may keep it waiting for ever. No other run has a liveness property.

## 4. What disagrees

Four runs end in a violation, by what the code does; each refutes what its own text says.

* `pthread_trylock` — `assert(pthread_mutex_trylock(&mutex) == EBUSY)` (line 51) fails
  when a spurious wakeup lets `main` go on before the child has run: the child then
  unlocks `main`'s mutex.
* `pthread_wait_ends` — the child may signal before `main` waits, which then never
  prints "Parent done".
* `rope_any_order` — `delete_` tests for `j < i` and swaps, as `new_` does, but computes
  the length from the wrong variable and follows NULL.
* `regex_next` — the note at `regex.c:341-345` that it is safe to follow `next` to the end
  does not hold for an alternative whose second branch may be empty: `ab|a?`-like
  expressions miss a match (`aba?|.` in postfix does not match `a`).

Observed, and described by no text, so not violations of anything but worth knowing:
`regex.c` exhausts its stack and exits on the empty string for `a**`
(`NFARight` says exactly when); `merge_lists` exits the program for a list that has no
function at all (line 300); `parse_expr.c` reads the parenthesis after an argument before
it tests the binding, so `f x (y)` exits and `(f x (y)` is accepted as `f x y`
(`ParsedRight` says exactly which parentheses are lost); `alloc_block` in `ref_counter.c` refuses
when the table is full although blocks in it could be reused; `parse_expr.c` evaluates an argument in the scope of
the function it is passed to, so that `f x` for `f = \x -> ...` looks `x` up in itself
(`EvaluatedRight` is about programs where no such name is captured); `levenshtein.c` reads
`buffer[m]`, which `malloc` did not fill, and may return too small a distance for two
texts whose distance exceeds the length of the shorter (`DistanceRight`; the calls in its `main`
are not of this kind); `binary_search.c` leaves the array for a target below its first or above its last
element (`SearchedRight`; its `main` searches for elements only); `http_server.c` loses a
descriptor for each read or write that fails, prints old words behind a request that
is cut off, and prints uninitialized arrays if the first request has fewer than three words;
`postfix.c` turns a regex that ends in a bar into a text that `regex.c` refuses.

## 5. What is proved

`ParallelBlocksProofs` proves, for every buffer, block size and number of threads:

| theorem | statement |
|---|---|
| `Invariant` | `Spec => []IInv` |
| `TypeCorrect` | `Spec => []TypeOK`: no index leaves its table, no worker leaves the buffer |
| `RaceFree` | `Spec => []NoRace` |
| `PrintedRight` | `Spec => []Printed` |
| `NeverOverwritten` | `Spec => WrittenOnce` |

*Assumptions.* `SizeAssumption`: the buffer is at least N wide and high, N and the number
of threads are positive. `WidthAssumption`: the blocks and one claim more per thread fit
the counter; `main` refuses more than 512 blocks and the counter is a `u16`.

*The argument.* `NoRace` is not inductive: that two workers are apart now says nothing about the next
claim. `IInv` adds what the program relies on. `LoopInv` says where `main`'s loops are;
`BlocksInv` that the blocks built are not empty, lie in the buffer and are pairwise apart,
and `FrontierInv` and `CoverInv` that they cover what the loops have passed: together they
need the arithmetic of `SideGeometry` (the last block of a side starts inside it, and
ends with it). `CounterInv` and `ClaimInv` say that a number below `INDEX` was claimed by
one worker, and `CounterFits` that the counter has not wrapped while anybody works.
`JoinInv` says that the joined are done, and `FillInv` that the elements before a worker's
position, and all elements of finished blocks, hold their number. `Write` disturbs only
`FillInv`, `Fetch` only the claims, `Build` only the geometry; there is a lemma for each
action. `NoRace` follows since two claimed blocks differ and are apart, `Printed` since at
the last join the counter is past every block. TLC has checked `IInv` under the bounds of the run.

`CopyingGCProofs` proves, for every size of the halves, of the stack, of the requests and of the literals:

| theorem | statement |
|---|---|
| `CollectionIsSafe` | `Spec => []CollectionSafe` |
| `OnlyRealExhaustion` | `Spec => []ExhaustionIsReal` |
| `CollectionIsPrecise` | `Spec => Precise` |
| `CollectionIsInvisible` | `Spec => Invisible`: `CopyingGC` implements `ObjectHeap` |

*Assumptions.* `CapAssumption`, `SizesAssumption`, `LiteralsAssumption`: sizes are positive, literals numbers.
`NilAssumption`: no address is `Nil`.

*The argument.* `CollectionSafe` looks at one half and is not inductive: that a copy fits depends on what has not been
copied yet. `IInv` describes both halves. `Shaped`: a block ends in its half, and behind its header is data. `Covered`:
blocks lie side by side up to the length in use. `SettledInv`: between collections nothing points to the other half. During one,
`RootsInv` and `CopiesInv` divide locals and words at the place that the loop has reached (`ScanInv`): those before
it point to copies, those behind it to originals. `OriginalsInv`: an original that was moved points to a copy of its
size, one that was not is untouched. `RoomInv`: the copies take as many words as the originals that were moved, a cardinality, so that
with one more original they still fit the half (`exit_copy` in `EndInv` is never reached). `HeldInv`: each copy is the target
of a registered local or of a scanned word at a lower address; so at the end of the scan every block is
reachable, by induction along the addresses. The other inclusion, that what is reachable is in the half, and that
`Reachable`, a recursive function, is what it says (`IterationExists`), are inductions on a set of numbers.
`CollectionIsPrecise` follows at the step that ends a collection, and with it `OnlyRealExhaustion`: the length in use is
then the size of what is reachable.

For the refinement, `NamesInv` says of the auxiliary names that each block has one, and only a block that was moved shares it, with its copy.
Objects are what the names make of memory, so they are the same graph before and after a move:
copying a block and overwriting a pointer by that to a copy stutter (`MovesName`, `CopyRootView`, `ScanWordView`),
and the end of a collection drops only objects that no local reaches, which the client's view, `LiveHeap`, does not have
(`ScanDoneView`). What the mapping and `ObjectHeap` call reachable are two recursive functions on
two graphs, of objects and of addresses; both are the least closed set (`LiveReached`, `HeapReached`), and for any closed set
on which the heap of `ObjectHeap` agrees with memory, they leave the same live objects (`SettleIs`). That the client's stores and loads, and
the block that an allocation writes when its collection is over, are the steps of `ObjectHeap` follows from it (`WriteView`,
`LoadView`, `PlaceView`). A new block has an identity to take, because blocks take two words and there are as many
identities as pairs of words (`FreshIsFree`).

`RefCounterProofs` proves, for every heap, table, width of a count and client:

| theorem | statement |
|---|---|
| `Invariant` | `Spec => []IInv` |
| `CountsAreCovered` | `Spec => []CountsCover` |
| `LiveIsNeverReused` | `Spec => NeverReused` |
| `CyclesAreReclaimed` | `Spec => CyclesReclaimed` |

*Assumptions.* `CapAssumption`: the sizes are positive, and the heap has no more words than a count has values.
`LensAssumption`: the client asks for a word at least. `NilAssumption`: no block is `Nil`.

*The argument.* `CountsCover` is about reachable blocks, but a block that is not reachable keeps its references until it is
freed or swept, and one that is reused forgets its children without freeing them. So `IInv` has two bounds. From below, `Covered`: the roots and
the slots of all blocks *with parents*, reachable or not, are no more than the count; while `free_block` runs, the list of
blocks still to be freed counts as well (`FreeCovers`: each iteration moves references from slots to that list, or lowers a count).
From above, `Owners`: there is a function from words of the heap to blocks which agrees with every slot, and the words
and roots of a block are no fewer than its count. A word of an array that is no longer used keeps its block for ever,
so the function exists but cannot be computed from the state; as it owns at most one block per word, no count exceeds
the heap, and none wraps. `Layout` keeps arrays apart and says that no block is its own child, which `insert_child_at` refuses. What is reachable
has parents (`ReachableHasParents`): what `ReachIn` computes in `CAP_BLOCKS` rounds is the least set that contains the roots and
their children's children, since each round that does not close it adds a block (`ReachIsLeast`). `alloc_block` takes a block
without parents or one not alive, so none that is reachable: `NeverReused`. While roots are marked, `Marking` says that there are blocks `bs` of
which all this holds, and which differ from those of the state in their flags only; that what is marked, or waits for a call of `mark`, is reached by the
roots; and that each root, and each child of a marked block, is marked or waits. A call of `mark` keeps that (`MarkStep`): it turns back at a block that is marked already, or marks one
and puts its children before the other calls. When no call is left the marked blocks are a closed set that contains the roots, hence
all that is reached, as that is the least (`SweepStep`). The last loop takes the parents of the others, so that `alloc_block`'s test holds of
them; a reached block has parents and is alive, so that it fails: `CyclesReclaimed`.

`BTreeProofs` proves, for all sizes of leaves, blocks and pools, and every set of keys:

| theorem | statement |
|---|---|
| `TreeIsSound` | `Spec => []TreeInv` |
| `TreeIsWellFormed` | `Spec => []WellFormed`: balanced, nothing full and nothing empty, leaves chained in order |
| `TreeIsDictionary` | `Spec => IsDictionary`: through `lookup_block` the tree implements `Dictionary` |

*Assumptions.* `CapAssumption`: what the source asserts, a leaf holds two entries at least and a block three
separators, and the pools are not empty. `KeysAssumption`: keys are of 32 bits.

*The argument.* `WellFormed` looks at leaves and separators and does not say which keys belong where. `TreeInv` gives each leaf and
block a height and a range of keys (`Shape`). Nodes of one height have disjoint ranges (`Ordered`). A block's range
falls to its children between its separators, and their heights are one less (`IsBlock`). A leaf has ascending keys of its own range, and
its `next` has the next range (`IsLeaf`). The root's range is all keys and nothing is higher (`Rooted`). The ranges make the tree one: two blocks
cannot have the same child. A split cuts one range in two and leaves all others
(`IsSplit`), so that a lemma for each kind of split need only look at the split node, its sibling and their parent. `insert_block` searches
the place of a new block by the key it was split at, which finds the old one's place again, as that key lies in the old one's range. A root that is split is treated as the only child of a new
root without separators (`Stub`), which makes it a split like any other.
An insertion is shown `Good` by induction on the levels of the recursion: below block b it adds
the key to the contents, changes no block as high as b but b, keeps their ranges, and leaves at most b full (`Done`, `Keeps`).
When it returns, the caller splits b if it is full, so that nothing stays full. So no test for a full leaf or block ever exits, while the pools may run out and the key may
be there already: those exits change nothing.
The functions that are recursive over `Calls` are shown to exist first, level by level, and to have one value at every call (`Puts`,
`Lookups`, `Deep`, `Rows`).
From the shape the parts of `WellFormed` follow: `Balanced`, since the depths below a block of height h are {h}; `Occupied`; and `ChainInOrder`,
since the leaves below a block cut its range from left to right (`Spans`), those below the root all keys, and every leaf is among them.
For `IsDictionary`, the leaf that `lookup_block` arrives at is the one in whose range the key lies (`LeafInRange`),
and no other leaf can have it (`KeyInLeaf`): what is found is the contents (`FoundKeys`).

`BFSProofs` proves, for every map, every start and every end:

| theorem | statement |
|---|---|
| `Invariant` | `Spec => []IInv` |
| `ShortestPath` | `Spec => []ShortestWalk`: what `bfs` returns is a walk, and no walk to the end has fewer cells; 0 only if there is none |
| `PathIsShortest` | `Spec => []Shortest`: the same, said with the recursive function `Within` |
| `ArraysSuffice` | `Spec => []WithinArrays`: no cell is in the queue, or on the path, twice |

*Assumptions.* `SizeAssumption`: the map has a cell. `ClientAssumption`: walls and the start lie on the map.

*The argument.* `ShortestWalk` says with walks what `Shortest` says with the
recursive function `Within`: the ends of walks of n steps solve that function's equation, so it has a solution, and
by induction on n no other (`WithinIsEnds`). `IInv` has the history variable `depth`. `QueueInv`:
the queue holds the visited cells, each once. `Tree`: a visited cell has a visited neighbour as its
parent, whose depth is one less. `Layers`: depths do not fall along the queue, and none is
more than one above that of the cell at the front. `Expanded`: the neighbours of all cells before
the front are visited, with depths at most one more. `WayBack`: the cells of the path
descend from the end. `Take`, `bfs_push` and `Walk` disturb them in turn, with a lemma each;
`PushedSides` is about the four neighbours. On a walk from the start the cell at position k, if the
walk stays among expanded cells, has a depth below k (`WalkIsSeen`, by the least position where it fails,
`LeastNumber`): so no walk is shorter than the depth of the end, which is the length of the path.
TLC has checked this `IInv` under the bounds of the run.

`StructuresProofs` proves of the instances that the run `structures` checks, for every value of their constants:

| theorem | statement |
|---|---|
| `HeapInArray` | `Spec => []TypeOK` of `BinaryHeap`: no loop and no operation leaves the array |
| `HeapOrdered` | `Spec => []Ordered`: `check(heap, 0)` after every operation |
| `HeapIsQueue` | `Spec => IsQueue`: the heap implements `PriorityQueue` |
| `ListIsLinked` | `Fifo!Spec => []Fifo!Shape`: `last` is the end of the list, which holds every allocated node once |
| `ListIsQueue` | `Fifo!Spec => FifoIsQueue`: the list implements `Queue` |
| `ScopesAreEnvironment` | `Runtime!Spec => IsEnvironment`: the scopes implement `Environment` |
| `SearchIsShortest`, `SearchStaysWithin` | the last two theorems of `BFSProofs`, of the instance in `Structures` |
| `LinesAreDrawn` | `Lines!Spec => []LineDrawn` |
| `SortsAreRight` | `Sorting!Spec => []SortedRight`: `quicksort`, `merge_sort` and `insertion_sort` sort every array |
| `SearchIsRight` | `Sorting!Spec => []SearchedRight`: `binary_search` is right between the first element and the last |

*Assumptions.* Those of `BFS`; `MaskAssumption`: the bitmap has a width and a height. `CapAssumption` of the heap: with more than 127
nodes the `u8` positions of children would wrap around (the source has 16). `NodeAssumption`: priorities are numbers, and the
zero node that `calloc` leaves is a node. `AddressAssumption`: there are finitely many addresses, and NULL is none.
`ScopeAssumption`: the arrays of scopes and of lists have a length, and `None` is no value.
`ArraysAssumption`: arrays hold numbers, and their length is at most half the last `size_t`, as elements have four bytes. Lengths are
taken to fit the types that hold them, which `MergeSort` says of its `u8`.

*The argument for the heap.* `Ordered` says nothing while a loop runs. `HeapInv` adds `OrderInv`: in
`balance_up` every node but the one at `i` is in order with its parent (`UpOrder`), in
`balance_down` every node but the children of `i` (`DownOrder`), and in both the children
of `i` are in order with the parent of `i` (`Skips`), without which a swap could break
the order below. When `drop` removes the last node it starts `balance_up` one position
behind the heap, so `UpOrder` also covers that position: nothing is swapped there.
`FirstIsHolder` gives the node where the loop of
`drop` stops, `DropOrder` shows that comparing the old and the new priority chooses the right
direction, `SmallestFacts` that `balance_down` goes to a child that may be above the other.
TLC has checked this invariant too under the bounds of the run.
For the refinement, `Bag` counts the places of each node. The swaps of the loops are stuttering steps
(`BagSwaps`: they are bijections of positions, so that no count changes); `insert` adds one place (`BagGrows`);
`pop` and `drop` take away one (`BagShrinks`), also when the last node fills the hole. That `pop` takes
a node of least priority is `RootIsLeast`: an ordered heap has no first position whose node is smaller than
the root's.

*The argument for the list.* `Linked`: the nodes are those of a sequence of addresses without repetition, each linked to
the next, and `last` is NULL for fewer than two. The sequence is not part of the state; `ChainIs` shows that following `next` from `first` yields it, so
that the state determines it. `push` appends an address to it, in each of its three branches, or changes nothing when `malloc`
fails; `pop` takes its first, and resets `last` when one node remains; `destroy` empties it.

*The argument for the scopes.* `Belongs`: lists and scopes lead to older ones only, and every list entry belongs to one scope. `FindIs` says
what a lookup finds: the first entry for the name in the nearest scope around that has one. An insertion puts an entry before those of its own
scope, so it changes what is bound to one name in one scope and what the scopes inside it see, and no more; an update
changes the value of the entry that the lookup finds, which is the one in the nearest scope. `Around` of `Environment`,
computed in rounds, is the chain of parents that the loop walks (`OuterExists`, `NearestIs`).

*The argument for lines.* In each of eight directions one coordinate moves with every pixel. `LineInv` turns them all into one
case: `Gone` and `Aside` are the pixel's distances from the start in the longer and the shorter direction,
`Fault` the error with the sign of that direction. `OnLine` says that
`Fault = Long \div 2 - Gone * Short + Aside * Long` and lies in `0 .. Long - 1`, which is that the
pixel is within half a one of the ideal line, and that the loop ends at its end and not beside it: there `Gone` is `Long`,
and only `Aside = Short` keeps the error in its range. `Behind`: there is one pixel set for each step taken. What
is multiplied is no constant, so the few facts on products (`Products`) are a lemma.

*The argument for the sorts.* `Moved` says that an array is another one rearranged between two positions, by a bijection of
positions that moves nothing else. It holds of a swap (`MovedSwap`), is kept by one rearrangement after another (`MovedOn`),
leaves what is outside alone and what is inside inside (`MovedWithin`), and keeps the number of places of each element (`MovedOccurs`).
For `partition`, `Scanned` is the invariant of its loop, with the elements that do not exceed the pivot up to `i` and the larger ones behind;
`PartsJoin` puts a sorted left part, the pivot and a sorted right part together. For `merge_sort`, `Merged` is the invariant of the merge:
what it has written are the elements it has taken from the two halves, in order, and none of those still to come is smaller.
For `insertion_sort`, `Stopped` is where the inner loop ends. A call needs no more levels than its part has elements, so that
`SortsRight` and `MergeSortsRight` are inductions on levels. That the recursive functions exist at all (`SortsExist`, `MergeSortsExist`)
is one too, and needs that every call returns an array of the same elements even when its levels do not suffice.

*The argument for the search.* `Narrowed`: what is left of `l` is too small and what is right of `r` too large, but `r` may
also be the length, where it starts, or the last `size_t`, where `i - 1` takes it when the first element is too large. In the first case the
loop leaves the array if everything in it is too small, in the second at once; in between it does not.

`SystemCallsProofs` proves, for any number of descriptors, rounds and requests:

| theorem | statement |
|---|---|
| `SignalledMainIsSafe` | `Spec => []OnlySpuriousHurts`, in every order of the threads' calls |
| `ServerAccounts` | `Server!Spec => []Server!Accounted` |
| `EveryDescriptorIsAccounted` | `MCSpec => []DescriptorsAccounted`, the same of the run's specification |
| `LoggedWordsAreOwn` | `MCSpec => []OwnWords`: what is printed for a client is its own, up to a word that was cut off |

*Assumptions.* `OpenMaxAssumption`: the limit on descriptors is a number. `RequestsAssumption`: a request is a text of letters and blanks.

*The argument.* `ThreadInv` says where the two threads may be when `main` has been woken, by what: after the child's
signal the mutex is locked until `main` unlocks it, since the child's unlock comes before its signal. `FilesInv`: each
client owed a descriptor has one, no two share one, and a client that failed was served in an earlier round, so that
the kernel's lowest free descriptor (`LowestIsFree`) goes to a new one. `WordsInv`: until the words are printed, the buffer begins with
what was read last. `sscanf` reads on into what older clients left behind it. Splitting a text goes character by character, so
two texts with the same beginning have the same words up to there (`SameBeginning`), and of these all but one that
is still being spelt stay as they are, whatever follows (`SettledStays`); so those of a request that came whole are in what is printed (`WholeIsSettled`).

`NumberLemmas` has what these proofs share: a set of numbers has a least (`LeastNumber`), induction where what is shown
is membership in a *set* (`SetInduction`, `NatSetInduction`), since the rules of the library take an operator, which no
prover here can instantiate; that the equation of an iteration has a solution (`IterationExists`), and one that takes its value at a smaller number too (`DownwardExists`).

## 6. What is only model-checked, and why

Liveness under fairness (`Terminates`, `Finishes`, `SignalIsHeard`) is beyond the prover.
So are the modules with recursive operators, with which the prover loses its arithmetic: `Rope`,
the regular expressions, `Postfix` (which uses `Regex`), `LambdaLift`, `ParseExpr`, `EvalExpr`, `Levenshtein`,
`SpatialHash` and `KDTree` follow recursive C functions and recursive data. Where a definition is a function that
is recursive in a number (`Within`, `Reachable`, `ReachIn`, `Free`, the calls of `BTree` and of the sorts), induction is done through sets of numbers,
as above; over trees, texts and lists it is not.

Of the refinements only `IsText` of `Rope` is not proved: `_split` and `balance` rebuild a tree of pool slots whose depth nothing bounds but the
pool, and `Text` is compared with it through a recursive operator. In the runs `copying_gc`, `parallel_blocks`, `system_calls`, `ref_counter` and
`btree` every safety and action property is proved; in `structures` those of the heap, the list, the scopes, `bfs`, `set_line`, the sorts and the search; none in `rope` and `languages`.
That `Free` ends before its bound is not a theorem by itself; what is proved of it holds of as many iterations as it has.

Abstracted everywhere: the printers, `sizeof` tables, `mmap` and alignment, string
contents. Exits are kept, but for those after a `malloc` or `calloc` of a program's one memory at its start, and a few
`EXIT_IF`s that cannot be reached because an earlier test or the construction of a table excludes them; `malloc` may fail in `push` of `fifo.c`.

## 7. The plan

More proofs:
1. `Rope` written like `BTree`, its recursion a function of calls with a bound on the levels: then every slot is in the rope or
   free, once, and `IsText` can be proved by the same induction.
2. `RefCounterProofs`: the list of `free_block` is empty at its bound: with every step the words behind it decrease.
3. `SpatialHash` without recursion: that a query misses no cube; and `KDTree` over what is proved of `Quicksort`.

More of the system:
1. `Lists`: the list programs as refinements of sequences, in `MCStructures`.
2. `alloc_linear.c`, and `base64.c` against its definition by bits.
3. The remaining tokenizers and parsers; `cps.c` and its relatives.

Runs are shared where programs do not interact, as `MCStructures` and `MCLanguages` do;
shallow properties give way to deeper ones.

# simple-useful: models and proofs

`simple-useful` is a collection of programs. Two of them keep state that is hard
to get right, and they are the core of this project; around them it has the small
programs in which something can go wrong that a test would hardly reach.

* **Tao** (`src/tao/src`), an interpreter for an object-oriented scripting
  language. Its values are counted references, and a garbage collector by
  trial deletion (`taoRecycler.cpp`) frees cycles.
* the **event loop** of hostapd (`src/hostapd/eloop.c`): sockets, timeouts and
  signals, served by one thread that signals interrupt anywhere.

Line numbers below are those of the repository's files. `PROJECT.json` maps every
definition to the lines it stands for.

## 1. Inventory

### 1.1 Tao

| Component | State | Operations | Interacts with |
|---|---|---|---|
| Heap (`taoDatatype`, `taoUtility.h`) | pointers between values, `refCount`, `scanned` of each `TaoBase` | assign, append, insert, replace, erase, clear, sub-index, `tryAllocate` | every pointer that is given up goes to `pushRootCandidate` |
| Collector (`taoRecycler`) | `rootCandidates`, `objAlive`, `nObjWithZeroRC`, `nObjNewed` | `tryInvoke`, `recycleGarbage` (scan, mark, delete), `TaoGcAgent` | reads and writes the counts of the heap; destructors call back into it |
| Instances (`taoObject`, `taoClass`) | data members, super-object | `new`, `scan_member_data` | the collector visits them through `scan_member_data` |
| Statements (`taoPhrase`) | jump indices, `refElement` of a foreach | `execute` of assignment, if, while, for, foreach, return, yield | evaluate expressions, store into the heap |
| Expressions (`taoArith`, `taoEnumer`, `taoChain`) | temporaries in the syntax tree | `compute`, `getResult` | temporaries are slots of the heap; chains call routines |
| Routines and calls (`taoRoutine`, `taoFuncall`) | `numCalled`, `dataStack`, `idResume`, `paramPassed`, the variables, all of them shared by the activations | `run`, `passParam`, `execute` | `run` executes the phrases and calls `tryInvoke` after each |
| Parser (`taoModule`, `taoLexer`) | the vector of phrases with its jump targets, the syntax trees | `parsePhrase`, `setupLogicLoop`, `makeArithTree` | leaves the tables that `run` and `compute` walk |
| Numeric arrays (`taoNumeric`) | dimensions, the flat vector, the subindex, `idMapped`, `subArray` | subindex, assign, `transpose`, `reshape` | temporaries by `tryAllocate`, held by variables |
| Regular expressions (`taoRegex`) | the unit, the direction, repeats and shift | `search`, `match`, `match_min`, `match_repeat` | - |
| Lexer, classes, XML, plug-ins | tables and texts | see `PROJECT.json` | fill the tables above |

Tao is sequential. Its hard behaviour is in long sequences of legal operations
with a collection somewhere in between: a count that is off by one frees a live
object many statements later. The collector changes the meaning of two fields
while it runs (a count becomes "references from outside the candidates",
`scanned` becomes "known to be live"), walks a list that it appends to, and
deletes objects whose destructors call the collector again. The interpreter
re-enters itself: a right-hand side, or an argument, may run a routine and with
it a collection, while the C++ frames above hold plain pointers. And a routine is
one object: recursion, yields and failures share its variables, its loops' flags
and its counters, and the text is executed by jump targets that several passes of
the parser have patched.

What makes it correct: nothing reachable is deleted; no deleted object is
touched; counts are exact between collections; the candidate list and the flags
agree; everything unreachable is deleted by a collection; a collection ends; an
activation finds its own arguments and loop variables; saved data and counters
match the calls in progress; statements are executed in the order of the blocks.

### 1.2 Event loop

| Component | State | Operations | Interacts with |
|---|---|---|---|
| Timeouts | the sorted list `eloop.timeout` | register, cancel, cancel one, deplete, replenish, is registered, expiry | the loop sleeps until the first one is due |
| Socket tables | `readers`, `writers`, `exceptions`, their `changed`, `max_sock` | register, unregister, set descriptor sets, dispatch | callbacks change the tables that are being dispatched |
| Signals | `signals`, `signaled`, `pending_terminate`, the alarm | register, `eloop_handle_signal`, `eloop_process_pending_signals` | the handler runs between any two steps of the thread |
| Loop | `terminate`, `rfds`, `wfds`, `efds` | `eloop_run`, `eloop_terminate`, `eloop_init`, `eloop_destroy` | all of the above |

Hard here: signals between any two steps, with two flags and an array shared
without a lock; callbacks that change the tables and the list under the loop
that walks them; descriptor sets that are stale after the first callback; an
alarm that races with the processing of the signal that set it; one timeout per
turn, and one change per table and turn, with new ones coming in.

What makes it correct: no signal is forgotten; a callback is called for an event
of its own registration; timeouts go off in time, in order, and at last; a ready
socket is served once the callbacks leave its table alone; `eloop_terminate` ends the loop; the
alarm kills only a loop that is busy.

### 1.3 The other programs

They are small and independent of each other.

| Program | State | Hard |
|---|---|---|
| Producer and consumer (`cond.c`) | a list, a mutex, a condition; two threads | every interleaving, spurious wakeups, cancellation with the mutex held, reused addresses |
| Heap sort (`hsort.c`) | the array, the heap's length, the parent | unsigned wrap at one element, the last parent with one child |
| Compiler and interpreters (`compiler/lex_yacc/calc3`, `compiler/expr/sim.c`) | a tree, the labels used; a token pointer and the variables | three ways to run one language: by its tree, by compiled code, by going to and fro in the tokens |
| Calculators (`compiler/expr`) | two stacks; a token pointer | the same language read in three ways, with the parser of Tao |

The rest - coroutines on `setjmp` (`setjmp/`), clients and servers on boost::asio
and libevent (`asio/`, `ev/`), a Brainfuck machine (`brainfuck/gbf.c`), CSV tables
(`csvtable/`), a callback library (`callback/`), a drum sequencer (`vdrum/`),
Python servers and framework exercises, and many experiments of a few statements
with languages and system calls - is not modelled; section 8 says why.

## 2. Plan

Done, in this order:

1. `TaoHeap`, the heap as the program sees it, and `TaoHeapProofs`.
2. `TaoRecycler`, the heap operations and the collector as the code has them;
   it implements `TaoHeap`. `TaoRecyclerProofs` proves it safe for arrays and instances,
   that it keeps the contract of `TaoHeap` and, for arrays, that it leaves no garbage.
3. `Timers`, what a timer service promises; `EloopTimers`, the list of eloop.c,
   implements it. `EloopTimersProofs`.
4. `Eloop`, the whole loop, which has `EloopTimers` as a part. `EloopProofs`.
5. `TaoPhrases`, `TaoRoutine`: the jump targets and the activations of a routine;
   the outermost activation implements `Blocks`. `TaoRoutineProofs`.
6. The small programs: `Calculators` (with the parser of Tao), `TaoRegex`,
   `TaoNumArray` (implements `Matrices`) with `TaoNumArrayProofs`, `ProducerConsumer`
   (implements `Pool`) with `ProducerConsumerProofs`, `HeapSort`, `Calc3` (with `Calc3Tree` and `Sim`).
   `SmallPrograms` puts side by side those without recursive operators, and
   `SmallProgramsProofs` has the proofs about heap sort and `TaoRegex`.
7. The composition of `Eloop` with its timeouts, proved in `EloopProofs`.

Left, by weight: the temporaries of a recursive call, which are both slots of
`TaoRecycler` and expressions of `TaoRoutine`; the groups of a regular expression.

## 3. The modules and the code

### 3.1 `TaoHeap` - the heap as a program sees it

State: the pointer in every *slot* (`ptr`), the allocated objects (`alive`) and
their kinds. A slot is a place in which the code keeps a counted pointer: a root
(variable, temporary of the syntax tree, entry of a `TaoGcAgent`) or a place in
an object (element, sub-array, data member, super-object). Two actions: `Mutate`
writes to slots what the program can reach or has just allocated, and `Collect`
deletes objects that cannot be reached. This is what a programmer of Tao relies
on; counts, candidates and flags are not visible.

### 3.2 `TaoRecycler` - heap operations and collector

| Action or operator | Code |
|---|---|
| `Assign` | `TaoAssign::assign`, the loop variable of a foreach |
| `Insert`, `Replace`, `HashReplace`, `Erase` | `TaoArray::append`, `insert`, `replace`, `erase`, `clear`; `TaoHash::insert`, `clear` |
| `Reuse`, `Renew` | `TaoTryAllocator::tryAllocate` and the `clear()` that follows it; on a temporary, or on `subArray`/`subHash` |
| `NewObject`, `ClearNewObjects` | creation of an instance, `TaoGcAgent` |
| `EvalLeft`, `StoreLeft` | the two halves of `TaoAssign::execute` around its right-hand side |
| `PushRootCandidates`, `Enqueue` | `pushRootCandidate`, `pushRootZeroRc` |
| `TryInvoke` | `tryInvoke` with its three thresholds |
| `ScanStep`, `ScanDone` | `scanForCandidates` and the loop that resets the flags |
| `MarkRoot`, `MarkStep`, `MarkDone` | the second loop of `recycleGarbage`, `markLiveObjects`, `pushAliveObject` |
| `DeleteStep`, `DeleteDone` | the last loop and the resets behind it |

Order of evaluation is the code's: which of two operations decrements first, that
`replace` ignores a null object after it has decremented, that
`scan_member_data` skips a flagged super-object, that a survivor's flag is reset
when the last loop comes to it, that `~TaoHash` calls `clear`. The order in which
a loop meets the elements of a container is left open (`Orders`).

`corrupt` becomes true when a step follows a pointer to a deleted object. Nothing
happens after that: what C++ does then is undefined.

Abstractions. Values without pointers (numbers, strings) are objects with empty
slots. `insert` in the middle of an array shifts elements; the model uses a free
position, because positions matter to no count. `nObjNewed` counts what
`operator new` returns. A decrement below zero by repeated null stores is cut off
at zero (`Replace`). The destructor of a hash may make a count negative, which every further
collection would lower: then none starts any more (the bound in `TryInvoke`). `tcObjects`, a list of foreign objects to delete, is left
out, and so is `objLocked`, which nothing fills.

### 3.3 `Timers`, `EloopTimers`

`Timers` is a map from timers to the time left. `EloopTimers` has the list and
one action for each function of the interface: `Register`, `Cancel` with
wildcards, `CancelOne`, `Deplete`, `Replenish`, `Clear` (from `eloop_destroy`), and
`Expire`, the part of `eloop_run` that takes the first timeout. Times are relative
to now; `Tick` lowers all of them, and "overdue" is -1, because the code never
compares two times that are both before now with each other, except in a sorted
list, where the order is kept. A delay of `MaxDelay + 1` stands for one whose time
overflows `os_time_t`; the code treats it as "never" and registers nothing.

The refinement mapping `left` finds the time of a timer in the list by its record.

### 3.4 `Eloop`

`pc` is where the thread is: in the program before the loop (`idle`), at one of the
points of `eloop_run`, or in a `callback`. In the program and in callbacks it may
call every function of the interface that `Calls` allows. `HandleSignal` is
enabled at every `pc`. `eloop_process_pending_signals` is three steps and one per
entry, because `eloop.signaled`, `pending_terminate` and the array are written by
the handler too. `Select` takes the descriptor sets, `Wake` returns with a subset
that is ready or when the first timeout is due, `SelectFails` is its error, and
`StartTable`, `CallSock`, `SkipSock`, `Return` are the loop of
`eloop_sock_table_dispatch`, with its break when the table has changed.

Abstractions. `eloop_register_signal` is one step: a signal during its `realloc`
is in the plan. `eloop_destroy` frees the arrays and keeps the counts; in the model
the array of signals is kept until `eloop_init`. Failures of `realloc` are left
out. A handler of a socket consumes its event.

Two callbacks registered for one signal have two entries, and the handler flags the
first only (finding 4).

### 3.5 `TaoPhrases`, `TaoRoutine`, `Blocks` - a routine of Tao

`TaoPhrases` is `setupLogicLoop`: a routine is a sequence of kinds of phrases (with a
brace as a phrase of its own, as in `myPhrases`), and `JumpTable` gives each its
`jumpTo` (`PastBlock` where a block is left) as the passes of the parser leave it. `TaoRoutine` has the activations: `frames`
stands for the C++ stack (`old` and `next` of `run`), all else is the state of the one
`TaoRoutine` object, its phrases and the `TaoFunCall` objects in them.

| Action | Code |
|---|---|
| `CallFromMain`, `CallFromPhrase` (`Pass`, `Push`) | `TaoFunCall::execute` up to the loop of `run`: arguments, `detachOldParams`, `duplicateByData`, `numCalled++` |
| `Command`, `Jump`, `Test`, `Fail`, `For`, `ForEach`, `AssignLocal` | `execute` of the phrases |
| `Abandon` | the early returns of `run`: a phrase without a target, a null object to be returned |
| `Yield`, `Finish` | the end of `run` with `idResume`, `numCalled--` and the data popped |
| `Return`, `CountOff` | `TaoFunCall::execute` behind `run` |

`Blocks` says what the text means: a set of nested blocks, and for each statement those
that may follow. It makes no promise for a break outside a loop or behind one that is
closed, which the parser gives the target of that closed loop.

Abstractions. What a condition yields is left open, and so are sizes of arrays. A
variable holds the depth of the activation that set it, or null. There is one parameter
and one local variable; files that `run` closes are left out; `nested` records that an
activation has called the routine itself, after which its data are lost (finding 2).

### 3.6 The small programs

`SmallPrograms` has heap sort, the regular expressions, the list of `cond.c` and the numeric arrays as parts
of one state, with their properties; `ProgramsMC` adds the calculators and compilers, which are recursive, and
the values for TLC. `which` names the program that runs, and the others rest.

* `Calculators`: the loop of `Calculator::Eval` (`stack.cpp`), a step for each turn;
  `recur.c` and `makeArithTree` are functions of the same tokens, and `SameValue` compares
  the three. Numbers are the field Z/7, in which + - * / have the laws of the rationals,
  and ^ is an operation that is neither associative nor commutative, so an equal value
  is an equal tree up to these laws. Signs are left out: Tao reads -a+b as -(a+b), `recur.c`
  as (-a)+b, `stack.cpp` not at all.
* `TaoRegex`: one step for each turn of the loop of `match`. `Ends` is the definition
  of a match. Groups and computed words are left out, and repeats of a least number above
  one: `match_min` does not undo a part of them.
* `TaoNumArray`: the flat vector with its subindex; `Matrices` are cells by coordinates.
* `ProducerConsumer`: a step for each access to the list and each call of the library. `Pool`
  is the stack of numbers. A wait may end without a signal; a cancellation acts in the wait or in
  `printf`. The loop makes `N` nodes.
* `Calc3Tree`: the trees of `calc3.y`, the words they are read from, and `ex` of `calc3a.c`.
  `Calc3`: the code that `ex` of `calc3b.c` prints, a statement at a time, and a machine that runs it,
  an instruction at a time; that machine is not in the repository. `Sim`: `sim.c`, a function of the
  source for each operator; a state that will not go on (exit, crash, or a loop without end) is
  stopped. `Compiles` compares code and tree, `SimAgrees` tokens and tree. `Careful` programs have
  braces around each `if` inside another statement and parentheses around a negative right factor,
  and end with an `echo`; none uses `!=`, `&&`, a block inside a block, or an expression as a
  statement. Overflow and division by 0 are left out.
* `HeapSort`: one step for each turn of `sift_down`, with the conversion between `size_t`
  and `int` that makes -1 of `(1 - 2) / 2`.

## 4. The runs

The passing runs explore their whole state spaces with the given bounds; those of
the findings stop at the first counterexample.

| Run | Instance | What it shows | States |
|---|---|---|---|
| `recycler_arrays` | 3 objects, 1 temporary, 1 element each, sub-arrays, all thresholds 0 | `TypeOK`, `NoFreedAccess`, `NoDangling`, `FlagsMatchCandidates`, `IndInv` (from which `CountsExact` follows too), `ImplementsHeap`, `CollectsAllGarbage` | 85,140 |
| `recycler_instances` | 4 objects, 1 variable, a `gcAgent` of 1, instances with members and super-objects | `CountsExact`, `ImplementsHeap` | 13,451 |
| `recycler_ends` | 2 objects, arrays and hashes, a variable, a temporary, null stores, right-hand sides that run code; no symmetry | `CollectionEnds` | 230,297 |
| `recycler_leak` | as `recycler_instances` | `CollectsAllGarbage` fails: finding 1 | - |
| `timers` | 3 timeouts, 2 contexts and the wildcard, delays 0..2 and one that overflows | `TypeOK`, `Sorted`, `ImplementsTimers`, `ExpiresInOrder`, `NoneStarves` | 8,689 |
| `eloop_served` | 2 sockets in a table of up to 3 entries, 2 timeouts; callbacks of sockets register and unregister sockets and use a timeout, those of timeouts use timeouts | `TypeOK`, `SocketsServed`, `TimeoutsServed` | 252,388 |
| `eloop_signals` | 2 signals, one of them fatal, a socket, a timeout, callbacks that register signals and sockets and terminate, `eloop_destroy` | `NoLostSignal`, `FatalServed`, `PolledOnly`, `TerminateStops` | 628,288 |
| `eloop_second` | a signal, two registrations of it, callbacks that do nothing | `RegisteredIsCalled` fails: finding 4 | - |
| `tao_routines` | every routine of up to six phrases with break, yield and call, five with skip, return and assignment, eight with break only, and nine longer ones; 3 activations at a time, `numCalled` up to 3, arrays of at most 2 elements | `TypeOK`, `DataStackFits`, `ActivationsCounted`, `ArgumentsHeld`, `ForStartsAtFirst`, `ForEachGoesOn`, `ImplementsBlocks` | 176,758 |
| `tao_recursion` | a routine that assigns and calls itself in a branch | `RecursionKeepsParams` fails: finding 2 | - |
| `programs` | heap sort: arrays of 1 to 5 of 3 keys; calculators: every expression of up to 7 tokens with five operators; regular expressions: 7 patterns on every word of up to 5 of 2 letters; producer: 3 nodes at 3 addresses; numeric arrays: 6 shapes, 3 statements; calc3: 483 programs, of every two of nine operators and of statements nested up to three deep | `SameValue`, `Finds`, `Sorted`, `Permuted`, `Compiles`, `SimAgrees`, `ImplementsPool`, `PrintedOrCancelled`, `MainGoesOn`, `ImplementsMatrices` | 33,910 |
| `tao_regex` | the patterns of `programs` | `SearchEnds` fails: finding 3 | - |

Why the bounds are enough. Three array objects with an element and a sub-array
each make every shape that trial deletion distinguishes: cycles of one to three,
cycles with a tail, a cycle held from outside, an object shared by a live and a
dead one; with thresholds 0 a collection may start after any operation, where
the code's 1000, 10 and 1000000 only make it rarer. The proof removes the
bound. An instance needs up to three objects (itself, its member, its
super-object), so four leave room for a second one. Two objects suffice for
`recycler_ends`, whose question is about the growth of the list. Three timeouts
are the least in which an insertion goes between two others, and delays of 0, 1
and 2 give equal, ordered and overdue times. Two sockets in one table are the least
in which one can starve the other; the third entry is there for a callback to add and remove, which
ends the dispatch of its table. One signal must arrive while another is processed.

Three activations are the least in which saved data lie on saved data, and a yield
leaves a count behind only if there is a later call. A block is three phrases, so six
hold a loop in a loop or a chain of two branches; the written routines have the longer
chains, a break behind a closed loop, and loops, yields and calls in each other. Two
elements are enough for a foreach to be begun, to go on, to end and to be begun again. Five keys make a heap
with two full levels and a parent with one child, four one with an only child;
three kinds of keys give equal ones. Seven tokens hold four operands,
and so every pair of operators on either side of a third, or a pair of parentheses
around any operation of three. With three numbers, one can be pushed while another is
printed and a third has been freed. Words of five letters are longer than
every pattern's least match by two. Three statements of a numeric array make the case in
which a part that a variable holds is followed by another part. Expressions of two operators have every
pair of them in either order and association; statements nested three deep put a loop in a
loop and a branch in each branch. No program runs 60 statements of `sim.c`.

Symmetry over objects is used where every property is an invariant or an action
property; runs with liveness use none. `CHECK_DEADLOCK FALSE` is set where the
program may stop: after an access to freed memory, and when the alarm has killed
the process.

## 5. Fairness

* `WF(Collector)`: `recycleGarbage` is a function on the interpreter's only
  thread; once called it runs to its end.
* `WF(Expire)`, `WF(Tick)` in `EloopTimers`: the loop comes back to the list, and
  the clock does not stand still.
* In `ProducerConsumer`, `WF` of each thread's steps: a scheduler runs what can run. `SF` of
  main's lock: the other thread may be woken without a signal and take the mutex for ever,
  and a mutex that becomes free again and again is given to main at some time. None on `Sleep`, which may
  last, on a spurious wakeup, nor on a cancellation in `printf`.
* `WF(Next)` in `TaoRegex` and `HeapSort`, which are loops of one thread.
* `WF(Loop)`, `WF(HandleAlarm)`, `WF(Tick)` in `Eloop`: the thread is scheduled,
  callbacks return, the kernel's alarm rings. There is no fairness on events, on
  signals or on calls of the program, and none that prefers one step of the loop
  to another.

`NoneStarves` and `TimeoutsServed` assume that the program does not replenish
timeouts for ever, which is a request to be called later. `SocketsServed` assumes that the callbacks of a
table do not change that table for ever: each change ends the dispatch of the table (`eloop.c:169`), and the next turn
starts again at its first entry. Without the assumption it is false, against `eloop.h:85` (section 7).

## 6. Proofs

| Theorem | Statement | Assumes |
|---|---|---|
| `TaoHeapProofs!HeapSafe` | what is reachable is allocated | `HeapSlots`: roots are not slots of objects |
| `TaoHeapProofs!GarbageIsStable` | what is unreachable stays unreachable until it is allocated again | `HeapSlots` |
| `TaoRecyclerProofs!InductiveInvariant` | `[]IndInv` | `HeapAssumption`, `CountingProgram` |
| `TaoRecyclerProofs!CollectorType`, `NoAccessAfterDelete`, `PointersLive`, `CountsAreExact`, `FlagsAgree` | `[]` of `TypeOK`, `NoFreedAccess`, `NoDangling`, `CountsExact`, `FlagsMatchCandidates` | the same |
| `TaoRecyclerProofs!CollectorImplementsHeap` | `ImplementsHeap` | the same |
| `TaoRecyclerProofs!ReachableAllocated` | what is reachable is allocated, at every step | the same |
| `TaoRecyclerProofs!NothingIsLost`, `CollectsEverything` | `[]GarbageInv`, `CollectsAllGarbage` | `HeapAssumption`, `ArrayProgram` |
| `EloopTimersProofs!TimersType`, `TimersSorted` | `[]TypeOK`, `[]Sorted` | `TimersAssumption` |
| `EloopTimersProofs!TimersExpireInOrder` | `ExpiresInOrder` | `TimersAssumption` |
| `EloopTimersProofs!TimersRefine` | `ImplementsTimers` | `TimersAssumption` |
| `EloopProofs!SignalsKept` | `[]NoLostSignal` | nothing |
| `EloopProofs!PolledIfBehind` | `PolledOnly` | `EloopAssumption`, `TimersAssumption`; `[][Behind]_vars`: sockets are registered in tables that the turn has reached |
| `EloopProofs!PolledInOneTable` | `PolledOnly` | the first two; one table, and no registration of a socket by callbacks of signals and timeouts |
| `EloopProofs!LoopKeepsTypes` | `[]TypeOK` of the loop | `EloopAssumption`, `TimersAssumption` |
| `EloopProofs!LoopRunsTimers` | in the loop, the list does what `EloopTimers` allows, and is sorted | the same |
| `TaoRoutineProofs!RoutineType`, `SavedDataFits`, `CallsAreCounted`, `LatestHoldsArguments` | `[]` of `TypeOK`, `DataStackFits`, `ActivationsCounted`, `ArgumentsHeld` | `ProgsAssumption`, `BoundsAssumption` |
| `TaoRoutineProofs!ForLoopsBeginAnew`, `ForEachKeepsItsPlace` | `[]ForStartsAtFirst`, `[]ForEachGoesOn` | the same, and `Braced` of every text |
| `TaoRoutineProofs!RoutinesFollowBlocks` | `ImplementsBlocks` | the same, and `Braced` and `Chained` of every text |
| `ProducerConsumerProofs!ListIsAStack` | `ImplementsPool` | `N \in Nat`, `NULL` is no address |
| `TaoNumArrayProofs!ArraysAreMatrices` | `ImplementsMatrices` | `ArrayAssumption`: the shapes and subindices that the model is about, of any size and number |
| `SmallProgramsProofs!HeapSortSorts`, `HeapSortPermutes` | `[]Sorted`, `[]Permuted` | `SizeAssumption` |
| `SmallProgramsProofs!RegexFinds` | `[]Finds` | `PatternAssumption`: words are not empty, least numbers of repeats are 0 or 1 and no more than the greatest |

`CountingProgram` says that the program uses arrays (with sub-arrays, in any number,
of any size) and instances of classes (with members and super-objects), stores no null into
an element and runs no code between a left-hand side and its store. It cannot be dropped:
hashes and right-hand sides that run code are in section 7, and a null store leaves a count
one too low (`taoDatatype.cpp:476`). `ArrayProgram` leaves out the instances too, for the two theorems
that nothing is left over, because cyclic instances do leak (finding 1). The thresholds, the
numbers of objects, variables, temporaries and positions are arbitrary; `HeapAssumption` says
that they are finite and that names of slots differ.

**The collector.** None of the properties is inductive: during a collection
counts are wrong on purpose. `IndInv` says by how much. `Discounted` is the set of
objects whose own references are taken off the counts at this moment - during the
scan the candidates already scanned, during the marking the candidates not yet
marked or still in `objAlive`, during the deletion the dead ones - and `CountInv`
says that the count of *every* object is the number of slots that hold it and do
not belong to a discounted object. `ScanInv` says that what a scanned object
refers to is a candidate, so at the end of the scan the candidates are closed.
`MarkInv` then gives that an object with count 0 is referred to by dead
candidates only, and `DeleteInv` that the list splits at `i` into those that are
dealt with and those that are still there. The steps rest on a few lemmas on
`Refs`, the number of slots that hold an object: it is additive over disjoint
sets (`RefsUnion`), it changes by what is written (`RefsWrite`), and it is zero
where nobody points (`RefsZero`).

Instances need one thing more. The scan of an instance skips a super-object that is flagged
already (`scan_member_data`), so its slot might be left out of what is taken off. `SuperInv`
says why this is right: nothing but its instance refers to a super-object, so the scan comes
to it after its instance, and in the marking it is flagged after its instance.

**Nothing is left over.** `GarbageInv` says what a collection has yet to find: while the program
runs and during the scan every allocated object is led to by pointers from a root or a candidate,
during the marking it is reachable or a candidate, and during the deletion reachable or dead. The
program keeps this because a pointer that is given up makes its object a candidate
(`OrdinaryWrite`, `NewObjectInv`), and the scan because it walks on through what it appends. At the end of the
deletion what is dead is deleted, and what the last loop has enqueued meanwhile is the exception that
`CollectsAllGarbage` names.

**The contract.** Under `IndInv` every operation of the program is `Heap!Mutate`
(`ProgramIsMutate`), and the only step of the collector that changes a pointer is
the deletion of an object, which is `Heap!Delete` (`DeleteIsDelete`). For that,
`DeadUnreachable` shows that the objects that are not dead contain what the roots
refer to and are closed under pointers: a pointer from outside the dead objects
to one of them would be counted, and its count is zero. Since reachability is the least
closed set, nothing dead is reachable. The theorems of `TaoHeapProofs` then hold
of the interpreter (`ReachableAllocated`).

**The timeouts.** `Good` is `TypeOK` and `Sorted` said of any list, because
`eloop_deplete_timeout` builds its list in two steps. `PutGood` is about the loop
that finds the place of a new timeout, `FilteredGood` about cancelling, `RemoveGood`
about taking one out, `TickGood` about time: a relative clock that stops at -1
keeps the order. From these, the head of the list is one of the timeouts due
first, which is `ExpiresInOrder`. For `TimersRefine` the mapping is stated for any
list (`LeftOf`): a call keeps some entries and perhaps adds one (`Kept`, `PutLeft`),
which is `Service!Change`, and a tick of the list is a tick of the service.

**The signals.** `NoLostSignal` is inductive once the array is known to be a
sequence of records. The two steps that matter are `TestSignaled`, which resets
`signaled` *before* the array is looked at, and `ScanSignal`, which resets a flag
before its callback runs.

**Events and registrations.** `PolledOnly` is false of the code as it is: a callback may register
a descriptor that was closed and is used again in a table that the turn has not come to yet, and
only changes of the table in hand are watched (section 7). The theorem says that this is the
only way. `TurnInv` is that the entries of the table in hand, and of those to come, are the ones that were
polled; `Behind` is the hypothesis, an action property of the program, that registrations go to tables of
the past or in hand. `PolledInOneTable` has it from constants, which are those of `eloop_signals`.

**The loop and its timeouts.** `Eloop` changes the list of timeouts only in steps that
`EloopTimers` has; `LoopRunsTimers` says so, and what `EloopTimersProofs` shows of the list
is cited through an instance of that module, not proved again.

**A routine.** The invariants of `TaoRoutine` but those of the loops are inductive together (`IInv`): what `run`
does at its end depends on the count, and what it pops on the size of the stack. `ElementKept` is with them: a
foreach whose index is not 0 has not given up `refElement`. There is a
lemma for each phrase and each way out (`CallStep`, `AbandonStep`, `YieldStep`, `FinishStep`), and a few
on how often a call site occurs in the activations (`RunsAppend`, `RunsFront`). The bounds of the
model (`MaxDepth`, `MaxCalls`, `MaxElems`) are arbitrary in the proof, and so is the routine.

**The loops.** That a for loop begins at `first` depends on what left it the last time, and so on the
table of jumps. From the counts of braces (`Count`, `Depth`) follows that a block is closed within the block
that opened around it (`Nesting`, `PairsDiffer`) and that a chain of branches stays in the
block that it began in (`ChainStays`, `BlockFacts`). `Ways` says of a step or a jump that
it goes into the block of an `Orderly` loop, or round to its header, exactly if it comes from within; only the
header itself is another matter. `LoopInv` then says that `firstRound` has the orderly for loops that the latest activation is
not within, and that an orderly foreach that it is within has an index above 0: calls and yields are outside the block, and so
is where they go on. With `ElementKept` the foreach has its variable when it comes round. This needs `Braced`: the
code takes it for granted (`taoModule.cpp:680`, "It's checked before, safe now"), and
`RoutinesBraced` has TLC see that the routines of the run satisfy it.

**Nested blocks.** `Blocks` says where control goes by the nesting of the text, with a recursive function
(`Stand`) that follows the closing braces outwards; the parser makes a flat table instead. `StandDef`
shows that the function is what its text says, which the definition alone does not. `Lands` is the centre: where the table
takes an activation that goes on behind any phrase is where the nesting has it, by descent
from the end of the text, with one lemma for each way on (`ComingHere`, `ComingEnd`, `ComingRound`,
`ComingOut`, `ComingChain`, `ComingStray`). From it follow the lemmas of the single statements: the next
phrase, the way into a block, past it, out of it by `break` and round by `skip` (`StepOn`, `EnterAt`,
`PassAt`, `DeclineAt`, `LeapsOn`). `OuterInv` adds to `IInv` and `LoopInv` that an activation that waits for a call stands
at that call (`Waiting`), so that a return, at any depth, leaves the outermost activation where it was.
The theorem needs `Chained`: an `else` or `else if` stands right behind the block of an `if` or `else if`. The walk of
`setupLogicLoop` along a chain (`taoModule.cpp:685`) does not look back, and behind a `while` an `else`
would be run whether or not the loop was. `RoutinesBraced` includes it. That the two agree was first
checked on all texts of up to seven phrases, with stray braces.

**Producer and consumer.** `ListInv` says that there is a path of distinct nodes from `head` to NULL, no
longer than what main has made, that the mutex is with the thread that is between its lock and its
unlock, and which nodes are *not* on the path (`Apart`): the one that main fills and links before it
pushes it, and the one that the other thread has popped and frees. So a link that is written before the
head (`QuietSteps`) and an address that `malloc` gives out again disturb nothing. `ChainIsPath` shows that `Chain`, a
recursive function, is the numbers along the path, by the least counterexample; `PushStep` and
`UnlinkStep` are the two steps that move the head, and they are `Put` and `Take` of `Pool`.

**Numeric arrays.** The code computes with positions in a flat vector, `Matrices` with coordinates. That
`getFlatIndex` and `exportSubIndex` undo each other (`FlatThere`, `ExportThere`) is not enough: `reshape` and the
parts of an array depend on the *order* of the cells. `OrderFlat` says that the flat index grows with the
coordinates, the first dimension first, and so it is the number of cells before (`RankIsFlat`), which is what
`Matrices` says of a reshaped array. A part is filled in the order of its own positions, with the dimensions left out in
which one coordinate is picked (`makeSubDims`); `AlongOrder` and `Squeeze` say that leaving them out keeps the
order, and `PartsRunAlong` that the vector of the part therefore is the one of its cells. From these follow the
steps: what a subindex reads (`PartHeld`, `CellHeld`), assigns (`AssignHeld`) and adds (`AddHeld`), the transposed
array (`TransposeHeld`) and the reshaped one (`ReshapeHeld`). `NumInv` is what the
objects have to satisfy in between: an array that a name still leads to is well formed - its steps belong to its
dimensions, its vector has their size - while the object that is given out next may hold anything;
and as long as no part has been copied no variable holds one, so that `tryAllocate` does not
give out what a variable holds. The recursive functions (the steps, the flat index, the long dimensions) are shown
to be what their text says by climbing from 0 (`Climb`, `StepsExist`). `NumInv` quantifies
over all shapes, so TLC cannot evaluate it.

**Heap sort.** `HeapFrom(lo, hole)` says that the elements from `lo` on are no less than their
children, but for the one that `sift_down` is at, and that the children of that one are no greater
than its parent; `Behind`, that what is behind `nmemb` is sorted and above the heap. That the root is
the greatest (`RootIsGreatest`) is had from the least index of a counterexample, by
`WFMin`. `Permuted` is a composition of exchanges (`SwapPermutes`).

**Regular expressions.** A match is a sequence of *places* in the string, one behind each unit. `Along` says that
the units `match` has matched have such places, from `start` to `start + shift`; so what is found is a match.
That it is the first needs what the search has ruled out. `match` keeps no list of that: it only ever raises the
repeats of a unit and goes back when it cannot. `SearchInv` says that this is enough when no unit is ignorable:
no `Way` through the rest of the pattern begins where a matched unit ends that has fewer repeats than it has now
(`AllTried`), nor, after a step back, where the unit in hand ends now. `match_min` and the first half of
`match_repeat` keep this because they move on with the least number not yet tried; a unit is given up when one
more repeat does not fit, and then no greater number does (`FitsMore`, `RepeatsIs`), so there is no way from the unit before
either (`WayOn`). A start is given up when the way back ends before the first unit. `EndsAre` and
`NoWayNoEnds` relate places to `Ends`, a recursive function over sets of places, by climbing as above. An ignorable unit
breaks `AllTried`, because the unit before it takes all it can get and is not asked for less; that is why the second
half of `Finds` excludes it. `SearchInv` has an unbounded choice of places, so TLC checks only `Finds`.

**Only model-checked:** liveness (`CollectionEnds`, `NoneStarves`, `SocketsServed`,
`TimeoutsServed`, `FatalServed`, `TerminateStops`, `PrintedOrCancelled`, `MainGoesOn`),
which TLAPS does not do; `PolledOnly` where callbacks register sockets in tables still to come, `CollectsAllGarbage` of
instances, and everything about hashes, which are false of the code (section 7); `SameValue`, `Compiles`, `SimAgrees`, which
are about recursive operators; and `SearchEnds`, which is false (finding 3). `ListIsAStack` and `ArraysAreMatrices` are theorems about `ProducerConsumer!ImplementsPool`
and `TaoNumArray!ImplementsMatrices`; the run checks their instances in `ProgramsMC`, with three nodes and six shapes, and has
TLC evaluate `ArrayAssumption` of those (`ArraysFit`), and `PatternAssumption` of its patterns and words (`PatternsFit`).

## 7. Findings

1. **Cyclic instances leak** (`taoRecycler.h:104`, run `recycler_leak`). `clearNewObjects` enqueues only
   what drops to zero, so an instance that a reference of its own keeps above zero is
   never examined; `taoRecycler.h:34` promises cycles.
2. **A recursive call takes the caller's parameters** (`taoRoutine.cpp:125`, run `tao_recursion`).
   `duplicateByData` saves the contents only of what is not a `TAO_Reference`, and every variable is one;
   the comment above says that they are saved.
3. **A search may not end** (`taoRegex.cpp:473`, run `tao_regex`). A unit in front of an ignorable
   one is gone forward from in either direction: /ba*./ on "b".
4. **The second callback of a signal is never called** (`eloop.c:421`, run `eloop_second`).
   `eloop_register_signal` takes it and returns 0, but the handler flags the first entry for the signal
   and breaks; `eloop.h:265` says that a registered callback will be called when the signal is received.

Further counterexamples, which these configurations show (no run of `PROJECT.json` has them):

* `TaoRecyclerHash.cfg` (`TaoRecyclerMC`, `NoFreedAccess`): `~TaoHash` calls `clear()`, which
  decrements counts that the scan has taken off already (`taoDatatype.h:268`).
* `TaoRecyclerRhs.cfg` (`TaoRecyclerMC`, `NoFreedAccess`): the right-hand side may run a collection
  while `TaoAssign::execute` holds an uncounted pointer to the left-hand side's container
  (`taoPhrase.cpp:582`).
* `EloopReuse.cfg` (`EloopMC`, `PolledOnly`): a descriptor that is used again gets the old one's event,
  because only the table that is being dispatched is watched for changes (`eloop.c:164`).
* `EloopStarved.cfg` (`EloopMC`, `AvailableIsHandled`): a ready socket is never served when the callback of
  one in front of it changes the table in every turn, say by registering and unregistering a third
  (`eloop.c:169`), although `eloop.h:85` and `:112` promise the call whenever there is data or the event is triggered.
* `TaoRecyclerNull.cfg` (`TaoRecyclerMC`, `NoDangling`): `replace` with a null object lowers the count and
  keeps the pointer, and a collection deletes what it points to (`taoDatatype.cpp:476`).
* `TaoForEachTwice.cfg` (`TaoRoutineMC`, `NeverReadsNull`): a foreach that has come to the end of its array sets
  `refElement` to null (`taoPhrase.cpp:97`), and its next execution dereferences it (`:101`) if there is an element.
* `TaoForEachCalls.cfg` (`TaoRoutineMC`, `CallsSpareElement`): the same between two elements of one execution. If the
  block calls the routine itself, the inner foreach ends, clears the index and the reference that both share, and
  the outer one dereferences null at its next element. `ForEachGoesOn` therefore is about loops without such calls.
* `SimCareless.cfg` (`ProgramsMC`, `SimAgrees`): `sim.c` exits at `5 / -2`, although the grammar in its comment
  has a sign in front of a factor (`sim.c:460`).
* `EloopAlarm.cfg` (`EloopMC`, `KilledOnlyIfBusy`): the alarm may kill an idle loop, when a SIGINT comes
  between `eloop_process_pending_signals` and `select` (`eloop.c:400`).

## 8. Not modelled

* **In Tao**: the built-in functions of `taoFuncall.cpp` (files, formatting, conversion), the
  arithmetic of scalars, strings and whole arrays (tables of C++ operators on one value at a time), the
  lexer, XML, classes and name spaces, plug-ins. They are long and have no states that the
  order of calls could bring out of step.
* **What the code gets wrong beyond the runs**, and the models leave out so that the rest can be
  checked. Numeric arrays: `resetSubIndex` leaves the flag of the map as it is, so that a map may be
  stale (`taoNumeric.cpp:199`, `:256`); two parts of one array in one expression share the object they are
  copied to (`taoNumeric.h:867`); the subindex is a state of the array, so that `a[0,] += a[1,]`
  writes row 1 (`taoArith.cpp:926`); an empty range reads behind the map (`taoNumeric.cpp:325`). Regular
  expressions: a least number of two or more is not undone when it is met in part, and
  a unit that may be left out and has matched is not tried without (a?a fails on "a"). Statements:
  `makeForEach` leaves the loop variable uninitialised if its name has another type
  (`taoModule.cpp:1217`). `sim.c`: `!=` is read as `==` (`sim.c:381`), `&&` and `||` never end because the token is not read
  again (`sim.c:681`), a program that ends with an `if` reads through a null pointer (`sim.c:256`), a block
  inside a block ends both (`sim.c:747`), and the `else` of an `if` inside an `if` without braces goes to
  both (`sim.c:226`). `calc3b.c` leaves the value of an expression that is a statement on the stack.
  `cond.c`: a node that has been popped is leaked when the thread is cancelled in
  `printf`.
* **The signal array of eloop.c as memory**: a signal while `realloc` moves the array, or after
  `eloop_destroy` has freed it, reads freed memory (`eloop.c:454`).
* **Coroutines on `setjmp`** jump into frames that have been left; `concurrent.c` says itself that this is
  undefined. **The Brainfuck machine** runs on into an uninitialised byte behind its
  last instruction (`gbf.c:48`).
* **Clients and servers** (`asio/`, `ev/`, `tcp_server.py`): each callback starts the next operation, and the program
  keeps nothing in between; what is hard in them is in the libraries.
* **The rest** is exercises of a few statements, framework templates, generated or preprocessed
  text (`a.cc` alone is half of the repository), pictures and sounds.

## 9. Running

    tlc -workers 2 -config TaoRecyclerArrays.cfg TaoRecyclerMC.tla
    tlapm TaoRecyclerProofs.tla
    tlapm TaoNumArrayProofs.tla
    tlapm SmallProgramsProofs.tla

`TaoRecyclerMC`, `EloopTimersMC`, `EloopMC`, `TaoRoutineMC` and `ProgramsMC` are the modules that the
configurations instantiate. Definitions whose comment begins with "Mutant" are
variations of a definition as a plausible mistake would make it; they are used in
no specification, and each of them violates one of the properties.

-------------------------- MODULE ProducerConsumer --------------------------
(***************************************************************************)
(* cond.c: main pushes numbered nodes on a list and signals a condition;   *)
(* the second thread pops, prints and frees them, waits when the list is   *)
(* empty, and is cancelled in the end.  A node is an address of the heap,  *)
(* which malloc may give out again.  pthread_cond_wait may wake up without *)
(* a signal; it and printf are where a cancellation acts.                  *)
(***************************************************************************)
EXTENDS Integers, Sequences

CONSTANTS N,            \* bound: the nodes that main makes (10 in the code)
          Address, NULL

VARIABLES
    n_number, n_next,   \* the fields of the allocated nodes (functions on them)
    head, mtx,          \* shared: the list, and the thread that holds the mutex
    main, i, mp,        \* main: where it is, and its variables i and p
    second, sp,         \* thread_func: where it is, and its p
    cancel, printed     \* pthread_cancel was called; what was printed

vars == <<n_number, n_next, head, mtx, main, i, mp, second, sp, cancel, printed>>
Nodes   == DOMAIN n_number
Put(f, x, v) == [y \in DOMAIN f \cup {x} |-> IF y = x THEN v ELSE f[y]]

Init ==
    /\ n_number = <<>> /\ n_next = <<>> /\ head = NULL /\ mtx = "free"
    /\ main = "malloc" /\ i = 0 /\ mp = NULL
    /\ second = "lock" /\ sp = NULL /\ cancel = FALSE /\ printed = <<>>

Lock(t)   == mtx = "free" /\ mtx' = t
Unlock(t) == mtx = t /\ mtx' = "free"

-----------------------------------------------------------------------------
(* main                                                                    *)

MainVars == <<second, sp, cancel, printed>>     \* what main leaves alone

Malloc ==
    /\ main = "malloc" /\ i < N
    /\ \E p \in Address \ Nodes : mp' = p /\ n_number' = Put(n_number, p, i) /\ n_next' = Put(n_next, p, NULL)
    /\ main' = "lock" /\ UNCHANGED <<head, mtx, i, MainVars>>
\* Mutant: the list is changed without the mutex.
MainDoesNotLock ==
    /\ main = "lock" /\ mtx' = mtx /\ main' = "link"
    /\ UNCHANGED <<n_number, n_next, head, i, mp, MainVars>>
MainLocks ==
    /\ main = "lock" /\ Lock("main") /\ main' = "link"
    /\ UNCHANGED <<n_number, n_next, head, i, mp, MainVars>>
Link ==
    /\ main = "link" /\ n_next' = [n_next EXCEPT ![mp] = head] /\ main' = "push"
    /\ UNCHANGED <<n_number, head, mtx, i, mp, MainVars>>
Push ==
    /\ main = "push" /\ head' = mp /\ main' = "signal"
    /\ UNCHANGED <<n_number, n_next, mtx, i, mp, MainVars>>
\* Mutant: main signals only if the list was empty, and looks after the push.
SignalFirst ==
    /\ main = "signal" /\ main' = "unlock"
    /\ second' = IF second = "wait" /\ head = NULL THEN "woken" ELSE second
    /\ UNCHANGED <<n_number, n_next, head, mtx, i, mp, sp, cancel, printed>>
Signal ==
    /\ main = "signal" /\ main' = "unlock"
    /\ second' = IF second = "wait" THEN "woken" ELSE second
    /\ UNCHANGED <<n_number, n_next, head, mtx, i, mp, sp, cancel, printed>>
\* Mutant: main keeps the mutex.
MainKeeps ==
    /\ main = "unlock" /\ main' = "sleep"
    /\ UNCHANGED <<n_number, n_next, head, mtx, i, mp, MainVars>>
MainUnlocks ==
    /\ main = "unlock" /\ mtx' = "free" /\ main' = "sleep"
    /\ UNCHANGED <<n_number, n_next, head, i, mp, MainVars>>
Sleep ==
    /\ main = "sleep" /\ i' = i + 1 /\ main' = "malloc"
    /\ UNCHANGED <<n_number, n_next, head, mtx, mp, MainVars>>
Cancel ==
    /\ main = "malloc" /\ i = N /\ cancel' = TRUE /\ main' = "join"
    /\ UNCHANGED <<n_number, n_next, head, mtx, i, mp, second, sp, printed>>
Join ==
    /\ main = "join" /\ second = "dead" /\ main' = "done"
    /\ UNCHANGED <<n_number, n_next, head, mtx, i, mp, MainVars>>

-----------------------------------------------------------------------------
(* thread_func                                                             *)

SecondVars == <<n_number, n_next, main, i, mp, cancel>>     \* what it leaves alone, but for free

SecondLocks == second = "lock" /\ Lock("second") /\ second' = "test" /\ UNCHANGED <<SecondVars, head, sp, printed>>
Wait ==
    /\ second = "test" /\ head = NULL /\ ~cancel /\ Unlock("second") /\ second' = "wait"
    /\ UNCHANGED <<SecondVars, head, sp, printed>>
WakeUp == second = "wait" /\ ~cancel /\ second' = "woken" /\ UNCHANGED <<SecondVars, head, mtx, sp, printed>>
Return == second = "woken" /\ Lock("second") /\ second' = "test" /\ UNCHANGED <<SecondVars, head, sp, printed>>
Take ==
    /\ second = "test" /\ head # NULL /\ sp' = head /\ second' = "unlink"
    /\ UNCHANGED <<SecondVars, head, mtx, printed>>
Unlink ==
    /\ second = "unlink" /\ head' = n_next[head] /\ second' = "print"
    /\ UNCHANGED <<SecondVars, mtx, sp, printed>>
Output ==
    /\ second = "print" /\ printed' = Append(printed, n_number[sp]) /\ second' = "free"
    /\ UNCHANGED <<SecondVars, head, mtx, sp>>
Without(f, x) == [y \in DOMAIN f \ {x} |-> f[y]]
Free ==
    /\ second = "free" /\ n_number' = Without(n_number, sp) /\ n_next' = Without(n_next, sp)
    /\ second' = "unlock" /\ UNCHANGED <<head, mtx, main, i, mp, sp, cancel, printed>>
SecondUnlocks == second = "unlock" /\ Unlock("second") /\ second' = "lock" /\ UNCHANGED <<SecondVars, head, sp, printed>>

\* The thread is cancelled in pthread_cond_wait, where it has the mutex again
\* before it runs the handler, or in printf.  A request made before the thread
\* calls pthread_cond_wait, or while it blocks there, is acted on for certain.
\* The handler's argument is the p of the start, NULL: a popped node is leaked.
CancelledWaiting ==
    /\ cancel
    /\ \/ second = "test" /\ head = NULL /\ mtx' = mtx
       \/ second \in {"wait", "woken"} /\ Lock("second")
    /\ second' = "cleanup" /\ UNCHANGED <<SecondVars, head, sp, printed>>
CancelledPrinting ==
    /\ cancel /\ second = "print" /\ second' = "cleanup" /\ UNCHANGED <<SecondVars, head, mtx, sp, printed>>
Cleanup == second = "cleanup" /\ mtx' = "free" /\ second' = "dead" /\ UNCHANGED <<SecondVars, head, sp, printed>>

MainSteps == Malloc \/ MainLocks \/ Link \/ Push \/ Signal \/ MainUnlocks \/ Cancel \/ Join
SecondSteps ==
    SecondLocks \/ Wait \/ Return \/ Take \/ Unlink \/ Output \/ Free \/ SecondUnlocks \/ CancelledWaiting \/ Cleanup
Next == MainSteps \/ Sleep \/ SecondSteps \/ WakeUp \/ CancelledPrinting

\* The scheduler runs every thread that can run, and main gets a mutex that is
\* free again and again, were the other thread woken for ever without a signal.
\* A sleep may last, and only a signal or a cancellation is sure to end a wait.
Fairness == WF_vars(MainSteps) /\ SF_vars(MainLocks) /\ WF_vars(SecondSteps)
Spec == Init /\ [][Next]_vars /\ Fairness

-----------------------------------------------------------------------------
(* Properties                                                              *)

\* The nodes reached from head, as the numbers they hold.  A chain is never
\* longer than the nodes there are, unless it has run into a circle.
Chain ==
    LET along[k \in 0 .. N] ==
          [p \in Address \cup {NULL} |->
             IF k = 0 \/ p \notin Nodes THEN <<>> ELSE <<n_number[p]>> \o along[k - 1][n_next[p]]]
    IN  along[N][head]

ThePool == INSTANCE Pool WITH
    N <- N, Nothing <- -1, stack <- Chain, printed <- printed,
    made <- i + (IF main \in {"signal", "unlock", "sleep"} THEN 1 ELSE 0),
    hand <- IF second = "print" THEN n_number[sp] ELSE -1

\* The list is a stack that neither loses nor repeats a number, although its
\* links are written in two steps on either side and malloc gives out again
\* what the second thread has freed.
ImplementsPool == ThePool!Spec

\* A number that was pushed is printed, unless the thread is cancelled: a signal
\* that comes while the thread does not wait is not missed, nor is one of two
\* numbers that come while it prints.
PrintedOrCancelled ==
    \A k \in 0 .. N - 1 : (main = "signal" /\ i = k) ~> (cancel \/ \E m \in DOMAIN printed : printed[m] = k)

\* Main is never stuck: it comes back to its sleep, or it ends, however the other
\* thread was interrupted.
MainGoesOn == []<>(main \in {"sleep", "done"})
=============================================================================

----------------------------- MODULE EloopTimers -----------------------------
(***************************************************************************)
(* The timeouts of the event loop hostapd/eloop.c: a list of records that  *)
(* is kept in the order in which they are due.                             *)
(*                                                                         *)
(* Time is relative: `left' is timeout->time - now, and every Tick of the  *)
(* clock lowers it, down to -1 for "overdue".  The code compares the time  *)
(* of a timeout only with now and with times that are not before now, so   *)
(* how long a timeout has been overdue makes no difference to it.          *)
(***************************************************************************)
EXTENDS Integers, Sequences, FiniteSets

CONSTANTS
    Timer,      \* addresses of struct eloop_timeout, hence a bound on the list
    Handler,    \* callback functions
    Context,    \* values of eloop_data and user_data
    ALL_CTX,    \* ELOOP_ALL_CTX
    MaxDelay,   \* longest delay that the clock can represent
    Off         \* of the abstract specification

ASSUME TimersAssumption ==
    MaxDelay \in Nat /\ ALL_CTX \notin Context /\ Off \notin Int

VARIABLE timeout    \* the list eloop.timeout

Entry == [id : Timer, handler : Handler, eloop_data : Context, user_data : Context,
          left : -1..MaxDelay]
Ids == {timeout[j].id : j \in 1..Len(timeout)}

\* os_reltime_before on two timeouts
Before(a, b) == a.left < b.left

\* The list q with x put before its n-th entry.
Put(q, n, x) == [j \in 1..Len(q) + 1 |-> IF j < n THEN q[j]
                                         ELSE IF j = n THEN x ELSE q[j - 1]]

\* The list q without the entries that fail the test keep[j]: the others stay
\* in their order.
Filtered(q, keep) ==
    LET S == {j \in 1..Len(q) : keep[j]}
        N == 1..Cardinality(S)
    IN  {[a \in N |-> q[f[a]]] :
           f \in {f \in [N -> S] : \A a, b \in N : a < b => f[a] < f[b]}}

\* Mutants: the head of the list, the tail of the list.
PlaceFirst(q, x) == {1}
PlaceLast(q, x) == {Len(q) + 1}

\* Where the list q takes x: before the first entry that is due after it.
Place(q, x) == {n \in 1..Len(q) + 1 :
                  /\ n <= Len(q) => Before(x, q[n])
                  /\ \A j \in 1..n - 1 : ~Before(x, q[j])}

\* The callers' pattern for a timeout, with or without wildcards.
Matches(t, h, e, u) == t.handler = h /\ e \in {t.eloop_data, ALL_CTX}
                                     /\ u \in {t.user_data, ALL_CTX}

-----------------------------------------------------------------------------
\* Mutant: a delay that overflows is registered.
AddedAlways(q, d, h, e, u) ==
    \E t \in Timer :
       LET x == [id |-> t, handler |-> h, eloop_data |-> e, user_data |-> u, left |-> d]
       IN  /\ \A j \in 1..Len(q) : q[j].id # t
           /\ \E n \in Place(q, x) : timeout' = Put(q, n, x)

\* The list is q before the call.  A delay that overflows is not registered.
Added(q, d, h, e, u) ==
    IF d > MaxDelay THEN timeout' = q
    ELSE \E t \in Timer :
           LET x == [id |-> t, handler |-> h, eloop_data |-> e, user_data |-> u, left |-> d]
           IN  /\ \A j \in 1..Len(q) : q[j].id # t
               /\ \E n \in Place(q, x) : timeout' = Put(q, n, x)

Register(d, h, e, u) == Added(timeout, d, h, e, u)

\* What is left of the list when the timeouts of a pattern are cancelled.
Others(h, e, u) ==
    Filtered(timeout, [j \in 1..Len(timeout) |-> ~Matches(timeout[j], h, e, u)])

Cancel(h, e, u) == timeout' \in Others(h, e, u)

\* The first entry for <<h, e, u>>.
First(h, e, u) == {n \in 1..Len(timeout) :
                     /\ Matches(timeout[n], h, e, u)
                     /\ \A j \in 1..n - 1 : ~Matches(timeout[j], h, e, u)}

Remove(n) == timeout' = [j \in 1..Len(timeout) - 1 |->
                           IF j < n THEN timeout[j] ELSE timeout[j + 1]]

CancelOne(h, e, u) == \E n \in First(h, e, u) : Remove(n)

\* All timeouts for <<h, e, u>> are cancelled and one is registered.
Restart(d, h, e, u) == \E q \in Others(h, e, u) : Added(q, d, h, e, u)

Deplete(d, h, e, u) ==
    \E n \in First(h, e, u) : d < timeout[n].left /\ Restart(d, h, e, u)

Replenish(d, h, e, u) ==
    \E n \in First(h, e, u) : timeout[n].left < d /\ Restart(d, h, e, u)

\* eloop_destroy frees every record.
Clear == timeout' = <<>>

\* Mutant: a timeout is called one unit of time early.
ExpireEarly ==
    /\ timeout # <<>>
    /\ timeout[1].left <= 1
    /\ Remove(1)

\* The turn of the loop that finds the first timeout due.
Expire ==
    /\ timeout # <<>>
    /\ timeout[1].left <= 0
    /\ Remove(1)

\* One unit of time passes.
Elapsed(q) == [j \in 1..Len(q) |->
                 [q[j] EXCEPT !.left = IF @ > -1 THEN @ - 1 ELSE @]]
Tick == timeout' = Elapsed(timeout)

-----------------------------------------------------------------------------
Init == timeout = <<>>

Extend == \E d \in 0..MaxDelay + 1, h \in Handler, e, u \in Context : Replenish(d, h, e, u)

Call ==
    \/ \E d \in 0..MaxDelay + 1, h \in Handler, e, u \in Context :
         Register(d, h, e, u) \/ Deplete(d, h, e, u)
    \/ \E h \in Handler, e, u \in Context \cup {ALL_CTX} : Cancel(h, e, u)
    \/ \E h \in Handler, e, u \in Context : CancelOne(h, e, u)
    \/ Extend

Next == Call \/ Clear \/ Expire \/ Tick

\* The loop comes back to the first timeout, and the clock does not stand still.
Spec == Init /\ [][Next]_timeout /\ WF_timeout(Expire) /\ WF_timeout(Tick)

-----------------------------------------------------------------------------
\* A record is in the list once, and every field has its type.
TypeOK ==
    /\ timeout \in Seq(Entry)
    /\ \A a, b \in 1..Len(timeout) : timeout[a].id = timeout[b].id => a = b

\* The loop looks at the first timeout only, to decide how long to sleep and
\* what to call: whatever the calls, the list stays in the order of its times.
Sorted == \A a, b \in 1..Len(timeout) : a < b => ~Before(timeout[b], timeout[a])

\* The list is a timer service: whatever a call does to it, the other timers
\* keep their times, and the clock runs for all of them.
left == [t \in Timer |-> IF t \in Ids
                           THEN timeout[CHOOSE j \in 1..Len(timeout) : timeout[j].id = t].left
                           ELSE Off]
Service == INSTANCE Timers WITH
    left <- left, Timer <- Timer, MaxDelay <- MaxDelay, Off <- Off
ImplementsTimers == Service!Spec

\* The timeout that the loop calls is one that is due, and none is due earlier:
\* nothing goes off early or out of order.
ExpiresInOrder == [][Expire => Service!Expire]_timeout

\* A timeout goes off or is cancelled at last, however many timeouts are
\* registered behind it with no delay, unless the program extends timeouts
\* for ever: one call per turn of the loop starves none.
NoneStarves == (<>[][~Extend]_timeout) => \A t \in Timer : (t \in Ids) ~> (t \notin Ids)

=============================================================================

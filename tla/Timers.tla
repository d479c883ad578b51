------------------------------- MODULE Timers -------------------------------
(***************************************************************************)
(* What a timer service promises: a timer that was started goes off once,  *)
(* not before its time is up and not before one that is due earlier,       *)
(* unless it is stopped first.                                             *)
(***************************************************************************)
EXTENDS Integers

CONSTANTS
    Timer,      \* timers
    MaxDelay,   \* longest delay
    Off         \* not a delay: the timer is not running

VARIABLE left   \* time left of each timer, -1 when it is overdue

Running == {t \in Timer : left[t] # Off}

Init == left = [t \in Timer |-> Off]

\* Timers are stopped, and one may be started, in the same step.
Change ==
    \E S \in SUBSET Running, T \in SUBSET Timer :
        /\ T \cap (Running \ S) = {}
        /\ \A t, u \in T : t = u
        /\ left' \in [Timer -> -1..MaxDelay \cup {Off}]
        /\ \A t \in Timer : IF t \in T THEN left'[t] \in 0..MaxDelay
                            ELSE left'[t] = IF t \in S THEN Off ELSE left[t]

Expire ==
    \E t \in Running :
        /\ left[t] <= 0
        /\ \A u \in Running : left[t] <= left[u]
        /\ left' = [left EXCEPT ![t] = Off]

Tick == left' = [t \in Timer |-> IF left[t] \in 0..MaxDelay THEN left[t] - 1 ELSE left[t]]

Next == Change \/ Expire \/ Tick

Spec == Init /\ [][Next]_left

=============================================================================

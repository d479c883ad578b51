---------------------------- MODULE EloopTimersMC ----------------------------
(* Instances of EloopTimers for TLC: list records are interchangeable. *)
EXTENDS EloopTimers, TLC

TimerSymmetry == Permutations(Timer)

==============================================================================

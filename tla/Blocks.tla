------------------------------- MODULE Blocks -------------------------------
(***************************************************************************)
(* What the control statements of Tao promise: a routine as nested blocks, *)
(* with no jump targets.  `at' is the statement about to be executed in an *)
(* activation of the routine, Done behind the last one, Rest outside.      *)
(***************************************************************************)
EXTENDS TaoPhrases

VARIABLES prog, at

Rest == 0
Done == Len(prog) + 1
Statements == DOMAIN prog \ At(prog, Braces)

\* The headers whose block the position i lies in, and the innermost loop.
Body(h)   == h + 2 .. PhrasePair(prog, h + 1) - 1
Around(i) == {h \in At(prog, Loops \cup Branches) : i \in Body(h)}
Loop(i)   == Around(i) \cap At(prog, Loops)

\* What comes next for an execution in the blocks `around' at position i.
Follow(i, around) ==
    LET loops == around \cap At(prog, Loops)
        later == {q \in Statements \ At(prog, {"elseif", "else"}) :
                    q > i /\ Around(q) \subseteq around
                          /\ (loops # {} => Max(loops) \in Around(q))}
    IN  IF later # {} THEN Min(later) ELSE IF loops # {} THEN Max(loops) ELSE Done

After(i) == Follow(i, Around(i))
Enter(i) == Follow(i + 1, Around(i) \cup {i})

\* The condition does not hold: the next branch of the chain, if there is one.
Decline(i) ==
    LET next == {q \in Statements : q > i /\ q \notin Body(i)}
    IN  IF next # {} /\ Min(next) \in At(prog, {"elseif", "else"})
                     /\ Around(Min(next)) = Around(i)
        THEN Min(next) ELSE After(i)

Successors(i) ==
    CASE prog[i] \in Loops -> {Enter(i), After(i)}
      [] prog[i] = "else" -> {Enter(i)}
      [] prog[i] \in {"if", "elseif"} -> {Enter(i), Decline(i)}
      [] prog[i] \in Returns -> {Done}
      [] prog[i] = "break" /\ Loop(i) # {} -> {After(Max(Loop(i)))}
      [] prog[i] = "skip" /\ Loop(i) # {} -> {Max(Loop(i))}
      [] OTHER -> {After(i)}

\* A break or skip in no loop, or behind a loop that is closed, gets no promise.
NoPromise(i) ==
    /\ prog[i] \in {"break", "skip"}
    /\ \/ Loop(i) = {}
       \/ \E h \in At(prog, Loops) \ Loop(i) : Max(Loop(i)) < h /\ h < i

-----------------------------------------------------------------------------
Init == at = Rest

\* A call starts at the first statement, or where a yield has left off.
Start == at = Rest /\ at' \in {Follow(0, {})} \cup {After(y) : y \in At(prog, {"yield"})}
Step == at \in Statements /\ (at' \in Successors(at) \/ NoPromise(at))
Stop == at = Done /\ at' = Rest

Next == (Start \/ Step \/ Stop) /\ UNCHANGED prog
Spec == Init /\ [][Next]_<<prog, at>>

=============================================================================

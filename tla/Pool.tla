-------------------------------- MODULE Pool --------------------------------
(***************************************************************************)
(* What the list between the two threads of cond.c promises: the numbers   *)
(* 0, 1, 2 ... are put on a stack, each is handed out once, and then it is *)
(* printed, or dropped with the thread that holds it.                      *)
(***************************************************************************)
EXTENDS Naturals, Sequences

CONSTANTS N, Nothing
VARIABLES made, stack, hand, printed

Init == made = 0 /\ stack = <<>> /\ hand = Nothing /\ printed = <<>>

Put  == made < N /\ made' = made + 1 /\ stack' = <<made>> \o stack /\ UNCHANGED <<hand, printed>>
Take == /\ stack # <<>> /\ hand = Nothing
        /\ hand' = Head(stack) /\ stack' = Tail(stack) /\ UNCHANGED <<made, printed>>
Show == hand # Nothing /\ printed' = Append(printed, hand) /\ hand' = Nothing /\ UNCHANGED <<made, stack>>
Drop == hand # Nothing /\ hand' = Nothing /\ UNCHANGED <<made, stack, printed>>

Next == Put \/ Take \/ Show \/ Drop
Spec == Init /\ [][Next]_<<made, stack, hand, printed>>
=============================================================================

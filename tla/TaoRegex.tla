------------------------------ MODULE TaoRegex ------------------------------
(***************************************************************************)
(* The regular expressions of Tao: search tries match at every position of *)
(* a string, match goes to and fro between the units of the pattern.  A    *)
(* step is a turn of the loop of match.  A unit is a word (of characters,  *)
(* each a set of those it stands for) with the number of its repeats.      *)
(* Left out: groups, which hold patterns of their own, and words that are   *)
(* computed from an expression.                                            *)
(***************************************************************************)
EXTENDS Integers, FiniteSetsExt, Sequences

CONSTANTS Patterns, Strings

VARIABLES rgxUnit, str,
    start,          \* where search tries to match
    j, min_match,   \* the unit of the turn, and whether it is begun anew
    shift,          \* the length that is matched
    numMatched,     \* for each unit, its repeats
    result

vars == <<rgxUnit, str, start, j, min_match, shift, numMatched, result>>

\* A unit is [word, ignorable, repMin, repMax]: a+ has the repMax MAX_REPEAT_MATCH,
\* a? and a* are ignorable, a{n,m} is what it says.
WordAt(u, s, pos) == /\ pos + Len(u.word) <= Len(s)
                     /\ \A i \in DOMAIN u.word : s[pos + i] \in u.word[i]
\* How often, up to n times, match_repeat matches u from pos on.
Repeats(u, s, pos, n) ==
    Max({k \in 0 .. Min({n, Len(s)}) : \A m \in 0 .. k - 1 : WordAt(u, s, pos + m * Len(u.word))})

\* A word is not empty.  A least number of repeats of two or more, which match_min
\* does not undo when it is met in part, is left out.
PatternAssumption ==
    /\ \A s \in Strings : Len(s) \in Nat
    /\ \A p \in Patterns :
         /\ Len(p) \in Nat /\ DOMAIN p = 1 .. Len(p)
         /\ \A k \in DOMAIN p :
              /\ Len(p[k].word) \in Nat \ {0} /\ p[k].ignorable \in BOOLEAN
              /\ p[k].repMin \in {0, 1} /\ p[k].repMax \in Nat /\ p[k].repMin <= p[k].repMax

Init ==
    /\ rgxUnit \in Patterns /\ str \in Strings
    /\ start = 0 /\ j = 1 /\ min_match = TRUE /\ shift = 0
    /\ numMatched = [k \in DOMAIN rgxUnit |-> 0] /\ result = "none"

unit == rgxUnit[j]
Matching == result = "none" /\ j \in DOMAIN rgxUnit /\ start < Len(str)
IsLast == j = Len(rgxUnit)
Greedy == IsLast \/ rgxUnit[j + 1].ignorable
\* The unit has n repeats, old of which are in shift already.
Repeated(old, n) == /\ numMatched' = [numMatched EXCEPT ![j] = n]
                    /\ shift' = shift + (n - old) * Len(unit.word)
\* Mutant: the unit is left with what it has matched.
KeepUnit == shift' = shift /\ numMatched' = numMatched
GiveUpUnit == shift' = shift - numMatched[j] * Len(unit.word) /\ numMatched' = numMatched
Onwards == min_match' = TRUE /\ IF IsLast THEN result' = "found" /\ j' = j ELSE j' = j + 1 /\ result' = result
Back    == min_match' = FALSE /\ j' = j - 1 /\ result' = result

match_min ==
    /\ Matching /\ min_match
    /\ LET least == Repeats(unit, str, start + shift, unit.repMin)
           more  == IF Greedy THEN Repeats(unit, str, start + shift, unit.repMax) ELSE least
       IN  IF least = unit.repMin THEN Repeated(0, more) /\ Onwards
           ELSE Repeated(0, least) /\ IF unit.ignorable THEN Onwards ELSE Back
    /\ UNCHANGED <<rgxUnit, str, start>>

match_repeat ==
    /\ Matching /\ ~min_match
    /\ LET old  == numMatched[j]
           more == Repeats(unit, str, start + shift, unit.repMax - old)
       IN  IF Greedy THEN Repeated(old, old + more) /\ Onwards
           ELSE IF more > 0 THEN Repeated(old, old + 1) /\ Onwards
           ELSE GiveUpUnit /\ Back
    /\ UNCHANGED <<rgxUnit, str, start>>

search ==               \* match has failed: the next position
    /\ result = "none" /\ (j = 0 \/ start >= Len(str))
    /\ IF start + 1 >= Len(str) THEN result' = "failed" ELSE result' = result
    /\ start' = start + 1 /\ j' = 1 /\ min_match' = TRUE /\ shift' = 0
    /\ UNCHANGED <<rgxUnit, str, numMatched>>

Next == match_min \/ match_repeat \/ search

Spec == Init /\ [][Next]_vars /\ WF_vars(Next)

-----------------------------------------------------------------------------
\* Where a match of the pattern from position from on can end.
Ends(from) ==
    LET counts(u) == (u.repMin .. Min({u.repMax, Len(str)})) \cup (IF u.ignorable THEN {0} ELSE {})
        ends[k \in 0 .. Len(rgxUnit)] ==
          IF k = 0 THEN {from}
          ELSE LET u == rgxUnit[k]
               IN  {x \in 0 .. Len(str) : \E e \in ends[k - 1], n \in counts(u) :
                        x = e + n * Len(u.word) /\ Repeats(u, str, e, n) = n}
    IN  ends[Len(rgxUnit)]

\* What search finds is a match of the pattern.  It is the first, and search fails
\* only if there is none, when no unit is ignorable: the way back through the units
\* then forgets no way to match.  (An ignorable unit that was matched is not tried
\* without: a?a does not match a.)
Finds ==
    /\ result = "found" => start + shift \in Ends(start)
    /\ result # "none" /\ (\A k \in DOMAIN rgxUnit : ~rgxUnit[k].ignorable)
       => \A from \in 0 .. (IF result = "found" THEN start ELSE Len(str)) - 1 : Ends(from) = {}

\* "otherwise, the matching process will be repeated on the string from the next
\* position pos+1" (taoRegex.cpp:520-521): every search comes to a result.
SearchEnds == <>(result # "none")
=============================================================================

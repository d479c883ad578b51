------------------------------ MODULE HeapSort ------------------------------
(***************************************************************************)
(* hsort.c: heap sort of nmemb elements, a step for each turn of a loop.    *)
(* sift_down is entered with base, nmemb and the parent n to begin at, and *)
(* returns to heapify as long as start is not negative, then to hsort.     *)
(***************************************************************************)
EXTENDS Integers

CONSTANTS Size,         \* bound: the longest array
          Keys,         \* what compar tells apart
          SizeValues, IntValues     \* how many values a size_t and an int have

VARIABLES a0, base,     \* the array at the call, and as it is
          nmemb, n, start, pc

vars == <<a0, base, nmemb, n, start, pc>>

Arrays == UNION {[0 .. k - 1 -> Keys] : k \in 1 .. Size}
\* Mutant: swap without the third variable.
Overwritten(a, i, j) == [a EXCEPT ![i] = a[j]]
Swapped(a, i, j) == [a EXCEPT ![i] = a[j], ![j] = a[i]]

AsInt(x) == LET y == x % IntValues IN IF 2 * y < IntValues THEN y ELSE y - IntValues
\* The index of the last parent: heapify takes it for an int, where an array of
\* one element makes -1 of it; sift_down, for two elements or more, does not.
LastParent(k) == ((k - 2) % SizeValues) \div 2
HeapifyStart(k) == AsInt(LastParent(k))

\* An int is narrower than size_t, and holds the indices of the array.
ASSUME SizeAssumption ==
    /\ Size \in Nat /\ Keys \subseteq Int
    /\ HeapifyStart(1) = -1
    /\ \A k \in 2 .. Size : LastParent(k) = (k - 2) \div 2 /\ HeapifyStart(k) = LastParent(k)

Init ==
    /\ a0 \in Arrays /\ base = a0
    /\ \E k \in 1 .. Size : DOMAIN a0 = 0 .. k - 1 /\ nmemb = k /\ start = HeapifyStart(k)
    /\ n = 0 /\ pc = "heapify"

Heapify ==              \* the head of heapify's loop
    /\ pc = "heapify" /\ start >= 0
    /\ n' = start /\ pc' = "sift"
    /\ UNCHANGED <<a0, base, nmemb, start>>

Heapified ==
    /\ pc = "heapify" /\ start < 0
    /\ pc' = "swap" /\ UNCHANGED <<a0, base, nmemb, n, start>>

\* Mutant: always the left child.
LeftChild(m, k) == 2 * k + 1
\* The child that takes the place of parent k of the first m, if it is greater.
BigChild(m, k) ==
    IF 2 * k + 2 < m /\ base[2 * k + 1] < base[2 * k + 2] THEN 2 * k + 2 ELSE 2 * k + 1

SwapChild ==
    /\ pc = "sift" /\ n <= LastParent(nmemb)
    /\ LET big_child == BigChild(nmemb, n)
       IN  /\ base[n] < base[big_child]
           /\ base' = Swapped(base, n, big_child) /\ n' = big_child
    /\ UNCHANGED <<a0, nmemb, start, pc>>

Sifted ==               \* sift_down returns to heapify or to hsort
    /\ pc = "sift"
    /\ n <= LastParent(nmemb) => base[n] >= base[BigChild(nmemb, n)]
    /\ IF start >= 0 THEN start' = start - 1 /\ pc' = "heapify"
                     ELSE start' = start /\ pc' = "swap"
    /\ UNCHANGED <<a0, base, nmemb, n>>

SwapEnd ==
    /\ pc = "swap" /\ base' = Swapped(base, 0, nmemb - 1) /\ nmemb' = nmemb - 1
    /\ n' = 0 /\ pc' = IF nmemb > 2 THEN "sift" ELSE "done"
    /\ UNCHANGED <<a0, start>>

Next == Heapify \/ Heapified \/ SwapChild \/ Sifted \/ SwapEnd

Spec == Init /\ [][Next]_vars /\ WF_vars(Next)

-----------------------------------------------------------------------------
\* What is behind the heap is in order and no less than what is before it, at every
\* step; so the array is in order at the end, whatever its length, one element and
\* equal ones included.
Sorted ==
    \A i, j \in DOMAIN base : i <= j /\ (nmemb <= j \/ pc = "done") => base[i] <= base[j]

\* The array holds what it held at the call, and each element as often.
Permutes(f) == /\ \A i, j \in DOMAIN base : f[i] = f[j] => i = j
               /\ base = [i \in DOMAIN base |-> a0[f[i]]]
Permuted == \E f \in [DOMAIN base -> DOMAIN a0] : Permutes(f)
=============================================================================

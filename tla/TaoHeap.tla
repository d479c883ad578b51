------------------------------ MODULE TaoHeap ------------------------------
(***************************************************************************)
(* What the collector of the Tao interpreter promises to the program: a    *)
(* heap from which objects disappear one at a time, and only those that    *)
(* no path of pointers from a root slot leads to.                          *)
(***************************************************************************)
CONSTANTS Obj, Null, Cells, Label

Owned(O) == O \X Label
Slot == Cells \cup Owned(Obj)

\* The roots are no part of an object.
HeapSlots == Null \notin Obj /\ Cells \cap Owned(Obj) = {}

VARIABLES ptr, alive

heap == <<ptr, alive>>

\* What the pointers of p lead to from the slots of C.
Targets(p, C) == {x \in Obj : \E s \in C : p[s] = x}
Closed(p, S) == \A o \in S : \A l \in Label : p[<<o, l>>] \in Obj => p[<<o, l>>] \in S
From(p, C) == {o \in Obj :
                 \A S \in SUBSET Obj : (Targets(p, C) \subseteq S /\ Closed(p, S)) => o \in S}
Reachable == From(ptr, Cells)

-----------------------------------------------------------------------------
Init == ptr = [s \in Slot |-> Null] /\ alive = {}

\* The program allocates the objects of `new' and writes slots; it can only
\* store what it can reach or has just allocated.
Mutate ==
    \E new \in SUBSET (Obj \ alive) :
        /\ alive' = alive \cup new
        /\ ptr' \in [Slot -> Obj \cup {Null}]
        /\ LET known == Reachable \cup new \cup {Null}
           IN  \A s \in Slot :
                 ptr'[s] \in known \/ (ptr'[s] = ptr[s] /\ s \notin Owned(new))

\* The collector deletes one object.
Delete ==
    \E o \in alive \ Reachable :
        /\ alive' = alive \ {o}
        /\ ptr' = [s \in Slot |-> IF s \in Owned({o}) THEN Null ELSE ptr[s]]

Next == Mutate \/ Delete

Spec == Init /\ [][Next]_heap

-----------------------------------------------------------------------------
TypeOK == ptr \in [Slot -> Obj \cup {Null}] /\ alive \subseteq Obj

\* Whatever the program can reach is allocated.
Safe == Reachable \subseteq alive

\* An object that the program cannot reach is out of its reach for good: a
\* collector may take its time to delete it.
GarbageStays == [][\A o \in alive \cap alive' : o \in Reachable' => o \in Reachable]_heap

=============================================================================

--------------------------- MODULE TaoHeapProofs ---------------------------
(***************************************************************************)
(* Whatever the program reaches is allocated, for heaps of any size: the   *)
(* promise of TaoHeap that the collector of TaoRecycler is shown to keep.  *)
(***************************************************************************)
EXTENDS TaoHeap, TLAPS

\* What is reached from C is reached for good: pointers do not lead out of it.
LEMMA FromClosed ==
    ASSUME NEW p, NEW C
    PROVE  /\ Closed(p, From(p, C))
           /\ Targets(p, C) \subseteq From(p, C)
           /\ From(p, C) \in SUBSET Obj
  BY DEF Closed, From, Targets

\* Reachability is the least closed set: any other closed set contains it.
LEMMA FromLeast ==
    ASSUME NEW p, NEW C, NEW S \in SUBSET Obj, Targets(p, C) \subseteq S, Closed(p, S)
    PROVE  From(p, C) \subseteq S
  BY DEF From

\* The program cannot reach by a step what it could not reach before, unless
\* it has just allocated it.
LEMMA MutateReach ==
    ASSUME HeapSlots, NEW p, NEW q, NEW new \in SUBSET Obj,
           \A s \in Slot : \/ q[s] \in From(p, Cells) \cup new \cup {Null}
                           \/ q[s] = p[s] /\ s \notin Owned(new)
    PROVE  From(q, Cells) \subseteq From(p, Cells) \cup new
  <1> DEFINE R == From(p, Cells)
  <1>1. R \in SUBSET Obj /\ Closed(p, R) /\ Targets(p, Cells) \subseteq R
    BY FromClosed
  <1> HIDE DEF R
  <1>2. Targets(q, Cells) \subseteq R \cup new
    <2> SUFFICES ASSUME NEW s \in Cells, q[s] \in Obj PROVE q[s] \in R \cup new
      BY DEF Targets
    <2>1. s \in Slot BY DEF Slot
    <2>2. CASE q[s] = p[s] BY <1>1, <2>2 DEF Targets
    <2>3. CASE q[s] \in R \cup new \cup {Null} BY <2>3 DEF HeapSlots
    <2> QED BY <2>1, <2>2, <2>3 DEF R
  <1>3. Closed(q, R \cup new)
    <2> SUFFICES ASSUME NEW o \in R \cup new, NEW l \in Label, q[<<o, l>>] \in Obj
                 PROVE  q[<<o, l>>] \in R \cup new
      BY DEF Closed
    <2>1. <<o, l>> \in Slot BY <1>1 DEF Slot, Owned
    <2>2. CASE q[<<o, l>>] \in R \cup new \cup {Null} BY <2>2 DEF HeapSlots
    <2>3. CASE q[<<o, l>>] = p[<<o, l>>] /\ <<o, l>> \notin Owned(new)
      <3>1. o \in R BY <2>3 DEF Owned
      <3> QED BY <1>1, <2>3, <3>1 DEF Closed
    <2> QED BY <2>1, <2>2, <2>3 DEF R
  <1> QED BY <1>1, <1>2, <1>3, FromLeast DEF R

\* Clearing slots leads nowhere new.
LEMMA ClearReach ==
    ASSUME HeapSlots, NEW p, NEW q, \A s \in Slot : q[s] \in {p[s], Null}
    PROVE  From(q, Cells) \subseteq From(p, Cells)
  <1>1. \A s \in Slot : \/ q[s] \in From(p, Cells) \cup {} \cup {Null}
                        \/ q[s] = p[s] /\ s \notin Owned({})
    BY DEF Owned
  <1> QED BY <1>1, MutateReach

HeapInv == TypeOK /\ Safe

LEMMA HeapInit == ASSUME HeapSlots, Init PROVE HeapInv
  <1>1. TypeOK BY DEF Init, TypeOK
  <1>2. Targets(ptr, Cells) = {} BY DEF Init, Targets, Slot, HeapSlots
  <1>3. Closed(ptr, {}) BY DEF Closed
  <1>4. Reachable \subseteq {} BY <1>2, <1>3, FromLeast DEF Reachable
  <1> QED BY <1>1, <1>4 DEF HeapInv, Safe

LEMMA HeapNext == ASSUME HeapSlots, HeapInv, [Next]_heap PROVE HeapInv'
  <1> USE DEF HeapInv
  <1>1. CASE Mutate
    <2>1. PICK new \in SUBSET (Obj \ alive) :
              /\ alive' = alive \cup new
              /\ ptr' \in [Slot -> Obj \cup {Null}]
              /\ \A s \in Slot : \/ ptr'[s] \in Reachable \cup new \cup {Null}
                                 \/ ptr'[s] = ptr[s] /\ s \notin Owned(new)
      BY <1>1 DEF Mutate
    <2>2. Reachable' \subseteq Reachable \cup new
      BY <2>1, MutateReach DEF Reachable
    <2> QED BY <2>1, <2>2 DEF TypeOK, Safe
  <1>2. CASE Delete
    <2>1. PICK o \in alive \ Reachable :
              /\ alive' = alive \ {o}
              /\ ptr' = [s \in Slot |-> IF s \in Owned({o}) THEN Null ELSE ptr[s]]
      BY <1>2 DEF Delete
    <2>2. Reachable' \subseteq Reachable BY <2>1, ClearReach DEF Reachable
    <2> QED BY <2>1, <2>2 DEF TypeOK, Safe
  <1>3. CASE UNCHANGED heap
    BY <1>3 DEF heap, TypeOK, Safe, Reachable
  <1> QED BY <1>1, <1>2, <1>3 DEF Next

\* Every object that the program can reach is allocated, in every heap that
\* behaves as the collector promises.
THEOREM HeapSafe == ASSUME HeapSlots PROVE Spec => []Safe
  <1>1. Spec => []HeapInv
    <2>1. Init => HeapInv BY HeapInit
    <2>2. HeapInv /\ [Next]_heap => HeapInv' BY HeapNext
    <2> QED BY <2>1, <2>2, PTL DEF Spec
  <1>2. HeapInv => Safe BY DEF HeapInv
  <1> QED BY <1>1, <1>2, PTL

\* What the program can no longer reach it never reaches again, so that a
\* collection may run at any later time.
THEOREM GarbageIsStable == ASSUME HeapSlots PROVE Spec => GarbageStays
  <1> DEFINE A == \A o \in alive \cap alive' : o \in Reachable' => o \in Reachable
  <1>1. ASSUME Next PROVE A
    <2>1. CASE Mutate
      <3>1. PICK new \in SUBSET (Obj \ alive) :
                \A s \in Slot : \/ ptr'[s] \in Reachable \cup new \cup {Null}
                                \/ ptr'[s] = ptr[s] /\ s \notin Owned(new)
        BY <2>1 DEF Mutate
      <3>2. Reachable' \subseteq Reachable \cup new
        BY <3>1, MutateReach DEF Reachable
      <3> QED BY <3>2
    <2>2. CASE Delete
      <3>1. PICK o \in alive \ Reachable :
                ptr' = [s \in Slot |-> IF s \in Owned({o}) THEN Null ELSE ptr[s]]
        BY <2>2 DEF Delete
      <3> QED BY <3>1, ClearReach DEF Reachable
    <2> QED BY <1>1, <2>1, <2>2 DEF Next
  <1>2. [Next]_heap => [A]_heap BY <1>1
  <1> QED BY <1>2, PTL DEF Spec, GarbageStays

=============================================================================

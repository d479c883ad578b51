------------------------- MODULE TaoRecyclerProofs -------------------------
(***************************************************************************)
(* The collector of the Tao interpreter is sound for programs with arrays  *)
(* and instances, whatever the number of objects, variables, temporaries   *)
(* and positions and whatever the thresholds of tryInvoke: IndInv is       *)
(* inductive.                                                              *)
(*                                                                         *)
(* What the argument turns on is CountInv: at every step of a collection   *)
(* the count of an object is the number of slots that refer to it, except  *)
(* the slots of a set of objects (Discounted) that the loops of            *)
(* recycleGarbage make larger, one by one, and then smaller again.  From   *)
(* IndInv follows that the heap is the one that TaoHeap promises.          *)
(***************************************************************************)
EXTENDS TaoRecycler, FiniteSetTheorems, TLAPS

LEMMA SlotFacts ==
    /\ Slot = Cells \cup Owned(Obj)
    /\ IsFiniteSet(Slot)
    /\ \A O \in SUBSET Obj : Owned(O) \subseteq Slot
  BY HeapAssumption DEF Slot, Owned, Heap!Slot, Heap!Owned

LEMMA OwnedFacts ==
    ASSUME NEW A, NEW B
    PROVE  /\ A \cap B = {} => Owned(A) \cap Owned(B) = {}
           /\ Owned(A \cup B) = Owned(A) \cup Owned(B)
           /\ Owned(A \ B) = Owned(A) \ Owned(B)
           /\ A \subseteq B => Owned(A) \subseteq Owned(B)
           /\ Owned({}) = {}
  BY DEF Owned, Heap!Owned

-----------------------------------------------------------------------------
\* Counting

LEMMA RefsType ==
    ASSUME NEW p, NEW x, NEW S \in SUBSET Slot
    PROVE  Refs(p, x, S) \in Nat
  <1>1. IsFiniteSet({s \in S : p[s] = x}) BY SlotFacts, FS_Subset
  <1> QED BY <1>1, FS_CardinalityType DEF Refs

LEMMA RefsZero ==
    ASSUME NEW p, NEW x, NEW S \in SUBSET Slot
    PROVE  Refs(p, x, S) = 0 <=> \A s \in S : p[s] # x
  <1>1. IsFiniteSet({s \in S : p[s] = x}) BY SlotFacts, FS_Subset
  <1>2. Refs(p, x, S) = 0 <=> {s \in S : p[s] = x} = {}
    BY <1>1, FS_EmptySet DEF Refs
  <1> QED BY <1>2

LEMMA RefsUnion ==
    ASSUME NEW p, NEW x, NEW A \in SUBSET Slot, NEW B \in SUBSET Slot, A \cap B = {}
    PROVE  Refs(p, x, A \cup B) = Refs(p, x, A) + Refs(p, x, B)
  <1> DEFINE a == {s \in A : p[s] = x}
             b == {s \in B : p[s] = x}
  <1>1. IsFiniteSet(a) /\ IsFiniteSet(b)
    <2>1. a \in SUBSET Slot /\ b \in SUBSET Slot OBVIOUS
    <2> HIDE DEF a, b
    <2>2. IsFiniteSet(Slot) BY SlotFacts
    <2>3. IsFiniteSet(a) BY <2>1, <2>2, FS_Subset
    <2>4. IsFiniteSet(b) BY <2>1, <2>2, FS_Subset
    <2> QED BY <2>3, <2>4
  <1>2. a \cap b = {} BY DEF a, b
  <1>3. /\ Refs(p, x, A) = Cardinality(a)
        /\ Refs(p, x, B) = Cardinality(b)
    BY DEF Refs
  <1>4. Refs(p, x, A \cup B) = Cardinality(a \cup b)
    <2>1. {s \in A \cup B : p[s] = x} = a \cup b OBVIOUS
    <2> QED BY <2>1 DEF Refs
  <1> HIDE DEF a, b
  <1>5. Cardinality(a \cup b) = Cardinality(a) + Cardinality(b) - Cardinality(a \cap b)
    BY <1>1, FS_Union
  <1>6. Cardinality(a) \in Nat /\ Cardinality(b) \in Nat BY <1>1, FS_CardinalityType
  <1>7. Cardinality(a \cap b) = 0 BY <1>2, FS_EmptySet
  <1> QED BY <1>3, <1>5, <1>6, <1>7, <1>4

\* Slots with the same pointers have the same counts.
LEMMA RefsSame ==
    ASSUME NEW p, NEW q, NEW x, NEW S, \A s \in S : p[s] = x <=> q[s] = x
    PROVE  Refs(p, x, S) = Refs(q, x, S)
  <1>1. {s \in S : p[s] = x} = {s \in S : q[s] = x} OBVIOUS
  <1> QED BY <1>1 DEF Refs

\* The slots of S are written: what the counts lose and gain.
LEMMA RefsWrite ==
    ASSUME NEW p, NEW q, NEW x, NEW S \in SUBSET Slot,
           \A s \in Slot \ S : q[s] = p[s]
    PROVE  Refs(q, x, Slot) = Refs(p, x, Slot) - Refs(p, x, S) + Refs(q, x, S)
  <1> DEFINE T == Slot \ S
  <1>1. T \in SUBSET Slot /\ S \cap T = {} /\ S \cup T = Slot OBVIOUS
  <1>2. Refs(p, x, T) = Refs(q, x, T) BY RefsSame
  <1> HIDE DEF T
  <1>3. /\ Refs(p, x, Slot) = Refs(p, x, S) + Refs(p, x, T)
        /\ Refs(q, x, Slot) = Refs(q, x, S) + Refs(q, x, T)
    BY <1>1, RefsUnion
  <1>4. /\ Refs(p, x, S) \in Nat /\ Refs(p, x, T) \in Nat
        /\ Refs(q, x, S) \in Nat /\ Refs(q, x, T) \in Nat
    BY <1>1, RefsType
  <1> QED BY <1>2, <1>3, <1>4

\* The references of one more object are taken off.
LEMMA RefsDiscount ==
    ASSUME NEW p, NEW x, NEW D \in SUBSET Obj, NEW c \in Obj, c \notin D
    PROVE  /\ Refs(p, x, Slot \ Owned(D)) =
                Refs(p, x, Slot \ Owned(D \cup {c})) + Refs(p, x, Owned({c}))
           /\ Refs(p, x, Slot \ Owned(D)) \in Nat
           /\ Refs(p, x, Slot \ Owned(D \cup {c})) \in Nat
           /\ Refs(p, x, Owned({c})) \in Nat
  <1> DEFINE A == Slot \ Owned(D \cup {c})
             B == Owned({c})
  <1>1. B \in SUBSET Slot BY SlotFacts
  <1>2. Owned(D) \cap B = {} /\ Owned(D \cup {c}) = Owned(D) \cup B
    <2>1. D \cap {c} = {} OBVIOUS
    <2> QED BY <2>1, OwnedFacts
  <1>3. A \cap B = {} /\ A \cup B = Slot \ Owned(D) BY <1>1, <1>2
  <1>4. A \in SUBSET Slot /\ Slot \ Owned(D) \in SUBSET Slot OBVIOUS
  <1>5. Refs(p, x, A \cup B) = Refs(p, x, A) + Refs(p, x, B)
    <2> HIDE DEF A, B
    <2> QED BY <1>1, <1>3, <1>4, RefsUnion
  <1>6. /\ Refs(p, x, A) \in Nat /\ Refs(p, x, B) \in Nat
        /\ Refs(p, x, Slot \ Owned(D)) \in Nat
    <2> HIDE DEF A, B
    <2> QED BY <1>1, <1>4, RefsType
  <1> QED BY <1>3, <1>5, <1>6

-----------------------------------------------------------------------------
\* Lists of objects

\* The loops append the objects of a set, each once and in some order.
LEMMA AppendOrder ==
    ASSUME NEW r \in Seq(Obj), Distinct(r), NEW new \in SUBSET Obj,
           Members(r) \cap new = {}, NEW q \in Orders(new)
    PROVE  /\ r \o q \in Seq(Obj)
           /\ Distinct(r \o q)
           /\ Len(r \o q) \in Nat /\ Len(r \o q) >= Len(r)
           /\ \A j \in 1..Len(r) : (r \o q)[j] = r[j]
           /\ Members(r \o q) = Members(r) \cup new
           /\ {(r \o q)[j] : j \in Len(r) + 1..Len(r \o q)} = new
  <1> DEFINE n == Cardinality(new)
             t == r \o q
  <1>1. IsFiniteSet(new) BY HeapAssumption, FS_Subset
  <1>2. n \in Nat BY <1>1, FS_CardinalityType
  <1>3. q \in [1..n -> new] /\ \A a, b \in 1..n : q[a] = q[b] => a = b
    BY DEF Orders
  <1>4. \A x \in new : \E a \in 1..n : q[a] = x
    <2>1. IsFiniteSet(1..n) /\ Cardinality(1..n) = n BY <1>2, FS_Interval
    <2>2. q \in Injection(1..n, new) BY <1>3 DEF Injection, IsInjective
    <2>3. q \in Surjection(1..n, new)
      <3> HIDE DEF n
      <3> QED BY <1>1, <2>1, <2>2, FS_Injection DEF n
    <2> QED BY <2>3 DEF Surjection
  <1> HIDE DEF n
  <1>5. q \in Seq(Obj) /\ Len(q) = n BY <1>2, <1>3
  <1>6. t \in Seq(Obj) /\ Len(t) = Len(r) + n /\ Len(r) \in Nat BY <1>5
  <1>7. /\ \A j \in 1..Len(r) : t[j] = r[j]
        /\ \A j \in Len(r) + 1..Len(t) : t[j] = q[j - Len(r)] /\ j - Len(r) \in 1..n
        /\ \A a \in 1..n : t[Len(r) + a] = q[a] /\ Len(r) + a \in Len(r) + 1..Len(t)
    BY <1>2, <1>5, <1>6
  <1> HIDE DEF t
  <1>8. {t[j] : j \in Len(r) + 1..Len(t)} = new
    <2>1. \A j \in Len(r) + 1..Len(t) : t[j] \in new BY <1>3, <1>7
    <2>2. ASSUME NEW x \in new PROVE x \in {t[j] : j \in Len(r) + 1..Len(t)}
      <3>1. PICK a \in 1..n : q[a] = x BY <1>4
      <3> QED BY <1>7, <3>1
    <2> QED BY <2>1, <2>2
  <1>9. Members(t) = Members(r) \cup new
    <2>1. 1..Len(t) = 1..Len(r) \cup (Len(r) + 1..Len(t)) BY <1>2, <1>6
    <2>2. Members(t) = {t[j] : j \in 1..Len(r)} \cup {t[j] : j \in Len(r) + 1..Len(t)}
      BY <2>1 DEF Members
    <2>3. {t[j] : j \in 1..Len(r)} = Members(r) BY <1>7 DEF Members
    <2> QED BY <1>8, <2>2, <2>3
  <1>10. Distinct(t)
    <2> SUFFICES ASSUME NEW a \in 1..Len(t), NEW b \in 1..Len(t), t[a] = t[b]
                 PROVE  a = b
      BY DEF Distinct
    <2>1. CASE a <= Len(r) /\ b <= Len(r)
      <3>1. a \in 1..Len(r) /\ b \in 1..Len(r) BY <1>6, <2>1
      <3> QED BY <1>7, <3>1 DEF Distinct
    <2>2. CASE a > Len(r) /\ b > Len(r)
      <3>1. a \in Len(r) + 1..Len(t) /\ b \in Len(r) + 1..Len(t) BY <1>6, <2>2
      <3>2. q[a - Len(r)] = q[b - Len(r)] BY <1>7, <3>1
      <3>3. a - Len(r) = b - Len(r) BY <1>3, <1>7, <3>1, <3>2
      <3> QED BY <1>6, <3>3
    <2>3. ASSUME NEW u \in 1..Len(t), NEW v \in 1..Len(t), u <= Len(r), v > Len(r)
          PROVE  t[u] # t[v]
      <3>1. u \in 1..Len(r) /\ v \in Len(r) + 1..Len(t) BY <1>6, <2>3
      <3>2. t[u] \in Members(r) BY <1>7, <3>1 DEF Members
      <3>3. t[v] \in new BY <1>8, <3>1
      <3> QED BY <3>2, <3>3
    <2> QED BY <1>6, <2>1, <2>2, <2>3
  <1> QED BY <1>2, <1>6, <1>7, <1>8, <1>9, <1>10 DEF t

-----------------------------------------------------------------------------
\* The operations of the program

\* What Enqueue makes of the list and the flags, when these agree.
LEMMA EnqueueFacts ==
    ASSUME TypeOK, Distinct(rootCandidates), \A x \in Obj : scanned[x] <=> x \in Cand,
           NEW new \in SUBSET Obj, \A x \in new : ~scanned[x],
           NEW zero \in SUBSET Obj, Enqueue(new, zero)
    PROVE  /\ rootCandidates' \in Seq(Obj)
           /\ Distinct(rootCandidates)'
           /\ Cand' = Cand \cup new
           /\ scanned' \in [Obj -> BOOLEAN]
           /\ \A x \in Obj : scanned'[x] <=> x \in Cand'
           /\ nObjWithZeroRC' \in Nat
           /\ Len(rootCandidates') >= Len(rootCandidates)
           /\ \A j \in 1..Len(rootCandidates) : rootCandidates'[j] = rootCandidates[j]
  <1>1. Members(rootCandidates) \cap new = {} BY DEF Cand
  <1>2. PICK q \in Orders(new) : rootCandidates' = rootCandidates \o q BY DEF Enqueue
  <1>3. rootCandidates \in Seq(Obj) BY DEF TypeOK
  <1>4. /\ rootCandidates \o q \in Seq(Obj)
        /\ Distinct(rootCandidates \o q)
        /\ Len(rootCandidates \o q) >= Len(rootCandidates)
        /\ \A j \in 1..Len(rootCandidates) :
             (rootCandidates \o q)[j] = rootCandidates[j]
        /\ Members(rootCandidates \o q) = Members(rootCandidates) \cup new
    BY <1>1, <1>3, AppendOrder
  <1>5. Cand' = Cand \cup new BY <1>2, <1>4 DEF Cand
  <1>6. scanned' = [x \in Obj |-> scanned[x] \/ x \in new] BY DEF Enqueue
  <1>7. scanned' \in [Obj -> BOOLEAN] BY <1>6 DEF TypeOK
  <1>8. \A x \in Obj : scanned'[x] <=> x \in Cand' BY <1>5, <1>6
  <1>9. nObjWithZeroRC' \in Nat
    <2>1. Cardinality(zero) \in Nat BY HeapAssumption, FS_Subset, FS_CardinalityType
    <2>2. nObjWithZeroRC \in Nat BY DEF TypeOK
    <2>3. MaxZeroRC \in Nat BY HeapAssumption
    <2> QED BY <2>1, <2>2, <2>3 DEF Enqueue, Capped
  <1>10. Distinct(rootCandidates)' BY <1>2, <1>4 DEF Distinct
  <1> QED BY <1>2, <1>4, <1>5, <1>7, <1>8, <1>9, <1>10

\* Between collections nothing is discounted.
LEMMA RunCounts ==
    ASSUME phase = "run"
    PROVE  CountInv <=> \A x \in Obj : refCount[x] = Refs(ptr, x, Slot)
  <1>1. Discounted = {} BY DEF Discounted
  <1>2. Slot \ Owned({}) = Slot BY OwnedFacts
  <1> QED BY <1>1, <1>2 DEF CountInv

\* The kinds of object that there are without hashes.
Kind == {"Array", "Object", "Reference"}

\* An operation of the program writes the slots of S, adjusts the counts, may
\* allocate objects and appends those of `new' to the candidates.
RunWrite(S, new) ==
    /\ ptr' \in [Slot -> Obj \cup {Null}]
    /\ \A s \in Slot \ S : ptr'[s] = ptr[s]
    /\ \A s \in S : ptr'[s] \in alive' \cup {Null}
    /\ \A s \in S : s \in Owned(Obj \ alive') => ptr'[s] = Null
    /\ Recount(S)
    /\ alive \subseteq alive' /\ alive' \subseteq Obj
    /\ kind' \in [Obj -> Kind]
    /\ SuperInv'
    /\ rootCandidates' \in Seq(Obj) /\ Distinct(rootCandidates)'
    /\ Cand' = Cand \cup new
    /\ scanned' \in [Obj -> BOOLEAN]
    /\ \A x \in Obj : scanned'[x] <=> x \in Cand'
    /\ nObjWithZeroRC' \in Nat /\ nObjNewed' \in Nat
    /\ UNCHANGED <<loopVars, lhs, corrupt>>

LEMMA RunWriteInv ==
    ASSUME IndInv, phase = "run", NEW S \in SUBSET Slot, NEW new \in SUBSET alive,
           RunWrite(S, new)
    PROVE  IndInv'
  <1>1. phase' = "run" /\ corrupt' = corrupt /\ lhs' = lhs
    BY DEF RunWrite, loopVars
  <1>2. /\ ptr' \in [Slot -> Obj \cup {Null}]
        /\ \A s \in Slot \ S : ptr'[s] = ptr[s]
        /\ \A s \in S : ptr'[s] \in alive' \cup {Null}
        /\ \A s \in S : s \in Owned(Obj \ alive') => ptr'[s] = Null
        /\ alive \subseteq alive' /\ alive' \subseteq Obj
    BY DEF RunWrite
  <1>3. refCount \in [Obj -> Int] /\ alive \subseteq Obj BY DEF IndInv, TypeOK
  <1>4. \A x \in Obj : refCount'[x] = refCount[x] - Refs(ptr, x, S) + Refs(ptr', x, S)
    BY DEF RunWrite, Recount
  <1>5. refCount' \in [Obj -> Int]
    <2>1. \A x \in Obj : Refs(ptr, x, S) \in Nat /\ Refs(ptr', x, S) \in Nat
      BY RefsType
    <2>2. \A x \in Obj : refCount[x] - Refs(ptr, x, S) + Refs(ptr', x, S) \in Int
      BY <1>3, <2>1
    <2> QED BY <2>2 DEF RunWrite, Recount
  <1>6. TypeOK'
    BY <1>2, <1>5 DEF IndInv, TypeOK, RunWrite, loopVars, Kind
  <1>7. (~corrupt /\ lhs = Null)' BY <1>1 DEF IndInv
  <1>8. (\A x \in Obj : kind[x] # "Hash")' BY DEF RunWrite, Kind
  <1>9. Distinct(rootCandidates)' BY DEF RunWrite
  <1>10. CountInv'
    <2>1. \A x \in Obj : refCount[x] = Refs(ptr, x, Slot) BY RunCounts DEF IndInv
    <2>2. \A x \in Obj : refCount'[x] = Refs(ptr', x, Slot)
      BY <1>2, <1>4, <2>1, RefsWrite
    <2>3. Discounted' = {} BY <1>1 DEF Discounted
    <2>4. Slot \ Owned({}) = Slot BY OwnedFacts
    <2> QED BY <2>2, <2>3, <2>4 DEF CountInv
  <1>11. PtrInv'
    <2>1. \A s \in Slot : ptr[s] \in alive \cup {Null} BY DEF IndInv, PtrInv
    <2>2. \A s \in Slot : ptr'[s] \in alive' \cup {Null} BY <1>2, <2>1
    <2>3. Owned(Obj \ alive') \subseteq Owned(Obj \ alive) BY <1>2, OwnedFacts
    <2>4. Owned(Obj \ alive') \subseteq Slot BY SlotFacts
    <2>5. \A s \in Owned(Obj \ alive) : ptr[s] = Null BY DEF IndInv, PtrInv
    <2>6. \A s \in Owned(Obj \ alive') : ptr'[s] = Null BY <1>2, <2>3, <2>4, <2>5
    <2> QED BY <2>2, <2>6 DEF PtrInv
  <1>12. RunInv'
    <2>1. Cand \subseteq alive BY DEF IndInv, RunInv
    <2> QED BY <1>2, <2>1 DEF RunInv, RunWrite
  <1>13. ScanInv' /\ MarkInv' /\ DeleteInv'
    BY <1>1 DEF ScanInv, MarkInv, DeleteInv
  <1>14. SuperInv' BY DEF RunWrite
  <1> QED BY <1>6, <1>7, <1>8, <1>9, <1>10, <1>11, <1>12, <1>13, <1>14 DEF IndInv

\* Most operations write no super-object, and none to the place of one.
Ordinary(S) ==
    /\ \A s \in S : ptr'[s] \notin Supers
    /\ \A o \in Obj : kind'[o] = "Object" => kind[o] = "Object" /\ <<o, "sub">> \notin S

\* They leave the super-objects where they are, and make candidates of others.
LEMMA SuperKept ==
    ASSUME IndInv, phase = "run", phase' = "run", NEW S \in SUBSET Slot, Ordinary(S),
           \A s \in Slot \ S : ptr'[s] = ptr[s],
           NEW new \in SUBSET Targets(S),
           \A x \in Obj : scanned'[x] <=> scanned[x] \/ x \in new
    PROVE  SuperInv'
  <1> SUFFICES ASSUME NEW o \in Obj, NEW q \in Obj,
                      kind'[o] = "Object", ptr'[<<o, "sub">>] = q
               PROVE  /\ \A s \in Slot : ptr'[s] = q => s = <<o, "sub">>
                      /\ ~scanned'[q]
    BY DEF SuperInv
  <1>1. <<o, "sub">> \in Slot BY SlotFacts DEF Owned, Heap!Owned, Label
  <1>2. kind[o] = "Object" /\ ptr[<<o, "sub">>] = q /\ <<o, "sub">> \notin S
    BY <1>1 DEF Ordinary
  <1>3. (\A s \in Slot : ptr[s] = q => s = <<o, "sub">>) /\ ~scanned[q]
    BY <1>2 DEF IndInv, SuperInv
  <1>4. q \in Supers BY <1>2 DEF Supers
  <1>5. \A s \in Slot : ptr'[s] = q => s = <<o, "sub">> BY <1>3, <1>4 DEF Ordinary
  <1>6. q \notin new BY <1>2, <1>3 DEF Targets, Heap!Targets
  <1> QED BY <1>3, <1>5, <1>6

\* The program cannot reach what was deleted.
LEMMA ReachableAlive ==
    ASSUME IndInv, phase = "run"
    PROVE  Reachable \subseteq alive
  <1>1. \A s \in Slot : ptr[s] \in alive \cup {Null} BY DEF IndInv, PtrInv
  <1>2. alive \in SUBSET Obj /\ Null \notin Obj BY HeapAssumption DEF IndInv, TypeOK
  <1>3. Heap!Targets(ptr, Cells) \subseteq alive
    BY <1>1, <1>2, SlotFacts DEF Heap!Targets
  <1>4. Heap!Closed(ptr, alive)
    <2> SUFFICES ASSUME NEW o \in alive, NEW l \in Label, ptr[<<o, l>>] \in Obj
                 PROVE  ptr[<<o, l>>] \in alive
      BY DEF Heap!Closed
    <2>1. <<o, l>> \in Slot BY <1>2, SlotFacts DEF Owned, Heap!Owned
    <2> QED BY <1>1, <1>2, <2>1
  <1> QED BY <1>2, <1>3, <1>4 DEF Reachable, Heap!Reachable, Heap!From

\* What pushRootCandidate makes of the list and the flags, for the pointers in
\* a set of slots that do not dangle.
LEMMA PushFacts ==
    ASSUME TypeOK, Distinct(rootCandidates), \A x \in Obj : scanned[x] <=> x \in Cand,
           ~corrupt, NEW S \in SUBSET Slot, \A s \in S : ptr[s] \in alive \cup {Null},
           NEW c, PushRootCandidates(c, S)
    PROVE  /\ corrupt' = corrupt
           /\ rootCandidates' \in Seq(Obj)
           /\ Distinct(rootCandidates)'
           /\ scanned' \in [Obj -> BOOLEAN]
           /\ \A x \in Obj : scanned'[x] <=> x \in Cand'
           /\ nObjWithZeroRC' \in Nat
           /\ Len(rootCandidates') >= Len(rootCandidates)
           /\ \A j \in 1..Len(rootCandidates) : rootCandidates'[j] = rootCandidates[j]
           /\ \E new \in SUBSET (alive \cap Targets(S)) : Cand' = Cand \cup new
           /\ Targets(S) \subseteq Cand'
  <1> DEFINE new == {x \in Targets(S) : ~scanned[x]}
             zero == {x \in new : c[x] = 1}
  <1>1. Targets(S) \subseteq Obj /\ Targets(S) \subseteq alive
    BY HeapAssumption DEF Targets, Heap!Targets
  <1>2. /\ new \in SUBSET Obj /\ zero \in SUBSET Obj
        /\ new \in SUBSET (alive \cap Targets(S))
        /\ \A x \in new : ~scanned[x]
    BY <1>1
  <1>3. Enqueue(new, zero) BY DEF PushRootCandidates
  <1>4. Targets(S) \subseteq Cand \cup new BY <1>1
  <1>5. corrupt' = corrupt
    <2>1. ~Dangling(S) BY DEF Dangling
    <2>2. corrupt' = (corrupt \/ Dangling(S)) BY DEF PushRootCandidates
    <2> QED BY <2>1, <2>2 DEF TypeOK
  <1> HIDE DEF new, zero
  <1>6. /\ rootCandidates' \in Seq(Obj)
        /\ Distinct(rootCandidates)'
        /\ Cand' = Cand \cup new
        /\ scanned' \in [Obj -> BOOLEAN]
        /\ \A x \in Obj : scanned'[x] <=> x \in Cand'
        /\ nObjWithZeroRC' \in Nat
        /\ Len(rootCandidates') >= Len(rootCandidates)
        /\ \A j \in 1..Len(rootCandidates) : rootCandidates'[j] = rootCandidates[j]
    BY <1>2, <1>3, EnqueueFacts
  <1>7. /\ \E n \in SUBSET (alive \cap Targets(S)) : Cand' = Cand \cup n
        /\ Targets(S) \subseteq Cand'
    BY <1>2, <1>4, <1>6
  <1> QED BY <1>5, <1>6, <1>7

\* Operations that write the slots of S and make candidates of what they held.
LEMMA PushWriteInv ==
    ASSUME IndInv, phase = "run", NEW S \in SUBSET Slot, NEW c,
           PushRootCandidates(c, S), Recount(S),
           ptr' \in [Slot -> Obj \cup {Null}],
           \A s \in Slot \ S : ptr'[s] = ptr[s],
           \A s \in S : ptr'[s] \in alive' \cup {Null},
           \A s \in S : s \in Owned(Obj \ alive') => ptr'[s] = Null,
           alive \subseteq alive', alive' \subseteq Obj,
           kind' \in [Obj -> Kind], Ordinary(S), nObjNewed' \in Nat,
           UNCHANGED <<loopVars, lhs>>
    PROVE  IndInv'
  <1>1. /\ TypeOK /\ Distinct(rootCandidates) /\ ~corrupt
        /\ \A x \in Obj : scanned[x] <=> x \in Cand
        /\ \A s \in S : ptr[s] \in alive \cup {Null}
    BY DEF IndInv, RunInv, PtrInv
  <1>2. PICK new \in SUBSET (alive \cap Targets(S)) : Cand' = Cand \cup new
    BY <1>1, PushFacts
  <1>3. RunWrite(S, new)
    <2>1. /\ corrupt' = corrupt
          /\ rootCandidates' \in Seq(Obj)
          /\ Distinct(rootCandidates)'
          /\ scanned' \in [Obj -> BOOLEAN]
          /\ \A x \in Obj : scanned'[x] <=> x \in Cand'
          /\ nObjWithZeroRC' \in Nat
      BY <1>1, PushFacts
    <2>2. phase' = "run" BY DEF loopVars
    <2>3. \A x \in Obj : scanned'[x] <=> scanned[x] \/ x \in new BY <1>1, <1>2, <2>1
    <2>4. SuperInv' BY <2>2, <2>3, SuperKept
    <2> QED BY <1>2, <2>1, <2>4 DEF RunWrite
  <1> QED BY <1>3, RunWriteInv

\* The heap that all operations start from.
LEMMA RunFacts ==
    ASSUME IndInv, phase = "run"
    PROVE  /\ ptr \in [Slot -> Obj \cup {Null}]
           /\ alive \in SUBSET Obj
           /\ kind \in [Obj -> Kind]
           /\ nObjNewed \in Nat
           /\ \A s \in Slot : ptr[s] \in alive \cup {Null}
           /\ Null \notin Obj
  BY HeapAssumption DEF IndInv, TypeOK, PtrInv, Kind

\* A place that is not that of a super-object.
Common(s) == \A o \in Obj : s = <<o, "sub">> => kind[o] # "Object"

\* The roots, the positions and the data members are such places.
LEMMA CommonPlaces ==
    /\ \A s \in Cells : Common(s)
    /\ \A a \in Obj, p \in Pos \cup {"ref"} : Common(<<a, p>>)
    /\ \A a \in Obj : kind[a] # "Object" => Common(<<a, "sub">>)
  <1>1. \A o \in Obj : <<o, "sub">> \notin Cells
    BY HeapAssumption DEF Owned, Heap!Owned, Label
  <1>2. "sub" \notin Pos \cup {"ref"} BY HeapAssumption
  <1> QED BY <1>1, <1>2 DEF Common

\* A value is stored, or null, in such places.
LEMMA OrdinaryWrite ==
    ASSUME IndInv, phase = "run", kind' = kind, NEW S \in SUBSET Slot,
           \A s \in S : Common(s), \A s \in S : ptr'[s] \notin Supers
    PROVE  Ordinary(S)
  BY DEF Ordinary, Common

LEMMA AssignInv ==
    ASSUME IndInv, phase = "run", NEW s \in Slot, s \notin Owned(Obj \ alive), Common(s),
           NEW x \in Values(Reachable) \cup {Null}, Assign(s, x)
    PROVE  IndInv'
  <1>2. x \in alive \cup {Null} /\ x \notin Supers
    BY ReachableAlive, HeapAssumption DEF Values, Supers
  <1> DEFINE c == IF x = Null THEN refCount ELSE Incremented(x)
  <1>3. /\ PushRootCandidates(c, {s}) /\ Recount({s})
        /\ ptr' = [ptr EXCEPT ![s] = x]
        /\ alive' = alive /\ kind' = kind /\ nObjNewed' = nObjNewed
        /\ UNCHANGED <<loopVars, lhs>>
    BY DEF Assign
  <1> HIDE DEF c
  <1>5. {s} \in SUBSET Slot OBVIOUS
  <1>6. /\ ptr' \in [Slot -> Obj \cup {Null}]
        /\ \A t \in Slot \ {s} : ptr'[t] = ptr[t]
        /\ \A t \in {s} : ptr'[t] \in alive' \cup {Null}
        /\ \A t \in {s} : t \in Owned(Obj \ alive') => ptr'[t] = Null
        /\ \A t \in {s} : ptr'[t] \notin Supers
    BY <1>2, <1>3, RunFacts
  <1>7. Ordinary({s}) BY <1>3, <1>5, <1>6, OrdinaryWrite
  <1> QED BY <1>3, <1>5, <1>6, <1>7, RunFacts, PushWriteInv

\* A position of a live array.
LEMMA ElementSlot ==
    ASSUME IndInv, phase = "run", NEW a \in Reachable, NEW p \in Label
    PROVE  /\ a \in alive /\ <<a, p>> \in Slot
           /\ <<a, p>> \notin Owned(Obj \ alive)
           /\ Elements(a) \in SUBSET Slot
           /\ Elements(a) \cap Owned(Obj \ alive) = {}
  <1>1. a \in alive /\ a \in Obj BY ReachableAlive, RunFacts
  <1>2. Pos \subseteq Label BY DEF Label
  <1>3. <<a, p>> \in Owned(Obj) /\ Elements(a) \subseteq Owned(Obj)
    BY <1>1, <1>2 DEF Owned, Heap!Owned, Elements
  <1>4. /\ <<a, p>> \notin Owned(Obj \ alive)
        /\ Elements(a) \cap Owned(Obj \ alive) = {}
    BY <1>1 DEF Owned, Heap!Owned, Elements
  <1> QED BY <1>1, <1>3, <1>4, SlotFacts

LEMMA InsertInv ==
    ASSUME IndInv, phase = "run", NEW a \in Reachable, NEW p \in Pos,
           NEW x \in Values(Reachable), Insert(a, p, x)
    PROVE  IndInv'
  <1>1. /\ <<a, p>> \in Slot /\ <<a, p>> \notin Owned(Obj \ alive)
        /\ Common(<<a, p>>)
    <2>1. p \in Label BY DEF Label
    <2> QED BY <2>1, ElementSlot, RunFacts, CommonPlaces
  <1>2. x \in alive /\ x \notin Supers BY ReachableAlive DEF Values
  <1>3. /\ Recount({<<a, p>>})
        /\ ptr' = [ptr EXCEPT ![<<a, p>>] = x]
        /\ UNCHANGED <<alive, kind, scanned, rootCandidates, nObjWithZeroRC,
                       nObjNewed, loopVars, lhs, corrupt>>
    BY DEF Insert
  <1>4. RunWrite({<<a, p>>}, {})
    <2>1. /\ ptr' \in [Slot -> Obj \cup {Null}]
          /\ \A t \in Slot \ {<<a, p>>} : ptr'[t] = ptr[t]
          /\ \A t \in {<<a, p>>} : ptr'[t] \in alive' \cup {Null}
          /\ \A t \in {<<a, p>>} : t \in Owned(Obj \ alive') => ptr'[t] = Null
      BY <1>1, <1>2, <1>3, RunFacts
    <2>2. /\ alive \subseteq alive' /\ alive' \subseteq Obj
          /\ kind' \in [Obj -> Kind]
          /\ nObjNewed' \in Nat
      BY <1>3, RunFacts
    <2>3. /\ rootCandidates' \in Seq(Obj) /\ Distinct(rootCandidates)'
          /\ Cand' = Cand \cup {}
          /\ scanned' \in [Obj -> BOOLEAN]
          /\ \A y \in Obj : scanned'[y] <=> y \in Cand'
          /\ nObjWithZeroRC' \in Nat
      BY <1>3 DEF IndInv, TypeOK, RunInv, Distinct, Cand, Members
    <2>4. SuperInv'
      <3>1. \A t \in {<<a, p>>} : ptr'[t] \notin Supers /\ Common(t)
        BY <1>1, <1>2, <1>3, RunFacts
      <3>2. Ordinary({<<a, p>>}) BY <1>1, <1>3, <3>1, OrdinaryWrite
      <3>3. {} \in SUBSET Targets({<<a, p>>}) /\ phase' = "run" BY <1>3 DEF loopVars
      <3>4. \A y \in Obj : scanned'[y] <=> scanned[y] \/ y \in {} BY <1>3
      <3> QED BY <1>1, <2>1, <3>2, <3>3, <3>4, SuperKept
    <2> QED BY <1>3, <2>1, <2>2, <2>3, <2>4 DEF RunWrite
  <1>5. {<<a, p>>} \in SUBSET Slot /\ {} \in SUBSET alive BY <1>1
  <1> QED BY <1>4, <1>5, RunWriteInv

LEMMA ReplaceInv ==
    ASSUME CountingProgram, IndInv, phase = "run", NEW a \in Reachable, NEW p \in Pos,
           NEW x \in Values(Reachable) \cup {Null}, Replace(a, p, x), UNCHANGED lhs
    PROVE  IndInv'
  <1>1. /\ <<a, p>> \in Slot /\ <<a, p>> \notin Owned(Obj \ alive)
        /\ Common(<<a, p>>)
    <2>1. p \in Label BY DEF Label
    <2> QED BY <2>1, ElementSlot, RunFacts, CommonPlaces
  <1>2. x # Null BY DEF Replace, CountingProgram
  <1>3. x \in alive /\ x \notin Supers BY <1>2, ReachableAlive DEF Values
  <1>4. /\ PushRootCandidates(refCount, {<<a, p>>}) /\ Recount({<<a, p>>})
        /\ ptr' = [ptr EXCEPT ![<<a, p>>] = x]
        /\ alive' = alive /\ kind' = kind /\ nObjNewed' = nObjNewed
        /\ UNCHANGED <<loopVars, lhs>>
    BY <1>2 DEF Replace
  <1>5. {<<a, p>>} \in SUBSET Slot BY <1>1
  <1>6. /\ ptr' \in [Slot -> Obj \cup {Null}]
        /\ \A t \in Slot \ {<<a, p>>} : ptr'[t] = ptr[t]
        /\ \A t \in {<<a, p>>} : ptr'[t] \in alive' \cup {Null}
        /\ \A t \in {<<a, p>>} : t \in Owned(Obj \ alive') => ptr'[t] = Null
        /\ \A t \in {<<a, p>>} : ptr'[t] \notin Supers /\ Common(t)
    BY <1>1, <1>3, <1>4, RunFacts
  <1>7. Ordinary({<<a, p>>}) BY <1>4, <1>5, <1>6, OrdinaryWrite
  <1> QED BY <1>4, <1>5, <1>6, <1>7, RunFacts, PushWriteInv

LEMMA EraseInv ==
    ASSUME IndInv, phase = "run", NEW S \in SUBSET Slot, \A s \in S : Common(s), Erase(S)
    PROVE  IndInv'
  <1>1. /\ PushRootCandidates(refCount, S) /\ Recount(S)
        /\ ptr' = [s \in Slot |-> IF s \in S THEN Null ELSE ptr[s]]
        /\ alive' = alive /\ kind' = kind /\ nObjNewed' = nObjNewed
        /\ UNCHANGED <<loopVars, lhs>>
    BY DEF Erase
  <1>2. /\ ptr' \in [Slot -> Obj \cup {Null}]
        /\ \A t \in Slot \ S : ptr'[t] = ptr[t]
        /\ \A t \in S : ptr'[t] \in alive' \cup {Null}
        /\ \A t \in S : t \in Owned(Obj \ alive') => ptr'[t] = Null
        /\ \A t \in S : ptr'[t] \notin Supers
    BY <1>1, RunFacts DEF Supers
  <1>3. Ordinary(S) BY <1>1, <1>2, OrdinaryWrite
  <1> QED BY <1>1, <1>2, <1>3, RunFacts, PushWriteInv

\* The slot s, which a live object or the syntax tree owns, is cleared of an
\* object that is used again, or gets a new one.
LEMMA ReuseInv ==
    ASSUME IndInv, phase = "run", NEW s \in Slot, Reuse(s)
    PROVE  IndInv'
  <1>1. ptr[s] \in Obj BY RunFacts DEF Reuse
  <1>2. Elements(ptr[s]) \in SUBSET Slot
    <2>1. Elements(ptr[s]) \subseteq Owned(Obj)
      BY <1>1 DEF Elements, Owned, Heap!Owned, Label
    <2> QED BY <2>1, SlotFacts
  <1>3. \A u \in Elements(ptr[s]) : Common(u) BY <1>1, CommonPlaces DEF Elements
  <1> QED BY <1>2, <1>3, EraseInv DEF Reuse

LEMMA RenewInv ==
    ASSUME IndInv, phase = "run", NEW s \in Slot, s \notin Owned(Obj \ alive), Common(s),
           NEW o \in Obj, NEW t \in {"Array"}, Renew(s, o, t)
    PROVE  IndInv'
  <1>1. /\ PushRootCandidates(refCount, {s}) /\ Recount({s})
        /\ ptr' = [ptr EXCEPT ![s] = o]
        /\ alive' = alive \cup {o} /\ o \notin alive /\ kind' = [kind EXCEPT ![o] = t]
        /\ nObjNewed' = Capped(nObjNewed + Cardinality({o}), MaxNewed)
        /\ UNCHANGED <<loopVars, lhs>>
    BY DEF Renew, Fresh
  <1>2. nObjNewed' \in Nat
    <2>1. Cardinality({o}) \in Nat
      <3>1. IsFiniteSet(Obj) /\ {o} \in SUBSET Obj BY HeapAssumption
      <3> QED BY <3>1, FS_Subset, FS_CardinalityType
    <2>2. MaxNewed \in Nat BY HeapAssumption
    <2> QED BY <1>1, <2>1, <2>2, RunFacts DEF Capped
  <1>3. kind' \in [Obj -> Kind] BY <1>1, RunFacts DEF Kind
  <1>4. alive \subseteq alive' /\ alive' \subseteq Obj BY <1>1, RunFacts
  <1>5. Owned(Obj \ alive') \subseteq Owned(Obj \ alive) BY <1>4, OwnedFacts
  <1>6. /\ ptr' \in [Slot -> Obj \cup {Null}]
        /\ \A u \in Slot \ {s} : ptr'[u] = ptr[u]
        /\ \A u \in {s} : ptr'[u] \in alive' \cup {Null}
        /\ \A u \in {s} : u \in Owned(Obj \ alive') => ptr'[u] = Null
    BY <1>1, <1>5, RunFacts
  <1>7. {s} \in SUBSET Slot OBVIOUS
  <1>8. Ordinary({s})
    <2>1. o \notin Supers
      <3> SUFFICES ASSUME NEW x \in Obj, ptr[<<x, "sub">>] = o PROVE FALSE
        BY DEF Supers
      <3>1. <<x, "sub">> \in Slot BY SlotFacts DEF Owned, Heap!Owned, Label
      <3> QED BY <1>1, <3>1, RunFacts
    <2>2. \A x \in Obj : kind'[x] = "Object" => kind[x] = "Object" BY <1>1, RunFacts
    <2> QED BY <1>1, <2>1, <2>2, RunFacts DEF Ordinary, Common
  <1> QED BY <1>1, <1>2, <1>3, <1>4, <1>6, <1>7, <1>8, PushWriteInv

\* The gcAgent forgets the objects it made.
LEMMA ClearInv ==
    ASSUME IndInv, phase = "run", ClearNewObjects
    PROVE  IndInv'
  <1> DEFINE new == {x \in Targets(Agent) : ~scanned[x] /\ refCount[x] = Refs(ptr, x, Agent)}
  <1>1. /\ Recount(Agent) /\ Enqueue(new, new)
        /\ ptr' = [s \in Slot |-> IF s \in Agent THEN Null ELSE ptr[s]]
        /\ corrupt' = (corrupt \/ Dangling(Agent))
        /\ UNCHANGED <<alive, kind, nObjNewed, loopVars, lhs>>
    BY DEF ClearNewObjects
  <1>2. Agent \in SUBSET Slot BY SlotFacts DEF Cells
  <1>3. /\ new \in SUBSET alive /\ new \in SUBSET Targets(Agent)
        /\ \A x \in new : ~scanned[x]
    BY <1>2, RunFacts DEF Targets, Heap!Targets
  <1> HIDE DEF new
  <1>4. corrupt' = corrupt
    <2>1. ~Dangling(Agent) BY <1>2, RunFacts DEF Dangling
    <2> QED BY <1>1, <2>1 DEF IndInv, TypeOK
  <1>5. /\ TypeOK /\ Distinct(rootCandidates)
        /\ \A x \in Obj : scanned[x] <=> x \in Cand
        /\ new \in SUBSET Obj
    BY <1>3, RunFacts DEF IndInv, RunInv
  <1>6. /\ ptr' \in [Slot -> Obj \cup {Null}]
        /\ \A t \in Slot \ Agent : ptr'[t] = ptr[t]
        /\ \A t \in Agent : ptr'[t] \in alive' \cup {Null}
        /\ \A t \in Agent : t \in Owned(Obj \ alive') => ptr'[t] = Null
        /\ \A t \in Agent : Common(t) /\ ptr'[t] \notin Supers
    BY <1>1, <1>2, RunFacts, CommonPlaces DEF Cells, Supers
  <1>7. /\ rootCandidates' \in Seq(Obj)
        /\ Distinct(rootCandidates)'
        /\ Cand' = Cand \cup new
        /\ scanned' \in [Obj -> BOOLEAN]
        /\ \A x \in Obj : scanned'[x] <=> x \in Cand'
        /\ nObjWithZeroRC' \in Nat
    BY <1>1, <1>3, <1>5, EnqueueFacts
  <1>8. SuperInv'
    <2>1. Ordinary(Agent) BY <1>1, <1>2, <1>6, OrdinaryWrite
    <2>2. phase' = "run" BY <1>1 DEF loopVars
    <2>3. \A x \in Obj : scanned'[x] <=> scanned[x] \/ x \in new BY <1>5, <1>7
    <2> QED BY <1>2, <1>3, <1>6, <2>1, <2>2, <2>3, SuperKept
  <1>9. RunWrite(Agent, new)
    BY <1>1, <1>4, <1>6, <1>7, <1>8, RunFacts DEF RunWrite
  <1> QED BY <1>2, <1>3, <1>9, RunWriteInv

\* A new instance: nothing but the instance refers to its super-object.
LEMMA NewObjectInv ==
    ASSUME IndInv, phase = "run", NEW g \in Agent, NEW o \in Obj, NEW r \in Obj,
           NEW q \in Obj \cup {Null}, NewObject(g, o, r, q)
    PROVE  IndInv'
  <1> DEFINE O == {o, r, q} \ {Null}
             S == {g, <<o, "ref">>, <<o, "sub">>}
  <1>1. /\ o # r /\ o # q /\ r # q
        /\ O \cap alive = {} /\ alive' = alive \cup O
        /\ nObjNewed' = Capped(nObjNewed + Cardinality(O), MaxNewed)
        /\ kind' = [x \in Obj |-> IF x = r THEN "Reference"
                                  ELSE IF x \in {o, q} THEN "Object" ELSE kind[x]]
        /\ ptr' = [ptr EXCEPT ![g] = o, ![<<o, "ref">>] = r, ![<<o, "sub">>] = q]
        /\ Recount(S)
        /\ UNCHANGED <<scanned, rootCandidates, nObjWithZeroRC, loopVars, lhs, corrupt>>
    BY DEF NewObject, MakeObject, Fresh
  <1>2. g \in Slot /\ g \notin Owned(Obj)
    BY HeapAssumption, SlotFacts DEF Cells, Owned
  <1>3. /\ \A x \in Obj : <<x, "sub">> \in Slot /\ <<x, "ref">> \in Slot
        /\ \A x \in Obj : <<x, "sub">> # g /\ <<x, "ref">> # g
    BY <1>2, SlotFacts DEF Owned, Heap!Owned, Label
  <1>4. S \in SUBSET Slot BY <1>2, <1>3
  <1>5. /\ O \in SUBSET Obj /\ {o, r} \subseteq O
        /\ alive' \subseteq Obj /\ alive \subseteq alive'
    BY <1>1, RunFacts
  <1> HIDE DEF O
  <1>6. /\ ptr'[g] = o /\ ptr'[<<o, "ref">>] = r /\ ptr'[<<o, "sub">>] = q
        /\ \A s \in Slot \ S : ptr'[s] = ptr[s]
        /\ ptr' \in [Slot -> Obj \cup {Null}]
    BY <1>1, <1>2, <1>3, RunFacts
  <1>7. \A s \in S : ptr'[s] \in alive' \cup {Null}
    <2>1. o \in alive' /\ r \in alive' /\ q \in alive' \cup {Null} BY <1>1, <1>5 DEF O
    <2> QED BY <1>6, <2>1
  <1>8. S \cap Owned(Obj \ alive') = {}
    <2>1. o \in alive' BY <1>1, <1>5
    <2>2. \A l : <<o, l>> \notin Owned(Obj \ alive') BY <2>1 DEF Owned, Heap!Owned
    <2>3. Owned(Obj \ alive') \subseteq Owned(Obj) BY OwnedFacts
    <2> QED BY <1>2, <2>2, <2>3
  <1>9. kind' \in [Obj -> Kind] BY <1>1, RunFacts DEF Kind
  <1>10. nObjNewed' \in Nat
    <2>1. Cardinality(O) \in Nat
      <3>1. IsFiniteSet(Obj) BY HeapAssumption
      <3> QED BY <1>5, <3>1, FS_Subset, FS_CardinalityType
    <2>2. MaxNewed \in Nat BY HeapAssumption
    <2> QED BY <1>1, <2>1, <2>2, RunFacts DEF Capped
  <1>11. SuperInv'
    <2> SUFFICES ASSUME NEW x \in Obj, NEW y \in Obj,
                        kind'[x] = "Object", ptr'[<<x, "sub">>] = y
                 PROVE  /\ \A s \in Slot : ptr'[s] = y => s = <<x, "sub">>
                        /\ ~scanned[y]
      BY <1>1 DEF SuperInv, loopVars
    <2>1. CASE x = o
      <3>1. y = q BY <1>6, <2>1
      <3>2. y \notin alive BY <1>1, <3>1, RunFacts DEF O
      <3>3. ~scanned[y] BY <3>2 DEF IndInv, RunInv
      <3>4. \A s \in Slot : ptr[s] # y BY <3>2, RunFacts
      <3> QED BY <1>1, <1>6, <2>1, <3>1, <3>3, <3>4
    <2>2. CASE x # o
      <3>1. <<x, "sub">> \notin S BY <1>3, <2>2
      <3>2. ptr[<<x, "sub">>] = y BY <1>3, <1>6, <3>1
      <3>3. x \in alive
        <4>1. <<x, "sub">> \in Owned(Obj \ alive) => ptr[<<x, "sub">>] = Null
          BY DEF IndInv, PtrInv
        <4>2. y # Null BY RunFacts
        <4> QED BY <3>2, <4>1, <4>2 DEF Owned, Heap!Owned, Label
      <3>4. kind[x] = "Object"
        <4>1. x # q BY <1>1, <3>3, RunFacts DEF O
        <4> QED BY <1>1, <2>2, <4>1
      <3>5. (\A s \in Slot : ptr[s] = y => s = <<x, "sub">>) /\ ~scanned[y]
        BY <3>2, <3>4 DEF IndInv, SuperInv
      <3>6. y \in alive BY <1>3, <3>2, RunFacts
      <3>7. y # o /\ y # r /\ y # q BY <1>1, <1>5, <3>6, RunFacts DEF O
      <3>8. \A s \in S : ptr'[s] # y BY <1>6, <3>7
      <3> QED BY <1>6, <3>5, <3>8
    <2> QED BY <2>1, <2>2
  <1>12. RunWrite(S, {})
    <2>1. /\ rootCandidates' \in Seq(Obj) /\ Distinct(rootCandidates)'
          /\ Cand' = Cand \cup {}
          /\ scanned' \in [Obj -> BOOLEAN]
          /\ \A y \in Obj : scanned'[y] <=> y \in Cand'
          /\ nObjWithZeroRC' \in Nat
      BY <1>1 DEF IndInv, TypeOK, RunInv, Distinct, Cand, Members
    <2> HIDE DEF S
    <2> QED BY <1>1, <1>5, <1>6, <1>7, <1>8, <1>9, <1>10, <1>11, <2>1 DEF RunWrite
  <1>13. {} \in SUBSET alive OBVIOUS
  <1> HIDE DEF S
  <1> QED BY <1>4, <1>12, <1>13, RunWriteInv

\* What a program without hashes can do, and to which objects.
LEMMA ProgramCases ==
    ASSUME CountingProgram, IndInv, Program
    PROVE  /\ phase = "run"
           /\ \/ \E v \in Var, x \in Values(Reachable) \cup {Null} : Assign(v, x)
              \/ \E r \in Reachable, x \in Values(Reachable) \cup {Null} :
                   Assign(<<r, "ref">>, x)
              \/ \E a \in Reachable, p \in Pos, x \in Values(Reachable) : Insert(a, p, x)
              \/ \E a \in Reachable, p \in Pos, x \in Values(Reachable) \cup {Null} :
                   Replace(a, p, x) /\ UNCHANGED lhs
              \/ \E a \in Reachable, p \in Pos : Erase({<<a, p>>})
              \/ \E a \in Reachable : Erase(Elements(a))
              \/ \E s \in Temp : Reuse(s)
              \/ \E s \in Temp, o \in Obj : Renew(s, o, "Array")
              \/ \E a \in Reachable : Reuse(<<a, "sub">>)
              \/ \E a \in Reachable, o \in Obj :
                   kind[a] # "Object" /\ Renew(<<a, "sub">>, o, "Array")
              \/ \E g \in Agent, o, r \in Obj, q \in Obj \cup {Null} :
                   "Object" \in Kinds /\ NewObject(g, o, r, q)
              \/ ClearNewObjects
  <1> DEFINE R == Reachable
             A == Containers(R, {"Array"})
             M == Containers(R, {"Reference"})
             V == Values(R)
  <1>1. phase = "run" BY DEF Program, Running
  <1>2. /\ Containers(R, {"Hash"}) = {}
        /\ Containers(R, {"Array", "Hash"}) = A
    <2>1. R \subseteq alive /\ alive \subseteq Obj BY <1>1, ReachableAlive, RunFacts
    <2>2. \A x \in Obj : kind[x] # "Hash" BY DEF IndInv
    <2> HIDE DEF R
    <2> QED BY <2>1, <2>2 DEF Containers
  <1>3. M \subseteq R /\ A \subseteq R /\ \A a \in A : kind[a] = "Array"
    BY DEF Containers
  <1>4. Kinds \ {"Object"} \subseteq {"Array"} /\ ~RhsCalls
    BY HeapAssumption DEF CountingProgram
  <1>5. ASSUME NEW g, NEW o, NEW r, NEW q, NewObject(g, o, r, q) PROVE "Object" \in Kinds
    BY <1>5 DEF NewObject, MakeObject
  <1>6. ASSUME NEW a, EvalLeft(a) PROVE FALSE BY <1>4, <1>6 DEF EvalLeft
  <1>7. ASSUME NEW p, NEW x, StoreLeft(p, x) PROVE FALSE
    BY <1>7 DEF StoreLeft, IndInv
  <1>8. \/ \E v \in Var, x \in V \cup {Null} : Assign(v, x)
        \/ \E r \in M, x \in V \cup {Null} : Assign(<<r, "ref">>, x)
        \/ \E a \in A, p \in Pos, x \in V : Insert(a, p, x)
        \/ \E a \in A, p \in Pos, x \in V \cup {Null} : Replace(a, p, x) /\ UNCHANGED lhs
        \/ \E a \in A, p \in Pos : Erase({<<a, p>>})
        \/ \E a \in A : Erase(Elements(a))
        \/ \E s \in Temp : Reuse(s)
        \/ \E s \in Temp, o \in Obj, t \in Kinds \ {"Object"} : Renew(s, o, t)
        \/ \E a \in A : Reuse(<<a, "sub">>)
        \/ \E a \in A, o \in Obj : Renew(<<a, "sub">>, o, kind[a])
        \/ \E g \in Agent, o, r \in Obj, q \in Obj \cup {Null} : NewObject(g, o, r, q)
        \/ ClearNewObjects
        \/ \E a \in A : EvalLeft(a)
        \/ \E p \in Pos, x \in V \cup {Null} : StoreLeft(p, x)
    <2> HIDE DEF R, A, V, M
    <2> QED BY <1>2 DEF Program, R, A, V, M
  <1> HIDE DEF R, A, V, M
  <1>9. R = Reachable /\ V = Values(Reachable) BY DEF R, V
  <1> QED BY <1>1, <1>3, <1>4, <1>5, <1>6, <1>7, <1>8, <1>9

LEMMA ProgramInv ==
    ASSUME CountingProgram, IndInv, Program
    PROVE  IndInv'
  <1>1. phase = "run" BY ProgramCases
  <1>2. /\ Var \subseteq Cells /\ Temp \subseteq Cells
        /\ Cells \subseteq Slot /\ Cells \cap Owned(Obj) = {}
    BY HeapAssumption, SlotFacts DEF Cells, Owned
  <1>3. Owned(Obj \ alive) \subseteq Owned(Obj) BY OwnedFacts
  <1>4. \A a \in Reachable, p \in Label :
          /\ a \in Obj /\ <<a, p>> \in Slot /\ <<a, p>> \notin Owned(Obj \ alive)
          /\ Elements(a) \in SUBSET Slot
    BY <1>1, ElementSlot, RunFacts
  <1>5. Pos \cup {"sub", "ref"} \subseteq Label BY DEF Label
  <1>6. ASSUME NEW v \in Var, NEW x \in Values(Reachable) \cup {Null}, Assign(v, x)
        PROVE  IndInv'
    <2>1. v \in Slot /\ v \notin Owned(Obj \ alive) /\ Common(v)
      BY <1>2, <1>3, CommonPlaces
    <2> QED BY <1>1, <1>6, <2>1, AssignInv
  <1>7. ASSUME NEW r \in Reachable, NEW x \in Values(Reachable) \cup {Null},
               Assign(<<r, "ref">>, x)
        PROVE  IndInv'
    <2>1. <<r, "ref">> \in Slot /\ <<r, "ref">> \notin Owned(Obj \ alive)
          /\ Common(<<r, "ref">>)
      BY <1>4, <1>5, CommonPlaces
    <2> QED BY <1>1, <1>7, <2>1, AssignInv
  <1>8. ASSUME NEW a \in Reachable, NEW p \in Pos,
               \/ \E x \in Values(Reachable) : Insert(a, p, x)
               \/ \E x \in Values(Reachable) \cup {Null} : Replace(a, p, x) /\ UNCHANGED lhs
        PROVE  IndInv'
    BY <1>1, <1>8, InsertInv, ReplaceInv
  <1>9. ASSUME NEW a \in Reachable, NEW p \in Pos, Erase({<<a, p>>}) PROVE IndInv'
    <2>1. {<<a, p>>} \in SUBSET Slot /\ \A s \in {<<a, p>>} : Common(s)
      BY <1>4, <1>5, CommonPlaces
    <2> QED BY <1>1, <1>9, <2>1, EraseInv
  <1>10. ASSUME NEW a \in Reachable, Erase(Elements(a)) PROVE IndInv'
    <2>1. Elements(a) \in SUBSET Slot BY <1>4, <1>5
    <2>2. \A s \in Elements(a) : Common(s) BY <1>4, <1>5, CommonPlaces DEF Elements
    <2> QED BY <1>1, <1>10, <2>1, <2>2, EraseInv
  <1>11. ASSUME NEW s \in Temp, Reuse(s) \/ \E o \in Obj : Renew(s, o, "Array")
         PROVE  IndInv'
    <2>1. s \in Slot /\ s \notin Owned(Obj \ alive) /\ Common(s)
      BY <1>2, <1>3, CommonPlaces
    <2> QED BY <1>1, <1>11, <2>1, ReuseInv, RenewInv
  <1>12. ASSUME NEW a \in Reachable, Reuse(<<a, "sub">>) PROVE IndInv'
    <2>1. <<a, "sub">> \in Slot BY <1>4, <1>5
    <2> QED BY <1>1, <1>12, <2>1, ReuseInv
  <1>13. ASSUME NEW a \in Reachable, NEW o \in Obj, kind[a] # "Object",
                Renew(<<a, "sub">>, o, "Array")
         PROVE  IndInv'
    <2>1. <<a, "sub">> \in Slot /\ <<a, "sub">> \notin Owned(Obj \ alive)
          /\ Common(<<a, "sub">>)
      BY <1>4, <1>5, <1>13, CommonPlaces
    <2> QED BY <1>1, <1>13, <2>1, RenewInv
  <1>14. ASSUME NEW g \in Agent, NEW o \in Obj, NEW r \in Obj, NEW q \in Obj \cup {Null},
                NewObject(g, o, r, q)
         PROVE  IndInv'
    BY <1>1, <1>14, NewObjectInv
  <1>15. ASSUME ClearNewObjects PROVE IndInv' BY <1>1, <1>15, ClearInv
  <1> QED BY <1>6, <1>7, <1>8, <1>9, <1>10, <1>11, <1>12, <1>13, <1>14, <1>15, ProgramCases

-----------------------------------------------------------------------------
\* The collector

\* The part of the state that the loops leave alone.
LEMMA HeapKept ==
    ASSUME IndInv, UNCHANGED heapVars
    PROVE  /\ (\A x \in Obj : kind[x] # "Hash")'
           /\ ptr' = ptr /\ alive' = alive /\ kind' = kind
  BY DEF IndInv, heapVars

\* The place of a super-object belongs to its instance.
LEMMA SuperSlot == ASSUME NEW o \in Obj PROVE <<o, "sub">> \in Owned({o})
  BY DEF Owned, Heap!Owned, Label

LEMMA TryInvokeInv ==
    ASSUME IndInv, TryInvoke
    PROVE  IndInv'
  <1>1. /\ phase = "run" /\ phase' = "scan" /\ i' = 1
        /\ UNCHANGED <<heapVars, countVars, nObjNewed, objAlive, k, size, lhs, corrupt>>
    BY DEF TryInvoke, Running
  <1>2. rootCandidates \in Seq(Obj) BY DEF IndInv, TypeOK
  <1>3. TypeOK' BY <1>1 DEF IndInv, TypeOK, heapVars, countVars
  <1>4. Discounted' = {} /\ Prefix(i - 1)' = {}
    <2>1. Prefix(0)' = {} BY DEF Prefix
    <2>2. (i - 1)' = 0 BY <1>1
    <2>3. Prefix(i - 1)' = {} BY <2>1, <2>2 DEF Prefix
    <2> QED BY <1>1, <2>3 DEF Discounted
  <1>5. CountInv'
    <2>1. \A x \in Obj : refCount[x] = Refs(ptr, x, Slot)
      BY <1>1, RunCounts DEF IndInv
    <2>2. Slot \ Owned({}) = Slot BY OwnedFacts
    <2> QED BY <1>1, <1>4, <2>1, <2>2 DEF CountInv, heapVars, countVars
  <1>6. PtrInv' BY <1>1 DEF IndInv, PtrInv, heapVars
  <1>7. ScanInv'
    <2>1. /\ \A x \in Obj : scanned'[x] <=> x \in Cand'
          /\ Cand' \subseteq alive'
      BY <1>1 DEF IndInv, RunInv, heapVars, countVars, Cand, Members
    <2>2. i' <= Len(rootCandidates') + 1 BY <1>1, <1>2 DEF countVars
    <2>3. Owned({}) = {} BY OwnedFacts
    <2> QED BY <1>4, <2>1, <2>2, <2>3 DEF ScanInv
  <1>8. RunInv' /\ MarkInv' /\ DeleteInv' BY <1>1 DEF RunInv, MarkInv, DeleteInv
  <1>9. (~corrupt /\ lhs = Null /\ Distinct(rootCandidates))'
    BY <1>1 DEF IndInv, countVars, Distinct
  <1>10. SuperInv' BY <1>1 DEF IndInv, SuperInv, heapVars, countVars
  <1> QED BY <1>1, <1>3, <1>5, <1>6, <1>7, <1>8, <1>9, <1>10, HeapKept DEF IndInv

\* An object is visited through all the slots it owns, when the super-object of
\* an instance is not flagged before it.
LEMMA VisitedFacts ==
    ASSUME NEW c \in Obj,
           kind[c] = "Object" /\ ptr[<<c, "sub">>] \in Obj => ~scanned[ptr[<<c, "sub">>]]
    PROVE  /\ Visited(c) = Owned({c}) /\ Visited(c) \in SUBSET Slot
           /\ \A x \in Obj : x \in Targets(Owned({c})) <=> Refs(ptr, x, Owned({c})) # 0
           /\ \A x \in Obj : Refs(ptr, x, Owned({c})) \in Nat
  <1>2. Visited(c) = Owned({c}) BY DEF Visited
  <1>3. Owned({c}) \in SUBSET Slot BY SlotFacts
  <1>4. \A x \in Obj : x \in Targets(Owned({c})) <=> Refs(ptr, x, Owned({c})) # 0
    <2> SUFFICES ASSUME NEW x \in Obj
                 PROVE  x \in Targets(Owned({c})) <=> Refs(ptr, x, Owned({c})) # 0
      OBVIOUS
    <2>1. Refs(ptr, x, Owned({c})) = 0 <=> \A s \in Owned({c}) : ptr[s] # x
      BY <1>3, RefsZero
    <2> QED BY <2>1 DEF Targets, Heap!Targets
  <1> QED BY <1>2, <1>3, <1>4, RefsType

\* A turn of the scan: the references of one more candidate are discounted.
LEMMA ScanStepInv ==
    ASSUME IndInv, ScanStep
    PROVE  IndInv'
  <1> DEFINE c == rootCandidates[i]
             S == Owned({c})
             D == Prefix(i - 1)
  <1>1. /\ phase = "scan" /\ phase' = "scan" /\ i <= Len(rootCandidates) /\ i' = i + 1
        /\ refCount' = [x \in Obj |-> refCount[x] - Refs(ptr, x, Visited(c))]
        /\ PushRootCandidates(refCount, Visited(c))
        /\ UNCHANGED <<heapVars, nObjNewed, objAlive, k, size, lhs>>
    BY DEF ScanStep
  <1>2. /\ TypeOK /\ Distinct(rootCandidates) /\ ~corrupt
        /\ \A x \in Obj : scanned[x] <=> x \in Cand
        /\ Cand \subseteq alive
        /\ \A s \in Slot : ptr[s] \in alive \cup {Null}
        /\ \A s \in Owned(D) : ptr[s] \in Cand \cup {Null}
        /\ \A x \in Obj : refCount[x] = Refs(ptr, x, Slot \ Owned(D))
    BY <1>1 DEF IndInv, ScanInv, PtrInv, CountInv, Discounted
  <1>3. rootCandidates \in Seq(Obj) /\ i \in 1..Len(rootCandidates) /\ i \in Nat
    BY <1>1 DEF IndInv, TypeOK
  <1>4. c \in Obj /\ c \notin D /\ D \in SUBSET Obj
    BY <1>2, <1>3 DEF Distinct, Prefix
  <1>5. S \in SUBSET Slot /\ Visited(c) = S
    <2>1. kind[c] = "Object" /\ ptr[<<c, "sub">>] \in Obj => ~scanned[ptr[<<c, "sub">>]]
      BY <1>1, <1>4 DEF IndInv, SuperInv
    <2> HIDE DEF c
    <2> QED BY <1>4, <2>1, VisitedFacts
  <1> HIDE DEF c, S, D
  <1>6. /\ corrupt' = corrupt
        /\ rootCandidates' \in Seq(Obj)
        /\ Distinct(rootCandidates)'
        /\ scanned' \in [Obj -> BOOLEAN]
        /\ \A x \in Obj : scanned'[x] <=> x \in Cand'
        /\ nObjWithZeroRC' \in Nat
        /\ Len(rootCandidates') >= Len(rootCandidates)
        /\ \A j \in 1..Len(rootCandidates) : rootCandidates'[j] = rootCandidates[j]
        /\ \E new \in SUBSET (alive \cap Targets(S)) : Cand' = Cand \cup new
        /\ Targets(S) \subseteq Cand'
    BY <1>1, <1>2, <1>5, PushFacts
  <1>7. Prefix(i - 1)' = D \cup {c}
    <2>1. i' - 1 = i BY <1>1, <1>3
    <2>2. 1..i = 1..i - 1 \cup {i} BY <1>3
    <2>3. \A j \in 1..i : rootCandidates'[j] = rootCandidates[j] BY <1>3, <1>6
    <2> QED BY <2>1, <2>2, <2>3 DEF Prefix, D, c
  <1>8. Discounted' = D \cup {c} BY <1>1, <1>7 DEF Discounted
  <1>9. \A x \in Obj : refCount'[x] = Refs(ptr, x, Slot \ Owned(D \cup {c}))
    <2> SUFFICES ASSUME NEW x \in Obj
                 PROVE  refCount'[x] = Refs(ptr, x, Slot \ Owned(D \cup {c}))
      OBVIOUS
    <2>1. refCount'[x] = Refs(ptr, x, Slot \ Owned(D)) - Refs(ptr, x, S)
      BY <1>1, <1>2, <1>5
    <2> QED BY <1>4, <2>1, RefsDiscount DEF S
  <1>10. refCount' \in [Obj -> Int]
    <2>1. \A x \in Obj : Refs(ptr, x, S) \in Nat BY <1>5, RefsType
    <2>2. refCount \in [Obj -> Int] BY <1>2 DEF TypeOK
    <2> QED BY <1>1, <1>5, <2>1, <2>2
  <1>11. TypeOK'
    <2>1. i' \in Nat \ {0} /\ phase' = "scan" BY <1>1, <1>3
    <2>2. scanned' \in [Obj -> BOOLEAN] /\ rootCandidates' \in Seq(Obj) /\ nObjWithZeroRC' \in Nat
      BY <1>6
    <2> QED BY <1>1, <1>2, <1>6, <1>10, <2>1, <2>2 DEF TypeOK, heapVars
  <1>12. ptr' = ptr /\ alive' = alive BY <1>1 DEF heapVars
  <1>13. CountInv' BY <1>8, <1>9, <1>12 DEF CountInv
  <1>14. PtrInv' BY <1>1, <1>12 DEF IndInv, PtrInv
  <1>15. ScanInv'
    <2>1. Cand' \subseteq alive' BY <1>2, <1>6, <1>12
    <2>2. i' <= Len(rootCandidates') + 1 BY <1>1, <1>3, <1>6
    <2>3. \A s \in Owned(D \cup {c}) : ptr'[s] \in Cand' \cup {Null}
      <3>1. Owned(D \cup {c}) = Owned(D) \cup S BY OwnedFacts DEF S
      <3>2. \A s \in S : ptr[s] \in Cand' \cup {Null}
        <4>1. \A s \in S : ptr[s] \in Obj \cup {Null} BY <1>2, <1>5 DEF TypeOK
        <4> QED BY <1>6, <4>1 DEF Targets, Heap!Targets
      <3> QED BY <1>2, <1>6, <1>12, <3>1, <3>2
    <2> QED BY <1>6, <1>7, <2>1, <2>2, <2>3 DEF ScanInv
  <1>16. RunInv' /\ MarkInv' /\ DeleteInv' BY <1>1 DEF RunInv, MarkInv, DeleteInv
  <1>17. (~corrupt /\ lhs = Null)' BY <1>1, <1>6 DEF IndInv
  <1>18. SuperInv'
    <2> SUFFICES ASSUME NEW o \in Obj, NEW q \in Obj,
                        kind[o] = "Object", ptr[<<o, "sub">>] = q
                 PROVE  /\ \A s \in Slot : ptr[s] = q => s = <<o, "sub">>
                        /\ scanned'[q] => o \in D \cup {c}
      BY <1>1, <1>7, <1>12, HeapKept DEF SuperInv
    <2>1. /\ \A s \in Slot : ptr[s] = q => s = <<o, "sub">>
          /\ scanned[q] => o \in D
      BY <1>1 DEF IndInv, SuperInv, D
    <2>2. ASSUME scanned'[q], ~scanned[q] PROVE o = c
      <3>1. q \in Targets(S) BY <1>2, <1>6, <2>2
      <3>2. <<o, "sub">> \in S BY <1>5, <2>1, <3>1 DEF Targets, Heap!Targets
      <3> QED BY <3>2 DEF S, Owned, Heap!Owned
    <2> QED BY <2>1, <2>2
  <1> QED BY <1>1, <1>6, <1>11, <1>13, <1>14, <1>15, <1>16, <1>17, <1>18, HeapKept
          DEF IndInv

\* The end of the scan: all candidates are discounted, and all that they hold
\* are candidates.
LEMMA ScanDoneInv ==
    ASSUME IndInv, ScanDone
    PROVE  IndInv'
  <1>1. /\ phase = "scan" /\ phase' = "mark" /\ i > Len(rootCandidates) /\ i' = 1
        /\ scanned' = [x \in Obj |-> scanned[x] /\ x \notin Members(rootCandidates)]
        /\ size' = Len(rootCandidates) /\ objAlive' = <<>> /\ k' = 1
        /\ UNCHANGED <<heapVars, refCount, rootCandidates, nObjWithZeroRC,
                       nObjNewed, lhs, corrupt>>
    BY DEF ScanDone
  <1>2. /\ rootCandidates \in Seq(Obj) /\ i \in Nat
        /\ i <= Len(rootCandidates) + 1
        /\ \A x \in Obj : scanned[x] <=> x \in Cand
        /\ Cand \subseteq alive
        /\ \A s \in Owned(Prefix(i - 1)) : ptr[s] \in Cand \cup {Null}
    BY <1>1 DEF IndInv, TypeOK, ScanInv
  <1>3. i - 1 = Len(rootCandidates) BY <1>1, <1>2
  <1>4. Prefix(i - 1) = Cand BY <1>3 DEF Prefix, Cand, Members
  <1>5. \A x \in Obj : ~scanned'[x] BY <1>1, <1>2 DEF Cand
  <1>6. ptr' = ptr /\ alive' = alive /\ rootCandidates' = rootCandidates
        /\ refCount' = refCount
    BY <1>1 DEF heapVars
  <1>7. Cand' = Cand BY <1>6 DEF Cand, Members
  <1>8. TypeOK'
    BY <1>1, <1>2 DEF IndInv, TypeOK, heapVars
  <1>9. CountInv'
    <2>1. Discounted = Cand BY <1>1, <1>4 DEF Discounted
    <2>2. Discounted' = Cand BY <1>1, <1>5, <1>7 DEF Discounted
    <2> QED BY <1>6, <2>1, <2>2 DEF IndInv, CountInv
  <1>10. PtrInv' BY <1>1, <1>6 DEF IndInv, PtrInv
  <1>11. MarkInv'
    <2>1. Prefix(i - 1)' = {}
      <3>1. i' - 1 = 0 BY <1>1
      <3> QED BY <3>1 DEF Prefix
    <2>2. Distinct(objAlive)' /\ Members(objAlive)' = {}
      BY <1>1 DEF Distinct, Members
    <2>3. i' <= size' + 1 BY <1>1, <1>2
    <2> QED BY <1>1, <1>2, <1>4, <1>5, <1>6, <1>7, <2>1, <2>2, <2>3 DEF MarkInv
  <1>12. RunInv' /\ ScanInv' /\ DeleteInv' BY <1>1 DEF RunInv, ScanInv, DeleteInv
  <1>13. (~corrupt /\ lhs = Null /\ Distinct(rootCandidates))'
    BY <1>1 DEF IndInv, Distinct
  <1>14. SuperInv'
    <2> SUFFICES ASSUME NEW o \in Obj, NEW q \in Obj,
                        kind[o] = "Object", ptr[<<o, "sub">>] = q
                 PROVE  /\ \A s \in Slot : ptr[s] = q => s = <<o, "sub">>
                        /\ q \in Cand => o \in Cand
      BY <1>1, <1>5, <1>6, <1>7, HeapKept DEF SuperInv
    <2> QED BY <1>1, <1>2, <1>4 DEF IndInv, SuperInv
  <1> QED BY <1>1, <1>8, <1>9, <1>10, <1>11, <1>12, <1>13, <1>14, HeapKept DEF IndInv

\* What the marking relies on, for all its steps.
LEMMA MarkFacts ==
    ASSUME IndInv, phase = "mark"
    PROVE  /\ TypeOK /\ MarkInv
           /\ rootCandidates \in Seq(Obj) /\ objAlive \in Seq(Obj)
           /\ Cand \in SUBSET Obj
           /\ \A x \in Obj : refCount[x] \in Nat
           /\ \A s \in Slot : ptr[s] \in alive \cup {Null}
           /\ Discounted = Cand \ {x \in Obj : scanned[x] /\ x \notin Pending}
           /\ \A x \in Obj : refCount[x] = Refs(ptr, x, Slot \ Owned(Discounted))
  <1>1. TypeOK /\ MarkInv BY DEF IndInv
  <1>2. rootCandidates \in Seq(Obj) /\ objAlive \in Seq(Obj) BY <1>1 DEF TypeOK
  <1>3. Cand \in SUBSET Obj BY <1>2 DEF Cand, Members
  <1>4. \A x \in Obj : refCount[x] = Refs(ptr, x, Slot \ Owned(Discounted))
    BY DEF IndInv, CountInv
  <1>5. \A x \in Obj : refCount[x] \in Nat
    <2>1. Slot \ Owned(Discounted) \in SUBSET Slot OBVIOUS
    <2> QED BY <1>4, <2>1, RefsType
  <1> QED BY <1>1, <1>2, <1>3, <1>4, <1>5 DEF IndInv, PtrInv, Discounted

\* The marking of a candidate that is referred to from outside.
LEMMA MarkRootInv ==
    ASSUME IndInv, MarkRoot
    PROVE  IndInv'
  <1> DEFINE c == rootCandidates[i]
  <1>1. /\ phase = "mark" /\ phase' = "mark" /\ k > Len(objAlive) /\ i <= size
        /\ i' = i + 1 /\ k' = 1
        /\ UNCHANGED <<heapVars, refCount, rootCandidates, nObjWithZeroRC,
                       nObjNewed, size, lhs, corrupt>>
    BY DEF MarkRoot
  <1>2. \/ /\ refCount[c] > 0 /\ ~scanned[c]
           /\ scanned' = [scanned EXCEPT ![c] = TRUE] /\ objAlive' = <<c>>
        \/ /\ ~(refCount[c] > 0 /\ ~scanned[c])
           /\ objAlive' = <<>> /\ UNCHANGED scanned
    BY DEF MarkRoot
  <1>3. /\ i \in Nat \ {0} /\ k \in Nat \ {0} /\ size = Len(rootCandidates)
        /\ i \in 1..Len(rootCandidates)
        /\ scanned \in [Obj -> BOOLEAN]
    BY <1>1, MarkFacts DEF TypeOK, MarkInv
  <1>4. c \in Obj /\ c \in Cand BY <1>1, <1>3, MarkFacts DEF Cand, Members
  <1>5. /\ ptr' = ptr /\ alive' = alive /\ rootCandidates' = rootCandidates
        /\ refCount' = refCount /\ Cand' = Cand
    BY <1>1 DEF heapVars, Cand, Members
  <1>6. Pending = {} /\ Discounted = Cand \ {x \in Obj : scanned[x]}
    <2>1. k..Len(objAlive) = {} BY <1>1, <1>3, MarkFacts
    <2>2. Pending = {} BY <2>1 DEF Pending
    <2> QED BY <1>1, <2>2, MarkFacts
  <1> HIDE DEF c
  <1>7. /\ \A x \in Obj : scanned'[x] <=> scanned[x] \/ x \in Members(objAlive)'
        /\ \A x \in Members(objAlive)' : x = c /\ refCount[c] > 0 /\ ~scanned[c]
        /\ Pending' = Members(objAlive)'
        /\ Distinct(objAlive)'
        /\ objAlive' \in Seq(Obj) /\ scanned' \in [Obj -> BOOLEAN]
        /\ refCount[c] > 0 => scanned'[c]
    <2>1. CASE /\ refCount[c] > 0 /\ ~scanned[c]
               /\ scanned' = [scanned EXCEPT ![c] = TRUE] /\ objAlive' = <<c>>
      <3>1. Members(objAlive)' = {c} /\ Pending' = {c} /\ Distinct(objAlive)'
        BY <1>1, <2>1 DEF Members, Pending, Distinct
      <3> QED BY <1>3, <1>4, <2>1, <3>1
    <2>2. CASE /\ ~(refCount[c] > 0 /\ ~scanned[c])
               /\ objAlive' = <<>> /\ UNCHANGED scanned
      <3>1. Members(objAlive)' = {} /\ Pending' = {} /\ Distinct(objAlive)'
        BY <1>1, <2>2 DEF Members, Pending, Distinct
      <3> QED BY <1>3, <1>4, <2>2, <3>1
    <2> QED BY <1>2, <2>1, <2>2 DEF c
  <1>8. TypeOK'
    <2>1. i' \in Nat \ {0} /\ k' \in Nat \ {0} BY <1>1, <1>3
    <2> QED BY <1>1, <1>7, <2>1 DEF IndInv, TypeOK, heapVars
  <1>9. CountInv'
    <2>1. Discounted' = Cand \ {x \in Obj : scanned'[x] /\ x \notin Pending'}
      BY <1>1, <1>5 DEF Discounted
    <2>2. \A x \in Obj : (scanned'[x] /\ x \notin Pending') <=> scanned[x]
      BY <1>7
    <2>3. Discounted' = Discounted BY <1>6, <2>1, <2>2
    <2> QED BY <1>1, <1>5, <2>3, MarkFacts DEF CountInv
  <1>10. PtrInv' BY <1>1, <1>5 DEF IndInv, PtrInv
  <1>11. MarkInv'
    <2>1. \A x \in Obj : scanned'[x] => x \in Cand /\ refCount[x] > 0
      BY <1>1, <1>4, <1>7, MarkFacts DEF MarkInv
    <2>2. \A x \in Prefix(i - 1)' : refCount[x] = 0 \/ scanned'[x]
      <3>1. Prefix(i - 1)' = Prefix(i - 1) \cup {c}
        <4>1. 1..i' - 1 = 1..i - 1 \cup {i} BY <1>1, <1>3
        <4> QED BY <1>5, <4>1 DEF Prefix, c
      <3>2. refCount[c] = 0 \/ scanned'[c] BY <1>1, <1>4, <1>7, MarkFacts
      <3>3. \A x \in Prefix(i - 1) : x \in Obj
        BY <1>1, <1>3, MarkFacts DEF Prefix
      <3> QED BY <1>1, <1>7, <3>1, <3>2, <3>3, MarkFacts DEF MarkInv
    <2>3. i' <= size' + 1 BY <1>1, <1>3
    <2>4. \A x \in Members(objAlive)' : scanned'[x] BY <1>4, <1>7
    <2> QED BY <1>1, <1>5, <1>7, <2>1, <2>2, <2>3, <2>4, MarkFacts DEF MarkInv
  <1>12. RunInv' /\ ScanInv' /\ DeleteInv' BY <1>1 DEF RunInv, ScanInv, DeleteInv
  <1>13. (~corrupt /\ lhs = Null /\ Distinct(rootCandidates))'
    BY <1>1 DEF IndInv, Distinct
  <1>14. SuperInv'
    <2> SUFFICES ASSUME NEW o \in Obj, NEW q \in Obj,
                        kind[o] = "Object", ptr[<<o, "sub">>] = q
                 PROVE  /\ \A s \in Slot : ptr[s] = q => s = <<o, "sub">>
                        /\ q \in Cand => o \in Cand
                        /\ scanned'[q] => scanned'[o] /\ o \notin Pending'
      BY <1>1, <1>5, HeapKept DEF SuperInv
    <2>1. /\ \A s \in Slot : ptr[s] = q => s = <<o, "sub">>
          /\ q \in Cand => o \in Cand
          /\ scanned[q] => scanned[o]
      BY <1>1 DEF IndInv, SuperInv
    <2>2. CASE scanned[q] BY <1>7, <2>1, <2>2
    <2>3. ASSUME ~scanned[q], scanned'[q] PROVE scanned'[o] /\ o \notin Pending'
      <3>1. q = c /\ refCount[c] > 0 BY <1>7, <2>3
      <3>2. PICK s \in Slot \ Owned(Discounted) : ptr[s] = q
        <4>1. Slot \ Owned(Discounted) \in SUBSET Slot OBVIOUS
        <4>2. refCount[q] = Refs(ptr, q, Slot \ Owned(Discounted)) BY <1>1, MarkFacts
        <4>3. Refs(ptr, q, Slot \ Owned(Discounted)) # 0 BY <3>1, <4>2
        <4> QED BY <4>1, <4>3, RefsZero
      <3>3. o \notin Discounted
        <4>1. s = <<o, "sub">> BY <2>1, <3>2
        <4>2. o \in Discounted => Owned({o}) \subseteq Owned(Discounted) BY OwnedFacts
        <4> QED BY <3>2, <4>1, <4>2, SuperSlot
      <3>4. o \in Cand BY <1>4, <2>1, <3>1
      <3>5. scanned[o] BY <1>6, <3>3, <3>4
      <3> QED BY <1>7, <3>5
    <2> QED BY <2>1, <2>2, <2>3
  <1> QED BY <1>1, <1>8, <1>9, <1>10, <1>11, <1>12, <1>13, <1>14, HeapKept DEF IndInv

\* A turn of markLiveObjects: the references of a live object are put back.
LEMMA MarkStepInv ==
    ASSUME IndInv, MarkStep
    PROVE  IndInv'
  <1> DEFINE c == objAlive[k]
             S == Owned({c})
             next == {x \in Targets(S) : ~scanned[x]}
             D == Discounted \ {c}
  <1>1. phase = "mark" /\ k <= Len(objAlive) BY DEF MarkStep, PushAliveObjects
  <1>2. /\ k \in 1..Len(objAlive) /\ i \in Nat \ {0} /\ scanned \in [Obj -> BOOLEAN]
        /\ objAlive \in Seq(Obj) /\ k \in Nat
    BY <1>1, MarkFacts DEF TypeOK
  <1>3. c \in Obj /\ c \in Members(objAlive) /\ c \in Pending
    <2>1. c \in Obj BY <1>2
    <2>2. c \in Members(objAlive) BY <1>2 DEF Members
    <2>3. k \in k..Len(objAlive) BY <1>2
    <2> QED BY <2>1, <2>2, <2>3 DEF Pending
  <1>4. c \in Cand /\ scanned[c] /\ c \in Discounted
    BY <1>1, <1>3, MarkFacts DEF MarkInv
  <1>0. kind[c] = "Object" /\ ptr[<<c, "sub">>] \in Obj => ~scanned[ptr[<<c, "sub">>]]
    BY <1>1, <1>3 DEF IndInv, SuperInv
  <1>5. Visited(c) = S /\ S \in SUBSET Slot
    <2> HIDE DEF c
    <2> QED BY <1>0, <1>3, VisitedFacts
  <1>6. /\ phase' = "mark" /\ k' = k + 1
        /\ refCount' = [x \in Obj |-> refCount[x] + Refs(ptr, x, S)]
        /\ scanned' = [x \in Obj |-> scanned[x] \/ x \in next]
        /\ \E q \in Orders(next) : objAlive' = objAlive \o q
        /\ corrupt' = (corrupt \/ Dangling(S))
        /\ UNCHANGED <<heapVars, rootCandidates, nObjWithZeroRC, nObjNewed,
                       i, size, lhs>>
    BY <1>1, <1>5 DEF MarkStep, PushAliveObjects
  <1>7. /\ ptr' = ptr /\ alive' = alive /\ Cand' = Cand
    BY <1>6 DEF heapVars, Cand, Members
  <1>8. next \in SUBSET Obj /\ next \subseteq Cand
    <2>1. \A s \in S : ptr[s] \in Cand \cup {Null}
      <3>1. S \subseteq Owned(Cand) BY <1>4, OwnedFacts
      <3> QED BY <1>1, <3>1, MarkFacts DEF MarkInv
    <2>2. Null \notin Obj BY HeapAssumption
    <2> QED BY <2>1, <2>2 DEF Targets, Heap!Targets
  <1>9. \A x \in Obj : x \in next <=> Refs(ptr, x, S) # 0 /\ ~scanned[x]
    <2> HIDE DEF c
    <2> QED BY <1>0, <1>3, VisitedFacts
  <1>10. \A x \in Obj : Refs(ptr, x, S) \in Nat BY <1>5, RefsType
  <1>11. Members(objAlive) \cap next = {}
    BY <1>1, MarkFacts DEF MarkInv
  <1> HIDE DEF c, S, next
  <1>12. PICK q \in Orders(next) : objAlive' = objAlive \o q BY <1>6
  <1>13. /\ objAlive' \in Seq(Obj)
         /\ Distinct(objAlive)'
         /\ Len(objAlive') \in Nat /\ Len(objAlive') >= Len(objAlive)
         /\ \A j \in 1..Len(objAlive) : objAlive'[j] = objAlive[j]
         /\ Members(objAlive)' = Members(objAlive) \cup next
         /\ {objAlive'[j] : j \in Len(objAlive) + 1..Len(objAlive')} = next
    <2>1. Distinct(objAlive) BY <1>1, MarkFacts DEF MarkInv
    <2>2. /\ objAlive \o q \in Seq(Obj)
          /\ Distinct(objAlive \o q)
          /\ Len(objAlive \o q) \in Nat /\ Len(objAlive \o q) >= Len(objAlive)
          /\ \A j \in 1..Len(objAlive) : (objAlive \o q)[j] = objAlive[j]
          /\ Members(objAlive \o q) = Members(objAlive) \cup next
          /\ {(objAlive \o q)[j] : j \in Len(objAlive) + 1..Len(objAlive \o q)} = next
      BY <1>2, <1>8, <1>11, <2>1, AppendOrder
    <2>3. Members(objAlive)' = Members(objAlive \o q) BY <1>12 DEF Members
    <2>4. Distinct(objAlive)' BY <1>12, <2>2 DEF Distinct
    <2> QED BY <1>12, <2>2, <2>3, <2>4
  <1>14. Pending' = (Pending \ {c}) \cup next
    <2>1. k' = k + 1 BY <1>6
    <2>2. k'..Len(objAlive') = (k + 1..Len(objAlive)) \cup (Len(objAlive) + 1..Len(objAlive'))
      BY <1>2, <1>13, <2>1
    <2>3. {objAlive'[j] : j \in k + 1..Len(objAlive)} = Pending \ {c}
      <3>1. \A j \in k + 1..Len(objAlive) : j \in 1..Len(objAlive) /\ objAlive'[j] = objAlive[j]
        BY <1>2, <1>13
      <3>2. k..Len(objAlive) = {k} \cup (k + 1..Len(objAlive)) BY <1>2
      <3>3. \A j \in k + 1..Len(objAlive) : objAlive[j] # c
        BY <1>1, <1>2, MarkFacts DEF MarkInv, Distinct, c
      <3> QED BY <3>1, <3>2, <3>3 DEF Pending, c
    <2>4. Pending' = {objAlive'[j] : j \in k + 1..Len(objAlive)}
                     \cup {objAlive'[j] : j \in Len(objAlive) + 1..Len(objAlive')}
      BY <2>2 DEF Pending
    <2> QED BY <1>13, <2>3, <2>4
  <1>15. Discounted' = D
    <2>1. Discounted' = Cand \ {x \in Obj : scanned'[x] /\ x \notin Pending'}
      BY <1>6, <1>7 DEF Discounted
    <2>2. \A x \in Obj : (scanned'[x] /\ x \notin Pending')
                          <=> ((scanned[x] /\ x \notin Pending) \/ x = c)
      <3> SUFFICES ASSUME NEW x \in Obj
                   PROVE  (scanned'[x] /\ x \notin Pending')
                          <=> ((scanned[x] /\ x \notin Pending) \/ x = c)
        OBVIOUS
      <3>1. scanned'[x] <=> scanned[x] \/ x \in next BY <1>6
      <3>2. x \in next => ~scanned[x] BY <1>9
      <3> QED BY <1>4, <1>14, <3>1, <3>2
    <2> QED BY <1>1, <2>1, <2>2, MarkFacts
  <1>16. \A x \in Obj : refCount'[x] = Refs(ptr, x, Slot \ Owned(D))
    <2> SUFFICES ASSUME NEW x \in Obj
                 PROVE  refCount'[x] = Refs(ptr, x, Slot \ Owned(D))
      OBVIOUS
    <2>1. D \in SUBSET Obj /\ c \notin D /\ D \cup {c} = Discounted
      BY <1>1, <1>4, MarkFacts
    <2> HIDE DEF D
    <2>2. refCount[x] = Refs(ptr, x, Slot \ Owned(D \cup {c}))
      BY <1>1, <2>1, MarkFacts
    <2>3. Refs(ptr, x, Slot \ Owned(D)) =
            Refs(ptr, x, Slot \ Owned(D \cup {c})) + Refs(ptr, x, S)
      BY <1>3, <2>1, RefsDiscount DEF S
    <2> QED BY <1>6, <2>2, <2>3
  <1>17. CountInv' BY <1>7, <1>15, <1>16 DEF CountInv
  <1>18. TypeOK'
    <2>1. refCount' \in [Obj -> Int]
      <3>1. \A x \in Obj : refCount[x] + Refs(ptr, x, S) \in Int
        BY <1>1, <1>10, MarkFacts
      <3> QED BY <1>6, <3>1
    <2>2. scanned' \in [Obj -> BOOLEAN] /\ k' \in Nat \ {0} BY <1>2, <1>6
    <2>3. corrupt' \in BOOLEAN BY <1>6
    <2> QED BY <1>6, <1>13, <2>1, <2>2, <2>3 DEF IndInv, TypeOK, heapVars
  <1>19. PtrInv' BY <1>1, <1>6, <1>7 DEF IndInv, PtrInv
  <1>20. MarkInv'
    <2>1. \A x \in Obj : refCount'[x] >= refCount[x] BY <1>1, <1>6, <1>10, MarkFacts
    <2>2. \A x \in Obj : scanned'[x] => x \in Cand /\ refCount'[x] > 0
      <3> SUFFICES ASSUME NEW x \in Obj, scanned'[x]
                   PROVE  x \in Cand /\ refCount'[x] > 0
        OBVIOUS
      <3>1. refCount[x] \in Nat /\ Refs(ptr, x, S) \in Nat
            /\ refCount'[x] = refCount[x] + Refs(ptr, x, S)
        BY <1>1, <1>6, <1>10, MarkFacts
      <3>2. CASE scanned[x]
        <4>1. x \in Cand /\ refCount[x] > 0 BY <1>1, <3>2, MarkFacts DEF MarkInv
        <4> QED BY <3>1, <4>1
      <3>3. CASE x \in next
        <4>1. x \in Cand /\ Refs(ptr, x, S) # 0 BY <1>8, <1>9, <3>3
        <4> QED BY <3>1, <4>1
      <3> QED BY <1>6, <3>2, <3>3
    <2>3. \A x \in Prefix(i - 1)' : refCount'[x] = 0 \/ scanned'[x]
      <3>1. Prefix(i - 1)' = Prefix(i - 1) BY <1>6 DEF Prefix
      <3> SUFFICES ASSUME NEW x \in Prefix(i - 1), ~scanned'[x] PROVE refCount'[x] = 0
        BY <3>1
      <3>2. x \in Obj
        <4>1. \A j \in 1..i - 1 : j \in 1..Len(rootCandidates)
          BY <1>1, <1>2, MarkFacts DEF MarkInv
        <4> QED BY <1>1, <4>1, MarkFacts DEF Prefix
      <3>3. ~scanned[x] /\ x \notin next BY <1>6, <3>2
      <3>4. refCount[x] = 0 BY <1>1, <3>3, MarkFacts DEF MarkInv
      <3>5. Refs(ptr, x, S) = 0 BY <1>9, <3>2, <3>3
      <3> QED BY <1>6, <3>2, <3>4, <3>5
    <2>4. \A x \in Members(objAlive)' : scanned'[x]
      <3>1. \A x \in Members(objAlive) : scanned[x] /\ x \in Obj
        BY <1>1, <1>2, MarkFacts DEF MarkInv, Members
      <3> QED BY <1>6, <1>8, <1>13, <3>1
    <2> QED BY <1>1, <1>6, <1>7, <1>13, <2>2, <2>3, <2>4, MarkFacts DEF MarkInv
  <1>21. RunInv' /\ ScanInv' /\ DeleteInv' BY <1>6 DEF RunInv, ScanInv, DeleteInv
  <1>22. (~corrupt /\ lhs = Null /\ Distinct(rootCandidates))'
    <2>1. ~Dangling(S) BY <1>1, <1>5, MarkFacts DEF Dangling
    <2> QED BY <1>6, <2>1 DEF IndInv, Distinct
  <1>23. SuperInv'
    <2> SUFFICES ASSUME NEW o \in Obj, NEW sup \in Obj,
                        kind[o] = "Object", ptr[<<o, "sub">>] = sup
                 PROVE  /\ \A s \in Slot : ptr[s] = sup => s = <<o, "sub">>
                        /\ sup \in Cand => o \in Cand
                        /\ scanned'[sup] => scanned'[o] /\ o \notin Pending'
      BY <1>6, <1>7, HeapKept DEF SuperInv
    <2>1. /\ \A s \in Slot : ptr[s] = sup => s = <<o, "sub">>
          /\ sup \in Cand => o \in Cand
          /\ scanned[sup] => scanned[o] /\ o \notin Pending
      BY <1>1 DEF IndInv, SuperInv
    <2>2. CASE scanned[sup]
      <3>1. o \notin next BY <1>9, <2>1, <2>2
      <3> QED BY <1>6, <1>14, <2>1, <2>2, <3>1
    <2>3. CASE sup \in next
      <3>1. PICK s \in S : ptr[s] = sup
        <4>1. Refs(ptr, sup, S) # 0 BY <1>9, <2>3
        <4> QED BY <1>5, <4>1, RefsZero
      <3>2. <<o, "sub">> \in S BY <1>5, <2>1, <3>1
      <3>3. o = c BY <3>2 DEF S, Owned, Heap!Owned
      <3>4. o \notin next BY <1>4, <1>9, <3>3
      <3> QED BY <1>4, <1>6, <1>14, <2>1, <3>3, <3>4
    <2> QED BY <1>6, <2>1, <2>2, <2>3
  <1> QED BY <1>6, <1>17, <1>18, <1>19, <1>20, <1>21, <1>22, <1>23, HeapKept DEF IndInv

\* The end of the marking: what is left without references is dead.
LEMMA MarkDoneInv ==
    ASSUME IndInv, MarkDone
    PROVE  IndInv'
  <1>1. /\ phase = "mark" /\ phase' = "delete" /\ k > Len(objAlive) /\ i > size
        /\ i' = 1 /\ k' = 1 /\ objAlive' = <<>>
        /\ UNCHANGED <<heapVars, countVars, nObjNewed, size, lhs, corrupt>>
    BY DEF MarkDone
  <1>2. /\ ptr' = ptr /\ alive' = alive /\ rootCandidates' = rootCandidates
        /\ refCount' = refCount /\ scanned' = scanned /\ size' = size
        /\ Cand' = Cand /\ Dead' = Dead
    BY <1>1 DEF heapVars, countVars, Cand, Members, Dead
  <1>3. /\ size = Len(rootCandidates) /\ i = size + 1 /\ k \in Nat /\ size \in Nat
    BY <1>1, MarkFacts DEF MarkInv, TypeOK
  <1>4. Pending = {}
    <2>1. k..Len(objAlive) = {} BY <1>1, <1>3, MarkFacts
    <2> QED BY <2>1 DEF Pending
  <1>5. \A x \in Cand : refCount[x] = 0 <=> ~scanned[x]
    <2>1. Prefix(i - 1) = Cand BY <1>3 DEF Prefix, Cand, Members
    <2>2. \A x \in Cand : x \in Obj /\ refCount[x] \in Nat BY <1>1, MarkFacts
    <2> QED BY <1>1, <2>1, <2>2, MarkFacts DEF MarkInv
  <1>6. Discounted' = Discounted
    <2>1. Discounted' = Dead BY <1>1, <1>2 DEF Discounted
    <2>2. Discounted = Cand \ {x \in Obj : scanned[x]} BY <1>1, <1>4, MarkFacts
    <2>3. Cand \in SUBSET Obj BY <1>1, MarkFacts
    <2> QED BY <1>5, <2>1, <2>2, <2>3 DEF Dead
  <1>7. CountInv' BY <1>2, <1>6 DEF IndInv, CountInv
  <1>8. PtrInv' BY <1>1, <1>2 DEF IndInv, PtrInv
  <1>9. DeleteInv'
    <2>1. \A j \in 1..size : rootCandidates[j] \in alive
      BY <1>1, <1>3, MarkFacts DEF MarkInv, Cand, Members
    <2>2. \A x \in Obj : scanned[x] => \E j \in 1..size : x = rootCandidates[j]
      BY <1>1, <1>3, MarkFacts DEF MarkInv, Cand, Members
    <2> QED BY <1>1, <1>2, <1>3, <2>1, <2>2 DEF DeleteInv
  <1>10. TypeOK'
    BY <1>1 DEF IndInv, TypeOK, heapVars, countVars
  <1>11. RunInv' /\ ScanInv' /\ MarkInv' BY <1>1 DEF RunInv, ScanInv, MarkInv
  <1>12. (~corrupt /\ lhs = Null /\ Distinct(rootCandidates))'
    BY <1>1, <1>2 DEF IndInv, Distinct
  <1>13. SuperInv' BY <1>1, <1>2, HeapKept DEF IndInv, SuperInv
  <1> QED BY <1>1, <1>7, <1>8, <1>9, <1>10, <1>11, <1>12, <1>13, HeapKept DEF IndInv

\* What the last loop relies on.
LEMMA DeleteFacts ==
    ASSUME IndInv, phase = "delete"
    PROVE  /\ TypeOK /\ DeleteInv
           /\ rootCandidates \in Seq(Obj) /\ size = Len(rootCandidates)
           /\ i \in Nat \ {0} /\ i <= size + 1
           /\ Dead \in SUBSET Obj
           /\ \A s \in Slot \ Owned(Dead) : ptr[s] \in alive \cup {Null}
           /\ \A s \in Owned(Obj \ alive) : ptr[s] = Null
           /\ \A x \in Obj : refCount[x] = Refs(ptr, x, Slot \ Owned(Dead))
  <1>1. TypeOK /\ DeleteInv BY DEF IndInv
  <1>2. rootCandidates \in Seq(Obj) BY <1>1 DEF TypeOK
  <1>3. Dead \in SUBSET Obj BY <1>2 DEF Dead, Cand, Members
  <1> QED BY <1>1, <1>2, <1>3 DEF IndInv, TypeOK, DeleteInv, PtrInv, CountInv, Discounted

\* A survivor: its flag is reset.
LEMMA DeleteKeepsInv ==
    ASSUME IndInv, DeleteStep, refCount[rootCandidates[i]] # 0
    PROVE  IndInv'
  <1> DEFINE c == rootCandidates[i]
  <1>1. /\ phase = "delete" /\ phase' = "delete" /\ i <= size /\ i' = i + 1
        /\ scanned' = [scanned EXCEPT ![c] = FALSE]
        /\ UNCHANGED <<heapVars, refCount, rootCandidates, nObjWithZeroRC, corrupt,
                       nObjNewed, objAlive, k, size, lhs>>
    BY DEF DeleteStep
  <1>2. /\ ptr' = ptr /\ alive' = alive /\ rootCandidates' = rootCandidates
        /\ refCount' = refCount /\ size' = size /\ Cand' = Cand /\ Dead' = Dead
    BY <1>1 DEF heapVars, Cand, Members, Dead
  <1>3. i \in 1..size /\ size \in Nat BY <1>1, DeleteFacts DEF TypeOK
  <1>4. scanned \in [Obj -> BOOLEAN] BY <1>1, DeleteFacts DEF TypeOK
  <1>5. TypeOK'
    <2>1. i' \in Nat \ {0} BY <1>1, DeleteFacts
    <2>2. scanned' \in [Obj -> BOOLEAN]
      <3> HIDE DEF c
      <3> QED BY <1>1, <1>4
    <2> QED BY <1>1, <2>1, <2>2 DEF IndInv, TypeOK, heapVars
  <1>6. CountInv'
    <2>1. Discounted = Dead /\ Discounted' = Dead BY <1>1, <1>2 DEF Discounted
    <2> QED BY <1>2, <2>1 DEF IndInv, CountInv
  <1>7. PtrInv' BY <1>1, <1>2 DEF IndInv, PtrInv
  <1>8. DeleteInv'
    <2>1. i' <= size + 1 BY <1>1, <1>3
    <2>2. \A j \in 1..size :
            rootCandidates[j] \in alive <=> (j >= i' \/ refCount[rootCandidates[j]] # 0)
      <3> SUFFICES ASSUME NEW j \in 1..size
                   PROVE  rootCandidates[j] \in alive
                          <=> (j >= i' \/ refCount[rootCandidates[j]] # 0)
        OBVIOUS
      <3>1. rootCandidates[j] \in alive <=> (j >= i \/ refCount[rootCandidates[j]] # 0)
        BY <1>1, DeleteFacts DEF DeleteInv
      <3>2. j >= i <=> j >= i' \/ j = i BY <1>1, <1>3
      <3> QED BY <3>1, <3>2
    <2>3. \A x \in Obj : scanned'[x] => \E j \in i'..size : x = rootCandidates[j]
      <3> SUFFICES ASSUME NEW x \in Obj, scanned'[x]
                   PROVE  \E j \in i'..size : x = rootCandidates[j]
        OBVIOUS
      <3>1. scanned[x] /\ x # c BY <1>1, <1>4
      <3>2. PICK j \in i..size : x = rootCandidates[j]
        BY <1>1, <3>1, DeleteFacts DEF DeleteInv
      <3>3. j # i BY <3>1, <3>2
      <3>4. j \in i'..size BY <1>1, <1>3, <3>2, <3>3
      <3> QED BY <3>2, <3>4
    <2> QED BY <1>1, <1>2, <2>1, <2>2, <2>3, DeleteFacts DEF DeleteInv
  <1>9. RunInv' /\ ScanInv' /\ MarkInv' BY <1>1 DEF RunInv, ScanInv, MarkInv
  <1>10. (~corrupt /\ lhs = Null /\ Distinct(rootCandidates))'
    BY <1>1, <1>2 DEF IndInv, Distinct
  <1>11. SuperInv' BY <1>1, <1>2, HeapKept DEF IndInv, SuperInv
  <1> QED BY <1>1, <1>5, <1>6, <1>7, <1>8, <1>9, <1>10, <1>11, HeapKept DEF IndInv

\* What the deletion of a dead object does: there is no hash that would make new
\* candidates in its destructor.
LEMMA Deletion ==
    ASSUME IndInv, DeleteStep, NEW c, c = rootCandidates[i], refCount[c] = 0
    PROVE  /\ phase = "delete" /\ i \in 1..size /\ size \in Nat /\ i \in Nat
           /\ c \in Obj /\ c \in Dead /\ c \in alive
           /\ phase' = "delete" /\ i' = i + 1
           /\ alive' = alive \ {c}
           /\ ptr' = [s \in Slot |-> IF s \in Owned({c}) THEN Null ELSE ptr[s]]
           /\ scanned' = [x \in Obj |-> x # c /\ scanned[x]]
           /\ nObjWithZeroRC' = Capped(nObjWithZeroRC + Cardinality({}), MaxZeroRC)
           /\ corrupt' = (corrupt \/ c \notin alive)
           /\ UNCHANGED <<kind, nObjNewed, objAlive, k, size, lhs>>
           /\ rootCandidates' = rootCandidates /\ refCount' = refCount
           /\ Cand' = Cand /\ Dead' = Dead
  <1>1. phase = "delete" /\ i <= size BY DEF DeleteStep
  <1>2. i \in 1..size /\ size \in Nat /\ i \in Nat BY <1>1, DeleteFacts DEF TypeOK
  <1>3. c \in Obj /\ c \in Dead /\ c \in alive
    <2>1. c \in Obj /\ c \in Cand BY <1>1, <1>2, DeleteFacts DEF Cand, Members
    <2>2. c \in alive BY <1>1, <1>2, DeleteFacts DEF DeleteInv
    <2> QED BY <2>1, <2>2 DEF Dead
  <1>4. kind[c] # "Hash" BY <1>3 DEF IndInv
  <1>5. Targets({}) = {} /\ ~Dangling({}) BY DEF Targets, Heap!Targets, Dangling
  <1>6. /\ phase' = "delete" /\ i' = i + 1
        /\ alive' = alive \ {c}
        /\ ptr' = [s \in Slot |-> IF s \in Owned({c}) THEN Null ELSE ptr[s]]
        /\ refCount' = [x \in Obj |-> IF x = c THEN 0 ELSE refCount[x] - Refs(ptr, x, {})]
        /\ scanned' = [x \in Obj |-> x # c /\ scanned[x]]
        /\ \E q \in Orders({}) : rootCandidates' = rootCandidates \o q
        /\ nObjWithZeroRC' = Capped(nObjWithZeroRC + Cardinality({}), MaxZeroRC)
        /\ corrupt' = (corrupt \/ c \notin alive)
        /\ UNCHANGED <<kind, nObjNewed, objAlive, k, size, lhs>>
    <2> DEFINE S == IF kind[c] = "Hash" THEN Elements(c) ELSE {}
               new == {x \in Targets(S) : x = c \/ ~scanned[x]}
    <2>1. S = {} /\ new = {} BY <1>4, <1>5
    <2>2. {x \in {} : refCount[x] = 1} = {} OBVIOUS
    <2> QED BY <1>5, <2>1, <2>2 DEF DeleteStep
  <1>7. rootCandidates' = rootCandidates
    <2>1. PICK q \in Orders({}) : rootCandidates' = rootCandidates \o q BY <1>6
    <2>2. q = <<>> BY FS_EmptySet DEF Orders
    <2> QED BY <1>1, <2>1, <2>2, DeleteFacts
  <1>8. refCount' = refCount
    <2>1. \A x \in Obj : Refs(ptr, x, {}) = 0 BY RefsZero
    <2>2. refCount \in [Obj -> Int] BY <1>1, DeleteFacts DEF TypeOK
    <2> QED BY <1>6, <2>1, <2>2
  <1>9. Cand' = Cand /\ Dead' = Dead BY <1>7, <1>8 DEF Cand, Members, Dead
  <1> QED BY <1>1, <1>2, <1>3, <1>6, <1>7, <1>8, <1>9

\* A dead object is deleted: nothing that lives on refers to it.
LEMMA DeleteDeletesInv ==
    ASSUME IndInv, DeleteStep, refCount[rootCandidates[i]] = 0
    PROVE  IndInv'
  <1> DEFINE c == rootCandidates[i]
  <1>1. phase = "delete" BY Deletion
  <1>2. i \in 1..size /\ size \in Nat /\ i \in Nat BY Deletion
  <1>3. c \in Obj /\ c \in Dead /\ c \in alive BY Deletion
  <1>4. /\ phase' = "delete" /\ i' = i + 1
        /\ alive' = alive \ {c}
        /\ ptr' = [s \in Slot |-> IF s \in Owned({c}) THEN Null ELSE ptr[s]]
        /\ scanned' = [x \in Obj |-> x # c /\ scanned[x]]
        /\ nObjWithZeroRC' = Capped(nObjWithZeroRC + Cardinality({}), MaxZeroRC)
        /\ corrupt' = (corrupt \/ c \notin alive)
        /\ UNCHANGED <<kind, nObjNewed, objAlive, k, size, lhs>>
    BY Deletion
  <1>5. rootCandidates' = rootCandidates BY Deletion
  <1>6. refCount' = refCount BY Deletion
  <1>7. Cand' = Cand /\ Dead' = Dead BY Deletion
  <1>8. \A s \in Slot \ Owned(Dead) : ptr'[s] = ptr[s] /\ ptr[s] # c
    <2>1. Owned({c}) \subseteq Owned(Dead) BY <1>3, OwnedFacts
    <2>2. Refs(ptr, c, Slot \ Owned(Dead)) = 0 BY <1>1, <1>3, DeleteFacts
    <2>3. Slot \ Owned(Dead) \in SUBSET Slot OBVIOUS
    <2>4. \A s \in Slot \ Owned(Dead) : ptr[s] # c BY <2>2, <2>3, RefsZero
    <2> QED BY <1>4, <2>1, <2>4
  <1> HIDE DEF c
  <1>9. TypeOK'
    <2>1. ptr' \in [Slot -> Obj \cup {Null}] /\ alive' \subseteq Obj
      BY <1>1, <1>4, DeleteFacts DEF TypeOK
    <2>2. scanned' \in [Obj -> BOOLEAN] /\ i' \in Nat \ {0}
      BY <1>1, <1>2, <1>4, DeleteFacts DEF TypeOK
    <2>3. nObjWithZeroRC' \in Nat
      <3>1. Cardinality({}) = 0 BY FS_EmptySet
      <3>2. MaxZeroRC \in Nat /\ nObjWithZeroRC \in Nat
        BY <1>1, HeapAssumption, DeleteFacts DEF TypeOK
      <3> QED BY <1>4, <3>1, <3>2 DEF Capped
    <2>4. corrupt' \in BOOLEAN BY <1>4
    <2> QED BY <1>4, <1>5, <1>6, <2>1, <2>2, <2>3, <2>4 DEF IndInv, TypeOK
  <1>10. CountInv'
    <2>1. Discounted' = Dead BY <1>4, <1>7 DEF Discounted
    <2>2. \A x \in Obj : Refs(ptr', x, Slot \ Owned(Dead)) = Refs(ptr, x, Slot \ Owned(Dead))
      BY <1>8, RefsSame
    <2> QED BY <1>1, <1>6, <2>1, <2>2, DeleteFacts DEF CountInv
  <1>11. PtrInv'
    <2>1. \A s \in Slot : (phase' = "delete" => s \notin Owned(Dead)')
                            => ptr'[s] \in alive' \cup {Null}
      <3>1. Owned(Dead)' = Owned(Dead) BY <1>7 DEF Owned, Heap!Owned
      <3> QED BY <1>1, <1>4, <1>8, <3>1, DeleteFacts
    <2>2. \A s \in Owned(Obj \ alive') : ptr'[s] = Null
      <3>1. Obj \ alive' = (Obj \ alive) \cup {c} BY <1>3, <1>4
      <3>2. Owned(Obj \ alive') = Owned(Obj \ alive) \cup Owned({c}) BY <3>1, OwnedFacts
      <3>3. Owned(Obj \ alive') \subseteq Slot BY SlotFacts
      <3> QED BY <1>1, <1>4, <3>2, <3>3, DeleteFacts
    <2> QED BY <2>1, <2>2 DEF PtrInv
  <1>12. DeleteInv'
    <2>1. i' <= size' + 1 /\ size' = Len(rootCandidates')
      BY <1>1, <1>2, <1>4, <1>5, DeleteFacts
    <2>2. \A j \in 1..size' :
            rootCandidates'[j] \in alive' <=> (j >= i' \/ refCount'[rootCandidates'[j]] # 0)
      <3> SUFFICES ASSUME NEW j \in 1..size
                   PROVE  rootCandidates[j] \in alive'
                          <=> (j >= i' \/ refCount[rootCandidates[j]] # 0)
        BY <1>4, <1>5, <1>6
      <3>1. rootCandidates[j] \in alive <=> (j >= i \/ refCount[rootCandidates[j]] # 0)
        BY <1>1, DeleteFacts DEF DeleteInv
      <3>2. rootCandidates[j] = c <=> j = i
        BY <1>1, <1>2, DeleteFacts DEF IndInv, Distinct, c
      <3>3. j >= i <=> j >= i' \/ j = i BY <1>2, <1>4
      <3>4. ~(i >= i') BY <1>2, <1>4
      <3> QED BY <1>4, <3>1, <3>2, <3>3, <3>4 DEF c
    <2>3. \A x \in Obj : scanned'[x] => \E j \in i'..size' : x = rootCandidates'[j]
      <3> SUFFICES ASSUME NEW x \in Obj, scanned'[x]
                   PROVE  \E j \in i'..size : x = rootCandidates[j]
        BY <1>4, <1>5
      <3>1. scanned[x] /\ x # c BY <1>4
      <3>2. PICK j \in i..size : x = rootCandidates[j]
        BY <1>1, <3>1, DeleteFacts DEF DeleteInv
      <3>3. j # i BY <3>1, <3>2 DEF c
      <3>4. j \in i'..size BY <1>2, <1>4, <3>2, <3>3
      <3> QED BY <3>2, <3>4
    <2> QED BY <2>1, <2>2, <2>3 DEF DeleteInv
  <1>13. RunInv' /\ ScanInv' /\ MarkInv' BY <1>4 DEF RunInv, ScanInv, MarkInv
  <1>14. (~corrupt /\ lhs = Null /\ Distinct(rootCandidates))'
    BY <1>3, <1>4, <1>5 DEF IndInv, Distinct
  <1>15. (\A x \in Obj : kind[x] # "Hash")' BY <1>4 DEF IndInv
  <1>16. SuperInv'
    <2> SUFFICES ASSUME NEW o \in Obj, NEW q \in Obj, NEW s \in Slot,
                        kind[o] = "Object", ptr'[<<o, "sub">>] = q, ptr'[s] = q
                 PROVE  s = <<o, "sub">>
      BY <1>4 DEF SuperInv
    <2>1. <<o, "sub">> \in Slot BY SlotFacts DEF Owned, Heap!Owned, Label
    <2>2. ptr[<<o, "sub">>] = q /\ ptr[s] = q BY <1>4, <2>1, HeapAssumption
    <2> QED BY <2>2 DEF IndInv, SuperInv
  <1> QED BY <1>9, <1>10, <1>11, <1>12, <1>13, <1>14, <1>15, <1>16 DEF IndInv

\* When the last loop is over, the dead are gone.
LEMMA DeadGone == ASSUME IndInv, DeleteDone PROVE Dead \cap alive = {}
  <1>1. phase = "delete" /\ i > size BY DEF DeleteDone
  <1>2. i = size + 1 /\ size \in Nat BY <1>1, DeleteFacts DEF TypeOK
  <1> SUFFICES ASSUME NEW x \in Dead PROVE x \notin alive OBVIOUS
  <1>3. PICK j \in 1..size : x = rootCandidates[j]
    BY <1>1, DeleteFacts DEF Dead, Cand, Members
  <1>4. refCount[rootCandidates[j]] = 0 /\ ~(j >= i) BY <1>2, <1>3 DEF Dead
  <1> QED BY <1>1, <1>3, <1>4, DeleteFacts DEF DeleteInv

\* The end of a collection: the dead are gone, and nothing is discounted.
LEMMA DeleteDoneInv ==
    ASSUME IndInv, DeleteDone
    PROVE  IndInv'
  <1>1. /\ phase = "delete" /\ phase' = "run" /\ i > size /\ rootCandidates' = <<>>
        /\ nObjWithZeroRC' = 0 /\ nObjNewed' = 0 /\ i' = 1
        /\ UNCHANGED <<heapVars, refCount, scanned, objAlive, k, size, lhs, corrupt>>
    BY DEF DeleteDone
  <1>2. ptr' = ptr /\ alive' = alive /\ refCount' = refCount /\ scanned' = scanned
    BY <1>1 DEF heapVars
  <1>3. i = size + 1 /\ size \in Nat BY <1>1, DeleteFacts DEF TypeOK
  <1>4. Dead \cap alive = {} BY DeadGone
  <1>5. \A s \in Owned(Dead) : ptr[s] = Null
    <2>1. Dead \subseteq Obj \ alive BY <1>1, <1>4, DeleteFacts
    <2>2. Owned(Dead) \subseteq Owned(Obj \ alive) BY <2>1, OwnedFacts
    <2> QED BY <1>1, <2>2, DeleteFacts
  <1>6. \A x \in Obj : refCount[x] = Refs(ptr, x, Slot)
    <2> SUFFICES ASSUME NEW x \in Obj PROVE refCount[x] = Refs(ptr, x, Slot)
      OBVIOUS
    <2> DEFINE A == Slot \ Owned(Dead)
               B == Owned(Dead)
    <2>1. A \in SUBSET Slot /\ B \in SUBSET Slot /\ A \cap B = {} /\ A \cup B = Slot
      <3>1. B \in SUBSET Slot BY <1>1, SlotFacts, DeleteFacts
      <3> QED BY <3>1
    <2>2. refCount[x] = Refs(ptr, x, A) BY <1>1, DeleteFacts
    <2>3. \A s \in B : ptr[s] # x BY <1>5, HeapAssumption
    <2> HIDE DEF A, B
    <2>4. Refs(ptr, x, B) = 0 BY <2>1, <2>3, RefsZero
    <2>5. Refs(ptr, x, Slot) = Refs(ptr, x, A) + Refs(ptr, x, B) BY <2>1, RefsUnion
    <2>6. Refs(ptr, x, A) \in Nat BY <2>1, RefsType
    <2> QED BY <2>2, <2>4, <2>5, <2>6
  <1>7. CountInv'
    <2>1. Discounted' = {} BY <1>1 DEF Discounted
    <2>2. Slot \ Owned({}) = Slot BY OwnedFacts
    <2> QED BY <1>2, <1>6, <2>1, <2>2 DEF CountInv
  <1>8. PtrInv'
    <2>1. \A s \in Slot : ptr[s] \in alive \cup {Null} BY <1>1, <1>5, DeleteFacts
    <2> QED BY <1>1, <1>2, <2>1, DeleteFacts DEF PtrInv
  <1>9. RunInv'
    <2>1. \A x \in Obj : ~scanned[x]
      <3>1. i..size = {} BY <1>3
      <3> QED BY <1>1, <3>1, DeleteFacts DEF DeleteInv
    <2>2. Cand' = {} BY <1>1 DEF Cand, Members
    <2> QED BY <1>2, <2>1, <2>2 DEF RunInv
  <1>10. TypeOK' BY <1>1 DEF IndInv, TypeOK, heapVars
  <1>11. ScanInv' /\ MarkInv' /\ DeleteInv' BY <1>1 DEF ScanInv, MarkInv, DeleteInv
  <1>12. (~corrupt /\ lhs = Null /\ Distinct(rootCandidates))'
    BY <1>1 DEF IndInv, Distinct
  <1>13. SuperInv'
    <2>1. \A x \in Obj : ~scanned'[x]
      <3>1. i..size = {} BY <1>3
      <3> QED BY <1>1, <3>1, DeleteFacts DEF DeleteInv
    <2> QED BY <1>1, <1>2, <2>1, HeapKept DEF IndInv, SuperInv
  <1> QED BY <1>1, <1>7, <1>8, <1>9, <1>10, <1>11, <1>12, <1>13, HeapKept DEF IndInv

-----------------------------------------------------------------------------
\* The theorems

LEMMA InitInv ==
    ASSUME Init
    PROVE  IndInv
  <1>1. TypeOK
    <2>1. <<>> \in Seq(Obj) OBVIOUS
    <2>2. kind \in [Obj -> {"Array", "Hash", "Object", "Reference"}] BY DEF Init
    <2>3. ptr \in [Slot -> Obj \cup {Null}] /\ refCount \in [Obj -> Int]
          /\ scanned \in [Obj -> BOOLEAN]
      BY DEF Init
    <2>4. /\ alive \subseteq Obj /\ rootCandidates \in Seq(Obj) /\ objAlive \in Seq(Obj)
          /\ lhs \in Obj \cup {Null} /\ corrupt \in BOOLEAN
      BY <2>1 DEF Init
    <2>5. /\ nObjWithZeroRC \in Nat /\ nObjNewed \in Nat
          /\ phase \in {"run", "scan", "mark", "delete"}
          /\ i \in Nat \ {0} /\ k \in Nat \ {0} /\ size \in Nat
      BY SMT DEF Init
    <2> QED BY <2>2, <2>3, <2>4, <2>5 DEF TypeOK
  <1>2. Discounted = {} /\ Cand = {} BY DEF Init, Discounted, Cand, Members
  <1>3. CountInv
    <2> SUFFICES ASSUME NEW x \in Obj
                 PROVE  refCount[x] = Refs(ptr, x, Slot \ Owned(Discounted))
      BY DEF CountInv
    <2>1. \A s \in Slot : ptr[s] # x BY HeapAssumption DEF Init
    <2>2. Slot \ Owned(Discounted) \in SUBSET Slot OBVIOUS
    <2>3. Refs(ptr, x, Slot \ Owned(Discounted)) = 0 BY <2>1, <2>2, RefsZero
    <2> QED BY <2>3 DEF Init
  <1>4. PtrInv
    <2>1. Owned(Obj \ alive) \subseteq Slot BY SlotFacts
    <2> QED BY <2>1 DEF Init, PtrInv
  <1>5. RunInv /\ ScanInv /\ MarkInv /\ DeleteInv
    BY <1>2 DEF Init, RunInv, ScanInv, MarkInv, DeleteInv
  <1>6. SuperInv
    <2>1. \A o \in Obj : <<o, "sub">> \in Slot BY SlotFacts DEF Owned, Heap!Owned, Label
    <2>2. Null \notin Obj BY HeapAssumption
    <2> QED BY <2>1, <2>2 DEF Init, SuperInv
  <1> QED BY <1>1, <1>3, <1>4, <1>5, <1>6 DEF Init, IndInv, Distinct

LEMMA NextInv ==
    ASSUME CountingProgram, IndInv, [Next]_vars
    PROVE  IndInv'
  <1>1. CASE Program BY <1>1, ProgramInv
  <1>2. CASE TryInvoke BY <1>2, TryInvokeInv
  <1>3. CASE ScanStep BY <1>3, ScanStepInv
  <1>4. CASE ScanDone BY <1>4, ScanDoneInv
  <1>5. CASE MarkRoot BY <1>5, MarkRootInv
  <1>6. CASE MarkStep BY <1>6, MarkStepInv
  <1>7. CASE MarkDone BY <1>7, MarkDoneInv
  <1>8. CASE DeleteStep BY <1>8, DeleteKeepsInv, DeleteDeletesInv
  <1>9. CASE DeleteDone BY <1>9, DeleteDoneInv
  <1>10. CASE UNCHANGED vars
    <2> USE <1>10 DEF vars, heapVars, countVars, loopVars
    <2>1. /\ Cand' = Cand /\ Dead' = Dead /\ Pending' = Pending
          /\ Prefix(i - 1)' = Prefix(i - 1) /\ Members(objAlive)' = Members(objAlive)
      BY DEF Cand, Dead, Pending, Prefix, Members
    <2>2. Discounted' = Discounted BY <2>1 DEF Discounted
    <2>3. TypeOK' /\ CountInv' BY <2>2 DEF IndInv, TypeOK, CountInv
    <2>4. PtrInv'
      <3>1. Owned(Dead)' = Owned(Dead) BY <2>1 DEF Owned, Heap!Owned
      <3> QED BY <3>1 DEF IndInv, PtrInv
    <2>5. RunInv' BY <2>1 DEF IndInv, RunInv
    <2>6. ScanInv'
      <3>1. Owned(Prefix(i - 1))' = Owned(Prefix(i - 1)) BY <2>1 DEF Owned, Heap!Owned
      <3> QED BY <2>1, <3>1 DEF IndInv, ScanInv
    <2>7. MarkInv'
      <3>1. Owned(Cand)' = Owned(Cand) BY <2>1 DEF Owned, Heap!Owned
      <3> QED BY <2>1, <3>1 DEF IndInv, MarkInv, Distinct
    <2>8. DeleteInv' BY DEF IndInv, DeleteInv
    <2>9. (/\ ~corrupt /\ lhs = Null /\ Distinct(rootCandidates)
           /\ \A x \in Obj : kind[x] # "Hash")'
      BY DEF IndInv, Distinct
    <2>10. SuperInv' BY <2>1 DEF IndInv, SuperInv
    <2> QED BY <2>3, <2>4, <2>5, <2>6, <2>7, <2>8, <2>9, <2>10 DEF IndInv
  <1> QED BY <1>1, <1>2, <1>3, <1>4, <1>5, <1>6, <1>7, <1>8, <1>9, <1>10 DEF Next, Collector

\* The invariant holds for every program without hashes, of any size.
THEOREM InductiveInvariant == ASSUME CountingProgram PROVE Spec => []IndInv
  <1>1. Init => IndInv BY InitInv
  <1>2. IndInv /\ [Next]_vars => IndInv' BY NextInv
  <1> QED BY <1>1, <1>2, PTL DEF Spec

\* Every variable of the collector keeps its type; in particular the counters
\* are never negative.
THEOREM CollectorType == ASSUME CountingProgram PROVE Spec => []TypeOK
  <1>1. IndInv => TypeOK BY DEF IndInv
  <1> QED BY <1>1, InductiveInvariant, PTL

\* Neither the program nor a loop of the collector touches a deleted object.
THEOREM NoAccessAfterDelete == ASSUME CountingProgram PROVE Spec => []NoFreedAccess
  <1>1. IndInv => NoFreedAccess BY DEF IndInv, NoFreedAccess
  <1> QED BY <1>1, InductiveInvariant, PTL

\* Between collections no pointer leads to a deleted object.
THEOREM PointersLive == ASSUME CountingProgram PROVE Spec => []NoDangling
  <1>1. IndInv => NoDangling BY DEF IndInv, NoDangling, Dangling, PtrInv
  <1> QED BY <1>1, InductiveInvariant, PTL

\* Between collections every count is exact: whatever a collection took off for
\* the survivors, it has put back.
THEOREM CountsAreExact == ASSUME CountingProgram PROVE Spec => []CountsExact
  <1>1. IndInv => CountsExact
    BY RunCounts DEF IndInv, TypeOK, CountsExact
  <1> QED BY <1>1, InductiveInvariant, PTL

\* Between collections the flags say which objects are candidates, and each is
\* a candidate once.
THEOREM FlagsAgree == ASSUME CountingProgram PROVE Spec => []FlagsMatchCandidates
  <1>1. IndInv => FlagsMatchCandidates
    BY DEF IndInv, TypeOK, RunInv, FlagsMatchCandidates, Cand
  <1> QED BY <1>1, InductiveInvariant, PTL

-----------------------------------------------------------------------------
(* The heap of the interpreter, with its counts, its candidates and its     *)
(* collector, is the heap that TaoHeap promises to a program.  For programs *)
(* with arrays a collection leaves nothing over: CollectsAllGarbage.        *)

\* A step that allocates the objects of `new' and writes to each slot what the
\* program can reach, if it writes to it at all.
LEMMA WriteIsMutate ==
    ASSUME NEW new \in SUBSET Obj, new \cap alive = {}, alive' = alive \cup new,
           ptr' \in [Slot -> Obj \cup {Null}],
           \A s \in Slot : \/ ptr'[s] \in Reachable \cup new \cup {Null}
                           \/ ptr'[s] = ptr[s] /\ s \notin Owned(new)
    PROVE  Heap!Mutate
  <1>1. new \in SUBSET (Obj \ alive) OBVIOUS
  <1> QED BY <1>1 DEF Heap!Mutate, Reachable, Slot, Owned

\* The common case: nothing is allocated and the slots of S are written.
LEMMA StoreIsMutate ==
    ASSUME IndInv, phase = "run", UNCHANGED alive, NEW S \in SUBSET Slot,
           NEW x \in Reachable \cup {Null},
           ptr' = [s \in Slot |-> IF s \in S THEN x ELSE ptr[s]]
    PROVE  Heap!Mutate
  <1>1. /\ alive' = alive \cup {} /\ Owned({}) = {}
        /\ x \in Obj \cup {Null}
    BY OwnedFacts, ReachableAlive, RunFacts
  <1>2. ptr' \in [Slot -> Obj \cup {Null}] BY <1>1, RunFacts
  <1>3. \A s \in Slot : \/ ptr'[s] \in Reachable \cup {} \cup {Null}
                        \/ ptr'[s] = ptr[s] /\ s \notin Owned({})
    BY <1>1
  <1> QED BY <1>1, <1>2, <1>3, WriteIsMutate

LEMMA SlotStoreIsMutate ==
    ASSUME IndInv, phase = "run", UNCHANGED alive, NEW s \in Slot,
           NEW x \in Reachable \cup {Null}, ptr' = [ptr EXCEPT ![s] = x]
    PROVE  Heap!Mutate
  <1>1. ptr' = [t \in Slot |-> IF t \in {s} THEN x ELSE ptr[t]] BY RunFacts
  <1>2. {s} \in SUBSET Slot OBVIOUS
  <1> QED BY <1>1, <1>2, StoreIsMutate

\* A new object in a slot: its own slots are empty, as those of every address
\* that is not in use.
LEMMA RenewIsMutate ==
    ASSUME IndInv, phase = "run", NEW s \in Slot, NEW o \in Obj, NEW t, Renew(s, o, t)
    PROVE  Heap!Mutate
  <1>1. /\ {o} \cap alive = {} /\ alive' = alive \cup {o}
        /\ ptr' = [ptr EXCEPT ![s] = o]
    BY DEF Renew, Fresh
  <1>2. \A u \in Owned({o}) : ptr[u] = Null
    <2>1. Owned({o}) \subseteq Owned(Obj \ alive) BY <1>1, OwnedFacts
    <2> QED BY <2>1 DEF IndInv, PtrInv
  <1>3. ptr' \in [Slot -> Obj \cup {Null}] BY <1>1, RunFacts
  <1>4. \A u \in Slot : \/ ptr'[u] \in Reachable \cup {o} \cup {Null}
                        \/ ptr'[u] = ptr[u] /\ u \notin Owned({o})
    BY <1>1, <1>2, RunFacts
  <1> QED BY <1>1, <1>3, <1>4, WriteIsMutate

\* A new instance, with its data member and its super-object.
LEMMA NewObjectIsMutate ==
    ASSUME IndInv, phase = "run", NEW g \in Slot, NEW o \in Obj, NEW r \in Obj,
           NEW q \in Obj \cup {Null}, NewObject(g, o, r, q)
    PROVE  Heap!Mutate
  <1> DEFINE O == {o, r, q} \ {Null}
  <1>1. /\ O \cap alive = {} /\ alive' = alive \cup O
        /\ ptr' = [ptr EXCEPT ![g] = o, ![<<o, "ref">>] = r, ![<<o, "sub">>] = q]
    BY DEF NewObject, MakeObject, Fresh
  <1>2. O \in SUBSET Obj OBVIOUS
  <1> HIDE DEF O
  <1>3. \A u \in Owned(O) : ptr[u] = Null
    <2>1. Owned(O) \subseteq Owned(Obj \ alive)
      <3>1. O \subseteq Obj \ alive BY <1>1, <1>2
      <3> QED BY <3>1, OwnedFacts
    <2> QED BY <2>1 DEF IndInv, PtrInv
  <1>4. \A u \in Slot : ptr'[u] \in {o, r, q} \/ ptr'[u] = ptr[u]
    BY <1>1, RunFacts
  <1>5. ptr' \in [Slot -> Obj \cup {Null}] BY <1>1, RunFacts
  <1>6. {o, r, q} \subseteq O \cup {Null} BY DEF O
  <1>7. \A u \in Slot : \/ ptr'[u] \in Reachable \cup O \cup {Null}
                        \/ ptr'[u] = ptr[u] /\ u \notin Owned(O)
    BY <1>3, <1>4, <1>6
  <1> QED BY <1>1, <1>2, <1>5, <1>7, WriteIsMutate

\* Every operation of the program is a mutation of the heap.
LEMMA ProgramIsMutate == ASSUME CountingProgram, IndInv, Program PROVE Heap!Mutate
  <1>1. phase = "run" BY ProgramCases
  <1>2. Var \subseteq Slot /\ Temp \subseteq Slot /\ Agent \subseteq Slot
    BY SlotFacts DEF Cells
  <1>3. \A a \in Reachable, p \in Label :
          <<a, p>> \in Slot /\ Elements(a) \in SUBSET Slot
    BY <1>1, ElementSlot
  <1> USE DEF Label
  <1>4. ASSUME NEW S \in SUBSET Slot, Erase(S) PROVE Heap!Mutate
    <2>1. /\ ptr' = [s \in Slot |-> IF s \in S THEN Null ELSE ptr[s]]
          /\ UNCHANGED alive
      BY <1>4 DEF Erase
    <2> QED BY <1>1, <2>1, StoreIsMutate
  <1>5. ASSUME NEW s \in Slot, Reuse(s) PROVE Heap!Mutate
    <2>1. ptr[s] \in Obj BY <1>1, <1>5, RunFacts DEF Reuse
    <2>2. Elements(ptr[s]) \in SUBSET Slot
      BY <2>1, SlotFacts DEF Elements, Owned, Heap!Owned, Label
    <2> QED BY <1>4, <1>5, <2>2 DEF Reuse
  <1>6. ASSUME NEW s \in Slot, NEW x \in Values(Reachable) \cup {Null}, Assign(s, x)
        PROVE  Heap!Mutate
    <2>1. ptr' = [ptr EXCEPT ![s] = x] /\ UNCHANGED alive BY <1>6 DEF Assign
    <2>2. x \in Reachable \cup {Null} BY DEF Values
    <2> QED BY <1>1, <2>1, <2>2, SlotStoreIsMutate
  <1>7. ASSUME NEW a \in Reachable, NEW p \in Pos, NEW x \in Values(Reachable),
               Insert(a, p, x)
        PROVE  Heap!Mutate
    <2>1. <<a, p>> \in Slot /\ ptr' = [ptr EXCEPT ![<<a, p>>] = x] /\ UNCHANGED alive
      BY <1>3, <1>7 DEF Insert
    <2>2. x \in Reachable \cup {Null} BY DEF Values
    <2> QED BY <1>1, <2>1, <2>2, SlotStoreIsMutate
  <1>8. ASSUME NEW a \in Reachable, NEW p \in Pos, NEW x \in Values(Reachable) \cup {Null},
               Replace(a, p, x)
        PROVE  Heap!Mutate
    <2>1. x # Null BY <1>8 DEF Replace, CountingProgram
    <2>2. <<a, p>> \in Slot /\ ptr' = [ptr EXCEPT ![<<a, p>>] = x] /\ UNCHANGED alive
      BY <1>3, <1>8, <2>1 DEF Replace
    <2>3. x \in Reachable \cup {Null} BY DEF Values
    <2> QED BY <1>1, <2>2, <2>3, SlotStoreIsMutate
  <1>9. ASSUME NEW a \in Reachable, NEW p \in Pos, Erase({<<a, p>>}) PROVE Heap!Mutate
    <2>1. {<<a, p>>} \in SUBSET Slot BY <1>3
    <2> QED BY <1>4, <1>9, <2>1
  <1>10. ASSUME NEW a \in Reachable, Erase(Elements(a)) PROVE Heap!Mutate
    <2>1. Elements(a) \in SUBSET Slot BY <1>3
    <2> QED BY <1>4, <1>10, <2>1
  <1>11. ASSUME NEW a \in Reachable,
                Reuse(<<a, "sub">>) \/ \E o \in Obj : Renew(<<a, "sub">>, o, "Array")
         PROVE  Heap!Mutate
    <2>1. <<a, "sub">> \in Slot BY <1>3
    <2> QED BY <1>1, <1>5, <1>11, <2>1, RenewIsMutate
  <1>12. ASSUME NEW s \in Temp, Reuse(s) \/ \E o \in Obj : Renew(s, o, "Array")
         PROVE  Heap!Mutate
    <2>1. s \in Slot BY <1>2
    <2> QED BY <1>1, <1>5, <1>12, <2>1, RenewIsMutate
  <1>13. ASSUME ClearNewObjects PROVE Heap!Mutate
    <2>1. /\ ptr' = [s \in Slot |-> IF s \in Agent THEN Null ELSE ptr[s]]
          /\ UNCHANGED alive /\ Agent \in SUBSET Slot
      BY <1>2, <1>13 DEF ClearNewObjects
    <2> QED BY <1>1, <2>1, StoreIsMutate
  <1>14. ASSUME NEW g \in Agent, NEW o \in Obj, NEW r \in Obj, NEW q \in Obj \cup {Null},
                NewObject(g, o, r, q)
         PROVE  Heap!Mutate
    <2>1. g \in Slot BY <1>2
    <2> QED BY <1>1, <1>14, <2>1, NewObjectIsMutate
  <1>15. \A v \in Var : v \in Slot BY <1>2
  <1>16. \A r \in Reachable : <<r, "ref">> \in Slot BY <1>3
  <1> QED BY <1>6, <1>7, <1>8, <1>9, <1>10, <1>11, <1>12, <1>13, <1>14, <1>15, <1>16,
             ProgramCases

\* While the collector deletes, no pointer leads from the rest of the heap to a
\* candidate whose count is zero: the program cannot reach one.
LEMMA DeadUnreachable ==
    ASSUME IndInv, phase = "delete"
    PROVE  Reachable \cap Dead = {}
  <1> DEFINE S == Obj \ Dead
  <1>1. \A s \in Slot \ Owned(Dead) : ptr[s] \notin Dead
    <2> SUFFICES ASSUME NEW s \in Slot \ Owned(Dead), ptr[s] \in Dead PROVE FALSE
      OBVIOUS
    <2>1. ptr[s] \in Obj /\ refCount[ptr[s]] = 0 BY DeleteFacts DEF Dead
    <2>2. Slot \ Owned(Dead) \in SUBSET Slot OBVIOUS
    <2>3. Refs(ptr, ptr[s], Slot \ Owned(Dead)) = 0 BY <2>1, DeleteFacts
    <2> QED BY <2>2, <2>3, RefsZero
  <1>2. Heap!Targets(ptr, Cells) \subseteq S
    <2> SUFFICES ASSUME NEW s \in Cells, ptr[s] \in Obj PROVE ptr[s] \notin Dead
      BY DEF Heap!Targets
    <2>1. Owned(Dead) \subseteq Owned(Obj) BY DeleteFacts, OwnedFacts
    <2>2. s \in Slot \ Owned(Dead) BY <2>1, SlotFacts, HeapAssumption
    <2> QED BY <1>1, <2>2
  <1>3. Heap!Closed(ptr, S)
    <2> SUFFICES ASSUME NEW o \in S, NEW l \in Label, ptr[<<o, l>>] \in Obj
                 PROVE  ptr[<<o, l>>] \notin Dead
      BY DEF Heap!Closed
    <2>1. <<o, l>> \in Slot \ Owned(Dead) BY SlotFacts DEF Owned, Heap!Owned
    <2> QED BY <1>1, <2>1
  <1>4. Reachable \subseteq S
    <2> HIDE DEF S
    <2>1. S \in SUBSET Obj BY DEF S
    <2> QED BY <1>2, <1>3, <2>1 DEF Reachable, Heap!Reachable, Heap!From
  <1> QED BY <1>4

\* What the collector deletes is garbage.
LEMMA DeleteIsDelete ==
    ASSUME IndInv, DeleteStep, refCount[rootCandidates[i]] = 0
    PROVE  Heap!Delete
  <1> DEFINE c == rootCandidates[i]
  <1>1. phase = "delete" /\ i <= size BY DEF DeleteStep
  <1>2. i \in 1..size /\ size \in Nat BY <1>1, DeleteFacts DEF TypeOK
  <1>3. c \in Dead /\ c \in alive
    <2>1. c \in Obj /\ c \in Cand BY <1>1, <1>2, DeleteFacts DEF Cand, Members
    <2>2. c \in alive BY <1>1, <1>2, DeleteFacts DEF DeleteInv
    <2> QED BY <2>1, <2>2 DEF Dead
  <1>4. c \in alive \ Reachable BY <1>1, <1>3, DeadUnreachable
  <1>5. /\ alive' = alive \ {c}
        /\ ptr' = [s \in Slot |-> IF s \in Owned({c}) THEN Null ELSE ptr[s]]
    BY DEF DeleteStep
  <1> HIDE DEF c
  <1> QED BY <1>4, <1>5 DEF Heap!Delete, Reachable, Slot, Owned

LEMMA StepRefines ==
    ASSUME CountingProgram, IndInv, [Next]_vars
    PROVE  [Heap!Next]_(Heap!heap)
  <1> USE DEF heapVars
  <1>1. CASE Program BY <1>1, ProgramIsMutate DEF Heap!Next
  <1>2. CASE DeleteStep
    <2>1. CASE refCount[rootCandidates[i]] = 0 BY <1>2, <2>1, DeleteIsDelete DEF Heap!Next
    <2>2. CASE refCount[rootCandidates[i]] # 0 BY <1>2, <2>2 DEF DeleteStep, Heap!heap
    <2> QED BY <2>1, <2>2
  <1>3. CASE TryInvoke \/ DeleteDone \/ UNCHANGED vars
    BY <1>3 DEF TryInvoke, DeleteDone, vars, Heap!heap
  <1>4. CASE ScanStep \/ ScanDone BY <1>4 DEF ScanStep, ScanDone, Heap!heap
  <1>5. CASE MarkRoot \/ MarkStep \/ MarkDone
    BY <1>5 DEF MarkRoot, MarkStep, PushAliveObjects, MarkDone, Heap!heap
  <1> QED BY <1>1, <1>2, <1>3, <1>4, <1>5 DEF Next, Collector

\* The collector keeps the contract of the heap: the program sees pointers it
\* has written itself, and only garbage disappears.
THEOREM CollectorImplementsHeap == ASSUME CountingProgram PROVE Spec => ImplementsHeap
  <1>1. Init => Heap!Init BY DEF Init, Heap!Init, Slot
  <1>2. IndInv /\ [Next]_vars => [Heap!Next]_(Heap!heap) BY StepRefines
  <1> QED BY <1>1, <1>2, InductiveInvariant, PTL DEF Spec, ImplementsHeap, Heap!Spec

\* Every theorem about the abstract heap is one about the interpreter.
Contract == INSTANCE TaoHeapProofs WITH
    ptr <- ptr, alive <- alive, Obj <- Obj, Null <- Null, Cells <- Cells, Label <- Label

\* Whatever the program can reach is allocated, also while a collection runs.
THEOREM ReachableAllocated == ASSUME CountingProgram PROVE Spec => []Heap!Safe
  <1>1. Contract!HeapSlots
    BY HeapAssumption DEF Contract!HeapSlots, Contract!Owned, Owned, Heap!Owned
  <1>2. Contract!Spec => []Contract!Safe BY <1>1, Contract!HeapSafe
  <1> USE DEF Contract!Owned, Heap!Owned, Contract!Slot, Heap!Slot, Contract!heap, Heap!heap,
              Contract!Targets, Heap!Targets, Contract!Closed, Heap!Closed,
              Contract!From, Heap!From, Contract!Reachable, Heap!Reachable
  <1>3. Contract!Init <=> Heap!Init BY DEF Contract!Init, Heap!Init
  <1>4. Contract!Reachable = Heap!Reachable OBVIOUS
  <1>5. Contract!Safe <=> Heap!Safe BY <1>4 DEF Contract!Safe, Heap!Safe
  <1>6. [Contract!Next]_(Contract!heap) <=> [Heap!Next]_(Heap!heap)
    BY DEF Contract!Next, Heap!Next, Contract!Mutate, Heap!Mutate, Contract!Delete, Heap!Delete
  <1> QED
    BY <1>2, <1>3, <1>5, <1>6, CollectorImplementsHeap, PTL
    DEF ImplementsHeap, Contract!Spec, Heap!Spec

-----------------------------------------------------------------------------
\* Nothing is left over, for programs with arrays: GarbageInv is inductive.

\* An operation of the program that makes a candidate of whatever it takes out
\* of a slot, and stores what it allocates.
LEMMA WriteGarbage ==
    ASSUME IndInv, GarbageInv, phase = "run", phase' = "run", NEW W \in SUBSET Slot,
           W \cap Agent = {}, \A s \in Slot \ W : ptr'[s] = ptr[s],
           \A s \in W : ptr[s] \in Cand' \cup {Null}, Cand \subseteq Cand',
           alive' \subseteq Obj,
           \A x \in alive' \ alive : \E s \in W :
             ptr'[s] = x /\ s \in Cells \cup Owned(alive)
    PROVE  GarbageInv'
  <1>1. (\A s \in Agent : ptr[s] = Null)'
    <2>1. Agent \subseteq Slot \ W BY SlotFacts DEF Cells
    <2> QED BY <2>1 DEF GarbageInv
  <1>2. ASSUME NEW S \in SUBSET Obj, Targets(Cells)' \subseteq S, Cand' \subseteq S,
               Heap!Closed(ptr', S)
        PROVE  alive' \subseteq S
    <2>1. \A s \in Slot : ptr[s] \in Obj => ptr'[s] = ptr[s] \/ ptr[s] \in S
      BY <1>2, RunFacts
    <2>2. Targets(Cells) \subseteq S
      <3> SUFFICES ASSUME NEW s \in Cells, ptr[s] \in Obj PROVE ptr[s] \in S
        BY DEF Targets, Heap!Targets
      <3>1. s \in Slot BY SlotFacts
      <3>2. ptr'[s] \in Obj => ptr'[s] \in S BY <1>2 DEF Targets, Heap!Targets
      <3> QED BY <2>1, <3>1, <3>2
    <2>3. Heap!Closed(ptr, S)
      <3> SUFFICES ASSUME NEW o \in S, NEW l \in Label, ptr[<<o, l>>] \in Obj
                   PROVE  ptr[<<o, l>>] \in S
        BY DEF Heap!Closed
      <3>1. <<o, l>> \in Slot BY SlotFacts DEF Owned, Heap!Owned
      <3>2. ptr'[<<o, l>>] \in Obj => ptr'[<<o, l>>] \in S BY <1>2 DEF Heap!Closed
      <3> QED BY <2>1, <3>1, <3>2
    <2>4. Targets(Cells) \cup Cand \subseteq S BY <1>2, <2>2
    <2>5. alive \subseteq S BY <2>3, <2>4 DEF GarbageInv
    <2>6. ASSUME NEW x \in alive' \ alive PROVE x \in S
      <3>1. PICK s \in W : ptr'[s] = x /\ s \in Cells \cup Owned(alive) BY <2>6
      <3>2. x \in Obj BY <2>6
      <3>3. CASE s \in Cells BY <1>2, <3>1, <3>2, <3>3 DEF Targets, Heap!Targets
      <3>4. CASE s \in Owned(alive)
        <4>1. PICK o \in alive, l \in Label : s = <<o, l>>
          BY <3>4 DEF Owned, Heap!Owned
        <4> QED BY <1>2, <2>5, <3>1, <3>2, <4>1 DEF Heap!Closed
      <3> QED BY <3>1, <3>3, <3>4
    <2> QED BY <2>5, <2>6
  <1> QED BY <1>1, <1>2 DEF GarbageInv

\* Such an operation, when pushRootCandidate is called for each slot it writes.
LEMMA PushGarbage ==
    ASSUME IndInv, GarbageInv, phase = "run", UNCHANGED loopVars, NEW W \in SUBSET Slot,
           W \cap Agent = {}, NEW c, PushRootCandidates(c, W),
           \A s \in Slot \ W : ptr'[s] = ptr[s], alive' \subseteq Obj,
           \A x \in alive' \ alive : \E s \in W :
             ptr'[s] = x /\ s \in Cells \cup Owned(alive)
    PROVE  GarbageInv'
  <1>1. /\ TypeOK /\ Distinct(rootCandidates) /\ ~corrupt
        /\ \A x \in Obj : scanned[x] <=> x \in Cand
        /\ \A s \in W : ptr[s] \in alive \cup {Null}
    BY DEF IndInv, RunInv, PtrInv
  <1>2. Targets(W) \subseteq Cand' /\ Cand \subseteq Cand' BY <1>1, PushFacts
  <1>3. \A s \in W : ptr[s] \in Cand' \cup {Null}
    BY <1>2, RunFacts DEF Targets, Heap!Targets
  <1>4. phase' = "run" BY DEF loopVars
  <1> QED BY <1>2, <1>3, <1>4, WriteGarbage

\* Slots that the garbage-collecting agent does not own.
LEMMA NotAgent ==
    /\ \A s \in Var \cup Temp : s \in Slot /\ s \notin Agent /\ s \in Cells
    /\ \A a \in Obj, l \in Label : <<a, l>> \in Slot /\ <<a, l>> \notin Agent
    /\ \A a \in Obj : Elements(a) \in SUBSET Slot /\ Elements(a) \cap Agent = {}
  <1>1. Var \cup Temp \cup Agent = Cells /\ Cells \subseteq Slot BY SlotFacts DEF Cells
  <1>2. Agent \cap Owned(Obj) = {} /\ Agent \cap (Var \cup Temp) = {}
    BY <1>1, HeapAssumption
  <1>3. \A a \in Obj, l \in Label : <<a, l>> \in Owned(Obj) BY DEF Owned, Heap!Owned
  <1>4. \A a \in Obj : Elements(a) \subseteq Owned(Obj)
    BY <1>3 DEF Elements, Label
  <1> QED BY <1>1, <1>2, <1>3, <1>4, SlotFacts

\* The operations of a program with arrays lose nothing but candidates.
LEMMA ProgramGarbage == ASSUME ArrayProgram, IndInv, GarbageInv, Program PROVE GarbageInv'
  <1>1. phase = "run" /\ CountingProgram BY ProgramCases DEF ArrayProgram
  <1>2. \A a \in Reachable : a \in alive /\ a \in Obj BY <1>1, ReachableAlive, RunFacts
  <1>3. Pos \cup {"sub", "ref"} = Label BY DEF Label
  <1>4. ASSUME NEW s \in Slot, s \notin Agent, NEW x, Assign(s, x) PROVE GarbageInv'
    <2> DEFINE c == IF x = Null THEN refCount ELSE Incremented(x)
    <2>1. /\ PushRootCandidates(c, {s}) /\ ptr' = [ptr EXCEPT ![s] = x]
          /\ UNCHANGED alive /\ UNCHANGED loopVars
      BY <1>4 DEF Assign
    <2> HIDE DEF c
    <2>2. /\ {s} \in SUBSET Slot /\ {s} \cap Agent = {}
          /\ \A t \in Slot \ {s} : ptr'[t] = ptr[t]
          /\ alive' \subseteq Obj /\ alive' \ alive = {}
      BY <1>1, <1>4, <2>1, RunFacts
    <2> QED BY <1>1, <2>1, <2>2, PushGarbage
  <1>5. ASSUME NEW a \in Reachable, NEW p \in Pos, NEW x, Insert(a, p, x)
        PROVE  GarbageInv'
    <2>1. /\ ptr[<<a, p>>] = Null /\ ptr' = [ptr EXCEPT ![<<a, p>>] = x]
          /\ UNCHANGED <<alive, rootCandidates, loopVars>>
      BY <1>5 DEF Insert
    <2>2. /\ {<<a, p>>} \in SUBSET Slot /\ {<<a, p>>} \cap Agent = {}
          /\ \A t \in Slot \ {<<a, p>>} : ptr'[t] = ptr[t]
      BY <1>1, <1>2, <1>3, <2>1, NotAgent, RunFacts
    <2>3. Cand' = Cand BY <2>1 DEF Cand, Members
    <2>4. /\ phase' = "run" /\ alive' \subseteq Obj /\ alive' \ alive = {}
          /\ \A s \in {<<a, p>>} : ptr[s] \in Cand' \cup {Null}
      BY <1>1, <2>1, RunFacts DEF loopVars
    <2> QED BY <1>1, <2>2, <2>3, <2>4, WriteGarbage
  <1>6. ASSUME NEW a \in Reachable, NEW p \in Pos, NEW x, Replace(a, p, x)
        PROVE  GarbageInv'
    <2>1. x # Null BY <1>1, <1>6 DEF Replace, CountingProgram
    <2>2. /\ PushRootCandidates(refCount, {<<a, p>>})
          /\ ptr' = [ptr EXCEPT ![<<a, p>>] = x]
          /\ UNCHANGED alive /\ UNCHANGED loopVars
      BY <1>6, <2>1 DEF Replace
    <2>3. /\ {<<a, p>>} \in SUBSET Slot /\ {<<a, p>>} \cap Agent = {}
          /\ \A t \in Slot \ {<<a, p>>} : ptr'[t] = ptr[t]
          /\ alive' \subseteq Obj /\ alive' \ alive = {}
      BY <1>1, <1>2, <1>3, <2>2, NotAgent, RunFacts
    <2> QED BY <1>1, <2>2, <2>3, PushGarbage
  <1>7. ASSUME NEW S \in SUBSET Slot, S \cap Agent = {}, Erase(S) PROVE GarbageInv'
    <2>1. /\ PushRootCandidates(refCount, S)
          /\ ptr' = [s \in Slot |-> IF s \in S THEN Null ELSE ptr[s]]
          /\ UNCHANGED alive /\ UNCHANGED loopVars
      BY <1>7 DEF Erase
    <2>2. /\ \A t \in Slot \ S : ptr'[t] = ptr[t]
          /\ alive' \subseteq Obj /\ alive' \ alive = {}
      BY <1>1, <2>1, RunFacts
    <2> QED BY <1>1, <1>7, <2>1, <2>2, PushGarbage
  <1>8. ASSUME NEW s \in Slot, Reuse(s) PROVE GarbageInv'
    <2>1. ptr[s] \in Obj BY <1>1, <1>8, RunFacts DEF Reuse
    <2>2. Elements(ptr[s]) \in SUBSET Slot /\ Elements(ptr[s]) \cap Agent = {}
      BY <2>1, NotAgent
    <2> QED BY <1>7, <1>8, <2>2 DEF Reuse
  <1>9. ASSUME NEW s \in Slot, s \notin Agent, s \in Cells \cup Owned(alive),
               NEW o \in Obj, NEW t, Renew(s, o, t)
        PROVE  GarbageInv'
    <2>1. /\ PushRootCandidates(refCount, {s}) /\ ptr' = [ptr EXCEPT ![s] = o]
          /\ alive' = alive \cup {o} /\ UNCHANGED loopVars
      BY <1>9 DEF Renew, Fresh
    <2>2. /\ {s} \in SUBSET Slot /\ {s} \cap Agent = {}
          /\ \A u \in Slot \ {s} : ptr'[u] = ptr[u]
          /\ alive' \subseteq Obj
          /\ \A x \in alive' \ alive : ptr'[s] = x
      BY <1>1, <1>9, <2>1, RunFacts
    <2>3. \A x \in alive' \ alive : \E u \in {s} :
            ptr'[u] = x /\ u \in Cells \cup Owned(alive)
      BY <1>9, <2>2
    <2> QED BY <1>1, <2>1, <2>2, <2>3, PushGarbage
  <1>10. \A a \in Reachable : <<a, "sub">> \in Owned(alive)
    BY <1>2 DEF Owned, Heap!Owned, Label
  <1>11. ~ClearNewObjects
    <2>1. \A s \in Agent : ptr[s] \notin Obj BY HeapAssumption DEF GarbageInv
    <2> QED BY <2>1 DEF ClearNewObjects, Targets, Heap!Targets
  <1>12. "Object" \notin Kinds BY DEF ArrayProgram
  <1>13. ASSUME NEW v \in Var, NEW x, Assign(v, x) PROVE GarbageInv'
    BY <1>4, <1>13, NotAgent
  <1>14. ASSUME NEW r \in Reachable, NEW x, Assign(<<r, "ref">>, x) PROVE GarbageInv'
    BY <1>2, <1>3, <1>4, <1>14, NotAgent
  <1>15. ASSUME NEW a \in Reachable, NEW p \in Pos, Erase({<<a, p>>}) PROVE GarbageInv'
    <2>1. {<<a, p>>} \in SUBSET Slot /\ {<<a, p>>} \cap Agent = {}
      BY <1>2, <1>3, NotAgent
    <2> QED BY <1>7, <1>15, <2>1
  <1>16. ASSUME NEW a \in Reachable, Erase(Elements(a)) PROVE GarbageInv'
    <2>1. Elements(a) \in SUBSET Slot /\ Elements(a) \cap Agent = {} BY <1>2, NotAgent
    <2> QED BY <1>7, <1>16, <2>1
  <1>17. ASSUME NEW s \in Temp, Reuse(s) \/ \E o \in Obj : Renew(s, o, "Array")
         PROVE  GarbageInv'
    <2>1. s \in Slot /\ s \notin Agent /\ s \in Cells BY NotAgent
    <2> QED BY <1>8, <1>9, <1>17, <2>1
  <1>18. ASSUME NEW a \in Reachable,
                Reuse(<<a, "sub">>) \/ \E o \in Obj : Renew(<<a, "sub">>, o, "Array")
         PROVE  GarbageInv'
    <2>1. <<a, "sub">> \in Slot /\ <<a, "sub">> \notin Agent BY <1>2, <1>3, NotAgent
    <2> QED BY <1>8, <1>9, <1>10, <1>18, <2>1
  <1> QED BY <1>1, <1>5, <1>6, <1>11, <1>12, <1>13, <1>14, <1>15, <1>16, <1>17, <1>18,
             ProgramCases

-----------------------------------------------------------------------------
\* The loops of the collector

\* What the program can reach is the least set with the roots and closed.
LEMMA ReachFacts ==
    /\ Reachable \in SUBSET Obj
    /\ Targets(Cells) \subseteq Reachable
    /\ Heap!Closed(ptr, Reachable)
    /\ \A S \in SUBSET Obj :
         Targets(Cells) \subseteq S /\ Heap!Closed(ptr, S) => Reachable \subseteq S
  <1>1. Reachable \in SUBSET Obj /\ Targets(Cells) \subseteq Reachable
    BY DEF Targets, Heap!Targets, Reachable, Heap!Reachable, Heap!From
  <1>2. \A S \in SUBSET Obj :
          Targets(Cells) \subseteq S /\ Heap!Closed(ptr, S) => Reachable \subseteq S
    BY DEF Targets, Reachable, Heap!Reachable, Heap!From
  <1>3. Heap!Closed(ptr, Reachable)
    <2> SUFFICES ASSUME NEW o \in Reachable, NEW l \in Label, ptr[<<o, l>>] \in Obj,
                        NEW S \in SUBSET Obj, Heap!Targets(ptr, Cells) \subseteq S,
                        Heap!Closed(ptr, S)
                 PROVE  ptr[<<o, l>>] \in S
      BY DEF Heap!Closed, Reachable, Heap!Reachable, Heap!From
    <2>1. o \in S BY <1>2 DEF Targets
    <2> QED BY <2>1 DEF Heap!Closed
  <1> QED BY <1>1, <1>2, <1>3

\* The scan only adds to the candidates.
LEMMA ScanKeepsGarbage ==
    ASSUME GarbageInv, phase \in {"run", "scan"}, phase' = "scan",
           UNCHANGED <<ptr, alive>>, Cand \subseteq Cand'
    PROVE  GarbageInv'
  <1>1. (\A s \in Agent : ptr[s] = Null)' BY DEF GarbageInv
  <1>2. ASSUME NEW S \in SUBSET Obj, Targets(Cells)' \subseteq S, Cand' \subseteq S,
               Heap!Closed(ptr', S)
        PROVE  alive' \subseteq S
    <2>1. Targets(Cells) \cup Cand \subseteq S /\ Heap!Closed(ptr, S)
      BY <1>2 DEF Targets, Heap!Targets
    <2> QED BY <2>1 DEF GarbageInv
  <1> QED BY <1>1, <1>2 DEF GarbageInv

LEMMA ScanStepGarbage == ASSUME IndInv, GarbageInv, ScanStep PROVE GarbageInv'
  <1> DEFINE c == rootCandidates[i]
  <1>1. /\ phase = "scan" /\ phase' = "scan" /\ i <= Len(rootCandidates)
        /\ PushRootCandidates(refCount, Visited(c))
        /\ UNCHANGED <<ptr, alive>>
    BY DEF ScanStep, heapVars
  <1>2. /\ TypeOK /\ Distinct(rootCandidates) /\ ~corrupt
        /\ \A x \in Obj : scanned[x] <=> x \in Cand
        /\ \A s \in Slot : ptr[s] \in alive \cup {Null}
    BY <1>1 DEF IndInv, ScanInv, PtrInv
  <1>3. c \in Obj BY <1>1, <1>2 DEF TypeOK
  <1>4. Visited(c) \in SUBSET Slot
    <2>1. Visited(c) \subseteq Owned({c}) BY DEF Visited
    <2>2. Owned({c}) \subseteq Slot BY <1>3, SlotFacts
    <2> QED BY <2>1, <2>2
  <1>5. Cand \subseteq Cand' BY <1>1, <1>2, <1>4, PushFacts
  <1> QED BY <1>1, <1>5, ScanKeepsGarbage

\* Candidates only refer to candidates when the scan is over: what is neither
\* reachable nor a candidate is not there.
LEMMA ScanDoneGarbage == ASSUME IndInv, GarbageInv, ScanDone PROVE GarbageInv'
  <1>1. /\ phase = "scan" /\ phase' = "mark" /\ i > Len(rootCandidates)
        /\ scanned' = [x \in Obj |-> scanned[x] /\ x \notin Members(rootCandidates)]
        /\ UNCHANGED <<ptr, alive, rootCandidates>>
    BY DEF ScanDone, heapVars
  <1>2. /\ rootCandidates \in Seq(Obj) /\ i \in Nat
        /\ i <= Len(rootCandidates) + 1
        /\ \A x \in Obj : scanned[x] <=> x \in Cand
        /\ \A s \in Owned(Prefix(i - 1)) : ptr[s] \in Cand \cup {Null}
    BY <1>1 DEF IndInv, TypeOK, ScanInv
  <1>3. i - 1 = Len(rootCandidates) BY <1>1, <1>2
  <1>4. Prefix(i - 1) = Cand BY <1>3 DEF Prefix, Cand, Members
  <1>5. \A x \in Obj : ~scanned'[x] BY <1>1, <1>2 DEF Cand
  <1>6. Cand' = Cand /\ Reachable' = Reachable
    BY <1>1 DEF Cand, Members, Reachable, Heap!Reachable, Heap!From, Heap!Targets, Heap!Closed
  <1> DEFINE S == Reachable \cup Cand
  <1>7. S \in SUBSET Obj /\ Targets(Cells) \cup Cand \subseteq S
    BY <1>2, ReachFacts DEF Cand, Members
  <1>8. Heap!Closed(ptr, S)
    <2> SUFFICES ASSUME NEW o \in S, NEW l \in Label, ptr[<<o, l>>] \in Obj
                 PROVE  ptr[<<o, l>>] \in S
      BY DEF Heap!Closed
    <2>1. CASE o \in Reachable BY <2>1, ReachFacts DEF Heap!Closed
    <2>2. CASE o \in Cand
      <3>1. <<o, l>> \in Owned(Cand) BY <2>2 DEF Owned, Heap!Owned
      <3> QED BY <1>2, <1>4, <3>1, HeapAssumption
    <2> QED BY <2>1, <2>2
  <1> HIDE DEF S
  <1>9. alive \subseteq S BY <1>1, <1>7, <1>8 DEF GarbageInv
  <1>10. \A s \in Agent : ptr'[s] = Null BY <1>1 DEF GarbageInv
  <1> QED BY <1>1, <1>5, <1>6, <1>9, <1>10 DEF GarbageInv, S

\* A loop of the marking that flags only what the program can reach.
LEMMA MarkKeepsGarbage ==
    ASSUME GarbageInv, phase = "mark", phase' = "mark", UNCHANGED <<ptr, alive, rootCandidates>>,
           \A x \in Obj : scanned'[x] => scanned[x] \/ x \in Reachable
    PROVE  GarbageInv'
  <1>1. Cand' = Cand /\ Reachable' = Reachable
    BY DEF Cand, Members, Reachable, Heap!Reachable, Heap!From, Heap!Targets, Heap!Closed
  <1> QED BY <1>1 DEF GarbageInv

\* A candidate with a count is referred to by a root or by an object that is not
\* discounted, and the program can reach such an object.
LEMMA MarkRootGarbage == ASSUME IndInv, GarbageInv, MarkRoot PROVE GarbageInv'
  <1> DEFINE c == rootCandidates[i]
  <1>1. /\ phase = "mark" /\ phase' = "mark" /\ k > Len(objAlive) /\ i <= size
        /\ UNCHANGED <<ptr, alive, rootCandidates>>
        /\ \/ scanned' = [scanned EXCEPT ![c] = TRUE] /\ refCount[c] > 0
           \/ UNCHANGED scanned
    BY DEF MarkRoot, heapVars
  <1>2. /\ i \in Nat \ {0} /\ k \in Nat \ {0} /\ size = Len(rootCandidates)
        /\ scanned \in [Obj -> BOOLEAN]
    BY <1>1, MarkFacts DEF TypeOK, MarkInv
  <1>3. c \in Obj BY <1>1, <1>2, MarkFacts
  <1>4. Discounted = Cand \ {x \in Obj : scanned[x]}
    <2>1. k..Len(objAlive) = {} BY <1>1, <1>2, MarkFacts
    <2>2. Pending = {} BY <2>1 DEF Pending
    <2> QED BY <1>1, <2>2, MarkFacts
  <1> HIDE DEF c
  <1>5. ASSUME refCount[c] > 0 PROVE c \in Reachable
    <2>1. PICK s \in Slot \ Owned(Discounted) : ptr[s] = c
      <3>1. Slot \ Owned(Discounted) \in SUBSET Slot OBVIOUS
      <3>2. refCount[c] = Refs(ptr, c, Slot \ Owned(Discounted)) BY <1>1, <1>3, MarkFacts
      <3>3. Refs(ptr, c, Slot \ Owned(Discounted)) # 0 BY <1>5, <3>2
      <3> QED BY <3>1, <3>3, RefsZero
    <2>2. CASE s \in Cells BY <1>3, <2>1, <2>2, ReachFacts DEF Targets, Heap!Targets
    <2>3. CASE s \in Owned(Obj)
      <3>1. PICK o \in Obj, l \in Label : s = <<o, l>> BY <2>3 DEF Owned, Heap!Owned
      <3>2. o \notin Discounted BY <2>1, <3>1 DEF Owned, Heap!Owned
      <3>3. o \in alive
        <4>1. o \notin alive => s \in Owned(Obj \ alive) BY <3>1 DEF Owned, Heap!Owned
        <4> QED BY <1>3, <2>1, <4>1, HeapAssumption DEF IndInv, PtrInv
      <3>4. o \in Reachable BY <1>1, <1>4, <3>2, <3>3 DEF GarbageInv
      <3> QED BY <1>3, <2>1, <3>1, <3>4, ReachFacts DEF Heap!Closed
    <2> QED BY <2>1, <2>2, <2>3, SlotFacts
  <1>6. \A x \in Obj : scanned'[x] => scanned[x] \/ x \in Reachable
    BY <1>1, <1>2, <1>5
  <1> QED BY <1>1, <1>6, MarkKeepsGarbage

\* What an object that the program can reach refers to, it can reach.
LEMMA MarkStepGarbage == ASSUME IndInv, GarbageInv, MarkStep PROVE GarbageInv'
  <1> DEFINE c == objAlive[k]
  <1>1. /\ phase = "mark" /\ phase' = "mark" /\ k <= Len(objAlive)
        /\ UNCHANGED <<ptr, alive, rootCandidates>>
        /\ scanned' = [x \in Obj |->
             scanned[x] \/ x \in {y \in Targets(Visited(c)) : ~scanned[y]}]
    BY DEF MarkStep, PushAliveObjects, heapVars
  <1>2. k \in 1..Len(objAlive) BY <1>1, MarkFacts DEF TypeOK
  <1>3. c \in Obj /\ scanned[c]
    <2>1. c \in Obj /\ c \in Members(objAlive) BY <1>1, <1>2, MarkFacts DEF Members
    <2> QED BY <1>1, <2>1, MarkFacts DEF MarkInv
  <1>4. c \in Reachable BY <1>1, <1>3 DEF GarbageInv
  <1> HIDE DEF c
  <1>5. Targets(Visited(c)) \subseteq Reachable
    <2> SUFFICES ASSUME NEW x \in Obj, NEW s \in Visited(c), ptr[s] = x PROVE x \in Reachable
      BY DEF Targets, Heap!Targets
    <2>1. s \in Owned({c}) BY DEF Visited
    <2>2. PICK l \in Label : s = <<c, l>> BY <2>1 DEF Owned, Heap!Owned
    <2> QED BY <1>4, <2>2, ReachFacts DEF Heap!Closed
  <1>6. \A x \in Obj : scanned'[x] => scanned[x] \/ x \in Reachable BY <1>1, <1>5
  <1> QED BY <1>1, <1>6, MarkKeepsGarbage

\* A candidate that was not flagged has no reference left.
LEMMA MarkDoneGarbage == ASSUME IndInv, GarbageInv, MarkDone PROVE GarbageInv'
  <1>1. /\ phase = "mark" /\ phase' = "delete" /\ i > size
        /\ UNCHANGED <<ptr, alive, rootCandidates, refCount>>
    BY DEF MarkDone, heapVars, countVars
  <1>2. i \in Nat \ {0} /\ size = Len(rootCandidates) /\ i <= size + 1
    BY <1>1, MarkFacts DEF TypeOK, MarkInv
  <1>3. Prefix(i - 1) = Cand
    <2>1. i - 1 = Len(rootCandidates) BY <1>1, <1>2, MarkFacts
    <2> QED BY <2>1 DEF Prefix, Cand, Members
  <1>4. \A x \in Cand : x \in Dead \/ x \in Reachable
    <2> SUFFICES ASSUME NEW x \in Cand, scanned[x] PROVE x \in Reachable
      BY <1>1, <1>3, MarkFacts DEF MarkInv, Dead
    <2>1. x \in Obj BY <1>1, MarkFacts
    <2> QED BY <1>1, <2>1 DEF GarbageInv
  <1>5. Dead' = Dead /\ Reachable' = Reachable
    BY <1>1 DEF Dead, Cand, Members, Reachable, Heap!Reachable, Heap!From, Heap!Targets,
                Heap!Closed
  <1>6. \A s \in Agent : ptr'[s] = Null BY <1>1 DEF GarbageInv
  <1> QED BY <1>1, <1>4, <1>5, <1>6 DEF GarbageInv

\* A deletion takes nothing away that the program can reach.
LEMMA DeletionReach ==
    ASSUME IndInv, DeleteStep, refCount[rootCandidates[i]] = 0
    PROVE  Reachable \subseteq Reachable'
  <1> DEFINE c == rootCandidates[i]
  <1>1. /\ phase = "delete" /\ c \in Obj /\ c \in Dead
        /\ ptr' = [s \in Slot |-> IF s \in Owned({c}) THEN Null ELSE ptr[s]]
    BY Deletion
  <1> HIDE DEF c
  <1>2. c \notin Reachable BY <1>1, DeadUnreachable
  <1> SUFFICES ASSUME NEW S \in SUBSET Obj, Heap!Targets(ptr', Cells) \subseteq S,
                      Heap!Closed(ptr', S)
               PROVE  Reachable \subseteq S
    BY ReachFacts DEF Reachable, Heap!Reachable, Heap!From
  <1> DEFINE T == S \cap Reachable
  <1>3. T \in SUBSET Obj OBVIOUS
  <1>4. Targets(Cells) \subseteq T
    <2> SUFFICES ASSUME NEW s \in Cells, ptr[s] \in Obj PROVE ptr[s] \in T
      BY DEF Targets, Heap!Targets
    <2>1. s \in Slot /\ s \notin Owned({c})
      <3>1. {c} \subseteq Obj BY <1>1
      <3>2. Owned({c}) \subseteq Owned(Obj) BY <3>1, OwnedFacts
      <3> QED BY <3>2, SlotFacts, HeapAssumption
    <2>2. ptr'[s] = ptr[s] BY <1>1, <2>1
    <2> QED BY <2>2, ReachFacts DEF Targets, Heap!Targets
  <1>5. Heap!Closed(ptr, T)
    <2> SUFFICES ASSUME NEW o \in T, NEW l \in Label, ptr[<<o, l>>] \in Obj
                 PROVE  ptr[<<o, l>>] \in T
      BY DEF Heap!Closed
    <2>1. <<o, l>> \in Slot /\ <<o, l>> \notin Owned({c})
      BY <1>2, SlotFacts, ReachFacts DEF Owned, Heap!Owned
    <2>2. ptr'[<<o, l>>] = ptr[<<o, l>>] BY <1>1, <2>1
    <2> QED BY <2>2, ReachFacts DEF Heap!Closed
  <1> HIDE DEF T
  <1>6. Reachable \subseteq T BY <1>3, <1>4, <1>5, ReachFacts
  <1> QED BY <1>6 DEF T

LEMMA DeleteStepGarbage == ASSUME IndInv, GarbageInv, DeleteStep PROVE GarbageInv'
  <1>1. phase = "delete" /\ phase' = "delete" BY DEF DeleteStep
  <1>2. CASE refCount[rootCandidates[i]] # 0
    <2>1. UNCHANGED <<ptr, alive, refCount, rootCandidates>>
      BY <1>2 DEF DeleteStep, heapVars
    <2>2. Dead' = Dead /\ Reachable' = Reachable
      BY <2>1 DEF Dead, Cand, Members, Reachable, Heap!Reachable, Heap!From, Heap!Targets,
                  Heap!Closed
    <2> QED BY <1>1, <2>1, <2>2 DEF GarbageInv
  <1>3. CASE refCount[rootCandidates[i]] = 0
    <2>1. /\ alive' \subseteq alive /\ Dead' = Dead
          /\ \A s \in Slot : ptr'[s] = ptr[s] \/ ptr'[s] = Null
      BY <1>3, Deletion
    <2>2. \A s \in Agent : ptr'[s] = Null
      BY <2>1, SlotFacts DEF GarbageInv, Cells
    <2>3. Reachable \subseteq Reachable' BY <1>3, DeletionReach
    <2> QED BY <1>1, <2>1, <2>2, <2>3 DEF GarbageInv
  <1> QED BY <1>2, <1>3

\* At the end of a collection what is left is reachable.
LEMMA LeftReachable ==
    ASSUME IndInv, GarbageInv, DeleteDone
    PROVE  alive \subseteq Reachable
  <1>1. phase = "delete" BY DEF DeleteDone
  <1> QED BY <1>1, DeadGone DEF GarbageInv

LEMMA DeleteDoneGarbage == ASSUME IndInv, GarbageInv, DeleteDone PROVE GarbageInv'
  <1>1. phase' = "run" /\ UNCHANGED <<ptr, alive>> BY DEF DeleteDone, heapVars
  <1>2. \A s \in Agent : ptr'[s] = Null BY <1>1 DEF GarbageInv
  <1>3. ASSUME NEW S \in SUBSET Obj, Targets(Cells)' \subseteq S, Heap!Closed(ptr', S)
        PROVE  alive' \subseteq S
    <2>1. Targets(Cells) \subseteq S /\ Heap!Closed(ptr, S)
      BY <1>1, <1>3 DEF Targets, Heap!Targets
    <2>2. Reachable \subseteq S BY <2>1, ReachFacts
    <2> QED BY <1>1, <2>2, LeftReachable
  <1> QED BY <1>1, <1>2, <1>3 DEF GarbageInv

LEMMA NextGarbage ==
    ASSUME ArrayProgram, IndInv, GarbageInv, [Next]_vars
    PROVE  GarbageInv'
  <1>1. CASE Program BY <1>1, ProgramGarbage
  <1>2. CASE TryInvoke
    <2>1. /\ phase = "run" /\ phase' = "scan"
          /\ UNCHANGED <<ptr, alive, rootCandidates>>
      BY <1>2 DEF TryInvoke, Running, heapVars, countVars
    <2>2. Cand \subseteq Cand' BY <2>1 DEF Cand, Members
    <2> QED BY <2>1, <2>2, ScanKeepsGarbage
  <1>3. CASE ScanStep BY <1>3, ScanStepGarbage
  <1>4. CASE ScanDone BY <1>4, ScanDoneGarbage
  <1>5. CASE MarkRoot BY <1>5, MarkRootGarbage
  <1>6. CASE MarkStep BY <1>6, MarkStepGarbage
  <1>7. CASE MarkDone BY <1>7, MarkDoneGarbage
  <1>8. CASE DeleteStep BY <1>8, DeleteStepGarbage
  <1>9. CASE DeleteDone BY <1>9, DeleteDoneGarbage
  <1>10. CASE UNCHANGED vars
    <2> USE <1>10 DEF vars, heapVars, countVars, loopVars
    <2>1. /\ Cand' = Cand /\ Dead' = Dead /\ Reachable' = Reachable
          /\ Targets(Cells)' = Targets(Cells)
      BY DEF Cand, Members, Dead, Reachable, Heap!Reachable, Heap!From, Targets,
             Heap!Targets, Heap!Closed
    <2> QED BY <2>1 DEF GarbageInv
  <1> QED BY <1>1, <1>2, <1>3, <1>4, <1>5, <1>6, <1>7, <1>8, <1>9, <1>10
          DEF Next, Collector

LEMMA InitGarbage == ASSUME Init PROVE GarbageInv
  <1>1. Agent \subseteq Slot BY SlotFacts DEF Cells
  <1> QED BY <1>1 DEF Init, GarbageInv

\* Of a program with arrays, no object gets lost: between collections whatever is
\* allocated is led to from a root or from a candidate, cycles included.
THEOREM NothingIsLost == ASSUME ArrayProgram PROVE Spec => []GarbageInv
  <1>1. CountingProgram BY DEF ArrayProgram
  <1>2. Init => GarbageInv BY InitGarbage
  <1>3. IndInv /\ GarbageInv /\ [Next]_vars => GarbageInv' BY NextGarbage
  <1> QED BY <1>1, <1>2, <1>3, InductiveInvariant, PTL DEF Spec

\* When a collection of such a program ends, every object that is left can be
\* reached: scan, mark and delete together lose no cycle of garbage.
THEOREM CollectsEverything == ASSUME ArrayProgram PROVE Spec => CollectsAllGarbage
  <1>1. CountingProgram BY DEF ArrayProgram
  <1>2. IndInv /\ GarbageInv /\ [Next]_vars
          => [DeleteDone => alive \subseteq Reachable]_vars
    BY LeftReachable
  <1> QED BY <1>1, <1>2, InductiveInvariant, NothingIsLost, PTL DEF Spec, CollectsAllGarbage
=============================================================================

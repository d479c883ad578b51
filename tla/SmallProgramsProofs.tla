------------------------ MODULE SmallProgramsProofs ------------------------
(***************************************************************************)
(* The proofs about two of the small programs.  hsort sorts: for arrays of  *)
(* every length, keys of every kind and widths of size_t and int as         *)
(* SizeAssumption asks for, the end of the array is in order and above the  *)
(* heap at every step, and no element is lost.  search finds: for every     *)
(* pattern that PatternAssumption allows and every string.                  *)
(***************************************************************************)
EXTENDS SmallPrograms, TLAPS, WellFoundedInduction

Children(k) == {2 * k + 1, 2 * k + 2}

\* Elements from lo on are no less than their children in the heap of nmemb
\* elements, but for the element hole, whose children are below its parents.
HeapFrom(lo, hole) ==
    /\ \A k \in Nat : lo <= k /\ k # hole
         => \A c \in Children(k) : c < nmemb => base[c] <= base[k]
    /\ \A k \in Nat : lo <= k /\ hole \in Children(k)
         => \A c \in Children(hole) : c < nmemb => base[c] <= base[k]

Typed(m) ==
    /\ a0 \in [0 .. m - 1 -> Keys] /\ base \in [0 .. m - 1 -> Keys]
    /\ nmemb \in 0 .. m /\ n \in Nat /\ start \in Int
    /\ pc \in {"heapify", "sift", "swap", "done"}

Placed(m) ==        \* where the loops are
    /\ pc \in {"heapify", "swap"} => nmemb >= 1
    /\ pc = "sift" => nmemb >= 2
    /\ pc = "done" => nmemb <= 1
    /\ start >= -1 /\ (start >= 0 => nmemb >= 2 /\ pc \in {"heapify", "sift"})
    /\ pc = "sift" => start <= n

Lowest == IF start >= 0 THEN start ELSE 0
HeapInv ==
    /\ pc = "heapify" => HeapFrom(start + 1, -1)
    /\ pc = "sift" => HeapFrom(Lowest, n)
    /\ pc = "swap" => HeapFrom(0, -1)

Behind == \A i, j \in DOMAIN base : i <= j /\ nmemb <= j => base[i] <= base[j]

IInv == /\ \E m \in 1 .. Size : Typed(m) /\ Placed(m)
        /\ HeapInv /\ Behind /\ Permuted

-----------------------------------------------------------------------------
(* The tree and the array                                                  *)

LEMMA OneParent ==
    ASSUME NEW j \in Nat, NEW k \in Nat, NEW c \in Children(j), c \in Children(k)
    PROVE  j = k
BY DEF Children

LEMMA Parents ==
    ASSUME NEW m \in 2 .. Size, NEW p \in Nat
    PROVE  LastParent(m) \in Nat /\ (p <= LastParent(m) <=> 2 * p + 1 < m)
<1>1. LastParent(m) = (m - 2) \div 2
  BY SizeAssumption
<1> QED  BY <1>1, SizeAssumption

LEMMA KeysAreNumbers ==
    ASSUME NEW m \in 1 .. Size, Typed(m)
    PROVE  \A k \in 0 .. m - 1 : base[k] \in Int
<1>1. Keys \subseteq Int
  BY SizeAssumption
<1> QED  BY <1>1 DEF Typed

\* A swap of two elements leaves the array a permutation of what it was at first.
LEMMA SwapPermutes ==
    ASSUME NEW D, a0 \in [D -> Keys], base \in [D -> Keys], Permuted,
           NEW i \in D, NEW j \in D, base' = Swapped(base, i, j), a0' = a0
    PROVE  Permuted'
<1>1. PICK f \in [D -> D] : Permutes(f)
  BY DEF Permuted
<1> DEFINE g == Swapped(f, i, j)
<1>2. g \in [D -> D] /\ \A k \in D : g[k] = IF k = j THEN f[i] ELSE IF k = i THEN f[j] ELSE f[k]
  BY DEF Swapped
<1>3. base' \in [D -> Keys] /\ \A k \in D : base'[k] = IF k = j THEN base[i] ELSE IF k = i THEN base[j] ELSE base[k]
  BY DEF Swapped
<1> HIDE DEF g
<1>4. \A x, y \in D : g[x] = g[y] => x = y
  BY <1>1, <1>2 DEF Permutes
<1>5. \A k \in D : base'[k] = a0[g[k]]
  BY <1>1, <1>2, <1>3 DEF Permutes
<1>6. base' = [k \in D |-> a0[g[k]]]
  BY <1>3, <1>5
<1>7. DOMAIN base' = D /\ DOMAIN a0' = D
  BY <1>3
<1>8. \E h \in [D -> D] : (\A x, y \in D : h[x] = h[y] => x = y) /\ base' = [k \in D |-> a0[h[k]]]
  BY <1>2, <1>4, <1>6, Zenon
<1> QED  BY <1>7, <1>8 DEF Permuted, Permutes

LEMMA BigChildIsBig ==
    ASSUME NEW m \in 1 .. Size, Typed(m), nmemb >= 2, n <= LastParent(nmemb)
    PROVE  /\ BigChild(nmemb, n) \in Children(n) /\ BigChild(nmemb, n) < nmemb
           /\ \A c \in Children(n) : c < nmemb => base[c] <= base[BigChild(nmemb, n)]
<1>1. 2 * n + 1 < nmemb
  BY Parents, SizeAssumption DEF Typed
<1>2. \A k \in 0 .. nmemb - 1 : base[k] \in Int
  BY KeysAreNumbers DEF Typed
<1>3. BigChild(nmemb, n) \in Children(n) /\ BigChild(nmemb, n) < nmemb
  BY <1>1 DEF BigChild, Children, Typed
<1>4. ASSUME NEW c \in Children(n), c < nmemb PROVE base[c] <= base[BigChild(nmemb, n)]
  <2>1. c \in 0 .. nmemb - 1 /\ 2 * n + 1 \in 0 .. nmemb - 1 /\ (c = 2 * n + 1 \/ c = 2 * n + 2)
    BY <1>1, <1>4 DEF Children, Typed
  <2> DEFINE l == 2 * n + 1
             r == 2 * n + 2
  <2>2. base[l] \in Int /\ (r < nmemb => base[r] \in Int) /\ l \in Nat /\ r \in Nat
    BY <1>2, <2>1 DEF Typed
  <2>3. BigChild(nmemb, n) = IF r < nmemb /\ base[l] < base[r] THEN r ELSE l
    BY DEF BigChild
  <2>4. c = l \/ (c = r /\ r < nmemb)
    BY <1>4, <2>1
  <2> HIDE DEF l, r
  <2> QED  BY <2>2, <2>3, <2>4
<1> QED  BY <1>3, <1>4

\* The first element of a heap is the greatest: the least index of a greater one
\* would have a parent that is no greater than the first.
LEMMA RootIsGreatest ==
    ASSUME NEW m \in 1 .. Size, Typed(m), HeapFrom(0, -1), NEW i \in 0 .. nmemb - 1
    PROVE  base[i] <= base[0]
<1> DEFINE T == {k \in Nat : k < nmemb /\ base[k] > base[0]}
<1>1. \A k \in 0 .. nmemb - 1 : base[k] \in Int
  BY KeysAreNumbers DEF Typed
<1>2. SUFFICES ASSUME T # {} PROVE FALSE
  <2>1. i \in Nat /\ i < nmemb /\ 0 \in 0 .. nmemb - 1
    BY DEF Typed
  <2>2. i \notin T  BY <1>2
  <2> QED  BY <1>1, <2>1, <2>2
<1>3. PICK x \in T : \A y \in T : ~(<<y, x>> \in OpToRel(<, Nat))
  BY <1>2, WFMin, NatLessThanWellFounded
<1>4. \A y \in T : ~(y < x)
  BY <1>3 DEF OpToRel
<1>5. x \in Nat /\ x < nmemb /\ base[x] > base[0]
  OBVIOUS
<1>6. x # 0
  BY <1>1, <1>5 DEF Typed
<1> DEFINE p == (x - 1) \div 2
<1>7. p \in Nat /\ p < x /\ x \in Children(p)
  BY <1>5, <1>6 DEF Children
<1>8. p < nmemb
  BY <1>5, <1>7 DEF Typed
<1>9. base[x] <= base[p]
  BY <1>5, <1>7 DEF HeapFrom
<1>10. p \notin T
  BY <1>4, <1>7
<1>11. base[p] <= base[0]
  BY <1>1, <1>7, <1>8, <1>10 DEF Typed
<1> QED  BY <1>1, <1>5, <1>7, <1>8, <1>9, <1>11 DEF Typed

-----------------------------------------------------------------------------
(* The invariant                                                           *)

LEMMA Initially == Init => IInv
<1> SUFFICES ASSUME Init PROVE IInv
  OBVIOUS
<1>1. PICK m \in 1 .. Size : DOMAIN a0 = 0 .. m - 1 /\ nmemb = m /\ start = HeapifyStart(m)
  BY DEF Init
<1>2. a0 \in [0 .. m - 1 -> Keys] /\ base = a0
  BY <1>1 DEF Init, Arrays
<1>3. IF m = 1 THEN start = -1 ELSE start = (m - 2) \div 2
  BY <1>1, SizeAssumption
<1>4. Typed(m) /\ Placed(m)
  BY <1>1, <1>2, <1>3, SizeAssumption DEF Typed, Placed, Init
<1>5. HeapInv
  BY <1>1, <1>3, SizeAssumption DEF HeapInv, HeapFrom, Children, Init
<1>6. Behind
  BY <1>1, <1>2 DEF Behind
<1>7. Permuted
  <2>1. [k \in 0 .. m - 1 |-> k] \in [DOMAIN base -> DOMAIN a0]
    BY <1>1, <1>2
  <2>2. Permutes([k \in 0 .. m - 1 |-> k])
    BY <1>1, <1>2 DEF Permutes
  <2> QED  BY <2>1, <2>2 DEF Permuted
<1> QED  BY <1>4, <1>5, <1>6, <1>7 DEF IInv

LEMMA HeapifyKeeps == IInv /\ Heapify => IInv'
<1> SUFFICES ASSUME IInv, Heapify PROVE IInv'
  OBVIOUS
<1>1. PICK m \in 1 .. Size : Typed(m) /\ Placed(m)
  BY DEF IInv
<1>2. Typed(m)' /\ Placed(m)'
  BY <1>1 DEF Typed, Placed, Heapify
<1>3. HeapInv'
  BY <1>1 DEF IInv, HeapInv, HeapFrom, Children, Lowest, Heapify, Typed
<1> QED  BY <1>2, <1>3 DEF IInv, Heapify, Behind, Permuted, Permutes

LEMMA HeapifiedKeeps == IInv /\ Heapified => IInv'
<1> SUFFICES ASSUME IInv, Heapified PROVE IInv'
  OBVIOUS
<1>1. PICK m \in 1 .. Size : Typed(m) /\ Placed(m)
  BY DEF IInv
<1>2. Typed(m)' /\ Placed(m)' /\ start = -1
  BY <1>1 DEF Typed, Placed, Heapified
<1>3. HeapInv'
  BY <1>1, <1>2 DEF IInv, HeapInv, HeapFrom, Heapified
<1> QED  BY <1>2, <1>3 DEF IInv, Heapified, Behind, Permuted, Permutes

LEMMA SiftedKeeps == IInv /\ Sifted => IInv'
<1> SUFFICES ASSUME IInv, Sifted PROVE IInv'
  OBVIOUS
<1>1. PICK m \in 1 .. Size : Typed(m) /\ Placed(m)
  BY DEF IInv
<1>2. Typed(m)' /\ Placed(m)'
  BY <1>1 DEF Typed, Placed, Sifted
<1>3. HeapFrom(Lowest, n)
  BY DEF IInv, HeapInv, Sifted
<1>4. \A c \in Children(n) : c < nmemb => base[c] <= base[n]
  <2>1. nmemb \in 2 .. Size /\ n \in Nat
    BY <1>1, SizeAssumption DEF Typed, Placed, Sifted
  <2>2. CASE n <= LastParent(nmemb)
    <3>1. base[n] >= base[BigChild(nmemb, n)]
      BY <2>2 DEF Sifted
    <3>2. \A k \in 0 .. nmemb - 1 : base[k] \in Int
      BY <1>1, KeysAreNumbers DEF Typed
    <3>3. 2 * n + 1 < nmemb
      BY <2>1, <2>2, Parents
    <3> QED  BY <1>1, <2>1, <2>2, <3>1, <3>2, <3>3, BigChildIsBig DEF Children
  <2>3. CASE ~(n <= LastParent(nmemb))
    BY <2>1, <2>3, Parents DEF Children
  <2> QED  BY <2>2, <2>3
<1>5. HeapFrom(Lowest, -1)
  BY <1>3, <1>4 DEF HeapFrom, Children
<1>6. HeapInv'
  BY <1>1, <1>5 DEF HeapInv, HeapFrom, Lowest, Sifted, Typed, Placed
<1> QED  BY <1>2, <1>6 DEF IInv, Sifted, Behind, Permuted, Permutes

LEMMA SwapChildKeeps == IInv /\ SwapChild => IInv'
<1> SUFFICES ASSUME IInv, SwapChild PROVE IInv'
  OBVIOUS
<1>1. PICK m \in 1 .. Size : Typed(m) /\ Placed(m)
  BY DEF IInv
<1> DEFINE b == BigChild(nmemb, n)
<1>2. /\ base[n] < base[b] /\ base' = Swapped(base, n, b) /\ n' = b
      /\ UNCHANGED <<a0, nmemb, start, pc>> /\ pc = "sift"
  BY DEF SwapChild
<1>3. nmemb >= 2 /\ nmemb <= m /\ n <= LastParent(nmemb)
  BY <1>1 DEF Typed, Placed, SwapChild
<1>4. /\ b \in Children(n) /\ b < nmemb
      /\ \A c \in Children(n) : c < nmemb => base[c] <= base[b]
  BY <1>1, <1>3, BigChildIsBig
<1>5. n \in Nat /\ b \in Nat /\ n < b /\ nmemb \in Nat
  BY <1>1, <1>4 DEF Typed, Children
<1> HIDE DEF b
<1>6. n \in 0 .. m - 1 /\ b \in 0 .. m - 1
  BY <1>3, <1>4, <1>5
<1>7. /\ base' \in [0 .. m - 1 -> Keys]
      /\ \A k \in 0 .. m - 1 : base'[k] = IF k = b THEN base[n] ELSE IF k = n THEN base[b] ELSE base[k]
  BY <1>1, <1>2, <1>6 DEF Typed, Swapped
<1>8. \A k \in 0 .. m - 1 : base[k] \in Int
  BY <1>1, KeysAreNumbers
<1>9. Typed(m)' /\ Placed(m)'
  BY <1>1, <1>2, <1>5, <1>7 DEF Typed, Placed
<1>10. HeapFrom(Lowest, n) /\ Lowest \in Nat /\ Lowest <= n /\ Lowest' = Lowest
  BY <1>1, <1>2 DEF IInv, HeapInv, Lowest, Typed, Placed
<1>11. ASSUME NEW k \in Nat, Lowest <= k, k # b, NEW c \in Children(k), c < nmemb
       PROVE  base'[c] <= base'[k]
  <2>1. c \in 0 .. m - 1 /\ k \in 0 .. m - 1 /\ k < c
    BY <1>3, <1>5, <1>11 DEF Children
  <2>2. CASE k = n
    BY <1>2, <1>4, <1>5, <1>7, <1>8, <1>11, <2>1, <2>2
  <2>3. CASE k # n
    <3>1. base[c] <= base[k]
      BY <1>10, <1>11, <2>3 DEF HeapFrom
    <3>2. c # b
      BY <1>4, <1>5, <1>11, <2>3, OneParent
    <3>3. CASE c = n
      BY <1>4, <1>7, <1>10, <1>11, <2>1, <2>3, <3>2, <3>3 DEF HeapFrom
    <3>4. CASE c # n
      BY <1>7, <1>11, <2>1, <2>3, <3>1, <3>2, <3>4
    <3> QED  BY <3>3, <3>4
  <2> QED  BY <2>2, <2>3
<1>12. ASSUME NEW k \in Nat, Lowest <= k, b \in Children(k), NEW c \in Children(b), c < nmemb
       PROVE  base'[c] <= base'[k]
  <2>1. k = n
    BY <1>4, <1>5, <1>12, OneParent
  <2>2. c \in 0 .. m - 1 /\ b < c
    BY <1>3, <1>5, <1>12 DEF Children
  <2>3. base[c] <= base[b]
    BY <1>5, <1>10, <1>12, <2>1 DEF HeapFrom
  <2> QED  BY <1>5, <1>6, <1>7, <2>1, <2>2, <2>3
<1>13. HeapInv'
  BY <1>2, <1>10, <1>11, <1>12 DEF HeapInv, HeapFrom
<1>14. Behind'
  <2>1. \A i, j \in 0 .. m - 1 : i <= j /\ nmemb <= j => base[i] <= base[j]
    BY <1>1 DEF IInv, Behind, Typed
  <2>2. ASSUME NEW i \in 0 .. m - 1, NEW j \in 0 .. m - 1, i <= j, nmemb <= j PROVE base'[i] <= base'[j]
    <3>1. base'[j] = base[j] /\ n <= j /\ b <= j
      BY <1>4, <1>5, <1>7, <2>2
    <3> QED  BY <1>6, <1>7, <2>1, <2>2, <3>1
  <2>3. DOMAIN base' = 0 .. m - 1
    BY <1>7
  <2> QED  BY <1>2, <2>2, <2>3 DEF Behind
<1>15. Permuted'
  BY <1>1, <1>2, <1>6, SwapPermutes DEF IInv, Typed
<1> QED  BY <1>9, <1>13, <1>14, <1>15 DEF IInv

LEMMA SwapEndKeeps == IInv /\ SwapEnd => IInv'
<1> SUFFICES ASSUME IInv, SwapEnd PROVE IInv'
  OBVIOUS
<1>1. PICK m \in 1 .. Size : Typed(m) /\ Placed(m)
  BY DEF IInv
<1> DEFINE e == nmemb - 1
<1>2. /\ base' = Swapped(base, 0, e) /\ nmemb' = e /\ n' = 0 /\ UNCHANGED <<a0, start>>
      /\ pc = "swap" /\ pc' = IF nmemb > 2 THEN "sift" ELSE "done"
  BY DEF SwapEnd
<1>3. e \in 0 .. m - 1 /\ 0 \in 0 .. m - 1 /\ start = -1 /\ nmemb \in 1 .. m
  BY <1>1, <1>2 DEF Typed, Placed
<1>4. /\ base' \in [0 .. m - 1 -> Keys]
      /\ \A k \in 0 .. m - 1 : base'[k] = IF k = e THEN base[0] ELSE IF k = 0 THEN base[e] ELSE base[k]
  BY <1>1, <1>2, <1>3 DEF Typed, Swapped
<1>5. \A k \in 0 .. m - 1 : base[k] \in Int
  BY <1>1, KeysAreNumbers
<1>6. Typed(m)' /\ Placed(m)'
  BY <1>1, <1>2, <1>3, <1>4 DEF Typed, Placed
<1>7. HeapFrom(0, -1)
  BY <1>2 DEF IInv, HeapInv
<1> HIDE DEF e
<1>8. HeapInv'
  <2>1. ASSUME NEW k \in Nat, k # 0, NEW c \in Children(k), c < e PROVE base'[c] <= base'[k]
    <3>1. c \in 0 .. m - 1 /\ k \in 0 .. m - 1 /\ c # 0 /\ c # e /\ k # e /\ c < nmemb
      BY <1>3, <2>1 DEF Children, e
    <3>2. base[c] <= base[k]
      BY <1>7, <2>1, <3>1 DEF HeapFrom
    <3> QED  BY <1>4, <2>1, <3>1, <3>2
  <2>2. \A k \in Nat : 0 \notin Children(k)
    BY DEF Children
  <2>3. Lowest' = 0
    BY <1>2, <1>3 DEF Lowest
  <2>4. HeapFrom(0, 0)'
    BY <1>2, <2>1, <2>2 DEF HeapFrom
  <2> QED  BY <1>2, <2>3, <2>4 DEF HeapInv
<1>9. Behind'
  <2>1. \A i, j \in 0 .. m - 1 : i <= j /\ nmemb <= j => base[i] <= base[j]
    BY <1>1 DEF IInv, Behind, Typed
  <2>2. ASSUME NEW i \in 0 .. m - 1, NEW j \in 0 .. m - 1, i <= j, e <= j PROVE base'[i] <= base'[j]
    <3>1. CASE j = e
      <4>1. \A k \in 0 .. nmemb - 1 : base[k] <= base[0]
        BY <1>1, <1>7, RootIsGreatest
      <4> QED  BY <1>3, <1>4, <1>5, <2>2, <3>1, <4>1 DEF e
    <3>2. CASE j # e
      <4>1. nmemb <= j /\ e <= j /\ 0 <= j /\ j # 0
        BY <1>3, <2>2, <3>2 DEF e
      <4>2. base'[j] = base[j]
        BY <1>4, <3>2, <4>1
      <4> QED  BY <1>3, <1>4, <2>1, <2>2, <4>1, <4>2
    <3> QED  BY <3>1, <3>2
  <2>3. DOMAIN base' = 0 .. m - 1
    BY <1>4
  <2> QED  BY <1>2, <2>2, <2>3 DEF Behind
<1>10. Permuted'
  BY <1>1, <1>2, <1>3, SwapPermutes DEF IInv, Typed
<1> QED  BY <1>6, <1>8, <1>9, <1>10 DEF IInv

\* The inductive invariant holds of every behaviour.
THEOREM Inductive == Spec => []IInv
<1>1. IInv /\ [Next]_vars => IInv'
  <2> SUFFICES ASSUME IInv, [Next]_vars PROVE IInv'
    OBVIOUS
  <2>1. CASE Heapify    BY <2>1, HeapifyKeeps
  <2>2. CASE Heapified  BY <2>2, HeapifiedKeeps
  <2>3. CASE SwapChild  BY <2>3, SwapChildKeeps
  <2>4. CASE Sifted     BY <2>4, SiftedKeeps
  <2>5. CASE SwapEnd    BY <2>5, SwapEndKeeps
  <2>6. CASE UNCHANGED vars
    <3>1. PICK m \in 1 .. Size : Typed(m) /\ Placed(m)
      BY DEF IInv
    <3>2. Typed(m)' /\ Placed(m)'
      BY <2>6, <3>1 DEF vars, Typed, Placed
    <3>3. HeapInv'
      BY <2>6 DEF vars, IInv, HeapInv, HeapFrom, Lowest
    <3>4. Behind' /\ Permuted'
      BY <2>6 DEF vars, IInv, Behind, Permuted, Permutes
    <3> QED  BY <3>2, <3>3, <3>4 DEF IInv
  <2> QED  BY <2>1, <2>2, <2>3, <2>4, <2>5, <2>6 DEF Next
<1> QED  BY Initially, <1>1, PTL DEF Spec

\* The end of the array is in order at every step, and all of it at the end.
THEOREM HeapSortSorts == Spec => []Sorted
<1>1. IInv => Sorted
  <2> SUFFICES ASSUME IInv, NEW i \in DOMAIN base, NEW j \in DOMAIN base, i <= j, nmemb <= j \/ pc = "done"
               PROVE  base[i] <= base[j]
    BY DEF Sorted
  <2>1. PICK m \in 1 .. Size : Typed(m) /\ Placed(m)
    BY DEF IInv
  <2>2. CASE nmemb <= j
    BY <2>2 DEF IInv, Behind
  <2>3. CASE i = j
    <3>1. base[i] \in Int
      BY <2>1, KeysAreNumbers DEF Typed
    <3> QED  BY <2>3, <3>1
  <2>4. CASE ~(nmemb <= j) /\ i # j
    BY <2>1, <2>4 DEF Typed, Placed
  <2> QED  BY <2>2, <2>3, <2>4
<1> QED  BY <1>1, Inductive, PTL

\* No element is lost or doubled by the swaps.
THEOREM HeapSortPermutes == Spec => []Permuted
<1>1. IInv => Permuted
  BY DEF IInv
<1> QED  BY <1>1, Inductive, PTL
-----------------------------------------------------------------------------
(* The search with a regular expression                                    *)

ArrayProofs == INSTANCE TaoNumArrayProofs WITH result <- last

\* u matches t times from position e on; how often it may; where it then leads.
Fits(u, s, e, t) == \A m \in 0 .. t - 1 : Regex!WordAt(u, s, e + m * Len(u.word))
Counts(u) == (u.repMin .. u.repMax) \cup (IF u.ignorable THEN {0} ELSE {})
Leads(u, s, e, x) == \E t \in Counts(u) : x = e + t * Len(u.word) /\ Fits(u, s, e, t)

\* The units from k on match from x on: p has the places between them.
Way(pat, s, k, x) ==
    \E p \in [k - 1 .. Len(pat) -> 0 .. Len(s)] :
        p[k - 1] = x /\ \A i \in k .. Len(pat) : Leads(pat[i], s, p[i - 1], p[i])

IsUnit(u) == /\ Len(u.word) \in Nat \ {0} /\ u.ignorable \in BOOLEAN
             /\ u.repMin \in {0, 1} /\ u.repMax \in Nat /\ u.repMin <= u.repMax

LEMMA Place ==
    ASSUME NEW w \in Nat \ {0}, NEW e \in Nat, NEW a \in Nat, NEW b \in Nat
    PROVE  /\ a * w \in Nat /\ (a + b) * w = a * w + b * w /\ a <= a * w
           /\ e + (a + b) * w = (e + a * w) + b * w
           /\ (a + 1) * w = a * w + w
  <1>1. a * w \in Nat /\ b * w \in Nat OBVIOUS
  <1>2. (a + b) * w = a * w + b * w OBVIOUS
  <1>3. a <= a * w
    <2>1. PICK v \in Nat : w = v + 1
      <3>1. w - 1 \in Nat /\ w = (w - 1) + 1 OBVIOUS
      <3> QED BY <3>1
    <2>2. a * w = a * v + a /\ a * v \in Nat BY <2>1
    <2> QED BY <2>2
  <1>4. (a + 1) * w = a * w + w OBVIOUS
  <1>5. e + (a * w + b * w) = (e + a * w) + b * w BY <1>1
  <1> QED BY <1>1, <1>2, <1>3, <1>4, <1>5

LEMMA FitsIn ==
    ASSUME NEW u, IsUnit(u), NEW s, Len(s) \in Nat, NEW e \in 0 .. Len(s), NEW t \in Nat, Fits(u, s, e, t)
    PROVE  e + t * Len(u.word) \in 0 .. Len(s) /\ t <= Len(s)
  <1> DEFINE w == Len(u.word)
  <1>1. w \in Nat \ {0} BY DEF IsUnit
  <1> HIDE DEF w
  <1>2. t * w \in Nat /\ t <= t * w BY <1>1, Place
  <1>3. CASE t = 0
    <2>1. t * w = 0 BY <1>1, <1>3
    <2> QED BY <2>1, <1>3 DEF w
  <1>4. CASE t # 0
    <2>1. t - 1 \in 0 .. t - 1 /\ t - 1 \in Nat /\ (t - 1) + 1 = t BY <1>4
    <2>2. e + (t - 1) * w + w <= Len(s) BY <2>1 DEF Fits, Regex!WordAt, w
    <2>3. t * w = (t - 1) * w + w /\ (t - 1) * w \in Nat BY <1>1, <2>1, Place
    <2>4. e + t * w <= Len(s) BY <1>1, <2>2, <2>3
    <2> QED BY <1>2, <2>4 DEF w
  <1> QED BY <1>3, <1>4

LEMMA FitsMore ==
    ASSUME NEW u, IsUnit(u), NEW s, NEW e \in Nat, NEW a \in Nat, NEW b \in Nat
    PROVE  Fits(u, s, e, a + b) <=> Fits(u, s, e, a) /\ Fits(u, s, e + a * Len(u.word), b)
  <1> DEFINE w == Len(u.word)
             At(m) == Regex!WordAt(u, s, e + m * w)
  <1>1. w \in Nat \ {0} BY DEF IsUnit
  <1>2. \A t \in Nat : Fits(u, s, e, t) <=> \A m \in 0 .. t - 1 : At(m) BY DEF Fits
  <1>3. Fits(u, s, e + a * w, b) <=> \A m \in 0 .. b - 1 : At(a + m)
    <2>1. \A m \in 0 .. b - 1 : e + (a + m) * w = (e + a * w) + m * w
      <3> TAKE m \in 0 .. b - 1
      <3>1. m \in Nat OBVIOUS
      <3> HIDE DEF w
      <3> QED BY <1>1, <3>1, Place
    <2> QED BY <2>1 DEF Fits
  <1> HIDE DEF At
  <1>4. (\A m \in 0 .. a + b - 1 : At(m)) <=> (\A m \in 0 .. a - 1 : At(m)) /\ \A m \in 0 .. b - 1 : At(a + m)
    <2>1. ASSUME \A m \in 0 .. a + b - 1 : At(m) PROVE (\A m \in 0 .. a - 1 : At(m)) /\ \A m \in 0 .. b - 1 : At(a + m)
      <3>1. \A m \in 0 .. b - 1 : a + m \in 0 .. a + b - 1 OBVIOUS
      <3>2. \A m \in 0 .. a - 1 : m \in 0 .. a + b - 1 OBVIOUS
      <3> QED BY <2>1, <3>1, <3>2
    <2>2. ASSUME \A m \in 0 .. a - 1 : At(m), \A m \in 0 .. b - 1 : At(a + m), NEW m \in 0 .. a + b - 1 PROVE At(m)
      <3>1. CASE m < a BY <2>2, <3>1
      <3>2. CASE m >= a
        <4>1. m - a \in 0 .. b - 1 /\ a + (m - a) = m BY <3>2
        <4>2. At(a + (m - a)) BY <2>2, <4>1
        <4> QED BY <4>1, <4>2
      <3> QED BY <3>1, <3>2
    <2> QED BY <2>1, <2>2
  <1>5. a + b \in Nat OBVIOUS
  <1> QED BY <1>2, <1>3, <1>4, <1>5

\* What match_repeat counts is the most that fits.
LEMMA RepeatsIs ==
    ASSUME NEW u, IsUnit(u), NEW s, Len(s) \in Nat, NEW e \in 0 .. Len(s), NEW t \in Nat
    PROVE  /\ Regex!Repeats(u, s, e, t) \in 0 .. t
           /\ Fits(u, s, e, Regex!Repeats(u, s, e, t))
           /\ \A m \in Nat : m <= t /\ Fits(u, s, e, m) => m <= Regex!Repeats(u, s, e, t)
  <1> DEFINE K == {k \in 0 .. Regex!Min({t, Len(s)}) : \A m \in 0 .. k - 1 : Regex!WordAt(u, s, e + m * Len(u.word))}
             Off == {t - k : k \in K}
  <1>1. Regex!Min({t, Len(s)}) = IF t <= Len(s) THEN t ELSE Len(s) BY DEF Regex!Min
  <1>2. K = {k \in 0 .. t : k <= Len(s) /\ Fits(u, s, e, k)} BY <1>1 DEF Fits
  <1> HIDE DEF K
  <1>3. \A k \in Nat : k <= t /\ Fits(u, s, e, k) => k \in K BY <1>2, FitsIn
  <1>4. 0 \in K BY <1>3 DEF Fits
  <1>5. PICK x \in Off : \A y \in Off : x <= y
    <2>1. Off \subseteq Nat /\ Off # {} BY <1>2, <1>4
    <2> HIDE DEF Off
    <2> QED BY <2>1, ArrayProofs!LeastOne
  <1>6. PICK k \in K : x = t - k BY <1>5
  <1>7. \A y \in K : k >= y
    <2> TAKE y \in K
    <2>1. t - y \in Off OBVIOUS
    <2>2. t - k <= t - y BY <1>5, <1>6, <2>1
    <2> QED BY <1>2, <2>2
  <1>8. Regex!Max(K) = k BY <1>2, <1>6, <1>7 DEF Regex!Max
  <1>9. Regex!Repeats(u, s, e, t) = k BY <1>8 DEF Regex!Repeats, K
  <1> QED BY <1>2, <1>3, <1>7, <1>9

LEMMA WayOn ==
    ASSUME NEW pat, Len(pat) \in Nat, NEW s, NEW k \in 1 .. Len(pat), NEW x \in 0 .. Len(s), Way(pat, s, k, x)
    PROVE  \E t \in Counts(pat[k]) : Fits(pat[k], s, x, t) /\ Way(pat, s, k + 1, x + t * Len(pat[k].word))
  <1>1. PICK p \in [k - 1 .. Len(pat) -> 0 .. Len(s)] :
            p[k - 1] = x /\ \A i \in k .. Len(pat) : Leads(pat[i], s, p[i - 1], p[i])
    BY DEF Way
  <1>2. PICK t \in Counts(pat[k]) : p[k] = x + t * Len(pat[k].word) /\ Fits(pat[k], s, x, t)
    <2>1. k \in k .. Len(pat) OBVIOUS
    <2> QED BY <1>1, <2>1 DEF Leads
  <1> DEFINE q == [i \in k .. Len(pat) |-> p[i]]
  <1>3. q \in [(k + 1) - 1 .. Len(pat) -> 0 .. Len(s)] /\ q[(k + 1) - 1] = p[k]
    <2>1. \A i \in k .. Len(pat) : i \in k - 1 .. Len(pat) OBVIOUS
    <2>2. k + 1 - 1 = k /\ k \in k .. Len(pat) OBVIOUS
    <2> QED BY <2>1, <2>2
  <1>4. \A i \in k + 1 .. Len(pat) : Leads(pat[i], s, q[i - 1], q[i])
    <2> TAKE i \in k + 1 .. Len(pat)
    <2>1. i \in k .. Len(pat) /\ i - 1 \in k .. Len(pat) OBVIOUS
    <2>2. q[i - 1] = p[i - 1] /\ q[i] = p[i] BY <2>1
    <2> QED BY <1>1, <2>1, <2>2
  <1> HIDE DEF q
  <1>5. Way(pat, s, k + 1, p[k])
    <2>1. \E r \in [(k + 1) - 1 .. Len(pat) -> 0 .. Len(s)] :
            r[(k + 1) - 1] = p[k] /\ \A i \in k + 1 .. Len(pat) : Leads(pat[i], s, r[i - 1], r[i])
      BY <1>3, <1>4, Zenon
    <2> QED BY <2>1, Zenon DEF Way
  <1> QED BY <1>2, <1>5

\* The way back that Ends goes: one unit.
LEMMA EndsStep ==
    ASSUME NEW u, IsUnit(u), Len(str) \in Nat, NEW E \in SUBSET (0 .. Len(str))
    PROVE  {x \in 0 .. Len(str) :
              \E e \in E, t \in (u.repMin .. Regex!Min({u.repMax, Len(str)})) \cup (IF u.ignorable THEN {0} ELSE {}) :
                x = e + t * Len(u.word) /\ Regex!Repeats(u, str, e, t) = t}
           = {x \in 0 .. Len(str) : \E e \in E : Leads(u, str, e, x)}
  <1> DEFINE C == (u.repMin .. Regex!Min({u.repMax, Len(str)})) \cup (IF u.ignorable THEN {0} ELSE {})
  <1>1. Regex!Min({u.repMax, Len(str)}) = IF u.repMax <= Len(str) THEN u.repMax ELSE Len(str)
    BY DEF Regex!Min, IsUnit
  <1>2. C \subseteq Counts(u) /\ C \subseteq Nat /\ \A t \in Counts(u) : t \in Nat /\ (t <= Len(str) => t \in C)
    <2>1. C \subseteq Counts(u) BY <1>1 DEF Counts, IsUnit
    <2>2. C \subseteq Nat BY <1>1 DEF IsUnit
    <2>3. \A t \in Counts(u) : t \in Nat /\ (t <= Len(str) => t \in C) BY <1>1 DEF Counts, IsUnit
    <2> QED BY <2>1, <2>2, <2>3
  <1>3. \A e \in E, t \in C : Regex!Repeats(u, str, e, t) = t <=> Fits(u, str, e, t)
    <2> TAKE e \in E, t \in C
    <2>1. e \in 0 .. Len(str) /\ t \in Nat BY <1>2
    <2>2. /\ Regex!Repeats(u, str, e, t) \in 0 .. t /\ Fits(u, str, e, Regex!Repeats(u, str, e, t))
          /\ \A m \in Nat : m <= t /\ Fits(u, str, e, m) => m <= Regex!Repeats(u, str, e, t)
      <3> HIDE DEF C
      <3> QED BY <2>1, RepeatsIs, Zenon
    <2>3. Fits(u, str, e, t) => t <= Regex!Repeats(u, str, e, t)
      <3>1. t <= t BY <2>1
      <3> QED BY <2>1, <2>2, <3>1, Zenon
    <2> QED BY <2>1, <2>2, <2>3
  <1>4. \A e \in E, t \in Counts(u) : Fits(u, str, e, t) => t \in C
    <2> TAKE e \in E, t \in Counts(u)
    <2>1. e \in 0 .. Len(str) /\ t \in Nat BY <1>2
    <2>2. Fits(u, str, e, t) => t <= Len(str) BY <2>1, FitsIn
    <2> QED BY <1>2, <2>2
  <1>5. ASSUME NEW x \in 0 .. Len(str), NEW e \in E, Leads(u, str, e, x)
        PROVE  \E t \in C : x = e + t * Len(u.word) /\ Regex!Repeats(u, str, e, t) = t
    <2>1. PICK t \in Counts(u) : x = e + t * Len(u.word) /\ Fits(u, str, e, t) BY <1>5 DEF Leads
    <2>2. t \in C BY <1>4, <2>1
    <2> QED BY <1>3, <2>1, <2>2
  <1>6. ASSUME NEW x, NEW e \in E, NEW t \in C, x = e + t * Len(u.word), Regex!Repeats(u, str, e, t) = t
        PROVE  Leads(u, str, e, x)
    <2>1. t \in Counts(u) /\ Fits(u, str, e, t) BY <1>2, <1>3, <1>6
    <2> QED BY <1>6, <2>1 DEF Leads
  <1> QED BY <1>5, <1>6

\* The sets that Ends goes through.
LEMMA EndsSets ==
    ASSUME Len(rgxUnit) \in Nat, Len(str) \in Nat, \A k \in 1 .. Len(rgxUnit) : IsUnit(rgxUnit[k]),
           NEW from \in 0 .. Len(str)
    PROVE  \E ends : /\ ends[0] = {from}
                     /\ \A k \in 1 .. Len(rgxUnit) :
                          ends[k] = {x \in 0 .. Len(str) : \E e \in ends[k - 1] : Leads(rgxUnit[k], str, e, x)}
                     /\ Regex!Ends(from) = ends[Len(rgxUnit)]
  <1> DEFINE n0 == Len(rgxUnit)
             V == SUBSET (0 .. Len(str))
             On(k, E) == {x \in 0 .. Len(str) : \E e \in E : Leads(rgxUnit[k], str, e, x)}
             step == [k \in 1 .. n0 |-> [E \in V |-> On(k, E)]]
             C(u) == (u.repMin .. Regex!Min({u.repMax, Len(str)})) \cup (IF u.ignorable THEN {0} ELSE {})
             Walk(u, E) == {x \in 0 .. Len(str) : \E e \in E, t \in C(u) :
                               x = e + t * Len(u.word) /\ Regex!Repeats(u, str, e, t) = t}
             Solves(h) == h = [k \in 0 .. n0 |-> IF k = 0 THEN {from} ELSE Walk(rgxUnit[k], h[k - 1])]
             ends == CHOOSE h : Solves(h)
  <1>1. \A k \in 1 .. n0 : \A E \in V : Walk(rgxUnit[k], E) = On(k, E)
    <2> SUFFICES ASSUME NEW k \in 1 .. n0, NEW E \in V PROVE Walk(rgxUnit[k], E) = On(k, E)
      BY Zenon
    <2>1. IsUnit(rgxUnit[k]) OBVIOUS
    <2> QED BY <2>1, EndsStep, Zenon
  <1>2. Regex!Ends(from) = ends[n0] BY DEF Regex!Ends
  <1>3. step \in [1 .. n0 -> [V -> V]]
    <2>1. \A k, E : On(k, E) \in V OBVIOUS
    <2> HIDE DEF On, V
    <2> QED BY <2>1
  <1> HIDE DEF Walk, On
  <1>4. PICK f \in [0 .. n0 -> V] : ArrayProofs!Steps(f, n0, {from}, step)
    <2>1. {from} \in V OBVIOUS
    <2> HIDE DEF step, V
    <2> QED BY <1>3, <2>1, ArrayProofs!StepsExist
  <1>5. Solves(f)
    <2>1. f[0] = {from} /\ \A k \in 1 .. n0 : f[k] = step[k][f[k - 1]] BY <1>4 DEF ArrayProofs!Steps
    <2>2. \A k \in 1 .. n0 : f[k - 1] \in V
      <3>1. \A k \in 1 .. n0 : k - 1 \in 0 .. n0 OBVIOUS
      <3> HIDE DEF V
      <3> QED BY <1>4, <3>1
    <2>3. \A k \in 1 .. n0 : f[k] = Walk(rgxUnit[k], f[k - 1])
      <3> HIDE DEF V, n0
      <3> QED BY <1>1, <2>1, <2>2
    <2>4. \A k \in 0 .. n0 : k # 0 => k \in 1 .. n0 OBVIOUS
    <2> HIDE DEF V, n0
    <2>5. f = [k \in 0 .. n0 |-> f[k]] BY <1>4
    <2> QED BY <2>1, <2>3, <2>4, <2>5
  <1>6. Solves(ends)
    <2> HIDE DEF Solves
    <2> QED BY <1>5
  <1> HIDE DEF ends
  <1>7. ends[0] = {from} /\ \A k \in 1 .. n0 : ends[k] = Walk(rgxUnit[k], ends[k - 1])
    <2>1. 0 \in 0 .. n0 /\ \A k \in 1 .. n0 : k \in 0 .. n0 /\ k # 0 OBVIOUS
    <2> QED BY <1>6, <2>1
  <1>8. \A k \in 1 .. n0 : ends[k - 1] \in V
    <2> TAKE k \in 1 .. n0
    <2>1. CASE k = 1 BY <1>7, <2>1
    <2>2. CASE k # 1
      <3>1. k - 1 \in 1 .. n0 BY <2>2
      <3>2. ends[k - 1] = Walk(rgxUnit[k - 1], ends[k - 1 - 1]) BY <1>7, <3>1
      <3> QED BY <3>2 DEF Walk
    <2> QED BY <2>1, <2>2
  <1>9. \A k \in 1 .. n0 : ends[k] = On(k, ends[k - 1])
    <2> HIDE DEF V, n0
    <2> QED BY <1>1, <1>7, <1>8
  <1> QED BY <1>2, <1>7, <1>9 DEF On

LEMMA EndsAre ==
    ASSUME Len(rgxUnit) \in Nat, Len(str) \in Nat, \A k \in 1 .. Len(rgxUnit) : IsUnit(rgxUnit[k]),
           NEW from \in 0 .. Len(str), NEW x
    PROVE  x \in Regex!Ends(from) <=>
             \E p \in [0 .. Len(rgxUnit) -> 0 .. Len(str)] :
                /\ p[0] = from /\ p[Len(rgxUnit)] = x
                /\ \A k \in 1 .. Len(rgxUnit) : Leads(rgxUnit[k], str, p[k - 1], p[k])
  <1> DEFINE n0 == Len(rgxUnit)
             S == 0 .. Len(str)
             On(k, e, y) == Leads(rgxUnit[k], str, e, y)
             Path(p, m) == p[0] = from /\ \A k \in 1 .. m : On(k, p[k - 1], p[k])
  <1> HIDE DEF On
  <1>1. PICK ends : /\ ends[0] = {from}
                    /\ \A k \in 1 .. n0 : ends[k] = {y \in S : \E e \in ends[k - 1] : On(k, e, y)}
                    /\ Regex!Ends(from) = ends[n0]
    BY EndsSets DEF On
  <1> HIDE DEF n0, S
  <1>2. n0 \in Nat /\ from \in S BY DEF n0, S
  <1>3. ASSUME NEW p \in [0 .. n0 -> S], Path(p, n0) PROVE p[n0] \in Regex!Ends(from)
    <2> DEFINE R == {m \in 0 .. n0 : p[m] \in ends[m]}
    <2>1. 0 \in R BY <1>1, <1>2, <1>3
    <2>2. ASSUME NEW m \in 0 .. n0, m < n0, m \in R PROVE m + 1 \in R
      <3>1. m + 1 \in 1 .. n0 /\ m + 1 \in 0 .. n0 /\ (m + 1) - 1 = m BY <1>2, <2>2
      <3>2. On(m + 1, p[m], p[m + 1]) BY <1>3, <3>1
      <3>3. ends[m + 1] = {y \in S : \E e \in ends[m] : On(m + 1, e, y)} BY <1>1, <3>1
      <3>4. p[m + 1] \in S BY <3>1
      <3>5. p[m] \in ends[m] BY <2>2
      <3> QED BY <3>1, <3>2, <3>3, <3>4, <3>5
    <2> HIDE DEF R
    <2>3. \A m \in 0 .. n0 : m \in R BY <1>2, <2>1, <2>2, ArrayProofs!Climb
    <2> QED BY <1>1, <1>2, <2>3 DEF R
  <1>4. ASSUME x \in Regex!Ends(from)
        PROVE  \E p \in [0 .. n0 -> S] : p[n0] = x /\ Path(p, n0)
    <2> DEFINE R == {m \in 0 .. n0 : \A y \in ends[m] : \E p \in [0 .. m -> S] : p[m] = y /\ Path(p, m)}
    <2>1. 0 \in R
      <3> SUFFICES \E p \in [0 .. 0 -> S] : p[0] = from /\ Path(p, 0) BY <1>1, <1>2
      <3>1. [k \in 0 .. 0 |-> from] \in [0 .. 0 -> S] /\ Path([k \in 0 .. 0 |-> from], 0) BY <1>2
      <3> QED BY <3>1
    <2>2. ASSUME NEW m \in 0 .. n0, m < n0, m \in R PROVE m + 1 \in R
      <3>1. m + 1 \in 1 .. n0 /\ m + 1 \in 0 .. n0 /\ (m + 1) - 1 = m BY <1>2, <2>2
      <3>2. SUFFICES ASSUME NEW y \in ends[m + 1]
                     PROVE  \E p \in [0 .. m + 1 -> S] : p[m + 1] = y /\ Path(p, m + 1)
        BY <3>1
      <3>3. PICK e \in ends[m] : y \in S /\ On(m + 1, e, y) BY <1>1, <3>1
      <3>4. PICK p \in [0 .. m -> S] : p[m] = e /\ Path(p, m) BY <2>2
      <3> DEFINE q == [k \in 0 .. m + 1 |-> IF k = m + 1 THEN y ELSE p[k]]
      <3>5. q \in [0 .. m + 1 -> S] /\ q[m + 1] = y /\ \A k \in 0 .. m : q[k] = p[k] BY <3>1, <3>3
      <3> HIDE DEF q
      <3>6. Path(q, m + 1)
        <4>1. q[0] = from BY <3>4, <3>5
        <4>2. ASSUME NEW k \in 1 .. m + 1 PROVE On(k, q[k - 1], q[k])
          <5>1. CASE k = m + 1 BY <3>1, <3>3, <3>4, <3>5, <5>1
          <5>2. CASE k # m + 1
            <6>1. k \in 1 .. m /\ k - 1 \in 0 .. m /\ k \in 0 .. m BY <5>2
            <6> QED BY <3>4, <3>5, <6>1
          <5> QED BY <5>1, <5>2
        <4> QED BY <4>1, <4>2
      <3> QED BY <3>5, <3>6
    <2> HIDE DEF R
    <2>3. \A m \in 0 .. n0 : m \in R BY <1>2, <2>1, <2>2, ArrayProofs!Climb
    <2> QED BY <1>1, <1>2, <1>4, <2>3 DEF R
  <1> QED BY <1>3, <1>4 DEF n0, S, On

LEMMA NoWayNoEnds ==
    ASSUME Len(rgxUnit) \in Nat, Len(str) \in Nat, \A k \in 1 .. Len(rgxUnit) : IsUnit(rgxUnit[k]),
           NEW from \in 0 .. Len(str), ~Way(rgxUnit, str, 1, from)
    PROVE  Regex!Ends(from) = {}
  <1>1. SUFFICES ASSUME NEW x \in Regex!Ends(from) PROVE FALSE OBVIOUS
  <1>2. \E p \in [0 .. Len(rgxUnit) -> 0 .. Len(str)] :
            p[0] = from /\ \A k \in 1 .. Len(rgxUnit) : Leads(rgxUnit[k], str, p[k - 1], p[k])
    BY EndsAre
  <1>3. 1 - 1 = 0 OBVIOUS
  <1>4. Way(rgxUnit, str, 1, from) BY <1>2, <1>3 DEF Way
  <1> QED BY <1>4

-----------------------------------------------------------------------------
\* The units that are matched: all before the one in hand, that one too when match
\* comes back to it, and all at the end.
Matched == IF found = "found" THEN Len(rgxUnit) ELSE IF min_match THEN atUnit - 1 ELSE atUnit
NoneIgnorable == \A k \in DOMAIN rgxUnit : ~rgxUnit[k].ignorable

\* The first m units are matched as often as counts says: p has the places between
\* them, from from to end.
Along(p, m, pat, s, counts, from, end) ==
    /\ p \in [0 .. m -> 0 .. Len(s)] /\ p[0] = from /\ p[m] = end
    /\ \A k \in 1 .. m : /\ counts[k] \in Counts(pat[k])
                         /\ p[k] = p[k - 1] + counts[k] * Len(pat[k].word)
                         /\ Fits(pat[k], s, p[k - 1], counts[k])
\* No match has unit k fewer than t times from e on.
Tried(pat, s, k, e, t) == \A c \in Counts(pat[k]) : c < t => ~Way(pat, s, k + 1, e + c * Len(pat[k].word))
AllTried(p, m, pat, s, counts) == \A k \in 1 .. m : Tried(pat, s, k, p[k - 1], counts[k])

\* No start before the one in hand has a match, and from this one no match has fewer
\* repeats of a unit that is matched; nor as many, when match has come back to it.
SearchInv ==
    /\ rgxUnit \in Patterns /\ str \in Strings /\ min_match \in BOOLEAN
    /\ at \in Nat /\ shift \in Int /\ atUnit \in 0 .. Len(rgxUnit) + 1 /\ (min_match => atUnit >= 1)
    /\ DOMAIN numMatched = DOMAIN rgxUnit
    /\ found \in {"none", "found", "failed"}
    /\ found = "failed" => at >= Len(str)
    /\ found # "failed" =>
          /\ Matched \in 0 .. Len(rgxUnit)
          /\ \E p : /\ Along(p, Matched, rgxUnit, str, numMatched, at, at + shift)
                    /\ found = "none" /\ NoneIgnorable => AllTried(p, Matched, rgxUnit, str, numMatched)
    /\ found = "none" /\ NoneIgnorable /\ ~min_match => ~Way(rgxUnit, str, atUnit + 1, at + shift)
    /\ NoneIgnorable => \A from \in 0 .. Len(str) - 1 : from < at => ~Way(rgxUnit, str, 1, from)

LEMMA PatternIs ==
    ASSUME Regex!PatternAssumption, rgxUnit \in Patterns, str \in Strings
    PROVE  /\ Len(rgxUnit) \in Nat /\ Len(str) \in Nat /\ DOMAIN rgxUnit = 1 .. Len(rgxUnit)
           /\ \A k \in 1 .. Len(rgxUnit) : IsUnit(rgxUnit[k])
  BY DEF Regex!PatternAssumption, IsUnit

LEMMA CountsAre == ASSUME NEW u, IsUnit(u) PROVE Counts(u) \subseteq 0 .. u.repMax
  BY DEF Counts, IsUnit

\* Unit k is matched t times, anew or once more.
LEMMA AlongOn ==
    ASSUME NEW pat, Len(pat) \in Nat, \A k \in 1 .. Len(pat) : IsUnit(pat[k]), NEW s, Len(s) \in Nat,
           NEW k \in 1 .. Len(pat), NEW m \in {k - 1, k}, NEW counts, DOMAIN counts = 1 .. Len(pat),
           NEW from, NEW end, NEW p, Along(p, m, pat, s, counts, from, end),
           NEW n0 \in Counts(pat[k]), Fits(pat[k], s, p[k - 1], n0)
    PROVE  \E q : /\ Along(q, k, pat, s, [counts EXCEPT ![k] = n0], from, p[k - 1] + n0 * Len(pat[k].word))
                  /\ AllTried(p, m, pat, s, counts) /\ Tried(pat, s, k, p[k - 1], n0)
                     => AllTried(q, k, pat, s, [counts EXCEPT ![k] = n0])
  <1> DEFINE e == p[k - 1] + n0 * Len(pat[k].word)
             q == [i \in 0 .. k |-> IF i = k THEN e ELSE p[i]]
             new == [counts EXCEPT ![k] = n0]
  <1>1. n0 \in Nat
    <2>1. IsUnit(pat[k]) OBVIOUS
    <2> QED BY <2>1, CountsAre DEF IsUnit
  <1>2. p \in [0 .. m -> 0 .. Len(s)] /\ p[0] = from BY DEF Along
  <1>3. \A i \in 0 .. k - 1 : i \in 0 .. m /\ i # k OBVIOUS
  <1>4. e \in 0 .. Len(s)
    <2>1. k - 1 \in 0 .. k - 1 OBVIOUS
    <2>2. p[k - 1] \in 0 .. Len(s) BY <1>2, <1>3, <2>1
    <2> QED BY <1>1, <2>2, FitsIn
  <1> HIDE DEF e
  <1>5. q \in [0 .. k -> 0 .. Len(s)] /\ q[k] = e /\ \A i \in 0 .. k - 1 : q[i] = p[i]
    BY <1>2, <1>3, <1>4
  <1>6. new[k] = n0 /\ \A i \in 1 .. k - 1 : new[i] = counts[i] OBVIOUS
  <1> HIDE DEF q, new
  <1>7. \A i \in 1 .. k : i - 1 \in 0 .. k - 1 /\ (i # k => i \in 1 .. k - 1 /\ i \in 0 .. k - 1 /\ i \in 1 .. m)
    OBVIOUS
  <1>8. Along(q, k, pat, s, new, from, e)
    <2>1. q[0] = from BY <1>2, <1>5
    <2>2. ASSUME NEW i \in 1 .. k
          PROVE  /\ new[i] \in Counts(pat[i]) /\ q[i] = q[i - 1] + new[i] * Len(pat[i].word)
                 /\ Fits(pat[i], s, q[i - 1], new[i])
      <3>1. q[i - 1] = p[i - 1] BY <1>5, <1>7
      <3>2. CASE i = k BY <1>5, <1>6, <3>1, <3>2 DEF e
      <3>3. CASE i # k
        <4>1. q[i] = p[i] /\ new[i] = counts[i] /\ i \in 1 .. m BY <1>5, <1>6, <1>7, <3>3
        <4> QED BY <3>1, <4>1 DEF Along
      <3> QED BY <3>2, <3>3
    <2> QED BY <1>5, <2>1, <2>2 DEF Along
  <1>9. ASSUME AllTried(p, m, pat, s, counts), Tried(pat, s, k, p[k - 1], n0) PROVE AllTried(q, k, pat, s, new)
    <2> SUFFICES ASSUME NEW i \in 1 .. k PROVE Tried(pat, s, i, q[i - 1], new[i]) BY DEF AllTried
    <2>1. q[i - 1] = p[i - 1] BY <1>5, <1>7
    <2>2. CASE i = k BY <1>6, <1>9, <2>1, <2>2
    <2>3. CASE i # k
      <3>1. new[i] = counts[i] /\ i \in 1 .. m BY <1>6, <1>7, <2>3
      <3> QED BY <1>9, <2>1, <3>1 DEF AllTried
    <2> QED BY <2>2, <2>3
  <1> QED BY <1>8, <1>9 DEF e, new

\* The last of the matched units is given up.
LEMMA AlongBack ==
    ASSUME NEW pat, NEW s, NEW k \in Nat \ {0}, NEW counts, NEW from, NEW end, NEW p, Along(p, k, pat, s, counts, from, end)
    PROVE  \E q : /\ Along(q, k - 1, pat, s, counts, from, p[k - 1])
                  /\ AllTried(p, k, pat, s, counts) => AllTried(q, k - 1, pat, s, counts)
  <1> DEFINE q == [i \in 0 .. k - 1 |-> p[i]]
  <1>1. p \in [0 .. k -> 0 .. Len(s)] /\ p[0] = from BY DEF Along
  <1>2. q \in [0 .. k - 1 -> 0 .. Len(s)] /\ \A i \in 0 .. k - 1 : q[i] = p[i]
    <2>1. \A i \in 0 .. k - 1 : i \in 0 .. k OBVIOUS
    <2> QED BY <1>1, <2>1
  <1> HIDE DEF q
  <1>3. 0 \in 0 .. k - 1 /\ k - 1 \in 0 .. k - 1
        /\ \A i \in 1 .. k - 1 : i \in 1 .. k /\ i \in 0 .. k - 1 /\ i - 1 \in 0 .. k - 1
    OBVIOUS
  <1>4. Along(q, k - 1, pat, s, counts, from, p[k - 1]) BY <1>1, <1>2, <1>3 DEF Along
  <1>5. AllTried(p, k, pat, s, counts) => AllTried(q, k - 1, pat, s, counts) BY <1>2, <1>3 DEF AllTried
  <1> QED BY <1>4, <1>5

LEMMA SearchInit ==
    ASSUME Regex!PatternAssumption, Regex!Init
    PROVE  SearchInv
  <1>1. /\ rgxUnit \in Patterns /\ str \in Strings /\ at = 0 /\ atUnit = 1 /\ min_match = TRUE /\ shift = 0
        /\ numMatched = [k \in DOMAIN rgxUnit |-> 0] /\ found = "none"
    BY DEF Regex!Init
  <1>2. Len(rgxUnit) \in Nat /\ Len(str) \in Nat BY <1>1, PatternIs
  <1>3. Matched = 0 BY <1>1 DEF Matched
  <1> DEFINE p == [i \in 0 .. 0 |-> 0]
  <1>4. Along(p, 0, rgxUnit, str, numMatched, 0, 0) BY <1>2 DEF Along
  <1>5. AllTried(p, 0, rgxUnit, str, numMatched) BY DEF AllTried
  <1> HIDE DEF p
  <1>6. \E r : Along(r, 0, rgxUnit, str, numMatched, 0, 0) /\ AllTried(r, 0, rgxUnit, str, numMatched) BY <1>4, <1>5
  <1>7. \A from \in 0 .. Len(str) - 1 : ~(from < 0) BY <1>2
  <1> QED BY <1>1, <1>2, <1>3, <1>6, <1>7 DEF SearchInv

\* What the turns of the loop of match have to show.
LEMMA TurnKeeps ==
    ASSUME SearchInv, Regex!Matching, rgxUnit' = rgxUnit, str' = str, at' = at, min_match' \in BOOLEAN,
           shift' \in Int, atUnit' \in 0 .. Len(rgxUnit) + 1, min_match' => atUnit' >= 1,
           DOMAIN numMatched' = DOMAIN numMatched, found' \in {"none", "found"},
           Matched' \in 0 .. Len(rgxUnit),
           \E p : /\ Along(p, Matched', rgxUnit, str, numMatched', at, at + shift')
                  /\ found' = "none" /\ NoneIgnorable => AllTried(p, Matched', rgxUnit, str, numMatched'),
           found' = "none" /\ NoneIgnorable /\ ~min_match' => ~Way(rgxUnit, str, atUnit' + 1, at + shift')
    PROVE  SearchInv'
  <1>1. NoneIgnorable' = NoneIgnorable BY DEF NoneIgnorable
  <1>2. \A pat, s, k, x : Way(pat, s, k, x)' = Way(pat, s, k, x) OBVIOUS
  <1> QED BY <1>1 DEF SearchInv, Regex!Matching

LEMMA Onwards ==
    ASSUME NEW k \in 1 .. Len(rgxUnit), Len(rgxUnit) \in Nat, atUnit = k, found = "none", rgxUnit' = rgxUnit, Regex!Onwards
    PROVE  /\ min_match' = TRUE /\ atUnit' \in 1 .. Len(rgxUnit) /\ found' \in {"none", "found"} /\ Matched' = k
           /\ found' = "none" => k + 1 \in 1 .. Len(rgxUnit) /\ ~(k = Len(rgxUnit))
  <1>1. CASE k = Len(rgxUnit)
    <2>1. found' = "found" /\ atUnit' = k /\ min_match' = TRUE BY <1>1 DEF Regex!Onwards, Regex!IsLast
    <2> QED BY <1>1, <2>1 DEF Matched
  <1>2. CASE k # Len(rgxUnit)
    <2>1. found' = "none" /\ atUnit' = k + 1 /\ min_match' = TRUE BY <1>2 DEF Regex!Onwards, Regex!IsLast
    <2>2. k + 1 \in 1 .. Len(rgxUnit) /\ k + 1 - 1 = k BY <1>2
    <2> QED BY <1>2, <2>1, <2>2 DEF Matched
  <1> QED BY <1>1, <1>2

LEMMA Back ==
    ASSUME NEW k \in 1 .. Len(rgxUnit), Len(rgxUnit) \in Nat, atUnit = k, found = "none", Regex!Back
    PROVE  min_match' = FALSE /\ atUnit' = k - 1 /\ found' = "none" /\ Matched' = k - 1
  BY DEF Regex!Back, Matched

LEMMA MinKeeps ==
    ASSUME Regex!PatternAssumption, SearchInv, Regex!match_min
    PROVE  SearchInv'
  <1> DEFINE k == atUnit
             u == rgxUnit[k]
             w == Len(u.word)
             e == at + shift
             least == Regex!Repeats(u, str, e, u.repMin)
             more == IF Regex!Greedy THEN Regex!Repeats(u, str, e, u.repMax) ELSE least
  <1>1. /\ Len(rgxUnit) \in Nat /\ Len(str) \in Nat /\ DOMAIN rgxUnit = 1 .. Len(rgxUnit)
        /\ \A i \in 1 .. Len(rgxUnit) : IsUnit(rgxUnit[i])
    BY PatternIs DEF SearchInv
  <1>2. k \in 1 .. Len(rgxUnit) /\ found = "none" /\ min_match /\ Matched = k - 1
    BY <1>1 DEF Regex!match_min, Regex!Matching, Matched
  <1>3. IsUnit(u) BY <1>1, <1>2
  <1>4. PICK p : /\ Along(p, k - 1, rgxUnit, str, numMatched, at, e)
                 /\ NoneIgnorable => AllTried(p, k - 1, rgxUnit, str, numMatched)
    BY <1>2 DEF SearchInv
  <1>5. e \in 0 .. Len(str) /\ p[k - 1] = e
    <2>1. k - 1 \in 0 .. k - 1 BY <1>2
    <2> QED BY <1>4, <2>1 DEF Along
  <1>6. DOMAIN numMatched = 1 .. Len(rgxUnit) /\ at \in Nat /\ shift \in Int BY <1>1 DEF SearchInv
  <1>7. /\ least \in 0 .. u.repMin /\ Fits(u, str, e, least)
        /\ \A m \in Nat : m <= u.repMin /\ Fits(u, str, e, m) => m <= least
    <2>1. u.repMin \in Nat BY <1>3 DEF IsUnit
    <2> QED BY <1>1, <1>3, <1>5, <2>1, RepeatsIs
  <1>8. rgxUnit' = rgxUnit /\ str' = str /\ at' = at BY DEF Regex!match_min
  <1>9. u = Regex!unit BY DEF Regex!unit
  <1> HIDE DEF e, u, least
  <1>10. w \in Nat BY <1>3 DEF IsUnit
  <1>11. \A n0 \in Nat : Regex!Repeated(0, n0) =>
              /\ numMatched' = [numMatched EXCEPT ![k] = n0] /\ shift' = shift + n0 * w
              /\ shift' \in Int /\ at + shift' = e + n0 * w
    <2> SUFFICES ASSUME NEW n0 \in Nat, Regex!Repeated(0, n0)
                 PROVE  /\ numMatched' = [numMatched EXCEPT ![k] = n0] /\ shift' = shift + n0 * w
                        /\ shift' \in Int /\ at + shift' = e + n0 * w
      OBVIOUS
    <2>1. numMatched' = [numMatched EXCEPT ![k] = n0] /\ shift' = shift + (n0 - 0) * w
      BY <1>9 DEF Regex!Repeated
    <2>2. n0 - 0 = n0 OBVIOUS
    <2> HIDE DEF w
    <2>3. n0 * w \in Nat BY <1>10
    <2>4. shift' = shift + n0 * w BY <2>1, <2>2
    <2> QED BY <1>6, <2>1, <2>3, <2>4 DEF e
  \* the unit is matched n0 times, and fewer times it may not be
  <1>12. ASSUME NEW n0 \in Counts(u), Fits(u, str, e, n0), Regex!Repeated(0, n0), Regex!Onwards,
                found' = "none" /\ NoneIgnorable => \A c \in Counts(u) : c >= n0
         PROVE  SearchInv'
    <2>1. n0 \in Nat BY <1>3, CountsAre DEF IsUnit
    <2>2. /\ min_match' = TRUE /\ atUnit' \in 1 .. Len(rgxUnit) /\ found' \in {"none", "found"} /\ Matched' = k
      BY <1>1, <1>2, <1>8, <1>12, Onwards
    <2>3. PICK q : /\ Along(q, k, rgxUnit, str, [numMatched EXCEPT ![k] = n0], at, e + n0 * w)
                   /\ AllTried(p, k - 1, rgxUnit, str, numMatched) /\ Tried(rgxUnit, str, k, e, n0)
                        => AllTried(q, k, rgxUnit, str, [numMatched EXCEPT ![k] = n0])
      <3>1. n0 \in Counts(rgxUnit[k]) /\ Fits(rgxUnit[k], str, p[k - 1], n0) /\ k - 1 \in {k - 1, k} BY <1>5, <1>12 DEF u
      <3> HIDE DEF k
      <3>2. \E q : /\ Along(q, k, rgxUnit, str, [numMatched EXCEPT ![k] = n0], at, p[k - 1] + n0 * Len(rgxUnit[k].word))
                   /\ AllTried(p, k - 1, rgxUnit, str, numMatched) /\ Tried(rgxUnit, str, k, p[k - 1], n0)
                        => AllTried(q, k, rgxUnit, str, [numMatched EXCEPT ![k] = n0])
        BY <1>1, <1>2, <1>4, <1>6, <3>1, AlongOn, Zenon
      <3> QED BY <1>5, <3>2 DEF u
    <2>4. found' = "none" /\ NoneIgnorable => Tried(rgxUnit, str, k, e, n0)
      <3>1. \A c \in Counts(u) : c \in Nat BY <1>3, CountsAre DEF IsUnit
      <3>2. \A c \in Counts(u) : c >= n0 => ~(c < n0) BY <2>1, <3>1
      <3> QED BY <1>12, <3>2 DEF Tried, u
    <2>5. /\ numMatched' = [numMatched EXCEPT ![k] = n0] /\ shift' \in Int /\ at + shift' = e + n0 * w
      BY <1>11, <1>12, <2>1
    <2>6. Regex!Matching BY DEF Regex!match_min
    <2>7. DOMAIN numMatched' = DOMAIN numMatched BY <2>5
    <2>8. \E r : /\ Along(r, Matched', rgxUnit, str, numMatched', at, at + shift')
                 /\ found' = "none" /\ NoneIgnorable => AllTried(r, Matched', rgxUnit, str, numMatched')
      BY <1>4, <2>2, <2>3, <2>4, <2>5
    <2>9. atUnit' \in 0 .. Len(rgxUnit) + 1 /\ atUnit' >= 1 /\ Matched' \in 0 .. Len(rgxUnit) BY <1>1, <1>2, <2>2
    <2> QED BY <1>8, <2>2, <2>5, <2>6, <2>7, <2>8, <2>9, TurnKeeps
  <1>13. CASE least = u.repMin
    <2>1. Regex!Repeated(0, more) /\ Regex!Onwards BY <1>9, <1>13 DEF Regex!match_min, least, e
    <2>2. more \in Counts(u) /\ Fits(u, str, e, more)
      <3>1. CASE Regex!Greedy
        <4>1. u.repMax \in Nat BY <1>3 DEF IsUnit
        <4>2. /\ more \in 0 .. u.repMax /\ Fits(u, str, e, more)
              /\ \A m \in Nat : m <= u.repMax /\ Fits(u, str, e, m) => m <= more
          BY <1>1, <1>3, <1>5, <3>1, <4>1, RepeatsIs
        <4>3. u.repMin <= more BY <1>3, <1>7, <1>13, <4>2 DEF IsUnit
        <4> HIDE DEF more
        <4> QED BY <1>3, <4>2, <4>3 DEF Counts, IsUnit
      <3>2. CASE ~Regex!Greedy BY <1>3, <1>7, <1>13, <3>2 DEF Counts, IsUnit
      <3> QED BY <3>1, <3>2
    <2>3. found' = "none" /\ NoneIgnorable => \A c \in Counts(u) : c >= more
      <3> SUFFICES ASSUME found' = "none", NoneIgnorable PROVE \A c \in Counts(u) : c >= more OBVIOUS
      <3>1. k + 1 \in 1 .. Len(rgxUnit) /\ ~(k = Len(rgxUnit)) BY <1>1, <1>2, <1>8, <2>1, Onwards
      <3>2. ~Regex!Greedy BY <1>1, <3>1 DEF Regex!Greedy, Regex!IsLast, NoneIgnorable
      <3>3. ~u.ignorable BY <1>1, <1>2 DEF NoneIgnorable, u
      <3> QED BY <1>3, <1>13, <3>2, <3>3 DEF Counts, IsUnit
    <2> HIDE DEF more
    <2> QED BY <1>12, <2>1, <2>2, <2>3
  <1>14. CASE least # u.repMin
    <2>1. least = 0 /\ u.repMin = 1 BY <1>3, <1>7, <1>14 DEF IsUnit
    <2>2. Regex!Repeated(0, 0) BY <1>9, <1>14, <2>1 DEF Regex!match_min, least, e
    <2>3. CASE u.ignorable
      <3>1. Regex!Onwards BY <1>9, <1>14, <2>3 DEF Regex!match_min, least, e
      <3>2. 0 \in Counts(u) /\ Fits(u, str, e, 0) BY <2>3 DEF Counts, Fits
      <3>3. ~NoneIgnorable BY <1>1, <1>2, <2>3 DEF NoneIgnorable, u
      <3> QED BY <1>12, <2>2, <3>1, <3>2, <3>3
    <2>4. CASE ~u.ignorable
      <3>1. Regex!Back BY <1>9, <1>14, <2>4 DEF Regex!match_min, least, e
      <3>2. min_match' = FALSE /\ atUnit' = k - 1 /\ found' = "none" /\ Matched' = k - 1 BY <1>1, <1>2, <3>1, Back
      <3>3. numMatched' = [numMatched EXCEPT ![k] = 0] /\ shift' \in Int /\ at + shift' = e + 0 * w BY <1>11, <2>2
      <3>4. at + shift' = e BY <1>5, <1>10, <3>3
      <3>5. \A i \in 1 .. k - 1 : numMatched'[i] = numMatched[i]
        <4>1. \A i \in 1 .. k - 1 : i # k /\ i \in 1 .. Len(rgxUnit) BY <1>1, <1>2
        <4> QED BY <1>6, <3>3, <4>1
      <3>6. Along(p, k - 1, rgxUnit, str, numMatched', at, e) BY <1>4, <3>5 DEF Along
      <3>7. NoneIgnorable => AllTried(p, k - 1, rgxUnit, str, numMatched') BY <1>4, <3>5 DEF AllTried
      <3>8. ~Way(rgxUnit, str, k, e)
        <4> SUFFICES ASSUME Way(rgxUnit, str, k, e) PROVE FALSE OBVIOUS
        <4>1. PICK n0 \in Counts(u) : Fits(u, str, e, n0)
          <5> HIDE DEF k
          <5> QED BY <1>1, <1>2, <1>5, WayOn DEF u
        <4>2. n0 \in Nat /\ n0 >= 1 BY <1>3, <2>1, <2>4, <4>1 DEF Counts, IsUnit
        <4>3. Fits(u, str, e, 1) BY <4>1, <4>2 DEF Fits
        <4> QED BY <1>7, <2>1, <4>3
      <3>9. Regex!Matching BY DEF Regex!match_min
      <3>10. (k - 1) + 1 = k /\ k - 1 \in 0 .. Len(rgxUnit) + 1 /\ k - 1 \in 0 .. Len(rgxUnit) BY <1>1, <1>2
      <3>11. DOMAIN numMatched' = DOMAIN numMatched BY <3>3
      <3> QED BY <1>8, <3>2, <3>3, <3>4, <3>6, <3>7, <3>8, <3>9, <3>10, <3>11, TurnKeeps
    <2> QED BY <2>3, <2>4
  <1> QED BY <1>13, <1>14

LEMMA RepeatKeeps ==
    ASSUME Regex!PatternAssumption, SearchInv, Regex!match_repeat
    PROVE  SearchInv'
  <1> DEFINE k == atUnit
             u == rgxUnit[k]
             w == Len(u.word)
             e == at + shift
             old == numMatched[k]
             more == Regex!Repeats(u, str, e, u.repMax - old)
  <1>1. /\ Len(rgxUnit) \in Nat /\ Len(str) \in Nat /\ DOMAIN rgxUnit = 1 .. Len(rgxUnit)
        /\ \A i \in 1 .. Len(rgxUnit) : IsUnit(rgxUnit[i])
    BY PatternIs DEF SearchInv
  <1>2. k \in 1 .. Len(rgxUnit) /\ found = "none" /\ ~min_match /\ Matched = k
    BY <1>1 DEF Regex!match_repeat, Regex!Matching, Matched
  <1>3. IsUnit(u) BY <1>1, <1>2
  <1>4. PICK p : /\ Along(p, k, rgxUnit, str, numMatched, at, e)
                 /\ NoneIgnorable => AllTried(p, k, rgxUnit, str, numMatched)
    BY <1>2 DEF SearchInv
  <1> DEFINE b == p[k - 1]
  <1>5. /\ e \in 0 .. Len(str) /\ b \in 0 .. Len(str) /\ old \in Counts(u) /\ old \in 0 .. u.repMax
        /\ e = b + old * w /\ Fits(u, str, b, old)
    <2>1. k \in 1 .. k /\ k \in 0 .. k /\ k - 1 \in 0 .. k BY <1>2
    <2>2. p \in [0 .. k -> 0 .. Len(str)] /\ p[k] = e BY <1>4 DEF Along
    <2>3. old \in Counts(u) /\ p[k] = b + old * w /\ Fits(u, str, b, old) BY <1>4, <2>1 DEF Along
    <2>4. e \in 0 .. Len(str) /\ b \in 0 .. Len(str)
      <3> HIDE DEF e
      <3> QED BY <2>1, <2>2
    <2>5. old \in 0 .. u.repMax BY <1>3, <2>3, CountsAre
    <2> QED BY <2>2, <2>3, <2>4, <2>5
  <1>6. DOMAIN numMatched = 1 .. Len(rgxUnit) /\ at \in Nat /\ shift \in Int BY <1>1 DEF SearchInv
  <1>7. u.repMax \in Nat /\ old \in Nat /\ u.repMax - old \in Nat BY <1>3, <1>5 DEF IsUnit
  <1>8. /\ more \in 0 .. u.repMax - old /\ Fits(u, str, e, more)
        /\ \A m \in Nat : m <= u.repMax - old /\ Fits(u, str, e, m) => m <= more
    BY <1>1, <1>3, <1>5, <1>7, RepeatsIs
  <1>9. rgxUnit' = rgxUnit /\ str' = str /\ at' = at BY DEF Regex!match_repeat
  <1>10. u = Regex!unit BY DEF Regex!unit
  <1>11. w \in Nat \ {0} BY <1>3 DEF IsUnit
  <1>12. NoneIgnorable => ~Way(rgxUnit, str, k + 1, e) BY <1>2 DEF SearchInv
  <1>13. Regex!Matching BY DEF Regex!match_repeat
  <1>14. \A t \in Nat : Fits(u, str, b, old + t) <=> Fits(u, str, e, t)
    <2> TAKE t \in Nat
    <2>1. b \in Nat BY <1>5
    <2> HIDE DEF b, u
    <2>2. Fits(u, str, b, old + t) <=> Fits(u, str, b, old) /\ Fits(u, str, b + old * w, t)
      BY <1>3, <1>7, <2>1, FitsMore
    <2> QED BY <1>5, <2>2
  <1>15. CASE Regex!Greedy \/ more > 0
    <2> DEFINE t == IF Regex!Greedy THEN more ELSE 1
    <2>1. Regex!Repeated(old, old + t) /\ Regex!Onwards BY <1>10, <1>15 DEF Regex!match_repeat
    <2>2. t \in 0 .. u.repMax - old /\ Fits(u, str, e, t)
      <3>1. CASE Regex!Greedy BY <1>8, <3>1
      <3>2. CASE ~Regex!Greedy
        <4>1. Fits(u, str, e, 1) BY <1>8, <1>15, <3>2 DEF Fits
        <4>2. 1 \in 0 .. u.repMax - old BY <1>7, <1>8, <1>15, <3>2
        <4> QED BY <3>2, <4>1, <4>2
      <3> QED BY <3>1, <3>2
    <2>3. ~Regex!Greedy => t = 1 OBVIOUS
    <2> HIDE DEF t, more
    <2>4. old + t \in Counts(u) /\ old + t \in Nat /\ Fits(u, str, b, old + t)
      <3>1. t \in Nat BY <1>7, <2>2
      <3>2. CASE t = 0
        <4>1. old + t = old BY <1>7, <3>2
        <4> QED BY <1>5, <1>7, <1>14, <2>2, <3>1, <3>2, <4>1
      <3>3. CASE t # 0
        <4>1. old + t >= 1 /\ old + t <= u.repMax BY <1>7, <2>2, <3>1, <3>3
        <4>2. old + t \in u.repMin .. u.repMax BY <1>3, <1>7, <3>1, <4>1 DEF IsUnit
        <4> QED BY <1>7, <1>14, <2>2, <3>1, <4>2 DEF Counts
      <3> QED BY <3>2, <3>3
    <2>5. /\ numMatched' = [numMatched EXCEPT ![k] = old + t] /\ shift' \in Int
          /\ at + shift' = b + (old + t) * w
      <3>1. t \in Nat /\ (old + t) - old = t BY <1>7, <2>2
      <3>2. numMatched' = [numMatched EXCEPT ![k] = old + t] /\ shift' = shift + ((old + t) - old) * w
        BY <1>10, <2>1 DEF Regex!Repeated
      <3> HIDE DEF w, old, b
      <3>3. shift' = shift + t * w BY <3>1, <3>2
      <3>4. t * w \in Nat /\ b + (old + t) * w = (b + old * w) + t * w
        <4>1. b \in Nat BY <1>5
        <4> QED BY <1>7, <1>11, <3>1, <4>1, Place
      <3>5. at + shift' = e + t * w BY <1>6, <3>3, <3>4
      <3> HIDE DEF e
      <3> QED BY <1>5, <1>6, <3>2, <3>3, <3>4, <3>5
    <2>6. /\ min_match' = TRUE /\ atUnit' \in 1 .. Len(rgxUnit) /\ found' \in {"none", "found"} /\ Matched' = k
      BY <1>1, <1>2, <1>9, <2>1, Onwards
    <2>7. \E q : /\ Along(q, k, rgxUnit, str, numMatched', at, b + (old + t) * w)
                 /\ AllTried(p, k, rgxUnit, str, numMatched) /\ Tried(rgxUnit, str, k, b, old + t)
                      => AllTried(q, k, rgxUnit, str, numMatched')
      <3>1. k \in {k - 1, k} OBVIOUS
      <3> HIDE DEF k, e, old
      <3> QED BY <1>1, <1>2, <1>4, <1>6, <2>4, <2>5, <3>1, AlongOn
    <2>8. found' = "none" /\ NoneIgnorable => Tried(rgxUnit, str, k, b, old + t)
      <3> SUFFICES ASSUME found' = "none", NoneIgnorable, NEW c \in Counts(u), c < old + t
                   PROVE  ~Way(rgxUnit, str, k + 1, b + c * w)
        BY DEF Tried
      <3>1. k + 1 \in 1 .. Len(rgxUnit) /\ ~(k = Len(rgxUnit)) BY <1>1, <1>2, <1>9, <2>1, Onwards
      <3>2. t = 1 BY <1>1, <2>3, <3>1 DEF Regex!Greedy, Regex!IsLast, NoneIgnorable
      <3>3. c \in Nat BY <1>3, CountsAre DEF IsUnit
      <3>4. CASE c = old BY <1>5, <1>12, <3>4
      <3>5. CASE c # old
        <4>1. c < old BY <1>7, <3>2, <3>3, <3>5
        <4>2. Tried(rgxUnit, str, k, b, old)
          <5>1. k \in 1 .. k BY <1>2
          <5> QED BY <1>4, <5>1 DEF AllTried
        <4> QED BY <4>1, <4>2 DEF Tried
      <3> QED BY <3>4, <3>5
    <2>9. DOMAIN numMatched' = DOMAIN numMatched BY <2>5
    <2>10. \E r : /\ Along(r, Matched', rgxUnit, str, numMatched', at, at + shift')
                  /\ found' = "none" /\ NoneIgnorable => AllTried(r, Matched', rgxUnit, str, numMatched')
      <3> HIDE DEF k, e, old, b
      <3> QED BY <1>4, <2>5, <2>6, <2>7, <2>8
    <2>11. atUnit' \in 0 .. Len(rgxUnit) + 1 /\ atUnit' >= 1 /\ Matched' \in 0 .. Len(rgxUnit) BY <1>1, <1>2, <2>6
    <2> QED BY <1>9, <1>13, <2>5, <2>6, <2>9, <2>10, <2>11, TurnKeeps
  <1>16. CASE ~Regex!Greedy /\ ~(more > 0)
    <2>1. Regex!GiveUpUnit /\ Regex!Back BY <1>10, <1>16 DEF Regex!match_repeat
    <2>2. min_match' = FALSE /\ atUnit' = k - 1 /\ found' = "none" /\ Matched' = k - 1 BY <1>1, <1>2, <2>1, Back
    <2>3. numMatched' = numMatched /\ shift' = shift - old * w BY <1>10, <2>1 DEF Regex!GiveUpUnit
    <2>4. shift' \in Int /\ at + shift' = b
      <3>1. old * w \in Nat
        <4> HIDE DEF w, old
        <4> QED BY <1>7, <1>11
      <3>2. at + shift = b + old * w BY <1>5
      <3>3. b \in Nat BY <1>5
      <3> DEFINE x == old * w
      <3> HIDE DEF x, b
      <3> QED BY <1>6, <2>3, <3>1, <3>2, <3>3 DEF x
    <2>5. \E q : /\ Along(q, k - 1, rgxUnit, str, numMatched, at, b)
                 /\ AllTried(p, k, rgxUnit, str, numMatched) => AllTried(q, k - 1, rgxUnit, str, numMatched)
      <3>1. k \in Nat \ {0} BY <1>2
      <3> HIDE DEF k, e
      <3> QED BY <1>4, <3>1, AlongBack
    <2>6. NoneIgnorable => ~Way(rgxUnit, str, k, b)
      <3> SUFFICES ASSUME NoneIgnorable, Way(rgxUnit, str, k, b) PROVE FALSE OBVIOUS
      <3>1. PICK c \in Counts(u) : Fits(u, str, b, c) /\ Way(rgxUnit, str, k + 1, b + c * w)
        <4> HIDE DEF k, b
        <4> QED BY <1>1, <1>2, <1>5, WayOn
      <3>2. c \in 0 .. u.repMax BY <1>3, CountsAre
      <3>3. CASE c = old BY <1>5, <1>12, <3>1, <3>3
      <3>4. CASE c < old
        <4>1. k \in 1 .. k BY <1>2
        <4> QED BY <1>4, <3>1, <3>4, <4>1 DEF AllTried, Tried
      <3>5. CASE c > old
        <4>1. c - old \in Nat /\ old + (c - old) = c /\ c - old <= u.repMax - old /\ c - old > 0
          BY <1>7, <3>2, <3>5
        <4>2. Fits(u, str, e, c - old) BY <1>14, <3>1, <4>1
        <4>3. c - old <= more BY <1>8, <4>1, <4>2
        <4> HIDE DEF more
        <4> QED BY <1>8, <1>16, <4>1, <4>3
      <3> QED BY <1>7, <3>2, <3>3, <3>4, <3>5
    <2>7. (k - 1) + 1 = k /\ k - 1 \in 0 .. Len(rgxUnit) + 1 /\ k - 1 \in 0 .. Len(rgxUnit) BY <1>1, <1>2
    <2>8. \E r : /\ Along(r, Matched', rgxUnit, str, numMatched', at, at + shift')
                 /\ found' = "none" /\ NoneIgnorable => AllTried(r, Matched', rgxUnit, str, numMatched')
      <3> HIDE DEF k, e, old, b
      <3> QED BY <1>4, <2>2, <2>3, <2>4, <2>5
    <2>9. DOMAIN numMatched' = DOMAIN numMatched BY <2>3
    <2> QED BY <1>9, <1>13, <2>2, <2>4, <2>6, <2>7, <2>8, <2>9, TurnKeeps
  <1> QED BY <1>15, <1>16

LEMMA SearchKeeps ==
    ASSUME Regex!PatternAssumption, SearchInv, Regex!search
    PROVE  SearchInv'
  <1>1. Len(rgxUnit) \in Nat /\ Len(str) \in Nat BY PatternIs DEF SearchInv
  <1>2. /\ found = "none" /\ (atUnit = 0 \/ at >= Len(str)) /\ at' = at + 1 /\ atUnit' = 1 /\ min_match' = TRUE /\ shift' = 0
        /\ found' = IF at + 1 >= Len(str) THEN "failed" ELSE "none"
        /\ rgxUnit' = rgxUnit /\ str' = str /\ numMatched' = numMatched
    BY DEF Regex!search
  <1>3. NoneIgnorable' = NoneIgnorable BY <1>2 DEF NoneIgnorable
  <1>4. \A pat, s, k, x : Way(pat, s, k, x)' = Way(pat, s, k, x) OBVIOUS
  <1>5. found' # "failed" =>
          /\ Matched' = 0
          /\ \E p : /\ Along(p, 0, rgxUnit, str, numMatched, at + 1, at + 1)
                    /\ AllTried(p, 0, rgxUnit, str, numMatched)
    <2> SUFFICES ASSUME found' # "failed"
                 PROVE  /\ Matched' = 0
                        /\ \E p : /\ Along(p, 0, rgxUnit, str, numMatched, at + 1, at + 1)
                                  /\ AllTried(p, 0, rgxUnit, str, numMatched)
      OBVIOUS
    <2>1. Matched' = 0 BY <1>2 DEF Matched
    <2>2. at + 1 \in 0 .. Len(str) BY <1>1, <1>2 DEF SearchInv
    <2> DEFINE p == [i \in 0 .. 0 |-> at + 1]
    <2>3. p \in [0 .. 0 -> 0 .. Len(str)] /\ p[0] = at + 1 BY <2>2
    <2> HIDE DEF p
    <2>4. Along(p, 0, rgxUnit, str, numMatched, at + 1, at + 1) BY <2>3 DEF Along
    <2>5. AllTried(p, 0, rgxUnit, str, numMatched) BY DEF AllTried
    <2> QED BY <2>1, <2>4, <2>5
  \* match has come back beyond the first unit: there is no way from the start
  <1>6. ASSUME NoneIgnorable, NEW from \in 0 .. Len(str) - 1, from < at + 1
        PROVE  ~Way(rgxUnit, str, 1, from)
    <2>1. CASE from < at BY <1>6, <2>1 DEF SearchInv
    <2>2. CASE from = at
      <3>1. atUnit = 0 /\ ~min_match BY <1>1, <1>2, <2>2 DEF SearchInv
      <3>2. Matched = 0 BY <1>2, <3>1 DEF Matched
      <3>3. PICK p : Along(p, 0, rgxUnit, str, numMatched, at, at + shift) BY <1>2, <3>2 DEF SearchInv
      <3>4. at + shift = at BY <3>3 DEF Along
      <3>5. ~Way(rgxUnit, str, atUnit + 1, at + shift) BY <1>2, <1>6, <3>1 DEF SearchInv
      <3>6. atUnit + 1 = 1 BY <3>1
      <3> QED BY <2>2, <3>4, <3>5, <3>6
    <2> QED BY <1>6, <2>1, <2>2 DEF SearchInv
  <1>7. at + 1 \in Nat /\ at + 0 = at /\ (at + 1) + 0 = at + 1 BY DEF SearchInv
  <1>8. found' \in {"none", "found", "failed"} /\ (found' = "failed" => at' >= Len(str)) BY <1>1, <1>2, <1>7
  <1>9. atUnit' \in 0 .. Len(rgxUnit) + 1 /\ atUnit' >= 1 BY <1>1, <1>2
  <1>10. found' # "failed" =>
           /\ Matched' \in 0 .. Len(rgxUnit)
           /\ \E p : /\ Along(p, Matched', rgxUnit', str', numMatched', at', at' + shift')
                     /\ found' = "none" /\ NoneIgnorable => AllTried(p, Matched', rgxUnit', str', numMatched')
    BY <1>1, <1>2, <1>5, <1>7
  <1>11. NoneIgnorable => \A from \in 0 .. Len(str') - 1 : from < at' => ~Way(rgxUnit', str', 1, from) BY <1>2, <1>6
  <1> QED BY <1>2, <1>3, <1>4, <1>7, <1>8, <1>9, <1>10, <1>11 DEF SearchInv

\* SearchInv says what Finds says: the units matched make a way, and where there is
\* no way Ends is empty.
LEMMA InvFinds ==
    ASSUME Regex!PatternAssumption, SearchInv
    PROVE  Finds
  <1>1. /\ Len(rgxUnit) \in Nat /\ Len(str) \in Nat /\ DOMAIN rgxUnit = 1 .. Len(rgxUnit)
        /\ \A k \in 1 .. Len(rgxUnit) : IsUnit(rgxUnit[k])
    BY PatternIs DEF SearchInv
  <1>2. ASSUME found = "found" PROVE at + shift \in Regex!Ends(at)
    <2>1. Matched = Len(rgxUnit) BY <1>2 DEF Matched
    <2>2. PICK p : Along(p, Len(rgxUnit), rgxUnit, str, numMatched, at, at + shift) BY <1>2, <2>1 DEF SearchInv
    <2>3. /\ p \in [0 .. Len(rgxUnit) -> 0 .. Len(str)] /\ p[0] = at /\ p[Len(rgxUnit)] = at + shift
          /\ \A k \in 1 .. Len(rgxUnit) : Leads(rgxUnit[k], str, p[k - 1], p[k])
      BY <2>2 DEF Along, Leads
    <2>4. at \in 0 .. Len(str)
      <3>1. 0 \in 0 .. Len(rgxUnit) BY <1>1
      <3> QED BY <2>3, <3>1
    <2> QED BY <1>1, <2>3, <2>4, EndsAre
  <1>3. ASSUME found # "none", NoneIgnorable,
               NEW from \in 0 .. (IF found = "found" THEN at ELSE Len(str)) - 1
        PROVE  Regex!Ends(from) = {}
    <2>1. from \in 0 .. Len(str) - 1 /\ from < at
      <3>1. CASE found = "found"
        <4>1. PICK p : Along(p, Matched, rgxUnit, str, numMatched, at, at + shift) /\ Matched \in Nat
          BY <1>1, <3>1 DEF SearchInv
        <4>2. at <= Len(str)
          <5>1. 0 \in 0 .. Matched BY <4>1
          <5> QED BY <4>1, <5>1 DEF Along
        <4> QED BY <1>1, <1>3, <3>1, <4>2 DEF SearchInv
      <3>2. CASE found = "failed" BY <1>1, <1>3, <3>2 DEF SearchInv
      <3> QED BY <1>3, <3>1, <3>2 DEF SearchInv
    <2>2. ~Way(rgxUnit, str, 1, from) BY <1>3, <2>1 DEF SearchInv
    <2>3. from \in 0 .. Len(str) BY <1>1, <2>1
    <2> QED BY <1>1, <2>2, <2>3, NoWayNoEnds
  <1> QED BY <1>2, <1>3 DEF Finds, Regex!Finds, NoneIgnorable

\* What search finds is a match of the pattern, and where no unit is ignorable it is
\* the first: for every pattern and every string (taoRegex.cpp: match, search).
THEOREM RegexFinds ==
    ASSUME Regex!PatternAssumption
    PROVE  Regex!Spec => []Finds
  <1>1. Regex!Init => SearchInv BY SearchInit
  <1>2. SearchInv /\ [Regex!Next]_(Regex!vars) => SearchInv'
    <2> SUFFICES ASSUME SearchInv, [Regex!Next]_(Regex!vars) PROVE SearchInv' OBVIOUS
    <2>1. CASE Regex!match_min BY <2>1, MinKeeps
    <2>2. CASE Regex!match_repeat BY <2>2, RepeatKeeps
    <2>3. CASE Regex!search BY <2>3, SearchKeeps
    <2>4. CASE UNCHANGED Regex!vars
      <3>1. /\ rgxUnit' = rgxUnit /\ str' = str /\ at' = at /\ atUnit' = atUnit /\ min_match' = min_match
            /\ shift' = shift /\ numMatched' = numMatched /\ found' = found
        BY <2>4 DEF Regex!vars
      <3>2. \A pat, s, k, x : Way(pat, s, k, x)' = Way(pat, s, k, x) OBVIOUS
      <3>3. NoneIgnorable' = NoneIgnorable /\ Matched' = Matched BY <3>1 DEF NoneIgnorable, Matched
      <3> QED BY <3>1, <3>2, <3>3 DEF SearchInv
    <2> QED BY <2>1, <2>2, <2>3, <2>4 DEF Regex!Next
  <1>3. SearchInv => Finds BY InvFinds
  <1> QED BY <1>1, <1>2, <1>3, PTL DEF Regex!Spec
=============================================================================

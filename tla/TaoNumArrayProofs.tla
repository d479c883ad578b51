------------------------- MODULE TaoNumArrayProofs -------------------------
(***************************************************************************)
(* The flat vectors of Tao's numeric arrays are arrays of cells, so that   *)
(* TaoNumArray implements Matrices, whatever the sizes and dimensions.     *)
(* First, that positions in the vector and coordinates are two names of    *)
(* the same cells, in the same order; then, that a part of an array keeps  *)
(* that order; then the actions, one by one.                               *)
(***************************************************************************)
EXTENDS TaoNumArray, FunctionTheorems, FiniteSetTheorems, SequenceTheorems, WellFoundedInduction, TLAPS

Dims == Seq(Nat \ {0}) \ {<<>>}
Coord(dims) == {c \in [1 .. Len(dims) -> Nat] : \A d \in 1 .. Len(dims) : c[d] < dims[d]}
Flat(dims, c) == getFlatIndex(c, updateDimAccum(dims))

-----------------------------------------------------------------------------
\* Numbers

LEMMA LeastOne ==
    ASSUME NEW S, S \subseteq Nat, S # {}
    PROVE  \E x \in S : \A y \in S : x <= y
  <1>1. PICK x \in S : \A y \in S : ~(<<y, x>> \in OpToRel(<, Nat))
    BY WFMin, NatLessThanWellFounded
  <1>2. \A y \in S : ~(y < x) BY <1>1 DEF OpToRel
  <1> QED BY <1>2

\* Induction up to n, over the set of the numbers of which the claim is true.
LEMMA Climb ==
    ASSUME NEW n \in Nat, NEW S, 0 \in S, \A m \in 0 .. n : m < n /\ m \in S => m + 1 \in S
    PROVE  \A m \in 0 .. n : m \in S
  <1> DEFINE Rest == {m \in 0 .. n : m \notin S}
  <1>1. SUFFICES ASSUME Rest # {} PROVE FALSE OBVIOUS
  <1>2. PICK x \in Rest : \A y \in Rest : x <= y
    <2>1. Rest \subseteq Nat OBVIOUS
    <2> HIDE DEF Rest
    <2> QED BY <1>1, <2>1, LeastOne
  <1>3. x - 1 \in 0 .. n /\ x - 1 < n /\ x - 1 + 1 = x OBVIOUS
  <1>4. x - 1 \in S BY <1>2, <1>3
  <1> QED BY <1>3, <1>4

LEMMA DivMod ==
    ASSUME NEW i \in Nat, NEW a \in Nat \ {0}
    PROVE  /\ i \div a \in Nat
           /\ i % a \in 0 .. a - 1
           /\ i = (i \div a) * a + (i % a)
  OBVIOUS

LEMMA DivTwice ==
    ASSUME NEW i \in Nat, NEW a \in Nat \ {0}, NEW b \in Nat \ {0}
    PROVE  i \div (a * b) = (i \div a) \div b
  OBVIOUS

LEMMA DivModOf ==
    ASSUME NEW a \in Nat \ {0}, NEW q \in Nat, NEW r \in Nat, r < a
    PROVE  /\ (q * a + r) \div a = q
           /\ (q * a + r) % a = r
  OBVIOUS

LEMMA Times ==
    ASSUME NEW x \in Nat, NEW y \in Nat, NEW a \in Nat
    PROVE  x * a \in Nat /\ (x <= y => x * a <= y * a)
  <1>1. x * a \in Nat OBVIOUS
  <1>2. x <= y => x * a <= y * a OBVIOUS
  <1> QED BY <1>1, <1>2

\* A function on 0 .. n is given by its first value and a step.
Steps(f, n, base, step) == f[0] = base /\ \A i \in 1 .. n : f[i] = step[i][f[i - 1]]
LEMMA StepsExist ==
    ASSUME NEW n \in Nat, NEW V, NEW base \in V, NEW step \in [1 .. n -> [V -> V]]
    PROVE  \E f \in [0 .. n -> V] : Steps(f, n, base, step)
  <1> DEFINE Good(m, f) == f[0] = base /\ \A i \in 1 .. m : f[i] = step[i][f[i - 1]]
             S == {m \in 0 .. n : \E f \in [0 .. m -> V] : Good(m, f)}
  <1>1. 0 \in S
    <2>1. [i \in 0 .. 0 |-> base] \in [0 .. 0 -> V] /\ Good(0, [i \in 0 .. 0 |-> base]) OBVIOUS
    <2>2. 0 \in 0 .. n OBVIOUS
    <2> HIDE DEF Good
    <2> QED BY <2>1, <2>2
  <1>2. ASSUME NEW m \in 0 .. n, m < n, m \in S PROVE m + 1 \in S
    <2>1. PICK f \in [0 .. m -> V] : Good(m, f) BY <1>2
    <2> DEFINE g == [i \in 0 .. m + 1 |-> IF i = m + 1 THEN step[i][f[m]] ELSE f[i]]
    <2>2. m + 1 \in 1 .. n /\ m \in 0 .. m /\ f[m] \in V BY <1>2
    <2>3. step[m + 1][f[m]] \in V BY <2>2
    <2>4. g \in [0 .. m + 1 -> V] BY <2>3
    <2>5. Good(m + 1, g)
      <3>1. g[0] = base BY <2>1, <2>2
      <3>2. ASSUME NEW i \in 1 .. m + 1 PROVE g[i] = step[i][g[i - 1]]
        <4>1. CASE i = m + 1 BY <4>1, <2>2
        <4>2. CASE i \in 1 .. m BY <4>2, <2>1, <2>2
        <4> QED BY <4>1, <4>2
      <3> QED BY <3>1, <3>2
    <2> HIDE DEF Good, g
    <2> QED BY <2>2, <2>4, <2>5
  <1> HIDE DEF S
  <1>3. \A m \in 0 .. n : m \in S BY <1>1, <1>2, Climb
  <1>4. n \in 0 .. n OBVIOUS
  <1> QED BY <1>3, <1>4 DEF S, Steps

-----------------------------------------------------------------------------
\* Positions and coordinates

LEMMA AccumFacts ==
    ASSUME NEW dims \in Dims
    PROVE  /\ Len(dims) \in Nat \ {0} /\ \A d \in 1 .. Len(dims) : dims[d] \in Nat \ {0}
           /\ updateDimAccum(dims) \in [1 .. Len(dims) -> Nat \ {0}]
           /\ updateDimAccum(dims)[Len(dims)] = 1
           /\ \A i \in 1 .. Len(dims) - 1 :
                 updateDimAccum(dims)[i] = updateDimAccum(dims)[i + 1] * dims[i + 1]
           /\ size(dims) = updateDimAccum(dims)[1] * dims[1]
           /\ size(dims) \in Nat \ {0}
  <1> DEFINE n == Len(dims)
             Pos == Nat \ {0}
             step == [i \in 1 .. n - 1 |-> [x \in Pos |-> x * dims[n + 1 - i]]]
             Solves(h) == h = [i \in DOMAIN dims |-> IF i = Len(dims) THEN 1 ELSE h[i + 1] * dims[i + 1]]
  <1>1. /\ n \in Nat \ {0} /\ n - 1 \in Nat /\ DOMAIN dims = 1 .. n /\ 1 \in 1 .. n
        /\ \A d \in 1 .. n : dims[d] \in Pos
    <2>1. dims \in Seq(Pos) /\ dims # <<>> BY DEF Dims
    <2>2. n # 0 BY <2>1, EmptySeq
    <2> QED BY <2>1, <2>2
  <1>2. \A x, y \in Pos : x * y \in Pos
    <2>1. \A x, y \in Pos : x * y > 0 OBVIOUS
    <2> QED BY <2>1
  <1>3. step \in [1 .. n - 1 -> [Pos -> Pos]]
    <2>1. \A i \in 1 .. n - 1 : n + 1 - i \in 1 .. n BY <1>1
    <2> HIDE DEF Pos, n
    <2> QED BY <1>1, <1>2, <2>1
  <1>4. PICK f \in [0 .. n - 1 -> Pos] : Steps(f, n - 1, 1, step)
    <2>1. 1 \in Pos OBVIOUS
    <2> HIDE DEF Pos, step, n
    <2> QED BY <1>1, <1>3, <2>1, StepsExist
  <1>5. f[0] = 1 /\ \A i \in 1 .. n - 1 : f[i] = f[i - 1] * dims[n + 1 - i]
    <2>1. \A i \in 1 .. n - 1 : f[i - 1] \in Pos
      <3> HIDE DEF n, Pos
      <3> QED BY <1>1, <1>4
    <2> HIDE DEF Pos
    <2> QED BY <1>4, <2>1 DEF Steps
  <1> HIDE DEF step
  <1> DEFINE g == [i \in 1 .. n |-> f[n - i]]
  <1>6. Solves(g)
    <2>1. ASSUME NEW i \in 1 .. n PROVE g[i] = IF i = n THEN 1 ELSE g[i + 1] * dims[i + 1]
      <3>1. CASE i = n BY <1>1, <1>5, <3>1
      <3>2. CASE i # n
        <4>1. n - i \in 1 .. n - 1 /\ i + 1 \in 1 .. n /\ n - i - 1 = n - (i + 1) /\ n + 1 - (n - i) = i + 1
          <5> HIDE DEF n
          <5> QED BY <1>1, <3>2
        <4>2. f[n - i] = f[n - (i + 1)] * dims[i + 1] BY <1>5, <4>1
        <4> QED BY <3>2, <4>1, <4>2
      <3> QED BY <3>1, <3>2
    <2>2. g = [i \in DOMAIN dims |-> g[i]] BY <1>1
    <2> HIDE DEF g
    <2> QED BY <1>1, <2>1, <2>2
  <1>7. updateDimAccum(dims) = CHOOSE h : Solves(h) BY DEF updateDimAccum
  <1> DEFINE acc == updateDimAccum(dims)
  <1>8. Solves(acc)
    <2> HIDE DEF Solves, g
    <2> QED BY <1>6, <1>7
  <1> HIDE DEF acc, g
  <1>9. /\ \A i \in 1 .. n : acc[i] = IF i = n THEN 1 ELSE acc[i + 1] * dims[i + 1]
        /\ acc = [i \in 1 .. n |-> acc[i]]
    BY <1>1, <1>8
  <1>10. \A i \in 1 .. n : acc[i] \in Pos
    <2> DEFINE S == {m \in 0 .. n - 1 : acc[n - m] \in Pos}
    <2>1. 0 \in S BY <1>1, <1>9
    <2>2. ASSUME NEW m \in 0 .. n - 1, m < n - 1, m \in S PROVE m + 1 \in S
      <3>1. n - (m + 1) \in 1 .. n /\ n - (m + 1) # n /\ n - (m + 1) + 1 = n - m /\ n - m \in 1 .. n
        <4> HIDE DEF n, S
        <4> QED BY <1>1, <2>2
      <3>2. acc[n - (m + 1)] = acc[n - m] * dims[n - m] BY <1>9, <3>1
      <3>3. acc[n - m] \in Pos /\ dims[n - m] \in Pos BY <1>1, <2>2, <3>1
      <3> HIDE DEF Pos
      <3>4. acc[n - (m + 1)] \in Pos BY <1>2, <3>2, <3>3
      <3> QED BY <1>1, <2>2, <3>4
    <2> HIDE DEF S
    <2>3. \A m \in 0 .. n - 1 : m \in S BY <1>1, <2>1, <2>2, Climb
    <2>4. TAKE i \in 1 .. n
    <2>5. n - i \in 0 .. n - 1 /\ n - (n - i) = i
      <3> HIDE DEF n
      <3> QED BY <1>1
    <2> HIDE DEF Pos
    <2> QED BY <2>3, <2>5 DEF S
  <1>11. acc \in [1 .. n -> Pos] BY <1>9, <1>10
  <1>12. size(dims) = acc[1] * dims[1] /\ acc[1] * dims[1] \in Pos
    <2>1. dims[1] * acc[1] = acc[1] * dims[1] BY <1>1, <1>10
    <2> HIDE DEF Pos
    <2> QED BY <1>1, <1>2, <1>10, <2>1 DEF size, acc
  <1>13. acc[n] = 1 /\ \A i \in 1 .. n - 1 : acc[i] = acc[i + 1] * dims[i + 1]
    <2> HIDE DEF n
    <2>1. n \in 1 .. n /\ \A i \in 1 .. n - 1 : i \in 1 .. n /\ i # n BY <1>1
    <2> QED BY <1>9, <2>1
  <1> QED BY <1>1, <1>11, <1>12, <1>13 DEF acc

\* The sums that getFlatIndex goes through.
LEMMA FlatSums ==
    ASSUME NEW n \in Nat, NEW c \in [1 .. n -> Nat], NEW a \in [1 .. n -> Nat]
    PROVE  \E ind \in [0 .. n -> Nat] :
              /\ ind[0] = 0 /\ \A i \in 1 .. n : ind[i] = ind[i - 1] + c[i] * a[i]
              /\ getFlatIndex(c, a) = ind[n]
  <1> DEFINE step == [i \in 1 .. n |-> [x \in Nat |-> x + c[i] * a[i]]]
             Solves(h) == h = [i \in 0 .. n |-> IF i = 0 THEN 0 ELSE h[i - 1] + c[i] * a[i]]
             ind == CHOOSE h : Solves(h)
  <1>1. \A i \in 1 .. n : c[i] * a[i] \in Nat BY Times
  <1>2. step \in [1 .. n -> [Nat -> Nat]]
    <2>1. \A x, y \in Nat : x + y \in Nat OBVIOUS
    <2>2. \A i \in 1 .. n : \A x \in Nat : x + c[i] * a[i] \in Nat BY <1>1, <2>1, Zenon
    <2> QED BY <2>2
  <1>3. PICK f \in [0 .. n -> Nat] : Steps(f, n, 0, step)
    <2>1. 0 \in Nat OBVIOUS
    <2> HIDE DEF step
    <2> QED BY <1>2, <2>1, StepsExist
  <1>4. f[0] = 0 /\ \A i \in 1 .. n : f[i] = f[i - 1] + c[i] * a[i]
    <2>1. \A i \in 1 .. n : f[i - 1] \in Nat OBVIOUS
    <2> QED BY <1>3, <2>1 DEF Steps
  <1> HIDE DEF step
  <1>5. Solves(f)
    <2>1. \A i \in 0 .. n : i # 0 => i \in 1 .. n OBVIOUS
    <2> QED BY <1>4, <2>1
  <1>6. Solves(ind)
    <2> HIDE DEF Solves
    <2> QED BY <1>5
  <1>7. Len(c) = n BY IsASeq
  <1>8. getFlatIndex(c, a) = ind[n] BY <1>7 DEF getFlatIndex
  <1> HIDE DEF ind
  <1>9. ind[0] = 0 /\ \A i \in 1 .. n : ind[i] = ind[i - 1] + c[i] * a[i] 
    <2>1. \A i \in 1 .. n : i \in 0 .. n /\ i # 0 OBVIOUS
    <2>2. \A i \in 0 .. n : ind[i] = IF i = 0 THEN 0 ELSE ind[i - 1] + c[i] * a[i] BY <1>6
    <2>3. 0 \in 0 .. n OBVIOUS
    <2> QED BY <2>1, <2>2, <2>3
  <1>10. \A i \in 0 .. n : ind[i] \in Nat
    <2> DEFINE S == {m \in 0 .. n : ind[m] \in Nat}
    <2>1. 0 \in S BY <1>9
    <2>2. \A m \in 0 .. n : m < n /\ m \in S => m + 1 \in S
      <3>1. TAKE m \in 0 .. n
      <3>2. HAVE m < n /\ m \in S
      <3>3. m + 1 \in 1 .. n /\ m + 1 - 1 = m BY <3>2
      <3>4. ind[m + 1] = ind[m] + c[m + 1] * a[m + 1] BY <1>9, <3>3
      <3> QED BY <1>1, <3>2, <3>3, <3>4
    <2> HIDE DEF S
    <2>3. \A m \in 0 .. n : m \in S BY <2>1, <2>2, Climb
    <2> QED BY <2>3 DEF S
  <1>11. ind \in [0 .. n -> Nat] BY <1>6, <1>10
  <1> QED BY <1>8, <1>9, <1>11

\* What FlatSums says of a coordinate of dims.
LEMMA CoordSums ==
    ASSUME NEW dims \in Dims, NEW c \in Coord(dims)
    PROVE  \E ind \in [0 .. Len(dims) -> Nat] :
              /\ ind[0] = 0 /\ Flat(dims, c) = ind[Len(dims)]
              /\ \A i \in 1 .. Len(dims) : ind[i] = ind[i - 1] + c[i] * updateDimAccum(dims)[i]
  <1> DEFINE n == Len(dims)
             acc == updateDimAccum(dims)
  <1>1. n \in Nat /\ acc \in [1 .. n -> Nat] /\ c \in [1 .. n -> Nat] BY AccumFacts DEF Coord
  <1> HIDE DEF acc, n
  <1>2. \E ind \in [0 .. n -> Nat] :
              /\ ind[0] = 0 /\ \A i \in 1 .. n : ind[i] = ind[i - 1] + c[i] * acc[i]
              /\ getFlatIndex(c, acc) = ind[n]
    BY <1>1, FlatSums
  <1> QED BY <1>2 DEF acc, n, Flat

\* What the dimensions behind the k-th add to a position is less than a step
\* of the k-th.
LEMMA RestBelow ==
    ASSUME NEW dims \in Dims, NEW c \in Coord(dims), NEW ind \in [0 .. Len(dims) -> Nat],
           \A i \in 1 .. Len(dims) : ind[i] = ind[i - 1] + c[i] * updateDimAccum(dims)[i]
    PROVE  /\ \A k \in 1 .. Len(dims) :
                 ind[Len(dims)] - ind[k] \in 0 .. updateDimAccum(dims)[k] - 1
           /\ ind[Len(dims)] - ind[0] \in 0 .. size(dims) - 1
  <1> DEFINE n == Len(dims)
             acc == updateDimAccum(dims)
             Rest(k) == ind[n] - ind[k]
  <1>1. /\ n \in Nat \ {0} /\ n - 1 \in Nat /\ \A d \in 1 .. n : dims[d] \in Nat \ {0}
        /\ acc \in [1 .. n -> Nat \ {0}] /\ acc[n] = 1
        /\ \A i \in 1 .. n - 1 : acc[i] = acc[i + 1] * dims[i + 1]
        /\ size(dims) = acc[1] * dims[1]
    BY AccumFacts
  <1>2. \A d \in 1 .. n : c[d] \in Nat /\ c[d] < dims[d] BY DEF Coord
  <1>3. \A i \in 1 .. n : ind[i] = ind[i - 1] + c[i] * acc[i] OBVIOUS
  <1>4. ind \in [0 .. n -> Nat] OBVIOUS
  <1> HIDE DEF n, acc
  <1>5. ASSUME NEW k \in 1 .. n, Rest(k) \in 0 .. acc[k] - 1
        PROVE  Rest(k - 1) \in 0 .. acc[k] * dims[k] - 1
    <2>1. Rest(k - 1) = Rest(k) + c[k] * acc[k]
      <3>1. k \in 0 .. n /\ k - 1 \in 0 .. n /\ n \in 0 .. n BY <1>1
      <3>2. ind[k] \in Nat /\ ind[k - 1] \in Nat /\ ind[n] \in Nat BY <1>4, <3>1
      <3>3. c[k] * acc[k] \in Nat BY <1>1, <1>2, Times
      <3> QED BY <1>3, <3>2, <3>3
    <2>2. c[k] * acc[k] \in Nat /\ c[k] * acc[k] + acc[k] <= acc[k] * dims[k]
      <3>1. c[k] \in Nat /\ acc[k] \in Nat /\ dims[k] \in Nat /\ c[k] + 1 <= dims[k] /\ c[k] + 1 \in Nat
        <4>1. c[k] \in Nat /\ c[k] < dims[k] BY <1>2
        <4>2. acc[k] \in Nat /\ dims[k] \in Nat BY <1>1
        <4> QED BY <4>1, <4>2
      <3>2. (c[k] + 1) * acc[k] <= dims[k] * acc[k] BY <3>1, Times
      <3>3. \A x, y, z \in Nat : (x + 1) * y = x * y + y /\ z * y = y * z OBVIOUS
      <3>4. (c[k] + 1) * acc[k] = c[k] * acc[k] + acc[k] /\ dims[k] * acc[k] = acc[k] * dims[k] BY <3>1, <3>3, Zenon
      <3> QED BY <3>1, <3>2, <3>4, Times
    <2>3. acc[k] \in Nat /\ dims[k] \in Nat BY <1>1
    <2>4. acc[k] * dims[k] \in Nat BY <2>3, Times
    <2> HIDE DEF Rest
    <2> QED BY <1>5, <2>1, <2>2, <2>3, <2>4
  <1>6. \A m \in 0 .. n - 1 : Rest(n - m) \in 0 .. acc[n - m] - 1
    <2> DEFINE S == {m \in 0 .. n - 1 : Rest(n - m) \in 0 .. acc[n - m] - 1}
    <2>1. 0 \in S
      <3>1. n - 0 = n /\ ind[n] \in Nat BY <1>1, <1>4
      <3> QED BY <1>1, <3>1
    <2>2. ASSUME NEW m \in 0 .. n - 1, m < n - 1, m \in S PROVE m + 1 \in S
      <3>1. n - m \in 1 .. n /\ n - m - 1 \in 1 .. n - 1 /\ n - m - 1 + 1 = n - m /\ n - (m + 1) = n - m - 1 BY <1>1, <2>2
      <3>2. acc[n - m - 1] = acc[n - m] * dims[n - m] BY <1>1, <3>1
      <3> HIDE DEF Rest
      <3>3. Rest(n - m - 1) \in 0 .. acc[n - m] * dims[n - m] - 1 BY <1>5, <2>2, <3>1
      <3> QED BY <1>1, <2>2, <3>1, <3>2, <3>3
    <2> HIDE DEF S
    <2>3. \A m \in 0 .. n - 1 : m \in S BY <1>1, <2>1, <2>2, Climb
    <2> QED BY <2>3 DEF S
  <1> HIDE DEF Rest
  <1>7. \A k \in 1 .. n : Rest(k) \in 0 .. acc[k] - 1
    <2>1. TAKE k \in 1 .. n
    <2>2. n - k \in 0 .. n - 1 /\ n - (n - k) = k BY <1>1
    <2> QED BY <1>6, <2>2
  <1>8. Rest(0) \in 0 .. size(dims) - 1
    <2>1. 1 \in 1 .. n /\ 1 - 1 = 0 BY <1>1
    <2>2. Rest(1 - 1) \in 0 .. acc[1] * dims[1] - 1 BY <1>5, <1>7, <2>1
    <2> QED BY <1>1, <2>1, <2>2
  <1> QED BY <1>7, <1>8 DEF Rest, n, acc

\* The position of a coordinate lies in the vector, and exportSubIndex takes it
\* back to the coordinate.
LEMMA FlatThere ==
    ASSUME NEW dims \in Dims, NEW c \in Coord(dims)
    PROVE  Flat(dims, c) \in 0 .. size(dims) - 1 /\ exportSubIndex(dims, Flat(dims, c)) = c
  <1> DEFINE n == Len(dims)
             acc == updateDimAccum(dims)
  <1>1. /\ n \in Nat \ {0} /\ n - 1 \in Nat /\ \A d \in 1 .. n : dims[d] \in Nat \ {0}
        /\ acc \in [1 .. n -> Nat \ {0}] /\ acc[n] = 1
        /\ \A i \in 1 .. n - 1 : acc[i] = acc[i + 1] * dims[i + 1]
    BY AccumFacts
  <1>2. c \in [1 .. n -> Nat] /\ \A d \in 1 .. n : c[d] \in Nat /\ c[d] < dims[d] BY DEF Coord
  <1>3. PICK ind \in [0 .. n -> Nat] :
           /\ ind[0] = 0 /\ Flat(dims, c) = ind[n]
           /\ \A i \in 1 .. n : ind[i] = ind[i - 1] + c[i] * acc[i]
    BY CoordSums
  <1>4. /\ \A k \in 1 .. n : ind[n] - ind[k] \in 0 .. acc[k] - 1
        /\ ind[n] - ind[0] \in 0 .. size(dims) - 1
    BY <1>3, RestBelow
  <1>5. exportSubIndex(dims, ind[n]) = [j \in 1 .. n |-> (ind[n] \div acc[j]) % dims[j]]
    BY DEF exportSubIndex, Dims
  <1> HIDE DEF n, acc
  <1>6. \A k \in 1 .. n : \E q \in Nat : ind[k] = q * acc[k] /\ q % dims[k] = c[k]
    <2> DEFINE S == {m \in 0 .. n - 1 : \E q \in Nat : ind[m + 1] = q * acc[m + 1] /\ q % dims[m + 1] = c[m + 1]}
    <2>1. 0 \in S
      <3>1. 1 \in 1 .. n /\ 1 - 1 = 0 /\ 0 + 1 = 1 BY <1>1
      <3>2. c[1] \in Nat /\ c[1] < dims[1] /\ dims[1] \in Nat \ {0} /\ acc[1] \in Nat BY <1>1, <1>2, <3>1
      <3>3. c[1] * acc[1] \in Nat BY <3>2, Times
      <3>4. ind[1] = c[1] * acc[1] BY <1>3, <3>1, <3>3
      <3>5. c[1] % dims[1] = c[1] BY <3>2
      <3>6. 0 \in 0 .. n - 1 BY <1>1
      <3> QED BY <3>1, <3>2, <3>4, <3>5, <3>6
    <2>2. ASSUME NEW m \in 0 .. n - 1, m < n - 1, m \in S PROVE m + 1 \in S
      <3> DEFINE k == m + 2
      <3>1. k \in 1 .. n /\ m + 1 \in 1 .. n - 1 /\ m + 1 \in 1 .. n /\ k - 1 = m + 1 /\ m + 1 + 1 = k BY <1>1, <2>2
      <3>2. PICK q \in Nat : ind[m + 1] = q * acc[m + 1] BY <2>2
      <3> HIDE DEF k
      <3>3. acc[k] \in Nat /\ dims[k] \in Nat \ {0} /\ c[k] \in Nat /\ c[k] < dims[k] BY <1>1, <1>2, <3>1
      <3>4. acc[m + 1] = acc[k] * dims[k] BY <1>1, <3>1
      <3>5. ind[k] = q * (acc[k] * dims[k]) + c[k] * acc[k] BY <1>3, <3>1, <3>2, <3>4
      <3>6. q * (acc[k] * dims[k]) + c[k] * acc[k] = (q * dims[k] + c[k]) * acc[k] BY <3>3
      <3>7. (q * dims[k] + c[k]) % dims[k] = c[k] BY <3>3, DivModOf
      <3>8. q * dims[k] + c[k] \in Nat
        <4>1. q * dims[k] \in Nat BY <3>3, Times
        <4> QED BY <3>3, <4>1
      <3>9. \E r \in Nat : ind[k] = r * acc[k] /\ r % dims[k] = c[k] BY <3>5, <3>6, <3>7, <3>8
      <3> QED BY <1>1, <2>2, <3>1, <3>9
    <2> HIDE DEF S
    <2>3. \A m \in 0 .. n - 1 : m \in S BY <1>1, <2>1, <2>2, Climb
    <2>4. TAKE k \in 1 .. n
    <2>5. k - 1 \in 0 .. n - 1 /\ k - 1 + 1 = k BY <1>1
    <2> QED BY <2>3, <2>5 DEF S
  <1>7. ASSUME NEW j \in 1 .. n PROVE (ind[n] \div acc[j]) % dims[j] = c[j]
    <2>1. PICK q \in Nat : ind[j] = q * acc[j] /\ q % dims[j] = c[j] BY <1>6
    <2>2. acc[j] \in Nat \ {0} /\ ind[n] \in Nat /\ ind[j] \in Nat BY <1>1
    <2> DEFINE r == ind[n] - ind[j]
    <2>3. r \in Nat /\ r < acc[j] /\ ind[n] = ind[j] + r BY <1>4, <2>2
    <2> HIDE DEF r
    <2>4. ind[n] = q * acc[j] + r BY <2>1, <2>3
    <2>5. (q * acc[j] + r) \div acc[j] = q BY <2>2, <2>3, DivModOf
    <2> QED BY <2>1, <2>4, <2>5
  <1>8. [j \in 1 .. n |-> (ind[n] \div acc[j]) % dims[j]] = c BY <1>2, <1>7
  <1>9. ind[n] = ind[n] - ind[0] BY <1>1, <1>3
  <1> QED BY <1>3, <1>4, <1>5, <1>8, <1>9

\* Every position in the vector is that of the coordinate that exportSubIndex
\* gives.
LEMMA ExportThere ==
    ASSUME NEW dims \in Dims, NEW id \in 0 .. size(dims) - 1
    PROVE  exportSubIndex(dims, id) \in Coord(dims) /\ Flat(dims, exportSubIndex(dims, id)) = id
  <1> DEFINE n == Len(dims)
             acc == updateDimAccum(dims)
             c == exportSubIndex(dims, id)
  <1>1. /\ n \in Nat \ {0} /\ n - 1 \in Nat /\ \A d \in 1 .. n : dims[d] \in Nat \ {0}
        /\ acc \in [1 .. n -> Nat \ {0}] /\ acc[n] = 1
        /\ \A i \in 1 .. n - 1 : acc[i] = acc[i + 1] * dims[i + 1]
        /\ size(dims) = acc[1] * dims[1] /\ size(dims) \in Nat \ {0}
    BY AccumFacts
  <1>2. c = [j \in 1 .. n |-> (id \div acc[j]) % dims[j]]
    BY DEF exportSubIndex, Dims
  <1> HIDE DEF n, acc, c
  <1>3. id \in Nat /\ id < acc[1] * dims[1] BY <1>1
  <1>4. ASSUME NEW j \in 1 .. n
        PROVE  c[j] = (id \div acc[j]) % dims[j] /\ c[j] \in 0 .. dims[j] - 1 /\ id \div acc[j] \in Nat
    <2>1. acc[j] \in Nat \ {0} /\ dims[j] \in Nat \ {0} BY <1>1
    <2>2. id \div acc[j] \in Nat BY <1>3, <2>1, DivMod
    <2>3. (id \div acc[j]) % dims[j] \in 0 .. dims[j] - 1 BY <2>1, <2>2, DivMod
    <2> QED BY <1>2, <2>2, <2>3
  <1>5. c \in Coord(dims)
    <2>1. c = [j \in 1 .. n |-> c[j]] BY <1>2
    <2>2. \A j \in 1 .. n : c[j] \in Nat /\ c[j] < dims[j]
      <3>1. TAKE j \in 1 .. n
      <3>2. dims[j] \in Nat /\ c[j] \in 0 .. dims[j] - 1 BY <1>1, <1>4
      <3> QED BY <3>2
    <2> QED BY <2>1, <2>2 DEF Coord, n
  <1>6. PICK ind \in [0 .. n -> Nat] :
           /\ ind[0] = 0 /\ Flat(dims, c) = ind[n]
           /\ \A i \in 1 .. n : ind[i] = ind[i - 1] + c[i] * acc[i]
    BY <1>5, CoordSums DEF n, acc
  <1>7. \A m \in 0 .. n - 1 : ind[m + 1] = (id \div acc[m + 1]) * acc[m + 1]
    <2> DEFINE S == {m \in 0 .. n - 1 : ind[m + 1] = (id \div acc[m + 1]) * acc[m + 1]}
    <2>1. 0 \in S
      <3>1. 1 \in 1 .. n /\ 1 - 1 = 0 /\ 0 + 1 = 1 /\ 0 \in 0 .. n - 1 BY <1>1
      <3>2. acc[1] \in Nat \ {0} /\ dims[1] \in Nat \ {0} BY <1>1, <3>1
      <3>3. id \div acc[1] \in Nat /\ id \div acc[1] < dims[1]
        <4> DEFINE q == id \div acc[1]
                   r == id % acc[1]
        <4>1. q \in Nat /\ r \in 0 .. acc[1] - 1 /\ id = q * acc[1] + r BY <1>3, <3>2, DivMod
        <4> HIDE DEF q, r
        <4>2. ASSUME q >= dims[1] PROVE FALSE
          <5>1. dims[1] * acc[1] <= q * acc[1] BY <3>2, <4>1, <4>2, Times
          <5>2. dims[1] * acc[1] = acc[1] * dims[1] BY <3>2
          <5>3. dims[1] * acc[1] \in Nat BY <3>2, Times
          <5>4. q * acc[1] \in Nat BY <3>2, <4>1, Times
          <5> QED BY <1>3, <3>2, <4>1, <5>1, <5>2, <5>3, <5>4
        <4>3. q \in Nat /\ q < dims[1]
          <5>1. dims[1] \in Nat BY <3>2
          <5> QED BY <4>1, <4>2, <5>1
        <4> QED BY <4>3 DEF q
      <3>4. (id \div acc[1]) % dims[1] = id \div acc[1] BY <3>2, <3>3
      <3>5. c[1] = id \div acc[1] BY <1>4, <3>1, <3>4
      <3>6. ind[1] = 0 + c[1] * acc[1] BY <1>6, <3>1
      <3>7. c[1] * acc[1] \in Nat BY <3>2, <3>3, <3>5, Times
      <3> QED BY <3>1, <3>5, <3>6, <3>7
    <2>2. ASSUME NEW m \in 0 .. n - 1, m < n - 1, m \in S PROVE m + 1 \in S
      <3> DEFINE k == m + 2
      <3>1. k \in 1 .. n /\ m + 1 \in 1 .. n - 1 /\ m + 1 \in 1 .. n /\ k - 1 = m + 1 /\ m + 1 + 1 = k BY <1>1, <2>2
      <3> HIDE DEF k
      <3>2. acc[k] \in Nat \ {0} /\ dims[k] \in Nat \ {0} BY <1>1, <3>1
      <3>3. acc[m + 1] = acc[k] * dims[k] BY <1>1, <3>1
      <3> DEFINE p == id \div acc[k]
                 q == p \div dims[k]
      <3>4. p \in Nat /\ q \in Nat BY <1>3, <3>2, DivMod
      <3>5. id \div acc[m + 1] = q
        <4>1. id \div (acc[k] * dims[k]) = (id \div acc[k]) \div dims[k] BY <1>3, <3>2, DivTwice
        <4> QED BY <3>3, <4>1
      <3>6. c[k] = p % dims[k] BY <1>4, <3>1
      <3>7. p = q * dims[k] + (p % dims[k]) BY <3>2, <3>4, DivMod
      <3>8. ind[m + 1] = q * (acc[k] * dims[k]) BY <2>2, <3>3, <3>5
      <3>9. ind[k] = q * (acc[k] * dims[k]) + c[k] * acc[k] BY <1>6, <3>1, <3>8
      <3>10. c[k] \in Nat BY <1>4, <3>1
      <3> HIDE DEF q
      <3>11. q * (acc[k] * dims[k]) + c[k] * acc[k] = (q * dims[k] + c[k]) * acc[k] BY <3>2, <3>4, <3>10
      <3>12. ind[k] = p * acc[k] BY <3>6, <3>7, <3>9, <3>11
      <3> QED BY <1>1, <2>2, <3>1, <3>12
    <2> HIDE DEF S
    <2>3. \A m \in 0 .. n - 1 : m \in S BY <1>1, <2>1, <2>2, Climb
    <2> QED BY <2>3 DEF S
  <1>8. ind[n] = id
    <2>1. n - 1 \in 0 .. n - 1 /\ n - 1 + 1 = n BY <1>1
    <2>2. ind[n] = (id \div acc[n]) * acc[n] BY <1>7, <2>1
    <2>3. id \div 1 = id /\ id * 1 = id BY <1>3
    <2> QED BY <1>1, <2>2, <2>3
  <1> QED BY <1>5, <1>6, <1>8 DEF c

-----------------------------------------------------------------------------
\* The order of the coordinates

LEMMA FlatOrder ==
    ASSUME NEW dims \in Dims, NEW c \in Coord(dims), NEW e \in Coord(dims), Values!Before(c, e)
    PROVE  Flat(dims, c) < Flat(dims, e)
  <1> DEFINE n == Len(dims)
             acc == updateDimAccum(dims)
  <1>1. /\ n \in Nat \ {0} /\ \A d \in 1 .. n : dims[d] \in Nat \ {0}
        /\ acc \in [1 .. n -> Nat \ {0}]
    BY AccumFacts
  <1>2. c \in [1 .. n -> Nat] /\ e \in [1 .. n -> Nat] BY DEF Coord
  <1>3. PICK d \in 1 .. n : c[d] < e[d] /\ \A k \in 1 .. d - 1 : c[k] = e[k]
    BY <1>2 DEF Values!Before
  <1>4. PICK f \in [0 .. n -> Nat] :
           /\ f[0] = 0 /\ Flat(dims, c) = f[n]
           /\ \A i \in 1 .. n : f[i] = f[i - 1] + c[i] * acc[i]
    BY CoordSums
  <1>5. PICK g \in [0 .. n -> Nat] :
           /\ g[0] = 0 /\ Flat(dims, e) = g[n]
           /\ \A i \in 1 .. n : g[i] = g[i - 1] + e[i] * acc[i]
    BY CoordSums
  <1>6. /\ \A k \in 1 .. n : f[n] - f[k] \in 0 .. acc[k] - 1
        /\ \A k \in 1 .. n : g[n] - g[k] \in 0 .. acc[k] - 1
    <2>1. \A k \in 1 .. n : f[n] - f[k] \in 0 .. acc[k] - 1 BY <1>4, RestBelow
    <2>2. \A k \in 1 .. n : g[n] - g[k] \in 0 .. acc[k] - 1 BY <1>5, RestBelow
    <2> QED BY <2>1, <2>2
  <1> HIDE DEF n, acc
  <1>7. f[d - 1] = g[d - 1]
    <2> DEFINE S == {m \in 0 .. d - 1 : f[m] = g[m]}
    <2>1. 0 \in S BY <1>1, <1>3, <1>4, <1>5
    <2>2. ASSUME NEW m \in 0 .. d - 1, m < d - 1, m \in S PROVE m + 1 \in S
      <3>1. m + 1 \in 1 .. d - 1 /\ m + 1 \in 1 .. n /\ m + 1 - 1 = m /\ m + 1 \in 0 .. d - 1 BY <1>1, <1>3, <2>2
      <3>2. c[m + 1] = e[m + 1] BY <1>3, <3>1
      <3>3. f[m + 1] = f[m] + c[m + 1] * acc[m + 1] /\ g[m + 1] = g[m] + e[m + 1] * acc[m + 1] BY <1>4, <1>5, <3>1
      <3> QED BY <2>2, <3>1, <3>2, <3>3
    <2> HIDE DEF S
    <2>3. d - 1 \in Nat /\ d - 1 \in 0 .. d - 1 BY <1>1, <1>3
    <2>4. \A m \in 0 .. d - 1 : m \in S BY <2>1, <2>2, <2>3, Climb
    <2> QED BY <2>3, <2>4 DEF S
  <1>8. (c[d] + 1) * acc[d] <= e[d] * acc[d] /\ (c[d] + 1) * acc[d] = c[d] * acc[d] + acc[d]
    <2>1. c[d] \in Nat /\ e[d] \in Nat /\ c[d] + 1 \in Nat /\ c[d] + 1 <= e[d] /\ acc[d] \in Nat
      <3>1. c[d] \in Nat /\ e[d] \in Nat /\ acc[d] \in Nat BY <1>1, <1>2
      <3> QED BY <1>3, <3>1
    <2>2. (c[d] + 1) * acc[d] <= e[d] * acc[d] BY <2>1, Times
    <2>3. (c[d] + 1) * acc[d] = c[d] * acc[d] + acc[d] BY <2>1
    <2> QED BY <2>2, <2>3
  <1>9. c[d] * acc[d] \in Nat /\ e[d] * acc[d] \in Nat /\ acc[d] \in Nat BY <1>1, <1>2, Times
  <1>10. f[d] = f[d - 1] + c[d] * acc[d] /\ g[d] = g[d - 1] + e[d] * acc[d] BY <1>4, <1>5
  <1>11. /\ f[d - 1] \in Nat /\ g[d - 1] \in Nat /\ f[d] \in Nat /\ g[d] \in Nat /\ f[n] \in Nat /\ g[n] \in Nat
         /\ f[n] - f[d] <= acc[d] - 1 /\ g[n] - g[d] >= 0
    <2>1. d - 1 \in 0 .. n /\ d \in 0 .. n /\ n \in 0 .. n BY <1>1, <1>3
    <2>2. f[n] - f[d] \in 0 .. acc[d] - 1 /\ g[n] - g[d] \in 0 .. acc[d] - 1 BY <1>6
    <2> QED BY <1>9, <2>1, <2>2
  <1> DEFINE x == c[d] * acc[d]
             y == e[d] * acc[d]
  <1>12. acc[d] \in Nat /\ x \in Nat /\ y \in Nat /\ x + acc[d] <= y /\ f[d] = f[d - 1] + x /\ g[d] = g[d - 1] + y
    BY <1>8, <1>9, <1>10
  <1> HIDE DEF x, y
  <1>13. f[n] < g[n]
    <2>1. \A p, q, u, v, w, a \in Nat :
             q - p <= a - 1 /\ v - u >= 0 /\ x + a <= y /\ p = w + x /\ u = w + y => q < v
      BY <1>12
    <2> QED BY <1>7, <1>11, <1>12, <2>1
  <1> QED BY <1>4, <1>5, <1>13

\* Of two coordinates one is before the other.
LEMMA OneBefore ==
    ASSUME NEW n \in Nat, NEW c \in [1 .. n -> Nat], NEW e \in [1 .. n -> Nat], c # e
    PROVE  Values!Before(c, e) \/ Values!Before(e, c)
  <1> DEFINE D == {d \in 1 .. n : c[d] # e[d]}
  <1>1. D # {} /\ D \subseteq Nat OBVIOUS
  <1>2. PICK d \in D : \A k \in D : d <= k
    <2> HIDE DEF D
    <2> QED BY <1>1, LeastOne
  <1>3. \A k \in 1 .. d - 1 : c[k] = e[k] BY <1>2
  <1>4. c[d] < e[d] \/ e[d] < c[d] BY <1>2
  <1> QED BY <1>2, <1>3, <1>4 DEF Values!Before

LEMMA OrderFlat ==
    ASSUME NEW dims \in Dims, NEW c \in Coord(dims), NEW e \in Coord(dims)
    PROVE  Values!Before(c, e) <=> Flat(dims, c) < Flat(dims, e)
  <1>1. Values!Before(c, e) => Flat(dims, c) < Flat(dims, e) BY FlatOrder
  <1>2. Values!Before(e, c) => Flat(dims, e) < Flat(dims, c) BY FlatOrder
  <1>3. Flat(dims, c) \in Nat /\ Flat(dims, e) \in Nat
    <2>1. size(dims) \in Nat BY AccumFacts
    <2> QED BY <2>1, FlatThere
  <1>4. Len(dims) \in Nat /\ c \in [1 .. Len(dims) -> Nat] /\ e \in [1 .. Len(dims) -> Nat] BY AccumFacts DEF Coord
  <1>5. c # e => Values!Before(c, e) \/ Values!Before(e, c) BY <1>4, OneBefore
  <1> QED BY <1>1, <1>2, <1>3, <1>5

\* A strictly increasing map from the first n numbers into the first m: they
\* are no fewer, and if they are as many each goes to itself.
LEMMA Squeeze ==
    ASSUME NEW n \in Nat, NEW m \in Nat, NEW h,
           \A i \in 0 .. n - 1 : h[i] \in 0 .. m - 1,
           \A i, k \in 0 .. n - 1 : i < k => h[i] < h[k]
    PROVE  n <= m /\ (n = m => \A i \in 0 .. n - 1 : h[i] = i)
  <1>1. CASE n = 0 BY <1>1
  <1>2. CASE n # 0
    <2>1. n - 1 \in Nat BY <1>2
    <2>2. \A i \in 0 .. n - 1 : h[i] >= i
      <3> DEFINE S == {i \in 0 .. n - 1 : h[i] >= i}
      <3>1. 0 \in S BY <2>1
      <3>2. ASSUME NEW i \in 0 .. n - 1, i < n - 1, i \in S PROVE i + 1 \in S
        <4>1. i + 1 \in 0 .. n - 1 /\ h[i] < h[i + 1] /\ h[i] \in Nat /\ h[i + 1] \in Nat BY <3>2
        <4> QED BY <3>2, <4>1
      <3> HIDE DEF S
      <3>3. \A i \in 0 .. n - 1 : i \in S BY <2>1, <3>1, <3>2, Climb
      <3> QED BY <3>3 DEF S
    <2>3. n <= m
      <3>1. n - 1 \in 0 .. n - 1 BY <2>1
      <3>2. h[n - 1] >= n - 1 /\ h[n - 1] \in 0 .. m - 1 BY <2>2, <3>1
      <3> QED BY <3>2
    <2>4. ASSUME n = m PROVE \A i \in 0 .. n - 1 : h[i] <= i
      <3> DEFINE S == {k \in 0 .. n - 1 : h[n - 1 - k] <= n - 1 - k}
      <3>1. 0 \in S
        <4>1. n - 1 \in 0 .. n - 1 /\ n - 1 - 0 = n - 1 BY <2>1
        <4>2. h[n - 1] \in 0 .. n - 1 BY <2>4, <4>1
        <4> QED BY <2>1, <4>1, <4>2
      <3>2. ASSUME NEW k \in 0 .. n - 1, k < n - 1, k \in S PROVE k + 1 \in S
        <4>1. n - 1 - (k + 1) \in 0 .. n - 1 /\ n - 1 - k \in 0 .. n - 1 /\ n - 1 - (k + 1) < n - 1 - k BY <3>2
        <4>2. h[n - 1 - (k + 1)] < h[n - 1 - k] /\ h[n - 1 - (k + 1)] \in Nat /\ h[n - 1 - k] \in Nat BY <4>1
        <4>3. h[n - 1 - k] <= n - 1 - k BY <3>2
        <4> QED BY <2>1, <3>2, <4>1, <4>2, <4>3
      <3> HIDE DEF S
      <3>3. \A k \in 0 .. n - 1 : k \in S BY <2>1, <3>1, <3>2, Climb
      <3>4. TAKE i \in 0 .. n - 1
      <3>5. n - 1 - i \in 0 .. n - 1 /\ n - 1 - (n - 1 - i) = i BY <2>1
      <3> QED BY <3>3, <3>5 DEF S
    <2>5. ASSUME n = m, NEW i \in 0 .. n - 1 PROVE h[i] = i
      <3>1. h[i] >= i /\ h[i] <= i /\ h[i] \in Nat BY <2>2, <2>4, <2>5
      <3> QED BY <3>1
    <2> QED BY <2>3, <2>5
  <1> QED BY <1>1, <1>2

LEMMA Counted ==
    ASSUME NEW n \in Nat, NEW T, NEW F \in [1 .. n -> T],
           \A x, y \in 1 .. n : F[x] = F[y] => x = y,
           \A t \in T : \E x \in 1 .. n : F[x] = t
    PROVE  Cardinality(T) = n
  <1>1. F \in Bijection(1 .. n, T) BY Fun_IsBij
  <1>2. ExistsBijection(1 .. n, T) BY <1>1 DEF ExistsBijection
  <1> QED BY <1>2, FS_CountingElements

LEMMA SameCardinality == \A S : Values!Cardinality(S) = Cardinality(S)
  BY DEF Values!Cardinality, Cardinality

\* As many coordinates are before one as positions are before its own.
LEMMA CountBefore ==
    ASSUME NEW dims \in Dims, NEW m \in 0 .. size(dims)
    PROVE  Cardinality({e \in Coord(dims) : Flat(dims, e) < m}) = m
  <1> DEFINE T == {e \in Coord(dims) : Flat(dims, e) < m}
             F == [x \in 1 .. m |-> exportSubIndex(dims, x - 1)]
  <1>1. size(dims) \in Nat BY AccumFacts
  <1>2. \A x \in 1 .. m : x - 1 \in 0 .. size(dims) - 1 /\ x - 1 < m BY <1>1
  <1>3. \A x \in 1 .. m : F[x] \in T /\ Flat(dims, F[x]) = x - 1
    <2>1. \A x \in 1 .. m : F[x] = exportSubIndex(dims, x - 1) OBVIOUS
    <2> HIDE DEF F
    <2> QED BY <1>2, <2>1, ExportThere
  <1>4. F \in [1 .. m -> T] BY <1>3
  <1>5. \A x, y \in 1 .. m : F[x] = F[y] => x = y
    <2> HIDE DEF F, T
    <2>1. TAKE x, y \in 1 .. m
    <2>2. HAVE F[x] = F[y]
    <2>3. x - 1 = y - 1 BY <1>3, <2>2
    <2> QED BY <1>1, <2>3
  <1>6. \A t \in T : \E x \in 1 .. m : F[x] = t
    <2>1. TAKE t \in T
    <2>2. Flat(dims, t) \in 0 .. size(dims) - 1 /\ exportSubIndex(dims, Flat(dims, t)) = t /\ Flat(dims, t) < m BY FlatThere
    <2> DEFINE x == Flat(dims, t) + 1
    <2>3. x \in 1 .. m /\ x - 1 = Flat(dims, t) BY <1>1, <2>2
    <2> HIDE DEF x
    <2>4. F[x] = t BY <2>2, <2>3
    <2> QED BY <2>3, <2>4
  <1> HIDE DEF F, T
  <1>7. Cardinality(T) = m BY <1>1, <1>4, <1>5, <1>6, Counted
  <1> QED BY <1>7 DEF T

\* The coordinates of Matrices are those that the subindices of an array go
\* through.
LEMMA CoordsAre ==
    ASSUME NEW dims \in Dims
    PROVE  Values!Coords(dims) = Coord(dims)
  <1> DEFINE n == Len(dims)
             R == Values!Range(dims)
  <1>1. n \in Nat \ {0} /\ n - 1 \in Nat /\ \A d \in 1 .. n : dims[d] \in Nat \ {0} BY AccumFacts
  <1>2. DOMAIN dims = 1 .. n /\ dims # <<>> BY DEF Dims
  <1>3. R = {dims[d] : d \in 1 .. n} BY <1>2 DEF Values!Range
  <1> HIDE DEF n, R
  <1>4. \E h \in 1 .. n : \A d \in 1 .. n : dims[d] <= dims[h]
    <2> DEFINE S == {m \in 0 .. n - 1 : \E h \in 1 .. m + 1 : \A d \in 1 .. m + 1 : dims[d] <= dims[h]}
    <2>1. 0 \in S BY <1>1
    <2>2. ASSUME NEW m \in 0 .. n - 1, m < n - 1, m \in S PROVE m + 1 \in S
      <3>1. PICK h \in 1 .. m + 1 : \A d \in 1 .. m + 1 : dims[d] <= dims[h] BY <2>2
      <3>2. m + 2 \in 1 .. n /\ h \in 1 .. n /\ m + 1 \in 0 .. n - 1 /\ m + 1 + 1 = m + 2 BY <1>1, <2>2
      <3>3. \A d \in 1 .. m + 2 : d \in 1 .. m + 1 \/ d = m + 2 BY <2>2
      <3>4. dims[m + 2] \in Nat /\ dims[h] \in Nat BY <1>1, <3>2
      <3>5. CASE dims[m + 2] <= dims[h]
        <4>1. \A d \in 1 .. m + 2 : dims[d] <= dims[h] BY <3>1, <3>3, <3>5
        <4> QED BY <3>2, <4>1
      <3>6. CASE ~(dims[m + 2] <= dims[h])
        <4>1. \A d \in 1 .. m + 1 : dims[d] \in Nat BY <1>1, <2>2
        <4>2. \A d \in 1 .. m + 2 : dims[d] <= dims[m + 2] BY <3>1, <3>3, <3>4, <3>6, <4>1
        <4>3. m + 2 \in 1 .. m + 2 BY <2>2
        <4> QED BY <3>2, <4>2, <4>3
      <3> QED BY <3>5, <3>6
    <2> HIDE DEF S
    <2>3. n - 1 \in S
      <3>1. \A m \in 0 .. n - 1 : m \in S BY <1>1, <2>1, <2>2, Climb
      <3> QED BY <1>1, <3>1
    <2> QED BY <1>1, <2>3 DEF S
  <1>5. \A d \in 1 .. n : dims[d] <= Values!Max(R)
    <2>1. \E x \in R : \A y \in R : x >= y BY <1>1, <1>3, <1>4
    <2>2. \A y \in R : Values!Max(R) >= y BY <2>1 DEF Values!Max
    <2>3. Values!Max(R) \in R BY <2>1 DEF Values!Max
    <2>4. \A d \in 1 .. n : dims[d] \in R BY <1>3
    <2>5. Values!Max(R) \in Nat /\ \A y \in R : y \in Nat BY <1>1, <1>3, <2>3
    <2> QED BY <2>2, <2>4, <2>5
  <1>6. Values!Max(R) \in Nat
    <2>1. \E x \in R : \A y \in R : x >= y BY <1>1, <1>3, <1>4
    <2>2. Values!Max(R) \in R BY <2>1 DEF Values!Max
    <2> QED BY <1>1, <1>3, <2>2
  <1>7. Values!Coords(dims) = {c \in [1 .. n -> 0 .. Values!Max(R)] : \A d \in 1 .. n : c[d] < dims[d]}
    BY <1>2 DEF Values!Coords, R
  <1>8. ASSUME NEW c, c \in [1 .. n -> Nat], \A d \in 1 .. n : c[d] < dims[d]
        PROVE  c \in [1 .. n -> 0 .. Values!Max(R)]
    <2>1. \A d \in 1 .. n : c[d] \in 0 .. Values!Max(R) BY <1>1, <1>5, <1>6, <1>8
    <2> QED BY <1>8, <2>1
  <1>9. [1 .. n -> 0 .. Values!Max(R)] \subseteq [1 .. n -> Nat] BY <1>6
  <1> HIDE DEF R
  <1> QED BY <1>7, <1>8, <1>9 DEF Coord, n

LEMMA RankIsFlat ==
    ASSUME NEW dims \in Dims, NEW c \in Coord(dims)
    PROVE  Values!Rank(dims, c) = Flat(dims, c)
  <1>1. Flat(dims, c) \in 0 .. size(dims) /\ size(dims) \in Nat
    <2>1. size(dims) \in Nat BY AccumFacts
    <2> QED BY <2>1, FlatThere
  <1>2. {e \in Values!Coords(dims) : Values!Before(e, c)} = {e \in Coord(dims) : Flat(dims, e) < Flat(dims, c)}
    BY CoordsAre, OrderFlat
  <1>3. Cardinality({e \in Values!Coords(dims) : Values!Before(e, c)}) = Flat(dims, c) BY <1>1, <1>2, CountBefore
  <1> QED BY <1>3, SameCardinality DEF Values!Rank

LEMMA CoordsCounted ==
    ASSUME NEW dims \in Dims
    PROVE  Values!Cardinality(Values!Coords(dims)) = size(dims)
  <1>1. size(dims) \in Nat /\ size(dims) \in 0 .. size(dims) BY AccumFacts
  <1>2. Values!Coords(dims) = {e \in Coord(dims) : Flat(dims, e) < size(dims)}
    <2>1. \A e \in Coord(dims) : Flat(dims, e) < size(dims) BY <1>1, FlatThere
    <2> QED BY <2>1, CoordsAre
  <1> QED BY <1>1, <1>2, CountBefore, SameCardinality

-----------------------------------------------------------------------------
\* Parts of an array

\* A subindex: positions in each dimension.
Subs == Seq(Seq(Nat) \ {<<>>}) \ {<<>>}

\* The long dimensions are in order, and makeSubDims collects their sizes.
LongInv(p, m, x, y) ==
    /\ x \in Seq(1 .. Len(p)) /\ y \in Seq(Nat) /\ Len(y) = Len(x)
    /\ \A k \in 1 .. Len(x) : x[k] <= m /\ Len(p[x[k]]) > 1 /\ y[k] = Len(p[x[k]])
    /\ \A d \in 1 .. m : Len(p[d]) > 1 => \E k \in 1 .. Len(x) : x[k] = d
    /\ \A j, k \in 1 .. Len(x) : j < k => x[j] < x[k]

LEMMA LongStep ==
    ASSUME NEW p \in Subs, NEW m \in 0 .. Len(p), m < Len(p), NEW x, NEW y, LongInv(p, m, x, y),
           Len(p[m + 1]) > 1
    PROVE  LongInv(p, m + 1, Append(x, m + 1), Append(y, Len(p[m + 1])))
  <1> DEFINE n == Len(p)
             s == Len(p[m + 1])
             u == Append(x, m + 1)
             v == Append(y, s)
  <1>1. n \in Nat /\ m + 1 \in 1 .. n /\ p[m + 1] \in Seq(Nat) /\ s \in Nat
    BY DEF Subs
  <1>2. x \in Seq(1 .. n) /\ y \in Seq(Nat) /\ Len(y) = Len(x) /\ Len(x) \in Nat BY DEF LongInv
  <1>3. /\ u \in Seq(1 .. n) /\ Len(u) = Len(x) + 1 /\ u[Len(x) + 1] = m + 1
        /\ \A k \in 1 .. Len(x) : u[k] = x[k]
    <2> HIDE DEF n
    <2> QED BY <1>1, <1>2
  <1>4. v \in Seq(Nat) /\ Len(v) = Len(x) + 1 /\ v[Len(x) + 1] = s /\ \A k \in 1 .. Len(x) : v[k] = y[k]
    <2> HIDE DEF s
    <2> QED BY <1>1, <1>2
  <1>5. \A k \in 1 .. Len(x) : x[k] \in 1 .. n /\ x[k] <= m /\ Len(p[x[k]]) > 1 /\ y[k] = Len(p[x[k]])
    <2> HIDE DEF n
    <2>1. \A k \in 1 .. Len(x) : x[k] \in 1 .. n BY <1>2, ElementOfSeq
    <2> QED BY <2>1 DEF LongInv
  <1>6. \A k \in 1 .. Len(x) + 1 : k \in 1 .. Len(x) \/ k = Len(x) + 1 BY <1>2
  <1> DEFINE z == Len(x)
  <1>7. \A j, k \in 1 .. z : j < k => x[j] < x[k] BY DEF LongInv
  <1>8. \A d \in 1 .. m : Len(p[d]) > 1 => \E k \in 1 .. z : x[k] = d BY DEF LongInv
  <1>9. s > 1 /\ s = Len(p[m + 1]) OBVIOUS
  <1> HIDE DEF n, s, u, v, z
  <1>10. \A k \in 1 .. z + 1 : u[k] <= m + 1 /\ Len(p[u[k]]) > 1 /\ v[k] = Len(p[u[k]])
    <2>1. TAKE k \in 1 .. z + 1
    <2>2. CASE k \in 1 .. z
      <3>1. u[k] = x[k] /\ v[k] = y[k] BY <1>3, <1>4, <2>2 DEF z
      <3>2. x[k] \in 1 .. n /\ x[k] <= m /\ Len(p[x[k]]) > 1 /\ y[k] = Len(p[x[k]]) BY <1>5, <2>2 DEF z
      <3>3. x[k] <= m + 1 BY <1>1, <3>2
      <3> QED BY <3>1, <3>2, <3>3
    <2>3. CASE k = z + 1 BY <1>1, <1>3, <1>4, <1>9, <2>3 DEF z
    <2> QED BY <1>6, <2>2, <2>3 DEF z
  <1>11. \A d \in 1 .. m + 1 : Len(p[d]) > 1 => \E k \in 1 .. z + 1 : u[k] = d
    <2>1. TAKE d \in 1 .. m + 1
    <2>2. HAVE Len(p[d]) > 1
    <2>3. z \in Nat BY <1>2 DEF z
    <2>4. CASE d = m + 1
      <3>1. z + 1 \in 1 .. z + 1 BY <2>3
      <3> QED BY <1>3, <2>4, <3>1 DEF z
    <2>5. CASE d \in 1 .. m
      <3>1. PICK k \in 1 .. z : x[k] = d BY <1>8, <2>2, <2>5
      <3>2. k \in 1 .. z + 1 BY <2>3
      <3> QED BY <1>3, <3>1, <3>2 DEF z
    <2> QED BY <1>1, <2>4, <2>5
  <1>12. \A j, k \in 1 .. z + 1 : j < k => u[j] < u[k]
    <2>1. TAKE j, k \in 1 .. z + 1
    <2>2. HAVE j < k
    <2>3. z \in Nat BY <1>2 DEF z
    <2>4. j \in 1 .. z BY <2>2, <2>3
    <2>5. CASE k \in 1 .. z BY <1>3, <1>7, <2>2, <2>4, <2>5 DEF z
    <2>6. CASE k = z + 1
      <3>1. u[j] = x[j] /\ x[j] \in 1 .. n /\ x[j] <= m /\ u[k] = m + 1 BY <1>3, <1>5, <2>4, <2>6 DEF z
      <3> QED BY <1>1, <3>1
    <2> QED BY <1>6, <2>5, <2>6 DEF z
  <1> QED BY <1>3, <1>4, <1>10, <1>11, <1>12 DEF LongInv, n, s, u, v, z

LEMMA LongFacts ==
    ASSUME NEW p \in Subs
    PROVE  LongInv(p, Len(p), Values!Long(p), LongSizes(p))
  <1> DEFINE n == Len(p)
             sL == [d \in 1 .. n |-> [x \in Seq(1 .. n) |-> IF Len(p[d]) > 1 THEN Append(x, d) ELSE x]]
             sD == [d \in 1 .. n |-> [x \in Seq(Nat) |-> IF Len(p[d]) > 1 THEN Append(x, Len(p[d])) ELSE x]]
             SolvesL(h) == h = [d \in 0 .. n |-> IF d = 0 THEN <<>> ELSE IF Len(p[d]) > 1 THEN Append(h[d - 1], d) ELSE h[d - 1]]
             SolvesD(h) == h = [d \in 0 .. n |-> IF d = 0 THEN <<>> ELSE IF Len(p[d]) > 1 THEN Append(h[d - 1], Len(p[d])) ELSE h[d - 1]]
             L == CHOOSE h : SolvesL(h)
             D == CHOOSE h : SolvesD(h)
  <1>1. n \in Nat /\ \A d \in 1 .. n : p[d] \in Seq(Nat) /\ Len(p[d]) \in Nat BY DEF Subs
  <1>2. Values!Long(p) = L[n] /\ LongSizes(p) = D[n] BY DEF Values!Long, LongSizes
  <1>3. \E h : SolvesL(h)
    <2> HIDE DEF n
    <2>1. sL \in [1 .. n -> [Seq(1 .. n) -> Seq(1 .. n)]]
      <3> DEFINE T == 1 .. n
      <3>1. \A d \in T : \A x \in Seq(T) : Append(x, d) \in Seq(T)
        <4> HIDE DEF T
        <4> QED OBVIOUS
      <3> QED BY <3>1
    <2>2. <<>> \in Seq(1 .. n) OBVIOUS
    <2>3. PICK f \in [0 .. n -> Seq(1 .. n)] : Steps(f, n, <<>>, sL)
      <3> HIDE DEF sL
      <3> QED BY <1>1, <2>1, <2>2, StepsExist
    <2>4. \A d \in 1 .. n : d - 1 \in 0 .. n /\ f[d - 1] \in Seq(1 .. n) BY <1>1
    <2>5. f[0] = <<>> /\ \A d \in 1 .. n : f[d] = IF Len(p[d]) > 1 THEN Append(f[d - 1], d) ELSE f[d - 1]
      BY <2>3, <2>4 DEF Steps
    <2>6. \A d \in 0 .. n : d # 0 => d \in 1 .. n OBVIOUS
    <2>7. SolvesL(f) BY <2>5, <2>6
    <2> QED BY <2>7
  <1>4. \E h : SolvesD(h)
    <2> HIDE DEF n
    <2>1. sD \in [1 .. n -> [Seq(Nat) -> Seq(Nat)]] BY <1>1
    <2>2. <<>> \in Seq(Nat) OBVIOUS
    <2>3. PICK f \in [0 .. n -> Seq(Nat)] : Steps(f, n, <<>>, sD)
      <3> HIDE DEF sD
      <3> QED BY <1>1, <2>1, <2>2, StepsExist
    <2>4. \A d \in 1 .. n : d - 1 \in 0 .. n /\ f[d - 1] \in Seq(Nat) BY <1>1
    <2>5. f[0] = <<>> /\ \A d \in 1 .. n : f[d] = IF Len(p[d]) > 1 THEN Append(f[d - 1], Len(p[d])) ELSE f[d - 1]
      BY <2>3, <2>4 DEF Steps
    <2>6. \A d \in 0 .. n : d # 0 => d \in 1 .. n OBVIOUS
    <2>7. SolvesD(f) BY <2>5, <2>6
    <2> QED BY <2>7
  <1>5. SolvesL(L) /\ SolvesD(D)
    <2> HIDE DEF SolvesL, SolvesD
    <2> QED BY <1>3, <1>4
  <1> HIDE DEF L, D
  <1>6. /\ L[0] = <<>> /\ \A d \in 1 .. n : L[d] = IF Len(p[d]) > 1 THEN Append(L[d - 1], d) ELSE L[d - 1]
        /\ D[0] = <<>> /\ \A d \in 1 .. n : D[d] = IF Len(p[d]) > 1 THEN Append(D[d - 1], Len(p[d])) ELSE D[d - 1]
    <2> HIDE DEF n
    <2>1. 0 \in 0 .. n /\ \A d \in 1 .. n : d \in 0 .. n /\ d # 0 BY <1>1
    <2>2. \A d \in 0 .. n : L[d] = IF d = 0 THEN <<>> ELSE IF Len(p[d]) > 1 THEN Append(L[d - 1], d) ELSE L[d - 1] BY <1>5
    <2>3. \A d \in 0 .. n : D[d] = IF d = 0 THEN <<>> ELSE IF Len(p[d]) > 1 THEN Append(D[d - 1], Len(p[d])) ELSE D[d - 1] BY <1>5
    <2> QED BY <2>1, <2>2, <2>3
  <1> DEFINE S == {m \in 0 .. n : LongInv(p, m, L[m], D[m])}
  <1>7. 0 \in S
    <2>1. LongInv(p, 0, <<>>, <<>>) BY DEF LongInv
    <2> QED BY <1>1, <1>6, <2>1
  <1>8. ASSUME NEW m \in 0 .. n, m < n, m \in S PROVE m + 1 \in S
    <2>1. m + 1 \in 1 .. n /\ m + 1 - 1 = m /\ m + 1 \in 0 .. n BY <1>1, <1>8
    <2>2. LongInv(p, m, L[m], D[m]) BY <1>8
    <2>3. CASE Len(p[m + 1]) > 1
      <3>1. LongInv(p, m + 1, Append(L[m], m + 1), Append(D[m], Len(p[m + 1]))) BY <1>8, <2>2, <2>3, LongStep
      <3> QED BY <1>6, <2>1, <2>3, <3>1
    <2>4. CASE ~(Len(p[m + 1]) > 1)
      <3>1. L[m + 1] = L[m] /\ D[m + 1] = D[m] BY <1>6, <2>1, <2>4
      <3>2. \A d \in 1 .. m + 1 : d \in 1 .. m \/ d = m + 1 BY <2>1
      <3>3. LongInv(p, m + 1, L[m], D[m])
        <4>1. \A k \in 1 .. Len(L[m]) : L[m][k] <= m + 1
          <5>1. L[m] \in Seq(1 .. Len(p)) BY <2>2 DEF LongInv
          <5>2. \A k \in 1 .. Len(L[m]) : L[m][k] \in 1 .. Len(p) BY <5>1
          <5>3. \A k \in 1 .. Len(L[m]) : L[m][k] <= m BY <2>2 DEF LongInv
          <5> QED BY <2>1, <5>2, <5>3
        <4> QED BY <2>2, <2>4, <3>2, <4>1 DEF LongInv
      <3> QED BY <2>1, <3>1, <3>3
    <2> QED BY <2>3, <2>4
  <1>9. n \in S
    <2> HIDE DEF S
    <2>1. \A m \in 0 .. n : m \in S BY <1>1, <1>7, <1>8, Climb
    <2> QED BY <1>1, <2>1
  <1> QED BY <1>2, <1>9 DEF n

\* The dimensions of the part that a subindex picks, and where a coordinate of
\* the part lies among the picked positions, as Slice has them.
PartDims(p) ==
    LET long == Values!Long(p)
        n == Len(p[long[1]])
    IN  CASE Len(long) = 0 -> <<>>
          [] Len(long) = 1 -> IF long[1] = Len(p) THEN <<1, n>> ELSE <<n, 1>>
          [] OTHER -> [k \in DOMAIN long |-> Len(p[long[k]])]
Along(p, c) ==
    [d \in DOMAIN p |-> IF Len(p[d]) = 1 THEN 0
                        ELSE IF Len(Values!Long(p)) = 1 THEN c[1] + c[2]
                        ELSE c[CHOOSE k \in DOMAIN Values!Long(p) : Values!Long(p)[k] = d]]
\* The way back: a coordinate of the part from the picked positions.
Back(p, r) ==
    LET long == Values!Long(p)
    IN  IF Len(long) = 1 THEN IF long[1] = Len(p) THEN <<0, r[long[1]]>> ELSE <<r[long[1]], 0>>
        ELSE [k \in DOMAIN long |-> r[long[k]]]

LEMMA SubFacts ==
    ASSUME NEW p \in Subs
    PROVE  /\ Sizes(p) \in Dims /\ Len(Sizes(p)) = Len(p) /\ Len(p) \in Nat \ {0} /\ DOMAIN p = 1 .. Len(p)
           /\ \A d \in 1 .. Len(p) : /\ Sizes(p)[d] = Len(p[d]) /\ Len(p[d]) \in Nat \ {0}
                                     /\ p[d] \in Seq(Nat)
  <1> DEFINE n == Len(p)
             s == [i \in 1 .. n |-> Len(p[i])]
             Pos == Nat \ {0}
  <1>1. n \in Nat \ {0} /\ DOMAIN p = 1 .. n
    <2>1. p \in Seq(Seq(Nat) \ {<<>>}) /\ p # <<>> BY DEF Subs
    <2> QED BY <2>1, EmptySeq
  <1>2. \A d \in 1 .. n : p[d] \in Seq(Nat) /\ p[d] # <<>> BY DEF Subs
  <1>3. \A d \in 1 .. n : Len(p[d]) \in Pos
    <2>1. TAKE d \in 1 .. n
    <2>2. Len(p[d]) # 0 BY <1>2, EmptySeq
    <2> QED BY <1>2, <2>2
  <1>4. s \in Seq(Pos) /\ Len(s) = n
    <2> HIDE DEF n, Pos
    <2> QED BY <1>1, <1>3, IsASeq
  <1>5. s # <<>> BY <1>1, <1>4
  <1>6. Sizes(p) = s BY <1>1 DEF Sizes
  <1> QED BY <1>1, <1>2, <1>3, <1>4, <1>5, <1>6 DEF Dims

LEMMA OverOne == \A x \in Nat \ {0} : x # 1 <=> x > 1
  OBVIOUS

LEMMA LongIs ==
    ASSUME NEW p \in Subs
    PROVE  /\ Values!Long(p) \in Seq(1 .. Len(p)) /\ Len(Values!Long(p)) \in Nat
           /\ DOMAIN Values!Long(p) = 1 .. Len(Values!Long(p))
           /\ \A k \in 1 .. Len(Values!Long(p)) : Values!Long(p)[k] \in 1 .. Len(p) /\ Len(p[Values!Long(p)[k]]) > 1
           /\ \A d \in 1 .. Len(p) : Len(p[d]) # 1 => \E k \in 1 .. Len(Values!Long(p)) : Values!Long(p)[k] = d
           /\ \A j, k \in 1 .. Len(Values!Long(p)) : j < k => Values!Long(p)[j] < Values!Long(p)[k]
           /\ \A j, k \in 1 .. Len(Values!Long(p)) : Values!Long(p)[j] = Values!Long(p)[k] => j = k
  <1> DEFINE L == Values!Long(p)
  <1>1. LongInv(p, Len(p), L, LongSizes(p)) BY LongFacts
  <1> HIDE DEF L
  <1>2. L \in Seq(1 .. Len(p)) /\ Len(L) \in Nat /\ DOMAIN L = 1 .. Len(L) BY <1>1 DEF LongInv
  <1>3. \A k \in 1 .. Len(L) : L[k] \in 1 .. Len(p) BY <1>2, ElementOfSeq
  <1>4. \A k \in 1 .. Len(L) : Len(p[L[k]]) > 1 BY <1>1 DEF LongInv
  <1>5. \A d \in 1 .. Len(p) : Len(p[d]) # 1 => \E k \in 1 .. Len(L) : L[k] = d
    <2>1. TAKE d \in 1 .. Len(p)
    <2>2. HAVE Len(p[d]) # 1
    <2>3. Len(p[d]) \in Nat \ {0} BY SubFacts
    <2>4. Len(p[d]) > 1 BY <2>2, <2>3, OverOne, Zenon
    <2> QED BY <1>1, <2>4 DEF LongInv
  <1>6. \A j, k \in 1 .. Len(L) : j < k => L[j] < L[k] BY <1>1 DEF LongInv
  <1>7. \A j, k \in 1 .. Len(L) : L[j] = L[k] => j = k
    <2>1. TAKE j, k \in 1 .. Len(L)
    <2>2. HAVE L[j] = L[k]
    <2>3. L[j] \in Int /\ L[k] \in Int BY <1>3
    <2>4. ~(j < k) /\ ~(k < j) BY <1>6, <2>2, <2>3
    <2> QED BY <2>4
  <1> QED BY <1>2, <1>3, <1>4, <1>5, <1>6, <1>7 DEF L

LEMMA PartDimsAre ==
    ASSUME NEW p \in Subs, Values!Long(p) # <<>>
    PROVE  /\ PartDims(p) \in Dims
           /\ Len(Values!Long(p)) = 1 =>
                 /\ PartDims(p) = IF Values!Long(p)[1] = Len(p) THEN <<1, Len(p[Values!Long(p)[1]])>>
                                                                ELSE <<Len(p[Values!Long(p)[1]]), 1>>
                 /\ Len(PartDims(p)) = 2
           /\ Len(Values!Long(p)) # 1 =>
                 /\ PartDims(p) = [k \in 1 .. Len(Values!Long(p)) |-> Len(p[Values!Long(p)[k]])]
                 /\ Len(PartDims(p)) = Len(Values!Long(p))
  <1> DEFINE L == Values!Long(p)
             z == Len(L)
             s == [k \in 1 .. z |-> Len(p[L[k]])]
             Pos == Nat \ {0}
  <1>1. z \in Pos /\ 1 \in 1 .. z /\ DOMAIN L = 1 .. z
    <2>1. L \in Seq(1 .. Len(p)) /\ z \in Nat /\ DOMAIN L = 1 .. z BY LongIs
    <2>2. z # 0 BY <2>1, EmptySeq
    <2> QED BY <2>1, <2>2
  <1>2. \A k \in 1 .. z : Len(p[L[k]]) \in Pos
    <2>1. \A k \in 1 .. z : L[k] \in 1 .. Len(p) BY LongIs
    <2> HIDE DEF L, z
    <2> QED BY <2>1, SubFacts
  <1>3. CASE z = 1
    <2>1. PartDims(p) = IF L[1] = Len(p) THEN <<1, Len(p[L[1]])>> ELSE <<Len(p[L[1]]), 1>>
      BY <1>3 DEF PartDims
    <2>2. 1 \in Pos /\ Len(p[L[1]]) \in Pos BY <1>1, <1>2
    <2> HIDE DEF L, z, Pos
    <2>3. PartDims(p) \in Seq(Pos) /\ Len(PartDims(p)) = 2 BY <2>1, <2>2
    <2>4. PartDims(p) # <<>> BY <2>3
    <2> QED BY <1>3, <2>1, <2>3, <2>4 DEF Dims, L, z, Pos
  <1>4. CASE z # 1
    <2>1. PartDims(p) = s BY <1>1, <1>4 DEF PartDims
    <2> HIDE DEF L, z
    <2>2. s \in Seq(Pos) /\ Len(s) = z
      <3>1. z \in Nat BY <1>1
      <3> HIDE DEF Pos
      <3> QED BY <1>2, <3>1, IsASeq
    <2>3. s # <<>> BY <1>1, <2>2
    <2> QED BY <1>4, <2>1, <2>2, <2>3 DEF Dims, L, z
  <1> QED BY <1>3, <1>4

\* Where Along takes a coordinate, dimension by dimension.
LEMMA AlongAt ==
    ASSUME NEW p \in Subs, NEW c
    PROVE  /\ DOMAIN Along(p, c) = 1 .. Len(p)
           /\ Along(p, c) = [d \in 1 .. Len(p) |-> Along(p, c)[d]]
           /\ \A d \in 1 .. Len(p) : Len(p[d]) = 1 => Along(p, c)[d] = 0
           /\ Len(Values!Long(p)) = 1 => Along(p, c)[Values!Long(p)[1]] = c[1] + c[2]
           /\ Len(Values!Long(p)) # 1 => \A k \in 1 .. Len(Values!Long(p)) : Along(p, c)[Values!Long(p)[k]] = c[k]
  <1> DEFINE L == Values!Long(p)
  <1>1. DOMAIN p = 1 .. Len(p) BY SubFacts
  <1>2. /\ DOMAIN L = 1 .. Len(L)
        /\ \A k \in 1 .. Len(L) : L[k] \in 1 .. Len(p) /\ Len(p[L[k]]) > 1
        /\ \A j, k \in 1 .. Len(L) : L[j] = L[k] => j = k
    BY LongIs
  <1> HIDE DEF L
  <1>3. Along(p, c) = [d \in 1 .. Len(p) |-> IF Len(p[d]) = 1 THEN 0 ELSE IF Len(L) = 1 THEN c[1] + c[2]
                                             ELSE c[CHOOSE k \in DOMAIN L : L[k] = d]]
    BY <1>1 DEF Along, L
  <1>4. \A d \in 1 .. Len(p) : Len(p[d]) = 1 => Along(p, c)[d] = 0 BY <1>3
  <1>5. \A k \in 1 .. Len(L) : Len(p[L[k]]) # 1
    <2>1. \A k \in 1 .. Len(L) : Len(p[L[k]]) \in Nat \ {0} BY <1>2, SubFacts
    <2> QED BY <1>2, <2>1, OverOne, Zenon
  <1>6. Len(L) = 1 => Along(p, c)[L[1]] = c[1] + c[2]
    <2>1. SUFFICES ASSUME Len(L) = 1 PROVE Along(p, c)[L[1]] = c[1] + c[2] OBVIOUS
    <2>2. 1 \in 1 .. Len(L) BY <2>1
    <2>3. L[1] \in 1 .. Len(p) /\ Len(p[L[1]]) # 1 BY <1>2, <1>5, <2>2
    <2> QED BY <1>3, <2>1, <2>3
  <1>7. ASSUME Len(L) # 1, NEW k \in 1 .. Len(L) PROVE Along(p, c)[L[k]] = c[k]
    <2>1. Along(p, c)[L[k]] = c[CHOOSE j \in DOMAIN L : L[j] = L[k]] BY <1>2, <1>3, <1>5, <1>7
    <2>2. (CHOOSE j \in DOMAIN L : L[j] = L[k]) = k BY <1>2
    <2> QED BY <2>1, <2>2
  <1> QED BY <1>3, <1>4, <1>6, <1>7 DEF L

\* With one long dimension a part is a row or a column: one of the two
\* coordinates is 0, the other one runs along that dimension.
LEMMA RowOrColumn ==
    ASSUME NEW p \in Subs, Len(Values!Long(p)) = 1, NEW c
    PROVE  c \in Coord(PartDims(p)) <=>
              /\ c \in [1 .. 2 -> Nat]
              /\ IF Values!Long(p)[1] = Len(p) THEN c[1] = 0 /\ c[2] < Len(p[Values!Long(p)[1]])
                                               ELSE c[2] = 0 /\ c[1] < Len(p[Values!Long(p)[1]])
  <1> DEFINE L == Values!Long(p)
             s == Len(p[L[1]])
             nd == PartDims(p)
  <1>1. L # <<>>
    <2>1. Len(L) = 1 OBVIOUS
    <2>2. Len(<<>>) = 0 OBVIOUS
    <2> HIDE DEF L
    <2> QED BY <2>1, <2>2
  <1>2. nd = (IF L[1] = Len(p) THEN <<1, s>> ELSE <<s, 1>>) /\ Len(nd) = 2 BY <1>1, PartDimsAre
  <1> HIDE DEF nd, L, s
  <1>3. c \in Coord(nd) <=> c \in [1 .. 2 -> Nat] /\ c[1] < nd[1] /\ c[2] < nd[2]
    <2>1. \A d \in 1 .. 2 : d = 1 \/ d = 2 OBVIOUS
    <2>2. 1 \in 1 .. 2 /\ 2 \in 1 .. 2 OBVIOUS
    <2> QED BY <1>2, <2>1, <2>2 DEF Coord
  <1>4. ASSUME c \in [1 .. 2 -> Nat] PROVE c[1] \in Nat /\ c[2] \in Nat BY <1>4
  <1>5. \A x \in Nat : x < 1 <=> x = 0 OBVIOUS
  <1>6. nd[1] = (IF L[1] = Len(p) THEN 1 ELSE s) /\ nd[2] = (IF L[1] = Len(p) THEN s ELSE 1) BY <1>2
  <1> QED BY <1>3, <1>4, <1>5, <1>6, Zenon DEF nd, L, s

LEMMA AlongThere ==
    ASSUME NEW p \in Subs, Values!Long(p) # <<>>, NEW c \in Coord(PartDims(p))
    PROVE  Along(p, c) \in Coord(Sizes(p))
  <1> DEFINE L == Values!Long(p)
             n == Len(p)
             nd == PartDims(p)
  <1>1. \A d \in 1 .. n : Sizes(p)[d] = Len(p[d]) /\ Len(p[d]) \in Nat \ {0} BY SubFacts
  <1>2. Len(Sizes(p)) = n BY SubFacts
  <1>3. Along(p, c) = [d \in 1 .. n |-> Along(p, c)[d]] BY AlongAt
  <1>4. ASSUME NEW d \in 1 .. n PROVE Along(p, c)[d] \in Nat /\ Along(p, c)[d] < Len(p[d])
    <2>1. CASE Len(p[d]) = 1
      <3>1. Along(p, c)[d] = 0 BY <2>1, AlongAt
      <3> QED BY <2>1, <3>1
    <2>2. CASE Len(p[d]) # 1
      <3>1. PICK k \in 1 .. Len(L) : L[k] = d BY <2>2, LongIs
      <3>2. CASE Len(L) = 1
        <4>1. d = L[1] BY <3>1, <3>2
        <4>2. Along(p, c)[d] = c[1] + c[2] BY <3>2, <4>1, AlongAt
        <4>3. /\ c \in [1 .. 2 -> Nat]
              /\ IF L[1] = Len(p) THEN c[1] = 0 /\ c[2] < Len(p[L[1]]) ELSE c[2] = 0 /\ c[1] < Len(p[L[1]])
          BY <3>2, RowOrColumn
        <4>4. c[1] \in Nat /\ c[2] \in Nat BY <4>3
        <4>5. \A x, y, b \in Nat : (x = 0 /\ y < b) \/ (y = 0 /\ x < b) => x + y \in Nat /\ x + y < b OBVIOUS
        <4>6. Len(p[d]) \in Nat BY <1>1
        <4> HIDE DEF L
        <4>7. (c[1] = 0 /\ c[2] < Len(p[d])) \/ (c[2] = 0 /\ c[1] < Len(p[d]))
          <5>1. CASE L[1] = n BY <4>1, <4>3, <5>1, Zenon
          <5>2. CASE L[1] # n BY <4>1, <4>3, <5>2, Zenon
          <5> QED BY <5>1, <5>2
        <4>8. c[1] + c[2] \in Nat /\ c[1] + c[2] < Len(p[d]) BY <4>4, <4>5, <4>6, <4>7, Zenon
        <4> QED BY <4>2, <4>8, Zenon
      <3>3. CASE Len(L) # 1
        <4>1. Along(p, c)[d] = c[k] BY <3>1, <3>3, AlongAt
        <4>2. nd = [j \in 1 .. Len(L) |-> Len(p[L[j]])] /\ Len(nd) = Len(L) BY <3>3, PartDimsAre
        <4>3. c[k] \in Nat /\ c[k] < nd[k] BY <3>1, <4>2 DEF Coord
        <4>4. nd[k] = Len(p[d]) BY <3>1, <4>2
        <4> QED BY <4>1, <4>3, <4>4
      <3> QED BY <3>2, <3>3
    <2> QED BY <2>1, <2>2
  <1> HIDE DEF n
  <1>5. Along(p, c) \in [1 .. n -> Nat] BY <1>3, <1>4
  <1> QED BY <1>1, <1>2, <1>4, <1>5 DEF Coord, n

\* A part has the picked positions in their order.
LEMMA AlongOrder ==
    ASSUME NEW p \in Subs, Values!Long(p) # <<>>, NEW c \in Coord(PartDims(p)), NEW e \in Coord(PartDims(p)),
           Values!Before(c, e)
    PROVE  Values!Before(Along(p, c), Along(p, e))
  <1> DEFINE L == Values!Long(p)
             n == Len(p)
             nd == PartDims(p)
             A == Along(p, c)
             B == Along(p, e)
  <1>1. SUFFICES \E d \in 1 .. n : A[d] < B[d] /\ \A k \in 1 .. d - 1 : A[k] = B[k]
    <2>1. DOMAIN A = 1 .. n BY AlongAt
    <2> QED BY <2>1 DEF Values!Before
  <1>2. \A d \in 1 .. n : Len(p[d]) = 1 => A[d] = 0 /\ B[d] = 0 BY AlongAt
  <1>3. /\ \A d \in 1 .. n : Len(p[d]) # 1 => \E k \in 1 .. Len(L) : L[k] = d
        /\ \A k \in 1 .. Len(L) : L[k] \in 1 .. n
        /\ \A j, k \in 1 .. Len(L) : j < k => L[j] < L[k]
        /\ n \in Nat /\ Len(L) \in Nat
    BY LongIs, SubFacts
  <1>4. CASE Len(L) = 1
    <2>1. A[L[1]] = c[1] + c[2] /\ B[L[1]] = e[1] + e[2] BY <1>4, AlongAt
    <2>2. /\ c \in [1 .. 2 -> Nat] /\ e \in [1 .. 2 -> Nat]
          /\ (c[1] = 0 /\ e[1] = 0) \/ (c[2] = 0 /\ e[2] = 0)
      BY <1>4, RowOrColumn
    <2>3. A[L[1]] < B[L[1]]
      <3>1. PICK d \in 1 .. 2 : c[d] < e[d] /\ \A k \in 1 .. d - 1 : c[k] = e[k] BY <2>2 DEF Values!Before
      <3>2. c[1] \in Nat /\ c[2] \in Nat /\ e[1] \in Nat /\ e[2] \in Nat BY <2>2
      <3>3. CASE d = 1
        <4>1. c[1] < e[1] BY <3>1, <3>3
        <4>2. c[2] = 0 /\ e[2] = 0 BY <2>2, <3>2, <4>1
        <4> QED BY <2>1, <3>2, <4>1, <4>2
      <3>4. CASE d = 2
        <4>1. c[2] < e[2] BY <3>1, <3>4
        <4>2. c[1] = 0 /\ e[1] = 0 BY <2>2, <3>2, <4>1
        <4> QED BY <2>1, <3>2, <4>1, <4>2
      <3> QED BY <3>3, <3>4
    <2>4. L[1] \in 1 .. n /\ \A k \in 1 .. Len(L) : L[k] = L[1] BY <1>3, <1>4
    <2> HIDE DEF L, A, B, n
    <2>5. ASSUME NEW k \in 1 .. L[1] - 1 PROVE A[k] = B[k]
      <3>1. k \in 1 .. n /\ k # L[1] BY <1>3, <2>4
      <3>2. Len(p[k]) = 1 BY <1>3, <2>4, <3>1
      <3> QED BY <1>2, <3>1, <3>2
    <2> QED BY <2>3, <2>4, <2>5
  <1>5. CASE Len(L) # 1
    <2>1. \A k \in 1 .. Len(L) : A[L[k]] = c[k] /\ B[L[k]] = e[k] BY <1>5, AlongAt
    <2>2. Len(nd) = Len(L) BY <1>5, PartDimsAre
    <2>3. c \in [1 .. Len(L) -> Nat] BY <2>2 DEF Coord
    <2>4. PICK h \in 1 .. Len(L) : c[h] < e[h] /\ \A k \in 1 .. h - 1 : c[k] = e[k] BY <2>3 DEF Values!Before
    <2> HIDE DEF L, A, B, n
    <2>5. L[h] \in 1 .. n /\ A[L[h]] < B[L[h]] BY <1>3, <2>1, <2>4
    <2>6. ASSUME NEW k \in 1 .. L[h] - 1 PROVE A[k] = B[k]
      <3>1. k \in 1 .. n /\ k < L[h] BY <1>3, <2>5
      <3>2. CASE Len(p[k]) = 1 BY <1>2, <3>1, <3>2
      <3>3. CASE Len(p[k]) # 1
        <4>1. PICK j \in 1 .. Len(L) : L[j] = k BY <1>3, <3>1, <3>3
        <4>2. ~(h < j) /\ h # j
          <5>1. L[h] \in Int /\ L[j] \in Int /\ L[j] < L[h] BY <2>5, <3>1, <4>1
          <5> QED BY <1>3, <5>1
        <4>3. j \in 1 .. h - 1 BY <1>3, <4>2
        <4> QED BY <2>1, <2>4, <4>1, <4>3
      <3> QED BY <3>2, <3>3
    <2> QED BY <2>5, <2>6
  <1> QED BY <1>4, <1>5

LEMMA BackThere ==
    ASSUME NEW p \in Subs, Values!Long(p) # <<>>, NEW r \in Coord(Sizes(p))
    PROVE  Back(p, r) \in Coord(PartDims(p)) /\ Along(p, Back(p, r)) = r
  <1> DEFINE L == Values!Long(p)
             n == Len(p)
             nd == PartDims(p)
             c == Back(p, r)
  <1>1. /\ \A d \in 1 .. n : Len(p[d]) # 1 => \E k \in 1 .. Len(L) : L[k] = d
        /\ \A k \in 1 .. Len(L) : L[k] \in 1 .. n
        /\ DOMAIN L = 1 .. Len(L)
    BY LongIs
  <1>2. r \in [1 .. n -> Nat] /\ \A d \in 1 .. n : r[d] \in Nat /\ r[d] < Len(p[d]) BY SubFacts DEF Coord
  <1>3. \A d \in 1 .. n : Len(p[d]) = 1 => r[d] = 0
    <2>1. \A x \in Nat : x < 1 => x = 0 OBVIOUS
    <2> QED BY <1>2, <2>1, Zenon
  <1>4. c = IF Len(L) = 1 THEN IF L[1] = Len(p) THEN <<0, r[L[1]]>> ELSE <<r[L[1]], 0>>
            ELSE [k \in 1 .. Len(L) |-> r[L[k]]]
    BY <1>1 DEF Back
  <1>5. /\ Along(p, c) = [d \in 1 .. n |-> Along(p, c)[d]]
        /\ \A d \in 1 .. n : Len(p[d]) = 1 => Along(p, c)[d] = 0
        /\ Len(L) = 1 => Along(p, c)[L[1]] = c[1] + c[2]
        /\ Len(L) # 1 => \A k \in 1 .. Len(L) : Along(p, c)[L[k]] = c[k]
    BY AlongAt
  <1>6. c \in Coord(nd)
    <2>1. CASE Len(L) = 1
      <3>1. L[1] \in 1 .. n BY <1>1, <2>1
      <3>2. r[L[1]] \in Nat /\ r[L[1]] < Len(p[L[1]]) BY <1>2, <3>1
      <3> HIDE DEF L, n
      <3>3. /\ c \in [1 .. 2 -> Nat]
            /\ IF L[1] = Len(p) THEN c[1] = 0 /\ c[2] = r[L[1]] ELSE c[2] = 0 /\ c[1] = r[L[1]]
        BY <1>4, <2>1, <3>2
      <3> HIDE DEF c
      <3>4. IF L[1] = Len(p) THEN c[1] = 0 /\ c[2] < Len(p[L[1]]) ELSE c[2] = 0 /\ c[1] < Len(p[L[1]])
        BY <3>2, <3>3
      <3> QED BY <2>1, <3>3, <3>4, RowOrColumn DEF L
    <2>2. CASE Len(L) # 1
      <3>1. nd = [k \in 1 .. Len(L) |-> Len(p[L[k]])] /\ Len(nd) = Len(L) BY <2>2, PartDimsAre
      <3>2. c = [k \in 1 .. Len(L) |-> r[L[k]]] BY <1>4, <2>2
      <3> HIDE DEF L, n, c, nd
      <3>3. \A k \in 1 .. Len(L) : c[k] \in Nat /\ c[k] < nd[k]
        <4>1. TAKE k \in 1 .. Len(L)
        <4>2. L[k] \in 1 .. n BY <1>1
        <4>3. r[L[k]] \in Nat /\ r[L[k]] < Len(p[L[k]]) BY <1>2, <4>2
        <4> QED BY <3>1, <3>2, <4>3
      <3> QED BY <3>1, <3>2, <3>3 DEF Coord
    <2> QED BY <2>1, <2>2
  <1>7. ASSUME NEW d \in 1 .. n PROVE Along(p, c)[d] = r[d]
    <2>1. CASE Len(p[d]) = 1 BY <1>3, <1>5, <2>1
    <2>2. CASE Len(p[d]) # 1
      <3>1. PICK k \in 1 .. Len(L) : L[k] = d BY <1>1, <2>2
      <3>2. CASE Len(L) = 1
        <4>1. d = L[1] BY <3>1, <3>2
        <4>2. r[d] \in Nat BY <1>2
        <4> HIDE DEF L, n
        <4>3. c[1] + c[2] = r[d] BY <1>4, <3>2, <4>1, <4>2
        <4> QED BY <1>5, <3>2, <4>1, <4>3
      <3>3. CASE Len(L) # 1
        <4> HIDE DEF L, n
        <4>1. c[k] = r[d] BY <1>4, <3>1, <3>3
        <4> QED BY <1>5, <3>1, <3>3, <4>1
      <3> QED BY <3>2, <3>3
    <2> QED BY <2>1, <2>2
  <1> HIDE DEF n, c, nd
  <1>8. Along(p, c) = r BY <1>2, <1>5, <1>7
  <1> QED BY <1>6, <1>8 DEF c, nd

\* The positions of a part, in the order of its vector, are the picked
\* positions in theirs: the two run side by side.
LEMMA PartsRunAlong ==
    ASSUME NEW p \in Subs, Values!Long(p) # <<>>
    PROVE  /\ size(PartDims(p)) = size(Sizes(p))
           /\ \A i \in 0 .. size(Sizes(p)) - 1 :
                 Along(p, exportSubIndex(PartDims(p), i)) = exportSubIndex(Sizes(p), i)
  <1> DEFINE nd == PartDims(p)
             S == Sizes(p)
             n == size(nd)
             m == size(S)
             C(i) == exportSubIndex(nd, i)
             R(i) == exportSubIndex(S, i)
             h == [i \in 0 .. n - 1 |-> Flat(S, Along(p, C(i)))]
             g == [i \in 0 .. m - 1 |-> Flat(nd, Back(p, R(i)))]
  <1>1. nd \in Dims /\ S \in Dims BY PartDimsAre, SubFacts
  <1>2. n \in Nat /\ m \in Nat BY <1>1, AccumFacts
  <1>3. \A i \in 0 .. n - 1 : C(i) \in Coord(nd) /\ Flat(nd, C(i)) = i BY <1>1, ExportThere
  <1>4. \A i \in 0 .. m - 1 : R(i) \in Coord(S) /\ Flat(S, R(i)) = i BY <1>1, ExportThere
  <1> HIDE DEF C, R
  <1>5. \A i \in 0 .. n - 1 : h[i] = Flat(S, Along(p, C(i))) OBVIOUS
  <1>6. \A i \in 0 .. m - 1 : g[i] = Flat(nd, Back(p, R(i))) OBVIOUS
  <1>7. \A c \in Coord(nd) : Along(p, c) \in Coord(S) BY AlongThere
  <1>8. \A r \in Coord(S) : Back(p, r) \in Coord(nd) /\ Along(p, Back(p, r)) = r BY BackThere
  <1>9. \A c, e \in Coord(nd) : Values!Before(c, e) => Values!Before(Along(p, c), Along(p, e)) BY AlongOrder
  <1>10. /\ \A c, e \in Coord(nd) : Values!Before(c, e) <=> Flat(nd, c) < Flat(nd, e)
         /\ \A c, e \in Coord(S) : Values!Before(c, e) <=> Flat(S, c) < Flat(S, e)
    BY <1>1, OrderFlat
  <1>11. /\ \A c \in Coord(nd) : Flat(nd, c) \in 0 .. n - 1 /\ C(Flat(nd, c)) = c
         /\ \A r \in Coord(S) : Flat(S, r) \in 0 .. m - 1 /\ R(Flat(S, r)) = r
    BY <1>1, FlatThere DEF C, R
  <1> HIDE DEF h, g, n, m, nd, S
  <1>12. \A i \in 0 .. n - 1 : h[i] \in 0 .. m - 1 BY <1>3, <1>5, <1>7, <1>11
  <1>13. \A i, k \in 0 .. n - 1 : i < k => h[i] < h[k] BY <1>3, <1>5, <1>7, <1>9, <1>10
  <1>14. \A i \in 0 .. m - 1 : g[i] \in 0 .. n - 1 BY <1>4, <1>6, <1>8, <1>11
  <1>15. \A i, k \in 0 .. m - 1 : i < k => g[i] < g[k]
    <2>1. TAKE i, k \in 0 .. m - 1
    <2>2. HAVE i < k
    <2> DEFINE x == Back(p, R(i))
               y == Back(p, R(k))
    <2>3. x \in Coord(nd) /\ y \in Coord(nd) /\ Along(p, x) = R(i) /\ Along(p, y) = R(k) BY <1>4, <1>8
    <2>4. g[i] = Flat(nd, x) /\ g[k] = Flat(nd, y) BY <1>6
    <2> HIDE DEF x, y
    <2>5. ~(g[k] < g[i])
      <3>1. SUFFICES ASSUME g[k] < g[i] PROVE FALSE OBVIOUS
      <3>2. Values!Before(R(k), R(i)) BY <1>9, <1>10, <2>3, <2>4, <3>1
      <3>3. k < i BY <1>4, <1>10, <3>2
      <3> QED BY <1>2, <2>2, <3>3
    <2>6. g[k] # g[i]
      <3>1. SUFFICES ASSUME g[k] = g[i] PROVE FALSE OBVIOUS
      <3>2. x = y BY <1>11, <2>3, <2>4, <3>1
      <3>3. i = k BY <1>4, <2>3, <3>2
      <3> QED BY <1>2, <2>2, <3>3
    <2>7. g[i] \in 0 .. n - 1 /\ g[k] \in 0 .. n - 1 BY <1>14
    <2> QED BY <1>2, <2>5, <2>6, <2>7
  <1>16. n <= m /\ (n = m => \A i \in 0 .. n - 1 : h[i] = i) BY <1>2, <1>12, <1>13, Squeeze
  <1>17. m <= n BY <1>2, <1>14, <1>15, Squeeze
  <1>18. n = m BY <1>2, <1>16, <1>17
  <1>19. ASSUME NEW i \in 0 .. m - 1 PROVE Along(p, C(i)) = R(i)
    <2>1. h[i] = i /\ h[i] = Flat(S, Along(p, C(i))) BY <1>5, <1>16, <1>18
    <2>2. Along(p, C(i)) \in Coord(S) BY <1>3, <1>7, <1>18
    <2> QED BY <1>11, <2>1, <2>2
  <1> QED BY <1>18, <1>19 DEF nd, S, n, m, C, R

\* Every dimension of a subindex picks one position when none is long.
LEMMA SizeOne ==
    ASSUME NEW p \in Subs
    PROVE  /\ size(Sizes(p)) = 1 <=> Values!Long(p) = <<>>
           /\ Values!Long(p) = <<>> =>
                 exportSubIndex(Sizes(p), 0) = [d \in 1 .. Len(p) |-> 0] /\ \A d \in 1 .. Len(p) : Len(p[d]) = 1
  <1> DEFINE L == Values!Long(p)
             n == Len(p)
             S == Sizes(p)
             zero == [d \in 1 .. n |-> 0]
  <1>1. S \in Dims /\ Len(S) = n /\ \A d \in 1 .. n : S[d] = Len(p[d]) /\ S[d] \in Nat \ {0} BY SubFacts
  <1>2. size(S) \in Nat \ {0} BY <1>1, AccumFacts
  <1>3. \A i \in 0 .. size(S) - 1 : exportSubIndex(S, i) \in Coord(S) /\ Flat(S, exportSubIndex(S, i)) = i
    BY <1>1, ExportThere
  <1>4. \A r \in Coord(S) : Flat(S, r) \in 0 .. size(S) - 1 /\ exportSubIndex(S, Flat(S, r)) = r
    BY <1>1, FlatThere
  <1>5. \A r : r \in Coord(S) <=> r \in [1 .. n -> Nat] /\ \A d \in 1 .. n : r[d] < S[d]
    BY <1>1 DEF Coord
  <1> HIDE DEF S, n
  <1>6. ASSUME L = <<>> PROVE \A d \in 1 .. n : Len(p[d]) = 1
    <2>1. Len(L) = 0 BY <1>6
    <2>2. \A d \in 1 .. n : Len(p[d]) # 1 => \E k \in 1 .. Len(L) : L[k] = d BY LongIs DEF n
    <2> HIDE DEF L
    <2> QED BY <2>1, <2>2
  <1>7. ASSUME L = <<>>, NEW r \in Coord(S) PROVE r = zero
    <2>1. r \in [1 .. n -> Nat] /\ \A d \in 1 .. n : r[d] < 1 BY <1>1, <1>5, <1>6, <1>7
    <2> QED BY <2>1
  <1>8. 0 \in 0 .. size(S) - 1 BY <1>2
  <1>9. ASSUME L = <<>> PROVE size(S) = 1
    <2>1. SUFFICES ASSUME size(S) # 1 PROVE FALSE OBVIOUS
    <2>2. 1 \in 0 .. size(S) - 1 BY <1>2, <2>1
    <2>3. exportSubIndex(S, 0) = zero /\ exportSubIndex(S, 1) = zero BY <1>3, <1>7, <1>8, <1>9, <2>2
    <2>4. Flat(S, zero) = 0 /\ Flat(S, zero) = 1 BY <1>3, <1>8, <2>2, <2>3
    <2> HIDE DEF zero
    <2> QED BY <2>4
  <1>10. ASSUME size(S) = 1 PROVE L = <<>>
    <2>1. SUFFICES ASSUME L # <<>> PROVE FALSE OBVIOUS
    <2>2. 1 \in 1 .. Len(L)
      <3>1. L \in Seq(1 .. Len(p)) BY LongIs
      <3> HIDE DEF L
      <3> QED BY <2>1, <3>1, EmptySeq
    <2>3. L[1] \in 1 .. n /\ Len(p[L[1]]) > 1 BY <2>2, LongIs DEF n
    <2> DEFINE one == [d \in 1 .. n |-> IF d = L[1] THEN 1 ELSE 0]
    <2>4. zero \in Coord(S)
      <3>1. zero \in [1 .. n -> Nat] /\ \A d \in 1 .. n : zero[d] < S[d] BY <1>1
      <3> QED BY <1>5, <3>1
    <2>5. one \in Coord(S)
      <3> HIDE DEF L
      <3>1. one \in [1 .. n -> Nat] /\ \A d \in 1 .. n : one[d] < S[d] BY <1>1, <2>3
      <3> QED BY <1>5, <3>1
    <2>6. zero = one
      <3> HIDE DEF zero, one
      <3>1. Flat(S, zero) = 0 /\ Flat(S, one) = 0 BY <1>4, <1>10, <2>4, <2>5
      <3> QED BY <1>4, <2>4, <2>5, <3>1
    <2>7. zero[L[1]] = 0 /\ one[L[1]] = 1
      <3> HIDE DEF L
      <3> QED BY <2>3
    <2> HIDE DEF zero, one
    <2> QED BY <2>6, <2>7
  <1>11. L = <<>> => exportSubIndex(S, 0) = zero BY <1>3, <1>7, <1>8
  <1> QED BY <1>6, <1>9, <1>10, <1>11 DEF n, S

LEMMA SubDims ==
    ASSUME NEW p \in Subs, Values!Long(p) # <<>>, NEW dims, Len(dims) = Len(p)
    PROVE  makeSubDims(dims, p, Len(Values!Long(p))) = PartDims(p)
  <1> DEFINE L == Values!Long(p)
             n == Len(p)
             D == LongSizes(p)
  <1>1. LongInv(p, n, L, D) BY LongFacts
  <1>2. /\ L \in Seq(1 .. n) /\ Len(L) \in Nat /\ DOMAIN L = 1 .. Len(L) /\ 1 \in 1 .. Len(L)
        /\ \A k \in 1 .. Len(L) : L[k] \in 1 .. n /\ Len(p[L[k]]) > 1
        /\ \A d \in 1 .. n : Len(p[d]) # 1 => \E k \in 1 .. Len(L) : L[k] = d
    <2>1. /\ L \in Seq(1 .. n) /\ Len(L) \in Nat /\ DOMAIN L = 1 .. Len(L)
          /\ \A k \in 1 .. Len(L) : L[k] \in 1 .. n /\ Len(p[L[k]]) > 1
          /\ \A d \in 1 .. n : Len(p[d]) # 1 => \E k \in 1 .. Len(L) : L[k] = d
      BY LongIs
    <2> HIDE DEF n
    <2>2. Len(L) # 0 BY <2>1, EmptySeq
    <2> HIDE DEF L
    <2>3. 1 \in 1 .. Len(L) BY <2>1, <2>2
    <2> QED BY <2>1, <2>3
  <1>3. D \in Seq(Nat) /\ Len(D) = Len(L) /\ \A k \in 1 .. Len(L) : D[k] = Len(p[L[k]]) BY <1>1 DEF LongInv
  <1>4. n \in 1 .. n /\ \A d \in 1 .. n : Len(p[d]) \in Nat \ {0} BY SubFacts
  <1>5. makeSubDims(dims, p, Len(L)) =
          IF Len(L) = 1 THEN IF Len(p[n]) = 1 THEN <<D[1], 1>> ELSE <<1, D[1]>> ELSE D
    BY DEF makeSubDims
  <1> HIDE DEF L, n, D
  <1>6. CASE Len(L) = 1
    <2>1. PartDims(p) = IF L[1] = n THEN <<1, Len(p[L[1]])>> ELSE <<Len(p[L[1]]), 1>> BY <1>6, PartDimsAre DEF L, n
    <2>2. Len(p[n]) = 1 <=> L[1] # n
      <3>1. Len(p[n]) # 1 => L[1] = n BY <1>2, <1>4, <1>6
      <3>2. Len(p[L[1]]) # 1
        <4>1. Len(p[L[1]]) \in Nat \ {0} BY <1>2, <1>4
        <4> QED BY <1>2, <4>1, OverOne, Zenon
      <3> QED BY <3>1, <3>2
    <2>3. D[1] = Len(p[L[1]]) BY <1>2, <1>3
    <2> QED BY <1>5, <1>6, <2>1, <2>2, <2>3 DEF L
  <1>7. CASE Len(L) # 1
    <2>1. PartDims(p) = [k \in 1 .. Len(L) |-> Len(p[L[k]])] BY <1>7, PartDimsAre DEF L
    <2>2. D = [k \in 1 .. Len(L) |-> D[k]] BY <1>3
    <2> QED BY <1>3, <1>5, <1>7, <2>1, <2>2 DEF L
  <1> QED BY <1>6, <1>7 DEF L

\* numDimSub counts the long dimensions.
LEMMA NumDims ==
    ASSUME NEW p \in Subs, NEW dims \in Dims, Len(dims) = Len(p), NEW idx,
           Len(idx) = 1 /\ ~IsVector(dims) => \A d \in 2 .. Len(dims) : Len(p[d]) > 1
    PROVE  numDimSub(dims, p, idx) = Len(Values!Long(p))
  <1> DEFINE L == Values!Long(p)
             n == Len(p)
             T == {i \in 1 .. n : Len(p[i]) > 1}
  <1>1. DOMAIN dims = 1 .. n /\ n \in Nat \ {0} BY AccumFacts DEF Dims
  <1>2. Cardinality(T) = Len(L)
    <2>1. /\ L \in Seq(1 .. n) /\ Len(L) \in Nat
          /\ \A k \in 1 .. Len(L) : L[k] \in T
          /\ \A d \in 1 .. n : Len(p[d]) # 1 => \E k \in 1 .. Len(L) : L[k] = d
          /\ \A j, k \in 1 .. Len(L) : L[j] = L[k] => j = k
      BY LongIs
    <2>2. \A d \in T : \E k \in 1 .. Len(L) : L[k] = d
      <3>1. TAKE d \in T
      <3>2. d \in 1 .. n /\ Len(p[d]) > 1 /\ Len(p[d]) \in Nat \ {0} BY SubFacts
      <3>3. Len(p[d]) # 1 BY <3>2, OverOne, Zenon
      <3> QED BY <2>1, <3>2, <3>3
    <2> HIDE DEF L, n, T
    <2>3. L \in [1 .. Len(L) -> T] BY <2>1
    <2> QED BY <2>1, <2>2, <2>3, Counted
  <1>3. CASE ~(Len(idx) = 1 /\ ~IsVector(dims)) BY <1>1, <1>2, <1>3 DEF numDimSub
  <1>4. CASE Len(idx) = 1 /\ ~IsVector(dims)
    <2>1. numDimSub(dims, p, idx) = n - 1 + (IF Len(p[1]) > 1 THEN 1 ELSE 0) BY <1>4 DEF numDimSub
    <2>2. \A d \in 2 .. n : Len(p[d]) > 1 BY <1>4
    <2> HIDE DEF n, L
    <2>3. CASE Len(p[1]) > 1
      <3>1. \A d \in 1 .. n : d = 1 \/ d \in 2 .. n BY <1>1
      <3>2. T = 1 .. n BY <2>2, <2>3, <3>1
      <3>3. Cardinality(1 .. n) = n BY <1>1, FS_Interval
      <3>4. n - 1 + 1 = n BY <1>1
      <3>5. numDimSub(dims, p, idx) = n - 1 + 1 BY <2>1, <2>3, Zenon
      <3> HIDE DEF T
      <3> QED BY <1>2, <3>2, <3>3, <3>4, <3>5, Zenon DEF L
    <2>4. CASE ~(Len(p[1]) > 1)
      <3>1. \A d : d \in 1 .. n <=> d = 1 \/ d \in 2 .. n BY <1>1
      <3>2. T = 2 .. n
        <4>1. ~(1 \in 2 .. n) OBVIOUS
        <4> QED BY <2>2, <2>4, <3>1, <4>1
      <3>3. Cardinality(2 .. n) = n - 1
        <4>1. Cardinality(2 .. n) = IF 2 > n THEN 0 ELSE n - 2 + 1 BY <1>1, FS_Interval
        <4> QED BY <1>1, <4>1
      <3>4. n - 1 + 0 = n - 1 BY <1>1
      <3>5. numDimSub(dims, p, idx) = n - 1 + 0 BY <2>1, <2>4, Zenon
      <3> HIDE DEF T
      <3> QED BY <1>2, <3>2, <3>3, <3>4, <3>5, Zenon DEF L
    <2> QED BY <2>3, <2>4 DEF L
  <1> QED BY <1>3, <1>4

\* The subindex of an array is what Matrices picks.
LEMMA PickIs ==
    ASSUME NEW dims \in Dims, NEW idx, DOMAIN idx = 1 .. Len(idx), Len(idx) \in 1 .. Len(dims)
    PROVE  setSubIndex(dims, idx) = Values!Pick(dims, idx)
  <1> DEFINE n == Len(dims)
             all(d) == [j \in 1 .. dims[d] |-> j - 1]
             k == IF IsVector(dims) /\ dims[1] = 1 THEN 2 ELSE 1
             first == IF Len(idx) = 1 /\ n = 2 /\ dims[1] = 1 THEN 2 ELSE 1
             entry(d) == IF d - first + 1 \in DOMAIN idx THEN idx[d - first + 1] ELSE All
             P == [d \in 1 .. n |-> IF entry(d) = All THEN all(d) ELSE entry(d)]
  <1>1. DOMAIN dims = 1 .. n /\ n \in Nat \ {0} BY AccumFacts DEF Dims
  <1>2. Values!Pick(dims, idx) = P BY <1>1 DEF Values!Pick
  <1>3. CASE Len(idx) = 1
    <2>1. k = first
      <3>1. IsVector(dims) /\ dims[1] = 1 <=> n = 2 /\ dims[1] = 1
        <4>1. n = 2 /\ dims[1] = 1 => 1 \in Range(dims)
          <5>1. n = 2 => 1 \in DOMAIN dims BY <1>1
          <5> HIDE DEF n
          <5> QED BY <5>1 DEF Range
        <4> QED BY <4>1 DEF IsVector
      <3> HIDE DEF n
      <3> QED BY <1>3, <3>1
    <2>2. setSubIndex(dims, idx) = [resetSubIndex(dims) EXCEPT ![k] = makeIndex(dims[k], idx[1])]
      BY <1>3 DEF setSubIndex
    <2>3. resetSubIndex(dims) = [i \in 1 .. n |-> all(i)] BY <1>1 DEF resetSubIndex
    <2>4. setSubIndex(dims, idx) = [d \in 1 .. n |-> IF d = k THEN makeIndex(dims[k], idx[1]) ELSE all(d)]
      <3> HIDE DEF k, n
      <3> QED BY <2>2, <2>3
    <2>5. ASSUME NEW d \in 1 .. n
          PROVE  (IF entry(d) = All THEN all(d) ELSE entry(d)) = IF d = k THEN makeIndex(dims[k], idx[1]) ELSE all(d)
      <3>1. k \in {1, 2} OBVIOUS
      <3> HIDE DEF k, n, first
      <3>2. d - first + 1 \in DOMAIN idx <=> d = k BY <1>1, <1>3, <2>1, <3>1
      <3>3. d = k => d - first + 1 = 1 BY <1>1, <2>1, <3>1
      <3> HIDE DEF all
      <3>4. CASE d = k
        <4>1. entry(d) = idx[1] BY <3>2, <3>3, <3>4
        <4> HIDE DEF entry
        <4> QED BY <3>4, <4>1 DEF makeIndex, all
      <3>5. CASE d # k
        <4>1. entry(d) = All BY <3>2, <3>5
        <4> QED BY <3>5, <4>1
      <3> QED BY <3>4, <3>5
    <2> HIDE DEF k, n, entry, all
    <2> QED BY <1>2, <2>4, <2>5
  <1>4. CASE Len(idx) # 1
    <2>1. setSubIndex(dims, idx) = [i \in 1 .. n |-> makeIndex(dims[i], IF i <= Len(idx) THEN idx[i] ELSE All)]
      BY <1>1, <1>4 DEF setSubIndex
    <2>2. first = 1 BY <1>4
    <2>3. ASSUME NEW d \in 1 .. n PROVE entry(d) = IF d <= Len(idx) THEN idx[d] ELSE All
      <3> HIDE DEF n, first
      <3>1. d - first + 1 = d /\ (d \in DOMAIN idx <=> d <= Len(idx)) BY <1>1, <2>2
      <3> QED BY <3>1
    <2> HIDE DEF n, entry
    <2>4. ASSUME NEW d \in 1 .. n
          PROVE  (IF entry(d) = All THEN all(d) ELSE entry(d)) = makeIndex(dims[d], IF d <= Len(idx) THEN idx[d] ELSE All)
      BY <2>3 DEF makeIndex
    <2> QED BY <1>2, <2>1, <2>4
  <1> QED BY <1>3, <1>4

\* A subindex of an array with these dimensions.
SubOf(dims) == {p \in Subs : Len(p) = Len(dims) /\ \A d \in 1 .. Len(p) : p[d] \in Seq(0 .. dims[d] - 1)}
At(p, r) == [d \in 1 .. Len(p) |-> p[d][r[d] + 1]]

\* What the parts of a subindex pick lies in the array.
LEMMA AtThere ==
    ASSUME NEW dims \in Dims, NEW p \in SubOf(dims), NEW r \in Coord(Sizes(p))
    PROVE  At(p, r) \in Coord(dims)
  <1> DEFINE n == Len(p)
             c == At(p, r)
  <1>1. p \in Subs /\ Len(dims) = n /\ \A d \in 1 .. n : p[d] \in Seq(0 .. dims[d] - 1) BY DEF SubOf
  <1>2. n \in Nat \ {0} /\ Len(Sizes(p)) = n /\ \A d \in 1 .. n : Sizes(p)[d] = Len(p[d]) BY <1>1, SubFacts
  <1>3. r \in [1 .. n -> Nat] /\ \A d \in 1 .. n : r[d] < Len(p[d]) BY <1>2 DEF Coord
  <1>4. \A d \in 1 .. n : dims[d] \in Nat \ {0} BY <1>1, AccumFacts
  <1> HIDE DEF n
  <1>5. ASSUME NEW d \in 1 .. n PROVE c[d] \in Nat /\ c[d] < dims[d]
    <2>1. p[d] \in Seq(0 .. dims[d] - 1) /\ dims[d] \in Nat /\ r[d] \in Nat /\ r[d] < Len(p[d]) BY <1>1, <1>3, <1>4
    <2>2. r[d] + 1 \in 1 .. Len(p[d]) BY <2>1
    <2>3. p[d][r[d] + 1] \in 0 .. dims[d] - 1 BY <2>1, <2>2, ElementOfSeq
    <2>4. c[d] = p[d][r[d] + 1] BY DEF At, n
    <2> QED BY <2>1, <2>3, <2>4
  <1>6. c = [d \in 1 .. n |-> c[d]] BY DEF At, n
  <1> HIDE DEF c
  <1>7. c \in [1 .. n -> Nat] BY <1>5, <1>6
  <1> QED BY <1>1, <1>5, <1>7 DEF Coord, c

LEMMA MapIndexIs ==
    ASSUME NEW dims \in Dims, NEW p \in SubOf(dims), NEW vec
    PROVE  LET S == Sizes(p)
               map == mapIndex(NewArray(dims, vec), p)
           IN  /\ DOMAIN map = 0 .. size(S) - 1
               /\ \A i \in 0 .. size(S) - 1 :
                     /\ exportSubIndex(S, i) \in Coord(S)
                     /\ At(p, exportSubIndex(S, i)) \in Coord(dims)
                     /\ map[i] = Flat(dims, At(p, exportSubIndex(S, i)))
                     /\ map[i] \in 0 .. size(dims) - 1
  <1> DEFINE S == Sizes(p)
             map == mapIndex(NewArray(dims, vec), p)
  <1>1. p \in Subs BY DEF SubOf
  <1>2. S \in Dims /\ DOMAIN p = 1 .. Len(p) BY <1>1, SubFacts
  <1>3. map = [i \in 0 .. size(S) - 1 |-> Flat(dims, At(p, exportSubIndex(S, i)))]
    BY <1>2 DEF mapIndex, NewArray, Flat, At
  <1>4. \A i \in 0 .. size(S) - 1 : exportSubIndex(S, i) \in Coord(S) BY <1>2, ExportThere
  <1>5. \A r \in Coord(S) : At(p, r) \in Coord(dims) BY AtThere
  <1>6. \A c \in Coord(dims) : Flat(dims, c) \in 0 .. size(dims) - 1 BY FlatThere
  <1> HIDE DEF S, map
  <1>7. DOMAIN map = 0 .. size(S) - 1 BY <1>3
  <1>8. ASSUME NEW i \in 0 .. size(S) - 1
        PROVE  /\ exportSubIndex(S, i) \in Coord(S) /\ At(p, exportSubIndex(S, i)) \in Coord(dims)
               /\ map[i] = Flat(dims, At(p, exportSubIndex(S, i))) /\ map[i] \in 0 .. size(dims) - 1
    BY <1>3, <1>4, <1>5, <1>6
  <1> QED BY <1>7, <1>8 DEF S, map

\* A position is picked when its coordinate is, in each dimension.
LEMMA Picked ==
    ASSUME NEW dims \in Dims, NEW p \in SubOf(dims), NEW vec, NEW c \in Coord(dims)
    PROVE  Flat(dims, c) \in Range(mapIndex(NewArray(dims, vec), p)) <=> \A d \in DOMAIN p : c[d] \in Values!Range(p[d])
  <1> DEFINE S == Sizes(p)
             n == Len(p)
             map == mapIndex(NewArray(dims, vec), p)
             R(i) == exportSubIndex(S, i)
  <1>1. p \in Subs /\ Len(dims) = n BY DEF SubOf
  <1>2. /\ S \in Dims /\ Len(S) = n /\ DOMAIN p = 1 .. n /\ \A d \in 1 .. n : S[d] = Len(p[d])
        /\ \A d \in 1 .. n : p[d] \in Seq(Nat)
    BY <1>1, SubFacts
  <1>3. /\ DOMAIN map = 0 .. size(S) - 1
        /\ \A i \in 0 .. size(S) - 1 : R(i) \in Coord(S) /\ At(p, R(i)) \in Coord(dims) /\ map[i] = Flat(dims, At(p, R(i)))
    BY MapIndexIs
  <1>4. \A e \in Coord(dims) : exportSubIndex(dims, Flat(dims, e)) = e BY FlatThere
  <1>5. \A r \in Coord(S) : Flat(S, r) \in 0 .. size(S) - 1 /\ R(Flat(S, r)) = r BY <1>2, FlatThere
  <1>6. \A d \in 1 .. n : Values!Range(p[d]) = {p[d][j] : j \in 1 .. Len(p[d])} BY <1>2 DEF Values!Range
  <1>7. Flat(dims, c) \in Range(map) <=> \E i \in 0 .. size(S) - 1 : Flat(dims, c) = map[i] BY <1>3 DEF Range
  <1>8. \A r \in Coord(S) : r \in [1 .. n -> Nat] /\ \A d \in 1 .. n : r[d] + 1 \in 1 .. Len(p[d])
    <2>1. TAKE r \in Coord(S)
    <2>2. r \in [1 .. n -> Nat] /\ \A d \in 1 .. n : r[d] < Len(p[d]) BY <1>2 DEF Coord
    <2>3. \A d \in 1 .. n : Len(p[d]) \in Nat BY <1>2
    <2> HIDE DEF n
    <2>4. \A x, y \in Nat : x < y => x + 1 \in 1 .. y OBVIOUS
    <2>5. \A d \in 1 .. n : r[d] \in Nat BY <2>2
    <2> QED BY <2>2, <2>3, <2>4, <2>5, Zenon
  <1> HIDE DEF S, map, R, n
  <1>9. ASSUME NEW i \in 0 .. size(S) - 1, Flat(dims, c) = map[i] PROVE \A d \in 1 .. n : c[d] \in Values!Range(p[d])
    <2>1. c = At(p, R(i)) BY <1>3, <1>4, <1>9
    <2>2. \A d \in 1 .. n : c[d] = p[d][R(i)[d] + 1] BY <2>1 DEF At, n
    <2>3. TAKE d \in 1 .. n
    <2> DEFINE j == R(i)[d] + 1
    <2>4. R(i) \in Coord(S) BY <1>3
    <2>5. j \in 1 .. Len(p[d]) /\ c[d] = p[d][j] BY <1>8, <2>2, <2>4
    <2> HIDE DEF j
    <2> QED BY <1>6, <2>5
  <1>10. ASSUME \A d \in 1 .. n : c[d] \in Values!Range(p[d]) PROVE \E i \in 0 .. size(S) - 1 : Flat(dims, c) = map[i]
    <2> DEFINE at(d) == CHOOSE j \in 1 .. Len(p[d]) : c[d] = p[d][j]
               r == [d \in 1 .. n |-> at(d) - 1]
    <2>1. \A d \in 1 .. n : at(d) \in 1 .. Len(p[d]) /\ c[d] = p[d][at(d)]
      <3>1. \A d \in 1 .. n : \E j \in 1 .. Len(p[d]) : c[d] = p[d][j] BY <1>6, <1>10
      <3> QED BY <3>1
    <2>2. \A d \in 1 .. n : r[d] = at(d) - 1 OBVIOUS
    <2> HIDE DEF at
    <2>3. ASSUME NEW d \in 1 .. n PROVE r[d] \in Nat /\ r[d] < Len(p[d]) /\ r[d] + 1 = at(d)
      <3>1. Len(p[d]) \in Nat BY <1>2
      <3> QED BY <2>1, <2>2, <3>1
    <2>4. r \in Coord(S) BY <1>2, <2>3 DEF Coord
    <2> HIDE DEF r
    <2>5. At(p, r) = c
      <3>1. At(p, r) = [d \in 1 .. n |-> c[d]] BY <2>1, <2>3 DEF At, n
      <3>2. c \in [1 .. n -> Nat] BY <1>1 DEF Coord
      <3> QED BY <3>1, <3>2
    <2>6. map[Flat(S, r)] = Flat(dims, c) BY <1>3, <1>5, <2>4, <2>5
    <2> QED BY <1>5, <2>4, <2>6
  <1> QED BY <1>2, <1>7, <1>9, <1>10 DEF map

-----------------------------------------------------------------------------
\* The cells of an array

Vector(dims) == [0 .. size(dims) - 1 -> Int]
Held(dims, vec) == [shape |-> dims, cells |-> [c \in Coord(dims) |-> vec[Flat(dims, c)]]]
NoCells(v) == [shape |-> <<>>, cells |-> [c \in {<<>>} |-> v]]

LEMMA CellsAre ==
    ASSUME NEW dims \in Dims, NEW vec, DOMAIN vec = 0 .. size(dims) - 1
    PROVE  Cells(NewArray(dims, vec)) = Held(dims, vec)
  <1> DEFINE x == NewArray(dims, vec)
             C == {exportSubIndex(dims, i) : i \in 0 .. size(dims) - 1}
  <1>1. C = Coord(dims)
    <2>1. \A i \in 0 .. size(dims) - 1 : exportSubIndex(dims, i) \in Coord(dims) BY ExportThere
    <2>2. \A c \in Coord(dims) : Flat(dims, c) \in 0 .. size(dims) - 1 /\ exportSubIndex(dims, Flat(dims, c)) = c
      BY FlatThere
    <2> QED BY <2>1, <2>2
  <1>2. x.dims = dims /\ x.numArray = vec /\ x.dimAccum = updateDimAccum(dims) BY DEF NewArray
  <1>3. Cells(x) = [shape |-> dims, cells |-> [c \in C |-> vec[getFlatIndex(c, updateDimAccum(dims))]]]
    <2> HIDE DEF x
    <2> QED BY <1>2 DEF Cells
  <1> HIDE DEF C
  <1> QED BY <1>1, <1>3 DEF Held, Flat

\* The part that Slice cuts out.
LEMMA SliceIs ==
    ASSUME NEW m, NEW idx, NEW p, p = Values!Pick(m.shape, idx), p \in Subs
    PROVE  Values!Slice(m, idx) =
             [shape |-> PartDims(p), cells |-> [c \in Values!Coords(PartDims(p)) |-> m.cells[At(p, Along(p, c))]]]
  <1> DEFINE L == Values!Long(p)
             along(c, d) == IF Len(p[d]) = 1 THEN 0
                            ELSE IF Len(L) = 1 THEN c[1] + c[2]
                            ELSE c[CHOOSE k \in DOMAIN L : L[k] = d]
  <1>1. DOMAIN p = 1 .. Len(p) BY SubFacts
  <1>2. Values!Slice(m, idx) =
          [shape |-> PartDims(p),
           cells |-> [c \in Values!Coords(PartDims(p)) |-> m.cells[[d \in DOMAIN p |-> p[d][along(c, d) + 1]]]]]
    BY DEF Values!Slice, Values!Numbered, PartDims
  <1>3. ASSUME NEW c PROVE [d \in DOMAIN p |-> p[d][along(c, d) + 1]] = At(p, Along(p, c))
    <2>1. \A d \in DOMAIN p : Along(p, c)[d] = along(c, d) BY DEF Along
    <2> HIDE DEF along
    <2> QED BY <1>1, <2>1 DEF At
  <1> HIDE DEF along
  <1>4. \A c : m.cells[[d \in DOMAIN p |-> p[d][along(c, d) + 1]]] = m.cells[At(p, Along(p, c))] BY <1>3
  <1> DEFINE C == Values!Coords(PartDims(p))
             f(c) == m.cells[[d \in DOMAIN p |-> p[d][along(c, d) + 1]]]
             g(c) == m.cells[At(p, Along(p, c))]
  <1>5. \A c : f(c) = g(c) BY <1>4
  <1>6. Values!Slice(m, idx) = [shape |-> PartDims(p), cells |-> [c \in C |-> f(c)]] BY <1>2
  <1> HIDE DEF f, g, C
  <1>7. Values!Slice(m, idx) = [shape |-> PartDims(p), cells |-> [c \in C |-> g(c)]] BY <1>5, <1>6
  <1> QED BY <1>7 DEF g, C

\* A part with more than one cell: the vector that subIndexing fills holds the
\* cells of the slice.
LEMMA PartHeld ==
    ASSUME NEW dims \in Dims, NEW vec \in Vector(dims), NEW p \in SubOf(dims), Values!Long(p) # <<>>, NEW idx,
           p = Values!Pick(dims, idx), NEW map, map = mapIndex(NewArray(dims, vec), p)
    PROVE  LET elem == [i \in DOMAIN map |-> vec[map[i]]]
           IN  /\ PartDims(p) \in Dims /\ elem \in Vector(PartDims(p))
               /\ Held(PartDims(p), elem) = Values!Slice(Held(dims, vec), idx)
  <1> DEFINE nd == PartDims(p)
             S == Sizes(p)
             elem == [i \in DOMAIN map |-> vec[map[i]]]
  <1>1. p \in Subs /\ nd \in Dims BY PartDimsAre DEF SubOf
  <1>2. /\ size(nd) = size(S)
        /\ \A i \in 0 .. size(S) - 1 : Along(p, exportSubIndex(nd, i)) = exportSubIndex(S, i)
    BY <1>1, PartsRunAlong
  <1>3. /\ DOMAIN map = 0 .. size(S) - 1
        /\ \A i \in 0 .. size(S) - 1 : /\ At(p, exportSubIndex(S, i)) \in Coord(dims)
                                       /\ map[i] = Flat(dims, At(p, exportSubIndex(S, i)))
                                       /\ map[i] \in 0 .. size(dims) - 1
    BY MapIndexIs
  <1>4. \A c \in Coord(nd) : Flat(nd, c) \in 0 .. size(nd) - 1 /\ exportSubIndex(nd, Flat(nd, c)) = c BY <1>1, FlatThere
  <1>5. Values!Coords(nd) = Coord(nd) BY <1>1, CoordsAre
  <1>6. Values!Slice(Held(dims, vec), idx) =
          [shape |-> nd, cells |-> [c \in Coord(nd) |-> Held(dims, vec).cells[At(p, Along(p, c))]]]
    <2>1. Held(dims, vec).shape = dims BY DEF Held
    <2> HIDE DEF nd
    <2> QED BY <1>1, <1>5, <2>1, SliceIs DEF nd
  <1> HIDE DEF nd, S
  <1>7. elem \in Vector(nd)
    <2>1. \A i \in 0 .. size(S) - 1 : vec[map[i]] \in Int BY <1>3 DEF Vector
    <2> QED BY <1>2, <1>3, <2>1 DEF Vector
  <1>8. ASSUME NEW c \in Coord(nd) PROVE elem[Flat(nd, c)] = Held(dims, vec).cells[At(p, Along(p, c))]
    <2> DEFINE i == Flat(nd, c)
    <2>1. i \in 0 .. size(S) - 1 /\ Along(p, c) = exportSubIndex(S, i) BY <1>2, <1>4
    <2> HIDE DEF i
    <2>2. At(p, Along(p, c)) \in Coord(dims) /\ map[i] = Flat(dims, At(p, Along(p, c))) BY <1>3, <2>1
    <2>3. elem[i] = vec[map[i]] BY <1>3, <2>1
    <2>4. Held(dims, vec).cells[At(p, Along(p, c))] = vec[Flat(dims, At(p, Along(p, c)))] BY <2>2 DEF Held
    <2> QED BY <2>2, <2>3, <2>4 DEF i
  <1> HIDE DEF elem
  <1>9. Held(nd, elem) = Values!Slice(Held(dims, vec), idx) BY <1>6, <1>8 DEF Held
  <1> QED BY <1>1, <1>7, <1>9 DEF nd, elem

\* A part of one cell: a number.
LEMMA CellHeld ==
    ASSUME NEW dims \in Dims, NEW vec \in Vector(dims), NEW p \in SubOf(dims), Values!Long(p) = <<>>, NEW idx,
           p = Values!Pick(dims, idx), NEW map, map = mapIndex(NewArray(dims, vec), p)
    PROVE  DOMAIN map = 0 .. 0 /\ NoCells(vec[map[0]]) = Values!Slice(Held(dims, vec), idx)
  <1> DEFINE S == Sizes(p)
             zero == [d \in 1 .. Len(p) |-> 0]
  <1>1. p \in Subs BY DEF SubOf
  <1>2. size(S) = 1 /\ exportSubIndex(S, 0) = zero /\ \A d \in 1 .. Len(p) : Len(p[d]) = 1 BY <1>1, SizeOne
  <1>3. 0 \in 0 .. size(S) - 1 /\ 0 .. size(S) - 1 = 0 .. 0
    <2> HIDE DEF S
    <2> QED BY <1>2
  <1>4. DOMAIN map = 0 .. size(S) - 1 /\ At(p, zero) \in Coord(dims) /\ map[0] = Flat(dims, At(p, zero))
    <2>1. /\ DOMAIN map = 0 .. size(S) - 1
          /\ \A i \in 0 .. size(S) - 1 : /\ At(p, exportSubIndex(S, i)) \in Coord(dims)
                                         /\ map[i] = Flat(dims, At(p, exportSubIndex(S, i)))
      BY MapIndexIs
    <2> HIDE DEF S, zero
    <2> QED BY <1>2, <1>3, <2>1
  <1>5. PartDims(p) = <<>> BY DEF PartDims
  <1>6. Values!Coords(<<>>) = {<<>>} BY DEF Values!Coords
  <1>7. Along(p, <<>>) = zero
    <2>1. DOMAIN p = 1 .. Len(p) BY <1>1, SubFacts
    <2> QED BY <1>2, <2>1 DEF Along
  <1>8. Held(dims, vec).shape = dims /\ Held(dims, vec).cells[At(p, zero)] = vec[map[0]] BY <1>4 DEF Held
  <1>9. Values!Slice(Held(dims, vec), idx) =
          [shape |-> <<>>, cells |-> [c \in {<<>>} |-> Held(dims, vec).cells[At(p, Along(p, c))]]]
    <2> DEFINE m == Held(dims, vec)
    <2>1. p = Values!Pick(m.shape, idx) BY <1>8
    <2> HIDE DEF m
    <2>2. Values!Slice(m, idx) =
             [shape |-> PartDims(p), cells |-> [c \in Values!Coords(PartDims(p)) |-> m.cells[At(p, Along(p, c))]]]
      BY <1>1, <2>1, SliceIs
    <2> QED BY <1>5, <1>6, <2>2 DEF m
  <1> HIDE DEF zero
  <1> QED BY <1>3, <1>4, <1>7, <1>8, <1>9 DEF NoCells

LEMMA AssignHeld ==
    ASSUME NEW dims \in Dims, NEW vec \in Vector(dims), NEW p \in SubOf(dims), NEW v \in Int, NEW new,
           new = [i \in DOMAIN vec |-> IF i \in Range(mapIndex(NewArray(dims, vec), p)) THEN v ELSE vec[i]]
    PROVE  /\ new \in Vector(dims)
           /\ Held(dims, new) =
                [shape |-> dims,
                 cells |-> [c \in Coord(dims) |-> IF \A d \in DOMAIN p : c[d] \in Values!Range(p[d])
                                                  THEN v ELSE Held(dims, vec).cells[c]]]
  <1> DEFINE map == mapIndex(NewArray(dims, vec), p)
  <1>1. \A c \in Coord(dims) : Flat(dims, c) \in Range(map) <=> \A d \in DOMAIN p : c[d] \in Values!Range(p[d])
    BY Picked
  <1>2. \A c \in Coord(dims) : Flat(dims, c) \in 0 .. size(dims) - 1 BY FlatThere
  <1> HIDE DEF map
  <1>3. new \in Vector(dims) BY DEF Vector
  <1>4. DOMAIN vec = 0 .. size(dims) - 1 BY DEF Vector
  <1>5. \A c \in Coord(dims) : new[Flat(dims, c)] = IF \A d \in DOMAIN p : c[d] \in Values!Range(p[d])
                                                    THEN v ELSE Held(dims, vec).cells[c]
    BY <1>1, <1>2, <1>4 DEF Held, map
  <1> QED BY <1>3, <1>5 DEF Held

\* Two coordinates of the part that a subindex picks are two positions, when no
\* position is picked twice.
LEMMA NoneTwice ==
    ASSUME NEW dims \in Dims, NEW vec, NEW p \in SubOf(dims), IsInjective(mapIndex(NewArray(dims, vec), p))
    PROVE  /\ \A r, e \in Coord(Sizes(p)) : At(p, r) = At(p, e) => r = e
           /\ \A d \in DOMAIN p : Values!IsInjective(p[d])
  <1> DEFINE S == Sizes(p)
             n == Len(p)
             map == mapIndex(NewArray(dims, vec), p)
             R(i) == exportSubIndex(S, i)
  <1>1. p \in Subs BY DEF SubOf
  <1>2. /\ S \in Dims /\ Len(S) = n /\ DOMAIN p = 1 .. n
        /\ \A d \in 1 .. n : S[d] = Len(p[d]) /\ S[d] \in Nat \ {0} /\ DOMAIN p[d] = 1 .. Len(p[d])
    BY <1>1, SubFacts
  <1>3. DOMAIN map = 0 .. size(S) - 1 /\ \A i \in 0 .. size(S) - 1 : map[i] = Flat(dims, At(p, R(i))) BY MapIndexIs
  <1>4. \A r \in Coord(S) : Flat(S, r) \in 0 .. size(S) - 1 /\ R(Flat(S, r)) = r BY <1>2, FlatThere
  <1>5. \A i, k \in 0 .. size(S) - 1 : map[i] = map[k] => i = k BY <1>3 DEF IsInjective
  <1> HIDE DEF S, map, R, n
  <1>6. ASSUME NEW r \in Coord(S), NEW e \in Coord(S), At(p, r) = At(p, e) PROVE r = e
    <2>1. Flat(S, r) = Flat(S, e) BY <1>3, <1>4, <1>5, <1>6
    <2> QED BY <1>4, <2>1
  <1>7. ASSUME NEW d \in 1 .. n, NEW x \in 1 .. Len(p[d]), NEW y \in 1 .. Len(p[d]), p[d][x] = p[d][y]
        PROVE  x = y
    <2> DEFINE r == [k \in 1 .. n |-> IF k = d THEN x - 1 ELSE 0]
               e == [k \in 1 .. n |-> IF k = d THEN y - 1 ELSE 0]
    <2>1. x \in Nat /\ y \in Nat /\ x - 1 \in Nat /\ y - 1 \in Nat /\ x - 1 < S[d] /\ y - 1 < S[d]
          /\ x - 1 + 1 = x /\ y - 1 + 1 = y
      <3>1. S[d] = Len(p[d]) /\ S[d] \in Nat BY <1>2
      <3> QED BY <3>1
    <2>2. r \in Coord(S) /\ e \in Coord(S)
      <3>1. \A k \in 1 .. n : 0 \in Nat /\ 0 < S[k] BY <1>2
      <3>2. \A k \in 1 .. n : r[k] \in Nat /\ r[k] < S[k] BY <2>1, <3>1
      <3>3. \A k \in 1 .. n : e[k] \in Nat /\ e[k] < S[k] BY <2>1, <3>1
      <3> QED BY <1>2, <3>2, <3>3 DEF Coord
    <2>3. \A k \in 1 .. n : p[k][r[k] + 1] = p[k][e[k] + 1] BY <1>7, <2>1
    <2>4. r[d] = x - 1 /\ e[d] = y - 1 OBVIOUS
    <2> HIDE DEF r, e
    <2>5. At(p, r) = At(p, e) BY <2>3 DEF At, n
    <2>6. r = e BY <1>6, <2>2, <2>5
    <2> QED BY <2>1, <2>4, <2>6
  <1>8. \A d \in DOMAIN p : Values!IsInjective(p[d]) BY <1>2, <1>7 DEF Values!IsInjective
  <1> QED BY <1>6, <1>8 DEF S

\* The vector after an assignPlus.
Summed(vec, right, map) ==
    [i \in DOMAIN vec |-> IF i \in Range(map) THEN vec[i] + right[CHOOSE k \in DOMAIN right : map[k] = i] ELSE vec[i]]

LEMMA AddHeld ==
    ASSUME NEW dims \in Dims, NEW vec \in Vector(dims), NEW p \in SubOf(dims),
           NEW right \in Vector(Sizes(p)), NEW map, map = mapIndex(NewArray(dims, vec), p), IsInjective(map), NEW new,
           new = Summed(vec, right, map)
    PROVE  /\ new \in Vector(dims)
           /\ Held(dims, new) =
                [shape |-> dims,
                 cells |-> [c \in Coord(dims) |->
                              Held(dims, vec).cells[c] + Values!Added(Held(Sizes(p), right), p, c)]]
  <1> DEFINE S == Sizes(p)
             n == Len(p)
             R(i) == exportSubIndex(S, i)
             m == Held(S, right)
             at(c) == {e \in Values!Coords(m.shape) : \A d \in DOMAIN p : p[d][e[d] + 1] = c[d]}
  <1>1. p \in Subs /\ Len(dims) = n BY DEF SubOf
  <1>2. S \in Dims /\ DOMAIN p = 1 .. n BY <1>1, SubFacts
  <1>3. /\ DOMAIN map = 0 .. size(S) - 1
        /\ \A i \in 0 .. size(S) - 1 : R(i) \in Coord(S) /\ map[i] = Flat(dims, At(p, R(i))) /\ At(p, R(i)) \in Coord(dims)
    BY MapIndexIs
  <1>4. \A c \in Coord(dims) : Flat(dims, c) \in 0 .. size(dims) - 1 /\ exportSubIndex(dims, Flat(dims, c)) = c
    BY FlatThere
  <1>5. \A r \in Coord(S) : Flat(S, r) \in 0 .. size(S) - 1 /\ R(Flat(S, r)) = r BY <1>2, FlatThere
  <1>6. \A r, e \in Coord(S) : At(p, r) = At(p, e) => r = e BY NoneTwice
  <1>7. DOMAIN vec = 0 .. size(dims) - 1 /\ DOMAIN right = 0 .. size(S) - 1
        /\ (\A i \in 0 .. size(dims) - 1 : vec[i] \in Int) /\ \A i \in 0 .. size(S) - 1 : right[i] \in Int
    BY DEF Vector
  <1>8. \A c \in Coord(dims) : c = [d \in 1 .. n |-> c[d]] BY <1>1 DEF Coord
  <1> HIDE DEF S, R, n
  <1>9. \A i : i \in Range(map) <=> \E k \in 0 .. size(S) - 1 : map[k] = i BY <1>3 DEF Range
  <1>10. \A i, k \in 0 .. size(S) - 1 : map[i] = map[k] => i = k BY <1>3 DEF IsInjective
  <1>11. \A e \in Coord(S), c \in Coord(dims) : At(p, e) = c <=> \A d \in DOMAIN p : p[d][e[d] + 1] = c[d]
    <2>1. TAKE e \in Coord(S), c \in Coord(dims)
    <2>2. At(p, e) = [d \in 1 .. n |-> p[d][e[d] + 1]] BY DEF At, n
    <2>3. c = [d \in 1 .. n |-> c[d]] BY <1>8
    <2>4. \A d \in 1 .. n : At(p, e)[d] = p[d][e[d] + 1] BY <2>2
    <2>5. ASSUME \A d \in 1 .. n : p[d][e[d] + 1] = c[d] PROVE At(p, e) = c
      <3>1. At(p, e) = [d \in 1 .. n |-> c[d]] BY <2>2, <2>5
      <3> QED BY <2>3, <3>1
    <2> QED BY <1>2, <2>4, <2>5
  <1>12. ASSUME NEW c \in Coord(dims)
         PROVE  /\ new[Flat(dims, c)] \in Int
                /\ new[Flat(dims, c)] = Held(dims, vec).cells[c] + Values!Added(m, p, c)
    <2> DEFINE i == Flat(dims, c)
    <2>1. i \in 0 .. size(dims) - 1 /\ exportSubIndex(dims, i) = c BY <1>4
    <2>2. vec[i] = Held(dims, vec).cells[c] /\ vec[i] \in Int BY <1>7, <2>1 DEF Held
    <2>3. at(c) = {e \in Coord(S) : At(p, e) = c}
      <3>1. Values!Coords(m.shape) = Coord(S) BY <1>2, CoordsAre DEF Held
      <3> QED BY <1>11, <3>1
    <2>4. Values!Added(m, p, c) = IF at(c) = {} THEN 0 ELSE m.cells[CHOOSE e \in at(c) : TRUE] BY DEF Values!Added
    <2> HIDE DEF i, at
    <2>5. CASE i \in Range(map)
      <3>1. PICK k \in 0 .. size(S) - 1 : map[k] = i BY <1>9, <2>5
      <3>2. (CHOOSE x \in DOMAIN right : map[x] = i) = k BY <1>7, <1>10, <3>1
      <3>3. new[i] = vec[i] + right[k] BY <1>7, <2>1, <2>5, <3>2 DEF Summed
      <3>4. At(p, R(k)) = c /\ R(k) \in Coord(S) BY <1>3, <1>4, <2>1, <3>1
      <3>5. (CHOOSE e \in at(c) : TRUE) = R(k) /\ at(c) # {} BY <1>6, <2>3, <3>4
      <3>6. Flat(S, R(k)) = k BY <1>2, <3>1, ExportThere DEF S, R
      <3>7. m.cells[R(k)] = right[k] BY <3>4, <3>6 DEF Held
      <3>8. right[k] \in Int BY <1>7, <3>1
      <3>9. new[i] \in Int BY <2>2, <3>3, <3>8
      <3> QED BY <2>2, <2>4, <3>3, <3>5, <3>7, <3>9, Zenon DEF i
    <2>6. CASE i \notin Range(map)
      <3>1. new[i] = vec[i] BY <1>7, <2>1, <2>6 DEF Summed
      <3>2. at(c) = {}
        <4>1. SUFFICES ASSUME NEW e \in Coord(S), At(p, e) = c PROVE FALSE BY <2>3
        <4>2. map[Flat(S, e)] = i BY <1>3, <1>5, <4>1 DEF i
        <4> QED BY <1>5, <1>9, <2>6, <4>1, <4>2
      <3>3. vec[i] + 0 = vec[i] BY <2>2
      <3> QED BY <2>2, <2>4, <3>1, <3>2, <3>3, Zenon DEF i
    <2> QED BY <2>5, <2>6
  <1> HIDE DEF at, m
  <1>13. new \in Vector(dims)
    <2>1. \A i \in 0 .. size(dims) - 1 : new[i] \in Int
      <3>1. TAKE i \in 0 .. size(dims) - 1
      <3>2. exportSubIndex(dims, i) \in Coord(dims) /\ Flat(dims, exportSubIndex(dims, i)) = i BY ExportThere
      <3> QED BY <1>12, <3>2
    <2>2. new = [i \in 0 .. size(dims) - 1 |-> new[i]] BY <1>7 DEF Summed
    <2> QED BY <2>1, <2>2 DEF Vector
  <1>14. Held(dims, new) = [shape |-> dims,
                            cells |-> [c \in Coord(dims) |-> Held(dims, vec).cells[c] + Values!Added(m, p, c)]]
    BY <1>12 DEF Held
  <1> QED BY <1>13, <1>14 DEF S, m

\* Swapping the first two dimensions.
LEMMA SwapIs ==
    ASSUME NEW dims \in Dims, Len(dims) >= 2
    PROVE  /\ Swap(dims) \in Dims /\ Len(Swap(dims)) = Len(dims)
           /\ \A c \in Coord(dims) : Swap(c) \in Coord(Swap(dims)) /\ Swap(Swap(c)) = c
           /\ \A c \in Coord(Swap(dims)) : Swap(c) \in Coord(dims) /\ Swap(Swap(c)) = c
           /\ size(Swap(dims)) = size(dims)
  <1> DEFINE n == Len(dims)
             dt == Swap(dims)
             Pos == Nat \ {0}
  <1>1. n \in Nat /\ n >= 2 /\ dims \in [1 .. n -> Pos] /\ 1 \in 1 .. n /\ 2 \in 1 .. n
    <2>1. dims \in Seq(Pos) BY DEF Dims
    <2>2. dims = [d \in 1 .. n |-> dims[d]] /\ n \in Nat BY <2>1
    <2>3. \A d \in 1 .. n : dims[d] \in Pos BY <2>1
    <2> QED BY <2>2, <2>3
  <1> HIDE DEF n
  <1>2. \A x \in [1 .. n -> Nat] : /\ Swap(x) = [d \in 1 .. n |-> IF d = 1 THEN x[2] ELSE IF d = 2 THEN x[1] ELSE x[d]]
    BY <1>1 DEF Swap
  <1>3. dt = [d \in 1 .. n |-> IF d = 1 THEN dims[2] ELSE IF d = 2 THEN dims[1] ELSE dims[d]]
    BY <1>1 DEF Swap
  <1>4. dt \in [1 .. n -> Pos] BY <1>1, <1>3
  <1>5. dt \in Dims /\ Len(dt) = n
    <2> HIDE DEF Pos, dt
    <2>1. dt = [d \in 1 .. n |-> dt[d]] /\ \A d \in 1 .. n : dt[d] \in Pos BY <1>4
    <2> DEFINE s == [d \in 1 .. n |-> dt[d]]
    <2>2. s \in Seq(Pos) /\ Len(s) = n BY <1>1, <2>1, IsASeq
    <2>3. dt \in Seq(Pos) /\ Len(dt) = n BY <2>1, <2>2
    <2>4. dt # <<>> BY <1>1, <2>3
    <2> QED BY <2>3, <2>4 DEF Dims, Pos
  <1> HIDE DEF dt, Pos
  <1>6. \A d \in 1 .. n : dt[d] = IF d = 1 THEN dims[2] ELSE IF d = 2 THEN dims[1] ELSE dims[d] BY <1>3
  <1>7. \A x \in [1 .. n -> Nat] : /\ Swap(x) \in [1 .. n -> Nat] /\ Swap(Swap(x)) = x
    <2>1. TAKE x \in [1 .. n -> Nat]
    <2> DEFINE y == Swap(x)
    <2>2. y = [d \in 1 .. n |-> IF d = 1 THEN x[2] ELSE IF d = 2 THEN x[1] ELSE x[d]] BY <1>2
    <2>3. y \in [1 .. n -> Nat] BY <1>1, <2>2
    <2>4. Swap(y) = [d \in 1 .. n |-> IF d = 1 THEN y[2] ELSE IF d = 2 THEN y[1] ELSE y[d]] BY <1>2, <2>3
    <2> HIDE DEF y
    <2>5. Swap(y) = x BY <1>1, <2>2, <2>4
    <2> QED BY <2>3, <2>5 DEF y
  <1>8. \A c : c \in Coord(dims) <=> c \in [1 .. n -> Nat] /\ \A d \in 1 .. n : c[d] < dims[d] BY DEF Coord, n
  <1>9. \A c : c \in Coord(dt) <=> c \in [1 .. n -> Nat] /\ \A d \in 1 .. n : c[d] < dt[d] BY <1>5 DEF Coord
  <1>10. ASSUME NEW c \in Coord(dims) PROVE Swap(c) \in Coord(dt) /\ Swap(Swap(c)) = c
    <2>1. c \in [1 .. n -> Nat] /\ \A d \in 1 .. n : c[d] < dims[d] BY <1>8
    <2>2. \A d \in 1 .. n : Swap(c)[d] = IF d = 1 THEN c[2] ELSE IF d = 2 THEN c[1] ELSE c[d] BY <1>2, <2>1
    <2>3. \A d \in 1 .. n : Swap(c)[d] < dt[d] BY <1>1, <1>6, <2>1, <2>2
    <2> QED BY <1>7, <1>9, <2>1, <2>3
  <1>11. ASSUME NEW c \in Coord(dt) PROVE Swap(c) \in Coord(dims) /\ Swap(Swap(c)) = c
    <2>1. c \in [1 .. n -> Nat] /\ \A d \in 1 .. n : c[d] < dt[d] BY <1>9
    <2>2. \A d \in 1 .. n : Swap(c)[d] = IF d = 1 THEN c[2] ELSE IF d = 2 THEN c[1] ELSE c[d] BY <1>2, <2>1
    <2>3. \A d \in 1 .. n : Swap(c)[d] < dims[d] BY <1>1, <1>6, <2>1, <2>2
    <2> QED BY <1>7, <1>8, <2>1, <2>3
  <1>12. size(dt) = size(dims)
    <2> DEFINE m == size(dims)
               F == [x \in 1 .. m |-> Swap(exportSubIndex(dims, x - 1))]
    <2>1. m \in Nat /\ size(dt) \in Nat BY <1>5, AccumFacts
    <2>2. \A x \in 1 .. m : exportSubIndex(dims, x - 1) \in Coord(dims) /\ Flat(dims, exportSubIndex(dims, x - 1)) = x - 1
      <3>1. \A x \in 1 .. m : x - 1 \in 0 .. m - 1 BY <2>1
      <3> QED BY <3>1, ExportThere
    <2>3. \A c \in Coord(dims) : Flat(dims, c) \in 0 .. m - 1 /\ exportSubIndex(dims, Flat(dims, c)) = c BY FlatThere
    <2>4. \A x \in 1 .. m : F[x] = Swap(exportSubIndex(dims, x - 1)) OBVIOUS
    <2> HIDE DEF m
    <2>5. F \in [1 .. m -> Coord(dt)] BY <1>10, <2>2
    <2> HIDE DEF F
    <2>6. ASSUME NEW x \in 1 .. m, NEW y \in 1 .. m, F[x] = F[y] PROVE x = y
      <3>1. exportSubIndex(dims, x - 1) = exportSubIndex(dims, y - 1) BY <1>10, <2>2, <2>4, <2>6
      <3>2. x - 1 = y - 1 BY <2>2, <3>1
      <3> QED BY <2>1, <3>2
    <2>7. ASSUME NEW t \in Coord(dt) PROVE \E x \in 1 .. m : F[x] = t
      <3> DEFINE x == Flat(dims, Swap(t)) + 1
      <3>1. Swap(t) \in Coord(dims) /\ Swap(Swap(t)) = t BY <1>11
      <3>2. x \in 1 .. m /\ x - 1 = Flat(dims, Swap(t)) BY <2>1, <2>3, <3>1
      <3> HIDE DEF x
      <3>3. F[x] = t BY <2>3, <2>4, <3>1, <3>2
      <3> QED BY <3>2, <3>3
    <2>8. Cardinality(Coord(dt)) = m BY <2>1, <2>5, <2>6, <2>7, Counted
    <2>9. Cardinality(Coord(dt)) = size(dt) BY <1>5, CoordsCounted, CoordsAre, SameCardinality
    <2> QED BY <2>8, <2>9 DEF m
  <1> QED BY <1>5, <1>10, <1>11, <1>12 DEF dt, n

LEMMA TransposeHeld ==
    ASSUME NEW dims \in Dims, Len(dims) >= 2, NEW vec \in Vector(dims), NEW new,
           new = [k \in DOMAIN vec |->
                    vec[getFlatIndex(Swap(exportSubIndex(Swap(dims), k)), updateDimAccum(dims))]]
    PROVE  /\ new \in Vector(Swap(dims))
           /\ Held(Swap(dims), new) =
                [shape |-> Swap(dims), cells |-> [c \in Coord(Swap(dims)) |-> Held(dims, vec).cells[Values!Swap(c)]]]
  <1> DEFINE dt == Swap(dims)
  <1>1. /\ dt \in Dims /\ size(dt) = size(dims)
        /\ \A c \in Coord(dt) : Swap(c) \in Coord(dims)
    BY SwapIs
  <1>2. new = [k \in 0 .. size(dt) - 1 |-> vec[Flat(dims, Swap(exportSubIndex(dt, k)))]]
    BY <1>1 DEF Vector, Flat
  <1>3. \A k \in 0 .. size(dt) - 1 : exportSubIndex(dt, k) \in Coord(dt) BY <1>1, ExportThere
  <1>4. \A c \in Coord(dt) : Flat(dt, c) \in 0 .. size(dt) - 1 /\ exportSubIndex(dt, Flat(dt, c)) = c BY <1>1, FlatThere
  <1>5. \A c \in Coord(dims) : Flat(dims, c) \in 0 .. size(dims) - 1 BY FlatThere
  <1> HIDE DEF dt
  <1>6. new \in Vector(dt) BY <1>1, <1>2, <1>3, <1>5 DEF Vector
  <1>7. \A c \in Coord(dt) : new[Flat(dt, c)] = vec[Flat(dims, Swap(c))] BY <1>2, <1>4
  <1>8. \A c \in Coord(dt) : Held(dims, vec).cells[Values!Swap(c)] = vec[Flat(dims, Swap(c))]
    <2>1. \A c : Values!Swap(c) = Swap(c) BY DEF Values!Swap, Swap
    <2> QED BY <1>1, <2>1 DEF Held
  <1>9. Held(dt, new) = [shape |-> dt, cells |-> [c \in Coord(dt) |-> Held(dims, vec).cells[Values!Swap(c)]]]
    BY <1>7, <1>8 DEF Held
  <1> QED BY <1>6, <1>9 DEF dt

\* After reshape the numbers are in the order of the coordinates as before.
LEMMA ReshapeHeld ==
    ASSUME NEW dims \in Dims, NEW vec \in Vector(dims), NEW newDims \in Dims, size(newDims) = size(dims)
    PROVE  /\ vec \in Vector(newDims)
           /\ Held(newDims, vec) =
                [shape |-> newDims,
                 cells |-> [c \in Coord(newDims) |->
                              Held(dims, vec).cells[CHOOSE e \in Values!Coords(dims) :
                                                      Values!Rank(dims, e) = Values!Rank(newDims, c)]]]
  <1>1. vec \in Vector(newDims) BY DEF Vector
  <1>2. ASSUME NEW c \in Coord(newDims)
        PROVE  vec[Flat(newDims, c)] =
                 Held(dims, vec).cells[CHOOSE e \in Values!Coords(dims) : Values!Rank(dims, e) = Values!Rank(newDims, c)]
    <2> DEFINE i == Flat(newDims, c)
               x == exportSubIndex(dims, i)
    <2>1. i \in 0 .. size(dims) - 1 BY FlatThere
    <2>2. x \in Coord(dims) /\ Flat(dims, x) = i BY <2>1, ExportThere
    <2>3. \A e \in Coord(dims) : Flat(dims, e) = i => e = x BY FlatThere
    <2>4. \A e \in Coord(dims) : Values!Rank(dims, e) = Flat(dims, e) BY RankIsFlat
    <2>5. Values!Rank(newDims, c) = i BY RankIsFlat
    <2>6. Values!Coords(dims) = Coord(dims) BY CoordsAre
    <2> HIDE DEF x, i
    <2>7. (CHOOSE e \in Values!Coords(dims) : Values!Rank(dims, e) = Values!Rank(newDims, c)) = x
      BY <2>2, <2>3, <2>4, <2>5, <2>6
    <2>8. Held(dims, vec).cells[x] = vec[i] BY <2>2 DEF Held
    <2> QED BY <2>7, <2>8 DEF i
  <1>3. Held(newDims, vec).cells = [c \in Coord(newDims) |-> vec[Flat(newDims, c)]] BY DEF Held
  <1> QED BY <1>1, <1>2 DEF Held

-----------------------------------------------------------------------------
\* The actions

\* An array's dimensions, steps and vector fit each other, as do those of the
\* objects that a name still leads to; a variable holds none but the last two
\* objects that a part was copied to.
IsArray(x) == \E dims \in Dims : \E vec \in Vector(dims) : x = NewArray(dims, vec)
NumInv ==
    /\ array.dims \in Shapes /\ IsArray(array)
    /\ subArray \in Arrays \cup {None} /\ variable \in Arrays \cup {None}
    /\ result \in Arrays \cup {None, Number}
    /\ subArray = None => variable = None /\ result \notin Arrays
    /\ DOMAIN object = Arrays \cup {Number}
    /\ \A o \in Arrays : o \in {subArray, variable, result} => IsArray(object[o])

LEMMA ShapesAre ==
    ASSUME ArrayAssumption, NEW dims \in Shapes
    PROVE  dims \in Dims /\ Len(dims) >= 2
  <1>1. dims \in Seq(Nat \ {0}) /\ Len(dims) >= 2 BY DEF ArrayAssumption
  <1>2. dims # <<>> BY <1>1
  <1> QED BY <1>1, <1>2 DEF Dims

LEMMA IndicesAre ==
    ASSUME ArrayAssumption, NEW dims \in Shapes, NEW idx \in Indices(dims)
    PROVE  LET p == setSubIndex(dims, idx)
           IN  /\ p \in SubOf(dims) /\ p = Values!Pick(dims, idx)
               /\ numDimSub(dims, p, idx) = Len(Values!Long(p))
  <1> DEFINE p == setSubIndex(dims, idx)
             n == Len(dims)
             T == Seq(Nat) \ {<<>>}
  <1>1. dims \in Dims /\ n >= 2 BY ShapesAre
  <1>2. n \in Nat \ {0} /\ DOMAIN dims = 1 .. n /\ \A d \in 1 .. n : dims[d] \in Nat \ {0}
    BY <1>1, AccumFacts DEF Dims
  <1>3. /\ n = 2 \/ \A d \in 1 .. n : dims[d] > 1
        /\ Len(idx) \in 1 .. n /\ DOMAIN idx = 1 .. Len(idx)
        /\ \A d \in 1 .. n : p[d] \in Seq(0 .. dims[d] - 1) \ {<<>>}
    BY <1>2 DEF ArrayAssumption
  <1>4. p = Values!Pick(dims, idx) BY <1>1, <1>3, PickIs
  <1>5. p = [d \in 1 .. n |-> p[d]]
    <2> DEFINE f(d) == Values!Pick(dims, idx)[d]
    <2>1. Values!Pick(dims, idx) = [d \in 1 .. n |-> f(d)] BY <1>2 DEF Values!Pick
    <2> HIDE DEF f, p
    <2> QED BY <1>4, <2>1 DEF f
  <1> HIDE DEF p, n
  <1>6. \A d \in 1 .. n : p[d] \in T
    <2>1. TAKE d \in 1 .. n
    <2>2. 0 .. dims[d] - 1 \subseteq Nat BY <1>2
    <2>3. Seq(0 .. dims[d] - 1) \subseteq Seq(Nat)
      <3> DEFINE D == 0 .. dims[d] - 1
      <3> HIDE DEF D
      <3>1. D \subseteq Nat BY <2>2 DEF D
      <3>2. ASSUME NEW s \in Seq(D) PROVE s \in Seq(Nat)
        <4> DEFINE m == Len(s)
                   N == Nat
        <4>1. m \in Nat /\ \A i \in 1 .. m : s[i] \in D BY ElementOfSeq
        <4>2. m \in Nat /\ \A i \in 1 .. m : s[i] \in N BY <3>1, <4>1
        <4>3. s = [i \in 1 .. m |-> s[i]] OBVIOUS
        <4> HIDE DEF m, N
        <4>4. [i \in 1 .. m |-> s[i]] \in Seq(N) BY <4>2, IsASeq
        <4> QED BY <4>3, <4>4 DEF N
      <3> QED BY <3>2 DEF D
    <2> QED BY <1>3, <2>3
  <1>7. p \in Seq(T) /\ Len(p) = n
    <2> DEFINE s == [d \in 1 .. n |-> p[d]]
    <2> HIDE DEF T
    <2>1. s \in Seq(T) /\ Len(s) = n BY <1>2, <1>6, IsASeq
    <2> QED BY <1>5, <2>1
  <1>8. p \in SubOf(dims)
    <2>1. p # <<>>
      <3> HIDE DEF T
      <3>1. Len(<<>>) = 0 OBVIOUS
      <3> QED BY <1>2, <1>7, <3>1
    <2>2. p \in Subs BY <1>7, <2>1 DEF Subs
    <2> QED BY <1>3, <1>7, <2>2 DEF SubOf, n
  <1>9. ASSUME Len(idx) = 1, ~IsVector(dims), NEW d \in 2 .. n PROVE Len(p[d]) > 1
    <2>1. p[d] = [j \in 1 .. dims[d] |-> j - 1]
      <3>1. p = [resetSubIndex(dims) EXCEPT ![1] = makeIndex(dims[1], idx[1])] BY <1>9 DEF setSubIndex, p
      <3>2. d \in 1 .. n /\ d # 1 BY <1>2
      <3>3. resetSubIndex(dims) = [i \in 1 .. n |-> [j \in 1 .. dims[i] |-> j - 1]] BY <1>2 DEF resetSubIndex
      <3> QED BY <3>1, <3>2, <3>3
    <2>2. d \in 1 .. n /\ dims[d] \in Nat \ {0} BY <1>2
    <2>3. Len(p[d]) = dims[d]
      <3> DEFINE m == dims[d]
                 s == [j \in 1 .. m |-> j - 1]
      <3>1. m \in Nat /\ \A j \in 1 .. m : j - 1 \in Int BY <2>2
      <3> HIDE DEF m
      <3>2. Len(s) = m BY <3>1, IsASeq
      <3> QED BY <2>1, <3>2 DEF m
    <2>4. dims[d] > 1
      <3>1. CASE n = 2
        <4>1. dims[d] # 1
          <5>1. 1 \notin Range(dims) BY <1>9, <3>1 DEF IsVector, n
          <5> QED BY <1>2, <2>2, <5>1 DEF Range
        <4> QED BY <2>2, <4>1
      <3> QED BY <1>3, <2>2, <3>1
    <2> QED BY <2>3, <2>4
  <1>10. numDimSub(dims, p, idx) = Len(Values!Long(p))
    <2>1. Len(idx) = 1 /\ ~IsVector(dims) => \A d \in 2 .. Len(dims) : Len(p[d]) > 1 BY <1>9 DEF n
    <2>2. p \in Subs /\ Len(dims) = Len(p) BY <1>8 DEF SubOf
    <2> QED BY <1>1, <2>1, <2>2, NumDims
  <1> QED BY <1>4, <1>8, <1>10 DEF p

LEMMA ContentsAre ==
    /\ Contents(variable) = IF variable = None THEN NoCells(0) ELSE IF variable = Number THEN NoCells(object[Number])
                            ELSE Cells(object[variable])
    /\ Contents(result)' = IF result' = None THEN NoCells(0) ELSE IF result' = Number THEN NoCells(object'[Number])
                           ELSE Cells(object'[result'])
    /\ Contents(variable)' = IF variable' = None THEN NoCells(0) ELSE IF variable' = Number THEN NoCells(object'[Number])
                             ELSE Cells(object'[variable'])
    /\ Contents(result) = IF result = None THEN NoCells(0) ELSE IF result = Number THEN NoCells(object[Number])
                          ELSE Cells(object[result])
  BY DEF Contents, NoCells, None, Number

\* The array of a state, taken apart.
LEMMA ArrayIs ==
    ASSUME ArrayAssumption, NumInv
    PROVE  \E vec \in Vector(array.dims) :
              /\ array.dims \in Dims /\ Len(array.dims) >= 2 /\ array = NewArray(array.dims, vec)
              /\ array.numArray = vec /\ DOMAIN vec = 0 .. size(array.dims) - 1
              /\ Cells(array) = Held(array.dims, vec) /\ Cells(array).shape = array.dims
  <1> PICK dims \in Dims : \E vec \in Vector(dims) : array = NewArray(dims, vec) BY DEF NumInv, IsArray
  <1>1. PICK vec \in Vector(dims) : array = NewArray(dims, vec) OBVIOUS
  <1>2. array.dims = dims /\ array.numArray = vec BY <1>1 DEF NewArray
  <1>3. Len(dims) >= 2 BY <1>2, ShapesAre DEF NumInv
  <1>4. DOMAIN vec = 0 .. size(dims) - 1 BY DEF Vector
  <1>5. Cells(array) = Held(dims, vec) BY <1>1, <1>4, CellsAre
  <1>6. Held(dims, vec).shape = dims BY DEF Held
  <1> QED BY <1>1, <1>2, <1>3, <1>4, <1>5, <1>6

\* The array of the last part, when it is used again, is held by no variable.
LEMMA Allocated ==
    ASSUME NumInv
    PROVE  tryAllocate(subArray) \in Arrays /\ tryAllocate(subArray) # variable
  BY DEF NumInv, tryAllocate, Arrays, None

\* An array given as the value of an expression, which no variable holds yet.
LEMMA Given ==
    ASSUME ArrayAssumption, NumInv, NEW dims \in Dims, NEW vec \in Vector(dims), UNCHANGED <<array, variable>>,
           Gives(tryAllocate(subArray), NewArray(dims, vec))
    PROVE  /\ NumInv' /\ Contents(result)' = Held(dims, vec)
           /\ UNCHANGED <<Cells(array), Contents(variable)>>
  <1> DEFINE to == tryAllocate(subArray)
             x == NewArray(dims, vec)
  <1>1. to \in Arrays /\ to # variable BY Allocated
  <1> HIDE DEF to, x
  <1>2. subArray' = to /\ result' = to /\ object' = [object EXCEPT ![to] = x] BY DEF Gives, to, x
  <1>3. DOMAIN object = Arrays \cup {Number} BY DEF NumInv
  <1>4. to # None /\ to # Number /\ None \notin Arrays /\ Number \notin Arrays BY <1>1 DEF Arrays, None, Number
  <1>5. object'[to] = x /\ \A o \in Arrays : o # to => object'[o] = object[o] BY <1>1, <1>2, <1>3
  <1>6. IsArray(x) BY DEF IsArray, x
  <1>7. NumInv'
    <2>1. array'.dims \in Shapes /\ IsArray(array') BY DEF NumInv
    <2>2. subArray' \in Arrays \cup {None} /\ variable' \in Arrays \cup {None} /\ result' \in Arrays \cup {None, Number}
      BY <1>1, <1>2 DEF NumInv
    <2>3. subArray' # None BY <1>2, <1>4
    <2>4. DOMAIN object' = Arrays \cup {Number} BY <1>2, <1>3
    <2>5. ASSUME NEW o \in Arrays, o \in {subArray', variable', result'} PROVE IsArray(object'[o])
      <3>1. CASE o = to BY <1>5, <1>6, <3>1
      <3>2. CASE o # to
        <4>1. o = variable BY <1>2, <2>5, <3>2
        <4>2. IsArray(object[o]) BY <4>1 DEF NumInv
        <4> QED BY <1>5, <3>2, <4>2
      <3> QED BY <3>1, <3>2
    <2> QED BY <2>1, <2>2, <2>3, <2>4, <2>5 DEF NumInv
  <1>8. Contents(result)' = Cells(x) BY <1>2, <1>4, <1>5, ContentsAre
  <1>9. Cells(x) = Held(dims, vec)
    <2>1. DOMAIN vec = 0 .. size(dims) - 1 BY DEF Vector
    <2> QED BY <2>1, CellsAre DEF x
  <1>10. Contents(variable)' = Contents(variable)
    <2>1. variable \in Arrays \cup {None} /\ variable # to BY <1>1 DEF NumInv
    <2>2. variable # Number BY <1>4, <2>1 DEF None, Number
    <2>3. variable \in Arrays => object'[variable] = object[variable] BY <1>5, <2>1
    <2> QED BY <2>1, <2>2, <2>3, ContentsAre
  <1>11. Cells(array)' = Cells(array)
    <2>1. Cells(array)' = Cells(array') OBVIOUS
    <2> QED BY <2>1
  <1> QED BY <1>7, <1>8, <1>9, <1>10, <1>11

LEMMA ReadStep ==
    ASSUME ArrayAssumption, NumInv, NEW idx \in Indices(array.dims), subIndexing(idx)
    PROVE  NumInv' /\ Values!Read(idx)
  <1> DEFINE dims == array.dims
             p == setSubIndex(dims, idx)
             map == mapIndex(array, p)
             elem == [i \in DOMAIN map |-> array.numArray[map[i]]]
  <1>1. PICK vec \in Vector(dims) :
           /\ dims \in Dims /\ array = NewArray(dims, vec) /\ array.numArray = vec
           /\ Cells(array) = Held(dims, vec)
    BY ArrayIs
  <1>2. /\ p \in SubOf(dims) /\ p = Values!Pick(dims, idx) /\ numDimSub(dims, p, idx) = Len(Values!Long(p))
    <2>1. dims \in Shapes BY DEF NumInv
    <2> QED BY <2>1, IndicesAre
  <1>3. /\ subIndex' = p /\ UNCHANGED <<array, variable>>
        /\ IF Cardinality(DOMAIN map) = 1
           THEN result' = Number /\ object' = [object EXCEPT ![Number] = elem[0]] /\ UNCHANGED subArray
           ELSE Gives(tryAllocate(subArray), NewArray(makeSubDims(dims, p, numDimSub(dims, p, idx)), elem))
    BY DEF subIndexing
  <1>4. p \in Subs /\ Len(p) = Len(dims) BY <1>2 DEF SubOf
  <1>5. size(Sizes(p)) = 1 <=> Values!Long(p) = <<>> BY <1>4, SizeOne
  <1>6. Cardinality(DOMAIN map) = size(Sizes(p)) /\ size(Sizes(p)) \in Nat \ {0}
    <2> DEFINE m == size(Sizes(p))
    <2>1. DOMAIN map = 0 .. m - 1 BY <1>1, <1>2, MapIndexIs
    <2>2. m \in Nat \ {0} BY <1>4, SubFacts, AccumFacts
    <2> HIDE DEF m, map
    <2>3. Cardinality(0 .. m - 1) = IF 0 > m - 1 THEN 0 ELSE m - 1 - 0 + 1 BY <2>2, FS_Interval
    <2>4. Cardinality(0 .. m - 1) = m BY <2>2, <2>3
    <2> QED BY <2>1, <2>2, <2>4 DEF m
  <1>7. SUFFICES NumInv' /\ Contents(result)' = Values!Slice(Cells(array), idx)
                 /\ UNCHANGED <<Cells(array), Contents(variable)>>
    BY DEF Values!Read
  <1>8. CASE Values!Long(p) = <<>>
    <2>1. DOMAIN map = 0 .. 0 /\ NoCells(vec[map[0]]) = Values!Slice(Held(dims, vec), idx) BY <1>1, <1>2, <1>8, CellHeld
    <2>2. elem[0] = vec[map[0]]
      <3>1. 0 \in 0 .. 0 OBVIOUS
      <3> HIDE DEF map
      <3> QED BY <1>1, <2>1, <3>1
    <2> HIDE DEF elem, map, p, dims
    <2>3. result' = Number /\ object' = [object EXCEPT ![Number] = elem[0]] /\ UNCHANGED <<subArray, array, variable>>
      BY <1>3, <1>5, <1>6, <1>8
    <2>4. DOMAIN object = Arrays \cup {Number} /\ Number \notin Arrays /\ Number # None
      BY DEF NumInv, Arrays, Number, None
    <2>5. object'[Number] = elem[0] /\ \A o \in Arrays : object'[o] = object[o] BY <2>3, <2>4
    <2>6. NumInv'
      <3>1. array'.dims \in Shapes /\ IsArray(array') BY <2>3 DEF NumInv
      <3>2. DOMAIN object' = Arrays \cup {Number} BY <2>3, <2>4
      <3>3. ASSUME NEW o \in Arrays, o \in {subArray', variable', result'} PROVE IsArray(object'[o])
        <4>1. o \in {subArray, variable} BY <2>3, <2>4, <3>3
        <4> QED BY <2>5, <4>1 DEF NumInv
      <3>4. subArray' = None => variable' = None /\ result' \notin Arrays BY <2>3, <2>4 DEF NumInv
      <3>5. subArray' \in Arrays \cup {None} /\ variable' \in Arrays \cup {None} /\ result' \in Arrays \cup {None, Number}
        BY <2>3 DEF NumInv
      <3> QED BY <3>1, <3>2, <3>3, <3>4, <3>5 DEF NumInv
    <2>7. Contents(result)' = NoCells(elem[0]) BY <2>3, <2>4, <2>5, ContentsAre
    <2>8. Contents(variable)' = Contents(variable)
      <3>1. variable \in Arrays \cup {None} /\ variable # Number BY <2>4 DEF NumInv
      <3> QED BY <2>3, <2>5, <3>1, ContentsAre
    <2>9. Cells(array)' = Cells(array)
      <3>1. Cells(array)' = Cells(array') OBVIOUS
      <3> QED BY <2>3, <3>1
    <2> QED BY <1>1, <2>1, <2>2, <2>6, <2>7, <2>8, <2>9
  <1>9. CASE Values!Long(p) # <<>>
    <2>1. elem = [i \in DOMAIN map |-> vec[map[i]]] BY <1>1
    <2>2. /\ PartDims(p) \in Dims /\ elem \in Vector(PartDims(p))
          /\ Held(PartDims(p), elem) = Values!Slice(Held(dims, vec), idx)
      <3>1. map = mapIndex(NewArray(dims, vec), p) BY <1>1
      <3> HIDE DEF map, elem, p, dims
      <3> QED BY <1>1, <1>2, <1>9, <2>1, <3>1, PartHeld
    <2>3. makeSubDims(dims, p, numDimSub(dims, p, idx)) = PartDims(p) BY <1>2, <1>4, <1>9, SubDims
    <2> HIDE DEF elem, map, p, dims
    <2>4. Gives(tryAllocate(subArray), NewArray(PartDims(p), elem)) BY <1>3, <1>5, <1>6, <1>9, <2>3
    <2>5. /\ NumInv' /\ Contents(result)' = Held(PartDims(p), elem)
          /\ UNCHANGED <<Cells(array), Contents(variable)>>
      BY <1>3, <2>2, <2>4, Given
    <2> QED BY <1>1, <2>2, <2>5
  <1> QED BY <1>8, <1>9

LEMMA HoldStep ==
    ASSUME NumInv, AssignVariable
    PROVE  NumInv' /\ Values!Hold
  <1>1. result \in Arrays /\ variable' = result /\ UNCHANGED <<array, subArray, object, result>> BY DEF AssignVariable
  <1>2. NumInv'
    <2>1. None \notin Arrays BY DEF Arrays, None
    <2>2. subArray # None BY <1>1 DEF NumInv
    <2> QED BY <1>1, <2>1, <2>2 DEF NumInv
  <1>3. Contents(variable)' = Contents(result) BY <1>1, ContentsAre
  <1>4. Contents(result)' = Contents(result) BY <1>1, ContentsAre
  <1>5. Cells(array)' = Cells(array)
    <2>1. Cells(array)' = Cells(array') OBVIOUS
    <2> QED BY <1>1, <2>1
  <1> QED BY <1>2, <1>3, <1>4, <1>5 DEF Values!Hold

\* An array written anew, while the objects stay.
LEMMA Written ==
    ASSUME ArrayAssumption, NumInv, NEW dims \in Shapes, NEW vec \in Vector(dims), array' = NewArray(dims, vec),
           UNCHANGED <<subArray, object, result, variable>>
    PROVE  /\ NumInv' /\ Cells(array)' = Held(dims, vec)
           /\ UNCHANGED <<Contents(variable), Contents(result)>>
  <1>1. dims \in Dims BY ShapesAre
  <1>2. array'.dims = dims /\ IsArray(array') BY <1>1 DEF NewArray, IsArray
  <1>3. NumInv' BY <1>2 DEF NumInv
  <1>4. Cells(array)' = Held(dims, vec)
    <2>1. Cells(array)' = Cells(array') OBVIOUS
    <2>2. DOMAIN vec = 0 .. size(dims) - 1 BY DEF Vector
    <2> QED BY <1>1, <2>1, <2>2, CellsAre
  <1> QED BY <1>3, <1>4, ContentsAre

LEMMA AssignStep ==
    ASSUME ArrayAssumption, NumInv, NEW idx \in Indices(array.dims), assignWith(idx, Value)
    PROVE  NumInv' /\ Values!Assign(idx, Value)
  <1> DEFINE dims == array.dims
             p == setSubIndex(dims, idx)
             map == mapIndex(array, p)
  <1>1. PICK vec \in Vector(dims) :
           /\ dims \in Dims /\ array = NewArray(dims, vec) /\ array.numArray = vec
           /\ Cells(array) = Held(dims, vec) /\ Cells(array).shape = dims
    BY ArrayIs
  <1> DEFINE new == [i \in DOMAIN vec |-> IF i \in Range(map) THEN Value ELSE vec[i]]
  <1>2. dims \in Shapes BY DEF NumInv
  <1>3. p \in SubOf(dims) /\ p = Values!Pick(dims, idx) BY <1>2, IndicesAre
  <1>4. subIndex' = p /\ array' = [array EXCEPT !.numArray = new] /\ UNCHANGED <<subArray, object, result, variable>>
    BY <1>1 DEF assignWith
  <1>5. array' = NewArray(dims, new)
    <2> HIDE DEF new
    <2> QED BY <1>1, <1>4 DEF NewArray
  <1>6. /\ new \in Vector(dims)
        /\ Held(dims, new) =
             [shape |-> dims,
              cells |-> [c \in Coord(dims) |-> IF \A d \in DOMAIN p : c[d] \in Values!Range(p[d])
                                               THEN Value ELSE Held(dims, vec).cells[c]]]
    <2>1. Value \in Int BY DEF ArrayAssumption
    <2>2. map = mapIndex(NewArray(dims, vec), p) BY <1>1
    <2> HIDE DEF map, p, dims
    <2> QED BY <1>1, <1>3, <2>1, <2>2, AssignHeld
  <1> HIDE DEF new
  <1>7. NumInv' /\ Cells(array)' = Held(dims, new) /\ UNCHANGED <<Contents(variable), Contents(result)>>
    BY <1>2, <1>4, <1>5, <1>6, Written
  <1>8. Values!Coords(dims) = Coord(dims) BY <1>1, CoordsAre
  <1> HIDE DEF p, dims
  <1> QED BY <1>1, <1>3, <1>6, <1>7, <1>8 DEF Values!Assign, Values!Numbered

LEMMA AddStep ==
    ASSUME ArrayAssumption, NumInv, NEW idx \in Indices(array.dims), assignPlus(idx)
    PROVE  NumInv' /\ Values!AddTo(idx)
  <1> DEFINE dims == array.dims
             p == setSubIndex(dims, idx)
             map == mapIndex(array, p)
             right == object[variable].numArray
  <1>1. PICK vec \in Vector(dims) :
           /\ dims \in Dims /\ array = NewArray(dims, vec) /\ array.numArray = vec
           /\ Cells(array) = Held(dims, vec) /\ Cells(array).shape = dims
    BY ArrayIs
  <1> DEFINE new == Summed(vec, right, map)
  <1>2. dims \in Shapes BY DEF NumInv
  <1>3. p \in SubOf(dims) /\ p = Values!Pick(dims, idx) BY <1>2, IndicesAre
  <1>4. /\ subIndex' = p /\ variable # None /\ Sizes(p) = object[variable].dims /\ IsInjective(map)
        /\ array' = [array EXCEPT !.numArray = new] /\ UNCHANGED <<subArray, object, result, variable>>
    BY <1>1 DEF assignPlus, Summed
  <1>5. array' = NewArray(dims, new)
    <2> HIDE DEF new
    <2> QED BY <1>1, <1>4 DEF NewArray
  <1>6. /\ right \in Vector(Sizes(p)) /\ Contents(variable) = Held(Sizes(p), right) /\ Sizes(p) \in Dims
    <2>1. variable \in Arrays /\ IsArray(object[variable]) BY <1>4 DEF NumInv
    <2>2. PICK ds \in Dims : \E w \in Vector(ds) : object[variable] = NewArray(ds, w) BY <2>1 DEF IsArray
    <2>3. PICK w \in Vector(ds) : object[variable] = NewArray(ds, w) BY <2>2
    <2>4. object[variable].dims = ds /\ right = w BY <2>3 DEF NewArray
    <2>5. Sizes(p) = ds BY <1>4, <2>4
    <2>6. Contents(variable) = Cells(object[variable])
      <3>1. variable # None /\ variable # Number BY <2>1 DEF Arrays, None, Number
      <3> QED BY <3>1, ContentsAre
    <2>7. Cells(object[variable]) = Held(ds, w)
      <3>1. DOMAIN w = 0 .. size(ds) - 1 BY DEF Vector
      <3> QED BY <2>3, <3>1, CellsAre
    <2> HIDE DEF p, right
    <2> QED BY <2>4, <2>5, <2>6, <2>7
  <1>7. map = mapIndex(NewArray(dims, vec), p) BY <1>1
  <1>8. /\ new \in Vector(dims)
        /\ Held(dims, new) =
             [shape |-> dims,
              cells |-> [c \in Coord(dims) |->
                           Held(dims, vec).cells[c] + Values!Added(Held(Sizes(p), right), p, c)]]
    <2> HIDE DEF map, p, dims, right
    <2> QED BY <1>1, <1>3, <1>4, <1>6, <1>7, AddHeld
  <1>9. \A d \in DOMAIN p : Values!IsInjective(p[d])
    <2> HIDE DEF map, p, dims
    <2> QED BY <1>1, <1>3, <1>4, <1>7, NoneTwice
  <1> HIDE DEF new
  <1>10. NumInv' /\ Cells(array)' = Held(dims, new) /\ UNCHANGED <<Contents(variable), Contents(result)>>
    BY <1>2, <1>4, <1>5, <1>8, Written
  <1>11. Values!Coords(dims) = Coord(dims) /\ Values!Coords(Sizes(p)) = Coord(Sizes(p)) BY <1>1, <1>6, CoordsAre
  <1>12. Contents(variable).shape = Sizes(p) BY <1>6 DEF Held
  <1>13. Sizes(p) = [d \in DOMAIN p |-> Len(p[d])] BY DEF Sizes
  <1> HIDE DEF p, dims, right
  <1> QED BY <1>1, <1>3, <1>6, <1>8, <1>9, <1>10, <1>11, <1>12, <1>13 DEF Values!AddTo, Values!Numbered

LEMMA TransposeStep ==
    ASSUME ArrayAssumption, NumInv, transpose
    PROVE  NumInv' /\ Values!Transpose
  <1> DEFINE dims == array.dims
             dt == Swap(dims)
  <1>1. PICK vec \in Vector(dims) :
           /\ dims \in Dims /\ Len(dims) >= 2 /\ array = NewArray(dims, vec) /\ array.numArray = vec
           /\ Cells(array) = Held(dims, vec) /\ Cells(array).shape = dims
    BY ArrayIs
  <1> DEFINE new == [k \in DOMAIN vec |-> vec[getFlatIndex(Swap(exportSubIndex(dt, k)), updateDimAccum(dims))]]
  <1>2. array.dimAccum = updateDimAccum(dims)
    <2> HIDE DEF dims
    <2> QED BY <1>1 DEF NewArray
  <1>3. Gives(tryAllocate(subArray), NewArray(dt, new)) /\ UNCHANGED <<array, variable>>
    BY <1>1, <1>2 DEF transpose
  <1>4. dt \in Dims
    <2> HIDE DEF dims
    <2> QED BY <1>1, SwapIs
  <1>5. /\ new \in Vector(dt)
        /\ Held(dt, new) = [shape |-> dt, cells |-> [c \in Coord(dt) |-> Held(dims, vec).cells[Values!Swap(c)]]]
    <2> HIDE DEF dims
    <2> QED BY <1>1, TransposeHeld
  <1> HIDE DEF new
  <1>6. /\ NumInv' /\ Contents(result)' = Held(dt, new) /\ UNCHANGED <<Cells(array), Contents(variable)>>
    BY <1>3, <1>4, <1>5, Given
  <1>7. Values!Coords(dt) = Coord(dt) /\ Values!Swap(dims) = dt BY <1>4, CoordsAre DEF Values!Swap, Swap
  <1> HIDE DEF dt, dims
  <1> QED BY <1>1, <1>5, <1>6, <1>7 DEF Values!Transpose, Values!Numbered

LEMMA ReshapeStep ==
    ASSUME ArrayAssumption, NumInv, NEW newDims \in Shapes, reshape(newDims)
    PROVE  NumInv' /\ Values!Reshape(newDims)
           /\ Values!Cardinality(Values!Coords(newDims)) = Values!Cardinality(Values!Coords(Cells(array).shape))
  <1> DEFINE dims == array.dims
  <1>1. PICK vec \in Vector(dims) :
           /\ dims \in Dims /\ array = NewArray(dims, vec) /\ array.numArray = vec
           /\ Cells(array) = Held(dims, vec) /\ Cells(array).shape = dims
    BY ArrayIs
  <1>2. /\ size(newDims) = size(dims) /\ UNCHANGED <<subArray, object, result, variable>>
        /\ array' = [array EXCEPT !.dims = newDims, !.dimAccum = updateDimAccum(newDims)]
    BY DEF reshape
  <1> HIDE DEF dims
  <1>3. newDims \in Dims BY ShapesAre
  <1>4. array' = NewArray(newDims, vec) BY <1>1, <1>2 DEF NewArray
  <1>5. /\ vec \in Vector(newDims)
        /\ Held(newDims, vec) =
             [shape |-> newDims,
              cells |-> [c \in Coord(newDims) |->
                           Held(dims, vec).cells[CHOOSE e \in Values!Coords(dims) :
                                                   Values!Rank(dims, e) = Values!Rank(newDims, c)]]]
    BY <1>1, <1>2, <1>3, ReshapeHeld
  <1>6. NumInv' /\ Cells(array)' = Held(newDims, vec) /\ UNCHANGED <<Contents(variable), Contents(result)>>
    BY <1>2, <1>4, <1>5, Written
  <1>7. Values!Coords(newDims) = Coord(newDims) BY <1>3, CoordsAre
  <1>8. Values!Cardinality(Values!Coords(newDims)) = Values!Cardinality(Values!Coords(dims))
    BY <1>1, <1>2, <1>3, CoordsCounted
  <1>9. Values!Reshape(newDims) BY <1>1, <1>5, <1>6, <1>7 DEF Values!Reshape, Values!Numbered
  <1> QED BY <1>1, <1>6, <1>8, <1>9

LEMMA NumInit ==
    ASSUME ArrayAssumption, Init
    PROVE  NumInv /\ Values!Init
  <1>1. PICK dims \in Shapes : array = NewArray(dims, [i \in 0 .. size(dims) - 1 |-> i]) BY DEF Init
  <1> DEFINE vec == [i \in 0 .. size(dims) - 1 |-> i]
  <1>2. dims \in Dims BY ShapesAre
  <1>3. vec \in Vector(dims) BY DEF Vector
  <1>4. /\ subArray = None /\ result = None /\ variable = None
        /\ object = [o \in Arrays \cup {Number} |-> <<>>]
    BY DEF Init
  <1>5. Cells(array) = Held(dims, vec)
    <2>1. DOMAIN vec = 0 .. size(dims) - 1 OBVIOUS
    <2> HIDE DEF vec
    <2> QED BY <1>1, <1>2, <2>1, CellsAre DEF vec
  <1>6. array.dims = dims /\ IsArray(array) BY <1>1, <1>2, <1>3 DEF NewArray, IsArray
  <1>7. NumInv
    <2>1. None \notin Arrays BY DEF None, Arrays
    <2> QED BY <1>4, <1>6, <2>1 DEF NumInv
  <1>8. \A c \in Coord(dims) : vec[Flat(dims, c)] = Values!Rank(dims, c)
    <2>1. TAKE c \in Coord(dims)
    <2>2. Flat(dims, c) \in 0 .. size(dims) - 1 BY <1>2, FlatThere
    <2> QED BY <1>2, <2>2, RankIsFlat
  <1>9. Values!Coords(dims) = Coord(dims) BY <1>2, CoordsAre
  <1>10. Values!Coords(<<>>) = {<<>>} BY DEF Values!Coords
  <1>11. Contents(variable) = NoCells(0) /\ Contents(result) = NoCells(0) BY <1>4, ContentsAre
  <1> HIDE DEF vec
  <1>12. Cells(array) = [shape |-> dims, cells |-> [c \in Coord(dims) |-> Values!Rank(dims, c)]]
    BY <1>5, <1>8 DEF Held
  <1> QED BY <1>7, <1>9, <1>10, <1>11, <1>12 DEF Values!Init, Values!Numbered, NoCells

LEMMA NumNext ==
    ASSUME ArrayAssumption, NumInv, [Next]_vars
    PROVE  NumInv' /\ [Values!Next]_<<Cells(array), Contents(variable), Contents(result)>>
  <1>1. Cells(array).shape = array.dims BY ArrayIs
  <1>2. ASSUME NEW idx \in Indices(array.dims), subIndexing(idx) PROVE NumInv' /\ Values!Next
    BY <1>1, <1>2, ReadStep DEF Values!Next
  <1>3. ASSUME NEW idx \in Indices(array.dims), assignWith(idx, Value) PROVE NumInv' /\ Values!Next
    BY <1>1, <1>3, AssignStep DEF Values!Next
  <1>4. ASSUME NEW idx \in Indices(array.dims), assignPlus(idx) PROVE NumInv' /\ Values!Next
    BY <1>1, <1>4, AddStep DEF Values!Next
  <1>5. ASSUME AssignVariable PROVE NumInv' /\ Values!Next BY <1>5, HoldStep DEF Values!Next
  <1>6. ASSUME transpose PROVE NumInv' /\ Values!Next BY <1>6, TransposeStep DEF Values!Next
  <1>7. ASSUME NEW newDims \in Shapes, reshape(newDims) PROVE NumInv' /\ Values!Next
    BY <1>7, ReshapeStep DEF Values!Next
  <1>8. ASSUME UNCHANGED vars PROVE NumInv' /\ UNCHANGED <<Cells(array), Contents(variable), Contents(result)>>
    <2>1. UNCHANGED <<array, subArray, object, result, variable>> BY <1>8 DEF vars
    <2>2. Cells(array)' = Cells(array') OBVIOUS
    <2> QED BY <2>1, <2>2, ContentsAre DEF NumInv
  <1> QED BY <1>2, <1>3, <1>4, <1>5, <1>6, <1>7, <1>8 DEF Next

\* Whatever is indexed, assigned, added to, transposed and reshaped, in any
\* order and for arrays of any size and number of dimensions, the flat vector
\* with its steps and its reused objects gives what an array of cells gives:
\* a subindex reads and writes the cells it names and no other, and what a
\* variable holds stays (DaoxArray, src/tao/src/taoNumeric.cpp).
THEOREM ArraysAreMatrices ==
    ASSUME ArrayAssumption
    PROVE  Spec => ImplementsMatrices
  <1>1. Init => NumInv /\ Values!Init BY NumInit
  <1>2. NumInv /\ [Next]_vars => NumInv' /\ [Values!Next]_<<Cells(array), Contents(variable), Contents(result)>>
    BY NumNext
  <1> QED BY <1>1, <1>2, PTL DEF Spec, ImplementsMatrices, Values!Spec

=============================================================================

------------------------------ MODULE Matrices ------------------------------
(***************************************************************************)
(* What a numeric array of Tao promises, cell by cell: an array is a shape  *)
(* and a value at each coordinate.  a is the array of a variable, b what a  *)
(* second variable holds, seen what the last expression gave.              *)
(***************************************************************************)
EXTENDS Integers, FiniteSets, Sequences, SequencesExt

CONSTANTS Shapes,           \* the shapes an array may be given
          Indices(_),       \* the subindices that are used on an array of a shape
          All,              \* a subindex left empty
          Numbers           \* the numbers that are assigned
VARIABLES a, b, seen

Coords(shape) == IF shape = <<>> THEN {<<>>}
                 ELSE {c \in [DOMAIN shape -> 0 .. Max(Range(shape))] : \A d \in DOMAIN shape : c[d] < shape[d]}
Numbered(shape, f(_)) == [shape |-> shape, cells |-> [c \in Coords(shape) |-> f(c)]]
Before(c, e) == \E d \in DOMAIN c : c[d] < e[d] /\ \A k \in 1 .. d - 1 : c[k] = e[k]
Rank(shape, c) == Cardinality({e \in Coords(shape) : Before(e, c)})

\* The coordinates a subindex picks in each dimension, from the first one on: a
\* single subindex of a row is one of its second dimension.
Pick(shape, idx) ==
    LET first == IF Len(idx) = 1 /\ Len(shape) = 2 /\ shape[1] = 1 THEN 2 ELSE 1
        entry(d) == IF d - first + 1 \in DOMAIN idx THEN idx[d - first + 1] ELSE All
    IN  [d \in DOMAIN shape |-> IF entry(d) = All THEN [k \in 1 .. shape[d] |-> k - 1] ELSE entry(d)]

\* The dimensions in which more than one coordinate is picked, in order.
Long(p) ==
    LET long[d \in 0 .. Len(p)] ==
            IF d = 0 THEN <<>> ELSE IF Len(p[d]) > 1 THEN Append(long[d - 1], d) ELSE long[d - 1]
    IN  long[Len(p)]

\* A part of an array has the dimensions where more than one coordinate is picked.
Slice(m, idx) ==
    LET p == Pick(m.shape, idx)
        long == Long(p)
        n == Len(p[long[1]])
        shape == CASE Len(long) = 0 -> <<>>
                   [] Len(long) = 1 -> IF long[1] = Len(p) THEN <<1, n>> ELSE <<n, 1>>
                   [] OTHER -> [k \in DOMAIN long |-> Len(p[long[k]])]
        along(c, d) == IF Len(p[d]) = 1 THEN 0
                       ELSE IF Len(long) = 1 THEN c[1] + c[2]
                       ELSE c[CHOOSE k \in DOMAIN long : long[k] = d]
    IN  Numbered(shape, LAMBDA c : m.cells[[d \in DOMAIN p |-> p[d][along(c, d) + 1]]])

\* What m, which a subindex p takes to cells of the array, adds to the cell at c.
Added(m, p, c) ==
    LET at == {e \in Coords(m.shape) : \A d \in DOMAIN p : p[d][e[d] + 1] = c[d]}
    IN  IF at = {} THEN 0 ELSE m.cells[CHOOSE e \in at : TRUE]

Swap(c) == [c EXCEPT ![1] = c[2], ![2] = c[1]]
Init == /\ \E shape \in Shapes : a = Numbered(shape, LAMBDA c : Rank(shape, c))
        /\ b = Numbered(<<>>, LAMBDA c : 0) /\ seen = b

Read(idx) == seen' = Slice(a, idx) /\ UNCHANGED <<a, b>>
Hold      == b' = seen /\ UNCHANGED <<a, seen>>
Assign(idx, v) ==
    /\ LET p == Pick(a.shape, idx)
       IN  a' = Numbered(a.shape, LAMBDA c : IF \A d \in DOMAIN p : c[d] \in Range(p[d]) THEN v ELSE a.cells[c])
    /\ UNCHANGED <<b, seen>>
AddTo(idx) ==
    /\ LET p == Pick(a.shape, idx)
       IN  /\ b.shape = [d \in DOMAIN p |-> Len(p[d])]
           /\ \A d \in DOMAIN p : IsInjective(p[d])
           /\ a' = Numbered(a.shape, LAMBDA c : a.cells[c] + Added(b, p, c))
    /\ UNCHANGED <<b, seen>>
Transpose == seen' = Numbered(Swap(a.shape), LAMBDA c : a.cells[Swap(c)]) /\ UNCHANGED <<a, b>>
Reshape(shape) ==
    /\ a' = Numbered(shape, LAMBDA c : a.cells[CHOOSE e \in Coords(a.shape) : Rank(a.shape, e) = Rank(shape, c)])
    /\ UNCHANGED <<b, seen>>

Next == \/ \E idx \in Indices(a.shape) : Read(idx) \/ AddTo(idx) \/ \E v \in Numbers : Assign(idx, v)
        \/ Hold \/ Transpose \/ \E shape \in Shapes : Cardinality(Coords(shape)) = Cardinality(Coords(a.shape)) /\ Reshape(shape)
Spec == Init /\ [][Next]_<<a, b, seen>>
=============================================================================

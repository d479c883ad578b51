---------------------------- MODULE TaoNumArray ----------------------------
(***************************************************************************)
(* Numeric arrays of Tao: the numbers lie in one vector, row by row; the   *)
(* subindex of the current expression is part of the array, and so is the  *)
(* array that the values of a subindex are copied to.  Left out: subindex  *)
(* by an array of positions, empty ranges, and dimensions of 1 other than  *)
(* those of a row or a column.                                             *)
(***************************************************************************)
EXTENDS Integers, FiniteSets, Sequences, SequencesExt

CONSTANTS Shapes, Indices(_), All,
          Value,        \* the number that is assigned
          MaxSteps      \* bound: the statements of a program

VARIABLES
    array,      \* the array of a variable: dims, dimAccum and numArray
    subIndex,   \* its subindex
    subArray,   \* the object that its last part was copied to
    object,     \* the objects: two for subArrays, and the array's TaoNumber
    result,     \* what the last expression gave
    variable,   \* what a second variable holds
    steps

vars == <<array, subIndex, subArray, object, result, variable, steps>>

None == "none"
Number == "number"
Arrays == {"one", "two"}

updateDimAccum(dims) ==
    LET dimAccum[i \in DOMAIN dims] == IF i = Len(dims) THEN 1 ELSE dimAccum[i + 1] * dims[i + 1]
    IN  dimAccum
size(dims) == dims[1] * updateDimAccum(dims)[1]
NewArray(dims, vec) == [dims |-> dims, dimAccum |-> updateDimAccum(dims), numArray |-> vec]

exportSubIndex(dims, id) == [j \in DOMAIN dims |-> (id \div updateDimAccum(dims)[j]) % dims[j]]
getFlatIndex(ids, dimAccum) ==
    LET ind[i \in 0 .. Len(ids)] == IF i = 0 THEN 0 ELSE ind[i - 1] + ids[i] * dimAccum[i]
    IN  ind[Len(ids)]

resetSubIndex(dims) == [i \in DOMAIN dims |-> [j \in 1 .. dims[i] |-> j - 1]]
IsVector(dims) == Len(dims) = 2 /\ 1 \in Range(dims)
makeIndex(dim, entry) == IF entry = All THEN [j \in 1 .. dim |-> j - 1] ELSE entry
setSubIndex(dims, idx) ==
    IF Len(idx) = 1
    THEN LET k == IF IsVector(dims) /\ dims[1] = 1 THEN 2 ELSE 1
         IN  [resetSubIndex(dims) EXCEPT ![k] = makeIndex(dims[k], idx[1])]
    ELSE [i \in DOMAIN dims |-> makeIndex(dims[i], IF i <= Len(idx) THEN idx[i] ELSE All)]
Sizes(sub) == [i \in DOMAIN sub |-> Len(sub[i])]
numDimSub(dims, sub, idx) ==
    IF Len(idx) = 1 /\ ~IsVector(dims) THEN Len(dims) - 1 + (IF Len(sub[1]) > 1 THEN 1 ELSE 0)
    ELSE Cardinality({i \in DOMAIN dims : Len(sub[i]) > 1})

mapIndex(arr, sub) ==
    [i \in 0 .. size(Sizes(sub)) - 1 |->
        LET res == exportSubIndex(Sizes(sub), i)
        IN  getFlatIndex([j \in DOMAIN sub |-> sub[j][res[j] + 1]], arr.dimAccum)]

LongSizes(sub) ==
    LET ds[i \in 0 .. Len(sub)] ==
            IF i = 0 THEN <<>> ELSE IF Len(sub[i]) > 1 THEN Append(ds[i - 1], Len(sub[i])) ELSE ds[i - 1]
    IN  ds[Len(sub)]
makeSubDims(dims, sub, numDim) ==
    LET long == LongSizes(sub)
    IN  IF numDim = 1 THEN IF Len(sub[Len(dims)]) = 1 THEN <<long[1], 1>> ELSE <<1, long[1]>>
        ELSE long

\* An object that a variable holds (refCount > 1) is not used again.
\* Mutant: the object is always used again.
AllocateOnce(p) == IF p = None THEN "one" ELSE p
tryAllocate(p) == IF p = None THEN "one" ELSE IF variable = p THEN CHOOSE o \in Arrays : o # p ELSE p

\* The arrays have two dimensions or more, of which only a row or a column has
\* one of length 1; a subindex picks positions that there are, in each dimension.
ArrayAssumption ==
    /\ Value \in Int
    /\ \A dims \in Shapes :
         /\ dims \in Seq(Nat \ {0}) /\ Len(dims) >= 2
         /\ Len(dims) = 2 \/ \A d \in DOMAIN dims : dims[d] > 1
         /\ \A idx \in Indices(dims) :
              /\ Len(idx) \in 1 .. Len(dims) /\ DOMAIN idx = 1 .. Len(idx)
              /\ \A d \in DOMAIN dims : setSubIndex(dims, idx)[d] \in Seq(0 .. dims[d] - 1) \ {<<>>}

-----------------------------------------------------------------------------
Init ==
    /\ \E dims \in Shapes : array = NewArray(dims, [i \in 0 .. size(dims) - 1 |-> i])
    /\ subIndex = resetSubIndex(array.dims)
    /\ subArray = None /\ object = [o \in Arrays \cup {Number} |-> <<>>]
    /\ result = None /\ variable = None /\ steps = 0

Step == steps < MaxSteps /\ steps' = steps + 1
Gives(to, arr) == /\ subArray' = to /\ result' = to /\ object' = [object EXCEPT ![to] = arr]

\* a[idx] as a value
subIndexing(idx) ==
    /\ Step /\ subIndex' = setSubIndex(array.dims, idx)
    /\ LET idMapped == mapIndex(array, subIndex')
           numDim == numDimSub(array.dims, subIndex', idx)
           elem == [i \in DOMAIN idMapped |-> array.numArray[idMapped[i]]]
       IN  IF Cardinality(DOMAIN idMapped) = 1
           THEN result' = Number /\ object' = [object EXCEPT ![Number] = elem[0]] /\ UNCHANGED subArray
           ELSE Gives(tryAllocate(subArray), NewArray(makeSubDims(array.dims, subIndex', numDim), elem))
    /\ UNCHANGED <<array, variable>>

\* b = the last result, when that is an array
AssignVariable == Step /\ result \in Arrays /\ variable' = result /\ UNCHANGED <<array, subIndex, subArray, object, result>>

\* a[idx] = v
assignWith(idx, v) ==
    /\ Step /\ subIndex' = setSubIndex(array.dims, idx)
    /\ LET idMapped == Range(mapIndex(array, subIndex'))
       IN  array' = [array EXCEPT !.numArray = [i \in DOMAIN @ |-> IF i \in idMapped THEN v ELSE @[i]]]
    /\ UNCHANGED <<subArray, object, result, variable>>

\* a[idx] += b, where the sizes of the subindex are the dimensions of b.  A
\* position that is picked twice is added to twice: such a subindex is left out.
assignPlus(idx) ==
    /\ Step /\ variable # None /\ subIndex' = setSubIndex(array.dims, idx)
    /\ Sizes(subIndex') = object[variable].dims
    /\ LET idMapped == mapIndex(array, subIndex')
           right == object[variable].numArray
       IN  /\ IsInjective(idMapped)
           /\ array' = [array EXCEPT !.numArray =
                [i \in DOMAIN @ |-> IF i \in Range(idMapped) THEN @[i] + right[CHOOSE k \in DOMAIN right : idMapped[k] = i] ELSE @[i]]]
    /\ UNCHANGED <<subArray, object, result, variable>>

Swap(s) == [s EXCEPT ![1] = s[2], ![2] = s[1]]
transpose ==            \* permute with the order 2, 1, 3 ...
    /\ Step
    /\ LET dimtrans == Swap(array.dims)
           from(k) == getFlatIndex(Swap(exportSubIndex(dimtrans, k)), array.dimAccum)
       IN  Gives(tryAllocate(subArray), NewArray(dimtrans, [k \in DOMAIN array.numArray |-> array.numArray[from(k)]]))
    /\ UNCHANGED <<array, subIndex, variable>>

reshape(newDims) ==
    /\ Step /\ size(newDims) = size(array.dims)
    /\ array' = [array EXCEPT !.dims = newDims, !.dimAccum = updateDimAccum(newDims)]
    /\ subIndex' = resetSubIndex(newDims) /\ UNCHANGED <<subArray, object, result, variable>>

Next ==
    \/ \E idx \in Indices(array.dims) : subIndexing(idx) \/ assignWith(idx, Value) \/ assignPlus(idx)
    \/ AssignVariable \/ transpose \/ \E newDims \in Shapes : reshape(newDims)

Spec == Init /\ [][Next]_vars

-----------------------------------------------------------------------------
Cells(arr) ==
    [shape |-> arr.dims, cells |-> [c \in {exportSubIndex(arr.dims, i) : i \in DOMAIN arr.numArray} |->
                                       arr.numArray[getFlatIndex(c, arr.dimAccum)]]]
Contents(o) == CASE o = None -> [shape |-> <<>>, cells |-> [c \in {<<>>} |-> 0]]
                 [] o = Number -> [shape |-> <<>>, cells |-> [c \in {<<>>} |-> object[Number]]]
                 [] OTHER -> Cells(object[o])

Values == INSTANCE Matrices WITH
    a <- Cells(array), b <- Contents(variable), seen <- Contents(result),
    Shapes <- Shapes, Indices <- Indices, All <- All, Numbers <- {Value}

\* A subindex reads and writes the cells it names and no other, whatever was
\* indexed, transposed and reshaped before, and what a variable holds is not
\* changed by a later subindex of the array it was copied from.
ImplementsMatrices == Values!Spec
=============================================================================

--------------------------- MODULE SmallPrograms ---------------------------
(***************************************************************************)
(* The small programs that are loops of one thread or two, side by side:    *)
(* heap sort, the search with a regular expression of Tao, the list of      *)
(* cond.c and the numeric arrays of Tao.  They share nothing; which names    *)
(* the one that a behaviour is about.                                      *)
(***************************************************************************)
EXTENDS HeapSort, Sequences

CONSTANTS
    Patterns, Strings,                      \* regex
    N, Address, Null,                       \* list
    Shapes, Indices(_), All, Value, MaxSteps    \* numarray

VARIABLES
    which,
    rgxUnit, str, at, atUnit, min_match, shift, numMatched, found,                       \* regex
    n_number, n_next, head, mtx, main, node_i, mp, second, sp, cancel, printed,          \* list
    array, subIndex, subArray, object, last, variable, steps                        \* numarray

RegexVars == <<rgxUnit, str, at, atUnit, min_match, shift, numMatched, found>>
ListVars  == <<n_number, n_next, head, mtx, main, node_i, mp, second, sp, cancel, printed>>
ArrayVars == <<array, subIndex, subArray, object, last, variable, steps>>

Regex == INSTANCE TaoRegex WITH start <- at, j <- atUnit, result <- found
List == INSTANCE ProducerConsumer WITH i <- node_i, NULL <- Null
NumArray == INSTANCE TaoNumArray WITH result <- last

-----------------------------------------------------------------------------
(* The properties of the modules, of the behaviours they are about.        *)

\* A regular expression finds what matches (TaoRegex).
Finds == which = "regex" => Regex!Finds
\* A search with a regular expression comes to an end (TaoRegex).
SearchEnds == which = "regex" => Regex!SearchEnds
\* The list of cond.c is a stack of numbers (ProducerConsumer).
ImplementsPool == List!ImplementsPool
\* What main pushes is printed (ProducerConsumer).
PrintedOrCancelled == List!PrintedOrCancelled
\* Main of cond.c is never stuck (ProducerConsumer).
MainGoesOn == which = "list" => List!MainGoesOn
\* Numeric arrays are arrays of cells (TaoNumArray).
ImplementsMatrices == NumArray!ImplementsMatrices
=============================================================================

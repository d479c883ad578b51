----------------------------- MODULE Calculators -----------------------------
(***************************************************************************)
(* Three readers of arithmetic expressions: the calculator with two stacks *)
(* (compiler/expr/stack.cpp), a step for each turn of its loops; and, as    *)
(* functions of the same tokens, the recursive descent of recur.c and the  *)
(* search for the operator to split at of the Tao parser.  A number token  *)
(* is a number of the field Z/7, where + - * / have all the laws of the    *)
(* rationals (with x/0 = 0); ^ is an operation that has none.              *)
(***************************************************************************)
EXTENDS Integers, SequencesExt

CONSTANTS MaxTokens, Operators      \* bounds: the expressions considered

VARIABLES expr, rest, opnd_stack, optr_stack, ch, result

vars == <<expr, rest, opnd_stack, optr_stack, ch, result>>

None == "none"      \* no operator has been read
Unknown == -1       \* no result
Num(v) == <<"number", v>>
Op(o)  == <<o, 0>>
IsOperator(t) == t[1] # "number"

Inv7(x) == CHOOSE y \in 0 .. 6 : IF x = 0 THEN y = 0 ELSE (x * y) % 7 = 1
Simple_Eval(l, o, r) ==
    CASE o = "+" -> (l + r) % 7
      [] o = "-" -> (l - r) % 7
      [] o = "*" -> (l * r) % 7
      [] o = "/" -> (l * Inv7(r)) % 7
      [] o = "^" -> (3 * l + 5 * r * r + l * r + 1) % 7

-----------------------------------------------------------------------------
(* The expressions: operands 1, 2, 3 ... in their order, operators, and     *)
(* parentheses around an operand or an operation.                          *)

RECURSIVE Written(_, _)
Written(n, v) ==        \* those of n tokens whose first operand is v
    (IF n = 1 THEN {[toks |-> <<Num(v)>>, next |-> v + 1]} ELSE {})
    \cup (IF n < 3 THEN {} ELSE
            {[toks |-> <<Op("(")>> \o e.toks \o <<Op(")")>>, next |-> e.next] : e \in Written(n - 2, v)})
    \cup UNION {UNION {{[toks |-> a.toks \o <<Op(o)>> \o b.toks, next |-> b.next] :
                          o \in Operators, b \in Written(n - 1 - k, a.next)} : a \in Written(k, v)}
                : k \in 1 .. n - 2}

Expressions == {e.toks : e \in UNION {Written(n, 1) : n \in 1 .. MaxTokens}}

-----------------------------------------------------------------------------
(* recur.c: what a function reads from token i on, and where it stops.     *)

Binary == <<{"+", "-"}, {"*", "/"}, {"^"}>>     \* the operators of each function

RECURSIVE Read(_, _, _)
Power_Factor(toks, i) ==
    LET o == toks[i][1] IN
    CASE o = "number" -> [value |-> toks[i][2], next |-> i + 1]
      [] o = "+" -> Read(4, toks, i + 1)
      [] o = "-" -> [Read(4, toks, i + 1) EXCEPT !.value = -@ % 7]
      [] o = "(" -> [Read(1, toks, i + 1) EXCEPT !.next = @ + 1]

Read(k, toks, i) ==     \* 1 Eval_Expression 2 Additive_Factor 3 Multiplicative_Factor
    LET RECURSIVE More(_)
        More(l) == IF l.next > Len(toks) \/ toks[l.next][1] \notin Binary[k] THEN l
                   ELSE LET r == Read(k + 1, toks, l.next + 1)
                        IN  More([value |-> Simple_Eval(l.value, toks[l.next][1], r.value),
                                  next |-> r.next])
    IN  IF k = 4 THEN Power_Factor(toks, i) ELSE More(Read(k + 1, toks, i))

Eval_Expression(toks) == Read(1, toks, 1).value

-----------------------------------------------------------------------------
(* The Tao parser: tokens start .. end are split at an operator outside the *)
(* parentheses, the last one of the first kind that occurs.                *)

arithOpers == <<"+", "-", "*", "/", "^">>
Parens(toks, o, from, to) == Cardinality({k \in from .. to : toks[k][1] = o})
IsPair(toks, start, end) ==
    /\ toks[start][1] = "(" /\ toks[end][1] = ")"
    /\ \A k \in start .. end - 1 : Parens(toks, "(", start, k) > Parens(toks, ")", start, k)

Clean(toks, o, start, end) ==
    {k \in start .. end : /\ toks[k][1] = o
                          /\ Parens(toks, "(", k + 1, end) = Parens(toks, ")", k + 1, end)}
\* Mutant: the first one that occurs.
findFirstOper(toks, start, end) ==
    LET n == Min({m \in DOMAIN arithOpers : Clean(toks, arithOpers[m], start, end) # {}})
    IN  Min(Clean(toks, arithOpers[n], start, end))
findRootOper(toks, start, end) ==
    LET n == Min({m \in DOMAIN arithOpers : Clean(toks, arithOpers[m], start, end) # {}})
    IN  Max(Clean(toks, arithOpers[n], start, end))

RECURSIVE makeArithTree(_, _, _)
makeArithTree(toks, start, end) ==
    IF IsPair(toks, start, end) THEN makeArithTree(toks, start + 1, end - 1)
    ELSE IF start = end THEN toks[start][2]
    ELSE IF toks[start][1] \in {"+", "-"}
    THEN Simple_Eval(0, toks[start][1], makeArithTree(toks, start + 1, end))
    ELSE LET pos == findRootOper(toks, start, end)
         IN  Simple_Eval(makeArithTree(toks, start, pos - 1), toks[pos][1],
                         makeArithTree(toks, pos + 1, end))

-----------------------------------------------------------------------------
(* stack.cpp                                                               *)

In_Stack(o) == CASE o = "$" -> 0 [] o \in {"(", ")"} -> 1 [] o \in {"+", "-"} -> 2
                 [] o \in {"*", "/"} -> 3 [] o = "^" -> 4
\* Mutant: a power that comes in binds stronger than the power before it.
In_ComingRight(o) == CASE o = "$" -> 0 [] o = ")" -> 1 [] o \in {"+", "-"} -> 2
                       [] o \in {"*", "/"} -> 3 [] o = "^" -> 5 [] o = "(" -> 9
In_Coming(o) == CASE o = "$" -> 0 [] o = ")" -> 1 [] o \in {"+", "-"} -> 2
                  [] o \in {"*", "/"} -> 3 [] o = "^" -> 4 [] o = "(" -> 9

Init ==
    /\ expr \in Expressions /\ rest = Append(expr, Op("$"))
    /\ opnd_stack = <<>> /\ optr_stack = <<"$">> /\ ch = None /\ result = Unknown

Pop(s) == Front(s)
Top(s) == Last(s)
Closes == Top(optr_stack) = "(" /\ ch = ")"
Exits  == Top(optr_stack) = "$" /\ ch = "$"
Pops   == ch # None /\ In_Stack(Top(optr_stack)) >= In_Coming(ch)

ReadNumber ==
    /\ ch = None /\ ~IsOperator(Head(rest))
    /\ opnd_stack' = Append(opnd_stack, Head(rest)[2]) /\ rest' = Tail(rest)
    /\ UNCHANGED <<expr, optr_stack, ch, result>>

ReadOperator ==
    /\ ch = None /\ IsOperator(Head(rest))
    /\ ch' = Head(rest)[1] /\ rest' = Tail(rest)
    /\ UNCHANGED <<expr, opnd_stack, optr_stack, result>>

Close ==                \* what comes behind ) is taken for an operator
    /\ Pops /\ Closes
    /\ optr_stack' = Pop(optr_stack) /\ ch' = Head(rest)[1] /\ rest' = Tail(rest)
    /\ UNCHANGED <<expr, opnd_stack, result>>

Reduce ==
    /\ Pops /\ ~Closes /\ ~Exits
    /\ LET ropnd == Top(opnd_stack)
           lopnd == Top(Pop(opnd_stack))
       IN  opnd_stack' = Append(Pop(Pop(opnd_stack)), Simple_Eval(lopnd, Top(optr_stack), ropnd))
    /\ optr_stack' = Pop(optr_stack)
    /\ UNCHANGED <<expr, rest, ch, result>>

Shift ==
    /\ ch # None /\ ~Pops
    /\ optr_stack' = Append(optr_stack, ch) /\ ch' = None
    /\ UNCHANGED <<expr, rest, opnd_stack, result>>

Exit ==
    /\ Pops /\ Exits /\ result = Unknown
    /\ result' = Top(opnd_stack)
    /\ UNCHANGED <<expr, rest, opnd_stack, optr_stack, ch>>

Next == ReadNumber \/ ReadOperator \/ Close \/ Reduce \/ Shift \/ Exit

Spec == Init /\ [][Next]_vars

-----------------------------------------------------------------------------
\* The two calculators and the Tao parser give an expression without signs the
\* same value, although only the first two make a tree that leans to the left:
\* the Tao parser splits a + b - c at the plus.
SameValue ==
    result # Unknown => result = Eval_Expression(expr) /\ result = makeArithTree(expr, 1, Len(expr))

=============================================================================

----------------------------- MODULE ProgramsMC -----------------------------
(***************************************************************************)
(* The small programs, the calculators and the compilers, for TLC: each     *)
(* behaves as its module says in the behaviours where which names it, and  *)
(* rests in the others.                                                    *)
(***************************************************************************)
EXTENDS SmallPrograms

CONSTANTS
    Checked,            \* the programs of a run
    Careful,            \* are the programs of sim.c written as it needs them?
    MaxStatements       \* bound: the statements that sim.c runs

VARIABLES
    expr, rest, opnd_stack, optr_stack, ch, value,                      \* calculator
    source, todo, code, lbl, at_code, stack, sym, output                \* calc3

CalcVars  == <<expr, rest, opnd_stack, optr_stack, ch, value>>
CodeVars  == <<source, todo, code, lbl, at_code, stack, sym, output>>
allVars   == <<which, vars, CalcVars, RegexVars, ListVars, ArrayVars, CodeVars>>

-----------------------------------------------------------------------------
(* The values of the constants, and the instances with recursive operators *)

Calculator == INSTANCE Calculators WITH
    result <- value, MaxTokens <- 7, Operators <- {"+", "-", "*", "/", "^"}

Letter(chars) == [word |-> <<chars>>, ignorable |-> FALSE, repMin |-> 1, repMax |-> 1]
TestPatterns ==
    LET a == Letter({"a"})
        b == Letter({"b"})
        dot == Letter({"a", "b"})
        ab == [a EXCEPT !.word = <<{"a"}, {"b"}>>]
        Times(u, min, max) == [u EXCEPT !.repMin = min, !.repMax = max]
        Many(u) == Times(u, 1, 99999999)
        Maybe(u) == [u EXCEPT !.ignorable = TRUE]
    IN  {<<Many(a), ab>>, <<Times(dot, 0, 2), Many(dot), b, ab>>, <<Many(dot), Many(dot), b>>,
         <<Times(ab, 1, 2), a, b>>, <<b, Maybe(dot), a>>, <<b, Maybe(Many(a)), dot>>, <<Maybe(Many(a)), b>>}
TestStrings == UNION {[1 .. k -> {"a", "b"}] : k \in 1 .. 5}
ASSUME PatternsFit == Regex!PatternAssumption

Empty == <<-1>>
TestShapes == {<<2, 3>>, <<1, 3>>, <<3, 1>>, <<1, 6>>, <<2, 2, 2>>, <<2, 4>>}
TestIndices(shape) ==
    CASE shape \in {<<1, 3>>, <<3, 1>>, <<1, 6>>} -> {<< <<1>> >>, << <<1, 2>> >>, << <<2, 0>> >>, [shape EXCEPT ![1] = Empty, ![2] = <<0>>]}
      [] shape = <<2, 2, 2>> -> {<< <<1>> >>, <<Empty, <<1>>, Empty>>, << <<0>>, <<1>>, Empty>>, << <<1, 0>>, <<1>>, <<0>> >>, << <<1>>, <<1, 0>> >>}
      [] OTHER -> {<< <<1>> >>, << <<0, 1>>, <<1>> >>, << <<1>>, <<1, 0>> >>, <<Empty, <<0, 0>> >>,
                   << <<1, 0>>, Empty>>, << <<1>>, <<1>> >>}
ASSUME ArraysFit == NumArray!ArrayAssumption

CompiledPrograms ==
    LET C == INSTANCE Calc3Tree WITH Vars <- {}
        a == C!id("a")  b == C!id("b")
        E(o, l, r) == C!opr(o, <<l, r>>)
        S(v, e) == C!opr("=", <<v, e>>)
        P(e) == C!opr("PRINT", <<e>>)
        If(c, then) == C!opr("IF", <<c, then>>)
        IfElse(c, then, else) == C!opr("IF", <<c, then, else>>)
        While(c, body) == C!opr("WHILE", <<c, body>>)
        Both(p, q) == C!opr(";", <<p, q>>)
        Skip == C!opr(";", <<C!NULL, C!NULL>>)
        Binary == {"+", "-", "*", "/", "<", ">", ">=", "<=", "=="}
        Pairs(l, r) == {E(o, l, r) : o \in Binary}
        Minus(p) == C!opr("UMINUS", <<p>>)
        Exprs == LET leaf == Pairs(C!con(7), C!con(2))
                     deep == UNION {Pairs(x, C!con(3)) \cup Pairs(C!con(5), x) : x \in leaf}
                     signed == {Minus(x) : x \in leaf} \cup UNION {Pairs(Minus(x), C!con(3)) : x \in leaf}
                               \cup Pairs(C!con(5), Minus(C!con(2)))
                 IN  deep \cup signed
        Turn(p) == While(E("<", a, C!con(2)), Both(p, S(a, E("+", a, C!con(1)))))
        Cond == {E("==", a, C!con(1)), E("<", b, C!con(3))}
        Simple == {S(b, E("+", b, E("*", C!con(2), a))), P(b)}
        Nested(ss) == {If(c, x) : c \in Cond, x \in ss}
                      \cup {IfElse(E("==", a, C!con(1)), x, y) : x, y \in ss} \cup {Turn(x) : x \in ss}
        Small == Simple \cup Nested(Simple) \cup {Skip}
        Large == Nested(Small) \cup {Turn(While(E("<", b, a), x)) : x \in {S(b, E("+", b, C!con(1)))}}
    IN  {<<P(e)>> : e \in Exprs} \cup {<<x, P(a), S(b, C!con(9)), x, P(b)>> : x \in Small}
        \cup {<<x, P(b)>> : x \in Large}
Compiler == INSTANCE Calc3 WITH
    Programs <- CompiledPrograms, Vars <- {"a", "b"}, pc <- at_code, printed <- output

-----------------------------------------------------------------------------
AllInit ==
    /\ which \in Checked
    /\ List!Init
    /\ IF which = "hsort" THEN Init
       ELSE /\ a0 = [k \in {0} |-> 1] /\ base = a0 /\ nmemb = 1 /\ n = 0 /\ start = -1 /\ pc = "resting"
    /\ IF which = "calculator" THEN Calculator!Init
       ELSE expr = <<>> /\ rest = <<>> /\ opnd_stack = <<>> /\ optr_stack = <<>> /\ ch = "none" /\ value = -1
    /\ IF which = "regex" THEN Regex!Init
       ELSE /\ rgxUnit = <<>> /\ str = <<>> /\ at = 0 /\ atUnit = 0 /\ min_match = TRUE
            /\ shift = 0 /\ numMatched = <<>> /\ found = "none"
    /\ IF which = "calc3" THEN Compiler!Init
       ELSE /\ source = <<>> /\ todo = <<>> /\ code = <<>> /\ lbl = 0 /\ at_code = 1
            /\ stack = <<>> /\ sym = <<>> /\ output = <<>>
    /\ NumArray!Init /\ (which # "numarray" => array.dims = <<1, 3>>)

AllNext ==
    \/ which = "hsort" /\ Next
       /\ UNCHANGED <<which, CalcVars, RegexVars, ListVars, ArrayVars, CodeVars>>
    \/ which = "calculator" /\ Calculator!Next
       /\ UNCHANGED <<which, vars, RegexVars, ListVars, ArrayVars, CodeVars>>
    \/ which = "regex" /\ Regex!Next
       /\ UNCHANGED <<which, vars, CalcVars, ListVars, ArrayVars, CodeVars>>
    \/ which = "list" /\ List!Next
       /\ UNCHANGED <<which, vars, CalcVars, RegexVars, ArrayVars, CodeVars>>
    \/ which = "numarray" /\ NumArray!Next
       /\ UNCHANGED <<which, vars, CalcVars, RegexVars, ListVars, CodeVars>>
    \/ which = "calc3" /\ Compiler!Next
       /\ UNCHANGED <<which, vars, CalcVars, RegexVars, ListVars, ArrayVars>>

AllFairness ==
    /\ WF_ListVars(which = "list" /\ List!MainSteps)
    /\ SF_ListVars(which = "list" /\ List!MainLocks)
    /\ WF_ListVars(which = "list" /\ List!SecondSteps)
    /\ WF_RegexVars(which = "regex" /\ Regex!Next)

AllSpec == AllInit /\ [][AllNext]_allVars /\ AllFairness

-----------------------------------------------------------------------------
(* The properties of the calculators and the compilers.                    *)

\* The calculators and the Tao parser agree (Calculators).
SameValue == which = "calculator" => Calculator!SameValue
\* The compiler and the interpreters of calc3 and sim.c agree (Calc3).
Compiles == which = "calc3" => Compiler!Compiles
SimAgrees == which = "calc3" => Compiler!SimAgrees
=============================================================================

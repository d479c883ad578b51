--------------------------------- MODULE Sim ---------------------------------
(***************************************************************************)
(* The interpreter of compiler/expr/sim.c.  It has no tree: every function *)
(* reads from token ti on, a loop goes back to an index, and the end of a   *)
(* statement that is not run is found by its braces and semicolons.  Each  *)
(* function of the source maps the state s of struct program to the state  *)
(* it leaves; stop says that the program exits, crashes or goes on for      *)
(* ever, which cuts short what comes after it.                             *)
(***************************************************************************)
EXTENDS Integers, SequencesExt

CONSTANT MaxStatements      \* bound: who runs more is taken to go on for ever

Truth(b) == IF b THEN 1 ELSE 0
Quotient(x, y) ==           \* towards 0; x / 0, which is undefined, is not looked at
    LET Abs(n) == IF n < 0 THEN -n ELSE n
        q == Abs(x) \div Abs(y)
    IN  IF y = 0 THEN 0 ELSE IF (x < 0) = (y < 0) THEN q ELSE -q

-----------------------------------------------------------------------------
(* The lexer: a token is a category and, of a number or a variable, what it *)
(* stands for.                                                             *)

Keywords  == [w \in {"while", "if", "else", "echo"} |-> w]
get_double == ("<=" :> "LE") @@ (">=" :> "GE") @@ ("!=" :> "EQ") @@ ("==" :> "EQ")
              @@ ("&&" :> "AND") @@ ("||" :> "OR")
token_char == ("+" :> "ADD") @@ ("-" :> "MINUS") @@ ("*" :> "MUL") @@ ("/" :> "DIV") @@ ("%" :> "MOD")
              @@ ("^" :> "POW") @@ ("<" :> "LT") @@ (">" :> "GT") @@ ("!" :> "NOT") @@ ("=" :> "ASSIGNMENT")
              @@ ("(" :> "LPAR") @@ (")" :> "RPAR") @@ ("{" :> "LBRACE") @@ ("}" :> "RBRACE")
              @@ (";" :> "SEMICOLON")
lexer(words) ==             \* words are <<"NUM", n>>, <<"VARIABLE", v>> or <<text, 0>>
    LET Category == Keywords @@ get_double @@ token_char
    IN  [k \in DOMAIN words |-> IF words[k][1] \in DOMAIN Category
                                THEN <<Category[words[k][1]], 0>> ELSE words[k]]

Type(t, ti) == IF ti \in DOMAIN t THEN t[ti][1] ELSE "NULL"
Advance(s) == [s EXCEPT !.ti = @ + 1]
Stop(s)    == [s EXCEPT !.stop = TRUE]

-----------------------------------------------------------------------------
(* Expressions.  1 program_eval_relational 2 program_eval_alg               *)
(* 3 program_additive_factor 4 program_multiplicative_factor                *)

ipow(b, e) == IF e < 0 THEN 0 ELSE b ^ e
Loops == <<{"LT", "LE", "GT", "GE", "NE", "EQ"}, {"ADD", "MINUS"}, {"MUL", "DIV", "MOD"}, {"POW"}>>
Operate(l, o, r) ==
    CASE o = "LT" -> Truth(l < r)  [] o = "LE" -> Truth(l <= r) [] o = "GT" -> Truth(l > r)
      [] o = "GE" -> Truth(l >= r) [] o = "NE" -> Truth(l # r)  [] o = "EQ" -> Truth(l = r)
      [] o = "ADD" -> l + r        [] o = "MINUS" -> l - r      [] o = "MUL" -> l * r
      [] o = "DIV" -> Quotient(l, r) [] o = "MOD" -> l - r * Quotient(l, r)
      [] o = "POW" -> ipow(l, r)

RECURSIVE Evaluate(_, _, _), program_eval_logic(_, _)
program_power_factor(t, s) ==
    LET o == Type(t, s.ti)
        Closed(r) == IF Type(t, r.ti) = "RPAR" THEN Advance(r) ELSE Stop(r)
    IN  CASE o = "NUM" -> [Advance(s) EXCEPT !.val = t[s.ti][2]]
          [] o = "VARIABLE" -> [Advance(s) EXCEPT !.val = s.data[t[s.ti][2]]]
          [] o = "LPAR" -> Closed(program_eval_logic(t, Advance(s)))
          [] OTHER -> Stop(s)

Evaluate(k, t, s) ==
    LET RECURSIVE More(_)
        More(l) ==
            IF l.stop \/ Type(t, l.ti) \notin Loops[k] THEN l
            ELSE LET r == Evaluate(k + 1, t, Advance(l))
                 IN  More([r EXCEPT !.val = Operate(l.val, Type(t, l.ti), @)])
    IN  CASE k = 5 -> program_power_factor(t, s)
          [] k = 3 /\ Type(t, s.ti) = "ADD" -> Evaluate(3, t, Advance(s))
          [] k = 3 /\ Type(t, s.ti) = "MINUS" -> [Evaluate(3, t, Advance(s)) EXCEPT !.val = -@]
          [] OTHER -> More(Evaluate(k + 1, t, s))

program_eval_logic(t, s) ==     \* behind && and || the same token is looked at again and again
    LET Alone(r) == IF Type(t, r.ti) \in {"AND", "OR", "NOT"} THEN Stop(r) ELSE r
    IN  IF Type(t, s.ti) = "NOT" THEN [program_eval_logic(t, Advance(s)) EXCEPT !.val = Truth(@ = 0)]
        ELSE Alone(Evaluate(1, t, s))

-----------------------------------------------------------------------------
(* Statements                                                              *)

Braces(t, from, to) == Cardinality({k \in from .. to : Type(t, k) = "LBRACE"})
                       - Cardinality({k \in from .. to : Type(t, k) = "RBRACE"})
\* Mutant: the first semicolon or brace, however deep it lies.
FirstEnd(t, ti) == 1 + Min({k \in ti .. Len(t) : Type(t, k) \in {"RBRACE", "SEMICOLON"}})
program_find_end_of_statement(t, ti) ==     \* of a statement that has an end
    1 + Min({k \in ti .. Len(t) : Type(t, k) \in {"RBRACE", "SEMICOLON"} /\ Braces(t, ti, k) = 0})

RECURSIVE program_eval_statement(_, _)
program_eval_assignment(t, s) ==
    LET Store(r) == IF r.stop THEN r ELSE [r EXCEPT !.data[t[s.ti][2]] = r.val]
    IN  Store(program_eval_logic(t, [s EXCEPT !.ti = @ + 2]))

program_eval_block(t, s) ==         \* the closing brace is left to the caller
    LET RECURSIVE Statements(_)
        Statements(r) == IF r.stop \/ Type(t, r.ti) \in {"NULL", "RBRACE"} THEN r
                         ELSE Statements(program_eval_statement(t, r))
    IN  Statements(Advance(s))

program_eval_while(t, s) ==
    LET curr_ti == s.ti + 1
        RECURSIVE Turns(_)
        Test(c) == IF c.stop THEN c
                   ELSE IF c.val # 0 THEN Turns(program_eval_statement(t, c))
                   ELSE [c EXCEPT !.ti = program_find_end_of_statement(t, curr_ti)]
        Turns(r) == IF r.stop THEN r ELSE Test(program_eval_logic(t, [r EXCEPT !.ti = curr_ti]))
    IN  IF Type(t, curr_ti) = "LPAR" THEN Turns(s) ELSE Stop(s)

program_eval_if(t, s) ==            \* at the end of the program there is no token to compare with else
    LET Run(r, next_ti) == [program_eval_statement(t, r) EXCEPT !.ti = next_ti]
        Choose(c, more0, more1) ==
            IF c.stop THEN c
            ELSE IF c.val # 0 THEN Run(c, more1)
            ELSE IF more1 # more0 THEN Run([c EXCEPT !.ti = more0 + 1], more1)
            ELSE [c EXCEPT !.ti = more0]
        Branches(more0) ==
            CASE Type(t, more0) = "NULL" -> Stop(s)
              [] Type(t, more0) = "else" ->
                    Choose(program_eval_logic(t, Advance(s)), more0, program_find_end_of_statement(t, more0 + 1))
              [] OTHER -> Choose(program_eval_logic(t, Advance(s)), more0, more0)
    IN  IF Type(t, s.ti + 1) = "LPAR" THEN Branches(program_find_end_of_statement(t, s.ti + 1)) ELSE Stop(s)

program_eval_echo(t, s) ==
    LET Output(r) == [r EXCEPT !.out = Append(@, r.val)] IN Output(program_eval_logic(t, Advance(s)))

program_eval_statement(t, before) ==
    LET s == [before EXCEPT !.left = @ - 1]
        o == Type(t, s.ti)
    IN  IF before.left = 0 THEN Stop(before)
        ELSE CASE o = "NULL" -> s
               [] o = "while" -> program_eval_while(t, s)
               [] o = "if" -> program_eval_if(t, s)
               [] o = "echo" -> program_eval_echo(t, s)
               [] o = "VARIABLE" ->     \* not advanced when no = follows
                     IF Type(t, s.ti + 1) = "ASSIGNMENT" THEN program_eval_assignment(t, s) ELSE s
               [] o = "LBRACE" -> program_eval_block(t, s)
               [] o \in {"SEMICOLON", "RBRACE"} -> Advance(s)
               [] OTHER -> Stop(s)

program_init(V) == [ti |-> 1, data |-> [v \in V |-> 0], out |-> <<>>, val |-> 0,
                    left |-> MaxStatements, stop |-> FALSE]
program_run(t, V) ==
    LET RECURSIVE Statements(_)
        Statements(s) == IF s.stop \/ s.ti > Len(t) THEN s ELSE Statements(program_eval_statement(t, s))
    IN  Statements(program_init(V))

=============================================================================

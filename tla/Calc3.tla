-------------------------------- MODULE Calc3 --------------------------------
(***************************************************************************)
(* The compiler of compiler/lex_yacc/calc3 (calc3b.c), which prints code    *)
(* for a stack machine, with labels counted through the whole program, and *)
(* the machine, which is no part of the repository.  The interpreters that  *)
(* it is compared with are calc3a.c (module Calc3Tree), with the same tree, *)
(* and sim.c (module Sim), which reads nearly the same language.           *)
(***************************************************************************)
EXTENDS Calc3Tree

CONSTANT Programs       \* bound: the programs considered, sequences of statements

VARIABLES source,       \* the program
          todo,         \* its statements that have not been compiled
          code, lbl,    \* what has been printed, the labels used
          pc, stack, sym, printed       \* the machine

vars == <<source, todo, code, lbl, pc, stack, sym, printed>>

-----------------------------------------------------------------------------
(* calc3b.c: the code for p when n labels are in use, and how many are then *)

Emit(before, op, arg) == [before EXCEPT !.code = Append(@, <<op, arg>>)]
Label(before) == [Emit(before, "label", before.lbl) EXCEPT !.lbl = @ + 1]
Jump(before, op) == [Emit(before, op, before.lbl) EXCEPT !.lbl = @ + 1]
Command == ("+" :> "add") @@ ("-" :> "sub") @@ ("*" :> "mul") @@ ("/" :> "div") @@ ("<" :> "compLT")
           @@ (">" :> "compGT") @@ (">=" :> "compGE") @@ ("<=" :> "compLE") @@ ("!=" :> "compNE") @@ ("==" :> "compEQ")

RECURSIVE compile(_, _)
\* Mutant: what is done falls through into what is done otherwise.
FallsThrough(p, b) ==
    LET then == compile(p.op[2], Jump(compile(p.op[1], b), "jz"))
        lbl1 == compile(p.op[1], b).lbl
    IN  IF Len(p.op) = 2 THEN Emit(then, "label", lbl1) ELSE compile(p.op[3], Emit(then, "label", lbl1))
If(p, b) ==
    LET then == compile(p.op[2], Jump(compile(p.op[1], b), "jz"))
        lbl1 == compile(p.op[1], b).lbl
        lbl2 == then.lbl
    IN  IF Len(p.op) = 2 THEN Emit(then, "label", lbl1)
        ELSE Emit(compile(p.op[3], Emit(Jump(then, "jmp"), "label", lbl1)), "label", lbl2)
While(p, b) ==
    LET test == compile(p.op[1], Label(b))
        body == compile(p.op[2], Jump(test, "jz"))
    IN  Emit(Emit(body, "jmp", b.lbl), "label", test.lbl)
compile(p, b) ==
    CASE p.type = "NULL" -> b
      [] p.type = "typeCon" -> Emit(b, "push", <<"con", p.value>>)
      [] p.type = "typeId" -> Emit(b, "push", <<"id", p.i>>)
      [] IsStmt(p, "WHILE") -> While(p, b)
      [] IsStmt(p, "IF") -> If(p, b)
      [] IsStmt(p, "PRINT") -> Emit(compile(p.op[1], b), "print", 0)
      [] IsStmt(p, "=") -> Emit(compile(p.op[2], b), "pop", p.op[1].i)
      [] IsStmt(p, "UMINUS") -> Emit(compile(p.op[1], b), "neg", 0)
      [] IsStmt(p, ";") -> compile(p.op[2], compile(p.op[1], b))
      [] OTHER -> Emit(compile(p.op[2], compile(p.op[1], b)), Command[p.oper], 0)

Init ==
    /\ source \in Programs /\ todo = source
    /\ code = <<>> /\ lbl = 0
    /\ pc = 1 /\ stack = <<>> /\ sym = [v \in Vars |-> 0] /\ printed = <<>>

function ==             \* calc3.y: a statement has been read
    /\ todo # <<>>
    /\ LET done == compile(Head(todo), [code |-> code, lbl |-> lbl])
       IN  code' = done.code /\ lbl' = done.lbl
    /\ todo' = Tail(todo)
    /\ UNCHANGED <<source, pc, stack, sym, printed>>

-----------------------------------------------------------------------------
(* The machine                                                             *)

Ended == todo = <<>> /\ pc > Len(code)
At(ops) == todo = <<>> /\ pc <= Len(code) /\ code[pc][1] \in ops
Arg == code[pc][2]
Top == Last(stack)
Under == stack[Len(stack) - 1]

PushIt ==
    /\ At({"push"})
    /\ stack' = Append(stack, IF Arg[1] = "id" THEN sym[Arg[2]] ELSE Arg[2])
    /\ pc' = pc + 1 /\ UNCHANGED <<source, todo, code, lbl, sym, printed>>

PopIt ==
    /\ At({"pop"})
    /\ sym' = [sym EXCEPT ![Arg] = Top] /\ stack' = Front(stack)
    /\ pc' = pc + 1 /\ UNCHANGED <<source, todo, code, lbl, printed>>

Operation ==
    /\ At({"neg"} \cup {Command[o] : o \in DOMAIN Command})
    /\ stack' = IF At({"neg"}) THEN Append(Front(stack), -Top)
                ELSE LET o == CHOOSE o \in DOMAIN Command : At({Command[o]})
                     IN  Append(Front(Front(stack)), Arith(o, Under, Top))
    /\ pc' = pc + 1 /\ UNCHANGED <<source, todo, code, lbl, sym, printed>>

OutputTop ==
    /\ At({"print"})
    /\ printed' = Append(printed, Top) /\ stack' = Front(stack)
    /\ pc' = pc + 1 /\ UNCHANGED <<source, todo, code, lbl, sym>>

GoTo ==
    /\ At({"jz", "jmp", "label"})
    /\ pc' = IF At({"jmp"}) \/ (At({"jz"}) /\ Top = 0)
             THEN CHOOSE k \in DOMAIN code : code[k] = <<"label", Arg>> ELSE pc + 1
    /\ stack' = IF At({"jz"}) THEN Front(stack) ELSE stack
    /\ UNCHANGED <<source, todo, code, lbl, sym, printed>>

Next == function \/ PushIt \/ PopIt \/ Operation \/ OutputTop \/ GoTo

Spec == Init /\ [][Next]_vars

-----------------------------------------------------------------------------
\* The code of calc3b.c prints what the interpreter calc3a.c prints, and leaves
\* the same values of the variables, and nothing on the stack (only expressions
\* that are statements leave their values there, which nothing pops; the programs
\* considered have none, for sim.c does not take them).
Compiles ==
    LET Agree(s) == printed = s.out /\ sym = s.sym /\ stack = <<>>
    IN  Ended => Agree(Interpreted(source))

\* sim.c prints the same and leaves the same values when the program is written
\* as it needs it (Careful): it finds the end of a statement, and the end of a
\* loop, by braces and semicolons alone.
SimAgrees ==
    LET words == FlattenSeq([k \in DOMAIN source |-> Stmt(source[k])])
        Agree(r, s) == ~r.stop /\ r.out = s.out /\ r.data = s.sym
    IN  Ended => Agree(program_run(lexer(words), Vars), Interpreted(source))
=============================================================================

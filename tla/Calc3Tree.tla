------------------------------ MODULE Calc3Tree ------------------------------
(***************************************************************************)
(* The programs of compiler/lex_yacc/calc3: the trees that the grammar      *)
(* (calc3.y) makes, the words it makes them from, and what the interpreter *)
(* (calc3a.c) does with them.                                              *)
(***************************************************************************)
EXTENDS Sim

CONSTANTS
    Vars,               \* bound: the variables of the programs
    Careful             \* are they written with all the braces that sim.c needs?

-----------------------------------------------------------------------------
con(value) == [type |-> "typeCon", value |-> value]
id(i) == [type |-> "typeId", i |-> i]
opr(oper, op) == [type |-> "typeOpr", oper |-> oper, op |-> op]
NULL == [type |-> "NULL"]

\* What the grammar reads it from: <<text, 0>>, <<"NUM", n>> or <<"VARIABLE", v>>.
W(text) == <<text, 0>>
Braced(ws) == <<W("{")>> \o ws \o <<W("}")>>
Binding == <<{"<", ">", ">=", "<=", "!=", "=="}, {"+", "-"}, {"*", "/"}, {"UMINUS"}>>
Strength(p) == IF p.type # "typeOpr" THEN 5 ELSE CHOOSE k \in DOMAIN Binding : p.oper \in Binding[k]
IsStmt(p, oper) == p.type = "typeOpr" /\ p.oper = oper

RECURSIVE Expr(_), Stmt(_), Stmts(_)
Operand(p, strength, right) ==
    IF \/ Strength(p) < strength + right
       \/ /\ Careful /\ right = 1
          /\ strength = 3 /\ Strength(p) = 4
    THEN <<W("(")>> \o Expr(p) \o <<W(")")>> ELSE Expr(p)
Expr(p) ==
    CASE p.type = "typeCon" -> << <<"NUM", p.value>> >>
      [] p.type = "typeId" -> << <<"VARIABLE", p.i>> >>
      [] p.type = "typeOpr" ->
            IF p.oper = "UMINUS" THEN <<W("-")>> \o Operand(p.op[1], 4, 0)
            ELSE Operand(p.op[1], Strength(p), 0) \o <<W(p.oper)>> \o Operand(p.op[2], Strength(p), 1)
Body(p, before_else) ==
    IF IsStmt(p, "IF") /\ (Careful \/ (before_else /\ Len(p.op) = 2)) THEN Braced(Stmt(p)) ELSE Stmt(p)
Stmts(p) == IF IsStmt(p, ";") /\ p.op[1] # NULL THEN Stmts(p.op[1]) \o Stmt(p.op[2]) ELSE Stmt(p)
Stmt(p) ==
    LET Start(word) == <<W(word), W("(")>> \o Expr(p.op[1]) \o <<W(")")>>
    IN  CASE IsStmt(p, ";") -> IF p.op[1] = NULL THEN <<W(";")>> ELSE Braced(Stmts(p))
          [] IsStmt(p, "PRINT") -> <<W("echo")>> \o Expr(p.op[1]) \o <<W(";")>>
          [] IsStmt(p, "=") -> Expr(p.op[1]) \o <<W("=")>> \o Expr(p.op[2]) \o <<W(";")>>
          [] IsStmt(p, "WHILE") -> Start("while") \o Body(p.op[2], FALSE)
          [] IsStmt(p, "IF") -> Start("if") \o Body(p.op[2], Len(p.op) > 2)
                                \o (IF Len(p.op) > 2 THEN <<W("else")>> \o Body(p.op[3], FALSE) ELSE <<>>)
          [] OTHER -> Expr(p) \o <<W(";")>>

-----------------------------------------------------------------------------
(* calc3a.c: what is left by the interpretation of p from s.               *)

Arith(o, l, r) ==
    CASE o = "+" -> l + r [] o = "-" -> l - r [] o = "*" -> l * r [] o = "/" -> Quotient(l, r)
      [] o = "<" -> Truth(l < r)   [] o = ">" -> Truth(l > r)   [] o = ">=" -> Truth(l >= r)
      [] o = "<=" -> Truth(l <= r) [] o = "!=" -> Truth(l # r)  [] o = "==" -> Truth(l = r)

RECURSIVE ex(_, _)
ex(p, s) ==
    LET Give(state, v) == [state EXCEPT !.val = v]
        first == ex(p.op[1], s)
        second == ex(p.op[2], first)
        RECURSIVE Loop(_)
        Loop(r) == LET c == ex(p.op[1], r) IN IF c.val = 0 THEN Give(c, 0) ELSE Loop(ex(p.op[2], c))
    IN  CASE p.type = "NULL" -> Give(s, 0)
          [] p.type = "typeCon" -> Give(s, p.value)
          [] p.type = "typeId" -> Give(s, s.sym[p.i])
          [] IsStmt(p, "WHILE") -> Loop(s)
          [] IsStmt(p, "IF") -> Give(IF first.val # 0 THEN second
                                     ELSE IF Len(p.op) > 2 THEN ex(p.op[3], first) ELSE first, 0)
          [] IsStmt(p, "PRINT") -> [first EXCEPT !.out = Append(@, first.val), !.val = 0]
          [] IsStmt(p, ";") -> second
          [] IsStmt(p, "=") -> LET r == ex(p.op[2], s) IN [r EXCEPT !.sym[p.op[1].i] = r.val]
          [] IsStmt(p, "UMINUS") -> Give(first, -first.val)
          [] OTHER -> Give(second, Arith(p.oper, first.val, second.val))

Interpreted(ps) == FoldLeft(LAMBDA s, p : ex(p, s), [sym |-> [v \in Vars |-> 0], out |-> <<>>, val |-> 0], ps)
=============================================================================

---------------------------- MODULE TaoRoutineMC ----------------------------
(***************************************************************************)
(* Routines for TLC: all of a few phrases, and a few longer ones in which  *)
(* loops, branches, yields and calls of the routine itself meet.           *)
(***************************************************************************)
EXTENDS TaoRoutine

\* The vectors that parsePhrase makes of a list of statements, by length:
\* a header comes with its block, else if and else only in a chain.
Vectors(longest, commands) ==
    LET Headed(heads, block, rest) ==
          {<<h, "lbrace">> \o b \o <<"rbrace">> \o r : h \in heads, b \in block, r \in rest}
        vector[n \in 0 .. longest, chain \in BOOLEAN] ==
          IF n = 0 THEN {<<>>}
          ELSE UNION {Headed(heads, vector[m, FALSE], vector[n - 3 - m, heads = {"if"} \/ heads = {"elseif"}]) :
                        m \in 0 .. n - 3,
                        heads \in {Loops, {"if"}} \cup (IF chain THEN {{"elseif"}, {"else"}} ELSE {})}
               \cup {<<c>> \o r : c \in commands, r \in vector[n - 1, FALSE]}
    IN  UNION {vector[n, FALSE] : n \in 1 .. longest}

Block(head, body) == <<head, "lbrace">> \o body \o <<"rbrace">>

Written ==
    {Block("while", Block("if", <<"break">>) \o Block("elseif", <<"skip">>) \o Block("else", <<"yield">>)),
     Block("if", <<"phrase">>) \o Block("elseif", <<"phrase">>) \o Block("else", <<"phrase">>) \o <<"phrase">>,
     Block("for", <<"phrase">> \o Block("foreach", <<"assign">>) \o <<"phrase">>),
     Block("while", Block("while", <<"phrase">>) \o <<"break">>),
     Block("if", Block("for", <<"skip">>)) \o Block("elseif", <<"return">>) \o <<"assign", "call">>,
     <<"assign">> \o Block("if", <<"call", "assign">>) \o <<"yield", "namedcall">>,
     Block("for", Block("if", <<"call">>)) \o <<"phrase">>,
     Block("foreach", <<"yield">>) \o Block("for", <<>>),
     Block("if", <<"call">>) \o Block("else", <<"namedcall", "return">>)}

Routines ==
    Written \cup Vectors(6, {"break", "yield", "call"}) \cup Vectors(5, {"skip", "return", "assign"})
            \cup Vectors(8, {"break"})
Recursive == {<<"assign">> \o Block("if", <<"call">>) \o <<"phrase">>}
Walks == {Block("foreach", Block("if", <<"call">>))}

\* What the proofs about loops ask of a routine holds for all of these.
ASSUME RoutinesBraced == \A p \in Routines \cup Recursive \cup Walks : Braced(p) /\ Chained(p)

=============================================================================

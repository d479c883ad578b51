----------------------------- MODULE TaoPhrases -----------------------------
(***************************************************************************)
(* The phrases of a parsed Tao routine: a vector of headers, braces and    *)
(* commands, each with the place where execution goes on.  Phrase i of the *)
(* vector is position i + 1 of the sequence p, the jump target -1 of a     *)
(* phrase that was never given one is NoPhrase.                            *)
(***************************************************************************)
EXTENDS Naturals, Sequences, FiniteSetsExt

Loops    == {"while", "for", "foreach"}
Branches == {"if", "elseif", "else"}
Returns  == {"return", "yield"}
Braces   == {"lbrace", "rbrace"}
NoPhrase == 0

At(p, kinds) == {i \in DOMAIN p : p[i] \in kinds}

\* The first closing brace from `left' on that closes every brace opened there.
PhrasePair(p, left) ==
    LET In(kind, j) == Cardinality(At(p, {kind}) \cap left .. j)
        Ends == {j \in At(p, {"rbrace"}) : j >= left /\ In("lbrace", j) = In("rbrace", j)}
    IN  IF Ends = {} THEN NoPhrase ELSE Min(Ends)

\* Where a loop ends, or a condition that does not hold leads.
\* Mutant: to the closing brace itself, which leads a loop round again.
OnBrace(p, h) == PhrasePair(p, h + 1)
PastBlock(p, h) == PhrasePair(p, h + 1) + 1

\* The form that the jumps take for granted: each header is followed by a
\* block in braces that ends in the text.
Braced(p) ==
    \A h \in At(p, Loops \cup Branches) :
        h + 1 \in At(p, {"lbrace"}) /\ PhrasePair(p, h + 1) # NoPhrase

\* An else if or else comes right behind the block of an if or else if, which
\* the walk along the chain does not look back at.
Chained(p) ==
    \A h \in At(p, {"elseif", "else"}) :
        \E g \in At(p, {"if", "elseif"}) : PhrasePair(p, g + 1) = h - 1

\* Mutant: only the next branch is skipped.
ChainNext(p) ==
    [j \in DOMAIN p |-> IF j + 1 \in At(p, {"elseif", "else"}) THEN PhrasePair(p, j + 1) ELSE j]

\* The closing brace of the last block of a chain of if, else if and else.
ChainEnd(p) ==
    LET end[j \in DOMAIN p] ==
          IF j + 1 \in At(p, {"elseif", "else"}) THEN end[PhrasePair(p, j + 1)] ELSE j
    IN  end

\* setupLogicLoop: the table of jumps that the parser leaves in the phrases.
\* A break or skip takes the nearest loop header in front of it in the text.
JumpTable(p) ==
    LET pair == [h \in At(p, Loops \cup Branches) |-> PhrasePair(p, h + 1)]
        chain == ChainEnd(p)
        Closed(j) == {h \in DOMAIN pair : pair[h] = j}
        Nearest(i) == {h \in At(p, Loops) : h < i}
        Brace(j) == IF Closed(j) = {} THEN j + 1
                    ELSE LET h == Max(Closed(j))
                         IN  CASE p[h] \in Loops -> h
                               [] p[h] = "else"  -> j + 1
                               [] OTHER          -> chain[j] + 1
    IN  [i \in DOMAIN p |->
           CASE p[i] \in Returns -> Len(p) + 1
             [] p[i] \in Loops \cup {"if", "elseif"} -> PastBlock(p, i)
             [] p[i] = "rbrace" -> Brace(i)
             [] p[i] = "break" /\ Nearest(i) # {} -> PastBlock(p, Max(Nearest(i)))
             [] p[i] = "skip" /\ Nearest(i) # {} -> Max(Nearest(i))
             [] OTHER -> NoPhrase]

\* Where execution stands once the braces from position x on are behind it.
Settled(p, jumpTo, x) ==
    LET settle[i \in 1 .. Len(p) + 1] ==
          IF i \notin At(p, Braces) THEN i
          ELSE settle[IF p[i] = "lbrace" THEN i + 1 ELSE jumpTo[i]]
    IN  settle[x]

=============================================================================

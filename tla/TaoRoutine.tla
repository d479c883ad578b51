----------------------------- MODULE TaoRoutine -----------------------------
(***************************************************************************)
(* The activations of one Tao routine.  A routine is one TaoRoutine object *)
(* with one vector of phrases and one set of variables, which all its      *)
(* activations share: what makes them separate calls is numCalled, the     *)
(* dataStack and idResume.  The call sites are the phrases of the routine  *)
(* itself and the site Main outside it, each with a TaoFunCall object.     *)
(* What an expression yields is left open; a variable holds Null or the    *)
(* depth of the activation that it was last set for.                       *)
(***************************************************************************)
EXTENDS TaoPhrases, SequencesExt

CONSTANTS Progs,      \* the routines considered
          MaxDepth,   \* bound: activations at a time
          MaxCalls,   \* bound: numCalled, which yields let grow
          MaxElems    \* bound: the elements of an array that a foreach walks

ASSUME ProgsAssumption == Progs \subseteq Seq(STRING) \ {<<>>}
ASSUME BoundsAssumption == MaxDepth \in Nat /\ MaxCalls \in Nat /\ MaxElems \in Nat

VARIABLES
    prog, jumpTo,     \* the phrases and their targets, as the parser leaves them
    frames,           \* the activations in progress, the latest one last
    idResume,         \* where the next call starts
    numCalled,        \* calls that have not been counted off again
    dataStack,        \* what recursive calls have saved
    content,          \* the contents of the parameters and the local variables
    siteCalls,        \* TaoFunCall::numCalled of each call site
    firstRound,       \* the for loops that are to compute `first' next
    index, element,   \* foreach: the next element; whether refElement is there
    crashed

code  == <<prog, jumpTo>>
calls == <<numCalled, dataStack, siteCalls>>
loops == <<firstRound, index, element>>
vars  == <<code, frames, idResume, calls, content, loops, crashed>>

Main == 0
Null == 0
Data == {"param", "local"}
Calls == {"call", "namedcall"}
Top   == Last(frames)
Here  == Top.at

\* The other variables of the routine, when a phrase does nothing but step on.
Goto(next) ==
    frames' = [frames EXCEPT ![Len(frames)] = [@ EXCEPT !.at = next, !.last = Here]]

-----------------------------------------------------------------------------
Init ==
    /\ prog \in Progs /\ jumpTo = JumpTable(prog)
    /\ frames = <<>> /\ idResume = 1
    /\ numCalled = 0 /\ dataStack = <<>>
    /\ content = [v \in Data |-> Null]
    /\ siteCalls = [s \in {Main} \cup DOMAIN prog |-> 0]
    /\ firstRound = At(prog, {"for"})
    /\ index = [i \in DOMAIN prog |-> 0] /\ element = At(prog, {"foreach"})
    /\ crashed = FALSE

\* passParam; an argument that is not passed leaves the parameter as it is.
\* Mutant: only the outermost call passes its argument.
PassOnce(passed) == IF passed /\ numCalled = 0 THEN [content EXCEPT !["param"] = 1] ELSE content
Pass(passed) == IF passed THEN [content EXCEPT !["param"] = Len(frames) + 1] ELSE content

\* What run pushes when the routine is running already: duplicateByData finds
\* rtti() = TAO_Reference in every kind of reference, and stores nulls.
\* Mutant: the data is saved from the third call on.
PushLate == IF numCalled > 1 THEN Append(dataStack, [v \in Data |-> Null]) ELSE dataStack
Push == IF numCalled > 0 THEN Append(dataStack, [v \in Data |-> Null]) ELSE dataStack

\* TaoFunCall::execute up to the phrases of TaoRoutine::run.
Call(site, passed) ==
    /\ Len(frames) < MaxDepth /\ numCalled < MaxCalls
    /\ siteCalls' = [siteCalls EXCEPT ![site] = @ + 1]
    /\ content' = Pass(passed) /\ dataStack' = Push
    /\ numCalled' = numCalled + 1
    /\ frames' = Append(frames, [at |-> idResume, last |-> Main, site |-> site,
                                 owns |-> IF passed THEN {"param"} ELSE {}, nested |-> FALSE])
    /\ idResume' = 1
    /\ UNCHANGED loops

CallFromMain == frames = <<>> /\ \E passed \in BOOLEAN : Call(Main, passed)

\* A call found by its name in the default name space does not count it off.
\* Mutant: no call does.
CountOffNone(s) == siteCalls
CountOff(s) == IF s # Main /\ prog[s] = "namedcall" THEN siteCalls
               ELSE [siteCalls EXCEPT ![s] = @ - 1]

\* TaoFunCall::execute behind TaoRoutine::run.
Return(resume) ==
    LET s == Top.site
        below == Front(frames)
    IN  /\ frames' = IF below = <<>> THEN below
                     ELSE [below EXCEPT ![Len(below)] =
                             [@ EXCEPT !.at = s + 1, !.last = s, !.nested = TRUE]]
        /\ siteCalls' = CountOff(s)
        /\ idResume' = resume
        /\ UNCHANGED loops

-----------------------------------------------------------------------------
(* One phrase of the latest activation: TaoPhrase::execute of each kind.    *)

Quiet == UNCHANGED <<idResume, calls, content, loops, crashed>>

Command == Quiet /\ prog[Here] \in {"phrase", "lbrace", "else"} /\ Goto(Here + 1)
Jump == Quiet /\ prog[Here] \in {"rbrace", "break", "skip"} \cup Returns /\ Goto(jumpTo[Here])
Test == Quiet /\ prog[Here] \in {"while", "if", "elseif"} /\ Goto(Here + 1)
Fail == Quiet /\ prog[Here] \in {"while", "if", "elseif"} /\ Goto(jumpTo[Here])

AssignLocal ==
    /\ prog[Here] = "assign"
    /\ content' = [content EXCEPT !["local"] = Len(frames)]
    /\ frames' = [frames EXCEPT ![Len(frames)] =
                    [@ EXCEPT !.at = Here + 1, !.last = Here, !.owns = Top.owns \cup {"local"}]]
    /\ UNCHANGED <<idResume, calls, loops, crashed>>

\* Mutant: a loop that ends is not prepared for the next time.
ForOnce ==
    /\ prog[Here] = "for" /\ firstRound' = firstRound \ {Here}
    /\ Goto(Here + 1) \/ Goto(jumpTo[Here])
    /\ UNCHANGED <<idResume, calls, content, index, element, crashed>>

For ==
    /\ prog[Here] = "for"
    /\ \/ Goto(Here + 1) /\ firstRound' = firstRound \ {Here}
       \/ Goto(jumpTo[Here]) /\ firstRound' = firstRound \cup {Here}
    /\ UNCHANGED <<idResume, calls, content, index, element, crashed>>

\* Behind the last of its elements the loop starts anew, but gives up
\* refElement itself instead of what it refers to.
ForEach ==
    /\ prog[Here] = "foreach"
    /\ \/ Goto(jumpTo[Here]) /\ UNCHANGED <<index, element, crashed>>     \* no array
       \/ \E size \in 0 .. MaxElems :
            \/ /\ index[Here] >= size
               /\ index' = [index EXCEPT ![Here] = 0] /\ element' = element \ {Here}
               /\ Goto(jumpTo[Here]) /\ UNCHANGED crashed
            \/ /\ index[Here] < size /\ Here \in element
               /\ index' = [index EXCEPT ![Here] = @ + 1]
               /\ Goto(Here + 1) /\ UNCHANGED <<element, crashed>>
            \/ /\ index[Here] < size /\ Here \notin element
               /\ crashed' = TRUE /\ UNCHANGED <<frames, index, element>>
    /\ UNCHANGED <<idResume, calls, content, firstRound>>

CallFromPhrase == prog[Here] \in Calls /\ \E passed \in BOOLEAN : Call(Here, passed)

-----------------------------------------------------------------------------
(* The end of TaoRoutine::run.                                             *)

\* A phrase without a target, or a null object to be returned: run returns at
\* once and leaves everything as it stands.
Abandon ==
    /\ \/ Here = NoPhrase
       \/ Here > Len(prog) /\ prog[Top.last] \in Returns
    /\ Return(idResume)
    /\ UNCHANGED <<numCalled, dataStack, content>>

\* idResume: behind the yield, unless it is the last phrase.
\* Mutant: the last phrase is like the others.
BehindAlways(y) == y + 1
Behind(y) == IF y < Len(prog) THEN y + 1 ELSE 1

\* The activation stays counted; its parameters are let go.
Yield ==
    /\ Here > Len(prog) /\ prog[Top.last] = "yield"
    /\ Return(Behind(Top.last))
    /\ content' = [content EXCEPT !["param"] = Null]
    /\ UNCHANGED <<numCalled, dataStack>>

Finish ==
    /\ Here > Len(prog) /\ prog[Top.last] # "yield"
    /\ Return(1)
    /\ numCalled' = numCalled - 1
    /\ LET data == IF numCalled > 1 THEN Last(dataStack) ELSE content
       IN  content' = [data EXCEPT !["param"] = Null]
    /\ dataStack' = IF numCalled > 1 THEN Front(dataStack) ELSE dataStack

Execute == Command \/ Jump \/ Test \/ Fail \/ AssignLocal \/ For \/ ForEach
             \/ (CallFromPhrase /\ UNCHANGED crashed)
Leave == (Abandon \/ Yield \/ Finish) /\ UNCHANGED crashed

Next ==
    /\ ~crashed /\ UNCHANGED code
    /\ \/ CallFromMain /\ UNCHANGED crashed
       \/ frames # <<>> /\ Here \in DOMAIN prog /\ Execute
       \/ frames # <<>> /\ Leave

Spec == Init /\ [][Next]_vars

-----------------------------------------------------------------------------
(* Properties *)

Jumping == At(prog, Loops \cup {"if", "elseif", "rbrace", "break", "skip"} \cup Returns)
Places == 1 .. Len(prog) + 1 \cup {jumpTo[i] : i \in Jumping}
Sites == {Main} \cup DOMAIN prog
Frame == [at : Places, last : Sites, site : Sites, owns : SUBSET Data, nested : BOOLEAN]

\* Every variable has its type: an activation stands at a phrase, at their end
\* or at the target of a jump, and the next call starts at a phrase.
TypeOK ==
    /\ prog \in Seq(STRING) \ {<<>>} /\ DOMAIN jumpTo = DOMAIN prog
    /\ frames \in Seq(Frame) /\ idResume \in DOMAIN prog /\ numCalled \in Nat
    /\ \A k \in DOMAIN frames : frames[k].last = Main => frames[k].at \in DOMAIN prog
    /\ dataStack \in Seq([Data -> Nat]) /\ content \in [Data -> Nat]
    /\ siteCalls \in [Sites -> Nat]
    /\ firstRound \subseteq DOMAIN prog /\ element \subseteq DOMAIN prog
    /\ index \in [DOMAIN prog -> Nat] /\ crashed \in BOOLEAN

\* The data that run pops when it ends is there and nothing is left behind,
\* whatever ways out of the routine (its end, return, yield, a failure) the
\* calls before have taken: one saved vector for each counted call but the first.
DataStackFits == Len(dataStack) = IF numCalled > 0 THEN numCalled - 1 ELSE 0

\* A running activation is counted, by the routine and by its call site, so
\* that no site clears the new objects of a call that is still in progress;
\* a site that knows its routine counts no other calls, and neither does a
\* routine that can only end at its end.
RunsIn(fs, s) == Cardinality({k \in DOMAIN fs : fs[k].site = s})
EndsOnlyAtItsEnd == At(prog, Returns) = {} /\ \A i \in Jumping : jumpTo[i] # NoPhrase
ActivationsCounted ==
    /\ numCalled >= Len(frames) /\ (EndsOnlyAtItsEnd => numCalled = Len(frames))
    /\ \A s \in Sites :
         /\ siteCalls[s] >= RunsIn(frames, s)
         /\ s \notin At(prog, {"namedcall"}) => siteCalls[s] = RunsIn(frames, s)

\* What an activation was passed, and what it has assigned, is in the shared
\* variables until the activation calls the routine itself.
ArgumentsHeld ==
    frames # <<>> /\ ~Top.nested => \A v \in Top.owns : content[v] = Len(frames)

\* The statement that the outermost activation is about to execute.
Outermost ==
    IF frames = <<>> THEN 0
    ELSE IF frames[1].at = NoPhrase THEN Len(prog) + 1
    ELSE Settled(prog, jumpTo, frames[1].at)

\* The outermost activation takes its statements in the order that the nested
\* blocks of the routine give.
B == INSTANCE Blocks WITH prog <- prog, at <- Outermost
ImplementsBlocks == B!Spec

\* A loop whose block is left through its closing brace only and in which the
\* routine does not call itself; every break and skip finds its loop around it.
Inside(h) == h + 1 .. PhrasePair(prog, h + 1)
Orderly(h) ==
    /\ \A i \in At(prog, {"break", "skip"}) : ~B!NoPromise(i)
    /\ Inside(h) \cap At(prog, {"break"} \cup Returns \cup Calls) = {}

\* An orderly for loop computes `first' when it is entered and `step' when it
\* comes round.
ForStartsAtFirst ==
    (frames # <<>> /\ Here \in At(prog, {"for"}) /\ Orderly(Here))
    => (Here \in firstRound <=> Top.last \notin Inside(Here))

\* An orderly foreach that comes round goes on behind the element it had, and
\* refElement, which the loop gives up where it ends, is still there.
ForEachGoesOn ==
    (frames # <<>> /\ Here \in At(prog, {"foreach"}) /\ Orderly(Here) /\ Top.last \in Inside(Here))
    => index[Here] > 0 /\ Here \in element

\* The stronger statements that the code does not satisfy: that no foreach reads
\* through the pointer that it has given up, and that none does so between two
\* of its own elements, after a call of the routine by itself from the block.
NeverReadsNull == ~crashed
CallsSpareElement == crashed => Top.last \notin Inside(Here)

\* "TaoParamRefer and TaoDataRefer object along with their contents are saved"
\* when the routine is called recursively (taoRoutine.cpp:122): an activation
\* finds the parameter it was passed when it has called the routine itself.
RecursionKeepsParams ==
    frames # <<>> /\ "param" \in Top.owns => content["param"] = Len(frames)

=============================================================================

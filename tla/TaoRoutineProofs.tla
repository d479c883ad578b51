-------------------------- MODULE TaoRoutineProofs --------------------------
(***************************************************************************)
(* What keeps the activations of a routine apart, for every routine (with  *)
(* any phrases and any table of jumps) and any depth of recursion: the     *)
(* type invariant, the size of the saved data, the counts of calls, and    *)
(* what the shared variables hold.  These invariants are inductive         *)
(* together: what run does at its end depends on the counts, and what it   *)
(* pops on the size of the stack.  Then, for routines whose headers have   *)
(* their blocks in braces: what the parser's table of jumps keeps of the   *)
(* nesting of blocks, that a for loop begins each execution at `first', and*)
(* that a foreach that comes round goes on behind the element it had.      *)
(* Last, that the outermost activation goes where Blocks lets it: the flat *)
(* table and the nested text lead to the same phrase from each statement.  *)
(***************************************************************************)
EXTENDS TaoRoutine, FiniteSetTheorems, SequenceTheorems, WellFoundedInduction, TLAPS

\* A foreach that is on its way through its array has not given up refElement.
ElementKept == \A i \in DOMAIN prog : index[i] > 0 => i \in element

IInv == TypeOK /\ DataStackFits /\ ActivationsCounted /\ ArgumentsHeld /\ ElementKept

-----------------------------------------------------------------------------
\* Sequences

\* Last and Front of a sequence that is not empty.
LEMMA LastFacts ==
    ASSUME NEW S, NEW q \in Seq(S), q # <<>>
    PROVE  /\ Len(q) \in Nat \ {0} /\ Last(q) = q[Len(q)] /\ Last(q) \in S
           /\ Front(q) \in Seq(S) /\ Len(Front(q)) = Len(q) - 1
           /\ \A k \in 1 .. Len(q) - 1 : Front(q)[k] = q[k]
  <1>1. Len(q) \in Nat \ {0} BY EmptySeq
  <1>2. Last(q) = q[Len(q)] /\ Last(q) \in S BY <1>1, ElementOfSeq DEF Last
  <1>3. /\ SubSeq(q, 1, Len(q) - 1) \in Seq(S) /\ Len(SubSeq(q, 1, Len(q) - 1)) = Len(q) - 1
        /\ \A k \in 1 .. Len(q) - 1 : SubSeq(q, 1, Len(q) - 1)[k] = q[k]
    <2>1. \A i \in 1 .. Len(q) - 1 : q[i] \in S BY <1>1, ElementOfSeq
    <2>2. Len(q) - 1 \in Int /\ 1 \in Int /\ (Len(q) - 1) - 1 + 1 = Len(q) - 1 BY <1>1
    <2>3. /\ SubSeq(q, 1, Len(q) - 1) \in Seq(S)
          /\ Len(SubSeq(q, 1, Len(q) - 1)) = IF 1 <= Len(q) - 1 THEN (Len(q) - 1) - 1 + 1 ELSE 0
          /\ \A i \in 1 .. (Len(q) - 1) - 1 + 1 : SubSeq(q, 1, Len(q) - 1)[i] = q[1 + i - 1]
      BY <2>1, <2>2, SubSeqProperties
    <2>4. \A i \in 1 .. Len(q) - 1 : SubSeq(q, 1, Len(q) - 1)[i] = q[i] BY <1>1, <2>2, <2>3
    <2> QED BY <1>1, <2>2, <2>3, <2>4
  <1> QED BY <1>1, <1>2, <1>3 DEF Front

\* The activations that come from site s are counted by a natural number.
LEMMA RunsType ==
    ASSUME NEW S, NEW q \in Seq(S), NEW s
    PROVE  IsFiniteSet({k \in DOMAIN q : q[k].site = s}) /\ RunsIn(q, s) \in Nat
  <1>1. IsFiniteSet(1 .. Len(q)) BY FS_Interval
  <1>2. {k \in DOMAIN q : q[k].site = s} \subseteq 1 .. Len(q) OBVIOUS
  <1>3. IsFiniteSet({k \in DOMAIN q : q[k].site = s}) BY <1>1, <1>2, FS_Subset
  <1> QED BY <1>3, FS_CardinalityType DEF RunsIn

\* Only the sites and their order matter.
LEMMA RunsSame ==
    ASSUME NEW S, NEW q \in Seq(S), NEW r \in Seq(S), Len(r) = Len(q),
           \A k \in DOMAIN q : r[k].site = q[k].site, NEW s
    PROVE  RunsIn(r, s) = RunsIn(q, s)
  <1>1. {k \in DOMAIN r : r[k].site = s} = {k \in DOMAIN q : q[k].site = s} OBVIOUS
  <1> QED BY <1>1 DEF RunsIn

\* One more activation on top.
LEMMA RunsAppend ==
    ASSUME NEW S, NEW q \in Seq(S), NEW f \in S, NEW s
    PROVE  RunsIn(Append(q, f), s) = RunsIn(q, s) + (IF f.site = s THEN 1 ELSE 0)
  <1> DEFINE A == {k \in DOMAIN q : q[k].site = s}
             n == Len(q) + 1
  <1>1. IsFiniteSet(A) BY RunsType
  <1>a. Len(q) \in Nat /\ DOMAIN q = 1 .. Len(q) OBVIOUS
  <1>b. n \notin A BY <1>a
  <1>2. {k \in DOMAIN Append(q, f) : Append(q, f)[k].site = s}
          = IF f.site = s THEN A \cup {n} ELSE A OBVIOUS
  <1>3. Cardinality(A \cup {n}) = Cardinality(A) + 1 BY <1>1, <1>b, FS_AddElement
  <1>4. Cardinality(A) \in Nat BY <1>1, FS_CardinalityType
  <1>5. RunsIn(q, s) = Cardinality(A) BY DEF RunsIn
  <1>6. RunsIn(Append(q, f), s) = Cardinality(IF f.site = s THEN A \cup {n} ELSE A)
    BY <1>2 DEF RunsIn
  <1> HIDE DEF A
  <1> QED BY <1>3, <1>4, <1>5, <1>6

\* The activation on top is gone.
LEMMA RunsFront ==
    ASSUME NEW S, NEW q \in Seq(S), q # <<>>, NEW s
    PROVE  RunsIn(q, s) = RunsIn(Front(q), s) + (IF Last(q).site = s THEN 1 ELSE 0)
  <1>1. Front(q) \in Seq(S) /\ Last(q) \in S BY LastFacts
  <1>2. q = Append(Front(q), Last(q)) BY LastFacts
  <1>3. RunsIn(Append(Front(q), Last(q)), s)
          = RunsIn(Front(q), s) + (IF Last(q).site = s THEN 1 ELSE 0)
    BY <1>1, RunsAppend
  <1> QED BY <1>2, <1>3

-----------------------------------------------------------------------------
\* Steps of the latest activation

\* The parsed routine does not change, nor does what is made of it.
LEMMA SameCode ==
    ASSUME UNCHANGED code
    PROVE  /\ Places' = Places /\ Sites' = Sites /\ Frame' = Frame
           /\ DOMAIN prog' = DOMAIN prog /\ DOMAIN jumpTo' = DOMAIN jumpTo
           /\ \A kinds : At(prog', kinds) = At(prog, kinds)
           /\ EndsOnlyAtItsEnd' = EndsOnlyAtItsEnd
  BY DEF code, Places, Sites, Frame, Jumping, EndsOnlyAtItsEnd, At

LEMMA PlaceFacts ==
    ASSUME TypeOK
    PROVE  /\ Len(prog) \in Nat \ {0} /\ DOMAIN prog = 1 .. Len(prog)
           /\ \A i \in DOMAIN prog : i + 1 \in Places
           /\ \A i \in Jumping : jumpTo[i] \in Places
           /\ DOMAIN prog \subseteq Places
  <1>1. prog \in Seq(STRING) /\ prog # <<>> BY DEF TypeOK
  <1>2. Len(prog) \in Nat \ {0} BY <1>1, EmptySeq
  <1>3. DOMAIN prog = 1 .. Len(prog) BY <1>1
  <1> QED BY <1>2, <1>3 DEF Places

\* An activation that steps on stays the latest one, from the same site.
LEMMA GotoFacts ==
    ASSUME TypeOK, frames # <<>>, Here \in DOMAIN prog, NEW f \in Frame,
           f.site = Top.site, f.last = Here,
           frames' = [frames EXCEPT ![Len(frames)] = f]
    PROVE  /\ frames' \in Seq(Frame) /\ Len(frames') = Len(frames)
           /\ Last(frames') = f
           /\ \A k \in DOMAIN frames' : frames'[k].last = Main => frames'[k].at \in DOMAIN prog
           /\ \A s : RunsIn(frames', s) = RunsIn(frames, s)
  <1>1. frames \in Seq(Frame) BY DEF TypeOK
  <1>a. Len(frames) \in Nat \ {0} /\ Last(frames) = frames[Len(frames)] BY <1>1, LastFacts
  <1>2. Len(frames) \in 1 .. Len(frames) /\ Top = frames[Len(frames)] BY <1>a DEF Top
  <1>3. /\ frames' \in Seq(Frame) /\ Len(frames') = Len(frames)
        /\ \A k \in 1 .. Len(frames) : frames'[k] = IF k = Len(frames) THEN f ELSE frames[k]
    BY <1>1, <1>2, ExceptSeq
  <1>4. Last(frames') = f BY <1>2, <1>3 DEF Last
  <1>5. DOMAIN frames' = 1 .. Len(frames) /\ DOMAIN frames = 1 .. Len(frames) BY <1>1, <1>3
  <1>6. f.last # Main BY PlaceFacts DEF Main
  <1>7. \A k \in DOMAIN frames' : frames'[k].last = Main => frames'[k].at \in DOMAIN prog
    BY <1>3, <1>5, <1>6 DEF TypeOK
  <1>8. \A k \in DOMAIN frames : frames'[k].site = frames[k].site BY <1>2, <1>3, <1>5
  <1>9. \A s : RunsIn(frames', s) = RunsIn(frames, s) BY <1>1, <1>3, <1>8, RunsSame
  <1> QED BY <1>3, <1>4, <1>7, <1>9

\* Goto makes such a step.
LEMMA GotoSteps ==
    ASSUME TypeOK, frames # <<>>, Here \in DOMAIN prog, NEW next \in Places, Goto(next)
    PROVE  \E f \in Frame : /\ f.site = Top.site /\ f.last = Here /\ f.at = next
                            /\ f.owns = Top.owns /\ f.nested = Top.nested
                            /\ frames' = [frames EXCEPT ![Len(frames)] = f]
  <1>1. Top \in Frame /\ Top = frames[Len(frames)] BY LastFacts DEF TypeOK, Top
  <1>2. Here \in Sites BY DEF Sites
  <1> DEFINE f == [Top EXCEPT !.at = next, !.last = Here]
  <1>3. f \in Frame /\ f.site = Top.site /\ f.last = Here /\ f.at = next
                    /\ f.owns = Top.owns /\ f.nested = Top.nested
    BY <1>1, <1>2 DEF Frame
  <1>4. frames' = [frames EXCEPT ![Len(frames)] = f] BY <1>1 DEF Goto
  <1> QED BY <1>3, <1>4

\* The invariants hold behind such a step if the counts are left alone.
LEMMA StepKeeps ==
    ASSUME IInv, frames # <<>>, Here \in DOMAIN prog, NEW f \in Frame,
           f.site = Top.site, f.last = Here,
           frames' = [frames EXCEPT ![Len(frames)] = f],
           UNCHANGED <<code, idResume, calls>>
    PROVE  /\ frames' \in Seq(Frame') /\ Len(frames') = Len(frames) /\ frames' # <<>>
           /\ Last(frames') = f
           /\ \A k \in DOMAIN frames' : frames'[k].last = Main => frames'[k].at \in DOMAIN prog'
           /\ DataStackFits' /\ ActivationsCounted'
  <1>1. TypeOK BY DEF IInv
  <1>2. /\ frames' \in Seq(Frame) /\ Len(frames') = Len(frames) /\ Last(frames') = f
        /\ \A k \in DOMAIN frames' : frames'[k].last = Main => frames'[k].at \in DOMAIN prog
        /\ \A s : RunsIn(frames', s) = RunsIn(frames, s)
    BY <1>1, GotoFacts
  <1>3. Len(frames) \in Nat \ {0} BY <1>1, EmptySeq DEF TypeOK
  <1>4. frames' # <<>> BY <1>2, <1>3
  <1>5. /\ Frame' = Frame /\ Sites' = Sites /\ prog' = prog /\ numCalled' = numCalled
        /\ dataStack' = dataStack /\ siteCalls' = siteCalls
        /\ At(prog', {"namedcall"}) = At(prog, {"namedcall"})
        /\ EndsOnlyAtItsEnd' = EndsOnlyAtItsEnd
    BY SameCode DEF code, calls
  <1>6. DataStackFits' BY <1>5 DEF IInv, DataStackFits
  <1>7. ActivationsCounted' BY <1>2, <1>5 DEF IInv, ActivationsCounted
  <1> QED BY <1>2, <1>4, <1>5, <1>6, <1>7

\* Commands, jumps and tests.
LEMMA QuietSteps ==
    ASSUME IInv, UNCHANGED code, ~crashed, frames # <<>>, Here \in DOMAIN prog,
           Command \/ Jump \/ Test \/ Fail
    PROVE  IInv'
  <1>1. PICK next \in Places : Goto(next)
    <2>1. TypeOK BY DEF IInv
    <2>2. Command \/ Test => Goto(Here + 1) /\ Here + 1 \in Places
      BY <2>1, PlaceFacts DEF Command, Test
    <2>3. Jump \/ Fail => Goto(jumpTo[Here]) /\ Here \in Jumping BY DEF Jump, Fail, Jumping, At, Loops
    <2> QED BY <2>1, <2>2, <2>3, PlaceFacts
  <1>2. UNCHANGED <<idResume, calls, content, loops, crashed>>
    BY DEF Command, Jump, Test, Fail, Quiet
  <1>3. PICK f \in Frame : /\ f.site = Top.site /\ f.last = Here /\ f.at = next
                           /\ f.owns = Top.owns /\ f.nested = Top.nested
                           /\ frames' = [frames EXCEPT ![Len(frames)] = f]
    BY <1>1, GotoSteps DEF IInv
  <1>4. /\ frames' \in Seq(Frame') /\ Len(frames') = Len(frames) /\ frames' # <<>>
        /\ Last(frames') = f
        /\ \A k \in DOMAIN frames' : frames'[k].last = Main => frames'[k].at \in DOMAIN prog'
        /\ DataStackFits' /\ ActivationsCounted'
    BY <1>2, <1>3, StepKeeps
  <1>5. TypeOK' BY <1>2, <1>4, SameCode DEF IInv, TypeOK, code, calls, loops
  <1>6. ArgumentsHeld' BY <1>2, <1>3, <1>4 DEF IInv, ArgumentsHeld, Top
  <1>7. ElementKept' BY <1>2 DEF IInv, ElementKept, code, loops
  <1> QED BY <1>4, <1>5, <1>6, <1>7 DEF IInv

LEMMA AssignLocalStep ==
    ASSUME IInv, UNCHANGED code, ~crashed, frames # <<>>, Here \in DOMAIN prog, AssignLocal
    PROVE  IInv'
  <1> DEFINE f == [Top EXCEPT !.at = Here + 1, !.last = Here, !.owns = Top.owns \cup {"local"}]
  <1>1. Top \in Frame /\ Top = frames[Len(frames)] /\ Len(frames) \in Nat
    BY LastFacts DEF IInv, TypeOK, Top
  <1>2. f \in Frame /\ f.site = Top.site /\ f.last = Here
        /\ f.owns = Top.owns \cup {"local"} /\ f.nested = Top.nested
    BY <1>1, PlaceFacts DEF IInv, Frame, Sites, Data
  <1>3. frames' = [frames EXCEPT ![Len(frames)] = f] /\ UNCHANGED <<idResume, calls, loops, crashed>>
    BY <1>1 DEF AssignLocal
  <1> HIDE DEF f
  <1>4. /\ frames' \in Seq(Frame') /\ Len(frames') = Len(frames) /\ frames' # <<>>
        /\ Last(frames') = f
        /\ \A k \in DOMAIN frames' : frames'[k].last = Main => frames'[k].at \in DOMAIN prog'
        /\ DataStackFits' /\ ActivationsCounted'
    BY <1>2, <1>3, StepKeeps
  <1>5. content' = [content EXCEPT !["local"] = Len(frames)] /\ content \in [Data -> Nat]
    BY DEF AssignLocal, IInv, TypeOK
  <1>6. content' \in [Data -> Nat] BY <1>1, <1>5 DEF Data
  <1>7. TypeOK' BY <1>3, <1>4, <1>6, SameCode DEF IInv, TypeOK, code, calls, loops
  <1>8. ArgumentsHeld'
    <2>1. SUFFICES ASSUME ~Top.nested, NEW v \in f.owns PROVE content'[v] = Len(frames)
      BY <1>2, <1>4 DEF ArgumentsHeld, Top
    <2>2. v \in Data BY <1>2 DEF Frame
    <2>3. v # "local" => content[v] = Len(frames) BY <1>2, <2>1 DEF IInv, ArgumentsHeld
    <2> QED BY <1>5, <2>2, <2>3
  <1>9. ElementKept' BY <1>3 DEF IInv, ElementKept, code, loops
  <1> QED BY <1>4, <1>7, <1>8, <1>9 DEF IInv

LEMMA ForStep ==
    ASSUME IInv, UNCHANGED code, ~crashed, frames # <<>>, Here \in DOMAIN prog, For
    PROVE  IInv'
  <1>0. Here \in Jumping BY DEF For, Jumping, At, Loops
  <1>1. PICK next \in Places : Goto(next) BY <1>0, PlaceFacts DEF IInv, For
  <1>2. /\ UNCHANGED <<idResume, calls, content, index, element, crashed>>
        /\ firstRound' \subseteq DOMAIN prog
    BY DEF For, IInv, TypeOK
  <1>3. PICK f \in Frame : /\ f.site = Top.site /\ f.last = Here /\ f.at = next
                           /\ f.owns = Top.owns /\ f.nested = Top.nested
                           /\ frames' = [frames EXCEPT ![Len(frames)] = f]
    BY <1>1, GotoSteps DEF IInv
  <1>4. /\ frames' \in Seq(Frame') /\ Len(frames') = Len(frames) /\ frames' # <<>>
        /\ Last(frames') = f
        /\ \A k \in DOMAIN frames' : frames'[k].last = Main => frames'[k].at \in DOMAIN prog'
        /\ DataStackFits' /\ ActivationsCounted'
    BY <1>2, <1>3, StepKeeps
  <1>5. TypeOK' BY <1>2, <1>4, SameCode DEF IInv, TypeOK, code, calls
  <1>6. ArgumentsHeld' BY <1>2, <1>3, <1>4 DEF IInv, ArgumentsHeld, Top
  <1>7. ElementKept' BY <1>2 DEF IInv, ElementKept, code
  <1> QED BY <1>4, <1>5, <1>6, <1>7 DEF IInv

\* A foreach goes on with its element, ends its loop, or crashes at the first.
LEMMA ForEachStep ==
    ASSUME IInv, UNCHANGED code, ~crashed, frames # <<>>, Here \in DOMAIN prog, ForEach
    PROVE  IInv'
  <1>0. Here \in Jumping BY DEF ForEach, Jumping, At, Loops
  <1>1. UNCHANGED <<idResume, calls, content, firstRound>> BY DEF ForEach
  <1>2. index \in [DOMAIN prog -> Nat] /\ element \subseteq DOMAIN prog BY DEF IInv, TypeOK
  <1>3. CASE crashed' = TRUE /\ index[Here] = 0 /\ UNCHANGED <<frames, index, element>>
    <2>1. TypeOK' BY <1>1, <1>3, SameCode DEF IInv, TypeOK, code, calls
    <2>2. DataStackFits' BY <1>1 DEF IInv, DataStackFits, calls
    <2>3. ActivationsCounted' BY <1>1, <1>3, SameCode DEF IInv, ActivationsCounted, calls, code
    <2>4. ArgumentsHeld' BY <1>1, <1>3 DEF IInv, ArgumentsHeld, Top
    <2>5. ElementKept' BY <1>3 DEF IInv, ElementKept, code
    <2> QED BY <2>1, <2>2, <2>3, <2>4, <2>5 DEF IInv
  <1>4. CASE /\ \E next \in Places : Goto(next)
             /\ crashed' = crashed /\ index' \in [DOMAIN prog -> Nat]
             /\ element' \subseteq DOMAIN prog
             /\ \A i \in DOMAIN prog : index'[i] > 0 => i \in element'
    <2>1. PICK next \in Places : Goto(next) BY <1>4
    <2>2. PICK f \in Frame : /\ f.site = Top.site /\ f.last = Here /\ f.at = next
                             /\ f.owns = Top.owns /\ f.nested = Top.nested
                             /\ frames' = [frames EXCEPT ![Len(frames)] = f]
      BY <2>1, GotoSteps DEF IInv
    <2>3. /\ frames' \in Seq(Frame') /\ Len(frames') = Len(frames) /\ frames' # <<>>
          /\ Last(frames') = f
          /\ \A k \in DOMAIN frames' : frames'[k].last = Main => frames'[k].at \in DOMAIN prog'
          /\ DataStackFits' /\ ActivationsCounted'
      BY <1>1, <2>2, StepKeeps
    <2>4. TypeOK' BY <1>1, <1>4, <2>3, SameCode DEF IInv, TypeOK, code, calls
    <2>5. ArgumentsHeld' BY <1>1, <2>2, <2>3 DEF IInv, ArgumentsHeld, Top
    <2>6. ElementKept' BY <1>4 DEF ElementKept, code
    <2> QED BY <2>3, <2>4, <2>5, <2>6 DEF IInv
  <1>5. \A i \in DOMAIN prog : index[i] > 0 => i \in element BY DEF IInv, ElementKept
  <1>6. jumpTo[Here] \in Places /\ Here + 1 \in Places BY <1>0, PlaceFacts DEF IInv
  <1>7. \/ Goto(jumpTo[Here]) /\ UNCHANGED <<index, element, crashed>>
        \/ /\ index' = [index EXCEPT ![Here] = 0] /\ element' = element \ {Here}
           /\ Goto(jumpTo[Here]) /\ UNCHANGED crashed
        \/ /\ Here \in element /\ index' = [index EXCEPT ![Here] = @ + 1]
           /\ Goto(Here + 1) /\ UNCHANGED <<element, crashed>>
        \/ /\ Here \notin element
           /\ crashed' = TRUE /\ UNCHANGED <<frames, index, element>>
    BY DEF ForEach
  <1>8. CASE Goto(jumpTo[Here]) /\ UNCHANGED <<index, element, crashed>>
    BY <1>2, <1>4, <1>5, <1>6, <1>8
  <1>9. CASE /\ index' = [index EXCEPT ![Here] = 0] /\ element' = element \ {Here}
             /\ Goto(jumpTo[Here]) /\ UNCHANGED crashed
    <2>1. index' \in [DOMAIN prog -> Nat] BY <1>2, <1>9
    <2>2. \A i \in DOMAIN prog : index'[i] > 0 => i \in element' BY <1>2, <1>5, <1>9
    <2> QED BY <1>2, <1>4, <1>6, <1>9, <2>1, <2>2
  <1>10. CASE /\ Here \in element /\ index' = [index EXCEPT ![Here] = @ + 1]
              /\ Goto(Here + 1) /\ UNCHANGED <<element, crashed>>
    <2>1. index' \in [DOMAIN prog -> Nat] BY <1>2, <1>10
    <2>2. \A i \in DOMAIN prog : index'[i] > 0 => i \in element' BY <1>2, <1>5, <1>10
    <2> QED BY <1>2, <1>4, <1>6, <1>10, <2>1, <2>2
  <1>11. CASE Here \notin element /\ crashed' = TRUE /\ UNCHANGED <<frames, index, element>>
    <2>1. ~(index[Here] > 0) /\ index[Here] \in Nat BY <1>2, <1>5, <1>11
    <2> QED BY <1>3, <1>11, <2>1
  <1> QED BY <1>7, <1>8, <1>9, <1>10, <1>11

-----------------------------------------------------------------------------
\* Calls and their ends

LEMMA CallStep ==
    ASSUME IInv, UNCHANGED code, UNCHANGED crashed, ~crashed,
           NEW site \in Sites, NEW passed \in BOOLEAN, Call(site, passed)
    PROVE  IInv'
  <1> DEFINE f == [at |-> idResume, last |-> Main, site |-> site,
                   owns |-> IF passed THEN {"param"} ELSE {}, nested |-> FALSE]
  <1>1. /\ frames \in Seq(Frame) /\ Len(frames) \in Nat /\ DOMAIN frames = 1 .. Len(frames)
        /\ idResume \in DOMAIN prog
    BY DEF IInv, TypeOK
  <1>2. f \in Frame BY <1>1, PlaceFacts DEF IInv, Frame, Sites, Data
  <1>3. /\ frames' = Append(frames, f) /\ numCalled' = numCalled + 1 /\ dataStack' = Push
        /\ content' = Pass(passed) /\ siteCalls' = [siteCalls EXCEPT ![site] = @ + 1]
        /\ idResume' = 1 /\ UNCHANGED loops
    BY DEF Call
  <1> HIDE DEF f
  <1>4. /\ frames' \in Seq(Frame) /\ Len(frames') = Len(frames) + 1 /\ frames' # <<>>
        /\ DOMAIN frames' = 1 .. Len(frames) + 1
        /\ \A k \in 1 .. Len(frames) : frames'[k] = frames[k]
        /\ frames'[Len(frames) + 1] = f
    BY <1>1, <1>2, <1>3
  <1>5. Last(frames') = f BY <1>4 DEF Last
  <1>6. TypeOK'
    <2>1. 1 \in DOMAIN prog BY PlaceFacts DEF IInv
    <2>2. \A k \in DOMAIN frames' : frames'[k].last = Main => frames'[k].at \in DOMAIN prog
      <3>1. \A k \in 1 .. Len(frames) : frames'[k].last = Main => frames'[k].at \in DOMAIN prog
        BY <1>1, <1>4 DEF IInv, TypeOK
      <3>2. frames'[Len(frames) + 1].at \in DOMAIN prog BY <1>1, <1>4 DEF f
      <3> QED BY <1>1, <1>4, <3>1, <3>2
    <2>3. dataStack' \in Seq([Data -> Nat])
      <3>1. [v \in Data |-> Null] \in [Data -> Nat] BY DEF Null
      <3>2. dataStack \in Seq([Data -> Nat]) BY DEF IInv, TypeOK
      <3>3. Append(dataStack, [v \in Data |-> Null]) \in Seq([Data -> Nat]) BY <3>1, <3>2
      <3> QED BY <1>3, <3>2, <3>3 DEF Push
    <2>4. content' \in [Data -> Nat] BY <1>1, <1>3 DEF Pass, IInv, TypeOK, Data
    <2>5. siteCalls' \in [Sites -> Nat] BY <1>3 DEF IInv, TypeOK
    <2>6. numCalled' \in Nat BY <1>3 DEF IInv, TypeOK
    <2> QED BY <1>3, <1>4, <2>1, <2>2, <2>3, <2>4, <2>5, <2>6, SameCode DEF IInv, TypeOK, code, loops
  <1>7. DataStackFits'
    <2>1. numCalled \in Nat /\ dataStack \in Seq([Data -> Nat]) BY DEF IInv, TypeOK
    <2>2. [v \in Data |-> Null] \in [Data -> Nat] BY DEF Null
    <2>3. Len(Append(dataStack, [v \in Data |-> Null])) = Len(dataStack) + 1 BY <2>1, <2>2
    <2> QED BY <1>3, <2>1, <2>3 DEF IInv, DataStackFits, Push
  <1>8. ActivationsCounted'
    <2>1. numCalled >= Len(frames) /\ (EndsOnlyAtItsEnd => numCalled = Len(frames))
      BY DEF IInv, ActivationsCounted
    <2>2. numCalled \in Nat /\ siteCalls \in [Sites -> Nat] BY DEF IInv, TypeOK
    <2>3. \A s : RunsIn(frames', s) = RunsIn(frames, s) + (IF f.site = s THEN 1 ELSE 0)
      BY <1>1, <1>2, <1>3, RunsAppend
    <2>4. \A s : RunsIn(frames, s) \in Nat BY <1>1, RunsType
    <2>5. f.site = site BY DEF f
    <2>6. \A s \in Sites : /\ siteCalls'[s] >= RunsIn(frames', s)
                           /\ s \notin At(prog, {"namedcall"}) => siteCalls'[s] = RunsIn(frames', s)
      <3>1. TAKE s \in Sites
      <3>2. siteCalls'[s] = siteCalls[s] + (IF site = s THEN 1 ELSE 0) BY <1>3, <2>2
      <3>3. /\ siteCalls[s] >= RunsIn(frames, s)
            /\ s \notin At(prog, {"namedcall"}) => siteCalls[s] = RunsIn(frames, s)
        BY DEF IInv, ActivationsCounted
      <3> QED BY <2>2, <2>3, <2>4, <2>5, <3>2, <3>3
    <2>7. Sites' = Sites /\ EndsOnlyAtItsEnd' = EndsOnlyAtItsEnd
          /\ At(prog', {"namedcall"}) = At(prog, {"namedcall"})
      BY SameCode
    <2>8. /\ numCalled' >= Len(frames')
          /\ EndsOnlyAtItsEnd => numCalled' = Len(frames')
      <3>1. numCalled' = numCalled + 1 /\ Len(frames') = Len(frames) + 1 BY <1>3, <1>4
      <3>2. numCalled >= Len(frames) => numCalled' >= Len(frames') BY <1>1, <2>2, <3>1
      <3>3. numCalled = Len(frames) => numCalled' = Len(frames') BY <3>1
      <3> QED BY <2>1, <3>2, <3>3, Zenon
    <2> QED BY <2>6, <2>7, <2>8 DEF ActivationsCounted
  <1>9. ArgumentsHeld'
    <2>1. SUFFICES ASSUME NEW v \in f.owns PROVE content'[v] = Len(frames')
      BY <1>5 DEF ArgumentsHeld, Top
    <2>2. passed /\ v = "param" BY DEF f
    <2> QED BY <1>1, <1>3, <1>4, <2>2 DEF Pass, IInv, TypeOK, Data
  <1>10. ElementKept' BY <1>3 DEF IInv, ElementKept, code, loops
  <1> QED BY <1>6, <1>7, <1>8, <1>9, <1>10 DEF IInv

\* Whatever the way out: the activation below goes on behind the call, and the
\* site that was called counts as many calls as it has activations, or more.
LEMMA ReturnFacts ==
    ASSUME IInv, UNCHANGED code, UNCHANGED crashed, ~crashed, frames # <<>>,
           NEW resume \in DOMAIN prog, Return(resume)
    PROVE  /\ frames' \in Seq(Frame') /\ Len(frames') = Len(frames) - 1
           /\ \A k \in DOMAIN frames' : frames'[k].last = Main => frames'[k].at \in DOMAIN prog'
           /\ idResume' \in DOMAIN prog' /\ siteCalls' \in [Sites' -> Nat]
           /\ \A s \in Sites' :
                /\ siteCalls'[s] >= RunsIn(frames', s)
                /\ s \notin At(prog', {"namedcall"}) => siteCalls'[s] = RunsIn(frames', s)
           /\ ArgumentsHeld' /\ ElementKept'
  <1> DEFINE below == Front(frames)
             n == Len(frames) - 1
             f == [below[n] EXCEPT !.at = Top.site + 1, !.last = Top.site, !.nested = TRUE]
  <1>1. /\ frames \in Seq(Frame) /\ Len(frames) \in Nat \ {0} /\ Top = frames[Len(frames)]
        /\ Top \in Frame /\ below \in Seq(Frame) /\ Len(below) = n
        /\ \A k \in 1 .. n : below[k] = frames[k]
    BY LastFacts DEF IInv, TypeOK, Top
  <1>2. Top.site \in Sites BY <1>1 DEF Frame
  <1>3. /\ siteCalls' = CountOff(Top.site) /\ idResume' = resume /\ UNCHANGED loops
        /\ frames' = IF below = <<>> THEN below ELSE [below EXCEPT ![n] = f]
    BY <1>1 DEF Return
  <1>4. \A s : RunsIn(frames, s) = RunsIn(below, s) + (IF Top.site = s THEN 1 ELSE 0)
    BY <1>1, RunsFront DEF Top
  <1>5. /\ frames' \in Seq(Frame) /\ Len(frames') = n
        /\ \A k \in DOMAIN frames' : frames'[k].last = Main => frames'[k].at \in DOMAIN prog
        /\ \A s : RunsIn(frames', s) = RunsIn(below, s)
        /\ frames' # <<>> => Last(frames').nested
    <2>1. CASE below = <<>> BY <1>1, <1>3, <2>1
    <2>2. CASE below # <<>>
      <3>1. n \in 1 .. n BY <1>1, <2>2, EmptySeq
      <3>2. below[n] \in Frame BY <1>1, <3>1, ElementOfSeq
      <3>3. Top.site + 1 \in Places BY <1>2, PlaceFacts DEF IInv, Sites, Main, Places
      <3>4. f \in Frame /\ f.site = below[n].site /\ f.nested /\ f.at = Top.site + 1 /\ f.last = Top.site
        BY <1>2, <3>2, <3>3 DEF Frame
      <3>5. f.last = Main => f.at \in DOMAIN prog BY <3>4, PlaceFacts DEF IInv, Main
      <3> HIDE DEF f
      <3>6. frames' = [below EXCEPT ![n] = f] BY <1>3, <2>2
      <3>7. /\ frames' \in Seq(Frame) /\ Len(frames') = n
            /\ \A k \in 1 .. n : frames'[k] = IF k = n THEN f ELSE below[k]
        BY <1>1, <3>1, <3>4, <3>6, ExceptSeq
      <3>8. DOMAIN frames' = 1 .. n /\ DOMAIN below = 1 .. n BY <1>1, <3>7
      <3>9. \A k \in DOMAIN below : frames'[k].site = below[k].site BY <3>4, <3>7, <3>8
      <3>10. \A s : RunsIn(frames', s) = RunsIn(below, s) BY <1>1, <3>7, <3>9, RunsSame
      <3>11. \A k \in 1 .. n : frames[k].last = Main => frames[k].at \in DOMAIN prog
        <4>1. \A k \in DOMAIN frames : frames[k].last = Main => frames[k].at \in DOMAIN prog
          BY DEF IInv, TypeOK
        <4>2. \A k \in 1 .. n : k \in DOMAIN frames BY <1>1
        <4> QED BY <4>1, <4>2, Zenon
      <3>12. \A k \in DOMAIN frames' : frames'[k].last = Main => frames'[k].at \in DOMAIN prog
        BY <1>1, <3>5, <3>7, <3>8, <3>11
      <3>13. Last(frames').nested BY <3>1, <3>4, <3>7 DEF Last
      <3> QED BY <3>7, <3>10, <3>12, <3>13
    <2> QED BY <2>1, <2>2
  <1>6. /\ Sites' = Sites /\ Frame' = Frame /\ prog' = prog
        /\ At(prog', {"namedcall"}) = At(prog, {"namedcall"})
    BY SameCode DEF code
  <1>7. /\ siteCalls' \in [Sites -> Nat]
        /\ \A s \in Sites :
             /\ siteCalls'[s] >= RunsIn(frames', s)
             /\ s \notin At(prog, {"namedcall"}) => siteCalls'[s] = RunsIn(frames', s)
    <2>1. siteCalls \in [Sites -> Nat] BY DEF IInv, TypeOK
    <2>2. \A s : RunsIn(below, s) \in Nat BY <1>1, RunsType
    <2>3. \A s \in Sites : /\ siteCalls[s] >= RunsIn(frames, s)
                           /\ s \notin At(prog, {"namedcall"}) => siteCalls[s] = RunsIn(frames, s)
      BY DEF IInv, ActivationsCounted
    <2>4. CASE Top.site \in At(prog, {"namedcall"}) /\ siteCalls' = siteCalls
      <3>1. \A s \in Sites : RunsIn(frames, s) >= RunsIn(frames', s) BY <1>4, <1>5, <2>2
      <3>2. \A s \in Sites : s \notin At(prog, {"namedcall"}) => RunsIn(frames, s) = RunsIn(frames', s)
        BY <1>4, <1>5, <2>2, <2>4
      <3>3. \A s \in Sites : RunsIn(frames, s) \in Nat /\ RunsIn(frames', s) \in Nat
        BY <1>4, <1>5, <2>2
      <3> QED BY <2>1, <2>3, <2>4, <3>1, <3>2, <3>3
    <2>5. CASE siteCalls' = [siteCalls EXCEPT ![Top.site] = @ - 1]
      <3>1. \A s \in Sites : siteCalls'[s] = siteCalls[s] - (IF Top.site = s THEN 1 ELSE 0)
        BY <2>1, <2>5
      <3>2. \A s \in Sites : /\ siteCalls[s] \in Nat
                             /\ siteCalls[s] >= RunsIn(below, s) + (IF Top.site = s THEN 1 ELSE 0)
        BY <1>4, <2>1, <2>3
      <3>3. \A s \in Sites : siteCalls'[s] >= RunsIn(frames', s) /\ siteCalls'[s] \in Nat
        BY <1>5, <2>2, <3>1, <3>2
      <3>4. siteCalls' \in [Sites -> Nat] BY <2>1, <2>5, <3>3
      <3>5. \A s \in Sites : s \notin At(prog, {"namedcall"}) => siteCalls'[s] = RunsIn(frames', s)
        BY <1>4, <1>5, <2>2, <2>3, <3>1
      <3> QED BY <3>3, <3>4, <3>5
    <2> QED BY <1>2, <1>3, <2>4, <2>5 DEF CountOff, Sites, At
  <1>8. ArgumentsHeld' BY <1>5 DEF ArgumentsHeld, Top
  <1>9. ElementKept' BY <1>3 DEF IInv, ElementKept, code, loops, TypeOK
  <1> QED BY <1>1, <1>3, <1>5, <1>6, <1>7, <1>8, <1>9

\* An activation behind the last phrase has executed one.
LEMMA LastPhrase ==
    ASSUME TypeOK, frames # <<>>, Here > Len(prog)
    PROVE  Top.last \in DOMAIN prog
  <1>1. /\ Top = frames[Len(frames)] /\ Len(frames) \in DOMAIN frames /\ Top \in Frame
    BY LastFacts DEF TypeOK, Top
  <1>2. Top.last = Main => Here \in DOMAIN prog BY <1>1 DEF TypeOK, Here
  <1>3. Top.last \in Sites BY <1>1 DEF Frame
  <1> QED BY <1>2, <1>3, PlaceFacts DEF Sites

LEMMA AbandonStep ==
    ASSUME IInv, UNCHANGED code, UNCHANGED crashed, ~crashed, frames # <<>>, Abandon
    PROVE  IInv'
  <1>1. idResume \in DOMAIN prog /\ Return(idResume) /\ UNCHANGED <<numCalled, dataStack, content>>
    BY DEF Abandon, IInv, TypeOK
  <1>2. UNCHANGED loops BY <1>1 DEF Return
  <1>3. /\ frames' \in Seq(Frame') /\ Len(frames') = Len(frames) - 1
        /\ \A k \in DOMAIN frames' : frames'[k].last = Main => frames'[k].at \in DOMAIN prog'
        /\ idResume' \in DOMAIN prog' /\ siteCalls' \in [Sites' -> Nat]
        /\ \A s \in Sites' :
             /\ siteCalls'[s] >= RunsIn(frames', s)
             /\ s \notin At(prog', {"namedcall"}) => siteCalls'[s] = RunsIn(frames', s)
        /\ ArgumentsHeld' /\ ElementKept'
    BY <1>1, ReturnFacts
  <1>4. TypeOK' BY <1>1, <1>2, <1>3, SameCode DEF IInv, TypeOK, code, loops
  <1>5. DataStackFits' BY <1>1 DEF IInv, DataStackFits
  <1>6. ~EndsOnlyAtItsEnd
    <2>1. SUFFICES ASSUME EndsOnlyAtItsEnd PROVE FALSE OBVIOUS
    <2>2. Here \in Places
      <3>1. frames \in Seq(Frame) BY DEF IInv, TypeOK
      <3>2. Top \in Frame BY <3>1, LastFacts DEF Top
      <3> QED BY <3>2 DEF Here, Frame
    <2>3. Here # NoPhrase
      BY <2>1, <2>2, PlaceFacts DEF IInv, EndsOnlyAtItsEnd, Places, NoPhrase
    <2>4. Here > Len(prog) /\ prog[Top.last] \in Returns BY <2>3 DEF Abandon
    <2>5. Top.last \in At(prog, Returns) BY <2>4, LastPhrase DEF IInv, At
    <2> QED BY <2>1, <2>5 DEF EndsOnlyAtItsEnd
  <1>7. ~EndsOnlyAtItsEnd' BY <1>6, SameCode
  <1>8. numCalled' >= Len(frames') BY <1>1, <1>3 DEF IInv, ActivationsCounted, TypeOK
  <1>9. ActivationsCounted' BY <1>3, <1>7, <1>8 DEF ActivationsCounted
  <1> QED BY <1>3, <1>4, <1>5, <1>9 DEF IInv

LEMMA YieldStep ==
    ASSUME IInv, UNCHANGED code, UNCHANGED crashed, ~crashed, frames # <<>>, Yield
    PROVE  IInv'
  <1>1. Top.last \in DOMAIN prog /\ prog[Top.last] = "yield"
    BY LastPhrase DEF Yield, IInv
  <1>2. Behind(Top.last) \in DOMAIN prog BY <1>1, PlaceFacts DEF Behind, IInv
  <1>3. /\ Return(Behind(Top.last)) /\ UNCHANGED <<numCalled, dataStack>>
        /\ content' = [content EXCEPT !["param"] = Null] /\ content \in [Data -> Nat]
    BY DEF Yield, IInv, TypeOK
  <1>4. UNCHANGED loops /\ content' \in [Data -> Nat] BY <1>3 DEF Return, Data, Null
  <1>5. /\ frames' \in Seq(Frame') /\ Len(frames') = Len(frames) - 1
        /\ \A k \in DOMAIN frames' : frames'[k].last = Main => frames'[k].at \in DOMAIN prog'
        /\ idResume' \in DOMAIN prog' /\ siteCalls' \in [Sites' -> Nat]
        /\ \A s \in Sites' :
             /\ siteCalls'[s] >= RunsIn(frames', s)
             /\ s \notin At(prog', {"namedcall"}) => siteCalls'[s] = RunsIn(frames', s)
        /\ ArgumentsHeld' /\ ElementKept'
    BY <1>2, <1>3, ReturnFacts
  <1>6. TypeOK' BY <1>3, <1>4, <1>5, SameCode DEF IInv, TypeOK, code, loops
  <1>7. DataStackFits' BY <1>3 DEF IInv, DataStackFits
  <1>8. ~EndsOnlyAtItsEnd BY <1>1 DEF EndsOnlyAtItsEnd, At, Returns
  <1>9. ~EndsOnlyAtItsEnd' BY <1>8, SameCode
  <1>10. numCalled' >= Len(frames') BY <1>3, <1>5 DEF IInv, ActivationsCounted, TypeOK
  <1>11. ActivationsCounted' BY <1>5, <1>9, <1>10 DEF ActivationsCounted
  <1> QED BY <1>5, <1>6, <1>7, <1>11 DEF IInv

\* The pop needs what DataStackFits says; the count stays a natural number
\* because the activation that ends is counted.
LEMMA FinishStep ==
    ASSUME IInv, UNCHANGED code, UNCHANGED crashed, ~crashed, frames # <<>>, Finish
    PROVE  IInv'
  <1>1. 1 \in DOMAIN prog BY PlaceFacts DEF IInv
  <1>2. /\ Return(1) /\ numCalled' = numCalled - 1
        /\ content' = [(IF numCalled > 1 THEN Last(dataStack) ELSE content) EXCEPT !["param"] = Null]
        /\ dataStack' = IF numCalled > 1 THEN Front(dataStack) ELSE dataStack
    BY DEF Finish
  <1>3. /\ numCalled \in Nat /\ frames \in Seq(Frame) /\ dataStack \in Seq([Data -> Nat])
        /\ content \in [Data -> Nat]
    BY DEF IInv, TypeOK
  <1>4. Len(frames) \in Nat \ {0} BY <1>3, EmptySeq
  <1>5. numCalled >= Len(frames) BY DEF IInv, ActivationsCounted
  <1>6. numCalled - 1 \in Nat BY <1>3, <1>4, <1>5
  <1>7. Len(dataStack) = numCalled - 1 BY <1>4, <1>5, <1>3 DEF IInv, DataStackFits
  <1>8. numCalled > 1 => /\ dataStack # <<>> /\ Last(dataStack) \in [Data -> Nat]
                         /\ Front(dataStack) \in Seq([Data -> Nat])
                         /\ Len(Front(dataStack)) = numCalled - 2
    <2>1. SUFFICES ASSUME numCalled > 1
                   PROVE  /\ dataStack # <<>> /\ Last(dataStack) \in [Data -> Nat]
                          /\ Front(dataStack) \in Seq([Data -> Nat])
                          /\ Len(Front(dataStack)) = numCalled - 2
      OBVIOUS
    <2>2. dataStack # <<>> BY <1>3, <1>7, <2>1
    <2>3. /\ Last(dataStack) \in [Data -> Nat] /\ Front(dataStack) \in Seq([Data -> Nat])
          /\ Len(Front(dataStack)) = Len(dataStack) - 1
      BY <1>3, <2>2, LastFacts
    <2> QED BY <1>3, <1>7, <2>2, <2>3
  <1>9. content' \in [Data -> Nat] /\ dataStack' \in Seq([Data -> Nat])
    BY <1>2, <1>3, <1>8 DEF Data, Null
  <1>10. UNCHANGED loops BY <1>2 DEF Return
  <1>11. /\ frames' \in Seq(Frame') /\ Len(frames') = Len(frames) - 1
         /\ \A k \in DOMAIN frames' : frames'[k].last = Main => frames'[k].at \in DOMAIN prog'
         /\ idResume' \in DOMAIN prog' /\ siteCalls' \in [Sites' -> Nat]
         /\ \A s \in Sites' :
              /\ siteCalls'[s] >= RunsIn(frames', s)
              /\ s \notin At(prog', {"namedcall"}) => siteCalls'[s] = RunsIn(frames', s)
         /\ ArgumentsHeld' /\ ElementKept'
    BY <1>1, <1>2, ReturnFacts
  <1>12. TypeOK' BY <1>2, <1>6, <1>9, <1>10, <1>11, SameCode DEF IInv, TypeOK, code, loops
  <1>13. DataStackFits' BY <1>2, <1>3, <1>6, <1>7, <1>8 DEF DataStackFits
  <1>14. ActivationsCounted'
    <2>1. numCalled' >= Len(frames') BY <1>2, <1>3, <1>4, <1>5, <1>11
    <2>2. numCalled = Len(frames) => numCalled' = Len(frames') BY <1>2, <1>11
    <2>3. EndsOnlyAtItsEnd => numCalled = Len(frames) BY DEF IInv, ActivationsCounted
    <2>4. EndsOnlyAtItsEnd' => numCalled' = Len(frames') BY <2>2, <2>3, SameCode, Zenon
    <2> QED BY <1>11, <2>1, <2>4 DEF ActivationsCounted
  <1> QED BY <1>11, <1>12, <1>13, <1>14 DEF IInv

-----------------------------------------------------------------------------
\* The theorems

LEMMA InitHolds == Init => IInv
  <1> SUFFICES ASSUME Init PROVE IInv OBVIOUS
  <1>1. prog \in Seq(STRING) \ {<<>>} BY ProgsAssumption DEF Init
  <1>2. 1 \in DOMAIN prog BY <1>1, EmptySeq
  <1>3. /\ DOMAIN jumpTo = DOMAIN prog /\ frames = <<>> /\ idResume = 1 /\ numCalled = 0
        /\ dataStack = <<>> /\ content = [v \in Data |-> Null]
        /\ siteCalls = [s \in Sites |-> 0]
        /\ firstRound = At(prog, {"for"}) /\ index = [i \in DOMAIN prog |-> 0]
        /\ element = At(prog, {"foreach"}) /\ crashed = FALSE
    BY DEF Init, JumpTable, Sites
  <1>4. TypeOK
    <2>1. frames \in Seq(Frame) /\ dataStack \in Seq([Data -> Nat]) BY <1>3, EmptySeq
    <2>2. \A k \in DOMAIN frames : frames[k].last = Main => frames[k].at \in DOMAIN prog
      BY <1>3
    <2>3. content \in [Data -> Nat] BY <1>3 DEF Null
    <2>4. siteCalls \in [Sites -> Nat] /\ index \in [DOMAIN prog -> Nat] BY <1>3
    <2>5. firstRound \subseteq DOMAIN prog /\ element \subseteq DOMAIN prog BY <1>3 DEF At
    <2>6. idResume \in DOMAIN prog /\ numCalled \in Nat /\ crashed \in BOOLEAN BY <1>2, <1>3
    <2> QED BY <1>1, <1>3, <2>1, <2>2, <2>3, <2>4, <2>5, <2>6 DEF TypeOK
  <1>5. DataStackFits BY <1>3 DEF DataStackFits
  <1>6. ActivationsCounted
    <2>1. \A s : {k \in DOMAIN frames : frames[k].site = s} = {} BY <1>3
    <2>2. \A s : RunsIn(frames, s) = 0 BY <2>1, FS_EmptySet DEF RunsIn
    <2> QED BY <1>3, <2>2 DEF ActivationsCounted
  <1>7. ArgumentsHeld /\ ElementKept BY <1>3 DEF ArgumentsHeld, ElementKept
  <1> QED BY <1>4, <1>5, <1>6, <1>7 DEF IInv

LEMMA NextKeeps == IInv /\ [Next]_vars => IInv'
  <1> SUFFICES ASSUME IInv, [Next]_vars PROVE IInv' OBVIOUS
  <1>1. CASE CallFromMain /\ UNCHANGED <<code, crashed>> /\ ~crashed
    <2>1. PICK passed \in BOOLEAN : Call(Main, passed) BY <1>1 DEF CallFromMain
    <2> QED BY <1>1, <2>1, CallStep DEF Sites
  <1>2. CASE Execute /\ UNCHANGED code /\ ~crashed /\ frames # <<>> /\ Here \in DOMAIN prog
    <2>1. CASE Command \/ Jump \/ Test \/ Fail BY <1>2, <2>1, QuietSteps
    <2>2. CASE AssignLocal BY <1>2, <2>2, AssignLocalStep
    <2>3. CASE For BY <1>2, <2>3, ForStep
    <2>4. CASE ForEach BY <1>2, <2>4, ForEachStep
    <2>5. CASE CallFromPhrase /\ UNCHANGED crashed
      <3>1. PICK passed \in BOOLEAN : Call(Here, passed) BY <2>5 DEF CallFromPhrase
      <3> QED BY <1>2, <2>5, <3>1, CallStep DEF Sites
    <2> QED BY <1>2, <2>1, <2>2, <2>3, <2>4, <2>5 DEF Execute
  <1>3. CASE Leave /\ UNCHANGED code /\ ~crashed /\ frames # <<>>
    BY <1>3, AbandonStep, YieldStep, FinishStep DEF Leave
  <1>4. CASE UNCHANGED vars
    BY <1>4, SameCode DEF vars, code, calls, loops, IInv, TypeOK, DataStackFits,
       ActivationsCounted, ArgumentsHeld, ElementKept, Here, Top
  <1> QED BY <1>1, <1>2, <1>3, <1>4 DEF Next

THEOREM Inductive == Spec => []IInv
  <1> QED BY InitHolds, NextKeeps, PTL DEF Spec

\* The type invariant of the routine, for every routine and bound.
THEOREM RoutineType == Spec => []TypeOK
  <1>1. IInv => TypeOK BY DEF IInv
  <1> QED BY <1>1, Inductive, PTL

\* run finds on dataStack what it pops, and leaves nothing there.
THEOREM SavedDataFits == Spec => []DataStackFits
  <1>1. IInv => DataStackFits BY DEF IInv
  <1> QED BY <1>1, Inductive, PTL

\* Every running activation is counted, in the routine and at its site.
THEOREM CallsAreCounted == Spec => []ActivationsCounted
  <1>1. IInv => ActivationsCounted BY DEF IInv
  <1> QED BY <1>1, Inductive, PTL

\* The latest activation finds what it was passed and has assigned.
THEOREM LatestHoldsArguments == Spec => []ArgumentsHeld
  <1>1. IInv => ArgumentsHeld BY DEF IInv
  <1> QED BY <1>1, Inductive, PTL

-----------------------------------------------------------------------------
\* The text of a routine: blocks, chains of branches and jumps

\* How many phrases of a kind there are from a to b, and how many braces that
\* are opened there are not closed there.
Count(p, kind, a, b) == Cardinality(At(p, {kind}) \cap a .. b)
Depth(p, a, b) == Count(p, "lbrace", a, b) - Count(p, "rbrace", a, b)

LEMMA CountType ==
    ASSUME NEW p, NEW kind, NEW a \in Int, NEW b \in Int
    PROVE  IsFiniteSet(At(p, {kind}) \cap a .. b) /\ Count(p, kind, a, b) \in Nat
  <1>1. IsFiniteSet(a .. b) BY FS_Interval
  <1>2. IsFiniteSet(At(p, {kind}) \cap a .. b) BY <1>1, FS_Intersection
  <1> QED BY <1>2, FS_CardinalityType DEF Count

\* The phrases from a to c are those up to b and those behind.
LEMMA CountSplit ==
    ASSUME NEW p, NEW kind, NEW a \in Int, NEW b \in Int, NEW c \in Int, a - 1 <= b, b <= c
    PROVE  Count(p, kind, a, c) = Count(p, kind, a, b) + Count(p, kind, b + 1, c)
  <1> DEFINE S == At(p, {kind}) \cap a .. b
             T == At(p, {kind}) \cap b + 1 .. c
  <1>1. At(p, {kind}) \cap a .. c = S \cup T OBVIOUS
  <1>2. IsFiniteSet(S) /\ IsFiniteSet(T)
    <2>1. b + 1 \in Int OBVIOUS
    <2>2. IsFiniteSet(At(p, {kind}) \cap a .. b) BY CountType, Zenon
    <2>3. IsFiniteSet(At(p, {kind}) \cap b + 1 .. c) BY <2>1, CountType, Zenon
    <2> QED BY <2>2, <2>3
  <1>3. S \cap T = {} OBVIOUS
  <1>4. Cardinality(S \cup T) = Cardinality(S) + Cardinality(T) - Cardinality(S \cap T)
    BY <1>2, FS_Union
  <1>5. Cardinality(S \cap T) = 0 BY <1>3, FS_EmptySet
  <1>6. Cardinality(S) \in Nat /\ Cardinality(T) \in Nat BY <1>2, FS_CardinalityType
  <1> HIDE DEF S, T
  <1>7. Cardinality(S \cup T) = Cardinality(S) + Cardinality(T) BY <1>4, <1>5, <1>6
  <1> QED BY <1>1, <1>7 DEF Count, S, T

LEMMA CountOne ==
    ASSUME NEW p, NEW kind, NEW j \in Int
    PROVE  Count(p, kind, j, j) = IF j \in At(p, {kind}) THEN 1 ELSE 0
  <1>1. j .. j = {j} OBVIOUS
  <1>2. CASE j \in At(p, {kind})
    <2>1. At(p, {kind}) \cap j .. j = {j} BY <1>1, <1>2
    <2> QED BY <1>2, <2>1, FS_Singleton DEF Count
  <1>3. CASE j \notin At(p, {kind})
    <2>1. At(p, {kind}) \cap j .. j = {} BY <1>1, <1>3
    <2> QED BY <1>3, <2>1, FS_EmptySet DEF Count
  <1> QED BY <1>2, <1>3

LEMMA DepthSplit ==
    ASSUME NEW p, NEW a \in Int, NEW b \in Int, NEW c \in Int, a - 1 <= b, b <= c
    PROVE  /\ Depth(p, a, b) \in Int /\ Depth(p, b + 1, c) \in Int
           /\ Depth(p, a, c) = Depth(p, a, b) + Depth(p, b + 1, c)
  <1>1. \A k : /\ Count(p, k, a, c) = Count(p, k, a, b) + Count(p, k, b + 1, c)
               /\ Count(p, k, a, b) \in Nat /\ Count(p, k, b + 1, c) \in Nat
    <2>1. TAKE k
    <2>2. b + 1 \in Int OBVIOUS
    <2>3. Count(p, k, a, b) \in Nat /\ Count(p, k, b + 1, c) \in Nat BY <2>2, CountType, Zenon
    <2>4. Count(p, k, a, c) = Count(p, k, a, b) + Count(p, k, b + 1, c) BY CountSplit
    <2> QED BY <2>3, <2>4
  <1> QED BY <1>1 DEF Depth

LEMMA DepthOne ==
    ASSUME NEW p, NEW j \in Int
    PROVE  Depth(p, j, j) = IF j \in At(p, {"lbrace"}) THEN 1
                            ELSE IF j \in At(p, {"rbrace"}) THEN -1 ELSE 0
  <1>1. ~(j \in At(p, {"lbrace"}) /\ j \in At(p, {"rbrace"})) BY DEF At
  <1> QED BY <1>1, CountOne DEF Depth

\* The least of a set of numbers.
LEMMA LeastOne ==
    ASSUME NEW S, S \subseteq Nat, S # {}
    PROVE  \E x \in S : \A y \in S : x <= y
  <1>1. PICK x \in S : \A y \in S : ~(<<y, x>> \in OpToRel(<, Nat))
    BY WFMin, NatLessThanWellFounded
  <1>2. \A y \in S : ~(y < x) BY <1>1 DEF OpToRel
  <1> QED BY <1>2

LEMMA GreatestOne ==
    ASSUME NEW n \in Nat, NEW S, S \subseteq 1 .. n, S # {}
    PROVE  \E x \in S : \A y \in S : y <= x
  <1> DEFINE T == {m \in 0 .. n : n - m \in S}
  <1>1. T \subseteq Nat OBVIOUS
  <1>2. T # {}
    <2>1. PICK x \in S : TRUE OBVIOUS
    <2>2. n - x \in T BY <2>1
    <2> QED BY <2>2
  <1>3. PICK m \in T : \A y \in T : m <= y
    <2> HIDE DEF T
    <2> QED BY <1>1, <1>2, LeastOne
  <1>4. ASSUME NEW y \in S PROVE y <= n - m
    <2>1. y \in 1 .. n /\ n - y \in T OBVIOUS
    <2>2. m \in 0 .. n OBVIOUS
    <2> HIDE DEF T
    <2>3. m <= n - y BY <1>3, <2>1
    <2> QED BY <2>1, <2>2, <2>3
  <1> QED BY <1>4

\* What phrasePair finds: the first closing brace that brings the depth to 0.
LEMMA PairFacts ==
    ASSUME NEW p \in Seq(STRING), NEW left \in At(p, {"lbrace"}), PhrasePair(p, left) # NoPhrase
    PROVE  LET e == PhrasePair(p, left)
           IN  /\ e \in At(p, {"rbrace"}) /\ left < e /\ e \in Nat
               /\ Depth(p, left, e) = 0
               /\ \A j \in left .. e - 1 : Depth(p, left, j) > 0
  <1> DEFINE e == PhrasePair(p, left)
             Ends == {j \in At(p, {"rbrace"}) :
                        j >= left /\ Count(p, "lbrace", left, j) = Count(p, "rbrace", left, j)}
  <1>1. e = IF Ends = {} THEN NoPhrase ELSE Min(Ends) BY DEF PhrasePair, Count
  <1>2. DOMAIN p = 1 .. Len(p) /\ left \in 1 .. Len(p) /\ p[left] = "lbrace" BY DEF At
  <1>3. Ends \subseteq Nat BY <1>2 DEF At
  <1>4. Ends # {} BY <1>1
  <1>5. Min(Ends) \in Ends /\ \A y \in Ends : Min(Ends) <= y
    BY <1>3, <1>4, LeastOne DEF Min
  <1>6. e \in Ends /\ e \in Nat /\ \A y \in Ends : e <= y BY <1>1, <1>3, <1>4, <1>5
  <1>7. left # e BY <1>2, <1>6 DEF At
  <1>8. \A k : \A j \in Int : Count(p, k, left, j) \in Nat
    <2>1. left \in Int BY <1>2
    <2> QED BY <2>1, CountType, Zenon
  <1>9. \A j \in At(p, {"rbrace"}) : j >= left /\ Depth(p, left, j) = 0 => j \in Ends
    BY <1>2, <1>8 DEF Depth, At
  <1>10. Depth(p, left, e) = 0 BY <1>6, <1>8 DEF Depth
  <1>a. \A j \in Int : Depth(p, left, j) \in Int BY <1>8 DEF Depth
  <1> HIDE DEF e, Ends
  <1>11. ASSUME NEW j0 \in left .. e - 1, ~(Depth(p, left, j0) > 0) PROVE FALSE
    <2> DEFINE Low == {j \in left .. e - 1 : ~(Depth(p, left, j) > 0)}
    <2>1. PICK j \in Low : \A y \in Low : j <= y
      <3>1. Low \subseteq Nat /\ Low # {} BY <1>2, <1>6, <1>11
      <3> HIDE DEF Low
      <3> QED BY <3>1, LeastOne
    <2>2. j \in left .. e - 1 /\ j \in Int /\ ~(Depth(p, left, j) > 0) BY <1>2, <1>6
    <2>3. j # left BY <1>2, <2>2, DepthOne DEF At
    <2>4. j - 1 \notin Low BY <1>2, <2>1, <2>2
    <2>5. Depth(p, left, j - 1) > 0
      <3>1. j - 1 \in left .. e - 1 BY <1>2, <1>6, <2>2, <2>3
      <3> QED BY <2>4, <3>1
    <2>6. Depth(p, left, j) = Depth(p, left, j - 1) + Depth(p, j, j)
      <3>1. j - 1 \in Int /\ left - 1 <= j - 1 /\ j - 1 <= j /\ (j - 1) + 1 = j /\ left \in Int
        BY <1>2, <2>2
      <3> QED BY <2>2, <3>1, DepthSplit
    <2>7. Depth(p, j, j) \in {0, 1} \/ (j \in At(p, {"rbrace"}) /\ Depth(p, j, j) = -1)
      BY <2>2, DepthOne
    <2>8. j \in At(p, {"rbrace"}) /\ Depth(p, left, j) = 0
      <3>1. j - 1 \in Int /\ Depth(p, left, j - 1) \in Int BY <1>a, <2>2
      <3> QED BY <2>2, <2>5, <2>6, <2>7, <3>1
    <2>9. j \in Ends BY <1>9, <2>2, <2>8
    <2> QED BY <1>6, <2>2, <2>9
  <1> QED BY <1>2, <1>6, <1>7, <1>8, <1>10, <1>11 DEF e, Ends, At

\* A block that begins in another one ends in it.
LEMMA Nesting ==
    ASSUME NEW p \in Seq(STRING), Braced(p),
           NEW g \in At(p, Loops \cup Branches), NEW h \in At(p, Loops \cup Branches),
           g < h, h <= PhrasePair(p, g + 1)
    PROVE  PhrasePair(p, h + 1) < PhrasePair(p, g + 1)
  <1> DEFINE c == PhrasePair(p, g + 1)
             e == PhrasePair(p, h + 1)
  <1>1. DOMAIN p = 1 .. Len(p) /\ g \in Nat /\ h \in Nat BY DEF At
  <1>2. /\ g + 1 \in At(p, {"lbrace"}) /\ c # NoPhrase
        /\ h + 1 \in At(p, {"lbrace"}) /\ e # NoPhrase
    BY DEF Braced
  <1>3. /\ c \in At(p, {"rbrace"}) /\ g + 1 < c /\ c \in Nat /\ Depth(p, g + 1, c) = 0
        /\ \A j \in g + 1 .. c - 1 : Depth(p, g + 1, j) > 0
    BY <1>2, PairFacts
  <1>4. /\ e \in At(p, {"rbrace"}) /\ h + 1 < e /\ e \in Nat /\ Depth(p, h + 1, e) = 0
        /\ \A j \in h + 1 .. e - 1 : Depth(p, h + 1, j) > 0
    BY <1>2, PairFacts
  <1> HIDE DEF c, e
  <1>5. g + 1 <= h /\ h < c /\ h + 1 <= c
    <2>1. h # c BY <1>3 DEF At, Loops, Branches
    <2>2. h <= c BY DEF c
    <2> QED BY <1>1, <1>3, <2>1, <2>2
  <1>6. Depth(p, g + 1, h) > 0 BY <1>1, <1>3, <1>5
  <1>7. /\ Depth(p, g + 1, h) \in Int /\ Depth(p, h + 1, c) \in Int
        /\ Depth(p, g + 1, c) = Depth(p, g + 1, h) + Depth(p, h + 1, c)
    BY <1>1, <1>3, <1>5, DepthSplit
  <1>8. Depth(p, h + 1, c) < 0 BY <1>3, <1>6, <1>7
  <1>9. e <= c => e < c BY <1>3, <1>4, <1>7, <1>8
  <1>10. ~(c < e) BY <1>1, <1>3, <1>4, <1>5, <1>7, <1>8
  <1> QED BY <1>3, <1>4, <1>9, <1>10 DEF c, e

\* No two blocks end with the same brace.
LEMMA PairsDiffer ==
    ASSUME NEW p \in Seq(STRING), Braced(p),
           NEW g \in At(p, Loops \cup Branches), NEW h \in At(p, Loops \cup Branches),
           PhrasePair(p, g + 1) = PhrasePair(p, h + 1)
    PROVE  g = h
  <1>1. DOMAIN p = 1 .. Len(p) /\ g \in Nat /\ h \in Nat BY DEF At
  <1>2. /\ PhrasePair(p, g + 1) \in Nat /\ g + 1 < PhrasePair(p, g + 1)
        /\ PhrasePair(p, h + 1) \in Nat /\ h + 1 < PhrasePair(p, h + 1)
    BY PairFacts DEF Braced
  <1>3. ~(g < h)
    <2>1. SUFFICES ASSUME g < h PROVE FALSE OBVIOUS
    <2>2. h <= PhrasePair(p, g + 1) BY <1>1, <1>2
    <2>3. PhrasePair(p, h + 1) < PhrasePair(p, g + 1) BY <2>1, <2>2, Nesting
    <2> QED BY <1>2, <2>3
  <1>4. ~(h < g)
    <2>1. SUFFICES ASSUME h < g PROVE FALSE OBVIOUS
    <2>2. g <= PhrasePair(p, h + 1) BY <1>1, <1>2
    <2>3. PhrasePair(p, g + 1) < PhrasePair(p, h + 1) BY <2>1, <2>2, Nesting
    <2> QED BY <1>2, <2>3
  <1> QED BY <1>1, <1>3, <1>4

LEMMA HeaderPair ==
    ASSUME NEW p \in Seq(STRING), NEW h \in DOMAIN p, p[h] \notin Braces
    PROVE  PhrasePair(p, h) = PhrasePair(p, h + 1)
  <1> DEFINE In(l, kind, j) == Cardinality(At(p, {kind}) \cap l .. j)
             Ends(l) == {j \in At(p, {"rbrace"}) : j >= l /\ In(l, "lbrace", j) = In(l, "rbrace", j)}
  <1>1. DOMAIN p = 1 .. Len(p) /\ h \in Nat OBVIOUS
  <1>2. \A kind \in Braces : \A j : At(p, {kind}) \cap h .. j = At(p, {kind}) \cap h + 1 .. j
    BY <1>1 DEF At
  <1>3. \A j : In(h, "lbrace", j) = In(h + 1, "lbrace", j) /\ In(h, "rbrace", j) = In(h + 1, "rbrace", j)
    BY <1>2 DEF Braces
  <1>4. \A j \in At(p, {"rbrace"}) : j >= h <=> j >= h + 1 BY <1>1 DEF At, Braces
  <1>5. Ends(h) = Ends(h + 1) BY <1>3, <1>4
  <1>6. \A l : PhrasePair(p, l) = IF Ends(l) = {} THEN NoPhrase ELSE Min(Ends(l)) BY DEF PhrasePair
  <1> HIDE DEF Ends
  <1> QED BY <1>5, <1>6

\* The function that setupLogicLoop computes with its inner loop exists: each
\* turn goes further back in the text.
LEMMA ChainDef ==
    ASSUME NEW p \in Seq(STRING), Braced(p)
    PROVE  ChainEnd(p) = [j \in DOMAIN p |-> IF j + 1 \in At(p, {"elseif", "else"})
                                              THEN ChainEnd(p)[PhrasePair(p, j + 1)] ELSE j]
  <1> DEFINE n == Len(p)
             Ends(m, f) == f = [j \in n + 1 - m .. n |-> IF j + 1 \in At(p, {"elseif", "else"})
                                                         THEN f[PhrasePair(p, j + 1)] ELSE j]
             Fails == {m \in Nat : m <= n /\ ~ \E f : Ends(m, f)}
  <1>1. n \in Nat /\ DOMAIN p = 1 .. n OBVIOUS
  <1>2. ASSUME NEW j \in 1 .. n, j + 1 \in At(p, {"elseif", "else"})
        PROVE  PhrasePair(p, j + 1) \in Nat /\ j + 1 < PhrasePair(p, j + 1) /\ PhrasePair(p, j + 1) <= n
    <2>1. j + 1 \in At(p, Loops \cup Branches) /\ j + 1 \in DOMAIN p /\ p[j + 1] \notin Braces
      BY <1>2 DEF At, Branches, Braces
    <2>2. PhrasePair(p, j + 1) = PhrasePair(p, j + 1 + 1) BY <2>1, HeaderPair
    <2>3. j + 1 + 1 \in At(p, {"lbrace"}) /\ PhrasePair(p, j + 1 + 1) # NoPhrase BY <2>1 DEF Braced
    <2>4. /\ PhrasePair(p, j + 1 + 1) \in At(p, {"rbrace"}) /\ PhrasePair(p, j + 1 + 1) \in Nat
          /\ j + 1 + 1 < PhrasePair(p, j + 1 + 1)
      BY <2>3, PairFacts
    <2> QED BY <1>1, <2>2, <2>4 DEF At
  <1>3. Fails = {}
    <2>1. SUFFICES ASSUME Fails # {} PROVE FALSE OBVIOUS
    <2>2. Fails \subseteq Nat OBVIOUS
    <2>3. PICK m \in Fails : \A y \in Fails : m <= y
      <3> HIDE DEF Fails
      <3> QED BY <2>1, <2>2, LeastOne
    <2>4. m \in Nat /\ m <= n /\ ~ \E f : Ends(m, f) OBVIOUS
    <2>5. m # 0
      <3>1. Ends(0, [j \in n + 1 - 0 .. n |-> j]) BY <1>1
      <3> QED BY <2>4, <3>1
    <2>6. m - 1 \in Nat /\ m - 1 <= n /\ m - 1 \notin Fails BY <1>1, <2>3, <2>4, <2>5
    <2>7. PICK f : Ends(m - 1, f) BY <2>6
    <2> DEFINE i == n + 1 - m
               g == [j \in i .. n |-> IF j # i THEN f[j]
                                      ELSE IF j + 1 \in At(p, {"elseif", "else"})
                                           THEN f[PhrasePair(p, j + 1)] ELSE j]
    <2>8. i \in 1 .. n /\ n + 1 - (m - 1) = i + 1 BY <1>1, <2>4, <2>5
    <2>9. \A j \in i + 1 .. n : f[j] = IF j + 1 \in At(p, {"elseif", "else"})
                                       THEN f[PhrasePair(p, j + 1)] ELSE j
      BY <2>7, <2>8
    <2> HIDE DEF Ends, Fails
    <2>10. \A j \in i .. n : j + 1 \in At(p, {"elseif", "else"}) =>
                                g[PhrasePair(p, j + 1)] = f[PhrasePair(p, j + 1)]
      <3>1. TAKE j \in i .. n
      <3>2. HAVE j + 1 \in At(p, {"elseif", "else"})
      <3>3. j \in 1 .. n BY <2>8
      <3>4. PhrasePair(p, j + 1) \in i .. n /\ PhrasePair(p, j + 1) # i BY <1>1, <1>2, <2>8, <3>2, <3>3
      <3> QED BY <3>4
    <2>11. \A j \in i .. n : g[j] = IF j + 1 \in At(p, {"elseif", "else"})
                                    THEN g[PhrasePair(p, j + 1)] ELSE j
      BY <1>1, <2>8, <2>9, <2>10
    <2> HIDE DEF g
    <2>12. g = [j \in i .. n |-> IF j + 1 \in At(p, {"elseif", "else"})
                                 THEN g[PhrasePair(p, j + 1)] ELSE j]
      <3>1. g = [j \in i .. n |-> g[j]] BY DEF g
      <3> QED BY <2>11, <3>1
    <2>13. Ends(m, g) BY <2>12 DEF Ends
    <2> QED BY <2>4, <2>13
  <1>4. PICK f : f = [j \in DOMAIN p |-> IF j + 1 \in At(p, {"elseif", "else"})
                                          THEN f[PhrasePair(p, j + 1)] ELSE j]
    <2>1. n \notin Fails BY <1>3
    <2>2. PICK f : Ends(n, f) BY <1>1, <2>1
    <2>3. n + 1 - n = 1 BY <1>1
    <2> QED BY <1>1, <2>2, <2>3
  <1>5. ChainEnd(p) = CHOOSE end : end = [j \in DOMAIN p |-> IF j + 1 \in At(p, {"elseif", "else"})
                                          THEN end[PhrasePair(p, j + 1)] ELSE j]
    BY DEF ChainEnd
  <1> QED BY <1>4, <1>5

\* What a chain is followed through does not leave a part of the text that
\* each of its steps stays in.
LEMMA ChainStays ==
    ASSUME NEW p \in Seq(STRING), Braced(p), NEW X \in SUBSET DOMAIN p,
           \A j \in X : j + 1 \in At(p, {"elseif", "else"}) =>
                          PhrasePair(p, j + 1) \in X /\ j < PhrasePair(p, j + 1),
           NEW i \in X
    PROVE  ChainEnd(p)[i] \in X
  <1> DEFINE n == Len(p)
             Bad == {m \in 0 .. n : n - m \in X /\ ChainEnd(p)[n - m] \notin X}
  <1>1. n \in Nat /\ DOMAIN p = 1 .. n OBVIOUS
  <1>2. SUFFICES ASSUME ChainEnd(p)[i] \notin X PROVE FALSE OBVIOUS
  <1>3. n - i \in Bad
    <2>1. n - i \in 0 .. n /\ n - (n - i) = i BY <1>1
    <2> QED BY <1>2, <2>1
  <1>4. PICK m \in Bad : \A y \in Bad : m <= y
    <2>1. Bad \subseteq Nat OBVIOUS
    <2> HIDE DEF Bad
    <2> QED BY <1>3, <2>1, LeastOne
  <1> DEFINE j == n - m
             k == PhrasePair(p, j + 1)
  <1>5. j \in X /\ j \in DOMAIN p /\ ChainEnd(p)[j] \notin X /\ m \in 0 .. n OBVIOUS
  <1>6. ChainEnd(p)[j] = IF j + 1 \in At(p, {"elseif", "else"}) THEN ChainEnd(p)[k] ELSE j
    BY <1>5, ChainDef
  <1>7. j + 1 \in At(p, {"elseif", "else"}) /\ k \in X /\ j < k /\ ChainEnd(p)[k] \notin X
    BY <1>5, <1>6
  <1>8. k \in 1 .. n /\ n - k \in 0 .. n /\ n - (n - k) = k BY <1>1, <1>7
  <1> HIDE DEF k
  <1>9. n - k \in Bad /\ n - k < m BY <1>1, <1>5, <1>7, <1>8
  <1> HIDE DEF Bad
  <1> QED BY <1>4, <1>5, <1>8, <1>9

\* The block of a header, for each header of a text in braces.
LEMMA BlockFacts ==
    ASSUME NEW p \in Seq(STRING), Braced(p), NEW h \in At(p, Loops \cup Branches)
    PROVE  /\ h \in 1 .. Len(p) /\ h + 1 \in At(p, {"lbrace"})
           /\ PhrasePair(p, h + 1) \in At(p, {"rbrace"}) /\ PhrasePair(p, h + 1) \in 1 .. Len(p)
           /\ h + 1 < PhrasePair(p, h + 1)
  <1>1. h + 1 \in At(p, {"lbrace"}) /\ PhrasePair(p, h + 1) # NoPhrase BY DEF Braced
  <1>2. PhrasePair(p, h + 1) \in At(p, {"rbrace"}) /\ h + 1 < PhrasePair(p, h + 1)
    BY <1>1, PairFacts
  <1> QED BY <1>1, <1>2 DEF At

\* The target of a closing brace.
LEMMA BraceJump ==
    ASSUME NEW p \in Seq(STRING), Braced(p), NEW i \in At(p, {"rbrace"})
    PROVE  \/ /\ \A g \in At(p, Loops \cup Branches) : PhrasePair(p, g + 1) # i
              /\ JumpTable(p)[i] = i + 1
           \/ \E g \in At(p, Loops \cup Branches) :
                /\ PhrasePair(p, g + 1) = i
                /\ JumpTable(p)[i] = CASE p[g] \in Loops -> g
                                       [] p[g] = "else" -> i + 1
                                       [] OTHER -> ChainEnd(p)[i] + 1
  <1> DEFINE pair == [h \in At(p, Loops \cup Branches) |-> PhrasePair(p, h + 1)]
             Closed(j) == {h \in DOMAIN pair : pair[h] = j}
             Brace(j) == IF Closed(j) = {} THEN j + 1
                         ELSE LET h == Max(Closed(j))
                              IN  CASE p[h] \in Loops -> h
                                    [] p[h] = "else"  -> j + 1
                                    [] OTHER          -> ChainEnd(p)[j] + 1
  <1>1. i \in DOMAIN p /\ p[i] = "rbrace" BY DEF At
  <1>2. JumpTable(p)[i] = Brace(i) BY <1>1 DEF JumpTable, Returns, Loops
  <1>3. CASE Closed(i) = {} BY <1>2, <1>3
  <1>4. CASE Closed(i) # {}
    <2>1. PICK g \in Closed(i) : TRUE BY <1>4
    <2>2. g \in At(p, Loops \cup Branches) /\ PhrasePair(p, g + 1) = i BY <2>1
    <2>3. Closed(i) = {g}
      <3>1. ASSUME NEW h \in Closed(i) PROVE h = g
        <4>1. h \in At(p, Loops \cup Branches) /\ PhrasePair(p, h + 1) = i BY <3>1
        <4> QED BY <2>2, <4>1, PairsDiffer
      <3> QED BY <2>1, <3>1
    <2>4. Max({g}) = g BY <2>2 DEF Max, At
    <2> QED BY <1>2, <1>4, <2>2, <2>3, <2>4
  <1> QED BY <1>3, <1>4

\* The target of a break or skip that finds the loop around it.
LEMMA LoopJump ==
    ASSUME NEW p \in Seq(STRING), NEW i \in At(p, {"break", "skip"}),
           NEW l \in At(p, Loops), l < i, \A h \in At(p, Loops) : h < i => h <= l
    PROVE  JumpTable(p)[i] = IF p[i] = "break" THEN PhrasePair(p, l + 1) + 1 ELSE l
  <1> DEFINE Nearest == {h \in At(p, Loops) : h < i}
  <1>1. l \in Nearest /\ \A h \in Nearest : h <= l OBVIOUS
  <1>2. Max(Nearest) = l
    <2>1. \A h \in Nearest : h \in Nat BY DEF At
    <2>2. Max(Nearest) \in Nearest /\ \A h \in Nearest : Max(Nearest) >= h BY <1>1, <2>1 DEF Max
    <2>3. l \in Nat BY <1>1, <2>1
    <2> HIDE DEF Nearest
    <2>4. Max(Nearest) \in Nat BY <2>1, <2>2
    <2>5. Max(Nearest) >= l /\ Max(Nearest) <= l BY <1>1, <2>2
    <2> QED BY <2>3, <2>4, <2>5
  <1>3. i \in DOMAIN p /\ p[i] \in {"break", "skip"} /\ l \in At(p, Loops \cup Branches) BY DEF At
  <1> QED BY <1>1, <1>2, <1>3 DEF JumpTable, PastBlock, Returns, Loops

\* Blocks reads the text as the parser does.
LEMMA BlocksText ==
    /\ \A kinds : B!At(prog, kinds) = At(prog, kinds)
    /\ B!At(prog, B!Loops) = At(prog, Loops)
    /\ B!At(prog, B!Loops \cup B!Branches) = At(prog, Loops \cup Branches)
    /\ \A x : B!PhrasePair(prog, x) = PhrasePair(prog, x)
    /\ \A S : B!Min(S) = Min(S) /\ B!Max(S) = Max(S)
  <1>1. /\ \A kinds : B!At(prog, kinds) = At(prog, kinds)
        /\ B!At(prog, B!Loops) = At(prog, Loops)
        /\ B!At(prog, B!Loops \cup B!Branches) = At(prog, Loops \cup Branches)
    BY DEF B!At, B!Loops, B!Branches, At, Loops, Branches
  <1>2. \A x : B!PhrasePair(prog, x) = PhrasePair(prog, x)
    <2>1. \A k : B!At(prog, k) = At(prog, k) BY DEF B!At, At
    <2>2. \A S : B!Min(S) = Min(S) BY DEF B!Min, Min
    <2>3. \A S : B!Cardinality(S) = Cardinality(S) BY DEF B!Cardinality, Cardinality
    <2> DEFINE BEnds(x) == {j \in B!At(prog, {"rbrace"}) :
                 j >= x /\ B!Cardinality(B!At(prog, {"lbrace"}) \cap x .. j)
                             = B!Cardinality(B!At(prog, {"rbrace"}) \cap x .. j)}
               Ends(x) == {j \in At(prog, {"rbrace"}) :
                 j >= x /\ Cardinality(At(prog, {"lbrace"}) \cap x .. j)
                             = Cardinality(At(prog, {"rbrace"}) \cap x .. j)}
    <2>4. \A x : BEnds(x) = Ends(x)
      <3>1. \A x, k : \A j : B!Cardinality(B!At(prog, k) \cap x .. j) = Cardinality(At(prog, k) \cap x .. j)
        BY <2>1, <2>3, Zenon
      <3>2. B!At(prog, {"rbrace"}) = At(prog, {"rbrace"}) BY <2>1, Zenon
      <3> QED BY <3>1, <3>2
    <2>5. \A x : /\ B!PhrasePair(prog, x) = IF BEnds(x) = {} THEN NoPhrase ELSE B!Min(BEnds(x))
                 /\ PhrasePair(prog, x) = IF Ends(x) = {} THEN NoPhrase ELSE Min(Ends(x))
      BY DEF B!PhrasePair, PhrasePair, B!NoPhrase, NoPhrase
    <2> HIDE DEF BEnds, Ends
    <2> QED BY <2>2, <2>4, <2>5
  <1>3. \A S : B!Min(S) = Min(S) /\ B!Max(S) = Max(S) BY DEF B!Min, B!Max, Min, Max
  <1> QED BY <1>1, <1>2, <1>3

\* What the promise of a break or skip comes to: the nearest header of a loop in
\* front of it is the loop around it.
LEMMA Promised ==
    ASSUME NEW i \in At(prog, {"break", "skip"}), ~B!NoPromise(i), prog \in Seq(STRING), Braced(prog)
    PROVE  \E l \in At(prog, Loops) :
              /\ l + 2 <= i /\ i < PhrasePair(prog, l + 1)
              /\ \A h \in At(prog, Loops) : h < i => h <= l
  <1>1. /\ B!At(prog, B!Loops) = At(prog, Loops)
        /\ B!At(prog, B!Loops \cup B!Branches) = At(prog, Loops \cup Branches)
    BY BlocksText
  <1>2. \A x : B!PhrasePair(prog, x) = PhrasePair(prog, x) BY BlocksText
  <1>3. prog[i] \in {"break", "skip"} BY DEF At
  <1>4. /\ B!Loop(i) # {}
        /\ \A h \in At(prog, Loops) \ B!Loop(i) : ~(Max(B!Loop(i)) < h /\ h < i)
    <2>1. \A S : B!Max(S) = Max(S) BY DEF B!Max, Max
    <2> QED BY <1>1, <1>3, <2>1 DEF B!NoPromise
  <1>5. B!Loop(i) = {l \in At(prog, Loops) : i \in l + 2 .. PhrasePair(prog, l + 1) - 1}
    <2>1. At(prog, Loops) \subseteq At(prog, Loops \cup Branches) BY DEF At
    <2>2. \A l : l \in B!Loop(i) <=> /\ l \in B!At(prog, B!Loops \cup B!Branches)
                                     /\ i \in l + 2 .. B!PhrasePair(prog, l + 1) - 1
                                     /\ l \in B!At(prog, B!Loops)
      BY DEF B!Loop, B!Around, B!Body
    <2> QED BY <1>1, <1>2, <2>1, <2>2
  <1>6. B!Loop(i) \subseteq 1 .. Len(prog) BY <1>5 DEF At
  <1>7. PICK l \in B!Loop(i) : \A y \in B!Loop(i) : y <= l
    <2>1. Len(prog) \in Nat OBVIOUS
    <2> QED BY <1>4, <1>6, <2>1, GreatestOne
  <1>8. Max(B!Loop(i)) = l
    <2>1. \A y \in B!Loop(i) : y \in Nat BY <1>6
    <2>2. \A y \in B!Loop(i) : l >= y BY <1>7, <2>1
    <2>3. Max(B!Loop(i)) \in B!Loop(i) /\ \A y \in B!Loop(i) : Max(B!Loop(i)) >= y BY <2>2 DEF Max
    <2> QED BY <1>7, <2>1, <2>3
  <1>9. l \in At(prog, Loops) /\ l + 2 <= i /\ i < PhrasePair(prog, l + 1)
    <2>1. l \in At(prog, Loops) /\ i \in l + 2 .. PhrasePair(prog, l + 1) - 1 BY <1>5
    <2>2. l \in Nat /\ i \in Nat BY <1>6 DEF At
    <2>3. PhrasePair(prog, l + 1) \in Nat
      <3>1. l \in At(prog, Loops \cup Branches) BY <2>1 DEF At
      <3>2. PhrasePair(prog, l + 1) \in 1 .. Len(prog) BY <3>1, BlockFacts
      <3> QED BY <3>2
    <2> QED BY <2>1, <2>2, <2>3
  <1>10. \A h \in At(prog, Loops) : h < i => h <= l
    <2>1. TAKE h \in At(prog, Loops)
    <2>2. h \in Nat /\ l \in Nat BY <1>6 DEF At
    <2>3. CASE h \in B!Loop(i) BY <1>7, <2>3
    <2>4. CASE h \notin B!Loop(i) BY <1>4, <1>8, <2>2, <2>4
    <2> QED BY <2>3, <2>4
  <1> QED BY <1>9, <1>10

\* Blocks lie beside or in each other.
LEMMA BesideOrIn ==
    ASSUME NEW p \in Seq(STRING), Braced(p),
           NEW g \in At(p, Loops \cup Branches), NEW h \in At(p, Loops \cup Branches), g # h
    PROVE  /\ PhrasePair(p, g + 1) # PhrasePair(p, h + 1)
           /\ g \in h + 1 .. PhrasePair(p, h + 1) =>
                h + 1 < g /\ PhrasePair(p, g + 1) < PhrasePair(p, h + 1)
           /\ g < h => PhrasePair(p, g + 1) < h \/ PhrasePair(p, g + 1) > PhrasePair(p, h + 1)
  <1>1. /\ g \in 1 .. Len(p) /\ h \in 1 .. Len(p) /\ h + 1 \in At(p, {"lbrace"})
        /\ PhrasePair(p, g + 1) \in 1 .. Len(p) /\ PhrasePair(p, h + 1) \in 1 .. Len(p)
    BY BlockFacts
  <1>2. PhrasePair(p, g + 1) # PhrasePair(p, h + 1) BY PairsDiffer
  <1>3. ASSUME g \in h + 1 .. PhrasePair(p, h + 1)
        PROVE  h + 1 < g /\ PhrasePair(p, g + 1) < PhrasePair(p, h + 1)
    <2>1. g # h + 1 BY <1>1 DEF At, Loops, Branches
    <2>2. h < g /\ g <= PhrasePair(p, h + 1) BY <1>1, <1>3
    <2>3. PhrasePair(p, g + 1) < PhrasePair(p, h + 1) BY <2>2, Nesting
    <2> QED BY <1>1, <2>1, <2>2, <2>3
  <1>4. ASSUME g < h, ~(PhrasePair(p, g + 1) < h)
        PROVE  PhrasePair(p, g + 1) > PhrasePair(p, h + 1)
    <2>1. h <= PhrasePair(p, g + 1) BY <1>1, <1>4
    <2>2. PhrasePair(p, h + 1) < PhrasePair(p, g + 1) BY <1>4, <2>1, Nesting
    <2> QED BY <1>1, <2>2
  <1> QED BY <1>2, <1>3, <1>4

\* Where an execution of the block of h goes from a phrase i of the routine:
\* into the block or round to its header from inside, and past it from outside.
Ways(h, i, t) == (t \in Inside(h) \/ (t = h /\ i \in Inside(h))) <=> i \in Inside(h)

\* A header whose condition fails.
LEMMA HeaderWays ==
    ASSUME prog \in Seq(STRING), Braced(prog), NEW h \in At(prog, {"for", "foreach"}),
           NEW i \in At(prog, Loops \cup Branches), i # h
    PROVE  Ways(h, i, PhrasePair(prog, i + 1) + 1)
  <1>1. h \in At(prog, Loops \cup Branches) BY DEF At, Loops
  <1> DEFINE e == PhrasePair(prog, h + 1)
             c == PhrasePair(prog, i + 1)
  <1>2. /\ h \in Nat /\ i \in Nat /\ e \in Nat /\ c \in Nat /\ i + 1 < c /\ h + 1 < e
    <2>1. h \in 1 .. Len(prog) /\ e \in 1 .. Len(prog) /\ h + 1 < e BY <1>1, BlockFacts
    <2>2. i \in 1 .. Len(prog) /\ c \in 1 .. Len(prog) /\ i + 1 < c BY BlockFacts
    <2> QED BY <2>1, <2>2
  <1>3. /\ i \in h + 1 .. e => h + 1 < i /\ c < e
        /\ i < h => c < h \/ c > e
    BY <1>1, BesideOrIn
  <1>4. Inside(h) = h + 1 .. e BY DEF Inside
  <1> HIDE DEF e, c
  <1>5. CASE i \in h + 1 .. e BY <1>2, <1>3, <1>4, <1>5 DEF Ways, c
  <1>6. CASE i \notin h + 1 .. e
    <2>1. c + 1 \notin h + 1 .. e BY <1>2, <1>3, <1>6
    <2> QED BY <1>4, <1>6, <2>1 DEF Ways, c
  <1> QED BY <1>5, <1>6

\* A closing brace, with the end of the chain that an if or elseif begins.
LEMMA BraceWays ==
    ASSUME prog \in Seq(STRING), Braced(prog), NEW h \in At(prog, {"for", "foreach"}),
           NEW i \in At(prog, {"rbrace"})
    PROVE  Ways(h, i, JumpTable(prog)[i])
  <1>1. h \in At(prog, Loops \cup Branches) /\ prog[h] \in {"for", "foreach"} BY DEF At, Loops
  <1> DEFINE e == PhrasePair(prog, h + 1)
             n == Len(prog)
             t == JumpTable(prog)[i]
  <1>2. h \in 1 .. n /\ e \in 1 .. n /\ h + 1 < e /\ h + 1 \in At(prog, {"lbrace"})
    BY <1>1, BlockFacts
  <1>3. n \in Nat /\ DOMAIN prog = 1 .. n /\ i \in 1 .. n BY DEF At
  <1>4. i # h /\ i # h + 1 BY <1>1, <1>2 DEF At
  <1>5. Inside(h) = h + 1 .. e BY DEF Inside
  <1>6. \A g \in At(prog, Loops \cup Branches) : g # h =>
           /\ PhrasePair(prog, g + 1) # e
           /\ g \in h + 1 .. e => h + 1 < g /\ PhrasePair(prog, g + 1) < e
           /\ g < h => PhrasePair(prog, g + 1) < h \/ PhrasePair(prog, g + 1) > e
    BY <1>1, BesideOrIn
  <1>7. \A g \in At(prog, Loops \cup Branches) :
           /\ g \in 1 .. n /\ PhrasePair(prog, g + 1) \in 1 .. n /\ g + 1 < PhrasePair(prog, g + 1)
    BY BlockFacts
  <1> HIDE DEF e, n, t
  <1>8. CASE i # e /\ t = i + 1
    BY <1>2, <1>3, <1>4, <1>5, <1>8 DEF Ways, t
  <1>9. CASE i # e /\ t = ChainEnd(prog)[i] + 1
    <2> DEFINE X == IF i \in h + 1 .. e THEN h + 1 .. e - 1 ELSE 1 .. n \ (h .. e)
    <2>1. i \in X /\ X \subseteq DOMAIN prog BY <1>2, <1>3, <1>4, <1>9
    <2>2. ASSUME NEW j \in X, j + 1 \in At(prog, {"elseif", "else"})
          PROVE  PhrasePair(prog, j + 1) \in X /\ j < PhrasePair(prog, j + 1)
      <3>1. j \in 1 .. n /\ j + 1 \in At(prog, Loops \cup Branches) /\ j + 1 # h
        BY <1>1, <2>1, <2>2, <1>3 DEF At, Branches
      <3>2. PhrasePair(prog, j + 1) = PhrasePair(prog, j + 1 + 1)
        <4>1. j + 1 \in DOMAIN prog /\ prog[j + 1] \notin Braces BY <2>2 DEF At, Braces
        <4> QED BY <4>1, HeaderPair
      <3> DEFINE c == PhrasePair(prog, j + 1 + 1)
      <3>3. c \in 1 .. n /\ j + 1 + 1 < c BY <1>7, <3>1
      <3>4. /\ j + 1 \in h + 1 .. e => c < e
            /\ j + 1 < h => c < h \/ c > e
        BY <1>6, <3>1
      <3> HIDE DEF c
      <3>5. c \in X /\ j < c
        <4>1. CASE i \in h + 1 .. e
          <5>1. j \in h + 1 .. e - 1 BY <4>1
          <5>2. j + 1 \in h + 1 .. e BY <1>2, <5>1
          <5> QED BY <1>2, <3>3, <3>4, <4>1, <5>1, <5>2
        <4>2. CASE i \notin h + 1 .. e
          <5>1. j \in 1 .. n /\ j \notin h .. e BY <4>2
          <5>2. c \in 1 .. n /\ c \notin h .. e BY <1>2, <3>1, <3>3, <3>4, <5>1
          <5> QED BY <3>1, <3>3, <4>2, <5>2
        <4> QED BY <4>1, <4>2
      <3> QED BY <3>2, <3>5 DEF c
    <2> HIDE DEF X
    <2>3. ChainEnd(prog)[i] \in X BY <2>1, <2>2, ChainStays
    <2> QED BY <1>2, <1>3, <1>4, <1>5, <1>9, <2>3 DEF Ways, t, X
  <1>10. CASE \A g \in At(prog, Loops \cup Branches) : PhrasePair(prog, g + 1) # i
    <2>1. i # e BY <1>1, <1>10 DEF e
    <2>2. t = i + 1 BY <1>10, BraceJump DEF t
    <2> QED BY <1>8, <2>1, <2>2
  <1>11. ASSUME NEW g \in At(prog, Loops \cup Branches), PhrasePair(prog, g + 1) = i,
                t = CASE prog[g] \in Loops -> g
                      [] prog[g] = "else" -> i + 1
                      [] OTHER -> ChainEnd(prog)[i] + 1
         PROVE  Ways(h, i, t)
    <2>1. CASE g = h
      <3>1. i = e BY <1>11, <2>1 DEF e
      <3>2. t = h BY <1>1, <1>11, <2>1 DEF Loops
      <3> QED BY <1>2, <1>5, <3>1, <3>2 DEF Ways
    <2>2. CASE g # h
      <3>1. /\ i # e
            /\ g \in h + 1 .. e => h + 1 < g /\ i < e
            /\ g < h => i < h \/ i > e
            /\ g \in 1 .. n /\ g + 1 < i
        BY <1>6, <1>7, <1>11, <2>2
      <3>2. CASE t = g
        <4>1. i \in h + 1 .. e => g \in h + 1 .. e BY <1>2, <1>3, <2>2, <3>1
        <4>2. i \notin h + 1 .. e => g \notin h + 1 .. e BY <1>2, <1>3, <3>1
        <4> QED BY <1>5, <2>2, <3>2, <4>1, <4>2 DEF Ways
      <3>3. CASE t = i + 1 BY <1>8, <3>1, <3>3 DEF t
      <3>4. CASE t = ChainEnd(prog)[i] + 1 BY <1>9, <3>1, <3>4 DEF t
      <3> QED BY <1>11, <3>2, <3>3, <3>4
    <2> QED BY <2>1, <2>2
  <1> QED BY <1>10, <1>11, BraceJump DEF t

\* A break or skip that finds the loop around it.
LEMMA LoopWays ==
    ASSUME prog \in Seq(STRING), Braced(prog), NEW h \in At(prog, {"for", "foreach"}), Orderly(h),
           NEW i \in At(prog, {"break", "skip"})
    PROVE  Ways(h, i, JumpTable(prog)[i])
  <1>1. h \in At(prog, Loops \cup Branches) /\ h \in At(prog, Loops) BY DEF At, Loops
  <1> DEFINE e == PhrasePair(prog, h + 1)
             n == Len(prog)
  <1>2. h \in 1 .. n /\ e \in 1 .. n /\ h + 1 < e BY <1>1, BlockFacts
  <1>3. ~B!NoPromise(i) BY DEF Orderly
  <1>4. PICK l \in At(prog, Loops) : /\ l + 2 <= i /\ i < PhrasePair(prog, l + 1)
                                     /\ \A g \in At(prog, Loops) : g < i => g <= l
    BY <1>3, Promised
  <1> DEFINE c == PhrasePair(prog, l + 1)
  <1>5. l \in At(prog, Loops \cup Branches) BY DEF At
  <1>6. l \in 1 .. n /\ c \in 1 .. n BY <1>5, BlockFacts
  <1>7. i \in 1 .. n /\ n \in Nat BY DEF At
  <1>8. /\ l \in h + 1 .. e /\ l # h => c < e
        /\ l < h => c < h \/ c > e
    <2>1. l < h => l # h BY <1>2
    <2> QED BY <1>1, <1>5, <2>1, BesideOrIn
  <1>9. JumpTable(prog)[i] = IF prog[i] = "break" THEN c + 1 ELSE l
    <2>1. l < i BY <1>4, <1>6, <1>7
    <2> QED BY <1>4, <2>1, LoopJump
  <1>10. i < c /\ l + 2 <= i /\ (h < i => h <= l) BY <1>1, <1>4
  <1>11. Inside(h) = h + 1 .. e BY DEF Inside
  <1> HIDE DEF c, e, n
  <1>12. i \in h + 1 .. e => prog[i] # "break"
    <2>1. Inside(h) \cap At(prog, {"break"} \cup Returns \cup Calls) = {} BY DEF Orderly
    <2>2. prog[i] = "break" => i \in At(prog, {"break"} \cup Returns \cup Calls) BY DEF At
    <2> QED BY <1>11, <2>1, <2>2
  <1>13. CASE i \in h + 1 .. e
    <2>1. l \in h .. e BY <1>2, <1>6, <1>7, <1>10, <1>13
    <2> QED BY <1>2, <1>6, <1>9, <1>11, <1>12, <1>13, <2>1 DEF Ways
  <1>14. CASE i \notin h + 1 .. e
    <2>1. l \notin h + 1 .. e /\ c + 1 \notin h + 1 .. e
      BY <1>2, <1>6, <1>7, <1>8, <1>10, <1>14
    <2> QED BY <1>9, <1>11, <1>14, <2>1 DEF Ways
  <1> QED BY <1>13, <1>14

\* Every jump.
LEMMA JumpWays ==
    ASSUME prog \in Seq(STRING), Braced(prog), NEW h \in At(prog, {"for", "foreach"}), Orderly(h),
           NEW i \in Jumping, i # h
    PROVE  Ways(h, i, JumpTable(prog)[i])
  <1>1. i \in DOMAIN prog /\ h \in At(prog, Loops \cup Branches) BY DEF Jumping, At, Loops
  <1>2. CASE i \in At(prog, Returns)
    <2>1. JumpTable(prog)[i] = Len(prog) + 1
      <3>1. prog[i] \in Returns BY <1>2 DEF At
      <3> QED BY <1>1, <3>1 DEF JumpTable, Returns, Loops
    <2>2. PhrasePair(prog, h + 1) \in 1 .. Len(prog) /\ h \in 1 .. Len(prog) BY <1>1, BlockFacts
    <2>3. i \notin Inside(h) BY <1>2 DEF Orderly, At
    <2> QED BY <2>1, <2>2, <2>3 DEF Ways, Inside
  <1>3. CASE i \in At(prog, Loops \cup {"if", "elseif"})
    <2>1. i \in At(prog, Loops \cup Branches) BY <1>3 DEF At, Branches
    <2>2. JumpTable(prog)[i] = PhrasePair(prog, i + 1) + 1
      BY <1>1, <1>3, <2>1 DEF JumpTable, PastBlock, At, Returns, Loops
    <2> QED BY <2>1, <2>2, HeaderWays
  <1>4. CASE i \in At(prog, {"rbrace"}) BY <1>4, BraceWays
  <1>5. CASE i \in At(prog, {"break", "skip"}) BY <1>5, LoopWays
  <1> QED BY <1>2, <1>3, <1>4, <1>5 DEF Jumping, At

\* The phrase behind one that is no header of h and does not end its block.
LEMMA NextWays ==
    ASSUME prog \in Seq(STRING), Braced(prog), NEW h \in At(prog, {"for", "foreach"}),
           NEW i \in DOMAIN prog, i # h, prog[i] # "rbrace"
    PROVE  Ways(h, i, i + 1)
  <1>1. h \in At(prog, Loops \cup Branches) BY DEF At, Loops
  <1>2. /\ h \in 1 .. Len(prog) /\ PhrasePair(prog, h + 1) \in 1 .. Len(prog)
        /\ PhrasePair(prog, h + 1) \in At(prog, {"rbrace"})
    BY <1>1, BlockFacts
  <1>3. i # PhrasePair(prog, h + 1) /\ i \in Nat BY <1>2 DEF At
  <1> QED BY <1>2, <1>3 DEF Ways, Inside

-----------------------------------------------------------------------------
\* The rounds of the loops

\* The latest activation stands in the block of h, or has come back from there.
Within(h) == frames # <<>> /\ (Here \in Inside(h) \/ (Here = h /\ Top.last \in Inside(h)))

\* An orderly for loop is in its first round unless the latest activation is
\* within it, and an orderly foreach that this one is within has taken an element.  A call starts at the front of the routine or behind a yield, and
\* goes back behind a call, so that it neither enters nor leaves the block.
Resumes == idResume = 1 \/ idResume - 1 \in At(prog, {"yield"})
FromCalls == \A k \in DOMAIN frames : k > 1 => frames[k].site \in At(prog, Calls)
Rounds ==
    /\ \A h \in At(prog, {"for"}) : Orderly(h) => (h \in firstRound <=> ~Within(h))
    /\ \A h \in At(prog, {"foreach"}) : Orderly(h) /\ Within(h) => index[h] > 0
Parsed == prog \in Progs /\ Braced(prog) /\ jumpTo = JumpTable(prog)
LoopInv == Parsed /\ Resumes /\ FromCalls /\ Rounds

LEMMA SameText ==
    ASSUME UNCHANGED code, Parsed
    PROVE  /\ Parsed' /\ prog \in Seq(STRING) /\ Jumping' = Jumping
           /\ \A kinds : At(prog', kinds) = At(prog, kinds)
           /\ \A h : Inside(h)' = Inside(h)
           /\ \A h : Orderly(h)' = Orderly(h)
  <1>1. prog' = prog /\ jumpTo' = jumpTo BY DEF code
  <1>2. Parsed' BY <1>1 DEF Parsed
  <1>3. prog \in Seq(STRING) BY ProgsAssumption DEF Parsed
  <1>4. \A h : Inside(h)' = Inside(h) BY <1>1 DEF Inside
  <1>5. \A i : B!NoPromise(i)' = B!NoPromise(i)
    BY <1>1 DEF B!NoPromise, B!Loop, B!Around, B!Body
  <1>6. \A h : Orderly(h)' = Orderly(h) BY <1>1, <1>4, <1>5 DEF Orderly
  <1> QED BY <1>1, <1>2, <1>3, <1>4, <1>6 DEF Jumping

\* A phrase whose next one is reached in the way that the blocks give leaves
\* every loop but its own in the round it was in.
LEMMA StepRounds ==
    ASSUME IInv, LoopInv, UNCHANGED <<code, idResume>>, frames # <<>>, Here \in DOMAIN prog,
           NEW f \in Frame, f.site = Top.site, f.last = Here,
           frames' = [frames EXCEPT ![Len(frames)] = f]
    PROVE  /\ Parsed' /\ Resumes' /\ FromCalls' /\ Here' = f.at /\ Top'.last = Here /\ frames' # <<>>
           /\ \A h \in At(prog, {"for", "foreach"}) : h # Here /\ Ways(h, Here, f.at) => (Within(h)' <=> Within(h))
  <1>1. TypeOK /\ Parsed BY DEF IInv, LoopInv
  <1>2. /\ frames' \in Seq(Frame) /\ Len(frames') = Len(frames) /\ Last(frames') = f
    BY <1>1, GotoFacts
  <1>3. frames \in Seq(Frame) /\ Len(frames) \in Nat \ {0} /\ Top = frames[Len(frames)]
    <2>1. frames \in Seq(Frame) BY <1>1 DEF TypeOK
    <2> QED BY <2>1, LastFacts DEF Top
  <1>4. frames' # <<>> BY <1>2, <1>3
  <1>5. Top' = f /\ Here' = f.at BY <1>2 DEF Top, Here
  <1>6. Parsed' /\ Resumes' BY <1>1, SameText DEF LoopInv, Resumes
  <1>7. FromCalls'
    <2>1. \A k \in DOMAIN frames' : k \in DOMAIN frames /\ frames'[k].site = frames[k].site
      BY <1>2, <1>3
    <2> QED BY <1>1, <2>1, SameText DEF LoopInv, FromCalls
  <1>8. \A h \in At(prog, {"for", "foreach"}) : h # Here /\ Ways(h, Here, f.at) => (Within(h)' <=> Within(h))
    <2>1. \A h : Inside(h)' = Inside(h) BY <1>1, SameText
    <2>2. \A h : Within(h)' <=> (f.at \in Inside(h) \/ (f.at = h /\ Here \in Inside(h)))
      BY <1>4, <1>5, <2>1 DEF Within
    <2> QED BY <2>2 DEF Within, Ways
  <1> QED BY <1>4, <1>5, <1>6, <1>7, <1>8

\* A step of Goto for all of them.
LEMMA GotoRounds ==
    ASSUME IInv, LoopInv, UNCHANGED <<code, idResume>>, frames # <<>>, Here \in DOMAIN prog,
           NEW next \in Places, Goto(next)
    PROVE  /\ Parsed' /\ Resumes' /\ FromCalls' /\ Here' = next /\ Top'.last = Here /\ frames' # <<>>
           /\ \A h \in At(prog, {"for", "foreach"}) : h # Here /\ Ways(h, Here, next) => (Within(h)' <=> Within(h))
  <1>1. PICK f \in Frame : /\ f.site = Top.site /\ f.last = Here /\ f.at = next
                           /\ frames' = [frames EXCEPT ![Len(frames)] = f]
    BY GotoSteps DEF IInv
  <1> QED BY <1>1, StepRounds

\* A step that changes at most what the loop `own' keeps.
LEMMA OwnRounds ==
    ASSUME LoopInv, UNCHANGED code, Parsed', Resumes', FromCalls', NEW own,
           \A h \in At(prog, {"for", "foreach"}) : h # own =>
              /\ h \in firstRound' <=> h \in firstRound
              /\ index'[h] = index[h]
              /\ Orderly(h) => (Within(h)' <=> Within(h)),
           own \in At(prog, {"for"}) => (own \in firstRound' <=> ~Within(own)'),
           own \in At(prog, {"foreach"}) => (Within(own)' => index'[own] > 0)
    PROVE  LoopInv'
  <1>1. /\ \A kinds : At(prog', kinds) = At(prog, kinds)
        /\ \A h : Orderly(h)' = Orderly(h)
    BY SameText DEF LoopInv
  <1>2. ASSUME NEW h \in At(prog, {"for"}), Orderly(h) PROVE h \in firstRound' <=> ~Within(h)'
    <2>1. h \in At(prog, {"for", "foreach"}) BY DEF At
    <2>2. h \in firstRound <=> ~Within(h) BY <1>2 DEF LoopInv, Rounds
    <2> QED BY <1>2, <2>1, <2>2
  <1>3. ASSUME NEW h \in At(prog, {"foreach"}), Orderly(h), Within(h)' PROVE index'[h] > 0
    <2>1. h \in At(prog, {"for", "foreach"}) BY DEF At
    <2>2. Within(h) => index[h] > 0 BY <1>3 DEF LoopInv, Rounds
    <2> QED BY <1>3, <2>1, <2>2
  <1>4. Rounds' BY <1>1, <1>2, <1>3 DEF Rounds
  <1> QED BY <1>4 DEF LoopInv

\* A step that changes none.
LEMMA KeepRounds ==
    ASSUME LoopInv, UNCHANGED <<code, firstRound, index>>, Parsed', Resumes', FromCalls',
           \A h \in At(prog, {"for", "foreach"}) : Orderly(h) => (Within(h)' <=> Within(h))
    PROVE  LoopInv'
  <1>1. Main \notin At(prog, {"for"}) /\ Main \notin At(prog, {"foreach"})
    <2>1. prog \in Seq(STRING) BY SameText DEF LoopInv
    <2> QED BY <2>1 DEF At, Main
  <1> QED BY <1>1, OwnRounds

\* All phrases but the for and foreach loops: each goes on to the next phrase or jumps.
LEMMA PhraseRounds ==
    ASSUME IInv, LoopInv, UNCHANGED code, frames # <<>>, Here \in DOMAIN prog,
           Command \/ Jump \/ Test \/ Fail \/ AssignLocal
    PROVE  LoopInv'
  <1>1. /\ TypeOK /\ Parsed /\ prog \in Seq(STRING) /\ Braced(prog) /\ jumpTo = JumpTable(prog)
    BY SameText DEF IInv, LoopInv, Parsed
  <1>2. UNCHANGED <<idResume, firstRound, index>>
    BY DEF Command, Jump, Test, Fail, AssignLocal, Quiet, loops
  <1>3. ASSUME Here \in Jumping, prog[Here] \notin {"for", "foreach"}, Goto(jumpTo[Here]) PROVE LoopInv'
    <2>1. jumpTo[Here] \in Places BY <1>1, <1>3, PlaceFacts
    <2>2. \A h \in At(prog, {"for", "foreach"}) : Orderly(h) => h # Here /\ Ways(h, Here, jumpTo[Here])
      <3>1. \A h \in At(prog, {"for", "foreach"}) : h # Here BY <1>3 DEF At
      <3> QED BY <1>1, <1>3, <3>1, JumpWays
    <2>3. /\ Parsed' /\ Resumes' /\ FromCalls'
          /\ \A h \in At(prog, {"for", "foreach"}) : h # Here /\ Ways(h, Here, jumpTo[Here]) => (Within(h)' <=> Within(h))
      BY <1>2, <1>3, <2>1, GotoRounds
    <2> QED BY <1>2, <2>2, <2>3, KeepRounds
  <1>4. ASSUME prog[Here] \notin {"for", "foreach", "rbrace"}, NEW f \in Frame,
               f.site = Top.site, f.last = Here, f.at = Here + 1,
               frames' = [frames EXCEPT ![Len(frames)] = f]
        PROVE  LoopInv'
    <2>1. \A h \in At(prog, {"for", "foreach"}) : h # Here /\ Ways(h, Here, Here + 1)
      <3>1. \A h \in At(prog, {"for", "foreach"}) : h # Here BY <1>4 DEF At
      <3> QED BY <1>1, <1>4, <3>1, NextWays
    <2>2. /\ Parsed' /\ Resumes' /\ FromCalls'
          /\ \A h \in At(prog, {"for", "foreach"}) : h # Here /\ Ways(h, Here, Here + 1) => (Within(h)' <=> Within(h))
      BY <1>2, <1>4, StepRounds
    <2> QED BY <1>2, <2>1, <2>2, KeepRounds
  <1>5. ASSUME prog[Here] \notin {"for", "foreach", "rbrace"}, Goto(Here + 1) PROVE LoopInv'
    <2>1. Here + 1 \in Places BY <1>1, PlaceFacts
    <2>2. PICK f \in Frame : /\ f.site = Top.site /\ f.last = Here /\ f.at = Here + 1
                             /\ frames' = [frames EXCEPT ![Len(frames)] = f]
      BY <1>1, <1>5, <2>1, GotoSteps
    <2> QED BY <1>4, <1>5, <2>2
  <1>6. CASE Command BY <1>5, <1>6 DEF Command
  <1>7. CASE Test BY <1>5, <1>7 DEF Test
  <1>8. CASE Jump BY <1>3, <1>8 DEF Jump, Jumping, At, Returns
  <1>9. CASE Fail BY <1>3, <1>9 DEF Fail, Jumping, At, Loops
  <1>10. CASE AssignLocal
    <2> DEFINE f == [Top EXCEPT !.at = Here + 1, !.last = Here, !.owns = Top.owns \cup {"local"}]
    <2>1. Top \in Frame /\ Top = frames[Len(frames)] BY LastFacts DEF IInv, TypeOK, Top
    <2>2. f \in Frame /\ f.site = Top.site /\ f.last = Here /\ f.at = Here + 1
      BY <1>1, <2>1, PlaceFacts DEF Frame, Sites, Data
    <2>3. frames' = [frames EXCEPT ![Len(frames)] = f] BY <2>1, <1>10 DEF AssignLocal
    <2> HIDE DEF f
    <2> QED BY <1>4, <1>10, <2>2, <2>3 DEF AssignLocal
  <1> QED BY <1>6, <1>7, <1>8, <1>9, <1>10

\* A header goes into its block or past it, and no other loop notices.
LEMMA OwnSteps ==
    ASSUME IInv, LoopInv, UNCHANGED <<code, idResume>>, frames # <<>>,
           NEW own \in At(prog, {"for", "foreach"}), own = Here,
           NEW next \in {Here + 1, jumpTo[Here]}, Goto(next)
    PROVE  /\ Parsed' /\ Resumes' /\ FromCalls'
           /\ \A h \in At(prog, {"for", "foreach"}) :
                 h # own /\ Orderly(h) => (Within(h)' <=> Within(h))
           /\ Within(own)' <=> next = Here + 1
  <1>1. /\ TypeOK /\ Parsed /\ prog \in Seq(STRING) /\ Braced(prog) /\ jumpTo = JumpTable(prog)
    BY SameText DEF IInv, LoopInv, Parsed
  <1>2. /\ Here \in DOMAIN prog /\ Here \in At(prog, Loops \cup Branches) /\ Here \in Jumping
        /\ prog[Here] \in {"for", "foreach"}
    BY DEF At, Loops, Jumping
  <1>3. /\ Here \in 1 .. Len(prog) /\ PhrasePair(prog, Here + 1) \in 1 .. Len(prog)
        /\ Here + 1 < PhrasePair(prog, Here + 1)
    BY <1>1, <1>2, BlockFacts
  <1>4. next \in Places BY <1>1, <1>2, PlaceFacts
  <1>5. /\ Parsed' /\ Resumes' /\ FromCalls' /\ Here' = next /\ Top'.last = Here /\ frames' # <<>>
        /\ \A h \in At(prog, {"for", "foreach"}) : h # Here /\ Ways(h, Here, next) => (Within(h)' <=> Within(h))
    BY <1>2, <1>4, GotoRounds
  <1>6. ASSUME NEW h \in At(prog, {"for", "foreach"}), h # Here, Orderly(h) PROVE Ways(h, Here, next)
    <2>1. Ways(h, Here, Here + 1) BY <1>1, <1>2, <1>6, NextWays
    <2>2. Ways(h, Here, jumpTo[Here]) BY <1>1, <1>2, <1>6, JumpWays
    <2> QED BY <2>1, <2>2
  <1>7. Within(own)' <=> next = Here + 1
    <2>1. jumpTo[Here] = PhrasePair(prog, Here + 1) + 1
      BY <1>1, <1>2 DEF JumpTable, PastBlock, Returns, Loops
    <2>2. next \in Inside(Here) <=> next = Here + 1 BY <1>3, <2>1 DEF Inside
    <2>3. next # Here /\ Here \notin Inside(Here) BY <1>3, <2>1 DEF Inside
    <2>4. \A h : Inside(h)' = Inside(h) BY <1>1, SameText
    <2>5. \A h : Within(h)' <=> (next \in Inside(h) \/ (next = h /\ Here \in Inside(h)))
      BY <1>5, <2>4 DEF Within
    <2> QED BY <2>2, <2>3, <2>5
  <1> QED BY <1>5, <1>6, <1>7

\* The way past the block is not the way into it.
LEMMA HeaderLeaves ==
    ASSUME LoopInv, Here \in At(prog, {"for", "foreach"})
    PROVE  jumpTo[Here] # Here + 1
  <1>1. prog \in Seq(STRING) /\ Braced(prog) /\ jumpTo = JumpTable(prog)
    BY ProgsAssumption DEF LoopInv, Parsed
  <1>2. Here \in At(prog, Loops \cup Branches) BY DEF At, Loops
  <1>3. Here \in 1 .. Len(prog) /\ PhrasePair(prog, Here + 1) \in 1 .. Len(prog)
        /\ Here + 1 < PhrasePair(prog, Here + 1)
    BY <1>1, <1>2, BlockFacts
  <1>4. jumpTo[Here] = PhrasePair(prog, Here + 1) + 1
    BY <1>1, <1>2 DEF JumpTable, PastBlock, At, Returns, Loops
  <1> QED BY <1>3, <1>4

\* A for loop is entered, or ends and is to begin anew.
LEMMA ForRounds ==
    ASSUME IInv, LoopInv, UNCHANGED code, frames # <<>>, Here \in DOMAIN prog, For
    PROVE  LoopInv'
  <1>0. PICK own : own = Here OBVIOUS
  <1>1. /\ own \in At(prog, {"for"}) /\ own \in At(prog, {"for", "foreach"})
        /\ UNCHANGED <<idResume, index>>
    BY <1>0 DEF For, At
  <1>2. PICK next \in {Here + 1, jumpTo[Here]} :
           /\ Goto(next)
           /\ \/ next = Here + 1 /\ firstRound' = firstRound \ {Here}
              \/ next = jumpTo[Here] /\ firstRound' = firstRound \cup {Here}
    BY DEF For
  <1>3. /\ Parsed' /\ Resumes' /\ FromCalls'
        /\ \A h \in At(prog, {"for", "foreach"}) :
              h # own /\ Orderly(h) => (Within(h)' <=> Within(h))
        /\ Within(own)' <=> next = Here + 1
    BY <1>0, <1>1, <1>2, OwnSteps
  <1>4. jumpTo[Here] # Here + 1 BY <1>0, <1>1, HeaderLeaves
  <1>5. \A h : h # own => (h \in firstRound' <=> h \in firstRound) BY <1>0, <1>2
  <1>6. own \in firstRound' <=> ~Within(own)' BY <1>0, <1>2, <1>3, <1>4
  <1>7. own \notin At(prog, {"foreach"}) BY <1>1 DEF At
  <1> QED BY <1>1, <1>3, <1>5, <1>6, <1>7, OwnRounds

\* A foreach goes on to its next element, ends, or stops the program.
LEMMA ForEachRounds ==
    ASSUME IInv, LoopInv, UNCHANGED code, frames # <<>>, Here \in DOMAIN prog, ForEach
    PROVE  LoopInv'
  <1>0. PICK own : own = Here OBVIOUS
  <1>1. /\ own \in At(prog, {"foreach"}) /\ own \in At(prog, {"for", "foreach"})
        /\ own \notin At(prog, {"for"}) /\ UNCHANGED <<idResume, firstRound>>
    BY <1>0 DEF ForEach, At
  <1>2. index \in [DOMAIN prog -> Nat] BY DEF IInv, TypeOK
  <1>3. CASE UNCHANGED <<frames, index>>
    <2>1. Parsed' /\ Resumes' /\ FromCalls' /\ \A h : Within(h)' <=> Within(h)
      BY <1>1, <1>3, SameText DEF LoopInv, Resumes, FromCalls, Within, Here, Top
    <2> QED BY <1>1, <1>3, <2>1, KeepRounds
  <1>4. ASSUME NEW next \in {Here + 1, jumpTo[Here]}, Goto(next),
               NEW n \in Nat, index' = [index EXCEPT ![Here] = n], next = Here + 1 => n > 0
        PROVE  LoopInv'
    <2>1. /\ Parsed' /\ Resumes' /\ FromCalls'
          /\ \A h \in At(prog, {"for", "foreach"}) :
                h # own /\ Orderly(h) => (Within(h)' <=> Within(h))
          /\ Within(own)' <=> next = Here + 1
      BY <1>0, <1>1, <1>4, OwnSteps
    <2>2. \A h \in At(prog, {"for", "foreach"}) : h # own => index'[h] = index[h] BY <1>0, <1>2, <1>4 DEF At
    <2>3. Within(own)' => index'[own] > 0 BY <1>0, <1>1, <1>2, <1>4, <2>1 DEF At
    <2> QED BY <1>1, <2>1, <2>2, <2>3, OwnRounds
  <1>5. CASE Goto(jumpTo[Here]) /\ UNCHANGED index
    <2>1. jumpTo[Here] # Here + 1 BY <1>0, <1>1, HeaderLeaves
    <2>2. index[Here] \in Nat /\ index' = [index EXCEPT ![Here] = index[Here]] BY <1>2, <1>5
    <2> QED BY <1>4, <1>5, <2>1, <2>2
  <1>6. CASE Goto(jumpTo[Here]) /\ index' = [index EXCEPT ![Here] = 0]
    <2>1. jumpTo[Here] # Here + 1 BY <1>0, <1>1, HeaderLeaves
    <2> QED BY <1>4, <1>6, <2>1
  <1>7. CASE Goto(Here + 1) /\ index' = [index EXCEPT ![Here] = @ + 1]
    <2>1. index[Here] + 1 \in Nat /\ index[Here] + 1 > 0 BY <1>2
    <2> QED BY <1>4, <1>7, <2>1
  <1> QED BY <1>3, <1>5, <1>6, <1>7 DEF ForEach

\* A call site is no phrase of the block of an orderly loop, so neither what
\* is called nor what is gone back to is.
LEMMA CallRounds ==
    ASSUME IInv, LoopInv, UNCHANGED code, NEW passed \in BOOLEAN, NEW site \in Sites, Call(site, passed),
           frames = <<>> \/ (frames # <<>> /\ site = Here /\ site \in At(prog, Calls))
    PROVE  LoopInv'
  <1>1. TypeOK /\ Parsed /\ prog \in Seq(STRING) /\ Braced(prog) BY SameText DEF IInv, LoopInv, Parsed
  <1>2. frames \in Seq(Frame) /\ Len(frames) \in Nat BY <1>1 DEF TypeOK
  <1>3. PICK f : f.at = idResume /\ f.last = Main /\ f.site = site /\ frames' = Append(frames, f)
    BY DEF Call
  <1>4. /\ frames' # <<>> /\ DOMAIN frames' = 1 .. Len(frames) + 1 /\ Last(frames') = f
        /\ \A k \in DOMAIN frames : frames'[k] = frames[k]
        /\ frames'[Len(frames) + 1] = f
    <2>1. /\ Len(frames') = Len(frames) + 1 /\ DOMAIN frames' = 1 .. Len(frames) + 1
          /\ \A k \in DOMAIN frames : frames'[k] = frames[k]
          /\ frames'[Len(frames) + 1] = f
      BY <1>2, <1>3
    <2> QED BY <1>2, <2>1 DEF Last
  <1>5. idResume' = 1 /\ UNCHANGED <<firstRound, index>> BY DEF Call, loops
  <1>6. Resumes' BY <1>5 DEF Resumes
  <1>7. FromCalls'
    <2>1. \A k \in DOMAIN frames' : k > 1 => frames'[k].site \in At(prog, Calls)
      <3>1. TAKE k \in DOMAIN frames'
      <3>2. CASE k \in DOMAIN frames BY <1>4, <3>2 DEF LoopInv, FromCalls
      <3>3. CASE k \notin DOMAIN frames
        <4>1. k = Len(frames) + 1 BY <1>2, <1>4, <3>3
        <4>2. frames = <<>> => k = 1 BY <4>1
        <4> QED BY <1>3, <1>4, <4>1, <4>2
      <3> QED BY <3>2, <3>3
    <2> QED BY <1>1, <2>1, SameText DEF FromCalls
  <1>8. ASSUME NEW h \in At(prog, {"for", "foreach"}), Orderly(h) PROVE ~Within(h) /\ ~Within(h)'
    <2>1. Inside(h) \cap At(prog, Calls \cup {"yield"}) = {}
      <3>1. Inside(h) \cap At(prog, {"break"} \cup Returns \cup Calls) = {} BY <1>8 DEF Orderly
      <3> QED BY <3>1 DEF At, Returns
    <2>2. h \in 1 .. Len(prog) BY <1>8 DEF At
    <2>3. ~Within(h)
      <3>1. \A i \in At(prog, Calls) : i \notin Inside(h) /\ i # h BY <1>8, <2>1 DEF At, Calls
      <3> QED BY <3>1 DEF Within
    <2>4. idResume \notin Inside(h)
      <3>1. CASE idResume = 1 BY <2>2, <3>1 DEF Inside
      <3>2. CASE idResume - 1 \in At(prog, {"yield"})
        <4>1. idResume - 1 \notin Inside(h) BY <2>1, <3>2 DEF At
        <4>2. idResume - 1 # h BY <1>8, <3>2 DEF At
        <4>3. idResume \in Nat /\ PhrasePair(prog, h + 1) \in 1 .. Len(prog)
          <5>1. h \in At(prog, Loops \cup Branches) BY <1>8 DEF At, Loops
          <5>2. idResume \in DOMAIN prog BY <1>1 DEF TypeOK
          <5>3. PhrasePair(prog, h + 1) \in 1 .. Len(prog) BY <1>1, <5>1, BlockFacts
          <5> QED BY <1>1, <5>2, <5>3
        <4> QED BY <2>2, <4>1, <4>2, <4>3 DEF Inside
      <3> QED BY <3>1, <3>2 DEF LoopInv, Resumes
    <2>5. Here' = idResume /\ Top'.last = Main BY <1>3, <1>4 DEF Here, Top
    <2>6. Main \notin Inside(h) BY <2>2 DEF Inside, Main
    <2>7. Inside(h)' = Inside(h) BY <1>1, SameText
    <2> QED BY <2>3, <2>4, <2>5, <2>6, <2>7 DEF Within
  <1>9. Parsed' BY <1>1, SameText
  <1>10. \A h \in At(prog, {"for", "foreach"}) : Orderly(h) => (Within(h)' <=> Within(h)) BY <1>8
  <1> QED BY <1>5, <1>6, <1>7, <1>9, <1>10, KeepRounds

\* The end of an activation, and where the one below it goes on.
LEMMA LeaveRounds ==
    ASSUME IInv, LoopInv, UNCHANGED code, UNCHANGED crashed, ~crashed, frames # <<>>, Leave
    PROVE  LoopInv'
  <1>1. TypeOK /\ Parsed /\ prog \in Seq(STRING) /\ Braced(prog) BY SameText DEF IInv, LoopInv, Parsed
  <1>2. PICK resume \in DOMAIN prog :
           /\ Return(resume) /\ (resume = 1 \/ resume = idResume \/ resume - 1 \in At(prog, {"yield"}))
    <2>1. CASE Abandon BY <1>1, <2>1 DEF Abandon, TypeOK
    <2>2. CASE Yield
      <3>1. Top.last \in At(prog, {"yield"}) BY <1>1, <2>2, LastPhrase DEF Yield, At
      <3>2. Behind(Top.last) = 1 \/ Behind(Top.last) - 1 = Top.last BY <3>1 DEF Behind, At
      <3>3. Behind(Top.last) \in DOMAIN prog BY <1>1, <3>1, PlaceFacts DEF Behind, At
      <3> QED BY <2>2, <3>1, <3>2, <3>3 DEF Yield
    <2>3. CASE Finish BY <1>1, <2>3, PlaceFacts DEF Finish
    <2> QED BY <2>1, <2>2, <2>3 DEF Leave
  <1>3. UNCHANGED <<firstRound, index>> /\ idResume' = resume BY <1>2 DEF Return, loops
  <1>4. Resumes' BY <1>1, <1>2, <1>3, SameText DEF LoopInv, Resumes
  <1>5. /\ frames \in Seq(Frame) /\ Len(frames) \in Nat \ {0} /\ Top = frames[Len(frames)]
        /\ Len(Front(frames)) = Len(frames) - 1 /\ Front(frames) \in Seq(Frame)
        /\ \A k \in 1 .. Len(frames) - 1 : Front(frames)[k] = frames[k]
    <2>1. frames \in Seq(Frame) BY <1>1 DEF TypeOK
    <2> QED BY <2>1, LastFacts DEF Top
  <1> DEFINE n == Len(frames) - 1
             below == Front(frames)
  <1>6. frames' = IF below = <<>> THEN below
                  ELSE [below EXCEPT ![n] = [@ EXCEPT !.at = Top.site + 1, !.last = Top.site, !.nested = TRUE]]
    BY <1>2, <1>5 DEF Return
  <1>7. \A k \in DOMAIN frames' : k \in DOMAIN frames /\ frames'[k].site = frames[k].site
    <2>1. DOMAIN frames' = 1 .. n /\ DOMAIN frames = 1 .. Len(frames) BY <1>5, <1>6
    <2>2. TAKE k \in DOMAIN frames'
    <2>3. k \in DOMAIN frames /\ below[k] = frames[k] /\ frames[k] \in Frame BY <1>5, <2>1
    <2>4. frames'[k].site = below[k].site
      <3>1. CASE k = n /\ below # <<>>
        <4>1. frames'[k] = [below[k] EXCEPT !.at = Top.site + 1, !.last = Top.site, !.nested = TRUE]
          BY <1>5, <1>6, <2>1, <3>1
        <4> QED BY <2>3, <4>1 DEF Frame
      <3>2. CASE ~(k = n /\ below # <<>>) BY <1>5, <1>6, <2>1, <3>2
      <3> QED BY <3>1, <3>2
    <2> QED BY <2>3, <2>4
  <1>8. FromCalls' BY <1>1, <1>7, SameText DEF LoopInv, FromCalls
  <1>9. ASSUME NEW h \in At(prog, {"for", "foreach"}), Orderly(h) PROVE ~Within(h) /\ ~Within(h)'
    <2>1. h \in 1 .. Len(prog) /\ PhrasePair(prog, h + 1) \in 1 .. Len(prog)
      <3>1. h \in At(prog, Loops \cup Branches) BY <1>9 DEF At, Loops
      <3> QED BY <1>1, <3>1, BlockFacts
    <2>2. ~Within(h)
      <3>1. Here = 0 \/ Here > Len(prog) BY <1>2 DEF Leave, Abandon, Yield, Finish, NoPhrase
      <3>2. Here \notin Inside(h) /\ Here # h BY <2>1, <3>1 DEF Inside
      <3> QED BY <3>2 DEF Within
    <2>3. CASE below = <<>> BY <1>6, <2>2, <2>3 DEF Within
    <2>4. CASE below # <<>>
      <3>1. n \in 1 .. n /\ n \in Nat \ {0} BY <1>5, <2>4, EmptySeq
      <3>2. Top.site \in At(prog, Calls)
        <4>1. Len(frames) \in DOMAIN frames /\ Len(frames) > 1 BY <1>5, <3>1
        <4> QED BY <1>5, <4>1 DEF LoopInv, FromCalls
      <3>3. Here' = Top.site + 1 /\ Top'.last = Top.site
        <4>1. below[n] \in Frame BY <1>5, <3>1
        <4> DEFINE x == [below[n] EXCEPT !.at = Top.site + 1, !.last = Top.site, !.nested = TRUE]
        <4>2. frames' = [below EXCEPT ![n] = x] BY <1>6, <2>4
        <4>3. x.at = Top.site + 1 /\ x.last = Top.site BY <4>1 DEF Frame
        <4> HIDE DEF x
        <4>4. Len(frames') = n /\ frames'[n] = x BY <1>5, <3>1, <4>2
        <4> QED BY <4>3, <4>4 DEF Here, Top, Last
      <3>4. Top.site \notin Inside(h)
        <4>1. Inside(h) \cap At(prog, {"break"} \cup Returns \cup Calls) = {} BY <1>9 DEF Orderly
        <4> QED BY <3>2, <4>1 DEF At
      <3>5. Top.site # h /\ Top.site \in Nat BY <1>9, <3>2 DEF At, Calls
      <3>6. Top.site + 1 \notin Inside(h) BY <2>1, <3>4, <3>5 DEF Inside
      <3>7. Inside(h)' = Inside(h) BY <1>1, SameText
      <3> QED BY <2>2, <3>3, <3>4, <3>6, <3>7 DEF Within
    <2> QED BY <2>3, <2>4
  <1>10. Parsed' BY <1>1, SameText
  <1>11. \A h \in At(prog, {"for", "foreach"}) : Orderly(h) => (Within(h)' <=> Within(h)) BY <1>9
  <1> QED BY <1>3, <1>4, <1>8, <1>10, <1>11, KeepRounds

LEMMA NextRounds == IInv /\ LoopInv /\ [Next]_vars => LoopInv'
  <1> SUFFICES ASSUME IInv, LoopInv, [Next]_vars PROVE LoopInv' OBVIOUS
  <1>1. CASE CallFromMain /\ UNCHANGED code
    <2>1. PICK passed \in BOOLEAN : Call(Main, passed) BY <1>1 DEF CallFromMain
    <2> QED BY <1>1, <2>1, CallRounds DEF Sites, CallFromMain
  <1>2. CASE Execute /\ UNCHANGED code /\ frames # <<>> /\ Here \in DOMAIN prog
    <2>1. CASE Command \/ Jump \/ Test \/ Fail \/ AssignLocal BY <1>2, <2>1, PhraseRounds
    <2>2. CASE For BY <1>2, <2>2, ForRounds
    <2>4. CASE ForEach BY <1>2, <2>4, ForEachRounds
    <2>3. CASE CallFromPhrase
      <3>1. PICK passed \in BOOLEAN : Call(Here, passed) BY <2>3 DEF CallFromPhrase
      <3>2. Here \in At(prog, Calls) BY <1>2, <2>3 DEF CallFromPhrase, At
      <3> QED BY <1>2, <3>1, <3>2, CallRounds DEF Sites
    <2> QED BY <1>2, <2>1, <2>2, <2>3, <2>4 DEF Execute
  <1>3. CASE Leave /\ UNCHANGED code /\ UNCHANGED crashed /\ ~crashed /\ frames # <<>>
    BY <1>3, LeaveRounds
  <1>4. CASE UNCHANGED vars
    <2>1. UNCHANGED <<code, firstRound, index, frames, idResume>> BY <1>4 DEF vars, loops
    <2>2. Parsed' /\ Resumes' /\ FromCalls' /\ \A h : Within(h)' <=> Within(h)
      BY <2>1, SameText DEF LoopInv, Resumes, FromCalls, Within, Here, Top
    <2> QED BY <2>1, <2>2, KeepRounds
  <1> QED BY <1>1, <1>2, <1>3, <1>4 DEF Next, Leave

LEMMA InitRounds ==
    ASSUME \A p \in Progs : Braced(p), Init
    PROVE  LoopInv
  <1>1. Parsed BY DEF Init, Parsed
  <1>2. Resumes /\ FromCalls BY DEF Init, Resumes, FromCalls
  <1>3. Rounds BY DEF Init, Rounds, Within
  <1> QED BY <1>1, <1>2, <1>3 DEF LoopInv

\* A for loop computes `first' exactly when it is entered from outside, in every
\* routine whose headers have their blocks: each orderly loop is left through its
\* condition, and no jump of another block goes past it.
THEOREM ForLoopsBeginAnew ==
    ASSUME \A p \in Progs : Braced(p)
    PROVE  Spec => []ForStartsAtFirst
  <1>1. Init => IInv /\ LoopInv BY InitHolds, InitRounds
  <1>2. IInv /\ LoopInv /\ [Next]_vars => (IInv /\ LoopInv)' BY NextKeeps, NextRounds
  <1>3. IInv /\ LoopInv => ForStartsAtFirst
    <2> SUFFICES ASSUME IInv, LoopInv, frames # <<>>, Here \in At(prog, {"for"}), Orderly(Here)
                 PROVE  Here \in firstRound <=> Top.last \notin Inside(Here)
      BY DEF ForStartsAtFirst
    <2>1. Here \in firstRound <=> ~Within(Here) BY DEF LoopInv, Rounds
    <2>2. Here \notin Inside(Here) BY DEF Inside, At
    <2> QED BY <2>1, <2>2 DEF Within
  <1> QED BY <1>1, <1>2, <1>3, PTL DEF Spec

\* A foreach that comes round to its header from its own block is behind an
\* element and still has the variable for the next one: each orderly loop is
\* within its block only after it has taken an element, and gives up the variable
\* only where it leaves, whichever other loops and calls go on around it.
THEOREM ForEachKeepsItsPlace ==
    ASSUME \A p \in Progs : Braced(p)
    PROVE  Spec => []ForEachGoesOn
  <1>1. Init => IInv /\ LoopInv BY InitHolds, InitRounds
  <1>2. IInv /\ LoopInv /\ [Next]_vars => (IInv /\ LoopInv)' BY NextKeeps, NextRounds
  <1>3. IInv /\ LoopInv => ForEachGoesOn
    <2> SUFFICES ASSUME IInv, LoopInv, frames # <<>>, Here \in At(prog, {"foreach"}),
                        Orderly(Here), Top.last \in Inside(Here)
                 PROVE  index[Here] > 0 /\ Here \in element
      BY DEF ForEachGoesOn
    <2>1. index[Here] > 0 BY DEF LoopInv, Rounds, Within
    <2>2. Here \in DOMAIN prog BY DEF At
    <2> QED BY <2>1, <2>2 DEF IInv, ElementKept
  <1> QED BY <1>1, <1>2, <1>3, PTL DEF Spec

-----------------------------------------------------------------------------
\* Where the braces lead

Heads(p) == At(p, Loops \cup Branches)
Tails(p) == At(p, {"elseif", "else"})
Pair(p, h) == PhrasePair(p, h + 1)
Stand(p, x) == Settled(p, JumpTable(p), x)
Beyond(p, x) == IF p[x] = "lbrace" THEN x + 1 ELSE JumpTable(p)[x]

\* The block of a header, and how it lies to the block of another one.
LEMMA HeadFacts ==
    ASSUME NEW p \in Seq(STRING), Braced(p)
    PROVE  \A h \in Heads(p) :
              /\ h \in 1 .. Len(p) /\ Pair(p, h) \in 1 .. Len(p) /\ h + 1 < Pair(p, h)
              /\ p[h] \in Loops \cup Branches /\ p[h + 1] = "lbrace" /\ p[Pair(p, h)] = "rbrace"
              /\ h \notin At(p, Braces) /\ h + 1 \in At(p, Braces) /\ Pair(p, h) \in At(p, Braces)
              /\ \A g \in Heads(p) : g # h =>
                   /\ Pair(p, g) # Pair(p, h)
                   /\ g <= Pair(p, h) /\ h < g => h + 1 < g /\ Pair(p, g) < Pair(p, h)
                   /\ g < h => Pair(p, g) < h \/ Pair(p, g) > Pair(p, h)
  <1>1. TAKE h \in Heads(p)
  <1>2. /\ h \in 1 .. Len(p) /\ h + 1 \in At(p, {"lbrace"})
        /\ PhrasePair(p, h + 1) \in At(p, {"rbrace"}) /\ PhrasePair(p, h + 1) \in 1 .. Len(p)
        /\ h + 1 < PhrasePair(p, h + 1)
    BY BlockFacts DEF Heads
  <1>3. p[h] \in Loops \cup Branches BY DEF Heads, At
  <1>4. h \notin At(p, Braces) /\ h + 1 \in At(p, Braces) /\ Pair(p, h) \in At(p, Braces)
    BY <1>2, <1>3 DEF At, Loops, Branches, Braces, Pair
  <1>5. ASSUME NEW g \in Heads(p), g # h
        PROVE  /\ Pair(p, g) # Pair(p, h)
               /\ g <= Pair(p, h) /\ h < g => h + 1 < g /\ Pair(p, g) < Pair(p, h)
               /\ g < h => Pair(p, g) < h \/ Pair(p, g) > Pair(p, h)
    <2>1. /\ PhrasePair(p, g + 1) # PhrasePair(p, h + 1)
          /\ g \in h + 1 .. PhrasePair(p, h + 1) =>
                h + 1 < g /\ PhrasePair(p, g + 1) < PhrasePair(p, h + 1)
          /\ g < h => PhrasePair(p, g + 1) < h \/ PhrasePair(p, g + 1) > PhrasePair(p, h + 1)
      BY <1>5, BesideOrIn DEF Heads
    <2>2. g \in 1 .. Len(p) BY BlockFacts DEF Heads
    <2> QED BY <1>2, <2>1, <2>2 DEF Pair
  <1> QED BY <1>2, <1>3, <1>4, <1>5 DEF At, Pair

\* Any phrase: what its kind excludes.
LEMMA KindFacts ==
    ASSUME NEW p \in Seq(STRING), NEW x \in 1 .. Len(p)
    PROVE  /\ x \in At(p, Braces) <=> p[x] \in Braces
           /\ x \in Heads(p) <=> p[x] \in Loops \cup Branches
           /\ x \in Tails(p) <=> p[x] \in {"elseif", "else"}
           /\ x \in Tails(p) => x \in Heads(p)
           /\ p[x] \in Braces <=> p[x] = "lbrace" \/ p[x] = "rbrace"
           /\ x \in Heads(p) => x \notin At(p, Braces)
  BY DEF At, Heads, Tails, Braces, Loops, Branches

\* The text that a branch follows.
LEMMA TailFacts ==
    ASSUME NEW p \in Seq(STRING), Braced(p), Chained(p), NEW b \in Tails(p)
    PROVE  \E g \in Heads(p) : Pair(p, g) = b - 1 /\ p[g] \in {"if", "elseif"} /\ b \in 1 .. Len(p)
  <1>1. PICK g \in At(p, {"if", "elseif"}) : PhrasePair(p, g + 1) = b - 1 BY DEF Chained, Tails
  <1> QED BY <1>1 DEF Heads, At, Branches, Pair, Tails

\* One step behind a brace goes forward or back to the header of a loop.
LEMMA BeyondFacts ==
    ASSUME NEW p \in Seq(STRING), Braced(p), NEW x \in At(p, Braces)
    PROVE  /\ Beyond(p, x) \in 1 .. Len(p) + 1
           /\ Beyond(p, x) > x \/ Beyond(p, x) \notin At(p, Braces)
  <1>1. x \in 1 .. Len(p) /\ Len(p) \in Nat /\ (p[x] = "lbrace" \/ p[x] = "rbrace") BY DEF At, Braces
  <1>2. CASE p[x] = "lbrace" BY <1>1, <1>2 DEF Beyond
  <1>3. CASE p[x] = "rbrace"
    <2>1. x \in At(p, {"rbrace"}) BY <1>1, <1>3 DEF At
    <2>2. Beyond(p, x) = JumpTable(p)[x] BY <1>3 DEF Beyond
    <2>3. ChainEnd(p)[x] \in x .. Len(p)
      <3> DEFINE X == x .. Len(p)
      <3>1. X \in SUBSET DOMAIN p /\ x \in X BY <1>1
      <3>2. ASSUME NEW j \in X, j + 1 \in At(p, {"elseif", "else"})
            PROVE  PhrasePair(p, j + 1) \in X /\ j < PhrasePair(p, j + 1)
        <4>1. j \in Nat /\ j >= x BY <1>1
        <4>2. j + 1 \in Heads(p) /\ j + 1 \in DOMAIN p /\ p[j + 1] \notin Braces
          BY <3>2 DEF At, Heads, Branches, Braces
        <4>3. PhrasePair(p, j + 1) = PhrasePair(p, j + 1 + 1) BY <4>2, HeaderPair
        <4>4. Pair(p, j + 1) \in 1 .. Len(p) /\ j + 1 + 1 < Pair(p, j + 1) BY <4>2, HeadFacts
        <4> QED BY <1>1, <4>1, <4>3, <4>4 DEF Pair
      <3> HIDE DEF X
      <3>3. ChainEnd(p)[x] \in X BY <3>1, <3>2, ChainStays
      <3> QED BY <3>3 DEF X
    <2>4. CASE JumpTable(p)[x] = x + 1 BY <1>1, <2>2, <2>4
    <2>5. CASE JumpTable(p)[x] = ChainEnd(p)[x] + 1 BY <1>1, <2>2, <2>3, <2>5
    <2>6. ASSUME NEW g \in Heads(p), JumpTable(p)[x] = g
          PROVE  Beyond(p, x) \in 1 .. Len(p) + 1 /\ Beyond(p, x) \notin At(p, Braces)
      BY <1>1, <2>2, <2>6, HeadFacts
    <2> QED BY <2>1, <2>4, <2>5, <2>6, BraceJump DEF Heads
  <1> QED BY <1>1, <1>2, <1>3

\* The function that follows the braces exists: a step goes forward, or to a
\* phrase that is none.
LEMMA StandDef ==
    ASSUME NEW p \in Seq(STRING), Braced(p), NEW x \in 1 .. Len(p) + 1
    PROVE  Stand(p, x) = IF x \notin At(p, Braces) THEN x ELSE Stand(p, Beyond(p, x))
  <1> DEFINE n == Len(p) + 1
             J == JumpTable(p)
             Far(m) == {i \in 1 .. n : i > n - m \/ i \notin At(p, Braces)}
             Settles(m, f) == f = [i \in Far(m) |-> IF i \notin At(p, Braces) THEN i
                                                    ELSE f[IF p[i] = "lbrace" THEN i + 1 ELSE J[i]]]
             Fails == {m \in Nat : m <= n /\ ~ \E f : Settles(m, f)}
  <1>1. n \in Nat \ {0} /\ DOMAIN p = 1 .. n - 1 OBVIOUS
  <1>2. \A i \in At(p, Braces) :
           /\ Beyond(p, i) = IF p[i] = "lbrace" THEN i + 1 ELSE J[i]
           /\ Beyond(p, i) \in 1 .. n
           /\ Beyond(p, i) > i \/ Beyond(p, i) \notin At(p, Braces)
    BY BeyondFacts DEF Beyond
  <1> HIDE DEF J
  <1>3. Fails = {}
    <2>1. SUFFICES ASSUME Fails # {} PROVE FALSE OBVIOUS
    <2>2. Fails \subseteq Nat OBVIOUS
    <2>3. PICK m \in Fails : \A y \in Fails : m <= y
      <3> HIDE DEF Fails
      <3> QED BY <2>1, <2>2, LeastOne
    <2>4. m \in Nat /\ m <= n /\ ~ \E f : Settles(m, f) OBVIOUS
    <2>5. m # 0
      <3>1. \A i \in Far(0) : i \notin At(p, Braces) BY <1>1
      <3>2. Settles(0, [i \in Far(0) |-> i]) BY <3>1
      <3> QED BY <2>4, <3>2
    <2>6. m - 1 \in Nat /\ m - 1 <= n /\ m - 1 < m BY <1>1, <2>4, <2>5
    <2>7. PICK f : Settles(m - 1, f)
      <3>1. m - 1 \notin Fails
        <4> HIDE DEF Fails
        <4> QED BY <2>3, <2>4, <2>6
      <3> HIDE DEF Settles
      <3> QED BY <2>6, <3>1
    <2> DEFINE k == n - (m - 1)
               g == [i \in Far(m) |-> IF i # k THEN f[i]
                                      ELSE IF i \notin At(p, Braces) THEN i ELSE f[Beyond(p, i)]]
    <2>8. k \in 1 .. n /\ n - m = k - 1 BY <1>1, <2>4, <2>5
    <2>9. \A i \in Far(m) : i # k => i \in Far(m - 1) BY <1>1, <2>4, <2>5
    <2>10. \A i \in Far(m - 1) : f[i] = IF i \notin At(p, Braces) THEN i ELSE f[Beyond(p, i)]
      <3>1. \A i \in Far(m - 1) :
               f[i] = IF i \notin At(p, Braces) THEN i ELSE f[IF p[i] = "lbrace" THEN i + 1 ELSE J[i]]
        BY <2>7
      <3> QED BY <1>2, <3>1
    <2>11. \A i \in Far(m) : i \in At(p, Braces) => Beyond(p, i) \in Far(m) /\ g[Beyond(p, i)] = f[Beyond(p, i)]
      <3>1. TAKE i \in Far(m)
      <3>2. HAVE i \in At(p, Braces)
      <3>3. /\ Beyond(p, i) \in 1 .. n /\ i \in 1 .. n /\ i >= k
            /\ Beyond(p, i) > i \/ Beyond(p, i) \notin At(p, Braces)
        BY <1>1, <1>2, <2>8, <3>2
      <3>4. Beyond(p, i) \in Far(m) BY <1>1, <2>8, <3>3
      <3>5. CASE Beyond(p, i) # k BY <3>4, <3>5
      <3>6. CASE Beyond(p, i) = k
        <4>1. k \notin At(p, Braces) BY <2>8, <3>3, <3>6
        <4>2. k \in Far(m - 1) BY <2>8, <4>1
        <4>3. f[k] = k /\ g[k] = k BY <2>10, <3>4, <3>6, <4>1, <4>2
        <4> QED BY <3>4, <3>6, <4>3
      <3> QED BY <3>5, <3>6
    <2> HIDE DEF k, Fails
    <2>12. \A i \in Far(m) : g[i] = IF i \notin At(p, Braces) THEN i
                                    ELSE g[IF p[i] = "lbrace" THEN i + 1 ELSE J[i]]
      <3>1. TAKE i \in Far(m)
      <3>2. i # k => i \in Far(m - 1) BY <2>9
      <3> HIDE DEF Far
      <3>3. g[i] = IF i \notin At(p, Braces) THEN i ELSE f[Beyond(p, i)] BY <2>10, <3>2
      <3> HIDE DEF g
      <3>4. g[i] = IF i \notin At(p, Braces) THEN i ELSE g[Beyond(p, i)] BY <2>11, <3>3
      <3> QED BY <1>2, <3>4
    <2>13. g = [i \in Far(m) |-> g[i]] OBVIOUS
    <2> HIDE DEF g, Far
    <2>14. Settles(m, g) BY <2>12, <2>13
    <2> HIDE DEF Settles
    <2> QED BY <2>4, <2>14
  <1>4. PICK f : f = [i \in 1 .. n |-> IF i \notin At(p, Braces) THEN i
                                       ELSE f[IF p[i] = "lbrace" THEN i + 1 ELSE J[i]]]
    <2>1. n \notin Fails BY <1>3
    <2>2. PICK f : Settles(n, f)
      <3>1. n \in Nat /\ n <= n BY <1>1
      <3> HIDE DEF Settles, n
      <3> QED BY <2>1, <3>1
    <2>3. Far(n) = 1 .. n BY <1>1
    <2> QED BY <2>2, <2>3
  <1> DEFINE all == CHOOSE settle : settle = [i \in 1 .. n |-> IF i \notin At(p, Braces) THEN i
                                       ELSE settle[IF p[i] = "lbrace" THEN i + 1 ELSE J[i]]]
  <1>5. all = [i \in 1 .. n |-> IF i \notin At(p, Braces) THEN i
                                ELSE all[IF p[i] = "lbrace" THEN i + 1 ELSE J[i]]]
    BY <1>4
  <1>6. \A y : Stand(p, y) = all[y] BY DEF Stand, Settled, J
  <1> HIDE DEF all
  <1>7. all[x] = IF x \notin At(p, Braces) THEN x
                 ELSE all[IF p[x] = "lbrace" THEN x + 1 ELSE J[x]]
    BY <1>5
  <1> QED BY <1>2, <1>6, <1>7

-----------------------------------------------------------------------------
\* What comes next in the blocks around a place

\* The definitions of Blocks for a text p, and the blocks that a brace or a
\* phrase at x is in, with the one that a brace at x closes.
Plain(p) == DOMAIN p \ (At(p, Braces) \cup Tails(p))
Encloses(p, i) == {h \in Heads(p) : h + 2 <= i /\ i < Pair(p, h)}
Open(p, x) == {h \in Heads(p) : h + 2 <= x /\ x <= Pair(p, h)}
Ahead(p, i, around) ==
    {q \in Plain(p) : /\ q > i /\ Encloses(p, q) \subseteq around
                      /\ around \cap At(p, Loops) # {} => Max(around \cap At(p, Loops)) \in Encloses(p, q)}
Coming(p, i, around) ==
    IF Ahead(p, i, around) # {} THEN Min(Ahead(p, i, around))
    ELSE IF around \cap At(p, Loops) # {} THEN Max(around \cap At(p, Loops))
    ELSE Len(p) + 1

LEMMA MinIs ==
    ASSUME NEW S, S \subseteq Nat, NEW m \in S, \A y \in S : m <= y
    PROVE  Min(S) = m
  <1>1. Min(S) \in S /\ \A y \in S : Min(S) <= y BY DEF Min
  <1>2. Min(S) \in Nat /\ m \in Nat /\ Min(S) <= m /\ m <= Min(S) BY <1>1
  <1> QED BY <1>2

LEMMA MaxIs ==
    ASSUME NEW S, S \subseteq Nat, NEW m \in S, \A y \in S : y <= m
    PROVE  Max(S) = m
  <1>1. \A y \in S : y \in Nat OBVIOUS
  <1>2. \A y \in S : m >= y BY <1>1
  <1>3. Max(S) \in S /\ \A y \in S : Max(S) >= y BY <1>2 DEF Max
  <1>4. Max(S) \in Nat /\ m \in Nat /\ Max(S) <= m /\ Max(S) >= m BY <1>1, <1>3
  <1> QED BY <1>4

\* The innermost of some loops.
LEMMA MaxFacts ==
    ASSUME NEW n \in Nat, NEW S, S \subseteq 1 .. n, S # {}
    PROVE  Max(S) \in S /\ \A y \in S : y <= Max(S)
  <1>1. PICK m \in S : \A y \in S : y <= m BY GreatestOne
  <1>2. S \subseteq Nat OBVIOUS
  <1>3. Max(S) = m BY <1>1, <1>2, MaxIs
  <1> QED BY <1>1, <1>3

\* Places between which no phrase begins, and blocks that no phrase there is in
\* alone, make no difference.
LEMMA ComingSame ==
    ASSUME NEW p, NEW i, NEW j, NEW A, NEW C, A \cap At(p, Loops) = C \cap At(p, Loops),
           \A q \in Plain(p) : q > i /\ Encloses(p, q) \subseteq A
                                <=> q > j /\ Encloses(p, q) \subseteq C
    PROVE  Coming(p, i, A) = Coming(p, j, C)
  <1>1. Ahead(p, i, A) = Ahead(p, j, C) BY DEF Ahead
  <1> QED BY <1>1 DEF Coming

LEMMA PlainFacts ==
    ASSUME NEW p \in Seq(STRING), NEW q \in Plain(p)
    PROVE  q \in 1 .. Len(p) /\ p[q] \notin Braces /\ q \notin At(p, Braces) /\ q \notin Tails(p)
  BY DEF Plain, At

\* At a phrase.
LEMMA ComingHere ==
    ASSUME NEW p \in Seq(STRING), Braced(p), NEW x \in Plain(p)
    PROVE  Coming(p, x - 1, Open(p, x)) = x
  <1> DEFINE A == Open(p, x)
             L == A \cap At(p, Loops)
  <1>1. x \in 1 .. Len(p) /\ x \notin At(p, Braces) BY PlainFacts
  <1>2. \A h \in Heads(p) : Pair(p, h) \in Nat /\ Pair(p, h) # x /\ h \in 1 .. Len(p) BY <1>1, HeadFacts
  <1>3. Open(p, x) = Encloses(p, x) BY <1>1, <1>2 DEF Open, Encloses
  <1>4. L # {} => Max(L) \in Encloses(p, x)
    <2>1. L \subseteq 1 .. Len(p) BY <1>2 DEF Open
    <2>2. Len(p) \in Nat OBVIOUS
    <2>3. L # {} => Max(L) \in L BY <2>1, <2>2, MaxFacts
    <2> QED BY <1>3, <2>3
  <1>5. x \in Ahead(p, x - 1, A) BY <1>1, <1>3, <1>4 DEF Ahead
  <1>6. Ahead(p, x - 1, A) \subseteq Nat BY PlainFacts DEF Ahead
  <1>7. \A y \in Ahead(p, x - 1, A) : x <= y BY <1>1, <1>6 DEF Ahead
  <1>8. Min(Ahead(p, x - 1, A)) = x BY <1>5, <1>6, <1>7, MinIs
  <1> QED BY <1>5, <1>8 DEF Coming

\* Behind the text.
LEMMA ComingEnd ==
    ASSUME NEW p \in Seq(STRING), Braced(p)
    PROVE  Coming(p, Len(p), Open(p, Len(p) + 1)) = Len(p) + 1
  <1>1. \A h \in Heads(p) : Pair(p, h) \in 1 .. Len(p) BY HeadFacts
  <1>2. Open(p, Len(p) + 1) = {} BY <1>1 DEF Open
  <1>3. Ahead(p, Len(p), {}) = {} BY PlainFacts DEF Ahead
  <1> QED BY <1>2, <1>3 DEF Coming

\* At a brace that belongs to no header.
LEMMA ComingStray ==
    ASSUME NEW p \in Seq(STRING), Braced(p), NEW x \in At(p, Braces),
           x - 1 \notin Heads(p), \A h \in Heads(p) : Pair(p, h) # x
    PROVE  Coming(p, x, Open(p, x + 1)) = Coming(p, x - 1, Open(p, x))
  <1>1. x \in 1 .. Len(p) BY DEF At
  <1>2. \A h \in Heads(p) : Pair(p, h) \in Nat /\ h \in 1 .. Len(p) /\ h + 1 # x
    BY <1>1, HeadFacts
  <1>3. Open(p, x + 1) = Open(p, x) BY <1>1, <1>2 DEF Open
  <1>4. \A q \in Plain(p) : q > x <=> q > x - 1
    BY <1>1, PlainFacts
  <1> QED BY <1>3, <1>4, ComingSame

\* At the end of the block of a loop.
LEMMA ComingRound ==
    ASSUME NEW p \in Seq(STRING), Braced(p), NEW h \in At(p, Loops)
    PROVE  Coming(p, Pair(p, h) - 1, Open(p, Pair(p, h))) = h
  <1> DEFINE x == Pair(p, h)
             A == Open(p, x)
             L == A \cap At(p, Loops)
  <1>1. h \in Heads(p) BY DEF Heads, At
  <1>2. /\ h \in 1 .. Len(p) /\ x \in 1 .. Len(p) /\ h + 1 < x /\ x \in At(p, Braces)
        /\ \A g \in Heads(p) : g \in 1 .. Len(p) /\ Pair(p, g) \in 1 .. Len(p)
                               /\ (g # h /\ g <= x /\ h < g => Pair(p, g) < x)
    BY <1>1, HeadFacts
  <1> HIDE DEF x
  <1>3. h \in L BY <1>1, <1>2 DEF Open, x
  <1>4. L \subseteq Nat /\ \A g \in L : g <= h
    <2>1. \A g \in L : g \in Heads(p) /\ g + 2 <= x /\ x <= Pair(p, g) BY DEF Open
    <2> QED BY <1>2, <2>1
  <1>5. Max(L) = h BY <1>3, <1>4, MaxIs
  <1>6. Ahead(p, x - 1, A) = {}
    <2>1. SUFFICES ASSUME NEW q \in Plain(p), q > x - 1, h \in Encloses(p, q) PROVE FALSE
      BY <1>3, <1>5 DEF Ahead
    <2>2. q \in 1 .. Len(p) /\ q < x BY <2>1, PlainFacts DEF Encloses, x
    <2> QED BY <1>2, <2>1, <2>2
  <1> HIDE DEF A, L
  <1>7. Coming(p, x - 1, A) = h BY <1>3, <1>5, <1>6 DEF Coming, L
  <1> QED BY <1>7 DEF A, x

\* At the end of the block of a branch.
LEMMA ComingOut ==
    ASSUME NEW p \in Seq(STRING), Braced(p), NEW h \in Heads(p), h \notin At(p, Loops)
    PROVE  Coming(p, Pair(p, h), Open(p, Pair(p, h) + 1)) = Coming(p, Pair(p, h) - 1, Open(p, Pair(p, h)))
  <1> DEFINE x == Pair(p, h)
  <1>1. /\ h \in 1 .. Len(p) /\ x \in 1 .. Len(p) /\ h + 1 < x /\ x \in At(p, Braces) /\ p[x] = "rbrace"
        /\ \A g \in Heads(p) : g \in 1 .. Len(p) /\ Pair(p, g) \in 1 .. Len(p) /\ (g # h => Pair(p, g) # x)
                               /\ p[g + 1] = "lbrace"
    BY HeadFacts
  <1>2. Pair(p, h) = x OBVIOUS
  <1> HIDE DEF x
  <1>3. Open(p, x + 1) = Open(p, x) \ {h}
    <2>1. \A g \in Heads(p) : g + 2 <= x + 1 /\ x + 1 <= Pair(p, g) <=> g + 2 <= x /\ x <= Pair(p, g) /\ g # h
      <3>1. TAKE g \in Heads(p)
      <3>2. g + 1 # x BY <1>1
      <3> QED BY <1>1, <1>2, <3>2
    <2> QED BY <2>1 DEF Open
  <1>4. Open(p, x) \cap At(p, Loops) = (Open(p, x) \ {h}) \cap At(p, Loops) OBVIOUS
  <1>5. ASSUME NEW q \in Plain(p)
        PROVE  q > x /\ Encloses(p, q) \subseteq Open(p, x) \ {h} <=> q > x - 1 /\ Encloses(p, q) \subseteq Open(p, x)
    <2>1. q \in 1 .. Len(p) /\ q # x BY <1>1, PlainFacts
    <2>2. q > x => h \notin Encloses(p, q) BY <1>1, <1>2, <2>1 DEF Encloses
    <2> QED BY <1>1, <2>1, <2>2
  <1>6. Coming(p, x, Open(p, x) \ {h}) = Coming(p, x - 1, Open(p, x)) BY <1>4, <1>5, ComingSame
  <1> QED BY <1>3, <1>6 DEF x

\* At the end of the block of a branch that another one follows: as at the end
\* of that one.
LEMMA ComingChain ==
    ASSUME NEW p \in Seq(STRING), Braced(p), NEW h \in Heads(p), h \notin At(p, Loops),
           NEW b \in Tails(p), b = Pair(p, h) + 1
    PROVE  Coming(p, Pair(p, b) - 1, Open(p, Pair(p, b))) = Coming(p, Pair(p, h) - 1, Open(p, Pair(p, h)))
  <1> DEFINE x == Pair(p, h)
             y == Pair(p, b)
  <1>1. b \in Heads(p) /\ b \notin At(p, Loops) BY DEF Tails, Heads, At, Branches, Loops
  <1>2. /\ h \in 1 .. Len(p) /\ x \in 1 .. Len(p) /\ h + 1 < x /\ x \in At(p, Braces) /\ p[x] = "rbrace"
        /\ y \in 1 .. Len(p) /\ b + 1 < y /\ y \in At(p, Braces) /\ b \notin At(p, Braces)
        /\ b + 1 \in At(p, Braces)
    BY <1>1, HeadFacts
  <1>3. \A g \in Heads(p) :
           /\ g \in 1 .. Len(p) /\ Pair(p, g) \in 1 .. Len(p) /\ p[g + 1] = "lbrace"
           /\ g \notin At(p, Braces) /\ Pair(p, g) \in At(p, Braces) /\ g + 1 < Pair(p, g)
    BY HeadFacts
  <1>4. \A g \in Heads(p) : g # h => Pair(p, g) # x BY HeadFacts
  <1>5. \A g \in Heads(p) : g # b =>
           /\ Pair(p, g) # y
           /\ g <= y /\ b < g => Pair(p, g) < y
           /\ b <= Pair(p, g) /\ g < b => y < Pair(p, g)
    BY <1>1, HeadFacts
  <1>6. Pair(p, h) = x /\ Pair(p, b) = y /\ b = x + 1 OBVIOUS
  <1> HIDE DEF x, y
  <1>7. \A g \in Heads(p) : (g + 2 <= y /\ y <= Pair(p, g) /\ g # b) <=> (g + 2 <= x /\ x <= Pair(p, g) /\ g # h)
    <2>1. TAKE g \in Heads(p)
    <2>2. g # x /\ g + 1 # x BY <1>2, <1>3
    <2>3. Pair(p, g) # b BY <1>2, <1>3
    <2>4. ASSUME g + 2 <= y, y <= Pair(p, g), g # b PROVE g + 2 <= x /\ x <= Pair(p, g) /\ g # h
      <3>1. g < b BY <1>2, <1>3, <1>5, <2>4
      <3>2. g + 2 <= x /\ x < Pair(p, g) BY <1>2, <1>3, <1>6, <2>2, <2>4, <3>1
      <3> QED BY <1>2, <1>3, <1>6, <3>2
    <2>5. ASSUME g + 2 <= x, x <= Pair(p, g), g # h PROVE g + 2 <= y /\ y <= Pair(p, g) /\ g # b
      <3>1. x < Pair(p, g) BY <1>2, <1>3, <1>4, <2>5
      <3>2. b <= Pair(p, g) /\ g < b BY <1>2, <1>3, <1>6, <2>5, <3>1
      <3> QED BY <1>2, <1>3, <1>5, <1>6, <2>5, <3>2
    <2> QED BY <2>4, <2>5
  <1>8. h \in Open(p, x) /\ b \in Open(p, y) BY <1>1, <1>2, <1>6 DEF Open
  <1>9. Open(p, y) \ {b} = Open(p, x) \ {h} BY <1>7 DEF Open
  <1>10. b \notin Open(p, x) /\ h \notin Open(p, y) BY <1>2, <1>6 DEF Open
  <1>11. Open(p, y) \cap At(p, Loops) = Open(p, x) \cap At(p, Loops) BY <1>1, <1>9
  <1>12. ASSUME NEW q \in Plain(p)
         PROVE  q > y - 1 /\ Encloses(p, q) \subseteq Open(p, y) <=> q > x - 1 /\ Encloses(p, q) \subseteq Open(p, x)
    <2>1. q \in 1 .. Len(p) /\ q # x /\ q # y /\ q # b /\ q # b + 1 BY <1>2, PlainFacts
    <2>2. q > x => h \notin Encloses(p, q) BY <1>2, <1>6, <2>1 DEF Encloses
    <2>3. q > y => b \notin Encloses(p, q) BY <1>2, <1>6, <2>1 DEF Encloses
    <2>4. q > x /\ q < y => b \in Encloses(p, q) BY <1>1, <1>2, <1>6, <2>1 DEF Encloses
    <2>5. CASE q > y
      <3>1. q > x /\ q > x - 1 /\ q > y - 1 BY <1>2, <1>6, <2>1, <2>5
      <3> QED BY <1>9, <2>2, <2>3, <2>5, <3>1
    <2>6. CASE q < y
      <3>1. ~(q > y - 1) BY <1>2, <2>1, <2>6
      <3>2. q > x - 1 => q > x BY <1>2, <2>1
      <3> QED BY <1>10, <2>4, <2>6, <3>1, <3>2
    <2> QED BY <1>2, <2>1, <2>5, <2>6
  <1>13. Coming(p, y - 1, Open(p, y)) = Coming(p, x - 1, Open(p, x)) BY <1>11, <1>12, ComingSame
  <1> QED BY <1>13 DEF x, y

-----------------------------------------------------------------------------
\* The jumps take an execution to what comes next

\* A brace that closes the block of a header.
LEMMA CloseJump ==
    ASSUME NEW p \in Seq(STRING), Braced(p), NEW h \in Heads(p)
    PROVE  Beyond(p, Pair(p, h)) = CASE p[h] \in Loops -> h
                                     [] p[h] = "else" -> Pair(p, h) + 1
                                     [] OTHER -> ChainEnd(p)[Pair(p, h)] + 1
  <1>1. p[Pair(p, h)] = "rbrace" /\ Pair(p, h) \in 1 .. Len(p) BY HeadFacts
  <1>2. Pair(p, h) \in At(p, {"rbrace"}) BY <1>1 DEF At
  <1>3. \A g \in Heads(p) : PhrasePair(p, g + 1) = Pair(p, h) => g = h BY HeadFacts DEF Pair
  <1>4. PhrasePair(p, h + 1) = Pair(p, h) BY DEF Pair
  <1> QED BY <1>1, <1>2, <1>3, <1>4, BraceJump DEF Beyond, Heads

\* What a chain that goes on ends with is what the next block of it ends with.
LEMMA ChainOn ==
    ASSUME NEW p \in Seq(STRING), Braced(p), NEW j \in 1 .. Len(p)
    PROVE  ChainEnd(p)[j] = IF j + 1 \in Tails(p) THEN ChainEnd(p)[Pair(p, j + 1)] ELSE j
  <1>1. ChainEnd(p)[j] = IF j + 1 \in At(p, {"elseif", "else"}) THEN ChainEnd(p)[PhrasePair(p, j + 1)] ELSE j
    BY ChainDef
  <1>2. j + 1 \in Tails(p) => PhrasePair(p, j + 1) = Pair(p, j + 1)
    <2>1. SUFFICES ASSUME j + 1 \in Tails(p) PROVE PhrasePair(p, j + 1) = Pair(p, j + 1) OBVIOUS
    <2>2. j + 1 \in DOMAIN p /\ p[j + 1] \notin Braces BY <2>1 DEF Tails, At, Braces
    <2> QED BY <2>2, HeaderPair DEF Pair
  <1> QED BY <1>1, <1>2 DEF Tails

\* No branch follows a brace unless it closes the block of an if or else if.
LEMMA NoTail ==
    ASSUME NEW p \in Seq(STRING), Braced(p), Chained(p), NEW x \in 1 .. Len(p),
           \A g \in Heads(p) : Pair(p, g) = x => p[g] \notin {"if", "elseif"}
    PROVE  x + 1 \notin Tails(p)
  <1>1. SUFFICES ASSUME x + 1 \in Tails(p) PROVE FALSE OBVIOUS
  <1>2. PICK g \in Heads(p) : Pair(p, g) = (x + 1) - 1 /\ p[g] \in {"if", "elseif"} BY <1>1, TailFacts
  <1>3. (x + 1) - 1 = x OBVIOUS
  <1> QED BY <1>2, <1>3

\* Wherever an execution stands that is not about to enter a block, the braces
\* lead it to the statement that the blocks around that place give: by
\* descent, from the end of the text.
LEMMA Lands ==
    ASSUME NEW p \in Seq(STRING), Braced(p), Chained(p),
           NEW x \in 1 .. Len(p) + 1, x - 1 \notin Heads(p), x \notin Tails(p)
    PROVE  Stand(p, x) = Coming(p, x - 1, Open(p, x))
  <1> DEFINE n == Len(p) + 1
             Right(y) == Stand(p, y) = Coming(p, y - 1, Open(p, y))
             Wrong == {m \in 0 .. n - 1 : /\ n - m - 1 \notin Heads(p) /\ n - m \notin Tails(p)
                                          /\ ~Right(n - m)}
  <1>1. n \in Nat \ {0} /\ DOMAIN p = 1 .. n - 1 /\ Len(p) = n - 1 /\ Len(p) \in Nat OBVIOUS
  <1>2. SUFFICES ASSUME Wrong # {} PROVE FALSE
    <2>1. n - x \in 0 .. n - 1 /\ n - (n - x) = x /\ n - (n - x) - 1 = x - 1 BY <1>1
    <2>2. SUFFICES ASSUME ~Right(x) PROVE FALSE OBVIOUS
    <2>3. n - x \in Wrong
      <3> HIDE DEF n, Right
      <3> QED BY <2>1, <2>2
    <2> QED BY <1>2, <2>3
  <1> HIDE DEF Right
  <1>3. PICK m \in Wrong : \A k \in Wrong : m <= k
    <2>1. Wrong \subseteq Nat BY <1>1
    <2> HIDE DEF Wrong
    <2> QED BY <1>2, <2>1, LeastOne
  <1> DEFINE y == n - m
  <1>4. y \in 1 .. n /\ y - 1 \notin Heads(p) /\ y \notin Tails(p) /\ ~Right(y) BY <1>1, <1>3
  <1>5. ASSUME NEW z \in 1 .. n, z > y, z - 1 \notin Heads(p), z \notin Tails(p) PROVE Right(z)
    <2>1. n - z \in 0 .. n - 1 /\ n - (n - z) = z /\ n - (n - z) - 1 = z - 1 /\ n - z < m
      BY <1>1, <1>3, <1>5
    <2>2. n - z \notin Wrong
      <3> HIDE DEF Wrong
      <3>1. m \in Int /\ n - z \in Int BY <1>1, <1>3, <1>5 DEF Wrong
      <3> QED BY <1>3, <2>1, <3>1
    <2> HIDE DEF y
    <2> QED BY <1>5, <2>1, <2>2
  <1> HIDE DEF y, Wrong
  <1>6. Stand(p, y) = IF y \notin At(p, Braces) THEN y ELSE Stand(p, Beyond(p, y)) BY <1>1, <1>4, StandDef
  <1>7. CASE y = n
    <2>1. y \notin At(p, Braces) /\ y - 1 = Len(p) /\ y = Len(p) + 1 BY <1>1, <1>7 DEF At
    <2> HIDE DEF n
    <2> QED BY <1>4, <1>6, <2>1, ComingEnd DEF Right
  <1>8. CASE y # n /\ y \notin At(p, Braces)
    <2>1. y \in Plain(p) BY <1>1, <1>4, <1>8 DEF Plain
    <2> QED BY <1>4, <1>6, <1>8, <2>1, ComingHere DEF Right
  <1>9. ASSUME y \in At(p, Braces), Stand(p, y) = Stand(p, y + 1), y + 1 \notin Tails(p),
               Coming(p, y, Open(p, y + 1)) = Coming(p, y - 1, Open(p, y))
        PROVE  FALSE
    <2>1. y \in 1 .. n - 1 /\ y \notin Heads(p)
      <3>1. y \in 1 .. Len(p) BY <1>9 DEF At
      <3> QED BY <1>1, <1>9, <3>1, KindFacts
    <2>2. y + 1 \in 1 .. n /\ y + 1 > y /\ (y + 1) - 1 = y BY <1>1, <2>1
    <2>3. Right(y + 1) BY <1>5, <1>9, <2>1, <2>2
    <2> QED BY <1>4, <1>9, <2>2, <2>3 DEF Right
  <1>10. ASSUME y \in At(p, Braces), \A h \in Heads(p) : Pair(p, h) # y PROVE FALSE
    <2>1. y \in 1 .. Len(p) /\ (p[y] = "lbrace" \/ p[y] = "rbrace") BY <1>10 DEF At, Braces
    <2>2. Beyond(p, y) = y + 1
      <3>1. CASE p[y] = "lbrace" BY <3>1 DEF Beyond
      <3>2. CASE p[y] = "rbrace"
        <4>1. y \in At(p, {"rbrace"}) BY <2>1, <3>2 DEF At
        <4>2. \A h \in At(p, Loops \cup Branches) : PhrasePair(p, h + 1) # y BY <1>10 DEF Heads, Pair
        <4> QED BY <3>2, <4>1, <4>2, BraceJump DEF Beyond
      <3> QED BY <2>1, <3>1, <3>2
    <2>3. y + 1 \notin Tails(p) BY <1>10, <2>1, NoTail
    <2>4. Coming(p, y, Open(p, y + 1)) = Coming(p, y - 1, Open(p, y)) BY <1>4, <1>10, ComingStray
    <2> QED BY <1>6, <1>9, <1>10, <2>2, <2>3, <2>4
  <1>11. ASSUME NEW h \in Heads(p), Pair(p, h) = y PROVE FALSE
    <2>1. /\ h \in 1 .. Len(p) /\ y \in 1 .. Len(p) /\ y \in At(p, Braces) /\ h \notin At(p, Braces)
          /\ p[h] \in Loops \cup Branches /\ \A g \in Heads(p) : Pair(p, g) = y => g = h
      BY <1>11, HeadFacts
    <2>2. Beyond(p, y) = CASE p[h] \in Loops -> h [] p[h] = "else" -> y + 1 [] OTHER -> ChainEnd(p)[y] + 1
      BY <1>11, CloseJump
    <2>3. CASE p[h] \in Loops
      <3>1. h \in At(p, Loops) BY <2>1, <2>3 DEF At
      <3>2. h \in 1 .. Len(p) + 1 BY <2>1
      <3>3. Stand(p, h) = h BY <2>1, <3>2, StandDef
      <3>4. Beyond(p, y) = h BY <2>2, <2>3 DEF Loops
      <3>5. Coming(p, y - 1, Open(p, y)) = h BY <1>11, <3>1, ComingRound
      <3> QED BY <1>4, <1>6, <2>1, <3>3, <3>4, <3>5 DEF Right
    <2>4. h \notin At(p, Loops) => Coming(p, y, Open(p, y + 1)) = Coming(p, y - 1, Open(p, y))
      BY <1>11, ComingOut
    <2>5. CASE p[h] = "else"
      <3>1. Beyond(p, y) = y + 1 BY <2>2, <2>5 DEF Loops
      <3>2. h \notin At(p, Loops) BY <2>5 DEF At, Loops
      <3>3. y + 1 \notin Tails(p) BY <2>1, <2>5, NoTail
      <3> QED BY <1>6, <1>9, <2>1, <2>4, <3>1, <3>2, <3>3
    <2>6. CASE p[h] \in {"if", "elseif"}
      <3>1. h \notin At(p, Loops) BY <2>6 DEF At, Loops
      <3>2. Beyond(p, y) = ChainEnd(p)[y] + 1 BY <2>2, <2>6 DEF Loops
      <3>3. CASE y + 1 \notin Tails(p)
        <4>1. ChainEnd(p)[y] = y BY <2>1, <3>3, ChainOn
        <4> QED BY <1>6, <1>9, <2>1, <2>4, <3>1, <3>2, <3>3, <4>1
      <3>4. CASE y + 1 \in Tails(p)
        <4> DEFINE b == y + 1
                   z == Pair(p, b)
        <4>1. b \in Heads(p) /\ p[b] \in {"elseif", "else"} BY <3>4 DEF Tails, Heads, At, Branches
        <4>2. /\ z \in 1 .. Len(p) /\ b + 1 < z /\ z \in At(p, Braces) /\ z \notin Heads(p) /\ p[z] = "rbrace"
              /\ \A g \in Heads(p) : Pair(p, g) = z => g = b
              /\ z - 1 \notin Heads(p)
          <5>1. /\ z \in 1 .. Len(p) /\ b + 1 < z /\ z \in At(p, Braces) /\ p[z] = "rbrace"
                /\ \A g \in Heads(p) : Pair(p, g) = z => g = b
            BY <4>1, HeadFacts
          <5>2. \A g \in Heads(p) : g \in 1 .. Len(p) /\ p[g + 1] = "lbrace" /\ g \notin At(p, Braces) BY HeadFacts
          <5>3. z - 1 \notin Heads(p)
            <6>1. (z - 1) + 1 = z BY <5>1
            <6> HIDE DEF z
            <6> QED BY <5>1, <5>2, <6>1
          <5> QED BY <5>1, <5>2, <5>3
        <4> HIDE DEF z
        <4>3. ChainEnd(p)[y] = ChainEnd(p)[z] BY <2>1, <3>4, ChainOn DEF z
        <4>4. Beyond(p, z) = ChainEnd(p)[z] + 1
          <5>1. Beyond(p, z) = CASE p[b] \in Loops -> b [] p[b] = "else" -> z + 1 [] OTHER -> ChainEnd(p)[z] + 1
            BY <4>1, CloseJump DEF z
          <5>2. CASE p[b] = "elseif" BY <5>1, <5>2 DEF Loops
          <5>3. CASE p[b] = "else"
            <6>1. z + 1 \notin Tails(p)
              <7>1. \A g \in Heads(p) : Pair(p, g) = z => p[g] \notin {"if", "elseif"} BY <4>2, <5>3
              <7> QED BY <4>2, <7>1, NoTail
            <6>2. ChainEnd(p)[z] = z BY <4>2, <6>1, ChainOn
            <6> QED BY <5>1, <5>3, <6>2 DEF Loops
          <5> QED BY <4>1, <5>2, <5>3
        <4>5. z \in 1 .. Len(p) + 1 /\ z \in 1 .. n /\ z > y BY <1>1, <2>1, <4>2
        <4>6. Stand(p, z) = Stand(p, Beyond(p, z)) BY <4>2, <4>5, StandDef
        <4>7. Stand(p, y) = Stand(p, z) BY <1>6, <2>1, <3>2, <4>3, <4>4, <4>6
        <4>8. z \notin Tails(p) BY <4>2 DEF Tails, At
        <4>9. Right(z) BY <1>5, <4>2, <4>5, <4>8
        <4>10. Coming(p, z - 1, Open(p, z)) = Coming(p, y - 1, Open(p, y))
          BY <1>11, <3>1, <3>4, ComingChain DEF z
        <4> QED BY <1>4, <4>7, <4>9, <4>10 DEF Right
      <3> QED BY <3>3, <3>4
    <2> QED BY <2>1, <2>3, <2>5, <2>6 DEF Branches
  <1> QED BY <1>7, <1>8, <1>10, <1>11

\* Behind a statement that is no header.
LEMMA StepOn ==
    ASSUME NEW p \in Seq(STRING), Braced(p), Chained(p),
           NEW i \in 1 .. Len(p), i \notin At(p, Braces), i \notin Heads(p)
    PROVE  Stand(p, i + 1) = Coming(p, i, Encloses(p, i))
  <1>1. \A h \in Heads(p) : /\ Pair(p, h) # i /\ h + 1 # i /\ h \in 1 .. Len(p) /\ Pair(p, h) \in 1 .. Len(p)
    BY HeadFacts
  <1>2. i + 1 \notin Tails(p) BY <1>1, NoTail
  <1>3. i + 1 \in 1 .. Len(p) + 1 /\ (i + 1) - 1 = i OBVIOUS
  <1>4. Open(p, i + 1) = Encloses(p, i) BY <1>1 DEF Open, Encloses
  <1> QED BY <1>2, <1>3, <1>4, Lands

\* At the front of the text.
LEMMA StartAt ==
    ASSUME NEW p \in Seq(STRING), Braced(p), Chained(p)
    PROVE  Stand(p, 1) = Coming(p, 0, {})
  <1>1. \A h \in Heads(p) : h \in 1 .. Len(p) /\ Pair(p, h) \in 1 .. Len(p) BY HeadFacts
  <1>2. 1 \notin Tails(p)
    <2>1. SUFFICES ASSUME 1 \in Tails(p) PROVE FALSE OBVIOUS
    <2>2. PICK g \in Heads(p) : Pair(p, g) = 1 - 1 BY <2>1, TailFacts
    <2> QED BY <1>1, <2>2
  <1>3. 1 \in 1 .. Len(p) + 1 /\ 1 - 1 = 0 /\ 0 \notin Heads(p) BY <1>1
  <1>4. Open(p, 1) = {} BY <1>1 DEF Open
  <1> QED BY <1>2, <1>3, <1>4, Lands

\* Into the block of a header.
LEMMA EnterAt ==
    ASSUME NEW p \in Seq(STRING), Braced(p), Chained(p), NEW h \in Heads(p)
    PROVE  Stand(p, h + 1) = Coming(p, h + 1, Encloses(p, h) \cup {h})
  <1>1. /\ h \in 1 .. Len(p) /\ Pair(p, h) \in 1 .. Len(p) /\ h + 1 < Pair(p, h)
        /\ h + 1 \in At(p, Braces) /\ p[h + 1] = "lbrace" /\ h \notin At(p, Braces)
    BY HeadFacts
  <1>2. \A g \in Heads(p) : /\ g \in 1 .. Len(p) /\ Pair(p, g) \in 1 .. Len(p) /\ p[Pair(p, g)] = "rbrace"
                            /\ g + 1 \in At(p, Braces) /\ g \notin At(p, Braces)
                            /\ Pair(p, g) \in At(p, Braces)
    BY HeadFacts
  <1>3. \A g \in Heads(p) : g # h => (h <= Pair(p, g) /\ g < h => Pair(p, h) < Pair(p, g)) BY HeadFacts
  <1>4. Stand(p, h + 1) = Stand(p, h + 2)
    <2>1. h + 1 \in 1 .. Len(p) + 1 BY <1>1
    <2>2. Stand(p, h + 1) = Stand(p, Beyond(p, h + 1)) BY <1>1, <2>1, StandDef
    <2>3. Beyond(p, h + 1) = h + 2 BY <1>1 DEF Beyond
    <2> QED BY <2>2, <2>3
  <1>5. h + 2 \in 1 .. Len(p) + 1 /\ (h + 2) - 1 = h + 1 /\ h + 1 \in 1 .. Len(p) /\ (h + 1) + 1 = h + 2
    BY <1>1
  <1>6. h + 1 \notin Heads(p) BY <1>1, <1>2
  <1>7. h + 2 \notin Tails(p)
    <2>1. \A g \in Heads(p) : Pair(p, g) # h + 1 BY <1>1, <1>2
    <2>2. (h + 1) + 1 \notin Tails(p) BY <1>5, <2>1, NoTail
    <2> QED BY <1>5, <2>2
  <1>8. Open(p, h + 2) = Encloses(p, h) \cup {h}
    <2>1. ASSUME NEW g \in Heads(p)
          PROVE  g + 2 <= h + 2 /\ h + 2 <= Pair(p, g) <=> (g + 2 <= h /\ h < Pair(p, g)) \/ g = h
      <3>1. g + 1 # h /\ Pair(p, g) # h BY <1>1, <1>2
      <3>2. g # h => (h <= Pair(p, g) /\ g < h => Pair(p, h) < Pair(p, g)) BY <1>3
      <3>3. g \in Nat /\ Pair(p, g) \in Nat /\ h \in Nat /\ Pair(p, h) \in Nat BY <1>1, <1>2
      <3> QED BY <1>1, <3>1, <3>2, <3>3
    <2> QED BY <2>1 DEF Open, Encloses
  <1> QED BY <1>4, <1>5, <1>6, <1>7, <1>8, Lands

\* The blocks around a header are those around the place behind its block.
LEMMA EnclosesPast ==
    ASSUME NEW p \in Seq(STRING), Braced(p), NEW h \in Heads(p)
    PROVE  /\ Open(p, Pair(p, h) + 1) = Encloses(p, h)
           /\ Pair(p, h) + 1 \notin At(p, Braces) => Encloses(p, Pair(p, h) + 1) = Encloses(p, h)
  <1> DEFINE e == Pair(p, h)
  <1>1. /\ h \in 1 .. Len(p) /\ e \in 1 .. Len(p) /\ h + 1 < e /\ p[e] = "rbrace"
        /\ h \notin At(p, Braces) /\ e \in At(p, Braces)
    BY HeadFacts
  <1>2. \A g \in Heads(p) : /\ g \in 1 .. Len(p) /\ Pair(p, g) \in 1 .. Len(p) /\ p[g + 1] = "lbrace"
                            /\ g + 1 \in At(p, Braces) /\ g \notin At(p, Braces) /\ Pair(p, g) \in At(p, Braces)
                            /\ g + 1 < Pair(p, g)
    BY HeadFacts
  <1>3. \A g \in Heads(p) : g # h =>
           /\ Pair(p, g) # e
           /\ g <= e /\ h < g => Pair(p, g) < e
           /\ h <= Pair(p, g) /\ g < h => e < Pair(p, g)
    BY HeadFacts
  <1>4. Pair(p, h) = e OBVIOUS
  <1> HIDE DEF e
  <1>5. ASSUME NEW g \in Heads(p)
        PROVE  g + 2 <= e + 1 /\ e + 1 <= Pair(p, g) <=> g + 2 <= h /\ h < Pair(p, g)
    <2>1. g + 1 # h /\ Pair(p, g) # h /\ g # e /\ g + 1 # e BY <1>1, <1>2
    <2>2. g # h =>
           /\ Pair(p, g) # e
           /\ g <= e /\ h < g => Pair(p, g) < e
           /\ h <= Pair(p, g) /\ g < h => e < Pair(p, g)
      BY <1>3
    <2>3. g \in Nat /\ Pair(p, g) \in Nat /\ h \in Nat /\ e \in Nat BY <1>1, <1>2
    <2> QED BY <1>1, <1>4, <2>1, <2>2, <2>3
  <1>6. Open(p, e + 1) = Encloses(p, h) BY <1>5 DEF Open, Encloses
  <1>7. e + 1 \notin At(p, Braces) => Open(p, e + 1) = Encloses(p, e + 1)
    <2>1. SUFFICES ASSUME e + 1 \notin At(p, Braces) PROVE Open(p, e + 1) = Encloses(p, e + 1) OBVIOUS
    <2>2. \A g \in Heads(p) : e + 1 <= Pair(p, g) <=> e + 1 < Pair(p, g)
      <3>1. \A g \in Heads(p) : Pair(p, g) # e + 1 /\ Pair(p, g) \in Nat BY <1>2, <2>1
      <3> QED BY <1>1, <3>1
    <2> QED BY <2>2 DEF Open, Encloses
  <1> QED BY <1>6, <1>7 DEF e

\* Past the block of a header.
LEMMA PassAt ==
    ASSUME NEW p \in Seq(STRING), Braced(p), Chained(p), NEW h \in Heads(p), Pair(p, h) + 1 \notin Tails(p)
    PROVE  Stand(p, Pair(p, h) + 1) = Coming(p, h, Encloses(p, h))
  <1> DEFINE e == Pair(p, h)
  <1>1. /\ h \in 1 .. Len(p) /\ e \in 1 .. Len(p) /\ h + 1 < e /\ e \in At(p, Braces) /\ h + 1 \in At(p, Braces)
    BY HeadFacts
  <1>2. e \notin Heads(p)
    <2>1. \A g \in Heads(p) : g \notin At(p, Braces) BY HeadFacts
    <2> QED BY <1>1, <2>1
  <1>3. e + 1 \in 1 .. Len(p) + 1 /\ (e + 1) - 1 = e BY <1>1
  <1>4. Open(p, e + 1) = Encloses(p, h) BY EnclosesPast
  <1>5. Stand(p, e + 1) = Coming(p, e, Encloses(p, h)) BY <1>2, <1>3, <1>4, Lands
  <1>6. ASSUME NEW q \in Plain(p)
        PROVE  q > e /\ Encloses(p, q) \subseteq Encloses(p, h) <=> q > h /\ Encloses(p, q) \subseteq Encloses(p, h)
    <2>1. q \in 1 .. Len(p) /\ q # e /\ q # h + 1 BY <1>1, PlainFacts
    <2>2. h \notin Encloses(p, h) BY <1>1 DEF Encloses
    <2>3. q > h /\ q < e => h \in Encloses(p, q) BY <1>1, <2>1 DEF Encloses
    <2> QED BY <1>1, <2>1, <2>2, <2>3
  <1>7. Coming(p, e, Encloses(p, h)) = Coming(p, h, Encloses(p, h)) BY <1>6, ComingSame
  <1> QED BY <1>5, <1>7

\* A condition that does not hold: to the next branch, or past the chain.
Others(p, i) == {q \in DOMAIN p \ At(p, Braces) : q > i /\ ~(i + 2 <= q /\ q <= Pair(p, i) - 1)}
Declined(p, i) ==
    IF /\ Others(p, i) # {} /\ Min(Others(p, i)) \in Tails(p)
       /\ Encloses(p, Min(Others(p, i))) = Encloses(p, i)
    THEN Min(Others(p, i)) ELSE Coming(p, i, Encloses(p, i))

LEMMA DeclineAt ==
    ASSUME NEW p \in Seq(STRING), Braced(p), Chained(p), NEW h \in Heads(p)
    PROVE  Stand(p, Pair(p, h) + 1) = Declined(p, h)
  <1> DEFINE e == Pair(p, h)
             S == Others(p, h)
  <1>1. /\ h \in 1 .. Len(p) /\ e \in 1 .. Len(p) /\ h + 1 < e /\ e \in At(p, Braces) /\ h + 1 \in At(p, Braces)
    BY HeadFacts
  <1>2. S \subseteq Nat /\ \A q \in S : q \in 1 .. Len(p) /\ q > e
    <2>1. ASSUME NEW q \in S PROVE q \in 1 .. Len(p) /\ q > e
      <3>1. q \in DOMAIN p /\ q \notin At(p, Braces) /\ q > h /\ ~(h + 2 <= q /\ q <= e - 1) BY DEF Others
      <3>2. q # h + 1 /\ q # e /\ q \in 1 .. Len(p) BY <1>1, <3>1
      <3> QED BY <1>1, <3>1, <3>2
    <2> QED BY <2>1
  <1>3. e + 1 \in 1 .. Len(p) + 1 BY <1>1
  <1>4. CASE e + 1 \in Tails(p)
    <2>1. e + 1 \in 1 .. Len(p) /\ e + 1 \notin At(p, Braces) BY <1>4 DEF Tails, At, Braces
    <2>2. e + 1 \in S BY <1>1, <2>1 DEF Others
    <2>3. Min(S) = e + 1
      <3>1. \A q \in S : e + 1 <= q BY <1>1, <1>2
      <3> HIDE DEF S, e
      <3> QED BY <1>2, <2>2, <3>1, MinIs
    <2>4. Encloses(p, e + 1) = Encloses(p, h) BY <2>1, EnclosesPast
    <2>5. Stand(p, e + 1) = e + 1 BY <1>3, <2>1, StandDef
    <2> QED BY <1>4, <2>2, <2>3, <2>4, <2>5 DEF Declined
  <1>5. CASE e + 1 \notin Tails(p)
    <2>1. Stand(p, e + 1) = Coming(p, h, Encloses(p, h)) BY <1>5, PassAt
    <2>2. ASSUME S # {}, Min(S) \in Tails(p), Encloses(p, Min(S)) = Encloses(p, h) PROVE FALSE
      <3> DEFINE b == Min(S)
      <3>1. b \in S /\ \A q \in S : b <= q
        <4>1. PICK m \in S : \A q \in S : m <= q BY <1>2, <2>2, LeastOne
        <4>2. Min(S) = m BY <1>2, <4>1, MinIs
        <4> QED BY <4>1, <4>2
      <3> HIDE DEF b
      <3>2. b \in 1 .. Len(p) /\ b > e BY <1>2, <3>1
      <3>3. PICK g \in Heads(p) : Pair(p, g) = b - 1 BY <2>2, TailFacts DEF b
      <3>4. /\ g \in 1 .. Len(p) /\ g + 1 < b - 1 /\ g \notin At(p, Braces)
            /\ g # h => /\ g <= e /\ h < g => Pair(p, g) < e
        BY <3>3, HeadFacts
      <3>5. b # e + 1 BY <1>5, <2>2 DEF b
      <3>6. g # h BY <1>1, <3>2, <3>3, <3>5
      <3>7. CASE g > h
        <4>1. g > e BY <1>1, <3>2, <3>3, <3>4, <3>6, <3>7
        <4>2. g \in S BY <1>1, <3>4, <3>7, <4>1 DEF Others
        <4> QED BY <3>1, <3>2, <3>4, <4>2
      <3>8. CASE g < h
        <4>1. g + 1 # h
          <5>1. g + 1 \in At(p, Braces) /\ h \notin At(p, Braces) BY HeadFacts
          <5> QED BY <5>1
        <4>2. g \in Encloses(p, h) BY <1>1, <3>2, <3>3, <3>4, <3>8, <4>1 DEF Encloses
        <4>3. g \notin Encloses(p, b) BY <3>2, <3>3 DEF Encloses
        <4> QED BY <2>2, <4>2, <4>3 DEF b
      <3> QED BY <1>1, <3>4, <3>6, <3>7, <3>8
    <2> QED BY <2>1, <2>2 DEF Declined
  <1> QED BY <1>4, <1>5

-----------------------------------------------------------------------------
\* What Blocks promises, in these words

LEMMA BlocksAre ==
    ASSUME prog \in Seq(STRING), Braced(prog)
    PROVE  /\ B!Statements = DOMAIN prog \ At(prog, Braces) /\ B!Done = Len(prog) + 1 /\ B!Rest = 0
           /\ \A i \in Int : B!Around(i) = Encloses(prog, i)
           /\ \A i \in Int : \A A : B!Follow(i, A) = Coming(prog, i, A)
           /\ \A i \in Heads(prog) : B!Decline(i) = Declined(prog, i)
  <1>1. /\ \A kinds : B!At(prog, kinds) = At(prog, kinds)
        /\ B!At(prog, B!Loops) = At(prog, Loops)
        /\ B!At(prog, B!Loops \cup B!Branches) = At(prog, Loops \cup Branches)
        /\ \A x : B!PhrasePair(prog, x) = PhrasePair(prog, x)
        /\ \A S : B!Min(S) = Min(S) /\ B!Max(S) = Max(S)
    BY BlocksText
  <1>2. B!Braces = Braces BY DEF B!Braces, Braces
  <1>3. B!Statements = DOMAIN prog \ At(prog, Braces) /\ B!Done = Len(prog) + 1 /\ B!Rest = 0
    BY <1>1, <1>2 DEF B!Statements, B!Done, B!Rest
  <1>4. \A h \in Heads(prog) : h \in 1 .. Len(prog) /\ Pair(prog, h) \in 1 .. Len(prog) BY HeadFacts
  <1>5. ASSUME NEW h \in Heads(prog), NEW i \in Int
        PROVE  i \in B!Body(h) <=> h + 2 <= i /\ i <= Pair(prog, h) - 1
    <2>1. B!Body(h) = h + 2 .. Pair(prog, h) - 1 BY <1>1 DEF B!Body, Pair
    <2> QED BY <1>4, <2>1
  <1>6. \A i \in Int : B!Around(i) = Encloses(prog, i)
    <2>1. TAKE i \in Int
    <2>2. B!Around(i) = {h \in Heads(prog) : i \in B!Body(h)} BY <1>1 DEF B!Around, Heads
    <2>3. \A h \in Heads(prog) : i \in B!Body(h) <=> h + 2 <= i /\ i < Pair(prog, h) BY <1>4, <1>5
    <2> QED BY <2>2, <2>3 DEF Encloses
  <1>7. \A i \in Int : \A A : B!Follow(i, A) = Coming(prog, i, A)
    <2>1. TAKE i \in Int
    <2>2. TAKE A
    <2> DEFINE inner == A \cap B!At(prog, B!Loops)
               later == {q \in B!Statements \ B!At(prog, {"elseif", "else"}) :
                           q > i /\ B!Around(q) \subseteq A
                                 /\ (inner # {} => B!Max(inner) \in B!Around(q))}
    <2>3. B!Follow(i, A) = IF later # {} THEN B!Min(later) ELSE IF inner # {} THEN B!Max(inner) ELSE B!Done
      BY DEF B!Follow
    <2>4. inner = A \cap At(prog, Loops) BY <1>1
    <2>5. later = Ahead(prog, i, A)
      <3>1. B!Statements \ B!At(prog, {"elseif", "else"}) = Plain(prog)
        BY <1>1, <1>3 DEF Plain, Tails
      <3>2. \A q \in Plain(prog) : B!Around(q) = Encloses(prog, q) BY <1>6, PlainFacts
      <3>3. B!Max(inner) = Max(A \cap At(prog, Loops)) BY <1>1, <2>4
      <3> HIDE DEF inner
      <3> QED BY <2>4, <3>1, <3>2, <3>3 DEF Ahead
    <2> HIDE DEF later, inner
    <2> QED BY <1>1, <1>3, <2>3, <2>4, <2>5 DEF Coming
  <1>8. \A i \in Heads(prog) : B!Decline(i) = Declined(prog, i)
    <2>1. TAKE i \in Heads(prog)
    <2> DEFINE next == {q \in B!Statements : q > i /\ q \notin B!Body(i)}
    <2>2. B!Decline(i) = IF next # {} /\ B!Min(next) \in B!At(prog, {"elseif", "else"})
                                      /\ B!Around(B!Min(next)) = B!Around(i)
                         THEN B!Min(next) ELSE B!After(i)
      BY DEF B!Decline
    <2>3. next = Others(prog, i)
      <3>1. \A q \in DOMAIN prog : q \in B!Body(i) <=> i + 2 <= q /\ q <= Pair(prog, i) - 1 BY <1>5
      <3> QED BY <1>3, <3>1 DEF Others
    <2>4. i \in Int BY <1>4
    <2>5. B!After(i) = Coming(prog, i, Encloses(prog, i)) BY <1>6, <1>7, <2>4 DEF B!After
    <2>6. B!Min(next) \in Tails(prog) => B!Around(B!Min(next)) = Encloses(prog, B!Min(next))
      <3>1. B!Min(next) \in Tails(prog) => B!Min(next) \in Int BY DEF Tails, At
      <3> QED BY <1>6, <3>1
    <2>7. B!At(prog, {"elseif", "else"}) = Tails(prog) BY <1>1 DEF Tails
    <2>8. B!Around(i) = Encloses(prog, i) BY <1>6, <2>4
    <2>9. B!Min(next) = Min(Others(prog, i)) BY <1>1, <2>3
    <2> HIDE DEF next
    <2> QED BY <2>2, <2>3, <2>5, <2>6, <2>7, <2>8, <2>9 DEF Declined
  <1> QED BY <1>3, <1>6, <1>7, <1>8

\* Where the execution of a statement leads is a successor of it.
LEMMA GoesOn ==
    ASSUME prog \in Seq(STRING), Braced(prog), Chained(prog),
           NEW i \in 1 .. Len(prog), i \notin At(prog, Braces)
    PROVE  /\ prog[i] \in Loops \cup Branches => Stand(prog, i + 1) \in B!Successors(i)
           /\ prog[i] \in Loops \cup {"if", "elseif"} => Stand(prog, Pair(prog, i) + 1) \in B!Successors(i)
           /\ prog[i] \notin Loops \cup Branches \cup Returns \cup {"break", "skip"} =>
                Stand(prog, i + 1) \in B!Successors(i)
           /\ prog[i] \in Returns => Len(prog) + 1 \in B!Successors(i)
  <1>1. /\ B!Done = Len(prog) + 1
        /\ \A j \in Int : B!Around(j) = Encloses(prog, j)
        /\ \A j \in Int : \A A : B!Follow(j, A) = Coming(prog, j, A)
        /\ \A j \in Heads(prog) : B!Decline(j) = Declined(prog, j)
    BY BlocksAre
  <1>2. i \in Int /\ i + 1 \in Int OBVIOUS
  <1>3. /\ B!After(i) = Coming(prog, i, Encloses(prog, i))
        /\ B!Enter(i) = Coming(prog, i + 1, Encloses(prog, i) \cup {i})
    BY <1>1, <1>2 DEF B!After, B!Enter
  <1>4. prog[i] \in Loops \cup Branches <=> i \in Heads(prog) BY KindFacts
  <1>5. i \in Heads(prog) => Stand(prog, i + 1) = B!Enter(i) BY <1>3, EnterAt
  <1>6. prog[i] \in Loops => Stand(prog, Pair(prog, i) + 1) = B!After(i)
    <2>1. SUFFICES ASSUME prog[i] \in Loops PROVE Stand(prog, Pair(prog, i) + 1) = B!After(i) OBVIOUS
    <2>2. i \in Heads(prog) BY <1>4, <2>1
    <2>3. \A g \in Heads(prog) : Pair(prog, g) = Pair(prog, i) => prog[g] \notin {"if", "elseif"}
      <3>1. \A g \in Heads(prog) : Pair(prog, g) = Pair(prog, i) => g = i BY <2>2, HeadFacts
      <3> QED BY <2>1, <3>1 DEF Loops
    <2>4. Pair(prog, i) \in 1 .. Len(prog) BY <2>2, HeadFacts
    <2>5. Pair(prog, i) + 1 \notin Tails(prog) BY <2>3, <2>4, NoTail
    <2> QED BY <1>3, <2>2, <2>5, PassAt
  <1>7. i \in Heads(prog) => Stand(prog, Pair(prog, i) + 1) = B!Decline(i) BY <1>1, DeclineAt
  <1>8. i \notin Heads(prog) => Stand(prog, i + 1) = B!After(i) BY <1>3, StepOn
  <1>9. CASE prog[i] \in Loops
    <2>1. B!Successors(i) = {B!Enter(i), B!After(i)}
      BY <1>9 DEF B!Successors, B!Loops, Loops, B!Returns
    <2> QED BY <1>4, <1>5, <1>6, <1>9, <2>1 DEF Loops, Returns
  <1>10. CASE prog[i] = "else"
    <2>1. B!Successors(i) = {B!Enter(i)}
      BY <1>10 DEF B!Successors, B!Loops, B!Returns
    <2> QED BY <1>4, <1>5, <1>10, <2>1 DEF Loops, Returns, Branches
  <1>11. CASE prog[i] \in {"if", "elseif"}
    <2>1. B!Successors(i) = {B!Enter(i), B!Decline(i)}
      BY <1>11 DEF B!Successors, B!Loops, B!Returns
    <2>2. i \in Heads(prog) BY <1>4, <1>11 DEF Branches
    <2> QED BY <1>5, <1>7, <1>11, <2>1, <2>2 DEF Loops, Returns, Branches
  <1>12. CASE prog[i] \in Returns
    <2>1. B!Successors(i) = {B!Done} BY <1>12 DEF B!Successors, B!Loops, B!Returns, Returns
    <2> QED BY <1>1, <1>12, <2>1 DEF Loops, Returns, Branches
  <1>13. CASE prog[i] \notin Loops \cup Branches \cup Returns \cup {"break", "skip"}
    <2>1. B!Successors(i) = {B!After(i)}
      BY <1>13 DEF B!Successors, B!Loops, Loops, Branches, B!Returns, Returns
    <2> QED BY <1>4, <1>8, <1>13, <2>1 DEF Branches
  <1>14. CASE prog[i] \in {"break", "skip"} BY <1>14 DEF Loops, Branches, Returns
  <1> QED BY <1>9, <1>10, <1>11, <1>12, <1>13, <1>14 DEF Branches

\* A break or skip to which Blocks gives its promise.
LEMMA LeapsOn ==
    ASSUME prog \in Seq(STRING), Braced(prog), Chained(prog),
           NEW i \in At(prog, {"break", "skip"}), ~B!NoPromise(i)
    PROVE  /\ JumpTable(prog)[i] \in 1 .. Len(prog) + 1
           /\ Stand(prog, JumpTable(prog)[i]) \in B!Successors(i)
  <1>1. PICK l \in At(prog, Loops) :
          /\ l + 2 <= i /\ i < PhrasePair(prog, l + 1)
          /\ \A h \in At(prog, Loops) : h < i => h <= l
    BY Promised
  <1>2. l \in Heads(prog) /\ prog[l] \in Loops /\ Pair(prog, l) = PhrasePair(prog, l + 1)
    BY DEF Heads, At, Pair
  <1>3. /\ l \in 1 .. Len(prog) /\ l \notin At(prog, Braces) /\ Pair(prog, l) \in 1 .. Len(prog)
        /\ i \in 1 .. Len(prog) /\ prog[i] \in {"break", "skip"}
    BY <1>2, HeadFacts DEF At
  <1>4. JumpTable(prog)[i] = IF prog[i] = "break" THEN Pair(prog, l) + 1 ELSE l
    <2>1. l < i BY <1>1, <1>3
    <2> QED BY <1>1, <1>2, <2>1, LoopJump
  <1>5. Max(B!Loop(i)) = l /\ l \in B!Loop(i)
    <2>1. B!Loop(i) = Encloses(prog, i) \cap At(prog, Loops)
      <3>1. B!Around(i) = Encloses(prog, i) BY <1>3, BlocksAre
      <3> QED BY <3>1, BlocksText DEF B!Loop
    <2>2. l \in B!Loop(i) BY <1>1, <1>2, <1>3, <2>1 DEF Encloses
    <2>3. B!Loop(i) \subseteq Nat BY <2>1 DEF At
    <2>4. \A g \in B!Loop(i) : g <= l
      <3>1. ASSUME NEW g \in B!Loop(i) PROVE g <= l
        <4>1. g \in At(prog, Loops) /\ g + 2 <= i /\ g \in Nat BY <2>1, <2>3 DEF Encloses
        <4> QED BY <1>1, <1>3, <4>1
      <3> QED BY <3>1
    <2> QED BY <2>2, <2>3, <2>4, MaxIs
  <1>6. B!Max(B!Loop(i)) = l BY <1>5, BlocksText
  <1>7. CASE prog[i] = "break"
    <2>1. B!Successors(i) = {B!After(l)}
      BY <1>5, <1>6, <1>7 DEF B!Successors, B!Loops, B!Returns
    <2>2. \A g \in Heads(prog) : Pair(prog, g) = Pair(prog, l) => prog[g] \notin {"if", "elseif"}
      <3>1. \A g \in Heads(prog) : Pair(prog, g) = Pair(prog, l) => g = l BY <1>2, HeadFacts
      <3> QED BY <1>2, <3>1 DEF Loops
    <2>3. Pair(prog, l) + 1 \notin Tails(prog) BY <1>3, <2>2, NoTail
    <2>4. Stand(prog, Pair(prog, l) + 1) = Coming(prog, l, Encloses(prog, l)) BY <1>2, <2>3, PassAt
    <2>5. B!After(l) = Coming(prog, l, Encloses(prog, l)) BY <1>3, BlocksAre DEF B!After
    <2> QED BY <1>3, <1>4, <1>7, <2>1, <2>4, <2>5
  <1>8. CASE prog[i] = "skip"
    <2>1. B!Successors(i) = {l}
      BY <1>5, <1>6, <1>8 DEF B!Successors, B!Loops, B!Returns
    <2>2. l \in 1 .. Len(prog) + 1 BY <1>3
    <2>3. Stand(prog, l) = l BY <1>3, <2>2, StandDef
    <2> QED BY <1>3, <1>4, <1>8, <2>1, <2>2, <2>3
  <1> QED BY <1>3, <1>7, <1>8

-----------------------------------------------------------------------------
\* The outermost activation implements Blocks

\* An activation that has called the routine itself stands at that call.
Waiting == \A k \in DOMAIN frames : k > 1 => frames[k].site = frames[k - 1].at
OuterInv == IInv /\ LoopInv /\ Chained(prog) /\ Waiting

\* From a brace on with it, from a statement to a successor of it.
Legal(i, next) ==
    IF i \in At(prog, Braces) THEN next = Beyond(prog, i)
    ELSE B!NoPromise(i) \/ (next \in 1 .. Len(prog) + 1 /\ Stand(prog, next) \in B!Successors(i))

LEMMA OuterText ==
    ASSUME OuterInv, UNCHANGED code
    PROVE  /\ prog \in Seq(STRING) /\ Braced(prog) /\ Chained(prog) /\ jumpTo = JumpTable(prog)
           /\ prog' = prog /\ Chained(prog)' /\ Len(prog) \in Nat \ {0} /\ DOMAIN prog = 1 .. Len(prog)
           /\ frames \in Seq(Frame) /\ Len(frames) \in Nat /\ DOMAIN frames = 1 .. Len(frames)
           /\ \A f \in Frame : f.at \in Places /\ f.site \in Sites
           /\ Outermost = IF frames = <<>> THEN 0 ELSE IF frames[1].at = NoPhrase THEN Len(prog) + 1
                          ELSE Stand(prog, frames[1].at)
           /\ Outermost' = IF frames' = <<>> THEN 0 ELSE IF frames'[1].at = NoPhrase THEN Len(prog) + 1
                           ELSE Stand(prog, frames'[1].at)
  <1>1. Parsed /\ Parsed' /\ prog \in Seq(STRING) BY SameText DEF OuterInv, LoopInv
  <1>2. prog' = prog /\ jumpTo' = jumpTo BY DEF code
  <1>3. Len(prog) \in Nat \ {0} /\ DOMAIN prog = 1 .. Len(prog) BY PlaceFacts DEF OuterInv, IInv
  <1>4. frames \in Seq(Frame) /\ Len(frames) \in Nat /\ DOMAIN frames = 1 .. Len(frames)
    BY DEF OuterInv, IInv, TypeOK
  <1>5. \A f \in Frame : f.at \in Places /\ f.site \in Sites BY DEF Frame
  <1> QED BY <1>1, <1>2, <1>3, <1>4, <1>5 DEF Outermost, Stand, Parsed, OuterInv

\* Every place is in the text or behind it, or there is none.
LEMMA PlacesBound ==
    ASSUME TypeOK, prog \in Seq(STRING), Braced(prog), jumpTo = JumpTable(prog)
    PROVE  Places \subseteq 0 .. Len(prog) + 1
  <1>1. Len(prog) \in Nat \ {0} /\ DOMAIN prog = 1 .. Len(prog) BY PlaceFacts
  <1>2. ASSUME NEW i \in Jumping PROVE jumpTo[i] \in 0 .. Len(prog) + 1
    <2>1. i \in 1 .. Len(prog) BY <1>1, <1>2 DEF Jumping, At
    <2>2. CASE prog[i] \in Returns BY <1>1, <2>1, <2>2 DEF JumpTable, Returns, Loops
    <2>3. CASE prog[i] \in Loops \cup {"if", "elseif"}
      <3>1. i \in Heads(prog) BY <2>1, <2>3 DEF Heads, At, Branches
      <3>2. jumpTo[i] = Pair(prog, i) + 1
        BY <1>1, <2>1, <2>3, <3>1 DEF JumpTable, PastBlock, Heads, Pair, Returns, Loops
      <3>3. Pair(prog, i) \in 1 .. Len(prog) BY <3>1, HeadFacts
      <3> QED BY <3>2, <3>3
    <2>4. CASE prog[i] = "rbrace"
      <3>1. i \in At(prog, Braces) /\ Beyond(prog, i) = jumpTo[i] BY <2>1, <2>4 DEF At, Braces, Beyond
      <3> QED BY <3>1, BeyondFacts
    <2>5. CASE prog[i] \in {"break", "skip"}
      <3> DEFINE Nearest == {h \in At(prog, Loops) : h < i}
      <3>1. CASE Nearest = {}
        <4>1. jumpTo[i] = NoPhrase BY <1>1, <2>1, <2>5, <3>1 DEF JumpTable, Returns, Loops
        <4> QED BY <4>1 DEF NoPhrase
      <3>2. CASE Nearest # {}
        <4>1. Nearest \subseteq 1 .. Len(prog) BY DEF At
        <4>2. PICK l \in Nearest : \A h \in Nearest : h <= l
          <5> HIDE DEF Nearest
          <5> QED BY <1>1, <3>2, <4>1, GreatestOne
        <4>3. l \in At(prog, Loops) /\ l < i /\ \A h \in At(prog, Loops) : h < i => h <= l BY <4>2
        <4>4. i \in At(prog, {"break", "skip"}) BY <2>1, <2>5 DEF At
        <4>5. jumpTo[i] = IF prog[i] = "break" THEN PhrasePair(prog, l + 1) + 1 ELSE l
          BY <4>3, <4>4, LoopJump
        <4>6. l \in Heads(prog) BY <4>3 DEF Heads, At
        <4>7. l \in 1 .. Len(prog) /\ PhrasePair(prog, l + 1) \in 1 .. Len(prog) BY <4>6, HeadFacts DEF Pair
        <4> QED BY <4>5, <4>7
      <3> QED BY <3>1, <3>2
    <2> QED BY <1>2, <2>2, <2>3, <2>4, <2>5 DEF Jumping, At
  <1> QED BY <1>1, <1>2 DEF Places

\* A legal step of the latest activation is a step of Blocks if it is also the
\* outermost one, and none otherwise.
LEMMA OuterStep ==
    ASSUME OuterInv, UNCHANGED code, frames # <<>>, Here \in DOMAIN prog,
           NEW f \in Frame, f.site = Top.site, Legal(Here, f.at),
           frames' = [frames EXCEPT ![Len(frames)] = f]
    PROVE  [B!Next]_<<prog, Outermost>> /\ Waiting'
  <1>1. /\ prog \in Seq(STRING) /\ Braced(prog) /\ Chained(prog) /\ prog' = prog
        /\ Len(prog) \in Nat /\ DOMAIN prog = 1 .. Len(prog)
        /\ frames \in Seq(Frame) /\ Len(frames) \in Nat /\ DOMAIN frames = 1 .. Len(frames)
        /\ Outermost = IF frames = <<>> THEN 0 ELSE IF frames[1].at = NoPhrase THEN Len(prog) + 1
                       ELSE Stand(prog, frames[1].at)
        /\ Outermost' = IF frames' = <<>> THEN 0 ELSE IF frames'[1].at = NoPhrase THEN Len(prog) + 1
                        ELSE Stand(prog, frames'[1].at)
    BY OuterText
  <1>2. Len(frames) \in Nat \ {0} /\ Top = frames[Len(frames)] BY <1>1, LastFacts DEF Top
  <1>3. /\ Len(frames') = Len(frames) /\ DOMAIN frames' = 1 .. Len(frames) /\ frames' # <<>>
        /\ \A k \in 1 .. Len(frames) : frames'[k] = IF k = Len(frames) THEN f ELSE frames[k]
    <2>1. /\ frames' \in Seq(Frame) /\ Len(frames') = Len(frames)
          /\ \A k \in 1 .. Len(frames) : frames'[k] = IF k = Len(frames) THEN f ELSE frames[k]
      BY <1>1, <1>2, ExceptSeq
    <2> QED BY <1>2, <2>1
  <1>4. Waiting'
    <2>1. ASSUME NEW k \in 1 .. Len(frames), k > 1 PROVE frames'[k].site = frames'[k - 1].at
      <3>1. frames'[k].site = frames[k].site BY <1>2, <1>3
      <3>2. k - 1 \in 1 .. Len(frames) /\ k - 1 # Len(frames) BY <1>2, <2>1
      <3>3. frames'[k - 1] = frames[k - 1] BY <1>3, <3>2
      <3>4. frames[k].site = frames[k - 1].at BY <1>1, <2>1 DEF OuterInv, Waiting
      <3> QED BY <3>1, <3>3, <3>4
    <2> QED BY <1>3, <2>1 DEF Waiting
  <1>5. CASE Len(frames) # 1
    <2>1. frames'[1] = frames[1] BY <1>2, <1>3, <1>5
    <2>2. Outermost' = Outermost BY <1>1, <1>3, <2>1
    <2> QED BY <1>1, <1>4, <2>2
  <1>6. CASE Len(frames) = 1
    <2>1. frames[1].at = Here /\ frames'[1] = f BY <1>2, <1>3, <1>6 DEF Here
    <2>2. Here \in 1 .. Len(prog) + 1 /\ Here # NoPhrase BY <1>1 DEF NoPhrase
    <2>3. Outermost = Stand(prog, Here) BY <1>1, <2>1, <2>2
    <2>4. CASE Here \in At(prog, Braces)
      <3>1. f.at = Beyond(prog, Here) /\ f.at \in 1 .. Len(prog) + 1 BY <1>1, <2>4, BeyondFacts DEF Legal
      <3>2. f.at # NoPhrase BY <3>1 DEF NoPhrase
      <3>3. Outermost' = Stand(prog, f.at) BY <1>1, <1>3, <2>1, <3>2
      <3>4. Outermost' = Outermost BY <1>1, <2>2, <2>3, <2>4, <3>1, <3>3, StandDef
      <3> QED BY <1>1, <1>4, <3>4
    <2>5. CASE Here \notin At(prog, Braces)
      <3>1. Outermost = Here BY <1>1, <2>2, <2>3, <2>5, StandDef
      <3>2. Outermost \in B!Statements
        <4>1. B!Statements = DOMAIN prog \ At(prog, Braces) BY <1>1, BlocksAre
        <4> QED BY <2>5, <3>1, <4>1
      <3>3. Outermost' \in B!Successors(Here) \/ B!NoPromise(Here)
        <4>1. SUFFICES ASSUME f.at \in 1 .. Len(prog) + 1, Stand(prog, f.at) \in B!Successors(Here)
                       PROVE  Outermost' \in B!Successors(Here)
          BY <2>5 DEF Legal
        <4>2. f.at # NoPhrase BY <4>1 DEF NoPhrase
        <4>3. Outermost' = Stand(prog, f.at) BY <1>1, <1>3, <2>1, <4>2
        <4> QED BY <4>1, <4>3
      <3>4. B!Step BY <3>1, <3>2, <3>3 DEF B!Step
      <3> QED BY <1>1, <1>4, <3>4 DEF B!Next
    <2> QED BY <2>4, <2>5
  <1> QED BY <1>5, <1>6

\* The phrase behind one that is done, and the target of one that jumps.
LEMMA LegalSteps ==
    ASSUME OuterInv, Here \in DOMAIN prog
    PROVE  /\ prog[Here] \notin {"rbrace", "break", "skip"} \cup Returns => Legal(Here, Here + 1)
           /\ prog[Here] \in Loops \cup {"if", "elseif", "rbrace", "break", "skip"} \cup Returns =>
                Legal(Here, jumpTo[Here])
  <1>1. /\ prog \in Seq(STRING) /\ Braced(prog) /\ Chained(prog) /\ jumpTo = JumpTable(prog)
        /\ Len(prog) \in Nat /\ DOMAIN prog = 1 .. Len(prog)
    <2>1. prog \in Seq(STRING) BY ProgsAssumption DEF OuterInv, LoopInv, Parsed
    <2> QED BY <2>1 DEF OuterInv, LoopInv, Parsed
  <1>2. Here \in 1 .. Len(prog) /\ Here + 1 \in 1 .. Len(prog) + 1 BY <1>1
  <1>3. Here \in At(prog, Braces) <=> prog[Here] \in {"lbrace", "rbrace"} BY <1>1, <1>2, KindFacts
  <1>4. ASSUME prog[Here] \notin {"rbrace", "break", "skip"} \cup Returns PROVE Legal(Here, Here + 1)
    <2>1. CASE prog[Here] = "lbrace" BY <1>3, <2>1 DEF Legal, Beyond
    <2>2. CASE prog[Here] # "lbrace"
      <3>1. Here \notin At(prog, Braces) BY <1>3, <1>4, <2>2
      <3>2. Stand(prog, Here + 1) \in B!Successors(Here) BY <1>1, <1>2, <1>4, <3>1, GoesOn
      <3> QED BY <1>2, <3>1, <3>2 DEF Legal
    <2> QED BY <2>1, <2>2
  <1>5. CASE prog[Here] \in Loops \cup {"if", "elseif"}
    <2>1. Here \in Heads(prog) /\ Here \notin At(prog, Braces)
      BY <1>2, <1>3, <1>5 DEF Heads, At, Loops, Branches
    <2>2. jumpTo[Here] = Pair(prog, Here) + 1
      BY <1>1, <1>2, <1>5, <2>1 DEF JumpTable, PastBlock, Heads, Pair, Returns, Loops
    <2>3. Pair(prog, Here) \in 1 .. Len(prog) BY <1>1, <2>1, HeadFacts
    <2>4. jumpTo[Here] \in 1 .. Len(prog) + 1 BY <1>1, <2>2, <2>3
    <2>5. Stand(prog, jumpTo[Here]) \in B!Successors(Here) BY <1>1, <1>2, <1>5, <2>1, <2>2, GoesOn
    <2>6. Legal(Here, jumpTo[Here]) BY <2>1, <2>4, <2>5 DEF Legal
    <2>7. prog[Here] \notin {"rbrace", "break", "skip"} \cup Returns BY <1>5 DEF Loops, Returns
    <2> QED BY <1>4, <2>6, <2>7
  <1>6. CASE prog[Here] = "rbrace" BY <1>1, <1>3, <1>6 DEF Legal, Beyond
  <1>7. CASE prog[Here] \in {"break", "skip"}
    <2>1. Here \in At(prog, {"break", "skip"}) /\ Here \notin At(prog, Braces) BY <1>2, <1>3, <1>7 DEF At
    <2>2. Legal(Here, jumpTo[Here]) BY <1>1, <2>1, LeapsOn DEF Legal
    <2> QED BY <1>7, <2>2
  <1>8. CASE prog[Here] \in Returns
    <2>1. Here \notin At(prog, Braces) BY <1>3, <1>8 DEF Returns
    <2>2. jumpTo[Here] = Len(prog) + 1 BY <1>1, <1>2, <1>8 DEF JumpTable, Returns, Loops
    <2>3. Len(prog) + 1 \in 1 .. Len(prog) + 1 /\ Len(prog) + 1 \notin At(prog, Braces) BY <1>1 DEF At
    <2>4. Stand(prog, Len(prog) + 1) = Len(prog) + 1 BY <1>1, <2>3, StandDef
    <2>5. Len(prog) + 1 \in B!Successors(Here) BY <1>1, <1>2, <1>8, <2>1, GoesOn
    <2> QED BY <1>8, <2>1, <2>2, <2>3, <2>4, <2>5 DEF Legal
  <1> QED BY <1>4, <1>5, <1>6, <1>7, <1>8

LEMMA OuterGoto ==
    ASSUME OuterInv, UNCHANGED code, frames # <<>>, Here \in DOMAIN prog,
           NEW next \in Places, Legal(Here, next), Goto(next)
    PROVE  [B!Next]_<<prog, Outermost>> /\ Waiting'
  <1>1. TypeOK BY DEF OuterInv, IInv
  <1>2. PICK f \in Frame : /\ f.site = Top.site /\ f.at = next
                           /\ frames' = [frames EXCEPT ![Len(frames)] = f]
    BY <1>1, GotoSteps
  <1> QED BY <1>2, OuterStep

\* A step that leaves the activations alone.
LEMMA OuterStays ==
    ASSUME OuterInv, UNCHANGED code, UNCHANGED frames
    PROVE  [B!Next]_<<prog, Outermost>> /\ Waiting'
  <1>1. prog' = prog /\ jumpTo' = jumpTo /\ frames' = frames BY DEF code
  <1>2. Outermost' = Outermost BY <1>1 DEF Outermost
  <1>3. Waiting' BY <1>1 DEF OuterInv, Waiting
  <1> QED BY <1>1, <1>2, <1>3

\* All phrases but calls.
LEMMA OuterPhrases ==
    ASSUME OuterInv, UNCHANGED code, frames # <<>>, Here \in DOMAIN prog,
           Command \/ Jump \/ Test \/ Fail \/ AssignLocal \/ For \/ ForEach
    PROVE  [B!Next]_<<prog, Outermost>> /\ Waiting'
  <1>1. TypeOK BY DEF OuterInv, IInv
  <1>2. ASSUME prog[Here] \notin {"rbrace", "break", "skip"} \cup Returns
        PROVE  Legal(Here, Here + 1) /\ Here + 1 \in Places
    BY <1>1, <1>2, LegalSteps, PlaceFacts
  <1>3. ASSUME prog[Here] \in Loops \cup {"if", "elseif", "rbrace", "break", "skip"} \cup Returns
        PROVE  Legal(Here, jumpTo[Here]) /\ jumpTo[Here] \in Places
    <2>1. Here \in Jumping BY <1>3 DEF Jumping, At
    <2> QED BY <1>1, <1>3, <2>1, LegalSteps, PlaceFacts
  <1>4. CASE Command
    <2>1. prog[Here] \notin {"rbrace", "break", "skip"} \cup Returns /\ Goto(Here + 1)
      BY <1>4 DEF Command, Returns
    <2> QED BY <1>2, <2>1, OuterGoto
  <1>5. CASE Jump
    <2>1. prog[Here] \in Loops \cup {"if", "elseif", "rbrace", "break", "skip"} \cup Returns /\ Goto(jumpTo[Here])
      BY <1>5 DEF Jump
    <2> QED BY <1>3, <2>1, OuterGoto
  <1>6. CASE Test
    <2>1. prog[Here] \notin {"rbrace", "break", "skip"} \cup Returns /\ Goto(Here + 1)
      BY <1>6 DEF Test, Returns
    <2> QED BY <1>2, <2>1, OuterGoto
  <1>7. CASE Fail
    <2>1. prog[Here] \in Loops \cup {"if", "elseif", "rbrace", "break", "skip"} \cup Returns /\ Goto(jumpTo[Here])
      BY <1>7 DEF Fail, Loops
    <2> QED BY <1>3, <2>1, OuterGoto
  <1>8. CASE AssignLocal
    <2> DEFINE f == [Top EXCEPT !.at = Here + 1, !.last = Here, !.owns = Top.owns \cup {"local"}]
    <2>1. Top \in Frame /\ Top = frames[Len(frames)] BY LastFacts DEF OuterInv, IInv, TypeOK, Top
    <2>2. f \in Frame /\ f.site = Top.site /\ f.at = Here + 1
      BY <1>1, <2>1, PlaceFacts DEF Frame, Sites, Data
    <2>3. frames' = [frames EXCEPT ![Len(frames)] = f] BY <2>1, <1>8 DEF AssignLocal
    <2>4. prog[Here] \notin {"rbrace", "break", "skip"} \cup Returns BY <1>8 DEF AssignLocal, Returns
    <2> HIDE DEF f
    <2>5. Legal(Here, f.at) BY <1>2, <2>2, <2>4
    <2> QED BY <2>2, <2>3, <2>5, OuterStep
  <1>9. CASE For \/ ForEach
    <2>1. /\ prog[Here] \in Loops \cup {"if", "elseif", "rbrace", "break", "skip"} \cup Returns
          /\ prog[Here] \notin {"rbrace", "break", "skip"} \cup Returns
      BY <1>9 DEF For, ForEach, Loops, Returns
    <2>2. Goto(Here + 1) \/ Goto(jumpTo[Here]) \/ UNCHANGED frames BY <1>9 DEF For, ForEach
    <2> QED BY <1>2, <1>3, <2>1, <2>2, OuterGoto, OuterStays
  <1> QED BY <1>4, <1>5, <1>6, <1>7, <1>8, <1>9

\* A call from outside starts at the front or behind a yield; a call of the
\* routine by itself is none of the steps of its outermost activation.
LEMMA OuterCall ==
    ASSUME OuterInv, UNCHANGED code, NEW passed \in BOOLEAN, NEW site \in Sites, Call(site, passed),
           frames = <<>> \/ (frames # <<>> /\ site = Here)
    PROVE  [B!Next]_<<prog, Outermost>> /\ Waiting'
  <1>1. /\ prog \in Seq(STRING) /\ Braced(prog) /\ Chained(prog) /\ prog' = prog
        /\ Len(prog) \in Nat \ {0} /\ DOMAIN prog = 1 .. Len(prog)
        /\ frames \in Seq(Frame) /\ Len(frames) \in Nat /\ DOMAIN frames = 1 .. Len(frames)
        /\ Outermost = IF frames = <<>> THEN 0 ELSE IF frames[1].at = NoPhrase THEN Len(prog) + 1
                       ELSE Stand(prog, frames[1].at)
        /\ Outermost' = IF frames' = <<>> THEN 0 ELSE IF frames'[1].at = NoPhrase THEN Len(prog) + 1
                        ELSE Stand(prog, frames'[1].at)
    BY OuterText
  <1>2. PICK f : f.at = idResume /\ f.site = site /\ frames' = Append(frames, f) BY DEF Call
  <1>3. /\ frames' # <<>> /\ DOMAIN frames' = 1 .. Len(frames) + 1
        /\ \A k \in 1 .. Len(frames) : frames'[k] = frames[k]
        /\ frames'[Len(frames) + 1] = f
    BY <1>1, <1>2
  <1>4. CASE frames = <<>>
    <2>1. Len(frames) = 0 /\ frames'[1] = f BY <1>3, <1>4
    <2>2. Waiting' BY <1>3, <2>1 DEF Waiting
    <2>3. idResume \in 1 .. Len(prog) BY <1>1 DEF OuterInv, IInv, TypeOK
    <2>4. idResume # NoPhrase BY <2>3 DEF NoPhrase
    <2>5. Outermost = 0 /\ Outermost' = Stand(prog, idResume) BY <1>1, <1>2, <1>3, <1>4, <2>1, <2>4
    <2>6. B!Follow(0, {}) = Coming(prog, 0, {}) BY <1>1, BlocksAre
    <2>7. Stand(prog, idResume) \in {B!Follow(0, {})} \cup {B!After(y) : y \in B!At(prog, {"yield"})}
      <3>1. CASE idResume = 1 BY <1>1, <2>6, <3>1, StartAt
      <3>2. CASE idResume - 1 \in At(prog, {"yield"})
        <4> DEFINE y == idResume - 1
        <4>1. y \in 1 .. Len(prog) /\ prog[y] = "yield" /\ y + 1 = idResume BY <2>3, <3>2 DEF At
        <4> HIDE DEF y
        <4>2. y \notin At(prog, Braces) /\ y \notin Heads(prog)
          BY <1>1, <4>1, KindFacts DEF Loops, Branches
        <4>3. Stand(prog, idResume) = Coming(prog, y, Encloses(prog, y)) BY <1>1, <4>1, <4>2, StepOn
        <4>4. B!After(y) = Coming(prog, y, Encloses(prog, y)) BY <1>1, <4>1, BlocksAre DEF B!After
        <4>5. y \in B!At(prog, {"yield"}) BY <3>2, BlocksText DEF y
        <4> QED BY <4>3, <4>4, <4>5
      <3> QED BY <3>1, <3>2 DEF OuterInv, LoopInv, Resumes
    <2>8. B!Start BY <2>5, <2>7 DEF B!Start, B!Rest
    <2> QED BY <1>1, <2>2, <2>8 DEF B!Next
  <1>5. CASE frames # <<>>
    <2>1. Len(frames) \in Nat \ {0} /\ Here = frames[Len(frames)].at BY <1>1, <1>5, LastFacts DEF Here, Top
    <2>2. frames'[1] = frames[1] BY <1>3, <2>1
    <2>3. Outermost' = Outermost BY <1>1, <1>3, <1>5, <2>2
    <2>4. Waiting'
      <3>1. ASSUME NEW k \in 1 .. Len(frames) + 1, k > 1 PROVE frames'[k].site = frames'[k - 1].at
        <4>1. k - 1 \in 1 .. Len(frames) /\ frames'[k - 1] = frames[k - 1] BY <1>3, <2>1, <3>1
        <4>2. CASE k = Len(frames) + 1
          <5>1. frames'[k] = f /\ k - 1 = Len(frames) BY <1>3, <2>1, <4>2
          <5> QED BY <1>2, <1>5, <2>1, <4>1, <5>1
        <4>3. CASE k # Len(frames) + 1
          <5>1. k \in 1 .. Len(frames) /\ frames'[k] = frames[k] BY <1>3, <2>1, <4>3
          <5>2. frames[k].site = frames[k - 1].at BY <1>1, <3>1, <5>1 DEF OuterInv, Waiting
          <5> QED BY <4>1, <5>1, <5>2
        <4> QED BY <4>2, <4>3
      <3> QED BY <1>3, <3>1 DEF Waiting
    <2> QED BY <1>1, <2>3, <2>4
  <1> QED BY <1>4, <1>5

\* The end of an activation: the routine is left, or the call is over at which
\* the activation below has waited.
LEMMA OuterLeave ==
    ASSUME OuterInv, UNCHANGED code, frames # <<>>, Leave
    PROVE  [B!Next]_<<prog, Outermost>> /\ Waiting'
  <1>1. /\ prog \in Seq(STRING) /\ Braced(prog) /\ Chained(prog) /\ jumpTo = JumpTable(prog) /\ prog' = prog
        /\ Len(prog) \in Nat \ {0} /\ DOMAIN prog = 1 .. Len(prog)
        /\ frames \in Seq(Frame) /\ Len(frames) \in Nat /\ DOMAIN frames = 1 .. Len(frames)
        /\ \A f \in Frame : f.at \in Places /\ f.site \in Sites
        /\ Outermost = IF frames = <<>> THEN 0 ELSE IF frames[1].at = NoPhrase THEN Len(prog) + 1
                       ELSE Stand(prog, frames[1].at)
        /\ Outermost' = IF frames' = <<>> THEN 0 ELSE IF frames'[1].at = NoPhrase THEN Len(prog) + 1
                        ELSE Stand(prog, frames'[1].at)
    BY OuterText
  <1>2. /\ Len(frames) \in Nat \ {0} /\ Top = frames[Len(frames)]
        /\ Len(Front(frames)) = Len(frames) - 1 /\ Front(frames) \in Seq(Frame)
        /\ \A k \in 1 .. Len(frames) - 1 : Front(frames)[k] = frames[k]
    BY <1>1, LastFacts DEF Top
  <1> DEFINE n == Len(frames) - 1
             below == Front(frames)
  <1>3. /\ frames' = IF below = <<>> THEN below
                     ELSE [below EXCEPT ![n] = [@ EXCEPT !.at = Top.site + 1, !.last = Top.site, !.nested = TRUE]]
        /\ Here = 0 \/ Here > Len(prog)
    BY <1>2 DEF Leave, Abandon, Yield, Finish, Return, NoPhrase
  <1>4. CASE Len(frames) = 1
    <2>1. frames' = <<>> /\ Outermost' = 0
      <3>1. below = <<>> BY <1>2, <1>4, EmptySeq
      <3> QED BY <1>1, <1>3, <3>1
    <2>2. Waiting' BY <2>1 DEF Waiting
    <2>3. Outermost = Len(prog) + 1
      <3>1. frames[1].at = Here /\ Here \in 0 .. Len(prog) + 1
        <4>1. Top \in Frame /\ Here \in Places BY <1>1, <1>2, ElementOfSeq DEF Here
        <4>2. Places \subseteq 0 .. Len(prog) + 1 BY <1>1, PlacesBound DEF OuterInv, IInv
        <4> QED BY <1>2, <1>4, <4>1, <4>2 DEF Here
      <3>2. Here = 0 \/ Here = Len(prog) + 1 BY <1>1, <1>3, <3>1
      <3>3. Len(prog) + 1 \in 1 .. Len(prog) + 1 /\ Len(prog) + 1 \notin At(prog, Braces) BY <1>1 DEF At
      <3>4. Stand(prog, Len(prog) + 1) = Len(prog) + 1 BY <1>1, <3>3, StandDef
      <3> QED BY <1>1, <3>1, <3>2, <3>4 DEF NoPhrase
    <2>4. B!Stop BY <1>1, <2>1, <2>3, BlocksAre DEF B!Stop
    <2> QED BY <1>1, <2>2, <2>4 DEF B!Next
  <1>5. CASE Len(frames) # 1
    <2>1. n \in Nat \ {0} /\ n \in 1 .. n /\ below # <<>> /\ Len(below) = n /\ below \in Seq(Frame)
      BY <1>2, <1>5, EmptySeq
    <2> DEFINE x == [below[n] EXCEPT !.at = Top.site + 1, !.last = Top.site, !.nested = TRUE]
    <2>2. below[n] \in Frame BY <2>1, ElementOfSeq
    <2>3. x.at = Top.site + 1 /\ x.site = below[n].site BY <2>2 DEF Frame
    <2>4. frames' = [below EXCEPT ![n] = x] BY <1>3, <2>1
    <2> HIDE DEF x
    <2>5. /\ DOMAIN frames' = 1 .. n /\ frames' # <<>>
          /\ \A k \in 1 .. n : frames'[k] = IF k = n THEN x ELSE frames[k]
      BY <1>2, <2>1, <2>4
    <2>6. below[n] = frames[n] BY <1>2, <2>1
    <2>7. Waiting'
      <3>1. ASSUME NEW k \in 1 .. n, k > 1 PROVE frames'[k].site = frames'[k - 1].at
        <4>1. k - 1 \in 1 .. n /\ k - 1 # n /\ k \in 1 .. Len(frames) BY <1>2, <2>1, <3>1
        <4>2. frames'[k - 1] = frames[k - 1] BY <2>5, <4>1
        <4>3. frames'[k].site = frames[k].site BY <2>3, <2>5, <2>6
        <4>4. frames[k].site = frames[k - 1].at BY <1>1, <3>1, <4>1 DEF OuterInv, Waiting
        <4> QED BY <4>2, <4>3, <4>4
      <3> QED BY <2>5, <3>1 DEF Waiting
    <2>8. CASE n # 1
      <3>1. frames'[1] = frames[1] BY <2>1, <2>5, <2>8
      <3>2. Outermost' = Outermost BY <1>1, <2>5, <3>1
      <3> QED BY <1>1, <2>7, <3>2
    <2>9. CASE n = 1
      <3> DEFINE s == Top.site
      <3>1. Len(frames) = 2 /\ Top = frames[2]
        <4>1. \A m \in Nat : m - 1 = 1 => m = 2 OBVIOUS
        <4> HIDE DEF below
        <4>2. Len(frames) \in Nat /\ Len(frames) - 1 = 1 BY <1>1, <2>9
        <4>3. Len(frames) = 2 BY <4>1, <4>2, Zenon
        <4> QED BY <1>2, <4>3
      <3>2. s = frames[1].at /\ s \in At(prog, Calls)
        <4>1. 2 \in DOMAIN frames /\ 2 > 1 BY <1>1, <3>1
        <4>2. frames[2].site = frames[2 - 1].at BY <4>1 DEF OuterInv, Waiting
        <4>3. 2 - 1 = 1 OBVIOUS
        <4>4. frames[2].site \in At(prog, Calls) BY <4>1 DEF OuterInv, LoopInv, FromCalls
        <4> QED BY <3>1, <4>2, <4>3, <4>4
      <3> HIDE DEF s
      <3>3. s \in 1 .. Len(prog) /\ prog[s] \in Calls BY <1>1, <3>2 DEF At
      <3>4. s \notin At(prog, Braces) BY <1>1, <3>3, KindFacts DEF Calls
      <3>5. s # NoPhrase /\ s + 1 # NoPhrase /\ s \in 1 .. Len(prog) + 1 BY <3>3 DEF NoPhrase
      <3>6. Outermost = s BY <1>1, <3>2, <3>4, <3>5, StandDef
      <3>7. frames'[1].at = s + 1 BY <2>3, <2>5, <2>9 DEF s
      <3>8. Outermost' = Stand(prog, s + 1) BY <1>1, <2>5, <3>5, <3>7
      <3>9. Outermost' \in B!Successors(s)
        <4>1. prog[s] \notin Loops \cup Branches \cup Returns \cup {"break", "skip"}
          BY <3>3 DEF Calls, Loops, Branches, Returns
        <4> QED BY <1>1, <3>3, <3>4, <3>8, <4>1, GoesOn
      <3>10. s \in B!Statements BY <1>1, <3>3, <3>4, BlocksAre
      <3>11. B!Step BY <3>6, <3>9, <3>10 DEF B!Step
      <3> QED BY <1>1, <2>7, <3>11 DEF B!Next
    <2> QED BY <2>8, <2>9
  <1> QED BY <1>4, <1>5

LEMMA OuterNext ==
    OuterInv /\ [Next]_vars => [B!Next]_<<prog, Outermost>> /\ Waiting' /\ Chained(prog)'
  <1> SUFFICES ASSUME OuterInv, [Next]_vars
               PROVE  [B!Next]_<<prog, Outermost>> /\ Waiting' /\ Chained(prog)'
    OBVIOUS
  <1>1. UNCHANGED code BY DEF Next, vars
  <1>2. Chained(prog)' BY <1>1 DEF OuterInv, code
  <1>3. CASE CallFromMain
    <2>1. PICK passed \in BOOLEAN : Call(Main, passed) BY <1>3 DEF CallFromMain
    <2> QED BY <1>1, <1>2, <1>3, <2>1, OuterCall DEF Sites, CallFromMain
  <1>4. CASE Execute /\ frames # <<>> /\ Here \in DOMAIN prog
    <2>1. CASE Command \/ Jump \/ Test \/ Fail \/ AssignLocal \/ For \/ ForEach
      BY <1>1, <1>2, <1>4, <2>1, OuterPhrases
    <2>2. CASE CallFromPhrase
      <3>1. PICK passed \in BOOLEAN : Call(Here, passed) BY <2>2 DEF CallFromPhrase
      <3>2. Here \in Sites BY <1>4 DEF Sites
      <3> QED BY <1>1, <1>2, <1>4, <3>1, <3>2, OuterCall
    <2> QED BY <1>4, <2>1, <2>2 DEF Execute
  <1>5. CASE Leave /\ frames # <<>> BY <1>1, <1>2, <1>5, OuterLeave
  <1>6. CASE UNCHANGED vars BY <1>1, <1>2, <1>6, OuterStays DEF vars
  <1> QED BY <1>3, <1>4, <1>5, <1>6 DEF Next

\* Every routine that is written as nested blocks executes as nested blocks,
\* whatever activations of itself it calls in between: the table of jumps that
\* the parser leaves takes the outermost activation from each statement to one
\* that the blocks around it give, in and out of loops, along a chain of
\* branches, behind a yield and out of the routine.
THEOREM RoutinesFollowBlocks ==
    ASSUME \A p \in Progs : Braced(p) /\ Chained(p)
    PROVE  Spec => ImplementsBlocks
  <1>1. Init => OuterInv /\ B!Init
    <2>1. SUFFICES ASSUME Init PROVE OuterInv /\ B!Init OBVIOUS
    <2>2. frames = <<>> /\ prog \in Progs BY <2>1 DEF Init
    <2>3. Chained(prog) /\ Waiting BY <2>2 DEF Waiting
    <2>4. B!Init BY <2>2 DEF B!Init, B!Rest, Outermost
    <2> QED BY <2>1, <2>3, <2>4, InitHolds, InitRounds DEF OuterInv
  <1>2. OuterInv /\ [Next]_vars => OuterInv'
    BY OuterNext, NextKeeps, NextRounds DEF OuterInv
  <1>3. OuterInv /\ [Next]_vars => [B!Next]_<<prog, Outermost>> BY OuterNext
  <1> QED BY <1>1, <1>2, <1>3, PTL DEF Spec, ImplementsBlocks, B!Spec

=============================================================================

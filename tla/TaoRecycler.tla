---------------------------- MODULE TaoRecycler ----------------------------
(***************************************************************************)
(* The object heap of the Tao interpreter and its garbage collector        *)
(* (tao/src/taoRecycler.cpp, taoDatatype.cpp, taoObject.cpp).              *)
(*                                                                         *)
(* Every counted pointer of the interpreter is a SLOT.  Root slots are the *)
(* contents of the variables (Var), the temporaries that the syntax tree   *)
(* keeps through TaoTryAllocator (Temp) and the entries of a TaoGcAgent    *)
(* (Agent).  An object owns one slot per position of its elements, a "sub" *)
(* slot (TaoArray::subArray, TaoHash::subHash, TaoObject::supObject) and a *)
(* "ref" slot (TaoReference::content, the data member of a TaoObject).     *)
(*                                                                         *)
(* The program (phase "run") and the collector (phases "scan", "mark" and  *)
(* "delete") share one thread: recycleGarbage runs to its end between two  *)
(* operations of the program.  It is split here into one step for each     *)
(* turn of its loops, so that what a turn relies on can be stated.         *)
(***************************************************************************)
EXTENDS Integers, FiniteSets, Sequences

CONSTANTS
    Obj,            \* addresses at which an object may live
    Null,           \* the null pointer
    Var,            \* variables: TaoReference objects of a routine or namespace
    Temp,           \* temporaries of the syntax tree, see TaoTryAllocator
    Agent,          \* places in TaoGcAgent::newObjects (a bound on its length)
    Pos,            \* positions or keys of the elements of a container
    Kinds,          \* kinds of container the program uses
    NullStores,     \* does the program store null into array elements?
    SubIndexing,    \* does the program take sub-arrays and sub-hashes?
    RhsCalls,       \* may a right-hand side run code between the left-hand
                    \* side's evaluation and the store?
    MaxCandidates,  \* the thresholds of tryInvoke: 1000, 10 and 1000000
    MaxZeroRC,
    MaxNewed

Label == Pos \cup {"sub", "ref"}
Cells == Var \cup Temp \cup Agent

VARIABLES
    ptr,            \* the pointer each slot holds
    alive,          \* allocated objects
    kind,           \* TaoBase::rtti of each object
    refCount,       \* TaoBase::refCount
    scanned,        \* TaoBase::scanned
    rootCandidates, \* TaoRecycler::rootCandidates
    nObjWithZeroRC, \* TaoRecycler::nObjWithZeroRC
    nObjNewed,      \* TaoRecycler::nObjNewed
    phase,          \* "run", or the loop of recycleGarbage that is executing
    i,              \* index of that loop
    objAlive,       \* TaoRecycler::objAlive
    k,              \* index of the loop of markLiveObjects
    size,           \* rootCandidates.size() once the scan is over
    lhs,            \* result of a left-hand side's chain, not counted
    corrupt         \* has a freed object been touched?

\* The heap of the program: slots, reachability, and the abstract specification.
Heap == INSTANCE TaoHeap WITH
    ptr <- ptr, alive <- alive, Obj <- Obj, Null <- Null, Cells <- Cells, Label <- Label
Slot == Heap!Slot
Owned(O) == Heap!Owned(O)
Targets(S) == Heap!Targets(ptr, S)
Reachable == Heap!Reachable

ASSUME HeapAssumption ==
    /\ IsFiniteSet(Slot)
    /\ IsFiniteSet(Obj)
    /\ Null \notin Obj
    /\ Cells \cap Owned(Obj) = {}
    /\ Agent \cap (Var \cup Temp) = {}
    /\ Pos \cap {"sub", "ref"} = {}
    /\ Kinds \subseteq {"Array", "Hash", "Object"}
    /\ {NullStores, RhsCalls, SubIndexing} \subseteq BOOLEAN
    /\ {MaxCandidates, MaxZeroRC, MaxNewed} \subseteq Nat

heapVars == <<ptr, alive, kind>>
countVars == <<refCount, scanned, rootCandidates, nObjWithZeroRC>>
loopVars == <<phase, i, objAlive, k, size>>
vars == <<heapVars, countVars, nObjNewed, loopVars, lhs, corrupt>>

-----------------------------------------------------------------------------
\* Reference counting

\* How many slots of S hold a pointer to x.
Refs(p, x, S) == Cardinality({s \in S : p[s] = x})

Members(q) == {q[j] : j \in 1..Len(q)}
Distinct(q) == \A a, b \in 1..Len(q) : q[a] = q[b] => a = b

\* The orders in which a loop may meet the members of a set.
Orders(S) == {q \in [1..Cardinality(S) -> S] :
                \A a, b \in 1..Cardinality(S) : q[a] = q[b] => a = b}

\* Counters that are only compared with a threshold stop one above it.
Capped(n, max) == IF n > max THEN max + 1 ELSE n

Dangling(S) == \E s \in S : ptr[s] \notin alive \cup {Null}

\* The slots of S get new contents: the old objects lose, the new ones gain.
Recount(S) == refCount' = [x \in Obj |-> refCount[x] - Refs(ptr, x, S)
                                                      + Refs(ptr', x, S)]

\* Mutant: the flag is forgotten.
EnqueueUnflagged(new, zero) ==
    /\ UNCHANGED scanned
    /\ \E q \in Orders(new) : rootCandidates' = rootCandidates \o q
    /\ nObjWithZeroRC' = Capped(nObjWithZeroRC + Cardinality(zero), MaxZeroRC)

\* Objects of `new' are appended to rootCandidates and flagged; those of
\* `zero' are counted as having no reference left.
Enqueue(new, zero) ==
    /\ scanned' = [x \in Obj |-> scanned[x] \/ x \in new]
    /\ \E q \in Orders(new) : rootCandidates' = rootCandidates \o q
    /\ nObjWithZeroRC' = Capped(nObjWithZeroRC + Cardinality(zero), MaxZeroRC)

\* Mutant: plain reference counting, only what drops to zero is a candidate.
PushZeroCandidates(c, S) ==
    LET new == {x \in Targets(S) : ~scanned[x] /\ c[x] = 1}
    IN  /\ Enqueue(new, new)
        /\ corrupt' = (corrupt \/ Dangling(S))

\* pushRootCandidate for each pointer in the slots of S, when the counts are
\* those of c: the decrements are in Recount, or in the caller.
PushRootCandidates(c, S) ==
    LET new == {x \in Targets(S) : ~scanned[x]}
    IN  /\ Enqueue(new, {x \in new : c[x] = 1})
        /\ corrupt' = (corrupt \/ Dangling(S))

Incremented(x) == [y \in Obj |-> IF y = x THEN refCount[y] + 1 ELSE refCount[y]]

-----------------------------------------------------------------------------
Elements(o) == {o} \X Pos
Running == phase = "run" /\ ~corrupt

\* The object that operator new returns, and what its constructor sets.
Fresh(O) == /\ O \cap alive = {}
            /\ alive' = alive \cup O
            /\ nObjNewed' = Capped(nObjNewed + Cardinality(O), MaxNewed)

\* TaoAssign::assign on a reference, and the step of a foreach loop.
Assign(s, x) ==
    /\ ptr' = [ptr EXCEPT ![s] = x]
    /\ Recount({s})
    /\ PushRootCandidates(IF x = Null THEN refCount ELSE Incremented(x), {s})
    /\ UNCHANGED <<alive, kind, nObjNewed, loopVars, lhs>>

\* Mutant: the element that is added is not counted.
InsertUncounted(a, p, x) ==
    /\ ptr[<<a, p>>] = Null
    /\ ptr' = [ptr EXCEPT ![<<a, p>>] = x]
    /\ UNCHANGED <<alive, kind, countVars, nObjNewed, loopVars, lhs, corrupt>>

\* TaoArray::append, TaoArray::insert and TaoHash::insert of a new key.
Insert(a, p, x) ==
    /\ ptr[<<a, p>>] = Null
    /\ ptr' = [ptr EXCEPT ![<<a, p>>] = x]
    /\ Recount({<<a, p>>})
    /\ UNCHANGED <<alive, kind, scanned, rootCandidates,
                   nObjWithZeroRC, nObjNewed, loopVars, lhs, corrupt>>

\* TaoArray::replace.  A null object is not stored, yet the count of the
\* element that stays is decremented (a bound: not below zero, though the code
\* would go on).
Replace(a, p, x) ==
    /\ ptr[<<a, p>>] # Null
    /\ IF x = Null
         THEN /\ NullStores /\ refCount[ptr[<<a, p>>]] > 0
              /\ refCount' = [refCount EXCEPT ![ptr[<<a, p>>]] = @ - 1]
              /\ UNCHANGED ptr
         ELSE /\ ptr' = [ptr EXCEPT ![<<a, p>>] = x]
              /\ Recount({<<a, p>>})
    /\ PushRootCandidates(refCount, {<<a, p>>})
    /\ UNCHANGED <<alive, kind, nObjNewed, loopVars>>

\* TaoHash::insert on a key that is present.
HashReplace(h, p, x) ==
    /\ ptr[<<h, p>>] # Null
    /\ ptr' = [ptr EXCEPT ![<<h, p>>] = x]
    /\ Recount({<<h, p>>})
    /\ PushRootCandidates(Incremented(x), {<<h, p>>})
    /\ UNCHANGED <<alive, kind, nObjNewed, loopVars, lhs>>

\* TaoArray::erase (one position), TaoArray::clear and TaoHash::clear (all).
Erase(S) ==
    /\ ptr' = [s \in Slot |-> IF s \in S THEN Null ELSE ptr[s]]
    /\ Recount(S)
    /\ PushRootCandidates(refCount, S)
    /\ UNCHANGED <<alive, kind, nObjNewed, loopVars, lhs>>

\* TaoTryAllocator::tryAllocate on the slot s, and the clear() that each of
\* its callers runs next.  The object is used again when nobody else refers
\* to it, and given up to a new one, o, when somebody does.
Reuse(s) ==
    /\ ptr[s] # Null
    /\ refCount[ptr[s]] <= 1
    /\ Erase(Elements(ptr[s]))

Renew(s, o, t) ==
    /\ ptr[s] # Null => refCount[ptr[s]] > 1 /\ t = kind[ptr[s]]
    /\ Fresh({o})
    /\ kind' = [kind EXCEPT ![o] = t]
    /\ ptr' = [ptr EXCEPT ![s] = o]
    /\ Recount({s})
    /\ PushRootCandidates(refCount, {s})
    /\ UNCHANGED <<loopVars, lhs>>

\* new TaoObject, when the references in the slots of S are counted.
MakeObject(g, o, r, q, S) ==
    LET O == {o, r, q} \ {Null}
    IN  /\ "Object" \in Kinds
        /\ o # r /\ o # q /\ r # q
        /\ ptr[g] = Null
        /\ Fresh(O)
        /\ kind' = [x \in Obj |-> IF x = r THEN "Reference"
                                  ELSE IF x \in {o, q} THEN "Object" ELSE kind[x]]
        /\ ptr' = [ptr EXCEPT ![g] = o, ![<<o, "ref">>] = r, ![<<o, "sub">>] = q]
        /\ Recount(S)
        /\ UNCHANGED <<scanned, rootCandidates, nObjWithZeroRC, loopVars, lhs, corrupt>>

\* Mutants: the gcAgent, or the derived object, keeps a pointer uncounted.
NewObjectAgentUncounted(g, o, r, q) ==
    MakeObject(g, o, r, q, {<<o, "ref">>, <<o, "sub">>})
NewObjectSuperUncounted(g, o, r, q) ==
    MakeObject(g, o, r, q, {g, <<o, "ref">>})

\* The object o, the reference r of its data member and, for a derived class,
\* the object q of the super-class: each is counted, and o by the gcAgent too.
NewObject(g, o, r, q) ==
    MakeObject(g, o, r, q, {g, <<o, "ref">>, <<o, "sub">>})

\* TaoGcAgent::clearNewObjects: only what drops to zero becomes a candidate.
ClearNewObjects ==
    LET new == {x \in Targets(Agent) :
                  ~scanned[x] /\ refCount[x] = Refs(ptr, x, Agent)}
    IN  /\ Targets(Agent) # {}
        /\ ptr' = [s \in Slot |-> IF s \in Agent THEN Null ELSE ptr[s]]
        /\ Recount(Agent)
        /\ Enqueue(new, new)
        /\ corrupt' = (corrupt \/ Dangling(Agent))
        /\ UNCHANGED <<alive, kind, nObjNewed, loopVars, lhs>>

\* TaoAssign::execute evaluates the left-hand side first and keeps a plain
\* pointer to the container while the right-hand side is computed.
EvalLeft(a) ==
    /\ RhsCalls
    /\ lhs = Null
    /\ lhs' = a
    /\ UNCHANGED <<heapVars, countVars, nObjNewed, loopVars, corrupt>>

StoreLeft(p, x) ==
    /\ lhs # Null
    /\ lhs' = Null
    /\ \/ lhs \in alive /\ Replace(lhs, p, x)
       \/ /\ lhs \notin alive
          /\ corrupt' = TRUE
          /\ UNCHANGED <<heapVars, countVars, nObjNewed, loopVars>>

-----------------------------------------------------------------------------
\* TaoRecycler::tryInvoke and the loops of recycleGarbage

\* A bound: once the destructor of a hash has made a count negative, every
\* further collection would lower it, so there is none.
TryInvoke ==
    /\ Running /\ \A x \in Obj : refCount[x] >= 0
    /\ \/ Len(rootCandidates) > MaxCandidates
       \/ nObjWithZeroRC > MaxZeroRC
       \/ nObjNewed > MaxNewed
    /\ phase' = "scan"
    /\ i' = 1
    /\ UNCHANGED <<heapVars, countVars, nObjNewed, objAlive, k, size, lhs, corrupt>>

\* The slots of c that a visit counts.  scan_member_data skips the pointer to
\* the super-object when that object is flagged already.
Visited(c) ==
    IF kind[c] = "Object" /\ ptr[<<c, "sub">>] \in Obj /\ scanned[ptr[<<c, "sub">>]]
      THEN Owned({c}) \ {<<c, "sub">>}
      ELSE Owned({c})

\* One turn of scanForCandidates: trial deletion of the references c holds.
ScanStep ==
    LET c == rootCandidates[i]
        S == Visited(c)
    IN  /\ phase = "scan" /\ ~corrupt
        /\ i <= Len(rootCandidates)
        /\ refCount' = [x \in Obj |-> refCount[x] - Refs(ptr, x, S)]
        /\ PushRootCandidates(refCount, S)
        /\ i' = i + 1
        /\ UNCHANGED <<heapVars, nObjNewed, phase, objAlive, k, size, lhs>>

\* Mutants: the loop starts one too early; the flags are not reset.
ScanDoneEarly ==
    /\ phase = "scan" /\ ~corrupt
    /\ i > Len(rootCandidates)
    /\ scanned' = [x \in Obj |-> scanned[x] /\ x \notin Members(rootCandidates)]
    /\ phase' = "mark"
    /\ i' = 0
    /\ size' = Len(rootCandidates)
    /\ objAlive' = <<>>
    /\ k' = 1
    /\ UNCHANGED <<heapVars, refCount, rootCandidates, nObjWithZeroRC,
                   nObjNewed, lhs, corrupt>>
ScanDoneFlagged ==
    /\ phase = "scan" /\ ~corrupt
    /\ i > Len(rootCandidates)
    /\ phase' = "mark"
    /\ i' = 1
    /\ size' = Len(rootCandidates)
    /\ objAlive' = <<>>
    /\ k' = 1
    /\ UNCHANGED <<heapVars, countVars, nObjNewed, lhs, corrupt>>

\* The scan is over: the flags of the candidates are reset.
ScanDone ==
    /\ phase = "scan" /\ ~corrupt
    /\ i > Len(rootCandidates)
    /\ scanned' = [x \in Obj |-> scanned[x] /\ x \notin Members(rootCandidates)]
    /\ phase' = "mark"
    /\ i' = 1
    /\ size' = Len(rootCandidates)
    /\ objAlive' = <<>>
    /\ k' = 1
    /\ UNCHANGED <<heapVars, refCount, rootCandidates, nObjWithZeroRC,
                   nObjNewed, lhs, corrupt>>

\* Mutant: the loop stays at a candidate that is not a root.
MarkRootStays ==
    /\ phase = "mark" /\ ~corrupt
    /\ k > Len(objAlive)
    /\ i <= size
    /\ LET c == rootCandidates[i]
       IN  /\ refCount[c] > 0 /\ ~scanned[c]
           /\ scanned' = [scanned EXCEPT ![c] = TRUE]
           /\ objAlive' = <<c>>
    /\ k' = 1
    /\ i' = i + 1
    /\ UNCHANGED <<heapVars, refCount, rootCandidates, nObjWithZeroRC,
                   nObjNewed, phase, size, lhs, corrupt>>

\* The call of markLiveObjects on a candidate that is referred to from
\* outside the candidates.
MarkRoot ==
    /\ phase = "mark" /\ ~corrupt
    /\ k > Len(objAlive)
    /\ i <= size
    /\ LET c == rootCandidates[i]
       IN  IF refCount[c] > 0 /\ ~scanned[c]
             THEN /\ scanned' = [scanned EXCEPT ![c] = TRUE]
                  /\ objAlive' = <<c>>
             ELSE /\ objAlive' = <<>>
                  /\ UNCHANGED scanned
    /\ k' = 1
    /\ i' = i + 1
    /\ UNCHANGED <<heapVars, refCount, rootCandidates, nObjWithZeroRC,
                   nObjNewed, phase, size, lhs, corrupt>>

\* pushAliveObject for the pointers in the slots of S; `next' are followed.
PushAliveObjects(S, next) ==
    /\ phase = "mark" /\ ~corrupt
    /\ k <= Len(objAlive)
    /\ refCount' = [x \in Obj |-> refCount[x] + Refs(ptr, x, S)]
    /\ scanned' = [x \in Obj |-> scanned[x] \/ x \in next]
    /\ \E q \in Orders(next) : objAlive' = objAlive \o q
    /\ corrupt' = (corrupt \/ Dangling(S))
    /\ k' = k + 1
    /\ UNCHANGED <<heapVars, rootCandidates, nObjWithZeroRC, nObjNewed,
                   phase, i, size, lhs>>

\* Mutants: what a live object holds is not followed; sub-arrays are forgotten.
MarkStepShallow == PushAliveObjects(Visited(objAlive[k]), {})
MarkStepNoSub ==
    LET S == Visited(objAlive[k]) \ {<<objAlive[k], "sub">>}
    IN  PushAliveObjects(S, {x \in Targets(S) : ~scanned[x]})

\* One turn of markLiveObjects: what a live object holds is alive.
MarkStep ==
    LET S == Visited(objAlive[k])
    IN  PushAliveObjects(S, {x \in Targets(S) : ~scanned[x]})

MarkDone ==
    /\ phase = "mark" /\ ~corrupt
    /\ k > Len(objAlive)
    /\ i > size
    /\ phase' = "delete"
    /\ i' = 1
    /\ objAlive' = <<>>
    /\ k' = 1
    /\ UNCHANGED <<heapVars, countVars, nObjNewed, size, lhs, corrupt>>

\* One turn of the last loop: a candidate that nothing refers to is deleted.
\* The destructor of a hash calls clear(), which decrements the counts of its
\* elements once more; no other destructor touches a count.
DeleteStep ==
    LET c == rootCandidates[i]
        S == IF kind[c] = "Hash" THEN Elements(c) ELSE {}
        new == {x \in Targets(S) : x = c \/ ~scanned[x]}
    IN  /\ phase = "delete" /\ ~corrupt
        /\ i <= size
        /\ i' = i + 1
        /\ \/ /\ refCount[c] # 0
              /\ scanned' = [scanned EXCEPT ![c] = FALSE]
              /\ UNCHANGED <<heapVars, refCount, rootCandidates, nObjWithZeroRC, corrupt>>
           \/ /\ refCount[c] = 0
              /\ alive' = alive \ {c}
              /\ ptr' = [s \in Slot |-> IF s \in Owned({c}) THEN Null ELSE ptr[s]]
              /\ refCount' = [x \in Obj |-> IF x = c THEN 0
                                            ELSE refCount[x] - Refs(ptr, x, S)]
              /\ scanned' = [x \in Obj |-> x # c /\ (scanned[x] \/ x \in new)]
              /\ \E q \in Orders(new) : rootCandidates' = rootCandidates \o q
              /\ nObjWithZeroRC' =
                   Capped(nObjWithZeroRC + Cardinality({x \in new : refCount[x] = 1}),
                          MaxZeroRC)
              /\ corrupt' = (corrupt \/ c \notin alive \/ Dangling(S))
              /\ UNCHANGED kind
        /\ UNCHANGED <<nObjNewed, phase, objAlive, k, size, lhs>>

DeleteDone ==
    /\ phase = "delete" /\ ~corrupt
    /\ i > size
    /\ phase' = "run"
    /\ rootCandidates' = <<>>
    /\ nObjWithZeroRC' = 0
    /\ nObjNewed' = 0
    /\ i' = 1
    /\ UNCHANGED <<heapVars, refCount, scanned, objAlive, k, size, lhs, corrupt>>

-----------------------------------------------------------------------------
\* What the program can store: variables and members are dereferenced first
\* (getResult), and no expression yields a super-object.
Supers == {x \in Obj : \E o \in Obj : kind[o] = "Object" /\ ptr[<<o, "sub">>] = x}
Values(R) == {x \in R : kind[x] # "Reference"} \ Supers

\* An object that only a gcAgent holds is named once, by the call that made
\* it: a statement cannot use it both as its target and as its value.
Together(r, x) ==
    x \in Obj => \E s, t \in Cells : /\ s # t \/ s \notin Agent
                                     /\ r \in Heap!From(ptr, {s})
                                     /\ x \in Heap!From(ptr, {t})
Containers(R, K) == {a \in R : kind[a] \in K}

Program ==
    /\ Running
    /\ LET R == Reachable
           Value == Values(R)
           Array == Containers(R, {"Array"})
           Hash == Containers(R, {"Hash"})
           Member == Containers(R, {"Reference"})
       IN  \/ \E v \in Var, x \in Value \cup {Null} : Assign(v, x)
           \/ \E r \in Member, x \in Value \cup {Null} :
                Together(r, x) /\ Assign(<<r, "ref">>, x)
           \/ \E a \in Array \cup Hash, p \in Pos, x \in Value : Insert(a, p, x)
           \/ \E a \in Array, p \in Pos, x \in Value \cup {Null} :
                Replace(a, p, x) /\ UNCHANGED lhs
           \/ \E h \in Hash, p \in Pos, x \in Value : HashReplace(h, p, x)
           \/ \E a \in Array, p \in Pos : Erase({<<a, p>>})
           \/ \E a \in Array \cup Hash : Erase(Elements(a))
           \/ \E s \in Temp : Reuse(s)
           \/ \E s \in Temp, o \in Obj, t \in Kinds \ {"Object"} : Renew(s, o, t)
           \/ \E a \in Array \cup Hash : SubIndexing /\ Reuse(<<a, "sub">>)
           \/ \E a \in Array \cup Hash, o \in Obj :
                SubIndexing /\ Renew(<<a, "sub">>, o, kind[a])
           \/ \E g \in Agent, o, r \in Obj, q \in Obj \cup {Null} : NewObject(g, o, r, q)
           \/ ClearNewObjects
           \/ \E a \in Array : EvalLeft(a)
           \/ \E p \in Pos, x \in Value \cup {Null} : StoreLeft(p, x)

Collector ==
    ScanStep \/ ScanDone \/ MarkRoot \/ MarkStep \/ MarkDone \/ DeleteStep \/ DeleteDone

Init ==
    /\ ptr = [s \in Slot |-> Null]
    /\ alive = {}
    /\ kind \in [Obj -> {"Array"}]
    /\ refCount = [x \in Obj |-> 0]
    /\ scanned = [x \in Obj |-> FALSE]
    /\ rootCandidates = <<>>
    /\ nObjWithZeroRC = 0
    /\ nObjNewed = 0
    /\ phase = "run"
    /\ i = 1 /\ k = 1 /\ size = 0
    /\ objAlive = <<>>
    /\ lhs = Null
    /\ corrupt = FALSE

Next == Program \/ TryInvoke \/ Collector

\* The collector runs on the interpreter's only thread: once it has started,
\* nothing else does until recycleGarbage returns.
Spec == Init /\ [][Next]_vars /\ WF_vars(Collector)

-----------------------------------------------------------------------------
TypeOK ==
    /\ ptr \in [Slot -> Obj \cup {Null}]
    /\ alive \subseteq Obj
    /\ kind \in [Obj -> {"Array", "Hash", "Object", "Reference"}]
    /\ refCount \in [Obj -> Int]
    /\ scanned \in [Obj -> BOOLEAN]
    /\ rootCandidates \in Seq(Obj)
    /\ nObjWithZeroRC \in Nat /\ nObjNewed \in Nat
    /\ phase \in {"run", "scan", "mark", "delete"}
    /\ i \in Nat \ {0} /\ k \in Nat \ {0} /\ size \in Nat
    /\ objAlive \in Seq(Obj)
    /\ lhs \in Obj \cup {Null}
    /\ corrupt \in BOOLEAN

\* No operation of the program and no loop of the collector reads or writes
\* an object after its deletion, and none is deleted twice.
NoFreedAccess == ~corrupt

\* Between collections no slot, whether of the program or of an object that
\* survived, points to freed memory.
NoDangling == phase = "run" => ~Dangling(Slot)

\* Between collections every reference count is the number of slots that
\* refer to the object: trial deletion and marking undo each other exactly.
CountsExact == phase = "run" => \A x \in alive : refCount[x] = Refs(ptr, x, Slot)

\* "Scanned" says that an object is in rootCandidates, once: otherwise it is
\* enqueued twice and deleted twice, or never enqueued again.
FlagsMatchCandidates ==
    phase = "run" =>
        /\ \A x \in alive : scanned[x] <=> x \in Members(rootCandidates)
        /\ Distinct(rootCandidates)

\* The collector deletes only what no path of pointers from a root leads to,
\* and the program's steps are those of the abstract heap.
ImplementsHeap == Heap!Spec

\* When a collection ends, every object left is reachable: cycles included.
CollectsAllGarbage == [][DeleteDone => alive \subseteq Reachable]_vars

\* A collection that has started comes to its end, unless memory is corrupted.
CollectionEnds == (phase # "run") ~> (phase = "run" \/ corrupt)

-----------------------------------------------------------------------------
\* The inductive invariant

\* Programs that stay clear of hashes, of null stores and of calls between a
\* left-hand side and its store (see README, findings).
CountingProgram == "Hash" \notin Kinds /\ ~NullStores /\ ~RhsCalls

\* Instances leak when a cycle goes through a gcAgent.
ArrayProgram == CountingProgram /\ Kinds = {"Array"}

Cand == Members(rootCandidates)
Prefix(n) == {rootCandidates[j] : j \in 1..n}
Pending == {objAlive[j] : j \in k..Len(objAlive)}
Dead == {x \in Cand : refCount[x] = 0}

\* The objects whose own references are, at this moment, taken off the counts.
Discounted ==
    CASE phase = "run" -> {}
      [] phase = "scan" -> Prefix(i - 1)
      [] phase = "mark" -> Cand \ {x \in Obj : scanned[x] /\ x \notin Pending}
      [] phase = "delete" -> Dead

CountInv == \A x \in Obj : refCount[x] = Refs(ptr, x, Slot \ Owned(Discounted))

PtrInv ==
    /\ \A s \in Slot : (phase = "delete" => s \notin Owned(Dead)) =>
                          ptr[s] \in alive \cup {Null}
    /\ \A s \in Owned(Obj \ alive) : ptr[s] = Null

\* Only its own instance refers to an object of a super-class, so that the
\* loops reach it after the instance and never leave its slot out.
SuperInv ==
    \A o, q \in Obj : kind[o] = "Object" /\ ptr[<<o, "sub">>] = q =>
        /\ \A s \in Slot : ptr[s] = q => s = <<o, "sub">>
        /\ phase = "run" => ~scanned[q]
        /\ phase = "scan" => (scanned[q] => o \in Prefix(i - 1))
        /\ phase = "mark" => /\ q \in Cand => o \in Cand
                             /\ scanned[q] => scanned[o] /\ o \notin Pending

RunInv == phase = "run" =>
    /\ \A x \in Obj : scanned[x] <=> x \in Cand
    /\ Cand \subseteq alive

ScanInv == phase = "scan" =>
    /\ \A x \in Obj : scanned[x] <=> x \in Cand
    /\ Cand \subseteq alive
    /\ i <= Len(rootCandidates) + 1
    /\ \A s \in Owned(Prefix(i - 1)) : ptr[s] \in Cand \cup {Null}

MarkInv == phase = "mark" =>
    /\ Cand \subseteq alive
    /\ size = Len(rootCandidates)
    /\ i <= size + 1
    /\ Distinct(objAlive)
    /\ \A s \in Owned(Cand) : ptr[s] \in Cand \cup {Null}
    /\ \A x \in Obj : scanned[x] => x \in Cand /\ refCount[x] > 0
    /\ \A x \in Members(objAlive) : scanned[x]
    /\ \A x \in Prefix(i - 1) : refCount[x] = 0 \/ scanned[x]

DeleteInv == phase = "delete" =>
    /\ size = Len(rootCandidates)
    /\ i <= size + 1
    /\ \A j \in 1..size :
         rootCandidates[j] \in alive <=> (j >= i \/ refCount[rootCandidates[j]] # 0)
    /\ \A x \in Obj : scanned[x] => \E j \in i..size : x = rootCandidates[j]

IndInv ==
    /\ TypeOK
    /\ ~corrupt /\ lhs = Null
    /\ \A x \in Obj : kind[x] # "Hash"
    /\ Distinct(rootCandidates)
    /\ CountInv /\ PtrInv /\ SuperInv
    /\ RunInv /\ ScanInv /\ MarkInv /\ DeleteInv

\* What the collector has yet to find is not lost: whatever is allocated is led
\* to from a root or a candidate, then is reachable or a candidate, and at last
\* reachable or dead.
GarbageInv ==
    /\ \A s \in Agent : ptr[s] = Null
    /\ phase \in {"run", "scan"} =>
         \A S \in SUBSET Obj :
           Targets(Cells) \cup Cand \subseteq S /\ Heap!Closed(ptr, S) => alive \subseteq S
    /\ phase = "mark" =>
         /\ alive \subseteq Reachable \cup Cand
         /\ \A x \in Obj : scanned[x] => x \in Reachable
    /\ phase = "delete" => alive \subseteq Reachable \cup Dead

=============================================================================

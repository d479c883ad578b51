----------------------- MODULE ProducerConsumerProofs -----------------------
(***************************************************************************)
(* The list between main and the second thread of cond.c implements the    *)
(* stack of Pool, for any number of nodes and any addresses malloc gives   *)
(* out.  What the invariant says beside the types and the mutex is that    *)
(* there is a path of distinct nodes from head to NULL, and which nodes    *)
(* are not on it: the one main is about to push and the one the second     *)
(* thread is about to free.                                                *)
(***************************************************************************)
EXTENDS ProducerConsumer, SequenceTheorems, WellFoundedInduction, TLAPS

\* What main has made, and what the second thread has in hand, as Pool has it.
Made == i + (IF main \in {"signal", "unlock", "sleep"} THEN 1 ELSE 0)
Hand == IF second = "print" THEN n_number[sp] ELSE -1

MainLabels   == {"malloc", "lock", "link", "push", "signal", "unlock", "sleep", "join", "done"}
SecondLabels == {"lock", "test", "wait", "woken", "unlink", "print", "free", "unlock", "cleanup", "dead"}

Types ==
    /\ Nodes \subseteq Address
    /\ n_number \in [Nodes -> 0 .. N - 1]
    /\ n_next \in [Nodes -> Address \cup {NULL}]
    /\ main \in MainLabels /\ second \in SecondLabels
    /\ i \in 0 .. N /\ (main \notin {"malloc", "join", "done"} => i < N)

\* The mutex is with the thread that is between its lock and its unlock.
Mutex ==
    /\ mtx = "main" <=> main \in {"link", "push", "signal", "unlock"}
    /\ mtx = "second" <=> second \in {"test", "unlink", "print", "free", "unlock", "cleanup"}

\* q is the path from head, of n nodes.
Path(n, q) ==
    /\ \A k, m \in 1 .. n : q[k] = q[m] => k = m
    /\ head = IF n = 0 THEN NULL ELSE q[1]
    /\ \A k \in 1 .. n : q[k] \in Nodes /\ n_next[q[k]] = IF k = n THEN NULL ELSE q[k + 1]

\* The node that main fills, and the node that the second thread has popped,
\* are allocated, apart from the list and apart from each other.
Apart(n, q) ==
    /\ main \in {"lock", "link", "push"} =>
         mp \in Nodes /\ n_number[mp] = i /\ \A k \in 1 .. n : q[k] # mp
    /\ main = "push" => n_next[mp] = head
    /\ second = "unlink" => n > 0 /\ sp = head
    /\ second \in {"print", "free"} =>
         sp \in Nodes /\ (main = "lock" => mp # sp) /\ \A k \in 1 .. n : q[k] # sp

Listed(n, q) == n <= Made /\ Path(n, q) /\ Apart(n, q)

\* The steps after which the list, what is made and what is in hand are the same.
Quiet(n, q) ==
    /\ Made' = Made /\ Hand' = Hand /\ printed' = printed /\ head' = head
    /\ \A k \in 1 .. n : /\ q[k] \in Nodes' /\ n_next'[q[k]] = n_next[q[k]]
                         /\ n_number'[q[k]] = n_number[q[k]]

ListInv == Types /\ Mutex /\ \E n \in 0 .. N : \E q \in [1 .. n -> Address] : Listed(n, q)

-----------------------------------------------------------------------------
(* The numbers of the nodes on the list                                    *)

Numbers(n, q) == [k \in 1 .. n |-> n_number[q[k]]]

\* A set of natural numbers that is not empty has a least one.
LEMMA LeastOne ==
    ASSUME NEW S, S \subseteq Nat, S # {}
    PROVE  \E x \in S : \A y \in S : x <= y
  <1>1. PICK x \in S : \A y \in S : ~(<<y, x>> \in OpToRel(<, Nat))
    BY WFMin, NatLessThanWellFounded
  <1>2. \A y \in S : ~(y < x) BY <1>1 DEF OpToRel
  <1> QED BY <1>2

\* A sequence with one more element in front.
LEMMA Prepend ==
    ASSUME NEW S, NEW x \in S, NEW n \in Nat, NEW s \in [1 .. n -> S], NEW t \in [1 .. n + 1 -> S],
           t[1] = x, \A k \in 1 .. n : t[k + 1] = s[k]
    PROVE  /\ s \in Seq(S) /\ t \in Seq(S) /\ t # <<>>
           /\ <<x>> \o s = t /\ Head(t) = x /\ Tail(t) = s
  <1>1. s \in Seq(S) /\ t \in Seq(S) /\ Len(s) = n /\ Len(t) = n + 1
    <2>1. n + 1 \in Nat OBVIOUS
    <2>2. s \in Seq(S) /\ t \in Seq(S) BY <2>1, SeqDef
    <2>3. DOMAIN s = 1 .. n /\ DOMAIN t = 1 .. n + 1 OBVIOUS
    <2> QED BY <2>1, <2>2, <2>3, LenProperties
  <1>2. <<x>> \in Seq(S) /\ Len(<<x>>) = 1 /\ <<x>>[1] = x OBVIOUS
  <1>3. <<x>> \o s = t
    <2>1. /\ <<x>> \o s \in Seq(S) /\ Len(<<x>> \o s) = 1 + n
          /\ \A k \in 1 .. 1 + n : (<<x>> \o s)[k] = IF k <= 1 THEN <<x>>[k] ELSE s[k - 1]
      BY <1>1, <1>2, ConcatProperties
    <2>2. \A k \in 1 .. n + 1 : k # 1 => t[k] = s[k - 1]
      <3>1. TAKE k \in 1 .. n + 1
      <3>2. HAVE k # 1
      <3>3. k - 1 \in 1 .. n /\ (k - 1) + 1 = k BY <3>2
      <3> QED BY <3>3
    <2>3. \A k \in 1 .. n + 1 : (<<x>> \o s)[k] = t[k] BY <1>2, <2>1, <2>2
    <2> QED BY <1>1, <2>1, <2>3, SeqEqual
  <1>4. t # <<>> BY <1>1, EmptySeq
  <1>5. Head(t) = x BY <1>1, <1>4
  <1>6. Tail(t) = s
    <2>1. Tail(t) \in Seq(S) /\ Len(Tail(t)) = n /\ \A k \in 1 .. n : Tail(t)[k] = t[k + 1]
      BY <1>1, <1>4, HeadTailProperties
    <2> QED BY <1>1, <2>1, SeqEqual
  <1> QED BY <1>1, <1>3, <1>4, <1>5, <1>6

\* The function that Chain chooses exists: each level follows from the last.
LEMMA AlongExists ==
    ASSUME N \in Nat
    PROVE  \E along : /\ Chain = along[N][head]
                      /\ along = [k \in 0 .. N |->
                           [p \in Address \cup {NULL} |->
                              IF k = 0 \/ p \notin Nodes THEN <<>>
                              ELSE <<n_number[p]>> \o along[k - 1][n_next[p]]]]
  <1> DEFINE Level(k, f) == [p \in Address \cup {NULL} |->
                              IF k = 0 \/ p \notin Nodes THEN <<>>
                              ELSE <<n_number[p]>> \o f[k - 1][n_next[p]]]
             Up(m, f) == f = [k \in 0 .. m |-> Level(k, f)]
             Fails == {m \in Nat : m <= N /\ ~ \E f : Up(m, f)}
  <1>1. Fails = {}
    <2>1. SUFFICES ASSUME Fails # {} PROVE FALSE OBVIOUS
    <2>2. Fails \subseteq Nat OBVIOUS
    <2>3. PICK m \in Fails : \A y \in Fails : m <= y
      <3> HIDE DEF Fails
      <3> QED BY <2>1, <2>2, LeastOne
    <2>4. m \in Nat /\ m <= N /\ ~ \E f : Up(m, f) OBVIOUS
    <2>5. m # 0
      <3> DEFINE none == [k \in 0 .. 0 |-> [p \in Address \cup {NULL} |-> <<>>]]
      <3>1. Up(0, none) OBVIOUS
      <3> QED BY <2>4, <3>1
    <2>6. m - 1 \in Nat /\ m - 1 <= N BY <2>4, <2>5
    <2>7. PICK f : Up(m - 1, f)
      <3>1. m - 1 \notin Fails
        <4> HIDE DEF Fails
        <4> QED BY <2>3, <2>4
      <3> HIDE DEF Up
      <3> QED BY <2>6, <3>1
    <2> DEFINE g == [k \in 0 .. m |-> IF k = m THEN Level(m, f) ELSE f[k]]
    <2>8. \A k \in 0 .. m - 1 : f[k] = Level(k, f) BY <2>7
    <2>9. \A k \in 0 .. m : k # 0 => g[k - 1] = f[k - 1]
      <3>1. TAKE k \in 0 .. m
      <3>2. HAVE k # 0
      <3>3. k - 1 \in 0 .. m /\ k - 1 # m BY <2>4, <3>2
      <3> HIDE DEF Level
      <3> QED BY <3>3
    <2>10. \A k \in 0 .. m : Level(k, g) = Level(k, f) BY <2>9
    <2>11. \A k \in 0 .. m : g[k] = Level(k, g)
      <3>1. TAKE k \in 0 .. m
      <3>2. CASE k = m BY <2>10, <3>2
      <3>3. CASE k # m
        <4>1. k \in 0 .. m - 1 BY <2>4, <3>3
        <4>2. g[k] = f[k] BY <3>3
        <4> QED BY <2>8, <2>10, <4>1, <4>2
      <3> QED BY <3>2, <3>3
    <2>12. g = [k \in 0 .. m |-> g[k]] OBVIOUS
    <2> HIDE DEF g
    <2>13. Up(m, g) BY <2>11, <2>12
    <2> HIDE DEF Up
    <2> QED BY <2>4, <2>13
  <1>2. PICK f : Up(N, f)
    <2>1. N \notin Fails BY <1>1
    <2> HIDE DEF Up
    <2> QED BY <2>1
  <1>3. Chain = (CHOOSE along : Up(N, along))[N][head] BY DEF Chain
  <1> HIDE DEF Up
  <1>4. Up(N, CHOOSE along : Up(N, along)) BY <1>2
  <1> USE DEF Up
  <1> QED BY <1>3, <1>4

\* Chain is what the path says: the numbers of its nodes, in their order.
LEMMA ChainIsPath ==
    ASSUME N \in Nat, NULL \notin Address, Types,
           NEW n \in 0 .. N, NEW q \in [1 .. n -> Address], Path(n, q)
    PROVE  Chain = Numbers(n, q)
  <1> DEFINE At(j) == IF j = 0 THEN NULL ELSE q[n + 1 - j]
             Rest(j) == [m \in 1 .. j |-> n_number[q[n - j + m]]]
             Fails(f) == {j \in 0 .. n : \E k \in j .. N : f[k][At(j)] # Rest(j)}
  <1>1. PICK f : /\ Chain = f[N][head]
                 /\ f = [k \in 0 .. N |->
                           [p \in Address \cup {NULL} |->
                              IF k = 0 \/ p \notin Nodes THEN <<>>
                              ELSE <<n_number[p]>> \o f[k - 1][n_next[p]]]]
    BY AlongExists
  <1>2. \A k \in 0 .. N : \A p \in Address \cup {NULL} :
           f[k][p] = IF k = 0 \/ p \notin Nodes THEN <<>> ELSE <<n_number[p]>> \o f[k - 1][n_next[p]]
    <2>1. TAKE k \in 0 .. N
    <2>2. f[k] = [p \in Address \cup {NULL} |->
                    IF k = 0 \/ p \notin Nodes THEN <<>> ELSE <<n_number[p]>> \o f[k - 1][n_next[p]]]
      BY <1>1
    <2> QED BY <2>2
  <1>3. \A j \in 1 .. n : /\ At(j) \in Nodes /\ n_next[At(j)] = At(j - 1)
                          /\ Rest(j - 1) \in [1 .. j - 1 -> 0 .. N - 1]
                          /\ Rest(j) \in [1 .. j -> 0 .. N - 1]
                          /\ Rest(j)[1] = n_number[At(j)]
                          /\ \A m \in 1 .. j - 1 : Rest(j)[m + 1] = Rest(j - 1)[m]
    <2>1. TAKE j \in 1 .. n
    <2>2. j \in Nat /\ n \in Nat /\ j # 0 /\ n + 1 - j \in 1 .. n OBVIOUS
    <2>3. At(j) = q[n + 1 - j] BY <2>2
    <2>4. At(j) \in Nodes /\ n_next[At(j)] = IF n + 1 - j = n THEN NULL ELSE q[(n + 1 - j) + 1]
      BY <2>2, <2>3 DEF Path
    <2>5. n_next[At(j)] = At(j - 1)
      <3>1. CASE j = 1
        <4>1. At(j - 1) = NULL BY <3>1
        <4>2. n + 1 - j = n BY <3>1
        <4> QED BY <2>4, <4>1, <4>2
      <3>2. CASE j # 1
        <4>1. n + 1 - j # n /\ (n + 1 - j) + 1 = n + 1 - (j - 1) /\ j - 1 # 0 BY <2>2, <3>2
        <4>2. At(j - 1) = q[(n + 1 - j) + 1] BY <4>1
        <4> QED BY <2>4, <4>1, <4>2
      <3> QED BY <3>1, <3>2
    <2>6. \A l \in 0 .. n : Rest(l) \in [1 .. l -> 0 .. N - 1]
      <3>1. TAKE l \in 0 .. n
      <3>2. \A m \in 1 .. l : n - l + m \in 1 .. n OBVIOUS
      <3>3. \A m \in 1 .. l : n_number[q[n - l + m]] \in 0 .. N - 1 BY <3>2 DEF Path, Types
      <3> QED BY <3>3
    <2>7. j \in 0 .. n /\ j - 1 \in 0 .. n BY <2>2
    <2>8. Rest(j)[1] = n_number[At(j)]
      <3>1. 1 \in 1 .. j /\ n - j + 1 = n + 1 - j BY <2>2
      <3> QED BY <2>3, <3>1
    <2>9. \A m \in 1 .. j - 1 : Rest(j)[m + 1] = Rest(j - 1)[m]
      <3>1. TAKE m \in 1 .. j - 1
      <3>2. m + 1 \in 1 .. j /\ n - j + (m + 1) = n - (j - 1) + m BY <2>2
      <3> QED BY <3>2
    <2> HIDE DEF At, Rest
    <2> QED BY <2>4, <2>5, <2>6, <2>7, <2>8, <2>9
  <1>4. Rest(0) = <<>> /\ At(0) = NULL OBVIOUS
  <1>5. NULL \notin Nodes BY DEF Types
  <1>6. At(n) = head /\ Rest(n) = Numbers(n, q)
    <2>1. n + 1 - n = 1 /\ \A m \in 1 .. n : n - n + m = m OBVIOUS
    <2>2. At(n) = head BY <2>1 DEF Path
    <2>3. Rest(n) = Numbers(n, q) BY <2>1 DEF Numbers
    <2> QED BY <2>2, <2>3
  <1>7. \A j \in 0 .. n : At(j) \in Address \cup {NULL} BY <1>3, <1>4 DEF Types
  <1> HIDE DEF At, Rest
  <1>8. Fails(f) = {}
    <2>1. SUFFICES ASSUME Fails(f) # {} PROVE FALSE OBVIOUS
    <2>2. Fails(f) \subseteq Nat OBVIOUS
    <2>3. PICK j \in Fails(f) : \A y \in Fails(f) : j <= y
      <3> HIDE DEF Fails
      <3> QED BY <2>1, <2>2, LeastOne
    <2>4. j \in 0 .. n OBVIOUS
    <2>5. PICK k \in j .. N : f[k][At(j)] # Rest(j) OBVIOUS
    <2>6. k \in 0 .. N BY <2>4
    <2>7. f[k][At(j)] = IF k = 0 \/ At(j) \notin Nodes THEN <<>>
                        ELSE <<n_number[At(j)]>> \o f[k - 1][n_next[At(j)]]
      BY <1>2, <1>7, <2>4, <2>6
    <2>8. j # 0 BY <1>4, <1>5, <2>5, <2>7
    <2>9. j \in 1 .. n /\ j - 1 \in 0 .. n /\ k - 1 \in j - 1 .. N /\ k # 0 BY <2>4, <2>6, <2>8
    <2>10. f[k - 1][At(j - 1)] = Rest(j - 1)
      <3>1. j - 1 \notin Fails(f)
        <4> HIDE DEF Fails
        <4> QED BY <2>3, <2>4
      <3> QED BY <2>9, <3>1
    <2> HIDE DEF Fails
    <2>11. f[k][At(j)] = <<n_number[At(j)]>> \o Rest(j - 1) BY <1>3, <2>7, <2>9, <2>10
    <2>12. <<n_number[At(j)]>> \o Rest(j - 1) = Rest(j)
      <3>1. j - 1 \in Nat /\ (j - 1) + 1 = j BY <2>9
      <3>2. n_number[At(j)] \in 0 .. N - 1 BY <1>3, <2>9 DEF Types
      <3>3. /\ Rest(j - 1) \in [1 .. j - 1 -> 0 .. N - 1] /\ Rest(j) \in [1 .. (j - 1) + 1 -> 0 .. N - 1]
            /\ Rest(j)[1] = n_number[At(j)] /\ \A m \in 1 .. j - 1 : Rest(j)[m + 1] = Rest(j - 1)[m]
        BY <1>3, <2>9, <3>1
      <3> HIDE DEF At, Rest
      <3> QED BY <3>1, <3>2, <3>3, Prepend
    <2> QED BY <2>5, <2>11, <2>12
  <1>9. n \in 0 .. n /\ N \in n .. N OBVIOUS
  <1> QED BY <1>1, <1>6, <1>8, <1>9

\* So it is in the state after a step.
LEMMA ChainIsPathThen ==
    ASSUME N \in Nat, NULL \notin Address, NEW n \in 0 .. N, NEW q \in [1 .. n -> Address]
    PROVE  (Types /\ Path(n, q) => Chain = Numbers(n, q))'
  <1>1. Types /\ Path(n, q) => Chain = Numbers(n, q) BY ChainIsPath
  <1> QED BY <1>1, PTL

-----------------------------------------------------------------------------
(* The steps                                                               *)

\* The mutex is taken and given back where it should be.
LEMMA MutexStep ==
    ASSUME Types, Mutex, [Next]_vars
    PROVE  Mutex'
  <1> USE DEF Types, Mutex, MainLabels, SecondLabels
  <1>1. CASE Malloc BY <1>1 DEF Malloc, MainVars
  <1>2. CASE MainLocks BY <1>2 DEF MainLocks, Lock, MainVars
  <1>3. CASE Link BY <1>3 DEF Link, MainVars
  <1>4. CASE Push BY <1>4 DEF Push, MainVars
  <1>5. CASE Signal BY <1>5 DEF Signal
  <1>6. CASE MainUnlocks BY <1>6 DEF MainUnlocks, MainVars
  <1>7. CASE Sleep BY <1>7 DEF Sleep, MainVars
  <1>8. CASE Cancel BY <1>8 DEF Cancel
  <1>9. CASE Join BY <1>9 DEF Join, MainVars
  <1>10. CASE SecondLocks BY <1>10 DEF SecondLocks, Lock, SecondVars
  <1>11. CASE Wait BY <1>11 DEF Wait, Unlock, SecondVars
  <1>12. CASE WakeUp BY <1>12 DEF WakeUp, SecondVars
  <1>13. CASE Return BY <1>13 DEF Return, Lock, SecondVars
  <1>14. CASE Take BY <1>14 DEF Take, SecondVars
  <1>15. CASE Unlink BY <1>15 DEF Unlink, SecondVars
  <1>16. CASE Output BY <1>16 DEF Output, SecondVars
  <1>17. CASE Free BY <1>17 DEF Free
  <1>18. CASE SecondUnlocks BY <1>18 DEF SecondUnlocks, Unlock, SecondVars
  <1>19. CASE CancelledWaiting BY <1>19 DEF CancelledWaiting, Lock, SecondVars
  <1>20. CASE CancelledPrinting BY <1>20 DEF CancelledPrinting, SecondVars
  <1>21. CASE Cleanup BY <1>21 DEF Cleanup, SecondVars
  <1>22. CASE UNCHANGED vars BY <1>22 DEF vars
  <1> QED
    BY <1>1, <1>2, <1>3, <1>4, <1>5, <1>6, <1>7, <1>8, <1>9, <1>10, <1>11, <1>12, <1>13, <1>14, <1>15,
       <1>16, <1>17, <1>18, <1>19, <1>20, <1>21, <1>22 DEF Next, MainSteps, SecondSteps

\* The types hold: main fills a node that it has, and links it to the head.
LEMMA TypesStep ==
    ASSUME N \in Nat, Types, NEW n \in 0 .. N, NEW q \in [1 .. n -> Address], Listed(n, q), [Next]_vars
    PROVE  Types'
  <1> USE DEF MainLabels, SecondLabels
  <1>1. CASE Malloc
    <2>1. PICK p \in Address \ Nodes : n_number' = Put(n_number, p, i) /\ n_next' = Put(n_next, p, NULL)
      BY <1>1 DEF Malloc
    <2>2. i \in 0 .. N - 1 BY <1>1 DEF Malloc, Types
    <2>3. Nodes' = Nodes \cup {p} BY <2>1 DEF Nodes, Put
    <2>4. n_number' = [y \in Nodes \cup {p} |-> IF y = p THEN i ELSE n_number[y]]
          /\ n_next' = [y \in Nodes \cup {p} |-> IF y = p THEN NULL ELSE n_next[y]]
      BY <2>1 DEF Put, Nodes, Types
    <2>5. n_number' \in [Nodes' -> 0 .. N - 1] /\ n_next' \in [Nodes' -> Address \cup {NULL}]
      BY <2>2, <2>3, <2>4 DEF Types
    <2> QED BY <1>1, <2>3, <2>5 DEF Malloc, MainVars, Types
  <1>2. CASE MainLocks BY <1>2 DEF Types, Nodes, MainLocks, Lock, MainVars
  <1>3. CASE Link
    <2>1. mp \in Nodes /\ head \in Address \cup {NULL} BY <1>3 DEF Link, Listed, Apart, Path
    <2> QED BY <1>3, <2>1 DEF Types, Nodes, Link, MainVars
  <1>4. CASE Push BY <1>4 DEF Types, Nodes, Push, MainVars
  <1>5. CASE Signal BY <1>5 DEF Types, Nodes, Signal
  <1>6. CASE MainUnlocks BY <1>6 DEF Types, Nodes, MainUnlocks, MainVars
  <1>7. CASE Sleep BY <1>7 DEF Types, Nodes, Sleep, MainVars
  <1>8. CASE Cancel BY <1>8 DEF Types, Nodes, Cancel
  <1>9. CASE Join BY <1>9 DEF Types, Nodes, Join, MainVars
  <1>10. CASE SecondLocks BY <1>10 DEF Types, Nodes, SecondLocks, SecondVars
  <1>11. CASE Wait BY <1>11 DEF Types, Nodes, Wait, SecondVars
  <1>12. CASE WakeUp BY <1>12 DEF Types, Nodes, WakeUp, SecondVars
  <1>13. CASE Return BY <1>13 DEF Types, Nodes, Return, SecondVars
  <1>14. CASE Take BY <1>14 DEF Types, Nodes, Take, SecondVars
  <1>15. CASE Unlink BY <1>15 DEF Types, Nodes, Unlink, SecondVars
  <1>16. CASE Output BY <1>16 DEF Types, Nodes, Output, SecondVars
  <1>17. CASE Free
    <2>1. /\ n_number' = [y \in Nodes \ {sp} |-> n_number[y]] /\ Nodes' = Nodes \ {sp}
          /\ n_next' = [y \in Nodes \ {sp} |-> n_next[y]]
      BY <1>17 DEF Free, Without, Nodes, Types
    <2> QED BY <1>17, <2>1 DEF Free, Types
  <1>18. CASE SecondUnlocks BY <1>18 DEF Types, Nodes, SecondUnlocks, SecondVars
  <1>19. CASE CancelledWaiting BY <1>19 DEF Types, Nodes, CancelledWaiting, SecondVars
  <1>20. CASE CancelledPrinting BY <1>20 DEF Types, Nodes, CancelledPrinting, SecondVars
  <1>21. CASE Cleanup BY <1>21 DEF Types, Nodes, Cleanup, SecondVars
  <1>22. CASE UNCHANGED vars BY <1>22 DEF Types, Nodes, vars
  <1> QED
    BY <1>1, <1>2, <1>3, <1>4, <1>5, <1>6, <1>7, <1>8, <1>9, <1>10, <1>11, <1>12, <1>13, <1>14, <1>15,
       <1>16, <1>17, <1>18, <1>19, <1>20, <1>21, <1>22 DEF Next, MainSteps, SecondSteps

\* After a quiet step the path is the path, and Chain the chain.
LEMMA QuietStep ==
    ASSUME N \in Nat, NULL \notin Address, Types, Types',
           NEW n \in 0 .. N, NEW q \in [1 .. n -> Address], Listed(n, q), Quiet(n, q)
    PROVE  n <= Made' /\ Path(n, q)' /\ Chain' = Chain
  <1>1. Path(n, q)' BY DEF Path, Quiet, Listed
  <1>2. Chain = Numbers(n, q) BY ChainIsPath DEF Listed
  <1>3. Chain' = Numbers(n, q)' BY <1>1, ChainIsPathThen
  <1>4. Numbers(n, q)' = Numbers(n, q) BY DEF Numbers, Quiet
  <1> QED BY <1>1, <1>2, <1>3, <1>4 DEF Listed, Quiet

\* The steps of Pool, in terms of what the two threads keep.
PoolPut  == Made < N /\ Made' = Made + 1 /\ Chain' = <<Made>> \o Chain /\ UNCHANGED <<Hand, printed>>
PoolTake == /\ Chain # <<>> /\ Hand = -1
            /\ Hand' = Head(Chain) /\ Chain' = Tail(Chain) /\ UNCHANGED <<Made, printed>>
PoolShow == Hand # -1 /\ printed' = Append(printed, Hand) /\ Hand' = -1 /\ UNCHANGED <<Made, Chain>>
PoolDrop == Hand # -1 /\ Hand' = -1 /\ UNCHANGED <<Made, Chain, printed>>

Listing == \E n \in 0 .. N : \E q \in [1 .. n -> Address] : Listed(n, q)

\* The steps that touch neither the list nor what is printed.
LEMMA QuietSteps ==
    ASSUME N \in Nat, NULL \notin Address, Types, Types', Mutex, Mutex',
           NEW n \in 0 .. N, NEW q \in [1 .. n -> Address], Listed(n, q),
           \/ Malloc \/ MainLocks \/ Link \/ Signal \/ MainUnlocks \/ Sleep \/ Cancel \/ Join
           \/ SecondLocks \/ Wait \/ WakeUp \/ Return \/ Take \/ Free \/ SecondUnlocks
           \/ CancelledWaiting \/ Cleanup \/ UNCHANGED vars
    PROVE  Quiet(n, q) /\ Apart(n, q)'
  <1> USE DEF Listed, Quiet, Made, Hand
  <1>1. CASE Malloc
    <2>1. PICK p \in Address \ Nodes : mp' = p /\ n_number' = Put(n_number, p, i) /\ n_next' = Put(n_next, p, NULL)
      BY <1>1 DEF Malloc
    <2>2. \A y \in Nodes : y # p /\ y \in Nodes' /\ n_number'[y] = n_number[y] /\ n_next'[y] = n_next[y]
      BY <2>1 DEF Put, Nodes, Types
    <2>3. p \in Nodes' /\ n_number'[p] = i BY <2>1 DEF Put, Nodes
    <2>4. UNCHANGED <<head, mtx, i, second, sp, printed>> /\ main = "malloc" /\ main' = "lock"
      BY <1>1 DEF Malloc, MainVars
    <2>5. \A k \in 1 .. n : q[k] \in Nodes BY DEF Path
    <2>6. second \in {"print", "free"} => sp \in Nodes BY DEF Apart
    <2>7. second = "unlink" => n > 0 /\ sp = head BY DEF Apart
    <2>8. second \in {"print", "free"} => \A k \in 1 .. n : q[k] # sp BY DEF Apart
    <2>9. Apart(n, q)' BY <2>1, <2>2, <2>3, <2>4, <2>5, <2>6, <2>7, <2>8 DEF Apart
    <2>10. Made' = Made /\ Hand' = Hand BY <2>2, <2>4, <2>6
    <2> QED BY <2>2, <2>4, <2>5, <2>9, <2>10
  <1>2. CASE MainLocks BY <1>2 DEF MainLocks, Lock, MainVars, Apart, Path, Nodes, Mutex
  <1>3. CASE Link
    <2>1. UNCHANGED <<n_number, head, mtx, i, mp, second, sp, printed>> /\ main = "link" /\ main' = "push"
      BY <1>3 DEF Link, MainVars
    <2>2. mp \in Nodes /\ n_number[mp] = i /\ \A k \in 1 .. n : q[k] # mp BY <2>1 DEF Apart
    <2>3. n_next' = [n_next EXCEPT ![mp] = head] BY <1>3 DEF Link
    <2>4. second \notin {"unlink", "print", "free"} BY <2>1 DEF Mutex
    <2>5. n_next'[mp] = head /\ \A k \in 1 .. n : n_next'[q[k]] = n_next[q[k]]
      BY <2>2, <2>3 DEF Types, Path
    <2> QED BY <2>1, <2>2, <2>4, <2>5 DEF Apart, Path, Nodes
  <1>4. CASE Signal BY <1>4 DEF Signal, Apart, Path, Nodes
  <1>5. CASE MainUnlocks BY <1>5 DEF MainUnlocks, MainVars, Apart, Path, Nodes
  <1>6. CASE Sleep BY <1>6 DEF Sleep, MainVars, Apart, Path, Nodes, Types
  <1>7. CASE Cancel BY <1>7 DEF Cancel, Apart, Path, Nodes
  <1>8. CASE Join BY <1>8 DEF Join, MainVars, Apart, Path, Nodes
  <1>9. CASE SecondLocks BY <1>9 DEF SecondLocks, Lock, SecondVars, Apart, Path, Nodes
  <1>10. CASE Wait BY <1>10 DEF Wait, Unlock, SecondVars, Apart, Path, Nodes
  <1>11. CASE WakeUp BY <1>11 DEF WakeUp, SecondVars, Apart, Path, Nodes
  <1>12. CASE Return BY <1>12 DEF Return, Lock, SecondVars, Apart, Path, Nodes
  <1>13. CASE Take
    <2>1. n # 0 BY <1>13 DEF Take, Path
    <2> QED BY <1>13, <2>1 DEF Take, SecondVars, Apart, Path, Nodes
  <1>14. CASE Free
    <2>1. second = "free" /\ second' = "unlock" /\ UNCHANGED <<head, mtx, main, i, mp, sp, printed>>
      BY <1>14 DEF Free
    <2>2. sp \in Nodes /\ (main = "lock" => mp # sp) /\ \A k \in 1 .. n : q[k] # sp BY <2>1 DEF Apart
    <2>3. \A y \in Nodes : y # sp => y \in Nodes' /\ n_number'[y] = n_number[y] /\ n_next'[y] = n_next[y]
      BY <1>14 DEF Free, Without, Nodes, Types
    <2>4. main \notin {"link", "push"} BY <2>1 DEF Mutex
    <2> QED BY <2>1, <2>2, <2>3, <2>4 DEF Apart, Path
  <1>15. CASE SecondUnlocks BY <1>15 DEF SecondUnlocks, Unlock, SecondVars, Apart, Path, Nodes
  <1>16. CASE CancelledWaiting BY <1>16 DEF CancelledWaiting, Lock, SecondVars, Apart, Path, Nodes
  <1>17. CASE Cleanup BY <1>17 DEF Cleanup, SecondVars, Apart, Path, Nodes
  <1>18. CASE UNCHANGED vars BY <1>18 DEF vars, Apart, Path, Nodes
  <1> QED
    BY <1>1, <1>2, <1>3, <1>4, <1>5, <1>6, <1>7, <1>8, <1>9, <1>10, <1>11, <1>12, <1>13, <1>14, <1>15,
       <1>16, <1>17, <1>18

\* Push: the node that was linked to the head becomes the head.
LEMMA PushStep ==
    ASSUME N \in Nat, NULL \notin Address, Types, Types', Mutex,
           NEW n \in 0 .. N, NEW q \in [1 .. n -> Address], Listed(n, q), Push
    PROVE  Listing' /\ PoolPut
  <1>r. PICK r : r = [k \in 1 .. n + 1 |-> IF k = 1 THEN mp ELSE q[k - 1]] OBVIOUS
  <1>1. /\ main = "push" /\ main' = "signal" /\ head' = mp
        /\ UNCHANGED <<n_number, n_next, mtx, i, mp, second, sp, printed>>
    BY DEF Push, MainVars
  <1>2. /\ mp \in Nodes /\ n_number[mp] = i /\ n_next[mp] = head /\ \A k \in 1 .. n : q[k] # mp
        /\ second \notin {"unlink", "print", "free"}
    BY <1>1 DEF Listed, Apart, Mutex
  <1>3. Made = i /\ Made' = i + 1 /\ i < N /\ n <= i /\ i \in 0 .. N - 1 BY <1>1 DEF Made, Types, Listed
  <1>4. n + 1 \in 0 .. N /\ n + 1 <= Made' BY <1>3
  <1>5. Nodes' = Nodes BY <1>1 DEF Nodes
  <1>6. \A k \in 1 .. n + 1 : k # 1 => k - 1 \in 1 .. n /\ r[k] = q[k - 1] BY <1>r
  <1>7. r[1] = mp BY <1>r
  <1>8. \A k \in 1 .. n : q[k] \in Nodes BY DEF Listed, Path
  <1>9. \A k \in 1 .. n + 1 : r[k] \in Nodes BY <1>2, <1>6, <1>7, <1>8
  <1>10. r \in [1 .. n + 1 -> Address] BY <1>r, <1>9 DEF Types
  <1>11. Path(n + 1, r)'
    <2>1. \A k, m \in 1 .. n + 1 : r[k] = r[m] => k = m
      <3>1. \A k \in 1 .. n + 1 : r[k] = mp => k = 1 BY <1>2, <1>6
      <3>2. ASSUME NEW k \in 1 .. n + 1, NEW m \in 1 .. n + 1, r[k] = r[m], k # 1, m # 1 PROVE k = m
        <4>1. k - 1 \in 1 .. n /\ m - 1 \in 1 .. n /\ q[k - 1] = q[m - 1] BY <1>6, <3>2
        <4>2. k - 1 = m - 1 BY <4>1 DEF Listed, Path
        <4> QED BY <4>2
      <3> QED BY <1>7, <3>1, <3>2
    <2>2. \A k \in 1 .. n + 1 : n_next[r[k]] = IF k = n + 1 THEN NULL ELSE r[k + 1]
      <3>1. TAKE k \in 1 .. n + 1
      <3>2. CASE k = 1
        <4>1. n_next[r[k]] = IF n = 0 THEN NULL ELSE q[1] BY <1>2, <1>7, <3>2 DEF Listed, Path
        <4>2. n # 0 => k + 1 \in 1 .. n + 1 /\ k + 1 # 1 /\ (k + 1) - 1 = 1 BY <3>2
        <4>3. n # 0 => r[k + 1] = q[1] BY <1>6, <4>2
        <4> QED BY <3>2, <4>1, <4>3
      <3>3. CASE k # 1
        <4>1. k - 1 \in 1 .. n /\ r[k] = q[k - 1] BY <1>6, <3>3
        <4>2. n_next[r[k]] = IF k - 1 = n THEN NULL ELSE q[(k - 1) + 1] BY <4>1 DEF Listed, Path
        <4>3. k # n + 1 => k + 1 \in 1 .. n + 1 /\ k + 1 # 1 /\ (k + 1) - 1 = (k - 1) + 1 BY <3>3
        <4>4. k # n + 1 => r[k + 1] = q[(k - 1) + 1] BY <1>6, <4>3
        <4>5. k - 1 = n <=> k = n + 1 OBVIOUS
        <4> QED BY <4>2, <4>4, <4>5
      <3> QED BY <3>2, <3>3
    <2>3. head' = r[1] /\ n + 1 # 0 BY <1>1, <1>7
    <2> QED BY <1>1, <1>5, <1>9, <2>1, <2>2, <2>3 DEF Path
  <1>12. Apart(n + 1, r)' BY <1>1, <1>2 DEF Apart
  <1>13. Listing' BY <1>4, <1>10, <1>11, <1>12 DEF Listing, Listed
  <1>14. Chain = Numbers(n, q) BY ChainIsPath DEF Listed
  <1>15. Chain' = Numbers(n + 1, r)' BY <1>4, <1>10, <1>11, ChainIsPathThen
  <1>16. <<i>> \o Numbers(n, q) = Numbers(n + 1, r)'
    <2>1. Numbers(n, q) \in [1 .. n -> 0 .. N - 1] BY <1>8 DEF Numbers, Types
    <2>2. Numbers(n + 1, r)' = [k \in 1 .. n + 1 |-> n_number[r[k]]] BY <1>1 DEF Numbers
    <2>3. Numbers(n + 1, r)' \in [1 .. n + 1 -> 0 .. N - 1] BY <1>9, <2>2 DEF Types
    <2>4. Numbers(n + 1, r)'[1] = i BY <1>2, <1>7, <2>2
    <2>5. \A k \in 1 .. n : Numbers(n + 1, r)'[k + 1] = Numbers(n, q)[k]
      <3>1. TAKE k \in 1 .. n
      <3>2. k + 1 \in 1 .. n + 1 /\ k + 1 # 1 /\ (k + 1) - 1 = k OBVIOUS
      <3>3. r[k + 1] = q[k] BY <1>6, <3>2
      <3> QED BY <2>2, <3>2, <3>3 DEF Numbers
    <2> DEFINE s == Numbers(n, q)
               t == Numbers(n + 1, r)'
    <2>6. /\ n \in Nat /\ i \in 0 .. N - 1 /\ s \in [1 .. n -> 0 .. N - 1] /\ t \in [1 .. n + 1 -> 0 .. N - 1]
          /\ t[1] = i /\ \A k \in 1 .. n : t[k + 1] = s[k]
      BY <1>3, <2>1, <2>3, <2>4, <2>5
    <2> HIDE DEF s, t
    <2>7. <<i>> \o s = t BY <2>6, Prepend
    <2> QED BY <2>7 DEF s, t
  <1>17. Hand' = Hand BY <1>1 DEF Hand
  <1> QED BY <1>1, <1>3, <1>13, <1>14, <1>15, <1>16, <1>17 DEF PoolPut

\* Unlink: the head is popped, and the rest of the path is the list.
LEMMA UnlinkStep ==
    ASSUME N \in Nat, NULL \notin Address, Types, Types', Mutex,
           NEW n \in 0 .. N, NEW q \in [1 .. n -> Address], Listed(n, q), Unlink
    PROVE  Listing' /\ PoolTake
  <1> DEFINE r == [k \in 1 .. n - 1 |-> q[k + 1]]
  <1>1. /\ second = "unlink" /\ second' = "print" /\ head' = n_next[head]
        /\ UNCHANGED <<n_number, n_next, mtx, main, i, mp, sp, printed>>
    BY DEF Unlink, SecondVars
  <1>2. n > 0 /\ sp = head /\ main \notin {"link", "push"} BY <1>1 DEF Listed, Apart, Mutex
  <1>3. n - 1 \in 0 .. N /\ n - 1 <= Made' /\ Made' = Made BY <1>1, <1>2 DEF Made, Listed, Types
  <1>4. Nodes' = Nodes BY <1>1 DEF Nodes
  <1>5. \A k \in 1 .. n - 1 : k + 1 \in 1 .. n /\ k + 1 # 1 /\ r[k] = q[k + 1] BY <1>2
  <1>6. \A k \in 1 .. n : q[k] \in Nodes BY DEF Listed, Path
  <1>7. \A k \in 1 .. n - 1 : r[k] \in Nodes BY <1>5, <1>6
  <1>8. r \in [1 .. n - 1 -> Address] BY <1>7 DEF Types
  <1>9. 1 \in 1 .. n /\ head = q[1] /\ head \in Nodes BY <1>2, <1>6 DEF Listed, Path
  <1>a. \A k \in 1 .. n - 1 : r[k] # sp BY <1>2, <1>5, <1>9 DEF Listed, Path
  <1> HIDE DEF r
  <1>10. Path(n - 1, r)'
    <2>1. \A k, m \in 1 .. n - 1 : r[k] = r[m] => k = m
      <3>1. TAKE k, m \in 1 .. n - 1
      <3>2. HAVE r[k] = r[m]
      <3>3. q[k + 1] = q[m + 1] /\ k + 1 \in 1 .. n /\ m + 1 \in 1 .. n BY <1>5, <3>2
      <3>4. k + 1 = m + 1 BY <3>3 DEF Listed, Path
      <3> QED BY <3>4
    <2>2. \A k \in 1 .. n - 1 : n_next[r[k]] = IF k = n - 1 THEN NULL ELSE r[k + 1]
      <3>1. TAKE k \in 1 .. n - 1
      <3>2. k + 1 \in 1 .. n /\ r[k] = q[k + 1] BY <1>5
      <3>3. n_next[r[k]] = IF k + 1 = n THEN NULL ELSE q[(k + 1) + 1] BY <3>2 DEF Listed, Path
      <3>4. k # n - 1 => k + 1 \in 1 .. n - 1 OBVIOUS
      <3>5. k # n - 1 => r[k + 1] = q[(k + 1) + 1] BY <1>5, <3>4
      <3>6. k + 1 = n <=> k = n - 1 OBVIOUS
      <3> QED BY <3>3, <3>5, <3>6
    <2>3. head' = IF n - 1 = 0 THEN NULL ELSE r[1]
      <3>1. head' = IF 1 = n THEN NULL ELSE q[1 + 1] BY <1>1, <1>9 DEF Listed, Path
      <3>2. n # 1 => 1 \in 1 .. n - 1 BY <1>2
      <3>3. n # 1 => r[1] = q[1 + 1] BY <1>5, <3>2
      <3>4. 1 = n <=> n - 1 = 0 OBVIOUS
      <3> QED BY <3>1, <3>3, <3>4
    <2> QED BY <1>1, <1>4, <1>7, <2>1, <2>2, <2>3 DEF Path
  <1>11. Apart(n - 1, r)'
    <2>1. main = "lock" => mp # sp /\ mp \in Nodes /\ n_number[mp] = i /\ \A k \in 1 .. n : q[k] # mp
      BY <1>2, <1>9 DEF Listed, Apart
    <2>2. main = "lock" => \A k \in 1 .. n - 1 : r[k] # mp BY <1>5, <2>1
    <2> QED BY <1>1, <1>2, <1>4, <1>9, <1>a, <2>1, <2>2 DEF Apart
  <1>12. Listing' BY <1>3, <1>8, <1>10, <1>11 DEF Listing, Listed
  <1>13. Chain = Numbers(n, q) BY ChainIsPath DEF Listed
  <1>14. Chain' = Numbers(n - 1, r)' BY <1>3, <1>8, <1>10, ChainIsPathThen
  <1>15. /\ Numbers(n, q) # <<>> /\ Head(Numbers(n, q)) = n_number[head]
         /\ Tail(Numbers(n, q)) = Numbers(n - 1, r)'
    <2>1. n - 1 \in Nat /\ (n - 1) + 1 = n BY <1>2
    <2>2. Numbers(n, q) \in [1 .. (n - 1) + 1 -> 0 .. N - 1] BY <1>6, <2>1 DEF Numbers, Types
    <2>3. Numbers(n - 1, r)' = [k \in 1 .. n - 1 |-> n_number[r[k]]] BY <1>1 DEF Numbers
    <2>4. Numbers(n - 1, r)' \in [1 .. n - 1 -> 0 .. N - 1] BY <1>7, <2>3 DEF Types
    <2>5. Numbers(n, q)[1] = n_number[head] /\ n_number[head] \in 0 .. N - 1 BY <1>9 DEF Numbers, Types
    <2>6. \A k \in 1 .. n - 1 : Numbers(n, q)[k + 1] = Numbers(n - 1, r)'[k] BY <1>5, <2>3 DEF Numbers
    <2> QED BY <2>1, <2>2, <2>4, <2>5, <2>6, Prepend
  <1>16. Hand = -1 /\ Hand' = n_number[head] BY <1>1, <1>2 DEF Hand
  <1> QED BY <1>1, <1>3, <1>12, <1>13, <1>14, <1>15, <1>16 DEF PoolTake

\* Each step keeps the invariant, and is one of Pool's or changes nothing of it.
LEMMA ListStep ==
    ASSUME N \in Nat, NULL \notin Address, ListInv, [Next]_vars
    PROVE  ListInv' /\ (\/ PoolPut \/ PoolTake \/ PoolShow \/ PoolDrop
                        \/ UNCHANGED <<Made, Chain, Hand, printed>>)
  <1>1. Types /\ Mutex BY DEF ListInv
  <1>2. PICK n \in 0 .. N : \E q \in [1 .. n -> Address] : Listed(n, q) BY DEF ListInv
  <1>3. PICK q \in [1 .. n -> Address] : Listed(n, q) BY <1>2
  <1>4. Mutex' BY <1>1, MutexStep
  <1>5. Types' BY <1>1, <1>3, TypesStep
  <1>6. Listing' => ListInv' BY <1>4, <1>5 DEF ListInv, Listing
  <1>7. Listed(n, q)' => Listing' BY DEF Listing
  <1>8. CASE \/ Malloc \/ MainLocks \/ Link \/ Signal \/ MainUnlocks \/ Sleep \/ Cancel \/ Join
             \/ SecondLocks \/ Wait \/ WakeUp \/ Return \/ Take \/ Free \/ SecondUnlocks
             \/ CancelledWaiting \/ Cleanup \/ UNCHANGED vars
    <2>1. Quiet(n, q) /\ Apart(n, q)' BY <1>1, <1>3, <1>4, <1>5, <1>8, QuietSteps
    <2>2. n <= Made' /\ Path(n, q)' /\ Chain' = Chain BY <1>1, <1>3, <1>5, <2>1, QuietStep
    <2>3. Listed(n, q)' BY <2>1, <2>2 DEF Listed
    <2>4. UNCHANGED <<Made, Chain, Hand, printed>> BY <2>1, <2>2 DEF Quiet
    <2> QED BY <1>6, <1>7, <2>3, <2>4
  <1>9. CASE Push BY <1>1, <1>3, <1>5, <1>6, <1>9, PushStep
  <1>10. CASE Unlink BY <1>1, <1>3, <1>5, <1>6, <1>10, UnlinkStep
  <1>11. CASE Output \/ CancelledPrinting
    <2>1. /\ second = "print" /\ second' \in {"free", "cleanup"}
          /\ UNCHANGED <<n_number, n_next, head, mtx, main, i, mp, sp>>
      BY <1>11 DEF Output, CancelledPrinting, SecondVars
    <2>2. Nodes' = Nodes BY <2>1 DEF Nodes
    <2>3. Path(n, q)' BY <1>3, <2>1, <2>2 DEF Path, Listed
    <2>4. Apart(n, q)' BY <1>3, <2>1, <2>2 DEF Apart, Listed
    <2>5. Made' = Made BY <2>1 DEF Made
    <2>6. Listed(n, q)' BY <1>3, <2>3, <2>4, <2>5 DEF Listed
    <2>7. Chain' = Chain
      <3>1. Chain = Numbers(n, q) BY <1>1, <1>3, ChainIsPath DEF Listed
      <3>2. Chain' = Numbers(n, q)' BY <1>5, <2>3, ChainIsPathThen
      <3>3. Numbers(n, q)' = Numbers(n, q) BY <2>1 DEF Numbers
      <3> QED BY <3>1, <3>2, <3>3
    <2>8. Hand = n_number[sp] /\ Hand # -1 /\ Hand' = -1
      <3>1. sp \in Nodes BY <1>3, <2>1 DEF Listed, Apart
      <3>2. n_number[sp] \in 0 .. N - 1 BY <1>1, <3>1 DEF Types
      <3> QED BY <2>1, <3>2 DEF Hand
    <2>9. PoolShow \/ PoolDrop
      BY <1>11, <2>5, <2>7, <2>8 DEF Output, CancelledPrinting, PoolShow, PoolDrop
    <2> QED BY <1>6, <1>7, <2>6, <2>9
  <1> QED BY <1>8, <1>9, <1>10, <1>11 DEF Next, MainSteps, SecondSteps

LEMMA ListInit == N \in Nat /\ Init => ListInv /\ ThePool!Init
  <1> SUFFICES ASSUME N \in Nat, Init PROVE ListInv /\ ThePool!Init OBVIOUS
  <1>1. DOMAIN <<>> = {} /\ Nodes = {} BY DEF Init, Nodes
  <1>2. Types
    <2>1. n_number \in [{} -> 0 .. N - 1] /\ n_next \in [{} -> Address \cup {NULL}] BY DEF Init
    <2> QED BY <1>1, <2>1 DEF Init, Types, MainLabels, SecondLabels
  <1>3. Mutex BY DEF Init, Mutex
  <1>4. \E q \in [1 .. 0 -> Address] : Listed(0, q)
    <2>1. PICK q : q = [k \in 1 .. 0 |-> NULL] OBVIOUS
    <2>2. q \in [1 .. 0 -> Address] BY <2>1
    <2>3. Path(0, q) /\ Apart(0, q) /\ 0 <= Made BY DEF Init, Path, Apart, Made
    <2> QED BY <2>2, <2>3 DEF Listed
  <1>5. ListInv
    <2>1. 0 \in 0 .. N OBVIOUS
    <2>2. \E n \in 0 .. N : \E q \in [1 .. n -> Address] : Listed(n, q) BY <1>4, <2>1, Zenon
    <2> QED BY <1>2, <1>3, <2>2 DEF ListInv
  <1>6. Chain = <<>>
    <2>1. PICK f : /\ Chain = f[N][head]
                   /\ f = [k \in 0 .. N |->
                             [p \in Address \cup {NULL} |->
                                IF k = 0 \/ p \notin Nodes THEN <<>>
                                ELSE <<n_number[p]>> \o f[k - 1][n_next[p]]]]
      BY AlongExists
    <2>2. f[N] = [p \in Address \cup {NULL} |->
                    IF N = 0 \/ p \notin Nodes THEN <<>> ELSE <<n_number[p]>> \o f[N - 1][n_next[p]]]
      <3>1. N \in 0 .. N OBVIOUS
      <3> QED BY <2>1, <3>1
    <2>3. head \in Address \cup {NULL} /\ head \notin Nodes BY <1>1 DEF Init
    <2> QED BY <2>1, <2>2, <2>3
  <1>7. ThePool!Init BY <1>6 DEF Init, ThePool!Init
  <1> QED BY <1>5, <1>7

\* The list with its two threads implements the stack: although a push and a
\* pop write the links in two steps each, although malloc gives out again what
\* was freed, and wherever the thread is cancelled, each number is handed out
\* once, from the top, and printed or dropped with the thread that holds it.
\* For any number of nodes and any addresses, NULL apart.
THEOREM ListIsAStack ==
    ASSUME N \in Nat, NULL \notin Address
    PROVE  Spec => ImplementsPool
  <1>1. Init => ListInv /\ ThePool!Init BY ListInit
  <1>2. ListInv /\ [Next]_vars => ListInv' BY ListStep
  <1>3. ListInv /\ [Next]_vars =>
          [ThePool!Next]_<<i + (IF main \in {"signal", "unlock", "sleep"} THEN 1 ELSE 0), Chain,
                           IF second = "print" THEN n_number[sp] ELSE -1, printed>>
    <2> SUFFICES ASSUME ListInv, [Next]_vars
                 PROVE  ThePool!Next \/ UNCHANGED <<Made, Chain, Hand, printed>>
      BY DEF Made, Hand
    <2>1. PoolPut => ThePool!Put BY DEF PoolPut, ThePool!Put, Made, Hand
    <2>2. PoolTake => ThePool!Take BY DEF PoolTake, ThePool!Take, Made, Hand
    <2>3. PoolShow => ThePool!Show BY DEF PoolShow, ThePool!Show, Made, Hand
    <2>4. PoolDrop => ThePool!Drop BY DEF PoolDrop, ThePool!Drop, Made, Hand
    <2> QED BY <2>1, <2>2, <2>3, <2>4, ListStep DEF ThePool!Next
  <1> QED BY <1>1, <1>2, <1>3, PTL DEF Spec, ImplementsPool, ThePool!Spec
=============================================================================

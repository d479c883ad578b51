------------------------- MODULE EloopTimersProofs -------------------------
(***************************************************************************)
(* The list of timeouts of hostapd/eloop.c stays a list without repetition *)
(* in the order of its times, for any number of timeouts and any delays.   *)
(***************************************************************************)
EXTENDS EloopTimers, FiniteSetTheorems, TLAPS

\* TypeOK and Sorted, said of any list: the functions of the interface build
\* theirs in several steps.
Good(q) ==
    /\ q \in Seq(Entry)
    /\ \A a, b \in 1..Len(q) : q[a].id = q[b].id => a = b
    /\ \A a, b \in 1..Len(q) : a < b => q[a].left <= q[b].left

LEMMA LeftInt ==
    ASSUME NEW x \in Entry
    PROVE  x.left \in -1..MaxDelay /\ x.left \in Int
  <1>1. x.left \in -1..MaxDelay BY DEF Entry
  <1>2. MaxDelay \in Nat BY TimersAssumption
  <1> QED BY <1>1, <1>2

LEMMA GoodIsInv ==
    ASSUME TRUE
    PROVE  Good(timeout) <=> TypeOK /\ Sorted
  <1>1. ASSUME timeout \in Seq(Entry), NEW a \in 1..Len(timeout), NEW b \in 1..Len(timeout)
        PROVE  timeout[a].left \in Int /\ timeout[b].left \in Int
    <2>1. timeout[a] \in Entry /\ timeout[b] \in Entry BY <1>1
    <2> QED BY <2>1, LeftInt
  <1> QED BY <1>1 DEF Good, TypeOK, Sorted, Before

\* A list given as a function is a sequence.
LEMMA FunctionIsSeq ==
    ASSUME NEW n \in Nat, NEW q, q \in [1..n -> Entry]
    PROVE  q \in Seq(Entry) /\ Len(q) = n
  OBVIOUS

\* The new record, put where the loop of eloop_register_timeout stops, leaves
\* the list in order.
LEMMA PutGood ==
    ASSUME NEW q, Good(q), NEW x \in Entry, NEW n \in Place(q, x),
           \A j \in 1..Len(q) : q[j].id # x.id
    PROVE  Good(Put(q, n, x))
  <1> DEFINE r == Put(q, n, x)
  <1>1. q \in Seq(Entry) /\ Len(q) \in Nat /\ n \in 1..Len(q) + 1
    BY DEF Good, Place
  <1>2. r \in [1..Len(q) + 1 -> Entry]
    BY <1>1 DEF Put
  <1>3. r \in Seq(Entry) /\ Len(r) = Len(q) + 1
    BY <1>1, <1>2, FunctionIsSeq
  <1>4. \A j \in 1..Len(q) + 1 : /\ j < n => r[j] = q[j] /\ j \in 1..Len(q)
                                 /\ j = n => r[j] = x
                                 /\ j > n => r[j] = q[j - 1] /\ j - 1 \in 1..Len(q)
    BY <1>1 DEF Put
  <1> HIDE DEF r
  <1>5. \A j \in 1..Len(q) : q[j].left \in Int
    BY <1>1, LeftInt
  <1>6. x.left \in Int BY LeftInt
  <1>ids. \A a, b \in 1..Len(q) : q[a].id = q[b].id => a = b
    BY DEF Good
  <1>ord. \A a, b \in 1..Len(q) : a < b => q[a].left <= q[b].left
    BY DEF Good
  <1>7. \A a, b \in 1..Len(r) : r[a].id = r[b].id => a = b
    <2> SUFFICES ASSUME NEW a \in 1..Len(r), NEW b \in 1..Len(r), r[a].id = r[b].id
                 PROVE  a = b
      OBVIOUS
    <2>1. a \in 1..Len(q) + 1 /\ b \in 1..Len(q) + 1 BY <1>3
    <2>2. CASE a = n \/ b = n
      <3>1. \A c \in 1..Len(q) + 1 : c # n => r[c].id # x.id
        <4> SUFFICES ASSUME NEW c \in 1..Len(q) + 1, c # n PROVE r[c].id # x.id
          OBVIOUS
        <4>1. CASE c < n BY <1>4, <4>1
        <4>2. CASE c > n BY <1>4, <4>2
        <4> QED BY <1>1, <4>1, <4>2
      <3> QED BY <1>4, <2>1, <2>2, <3>1
    <2>3. CASE a # n /\ b # n
      <3> DEFINE old(c) == IF c < n THEN c ELSE c - 1
      <3>1. \A c \in 1..Len(q) + 1 : c # n => old(c) \in 1..Len(q) /\ r[c] = q[old(c)]
        BY <1>1, <1>4
      <3>2. old(a) = old(b) BY <1>ids, <2>1, <2>3, <3>1
      <3> QED BY <1>1, <2>1, <2>3, <3>2
    <2> QED BY <2>2, <2>3
  <1>8. \A j \in 1..Len(q) : j < n => q[j].left <= x.left
    BY <1>1, <1>5, <1>6 DEF Place, Before
  <1>9. \A j \in 1..Len(q) : j >= n => x.left <= q[j].left
    <2> SUFFICES ASSUME NEW j \in 1..Len(q), j >= n
                 PROVE  x.left <= q[j].left
      OBVIOUS
    <2>1. n \in 1..Len(q) BY <1>1
    <2>2. x.left < q[n].left BY <2>1 DEF Place, Before
    <2>3. q[n].left <= q[j].left BY <1>1, <1>5, <1>ord, <2>1
    <2>4. q[j].left \in Int /\ q[n].left \in Int BY <1>5, <2>1
    <2> QED BY <1>6, <2>2, <2>3, <2>4
  <1>10. \A a, b \in 1..Len(r) : a < b => r[a].left <= r[b].left
    <2> SUFFICES ASSUME NEW a \in 1..Len(r), NEW b \in 1..Len(r), a < b
                 PROVE  r[a].left <= r[b].left
      OBVIOUS
    <2>1. CASE b < n
      <3>1. a < n /\ a \in 1..Len(q) + 1 /\ b \in 1..Len(q) + 1 BY <1>1, <1>3, <2>1
      <3> QED BY <1>4, <1>ord, <2>1, <3>1
    <2>2. CASE b = n
      <3>1. a < n /\ a \in 1..Len(q) + 1 /\ b \in 1..Len(q) + 1 BY <1>1, <1>3, <2>2
      <3> QED BY <1>4, <1>8, <2>2, <3>1
    <2>3. CASE b > n /\ a < n
      <3>1. /\ a \in 1..Len(q) /\ b - 1 \in 1..Len(q)
            /\ a < b - 1 /\ a \in 1..Len(q) + 1 /\ b \in 1..Len(q) + 1
        BY <1>1, <1>3, <2>3
      <3>2. r[a] = q[a] /\ r[b] = q[b - 1] BY <1>4, <2>3, <3>1
      <3> QED BY <1>ord, <3>1, <3>2
    <2>4. CASE b > n /\ a = n
      <3>1. b - 1 \in 1..Len(q) /\ b - 1 >= n BY <1>1, <1>3, <2>4
      <3> QED BY <1>3, <1>4, <1>9, <2>4, <3>1
    <2>5. CASE b > n /\ a > n
      <3>1. a - 1 \in 1..Len(q) /\ b - 1 \in 1..Len(q) /\ a - 1 < b - 1
        BY <1>1, <1>3, <2>5
      <3>2. r[a] = q[a - 1] /\ r[b] = q[b - 1] BY <1>3, <1>4, <2>5
      <3> QED BY <1>ord, <3>1, <3>2
    <2> QED BY <1>1, <1>3, <2>1, <2>2, <2>3, <2>4, <2>5
  <1> QED BY <1>3, <1>7, <1>10 DEF Good, r

\* To pick records out of the list without changing their order keeps it.
LEMMA PickGood ==
    ASSUME NEW q, Good(q), NEW n \in Nat, NEW f \in [1..n -> 1..Len(q)],
           \A a, b \in 1..n : a < b => f[a] < f[b]
    PROVE  Good([a \in 1..n |-> q[f[a]]])
  <1> DEFINE r == [a \in 1..n |-> q[f[a]]]
  <1>1. q \in Seq(Entry) /\ Len(q) \in Nat BY DEF Good
  <1>2. r \in [1..n -> Entry] BY <1>1
  <1>3. r \in Seq(Entry) /\ Len(r) = n BY <1>2, FunctionIsSeq
  <1>4. \A a \in 1..n : r[a] = q[f[a]] /\ f[a] \in 1..Len(q) OBVIOUS
  <1> HIDE DEF r
  <1>5. \A a, b \in 1..n : r[a].id = r[b].id => a = b
    <2> SUFFICES ASSUME NEW a \in 1..n, NEW b \in 1..n, r[a].id = r[b].id PROVE a = b
      OBVIOUS
    <2>1. f[a] \in 1..Len(q) /\ f[b] \in 1..Len(q) BY <1>4
    <2>2. q[f[a]].id = q[f[b]].id BY <1>4
    <2>3. \A c, d \in 1..Len(q) : q[c].id = q[d].id => c = d BY DEF Good
    <2>4. f[a] = f[b] BY <2>1, <2>2, <2>3
    <2>5. ~(a < b) /\ ~(b < a) BY <2>1, <2>4
    <2> QED BY <2>5
  <1>6. \A a, b \in 1..n : a < b => r[a].left <= r[b].left
    <2> SUFFICES ASSUME NEW a \in 1..n, NEW b \in 1..n, a < b
                 PROVE  r[a].left <= r[b].left
      OBVIOUS
    <2>1. f[a] < f[b] /\ f[a] \in 1..Len(q) /\ f[b] \in 1..Len(q) BY <1>4
    <2>2. q[f[a]].left <= q[f[b]].left BY <2>1 DEF Good
    <2> QED BY <1>4, <2>2
  <1> QED BY <1>3, <1>5, <1>6 DEF Good, r

\* What is left of a list when records are cancelled.
LEMMA FilteredGood ==
    ASSUME NEW q, Good(q), NEW keep, NEW r \in Filtered(q, keep)
    PROVE  Good(r)
  <1> DEFINE S == {j \in 1..Len(q) : keep[j]}
  <1>1. S \in SUBSET (1..Len(q)) /\ Len(q) \in Nat BY DEF Good
  <1>2. Cardinality(S) \in Nat
    <2>1. IsFiniteSet(1..Len(q)) BY <1>1, FS_Interval
    <2>2. IsFiniteSet(S) BY <1>1, <2>1, FS_Subset
    <2> QED BY <2>2, FS_CardinalityType
  <1> DEFINE n == Cardinality(S)
  <1>3. PICK f \in [1..n -> S] : /\ \A a, b \in 1..n : a < b => f[a] < f[b]
                                 /\ r = [a \in 1..n |-> q[f[a]]]
    BY DEF Filtered
  <1>4. f \in [1..n -> 1..Len(q)] BY <1>1, <1>3
  <1> HIDE DEF n, S
  <1> QED BY <1>2, <1>3, <1>4, PickGood DEF n

\* The record n is taken out, as eloop_remove_timeout does.
LEMMA RemoveGood ==
    ASSUME Good(timeout), NEW n \in 1..Len(timeout), Remove(n)
    PROVE  Good(timeout')
  <1> DEFINE L == Len(timeout)
             f == [j \in 1..L - 1 |-> IF j < n THEN j ELSE j + 1]
  <1>1. L \in Nat /\ L - 1 \in Nat BY DEF Good
  <1>2. f \in [1..L - 1 -> 1..L] BY <1>1
  <1>3. \A a, b \in 1..L - 1 : a < b => f[a] < f[b] BY <1>1
  <1>4. timeout' = [a \in 1..L - 1 |-> timeout[f[a]]] BY <1>1 DEF Remove
  <1> HIDE DEF f, L
  <1>5. Good([a \in 1..L - 1 |-> timeout[f[a]]])
    BY <1>1, <1>2, <1>3, PickGood DEF L
  <1> QED BY <1>4, <1>5

\* eloop_register_timeout on the list q, with a delay that may overflow.
LEMMA AddedGood ==
    ASSUME NEW q, Good(q), NEW d \in 0..MaxDelay + 1, NEW h \in Handler,
           NEW e \in Context, NEW u \in Context, Added(q, d, h, e, u)
    PROVE  Good(timeout')
  <1>1. CASE d > MaxDelay BY <1>1 DEF Added
  <1>2. CASE ~(d > MaxDelay)
    <2> DEFINE x(t) == [id |-> t, handler |-> h, eloop_data |-> e, user_data |-> u,
                        left |-> d]
    <2>1. PICK t \in Timer : /\ \A j \in 1..Len(q) : q[j].id # t
                             /\ \E n \in Place(q, x(t)) : timeout' = Put(q, n, x(t))
      BY <1>2 DEF Added
    <2>2. d \in -1..MaxDelay BY <1>2, TimersAssumption
    <2>3. x(t) \in Entry /\ x(t).id = t BY <2>2 DEF Entry
    <2> HIDE DEF x
    <2>4. PICK n \in Place(q, x(t)) : timeout' = Put(q, n, x(t)) BY <2>1
    <2> QED BY <2>1, <2>3, <2>4, PutGood
  <1> QED BY <1>1, <1>2

\* The passing of time lowers every time by the same amount, down to the same
\* bound.
LEMMA TickGood ==
    ASSUME Good(timeout), Tick
    PROVE  Good(timeout')
  <1> DEFINE r == Elapsed(timeout)
             L == Len(timeout)
  <1>1. timeout' = r BY DEF Tick
  <1>2. timeout \in Seq(Entry) /\ L \in Nat BY DEF Good
  <1>3. \A j \in 1..L : /\ timeout[j] \in Entry
                        /\ timeout[j].left \in -1..MaxDelay
                        /\ timeout[j].left \in Int
    BY <1>2, LeftInt
  <1>4. \A j \in 1..L : /\ r[j].id = timeout[j].id
                        /\ r[j].left = IF timeout[j].left > -1 THEN timeout[j].left - 1
                                                               ELSE timeout[j].left
    BY <1>3 DEF Elapsed, Entry
  <1>5. r \in [1..L -> Entry]
    <2>1. \A j \in 1..L : r[j] \in Entry BY <1>3, TimersAssumption DEF Elapsed, Entry
    <2> QED BY <2>1 DEF Elapsed
  <1>6. r \in Seq(Entry) /\ Len(r) = L BY <1>2, <1>5, FunctionIsSeq
  <1> HIDE DEF r, L
  <1>7. \A a, b \in 1..L : r[a].id = r[b].id => a = b
    BY <1>4 DEF Good, L
  <1>8. \A a, b \in 1..L : a < b => r[a].left <= r[b].left
    <2> SUFFICES ASSUME NEW a \in 1..L, NEW b \in 1..L, a < b
                 PROVE  r[a].left <= r[b].left
      OBVIOUS
    <2>1. timeout[a].left <= timeout[b].left BY DEF Good, L
    <2> QED BY <1>3, <1>4, <2>1
  <1> QED BY <1>1, <1>6, <1>7, <1>8 DEF Good

LEMMA NextGood == ASSUME Good(timeout), [Next]_timeout PROVE Good(timeout')
  <1>1. ASSUME NEW d \in 0..MaxDelay + 1, NEW h \in Handler,
               NEW e \in Context, NEW u \in Context
        PROVE  /\ Register(d, h, e, u) => Good(timeout')
               /\ Restart(d, h, e, u) => Good(timeout')
    <2>1. Register(d, h, e, u) => Good(timeout') BY AddedGood DEF Register
    <2>2. ASSUME Restart(d, h, e, u) PROVE Good(timeout')
      <3>1. PICK q \in Others(h, e, u) : Added(q, d, h, e, u) BY <2>2 DEF Restart
      <3>2. Good(q) BY FilteredGood DEF Others
      <3> QED BY <3>1, <3>2, AddedGood
    <2> QED BY <2>1, <2>2
  <1>2. ASSUME NEW d \in 0..MaxDelay + 1, NEW h \in Handler,
               NEW e \in Context, NEW u \in Context,
               Deplete(d, h, e, u) \/ Replenish(d, h, e, u)
        PROVE  Good(timeout')
    BY <1>1, <1>2 DEF Deplete, Replenish
  <1>3. ASSUME NEW h, NEW e, NEW u, Cancel(h, e, u) PROVE Good(timeout')
    BY <1>3, FilteredGood DEF Cancel, Others
  <1>4. ASSUME NEW h, NEW e, NEW u, CancelOne(h, e, u) PROVE Good(timeout')
    BY <1>4, RemoveGood DEF CancelOne, First
  <1>5. ASSUME Clear PROVE Good(timeout')
    BY <1>5 DEF Clear, Good
  <1>6. ASSUME Expire PROVE Good(timeout')
    <2>1. timeout \in Seq(Entry) /\ timeout # <<>> /\ Remove(1)
      BY <1>6 DEF Expire, Good
    <2>2. 1 \in 1..Len(timeout) BY <2>1
    <2> QED BY <2>1, <2>2, RemoveGood
  <1>7. ASSUME Tick PROVE Good(timeout') BY <1>7, TickGood
  <1>8. ASSUME UNCHANGED timeout PROVE Good(timeout') BY <1>8
  <1> QED BY <1>1, <1>2, <1>3, <1>4, <1>5, <1>6, <1>7, <1>8 DEF Next, Call, Extend

\* Each record is in the list once and has its type, whatever the calls.
THEOREM TimersType == Spec => []TypeOK
  <1>1. Init => Good(timeout) BY DEF Init, Good
  <1>2. Good(timeout) /\ [Next]_timeout => Good(timeout)' BY NextGood DEF Good
  <1>3. Good(timeout) => TypeOK BY GoodIsInv
  <1> QED BY <1>1, <1>2, <1>3, PTL DEF Spec

\* The loop may look at the first timeout only: none is due before it.
THEOREM TimersSorted == Spec => []Sorted
  <1>1. Init => Good(timeout) BY DEF Init, Good
  <1>2. Good(timeout) /\ [Next]_timeout => Good(timeout)' BY NextGood DEF Good
  <1>3. Good(timeout) => Sorted BY GoodIsInv
  <1> QED BY <1>1, <1>2, <1>3, PTL DEF Spec

-----------------------------------------------------------------------------
\* The abstract timers

\* The refinement mapping, for any list.
LeftOf(q) == [t \in Timer |-> IF t \in {q[j].id : j \in 1..Len(q)}
                                THEN q[CHOOSE j \in 1..Len(q) : q[j].id = t].left
                                ELSE Off]

LEMMA LeftIsLeftOf == ASSUME TRUE PROVE left = LeftOf(timeout) /\ left' = LeftOf(timeout')
  BY DEF left, LeftOf, Ids

\* A timeout is found again by its record.
LEMMA LeftOfEntry ==
    ASSUME NEW q, Good(q), NEW n \in 1..Len(q)
    PROVE  /\ q[n].id \in Timer
           /\ q[n].left \in -1..MaxDelay
           /\ LeftOf(q)[q[n].id] = q[n].left
           /\ LeftOf(q)[q[n].id] # Off
  <1>1. q[n] \in Entry BY DEF Good
  <1>2. q[n].id \in Timer BY <1>1 DEF Entry
  <1>3. (CHOOSE j \in 1..Len(q) : q[j].id = q[n].id) = n BY DEF Good
  <1>4. q[n].id \in {q[j].id : j \in 1..Len(q)} OBVIOUS
  <1>5. LeftOf(q)[q[n].id] = q[n].left BY <1>2, <1>3, <1>4 DEF LeftOf
  <1> QED BY <1>1, <1>2, <1>5, LeftInt, TimersAssumption

LEMMA LeftOfOther ==
    ASSUME NEW q, NEW t \in Timer, \A n \in 1..Len(q) : q[n].id # t
    PROVE  LeftOf(q)[t] = Off
  BY DEF LeftOf

LEMMA LeftOfType ==
    ASSUME NEW q, Good(q), NEW t \in Timer
    PROVE  /\ LeftOf(q)[t] \in -1..MaxDelay \cup {Off}
           /\ LeftOf(q)[t] # Off => \E n \in 1..Len(q) : q[n].id = t
  <1>1. CASE \E n \in 1..Len(q) : q[n].id = t BY <1>1, LeftOfEntry
  <1>2. CASE \A n \in 1..Len(q) : q[n].id # t BY <1>2, LeftOfOther
  <1> QED BY <1>1, <1>2

\* The entries of r are entries of q: the others were stopped.
Kept(q, r) == \A n \in 1..Len(r) : \E j \in 1..Len(q) : r[n] = q[j]

LEMMA KeptLeft ==
    ASSUME NEW q, Good(q), NEW r, Good(r), Kept(q, r), NEW t \in Timer
    PROVE  LeftOf(r)[t] \in {LeftOf(q)[t], Off}
  <1>1. CASE \E n \in 1..Len(r) : r[n].id = t
    <2>1. PICK n \in 1..Len(r) : r[n].id = t BY <1>1
    <2>2. PICK j \in 1..Len(q) : r[n] = q[j] BY DEF Kept
    <2> QED BY <2>1, <2>2, LeftOfEntry
  <1>2. CASE \A n \in 1..Len(r) : r[n].id # t BY <1>2, LeftOfOther
  <1> QED BY <1>1, <1>2

\* The list r takes x: x is started, and no other time changes.
LEMMA PutLeft ==
    ASSUME NEW q, Good(q), NEW x \in Entry, NEW n \in Place(q, x),
           \A j \in 1..Len(q) : q[j].id # x.id
    PROVE  /\ LeftOf(Put(q, n, x))[x.id] = x.left
           /\ \A t \in Timer \ {x.id} : LeftOf(Put(q, n, x))[t] = LeftOf(q)[t]
  <1> DEFINE r == Put(q, n, x)
  <1>1. Good(r) BY PutGood
  <1>2. q \in Seq(Entry) /\ n \in 1..Len(q) + 1 BY DEF Good, Place
  <1>3. /\ Len(r) = Len(q) + 1
        /\ n \in 1..Len(r) /\ r[n] = x
        /\ \A j \in 1..Len(r) : /\ j < n => j \in 1..Len(q) /\ r[j] = q[j]
                                /\ j > n => j - 1 \in 1..Len(q) /\ r[j] = q[j - 1]
    BY <1>2 DEF Put
  <1> HIDE DEF r
  <1>4. LeftOf(r)[x.id] = x.left BY <1>1, <1>3, LeftOfEntry
  <1>5. ASSUME NEW t \in Timer, t # x.id PROVE LeftOf(r)[t] = LeftOf(q)[t]
    <2>1. CASE \E j \in 1..Len(q) : q[j].id = t
      <3>1. PICK j \in 1..Len(q) : q[j].id = t BY <2>1
      <3>2. PICK m \in 1..Len(r) : r[m] = q[j]
        <4>1. CASE j < n
          <5>1. j \in 1..Len(r) /\ r[j] = q[j] BY <1>2, <1>3, <4>1
          <5> QED BY <5>1
        <4>2. CASE j >= n
          <5>1. j + 1 \in 1..Len(r) /\ r[j + 1] = q[j] BY <1>2, <1>3, <4>2
          <5> QED BY <5>1
        <4> QED BY <1>2, <4>1, <4>2
      <3> QED BY <1>1, <3>1, <3>2, LeftOfEntry
    <2>2. CASE \A j \in 1..Len(q) : q[j].id # t
      <3>1. \A m \in 1..Len(r) : r[m].id # t BY <1>2, <1>3, <1>5, <2>2
      <3> QED BY <2>2, <3>1, LeftOfOther
    <2> QED BY <2>1, <2>2
  <1> QED BY <1>4, <1>5 DEF r

\* A call that leaves some entries and adds none is a change of the service.
LEMMA StopIsChange ==
    ASSUME Good(timeout), Good(timeout'), Kept(timeout, timeout')
    PROVE  Service!Change
  <1> DEFINE S == {t \in Service!Running : left'[t] = Off}
  <1>1. \A t \in Timer : left'[t] \in {left[t], Off} /\ left'[t] \in -1..MaxDelay \cup {Off}
    BY LeftIsLeftOf, KeptLeft, LeftOfType
  <1>2. left' \in [Timer -> -1..MaxDelay \cup {Off}] BY <1>1 DEF left
  <1>3. S \in SUBSET Service!Running OBVIOUS
  <1>4. \A t \in Timer : left'[t] = IF t \in S THEN Off ELSE left[t]
    BY <1>1 DEF Service!Running
  <1> HIDE DEF S
  <1>5. /\ {} \in SUBSET Timer /\ {} \cap (Service!Running \ S) = {}
        /\ \A t, u \in {} : t = u
    OBVIOUS
  <1>6. \A t \in Timer : IF t \in {} THEN left'[t] \in 0..MaxDelay
                         ELSE left'[t] = IF t \in S THEN Off ELSE left[t]
    BY <1>4
  <1> QED BY <1>2, <1>3, <1>5, <1>6 DEF Service!Change

\* A call that leaves the list q of the entries it keeps, and adds a timeout to
\* it or none, is a change of the service.
LEMMA AddIsChange ==
    ASSUME Good(timeout), NEW q, Good(q), Kept(timeout, q),
           NEW d \in 0..MaxDelay + 1, NEW h \in Handler,
           NEW e \in Context, NEW u \in Context, Added(q, d, h, e, u)
    PROVE  Service!Change
  <1>0. Good(timeout') BY AddedGood
  <1>1. CASE timeout' = q BY <1>0, <1>1, StopIsChange
  <1>2. CASE timeout' # q
    <2>1. d \in 0..MaxDelay BY <1>2, TimersAssumption DEF Added
    <2>2. PICK t \in Timer :
            LET x == [id |-> t, handler |-> h, eloop_data |-> e, user_data |-> u, left |-> d]
            IN  /\ \A j \in 1..Len(q) : q[j].id # t
                /\ \E n \in Place(q, x) : timeout' = Put(q, n, x)
      BY <1>2, <2>1, TimersAssumption DEF Added
    <2> DEFINE x == [id |-> t, handler |-> h, eloop_data |-> e, user_data |-> u, left |-> d]
               S == {s \in Service!Running : LeftOf(q)[s] = Off}
    <2>3. x \in Entry /\ x.id = t /\ x.left = d BY <2>1, TimersAssumption DEF Entry
    <2>4. PICK n \in Place(q, x) : timeout' = Put(q, n, x) BY <2>2
    <2>5. \A j \in 1..Len(q) : q[j].id # x.id BY <2>2, <2>3
    <2> HIDE DEF x
    <2>6. /\ LeftOf(timeout')[t] = d
          /\ \A s \in Timer \ {t} : LeftOf(timeout')[s] = LeftOf(q)[s]
      BY <2>5, <2>3, <2>4, PutLeft
    <2>7. /\ left'[t] = d
          /\ \A s \in Timer \ {t} : left'[s] = LeftOf(q)[s]
      BY <2>6, LeftIsLeftOf
    <2>8. \A s \in Timer : /\ LeftOf(q)[s] \in {left[s], Off}
                           /\ left'[s] \in -1..MaxDelay \cup {Off}
      BY <1>0, LeftIsLeftOf, KeptLeft, LeftOfType
    <2>9. left' \in [Timer -> -1..MaxDelay \cup {Off}] BY <2>8 DEF left
    <2>10. S \in SUBSET Service!Running OBVIOUS
    <2>11. {t} \cap (Service!Running \ S) = {}
      <3>1. LeftOf(q)[t] = Off BY <2>2, LeftOfOther
      <3> QED BY <3>1
    <2>12. \A s \in Timer : IF s \in {t} THEN left'[s] \in 0..MaxDelay
                            ELSE left'[s] = IF s \in S THEN Off ELSE left[s]
      BY <2>1, <2>7, <2>8 DEF Service!Running
    <2> HIDE DEF S
    <2>13. {t} \in SUBSET Timer /\ \A s, v \in {t} : s = v OBVIOUS
    <2> QED BY <2>9, <2>10, <2>11, <2>12, <2>13 DEF Service!Change
  <1> QED BY <1>1, <1>2

LEMMA OthersKept ==
    ASSUME Good(timeout), NEW h, NEW e, NEW u, NEW q \in Others(h, e, u)
    PROVE  Good(q) /\ Kept(timeout, q)
  <1> DEFINE keep == [j \in 1..Len(timeout) |-> ~Matches(timeout[j], h, e, u)]
             S == {j \in 1..Len(timeout) : keep[j]}
             N == 1..Cardinality(S)
  <1>1. q \in Filtered(timeout, keep) BY DEF Others
  <1>2. Good(q) BY <1>1, FilteredGood
  <1>3. PICK f \in [N -> S] : q = [a \in N |-> timeout[f[a]]] BY <1>1 DEF Filtered
  <1>4. Cardinality(S) \in Nat
    <2>1. IsFiniteSet(1..Len(timeout)) BY FS_Interval DEF Good
    <2>2. S \subseteq 1..Len(timeout) OBVIOUS
    <2> HIDE DEF S
    <2> QED BY <2>1, <2>2, FS_Subset, FS_CardinalityType
  <1>5. S \subseteq 1..Len(timeout) OBVIOUS
  <1> HIDE DEF S
  <1>6. DOMAIN q = N /\ Len(q) = Cardinality(S) BY <1>2, <1>3, <1>4 DEF Good
  <1>7. \A n \in 1..Len(q) : f[n] \in 1..Len(timeout) /\ q[n] = timeout[f[n]]
    BY <1>3, <1>5, <1>6
  <1> QED BY <1>2, <1>7 DEF Kept

LEMMA RemoveKept ==
    ASSUME Good(timeout), NEW n \in 1..Len(timeout), Remove(n)
    PROVE  Good(timeout') /\ Kept(timeout, timeout')
  <1>1. Good(timeout') BY RemoveGood
  <1>2. Len(timeout) \in Nat /\ Len(timeout') = Len(timeout) - 1
    BY DEF Good, Remove
  <1>3. \A j \in 1..Len(timeout') :
          /\ j < n => j \in 1..Len(timeout) /\ timeout'[j] = timeout[j]
          /\ j >= n => j + 1 \in 1..Len(timeout) /\ timeout'[j] = timeout[j + 1]
    BY <1>2 DEF Remove
  <1>4. \A j \in 1..Len(timeout') : j < n \/ j >= n OBVIOUS
  <1> QED BY <1>1, <1>3, <1>4 DEF Kept

\* Every call of the interface is a change of the service.
LEMMA CallIsChange == ASSUME Good(timeout), Call \/ Clear PROVE Service!Change
  <1>1. ASSUME NEW d \in 0..MaxDelay + 1, NEW h \in Handler,
               NEW e \in Context, NEW u \in Context
        PROVE  /\ Register(d, h, e, u) => Service!Change
               /\ Restart(d, h, e, u) => Service!Change
    <2>1. Kept(timeout, timeout) BY DEF Kept
    <2>2. Register(d, h, e, u) => Service!Change BY <2>1, AddIsChange DEF Register
    <2>3. ASSUME Restart(d, h, e, u) PROVE Service!Change
      <3>1. PICK q \in Others(h, e, u) : Added(q, d, h, e, u) BY <2>3 DEF Restart
      <3> QED BY <3>1, OthersKept, AddIsChange
    <2> QED BY <2>2, <2>3
  <1>2. ASSUME NEW d \in 0..MaxDelay + 1, NEW h \in Handler,
               NEW e \in Context, NEW u \in Context,
               Deplete(d, h, e, u) \/ Replenish(d, h, e, u)
        PROVE  Service!Change
    BY <1>1, <1>2 DEF Deplete, Replenish
  <1>3. ASSUME NEW h, NEW e, NEW u, Cancel(h, e, u) PROVE Service!Change
    <2>1. timeout' \in Others(h, e, u) BY <1>3 DEF Cancel
    <2> QED BY <2>1, OthersKept, StopIsChange
  <1>4. ASSUME NEW h, NEW e, NEW u, CancelOne(h, e, u) PROVE Service!Change
    <2>1. PICK n \in 1..Len(timeout) : Remove(n) BY <1>4 DEF CancelOne, First
    <2> QED BY <2>1, RemoveKept, StopIsChange
  <1>5. ASSUME Clear PROVE Service!Change
    <2>1. Good(timeout') /\ Kept(timeout, timeout') BY <1>5 DEF Clear, Good, Kept
    <2> QED BY <2>1, StopIsChange
  <1> QED BY <1>1, <1>2, <1>3, <1>4, <1>5 DEF Call, Extend

\* The clock of the list is that of the service.
LEMMA TickIsTick == ASSUME Good(timeout), Tick PROVE Service!Tick
  <1> DEFINE q == timeout
             r == timeout'
  <1>1. Good(r) BY TickGood
  <1>2. Len(r) = Len(q)
    BY DEF Tick, Elapsed, Good
  <1>3. ASSUME NEW n \in 1..Len(q)
        PROVE  /\ r[n].id = q[n].id
               /\ r[n].left = IF q[n].left > -1 THEN q[n].left - 1 ELSE q[n].left
    <2>1. q[n] \in Entry BY DEF Good
    <2>2. r[n] = [q[n] EXCEPT !.left = IF @ > -1 THEN @ - 1 ELSE @] BY DEF Tick, Elapsed
    <2> QED BY <2>1, <2>2 DEF Entry
  <1>4. ASSUME NEW t \in Timer
        PROVE  left'[t] = IF left[t] \in 0..MaxDelay THEN left[t] - 1 ELSE left[t]
    <2>1. CASE \E n \in 1..Len(q) : q[n].id = t
      <3>1. PICK n \in 1..Len(q) : q[n].id = t BY <2>1
      <3>2. left[t] = q[n].left /\ q[n].left \in -1..MaxDelay
        BY <3>1, LeftOfEntry, LeftIsLeftOf
      <3>3. left'[t] = r[n].left BY <1>1, <1>2, <1>3, <3>1, LeftOfEntry, LeftIsLeftOf
      <3> QED BY <1>3, <3>2, <3>3, TimersAssumption
    <2>2. CASE \A n \in 1..Len(q) : q[n].id # t
      <3>1. left[t] = Off BY <2>2, LeftOfOther, LeftIsLeftOf
      <3>2. left'[t] = Off BY <1>2, <1>3, <2>2, LeftOfOther, LeftIsLeftOf
      <3>3. Off \notin 0..MaxDelay BY TimersAssumption
      <3> QED BY <3>1, <3>2, <3>3
    <2> QED BY <2>1, <2>2
  <1>5. left' = [t \in Timer |-> left'[t]] BY DEF left
  <1> QED BY <1>4, <1>5 DEF Service!Tick

\* The turn of the loop that calls a timeout is an expiry of the service.
LEMMA ExpireIsExpire ==
    ASSUME Good(timeout), Expire
    PROVE  Service!Expire
  <1> DEFINE q == timeout
             r == timeout'
             t == q[1].id
  <1>1. q \in Seq(Entry) /\ 1 \in 1..Len(q) /\ q[1].left <= 0 /\ Remove(1)
    BY DEF Expire, Good
  <1>2. /\ Len(r) = Len(q) - 1
        /\ \A j \in 1..Len(r) : r[j] = q[j + 1] /\ j + 1 \in 1..Len(q)
    BY <1>1 DEF Remove
  <1>3. Good(r) /\ Kept(q, r) BY <1>1, RemoveKept
  <1>4. t \in Timer /\ left[t] = q[1].left /\ left[t] # Off
    BY <1>1, LeftOfEntry, LeftIsLeftOf
  <1>5. left'[t] = Off
    <2>1. \A n \in 1..Len(r) : r[n].id # t
      <3> SUFFICES ASSUME NEW n \in 1..Len(r), r[n].id = t PROVE FALSE
        OBVIOUS
      <3>1. n + 1 = 1 BY <1>1, <1>2 DEF Good
      <3> QED BY <3>1, <1>1, <1>2
    <2> QED BY <1>4, <2>1, LeftOfOther, LeftIsLeftOf
  <1>6. ASSUME NEW u \in Timer, u # t PROVE left'[u] = left[u]
    <2>1. CASE \E n \in 1..Len(q) : q[n].id = u
      <3>1. PICK n \in 1..Len(q) : q[n].id = u BY <2>1
      <3>2. n - 1 \in 1..Len(r) /\ r[n - 1] = q[n] BY <1>1, <1>2, <1>6, <3>1
      <3> QED BY <1>3, <3>1, <3>2, LeftOfEntry, LeftIsLeftOf
    <2>2. CASE \A n \in 1..Len(q) : q[n].id # u
      <3>1. \A n \in 1..Len(r) : r[n].id # u BY <1>2, <2>2
      <3> QED BY <2>2, <3>1, LeftOfOther, LeftIsLeftOf
    <2> QED BY <2>1, <2>2
  <1>7. left' = [left EXCEPT ![t] = Off]
    <2>1. DOMAIN left = Timer /\ left' = [u \in Timer |-> left'[u]] BY DEF left
    <2>2. \A u \in Timer : left'[u] = [left EXCEPT ![t] = Off][u]
      BY <1>4, <1>5, <1>6, <2>1
    <2> QED BY <2>1, <2>2
  <1>8. t \in Service!Running /\ left[t] <= 0
    BY <1>1, <1>4 DEF Service!Running
  <1>9. \A u \in Service!Running : left[t] <= left[u]
    <2> SUFFICES ASSUME NEW u \in Timer, left[u] # Off PROVE left[t] <= left[u]
      BY DEF Service!Running
    <2>1. PICK n \in 1..Len(q) : q[n].id = u BY LeftOfType, LeftIsLeftOf
    <2>2. left[u] = q[n].left /\ q[n].left \in Int /\ q[1].left \in Int
      BY <1>1, <2>1, LeftOfEntry, LeftIsLeftOf
    <2> QED BY <1>1, <1>4, <2>1, <2>2 DEF Good
  <1> QED BY <1>7, <1>8, <1>9 DEF Service!Expire

\* No timeout is called early, or before one that is due earlier.
THEOREM TimersExpireInOrder == Spec => ExpiresInOrder
  <1>1. Init => Good(timeout) BY DEF Init, Good
  <1>2. Good(timeout) /\ [Next]_timeout => Good(timeout)' BY NextGood DEF Good
  <1>3. Good(timeout) => [Expire => Service!Expire]_timeout BY ExpireIsExpire
  <1> QED BY <1>1, <1>2, <1>3, PTL DEF Spec, ExpiresInOrder

\* The list of eloop.c is a timer service: it starts empty, and each of its
\* steps is a step of the service or changes no time.
THEOREM TimersRefine == Spec => ImplementsTimers
  <1>1. Init => Good(timeout) BY DEF Init, Good
  <1>2. Good(timeout) /\ [Next]_timeout => Good(timeout)' BY NextGood DEF Good
  <1>3. Init => Service!Init BY DEF Init, left, Ids, Service!Init
  <1>4. Good(timeout) /\ [Next]_timeout => [Service!Next]_left
    <2> SUFFICES ASSUME Good(timeout), [Next]_timeout
                 PROVE  [Service!Next]_left
      OBVIOUS
    <2>1. CASE UNCHANGED timeout BY <2>1 DEF left, Ids
    <2> QED BY <2>1, CallIsChange, ExpireIsExpire, TickIsTick DEF Next, Service!Next
  <1> QED BY <1>1, <1>2, <1>3, <1>4, PTL DEF Spec, ImplementsTimers, Service!Spec

=============================================================================

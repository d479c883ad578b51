---------------------------- MODULE EloopProofs ----------------------------
(***************************************************************************)
(* Signals and the event loop of hostapd/eloop.c: whatever the program     *)
(* calls, and between whichever steps signals arrive, none is forgotten.   *)
(* Then the types, the timeouts as a part of the loop, and on what         *)
(* condition a callback is only called for an event of its own socket.     *)
(***************************************************************************)
EXTENDS Eloop, TLAPS

SignalRecord == [sig : Sig, signaled : BOOLEAN]

\* NoLostSignal is inductive for an array of signals and an index into it.
SignalInv == /\ signals \in Seq(SignalRecord)
             /\ i \in Nat \ {0}
             /\ NoLostSignal

LEMMA RecordFlag ==
    ASSUME NEW x \in SignalRecord, NEW b \in BOOLEAN
    PROVE  [x EXCEPT !.signaled = b] \in SignalRecord
  BY DEF SignalRecord

\* A step that neither flags an entry nor leaves the loop over the array
\* forgets no signal.
LEMMA QuietStep ==
    ASSUME SignalInv, UNCHANGED <<signals, signaled>>,
           \/ UNCHANGED <<pc, job, i>>
           \/ i' \in Nat \ {0} /\ pc \notin {"pending", "killed", "destroyed", "scan", "callback"}
           \/ i' \in Nat \ {0} /\ pc = "callback" /\ job # "signal"
           \/ UNCHANGED i /\ pc' \in {"killed", "destroyed"}
    PROVE  SignalInv'
  BY DEF SignalInv, NoLostSignal

\* eloop_handle_signal sets eloop.signaled, whatever entry it flags.
LEMMA HandleSignalInv ==
    ASSUME SignalInv, NEW sig \in Sig, HandleSignal(sig)
    PROVE  SignalInv'
  <1> DEFINE r == [n \in 1..Len(signals) |->
                     IF n \in FirstSignal(sig) THEN [signals[n] EXCEPT !.signaled = TRUE]
                                               ELSE signals[n]]
  <1>1. signals' = r /\ signaled' = TRUE /\ i' = i BY DEF HandleSignal
  <1>2. signals \in Seq(SignalRecord) BY DEF SignalInv
  <1>3. ASSUME NEW n \in 1..Len(signals) PROVE r[n] \in SignalRecord
    <2>1. signals[n] \in SignalRecord BY <1>2
    <2>2. [signals[n] EXCEPT !.signaled = TRUE] \in SignalRecord BY <2>1, RecordFlag
    <2> QED BY <2>1, <2>2
  <1>4. Len(signals) \in Nat BY <1>2
  <1>5. r \in [1..Len(signals) -> SignalRecord] BY <1>3
  <1> HIDE DEF r
  <1>6. r \in Seq(SignalRecord) BY <1>4, <1>5
  <1> QED BY <1>1, <1>6 DEF SignalInv, NoLostSignal

\* The new entry is not flagged, the others keep their places.
LEMMA RegisterSignalInv ==
    ASSUME SignalInv, NEW sig \in Sig, RegisterSignal(sig)
    PROVE  SignalInv'
  <1> DEFINE x == [sig |-> sig, signaled |-> FALSE]
  <1>1. /\ signals' = Append(signals, x) /\ signaled' = signaled
        /\ i' = i /\ pc' = pc /\ job' = job
    BY DEF RegisterSignal, loopVars
  <1>2. signals \in Seq(SignalRecord) /\ i \in Nat BY DEF SignalInv
  <1>3. x \in SignalRecord /\ ~x.signaled BY DEF SignalRecord
  <1> HIDE DEF x
  <1>4. signals' \in Seq(SignalRecord) /\ Len(signals') = Len(signals) + 1
    BY <1>1, <1>2, <1>3
  <1>5. \A n \in 1..Len(signals') : signals'[n].signaled =>
            n \in 1..Len(signals) /\ signals[n].signaled
    <2> SUFFICES ASSUME NEW n \in 1..Len(signals'), signals'[n].signaled
                 PROVE  n \in 1..Len(signals) /\ signals[n].signaled
      OBVIOUS
    <2>1. n = Len(signals) + 1 => signals'[n] = x BY <1>1, <1>2
    <2>2. n \in 1..Len(signals) => signals'[n] = signals[n] BY <1>1, <1>2
    <2> QED BY <1>2, <1>3, <1>4, <2>1, <2>2
  <1> QED BY <1>1, <1>2, <1>4, <1>5 DEF SignalInv, NoLostSignal

\* The loop over the array resets a flag before it calls the callback, and is
\* past an entry only when its flag is off or eloop.signaled is on again.
LEMMA ScanSignalInv == ASSUME SignalInv, ScanSignal PROVE SignalInv'
  <1> USE DEF SignalInv, NoLostSignal
  <1>1. pc = "scan" /\ signaled' = signaled BY DEF ScanSignal
  <1>2. signals \in Seq(SignalRecord) /\ i \in Nat \ {0} OBVIOUS
  <1>3. CASE i > Len(signals)
    <2>1. pc' = "expire" /\ UNCHANGED <<signals, job, i>> BY <1>3 DEF ScanSignal
    <2> QED BY <1>1, <1>2, <1>3, <2>1
  <1>4. CASE i <= Len(signals) /\ signals[i].signaled
    <2>1. /\ signals' = [signals EXCEPT ![i].signaled = FALSE]
          /\ pc' = "callback" /\ job' = "signal" /\ i' = i
      BY <1>2, <1>4 DEF ScanSignal
    <2>2. i \in 1..Len(signals) /\ [signals[i] EXCEPT !.signaled = FALSE] \in SignalRecord
      <3>1. i \in 1..Len(signals) BY <1>2, <1>4
      <3>2. signals[i] \in SignalRecord BY <1>2, <3>1
      <3> QED BY <3>1, <3>2, RecordFlag
    <2>3. signals' \in Seq(SignalRecord) /\ Len(signals') = Len(signals)
      <3> DEFINE x == [signals[i] EXCEPT !.signaled = FALSE]
      <3>1. signals' = [signals EXCEPT ![i] = x] BY <2>1
      <3>2. x \in SignalRecord BY <2>2
      <3> HIDE DEF x
      <3> QED BY <1>2, <2>2, <3>1, <3>2
    <2>4. \A n \in 1..Len(signals) : signals'[n].signaled =>
              n # i /\ signals[n].signaled
      <3> SUFFICES ASSUME NEW n \in 1..Len(signals), signals'[n].signaled
                   PROVE  n # i /\ signals[n].signaled
        OBVIOUS
      <3>1. n # i => signals'[n] = signals[n] BY <1>2, <2>1
      <3>2. n = i => signals'[n] = [signals[n] EXCEPT !.signaled = FALSE]
        BY <1>2, <2>1
      <3>3. signals[n] \in SignalRecord BY <1>2
      <3> QED BY <3>1, <3>2, <3>3 DEF SignalRecord
    <2> QED BY <1>1, <1>2, <2>1, <2>3, <2>4
  <1>5. CASE i <= Len(signals) /\ ~signals[i].signaled
    <2>1. i' = i + 1 /\ UNCHANGED <<signals, job, pc>> BY <1>2, <1>5 DEF ScanSignal
    <2> QED BY <1>1, <1>2, <1>5, <2>1
  <1> QED BY <1>2, <1>3, <1>4, <1>5

LEMMA SignalStep == ASSUME SignalInv, [Next]_vars PROVE SignalInv'
  <1> USE DEF loopVars, signalVars
  <1>1. CASE Interface
    <2>1. ASSUME NEW t, NEW s, RegisterSock(t, s) \/ UnregisterSock(t, s)
          PROVE  SignalInv'
      BY <2>1, QuietStep DEF RegisterSock, UnregisterSock
    <2>2. CASE CallTimers \/ Terminate BY <2>2, QuietStep DEF CallTimers, Terminate
    <2>3. CASE Destroy BY <2>3, QuietStep DEF Destroy
    <2> QED BY <1>1, <2>1, <2>2, <2>3, RegisterSignalInv DEF Interface
  <1>2. CASE Initialize
    <2>1. signals' = <<>> /\ i' = i BY <1>2 DEF Initialize
    <2> QED BY <2>1 DEF SignalInv, NoLostSignal
  <1>3. CASE Run \/ SelectFails BY <1>3, QuietStep DEF Run, SelectFails, SignalInv
  <1>4. CASE Loop
    <2>1. CASE Top \/ Select \/ Wake BY <2>1, QuietStep DEF Top, Select, Wake, SignalInv
    <2>2. CASE TestSignaled
      BY <2>2 DEF TestSignaled, SignalInv, NoLostSignal
    <2>3. CASE TestPending
      BY <2>3 DEF TestPending, SignalInv, NoLostSignal
    <2>4. CASE CallTimeout \/ NoTimeout
      BY <2>4, QuietStep DEF CallTimeout, NoTimeout, SignalInv
    <2>5. CASE StartTable \/ CallSock \/ SkipSock
      BY <2>5, QuietStep DEF StartTable, CallSock, SkipSock, SignalInv
    <2>6. CASE Return
      <3>1. CASE job = "signal"
        <4>1. pc = "callback" /\ pc' = "scan" /\ i' = i + 1
              /\ UNCHANGED <<signals, signaled>>
          BY <2>6, <3>1 DEF Return
        <4> QED BY <3>1, <4>1 DEF SignalInv, NoLostSignal
      <3>2. CASE job # "signal"
        BY <2>6, <3>2, QuietStep DEF Return, SignalInv
      <3> QED BY <3>1, <3>2
    <2> QED BY <1>4, <2>1, <2>2, <2>3, <2>4, <2>5, <2>6, ScanSignalInv DEF Loop
  <1>5. CASE HandleAlarm BY <1>5, QuietStep DEF HandleAlarm
  <1>6. ASSUME NEW t, NEW s, Arrive(t, s) PROVE SignalInv'
    BY <1>6, QuietStep DEF Arrive
  <1>7. CASE Tick BY <1>7, QuietStep DEF Tick
  <1>8. CASE UNCHANGED vars BY <1>8, QuietStep DEF vars
  <1> QED
    BY <1>1, <1>2, <1>3, <1>4, <1>5, <1>6, <1>7, <1>8, HandleSignalInv DEF Next

\* No signal is forgotten, for any number of signals, sockets and timeouts.
THEOREM SignalsKept == Spec => []NoLostSignal
  <1>1. Init => SignalInv BY DEF Init, SignalInv, NoLostSignal
  <1>2. SignalInv /\ [Next]_vars => SignalInv' BY SignalStep
  <1>3. SignalInv => NoLostSignal BY DEF SignalInv
  <1> QED BY <1>1, <1>2, <1>3, PTL DEF Spec

-----------------------------------------------------------------------------
(* The list of timeouts in the loop is the list of EloopTimers, and what is *)
(* proved of that list holds of this one.                                  *)

TimerProofs == INSTANCE EloopTimersProofs WITH
    timeout <- timeout, Timer <- Timer, Handler <- Handler, Context <- Context,
    ALL_CTX <- ALL_CTX, MaxDelay <- MaxDelay, Off <- Off

LEMMA SameTimers ==
    /\ Timers!TypeOK <=> TimerProofs!TypeOK
    /\ Timers!Sorted <=> TimerProofs!Sorted
    /\ Timers!Next <=> TimerProofs!Next
  <1>1. Timers!TypeOK <=> TimerProofs!TypeOK
    BY DEF Timers!TypeOK, TimerProofs!TypeOK, Timers!Entry, TimerProofs!Entry
  <1>2. Timers!Sorted <=> TimerProofs!Sorted
    BY DEF Timers!Sorted, TimerProofs!Sorted, Timers!Before, TimerProofs!Before
  <1>3. \A t, h, e, u : Timers!Matches(t, h, e, u) = TimerProofs!Matches(t, h, e, u)
    BY DEF Timers!Matches, TimerProofs!Matches
  <1>4. \A q, keep : Timers!Filtered(q, keep) = TimerProofs!Filtered(q, keep)
    <2>1. \A S : Timers!Cardinality(S) = TimerProofs!Cardinality(S)
      BY DEF Timers!Cardinality, TimerProofs!Cardinality
    <2> QED BY <2>1 DEF Timers!Filtered, TimerProofs!Filtered
  <1>5. \A h, e, u : Timers!Others(h, e, u) = TimerProofs!Others(h, e, u)
    BY <1>4 DEF Timers!Others, TimerProofs!Others, Timers!Matches, TimerProofs!Matches
  <1>6. \A h, e, u : Timers!First(h, e, u) = TimerProofs!First(h, e, u)
    BY DEF Timers!First, TimerProofs!First, Timers!Matches, TimerProofs!Matches
  <1>7. \A q, d, h, e, u : Timers!Added(q, d, h, e, u) <=> TimerProofs!Added(q, d, h, e, u)
    BY DEF Timers!Added, TimerProofs!Added, Timers!Place, TimerProofs!Place,
           Timers!Before, TimerProofs!Before, Timers!Put, TimerProofs!Put
  <1>8. \A n : Timers!Remove(n) <=> TimerProofs!Remove(n)
    BY DEF Timers!Remove, TimerProofs!Remove
  <1>9. Timers!Tick <=> TimerProofs!Tick
    BY DEF Timers!Tick, TimerProofs!Tick, Timers!Elapsed, TimerProofs!Elapsed
  <1>10. Timers!Clear \/ Timers!Expire <=> TimerProofs!Clear \/ TimerProofs!Expire
    BY <1>8 DEF Timers!Clear, TimerProofs!Clear, Timers!Expire, TimerProofs!Expire
  <1>11. \A d, h, e, u : Timers!Restart(d, h, e, u) <=> TimerProofs!Restart(d, h, e, u)
    BY <1>5, <1>7 DEF Timers!Restart, TimerProofs!Restart
  <1>12. Timers!Call <=> TimerProofs!Call
    BY <1>5, <1>6, <1>7, <1>8, <1>11
    DEF Timers!Call, TimerProofs!Call, Timers!Extend, TimerProofs!Extend,
        Timers!Register, TimerProofs!Register, Timers!Deplete, TimerProofs!Deplete,
        Timers!Replenish, TimerProofs!Replenish, Timers!Cancel, TimerProofs!Cancel,
        Timers!CancelOne, TimerProofs!CancelOne
  <1> QED BY <1>1, <1>2, <1>9, <1>10, <1>12 DEF Timers!Next, TimerProofs!Next

\* The list keeps its type and its order in every step of the timers.
LEMMA TimersStep ==
    ASSUME Timers!TypeOK, Timers!Sorted, [Timers!Next]_timeout
    PROVE  Timers!TypeOK' /\ Timers!Sorted'
  <1>1. TimerProofs!TimersAssumption BY EloopAssumption DEF TimerProofs!TimersAssumption
  <1>2. TimerProofs!Good(timeout) BY <1>1, SameTimers, TimerProofs!GoodIsInv
  <1>3. TimerProofs!Good(timeout') BY <1>1, <1>2, SameTimers, TimerProofs!NextGood
  <1>4. Timers!TypeOK'
    BY <1>3 DEF TimerProofs!Good, Timers!TypeOK, Timers!Entry, TimerProofs!Entry
  <1>5. ASSUME NEW a \in 1..Len(timeout'), NEW b \in 1..Len(timeout'), a < b
        PROVE  ~(timeout'[b].left < timeout'[a].left)
    <2>1. timeout'[a].left <= timeout'[b].left BY <1>3, <1>5 DEF TimerProofs!Good
    <2>2. timeout'[a] \in Timers!Entry /\ timeout'[b] \in Timers!Entry
      BY <1>4 DEF Timers!TypeOK
    <2>3. timeout'[a].left \in Int /\ timeout'[b].left \in Int
      BY <2>2, EloopAssumption DEF Timers!Entry
    <2> QED BY <2>1, <2>3
  <1> QED BY <1>4, <1>5 DEF Timers!Sorted, Timers!Before

\* Every step of the loop is one of its timers or leaves them alone.
LEMMA NextTimers == ASSUME [Next]_vars PROVE [Timers!Next]_timeout
  <1>1. CASE Interface
    <2>1. ASSUME NEW t, NEW s, RegisterSock(t, s) \/ UnregisterSock(t, s)
          PROVE  UNCHANGED timeout
      BY <2>1 DEF RegisterSock, UnregisterSock
    <2>2. ASSUME NEW sig, RegisterSignal(sig) PROVE UNCHANGED timeout
      BY <2>2 DEF RegisterSignal
    <2>3. CallTimers \/ Terminate \/ Destroy => [Timers!Next]_timeout
      BY DEF CallTimers, Terminate, Destroy, Timers!Next
    <2> QED BY <1>1, <2>1, <2>2, <2>3 DEF Interface
  <1>2. CASE Loop
    <2>1. ~CallTimeout => UNCHANGED timeout
      BY <1>2 DEF Loop, Top, Select, Wake, TestSignaled, TestPending, ScanSignal, NoTimeout,
                  StartTable, CallSock, SkipSock, Return
    <2>2. CallTimeout => Timers!Expire BY DEF CallTimeout
    <2> QED BY <2>1, <2>2 DEF Timers!Next
  <1>3. Initialize \/ Run \/ SelectFails \/ HandleAlarm => UNCHANGED timeout
    BY DEF Initialize, Run, SelectFails, HandleAlarm
  <1>4. ASSUME NEW sig, HandleSignal(sig) PROVE UNCHANGED timeout BY <1>4 DEF HandleSignal
  <1>5. ASSUME NEW t, NEW s, Arrive(t, s) PROVE UNCHANGED timeout BY <1>5 DEF Arrive
  <1>6. Tick => Timers!Next BY DEF Tick, Timers!Next
  <1>7. UNCHANGED vars => UNCHANGED timeout BY DEF vars
  <1> QED BY <1>1, <1>2, <1>3, <1>4, <1>5, <1>6, <1>7 DEF Next

SockEntry == [sock : Sock, polled : BOOLEAN]

TablesType ==
    /\ table \in [Type -> Seq(SockEntry)]
    /\ changed \in [Type -> BOOLEAN]
    /\ max_sock \in Sock \cup {0}
    /\ fds \in [Type -> SUBSET Sock]
    /\ ready \subseteq Type \X Sock

SignalsType ==
    /\ signals \in Seq(SignalRecord)
    /\ {signaled, pending_terminate, alarm} \subseteq BOOLEAN
    /\ installed \subseteq Sig

\* The thread is in the dispatch of a table only when there is one.
LoopType ==
    /\ terminate \in BOOLEAN
    /\ pc \in {"idle", "destroyed", "top", "select", "wait", "signals", "pending", "scan",
               "expire", "table", "dispatch", "callback", "killed"}
    /\ job \in {"signal", "timeout", "socket"}
    /\ ty \in 1..Len(Types) + 1 /\ i \in Nat \ {0}
    /\ pc = "dispatch" \/ (pc = "callback" /\ job = "socket") => ty <= Len(Types)

LEMMA TypesLen == Len(Types) \in Nat /\ \A n \in 1..Len(Types) : Types[n] \in Type
  BY EloopAssumption DEF Type

LEMMA TablesStep ==
    ASSUME TablesType, LoopType, [Next]_vars
    PROVE  TablesType'
  <1> USE DEF loopVars, signalVars, tableVars
  <1>1. ASSUME UNCHANGED <<table, changed, max_sock, fds, ready>> PROVE TablesType'
    BY <1>1 DEF TablesType
  <1>2. ASSUME NEW t \in Type, NEW s \in Sock, RegisterSock(t, s) PROVE TablesType'
    <2> DEFINE x == [sock |-> s, polled |-> FALSE]
    <2>1. x \in SockEntry BY DEF SockEntry
    <2>2. table' = [table EXCEPT ![t] = Append(@, x)] BY <1>2 DEF RegisterSock
    <2> HIDE DEF x
    <2>3. table[t] \in Seq(SockEntry) BY DEF TablesType
    <2>4. Append(table[t], x) \in Seq(SockEntry) BY <2>1, <2>3
    <2>5. table' \in [Type -> Seq(SockEntry)] BY <2>2, <2>4 DEF TablesType
    <2> QED BY <1>2, <2>5 DEF RegisterSock, TablesType
  <1>3. ASSUME NEW t \in Type, NEW s \in Sock, UnregisterSock(t, s) PROVE TablesType'
    <2>1. PICK n \in 1..Len(table[t]) :
            table' = [table EXCEPT ![t] = [j \in 1..Len(@) - 1 |->
                                             IF j < n THEN @[j] ELSE @[j + 1]]]
      BY <1>3 DEF UnregisterSock
    <2> DEFINE q == [j \in 1..Len(table[t]) - 1 |->
                       IF j < n THEN table[t][j] ELSE table[t][j + 1]]
    <2>2. table[t] \in Seq(SockEntry) /\ Len(table[t]) \in Nat BY DEF TablesType
    <2>3. \A j \in 1..Len(table[t]) : table[t][j] \in SockEntry BY <2>2
    <2>4. \A j \in 1..Len(table[t]) - 1 :
            IF j < n THEN table[t][j] \in SockEntry ELSE table[t][j + 1] \in SockEntry
      BY <2>2, <2>3
    <2>5. q \in [1..Len(table[t]) - 1 -> SockEntry] BY <2>4
    <2>6. Len(table[t]) - 1 \in Nat BY <2>2
    <2>7. table' = [table EXCEPT ![t] = q] BY <2>1
    <2> HIDE DEF q
    <2>8. q \in Seq(SockEntry) BY <2>5, <2>6
    <2>9. table' \in [Type -> Seq(SockEntry)] BY <2>7, <2>8 DEF TablesType
    <2> QED BY <1>3, <2>9 DEF UnregisterSock, TablesType
  <1>4. CASE Select
    <2>1. /\ fds' = [t \in Type |-> Listed(t)]
          /\ table' = [t \in Type |-> [n \in 1..Len(table[t]) |->
                                         [table[t][n] EXCEPT !.polled = TRUE]]]
          /\ UNCHANGED <<changed, max_sock, ready>>
      BY <1>4 DEF Select
    <2>2. ASSUME NEW t \in Type
          PROVE  /\ Listed(t) \subseteq Sock
                 /\ [n \in 1..Len(table[t]) |-> [table[t][n] EXCEPT !.polled = TRUE]]
                      \in Seq(SockEntry)
      <3>1. table[t] \in Seq(SockEntry) /\ Len(table[t]) \in Nat BY DEF TablesType
      <3>2. \A n \in 1..Len(table[t]) : table[t][n] \in SockEntry BY <3>1
      <3>3. \A n \in 1..Len(table[t]) : /\ table[t][n].sock \in Sock
                                        /\ [table[t][n] EXCEPT !.polled = TRUE] \in SockEntry
        BY <3>2 DEF SockEntry
      <3> DEFINE q == [n \in 1..Len(table[t]) |-> [table[t][n] EXCEPT !.polled = TRUE]]
      <3>4. q \in [1..Len(table[t]) -> SockEntry] BY <3>3
      <3> HIDE DEF q
      <3>5. q \in Seq(SockEntry) BY <3>1, <3>4
      <3> QED BY <3>3, <3>5 DEF Listed, q
    <2> QED BY <2>1, <2>2 DEF TablesType
  <1>5. CASE Wake BY <1>5 DEF Wake, TablesType
  <1>6. CASE StartTable
    <2>1. pc = "table" /\ UNCHANGED <<table, max_sock, fds, ready>> BY <1>6 DEF StartTable
    <2>2. CASE ty > Len(Types) BY <1>1, <1>6, <2>1, <2>2 DEF StartTable
    <2>3. CASE ~(ty > Len(Types))
      <3>1. changed' = [changed EXCEPT ![Types[ty]] = FALSE] BY <1>6, <2>3 DEF StartTable
      <3> QED BY <2>1, <3>1 DEF TablesType
    <2> QED BY <2>2, <2>3
  <1>7. CASE CallSock BY <1>7 DEF CallSock, TablesType
  <1>8. ASSUME NEW sig \in Sig, HandleSignal(sig) PROVE TablesType'
    BY <1>8 DEF HandleSignal, TablesType
  <1>9. CASE Initialize
    <2>1. <<>> \in Seq(SockEntry) OBVIOUS
    <2> QED BY <1>9, <2>1 DEF Initialize, TablesType
  <1>10. ASSUME NEW t \in Type, NEW s \in Sock, Arrive(t, s) PROVE TablesType'
    BY <1>10 DEF Arrive, TablesType
  <1>11. CASE Interface
    <2>1. ASSUME NEW sig \in Sig, RegisterSignal(sig) PROVE TablesType'
      BY <1>1, <2>1 DEF RegisterSignal
    <2>2. CallTimers \/ Terminate \/ Destroy => TablesType'
      BY <1>1 DEF CallTimers, Terminate, Destroy
    <2> QED BY <1>2, <1>3, <1>11, <2>1, <2>2 DEF Interface
  <1>12. CASE Loop
    <2>1. Top \/ TestSignaled \/ TestPending \/ ScanSignal \/ CallTimeout \/ NoTimeout
            \/ SkipSock \/ Return => TablesType'
      BY <1>1 DEF Top, TestSignaled, TestPending, ScanSignal, CallTimeout, NoTimeout,
                  SkipSock, Return
    <2> QED BY <1>4, <1>5, <1>6, <1>7, <1>12, <2>1 DEF Loop
  <1>13. Run \/ SelectFails \/ HandleAlarm \/ Tick \/ UNCHANGED vars => TablesType'
    BY <1>1 DEF Run, SelectFails, HandleAlarm, Tick, vars
  <1> QED BY <1>8, <1>9, <1>10, <1>11, <1>12, <1>13 DEF Next

LEMMA SignalsStep ==
    ASSUME SignalsType, SignalInv', [Next]_vars
    PROVE  SignalsType'
  <1> USE DEF loopVars, signalVars
  <1>0. signals' \in Seq(SignalRecord) BY DEF SignalInv
  <1>1. ASSUME UNCHANGED <<signaled, pending_terminate, alarm, installed>> PROVE SignalsType'
    BY <1>0, <1>1 DEF SignalsType
  <1>2. CASE Interface
    <2>1. ASSUME NEW t, NEW s, RegisterSock(t, s) \/ UnregisterSock(t, s) PROVE SignalsType'
      BY <1>1, <2>1 DEF RegisterSock, UnregisterSock
    <2>2. ASSUME NEW sig \in Sig, RegisterSignal(sig) PROVE SignalsType'
      BY <1>0, <2>2 DEF RegisterSignal, SignalsType
    <2>3. CallTimers \/ Terminate \/ Destroy => SignalsType'
      BY <1>1 DEF CallTimers, Terminate, Destroy
    <2> QED BY <1>2, <2>1, <2>2, <2>3 DEF Interface
  <1>3. CASE Loop
    <2>1. CASE TestSignaled \/ TestPending
      BY <1>0, <2>1 DEF TestSignaled, TestPending, SignalsType
    <2>2. Top \/ Select \/ Wake \/ ScanSignal \/ CallTimeout \/ NoTimeout \/ StartTable
            \/ CallSock \/ SkipSock \/ Return => SignalsType'
      BY <1>1 DEF Top, Select, Wake, ScanSignal, CallTimeout, NoTimeout, StartTable,
                  CallSock, SkipSock, Return
    <2> QED BY <1>3, <2>1, <2>2 DEF Loop
  <1>4. ASSUME NEW sig \in Sig, HandleSignal(sig) PROVE SignalsType'
    BY <1>0, <1>4 DEF HandleSignal, SignalsType
  <1>5. CASE Initialize BY <1>0, <1>5 DEF Initialize, SignalsType
  <1>6. ASSUME NEW t, NEW s, Arrive(t, s) PROVE SignalsType' BY <1>1, <1>6 DEF Arrive
  <1>7. Run \/ SelectFails \/ HandleAlarm \/ Tick \/ UNCHANGED vars => SignalsType'
    BY <1>1 DEF Run, SelectFails, HandleAlarm, Tick, vars
  <1> QED BY <1>2, <1>3, <1>4, <1>5, <1>6, <1>7 DEF Next

LEMMA LoopStep ==
    ASSUME LoopType, [Next]_vars
    PROVE  LoopType'
  <1> USE DEF loopVars, LoopType
  <1>0. Len(Types) \in Nat BY TypesLen
  <1>1. CASE Interface
    <2>1. ASSUME NEW t, NEW s, RegisterSock(t, s) \/ UnregisterSock(t, s) PROVE LoopType'
      BY <2>1 DEF RegisterSock, UnregisterSock
    <2>2. ASSUME NEW sig, RegisterSignal(sig) PROVE LoopType' BY <2>2 DEF RegisterSignal
    <2>3. CallTimers \/ Terminate \/ Destroy => LoopType'
      BY DEF CallTimers, Terminate, Destroy
    <2> QED BY <1>1, <2>1, <2>2, <2>3 DEF Interface
  <1>2. CASE Loop
    <2>1. Top \/ Select \/ Wake \/ TestSignaled => LoopType'
      BY DEF Top, Select, Wake, TestSignaled
    <2>2. TestPending \/ ScanSignal => LoopType' BY DEF TestPending, ScanSignal
    <2>3. CallTimeout \/ NoTimeout => LoopType'
      BY <1>0 DEF CallTimeout, NoTimeout, AfterTimeout
    <2>4. StartTable \/ CallSock => LoopType' BY <1>0 DEF StartTable, CallSock
    <2>5. SkipSock => LoopType' BY <1>0 DEF SkipSock
    <2>6. Return => LoopType' BY <1>0 DEF Return, AfterTimeout
    <2> QED BY <1>2, <2>1, <2>2, <2>3, <2>4, <2>5, <2>6 DEF Loop
  <1>3. Initialize \/ Run \/ SelectFails \/ HandleAlarm \/ Tick \/ UNCHANGED vars => LoopType'
    BY DEF Initialize, Run, SelectFails, HandleAlarm, Tick, vars
  <1>4. ASSUME NEW sig, HandleSignal(sig) PROVE LoopType' BY <1>4 DEF HandleSignal
  <1>5. ASSUME NEW t, NEW s, Arrive(t, s) PROVE LoopType' BY <1>5 DEF Arrive
  <1> QED BY <1>1, <1>2, <1>3, <1>4, <1>5 DEF Next

TypeInv == /\ Timers!TypeOK /\ Timers!Sorted
           /\ SignalInv /\ TablesType /\ SignalsType /\ LoopType

LEMMA InitTypes == Init => TypeInv
  <1> SUFFICES ASSUME Init PROVE TypeInv OBVIOUS
  <1>1. Timers!TypeOK /\ Timers!Sorted
    <2>1. timeout = <<>> BY DEF Init
    <2>2. timeout \in Seq(Timers!Entry) /\ Len(timeout) = 0 BY <2>1
    <2> QED BY <2>2 DEF Timers!TypeOK, Timers!Sorted
  <1>2. SignalInv /\ SignalsType
    <2>1. signals = <<>> /\ i = 1 /\ signaled = FALSE /\ pending_terminate = FALSE
          /\ alarm = FALSE /\ installed = {}
      BY DEF Init
    <2>2. signals \in Seq(SignalRecord) /\ Len(signals) = 0 BY <2>1
    <2>3. SignalInv BY <2>1, <2>2 DEF SignalInv, NoLostSignal
    <2>4. {signaled, pending_terminate, alarm} \subseteq BOOLEAN BY <2>1
    <2> QED BY <2>1, <2>2, <2>3, <2>4 DEF SignalsType
  <1>3. TablesType
    <2>1. <<>> \in Seq(SockEntry) OBVIOUS
    <2>2. /\ table = [t \in Type |-> <<>>] /\ changed = [t \in Type |-> FALSE]
          /\ max_sock = 0 /\ fds = [t \in Type |-> {}] /\ ready = {}
      BY DEF Init
    <2> QED BY <2>1, <2>2 DEF TablesType
  <1>4. LoopType
    <2>1. terminate = FALSE /\ pc = "idle" /\ job = "signal" /\ ty = 1 /\ i = 1 BY DEF Init
    <2>2. terminate \in BOOLEAN BY <2>1
    <2>3. ty \in 1..Len(Types) + 1 /\ i \in Nat \ {0} BY <2>1, TypesLen
    <2>4. pc # "dispatch" /\ pc # "callback" BY <2>1
    <2> QED BY <2>1, <2>2, <2>3, <2>4 DEF LoopType
  <1> QED BY <1>1, <1>2, <1>3, <1>4 DEF TypeInv

\* The tables, the signals, the timeouts and the places of the thread keep their
\* types, for any number of sockets, signals and timeouts.
THEOREM LoopKeepsTypes == Spec => []TypeOK
  <1>1. Init => TypeInv BY InitTypes
  <1>2. TypeInv /\ [Next]_vars => TypeInv'
    BY SignalStep, NextTimers, TimersStep, TablesStep, SignalsStep, LoopStep DEF TypeInv
  <1>3. TypeInv => TypeOK
    BY DEF TypeInv, TypeOK, TablesType, SignalsType, LoopType, SockEntry, SignalRecord
  <1> QED BY <1>1, <1>2, <1>3, PTL DEF Spec

\* The timeouts in the loop, among sockets, signals and callbacks, behave as the
\* list of EloopTimers, and stay in the order of their times.
THEOREM LoopRunsTimers == Spec => Timers!Init /\ [][Timers!Next]_timeout /\ []Timers!Sorted
  <1>1. Init => TypeInv /\ Timers!Init BY InitTypes DEF Init, Timers!Init
  <1>2. TypeInv /\ [Next]_vars => TypeInv' /\ [Timers!Next]_timeout
    BY SignalStep, NextTimers, TimersStep, TablesStep, SignalsStep, LoopStep DEF TypeInv
  <1>3. TypeInv => Timers!Sorted BY DEF TypeInv
  <1> QED BY <1>1, <1>2, <1>3, PTL DEF Spec

-----------------------------------------------------------------------------
(* Which entries select was asked about.                                   *)

AllPolled(t) == \A n \in 1..Len(table[t]) : table[t][n].polled

\* Between select and the end of the turn no table that is still to be
\* dispatched has an entry that select was not asked about, and the table in the
\* dispatch has none unless it says that it has changed.
TurnInv ==
    /\ pc \in {"wait", "signals", "pending", "scan", "expire"} \/ (pc = "callback" /\ job # "socket")
         => \A t \in Type : AllPolled(t)
    /\ pc = "table" => \A k \in ty..Len(Types) : AllPolled(Types[k])
    /\ pc = "dispatch" \/ (pc = "callback" /\ job = "socket")
         => /\ \A k \in ty + 1..Len(Types) : AllPolled(Types[k])
            /\ changed[Types[ty]] \/ AllPolled(Types[ty])
    /\ pc = "dispatch" => ~changed[Types[ty]]

\* What `changed' protects: a callback that registers a socket is one for a
\* socket, and the table is not to be dispatched any more in this turn.
Behind ==
    \A t \in Type, s \in Sock : RegisterSock(t, s) =>
        pc = "idle" \/ (job = "socket" /\ \A k \in ty + 1..Len(Types) : Types[k] # t)

LEMMA TurnQuiet ==
    ASSUME TurnInv, UNCHANGED <<table, changed, pc, job, ty>>
    PROVE  TurnInv'
  BY DEF TurnInv, AllPolled

\* A new entry, where it does no harm.
LEMMA TurnRegister ==
    ASSUME TurnInv, TablesType, LoopType, Behind, NEW t \in Type, NEW s \in Sock, RegisterSock(t, s)
    PROVE  TurnInv'
  <1> USE DEF loopVars
  <1>1. pc = "idle" \/ (job = "socket" /\ \A k \in ty + 1..Len(Types) : Types[k] # t) BY DEF Behind
  <1>2. pc \in {"idle", "callback"} /\ UNCHANGED <<pc, job, ty>> BY DEF RegisterSock, May
  <1>3. CASE pc = "idle" BY <1>2, <1>3 DEF TurnInv
  <1>4. CASE pc = "callback" /\ job = "socket" /\ \A k \in ty + 1..Len(Types) : Types[k] # t
    <2>1. \A u \in Type : u # t => table'[u] = table[u] BY DEF RegisterSock, TablesType
    <2>2. changed'[t] /\ \A u \in Type : u # t => changed'[u] = changed[u]
      BY DEF RegisterSock, TablesType
    <2>3. ty \in 1..Len(Types) /\ Types[ty] \in Type BY <1>4, TypesLen DEF LoopType
    <2>4. \A k \in ty + 1..Len(Types) : Types[k] \in Type BY <2>3, TypesLen
    <2>5. \A u \in Type : u # t /\ AllPolled(u) => AllPolled(u)' BY <2>1 DEF AllPolled
    <2>6. \A k \in ty + 1..Len(Types) : AllPolled(Types[k])'
      BY <1>4, <2>4, <2>5 DEF TurnInv
    <2>7. changed'[Types[ty]] \/ AllPolled(Types[ty])'
      <3>1. CASE Types[ty] = t BY <2>2, <3>1
      <3>2. CASE Types[ty] # t
        <4>1. changed[Types[ty]] \/ AllPolled(Types[ty]) BY <1>4 DEF TurnInv
        <4>2. changed[Types[ty]] => changed'[Types[ty]] BY <2>2, <2>3, <3>2
        <4>3. AllPolled(Types[ty]) => AllPolled(Types[ty])' BY <1>2, <2>3, <2>5, <3>2 DEF AllPolled
        <4> QED BY <4>1, <4>2, <4>3
      <3> QED BY <3>1, <3>2
    <2> QED BY <1>2, <1>4, <2>6, <2>7 DEF TurnInv
  <1> QED BY <1>1, <1>2, <1>3, <1>4

\* An entry that goes leaves the others as they are.
LEMMA TurnUnregister ==
    ASSUME TurnInv, TablesType, LoopType, NEW t \in Type, NEW s \in Sock, UnregisterSock(t, s)
    PROVE  TurnInv'
  <1> USE DEF loopVars
  <1>1. pc \in {"idle", "callback"} /\ UNCHANGED <<pc, job, ty>> BY DEF UnregisterSock, May
  <1>2. PICK n \in 1..Len(table[t]) :
          table' = [table EXCEPT ![t] = [j \in 1..Len(@) - 1 |->
                                           IF j < n THEN @[j] ELSE @[j + 1]]]
    BY DEF UnregisterSock
  <1>3. \A u \in Type : u # t => table'[u] = table[u] BY <1>2 DEF TablesType
  <1>4. AllPolled(t) => AllPolled(t)'
    <2>1. Len(table[t]) \in Nat BY DEF TablesType
    <2>2. table'[t] = [j \in 1..Len(table[t]) - 1 |-> IF j < n THEN table[t][j] ELSE table[t][j + 1]]
      BY <1>2 DEF TablesType
    <2>3. Len(table'[t]) = Len(table[t]) - 1 BY <2>1, <2>2
    <2>4. \A j \in 1..Len(table'[t]) : \E k \in 1..Len(table[t]) : table'[t][j] = table[t][k]
      <3>1. TAKE j \in 1..Len(table'[t])
      <3>2. j \in 1..Len(table[t]) /\ j + 1 \in 1..Len(table[t]) /\ j \in 1..Len(table[t]) - 1
        BY <2>1, <2>3
      <3>3. table'[t][j] = table[t][j] \/ table'[t][j] = table[t][j + 1] BY <2>2, <3>2
      <3> QED BY <3>2, <3>3
    <2> QED BY <2>4 DEF AllPolled
  <1>5. \A u \in Type : AllPolled(u) => AllPolled(u)' BY <1>3, <1>4 DEF AllPolled
  <1>6. changed'[t] /\ \A u \in Type : u # t => changed'[u] = changed[u]
    BY DEF UnregisterSock, TablesType
  <1>7. pc = "callback" /\ job = "socket" => ty \in 1..Len(Types) /\ Types[ty] \in Type
    BY TypesLen DEF LoopType
  <1>8. \A k \in ty + 1..Len(Types) : Types[k] \in Type BY TypesLen DEF LoopType
  <1> QED BY <1>1, <1>5, <1>6, <1>7, <1>8 DEF TurnInv

LEMMA TurnLoop ==
    ASSUME TurnInv, TablesType, LoopType, Loop
    PROVE  TurnInv'
  <1> USE DEF loopVars, signalVars, tableVars
  <1>0. Len(Types) \in Nat /\ \A k \in 1..Len(Types) : Types[k] \in Type BY TypesLen
  <1>1. CASE Top BY <1>1 DEF Top, TurnInv
  <1>2. CASE Select
    <2>1. pc' = "wait" BY <1>2 DEF Select
    <2>2. \A t \in Type : AllPolled(t)'
      <3>1. TAKE t \in Type
      <3>2. table'[t] = [n \in 1..Len(table[t]) |-> [table[t][n] EXCEPT !.polled = TRUE]]
        BY <1>2 DEF Select
      <3>3. Len(table[t]) \in Nat /\ \A n \in 1..Len(table[t]) : table[t][n] \in SockEntry
        BY DEF TablesType
      <3>4. Len(table'[t]) = Len(table[t]) BY <3>2, <3>3
      <3>5. \A n \in 1..Len(table[t]) : table'[t][n].polled BY <3>2, <3>3 DEF SockEntry
      <3> QED BY <3>4, <3>5 DEF AllPolled
    <2> QED BY <2>1, <2>2 DEF TurnInv
  <1>3. CASE Wake \/ TestSignaled \/ TestPending \/ ScanSignal
    <2>1. /\ \A t \in Type : AllPolled(t)
          /\ pc' \in {"signals", "pending", "scan", "expire"} \/ (pc' = "callback" /\ job' = "signal")
          /\ UNCHANGED <<table, changed>>
      BY <1>3 DEF Wake, TestSignaled, TestPending, ScanSignal, TurnInv
    <2> QED BY <2>1 DEF TurnInv, AllPolled
  <1>4. CASE CallTimeout BY <1>4 DEF CallTimeout, TurnInv, AllPolled
  <1>5. CASE NoTimeout BY <1>0, <1>5 DEF NoTimeout, AfterTimeout, TurnInv, AllPolled
  <1>6. CASE StartTable
    <2>1. \A k \in ty..Len(Types) : AllPolled(Types[k]) BY <1>6 DEF StartTable, TurnInv
    <2>2. CASE ty > Len(Types) BY <1>6, <2>2 DEF StartTable, TurnInv
    <2>3. CASE ty <= Len(Types)
      <3>1. /\ pc' = "dispatch" /\ UNCHANGED <<table, ty>>
            /\ changed' = [changed EXCEPT ![Types[ty]] = FALSE]
        BY <1>0, <1>6, <2>3 DEF StartTable, LoopType
      <3>2. ty \in 1..Len(Types) /\ ty \in ty..Len(Types) /\ Types[ty] \in Type
        BY <1>0, <2>3 DEF LoopType
      <3>3. ~changed'[Types[ty]] BY <3>1, <3>2 DEF TablesType
      <3>4. AllPolled(Types[ty]) BY <2>1, <3>2
      <3>5. \A k \in ty + 1..Len(Types) : AllPolled(Types[k]) BY <2>1, <3>2
      <3> QED BY <3>1, <3>3, <3>4, <3>5 DEF TurnInv, AllPolled
    <2> QED BY <1>0, <2>2, <2>3 DEF LoopType
  <1>7. CASE CallSock BY <1>7 DEF CallSock, TurnInv, AllPolled
  <1>8. CASE SkipSock BY <1>0, <1>8 DEF SkipSock, TurnInv, AllPolled, LoopType
  <1>9. CASE Return
    <2>1. CASE job = "signal" BY <1>9, <2>1 DEF Return, TurnInv, AllPolled
    <2>2. CASE job = "timeout"
      BY <1>0, <1>9, <2>2 DEF Return, AfterTimeout, TurnInv, AllPolled
    <2>3. CASE job = "socket" BY <1>0, <1>9, <2>3 DEF Return, TurnInv, AllPolled, LoopType
    <2> QED BY <1>9, <2>1, <2>2, <2>3 DEF Return
  <1> QED BY <1>1, <1>2, <1>3, <1>4, <1>5, <1>6, <1>7, <1>8, <1>9 DEF Loop

LEMMA TurnStep ==
    ASSUME TurnInv, TypeInv, [Next]_vars, [Behind]_vars
    PROVE  TurnInv'
  <1> USE DEF loopVars, signalVars, tableVars
  <1>1. TablesType /\ LoopType BY DEF TypeInv
  <1>2. CASE UNCHANGED vars BY <1>2, TurnQuiet DEF vars
  <1>3. ASSUME Behind, NEW t \in Type, NEW s \in Sock, RegisterSock(t, s) \/ UnregisterSock(t, s)
        PROVE  TurnInv'
    BY <1>1, <1>3, TurnRegister, TurnUnregister
  <1>4. CASE CallTimers \/ Terminate BY <1>4, TurnQuiet DEF CallTimers, Terminate
  <1>5. ASSUME NEW sig \in Sig, RegisterSignal(sig) PROVE TurnInv' BY <1>5, TurnQuiet DEF RegisterSignal
  <1>6. CASE Destroy \/ Initialize \/ Run \/ SelectFails \/ HandleAlarm
    BY <1>6 DEF Destroy, Initialize, Run, SelectFails, HandleAlarm, TurnInv
  <1>7. CASE Loop BY <1>1, <1>7, TurnLoop
  <1>8. ASSUME NEW sig \in Sig, HandleSignal(sig) PROVE TurnInv'
    <2>1. CASE pc = "wait" BY <1>8, <2>1 DEF HandleSignal, TurnInv, AllPolled
    <2>2. CASE pc # "wait" BY <1>8, <2>2, TurnQuiet DEF HandleSignal
    <2> QED BY <2>1, <2>2
  <1>9. ASSUME NEW t, NEW s, Arrive(t, s) PROVE TurnInv' BY <1>9, TurnQuiet DEF Arrive
  <1>10. CASE Tick BY <1>10, TurnQuiet DEF Tick
  <1> QED BY <1>2, <1>3, <1>4, <1>5, <1>6, <1>7, <1>8, <1>9, <1>10 DEF Next, Interface

\* The entry that is called is in the table of the dispatch.
LEMMA TurnPolls ==
    ASSUME TurnInv, TypeInv, CallSock
    PROVE  Current[i].polled
  <1>1. i \in 1..Len(Current) /\ pc = "dispatch"
    <2>1. ty \in 1..Len(Types) /\ Types[ty] \in Type /\ i \in Nat \ {0}
      BY TypesLen DEF CallSock, TypeInv, LoopType
    <2>2. Len(Current) \in Nat BY <2>1 DEF Current, TypeInv, TablesType
    <2> QED BY <2>1, <2>2 DEF CallSock
  <1>2. AllPolled(Types[ty]) BY <1>1 DEF TurnInv
  <1> QED BY <1>1, <1>2 DEF AllPolled, Current

\* A callback is called only for what select was asked about, if nobody but a
\* callback for a socket registers sockets while the loop runs, and that one only
\* in a table that the turn has reached.
THEOREM PolledIfBehind == Spec /\ [][Behind]_vars => PolledOnly
  <1>1. Init => TypeInv /\ TurnInv BY InitTypes DEF Init, TurnInv
  <1>2. TypeInv /\ [Next]_vars => TypeInv'
    BY SignalStep, NextTimers, TimersStep, TablesStep, SignalsStep, LoopStep DEF TypeInv
  <1>3. TypeInv /\ TurnInv /\ [Next]_vars /\ [Behind]_vars => TurnInv' BY TurnStep
  <1>4. TypeInv /\ TurnInv => [CallSock => Current[i].polled]_vars BY TurnPolls
  <1> QED BY <1>1, <1>2, <1>3, <1>4, PTL DEF Spec, PolledOnly

\* In a program with one type of events whose callbacks for signals and timeouts
\* register no sockets, `changed' is enough.
THEOREM PolledInOneTable ==
    ASSUME Len(Types) = 1, "register" \notin Calls["signal"] \cup Calls["timeout"]
    PROVE  Spec => PolledOnly
  <1>1. Init => TypeInv BY InitTypes
  <1>2. TypeInv /\ [Next]_vars => TypeInv'
    BY SignalStep, NextTimers, TimersStep, TablesStep, SignalsStep, LoopStep DEF TypeInv
  <1>3. TypeInv => [Behind]_vars
    <2> SUFFICES ASSUME TypeInv, NEW t \in Type, NEW s \in Sock, RegisterSock(t, s)
                 PROVE  pc = "idle" \/ (job = "socket" /\ \A k \in ty + 1..Len(Types) : Types[k] # t)
      BY DEF Behind
    <2>1. pc = "idle" \/ (pc = "callback" /\ "register" \in Calls[job]) BY DEF RegisterSock, May
    <2>2. job \in {"signal", "timeout", "socket"} /\ ty \in Nat \ {0} BY DEF TypeInv, LoopType
    <2>3. job = "socket" \/ pc = "idle" BY <2>1, <2>2
    <2>4. ty + 1..Len(Types) = {} BY <2>2
    <2> QED BY <2>3, <2>4
  <1>4. Spec => [][Behind]_vars BY <1>1, <1>2, <1>3, PTL DEF Spec
  <1> QED BY <1>4, PolledIfBehind, PTL

=============================================================================

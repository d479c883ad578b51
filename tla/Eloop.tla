-------------------------------- MODULE Eloop --------------------------------
(***************************************************************************)
(* The event loop hostapd/eloop.c: sockets, timeouts and signals, served   *)
(* by eloop_run in one thread.                                             *)
(*                                                                         *)
(* Three parties take steps.  The thread is inside eloop_run, inside a     *)
(* callback or inside the rest of the program (pc); there it calls the     *)
(* functions of the interface.  Signals interrupt it between any two of    *)
(* its steps and run eloop_handle_signal.  The environment makes sockets   *)
(* ready and lets time pass.                                               *)
(***************************************************************************)
EXTENDS Integers, Sequences, FiniteSets

CONSTANTS
    Timer, Handler, Context, ALL_CTX, MaxDelay, Off,    \* see EloopTimers
    Sock,       \* file descriptors the program uses
    Types,      \* the event types in use, in the order of their dispatch
    Sig,        \* signals the program registers
    Fatal,      \* those of them that are SIGINT or SIGTERM
    Calls,      \* what the program calls: before the loop runs ("idle"), and in
                \* callbacks for signals, timeouts and sockets
    MaxEntries, \* bound on the length of a socket table
    MaxSignals  \* bound on the number of registered signals

Ops == {"register", "unregister", "close", "timer", "terminate", "signal", "destroy"}

ASSUME EloopAssumption ==
    /\ Sock \subseteq Nat /\ Fatal \subseteq Sig
    /\ Types \in Seq({"read", "write", "exception"})
    /\ Calls \in [{"idle", "signal", "timeout", "socket"} -> SUBSET Ops]
    /\ MaxEntries \in Nat /\ MaxSignals \in Nat
    /\ MaxDelay \in Nat /\ ALL_CTX \notin Context /\ Off \notin Int

Type == {Types[n] : n \in 1..Len(Types)}

VARIABLES
    timeout,            \* eloop.timeout
    table,              \* eloop.readers, writers and exceptions; `polled' says
                        \* that the last select was asked about the entry
    changed,            \* the field `changed' of each table
    max_sock,           \* eloop.max_sock
    fds,                \* rfds, wfds and efds
    signals,            \* eloop.signals: number and whether it is `signaled'
    signaled,           \* eloop.signaled # 0
    pending_terminate,  \* eloop.pending_terminate
    terminate,          \* eloop.terminate
    pc,                 \* where the thread is
    job,                \* which callback runs, when pc = "callback"
    ty, i,              \* event type (index) and table index of the loops
    installed,          \* signals that eloop_handle_signal is installed for
    alarm,              \* is the alarm of two seconds set?
    ready               \* events that wait on the sockets

tableVars == <<table, changed, max_sock, ready>>
signalVars == <<signals, signaled, pending_terminate, installed, alarm>>
loopVars == <<pc, job, ty, i, fds>>
vars == <<timeout, tableVars, signalVars, loopVars, terminate>>

Timers == INSTANCE EloopTimers WITH
    timeout <- timeout, Timer <- Timer, Handler <- Handler, Context <- Context,
    ALL_CTX <- ALL_CTX, MaxDelay <- MaxDelay, Off <- Off

Listed(t) == {table[t][n].sock : n \in 1..Len(table[t])}
Registered == timeout # <<>> \/ \E t \in Type : table[t] # <<>>

-----------------------------------------------------------------------------
\* The interface

\* The thread runs code of the program, which calls what Calls allows.
May(op) == \/ pc = "idle" /\ op \in Calls["idle"]
           \/ pc = "callback" /\ op \in Calls[job]

\* eloop_register_sock: the new entry is the last of its table.
RegisterSock(t, s) ==
    /\ May("register")
    /\ Len(table[t]) < MaxEntries
    /\ table' = [table EXCEPT ![t] = Append(@, [sock |-> s, polled |-> FALSE])]
    /\ max_sock' = IF s > max_sock THEN s ELSE max_sock
    /\ changed' = [changed EXCEPT ![t] = TRUE]
    /\ UNCHANGED <<timeout, ready, signalVars, loopVars, terminate>>

\* eloop_unregister_sock: the first entry for s goes.
UnregisterSock(t, s) ==
    /\ May("unregister")
    /\ \E n \in 1..Len(table[t]) :
         /\ table[t][n].sock = s
         /\ \A j \in 1..n - 1 : table[t][j].sock # s
         /\ table' = [table EXCEPT ![t] = [j \in 1..Len(@) - 1 |->
                                             IF j < n THEN @[j] ELSE @[j + 1]]]
    /\ changed' = [changed EXCEPT ![t] = TRUE]
    /\ UNCHANGED <<timeout, max_sock, ready, signalVars, loopVars, terminate>>

CallTimers ==
    /\ May("timer")
    /\ Timers!Call
    /\ UNCHANGED <<tableVars, signalVars, loopVars, terminate>>

Terminate ==
    /\ May("terminate")
    /\ terminate' = TRUE
    /\ UNCHANGED <<timeout, tableVars, signalVars, loopVars>>

\* eloop_register_signal, in one step: the array is not seen while realloc
\* moves it.
RegisterSignal(sig) ==
    /\ May("signal")
    /\ Len(signals) < MaxSignals
    /\ signals' = Append(signals, [sig |-> sig, signaled |-> FALSE])
    /\ installed' = installed \cup {sig}
    /\ UNCHANGED <<timeout, tableVars, signaled, pending_terminate, alarm,
                   loopVars, terminate>>

\* eloop_destroy.  The arrays are freed, the counts and the pointers to them
\* stay, and so do the signal handlers.
Destroy ==
    /\ May("destroy") /\ pc = "idle"
    /\ pc' = "destroyed"
    /\ Timers!Clear
    /\ UNCHANGED <<tableVars, signalVars, job, ty, i, fds, terminate>>

\* eloop_init sets all of it to zero.
Initialize ==
    /\ pc = "destroyed"
    /\ pc' = "idle"
    /\ table' = [t \in Type |-> <<>>]
    /\ changed' = [t \in Type |-> FALSE]
    /\ max_sock' = 0
    /\ signals' = <<>> /\ signaled' = FALSE
    /\ pending_terminate' = FALSE /\ terminate' = FALSE
    /\ UNCHANGED <<timeout, ready, installed, alarm, job, ty, i, fds>>

Interface ==
    \/ \E t \in Type, s \in Sock : RegisterSock(t, s) \/ UnregisterSock(t, s)
    \/ CallTimers
    \/ Terminate
    \/ \E sig \in Sig : RegisterSignal(sig)
    \/ Destroy

-----------------------------------------------------------------------------
\* Signals: eloop_handle_signal and eloop_handle_alarm

FirstSignal(sig) == {n \in 1..Len(signals) :
                       signals[n].sig = sig /\ \A j \in 1..n - 1 : signals[j].sig # sig}

\* Mutant: SIGINT and SIGTERM do not set the alarm.
HandleSignalNoAlarm(sig) ==
    /\ sig \in installed
    /\ pc # "killed"
    /\ signaled' = TRUE
    /\ signals' = [n \in 1..Len(signals) |->
                     IF n \in FirstSignal(sig) THEN [signals[n] EXCEPT !.signaled = TRUE]
                                               ELSE signals[n]]
    /\ IF pc = "wait"
         THEN pc' = "signals" /\ fds' = [t \in Type |-> {}]
         ELSE UNCHANGED <<pc, fds>>
    /\ UNCHANGED <<timeout, tableVars, installed, job, ty, i, terminate,
                   pending_terminate, alarm>>

\* It interrupts the thread anywhere, and wakes it when it sleeps in select.
HandleSignal(sig) ==
    /\ sig \in installed
    /\ pc # "killed"
    /\ pending_terminate' = (pending_terminate \/ sig \in Fatal)
    /\ alarm' = (alarm \/ (sig \in Fatal /\ ~pending_terminate))
    /\ signaled' = TRUE
    /\ signals' = [n \in 1..Len(signals) |->
                     IF n \in FirstSignal(sig) THEN [signals[n] EXCEPT !.signaled = TRUE]
                                               ELSE signals[n]]
    /\ IF pc = "wait"
         THEN pc' = "signals" /\ fds' = [t \in Type |-> {}]
         ELSE UNCHANGED <<pc, fds>>
    /\ UNCHANGED <<timeout, tableVars, installed, job, ty, i, terminate>>

\* Two seconds have passed: exit(1).
HandleAlarm ==
    /\ alarm
    /\ pc # "killed"
    /\ pc' = "killed"
    /\ UNCHANGED <<timeout, tableVars, signalVars, job, ty, i, fds, terminate>>

-----------------------------------------------------------------------------
\* eloop_run

Run ==
    /\ pc = "idle"
    /\ pc' = "top"
    /\ UNCHANGED <<timeout, tableVars, signalVars, job, ty, i, fds, terminate>>

\* Mutant: the loop goes on while there are sockets.
TopSockets ==
    /\ pc = "top"
    /\ IF \E t \in Type : table[t] # <<>>
         THEN pc' = "select" /\ UNCHANGED terminate
         ELSE pc' = "idle" /\ terminate' = FALSE
    /\ UNCHANGED <<timeout, tableVars, signalVars, job, ty, i, fds>>

\* The condition of the loop.
Top ==
    /\ pc = "top"
    /\ IF ~terminate /\ Registered
         THEN pc' = "select" /\ UNCHANGED terminate
         ELSE pc' = "idle" /\ terminate' = FALSE
    /\ UNCHANGED <<timeout, tableVars, signalVars, job, ty, i, fds>>

\* eloop_sock_table_set_fds, three times, and the call of select.
Select ==
    /\ pc = "select"
    /\ pc' = "wait"
    /\ fds' = [t \in Type |-> Listed(t)]
    /\ table' = [t \in Type |-> [n \in 1..Len(table[t]) |->
                                   [table[t][n] EXCEPT !.polled = TRUE]]]
    /\ UNCHANGED <<timeout, changed, max_sock, ready, signalVars, job, ty, i, terminate>>

\* Mutant: select(max_sock, ...) leaves out the last descriptor.
WakeShort ==
    LET events == [t \in Type |-> {s \in fds[t] : s < max_sock /\ <<t, s>> \in ready}]
    IN  /\ pc = "wait"
        /\ \/ \E t \in Type : events[t] # {}
           \/ timeout # <<>> /\ timeout[1].left <= 0
        /\ pc' = "signals"
        /\ fds' = events
        /\ UNCHANGED <<timeout, tableVars, signalVars, job, ty, i, terminate>>

\* Select returns what is ready, or nothing when the first timeout is due.
Wake ==
    LET events == [t \in Type |-> {s \in fds[t] : s <= max_sock /\ <<t, s>> \in ready}]
    IN  /\ pc = "wait"
        /\ \/ \E t \in Type : events[t] # {}
           \/ timeout # <<>> /\ timeout[1].left <= 0
        /\ pc' = "signals"
        /\ fds' = events
        /\ UNCHANGED <<timeout, tableVars, signalVars, job, ty, i, terminate>>

\* It fails for a descriptor that was closed, and eloop_run returns.
SelectFails ==
    /\ \E j \in DOMAIN Calls : "close" \in Calls[j]
    /\ pc = "wait"
    /\ \E t \in Type : fds[t] # {}
    /\ pc' = "idle"
    /\ UNCHANGED <<timeout, tableVars, signalVars, job, ty, i, fds, terminate>>

\* eloop_process_pending_signals: signaled, pending_terminate, then the array.
TestSignaled ==
    /\ pc = "signals"
    /\ pc' = IF signaled THEN "pending" ELSE "expire"
    /\ signaled' = FALSE
    /\ UNCHANGED <<timeout, tableVars, signals, pending_terminate, installed, alarm, job, ty, i, fds, terminate>>

TestPending ==
    /\ pc = "pending"
    /\ pc' = "scan"
    /\ i' = 1
    /\ pending_terminate' = FALSE
    /\ alarm' = (alarm /\ ~pending_terminate)
    /\ UNCHANGED <<timeout, tableVars, signals, signaled, installed, job, ty, fds, terminate>>

\* Mutant: eloop.signaled is set to zero once more after the scan.
ScanSignalReset ==
    /\ pc = "scan"
    /\ IF i > Len(signals)
         THEN pc' = "expire" /\ signaled' = FALSE /\ UNCHANGED <<signals, job, i>>
         ELSE IF signals[i].signaled
           THEN /\ signals' = [signals EXCEPT ![i].signaled = FALSE]
                /\ pc' = "callback" /\ job' = "signal"
                /\ UNCHANGED <<i, signaled>>
           ELSE i' = i + 1 /\ UNCHANGED <<signals, signaled, job, pc>>
    /\ UNCHANGED <<timeout, tableVars, pending_terminate, installed, alarm, ty, fds, terminate>>

ScanSignal ==
    /\ pc = "scan"
    /\ IF i > Len(signals)
         THEN pc' = "expire" /\ UNCHANGED <<signals, job, i>>
         ELSE IF signals[i].signaled
           THEN /\ signals' = [signals EXCEPT ![i].signaled = FALSE]
                /\ pc' = "callback" /\ job' = "signal"
                /\ UNCHANGED i
           ELSE i' = i + 1 /\ UNCHANGED <<signals, job, pc>>
    /\ UNCHANGED <<timeout, tableVars, signaled, pending_terminate, installed, alarm, ty, fds, terminate>>

\* Where the loop goes when it has looked at the timeouts: "continue" when
\* select has reported nothing.
AfterTimeout ==
    /\ pc' = IF \A t \in Type : fds[t] = {} THEN "top" ELSE "table"
    /\ ty' = 1

\* Mutant: timeouts are looked at when no socket has an event.
CallTimeoutIdle ==
    /\ pc = "expire"
    /\ timeout # <<>> /\ timeout[1].left <= 0
    /\ IF \A t \in Type : fds[t] = {}
         THEN Timers!Expire /\ pc' = "callback" /\ job' = "timeout" /\ UNCHANGED ty
         ELSE AfterTimeout /\ UNCHANGED <<timeout, job>>
    /\ UNCHANGED <<tableVars, signalVars, i, fds, terminate>>

\* At most one timeout is called in a turn of the loop.
CallTimeout ==
    /\ pc = "expire"
    /\ Timers!Expire
    /\ pc' = "callback" /\ job' = "timeout"
    /\ UNCHANGED <<tableVars, signalVars, ty, i, fds, terminate>>

NoTimeout ==
    /\ pc = "expire"
    /\ ~(timeout # <<>> /\ timeout[1].left <= 0)
    /\ AfterTimeout
    /\ UNCHANGED <<timeout, tableVars, signalVars, job, i, fds, terminate>>

\* Mutant: `changed' is not reset, a table that was changed once is always left.
StartTableStale ==
    /\ pc = "table"
    /\ IF ty > Len(Types)
         THEN pc' = "top" /\ UNCHANGED i
         ELSE pc' = "dispatch" /\ i' = 1
    /\ UNCHANGED <<timeout, tableVars, signalVars, job, ty, fds, terminate>>

\* eloop_sock_table_dispatch for the table of Types[ty]
StartTable ==
    /\ pc = "table"
    /\ IF ty > Len(Types)
         THEN pc' = "top" /\ UNCHANGED <<changed, i>>
         ELSE /\ pc' = "dispatch" /\ i' = 1
              /\ changed' = [changed EXCEPT ![Types[ty]] = FALSE]
    /\ UNCHANGED <<timeout, table, max_sock, ready, signalVars, job, ty, fds, terminate>>

Current == table[Types[ty]]

\* The handler is called, and clears the event as it should.
CallSock ==
    /\ pc = "dispatch"
    /\ i <= Len(Current) /\ Current[i].sock \in fds[Types[ty]]
    /\ ready' = ready \ {<<Types[ty], Current[i].sock>>}
    /\ pc' = "callback" /\ job' = "socket"
    /\ UNCHANGED <<timeout, table, changed, max_sock, signalVars, ty, i, fds, terminate>>

SkipSock ==
    /\ pc = "dispatch"
    /\ IF i > Len(Current)
         THEN pc' = "table" /\ ty' = ty + 1 /\ UNCHANGED i
         ELSE /\ Current[i].sock \notin fds[Types[ty]]
              /\ i' = i + 1 /\ UNCHANGED <<pc, ty>>
    /\ UNCHANGED <<timeout, tableVars, signalVars, job, fds, terminate>>

\* Mutant: the dispatch of a table goes on whatever a callback did to it.
ReturnNoBreak ==
    /\ pc = "callback"
    /\ \/ job = "signal" /\ pc' = "scan" /\ i' = i + 1 /\ UNCHANGED ty
       \/ job = "timeout" /\ AfterTimeout /\ UNCHANGED i
       \/ job = "socket" /\ pc' = "dispatch" /\ i' = i + 1 /\ UNCHANGED ty
    /\ UNCHANGED <<timeout, tableVars, signalVars, job, fds, terminate>>

\* A callback returns.  A table that it has changed is left.
Return ==
    /\ pc = "callback"
    /\ \/ job = "signal" /\ pc' = "scan" /\ i' = i + 1 /\ UNCHANGED ty
       \/ job = "timeout" /\ AfterTimeout /\ UNCHANGED i
       \/ /\ job = "socket"
          /\ IF changed[Types[ty]]
               THEN pc' = "table" /\ ty' = ty + 1 /\ UNCHANGED i
               ELSE pc' = "dispatch" /\ i' = i + 1 /\ UNCHANGED ty
    /\ UNCHANGED <<timeout, tableVars, signalVars, job, fds, terminate>>

-----------------------------------------------------------------------------
\* The environment

Arrive(t, s) ==
    /\ ready' = ready \cup {<<t, s>>}
    /\ UNCHANGED <<timeout, table, changed, max_sock, signalVars, loopVars, terminate>>

Tick ==
    /\ Timers!Tick
    /\ UNCHANGED <<tableVars, signalVars, loopVars, terminate>>

Init ==
    /\ timeout = <<>>
    /\ table = [t \in Type |-> <<>>]
    /\ changed = [t \in Type |-> FALSE]
    /\ max_sock = 0
    /\ fds = [t \in Type |-> {}]
    /\ signals = <<>> /\ signaled = FALSE
    /\ pending_terminate = FALSE /\ terminate = FALSE
    /\ pc = "idle" /\ job = "signal" /\ ty = 1 /\ i = 1
    /\ installed = {} /\ alarm = FALSE
    /\ ready = {}

\* What the thread does by itself: it is never stopped there for ever.
Loop == \/ Top \/ Select \/ Wake \/ TestSignaled \/ TestPending
        \/ ScanSignal \/ CallTimeout \/ NoTimeout \/ StartTable \/ CallSock
        \/ SkipSock \/ Return

Next ==
    \/ Interface \/ Initialize \/ Run \/ Loop \/ SelectFails
    \/ \E sig \in Sig : HandleSignal(sig)
    \/ HandleAlarm
    \/ \E t \in Type, s \in Sock : Arrive(t, s)
    \/ Tick

\* Callbacks return, the thread is scheduled, the clock runs and the alarm
\* rings.  Nothing says that events, signals or calls of the program occur.
Spec == Init /\ [][Next]_vars /\ WF_vars(Loop) /\ WF_vars(HandleAlarm) /\ WF_vars(Tick)

-----------------------------------------------------------------------------
TypeOK ==
    /\ Timers!TypeOK
    /\ table \in [Type -> Seq([sock : Sock, polled : BOOLEAN])]
    /\ changed \in [Type -> BOOLEAN]
    /\ max_sock \in Sock \cup {0}
    /\ fds \in [Type -> SUBSET Sock]
    /\ signals \in Seq([sig : Sig, signaled : BOOLEAN])
    /\ {signaled, pending_terminate, terminate, alarm} \subseteq BOOLEAN
    /\ pc \in {"idle", "destroyed", "top", "select", "wait", "signals", "pending", "scan",
               "expire", "table", "dispatch", "callback", "killed"}
    /\ job \in {"signal", "timeout", "socket"}
    /\ ty \in 1..Len(Types) + 1 /\ i \in Nat \ {0}
    /\ installed \subseteq Sig
    /\ ready \subseteq Type \X Sock

\* A signal that has been noted for its callback is never forgotten: either
\* eloop.signaled still sends the loop over the array, or the loop is on its
\* way and has not passed the entry.  Signals come between any two steps.
NoLostSignal ==
    \A n \in 1..Len(signals) : signals[n].signaled =>
        \/ signaled
        \/ pc \in {"pending", "killed", "destroyed"}
        \/ pc = "scan" /\ i <= n
        \/ pc = "callback" /\ job = "signal" /\ i < n

\* eloop.h:258: every callback that is registered for a signal is called again
\* when the signal comes again and again.  Not so (eloop.c:421): the handler flags
\* the first entry for the signal and looks no further.
Received(n, sig) == HandleSignal(sig) /\ n <= Len(signals) /\ signals[n].sig = sig
Answered(n) == ScanSignal /\ pc' = "callback" /\ i = n
RegisteredIsCalled ==
    \A n \in 1..MaxSignals, sig \in Sig :
        []<><<Received(n, sig)>>_vars => []<><<Answered(n)>>_vars

\* A callback is called only for an entry that this turn's select was asked
\* about: not for one that a callback has just made with the same descriptor.
PolledOnly == [][CallSock => Current[i].polled]_vars

\* The alarm kills the program only when it is busy: not while it sleeps in
\* select, where a signal could have been processed.
KilledOnlyIfBusy == [][HandleAlarm => pc # "wait"]_vars

Stopped == pc \in {"idle", "destroyed", "killed"}
Flagged(sig) == \E n \in 1..Len(signals) : signals[n].sig = sig /\ signals[n].signaled

\* SIGINT and SIGTERM are processed at last, or the alarm ends the program.
FatalServed == \A sig \in Fatal : Flagged(sig) ~> (~Flagged(sig) \/ pc \in {"killed", "destroyed"})

\* An event on a socket whose handler stays registered is handled, unless the
\* callbacks of its table change that table for ever: each change ends the
\* dispatch, and the next turn starts again at the first entry.
Waits(t, s) == <<t, s>> \in ready /\ s \in Listed(t) /\ ~Stopped
CutsShort(t) == /\ pc = "callback" /\ job = "socket" /\ Types[ty] = t
                /\ table'[t] # table[t]
SocketsServed ==
    \A t \in Type : (<>[][~CutsShort(t)]_vars) =>
        \A s \in Sock : Waits(t, s) ~> ~Waits(t, s)

\* eloop.h:85 has no such condition.  Without it a ready socket waits for ever
\* behind one whose callback changes the table in every turn (eloop.c:169).
AvailableIsHandled == \A t \in Type, s \in Sock : Waits(t, s) ~> ~Waits(t, s)

\* A timeout is called or cancelled while the loop runs, unless the program
\* extends timeouts for ever: busy sockets and new timeouts starve none, though
\* a turn of the loop calls one at most.
TimeoutsServed ==
    (<>[][~Timers!Extend]_vars) =>
        \A t \in Timer : (t \in Timers!Ids /\ ~Stopped) ~> (t \notin Timers!Ids \/ Stopped)

\* eloop_terminate ends the loop, whatever is registered and whatever arrives.
TerminateStops == terminate ~> Stopped

=============================================================================

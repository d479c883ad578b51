------------------------------- MODULE EloopMC -------------------------------
(* Instances of Eloop for TLC: which functions of the interface the program *)
(* calls before the loop, and in the callbacks of each kind.                *)
EXTENDS Eloop, TLC

Table(idle, signal, timer, socket) ==
    "idle" :> idle @@ "signal" :> signal @@ "timeout" :> timer @@ "socket" :> socket

Read == <<"read">>
ReadWrite == <<"read", "write">>

\* Sockets are set up before the loop; callbacks use timeouts, and those of
\* sockets also change the table of sockets.
CallsServed == Table({"register", "timer"}, {}, {"timer"},
                     {"timer", "register", "unregister"})

\* Signals are registered before the loop and in callbacks, sockets everywhere;
\* the callback of a signal may end the loop.
CallsSignals == Table({"signal", "register", "timer", "close", "destroy"},
                      {"signal", "terminate"}, {"timer"}, {"register", "unregister"})

\* Callbacks of sockets open and close sockets of both tables.
CallsSockets == Table({"register"}, {}, {}, {"register", "unregister"})

\* Signals are registered before the loop, and their callbacks do nothing.
CallsNothing == Table({"signal", "register"}, {}, {}, {})

==============================================================================

CONSTANTS
    Timer = {t1}
    Handler = {h1}
    Context = {c1}
    ALL_CTX = ALL_CTX
    MaxDelay = 1
    Off = Off
    Sock = {1}
    Types <- Read
    Sig = {INT, HUP}
    Fatal = {INT}
    Calls <- CallsSignals
    MaxEntries = 2
    MaxSignals = 2
SPECIFICATION Spec
INVARIANT NoLostSignal
PROPERTIES FatalServed PolledOnly TerminateStops
\* The alarm ends the program.
CHECK_DEADLOCK FALSE

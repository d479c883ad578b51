CONSTANTS
    Timer = {}
    Handler = {h1}
    Context = {c1}
    ALL_CTX = ALL_CTX
    MaxDelay = 1
    Off = Off
    Sock = {1}
    Types <- Read
    Sig = {INT}
    Fatal = {INT}
    Calls <- CallsNothing
    MaxEntries = 1
    MaxSignals = 1
SPECIFICATION Spec
PROPERTY KilledOnlyIfBusy
\* The alarm ends the program.
CHECK_DEADLOCK FALSE

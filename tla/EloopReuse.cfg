CONSTANTS
    Timer = {}
    Handler = {h1}
    Context = {c1}
    ALL_CTX = ALL_CTX
    MaxDelay = 1
    Off = Off
    Sock = {1}
    Types <- ReadWrite
    Sig = {}
    Fatal = {}
    Calls <- CallsSockets
    MaxEntries = 1
    MaxSignals = 0
SPECIFICATION Spec
PROPERTY PolledOnly

CONSTANTS
    Timer = {}
    Handler = {h1}
    Context = {c1}
    ALL_CTX = ALL_CTX
    MaxDelay = 1
    Off = Off
    Sock = {1, 2, 3}
    Types <- Read
    Sig = {}
    Fatal = {}
    Calls <- CallsSockets
    MaxEntries = 3
    MaxSignals = 0
SPECIFICATION Spec
PROPERTY AvailableIsHandled

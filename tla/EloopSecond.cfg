CONSTANTS
    Timer = {}
    Handler = {h1}
    Context = {c1}
    ALL_CTX = ALL_CTX
    MaxDelay = 1
    Off = Off
    Sock = {1}
    Types <- Read
    Sig = {HUP}
    Fatal = {}
    Calls <- CallsNothing
    MaxEntries = 1
    MaxSignals = 2
SPECIFICATION Spec
PROPERTY RegisteredIsCalled

CONSTANTS
    Timer = {t1, t2}
    Handler = {h1}
    Context = {c1}
    ALL_CTX = ALL_CTX
    MaxDelay = 1
    Off = Off
    Sock = {1, 2}
    Types <- Read
    Sig = {}
    Fatal = {}
    Calls <- CallsServed
    MaxEntries = 3
    MaxSignals = 0
SPECIFICATION Spec
INVARIANT TypeOK
PROPERTIES SocketsServed TimeoutsServed

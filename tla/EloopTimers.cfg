CONSTANTS
    Timer = {t1, t2, t3}
    Handler = {h1}
    Context = {c1, c2}
    ALL_CTX = ALL_CTX
    MaxDelay = 2
    Off = Off
SPECIFICATION Spec
INVARIANTS TypeOK Sorted
PROPERTIES ImplementsTimers ExpiresInOrder NoneStarves

SPECIFICATION FairSpec
CONSTANTS
    Bindings = {b1, b2}
    Threads = {t1, t2}
    MaxSends = 3
    None = None
INVARIANTS
    NoLostSend
    EndsForAReason
PROPERTIES
    LastSendIsSeen
    TerminateEnds

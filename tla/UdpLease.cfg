SPECIFICATION Spec
CONSTANTS
    Threads = {t1, t2}
    NoThread = NoThread
    Streams = {c1, c2, bc}
    Broadcast = bc
    NoStream = NoStream
    Frames <- LeaseFrames
    HandleAbbErrors = {"EpNotFound", "ShortFrame"}
    Timeout = 2
    MaxClock = 4
INVARIANTS
    TypeOK
    GatesAgree
PROPERTIES
    RefusedOnlyWhileLive
    ClaimIsLease

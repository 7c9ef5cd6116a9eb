\* One thread that serves in a loop, as the rcp serve command does.
SPECIFICATION Spec
CONSTANTS
    Threads = {t1}
    NoThread = NoThread
    Streams = {c1, c2, bc}
    Broadcast = bc
    NoStream = NoStream
    Frames <- SurviveFrames
    HandleAbbErrors = {}
    Timeout = 2
    MaxClock = 4
PROPERTY ClaimSurvivesTimeout

SPECIFICATION FairSpec
CONSTANTS
    w = w
    w2 = w2
    r = r
    r2 = r2
    a = a
    a2 = a2
    g0 = g0
    g1 = g1
    Threads = {w, w2, a}
    NoThread = NoThread
    May <- RevokeMay
    Frames <- RevokeFrames
    Streams = {s1, s2}
    NoStream = NoStream
    Buses = {0}
    MaxBus = 1
    Impls = {}
    NoImpl = NoImpl
    Blocks = {g0, g1}
    Short = Short
    EndpointErrors = {}
    MaxEndpointId = 0
    SeqModulus = 2
PROPERTY OnlyRootWritesEp0

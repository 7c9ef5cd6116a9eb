SPECIFICATION FairSpec
CONSTANTS
    w = w
    w2 = w2
    r = r
    r2 = r2
    a = a
    a2 = a2
    g0 = g0
    g1 = g1
    Threads = {r, r2}
    NoThread = NoThread
    May <- RaceMay
    Frames = {}
    Streams = {s1}
    NoStream = NoStream
    Buses = {1, 2}
    MaxBus = 2
    Impls = {e1, e2}
    NoImpl = NoImpl
    Blocks = {g0}
    Short = Short
    EndpointErrors = {}
    MaxEndpointId = 2
    SeqModulus = 2
INVARIANT UniqueEndpointIds

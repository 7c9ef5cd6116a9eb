SPECIFICATION Spec
CONSTANTS
    w = w
    w2 = w2
    r = r
    r2 = r2
    a = a
    a2 = a2
    g0 = g0
    g1 = g1
    Threads = {w, w2, r}
    NoThread = NoThread
    May <- RoutingMay
    Frames <- RoutingFrames
    Streams = {s1, s2}
    NoStream = NoStream
    Buses = {1, 2}
    MaxBus = 1
    Impls = {e1, e2}
    NoImpl = NoImpl
    Blocks = {g0}
    Short = Short
    EndpointErrors = {"EpError", "Busy"}
    MaxEndpointId = 3
    SeqModulus = 2
INVARIANTS
    TypeOK
    UniqueEndpointIds
    ReachesRegisteredEndpoint
    RegisteredPairsResolve
    RepliesInWireOrder

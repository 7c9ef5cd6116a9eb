CONSTANTS
    step = step
    safe = safe
    timed = timed
    link2 = link2
    clear = clear
    NoRequest = NoRequest
    Requests <- MCRequests
    Plan <- MCPlan
    Cfg <- MCCfg
    SvrSequencersMax = 1
    RolloverPeriod = 6
    RepeatForever = 9
    SeqStates = {1, 2, 3}
    StorageSize = 2
    SeqNums = {1, 2, 3}
    Boot = 4
    MaxTick = 7
SPECIFICATION Spec
INVARIANTS TypeOK QueuedInSequence ChainStopsAtError
PROPERTIES StartsInSendersOrder AnsweredOnce SequencersMoveAsGated PurgeOnlyAfterSilence NeverStartsEarly

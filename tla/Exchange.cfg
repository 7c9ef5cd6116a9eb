CONSTANTS
    Callers = {c1, c2}
    Patient = {c1}
    Headers <- MixedHeaders
    Foreign = Foreign
    Faults = {"lose", "repeat", "reorder", "foreign", "error"}
    MaxCalls = 3
    MaxFaults = 1
SPECIFICATION FairSpec
INVARIANTS TypeOK BacklogIsOwed AnswersNotShared NoLostWakeup
PROPERTIES LagNeverShrinks 

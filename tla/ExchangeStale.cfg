\* One client over a medium that neither loses nor changes anything.
CONSTANTS
    Callers = {c1}
    Patient = {}
    Headers <- OneHeader
    Foreign = Foreign
    Faults = {}
    MaxCalls = 2
    MaxFaults = 0
SPECIFICATION Spec
INVARIANT AnswerMatchesTransaction

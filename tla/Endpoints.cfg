CONSTANTS
    Callers = {c1, c2, c3}
    Clients = {c1, c2, c3}
    Buffers = {b1}
    BufferSize = 2
    Sizes = {1, 3}
    None = None
    NoOne = NoOne
    MaxLoans = 3
    MaxPlain = 1
    MaxErrors = 1
SPECIFICATION FairSpec
INVARIANTS TypeOK BuffersConserved NoLostLoan OwnBytesWritten
PROPERTIES PromotedOnce ErrorHadNoStandby LoansGranted

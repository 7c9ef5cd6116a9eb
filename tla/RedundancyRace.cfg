CONSTANTS
    Callers = {c1, c2}
    Clients = {c1, c2}
    Buffers = {b1}
    BufferSize = 2
    Sizes = {1}
    None = None
    NoOne = NoOne
    MaxLoans = 0
    MaxPlain = 2
    MaxErrors = 2
SPECIFICATION Spec
PROPERTY ErrorMeansBothFailed

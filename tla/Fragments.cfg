CONSTANTS
    Trains <- SentTrains
    MaxRequestSize = 8
    LengthMax = 8
    Faults = {"lose", "repeat", "reorder", "resize"}
    MaxFaults = 3
SPECIFICATION Spec
INVARIANTS TypeOK BufferedInOrder DeliveredWhole FittingRequestsArrive

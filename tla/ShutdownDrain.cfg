CONSTANTS
    w1 = w1
    Worker = {w1}
    N = 1
    Invalid = {}
    Unparsable = {}
    MaxRetries <- OneRetry
    MaxDeliveries = 3
    ReadCount = 1
    MaxMessages = 0
    Capacity = 1
    StopReading = TRUE
    Decisions = {"request", "delay"}
    Answers = {"html"}
    Faults = {}
    DeliveryCap = 2
    MaxStops = 1
SPECIFICATION Spec
PROPERTY ShutdownStartsNothing

CONSTANTS
    w1 = w1
    Worker = {w1}
    N = 2
    Invalid = {}
    Unparsable = {}
    MaxRetries <- OneRetry
    MaxDeliveries = 2
    ReadCount = 1
    MaxMessages = 0
    Capacity = 1
    StopReading = TRUE
    Decisions = {"request", "delay"}
    Answers = {"retryable", "malformed"}
    Faults = {"kafka"}
    DeliveryCap = 2
    MaxStops = 1
    MinIdle = 2
    PassTime = 1
    Poison = {1}
SPECIFICATION TimedSpec
PROPERTY EventuallySettled

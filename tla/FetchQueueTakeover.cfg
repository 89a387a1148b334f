CONSTANTS
    w1 = w1
    w2 = w2
    Worker = {w1, w2}
    N = 1
    Invalid = {}
    Unparsable = {}
    MaxRetries <- OneRetry
    MaxDeliveries = 2
    ReadCount = 1
    MaxMessages = 2
    Capacity = 1
    StopReading = TRUE
    Decisions = {"request"}
    Answers = {"html", "other", "retryable"}
    Faults = {"xautoclaim", "xack", "kafka"}
    DeliveryCap = 2
    MaxStops = 1
SYMMETRY Symmetry
SPECIFICATION Spec
INVARIANTS TypeOK NoLostCommand BudgetNeverCutShort

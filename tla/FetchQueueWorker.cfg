CONSTANTS
    w1 = w1
    Worker = {w1}
    N = 2
    Invalid = {2}
    Unparsable = {}
    MaxRetries <- OneRetry
    MaxDeliveries = 3
    ReadCount = 2
    MaxMessages = 0
    Capacity = 2
    StopReading = TRUE
    Decisions = {"request", "delay", "skip", "raise"}
    Answers = {"html", "retryable", "malformed"}
    Faults = {"xautoclaim", "xpending", "xreadgroup", "xack", "storage", "kafka"}
    DeliveryCap = 2
    MaxStops = 2
SPECIFICATION Spec
INVARIANTS IInv StoredFactHasObject RequeueFits
PROPERTIES ImplementsLedger ShutdownStopsReading ShutdownAbandonsBatch

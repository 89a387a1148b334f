CONSTANTS
    w1 = w1
    Worker = {w1}
    N = 1
    Invalid = {}
    Unparsable = {}
    MaxRetries <- OneRetry
    MaxDeliveries = 3
    ReadCount = 1
    MaxMessages = 0
    Capacity = 1
    StopReading = TRUE
    Decisions = {"request"}
    Answers = {"html", "retryable"}
    Faults = {"kafka"}
    DeliveryCap = 2
    MaxStops = 0
SPECIFICATION HSpec
INVARIANT KafkaFailuresAreFree

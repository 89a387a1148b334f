SPECIFICATION LiveSpec
CONSTANTS
    Worker = {w1, w2}
    Order <- MCOrder
    NoIp = NoIp
    Threshold = 2
    Window = 2
    Cooldown = 2
    MaxPerUnit = 1
    MaxFaults = 1
INVARIANTS TypeOK ThresholdMeansCooldown
PROPERTIES StickyMapping RecoversUnlessRefused

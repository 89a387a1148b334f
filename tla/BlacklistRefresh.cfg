SPECIFICATION LiveSpec
CONSTANTS
    Worker = {w1}
    Order <- MCOrder
    NoIp = NoIp
    Threshold = 1
    Window = 1
    Cooldown = 2
    MaxPerUnit = 1
    MaxFaults = 0
PROPERTIES CooldownEnds

CONSTANTS
    Host = {"h", "g", "g:8080"}
    Identity = {"a", "b"}
    Challenge = {"captcha_challenge"}
    HostIpThreshold = 2
    IpThreshold = 2
    HostThreshold = 2
    Window = 2
    BackoffBase = 1
    BackoffMax = 2
    Cooldown = 2
    Slowdown = 1
    MaxFaults = 1
    Command = {1, 2, 3, 4}
    HostOf <- MCHostOf
    NetlocOf <- MCNetlocOf
    Refreshed <- NoRefresh
    BindIps <- MCBindIps
    PublicIp <- MCPublicIp
    Source = "auto"
    AllowBindIp = TRUE
    Score <- MCScore
    PoolSize = 2
    MinDelay = 1
    Jitter = 0
    SlowdownFactor = 2
    MayGo = {"a1"}
SPECIFICATION LiveSpec
INVARIANTS TypeOK CrossDimensionEvidence ThresholdMeansBackoff
PROPERTIES PoolsAreSticky Spacing DelayedForAReason EveryCommandFetched

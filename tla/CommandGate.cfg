CONSTANTS
    Content <- MCContent
    Bootstrap = "settings"
    Form <- MCForm
    Default <- MCDefault
    Scopes <- MCScopes
    Command <- MCCommand
    Interval = 2
    MaxWrites = 3
    MaxBack = 1
    Message = {g1}
    Strategy = {"STICKY_POOL", "STICKY_BY_HOST"}
    Delay = {1, 2}
    TimeLeft = {0, 2}
    RetryTimes = 1
SPECIFICATION GateSpec
INVARIANTS GateTypeOK LkgFlagTruthful
PROPERTIES ScopePauseHonoured DecisionsAreFresh LastKnownGoodKept PauseHolds DeadlineBoundsFirstSend

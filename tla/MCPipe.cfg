SPECIFICATION LingerSpec
CONSTANTS
    MaxMsgs <- MCMaxMsgs
    MultiPart = {1, 2}
    Credential = {2}
    MaxCredentials = 2
    Hiccuper = {2}
    MaxHiccups = 1
    MaxCalls = 4
    MaxTerms = 1
    Delays = {TRUE, FALSE}
    Hwm <- MCHwm
    NoDelay = {1}
    Tuner = {1}
    Boost = 1
    NewHwm = {1}
INVARIANTS NothingDangles HwmRespected NoLostActivation
PROPERTIES InOrder Progress
CHECK_DEADLOCK FALSE

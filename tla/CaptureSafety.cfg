\* Two clients that may reconnect at once, and every fault; sessions of three platforms.
SPECIFICATION MCSpec
CONSTANTS
    MaxSessions = 2
    MaxFaults = 1
    Chains <- MCChains
    OwnFrames = {"vaapi", "vaapi_cqp"}
    Recreated = {"videotoolbox"}
    Deaf = {"vaapi_cqp"}
    Captured = {1, 2}
    Negotiated = {1}
    Platform <- MCPlatform
    Backends = {"evdi", "sck", "vdd"}
    Shapes = {1, 2}
    RefreshRetries = 2
    HardResetAfter = 2
    MaxDisplayFaults = 2
    Rates = {1, 2}
    Gop = 2
    MinPli = 1
    MaxIdr = 2
    MaxEncFaults = 1
    MaxLosses = 1
INVARIANTS StartIsBacked BaseIsSessions SessionsLeaveNothing
PROPERTIES StopEndsSession WoundUpIsServed PictureRepaired RefreshIsAnswered
CHECK_DEADLOCK FALSE

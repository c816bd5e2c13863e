\* A Mac whose screen does not change, and whose client asks for an IDR.
SPECIFICATION MCSpec
CONSTANTS
    MaxSessions = 1
    MaxFaults = 0
    Chains <- StillChains
    OwnFrames = {"vaapi", "vaapi_cqp"}
    Recreated = {"videotoolbox"}
    Deaf = {"vaapi_cqp"}
    Captured = {1, 2}
    Negotiated = {1}
    Platform <- StillPlatform
    Backends = {"evdi", "sck", "vdd"}
    Shapes = {1, 2}
    RefreshRetries = 2
    HardResetAfter = 2
    MaxDisplayFaults = 2
    Rates = {1, 2}
    Gop = 2
    MinPli = 1
    MaxIdr = 2
    MaxEncFaults = 1
    MaxLosses = 1
PROPERTY RecoveryIsAnswered
CHECK_DEADLOCK FALSE

SPECIFICATION Spec
CONSTANTS
    MaxConnectors = 2
    CrtcCount = 3
    Encoders <- MCEncoders
    NoEncoder = NoEncoder
    ModeLists <- MCModeLists
    ModeRequests <- MCModeRequests
    ForceRequests <- MCForceRequests
    StrayRates = {0, 1}
    DefaultRate = 60
    NoRequest = NoRequest
    NoOutput = NoOutput
    IntMax = 32767
    ShortMax = 255
    Second = 1000
    MaxPlugs = 1
INVARIANTS
    ConnectorChoice
    NearestMode
    CrashOnlyEnforced
CHECK_DEADLOCK FALSE

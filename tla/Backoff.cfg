CONSTANTS
    PendingBase = 5
    ReconnectBase = 1
    ReconnectMax = 6
    VerboseAttempts = 3
    HeartbeatInterval = 20
    Answer = 1
    Policies <- MCPolicies
    Cap = 41
SPECIFICATION Spec
INVARIANTS
    TypeOK
    RecoversInTime
    StaysVisible

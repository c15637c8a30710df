SPECIFICATION Spec
CONSTANTS
    ServiceCount = 1
    MaxWorkers = 2
    MaxToolAttempts = 9
    MaxAgentAttempts = 3
    AgentModes = {TRUE}
INVARIANT
    FollowupReserved

SPECIFICATION FairSpec
CONSTANTS
    ServiceCount = 2
    MaxWorkers = 2
    MaxToolAttempts = 4
    MaxAgentAttempts = 3
    AgentModes = {TRUE, FALSE}
INVARIANTS
    BudgetIsKept
    NothingIsLost
PROPERTY
    InvestigationEnds

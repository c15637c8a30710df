SPECIFICATION BatchSpec
CONSTANTS
    i1 = i1
    i2 = i2
    u1 = u1
    t1 = t1
    Importers = {i1, i2}
    Searchers = {u1}
    Teams = {t1}
    Payloads <- SomePayloads
    Relevance <- Scores
    Limit = 1
    MaxImports = 3
    MaxSearches = 2
    Columns <- AllowList
    Stored <- AllColumns
    Functions = {"COUNT"}
    MaxRows = 2
    MaxOffset = 1
    Statements <- SomeStatements
    PlanLength = 2
    CallLimit = 3
    TaskLimit = 2
    Reasoning = {TRUE, FALSE}
    Cases = 2
    Versions = {"v1", "v2"}
    MaxCrashes = 1
    MaxResumes = 3
    Sizes = {1, 2, 3}
    AttemptLimit = 3
    Pilots <- SomePilots
    TokenLimit = 9
    CharLimit = 12
    OutputLimit = 1
INVARIANT
    LabelsAlternate
CHECK_DEADLOCK FALSE

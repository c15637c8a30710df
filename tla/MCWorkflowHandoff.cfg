SPECIFICATION WorkflowAlone
CONSTANTS
    s1 = s1
    s2 = s2
    s3 = s3
    c1 = c1
    c2 = c2
    Services = {s1}
    MaxSteps = 5
    LlmPlans <- ShortPlans
    Callers = {c1, c2}
    Calls <- OneTwiceOneOnce
    Trees = {"baseline", "current", "later"}
    BaselineTree = "baseline"
    RulesOf <- SomeRules
    Configs = {"one", "other"}
    AbCases = {"cross-service-tool-failure"}
    SuiteFaults <- SomeFaults
    LiveCases = 2
    ComponentCases = 1
    MaxPrograms = 2
    MaxRepeat = 2
INVARIANT
    DecisionEndsRun

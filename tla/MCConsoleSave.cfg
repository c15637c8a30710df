SPECIFICATION PageSpec
CONSTANTS
    r1 = r1
    r2 = r2
    m1 = m1
    m2 = m2
    b1 = b1
    b2 = b2
    p1 = p1
    p2 = p2
    p3 = p3
    c1 = c1
    c2 = c1
    t1 = t1
    t2 = t1
    Requests = {r1}
    Members = {m1, m2}
    Keys = {"k1"}
    Bodies = {b1, b2}
    MaxSends = 2
    Clients = {p1, p2}
    MaxEvents = 2
    MaxProgress = 2
    MaxRestarts = 1
    Watchers = {p1}
    MaxAttempts = 2
    MaxTrace = 3
    Page = p1
    Reviewers = {p1, p2}
    Cases = {c1}
    Owners = {m1}
    Teams = {t1}
    CaseTeam <- OneCaseEach
    Drafts <- SomeDrafts
    MaxSaves = 1
    Inflight = 2
    MaxClicks = 4
PROPERTY
    ConflictKeepsDraft
CHECK_DEADLOCK FALSE

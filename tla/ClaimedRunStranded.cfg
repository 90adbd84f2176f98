SPECIFICATION FairSpec
CONSTANTS
    r1 = r1
    r2 = r2
    a1 = a1
    a2 = a2
    t1 = t1
    t2 = t2
    p1 = p1
    p2 = p2
    v1 = v1
    None = None
    Run = {r1}
    Agent = {a1}
    Tester = {v1}
    Task = {t1, t2}
    Compatible = {a1}
    PendingRun = {}
    RunProject <- MCRunProject
    AgentProject <- MCAgentProject
    PinnedTester <- NoTesterForRun
    AgentTester <- NoTesterForAgent
    MaxConns = 2
    Saturation = "none"
    MaxConcurrentRuns = 1
    RecentCapacity = 2
    OutboxBound = 1
    NoProgressReap = TRUE
    PromptDispatch = TRUE
    Faults = {"break"}
    MaxFaults = 1
    MaxQuiet = 3
PROPERTIES
    ClaimedRunsMove
CHECK_DEADLOCK FALSE

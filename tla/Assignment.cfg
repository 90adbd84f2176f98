SPECIFICATION Spec
CONSTANTS
    r1 = r1
    r2 = r2
    a1 = a1
    a2 = a2
    t1 = t1
    t2 = t2
    p1 = p1
    p2 = p2
    v1 = v1
    None = None
    Run = {r1, r2}
    Agent = {a1, a2}
    Tester = {v1}
    Task = {t1, t2}
    Compatible = {a1, a2}
    PendingRun = {}
    RunProject <- MCRunProject
    AgentProject <- MCAgentProject
    PinnedTester <- NoTesterForRun
    AgentTester <- NoTesterForAgent
    MaxConns = 1
    Saturation = "none"
    MaxConcurrentRuns = 1
    RecentCapacity = 2
    OutboxBound = 0
    NoProgressReap = TRUE
    PromptDispatch = TRUE
    Faults = {}
    MaxFaults = 0
    MaxQuiet = 0
SYMMETRY Interchangeable
INVARIANTS
    SingleExecutor
    TasksCancellable
CHECK_DEADLOCK FALSE

\* One process, three agents, two calls, limit one, three faults.  It may come to rest with both calls hung.
CONSTANTS
    p1 = p1
    p2 = p2
    c3 = c3
    Procs = {p1}
    Agents = {a1, a2, a3}
    Calls = {c1, c2}
    ProcOf <- MCProcOf
    MaxInstances = 1
    MaxFaults = 3
SPECIFICATION FairSpec
INVARIANTS LaunchesOnce UseIsLocked OvershootBounded
PROPERTY CallsEnd
CHECK_DEADLOCK FALSE

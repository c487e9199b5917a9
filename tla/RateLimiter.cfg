\* Two agents, two processes, one Redis error or crash.
CONSTANTS
    Agents = {a1, a2}
    Domain = domain
    Callers = {c1, c2}
    PerAgent = 1
    DomainPerDay = 2
    MaxCount = 2
    MaxFaults = 1
SPECIFICATION FairSpec
INVARIANTS TypeOK WithinQuota TicketsGrantedOnce
PROPERTY QuotaReopens
CHECK_DEADLOCK FALSE

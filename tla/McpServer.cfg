\* Two sessions, a call over SSE or stdio, two rotations; x onboarded, z in config.agents.
CONSTANTS
    Names = {x, z}
    Legacy = {z}
    First = z
    Unchecked = default
    Sessions = {s1, s2}
    Calls = {c1}
    Requests = {r1, r2}
    Reviewed = {x}
    MaxKeys = 3
    MaxFaults = 1
    None = None
SPECIFICATION Spec
INVARIANTS MailBearsItsSender NoAnonymousCalls LatestKeyWorks

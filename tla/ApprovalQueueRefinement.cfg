\* One reviewer, three mails, two faults: refines HeldMail.
CONSTANTS
    Mails = {m1, m2, m3}
    Reviewers = {r1}
    ListLimit = 50
    MaxFaults = 2
SPECIFICATION Spec
PROPERTY KeepsPromise
CHECK_DEADLOCK FALSE

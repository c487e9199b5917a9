\* Two reviewers on one mail, no faults.
CONSTANTS
    Mails = {m1}
    Reviewers = {r1, r2}
    ListLimit = 50
    MaxFaults = 0
SPECIFICATION Spec
INVARIANT RejectedIsDiscarded
CHECK_DEADLOCK FALSE

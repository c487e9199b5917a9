\* Two reviewers, two mails, one fault; the listing shows one mail, so that the
\* second one pushed hides the first.
CONSTANTS
    Mails = {m1, m2}
    Reviewers = {r1, r2}
    ListLimit = 1
    MaxFaults = 1
SPECIFICATION FairSpec
INVARIANTS TypeOK OnlyApprovedIsSent PendingIsListed
PROPERTIES ApprovedIsSent DecidedLeavesList
CHECK_DEADLOCK FALSE

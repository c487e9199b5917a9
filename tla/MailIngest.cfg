\* A plain mail beside an invitation, a blank or a broken one; two attempts each, three faults.
CONSTANTS
    a1 = a1
    Mails = {m1, m2}
    To <- MCTo
    m1 = m1
    m2 = m2
    Kinds <- MCKinds
    Agents = {a1}
    Legacy = {a1}
    MaxAttempts = 2
    MaxFaults = 3
    PageSize = 1
SPECIFICATION FairSpec
INVARIANTS DuplicatesAreLateAnswers PagingMissesNothing
PROPERTIES KeepsMail EveryMailSettles

\* Three accounts; a two-use and a zero-use invite; one crash.
CONSTANTS
    twice = twice
    zero = zero
    Accounts = {a1, a2, a3}
    Invites = {twice, zero}
    MaxUses <- MCMaxUses
    NoInvite = NoInvite
    MaxFaults = 1
SPECIFICATION FairSpec
PROPERTIES OnboardEnds RevocationSticks
INVARIANTS WithinCapacity UsesHaveAccounts
CHECK_DEADLOCK FALSE

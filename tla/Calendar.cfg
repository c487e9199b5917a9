\* One server, two importing processes, one calendar of two rows and one journal.
CONSTANTS
    Procs = {s1, m1, m2}
    Servers = {s1}
    Calendars = {c1}
    Journals = {j1}
    Offers = {}
    Alarms <- StoreAlarms
    Invitations <- StoreInvitations
    Milestones <- OneMilestone
    Starting <- Empty
    Uids = {u1, u2}
    Horizon = 9
    Limit = 5
    MaxPush = 2
    MaxRows = 1
    NoEnd = NoEnd
    NoUid = NoUid
    u1 = u1
    u2 = u2
SPECIFICATION FairSpec
INVARIANT UidOncePerImporter
PROPERTIES KeepsRecords CallsEnd

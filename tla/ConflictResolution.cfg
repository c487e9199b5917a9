\* A server and an importing process on one calendar of two to six rows.
CONSTANTS
    Procs = {s1, m1}
    Servers = {s1}
    Calendars = {c1}
    Journals = {}
    Offers <- Late
    Alarms = {}
    Invitations <- Mail
    Milestones = {}
    Starting <- Crowded
    Uids = {u1, u2}
    Horizon = 6
    Limit = 9
    MaxPush = 2
    MaxRows = 3
    NoEnd = NoEnd
    NoUid = NoUid
    u1 = u1
    u2 = u2
SPECIFICATION Spec
INVARIANT NoSilentConflict
PROPERTIES GivesUpOnlyIfCrowded OnlyPostpones KeepsRecords

------------------------------ MODULE Calendar ------------------------------
(***************************************************************************)
(* The temporal store and the tools on it (temporal/db.py, tools.py,       *)
(* serializer.py, ingest.py): processes with a SQLite connection each      *)
(* schedule, import, cancel and resolve conflicts, one step per access.    *)
(*                                                                         *)
(* SQLite, WAL mode, as Python drives it: an INSERT or UPDATE opens a      *)
(* transaction that only commit() ends, and the code commits on success    *)
(* only.  One connection may write at a time; the others wait up to 5 s    *)
(* and then fail, their transaction open.  The next read in it fixes the   *)
(* snapshot; once somebody else commits, that connection is stale: it      *)
(* reads the past and its writes fail until it is closed.                  *)
(*                                                                         *)
(* Times are integers, an hour is 1, now lies between 0 and 1.  A row's    *)
(* start and end are written in one zone: naive, or aware and so many      *)
(* hours ahead of UTC.  The rules parse them; SQL compares the text.       *)
(* NoEnd is SQL NULL.                                                      *)
(***************************************************************************)
EXTENDS Integers, FiniteSets, Sequences

CONSTANTS
    Procs, Servers,      \* processes; those that outlive a call (MCP servers)
    Calendars, Journals, \* the event and the journal table, per agent
    Offers, Alarms,      \* rows an agent may schedule; timers and alarms
    Invitations,         \* sequences of rows an .ics part may hold
    Milestones,          \* journal rows
    Starting,            \* the contents a calendar may start with
    Uids,                \* the UIDs invitations bear
    Horizon,             \* end of the 30 days resolve_conflicts looks at
    Limit,               \* LIMIT of the queries (200)
    MaxPush,             \* pushes of the forward scan (100)
    MaxRows,             \* no new entry is asked for beyond this many
    NoEnd, NoUid

Books == Calendars \cup Journals
Entry == [start: Int, end: Int \cup {NoEnd}, flex: {"none", "low", "high"}, zone: {"aware", "naive"},
          ahead: -12..14, uid: Uids \cup {NoUid}, status: {"confirmed", "cancelled"}]
(* Only imports bring a UID; a calendar starts as imports may have left it. *)
ASSUME CalendarAssumption ==
    /\ Servers \subseteq Procs /\ IsFiniteSet(Procs) /\ Calendars \cap Journals = {}
    /\ {Horizon, Limit, MaxPush, MaxRows} \subseteq Nat
    /\ NoEnd \notin Int
    /\ Offers \cup Alarms \cup Milestones \subseteq {e \in Entry : e.uid = NoUid}
    /\ Invitations \subseteq Seq(Entry) \ {<<>>}
    /\ Starting \subseteq Seq(Entry)
    /\ \A s \in Starting : \A n \in DOMAIN s :
           s[n].uid = NoUid
           \/ Cardinality({m \in DOMAIN s : s[m].uid = s[n].uid}) <= Cardinality(Procs \ Servers)

VARIABLES
    rows,    \* rows[b]: the committed rows of book b, a function from ids
    txn,     \* the transaction of each connection
    view,    \* what a stale connection reads
    pc, job, \* each process's step and the call it serves
    plan,    \* the locals of resolve_conflicts
    touched  \* (history) rows others wrote since p took its snapshot

vars == <<rows, txn, view, pc, job, plan, touched>>

(* ---- the conflict rules, on a table r of rows ---- *)
(* The text of a time shows what the clock on the wall does; that of now   *)
(* is in UTC.  For one wall time, the naive text comes first, then +00:00  *)
(* to +14:00, then -01:00 to -12:00.                                       *)
Wall(e) == e.start + e.ahead
Suffix(e) == IF e.zone = "naive" THEN 0 ELSE IF e.ahead >= 0 THEN 1 + e.ahead ELSE 16 - e.ahead
Text(e) == 32 * Wall(e) + Suffix(e)
Before(r, m, n) == Text(r[m]) < Text(r[n]) \/ (Text(r[m]) = Text(r[n]) /\ m < n)
Least(r, S) == CHOOSE n \in S : \A m \in S \ {n} : Before(r, n, m)
TopRows(r, S) == {n \in S : Cardinality({m \in S : Before(r, m, n)}) < Limit}
Upcoming(r) == TopRows(r, {n \in DOMAIN r : r[n].status = "confirmed" /\ Wall(r[n]) \in 1..Horizon})

End(e) == IF e.end = NoEnd THEN e.start ELSE e.end
Duration(e) == IF e.end = NoEnd \/ End(e) <= e.start THEN 1 ELSE e.end - e.start
Overlap(s, t, u, v) == s < v /\ u < t
Conflicts(r) ==
    {x \in Upcoming(r) \X Upcoming(r) :
        LET m == x[1]  n == x[2] IN
        Before(r, m, n) /\ Overlap(r[m].start, End(r[m]), r[n].start, End(r[n]))}
MixesZones(r) == \E m, n \in Upcoming(r) : r[m].zone # r[n].zone   \* comparing raises TypeError

Rank == [none |-> 0, low |-> 1, high |-> 2]
Yields(r, m, n) ==
    LET a == r[m]  b == r[n] IN
    \/ Rank[a.flex] > Rank[b.flex]
    \/ Rank[a.flex] = Rank[b.flex] /\ Duration(a) < Duration(b)
    \/ Rank[a.flex] = Rank[b.flex] /\ Duration(a) = Duration(b) /\ m > n
OverlapsStill(r, m, n) == TRUE   \* a mutant of StillOverlap: pairs that earlier moves parted move again
StillOverlap(r, m, n) ==
    Overlap(r[m].start, r[m].start + Duration(r[m]), r[n].start, r[n].start + Duration(r[n]))
AnyMoves(e) == TRUE   \* a mutant of Movable
Movable(e) == e.flex # "none"
(* Where _find_collision stops on the slot s..t: a row that overlaps it or *)
(* that cannot be compared with it.                                        *)
StopsStarting(r, s, t, zone, except) ==   \* a mutant: rows that began before the slot are missed
    {n \in Upcoming(r) \ except : r[n].zone # zone \/ r[n].start \in s..(t - 1)}
StopsTouching(r, s, t, zone, except) ==   \* a mutant: <= for <
    {n \in Upcoming(r) \ except : r[n].zone # zone \/ Overlap(s - 1, t, r[n].start, End(r[n]))}
Stops(r, s, t, zone, except) ==
    {n \in Upcoming(r) \ except : r[n].zone # zone \/ Overlap(s, t, r[n].start, End(r[n]))}

(* ---- connections ---- *)
Reads(p) == IF txn[p] = "stale" THEN view[p] ELSE rows
Read(p) == /\ txn' = [txn EXCEPT ![p] = IF @ = "begun" THEN "read" ELSE @]
           /\ UNCHANGED <<rows, view>>
MayWrite(p) == txn[p] # "stale" /\ \A q \in Procs \ {p} : txn[q] # "write"
Commit(p, b, n, e) ==
    /\ rows' = [rows EXCEPT ![b] = [k \in DOMAIN @ \cup {n} |-> IF k = n THEN e ELSE @[k]]]
    /\ txn' = [q \in Procs |-> IF q = p THEN "none" ELSE IF txn[q] = "read" THEN "stale" ELSE txn[q]]
    /\ view' = [q \in Procs |-> IF q # p /\ txn[q] = "read" THEN rows ELSE view[q]]
    /\ touched' = [q \in Procs |-> IF q # p /\ plan[q].on /\ job[q].book = b
                                   THEN touched[q] \cup {n} ELSE touched[q]]

NoJob == [op |-> "none", book |-> CHOOSE b \in Books : TRUE, todo |-> <<>>, id |-> 0, answer |-> "ok"]
NoRows == [b \in Books |-> <<>>]
NoPlan == [on |-> FALSE, map |-> <<>>, order |-> <<>>, todo |-> {}, mover |-> 0, stay |-> 0,
           at |-> 0, ahead |-> 0, tries |-> 0, unresolved |-> {}, gaveUp |-> {}]

Init ==
    /\ rows \in [Books -> Starting \cup {<<>>}]
    /\ \A b \in Journals : rows[b] = <<>>
    /\ txn = [p \in Procs |-> "none"] /\ view = [p \in Procs |-> NoRows]
    /\ pc = [p \in Procs |-> "idle"] /\ job = [p \in Procs |-> NoJob]
    /\ plan = [p \in Procs |-> NoPlan] /\ touched = [p \in Procs |-> {}]

Goto(p, l) == pc' = [pc EXCEPT ![p] = l]
(* An exception: parse_ics goes on with the next VEVENT, the tools and the *)
(* command line give up the call.                                          *)
NextItem(p) == /\ job' = [job EXCEPT ![p].todo = Tail(@), ![p].id = 0]
               /\ Goto(p, IF Len(job[p].todo) > 1 THEN "uid" ELSE "done")
Fail(p) == IF job[p].op = "import" THEN NextItem(p)
           ELSE job' = [job EXCEPT ![p].answer = "error"] /\ Goto(p, "done")

(* ---- calls ---- *)
Call(p, op, b, todo, id, l) ==
    /\ pc[p] = "idle" /\ Goto(p, l)
    /\ job' = [job EXCEPT ![p] = [op |-> op, book |-> b, todo |-> todo, id |-> id, answer |-> "ok"]]
    /\ UNCHANGED <<rows, txn, view, plan, touched>>
Room(b) == Cardinality(DOMAIN rows[b]) < MaxRows

Schedule(p) == \E b \in Calendars, e \in Offers, op \in {"schedule", "pencil"} :   \* pencil: auto_resolve = false
    p \in Servers /\ Room(b) /\ Call(p, op, b, <<e>>, 0, "count")
SetTimerAlarm(p) == \E b \in Calendars, e \in Alarms :
    p \in Servers /\ Room(b) /\ Call(p, "timer", b, <<e>>, 0, "count")
NominateMilestone(p) == \E b \in Journals, e \in Milestones :
    p \in Servers /\ Room(b) /\ Call(p, "milestone", b, <<e>>, 0, "count")
Import(p) == \E b \in Calendars, s \in Invitations :
    /\ p \notin Servers /\ Call(p, "import", b, s, 0, "uid")
    /\ Room(b) \/ \A i \in DOMAIN s : s[i].uid # NoUid
CancelEvent(p) == \E b \in Calendars, n \in 1..MaxRows : p \in Servers /\ Call(p, "cancel", b, <<>>, n, "find")
ResolveConflicts(p) == \E b \in Calendars : p \in Servers /\ Call(p, "resolve", b, <<>>, 0, "snap")
GetTemporalContext(p) == /\ p \in Servers /\ pc[p] = "idle" /\ Read(p)
                         /\ UNCHANGED <<pc, job, plan, touched>>

(* ---- inserting: uid check, _next_id, INSERT ---- *)
CheckUidNever(p) ==   \* a mutant
    pc[p] = "uid" /\ Read(p) /\ Goto(p, "count") /\ UNCHANGED <<job, plan, touched>>
CheckUid(p) ==
    LET b == job[p].book  uid == Head(job[p].todo).uid  r == Reads(p)[b] IN
    /\ pc[p] = "uid" /\ Read(p) /\ UNCHANGED <<plan, touched>>
    /\ IF uid # NoUid /\ \E n \in TopRows(r, DOMAIN r) : r[n].uid = uid
       THEN NextItem(p)
       ELSE Goto(p, "count") /\ UNCHANGED job
NextId(p) ==
    /\ pc[p] = "count" /\ Read(p) /\ Goto(p, "insert")
    /\ job' = [job EXCEPT ![p].id = Cardinality(DOMAIN Reads(p)[job[p].book]) + 1]
    /\ UNCHANGED <<plan, touched>>
InsertOrReplace(p) ==   \* a mutant
    LET j == job[p] IN
    /\ pc[p] = "insert" /\ MayWrite(p) /\ UNCHANGED plan
    /\ Commit(p, j.book, j.id, Head(j.todo))
    /\ IF j.op = "import" THEN NextItem(p) ELSE UNCHANGED job /\ Goto(p, "done")
Insert(p) ==
    LET j == job[p] IN
    /\ pc[p] = "insert" /\ MayWrite(p) /\ UNCHANGED plan
    /\ \/ /\ j.id \notin DOMAIN rows[j.book]
          /\ Commit(p, j.book, j.id, Head(j.todo))
          /\ IF j.op = "import" THEN NextItem(p)
             ELSE UNCHANGED job /\ Goto(p, IF j.op \in {"schedule", "pencil"} THEN "check" ELSE "done")
       \/ /\ j.id \in DOMAIN rows[j.book]            \* IntegrityError: the transaction stays open
          /\ txn' = [txn EXCEPT ![p] = "write"]
          /\ UNCHANGED <<rows, view, touched>> /\ Fail(p)
(* Five seconds of waiting for the lock, or a stale snapshot. *)
LockedOnlyIfStale(p) ==   \* a mutant: waits for the lock without end
    /\ pc[p] \in {"insert", "cancel", "move"} /\ txn[p] = "stale" /\ Fail(p)
    /\ UNCHANGED <<rows, txn, view, plan, touched>>
Locked(p) ==
    /\ pc[p] \in {"insert", "cancel", "move"} /\ ~MayWrite(p) /\ Fail(p)
    /\ txn' = [txn EXCEPT ![p] = IF @ = "none" THEN "begun" ELSE @]
    /\ UNCHANGED <<rows, view, plan, touched>>

(* ---- cancel_event ---- *)
FindEvent(p) ==
    LET r == Reads(p)[job[p].book] IN
    /\ pc[p] = "find" /\ Read(p) /\ UNCHANGED <<plan, touched>>
    /\ IF job[p].id \in TopRows(r, DOMAIN r) THEN Goto(p, "cancel") /\ UNCHANGED job
       ELSE Goto(p, "done") /\ job' = [job EXCEPT ![p].answer = "not found"]
UpdateStatus(p) ==
    LET b == job[p].book  n == job[p].id IN
    /\ pc[p] = "cancel" /\ MayWrite(p) /\ Goto(p, "done") /\ UNCHANGED <<job, plan>>
    /\ Commit(p, b, n, [rows[b][n] EXCEPT !.status = "cancelled"])

(* ---- get_conflicts and resolve_conflicts ---- *)
CheckConflicts(p) ==
    LET r == Reads(p)[job[p].book] IN
    /\ pc[p] = "check" /\ Read(p) /\ UNCHANGED <<plan, touched>>
    /\ IF MixesZones(r) THEN Fail(p)
       ELSE /\ Goto(p, IF job[p].op = "schedule" /\ Conflicts(r) # {} THEN "snap" ELSE "done")
            /\ UNCHANGED job
Snapshot(p) ==
    LET b == job[p].book  r == Reads(p)[b] IN
    /\ pc[p] = "snap" /\ Read(p)
    /\ IF MixesZones(r) THEN Fail(p) /\ UNCHANGED <<plan, touched>>
       ELSE /\ Goto(p, "pair") /\ UNCHANGED job
            /\ plan' = [plan EXCEPT ![p] = [NoPlan EXCEPT !.on = TRUE, !.map = r, !.order = r, !.todo = Conflicts(r)]]
            /\ touched' = [touched EXCEPT ![p] = {n \in DOMAIN rows[b] : n \notin DOMAIN r \/ r[n] # rows[b][n]}]
FirstPair(o, S) ==
    CHOOSE x \in S : \A y \in S \ {x} : Before(o, x[1], y[1]) \/ (x[1] = y[1] /\ Before(o, x[2], y[2]))
NextPair(p) ==
    /\ pc[p] = "pair" /\ UNCHANGED <<rows, txn, view, job, touched>>
    /\ IF plan[p].todo = {} THEN Goto(p, "done") /\ UNCHANGED plan
       ELSE LET x == FirstPair(plan[p].order, plan[p].todo)
                r == plan[p].map
                mover == IF Yields(r, x[1], x[2]) THEN x[1] ELSE x[2]
                stay == IF mover = x[1] THEN x[2] ELSE x[1]
                rest == [plan EXCEPT ![p].todo = @ \ {x}]
            IN \/ /\ ~StillOverlap(r, x[1], x[2])
                  /\ plan' = rest /\ UNCHANGED pc
               \/ /\ StillOverlap(r, x[1], x[2]) /\ ~Movable(r[mover])
                  /\ plan' = [rest EXCEPT ![p].unresolved = @ \cup {x}] /\ UNCHANGED pc
               \/ /\ StillOverlap(r, x[1], x[2]) /\ Movable(r[mover])
                  /\ plan' = [rest EXCEPT ![p].mover = mover, ![p].stay = stay, ![p].tries = 0,
                                          ![p].at = r[stay].start + Duration(r[stay]), ![p].ahead = r[stay].ahead]
                  /\ Goto(p, "scan")
(* One _find_collision and what the loop makes of it.  A row without end   *)
(* that lies in the slot is fatal to the push (AttributeError on None).    *)
Scan(p) ==
    LET l == plan[p]  r == Reads(p)[job[p].book]  m == l.map[l.mover]
        stops == Stops(r, l.at, l.at + Duration(m), m.zone, {l.mover, l.stay})
        hit == Least(r, stops)
    IN
    /\ pc[p] = "scan" /\ Read(p) /\ UNCHANGED touched
    /\ \/ /\ stops # {} /\ (r[hit].zone # m.zone \/ (r[hit].end = NoEnd /\ l.tries < MaxPush))
          /\ Fail(p) /\ UNCHANGED plan
       \/ /\ stops # {} /\ r[hit].zone = m.zone /\ r[hit].end # NoEnd /\ l.tries < MaxPush
          /\ plan' = [plan EXCEPT ![p].at = r[hit].end, ![p].ahead = r[hit].ahead, ![p].tries = @ + 1]
          /\ UNCHANGED <<pc, job>>
       \/ /\ stops # {} => r[hit].zone = m.zone
          /\ l.tries >= MaxPush                       \* even if the slot is free now
          /\ plan' = [plan EXCEPT ![p].gaveUp = @ \cup {{l.mover, l.stay}}]
          /\ Goto(p, "pair") /\ UNCHANGED job
       \/ /\ stops = {} /\ l.tries < MaxPush
          /\ Goto(p, "move") /\ UNCHANGED <<plan, job>>
Move(p) ==
    LET l == plan[p]  b == job[p].book
        Moved(e) == [e EXCEPT !.start = l.at, !.end = l.at + Duration(l.map[l.mover]), !.ahead = l.ahead]
    IN
    /\ pc[p] = "move" /\ MayWrite(p) /\ Goto(p, "pair") /\ UNCHANGED job
    /\ Commit(p, b, l.mover, Moved(rows[b][l.mover]))
    /\ plan' = [plan EXCEPT ![p].map[l.mover] = Moved(@)]

(* The answer is returned; a process that is not a server exits. *)
Close(p) ==
    /\ txn' = [txn EXCEPT ![p] = "none"] /\ view' = [view EXCEPT ![p] = NoRows]
Reset(p) ==
    /\ Goto(p, "idle") /\ UNCHANGED rows
    /\ job' = [job EXCEPT ![p] = NoJob] /\ plan' = [plan EXCEPT ![p] = NoPlan]
    /\ touched' = [touched EXCEPT ![p] = {}]
Done(p) == /\ pc[p] = "done" /\ Reset(p)
           /\ IF p \in Servers THEN UNCHANGED <<txn, view>> ELSE Close(p)
Crash(p) == (pc[p] # "idle" \/ txn[p] # "none") /\ Reset(p) /\ Close(p)

Start(p) == \/ Schedule(p) \/ SetTimerAlarm(p) \/ NominateMilestone(p) \/ Import(p)
            \/ CancelEvent(p) \/ ResolveConflicts(p) \/ GetTemporalContext(p)
Step(p) == \/ CheckUid(p) \/ NextId(p) \/ Insert(p) \/ Locked(p) \/ FindEvent(p) \/ UpdateStatus(p)
           \/ CheckConflicts(p) \/ Snapshot(p) \/ NextPair(p) \/ Scan(p) \/ Move(p) \/ Done(p)
Next == \E p \in Procs : Start(p) \/ Step(p) \/ Crash(p)
Spec == Init /\ [][Next]_vars
FairSpec == Spec /\ \A p \in Procs : WF_vars(Step(p))   \* the handlers run without awaiting anything else

-----------------------------------------------------------------------------
(* db.py never deletes: a stored entry keeps its identity whoever else     *)
(* writes, a cancellation is final, and fixed entries keep their times     *)
(* (the rules of resolve_conflicts).  Ids are handed out without gaps, so  *)
(* that the count of _next_id is a fresh id.                               *)
Evolves(e, f) ==
    /\ f.uid = e.uid /\ f.flex = e.flex /\ f.zone = e.zone
    /\ e.status = "cancelled" => f.status = "cancelled"
    /\ <<f.start, f.end, f.ahead>> # <<e.start, e.end, e.ahead>> => e.flex # "none"
KeepsRecords ==
    [][\A b \in Books :
        /\ \A n \in DOMAIN rows[b] : n \in DOMAIN rows'[b] /\ Evolves(rows[b][n], rows'[b][n])
        /\ DOMAIN rows'[b] = 1..Cardinality(DOMAIN rows'[b])]_vars

(* The "idempotent check by UID" of parse_ics: it and the insert are two   *)
(* accesses, so imports that overlap can both store an invitation, but no  *)
(* more often than there are processes to overlap, however many            *)
(* redeliveries follow, as long as the calendar fits the LIMIT.            *)
UidOncePerImporter ==
    \A b \in Calendars : \A n \in DOMAIN rows[b] :
        rows[b][n].uid # NoUid /\ Cardinality(DOMAIN rows[b]) <= Limit =>
            Cardinality({m \in DOMAIN rows[b] : rows[b][m].uid = rows[b][n].uid})
                <= Cardinality(Procs \ Servers)

(* Every call is answered, also behind a connection that keeps the write   *)
(* lock after a failed INSERT.                                             *)
CallsEnd == \A p \in Procs : pc[p] # "idle" ~> pc[p] = "idle"

(* A resolution only postpones: an entry it moves starts later than it     *)
(* did, although moves and pushes follow one another and stays have moved  *)
(* themselves, unless somebody else has written the entry since the        *)
(* resolution took its snapshot.                                           *)
OnlyPostpones ==
    [][\A p \in Procs :
        LET b == job[p].book  n == plan[p].mover IN
        pc[p] = "move" /\ pc'[p] = "pair" => n \in touched[p] \/ rows'[b][n].start > rows[b][n].start]_vars

(* A resolution that ends well leaves no overlap unmentioned among the     *)
(* rows its queries return: what still overlaps was reported unresolved,   *)
(* or somebody else wrote it meanwhile (temporal.md:270, "forward          *)
(* collision scanning to avoid creating new conflicts"), as long as the    *)
(* calendar fits the LIMIT.  The queries return a row by the text of its   *)
(* start, so a row whose offset takes that text out of the window is not   *)
(* looked at, even when its time is in it.                                 *)
NoSilentConflict ==
    \A p \in Procs :
        LET r == rows[job[p].book]  ends == pc[p] = "done" /\ plan[p].on /\ job[p].answer = "ok" IN
        ends /\ Cardinality(DOMAIN r) <= Limit =>
            \A x \in Conflicts(r) :
                \/ {x[1], x[2]} \cap touched[p] # {}
                \/ x \in plan[p].unresolved \/ {x[1], x[2]} \in plan[p].gaveUp

(* The rows between the end of the entry that stays and the slot the scan  *)
(* has reached.                                                            *)
Passed(p) ==
    LET l == plan[p]  r == rows[job[p].book]  from == l.map[l.stay].start + Duration(l.map[l.stay]) IN
    {n \in Upcoming(r) \ {l.mover, l.stay} : from < End(r[n]) /\ End(r[n]) <= l.at}

(* The scan gives up only behind MaxPush other entries, each of which lies *)
(* in its way, unless somebody else writes meanwhile.                      *)
GivesUpOnlyIfCrowded ==
    [][\A p \in Procs :
        pc[p] = "scan" /\ pc'[p] = "pair" /\ touched[p] = {} => Cardinality(Passed(p)) >= MaxPush]_vars
=============================================================================

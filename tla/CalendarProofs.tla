--------------------------- MODULE CalendarProofs ---------------------------
(***************************************************************************)
(* Theorems about Calendar, for any processes, calendars, rows and limits. *)
(* Each safety property has an inductive invariant of its own, on top of   *)
(* the first: StoreInv says what a connection that is to write knows of    *)
(* the table (RecordsAreKept); UidInv counts copies of an invitation with  *)
(* the insertions under way (CopiesAreFew); ResolveInv follows a           *)
(* resolution from its snapshot to its last move (ResolutionIsHonest,      *)
(* ResolutionOnlyPostpones, ScanGivesUpLate).                              *)
(***************************************************************************)
EXTENDS Calendar, FiniteSetTheorems, SequenceTheorems, WellFoundedInduction, TLAPS

(***************************************************************************)
(* Types.  A table is a finite sequence of entries: ids have no gaps.      *)
(***************************************************************************)
Tables == UNION {[1 .. k -> Entry] : k \in Nat}
Transactions == {"none", "begun", "read", "write", "stale"}
Labels == {"idle", "uid", "count", "insert", "find", "cancel", "check", "snap", "pair", "scan", "move", "done"}
Ops == {"none", "schedule", "pencil", "timer", "milestone", "import", "cancel", "resolve"}
Jobs == [op: Ops, book: Books \cup {NoJob.book}, todo: Seq(Entry), id: Nat, answer: {"ok", "error", "not found"}]
Plans == [on: BOOLEAN, map: Tables, order: Tables, todo: SUBSET (Nat \X Nat), mover: Nat, stay: Nat,
          at: Int, ahead: -12..14, tries: Nat, unresolved: SUBSET (Nat \X Nat), gaveUp: SUBSET SUBSET Nat]
StoreTypes == rows \in [Books -> Tables] /\ view \in [Procs -> [Books -> Tables]]
TypeInv ==
    /\ StoreTypes /\ txn \in [Procs -> Transactions]
    /\ pc \in [Procs -> Labels] /\ job \in [Procs -> Jobs] /\ plan \in [Procs -> Plans]
    /\ touched \in [Procs -> SUBSET Nat]

(* Table s is what has become of table r. *)
Evolved(r, s) == \A n \in DOMAIN r : n \in DOMAIN s /\ Evolves(r[n], s[n])

(***************************************************************************)
(* What a process knows of the store when it writes.  Its id was the count *)
(* of a table that has only grown since; what it cancels or moves was in   *)
(* such a table; what it moves may move, and to a later time.              *)
(***************************************************************************)
ViewOK(p) == \A b \in Books : Evolved(view[p][b], rows[b])
JobOK(p) ==
    /\ pc[p] # "idle" => job[p].book \in Books
    /\ pc[p] \in {"uid", "count", "insert"} => job[p].todo # <<>>
    /\ job[p].op = "import" => pc[p] \in {"uid", "count", "insert", "done"}
    /\ pc[p] = "insert" => job[p].id >= 1 /\ 1 .. (job[p].id - 1) \subseteq DOMAIN rows[job[p].book]
    /\ pc[p] = "cancel" => job[p].id \in DOMAIN rows[job[p].book]
Paired(l) ==
    \A x \in l.todo : /\ x[1] \in DOMAIN l.map /\ x[2] \in DOMAIN l.map /\ x[1] # x[2]
                      /\ Wall(l.order[x[1]]) > 0 /\ Wall(l.order[x[2]]) > 0
Scanning(l) ==
    /\ l.mover \in DOMAIN l.map /\ l.stay \in DOMAIN l.map /\ l.mover # l.stay
    /\ l.map[l.mover].flex # "none" /\ l.at > l.map[l.mover].start
PlanOK(p) ==
    /\ pc[p] \in {"pair", "scan", "move"} =>
           /\ plan[p].on /\ Evolved(plan[p].map, rows[job[p].book])
           /\ DOMAIN plan[p].order = DOMAIN plan[p].map /\ Paired(plan[p])
    /\ pc[p] \in {"scan", "move"} => Scanning(plan[p])
    /\ plan[p].on => pc[p] \in {"pair", "scan", "move", "done"}
ProcOK(p) == ViewOK(p) /\ JobOK(p) /\ PlanOK(p)
StoreInv == TypeInv /\ \A p \in Procs : ProcOK(p)

-----------------------------------------------------------------------------
(* Lemmas about tables. *)
LEMMA TableShape ==
    ASSUME NEW r \in Tables
    PROVE  \E k \in Nat : DOMAIN r = 1 .. k /\ r \in [1 .. k -> Entry]
  BY DEF Tables

LEMMA TableFacts ==
    ASSUME NEW r \in Tables
    PROVE  /\ DOMAIN r \in SUBSET Nat /\ IsFiniteSet(DOMAIN r) /\ Cardinality(DOMAIN r) \in Nat
           /\ DOMAIN r = 1 .. Cardinality(DOMAIN r)
           /\ \A n \in DOMAIN r : r[n] \in Entry
  <1>1. PICK k \in Nat : DOMAIN r = 1 .. k /\ r \in [1 .. k -> Entry]
    BY TableShape
  <1>2. IsFiniteSet(1 .. k) /\ Cardinality(1 .. k) = k
    BY FS_Interval
  <1> QED
    BY <1>1, <1>2

LEMMA SequencesAreTables ==
    ASSUME NEW s \in Seq(Entry)
    PROVE  s \in Tables
  <1>1. Len(s) \in Nat /\ s \in [1 .. Len(s) -> Entry]
    BY LenProperties
  <1> QED
    BY Zenon, <1>1 DEF Tables

LEMMA EmptyTable == <<>> \in Tables /\ DOMAIN <<>> = {}
  <1>1. <<>> \in Seq(Entry) /\ Len(<<>>) = 0
    BY EmptySeq
  <1>2. DOMAIN <<>> = 1 .. Len(<<>>)
    BY <1>1, LenProperties
  <1>3. <<>> \in Tables
    BY <1>1, SequencesAreTables
  <1>4. 1 .. 0 = {}
    OBVIOUS
  <1> QED
    BY <1>1, <1>2, <1>3, <1>4, Zenon

(* Rows that change as Evolves says, twice or not at all. *)
LEMMA EvolvedReflexive ==
    ASSUME NEW r \in Tables
    PROVE  Evolved(r, r)
  BY DEF Evolved, Evolves

LEMMA EvolvedTransitive ==
    ASSUME NEW r \in Tables, NEW s \in Tables, NEW t \in Tables, Evolved(r, s), Evolved(s, t)
    PROVE  Evolved(r, t)
  <1> SUFFICES ASSUME NEW n \in DOMAIN r PROVE n \in DOMAIN t /\ Evolves(r[n], t[n])
    BY DEF Evolved
  <1>1. n \in DOMAIN s /\ n \in DOMAIN t /\ Evolves(r[n], s[n]) /\ Evolves(s[n], t[n])
    BY DEF Evolved
  <1>2. r[n] \in Entry /\ s[n] \in Entry /\ t[n] \in Entry
    BY <1>1, TableFacts
  <1> QED
    BY <1>1, <1>2 DEF Evolves, Entry

(* The text of a time, and of one on a clock that shows a time to come.    *)
LEMMA TextFacts ==
    ASSUME NEW e \in Entry
    PROVE  Wall(e) \in Int /\ Text(e) \in Int /\ (Wall(e) > 0 => Text(e) \in Nat)
  <1>1. Wall(e) \in Int /\ Suffix(e) \in Nat
    BY DEF Wall, Suffix, Entry
  <1> QED
    BY <1>1 DEF Text

(* Natural numbers have a least one in every set; so have rows and pairs.  *)
LEMMA NatHasLeast ==
    ASSUME NEW T \in SUBSET Nat, T # {}
    PROVE  \E x \in T : \A y \in T : x <= y
  <1> DEFINE R == {ss \in Nat \X Nat : ss[1] < ss[2]}
  <1>1. OpToRel(<, Nat) = R
    BY DEF OpToRel
  <1>2. IsWellFoundedOn(R, Nat)
    BY <1>1, NatLessThanWellFounded
  <1>3. PICK x \in T : \A y \in T : <<y, x>> \notin R
    BY <1>2, WFMin
  <1>4. \A y \in T : ~(y < x)
    BY <1>3
  <1> QED
    BY <1>4

LEMMA RowsHaveLeast ==
    ASSUME NEW r \in Tables, NEW S \in SUBSET DOMAIN r, S # {}, \A n \in S : Wall(r[n]) > 0
    PROVE  \E n \in S : \A m \in S \ {n} : Before(r, n, m)
  <1>1. \A n \in S : Text(r[n]) \in Nat /\ n \in Nat
    BY TableFacts, TextFacts
  <1> DEFINE Texts == {Text(r[n]) : n \in S}
  <1>s. Texts \in SUBSET Nat /\ Texts # {}
    BY <1>1
  <1>2. PICK s \in Texts : \A t \in Texts : s <= t
    BY <1>s, NatHasLeast
  <1> DEFINE First == {n \in S : Text(r[n]) = s}
  <1>3. First \in SUBSET Nat /\ First # {}
    BY <1>1, <1>2
  <1>4. PICK n \in First : \A m \in First : n <= m
    BY <1>3, NatHasLeast
  <1>5. ASSUME NEW m \in S \ {n} PROVE Before(r, n, m)
    <2>1. Text(r[n]) = s /\ s <= Text(r[m]) /\ n \in Nat /\ m \in Nat /\ Text(r[m]) \in Nat /\ s \in Nat
      BY <1>1, <1>2, <1>4
    <2>2. Text(r[m]) = s => n <= m
      BY <1>4
    <2> QED
      BY <2>1, <2>2 DEF Before
  <1> QED
    BY <1>4, <1>5

LEMMA LeastIsOneOfThem ==
    ASSUME NEW r \in Tables, NEW S \in SUBSET DOMAIN r, S # {}, \A n \in S : Wall(r[n]) > 0
    PROVE  Least(r, S) \in S
  BY RowsHaveLeast DEF Least

LEMMA FirstPairIsOneOfThem ==
    ASSUME NEW o \in Tables, NEW D, D = DOMAIN o, NEW S \in SUBSET (D \X D), S # {},
           \A x \in S : Wall(o[x[1]]) > 0 /\ Wall(o[x[2]]) > 0
    PROVE  FirstPair(o, S) \in S
  <1> DEFINE First == {x[1] : x \in S}
  <1>p. ASSUME NEW x \in S PROVE x = <<x[1], x[2]>> /\ x[1] \in D /\ x[2] \in D
    OBVIOUS
  <1>f. First \in SUBSET D /\ First # {} /\ \A n \in First : Wall(o[n]) > 0
    BY <1>p
  <1>1. PICK m \in First : \A n \in First \ {m} : Before(o, m, n)
    BY <1>f, RowsHaveLeast
  <1> DEFINE Second == {n \in D : <<m, n>> \in S}
  <1>2. PICK y \in S : y[1] = m
    OBVIOUS
  <1>3. y = <<y[1], y[2]>> /\ y[2] \in D
    BY <1>p
  <1>4. Second # {} /\ Second \in SUBSET D /\ \A n \in Second : Wall(o[n]) > 0
    BY <1>2, <1>3
  <1>5. PICK k \in Second : \A n \in Second \ {k} : Before(o, k, n)
    BY <1>4, RowsHaveLeast
  <1>6. <<m, k>> \in S
    OBVIOUS
  <1>7. ASSUME NEW x \in S \ {<<m, k>>}
        PROVE  Before(o, m, x[1]) \/ (m = x[1] /\ Before(o, k, x[2]))
    <2>1. x = <<x[1], x[2]>> /\ x[1] \in First /\ x[2] \in D
      BY <1>p
    <2>2. CASE x[1] = m
      BY <1>5, <2>1, <2>2
    <2>3. CASE x[1] # m
      BY <1>1, <2>1, <2>3
    <2> QED
      BY <2>2, <2>3
  <1> DEFINE Leads(x) == \A y1 \in S \ {x} : Before(o, x[1], y1[1]) \/ (x[1] = y1[1] /\ Before(o, x[2], y1[2]))
  <1>8. Leads(<<m, k>>)
    BY <1>7
  <1>9. FirstPair(o, S) = CHOOSE x \in S : Leads(x)
    BY DEF FirstPair
  <1> QED
    BY <1>6, <1>8, <1>9

-----------------------------------------------------------------------------
(* Only three steps write a row, each with Commit, and each a legal one: a *)
(* new row gets the next id, an old one evolves.                           *)
Legal(b, n, e) ==
    /\ b \in Books /\ n \in Nat \ {0} /\ e \in Entry
    /\ \/ n \in DOMAIN rows[b] /\ Evolves(rows[b][n], e)
       \/ DOMAIN rows[b] = 1 .. (n - 1)

LEMMA CommitIsSafe ==
    ASSUME TypeInv, NEW p \in Procs, NEW b, NEW n, NEW e, Legal(b, n, e), Commit(p, b, n, e)
    PROVE  /\ rows' \in [Books -> Tables]
           /\ \A c \in Books : Evolved(rows[c], rows'[c])
           /\ rows'[b][n] = e /\ DOMAIN rows'[b] = DOMAIN rows[b] \cup {n}
           /\ \A m \in DOMAIN rows[b] \ {n} : rows'[b][m] = rows[b][m]
           /\ \A c \in Books \ {b} : rows'[c] = rows[c]
  <1> DEFINE old == rows[b]
             new == [k \in DOMAIN old \cup {n} |-> IF k = n THEN e ELSE old[k]]
  <1>1. b \in Books /\ n \in Nat \ {0} /\ e \in Entry /\ old \in Tables
    BY DEF Legal, TypeInv, StoreTypes
  <1>2. PICK k \in Nat : DOMAIN old = 1 .. k /\ old \in [1 .. k -> Entry]
    BY <1>1, TableShape
  <1>3. DOMAIN old \cup {n} = 1 .. k \/ (n = k + 1 /\ DOMAIN old \cup {n} = 1 .. (k + 1))
    <2>1. CASE n \in DOMAIN old
      BY <1>2, <2>1
    <2>2. CASE n \notin DOMAIN old
      <3>1. 1 .. k = 1 .. (n - 1)
        BY <1>2, <2>2 DEF Legal
      <3>2. n = k + 1
        BY <1>1, <3>1
      <3> QED
        BY <1>2, <3>2
    <2> QED
      BY <2>1, <2>2
  <1>4. new \in Tables
    <2>1. \A m \in DOMAIN old \cup {n} : new[m] \in Entry
      BY <1>1, <1>2
    <2>2. new \in [1 .. k -> Entry] \/ new \in [1 .. (k + 1) -> Entry]
      BY <1>3, <2>1
    <2> QED
      BY <2>2 DEF Tables
  <1>5. rows' = [rows EXCEPT ![b] = new]
    BY DEF Commit
  <1>6. rows'[b] = new /\ \A c \in Books \ {b} : rows'[c] = rows[c]
    BY <1>1, <1>5 DEF TypeInv, StoreTypes
  <1>7. rows' \in [Books -> Tables]
    BY <1>1, <1>4, <1>5 DEF TypeInv, StoreTypes
  <1>8. Evolved(old, new)
    <2>1. \A m \in DOMAIN old : Evolves(old[m], old[m])
      BY DEF Evolves
    <2>2. n \in DOMAIN old => Evolves(old[n], e)
      BY <1>1, <1>2 DEF Legal
    <2> QED
      BY <2>1, <2>2 DEF Evolved
  <1>9. \A c \in Books : rows[c] \in Tables
    BY DEF TypeInv, StoreTypes
  <1>10. \A c \in Books : Evolved(rows[c], rows'[c])
    BY <1>6, <1>8, <1>9, EvolvedReflexive
  <1> QED
    BY <1>6, <1>7, <1>10

(* A table that a process reads has become the committed one. *)
LEMMA ReadsThePast ==
    ASSUME StoreInv, NEW p \in Procs, NEW b \in Books
    PROVE  Reads(p)[b] \in Tables /\ Evolved(Reads(p)[b], rows[b])
  BY EvolvedReflexive DEF Reads, StoreInv, ProcOK, ViewOK, TypeInv, StoreTypes

(* The writes of the three steps. *)
LEMMA InsertIsLegal ==
    ASSUME StoreInv, NEW p \in Procs, pc[p] = "insert", job[p].id \notin DOMAIN rows[job[p].book]
    PROVE  Legal(job[p].book, job[p].id, Head(job[p].todo))
  <1> DEFINE j == job[p]
             r == rows[j.book]
  <1>1. j \in Jobs /\ j.book \in Books /\ j.todo # <<>> /\ j.id >= 1 /\ 1 .. (j.id - 1) \subseteq DOMAIN r
    BY DEF StoreInv, TypeInv, ProcOK, JobOK
  <1>2. j.id \in Nat \ {0} /\ j.todo \in Seq(Entry)
    <2>1. j.id \in Nat /\ j.todo \in Seq(Entry)
      BY <1>1 DEF Jobs
    <2> QED
      BY <1>1, <2>1
  <1>3. Head(j.todo) \in Entry
    BY <1>1, <1>2, HeadTailProperties
  <1>4. r \in Tables
    BY <1>1 DEF StoreInv, TypeInv, StoreTypes
  <1>5. PICK k \in Nat : DOMAIN r = 1 .. k
    BY <1>4, TableShape
  <1>6. j.id = k + 1
    <2>1. j.id = 1 \/ j.id - 1 \in 1 .. (j.id - 1)
      BY <1>2
    <2>2. j.id = 1 \/ j.id - 1 \in 1 .. k
      BY <1>1, <1>5, <2>1
    <2>3. j.id \notin 1 .. k
      BY <1>5
    <2> QED
      BY <1>2, <2>2, <2>3
  <1> QED
    BY <1>1, <1>2, <1>3, <1>5, <1>6 DEF Legal

LEMMA UpdateIsLegal ==
    ASSUME StoreInv, NEW p \in Procs, pc[p] = "cancel"
    PROVE  Legal(job[p].book, job[p].id, [rows[job[p].book][job[p].id] EXCEPT !.status = "cancelled"])
  <1> DEFINE b == job[p].book
             n == job[p].id
             e == rows[b][n]
  <1>1. b \in Books /\ n \in DOMAIN rows[b]
    BY DEF StoreInv, ProcOK, JobOK
  <1>2. rows[b] \in Tables
    BY <1>1 DEF StoreInv, TypeInv, StoreTypes
  <1>3. n \in Nat \ {0} /\ e \in Entry
    BY <1>1, <1>2, TableShape
  <1>4. [e EXCEPT !.status = "cancelled"] \in Entry /\ Evolves(e, [e EXCEPT !.status = "cancelled"])
    BY <1>3 DEF Entry, Evolves
  <1> QED
    BY <1>1, <1>3, <1>4 DEF Legal

Moved(p, e) == [e EXCEPT !.start = plan[p].at, !.end = plan[p].at + Duration(plan[p].map[plan[p].mover]),
                         !.ahead = plan[p].ahead]
LEMMA DurationIsPositive ==
    ASSUME CalendarAssumption, NEW e \in Entry
    PROVE  Duration(e) \in Int /\ Duration(e) > 0 /\ End(e) \in Int /\ e.start + Duration(e) >= End(e)
  BY DEF Duration, End, Entry, CalendarAssumption

LEMMA MoveIsLegal ==
    ASSUME StoreInv, NEW p \in Procs, pc[p] = "move"
    PROVE  Legal(job[p].book, plan[p].mover, Moved(p, rows[job[p].book][plan[p].mover]))
  <1> DEFINE b == job[p].book
             l == plan[p]
             n == l.mover
             e == rows[b][n]
  <1>1. /\ b \in Books /\ Evolved(l.map, rows[b]) /\ Scanning(l) /\ l \in Plans /\ n \in DOMAIN l.map
    BY DEF StoreInv, TypeInv, ProcOK, JobOK, PlanOK, Scanning
  <1>2. rows[b] \in Tables /\ n \in DOMAIN rows[b] /\ l.map \in Tables /\ l.at \in Int
        /\ l.ahead \in -12..14
    BY <1>1 DEF StoreInv, TypeInv, StoreTypes, Evolved, Plans
  <1>3. n \in Nat \ {0} /\ e \in Entry /\ l.map[n] \in Entry
    BY <1>1, <1>2, TableShape
  <1>4. e.flex # "none"
    BY <1>1 DEF Evolved, Evolves, Scanning
  <1>5. Duration(l.map[n]) \in Int
    BY <1>3, DurationIsPositive, CalendarAssumption
  <1>6. l.at + Duration(l.map[n]) \in Int
    BY <1>2, <1>5
  <1>7. Moved(p, e) \in Entry /\ Evolves(e, Moved(p, e))
    BY <1>2, <1>3, <1>4, <1>5, <1>6 DEF Entry, Evolves, Moved
  <1> QED
    BY <1>1, <1>2, <1>3, <1>7 DEF Legal

-----------------------------------------------------------------------------
(* What a step of p does to the store and to what the others read: nothing *)
(* or one legal write.                                                     *)
Acts(p) == Start(p) \/ Step(p) \/ Crash(p)
Writes(p) == \E b \in Books, n \in Nat \ {0}, e \in Entry : Legal(b, n, e) /\ Commit(p, b, n, e)
LeavesStore(p) == UNCHANGED rows /\ (UNCHANGED view \/ view' = [view EXCEPT ![p] = NoRows])

LEMMA ActsOnStore ==
    ASSUME StoreInv, NEW p \in Procs, Acts(p)
    PROVE  LeavesStore(p) \/ Writes(p)
  <1>1. CASE Start(p)
    BY <1>1 DEF Start, Schedule, SetTimerAlarm, NominateMilestone, Import, CancelEvent, ResolveConflicts,
                GetTemporalContext, Call, Read, LeavesStore
  <1>2. CASE CheckUid(p) \/ NextId(p) \/ FindEvent(p) \/ CheckConflicts(p) \/ Snapshot(p) \/ Scan(p)
    BY Zenon, <1>2 DEF CheckUid, NextId, FindEvent, CheckConflicts, Snapshot, Scan, Read, LeavesStore
  <1>3. CASE Locked(p) \/ NextPair(p) \/ Done(p) \/ Crash(p)
    BY Zenon, <1>3 DEF Locked, NextPair, Done, Crash, Reset, Close, LeavesStore
  <1>4. CASE Insert(p)
    <2>1. \/ UNCHANGED <<rows, view>>
          \/ job[p].id \notin DOMAIN rows[job[p].book] /\ Commit(p, job[p].book, job[p].id, Head(job[p].todo))
      BY <1>4 DEF Insert
    <2>2. pc[p] = "insert"
      BY <1>4 DEF Insert
    <2> QED
      BY <2>1, <2>2, InsertIsLegal DEF LeavesStore, Writes, Legal
  <1>5. CASE UpdateStatus(p)
    BY <1>5, UpdateIsLegal DEF UpdateStatus, Writes, Legal
  <1>6. CASE Move(p)
    <2>1. Commit(p, job[p].book, plan[p].mover, Moved(p, rows[job[p].book][plan[p].mover])) /\ pc[p] = "move"
      BY <1>6 DEF Move, Moved
    <2> QED
      BY <2>1, MoveIsLegal DEF Writes, Legal
  <1> QED
    BY <1>1, <1>2, <1>3, <1>4, <1>5, <1>6 DEF Acts, Step

LEMMA StoreStep ==
    ASSUME StoreInv, NEW p \in Procs, Acts(p)
    PROVE  /\ StoreTypes'
           /\ \A b \in Books : Evolved(rows[b], rows'[b])
           /\ \A q \in Procs : ViewOK(q)'
  <1>0. TypeInv /\ StoreTypes /\ \A q \in Procs : ViewOK(q)
    BY DEF StoreInv, TypeInv, ProcOK
  <1>1. NoRows \in [Books -> Tables] /\ \A b \in Books : DOMAIN NoRows[b] = {}
    BY EmptyTable DEF NoRows
  <1>2. CASE LeavesStore(p)
    <2>1. StoreTypes' /\ \A q \in Procs : view'[q] = view[q] \/ view'[q] = NoRows
      BY <1>0, <1>1, <1>2 DEF LeavesStore, StoreTypes
    <2>2. \A b \in Books : Evolved(rows[b], rows'[b])
      BY <1>0, <1>2, EvolvedReflexive DEF LeavesStore, StoreTypes
    <2>3. ASSUME NEW q \in Procs PROVE ViewOK(q)'
      BY <1>0, <1>1, <1>2, <2>1 DEF ViewOK, Evolved, LeavesStore
    <2> QED
      BY <2>1, <2>2, <2>3
  <1>3. CASE Writes(p)
    <2>1. PICK b \in Books, n \in Nat \ {0}, e \in Entry : Legal(b, n, e) /\ Commit(p, b, n, e)
      BY <1>3 DEF Writes
    <2>2. rows' \in [Books -> Tables] /\ \A c \in Books : Evolved(rows[c], rows'[c])
      BY <1>0, <2>1, CommitIsSafe
    <2>3. \A q \in Procs : view'[q] = view[q] \/ view'[q] = rows
      BY <2>1 DEF Commit
    <2>4. view' \in [Procs -> [Books -> Tables]]
      BY <1>0, <2>1 DEF Commit, StoreTypes
    <2>5. ASSUME NEW q \in Procs, NEW c \in Books PROVE Evolved(view'[q][c], rows'[c])
      <3>1. rows[c] \in Tables /\ rows'[c] \in Tables /\ view[q][c] \in Tables /\ Evolved(view[q][c], rows[c])
        BY <1>0, <2>2 DEF StoreTypes, ViewOK
      <3>2. Evolved(view[q][c], rows'[c])
        BY <2>2, <3>1, EvolvedTransitive
      <3> QED
        BY <2>2, <2>3, <3>2
    <2> QED
      BY <2>2, <2>4, <2>5 DEF StoreTypes, ViewOK
  <1> QED
    BY <1>2, <1>3, ActsOnStore

-----------------------------------------------------------------------------
(* Every step keeps the types of what is not the store. *)
LEMMA ReadTypes ==
    ASSUME TypeInv, NEW p \in Procs, Read(p)
    PROVE  txn' \in [Procs -> Transactions]
  BY DEF Read, TypeInv, Transactions
LEMMA CommitTypes ==
    ASSUME TypeInv, NEW p \in Procs, NEW b, NEW n \in Nat, NEW e, Commit(p, b, n, e)
    PROVE  txn' \in [Procs -> Transactions] /\ touched' \in [Procs -> SUBSET Nat]
  BY DEF Commit, TypeInv, Transactions
LEMMA TxnStep ==
    ASSUME StoreInv, NEW p \in Procs, Acts(p)
    PROVE  txn' \in [Procs -> Transactions] /\ touched' \in [Procs -> SUBSET Nat]
  <1>0. TypeInv
    BY DEF StoreInv
  <1>1. CASE Start(p)
    BY <1>0, <1>1, ReadTypes
       DEF Start, Schedule, SetTimerAlarm, NominateMilestone, Import, CancelEvent, ResolveConflicts,
           GetTemporalContext, Call, TypeInv
  <1>2. CASE CheckUid(p) \/ NextId(p) \/ FindEvent(p) \/ CheckConflicts(p) \/ Scan(p)
    BY Zenon, <1>0, <1>2, ReadTypes DEF CheckUid, NextId, FindEvent, CheckConflicts, Scan, TypeInv
  <1>3. CASE Snapshot(p)
    <2>1. UNCHANGED touched \/ touched' = [touched EXCEPT ![p] = {n \in DOMAIN rows[job[p].book] :
            n \notin DOMAIN Reads(p)[job[p].book] \/ Reads(p)[job[p].book][n] # rows[job[p].book][n]}]
      BY <1>3 DEF Snapshot
    <2>2. job[p].book \in Books
      BY <1>3 DEF Snapshot, StoreInv, ProcOK, JobOK
    <2>3. DOMAIN rows[job[p].book] \in SUBSET Nat
      BY <1>0, <2>2, TableFacts DEF TypeInv, StoreTypes
    <2>4. touched' \in [Procs -> SUBSET Nat]
      BY <1>0, <2>1, <2>3 DEF TypeInv
    <2> QED
      BY <1>0, <1>3, <2>4, ReadTypes DEF Snapshot
  <1>4. CASE Locked(p) \/ NextPair(p) \/ Done(p) \/ Crash(p)
    BY Zenon, <1>0, <1>4 DEF Locked, NextPair, Done, Crash, Reset, Close, TypeInv, Transactions
  <1>5. CASE Insert(p) \/ UpdateStatus(p) \/ Move(p)
    <2>1. job[p].id \in Nat /\ plan[p].mover \in Nat
      BY Zenon, <1>0 DEF TypeInv, Jobs, Plans
    <2>2. \/ txn' = [txn EXCEPT ![p] = "write"] /\ UNCHANGED touched
          \/ \E b, e : Commit(p, b, job[p].id, e) \/ Commit(p, b, plan[p].mover, e)
      BY <1>5 DEF Insert, UpdateStatus, Move
    <2>3. CASE txn' = [txn EXCEPT ![p] = "write"] /\ UNCHANGED touched
      BY <1>0, <2>3 DEF TypeInv, Transactions
    <2> QED
      BY <1>0, <2>1, <2>2, <2>3, CommitTypes
  <1> QED
    BY <1>1, <1>2, <1>3, <1>4, <1>5 DEF Acts, Step

-----------------------------------------------------------------------------
(* A step of p leaves the others where they are, and p where its next step *)
(* is safe.                                                                *)
LocalTypes == pc' \in [Procs -> Labels] /\ job' \in [Procs -> Jobs] /\ plan' \in [Procs -> Plans]
Others(p) == \A q \in Procs \ {p} : pc'[q] = pc[q] /\ job'[q] = job[q] /\ plan'[q] = plan[q]
LocalOK(p) == LocalTypes /\ Others(p) /\ JobOK(p)' /\ PlanOK(p)'

LEMMA Locals ==
    ASSUME StoreInv, NEW p \in Procs
    PROVE  /\ pc \in [Procs -> Labels] /\ job \in [Procs -> Jobs] /\ plan \in [Procs -> Plans]
           /\ job[p].op \in Ops /\ job[p].todo \in Seq(Entry) /\ job[p].id \in Nat
           /\ job[p].book \in Books \cup {NoJob.book}
           /\ JobOK(p) /\ PlanOK(p)
  <1>1. job[p] \in Jobs
    BY DEF StoreInv, TypeInv
  <1>2. job[p].op \in Ops /\ job[p].todo \in Seq(Entry) /\ job[p].id \in Nat
        /\ job[p].book \in Books \cup {NoJob.book}
    BY <1>1 DEF Jobs
  <1> QED
    BY <1>2 DEF StoreInv, TypeInv, ProcOK

LEMMA NoneTypes == NoJob \in Jobs /\ NoPlan \in Plans /\ NoPlan.on = FALSE
  <1>1. NoPlan \in Plans
    BY EmptyTable DEF NoPlan, Plans
  <1>2. <<>> \in Seq(Entry)
    BY EmptySeq
  <1>3. NoJob \in Jobs
    BY <1>2 DEF NoJob, Jobs, Ops
  <1> QED
    BY <1>1, <1>3 DEF NoPlan

LEMMA CallIsSafe ==
    ASSUME StoreInv, NEW p \in Procs, NEW op \in Ops, NEW b \in Books, NEW todo \in Seq(Entry), NEW id \in Nat,
           NEW l \in {"uid", "count", "find", "snap"}, Call(p, op, b, todo, id, l),
           l \in {"uid", "count"} => todo # <<>>, op = "import" => l = "uid"
    PROVE  LocalOK(p)
  <1> DEFINE j == [op |-> op, book |-> b, todo |-> todo, id |-> id, answer |-> "ok"]
  <1>1. j \in Jobs
    BY DEF Jobs
  <1>2. pc' = [pc EXCEPT ![p] = l] /\ job' = [job EXCEPT ![p] = j] /\ plan' = plan /\ pc[p] = "idle"
    BY DEF Call, Goto
  <1>3. LocalTypes /\ Others(p)
    BY <1>1, <1>2, Locals DEF LocalTypes, Others, Labels
  <1>4. pc'[p] = l /\ job'[p] = j /\ plan'[p] = plan[p]
    BY <1>2, Locals
  <1>5. JobOK(p)'
    BY <1>4 DEF JobOK
  <1>6. PlanOK(p)'
    BY <1>2, <1>4, Locals DEF PlanOK
  <1> QED
    BY <1>3, <1>5, <1>6 DEF LocalOK

LEMMA StartIsSafe ==
    ASSUME CalendarAssumption, StoreInv, NEW p \in Procs, Start(p)
    PROVE  LocalOK(p)
  <1>1. \A e \in Entry : <<e>> \in Seq(Entry) /\ <<e>> # <<>>
    OBVIOUS
  <1>2. Calendars \subseteq Books /\ Journals \subseteq Books
    BY DEF Books
  <1>3. Offers \subseteq Entry /\ Alarms \subseteq Entry /\ Milestones \subseteq Entry
    BY DEF CalendarAssumption
  <1>4. CASE Schedule(p)
    <2>1. PICK b \in Calendars, e \in Offers, op \in {"schedule", "pencil"} : Call(p, op, b, <<e>>, 0, "count")
      BY <1>4 DEF Schedule
    <2> QED
      BY Zenon, <1>1, <1>2, <1>3, <2>1, CallIsSafe DEF Ops
  <1>5. CASE SetTimerAlarm(p)
    BY <1>1, <1>2, <1>3, <1>5, CallIsSafe DEF SetTimerAlarm, Ops
  <1>6. CASE NominateMilestone(p)
    BY <1>1, <1>2, <1>3, <1>6, CallIsSafe DEF NominateMilestone, Ops
  <1>7. CASE Import(p)
    <2>1. PICK b \in Calendars, s \in Invitations : Call(p, "import", b, s, 0, "uid")
      BY <1>7 DEF Import
    <2>2. s \in Seq(Entry) /\ s # <<>>
      BY DEF CalendarAssumption
    <2> QED
      BY <1>2, <2>1, <2>2, CallIsSafe DEF Ops
  <1>8. <<>> \in Seq(Entry)
    BY EmptySeq
  <1>9. CASE CancelEvent(p)
    <2>1. PICK b \in Calendars, n \in 1 .. MaxRows : Call(p, "cancel", b, <<>>, n, "find")
      BY <1>9 DEF CancelEvent
    <2>2. n \in Nat
      BY DEF CalendarAssumption
    <2> QED
      BY <1>2, <1>8, <2>1, <2>2, CallIsSafe DEF Ops
  <1>10. CASE ResolveConflicts(p)
    <2>1. PICK b \in Calendars : Call(p, "resolve", b, <<>>, 0, "snap")
      BY <1>10 DEF ResolveConflicts
    <2> QED
      BY <1>2, <1>8, <2>1, CallIsSafe DEF Ops
  <1>11. CASE GetTemporalContext(p)
    <2>1. UNCHANGED <<pc, job, plan, rows>>
      BY <1>11 DEF GetTemporalContext, Read
    <2>2. JobOK(p)' /\ PlanOK(p)'
      BY <2>1, Locals DEF JobOK, PlanOK
    <2> QED
      BY <2>1, <2>2, Locals DEF LocalOK, LocalTypes, Others
  <1> QED
    BY <1>4, <1>5, <1>6, <1>7, <1>9, <1>10, <1>11 DEF Start

LEMMA ResetIsSafe ==
    ASSUME StoreInv, NEW p \in Procs, Reset(p)
    PROVE  LocalOK(p)
  <1>1. /\ pc' = [pc EXCEPT ![p] = "idle"] /\ job' = [job EXCEPT ![p] = NoJob]
        /\ plan' = [plan EXCEPT ![p] = NoPlan]
    BY DEF Reset, Goto
  <1>2. pc'[p] = "idle" /\ job'[p].op = "none" /\ plan'[p].on = FALSE
    BY <1>1, NoneTypes, Locals DEF NoJob
  <1>3. LocalTypes /\ Others(p)
    BY <1>1, NoneTypes, Locals DEF LocalTypes, Others, Labels
  <1> QED
    BY <1>2, <1>3 DEF LocalOK, JobOK, PlanOK

LEMMA TailOfMany ==
    ASSUME NEW s \in Seq(Entry), Len(s) > 1
    PROVE  Tail(s) # <<>>
  <1>1. s # <<>> /\ Len(s) \in Nat
    BY EmptySeq, LenProperties
  <1>2. Len(Tail(s)) = Len(s) - 1
    BY <1>1, HeadTailProperties
  <1>3. Len(Tail(s)) # 0
    BY <1>1, <1>2
  <1> QED
    BY <1>3, EmptySeq

(* The two ways to go on after an entry or an error. *)
LEMMA NextItemIsSafe ==
    ASSUME StoreInv, NEW p \in Procs, pc[p] \in {"uid", "count", "insert"}, NextItem(p), UNCHANGED plan
    PROVE  LocalOK(p)
  <1> DEFINE j == [job[p] EXCEPT !.todo = Tail(@), !.id = 0]
             l == IF Len(job[p].todo) > 1 THEN "uid" ELSE "done"
  <1>1. job[p].todo # <<>> /\ job[p].book \in Books /\ job[p] \in Jobs
    BY Locals DEF JobOK
  <1>2. Tail(job[p].todo) \in Seq(Entry) /\ Len(Tail(job[p].todo)) = Len(job[p].todo) - 1
        /\ Len(job[p].todo) \in Nat
    BY <1>1, Locals, HeadTailProperties, LenProperties
  <1>3. j \in Jobs /\ j.todo = Tail(job[p].todo) /\ j.book = job[p].book
    BY <1>1, <1>2 DEF Jobs
  <1>4. job' = [job EXCEPT ![p] = j] /\ pc' = [pc EXCEPT ![p] = l]
    BY DEF NextItem, Goto
  <1>5. pc'[p] = l /\ job'[p] = j /\ plan'[p] = plan[p]
    BY <1>4, Locals
  <1>6. LocalTypes /\ Others(p)
    BY <1>3, <1>4, Locals DEF LocalTypes, Others, Labels
  <1>7. l = "uid" => j.todo # <<>>
    BY <1>1, <1>3, TailOfMany, Locals
  <1>8. JobOK(p)'
    BY <1>1, <1>3, <1>5, <1>7 DEF JobOK
  <1>9. PlanOK(p)'
    BY <1>5, Locals DEF PlanOK
  <1> QED
    BY <1>6, <1>8, <1>9 DEF LocalOK

LEMMA FailIsSafe ==
    ASSUME StoreInv, NEW p \in Procs, pc[p] # "idle", pc[p] # "done", Fail(p), UNCHANGED plan
    PROVE  LocalOK(p)
  <1>1. CASE job[p].op = "import"
    BY <1>1, NextItemIsSafe, Locals DEF Fail, JobOK
  <1>2. CASE job[p].op # "import"
    <2> DEFINE j == [job[p] EXCEPT !.answer = "error"]
    <2>1. job[p] \in Jobs /\ job[p].book \in Books
      BY Locals DEF JobOK
    <2>2. j \in Jobs /\ j.book = job[p].book
      BY <2>1 DEF Jobs
    <2>3. job' = [job EXCEPT ![p] = j] /\ pc' = [pc EXCEPT ![p] = "done"]
      BY <1>2 DEF Fail, Goto
    <2>4. pc'[p] = "done" /\ job'[p] = j /\ plan'[p] = plan[p]
      BY <2>3, Locals
    <2>5. LocalTypes /\ Others(p)
      BY <2>2, <2>3, Locals DEF LocalTypes, Others, Labels
    <2>6. JobOK(p)' /\ PlanOK(p)'
      BY <2>1, <2>2, <2>4 DEF JobOK, PlanOK
    <2> QED
      BY <2>5, <2>6 DEF LocalOK
  <1> QED
    BY <1>1, <1>2

(* A step to l that leaves the call and the plan as they are. *)
LEMMA GotoIsSafe ==
    ASSUME StoreInv, NEW p \in Procs, NEW l \in Labels \ {"insert", "cancel"}, Goto(p, l), UNCHANGED <<job, plan>>,
           pc[p] # "idle", \A b \in Books : Evolved(rows[b], rows'[b]),
           l \in {"uid", "count"} => pc[p] \in {"uid", "count"},
           job[p].op = "import" => l \in {"uid", "count", "done"},
           l \in {"pair", "scan", "move"} => pc[p] \in {"scan", "move"} /\ UNCHANGED rows,
           plan[p].on => l \in {"pair", "scan", "move", "done"}
    PROVE  LocalOK(p)
  <1>1. pc' = [pc EXCEPT ![p] = l]
    BY DEF Goto
  <1>2. pc'[p] = l /\ job'[p] = job[p] /\ plan'[p] = plan[p]
    BY <1>1, Locals
  <1>3. LocalTypes /\ Others(p)
    BY <1>1, Locals DEF LocalTypes, Others
  <1>4. JobOK(p)'
    BY <1>2, Locals DEF JobOK
  <1>5. PlanOK(p)'
    BY <1>2, Locals DEF PlanOK
  <1> QED
    BY <1>3, <1>4, <1>5 DEF LocalOK

LEMMA InsertingIsSafe ==
    ASSUME StoreInv, NEW p \in Procs, CheckUid(p) \/ NextId(p) \/ Insert(p) \/ Locked(p)
    PROVE  LocalOK(p)
  <1>0. \A b \in Books : Evolved(rows[b], rows'[b])
    BY StoreStep DEF Acts, Step
  <1>1. CASE CheckUid(p)
    <2>1. pc[p] = "uid" /\ UNCHANGED plan /\ (NextItem(p) \/ (Goto(p, "count") /\ UNCHANGED job))
      BY <1>1 DEF CheckUid
    <2> QED
      BY <1>0, <2>1, NextItemIsSafe, GotoIsSafe, Locals DEF Labels, PlanOK
  <1>2. CASE NextId(p)
    <2> DEFINE b == job[p].book
               n == Cardinality(DOMAIN Reads(p)[b]) + 1
               j == [job[p] EXCEPT !.id = n]
    <2>1. pc[p] = "count" /\ b \in Books /\ job[p].todo # <<>> /\ job[p] \in Jobs
      BY <1>2, Locals DEF NextId, JobOK
    <2>2. Reads(p)[b] \in Tables /\ Evolved(Reads(p)[b], rows[b])
      BY <2>1, ReadsThePast
    <2>3. n \in Nat /\ n >= 1 /\ DOMAIN Reads(p)[b] = 1 .. (n - 1)
      BY <2>2, TableFacts
    <2>4. 1 .. (n - 1) \subseteq DOMAIN rows[b]
      BY <2>2, <2>3 DEF Evolved
    <2>5. j \in Jobs /\ j.id = n /\ j.book = b /\ j.todo = job[p].todo /\ j.op = job[p].op
      BY <2>1, <2>3 DEF Jobs
    <2>6. job' = [job EXCEPT ![p] = j] /\ pc' = [pc EXCEPT ![p] = "insert"] /\ UNCHANGED <<plan, rows>>
      BY <1>2 DEF NextId, Goto, Read
    <2>7. pc'[p] = "insert" /\ job'[p] = j /\ plan'[p] = plan[p] /\ rows' = rows
      BY <2>6, Locals
    <2>8. LocalTypes /\ Others(p)
      BY <2>5, <2>6, Locals DEF LocalTypes, Others, Labels
    <2>9. JobOK(p)'
      BY <2>1, <2>3, <2>4, <2>5, <2>7, Locals DEF JobOK
    <2>10. PlanOK(p)'
      BY <2>1, <2>7, Locals DEF PlanOK
    <2> QED
      BY <2>8, <2>9, <2>10 DEF LocalOK
  <1>3. CASE Insert(p)
    <2>1. pc[p] = "insert" /\ UNCHANGED plan /\ plan[p].on = FALSE
      BY <1>3, Locals DEF Insert, PlanOK, Plans
    <2>2. \/ NextItem(p) \/ Fail(p)
          \/ /\ UNCHANGED job /\ job[p].op # "import"
             /\ Goto(p, IF job[p].op \in {"schedule", "pencil"} THEN "check" ELSE "done")
      BY <1>3 DEF Insert
    <2>3. CASE UNCHANGED job /\ job[p].op # "import"
               /\ Goto(p, IF job[p].op \in {"schedule", "pencil"} THEN "check" ELSE "done")
      <3>1. Goto(p, "check") \/ Goto(p, "done")
        BY <2>3
      <3> QED
        BY <1>0, <2>1, <2>3, <3>1, GotoIsSafe DEF Labels
    <2> QED
      BY <2>1, <2>2, <2>3, NextItemIsSafe, FailIsSafe
  <1>4. CASE Locked(p)
    BY <1>4, FailIsSafe DEF Locked
  <1> QED
    BY <1>1, <1>2, <1>3, <1>4

LEMMA CancellingIsSafe ==
    ASSUME StoreInv, NEW p \in Procs, FindEvent(p) \/ UpdateStatus(p) \/ CheckConflicts(p)
    PROVE  LocalOK(p)
  <1>0. \A b \in Books : Evolved(rows[b], rows'[b])
    BY StoreStep DEF Acts, Step
  <1>1. CASE FindEvent(p)
    <2> DEFINE r == Reads(p)[job[p].book]
    <2>1. pc[p] = "find" /\ job[p].book \in Books /\ UNCHANGED <<plan, rows>> /\ job[p] \in Jobs
          /\ job[p].op # "import" /\ ~plan[p].on
      BY <1>1, Locals DEF FindEvent, JobOK, PlanOK, Read
    <2>2. CASE job[p].id \in TopRows(r, DOMAIN r)
      <3>1. job[p].id \in DOMAIN rows[job[p].book]
        BY <2>1, <2>2, ReadsThePast DEF TopRows, Evolved
      <3>2. pc' = [pc EXCEPT ![p] = "cancel"] /\ UNCHANGED job
        BY <1>1, <2>2 DEF FindEvent, Goto
      <3>3. LocalTypes /\ Others(p) /\ pc'[p] = "cancel" /\ job'[p] = job[p] /\ plan'[p] = plan[p] /\ rows' = rows
        BY <2>1, <3>2, Locals DEF LocalTypes, Others, Labels
      <3> QED
        BY <2>1, <3>1, <3>3 DEF LocalOK, JobOK, PlanOK
    <2>3. CASE job[p].id \notin TopRows(r, DOMAIN r)
      <3> DEFINE j == [job[p] EXCEPT !.answer = "not found"]
      <3>1. pc' = [pc EXCEPT ![p] = "done"] /\ job' = [job EXCEPT ![p] = j]
        BY <1>1, <2>3 DEF FindEvent, Goto
      <3>2. j \in Jobs /\ j.book = job[p].book
        BY <2>1 DEF Jobs
      <3>3. LocalTypes /\ Others(p) /\ pc'[p] = "done" /\ job'[p] = j /\ plan'[p] = plan[p]
        BY <2>1, <3>1, <3>2, Locals DEF LocalTypes, Others, Labels
      <3> QED
        BY <2>1, <3>2, <3>3 DEF LocalOK, JobOK, PlanOK
    <2> QED
      BY <2>2, <2>3
  <1>2. CASE UpdateStatus(p)
    <2>1. pc[p] = "cancel" /\ Goto(p, "done") /\ UNCHANGED <<job, plan>>
      BY <1>2 DEF UpdateStatus
    <2> QED
      BY <1>0, <2>1, GotoIsSafe DEF Labels
  <1>3. CASE CheckConflicts(p)
    <2>1. pc[p] = "check" /\ UNCHANGED plan /\ job[p].op # "import" /\ ~plan[p].on
      BY <1>3, Locals DEF CheckConflicts, JobOK, PlanOK
    <2>2. Fail(p) \/ ((Goto(p, "snap") \/ Goto(p, "done")) /\ UNCHANGED job)
      BY <1>3 DEF CheckConflicts
    <2> QED
      BY <1>0, <2>1, <2>2, FailIsSafe, GotoIsSafe DEF Labels
  <1> QED
    BY <1>1, <1>2, <1>3

-----------------------------------------------------------------------------
(* The steps of resolve_conflicts. *)
LEMMA UpcomingFacts ==
    ASSUME NEW r \in Tables
    PROVE  /\ Upcoming(r) \in SUBSET DOMAIN r
           /\ \A n \in Upcoming(r) : Wall(r[n]) > 0 /\ r[n].status = "confirmed"
  <1>1. \A n \in Upcoming(r) : n \in DOMAIN r /\ Wall(r[n]) \in 1 .. Horizon /\ r[n].status = "confirmed"
    BY DEF Upcoming, TopRows
  <1>2. \A n \in Upcoming(r) : Wall(r[n]) \in Int
    BY <1>1, TableFacts, TextFacts
  <1> QED
    BY <1>1, <1>2

LEMMA ConflictFacts ==
    ASSUME NEW r \in Tables, NEW x \in Conflicts(r)
    PROVE  /\ x \in Nat \X Nat /\ x = <<x[1], x[2]>> /\ x[1] # x[2]
           /\ x[1] \in Upcoming(r) /\ x[2] \in Upcoming(r)
           /\ x[1] \in DOMAIN r /\ Wall(r[x[1]]) > 0 /\ x[2] \in DOMAIN r /\ Wall(r[x[2]]) > 0
           /\ Overlap(r[x[1]].start, End(r[x[1]]), r[x[2]].start, End(r[x[2]]))
  <1> DEFINE U == Upcoming(r)
  <1>1. x \in U \X U /\ Before(r, x[1], x[2])
        /\ Overlap(r[x[1]].start, End(r[x[1]]), r[x[2]].start, End(r[x[2]]))
    BY DEF Conflicts
  <1>2. x = <<x[1], x[2]>> /\ x[1] \in U /\ x[2] \in U
    <2> HIDE DEF U
    <2> QED
      BY <1>1
  <1>3. x[1] \in DOMAIN r /\ Wall(r[x[1]]) > 0 /\ x[2] \in DOMAIN r /\ Wall(r[x[2]]) > 0
    BY <1>2, UpcomingFacts
  <1>4. x[1] \in Nat /\ x[2] \in Nat /\ Text(r[x[1]]) \in Int
    BY <1>3, TableFacts, TextFacts
  <1>5. x[1] # x[2]
    BY <1>1, <1>4 DEF Before
  <1>6. x \in Nat \X Nat
    BY <1>2, <1>4
  <1> QED
    BY <1>1, <1>2, <1>3, <1>5, <1>6

LEMMA SnapshotIsSafe ==
    ASSUME StoreInv, NEW p \in Procs, Snapshot(p)
    PROVE  LocalOK(p)
  <1> DEFINE b == job[p].book
             r == Reads(p)[b]
             l == [NoPlan EXCEPT !.on = TRUE, !.map = r, !.order = r, !.todo = Conflicts(r)]
  <1>1. pc[p] = "snap" /\ b \in Books /\ job[p].op # "import" /\ ~plan[p].on /\ UNCHANGED rows
    BY Locals DEF Snapshot, JobOK, PlanOK, Read
  <1>2. CASE MixesZones(r)
    BY <1>1, <1>2, FailIsSafe DEF Snapshot
  <1>3. CASE ~MixesZones(r)
    <2>1. r \in Tables /\ Evolved(r, rows[b])
      BY <1>1, ReadsThePast
    <2>2. \A x \in Conflicts(r) :
             /\ x \in Nat \X Nat /\ x[1] # x[2]
             /\ x[1] \in DOMAIN r /\ Wall(r[x[1]]) > 0 /\ x[2] \in DOMAIN r /\ Wall(r[x[2]]) > 0
      BY <2>1, ConflictFacts
    <2>3. /\ l \in Plans /\ l.on = TRUE /\ l.map = r /\ l.order = r /\ l.todo = Conflicts(r)
      <3>1. Conflicts(r) \in SUBSET (Nat \X Nat)
        BY <2>2
      <3> QED
        BY <2>1, <3>1, NoneTypes DEF Plans
    <2>4. pc' = [pc EXCEPT ![p] = "pair"] /\ UNCHANGED job /\ plan' = [plan EXCEPT ![p] = l]
      BY <1>3 DEF Snapshot, Goto
    <2>5. LocalTypes /\ Others(p)
      BY <2>3, <2>4, Locals DEF LocalTypes, Others, Labels
    <2>6. pc'[p] = "pair" /\ job'[p] = job[p] /\ plan'[p] = l
      BY <2>4, Locals
    <2>7. JobOK(p)'
      BY <1>1, <2>6 DEF JobOK
    <2>8. Paired(l)
      BY <2>2, <2>3 DEF Paired
    <2>9. PlanOK(p)'
      BY <1>1, <2>1, <2>3, <2>6, <2>8 DEF PlanOK
    <2> QED
      BY <2>5, <2>7, <2>9 DEF LocalOK
  <1> QED
    BY <1>2, <1>3

(* The pair whose turn it is, and the plan after it. *)
Turn(p) == FirstPair(plan[p].order, plan[p].todo)
Mover(p) == IF Yields(plan[p].map, Turn(p)[1], Turn(p)[2]) THEN Turn(p)[1] ELSE Turn(p)[2]
Stay(p) == IF Mover(p) = Turn(p)[1] THEN Turn(p)[2] ELSE Turn(p)[1]
Skipped(p) == [plan[p] EXCEPT !.todo = @ \ {Turn(p)}]
GivenUp(p) == [Skipped(p) EXCEPT !.unresolved = @ \cup {Turn(p)}]
After(e) == e.start + Duration(e)
Pushing(l, m, s, at, ahead) == [l EXCEPT !.mover = m, !.stay = s, !.tries = 0, !.at = at, !.ahead = ahead]
Pushed(p) == Pushing(Skipped(p), Mover(p), Stay(p), After(plan[p].map[Stay(p)]), plan[p].map[Stay(p)].ahead)

LEMMA NextPairCases ==
    ASSUME StoreInv, NEW p \in Procs, NextPair(p)
    PROVE  /\ pc[p] = "pair" /\ UNCHANGED <<rows, txn, view, job, touched>>
           /\ \/ plan[p].todo = {} /\ Goto(p, "done") /\ UNCHANGED plan
              \/ /\ plan[p].todo # {} /\ ~StillOverlap(plan[p].map, Turn(p)[1], Turn(p)[2])
                 /\ plan' = [plan EXCEPT ![p] = Skipped(p)] /\ UNCHANGED pc
              \/ /\ plan[p].todo # {} /\ ~Movable(plan[p].map[Mover(p)])
                 /\ plan' = [plan EXCEPT ![p] = GivenUp(p)] /\ UNCHANGED pc
              \/ /\ plan[p].todo # {} /\ StillOverlap(plan[p].map, Turn(p)[1], Turn(p)[2])
                 /\ Movable(plan[p].map[Mover(p)])
                 /\ plan' = [plan EXCEPT ![p] = Pushed(p)] /\ Goto(p, "scan")
  <1>1. pc[p] = "pair" /\ UNCHANGED <<rows, txn, view, job, touched>>
    BY Zenon DEF NextPair
  <1>2. CASE plan[p].todo = {}
    BY <1>1, <1>2 DEF NextPair
  <1>3. CASE plan[p].todo # {}
    BY Zenon, <1>1, <1>3, Locals DEF NextPair, Turn, Mover, Stay, Skipped, GivenUp, Pushed,
                                    Pushing, After
  <1> QED
    BY <1>1, <1>2, <1>3

(* The pair is one of the plan's, and both its rows are known. *)
LEMMA TurnFacts ==
    ASSUME StoreInv, NEW p \in Procs, pc[p] = "pair", plan[p].todo # {}
    PROVE  /\ Turn(p) \in plan[p].todo /\ Turn(p) \in Nat \X Nat
           /\ {Mover(p), Stay(p)} = {Turn(p)[1], Turn(p)[2]} /\ Mover(p) # Stay(p)
           /\ Mover(p) \in DOMAIN plan[p].map /\ Stay(p) \in DOMAIN plan[p].map
  <1> DEFINE l == plan[p]
             D == DOMAIN l.order
  <1>1. l \in Plans /\ l.order \in Tables /\ l.todo \in SUBSET (Nat \X Nat) /\ Paired(l) /\ D = DOMAIN l.map
    BY Locals DEF PlanOK, Plans
  <1>2. l.todo \in SUBSET (D \X D) /\ \A x \in l.todo : Wall(l.order[x[1]]) > 0 /\ Wall(l.order[x[2]]) > 0
    BY <1>1 DEF Paired
  <1>3. Turn(p) \in l.todo
    BY <1>1, <1>2, FirstPairIsOneOfThem DEF Turn
  <1>4. Turn(p)[1] \in D /\ Turn(p)[2] \in D /\ Turn(p)[1] # Turn(p)[2]
    BY <1>1, <1>3 DEF Paired
  <1> QED
    BY <1>1, <1>3, <1>4 DEF Mover, Stay

LEMMA PushingType ==
    ASSUME NEW l \in Plans, NEW m \in Nat, NEW s \in Nat, NEW at \in Int, NEW ahead \in -12..14
    PROVE  Pushing(l, m, s, at, ahead) \in Plans
  BY DEF Plans, Pushing

(* The end of the entry that stays is later than the start of the other.   *)
LEMMA PushIsLater ==
    ASSUME CalendarAssumption, StoreInv, NEW p \in Procs, pc[p] = "pair", plan[p].todo # {},
           StillOverlap(plan[p].map, Turn(p)[1], Turn(p)[2])
    PROVE  After(plan[p].map[Stay(p)]) > plan[p].map[Mover(p)].start
  <1> DEFINE r == plan[p].map
             m == Mover(p)
             s == Stay(p)
  <1>1. r \in Tables /\ m \in DOMAIN r /\ s \in DOMAIN r /\ {m, s} = {Turn(p)[1], Turn(p)[2]} /\ m # s
    BY Locals, TurnFacts DEF Plans
  <1>2. r[m].start \in Int /\ r[s].start \in Int /\ Duration(r[m]) \in Int /\ Duration(r[s]) \in Int
    BY <1>1, TableFacts, DurationIsPositive DEF Entry
  <1>3. (m = Turn(p)[1] /\ s = Turn(p)[2]) \/ (m = Turn(p)[2] /\ s = Turn(p)[1])
    BY <1>1
  <1> QED
    BY <1>2, <1>3 DEF StillOverlap, Overlap, After

LEMMA NextPairIsSafe ==
    ASSUME CalendarAssumption, StoreInv, NEW p \in Procs, NextPair(p)
    PROVE  LocalOK(p)
  <1> DEFINE l == plan[p]
  <1>0. /\ pc[p] = "pair" /\ UNCHANGED <<rows, job>> /\ l \in Plans /\ job[p].book \in Books
        /\ job[p].op # "import" /\ l.on /\ Evolved(l.map, rows[job[p].book])
        /\ DOMAIN l.order = DOMAIN l.map /\ Paired(l)
    BY NextPairCases, Locals DEF JobOK, PlanOK
  <1>1. CASE l.todo = {} /\ Goto(p, "done") /\ UNCHANGED plan
    <2>1. \A b \in Books : Evolved(rows[b], rows'[b])
      BY <1>1, StoreStep DEF Acts, Step
    <2> QED
      BY <1>0, <1>1, <2>1, GotoIsSafe DEF Labels
  <1>2. ASSUME NEW l2 \in Plans, l2.todo \subseteq l.todo, l2.map = l.map, l2.order = l.order, l2.on = l.on,
               plan' = [plan EXCEPT ![p] = l2],
               UNCHANGED pc \/ (Goto(p, "scan") /\ Scanning(l2))
        PROVE  LocalOK(p)
    <2>1. LocalTypes /\ Others(p)
      BY <1>0, <1>2, Locals DEF LocalTypes, Others, Labels, Goto
    <2>2. plan'[p] = l2 /\ job'[p] = job[p] /\ rows' = rows /\ (pc'[p] = "pair" \/ (pc'[p] = "scan" /\ Scanning(l2)))
      BY <1>0, <1>2, Locals DEF Goto
    <2>3. JobOK(p)'
      BY <1>0, <2>2 DEF JobOK
    <2>4. Paired(l2)
      BY <1>0, <1>2 DEF Paired
    <2>5. PlanOK(p)'
      BY <1>0, <1>2, <2>2, <2>4 DEF PlanOK
    <2> QED
      BY <2>1, <2>3, <2>5 DEF LocalOK
  <1>3. CASE l.todo # {}
    <2>1. Skipped(p) \in Plans /\ Skipped(p).todo \subseteq l.todo /\ Skipped(p).map = l.map
          /\ Skipped(p).order = l.order /\ Skipped(p).on = l.on
      BY <1>0 DEF Skipped, Plans
    <2>2. GivenUp(p) \in Plans /\ GivenUp(p).todo \subseteq l.todo /\ GivenUp(p).map = l.map
          /\ GivenUp(p).order = l.order /\ GivenUp(p).on = l.on
      <3>1. Turn(p) \in Nat \X Nat
        BY <1>0, <1>3, TurnFacts
      <3> DEFINE S == Skipped(p)
                 U == S.unresolved \cup {Turn(p)}
      <3>2. U \in SUBSET (Nat \X Nat)
        BY <2>1, <3>1 DEF Plans
      <3>3. GivenUp(p) = [S EXCEPT !.unresolved = U]
        BY DEF GivenUp
      <3> HIDE DEF S, U
      <3> QED
        BY <2>1, <3>2, <3>3 DEF Plans, S
    <2>3. Mover(p) \in Nat /\ Stay(p) \in Nat /\ l.map[Stay(p)] \in Entry
      <3>1. l.map \in Tables
        BY <1>0 DEF Plans
      <3> QED
        BY <1>0, <1>3, <3>1, TurnFacts, TableFacts
    <2>4. l.map[Stay(p)].start \in Int /\ Duration(l.map[Stay(p)]) \in Int /\ Duration(l.map[Stay(p)]) > 0
      BY <2>3, DurationIsPositive DEF Entry
    <2>5. Pushed(p) \in Plans /\ Pushed(p).todo \subseteq l.todo /\ Pushed(p).map = l.map
          /\ Pushed(p).order = l.order /\ Pushed(p).on = l.on
          /\ Pushed(p).mover = Mover(p) /\ Pushed(p).stay = Stay(p)
          /\ Pushed(p).at = After(l.map[Stay(p)])
      <3>0. l.map[Stay(p)].ahead \in -12..14
        BY <2>3 DEF Entry
      <3>1. After(l.map[Stay(p)]) \in Int
        BY <2>4 DEF After
      <3> DEFINE at == After(l.map[Stay(p)])
                 ahead == l.map[Stay(p)].ahead
      <3>2. Skipped(p) \in Plans /\ Mover(p) \in Nat /\ Stay(p) \in Nat /\ at \in Int /\ ahead \in -12..14
        BY <2>1, <2>3, <3>0, <3>1
      <3>3. Pushed(p) = Pushing(Skipped(p), Mover(p), Stay(p), at, ahead)
        BY DEF Pushed
      <3> HIDE DEF at, ahead
      <3> DEFINE S == Skipped(p)
      <3>4. S \in Plans /\ Pushed(p) = [S EXCEPT !.mover = Mover(p), !.stay = Stay(p), !.tries = 0, !.at = at, !.ahead = ahead]
        BY <3>2, <3>3 DEF Pushing
      <3> HIDE DEF S
      <3>5. Pushed(p) \in Plans
        <4>1. Pushing(S, Mover(p), Stay(p), at, ahead) \in Plans
          BY <3>2, <3>4, PushingType
        <4> QED
          BY <3>3, <4>1 DEF S
      <3>6. Pushed(p).todo = S.todo /\ Pushed(p).map = S.map /\ Pushed(p).order = S.order /\ Pushed(p).on = S.on
        BY <3>4 DEF Plans
      <3>7. Pushed(p).mover = Mover(p) /\ Pushed(p).stay = Stay(p) /\ Pushed(p).at = at
        BY <3>4 DEF Plans
      <3> QED
        BY <2>1, <3>5, <3>6, <3>7 DEF S, at
    <2>6. StillOverlap(l.map, Turn(p)[1], Turn(p)[2]) /\ Movable(l.map[Mover(p)]) => Scanning(Pushed(p))
      BY <1>0, <1>3, <2>5, TurnFacts, PushIsLater DEF Scanning, Movable
    <2> QED
      BY <1>2, <1>3, <2>1, <2>2, <2>5, <2>6, NextPairCases
  <1> QED
    BY <1>1, <1>3, NextPairCases

(* The scan: what stands in the way, and the plan after each outcome. *)
Table(p) == Reads(p)[job[p].book]
Slot(p) == plan[p].at + Duration(plan[p].map[plan[p].mover])
InTheWay(p) == Stops(Table(p), plan[p].at, Slot(p), plan[p].map[plan[p].mover].zone, {plan[p].mover, plan[p].stay})
Hit(p) == Least(Table(p), InTheWay(p))
Later(p) == [plan[p] EXCEPT !.at = Table(p)[Hit(p)].end, !.ahead = Table(p)[Hit(p)].ahead, !.tries = @ + 1]
Dropped(p) == [plan[p] EXCEPT !.gaveUp = @ \cup {{plan[p].mover, plan[p].stay}}]

LEMMA ScanCases ==
    ASSUME StoreInv, NEW p \in Procs, Scan(p)
    PROVE  /\ pc[p] = "scan" /\ Read(p) /\ UNCHANGED <<rows, view, touched>>
           /\ \/ Fail(p) /\ UNCHANGED plan
              \/ /\ InTheWay(p) # {} /\ Table(p)[Hit(p)].zone = plan[p].map[plan[p].mover].zone
                 /\ Table(p)[Hit(p)].end # NoEnd /\ plan[p].tries < MaxPush
                 /\ plan' = [plan EXCEPT ![p] = Later(p)] /\ UNCHANGED <<pc, job>>
              \/ /\ plan[p].tries >= MaxPush
                 /\ plan' = [plan EXCEPT ![p] = Dropped(p)] /\ Goto(p, "pair") /\ UNCHANGED job
              \/ InTheWay(p) = {} /\ Goto(p, "move") /\ UNCHANGED <<plan, job>>
  BY Zenon, Locals DEF Scan, Read, Table, Slot, InTheWay, Hit, Later, Dropped

(* The row that is hit starts a later slot. *)
LEMMA HitFacts ==
    ASSUME CalendarAssumption, StoreInv, NEW p \in Procs, pc[p] = "scan", InTheWay(p) # {},
           Table(p)[Hit(p)].zone = plan[p].map[plan[p].mover].zone, Table(p)[Hit(p)].end # NoEnd
    PROVE  /\ Hit(p) \in Upcoming(Table(p)) \ {plan[p].mover, plan[p].stay}
           /\ Hit(p) \in DOMAIN Table(p) /\ Table(p)[Hit(p)] \in Entry
           /\ Table(p)[Hit(p)].end \in Int /\ Table(p)[Hit(p)].end > plan[p].at
  <1> DEFINE r == Table(p)
  <1>1. r \in Tables /\ plan[p] \in Plans
    BY ReadsThePast, Locals DEF JobOK, Table
  <1>2. InTheWay(p) \subseteq Upcoming(r)
    BY DEF InTheWay, Stops
  <1>3. InTheWay(p) \in SUBSET DOMAIN r /\ \A n \in InTheWay(p) : Wall(r[n]) > 0
    BY <1>1, <1>2, UpcomingFacts
  <1>4. Hit(p) \in InTheWay(p)
    BY <1>1, <1>3, LeastIsOneOfThem DEF Hit
  <1>5. Hit(p) \in DOMAIN r /\ r[Hit(p)] \in Entry
    BY <1>1, <1>3, <1>4, TableFacts
  <1>6. Hit(p) \notin {plan[p].mover, plan[p].stay} /\ Overlap(plan[p].at, Slot(p), r[Hit(p)].start, End(r[Hit(p)]))
    BY <1>4 DEF InTheWay, Stops
  <1>7. r[Hit(p)].end \in Int /\ plan[p].at < r[Hit(p)].end
    BY <1>5, <1>6 DEF Entry, Overlap, End
  <1>8. plan[p].at \in Int
    BY <1>1 DEF Plans
  <1> QED
    BY <1>2, <1>4, <1>5, <1>6, <1>7, <1>8

LEMMA ScanIsSafe ==
    ASSUME CalendarAssumption, StoreInv, NEW p \in Procs, Scan(p)
    PROVE  LocalOK(p)
  <1> DEFINE l == plan[p]
  <1>0. /\ pc[p] = "scan" /\ UNCHANGED rows /\ l \in Plans /\ job[p].book \in Books
        /\ job[p].op # "import" /\ l.on /\ Evolved(l.map, rows[job[p].book])
        /\ DOMAIN l.order = DOMAIN l.map /\ Paired(l) /\ Scanning(l)
    BY ScanCases, Locals DEF JobOK, PlanOK
  <1>1. ASSUME NEW l2 \in Plans, l2.todo = l.todo, l2.map = l.map, l2.order = l.order, l2.on = l.on,
               plan' = [plan EXCEPT ![p] = l2], UNCHANGED job,
               (UNCHANGED pc /\ Scanning(l2)) \/ Goto(p, "pair")
        PROVE  LocalOK(p)
    <2>1. LocalTypes /\ Others(p)
      BY <1>0, <1>1, Locals DEF LocalTypes, Others, Labels, Goto
    <2>2. plan'[p] = l2 /\ job'[p] = job[p] /\ rows' = rows /\ (pc'[p] = "pair" \/ (pc'[p] = "scan" /\ Scanning(l2)))
      BY <1>0, <1>1, Locals DEF Goto
    <2>3. JobOK(p)'
      BY <1>0, <2>2 DEF JobOK
    <2>4. Paired(l2)
      BY <1>0, <1>1 DEF Paired
    <2>5. PlanOK(p)'
      BY <1>0, <1>1, <2>2, <2>4 DEF PlanOK
    <2> QED
      BY <2>1, <2>3, <2>5 DEF LocalOK
  <1>2. CASE Fail(p) /\ UNCHANGED plan
    BY <1>0, <1>2, FailIsSafe
  <1>3. CASE /\ InTheWay(p) # {} /\ Table(p)[Hit(p)].zone = l.map[l.mover].zone /\ Table(p)[Hit(p)].end # NoEnd
             /\ plan' = [plan EXCEPT ![p] = Later(p)] /\ UNCHANGED <<pc, job>>
    <2> DEFINE at == Table(p)[Hit(p)].end
    <2> DEFINE ahead == Table(p)[Hit(p)].ahead
    <2>1. at \in Int /\ at > l.at /\ l.at \in Int /\ ahead \in -12..14
      BY <1>0, <1>3, HitFacts DEF Plans, Entry
    <2> DEFINE t == l.tries + 1
    <2>2. Later(p) = [l EXCEPT !.at = at, !.ahead = ahead, !.tries = t] /\ t \in Nat
      BY <1>0 DEF Later, Plans
    <2> HIDE DEF at, ahead, t
    <2>s. l.map[l.mover].start \in Int
      BY <1>0, TableFacts DEF Scanning, Plans, Entry
    <2>3. Later(p) \in Plans
      BY <1>0, <2>1, <2>2 DEF Plans
    <2>4. /\ Later(p).todo = l.todo /\ Later(p).map = l.map /\ Later(p).order = l.order /\ Later(p).on = l.on
      BY <1>0, <2>2 DEF Plans
    <2>5. /\ Later(p).mover = l.mover /\ Later(p).stay = l.stay /\ Later(p).at = at
      BY <1>0, <2>2 DEF Plans
    <2>6. Scanning(Later(p))
      BY <1>0, <2>1, <2>4, <2>5, <2>s DEF Scanning
    <2> QED
      BY <1>1, <1>3, <2>3, <2>4, <2>6
  <1>4. CASE plan' = [plan EXCEPT ![p] = Dropped(p)] /\ Goto(p, "pair") /\ UNCHANGED job
    <2> DEFINE U == l.gaveUp \cup {{l.mover, l.stay}}
    <2>1. U \in SUBSET SUBSET Nat
      BY <1>0 DEF Plans
    <2>2. Dropped(p) = [l EXCEPT !.gaveUp = U]
      BY DEF Dropped
    <2> HIDE DEF U
    <2>3. Dropped(p) \in Plans
      BY <1>0, <2>1, <2>2 DEF Plans
    <2>4. /\ Dropped(p).todo = l.todo /\ Dropped(p).map = l.map /\ Dropped(p).order = l.order /\ Dropped(p).on = l.on
      BY <1>0, <2>2 DEF Plans
    <2> QED
      BY <1>1, <1>4, <2>3, <2>4
  <1>5. CASE Goto(p, "move") /\ UNCHANGED <<plan, job>>
    <2>1. \A b \in Books : Evolved(rows[b], rows'[b])
      BY StoreStep DEF Acts, Step
    <2> QED
      BY <1>0, <1>5, <2>1, GotoIsSafe DEF Labels
  <1> QED
    BY <1>2, <1>3, <1>4, <1>5, ScanCases

(* The move changes the row in the store and in the plan alike. *)
Remap(p) == [plan[p].map EXCEPT ![plan[p].mover] = Moved(p, plan[p].map[plan[p].mover])]
Remapped(p) == [plan[p] EXCEPT !.map = Remap(p)]
LEMMA MoveFacts ==
    ASSUME StoreInv, NEW p \in Procs, Move(p)
    PROVE  LET l == plan[p]  b == job[p].book  m == plan[p].mover IN
           /\ pc[p] = "move" /\ txn[p] # "stale" /\ Goto(p, "pair") /\ UNCHANGED job
           /\ b \in Books /\ l \in Plans /\ m \in DOMAIN l.map /\ m \in DOMAIN rows[b]
           /\ l.map \in Tables /\ rows[b] \in Tables /\ rows'[b] \in Tables
           /\ Legal(b, m, Moved(p, rows[b][m])) /\ Commit(p, b, m, Moved(p, rows[b][m]))
           /\ rows'[b][m] = Moved(p, rows[b][m]) /\ DOMAIN rows'[b] = DOMAIN rows[b]
           /\ \A n \in DOMAIN rows[b] \ {m} : rows'[b][n] = rows[b][n]
           /\ plan' = [plan EXCEPT ![p] = Remapped(p)]
  <1> DEFINE l == plan[p]
             b == job[p].book
             m == plan[p].mover
  <1>1. pc[p] = "move" /\ txn[p] # "stale" /\ Goto(p, "pair") /\ UNCHANGED job
        /\ Commit(p, b, m, Moved(p, rows[b][m]))
    BY DEF Move, MayWrite, Moved
  <1>2. b \in Books /\ l \in Plans /\ m \in DOMAIN l.map /\ m \in DOMAIN rows[b]
    BY <1>1, Locals DEF JobOK, PlanOK, Scanning, Evolved
  <1>3. l.map \in Tables /\ rows[b] \in Tables /\ TypeInv
    BY <1>2 DEF Plans, StoreInv, TypeInv, StoreTypes
  <1>4. Legal(b, m, Moved(p, rows[b][m]))
    BY <1>1, MoveIsLegal
  <1>5. /\ rows'[b] \in Tables /\ rows'[b][m] = Moved(p, rows[b][m]) /\ DOMAIN rows'[b] = DOMAIN rows[b]
        /\ \A n \in DOMAIN rows[b] \ {m} : rows'[b][n] = rows[b][n]
    <2>1. /\ rows' \in [Books -> Tables]
          /\ rows'[b][m] = Moved(p, rows[b][m]) /\ DOMAIN rows'[b] = DOMAIN rows[b] \cup {m}
          /\ \A n \in DOMAIN rows[b] \ {m} : rows'[b][n] = rows[b][n]
      BY <1>1, <1>3, <1>4, CommitIsSafe
    <2> QED
      BY <1>2, <2>1
  <1>6. plan' = [plan EXCEPT ![p] = Remapped(p)]
    BY <1>2, <1>3, Locals DEF Move, Remapped, Remap, Moved
  <1> QED
    BY <1>1, <1>2, <1>3, <1>4, <1>5, <1>6

LEMMA MovedFacts ==
    ASSUME CalendarAssumption, StoreInv, NEW p \in Procs, pc[p] = "move", NEW e \in Entry
    PROVE  /\ Moved(p, e) \in Entry /\ Moved(p, e).start = plan[p].at /\ Moved(p, e).end = Slot(p)
           /\ Moved(p, e).flex = e.flex /\ Moved(p, e).uid = e.uid /\ Moved(p, e).zone = e.zone
           /\ Moved(p, e).status = e.status /\ Moved(p, e).ahead = plan[p].ahead
           /\ plan[p].at \in Int /\ Slot(p) \in Int /\ plan[p].at < Slot(p)
  <1>1. plan[p].mover \in DOMAIN plan[p].map /\ plan[p].map \in Tables /\ plan[p].at \in Int
        /\ plan[p].ahead \in -12..14
    BY Locals DEF PlanOK, Scanning, Plans
  <1>2. plan[p].map[plan[p].mover] \in Entry
    BY <1>1, TableFacts
  <1> DEFINE d == Duration(plan[p].map[plan[p].mover])
  <1>d. d \in Int /\ d > 0
    BY <1>2, DurationIsPositive
  <1>3. Slot(p) \in Int /\ plan[p].at < Slot(p)
    BY <1>1, <1>d DEF Slot
  <1>4. Moved(p, e) = [e EXCEPT !.start = plan[p].at, !.end = Slot(p), !.ahead = plan[p].ahead]
    BY DEF Moved, Slot
  <1> QED
    BY <1>1, <1>3, <1>4 DEF Entry

LEMMA MovedEvolves ==
    ASSUME CalendarAssumption, StoreInv, NEW p \in Procs, pc[p] = "move",
           NEW e \in Entry, NEW f \in Entry, Evolves(e, f)
    PROVE  Evolves(Moved(p, e), Moved(p, f))
  <1>1. Moved(p, e).start = plan[p].at /\ Moved(p, f).start = plan[p].at
    BY MovedFacts
  <1>2. /\ Moved(p, e).end = Slot(p) /\ Moved(p, f).end = Slot(p)
        /\ Moved(p, e).ahead = plan[p].ahead /\ Moved(p, f).ahead = plan[p].ahead
    BY MovedFacts
  <1>3. Moved(p, e).flex = e.flex /\ Moved(p, f).flex = f.flex
    BY MovedFacts
  <1>4. Moved(p, e).uid = e.uid /\ Moved(p, f).uid = f.uid
    BY MovedFacts
  <1>5. Moved(p, e).zone = e.zone /\ Moved(p, f).zone = f.zone
    BY MovedFacts
  <1>6. Moved(p, e).status = e.status /\ Moved(p, f).status = f.status
    BY MovedFacts
  <1> QED
    BY <1>1, <1>2, <1>3, <1>4, <1>5, <1>6 DEF Evolves

LEMMA RemapFacts ==
    ASSUME CalendarAssumption, StoreInv, NEW p \in Procs, Move(p)
    PROVE  /\ Remap(p) \in Tables /\ DOMAIN Remap(p) = DOMAIN plan[p].map
           /\ Remap(p)[plan[p].mover] = Moved(p, plan[p].map[plan[p].mover])
           /\ \A n \in DOMAIN plan[p].map \ {plan[p].mover} : Remap(p)[n] = plan[p].map[n]
           /\ Evolved(Remap(p), rows'[job[p].book])
           /\ Remapped(p) \in Plans /\ Remapped(p).map = Remap(p) /\ Remapped(p).order = plan[p].order
           /\ Remapped(p).todo = plan[p].todo /\ Remapped(p).on = plan[p].on
           /\ Remapped(p).unresolved = plan[p].unresolved /\ Remapped(p).gaveUp = plan[p].gaveUp
  <1> DEFINE l == plan[p]
             b == job[p].book
             m == l.mover
             r == l.map
  <1>1. /\ pc[p] = "move" /\ b \in Books /\ l \in Plans /\ m \in DOMAIN r /\ m \in DOMAIN rows[b]
        /\ r \in Tables /\ rows[b] \in Tables
        /\ rows'[b][m] = Moved(p, rows[b][m]) /\ DOMAIN rows'[b] = DOMAIN rows[b]
        /\ \A n \in DOMAIN rows[b] \ {m} : rows'[b][n] = rows[b][n]
    BY MoveFacts
  <1>2. r[m] \in Entry /\ rows[b][m] \in Entry
    BY <1>1, TableFacts
  <1>3. Moved(p, r[m]) \in Entry
    BY <1>1, <1>2, MovedFacts
  <1>4. PICK k \in Nat : DOMAIN r = 1 .. k /\ r \in [1 .. k -> Entry]
    BY <1>1, TableShape
  <1>5. /\ Remap(p) \in [1 .. k -> Entry] /\ DOMAIN Remap(p) = DOMAIN r
        /\ Remap(p)[m] = Moved(p, r[m]) /\ \A n \in DOMAIN r \ {m} : Remap(p)[n] = r[n]
    BY <1>1, <1>3, <1>4 DEF Remap
  <1>6. Remap(p) \in Tables
    BY <1>5 DEF Tables
  <1>7. Evolved(r, rows[b])
    BY <1>1, Locals DEF PlanOK
  <1>8. Evolved(Remap(p), rows'[b])
    <2> SUFFICES ASSUME NEW n \in DOMAIN r PROVE n \in DOMAIN rows'[b] /\ Evolves(Remap(p)[n], rows'[b][n])
      BY <1>5 DEF Evolved
    <2>1. n \in DOMAIN rows'[b] /\ Evolves(r[n], rows[b][n])
      BY <1>1, <1>7 DEF Evolved
    <2>2. CASE n # m
      BY <1>1, <1>5, <2>1, <2>2
    <2>3. CASE n = m
      <3>2. Evolves(Moved(p, r[m]), Moved(p, rows[b][m]))
        BY <1>1, <1>2, <2>1, <2>3, MovedEvolves
      <3> QED
        BY <1>1, <1>5, <2>1, <2>3, <3>2
    <2> QED
      BY <2>2, <2>3
  <1>9. /\ Remapped(p) \in Plans /\ Remapped(p).map = Remap(p) /\ Remapped(p).order = l.order
        /\ Remapped(p).todo = l.todo /\ Remapped(p).on = l.on
        /\ Remapped(p).unresolved = l.unresolved /\ Remapped(p).gaveUp = l.gaveUp
    BY <1>1, <1>6 DEF Remapped, Plans
  <1> QED
    BY <1>5, <1>6, <1>8, <1>9

LEMMA MoveIsSafe ==
    ASSUME CalendarAssumption, StoreInv, NEW p \in Procs, Move(p)
    PROVE  LocalOK(p)
  <1> DEFINE l == plan[p]
             l2 == Remapped(p)
             b == job[p].book
  <1>1. pc' = [pc EXCEPT ![p] = "pair"] /\ UNCHANGED job /\ plan' = [plan EXCEPT ![p] = l2] /\ pc[p] = "move"
    BY MoveFacts DEF Goto
  <1>2. b \in Books /\ job[p].op # "import" /\ l.on /\ DOMAIN l.order = DOMAIN l.map /\ Paired(l)
    BY <1>1, Locals DEF JobOK, PlanOK
  <1>3. /\ l2 \in Plans /\ l2.map = Remap(p) /\ l2.order = l.order /\ l2.todo = l.todo /\ l2.on = l.on
        /\ DOMAIN l2.map = DOMAIN l.map /\ Evolved(l2.map, rows'[b])
    BY RemapFacts
  <1>5. LocalTypes /\ Others(p)
    BY <1>1, <1>3, Locals DEF LocalTypes, Others, Labels
  <1>6. pc'[p] = "pair" /\ job'[p] = job[p] /\ plan'[p] = l2
    BY <1>1, Locals
  <1>7. JobOK(p)'
    BY <1>2, <1>6 DEF JobOK
  <1>8. Paired(l2)
    BY <1>2, <1>3 DEF Paired
  <1>9. PlanOK(p)'
    BY <1>2, <1>3, <1>6, <1>8 DEF PlanOK
  <1> QED
    BY <1>5, <1>7, <1>9 DEF LocalOK

-----------------------------------------------------------------------------
LEMMA ActsAreSafe ==
    ASSUME CalendarAssumption, StoreInv, NEW p \in Procs, Acts(p)
    PROVE  LocalOK(p)
  BY StartIsSafe, InsertingIsSafe, CancellingIsSafe, SnapshotIsSafe, NextPairIsSafe, ScanIsSafe, MoveIsSafe, ResetIsSafe
     DEF Acts, Step, Done, Crash

(* What another process knows stays true of tables that have evolved. *)
LEMMA OthersStayOK ==
    ASSUME StoreInv, NEW p \in Procs, Acts(p), Others(p), NEW q \in Procs \ {p}
    PROVE  JobOK(q)' /\ PlanOK(q)'
  <1>1. /\ \A b \in Books : Evolved(rows[b], rows'[b]) /\ DOMAIN rows[b] \subseteq DOMAIN rows'[b]
        /\ \A b \in Books : rows[b] \in Tables /\ rows'[b] \in Tables
    BY StoreStep DEF StoreTypes, Evolved, StoreInv, TypeInv
  <1>2. pc'[q] = pc[q] /\ job'[q] = job[q] /\ plan'[q] = plan[q]
    BY DEF Others
  <1>3. JobOK(q)'
    BY <1>1, <1>2, Locals DEF JobOK
  <1>4. plan[q].map \in Tables
    BY Locals DEF Plans
  <1>5. pc[q] # "idle" /\ Evolved(plan[q].map, rows[job[q].book]) => Evolved(plan[q].map, rows'[job[q].book])
    BY <1>1, <1>4, EvolvedTransitive, Locals DEF JobOK
  <1>6. PlanOK(q)'
    BY <1>2, <1>5, Locals DEF PlanOK
  <1> QED
    BY <1>3, <1>6

LEMMA StoreInvStep == CalendarAssumption /\ StoreInv /\ [Next]_vars => StoreInv'
  <1> SUFFICES ASSUME CalendarAssumption, StoreInv, [Next]_vars PROVE StoreInv'
    OBVIOUS
  <1>1. CASE Next
    <2>1. PICK p \in Procs : Acts(p)
      BY <1>1 DEF Next, Acts
    <2>2. LocalOK(p)
      BY <2>1, ActsAreSafe
    <2>3. TypeInv'
      BY <2>1, <2>2, StoreStep, TxnStep DEF TypeInv, LocalOK, LocalTypes
    <2>4. ASSUME NEW q \in Procs PROVE ProcOK(q)'
      <3>1. ViewOK(q)'
        BY <2>1, StoreStep
      <3>2. JobOK(q)' /\ PlanOK(q)'
        BY <2>1, <2>2, OthersStayOK DEF LocalOK
      <3> QED
        BY <3>1, <3>2 DEF ProcOK
    <2> QED
      BY <2>3, <2>4 DEF StoreInv
  <1>2. CASE UNCHANGED vars
    BY <1>2 DEF vars, StoreInv, TypeInv, StoreTypes, ProcOK, ViewOK, JobOK, PlanOK
  <1> QED
    BY <1>1, <1>2

LEMMA StoreInvInit == CalendarAssumption /\ Init => StoreInv
  <1> SUFFICES ASSUME CalendarAssumption, Init PROVE StoreInv
    OBVIOUS
  <1>1. \A s \in Starting \cup {<<>>} : s \in Tables
    BY EmptyTable, SequencesAreTables DEF CalendarAssumption
  <1>2. rows \in [Books -> Tables]
    BY <1>1 DEF Init
  <1>3. NoRows \in [Books -> Tables] /\ \A b \in Books : DOMAIN NoRows[b] = {}
    BY EmptyTable DEF NoRows
  <1>4. TypeInv
    <2>1. StoreTypes
      BY <1>2, <1>3 DEF Init, StoreTypes
    <2> QED
      BY <2>1, NoneTypes DEF Init, TypeInv, Transactions, Labels
  <1>5. ASSUME NEW p \in Procs PROVE ProcOK(p)
    <2>1. pc[p] = "idle" /\ job[p] = NoJob /\ plan[p] = NoPlan /\ view[p] = NoRows
      BY DEF Init
    <2>2. ViewOK(p)
      BY <1>3, <2>1 DEF ViewOK, Evolved
    <2>3. JobOK(p) /\ PlanOK(p)
      BY <2>1, NoneTypes DEF JobOK, PlanOK, NoJob
    <2> QED
      BY <2>2, <2>3 DEF ProcOK
  <1> QED
    BY <1>4, <1>5 DEF StoreInv

(* Whoever writes, crashes or reads a stale snapshot: rows keep their      *)
(* identity, a cancellation is final, fixed entries keep their times and   *)
(* ids have no gaps.                                                       *)
THEOREM RecordsAreKept == Spec => KeepsRecords
  <1> DEFINE Kept == \A b \in Books :
                 /\ \A n \in DOMAIN rows[b] : n \in DOMAIN rows'[b] /\ Evolves(rows[b][n], rows'[b][n])
                 /\ DOMAIN rows'[b] = 1 .. Cardinality(DOMAIN rows'[b])
  <1>1. StoreInv /\ [Next]_vars => [Kept]_vars
    <2> SUFFICES ASSUME StoreInv, Next PROVE Kept
      OBVIOUS
    <2>1. PICK p \in Procs : Acts(p)
      BY DEF Next, Acts
    <2>2. /\ \A b \in Books : Evolved(rows[b], rows'[b])
          /\ \A b \in Books : rows'[b] \in Tables
      BY <2>1, StoreStep DEF StoreTypes
    <2> QED
      BY <2>2, TableFacts DEF Evolved
  <1>2. Spec => []StoreInv
    BY CalendarAssumption, StoreInvInit, StoreInvStep, PTL DEF Spec
  <1> QED
    BY <1>1, <1>2, PTL DEF Spec, KeepsRecords

-----------------------------------------------------------------------------
(***************************************************************************)
(* UIDs.  A copy of an invitation is in the table, or an importer that saw *)
(* none is about to insert one.  Who saw none while there is one reads a   *)
(* stale snapshot, and will not write before it has been closed; so copies *)
(* and insertions under way are never more than the importers.             *)
(***************************************************************************)
Importers == Procs \ Servers
Copies(b, u) == {n \in DOMAIN rows[b] : rows[b][n].uid = u}
Pending(b, u) ==
    {p \in Importers : /\ txn[p] # "stale" /\ pc[p] \in {"count", "insert"}
                       /\ job[p].book = b /\ Head(job[p].todo).uid = u}
ServersBringNone ==
    \A p \in Servers : /\ job[p].op # "import" /\ pc[p] # "uid"
                       /\ pc[p] \in {"count", "insert"} => Head(job[p].todo).uid = NoUid
CopiesAreBacked ==
    \A b \in Books, u \in Uids \ {NoUid} :
        Cardinality(DOMAIN rows[b]) <= Limit =>
            Cardinality(Copies(b, u)) + Cardinality(Pending(b, u)) <= Cardinality(Importers)
UidInv == StoreInv /\ ServersBringNone /\ CopiesAreBacked

(* Servers never import, and what they insert has no UID. *)
LEMMA ServersStep ==
    ASSUME CalendarAssumption, StoreInv, ServersBringNone, NEW p \in Procs, Acts(p)
    PROVE  ServersBringNone'
  <1>0. LocalOK(p)
    BY ActsAreSafe
  <1>1. \A q \in Servers \ {p} : pc'[q] = pc[q] /\ job'[q] = job[q]
    BY <1>0 DEF LocalOK, Others, CalendarAssumption
  <1>2. ASSUME p \in Servers
        PROVE  job'[p].op # "import" /\ pc'[p] # "uid"
               /\ (pc'[p] \in {"count", "insert"} => Head(job'[p].todo).uid = NoUid)
    <2>0. job[p].op # "import" /\ pc[p] # "uid"
          /\ (pc[p] \in {"count", "insert"} => Head(job[p].todo).uid = NoUid)
          /\ pc \in [Procs -> Labels] /\ job \in [Procs -> Jobs] /\ job[p] \in Jobs
      BY <1>2, Locals DEF ServersBringNone
    <2>1. ASSUME NEW op, NEW b, NEW todo, NEW id, NEW l, Call(p, op, b, todo, id, l)
          PROVE  job'[p].op = op /\ job'[p].todo = todo /\ pc'[p] = l
      BY <2>0, <2>1 DEF Call, Goto
    <2>2. \A e \in Offers \cup Alarms \cup Milestones : e.uid = NoUid /\ Head(<<e>>) = e
      BY DEF CalendarAssumption
    <2>3. CASE Start(p)
      <3>1. CASE Schedule(p)
        <4>1. PICK b \in Calendars, e \in Offers, op \in {"schedule", "pencil"} : Call(p, op, b, <<e>>, 0, "count")
          BY <3>1 DEF Schedule
        <4>2. job'[p].op = op /\ job'[p].todo = <<e>> /\ pc'[p] = "count"
          BY <2>1, <4>1
        <4> QED
          BY <2>2, <4>2
      <3>2. CASE SetTimerAlarm(p)
        <4>1. PICK b \in Calendars, e \in Alarms : Call(p, "timer", b, <<e>>, 0, "count")
          BY <3>2 DEF SetTimerAlarm
        <4>2. job'[p].op = "timer" /\ job'[p].todo = <<e>> /\ pc'[p] = "count"
          BY <2>1, <4>1
        <4> QED
          BY <2>2, <4>2
      <3>3. CASE NominateMilestone(p)
        <4>1. PICK b \in Journals, e \in Milestones : Call(p, "milestone", b, <<e>>, 0, "count")
          BY <3>3 DEF NominateMilestone
        <4>2. job'[p].op = "milestone" /\ job'[p].todo = <<e>> /\ pc'[p] = "count"
          BY <2>1, <4>1
        <4> QED
          BY <2>2, <4>2
      <3>4. CASE CancelEvent(p)
        <4>1. PICK b \in Calendars, n \in 1 .. MaxRows : Call(p, "cancel", b, <<>>, n, "find")
          BY <3>4 DEF CancelEvent
        <4>2. job'[p].op = "cancel" /\ pc'[p] = "find"
          BY <2>1, <4>1
        <4> QED
          BY <4>2
      <3>5. CASE ResolveConflicts(p)
        <4>1. PICK b \in Calendars : Call(p, "resolve", b, <<>>, 0, "snap")
          BY <3>5 DEF ResolveConflicts
        <4>2. job'[p].op = "resolve" /\ pc'[p] = "snap"
          BY <2>1, <4>1
        <4> QED
          BY <4>2
      <3>6. CASE GetTemporalContext(p)
        BY <2>0, <3>6 DEF GetTemporalContext
      <3> QED
        BY <1>2, <2>3, <3>1, <3>2, <3>3, <3>4, <3>5, <3>6 DEF Start, Import
    <2>4. ASSUME Fail(p) PROVE job'[p].op = job[p].op /\ pc'[p] = "done"
      <3>1. job' = [job EXCEPT ![p].answer = "error"] /\ pc' = [pc EXCEPT ![p] = "done"]
        BY <2>0, <2>4 DEF Fail, Goto
      <3>2. job'[p] = [job[p] EXCEPT !.answer = "error"] /\ pc'[p] = "done"
        BY <2>0, <3>1
      <3>3. job'[p].op = job[p].op
        BY <2>0, <3>2 DEF Jobs
      <3> QED
        BY <3>2, <3>3
    <2>5. CASE CheckUid(p)
      BY <2>0, <2>5 DEF CheckUid
    <2>6. CASE NextId(p)
      BY <2>0, <2>6 DEF NextId, Goto, Jobs
    <2>7. CASE Insert(p) \/ Locked(p)
      BY <2>0, <2>4, <2>7 DEF Insert, Locked, Goto
    <2>8. CASE FindEvent(p)
      <3>1. UNCHANGED job \/ job' = [job EXCEPT ![p].answer = "not found"]
        BY <2>8 DEF FindEvent
      <3>2. job'[p] = job[p] \/ job'[p] = [job[p] EXCEPT !.answer = "not found"]
        BY <2>0, <3>1
      <3>3. job'[p].op = job[p].op
        BY <2>0, <3>2 DEF Jobs
      <3>4. pc'[p] \in {"done", "cancel"}
        BY <2>0, <2>8 DEF FindEvent, Goto
      <3> QED
        BY <2>0, <3>3, <3>4
    <2>9. CASE UpdateStatus(p) \/ CheckConflicts(p) \/ Snapshot(p)
      BY <2>0, <2>4, <2>9 DEF UpdateStatus, CheckConflicts, Snapshot, Goto
    <2>10. CASE NextPair(p)
      BY <2>0, <2>10, NextPairCases DEF Goto
    <2>11. CASE Scan(p)
      BY <2>0, <2>4, <2>11, ScanCases DEF Goto
    <2>12. CASE Move(p)
      BY <2>0, <2>12 DEF Move, Goto
    <2>13. CASE Reset(p)
      BY <2>0, <2>13 DEF Reset, Goto, NoJob
    <2> QED
      BY <2>3, <2>5, <2>6, <2>7, <2>8, <2>9, <2>10, <2>11, <2>12, <2>13 DEF Acts, Step, Done, Crash
  <1> QED
    BY <1>1, <1>2 DEF ServersBringNone

(* A snapshot goes stale by the commit of another process, and stays so    *)
(* until the connection is closed at the end of a call.                    *)
LEMMA StaleStaysStale ==
    ASSUME StoreInv, NEW p \in Procs, Acts(p)
    PROVE  /\ \A q \in Procs \ {p} : txn'[q] = txn[q] \/ txn'[q] = "stale"
           /\ txn[p] = "stale" => txn'[p] = "stale" \/ pc'[p] = "idle"
  <1> DEFINE Kept == /\ \A q \in Procs \ {p} : txn'[q] = txn[q] \/ txn'[q] = "stale"
                     /\ txn[p] = "stale" => txn'[p] = "stale" \/ pc'[p] = "idle"
  <1> SUFFICES Kept
    OBVIOUS
  <1>0. txn \in [Procs -> Transactions] /\ pc \in [Procs -> Labels]
    BY DEF StoreInv, TypeInv
  <1>a. ASSUME Read(p) PROVE Kept
    BY <1>0, <1>a DEF Read
  <1>b. ASSUME UNCHANGED txn PROVE Kept
    BY <1>b
  <1>c. ASSUME Reset(p), Close(p) PROVE Kept
    BY <1>0, <1>c DEF Reset, Close, Goto
  <1>d. ASSUME MayWrite(p), NEW b, NEW n, NEW e, Commit(p, b, n, e) PROVE Kept
    BY <1>0, <1>d DEF MayWrite, Commit
  <1> HIDE DEF Kept
  <1>2. CASE Start(p)
    BY <1>a, <1>b, <1>2 DEF Start, Schedule, SetTimerAlarm, NominateMilestone, Import, CancelEvent, ResolveConflicts,
                            GetTemporalContext, Call
  <1>3. CASE CheckUid(p) \/ NextId(p) \/ FindEvent(p) \/ CheckConflicts(p) \/ Snapshot(p)
    BY Zenon, <1>a, <1>3 DEF CheckUid, NextId, FindEvent, CheckConflicts, Snapshot
  <1>3b. CASE Scan(p)
    BY Zenon, <1>a, <1>3b DEF Scan
  <1>3c. CASE NextPair(p)
    BY Zenon, <1>b, <1>3c DEF NextPair
  <1>4. CASE Locked(p)
    <2>1. txn' = [txn EXCEPT ![p] = IF @ = "none" THEN "begun" ELSE @]
      BY <1>4 DEF Locked
    <2> QED
      BY <1>0, <2>1 DEF Kept
  <1>5. CASE Insert(p)
    <2>1. MayWrite(p) /\ (txn' = [txn EXCEPT ![p] = "write"] \/ \E b, n, e : Commit(p, b, n, e))
      BY <1>5 DEF Insert
    <2>2. CASE txn' = [txn EXCEPT ![p] = "write"]
      BY <1>0, <2>1, <2>2 DEF MayWrite, Kept
    <2> QED
      BY <1>d, <2>1, <2>2
  <1>6. CASE UpdateStatus(p) \/ Move(p)
    BY <1>d, <1>6 DEF UpdateStatus, Move
  <1>7. CASE Done(p) \/ Crash(p)
    BY <1>b, <1>c, <1>7 DEF Done, Crash
  <1> QED
    BY <1>2, <1>3, <1>3b, <1>3c, <1>4, <1>5, <1>6, <1>7 DEF Acts, Step

(* Only the check of a UID brings an importer to an insertion. *)
LEMMA OnlyChecksJoin ==
    ASSUME CalendarAssumption, StoreInv, NEW p \in Importers, Acts(p), pc'[p] \in {"count", "insert"}
    PROVE  \/ CheckUid(p) /\ Goto(p, "count") /\ UNCHANGED job
           \/ /\ pc[p] \in {"count", "insert"} /\ UNCHANGED rows
              /\ job'[p].book = job[p].book /\ job'[p].todo = job[p].todo
  <1>0. p \in Procs /\ p \notin Servers /\ pc \in [Procs -> Labels] /\ job \in [Procs -> Jobs] /\ job[p] \in Jobs
    BY Locals DEF Importers
  <1>1. ~Start(p)
    <2>1. ASSUME Import(p) PROVE pc'[p] = "uid"
      BY <1>0, <2>1 DEF Import, Call, Goto
    <2> QED
      BY <1>0, <2>1 DEF Start, Schedule, SetTimerAlarm, NominateMilestone, CancelEvent, ResolveConflicts, GetTemporalContext
  <1>2. ASSUME NextItem(p) PROVE FALSE
    BY <1>0, <1>2 DEF NextItem, Goto
  <1>3. ASSUME Fail(p) PROVE FALSE
    BY <1>0, <1>2, <1>3 DEF Fail, Goto
  <1>4. ASSUME NEW l \in Labels \ {"count", "insert"}, Goto(p, l) PROVE FALSE
    BY <1>0, <1>4 DEF Goto
  <1>5. ~UpdateStatus(p) /\ ~Done(p) /\ ~Crash(p) /\ ~Move(p)
    BY <1>4 DEF UpdateStatus, Done, Crash, Move, Reset, Labels
  <1>6. ~Locked(p) /\ ~Snapshot(p)
    BY <1>3, <1>4 DEF Locked, Snapshot, Labels
  <1>7. ~FindEvent(p)
    BY <1>4 DEF FindEvent, Labels
  <1>8. ~CheckConflicts(p)
    <2>1. ~Goto(p, "snap") /\ ~Goto(p, "done")
      BY <1>4 DEF Labels
    <2> QED
      BY <1>3, <2>1 DEF CheckConflicts
  <1>9. ~NextPair(p)
    <2>1. ~Goto(p, "done") /\ ~Goto(p, "scan")
      BY <1>4 DEF Labels
    <2> QED
      BY <1>0, <2>1, NextPairCases
  <1>10. ~Scan(p)
    <2>1. ~Goto(p, "pair") /\ ~Goto(p, "move")
      BY <1>4 DEF Labels
    <2> QED
      BY <1>0, <1>3, <2>1, ScanCases
  <1>11. ~Insert(p)
    <2>1. ~Goto(p, "check") /\ ~Goto(p, "done")
      BY <1>4 DEF Labels
    <2> QED
      BY <1>2, <1>3, <2>1 DEF Insert
  <1>12. CASE CheckUid(p)
    BY <1>2, <1>12 DEF CheckUid
  <1>13. CASE NextId(p)
    <2> DEFINE n == Cardinality(DOMAIN Reads(p)[job[p].book]) + 1
    <2>1. pc[p] = "count" /\ UNCHANGED rows /\ job' = [job EXCEPT ![p].id = n]
      BY <1>13 DEF NextId, Read
    <2> HIDE DEF n
    <2>2. job'[p] = [job[p] EXCEPT !.id = n]
      BY <1>0, <2>1
    <2>3. job'[p].book = job[p].book /\ job'[p].todo = job[p].todo
      BY <1>0, <2>2 DEF Jobs
    <2> QED
      BY <2>1, <2>3
  <1> QED
    BY <1>1, <1>5, <1>6, <1>7, <1>8, <1>9, <1>10, <1>11, <1>12, <1>13 DEF Acts, Step

(* Tables grow by insertions only. *)
Inserts(p) == /\ pc[p] = "insert" /\ MayWrite(p) /\ job[p].id \notin DOMAIN rows[job[p].book]
              /\ Commit(p, job[p].book, job[p].id, Head(job[p].todo))
LEMMA OnlyInsertsGrow ==
    ASSUME CalendarAssumption, StoreInv, NEW p \in Procs, Acts(p)
    PROVE  Inserts(p) \/ \A b \in Books : DOMAIN rows'[b] = DOMAIN rows[b]
  <1>1. CASE Start(p) \/ Locked(p) \/ NextPair(p) \/ Done(p) \/ Crash(p)
    BY Zenon, <1>1 DEF Start, Schedule, SetTimerAlarm, NominateMilestone, Import, CancelEvent, ResolveConflicts,
                GetTemporalContext, Call, Read, Locked, NextPair, Done, Crash, Reset
  <1>2. CASE CheckUid(p) \/ NextId(p) \/ FindEvent(p) \/ CheckConflicts(p) \/ Snapshot(p) \/ Scan(p)
    BY Zenon, <1>2 DEF CheckUid, NextId, FindEvent, CheckConflicts, Snapshot, Scan, Read
  <1>3. CASE Insert(p)
    BY <1>3 DEF Insert, Inserts
  <1>4. CASE UpdateStatus(p)
    <2> DEFINE b == job[p].book
               n == job[p].id
               e == [rows[b][n] EXCEPT !.status = "cancelled"]
    <2>1. pc[p] = "cancel" /\ Commit(p, b, n, e)
      BY <1>4 DEF UpdateStatus
    <2>2. Legal(b, n, e) /\ n \in DOMAIN rows[b] /\ TypeInv
      BY <2>1, UpdateIsLegal, Locals DEF JobOK, StoreInv
    <2>3. DOMAIN rows'[b] = DOMAIN rows[b] \cup {n} /\ \A c \in Books \ {b} : rows'[c] = rows[c]
      BY <2>1, <2>2, CommitIsSafe
    <2> QED
      BY <2>2, <2>3
  <1>5. CASE Move(p)
    <2> DEFINE b == job[p].book
               n == plan[p].mover
               e == Moved(p, rows[b][n])
    <2>1. pc[p] = "move" /\ Commit(p, b, n, e)
      BY <1>5 DEF Move, Moved
    <2>2. Legal(b, n, e) /\ TypeInv
      BY <2>1, MoveIsLegal DEF StoreInv
    <2>3. \A c \in Books \ {b} : rows'[c] = rows[c]
      BY <2>1, <2>2, CommitIsSafe
    <2>4. DOMAIN rows'[b] = DOMAIN rows[b]
      BY <1>5, MoveFacts
    <2> QED
      BY <2>3, <2>4
  <1> QED
    BY <1>1, <1>2, <1>3, <1>4, <1>5 DEF Acts, Step

(* A table that fits the LIMIT is seen whole. *)
LEMMA FitsIsSeenWhole ==
    ASSUME CalendarAssumption, NEW r \in Tables, NEW S \in SUBSET DOMAIN r, Cardinality(DOMAIN r) <= Limit
    PROVE  TopRows(r, S) = S
  <1>1. ASSUME NEW n \in S PROVE Cardinality({m \in S : Before(r, m, n)}) < Limit
    <2> DEFINE T == {m \in S : Before(r, m, n)}
    <2>1. IsFiniteSet(DOMAIN r) /\ Cardinality(DOMAIN r) \in Nat /\ T \in SUBSET DOMAIN r
      BY TableFacts
    <2>2. n \in DOMAIN r /\ n \in Nat /\ Text(r[n]) \in Int
      BY TableFacts, TextFacts
    <2>3. n \notin T
      BY <2>2 DEF Before
    <2>4. /\ IsFiniteSet(T) /\ Cardinality(T) <= Cardinality(DOMAIN r)
          /\ Cardinality(DOMAIN r) = Cardinality(T) => DOMAIN r = T
      BY <2>1, FS_Subset
    <2>5. Cardinality(T) \in Nat
      BY <2>4, FS_CardinalityType
    <2>6. Cardinality(T) # Cardinality(DOMAIN r)
      BY <2>2, <2>3, <2>4
    <2>7. Limit \in Nat
      BY DEF CalendarAssumption
    <2> HIDE DEF T
    <2>8. Cardinality(T) < Limit
      BY <2>1, <2>4, <2>5, <2>6, <2>7
    <2> QED
      BY <2>8 DEF T
  <1> QED
    BY <1>1 DEF TopRows

(* How the insertions under way change. *)
LEMMA PendingStep ==
    ASSUME CalendarAssumption, StoreInv, NEW p \in Procs, Acts(p), NEW b \in Books, NEW u \in Uids \ {NoUid}
    PROVE  \/ Pending(b, u)' \subseteq Pending(b, u) /\ (p \in Pending(b, u)' => UNCHANGED rows)
           \/ /\ UNCHANGED rows
              /\ Cardinality(DOMAIN rows[b]) <= Limit => Copies(b, u) = {}
  <1>1. ASSUME NEW q \in Pending(b, u)', q # p PROVE q \in Pending(b, u)
    <2>1. LocalOK(p) /\ q \in Procs \ {p}
      BY <1>1, ActsAreSafe DEF Pending, Importers
    <2>2. pc'[q] = pc[q] /\ job'[q] = job[q]
      BY <2>1 DEF LocalOK, Others
    <2>3. txn'[q] # "stale" => txn[q] # "stale"
      BY <2>1, StaleStaysStale
    <2> QED
      BY <1>1, <2>2, <2>3 DEF Pending
  <1>2. CASE p \in Pending(b, u)'
    <2>1. /\ p \in Importers /\ txn'[p] # "stale" /\ pc'[p] \in {"count", "insert"}
          /\ job'[p].book = b /\ Head(job'[p].todo).uid = u
      BY <1>2 DEF Pending
    <2>2. txn[p] # "stale"
      BY <2>1, StaleStaysStale
    <2>3. CASE /\ pc[p] \in {"count", "insert"} /\ UNCHANGED rows
               /\ job'[p].book = job[p].book /\ job'[p].todo = job[p].todo
      BY <1>1, <2>1, <2>2, <2>3 DEF Pending
    <2>4. CASE CheckUid(p) /\ Goto(p, "count") /\ UNCHANGED job
      <3> DEFINE r == rows[b]
      <3>1. UNCHANGED rows /\ Reads(p) = rows /\ job[p].book = b /\ Head(job[p].todo).uid = u
        BY <2>1, <2>2, <2>4 DEF CheckUid, Read, Reads
      <3>2. pc \in [Procs -> Labels] /\ job \in [Procs -> Jobs] /\ pc[p] = "uid" /\ r \in Tables
        BY <2>4 DEF CheckUid, StoreInv, TypeInv, StoreTypes
      <3>3. ~NextItem(p)
        BY <2>1, <3>2 DEF NextItem, Goto
      <3>4. ~(u # NoUid /\ \E n \in TopRows(r, DOMAIN r) : r[n].uid = u)
        BY <2>4, <3>1, <3>3 DEF CheckUid
      <3>5. ASSUME Cardinality(DOMAIN r) <= Limit PROVE Copies(b, u) = {}
        <4>1. TopRows(r, DOMAIN r) = DOMAIN r
          BY <3>2, <3>5, FitsIsSeenWhole
        <4> QED
          BY <3>4, <4>1 DEF Copies
      <3> QED
        BY <3>1, <3>5
    <2> QED
      BY <2>1, <2>3, <2>4, OnlyChecksJoin
  <1> QED
    BY <1>1, <1>2

LEMMA FiniteCounts ==
    ASSUME CalendarAssumption, StoreInv, NEW b \in Books, NEW u
    PROVE  /\ IsFiniteSet(Copies(b, u)) /\ IsFiniteSet(Pending(b, u)) /\ IsFiniteSet(Importers)
           /\ Pending(b, u) \subseteq Importers /\ Cardinality(Pending(b, u)) <= Cardinality(Importers)
           /\ Cardinality(Copies(b, u)) \in Nat /\ Cardinality(Pending(b, u)) \in Nat
           /\ Cardinality(Importers) \in Nat
  <1>1. IsFiniteSet(DOMAIN rows[b]) /\ Copies(b, u) \in SUBSET DOMAIN rows[b]
    BY TableFacts DEF StoreInv, TypeInv, StoreTypes, Copies
  <1>2. IsFiniteSet(Procs) /\ Importers \in SUBSET Procs /\ Pending(b, u) \in SUBSET Importers
    BY DEF CalendarAssumption, Importers, Pending
  <1>3. IsFiniteSet(Copies(b, u)) /\ IsFiniteSet(Importers)
    BY <1>1, <1>2, FS_Subset
  <1>4. IsFiniteSet(Pending(b, u)) /\ Cardinality(Pending(b, u)) <= Cardinality(Importers)
    BY <1>2, <1>3, FS_Subset
  <1> QED
    BY <1>2, <1>3, <1>4, FS_CardinalityType

LEMMA CopiesAreBackedStep ==
    ASSUME CalendarAssumption, UidInv, NEW p \in Procs, Acts(p)
    PROVE  CopiesAreBacked'
  <1> SUFFICES ASSUME NEW b \in Books, NEW u \in Uids \ {NoUid}, Cardinality(DOMAIN rows'[b]) <= Limit
               PROVE  Cardinality(Copies(b, u)') + Cardinality(Pending(b, u)') <= Cardinality(Importers)
    BY DEF CopiesAreBacked, Importers
  <1> DEFINE C == Copies(b, u)
             P == Pending(b, u)
             C2 == Copies(b, u)'
             P2 == Pending(b, u)'
  <1>0. StoreInv /\ ServersBringNone /\ [Next]_vars
    BY DEF UidInv, Acts, Next
  <1>1. StoreInv' /\ Evolved(rows[b], rows'[b]) /\ rows[b] \in Tables /\ rows'[b] \in Tables
    BY <1>0, StoreInvStep, StoreStep DEF StoreInv, TypeInv, StoreTypes
  <1>2. /\ IsFiniteSet(C) /\ IsFiniteSet(P) /\ Cardinality(C) \in Nat /\ Cardinality(P) \in Nat
        /\ Cardinality(Importers) \in Nat
    BY <1>0, FiniteCounts
  <1>3. /\ IsFiniteSet(C2) /\ Cardinality(C2) \in Nat /\ Cardinality(P2) \in Nat
        /\ Cardinality(P2) <= Cardinality(Importers)
    <2>1. IsFiniteSet(DOMAIN rows'[b]) /\ C2 \in SUBSET DOMAIN rows'[b]
      BY <1>1, TableFacts DEF Copies
    <2>2. IsFiniteSet(Importers) /\ P2 \in SUBSET Importers
      BY <1>0, FiniteCounts DEF Importers, Pending
    <2>3. IsFiniteSet(C2)
      BY <2>1, FS_Subset
    <2>4. IsFiniteSet(P2) /\ Cardinality(P2) <= Cardinality(Importers)
      BY <2>2, FS_Subset
    <2> QED
      BY <2>3, <2>4, FS_CardinalityType
  <1>4. Cardinality(C) + Cardinality(P) <= Cardinality(Importers)
    <2>1. DOMAIN rows[b] \in SUBSET DOMAIN rows'[b]
      BY <1>1 DEF Evolved
    <2>2. Cardinality(DOMAIN rows[b]) <= Cardinality(DOMAIN rows'[b])
      BY <1>1, <2>1, TableFacts, FS_Subset
    <2>3. Cardinality(DOMAIN rows[b]) <= Limit
      BY <1>1, <2>2, TableFacts DEF CalendarAssumption
    <2> QED
      BY <2>3 DEF UidInv, CopiesAreBacked
  <1>5. CASE UNCHANGED rows /\ (Cardinality(DOMAIN rows[b]) <= Limit => Copies(b, u) = {})
    <2>1. C2 = {}
      BY <1>5 DEF Copies
    <2> QED
      BY <1>3, <2>1, FS_EmptySet
  <1>6. CASE P2 \subseteq P /\ (p \in P2 => UNCHANGED rows)
    <2>1. Cardinality(P2) <= Cardinality(P)
      BY <1>2, <1>6, FS_Subset
    <2>2. CASE \A c \in Books : DOMAIN rows'[c] = DOMAIN rows[c]
      <3>1. C2 = C
        BY <1>1, <2>2 DEF Copies, Evolved, Evolves
      <3> QED
        BY <1>2, <1>3, <1>4, <2>1, <3>1
    <2>3. CASE Inserts(p)
      <3> DEFINE n == job[p].id
                 e == Head(job[p].todo)
      <3>1. pc[p] = "insert" /\ txn[p] # "stale" /\ Commit(p, job[p].book, n, e) /\ n \notin DOMAIN rows[job[p].book]
        BY <2>3 DEF Inserts, MayWrite
      <3>2. Legal(job[p].book, n, e) /\ TypeInv
        BY <1>0, <3>1, InsertIsLegal DEF StoreInv
      <3>3. /\ rows'[job[p].book][n] = e /\ DOMAIN rows'[job[p].book] = DOMAIN rows[job[p].book] \cup {n}
            /\ \A m \in DOMAIN rows[job[p].book] \ {n} : rows'[job[p].book][m] = rows[job[p].book][m]
            /\ \A c \in Books \ {job[p].book} : rows'[c] = rows[c]
        BY <3>1, <3>2, CommitIsSafe
      <3>4. CASE b # job[p].book \/ e.uid # u
        <4>1. C2 = C
          BY <3>1, <3>3, <3>4 DEF Copies
        <4> QED
          BY <1>2, <1>3, <1>4, <2>1, <4>1
      <3>5. CASE b = job[p].book /\ e.uid = u
        <4>1. C2 = C \cup {n} /\ n \notin C
          BY <3>1, <3>3, <3>5 DEF Copies
        <4>2. Cardinality(C2) = Cardinality(C) + 1
          BY <1>2, <4>1, FS_AddElement
        <4>3. p \in P
          BY <1>0, <3>1, <3>5 DEF Pending, Importers, ServersBringNone
        <4>4. p \notin P2
          BY <1>6, <3>1, <3>3, <3>5
        <4>5. P2 \in SUBSET (P \ {p})
          BY <1>6, <4>4
        <4>6. IsFiniteSet(P \ {p}) /\ Cardinality(P \ {p}) = Cardinality(P) - 1
          BY <1>2, <4>3, FS_RemoveElement
        <4>7. Cardinality(P2) <= Cardinality(P) - 1
          BY <4>5, <4>6, FS_Subset
        <4> QED
          BY <1>2, <1>3, <1>4, <4>2, <4>7
      <3> QED
        BY <3>4, <3>5
    <2> QED
      BY <1>0, <2>2, <2>3, OnlyInsertsGrow
  <1> QED
    BY <1>0, <1>5, <1>6, PendingStep

LEMMA UidInvStep == CalendarAssumption /\ UidInv /\ [Next]_vars => UidInv'
  <1> SUFFICES ASSUME CalendarAssumption, UidInv, [Next]_vars PROVE UidInv'
    OBVIOUS
  <1>1. StoreInv'
    BY StoreInvStep DEF UidInv
  <1>2. CASE Next
    <2>1. PICK p \in Procs : Acts(p)
      BY <1>2 DEF Next, Acts
    <2> QED
      BY <1>1, <2>1, ServersStep, CopiesAreBackedStep DEF UidInv
  <1>3. CASE UNCHANGED vars
    <2>1. ServersBringNone'
      BY <1>3 DEF vars, UidInv, ServersBringNone
    <2>2. \A b \in Books, u \in Uids : Copies(b, u)' = Copies(b, u) /\ Pending(b, u)' = Pending(b, u)
      BY <1>3 DEF vars, Copies, Pending, Importers
    <2>3. CopiesAreBacked'
      BY <1>3, <2>2 DEF vars, UidInv, CopiesAreBacked, Importers
    <2> QED
      BY <1>1, <2>1, <2>3 DEF UidInv
  <1> QED
    BY <1>2, <1>3

LEMMA UidInvInit == CalendarAssumption /\ Init => UidInv
  <1> SUFFICES ASSUME CalendarAssumption, Init PROVE UidInv
    OBVIOUS
  <1>1. StoreInv
    BY StoreInvInit
  <1>2. ServersBringNone
    BY DEF Init, NoJob, ServersBringNone, CalendarAssumption
  <1>3. ASSUME NEW b \in Books, NEW u \in Uids \ {NoUid}
        PROVE  Cardinality(Copies(b, u)) + Cardinality(Pending(b, u)) <= Cardinality(Importers)
    <2>1. Pending(b, u) = {} /\ Cardinality(Pending(b, u)) = 0
      BY FS_EmptySet DEF Init, Pending, Importers
    <2>2. Cardinality(Copies(b, u)) <= Cardinality(Importers)
      <3>1. CASE Copies(b, u) = {}
        <4>1. Cardinality(Copies(b, u)) = 0
          BY <3>1, FS_EmptySet
        <4>2. Cardinality(Importers) \in Nat
          BY <1>1, FiniteCounts
        <4> QED
          BY <4>1, <4>2
      <3>2. CASE Copies(b, u) # {}
        <4>1. PICK n \in DOMAIN rows[b] : rows[b][n].uid = u
          BY <3>2 DEF Copies
        <4>2. rows[b] \in Starting
          BY <4>1, EmptyTable DEF Init
        <4>3. Cardinality({m \in DOMAIN rows[b] : rows[b][m].uid = rows[b][n].uid}) <= Cardinality(Procs \ Servers)
          BY <4>1, <4>2 DEF CalendarAssumption
        <4> QED
          BY <4>1, <4>3 DEF Copies, Importers
      <3> QED
        BY <3>1, <3>2
    <2>3. Cardinality(Copies(b, u)) \in Nat /\ Cardinality(Importers) \in Nat
      BY <1>1, FiniteCounts
    <2> QED
      BY <2>1, <2>2, <2>3
  <1> QED
    BY <1>1, <1>2, <1>3 DEF UidInv, CopiesAreBacked

(* However many redeliveries follow and however they interleave, no more   *)
(* copies of one invitation are stored than there are importing processes, *)
(* as long as the calendar fits the LIMIT of the query that looks for it.  *)
THEOREM CopiesAreFew == Spec => []UidOncePerImporter
  <1>1. CalendarAssumption /\ UidInv => UidOncePerImporter
    <2> SUFFICES ASSUME CalendarAssumption, UidInv, NEW b \in Calendars, NEW n \in DOMAIN rows[b],
                        rows[b][n].uid # NoUid, Cardinality(DOMAIN rows[b]) <= Limit
                 PROVE  Cardinality({m \in DOMAIN rows[b] : rows[b][m].uid = rows[b][n].uid}) <= Cardinality(Importers)
      BY DEF UidOncePerImporter, Importers
    <2> DEFINE u == rows[b][n].uid
    <2>1. b \in Books /\ rows[b][n] \in Entry /\ StoreInv
      BY TableFacts DEF Books, UidInv, StoreInv, TypeInv, StoreTypes
    <2>2. u \in Uids \ {NoUid}
      BY <2>1 DEF Entry
    <2>3. Cardinality(Copies(b, u)) + Cardinality(Pending(b, u)) <= Cardinality(Importers)
      BY <2>1, <2>2 DEF UidInv, CopiesAreBacked
    <2>c. /\ Cardinality(Copies(b, u)) \in Nat /\ Cardinality(Pending(b, u)) \in Nat
          /\ Cardinality(Importers) \in Nat
      BY <2>1, FiniteCounts
    <2>4. Cardinality(Copies(b, u)) <= Cardinality(Importers)
      BY <2>3, <2>c
    <2> QED
      BY <2>4 DEF Copies
  <1> QED
    BY <1>1, CalendarAssumption, UidInvInit, UidInvStep, PTL DEF Spec

-----------------------------------------------------------------------------
(***************************************************************************)
(* Resolutions.  What nobody else wrote since the snapshot, the plan has   *)
(* as the store has it (Mirror); every conflict of the store is known,     *)
(* still to come or in hand (AllSeen); a slot that was found free is free  *)
(* until the snapshot goes stale (SlotFree) and begins after the row that  *)
(* stays (AfterStay).  Undisturbed, each push has passed another row       *)
(* (PushesCounted), so the scan gives up only behind that many.            *)
(***************************************************************************)
Book(p) == rows[job[p].book]
Fits(p) == Cardinality(DOMAIN Book(p)) <= Limit
Pair(x) == {x[1], x[2]}
InHand(p) == {plan[p].mover, plan[p].stay}
Mirror(p) ==
    plan[p].on => \A n \in DOMAIN Book(p) \ touched[p] : n \in DOMAIN plan[p].map /\ plan[p].map[n] = Book(p)[n]
Undisturbed(p) == plan[p].on /\ touched[p] = {} => Reads(p)[job[p].book] = Book(p)
Awaits(p, x) ==
    \/ pc[p] # "done" /\ x \in plan[p].todo
    \/ pc[p] \in {"scan", "move"} /\ Pair(x) = InHand(p)
Seen(p, x) ==
    Pair(x) \cap touched[p] # {} \/ x \in plan[p].unresolved \/ Pair(x) \in plan[p].gaveUp \/ Awaits(p, x)
AllSeen(p) == plan[p].on /\ job[p].answer = "ok" /\ Fits(p) => \A x \in Conflicts(Book(p)) : Seen(p, x)
SlotFree(p) ==
    pc[p] = "move" /\ txn[p] # "stale" /\ Fits(p) =>
        \A n \in Upcoming(Book(p)) \ (InHand(p) \cup touched[p]) :
            ~Overlap(plan[p].at, Slot(p), Book(p)[n].start, End(Book(p)[n]))
AfterStay(p) == pc[p] \in {"scan", "move"} => plan[p].at >= After(plan[p].map[plan[p].stay])
PassedBy(p, at) ==
    {n \in Upcoming(Book(p)) \ InHand(p) :
        After(plan[p].map[plan[p].stay]) < End(Book(p)[n]) /\ End(Book(p)[n]) <= at}
PushesCounted(p) ==
    pc[p] = "scan" /\ touched[p] = {} => plan[p].tries <= Cardinality(PassedBy(p, plan[p].at))
ResolveOK(p) == Mirror(p) /\ Undisturbed(p) /\ AllSeen(p) /\ SlotFree(p) /\ AfterStay(p) /\ PushesCounted(p)
ResolveInv == StoreInv /\ \A p \in Procs : ResolveOK(p)

(* Without the LIMIT the rules look at each row for itself. *)
IsUpcoming(e) == e.status = "confirmed" /\ Wall(e) \in 1 .. Horizon
LEMMA UpcomingWhenFits ==
    ASSUME CalendarAssumption, NEW r \in Tables, Cardinality(DOMAIN r) <= Limit
    PROVE  Upcoming(r) = {n \in DOMAIN r : IsUpcoming(r[n])}
  <1> DEFINE S == {n \in DOMAIN r : IsUpcoming(r[n])}
  <1>1. S \in SUBSET DOMAIN r
    OBVIOUS
  <1>2. TopRows(r, S) = S
    BY <1>1, FitsIsSeenWhole
  <1> QED
    BY <1>2 DEF Upcoming, IsUpcoming

LEMMA SameRowsConflict ==
    ASSUME CalendarAssumption, NEW r \in Tables, NEW s \in Tables,
           Cardinality(DOMAIN r) <= Limit, Cardinality(DOMAIN s) <= Limit,
           NEW x \in Conflicts(s), x[1] \in DOMAIN r, x[2] \in DOMAIN r, r[x[1]] = s[x[1]], r[x[2]] = s[x[2]]
    PROVE  x \in Conflicts(r)
  <1>1. Upcoming(r) = {n \in DOMAIN r : IsUpcoming(r[n])} /\ Upcoming(s) = {n \in DOMAIN s : IsUpcoming(s[n])}
    BY UpcomingWhenFits
  <1>2. x = <<x[1], x[2]>> /\ x[1] \in Upcoming(s) /\ x[2] \in Upcoming(s)
    BY ConflictFacts
  <1>3. x[1] \in Upcoming(r) /\ x[2] \in Upcoming(r)
    BY <1>1, <1>2
  <1>4. Before(s, x[1], x[2]) /\ Overlap(s[x[1]].start, End(s[x[1]]), s[x[2]].start, End(s[x[2]]))
    BY DEF Conflicts
  <1>5. Before(r, x[1], x[2]) /\ Overlap(r[x[1]].start, End(r[x[1]]), r[x[2]].start, End(r[x[2]]))
    BY <1>4 DEF Before
  <1> DEFINE U == Upcoming(r)
  <1>6. x \in U \X U
    <2> HIDE DEF U
    <2> QED
      BY <1>2, <1>3 DEF U
  <1> QED
    BY <1>5, <1>6 DEF Conflicts

LEMMA SubtableFits ==
    ASSUME CalendarAssumption, NEW r \in Tables, NEW s \in Tables, DOMAIN r \subseteq DOMAIN s,
           Cardinality(DOMAIN s) <= Limit
    PROVE  Cardinality(DOMAIN r) <= Limit
  <1>1. IsFiniteSet(DOMAIN s) /\ Cardinality(DOMAIN s) \in Nat /\ Cardinality(DOMAIN r) \in Nat
    BY TableFacts
  <1>2. Cardinality(DOMAIN r) <= Cardinality(DOMAIN s)
    BY <1>1, FS_Subset
  <1> QED
    BY <1>1, <1>2 DEF CalendarAssumption

(* Overlapping rows also overlap for the resolution, which never takes a   *)
(* row for shorter than it is.                                             *)
LEMMA ConflictStillOverlaps ==
    ASSUME CalendarAssumption, NEW r \in Tables, NEW m \in DOMAIN r, NEW n \in DOMAIN r,
           Overlap(r[m].start, End(r[m]), r[n].start, End(r[n]))
    PROVE  StillOverlap(r, m, n)
  <1>1. r[m] \in Entry /\ r[n] \in Entry
    BY TableFacts
  <1>2. r[m].start \in Int /\ r[n].start \in Int
    BY <1>1 DEF Entry
  <1>3. /\ Duration(r[m]) \in Int /\ End(r[m]) \in Int /\ r[m].start + Duration(r[m]) >= End(r[m])
        /\ Duration(r[n]) \in Int /\ End(r[n]) \in Int /\ r[n].start + Duration(r[n]) >= End(r[n])
    BY <1>1, DurationIsPositive
  <1> QED
    BY <1>2, <1>3 DEF StillOverlap, Overlap

(* A resolution that is not under way promises nothing. *)
LEMMA NothingNextToResolve ==
    ASSUME NEW p \in Procs, PlanOK(p)', ~plan'[p].on
    PROVE  ResolveOK(p)'
  BY DEF PlanOK, ResolveOK, Mirror, Undisturbed, AllSeen, SlotFree, AfterStay, PushesCounted

(* A step of p commits a legal write, or leaves alone what the others have. *)
Spares(p) ==
    UNCHANGED rows /\ \A q \in Procs \ {p} : txn'[q] = txn[q] /\ view'[q] = view[q] /\ touched'[q] = touched[q]
LEMMA CommitsOrNot ==
    ASSUME CalendarAssumption, StoreInv, NEW p \in Procs, Acts(p)
    PROVE  Spares(p) \/ \E b, n, e : Legal(b, n, e) /\ Commit(p, b, n, e)
  <1>0. /\ txn \in [Procs -> Transactions] /\ view \in [Procs -> [Books -> Tables]]
        /\ touched \in [Procs -> SUBSET Nat]
    BY DEF StoreInv, TypeInv, StoreTypes
  <1>a. ASSUME Read(p), UNCHANGED touched PROVE Spares(p)
    BY <1>0, <1>a DEF Read, Spares
  <1>b. ASSUME UNCHANGED <<rows, txn, view, touched>> PROVE Spares(p)
    BY <1>b DEF Spares
  <1>c. ASSUME Reset(p), Close(p) \/ UNCHANGED <<txn, view>> PROVE Spares(p)
    <2>1. UNCHANGED rows /\ touched' = [touched EXCEPT ![p] = {}]
      BY <1>c DEF Reset
    <2>2. CASE UNCHANGED <<txn, view>>
      BY <1>0, <2>1, <2>2 DEF Spares
    <2>3. CASE Close(p)
      BY <1>0, <2>1, <2>3 DEF Spares, Close
    <2> QED
      BY <1>c, <2>2, <2>3
  <1>1. CASE Start(p)
    BY <1>a, <1>b, <1>1 DEF Start, Schedule, SetTimerAlarm, NominateMilestone, Import, CancelEvent, ResolveConflicts,
                            GetTemporalContext, Call
  <1>2. CASE CheckUid(p) \/ NextId(p) \/ FindEvent(p) \/ CheckConflicts(p)
    BY <1>a, <1>2 DEF CheckUid, NextId, FindEvent, CheckConflicts
  <1>3. CASE Scan(p)
    BY Zenon, <1>a, <1>3 DEF Scan
  <1>4. CASE NextPair(p)
    BY Zenon, <1>b, <1>4 DEF NextPair
  <1>5. CASE Snapshot(p)
    <2>1. Read(p) /\ (UNCHANGED touched \/ \E T : touched' = [touched EXCEPT ![p] = T])
      BY <1>5 DEF Snapshot
    <2> QED
      BY <1>0, <2>1 DEF Read, Spares
  <1>6. CASE Locked(p)
    BY <1>0, <1>6 DEF Locked, Spares
  <1>7. CASE Insert(p)
    <2>1. \/ txn' = [txn EXCEPT ![p] = "write"] /\ UNCHANGED <<rows, view, touched>>
          \/ job[p].id \notin DOMAIN rows[job[p].book] /\ Commit(p, job[p].book, job[p].id, Head(job[p].todo))
      BY <1>7 DEF Insert
    <2>2. CASE txn' = [txn EXCEPT ![p] = "write"] /\ UNCHANGED <<rows, view, touched>>
      BY <1>0, <2>2 DEF Spares
    <2>3. pc[p] = "insert"
      BY <1>7 DEF Insert
    <2> QED
      BY <2>1, <2>2, <2>3, InsertIsLegal
  <1>8. CASE UpdateStatus(p)
    BY <1>8, UpdateIsLegal DEF UpdateStatus
  <1>9. CASE Move(p)
    BY <1>9, MoveFacts
  <1>10. CASE Done(p) \/ Crash(p)
    BY <1>c, <1>10 DEF Done, Crash
  <1> QED
    BY <1>1, <1>2, <1>3, <1>4, <1>5, <1>6, <1>7, <1>8, <1>9, <1>10 DEF Acts, Step

(* What a step of p leaves of what q knows: the rows q has not been told   *)
(* of are the ones others wrote.                                           *)
LEMMA OthersWrite ==
    ASSUME CalendarAssumption, StoreInv, NEW p \in Procs, Acts(p), NEW q \in Procs \ {p}, plan[q].on
    PROVE  /\ touched[q] \subseteq touched'[q]
           /\ Book(q) \in Tables /\ Book(q)' \in Tables /\ DOMAIN Book(q) \subseteq DOMAIN Book(q)'
           /\ \A n \in DOMAIN Book(q)' \ touched'[q] : n \in DOMAIN Book(q) /\ Book(q)'[n] = Book(q)[n]
           /\ touched'[q] = {} => /\ Book(q)' = Book(q)
                                  /\ \/ Reads(q)'[job'[q].book] = Reads(q)[job[q].book]
                                     \/ Reads(q)'[job'[q].book] = Book(q)
  <1> DEFINE b == job[q].book
  <1>0. /\ pc'[q] = pc[q] /\ job'[q] = job[q] /\ plan'[q] = plan[q]
        /\ b \in Books /\ q # p /\ TypeInv
    BY ActsAreSafe, Locals DEF LocalOK, Others, PlanOK, JobOK, StoreInv
  <1>1. /\ rows[b] \in Tables /\ rows'[b] \in Tables /\ DOMAIN rows[b] \subseteq DOMAIN rows'[b]
    BY <1>0, StoreStep DEF StoreTypes, StoreInv, TypeInv, Evolved
  <1>2. Book(q) = rows[b] /\ Book(q)' = rows'[b] /\ job'[q].book = b
    BY <1>0 DEF Book
  <1>3. CASE Spares(p)
    BY <1>0, <1>1, <1>2, <1>3 DEF Reads, Spares
  <1>4. ASSUME NEW c, NEW n, NEW e, Commit(p, c, n, e), Legal(c, n, e)
        PROVE  /\ touched[q] \subseteq touched'[q]
               /\ \A m \in DOMAIN rows'[b] \ touched'[q] : m \in DOMAIN rows[b] /\ rows'[b][m] = rows[b][m]
               /\ touched'[q] = {} =>
                      rows'[b] = rows[b] /\ (Reads(q)'[b] = Reads(q)[b] \/ Reads(q)'[b] = rows[b])
    <2>1. /\ DOMAIN rows'[c] = DOMAIN rows[c] \cup {n} /\ \A m \in DOMAIN rows[c] \ {n} : rows'[c][m] = rows[c][m]
          /\ \A d \in Books \ {c} : rows'[d] = rows[d]
      BY <1>0, <1>4, CommitIsSafe
    <2>2. touched'[q] = IF b = c THEN touched[q] \cup {n} ELSE touched[q]
      BY <1>0, <1>4 DEF Commit
    <2>3. txn'[q] = (IF txn[q] = "read" THEN "stale" ELSE txn[q]) /\ view'[q] = (IF txn[q] = "read" THEN rows ELSE view[q])
      BY <1>0, <1>4 DEF Commit
    <2>4. CASE b = c
      BY <2>1, <2>2, <2>4
    <2>5. CASE b # c
      <3>1. rows'[b] = rows[b]
        BY <1>0, <2>1, <2>5
      <3> QED
        BY <2>2, <2>3, <2>5, <3>1 DEF Reads
    <2> QED
      BY <2>4, <2>5
  <1>5. CASE \E c, n, e : Legal(c, n, e) /\ Commit(p, c, n, e)
    <2>1. PICK c, n, e : Legal(c, n, e) /\ Commit(p, c, n, e)
      BY <1>5
    <2>2. /\ touched[q] \subseteq touched'[q]
          /\ \A m \in DOMAIN rows'[b] \ touched'[q] : m \in DOMAIN rows[b] /\ rows'[b][m] = rows[b][m]
          /\ touched'[q] = {} => rows'[b] = rows[b] /\ (Reads(q)'[b] = Reads(q)[b] \/ Reads(q)'[b] = rows[b])
      BY <1>4, <2>1
    <2> QED
      BY <1>1, <1>2, <2>2
  <1> QED
    BY <1>3, <1>5, CommitsOrNot

(* What q knows stays true of what the others did not write. *)
LEMMA OthersStayResolved ==
    ASSUME CalendarAssumption, ResolveInv, StoreInv', NEW p \in Procs, Acts(p), NEW q \in Procs \ {p}
    PROVE  ResolveOK(q)'
  <1>0. /\ StoreInv /\ ResolveOK(q) /\ PlanOK(q)'
    BY DEF ResolveInv, StoreInv, ProcOK
  <1>1. /\ pc'[q] = pc[q] /\ job'[q] = job[q] /\ plan'[q] = plan[q]
    BY <1>0, ActsAreSafe DEF LocalOK, Others
  <1>2. CASE ~plan[q].on
    BY <1>0, <1>1, <1>2, NothingNextToResolve
  <1>3. CASE plan[q].on
    <2>1. /\ touched[q] \subseteq touched'[q]
          /\ Book(q) \in Tables /\ Book(q)' \in Tables /\ DOMAIN Book(q) \subseteq DOMAIN Book(q)'
          /\ \A n \in DOMAIN Book(q)' \ touched'[q] : n \in DOMAIN Book(q) /\ Book(q)'[n] = Book(q)[n]
          /\ touched'[q] = {} => /\ Book(q)' = Book(q)
                                 /\ \/ Reads(q)'[job'[q].book] = Reads(q)[job[q].book]
                                    \/ Reads(q)'[job'[q].book] = Book(q)
      BY <1>0, <1>3, OthersWrite
    <2>2. touched'[q] = {} => touched[q] = {}
      BY <2>1
    <2>3. Fits(q)' => Fits(q)
      <3>1. ASSUME Cardinality(DOMAIN Book(q)') <= Limit PROVE Cardinality(DOMAIN Book(q)) <= Limit
        BY <2>1, <3>1, SubtableFits
      <3> QED
        BY <3>1 DEF Fits
    <2>4. Mirror(q)'
      <3>1. \A n \in DOMAIN Book(q)' \ touched'[q] : n \in DOMAIN plan'[q].map /\ plan'[q].map[n] = Book(q)'[n]
        BY <1>0, <1>1, <1>3, <2>1 DEF ResolveOK, Mirror
      <3> QED
        BY <3>1 DEF Mirror
    <2>5. Undisturbed(q)'
      BY <1>0, <1>1, <1>3, <2>1, <2>2 DEF ResolveOK, Undisturbed
    <2>6. AllSeen(q)'
      <3> SUFFICES ASSUME job'[q].answer = "ok", Fits(q)', NEW x \in Conflicts(Book(q)'), Pair(x) \cap touched'[q] = {}
                   PROVE  Seen(q, x)'
        BY DEF AllSeen, Seen
      <3>1. x[1] \in DOMAIN Book(q)' /\ x[2] \in DOMAIN Book(q)' /\ x[1] \notin touched'[q] /\ x[2] \notin touched'[q]
        BY <2>1, ConflictFacts DEF Pair
      <3>2. /\ x[1] \in DOMAIN Book(q) /\ Book(q)[x[1]] = Book(q)'[x[1]]
            /\ x[2] \in DOMAIN Book(q) /\ Book(q)[x[2]] = Book(q)'[x[2]]
        BY <2>1, <3>1
      <3>3. Cardinality(DOMAIN Book(q)) <= Limit /\ Cardinality(DOMAIN Book(q)') <= Limit
        BY <2>3 DEF Fits
      <3>4. x \in Conflicts(Book(q))
        BY <2>1, <3>2, <3>3, SameRowsConflict
      <3>5. Seen(q, x)
        BY <1>0, <1>1, <1>3, <2>3, <3>4 DEF ResolveOK, AllSeen
      <3> QED
        BY <1>1, <2>1, <3>5 DEF Seen, Awaits, InHand
    <2>7. SlotFree(q)'
      <3> SUFFICES ASSUME pc'[q] = "move", txn'[q] # "stale", Fits(q)',
                          NEW n \in Upcoming(Book(q)') \ (InHand(q)' \cup touched'[q])
                   PROVE  ~Overlap(plan'[q].at, Slot(q)', Book(q)'[n].start, End(Book(q)'[n]))
        BY DEF SlotFree
      <3>1. txn[q] # "stale"
        BY <1>0, StaleStaysStale
      <3>2. Cardinality(DOMAIN Book(q)) <= Limit /\ Cardinality(DOMAIN Book(q)') <= Limit /\ Fits(q)
        BY <2>3 DEF Fits
      <3>3. n \in DOMAIN Book(q)' /\ IsUpcoming(Book(q)'[n])
        BY <2>1, <3>2, UpcomingWhenFits
      <3>4. n \in DOMAIN Book(q) /\ Book(q)'[n] = Book(q)[n] /\ n \notin InHand(q) \cup touched[q]
        BY <1>1, <2>1, <3>3 DEF InHand
      <3>5. n \in Upcoming(Book(q))
        BY <2>1, <3>2, <3>3, <3>4, UpcomingWhenFits
      <3>6. ~Overlap(plan[q].at, Slot(q), Book(q)[n].start, End(Book(q)[n]))
        BY <1>0, <1>1, <3>1, <3>2, <3>4, <3>5 DEF ResolveOK, SlotFree
      <3> QED
        BY <1>1, <3>4, <3>6 DEF Slot
    <2>8. AfterStay(q)'
      BY <1>0, <1>1 DEF ResolveOK, AfterStay
    <2>9. PushesCounted(q)'
      <3>1. touched'[q] = {} => PassedBy(q, plan[q].at)' = PassedBy(q, plan[q].at)
        BY <1>1, <2>1 DEF PassedBy, InHand
      <3> QED
        BY <1>0, <1>1, <2>2, <3>1 DEF ResolveOK, PushesCounted
    <2> QED
      BY <2>4, <2>5, <2>6, <2>7, <2>8, <2>9 DEF ResolveOK
  <1> QED
    BY <1>2, <1>3

(* What the steps of a resolution change of its plan. *)
SameButTodo(l, k) == /\ k.on = l.on /\ k.map = l.map /\ k.gaveUp = l.gaveUp
LEMMA SkippedFields ==
    ASSUME NEW p, plan[p] \in Plans
    PROVE  /\ SameButTodo(plan[p], Skipped(p)) /\ Skipped(p).todo = plan[p].todo \ {Turn(p)}
           /\ Skipped(p).unresolved = plan[p].unresolved /\ Skipped(p) \in Plans
  <1> DEFINE T == plan[p].todo \ {Turn(p)}
  <1>1. Skipped(p) = [plan[p] EXCEPT !.todo = T] /\ T \in SUBSET (Nat \X Nat)
    BY DEF Skipped, Plans
  <1>2. Skipped(p).todo = T
    <2> HIDE DEF T
    <2> QED
      BY <1>1 DEF Plans
  <1> HIDE DEF T
  <1>3. Skipped(p) \in Plans
    BY <1>1 DEF Plans
  <1>4. SameButTodo(plan[p], Skipped(p)) /\ Skipped(p).unresolved = plan[p].unresolved
    BY <1>1 DEF Plans, SameButTodo
  <1> QED
    BY <1>2, <1>3, <1>4 DEF T

LEMMA GivenUpFields ==
    ASSUME NEW p, plan[p] \in Plans
    PROVE  /\ SameButTodo(plan[p], GivenUp(p)) /\ GivenUp(p).todo = plan[p].todo \ {Turn(p)}
           /\ GivenUp(p).unresolved = plan[p].unresolved \cup {Turn(p)}
  <1> DEFINE S == Skipped(p)
             U == S.unresolved \cup {Turn(p)}
  <1>1. SameButTodo(plan[p], S) /\ S.todo = plan[p].todo \ {Turn(p)} /\ S.unresolved = plan[p].unresolved
        /\ S \in Plans
    BY SkippedFields
  <1>2. GivenUp(p) = [S EXCEPT !.unresolved = U]
    BY DEF GivenUp
  <1> HIDE DEF S, U
  <1>3. SameButTodo(S, GivenUp(p)) /\ GivenUp(p).todo = S.todo
    BY <1>1, <1>2 DEF Plans, SameButTodo
  <1>4. GivenUp(p).unresolved = U
    BY <1>1, <1>2 DEF Plans
  <1> QED
    BY <1>1, <1>3, <1>4 DEF SameButTodo, S, U

LEMMA PushedFields ==
    ASSUME NEW p, plan[p] \in Plans
    PROVE  /\ SameButTodo(plan[p], Pushed(p)) /\ Pushed(p).todo = plan[p].todo \ {Turn(p)}
           /\ Pushed(p).unresolved = plan[p].unresolved
           /\ Pushed(p).mover = Mover(p) /\ Pushed(p).stay = Stay(p) /\ Pushed(p).tries = 0
           /\ Pushed(p).at = After(plan[p].map[Stay(p)])
  <1> DEFINE S == Skipped(p)
             at == After(plan[p].map[Stay(p)])
             ahead == plan[p].map[Stay(p)].ahead
  <1>1. SameButTodo(plan[p], S) /\ S.todo = plan[p].todo \ {Turn(p)} /\ S.unresolved = plan[p].unresolved
        /\ S \in Plans
    BY SkippedFields
  <1>2. Pushed(p) = [S EXCEPT !.mover = Mover(p), !.stay = Stay(p), !.tries = 0, !.at = at, !.ahead = ahead]
    BY DEF Pushed, Pushing
  <1> HIDE DEF S, at, ahead
  <1>3. SameButTodo(S, Pushed(p)) /\ Pushed(p).todo = S.todo /\ Pushed(p).unresolved = S.unresolved
    BY <1>1, <1>2 DEF Plans, SameButTodo
  <1>4. Pushed(p).mover = Mover(p) /\ Pushed(p).stay = Stay(p)
    BY <1>1, <1>2 DEF Plans
  <1>5. Pushed(p).tries = 0 /\ Pushed(p).at = at
    BY <1>1, <1>2 DEF Plans
  <1> QED
    BY <1>1, <1>3, <1>4, <1>5 DEF SameButTodo, S, at

SameButScan(l, k) ==
    /\ k.on = l.on /\ k.map = l.map /\ k.todo = l.todo /\ k.unresolved = l.unresolved
    /\ k.mover = l.mover /\ k.stay = l.stay
LEMMA LaterFields ==
    ASSUME NEW p, plan[p] \in Plans
    PROVE  /\ SameButScan(plan[p], Later(p)) /\ Later(p).gaveUp = plan[p].gaveUp
           /\ Later(p).at = Table(p)[Hit(p)].end /\ Later(p).tries = plan[p].tries + 1
  <1> DEFINE l == plan[p]
             at == Table(p)[Hit(p)].end
             ahead == Table(p)[Hit(p)].ahead
             t == l.tries + 1
  <1>1. Later(p) = [l EXCEPT !.at = at, !.ahead = ahead, !.tries = t] /\ l \in Plans
    BY DEF Later
  <1> HIDE DEF l, at, ahead, t
  <1>2. SameButScan(l, Later(p)) /\ Later(p).gaveUp = l.gaveUp
    BY <1>1 DEF Plans, SameButScan
  <1>3. Later(p).at = at /\ Later(p).tries = t
    BY <1>1 DEF Plans
  <1> QED
    BY <1>2, <1>3 DEF l, at, t

LEMMA DroppedFields ==
    ASSUME NEW p, plan[p] \in Plans
    PROVE  SameButScan(plan[p], Dropped(p)) /\ Dropped(p).gaveUp = plan[p].gaveUp \cup {InHand(p)}
  <1> DEFINE l == plan[p]
             U == l.gaveUp \cup {InHand(p)}
  <1>1. Dropped(p) = [l EXCEPT !.gaveUp = U] /\ l \in Plans
    BY DEF Dropped, InHand
  <1> HIDE DEF l, U
  <1>2. SameButScan(l, Dropped(p)) /\ Dropped(p).gaveUp = U
    BY <1>1 DEF Plans, SameButScan
  <1> QED
    BY <1>2 DEF l, U

(* A step that leaves the tables and the plan's copy leaves what is known  *)
(* of them.                                                                *)
LEMMA QuietKeepsMirror ==
    ASSUME NEW p \in Procs, ResolveOK(p), UNCHANGED <<rows, view, touched>>, job'[p].book = job[p].book,
           txn'[p] = "stale" <=> txn[p] = "stale", plan'[p].on = plan[p].on, plan'[p].map = plan[p].map
    PROVE  Mirror(p)' /\ Undisturbed(p)' /\ Book(p)' = Book(p) /\ (Fits(p)' <=> Fits(p))
  <1>1. Book(p)' = Book(p)
    BY DEF Book
  <1>2. Reads(p)' = Reads(p)
    BY DEF Reads
  <1>3. Mirror(p)'
    BY <1>1 DEF ResolveOK, Mirror
  <1>4. Undisturbed(p)'
    BY <1>1, <1>2 DEF ResolveOK, Undisturbed
  <1> QED
    BY <1>1, <1>3, <1>4 DEF Fits

LEMMA ReadKeepsStale ==
    ASSUME StoreInv, NEW p \in Procs, Read(p)
    PROVE  UNCHANGED <<rows, view>> /\ (txn'[p] = "stale" <=> txn[p] = "stale")
  BY DEF Read, StoreInv, TypeInv

(* A resolution that fails has nothing to answer for; a step that fails    *)
(* leaves what it knew.                                                    *)
LEMMA FailStaysResolved ==
    ASSUME CalendarAssumption, ResolveInv, NEW p \in Procs, pc[p] \in {"scan", "move"}, Fail(p),
           UNCHANGED <<rows, view, touched, plan>>, txn'[p] = "stale" <=> txn[p] = "stale"
    PROVE  ResolveOK(p)'
  <1>0. StoreInv /\ ResolveOK(p)
    BY DEF ResolveInv
  <1>1. job[p].op # "import" /\ job[p] \in Jobs /\ pc \in [Procs -> Labels] /\ job \in [Procs -> Jobs]
    BY <1>0, Locals DEF JobOK
  <1>2. job' = [job EXCEPT ![p].answer = "error"] /\ pc'[p] = "done"
    BY <1>1 DEF Fail, Goto
  <1>3. job'[p] = [job[p] EXCEPT !.answer = "error"]
    BY <1>1, <1>2
  <1>4. job'[p].book = job[p].book /\ job'[p].answer = "error"
    BY <1>1, <1>3 DEF Jobs
  <1>5. Mirror(p)' /\ Undisturbed(p)'
    BY <1>0, <1>4, QuietKeepsMirror
  <1>6. AllSeen(p)' /\ SlotFree(p)' /\ AfterStay(p)' /\ PushesCounted(p)'
    BY <1>2, <1>4 DEF AllSeen, SlotFree, AfterStay, PushesCounted
  <1> QED
    BY <1>5, <1>6 DEF ResolveOK

LEMMA NextPairStaysResolved ==
    ASSUME CalendarAssumption, ResolveInv, NEW p \in Procs, NextPair(p)
    PROVE  ResolveOK(p)'
  <1> DEFINE l == plan[p]
             x == Turn(p)
  <1>0. /\ StoreInv /\ ResolveOK(p) /\ pc[p] = "pair" /\ UNCHANGED <<rows, txn, view, job, touched>>
        /\ plan \in [Procs -> Plans] /\ l \in Plans /\ pc \in [Procs -> Labels] /\ l.on
    BY NextPairCases, Locals DEF ResolveInv, PlanOK
  <1>1. CASE l.todo = {} /\ Goto(p, "done") /\ UNCHANGED plan
    <2>1. pc'[p] = "done" /\ plan'[p] = l
      BY <1>0, <1>1 DEF Goto
    <2>2. Mirror(p)' /\ Undisturbed(p)' /\ Book(p)' = Book(p) /\ (Fits(p)' <=> Fits(p))
      BY <1>0, <2>1, QuietKeepsMirror
    <2>3. AllSeen(p)'
      BY <1>0, <1>1, <2>1, <2>2 DEF ResolveOK, AllSeen, Seen, Awaits
    <2>4. SlotFree(p)' /\ AfterStay(p)' /\ PushesCounted(p)'
      BY <2>1 DEF SlotFree, AfterStay, PushesCounted
    <2> QED
      BY <2>2, <2>3, <2>4 DEF ResolveOK
  <1>2. ASSUME l.todo # {}, plan' = [plan EXCEPT ![p] = Skipped(p)] \/ plan' = [plan EXCEPT ![p] = GivenUp(p)],
               UNCHANGED pc,
               plan'[p] = GivenUp(p) \/ ~StillOverlap(l.map, x[1], x[2])
        PROVE  ResolveOK(p)'
    <2>1. pc'[p] = "pair" /\ (plan'[p] = Skipped(p) \/ plan'[p] = GivenUp(p))
      BY <1>0, <1>2
    <2>2. /\ SameButTodo(l, plan'[p]) /\ plan'[p].todo = l.todo \ {x}
          /\ plan'[p].unresolved = l.unresolved \/ plan'[p].unresolved = l.unresolved \cup {x}
          /\ plan'[p].unresolved = l.unresolved \cup {x} \/ ~StillOverlap(l.map, x[1], x[2])
      BY <1>0, <1>2, <2>1, SkippedFields, GivenUpFields
    <2>3. Mirror(p)' /\ Undisturbed(p)' /\ Book(p)' = Book(p) /\ (Fits(p)' <=> Fits(p))
      BY <1>0, <2>2, QuietKeepsMirror DEF SameButTodo
    <2>4. AllSeen(p)'
      <3> SUFFICES ASSUME job[p].answer = "ok", Fits(p), NEW y \in Conflicts(Book(p))
                   PROVE  Seen(p, y)'
        BY <1>0, <2>3 DEF AllSeen
      <3>1. Seen(p, y)
        BY <1>0 DEF ResolveOK, AllSeen
      <3>2. CASE y # x
        BY <1>0, <2>1, <2>2, <3>1, <3>2 DEF Seen, Awaits, SameButTodo
      <3>3. CASE y = x /\ Pair(x) \cap touched[p] = {}
        <4>1. Book(p) \in Tables
          BY <1>0, Locals DEF Book, JobOK, StoreInv, TypeInv, StoreTypes
        <4>2. x[1] \in DOMAIN Book(p) /\ x[2] \in DOMAIN Book(p)
              /\ Overlap(Book(p)[x[1]].start, End(Book(p)[x[1]]), Book(p)[x[2]].start, End(Book(p)[x[2]]))
          BY <3>3, <4>1, ConflictFacts
        <4>3. x[1] \notin touched[p] /\ x[2] \notin touched[p]
          BY <3>3 DEF Pair
        <4>4. l.map[x[1]] = Book(p)[x[1]] /\ l.map[x[2]] = Book(p)[x[2]]
          BY <1>0, <4>2, <4>3 DEF ResolveOK, Mirror
        <4>5. StillOverlap(Book(p), x[1], x[2])
          BY <4>1, <4>2, ConflictStillOverlaps
        <4>6. StillOverlap(l.map, x[1], x[2])
          BY <4>4, <4>5 DEF StillOverlap
        <4>7. x \in plan'[p].unresolved
          BY <2>2, <4>6
        <4> QED
          BY <3>3, <4>7 DEF Seen
      <3>4. CASE y = x /\ Pair(x) \cap touched[p] # {}
        BY <1>0, <3>4 DEF Seen
      <3> QED
        BY <3>2, <3>3, <3>4
    <2>5. SlotFree(p)' /\ AfterStay(p)' /\ PushesCounted(p)'
      BY <2>1 DEF SlotFree, AfterStay, PushesCounted
    <2> QED
      BY <2>3, <2>4, <2>5 DEF ResolveOK
  <1>3. CASE l.todo # {} /\ plan' = [plan EXCEPT ![p] = Pushed(p)] /\ Goto(p, "scan")
    <2>1. pc'[p] = "scan" /\ plan'[p] = Pushed(p)
      BY <1>0, <1>3 DEF Goto
    <2>2. /\ SameButTodo(l, plan'[p]) /\ plan'[p].todo = l.todo \ {x} /\ plan'[p].unresolved = l.unresolved
          /\ plan'[p].mover = Mover(p) /\ plan'[p].stay = Stay(p) /\ plan'[p].tries = 0
          /\ plan'[p].at = After(l.map[Stay(p)])
      BY <1>0, <2>1, PushedFields
    <2>3. Mirror(p)' /\ Undisturbed(p)' /\ Book(p)' = Book(p) /\ (Fits(p)' <=> Fits(p))
      BY <1>0, <2>2, QuietKeepsMirror DEF SameButTodo
    <2>4. Pair(x) = InHand(p)'
      BY <1>0, <1>3, <2>2, TurnFacts DEF Pair, InHand
    <2>5. AllSeen(p)'
      <3> SUFFICES ASSUME job[p].answer = "ok", Fits(p), NEW y \in Conflicts(Book(p))
                   PROVE  Seen(p, y)'
        BY <1>0, <2>3 DEF AllSeen
      <3>1. Seen(p, y)
        BY <1>0 DEF ResolveOK, AllSeen
      <3> QED
        BY <1>0, <2>1, <2>2, <2>4, <3>1 DEF Seen, Awaits, SameButTodo
    <2>6. SlotFree(p)'
      BY <2>1 DEF SlotFree
    <2>7. AfterStay(p)'
      <3>1. l.map[Stay(p)] \in Entry
        BY <1>0, <1>3, TurnFacts, TableFacts DEF Plans
      <3>i. l.map[Stay(p)].start \in Int /\ Duration(l.map[Stay(p)]) \in Int
        BY <3>1, DurationIsPositive DEF Entry
      <3>2. After(l.map[Stay(p)]) \in Int
        BY <3>i DEF After
      <3>3. plan'[p].at = After(plan'[p].map[plan'[p].stay])
        BY <2>2 DEF SameButTodo
      <3> QED
        BY <2>2, <3>2, <3>3 DEF AfterStay
    <2>8. PushesCounted(p)'
      <3> DEFINE P == PassedBy(p, plan[p].at)'
      <3>1. Book(p) \in Tables
        BY <1>0, Locals DEF Book, JobOK, StoreInv, TypeInv, StoreTypes
      <3>2. P \in SUBSET DOMAIN Book(p)
        BY <2>3, <3>1, UpcomingFacts DEF PassedBy
      <3> HIDE DEF P
      <3>3. Cardinality(P) \in Nat
        BY <3>1, <3>2, TableFacts, FS_Subset, FS_CardinalityType
      <3>4. plan'[p].tries <= Cardinality(P)
        BY <2>2, <3>3
      <3> QED
        BY <3>4 DEF PushesCounted, P
    <2> QED
      BY <2>3, <2>5, <2>6, <2>7, <2>8 DEF ResolveOK
  <1>4. CASE /\ l.todo # {} /\ ~StillOverlap(l.map, x[1], x[2])
             /\ plan' = [plan EXCEPT ![p] = Skipped(p)] /\ UNCHANGED pc
    BY <1>2, <1>4
  <1>5. CASE l.todo # {} /\ plan' = [plan EXCEPT ![p] = GivenUp(p)] /\ UNCHANGED pc
    <2>1. plan'[p] = GivenUp(p)
      BY <1>0, <1>5
    <2> QED
      BY <1>2, <1>5, <2>1
  <1> QED
    BY <1>0, <1>1, <1>3, <1>4, <1>5, NextPairCases

(* A push passes the row it has hit, besides those passed before.          *)
LEMMA PassedFacts ==
    ASSUME StoreInv, NEW p \in Procs, pc[p] = "scan", NEW at \in Int
    PROVE  /\ PassedBy(p, at) \in SUBSET (Upcoming(Book(p)) \ InHand(p)) /\ IsFiniteSet(PassedBy(p, at))
           /\ Cardinality(PassedBy(p, at)) \in Nat
  <1>1. Book(p) \in Tables
    BY Locals DEF Book, JobOK, StoreInv, TypeInv, StoreTypes
  <1>2. Upcoming(Book(p)) \in SUBSET DOMAIN Book(p) /\ IsFiniteSet(DOMAIN Book(p))
    BY <1>1, UpcomingFacts, TableFacts
  <1>3. PassedBy(p, at) \in SUBSET (Upcoming(Book(p)) \ InHand(p))
    BY DEF PassedBy
  <1>4. IsFiniteSet(PassedBy(p, at))
    BY <1>2, <1>3, FS_Subset
  <1> QED
    BY <1>3, <1>4, FS_CardinalityType

LEMMA PushPassesOne ==
    ASSUME CalendarAssumption, ResolveInv, NEW p \in Procs, pc[p] = "scan", InTheWay(p) # {}, touched[p] = {},
           Table(p)[Hit(p)].zone = plan[p].map[plan[p].mover].zone, Table(p)[Hit(p)].end # NoEnd
    PROVE  plan[p].tries + 1 <= Cardinality(PassedBy(p, Table(p)[Hit(p)].end))
  <1> DEFINE l == plan[p]
             h == Hit(p)
             at == Table(p)[h].end
             from == After(l.map[l.stay])
             P == PassedBy(p, l.at)
             Q == PassedBy(p, at)
  <1>0. StoreInv /\ ResolveOK(p) /\ l \in Plans /\ l.on /\ Scanning(l) /\ l.at \in Int /\ l.tries \in Nat
    BY Locals DEF ResolveInv, PlanOK, Plans
  <1>1. /\ h \in Upcoming(Table(p)) \ {l.mover, l.stay} /\ at \in Int /\ at > l.at
    BY <1>0, HitFacts
  <1>2. Table(p) = Book(p)
    BY <1>0 DEF ResolveOK, Undisturbed, Table
  <1>3. End(Book(p)[h]) = at
    BY <1>2 DEF End
  <1>4. from \in Int /\ from <= l.at
    <2>1. l.map[l.stay] \in Entry
      BY <1>0, TableFacts DEF Scanning, Plans
    <2>2. l.map[l.stay].start \in Int /\ Duration(l.map[l.stay]) \in Int
      BY <2>1, DurationIsPositive DEF Entry
    <2>3. l.at >= from
      BY <1>0 DEF ResolveOK, AfterStay
    <2> QED
      BY <1>0, <2>2, <2>3 DEF After
  <1>5. h \notin P
    BY <1>0, <1>1, <1>3 DEF PassedBy
  <1>6. h \in Q
    BY <1>0, <1>1, <1>2, <1>3, <1>4 DEF PassedBy, InHand
  <1>7. P \subseteq Q
    <2> SUFFICES ASSUME NEW n \in P PROVE n \in Q
      OBVIOUS
    <2>1. n \in Upcoming(Book(p)) \ InHand(p) /\ from < End(Book(p)[n]) /\ End(Book(p)[n]) <= l.at
      BY DEF PassedBy
    <2>2. End(Book(p)[n]) \in Int
      <3>1. Book(p) \in Tables
        BY <1>0, Locals DEF Book, JobOK, StoreInv, TypeInv, StoreTypes
      <3>2. Book(p)[n] \in Entry
        BY <2>1, <3>1, UpcomingFacts, TableFacts
      <3> QED
        BY <3>2, DurationIsPositive
    <2>3. End(Book(p)[n]) <= at
      BY <1>0, <1>1, <2>1, <2>2
    <2> QED
      BY <2>1, <2>3 DEF PassedBy
  <1>8. IsFiniteSet(P) /\ Cardinality(P) \in Nat /\ IsFiniteSet(Q) /\ Cardinality(Q) \in Nat
    BY <1>0, <1>1, PassedFacts
  <1>9. l.tries <= Cardinality(P)
    BY <1>0 DEF ResolveOK, PushesCounted
  <1> HIDE DEF P, Q, l, h
  <1>10. Cardinality(P \cup {h}) = Cardinality(P) + 1
    BY <1>5, <1>8, FS_AddElement
  <1>11. Cardinality(P \cup {h}) <= Cardinality(Q)
    BY <1>6, <1>7, <1>8, FS_Subset
  <1>12. l.tries + 1 <= Cardinality(Q)
    BY <1>0, <1>8, <1>9, <1>10, <1>11
  <1> QED
    BY <1>12 DEF Q, l, h

LEMMA ScanStaysResolved ==
    ASSUME CalendarAssumption, ResolveInv, NEW p \in Procs, Scan(p)
    PROVE  ResolveOK(p)'
  <1> DEFINE l == plan[p]
  <1>0. /\ StoreInv /\ ResolveOK(p) /\ pc[p] = "scan" /\ Read(p) /\ UNCHANGED <<rows, view, touched>>
        /\ plan \in [Procs -> Plans] /\ l \in Plans /\ pc \in [Procs -> Labels] /\ l.on
        /\ (txn'[p] = "stale" <=> txn[p] = "stale") /\ job[p].book \in Books
    BY ScanCases, ReadKeepsStale, Locals DEF ResolveInv, PlanOK, JobOK
  <1>1. CASE Fail(p) /\ UNCHANGED plan
    BY <1>0, <1>1, FailStaysResolved
  <1>2. CASE /\ InTheWay(p) # {} /\ Table(p)[Hit(p)].zone = l.map[l.mover].zone /\ Table(p)[Hit(p)].end # NoEnd
             /\ plan' = [plan EXCEPT ![p] = Later(p)] /\ UNCHANGED <<pc, job>>
    <2>1. pc'[p] = "scan" /\ plan'[p] = Later(p) /\ job'[p] = job[p]
      BY <1>0, <1>2
    <2>2. SameButScan(l, plan'[p]) /\ plan'[p].gaveUp = l.gaveUp /\ plan'[p].at = Table(p)[Hit(p)].end
      BY <1>0, <2>1, LaterFields
    <2>3. Mirror(p)' /\ Undisturbed(p)' /\ Book(p)' = Book(p) /\ (Fits(p)' <=> Fits(p))
      BY <1>0, <2>1, <2>2, QuietKeepsMirror DEF SameButScan
    <2>4. AllSeen(p)'
      <3> SUFFICES ASSUME job[p].answer = "ok", Fits(p), NEW y \in Conflicts(Book(p))
                   PROVE  Seen(p, y)'
        BY <2>1, <2>3 DEF AllSeen
      <3>1. Seen(p, y)
        BY <1>0 DEF ResolveOK, AllSeen
      <3> QED
        BY <1>0, <2>1, <2>2, <3>1 DEF Seen, Awaits, SameButScan, InHand
    <2>5. SlotFree(p)'
      BY <2>1 DEF SlotFree
    <2>6. AfterStay(p)'
      <3>1. l.at >= After(l.map[l.stay]) /\ Table(p)[Hit(p)].end > l.at /\ Table(p)[Hit(p)].end \in Int /\ l.at \in Int
        BY <1>0, <1>2, HitFacts DEF ResolveOK, AfterStay, Plans
      <3>2. l.map[l.stay] \in Entry
        BY <1>0, TableFacts, Locals DEF PlanOK, Scanning, Plans
      <3>3. l.map[l.stay].start \in Int /\ Duration(l.map[l.stay]) \in Int
        BY <3>2, DurationIsPositive DEF Entry
      <3>4. After(l.map[l.stay]) \in Int
        BY <3>3 DEF After
      <3>5. plan'[p].at >= After(l.map[l.stay])
        BY <2>2, <3>1, <3>4
      <3> QED
        BY <2>2, <3>5 DEF AfterStay, SameButScan
    <2>7. PushesCounted(p)'
      <3>1. touched[p] = {} => l.tries + 1 <= Cardinality(PassedBy(p, Table(p)[Hit(p)].end))
        BY <1>0, <1>2, PushPassesOne
      <3>2. plan'[p].tries = l.tries + 1
        BY <1>0, <2>1, LaterFields
      <3>3. PassedBy(p, plan[p].at)' = PassedBy(p, Table(p)[Hit(p)].end)
        BY <2>2, <2>3 DEF PassedBy, InHand, SameButScan
      <3> QED
        BY <1>0, <3>1, <3>2, <3>3 DEF PushesCounted
    <2> QED
      BY <2>3, <2>4, <2>5, <2>6, <2>7 DEF ResolveOK
  <1>3. CASE /\ l.tries >= MaxPush
             /\ plan' = [plan EXCEPT ![p] = Dropped(p)] /\ Goto(p, "pair") /\ UNCHANGED job
    <2>1. pc'[p] = "pair" /\ plan'[p] = Dropped(p) /\ job'[p] = job[p]
      BY <1>0, <1>3 DEF Goto
    <2>2. SameButScan(l, plan'[p]) /\ plan'[p].gaveUp = l.gaveUp \cup {InHand(p)}
      BY <1>0, <2>1, DroppedFields
    <2>3. Mirror(p)' /\ Undisturbed(p)' /\ Book(p)' = Book(p) /\ (Fits(p)' <=> Fits(p))
      BY <1>0, <2>1, <2>2, QuietKeepsMirror DEF SameButScan
    <2>4. AllSeen(p)'
      <3> SUFFICES ASSUME job[p].answer = "ok", Fits(p), NEW y \in Conflicts(Book(p))
                   PROVE  Seen(p, y)'
        BY <2>1, <2>3 DEF AllSeen
      <3>1. Seen(p, y)
        BY <1>0 DEF ResolveOK, AllSeen
      <3> QED
        BY <1>0, <2>1, <2>2, <3>1 DEF Seen, Awaits, SameButScan
    <2>5. SlotFree(p)' /\ AfterStay(p)' /\ PushesCounted(p)'
      BY <2>1 DEF SlotFree, AfterStay, PushesCounted
    <2> QED
      BY <2>3, <2>4, <2>5 DEF ResolveOK
  <1>4. CASE InTheWay(p) = {} /\ Goto(p, "move") /\ UNCHANGED <<plan, job>>
    <2>1. pc'[p] = "move" /\ plan'[p] = l /\ job'[p] = job[p]
      BY <1>0, <1>4 DEF Goto
    <2>2. Mirror(p)' /\ Undisturbed(p)' /\ Book(p)' = Book(p) /\ (Fits(p)' <=> Fits(p))
      BY <1>0, <2>1, QuietKeepsMirror
    <2>3. AllSeen(p)'
      <3> SUFFICES ASSUME job[p].answer = "ok", Fits(p), NEW y \in Conflicts(Book(p))
                   PROVE  Seen(p, y)'
        BY <2>1, <2>2 DEF AllSeen
      <3>1. Seen(p, y)
        BY <1>0 DEF ResolveOK, AllSeen
      <3> QED
        BY <1>0, <2>1, <3>1 DEF Seen, Awaits, InHand
    <2>4. SlotFree(p)'
      <3> SUFFICES ASSUME txn[p] # "stale", NEW n \in Upcoming(Book(p)) \ InHand(p)
                   PROVE  ~Overlap(l.at, Slot(p), Book(p)[n].start, End(Book(p)[n]))
        BY <1>0, <2>1, <2>2 DEF SlotFree, InHand, Slot
      <3>1. Table(p) = Book(p)
        BY DEF Table, Reads, Book
      <3> QED
        BY <1>4, <3>1 DEF InTheWay, Stops, InHand
    <2>5. AfterStay(p)' /\ PushesCounted(p)'
      BY <1>0, <2>1 DEF ResolveOK, AfterStay, PushesCounted
    <2> QED
      BY <2>2, <2>3, <2>4, <2>5 DEF ResolveOK
  <1> QED
    BY <1>0, <1>1, <1>2, <1>3, <1>4, ScanCases

(* After the move nothing untouched overlaps the row that was moved.       *)
LEMMA MovedOverlapsNone ==
    ASSUME CalendarAssumption, ResolveInv, NEW p \in Procs, Move(p), Cardinality(DOMAIN Book(p)) <= Limit,
           NEW n \in Upcoming(Book(p)) \ touched[p], n # plan[p].mover
    PROVE  ~Overlap(plan[p].at, Slot(p), Book(p)[n].start, End(Book(p)[n]))
  <1> DEFINE l == plan[p]
  <1>0. /\ StoreInv /\ ResolveOK(p) /\ pc[p] = "move" /\ txn[p] # "stale" /\ l \in Plans /\ l.on
        /\ Scanning(l)
    BY MoveFacts, Locals DEF ResolveInv, PlanOK
  <1>1. CASE n # l.stay
    BY <1>0, <1>1 DEF ResolveOK, SlotFree, Fits, InHand
  <1>2. CASE n = l.stay
    <2>1. Book(p) \in Tables
      BY <1>0, MoveFacts DEF Book
    <2>2. n \in DOMAIN Book(p)
      BY <2>1, UpcomingFacts
    <2>3. l.map[n] = Book(p)[n]
      BY <1>0, <2>2 DEF ResolveOK, Mirror
    <2>4. Book(p)[n] \in Entry
      BY <2>1, <2>2, TableFacts
    <2>5. l.at >= After(Book(p)[n]) /\ l.at \in Int
      BY <1>0, <1>2, <2>3 DEF ResolveOK, AfterStay, Plans
    <2>6. /\ Book(p)[n].start \in Int /\ Duration(Book(p)[n]) \in Int /\ End(Book(p)[n]) \in Int
          /\ Book(p)[n].start + Duration(Book(p)[n]) >= End(Book(p)[n])
      BY <2>4, DurationIsPositive DEF Entry
    <2>7. l.at >= End(Book(p)[n])
      BY <2>5, <2>6 DEF After
    <2> QED
      BY <2>5, <2>6, <2>7 DEF Overlap
  <1> QED
    BY <1>1, <1>2

LEMMA MoveStaysResolved ==
    ASSUME CalendarAssumption, ResolveInv, NEW p \in Procs, Move(p)
    PROVE  ResolveOK(p)'
  <1> DEFINE l == plan[p]
             b == job[p].book
             m == l.mover
  <1>0. StoreInv /\ ResolveOK(p) /\ plan \in [Procs -> Plans] /\ pc \in [Procs -> Labels] /\ l.on
    BY MoveFacts, Locals DEF ResolveInv, PlanOK
  <1>1. /\ pc[p] = "move" /\ txn[p] # "stale" /\ Goto(p, "pair") /\ UNCHANGED job
        /\ b \in Books /\ l \in Plans /\ m \in DOMAIN l.map /\ m \in DOMAIN rows[b]
        /\ l.map \in Tables /\ rows[b] \in Tables /\ rows'[b] \in Tables
        /\ Commit(p, b, m, Moved(p, rows[b][m]))
        /\ rows'[b][m] = Moved(p, rows[b][m]) /\ DOMAIN rows'[b] = DOMAIN rows[b]
        /\ \A n \in DOMAIN rows[b] \ {m} : rows'[b][n] = rows[b][n]
        /\ plan' = [plan EXCEPT ![p] = Remapped(p)]
    BY <1>0, MoveFacts
  <1>2. /\ DOMAIN Remap(p) = DOMAIN l.map /\ Remap(p)[m] = Moved(p, l.map[m])
        /\ \A n \in DOMAIN l.map \ {m} : Remap(p)[n] = l.map[n]
    BY <1>0, RemapFacts
  <1>3. /\ Remapped(p).map = Remap(p) /\ Remapped(p).todo = l.todo /\ Remapped(p).on = l.on
        /\ Remapped(p).unresolved = l.unresolved /\ Remapped(p).gaveUp = l.gaveUp
    BY <1>0, RemapFacts
  <1>4. /\ pc'[p] = "pair" /\ job'[p] = job[p] /\ plan'[p] = Remapped(p) /\ touched'[p] = touched[p]
        /\ txn'[p] = "none"
    BY <1>0, <1>1 DEF Goto, Commit
  <1>5. Book(p) = rows[b] /\ Book(p)' = rows'[b] /\ (Fits(p)' <=> Fits(p))
    BY <1>1, <1>4 DEF Book, Fits
  <1>6. Mirror(p)'
    <2> SUFFICES ASSUME NEW n \in DOMAIN rows[b] \ touched[p]
                 PROVE  n \in DOMAIN Remap(p) /\ Remap(p)[n] = rows'[b][n]
      BY <1>1, <1>3, <1>4, <1>5 DEF Mirror
    <2>1. n \in DOMAIN l.map /\ l.map[n] = rows[b][n]
      BY <1>0, <1>5 DEF ResolveOK, Mirror
    <2> QED
      BY <1>1, <1>2, <2>1
  <1>7. Undisturbed(p)'
    <2>1. Reads(p)' = rows'
      BY <1>4 DEF Reads
    <2> QED
      BY <1>4, <1>5, <2>1 DEF Undisturbed
  <1>8. AllSeen(p)'
    <2> SUFFICES ASSUME job[p].answer = "ok", Cardinality(DOMAIN rows[b]) <= Limit,
                        NEW x \in Conflicts(rows'[b]), Pair(x) \cap touched[p] = {}
                 PROVE  Seen(p, x)'
      BY <1>4, <1>5 DEF AllSeen, Seen, Fits
    <2>1. /\ x[1] \in DOMAIN rows'[b] /\ x[2] \in DOMAIN rows'[b] /\ x[1] # x[2]
          /\ x[1] \in Upcoming(rows'[b]) /\ x[2] \in Upcoming(rows'[b])
          /\ Overlap(rows'[b][x[1]].start, End(rows'[b][x[1]]), rows'[b][x[2]].start, End(rows'[b][x[2]]))
          /\ x[1] \notin touched[p] /\ x[2] \notin touched[p]
      BY <1>1, ConflictFacts DEF Pair
    <2>2. CASE m \notin Pair(x)
      <3>1. rows'[b][x[1]] = rows[b][x[1]] /\ rows'[b][x[2]] = rows[b][x[2]]
        BY Zenon, <1>1, <2>1, <2>2 DEF Pair
      <3>2. x \in Conflicts(rows[b])
        BY Zenon, <1>1, <2>1, <3>1, SameRowsConflict
      <3>3. Seen(p, x)
        BY <1>0, <1>5, <3>2 DEF ResolveOK, AllSeen, Fits
      <3>4. Pair(x) # InHand(p)
        BY <2>2 DEF InHand
      <3> QED
        BY <1>1, <1>3, <1>4, <3>3, <3>4 DEF Seen, Awaits
    <2>3. ASSUME NEW n \in {x[1], x[2]}, n # m
          PROVE  ~Overlap(l.at, Slot(p), rows'[b][n].start, End(rows'[b][n]))
      <3>1. rows'[b][n] = rows[b][n] /\ n \in Upcoming(rows'[b]) /\ n \in DOMAIN rows[b]
        BY Zenon, <1>1, <2>1, <2>3
      <3>2. Upcoming(rows[b]) = {k \in DOMAIN rows[b] : IsUpcoming(rows[b][k])}
        BY <1>1, UpcomingWhenFits
      <3>3. Upcoming(rows'[b]) = {k \in DOMAIN rows'[b] : IsUpcoming(rows'[b][k])}
        BY <1>1, UpcomingWhenFits
      <3>4. n \in Upcoming(Book(p)) \ touched[p]
        BY <1>5, <2>1, <2>3, <3>1, <3>2, <3>3
      <3>5. ~Overlap(l.at, Slot(p), Book(p)[n].start, End(Book(p)[n]))
        BY <1>5, <2>3, <3>4, MovedOverlapsNone
      <3> QED
        BY <1>5, <3>1, <3>5
    <2>4. rows'[b][m].start = l.at /\ End(rows'[b][m]) = Slot(p)
      <3>1. rows[b][m] \in Entry
        BY <1>1, TableFacts
      <3>2. Moved(p, rows[b][m]).start = l.at
        BY <1>0, <1>1, <3>1, MovedFacts
      <3>3. Moved(p, rows[b][m]).end = Slot(p)
        BY <1>0, <1>1, <3>1, MovedFacts
      <3>4. Slot(p) \in Int
        BY <1>0, <1>1, <3>1, MovedFacts
      <3>5. End(Moved(p, rows[b][m])) = Slot(p)
        BY <3>3, <3>4 DEF End, CalendarAssumption
      <3> QED
        BY <1>1, <3>2, <3>5
    <2>5. CASE m = x[1]
      BY <2>1, <2>3, <2>4, <2>5
    <2>6. CASE m = x[2]
      <3>1. ~Overlap(l.at, Slot(p), rows'[b][x[1]].start, End(rows'[b][x[1]]))
        BY <2>1, <2>3, <2>6
      <3>2. Overlap(rows'[b][x[1]].start, End(rows'[b][x[1]]), l.at, Slot(p))
        BY <2>1, <2>4, <2>6
      <3> QED
        BY <3>1, <3>2 DEF Overlap
    <2> QED
      BY <2>2, <2>5, <2>6 DEF Pair
  <1>9. SlotFree(p)' /\ AfterStay(p)' /\ PushesCounted(p)'
    BY <1>4 DEF SlotFree, AfterStay, PushesCounted
  <1> QED
    BY <1>6, <1>7, <1>8, <1>9 DEF ResolveOK

(* The snapshot knows every conflict but those of rows that have changed.  *)
LEMMA SnapshotStaysResolved ==
    ASSUME CalendarAssumption, ResolveInv, StoreInv', NEW p \in Procs, Snapshot(p)
    PROVE  ResolveOK(p)'
  <1> DEFINE b == job[p].book
             r == Reads(p)[b]
             k == [NoPlan EXCEPT !.on = TRUE, !.map = r, !.order = r, !.todo = Conflicts(r)]
  <1>0. /\ StoreInv /\ ResolveOK(p) /\ pc[p] = "snap" /\ b \in Books /\ ~plan[p].on /\ PlanOK(p)'
        /\ plan \in [Procs -> Plans] /\ pc \in [Procs -> Labels] /\ touched \in [Procs -> SUBSET Nat]
    BY Locals DEF ResolveInv, StoreInv, ProcOK, TypeInv, JobOK, PlanOK, Snapshot
  <1>1. CASE MixesZones(r)
    <2>1. plan'[p] = plan[p]
      BY <1>1 DEF Snapshot
    <2> QED
      BY <1>0, <2>1, NothingNextToResolve
  <1>2. CASE ~MixesZones(r)
    <2>1. /\ pc'[p] = "pair" /\ UNCHANGED job /\ plan'[p] = k /\ UNCHANGED <<rows, view>>
          /\ touched'[p] = {n \in DOMAIN rows[b] : n \notin DOMAIN r \/ r[n] # rows[b][n]}
          /\ (txn'[p] = "stale" <=> txn[p] = "stale")
      BY <1>0, <1>2, ReadKeepsStale DEF Snapshot, Goto
    <2>2. /\ k.on = TRUE /\ k.map = r /\ k.todo = Conflicts(r) /\ k.gaveUp = {}
      BY DEF NoPlan
    <2>3. Book(p)' = rows[b] /\ Reads(p)'[job'[p].book] = r
      BY <2>1 DEF Book, Reads
    <2>4. r \in Tables /\ rows[b] \in Tables /\ Evolved(r, rows[b])
      BY <1>0, ReadsThePast DEF StoreInv, TypeInv, StoreTypes
    <2>5. DOMAIN r \subseteq DOMAIN rows[b]
      BY <2>4 DEF Evolved
    <2>6. \A n \in DOMAIN rows[b] \ touched'[p] : n \in DOMAIN r /\ r[n] = rows[b][n]
      BY <2>1
    <2>7. Mirror(p)'
      BY <2>1, <2>2, <2>3, <2>6 DEF Mirror
    <2>8. Undisturbed(p)'
      <3> SUFFICES ASSUME touched'[p] = {} PROVE r = rows[b]
        BY <2>3 DEF Undisturbed
      <3>1. DOMAIN r = DOMAIN rows[b] /\ \A n \in DOMAIN r : r[n] = rows[b][n]
        BY <2>5, <2>6
      <3>2. PICK i \in Nat : DOMAIN r = 1 .. i /\ r \in [1 .. i -> Entry]
        BY <2>4, TableShape
      <3>3. PICK j \in Nat : DOMAIN rows[b] = 1 .. j /\ rows[b] \in [1 .. j -> Entry]
        BY <2>4, TableShape
      <3>4. r \in [DOMAIN r -> Entry] /\ rows[b] \in [DOMAIN r -> Entry]
        BY <3>1, <3>2, <3>3
      <3> QED
        BY <3>1, <3>4
    <2>9. AllSeen(p)'
      <3> SUFFICES ASSUME Cardinality(DOMAIN rows[b]) <= Limit, NEW x \in Conflicts(rows[b]),
                          Pair(x) \cap touched'[p] = {}
                   PROVE  Seen(p, x)'
        BY <2>3 DEF AllSeen, Seen, Fits
      <3>1. x[1] \in DOMAIN rows[b] /\ x[2] \in DOMAIN rows[b] /\ x[1] \notin touched'[p] /\ x[2] \notin touched'[p]
        BY <2>4, ConflictFacts DEF Pair
      <3>2. x[1] \in DOMAIN r /\ r[x[1]] = rows[b][x[1]] /\ x[2] \in DOMAIN r /\ r[x[2]] = rows[b][x[2]]
        BY <2>6, <3>1
      <3>3. Cardinality(DOMAIN r) <= Limit
        BY <2>4, <2>5, SubtableFits
      <3>4. x \in Conflicts(r)
        BY <2>4, <3>2, <3>3, SameRowsConflict
      <3> QED
        BY <2>1, <2>2, <3>4 DEF Seen, Awaits
    <2>10. SlotFree(p)' /\ AfterStay(p)' /\ PushesCounted(p)'
      BY <2>1, <2>2 DEF SlotFree, AfterStay, PushesCounted
    <2> QED
      BY <2>7, <2>8, <2>9, <2>10 DEF ResolveOK
  <1> QED
    BY <1>1, <1>2

(* Every other step of p is one of a call that resolves nothing, or gives  *)
(* the call up.                                                            *)
LEMMA OwnStepStaysResolved ==
    ASSUME CalendarAssumption, ResolveInv, StoreInv', NEW p \in Procs, Acts(p)
    PROVE  ResolveOK(p)'
  <1>0. /\ StoreInv /\ ResolveOK(p) /\ PlanOK(p) /\ PlanOK(p)' /\ plan \in [Procs -> Plans]
    BY Locals DEF ResolveInv, StoreInv, ProcOK
  <1>a. ASSUME UNCHANGED plan, ~plan[p].on PROVE ResolveOK(p)'
    BY <1>0, <1>a, NothingNextToResolve
  <1>b. ASSUME Reset(p) PROVE ResolveOK(p)'
    <2>1. plan'[p] = NoPlan
      BY <1>0, <1>b DEF Reset
    <2>2. ~NoPlan.on
      BY DEF NoPlan
    <2> QED
      BY <1>0, <2>1, <2>2, NothingNextToResolve
  <1>c. ASSUME pc[p] \notin {"pair", "scan", "move", "done"} PROVE ~plan[p].on
    BY <1>0, <1>c DEF PlanOK
  <1>1. CASE Start(p)
    <2>1. UNCHANGED plan /\ pc[p] = "idle"
      BY <1>1 DEF Start, Schedule, SetTimerAlarm, NominateMilestone, Import, CancelEvent, ResolveConflicts,
                  GetTemporalContext, Call
    <2> QED
      BY <1>a, <1>c, <2>1
  <1>2. CASE CheckUid(p) \/ NextId(p) \/ Insert(p) \/ FindEvent(p) \/ UpdateStatus(p) \/ CheckConflicts(p)
    <2>1. UNCHANGED plan /\ pc[p] \in {"uid", "count", "insert", "find", "cancel", "check"}
      BY Zenon, <1>2 DEF CheckUid, NextId, Insert, FindEvent, UpdateStatus, CheckConflicts
    <2> QED
      BY <1>a, <1>c, <2>1
  <1>3. CASE Locked(p)
    <2>1. /\ UNCHANGED <<rows, view, touched, plan>> /\ pc[p] \in {"insert", "cancel", "move"} /\ Fail(p)
          /\ txn' = [txn EXCEPT ![p] = IF @ = "none" THEN "begun" ELSE @]
      BY <1>3 DEF Locked
    <2>2. CASE pc[p] = "move"
      <3>1. txn \in [Procs -> Transactions]
        BY <1>0 DEF StoreInv, TypeInv
      <3>2. txn'[p] = "stale" <=> txn[p] = "stale"
        BY <2>1, <3>1
      <3> QED
        BY <2>1, <2>2, <3>2, FailStaysResolved
    <2>3. CASE pc[p] # "move"
      BY <1>a, <1>c, <2>1, <2>3
    <2> QED
      BY <2>2, <2>3
  <1> QED
    BY <1>b, <1>1, <1>2, <1>3, SnapshotStaysResolved, NextPairStaysResolved, ScanStaysResolved, MoveStaysResolved
       DEF Acts, Step, Done, Crash

LEMMA ResolveInvStep == CalendarAssumption /\ ResolveInv /\ [Next]_vars => ResolveInv'
  <1> SUFFICES ASSUME CalendarAssumption, ResolveInv, [Next]_vars PROVE ResolveInv'
    OBVIOUS
  <1>1. StoreInv /\ StoreInv'
    BY StoreInvStep DEF ResolveInv
  <1>2. CASE Next
    <2>1. PICK p \in Procs : Acts(p)
      BY <1>2 DEF Next, Acts
    <2>2. \A q \in Procs : ResolveOK(q)'
      BY <1>1, <2>1, OwnStepStaysResolved, OthersStayResolved
    <2> QED
      BY <1>1, <2>2 DEF ResolveInv
  <1>3. CASE UNCHANGED vars
    <2> SUFFICES ASSUME NEW q \in Procs PROVE ResolveOK(q)'
      BY <1>1 DEF ResolveInv
    <2>1. UNCHANGED <<rows, txn, view, pc, job, plan, touched>> /\ ResolveOK(q)
      BY <1>3 DEF vars, ResolveInv
    <2>2. Mirror(q)' /\ Undisturbed(q)' /\ Book(q)' = Book(q) /\ (Fits(q)' <=> Fits(q))
      BY <2>1, QuietKeepsMirror
    <2>3. AllSeen(q)' /\ SlotFree(q)'
      BY <2>1, <2>2 DEF ResolveOK, AllSeen, Seen, Awaits, InHand, SlotFree, Slot
    <2>4. AfterStay(q)' /\ PushesCounted(q)'
      BY <2>1, <2>2 DEF ResolveOK, AfterStay, PushesCounted, PassedBy, InHand
    <2> QED
      BY <2>2, <2>3, <2>4 DEF ResolveOK
  <1> QED
    BY <1>2, <1>3

LEMMA ResolveInvInit == CalendarAssumption /\ Init => ResolveInv
  <1> SUFFICES ASSUME CalendarAssumption, Init PROVE ResolveInv
    OBVIOUS
  <1>1. StoreInv
    BY StoreInvInit
  <1>2. ASSUME NEW p \in Procs PROVE ResolveOK(p)
    <2>1. ~plan[p].on /\ pc[p] = "idle"
      BY DEF Init, NoPlan
    <2> QED
      BY <2>1 DEF ResolveOK, Mirror, Undisturbed, AllSeen, SlotFree, AfterStay, PushesCounted
  <1> QED
    BY <1>1, <1>2 DEF ResolveInv

(* A resolution that ends well hides no overlap among the rows its queries *)
(* return, however others write while it runs: what still overlaps was     *)
(* reported, given up, or written by somebody else since the snapshot      *)
(* (while the calendar fits the LIMIT).                                    *)
THEOREM ResolutionIsHonest == Spec => []NoSilentConflict
  <1>1. ResolveInv => NoSilentConflict
    <2> SUFFICES ASSUME ResolveInv, NEW p \in Procs, pc[p] = "done", plan[p].on, job[p].answer = "ok", Fits(p),
                        NEW x \in Conflicts(Book(p))
                 PROVE  \/ Pair(x) \cap touched[p] # {}
                        \/ x \in plan[p].unresolved \/ Pair(x) \in plan[p].gaveUp
      BY DEF NoSilentConflict, Fits, Book, Pair
    <2>1. Seen(p, x)
      BY DEF ResolveInv, ResolveOK, AllSeen
    <2> QED
      BY <2>1 DEF Seen, Awaits
  <1> QED
    BY <1>1, CalendarAssumption, ResolveInvInit, ResolveInvStep, PTL DEF Spec

(* A resolution's own steps leave "scan" and "move" for "pair" in one way.  *)
LEMMA WaysToTheNextPair ==
    ASSUME StoreInv, CalendarAssumption, NEW p \in Procs, Next, pc[p] \in {"scan", "move"}, pc'[p] = "pair"
    PROVE  \/ pc[p] = "scan" /\ Scan(p) /\ plan[p].tries >= MaxPush
           \/ pc[p] = "move" /\ Move(p)
  <1>1. Acts(p)
    <2>1. PICK q \in Procs : Acts(q)
      BY DEF Next, Acts
    <2>2. Others(q)
      BY <2>1, ActsAreSafe DEF LocalOK
    <2> QED
      BY <2>1, <2>2 DEF Others
  <1>2. ~Fail(p) /\ ~Reset(p)
    BY Locals DEF Fail, Reset, NextItem, Goto
  <1>3. Scan(p) \/ Move(p)
    <2>1. ~Start(p)
      BY DEF Start, Schedule, SetTimerAlarm, NominateMilestone, Import, CancelEvent, ResolveConflicts,
             GetTemporalContext, Call
    <2>2. ~(CheckUid(p) \/ NextId(p) \/ Insert(p) \/ FindEvent(p) \/ UpdateStatus(p) \/ CheckConflicts(p) \/ Snapshot(p))
      BY Zenon DEF CheckUid, NextId, Insert, FindEvent, UpdateStatus, CheckConflicts, Snapshot
    <2>3. ~NextPair(p)
      BY NextPairCases
    <2>4. ~(Locked(p) \/ Done(p) \/ Crash(p))
      BY <1>2 DEF Locked, Done, Crash
    <2> QED
      BY <1>1, <2>1, <2>2, <2>3, <2>4 DEF Acts, Step
  <1>4. CASE Scan(p)
    BY <1>2, <1>4, ScanCases, Locals DEF Goto
  <1> QED
    BY <1>3, <1>4, MoveFacts

(* Whatever follows whatever, an entry that a resolution moves starts      *)
(* later than it did, unless somebody else wrote it since the snapshot.    *)
THEOREM ResolutionOnlyPostpones == Spec => OnlyPostpones
  <1> DEFINE Postpones ==
        \A p \in Procs :
            LET b == job[p].book  n == plan[p].mover IN
            pc[p] = "move" /\ pc'[p] = "pair" => n \in touched[p] \/ rows'[b][n].start > rows[b][n].start
  <1>1. ResolveInv /\ [Next]_vars => [Postpones]_vars
    <2> SUFFICES ASSUME ResolveInv, Next, NEW p \in Procs, pc[p] = "move", pc'[p] = "pair",
                        plan[p].mover \notin touched[p]
                 PROVE  rows'[job[p].book][plan[p].mover].start > rows[job[p].book][plan[p].mover].start
      OBVIOUS
    <2> DEFINE l == plan[p]
               r == rows[job[p].book]
               m == l.mover
    <2>1. StoreInv /\ ResolveOK(p) /\ Move(p)
      BY CalendarAssumption, WaysToTheNextPair DEF ResolveInv
    <2>2. /\ m \in DOMAIN r /\ r \in Tables /\ rows'[job[p].book][m] = Moved(p, r[m])
      BY <2>1, MoveFacts
    <2>3. r[m] \in Entry
      BY <2>2, TableFacts
    <2>4. Moved(p, r[m]).start = l.at
      BY <2>1, <2>3, CalendarAssumption, MovedFacts
    <2>5. l.on /\ l.at > l.map[m].start
      BY <2>1, Locals DEF PlanOK, Scanning
    <2>6. l.map[m] = r[m]
      BY <2>1, <2>2, <2>5 DEF ResolveOK, Mirror, Book
    <2> QED
      BY <2>2, <2>4, <2>5, <2>6
  <1>2. Spec => []ResolveInv
    BY CalendarAssumption, ResolveInvInit, ResolveInvStep, PTL DEF Spec
  <1> QED
    BY <1>1, <1>2, PTL DEF Spec, OnlyPostpones

(* Left alone, the forward scan gives up only behind MaxPush other rows    *)
(* that end after the entry that stays and not after the slot reached:     *)
(* every push passes a row it had not passed.                              *)
THEOREM ScanGivesUpLate == Spec => GivesUpOnlyIfCrowded
  <1> DEFINE Late ==
        \A p \in Procs : pc[p] = "scan" /\ pc'[p] = "pair" /\ touched[p] = {} => Cardinality(Passed(p)) >= MaxPush
  <1>1. ResolveInv /\ [Next]_vars => [Late]_vars
    <2> SUFFICES ASSUME ResolveInv, Next, NEW p \in Procs, pc[p] = "scan", pc'[p] = "pair", touched[p] = {}
                 PROVE  Cardinality(Passed(p)) >= MaxPush
      OBVIOUS
    <2>1. StoreInv /\ ResolveOK(p) /\ plan[p].tries >= MaxPush /\ plan[p] \in Plans
      BY CalendarAssumption, WaysToTheNextPair, Locals DEF ResolveInv
    <2>2. plan[p].tries <= Cardinality(PassedBy(p, plan[p].at))
      BY <2>1 DEF ResolveOK, PushesCounted
    <2>3. Passed(p) = PassedBy(p, plan[p].at)
      BY DEF Passed, PassedBy, Book, InHand, After
    <2>4. Cardinality(PassedBy(p, plan[p].at)) \in Nat /\ plan[p].tries \in Nat /\ MaxPush \in Nat
      BY <2>1, PassedFacts, CalendarAssumption DEF Plans, CalendarAssumption
    <2> QED
      BY <2>1, <2>2, <2>3, <2>4
  <1>2. Spec => []ResolveInv
    BY CalendarAssumption, ResolveInvInit, ResolveInvStep, PTL DEF Spec
  <1> QED
    BY <1>1, <1>2, PTL DEF Spec, GivesUpOnlyIfCrowded
=============================================================================

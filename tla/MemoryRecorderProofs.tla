------------------------ MODULE MemoryRecorderProofs ------------------------
(***************************************************************************)
(* The two safety properties of MemoryRecorder, for any number of calls,   *)
(* writers and any threshold: writers pile up only behind joins that timed *)
(* out, and an open breaker lets one write through.                        *)
(*                                                                         *)
(* The second holds because the breaker is asked before the join: a join   *)
(* under way is the only way past it.  ProbesInv remembers that: once the  *)
(* write has passed, no call is in a join, and none enters one.            *)
(***************************************************************************)
EXTENDS MemoryRecorder, FiniteSetTheorems, TLAPS

Places == {"off", "start", "init", "add", "fail", "count", "trip"}

(* What the variables hold. *)
TypeInv ==
    /\ thread \in [Writers -> Places]
    /\ sync \in Writers \cup {None}
    /\ failures \in Nat /\ cooling \in BOOLEAN /\ counted \in [Writers -> Nat]

(* What is left of the joins once the breaker is open. *)
ProbesInv ==
    /\ probes \in {0, 1}
    /\ ~Open => probes = 0
    /\ probes = 1 => waiting = None

-----------------------------------------------------------------------------
(* A step starts one writer, which becomes the newest, or none. *)
Starts == \E t \in Writers : NewWriter(t)
Quiet == Alive' \subseteq Alive /\ sync' = sync

(* A step of a writer starts none; what ends is no longer counted among    *)
(* the abandoned.                                                          *)
LEMMA WriteIsQuiet ==
    ASSUME TypeInv, NEW t \in Writers, Write(t)
    PROVE  /\ Quiet /\ UNCHANGED waiting
           /\ Alive' \ abandoned' \subseteq Alive \ abandoned
  <1>1. thread[t] # "off"
    BY DEF Write, Enter, Connect, Add, ReadCount, WriteCount, Trip
  <1>2. UNCHANGED <<sync, waiting>>
    BY DEF Write, Enter, Connect, Add, ReadCount, WriteCount, Trip, loop, Goto, Ends
  <1>3. \/ Ends(t)
        \/ UNCHANGED abandoned /\ \E place \in Places \ {"off"} : Goto(t, place)
    BY DEF Write, Enter, Connect, Add, ReadCount, WriteCount, Trip, Places
  <1>4. CASE Ends(t)
    BY <1>2, <1>4 DEF Ends, Goto, Quiet, Alive, TypeInv
  <1>5. ASSUME UNCHANGED abandoned, NEW place \in Places \ {"off"}, Goto(t, place)
        PROVE  Alive' = Alive
    BY <1>1, <1>5 DEF Goto, Alive, TypeInv
  <1> QED
    BY <1>2, <1>3, <1>4, <1>5 DEF Quiet

LEMMA TypeInit == Init => TypeInv
  <1> SUFFICES ASSUME Init PROVE TypeInv
    OBVIOUS
  <1>1. thread \in [Writers -> Places] /\ counted \in [Writers -> Nat]
    BY DEF Init, Places
  <1> QED
    BY <1>1 DEF Init, TypeInv

(* Every step keeps the types. *)
LEMMA TypeStep == TypeInv /\ [Next]_vars => TypeInv'
  <1> SUFFICES ASSUME RecorderAssumption, TypeInv, [Next]_vars PROVE TypeInv'
    BY RecorderAssumption
  <1>1. ASSUME NEW c \in Calls, NEW name \in Tools, Begin(c, name) PROVE TypeInv'
    BY <1>1 DEF Begin, TypeInv, breaker
  <1>2. ASSUME NEW t \in Writers, NewWriter(t) PROVE thread' \in [Writers -> Places] /\ sync' \in Writers
    BY <1>2 DEF NewWriter, TypeInv, Places
  <1>3. ASSUME NEW c \in Calls, Record(c) PROVE TypeInv'
    <2>1. failures' \in Nat /\ cooling' \in BOOLEAN
      BY <1>3 DEF Record, CheckBreaker, TypeInv, breaker
    <2>2. UNCHANGED counted
      BY <1>3 DEF Record, NewWriter
    <2> QED
      BY <1>2, <1>3, <2>1, <2>2 DEF Record, TypeInv
  <1>4. ASSUME JoinEnds \/ JoinTimesOut PROVE TypeInv'
    BY <1>2, <1>4 DEF JoinEnds, JoinTimesOut, NewWriter, TypeInv, breaker
  <1>5. ASSUME NEW t \in Writers, Write(t) PROVE TypeInv'
    <2>1. thread' \in [Writers -> Places]
      BY <1>5 DEF Write, Enter, Connect, Add, ReadCount, WriteCount, Trip, Goto, Ends, TypeInv, Places
    <2>2. failures' \in Nat /\ counted' \in [Writers -> Nat]
      BY <1>5 DEF Write, Enter, Connect, Add, ReadCount, WriteCount, Trip, TypeInv, RecorderAssumption,
                  breaker, Capped
    <2>3. cooling' \in BOOLEAN /\ UNCHANGED sync
      BY <1>5 DEF Write, Enter, Connect, Add, ReadCount, WriteCount, Trip, TypeInv, breaker
    <2> QED
      BY <2>1, <2>2, <2>3 DEF TypeInv
  <1>6. ASSUME CoolDown \/ BackendChanges PROVE TypeInv'
    BY <1>6 DEF CoolDown, BackendChanges, TypeInv, breaker
  <1>7. CASE UNCHANGED vars
    BY <1>7 DEF vars, breaker, TypeInv
  <1> QED
    BY <1>1, <1>3, <1>4, <1>5, <1>6, <1>7 DEF Next, Step, Dispatch

(* The writers that nobody waited for: the newest, whichever step is taken. *)
LEMMA PileUpStep == TypeInv /\ PileUpTakesTimeouts /\ [Next]_vars => PileUpTakesTimeouts'
  <1> SUFFICES ASSUME RecorderAssumption, TypeInv, PileUpTakesTimeouts, [Next]_vars
               PROVE  PileUpTakesTimeouts'
    BY RecorderAssumption
  <1>1. ASSUME NEW t \in Writers, NewWriter(t) PROVE Alive' = Alive \cup {t} /\ sync' = t
    BY <1>1 DEF NewWriter, Alive, TypeInv
  <1>2. ~Busy => Alive \ abandoned = {}
    BY DEF Busy, PileUpTakesTimeouts, Alive, RecorderAssumption, TypeInv
  <1>3. ASSUME NEW t \in Writers, NewWriter(t),
               \/ ~Busy /\ UNCHANGED abandoned
               \/ abandoned' = abandoned \cup {sync}
        PROVE  PileUpTakesTimeouts'
    BY <1>1, <1>2, <1>3 DEF PileUpTakesTimeouts
  <1>4. ASSUME UNCHANGED <<thread, sync, abandoned>> PROVE PileUpTakesTimeouts'
    BY <1>4 DEF PileUpTakesTimeouts, Alive
  <1>5. ASSUME NEW c \in Calls, Record(c) PROVE PileUpTakesTimeouts'
    BY <1>3, <1>4, <1>5 DEF Record
  <1>6. ASSUME JoinEnds \/ JoinTimesOut PROVE PileUpTakesTimeouts'
    BY <1>3, <1>6 DEF JoinEnds, JoinTimesOut
  <1>7. ASSUME NEW t \in Writers, Write(t) PROVE PileUpTakesTimeouts'
    BY <1>7, WriteIsQuiet DEF PileUpTakesTimeouts, Quiet
  <1>8. ASSUME NEW c \in Calls, NEW name \in Tools, Begin(c, name) PROVE PileUpTakesTimeouts'
    BY <1>4, <1>8 DEF Begin
  <1>9. CASE CoolDown \/ BackendChanges \/ UNCHANGED vars
    BY <1>4, <1>9 DEF CoolDown, BackendChanges, vars
  <1> QED
    BY <1>5, <1>6, <1>7, <1>8, <1>9 DEF Next, Step, Dispatch

-----------------------------------------------------------------------------
(* A call that asks the breaker and goes on leaves it closed. *)
LEMMA AskedIsClosed ==
    ASSUME TypeInv, NEW c \in Calls, Record(c)
    PROVE  \/ Open' => Open /\ UNCHANGED thread /\ waiting' = None
           \/ ~Open'
  <1>1. CASE failures >= Threshold /\ Elapsed
    BY <1>1, RecorderAssumption DEF Record, CheckBreaker, Open, Elapsed, RecorderAssumption
  <1>2. CASE ~(failures >= Threshold /\ Elapsed)
    <2>1. Open' = Open
      BY <1>2 DEF Record, CheckBreaker, Open, Elapsed, breaker
    <2>2. CASE Open
      BY <2>2 DEF Record, Answer
    <2> QED
      BY <2>1, <2>2
  <1> QED
    BY <1>1, <1>2

(* How a step counts the writes it starts. *)
LEMMA TallyOfOne ==
    ASSUME TypeInv, probes \in {0, 1}, NEW t \in Writers, NewWriter(t), Tally
    PROVE  probes' = IF Open' THEN probes + 1 ELSE 0
  <1>1. Alive' \ Alive = {t}
    BY DEF NewWriter, Alive, TypeInv
  <1>2. Cardinality(Alive' \ Alive) = 1
    BY <1>1, FS_Singleton
  <1> QED
    BY <1>2 DEF Tally
LEMMA TallyOfNone ==
    ASSUME probes \in {0, 1}, Alive' \subseteq Alive, Tally
    PROVE  probes' = IF Open' THEN probes ELSE 0
  <1>1. Alive' \ Alive = {}
    OBVIOUS
  <1>2. Cardinality(Alive' \ Alive) = 0
    BY <1>1, FS_EmptySet
  <1> QED
    BY <1>2 DEF Tally

LEMMA ProbesStep == TypeInv /\ ProbesInv /\ [Next]_vars => ProbesInv'
  <1> SUFFICES ASSUME TypeInv, ProbesInv, [Next]_vars PROVE ProbesInv'
    OBVIOUS
  <1>1. ASSUME Alive' \subseteq Alive, Tally, Open' => waiting' = waiting \/ waiting' = None
        PROVE  ProbesInv'
    BY <1>1, TallyOfNone DEF ProbesInv
  <1>2. ASSUME NEW c \in Calls, Record(c), Tally PROVE ProbesInv'
    <2>1. CASE ~Open'
      BY <1>2, <2>1 DEF Tally, ProbesInv
    <2>2. CASE Open'
      <3>1. UNCHANGED thread /\ waiting' = None
        BY <1>2, <2>2, AskedIsClosed
      <3> QED
        BY <1>1, <1>2, <3>1 DEF Alive
    <2> QED
      BY <2>1, <2>2
  <1>3. ASSUME JoinEnds \/ JoinTimesOut, Tally PROVE ProbesInv'
    <2>1. waiting # None /\ waiting' = None /\ Open' = Open
      BY <1>3 DEF JoinEnds, JoinTimesOut, Answer, Open, Elapsed, breaker
    <2>2. PICK t \in Writers : NewWriter(t)
      BY <1>3 DEF JoinEnds, JoinTimesOut
    <2>3. probes = 0
      BY <2>1 DEF ProbesInv
    <2>4. probes' = IF Open' THEN 1 ELSE 0
      BY <1>3, <2>2, <2>3, TallyOfOne
    <2> QED
      BY <2>1, <2>4 DEF ProbesInv
  <1>4. ASSUME NEW t \in Writers, Write(t), Tally PROVE ProbesInv'
    BY <1>1, <1>4, WriteIsQuiet DEF Quiet
  <1>5. ASSUME NEW c \in Calls, NEW name \in Tools, Begin(c, name), Tally PROVE ProbesInv'
    BY <1>1, <1>5 DEF Begin, Alive
  <1>6. ASSUME CoolDown \/ BackendChanges, Tally PROVE ProbesInv'
    BY <1>1, <1>6 DEF CoolDown, BackendChanges, Alive, loop
  <1>7. CASE UNCHANGED vars
    BY <1>7 DEF vars, loop, breaker, ProbesInv, Open, Elapsed
  <1> QED
    BY <1>2, <1>3, <1>4, <1>5, <1>6, <1>7 DEF Next, Step, Dispatch

-----------------------------------------------------------------------------
(* Slow writes cannot accumulate threads by themselves: behind every live  *)
(* writer but the newest stands a join of 5 s that ran out.                *)
THEOREM PileUpIsPaidFor == Spec => []PileUpTakesTimeouts
  <1>1. Init => PileUpTakesTimeouts
    BY DEF Init, PileUpTakesTimeouts, Alive
  <1> QED
    BY <1>1, TypeInit, TypeStep, PileUpStep, PTL DEF Spec

(* However many calls and writers there are, an open breaker lets through  *)
(* the one write whose call had asked it before it opened.                 *)
THEOREM BreakerHolds == Spec => []OneWriteThroughOpenBreaker
  <1>1. Init => ProbesInv
    BY DEF Init, ProbesInv
  <1>2. ProbesInv => OneWriteThroughOpenBreaker
    BY DEF ProbesInv, OneWriteThroughOpenBreaker
  <1> QED
    BY <1>1, <1>2, TypeInit, TypeStep, ProbesStep, PTL DEF Spec
=============================================================================

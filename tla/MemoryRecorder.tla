--------------------------- MODULE MemoryRecorder ---------------------------
(***************************************************************************)
(* memory/recorder.py and the tool dispatch of guard/mcp_server.py that    *)
(* feeds it.  Calls run as tasks of one event loop; when a tool has its    *)
(* result the loop itself runs record_tool_call, which may hold the loop   *)
(* in a join of up to 5 s, then starts a daemon thread that writes to Mem0.*)
(* Threads share the failure count without a lock.                         *)
(*                                                                         *)
(* Abstracted: the fact's words, the user and sponsor it names; times (5 s *)
(* and the cooldown are steps).  shutdown() has no caller.                 *)
(***************************************************************************)
EXTENDS Integers, FiniteSets

CONSTANTS
    Calls,      \* concurrent tool calls
    Tools,      \* the tools called
    Writers,    \* bound: writer threads alive at once
    Threshold,  \* _BREAKER_THRESHOLD
    None

ASSUME RecorderAssumption == Threshold \in Nat \ {0} /\ None \notin Writers

VARIABLES
    tool,       \* tool[c]: the tool call c runs, None between calls
    waiting,    \* the call whose join holds the event loop, or None
    thread,     \* where each writer is, "off" when not alive
    sync,       \* _sync_thread, or None
    counted,    \* what each failing writer read of the failure count
    failures,   \* _consecutive_failures
    cooling,    \* now < _breaker_open_until
    memory,     \* _memory is set
    lock,       \* the writer in _memory_lock, or None
    backend,    \* Mem0 and Qdrant: "up", "down" (errors) or "hung"
    outcome,    \* (history) how the last write that ended went
    abandoned,  \* (history) the writers alive whose join timed out
    probes      \* (history) writes begun since the breaker opened

loop == <<tool, waiting>>
breaker == <<failures, cooling>>
client == <<memory, lock>>
vars == <<loop, thread, sync, counted, breaker, client, backend, outcome, abandoned, probes>>

Alive == {t \in Writers : thread[t] # "off"}
ElapsedNever == FALSE   \* a mutant: the comparison of the times reversed
Elapsed == ~cooling     \* time.monotonic() >= _breaker_open_until
Open == failures >= Threshold /\ ~Elapsed

Init ==
    /\ tool = [c \in Calls |-> None] /\ waiting = None
    /\ thread = [t \in Writers |-> "off"] /\ sync = None /\ counted = [t \in Writers |-> 0]
    /\ failures = 0 /\ cooling = FALSE
    /\ memory = FALSE /\ lock = None /\ backend \in {"up", "down", "hung"}
    /\ outcome = "none" /\ abandoned = {} /\ probes = 0

(* ---- the event loop ---- *)
Results == {"ok", "empty", "error"}
\* Does the tool's formatter make a fact of this result?
Tells(name, result) ==
    CASE name = "check_inbox" -> result = "ok"
      [] name \in {"browse_to", "interact"} -> result # "error"
      [] name \in {"get_temporal_context", "extract_page_state"} -> FALSE
      [] OTHER -> TRUE
\* The bound on Writers limits the calls that may still start one.
Begin(c, name) ==
    /\ waiting = None /\ tool[c] = None
    /\ Cardinality(Alive) + Cardinality({d \in Calls : tool[d] # None}) < Cardinality(Writers)
    /\ tool' = [tool EXCEPT ![c] = name]
    /\ UNCHANGED <<waiting, thread, sync, counted, breaker, client, backend, outcome, abandoned>>
Answer(c) == tool' = [tool EXCEPT ![c] = None] /\ waiting' = None
NewWriter(t) ==
    /\ thread[t] = "off" /\ thread' = [thread EXCEPT ![t] = "start"] /\ sync' = t
    /\ UNCHANGED <<counted, client, backend, outcome>>
CheckBreaker ==   \* _is_breaker_open
    IF failures >= Threshold /\ Elapsed THEN failures' = 0 /\ UNCHANGED cooling ELSE UNCHANGED breaker
BusyNever == FALSE   \* a mutant: no join before the next thread
Busy == sync # None /\ thread[sync] # "off"
RecordEarly(c) ==   \* a mutant: the breaker is asked by the writer, not before
    /\ waiting = None /\ tool[c] # None /\ CheckBreaker
    /\ \/ Busy /\ waiting' = c /\ UNCHANGED <<tool, thread, sync, counted, client, backend, outcome, abandoned>>
       \/ ~Busy /\ Answer(c) /\ UNCHANGED abandoned /\ \E t \in Writers : NewWriter(t)
Record(c) ==
    \E result \in Results :
        /\ waiting = None /\ tool[c] # None /\ CheckBreaker
        /\ \/ /\ Open \/ ~Tells(tool[c], result)
              /\ Answer(c) /\ UNCHANGED <<thread, sync, counted, client, backend, outcome, abandoned>>
           \/ /\ ~Open /\ Tells(tool[c], result) /\ Busy
              /\ waiting' = c /\ UNCHANGED <<tool, thread, sync, counted, client, backend, outcome, abandoned>>
           \/ /\ ~Open /\ Tells(tool[c], result) /\ ~Busy
              /\ Answer(c) /\ UNCHANGED abandoned /\ \E t \in Writers : NewWriter(t)
JoinForever == FALSE   \* a mutant: join() without a timeout
JoinEnds ==
    /\ waiting # None /\ ~Busy /\ UNCHANGED <<breaker, abandoned>>
    /\ Answer(waiting) /\ \E t \in Writers : NewWriter(t)
JoinTimesOut ==
    /\ waiting # None /\ Busy /\ UNCHANGED breaker /\ abandoned' = abandoned \cup {sync}
    /\ Answer(waiting) /\ \E t \in Writers : NewWriter(t)

(* ---- a writer thread ---- *)
Goto(t, place) == thread' = [thread EXCEPT ![t] = place]
Ends(t) == Goto(t, "off") /\ abandoned' = abandoned \ {t}
Enter(t) ==           \* _get_memory, waiting for its lock
    /\ thread[t] = "start" /\ lock = None
    /\ IF memory THEN Goto(t, "add") /\ UNCHANGED lock ELSE Goto(t, "init") /\ lock' = t
    /\ UNCHANGED <<loop, sync, counted, breaker, memory, backend, outcome, abandoned>>
Connect(t) ==         \* Memory.from_config inside the lock
    /\ thread[t] = "init" /\ backend # "hung" /\ lock' = None
    /\ memory' = (backend = "up") /\ Goto(t, IF backend = "up" THEN "add" ELSE "fail")
    /\ UNCHANGED <<loop, sync, counted, breaker, backend, outcome, abandoned>>
Add(t) ==
    /\ thread[t] = "add" /\ UNCHANGED <<loop, sync, counted, cooling, client, backend>>
    /\ \/ backend = "up" /\ Ends(t) /\ failures' = 0 /\ outcome' = "stored"
       \/ backend = "down" /\ Goto(t, "fail") /\ UNCHANGED <<failures, outcome, abandoned>>
Capped(n) == IF n > Threshold THEN Threshold ELSE n   \* only n >= Threshold is ever asked
ReadCount(t) ==       \* the load of _consecutive_failures += 1
    /\ thread[t] = "fail" /\ Goto(t, "count") /\ counted' = [counted EXCEPT ![t] = failures]
    /\ UNCHANGED <<loop, sync, breaker, client, backend, outcome, abandoned>>
WriteCount(t) ==      \* its store
    /\ thread[t] = "count" /\ Goto(t, "trip") /\ failures' = Capped(counted[t] + 1)
    /\ counted' = [counted EXCEPT ![t] = 0]
    /\ UNCHANGED <<loop, sync, cooling, client, backend, outcome, abandoned>>
Trip(t) ==
    /\ thread[t] = "trip" /\ Ends(t) /\ outcome' = "lost"
    /\ cooling' = (cooling \/ failures >= Threshold)
    /\ UNCHANGED <<loop, sync, counted, failures, client, backend>>

(* ---- time and the backend ---- *)
CoolDown ==
    /\ cooling /\ cooling' = FALSE
    /\ UNCHANGED <<loop, thread, sync, counted, failures, client, backend, outcome, abandoned>>
BackendChanges ==
    /\ backend' \in {"up", "down", "hung"} \ {backend}
    /\ UNCHANGED <<loop, thread, sync, counted, breaker, client, outcome, abandoned>>

Write(t) == Enter(t) \/ Connect(t) \/ Add(t) \/ ReadCount(t) \/ WriteCount(t) \/ Trip(t)
Dispatch(c) == Record(c) \/ (waiting = c /\ (JoinEnds \/ JoinTimesOut))
Step == \/ \E c \in Calls : Dispatch(c) \/ \E name \in Tools : Begin(c, name)
        \/ \E t \in Writers : Write(t)
        \/ CoolDown \/ BackendChanges
\* Counts the writes begun while the breaker is open.
Tally == probes' = IF Open' THEN probes + Cardinality(Alive' \ Alive) ELSE 0
Next == Step /\ Tally
Spec == Init /\ [][Next]_vars
(* The loop resumes ready tasks in turn, threads are scheduled, a hung call *)
(* ends when the backend is back, time passes, and the agents do not stop  *)
(* sending mail (its formatter always makes a fact).                       *)
FairSpec ==
    /\ Spec /\ WF_vars(CoolDown /\ Tally)
    /\ \A c \in Calls : SF_vars(Dispatch(c) /\ Tally)
    /\ \A t \in Writers : WF_vars(Write(t) /\ Tally)
    /\ SF_vars((\E c \in Calls : Begin(c, "send_email")) /\ Tally)

-----------------------------------------------------------------------------
(* A breaker that opened lets at most one more write through before its    *)
(* cooldown: the call that had already asked it and was still in its join  *)
(* (recorder.py:214 and 264).                                              *)
OneWriteThroughOpenBreaker == probes <= 1

(* Writes pile up only against a backend that hangs: every live writer but *)
(* the newest has been waited for 5 s (recorder.py:257-264).               *)
PileUpTakesTimeouts == Alive \ abandoned \subseteq {sync}

(* Whatever the backend does, every tool call is answered.                 *)
CallsEnd == \A c \in Calls : tool[c] # None ~> tool[c] = None

(* Once the backend is up for good, no more facts are lost: the breaker    *)
(* closes by itself, whatever failures are still under way.                *)
FactsResume == <>[](backend = "up") => <>[](outcome = "stored")
=============================================================================

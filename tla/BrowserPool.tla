----------------------------- MODULE BrowserPool -----------------------------
(***************************************************************************)
(* spatial/browser_pool.py: the per-agent Chromium instances of one or     *)
(* more Parousia processes over one directory of profiles.                 *)
(*                                                                         *)
(* A process is an asyncio event loop: get_browser gives way only where it *)
(* awaits (closing a dead browser, launching one), so every action here is *)
(* the code between two awaits.  The exception is the profile.lock file,   *)
(* which other processes touch at any time: reading it (Enter, CloseEnds)  *)
(* and replacing it (Claim) are two steps, with the loop held in between.  *)
(*                                                                         *)
(* Left out: profile.lock with bad JSON or another agent's id (both handled*)
(* like this agent's), reuse of pids, write errors on the file, and the    *)
(* browsers' own traffic.  _idle_cleanup and cleanup_profile have no caller*)
(* in the repository and are no actions.                                   *)
(***************************************************************************)
EXTENDS Spatial, Integers, FiniteSets

CONSTANTS
    Procs,          \* processes that run a pool
    ProcOf,         \* the process each call runs in
    MaxInstances,   \* config.max_instances
    MaxFaults       \* bound: failed and hung launches, dead browsers, dead processes

ASSUME PoolAssumption ==
    /\ ProcOf \in [Calls -> Procs]
    /\ {"free", "stale"} \cap Procs = {}
    /\ IsFiniteSet(Calls)
    /\ MaxInstances \in Nat /\ MaxFaults \in Nat

VARIABLES
    cache,      \* _browsers of each process: "none", or the state of the instance
    files,      \* the agents in _lock_files of each process
    lock,       \* profile.lock of each agent: absent, a live pid, or a dead one
    pc,         \* where each call waits
    agent,      \* its agent_id
    attempt,    \* its launch attempt, 0 before
    answer,     \* what get_browser last returned or raised to it
    faults

vars == <<cache, files, lock, pc, agent, attempt, answer, faults>>
task == <<pc, agent, attempt, answer>>

TypeOK ==
    /\ cache \in [Procs -> [Agents -> {"none", "open", "dead"}]]
    /\ files \in [Procs -> SUBSET Agents]
    /\ lock \in [Agents -> Procs \cup {"free", "stale"}]
    /\ pc \in [Calls -> {"idle", "closing", "claim", "launch", "hung"}]
    /\ agent \in [Calls -> Agents]
    /\ attempt \in [Calls -> 0 .. 3]
    /\ answer \in [Calls -> {"none", "open", "dead", "full", "inuse", "failed"}]
    /\ faults \in Nat

Init ==
    /\ cache = [p \in Procs |-> [a \in Agents |-> "none"]]
    /\ files = [p \in Procs |-> {}]
    /\ lock = [a \in Agents |-> "free"]
    /\ pc = [c \in Calls |-> "idle"]
    /\ agent \in [Calls -> Agents]
    /\ attempt = [c \in Calls |-> 0]
    /\ answer = [c \in Calls |-> "none"]
    /\ faults = 0

Cached(p) == {a \in Agents : cache[p][a] # "none"}

\* No call of this process is between reading and replacing a lock file.
LoopFree(p) == \A c \in Calls : ProcOf[c] = p => pc[c] # "claim"

Return(c, value) ==
    /\ pc' = [pc EXCEPT ![c] = "idle"]
    /\ answer' = [answer EXCEPT ![c] = value]
    /\ attempt' = [attempt EXCEPT ![c] = 0]

WaitAt(c, place) ==
    /\ pc' = [pc EXCEPT ![c] = place]
    /\ answer' = [answer EXCEPT ![c] = "none"]
    /\ UNCHANGED attempt

\* Mutant: a lock of one's own process does not count as in use.
AdmitOwn(c, a, held) ==
    LET p == ProcOf[c] IN
    IF Cardinality(Cached(p)) >= MaxInstances THEN Return(c, "full")
    ELSE IF held \in Procs \ {p} THEN Return(c, "inuse")
    ELSE WaitAt(c, "claim")

\* Mutant: the limit is compared with > instead of >=.
AdmitLimit(c, a, held) ==
    IF Cardinality(Cached(ProcOf[c])) > MaxInstances THEN Return(c, "full")
    ELSE IF held \in Procs THEN Return(c, "inuse")
    ELSE WaitAt(c, "claim")

\* The checks before a launch: max_instances, then the lock's pid.
Admit(c, a, held) ==
    IF Cardinality(Cached(ProcOf[c])) >= MaxInstances THEN Return(c, "full")
    ELSE IF held \in Procs THEN Return(c, "inuse")
    ELSE WaitAt(c, "claim")

-----------------------------------------------------------------------------
(* get_browser.                                                            *)

Reuse(c, a) ==
    /\ cache[ProcOf[c]][a] = "open"
    /\ Return(c, "open")
    /\ UNCHANGED <<cache, files, lock>>

\* Mutant: the lock file goes before the close instead of after it.
EvictUnlocked(c, a) ==
    LET p == ProcOf[c] IN
    /\ cache[p][a] = "dead"
    /\ cache' = [cache EXCEPT ![p][a] = "none"]
    /\ lock' = [lock EXCEPT ![a] = "free"]
    /\ WaitAt(c, "closing")
    /\ UNCHANGED files

\* A dead instance leaves the cache before its close is awaited.
Evict(c, a) ==
    LET p == ProcOf[c] IN
    /\ cache[p][a] = "dead"
    /\ cache' = [cache EXCEPT ![p][a] = "none"]
    /\ WaitAt(c, "closing")
    /\ UNCHANGED <<files, lock>>

Enter(c, a) ==
    /\ cache[ProcOf[c]][a] = "none"
    /\ Admit(c, a, lock[a])
    /\ UNCHANGED <<cache, files, lock>>

Get(c, a) ==
    /\ pc[c] = "idle" /\ LoopFree(ProcOf[c])
    /\ agent' = [agent EXCEPT ![c] = a]
    /\ Reuse(c, a) \/ Evict(c, a) \/ Enter(c, a)
    /\ UNCHANGED faults

\* Mutant: close() is awaited without a timeout and never returns.
CloseHangs(c) ==
    /\ pc[c] = "closing" /\ attempt[c] > 0
    /\ pc' = [pc EXCEPT ![c] = "idle"]
    /\ UNCHANGED <<cache, files, lock, agent, attempt, answer, faults>>

\* The rest of _close_instance, once close() and stop() ended or timed out: it
\* unlinks the file if this process listed it, whoever wrote it last.
CloseEnds(c) ==
    LET p == ProcOf[c] a == agent[c]
        left == IF a \in files[p] THEN "free" ELSE lock[a]
    IN
    /\ pc[c] = "closing" /\ LoopFree(p)
    /\ files' = [files EXCEPT ![p] = @ \ {a}]
    /\ lock' = [lock EXCEPT ![a] = left]
    /\ Admit(c, a, left)
    /\ UNCHANGED <<cache, agent, faults>>

Claim(c) ==
    LET p == ProcOf[c] a == agent[c] IN
    /\ pc[c] = "claim"
    /\ lock' = [lock EXCEPT ![a] = p]
    /\ files' = [files EXCEPT ![p] = @ \cup {a}]
    /\ pc' = [pc EXCEPT ![c] = "launch"]
    /\ attempt' = [attempt EXCEPT ![c] = 1]
    /\ UNCHANGED <<cache, agent, answer, faults>>

Launched(c) ==
    /\ pc[c] = "launch" /\ LoopFree(ProcOf[c])
    /\ cache' = [cache EXCEPT ![ProcOf[c]][agent[c]] = "open"]
    /\ Return(c, "open")
    /\ UNCHANGED <<files, lock, agent, faults>>

Retry(c) ==
    /\ attempt[c] < 3
    /\ attempt' = [attempt EXCEPT ![c] = @ + 1]
    /\ UNCHANGED <<cache, pc, answer>>

\* The launch raised; the third time that is BrowserUnavailableError.
LaunchFails(c) ==
    /\ Retry(c) \/ (attempt[c] = 3 /\ Return(c, "failed") /\ UNCHANGED cache)
    /\ UNCHANGED <<files, lock, agent>>

\* The health check failed and the browser was closed.  The third time the loop
\* just ends: the closed instance is cached and returned, or, if no attempt got
\* as far as a page, the unbound name raises.
HealthFails(c) ==
    /\ \/ Retry(c)
       \/ /\ attempt[c] = 3
          /\ cache' = [cache EXCEPT ![ProcOf[c]][agent[c]] = "dead"]
          /\ Return(c, "dead")
       \/ /\ attempt[c] = 3
          /\ Return(c, "failed")
          /\ UNCHANGED cache
    /\ UNCHANGED <<files, lock, agent>>

Fails(c) ==
    /\ pc[c] = "launch" /\ LoopFree(ProcOf[c])
    /\ faults < MaxFaults
    /\ faults' = faults + 1
    /\ LaunchFails(c) \/ HealthFails(c)

\* The driver does not answer one of the awaits that have no timeout: the start
\* of Playwright, new_page, title, or close and stop after a failed health check.
\* The call stays there, with its lock, while the loop serves the others.
Hangs(c) ==
    /\ pc[c] = "launch" /\ LoopFree(ProcOf[c])
    /\ faults < MaxFaults
    /\ faults' = faults + 1
    /\ pc' = [pc EXCEPT ![c] = "hung"]
    /\ UNCHANGED <<cache, files, lock, agent, attempt, answer>>

-----------------------------------------------------------------------------
(* The world.                                                              *)

BrowserDies(p, a) ==
    /\ cache[p][a] = "open"
    /\ faults < MaxFaults
    /\ faults' = faults + 1
    /\ cache' = [cache EXCEPT ![p][a] = "dead"]
    /\ UNCHANGED <<files, lock, task>>

\* A new process takes p's place; its calls are gone.
Restart(p) ==
    /\ cache' = [cache EXCEPT ![p] = [a \in Agents |-> "none"]]
    /\ files' = [files EXCEPT ![p] = {}]
    /\ pc' = [c \in Calls |-> IF ProcOf[c] = p THEN "idle" ELSE pc[c]]
    /\ attempt' = [c \in Calls |-> IF ProcOf[c] = p THEN 0 ELSE attempt[c]]
    /\ answer' = [c \in Calls |-> IF ProcOf[c] = p THEN "none" ELSE answer[c]]
    /\ UNCHANGED agent

ProcessDies(p) ==
    /\ faults < MaxFaults
    /\ faults' = faults + 1
    /\ Restart(p)
    /\ lock' = [a \in Agents |-> IF lock[a] = p THEN "stale" ELSE lock[a]]

\* atexit: shutdown_all closes what is cached and unlinks every listed file;
\* the event loop has ended before it runs.
Shutdown(p) ==
    /\ faults < MaxFaults
    /\ faults' = faults + 1
    /\ LoopFree(p)
    /\ Restart(p)
    /\ lock' = [a \in Agents |-> IF a \in files[p] THEN "free" ELSE lock[a]]

Progress(c) == CloseEnds(c) \/ Claim(c) \/ Launched(c) \/ Fails(c)

Next ==
    \/ \E c \in Calls, a \in Agents : Get(c, a)
    \/ \E c \in Calls : Progress(c) \/ Hangs(c)
    \/ \E p \in Procs, a \in Agents : BrowserDies(p, a)
    \/ \E p \in Procs : ProcessDies(p) \/ Shutdown(p)

Spec == Init /\ [][Next]_vars

\* The event loop resumes every call whose awaited operation ended.  The close of a
\* cached browser times out after 10 s, so it ends; a launch ends or hangs.
FairSpec == Spec /\ \A c \in Calls : WF_vars(Progress(c))

-----------------------------------------------------------------------------
(* Properties.                                                             *)

Launching(p) == {c \in Calls : ProcOf[c] = p /\ pc[c] \in {"claim", "launch", "hung"}}
Using(p, a) == cache[p][a] # "none" \/ \E c \in Launching(p) : agent[c] = a

\* With one process, the lock file serialises its own calls: no agent's browser
\* is launched twice at once, or while one is cached (two awaiting calls of the
\* same agent, a call during the close of a dead browser).
LaunchesOnce ==
    \A p \in Procs : \A c \in Launching(p) :
        /\ cache[p][agent[c]] = "none"
        /\ \A d \in Launching(p) : agent[d] = agent[c] => d = c

\* With one process, a profile in use has this process's lock, so that no other
\* process would take it; a dead browser's lock goes only with its instance, and
\* that of a launch that hangs stays.
UseIsLocked ==
    \A p \in Procs, a \in Agents :
        (cache[p][a] # "none" \/ \E c \in Calls :
              ProcOf[c] = p /\ pc[c] \in {"launch", "hung"} /\ agent[c] = a)
            => lock[a] = p /\ a \in files[p]

\* max_instances is compared before the awaits of a launch, and the instance is
\* cached after them.  What is left of the limit: the pool exceeds it by no more
\* than the calls that were in flight together.
OvershootBounded ==
    \A p \in Procs : LET callers == {c \in Calls : ProcOf[c] = p} IN
        callers # {} /\ MaxInstances > 0 =>
            Cardinality(Cached(p)) + Cardinality(Launching(p))
                <= MaxInstances + Cardinality(callers) - 1

\* Every get_browser call ends, whatever others close, launch or hang in
\* meanwhile, unless its own launch hangs at an await without a timeout
\* (browser_pool.py:211, 220, 222, 228-229).
CallsEnd == \A c \in Calls : pc[c] # "idle" ~> pc[c] \in {"idle", "hung"}
=============================================================================

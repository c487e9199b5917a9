----------------------------- MODULE RateLimiter -----------------------------
(***************************************************************************)
(* guard/rate_limiter.py: two fixed-window counters in Redis, one per      *)
(* agent and one for the whole domain, shared by every process that runs   *)
(* RateLimiter.check (the SSE server, one stdio server per agent, and the  *)
(* "status" command, which checks the agent "default").  Each Redis        *)
(* command is atomic; check() is not, so it is split at its commands.      *)
(* TTL reads change nothing and are left out, as are the remaining and     *)
(* reset figures of the answer.                                            *)
(***************************************************************************)
EXTENDS Integers, FiniteSets

CONSTANTS
    Agents,         \* agent ids that send
    Domain,         \* names the key rate:domain
    Callers,        \* processes that run check()
    PerAgent,       \* per_agent_per_hour
    DomainPerDay,   \* domain_per_day
    MaxCount,       \* bound: no new call once a counter has this value
    MaxFaults       \* bound: Redis errors and process crashes

ASSUME RateLimiterAssumption ==
    /\ Domain \notin Agents
    /\ PerAgent \in Nat /\ DomainPerDay \in Nat
    /\ MaxCount \in Nat /\ MaxFaults \in Nat

Keys == Agents \cup {Domain}
Limit(k) == IF k = Domain THEN DomainPerDay ELSE PerAgent

VARIABLES
    count,      \* Redis: value of each key, 0 when the key does not exist
    armed,      \* Redis: keys that carry an expiry
    pc,         \* the command of check() each caller runs next
    who,        \* the agent_id argument
    ticket,     \* local agent_count and domain_count
    faults,
    window,     \* history: keys not expired since this caller's INCR
    granted,    \* history: tickets granted in the key's current window
    mails       \* history: number of grants in the key's current window

vars == <<count, armed, pc, who, ticket, faults, window, granted, mails>>
redis == <<count, armed>>
grants == <<granted, mails>>

Labels == {"idle", "agentExpire", "domainIncr", "domainExpire", "decide"}
NoTicket == [agent |-> 0, domain |-> 0]

TypeOK ==
    /\ count \in [Keys -> Nat]
    /\ armed \in SUBSET Keys
    /\ pc \in [Callers -> Labels]
    /\ who \in [Callers -> Agents]
    /\ ticket \in [Callers -> [agent: Nat, domain: Nat]]
    /\ faults \in Nat
    /\ window \in [Callers -> SUBSET Keys]
    /\ granted \in [Keys -> SUBSET Nat]
    /\ mails \in [Keys -> Nat]

Init ==
    /\ count = [k \in Keys |-> 0]
    /\ armed = {}
    /\ pc = [c \in Callers |-> "idle"]
    /\ who \in [Callers -> Agents]
    /\ ticket = [c \in Callers |-> NoTicket]
    /\ faults = 0
    /\ window = [c \in Callers |-> {}]
    /\ granted = [k \in Keys |-> {}]
    /\ mails = [k \in Keys |-> 0]

-----------------------------------------------------------------------------
(* One check(agent_id), command by command.  Leaving check() forgets its   *)
(* locals.                                                                 *)

Leave(c) ==
    /\ pc' = [pc EXCEPT ![c] = "idle"]
    /\ ticket' = [ticket EXCEPT ![c] = NoTicket]
    /\ window' = [window EXCEPT ![c] = {}]

IncrAgent(c, a) ==
    /\ pc[c] = "idle"
    /\ count[a] < MaxCount /\ count[Domain] < MaxCount
    /\ who' = [who EXCEPT ![c] = a]
    /\ count' = [count EXCEPT ![a] = @ + 1]
    /\ ticket' = [ticket EXCEPT ![c].agent = count[a] + 1]
    /\ window' = [window EXCEPT ![c] = {a}]
    /\ pc' = [pc EXCEPT ![c] = IF count[a] = 0 THEN "agentExpire" ELSE "domainIncr"]
    /\ UNCHANGED <<armed, faults, grants>>

ExpireAgent(c) ==
    /\ pc[c] = "agentExpire"
    /\ armed' = armed \cup {who[c]}
    /\ pc' = [pc EXCEPT ![c] = "domainIncr"]
    /\ UNCHANGED <<count, who, ticket, faults, window, grants>>

\* Mutant: the counter is read, then written back, instead of INCR: a caller
\* may be handed a number another caller already holds.
IncrDomainStale(c) ==
    LET n == count[Domain] + 1 IN
    /\ pc[c] = "domainIncr"
    /\ \E m \in {count[Domain], n} : count' = [count EXCEPT ![Domain] = m]
    /\ ticket' = [ticket EXCEPT ![c].domain = n]
    /\ window' = [window EXCEPT ![c] = @ \cup {Domain}]
    /\ pc' = [pc EXCEPT ![c] = IF n = 1 THEN "domainExpire" ELSE "decide"]
    /\ UNCHANGED <<armed, who, faults, grants>>

IncrDomain(c) ==
    /\ pc[c] = "domainIncr"
    /\ count' = [count EXCEPT ![Domain] = @ + 1]
    /\ ticket' = [ticket EXCEPT ![c].domain = count[Domain] + 1]
    /\ window' = [window EXCEPT ![c] = @ \cup {Domain}]
    /\ pc' = [pc EXCEPT ![c] = IF count[Domain] = 0 THEN "domainExpire" ELSE "decide"]
    /\ UNCHANGED <<armed, who, faults, grants>>

\* Mutant: the domain key is never given an expiry.
ExpireDomainForgotten(c) ==
    /\ pc[c] = "domainExpire"
    /\ pc' = [pc EXCEPT ![c] = "decide"]
    /\ UNCHANGED <<redis, who, ticket, faults, window, grants>>

ExpireDomain(c) ==
    /\ pc[c] = "domainExpire"
    /\ armed' = armed \cup {Domain}
    /\ pc' = [pc EXCEPT ![c] = "decide"]
    /\ UNCHANGED <<count, who, ticket, faults, window, grants>>

\* Mutant: off by one, the agent's comparison accepts one mail too many.
AnswerOffByOne(c) ==
    IF ticket[c].agent > PerAgent + 1 THEN "agentDenied"
    ELSE IF ticket[c].domain > DomainPerDay THEN "domainDenied"
    ELSE "allowed"

\* The agent's limit is tested before the domain's, on the values INCR returned.
Answer(c) ==
    IF ticket[c].agent > PerAgent THEN "agentDenied"
    ELSE IF ticket[c].domain > DomainPerDay THEN "domainDenied"
    ELSE "allowed"

TicketFor(c, k) == IF k = Domain THEN ticket[c].domain ELSE ticket[c].agent

\* The keys in whose current window an "allowed" answer to c counts.
Counted(c) == IF Answer(c) = "allowed" THEN window[c] ELSE {}

Decide(c) ==
    /\ pc[c] = "decide"
    /\ Leave(c)
    /\ granted' = [k \in Keys |->
            IF k \in Counted(c) THEN granted[k] \cup {TicketFor(c, k)} ELSE granted[k]]
    /\ mails' = [k \in Keys |-> IF k \in Counted(c) THEN mails[k] + 1 ELSE mails[k]]
    /\ UNCHANGED <<redis, who, faults>>

-----------------------------------------------------------------------------
(* The environment: keys expire, Redis calls raise, processes die.         *)

\* Mutant: the end of a window refills the counter instead of deleting it.
KeyRefills(k) ==
    /\ k \in armed
    /\ count' = [count EXCEPT ![k] = @ - Limit(k)]
    /\ armed' = armed \ {k}
    /\ window' = [c \in Callers |-> window[c] \ {k}]
    /\ granted' = [granted EXCEPT ![k] = {}]
    /\ mails' = [mails EXCEPT ![k] = 0]
    /\ UNCHANGED <<pc, who, ticket, faults>>

KeyExpires(k) ==
    /\ k \in armed
    /\ count' = [count EXCEPT ![k] = 0]
    /\ armed' = armed \ {k}
    /\ window' = [c \in Callers |-> window[c] \ {k}]
    /\ granted' = [granted EXCEPT ![k] = {}]
    /\ mails' = [mails EXCEPT ![k] = 0]
    /\ UNCHANGED <<pc, who, ticket, faults>>

\* The call after the first INCR that c makes next raises.  The command itself
\* may have been applied (only the reply was lost) or not; the except clause
\* answers "allowed" either way and no later command runs.
RedisFails(c) ==
    /\ pc[c] \in {"agentExpire", "domainIncr", "domainExpire"}
    /\ faults < MaxFaults
    /\ faults' = faults + 1
    /\ Leave(c)
    /\ \/ UNCHANGED redis
       \/ /\ pc[c] = "domainIncr"
          /\ count' = [count EXCEPT ![Domain] = @ + 1]
          /\ UNCHANGED armed
       \/ /\ pc[c] \in {"agentExpire", "domainExpire"}
          /\ armed' = armed \cup {IF pc[c] = "agentExpire" THEN who[c] ELSE Domain}
          /\ UNCHANGED count
    /\ UNCHANGED <<who, grants>>

\* The very first INCR is applied but its reply is lost (when it is not applied
\* nothing changes at all).
FirstReplyLost(c, a) ==
    /\ pc[c] = "idle"
    /\ count[a] < MaxCount
    /\ faults < MaxFaults
    /\ faults' = faults + 1
    /\ count' = [count EXCEPT ![a] = @ + 1]
    /\ UNCHANGED <<armed, pc, who, ticket, window, grants>>

\* The process dies; its Redis writes stay.
Crash(c) ==
    /\ pc[c] # "idle"
    /\ faults < MaxFaults
    /\ faults' = faults + 1
    /\ Leave(c)
    /\ UNCHANGED <<redis, who, grants>>

Step(c) == ExpireAgent(c) \/ IncrDomain(c) \/ ExpireDomain(c) \/ Decide(c)

Next ==
    \/ \E c \in Callers : Step(c) \/ RedisFails(c) \/ Crash(c)
    \/ \E c \in Callers, a \in Agents : IncrAgent(c, a) \/ FirstReplyLost(c, a)
    \/ \E k \in Keys : KeyExpires(k)

Spec == Init /\ [][Next]_vars

\* A caller inside check() keeps running, and Redis does expire armed keys.
FairSpec ==
    /\ Spec
    /\ \A c \in Callers : WF_vars(Step(c))
    /\ \A k \in Keys : WF_vars(KeyExpires(k))

-----------------------------------------------------------------------------
(* Properties.                                                             *)

\* However callers interleave, expire, fail or crash, the number of mails
\* granted on the strength of a counter between two expiries of that counter
\* never exceeds its limit (the comparisons at lines 53 and 60).
WithinQuota == \A k \in Keys : mails[k] <= Limit(k)

\* INCR hands out each number once per window, so no two callers are granted
\* the same one: every grant of a window has a ticket of its own.  This is what
\* makes "increment, then compare" safe without a lock.
TicketsGrantedOnce == \A k \in Keys : mails[k] = Cardinality(granted[k])

\* An exhausted counter is reset in the end: nobody is locked out for good,
\* unless a fault fell between an INCR and its EXPIRE (a key without a TTL is
\* never reset: lines 38-40 send EXPIRE only when INCR returned 1).
QuotaReopens ==
    \A k \in Keys :
        (count[k] > Limit(k) /\ faults = 0) ~> (count[k] = 0 \/ faults > 0)
=============================================================================

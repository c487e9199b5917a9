-------------------------- MODULE RateLimiterProofs --------------------------
(***************************************************************************)
(* Theorems about RateLimiter: its type invariant, TicketsGrantedOnce and  *)
(* WithinQuota, for any agents, callers, limits and numbers of faults.     *)
(***************************************************************************)
EXTENDS RateLimiter, FiniteSetTheorems, TLAPS

USE RateLimiterAssumption DEF Keys

\* check(), its failures and the expiries keep every counter, ticket and answer
\* within its type.
THEOREM TypeCorrect == Spec => []TypeOK
<1>1. Init => TypeOK
  BY DEF Init, TypeOK, Labels, NoTicket
<1>2. TypeOK /\ [Next]_vars => TypeOK'
  <2> SUFFICES ASSUME TypeOK, [Next]_vars PROVE TypeOK'
    OBVIOUS
  <2> USE DEF TypeOK, Labels, NoTicket, redis, grants
  <2>1. ASSUME NEW c \in Callers, NEW a \in Agents, IncrAgent(c, a) PROVE TypeOK'
    BY <2>1 DEF IncrAgent
  <2>2. ASSUME NEW c \in Callers, ExpireAgent(c) PROVE TypeOK'
    BY <2>2 DEF ExpireAgent
  <2>3. ASSUME NEW c \in Callers, IncrDomain(c) PROVE TypeOK'
    BY <2>3 DEF IncrDomain
  <2>4. ASSUME NEW c \in Callers, ExpireDomain(c) PROVE TypeOK'
    BY <2>4 DEF ExpireDomain
  <2>5. ASSUME NEW c \in Callers, Decide(c) PROVE TypeOK'
    <3>1. \A k \in Keys : TicketFor(c, k) \in Nat
      BY DEF TicketFor
    <3>2. granted' \in [Keys -> SUBSET Nat] /\ mails' \in [Keys -> Nat]
      BY <2>5, <3>1 DEF Decide
    <3>3. QED BY <2>5, <3>2 DEF Decide, Leave
  <2>6. ASSUME NEW k \in Keys, KeyExpires(k) PROVE TypeOK'
    BY <2>6 DEF KeyExpires
  <2>7. ASSUME NEW c \in Callers, RedisFails(c) PROVE TypeOK'
    <3>1. pc' \in [Callers -> Labels] /\ ticket' \in [Callers -> [agent: Nat, domain: Nat]]
          /\ window' \in [Callers -> SUBSET Keys]
      BY <2>7 DEF RedisFails, Leave
    <3>2. faults' \in Nat /\ UNCHANGED <<who, granted, mails>>
      BY <2>7 DEF RedisFails
    <3>3. count' \in [Keys -> Nat] /\ armed' \in SUBSET Keys
      BY <2>7 DEF RedisFails
    <3>4. QED BY <3>1, <3>2, <3>3
  <2>8. ASSUME NEW c \in Callers, NEW a \in Agents, FirstReplyLost(c, a) PROVE TypeOK'
    BY <2>8 DEF FirstReplyLost
  <2>9. ASSUME NEW c \in Callers, Crash(c) PROVE TypeOK'
    BY <2>9 DEF Crash, Leave
  <2>10. CASE UNCHANGED vars
    BY <2>10 DEF vars
  <2>11. QED
    BY <2>1, <2>2, <2>3, <2>4, <2>5, <2>6, <2>7, <2>8, <2>9, <2>10 DEF Next, Step, Keys
<1>3. QED
  BY <1>1, <1>2, PTL DEF Spec

(***************************************************************************)
(* The invariant behind WithinQuota.  While a key lives its counter only   *)
(* grows, so the tickets handed out in its current window are distinct and *)
(* at most the counter; a ticket is granted once, and only up to the limit.*)
(***************************************************************************)
WindowInv ==
    \A c \in Callers :
        /\ window[c] \subseteq {who[c], Domain}
        /\ pc[c] = "idle" => window[c] = {}
        /\ Domain \in window[c] => pc[c] \in {"domainExpire", "decide"}

TicketInv ==
    \A c \in Callers : \A k \in window[c] :
        TicketFor(c, k) \in 1..count[k] /\ TicketFor(c, k) \notin granted[k]

DistinctInv ==
    \A c, d \in Callers : c # d =>
        \A k \in window[c] \cap window[d] : TicketFor(c, k) # TicketFor(d, k)

GrantInv == \A k \in Keys : granted[k] \subseteq 1..count[k] /\ granted[k] \subseteq 1..Limit(k)

CountInv == \A k \in Keys : IsFiniteSet(granted[k]) /\ mails[k] = Cardinality(granted[k])

QuotaInv == WindowInv /\ TicketInv /\ DistinctInv /\ GrantInv /\ CountInv

LEMMA QuotaInvInit == Init => QuotaInv
<1> SUFFICES ASSUME Init PROVE QuotaInv
  OBVIOUS
<1>1. CountInv
  BY FS_EmptySet DEF Init, CountInv
<1>2. WindowInv /\ TicketInv /\ DistinctInv /\ GrantInv
  BY DEF Init, WindowInv, TicketInv, DistinctInv, GrantInv
<1>3. QED BY <1>1, <1>2 DEF QuotaInv

(***************************************************************************)
(* INCR: caller c receives the next number of key k.                       *)
(***************************************************************************)
LEMMA Incremented ==
    ASSUME TypeOK, TypeOK', QuotaInv, NEW k \in Keys, NEW c \in Callers,
           count' = [count EXCEPT ![k] = @ + 1],
           k \in window'[c], k \notin window[c],
           TicketFor(c, k)' = count[k] + 1,
           \A j \in window'[c] \ {k} : j \in window[c] /\ TicketFor(c, j)' = TicketFor(c, j),
           \A d \in Callers \ {c} :
               window'[d] = window[d] /\ \A j \in Keys : TicketFor(d, j)' = TicketFor(d, j),
           UNCHANGED <<granted, mails>>
    PROVE  TicketInv' /\ DistinctInv' /\ GrantInv' /\ CountInv'
<1> USE DEF TypeOK, QuotaInv
<1>1. count'[k] = count[k] + 1 /\ \A j \in Keys \ {k} : count'[j] = count[j]
  OBVIOUS
<1>2. GrantInv' /\ CountInv'
  <2>1. \A j \in Keys : count[j] \in Nat /\ count'[j] \in Nat /\ count[j] <= count'[j]
    BY <1>1
  <2>2. GrantInv'
    BY <2>1 DEF GrantInv, Limit
  <2>3. QED BY <2>2 DEF CountInv
<1>3. ASSUME NEW d \in Callers, NEW j \in window'[d]
      PROVE  TicketFor(d, j)' \in 1..count'[j] /\ TicketFor(d, j)' \notin granted'[j]
  <2>1. CASE d = c /\ j = k
    BY <2>1, <1>1 DEF GrantInv
  <2>2. CASE ~(d = c /\ j = k)
    <3>1. j \in window[d] /\ TicketFor(d, j)' = TicketFor(d, j) /\ j \in Keys
      BY <2>2
    <3>2. TicketFor(d, j) \in 1..count[j] /\ TicketFor(d, j) \notin granted[j]
      BY <3>1 DEF TicketInv
    <3>3. count[j] \in Nat /\ count'[j] \in Nat /\ count[j] <= count'[j]
      BY <3>1, <1>1
    <3>4. QED BY <3>1, <3>2, <3>3
  <2>3. QED BY <2>1, <2>2
<1>4. ASSUME NEW d \in Callers, NEW e \in Callers, d # e, NEW j \in window'[d] \cap window'[e]
      PROVE  TicketFor(d, j)' # TicketFor(e, j)'
  <2>1. \A f \in Callers : k \in window[f] => TicketFor(f, k) \in 1..count[k]
    BY DEF TicketInv
  <2>2. CASE j = k /\ (d = c \/ e = c)
    BY <2>1, <2>2, <1>4
  <2>3. CASE ~(j = k /\ (d = c \/ e = c))
    <3>1. j \in window[d] /\ j \in window[e]
      BY <2>3, <1>4
    <3>2. TicketFor(d, j)' = TicketFor(d, j) /\ TicketFor(e, j)' = TicketFor(e, j)
      BY <2>3, <1>4
    <3>3. QED BY <3>1, <3>2, <1>4 DEF DistinctInv
  <2>4. QED BY <2>2, <2>3
<1>5. QED
  BY <1>2, <1>3, <1>4 DEF TicketInv, DistinctInv

(***************************************************************************)
(* Callers leaving check(), or keys leaving their windows, without a grant.*)
(***************************************************************************)
LEMMA Shrunk ==
    ASSUME TypeOK, TypeOK', QuotaInv,
           \A c \in Callers : window'[c] \subseteq window[c],
           \A c \in Callers : \A k \in window'[c] :
               /\ TicketFor(c, k)' = TicketFor(c, k)
               /\ granted'[k] = granted[k] /\ count[k] <= count'[k]
    PROVE  TicketInv' /\ DistinctInv'
<1>1. ASSUME NEW c \in Callers, NEW k \in window'[c]
      PROVE  TicketFor(c, k)' \in 1..count'[k] /\ TicketFor(c, k)' \notin granted'[k]
  <2>1. k \in window[c] /\ k \in Keys /\ TicketFor(c, k) \in 1..count[k] /\ TicketFor(c, k) \notin granted[k]
    BY DEF QuotaInv, TicketInv, TypeOK
  <2>2. count[k] \in Nat /\ count'[k] \in Nat
    BY <2>1 DEF TypeOK
  <2>3. QED BY <2>1, <2>2
<1>2. DistinctInv'
  BY DEF QuotaInv, DistinctInv
<1>3. QED
  BY <1>1, <1>2 DEF TicketInv

LEMMA DecideKeepsQuota ==
    ASSUME TypeOK, TypeOK', QuotaInv, NEW c \in Callers, Decide(c)
    PROVE  QuotaInv'
<1> USE DEF TypeOK, QuotaInv
<1>1. /\ window' = [window EXCEPT ![c] = {}] /\ pc' = [pc EXCEPT ![c] = "idle"]
      /\ ticket' = [ticket EXCEPT ![c] = NoTicket] /\ UNCHANGED <<count, armed, who, faults>>
  BY DEF Decide, Leave, redis
<1>2. \A k \in Keys :
          /\ granted'[k] = IF k \in Counted(c) THEN granted[k] \cup {TicketFor(c, k)} ELSE granted[k]
          /\ mails'[k] = IF k \in Counted(c) THEN mails[k] + 1 ELSE mails[k]
  BY DEF Decide
<1>3. \A k \in Counted(c) : /\ k \in window[c] /\ k \in Keys
                            /\ TicketFor(c, k) \in 1..count[k] /\ TicketFor(c, k) \notin granted[k]
                            /\ TicketFor(c, k) \in 1..Limit(k)
  <2> SUFFICES ASSUME NEW k \in Counted(c)
               PROVE  /\ k \in window[c] /\ k \in Keys
                      /\ TicketFor(c, k) \in 1..count[k] /\ TicketFor(c, k) \notin granted[k]
                      /\ TicketFor(c, k) \in 1..Limit(k)
    OBVIOUS
  <2>1. k \in window[c] /\ Answer(c) = "allowed"
    BY DEF Counted
  <2>2. k \in Keys /\ TicketFor(c, k) \in 1..count[k] /\ TicketFor(c, k) \notin granted[k]
    BY <2>1 DEF TicketInv
  <2>3. ticket[c].agent <= PerAgent /\ ticket[c].domain <= DomainPerDay
    BY <2>1 DEF Answer
  <2>4. TicketFor(c, k) \in 1..Limit(k)
    BY <2>2, <2>3 DEF TicketFor, Limit
  <2>5. QED BY <2>1, <2>2, <2>4
<1>4. WindowInv'
  BY <1>1 DEF WindowInv
<1>5. GrantInv'
  <2> SUFFICES ASSUME NEW k \in Keys
               PROVE  granted'[k] \subseteq 1..count[k] /\ granted'[k] \subseteq 1..Limit(k)
    BY <1>1 DEF GrantInv, Limit
  <2>1. granted[k] \subseteq 1..count[k] /\ granted[k] \subseteq 1..Limit(k)
    BY DEF GrantInv
  <2>2. CASE k \in Counted(c)
    BY <2>1, <2>2, <1>2, <1>3
  <2>3. CASE k \notin Counted(c)
    BY <2>1, <2>3, <1>2
  <2>4. QED BY <2>2, <2>3
<1>6. CountInv'
  <2> SUFFICES ASSUME NEW k \in Keys
               PROVE  IsFiniteSet(granted'[k]) /\ mails'[k] = Cardinality(granted'[k])
    BY DEF CountInv
  <2>1. IsFiniteSet(granted[k]) /\ mails[k] = Cardinality(granted[k])
    BY DEF CountInv
  <2>2. CASE k \in Counted(c)
    <3>1. IsFiniteSet(granted[k] \cup {TicketFor(c, k)})
          /\ Cardinality(granted[k] \cup {TicketFor(c, k)}) = Cardinality(granted[k]) + 1
      BY <2>1, <2>2, <1>3, FS_AddElement
    <3>2. QED BY <3>1, <2>1, <2>2, <1>2
  <2>3. CASE k \notin Counted(c)
    BY <2>1, <2>3, <1>2
  <2>4. QED BY <2>2, <2>3
<1>7. ASSUME NEW d \in Callers, NEW k \in window'[d]
      PROVE  TicketFor(d, k)' \in 1..count'[k] /\ TicketFor(d, k)' \notin granted'[k]
  <2>1. d # c /\ k \in window[d] /\ k \in Keys
    BY <1>1
  <2>2. TicketFor(d, k)' = TicketFor(d, k)
    BY <1>1, <2>1 DEF TicketFor
  <2>3. TicketFor(d, k) \in 1..count[k] /\ TicketFor(d, k) \notin granted[k]
    BY <2>1 DEF TicketInv
  <2>4. k \in Counted(c) => TicketFor(d, k) # TicketFor(c, k)
    BY <2>1, <1>3 DEF DistinctInv
  <2>5. granted'[k] \subseteq granted[k] \cup {TicketFor(c, k)} /\ count'[k] = count[k]
    BY <2>1, <1>1, <1>2
  <2>6. CASE k \in Counted(c)
    BY <2>2, <2>3, <2>4, <2>5, <2>6
  <2>7. CASE k \notin Counted(c)
    <3>1. granted'[k] = granted[k]
      BY <2>1, <2>7, <1>2
    <3>2. QED BY <3>1, <2>2, <2>3, <2>5
  <2>8. QED BY <2>6, <2>7
<1>8. ASSUME NEW d \in Callers, NEW e \in Callers, d # e, NEW k \in window'[d] \cap window'[e]
      PROVE  TicketFor(d, k)' # TicketFor(e, k)'
  <2>1. d # c /\ e # c /\ k \in window[d] \cap window[e]
    BY <1>1
  <2>2. TicketFor(d, k)' = TicketFor(d, k) /\ TicketFor(e, k)' = TicketFor(e, k)
    BY <1>1, <2>1 DEF TicketFor
  <2>3. QED BY <1>8, <2>1, <2>2 DEF DistinctInv
<1>9. TicketInv' /\ DistinctInv'
  BY <1>7, <1>8 DEF TicketInv, DistinctInv
<1> HIDE DEF TypeOK
<1>10. QED
  BY <1>4, <1>5, <1>6, <1>9

LEMMA QuotaInvStep == TypeOK /\ TypeOK' /\ QuotaInv /\ [Next]_vars => QuotaInv'
<1> SUFFICES ASSUME TypeOK, TypeOK', QuotaInv, [Next]_vars PROVE QuotaInv'
  OBVIOUS
<1> USE DEF redis, grants
<1>1. ASSUME NEW c \in Callers, NEW a \in Agents, IncrAgent(c, a) PROVE QuotaInv'
  <2>1. window[c] = {} /\ window'[c] = {a} /\ who'[c] = a /\ a # Domain
    BY <1>1 DEF IncrAgent, QuotaInv, WindowInv, TypeOK
  <2>2. TicketFor(c, a)' = count[a] + 1
    BY <1>1, <2>1 DEF IncrAgent, TicketFor, TypeOK
  <2>3. \A d \in Callers \ {c} :
            /\ window'[d] = window[d] /\ who'[d] = who[d] /\ pc'[d] = pc[d]
            /\ \A j \in Keys : TicketFor(d, j)' = TicketFor(d, j)
    BY <1>1 DEF IncrAgent, TicketFor, TypeOK
  <2>4. TicketInv' /\ DistinctInv' /\ GrantInv' /\ CountInv'
    <3>1. count' = [count EXCEPT ![a] = @ + 1] /\ UNCHANGED <<granted, mails>> /\ a \in Keys
      BY <1>1 DEF IncrAgent
    <3>2. a \in window'[c] /\ a \notin window[c] /\ window'[c] \ {a} = {}
      BY <2>1
    <3>3. \A j \in window'[c] \ {a} : j \in window[c] /\ TicketFor(c, j)' = TicketFor(c, j)
      BY <3>2
    <3>4. \A d \in Callers \ {c} :
              window'[d] = window[d] /\ \A j \in Keys : TicketFor(d, j)' = TicketFor(d, j)
      BY <2>3
    <3>5. QED BY <3>1, <3>2, <3>3, <3>4, <2>2, Incremented
  <2>5. WindowInv'
    <3>1. pc'[c] # "idle"
      BY <1>1 DEF IncrAgent, TypeOK
    <3>2. QED BY <3>1, <2>1, <2>3 DEF QuotaInv, WindowInv
  <2>6. QED BY <2>4, <2>5 DEF QuotaInv
<1>2. ASSUME NEW c \in Callers, IncrDomain(c) PROVE QuotaInv'
  <2>1. /\ Domain \notin window[c] /\ window'[c] = window[c] \cup {Domain}
        /\ pc'[c] \in {"domainExpire", "decide"} /\ UNCHANGED who
    BY <1>2 DEF IncrDomain, QuotaInv, WindowInv, TypeOK
  <2>2. /\ TicketFor(c, Domain)' = count[Domain] + 1
        /\ \A j \in Keys \ {Domain} : TicketFor(c, j)' = TicketFor(c, j)
    BY <1>2 DEF IncrDomain, TicketFor, TypeOK
  <2>3. \A d \in Callers \ {c} :
            /\ window'[d] = window[d] /\ pc'[d] = pc[d]
            /\ \A j \in Keys : TicketFor(d, j)' = TicketFor(d, j)
    BY <1>2 DEF IncrDomain, TicketFor, TypeOK
  <2>4. TicketInv' /\ DistinctInv' /\ GrantInv' /\ CountInv'
    <3>1. count' = [count EXCEPT ![Domain] = @ + 1] /\ UNCHANGED <<granted, mails>>
      BY <1>2 DEF IncrDomain
    <3>2. \A j \in window'[c] \ {Domain} : j \in window[c] /\ TicketFor(c, j)' = TicketFor(c, j)
      BY <2>1, <2>2 DEF TypeOK
    <3>3. QED BY <3>1, <3>2, <2>1, <2>2, <2>3, Incremented
  <2>5. WindowInv'
    BY <2>1, <2>3 DEF QuotaInv, WindowInv
  <2>6. QED BY <2>4, <2>5 DEF QuotaInv
<1>3. ASSUME NEW c \in Callers, Decide(c) PROVE QuotaInv'
  BY <1>3, DecideKeepsQuota
<1>4. ASSUME NEW k \in Keys, KeyExpires(k) PROVE QuotaInv'
  <2>1. /\ \A c \in Callers : window'[c] = window[c] \ {k}
        /\ UNCHANGED <<pc, who, ticket>>
        /\ count'[k] = 0 /\ granted'[k] = {} /\ mails'[k] = 0
        /\ \A j \in Keys \ {k} : count'[j] = count[j] /\ granted'[j] = granted[j] /\ mails'[j] = mails[j]
    BY <1>4 DEF KeyExpires, TypeOK
  <2>2. WindowInv'
    BY <2>1 DEF QuotaInv, WindowInv
  <2>3. TicketInv' /\ DistinctInv'
    <3>1. \A c \in Callers : window'[c] \subseteq window[c] /\ window'[c] \subseteq Keys \ {k}
      BY <2>1 DEF TypeOK
    <3>2. \A c \in Callers : \A j \in window'[c] : TicketFor(c, j)' = TicketFor(c, j)
      BY <2>1 DEF TicketFor
    <3>3. \A c \in Callers : \A j \in window'[c] : granted'[j] = granted[j] /\ count[j] <= count'[j]
      BY <3>1, <2>1 DEF TypeOK
    <3>4. QED BY <3>1, <3>2, <3>3, Shrunk
  <2>4. GrantInv'
    BY <2>1 DEF QuotaInv, GrantInv, Limit
  <2>5. CountInv'
    BY <2>1, FS_EmptySet DEF QuotaInv, CountInv
  <2>6. QED BY <2>2, <2>3, <2>4, <2>5 DEF QuotaInv
<1>5. ASSUME NEW c \in Callers,
             Leave(c) \/ UNCHANGED <<window, ticket, pc>>, UNCHANGED <<who, granted, mails>>,
             \A k \in Keys : count[k] <= count'[k]
      PROVE  QuotaInv'
  <2>1. \A d \in Callers : window'[d] \subseteq window[d] /\ (window'[d] # {} => pc'[d] = pc[d])
                           /\ (pc[d] = "idle" \/ pc'[d] # pc[d] => window'[d] = {})
    BY <1>5 DEF Leave, TypeOK, QuotaInv, WindowInv
  <2>2. \A d \in Callers : \A k \in window'[d] : TicketFor(d, k)' = TicketFor(d, k) /\ k \in Keys
    BY <1>5 DEF Leave, TicketFor, TypeOK
  <2>3. TicketInv' /\ DistinctInv'
    BY <1>5, <2>1, <2>2, Shrunk
  <2>4. WindowInv'
    BY <1>5, <2>1 DEF QuotaInv, WindowInv
  <2>5. GrantInv'
    <3>1. \A k \in Keys : count[k] \in Nat /\ count'[k] \in Nat
      BY DEF TypeOK
    <3>2. QED BY <1>5, <3>1 DEF QuotaInv, GrantInv, Limit
  <2>6. CountInv'
    BY <1>5 DEF QuotaInv, CountInv
  <2>7. QED BY <2>3, <2>4, <2>5, <2>6 DEF QuotaInv
<1>6. ASSUME NEW c \in Callers, RedisFails(c) PROVE QuotaInv'
  <2>1. Leave(c) /\ UNCHANGED <<who, granted, mails>>
    BY <1>6 DEF RedisFails
  <2>2. \A k \in Keys : count[k] <= count'[k]
    BY <1>6 DEF RedisFails, TypeOK
  <2>3. QED BY <2>1, <2>2, <1>5
<1>7. ASSUME NEW c \in Callers, NEW a \in Agents, FirstReplyLost(c, a) PROVE QuotaInv'
  <2>1. \A k \in Keys : count[k] <= count'[k]
    BY <1>7 DEF FirstReplyLost, TypeOK
  <2>2. QED BY <1>5, <1>7, <2>1 DEF FirstReplyLost
<1>8. ASSUME NEW c \in Callers, Crash(c) PROVE QuotaInv'
  <2>1. \A k \in Keys : count[k] <= count'[k]
    BY <1>8 DEF Crash, TypeOK
  <2>2. QED BY <1>5, <1>8, <2>1 DEF Crash
<1>9. ASSUME NEW c \in Callers, ExpireAgent(c) \/ ExpireDomain(c) PROVE QuotaInv'
  <2>1. /\ UNCHANGED <<count, who, ticket, window, granted, mails>>
        /\ \A d \in Callers : pc'[d] = IF d = c THEN pc'[c] ELSE pc[d]
        /\ pc'[c] # "idle" /\ (pc[c] = "domainExpire" => pc'[c] = "decide")
        /\ pc[c] \in {"agentExpire", "domainExpire"}
    BY <1>9 DEF ExpireAgent, ExpireDomain, TypeOK
  <2>2. WindowInv'
    BY <2>1 DEF QuotaInv, WindowInv
  <2>3. TicketInv' /\ DistinctInv' /\ GrantInv' /\ CountInv'
    BY <2>1 DEF QuotaInv, TicketInv, DistinctInv, GrantInv, CountInv, TicketFor, Limit
  <2>4. QED BY <2>2, <2>3 DEF QuotaInv
<1>10. CASE UNCHANGED vars
  BY <1>10 DEF vars, QuotaInv, WindowInv, TicketInv, DistinctInv, GrantInv, CountInv, TicketFor, Limit
<1>11. QED
  BY <1>1, <1>2, <1>3, <1>4, <1>6, <1>7, <1>8, <1>9, <1>10 DEF Next, Step

\* Between two expiries of a counter no two callers are granted the same number.
THEOREM TicketsAreGrantedOnce == Spec => []TicketsGrantedOnce
<1>1. QuotaInv => TicketsGrantedOnce
  BY DEF QuotaInv, CountInv, TicketsGrantedOnce
<1>2. QED
  BY <1>1, TypeCorrect, QuotaInvInit, QuotaInvStep, PTL DEF Spec

\* Whatever the interleaving, crashes, Redis errors and expiries, the grants
\* counted in a window never exceed the limit of its counter.
THEOREM QuotaHolds == Spec => []WithinQuota
<1>1. QuotaInv => WithinQuota
  <2> SUFFICES ASSUME QuotaInv, NEW k \in Keys PROVE mails[k] <= Limit(k)
    BY DEF WithinQuota
  <2>1. Limit(k) \in Nat
    BY DEF Limit
  <2>2. granted[k] \in SUBSET (1..Limit(k)) /\ mails[k] = Cardinality(granted[k])
    BY DEF QuotaInv, GrantInv, CountInv
  <2>3. IsFiniteSet(1..Limit(k)) /\ Cardinality(1..Limit(k)) = Limit(k)
    BY <2>1, FS_Interval
  <2>4. QED BY <2>2, <2>3, FS_Subset
<1>2. QED
  BY <1>1, TypeCorrect, QuotaInvInit, QuotaInvStep, PTL DEF Spec
=============================================================================

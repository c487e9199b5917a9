------------------------------ MODULE McpServer ------------------------------
(***************************************************************************)
(* guard/mcp_server.py: SSE sessions, the account each tool call runs for, *)
(* and send_email; with the account database (auth/accounts.py) and the    *)
(* REST process that changes it meanwhile: onboarding, administration and  *)
(* key rotation (auth/middleware.py, guard/rest_server.py).                *)
(*                                                                         *)
(* The MCP process is one event loop.  authenticate and send_email do not  *)
(* await, so they hold it, but each of their queries sees what the REST    *)
(* process committed before it.  Calls over stdio run in MCP processes of  *)
(* their own, without an account.  The rate limiter and the approval queue *)
(* are modules of their own: here they answer either way.                  *)
(***************************************************************************)
EXTENDS Integers, Sequences, FiniteSets, SequencesExt

CONSTANTS
    Names,      \* agent ids
    Legacy,     \* those listed in config.agents; its first one
    First,
    Unchecked,  \* the id "default", which is not looked up
    Sessions, Calls,
    Requests,   \* concurrent POST /account/rotate-key
    Reviewed,   \* config.approval.require_approval_for
    MaxKeys,    \* bound on keys made
    MaxFaults,  \* bound on crashes, lost answers, suspensions
    None

ASSUME McpAssumption ==
    /\ IsFiniteSet(Names) /\ Legacy \subseteq Names /\ First \in Legacy \cup {Unchecked}
    /\ MaxKeys \in Nat /\ MaxFaults \in Nat
    /\ None \notin Names \cup (Names \X (0 .. MaxKeys))

VARIABLES
    status,     \* accounts.status, "absent" without a row
    key,        \* the key whose hash the row has; keys are numbered as made
    made,
    held,       \* the key its owner got last
    rotating,   \* rotate-key requests: None, or the account and the new key once committed
    door,       \* GET /sse in progress: "off", "select", "row", "accept", "open", "closing"
    found,      \* the account whose key each connection presented, or None
    writers,    \* the SDK's _read_stream_writers, in order of connection
    account,    \* _session_accounts
    local,      \* the calls that came over stdio
    pc, who,    \* each call's step, and the account of its context
    agent,      \* the agent_id it sends as: from_agent, or else its account
    start, moved,   \* (history) status of that name when it began; changed since
    excused,    \* (history) accounts with a lost answer or overlapping rotations
    faults

rows == <<status, key, made>>
keys == <<held, rotating, excused>>
sessions == <<door, found, writers, account>>
calls == <<local, pc, who, agent, start, moved>>
vars == <<rows, keys, sessions, calls, faults>>

Init ==
    /\ status \in [Names -> {"absent", "active", "suspended"}] /\ made = Cardinality({n \in Names : status[n] # "absent"})
    /\ key \in [Names -> 0 .. made]
    /\ \A n \in Names : key[n] = 0 <=> status[n] = "absent"
    /\ \A n, m \in Names : n # m /\ key[n] # 0 => key[n] # key[m]
    /\ held = key /\ rotating = [r \in Requests |-> None] /\ excused = {}
    /\ door = [s \in Sessions |-> "off"]
    /\ found = [s \in Sessions |-> None] /\ writers = <<>> /\ account = [s \in Sessions |-> None]
    /\ local = {} /\ pc = [c \in Calls |-> "idle"] /\ who = [c \in Calls |-> None]
    /\ agent = [c \in Calls |-> None] /\ start = [c \in Calls |-> "absent"]
    /\ moved = [c \in Calls |-> FALSE] /\ faults = 0

Fault == faults < MaxFaults /\ faults' = faults + 1
\* A step that holds the loop of the MCP process: no other of its tasks runs.
Held(x) == /\ \A s \in Sessions \ {x} : door[s] \notin {"select", "row"}
           /\ \A c \in Calls \ ({x} \cup local) : pc[c] \in {"idle", "posted"}

(* ---- the REST process ---- *)
Becomes(n, st) ==
    /\ status' = [status EXCEPT ![n] = st]
    /\ moved' = [c \in Calls |-> moved[c] \/ (pc[c] # "idle" /\ agent[c] = n)]
    /\ UNCHANGED <<sessions, local, pc, who, agent, start>>
CreateAccount(n) ==   \* handle_onboard, admin_create_account; the answer has the key
    /\ status[n] = "absent" /\ made < MaxKeys /\ made' = made + 1
    /\ key' = [key EXCEPT ![n] = made'] /\ held' = [held EXCEPT ![n] = made']
    /\ Becomes(n, "active") /\ UNCHANGED <<rotating, excused, faults>>
SetStatus(n) ==       \* admin_suspend, admin_reactivate
    /\ status[n] # "absent" /\ Fault /\ UNCHANGED <<key, made, keys>>
    /\ Becomes(n, IF status[n] = "active" THEN "suspended" ELSE "active")
AuthRotate(r, n) ==   \* the middleware; the endpoint runs in a task of its own
    /\ rotating[r] = None /\ key[n] # 0 /\ held[n] = key[n] /\ status[n] = "active"
    /\ rotating' = [rotating EXCEPT ![r] = <<n, 0>>]
    /\ excused' = (IF \E q \in Requests : rotating[q] = <<n, 0>> THEN excused \cup {n} ELSE excused)
    /\ UNCHANGED <<rows, held, sessions, calls, faults>>
RotateUncommitted(r) ==   \* a mutant: rotate_key without its commit
    /\ rotating[r] # None /\ rotating[r][2] = 0 /\ made < MaxKeys /\ made' = made + 1
    /\ rotating' = [rotating EXCEPT ![r] = <<@[1], made'>>]
    /\ UNCHANGED <<status, key, held, excused, sessions, calls, faults>>
Rotate(r) ==          \* rotate_key: one transaction
    /\ rotating[r] # None /\ rotating[r][2] = 0 /\ made < MaxKeys /\ made' = made + 1
    /\ key' = [key EXCEPT ![rotating[r][1]] = made'] /\ rotating' = [rotating EXCEPT ![r] = <<@[1], made'>>]
    /\ UNCHANGED <<status, held, excused, sessions, calls, faults>>
AnswerRotate(r) ==
    /\ rotating[r] # None /\ rotating[r][2] # 0 /\ rotating' = [rotating EXCEPT ![r] = None]
    /\ held' = [held EXCEPT ![rotating[r][1]] = rotating[r][2]]
    /\ UNCHANGED <<rows, excused, sessions, calls, faults>>
AnswerIsLost(r) ==    \* the REST process dies, or the connection does
    /\ rotating[r] # None /\ Fault /\ rotating' = [rotating EXCEPT ![r] = None]
    /\ excused' = (IF rotating[r][2] = 0 THEN excused ELSE excused \cup {rotating[r][1]})
    /\ UNCHANGED <<rows, held, sessions, calls>>

(* ---- GET /sse ---- *)
Without(s) ==         \* the SDK's table without the session's entry
    LET i == CHOOSE i \in 1..Len(writers) : writers[i] = s
    IN  IF s \in ToSet(writers) THEN RemoveAt(writers, i) ELSE writers
Door(s, place) == door' = [door EXCEPT ![s] = place]
Shut(s) == Door(s, "off") /\ found' = [found EXCEPT ![s] = None]
Connect(s, n) ==      \* authenticate: SELECT the hashes; bcrypt finds the row
    /\ door[s] = "off" /\ held[n] # 0 /\ Held(s)
    /\ Door(s, "select")
    /\ found' = [found EXCEPT ![s] = IF key[n] = held[n] THEN n ELSE None]
    /\ UNCHANGED <<rows, keys, writers, account, calls, faults>>
ReadRow(s) ==         \* get_account, then the status
    /\ door[s] = "select"
    /\ IF found[s] # None /\ status[found[s]] = "active"
       THEN Door(s, "accept") /\ UNCHANGED found
       ELSE Shut(s)   \* 401
    /\ UNCHANGED <<rows, keys, writers, account, calls, faults>>
Accept(s) ==          \* keys()[-1] is read with no await after the transport has entered its own
    /\ door[s] = "accept" /\ Held(s) /\ Door(s, "open") /\ writers' = Append(writers, s)
    /\ account' = [account EXCEPT ![Last(writers')] = found[s]]
    /\ UNCHANGED <<rows, keys, found, calls, faults>>
CloseFirst(s) ==      \* a mutant: the account is dropped while messages still come
    /\ door[s] = "open" /\ Held(s) /\ Door(s, "closing") /\ account' = [account EXCEPT ![s] = None]
    /\ UNCHANGED <<rows, keys, found, writers, calls, faults>>
Disconnect(s) ==      \* the SDK drops the stream, server.run ends
    /\ door[s] = "open" /\ Held(s) /\ Door(s, "closing") /\ writers' = Without(s)
    /\ UNCHANGED <<rows, keys, found, account, calls, faults>>
Forget(s) ==          \* finally: pop; what runs for the session is cancelled
    /\ door[s] = "closing" /\ Held(s) /\ Shut(s)
    /\ account' = [account EXCEPT ![s] = None]
    /\ writers' = Without(s)
    /\ UNCHANGED <<rows, keys, calls, faults>>

(* ---- POST /messages/ and send_email ---- *)
Task(c, a, default) ==   \* a call for account a, with or without from_agent
    /\ pc[c] = "idle" /\ pc' = [pc EXCEPT ![c] = "posted"] /\ who' = [who EXCEPT ![c] = a]
    /\ \E n \in Names \cup {Unchecked, default} :
          /\ agent' = [agent EXCEPT ![c] = n]
          /\ start' = [start EXCEPT ![c] = IF n \in Names THEN status[n] ELSE "absent"]
    /\ UNCHANGED <<rows, keys, sessions, moved, faults>>
Post(c, s) == UNCHANGED local /\ s \in ToSet(writers) /\ Held(c) /\ Task(c, account[s], account[s])
Stdio(c) == local' = local \cup {c} /\ Task(c, None, First)
Reset(C) ==
    /\ local' = local \ C
    /\ pc' = [c \in Calls |-> IF c \in C THEN "idle" ELSE pc[c]]
    /\ who' = [c \in Calls |-> IF c \in C THEN None ELSE who[c]]
    /\ agent' = [c \in Calls |-> IF c \in C THEN None ELSE agent[c]]
    /\ start' = [c \in Calls |-> IF c \in C THEN "absent" ELSE start[c]]
    /\ moved' = [c \in Calls |-> c \notin C /\ moved[c]]
Goto(c, place) == pc' = [pc EXCEPT ![c] = place] /\ UNCHANGED <<local, who, agent, start, moved>>
Return(c) == Reset({c})
CheckNothing(c) ==    \* a mutant: the account is not consulted
    pc[c] = "posted" /\ (c \in local \/ Held(c)) /\ UNCHANGED <<rows, keys, sessions, faults>> /\ Goto(c, "checked")
CheckCaller(c) ==     \* :274-296, the first get_account
    /\ pc[c] = "posted" /\ (c \in local \/ Held(c)) /\ UNCHANGED <<rows, keys, sessions, faults>>
    /\ IF who[c] # None /\ agent[c] # who[c] /\ agent[c] \in Names /\ status[agent[c]] = "active"
       THEN Return(c) ELSE Goto(c, "checked")
CheckAgent(c) ==      \* :299-318, the second
    LET n == agent[c] IN
    /\ pc[c] = "checked" /\ UNCHANGED <<rows, keys, sessions, faults>>
    /\ IF n = Unchecked \/ status[n] = "active" \/ (status[n] = "absent" /\ n \in Legacy)
       THEN Goto(c, "allowed") ELSE Return(c)
Deliver(c) ==         \* :321-368: rate limit, then the approval queue or SMTP; either may fail
    /\ pc[c] = "allowed" /\ UNCHANGED <<rows, keys, sessions, faults>>
    /\ Return(c) \/ Goto(c, IF agent[c] \in Reviewed THEN "held" ELSE "sent")
Answer(c) == pc[c] \in {"held", "sent"} /\ Return(c) /\ UNCHANGED <<rows, keys, sessions, faults>>
Crash ==              \* the SSE server dies and starts again
    /\ Fault /\ writers' = <<>> /\ UNCHANGED <<rows, keys>>
    /\ door' = [s \in Sessions |-> "off"] /\ found' = [s \in Sessions |-> None]
    /\ account' = [s \in Sessions |-> None] /\ Reset(Calls \ local)

SendEmail(c) == CheckCaller(c) \/ CheckAgent(c) \/ Deliver(c) \/ Answer(c)
Next ==
    \/ \E n \in Names : CreateAccount(n) \/ SetStatus(n)
    \/ \E r \in Requests : (\E n \in Names : AuthRotate(r, n)) \/ Rotate(r) \/ AnswerRotate(r) \/ AnswerIsLost(r)
    \/ \E s \in Sessions : (\E n \in Names : Connect(s, n)) \/ ReadRow(s) \/ Accept(s) \/ Disconnect(s) \/ Forget(s)
    \/ \E c \in Calls : Stdio(c) \/ SendEmail(c) \/ \E s \in Sessions : Post(c, s)
    \/ Crash
Spec == Init /\ [][Next]_vars

-----------------------------------------------------------------------------
(* Mail goes out, or into the queue, under the caller's own active account;*)
(* under a name of config.agents that has none; under "default", which is  *)
(* never looked up, not even when it has a suspended account; or under a   *)
(* name whose account changed while the call ran: the two lookups          *)
(* (mcp_server.py:281, 300) may then disagree.  A session that outlives a  *)
(* suspension or a rotation sends nothing in a suspended account's name.   *)
MailBearsItsSender ==
    \A c \in Calls : pc[c] \in {"sent", "held"} =>
        \/ moved[c]
        \/ start[c] = "active" /\ (agent[c] = who[c] \/ c \in local)
        \/ start[c] = "absent" /\ agent[c] \in Legacy
        \/ agent[c] = Unchecked

(* No call over SSE runs without an account: it would have the rights of   *)
(* stdio (mcp_server.py:448, 467-472).                                     *)
NoAnonymousCalls == \A c \in Calls \ local : pc[c] # "idle" => who[c] # None

(* An owner whose rotations did not overlap and whose answers all came has *)
(* the valid key: the answer is the only copy (rest_server.py:306-312).    *)
LatestKeyWorks ==
    \A n \in Names \ excused :
        (\A r \in Requests : rotating[r] = None \/ rotating[r][1] # n) => held[n] = key[n]
=============================================================================

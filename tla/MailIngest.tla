----------------------------- MODULE MailIngest -----------------------------
(***************************************************************************)
(* Inbound mail: Postfix runs one pipe process per attempt (guard/         *)
(* ingest.py), the pipe imports calendar parts and posts the mail to the   *)
(* REST server (/ingest), which stores it in the inbox.  The pipe waits    *)
(* 5 s; a request it no longer waits for is served all the same.  Readers  *)
(* of GET /inbox page through it by offset while mail arrives; check_inbox *)
(* of the MCP server, which always shows the newest messages, cannot.      *)
(* Event imports are a step here; what they do is module Calendar's.       *)
(***************************************************************************)
EXTENDS Integers, FiniteSets, Sequences

CONSTANTS
    Mails, To,       \* the mails, and the agent each is addressed to
    Kinds,           \* what the mails may be: functions to "plain", "invite" (with a
                     \* calendar part), "blank" or "broken" (the MIME parser rejects it)
    Agents, Legacy,  \* agent ids; those listed in config.agents
    MaxAttempts,     \* after so many Postfix returns the mail
    MaxFaults,       \* bound on crashes, lost and late answers, status changes
    PageSize         \* the limit a reader of GET /inbox asks for

ASSUME MailAssumption == /\ To \in [Mails -> Agents] /\ Legacy \subseteq Agents
                         /\ Kinds \subseteq [Mails -> {"plain", "invite", "blank", "broken"}]
                         /\ {MaxAttempts, MaxFaults, PageSize} \subseteq Nat \ {0}

VARIABLES
    kind,       \* what each mail is
    queue,      \* Postfix's view of each mail
    pipe,       \* the step of its pipe process
    attempts, late,   \* attempts made; (history) those that stopped waiting
    requests,   \* requests the server has: <<mail, attempt>>
    answers,    \* those whose message is stored and whose answer is not sent
    up,         \* the REST server runs
    account,    \* AccountStore: "absent", "active" or "suspended"
    inbox,      \* inbox[a]: the stored messages, newest first
    events,     \* the invitations in the calendar
    page, due,  \* a reader's offset (-1: none reads); (history) what it must still see
    faults

mailVars == <<kind, queue, pipe, attempts, late>>
serverVars == <<requests, answers, up, account>>
readVars == <<page, due>>
vars == <<mailVars, serverVars, inbox, events, readVars, faults>>

Copies == [m \in Mails |-> Cardinality({i \in DOMAIN inbox[To[m]] : inbox[To[m]][i] = m})]
Fault == faults < MaxFaults /\ faults' = faults + 1

Init ==
    /\ kind \in Kinds
    /\ queue = [m \in Mails |-> "queued"] /\ pipe = [m \in Mails |-> "off"]
    /\ attempts = [m \in Mails |-> 0] /\ late = [m \in Mails |-> 0]
    /\ requests = {} /\ answers = {} /\ up = TRUE
    /\ account \in [Agents -> {"absent", "active"}]
    /\ inbox = [a \in Agents |-> <<>>] /\ events = {}
    /\ page = [a \in Agents |-> -1] /\ due = [a \in Agents |-> {}] /\ faults = 0

(* ---- the pipe process ---- *)
Exit(m, q) == queue' = [queue EXCEPT ![m] = q] /\ pipe' = [pipe EXCEPT ![m] = "off"]
TempFail(m) == Exit(m, "queued")   \* exit code 75
Goto(m, l) == pipe' = [pipe EXCEPT ![m] = l] /\ UNCHANGED queue
StartPipe(m) ==
    /\ queue[m] = "queued" /\ attempts[m] < MaxAttempts
    /\ queue' = [queue EXCEPT ![m] = "piping"] /\ pipe' = [pipe EXCEPT ![m] = "parse"]
    /\ attempts' = [attempts EXCEPT ![m] = @ + 1]
    /\ UNCHANGED <<kind, late, serverVars, inbox, events, readVars, faults>>
Parse(m) ==
    /\ pipe[m] = "parse" /\ UNCHANGED <<kind, attempts, late, serverVars, inbox, readVars, faults>>
    /\ \/ kind[m] = "blank" /\ Exit(m, "delivered") /\ UNCHANGED events      \* exit code 0, nothing to store
       \/ kind[m] = "broken" /\ TempFail(m) /\ UNCHANGED events
       \/ /\ kind[m] \in {"plain", "invite"} /\ Goto(m, "post")
          /\ events' \in {events, events \cup {n \in {m} : kind[n] = "invite"}}   \* import errors are only collected
Post(m) ==
    /\ pipe[m] = "post" /\ UNCHANGED <<kind, attempts, late, answers, up, account, inbox, events, readVars, faults>>
    /\ IF up THEN Goto(m, "wait") /\ requests' = requests \cup {<<m, attempts[m]>>}
       ELSE TempFail(m) /\ UNCHANGED requests                            \* URLError
GiveUpQuietly(m) ==   \* a mutant: exit code 0 after URLError
    /\ pipe[m] = "wait" /\ Exit(m, "delivered") /\ late' = [late EXCEPT ![m] = @ + 1]
    /\ UNCHANGED <<kind, attempts, serverVars, inbox, events, readVars, faults>>
GiveUpNever(m) == FALSE   \* a mutant: urlopen without timeout on a dead connection
GiveUp(m) ==        \* 5 s are over, or the connection broke
    /\ pipe[m] = "wait" /\ TempFail(m) /\ late' = [late EXCEPT ![m] = @ + 1]
    /\ \/ Fault
       \/ <<m, attempts[m]>> \notin requests \cup answers /\ UNCHANGED faults
    /\ UNCHANGED <<kind, attempts, serverVars, inbox, events, readVars>>
Return(m) ==
    /\ queue[m] = "queued" /\ attempts[m] = MaxAttempts
    /\ queue' = [queue EXCEPT ![m] = "returned"]
    /\ UNCHANGED <<kind, pipe, attempts, late, serverVars, inbox, events, readVars, faults>>

(* ---- the REST server ---- *)
Waiting(m, k) == pipe[m] = "wait" /\ attempts[m] = k
Accepts(a) == account[a] = "active" \/ (account[a] = "absent" /\ a \in Legacy)
Refuse(m, k) ==       \* 403, 404, or 500 when the insert fails
    /\ requests' = requests \ {<<m, k>>} /\ UNCHANGED <<answers, up, account, kind, attempts, late>>
    /\ IF Waiting(m, k) THEN TempFail(m) ELSE UNCHANGED <<queue, pipe>>
IngestStoresFirst(m, k) ==   \* a mutant: the status is checked after the insert
    /\ up /\ <<m, k>> \in requests /\ UNCHANGED <<events, readVars, faults>>
    /\ inbox' = [inbox EXCEPT ![To[m]] = <<m>> \o @]
    /\ IF Accepts(To[m])
       THEN /\ requests' = requests \ {<<m, k>>} /\ answers' = answers \cup {<<m, k>>}
            /\ UNCHANGED <<mailVars, up, account>>
       ELSE Refuse(m, k)
Ingest(m, k) ==
    /\ up /\ <<m, k>> \in requests /\ UNCHANGED <<events, readVars>>
    /\ \/ ~Accepts(To[m]) /\ Refuse(m, k) /\ UNCHANGED <<inbox, faults>>
       \/ Accepts(To[m]) /\ Fault /\ Refuse(m, k) /\ UNCHANGED inbox
       \/ /\ Accepts(To[m]) /\ UNCHANGED <<mailVars, up, account, faults>>
          /\ inbox' = [inbox EXCEPT ![To[m]] = <<m>> \o @]               \* under a fresh uuid
          /\ requests' = requests \ {<<m, k>>} /\ answers' = answers \cup {<<m, k>>}
Answer(m, k) ==
    /\ up /\ <<m, k>> \in answers /\ answers' = answers \ {<<m, k>>}
    /\ IF Waiting(m, k) THEN Exit(m, "delivered") ELSE UNCHANGED <<queue, pipe>>
    /\ UNCHANGED <<kind, attempts, late, requests, up, account, inbox, events, readVars, faults>>
ServerDies == /\ up /\ up' = FALSE /\ requests' = {} /\ answers' = {} /\ Fault
              /\ UNCHANGED <<mailVars, account, inbox, events, readVars>>
ServerStarts == ~up /\ up' = TRUE /\ UNCHANGED <<mailVars, requests, answers, account, inbox, events, readVars, faults>>
SetStatus(a) ==       \* onboarding, admin create, suspend, reactivate
    /\ up /\ Fault
    /\ account' = [account EXCEPT ![a] = IF @ = "active" THEN "suspended" ELSE "active"]
    /\ UNCHANGED <<mailVars, requests, answers, up, inbox, events, readVars>>

(* ---- a reader pages through the inbox: GET /inbox?limit=&offset= ---- *)
ListingSwapped(a, offset) ==   \* a mutant: the parameters of LIMIT ? OFFSET ? exchanged
    LET end == offset + PageSize IN SubSeq(inbox[a], PageSize + 1, IF end > Len(inbox[a]) THEN Len(inbox[a]) ELSE end)
Listing(a, offset) ==
    LET end == offset + PageSize IN SubSeq(inbox[a], offset + 1, IF end > Len(inbox[a]) THEN Len(inbox[a]) ELSE end)
OpenInbox(a) ==
    /\ page[a] = -1 /\ page' = [page EXCEPT ![a] = 0]
    /\ due' = [due EXCEPT ![a] = {inbox[a][i] : i \in DOMAIN inbox[a]}]
    /\ UNCHANGED <<mailVars, serverVars, inbox, events, faults>>
ReadPage(a) ==
    LET l == Listing(a, page[a]) IN
    /\ page[a] >= 0
    /\ due' = [due EXCEPT ![a] = @ \ {l[i] : i \in DOMAIN l}]
    /\ page' = [page EXCEPT ![a] = IF Len(l) < PageSize THEN -1 ELSE @ + PageSize]
    /\ UNCHANGED <<mailVars, serverVars, inbox, events, faults>>

Deliver(m) == StartPipe(m) \/ Parse(m) \/ Post(m) \/ GiveUp(m) \/ Return(m)
Serve == \/ ServerStarts
         \/ \E m \in Mails, k \in 1..MaxAttempts : Ingest(m, k) \/ Answer(m, k)
Next == \/ \E m \in Mails : Deliver(m)
        \/ Serve \/ ServerDies
        \/ \E a \in Agents : SetStatus(a) \/ OpenInbox(a) \/ ReadPage(a)
Spec == Init /\ [][Next]_vars
(* Postfix retries what is queued, systemd restarts the server, which      *)
(* serves what it has received.                                            *)
FairSpec == Spec /\ (\A m \in Mails : WF_vars(Deliver(m))) /\ WF_vars(Serve)

-----------------------------------------------------------------------------
(* With Postfix and the inbox seen from outside the pipe and the server    *)
(* implement MailDelivery: no mail is let go of before a copy is stored.   *)
Promise == INSTANCE MailDelivery WITH
    fate <- [m \in Mails |-> IF queue[m] = "piping" THEN "queued" ELSE queue[m]],
    copies <- Copies, blank <- {m \in Mails : kind[m] = "blank"}
KeepsMail == Promise!Spec

(* The inbox has no identity for a mail (every store takes a new uuid): a  *)
(* second copy appears only if an earlier attempt stopped waiting.         *)
DuplicatesAreLateAnswers == \A m \in Mails : Copies[m] <= late[m] + 1

(* Every mail is delivered or returned in the end, whatever dies.          *)
EveryMailSettles == \A m \in Mails : <>(queue[m] \in {"delivered", "returned"})

(* Paging by offset through GET /inbox (rest_server.py:319,                *)
(* inbox_store.py:109-113) shows every message that was there when the     *)
(* reader began, though new ones shift the pages.                          *)
PagingMissesNothing == \A a \in Agents : page[a] = -1 => due[a] = {}
=============================================================================

---------------------------- MODULE ApprovalQueue ----------------------------
(***************************************************************************)
(* guard/approval_queue.py and its callers: the send_email tool holds a    *)
(* mail, reviewers (the REST server, one process per CLI invocation)       *)
(* approve or reject it, an approved mail is handed to SMTP.  The state    *)
(* lives in Redis: a key per mail with an expiry, and a list of ids.  Each *)
(* Redis command and the SMTP call is a step of its own, because other     *)
(* processes run in between.                                               *)
(***************************************************************************)
EXTENDS Integers, Sequences, FiniteSets

CONSTANTS
    Mails,          \* one fresh approval_id each
    Reviewers,      \* processes that approve and reject
    ListLimit,      \* list_pending's limit
    MaxFaults       \* bound: crashes, Redis errors and SMTP errors

ASSUME ApprovalAssumption == ListLimit \in Nat /\ MaxFaults \in Nat

VARIABLES
    item,       \* Redis approval:item:<id>: its status, or "absent"
    queue,      \* Redis approval:pending: a list of ids, newest first
    enq,        \* how far enqueue() got for each mail
    pc,         \* the step each reviewer takes next
    job,        \* the mail and the decision a reviewer works on
    faults,
    verdicts,   \* history: the decisions stored for each mail
    sent        \* history: how often each reviewer sent each mail

vars == <<item, queue, enq, pc, job, faults, verdicts, sent>>

Decisions == {"approved", "rejected"}
Jobs == [mail: Mails, decision: Decisions]
InList(m) == \E i \in 1..Len(queue) : queue[i] = m

TypeOK ==
    /\ item \in [Mails -> {"absent", "pending"} \cup Decisions]
    /\ queue \in Seq(Mails)
    /\ enq \in [Mails -> {"new", "stored", "listed", "lost"}]
    /\ pc \in [Reviewers -> {"idle", "store", "remove", "send"}]
    /\ job \in [Reviewers -> Jobs]
    /\ faults \in Nat
    /\ verdicts \in [Mails -> SUBSET Decisions]
    /\ sent \in [Mails -> [Reviewers -> Nat]]

Init ==
    /\ item = [m \in Mails |-> "absent"]
    /\ queue = << >>
    /\ enq = [m \in Mails |-> "new"]
    /\ pc = [r \in Reviewers |-> "idle"]
    /\ \E j \in Jobs : job = [r \in Reviewers |-> j]
    /\ faults = 0
    /\ verdicts = [m \in Mails |-> {}]
    /\ sent = [m \in Mails |-> [r \in Reviewers |-> 0]]

-----------------------------------------------------------------------------
(* enqueue(): SETEX, then LPUSH.                                           *)

StoreItem(m) ==
    /\ enq[m] = "new"
    /\ item' = [item EXCEPT ![m] = "pending"]
    /\ enq' = [enq EXCEPT ![m] = "stored"]
    /\ UNCHANGED <<queue, pc, job, faults, verdicts, sent>>

PushId(m) ==
    /\ enq[m] = "stored"
    /\ queue' = <<m>> \o queue
    /\ enq' = [enq EXCEPT ![m] = "listed"]
    /\ UNCHANGED <<item, pc, job, faults, verdicts, sent>>

\* The MCP server dies, or LPUSH raises: nobody ever learns the id.
EnqueueFails(m) ==
    /\ enq[m] = "stored"
    /\ faults < MaxFaults
    /\ faults' = faults + 1
    /\ enq' = [enq EXCEPT ![m] = "lost"]
    /\ UNCHANGED <<item, queue, pc, job, verdicts, sent>>

-----------------------------------------------------------------------------
(* approve() and reject(): GET, SETEX, LREM; an approval then sends.       *)

\* Mutant: the status of the item is not looked at.
ReviewableAnyStatus(m) == item[m] # "absent"

Reviewable(m) == item[m] = "pending"

\* The reviewer has the id from the list.  An item that is missing or already
\* processed is answered with an error and nothing else happens.
ReadItem(r, m, d) ==
    /\ pc[r] = "idle"
    /\ enq[m] = "listed"
    /\ Reviewable(m)
    /\ job' = [job EXCEPT ![r] = [mail |-> m, decision |-> d]]
    /\ pc' = [pc EXCEPT ![r] = "store"]
    /\ UNCHANGED <<item, queue, enq, faults, verdicts, sent>>

\* SETEX writes whatever is there by now, and creates the key again when it
\* has expired meanwhile.
StoreDecision(r) ==
    LET m == job[r].mail IN
    /\ pc[r] = "store"
    /\ item' = [item EXCEPT ![m] = job[r].decision]
    /\ verdicts' = [verdicts EXCEPT ![m] = @ \cup {job[r].decision}]
    /\ pc' = [pc EXCEPT ![r] = "remove"]
    /\ UNCHANGED <<queue, enq, job, faults, sent>>

\* Mutant: LREM removes the newest entry, not the one that was decided.
WithoutNewest(m) == IF queue = << >> THEN queue ELSE Tail(queue)

\* LREM.  An id is pushed once (IdsListedOnce), so its only occurrence is what
\* "all occurrences" removes.
Without(m) ==
    LET i == CHOOSE i \in 1..Len(queue) : queue[i] = m IN
    IF InList(m) THEN SubSeq(queue, 1, i - 1) \o SubSeq(queue, i + 1, Len(queue))
    ELSE queue

\* Mutant: approve() returns without handing the item to its caller.
AfterRemovalIdle(d) == "idle"

\* Mutant: the caller sends without looking at what the reviewer decided.
AfterRemovalSends(d) == "send"

\* Mutant: a rejection ends in a state nothing takes it out of.
AfterRemovalStuck(d) == IF d = "approved" THEN "send" ELSE "rejected"

AfterRemoval(d) == IF d = "approved" THEN "send" ELSE "idle"

RemoveId(r) ==
    /\ pc[r] = "remove"
    /\ queue' = Without(job[r].mail)
    /\ pc' = [pc EXCEPT ![r] = AfterRemoval(job[r].decision)]
    /\ UNCHANGED <<item, enq, job, faults, verdicts, sent>>

Send(r) ==
    LET m == job[r].mail IN
    /\ pc[r] = "send"
    /\ sent' = [sent EXCEPT ![m][r] = @ + 1]
    /\ pc' = [pc EXCEPT ![r] = "idle"]
    /\ UNCHANGED <<item, queue, enq, job, faults, verdicts>>

\* SMTP refuses the mail: the reviewer is told, the item stays as it is.  (When
\* SMTP took the mail and only its answer was lost, what happened is Send.)
SendFails(r) ==
    /\ pc[r] = "send"
    /\ faults < MaxFaults
    /\ faults' = faults + 1
    /\ pc' = [pc EXCEPT ![r] = "idle"]
    /\ UNCHANGED <<item, queue, enq, job, verdicts, sent>>

\* A Redis call raises or the reviewer's process dies.
ReviewFails(r) ==
    /\ pc[r] \in {"store", "remove"}
    /\ faults < MaxFaults
    /\ faults' = faults + 1
    /\ pc' = [pc EXCEPT ![r] = "idle"]
    /\ UNCHANGED <<item, queue, enq, job, verdicts, sent>>

\* The key's TTL runs out: 72 hours when pending, one hour once decided.
Expire(m) ==
    /\ item[m] # "absent"
    /\ item' = [item EXCEPT ![m] = "absent"]
    /\ UNCHANGED <<queue, enq, pc, job, faults, verdicts, sent>>

\* list_pending: the newest ids whose item still exists, whatever its status.
ListPending ==
    {m \in Mails : /\ item[m] # "absent"
                   /\ \E i \in 1..Len(queue) : i <= ListLimit /\ queue[i] = m}

ReviewStep(r) == StoreDecision(r) \/ RemoveId(r) \/ Send(r)

Next ==
    \/ \E m \in Mails : StoreItem(m) \/ PushId(m) \/ EnqueueFails(m) \/ Expire(m)
    \/ \E r \in Reviewers, m \in Mails, d \in Decisions : ReadItem(r, m, d)
    \/ \E r \in Reviewers : ReviewStep(r) \/ SendFails(r) \/ ReviewFails(r)

Spec == Init /\ [][Next]_vars

\* enqueue() and a review that has begun run to their end unless they fail.
FairSpec ==
    /\ Spec
    /\ \A m \in Mails : WF_vars(PushId(m))
    /\ \A r \in Reviewers : WF_vars(ReviewStep(r))

-----------------------------------------------------------------------------
(* Properties.                                                             *)

\* A reviewer process sends a given mail at most once, however it interleaves
\* with others, with expiry and with its own failures: what it stored can
\* never be read as pending again.
OncePerReviewer == \A m \in Mails, r \in Reviewers : sent[m][r] <= 1

\* A mail goes out only after an approval of it was stored.
OnlyApprovedIsSent ==
    \A m \in Mails, r \in Reviewers : sent[m][r] > 0 => "approved" \in verdicts[m]

\* The mails whose ids were pushed after m's and are still in the list.
Ahead(m) ==
    {n \in Mails : \E i, j \in 1..Len(queue) : i < j /\ queue[i] = n /\ queue[j] = m}

\* What list_pending() shows the reviewers: every pending mail, except one that
\* at least ListLimit newer ids push off the end of the listing, and one whose
\* enqueue() has not pushed its id yet or failed before it could.  Ids of mails
\* that were decided or have expired, and were not removed, count as newer too.
PendingIsListed ==
    \A m \in Mails : item[m] = "pending" =>
        \/ m \in ListPending
        \/ InList(m) /\ Cardinality(Ahead(m)) >= ListLimit
        \/ enq[m] \in {"stored", "lost"}

\* An id is in the list at most once, and only when enqueue() has pushed it.
IdsListedOnce ==
    /\ \A i, j \in 1..Len(queue) : queue[i] = queue[j] => i = j
    /\ \A i \in 1..Len(queue) : enq[queue[i]] = "listed"

\* A decision is final in Redis: the item may expire or be overwritten by a
\* second decision but never becomes pending again.
DecidedIsFinal ==
    [][\A m \in Mails : verdicts[m] # {} => item'[m] # "pending"]_vars

\* Unless something failed, an approval leads to the mail being sent, even when
\* another reviewer rejects the same mail at the same time.
ApprovedIsSent ==
    \A m \in Mails :
        "approved" \in verdicts[m] ~> (faults > 0 \/ \E r \in Reviewers : sent[m][r] > 0)

\* Unless something failed, a decided mail leaves the list for good.
DecidedLeavesList ==
    \A m \in Mails : verdicts[m] # {} ~> [](faults > 0 \/ m \notin ListPending)

\* approval_queue.py:5: held mail is "approved (sent) or rejected (discarded)".
RejectedIsDiscarded ==
    \A m \in Mails, r \in Reviewers : "rejected" \in verdicts[m] => sent[m][r] = 0

(* With one reviewer process the queue keeps the promise of HeldMail.      *)
Fate(m) ==
    IF "approved" \in verdicts[m] THEN "approved"
    ELSE IF "rejected" \in verdicts[m] THEN "rejected"
    ELSE IF enq[m] = "new" THEN "new" ELSE "undecided"

Promise == INSTANCE HeldMail WITH
    fate <- [m \in Mails |-> Fate(m)],
    delivered <- {m \in Mails : \E r \in Reviewers : sent[m][r] > 0}

\* A single reviewer: every mail is decided at most once, sent at most once
\* and only if approved, through crashes, SMTP errors and expiring keys.
KeepsPromise == Promise!Spec
=============================================================================

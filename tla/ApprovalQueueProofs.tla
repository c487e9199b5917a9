------------------------- MODULE ApprovalQueueProofs -------------------------
(***************************************************************************)
(* Theorems about ApprovalQueue.  For any number of reviewers: the type    *)
(* invariant, PendingIsListed, OncePerReviewer, OnlyApprovedIsSent and     *)
(* DecidedIsFinal.  For one reviewer: the queue implements HeldMail.       *)
(***************************************************************************)
EXTENDS ApprovalQueue, SequenceTheorems, FiniteSetTheorems, TLAPS

(***************************************************************************)
(* Removing an id from the list.                                           *)
(***************************************************************************)
LEMMA WithoutShape ==
    ASSUME TypeOK, NEW m \in Mails, InList(m)
    PROVE  \E i \in 1..Len(queue) :
              /\ queue[i] = m
              /\ Without(m) \in Seq(Mails)
              /\ Len(Without(m)) = Len(queue) - 1
              /\ \A k \in 1..Len(queue) - 1 :
                    Without(m)[k] = queue[IF k < i THEN k ELSE k + 1]
<1> DEFINE i == CHOOSE i \in 1..Len(queue) : queue[i] = m
           front == SubSeq(queue, 1, i - 1)
           back == SubSeq(queue, i + 1, Len(queue))
<1>1. i \in 1..Len(queue) /\ queue[i] = m
  BY DEF InList
<1>2. queue \in Seq(Mails) /\ Len(queue) \in Nat
  BY DEF TypeOK
<1> HIDE DEF i
<1>3. /\ front \in Seq(Mails) /\ Len(front) = i - 1
      /\ \A k \in 1..i - 1 : front[k] = queue[k]
  <2>1. \A k \in 1..i - 1 : queue[k] \in Mails
    BY <1>1, <1>2
  <2>2. 1 \in Int /\ i - 1 \in Int
    BY <1>1, <1>2
  <2>3. QED BY <2>1, <2>2, <1>1, <1>2, SubSeqProperties
<1>4. /\ back \in Seq(Mails) /\ Len(back) = Len(queue) - i
      /\ \A k \in 1..Len(queue) - i : back[k] = queue[k + i]
  <2>1. \A k \in i + 1..Len(queue) : queue[k] \in Mails
    BY <1>1, <1>2
  <2>2. i + 1 \in Int /\ Len(queue) \in Int
    BY <1>1, <1>2
  <2>3. QED BY <2>1, <2>2, <1>1, <1>2, SubSeqProperties
<1>5. Without(m) = front \o back
  BY DEF Without, i
<1> HIDE DEF front, back
<1>6. /\ Without(m) \in Seq(Mails) /\ Len(Without(m)) = Len(queue) - 1
      /\ \A k \in 1..Len(queue) - 1 :
            Without(m)[k] = IF k <= i - 1 THEN front[k] ELSE back[k - (i - 1)]
  <2>1. /\ front \o back \in Seq(Mails) /\ Len(front \o back) = Len(front) + Len(back)
        /\ \A k \in 1..Len(front) + Len(back) :
              (front \o back)[k] = IF k <= Len(front) THEN front[k] ELSE back[k - Len(front)]
    BY <1>3, <1>4, ConcatProperties
  <2>2. Len(front) + Len(back) = Len(queue) - 1
    BY <1>1, <1>2, <1>3, <1>4
  <2>3. QED BY <2>1, <2>2, <1>3, <1>5
<1>7. ASSUME NEW k \in 1..Len(queue) - 1
      PROVE  Without(m)[k] = queue[IF k < i THEN k ELSE k + 1]
  <2>1. CASE k < i
    BY <2>1, <1>1, <1>2, <1>3, <1>6
  <2>2. CASE ~(k < i)
    <3>1. k - (i - 1) \in 1..Len(queue) - i /\ (k - (i - 1)) + i = k + 1
      BY <2>2, <1>1, <1>2
    <3>2. QED BY <3>1, <2>2, <1>1, <1>2, <1>4, <1>6
  <2>3. QED BY <2>1, <2>2
<1>8. QED
  BY <1>1, <1>6, <1>7

LEMMA WithoutIsSeq ==
    ASSUME TypeOK, NEW m \in Mails
    PROVE  Without(m) \in Seq(Mails)
BY WithoutShape DEF Without, TypeOK

(***************************************************************************)
(* LREM keeps every other id, brings in none and makes no duplicates.      *)
(***************************************************************************)
LEMMA WithoutKeepsOthers ==
    ASSUME TypeOK, NEW m \in Mails
    PROVE  /\ \A x \in Mails \ {m} : InList(x) =>
                 \E j \in 1..Len(Without(m)) : Without(m)[j] = x
           /\ \A j \in 1..Len(Without(m)) : InList(Without(m)[j])
<1>1. CASE InList(m)
  <2>1. PICK i \in 1..Len(queue) :
              /\ queue[i] = m
              /\ Len(Without(m)) = Len(queue) - 1
              /\ \A k \in 1..Len(queue) - 1 :
                    Without(m)[k] = queue[IF k < i THEN k ELSE k + 1]
    BY <1>1, WithoutShape
  <2>2. Len(queue) \in Nat
    BY DEF TypeOK
  <2>3. ASSUME NEW x \in Mails \ {m}, InList(x)
        PROVE  \E j \in 1..Len(Without(m)) : Without(m)[j] = x
    <3>1. PICK k \in 1..Len(queue) : queue[k] = x
      BY <2>3 DEF InList
    <3>2. CASE k < i
      BY <3>1, <3>2, <2>1, <2>2
    <3>3. CASE ~(k < i)
      <4>1. k > i /\ k - 1 \in 1..Len(queue) - 1
        BY <3>1, <3>3, <2>1, <2>2
      <4>2. Without(m)[k - 1] = x
        BY <4>1, <3>1, <2>1, <2>2
      <4>3. QED BY <4>1, <4>2, <2>1
    <3>4. QED BY <3>2, <3>3
  <2>4. ASSUME NEW j \in 1..Len(Without(m)) PROVE InList(Without(m)[j])
    BY <2>1, <2>2 DEF InList
  <2>5. QED BY <2>3, <2>4
<1>2. CASE ~InList(m)
  BY <1>2 DEF Without, InList
<1>3. QED BY <1>1, <1>2

LEMMA WithoutNoDuplicates ==
    ASSUME TypeOK, NEW m \in Mails,
           \A i, j \in 1..Len(queue) : queue[i] = queue[j] => i = j
    PROVE  \A i, j \in 1..Len(Without(m)) : Without(m)[i] = Without(m)[j] => i = j
<1>1. CASE InList(m)
  <2>1. PICK p \in 1..Len(queue) :
              /\ Len(Without(m)) = Len(queue) - 1
              /\ \A k \in 1..Len(queue) - 1 :
                    Without(m)[k] = queue[IF k < p THEN k ELSE k + 1]
    BY <1>1, WithoutShape
  <2>2. Len(queue) \in Nat
    BY DEF TypeOK
  <2>3. SUFFICES ASSUME NEW i \in 1..Len(queue) - 1, NEW j \in 1..Len(queue) - 1,
                        Without(m)[i] = Without(m)[j]
                 PROVE  i = j
    BY <2>1
  <2>4. queue[IF i < p THEN i ELSE i + 1] = queue[IF j < p THEN j ELSE j + 1]
    BY <2>1, <2>3
  <2>5. (IF i < p THEN i ELSE i + 1) = (IF j < p THEN j ELSE j + 1)
    BY <2>2, <2>4
  <2>6. QED BY <2>2, <2>5
<1>2. CASE ~InList(m)
  BY <1>2 DEF Without
<1>3. QED BY <1>1, <1>2

(***************************************************************************)
(* The type invariant.                                                     *)
(***************************************************************************)
\* Items, list, reviewers and their jobs keep their types.
THEOREM TypeCorrect == Spec => []TypeOK
<1>1. Init => TypeOK
  BY DEF Init, TypeOK, Jobs, Decisions
<1>2. TypeOK /\ [Next]_vars => TypeOK'
  <2> SUFFICES ASSUME TypeOK, [Next]_vars PROVE TypeOK'
    OBVIOUS
  <2> USE DEF TypeOK, Jobs, Decisions
  <2>1. ASSUME NEW m \in Mails, StoreItem(m) PROVE TypeOK'
    BY <2>1 DEF StoreItem
  <2>2. ASSUME NEW m \in Mails, PushId(m) PROVE TypeOK'
    <3>1. <<m>> \o queue \in Seq(Mails)
      BY ConcatProperties
    <3>2. QED BY <2>2, <3>1 DEF PushId
  <2>3. ASSUME NEW m \in Mails, EnqueueFails(m) PROVE TypeOK'
    BY <2>3 DEF EnqueueFails
  <2>4. ASSUME NEW m \in Mails, Expire(m) PROVE TypeOK'
    BY <2>4 DEF Expire
  <2>5. ASSUME NEW r \in Reviewers, NEW m \in Mails, NEW d \in Decisions, ReadItem(r, m, d)
        PROVE TypeOK'
    BY <2>5 DEF ReadItem
  <2>6. ASSUME NEW r \in Reviewers, StoreDecision(r) PROVE TypeOK'
    BY <2>6 DEF StoreDecision
  <2>7. ASSUME NEW r \in Reviewers, RemoveId(r) PROVE TypeOK'
    <3>1. Without(job[r].mail) \in Seq(Mails)
      BY WithoutIsSeq
    <3>2. QED BY <2>7, <3>1 DEF RemoveId, AfterRemoval
  <2>8. ASSUME NEW r \in Reviewers, Send(r) PROVE TypeOK'
    BY <2>8 DEF Send
  <2>9. ASSUME NEW r \in Reviewers, SendFails(r) PROVE TypeOK'
    BY <2>9 DEF SendFails
  <2>10. ASSUME NEW r \in Reviewers, ReviewFails(r) PROVE TypeOK'
    BY <2>10 DEF ReviewFails
  <2>11. CASE UNCHANGED vars
    BY <2>11 DEF vars
  <2>12. QED
    BY <2>1, <2>2, <2>3, <2>4, <2>5, <2>6, <2>7, <2>8, <2>9, <2>10, <2>11 DEF Next, ReviewStep
<1>3. QED
  BY <1>1, <1>2, PTL DEF Spec

(***************************************************************************)
(* The invariant behind the safety theorems.  Reading needs a listed,      *)
(* pending item; what is stored can never be read again; and a reviewer    *)
(* with a review in hand has not sent that mail yet.                       *)
(***************************************************************************)
DecidedNotPending ==
    \A m \in Mails : verdicts[m] # {} => item[m] # "pending" /\ enq[m] = "listed"
NewIsAbsent == \A m \in Mails : enq[m] = "new" => item[m] = "absent"
InHandIsListed == \A r \in Reviewers : pc[r] # "idle" => enq[job[r].mail] = "listed"
InHandIsUnsent == \A r \in Reviewers : pc[r] # "idle" => sent[job[r].mail][r] = 0
StoredIsRecorded ==
    \A r \in Reviewers : pc[r] \in {"remove", "send"} => job[r].decision \in verdicts[job[r].mail]
SendingIsApproval == \A r \in Reviewers : pc[r] = "send" => job[r].decision = "approved"

ReviewInv ==
    /\ DecidedNotPending /\ NewIsAbsent
    /\ InHandIsListed /\ InHandIsUnsent
    /\ StoredIsRecorded /\ SendingIsApproval
    /\ OncePerReviewer /\ OnlyApprovedIsSent

LEMMA ReviewInvInit == Init => ReviewInv
BY DEF Init, ReviewInv, DecidedNotPending, NewIsAbsent, InHandIsListed, InHandIsUnsent,
       StoredIsRecorded, SendingIsApproval, OncePerReviewer, OnlyApprovedIsSent

LEMMA ReviewInvStep == TypeOK /\ ReviewInv /\ [Next]_vars => ReviewInv'
<1> SUFFICES ASSUME TypeOK, ReviewInv, [Next]_vars PROVE ReviewInv'
  OBVIOUS
<1> USE DEF TypeOK, Jobs, Decisions, ReviewInv, DecidedNotPending, NewIsAbsent, InHandIsListed,
            InHandIsUnsent, StoredIsRecorded, SendingIsApproval, OncePerReviewer, OnlyApprovedIsSent
<1>1. ASSUME NEW m \in Mails, StoreItem(m) PROVE ReviewInv'
  BY <1>1 DEF StoreItem
<1>2. ASSUME NEW m \in Mails, PushId(m) PROVE ReviewInv'
  BY <1>2 DEF PushId
<1>3. ASSUME NEW m \in Mails, EnqueueFails(m) PROVE ReviewInv'
  BY <1>3 DEF EnqueueFails
<1>4. ASSUME NEW m \in Mails, Expire(m) PROVE ReviewInv'
  BY <1>4 DEF Expire
<1>5. ASSUME NEW r \in Reviewers, NEW m \in Mails, NEW d \in Decisions, ReadItem(r, m, d)
      PROVE ReviewInv'
  <2> USE <1>5 DEF ReadItem, Reviewable
  <2>1. verdicts[m] = {} /\ sent[m][r] = 0 /\ enq[m] = "listed"
    <3>1. verdicts[m] = {} /\ enq[m] = "listed"
      OBVIOUS
    <3>2. sent[m][r] \in Nat /\ ~(sent[m][r] > 0)
      BY <3>1
    <3>3. QED BY <3>1, <3>2
  <2>2. job'[r].mail = m /\ job'[r].decision = d /\ pc'[r] = "store"
    OBVIOUS
  <2>3. \A s \in Reviewers \ {r} : job'[s] = job[s] /\ pc'[s] = pc[s]
    OBVIOUS
  <2>4. InHandIsListed' /\ InHandIsUnsent'
    BY <2>1, <2>2, <2>3
  <2>5. StoredIsRecorded' /\ SendingIsApproval'
    BY <2>2, <2>3
  <2>6. QED BY <2>4, <2>5
<1>6. ASSUME NEW r \in Reviewers, StoreDecision(r) PROVE ReviewInv'
  <2> DEFINE m == job[r].mail
  <2> USE <1>6 DEF StoreDecision
  <2>1. m \in Mails /\ enq[m] = "listed" /\ job[r].decision \in Decisions
    OBVIOUS
  <2>2. item'[m] = job[r].decision /\ verdicts'[m] = verdicts[m] \cup {job[r].decision}
    BY <2>1
  <2>3. \A x \in Mails \ {m} : item'[x] = item[x] /\ verdicts'[x] = verdicts[x]
    BY <2>1
  <2>4. \A s \in Reviewers \ {r} : pc'[s] = pc[s]
    OBVIOUS
  <2>5. pc'[r] = "remove" /\ UNCHANGED <<queue, enq, job, sent>>
    OBVIOUS
  <2> HIDE <1>6 DEF m, StoreDecision
  <2>6. DecidedNotPending' /\ NewIsAbsent'
    BY <2>1, <2>2, <2>3, <2>5
  <2>7. InHandIsListed' /\ InHandIsUnsent'
    BY <2>1, <2>4, <2>5, <1>6 DEF StoreDecision
  <2>8. StoredIsRecorded'
    BY <2>1, <2>2, <2>3, <2>4, <2>5 DEF m
  <2>9. SendingIsApproval' /\ OncePerReviewer'
    BY <2>4, <2>5
  <2>10. OnlyApprovedIsSent'
    BY <2>2, <2>3, <2>5
  <2>11. QED BY <2>6, <2>7, <2>8, <2>9, <2>10
<1>7. ASSUME NEW r \in Reviewers, RemoveId(r) PROVE ReviewInv'
  BY <1>7 DEF RemoveId, AfterRemoval
<1>8. ASSUME NEW r \in Reviewers, Send(r) PROVE ReviewInv'
  <2> DEFINE m == job[r].mail
  <2> USE <1>8 DEF Send
  <2>1. m \in Mails /\ sent[m][r] = 0 /\ "approved" \in verdicts[m]
    OBVIOUS
  <2>2. sent' = [sent EXCEPT ![m][r] = 1]
    BY <2>1
  <2>3. sent' \in [Mails -> [Reviewers -> Nat]] /\ sent'[m][r] = 1
    BY <2>1, <2>2
  <2>4. \A x \in Mails, s \in Reviewers : x # m \/ s # r => sent'[x][s] = sent[x][s]
    BY <2>1, <2>2
  <2>5. pc'[r] = "idle" /\ \A s \in Reviewers \ {r} : pc'[s] = pc[s]
    OBVIOUS
  <2>6. UNCHANGED <<item, queue, enq, job, verdicts>>
    OBVIOUS
  <2> HIDE <1>8 DEF m, Send
  <2>7. ASSUME NEW x \in Mails, NEW s \in Reviewers
        PROVE  sent'[x][s] <= 1 /\ (sent'[x][s] > 0 => "approved" \in verdicts'[x])
    <3>1. CASE x = m /\ s = r
      BY <3>1, <2>1, <2>3, <2>6
    <3>2. CASE x # m \/ s # r
      BY <3>2, <2>4, <2>6
    <3>3. QED BY <3>1, <3>2
  <2>8. InHandIsListed' /\ InHandIsUnsent'
    BY <2>4, <2>5, <2>6
  <2>9. StoredIsRecorded' /\ SendingIsApproval' /\ DecidedNotPending' /\ NewIsAbsent'
    BY <2>5, <2>6
  <2>10. QED BY <2>7, <2>8, <2>9
<1>9. ASSUME NEW r \in Reviewers, SendFails(r) PROVE ReviewInv'
  BY <1>9 DEF SendFails
<1>10. ASSUME NEW r \in Reviewers, ReviewFails(r) PROVE ReviewInv'
  BY <1>10 DEF ReviewFails
<1>11. CASE UNCHANGED vars
  BY <1>11 DEF vars
<1>12. QED
  BY <1>1, <1>2, <1>3, <1>4, <1>5, <1>6, <1>7, <1>8, <1>9, <1>10, <1>11 DEF Next, ReviewStep

\* For any number of reviewers, crashes and expiries, each reviewer process
\* sends a mail at most once.
THEOREM SendsOncePerReviewer == Spec => []OncePerReviewer
<1>1. ReviewInv => OncePerReviewer
  BY DEF ReviewInv
<1>2. QED
  BY <1>1, TypeCorrect, ReviewInvInit, ReviewInvStep, PTL DEF Spec

\* No mail goes out that no reviewer approved.
THEOREM SendsOnlyApproved == Spec => []OnlyApprovedIsSent
<1>1. ReviewInv => OnlyApprovedIsSent
  BY DEF ReviewInv
<1>2. QED
  BY <1>1, TypeCorrect, ReviewInvInit, ReviewInvStep, PTL DEF Spec

\* A stored decision never reverts to pending.
THEOREM DecisionsAreFinal == Spec => DecidedIsFinal
<1>1. TypeOK /\ ReviewInv /\ [Next]_vars =>
        [\A m \in Mails : verdicts[m] # {} => item'[m] # "pending"]_vars
  <2> SUFFICES ASSUME TypeOK, ReviewInv, ReviewInv', [Next]_vars, NEW m \in Mails, verdicts[m] # {}
               PROVE  item'[m] # "pending"
    BY ReviewInvStep
  <2>1. CASE \E r \in Reviewers : StoreDecision(r)
    <3>1. PICK r \in Reviewers : StoreDecision(r)
      BY <2>1
    <3>2. verdicts'[m] # {}
      BY <3>1 DEF StoreDecision, TypeOK
    <3>3. QED BY <3>2 DEF ReviewInv, DecidedNotPending
  <2>2. CASE ~\E r \in Reviewers : StoreDecision(r)
    <3>1. UNCHANGED verdicts
      BY <2>2 DEF Next, vars, StoreItem, PushId, EnqueueFails, Expire, ReadItem, ReviewStep,
                  RemoveId, Send, SendFails, ReviewFails
    <3>2. QED BY <3>1 DEF ReviewInv, DecidedNotPending
  <2>3. QED BY <2>1, <2>2
<1>2. QED
  BY <1>1, TypeCorrect, ReviewInvInit, ReviewInvStep, PTL DEF Spec, DecidedIsFinal

(***************************************************************************)
(* The list of ids.                                                        *)
(***************************************************************************)
PendingInQueue ==
    \A m \in Mails : item[m] = "pending" => InList(m) \/ enq[m] \in {"stored", "lost"}

ListInv == IdsListedOnce /\ PendingInQueue

LEMMA ListInvStep == TypeOK /\ ReviewInv /\ ListInv /\ [Next]_vars => ListInv'
<1> SUFFICES ASSUME TypeOK, ReviewInv, ListInv, [Next]_vars PROVE ListInv'
  OBVIOUS
<1> USE DEF ListInv
<1>1. ASSUME NEW m \in Mails, PushId(m) PROVE ListInv'
  <2> DEFINE q == <<m>> \o queue
  <2>1. /\ enq[m] = "stored" /\ enq' = [enq EXCEPT ![m] = "listed"]
        /\ queue' = q /\ UNCHANGED item
    BY <1>1 DEF PushId
  <2>2. Len(q) = Len(queue) + 1 /\ \A i \in 1..Len(q) : q[i] = IF i = 1 THEN m ELSE queue[i - 1]
    BY ConcatProperties DEF TypeOK
  <2>3. Len(queue) \in Nat /\ \A i \in 1..Len(queue) : queue[i] \in Mails /\ queue[i] # m
    BY <2>1 DEF TypeOK, IdsListedOnce
  <2> HIDE DEF q
  <2>4. \A i, j \in 1..Len(q) : q[i] = q[j] => i = j
    BY <2>2, <2>3 DEF IdsListedOnce
  <2>5. \A i \in 1..Len(q) : enq'[q[i]] = "listed"
    <3> SUFFICES ASSUME NEW i \in 1..Len(q) PROVE enq'[q[i]] = "listed"
      OBVIOUS
    <3>1. CASE i = 1
      BY <3>1, <2>1, <2>2, <2>3 DEF TypeOK
    <3>2. CASE i # 1
      <4>1. i - 1 \in 1..Len(queue) /\ q[i] = queue[i - 1]
        BY <3>2, <2>2, <2>3
      <4>2. QED BY <4>1, <2>1, <2>3 DEF TypeOK, IdsListedOnce
    <3>3. QED BY <3>1, <3>2
  <2>6. ASSUME NEW x \in Mails, item'[x] = "pending"
        PROVE  InList(x)' \/ enq'[x] \in {"stored", "lost"}
    <3>1. CASE x = m
      <4>1. 1 \in 1..Len(q) /\ q[1] = m
        BY <2>2, <2>3
      <4>2. QED BY <4>1, <3>1, <2>1 DEF InList
    <3>2. CASE x # m /\ InList(x)
      <4>1. PICK i \in 1..Len(queue) : queue[i] = x
        BY <3>2 DEF InList
      <4>2. i + 1 \in 1..Len(q) /\ q[i + 1] = x
        BY <4>1, <2>2, <2>3
      <4>3. QED BY <4>2, <2>1 DEF InList
    <3>3. CASE x # m /\ ~InList(x)
      BY <3>3, <2>1, <2>6 DEF PendingInQueue, TypeOK
    <3>4. QED BY <3>1, <3>2, <3>3
  <2>7. QED BY <2>1, <2>4, <2>5, <2>6 DEF IdsListedOnce, PendingInQueue
<1>2. ASSUME NEW r \in Reviewers, RemoveId(r) PROVE ListInv'
  <2> DEFINE m == job[r].mail
  <2>1. /\ pc[r] = "remove" /\ queue' = Without(m) /\ UNCHANGED <<item, enq>>
        /\ m \in Mails
    BY <1>2 DEF RemoveId, TypeOK, Jobs
  <2>2. item[m] # "pending"
    BY <2>1 DEF ReviewInv, StoredIsRecorded, DecidedNotPending
  <2> HIDE DEF m
  <2>3. \A i, j \in 1..Len(queue') : queue'[i] = queue'[j] => i = j
    BY <2>1, WithoutNoDuplicates DEF IdsListedOnce
  <2>4. \A i \in 1..Len(queue') : enq'[queue'[i]] = "listed"
    BY <2>1, WithoutKeepsOthers DEF IdsListedOnce, InList
  <2>5. ASSUME NEW x \in Mails, item'[x] = "pending"
        PROVE  InList(x)' \/ enq'[x] \in {"stored", "lost"}
    <3>1. x # m /\ item[x] = "pending"
      BY <2>1, <2>2, <2>5
    <3>2. CASE InList(x)
      BY <3>1, <3>2, <2>1, WithoutKeepsOthers DEF InList
    <3>3. CASE ~InList(x)
      BY <3>1, <3>3, <2>1 DEF PendingInQueue
    <3>4. QED BY <3>2, <3>3
  <2>6. QED BY <2>3, <2>4, <2>5 DEF IdsListedOnce, PendingInQueue
<1>3. ASSUME UNCHANGED queue,
             \A x \in Mails : enq[x] = "listed" => enq'[x] = "listed",
             \A x \in Mails : item'[x] = "pending" =>
                 (item[x] = "pending" /\ enq'[x] = enq[x]) \/ enq'[x] \in {"stored", "lost"}
      PROVE  ListInv'
  BY <1>3 DEF IdsListedOnce, PendingInQueue, InList, TypeOK
<1>4. ASSUME NEW m \in Mails, StoreItem(m) PROVE ListInv'
  BY <1>3, <1>4 DEF StoreItem, TypeOK
<1>5. ASSUME NEW m \in Mails, EnqueueFails(m) PROVE ListInv'
  BY <1>3, <1>5 DEF EnqueueFails, TypeOK
<1>6. ASSUME NEW m \in Mails, Expire(m) PROVE ListInv'
  BY <1>3, <1>6 DEF Expire, TypeOK
<1>7. ASSUME NEW r \in Reviewers, StoreDecision(r) PROVE ListInv'
  BY <1>3, <1>7 DEF StoreDecision, TypeOK, Jobs, Decisions
<1>8. ASSUME UNCHANGED <<queue, enq, item>> PROVE ListInv'
  BY <1>3, <1>8
<1>9. QED
  BY <1>1, <1>2, <1>4, <1>5, <1>6, <1>7, <1>8
     DEF Next, ReviewStep, ReadItem, Send, SendFails, ReviewFails, vars

LEMMA ListInvInit == Init => ListInv
BY DEF Init, ListInv, IdsListedOnce, PendingInQueue

\* What stands before position p of the list is p - 1 different mails.
LEMMA AheadIsLarge ==
    ASSUME TypeOK, IdsListedOnce, NEW p \in 1..Len(queue)
    PROVE  Cardinality(Ahead(queue[p])) = p - 1
<1> DEFINE A == Ahead(queue[p])
           f == [i \in 1..(p - 1) |-> queue[i]]
<1>1. queue \in Seq(Mails) /\ Len(queue) \in Nat /\ \A i \in 1..Len(queue) : queue[i] \in Mails
  BY DEF TypeOK
<1>2. A = {queue[i] : i \in 1..(p - 1)}
  <2>1. ASSUME NEW n \in A PROVE \E i \in 1..(p - 1) : n = queue[i]
    <3>1. PICK i, j \in 1..Len(queue) : i < j /\ queue[i] = n /\ queue[j] = queue[p]
      BY <2>1 DEF Ahead
    <3>2. j = p
      BY <3>1 DEF IdsListedOnce
    <3>3. QED BY <3>1, <3>2
  <2>2. ASSUME NEW i \in 1..(p - 1) PROVE queue[i] \in A
    <3>1. i \in 1..Len(queue) /\ i < p
      BY <1>1
    <3>2. QED BY <1>1, <3>1 DEF Ahead
  <2>3. QED BY <2>1, <2>2
<1>3. f \in Bijection(1..(p - 1), A)
  <2>1. \A i, j \in 1..(p - 1) : f[i] = f[j] => i = j
    BY <1>1 DEF IdsListedOnce
  <2>2. f \in [1..(p - 1) -> A] /\ \A n \in A : \E i \in 1..(p - 1) : f[i] = n
    BY <1>2
  <2>3. QED BY <2>1, <2>2 DEF Bijection, Injection, Surjection, IsInjective
<1>4. IsFiniteSet(1..(p - 1)) /\ Cardinality(1..(p - 1)) = p - 1
  <2>1. 1 \in Int /\ p - 1 \in Int /\ p - 1 >= 0
    BY <1>1
  <2>2. Cardinality(1..(p - 1)) = IF 1 > p - 1 THEN 0 ELSE (p - 1) - 1 + 1
    BY <2>1, FS_Interval
  <2>3. QED BY <2>1, <2>2, FS_Interval
<1>5. QED
  <2>1. ExistsBijection(1..(p - 1), A)
    BY <1>3, Zenon DEF ExistsBijection
  <2> HIDE DEF A
  <2>2. Cardinality(A) = p - 1
    BY <2>1, <1>4, FS_Bijection
  <2>3. QED BY <2>2 DEF A

\* A reviewer who lists what is held sees every pending mail, for any number of
\* mails and reviewers and any interleaving, but for those behind the newest
\* ListLimit and those whose enqueue() has not finished; no id is listed twice.
THEOREM HeldMailIsFindable == Spec => [](PendingIsListed /\ IdsListedOnce)
<1>1. TypeOK /\ ListInv => PendingIsListed /\ IdsListedOnce
  <2> SUFFICES ASSUME TypeOK, ListInv, NEW m \in Mails, item[m] = "pending",
                      m \notin ListPending, InList(m)
               PROVE  Cardinality(Ahead(m)) >= ListLimit
    BY DEF ListInv, PendingInQueue, PendingIsListed
  <2>1. PICK p \in 1..Len(queue) : queue[p] = m
    BY DEF InList
  <2>2. p > ListLimit
    BY <2>1, ApprovalAssumption DEF ListPending, TypeOK
  <2>3. Cardinality(Ahead(m)) = p - 1
    BY <2>1, AheadIsLarge DEF ListInv
  <2>4. QED BY <2>2, <2>3, ApprovalAssumption DEF TypeOK
<1>2. QED
  BY <1>1, TypeCorrect, ReviewInvInit, ReviewInvStep, ListInvInit, ListInvStep, PTL DEF Spec

(***************************************************************************)
(* One reviewer: the queue implements HeldMail.  What is in hand cannot be *)
(* decided by anybody else, so the read of "pending" is still true when    *)
(* the decision is stored.                                                 *)
(***************************************************************************)
SoleInv ==
    /\ \A r \in Reviewers : pc[r] = "store" => verdicts[job[r].mail] = {}
    /\ \A r \in Reviewers : pc[r] \in {"remove", "send"} =>
          verdicts[job[r].mail] = {job[r].decision}

LEMMA SoleInvStep ==
    ASSUME NEW s, Reviewers = {s}
    PROVE  TypeOK /\ ReviewInv /\ SoleInv /\ [Next]_vars => SoleInv'
<1> SUFFICES ASSUME TypeOK, ReviewInv, SoleInv, [Next]_vars PROVE SoleInv'
  OBVIOUS
<1> USE DEF SoleInv, TypeOK, Jobs, Decisions
<1>1. ASSUME NEW r \in Reviewers, NEW m \in Mails, NEW d \in Decisions, ReadItem(r, m, d)
      PROVE SoleInv'
  BY <1>1 DEF ReadItem, Reviewable, ReviewInv, DecidedNotPending
<1>2. ASSUME NEW r \in Reviewers, StoreDecision(r) PROVE SoleInv'
  BY <1>2 DEF StoreDecision
<1>3. ASSUME NEW r \in Reviewers, RemoveId(r) PROVE SoleInv'
  BY <1>3 DEF RemoveId, AfterRemoval
<1>4. ASSUME NEW r \in Reviewers, Send(r) \/ SendFails(r) \/ ReviewFails(r) PROVE SoleInv'
  BY <1>4 DEF Send, SendFails, ReviewFails
<1>5. ASSUME UNCHANGED <<pc, job, verdicts>> PROVE SoleInv'
  BY <1>5
<1> HIDE DEF SoleInv, TypeOK, Jobs, Decisions
<1>6. QED
  BY <1>1, <1>2, <1>3, <1>4, <1>5
     DEF Next, ReviewStep, StoreItem, PushId, EnqueueFails, Expire, vars

MappedFate == [m \in Mails |-> Fate(m)]
MappedDelivered == {m \in Mails : \E r \in Reviewers : sent[m][r] > 0}

LEMMA StepRefines ==
    ASSUME NEW s, Reviewers = {s},
           TypeOK, TypeOK', ReviewInv, ReviewInv', SoleInv, [Next]_vars
    PROVE  [Promise!Next]_(Promise!vars)
<1> USE DEF Promise!Next, Promise!vars
<1>1. ASSUME NEW m \in Mails, StoreItem(m) PROVE Promise!Hold(m)
  <2>1. verdicts[m] = {} /\ \A x \in Mails : verdicts'[x] = verdicts[x]
    BY <1>1 DEF StoreItem, ReviewInv, DecidedNotPending, TypeOK
  <2>2. \A x \in Mails : Fate(x)' = IF x = m THEN "undecided" ELSE Fate(x)
    BY <1>1, <2>1 DEF StoreItem, Fate, TypeOK
  <2>3. Fate(m) = "new"
    BY <1>1, <2>1 DEF StoreItem, Fate
  <2>4. UNCHANGED MappedDelivered
    BY <1>1 DEF StoreItem, MappedDelivered
  <2>5. QED BY <2>2, <2>3, <2>4 DEF Promise!Hold, MappedDelivered
<1>2. ASSUME NEW r \in Reviewers, StoreDecision(r)
      PROVE  \E m \in Mails, d \in Decisions : Promise!Resolve(m, d)
  <2> DEFINE m == job[r].mail
             d == job[r].decision
  <2>1. m \in Mails /\ d \in Decisions /\ verdicts[m] = {} /\ enq[m] = "listed"
    BY <1>2 DEF StoreDecision, TypeOK, Jobs, SoleInv, ReviewInv, InHandIsListed
  <2>2. /\ \A x \in Mails : verdicts'[x] = IF x = m THEN {d} ELSE verdicts[x]
        /\ UNCHANGED <<enq, sent>>
    BY <1>2, <2>1 DEF StoreDecision, TypeOK
  <2> HIDE DEF m, d
  <2>3. \A x \in Mails : Fate(x)' = IF x = m THEN d ELSE Fate(x)
    BY <2>1, <2>2 DEF Fate, Decisions
  <2>4. Fate(m) = "undecided"
    BY <2>1 DEF Fate
  <2>5. Promise!Resolve(m, d)
    BY <2>1, <2>2, <2>3, <2>4 DEF Promise!Resolve
  <2>6. QED BY <2>1, <2>5
<1>3. ASSUME NEW r \in Reviewers, Send(r) PROVE \E m \in Mails : Promise!Deliver(m)
  <2> DEFINE m == job[r].mail
  <2>1. m \in Mails /\ sent[m][r] = 0 /\ "approved" \in verdicts[m] /\ r = s
    BY <1>3 DEF Send, TypeOK, Jobs, ReviewInv, InHandIsUnsent, StoredIsRecorded, SendingIsApproval
  <2>2. /\ \A x \in Mails : sent'[x][s] = IF x = m THEN 1 ELSE sent[x][s]
        /\ UNCHANGED <<enq, verdicts>>
    BY <1>3, <2>1 DEF Send, TypeOK
  <2> HIDE DEF m
  <2>3. Fate(m) = "approved" /\ \A x \in Mails : Fate(x)' = Fate(x)
    BY <2>1, <2>2 DEF Fate
  <2>4. m \notin MappedDelivered /\ MappedDelivered' = MappedDelivered \cup {m}
    BY <2>1, <2>2 DEF MappedDelivered
  <2>5. Promise!Deliver(m)
    BY <2>1, <2>3, <2>4 DEF Promise!Deliver, MappedDelivered
  <2>6. QED BY <2>1, <2>5 DEF Promise!Deliver
<1>4. ASSUME UNCHANGED <<verdicts, sent>>, \A m \in Mails : (enq'[m] = "new") <=> (enq[m] = "new")
      PROVE  UNCHANGED <<MappedFate, MappedDelivered>>
  BY <1>4 DEF MappedFate, MappedDelivered, Fate
<1>5. ASSUME NEW m \in Mails, PushId(m) \/ EnqueueFails(m) \/ Expire(m)
      PROVE  UNCHANGED <<MappedFate, MappedDelivered>>
  BY <1>4, <1>5 DEF PushId, EnqueueFails, Expire, TypeOK
<1>6. ASSUME UNCHANGED <<verdicts, sent, enq>> PROVE UNCHANGED <<MappedFate, MappedDelivered>>
  BY <1>4, <1>6
<1>7. QED
  BY <1>1, <1>2, <1>3, <1>5, <1>6
     DEF Next, ReviewStep, ReadItem, RemoveId, SendFails, ReviewFails, vars, Decisions,
         MappedFate, MappedDelivered

\* One reviewer process: through crashes, SMTP errors and expiring keys every
\* mail is decided at most once and sent at most once, only if approved.
THEOREM SoleReviewerKeepsPromise ==
    ASSUME NEW s, Reviewers = {s}
    PROVE  Spec => KeepsPromise
<1>1. Init => Promise!Init
  BY DEF Init, Promise!Init, Fate
<1>2. Init => SoleInv
  BY DEF Init, SoleInv
<1>3. TypeOK /\ TypeOK' /\ ReviewInv /\ ReviewInv' /\ SoleInv /\ [Next]_vars
        => [Promise!Next]_(Promise!vars)
  BY StepRefines
<1>4. QED
  BY <1>1, <1>2, <1>3, TypeCorrect, ReviewInvInit, ReviewInvStep, SoleInvStep, PTL
     DEF Spec, KeepsPromise, Promise!Spec
=============================================================================

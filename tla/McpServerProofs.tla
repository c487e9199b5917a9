--------------------------- MODULE McpServerProofs ---------------------------
(***************************************************************************)
(* Theorems about McpServer, for any accounts, sessions, calls and         *)
(* rotation requests: NoAnonymousCalls, MailBearsItsSender and             *)
(* LatestKeyWorks.                                                         *)
(***************************************************************************)
EXTENDS McpServer, SequenceTheorems, FiniteSetTheorems, TLAPS

(***************************************************************************)
(* The types of the variables the invariants read.                         *)
(***************************************************************************)
RowsOK ==
    /\ status \in [Names -> {"absent", "active", "suspended"}]
    /\ made \in Nat /\ key \in [Names -> Nat]
KeysOK ==
    /\ held \in [Names -> Nat]
    /\ rotating \in [Requests -> {None} \cup (Names \X (0 .. MaxKeys))]
    /\ excused \subseteq Names
SessionsOK ==
    /\ door \in [Sessions -> {"off", "select", "row", "accept", "open", "closing"}]
    /\ found \in [Sessions -> Names \cup {None}]
    /\ writers \in Seq(Sessions)
    /\ account \in [Sessions -> Names \cup {None}]
CallsOK ==
    /\ local \subseteq Calls
    /\ pc \in [Calls -> {"idle", "posted", "checked", "allowed", "held", "sent"}]
    /\ who \in [Calls -> Names \cup {None}]
    /\ agent \in [Calls -> Names \cup {Unchecked, None}]
    /\ start \in [Calls -> {"absent", "active", "suspended"}]
    /\ moved \in [Calls -> BOOLEAN]

(***************************************************************************)
(* Sessions.  A session in the SDK's table is open and there once, so the  *)
(* entry an accepted connection adds is the last one; and an account is    *)
(* registered for it before its first message.                             *)
(***************************************************************************)
WritersAreOpen == \A i \in 1..Len(writers) : door[writers[i]] = "open"
WritersAreDistinct == \A i, j \in 1..Len(writers) : writers[i] = writers[j] => i = j
SessionsAreTheirOwners == \A s \in Sessions : door[s] = "open" => account[s] = found[s]
LetInHasAccount == \A s \in Sessions : door[s] \in {"accept", "open"} => found[s] \in Names

SessionInv ==
    /\ SessionsOK /\ WritersAreOpen /\ WritersAreDistinct
    /\ LetInHasAccount /\ SessionsAreTheirOwners

\* RemoveAt drops one element and moves the later ones up.
LEMMA RemoveAtShape ==
    ASSUME NEW S, NEW q \in Seq(S), NEW p \in 1..Len(q)
    PROVE  /\ RemoveAt(q, p) \in Seq(S)
           /\ Len(RemoveAt(q, p)) = Len(q) - 1
           /\ \A k \in 1..Len(q) - 1 : RemoveAt(q, p)[k] = q[IF k < p THEN k ELSE k + 1]
<1> DEFINE front == SubSeq(q, 1, p - 1)
           back == SubSeq(q, p + 1, Len(q))
<1>1. Len(q) \in Nat /\ p \in Nat /\ 1 <= p /\ p <= Len(q)
  OBVIOUS
<1>2. front \in Seq(S) /\ Len(front) = p - 1 /\ \A k \in 1..p - 1 : front[k] = q[k]
  <2>1. \A k \in 1..p - 1 : q[k] \in S
    BY <1>1
  <2>2. 1 \in Int /\ p - 1 \in Int
    BY <1>1
  <2>3. QED BY <2>1, <2>2, <1>1, SubSeqProperties
<1>3. /\ back \in Seq(S) /\ Len(back) = Len(q) - p
      /\ \A k \in 1..Len(q) - p : back[k] = q[k + p]
  <2>1. \A k \in p + 1..Len(q) : q[k] \in S
    BY <1>1
  <2>2. p + 1 \in Int /\ Len(q) \in Int
    BY <1>1
  <2>3. QED BY <2>1, <2>2, <1>1, SubSeqProperties
<1>4. RemoveAt(q, p) = front \o back
  BY DEF RemoveAt
<1> HIDE DEF front, back
<1>5. /\ front \o back \in Seq(S) /\ Len(front \o back) = Len(q) - 1
      /\ \A k \in 1..Len(q) - 1 :
            (front \o back)[k] = IF k <= p - 1 THEN front[k] ELSE back[k - (p - 1)]
  <2>1. /\ front \o back \in Seq(S) /\ Len(front \o back) = Len(front) + Len(back)
        /\ \A k \in 1..Len(front) + Len(back) :
              (front \o back)[k] = IF k <= Len(front) THEN front[k] ELSE back[k - Len(front)]
    BY <1>2, <1>3, ConcatProperties
  <2>2. Len(front) + Len(back) = Len(q) - 1
    BY <1>1, <1>2, <1>3
  <2>3. QED BY <2>1, <2>2, <1>2
<1>6. ASSUME NEW k \in 1..Len(q) - 1
      PROVE  (front \o back)[k] = q[IF k < p THEN k ELSE k + 1]
  <2>1. CASE k < p
    BY <2>1, <1>1, <1>2, <1>5
  <2>2. CASE ~(k < p)
    <3>1. k - (p - 1) \in 1..Len(q) - p /\ (k - (p - 1)) + p = k + 1
      BY <2>2, <1>1
    <3>2. QED BY <3>1, <2>2, <1>1, <1>3, <1>5
  <2>3. QED BY <2>1, <2>2
<1>7. QED BY <1>4, <1>5, <1>6

\* Dropping a session from the table leaves the others, in their order.
LEMMA WithoutShape ==
    ASSUME writers \in Seq(Sessions), WritersAreDistinct, NEW s \in Sessions
    PROVE  /\ Without(s) \in Seq(Sessions)
           /\ \A i \in 1..Len(Without(s)) : Without(s)[i] # s
           /\ \A i \in 1..Len(Without(s)) : \E j \in 1..Len(writers) : Without(s)[i] = writers[j]
           /\ \A i, j \in 1..Len(Without(s)) : Without(s)[i] = Without(s)[j] => i = j
<1>1. Len(writers) \in Nat /\ DOMAIN writers = 1..Len(writers)
  OBVIOUS
<1>2. CASE s \notin ToSet(writers)
  BY <1>1, <1>2 DEF Without, ToSet, WritersAreDistinct
<1>3. CASE s \in ToSet(writers)
  <2>1. PICK p \in 1..Len(writers) : writers[p] = s /\ Without(s) = RemoveAt(writers, p)
    BY <1>1, <1>3 DEF Without, ToSet
  <2>2. /\ Without(s) \in Seq(Sessions) /\ Len(Without(s)) = Len(writers) - 1
        /\ \A k \in 1..Len(writers) - 1 :
              Without(s)[k] = writers[IF k < p THEN k ELSE k + 1]
    BY <2>1, RemoveAtShape
  <2>3. \A k \in 1..Len(writers) - 1 :
           /\ (IF k < p THEN k ELSE k + 1) \in 1..Len(writers)
           /\ (IF k < p THEN k ELSE k + 1) # p
    BY <1>1
  <2>4. ASSUME NEW i \in 1..Len(writers) - 1
        PROVE  /\ Without(s)[i] # s
               /\ \E j \in 1..Len(writers) : Without(s)[i] = writers[j]
    <3> DEFINE j == IF i < p THEN i ELSE i + 1
    <3>1. j \in 1..Len(writers) /\ j # p /\ Without(s)[i] = writers[j]
      BY <2>2, <2>3
    <3>2. QED BY <3>1, <2>1 DEF WritersAreDistinct
  <2>5. ASSUME NEW i \in 1..Len(writers) - 1, NEW j \in 1..Len(writers) - 1,
               Without(s)[i] = Without(s)[j]
        PROVE  i = j
    <3>1. writers[IF i < p THEN i ELSE i + 1] = writers[IF j < p THEN j ELSE j + 1]
      BY <2>2, <2>5
    <3>2. (IF i < p THEN i ELSE i + 1) = (IF j < p THEN j ELSE j + 1)
      BY <3>1, <2>3 DEF WritersAreDistinct
    <3>3. QED BY <3>2, <1>1
  <2>6. QED BY <2>2, <2>4, <2>5
<1>4. QED BY <1>2, <1>3

LEMMA SessionInvInit == Init => SessionInv
BY DEF Init, SessionInv, SessionsOK, WritersAreOpen, WritersAreDistinct, LetInHasAccount,
       SessionsAreTheirOwners

\* The SDK's table after a session's entry has gone, and its door has closed.
LEMMA WithoutKeepsSessionInv ==
    ASSUME SessionInv, SessionsOK', NEW s \in Sessions, writers' = Without(s),
           door'[s] \notin {"accept", "open"},
           \A t \in Sessions \ {s} :
               door'[t] = door[t] /\ found'[t] = found[t] /\ account'[t] = account[t]
    PROVE  SessionInv'
<1>1. /\ \A i \in 1..Len(writers') : writers'[i] # s
      /\ \A i \in 1..Len(writers') : \E j \in 1..Len(writers) : writers'[i] = writers[j]
      /\ \A i, j \in 1..Len(writers') : writers'[i] = writers'[j] => i = j
  <2>1. writers \in Seq(Sessions) /\ WritersAreDistinct
    BY DEF SessionInv, SessionsOK
  <2>2. /\ \A i \in 1..Len(Without(s)) : Without(s)[i] # s
        /\ \A i \in 1..Len(Without(s)) : \E j \in 1..Len(writers) : Without(s)[i] = writers[j]
        /\ \A i, j \in 1..Len(Without(s)) : Without(s)[i] = Without(s)[j] => i = j
    BY <2>1, WithoutShape
  <2>3. QED BY <2>2
<1>2. \A i \in 1..Len(writers') : door'[writers'[i]] = "open"
  BY <1>1 DEF SessionInv, SessionsOK, WritersAreOpen
<1>3. LetInHasAccount' /\ SessionsAreTheirOwners'
  BY DEF SessionInv, LetInHasAccount, SessionsAreTheirOwners
<1>4. QED
  BY <1>1, <1>2, <1>3 DEF SessionInv, WritersAreOpen, WritersAreDistinct

LEMMA SessionInvStep == SessionInv /\ [Next]_vars => SessionInv'
<1> SUFFICES ASSUME SessionInv, [Next]_vars PROVE SessionInv'
  OBVIOUS
<1>1. ASSUME UNCHANGED sessions PROVE SessionInv'
  BY <1>1 DEF sessions, SessionInv, SessionsOK, WritersAreOpen, WritersAreDistinct, LetInHasAccount,
              SessionsAreTheirOwners
<1>2. ASSUME NEW s \in Sessions, NEW n \in Names, Connect(s, n) PROVE SessionInv'
  BY <1>2, McpAssumption DEF Connect, Door, SessionInv, SessionsOK, WritersAreOpen, WritersAreDistinct,
              LetInHasAccount, SessionsAreTheirOwners
<1>3. ASSUME NEW s \in Sessions, ReadRow(s) PROVE SessionInv'
  BY <1>3 DEF ReadRow, Shut, Door, SessionInv, SessionsOK, WritersAreOpen, WritersAreDistinct,
              LetInHasAccount, SessionsAreTheirOwners
<1>4. ASSUME NEW s \in Sessions, Accept(s) PROVE SessionInv'
  <2> DEFINE w == Append(writers, s)
  <2>1. /\ w \in Seq(Sessions) /\ Len(w) = Len(writers) + 1 /\ Len(writers) \in Nat
        /\ \A i \in 1..Len(w) : w[i] = IF i = Len(w) THEN s ELSE writers[i]
    BY DEF SessionInv, SessionsOK
  <2>2. Last(w) = s
    BY <2>1 DEF Last
  <2>3. /\ door[s] = "accept" /\ door' = [door EXCEPT ![s] = "open"] /\ writers' = w
        /\ account' = [account EXCEPT ![s] = found[s]] /\ UNCHANGED found
    BY <1>4, <2>2 DEF Accept, Door
  <2> HIDE DEF w
  <2>4. \A i \in 1..Len(writers) : writers[i] # s
    BY <2>3 DEF SessionInv, WritersAreOpen
  <2>5. SessionsOK' /\ LetInHasAccount' /\ SessionsAreTheirOwners'
    BY <2>1, <2>3 DEF SessionInv, SessionsOK, LetInHasAccount, SessionsAreTheirOwners
  <2>6. WritersAreOpen'
    <3> SUFFICES ASSUME NEW i \in 1..Len(w) PROVE door'[w[i]] = "open"
      BY <2>3 DEF WritersAreOpen
    <3>1. CASE i = Len(w)
      BY <3>1, <2>1, <2>3 DEF SessionInv, SessionsOK
    <3>2. CASE i # Len(w)
      <4>1. i \in 1..Len(writers) /\ w[i] = writers[i]
        BY <3>2, <2>1
      <4>2. QED BY <4>1, <2>3 DEF SessionInv, SessionsOK, WritersAreOpen
    <3>3. QED BY <3>1, <3>2
  <2>7. WritersAreDistinct'
    BY <2>1, <2>3, <2>4 DEF SessionInv, WritersAreDistinct
  <2>8. QED BY <2>5, <2>6, <2>7 DEF SessionInv
<1>5. ASSUME NEW s \in Sessions, Disconnect(s) PROVE SessionInv'
  <2>1. Without(s) \in Seq(Sessions)
    BY WithoutShape DEF SessionInv, SessionsOK
  <2>2. SessionsOK'
    BY <1>5, <2>1 DEF Disconnect, Door, SessionInv, SessionsOK
  <2>3. /\ writers' = Without(s)
        /\ door'[s] = "closing"
        /\ \A t \in Sessions \ {s} :
               door'[t] = door[t] /\ found'[t] = found[t] /\ account'[t] = account[t]
    BY <1>5 DEF Disconnect, Door, SessionInv, SessionsOK
  <2>4. QED BY <2>2, <2>3, WithoutKeepsSessionInv
<1>6. ASSUME NEW s \in Sessions, Forget(s) PROVE SessionInv'
  <2>1. Without(s) \in Seq(Sessions)
    BY WithoutShape DEF SessionInv, SessionsOK
  <2>2. SessionsOK'
    BY <1>6, <2>1 DEF Forget, Shut, Door, SessionInv, SessionsOK
  <2>3. /\ writers' = Without(s)
        /\ door'[s] = "off"
        /\ \A t \in Sessions \ {s} :
               door'[t] = door[t] /\ found'[t] = found[t] /\ account'[t] = account[t]
    BY <1>6 DEF Forget, Shut, Door, SessionInv, SessionsOK
  <2>4. QED BY <2>2, <2>3, WithoutKeepsSessionInv
<1>7. CASE Crash
  BY <1>7 DEF Crash, SessionInv, SessionsOK, WritersAreOpen, WritersAreDistinct, LetInHasAccount,
              SessionsAreTheirOwners
<1>8. QED
  BY <1>1, <1>2, <1>3, <1>4, <1>5, <1>6, <1>7
     DEF Next, vars, CreateAccount, SetStatus, Becomes, AuthRotate, Rotate, AnswerRotate,
         AnswerIsLost, Stdio, Post, Task, SendEmail, CheckCaller, CheckAgent, Deliver, Answer

(***************************************************************************)
(* Calls.  Unless its sender's account has changed since, what the account *)
(* was when the call came is what both lookups find: the first turns away  *)
(* a name that is another's active account, the second a name that has no  *)
(* active account of its own.                                              *)
(***************************************************************************)
Current(c) == pc[c] # "idle" /\ ~moved[c]
HasSender == \A c \in Calls : pc[c] # "idle" => agent[c] \in Names \cup {Unchecked}
StartIsCurrent ==
    \A c \in Calls : Current(c) =>
        start[c] = IF agent[c] \in Names THEN status[agent[c]] ELSE "absent"
FirstLookup ==
    \A c \in Calls : Current(c) /\ pc[c] # "posted" /\ who[c] # None /\ agent[c] # who[c]
        => start[c] # "active"
SecondLookup ==
    \A c \in Calls : Current(c) /\ pc[c] \notin {"posted", "checked"} =>
        \/ agent[c] = Unchecked
        \/ start[c] = "active"
        \/ start[c] = "absent" /\ agent[c] \in Legacy

CallInv ==
    /\ CallsOK /\ status \in [Names -> {"absent", "active", "suspended"}]
    /\ HasSender /\ StartIsCurrent /\ FirstLookup /\ SecondLookup /\ NoAnonymousCalls

LEMMA CallInvInit == Init => CallInv
BY DEF Init, CallInv, CallsOK, Current, HasSender, StartIsCurrent, FirstLookup, SecondLookup,
       NoAnonymousCalls

LEMMA CallInvStep == SessionInv /\ CallInv /\ [Next]_vars => CallInv'
<1> SUFFICES ASSUME SessionInv, CallInv, [Next]_vars PROVE CallInv'
  OBVIOUS
<1> USE McpAssumption DEF CallInv, CallsOK, Current, HasSender, StartIsCurrent, FirstLookup,
        SecondLookup, NoAnonymousCalls
<1>1. ASSUME NEW n \in Names, NEW st \in {"active", "suspended"}, Becomes(n, st) PROVE CallInv'
  BY <1>1 DEF Becomes
<1>2. ASSUME NEW c \in Calls, NEW a \in Names \cup {None}, NEW d \in Names \cup {Unchecked},
             Task(c, a, d), local' = local \cup {c} \/ (local' = local /\ a # None)
      PROVE  CallInv'
  <2> HIDE McpAssumption DEF CallInv
  <2>1. PICK n \in Names \cup {Unchecked, d} :
              /\ agent' = [agent EXCEPT ![c] = n]
              /\ start' = [start EXCEPT ![c] = IF n \in Names THEN status[n] ELSE "absent"]
    BY <1>2, Zenon DEF Task
  <2> USE McpAssumption DEF CallInv
  <2>2. /\ pc' = [pc EXCEPT ![c] = "posted"] /\ who' = [who EXCEPT ![c] = a]
        /\ UNCHANGED <<status, moved>>
    BY <1>2 DEF Task, rows
  <2>3. CallsOK'
    BY <1>2, <2>1, <2>2
  <2>4. HasSender' /\ StartIsCurrent'
    BY <2>1, <2>2
  <2>5. FirstLookup' /\ SecondLookup' /\ NoAnonymousCalls'
    BY <1>2, <2>1, <2>2
  <2>6. QED BY <2>2, <2>3, <2>4, <2>5
<1>3. ASSUME NEW C \in SUBSET Calls, Reset(C), UNCHANGED rows PROVE CallInv'
  BY <1>3 DEF Reset, rows
<1>4. ASSUME NEW c \in Calls, CheckCaller(c) PROVE CallInv'
  BY <1>3, <1>4 DEF CheckCaller, Goto, Return, rows
<1>5. ASSUME NEW c \in Calls, CheckAgent(c) PROVE CallInv'
  BY <1>3, <1>5 DEF CheckAgent, Goto, Return, rows
<1>6. ASSUME NEW c \in Calls, Deliver(c) PROVE CallInv'
  BY <1>3, <1>6 DEF Deliver, Goto, Return, rows
<1>7. ASSUME UNCHANGED <<status, calls>> PROVE CallInv'
  BY <1>7 DEF calls
<1> HIDE McpAssumption DEF CallInv, CallsOK, Current, HasSender, StartIsCurrent, FirstLookup,
        SecondLookup, NoAnonymousCalls
<1>8. ASSUME NEW n \in Names, CreateAccount(n) \/ SetStatus(n) PROVE CallInv'
  BY <1>1, <1>8 DEF CreateAccount, SetStatus
<1>9. ASSUME NEW c \in Calls, Stdio(c) PROVE CallInv'
  BY <1>2, <1>9, McpAssumption DEF Stdio
<1>10. ASSUME NEW c \in Calls, NEW s \in Sessions, Post(c, s) PROVE CallInv'
  <2>1. account[s] \in Names
    BY <1>10 DEF Post, ToSet, SessionInv, SessionsOK, WritersAreOpen, LetInHasAccount, SessionsAreTheirOwners
  <2>2. QED BY <1>2, <1>10, <2>1, McpAssumption DEF Post
<1>11. CASE Crash
  <2>1. Calls \ local \in SUBSET Calls
    OBVIOUS
  <2>2. QED BY <1>3, <1>11, <2>1 DEF Crash
<1>12. ASSUME NEW c \in Calls, Answer(c) PROVE CallInv'
  BY <1>3, <1>12 DEF Answer, Return
<1>13. QED
  BY <1>4, <1>5, <1>6, <1>7, <1>8, <1>9, <1>10, <1>11, <1>12
     DEF Next, vars, rows, calls, AuthRotate, Rotate, AnswerRotate, AnswerIsLost, Connect, ReadRow,
         Accept, Disconnect, Forget, SendEmail

\* No call over SSE ever runs without the account of its session, however the
\* session table and the registered accounts change under it.
THEOREM CallsAreIdentified == Spec => []NoAnonymousCalls
<1>1. CallInv => NoAnonymousCalls
  BY DEF CallInv
<1>2. QED
  BY <1>1, SessionInvInit, SessionInvStep, CallInvInit, CallInvStep, PTL DEF Spec

\* Through account changes between the lookups, restarts and closing sessions,
\* mail goes out or is held only in a name the caller may use.
THEOREM MailIsTheCallers == Spec => []MailBearsItsSender
<1>1. CallInv => MailBearsItsSender
  <2> SUFFICES ASSUME CallInv, NEW c \in Calls, pc[c] \in {"sent", "held"}, ~moved[c],
                      agent[c] # Unchecked, ~(start[c] = "absent" /\ agent[c] \in Legacy),
                      c \notin local
               PROVE  start[c] = "active" /\ agent[c] = who[c]
    BY DEF MailBearsItsSender, CallInv, SecondLookup, Current
  <2>1. start[c] = "active"
    BY DEF CallInv, SecondLookup, Current
  <2>2. who[c] # None
    BY DEF CallInv, NoAnonymousCalls
  <2>3. QED BY <2>1, <2>2 DEF CallInv, FirstLookup, Current
<1>2. QED
  BY <1>1, SessionInvInit, SessionInvStep, CallInvInit, CallInvStep, PTL DEF Spec

(***************************************************************************)
(* Keys.  A request that an account not excused has in progress is its     *)
(* only one; before its commit the owner's key is the valid one, after it  *)
(* the request holds the valid key, which the owner does not have yet.     *)
(* Keys are numbered as made, so a new one is nobody's.                    *)
(***************************************************************************)
Rotates(r, n) == rotating[r] # None /\ rotating[r][1] = n
KeyIsNumbered ==
    /\ \A n \in Names : key[n] <= made /\ held[n] <= made
    /\ \A r \in Requests : rotating[r] # None => rotating[r][2] <= made
    /\ \A n \in Names : key[n] = 0 <=> status[n] = "absent"
RotatesAnAccount == \A r \in Requests, n \in Names : Rotates(r, n) => status[n] # "absent"
OneRotation ==
    \A n \in Names \ excused, r, q \in Requests : Rotates(r, n) /\ Rotates(q, n) => r = q
KeyInTransit ==
    \A n \in Names \ excused, r \in Requests : Rotates(r, n) =>
        IF rotating[r][2] = 0 THEN held[n] = key[n]
        ELSE key[n] = rotating[r][2] /\ held[n] # key[n]

KeyInv ==
    /\ RowsOK /\ KeysOK /\ KeyIsNumbered /\ RotatesAnAccount
    /\ OneRotation /\ KeyInTransit /\ LatestKeyWorks

LEMMA KeyInvInit == Init => KeyInv
<1> SUFFICES ASSUME Init PROVE KeyInv
  OBVIOUS
<1>1. IsFiniteSet({n \in Names : status[n] # "absent"})
  BY McpAssumption, FS_Subset
<1>2. made \in Nat
  BY <1>1, FS_CardinalityType DEF Init
<1>3. RowsOK /\ KeysOK
  BY <1>2 DEF Init, RowsOK, KeysOK
<1>4. QED
  BY <1>2, <1>3 DEF Init, KeyInv, RowsOK, KeysOK, KeyIsNumbered, RotatesAnAccount, OneRotation,
                    KeyInTransit, LatestKeyWorks, Rotates

LEMMA KeyInvStep == KeyInv /\ [Next]_vars => KeyInv'
<1> SUFFICES ASSUME KeyInv, [Next]_vars PROVE KeyInv'
  OBVIOUS
<1> USE DEF KeyInv, RowsOK, KeysOK, KeyIsNumbered, RotatesAnAccount, OneRotation,
            KeyInTransit, LatestKeyWorks, Rotates
<1>1. ASSUME NEW n \in Names, CreateAccount(n) PROVE KeyInv'
  BY <1>1, McpAssumption DEF CreateAccount, Becomes
<1>2. ASSUME NEW n \in Names, SetStatus(n) PROVE KeyInv'
  BY <1>2 DEF SetStatus, Becomes, Fault, keys
<1>3. ASSUME NEW r \in Requests, NEW n \in Names, AuthRotate(r, n) PROVE KeyInv'
  BY <1>3, McpAssumption DEF AuthRotate, rows
<1>4. ASSUME NEW r \in Requests, Rotate(r) PROVE KeyInv'
  BY <1>4, McpAssumption DEF Rotate
<1>5. ASSUME NEW r \in Requests, AnswerRotate(r) PROVE KeyInv'
  <2> USE <1>5, McpAssumption DEF AnswerRotate, rows
  <2> DEFINE n == rotating[r][1]
             k == rotating[r][2]
  <2>1. rotating[r] \in Names \X (0 .. MaxKeys) /\ n \in Names /\ k \in 0 .. MaxKeys /\ k # 0
    OBVIOUS
  <2>2. /\ rotating' = [rotating EXCEPT ![r] = None] /\ held' = [held EXCEPT ![n] = k]
        /\ UNCHANGED <<status, key, made, excused>>
    OBVIOUS
  <2>3. n \notin excused => k = key[n]
    BY <2>1
  <2>4. k <= made /\ Rotates(r, n)
    OBVIOUS
  <2> HIDE <1>5, McpAssumption DEF n, k
  <2>5. RowsOK' /\ KeysOK' /\ KeyIsNumbered'
    BY <2>1, <2>2, <2>4
  <2>6. \A q \in Requests, m \in Names : Rotates(q, m)' => q # r /\ Rotates(q, m)
    BY <2>2
  <2>7. RotatesAnAccount' /\ OneRotation'
    BY <2>2, <2>6
  <2>8. ASSUME NEW m \in Names \ excused, NEW q \in Requests, Rotates(q, m)'
        PROVE  m # n /\ q # r
    BY <2>1, <2>4, <2>6, <2>8
  <2>9. KeyInTransit'
    BY <2>1, <2>2, <2>6, <2>8
  <2>10. LatestKeyWorks'
    BY <2>1, <2>2, <2>3, <2>6 DEF n
  <2>11. QED BY <2>5, <2>7, <2>9, <2>10
<1>6. ASSUME NEW r \in Requests, AnswerIsLost(r) PROVE KeyInv'
  BY <1>6, McpAssumption DEF AnswerIsLost, rows, Fault
<1>7. ASSUME UNCHANGED <<rows, keys>> PROVE KeyInv'
  BY <1>7 DEF rows, keys
<1> HIDE DEF KeyInv, RowsOK, KeysOK, KeyIsNumbered, RotatesAnAccount, OneRotation,
             KeyInTransit, LatestKeyWorks, Rotates
<1>8. QED
  BY <1>1, <1>2, <1>3, <1>4, <1>5, <1>6, <1>7
     DEF Next, vars, rows, keys, Connect, ReadRow, Accept, Disconnect, Forget, Stdio, Post,
         Task, SendEmail, CheckCaller, CheckAgent, Deliver, Answer, Crash

\* Whatever rotations, lost answers and restarts do to the other accounts, an
\* owner whose rotations came one at a time and were answered has the valid key.
THEOREM OwnersKeyIsValid == Spec => []LatestKeyWorks
<1>1. KeyInv => LatestKeyWorks
  BY DEF KeyInv
<1>2. QED BY <1>1, KeyInvInit, KeyInvStep, PTL DEF Spec
=============================================================================

--------------------------- MODULE MailIngestProofs ---------------------------
(***************************************************************************)
(* Theorems about MailIngest, for any mails, agents, page size and bounds: *)
(* PagingMissesNothing, DuplicatesAreLateAnswers, and that the pipe, the   *)
(* server and the inbox implement MailDelivery (KeepsMail).                *)
(***************************************************************************)
EXTENDS MailIngest, SequenceTheorems, FiniteSetTheorems, TLAPS

(***************************************************************************)
(* Counting copies in a list of mails.                                     *)
(***************************************************************************)
At(q, m) == {i \in DOMAIN q : q[i] = m}

\* A mail put before the others is one copy more of that mail, and no more of
\* any other.
LEMMA PrependCounts ==
    ASSUME NEW q \in Seq(Mails), NEW m \in Mails, NEW n \in Mails
    PROVE  /\ Cardinality(At(q, n)) \in Nat
           /\ Cardinality(At(<<m>> \o q, n)) = Cardinality(At(q, n)) + (IF n = m THEN 1 ELSE 0)
<1> DEFINE new == <<m>> \o q
           I == At(q, n)
           J == {i \in 2..Len(q) + 1 : q[i - 1] = n}
           up1 == [i \in I |-> i + 1]
<1>1. Len(q) \in Nat /\ DOMAIN q = 1..Len(q) /\ I \in SUBSET (1..Len(q))
  BY DEF At
<1>2. IsFiniteSet(I) /\ Cardinality(I) \in Nat
  <2>1. IsFiniteSet(1..Len(q))
    BY <1>1, FS_Interval
  <2>2. QED BY <1>1, <2>1, FS_Subset, FS_CardinalityType
<1>3. up1 \in Bijection(I, J)
  <2>1. \A i \in I : i + 1 \in J
    BY <1>1 DEF At
  <2>2. \A j \in J : j - 1 \in I /\ (j - 1) + 1 = j
    BY <1>1 DEF At
  <2>3. \A i, j \in I : i + 1 = j + 1 => i = j
    BY <1>1
  <2> HIDE DEF I, J
  <2>4. up1 \in Injection(I, J)
    BY <2>1, <2>3 DEF Injection, IsInjective
  <2>5. up1 \in Surjection(I, J)
    BY <2>1, <2>2 DEF Surjection
  <2>6. QED BY <2>4, <2>5 DEF Bijection
<1>4. IsFiniteSet(J) /\ Cardinality(J) = Cardinality(I) /\ 1 \notin J
  BY <1>1, <1>2, <1>3, FS_Bijection DEF ExistsBijection
<1>5. At(new, n) = IF n = m THEN J \cup {1} ELSE J
  <2>1. /\ new \in Seq(Mails) /\ Len(new) = Len(q) + 1 /\ DOMAIN new = 1..Len(q) + 1
        /\ \A i \in 1..Len(q) + 1 : new[i] = IF i = 1 THEN m ELSE q[i - 1]
    BY <1>1, ConcatProperties
  <2> HIDE DEF new
  <2>2. QED BY <1>1, <2>1 DEF At
<1> HIDE DEF I, J, new
<1>6. CASE n = m
  BY <1>2, <1>4, <1>5, <1>6, FS_AddElement DEF I, new
<1>7. CASE n # m
  BY <1>2, <1>4, <1>5, <1>7 DEF I, new
<1>8. QED BY <1>6, <1>7

(***************************************************************************)
(* Types.                                                                  *)
(***************************************************************************)
Places == {"off", "parse", "post", "wait"}
PipesOK ==     \* Postfix waits for a mail exactly while its pipe process runs
    /\ queue \in [Mails -> {"queued", "piping", "delivered", "returned"}]
    /\ pipe \in [Mails -> Places]
    /\ \A m \in Mails : queue[m] = "piping" <=> pipe[m] # "off"
RequestsOK ==
    /\ requests \subseteq Mails \X Nat /\ IsFiniteSet(requests)
    /\ answers \subseteq Mails \X Nat
TypeInv ==
    /\ PipesOK /\ RequestsOK
    /\ attempts \in [Mails -> Nat] /\ late \in [Mails -> Nat]
    /\ kind \in [Mails -> {"plain", "invite", "blank", "broken"}]
    /\ inbox \in [Agents -> Seq(Mails)]
    /\ page \in [Agents -> Nat \cup {-1}] /\ due \in [Agents -> SUBSET Mails]

LEMMA TypeInvInit == Init => TypeInv
<1> SUFFICES ASSUME Init PROVE TypeInv
  OBVIOUS
<1>1. <<>> \in Seq(Mails)
  OBVIOUS
<1>2. QED
  BY <1>1, MailAssumption, FS_EmptySet DEF Init, TypeInv, Places, PipesOK, RequestsOK

\* A pipe process that exits or goes on keeps PipesOK.
LEMMA PipeSteps ==
    ASSUME PipesOK, NEW m \in Mails
    PROVE  /\ \A q \in {"queued", "delivered"} : Exit(m, q) => PipesOK'
           /\ \A l \in {"post", "wait"} : pipe[m] # "off" /\ Goto(m, l) => PipesOK'
           /\ UNCHANGED <<queue, pipe>> => PipesOK'
<1> USE DEF PipesOK, Places
<1>1. ASSUME NEW q \in {"queued", "delivered"}, Exit(m, q) PROVE PipesOK'
  BY <1>1 DEF Exit
<1>2. ASSUME NEW l \in {"post", "wait"}, pipe[m] # "off", Goto(m, l) PROVE PipesOK'
  BY <1>2 DEF Goto
<1>3. QED BY <1>1, <1>2

LEMMA TypeInvStep == TypeInv /\ [Next]_vars => TypeInv'
<1> SUFFICES ASSUME TypeInv, [Next]_vars PROVE TypeInv'
  OBVIOUS
<1> USE DEF TypeInv, mailVars, serverVars, readVars
<1>1. ASSUME NEW m \in Mails, StartPipe(m) PROVE TypeInv'
  <2>1. PipesOK'
    BY <1>1 DEF StartPipe, PipesOK, Places
  <2>2. QED BY <1>1, <2>1 DEF StartPipe, RequestsOK
<1>2. ASSUME NEW m \in Mails, Parse(m) PROVE TypeInv'
  <2>1. PipesOK'
    BY <1>2, PipeSteps DEF Parse, TempFail
  <2>2. QED BY <1>2, <2>1 DEF Parse, RequestsOK
<1>3. ASSUME NEW m \in Mails, Post(m) PROVE TypeInv'
  <2>1. PipesOK'
    BY <1>3, PipeSteps DEF Post, TempFail
  <2>2. IsFiniteSet(requests \cup {<<m, attempts[m]>>})
    BY FS_AddElement DEF RequestsOK
  <2>3. /\ requests' = requests \/ requests' = requests \cup {<<m, attempts[m]>>}
        /\ UNCHANGED answers
    BY <1>3 DEF Post
  <2>4. RequestsOK'
    <3>1. <<m, attempts[m]>> \in Mails \X Nat
      OBVIOUS
    <3>2. IsFiniteSet(requests')
      BY <2>2, <2>3 DEF RequestsOK
    <3>3. QED BY <2>3, <3>1, <3>2 DEF RequestsOK
  <2>5. QED BY <1>3, <2>1, <2>4 DEF Post
<1>4. ASSUME NEW m \in Mails, GiveUp(m) PROVE TypeInv'
  <2>1. PipesOK'
    BY <1>4, PipeSteps DEF GiveUp, TempFail
  <2>2. QED BY <1>4, <2>1 DEF GiveUp, RequestsOK
<1>5. ASSUME NEW m \in Mails, Return(m) PROVE TypeInv'
  <2>1. PipesOK'
    BY <1>5 DEF Return, PipesOK, Places
  <2>2. QED BY <1>5, <2>1 DEF Return, RequestsOK
<1>6. ASSUME NEW m \in Mails, NEW k, requests' = requests \ {<<m, k>>},
             answers' = answers \/ (answers' = answers \cup {<<m, k>>} /\ <<m, k>> \in requests)
      PROVE  RequestsOK'
  <2>1. IsFiniteSet(requests \ {<<m, k>>})
    BY FS_RemoveElement DEF RequestsOK
  <2>2. QED BY <1>6, <2>1 DEF RequestsOK
<1>7. ASSUME NEW m \in Mails, NEW k, Ingest(m, k) PROVE TypeInv'
  <2>1. RequestsOK'
    BY <1>6, <1>7 DEF Ingest, Refuse
  <2>2. PipesOK'
    BY <1>7, PipeSteps DEF Ingest, Refuse, TempFail
  <2>3. inbox' \in [Agents -> Seq(Mails)]
    <3>1. <<m>> \o inbox[To[m]] \in Seq(Mails)
      BY MailAssumption, ConcatProperties
    <3>2. QED BY <1>7, <3>1 DEF Ingest
  <2>4. UNCHANGED <<kind, attempts, late, readVars>>
    BY <1>7 DEF Ingest, Refuse
  <2>5. QED BY <2>1, <2>2, <2>3, <2>4
<1>8. ASSUME NEW m \in Mails, NEW k, Answer(m, k) PROVE TypeInv'
  <2>1. PipesOK'
    BY <1>8, PipeSteps DEF Answer
  <2>2. QED BY <1>8, <2>1 DEF Answer, RequestsOK
<1>9. CASE ServerDies \/ ServerStarts
  <2>1. PipesOK'
    BY <1>9 DEF ServerDies, ServerStarts, PipesOK
  <2>2. RequestsOK'
    BY <1>9, FS_EmptySet DEF ServerDies, ServerStarts, RequestsOK
  <2>3. QED BY <1>9, <2>1, <2>2 DEF ServerDies, ServerStarts
<1>10. ASSUME UNCHANGED <<mailVars, requests, answers, inbox, page, due>> PROVE TypeInv'
  BY <1>10 DEF PipesOK, RequestsOK
<1>11. ASSUME NEW a \in Agents, OpenInbox(a) PROVE TypeInv'
  BY <1>11 DEF OpenInbox, PipesOK, RequestsOK
<1>12. ASSUME NEW a \in Agents, ReadPage(a) PROVE TypeInv'
  <2>1. PageSize \in Nat /\ page[a] \in Nat /\ page[a] + PageSize \in Nat
    BY <1>12, MailAssumption DEF ReadPage
  <2>2. PICK shown, last :
              /\ due' = [due EXCEPT ![a] = @ \ shown]
              /\ page' = [page EXCEPT ![a] = IF last THEN -1 ELSE @ + PageSize]
    BY <1>12 DEF ReadPage
  <2>3. UNCHANGED <<mailVars, serverVars, inbox>>
    BY <1>12 DEF ReadPage
  <2>4. QED BY <2>1, <2>2, <2>3 DEF PipesOK, RequestsOK
<1> HIDE DEF TypeInv
<1>13. QED
  BY <1>1, <1>2, <1>3, <1>4, <1>5, <1>7, <1>8, <1>9, <1>10, <1>11, <1>12
     DEF Next, vars, Deliver, Serve, SetStatus

(***************************************************************************)
(* Paging.  Mail only ever enters at the front, so what a reader has yet   *)
(* to see can only move further behind its offset, and a page shorter than *)
(* PageSize was the last.                                                  *)
(***************************************************************************)
DueIsAhead ==
    \A a \in Agents : \A x \in due[a] :
        page[a] >= 0 /\ \E i \in 1..Len(inbox[a]) : i > page[a] /\ inbox[a][i] = x

LEMMA DueIsAheadInit == Init => DueIsAhead
BY DEF Init, DueIsAhead

\* A page has the messages of its PageSize places, as far as there are any.
LEMMA ListingShows ==
    ASSUME NEW a \in Agents, inbox[a] \in Seq(Mails), NEW offset \in Nat
    PROVE  LET l == Listing(a, offset) IN
           /\ Len(l) < PageSize => Len(inbox[a]) < offset + PageSize
           /\ \A i \in 1..Len(inbox[a]) :
                 i > offset /\ i <= offset + PageSize => \E j \in DOMAIN l : l[j] = inbox[a][i]
<1> DEFINE q == inbox[a]
           end == offset + PageSize
           last == IF end > Len(q) THEN Len(q) ELSE end
           l == Listing(a, offset)
<1>1. PageSize \in Nat /\ PageSize > 0 /\ Len(q) \in Nat /\ offset + 1 \in Int /\ last \in Int
  BY MailAssumption
<1>2. l = SubSeq(q, offset + 1, last)
  BY DEF Listing
<1>3. \A i \in offset + 1 .. last : q[i] \in Mails
  BY <1>1
<1> HIDE DEF q
<1>4. /\ Len(l) = IF offset + 1 <= last THEN last - (offset + 1) + 1 ELSE 0
      /\ l \in Seq(Mails)
      /\ \A i \in 1 .. last - (offset + 1) + 1 : l[i] = q[offset + 1 + i - 1]
  BY <1>1, <1>2, <1>3, SubSeqProperties
<1> HIDE DEF l
<1>5. Len(l) < PageSize => Len(q) < offset + PageSize
  BY <1>1, <1>4
<1>6. ASSUME NEW i \in 1..Len(q), i > offset, i <= end
      PROVE  \E j \in DOMAIN l : l[j] = q[i]
  <2> DEFINE j == i - offset
  <2>1. i <= last /\ offset + 1 <= last
    BY <1>1, <1>6
  <2>2. j \in 1 .. last - (offset + 1) + 1 /\ offset + 1 + j - 1 = i
    BY <1>1, <1>6, <2>1
  <2>3. DOMAIN l = 1..Len(l) /\ Len(l) = last - (offset + 1) + 1
    BY <1>4, <2>1
  <2> HIDE DEF j
  <2>4. QED BY <1>4, <2>2, <2>3
<1>7. QED BY <1>5, <1>6 DEF q, l

LEMMA DueIsAheadStep == TypeInv /\ DueIsAhead /\ [Next]_vars => DueIsAhead'
<1> SUFFICES ASSUME TypeInv, DueIsAhead, [Next]_vars PROVE DueIsAhead'
  OBVIOUS
<1>1. ASSUME NEW m \in Mails, inbox' = [inbox EXCEPT ![To[m]] = <<m>> \o @], UNCHANGED readVars
      PROVE  DueIsAhead'
  <2> SUFFICES ASSUME NEW a \in Agents, NEW x \in due[a]
               PROVE  page[a] >= 0 /\ \E i \in 1..Len(inbox'[a]) : i > page[a] /\ inbox'[a][i] = x
    BY <1>1 DEF DueIsAhead, readVars
  <2>1. PICK i \in 1..Len(inbox[a]) : i > page[a] /\ inbox[a][i] = x
    BY DEF DueIsAhead
  <2>2. page[a] >= 0 /\ page[a] \in Nat /\ inbox[a] \in Seq(Mails) /\ Len(inbox[a]) \in Nat
    BY DEF DueIsAhead, TypeInv
  <2>3. CASE a = To[m]
    <3>1. inbox'[a] = <<m>> \o inbox[a]
      BY <1>1, <2>3 DEF TypeInv
    <3>2. /\ Len(<<m>> \o inbox[a]) = Len(inbox[a]) + 1
          /\ \A j \in 1..Len(inbox[a]) + 1 :
                (<<m>> \o inbox[a])[j] = IF j = 1 THEN m ELSE inbox[a][j - 1]
      BY <2>2, ConcatProperties
    <3>3. i + 1 \in 1..Len(inbox[a]) + 1 /\ i + 1 > page[a] /\ (i + 1) - 1 = i /\ i + 1 # 1
      BY <2>1, <2>2
    <3>4. QED BY <2>1, <2>2, <3>1, <3>2, <3>3
  <2>4. CASE a # To[m]
    BY <1>1, <2>1, <2>2, <2>4 DEF TypeInv
  <2>5. QED BY <2>3, <2>4
<1>2. ASSUME NEW a \in Agents, OpenInbox(a) PROVE DueIsAhead'
  <2>1. /\ page' = [page EXCEPT ![a] = 0] /\ due' = [due EXCEPT ![a] = {inbox[a][i] : i \in DOMAIN inbox[a]}]
        /\ UNCHANGED inbox
    BY <1>2 DEF OpenInbox
  <2>2. DOMAIN inbox[a] = 1..Len(inbox[a])
    BY DEF TypeInv
  <2>3. QED BY <2>1, <2>2 DEF DueIsAhead, TypeInv
<1>3. ASSUME NEW a \in Agents, ReadPage(a) PROVE DueIsAhead'
  <2> DEFINE l == Listing(a, page[a])
             shown == {l[i] : i \in DOMAIN l}
  <2>1. /\ page[a] \in Nat /\ PageSize \in Nat
        /\ due' = [due EXCEPT ![a] = @ \ shown]
        /\ page' = [page EXCEPT ![a] = IF Len(l) < PageSize THEN -1 ELSE @ + PageSize]
        /\ UNCHANGED inbox
    BY <1>3, MailAssumption DEF ReadPage, TypeInv
  <2>2. /\ Len(l) < PageSize => Len(inbox[a]) < page[a] + PageSize
        /\ \A i \in 1..Len(inbox[a]) :
              i > page[a] /\ i <= page[a] + PageSize => inbox[a][i] \in shown
    BY <2>1, ListingShows DEF TypeInv
  <2> HIDE DEF l, shown
  <2>3. ASSUME NEW x \in due'[a]
        PROVE  page'[a] >= 0 /\ \E i \in 1..Len(inbox[a]) : i > page'[a] /\ inbox[a][i] = x
    <3>1. x \in due[a] /\ x \notin shown
      BY <2>1, <2>3 DEF TypeInv
    <3>2. PICK i \in 1..Len(inbox[a]) : i > page[a] /\ inbox[a][i] = x
      BY <3>1 DEF DueIsAhead
    <3>3. i > page[a] + PageSize
      BY <2>1, <2>2, <3>1, <3>2
    <3>4. ~(Len(l) < PageSize)
      BY <2>1, <2>2, <3>3 DEF TypeInv
    <3>5. page'[a] = page[a] + PageSize
      BY <2>1, <3>4 DEF TypeInv
    <3>6. QED BY <2>1, <3>2, <3>3, <3>5
  <2>4. \A b \in Agents \ {a} : due'[b] = due[b] /\ page'[b] = page[b]
    BY <2>1 DEF TypeInv
  <2>5. QED BY <2>1, <2>3, <2>4 DEF DueIsAhead
<1>4. CASE UNCHANGED <<inbox, readVars>>
  BY <1>4 DEF DueIsAhead, readVars
<1>5. ASSUME NEW m \in Mails, NEW k, Ingest(m, k) PROVE DueIsAhead'
  BY <1>1, <1>4, <1>5 DEF Ingest
<1>6. QED
  BY <1>2, <1>3, <1>4, <1>5
     DEF Next, vars, Deliver, Serve, StartPipe, Parse, Post, GiveUp, Return, Answer, ServerDies,
         ServerStarts, SetStatus

\* A reader of GET /inbox that pages by offset to the end has seen every message
\* that was there when it began, for any page size and any mail arriving meanwhile.
THEOREM PagingIsComplete == Spec => []PagingMissesNothing
<1>1. TypeInv /\ DueIsAhead => PagingMissesNothing
  BY DEF TypeInv, DueIsAhead, PagingMissesNothing
<1>2. QED BY <1>1, TypeInvInit, TypeInvStep, DueIsAheadInit, DueIsAheadStep, PTL DEF Spec

(***************************************************************************)
(* Copies.  Every request the server has may yet store a copy, but all     *)
(* except the one a pipe waits for were counted late, and that one is the  *)
(* one that lets Postfix go of the mail.                                   *)
(***************************************************************************)
RequestsOf(m) == {r \in requests : r[1] = m}
AwaitsOrHas(m) == pipe[m] = "wait" \/ queue[m] = "delivered"
CopiesAreAccountedFor ==
    \A m \in Mails :
        Copies[m] + Cardinality(RequestsOf(m)) <= late[m] + (IF AwaitsOrHas(m) THEN 1 ELSE 0)
AnswersAreStored == \A r \in answers : Copies[r[1]] > 0

LEMMA CopiesAreCounted ==
    ASSUME TypeInv, NEW n \in Mails
    PROVE  /\ Copies[n] \in Nat
           /\ UNCHANGED inbox => Copies'[n] = Copies[n]
           /\ \A m \in Mails : inbox' = [inbox EXCEPT ![To[m]] = <<m>> \o @]
                 => Copies'[n] = Copies[n] + (IF n = m THEN 1 ELSE 0)
<1>1. Copies[n] = Cardinality(At(inbox[To[n]], n)) /\ Copies'[n] = Cardinality(At(inbox'[To[n]], n))
  BY DEF Copies, At
<1>2. inbox[To[n]] \in Seq(Mails) /\ To \in [Mails -> Agents]
  BY MailAssumption DEF TypeInv
<1>3. Copies[n] \in Nat
  BY <1>1, <1>2, PrependCounts
<1>4. ASSUME NEW m \in Mails, inbox' = [inbox EXCEPT ![To[m]] = <<m>> \o @]
      PROVE  Copies'[n] = Copies[n] + (IF n = m THEN 1 ELSE 0)
  <2>1. CASE To[n] = To[m]
    <3>1. inbox'[To[n]] = <<m>> \o inbox[To[n]]
      BY <1>2, <1>4, <2>1 DEF TypeInv
    <3>2. QED BY <1>1, <1>2, <3>1, PrependCounts
  <2>2. CASE To[n] # To[m]
    <3>1. inbox'[To[n]] = inbox[To[n]] /\ n # m
      BY <1>2, <1>4, <2>2 DEF TypeInv
    <3>2. QED BY <1>1, <1>3, <3>1
  <2>3. QED BY <2>1, <2>2
<1>5. UNCHANGED inbox => Copies'[n] = Copies[n]
  BY <1>1
<1>6. QED BY <1>3, <1>4, <1>5

LEMMA RequestsAreCounted ==
    ASSUME TypeInv, TypeInv', NEW n \in Mails
    PROVE  /\ Cardinality(RequestsOf(n)) \in Nat /\ Cardinality(RequestsOf(n)') \in Nat
           /\ UNCHANGED requests => Cardinality(RequestsOf(n)') = Cardinality(RequestsOf(n))
           /\ requests' = {} => Cardinality(RequestsOf(n)') = 0
           /\ \A m \in Mails, k \in Nat : requests' = requests \cup {<<m, k>>}
                 => Cardinality(RequestsOf(n)') <= Cardinality(RequestsOf(n)) + (IF n = m THEN 1 ELSE 0)
           /\ \A m \in Mails, k \in Nat : <<m, k>> \in requests /\ requests' = requests \ {<<m, k>>}
                 => Cardinality(RequestsOf(n)') = Cardinality(RequestsOf(n)) - (IF n = m THEN 1 ELSE 0)
<1>1. RequestsOf(n) \in SUBSET requests /\ IsFiniteSet(requests)
  BY DEF RequestsOf, TypeInv, RequestsOK
<1>2. IsFiniteSet(RequestsOf(n)) /\ Cardinality(RequestsOf(n)) \in Nat
  BY <1>1, FS_Subset, FS_CardinalityType
<1>3. Cardinality(RequestsOf(n)') \in Nat
  <2>1. RequestsOf(n)' \in SUBSET requests' /\ IsFiniteSet(requests')
    BY DEF RequestsOf, TypeInv, RequestsOK
  <2>2. QED BY <2>1, FS_Subset, FS_CardinalityType
<1>4. UNCHANGED requests => RequestsOf(n)' = RequestsOf(n)
  BY DEF RequestsOf
<1>5. requests' = {} => Cardinality(RequestsOf(n)') = 0
  <2>1. requests' = {} => RequestsOf(n)' = {}
    BY DEF RequestsOf
  <2>2. QED BY <2>1, FS_EmptySet
<1>6. ASSUME NEW m \in Mails, NEW k \in Nat, requests' = requests \cup {<<m, k>>}
      PROVE  Cardinality(RequestsOf(n)') <= Cardinality(RequestsOf(n)) + (IF n = m THEN 1 ELSE 0)
  <2>1. RequestsOf(n)' = IF n = m THEN RequestsOf(n) \cup {<<m, k>>} ELSE RequestsOf(n)
    BY <1>6 DEF RequestsOf
  <2>2. CASE n = m
    <3>1. Cardinality(RequestsOf(n) \cup {<<m, k>>})
            = IF <<m, k>> \in RequestsOf(n) THEN Cardinality(RequestsOf(n)) ELSE Cardinality(RequestsOf(n)) + 1
      BY <1>2, FS_AddElement
    <3>2. QED BY <1>2, <2>1, <2>2, <3>1
  <2>3. CASE n # m
    BY <1>2, <2>1, <2>3
  <2>4. QED BY <2>2, <2>3
<1>7. ASSUME NEW m \in Mails, NEW k \in Nat, <<m, k>> \in requests, requests' = requests \ {<<m, k>>}
      PROVE  Cardinality(RequestsOf(n)') = Cardinality(RequestsOf(n)) - (IF n = m THEN 1 ELSE 0)
  <2>1. /\ RequestsOf(n)' = IF n = m THEN RequestsOf(n) \ {<<m, k>>} ELSE RequestsOf(n)
        /\ n = m => <<m, k>> \in RequestsOf(n)
    BY <1>7 DEF RequestsOf
  <2>2. CASE n = m
    <3>1. Cardinality(RequestsOf(n) \ {<<m, k>>}) = Cardinality(RequestsOf(n)) - 1
      BY <1>2, <2>1, <2>2, FS_RemoveElement
    <3>2. QED BY <2>1, <2>2, <3>1
  <2>3. CASE n # m
    BY <1>2, <2>1, <2>3
  <2>4. QED BY <2>2, <2>3
<1>8. QED BY <1>2, <1>3, <1>4, <1>5, <1>6, <1>7

LEMMA CopiesInvInit == Init => CopiesAreAccountedFor /\ AnswersAreStored
<1> SUFFICES ASSUME Init, NEW m \in Mails
             PROVE  Copies[m] + Cardinality(RequestsOf(m)) <= late[m] + (IF AwaitsOrHas(m) THEN 1 ELSE 0)
  BY DEF Init, CopiesAreAccountedFor, AnswersAreStored
<1>1. To[m] \in Agents /\ inbox[To[m]] = <<>> /\ late[m] = 0 /\ requests = {}
  BY MailAssumption DEF Init
<1>2. {i \in DOMAIN inbox[To[m]] : inbox[To[m]][i] = m} = {} /\ RequestsOf(m) = {}
  BY <1>1 DEF RequestsOf
<1>3. Copies[m] = 0 /\ Cardinality(RequestsOf(m)) = 0
  BY <1>2, FS_EmptySet DEF Copies
<1>4. QED BY <1>1, <1>3

\* What one step does to one mail: either nothing is counted, or a request came
\* in, a request is over without a copy, a copy was stored for one, or a pipe
\* stopped waiting for one.
LEMMA CopiesInvStep ==
    TypeInv /\ TypeInv' /\ CopiesAreAccountedFor /\ [Next]_vars => CopiesAreAccountedFor'
<1> SUFFICES ASSUME TypeInv, CopiesAreAccountedFor, TypeInv', [Next]_vars, NEW n \in Mails
             PROVE  Copies'[n] + Cardinality(RequestsOf(n)') <= late'[n] + (IF AwaitsOrHas(n)' THEN 1 ELSE 0)
  BY DEF CopiesAreAccountedFor
<1> DEFINE c == Copies[n]
           r == Cardinality(RequestsOf(n))
           Goal == Copies'[n] + Cardinality(RequestsOf(n)') <= late'[n] + (IF AwaitsOrHas(n)' THEN 1 ELSE 0)
<1>1. /\ c \in Nat /\ r \in Nat /\ late[n] \in Nat
      /\ c + r <= late[n] + (IF AwaitsOrHas(n) THEN 1 ELSE 0)
  BY CopiesAreCounted, RequestsAreCounted DEF CopiesAreAccountedFor, TypeInv
<1>2. UNCHANGED inbox => Copies'[n] = c
  BY CopiesAreCounted
<1>3. UNCHANGED requests => Cardinality(RequestsOf(n)') = r
  BY RequestsAreCounted
<1>4. PipesOK /\ attempts \in [Mails -> Nat] /\ late \in [Mails -> Nat] /\ requests \subseteq Mails \X Nat
  BY DEF TypeInv, RequestsOK
<1> HIDE DEF c, r
<1>5. ASSUME UNCHANGED <<inbox, requests, late>>, AwaitsOrHas(n) => AwaitsOrHas(n)' PROVE Goal
  BY <1>1, <1>2, <1>3, <1>5
<1> USE DEF AwaitsOrHas, PipesOK, Places, Exit, TempFail, Goto, mailVars, serverVars
<1>6. ASSUME NEW m \in Mails, StartPipe(m) \/ Parse(m) \/ Return(m) PROVE Goal
  BY <1>4, <1>5, <1>6 DEF StartPipe, Parse, Return
<1>7. ASSUME NEW m \in Mails, Post(m) PROVE Goal
  <2>1. pipe[m] = "post" /\ UNCHANGED <<late, inbox>> /\ attempts[m] \in Nat
    BY <1>4, <1>7 DEF Post
  <2>2. CASE up
    <3>1. requests' = requests \cup {<<m, attempts[m]>>}
      BY <1>7, <2>2 DEF Post
    <3>2. Cardinality(RequestsOf(n)') <= r + (IF n = m THEN 1 ELSE 0) /\ Cardinality(RequestsOf(n)') \in Nat
      BY <2>1, <3>1, RequestsAreCounted DEF r
    <3>3. n = m => ~AwaitsOrHas(n) /\ AwaitsOrHas(n)'
      BY <1>4, <1>7, <2>1, <2>2 DEF Post
    <3>4. n # m => (AwaitsOrHas(n)' <=> AwaitsOrHas(n))
      BY <1>4, <1>7, <2>2 DEF Post
    <3> HIDE DEF AwaitsOrHas
    <3>5. QED BY <1>1, <1>2, <2>1, <3>2, <3>3, <3>4
  <2>3. CASE ~up
    BY <1>4, <1>5, <1>7, <2>1, <2>3 DEF Post
  <2>4. QED BY <2>2, <2>3
<1>8. ASSUME NEW m \in Mails, GiveUp(m) PROVE Goal
  <2>1. UNCHANGED <<inbox, requests>> /\ late' = [late EXCEPT ![m] = @ + 1]
    BY <1>8 DEF GiveUp
  <2>2. AwaitsOrHas(n)' <=> (AwaitsOrHas(n) /\ n # m)
    BY <1>4, <1>8 DEF GiveUp
  <2> HIDE DEF AwaitsOrHas
  <2>3. late'[n] = late[n] + (IF n = m THEN 1 ELSE 0)
    BY <1>4, <1>1, <2>1
  <2>4. QED BY <1>1, <1>2, <1>3, <2>1, <2>2, <2>3
<1>9. ASSUME NEW m \in Mails, NEW k, <<m, k>> \in requests, Refuse(m, k), UNCHANGED inbox PROVE Goal
  <2>1. requests' = requests \ {<<m, k>>} /\ UNCHANGED late /\ k \in Nat
    BY <1>4, <1>9 DEF Refuse
  <2>2. Cardinality(RequestsOf(n)') = r - (IF n = m THEN 1 ELSE 0) /\ Cardinality(RequestsOf(n)') \in Nat
    BY <1>9, <2>1, RequestsAreCounted DEF r
  <2>3. n # m => (AwaitsOrHas(n)' <=> AwaitsOrHas(n))
    BY <1>4, <1>9 DEF Refuse
  <2> HIDE DEF AwaitsOrHas
  <2>4. QED BY <1>1, <1>2, <1>9, <2>1, <2>2, <2>3
<1>10. ASSUME NEW m \in Mails, NEW k, Ingest(m, k) PROVE Goal
  <2>1. CASE inbox' = [inbox EXCEPT ![To[m]] = <<m>> \o @] /\ requests' = requests \ {<<m, k>>}
             /\ UNCHANGED mailVars
    <3>1. <<m, k>> \in requests /\ k \in Nat
      BY <1>4, <1>10 DEF Ingest
    <3>2. Cardinality(RequestsOf(n)') = r - (IF n = m THEN 1 ELSE 0)
      BY <2>1, <3>1, RequestsAreCounted DEF r
    <3>3. Copies'[n] = c + (IF n = m THEN 1 ELSE 0)
      BY <2>1, CopiesAreCounted DEF c
    <3>4. late'[n] = late[n] /\ (AwaitsOrHas(n)' <=> AwaitsOrHas(n))
      BY <2>1
    <3> HIDE DEF AwaitsOrHas
    <3>5. QED BY <1>1, <3>2, <3>3, <3>4
  <2>2. QED BY <1>9, <1>10, <2>1 DEF Ingest
<1>11. ASSUME NEW m \in Mails, NEW k, Answer(m, k) PROVE Goal
  <2>1. UNCHANGED <<inbox, requests, late>>
    BY <1>11 DEF Answer
  <2>2. AwaitsOrHas(n) => AwaitsOrHas(n)'
    <3>1. CASE Waiting(m, k)
      BY <1>4, <1>11, <3>1 DEF Answer
    <3>2. CASE ~Waiting(m, k)
      BY <1>11, <3>2 DEF Answer
    <3>3. QED BY <3>1, <3>2
  <2>3. QED BY <1>5, <2>1, <2>2
<1>12. ASSUME ServerDies PROVE Goal
  <2>1. UNCHANGED <<inbox, mailVars>> /\ requests' = {}
    BY <1>12 DEF ServerDies
  <2>2. Cardinality(RequestsOf(n)') = 0
    BY <2>1, RequestsAreCounted
  <2>3. late'[n] = late[n] /\ (AwaitsOrHas(n)' <=> AwaitsOrHas(n))
    BY <2>1
  <2> HIDE DEF AwaitsOrHas
  <2>4. QED BY <1>1, <1>2, <2>1, <2>2, <2>3
<1>13. ASSUME UNCHANGED <<mailVars, inbox, requests>> PROVE Goal
  BY <1>5, <1>13
<1> HIDE DEF Goal, AwaitsOrHas, PipesOK, Places, Exit, TempFail, Goto, mailVars, serverVars
<1>14. ASSUME NEW m \in Mails, Deliver(m) PROVE Goal
  BY <1>6, <1>7, <1>8, <1>14 DEF Deliver
<1>15. ASSUME Serve PROVE Goal
  BY <1>10, <1>11, <1>13, <1>15 DEF Serve, ServerStarts
<1>16. ASSUME NEW a \in Agents, SetStatus(a) \/ OpenInbox(a) \/ ReadPage(a) PROVE Goal
  BY <1>13, <1>16 DEF SetStatus, OpenInbox, ReadPage, serverVars
<1>17. ASSUME UNCHANGED vars PROVE Goal
  BY <1>13, <1>17 DEF vars, serverVars
<1>18. Goal
  BY <1>12, <1>14, <1>15, <1>16, <1>17 DEF Next
<1>19. QED BY <1>18 DEF Goal

\* A mail has at most one copy more than it had attempts that Postfix gave up
\* while the server could still store them, for any crashes and restarts.
THEOREM DuplicatesAreLate == Spec => []DuplicatesAreLateAnswers
<1>1. TypeInv /\ TypeInv' /\ CopiesAreAccountedFor => DuplicatesAreLateAnswers
  <2> SUFFICES ASSUME TypeInv, TypeInv', CopiesAreAccountedFor, NEW m \in Mails
               PROVE  Copies[m] <= late[m] + 1
    BY DEF DuplicatesAreLateAnswers
  <2>1. Copies[m] \in Nat /\ Cardinality(RequestsOf(m)) \in Nat /\ late[m] \in Nat
    BY CopiesAreCounted, RequestsAreCounted DEF TypeInv
  <2>2. QED BY <2>1 DEF CopiesAreAccountedFor
<1>2. QED
  BY <1>1, TypeInvInit, TypeInvStep, CopiesInvInit, CopiesInvStep, PTL DEF Spec

(***************************************************************************)
(* MailDelivery is implemented: what is answered is stored, so the exit    *)
(* code 0 that lets Postfix go of a mail comes after its copy.             *)
(***************************************************************************)
MappedFate == [m \in Mails |-> IF queue[m] = "piping" THEN "queued" ELSE queue[m]]
MappedBlank == {m \in Mails : kind[m] = "blank"}

LEMMA AnswersAreStoredStep ==
    TypeInv /\ AnswersAreStored /\ [Next]_vars => AnswersAreStored'
<1> SUFFICES ASSUME TypeInv, AnswersAreStored, [Next]_vars PROVE AnswersAreStored'
  OBVIOUS
<1>1. \A r \in answers : r[1] \in Mails /\ Copies[r[1]] > 0
  BY DEF AnswersAreStored, TypeInv, RequestsOK
<1>2. ASSUME UNCHANGED inbox, answers' \subseteq answers PROVE AnswersAreStored'
  BY <1>1, <1>2, CopiesAreCounted DEF AnswersAreStored
<1>3. ASSUME NEW m \in Mails, NEW k, Ingest(m, k) PROVE AnswersAreStored'
  <2>1. CASE inbox' = [inbox EXCEPT ![To[m]] = <<m>> \o @] /\ answers' = answers \cup {<<m, k>>}
    <3>1. \A n \in Mails : Copies[n] \in Nat /\ Copies'[n] = Copies[n] + (IF n = m THEN 1 ELSE 0)
      BY <2>1, CopiesAreCounted
    <3>2. QED BY <1>1, <2>1, <3>1 DEF AnswersAreStored
  <2>2. QED BY <1>2, <1>3, <2>1 DEF Ingest, Refuse
<1>4. QED
  BY <1>2, <1>3
     DEF Next, vars, mailVars, serverVars, readVars, Deliver, Serve, StartPipe, Parse, Post, GiveUp,
         Return, Answer, ServerDies, ServerStarts, SetStatus, OpenInbox, ReadPage

LEMMA StepRefines ==
    ASSUME TypeInv, AnswersAreStored, [Next]_vars
    PROVE  [Promise!Next]_(Promise!vars)
<1> USE DEF Promise!Next, Promise!vars, MappedFate, MappedBlank
<1>1. Copies = [n \in Mails |-> Copies[n]] /\ Copies' = [n \in Mails |-> Copies'[n]]
  BY DEF Copies
<1>2. UNCHANGED inbox => UNCHANGED Copies
  BY DEF Copies
<1>3. UNCHANGED kind => UNCHANGED MappedBlank
  OBVIOUS
<1> USE DEF PipesOK, Places, Exit, TempFail, Goto
<1>4. PipesOK /\ kind \in [Mails -> {"plain", "invite", "blank", "broken"}]
  BY DEF TypeInv
<1>5. ASSUME NEW m \in Mails, NEW f \in {"delivered", "returned"},
             queue[m] \in {"queued", "piping"}, queue' = [queue EXCEPT ![m] = f],
             f = "delivered" => Copies[m] > 0 \/ kind[m] = "blank",
             UNCHANGED <<inbox, kind>>
      PROVE  Promise!Settle(m, f)
  <2>1. MappedFate[m] = "queued" /\ MappedFate' = [MappedFate EXCEPT ![m] = f]
    BY <1>4, <1>5
  <2>2. UNCHANGED <<Copies, MappedBlank>>
    BY <1>2, <1>3, <1>5
  <2>3. f = "delivered" => Copies[m] > 0 \/ m \in MappedBlank
    BY <1>5
  <2>4. QED BY <2>1, <2>2, <2>3 DEF Promise!Settle
<1>6. ASSUME UNCHANGED <<inbox, kind>>, UNCHANGED MappedFate
      PROVE  UNCHANGED Promise!vars
  BY <1>2, <1>3, <1>6
<1>7. ASSUME NEW m \in Mails, queue[m] = "piping", TempFail(m) PROVE UNCHANGED MappedFate
  BY <1>4, <1>7
<1>8. ASSUME NEW m \in Mails, StartPipe(m) PROVE UNCHANGED Promise!vars
  BY <1>4, <1>6, <1>8 DEF StartPipe
<1>9. ASSUME NEW m \in Mails, Parse(m) PROVE Promise!Settle(m, "delivered") \/ UNCHANGED Promise!vars
  <2>1. queue[m] = "piping" /\ UNCHANGED <<inbox, kind>>
    BY <1>4, <1>9 DEF Parse
  <2>2. CASE kind[m] = "blank" /\ Exit(m, "delivered")
    BY <1>5, <2>1, <2>2
  <2>3. CASE TempFail(m)
    BY <1>6, <1>7, <2>1, <2>3
  <2>4. CASE Goto(m, "post")
    BY <1>6, <2>1, <2>4
  <2>5. QED BY <1>9, <2>2, <2>3, <2>4 DEF Parse
<1>10. ASSUME NEW m \in Mails, Post(m) \/ GiveUp(m) PROVE UNCHANGED Promise!vars
  <2>1. queue[m] = "piping" /\ UNCHANGED <<inbox, kind>>
    BY <1>4, <1>10 DEF Post, GiveUp
  <2>2. TempFail(m) \/ Goto(m, "wait")
    BY <1>10 DEF Post, GiveUp
  <2>3. QED BY <1>6, <1>7, <2>1, <2>2
<1>11. ASSUME NEW m \in Mails, Return(m) PROVE Promise!Settle(m, "returned")
  BY <1>5, <1>11 DEF Return
<1>12. ASSUME NEW m \in Mails, NEW k, Refuse(m, k), UNCHANGED inbox PROVE UNCHANGED Promise!vars
  <2>1. CASE Waiting(m, k)
    <3>1. queue[m] = "piping" /\ TempFail(m) /\ UNCHANGED kind
      BY <1>4, <1>12, <2>1 DEF Refuse, Waiting
    <3>2. QED BY <1>6, <1>7, <1>12, <3>1
  <2>2. CASE ~Waiting(m, k)
    BY <1>6, <1>12, <2>2 DEF Refuse
  <2>3. QED BY <2>1, <2>2
<1>13. ASSUME NEW m \in Mails, NEW k, Ingest(m, k) PROVE Promise!Store(m) \/ UNCHANGED Promise!vars
  <2>1. CASE inbox' = [inbox EXCEPT ![To[m]] = <<m>> \o @] /\ UNCHANGED mailVars
    <3>1. \A n \in Mails : Copies[n] \in Nat /\ Copies'[n] = Copies[n] + (IF n = m THEN 1 ELSE 0)
      BY <2>1, CopiesAreCounted
    <3>2. Copies' = [Copies EXCEPT ![m] = Copies[m] + 1]
      <4>1. \A n \in Mails : Copies'[n] = IF n = m THEN Copies[m] + 1 ELSE Copies[n]
        BY <3>1
      <4>2. QED BY <1>1, <4>1
    <3>3. UNCHANGED <<MappedFate, MappedBlank>>
      BY <2>1 DEF mailVars
    <3>4. QED BY <3>2, <3>3 DEF Promise!Store
  <2>2. QED BY <1>12, <1>13, <2>1 DEF Ingest
<1>14. ASSUME NEW m \in Mails, NEW k, Answer(m, k)
       PROVE  Promise!Settle(m, "delivered") \/ UNCHANGED Promise!vars
  <2>1. Copies[m] > 0 /\ UNCHANGED <<inbox, kind>>
    BY <1>14 DEF Answer, AnswersAreStored
  <2>2. CASE Waiting(m, k)
    <3>1. queue[m] = "piping" /\ Exit(m, "delivered")
      BY <1>4, <1>14, <2>2 DEF Answer, Waiting
    <3>2. QED BY <1>5, <2>1, <3>1
  <2>3. CASE ~Waiting(m, k)
    BY <1>6, <1>14, <2>1, <2>3 DEF Answer
  <2>4. QED BY <2>2, <2>3
<1>15. ASSUME UNCHANGED <<mailVars, inbox>> PROVE UNCHANGED Promise!vars
  BY <1>6, <1>15 DEF mailVars
<1> HIDE DEF PipesOK, Places, Exit, TempFail, Goto, Promise!vars, MappedFate, MappedBlank
<1>16. ASSUME NEW m \in Mails, Deliver(m)
       PROVE  (\E f \in {"delivered", "returned"} : Promise!Settle(m, f)) \/ UNCHANGED Promise!vars
  BY <1>8, <1>9, <1>10, <1>11, <1>16 DEF Deliver
<1>17. CASE Serve
  BY <1>13, <1>14, <1>15, <1>17 DEF Serve, ServerStarts
<1>18. ASSUME NEW a \in Agents, SetStatus(a) \/ OpenInbox(a) \/ ReadPage(a) PROVE UNCHANGED Promise!vars
  BY <1>15, <1>18 DEF SetStatus, OpenInbox, ReadPage, serverVars
<1>19. ASSUME ServerDies \/ UNCHANGED vars PROVE UNCHANGED Promise!vars
  BY <1>15, <1>19 DEF ServerDies, vars, serverVars
<1>20. CASE \E m \in Mails : Deliver(m)
  BY <1>16, <1>20
<1>21. CASE \E a \in Agents : SetStatus(a) \/ OpenInbox(a) \/ ReadPage(a)
  BY <1>18, <1>21
<1>22. QED
  BY <1>17, <1>19, <1>20, <1>21 DEF Next

\* Postfix lets go of a mail with content only when a copy lies in the inbox, or
\* returns it, whatever the pipe and the server go through.
THEOREM IngestKeepsMail == Spec => KeepsMail
<1>1. Init => Promise!Init
  <2> SUFFICES ASSUME Init PROVE Promise!Init
    OBVIOUS
  <2>1. \A m \in Mails : {i \in DOMAIN inbox[To[m]] : inbox[To[m]][i] = m} = {}
    BY MailAssumption DEF Init
  <2>2. Copies = [m \in Mails |-> 0]
    BY <2>1, FS_EmptySet DEF Copies
  <2>3. QED BY <2>2 DEF Init, Promise!Init
<1>2. Init => AnswersAreStored
  BY DEF Init, AnswersAreStored
<1>3. TypeInv /\ AnswersAreStored /\ [Next]_vars => [Promise!Next]_(Promise!vars)
  BY StepRefines
<1>4. QED
  BY <1>1, <1>2, <1>3, TypeInvInit, TypeInvStep, AnswersAreStoredStep, PTL
     DEF Spec, KeepsMail, Promise!Spec
=============================================================================

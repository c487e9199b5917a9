--------------------------- MODULE OnboardingProofs ---------------------------
(***************************************************************************)
(* Theorems about Onboarding, for any accounts, invites and maxima:        *)
(* UsesHaveAccounts, WithinCapacity and RevocationSticks.                  *)
(***************************************************************************)
EXTENDS Onboarding, FiniteSetTheorems, TLAPS

(***************************************************************************)
(* Types, and what the columns say of each other.  An account with an      *)
(* invite's sponsor exists; the one a request is about to insert does not, *)
(* because the handler and the admin endpoints exclude each other.  The    *)
(* accounts of an invite are finitely many, whatever Accounts is.          *)
(***************************************************************************)
Steps == {"idle", "insert", "check", "update"}
TypeInv ==
    /\ status \in [Invites -> {"absent", "unused", "used", "revoked"}]
    /\ uses \in [Invites -> Nat] /\ expired \subseteq Invites
    /\ origin \in [Accounts -> Invites \cup {NoInvite}]
    /\ account \in [Accounts -> {"absent", "active", "suspended"}]
    /\ pc \in Steps /\ req \in [account: Accounts, invite: Invites] /\ faults \in Nat

Of(i) == {a \in Accounts : origin[a] = i}
OriginsExist == \A a \in Accounts : origin[a] # NoInvite => account[a] # "absent"
InsertsNew == pc = "insert" => account[req.account] = "absent"
OfIsFinite == \A i \in Invites : IsFiniteSet(Of(i))

ColumnsInv == TypeInv /\ OriginsExist /\ InsertsNew /\ OfIsFinite

LEMMA ColumnsInvInit == Init => ColumnsInv
<1> SUFFICES ASSUME Init PROVE ColumnsInv
  OBVIOUS
<1>1. \A i \in Invites : Of(i) = {}
  BY OnboardingAssumption DEF Init, Of
<1>2. QED
  BY <1>1, FS_EmptySet, OnboardingAssumption
     DEF Init, ColumnsInv, TypeInv, Steps, OriginsExist, InsertsNew, OfIsFinite

\* The insert brings its invite one account more, and no other invite any.
LEMMA InsertAddsOne ==
    ASSUME ColumnsInv, InsertAccount
    PROVE  /\ Of(req.invite)' = Of(req.invite) \cup {req.account}
           /\ req.account \notin Of(req.invite)
           /\ \A i \in Invites \ {req.invite} : Of(i)' = Of(i)
<1>1. origin[req.account] = NoInvite /\ req.account \in Accounts /\ req.invite \in Invites
  BY DEF InsertAccount, ColumnsInv, TypeInv, OriginsExist, InsertsNew
<1>2. origin' = [origin EXCEPT ![req.account] = req.invite] /\ req' = req
  BY DEF InsertAccount
<1>3. QED
  BY <1>1, <1>2, OnboardingAssumption DEF Of, ColumnsInv, TypeInv

LEMMA ColumnsInvStep == ColumnsInv /\ [Next]_vars => ColumnsInv'
<1> SUFFICES ASSUME ColumnsInv, [Next]_vars PROVE ColumnsInv'
  OBVIOUS
<1>1. CASE InsertAccount
  <2>1. OfIsFinite'
    <3> SUFFICES ASSUME NEW i \in Invites PROVE IsFiniteSet(Of(i)')
      BY DEF OfIsFinite
    <3>1. IsFiniteSet(Of(i))
      BY DEF ColumnsInv, OfIsFinite
    <3>2. CASE i = req.invite
      <4>1. Of(i)' = Of(i) \cup {req.account}
        BY <1>1, <3>2, InsertAddsOne DEF InsertAccount
      <4>2. QED BY <3>1, <4>1, FS_AddElement
    <3>3. CASE i # req.invite
      BY <1>1, <3>1, <3>3, InsertAddsOne
    <3>4. QED BY <3>2, <3>3
  <2>2. (TypeInv /\ OriginsExist /\ InsertsNew)'
    BY <1>1 DEF InsertAccount, invites, ColumnsInv, TypeInv, Steps, OriginsExist, InsertsNew
  <2>3. QED BY <2>1, <2>2 DEF ColumnsInv
<1>2. ASSUME UNCHANGED origin PROVE OfIsFinite'
  BY <1>2 DEF ColumnsInv, OfIsFinite, Of
<1> USE DEF ColumnsInv, TypeInv, Steps, OriginsExist, InsertsNew, invites, accounts, server
<1>3. ASSUME NEW i \in Invites, CreateInvite(i) \/ Revoke(i) \/ ExpiryPasses(i) PROVE ColumnsInv'
  BY <1>2, <1>3 DEF CreateInvite, Revoke, ExpiryPasses
<1>4. ASSUME NEW a \in Accounts, NEW i \in Invites, Begin(a, i) PROVE ColumnsInv'
  BY <1>2, <1>4 DEF Begin
<1>5. CASE CheckAgain
  BY <1>2, <1>5 DEF CheckAgain
<1>6. CASE WriteUse
  BY <1>2, <1>6 DEF WriteUse
<1>7. ASSUME NEW a \in Accounts, AdminCreate(a) PROVE ColumnsInv'
  BY <1>2, <1>7 DEF AdminCreate
<1>8. ASSUME NEW a \in Accounts, NEW s \in {"active", "suspended"}, AdminSetStatus(a, s)
      PROVE ColumnsInv'
  BY <1>2, <1>8 DEF AdminSetStatus
<1>9. CASE Crash
  BY <1>2, <1>9 DEF Crash
<1>10. CASE UNCHANGED vars
  BY <1>2, <1>10 DEF vars
<1> HIDE DEF ColumnsInv
<1>11. QED
  BY <1>1, <1>3, <1>4, <1>5, <1>6, <1>7, <1>8, <1>9, <1>10 DEF Next, Handler

\* What the insert does to the number of accounts of each invite; the other
\* steps leave origin, and with it every number, alone.
LEMMA OnboardedChanges ==
    ASSUME ColumnsInv, [Next]_vars, NEW i \in Invites
    PROVE  /\ Onboarded(i) \in Nat
           /\ InsertAccount /\ i = req.invite => Onboarded(i)' = Onboarded(i) + 1
           /\ ~(InsertAccount /\ i = req.invite) => Onboarded(i)' = Onboarded(i)
<1>1. Onboarded(i) = Cardinality(Of(i)) /\ IsFiniteSet(Of(i))
  BY DEF Onboarded, Of, ColumnsInv, OfIsFinite
<1>2. Onboarded(i)' = Cardinality(Of(i)')
  BY DEF Onboarded, Of
<1>3. ASSUME InsertAccount, i = req.invite PROVE Onboarded(i)' = Onboarded(i) + 1
  <2>1. Of(i)' = Of(i) \cup {req.account} /\ req.account \notin Of(i)
    BY <1>3, InsertAddsOne DEF InsertAccount
  <2>2. Cardinality(Of(i) \cup {req.account}) = Cardinality(Of(i)) + 1
    BY <1>1, <2>1, FS_AddElement
  <2>3. QED BY <1>1, <1>2, <2>1, <2>2
<1>4. ASSUME InsertAccount, i # req.invite PROVE Onboarded(i)' = Onboarded(i)
  BY <1>1, <1>2, <1>4, InsertAddsOne
<1>5. ASSUME ~InsertAccount PROVE Onboarded(i)' = Onboarded(i)
  <2>1. UNCHANGED origin
    BY <1>5 DEF Next, vars, Handler, accounts, CreateInvite, Revoke, ExpiryPasses, Begin, CheckAgain,
                WriteUse, AdminCreate, AdminSetStatus, Crash
  <2>2. QED BY <2>1 DEF Onboarded
<1>6. QED
  BY <1>1, <1>3, <1>4, <1>5, FS_CardinalityType

\* An invite's use_count and the use on its way to it stay covered by accounts
\* that exist, whatever crashes and whichever administrator intervenes.
THEOREM UsesAreBacked == Spec => []UsesHaveAccounts
<1>1. Init => UsesHaveAccounts
  <2> SUFFICES ASSUME Init, NEW i \in Invites PROVE Onboarded(i) = 0
    BY DEF Init, UsesHaveAccounts
  <2>1. {a \in Accounts : origin[a] = i} = {}
    BY OnboardingAssumption DEF Init
  <2>2. QED BY <2>1, FS_EmptySet DEF Onboarded
<1>2. ColumnsInv /\ UsesHaveAccounts /\ [Next]_vars => UsesHaveAccounts'
  <2> SUFFICES ASSUME ColumnsInv, UsesHaveAccounts, [Next]_vars, NEW i \in Invites
               PROVE  uses'[i] + (IF pc' \in {"check", "update"} /\ req'.invite = i THEN 1 ELSE 0)
                        <= Onboarded(i)'
    BY DEF UsesHaveAccounts
  <2>1. /\ Onboarded(i) \in Nat
        /\ InsertAccount /\ i = req.invite => Onboarded(i)' = Onboarded(i) + 1
        /\ ~(InsertAccount /\ i = req.invite) => Onboarded(i)' = Onboarded(i)
    BY OnboardedChanges
  <2>2. uses[i] + (IF pc \in {"check", "update"} /\ req.invite = i THEN 1 ELSE 0) <= Onboarded(i)
    BY DEF UsesHaveAccounts
  <2>3. uses \in [Invites -> Nat] /\ req \in [account: Accounts, invite: Invites]
    BY DEF ColumnsInv, TypeInv
  <2>4. CASE InsertAccount
    BY <2>1, <2>2, <2>3, <2>4 DEF InsertAccount, invites
  <2>5. CASE CheckAgain
    BY <2>1, <2>2, <2>3, <2>5 DEF CheckAgain, InsertAccount, invites
  <2>6. CASE WriteUse
    BY <2>1, <2>2, <2>3, <2>6 DEF WriteUse, InsertAccount
  <2>7. CASE Crash
    BY <2>1, <2>2, <2>3, <2>7 DEF Crash, InsertAccount, invites
  <2>8. CASE \E a \in Accounts, j \in Invites : Begin(a, j)
    BY <2>1, <2>2, <2>3, <2>8 DEF Begin, InsertAccount, invites
  <2>9. CASE UNCHANGED <<uses, pc, req>>
    BY <2>1, <2>2, <2>3, <2>9 DEF InsertAccount
  <2>10. QED
    BY <2>4, <2>5, <2>6, <2>7, <2>8, <2>9
       DEF Next, vars, Handler, invites, server, CreateInvite, Revoke, ExpiryPasses, AdminCreate,
           AdminSetStatus
<1>3. QED BY <1>1, <1>2, ColumnsInvInit, ColumnsInvStep, PTL DEF Spec

(***************************************************************************)
(* Capacity.  A request that is past the validation has room, and its      *)
(* invite is not used up, only perhaps revoked or expired.  Without        *)
(* crashes an invite then has exactly the accounts it counts, one more     *)
(* between the insert and the UPDATE; it can only fall behind by a request *)
(* whose second validation failed, and no later request gets past the      *)
(* first one then.                                                         *)
(***************************************************************************)
InHand(i) == pc # "idle" /\ req.invite = i
Dead(i) == i \in expired \/ OutOfReach(i)

UseCounts ==
    \A i \in Invites :
        /\ uses[i] <= Capacity(i)
        /\ status[i] \in {"absent", "unused"} \/ InHand(i) => uses[i] < Capacity(i)
        /\ status[i] = "used" => uses[i] = Capacity(i)
        /\ InHand(i) => status[i] \in {"unused", "revoked"}
AccountsAreCounted ==
    faults = 0 =>
        \A i \in Invites :
            IF InHand(i) THEN Onboarded(i) = uses[i] + (IF pc = "insert" THEN 0 ELSE 1)
            ELSE Onboarded(i) = uses[i] \/ (Dead(i) /\ Onboarded(i) <= Capacity(i))

LEMMA CapacityIsPositive == ASSUME NEW i \in Invites PROVE Capacity(i) \in Nat /\ Capacity(i) >= 1
BY OnboardingAssumption DEF Capacity

LEMMA UseCountsInit == Init => UseCounts
BY CapacityIsPositive DEF Init, UseCounts, InHand

LEMMA UseCountsStep == ColumnsInv /\ UseCounts /\ [Next]_vars => UseCounts'
<1> SUFFICES ASSUME ColumnsInv, UseCounts, [Next]_vars, NEW i \in Invites
             PROVE  /\ uses'[i] <= Capacity(i)
                    /\ status'[i] \in {"absent", "unused"} \/ InHand(i)' => uses'[i] < Capacity(i)
                    /\ status'[i] = "used" => uses'[i] = Capacity(i)
                    /\ InHand(i)' => status'[i] \in {"unused", "revoked"}
  BY DEF UseCounts
<1>1. Capacity(i) \in Nat /\ Capacity(i) >= 1
  BY CapacityIsPositive
<1>2. /\ uses[i] <= Capacity(i)
      /\ status[i] \in {"absent", "unused"} \/ InHand(i) => uses[i] < Capacity(i)
      /\ status[i] = "used" => uses[i] = Capacity(i)
      /\ InHand(i) => status[i] \in {"unused", "revoked"}
  BY DEF UseCounts
<1>3. TypeInv
  BY DEF ColumnsInv
<1> USE DEF InHand, TypeInv, Steps, invites, accounts, server
<1>4. ASSUME NEW j \in Invites, CreateInvite(j) \/ Revoke(j) \/ ExpiryPasses(j)
      PROVE  UNCHANGED <<uses, pc, req>> /\ (status'[i] = status[i] \/ status'[i] \in {"unused", "revoked"})
  BY <1>3, <1>4 DEF CreateInvite, Revoke, ExpiryPasses
<1>5. ASSUME NEW j \in Invites, CreateInvite(j) \/ Revoke(j) \/ ExpiryPasses(j), status'[i] = "unused"
      PROVE  status[i] \in {"absent", "unused"}
  BY <1>3, <1>5 DEF CreateInvite, Revoke, ExpiryPasses
<1>6. CASE \E j \in Invites : CreateInvite(j) \/ Revoke(j) \/ ExpiryPasses(j)
  BY <1>1, <1>2, <1>3, <1>4, <1>5, <1>6
<1>7. ASSUME NEW a \in Accounts, NEW j \in Invites, Begin(a, j), j = i
      PROVE  status[i] = "unused"
  BY <1>1, <1>2, <1>3, <1>7, OnboardingAssumption DEF Begin, Valid, Capacity
<1>8. CASE \E a \in Accounts, j \in Invites : Begin(a, j)
  BY <1>1, <1>2, <1>3, <1>7, <1>8 DEF Begin
<1>9. CASE InsertAccount
  BY <1>2, <1>3, <1>9 DEF InsertAccount
<1>10. CASE CheckAgain
  BY <1>2, <1>3, <1>10 DEF CheckAgain
<1>11. CASE WriteUse
  <2>1. CASE req.invite = i
    <3>1. /\ uses'[i] = uses[i] + 1 /\ pc' = "idle"
          /\ status'[i] = IF UsedUp(i, uses[i] + 1) THEN "used" ELSE "unused"
      BY <1>3, <1>11, <2>1 DEF WriteUse
    <3>2. uses[i] \in Nat /\ uses[i] < Capacity(i)
      BY <1>2, <1>3, <1>11, <2>1 DEF WriteUse
    <3>3. UsedUp(i, uses[i] + 1) <=> uses[i] + 1 >= Capacity(i)
      BY DEF UsedUp, Capacity
    <3>4. QED BY <1>1, <3>1, <3>2, <3>3
  <2>2. CASE req.invite # i
    BY <1>2, <1>3, <1>11, <2>2 DEF WriteUse
  <2>3. QED BY <2>1, <2>2
<1>12. CASE \E a \in Accounts, s \in {"active", "suspended"} : AdminCreate(a) \/ AdminSetStatus(a, s)
  BY <1>2, <1>12 DEF AdminCreate, AdminSetStatus
<1>13. CASE Crash
  BY <1>2, <1>13 DEF Crash
<1>14. CASE UNCHANGED vars
  BY <1>2, <1>14 DEF vars
<1>15. QED
  BY <1>6, <1>8, <1>9, <1>10, <1>11, <1>12, <1>13, <1>14 DEF Next, Handler

(***************************************************************************)
(* Revocation: no step brings a request of a revoked invite to its UPDATE. *)
(***************************************************************************)
LEMMA OutOfReachStays ==
    ASSUME ColumnsInv, [Next]_vars, NEW i \in Invites, OutOfReach(i)
    PROVE  OutOfReach(i)'
<1> USE DEF OutOfReach, ColumnsInv, TypeInv, Steps, invites, accounts, server
<1>1. CASE \E j \in Invites : CreateInvite(j) \/ Revoke(j) \/ ExpiryPasses(j)
  BY <1>1 DEF CreateInvite, Revoke, ExpiryPasses
<1>2. CASE \E a \in Accounts, j \in Invites : Begin(a, j)
  BY <1>2 DEF Begin
<1>3. CASE InsertAccount
  BY <1>3 DEF InsertAccount
<1>4. CASE CheckAgain
  BY <1>4 DEF CheckAgain, Valid
<1>5. CASE WriteUse
  BY <1>5 DEF WriteUse
<1>6. CASE \E a \in Accounts, s \in {"active", "suspended"} : AdminCreate(a) \/ AdminSetStatus(a, s)
  BY <1>6 DEF AdminCreate, AdminSetStatus
<1>7. CASE Crash
  BY <1>7 DEF Crash
<1>8. CASE UNCHANGED vars
  BY <1>8 DEF vars
<1>9. QED BY <1>1, <1>2, <1>3, <1>4, <1>5, <1>6, <1>7, <1>8 DEF Next, Handler

\* A revocation sticks once no request is between consume()'s validation and
\* its UPDATE, for any number of invites, requests and crashes.
THEOREM RevocationIsFinal == Spec => RevocationSticks
<1>1. ColumnsInv /\ [Next]_vars => [\A i \in Invites : OutOfReach(i) => OutOfReach(i)']_vars
  BY OutOfReachStays
<1>2. QED BY <1>1, ColumnsInvInit, ColumnsInvStep, PTL DEF Spec, RevocationSticks

\* An invite that has expired, or whose revocation is out of reach, stays dead.
LEMMA DeadStays ==
    ASSUME ColumnsInv, [Next]_vars, NEW i \in Invites, Dead(i)
    PROVE  Dead(i)'
<1>1. expired \subseteq expired'
  BY DEF Next, Handler, vars, invites, CreateInvite, Revoke, ExpiryPasses, Begin, InsertAccount,
         CheckAgain, WriteUse, AdminCreate, AdminSetStatus, Crash
<1>2. QED BY <1>1, OutOfReachStays DEF Dead

LEMMA AccountsAreCountedInit == Init => AccountsAreCounted
<1> SUFFICES ASSUME Init, NEW i \in Invites PROVE Onboarded(i) = 0
  BY DEF Init, AccountsAreCounted, InHand
<1>1. {a \in Accounts : origin[a] = i} = {}
  BY OnboardingAssumption DEF Init
<1>2. QED BY <1>1, FS_EmptySet DEF Onboarded

LEMMA AccountsAreCountedStep ==
    ColumnsInv /\ ColumnsInv' /\ UseCounts /\ AccountsAreCounted /\ [Next]_vars => AccountsAreCounted'
<1> SUFFICES ASSUME ColumnsInv, ColumnsInv', UseCounts, AccountsAreCounted, [Next]_vars, faults' = 0,
                    NEW i \in Invites
             PROVE  IF InHand(i)' THEN Onboarded(i)' = uses'[i] + (IF pc' = "insert" THEN 0 ELSE 1)
                    ELSE Onboarded(i)' = uses'[i] \/ (Dead(i)' /\ Onboarded(i)' <= Capacity(i))
  BY DEF AccountsAreCounted
<1>1. faults = 0 /\ ~Crash
  BY DEF ColumnsInv, TypeInv, Next, vars, Handler, CreateInvite, Revoke, ExpiryPasses, Begin,
         InsertAccount, CheckAgain, WriteUse, AdminCreate, AdminSetStatus, Crash
<1>2. IF InHand(i) THEN Onboarded(i) = uses[i] + (IF pc = "insert" THEN 0 ELSE 1)
      ELSE Onboarded(i) = uses[i] \/ (Dead(i) /\ Onboarded(i) <= Capacity(i))
  BY <1>1 DEF AccountsAreCounted
<1>3. /\ Onboarded(i) \in Nat
      /\ InsertAccount /\ i = req.invite => Onboarded(i)' = Onboarded(i) + 1
      /\ ~(InsertAccount /\ i = req.invite) => Onboarded(i)' = Onboarded(i)
  BY OnboardedChanges
<1>4. Dead(i) => Dead(i)'
  BY DeadStays
<1>5. /\ uses[i] \in Nat /\ Capacity(i) \in Nat /\ pc \in Steps
      /\ InHand(i) => uses[i] < Capacity(i) /\ status[i] \in {"unused", "revoked"}
  BY CapacityIsPositive DEF ColumnsInv, TypeInv, UseCounts
<1>6. CASE \E a \in Accounts, j \in Invites : Begin(a, j)
  <2>1. PICK a \in Accounts, j \in Invites : Begin(a, j)
    BY <1>6
  <2>2. Onboarded(i)' = Onboarded(i) /\ uses' = uses /\ ~InHand(i) /\ (InHand(i)' <=> i = j) /\ pc' = "insert"
    BY <2>1, <1>3 DEF Begin, InsertAccount, InHand, invites
  <2>3. i = j => ~Dead(i)
    BY <2>1 DEF Begin, Valid, Dead, OutOfReach
  <2>4. QED BY <1>2, <1>3, <1>4, <1>5, <2>2, <2>3
<1>7. CASE InsertAccount
  <2>1. uses' = uses /\ (InHand(i) <=> i = req.invite) /\ (InHand(i)' <=> InHand(i)) /\ pc = "insert" /\ pc' = "check"
    BY <1>7 DEF InsertAccount, InHand, invites
  <2>2. QED BY <1>2, <1>3, <1>4, <1>5, <1>7, <2>1
<1>8. CASE CheckAgain
  <2>1. /\ uses' = uses /\ pc = "check" /\ Onboarded(i)' = Onboarded(i) /\ UNCHANGED <<status, expired, req>>
        /\ (InHand(i) <=> i = req.invite) /\ pc' = IF Valid(req.invite) THEN "update" ELSE "idle"
    BY <1>3, <1>8 DEF CheckAgain, InsertAccount, InHand, invites
  <2>2. CASE i # req.invite \/ Valid(i)
    BY <1>2, <1>4, <2>1, <2>2 DEF InHand
  <2>3. CASE i = req.invite /\ ~Valid(i)
    <3>1. pc' = "idle" /\ ~InHand(i)'
      BY <2>1, <2>3 DEF InHand
    <3>2. Dead(i)'
      BY <1>5, <2>1, <2>3, <3>1 DEF Valid, Dead, OutOfReach
    <3>3. QED BY <1>2, <1>5, <2>1, <2>3, <3>1, <3>2
  <2>4. QED BY <2>2, <2>3
<1>9. CASE WriteUse
  <2>1. /\ Onboarded(i)' = Onboarded(i) /\ pc = "update" /\ ~InHand(i)' /\ (InHand(i) <=> i = req.invite)
        /\ uses'[i] = IF i = req.invite THEN uses[i] + 1 ELSE uses[i]
    BY <1>3, <1>9 DEF WriteUse, InsertAccount, InHand, ColumnsInv, TypeInv
  <2>2. QED BY <1>2, <1>4, <2>1
<1>10. CASE UNCHANGED <<uses, pc, req>>
  <2>1. Onboarded(i)' = Onboarded(i) /\ (InHand(i)' <=> InHand(i))
    BY <1>3, <1>10 DEF InsertAccount, InHand
  <2>2. QED BY <1>2, <1>4, <1>10, <2>1
<1>11. QED
  BY <1>1, <1>6, <1>7, <1>8, <1>9, <1>10
     DEF Next, vars, Handler, invites, server, CreateInvite, Revoke, ExpiryPasses, AdminCreate,
         AdminSetStatus

\* Without a crash between the insert and the UPDATE, an invite brings in no
\* more accounts than max_uses allows, whatever expires or is revoked meanwhile.
THEOREM InvitesHaveCapacity == Spec => []WithinCapacity
<1>1. ColumnsInv /\ UseCounts /\ AccountsAreCounted => WithinCapacity
  <2> SUFFICES ASSUME ColumnsInv, UseCounts, AccountsAreCounted, faults = 0, NEW i \in Invites
               PROVE  Onboarded(i) <= Capacity(i)
    BY DEF WithinCapacity
  <2>1. uses[i] \in Nat /\ Capacity(i) \in Nat
    BY CapacityIsPositive DEF ColumnsInv, TypeInv
  <2>2. QED BY <2>1 DEF UseCounts, AccountsAreCounted
<1>2. QED
  BY <1>1, ColumnsInvInit, ColumnsInvStep, UseCountsInit, UseCountsStep, AccountsAreCountedInit,
     AccountsAreCountedStep, PTL DEF Spec
=============================================================================

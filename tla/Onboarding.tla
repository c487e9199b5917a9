------------------------------ MODULE Onboarding ------------------------------
(***************************************************************************)
(* Invite-gated onboarding: auth/onboard.py over auth/accounts.py and      *)
(* auth/invites.py, the admin endpoints of guard/rest_server.py and the    *)
(* "invite" commands of cli/main.py.  All use one SQLite file: the REST    *)
(* server through one connection per store, each CLI command through its   *)
(* own.  The REST handlers do not await inside, so they exclude each       *)
(* other, but CLI commands and the clock run between any two statements    *)
(* of one.  (get() after validate() and account_exists() are joined with   *)
(* the validation: the columns they read change only inside the server.)   *)
(***************************************************************************)
EXTENDS Integers, FiniteSets

CONSTANTS
    Accounts,       \* account ids that are asked for
    Invites,        \* invite codes, one create command each
    MaxUses,        \* max_uses of each invite
    NoInvite,       \* the sponsor columns of an account made without an invite
    MaxFaults       \* bound: crashes of the REST server

ASSUME OnboardingAssumption ==
    MaxUses \in [Invites -> Nat] /\ NoInvite \notin Invites /\ MaxFaults \in Nat

VARIABLES
    status,     \* status column of each invite, "absent" before create
    uses,       \* use_count column
    expired,    \* invites whose expires_at has passed
    origin,     \* committed accounts: the invite whose sponsor they carry
    account,    \* status column of each account, "absent" before create
    lock,       \* who holds SQLite's write lock between statements
    pc,         \* the next statement of the onboard handler
    req,        \* its account_id and invite_code
    faults

vars == <<status, uses, expired, origin, account, lock, pc, req, faults>>
invites == <<status, uses, expired>>
accounts == <<origin, account>>
server == <<pc, req>>

Init ==
    /\ status = [i \in Invites |-> "absent"]
    /\ uses = [i \in Invites |-> 0]
    /\ expired = {}
    /\ origin = [a \in Accounts |-> NoInvite]
    /\ account = [a \in Accounts |-> "absent"]
    /\ lock = "free"
    /\ pc = "idle"
    /\ req \in [account: Accounts, invite: Invites]
    /\ faults = 0

-----------------------------------------------------------------------------
(* CLI: every write needs SQLite's write lock.                             *)

CreateInvite(i) ==
    /\ status[i] = "absent" /\ lock = "free"
    /\ status' = [status EXCEPT ![i] = "unused"]
    /\ UNCHANGED <<uses, expired, accounts, lock, server, faults>>

Revoke(i) ==
    /\ status[i] = "unused" /\ lock = "free"
    /\ status' = [status EXCEPT ![i] = "revoked"]
    /\ UNCHANGED <<uses, expired, accounts, lock, server, faults>>

ExpiryPasses(i) ==
    /\ status[i] # "absent" /\ i \notin expired
    /\ expired' = expired \cup {i}
    /\ UNCHANGED <<status, uses, accounts, lock, server, faults>>

-----------------------------------------------------------------------------
(* handle_onboard: validate, create_account, then consume, which validates *)
(* again before it writes.                                                 *)

Valid(i) ==
    /\ status[i] \in {"unused", "used"}
    /\ ~(status[i] = "used" /\ uses[i] >= MaxUses[i])
    /\ i \notin expired

\* Mutant: the 409 for an existing account is missing.
BeginUnchecked(a, i) ==
    /\ pc = "idle"
    /\ Valid(i)
    /\ req' = [account |-> a, invite |-> i]
    /\ pc' = "insert"
    /\ UNCHANGED <<invites, accounts, lock, faults>>

\* Steps 1, 1b and 2: refusals (400, 409) change nothing.
Begin(a, i) ==
    /\ pc = "idle"
    /\ Valid(i)
    /\ account[a] = "absent"
    /\ req' = [account |-> a, invite |-> i]
    /\ pc' = "insert"
    /\ UNCHANGED <<invites, accounts, lock, faults>>

\* Mutant: create_account returns before commit().
InsertUncommitted ==
    /\ pc = "insert"
    /\ account' = [account EXCEPT ![req.account] = "active"]
    /\ origin' = [origin EXCEPT ![req.account] = req.invite]
    /\ lock' = "accounts"
    /\ pc' = "check"
    /\ UNCHANGED <<invites, req, faults>>

\* Step 3: both inserts and their commit, which also ends a transaction that an
\* earlier failed insert left open.
InsertAccount ==
    /\ pc = "insert"
    /\ account' = [account EXCEPT ![req.account] = "active"]
    /\ origin' = [origin EXCEPT ![req.account] = req.invite]
    /\ lock' = "free"
    /\ pc' = "check"
    /\ UNCHANGED <<invites, req, faults>>

\* Mutant: consume() trusts the validation its caller made.
CheckAgainTrusts ==
    /\ pc = "check"
    /\ pc' = "update"
    /\ UNCHANGED <<invites, accounts, lock, req, faults>>

\* Step 4, consume(): its own validation; False is ignored by the handler.
CheckAgain ==
    /\ pc = "check"
    /\ pc' = IF Valid(req.invite) THEN "update" ELSE "idle"
    /\ UNCHANGED <<invites, accounts, lock, req, faults>>

\* Mutant: max_uses is compared with > instead of >=.
UsedUpLate(i, n) == n > MaxUses[i]

\* new_count >= (max_uses or 1): no maximum at all counts as one.
UsedUp(i, n) == n >= (IF MaxUses[i] = 0 THEN 1 ELSE MaxUses[i])

\* The UPDATE, unconditional on the status column.
WriteUse ==
    LET i == req.invite IN
    /\ pc = "update" /\ lock = "free"
    /\ uses' = [uses EXCEPT ![i] = @ + 1]
    /\ status' = [status EXCEPT ![i] = IF UsedUp(i, uses[i] + 1) THEN "used" ELSE "unused"]
    /\ pc' = "idle"
    /\ UNCHANGED <<expired, accounts, lock, req, faults>>

\* Admin endpoints.  An INSERT that hits the primary key raises and leaves the
\* connection inside its implicit transaction, holding the write lock.
AdminCreate(a) ==
    /\ pc = "idle"
    /\ IF account[a] = "absent"
         THEN /\ account' = [account EXCEPT ![a] = "active"]
              /\ lock' = "free"
         ELSE /\ lock' = "accounts"
              /\ UNCHANGED account
    /\ UNCHANGED <<invites, origin, server, faults>>

\* suspend and reactivate: an UPDATE, which may match no row, and a commit.
AdminSetStatus(a, s) ==
    /\ pc = "idle"
    /\ account' = [account EXCEPT ![a] = IF @ = "absent" THEN @ ELSE s]
    /\ lock' = "free"
    /\ UNCHANGED <<invites, origin, server, faults>>

\* The server dies; what was committed stays, its locks go.
Crash ==
    /\ pc # "idle" \/ lock # "free"
    /\ faults < MaxFaults
    /\ faults' = faults + 1
    /\ pc' = "idle" /\ lock' = "free"
    /\ UNCHANGED <<invites, accounts, req>>

Handler == InsertAccount \/ CheckAgain \/ WriteUse

Next ==
    \/ \E i \in Invites : CreateInvite(i) \/ Revoke(i) \/ ExpiryPasses(i)
    \/ \E a \in Accounts, i \in Invites : Begin(a, i)
    \/ Handler
    \/ \E a \in Accounts : AdminCreate(a)
    \/ \E a \in Accounts, s \in {"active", "suspended"} : AdminSetStatus(a, s)
    \/ Crash

Spec == Init /\ [][Next]_vars

\* A handler that has begun runs to its end.
FairSpec == Spec /\ WF_vars(Handler)

-----------------------------------------------------------------------------
(* Properties.                                                             *)

Onboarded(i) == Cardinality({a \in Accounts : origin[a] = i})
Capacity(i) == IF MaxUses[i] = 0 THEN 1 ELSE MaxUses[i]

\* However revocation and expiry race the handler, an invite brings in no more
\* accounts than max_uses allows, as long as the server does not die between
\* creating an account and consuming the invite.
WithinCapacity == faults = 0 => \A i \in Invites : Onboarded(i) <= Capacity(i)

\* use_count never runs ahead of the accounts: every counted use has its account,
\* whatever crashes.
UsesHaveAccounts ==
    \A i \in Invites :
        uses[i] + (IF pc \in {"check", "update"} /\ req.invite = i THEN 1 ELSE 0) <= Onboarded(i)

\* A request that passed validation is answered: consume() writes through another
\* connection than create_account(), and whatever lock a failed admin insert left
\* on the first, the second is never kept waiting for good.
OnboardEnds == pc = "insert" ~> pc = "idle"

\* invites.py:126-127 refuses a revoked code.  A revocation sticks unless it
\* falls between the validation and the UPDATE of consume() (lines 141 and
\* 149): once no request has passed that point, none will, and the invite
\* stays revoked, also for a request that had passed the handler's own check.
OutOfReach(i) == status[i] = "revoked" /\ ~(pc = "update" /\ req.invite = i)
RevocationSticks == [][\A i \in Invites : OutOfReach(i) => OutOfReach(i)']_vars
=============================================================================

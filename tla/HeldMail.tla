------------------------------ MODULE HeldMail ------------------------------
(***************************************************************************)
(* What the approval queue promises (approval_queue.py:1-6): a mail that   *)
(* was held is decided once, approved or rejected, and it is sent once if  *)
(* it was approved and never otherwise.  Redis keys, their expiry, the     *)
(* pending list and the reviewers' steps are ApprovalQueue's business.     *)
(***************************************************************************)
CONSTANT Mails

VARIABLES
    fate,       \* the decision taken on each mail
    delivered   \* the mails that were sent

vars == <<fate, delivered>>

Init ==
    /\ fate = [m \in Mails |-> "new"]
    /\ delivered = {}

Hold(m) ==
    /\ fate[m] = "new"
    /\ fate' = [fate EXCEPT ![m] = "undecided"]
    /\ UNCHANGED delivered

Resolve(m, decision) ==
    /\ fate[m] = "undecided"
    /\ fate' = [fate EXCEPT ![m] = decision]
    /\ UNCHANGED delivered

Deliver(m) ==
    /\ fate[m] = "approved" /\ m \notin delivered
    /\ delivered' = delivered \cup {m}
    /\ UNCHANGED fate

Next ==
    \E m \in Mails :
        \/ Hold(m)
        \/ \E decision \in {"approved", "rejected"} : Resolve(m, decision)
        \/ Deliver(m)

Spec == Init /\ [][Next]_vars
=============================================================================

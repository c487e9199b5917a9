---------------------------- MODULE MailDelivery ----------------------------
(***************************************************************************)
(* What inbound mail is promised (architecture.md:101): Postfix lets go of *)
(* a mail only when a copy of it lies in the inbox, or returns it to the   *)
(* sender.  Copies may come late and more than once.  How often the pipe   *)
(* and the server try is MailIngest's business.                            *)
(***************************************************************************)
EXTENDS Naturals
CONSTANT Mails
VARIABLES fate,       \* what Postfix made of each mail
          copies,     \* how often the inbox holds it
          blank       \* the mails without any content
vars == <<fate, copies, blank>>

Init == fate = [m \in Mails |-> "queued"] /\ copies = [m \in Mails |-> 0] /\ blank \in SUBSET Mails
Store(m) == copies' = [copies EXCEPT ![m] = @ + 1] /\ UNCHANGED <<fate, blank>>
Settle(m, f) == /\ fate[m] = "queued" /\ fate' = [fate EXCEPT ![m] = f]
                /\ f = "delivered" => copies[m] > 0 \/ m \in blank
                /\ UNCHANGED <<copies, blank>>
Next == \E m \in Mails : Store(m) \/ Settle(m, "delivered") \/ Settle(m, "returned")
Spec == Init /\ [][Next]_vars
=============================================================================

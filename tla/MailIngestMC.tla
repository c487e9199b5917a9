---------------------------- MODULE MailIngestMC ----------------------------
(* All mails to one agent. *)
EXTENDS MailIngest

CONSTANTS a1, m1, m2

MCTo == [m \in Mails |-> a1]
MCKinds == {[m \in Mails |-> IF m = m1 THEN k ELSE "plain"] : k \in {"invite", "blank", "broken"}}
=============================================================================

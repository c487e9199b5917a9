---------------------------- MODULE OnboardingMC ----------------------------
(* A two-use invite, and one created with max_uses 0 (it counts as one).   *)
EXTENDS Onboarding

CONSTANTS twice, zero

MCMaxUses == [i \in Invites |-> IF i = twice THEN 2 ELSE 0]
=============================================================================

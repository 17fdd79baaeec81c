----------------------------- MODULE MCBilling -----------------------------
(* Two requests at once, two subscriptions and one charge on a short calendar. *)
EXTENDS Billing, TLC

SlotSymmetry == Permutations(Slots)
=============================================================================

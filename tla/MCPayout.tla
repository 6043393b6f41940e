------------------------------ MODULE MCPayout ------------------------------
(* Model values and symmetry for the runs of Payout. *)
EXTENDS Payout, TLC

Symmetry == Permutations(Payouts) \cup Permutations(Workers)
              \cup Permutations(Callers) \cup Permutations(Admins)
=============================================================================

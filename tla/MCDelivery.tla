----------------------------- MODULE MCDelivery -----------------------------
(* Backoff schedules and symmetry for the runs of Delivery. *)
EXTENDS Delivery, TLC

LongDelays == <<1, 2>>

Symmetry == Permutations(Events) \cup Permutations(Destinations) \cup Permutations(Procs)
=============================================================================

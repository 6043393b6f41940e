------------------------------ MODULE MCPayment ------------------------------
(* The gateway's moves for the runs of Payment. *)
EXTENDS Payment, TLC

(* A hosted checkout: the customer picks a method, pays, is held by fraud   *)
(* screening or lets the session lapse.                                     *)
Checkout ==
  {<<"pending", "pending">>, <<"pending", "challenge">>, <<"pending", "settlement">>,
   <<"pending", "expire">>, <<"challenge", "capture">>, <<"challenge", "fraud">>,
   <<"settlement", "chargeback">>}

(* A payment that is captured, at once or after fraud screening. *)
Screened == {<<"pending", "settlement">>, <<"pending", "challenge">>, <<"challenge", "capture">>}

(* A payment that succeeds at once, for the runs about refunds. *)
Paid == {<<"pending", "settlement">>}

Symmetry == Permutations(Callers) \cup Permutations(Handlers) \cup Permutations(Refunds)
=============================================================================

----------------------------- MODULE MCServices -----------------------------
(* The services that share no table with one another, explored in one run:  *)
(* a behaviour picks one of them, `part`, and takes only its steps.         *)
EXTENDS Idempotency, Startup, Sessions, RateLimiter, Subscription, Accounts,
        Admission, AddressBook, Listing

CONSTANTS
  NewApi,       \* the API process that runs the newer release
  OldAccount    \* the gateway account that is there at first

VARIABLE part

servicesVars ==
  <<part, keyVars, startupVars, sessionVars, limiterVars, subVars, accountVars,
    admissionVars, bookVars, listingVars>>

Parts == {"keys", "startup", "sessions", "limiter", "subscriptions", "accounts",
          "admission", "book", "listing"}

(* Both bodies are about one order.                                         *)
SameOrder == [b \in Bodies |-> "order"]

TwoReleases == [p \in Instances |-> IF p = NewApi THEN 2 ELSE 1]

(* The default account of the sandbox. *)
OneAccount == [a \in {OldAccount} |-> [env |-> "sandbox", default |-> TRUE]]

(* Approval given up under a maximum; the maximum given up and the daily    *)
(* limit raised.                                                            *)
SomePatches == {
  [enabled |-> Keep, approval |-> FALSE, max |-> Keep, daily |-> NoCeiling],
  [enabled |-> Keep, approval |-> Keep, max |-> NoCeiling, daily |-> 4]}
BothLimits == [enabled |-> TRUE, approval |-> TRUE, max |-> 2, daily |-> 2]

(* The values of the services' variables.                                   *)
ServicesTypeOK ==
  /\ part \in Parts
  /\ KeysTypeOK
  /\ StartupTypeOK
  /\ SessionsTypeOK
  /\ LimiterTypeOK
  /\ SubTypeOK
  /\ AccountsTypeOK
  /\ AdmissionTypeOK
  /\ BookTypeOK
  /\ ListingTypeOK

ServicesInit ==
  /\ part \in Parts
  /\ KeysInit
  /\ StartupInit
  /\ SessionsInit
  /\ LimiterInit
  /\ SubInit
  /\ AccountsInit
  /\ AdmissionInit
  /\ BookInit
  /\ ListingInit

ServicesNext ==
  /\ UNCHANGED part
  /\ IF part = "keys" THEN KeysNext ELSE UNCHANGED keyVars
  /\ IF part = "startup" THEN StartupNext ELSE UNCHANGED startupVars
  /\ IF part = "sessions" THEN SessionsNext ELSE UNCHANGED sessionVars
  /\ IF part = "limiter" THEN LimiterNext ELSE UNCHANGED limiterVars
  /\ IF part = "subscriptions" THEN SubNext ELSE UNCHANGED subVars
  /\ IF part = "accounts" THEN AccountsNext ELSE UNCHANGED accountVars
  /\ IF part = "admission" THEN AdmissionNext ELSE UNCHANGED admissionVars
  /\ IF part = "book" THEN BookNext ELSE UNCHANGED bookVars
  /\ IF part = "listing" THEN ListingNext ELSE UNCHANGED listingVars

(* Requests are carried on with, time passes and the worker prunes; a       *)
(* process makes progress, and one that is down is restarted.               *)
Fairness ==
  /\ WF_keyVars(part = "keys" /\ Tick)
  /\ WF_keyVars(part = "keys" /\ Prune)
  /\ \A r \in Requests : WF_keyVars(part = "keys" /\ Handle(r))
  /\ \A p \in Instances : WF_startupVars(part = "startup" /\ StartStep(p))

ServicesSpec == ServicesInit /\ [][ServicesNext]_servicesVars /\ Fairness
=============================================================================

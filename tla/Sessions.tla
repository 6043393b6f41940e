------------------------------ MODULE Sessions ------------------------------
(* Operators of the dashboard and their sessions (auth/service.go,          *)
(* auth/repository.go, auth/middleware.go, api/admin_auth.go).  Signing in  *)
(* and changing the password each read the account, compare a slow hash and *)
(* write, without a lock, so the account may change in between; sessions    *)
(* end by expiry, logout, or a change of the password, in the change's own  *)
(* transaction; a session stored while that runs counts as stored after it. *)
EXTENDS Naturals

CONSTANTS
  Admins,      \* e-mail addresses
  FirstAdmin,  \* the bootstrap administrator
  Browsers,    \* clients, each in at most one call
  Tokens,      \* session tokens
  Nobody,      \* no administrator, no token
  SessionTTL,  \* life of a session, in ticks
  MaxChanges   \* bound: passwords an account goes through

ASSUME NobodyAssumption == Nobody \notin Admins /\ Nobody \notin Tokens /\ FirstAdmin \in Admins
ASSUME SessionTTLAssumption == SessionTTL \in Nat
ASSUME MaxChangesAssumption == MaxChanges \in Nat \ {0}

VARIABLES
  password,  \* admins.password_hash: the n-th password of the account, 0 for no account
  session,   \* admin_sessions, by token
  call,      \* what each client is in the middle of
  cookie     \* the token each browser holds

sessionVars == <<password, session, call, cookie>>

(* A session, with the password its account had when it was stored.         *)
SessionRows == [admin : Admins \cup {Nobody}, left : 0..SessionTTL,
                revoked : BOOLEAN, since : 0..MaxChanges]
NoSession == [admin |-> Nobody, left |-> 0, revoked |-> FALSE, since |-> 0]

(* A call: what it does, for whom, and the password it offers.              *)
CallKinds == {"none", "login", "login_verified", "change", "change_verified"}
Calls == [kind : CallKinds, admin : Admins \cup {Nobody}, offers : 0..MaxChanges]
NoCall == [kind |-> "none", admin |-> Nobody, offers |-> 0]

SessionsTypeOK ==
  /\ password \in [Admins -> 0..MaxChanges]
  /\ session \in [Tokens -> SessionRows]
  /\ call \in [Browsers -> Calls]
  /\ cookie \in [Browsers -> Tokens \cup {Nobody}]

SessionsInit ==
  /\ password = [a \in Admins |-> IF a = FirstAdmin THEN 1 ELSE 0]
  /\ session = [t \in Tokens |-> NoSession]
  /\ call = [b \in Browsers |-> NoCall]
  /\ cookie = [b \in Browsers |-> Nobody]

(* Session.Valid, and what Authenticate and RequireAdmin make of it.        *)
Valid(t) == session[t].admin # Nobody /\ ~session[t].revoked /\ session[t].left > 0
SignedIn(b) == cookie[b] # Nobody /\ Valid(cookie[b])

Called(b, c) == call' = [call EXCEPT ![b] = c]
Idle(b) == call[b].kind = "none"

-----------------------------------------------------------------------------
(* Login: the account is read and the password compared with what was read, *)
(* then a session with a fresh token is stored, whatever became of the      *)
(* account since.                                                           *)

BeginLogin(b, a, n) ==
  /\ Idle(b)
  /\ Called(b, [kind |-> "login", admin |-> a, offers |-> n])
  /\ UNCHANGED <<password, session, cookie>>

VerifyLogin(b) ==
  /\ call[b].kind = "login"
  /\ Called(b, IF password[call[b].admin] = call[b].offers
                 THEN [call[b] EXCEPT !.kind = "login_verified"] ELSE NoCall)
  /\ UNCHANGED <<password, session, cookie>>

IssueSession(b) ==
  LET a == call[b].admin IN
  /\ call[b].kind = "login_verified"
  /\ \E t \in Tokens :
       /\ session[t] = NoSession /\ \A c \in Browsers : cookie[c] # t
       /\ session' = [session EXCEPT ![t] = [admin |-> a, left |-> SessionTTL,
                                             revoked |-> FALSE, since |-> password[a]]]
       /\ cookie' = [cookie EXCEPT ![b] = t]
  /\ Called(b, NoCall)
  /\ UNCHANGED password

-----------------------------------------------------------------------------
(* Calls with a session *)

BeginChange(b, n) ==
  /\ Idle(b) /\ SignedIn(b)
  /\ Called(b, [kind |-> "change", admin |-> session[cookie[b]].admin, offers |-> n])
  /\ UNCHANGED <<password, session, cookie>>

VerifyChange(b) ==
  /\ call[b].kind = "change"
  /\ Called(b, IF password[call[b].admin] = call[b].offers
                 THEN [call[b] EXCEPT !.kind = "change_verified"] ELSE NoCall)
  /\ UNCHANGED <<password, session, cookie>>

(* The session the change came with, and no other. *)
BugSessionsToEnd(b) == {t \in Tokens : t = cookie[b]}

(* The sessions UpdatePassword revokes, in the transaction that stores the  *)
(* new hash: all that the account has by then.                              *)
SessionsToEnd(b) == {t \in Tokens : session[t].admin = call[b].admin}

UpdatePassword(b) ==
  LET a == call[b].admin IN
  /\ call[b].kind = "change_verified"
  /\ password[a] < MaxChanges
  /\ password' = [password EXCEPT ![a] = @ + 1]
  /\ session' = [t \in Tokens |-> [session[t] EXCEPT !.revoked = @ \/ t \in SessionsToEnd(b)]]
  /\ cookie' = [cookie EXCEPT ![b] = Nobody]
  /\ Called(b, NoCall)

(* handleLogout: whatever the token is worth.                               *)
Logout(b) ==
  /\ Idle(b) /\ cookie[b] # Nobody
  /\ session' = [session EXCEPT ![cookie[b]].revoked = session[cookie[b]].admin # Nobody]
  /\ cookie' = [cookie EXCEPT ![b] = Nobody]
  /\ UNCHANGED <<password, call>>

(* handleCreateAdmin: an address that is taken is refused.                  *)
CreateAdminAccount(b, a) ==
  /\ Idle(b) /\ SignedIn(b)
  /\ password[a] = 0
  /\ password' = [password EXCEPT ![a] = 1]
  /\ UNCHANGED <<session, call, cookie>>

(* The worker's housekeeping.                                               *)
PruneSessions ==
  /\ \E t \in Tokens : session[t] # NoSession /\ session[t].left = 0
  /\ session' = [t \in Tokens |-> IF session[t].left = 0 THEN NoSession ELSE session[t]]
  /\ UNCHANGED <<password, call, cookie>>

SessionTick ==
  /\ \E t \in Tokens : session[t].left > 0
  /\ session' = [t \in Tokens |-> [session[t] EXCEPT !.left = IF @ > 0 THEN @ - 1 ELSE 0]]
  /\ UNCHANGED <<password, call, cookie>>

SessionsNext ==
  \/ \E b \in Browsers :
       \/ \E a \in Admins : CreateAdminAccount(b, a)
       \/ \E a \in Admins, n \in 1..MaxChanges : BeginLogin(b, a, n)
       \/ \E n \in 1..MaxChanges : BeginChange(b, n)
       \/ VerifyLogin(b) \/ IssueSession(b) \/ VerifyChange(b) \/ UpdatePassword(b) \/ Logout(b)
  \/ PruneSessions
  \/ SessionTick

SessionsSpec == SessionsInit /\ [][SessionsNext]_sessionVars

-----------------------------------------------------------------------------
(* No session outlives a change of its account's password: one that still   *)
(* opens the dashboard was stored under the password the account has now,   *)
(* however many sign-ins and changes were under way together                *)
(* (ChangePassword: "then invalidates their existing sessions").            *)
NoSessionOutlivesChange ==
  \A t \in Tokens : Valid(t) => session[t].since = password[session[t].admin]
=============================================================================

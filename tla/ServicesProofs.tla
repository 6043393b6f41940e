---------------------------- MODULE ServicesProofs ----------------------------
(* Theorems about the services Startup, Sessions, AddressBook, Subscription *)
(* and Accounts, each for every value of its constants, and about all the   *)
(* services together.  They share nothing; each section is an inductive     *)
(* invariant, one lemma per action and the theorems.                        *)
EXTENDS MCServices, RequestProofs, TLAPS

-----------------------------------------------------------------------------
(* Startup: any number of processes, releases and kills *)

StartupTyped ==
  /\ schema \subseteq Nat
  /\ stage \in [Instances -> StartStages]
  /\ seen \in [Instances -> SUBSET Nat]
  /\ failure \in [Instances -> Failures]

(* Whoever reads or applies migrations holds the lock, and what it has read *)
(* stays true while it applies them.                                        *)
MigratorLocks == \A p \in Instances : stage[p] \in {"reading", "migrating"} => lock = p
MigratorKnows == \A p \in Instances : stage[p] = "migrating" => seen[p] = schema

StartupInv == StartupTyped /\ MigratorLocks /\ MigratorKnows /\ NoMigrationFails /\ ServesItsSchema

LEMMA InitStartup == StartupInit => StartupInv
BY DEF StartupInit, StartupInv, StartupTyped, MigratorLocks, MigratorKnows, NoMigrationFails,
       ServesItsSchema, StartStages, Running, Failures

-----------------------------------------------------------------------------
(* A process that moves without touching the schema: the lock is its own or *)
(* free where it has to be, and it serves only what is there.               *)
LEMMA ProcessKeeps ==
  ASSUME StartupInv, NEW p \in Instances, NEW s \in StartStages, StageTo(p, s), schema' = schema,
         seen' \in [Instances -> SUBSET Nat],
         \A q \in Instances \ {p} : seen'[q] = seen[q],
         \/ lock' = lock
         \/ lock = p /\ lock' = NoInstance
         \/ lock = NoInstance /\ lock' = p,
         s \in {"reading", "migrating"} => lock' = p,
         s = "migrating" => seen'[p] = schema,
         s \in {"counting", "creating", "serving"} => LoadMigrations(p) \subseteq schema,
         failure' \in [Instances -> Failures \ {"migration"}]
  PROVE  StartupInv'
<1>1. /\ stage'[p] = s
      /\ \A q \in Instances \ {p} : stage'[q] = stage[q]
      /\ stage' \in [Instances -> StartStages]
  BY DEF StartupInv, StartupTyped, StageTo
<1>2. StartupTyped'
  BY <1>1 DEF StartupInv, StartupTyped
<1>3. MigratorLocks'
  BY <1>1, NoInstanceAssumption DEF StartupInv, MigratorLocks
<1>4. MigratorKnows'
  BY <1>1 DEF StartupInv, MigratorKnows
<1>5. NoMigrationFails'
  BY DEF NoMigrationFails
<1>6. ServesItsSchema'
  BY <1>1 DEF StartupInv, ServesItsSchema, LoadMigrations
<1> QED
  BY <1>2, <1>3, <1>4, <1>5, <1>6 DEF StartupInv

LEMMA FailuresSoFar == StartupInv => failure \in [Instances -> Failures \ {"migration"}]
BY DEF StartupInv, StartupTyped, NoMigrationFails

LEMMA ExitKeeps ==
  ASSUME StartupInv, NEW p \in Instances, NEW why \in Failures \ {"migration"}, Exit(p, why),
         UNCHANGED <<schema, seen>>
  PROVE  StartupInv'
<1>1. failure' \in [Instances -> Failures \ {"migration"}]
  BY FailuresSoFar DEF Exit
<1>2. seen' \in [Instances -> SUBSET Nat]
  BY DEF StartupInv, StartupTyped
<1>3. "down" \in StartStages /\ StageTo(p, "down")
  BY DEF StartStages, Exit
<1>4. lock' = lock \/ (lock = p /\ lock' = NoInstance)
  BY DEF Exit
<1> QED
  BY <1>1, <1>2, <1>3, <1>4, ProcessKeeps

(* A migration that is applied is new, and every earlier one is there.      *)
LEMMA ApplyKeeps == ASSUME StartupInv, NEW p \in Instances, ApplyMigration(p) PROVE StartupInv'
<1>1. stage[p] = "migrating" /\ lock = p /\ seen[p] = schema
  BY DEF StartupInv, MigratorLocks, MigratorKnows, ApplyMigration
<1>2. PICK m \in Pending(p) :
        /\ \A n \in Pending(p) : m <= n
        /\ schema' = schema \cup {m}
        /\ seen' = [seen EXCEPT ![p] = @ \cup {m}]
        /\ UNCHANGED <<stage, failure, lock>>
  BY <1>1 DEF ApplyMigration, Pending
<1>3. m \in Nat /\ m \in 1..Known[p] /\ Known[p] \in Nat
  BY KnownAssumption DEF Pending, LoadMigrations
<1>4. \A i \in 1..m : i \in schema'
  <2> SUFFICES ASSUME NEW i \in 1..m, i # m PROVE i \in schema
    BY <1>2
  <2>1. i \in 1..Known[p] /\ ~(m <= i)
    BY <1>3
  <2> QED
    BY <1>1, <1>2, <2>1 DEF Pending, LoadMigrations
<1>5. /\ seen'[p] = schema' /\ seen' \in [Instances -> SUBSET Nat]
      /\ schema' \subseteq Nat
  BY <1>1, <1>2, <1>3 DEF StartupInv, StartupTyped
<1>6. StartupTyped'
  BY <1>2, <1>5 DEF StartupInv, StartupTyped
<1>7. MigratorLocks' /\ NoMigrationFails'
  BY <1>2 DEF StartupInv, MigratorLocks, NoMigrationFails
<1>8. MigratorKnows'
  BY <1>1, <1>2, <1>5 DEF StartupInv, MigratorLocks, MigratorKnows
<1>9. ServesItsSchema'
  <2>1. \A q \in Instances : stage'[q] \in {"counting", "creating", "serving"}
          => LoadMigrations(q) \subseteq schema'
    BY <1>2 DEF StartupInv, ServesItsSchema, LoadMigrations
  <2>2. \A i \in schema' : 1..i \subseteq schema'
    BY <1>2, <1>4 DEF StartupInv, ServesItsSchema
  <2> QED
    BY <2>1, <2>2 DEF ServesItsSchema, LoadMigrations
<1> QED
  BY <1>6, <1>7, <1>8, <1>9 DEF StartupInv

LEMMA StartStepKeeps == ASSUME StartupInv, NEW p \in Instances, StartStep(p) PROVE StartupInv'
<1>1. seen \in [Instances -> SUBSET Nat] /\ failure \in [Instances -> Failures \ {"migration"}]
  BY FailuresSoFar DEF StartupInv, StartupTyped
<1>2. CASE Run(p)
  <2>1. StageTo(p, "locking") /\ UNCHANGED <<schema, lock, seen, failure>>
    BY <1>2 DEF Run
  <2> QED
    BY <1>1, <2>1, ProcessKeeps DEF StartStages, Running
<1>3. CASE AcquireLock(p)
  <2>1. /\ lock = NoInstance /\ lock' = p /\ StageTo(p, "reading")
        /\ UNCHANGED <<schema, seen, failure>>
    BY <1>3 DEF AcquireLock, LockFree
  <2> QED
    BY <1>1, <2>1, ProcessKeeps DEF StartStages, Running
<1>4. CASE AppliedMigrations(p)
  <2>1. /\ lock = p /\ lock' = lock /\ StageTo(p, "migrating")
        /\ seen' = [seen EXCEPT ![p] = schema]
        /\ UNCHANGED <<schema, failure>>
    BY <1>4 DEF AppliedMigrations, StartupInv, MigratorLocks
  <2>2. /\ seen' \in [Instances -> SUBSET Nat] /\ seen'[p] = schema
        /\ \A q \in Instances \ {p} : seen'[q] = seen[q]
    BY <1>1, <2>1 DEF StartupInv, StartupTyped
  <2>3. "migrating" \in StartStages
    BY DEF StartStages, Running
  <2> QED
    BY <1>1, <2>1, <2>2, <2>3, ProcessKeeps
<1>5. CASE ApplyMigration(p)
  BY <1>5, ApplyKeeps
<1>6. CASE Migrated(p)
  <2> DEFINE s == IF p \in Apis THEN "counting" ELSE "serving"
  <2>1. /\ lock = p /\ lock' = NoInstance /\ StageTo(p, s)
        /\ UNCHANGED <<schema, seen, failure>>
        /\ LoadMigrations(p) \subseteq schema
    BY <1>6 DEF Migrated, Pending, StartupInv, MigratorLocks, MigratorKnows
  <2>2. s \in StartStages /\ s \notin {"reading", "migrating"}
    BY DEF StartStages, Running
  <2> HIDE DEF s
  <2> QED
    BY <1>1, <2>1, <2>2, ProcessKeeps
<1>7. CASE CountAdmins(p)
  <2> DEFINE s == IF admins > 0 THEN "serving" ELSE "creating"
  <2>1. /\ StageTo(p, s) /\ UNCHANGED <<schema, lock, seen, failure>>
        /\ LoadMigrations(p) \subseteq schema
    BY <1>7 DEF CountAdmins, StartupInv, ServesItsSchema
  <2>2. s \in StartStages /\ s \notin {"reading", "migrating"}
    BY DEF StartStages, Running
  <2> HIDE DEF s
  <2> QED
    BY <1>1, <2>1, <2>2, ProcessKeeps
<1>8. CASE CreateAdmin(p)
  <2>1. CASE Exit(p, "admin")
    BY <1>8, <2>1, ExitKeeps DEF CreateAdmin, Failures
  <2>2. CASE StageTo(p, "serving") /\ UNCHANGED <<lock, failure>>
    <3>1. UNCHANGED <<schema, seen>> /\ LoadMigrations(p) \subseteq schema
      BY <1>8 DEF CreateAdmin, StartupInv, ServesItsSchema
    <3> QED
      BY <1>1, <2>2, <3>1, ProcessKeeps DEF StartStages, Running
  <2> QED
    BY <1>8, <2>1, <2>2 DEF CreateAdmin
<1> QED
  BY <1>2, <1>3, <1>4, <1>5, <1>6, <1>7, <1>8 DEF StartStep

LEMMA StartupStep == StartupInv /\ [StartupNext]_startupVars => StartupInv'
<1> SUFFICES ASSUME StartupInv, [StartupNext]_startupVars PROVE StartupInv'
  OBVIOUS
<1>1. ASSUME NEW p \in Instances, StartStep(p) PROVE StartupInv'
  BY <1>1, StartStepKeeps
<1>2. ASSUME NEW p \in Instances, Kill(p) PROVE StartupInv'
  BY <1>2, ExitKeeps DEF Kill, Failures
<1>3. CASE UNCHANGED startupVars
  BY <1>3 DEF startupVars, StartupInv, StartupTyped, MigratorLocks, MigratorKnows, NoMigrationFails,
              ServesItsSchema, LoadMigrations
<1> QED
  BY <1>1, <1>2, <1>3 DEF StartupNext

-----------------------------------------------------------------------------
(* No process ever fails to start because another one migrates, or was      *)
(* killed while it did (Migrate).                                           *)
THEOREM MigrationsNeverClash == StartupSpec => []NoMigrationFails
<1>1. StartupInv => NoMigrationFails
  BY DEF StartupInv
<1> QED
  BY <1>1, InitStartup, StartupStep, PTL DEF StartupSpec

(* A process that serves has every migration of its own release, whatever   *)
(* other releases start beside it, and no migration is applied before an    *)
(* earlier one (loadMigrations, applyMigration).                            *)
THEOREM ServersHaveTheirTables == StartupSpec => []ServesItsSchema
<1>1. StartupInv => ServesItsSchema
  BY DEF StartupInv
<1> QED
  BY <1>1, InitStartup, StartupStep, PTL DEF StartupSpec

-----------------------------------------------------------------------------
(* Sessions: any number of operators, browsers and tokens *)

(* A sign-in offers a password, and one that was compared successfully is   *)
(* about an account that exists; so is every session.                       *)
LoginsAreReal ==
  \A b \in Browsers :
    /\ call[b].kind \in {"login", "change"} => call[b].admin \in Admins /\ call[b].offers # 0
    /\ call[b].kind \in {"login_verified", "change_verified"}
         => call[b].admin \in Admins /\ password[call[b].admin] # 0

SessionsAreReal ==
  \A t \in Tokens : session[t].admin # Nobody =>
    session[t].admin \in Admins /\ password[session[t].admin] # 0

SessionsInv ==
  /\ SessionsTypeOK /\ LoginsAreReal /\ SessionsAreReal /\ NoSessionOutlivesChange

LEMMA InitSessions == SessionsInit => SessionsInv
<1> SUFFICES ASSUME SessionsInit PROVE SessionsInv
  OBVIOUS
<1>1. /\ 0 \in 0..SessionTTL /\ 0 \in 0..MaxChanges /\ 1 \in 0..MaxChanges
  BY SessionTTLAssumption, MaxChangesAssumption
<1>2. NoSession \in SessionRows /\ NoSession.admin = Nobody
  BY <1>1 DEF NoSession, SessionRows
<1>3. NoCall \in Calls /\ NoCall.kind = "none"
  BY <1>1 DEF NoCall, Calls, CallKinds
<1>4. SessionsTypeOK
  BY <1>1, <1>2, <1>3 DEF SessionsInit, SessionsTypeOK
<1>5. LoginsAreReal /\ SessionsAreReal /\ NoSessionOutlivesChange
  BY <1>2, <1>3 DEF SessionsInit, LoginsAreReal, SessionsAreReal, NoSessionOutlivesChange, Valid
<1> QED
  BY <1>4, <1>5 DEF SessionsInv

-----------------------------------------------------------------------------
(* Calls that only move: the password and the sessions stay *)

LEMMA CallKeeps ==
  ASSUME SessionsInv, NEW b \in Browsers, NEW c \in Calls, Called(b, c),
         UNCHANGED <<password, session>>, cookie' \in [Browsers -> Tokens \cup {Nobody}],
         c.kind \in {"login", "change"} => c.admin \in Admins /\ c.offers # 0,
         c.kind \in {"login_verified", "change_verified"}
           => c.admin \in Admins /\ password[c.admin] # 0
  PROVE  SessionsInv'
<1>1. /\ call'[b] = c
      /\ \A d \in Browsers \ {b} : call'[d] = call[d]
      /\ call' \in [Browsers -> Calls]
  BY DEF SessionsInv, SessionsTypeOK, Called
<1>2. SessionsTypeOK'
  BY <1>1 DEF SessionsInv, SessionsTypeOK
<1>3. LoginsAreReal'
  BY <1>1 DEF SessionsInv, LoginsAreReal
<1>4. SessionsAreReal' /\ NoSessionOutlivesChange'
  BY DEF SessionsInv, SessionsAreReal, NoSessionOutlivesChange, Valid
<1> QED
  BY <1>2, <1>3, <1>4 DEF SessionsInv

LEMMA NoCallIsACall == NoCall \in Calls /\ NoCall.kind = "none"
BY MaxChangesAssumption DEF NoCall, Calls, CallKinds

(* Comparing the password that was offered with the one on file.            *)
LEMMA VerifyKeeps ==
  ASSUME SessionsInv, NEW b \in Browsers, NEW verified \in {"login_verified", "change_verified"},
         call[b].kind \in {"login", "change"},
         Called(b, IF password[call[b].admin] = call[b].offers
                     THEN [call[b] EXCEPT !.kind = verified] ELSE NoCall),
         UNCHANGED <<password, session, cookie>>
  PROVE  SessionsInv'
<1> DEFINE c == [call[b] EXCEPT !.kind = verified]
<1>1. /\ call[b] \in Calls /\ call[b].admin \in Admins /\ call[b].offers # 0
      /\ cookie' \in [Browsers -> Tokens \cup {Nobody}]
  BY DEF SessionsInv, SessionsTypeOK, LoginsAreReal
<1>2. c \in Calls /\ c.kind = verified /\ c.admin = call[b].admin
  BY <1>1 DEF Calls, CallKinds
<1> HIDE DEF c
<1>3. CASE password[call[b].admin] = call[b].offers
  <2>1. Called(b, c)
    BY <1>3 DEF c
  <2> QED
    BY <1>1, <1>2, <1>3, <2>1, CallKeeps
<1>4. CASE password[call[b].admin] # call[b].offers
  <2>1. Called(b, NoCall)
    BY <1>4
  <2> QED
    BY <1>1, <2>1, NoCallIsACall, CallKeeps
<1> QED
  BY <1>3, <1>4

LEMMA BeginKeeps ==
  ASSUME SessionsInv, NEW b \in Browsers, NEW a \in Admins, NEW n \in 1..MaxChanges,
         NEW kind \in {"login", "change"},
         Called(b, [kind |-> kind, admin |-> a, offers |-> n]),
         UNCHANGED <<password, session, cookie>>
  PROVE  SessionsInv'
<1> DEFINE c == [kind |-> kind, admin |-> a, offers |-> n]
<1>1. n \in 0..MaxChanges /\ n # 0
  BY MaxChangesAssumption
<1>2. c \in Calls /\ c.kind = kind /\ c.admin = a /\ c.offers = n
  BY <1>1 DEF Calls, CallKinds
<1>3. Called(b, c) /\ cookie' \in [Browsers -> Tokens \cup {Nobody}]
  BY DEF SessionsInv, SessionsTypeOK
<1> HIDE DEF c
<1> QED
  BY <1>1, <1>2, <1>3, CallKeeps

-----------------------------------------------------------------------------
(* Sessions that only end: revoked, expired or thrown away *)

LEMMA EndingKeeps ==
  ASSUME SessionsInv, UNCHANGED <<password, call>>,
         cookie' \in [Browsers -> Tokens \cup {Nobody}],
         session' \in [Tokens -> SessionRows],
         \A t \in Tokens :
           \/ session'[t].admin = Nobody
           \/ /\ session'[t].admin = session[t].admin /\ session'[t].since = session[t].since
              /\ Valid(t)' => Valid(t)
  PROVE  SessionsInv'
<1>1. SessionsTypeOK' /\ LoginsAreReal'
  BY DEF SessionsInv, SessionsTypeOK, LoginsAreReal
<1>2. SessionsAreReal'
  BY DEF SessionsInv, SessionsAreReal
<1>3. NoSessionOutlivesChange'
  BY DEF SessionsInv, NoSessionOutlivesChange, Valid
<1> QED
  BY <1>1, <1>2, <1>3 DEF SessionsInv

LEMMA LogoutKeeps == ASSUME SessionsInv, NEW b \in Browsers, Logout(b) PROVE SessionsInv'
<1> DEFINE u == cookie[b]
           s == [session[u] EXCEPT !.revoked = session[u].admin # Nobody]
<1>1. u \in Tokens /\ session \in [Tokens -> SessionRows]
  BY DEF SessionsInv, SessionsTypeOK, Logout
<1>2. /\ s \in SessionRows /\ s.admin = session[u].admin /\ s.since = session[u].since
      /\ s.revoked = (s.admin # Nobody)
  BY <1>1 DEF SessionRows
<1>3. session' = [session EXCEPT ![u] = s]
  BY <1>1 DEF Logout
<1> HIDE DEF s
<1>4. /\ session' \in [Tokens -> SessionRows] /\ session'[u] = s
      /\ \A t \in Tokens \ {u} : session'[t] = session[t]
  BY <1>1, <1>2, <1>3
<1>5. UNCHANGED <<password, call>> /\ cookie' \in [Browsers -> Tokens \cup {Nobody}]
  BY DEF SessionsInv, SessionsTypeOK, Logout
<1>6. ASSUME NEW t \in Tokens
      PROVE  \/ session'[t].admin = Nobody
             \/ /\ session'[t].admin = session[t].admin /\ session'[t].since = session[t].since
                /\ Valid(t)' => Valid(t)
  BY <1>2, <1>4 DEF Valid
<1> QED
  BY <1>4, <1>5, <1>6, EndingKeeps

LEMMA PruneSessionsKeeps == ASSUME SessionsInv, PruneSessions PROVE SessionsInv'
<1>1. NoSession \in SessionRows /\ NoSession.admin = Nobody
  BY SessionTTLAssumption, MaxChangesAssumption DEF NoSession, SessionRows
<1>2. /\ session' \in [Tokens -> SessionRows]
      /\ \A t \in Tokens : session'[t] = NoSession \/ session'[t] = session[t]
  BY <1>1 DEF SessionsInv, SessionsTypeOK, PruneSessions
<1>3. UNCHANGED <<password, call>> /\ cookie' \in [Browsers -> Tokens \cup {Nobody}]
  BY DEF SessionsInv, SessionsTypeOK, PruneSessions
<1> QED
  BY <1>1, <1>2, <1>3, EndingKeeps DEF Valid

LEMMA SessionTickKeeps == ASSUME SessionsInv, SessionTick PROVE SessionsInv'
<1> DEFINE less(n) == IF n > 0 THEN n - 1 ELSE 0
<1>1. \A n \in 0..SessionTTL : less(n) \in 0..SessionTTL /\ (less(n) > 0 => n > 0)
  BY SessionTTLAssumption
<1>2. session' = [t \in Tokens |-> [session[t] EXCEPT !.left = less(@)]]
  BY DEF SessionTick
<1> HIDE DEF less
<1>3. \A t \in Tokens : session[t] \in SessionRows
  BY DEF SessionsInv, SessionsTypeOK
<1>4. \A t \in Tokens :
        /\ session'[t] \in SessionRows
        /\ session'[t].admin = session[t].admin /\ session'[t].since = session[t].since
        /\ session'[t].revoked = session[t].revoked
        /\ session'[t].left > 0 => session[t].left > 0
  BY <1>1, <1>2, <1>3 DEF SessionRows
<1>5. session' \in [Tokens -> SessionRows]
  BY <1>2, <1>4
<1>6. UNCHANGED <<password, call>> /\ cookie' \in [Browsers -> Tokens \cup {Nobody}]
  BY DEF SessionsInv, SessionsTypeOK, SessionTick
<1> QED
  BY <1>4, <1>5, <1>6, EndingKeeps DEF Valid

-----------------------------------------------------------------------------
(* The steps that matter *)

LEMMA IssueKeeps == ASSUME SessionsInv, NEW b \in Browsers, IssueSession(b) PROVE SessionsInv'
<1> DEFINE a == call[b].admin
           s == [admin |-> a, left |-> SessionTTL, revoked |-> FALSE, since |-> password[a]]
<1>1. a \in Admins /\ password[a] # 0 /\ password[a] \in 0..MaxChanges
  BY DEF SessionsInv, SessionsTypeOK, LoginsAreReal, IssueSession
<1>2. PICK t \in Tokens : /\ session' = [session EXCEPT ![t] = s]
                          /\ cookie' = [cookie EXCEPT ![b] = t]
  BY DEF IssueSession
<1>3. s \in SessionRows /\ s.admin = a /\ s.since = password[a]
  BY <1>1, SessionTTLAssumption DEF SessionRows
<1> HIDE DEF s
<1>4. /\ session' \in [Tokens -> SessionRows] /\ session'[t] = s
      /\ \A u \in Tokens \ {t} : session'[u] = session[u]
      /\ cookie' \in [Browsers -> Tokens \cup {Nobody}]
  BY <1>2, <1>3 DEF SessionsInv, SessionsTypeOK
<1>5. password' = password /\ Called(b, NoCall)
  BY DEF IssueSession
<1>6. /\ call'[b] = NoCall /\ call' \in [Browsers -> Calls]
      /\ \A d \in Browsers \ {b} : call'[d] = call[d]
  BY <1>5, NoCallIsACall DEF SessionsInv, SessionsTypeOK, Called
<1>7. SessionsTypeOK'
  BY <1>4, <1>5, <1>6 DEF SessionsInv, SessionsTypeOK
<1>8. LoginsAreReal'
  BY <1>5, <1>6, NoCallIsACall DEF SessionsInv, LoginsAreReal
<1>9. SessionsAreReal' /\ NoSessionOutlivesChange'
  BY <1>1, <1>3, <1>4, <1>5 DEF SessionsInv, SessionsAreReal, NoSessionOutlivesChange, Valid
<1> QED
  BY <1>7, <1>8, <1>9 DEF SessionsInv

(* The transaction that stores the new hash ends every session of its       *)
(* account, and no other account's password changes.                        *)
LEMMA UpdateKeeps == ASSUME SessionsInv, NEW b \in Browsers, UpdatePassword(b) PROVE SessionsInv'
<1> DEFINE a == call[b].admin
<1>1. a \in Admins /\ password[a] # 0 /\ password[a] \in 0..MaxChanges
  BY DEF SessionsInv, SessionsTypeOK, LoginsAreReal, UpdatePassword
<1>2. password[a] < MaxChanges /\ password' = [password EXCEPT ![a] = @ + 1]
  BY DEF UpdatePassword
<1>3. password[a] + 1 \in 0..MaxChanges /\ password[a] + 1 # 0
  BY <1>1, <1>2, MaxChangesAssumption
<1>4. /\ password' \in [Admins -> 0..MaxChanges] /\ password'[a] # 0
      /\ \A c \in Admins \ {a} : password'[c] = password[c]
  BY <1>1, <1>2, <1>3 DEF SessionsInv, SessionsTypeOK
<1>5. session' = [t \in Tokens |-> [session[t] EXCEPT !.revoked = @ \/ session[t].admin = a]]
  BY DEF UpdatePassword, SessionsToEnd
<1>6. \A t \in Tokens : session[t] \in SessionRows
  BY DEF SessionsInv, SessionsTypeOK
<1>7. \A t \in Tokens :
        /\ session'[t] \in SessionRows
        /\ session'[t].admin = session[t].admin /\ session'[t].since = session[t].since
        /\ session'[t].left = session[t].left
        /\ session'[t].revoked <=> (session[t].revoked \/ session[t].admin = a)
  BY <1>5, <1>6 DEF SessionRows
<1>8. session' \in [Tokens -> SessionRows]
  BY <1>5, <1>7
<1>9. /\ call'[b] = NoCall /\ call' \in [Browsers -> Calls]
      /\ \A d \in Browsers \ {b} : call'[d] = call[d]
      /\ cookie' \in [Browsers -> Tokens \cup {Nobody}]
  BY NoCallIsACall DEF SessionsInv, SessionsTypeOK, UpdatePassword, Called
<1>10. SessionsTypeOK'
  BY <1>4, <1>8, <1>9 DEF SessionsTypeOK
<1>11. LoginsAreReal'
  BY <1>4, <1>9, NoCallIsACall DEF SessionsInv, LoginsAreReal
<1>12. SessionsAreReal'
  BY <1>4, <1>7 DEF SessionsInv, SessionsAreReal
<1>13. NoSessionOutlivesChange'
  BY <1>4, <1>7 DEF SessionsInv, SessionsAreReal, NoSessionOutlivesChange, Valid
<1> QED
  BY <1>10, <1>11, <1>12, <1>13 DEF SessionsInv

(* A new account has had no session and no sign-in.                         *)
LEMMA CreateKeeps ==
  ASSUME SessionsInv, NEW b \in Browsers, NEW a \in Admins, CreateAdminAccount(b, a)
  PROVE  SessionsInv'
<1>1. 1 \in 0..MaxChanges
  BY MaxChangesAssumption
<1>2. password[a] = 0 /\ password' = [password EXCEPT ![a] = 1] /\ UNCHANGED <<session, call, cookie>>
  BY DEF CreateAdminAccount
<1>3. /\ password' \in [Admins -> 0..MaxChanges] /\ password'[a] = 1
      /\ \A c \in Admins \ {a} : password'[c] = password[c]
  BY <1>1, <1>2 DEF SessionsInv, SessionsTypeOK
<1>4. SessionsTypeOK'
  BY <1>2, <1>3 DEF SessionsInv, SessionsTypeOK
<1>5. LoginsAreReal' /\ SessionsAreReal'
  BY <1>2, <1>3 DEF SessionsInv, LoginsAreReal, SessionsAreReal
<1>6. NoSessionOutlivesChange'
  BY <1>2, <1>3 DEF SessionsInv, SessionsAreReal, NoSessionOutlivesChange, Valid
<1> QED
  BY <1>4, <1>5, <1>6 DEF SessionsInv

-----------------------------------------------------------------------------
(* The theorems of Sessions *)

LEMMA SessionsStep == SessionsInv /\ [SessionsNext]_sessionVars => SessionsInv'
<1> SUFFICES ASSUME SessionsInv, [SessionsNext]_sessionVars PROVE SessionsInv'
  OBVIOUS
<1>1. ASSUME NEW b \in Browsers, NEW a \in Admins, CreateAdminAccount(b, a) PROVE SessionsInv'
  BY <1>1, CreateKeeps
<1>2. ASSUME NEW b \in Browsers, NEW a \in Admins, NEW n \in 1..MaxChanges, BeginLogin(b, a, n)
      PROVE  SessionsInv'
  BY <1>2, BeginKeeps DEF BeginLogin
<1>3. ASSUME NEW b \in Browsers, NEW n \in 1..MaxChanges, BeginChange(b, n) PROVE SessionsInv'
  <2>1. session[cookie[b]].admin \in Admins
    BY <1>3 DEF BeginChange, SignedIn, Valid, SessionsInv, SessionsAreReal, SessionsTypeOK
  <2> QED
    BY <1>3, <2>1, BeginKeeps DEF BeginChange
<1>4. ASSUME NEW b \in Browsers, VerifyLogin(b) \/ VerifyChange(b) PROVE SessionsInv'
  <2>1. CASE VerifyLogin(b)
    BY <2>1, VerifyKeeps DEF VerifyLogin
  <2>2. CASE VerifyChange(b)
    BY <2>2, VerifyKeeps DEF VerifyChange
  <2> QED
    BY <1>4, <2>1, <2>2
<1>5. ASSUME NEW b \in Browsers, IssueSession(b) \/ UpdatePassword(b) \/ Logout(b)
      PROVE  SessionsInv'
  BY <1>5, IssueKeeps, UpdateKeeps, LogoutKeeps
<1>6. CASE PruneSessions \/ SessionTick
  BY <1>6, PruneSessionsKeeps, SessionTickKeeps
<1>7. CASE UNCHANGED sessionVars
  BY <1>7 DEF sessionVars, SessionsInv, SessionsTypeOK, LoginsAreReal, SessionsAreReal,
              NoSessionOutlivesChange, Valid
<1> QED
  BY <1>1, <1>2, <1>3, <1>4, <1>5, <1>6, <1>7 DEF SessionsNext

(* No session that still opens the dashboard was stored under an earlier    *)
(* password of its account, however many sign-ins and changes overlap       *)
(* (ChangePassword, UpdatePassword).                                        *)
THEOREM ChangesEndSessions == SessionsSpec => []NoSessionOutlivesChange
<1>1. SessionsInv => NoSessionOutlivesChange
  BY DEF SessionsInv
<1> QED
  BY <1>1, InitSessions, SessionsStep, PTL DEF SessionsSpec

-----------------------------------------------------------------------------
(* AddressBook: any number of entries, verifications and edits *)

BookTyped ==
  /\ entry \in [Beneficiaries -> EntryRows \cup {NoEntryRow, DeletedRow}]
  /\ verifying \in [Verifiers -> Verifications]
  /\ overtaken \subseteq Beneficiaries

(* A verification under way is about an entry that was created, and, unless *)
(* the entry was edited since, carries the number the entry has.            *)
Asked(v) ==
  /\ verifying[v].who \in Beneficiaries
  /\ entry[verifying[v].who] # NoEntryRow
  /\ Listed(verifying[v].who) /\ verifying[v].who \notin overtaken
       => entry[verifying[v].who].number = verifying[v].number

VerifiersAsk ==
  \A v \in Verifiers : \/ verifying[v].stage = "idle" /\ verifying[v].who = NoBeneficiary
                       \/ verifying[v].stage \in {"ask", "mark"} /\ Asked(v)

BookInv == BookTyped /\ VerifiersAsk /\ OnlyARaceMisleads

(* A listed entry is a proper row, and a proper row is listed.              *)
LEMMA ListedRows ==
  ASSUME BookTyped, NEW b \in Beneficiaries
  PROVE  Listed(b) <=> entry[b] \in EntryRows
<1>1. /\ NoEntryRow.verified = "no row" /\ DeletedRow.verified = "deleted"
      /\ \A rec \in EntryRows : rec.verified \notin {"no row", "deleted"}
  BY NumbersAssumption DEF NoEntryRow, DeletedRow, EntryRows, Unverified
<1>2. NoEntryRow \notin EntryRows /\ DeletedRow \notin EntryRows
  BY <1>1
<1> QED
  BY <1>2 DEF BookTyped, Listed

LEMMA RowsDiffer == NoEntryRow # DeletedRow /\ NoEntryRow \notin EntryRows
<1>1. /\ NoEntryRow.verified = "no row" /\ DeletedRow.verified = "deleted"
      /\ \A rec \in EntryRows : rec.verified # "no row"
  BY NumbersAssumption DEF NoEntryRow, DeletedRow, EntryRows, Unverified
<1> QED
  BY <1>1

LEMMA InitBook == BookInit => BookInv
<1> SUFFICES ASSUME BookInit PROVE BookInv
  OBVIOUS
<1>1. /\ NoVerification \in Verifications /\ NoVerification.stage = "idle"
      /\ NoVerification.who = NoBeneficiary
  BY NumbersAssumption DEF NoVerification, Verifications
<1>2. BookTyped
  BY <1>1 DEF BookInit, BookTyped
<1>3. VerifiersAsk
  BY <1>1 DEF BookInit, VerifiersAsk
<1>4. OnlyARaceMisleads
  BY DEF BookInit, OnlyARaceMisleads, Listed
<1> QED
  BY <1>2, <1>3, <1>4 DEF BookInv

-----------------------------------------------------------------------------
(* One entry changes, the verifications stay *)

LEMMA EntryKeeps ==
  ASSUME BookInv, NEW b \in Beneficiaries, NEW rec \in EntryRows \cup {DeletedRow},
         entry' = [entry EXCEPT ![b] = rec], verifying' = verifying,
         overtaken' \subseteq Beneficiaries, overtaken \subseteq overtaken',
         rec \in EntryRows /\ b \notin overtaken' =>
           /\ rec.verified \in {Unverified, rec.number}
           /\ \A v \in Verifiers : verifying[v].who = b => verifying[v].number = rec.number
  PROVE  BookInv'
<1>1. /\ entry'[b] = rec
      /\ \A c \in Beneficiaries \ {b} : entry'[c] = entry[c]
      /\ entry' \in [Beneficiaries -> EntryRows \cup {NoEntryRow, DeletedRow}]
  BY DEF BookInv, BookTyped
<1>2. BookTyped'
  BY <1>1 DEF BookInv, BookTyped
<1>3. rec # NoEntryRow
  BY RowsDiffer
<1>4. rec \notin {NoEntryRow, DeletedRow} => rec \in EntryRows
  OBVIOUS
<1>5. VerifiersAsk'
  <2> SUFFICES ASSUME NEW v \in Verifiers, verifying[v].stage \in {"ask", "mark"}, Asked(v)
               PROVE  Asked(v)'
    BY DEF BookInv, VerifiersAsk
  <2>1. CASE verifying[v].who = b
    BY <1>1, <1>3, <1>4, <2>1 DEF Asked, Listed
  <2>2. CASE verifying[v].who # b
    BY <1>1, <2>2 DEF Asked, Listed
  <2> QED
    BY <2>1, <2>2
<1>6. OnlyARaceMisleads'
  BY <1>1, <1>4 DEF BookInv, OnlyARaceMisleads, Listed
<1> QED
  BY <1>2, <1>5, <1>6 DEF BookInv

LEMMA CreateBeneficiaryKeeps ==
  ASSUME BookInv, NEW b \in Beneficiaries, NEW n \in Numbers, CreateBeneficiary(b, n)
  PROVE  BookInv'
<1> DEFINE rec == [number |-> n, disabled |-> FALSE, verified |-> Unverified]
<1>1. rec \in EntryRows /\ rec.verified = Unverified
  BY DEF EntryRows
<1>2. /\ entry[b] = NoEntryRow /\ entry' = [entry EXCEPT ![b] = rec]
      /\ UNCHANGED <<verifying, overtaken>>
  BY DEF CreateBeneficiary
<1> HIDE DEF rec
<1>3. \A v \in Verifiers : verifying[v].who # b
  BY <1>2, NoBeneficiaryAssumption DEF BookInv, VerifiersAsk, Asked
<1> QED
  BY <1>1, <1>2, <1>3, EntryKeeps DEF BookInv, BookTyped

LEMMA UpdateBeneficiaryKeeps ==
  ASSUME BookInv, NEW b \in Beneficiaries, NEW n \in Numbers, UpdateBeneficiary(b, n)
  PROVE  BookInv'
<1> DEFINE rec == Edited(entry[b], n)
<1>1. entry[b] \in EntryRows
  BY ListedRows DEF BookInv, UpdateBeneficiary
<1>2. rec \in EntryRows /\ rec.verified = Unverified
  BY <1>1 DEF EntryRows, Edited
<1>3. /\ entry' = [entry EXCEPT ![b] = rec] /\ verifying' = verifying
      /\ overtaken' \subseteq Beneficiaries /\ overtaken \subseteq overtaken'
      /\ b \notin overtaken' => \A v \in Verifiers : verifying[v].who # b
  BY DEF BookInv, BookTyped, UpdateBeneficiary
<1> HIDE DEF rec
<1> QED
  BY <1>2, <1>3, EntryKeeps

LEMMA SetDisabledKeeps ==
  ASSUME BookInv, NEW b \in Beneficiaries, NEW disabled \in BOOLEAN, SetDisabled(b, disabled)
  PROVE  BookInv'
<1> DEFINE rec == [entry[b] EXCEPT !.disabled = disabled]
<1>1. entry[b] \in EntryRows /\ Listed(b)
  BY ListedRows DEF BookInv, SetDisabled
<1>2. rec \in EntryRows /\ rec.verified = entry[b].verified /\ rec.number = entry[b].number
  BY <1>1 DEF EntryRows
<1>3. entry' = [entry EXCEPT ![b] = rec] /\ UNCHANGED <<verifying, overtaken>>
  BY DEF SetDisabled
<1>4. b \notin overtaken => rec.verified \in {Unverified, rec.number}
  BY <1>1, <1>2 DEF BookInv, OnlyARaceMisleads
<1>5. b \notin overtaken =>
        \A v \in Verifiers : verifying[v].who = b => verifying[v].number = rec.number
  BY <1>1, <1>2, NoBeneficiaryAssumption DEF BookInv, VerifiersAsk, Asked
<1> HIDE DEF rec
<1> QED
  BY <1>2, <1>3, <1>4, <1>5, EntryKeeps DEF BookInv, BookTyped

LEMMA DeleteBeneficiaryKeeps ==
  ASSUME BookInv, NEW b \in Beneficiaries, DeleteBeneficiary(b) PROVE BookInv'
<1>1. entry' = [entry EXCEPT ![b] = DeletedRow] /\ UNCHANGED <<verifying, overtaken>>
  BY DEF DeleteBeneficiary
<1>2. DeletedRow \notin EntryRows
  BY NumbersAssumption DEF NoEntryRow, DeletedRow, EntryRows, Unverified
<1> QED
  BY <1>1, <1>2, EntryKeeps DEF BookInv, BookTyped

(* The bank's answer is about the number that was read, and so, unless the  *)
(* entry was edited since, about the number it has.                         *)
LEMMA MarkVerifiedKeeps == ASSUME BookInv, NEW v \in Verifiers, MarkVerified(v) PROVE BookInv'
<1> DEFINE b == verifying[v].who
           rec == [entry[b] EXCEPT !.verified = verifying[v].number]
<1>1. Asked(v) /\ b \in Beneficiaries /\ verifying[v] \in Verifications
  BY DEF BookInv, BookTyped, VerifiersAsk, Asked, MarkVerified
<1>2. /\ verifying' = [verifying EXCEPT ![v] = NoVerification] /\ overtaken' = overtaken
      /\ entry' = IF Listed(b) THEN [entry EXCEPT ![b] = rec] ELSE entry
  BY DEF MarkVerified
<1>3. /\ NoVerification \in Verifications /\ NoVerification.stage = "idle"
      /\ NoVerification.who = NoBeneficiary
  BY NumbersAssumption DEF NoVerification, Verifications
<1>4. /\ verifying'[v] = NoVerification /\ verifying' \in [Verifiers -> Verifications]
      /\ \A w \in Verifiers \ {v} : verifying'[w] = verifying[w]
  BY <1>2, <1>3 DEF BookInv, BookTyped
<1>5. ASSUME Listed(b)
      PROVE  /\ rec \in EntryRows /\ rec.number = entry[b].number
             /\ rec.verified = verifying[v].number
  BY <1>1, <1>5, ListedRows DEF BookInv, EntryRows, Verifications
<1> HIDE DEF rec
<1>6. entry' \in [Beneficiaries -> EntryRows \cup {NoEntryRow, DeletedRow}]
  BY <1>1, <1>2, <1>5 DEF BookInv, BookTyped
<1>7. \A c \in Beneficiaries : /\ Listed(c)' => Listed(c) /\ entry'[c].number = entry[c].number
                               /\ entry'[c] = NoEntryRow => entry[c] = NoEntryRow
  BY <1>1, <1>2, <1>5, RowsDiffer DEF BookInv, BookTyped, Listed
<1>8. BookTyped'
  BY <1>2, <1>4, <1>6 DEF BookInv, BookTyped
<1>9. VerifiersAsk'
  BY <1>2, <1>3, <1>4, <1>7 DEF BookInv, VerifiersAsk, Asked
<1>10. OnlyARaceMisleads'
  <2> SUFFICES ASSUME NEW c \in Beneficiaries \ overtaken, Listed(c)',
                      entry'[c].verified # Unverified
               PROVE  entry'[c].verified = entry'[c].number
    BY <1>2 DEF OnlyARaceMisleads
  <2>1. CASE c = b
    BY <1>1, <1>2, <1>5, <1>7, <2>1 DEF BookInv, BookTyped, Asked
  <2>2. CASE c # b
    <3>1. entry'[c] = entry[c]
      BY <1>1, <1>2, <2>2 DEF BookInv, BookTyped
    <3> QED
      BY <1>7, <3>1 DEF BookInv, OnlyARaceMisleads
  <2> QED
    BY <2>1, <2>2
<1> QED
  BY <1>8, <1>9, <1>10 DEF BookInv

LEMMA BeginVerifyKeeps ==
  ASSUME BookInv, NEW b \in Beneficiaries, NEW v \in Verifiers, BeginVerify(v, b) PROVE BookInv'
<1> DEFINE n == [stage |-> "ask", who |-> b, number |-> entry[b].number]
<1>1. entry[b] \in EntryRows /\ Listed(b)
  BY ListedRows DEF BookInv, BeginVerify
<1>2. /\ n \in Verifications /\ n.stage = "ask" /\ n.who = b /\ n.number = entry[b].number
  BY <1>1 DEF EntryRows, Verifications
<1>3. verifying' = [verifying EXCEPT ![v] = n] /\ UNCHANGED <<entry, overtaken>>
  BY DEF BeginVerify
<1> HIDE DEF n
<1>4. /\ verifying'[v] = n /\ verifying' \in [Verifiers -> Verifications]
      /\ \A w \in Verifiers \ {v} : verifying'[w] = verifying[w]
  BY <1>2, <1>3 DEF BookInv, BookTyped
<1>5. BookTyped' /\ OnlyARaceMisleads'
  BY <1>3, <1>4 DEF BookInv, BookTyped, OnlyARaceMisleads, Listed
<1>6. VerifiersAsk'
  BY <1>1, <1>2, <1>3, <1>4 DEF BookInv, VerifiersAsk, Asked, Listed
<1> QED
  BY <1>5, <1>6 DEF BookInv

LEMMA ValidateAccountKeeps ==
  ASSUME BookInv, NEW v \in Verifiers, ValidateAccount(v) PROVE BookInv'
<1> DEFINE n == [verifying[v] EXCEPT !.stage = "mark"]
<1>1. verifying[v] \in Verifications /\ verifying[v].stage = "ask" /\ Asked(v)
  BY DEF BookInv, BookTyped, VerifiersAsk, ValidateAccount
<1>2. /\ n \in Verifications /\ n.stage = "mark" /\ n.who = verifying[v].who
      /\ n.number = verifying[v].number
  BY <1>1 DEF Verifications
<1>3. /\ NoVerification \in Verifications /\ NoVerification.stage = "idle"
      /\ NoVerification.who = NoBeneficiary
  BY NumbersAssumption DEF NoVerification, Verifications
<1>4. PICK m \in {NoVerification, n} : verifying' = [verifying EXCEPT ![v] = m]
  BY DEF ValidateAccount
<1>5. UNCHANGED <<entry, overtaken>>
  BY DEF ValidateAccount
<1> HIDE DEF n
<1>6. /\ verifying'[v] = m /\ verifying' \in [Verifiers -> Verifications]
      /\ \A w \in Verifiers \ {v} : verifying'[w] = verifying[w]
  BY <1>2, <1>3, <1>4 DEF BookInv, BookTyped
<1>7. BookTyped' /\ OnlyARaceMisleads'
  BY <1>5, <1>6 DEF BookInv, BookTyped, OnlyARaceMisleads, Listed
<1>8. VerifiersAsk'
  BY <1>1, <1>2, <1>3, <1>5, <1>6 DEF BookInv, VerifiersAsk, Asked, Listed
<1> QED
  BY <1>7, <1>8 DEF BookInv

-----------------------------------------------------------------------------
(* The theorem of AddressBook *)

LEMMA BookStep == BookInv /\ [BookNext]_bookVars => BookInv'
<1> SUFFICES ASSUME BookInv, [BookNext]_bookVars PROVE BookInv'
  OBVIOUS
<1>1. ASSUME NEW b \in Beneficiaries, NEW n \in Numbers,
             CreateBeneficiary(b, n) \/ UpdateBeneficiary(b, n)
      PROVE  BookInv'
  BY <1>1, CreateBeneficiaryKeeps, UpdateBeneficiaryKeeps
<1>2. ASSUME NEW b \in Beneficiaries, NEW disabled \in BOOLEAN, SetDisabled(b, disabled)
      PROVE  BookInv'
  BY <1>2, SetDisabledKeeps
<1>3. ASSUME NEW b \in Beneficiaries, DeleteBeneficiary(b) PROVE BookInv'
  BY <1>3, DeleteBeneficiaryKeeps
<1>4. ASSUME NEW b \in Beneficiaries, NEW v \in Verifiers, BeginVerify(v, b) PROVE BookInv'
  BY <1>4, BeginVerifyKeeps
<1>5. ASSUME NEW v \in Verifiers, ValidateAccount(v) \/ MarkVerified(v) PROVE BookInv'
  BY <1>5, ValidateAccountKeeps, MarkVerifiedKeeps
<1>6. ASSUME UNCHANGED <<entry, verifying, overtaken>> PROVE BookInv'
  BY <1>6 DEF BookInv, BookTyped, VerifiersAsk, Asked, OnlyARaceMisleads, Listed
<1>7. ASSUME NEW q \in PayoutRequests, StorePayout(q) PROVE BookInv'
  BY <1>6, <1>7 DEF StorePayout
<1>8. ASSUME NEW q \in PayoutRequests, NEW b \in Beneficiaries, Resolve(q, b) PROVE BookInv'
  BY <1>6, <1>8 DEF Resolve
<1> QED
  BY <1>1, <1>2, <1>3, <1>4, <1>5, <1>6, <1>7, <1>8 DEF BookNext, bookVars

(* What the bank said about an entry is about the number it has, unless the *)
(* entry was edited while a verification of it was under way                *)
(* (VerifyBeneficiary, UpdateBeneficiary).                                  *)
THEOREM OnlyRacesMislead == BookSpec => []OnlyARaceMisleads
<1>1. BookInv => OnlyARaceMisleads
  BY DEF BookInv
<1> QED
  BY <1>1, InitBook, BookStep, PTL DEF BookSpec

-----------------------------------------------------------------------------
(* Subscription: any number of requests and whatever the gateway does       *)

IsOp(o) == o = [stage |-> o.stage, kind |-> o.kind, sub |-> o.sub, terms |-> o.terms,
                view |-> o.view, alone |-> o.alone]

SubTables ==
  /\ gw = [s \in Subs |-> gw[s]]
  /\ \A s \in Subs : gw[s] = [raw |-> gw[s].raw, terms |-> gw[s].terms]
  /\ op = [c \in SubCallers |-> op[c]]
  /\ \A c \in SubCallers : IsOp(op[c])

(* A cancellation that is past the gateway was carried out there.           *)
OpIsTrue(c) ==
  /\ op[c].stage # "idle" => op[c].sub \in Subs
  /\ op[c].stage = "read" => op[c].kind # "cancel"
  /\ op[c].stage \in {"store", "publish"} /\ op[c].kind = "cancel" =>
       gw[op[c].sub].raw = "cancelled"

SubInv == SubTables /\ (\A c \in SubCallers : OpIsTrue(c)) /\ CancellationIsReal

LEMMA NoOpFacts == IsOp(NoOp) /\ NoOp.stage = "idle" /\ NoOp.kind = "sync"
BY DEF IsOp, NoOp

LEMMA InitSub == SubInit => SubInv
<1> SUFFICES ASSUME SubInit PROVE SubInv
  OBVIOUS
<1>1. SubTables
  BY NoOpFacts DEF SubInit, SubTables, Absent
<1>2. (\A c \in SubCallers : OpIsTrue(c)) /\ CancellationIsReal
  BY NoOpFacts DEF SubInit, OpIsTrue, CancellationIsReal
<1> QED
  BY <1>1, <1>2 DEF SubInv

(* Nothing revives what was cancelled, and each operation goes on as it was *)
(* or into a state that is true.                                            *)
LEMMA SubMoves ==
  ASSUME SubInv, SubTables',
         \A s \in Subs : gw[s].raw = "cancelled" => gw'[s].raw = "cancelled",
         \A c \in SubCallers :
           \/ op'[c].stage = op[c].stage /\ op'[c].kind = op[c].kind /\ op'[c].sub = op[c].sub
           \/ OpIsTrue(c)',
         \A s \in Subs : <<s, "cancel">> \in subEvents' \ subEvents => gw'[s].raw = "cancelled"
  PROVE  SubInv'
<1>1. \A c \in SubCallers : OpIsTrue(c)'
  BY DEF SubInv, OpIsTrue
<1>2. CancellationIsReal'
  BY DEF SubInv, CancellationIsReal
<1> QED
  BY <1>1, <1>2 DEF SubInv

(* One operation takes a step, and the gateway none.                        *)
LEMMA OpMoves ==
  ASSUME SubInv, NEW c \in SubCallers, NEW o, IsOp(o), op' = [op EXCEPT ![c] = o],
         UNCHANGED gw,
         o.stage # "idle" => o.sub \in Subs,
         o.stage = "read" => o.kind # "cancel",
         o.stage \in {"store", "publish"} /\ o.kind = "cancel" => gw[o.sub].raw = "cancelled",
         \A s \in Subs : <<s, "cancel">> \in subEvents' \ subEvents => gw[s].raw = "cancelled"
  PROVE  SubInv'
<1>1. /\ op' = [d \in SubCallers |-> op'[d]] /\ op'[c] = o
      /\ \A d \in SubCallers \ {c} : op'[d] = op[d]
  BY DEF SubInv, SubTables
<1>2. SubTables'
  BY <1>1 DEF SubInv, SubTables
<1>3. OpIsTrue(c)'
  BY <1>1 DEF OpIsTrue
<1> QED
  BY <1>1, <1>2, <1>3, SubMoves

LEMMA GatewayMovesKeeps == ASSUME SubInv, NEW s \in Subs, GatewayMoves(s) PROVE SubInv'
<1>1. PICK raw : /\ gw' = [gw EXCEPT ![s].raw = raw]
                 /\ op' = NotAlone(op, s) /\ gw[s].raw # "cancelled" /\ subEvents' = subEvents
  BY DEF GatewayMoves
<1>2. \A d \in SubCallers : /\ IsOp(op'[d])
                           /\ op'[d].stage = op[d].stage /\ op'[d].kind = op[d].kind
                           /\ op'[d].sub = op[d].sub
  BY <1>1 DEF NotAlone, SubInv, SubTables, IsOp
<1>3. SubTables'
  BY <1>1, <1>2 DEF SubInv, SubTables, NotAlone
<1>4. \A t \in Subs : gw[t].raw = "cancelled" => gw'[t].raw = "cancelled"
  BY <1>1 DEF SubInv, SubTables
<1> QED
  BY <1>1, <1>2, <1>3, <1>4, SubMoves

LEMMA CreateAtGatewayKeeps ==
  ASSUME SubInv, NEW c \in SubCallers, CreateAtGateway(c) PROVE SubInv'
<1>1. PICK s \in Subs :
        /\ gw[s] = Absent /\ gw' = [gw EXCEPT ![s].raw = "active"] /\ subEvents' = subEvents
        /\ op' = [op EXCEPT ![c] = [NoOp EXCEPT !.stage = "store", !.kind = "create", !.sub = s,
                                              !.view = [raw |-> "active", terms |-> FirstTerms]]]
  BY DEF CreateAtGateway
<1>2. PICK o : o = [NoOp EXCEPT !.stage = "store", !.kind = "create", !.sub = s,
                                !.view = [raw |-> "active", terms |-> FirstTerms]]
  OBVIOUS
<1>3. IsOp(o) /\ o.stage = "store" /\ o.kind = "create" /\ o.sub = s
  BY <1>2 DEF IsOp, NoOp
<1>4. /\ op' = [d \in SubCallers |-> op'[d]] /\ op'[c] = o
      /\ \A d \in SubCallers \ {c} : op'[d] = op[d]
  BY <1>1, <1>2 DEF SubInv, SubTables
<1>5. gw[s].raw # "cancelled"
  BY <1>1 DEF Absent
<1>6. \A t \in Subs : gw[t].raw = "cancelled" => gw'[t].raw = "cancelled"
  BY <1>1, <1>5 DEF SubInv, SubTables
<1>7. SubTables'
  BY <1>1, <1>3, <1>4 DEF SubInv, SubTables
<1>8. OpIsTrue(c)'
  BY <1>3, <1>4 DEF OpIsTrue
<1> QED
  BY <1>1, <1>4, <1>6, <1>7, <1>8, SubMoves

LEMMA LoadSubKeeps ==
  ASSUME SubInv, NEW c \in SubCallers, NEW kind \in Kinds, NEW s \in Subs, NEW t \in Terms,
         Load(c, kind, s, t)
  PROVE  SubInv'
<1>1. PICK o : o = [NoOp EXCEPT !.stage = IF kind = "sync" THEN "read" ELSE "ask",
                                !.kind = kind, !.sub = s, !.terms = t]
  OBVIOUS
<1>2. /\ IsOp(o) /\ o.stage = (IF kind = "sync" THEN "read" ELSE "ask") /\ o.kind = kind
      /\ o.sub = s
  BY <1>1 DEF IsOp, NoOp
<1>3. PICK began : began = [op EXCEPT ![c] = o]
  OBVIOUS
<1>4. /\ began = [d \in SubCallers |-> began[d]] /\ began[c] = o
      /\ \A d \in SubCallers \ {c} : began[d] = op[d]
      /\ \A d \in SubCallers : IsOp(began[d])
  BY <1>2, <1>3 DEF SubInv, SubTables
<1>5. op' = NotAlone(began, s) \/ op' = began
  BY <1>1, <1>3 DEF Load
<1>6. UNCHANGED <<gw, subEvents>>
  BY DEF Load
<1>7. /\ op' = [d \in SubCallers |-> op'[d]]
      /\ \A d \in SubCallers : /\ IsOp(op'[d])
                               /\ op'[d].stage = began[d].stage /\ op'[d].kind = began[d].kind
                               /\ op'[d].sub = began[d].sub
  BY <1>4, <1>5 DEF NotAlone, IsOp
<1>8. SubTables'
  BY <1>6, <1>7 DEF SubInv, SubTables
<1>9. OpIsTrue(c)'
  BY <1>2, <1>4, <1>7 DEF OpIsTrue
<1> QED
  BY <1>4, <1>6, <1>7, <1>8, <1>9, SubMoves

LEMMA AskGatewayKeepsSub == ASSUME SubInv, NEW c \in SubCallers, AskGateway(c) PROVE SubInv'
<1>1. PICK q : q = op[c]
  OBVIOUS
<1>2. PICK s : s = q.sub
  OBVIOUS
<1>3. q.stage = "ask" /\ IsOp(q) /\ s \in Subs /\ subEvents' = subEvents
  BY <1>1, <1>2 DEF AskGateway, At, SubInv, SubTables, OpIsTrue
<1>4. CASE ~GatewayAccepts(s)
  BY <1>1, <1>2, <1>3, <1>4, NoOpFacts, OpMoves DEF AskGateway, Done
<1>5. CASE GatewayAccepts(s)
  <2>1. PICK o : o = [q EXCEPT !.stage = IF q.kind = "update" THEN "read" ELSE "store",
                               !.terms = FirstTerms]
    OBVIOUS
  <2>2. /\ IsOp(o) /\ o.stage = (IF q.kind = "update" THEN "read" ELSE "store")
        /\ o.kind = q.kind /\ o.sub = s
    BY <1>2, <1>3, <2>1 DEF IsOp
  <2>3. op' = [op EXCEPT ![c] = o]
    BY <1>1, <1>2, <1>3, <1>5, <2>1 DEF AskGateway, SubInv, SubTables, IsOp
  <2>4. /\ op' = [d \in SubCallers |-> op'[d]] /\ op'[c] = o
        /\ \A d \in SubCallers \ {c} : op'[d] = op[d]
    BY <2>3 DEF SubInv, SubTables
  <2>5. gw' = IF q.kind = "update" THEN [gw EXCEPT ![s].terms = q.terms]
                                   ELSE [gw EXCEPT ![s].raw = RawAfter(q.kind)]
    BY <1>1, <1>2, <1>5 DEF AskGateway
  <2>6. /\ gw' = [t \in Subs |-> gw'[t]]
        /\ \A t \in Subs : gw'[t] = [raw |-> gw'[t].raw, terms |-> gw'[t].terms]
    BY <2>5 DEF SubInv, SubTables
  <2>7. \A t \in Subs : gw[t].raw = "cancelled" => gw'[t].raw = "cancelled"
    BY <1>5, <2>5 DEF GatewayAccepts, SubInv, SubTables
  <2>8. q.kind = "cancel" => gw'[s].raw = "cancelled"
    BY <1>3, <2>5 DEF RawAfter, SubInv, SubTables
  <2>9. SubTables'
    BY <2>2, <2>4, <2>6 DEF SubInv, SubTables
  <2>10. OpIsTrue(c)'
    BY <1>3, <2>2, <2>4, <2>8 DEF OpIsTrue
  <2> QED
    BY <1>3, <2>4, <2>7, <2>9, <2>10, SubMoves
<1> QED
  BY <1>4, <1>5

(* Steps that change one operation's stage and what the gateway told it.    *)
LEMMA StageKeeps ==
  ASSUME SubInv, NEW c \in SubCallers, op[c].stage # "idle", NEW next, NEW view, next # "read",
         op' = [op EXCEPT ![c] = [op[c] EXCEPT !.stage = next, !.view = view]],
         op[c].stage \in {"store", "publish"} \/ op[c].kind # "cancel",
         UNCHANGED <<gw, subEvents>>
  PROVE  SubInv'
<1>1. PICK q : q = op[c]
  OBVIOUS
<1>2. PICK o : o = [q EXCEPT !.stage = next, !.view = view]
  OBVIOUS
<1>3. IsOp(q) /\ (q.stage # "idle" => q.sub \in Subs)
  BY <1>1 DEF SubInv, SubTables, OpIsTrue
<1>4. IsOp(o) /\ o.stage = next /\ o.kind = q.kind /\ o.sub = q.sub
  BY <1>2, <1>3 DEF IsOp
<1>5. q.stage \in {"store", "publish"} /\ q.kind = "cancel" => gw[q.sub].raw = "cancelled"
  BY <1>1 DEF SubInv, OpIsTrue
<1> QED
  BY <1>1, <1>2, <1>3, <1>4, <1>5, OpMoves

LEMMA StoreKeeps ==
  ASSUME SubInv, NEW c \in SubCallers,
         InsertRow(c) \/ GetSubscription(c) \/ StoreView(c) \/ SetStatus(c)
  PROVE  SubInv'
<1>1. PICK q : q = op[c]
  OBVIOUS
<1>2. IsOp(q) /\ op = [d \in SubCallers |-> op[d]] /\ (q.stage = "read" => q.kind # "cancel")
  BY <1>1 DEF SubInv, SubTables, OpIsTrue
<1>3. CASE GetSubscription(c)
  <2>1. PICK view : view = gw[q.sub]
    OBVIOUS
  <2>2. op' = [op EXCEPT ![c] = [op[c] EXCEPT !.stage = "store", !.view = view]]
    BY <1>1, <1>2, <1>3, <2>1 DEF GetSubscription, IsOp
  <2>3. op[c].stage = "read" /\ op[c].kind # "cancel" /\ UNCHANGED <<gw, subEvents>>
    BY <1>1, <1>2, <1>3 DEF GetSubscription, At
  <2> QED
    BY <2>2, <2>3, StageKeeps
<1>4. ASSUME q.stage = "store", OpTo(c, "publish"), UNCHANGED <<gw, subEvents>> PROVE SubInv'
  <2>1. PICK view : view = q.view
    OBVIOUS
  <2>2. op' = [op EXCEPT ![c] = [op[c] EXCEPT !.stage = "publish", !.view = view]]
    BY <1>1, <1>2, <1>4, <2>1 DEF OpTo, IsOp
  <2>3. op[c].stage = "store"
    BY <1>1, <1>4
  <2> QED
    BY <1>4, <2>2, <2>3, StageKeeps
<1>5. ASSUME Done(c), UNCHANGED <<gw, subEvents>> PROVE SubInv'
  <2>1. NoOp.stage \notin {"store", "publish", "read"}
    BY NoOpFacts
  <2>2. op' = [op EXCEPT ![c] = NoOp]
    BY <1>5 DEF Done
  <2> QED
    BY <1>5, <2>1, <2>2, NoOpFacts, OpMoves
<1> QED
  BY <1>1, <1>3, <1>4, <1>5 DEF InsertRow, StoreView, SetStatus, At

LEMMA PublishKeepsSub == ASSUME SubInv, NEW c \in SubCallers, Publish(c) PROVE SubInv'
<1>1. /\ op[c].stage = "publish" /\ op' = [op EXCEPT ![c] = NoOp] /\ gw' = gw
      /\ subEvents' = subEvents \cup {<<op[c].sub, op[c].kind>>}
  BY DEF Publish, At, Done, DedupeKey
<1>2. op[c].kind = "cancel" => gw[op[c].sub].raw = "cancelled"
  BY <1>1 DEF SubInv, OpIsTrue
<1>3. \A s \in Subs : <<s, "cancel">> \in subEvents' \ subEvents => gw[s].raw = "cancelled"
  BY <1>1, <1>2
<1> QED
  BY <1>1, <1>3, NoOpFacts, OpMoves

LEMMA AbortKeeps == ASSUME SubInv, NEW c \in SubCallers, Abort(c) PROVE SubInv'
BY NoOpFacts, OpMoves DEF Abort, Done

LEMMA SubStep == SubInv /\ [SubNext]_subVars => SubInv'
<1>1. ASSUME SubInv, UNCHANGED subVars PROVE SubInv'
  BY <1>1 DEF subVars, SubInv, SubTables, OpIsTrue, CancellationIsReal
<1> QED
  BY <1>1, GatewayMovesKeeps, CreateAtGatewayKeeps, LoadSubKeeps, AskGatewayKeepsSub, StoreKeeps,
     PublishKeepsSub, AbortKeeps DEF SubNext

-----------------------------------------------------------------------------
(* An application is told of a cancellation only if the gateway carried it  *)
(* out, however many requests and moves of the gateway overlap and wherever *)
(* they are cut off (Cancel).                                               *)
THEOREM CancellationsAreReal == SubSpec => []CancellationIsReal
<1>1. SubInv => CancellationIsReal
  BY DEF SubInv
<1> QED
  BY <1>1, InitSub, SubStep, PTL DEF SubSpec

-----------------------------------------------------------------------------
(* Subscription, again: the row follows the gateway                         *)

StatusFits(s) == subRow[s].status = NormalizeSubscriptionStatus(gw[s].raw)
TermsFit(s) == subRow[s].terms = gw[s].terms

(* An operation that has changed the gateway and not yet the row.           *)
ChangesTerms(c) == op[c].kind = "update" /\ op[c].stage \in {"read", "store"}
ChangesStatus(c) == op[c].kind \in LifecycleKinds /\ op[c].stage = "store"

OpsFit ==
  \A c \in SubCallers :
    /\ op[c].stage = "idle" => op[c].sub = NoSub
    /\ op[c].stage # "idle" => op[c].sub \in Subs /\ gw[op[c].sub].raw # "none"
    /\ op[c].stage = "ask" => op[c].kind \in LifecycleKinds \cup {"update"}
    /\ op[c].stage = "read" => op[c].kind \in {"sync", "update"}

(* Every operation but a create works on a row that exists.                 *)
OpsHaveRows ==
  \A c \in SubCallers : op[c].stage # "idle" /\ op[c].kind # "create" => Exists(op[c].sub)

(* An operation that thinks it is alone is, and so are those on a row that  *)
(* nothing has disturbed.                                                   *)
AloneIsAlone ==
  /\ \A c, d \in SubCallers :
       c # d /\ op[c].sub \in Subs /\ op[c].sub = op[d].sub => ~op[c].alone
  /\ \A c \in SubCallers : op[c].sub \in Subs \ disturbed => op[c].alone

(* What an operation that is alone is about to store is what the gateway    *)
(* has.                                                                     *)
ViewsFit ==
  \A c \in SubCallers : op[c].alone /\ op[c].stage = "store" =>
    IF op[c].kind \in LifecycleKinds THEN gw[op[c].sub].raw = RawAfter(op[c].kind)
    ELSE op[c].view = gw[op[c].sub]

RowsFit ==
  /\ subRow = [s \in Subs |-> subRow[s]]
  /\ \A s \in Subs : subRow[s] = [status |-> subRow[s].status, terms |-> subRow[s].terms]
  /\ \A s \in Subs : Exists(s) =>
       /\ gw[s].raw # "none"
       /\ s \notin disturbed =>
            /\ StatusFits(s) \/ \E c \in SubCallers : op[c].sub = s /\ ChangesStatus(c)
            /\ TermsFit(s) \/ \E c \in SubCallers : op[c].sub = s /\ ChangesTerms(c)

FollowInv == SubInv /\ OpsFit /\ OpsHaveRows /\ AloneIsAlone /\ ViewsFit /\ RowsFit

LEMMA NoOpAgain == NoOp.sub = NoSub /\ NoOp.stage = "idle" /\ NoSub \notin Subs
BY NoSubAssumption DEF NoOp

LEMMA InitFollows == SubInit => FollowInv
<1> SUFFICES ASSUME SubInit PROVE FollowInv
  OBVIOUS
<1>1. OpsFit /\ OpsHaveRows /\ AloneIsAlone /\ ViewsFit
  BY NoOpAgain DEF SubInit, OpsFit, OpsHaveRows, AloneIsAlone, ViewsFit
<1>2. RowsFit
  BY DEF SubInit, RowsFit, NoSubRow, Exists
<1> QED
  BY <1>1, <1>2, InitSub DEF FollowInv

(* An operation goes on, or ends, while the gateway stands still.           *)
LEMMA GoesOn ==
  ASSUME FollowInv, NEW c \in SubCallers, NEW o, op' = [op EXCEPT ![c] = o], gw' = gw,
         o = NoOp \/ (o.sub = op[c].sub /\ o.alone = op[c].alone /\ op[c].stage # "idle"
                      /\ o.stage \notin {"idle", "ask", "read"}),
         \A s \in Subs : s \in disturbed \ disturbed' => op[c].alone /\ s = op[c].sub,
         o.alone /\ o.stage = "store" =>
           IF o.kind \in LifecycleKinds THEN gw[o.sub].raw = RawAfter(o.kind)
           ELSE o.view = gw[o.sub]
  PROVE  OpsFit' /\ AloneIsAlone' /\ ViewsFit'
<1>1. /\ op'[c] = o /\ \A d \in SubCallers \ {c} : op'[d] = op[d]
  BY DEF FollowInv, SubInv, SubTables
<1>2. OpsFit'
  BY <1>1, NoOpAgain DEF FollowInv, OpsFit
<1>3. AloneIsAlone'
  <2>1. \A d, e \in SubCallers :
          d # e /\ op'[d].sub \in Subs /\ op'[d].sub = op'[e].sub => ~op'[d].alone
    BY <1>1, NoOpAgain DEF FollowInv, AloneIsAlone
  <2>2. \A d \in SubCallers : op'[d].sub \in Subs \ disturbed' => op'[d].alone
    <3> SUFFICES ASSUME NEW d \in SubCallers, op'[d].sub \in Subs \ disturbed' PROVE op'[d].alone
      OBVIOUS
    <3>1. CASE op'[d].sub \notin disturbed
      BY <1>1, <3>1, NoOpAgain DEF FollowInv, AloneIsAlone
    <3>2. CASE op'[d].sub \in disturbed
      BY <1>1, <3>2, NoOpAgain DEF FollowInv, AloneIsAlone
    <3> QED
      BY <3>1, <3>2
  <2> QED
    BY <2>1, <2>2 DEF AloneIsAlone
<1>4. ViewsFit'
  BY <1>1 DEF FollowInv, ViewsFit
<1> QED
  BY <1>2, <1>3, <1>4

(* No row is ever deleted under an operation.                               *)
LEMMA RowsRemain ==
  ASSUME FollowInv, NEW c \in SubCallers, NEW o, op' = [op EXCEPT ![c] = o],
         \/ o.stage = "idle"
         \/ o.sub = op[c].sub /\ o.kind = op[c].kind /\ op[c].stage # "idle",
         \A s \in Subs : Exists(s) => Exists(s)'
  PROVE  OpsHaveRows'
<1>1. /\ op'[c] = o /\ \A d \in SubCallers \ {c} : op'[d] = op[d]
  BY DEF FollowInv, SubInv, SubTables
<1>2. ASSUME NEW d \in SubCallers, op'[d].stage # "idle", op'[d].kind # "create"
      PROVE  subRow'[op'[d].sub] # NoSubRow
  <2>1. PICK s : s = op[d].sub
    OBVIOUS
  <2>2. op'[d].sub = s /\ op[d].stage # "idle" /\ op[d].kind # "create"
    BY <1>1, <1>2, <2>1
  <2>3. s \in Subs /\ Exists(s)
    BY <2>1, <2>2 DEF FollowInv, OpsFit, OpsHaveRows
  <2> QED
    BY <2>2, <2>3 DEF Exists
<1> QED
  BY <1>2 DEF OpsHaveRows, Exists

(* A row that does not change stays as good as it was, if the operation     *)
(* that moves was not the one that owed it something.                       *)
LEMMA RowsWait ==
  ASSUME FollowInv, NEW c \in SubCallers, NEW o, op' = [op EXCEPT ![c] = o],
         UNCHANGED <<gw, subRow>>,
         \/ disturbed' = disturbed /\ ~ChangesStatus(c) /\ (ChangesTerms(c) => ChangesTerms(c)')
            /\ o.sub \in {op[c].sub, NoSub} /\ (ChangesTerms(c) => o.sub = op[c].sub)
         \/ disturbed' = disturbed \cup {op[c].sub}
  PROVE  RowsFit'
<1>1. /\ op'[c] = o /\ \A d \in SubCallers \ {c} : op'[d] = op[d]
  BY DEF FollowInv, SubInv, SubTables
<1>2. \A d \in SubCallers \ {c} : /\ ChangesStatus(d) <=> ChangesStatus(d)'
                                  /\ ChangesTerms(d) <=> ChangesTerms(d)'
  BY <1>1 DEF ChangesStatus, ChangesTerms
<1>3. ASSUME NEW s \in Subs, Exists(s), s \notin disturbed'
      PROVE  /\ StatusFits(s) \/ \E d \in SubCallers : op'[d].sub = s /\ ChangesStatus(d)'
             /\ TermsFit(s) \/ \E d \in SubCallers : op'[d].sub = s /\ ChangesTerms(d)'
  BY <1>1, <1>2, <1>3 DEF FollowInv, RowsFit
<1>4. \A s \in Subs : Exists(s)' => Exists(s) /\ StatusFits(s)' = StatusFits(s) /\ TermsFit(s)' = TermsFit(s)
  BY DEF Exists, StatusFits, TermsFit
<1> QED
  BY <1>3, <1>4 DEF FollowInv, RowsFit, StatusFits, TermsFit, Exists

(* A row that an operation stores; the others are as good as they were.     *)
LEMMA RowStored ==
  ASSUME FollowInv, NEW c \in SubCallers, NEW o, op' = [op EXCEPT ![c] = o], gw' = gw,
         NEW x, x = [status |-> x.status, terms |-> x.terms], op[c].stage # "idle",
         subRow' = [subRow EXCEPT ![op[c].sub] = x],
         o.sub \in {op[c].sub, NoSub},
         disturbed \ {op[c].sub} \subseteq disturbed',
         op[c].sub \notin disturbed' =>
           /\ \/ x.status = NormalizeSubscriptionStatus(gw[op[c].sub].raw)
           /\ \/ x.terms = gw[op[c].sub].terms
              \/ \E d \in SubCallers \ {c} : op[d].sub = op[c].sub /\ ChangesTerms(d)
  PROVE  RowsFit'
<1>1. /\ op'[c] = o /\ \A d \in SubCallers \ {c} : op'[d] = op[d]
  BY DEF FollowInv, SubInv, SubTables
<1>2. PICK s : s = op[c].sub
  OBVIOUS
<1>3. s \in Subs /\ gw[s].raw # "none"
  BY <1>2 DEF FollowInv, OpsFit
<1>4. /\ subRow' = [t \in Subs |-> subRow'[t]] /\ subRow'[s] = x
      /\ \A t \in Subs \ {s} : subRow'[t] = subRow[t]
  <2>1. subRow' = [subRow EXCEPT ![s] = x]
    BY <1>2
  <2>2. subRow = [t \in Subs |-> subRow[t]]
    BY DEF FollowInv, RowsFit
  <2>3. DOMAIN subRow = Subs
    BY <2>2, Zenon
  <2>4. subRow' = [t \in Subs |-> IF t = s THEN x ELSE subRow[t]]
    BY <2>1, <2>3, Zenon
  <2> QED
    BY <1>3, <2>4
<1>5. \A d \in SubCallers \ {c} : /\ ChangesStatus(d) <=> ChangesStatus(d)'
                                  /\ ChangesTerms(d) <=> ChangesTerms(d)'
  BY <1>1 DEF ChangesStatus, ChangesTerms
<1>6. ASSUME s \notin disturbed'
      PROVE  /\ StatusFits(s)'
             /\ TermsFit(s)' \/ \E d \in SubCallers : op'[d].sub = s /\ ChangesTerms(d)'
  BY <1>1, <1>2, <1>4, <1>5, <1>6 DEF StatusFits, TermsFit
<1>7. ASSUME NEW t \in Subs \ {s}, Exists(t)', t \notin disturbed'
      PROVE  /\ StatusFits(t)' \/ \E d \in SubCallers : op'[d].sub = t /\ ChangesStatus(d)'
             /\ TermsFit(t)' \/ \E d \in SubCallers : op'[d].sub = t /\ ChangesTerms(d)'
  <2>1. Exists(t) /\ t \notin disturbed /\ op[c].sub # t
    BY <1>2, <1>4, <1>7 DEF Exists
  <2>2. /\ StatusFits(t) \/ \E d \in SubCallers \ {c} : op[d].sub = t /\ ChangesStatus(d)
        /\ TermsFit(t) \/ \E d \in SubCallers \ {c} : op[d].sub = t /\ ChangesTerms(d)
    BY <2>1 DEF FollowInv, RowsFit
  <2>3. (StatusFits(t) <=> StatusFits(t)') /\ (TermsFit(t) <=> TermsFit(t)')
    BY <1>4 DEF StatusFits, TermsFit
  <2> QED
    BY <1>1, <1>5, <2>2, <2>3
<1>8. \A t \in Subs : /\ subRow'[t] = [status |-> subRow'[t].status, terms |-> subRow'[t].terms]
                      /\ Exists(t)' => gw'[t].raw # "none"
  BY <1>3, <1>4 DEF FollowInv, RowsFit, Exists
<1> QED
  BY <1>4, <1>6, <1>7, <1>8 DEF RowsFit

-----------------------------------------------------------------------------

LEMMA AbortFollows == ASSUME FollowInv, NEW c \in SubCallers, Abort(c) PROVE FollowInv'
<1>1. /\ op' = [op EXCEPT ![c] = NoOp] /\ UNCHANGED <<gw, subRow>>
      /\ disturbed' = disturbed \cup {op[c].sub}
  BY DEF Abort, Done
<1>2. OpsFit' /\ AloneIsAlone' /\ ViewsFit'
  BY <1>1, NoOpAgain, GoesOn
<1>3. OpsHaveRows'
  BY <1>1, NoOpAgain, RowsRemain DEF Exists
<1>4. RowsFit'
  BY <1>1, RowsWait
<1> QED
  BY <1>2, <1>3, <1>4, AbortKeeps DEF FollowInv

LEMMA PublishFollows == ASSUME FollowInv, NEW c \in SubCallers, Publish(c) PROVE FollowInv'
<1>1. /\ op' = [op EXCEPT ![c] = NoOp] /\ UNCHANGED <<gw, subRow, disturbed>>
      /\ op[c].stage = "publish"
  BY DEF Publish, Done, At
<1>2. OpsFit' /\ AloneIsAlone' /\ ViewsFit'
  BY <1>1, NoOpAgain, GoesOn
<1>3. OpsHaveRows'
  BY <1>1, NoOpAgain, RowsRemain DEF Exists
<1>4. RowsFit'
  BY <1>1, NoOpAgain, RowsWait DEF ChangesStatus, ChangesTerms
<1> QED
  BY <1>2, <1>3, <1>4, PublishKeepsSub DEF FollowInv

LEMMA GetFollows == ASSUME FollowInv, NEW c \in SubCallers, GetSubscription(c) PROVE FollowInv'
<1>1. PICK q : q = op[c]
  OBVIOUS
<1>2. PICK view : view = gw[q.sub]
  OBVIOUS
<1>3. PICK o : o = [q EXCEPT !.view = view, !.stage = "store"]
  OBVIOUS
<1>4. IsOp(q) /\ q.stage = "read" /\ UNCHANGED <<gw, subRow, disturbed>> /\ q.kind \in {"sync", "update"}
  BY <1>1 DEF GetSubscription, At, FollowInv, SubInv, SubTables, OpsFit
<1>5. op' = [op EXCEPT ![c] = o]
  BY <1>1, <1>2, <1>3, <1>4 DEF GetSubscription, FollowInv, SubInv, SubTables, IsOp
<1>6. /\ o.stage = "store" /\ o.kind = q.kind /\ o.sub = q.sub /\ o.alone = q.alone /\ o.view = view
  BY <1>3, <1>4 DEF IsOp
<1>7. OpsFit' /\ AloneIsAlone' /\ ViewsFit'
  BY <1>1, <1>2, <1>4, <1>5, <1>6, GoesOn DEF LifecycleKinds
<1>8. op'[c] = o
  BY <1>5 DEF FollowInv, SubInv, SubTables
<1>9. ~ChangesStatus(c) /\ (ChangesTerms(c) => ChangesTerms(c)')
  BY <1>1, <1>4, <1>6, <1>8 DEF ChangesStatus, ChangesTerms
<1>10. RowsFit'
  BY <1>1, <1>4, <1>5, <1>6, <1>9, RowsWait
<1>11. OpsHaveRows'
  BY <1>1, <1>4, <1>5, <1>6, RowsRemain DEF Exists
<1> QED
  BY <1>7, <1>10, <1>11, StoreKeeps DEF FollowInv

LEMMA StoringFollows ==
  ASSUME FollowInv, NEW c \in SubCallers, InsertRow(c) \/ StoreView(c) \/ SetStatus(c)
  PROVE  FollowInv'
<1>1. PICK q : q = op[c]
  OBVIOUS
<1>2. PICK s : s = q.sub
  OBVIOUS
<1>3. /\ IsOp(q) /\ q.stage = "store" /\ gw' = gw /\ s \in Subs
      /\ op = [d \in SubCallers |-> op[d]]
  BY <1>1, <1>2 DEF InsertRow, StoreView, SetStatus, At, FollowInv, SubInv, SubTables, OpsFit
<1>4. PICK p : p = [q EXCEPT !.stage = "publish"]
  OBVIOUS
<1>5. p.stage = "publish" /\ p.kind = q.kind /\ p.sub = s /\ p.alone = q.alone
  BY <1>2, <1>3, <1>4 DEF IsOp
<1>6. PICK o \in {p, NoOp} : op' = [op EXCEPT ![c] = o]
  BY <1>1, <1>3, <1>4 DEF InsertRow, StoreView, SetStatus, OpTo, Done
<1>7. \A t \in Subs : t \in disturbed \ disturbed' => q.alone /\ t = s
  BY <1>1, <1>2 DEF InsertRow, StoreView, SetStatus
<1>8. OpsFit' /\ AloneIsAlone' /\ ViewsFit'
  BY <1>1, <1>2, <1>3, <1>5, <1>6, <1>7, NoOpAgain, GoesOn
<1>9. s \notin disturbed' => q.alone
  BY <1>1, <1>2, <1>3, <1>7 DEF FollowInv, AloneIsAlone
<1>10. disturbed \ {s} \subseteq disturbed'
  BY <1>1, <1>2 DEF InsertRow, StoreView, SetStatus
<1>11. o.sub \in {s, NoSub}
  BY <1>5, <1>6, NoOpAgain
<1>14. o.stage = "idle" \/ (o.sub = q.sub /\ o.kind = q.kind /\ q.stage # "idle")
  BY <1>2, <1>3, <1>5, <1>6, NoOpAgain
<1>12. CASE InsertRow(c) \/ StoreView(c)
  <2>1. PICK x : x = [status |-> NormalizeSubscriptionStatus(q.view.raw), terms |-> q.view.terms]
    OBVIOUS
  <2>2. subRow' = [subRow EXCEPT ![s] = x] /\ q.kind \notin LifecycleKinds
    BY <1>1, <1>2, <1>12, <2>1 DEF InsertRow, StoreView, ApplyGateway, LifecycleKinds
  <2>3. q.alone => q.view = gw[s]
    BY <1>1, <1>2, <1>3, <2>2 DEF FollowInv, ViewsFit
  <2>4. RowsFit'
    BY <1>1, <1>2, <1>3, <1>6, <1>9, <1>10, <1>11, <2>1, <2>2, <2>3, RowStored
  <2>5. OpsHaveRows'
    <3>1. x.status # "none" /\ NoSubRow.status = "none"
      BY <2>1 DEF NormalizeSubscriptionStatus, NoSubRow
    <3>2. \A t \in Subs : Exists(t) => Exists(t)'
      BY <1>3, <2>2, <3>1 DEF FollowInv, RowsFit, Exists
    <3> QED
      BY <1>1, <1>6, <1>14, <3>2, RowsRemain
  <2> QED
    BY <1>8, <1>12, <2>4, <2>5, StoreKeeps DEF FollowInv
<1>13. CASE SetStatus(c)
  <2>1. PICK x : x = [subRow[s] EXCEPT !.status = StatusAfter(q.kind)]
    OBVIOUS
  <2>2. subRow' = [subRow EXCEPT ![s] = x] /\ q.kind \in LifecycleKinds /\ disturbed' = disturbed
    BY <1>1, <1>2, <1>13, <2>1 DEF SetStatus
  <2>3. /\ x = [status |-> x.status, terms |-> x.terms]
        /\ x.status = StatusAfter(q.kind) /\ x.terms = subRow[s].terms
    BY <1>3, <2>1 DEF FollowInv, RowsFit
  <2>4. q.alone => x.status = NormalizeSubscriptionStatus(gw[s].raw)
    <3>1. q.alone => gw[s].raw = RawAfter(q.kind)
      BY <1>1, <1>2, <1>3, <2>2 DEF FollowInv, ViewsFit
    <3> QED
      BY <2>2, <2>3, <3>1 DEF RawAfter, StatusAfter, NormalizeSubscriptionStatus, LifecycleKinds
  <2>5. Exists(s)
    BY <1>1, <1>2, <1>3, <2>2 DEF FollowInv, OpsHaveRows, LifecycleKinds
  <2>6. s \notin disturbed =>
          TermsFit(s) \/ \E d \in SubCallers \ {c} : op[d].sub = s /\ ChangesTerms(d)
    BY <1>1, <1>3, <2>2, <2>5 DEF FollowInv, RowsFit, ChangesTerms, LifecycleKinds
  <2>7. RowsFit'
    BY <1>1, <1>2, <1>3, <1>6, <1>9, <1>10, <1>11, <2>2, <2>3, <2>4, <2>6, RowStored DEF TermsFit
  <2>8. OpsHaveRows'
    <3>1. x.status # "none" /\ NoSubRow.status = "none"
      BY <2>2, <2>3 DEF StatusAfter, NoSubRow, LifecycleKinds
    <3>2. \A t \in Subs : Exists(t) => Exists(t)'
      BY <1>3, <2>2, <3>1 DEF FollowInv, RowsFit, Exists
    <3> QED
      BY <1>1, <1>6, <1>14, <3>2, RowsRemain
  <2> QED
    BY <1>8, <1>13, <2>7, <2>8, StoreKeeps DEF FollowInv
<1> QED
  BY <1>12, <1>13

(* Whoever else is on a subscription is told; nothing else of an operation  *)
(* changes.                                                                 *)
LEMMA Told ==
  ASSUME NEW ops, ops = [d \in SubCallers |-> ops[d]], \A d \in SubCallers : IsOp(ops[d]), NEW s,
         op' = NotAlone(ops, s)
  PROVE  \A d \in SubCallers :
           /\ op'[d].stage = ops[d].stage /\ op'[d].kind = ops[d].kind
           /\ op'[d].sub = ops[d].sub /\ op'[d].view = ops[d].view
           /\ op'[d].alone <=> ops[d].alone /\ ops[d].sub # s
<1> SUFFICES ASSUME NEW d \in SubCallers
             PROVE  /\ op'[d].stage = ops[d].stage /\ op'[d].kind = ops[d].kind
                    /\ op'[d].sub = ops[d].sub /\ op'[d].view = ops[d].view
                    /\ op'[d].alone <=> ops[d].alone /\ ops[d].sub # s
  OBVIOUS
<1>1. PICK o : o = ops[d]
  OBVIOUS
<1>2. PICK alone : alone = (o.alone /\ o.sub # s)
  OBVIOUS
<1>3. op'[d] = [o EXCEPT !.alone = alone]
  BY <1>1, <1>2 DEF NotAlone
<1>4. IsOp(o)
  BY <1>1
<1> QED
  BY <1>1, <1>2, <1>3, <1>4 DEF IsOp

LEMMA LoadFollows ==
  ASSUME FollowInv, NEW c \in SubCallers, NEW kind \in Kinds, NEW s \in Subs, NEW t \in Terms,
         Load(c, kind, s, t)
  PROVE  FollowInv'
<1>1. PICK o : o = [NoOp EXCEPT !.stage = IF kind = "sync" THEN "read" ELSE "ask",
                                !.kind = kind, !.sub = s, !.terms = t]
  OBVIOUS
<1>2. /\ IsOp(o) /\ o.stage = (IF kind = "sync" THEN "read" ELSE "ask") /\ o.kind = kind
      /\ o.sub = s /\ o.alone
  BY <1>1 DEF IsOp, NoOp
<1>3. PICK began : began = [op EXCEPT ![c] = o]
  OBVIOUS
<1>4. /\ began = [d \in SubCallers |-> began[d]] /\ began[c] = o
      /\ \A d \in SubCallers \ {c} : began[d] = op[d]
      /\ \A d \in SubCallers : IsOp(began[d])
  BY <1>2, <1>3 DEF FollowInv, SubInv, SubTables
<1>5. /\ op[c].stage = "idle" /\ op[c].sub = NoSub /\ kind # "create" /\ Exists(s)
      /\ gw[s].raw # "none" /\ UNCHANGED <<gw, subRow>>
  BY DEF Load, At, FollowInv, OpsFit, RowsFit
<1>6. /\ \A d \in SubCallers :
            /\ op'[d].stage = began[d].stage /\ op'[d].kind = began[d].kind
            /\ op'[d].sub = began[d].sub /\ op'[d].view = began[d].view
            /\ op'[d].alone => began[d].alone
            /\ began[d].alone /\ began[d].sub # s => op'[d].alone
      /\ \/ /\ \A d \in SubCallers : began[d].sub = s => ~op'[d].alone
            /\ disturbed' = disturbed \cup {s}
         \/ /\ \A d \in SubCallers : op[d].sub # s
            /\ \A d \in SubCallers : op'[d].alone <=> began[d].alone
            /\ disturbed' = disturbed
  <2>1. CASE Busy(s)
    <3>1. op' = NotAlone(began, s) /\ disturbed' = disturbed \cup {s}
      BY <1>1, <1>3, <2>1 DEF Load
    <3> QED
      BY <1>4, <3>1, Told
  <2>2. CASE ~Busy(s)
    <3>1. op' = began /\ disturbed' = disturbed
      BY <1>1, <1>3, <2>2 DEF Load
    <3> QED
      BY <2>2, <3>1 DEF Busy
  <2> QED
    BY <2>1, <2>2
<1>7. OpsFit'
  BY <1>2, <1>4, <1>5, <1>6, NoSubAssumption DEF FollowInv, OpsFit, Kinds
<1>8. OpsHaveRows'
  <2> SUFFICES ASSUME NEW d \in SubCallers, op'[d].stage # "idle", op'[d].kind # "create"
               PROVE  subRow'[op'[d].sub] # NoSubRow
    BY DEF OpsHaveRows, Exists
  <2>1. PICK r : r = op'[d].sub
    OBVIOUS
  <2>2. subRow[r] # NoSubRow
    BY <1>2, <1>4, <1>5, <1>6, <2>1 DEF FollowInv, OpsHaveRows, Exists
  <2> QED
    BY <1>5, <2>1, <2>2
<1>9. AloneIsAlone'
  BY <1>2, <1>4, <1>5, <1>6 DEF FollowInv, AloneIsAlone
<1>10. ViewsFit'
  BY <1>2, <1>4, <1>5, <1>6 DEF FollowInv, ViewsFit
<1>11. RowsFit'
  <2>1. ~ChangesStatus(c) /\ ~ChangesTerms(c)
    BY <1>5 DEF ChangesStatus, ChangesTerms
  <2>2. \A d \in SubCallers \ {c} : /\ ChangesStatus(d) <=> ChangesStatus(d)'
                                    /\ ChangesTerms(d) <=> ChangesTerms(d)'
                                    /\ op'[d].sub = op[d].sub
    BY <1>4, <1>6 DEF ChangesStatus, ChangesTerms
  <2>3. \A r \in Subs : /\ Exists(r) <=> Exists(r)'
                        /\ StatusFits(r) <=> StatusFits(r)'
                        /\ TermsFit(r) <=> TermsFit(r)'
    BY <1>5 DEF Exists, StatusFits, TermsFit
  <2>4. disturbed \subseteq disturbed'
    BY <1>6
  <2> QED
    BY <1>5, <2>1, <2>2, <2>3, <2>4 DEF FollowInv, RowsFit
<1> QED
  BY <1>7, <1>8, <1>9, <1>10, <1>11, LoadSubKeeps DEF FollowInv

LEMMA GatewayMovesFollow == ASSUME FollowInv, NEW s \in Subs, GatewayMoves(s) PROVE FollowInv'
<1>1. PICK raw \in RawStatuses :
        /\ gw' = [gw EXCEPT ![s].raw = raw] /\ op' = NotAlone(op, s) /\ subRow' = subRow
        /\ disturbed' = disturbed \cup {s}
  BY DEF GatewayMoves
<1>2. \A d \in SubCallers :
        /\ op'[d].stage = op[d].stage /\ op'[d].kind = op[d].kind
        /\ op'[d].sub = op[d].sub /\ op'[d].view = op[d].view
        /\ op'[d].alone <=> op[d].alone /\ op[d].sub # s
  BY <1>1, Told DEF FollowInv, SubInv, SubTables
<1>3. gw'[s].raw # "none" /\ \A r \in Subs \ {s} : gw'[r] = gw[r]
  BY <1>1 DEF RawStatuses, FollowInv, SubInv, SubTables
<1>4. OpsFit'
  BY <1>2, <1>3 DEF FollowInv, OpsFit
<1>5. OpsHaveRows'
  <2> SUFFICES ASSUME NEW d \in SubCallers, op'[d].stage # "idle", op'[d].kind # "create"
               PROVE  subRow'[op'[d].sub] # NoSubRow
    BY DEF OpsHaveRows, Exists
  <2> QED
    BY <1>1, <1>2 DEF FollowInv, OpsHaveRows, Exists
<1>6. AloneIsAlone'
  BY <1>1, <1>2 DEF FollowInv, AloneIsAlone
<1>7. ViewsFit'
  BY <1>2, <1>3 DEF FollowInv, ViewsFit, OpsFit
<1>8. RowsFit'
  <2>1. \A d \in SubCallers : /\ ChangesStatus(d) <=> ChangesStatus(d)'
                              /\ ChangesTerms(d) <=> ChangesTerms(d)'
    BY <1>2 DEF ChangesStatus, ChangesTerms
  <2>2. \A r \in Subs : Exists(r) <=> Exists(r)'
    BY <1>1 DEF Exists
  <2>3. \A r \in Subs \ {s} : /\ StatusFits(r) <=> StatusFits(r)'
                              /\ TermsFit(r) <=> TermsFit(r)'
    BY <1>1, <1>3 DEF StatusFits, TermsFit
  <2> QED
    BY <1>1, <1>2, <1>3, <2>1, <2>2, <2>3 DEF FollowInv, RowsFit
<1> QED
  BY <1>4, <1>5, <1>6, <1>7, <1>8, GatewayMovesKeeps DEF FollowInv

(* An identifier the gateway has not given out has neither row nor          *)
(* operation.                                                               *)
LEMMA CreateFollows ==
  ASSUME FollowInv, NEW c \in SubCallers, CreateAtGateway(c) PROVE FollowInv'
<1>1. PICK s \in Subs :
        /\ gw[s] = Absent /\ gw' = [gw EXCEPT ![s].raw = "active"]
        /\ op' = [op EXCEPT ![c] = [NoOp EXCEPT !.stage = "store", !.kind = "create", !.sub = s,
                                              !.view = [raw |-> "active", terms |-> FirstTerms]]]
  BY DEF CreateAtGateway
<1>2. PICK o : o = [NoOp EXCEPT !.stage = "store", !.kind = "create", !.sub = s,
                                !.view = [raw |-> "active", terms |-> FirstTerms]]
  OBVIOUS
<1>3. /\ o.stage = "store" /\ o.kind = "create" /\ o.sub = s
      /\ o.view = [raw |-> "active", terms |-> FirstTerms]
  BY <1>2 DEF NoOp
<1>4. /\ op'[c] = o /\ \A d \in SubCallers \ {c} : op'[d] = op[d]
  BY <1>1, <1>2 DEF FollowInv, SubInv, SubTables
<1>5. op[c].stage = "idle" /\ op[c].sub = NoSub /\ UNCHANGED <<subRow, disturbed>>
  BY DEF CreateAtGateway, At, FollowInv, OpsFit
<1>6. /\ gw'[s] = [raw |-> "active", terms |-> FirstTerms] /\ gw[s].raw = "none"
      /\ \A r \in Subs \ {s} : gw'[r] = gw[r]
  BY <1>1 DEF Absent, FollowInv, SubInv, SubTables
<1>7. ~Exists(s) /\ \A d \in SubCallers : op[d].sub # s
  BY <1>6, NoSubAssumption DEF FollowInv, OpsFit, RowsFit
<1>8. OpsFit'
  BY <1>3, <1>4, <1>6 DEF FollowInv, OpsFit
<1>9. OpsHaveRows'
  <2> SUFFICES ASSUME NEW d \in SubCallers, op'[d].stage # "idle", op'[d].kind # "create"
               PROVE  subRow'[op'[d].sub] # NoSubRow
    BY DEF OpsHaveRows, Exists
  <2> QED
    BY <1>3, <1>4, <1>5 DEF FollowInv, OpsHaveRows, Exists
<1>10. AloneIsAlone'
  <2>1. \A d, e \in SubCallers :
          d # e /\ op'[d].sub \in Subs /\ op'[d].sub = op'[e].sub => ~op'[d].alone
    BY <1>3, <1>4, <1>7 DEF FollowInv, AloneIsAlone
  <2>2. o.alone
    BY <1>2 DEF NoOp
  <2>3. \A d \in SubCallers : op'[d].sub \in Subs \ disturbed' => op'[d].alone
    BY <1>4, <1>5, <2>2 DEF FollowInv, AloneIsAlone
  <2> QED
    BY <2>1, <2>3 DEF AloneIsAlone
<1>11. ViewsFit'
  <2>1. \A d \in SubCallers \ {c} : op[d].stage = "store" => op[d].sub \in Subs \ {s}
    BY <1>7 DEF FollowInv, OpsFit
  <2> QED
    BY <1>3, <1>4, <1>6, <2>1 DEF FollowInv, ViewsFit, LifecycleKinds
<1>12. RowsFit'
  <2>1. ~ChangesStatus(c) /\ ~ChangesTerms(c)
    BY <1>5 DEF ChangesStatus, ChangesTerms
  <2>2. \A d \in SubCallers \ {c} : /\ ChangesStatus(d) <=> ChangesStatus(d)'
                                    /\ ChangesTerms(d) <=> ChangesTerms(d)'
                                    /\ op'[d].sub = op[d].sub
    BY <1>4 DEF ChangesStatus, ChangesTerms
  <2>3. \A r \in Subs : Exists(r) <=> Exists(r)'
    BY <1>5 DEF Exists
  <2>4. \A r \in Subs \ {s} : /\ StatusFits(r) <=> StatusFits(r)'
                              /\ TermsFit(r) <=> TermsFit(r)'
    BY <1>5, <1>6 DEF StatusFits, TermsFit
  <2> QED
    BY <1>5, <1>6, <1>7, <2>1, <2>2, <2>3, <2>4 DEF FollowInv, RowsFit
<1> QED
  BY <1>8, <1>9, <1>10, <1>11, <1>12, CreateAtGatewayKeeps DEF FollowInv

(* An order the gateway carries out is owed to the row, and any other       *)
(* operation on that subscription is not alone with it.                     *)
LEMMA AskFollows == ASSUME FollowInv, NEW c \in SubCallers, AskGateway(c) PROVE FollowInv'
<1>1. PICK q : q = op[c]
  OBVIOUS
<1>2. PICK s : s = q.sub
  OBVIOUS
<1>3. /\ IsOp(q) /\ q.stage = "ask" /\ s \in Subs /\ q.kind \in LifecycleKinds \cup {"update"}
      /\ gw[s].raw # "none" /\ UNCHANGED <<subRow, disturbed>>
  BY <1>1, <1>2 DEF AskGateway, At, FollowInv, SubInv, SubTables, OpsFit
<1>4. ~ChangesStatus(c) /\ ~ChangesTerms(c)
  BY <1>1, <1>3 DEF ChangesStatus, ChangesTerms
<1>5. CASE ~GatewayAccepts(s)
  <2>1. op' = [op EXCEPT ![c] = NoOp] /\ gw' = gw
    BY <1>1, <1>2, <1>5 DEF AskGateway, Done
  <2>2. OpsFit' /\ AloneIsAlone' /\ ViewsFit'
    BY <1>3, <2>1, NoOpAgain, GoesOn
  <2>3. OpsHaveRows'
    BY <1>3, <2>1, NoOpAgain, RowsRemain DEF Exists
  <2>4. RowsFit'
    BY <1>3, <1>4, <2>1, NoOpAgain, RowsWait
  <2> QED
    BY <2>2, <2>3, <2>4, AskGatewayKeepsSub DEF FollowInv
<1>6. CASE GatewayAccepts(s)
  <2>1. PICK o : o = [q EXCEPT !.stage = IF q.kind = "update" THEN "read" ELSE "store",
                               !.terms = FirstTerms]
    OBVIOUS
  <2>2. /\ o.stage = (IF q.kind = "update" THEN "read" ELSE "store")
        /\ o.kind = q.kind /\ o.sub = s /\ o.alone = q.alone
    BY <1>2, <1>3, <2>1 DEF IsOp
  <2>3. op' = [op EXCEPT ![c] = o]
    BY <1>1, <1>2, <1>3, <1>6, <2>1 DEF AskGateway, FollowInv, SubInv, SubTables, IsOp
  <2>4. op'[c] = o /\ \A d \in SubCallers \ {c} : op'[d] = op[d]
    BY <2>3 DEF FollowInv, SubInv, SubTables
  <2>5. gw' = IF q.kind = "update" THEN [gw EXCEPT ![s].terms = q.terms]
                                   ELSE [gw EXCEPT ![s].raw = RawAfter(q.kind)]
    BY <1>1, <1>2, <1>6 DEF AskGateway
  <2>6. /\ \A r \in Subs \ {s} : gw'[r] = gw[r]
        /\ q.kind = "update" => gw'[s].raw = gw[s].raw
        /\ q.kind # "update" => gw'[s].raw = RawAfter(q.kind) /\ gw'[s].terms = gw[s].terms
    BY <1>3, <2>5 DEF FollowInv, SubInv, SubTables
  <2>7. gw'[s].raw # "none"
    BY <1>3, <2>6 DEF RawAfter, LifecycleKinds
  <2>8. OpsFit'
    BY <1>3, <2>2, <2>4, <2>6, <2>7 DEF FollowInv, OpsFit
  <2>9. OpsHaveRows'
    BY <1>1, <1>2, <1>3, <2>2, <2>3, RowsRemain DEF Exists
  <2>10. \A d \in SubCallers \ {c} : op[d].sub = s => ~op[d].alone
    BY <1>1, <1>2, <1>3 DEF FollowInv, AloneIsAlone
  <2>11. AloneIsAlone'
    BY <1>1, <1>2, <1>3, <2>2, <2>4, <2>10 DEF FollowInv, AloneIsAlone
  <2>12. ViewsFit'
    <3> SUFFICES ASSUME NEW d \in SubCallers, op'[d].alone, op'[d].stage = "store"
                 PROVE  IF op'[d].kind \in LifecycleKinds
                          THEN gw'[op'[d].sub].raw = RawAfter(op'[d].kind)
                          ELSE op'[d].view = gw'[op'[d].sub]
      BY DEF ViewsFit
    <3>1. CASE d = c
      BY <1>3, <2>2, <2>4, <2>6, <3>1 DEF LifecycleKinds
    <3>2. CASE d # c
      <4>1. op'[d] = op[d] /\ op[d].sub \in Subs \ {s}
        BY <2>4, <2>10, <3>2 DEF FollowInv, OpsFit
      <4>2. PICK r : r = op[d].sub
        OBVIOUS
      <4>3. gw'[r] = gw[r] /\ op'[d].sub = r
        BY <2>6, <4>1, <4>2
      <4> QED
        BY <4>1, <4>2, <4>3 DEF FollowInv, ViewsFit
    <3> QED
      BY <3>1, <3>2
  <2>13. RowsFit'
    <3>1. \A d \in SubCallers \ {c} : /\ ChangesStatus(d) <=> ChangesStatus(d)'
                                      /\ ChangesTerms(d) <=> ChangesTerms(d)'
                                      /\ op'[d].sub = op[d].sub
      BY <2>4 DEF ChangesStatus, ChangesTerms
    <3>2. \A r \in Subs : Exists(r) <=> Exists(r)'
      BY <1>3 DEF Exists
    <3>3. \A r \in Subs \ {s} : /\ StatusFits(r) <=> StatusFits(r)'
                                /\ TermsFit(r) <=> TermsFit(r)'
      BY <1>3, <2>6 DEF StatusFits, TermsFit
    <3>4. /\ q.kind = "update" => (StatusFits(s) <=> StatusFits(s)') /\ ChangesTerms(c)'
          /\ q.kind # "update" => (TermsFit(s) <=> TermsFit(s)') /\ ChangesStatus(c)'
      BY <1>3, <2>2, <2>4, <2>6 DEF StatusFits, TermsFit, ChangesStatus, ChangesTerms
    <3>5. op'[c].sub = s
      BY <2>2, <2>4
    <3>6. ASSUME NEW r \in Subs, Exists(r), r \notin disturbed
          PROVE  /\ StatusFits(r)' \/ \E d \in SubCallers : op'[d].sub = r /\ ChangesStatus(d)'
                 /\ TermsFit(r)' \/ \E d \in SubCallers : op'[d].sub = r /\ ChangesTerms(d)'
      <4>1. /\ StatusFits(r) \/ \E d \in SubCallers \ {c} : op[d].sub = r /\ ChangesStatus(d)
            /\ TermsFit(r) \/ \E d \in SubCallers \ {c} : op[d].sub = r /\ ChangesTerms(d)
        BY <1>4, <3>6 DEF FollowInv, RowsFit
      <4> QED
        BY <3>1, <3>3, <3>4, <3>5, <4>1
    <3>7. \A r \in Subs : Exists(r) => gw'[r].raw # "none"
      BY <2>6, <2>7 DEF FollowInv, RowsFit
    <3> QED
      BY <1>3, <3>2, <3>6, <3>7 DEF FollowInv, RowsFit
  <2> QED
    BY <2>8, <2>9, <2>11, <2>12, <2>13, AskGatewayKeepsSub DEF FollowInv
<1> QED
  BY <1>5, <1>6

LEMMA FollowStep == FollowInv /\ [SubNext]_subVars => FollowInv'
<1>1. ASSUME FollowInv, UNCHANGED subVars PROVE FollowInv'
  <2>1. SubInv'
    BY <1>1, SubStep DEF FollowInv
  <2>2. OpsFit' /\ OpsHaveRows' /\ AloneIsAlone'
    BY <1>1 DEF subVars, FollowInv, OpsFit, OpsHaveRows, AloneIsAlone, Exists
  <2>3. ViewsFit'
    BY <1>1 DEF subVars, FollowInv, ViewsFit
  <2>4. RowsFit'
    BY <1>1 DEF subVars, FollowInv, RowsFit, Exists, StatusFits, TermsFit, ChangesStatus, ChangesTerms
  <2> QED
    BY <2>1, <2>2, <2>3, <2>4 DEF FollowInv
<1> QED
  BY <1>1, GatewayMovesFollow, CreateFollows, LoadFollows, AskFollows, GetFollows, StoringFollows,
     PublishFollows, AbortFollows DEF SubNext

(* A row nothing is under way for says what the gateway says, in status and *)
(* terms, unless something disturbed it, and the operations that end alone  *)
(* with it leave it so, for any number of subscriptions and requests        *)
(* (ApplyGateway, SetStatus, Update, Sync).                                 *)
THEOREM RowsFollowTheGateway == SubSpec => []RowFollowsGateway
<1>1. FollowInv => RowFollowsGateway
  BY DEF FollowInv, RowsFit, RowFollowsGateway, Busy, StatusFits, TermsFit
<1> QED
  BY <1>1, InitFollows, FollowStep, PTL DEF SubSpec

-----------------------------------------------------------------------------
(* Accounts: any number of operators, accounts and payments                 *)

IsTx(t) == t = [stage |-> t.stage, target |-> t.target, insert |-> t.insert, wish |-> t.wish,
                env |-> t.env, saw |-> t.saw, wrote |-> t.wrote, row |-> t.row, alone |-> t.alone]

AccountTables ==
  /\ account = [a \in Accounts |-> account[a]]
  /\ tx = [o \in Operators |-> tx[o]]
  /\ \A o \in Operators : IsTx(tx[o])

(* A row is written and not committed only between WriteRow and Commit, for *)
(* a known account; if it is a default, the index holds with what the       *)
(* transaction sees, and no other transaction has written a default for the *)
(* same environment.                                                        *)
WritesFit ==
  \A o \in Operators :
    /\ tx[o].row # NoAccountRow => tx[o].stage = "commit"
    /\ \A env \in Environments, a \in Accounts \ {tx[o].target} :
         DefaultOf(tx[o].row, env) => ~DefaultOf(Seen(o, a), env)
    /\ \A q \in Operators \ {o}, env \in Environments :
         ~(DefaultOf(tx[o].row, env) /\ DefaultOf(tx[q].row, env))

(* A payment on its way was let through for the environment it goes to.     *)
PayersFit ==
  /\ payer = [p \in Payers |-> payer[p]]
  /\ \A p \in Payers :
       /\ payer[p] = [stage |-> payer[p].stage, mode |-> payer[p].mode,
                      account |-> payer[p].account, env |-> payer[p].env]
       /\ payer[p].stage \in {"insert", "charge"} => payer[p].mode = ExpectedKeyMode(payer[p].env)

AccountsInv ==
  AccountTables /\ WritesFit /\ OneDefaultPerEnvironment /\ PayersFit /\ KeysKeepToTheirEnvironment

LEMMA NoDefault == \A env : ~DefaultOf(NoAccountRow, env)
BY DEF DefaultOf

LEMMA NoTxFacts ==
  IsTx(NoTx) /\ NoTx.stage = "none" /\ NoTx.row = NoAccountRow /\ NoTx.wrote = {}
BY DEF IsTx, NoTx

LEMMA InitAccounts == AccountsInit => AccountsInv
<1> SUFFICES ASSUME AccountsInit PROVE AccountsInv
  OBVIOUS
<1>1. AccountTables
  BY NoTxFacts DEF AccountsInit, AccountTables
<1>2. WritesFit
  BY NoTxFacts, NoDefault DEF AccountsInit, WritesFit
<1>3. OneDefaultPerEnvironment
  <2> SUFFICES ASSUME NEW a \in Accounts, NEW b \in Accounts, NEW env \in Environments,
                      DefaultOf(account[a], env), DefaultOf(account[b], env)
               PROVE  a = b
    BY DEF OneDefaultPerEnvironment
  <2>1. \A x \in Accounts : account[x] = IF x \in DOMAIN FirstAccounts THEN FirstAccounts[x] ELSE NoAccountRow
    BY DEF AccountsInit
  <2>2. /\ a \in DOMAIN FirstAccounts /\ b \in DOMAIN FirstAccounts
        /\ DefaultOf(FirstAccounts[a], env) /\ DefaultOf(FirstAccounts[b], env)
    BY <2>1, NoDefault
  <2> QED
    BY <2>2, FirstAccountsAssumption DEF DefaultOf
<1>4. PayersFit /\ KeysKeepToTheirEnvironment
  BY DEF AccountsInit, PayersFit, NoPayment, KeysKeepToTheirEnvironment
<1> QED
  BY <1>1, <1>2, <1>3, <1>4 DEF AccountsInv

LEMMA PayersKept ==
  PayersFit /\ KeysKeepToTheirEnvironment /\ UNCHANGED <<payer, reached>>
    => PayersFit' /\ KeysKeepToTheirEnvironment'
BY DEF PayersFit, KeysKeepToTheirEnvironment

(* No transaction writes a row, and none forgets what it wrote but one that *)
(* ends.                                                                    *)
LEMMA NothingWritten ==
  ASSUME AccountsInv, AccountTables',
         \A a \in Accounts, env \in Environments : DefaultOf(account'[a], env) => DefaultOf(account[a], env),
         \A o \in Operators :
           \/ tx'[o].row = NoAccountRow
           \/ tx'[o].row = tx[o].row /\ tx'[o].wrote = tx[o].wrote
              /\ tx'[o].target = tx[o].target /\ tx'[o].stage = tx[o].stage,
         UNCHANGED <<payer, reached>>
  PROVE  AccountsInv'
<1>1. \A o \in Operators, a \in Accounts, env \in Environments :
        tx'[o].wrote = tx[o].wrote /\ tx'[o].target = tx[o].target /\ DefaultOf(Seen(o, a), env)'
          => DefaultOf(Seen(o, a), env)
  <2> SUFFICES ASSUME NEW o \in Operators, NEW a \in Accounts, NEW env \in Environments,
                      tx'[o].wrote = tx[o].wrote, tx'[o].target = tx[o].target,
                      DefaultOf(Seen(o, a), env)'
               PROVE  DefaultOf(Seen(o, a), env)
    OBVIOUS
  <2>1. CASE a \in tx[o].wrote /\ a # tx[o].target
    BY <2>1 DEF Seen, DefaultOf
  <2>2. CASE ~(a \in tx[o].wrote /\ a # tx[o].target)
    <3>1. DefaultOf(account'[a], env)
      BY <2>2 DEF Seen, DefaultOf
    <3> QED
      BY <2>2, <3>1 DEF Seen
  <2> QED
    BY <2>1, <2>2
<1>2. WritesFit'
  <2> SUFFICES ASSUME NEW o \in Operators
               PROVE  /\ tx'[o].row # NoAccountRow => tx'[o].stage = "commit"
                      /\ \A env \in Environments, a \in Accounts \ {tx'[o].target} :
                           DefaultOf(tx'[o].row, env) => ~DefaultOf(Seen(o, a), env)'
                      /\ \A q \in Operators \ {o}, env \in Environments :
                           ~(DefaultOf(tx'[o].row, env) /\ DefaultOf(tx'[q].row, env))
    BY DEF WritesFit, DefaultOf
  <2>1. \A q \in Operators : \A env : DefaultOf(tx'[q].row, env) => DefaultOf(tx[q].row, env)
    BY NoDefault
  <2>2. CASE tx'[o].row = NoAccountRow
    BY <2>2, NoDefault
  <2>3. CASE tx'[o].row # NoAccountRow
    BY <1>1, <2>1, <2>3 DEF AccountsInv, WritesFit
  <2> QED
    BY <2>2, <2>3
<1>3. OneDefaultPerEnvironment'
  BY DEF AccountsInv, OneDefaultPerEnvironment, DefaultOf
<1> QED
  BY <1>2, <1>3, PayersKept DEF AccountsInv

(* A transaction takes a step that writes no row.                           *)
LEMMA TxMoves ==
  ASSUME AccountsInv, NEW o \in Operators, NEW t, IsTx(t), t.row = NoAccountRow,
         tx' = [tx EXCEPT ![o] = t], UNCHANGED <<account, payer, reached>>
  PROVE  AccountsInv'
<1>1. /\ tx' = [q \in Operators |-> tx'[q]] /\ tx'[o] = t
      /\ \A q \in Operators \ {o} : tx'[q] = tx[q]
  BY DEF AccountsInv, AccountTables
<1>2. AccountTables'
  BY <1>1 DEF AccountsInv, AccountTables
<1> QED
  BY <1>1, <1>2, NothingWritten

LEMMA BeginTxKeeps ==
  ASSUME AccountsInv, NEW o \in Operators, NEW t, IsTx(t), t.row = NoAccountRow, Begin(o, t),
         UNCHANGED <<account, payer, reached>>
  PROVE  AccountsInv'
<1>1. \A q \in Operators :
        tx'[q] = IF q = o THEN [t EXCEPT !.alone = Others(o) = {}]
                 ELSE [tx[q] EXCEPT !.alone = @ /\ ~Active(q)]
  BY DEF Begin
<1>2. \A q \in Operators \ {o} :
        /\ IsTx(tx'[q])
        /\ tx'[q].row = tx[q].row /\ tx'[q].wrote = tx[q].wrote
        /\ tx'[q].target = tx[q].target /\ tx'[q].stage = tx[q].stage
  <2> TAKE q \in Operators \ {o}
  <2>1. PICK alone : alone = (tx[q].alone /\ ~Active(q))
    OBVIOUS
  <2>2. tx'[q] = [tx[q] EXCEPT !.alone = alone] /\ IsTx(tx[q])
    BY <1>1, <2>1 DEF AccountsInv, AccountTables
  <2> QED
    BY <2>2 DEF IsTx
<1>3. IsTx(tx'[o]) /\ tx'[o].row = NoAccountRow
  BY <1>1 DEF IsTx
<1>4. AccountTables'
  BY <1>2, <1>3 DEF AccountsInv, AccountTables, Begin
<1> QED
  BY <1>2, <1>3, <1>4, NothingWritten

LEMMA CreateAccountKeeps ==
  ASSUME AccountsInv, NEW o \in Operators, NEW a \in Accounts, NEW env \in Environments,
         NEW d \in BOOLEAN, CreateAccount(o, a, env, d)
  PROVE  AccountsInv'
<1>1. PICK t : t = [NoTx EXCEPT !.target = a, !.insert = TRUE, !.env = env,
                 !.wish = [env |-> env, default |-> IF d THEN "yes" ELSE "no"],
                 !.stage = IF d THEN "snapshot" ELSE "write"]
  OBVIOUS
<1>2. IsTx(t) /\ t.row = NoAccountRow
  BY <1>1 DEF IsTx, NoTx
<1> QED
  BY <1>1, <1>2, BeginTxKeeps DEF CreateAccount

LEMMA UpdateAccountKeeps ==
  ASSUME AccountsInv, NEW o \in Operators, NEW a \in Accounts, NEW wish \in Wishes,
         UpdateAccount(o, a, wish)
  PROVE  AccountsInv'
<1>1. PICK t : t = [NoTx EXCEPT !.target = a, !.wish = wish,
                      !.stage = IF wish.default = "yes" THEN "get" ELSE "write"]
  OBVIOUS
<1>2. IsTx(t) /\ t.row = NoAccountRow
  BY <1>1 DEF IsTx, NoTx
<1> QED
  BY <1>1, <1>2, BeginTxKeeps DEF UpdateAccount

LEMMA EndKeeps ==
  ASSUME AccountsInv, NEW o \in Operators, End(o), UNCHANGED <<account, payer, reached>>
  PROVE  AccountsInv'
BY NoTxFacts, TxMoves DEF End

(* The steps that only read, or clear the old default.                      *)
LEMMA PromotionKeeps ==
  ASSUME AccountsInv, NEW o \in Operators, GetCurrent(o) \/ ClearSnapshot(o) \/ ClearDefault(o)
  PROVE  AccountsInv'
<1>1. PICK q : q = tx[o]
  OBVIOUS
<1>2. IsTx(q) /\ tx = [x \in Operators |-> tx[x]] /\ UNCHANGED <<account, payer, reached>>
  BY <1>1 DEF AccountsInv, AccountTables, GetCurrent, ClearSnapshot, ClearDefault
<1>3. q.stage # "commit" => q.row = NoAccountRow
  BY <1>1 DEF AccountsInv, WritesFit
<1>4. CASE GetCurrent(o)
  <2>1. q.stage = "get"
    BY <1>1, <1>4 DEF GetCurrent
  <2>2. CASE End(o)
    BY <1>2, <2>2, EndKeeps
  <2>3. CASE ~End(o)
    <3>1. PICK env : env = IF q.wish.env = "keep" THEN account[q.target].env ELSE q.wish.env
      OBVIOUS
    <3>2. PICK t : t = [q EXCEPT !.stage = "snapshot", !.env = env]
      OBVIOUS
    <3>3. tx' = [tx EXCEPT ![o] = t]
      BY <1>1, <1>2, <1>4, <2>3, <3>1, <3>2 DEF GetCurrent, IsTx
    <3>4. IsTx(t) /\ t.row = NoAccountRow
      BY <1>2, <1>3, <2>1, <3>2 DEF IsTx
    <3> QED
      BY <1>2, <3>3, <3>4, TxMoves
  <2> QED
    BY <2>2, <2>3
<1>5. CASE ClearSnapshot(o)
  <2>1. PICK saw : saw = CurrentDefaults(o)
    OBVIOUS
  <2>2. PICK t : t = [q EXCEPT !.stage = "clear", !.saw = saw]
    OBVIOUS
  <2>3. tx' = [tx EXCEPT ![o] = t] /\ q.stage = "snapshot"
    BY <1>1, <1>2, <1>5, <2>1, <2>2 DEF ClearSnapshot, IsTx
  <2>4. IsTx(t) /\ t.row = NoAccountRow
    BY <1>2, <1>3, <2>2, <2>3 DEF IsTx
  <2> QED
    BY <1>2, <2>3, <2>4, TxMoves
<1>6. CASE ClearDefault(o)
  <2>1. PICK wrote : wrote = {a \in q.saw : DefaultOf(account[a], q.env)}
    OBVIOUS
  <2>2. PICK t : t = [q EXCEPT !.stage = "write", !.saw = {}, !.wrote = wrote]
    OBVIOUS
  <2>3. tx' = [tx EXCEPT ![o] = t] /\ q.stage = "clear"
    BY <1>1, <1>2, <1>6, <2>1, <2>2 DEF ClearDefault, IsTx
  <2>4. IsTx(t) /\ t.row = NoAccountRow
    BY <1>2, <1>3, <2>2, <2>3 DEF IsTx
  <2> QED
    BY <1>2, <2>3, <2>4, TxMoves
<1> QED
  BY <1>4, <1>5, <1>6

(* What the index let through fits what is there and what is undecided.     *)
LEMMA WriteRowKeeps == ASSUME AccountsInv, NEW o \in Operators, WriteRow(o) PROVE AccountsInv'
<1>1. PICK q : q = tx[o]
  OBVIOUS
<1>2. PICK rec : rec = NewRow(o)
  OBVIOUS
<1>3. /\ IsTx(q) /\ tx = [x \in Operators |-> tx[x]] /\ q.stage = "write"
      /\ UNCHANGED <<account, payer, reached>>
  BY <1>1 DEF AccountsInv, AccountTables, WriteRow
<1>4. CASE End(o)
  BY <1>3, <1>4, EndKeeps
<1>5. CASE ~End(o)
  <2>1. PICK t : t = [q EXCEPT !.stage = "commit", !.row = rec, !.wrote = @ \cup {q.target}]
    OBVIOUS
  <2>2. tx' = [tx EXCEPT ![o] = t]
    BY <1>1, <1>2, <1>3, <1>5, <2>1 DEF WriteRow, IsTx
  <2>3. rec.default => ~Undecided(o, rec.env) /\ ~Taken(o, rec.env)
    BY <1>1, <1>2, <1>5 DEF WriteRow
  <2>4. /\ IsTx(t) /\ t.stage = "commit" /\ t.row = rec /\ t.target = q.target
        /\ t.wrote = q.wrote \cup {q.target}
    BY <1>3, <2>1 DEF IsTx
  <2>5. /\ tx' = [x \in Operators |-> tx'[x]] /\ tx'[o] = t
        /\ \A x \in Operators \ {o} : tx'[x] = tx[x]
    BY <2>2 DEF AccountsInv, AccountTables
  <2>6. AccountTables'
    BY <1>3, <2>4, <2>5 DEF AccountsInv, AccountTables
  <2>7. \A a \in Accounts \ {q.target} : Seen(o, a)' = Seen(o, a)
    BY <1>1, <1>3, <2>4, <2>5 DEF Seen
  <2>8. \A x \in Operators \ {o}, a \in Accounts : Seen(x, a)' = Seen(x, a)
    BY <1>3, <2>5 DEF Seen
  <2>9. \A env \in Environments, a \in Accounts \ {q.target} :
          DefaultOf(rec, env) => ~DefaultOf(Seen(o, a), env)
    BY <1>1, <2>3 DEF DefaultOf, Taken
  <2>10. \A env \in Environments, x \in Operators \ {o} :
           ~(DefaultOf(rec, env) /\ DefaultOf(tx[x].row, env))
    <3> SUFFICES ASSUME NEW env \in Environments, NEW x \in Operators \ {o},
                        DefaultOf(rec, env), DefaultOf(tx[x].row, env)
                 PROVE  FALSE
      OBVIOUS
    <3>1. tx[x].row # NoAccountRow /\ rec.default /\ rec.env = env
      BY DEF DefaultOf
    <3>2. x \in Others(o)
      BY <3>1 DEF AccountsInv, WritesFit, Others, Active
    <3> QED
      BY <2>3, <3>1, <3>2 DEF Undecided
  <2>11. WritesFit'
    <3>1. ASSUME NEW x \in Operators \ {o}
          PROVE  /\ tx'[x].row # NoAccountRow => tx'[x].stage = "commit"
                 /\ \A env \in Environments, a \in Accounts \ {tx'[x].target} :
                      DefaultOf(tx'[x].row, env) => ~DefaultOf(Seen(x, a)', env)
                 /\ \A y \in Operators \ {x}, env \in Environments :
                      ~(DefaultOf(tx'[x].row, env) /\ DefaultOf(tx'[y].row, env))
      BY <2>4, <2>5, <2>8, <2>10 DEF AccountsInv, WritesFit
    <3>2. /\ tx'[o].row # NoAccountRow => tx'[o].stage = "commit"
          /\ \A env \in Environments, a \in Accounts \ {tx'[o].target} :
               DefaultOf(tx'[o].row, env) => ~DefaultOf(Seen(o, a)', env)
          /\ \A y \in Operators \ {o}, env \in Environments :
               ~(DefaultOf(tx'[o].row, env) /\ DefaultOf(tx'[y].row, env))
      BY <2>4, <2>5, <2>7, <2>9, <2>10
    <3> QED
      BY <3>1, <3>2 DEF WritesFit, DefaultOf
  <2>12. OneDefaultPerEnvironment'
    BY <1>3 DEF AccountsInv, OneDefaultPerEnvironment, DefaultOf
  <2> QED
    BY <1>3, <2>6, <2>11, <2>12, PayersKept DEF AccountsInv
<1> QED
  BY <1>4, <1>5

LEMMA CommitKeeps == ASSUME AccountsInv, NEW o \in Operators, Commit(o) PROVE AccountsInv'
<1>1. PICK t : t = tx[o]
  OBVIOUS
<1>2. /\ \A a \in Accounts : account'[a] = IF a = t.target THEN t.row ELSE Seen(o, a)
      /\ account' = [a \in Accounts |-> account'[a]]
      /\ tx' = [tx EXCEPT ![o] = NoTx] /\ UNCHANGED <<payer, reached>>
  BY <1>1 DEF Commit, End
<1>3. /\ tx' = [x \in Operators |-> tx'[x]] /\ tx'[o] = NoTx
      /\ \A x \in Operators \ {o} : tx'[x] = tx[x]
  BY <1>2 DEF AccountsInv, AccountTables
<1>4. AccountTables'
  BY <1>2, <1>3, NoTxFacts DEF AccountsInv, AccountTables
<1>5. \A x \in Operators, a \in Accounts, env \in Environments :
        DefaultOf(Seen(x, a), env) => DefaultOf(account[a], env)
  BY DEF Seen, DefaultOf
<1>6. OneDefaultPerEnvironment'
  <2> SUFFICES ASSUME NEW a \in Accounts, NEW b \in Accounts, NEW env \in Environments,
                      DefaultOf(account'[a], env), DefaultOf(account'[b], env)
               PROVE  a = b
    BY DEF OneDefaultPerEnvironment, DefaultOf
  <2>1. CASE a # t.target /\ b # t.target
    BY <1>2, <1>5, <2>1 DEF AccountsInv, OneDefaultPerEnvironment
  <2>2. CASE a = t.target \/ b = t.target
    BY <1>1, <1>2, <2>2 DEF AccountsInv, WritesFit
  <2> QED
    BY <2>1, <2>2
<1>7. WritesFit'
  <2>1. ASSUME NEW x \in Operators \ {o}, NEW env \in Environments,
               NEW a \in Accounts \ {tx[x].target}, DefaultOf(tx[x].row, env)
        PROVE  ~DefaultOf(Seen(x, a)', env)
    <3> SUFFICES ASSUME DefaultOf(Seen(x, a)', env) PROVE FALSE
      OBVIOUS
    <3>1. DefaultOf(account'[a], env) /\ ~(a \in tx[x].wrote /\ a # tx[x].target)
      BY <1>3 DEF Seen, DefaultOf
    <3>2. CASE a = t.target
      BY <1>1, <1>2, <2>1, <3>1, <3>2 DEF AccountsInv, WritesFit
    <3>3. CASE a # t.target
      <4>1. DefaultOf(account[a], env)
        BY <1>2, <1>5, <3>1, <3>3
      <4>2. Seen(x, a) = account[a]
        BY <3>1 DEF Seen
      <4> QED
        BY <2>1, <4>1, <4>2 DEF AccountsInv, WritesFit
    <3> QED
      BY <3>2, <3>3
  <2>2. ASSUME NEW x \in Operators \ {o}
        PROVE  /\ tx'[x].row # NoAccountRow => tx'[x].stage = "commit"
               /\ \A env \in Environments, a \in Accounts \ {tx'[x].target} :
                    DefaultOf(tx'[x].row, env) => ~DefaultOf(Seen(x, a)', env)
               /\ \A y \in Operators \ {x}, env \in Environments :
                    ~(DefaultOf(tx'[x].row, env) /\ DefaultOf(tx'[y].row, env))
    BY <1>3, <2>1, NoTxFacts, NoDefault DEF AccountsInv, WritesFit
  <2>3. /\ tx'[o].row = NoAccountRow
        /\ \A env : ~DefaultOf(tx'[o].row, env)
    BY <1>3, NoTxFacts, NoDefault
  <2> QED
    BY <2>2, <2>3 DEF WritesFit, DefaultOf
<1> QED
  BY <1>2, <1>4, <1>6, <1>7, PayersKept DEF AccountsInv

LEMMA DeleteKeeps ==
  ASSUME AccountsInv, NEW o \in Operators, NEW a \in Accounts, DeleteAccount(o, a)
  PROVE  AccountsInv'
<1>1. /\ account' = [account EXCEPT ![a] = NoAccountRow] /\ UNCHANGED <<payer, reached>>
      /\ tx' = [q \in Operators |-> [tx[q] EXCEPT !.alone = @ /\ ~Active(q)]]
  BY DEF DeleteAccount
<1>2. \A q \in Operators :
        /\ IsTx(tx'[q])
        /\ tx'[q].row = tx[q].row /\ tx'[q].wrote = tx[q].wrote
        /\ tx'[q].target = tx[q].target /\ tx'[q].stage = tx[q].stage
  BY <1>1 DEF AccountsInv, AccountTables, IsTx
<1>3. AccountTables'
  BY <1>1, <1>2 DEF AccountsInv, AccountTables
<1>4. \A b \in Accounts, env \in Environments :
        DefaultOf(account'[b], env) => DefaultOf(account[b], env)
  BY <1>1, NoDefault DEF AccountsInv, AccountTables
<1> QED
  BY <1>1, <1>2, <1>3, <1>4, NothingWritten

-----------------------------------------------------------------------------
(* Payments only read accounts. *)

LEMMA PayerMoves ==
  ASSUME AccountsInv, NEW p \in Payers, NEW k, payer' = [payer EXCEPT ![p] = k],
         k = [stage |-> k.stage, mode |-> k.mode, account |-> k.account, env |-> k.env],
         k.stage \in {"insert", "charge"} => k.mode = ExpectedKeyMode(k.env),
         \A r \in reached' \ reached : r[1] = ExpectedKeyMode(r[2]),
         UNCHANGED <<account, tx>>
  PROVE  AccountsInv'
<1>1. PayersFit'
  BY DEF AccountsInv, PayersFit
<1>2. KeysKeepToTheirEnvironment'
  BY DEF AccountsInv, KeysKeepToTheirEnvironment
<1>3. AccountTables' /\ WritesFit' /\ OneDefaultPerEnvironment'
  BY DEF AccountsInv, AccountTables, WritesFit, OneDefaultPerEnvironment, Seen, DefaultOf
<1> QED
  BY <1>1, <1>2, <1>3 DEF AccountsInv

LEMMA PaymentKeeps ==
  ASSUME AccountsInv, NEW p \in Payers,
         (\E mode \in Modes : AccountFor(p, mode)) \/ InsertPayment(p) \/ Charge(p)
  PROVE  AccountsInv'
<1>1. PICK q : q = payer[p]
  OBVIOUS
<1>2. /\ q = [stage |-> q.stage, mode |-> q.mode, account |-> q.account, env |-> q.env]
      /\ payer = [x \in Payers |-> payer[x]]
      /\ q.stage \in {"insert", "charge"} => q.mode = ExpectedKeyMode(q.env)
  BY <1>1 DEF AccountsInv, PayersFit
<1>3. PICK done : done = AnsweredPayment(p)
  OBVIOUS
<1>4. /\ done = [stage |-> done.stage, mode |-> done.mode, account |-> done.account, env |-> done.env]
      /\ done.stage = "done"
  BY <1>3 DEF AnsweredPayment, NoPayment
<1>5. ASSUME NEW mode \in Modes, AccountFor(p, mode) PROVE AccountsInv'
  <2>1. PICK a \in Accounts :
          /\ ModeAllowed(mode, account[a].env)
          /\ payer' = [payer EXCEPT ![p] = [stage |-> "insert", mode |-> mode,
                                            account |-> a, env |-> account[a].env]]
    BY <1>5 DEF AccountFor
  <2>2. PICK k : k = [stage |-> "insert", mode |-> mode, account |-> a, env |-> account[a].env]
    OBVIOUS
  <2>3. UNCHANGED <<account, tx, reached>>
    BY <1>5 DEF AccountFor
  <2> QED
    BY <2>1, <2>2, <2>3, PayerMoves DEF ModeAllowed
<1>6. CASE InsertPayment(p)
  <2>1. UNCHANGED <<account, tx, reached>> /\ q.stage = "insert"
    BY <1>1, <1>6 DEF InsertPayment
  <2>2. PICK k : k = [q EXCEPT !.stage = "charge"]
    OBVIOUS
  <2>3. /\ k = [stage |-> k.stage, mode |-> k.mode, account |-> k.account, env |-> k.env]
        /\ k.mode = ExpectedKeyMode(k.env)
    BY <1>2, <2>1, <2>2
  <2>4. payer' = [payer EXCEPT ![p] = k] \/ payer' = [payer EXCEPT ![p] = done]
    BY <1>1, <1>2, <1>3, <1>6, <2>2 DEF InsertPayment
  <2> QED
    BY <1>4, <2>1, <2>3, <2>4, PayerMoves
<1>7. CASE Charge(p)
  <2>1. /\ reached' = reached \cup {<<q.mode, q.env>>} /\ q.stage = "charge"
        /\ payer' = [payer EXCEPT ![p] = done] /\ UNCHANGED <<account, tx>>
    BY <1>1, <1>3, <1>7 DEF Charge, ChargeEnvironment
  <2>2. \A r \in reached' \ reached : r[1] = ExpectedKeyMode(r[2])
    BY <1>2, <2>1
  <2> QED
    BY <1>4, <2>1, <2>2, PayerMoves
<1> QED
  BY <1>5, <1>6, <1>7

LEMMA AccountsStep == AccountsInv /\ [AccountsNext]_accountVars => AccountsInv'
<1>1. ASSUME AccountsInv, UNCHANGED accountVars PROVE AccountsInv'
  BY <1>1 DEF accountVars, AccountsInv, AccountTables, WritesFit, OneDefaultPerEnvironment,
     PayersFit, KeysKeepToTheirEnvironment, Seen, DefaultOf
<1>2. ASSUME AccountsInv, NEW o \in Operators, Rollback(o) PROVE AccountsInv'
  BY <1>2, EndKeeps DEF Rollback
<1> QED
  BY <1>1, <1>2, CreateAccountKeeps, UpdateAccountKeeps, DeleteKeeps, PromotionKeeps, WriteRowKeeps, CommitKeeps,
     PaymentKeeps DEF AccountsNext

LEMMA AccountsHold == AccountsSpec => []AccountsInv
BY InitAccounts, AccountsStep, PTL DEF AccountsSpec

-----------------------------------------------------------------------------
(* However many promotions, moves and deletions run together, an            *)
(* environment never has two default accounts (Create, Update, the index    *)
(* gateway_accounts_default_key).                                           *)
THEOREM DefaultsStayUnique == AccountsSpec => []OneDefaultPerEnvironment
BY AccountsHold, PTL DEF AccountsInv

(* A payment reaches the environment its key is for, whatever becomes of    *)
(* the account while it is being made (Create).                             *)
THEOREM KeysReachTheirEnvironment == AccountsSpec => []KeysKeepToTheirEnvironment
BY AccountsHold, PTL DEF AccountsInv
-----------------------------------------------------------------------------
(* A promotion that nobody edits accounts beside                            *)

AloneHolds == \A o \in Operators : Active(o) /\ tx[o].alone => Others(o) = {}

TargetsAreAccounts == \A o \in Operators : Active(o) => tx[o].target \in Accounts
PayersHaveAccounts == \A p \in Payers : payer[p].stage = "insert" => payer[p].account \in Accounts

EnvironmentOf(o) ==
  IF tx[o].wish.env = "keep" THEN account[tx[o].target].env ELSE tx[o].wish.env

(* A lone promotion knows the environment it is for and has seen, and then  *)
(* cleared, every default there.                                            *)
PromotionFits(o) ==
  tx[o].alone /\ tx[o].wish.default = "yes" =>
    /\ tx[o].stage \in {"snapshot", "clear", "write"} => tx[o].env = EnvironmentOf(o)
    /\ tx[o].stage = "clear" => CurrentDefaults(o) \subseteq tx[o].saw
    /\ tx[o].stage = "write" => CurrentDefaults(o) \subseteq tx[o].wrote

PromotionInv ==
  /\ AccountsTypeOK /\ AloneHolds /\ TargetsAreAccounts /\ PayersHaveAccounts
  /\ \A o \in Operators : PromotionFits(o)

LEMMA NoTxTyped ==
  /\ NoTx \in Transactions /\ NoTx.stage = "none" /\ NoTx.wish.default = "keep"
  /\ NoAccountRow.env \in Environments /\ NoAccountRow.default = FALSE
BY DEF NoTx, Transactions, TxStages, Wishes, NoAccountRow, Environments

LEMMA RowFields ==
  ASSUME NEW rec \in AccountRows \cup {NoAccountRow}
  PROVE  /\ rec.env \in Environments /\ rec.default \in BOOLEAN
         /\ [rec EXCEPT !.default = FALSE] \in AccountRows \cup {NoAccountRow}
         /\ \A env : ~DefaultOf([rec EXCEPT !.default = FALSE], env)
<1>1. CASE rec \in AccountRows
  BY <1>1 DEF AccountRows, DefaultOf
<1>2. CASE rec = NoAccountRow
  <2>1. [rec EXCEPT !.default = FALSE] = rec
    <3>1. rec = [env |-> rec.env, default |-> FALSE, id |-> rec.id]
      BY <1>2 DEF NoAccountRow
    <3> QED
      BY <3>1
  <2> QED
    BY <1>2, <2>1, NoDefault, NoTxTyped
<1> QED
  BY <1>1, <1>2

LEMMA InitPromotions == AccountsInit => PromotionInv
<1> SUFFICES ASSUME AccountsInit PROVE PromotionInv
  OBVIOUS
<1>1. account \in [Accounts -> AccountRows \cup {NoAccountRow}]
  <2>1. PICK rows : rows = AccountRows
    OBVIOUS
  <2>2. \A a \in DOMAIN FirstAccounts : FirstAccounts[a] \in rows
    BY <2>1, FirstAccountsAssumption
  <2>3. PICK none : none = NoAccountRow
    OBVIOUS
  <2>4. account = [a \in Accounts |-> IF a \in DOMAIN FirstAccounts THEN FirstAccounts[a] ELSE none]
    BY <2>3 DEF AccountsInit
  <2> QED
    BY <2>1, <2>2, <2>3, <2>4
<1>2. tx \in [Operators -> Transactions]
  BY NoTxTyped DEF AccountsInit
<1>3. payer \in [Payers -> PayerStates]
  BY DEF AccountsInit, NoPayment, PayerStates, Modes, Environments
<1>5. PayersHaveAccounts
  BY DEF AccountsInit, NoPayment, PayersHaveAccounts
<1>4. AccountsTypeOK
  BY <1>1, <1>2, <1>3, EditsAssumption DEF AccountsInit, AccountsTypeOK
<1> QED
  BY <1>4, <1>5, NoTxTyped DEF AccountsInit, PromotionInv, AloneHolds, TargetsAreAccounts, PromotionFits,
                          Active

(* A transaction goes on or ends, and no account changes.                   *)
LEMMA PromotionMoves ==
  ASSUME PromotionInv, NEW o \in Operators, NEW t \in Transactions,
         tx' = [tx EXCEPT ![o] = t],
         t.stage # "none" =>
           tx[o].stage # "none" /\ t.alone = tx[o].alone /\ t.target = tx[o].target,
         PromotionFits(o)',
         UNCHANGED <<account, payer, paidWith, reached, edits>>
  PROVE  PromotionInv'
<1>1. AccountsTypeOK'
  BY DEF PromotionInv, AccountsTypeOK
<1>2. tx'[o] = t /\ \A q \in Operators \ {o} : tx'[q] = tx[q]
  BY DEF PromotionInv, AccountsTypeOK
<1>3. AloneHolds' /\ TargetsAreAccounts' /\ PayersHaveAccounts'
  BY <1>2 DEF PromotionInv, AloneHolds, TargetsAreAccounts, PayersHaveAccounts, Active, Others
<1>4. \A q \in Operators \ {o} : PromotionFits(q)'
  BY <1>2 DEF PromotionInv, PromotionFits, EnvironmentOf, CurrentDefaults, DefaultOf
<1> QED
  BY <1>1, <1>3, <1>4 DEF PromotionInv

LEMMA PromotionEnds ==
  ASSUME PromotionInv, NEW o \in Operators, End(o),
         UNCHANGED <<account, payer, paidWith, reached, edits>>
  PROVE  PromotionInv'
<1>1. PICK t \in Transactions : t = NoTx
  BY NoTxTyped
<1>2. tx' = [tx EXCEPT ![o] = t] /\ t.stage = "none" /\ t.wish.default = "keep"
  BY <1>1, NoTxTyped DEF End
<1>3. tx'[o] = t
  BY <1>2 DEF PromotionInv, AccountsTypeOK
<1>4. PromotionFits(o)'
  BY <1>2, <1>3 DEF PromotionFits
<1> QED
  BY <1>2, <1>4, PromotionMoves

(* A transaction begins: no other is alone from now on.                     *)
LEMMA PromotionBegins ==
  ASSUME PromotionInv, NEW o \in Operators, NEW t \in Transactions, Begin(o, t), Edit,
         t.target \in Accounts,
         t.stage \in {"snapshot", "clear", "write"} /\ t.wish.default = "yes"
           => t.stage = "snapshot" /\ t.wish.env # "keep" /\ t.env = t.wish.env,
         UNCHANGED <<account, payer, paidWith, reached>>
  PROVE  PromotionInv'
<1>1. \A q \in Operators :
        tx'[q] = IF q = o THEN [t EXCEPT !.alone = Others(o) = {}]
                 ELSE [tx[q] EXCEPT !.alone = @ /\ ~Active(q)]
  BY DEF Begin
<1>2. \A q \in Operators \ {o} :
        /\ tx'[q] \in Transactions
        /\ tx'[q].alone => tx'[q].stage = "none"
        /\ tx'[q].stage = tx[q].stage /\ tx'[q].target = tx[q].target
  <2> TAKE q \in Operators \ {o}
  <2>1. PICK alone \in BOOLEAN : alone = (tx[q].alone /\ ~Active(q))
    BY DEF PromotionInv, AccountsTypeOK, Transactions
  <2>2. tx[q] \in Transactions
    BY DEF PromotionInv, AccountsTypeOK
  <2>3. tx'[q] = [tx[q] EXCEPT !.alone = alone]
    BY <1>1, <2>1
  <2> QED
    BY <2>1, <2>2, <2>3 DEF Transactions, Active
<1>3. PICK alone \in BOOLEAN : alone = (Others(o) = {})
  OBVIOUS
<1>4. PICK u : u = [t EXCEPT !.alone = alone]
  OBVIOUS
<1>5. u \in Transactions
  BY <1>4 DEF Transactions
<1>6. /\ u.alone = alone /\ u.stage = t.stage /\ u.wish = t.wish /\ u.env = t.env
      /\ u.target = t.target
  BY <1>4 DEF Transactions
<1>7. tx'[o] = u
  BY <1>1, <1>3, <1>4
<1>8. AccountsTypeOK'
  <2>1. tx' \in [Operators -> Transactions]
    BY <1>2, <1>5, <1>7 DEF Begin
  <2>2. edits' \in 0..MaxEdits
    BY EditsAssumption DEF Edit, PromotionInv, AccountsTypeOK
  <2> QED
    BY <2>1, <2>2 DEF PromotionInv, AccountsTypeOK
<1>9. AloneHolds'
  <2>1. Others(o)' = Others(o)
    BY <1>2 DEF Others, Active
  <2> QED
    BY <1>2, <1>3, <1>6, <1>7, <2>1 DEF AloneHolds, Active
<1>12. TargetsAreAccounts' /\ PayersHaveAccounts'
  BY <1>2, <1>6, <1>7 DEF PromotionInv, TargetsAreAccounts, PayersHaveAccounts, Active
<1>10. \A q \in Operators \ {o} : PromotionFits(q)'
  BY <1>2 DEF PromotionFits
<1>11. PromotionFits(o)'
  BY <1>6, <1>7 DEF PromotionFits, EnvironmentOf
<1> QED
  BY <1>8, <1>9, <1>10, <1>11, <1>12 DEF PromotionInv

LEMMA CreateFitsPromotions ==
  ASSUME PromotionInv, NEW o \in Operators, NEW a \in Accounts, NEW env \in Environments,
         NEW d \in BOOLEAN, CreateAccount(o, a, env, d)
  PROVE  PromotionInv'
<1>1. PICK w : w = [env |-> env, default |-> IF d THEN "yes" ELSE "no"]
  OBVIOUS
<1>2. w \in Wishes /\ w.env = env /\ (w.default = "yes" <=> d)
  BY <1>1 DEF Wishes
<1>3. PICK t : t = [NoTx EXCEPT !.target = a, !.insert = TRUE, !.env = env, !.wish = w,
                      !.stage = IF d THEN "snapshot" ELSE "write"]
  OBVIOUS
<1>4. t \in Transactions /\ t.wish = w /\ t.env = env /\ t.target = a
      /\ t.stage = IF d THEN "snapshot" ELSE "write"
  BY <1>2, <1>3, NoTxTyped DEF Transactions, TxStages, NoTx
<1>5. env # "keep"
  BY DEF Environments
<1>6. Begin(o, t) /\ Edit /\ UNCHANGED <<account, payer, paidWith, reached>>
  BY <1>1, <1>3 DEF CreateAccount
<1> QED
  BY <1>2, <1>4, <1>5, <1>6, PromotionBegins

LEMMA UpdateFitsPromotions ==
  ASSUME PromotionInv, NEW o \in Operators, NEW a \in Accounts, NEW wish \in Wishes,
         UpdateAccount(o, a, wish)
  PROVE  PromotionInv'
<1>1. PICK t : t = [NoTx EXCEPT !.target = a, !.wish = wish,
                      !.stage = IF wish.default = "yes" THEN "get" ELSE "write"]
  OBVIOUS
<1>2. t \in Transactions /\ t.wish = wish /\ t.target = a
      /\ t.stage = IF wish.default = "yes" THEN "get" ELSE "write"
  BY <1>1, NoTxTyped DEF Transactions, TxStages, NoTx
<1>3. Begin(o, t) /\ Edit /\ UNCHANGED <<account, payer, paidWith, reached>>
  BY <1>1 DEF UpdateAccount
<1> QED
  BY <1>2, <1>3, PromotionBegins

(* The row that is being written.                                           *)
LEMMA RowTyped ==
  ASSUME PromotionInv, NEW o \in Operators, Active(o)
  PROVE  /\ EnvironmentOf(o) \in Environments
         /\ NewRow(o) \in AccountRows /\ NewRow(o).env = EnvironmentOf(o)
<1>1. PICK rec \in AccountRows \cup {NoAccountRow} : rec = account[tx[o].target]
  BY DEF PromotionInv, TargetsAreAccounts, AccountsTypeOK
<1>2. rec.env \in Environments /\ rec.default \in BOOLEAN
  BY RowFields
<1>3. PICK w \in Wishes : w = tx[o].wish
  BY DEF PromotionInv, AccountsTypeOK, Transactions
<1>4. w.env \in Environments \cup {"keep"}
  BY DEF Wishes
<1>5. PICK env : env = IF w.env = "keep" THEN rec.env ELSE w.env
  OBVIOUS
<1>6. PICK d : d = IF w.default = "keep" THEN rec.default ELSE w.default = "yes"
  OBVIOUS
<1>7. env \in Environments /\ env = EnvironmentOf(o)
  BY <1>1, <1>2, <1>3, <1>4, <1>5 DEF EnvironmentOf
<1>8. d \in BOOLEAN
  <2>1. CASE w.default = "keep"
    BY <1>2, <1>6, <2>1
  <2>2. CASE w.default # "keep"
    <3>1. d = (w.default = "yes")
      BY <1>6, <2>2
    <3> QED
      BY <3>1
  <2> QED
    BY <2>1, <2>2
<1>9. NewRow(o) = [env |-> env, default |-> d]
  BY <1>1, <1>3, <1>5, <1>6 DEF NewRow
<1> QED
  BY <1>7, <1>8, <1>9 DEF AccountRows

LEMMA ReadingFitsPromotions ==
  ASSUME PromotionInv, NEW o \in Operators, GetCurrent(o) PROVE PromotionInv'
<1>1. CASE End(o)
  BY <1>1, PromotionEnds DEF GetCurrent
<1>2. CASE ~End(o)
  <2>1. PICK q \in Transactions : q = tx[o]
    BY DEF PromotionInv, AccountsTypeOK
  <2>2. q.stage = "get"
    BY <2>1 DEF GetCurrent
  <2>3. PICK env \in Environments : env = EnvironmentOf(o)
    BY <2>1, <2>2, RowTyped DEF Active
  <2>4. PICK t : t = [q EXCEPT !.stage = "snapshot", !.env = env]
    OBVIOUS
  <2>5. /\ t \in Transactions /\ t.stage = "snapshot" /\ t.env = env
        /\ t.alone = q.alone /\ t.target = q.target /\ t.wish = q.wish
    BY <2>4 DEF Transactions, TxStages
  <2>6. /\ tx' = [tx EXCEPT ![o] = t] /\ UNCHANGED <<account, payer, paidWith, reached, edits>>
    BY <1>2, <2>1, <2>3, <2>4 DEF GetCurrent, EnvironmentOf, Transactions
  <2>7. tx'[o] = t
    BY <2>6 DEF PromotionInv, AccountsTypeOK
  <2>8. PromotionFits(o)'
    BY <2>1, <2>3, <2>5, <2>6, <2>7 DEF PromotionFits, EnvironmentOf
  <2> QED
    BY <2>1, <2>2, <2>5, <2>6, <2>8, PromotionMoves
<1> QED
  BY <1>1, <1>2

LEMMA SnapshotFitsPromotions ==
  ASSUME PromotionInv, NEW o \in Operators, ClearSnapshot(o) PROVE PromotionInv'
<1>1. PICK q \in Transactions : q = tx[o]
  BY DEF PromotionInv, AccountsTypeOK
<1>2. PICK saw \in SUBSET Accounts : saw = CurrentDefaults(o)
  BY DEF CurrentDefaults
<1>3. PICK t : t = [q EXCEPT !.stage = "clear", !.saw = saw]
  OBVIOUS
<1>4. /\ t \in Transactions /\ t.stage = "clear" /\ t.saw = saw /\ t.env = q.env
      /\ t.alone = q.alone /\ t.target = q.target /\ t.wish = q.wish
  BY <1>3 DEF Transactions, TxStages
<1>5. /\ q.stage = "snapshot"
      /\ tx' = [tx EXCEPT ![o] = t] /\ UNCHANGED <<account, payer, paidWith, reached, edits>>
  BY <1>1, <1>2, <1>3 DEF ClearSnapshot, Transactions
<1>6. tx'[o] = t
  BY <1>5 DEF PromotionInv, AccountsTypeOK
<1>7. CurrentDefaults(o)' = CurrentDefaults(o)
  BY <1>1, <1>4, <1>5, <1>6 DEF CurrentDefaults, DefaultOf
<1>8. EnvironmentOf(o)' = EnvironmentOf(o)
  BY <1>1, <1>4, <1>5, <1>6 DEF EnvironmentOf
<1>9. PromotionFits(o)'
  BY <1>1, <1>2, <1>4, <1>5, <1>6, <1>7, <1>8 DEF PromotionInv, PromotionFits
<1> QED
  BY <1>1, <1>4, <1>5, <1>9, PromotionMoves

LEMMA ClearingFitsPromotions ==
  ASSUME PromotionInv, NEW o \in Operators, ClearDefault(o) PROVE PromotionInv'
<1>1. PICK q \in Transactions : q = tx[o]
  BY DEF PromotionInv, AccountsTypeOK
<1>2. PICK wrote : wrote = {a \in q.saw : DefaultOf(account[a], q.env)}
  OBVIOUS
<1>3. wrote \in SUBSET Accounts
  BY <1>2 DEF Transactions
<1>4. PICK t : t = [q EXCEPT !.stage = "write", !.saw = {}, !.wrote = wrote]
  OBVIOUS
<1>5. /\ t \in Transactions /\ t.stage = "write" /\ t.wrote = wrote /\ t.env = q.env
      /\ t.alone = q.alone /\ t.target = q.target /\ t.wish = q.wish
  BY <1>3, <1>4 DEF Transactions, TxStages
<1>6. /\ q.stage = "clear"
      /\ tx' = [tx EXCEPT ![o] = t] /\ UNCHANGED <<account, payer, paidWith, reached, edits>>
  BY <1>1, <1>2, <1>4 DEF ClearDefault, Transactions
<1>7. tx'[o] = t
  BY <1>6 DEF PromotionInv, AccountsTypeOK
<1>8. CurrentDefaults(o)' = CurrentDefaults(o)
  BY <1>1, <1>5, <1>6, <1>7 DEF CurrentDefaults, DefaultOf
<1>9. EnvironmentOf(o)' = EnvironmentOf(o)
  BY <1>1, <1>5, <1>6, <1>7 DEF EnvironmentOf
<1>10. CurrentDefaults(o) \subseteq q.saw => CurrentDefaults(o) \subseteq wrote
  BY <1>1, <1>2 DEF CurrentDefaults
<1>11. PromotionFits(o)'
  BY <1>1, <1>5, <1>6, <1>7, <1>8, <1>9, <1>10 DEF PromotionInv, PromotionFits
<1> QED
  BY <1>1, <1>5, <1>6, <1>11, PromotionMoves

LEMMA WritingFitsPromotions ==
  ASSUME PromotionInv, NEW o \in Operators, WriteRow(o) PROVE PromotionInv'
<1>1. CASE End(o)
  BY <1>1, PromotionEnds DEF WriteRow
<1>2. CASE ~End(o)
  <2>1. PICK q \in Transactions : q = tx[o]
    BY DEF PromotionInv, AccountsTypeOK
  <2>2. q.stage = "write" /\ Active(o)
    BY <2>1 DEF WriteRow, Active
  <2>3. PICK rec \in AccountRows : rec = NewRow(o)
    BY <2>2, RowTyped
  <2>4. PICK wrote \in SUBSET Accounts : wrote = q.wrote \cup {q.target}
    BY <2>1, <2>2 DEF Transactions, PromotionInv, TargetsAreAccounts
  <2>5. PICK t : t = [q EXCEPT !.stage = "commit", !.row = rec, !.wrote = wrote]
    OBVIOUS
  <2>6. /\ t \in Transactions /\ t.stage = "commit" /\ t.alone = q.alone /\ t.target = q.target
    BY <2>5 DEF Transactions, TxStages
  <2>7. /\ tx' = [tx EXCEPT ![o] = t] /\ UNCHANGED <<account, payer, paidWith, reached, edits>>
    BY <1>2, <2>1, <2>3, <2>4, <2>5 DEF WriteRow, Transactions
  <2>8. tx'[o] = t
    BY <2>7 DEF PromotionInv, AccountsTypeOK
  <2>9. PromotionFits(o)'
    BY <2>6, <2>8 DEF PromotionFits
  <2> QED
    BY <2>1, <2>2, <2>6, <2>7, <2>9, PromotionMoves
<1> QED
  BY <1>1, <1>2

(* Accounts change: no other transaction that is under way is alone.        *)
LEMMA AccountsChange ==
  ASSUME PromotionInv, AccountsTypeOK', UNCHANGED payer,
         \A q \in Operators : tx'[q].stage # "none" => ~tx'[q].alone /\ tx'[q].target \in Accounts
  PROVE  PromotionInv'
BY DEF PromotionInv, AloneHolds, TargetsAreAccounts, PayersHaveAccounts, PromotionFits, Active

LEMMA CommittingFitsPromotions ==
  ASSUME PromotionInv, NEW o \in Operators, Commit(o) PROVE PromotionInv'
<1>1. PICK q \in Transactions : q = tx[o]
  BY DEF PromotionInv, AccountsTypeOK
<1>2. /\ account' = [a \in Accounts |-> IF a = q.target THEN q.row ELSE Seen(o, a)]
      /\ q.stage = "commit"
      /\ tx' = [tx EXCEPT ![o] = NoTx] /\ UNCHANGED <<payer, paidWith, reached, edits>>
  BY <1>1 DEF Commit, End
<1>3. q.row \in AccountRows \cup {NoAccountRow}
  BY DEF Transactions
<1>4. ASSUME NEW a \in Accounts PROVE Seen(o, a) \in AccountRows \cup {NoAccountRow}
  <2>1. PICK rec \in AccountRows \cup {NoAccountRow} : rec = account[a]
    BY DEF PromotionInv, AccountsTypeOK
  <2> QED
    BY <2>1, RowFields DEF Seen
<1>5. account' \in [Accounts -> AccountRows \cup {NoAccountRow}]
  BY <1>2, <1>3, <1>4
<1>6. AccountsTypeOK'
  BY <1>2, <1>5, NoTxTyped DEF PromotionInv, AccountsTypeOK
<1>7. \A p \in Operators : tx'[p] = IF p = o THEN NoTx ELSE tx[p]
  BY <1>2 DEF PromotionInv, AccountsTypeOK
<1>8. ASSUME NEW p \in Operators, tx'[p].stage # "none"
      PROVE  ~tx'[p].alone /\ tx'[p].target \in Accounts
  <2>1. p # o /\ tx'[p] = tx[p] /\ Active(p)
    BY <1>7, <1>8, NoTxTyped DEF Active
  <2>2. o \in Others(p)
    BY <1>1, <1>2, <2>1 DEF Others, Active
  <2> QED
    BY <2>1, <2>2 DEF PromotionInv, AloneHolds, TargetsAreAccounts
<1> QED
  BY <1>2, <1>6, <1>8, AccountsChange

LEMMA DeletingFitsPromotions ==
  ASSUME PromotionInv, NEW o \in Operators, NEW a \in Accounts, DeleteAccount(o, a)
  PROVE  PromotionInv'
<1>1. /\ account' = [account EXCEPT ![a] = NoAccountRow] /\ UNCHANGED <<payer, paidWith, reached>>
      /\ tx' = [q \in Operators |-> [tx[q] EXCEPT !.alone = @ /\ ~Active(q)]] /\ Edit
  BY DEF DeleteAccount
<1>2. \A q \in Operators :
        /\ tx'[q] \in Transactions
        /\ tx'[q].alone => tx'[q].stage = "none"
        /\ tx'[q].stage = tx[q].stage /\ tx'[q].target = tx[q].target
  <2> TAKE q \in Operators
  <2>1. PICK alone \in BOOLEAN : alone = (tx[q].alone /\ ~Active(q))
    BY DEF PromotionInv, AccountsTypeOK, Transactions
  <2>2. tx[q] \in Transactions
    BY DEF PromotionInv, AccountsTypeOK
  <2>3. tx'[q] = [tx[q] EXCEPT !.alone = alone]
    BY <1>1, <2>1
  <2> QED
    BY <2>1, <2>2, <2>3 DEF Transactions, Active
<1>3. edits' \in 0..MaxEdits
  BY <1>1, EditsAssumption DEF Edit, PromotionInv, AccountsTypeOK
<1>4. tx' \in [Operators -> Transactions]
  BY <1>1, <1>2
<1>5. AccountsTypeOK'
  BY <1>1, <1>3, <1>4 DEF PromotionInv, AccountsTypeOK
<1> QED
  BY <1>1, <1>2, <1>5, AccountsChange DEF PromotionInv, TargetsAreAccounts, Active

LEMMA PayerFitsPromotions ==
  ASSUME PromotionInv, NEW p \in Payers, NEW k \in PayerStates, payer' = [payer EXCEPT ![p] = k],
         k.stage = "insert" => k.account \in Accounts,
         paidWith' \subseteq Accounts, reached' \subseteq Modes \X Environments,
         UNCHANGED <<account, tx, edits>>
  PROVE  PromotionInv'
<1>1. AccountsTypeOK'
  BY DEF PromotionInv, AccountsTypeOK
<1>2. AloneHolds' /\ TargetsAreAccounts'
  BY DEF PromotionInv, AloneHolds, TargetsAreAccounts, Active, Others
<1>4. PayersHaveAccounts'
  BY DEF PromotionInv, AccountsTypeOK, PayersHaveAccounts
<1>3. \A o \in Operators : PromotionFits(o)'
  BY DEF PromotionInv, PromotionFits, EnvironmentOf, CurrentDefaults, DefaultOf
<1> QED
  BY <1>1, <1>2, <1>3, <1>4 DEF PromotionInv

LEMMA PaymentFitsPromotions ==
  ASSUME PromotionInv, NEW p \in Payers,
         (\E mode \in Modes : AccountFor(p, mode)) \/ InsertPayment(p) \/ Charge(p)
  PROVE  PromotionInv'
<1>1. PICK q \in PayerStates : q = payer[p]
  BY DEF PromotionInv, AccountsTypeOK
<1>7. PICK done : done = AnsweredPayment(p)
  OBVIOUS
<1>2. done \in PayerStates /\ done = AnsweredPayment(p) /\ done.stage = "done"
  BY <1>7 DEF AnsweredPayment, NoPayment, PayerStates, Modes, Environments
<1>3. paidWith \subseteq Accounts /\ reached \subseteq Modes \X Environments
  BY DEF PromotionInv, AccountsTypeOK
<1>4. ASSUME NEW mode \in Modes, AccountFor(p, mode) PROVE PromotionInv'
  <2>1. PICK a \in Accounts :
          payer' = [payer EXCEPT ![p] = [stage |-> "insert", mode |-> mode,
                                         account |-> a, env |-> account[a].env]]
    BY <1>4 DEF AccountFor
  <2>2. account[a].env \in Environments
    BY RowFields DEF PromotionInv, AccountsTypeOK
  <2>3. PICK k : k = [stage |-> "insert", mode |-> mode, account |-> a, env |-> account[a].env]
    OBVIOUS
  <2>4. k \in PayerStates /\ k.account = a
    BY <2>2, <2>3 DEF PayerStates
  <2>5. UNCHANGED <<account, tx, paidWith, reached, edits>>
    BY <1>4 DEF AccountFor
  <2> QED
    BY <1>3, <2>1, <2>3, <2>4, <2>5, PayerFitsPromotions
<1>5. CASE InsertPayment(p)
  <2>1. PICK k : k = [q EXCEPT !.stage = "charge"]
    OBVIOUS
  <2>2. k \in PayerStates /\ k.stage = "charge"
    BY <2>1 DEF PayerStates
  <2>6. q.account \in Accounts
    BY <1>1, <1>5 DEF InsertPayment, PromotionInv, PayersHaveAccounts
  <2>3. payer' = [payer EXCEPT ![p] = k] \/ payer' = [payer EXCEPT ![p] = done]
    BY <1>1, <1>2, <1>5, <2>1 DEF InsertPayment, PayerStates
  <2>4. paidWith' \subseteq Accounts
    <3>1. CASE HasAccount(payer[p].account)
      <4>1. paidWith' = paidWith \cup {q.account}
        BY <1>1, <1>5, <3>1 DEF InsertPayment
      <4> QED
        BY <1>3, <2>6, <4>1
    <3>2. CASE ~HasAccount(payer[p].account)
      BY <1>3, <1>5, <3>2 DEF InsertPayment
    <3> QED
      BY <3>1, <3>2
  <2>5. UNCHANGED <<account, tx, reached, edits>>
    BY <1>5 DEF InsertPayment
  <2> QED
    BY <1>2, <1>3, <2>2, <2>3, <2>4, <2>5, PayerFitsPromotions
<1>6. CASE Charge(p)
  <2>1. /\ reached' = reached \cup {<<q.mode, q.env>>}
        /\ payer' = [payer EXCEPT ![p] = done] /\ UNCHANGED <<account, tx, paidWith, edits>>
    BY <1>1, <1>2, <1>6 DEF Charge, ChargeEnvironment
  <2>2. q.mode \in Modes /\ q.env \in Environments
    BY DEF PayerStates
  <2>3. reached' \subseteq Modes \X Environments
    BY <1>3, <2>1, <2>2
  <2> QED
    BY <1>2, <1>3, <2>1, <2>3, PayerFitsPromotions
<1> QED
  BY <1>4, <1>5, <1>6

LEMMA PromotionStep == PromotionInv /\ [AccountsNext]_accountVars => PromotionInv'
<1>1. ASSUME PromotionInv, UNCHANGED accountVars PROVE PromotionInv'
  BY <1>1 DEF accountVars, PromotionInv, AccountsTypeOK, AloneHolds, TargetsAreAccounts, Active, Others,
     PayersHaveAccounts, PromotionFits, EnvironmentOf, CurrentDefaults, DefaultOf
<1>2. ASSUME PromotionInv, NEW o \in Operators, Rollback(o) PROVE PromotionInv'
  BY <1>2, PromotionEnds DEF Rollback
<1> QED
  BY <1>1, <1>2, CreateFitsPromotions, UpdateFitsPromotions, DeletingFitsPromotions,
     ReadingFitsPromotions, SnapshotFitsPromotions, ClearingFitsPromotions, WritingFitsPromotions,
     CommittingFitsPromotions, PaymentFitsPromotions DEF AccountsNext

(* What a lone promotion is about to write is what the index lets through.  *)
LEMMA NothingInTheWay ==
  ASSUME PromotionInv, NEW o \in Operators,
         tx[o].stage = "write", tx[o].wish.default = "yes", tx[o].alone
  PROVE  ~Taken(o, NewRow(o).env)
<1>1. Active(o)
  BY DEF Active
<1>2. NewRow(o).env = tx[o].env
  BY <1>1, RowTyped DEF PromotionInv, PromotionFits
<1>3. ASSUME NEW a \in Accounts \ {tx[o].target} PROVE ~DefaultOf(Seen(o, a), tx[o].env)
  <2>1. PICK rec \in AccountRows \cup {NoAccountRow} : rec = account[a]
    BY DEF PromotionInv, AccountsTypeOK
  <2>2. CASE a \in tx[o].wrote
    BY <2>1, <2>2, RowFields DEF Seen
  <2>3. CASE a \notin tx[o].wrote
    BY <2>3 DEF Seen, PromotionInv, PromotionFits, CurrentDefaults
  <2> QED
    BY <2>2, <2>3
<1> QED
  BY <1>2, <1>3 DEF Taken

(* A promotion that nobody else edits accounts beside is never refused by   *)
(* the index (clearDefault).                                                *)
THEOREM PromotionsGoThrough == AccountsSpec => LonePromotionIsNotRefused
<1>1. PromotionInv =>
        \A o \in Operators :
          /\ tx[o].stage = "write" /\ tx[o].wish.default = "yes" /\ tx[o].alone
          => ~Taken(o, NewRow(o).env)
  BY NothingInTheWay
<1>2. PromotionInv /\ [AccountsNext]_accountVars =>
        [\A o \in Operators :
          /\ tx[o].stage = "write" /\ tx[o].wish.default = "yes" /\ tx[o].alone
          => ~Taken(o, NewRow(o).env)]_accountVars
  BY <1>1
<1> QED
  BY <1>2, InitPromotions, PromotionStep, PTL DEF AccountsSpec, LonePromotionIsNotRefused

-----------------------------------------------------------------------------
(* The types of the three whose invariants above need less than the types   *)

LEMMA KnownMigrations ==
  /\ Latest \in Nat
  /\ \A p \in Instances : LoadMigrations(p) \subseteq Migrations
<1>1. PICK S : S = {Known[p] : p \in Instances}
  OBVIOUS
<1>2. \E n \in S : \A p \in Instances : Known[p] <= n
  BY <1>1, LatestAssumption
<1>3. Latest \in S /\ \A p \in Instances : Known[p] <= Latest
  BY <1>1, <1>2 DEF Latest
<1>4. Latest \in Nat
  BY <1>1, <1>3, KnownAssumption
<1> QED
  BY <1>3, <1>4, KnownAssumption DEF LoadMigrations, Migrations

LEMMA StartupTypes ==
  ASSUME StartupInv, StartupTypeOK, [StartupNext]_startupVars PROVE StartupTypeOK'
<1>1. StartupInv'
  BY StartupStep
<1>2. stage' \in [Instances -> StartStages] /\ failure' \in [Instances -> Failures]
  BY <1>1 DEF StartupInv, StartupTyped
<1>3. ASSUME NEW p \in Instances, Run(p) \/ AcquireLock(p) \/ Migrated(p) \/ CountAdmins(p)
      PROVE  StartupTypeOK'
  BY <1>2, <1>3 DEF StartupTypeOK, Run, AcquireLock, Migrated, CountAdmins
<1>4. ASSUME NEW p \in Instances, AppliedMigrations(p) PROVE StartupTypeOK'
  BY <1>2, <1>4 DEF StartupTypeOK, AppliedMigrations
<1>5. ASSUME NEW p \in Instances, ApplyMigration(p) PROVE StartupTypeOK'
  <2>1. PICK m \in Pending(p) :
          \/ /\ schema' = schema \cup {m} /\ seen' = [seen EXCEPT ![p] = @ \cup {m}]
             /\ UNCHANGED lock
          \/ Exit(p, "migration") /\ UNCHANGED <<schema, seen>>
    BY <1>5 DEF ApplyMigration
  <2>2. m \in Migrations
    BY <2>1, KnownMigrations DEF Pending
  <2>3. schema' \subseteq Migrations
    BY <2>1, <2>2 DEF StartupTypeOK
  <2>4. seen' \in [Instances -> SUBSET Migrations]
    BY <2>1, <2>2 DEF StartupTypeOK
  <2>5. lock' \in Instances \cup {NoInstance} /\ UNCHANGED <<admins, kills>>
    BY <1>5, <2>1 DEF StartupTypeOK, ApplyMigration, Exit
  <2> QED
    BY <1>2, <2>3, <2>4, <2>5 DEF StartupTypeOK
<1>6. ASSUME NEW p \in Instances, CreateAdmin(p) PROVE StartupTypeOK'
  BY <1>2, <1>6 DEF StartupTypeOK, CreateAdmin, Exit
<1>7. ASSUME NEW p \in Instances, Kill(p) PROVE StartupTypeOK'
  BY <1>2, <1>7, KillsAssumption DEF StartupTypeOK, Kill, Exit
<1>8. ASSUME UNCHANGED startupVars PROVE StartupTypeOK'
  BY <1>8 DEF StartupTypeOK, startupVars
<1> QED
  BY <1>3, <1>4, <1>5, <1>6, <1>7, <1>8 DEF StartupNext, StartStep

LEMMA StartupInitTypes == StartupInit => StartupTypeOK
BY KillsAssumption DEF StartupInit, StartupTypeOK, StartStages, Running, Failures

LEMMA BookTypes == ASSUME BookInv, BookTypeOK, [BookNext]_bookVars PROVE BookTypeOK'
<1>1. BookTyped'
  BY BookStep DEF BookInv
<1>2. BookEdit => bookEdits' \in 0..MaxBookEdits
  BY BookEditsAssumption DEF BookEdit, BookTypeOK
<1>3. ASSUME NEW b \in Beneficiaries, NEW n \in Numbers,
             CreateBeneficiary(b, n) \/ UpdateBeneficiary(b, n)
      PROVE  BookTypeOK'
  BY <1>1, <1>2, <1>3 DEF BookTyped, BookTypeOK, CreateBeneficiary, UpdateBeneficiary
<1>4. ASSUME NEW b \in Beneficiaries, NEW d \in BOOLEAN, SetDisabled(b, d) PROVE BookTypeOK'
  BY <1>1, <1>2, <1>4 DEF BookTyped, BookTypeOK, SetDisabled
<1>5. ASSUME NEW b \in Beneficiaries, DeleteBeneficiary(b) PROVE BookTypeOK'
  <2>1. sentTo' = {IF p.who = b THEN [p EXCEPT !.who = NoBeneficiary] ELSE p : p \in sentTo}
    BY <1>5 DEF DeleteBeneficiary
  <2>2. \A p \in Resolutions : [p EXCEPT !.who = NoBeneficiary] \in Resolutions
    BY DEF Resolutions
  <2>3. sentTo' \subseteq Resolutions
    BY <2>1, <2>2 DEF BookTypeOK
  <2> QED
    BY <1>1, <1>2, <1>5, <2>3 DEF BookTyped, BookTypeOK, DeleteBeneficiary
<1>6. ASSUME NEW v \in Verifiers,
             (\E b \in Beneficiaries : BeginVerify(v, b)) \/ ValidateAccount(v) \/ MarkVerified(v)
      PROVE  BookTypeOK'
  BY <1>1, <1>6 DEF BookTyped, BookTypeOK, BeginVerify, ValidateAccount, MarkVerified
<1>7. ASSUME NEW q \in PayoutRequests, NEW b \in Beneficiaries, Resolve(q, b) PROVE BookTypeOK'
  <2>1. entry[b].number \in Numbers
    BY <1>7, ListedRows DEF BookInv, Resolve, EntryRows
  <2>2. PICK r : r = [who |-> b, number |-> entry[b].number]
    OBVIOUS
  <2>3. r \in Resolutions
    BY <2>1, <2>2 DEF Resolutions
  <2>4. resolving' = [resolving EXCEPT ![q] = r] /\ UNCHANGED <<entry, verifying, sentTo, overtaken, bookEdits>>
    BY <1>7, <2>2 DEF Resolve
  <2> QED
    BY <1>1, <2>3, <2>4 DEF BookTyped, BookTypeOK
<1>8. ASSUME NEW q \in PayoutRequests, StorePayout(q) PROVE BookTypeOK'
  <2>1. NoResolution \in Resolutions
    BY NumbersAssumption DEF NoResolution, Resolutions
  <2>2. resolving' = [resolving EXCEPT ![q] = NoResolution] /\ UNCHANGED bookEdits
    BY <1>8 DEF StorePayout
  <2>3. sentTo' \subseteq sentTo \cup {resolving[q]}
    BY <1>8 DEF StorePayout
  <2> QED
    BY <1>1, <2>1, <2>2, <2>3 DEF BookTyped, BookTypeOK
<1>9. ASSUME UNCHANGED bookVars PROVE BookTypeOK'
  BY <1>9 DEF BookTypeOK, bookVars
<1> QED
  BY <1>3, <1>4, <1>5, <1>6, <1>7, <1>8, <1>9 DEF BookNext

LEMMA BookInitTypes == BookInit => BookTypeOK
<1>1. NoVerification \in Verifications /\ NoResolution \in Resolutions
  BY NumbersAssumption DEF NoVerification, Verifications, NoResolution, Resolutions
<1> QED
  BY <1>1, BookEditsAssumption DEF BookInit, BookTypeOK

LEMMA SubValues ==
  /\ Absent \in Gateway /\ NoOp \in Ops /\ NoSubRow \in SubRows
  /\ \A raw : NormalizeSubscriptionStatus(raw) \in SubStatuses
  /\ \A kind \in LifecycleKinds :
       /\ kind \in Kinds /\ kind # "update"
       /\ RawAfter(kind) \in RawStatuses /\ StatusAfter(kind) \in SubStatuses
<1>1. Absent \in Gateway /\ NoSubRow \in SubRows
  BY FirstTermsAssumption DEF Absent, NoSubRow, Gateway, SubRows
<1>2. NoOp \in Ops
  BY <1>1, FirstTermsAssumption DEF NoOp, Ops, OpStages, Kinds
<1>3. \A raw : NormalizeSubscriptionStatus(raw) \in SubStatuses
  <2> TAKE raw
  <2>1. CASE raw = "active"
    BY <2>1 DEF NormalizeSubscriptionStatus, SubStatuses
  <2>2. CASE raw = "inactive"
    BY <2>2 DEF NormalizeSubscriptionStatus, SubStatuses
  <2>3. CASE raw # "active" /\ raw # "inactive"
    BY <2>3 DEF NormalizeSubscriptionStatus, SubStatuses
  <2> QED
    BY <2>1, <2>2, <2>3
<1>4. ASSUME NEW kind \in LifecycleKinds
      PROVE  /\ kind \in Kinds /\ kind # "update"
             /\ RawAfter(kind) \in RawStatuses /\ StatusAfter(kind) \in SubStatuses
  BY DEF LifecycleKinds, Kinds, RawAfter, StatusAfter, RawStatuses, SubStatuses
<1> QED
  BY <1>1, <1>2, <1>3, <1>4

LEMMA SubInitTypes == SubInit => SubTypeOK
BY SubValues, TroublesAssumption DEF SubInit, SubTypeOK

LEMMA AloneTypes ==
  ASSUME NEW ops \in [SubCallers -> Ops], NEW s PROVE NotAlone(ops, s) \in [SubCallers -> Ops]
<1>1. ASSUME NEW c \in SubCallers
      PROVE  [ops[c] EXCEPT !.alone = @ /\ ops[c].sub # s] \in Ops
  <2>1. PICK o \in Ops : o = ops[c]
    OBVIOUS
  <2>2. PICK alone \in BOOLEAN : alone = (o.alone /\ o.sub # s)
    BY DEF Ops
  <2>3. [o EXCEPT !.alone = alone] \in Ops
    BY DEF Ops
  <2> QED
    BY <2>1, <2>2, <2>3
<1> QED
  BY <1>1 DEF NotAlone

(* A request takes a step.                                                  *)
LEMMA SubStepTypes ==
  ASSUME FollowInv, SubTypeOK, NEW c \in SubCallers,
         \/ CreateAtGateway(c) \/ InsertRow(c)
         \/ \E kind \in Kinds, s \in Subs, t \in Terms :
              (kind # "update" => t = FirstTerms) /\ Load(c, kind, s, t)
         \/ AskGateway(c) \/ GetSubscription(c) \/ StoreView(c) \/ SetStatus(c)
         \/ Publish(c) \/ Abort(c)
  PROVE  SubTypeOK'
<1>1. PICK o \in Ops : o = op[c]
  BY DEF SubTypeOK
<1>2. /\ o.stage # "idle" => o.sub \in Subs
      /\ o.stage = "ask" => o.kind \in LifecycleKinds \cup {"update"}
      /\ o.kind \in Kinds /\ o.terms \in Terms /\ o.view \in Gateway
  BY <1>1 DEF FollowInv, OpsFit, Ops
<1>3. ASSUME NEW st \in OpStages
      PROVE  [o EXCEPT !.stage = st] \in Ops
  BY DEF Ops
<1>4. ASSUME NEW n \in Ops PROVE [op EXCEPT ![c] = n] \in [SubCallers -> Ops]
  BY DEF SubTypeOK
<1>5. ASSUME NEW st \in OpStages, OpTo(c, st) PROVE op' \in [SubCallers -> Ops]
  BY <1>1, <1>3, <1>5 DEF OpTo, SubTypeOK
<1>6. ASSUME Done(c) PROVE op' \in [SubCallers -> Ops]
  BY <1>4, <1>6, SubValues DEF Done
<1>7. CASE CreateAtGateway(c)
  <2>1. PICK s \in Subs :
          /\ gw[s] = Absent /\ gw' = [gw EXCEPT ![s].raw = "active"]
          /\ op' = [op EXCEPT ![c] = [NoOp EXCEPT !.stage = "store", !.kind = "create", !.sub = s,
                                              !.view = [raw |-> "active", terms |-> FirstTerms]]]
    BY <1>7 DEF CreateAtGateway
  <2>2. PICK v : v = [raw |-> "active", terms |-> FirstTerms]
    OBVIOUS
  <2>3. v \in Gateway
    BY <2>2, FirstTermsAssumption DEF Gateway, RawStatuses
  <2>4. [NoOp EXCEPT !.stage = "store", !.kind = "create", !.sub = s, !.view = v] \in Ops
    BY <2>3, SubValues DEF Ops, OpStages, Kinds
  <2>5. gw' \in [Subs -> Gateway]
    BY <2>1 DEF SubTypeOK, Gateway, RawStatuses
  <2> QED
    BY <1>4, <1>7, <2>1, <2>2, <2>4, <2>5 DEF CreateAtGateway, SubTypeOK
<1>8. CASE InsertRow(c)
  <2>1. PICK rec : rec = [status |-> NormalizeSubscriptionStatus(o.view.raw), terms |-> o.view.terms]
    OBVIOUS
  <2>2. rec \in SubRows
    BY <1>2, <2>1, SubValues DEF SubRows, Gateway
  <2>3. subRow' = [subRow EXCEPT ![o.sub] = rec] /\ OpTo(c, "publish")
    BY <1>1, <1>8, <2>1 DEF InsertRow
  <2>4. op' \in [SubCallers -> Ops]
    BY <1>5, <2>3 DEF OpStages
  <2> QED
    BY <1>8, <2>2, <2>3, <2>4 DEF InsertRow, SubTypeOK
<1>9. ASSUME NEW kind \in Kinds, NEW s \in Subs, NEW t \in Terms, Load(c, kind, s, t)
      PROVE  SubTypeOK'
  <2>1. PICK n : n = [NoOp EXCEPT !.stage = IF kind = "sync" THEN "read" ELSE "ask",
                        !.kind = kind, !.sub = s, !.terms = t]
    OBVIOUS
  <2>2. n \in Ops
    BY <2>1, SubValues DEF Ops, OpStages
  <2>3. PICK began \in [SubCallers -> Ops] : began = [op EXCEPT ![c] = n]
    BY <1>4, <2>2
  <2>4. op' = NotAlone(began, s) \/ op' = began
    BY <1>9, <2>1, <2>3 DEF Load
  <2>5. op' \in [SubCallers -> Ops]
    BY <2>3, <2>4, AloneTypes
  <2> QED
    BY <1>9, <2>5 DEF Load, SubTypeOK
<1>10. CASE AskGateway(c)
  <2>1. PICK st : st = IF o.kind = "update" THEN "read" ELSE "store"
    OBVIOUS
  <2>2. PICK n : n = [o EXCEPT !.stage = st, !.terms = FirstTerms]
    OBVIOUS
  <2>3. n \in Ops
    BY <2>1, <2>2, FirstTermsAssumption DEF Ops, OpStages
  <2>4. o.stage = "ask" /\ UNCHANGED <<subRow, subEvents, disturbed, troubles>>
    BY <1>1, <1>10 DEF AskGateway, At
  <2>5. CASE Done(c) /\ UNCHANGED gw
    BY <1>6, <2>4, <2>5 DEF SubTypeOK
  <2>6. CASE ~(Done(c) /\ UNCHANGED gw)
    <3>1. /\ gw' = IF o.kind = "update" THEN [gw EXCEPT ![o.sub].terms = o.terms]
                                        ELSE [gw EXCEPT ![o.sub].raw = RawAfter(o.kind)]
          /\ op' = [op EXCEPT ![c].stage = st, ![c].terms = FirstTerms]
      BY <1>1, <1>10, <2>1, <2>6 DEF AskGateway
    <3>2. op' = [op EXCEPT ![c] = n]
      BY <1>1, <2>2, <3>1 DEF SubTypeOK, Ops
    <3>3. op' \in [SubCallers -> Ops]
      BY <1>4, <2>3, <3>2
    <3>4. CASE o.kind = "update"
      <4>1. gw' \in [Subs -> Gateway]
        BY <1>2, <3>1, <3>4 DEF SubTypeOK, Gateway
      <4> QED
        BY <2>4, <3>3, <4>1 DEF SubTypeOK
    <3>5. CASE o.kind # "update"
      <4>1. RawAfter(o.kind) \in RawStatuses
        BY <1>2, <2>4, <3>5, SubValues
      <4>2. PICK raw \in RawStatuses : raw = RawAfter(o.kind)
        BY <4>1
      <4>3. gw' \in [Subs -> Gateway]
        BY <3>1, <3>5, <4>2 DEF SubTypeOK, Gateway
      <4> QED
        BY <2>4, <3>3, <4>3 DEF SubTypeOK
    <3> QED
      BY <3>4, <3>5
  <2> QED
    BY <2>5, <2>6
<1>11. CASE GetSubscription(c)
  <2>1. o.stage = "read" /\ o.sub \in Subs
    BY <1>1, <1>2, <1>11 DEF GetSubscription, At
  <2>2. PICK v \in Gateway : v = gw[o.sub]
    BY <2>1 DEF SubTypeOK
  <2>3. PICK n : n = [o EXCEPT !.view = v, !.stage = "store"]
    OBVIOUS
  <2>4. n \in Ops
    BY <2>3 DEF Ops, OpStages
  <2>5. op' = [op EXCEPT ![c] = n]
    BY <1>1, <1>11, <2>2, <2>3 DEF GetSubscription, SubTypeOK, Ops
  <2> QED
    BY <1>4, <1>11, <2>4, <2>5 DEF GetSubscription, SubTypeOK
<1>12. CASE StoreView(c)
  <2>1. PICK rec : rec = ApplyGateway(o.view)
    OBVIOUS
  <2>2. rec \in SubRows
    BY <1>2, <2>1, SubValues DEF SubRows, Gateway, ApplyGateway
  <2>3. subRow' = [subRow EXCEPT ![o.sub] = rec] /\ (Done(c) \/ OpTo(c, "publish"))
    BY <1>1, <1>12, <2>1 DEF StoreView
  <2>4. op' \in [SubCallers -> Ops]
    BY <1>5, <1>6, <2>3 DEF OpStages
  <2>5. disturbed' \subseteq disturbed /\ UNCHANGED <<gw, subEvents, troubles>>
    BY <1>12 DEF StoreView
  <2> QED
    BY <2>2, <2>3, <2>4, <2>5 DEF SubTypeOK
<1>13. CASE SetStatus(c)
  <2>1. PICK status \in SubStatuses : status = StatusAfter(o.kind)
    BY <1>1, <1>13, SubValues DEF SetStatus
  <2>2. subRow' = [subRow EXCEPT ![o.sub].status = status] /\ OpTo(c, "publish")
    BY <1>1, <1>13, <2>1 DEF SetStatus
  <2>3. subRow' \in [Subs -> SubRows]
    BY <2>2 DEF SubTypeOK, SubRows
  <2>4. op' \in [SubCallers -> Ops]
    BY <1>5, <2>2 DEF OpStages
  <2> QED
    BY <1>13, <2>3, <2>4 DEF SetStatus, SubTypeOK
<1>14. CASE Publish(c)
  <2>1. o.sub \in Subs
    BY <1>1, <1>2, <1>14 DEF Publish, At
  <2>2. DedupeKey(o) \in Subs \X Kinds
    BY <1>2, <2>1 DEF DedupeKey
  <2> QED
    BY <1>1, <1>6, <1>14, <2>2 DEF Publish, SubTypeOK
<1>15. CASE Abort(c)
  <2>1. o.sub \in Subs
    BY <1>1, <1>2, <1>15 DEF Abort, At
  <2> QED
    BY <1>1, <1>6, <1>15, <2>1, TroublesAssumption DEF Abort, Trouble, SubTypeOK
<1> QED
  BY <1>7, <1>8, <1>9, <1>10, <1>11, <1>12, <1>13, <1>14, <1>15

LEMMA SubTypes == ASSUME FollowInv, SubTypeOK, [SubNext]_subVars PROVE SubTypeOK'
<1>1. ASSUME NEW s \in Subs, GatewayMoves(s) PROVE SubTypeOK'
  <2>1. PICK raw \in RawStatuses : gw' = [gw EXCEPT ![s].raw = raw]
    BY <1>1 DEF GatewayMoves
  <2>2. gw' \in [Subs -> Gateway]
    BY <2>1 DEF SubTypeOK, Gateway
  <2>3. op' \in [SubCallers -> Ops]
    BY <1>1, AloneTypes DEF GatewayMoves, SubTypeOK
  <2> QED
    BY <1>1, <2>2, <2>3, TroublesAssumption DEF GatewayMoves, Trouble, SubTypeOK
<1>2. ASSUME UNCHANGED subVars PROVE SubTypeOK'
  BY <1>2 DEF SubTypeOK, subVars
<1> QED
  BY <1>1, <1>2, SubStepTypes DEF SubNext

-----------------------------------------------------------------------------
(* The services together: every variable of every service has its type,     *)
(* whichever of them takes the steps.  Each invariant of a part is enough   *)
(* for that part's steps.                                                   *)

ServicesInv ==
  /\ part \in Parts
  /\ KeysInv
  /\ StartupInv /\ StartupTypeOK
  /\ SessionsInv
  /\ LimiterInv
  /\ FollowInv /\ SubTypeOK
  /\ PromotionInv
  /\ AdmissionInv
  /\ BookInv /\ BookTypeOK
  /\ ListingInv

LEMMA ServicesStart == ServicesInit => ServicesInv
BY InitKeys, InitStartup, StartupInitTypes, InitSessions, InitLimiter, InitFollows, SubInitTypes,
   InitPromotions, InitAdmission, InitBook, BookInitTypes, InitListing
   DEF ServicesInit, ServicesInv

LEMMA ServicesStep == ServicesInv /\ [ServicesNext]_servicesVars => ServicesInv'
<1> SUFFICES ASSUME ServicesInv, [ServicesNext]_servicesVars PROVE ServicesInv'
  OBVIOUS
<1>1. /\ part' = part
      /\ [KeysNext]_keyVars
      /\ [StartupNext]_startupVars
      /\ [SessionsNext]_sessionVars
      /\ [LimiterNext]_limiterVars
      /\ [SubNext]_subVars
      /\ [AccountsNext]_accountVars
      /\ [AdmissionNext]_admissionVars
      /\ [BookNext]_bookVars
      /\ [ListingNext]_listingVars
  <2>1. CASE UNCHANGED servicesVars
    BY <2>1 DEF servicesVars
  <2>2. CASE ServicesNext
    BY <2>2 DEF ServicesNext
  <2> QED
    BY <2>1, <2>2
<1>2. KeysInv' /\ StartupInv' /\ SessionsInv' /\ LimiterInv' /\ FollowInv'
  BY <1>1, KeysStep, StartupStep, SessionsStep, LimiterStep, FollowStep DEF ServicesInv
<1>3. PromotionInv' /\ AdmissionInv' /\ BookInv' /\ ListingInv'
  BY <1>1, PromotionStep, AdmissionStep, BookStep, ListingStep DEF ServicesInv
<1>4. StartupTypeOK' /\ SubTypeOK' /\ BookTypeOK'
  BY <1>1, StartupTypes, SubTypes, BookTypes DEF ServicesInv
<1> QED
  BY <1>1, <1>2, <1>3, <1>4 DEF ServicesInv

(* Whatever the sizes of the sets and the bounds, the services' variables   *)
(* keep their types: no counter passes its bound, no bucket goes below zero *)
(* or above the burst, no row, session, handler or transaction is left half *)
(* written.                                                                 *)
THEOREM ServicesTyped == ServicesSpec => []ServicesTypeOK
<1>1. ServicesInv => ServicesTypeOK
  BY DEF ServicesInv, ServicesTypeOK, KeysInv, SessionsInv, LimiterInv, PromotionInv, AdmissionInv,
         ListingInv
<1> QED
  BY <1>1, ServicesStart, ServicesStep, PTL DEF ServicesSpec
=============================================================================

------------------------------ MODULE Startup ------------------------------
(* How the processes of an installation start (run in apps/api/main.go and  *)
(* apps/worker/main.go, Container.Bootstrap in app/wire.go): connect, apply *)
(* the migrations this binary knows under the advisory lock                 *)
(* (storage/migrate.go), and, in an API process, create the first           *)
(* administrator, which no lock protects (auth/service.go).  Binaries of    *)
(* different releases may start together, and any of them may die.  A       *)
(* migration of one name has one text in every release, so the checksums    *)
(* agree.                                                                   *)
EXTENDS Naturals, FiniteSets

CONSTANTS
  Instances,     \* processes of the installation
  Apis,          \* those that serve the API; the others are workers
  Known,         \* Known[p]: number of migrations in p's binary
  NoInstance,
  MaxKills       \* bound: processes killed

ASSUME KnownAssumption == \A p \in Instances : Known[p] \in Nat
ASSUME LatestAssumption == \E p \in Instances : \A q \in Instances : Known[q] <= Known[p]
ASSUME KillsAssumption == MaxKills \in Nat
ASSUME NoInstanceAssumption == NoInstance \notin Instances

VARIABLES
  schema,   \* the migrations applied: 1..n, with their bookkeeping rows
  lock,     \* holder of the advisory lock, a session of that process
  stage,    \* where each process is
  seen,     \* appliedMigrations, as each process read it
  admins,   \* number of administrators
  failure,  \* why a process last gave up
  kills

startupVars == <<schema, lock, stage, seen, admins, failure, kills>>

Latest == CHOOSE n \in {Known[p] : p \in Instances} : \A p \in Instances : Known[p] <= n
Migrations == 1..Latest
LoadMigrations(p) == 1..Known[p]

Running == {"locking", "reading", "migrating", "counting", "creating", "serving"}
StartStages == Running \cup {"down"}
Failures == {"none", "migration", "admin", "killed"}

StartupTypeOK ==
  /\ schema \subseteq Migrations
  /\ lock \in Instances \cup {NoInstance}
  /\ stage \in [Instances -> StartStages]
  /\ seen \in [Instances -> SUBSET Migrations]
  /\ admins \in 0..1
  /\ failure \in [Instances -> Failures]
  /\ kills \in 0..MaxKills

StartupInit ==
  /\ schema = {}
  /\ lock = NoInstance
  /\ stage = [p \in Instances |-> "down"]
  /\ seen = [p \in Instances |-> {}]
  /\ admins = 0
  /\ failure = [p \in Instances |-> "none"]
  /\ kills = 0

StageTo(p, s) == stage' = [stage EXCEPT ![p] = s]

(* A lock that outlives its holder. *)
BugExit(p, why) ==
  /\ StageTo(p, "down")
  /\ failure' = [failure EXCEPT ![p] = why]
  /\ UNCHANGED lock

(* The process ends with an error; its database sessions, and with them the *)
(* lock, end too.                                                           *)
Exit(p, why) ==
  /\ StageTo(p, "down")
  /\ failure' = [failure EXCEPT ![p] = why]
  /\ lock' = IF lock = p THEN NoInstance ELSE lock

(* restart: unless-stopped brings every process back.                       *)
Run(p) ==
  /\ stage[p] = "down"
  /\ StageTo(p, "locking")
  /\ UNCHANGED <<schema, lock, seen, admins, failure, kills>>

(* No lock. *)
BugLockFree == TRUE

(* SELECT pg_advisory_lock: waits for whoever migrates.                     *)
LockFree == lock = NoInstance

AcquireLock(p) ==
  /\ stage[p] = "locking"
  /\ LockFree
  /\ lock' = p
  /\ StageTo(p, "reading")
  /\ UNCHANGED <<schema, seen, admins, failure, kills>>

AppliedMigrations(p) ==
  /\ stage[p] = "reading"
  /\ seen' = [seen EXCEPT ![p] = schema]
  /\ StageTo(p, "migrating")
  /\ UNCHANGED <<schema, lock, admins, failure, kills>>

(* Migrations left to the API processes. *)
BugPending(p) == IF p \in Apis THEN LoadMigrations(p) \ seen[p] ELSE {}

(* What this binary knows and the database does not have. *)
Pending(p) == LoadMigrations(p) \ seen[p]

(* The next migration and its row in one transaction: a statement that was  *)
(* run before, or a row that exists, fails the whole of it.                 *)
ApplyMigration(p) ==
  /\ stage[p] = "migrating"
  /\ \E m \in Pending(p) :
       /\ \A n \in Pending(p) : m <= n
       /\ IF m \notin schema
            THEN /\ schema' = schema \cup {m}
                 /\ seen' = [seen EXCEPT ![p] = @ \cup {m}]
                 /\ UNCHANGED <<stage, failure, lock>>
            ELSE Exit(p, "migration") /\ UNCHANGED <<schema, seen>>
  /\ UNCHANGED <<admins, kills>>

(* Migrate returns and unlocks; a worker serves, an API process goes on to  *)
(* EnsureBootstrapAdmin.                                                    *)
Migrated(p) ==
  /\ stage[p] = "migrating"
  /\ Pending(p) = {}
  /\ lock' = IF lock = p THEN NoInstance ELSE lock
  /\ StageTo(p, IF p \in Apis THEN "counting" ELSE "serving")
  /\ UNCHANGED <<schema, seen, admins, failure, kills>>

CountAdmins(p) ==
  /\ stage[p] = "counting"
  /\ StageTo(p, IF admins > 0 THEN "serving" ELSE "creating")
  /\ UNCHANGED <<schema, lock, seen, admins, failure, kills>>

(* CreateAdmin: the address is unique, and every process is configured with *)
(* the same one, so the second to insert gives up.                          *)
CreateAdmin(p) ==
  /\ stage[p] = "creating"
  /\ IF admins = 0 THEN /\ admins' = 1
                        /\ StageTo(p, "serving")
                        /\ UNCHANGED <<lock, failure>>
                   ELSE Exit(p, "admin") /\ UNCHANGED admins
  /\ UNCHANGED <<schema, seen, kills>>

Kill(p) ==
  /\ stage[p] # "down"
  /\ kills < MaxKills
  /\ kills' = kills + 1
  /\ Exit(p, "killed")
  /\ UNCHANGED <<schema, seen, admins>>

StartStep(p) ==
  \/ Run(p) \/ AcquireLock(p) \/ AppliedMigrations(p) \/ ApplyMigration(p)
  \/ Migrated(p) \/ CountAdmins(p) \/ CreateAdmin(p)

StartupNext == \E p \in Instances : StartStep(p) \/ Kill(p)

StartupSpec == StartupInit /\ [][StartupNext]_startupVars

-----------------------------------------------------------------------------
(* A process never fails to start because another one is migrating, or died *)
(* while it was (Migrate: the lock "serialises concurrent API and worker    *)
(* instances starting at the same time").                                   *)
NoMigrationFails == \A p \in Instances : failure[p] # "migration"

(* A process that serves finds every table its binary needs, in whatever    *)
(* order the releases started, and migrations were applied in order.        *)
ServesItsSchema ==
  /\ \A p \in Instances : stage[p] \in {"counting", "creating", "serving"}
       => LoadMigrations(p) \subseteq schema
  /\ \A m \in schema : 1..m \subseteq schema

(* Once one process is being started, all of them end up serving for good:  *)
(* the lock of a dead one is free again, and an API process that lost the   *)
(* race for the first administrator finds it when it is restarted.          *)
EveryoneServes ==
  (\E p \in Instances : stage[p] = "locking") ~> [](\A p \in Instances : stage[p] = "serving")
=============================================================================

----------------------------- MODULE Deployment ------------------------------
(***************************************************************************)
(* Bringing the system up: the one-shot containers that run                *)
(* sv-migrate && sv-seed (storage/migrate.py, apps/seed.py) before the     *)
(* services of their stack start.  Two stacks may come up on one database, *)
(* and a container that failed may be run again.                           *)
(***************************************************************************)
EXTENDS Integers, FiniteSets

CONSTANTS
  Migrators,   \* the one-shot containers
  LastVersion  \* the migration files are numbered 1 .. LastVersion

Versions == 1 .. LastVersion

ASSUME DeploymentConstants == LastVersion \in Nat /\ IsFiniteSet(Migrators)

VARIABLES
  stage,     \* stage[m]: what container m does next
  pending,   \* pending[m]: the files it found unapplied and has yet to apply
  recorded,  \* schema_migrations
  applied,   \* applied[v]: how often the file v has been committed
  seeded     \* security holds the reference universe

deployVars == <<stage, pending, recorded, applied, seeded>>

DeployInit ==
  /\ stage = [m \in Migrators |-> "idle"]
  /\ pending = [m \in Migrators |-> {}]
  /\ recorded = {}
  /\ applied = [v \in Versions |-> 0]
  /\ seeded = FALSE

\* The set of applied versions is read once, before the loop.
StartMigrator(m) ==
  /\ stage[m] = "idle"
  /\ stage' = [stage EXCEPT ![m] = "migrating"]
  /\ pending' = [pending EXCEPT ![m] = Versions \ recorded]
  /\ UNCHANGED <<recorded, applied, seeded>>

NextPending(m) == {v \in pending[m] : \A u \in pending[m] : v <= u}

\* Mutant: INSERT ... ON CONFLICT DO NOTHING.
ApplyPendingTolerant(m) ==
  /\ stage[m] = "migrating"
  /\ \E v \in NextPending(m) :
       /\ recorded' = recorded \cup {v}
       /\ applied' = [applied EXCEPT ![v] = @ + 1]
       /\ pending' = [pending EXCEPT ![m] = @ \ {v}]
  /\ UNCHANGED <<stage, seeded>>

\* One file and the insertion of its version in one transaction.  If another
\* container recorded the version first, the primary key makes the insertion
\* raise, which rolls the transaction back: MigratorFails.
ApplyPending(m) ==
  /\ stage[m] = "migrating"
  /\ \E v \in NextPending(m) \ recorded :
       /\ recorded' = recorded \cup {v}
       /\ applied' = [applied EXCEPT ![v] = @ + 1]
       /\ pending' = [pending EXCEPT ![m] = @ \ {v}]
  /\ UNCHANGED <<stage, seeded>>

MigrationsDone(m) ==
  /\ stage[m] = "migrating"
  /\ pending[m] = {}
  /\ stage' = [stage EXCEPT ![m] = "seeding"]
  /\ UNCHANGED <<pending, recorded, applied, seeded>>

\* seed_universe: one upsert of all securities.
Seed(m) ==
  /\ stage[m] = "seeding"
  /\ seeded' = TRUE
  /\ stage' = [stage EXCEPT ![m] = "done"]
  /\ UNCHANGED <<pending, recorded, applied>>

\* The connection or a statement fails, or the container is stopped: && does
\* not run the seed, and the container may be started again.
MigratorFails(m) ==
  /\ stage[m] \in {"migrating", "seeding"}
  /\ stage' = [stage EXCEPT ![m] = "idle"]
  /\ pending' = [pending EXCEPT ![m] = {}]
  /\ UNCHANGED <<recorded, applied, seeded>>

DeployNext ==
  \E m \in Migrators :
    \/ StartMigrator(m)
    \/ ApplyPending(m)
    \/ MigrationsDone(m)
    \/ Seed(m)
    \/ MigratorFails(m)

\* service_completed_successfully.
ServicesMayStart == \E m \in Migrators : stage[m] = "done"

DeployTypeOK ==
  /\ stage \in [Migrators -> {"idle", "migrating", "seeding", "done"}]
  /\ pending \in [Migrators -> SUBSET Versions]
  /\ recorded \subseteq Versions
  /\ applied \in [Versions -> Nat]
  /\ seeded \in BOOLEAN

\* A migration is recorded exactly when it has been applied, once, and only
\* after all earlier ones, and when the services start the schema and the
\* universe are complete: whatever containers run together, fail and run
\* again (storage/migrate.py:28-39, deploy/docker-compose.yml).
MigrationsOnce ==
  /\ \A v \in Versions : applied[v] = IF v \in recorded THEN 1 ELSE 0
  /\ \A v \in recorded : 1 .. v \subseteq recorded
  /\ ServicesMayStart => recorded = Versions /\ seeded

=============================================================================

---------------------------- MODULE SchemaDeploy ----------------------------
(***************************************************************************)
(* db:migrate:deploy: a preflight that looks at the tables of a database   *)
(* and at the record of the baseline migration, the recording of that      *)
(* baseline for a database older than the migrations, prisma migrate       *)
(* deploy, and a comparison with schema.prisma. Several deployments may    *)
(* run, and every one may die anywhere; DDL is not undone.                 *)
(***************************************************************************)
EXTENDS Naturals, FiniteSets

CONSTANTS
    Core,       \* the tables of the baseline migration
    Later,      \* the tables of the migrations after it
    Deployers,
    None

ASSUME SchemaDeployAssumption ==
    Core # {} /\ Core \cap Later = {} /\ "foreign" \notin Core \cup Later /\ None \notin Deployers

VARIABLES
    tables,  \* the tables of the database
    columns, \* the baseline's tables have the baseline's columns and keys
    record,  \* _prisma_migrations, per migration
    lock,    \* Prisma's advisory lock
    job,     \* deployments
    broken   \* the database came in no known form, or a deployment died between two statements of DDL

deployVars == <<tables, columns, record, lock, job, broken>>

Migrations == {"baseline", "later"}
TablesOf(m) == IF m = "baseline" THEN Core ELSE Later
Everything == Core \cup Later

NoJob == [pc |-> "idle", saw |-> {}, records |-> FALSE, made |-> {}]
Pcs == {"idle", "looked", "fresh", "resolve", "ready", "refuse", "locked", "verify", "verified", "failed"} \cup Migrations

DeployTypeOK ==
    /\ tables \subseteq Everything \cup {"foreign"} /\ {columns, broken} \subseteq BOOLEAN
    /\ record \in [Migrations -> {"none", "started", "applied"}] /\ lock \in Deployers \cup {None}
    /\ job \in [Deployers -> [pc: Pcs, saw: SUBSET (Everything \cup {"foreign"}), records: BOOLEAN, made: SUBSET Everything]]
    /\ \A d \in Deployers : job[d].pc \in Migrations \cup {"locked"} => lock = d

(* An empty database, one as old as the baseline, one that is up to date; and others,
   such as one made by db:push, which has every table and no record of any. *)
Known(t, c, r) ==
    \/ t = {} /\ r = [m \in Migrations |-> "none"]
    \/ t = Core /\ c /\ r = [m \in Migrations |-> "none"]
    \/ t = Everything /\ c /\ r = [m \in Migrations |-> "applied"]
DeployInit(databases) ==
    /\ \E d \in databases : tables = d.tables /\ columns = d.columns /\ record = d.record
    /\ broken = ~Known(tables, columns, record)
    /\ lock = None /\ job = [d \in Deployers |-> NoJob]

Goes(d, pc) == job' = [job EXCEPT ![d].pc = pc]
Recorded == \E m \in Migrations : record[m] # "none"

-----------------------------------------------------------------------------
(* The preflight reads tables first, columns and the baseline's record later. *)
InspectTables(d) ==
    /\ job[d].pc = "idle"
    /\ job' = [job EXCEPT ![d] = [NoJob EXCEPT !.pc = "looked", !.saw = tables, !.records = Recorded]]
    /\ UNCHANGED <<tables, columns, record, lock, broken>>

(* Mutants: a schema that lacks tables is taken for complete; a record is never expected. *)
PlanOfParts(saw, whole, baseline) ==
    IF baseline = "started" THEN "refuse"
    ELSE IF saw \cap Core = {} THEN IF baseline = "applied" \/ saw # {} THEN "refuse" ELSE "fresh"
    ELSE IF ~whole THEN "refuse" ELSE IF baseline = "applied" THEN "ready" ELSE "resolve"
PlanUnrecorded(saw, whole, baseline) ==
    IF baseline # "none" THEN "refuse"
    ELSE IF saw \cap Core = {} THEN IF saw # {} THEN "refuse" ELSE "fresh"
    ELSE IF ~(Core \subseteq saw) \/ ~whole THEN "refuse" ELSE "resolve"
Plan(saw, whole, baseline) ==
    IF baseline = "started" THEN "refuse"
    ELSE IF saw \cap Core = {} THEN IF baseline = "applied" \/ saw # {} THEN "refuse" ELSE "fresh"
    ELSE IF ~(Core \subseteq saw) \/ ~whole THEN "refuse" ELSE IF baseline = "applied" THEN "ready" ELSE "resolve"

PlanFreshBaseline(d) ==
    /\ job[d].pc = "looked"
    /\ Goes(d, Plan(job[d].saw, columns, IF job[d].records THEN record["baseline"] ELSE "none"))
    /\ UNCHANGED <<tables, columns, record, lock, broken>>

(* Prisma refuses to record what is recorded. *)
ResolveBaseline(d) ==
    /\ job[d].pc = "resolve"
    /\ IF record["baseline"] = "applied"
         THEN Goes(d, "failed") /\ UNCHANGED record
         ELSE Goes(d, "ready") /\ record' = [record EXCEPT !["baseline"] = "applied"]
    /\ UNCHANGED <<tables, columns, lock, broken>>

-----------------------------------------------------------------------------
(* Mutant: the lock of another deployment is not waited for. *)
StartUnlocked(d) ==
    /\ job[d].pc \in {"fresh", "ready"}
    /\ Goes(d, "locked") /\ lock' = d
    /\ UNCHANGED <<tables, columns, record, broken>>

(* prisma migrate deploy: under a lock; nothing while a migration is unfinished,
   nothing on a database with tables and without records. *)
StartDeploy(d) ==
    /\ job[d].pc \in {"fresh", "ready"} /\ lock = None
    /\ IF (\E m \in Migrations : record[m] = "started") \/ (tables # {} /\ ~Recorded)
         THEN Goes(d, "failed") /\ UNCHANGED lock
         ELSE Goes(d, "locked") /\ lock' = d
    /\ UNCHANGED <<tables, columns, record, broken>>

LockTimeout(d) ==
    /\ job[d].pc \in {"fresh", "ready"} /\ lock # None
    /\ Goes(d, "failed")
    /\ UNCHANGED <<tables, columns, record, lock, broken>>

StartMigration(d, m) ==
    /\ job[d].pc = "locked" /\ record[m] = "none"
    /\ m = "later" => record["baseline"] = "applied"
    /\ record' = [record EXCEPT ![m] = "started"]
    /\ job' = [job EXCEPT ![d].pc = m, ![d].made = {}]
    /\ UNCHANGED <<tables, columns, lock, broken>>

(* A table that is there already fails the migration, which stays unfinished. *)
CreateTable(d) ==
    /\ job[d].pc \in Migrations
    /\ \E t \in TablesOf(job[d].pc) \ job[d].made :
         IF t \in tables
           THEN Goes(d, "failed") /\ lock' = None /\ broken' = TRUE /\ UNCHANGED tables
           ELSE tables' = tables \cup {t} /\ job' = [job EXCEPT ![d].made = @ \cup {t}] /\ UNCHANGED <<lock, broken>>
    /\ UNCHANGED <<columns, record>>

FinishMigration(d) ==
    /\ job[d].pc \in Migrations /\ TablesOf(job[d].pc) = job[d].made
    /\ record' = [record EXCEPT ![job[d].pc] = "applied"]
    /\ columns' = (columns \/ job[d].pc = "baseline")
    /\ Goes(d, "locked")
    /\ UNCHANGED <<tables, lock, broken>>

EndDeploy(d) ==
    /\ job[d].pc = "locked" /\ \A m \in Migrations : record[m] = "applied"
    /\ Goes(d, "verify") /\ lock' = None
    /\ UNCHANGED <<tables, columns, record, broken>>

(* prisma migrate diff against schema.prisma; before it, when a fresh database is
   verified, every table of the baseline and every record is looked for. *)
Verify(d) ==
    /\ job[d].pc = "verify"
    /\ Goes(d, IF tables = Everything /\ columns THEN "verified" ELSE "failed")
    /\ UNCHANGED <<tables, columns, record, lock, broken>>

DieDeploying(d) ==
    /\ job[d].pc \notin {"idle", "verified", "failed", "refuse"}
    /\ Goes(d, "failed") /\ lock' = (IF lock = d THEN None ELSE lock)
    /\ broken' = (broken \/ job[d].pc \in Migrations)
    /\ UNCHANGED <<tables, columns, record>>

DeployStep(d) ==
    \/ InspectTables(d) \/ PlanFreshBaseline(d) \/ ResolveBaseline(d) \/ StartDeploy(d) \/ LockTimeout(d)
    \/ (\E m \in Migrations : StartMigration(d, m)) \/ CreateTable(d) \/ FinishMigration(d) \/ EndDeploy(d)
    \/ Verify(d) \/ DieDeploying(d)

-----------------------------------------------------------------------------
Current == tables = Everything /\ columns /\ \A m \in Migrations : record[m] = "applied"

(* What the record says was created is there, although for an old database *)
(* it is written without executing a statement.                            *)
RecordedMeansPresent == record["baseline"] = "applied" => Core \subseteq tables /\ columns

(* A database that came empty, old or up to date can always be deployed    *)
(* to again, whichever deployments died, failed or met each other, unless  *)
(* one died between two statements of DDL.                                 *)
CanBeDeployedAgain ==
    (~broken /\ lock = None) =>
        /\ Plan(tables, columns, record["baseline"]) # "refuse"
        /\ \A m \in Migrations : record[m] # "started"

(* Deployments that die, fail or meet record nothing that is not there and leave a
   database for the next one. *)
DeploymentsRecover == RecordedMeansPresent /\ CanBeDeployedAgain
=============================================================================

---------------------------- MODULE Provisioning ----------------------------
(***************************************************************************)
(* deploy.sh and what it runs: the check of the environment, the           *)
(* migrations, the bootstrap of store and accounts until its marker is     *)
(* written, the scrubbing of the credentials, and the start of the server. *)
(* The script may die anywhere; what it started goes on. Beside it, the    *)
(* parts by themselves: migrations of databases of every kind, the         *)
(* accounts in use, the demo seed of a development database.               *)
(***************************************************************************)
EXTENDS SchemaDeploy, Bootstrap, DemoSeed, RuntimeConfig, ServerProcess

CONSTANTS
    Databases0,  \* databases a deployment may find
    Environments,
    Primary      \* the store PRIMARY_STORE_ID names

(* Where the record says that the baseline was applied, it was. *)
ASSUME ProvisioningAssumption ==
    /\ Environments \subseteq Settings
    /\ \A d \in Databases0 :
        /\ d \in [tables: SUBSET (Everything \cup {"foreign"}), columns: BOOLEAN,
                  record: [Migrations -> {"none", "started", "applied"}]]
        /\ d.record["baseline"] = "applied" => Core \subseteq d.tables /\ d.columns

VARIABLES
    scene,    \* which of the parts a behaviour is about
    env,      \* the environment of all programs
    script,   \* deploy.sh: [pc, child]
    marker,   \* bootstrap-complete
    scrubbed  \* the bootstrap's credentials are gone from the environment file

scriptVars == <<script, marker, scrubbed>>
vars == <<deployVars, bootVars, seedVars, serverVars, scene, env, scriptVars>>

Scenes == {"schema", "install", "accounts", "seed", "server"}
ScriptPcs == {"idle", "migrate", "migrating", "bootstrap", "bootstrapping", "mark", "scrub", "activate", "done"}

ProvisioningTypeOK ==
    /\ DeployTypeOK /\ BootstrapTypeOK /\ SeedTypeOK /\ ServerTypeOK
    /\ scene \in Scenes /\ env \in Settings /\ {marker, scrubbed} \subseteq BOOLEAN
    /\ script \in [pc: ScriptPcs, child: Deployers \cup Jobs \cup {None}]

NoScript == [pc |-> "idle", child |-> None]
UpToDate == {d \in Databases0 : d.tables = Everything /\ d.columns /\ \A m \in Migrations : d.record[m] = "applied"}

Init ==
    /\ scene \in Scenes /\ env \in Environments
    /\ scene \in {"schema", "install", "accounts"} => BootstrapAccepts(env) /\ validateEnv(env) = {}
    /\ scene = "seed" <=> assertDemoSeedAllowed(env)
    /\ DeployInit(CASE scene = "schema" -> Databases0
                    [] scene = "install" -> {d \in Databases0 : Known(d.tables, d.columns, d.record)}
                    [] OTHER -> UpToDate)
    /\ BootstrapInit /\ ServerInit /\ script = NoScript /\ marker = FALSE /\ scrubbed = FALSE
    /\ SeedInit /\ (scene # "seed" => rows = {} /\ ~codeTaken)

-----------------------------------------------------------------------------
CanStart == validateEnv(env) = {} /\ Current /\ db.code[Primary] # Nothing

ByScript == scene = "install" /\ UNCHANGED <<seedVars, scene, env>>

(* The environment, and the bootstrap's while there is no marker. *)
CheckEnvironment ==
    /\ script.pc = "idle" /\ validateEnv(env) = {} /\ (marker \/ (~scrubbed /\ BootstrapAccepts(env)))
    /\ script' = [script EXCEPT !.pc = "migrate"]
    /\ UNCHANGED <<deployVars, bootVars, serverVars, marker, scrubbed>>

Migrate(d) ==
    /\ script.pc = "migrate" /\ InspectTables(d)
    /\ script' = [pc |-> "migrating", child |-> d]
    /\ UNCHANGED <<bootVars, serverVars, marker, scrubbed>>

(* Mutant: the exit code of the migrations is not looked at. *)
MigratedAnyway ==
    /\ script.pc = "migrating" /\ job[script.child].pc \in {"verified", "failed", "refuse"}
    /\ script' = [pc |-> IF marker THEN "scrub" ELSE "bootstrap", child |-> None]
    /\ UNCHANGED <<deployVars, bootVars, serverVars, marker, scrubbed>>
Migrated ==
    /\ script.pc = "migrating" /\ job[script.child].pc \in {"verified", "failed", "refuse"}
    /\ script' = IF job[script.child].pc # "verified" THEN NoScript
                 ELSE [pc |-> IF marker THEN "scrub" ELSE "bootstrap", child |-> None]
    /\ UNCHANGED <<deployVars, bootVars, serverVars, marker, scrubbed>>

RunBootstrap(j) ==
    /\ script.pc = "bootstrap" /\ \E c \in Configs : c.store = Primary /\ StartBootstrap(j, c)
    /\ script' = [pc |-> "bootstrapping", child |-> j]
    /\ UNCHANGED <<deployVars, serverVars, marker, scrubbed>>

(* The script goes on when its child has committed, and dies with its child's error. *)
StepOfChild(j) ==
    /\ \E committed \in BOOLEAN :
         /\ IF committed THEN Commits(j) /\ CommitBootstrap(j) ELSE (~Commits(j) /\ CommitBootstrap(j)) \/ BootstrapDies(j)
         /\ script' = IF script # [pc |-> "bootstrapping", child |-> j] \/ boot'[j] # NoBoot THEN script
                      ELSE IF committed THEN [pc |-> "mark", child |-> None] ELSE NoScript
    /\ UNCHANGED <<deployVars, serverVars, marker, scrubbed>>

(* Mutant: the credentials are scrubbed before the marker is on disk. *)
ScrubFirst ==
    /\ script.pc = "mark" /\ marker' = marker /\ scrubbed' = TRUE
    /\ script' = [script EXCEPT !.pc = "scrub"]
    /\ UNCHANGED <<deployVars, bootVars, serverVars>>
Mark ==
    /\ script.pc = "mark" /\ marker' = TRUE
    /\ script' = [script EXCEPT !.pc = "scrub"]
    /\ UNCHANGED <<deployVars, bootVars, serverVars, scrubbed>>

Scrub ==
    /\ script.pc = "scrub" /\ scrubbed' = TRUE
    /\ script' = [script EXCEPT !.pc = "activate"]
    /\ UNCHANGED <<deployVars, bootVars, serverVars, marker>>

Activate ==
    /\ script.pc = "activate" /\ StartServer(CanStart)
    /\ script' = [script EXCEPT !.pc = "done"]
    /\ UNCHANGED <<deployVars, bootVars, marker, scrubbed>>

ScriptDies ==
    /\ script.pc \notin {"idle", "done"} /\ script' = NoScript
    /\ UNCHANGED <<deployVars, bootVars, serverVars, marker, scrubbed>>

(* A later release. *)
DeployAgain ==
    /\ script.pc = "done" /\ script' = NoScript
    /\ UNCHANGED <<deployVars, bootVars, serverVars, marker, scrubbed>>

Install ==
    /\ \/ CheckEnvironment \/ Migrated \/ Mark \/ Scrub \/ Activate \/ ScriptDies \/ DeployAgain
       \/ \E d \in Deployers :
            \/ Migrate(d)
            \/ job[d].pc # "idle" /\ DeployStep(d) /\ UNCHANGED <<bootVars, serverVars, scriptVars>>
       \/ \E j \in Jobs : RunBootstrap(j) \/ StepOfChild(j)
    /\ ByScript

MigrateAnything ==
    /\ scene = "schema" /\ \E d \in Deployers : DeployStep(d)
    /\ UNCHANGED <<bootVars, seedVars, serverVars, scriptVars, scene, env>>

KeepAccounts ==
    /\ scene = "accounts" /\ (UsersStep \/ \E j \in Jobs : BootstrapStep(j))
    /\ UNCHANGED <<deployVars, seedVars, serverVars, scriptVars, scene, env>>

SeedStore ==
    /\ scene = "seed" /\ (StartSeed \/ SeedStep \/ StoreStep)
    /\ UNCHANGED <<deployVars, bootVars, serverVars, scriptVars, scene, env>>

Serve ==
    /\ scene = "server" /\ (StartServer(validateEnv(env) = {}) \/ ServerStep)
    /\ UNCHANGED <<deployVars, bootVars, seedVars, scriptVars, scene, env>>

Next == Install \/ MigrateAnything \/ KeepAccounts \/ SeedStore \/ Serve

Spec == Init /\ [][Next]_vars /\ ServerFairness

-----------------------------------------------------------------------------
(* When deploy.sh starts the containers, the server passes its own checks: *)
(* the environment, the schema, and the row of the primary store, wherever *)
(* earlier runs of the script have died.                                   *)
ActivationStarts == script.pc = "activate" => CanStart

(* A run that died can be repeated: the credentials are in the environment *)
(* file until the marker says that nobody needs them any more.             *)
CredentialsAreKept == scrubbed => marker

(* An environment the bootstrap makes a store and accounts for is one the  *)
(* server does not refuse for its store or its accounts.                   *)
NotBootstrappedInVain ==
    BootstrapAccepts(env) => validateStoreEnv(env) \cup validateBootstrapAccountGroups(env) = {}

(* An installation that died anywhere can be taken up again and ends with a server
   that starts. *)
InstallationResumes == ProvisioningTypeOK /\ ActivationStarts /\ CredentialsAreKept /\ NotBootstrappedInVain
=============================================================================

-------------------------- MODULE ProvisioningProofs --------------------------
(***************************************************************************)
(* Deployments of any number, of any tables, that die anywhere or meet:    *)
(* the record of the baseline never runs ahead of the tables, and a        *)
(* database in a known form stays one that can be deployed to. Bootstraps  *)
(* of any number keep the accounts in line. An installation that dies      *)
(* anywhere can be taken up again.                                         *)
(***************************************************************************)
EXTENDS Provisioning, SequenceTheorems, FiniteSetTheorems, TLAPS

(* What a deployment has seen or made is still there when it acts on it. *)
JobHolds(d) ==
    /\ job[d].pc # "idle" => job[d].saw \subseteq tables
    /\ job[d].pc = "resolve" => Core \subseteq tables /\ columns
    /\ job[d].pc \in Migrations => job[d].made \subseteq tables /\ record[job[d].pc] # "none"
    /\ job[d].pc = "later" => record["baseline"] = "applied"

(* Without a death in the middle of DDL, an unfinished migration is somebody's, and a
   database without a record is empty or complete. *)
KnownForm ==
    /\ record["baseline"] = "none" => tables = {} \/ (Core \subseteq tables /\ columns)
    /\ \A m \in Migrations : record[m] = "started" => lock \in Deployers /\ job[lock].pc = m

DeployInv ==
    /\ DeployTypeOK /\ RecordedMeansPresent /\ (~broken => KnownForm)
    /\ \A d \in Deployers : JobHolds(d)

LEMMA DeployStarts ==
    ASSUME NEW databases \in SUBSET Databases0, DeployInit(databases)
    PROVE  DeployInv
<1>1. PICK found \in databases : tables = found.tables /\ columns = found.columns /\ record = found.record
  BY DEF DeployInit
<1>2. /\ tables \subseteq Everything \cup {"foreign"} /\ columns \in BOOLEAN
      /\ record \in [Migrations -> {"none", "started", "applied"}] /\ RecordedMeansPresent
  BY <1>1, ProvisioningAssumption DEF RecordedMeansPresent
<1>3. job = [d \in Deployers |-> NoJob] /\ lock = None /\ broken = ~Known(tables, columns, record)
  BY DEF DeployInit
<1>4. DeployTypeOK
  BY <1>2, <1>3 DEF DeployTypeOK, NoJob, Pcs, Migrations
<1>5. ASSUME ~broken PROVE KnownForm
  <2>1. Known(tables, columns, record)
    BY <1>3, <1>5
  <2>2. QED
    BY <2>1 DEF Known, KnownForm, Migrations, Everything
<1>6. \A d \in Deployers : JobHolds(d)
  BY <1>3 DEF JobHolds, NoJob, Migrations
<1>7. QED
  BY <1>2, <1>4, <1>5, <1>6 DEF DeployInv

(* Going on, field by field. *)
LEMMA GoesFacts ==
    ASSUME DeployTypeOK, NEW d \in Deployers, NEW pc \in Pcs, Goes(d, pc)
    PROVE  /\ job' \in [Deployers -> [pc: Pcs, saw: SUBSET (Everything \cup {"foreign"}), records: BOOLEAN, made: SUBSET Everything]]
           /\ job'[d].pc = pc /\ job'[d].saw = job[d].saw /\ job'[d].made = job[d].made
           /\ \A e \in Deployers : e # d => job'[e] = job[e]
BY DEF DeployTypeOK, Goes

LEMMA ReadingStep ==
    ASSUME DeployInv, NEW d \in Deployers, InspectTables(d) \/ PlanFreshBaseline(d) \/ Verify(d)
    PROVE  DeployInv'
<1> UNCHANGED <<tables, columns, record, lock, broken>>
  BY DEF InspectTables, PlanFreshBaseline, Verify
<1>1. DeployTypeOK /\ JobHolds(d) /\ tables \subseteq Everything \cup {"foreign"}
  BY DEF DeployInv, DeployTypeOK
<1>2. /\ job' \in [Deployers -> [pc: Pcs, saw: SUBSET (Everything \cup {"foreign"}), records: BOOLEAN, made: SUBSET Everything]]
      /\ job'[d].pc \in {"looked", "fresh", "resolve", "ready", "refuse", "verified", "failed"}
      /\ job'[d].saw \subseteq tables
      /\ job'[d].pc = "resolve" => Core \subseteq tables /\ columns
      /\ job[d].pc \notin Migrations \cup {"locked"}
      /\ \A e \in Deployers : e # d => job'[e] = job[e]
  <2>1. CASE InspectTables(d)
    <3>1. [NoJob EXCEPT !.pc = "looked", !.saw = tables, !.records = Recorded]
             \in [pc: Pcs, saw: SUBSET (Everything \cup {"foreign"}), records: BOOLEAN, made: SUBSET Everything]
      BY <1>1 DEF NoJob, Pcs, Recorded
    <3>2. QED
      BY <1>1, <2>1, <3>1 DEF InspectTables, NoJob, DeployTypeOK, Migrations
  <2>2. CASE PlanFreshBaseline(d)
    <3> DEFINE pc == Plan(job[d].saw, columns, IF job[d].records THEN record["baseline"] ELSE "none")
    <3>1. pc \in {"fresh", "resolve", "ready", "refuse"} /\ (pc = "resolve" => Core \subseteq job[d].saw /\ columns)
      BY DEF Plan
    <3>2. Goes(d, pc) /\ job[d].pc = "looked"
      BY <2>2 DEF PlanFreshBaseline
    <3> HIDE DEF pc
    <3>3. pc \in Pcs
      BY <3>1 DEF Pcs
    <3>4. QED
      BY <1>1, <3>1, <3>2, <3>3, GoesFacts DEF JobHolds, Migrations
  <2>3. CASE Verify(d)
    BY <1>1, <2>3, GoesFacts DEF Verify, Pcs, JobHolds, Migrations
  <2>4. QED
    BY <2>1, <2>2, <2>3
<1>3. DeployTypeOK'
  BY <1>1, <1>2 DEF DeployTypeOK, Migrations
<1>4. \A e \in Deployers : JobHolds(e)'
  BY <1>2 DEF DeployInv, JobHolds, Migrations
<1>5. ASSUME ~broken PROVE KnownForm'
  BY <1>1, <1>2, <1>5 DEF DeployInv, KnownForm
<1>6. QED
  BY <1>3, <1>4, <1>5 DEF DeployInv, RecordedMeansPresent

(* A step that only moves one deployment on, to where nothing is owed. *)
LEMMA MovingOn ==
    ASSUME DeployInv, NEW d \in Deployers, NEW pc \in Pcs, Goes(d, pc), UNCHANGED <<tables, columns, record>>,
           pc \notin Migrations \cup {"resolve", "idle"}, job[d].pc # "idle",
           broken => broken', broken' \in BOOLEAN,
           \/ lock' = lock /\ (lock = d => job[d].pc \notin Migrations) /\ pc # "locked"
           \/ lock' = d /\ lock = None
           \/ lock' = None /\ lock = d /\ pc # "locked" /\ (job[d].pc \notin Migrations \/ broken')
    PROVE  DeployInv'
<1>1. DeployTypeOK /\ JobHolds(d) /\ None \notin Deployers
  BY SchemaDeployAssumption DEF DeployInv
<1>2. /\ job' \in [Deployers -> [pc: Pcs, saw: SUBSET (Everything \cup {"foreign"}), records: BOOLEAN, made: SUBSET Everything]]
      /\ job'[d].pc = pc /\ job'[d].saw = job[d].saw /\ job'[d].made = job[d].made
      /\ \A e \in Deployers : e # d => job'[e] = job[e]
  BY <1>1, GoesFacts
<1>3. DeployTypeOK'
  BY <1>1, <1>2 DEF DeployTypeOK
<1>4. \A e \in Deployers : JobHolds(e)'
  BY <1>1, <1>2 DEF DeployInv, JobHolds, Migrations
<1>5. ASSUME ~broken' PROVE KnownForm'
  <2>1. KnownForm
    BY <1>5 DEF DeployInv
  <2>2. ASSUME NEW m \in Migrations, record[m] = "started" PROVE lock' = lock /\ lock \in Deployers /\ job'[lock].pc = m
    <3>1. lock \in Deployers /\ job[lock].pc = m
      BY <2>1, <2>2 DEF KnownForm
    <3>2. QED
      BY <1>1, <1>2, <1>5, <2>2, <3>1
  <2>3. QED
    BY <2>1, <2>2 DEF KnownForm
<1>6. QED
  BY <1>3, <1>4, <1>5 DEF DeployInv, RecordedMeansPresent

LEMMA WaitingStep ==
    ASSUME DeployInv, NEW d \in Deployers, StartDeploy(d) \/ LockTimeout(d) \/ EndDeploy(d) \/ DieDeploying(d)
    PROVE  DeployInv'
<1>1. DeployTypeOK /\ broken \in BOOLEAN /\ None \notin Deployers
  BY SchemaDeployAssumption DEF DeployInv, DeployTypeOK
<1>2. CASE StartDeploy(d) \/ LockTimeout(d)
  <2>1. /\ job[d].pc \in {"fresh", "ready"} /\ UNCHANGED <<tables, columns, record, broken>>
        /\ \/ Goes(d, "failed") /\ lock' = lock
           \/ Goes(d, "locked") /\ lock = None /\ lock' = d
    BY <1>2 DEF StartDeploy, LockTimeout
  <2>2. QED
    BY <1>1, <2>1, MovingOn DEF Pcs, Migrations
<1>3. CASE EndDeploy(d)
  <2>1. job[d].pc = "locked" /\ lock = d
    BY <1>1, <1>3 DEF EndDeploy, DeployTypeOK
  <2>2. QED
    BY <1>1, <1>3, <2>1, MovingOn DEF EndDeploy, Pcs, Migrations
<1>4. CASE DieDeploying(d)
  <2>1. /\ job[d].pc # "idle" /\ Goes(d, "failed") /\ UNCHANGED <<tables, columns, record>>
        /\ lock' = (IF lock = d THEN None ELSE lock) /\ broken' = (broken \/ job[d].pc \in Migrations)
    BY <1>4 DEF DieDeploying
  <2>2. CASE lock = d
    BY <1>1, <2>1, <2>2, MovingOn DEF Pcs, Migrations
  <2>3. CASE lock # d
    BY <1>1, <2>1, <2>3, MovingOn DEF Pcs, Migrations
  <2>4. QED
    BY <2>2, <2>3
<1>5. QED
  BY <1>2, <1>3, <1>4

LEMMA ResolveStep == ASSUME DeployInv, NEW d \in Deployers, ResolveBaseline(d) PROVE DeployInv'
<1>1. /\ DeployTypeOK /\ JobHolds(d) /\ job[d].pc = "resolve" /\ Core \subseteq tables /\ columns
      /\ broken \in BOOLEAN
  BY DEF DeployInv, DeployTypeOK, JobHolds, ResolveBaseline
<1>2. CASE record["baseline"] = "applied"
  BY <1>1, <1>2, MovingOn DEF ResolveBaseline, Pcs, Migrations
<1>3. CASE record["baseline"] # "applied"
  <2>1. /\ Goes(d, "ready") /\ record' = [record EXCEPT !["baseline"] = "applied"]
        /\ UNCHANGED <<tables, columns, lock, broken>>
    BY <1>3 DEF ResolveBaseline
  <2>2. /\ job' \in [Deployers -> [pc: Pcs, saw: SUBSET (Everything \cup {"foreign"}), records: BOOLEAN, made: SUBSET Everything]]
        /\ job'[d].pc = "ready" /\ job'[d].saw = job[d].saw /\ job'[d].made = job[d].made
        /\ \A e \in Deployers : e # d => job'[e] = job[e]
    BY <1>1, <2>1, GoesFacts DEF Pcs
  <2>3. /\ record' \in [Migrations -> {"none", "started", "applied"}] /\ record'["baseline"] = "applied"
        /\ record'["later"] = record["later"]
    BY <1>1, <2>1 DEF DeployTypeOK, Migrations
  <2>4. DeployTypeOK'
    BY <1>1, <2>1, <2>2, <2>3 DEF DeployTypeOK, Migrations
  <2>5. \A e \in Deployers : JobHolds(e)'
    BY <1>1, <2>1, <2>2, <2>3 DEF DeployInv, JobHolds, Migrations
  <2>6. ASSUME ~broken PROVE KnownForm'
    BY <1>1, <2>1, <2>2, <2>3, <2>6 DEF DeployInv, KnownForm, Migrations
  <2>7. QED
    BY <1>1, <2>1, <2>4, <2>5, <2>6 DEF DeployInv, RecordedMeansPresent
<1>4. QED
  BY <1>2, <1>3

LEMMA MigratingStep ==
    ASSUME DeployInv, NEW d \in Deployers,
           CreateTable(d) \/ FinishMigration(d) \/ \E m \in Migrations : StartMigration(d, m)
    PROVE  DeployInv'
<1>1. /\ DeployTypeOK /\ JobHolds(d) /\ lock = d /\ broken \in BOOLEAN /\ columns \in BOOLEAN /\ None \notin Deployers
      /\ record \in [Migrations -> {"none", "started", "applied"}] /\ job[d].pc \in Migrations \cup {"locked"}
      /\ tables \subseteq Everything \cup {"foreign"}
  BY SchemaDeployAssumption DEF DeployInv, DeployTypeOK, CreateTable, FinishMigration, StartMigration
<1>2. \A e \in Deployers : e # d => job[e].pc \notin Migrations \cup {"locked"}
  BY <1>1 DEF DeployTypeOK
<1>3. ASSUME NEW m \in Migrations, StartMigration(d, m) PROVE DeployInv'
  <2>1. /\ record[m] = "none" /\ (m = "later" => record["baseline"] = "applied") /\ job[d].pc = "locked"
        /\ record' = [record EXCEPT ![m] = "started"] /\ job' = [job EXCEPT ![d].pc = m, ![d].made = {}]
        /\ UNCHANGED <<tables, columns, lock, broken>>
    BY <1>3 DEF StartMigration
  <2>2. /\ job' \in [Deployers -> [pc: Pcs, saw: SUBSET (Everything \cup {"foreign"}), records: BOOLEAN, made: SUBSET Everything]]
        /\ job'[d].pc = m /\ job'[d].saw = job[d].saw /\ job'[d].made = {}
        /\ \A e \in Deployers : e # d => job'[e] = job[e]
    <3>1. job' = [job EXCEPT ![d] = [job[d] EXCEPT !.pc = m, !.made = {}]]
      BY <1>1, <2>1 DEF DeployTypeOK
    <3>2. job[d] \in [pc: Pcs, saw: SUBSET (Everything \cup {"foreign"}), records: BOOLEAN, made: SUBSET Everything]
          /\ m \in Pcs
      BY <1>1 DEF DeployTypeOK, Pcs, Migrations
    <3>3. QED
      BY <1>1, <3>1, <3>2 DEF DeployTypeOK
  <2>3. DeployTypeOK'
    BY <1>1, <1>2, <2>1, <2>2 DEF DeployTypeOK, Migrations
  <2>4. \A e \in Deployers : JobHolds(e)'
    <3>1. \A n \in Migrations : record[n] # "none" => record'[n] = record[n]
      BY <1>1, <2>1
    <3>2. record'[m] = "started" /\ "baseline" \in Migrations /\ Migrations = {"baseline", "later"}
      BY <1>1, <2>1 DEF Migrations
    <3>3. JobHolds(d)'
      BY <1>1, <2>1, <2>2, <3>1, <3>2 DEF JobHolds
    <3>4. ASSUME NEW e \in Deployers, e # d PROVE JobHolds(e)'
      BY <1>2, <2>1, <2>2, <3>2, <3>4 DEF DeployInv, JobHolds
    <3>5. QED
      BY <3>3, <3>4
  <2>5. RecordedMeansPresent'
    BY <1>1, <2>1 DEF DeployInv, RecordedMeansPresent, Migrations
  <2>6. ASSUME ~broken PROVE KnownForm'
    BY <1>1, <2>1, <2>2, <2>6 DEF DeployInv, KnownForm, Migrations
  <2>7. QED
    BY <2>1, <2>3, <2>4, <2>5, <2>6 DEF DeployInv
<1>4. CASE CreateTable(d)
  <2>1. PICK t \in TablesOf(job[d].pc) \ job[d].made :
           IF t \in tables
             THEN Goes(d, "failed") /\ lock' = None /\ broken' = TRUE /\ UNCHANGED tables
             ELSE tables' = tables \cup {t} /\ job' = [job EXCEPT ![d].made = @ \cup {t}] /\ UNCHANGED <<lock, broken>>
    BY <1>4 DEF CreateTable
  <2>2. CASE t \in tables
    BY <1>1, <1>4, <2>1, <2>2, MovingOn DEF CreateTable, Pcs, Migrations
  <2>3. CASE t \notin tables
    <3>1. /\ job[d].pc \in Migrations /\ t \in Everything /\ tables' = tables \cup {t}
          /\ UNCHANGED <<columns, record, lock, broken>>
      BY <1>4, <2>1, <2>3 DEF CreateTable, TablesOf, Everything
    <3>2. /\ job' \in [Deployers -> [pc: Pcs, saw: SUBSET (Everything \cup {"foreign"}), records: BOOLEAN, made: SUBSET Everything]]
          /\ job'[d].pc = job[d].pc /\ job'[d].saw = job[d].saw /\ job'[d].made = job[d].made \cup {t}
          /\ \A e \in Deployers : e # d => job'[e] = job[e]
      BY <1>1, <2>1, <2>3, <3>1 DEF DeployTypeOK
    <3>3. DeployTypeOK'
      BY <1>1, <3>1, <3>2 DEF DeployTypeOK
    <3>4. \A e \in Deployers : JobHolds(e)'
      BY <1>1, <3>1, <3>2 DEF DeployInv, JobHolds, Migrations
    <3>5. RecordedMeansPresent'
      BY <3>1 DEF DeployInv, RecordedMeansPresent
    <3>6. ASSUME ~broken PROVE KnownForm'
      <4>1. record["baseline"] # "none"
        BY <1>1, <3>1 DEF JobHolds, Migrations
      <4>2. QED
        BY <1>1, <3>1, <3>2, <3>6, <4>1 DEF DeployInv, KnownForm, Migrations
    <3>7. QED
      BY <3>1, <3>3, <3>4, <3>5, <3>6 DEF DeployInv
  <2>4. QED
    BY <2>2, <2>3
<1>5. CASE FinishMigration(d)
  <2>1. /\ job[d].pc \in Migrations /\ TablesOf(job[d].pc) = job[d].made
        /\ record' = [record EXCEPT ![job[d].pc] = "applied"] /\ columns' = (columns \/ job[d].pc = "baseline")
        /\ Goes(d, "locked") /\ UNCHANGED <<tables, lock, broken>>
    BY <1>5 DEF FinishMigration
  <2>2. /\ job' \in [Deployers -> [pc: Pcs, saw: SUBSET (Everything \cup {"foreign"}), records: BOOLEAN, made: SUBSET Everything]]
        /\ job'[d].pc = "locked" /\ job'[d].saw = job[d].saw /\ job'[d].made = job[d].made
        /\ \A e \in Deployers : e # d => job'[e] = job[e]
    BY <1>1, <2>1, GoesFacts DEF Pcs
  <2>3. /\ record' \in [Migrations -> {"none", "started", "applied"}] /\ columns' \in BOOLEAN /\ (columns => columns')
        /\ record'[job[d].pc] = "applied" /\ \A m \in Migrations : m # job[d].pc => record'[m] = record[m]
    BY <1>1, <2>1
  <2>4. DeployTypeOK'
    BY <1>1, <1>2, <2>1, <2>2, <2>3 DEF DeployTypeOK
  <2>5. \A e \in Deployers : JobHolds(e)'
    BY <1>1, <1>2, <2>1, <2>2, <2>3 DEF DeployInv, JobHolds, Migrations
  <2>6. RecordedMeansPresent'
    <3>1. CASE job[d].pc = "baseline"
      <4>1. Core \subseteq tables /\ columns'
        BY <1>1, <2>1, <3>1 DEF JobHolds, TablesOf, Migrations
      <4>2. QED
        BY <2>1, <4>1 DEF RecordedMeansPresent
    <3>2. CASE job[d].pc = "later"
      BY <1>1, <2>1, <2>3, <3>2 DEF DeployInv, RecordedMeansPresent, Migrations
    <3>3. QED
      BY <2>1, <3>1, <3>2 DEF Migrations
  <2>7. ASSUME ~broken PROVE KnownForm'
    <3>1. KnownForm
      BY <2>7 DEF DeployInv
    <3>2. ASSUME NEW m \in Migrations, record'[m] = "started" PROVE FALSE
      BY <1>1, <2>1, <2>3, <3>1, <3>2 DEF KnownForm
    <3>3. record'["baseline"] # "none"
      BY <1>1, <2>1, <2>3 DEF JobHolds, Migrations
    <3>4. QED
      BY <3>2, <3>3 DEF KnownForm
  <2>8. QED
    BY <2>1, <2>4, <2>5, <2>6, <2>7 DEF DeployInv
<1>6. QED
  BY <1>3, <1>4, <1>5

LEMMA DeployStepHolds == ASSUME DeployInv, NEW d \in Deployers, DeployStep(d) PROVE DeployInv'
BY ReadingStep, WaitingStep, ResolveStep, MigratingStep DEF DeployStep

LEMMA DeployStutters == ASSUME DeployInv, UNCHANGED deployVars PROVE DeployInv'
BY DEF deployVars, DeployInv, DeployTypeOK, RecordedMeansPresent, KnownForm, JobHolds

(* Nothing but deployments changes the schema. *)
LEMMA OnlyDeployments ==
    ASSUME Next
    PROVE  (\E d \in Deployers : DeployStep(d)) \/ UNCHANGED deployVars
BY DEF Next, Install, MigrateAnything, KeepAccounts, SeedStore, Serve, CheckEnvironment, Migrated, Mark, Scrub, Activate,
   ScriptDies, DeployAgain, Migrate, RunBootstrap, StepOfChild, DeployStep

(* Deployments that die, fail or meet record nothing that is not there, and *)
(* leave a database for the next one unless one died between two statements.*)
THEOREM DeploymentsAlwaysRecover == Spec => []DeploymentsRecover
<1>1. ASSUME Init PROVE DeployInv
  <2>1. PICK databases \in SUBSET Databases0 : DeployInit(databases)
    BY <1>1 DEF Init, UpToDate
  <2>2. QED
    BY <2>1, DeployStarts
<1>2. DeployInv /\ [Next]_vars => DeployInv'
  BY OnlyDeployments, DeployStepHolds, DeployStutters DEF vars
<1>3. ASSUME DeployInv PROVE DeploymentsRecover
  <2>1. ASSUME ~broken, lock = None
        PROVE  Plan(tables, columns, record["baseline"]) # "refuse" /\ \A m \in Migrations : record[m] # "started"
    <3>1. KnownForm /\ None \notin Deployers /\ record \in [Migrations -> {"none", "started", "applied"}]
      BY <1>3, <2>1, SchemaDeployAssumption DEF DeployInv, DeployTypeOK
    <3>2. \A m \in Migrations : record[m] # "started"
      BY <2>1, <3>1 DEF KnownForm
    <3>3. record["baseline"] \in {"none", "applied"}
      BY <3>1, <3>2 DEF Migrations
    <3>4. (tables = {} /\ record["baseline"] = "none") \/ (Core \subseteq tables /\ columns)
      BY <1>3, <3>1, <3>3 DEF KnownForm, DeployInv, RecordedMeansPresent
    <3>5. Plan(tables, columns, record["baseline"]) # "refuse"
      BY <3>3, <3>4, SchemaDeployAssumption DEF Plan
    <3>6. QED
      BY <3>2, <3>5
  <2>2. QED
    BY <1>3, <2>1 DEF DeploymentsRecover, CanBeDeployedAgain, DeployInv
<1>4. QED
  BY <1>1, <1>2, <1>3, PTL DEF Spec

-----------------------------------------------------------------------------
(* The bootstrap for any configurations, runs and users: what a database    *)
(* holds after a run, and what bringing one account in line does to the     *)
(* database, field by field.                                                *)
Person == [active: BOOLEAN, must: BOOLEAN, roles: SUBSET Roles]
Password == Secrets \cup {Own, Nothing}
Account == [name: Names, phone: Phones, password: Secrets]

DbOk(d) ==
    /\ d \in [code: [StoreIds -> Codes \cup {Nothing}], owner: [Identifiers -> Nat],
              password: [Names -> Password], people: Seq(Person),
              sessions: SUBSET [user: Nat, name: Names, with: Password]]
    /\ \A i \in Identifiers : d.owner[i] <= Len(d.people)

(* A session is its name's owner's, and knows the name's password. *)
SessionsOk(d) ==
    \A s \in d.sessions : s.user # 0 /\ d.owner[s.name] = s.user /\ d.password[s.name] = s.with

(* What bringing an account in line establishes. *)
InLineUser(d, a, wanted) ==
    /\ d.owner[a.name] # 0 /\ d.owner[a.phone] = d.owner[a.name]
    /\ d.password[a.name] = a.password
    /\ d.people[d.owner[a.name]].active
    /\ wanted \subseteq d.people[d.owner[a.name]].roles
    /\ \A r \in d.people[d.owner[a.name]].roles : (\E w \in wanted : r[1] = w[1]) => r \in wanted

AdminRoles == {<<"SUPER_ADMIN", "global">>, <<"ADMIN", "global">>}
MerchantRoles(c) == {<<"MERCHANT", c.store>>}
InLine(d, c) ==
    /\ InLineUser(d, c.admin, AdminRoles) /\ InLineUser(d, c.merchant, MerchantRoles(c))
    /\ d.code[c.store] = c.code /\ \A s \in StoreIds \ {c.store} : d.code[s] # c.code

-----------------------------------------------------------------------------
(* The user of an account, and what becomes of him. *)
IsNew(d, a) == d.owner[a.name] = 0 /\ d.owner[a.phone] = 0
UserOf(d, a) ==
    IF IsNew(d, a) THEN Len(d.people) + 1 ELSE IF d.owner[a.name] # 0 THEN d.owner[a.name] ELSE d.owner[a.phone]
Before(d, a) ==
    IF IsNew(d, a) THEN [active |-> TRUE, must |-> FALSE, roles |-> {}] ELSE d.people[UserOf(d, a)]
After(d, a, roles) ==
    [active |-> TRUE, must |-> Before(d, a).must \/ IsNew(d, a) \/ d.password[a.name] # a.password,
     roles |-> ensureRoles(Before(d, a).roles, roles)]
Changed(d, a, roles) ==
    d.password[a.name] # a.password \/ After(d, a, roles) # Before(d, a) \/ d.owner[a.name] = 0 \/ d.owner[a.phone] = 0

LEMMA UpsertForm ==
    ASSUME NEW d, NEW a, NEW roles
    PROVE  upsertBootstrapUser(d, a, roles) =
             [d EXCEPT !.people = IF IsNew(d, a) THEN Append(@, After(d, a, roles))
                                  ELSE [@ EXCEPT ![UserOf(d, a)] = After(d, a, roles)],
                       !.owner = Identified(@, a, UserOf(d, a)),
                       !.password[a.name] = a.password,
                       !.sessions = IF Changed(d, a, roles) THEN SessionsWithout(@, UserOf(d, a)) ELSE @]
BY DEF upsertBootstrapUser, IsNew, UserOf, Before, After, Changed

(* The user is there before, unless he is new. *)
LEMMA UserFacts ==
    ASSUME NEW d, DbOk(d), NEW a \in Account, NEW roles \in SUBSET Roles
    PROVE  /\ UserOf(d, a) \in Nat /\ UserOf(d, a) # 0
           /\ IsNew(d, a) => UserOf(d, a) = Len(d.people) + 1
           /\ ~IsNew(d, a) => UserOf(d, a) \in DOMAIN d.people
           /\ d.owner[a.name] \in {0, UserOf(d, a)}
           /\ Before(d, a) \in Person /\ After(d, a, roles) \in Person
           /\ a.name \in Identifiers /\ a.phone \in Identifiers /\ a.name # a.phone
<1>1. /\ a.name \in Names /\ a.phone \in Phones /\ a.password \in Secrets
      /\ a.name \in Identifiers /\ a.phone \in Identifiers /\ a.name # a.phone
  BY BootstrapAssumption DEF Account, Identifiers, BootstrapAssumption
<1>2. /\ d.people \in Seq(Person) /\ Len(d.people) \in Nat /\ d.owner \in [Identifiers -> Nat]
      /\ \A i \in Identifiers : d.owner[i] <= Len(d.people)
  BY DEF DbOk
<1>3. d.owner[a.name] \in Nat /\ d.owner[a.phone] \in Nat
      /\ d.owner[a.name] <= Len(d.people) /\ d.owner[a.phone] <= Len(d.people)
  BY <1>1, <1>2
<1>4. /\ UserOf(d, a) \in Nat /\ UserOf(d, a) # 0 /\ d.owner[a.name] \in {0, UserOf(d, a)}
      /\ IsNew(d, a) => UserOf(d, a) = Len(d.people) + 1
      /\ ~IsNew(d, a) => UserOf(d, a) \in 1 .. Len(d.people)
  BY <1>2, <1>3 DEF UserOf, IsNew
<1>5. ~IsNew(d, a) => UserOf(d, a) \in DOMAIN d.people
  BY <1>2, <1>4
<1>6. Before(d, a) \in Person
  <2>1. CASE IsNew(d, a)
    BY <2>1 DEF Before, Person
  <2>2. CASE ~IsNew(d, a)
    BY <1>2, <1>5, <2>2 DEF Before
  <2>3. QED
    BY <2>1, <2>2
<1>7. ensureRoles(Before(d, a).roles, roles) \in SUBSET Roles
  BY <1>6 DEF Person, ensureRoles
<1>8. After(d, a, roles) \in Person
  <2>1. (Before(d, a).must \/ IsNew(d, a) \/ d.password[a.name] # a.password) \in BOOLEAN
    OBVIOUS
  <2>2. QED
    BY <1>7, <2>1 DEF After, Person
<1>9. QED
  BY <1>1, <1>4, <1>5, <1>6, <1>8

(* Bringing an account in line, field by field. *)
LEMMA Upserted ==
    ASSUME NEW d, DbOk(d), NEW a \in Account, NEW roles \in SUBSET Roles,
           NEW v, v = upsertBootstrapUser(d, a, roles)
    PROVE  /\ DbOk(v) /\ v.code = d.code
           /\ v.owner[a.name] = UserOf(d, a)
           /\ v.owner[a.phone] = IF d.owner[a.phone] = 0 THEN UserOf(d, a) ELSE d.owner[a.phone]
           /\ \A i \in Identifiers : i # a.name /\ i # a.phone => v.owner[i] = d.owner[i]
           /\ v.password[a.name] = a.password /\ \A n \in Names : n # a.name => v.password[n] = d.password[n]
           /\ v.people[UserOf(d, a)] = After(d, a, roles)
           /\ \A x \in DOMAIN d.people : x # UserOf(d, a) => v.people[x] = d.people[x]
           /\ v.sessions \subseteq d.sessions
           /\ Changed(d, a, roles) => \A s \in v.sessions : s.user # UserOf(d, a)
<1> DEFINE u == UserOf(d, a)
           after == After(d, a, roles)
           np == IF IsNew(d, a) THEN Append(d.people, after) ELSE [d.people EXCEPT ![u] = after]
           no == [d.owner EXCEPT ![a.name] = u, ![a.phone] = IF d.owner[a.phone] = 0 THEN u ELSE d.owner[a.phone]]
           nw == [d.password EXCEPT ![a.name] = a.password]
           ns == IF Changed(d, a, roles) THEN SessionsWithout(d.sessions, u) ELSE d.sessions
<1>1. /\ d.people \in Seq(Person) /\ Len(d.people) \in Nat /\ d.owner \in [Identifiers -> Nat]
      /\ d.password \in [Names -> Password] /\ d.code \in [StoreIds -> Codes \cup {Nothing}]
      /\ d.sessions \in SUBSET [user: Nat, name: Names, with: Password]
      /\ \A i \in Identifiers : d.owner[i] <= Len(d.people)
  BY DEF DbOk
<1>2. /\ u \in Nat /\ u # 0 /\ after \in Person /\ d.owner[a.name] \in {0, u}
      /\ IsNew(d, a) => u = Len(d.people) + 1
      /\ ~IsNew(d, a) => u \in DOMAIN d.people
      /\ a.name \in Identifiers /\ a.phone \in Identifiers /\ a.name # a.phone
  BY UserFacts
<1>3. a.name \in Names /\ a.password \in Password
  BY DEF Account, Password
<1>4. v = [code |-> d.code, owner |-> no, password |-> nw, people |-> np, sessions |-> ns]
  <2>1. v = [d EXCEPT !.people = IF IsNew(d, a) THEN Append(@, after) ELSE [@ EXCEPT ![u] = after],
                      !.owner = Identified(@, a, u),
                      !.password[a.name] = a.password,
                      !.sessions = IF Changed(d, a, roles) THEN SessionsWithout(@, u) ELSE @]
    BY UpsertForm, Zenon
  <2> HIDE DEF u, after
  <2>2. Identified(d.owner, a, u) = no
    BY <1>1, <1>2 DEF Identified
  <2>3. d = [code |-> d.code, owner |-> d.owner, password |-> d.password, people |-> d.people, sessions |-> d.sessions]
    BY DEF DbOk
  <2> DEFINE o == Identified(d.owner, a, u)
  <2>4. v = [d EXCEPT !.people = np, !.owner = o, !.password = nw, !.sessions = ns]
    BY <2>1, <2>3
  <2> HIDE DEF np, no, nw, ns, o
  <2>5. v = [code |-> d.code, owner |-> o, password |-> nw, people |-> np, sessions |-> ns]
    BY <2>3, <2>4
  <2>6. QED
    BY <2>2, <2>5 DEF o
<1> HIDE DEF u, after
<1>5. np \in Seq(Person) /\ np[u] = after /\ Len(np) >= Len(d.people) /\ u <= Len(np) /\ Len(np) \in Nat
      /\ \A x \in DOMAIN d.people : x # u => np[x] = d.people[x]
  <2>1. CASE IsNew(d, a)
    BY <1>1, <1>2, <2>1
  <2>2. CASE ~IsNew(d, a)
    <3>1. u \in 1 .. Len(d.people)
      BY <1>1, <1>2, <2>2
    <3>2. np = [d.people EXCEPT ![u] = after]
      BY <2>2
    <3>3. /\ [d.people EXCEPT ![u] = after] \in Seq(Person)
          /\ Len([d.people EXCEPT ![u] = after]) = Len(d.people)
          /\ \A j \in 1 .. Len(d.people) : [d.people EXCEPT ![u] = after][j] = IF j = u THEN after ELSE d.people[j]
      BY <1>1, <1>2, <3>1, ExceptSeq
    <3>4. DOMAIN d.people = 1 .. Len(d.people)
      BY <1>1
    <3>5. QED
      BY <1>1, <3>1, <3>2, <3>3, <3>4
  <2>3. QED
    BY <2>1, <2>2
<1>6. /\ no \in [Identifiers -> Nat] /\ no[a.name] = u
      /\ no[a.phone] = IF d.owner[a.phone] = 0 THEN u ELSE d.owner[a.phone]
      /\ \A i \in Identifiers : i # a.name /\ i # a.phone => no[i] = d.owner[i]
  BY <1>1, <1>2
<1>7. /\ nw \in [Names -> Password] /\ nw[a.name] = a.password
      /\ \A n \in Names : n # a.name => nw[n] = d.password[n]
  BY <1>1, <1>3
<1>8. ns \subseteq d.sessions /\ (Changed(d, a, roles) => \A s \in ns : s.user # u)
  BY DEF SessionsWithout
<1> HIDE DEF np, no, nw, ns
<1>9. \A i \in Identifiers : no[i] <= Len(np)
  <2>1. ASSUME NEW i \in Identifiers PROVE no[i] <= Len(np)
    <3>1. d.owner[i] \in Nat /\ d.owner[i] <= Len(d.people) /\ no[i] \in {u, d.owner[i]}
      BY <1>1, <1>6
    <3>2. QED
      BY <1>1, <1>2, <1>5, <3>1
  <2>2. QED
    BY <2>1
<1>10. /\ v.code = d.code /\ v.owner = no /\ v.password = nw /\ v.people = np /\ v.sessions = ns
  BY <1>4
<1>11. DbOk(v)
  BY <1>1, <1>4, <1>5, <1>6, <1>7, <1>8, <1>9 DEF DbOk
<1>12. QED
  BY <1>5, <1>6, <1>7, <1>8, <1>10, <1>11 DEF u, after

(* It takes nobody's name or phone, and leaves the sessions sound. *)
LEMMA UpsertKeeps ==
    ASSUME NEW d, DbOk(d), SessionsOk(d), NEW a \in Account, NEW roles \in SUBSET Roles,
           NEW v, v = upsertBootstrapUser(d, a, roles)
    PROVE  /\ DbOk(v) /\ SessionsOk(v) /\ v.code = d.code
           /\ \A i \in Identifiers : d.owner[i] # 0 => v.owner[i] = d.owner[i]
<1>1. /\ DbOk(v) /\ v.code = d.code
      /\ v.owner[a.name] = UserOf(d, a)
      /\ v.owner[a.phone] = IF d.owner[a.phone] = 0 THEN UserOf(d, a) ELSE d.owner[a.phone]
      /\ \A i \in Identifiers : i # a.name /\ i # a.phone => v.owner[i] = d.owner[i]
      /\ v.password[a.name] = a.password /\ \A n \in Names : n # a.name => v.password[n] = d.password[n]
      /\ v.sessions \subseteq d.sessions
      /\ Changed(d, a, roles) => \A s \in v.sessions : s.user # UserOf(d, a)
  BY Upserted
<1>2. d.owner[a.name] \in {0, UserOf(d, a)}
  BY UserFacts
<1>3. \A i \in Identifiers : d.owner[i] # 0 => v.owner[i] = d.owner[i]
  BY <1>1, <1>2
<1>4. ASSUME NEW s \in v.sessions PROVE s.user # 0 /\ v.owner[s.name] = s.user /\ v.password[s.name] = s.with
  <2>1. /\ s.user # 0 /\ d.owner[s.name] = s.user /\ d.password[s.name] = s.with /\ s.name \in Names
        /\ s.name \in Identifiers
    BY <1>1 DEF SessionsOk, DbOk, Identifiers
  <2>2. v.owner[s.name] = s.user
    BY <1>3, <2>1
  <2>3. v.password[s.name] = s.with
    <3>1. CASE s.name # a.name
      BY <1>1, <2>1, <3>1
    <3>2. CASE s.name = a.name
      <4>1. s.user = UserOf(d, a)
        BY <1>2, <2>1, <3>2
      <4>2. ~Changed(d, a, roles)
        BY <1>1, <4>1
      <4>3. d.password[a.name] = a.password
        BY <4>2 DEF Changed
      <4>4. QED
        BY <1>1, <2>1, <3>2, <4>3
    <3>3. QED
      BY <3>1, <3>2
  <2>4. QED
    BY <2>1, <2>2, <2>3
<1>5. QED
  BY <1>1, <1>3, <1>4 DEF SessionsOk

(* It brings the account in line, *)
LEMMA UpsertBrings ==
    ASSUME NEW d, DbOk(d), NEW a \in Account, NEW roles \in SUBSET Roles, ~ConflictingUsers(d, a),
           NEW v, v = upsertBootstrapUser(d, a, roles)
    PROVE  InLineUser(v, a, roles)
<1>1. /\ v.owner[a.name] = UserOf(d, a)
      /\ v.owner[a.phone] = IF d.owner[a.phone] = 0 THEN UserOf(d, a) ELSE d.owner[a.phone]
      /\ v.password[a.name] = a.password
      /\ v.people[UserOf(d, a)] = After(d, a, roles)
  BY Upserted
<1>2. UserOf(d, a) # 0
  BY UserFacts
<1>3. v.owner[a.phone] = UserOf(d, a)
  BY <1>1 DEF ConflictingUsers, UserOf, IsNew
<1>4. /\ After(d, a, roles).active /\ roles \subseteq After(d, a, roles).roles
      /\ \A r \in After(d, a, roles).roles : (\E w \in roles : r[1] = w[1]) => r \in roles
  BY DEF After, ensureRoles
<1>5. QED
  BY <1>1, <1>2, <1>3, <1>4 DEF InLineUser

(* leaves an account of another name and other kinds of roles in line, *)
LEMMA UpsertLeaves ==
    ASSUME NEW d, DbOk(d), NEW a \in Account, NEW roles \in SUBSET Roles,
           NEW b \in Account, NEW others \in SUBSET Roles, InLineUser(d, b, others),
           a.name # b.name, \A r \in roles, o \in others : r[1] # o[1],
           NEW v, v = upsertBootstrapUser(d, a, roles)
    PROVE  InLineUser(v, b, others)
<1>1. /\ v.owner[a.name] = UserOf(d, a)
      /\ v.owner[a.phone] = IF d.owner[a.phone] = 0 THEN UserOf(d, a) ELSE d.owner[a.phone]
      /\ \A i \in Identifiers : i # a.name /\ i # a.phone => v.owner[i] = d.owner[i]
      /\ \A n \in Names : n # a.name => v.password[n] = d.password[n]
      /\ v.people[UserOf(d, a)] = After(d, a, roles)
      /\ \A x \in DOMAIN d.people : x # UserOf(d, a) => v.people[x] = d.people[x]
  BY Upserted
<1>2. d.owner[a.name] \in {0, UserOf(d, a)} /\ (IsNew(d, a) => UserOf(d, a) = Len(d.people) + 1)
  BY UserFacts
<1>3. b.name \in Names /\ b.name \in Identifiers /\ b.phone \in Identifiers
  BY DEF Account, Identifiers
<1>4. /\ v.owner[b.name] = d.owner[b.name] /\ v.owner[b.phone] = d.owner[b.phone]
      /\ v.password[b.name] = d.password[b.name]
  BY <1>1, <1>2, <1>3 DEF InLineUser
<1> DEFINE x == d.owner[b.name]
<1>5. x \in DOMAIN d.people /\ x <= Len(d.people) /\ Len(d.people) \in Nat /\ x \in Nat
  BY <1>3 DEF InLineUser, DbOk
<1>6. CASE x # UserOf(d, a)
  <2>1. v.people[x] = d.people[x]
    BY <1>1, <1>5, <1>6
  <2>2. QED
    BY <1>4, <2>1 DEF InLineUser
<1>7. CASE x = UserOf(d, a)
  <2>1. Before(d, a) = d.people[x]
    BY <1>2, <1>5, <1>7 DEF Before
  <2>2. /\ v.people[x].active
        /\ v.people[x].roles = ensureRoles(d.people[x].roles, roles)
    BY <1>1, <1>7, <2>1 DEF After
  <2>3. /\ others \subseteq v.people[x].roles
        /\ \A r \in v.people[x].roles : (\E w \in others : r[1] = w[1]) => r \in others
    BY <2>2 DEF InLineUser, ensureRoles
  <2>4. QED
    BY <1>4, <2>2, <2>3 DEF InLineUser
<1>8. QED
  BY <1>6, <1>7

(* and does nothing to an account that is in line. *)
LEMMA UpsertIsIdempotent ==
    ASSUME NEW d, DbOk(d), NEW a \in Account, NEW roles \in SUBSET Roles, InLineUser(d, a, roles)
    PROVE  ~ConflictingUsers(d, a) /\ upsertBootstrapUser(d, a, roles) = d
<1> DEFINE u == d.owner[a.name]
<1>1. /\ d.people \in Seq(Person) /\ d.owner \in [Identifiers -> Nat] /\ d.password \in [Names -> Password]
      /\ a.name \in Names /\ a.name \in Identifiers /\ a.phone \in Identifiers
      /\ u # 0 /\ d.owner[a.phone] = u /\ d.password[a.name] = a.password
  BY DEF DbOk, Account, Identifiers, InLineUser
<1>2. ~ConflictingUsers(d, a) /\ ~IsNew(d, a) /\ UserOf(d, a) = u
  BY <1>1 DEF ConflictingUsers, IsNew, UserOf
<1>3. u \in DOMAIN d.people /\ d.people[u] \in Person /\ Before(d, a) = d.people[u]
  <2>1. UserOf(d, a) \in DOMAIN d.people
    BY <1>2, UserFacts
  <2>2. QED
    BY <1>1, <1>2, <2>1 DEF Before
<1>4. After(d, a, roles) = d.people[u]
  <2>1. ensureRoles(d.people[u].roles, roles) = d.people[u].roles
    BY DEF InLineUser, ensureRoles
  <2>2. d.people[u].active = TRUE /\ d.people[u].must \in BOOLEAN
    BY <1>3 DEF InLineUser, Person
  <2>3. d.people[u] = [active |-> d.people[u].active, must |-> d.people[u].must, roles |-> d.people[u].roles]
    BY <1>3 DEF Person
  <2>4. After(d, a, roles) = [active |-> TRUE, must |-> d.people[u].must, roles |-> d.people[u].roles]
    <3>1. (Before(d, a).must \/ IsNew(d, a) \/ d.password[a.name] # a.password) = d.people[u].must
      BY <1>1, <1>2, <1>3, <2>2
    <3>2. QED
      BY <1>3, <2>1, <3>1, Zenon DEF After
  <2>5. QED
    BY <2>2, <2>3, <2>4
<1>5. ~Changed(d, a, roles)
  BY <1>1, <1>3, <1>4 DEF Changed
<1> DEFINE p == [d.people EXCEPT ![u] = d.people[u]]
           o == Identified(d.owner, a, u)
           w == [d.password EXCEPT ![a.name] = a.password]
<1>6. p = d.people /\ o = d.owner /\ w = d.password
  <2>1. p = d.people
    BY <1>1, <1>3
  <2>2. w = d.password
    BY <1>1
  <2>3. o = d.owner
    BY <1>1 DEF Identified
  <2>4. QED
    BY <2>1, <2>2, <2>3
<1>7. upsertBootstrapUser(d, a, roles) = [d EXCEPT !.people = p, !.owner = o, !.password = w, !.sessions = d.sessions]
  <2> DEFINE form == [d EXCEPT !.people = IF IsNew(d, a) THEN Append(@, After(d, a, roles))
                                  ELSE [@ EXCEPT ![UserOf(d, a)] = After(d, a, roles)],
                       !.owner = Identified(@, a, UserOf(d, a)),
                       !.password[a.name] = a.password,
                       !.sessions = IF Changed(d, a, roles) THEN SessionsWithout(@, UserOf(d, a)) ELSE @]
  <2>1. upsertBootstrapUser(d, a, roles) = form
    BY UpsertForm, Zenon
  <2>2. form = [d EXCEPT !.people = p, !.owner = o, !.password = w, !.sessions = d.sessions]
    <3>1. d = [code |-> d.code, owner |-> d.owner, password |-> d.password, people |-> d.people, sessions |-> d.sessions]
      BY DEF DbOk
    <3>2. QED
      BY <1>2, <1>4, <1>5, <3>1
  <2>3. QED
    BY <2>1, <2>2
<1> HIDE DEF p, o, w
<1>8. [d EXCEPT !.people = p, !.owner = o, !.password = w, !.sessions = d.sessions] = d
  BY <1>6 DEF DbOk
<1>9. QED
  BY <1>2, <1>7, <1>8

-----------------------------------------------------------------------------
(* A run: the administrator, then the merchant, then the store. *)
LEMMA ConfigFacts ==
    ASSUME NEW c \in Configs
    PROVE  /\ c.admin \in Account /\ c.merchant \in Account /\ c.store \in StoreIds /\ c.code \in Codes
           /\ AdminRoles \in SUBSET Roles /\ MerchantRoles(c) \in SUBSET Roles
           /\ \A r \in AdminRoles, o \in MerchantRoles(c) : r[1] # o[1]
<1>1. c.admin \in Account /\ c.merchant \in Account /\ c.store \in StoreIds /\ c.code \in Codes
  BY BootstrapAssumption DEF BootstrapAssumption, Account
<1>2. AdminRoles \in SUBSET Roles /\ MerchantRoles(c) \in SUBSET Roles
  BY <1>1 DEF AdminRoles, MerchantRoles, Roles
<1>3. \A r \in AdminRoles, o \in MerchantRoles(c) : r[1] # o[1]
  BY DEF AdminRoles, MerchantRoles
<1>4. QED
  BY <1>1, <1>2, <1>3

LEMMA Upserts ==
    ASSUME NEW d, NEW c
    PROVE  /\ WithAdmin(d, c) = upsertBootstrapUser(d, c.admin, AdminRoles)
           /\ Bootstrapped(d, c) =
                [upsertBootstrapUser(WithAdmin(d, c), c.merchant, MerchantRoles(c)) EXCEPT !.code[c.store] = c.code]
BY DEF WithAdmin, Bootstrapped, AdminRoles, MerchantRoles

LEMMA RunBringsInLine ==
    ASSUME NEW d, DbOk(d), SessionsOk(d), NEW c \in Configs, Distinct(c), ~Refused(d, c),
           NEW v, v = Bootstrapped(d, c)
    PROVE  /\ DbOk(v) /\ SessionsOk(v) /\ InLine(v, c)
           /\ \A i \in Identifiers : d.owner[i] # 0 => v.owner[i] = d.owner[i]
<1> DEFINE e == WithAdmin(d, c)
           f == upsertBootstrapUser(e, c.merchant, MerchantRoles(c))
<1>1. /\ c.admin \in Account /\ c.merchant \in Account /\ c.store \in StoreIds /\ c.code \in Codes
      /\ AdminRoles \in SUBSET Roles /\ MerchantRoles(c) \in SUBSET Roles
      /\ \A r \in MerchantRoles(c), o \in AdminRoles : r[1] # o[1]
  BY ConfigFacts
<1>2. /\ ~StoreConflict(d, c) /\ ~ConflictingUsers(d, c.admin) /\ ~ConflictingUsers(e, c.merchant)
  BY DEF Refused
<1>3. e = upsertBootstrapUser(d, c.admin, AdminRoles)
  BY Upserts
<1>4. v = [f EXCEPT !.code[c.store] = c.code]
  BY Upserts
<1> HIDE DEF e
<1>5. /\ DbOk(e) /\ SessionsOk(e) /\ e.code = d.code
      /\ \A i \in Identifiers : d.owner[i] # 0 => e.owner[i] = d.owner[i]
  BY <1>1, <1>3, UpsertKeeps
<1>6. InLineUser(e, c.admin, AdminRoles)
  BY <1>1, <1>2, <1>3, UpsertBrings
<1>7. /\ DbOk(f) /\ SessionsOk(f) /\ f.code = d.code
      /\ \A i \in Identifiers : e.owner[i] # 0 => f.owner[i] = e.owner[i]
  BY <1>1, <1>5, UpsertKeeps
<1>8. InLineUser(f, c.merchant, MerchantRoles(c))
  BY <1>1, <1>2, <1>5, UpsertBrings
<1>9. InLineUser(f, c.admin, AdminRoles)
  BY <1>1, <1>5, <1>6, UpsertLeaves DEF Distinct
<1> HIDE DEF f
<1>10. /\ v.owner = f.owner /\ v.password = f.password /\ v.people = f.people /\ v.sessions = f.sessions
       /\ v.code = [d.code EXCEPT ![c.store] = c.code]
       /\ v = [code |-> v.code, owner |-> f.owner, password |-> f.password, people |-> f.people, sessions |-> f.sessions]
  <2>1. f = [code |-> f.code, owner |-> f.owner, password |-> f.password, people |-> f.people, sessions |-> f.sessions]
    BY <1>7 DEF DbOk
  <2>2. v = [f EXCEPT !.code = [f.code EXCEPT ![c.store] = c.code]]
    BY <1>4
  <2> DEFINE g == [f.code EXCEPT ![c.store] = c.code]
  <2> HIDE DEF g
  <2>3. v = [f EXCEPT !.code = g]
    BY <2>2 DEF g
  <2>4. v = [code |-> g, owner |-> f.owner, password |-> f.password, people |-> f.people, sessions |-> f.sessions]
    BY <2>1, <2>3
  <2>5. QED
    BY <1>7, <2>4 DEF g
<1>11. v.code \in [StoreIds -> Codes \cup {Nothing}] /\ v.code[c.store] = c.code
       /\ \A s \in StoreIds \ {c.store} : v.code[s] # c.code
  BY <1>1, <1>2, <1>10 DEF DbOk, StoreConflict
<1>12. DbOk(v) /\ SessionsOk(v)
  <2>1. SessionsOk(v)
    BY <1>7, <1>10 DEF SessionsOk
  <2>2. DbOk(v)
    BY <1>7, <1>10, <1>11 DEF DbOk
  <2>3. QED
    BY <2>1, <2>2
<1>13. InLine(v, c)
  BY <1>8, <1>9, <1>10, <1>11 DEF InLine, InLineUser
<1>14. QED
  BY <1>5, <1>7, <1>10, <1>12, <1>13

(* A run for a database that is in line is accepted and changes nothing. *)
LEMMA RunDoesNothing ==
    ASSUME NEW d, DbOk(d), NEW c \in Configs, InLine(d, c)
    PROVE  ~Refused(d, c) /\ Bootstrapped(d, c) = d
<1>1. /\ c.admin \in Account /\ c.merchant \in Account /\ c.store \in StoreIds /\ c.code \in Codes
      /\ AdminRoles \in SUBSET Roles /\ MerchantRoles(c) \in SUBSET Roles
  BY ConfigFacts
<1>2. ~ConflictingUsers(d, c.admin) /\ WithAdmin(d, c) = d
  BY <1>1, UpsertIsIdempotent, Upserts DEF InLine
<1>3. ~ConflictingUsers(d, c.merchant) /\ upsertBootstrapUser(d, c.merchant, MerchantRoles(c)) = d
  BY <1>1, UpsertIsIdempotent DEF InLine
<1>4. ~StoreConflict(d, c)
  BY DEF InLine, StoreConflict
<1>5. Bootstrapped(d, c) = [d EXCEPT !.code[c.store] = c.code]
  BY <1>2, <1>3, Upserts
<1>6. [d EXCEPT !.code[c.store] = c.code] = d
  <2> DEFINE g == [d.code EXCEPT ![c.store] = c.code]
  <2>1. g = d.code
    BY <1>1 DEF InLine, DbOk
  <2> HIDE DEF g
  <2>2. [d EXCEPT !.code = g] = d
    BY <2>1 DEF DbOk
  <2>3. QED
    BY <2>2 DEF g
<1>7. QED
  BY <1>2, <1>3, <1>4, <1>5, <1>6 DEF Refused

(* Customers who register, sessions and flags take no account out of line. *)
LEMMA StaysInLine ==
    ASSUME NEW d, DbOk(d), NEW c \in Configs, InLine(d, c), NEW v, v.code = d.code, v.password = d.password,
           \A i \in Identifiers : d.owner[i] # 0 => v.owner[i] = d.owner[i],
           \A x \in DOMAIN d.people : v.people[x].active = d.people[x].active /\ v.people[x].roles = d.people[x].roles
    PROVE  InLine(v, c)
<1>1. c.admin \in Account /\ c.merchant \in Account
  BY ConfigFacts
<1>2. ASSUME NEW a \in Account, NEW roles, InLineUser(d, a, roles) PROVE InLineUser(v, a, roles)
  <2>1. a.name \in Identifiers /\ a.phone \in Identifiers
    BY DEF Account, Identifiers
  <2>2. v.owner[a.name] = d.owner[a.name] /\ v.owner[a.phone] = d.owner[a.phone]
    BY <1>2, <2>1 DEF InLineUser
  <2>3. d.owner[a.name] \in DOMAIN d.people
    BY <1>2, <2>1 DEF InLineUser, DbOk
  <2>4. QED
    BY <1>2, <2>2, <2>3 DEF InLineUser
<1>3. QED
  BY <1>1, <1>2 DEF InLine

-----------------------------------------------------------------------------
BootInv ==
    /\ DbOk(db) /\ SessionsOk(db) /\ last \in Configs \cup {Nothing}
    /\ boot \in [Jobs -> [config: Configs \cup {Nothing}, seen: [Identifiers -> Nat], attempt: Nat]]
    /\ \A j \in Jobs : boot[j] # NoBoot => boot[j].config \in Configs /\ Distinct(boot[j].config)
    /\ Kept => InLine(db, last)

NobodyLoses == \A i \in Identifiers : db.owner[i] # 0 => db'.owner[i] = db.owner[i]

LEMMA BootstrapStarts == ASSUME BootstrapInit PROVE BootInv
<1>1. DbOk(Empty) /\ SessionsOk(Empty)
  BY DEF DbOk, SessionsOk, Empty, Password
<1>2. NoBoot \in [config: Configs \cup {Nothing}, seen: [Identifiers -> Nat], attempt: Nat]
  BY DEF NoBoot, Empty
<1>3. QED
  BY <1>1, <1>2 DEF BootstrapInit, BootInv, Kept

LEMMA StartStep ==
    ASSUME BootInv, NEW j \in Jobs, NEW c \in Configs, StartBootstrap(j, c)
    PROVE  BootInv' /\ NobodyLoses
<1> DEFINE b == [config |-> c, seen |-> db.owner, attempt |-> 1]
<1>1. b \in [config: Configs \cup {Nothing}, seen: [Identifiers -> Nat], attempt: Nat] /\ b.config = c
  BY DEF BootInv, DbOk
<1>2. boot' = [boot EXCEPT ![j] = b] /\ Distinct(c) /\ UNCHANGED <<db, last, touched>>
  BY DEF StartBootstrap
<1> HIDE DEF b
<1>3. QED
  BY <1>1, <1>2 DEF BootInv, NobodyLoses, Kept

LEMMA DiesStep ==
    ASSUME BootInv, NEW j \in Jobs, BootstrapDies(j)
    PROVE  BootInv' /\ NobodyLoses
<1>1. NoBoot \in [config: Configs \cup {Nothing}, seen: [Identifiers -> Nat], attempt: Nat]
  BY DEF NoBoot, Empty
<1>2. boot' = [boot EXCEPT ![j] = NoBoot] /\ UNCHANGED <<db, last, touched>>
  BY DEF BootstrapDies
<1>3. QED
  BY <1>1, <1>2 DEF BootInv, NobodyLoses, Kept

LEMMA CommitStep ==
    ASSUME BootInv, NEW j \in Jobs, CommitBootstrap(j)
    PROVE  BootInv' /\ NobodyLoses
<1>1. /\ DbOk(db) /\ SessionsOk(db) /\ boot[j] # NoBoot /\ boot[j].config \in Configs /\ Distinct(boot[j].config)
      /\ NoBoot \in [config: Configs \cup {Nothing}, seen: [Identifiers -> Nat], attempt: Nat]
  BY DEF BootInv, CommitBootstrap, NoBoot, Empty
<1>2. CASE Commits(j)
  <2>1. WhatItRead(j) = db
    <3>1. boot[j].seen = db.owner
      BY <1>2 DEF Commits, IsSerial
    <3>2. QED
      BY <1>1, <3>1 DEF WhatItRead, DbOk
  <2>2. /\ db' = Bootstrapped(db, boot[j].config) /\ last' = boot[j].config
        /\ boot' = [boot EXCEPT ![j] = NoBoot] /\ ~Refused(db, boot[j].config)
    BY <1>2, <2>1 DEF CommitBootstrap, Commits
  <2>3. /\ DbOk(db') /\ SessionsOk(db') /\ InLine(db', last')
        /\ \A i \in Identifiers : db.owner[i] # 0 => db'.owner[i] = db.owner[i]
    BY <1>1, <2>2, RunBringsInLine
  <2>4. QED
    BY <1>1, <2>2, <2>3 DEF BootInv, NobodyLoses
<1>3. CASE ~Commits(j)
  <2>1. UNCHANGED <<db, last, touched>>
    BY <1>3 DEF CommitBootstrap
  <2>2. PICK b \in [config: Configs \cup {Nothing}, seen: [Identifiers -> Nat], attempt: Nat] :
          boot' = [boot EXCEPT ![j] = b] /\ (b # NoBoot => b.config = boot[j].config)
    <3> DEFINE again == [boot[j] EXCEPT !.seen = db.owner, !.attempt = boot[j].attempt + 1]
    <3>0. /\ boot[j] \in [config: Configs \cup {Nothing}, seen: [Identifiers -> Nat], attempt: Nat]
          /\ db.owner \in [Identifiers -> Nat] /\ boot[j].attempt + 1 \in Nat
      BY <1>1 DEF BootInv, DbOk
    <3>1. /\ again \in [config: Configs \cup {Nothing}, seen: [Identifiers -> Nat], attempt: Nat]
          /\ again.config = boot[j].config
      BY <3>0
    <3>2. boot' = [boot EXCEPT ![j] = NoBoot] \/ boot' = [boot EXCEPT ![j] = again]
      BY <1>3 DEF CommitBootstrap
    <3> HIDE DEF again
    <3>3. QED
      BY <1>1, <3>1, <3>2
  <2>3. QED
    BY <1>1, <2>1, <2>2 DEF BootInv, NobodyLoses, Kept
<1>4. QED
  BY <1>2, <1>3

-----------------------------------------------------------------------------
(* A step of the running system keeps every identity, and takes an account out of
   line only where it is said that somebody did. *)
LEMMA UsersLeaveInLine ==
    ASSUME BootInv, DbOk(db'), SessionsOk(db'), UNCHANGED <<boot, last>>,
           \A i \in Identifiers : db.owner[i] # 0 => db'.owner[i] = db.owner[i],
           \/ touched'
           \/ /\ touched' = touched /\ db'.code = db.code /\ db'.password = db.password
              /\ \A x \in DOMAIN db.people : /\ db'.people[x].active = db.people[x].active
                                             /\ db'.people[x].roles = db.people[x].roles
    PROVE  BootInv' /\ NobodyLoses
<1>1. ASSUME Kept' PROVE InLine(db', last')
  <2>1. last' = last /\ last \in Configs /\ Kept
    BY <1>1 DEF Kept, BootInv
  <2>2. DbOk(db) /\ InLine(db, last)
    BY <2>1 DEF BootInv
  <2>3. /\ db'.code = db.code /\ db'.password = db.password
        /\ \A x \in DOMAIN db.people : /\ db'.people[x].active = db.people[x].active
                                       /\ db'.people[x].roles = db.people[x].roles
    BY <1>1 DEF Kept
  <2> DEFINE d == db
             v == db'
             c == last
  <2>4. /\ DbOk(d) /\ c \in Configs /\ InLine(d, c) /\ v.code = d.code /\ v.password = d.password
        /\ \A i \in Identifiers : d.owner[i] # 0 => v.owner[i] = d.owner[i]
        /\ \A x \in DOMAIN d.people : v.people[x].active = d.people[x].active /\ v.people[x].roles = d.people[x].roles
    BY <2>1, <2>2, <2>3
  <2> HIDE DEF d, v, c
  <2>5. InLine(v, c)
    BY <2>4, StaysInLine
  <2>6. QED
    BY <2>1, <2>5 DEF v, c
<1>2. QED
  BY <1>1 DEF BootInv, NobodyLoses

(* The database, field by field. *)
LEMMA DbFacts ==
    ASSUME BootInv
    PROVE  /\ DbOk(db) /\ SessionsOk(db)
           /\ db = [code |-> db.code, owner |-> db.owner, password |-> db.password,
                    people |-> db.people, sessions |-> db.sessions]
           /\ db.code \in [StoreIds -> Codes \cup {Nothing}] /\ db.owner \in [Identifiers -> Nat]
           /\ db.password \in [Names -> Password] /\ db.people \in Seq(Person)
           /\ db.sessions \in SUBSET [user: Nat, name: Names, with: Password]
           /\ Names \subseteq Identifiers /\ Phones \subseteq Identifiers
BY DEF BootInv, DbOk, Identifiers

(* Replacing one user by one with the same roles. *)
LEMMA PeopleFacts ==
    ASSUME NEW people \in Seq(Person), NEW u, NEW p \in Person
    PROVE  /\ [people EXCEPT ![u] = p] \in Seq(Person)
           /\ Len([people EXCEPT ![u] = p]) = Len(people)
           /\ DOMAIN [people EXCEPT ![u] = p] = DOMAIN people
           /\ \A x \in DOMAIN people : [people EXCEPT ![u] = p][x] = IF x = u THEN p ELSE people[x]
<1>1. CASE u \in 1 .. Len(people)
  BY <1>1, ExceptSeq
<1>2. CASE u \notin 1 .. Len(people)
  <2>1. [people EXCEPT ![u] = p] = people
    BY <1>2
  <2>2. QED
    BY <1>2, <2>1
<1>3. QED
  BY <1>1, <1>2

LEMMA UseStep ==
    ASSUME BootInv, NEW n \in Names, UseAccount(n)
    PROVE  BootInv' /\ NobodyLoses
<1> DEFINE s == [user |-> db.owner[n], name |-> n, with |-> db.password[n]]
           ss == db.sessions \cup {s}
<1>1. DbOk(db) /\ SessionsOk(db) /\ n \in Identifiers
  BY DbFacts
<1>2. s \in [user: Nat, name: Names, with: Password]
  BY <1>1 DEF DbOk
<1>3. db.owner[n] # 0 /\ UNCHANGED <<boot, last, touched>> /\ db' = [db EXCEPT !.sessions = ss]
  BY DEF UseAccount
<1>4. s.user # 0 /\ db.owner[s.name] = s.user /\ db.password[s.name] = s.with
  BY <1>3
<1> HIDE DEF s
<1>5. ss \in SUBSET [user: Nat, name: Names, with: Password]
      /\ \A z \in ss : z.user # 0 /\ db.owner[z.name] = z.user /\ db.password[z.name] = z.with
  BY <1>1, <1>2, <1>4 DEF DbOk, SessionsOk
<1> HIDE DEF ss
<1>6. db' = [code |-> db.code, owner |-> db.owner, password |-> db.password, people |-> db.people, sessions |-> ss]
  BY <1>3, DbFacts
<1>7. DbOk(db') /\ SessionsOk(db')
  BY <1>1, <1>5, <1>6, DbFacts DEF DbOk, SessionsOk
<1>8. QED
  BY <1>3, <1>6, <1>7, UsersLeaveInLine

LEMMA ChooseStep ==
    ASSUME BootInv, NEW n \in Names, ChoosePassword(n)
    PROVE  BootInv' /\ NobodyLoses
<1> DEFINE ss == SessionsWithout(db.sessions, db.owner[n])
           pw == [db.password EXCEPT ![n] = Own]
<1>1. DbOk(db) /\ SessionsOk(db) /\ n \in Identifiers
  BY DbFacts
<1>2. db' = [db EXCEPT !.password = pw, !.sessions = ss] /\ touched' /\ UNCHANGED <<boot, last>>
  BY DEF ChoosePassword
<1>3. pw \in [Names -> Password] /\ \A m \in Names : m # n => pw[m] = db.password[m]
  BY <1>1 DEF DbOk, Password
<1>4. ss \in SUBSET [user: Nat, name: Names, with: Password]
      /\ \A z \in ss : z.user # 0 /\ db.owner[z.name] = z.user /\ pw[z.name] = z.with
  <2>1. ss \subseteq db.sessions /\ \A z \in ss : z.user # db.owner[n]
    BY DEF SessionsWithout
  <2> HIDE DEF ss
  <2>2. ss \in SUBSET [user: Nat, name: Names, with: Password]
    BY <1>1, <2>1 DEF DbOk
  <2>3. ASSUME NEW z \in ss PROVE z.user # 0 /\ db.owner[z.name] = z.user /\ pw[z.name] = z.with
    <3>1. z.user # 0 /\ db.owner[z.name] = z.user /\ db.password[z.name] = z.with /\ z.name \in Names
      BY <1>1, <2>1, <2>2 DEF SessionsOk
    <3>2. z.name # n
      BY <2>1, <3>1
    <3>3. QED
      BY <1>3, <3>1, <3>2
  <2>4. QED
    BY <2>2, <2>3
<1> HIDE DEF ss, pw
<1>5. db' = [code |-> db.code, owner |-> db.owner, password |-> pw, people |-> db.people, sessions |-> ss]
  BY <1>2, DbFacts
<1>6. DbOk(db') /\ SessionsOk(db')
  BY <1>1, <1>3, <1>4, <1>5, DbFacts DEF DbOk, SessionsOk
<1>7. QED
  BY <1>2, <1>5, <1>6, UsersLeaveInLine

(* Another list of the same users. *)
LEMMA PeopleStep ==
    ASSUME BootInv, NEW people \in Seq(Person), Len(people) >= Len(db.people),
           NEW ss, ss \subseteq db.sessions, db' = [db EXCEPT !.people = people, !.sessions = ss],
           UNCHANGED <<boot, last>>,
           \/ touched'
           \/ /\ touched' = touched
              /\ \A x \in DOMAIN db.people : people[x].active = db.people[x].active /\ people[x].roles = db.people[x].roles
    PROVE  BootInv' /\ NobodyLoses
<1>1. db' = [code |-> db.code, owner |-> db.owner, password |-> db.password, people |-> people, sessions |-> ss]
  BY DbFacts
<1>2. \A i \in Identifiers : db.owner[i] <= Len(people)
  <2>1. ASSUME NEW i \in Identifiers PROVE db.owner[i] <= Len(people)
    <3>1. db.owner[i] \in Nat /\ db.owner[i] <= Len(db.people) /\ Len(db.people) \in Nat /\ Len(people) \in Nat
      BY DbFacts DEF DbOk
    <3>2. QED
      BY <3>1
  <2>2. QED
    BY <2>1
<1>3. DbOk(db')
  BY <1>1, <1>2, DbFacts DEF DbOk
<1>4. SessionsOk(db')
  BY <1>1, DbFacts DEF SessionsOk
<1>5. QED
  BY <1>1, <1>3, <1>4, UsersLeaveInLine

LEMMA ClearStep ==
    ASSUME BootInv, NEW u, ClearMustChange(u)
    PROVE  BootInv' /\ NobodyLoses
<1>1. /\ UNCHANGED <<boot, last, touched>>
      /\ db' = [db EXCEPT !.people = [db.people EXCEPT ![u] = [db.people[u] EXCEPT !.must = FALSE]]]
  BY DEF ClearMustChange
<1> DEFINE p == [db.people[u] EXCEPT !.must = FALSE]
           np == [db.people EXCEPT ![u] = p]
<1>2. /\ np \in Seq(Person) /\ Len(np) = Len(db.people)
      /\ \A x \in DOMAIN db.people : np[x].active = db.people[x].active /\ np[x].roles = db.people[x].roles
  <2>1. CASE u \in DOMAIN db.people
    <3>1. db.people[u] \in Person
      BY <2>1, DbFacts
    <3>2. p \in Person /\ p.active = db.people[u].active /\ p.roles = db.people[u].roles
      BY <3>1 DEF Person
    <3> HIDE DEF p
    <3>3. /\ np \in Seq(Person) /\ Len(np) = Len(db.people)
          /\ \A x \in DOMAIN db.people : np[x] = IF x = u THEN p ELSE db.people[x]
      BY <3>2, DbFacts, PeopleFacts
    <3>4. QED
      BY <3>2, <3>3
  <2>2. CASE u \notin DOMAIN db.people
    <3> HIDE DEF p
    <3>1. np = db.people
      BY <2>2, DbFacts
    <3>2. QED
      BY <3>1, DbFacts
  <2>3. QED
    BY <2>1, <2>2
<1>3. db' = [db EXCEPT !.people = np, !.sessions = db.sessions]
  <2> HIDE DEF np
  <2>1. db' = [db EXCEPT !.people = np]
    BY <1>1 DEF np
  <2>2. QED
    BY <2>1, DbFacts
<1> HIDE DEF np
<1>4. Len(np) >= Len(db.people)
  BY <1>2, DbFacts
<1>5. QED
  BY <1>1, <1>2, <1>3, <1>4, PeopleStep

LEMMA DisableStep ==
    ASSUME BootInv, NEW u, DisableUser(u)
    PROVE  BootInv' /\ NobodyLoses
<1> DEFINE p == [db.people[u] EXCEPT !.active = FALSE]
           np == [db.people EXCEPT ![u] = p]
           ss == SessionsWithout(db.sessions, u)
<1>1. /\ UNCHANGED <<boot, last>> /\ touched' /\ u \in DOMAIN db.people
      /\ db' = [db EXCEPT !.people = np, !.sessions = ss]
  BY DEF DisableUser
<1>2. db.people[u] \in Person
  BY <1>1, DbFacts
<1>3. p \in Person
  BY <1>2 DEF Person
<1> HIDE DEF p
<1>4. np \in Seq(Person) /\ Len(np) = Len(db.people)
  BY <1>3, DbFacts, PeopleFacts
<1>5. Len(np) >= Len(db.people)
  BY <1>4, DbFacts
<1>6. ss \subseteq db.sessions
  BY DEF SessionsWithout
<1> HIDE DEF np, ss
<1>7. QED
  BY <1>1, <1>4, <1>5, <1>6, PeopleStep

LEMMA RegisterStep ==
    ASSUME BootInv, NEW i \in Phones, RegisterCustomer(i)
    PROVE  BootInv' /\ NobodyLoses
<1> DEFINE p == [active |-> TRUE, must |-> FALSE, roles |-> {}]
           np == Append(db.people, p)
           no == [db.owner EXCEPT ![i] = Len(db.people) + 1]
<1>1. /\ UNCHANGED <<boot, last, touched>> /\ db.owner[i] = 0
      /\ db' = [db EXCEPT !.people = np, !.owner = no]
  BY DEF RegisterCustomer
<1>2. p \in Person
  BY DEF Person
<1> HIDE DEF p
<1>3. /\ np \in Seq(Person) /\ Len(np) = Len(db.people) + 1 /\ Len(db.people) \in Nat
      /\ \A x \in DOMAIN db.people : np[x] = db.people[x]
  BY <1>2, DbFacts, AppendProperties
<1>4. /\ no \in [Identifiers -> Nat]
      /\ \A j \in Identifiers : db.owner[j] # 0 => no[j] = db.owner[j]
      /\ \A j \in Identifiers : no[j] <= Len(np)
  <2>1. /\ db.owner \in [Identifiers -> Nat] /\ i \in Identifiers
        /\ \A j \in Identifiers : db.owner[j] <= Len(db.people)
    BY DbFacts DEF DbOk
  <2>2. QED
    BY <1>1, <1>3, <2>1
<1> HIDE DEF np, no
<1>5. db' = [code |-> db.code, owner |-> no, password |-> db.password, people |-> np, sessions |-> db.sessions]
  BY <1>1, DbFacts
<1>6. DbOk(db')
  BY <1>3, <1>4, <1>5, DbFacts DEF DbOk
<1>7. SessionsOk(db')
  <2>1. ASSUME NEW s \in db.sessions PROVE s.user # 0 /\ no[s.name] = s.user /\ db.password[s.name] = s.with
    <3>1. s.user # 0 /\ db.owner[s.name] = s.user /\ db.password[s.name] = s.with /\ s.name \in Identifiers
      BY DbFacts DEF SessionsOk
    <3>2. QED
      BY <1>4, <3>1
  <2>2. QED
    BY <1>5, <2>1 DEF SessionsOk
<1>8. QED
  BY <1>1, <1>3, <1>4, <1>5, <1>6, <1>7, UsersLeaveInLine

-----------------------------------------------------------------------------
(* All steps of the component. *)
LEMMA BootstrapSteps ==
    ASSUME BootInv, UsersStep \/ (\E j \in Jobs : BootstrapStep(j)) \/ UNCHANGED bootVars
    PROVE  BootInv' /\ NobodyLoses
<1>1. CASE UsersStep
  BY <1>1, UseStep, ChooseStep, ClearStep, DisableStep, RegisterStep DEF UsersStep
<1>2. CASE \E j \in Jobs : BootstrapStep(j)
  BY <1>2, StartStep, CommitStep, DiesStep DEF BootstrapStep
<1>3. CASE UNCHANGED bootVars
  BY <1>3 DEF bootVars, BootInv, NobodyLoses, Kept
<1>4. QED
  BY <1>1, <1>2, <1>3

LEMMA InvIsInLine == ASSUME BootInv PROVE AccountsAreInLine
<1>1. ASSUME Kept PROVE last \in Configs /\ DbOk(db) /\ InLine(db, last)
  BY <1>1 DEF BootInv, Kept
<1>2. RerunIsQuiet
  <2>1. ASSUME Kept PROVE ~Refused(db, last) /\ Bootstrapped(db, last) = db
    BY <1>1, <2>1, RunDoesNothing
  <2>2. QED
    BY <2>1 DEF RerunIsQuiet
<1>3. LivePasswordsAreCurrent
  BY DEF BootInv, SessionsOk, LivePasswordsAreCurrent
<1>4. RecoveryPhoneIsTheOwners
  BY <1>1 DEF RecoveryPhoneIsTheOwners, InLine, InLineUser
<1>5. QED
  BY <1>2, <1>3, <1>4 DEF AccountsAreInLine

-----------------------------------------------------------------------------
(* Nothing but bootstraps and the accounts' users changes the accounts. *)
LEMMA OnlyBootstraps ==
    ASSUME Next
    PROVE  UsersStep \/ (\E j \in Jobs : BootstrapStep(j)) \/ UNCHANGED bootVars
<1>1. ASSUME NEW j \in Jobs, RunBootstrap(j) \/ StepOfChild(j) PROVE BootstrapStep(j)
  BY <1>1 DEF RunBootstrap, StepOfChild, BootstrapStep
<1>2. QED
  BY <1>1 DEF Next, Install, MigrateAnything, KeepAccounts, SeedStore, Serve, CheckEnvironment, Migrated, Mark, Scrub,
     Activate, ScriptDies, DeployAgain, Migrate

LEMMA BootInvHolds == Init /\ [][Next]_vars => []BootInv
<1>1. Init => BootInv
  BY BootstrapStarts DEF Init
<1>2. BootInv /\ [Next]_vars => BootInv'
  BY OnlyBootstraps, BootstrapSteps DEF vars
<1>3. QED
  BY <1>1, <1>2, PTL

(* Whatever runs of bootstraps meet the logins, new passwords and disabled  *)
(* users: a run with nothing to do changes nothing, a session knows its     *)
(* account's password, and the phone that recovers an account is its        *)
(* owner's.                                                                 *)
THEOREM AccountsStayInLine == Spec => []AccountsAreInLine
<1>1. BootInv => AccountsAreInLine
  BY InvIsInLine
<1>2. QED
  BY <1>1, BootInvHolds, PTL DEF Spec

(* No bootstrap, however it is interleaved, takes an account name or a      *)
(* phone from its user.                                                     *)
THEOREM NobodyLosesAnIdentity == Spec => IdentitiesAreKept
<1>1. BootInv /\ [Next]_vars => [NobodyLoses]_bootVars
  BY OnlyBootstraps, BootstrapSteps DEF vars
<1>2. [NobodyLoses]_bootVars => [\A i \in Identifiers : db.owner[i] # 0 => db'.owner[i] = db.owner[i]]_bootVars
  BY DEF NobodyLoses
<1>3. QED
  BY <1>1, <1>2, BootInvHolds, PTL DEF Spec, IdentitiesAreKept

-----------------------------------------------------------------------------
(* Types of the accounts. There are never more users than names and phones, because
   every user was made with one that he keeps. *)
EveryoneIsKnown(d) == \A u \in 1 .. Len(d.people) : \E i \in Identifiers : d.owner[i] = u

RosterInv ==
    /\ EveryoneIsKnown(db) /\ clearing \subseteq DOMAIN db.people /\ touched \in BOOLEAN
    /\ \A s \in db.sessions : s.with # Nothing
    /\ \A j \in Jobs :
          boot[j].attempt <= MAX_TRANSACTION_ATTEMPTS /\ \A i \in Identifiers : boot[j].seen[i] <= Len(db.people)

(* A new user is known, and everyone keeps what he is known by. *)
LEMMA StillKnown ==
    ASSUME NEW d, DbOk(d), EveryoneIsKnown(d), NEW v, DbOk(v),
           \A i \in Identifiers : d.owner[i] # 0 => v.owner[i] = d.owner[i],
           \/ Len(v.people) = Len(d.people)
           \/ Len(v.people) = Len(d.people) + 1 /\ \E i \in Identifiers : v.owner[i] = Len(d.people) + 1
    PROVE  EveryoneIsKnown(v) /\ Len(v.people) >= Len(d.people)
<1>1. Len(d.people) \in Nat /\ Len(v.people) \in Nat
  BY DEF DbOk
<1>2. ASSUME NEW u \in 1 .. Len(v.people) PROVE \E i \in Identifiers : v.owner[i] = u
  <2>1. CASE u \in 1 .. Len(d.people)
    <3>1. PICK i \in Identifiers : d.owner[i] = u
      BY <2>1 DEF EveryoneIsKnown
    <3>2. v.owner[i] = u
      BY <2>1, <3>1
    <3>3. QED
      BY <3>2
  <2>2. CASE u \notin 1 .. Len(d.people)
    BY <1>1, <2>2
  <2>3. QED
    BY <2>1, <2>2
<1>3. QED
  BY <1>1, <1>2 DEF EveryoneIsKnown

LEMMA UpsertKnows ==
    ASSUME NEW d, DbOk(d), SessionsOk(d), EveryoneIsKnown(d), NEW a \in Account, NEW roles \in SUBSET Roles,
           NEW v, v = upsertBootstrapUser(d, a, roles)
    PROVE  EveryoneIsKnown(v) /\ Len(v.people) >= Len(d.people) /\ v.sessions \subseteq d.sessions
<1>1. /\ DbOk(v) /\ v.owner[a.name] = UserOf(d, a) /\ v.sessions \subseteq d.sessions
      /\ \A i \in Identifiers : d.owner[i] # 0 => v.owner[i] = d.owner[i]
  BY Upserted, UpsertKeeps
<1>2. /\ IsNew(d, a) => UserOf(d, a) = Len(d.people) + 1
      /\ ~IsNew(d, a) => UserOf(d, a) \in DOMAIN d.people
      /\ After(d, a, roles) \in Person /\ a.name \in Identifiers
      /\ d.people \in Seq(Person)
  BY UserFacts DEF DbOk
<1>3. v.people = IF IsNew(d, a) THEN Append(d.people, After(d, a, roles))
                 ELSE [d.people EXCEPT ![UserOf(d, a)] = After(d, a, roles)]
  <2>1. d = [code |-> d.code, owner |-> d.owner, password |-> d.password, people |-> d.people, sessions |-> d.sessions]
    BY DEF DbOk
  <2>2. QED
    BY <2>1, UpsertForm
<1>4. CASE IsNew(d, a)
  <2>1. Len(v.people) = Len(d.people) + 1
    BY <1>2, <1>3, <1>4, AppendProperties
  <2>2. QED
    BY <1>1, <1>2, <1>4, <2>1, StillKnown
<1>5. CASE ~IsNew(d, a)
  <2>1. Len(v.people) = Len(d.people)
    BY <1>2, <1>3, <1>5, ExceptSeq
  <2>2. QED
    BY <1>1, <2>1, StillKnown
<1>6. QED
  BY <1>4, <1>5

LEMMA RunKnows ==
    ASSUME NEW d, DbOk(d), SessionsOk(d), EveryoneIsKnown(d), NEW c \in Configs,
           NEW v, v = Bootstrapped(d, c)
    PROVE  /\ EveryoneIsKnown(v) /\ Len(v.people) >= Len(d.people) /\ v.sessions \subseteq d.sessions
           /\ v.code = [d.code EXCEPT ![c.store] = c.code]
<1> DEFINE e == WithAdmin(d, c)
           f == upsertBootstrapUser(e, c.merchant, MerchantRoles(c))
           g == [f.code EXCEPT ![c.store] = c.code]
<1>1. /\ c.admin \in Account /\ c.merchant \in Account
      /\ AdminRoles \in SUBSET Roles /\ MerchantRoles(c) \in SUBSET Roles
  BY ConfigFacts
<1>2. e = upsertBootstrapUser(d, c.admin, AdminRoles)
  BY Upserts
<1>3. v = [f EXCEPT !.code[c.store] = c.code]
  BY Upserts
<1> HIDE DEF e
<1>4. DbOk(e) /\ SessionsOk(e) /\ e.code = d.code
  BY <1>1, <1>2, UpsertKeeps
<1>5. EveryoneIsKnown(e) /\ Len(e.people) >= Len(d.people) /\ e.sessions \subseteq d.sessions
  BY <1>1, <1>2, UpsertKnows
<1>6. DbOk(f) /\ f.code = e.code
  BY <1>1, <1>4, UpsertKeeps
<1>7. EveryoneIsKnown(f) /\ Len(f.people) >= Len(e.people) /\ f.sessions \subseteq e.sessions
  BY <1>1, <1>4, <1>5, UpsertKnows
<1> HIDE DEF f
<1>8. /\ v.owner = f.owner /\ v.people = f.people /\ v.sessions = f.sessions
      /\ v.code = [f.code EXCEPT ![c.store] = c.code]
  <2>1. f = [code |-> f.code, owner |-> f.owner, password |-> f.password, people |-> f.people, sessions |-> f.sessions]
    BY <1>6 DEF DbOk
  <2>2. v = [f EXCEPT !.code = g]
    BY <1>3
  <2> HIDE DEF g
  <2>3. v = [code |-> g, owner |-> f.owner, password |-> f.password, people |-> f.people, sessions |-> f.sessions]
    BY <2>1, <2>2
  <2>4. QED
    BY <2>3 DEF g
<1>9. Len(d.people) \in Nat /\ Len(e.people) \in Nat /\ Len(f.people) \in Nat
  BY <1>4, <1>6 DEF DbOk
<1>10. QED
  BY <1>4, <1>5, <1>6, <1>7, <1>8, <1>9 DEF EveryoneIsKnown

(* What a step may do to the roster. *)
LEMMA RosterKept ==
    ASSUME BootInv, RosterInv, BootInv', EveryoneIsKnown(db'), Len(db'.people) >= Len(db.people),
           touched' \in BOOLEAN, \A s \in db'.sessions : s.with # Nothing,
           \A u \in clearing' : u \in clearing \/ u \in DOMAIN db.people,
           \A j \in Jobs : /\ boot'[j].attempt <= MAX_TRANSACTION_ATTEMPTS
                           /\ boot'[j].seen \in {boot[j].seen, db.owner, NoBoot.seen}
    PROVE  RosterInv'
<1>1. /\ db.people \in Seq(Person) /\ db'.people \in Seq(Person) /\ Len(db.people) \in Nat /\ Len(db'.people) \in Nat
      /\ \A i \in Identifiers : db.owner[i] \in Nat /\ db.owner[i] <= Len(db.people) /\ NoBoot.seen[i] = 0
  BY DEF BootInv, DbOk, NoBoot, Empty
<1>2. clearing' \subseteq DOMAIN db'.people
  <2>1. DOMAIN db.people = 1 .. Len(db.people) /\ DOMAIN db'.people = 1 .. Len(db'.people)
    BY <1>1
  <2>2. clearing \subseteq DOMAIN db.people
    BY DEF RosterInv
  <2>3. QED
    BY <1>1, <2>1, <2>2
<1>3. ASSUME NEW j \in Jobs, NEW i \in Identifiers PROVE boot'[j].seen[i] <= Len(db'.people)
  <2>1. boot[j].seen[i] \in Nat /\ boot[j].seen[i] <= Len(db.people)
    BY DEF BootInv, RosterInv
  <2>2. boot'[j].seen[i] \in {boot[j].seen[i], db.owner[i], 0}
    BY <1>1
  <2>3. QED
    BY <1>1, <2>1, <2>2
<1>4. QED
  BY <1>2, <1>3 DEF RosterInv

LEMMA RosterOfRuns ==
    ASSUME BootInv, RosterInv, BootInv', NEW j \in Jobs, BootstrapStep(j)
    PROVE  RosterInv'
<1>1. /\ DbOk(db) /\ SessionsOk(db) /\ Len(db.people) \in Nat /\ EveryoneIsKnown(db) /\ touched \in BOOLEAN
      /\ \A s \in db.sessions : s.with # Nothing
      /\ \A k \in Jobs : boot[k].attempt \in Nat /\ boot[k].attempt <= MAX_TRANSACTION_ATTEMPTS
      /\ clearing' = clearing
  BY DEF BootInv, DbOk, RosterInv, BootstrapStep, StartBootstrap, CommitBootstrap, BootstrapDies
<1>2. PICK b \in [config: Configs \cup {Nothing}, seen: [Identifiers -> Nat], attempt: Nat] :
        /\ boot' = [boot EXCEPT ![j] = b]
        /\ b.attempt <= MAX_TRANSACTION_ATTEMPTS /\ b.seen \in {boot[j].seen, db.owner, NoBoot.seen}
  <2>1. /\ boot[j] \in [config: Configs \cup {Nothing}, seen: [Identifiers -> Nat], attempt: Nat]
        /\ db.owner \in [Identifiers -> Nat] /\ NoBoot \in [config: Configs \cup {Nothing}, seen: [Identifiers -> Nat], attempt: Nat]
        /\ NoBoot.attempt <= MAX_TRANSACTION_ATTEMPTS
    BY DEF BootInv, DbOk, NoBoot, Empty, MAX_TRANSACTION_ATTEMPTS
  <2>2. CASE \E c \in Configs : StartBootstrap(j, c)
    <3>0. PICK c \in Configs : StartBootstrap(j, c)
      BY <2>2
    <3> DEFINE first == [config |-> c, seen |-> db.owner, attempt |-> 1]
    <3>1. /\ first \in [config: Configs \cup {Nothing}, seen: [Identifiers -> Nat], attempt: Nat]
          /\ first.attempt = 1 /\ first.seen = db.owner
      BY <2>1
    <3>2. boot' = [boot EXCEPT ![j] = first]
      BY <3>0 DEF StartBootstrap
    <3> HIDE DEF first
    <3>3. first.attempt <= MAX_TRANSACTION_ATTEMPTS
      BY <3>1 DEF MAX_TRANSACTION_ATTEMPTS
    <3>4. QED
      BY <3>1, <3>2, <3>3
  <2>3. CASE CommitBootstrap(j)
    <3> DEFINE again == [boot[j] EXCEPT !.seen = db.owner, !.attempt = boot[j].attempt + 1]
    <3>1. \/ boot' = [boot EXCEPT ![j] = NoBoot]
          \/ boot' = [boot EXCEPT ![j] = again] /\ boot[j].attempt # MAX_TRANSACTION_ATTEMPTS
      BY <2>3 DEF CommitBootstrap
    <3>2. boot[j].attempt + 1 \in Nat
      BY <1>1
    <3>3. /\ again \in [config: Configs \cup {Nothing}, seen: [Identifiers -> Nat], attempt: Nat]
          /\ again.seen = db.owner /\ again.attempt = boot[j].attempt + 1
      BY <2>1, <3>2
    <3> HIDE DEF again
    <3>4. CASE boot' = [boot EXCEPT ![j] = NoBoot]
      BY <2>1, <3>4
    <3>5. CASE boot' = [boot EXCEPT ![j] = again] /\ boot[j].attempt # MAX_TRANSACTION_ATTEMPTS
      <4>1. again.attempt <= MAX_TRANSACTION_ATTEMPTS
        BY <1>1, <3>3, <3>5 DEF MAX_TRANSACTION_ATTEMPTS
      <4>2. QED
        BY <3>3, <3>5, <4>1
    <3>6. QED
      BY <3>1, <3>4, <3>5
  <2>4. CASE BootstrapDies(j)
    BY <2>1, <2>4 DEF BootstrapDies
  <2>5. QED
    BY <2>2, <2>3, <2>4 DEF BootstrapStep
<1>3. \A k \in Jobs : /\ boot'[k].attempt <= MAX_TRANSACTION_ATTEMPTS
                      /\ boot'[k].seen \in {boot[k].seen, db.owner, NoBoot.seen}
  <2>1. \A k \in Jobs : boot'[k] = IF k = j THEN b ELSE boot[k]
    BY <1>2 DEF BootInv
  <2>2. QED
    BY <1>1, <1>2, <2>1
<1>4. CASE UNCHANGED <<db, touched>>
  BY <1>1, <1>3, <1>4, RosterKept
<1>5. CASE CommitBootstrap(j) /\ Commits(j)
  <2>1. boot[j].config \in Configs
    BY <1>5 DEF BootInv, CommitBootstrap
  <2>2. WhatItRead(j) = db
    <3>1. boot[j].seen = db.owner
      BY <1>5 DEF Commits, IsSerial
    <3>2. QED
      BY <1>1, <3>1 DEF WhatItRead, DbOk
  <2>3. db' = Bootstrapped(db, boot[j].config) /\ touched' = FALSE
    BY <1>5, <2>2 DEF CommitBootstrap
  <2>4. EveryoneIsKnown(db') /\ Len(db'.people) >= Len(db.people) /\ db'.sessions \subseteq db.sessions
    BY <1>1, <2>1, <2>3, RunKnows
  <2>5. QED
    BY <1>1, <1>3, <2>3, <2>4, RosterKept
<1>6. QED
  BY <1>4, <1>5 DEF BootstrapStep, StartBootstrap, CommitBootstrap, BootstrapDies

LEMMA RosterOfUsers ==
    ASSUME BootInv, RosterInv, BootInv', NobodyLoses, UsersStep
    PROVE  RosterInv'
<1>1. /\ DbOk(db) /\ DbOk(db') /\ SessionsOk(db) /\ Len(db.people) \in Nat /\ EveryoneIsKnown(db) /\ touched \in BOOLEAN
      /\ \A s \in db.sessions : s.with # Nothing
      /\ \A i \in Identifiers : db.owner[i] # 0 => db'.owner[i] = db.owner[i]
      /\ boot' = boot /\ \A j \in Jobs : boot[j].attempt <= MAX_TRANSACTION_ATTEMPTS
      /\ db = [code |-> db.code, owner |-> db.owner, password |-> db.password, people |-> db.people, sessions |-> db.sessions]
  <2>1. DbOk(db) /\ DbOk(db') /\ SessionsOk(db)
    BY DEF BootInv
  <2>2. /\ EveryoneIsKnown(db) /\ touched \in BOOLEAN /\ \A s \in db.sessions : s.with # Nothing
        /\ \A j \in Jobs : boot[j].attempt <= MAX_TRANSACTION_ATTEMPTS
    BY DEF RosterInv
  <2>3. boot' = boot
    BY DEF UsersStep, UseAccount, ChoosePassword, ClearMustChange, DisableUser, RegisterCustomer
  <2>4. /\ Len(db.people) \in Nat
        /\ db = [code |-> db.code, owner |-> db.owner, password |-> db.password, people |-> db.people, sessions |-> db.sessions]
    BY <2>1 DEF DbOk
  <2>5. QED
    BY <2>1, <2>2, <2>3, <2>4 DEF NobodyLoses
<1>2. ASSUME \/ Len(db'.people) = Len(db.people)
             \/ Len(db'.people) = Len(db.people) + 1 /\ \E i \in Identifiers : db'.owner[i] = Len(db.people) + 1,
             touched' \in BOOLEAN, \A s \in db'.sessions : s.with # Nothing,
             \A u \in clearing' : u \in clearing \/ u \in DOMAIN db.people
      PROVE  RosterInv'
  <2>1. EveryoneIsKnown(db') /\ Len(db'.people) >= Len(db.people)
    <3> DEFINE v == db'
    <3>1. DbOk(v) /\ \A i \in Identifiers : db.owner[i] # 0 => v.owner[i] = db.owner[i]
      BY <1>1
    <3>2. \/ Len(v.people) = Len(db.people)
          \/ Len(v.people) = Len(db.people) + 1 /\ \E i \in Identifiers : v.owner[i] = Len(db.people) + 1
      BY <1>2
    <3> HIDE DEF v
    <3>3. EveryoneIsKnown(v) /\ Len(v.people) >= Len(db.people)
      BY <1>1, <3>1, <3>2, StillKnown
    <3>4. QED
      BY <3>3 DEF v
  <2>2. QED
    BY <1>1, <1>2, <2>1, RosterKept
<1>3. ASSUME NEW n \in Names, UseAccount(n) PROVE RosterInv'
  <2> DEFINE ss == db.sessions \cup {[user |-> db.owner[n], name |-> n, with |-> db.password[n]]}
  <2>1. db' = [db EXCEPT !.sessions = ss] /\ UNCHANGED <<clearing, touched>> /\ \A s \in ss : s.with # Nothing
    BY <1>1, <1>3 DEF UseAccount
  <2> HIDE DEF ss
  <2>2. db'.people = db.people /\ db'.sessions = ss
    BY <1>1, <2>1
  <2>3. QED
    BY <1>1, <1>2, <2>1, <2>2
<1>4. ASSUME NEW n \in Names, ChoosePassword(n) PROVE RosterInv'
  <2> DEFINE ss == SessionsWithout(db.sessions, db.owner[n])
             pw == [db.password EXCEPT ![n] = Own]
  <2>1. /\ db' = [db EXCEPT !.password = pw, !.sessions = ss] /\ touched' = TRUE
        /\ clearing' = clearing \cup {db.owner[n]} /\ ss \subseteq db.sessions
    BY <1>4 DEF ChoosePassword, SessionsWithout
  <2>2. db.owner[n] \in DOMAIN db.people
    <3>1. PICK s \in db.sessions : s.name = n
      BY <1>4 DEF ChoosePassword
    <3>2. db.owner[n] # 0 /\ db.owner[n] \in Nat /\ db.owner[n] <= Len(db.people) /\ db.people \in Seq(Person)
      BY <1>1, <3>1 DEF SessionsOk, DbOk, Identifiers
    <3>3. QED
      BY <3>2
  <2> HIDE DEF ss, pw
  <2>3. db'.people = db.people /\ db'.sessions = ss
    BY <1>1, <2>1
  <2>4. QED
    BY <1>1, <1>2, <2>1, <2>2, <2>3
<1>5. ASSUME NEW u, ClearMustChange(u) PROVE RosterInv'
  <2> DEFINE np == [db.people EXCEPT ![u].must = FALSE]
  <2>1. db' = [db EXCEPT !.people = np] /\ clearing' = clearing \ {u} /\ touched' = touched
    BY <1>5 DEF ClearMustChange
  <2>2. Len(np) = Len(db.people)
    <3>1. u \in DOMAIN db.people /\ db.people \in Seq(Person)
      BY <1>1, <1>5 DEF ClearMustChange, RosterInv, DbOk
    <3>2. db.people[u] \in Person
      BY <3>1
    <3>5. [db.people[u] EXCEPT !.must = FALSE] \in Person
      BY <3>2 DEF Person
    <3>3. np = [db.people EXCEPT ![u] = [db.people[u] EXCEPT !.must = FALSE]]
      BY <3>1
    <3>4. QED
      BY <3>1, <3>3, <3>5, PeopleFacts
  <2> HIDE DEF np
  <2>3. db'.people = np /\ db'.sessions = db.sessions
    BY <1>1, <2>1
  <2>4. QED
    BY <1>1, <1>2, <2>1, <2>2, <2>3
<1>6. ASSUME NEW u, DisableUser(u) PROVE RosterInv'
  <2> DEFINE np == [db.people EXCEPT ![u].active = FALSE]
             ss == SessionsWithout(db.sessions, u)
  <2>1. db' = [db EXCEPT !.people = np, !.sessions = ss] /\ clearing' = clearing /\ touched' = TRUE /\ ss \subseteq db.sessions
    BY <1>6 DEF DisableUser, SessionsWithout
  <2>2. Len(np) = Len(db.people)
    <3>1. u \in DOMAIN db.people /\ db.people \in Seq(Person)
      BY <1>1, <1>6 DEF DisableUser, DbOk
    <3>2. db.people[u] \in Person
      BY <3>1
    <3>5. [db.people[u] EXCEPT !.active = FALSE] \in Person
      BY <3>2 DEF Person
    <3>3. np = [db.people EXCEPT ![u] = [db.people[u] EXCEPT !.active = FALSE]]
      BY <3>1
    <3>4. QED
      BY <3>1, <3>3, <3>5, PeopleFacts
  <2> HIDE DEF np, ss
  <2>3. db'.people = np /\ db'.sessions = ss
    BY <1>1, <2>1
  <2>4. QED
    BY <1>1, <1>2, <2>1, <2>2, <2>3
<1>7. ASSUME NEW p \in Phones, RegisterCustomer(p) PROVE RosterInv'
  <2> DEFINE new == [active |-> TRUE, must |-> FALSE, roles |-> {}]
             np == Append(db.people, new)
             no == [db.owner EXCEPT ![p] = Len(db.people) + 1]
  <2>1. db' = [db EXCEPT !.people = np, !.owner = no] /\ UNCHANGED <<clearing, touched>>
    BY <1>7 DEF RegisterCustomer
  <2>2. p \in Identifiers /\ no[p] = Len(db.people) + 1
    BY <1>1 DEF DbOk, Identifiers
  <2>3. Len(np) = Len(db.people) + 1
    <3>1. new \in Person /\ db.people \in Seq(Person)
      BY <1>1 DEF Person, DbOk
    <3> HIDE DEF new
    <3>2. QED
      BY <3>1, AppendProperties
  <2> HIDE DEF np, no
  <2>4. db'.people = np /\ db'.owner = no /\ db'.sessions = db.sessions
    BY <1>1, <2>1
  <2>5. QED
    BY <1>1, <1>2, <2>1, <2>2, <2>3, <2>4
<1>8. QED
  BY <1>3, <1>4, <1>5, <1>6, <1>7 DEF UsersStep

LEMMA RosterStarts == ASSUME BootstrapInit PROVE RosterInv
<1>1. /\ db.people = <<>> /\ db.sessions = {} /\ clearing = {} /\ touched = FALSE
      /\ \A j \in Jobs : boot[j] = NoBoot
  BY DEF BootstrapInit, Empty
<1>2. NoBoot.attempt = 0 /\ \A i \in Identifiers : NoBoot.seen[i] = 0
  BY DEF NoBoot, Empty
<1>3. Len(db.people) = 0
  BY <1>1
<1>4. EveryoneIsKnown(db)
  BY <1>3 DEF EveryoneIsKnown
<1>5. ASSUME NEW j \in Jobs
      PROVE  boot[j].attempt <= MAX_TRANSACTION_ATTEMPTS /\ \A i \in Identifiers : boot[j].seen[i] <= Len(db.people)
  <2>1. boot[j].attempt = 0 /\ \A i \in Identifiers : boot[j].seen[i] = 0
    BY <1>1, <1>2
  <2>2. QED
    BY <1>3, <2>1 DEF MAX_TRANSACTION_ATTEMPTS
<1>6. QED
  BY <1>1, <1>4, <1>5 DEF RosterInv

LEMMA RosterHolds ==
    ASSUME BootInv, RosterInv, UsersStep \/ (\E j \in Jobs : BootstrapStep(j)) \/ UNCHANGED bootVars
    PROVE  RosterInv'
<1>1. BootInv' /\ NobodyLoses
  BY BootstrapSteps
<1>2. CASE UNCHANGED bootVars
  BY <1>2 DEF bootVars, RosterInv, EveryoneIsKnown
<1>3. QED
  BY <1>1, <1>2, RosterOfUsers, RosterOfRuns

(* As many users as identities at the most. *)
LEMMA NoMoreUsersThanIdentities ==
    ASSUME NEW d, DbOk(d), EveryoneIsKnown(d)
    PROVE  Cardinality(Identifiers) \in Nat /\ Len(d.people) <= Cardinality(Identifiers)
<1>1. IsFiniteSet(Identifiers)
  BY BootstrapAssumption, FS_Union DEF Identifiers
<1>2. Cardinality(Identifiers) \in Nat /\ Len(d.people) \in Nat
  BY <1>1, FS_CardinalityType DEF DbOk
<1> DEFINE f == [u \in 1 .. Len(d.people) |-> CHOOSE i \in Identifiers : d.owner[i] = u]
<1>3. \A u \in 1 .. Len(d.people) : f[u] \in Identifiers /\ d.owner[f[u]] = u
  BY DEF EveryoneIsKnown
<1>4. f \in [1 .. Len(d.people) -> Identifiers]
  BY <1>3
<1> HIDE DEF f
<1>5. Cardinality(1 .. Len(d.people)) <= Cardinality(Identifiers)
  <2>1. \A u, v \in 1 .. Len(d.people) : f[u] = f[v] => u = v
    BY <1>3
  <2>2. f \in Injection(1 .. Len(d.people), Identifiers)
    BY <1>4, <2>1 DEF Injection, IsInjective
  <2>3. QED
    BY <1>1, <2>2, FS_Injection
<1>6. Cardinality(1 .. Len(d.people)) = Len(d.people)
  <2> DEFINE n == Len(d.people)
  <2>1. n \in Nat
    BY <1>2
  <2> HIDE DEF n
  <2>2. Cardinality(1 .. n) = IF 1 > n THEN 0 ELSE n - 1 + 1
    BY <2>1, FS_Interval
  <2>3. Cardinality(1 .. n) = n
    BY <2>1, <2>2
  <2>4. QED
    BY <2>3 DEF n
<1>7. QED
  BY <1>2, <1>5, <1>6

LEMMA AccountsAreTyped == ASSUME BootInv, RosterInv PROVE BootstrapTypeOK
<1> DEFINE N == Cardinality(Identifiers)
<1>1. DbOk(db) /\ SessionsOk(db) /\ EveryoneIsKnown(db)
  BY DEF BootInv, RosterInv
<1>2. N \in Nat /\ Len(db.people) <= N /\ Len(db.people) \in Nat
  <2>1. N \in Nat /\ Len(db.people) <= N
    BY <1>1, NoMoreUsersThanIdentities
  <2>2. Len(db.people) \in Nat
    BY <1>1 DEF DbOk
  <2>3. QED
    BY <2>1, <2>2
<1> HIDE DEF N
<1>3. db.owner \in [Identifiers -> 0 .. N]
  <2>1. ASSUME NEW i \in Identifiers PROVE db.owner[i] \in 0 .. N
    BY <1>2, <1>1 DEF DbOk
  <2>2. QED
    BY <1>1, <2>1 DEF DbOk
<1>4. ASSUME NEW s \in db.sessions PROVE s \in [user: 1 .. N, name: Names, with: Secrets \cup {Own}]
  <2>1. /\ s \in [user: Nat, name: Names, with: Password] /\ s.user # 0 /\ s.user = db.owner[s.name]
        /\ s.name \in Identifiers /\ s.with # Nothing
    BY <1>1 DEF DbOk, SessionsOk, RosterInv, Identifiers
  <2>2. s.user \in 1 .. N
    BY <1>2, <1>3, <2>1
  <2>3. s.with \in Secrets \cup {Own}
    BY <2>1 DEF Password
  <2>4. QED
    BY <2>1, <2>2, <2>3
<1>5. db \in Databases
  BY <1>1, <1>3, <1>4 DEF DbOk, Databases, Password, Person, N
<1>6. ASSUME NEW j \in Jobs
      PROVE  boot[j] \in [config: Configs \cup {Nothing}, seen: [Identifiers -> 0 .. N], attempt: 0 .. MAX_TRANSACTION_ATTEMPTS]
  <2>1. /\ boot[j] \in [config: Configs \cup {Nothing}, seen: [Identifiers -> Nat], attempt: Nat]
        /\ boot[j].attempt <= MAX_TRANSACTION_ATTEMPTS /\ \A i \in Identifiers : boot[j].seen[i] <= Len(db.people)
    BY DEF BootInv, RosterInv
  <2>2. boot[j].attempt \in 0 .. MAX_TRANSACTION_ATTEMPTS
    BY <2>1 DEF MAX_TRANSACTION_ATTEMPTS
  <2>3. ASSUME NEW i \in Identifiers PROVE boot[j].seen[i] \in 0 .. N
    BY <1>2, <2>1
  <2>4. boot[j].seen \in [Identifiers -> 0 .. N]
    BY <2>1, <2>3
  <2>5. QED
    BY <2>1, <2>2, <2>4
<1>7. boot \in [Jobs -> [config: Configs \cup {Nothing}, seen: [Identifiers -> 0 .. N], attempt: 0 .. MAX_TRANSACTION_ATTEMPTS]]
  BY <1>6 DEF BootInv
<1>8. QED
  BY <1>5, <1>7 DEF BootInv, RosterInv, BootstrapTypeOK, N

-----------------------------------------------------------------------------
(* The installation. What a deployment was told it may rely on never goes back, so a
   script that has seen its child end finds things as the child left them. *)
RecordsFollow ==
    \A d \in Deployers :
        /\ job[d].pc \in {"verify", "verified"} => \A m \in Migrations : record[m] = "applied"
        /\ job[d].pc = "verified" => tables = Everything /\ columns

LEMMA AppliedStays ==
    ASSUME DeployTypeOK, NEW d \in Deployers, DeployStep(d)
    PROVE  /\ \A m \in Migrations : record[m] = "applied" => record'[m] = "applied"
           /\ tables \subseteq tables' /\ tables' \subseteq tables \cup Everything /\ (columns => columns')
           /\ \A e \in Deployers : e # d => job'[e] = job[e]
           /\ job'[d].pc = "verify" => \A m \in Migrations : record[m] = "applied"
           /\ job'[d].pc = "verified" => job[d].pc = "verify" /\ tables' = Everything /\ columns'
<1>1. /\ record \in [Migrations -> {"none", "started", "applied"}] /\ "baseline" \in Migrations
      /\ job \in [Deployers -> [pc: Pcs, saw: SUBSET (Everything \cup {"foreign"}), records: BOOLEAN, made: SUBSET Everything]]
  BY DEF DeployTypeOK, Migrations
<1>2. ASSUME NEW pc, Goes(d, pc) PROVE job'[d].pc = pc /\ \A e \in Deployers : e # d => job'[e] = job[e]
  BY <1>1, <1>2 DEF Goes
<1>3. CASE InspectTables(d)
  BY <1>1, <1>3 DEF InspectTables, NoJob
<1>4. CASE PlanFreshBaseline(d)
  BY <1>2, <1>4 DEF PlanFreshBaseline, Plan
<1>5. CASE ResolveBaseline(d)
  BY <1>1, <1>2, <1>5 DEF ResolveBaseline
<1>6. CASE StartDeploy(d) \/ LockTimeout(d) \/ DieDeploying(d)
  BY <1>2, <1>6 DEF StartDeploy, LockTimeout, DieDeploying
<1>7. CASE \E m \in Migrations : StartMigration(d, m)
  <2>1. PICK m \in Migrations : StartMigration(d, m)
    BY <1>7
  <2>2. job'[d].pc = m /\ \A e \in Deployers : e # d => job'[e] = job[e]
    BY <1>1, <2>1 DEF StartMigration
  <2>3. QED
    BY <1>1, <2>1, <2>2 DEF StartMigration, Migrations
<1>8. CASE CreateTable(d)
  <2>1. /\ job[d].pc \in Migrations /\ UNCHANGED <<columns, record>> /\ tables \subseteq tables'
        /\ job'[d].pc \in {"failed", job[d].pc} /\ \A e \in Deployers : e # d => job'[e] = job[e]
    BY <1>1, <1>2, <1>8 DEF CreateTable
  <2>3. tables' \subseteq tables \cup Everything
    BY <1>8 DEF CreateTable, TablesOf, Everything
  <2>2. QED
    BY <2>1, <2>3 DEF Migrations
<1>9. CASE FinishMigration(d)
  <2>1. /\ job'[d].pc = "locked" /\ tables' = tables /\ (columns => columns') /\ \A e \in Deployers : e # d => job'[e] = job[e]
        /\ job[d].pc \in Migrations /\ record' = [record EXCEPT ![job[d].pc] = "applied"]
    BY <1>2, <1>9 DEF FinishMigration
  <2>2. QED
    BY <1>1, <2>1
<1>10. CASE EndDeploy(d)
  BY <1>2, <1>10 DEF EndDeploy
<1>11. CASE Verify(d)
  BY <1>2, <1>11 DEF Verify
<1>12. QED
  BY <1>3, <1>4, <1>5, <1>6, <1>7, <1>8, <1>9, <1>10, <1>11 DEF DeployStep

(* An up-to-date database stays so. *)
LEMMA CurrentStays ==
    ASSUME DeployTypeOK, DeployTypeOK', (\E d \in Deployers : DeployStep(d)) \/ UNCHANGED deployVars, Current
    PROVE  Current'
<1>1. ASSUME NEW d \in Deployers, DeployStep(d) PROVE Current'
  <2>1. /\ \A m \in Migrations : record[m] = "applied" => record'[m] = "applied"
        /\ tables \subseteq tables' /\ tables' \subseteq tables \cup Everything /\ (columns => columns')
    BY <1>1, AppliedStays
  <2>2. QED
    BY <2>1 DEF Current
<1>2. QED
  BY <1>1 DEF Current, deployVars

LEMMA RecordsStillFollow ==
    ASSUME DeployTypeOK, DeployTypeOK', (\E d \in Deployers : DeployStep(d)) \/ UNCHANGED deployVars, RecordsFollow
    PROVE  RecordsFollow'
<1>1. CASE UNCHANGED deployVars
  BY <1>1 DEF deployVars, RecordsFollow
<1>2. ASSUME NEW d \in Deployers, DeployStep(d) PROVE RecordsFollow'
  <2>1. /\ \A m \in Migrations : record[m] = "applied" => record'[m] = "applied"
        /\ \A e \in Deployers : e # d => job'[e] = job[e]
        /\ job'[d].pc = "verify" => \A m \in Migrations : record[m] = "applied"
        /\ job'[d].pc = "verified" => job[d].pc = "verify" /\ tables' = Everything /\ columns'
    BY <1>2, AppliedStays
  <2>2. ASSUME NEW e \in Deployers, job'[e].pc \in {"verify", "verified"} PROVE \A m \in Migrations : record'[m] = "applied"
    BY <2>1, <2>2 DEF RecordsFollow
  <2>3. ASSUME NEW e \in Deployers, job'[e].pc = "verified" PROVE tables' = Everything /\ columns'
    <3>1. CASE e = d
      BY <2>1, <2>3, <3>1
    <3>2. CASE e # d
      <4>1. Current /\ job[e].pc = "verified"
        BY <2>1, <2>3, <3>2 DEF RecordsFollow, Current
      <4>2. QED
        BY <1>2, <4>1, CurrentStays DEF Current
    <3>3. QED
      BY <3>1, <3>2
  <2>4. QED
    BY <2>2, <2>3 DEF RecordsFollow
<1>3. QED
  BY <1>1, <1>2

(* A rule that is kept is none of the broken ones. *)
LEMMA TruthOfRule == ASSUME NEW n, NEW b PROVE <<n, b>>[2] = b
OBVIOUS

LEMMA KeptRules == ASSUME NEW rules, \A r \in rules : \E n : r = <<n, FALSE>> PROVE Broken(rules) = {}
<1>1. ASSUME NEW r \in rules PROVE r[2] = FALSE
  <2>1. PICK n : r = <<n, FALSE>>
    BY <1>1
  <2>2. QED
    BY <2>1, TruthOfRule, Zenon
<1>2. QED
  BY <1>1 DEF Broken

LEMMA BootstrapsAreWelcome == NotBootstrappedInVain
<1> SUFFICES ASSUME BootstrapAccepts(env)
             PROVE  validateStoreEnv(env) = {} /\ validateBootstrapAccountGroups(env) = {}
  BY DEF NotBootstrappedInVain
<1>1. /\ env.NODE_ENV = "production" /\ env.STORE_MODE = "single" /\ env.PRIMARY_STORE_ID = "one"
      /\ env.MERCHANT_STORE_IDS = "same" /\ env.SUPER_ADMIN = "whole" /\ env.MERCHANT = "whole"
  BY DEF BootstrapAccepts, readProductionStoreConfig, validateBootstrapAccountsConfig
<1> DEFINE storeRules == {<<"mode required", FALSE>>, <<"mode", FALSE>>, <<"store required", FALSE>>, <<"store padded", FALSE>>,
                          <<"store too long", FALSE>>, <<"two stores", FALSE>>, <<"merchant's store", FALSE>>}
           groupRules == {<<"admin", FALSE>>, <<"merchant", FALSE>>}
<1>2. validateStoreEnv(env) = Broken(storeRules)
  <2>1. /\ (env.NODE_ENV = "production" /\ env.STORE_MODE = "none") = FALSE
        /\ (env.STORE_MODE = "multi") = FALSE
        /\ (env.NODE_ENV # "test" /\ env.PRIMARY_STORE_ID = "none") = FALSE
        /\ (env.PRIMARY_STORE_ID = "padded") = FALSE
        /\ (env.PRIMARY_STORE_ID = "long") = FALSE
        /\ (env.PRIMARY_STORE_ID = "two") = FALSE
        /\ (env.PRIMARY_STORE_ID # "none" /\ env.MERCHANT_STORE_IDS = "other") = FALSE
    BY <1>1
  <2>2. QED
    BY <2>1, Zenon DEF validateStoreEnv
<1>3. validateBootstrapAccountGroups(env) = Broken(groupRules)
  <2>1. /\ (env.SUPER_ADMIN = "partial") = FALSE
        /\ (env.MERCHANT = "partial" \/ (env.MERCHANT = "none") # (env.MERCHANT_STORE_IDS = "none")) = FALSE
    BY <1>1
  <2>2. QED
    BY <2>1, Zenon DEF validateBootstrapAccountGroups
<1>4. Broken(storeRules) = {}
  <2>1. \A r \in storeRules : \E n : r = <<n, FALSE>>
    BY Zenon
  <2>2. QED
    BY <2>1, KeptRules
<1>5. Broken(groupRules) = {}
  <2>1. \A r \in groupRules : \E n : r = <<n, FALSE>>
    BY Zenon
  <2>2. QED
    BY <2>1, KeptRules
<1>6. QED
  BY <1>2, <1>3, <1>4, <1>5

-----------------------------------------------------------------------------
ScriptInv ==
    /\ script \in [pc: ScriptPcs, child: Deployers \cup Jobs \cup {None}] /\ marker \in BOOLEAN /\ scrubbed \in BOOLEAN
    /\ script.pc = "migrating" => script.child \in Deployers
    /\ script.pc = "bootstrapping" => script.child \in Jobs
    /\ scene = "install" => validateEnv(env) = {} /\ \A j \in Jobs : boot[j] # NoBoot => boot[j].config.store = Primary
    /\ scene # "install" => script = NoScript /\ ~marker /\ ~scrubbed
    /\ script.pc \in {"bootstrap", "bootstrapping", "mark", "scrub", "activate"} => Current
    /\ script.pc \in {"scrub", "activate"} \/ scrubbed => marker
    /\ marker \/ script.pc = "mark" => db.code[Primary] # Nothing

LEMMA ScriptStarts == ASSUME Init PROVE ScriptInv
<1>1. script = NoScript /\ marker = FALSE /\ scrubbed = FALSE /\ \A j \in Jobs : boot[j] = NoBoot
  BY DEF Init, BootstrapInit
<1>2. NoScript \in [pc: ScriptPcs, child: Deployers \cup Jobs \cup {None}] /\ NoScript.pc = "idle"
  BY DEF NoScript, ScriptPcs
<1>3. scene = "install" => validateEnv(env) = {}
  BY DEF Init
<1>4. QED
  BY <1>1, <1>2, <1>3 DEF ScriptInv

(* Who brings a bootstrap to its end has given the primary store its code; nobody
   takes it away, and nobody but the script starts one. *)
CodesStay == db.code[Primary] # Nothing => db'.code[Primary] # Nothing

LEMMA CommitGivesCode ==
    ASSUME BootInv, RosterInv, NEW j \in Jobs, CommitBootstrap(j)
    PROVE  /\ CodesStay
           /\ Commits(j) /\ boot[j].config.store = Primary => db'.code[Primary] # Nothing
           /\ \A k \in Jobs : boot'[k] # NoBoot => boot[k] # NoBoot /\ boot'[k].config = boot[k].config
<1>1. DbOk(db) /\ SessionsOk(db) /\ EveryoneIsKnown(db)
  BY DEF BootInv, RosterInv
<1>2. CASE Commits(j)
  <2>1. boot[j].config \in Configs
    BY DEF BootInv, CommitBootstrap
  <2>2. WhatItRead(j) = db
    <3>1. boot[j].seen = db.owner
      BY <1>2 DEF Commits, IsSerial
    <3>2. QED
      BY <1>1, <3>1 DEF WhatItRead, DbOk
  <2> DEFINE c == boot[j].config
  <2>3. db' = Bootstrapped(db, c) /\ boot' = [boot EXCEPT ![j] = NoBoot]
    BY <1>2, <2>2 DEF CommitBootstrap
  <2>4. c.store \in StoreIds /\ c.code \in Codes /\ c.code # Nothing
    BY <2>1, ConfigFacts, BootstrapAssumption DEF BootstrapAssumption
  <2> HIDE DEF c
  <2>5. db'.code = [db.code EXCEPT ![c.store] = c.code]
    <3>1. c \in Configs
      BY <2>1 DEF c
    <3>2. QED
      BY <1>1, <2>3, <3>1, RunKnows
  <2>6. CodesStay
    BY <1>1, <2>4, <2>5 DEF CodesStay, DbOk
  <2>7. c.store = Primary => db'.code[Primary] # Nothing
    BY <1>1, <2>4, <2>5 DEF DbOk
  <2>8. QED
    BY <2>3, <2>6, <2>7 DEF c, BootInv
<1>3. CASE ~Commits(j)
  <2> DEFINE again == [boot[j] EXCEPT !.seen = db.owner, !.attempt = boot[j].attempt + 1]
  <2>1. /\ db' = db /\ boot[j] # NoBoot
        /\ boot' = [boot EXCEPT ![j] = NoBoot] \/ boot' = [boot EXCEPT ![j] = again]
    BY <1>3 DEF CommitBootstrap
  <2>2. again.config = boot[j].config
    BY DEF BootInv
  <2> HIDE DEF again
  <2>3. QED
    BY <1>3, <2>1, <2>2 DEF CodesStay, BootInv
<1>4. QED
  BY <1>2, <1>3

(* A step of the script itself, and one that starts a child or is a child's. *)
OwnStep == CheckEnvironment \/ Migrated \/ Mark \/ Scrub \/ Activate \/ ScriptDies \/ DeployAgain
ChildStep ==
    \/ \E d \in Deployers : \/ Migrate(d)
                            \/ DeployStep(d) /\ UNCHANGED <<bootVars, serverVars, scriptVars>>
    \/ \E j \in Jobs : RunBootstrap(j) \/ StepOfChild(j)

LEMMA ScriptSteps == ASSUME ScriptInv, RecordsFollow, ByScript, OwnStep PROVE ScriptInv'
<1>1. /\ scene = "install" /\ UNCHANGED <<scene, env, deployVars, bootVars>>
      /\ NoScript \in [pc: ScriptPcs, child: Deployers \cup Jobs \cup {None}] /\ NoScript.pc = "idle"
      /\ script \in [pc: ScriptPcs, child: Deployers \cup Jobs \cup {None}]
  BY DEF OwnStep, ByScript, CheckEnvironment, Migrated, Mark, Scrub, Activate, ScriptDies, DeployAgain, NoScript, ScriptPcs, ScriptInv
<1>2. /\ \A j \in Jobs : boot'[j] # NoBoot => boot'[j].config.store = Primary
      /\ validateEnv(env') = {} /\ Current' = Current /\ db' = db
  BY <1>1 DEF ScriptInv, bootVars, deployVars, Current
<1>3. ASSUME NEW pc \in ScriptPcs, script' = [script EXCEPT !.pc = pc] \/ script' = [pc |-> pc, child |-> None]
      PROVE  script' \in [pc: ScriptPcs, child: Deployers \cup Jobs \cup {None}] /\ script'.pc = pc
  BY <1>1, <1>3
<1>4. CASE CheckEnvironment
  <2>1. script' = [script EXCEPT !.pc = "migrate"] /\ "migrate" \in ScriptPcs /\ UNCHANGED <<marker, scrubbed>>
    BY <1>4 DEF CheckEnvironment, ScriptPcs
  <2>2. QED
    BY <1>1, <1>2, <1>3, <2>1 DEF ScriptInv
<1>5. CASE Migrated
  <2>1. UNCHANGED <<marker, scrubbed>> /\ script.pc = "migrating" /\ script.child \in Deployers
    BY <1>5 DEF Migrated, ScriptInv
  <2>2. CASE script' = NoScript
    BY <1>1, <1>2, <2>1, <2>2 DEF ScriptInv
  <2>3. CASE script' # NoScript
    <3> DEFINE pc == IF marker THEN "scrub" ELSE "bootstrap"
    <3>1. script' = [pc |-> pc, child |-> None] /\ job[script.child].pc = "verified" /\ pc \in ScriptPcs
      BY <1>5, <2>3 DEF Migrated, ScriptPcs
    <3>2. Current
      BY <2>1, <3>1 DEF RecordsFollow, Current
    <3>3. pc \in {"scrub", "bootstrap"} /\ (pc = "scrub" => marker)
      OBVIOUS
    <3> HIDE DEF pc
    <3>4. QED
      BY <1>1, <1>2, <1>3, <2>1, <3>1, <3>2, <3>3 DEF ScriptInv
  <2>4. QED
    BY <2>2, <2>3
<1>6. CASE Mark
  <2>1. script.pc = "mark" /\ script' = [script EXCEPT !.pc = "scrub"] /\ "scrub" \in ScriptPcs /\ marker' = TRUE /\ scrubbed' = scrubbed
    BY <1>6 DEF Mark, ScriptPcs
  <2>2. QED
    BY <1>1, <1>2, <1>3, <2>1 DEF ScriptInv
<1>7. CASE Scrub
  <2>1. script.pc = "scrub" /\ script' = [script EXCEPT !.pc = "activate"] /\ "activate" \in ScriptPcs /\ scrubbed' = TRUE /\ marker' = marker
    BY <1>7 DEF Scrub, ScriptPcs
  <2>2. QED
    BY <1>1, <1>2, <1>3, <2>1 DEF ScriptInv
<1>8. CASE Activate
  <2>1. script' = [script EXCEPT !.pc = "done"] /\ "done" \in ScriptPcs /\ UNCHANGED <<marker, scrubbed>>
    BY <1>8 DEF Activate, ScriptPcs
  <2>2. QED
    BY <1>1, <1>2, <1>3, <2>1 DEF ScriptInv
<1>9. CASE ScriptDies \/ DeployAgain
  <2>1. script' = NoScript /\ UNCHANGED <<marker, scrubbed>>
    BY <1>9 DEF ScriptDies, DeployAgain
  <2>2. QED
    BY <1>1, <1>2, <2>1 DEF ScriptInv
<1>10. QED
  BY <1>4, <1>5, <1>6, <1>7, <1>8, <1>9 DEF OwnStep

LEMMA ChildSteps ==
    ASSUME BootInv, RosterInv, DeployTypeOK, DeployTypeOK', ScriptInv, ByScript, ChildStep
    PROVE  ScriptInv'
<1>1. /\ scene = "install" /\ UNCHANGED <<scene, env>> /\ UNCHANGED <<marker, scrubbed>>
      /\ NoScript \in [pc: ScriptPcs, child: Deployers \cup Jobs \cup {None}] /\ NoScript.pc = "idle"
      /\ script \in [pc: ScriptPcs, child: Deployers \cup Jobs \cup {None}]
      /\ validateEnv(env') = {} /\ \A j \in Jobs : boot[j] # NoBoot => boot[j].config.store = Primary
  BY DEF ChildStep, ByScript, Migrate, RunBootstrap, StepOfChild, scriptVars, NoScript, ScriptPcs, ScriptInv
<1>2. ASSUME NEW d \in Deployers, Migrate(d) PROVE ScriptInv'
  <2>1. script' = [pc |-> "migrating", child |-> d] /\ UNCHANGED bootVars
    BY <1>2 DEF Migrate
  <2>2. script' \in [pc: ScriptPcs, child: Deployers \cup Jobs \cup {None}] /\ script'.pc = "migrating" /\ script'.child = d
    BY <2>1 DEF ScriptPcs
  <2>3. boot' = boot /\ db' = db
    BY <2>1 DEF bootVars
  <2>4. QED
    BY <1>1, <2>2, <2>3 DEF ScriptInv
<1>3. ASSUME NEW d \in Deployers, DeployStep(d), UNCHANGED <<bootVars, serverVars, scriptVars>> PROVE ScriptInv'
  <2>1. Current => Current'
    BY <1>3, CurrentStays
  <2>2. boot' = boot /\ db' = db /\ script' = script
    BY <1>3 DEF bootVars, scriptVars
  <2>3. QED
    BY <1>1, <2>1, <2>2 DEF ScriptInv
<1>4. ASSUME NEW j \in Jobs, RunBootstrap(j) PROVE ScriptInv'
  <2>1. PICK c \in Configs : c.store = Primary /\ StartBootstrap(j, c)
    BY <1>4 DEF RunBootstrap
  <2>2. script.pc = "bootstrap" /\ script' = [pc |-> "bootstrapping", child |-> j] /\ UNCHANGED deployVars
    BY <1>4 DEF RunBootstrap
  <2>3. script' \in [pc: ScriptPcs, child: Deployers \cup Jobs \cup {None}] /\ script'.pc = "bootstrapping" /\ script'.child = j
    BY <2>2 DEF ScriptPcs
  <2>4. Current /\ Current' = Current
    BY <2>2 DEF ScriptInv, deployVars, Current
  <2>5. db' = db /\ \A k \in Jobs : boot'[k] # NoBoot => boot'[k].config.store = Primary
    BY <1>1, <2>1 DEF StartBootstrap, BootInv
  <2>6. QED
    BY <1>1, <2>3, <2>4, <2>5 DEF ScriptInv
<1>5. ASSUME NEW j \in Jobs, StepOfChild(j) PROVE ScriptInv'
  <2>1. PICK committed \in BOOLEAN :
          /\ IF committed THEN Commits(j) /\ CommitBootstrap(j) ELSE (~Commits(j) /\ CommitBootstrap(j)) \/ BootstrapDies(j)
          /\ script' = IF script # [pc |-> "bootstrapping", child |-> j] \/ boot'[j] # NoBoot THEN script
                       ELSE IF committed THEN [pc |-> "mark", child |-> None] ELSE NoScript
    BY <1>5 DEF StepOfChild
  <2>2. UNCHANGED deployVars
    BY <1>5 DEF StepOfChild
  <2>3. Current' = Current
    BY <2>2 DEF deployVars, Current
  <2>4. /\ db.code[Primary] # Nothing => db'.code[Primary] # Nothing
        /\ committed => db'.code[Primary] # Nothing
        /\ \A k \in Jobs : boot'[k] # NoBoot => boot'[k].config.store = Primary
    <3>1. CASE CommitBootstrap(j)
      <4>1. boot[j].config.store = Primary
        BY <1>1, <3>1 DEF CommitBootstrap
      <4>2. /\ CodesStay /\ (Commits(j) /\ boot[j].config.store = Primary => db'.code[Primary] # Nothing)
            /\ \A k \in Jobs : boot'[k] # NoBoot => boot[k] # NoBoot /\ boot'[k].config = boot[k].config
        BY <3>1, CommitGivesCode
      <4>3. committed => Commits(j)
        BY <2>1
      <4>4. QED
        BY <1>1, <4>1, <4>2, <4>3 DEF CodesStay
    <3>2. CASE BootstrapDies(j) /\ ~committed
      BY <1>1, <3>2 DEF BootstrapDies, BootInv
    <3>3. QED
      BY <2>1, <3>1, <3>2
  <2>5. CASE script' = script
    BY <1>1, <2>3, <2>4, <2>5 DEF ScriptInv
  <2>6. CASE script' = NoScript
    BY <1>1, <2>3, <2>4, <2>6 DEF ScriptInv
  <2>7. CASE committed /\ script = [pc |-> "bootstrapping", child |-> j] /\ script' = [pc |-> "mark", child |-> None]
    <3>1. script.pc = "bootstrapping" /\ script'.pc = "mark" /\ script' \in [pc: ScriptPcs, child: Deployers \cup Jobs \cup {None}]
      BY <2>7 DEF ScriptPcs
    <3>2. Current
      BY <3>1 DEF ScriptInv
    <3>3. QED
      BY <1>1, <2>3, <2>4, <2>7, <3>1, <3>2 DEF ScriptInv
  <2>8. QED
    BY <2>1, <2>5, <2>6, <2>7
<1>6. QED
  BY <1>2, <1>3, <1>4, <1>5 DEF ChildStep

LEMMA ScriptStepsHold ==
    ASSUME BootInv, RosterInv, DeployTypeOK, DeployTypeOK', RecordsFollow, ScriptInv, Next \/ UNCHANGED vars
    PROVE  ScriptInv'
<1>1. CASE Install
  <2>1. ByScript /\ (OwnStep \/ ChildStep)
    BY <1>1 DEF Install, OwnStep, ChildStep
  <2>2. QED
    BY <2>1, ScriptSteps, ChildSteps
<1>2. CASE MigrateAnything \/ KeepAccounts \/ SeedStore \/ Serve
  <2>1. scene # "install" /\ UNCHANGED <<scene, env, scriptVars>>
    <3>1. scene # "install" /\ UNCHANGED <<scene, env>>
      BY <1>2 DEF MigrateAnything, KeepAccounts, SeedStore, Serve
    <3>2. UNCHANGED scriptVars
      BY <1>2 DEF MigrateAnything, KeepAccounts, SeedStore, Serve
    <3>3. QED
      BY <3>1, <3>2
  <2>2. script' = script /\ marker' = marker /\ scrubbed' = scrubbed /\ script = NoScript /\ ~marker /\ ~scrubbed
    BY <2>1 DEF scriptVars, ScriptInv
  <2>3. NoScript.pc = "idle"
    BY DEF NoScript
  <2>4. QED
    BY <2>1, <2>2, <2>3 DEF ScriptInv
<1>3. CASE UNCHANGED vars
  <2>1. UNCHANGED <<scene, env, script, marker, scrubbed, db, boot>> /\ Current' = Current
    BY <1>3 DEF vars, scriptVars, bootVars, deployVars, Current
  <2>2. QED
    BY <2>1 DEF ScriptInv
<1>4. QED
  BY <1>1, <1>2, <1>3 DEF Next

-----------------------------------------------------------------------------
(* Types of the seed and of the server. *)
LEMMA SeedTyped == ASSUME SeedTypeOK, StartSeed \/ SeedStep \/ StoreStep \/ UNCHANGED seedVars PROVE SeedTypeOK'
<1>1. Len(clearPrimaryStoreDemoData) = 14 /\ DOMAIN clearPrimaryStoreDemoData = 1 .. 14
  BY DEF clearPrimaryStoreDemoData
<1>2. CASE StartSeed
  <2> DEFINE renamed == {<<r[1], "old">> : r \in rows}
  <2>1. \A r \in rows : r[1] \in BusinessTables
    BY DEF SeedTypeOK
  <2>2. renamed \subseteq BusinessTables \X {"old", "new", "seed"}
    BY <2>1
  <2>3. /\ rows' = renamed /\ gone' = {} /\ statement' = 1 /\ arrived' = FALSE /\ outcome' = "none"
        /\ codeTaken' = codeTaken
    BY <1>2 DEF StartSeed
  <2> HIDE DEF renamed
  <2>4. arrived' \in BOOLEAN /\ codeTaken' \in BOOLEAN
    BY <2>3 DEF SeedTypeOK
  <2>5. {arrived', codeTaken'} \subseteq BOOLEAN
    BY <2>4, Zenon
  <2>6. rows' \subseteq BusinessTables \X {"old", "new", "seed"} /\ gone' \subseteq rows'
        /\ statement' \in 0 .. 15 /\ outcome' \in {"none", "seeded", "refused"}
    BY <2>2, <2>3
  <2>7. QED
    BY <1>1, <2>5, <2>6 DEF SeedTypeOK
<1>3. CASE DeleteStatement
  <2>1. rows' = rows /\ UNCHANGED <<arrived, codeTaken>> /\ statement \in 1 .. 14
    BY <1>1, <1>3 DEF DeleteStatement, EndSeed
  <2>2. gone' \subseteq rows /\ statement' \in {0, statement + 1} /\ outcome' \in {outcome, "refused"}
    BY <1>3 DEF DeleteStatement, EndSeed
  <2>3. QED
    BY <1>1, <2>1, <2>2 DEF SeedTypeOK
<1>4. CASE WriteSeed
  <2>1. (CatalogTables \cup OrderTables) \subseteq BusinessTables
    BY DEF CatalogTables, OrderTables, BusinessTables
  <2>2. QED
    BY <1>1, <1>4, <2>1 DEF WriteSeed, EndSeed, SeedTypeOK
<1>5. CASE SeedDies
  BY <1>1, <1>5 DEF SeedDies, EndSeed, SeedTypeOK
<1>6. ASSUME NEW some \in SUBSET BusinessTables, Arrive(some) PROVE SeedTypeOK'
  BY <1>6 DEF Arrive, SeedTypeOK
<1>7. CASE StoreStep
  <2>1. PICK some \in SUBSET BusinessTables : Arrive(some)
    BY <1>7 DEF StoreStep, OrderArrives, PaymentStarts, PaymentEnds, ProductArrives, OrderTables, BusinessTables
  <2>2. QED
    BY <1>6, <2>1
<1>8. CASE UNCHANGED seedVars
  BY <1>8 DEF seedVars, SeedTypeOK
<1>9. QED
  BY <1>2, <1>3, <1>4, <1>5, <1>7, <1>8 DEF SeedStep

LEMMA ServerTyped ==
    ASSUME ServerTypeOK, (\E ready : StartServer(ready)) \/ ServerStep \/ UNCHANGED serverVars PROVE ServerTypeOK'
<1>1. CASE \E ready : StartServer(ready)
  BY <1>1 DEF StartServer, ServerTypeOK
<1>2. CASE UNCHANGED serverVars
  BY <1>2 DEF serverVars, ServerTypeOK
<1>3. ASSUME NEW code \in {"0", "1", "killed"}, Ends(code) PROVE ServerTypeOK'
  BY <1>3 DEF Ends, ServerTypeOK
<1>4. CASE ServerStep
  <2>1. CASE Supervise \/ StopIsLogged
    BY <2>1 DEF Supervise, StopIsLogged, ServerTypeOK
  <2>2. CASE CloseEnds \/ StopFails \/ ForcedExit \/ ExitAfterLog
    BY <1>3, <2>2 DEF CloseEnds, StopFails, ForcedExit, ExitAfterLog
  <2>3. ASSUME NEW s \in Signals, stop(s) PROVE ServerTypeOK'
    BY <1>3, <2>3 DEF stop, ServerTypeOK
  <2>4. ASSUME NEW e \in Errors, Uncaught(e) PROVE ServerTypeOK'
    BY <1>3, <2>4 DEF Uncaught, ServerTypeOK
  <2>5. QED
    BY <1>4, <2>1, <2>2, <2>3, <2>4 DEF ServerStep
<1>5. QED
  BY <1>1, <1>2, <1>4

(* Which parts a step of the whole is one of. *)
LEMMA OnlyTheSeed == ASSUME Next PROVE StartSeed \/ SeedStep \/ StoreStep \/ UNCHANGED seedVars
BY DEF Next, Install, ByScript, MigrateAnything, KeepAccounts, SeedStore, Serve

LEMMA OnlyTheServer == ASSUME Next PROVE (\E ready : StartServer(ready)) \/ ServerStep \/ UNCHANGED serverVars
<1>1. CASE Install
  <2>1. ByScript /\ (OwnStep \/ ChildStep)
    BY <1>1 DEF Install, OwnStep, ChildStep
  <2>2. CASE OwnStep
    BY <2>2 DEF OwnStep, CheckEnvironment, Migrated, Mark, Scrub, Activate, ScriptDies, DeployAgain
  <2>3. CASE ChildStep
    BY <2>3 DEF ChildStep, Migrate, RunBootstrap, StepOfChild
  <2>4. QED
    BY <2>1, <2>2, <2>3
<1>2. CASE Serve
  BY <1>2 DEF Serve
<1>3. CASE MigrateAnything \/ KeepAccounts \/ SeedStore
  BY <1>3 DEF MigrateAnything, KeepAccounts, SeedStore
<1>4. QED
  BY <1>1, <1>2, <1>3 DEF Next

InstallInv ==
    /\ DeployInv /\ BootInv /\ RosterInv /\ RecordsFollow /\ ScriptInv
    /\ SeedTypeOK /\ ServerTypeOK /\ scene \in Scenes /\ env \in Settings

LEMMA InstallStarts == ASSUME Init PROVE InstallInv
<1>1. DeployInv
  <2>1. PICK databases \in SUBSET Databases0 : DeployInit(databases)
    BY DEF Init, UpToDate
  <2>2. QED
    BY <2>1, DeployStarts
<1>2. BootInv /\ RosterInv
  BY BootstrapStarts, RosterStarts DEF Init
<1>3. RecordsFollow
  BY DEF Init, DeployInit, NoJob, RecordsFollow
<1>4. SeedTypeOK
  <2>1. PICK found \in SUBSET BusinessTables : rows = found \X {"old"}
    <3>1. SeedInit
      BY DEF Init
    <3>2. PICK found \in {{}, CatalogTables, CatalogTables \cup OrderTables \cup {"integrationOutbox"}, BusinessTables} :
             rows = found \X {"old"}
      BY <3>1 DEF SeedInit
    <3>3. found \subseteq BusinessTables
      BY DEF CatalogTables, OrderTables, BusinessTables
    <3>4. QED
      BY <3>2, <3>3
  <2>2. QED
    <3>1. SeedInit
      BY DEF Init
    <3>2. Len(clearPrimaryStoreDemoData) = 14
      BY DEF clearPrimaryStoreDemoData
    <3>3. arrived \in BOOLEAN /\ codeTaken \in BOOLEAN
      BY <3>1 DEF SeedInit
    <3>4. {arrived, codeTaken} \subseteq BOOLEAN
      BY <3>3, Zenon
    <3>5. rows \subseteq BusinessTables \X {"old", "new", "seed"} /\ gone = {} /\ statement = 0 /\ outcome = "none"
      BY <2>1, <3>1 DEF SeedInit
    <3>6. QED
      BY <3>2, <3>4, <3>5 DEF SeedTypeOK
<1>5. ServerTypeOK
  BY DEF Init, ServerInit, ServerTypeOK
<1>6. scene \in Scenes /\ env \in Settings
  BY ProvisioningAssumption DEF Init
<1>7. QED
  BY <1>1, <1>2, <1>3, <1>4, <1>5, <1>6, ScriptStarts DEF InstallInv

LEMMA InstallStep == ASSUME InstallInv, Next \/ UNCHANGED vars PROVE InstallInv'
<1>1. DeployInv' /\ DeployTypeOK /\ DeployTypeOK'
  <2>1. DeployInv'
    BY OnlyDeployments, DeployStepHolds, DeployStutters DEF InstallInv, vars
  <2>2. QED
    BY <2>1 DEF InstallInv, DeployInv
<1>2. BootInv' /\ RosterInv'
  BY OnlyBootstraps, BootstrapSteps, RosterHolds DEF InstallInv, vars
<1>3. RecordsFollow'
  BY <1>1, OnlyDeployments, RecordsStillFollow DEF InstallInv, vars
<1>4. ScriptInv'
  BY <1>1, ScriptStepsHold DEF InstallInv
<1>5. SeedTypeOK'
  BY OnlyTheSeed, SeedTyped DEF InstallInv, vars
<1>6. ServerTypeOK'
  BY OnlyTheServer, ServerTyped DEF InstallInv, vars
<1>7. scene' = scene /\ env' = env
  BY DEF Next, Install, ByScript, MigrateAnything, KeepAccounts, SeedStore, Serve, vars
<1>8. QED
  BY <1>1, <1>2, <1>3, <1>4, <1>5, <1>6, <1>7 DEF InstallInv

(* An installation that died anywhere, with any children still at work, can *)
(* be taken up again: the credentials are there until the marker is, and    *)
(* the server that deploy.sh starts passes its own checks.                  *)
THEOREM InstallationAlwaysResumes == Spec => []InstallationResumes
<1>1. Init => InstallInv
  BY InstallStarts
<1>2. InstallInv /\ [Next]_vars => InstallInv'
  BY InstallStep
<1>3. InstallInv => InstallationResumes
  <2> SUFFICES ASSUME InstallInv PROVE InstallationResumes
    OBVIOUS
  <2>1. ProvisioningTypeOK
    BY AccountsAreTyped DEF InstallInv, DeployInv, ScriptInv, ProvisioningTypeOK
  <2>2. ActivationStarts
    <3>1. ASSUME script.pc = "activate" PROVE CanStart
      <4>1. scene = "install"
        BY <3>1 DEF InstallInv, ScriptInv, NoScript
      <4>2. QED
        BY <3>1, <4>1 DEF InstallInv, ScriptInv, CanStart
    <3>2. QED
      BY <3>1 DEF ActivationStarts
  <2>3. CredentialsAreKept
    BY DEF InstallInv, ScriptInv, CredentialsAreKept
  <2>4. QED
    BY <2>1, <2>2, <2>3, BootstrapsAreWelcome DEF InstallationResumes
<1>4. QED
  BY <1>1, <1>2, <1>3, PTL DEF Spec

-----------------------------------------------------------------------------
(* The demo seed. Its deletes come in an order in which a table goes after every table
   that restricts it, and they leave no table out. *)
LEMMA DeletesAreOrdered ==
    /\ Len(clearPrimaryStoreDemoData) = 14 /\ DOMAIN clearPrimaryStoreDemoData = 1 .. 14
    /\ \A t \in BusinessTables : \E k \in 1 .. 14 : clearPrimaryStoreDemoData[k] = t
    /\ \A i \in 1 .. 14, c \in BusinessTables :
          <<c, clearPrimaryStoreDemoData[i]>> \in Restricts => \E k \in 1 .. 14 : k < i /\ clearPrimaryStoreDemoData[k] = c
<1>1. Len(clearPrimaryStoreDemoData) = 14 /\ DOMAIN clearPrimaryStoreDemoData = 1 .. 14
  BY DEF clearPrimaryStoreDemoData
<1>2. /\ clearPrimaryStoreDemoData[1] = "paymentTransaction" /\ clearPrimaryStoreDemoData[2] = "paymentWebhookEvent"
      /\ clearPrimaryStoreDemoData[3] = "paymentIntent" /\ clearPrimaryStoreDemoData[4] = "integrationOutbox"
      /\ clearPrimaryStoreDemoData[5] = "orderStatusLog" /\ clearPrimaryStoreDemoData[6] = "orderItemSelection"
      /\ clearPrimaryStoreDemoData[7] = "orderItem" /\ clearPrimaryStoreDemoData[8] = "order"
      /\ clearPrimaryStoreDemoData[9] = "productSelectionGroup" /\ clearPrimaryStoreDemoData[10] = "selectionOption"
      /\ clearPrimaryStoreDemoData[11] = "selectionGroup" /\ clearPrimaryStoreDemoData[12] = "productSKU"
      /\ clearPrimaryStoreDemoData[13] = "product" /\ clearPrimaryStoreDemoData[14] = "category"
  BY DEF clearPrimaryStoreDemoData
<1>3. \A t \in BusinessTables : \E k \in 1 .. 14 : clearPrimaryStoreDemoData[k] = t
  BY <1>2 DEF BusinessTables
<1>4. ASSUME NEW i \in 1 .. 14, NEW c \in BusinessTables, <<c, clearPrimaryStoreDemoData[i]>> \in Restricts
      PROVE  \E k \in 1 .. 14 : k < i /\ clearPrimaryStoreDemoData[k] = c
  <2> DEFINE t == clearPrimaryStoreDemoData[i]
  <2>1. \/ c = "paymentTransaction" /\ t = "paymentIntent"
        \/ c = "paymentIntent" /\ t = "order"
        \/ c = "orderItem" /\ t = "product"
        \/ c = "orderItem" /\ t = "productSKU"
        \/ c = "product" /\ t = "category"
    BY <1>4 DEF Restricts
  <2>2. i \in {3, 8, 12, 13, 14}
    BY <1>2, <2>1
  <2>3. CASE i = 3
    BY <1>2, <2>1, <2>3
  <2>4. CASE i = 8
    BY <1>2, <2>1, <2>4
  <2>5. CASE i = 12 \/ i = 13
    BY <1>2, <2>1, <2>5
  <2>6. CASE i = 14
    BY <1>2, <2>1, <2>6
  <2>7. QED
    BY <2>2, <2>3, <2>4, <2>5, <2>6
<1>5. QED
  BY <1>1, <1>3, <1>4

Cleared(table) == \E k \in 1 .. 14 : k < statement /\ clearPrimaryStoreDemoData[k] = table

SeedInv ==
    /\ SeedTypeOK /\ (outcome # "none" => statement = 0)
    /\ SeedRefusedForAReason /\ SeedReplacesTheStore
    /\ statement # 0 => \A r \in rows : r[2] = "old" => r \in gone \/ ~Cleared(r[1])
    /\ statement # 0 /\ ~arrived => \A r \in rows : r[2] = "old"

LEMMA DeleteStep == ASSUME SeedInv, DeleteStatement PROVE SeedInv'
<1>1. SeedTypeOK' /\ SeedTypeOK
  BY SeedTyped DEF SeedInv, SeedStep
<1>2. /\ statement \in 1 .. 14 /\ rows' = rows /\ UNCHANGED <<arrived, codeTaken>> /\ statement # 0 /\ statement \in Nat
  BY DeletesAreOrdered DEF DeleteStatement, EndSeed
<1> DEFINE table == clearPrimaryStoreDemoData[statement]
<1>3. CASE EndSeed("refused")
  <2>1. ASSUME ~arrived PROVE codeTaken
    <3>1. outcome = "none"
      BY <1>2 DEF SeedInv
    <3>2. PICK parent \in rows \ gone, child \in rows \ gone : parent[1] = table /\ <<child[1], table>> \in Restricts
      <4>1. statement' = 0
        BY <1>3 DEF EndSeed
      <4>2. QED
        BY <1>2, <4>1 DEF DeleteStatement
    <3>3. child[2] = "old" /\ child[1] \in BusinessTables
      BY <1>1, <1>2, <2>1 DEF SeedInv, SeedTypeOK
    <3>4. Cleared(child[1])
      BY <1>2, <3>2, <3>3, DeletesAreOrdered DEF Cleared
    <3>5. QED
      BY <1>2, <3>2, <3>3, <3>4 DEF SeedInv
  <2>2. statement' = 0 /\ outcome' = "refused"
    BY <1>3 DEF EndSeed
  <2>3. QED
    BY <1>1, <1>2, <2>1, <2>2 DEF SeedInv, SeedRefusedForAReason, SeedReplacesTheStore
<1>4. CASE ~EndSeed("refused")
  <2>1. /\ statement' = statement + 1 /\ outcome' = outcome /\ outcome = "none"
        /\ \A r \in rows : r \in gone \/ r[1] = table => r \in gone'
    BY <1>2, <1>4 DEF DeleteStatement, SeedInv
  <2>2. \A t : Cleared(t)' => Cleared(t) \/ t = table
    BY <1>2, <2>1 DEF Cleared
  <2>3. ASSUME NEW r \in rows', r[2] = "old" PROVE r \in gone' \/ ~Cleared(r[1])'
    BY <1>2, <2>1, <2>2, <2>3 DEF SeedInv
  <2>4. QED
    BY <1>1, <1>2, <2>1, <2>3 DEF SeedInv, SeedRefusedForAReason, SeedReplacesTheStore
<1>5. QED
  BY <1>3, <1>4

LEMMA SeedSteps == ASSUME SeedInv, Resolvable, StartSeed \/ SeedStep \/ StoreStep \/ UNCHANGED seedVars PROVE SeedInv'
<1>1. SeedTypeOK' /\ SeedTypeOK /\ statement \in Nat
  BY SeedTyped, DeletesAreOrdered DEF SeedInv, SeedTypeOK
<1>2. CASE StartSeed
  <2>1. /\ statement' = 1 /\ outcome' = "none" /\ \A r \in rows' : r[2] = "old"
    BY <1>2 DEF StartSeed
  <2>2. \A t : ~Cleared(t)'
    BY <2>1 DEF Cleared
  <2>3. QED
    BY <1>1, <2>1, <2>2 DEF SeedInv, SeedRefusedForAReason, SeedReplacesTheStore
<1>3. CASE WriteSeed
  <2>1. statement > 14 /\ statement # 0 /\ codeTaken' = codeTaken /\ arrived' = arrived /\ statement' = 0
    BY <1>3, DeletesAreOrdered DEF WriteSeed, EndSeed
  <2>2. CASE codeTaken
    BY <1>1, <1>3, <2>1, <2>2 DEF WriteSeed, EndSeed, SeedInv, SeedRefusedForAReason, SeedReplacesTheStore
  <2>3. CASE ~codeTaken
    <3>1. rows' = (rows \ gone) \cup ((CatalogTables \cup OrderTables) \X {"seed"}) /\ outcome' = "seeded"
      BY <1>3, <2>3 DEF WriteSeed, EndSeed
    <3>2. ASSUME NEW r \in rows \ gone PROVE r[2] # "old"
      <4>1. r[1] \in BusinessTables
        BY <1>1 DEF SeedTypeOK
      <4>2. Cleared(r[1])
        BY <1>1, <2>1, <4>1, DeletesAreOrdered DEF Cleared
      <4>3. r \in rows /\ r \notin gone
        OBVIOUS
      <4>4. QED
        BY <2>1, <4>2, <4>3 DEF SeedInv
    <3>3. \A r \in rows' : r[2] # "old"
      BY <3>1, <3>2
    <3>4. QED
      BY <1>1, <2>1, <3>1, <3>3 DEF SeedInv, SeedRefusedForAReason, SeedReplacesTheStore
  <2>4. QED
    BY <2>2, <2>3
<1>4. CASE SeedDies
  BY <1>1, <1>4 DEF SeedDies, EndSeed, SeedInv, SeedRefusedForAReason, SeedReplacesTheStore
<1>5. ASSUME NEW some, Arrive(some) PROVE SeedInv'
  <2>1. /\ rows' = rows \cup (some \X {"new"}) /\ arrived' = (arrived \/ statement # 0)
        /\ UNCHANGED <<statement, gone, codeTaken, outcome>>
    BY <1>5 DEF Arrive
  <2>2. \A r \in rows' : r \in rows \/ r[2] = "new"
    BY <2>1
  <2>3. \A t : Cleared(t)' = Cleared(t)
    BY <2>1 DEF Cleared
  <2>4. statement # 0 => \A r \in rows' : r[2] = "old" => r \in gone \/ ~Cleared(r[1])
    BY <2>2 DEF SeedInv
  <2>5. SeedReplacesTheStore' /\ SeedRefusedForAReason'
    BY <2>1, <2>2 DEF SeedInv, SeedReplacesTheStore, SeedRefusedForAReason
  <2>6. statement' # 0 => arrived'
    BY <2>1
  <2>7. QED
    BY <1>1, <2>1, <2>3, <2>4, <2>5, <2>6 DEF SeedInv
<1>6. CASE UNCHANGED seedVars
  BY <1>1, <1>6 DEF seedVars, SeedInv, SeedRefusedForAReason, SeedReplacesTheStore, Cleared
<1>7. QED
  BY <1>2, <1>3, <1>4, <1>5, <1>6, DeleteStep DEF SeedStep, StoreStep, OrderArrives, PaymentStarts, PaymentEnds, ProductArrives

LEMMA JoinedElements ==
    ASSUME NEW S, NEW s \in Seq(S), NEW t \in Seq(S) PROVE Elements(s \o t) = Elements(s) \cup Elements(t)
<1>1. /\ s \o t \in Seq(S) /\ Len(s \o t) = Len(s) + Len(t) /\ Len(s) \in Nat /\ Len(t) \in Nat
      /\ \A i \in 1 .. Len(s) + Len(t) : (s \o t)[i] = IF i <= Len(s) THEN s[i] ELSE t[i - Len(s)]
  BY ConcatProperties
<1> DEFINE l == s \o t
<1>2. DOMAIN l = 1 .. Len(s) + Len(t) /\ DOMAIN s = 1 .. Len(s) /\ DOMAIN t = 1 .. Len(t)
  BY <1>1
<1>3. ASSUME NEW i \in DOMAIN l PROVE l[i] \in Elements(s) \cup Elements(t)
  <2>1. CASE i <= Len(s)
    BY <1>1, <1>2, <2>1 DEF Elements
  <2>2. CASE ~(i <= Len(s))
    <3>1. i - Len(s) \in DOMAIN t /\ l[i] = t[i - Len(s)]
      BY <1>1, <1>2, <2>2
    <3>2. QED
      BY <3>1 DEF Elements
  <2>3. QED
    BY <2>1, <2>2
<1>4. ASSUME NEW i \in DOMAIN s PROVE s[i] \in Elements(l)
  <2>1. i \in DOMAIN l /\ l[i] = s[i]
    BY <1>1, <1>2
  <2>2. QED
    BY <2>1 DEF Elements
<1>5. ASSUME NEW i \in DOMAIN t PROVE t[i] \in Elements(l)
  <2>1. i + Len(s) \in DOMAIN l /\ l[i + Len(s)] = t[i]
    BY <1>1, <1>2
  <2>2. QED
    BY <2>1 DEF Elements
<1> HIDE DEF l
<1>6. Elements(l) = Elements(s) \cup Elements(t)
  BY <1>3, <1>4, <1>5 DEF Elements
<1>7. QED
  BY <1>6 DEF l

(* A path of legal transitions, and its extension by another. *)
Path(l) == l \in Seq(Statuses) /\ Len(l) > 0 /\ \A i \in 2 .. Len(l) : l[i] \in EditableTransitions(l[i - 1])

LEMMA ShortPaths ==
    /\ \A a \in Statuses : Path(<<a>>) /\ Len(<<a>>) = 1 /\ <<a>>[1] = a
    /\ \A a, b \in Statuses :
          b \in EditableTransitions(a) => Path(<<a, b>>) /\ Len(<<a, b>>) = 2 /\ <<a, b>>[1] = a /\ <<a, b>>[2] = b
<1>1. ASSUME NEW a \in Statuses PROVE Path(<<a>>) /\ Len(<<a>>) = 1 /\ <<a>>[1] = a
  BY DEF Path
<1>2. ASSUME NEW a \in Statuses, NEW b \in Statuses, b \in EditableTransitions(a)
      PROVE  Path(<<a, b>>) /\ Len(<<a, b>>) = 2 /\ <<a, b>>[1] = a /\ <<a, b>>[2] = b
  <2> DEFINE l == <<a, b>>
  <2>1. l \in Seq(Statuses) /\ Len(l) = 2 /\ l[1] = a /\ l[2] = b
    OBVIOUS
  <2> HIDE DEF l
  <2>2. Path(l)
    BY <1>2, <2>1 DEF Path
  <2>3. QED
    BY <2>1, <2>2 DEF l
<1>3. QED
  BY <1>1, <1>2

LEMMA LongerPath ==
    ASSUME NEW l, Path(l), NEW m, Path(m), m[1] \in EditableTransitions(l[Len(l)])
    PROVE  Path(l \o m) /\ (l \o m)[1] = l[1] /\ (l \o m)[Len(l \o m)] = m[Len(m)]
<1> DEFINE n == l \o m
<1>1. /\ n \in Seq(Statuses) /\ Len(n) = Len(l) + Len(m) /\ Len(l) \in Nat /\ Len(m) \in Nat /\ Len(l) > 0 /\ Len(m) > 0
      /\ \A i \in 1 .. Len(l) + Len(m) : n[i] = IF i <= Len(l) THEN l[i] ELSE m[i - Len(l)]
  BY ConcatProperties DEF Path
<1> HIDE DEF n
<1>2. n[1] = l[1] /\ n[Len(n)] = m[Len(m)]
  BY <1>1
<1>3. ASSUME NEW i \in 2 .. Len(n) PROVE n[i] \in EditableTransitions(n[i - 1])
  <2>1. CASE i <= Len(l)
    <3>1. n[i] = l[i] /\ n[i - 1] = l[i - 1] /\ i \in 2 .. Len(l)
      BY <1>1, <2>1
    <3>2. QED
      BY <3>1 DEF Path
  <2>2. CASE i = Len(l) + 1
    <3>1. n[i] = m[1] /\ n[i - 1] = l[Len(l)]
      BY <1>1, <2>2
    <3>2. QED
      BY <3>1
  <2>3. CASE i > Len(l) + 1
    <3> DEFINE k == i - Len(l)
    <3>1. n[i] = m[k] /\ n[i - 1] = m[k - 1] /\ k \in 2 .. Len(m)
      BY <1>1, <2>3
    <3> HIDE DEF k
    <3>2. QED
      BY <3>1 DEF Path
  <2>4. QED
    BY <1>1, <2>1, <2>2, <2>3
<1>4. QED
  BY <1>1, <1>2, <1>3 DEF n, Path

LEMMA Transitions ==
    /\ {"CREATING", "PENDING_PAYMENT", "PAID", "PREPARING", "READY", "COMPLETED", "REFUNDING", "REFUNDED",
        "CANCELLED", "TIMED_OUT", "FAILED"} \subseteq Statuses
    /\ "PENDING_PAYMENT" \in EditableTransitions("CREATING")
    /\ {"PAID", "CANCELLED", "TIMED_OUT", "FAILED"} \subseteq EditableTransitions("PENDING_PAYMENT")
    /\ {"PREPARING", "REFUNDING"} \subseteq EditableTransitions("PAID")
    /\ "READY" \in EditableTransitions("PREPARING") /\ "COMPLETED" \in EditableTransitions("READY")
    /\ "REFUNDED" \in EditableTransitions("REFUNDING")
BY DEF Statuses, EditableTransitions

LEMMA UnpaidPath == Path(Unpaid) /\ Unpaid[1] = "CREATING" /\ Unpaid[Len(Unpaid)] = "PENDING_PAYMENT"
BY ShortPaths, Transitions DEF Unpaid

(* An unpaid order that goes on, and a paid one. *)
LEMMA FromUnpaid ==
    ASSUME NEW m, Path(m), m[1] \in {"PAID", "CANCELLED", "TIMED_OUT", "FAILED"}
    PROVE  Path(Unpaid \o m) /\ (Unpaid \o m)[1] = "CREATING" /\ (Unpaid \o m)[Len(Unpaid \o m)] = m[Len(m)]
BY UnpaidPath, Transitions, LongerPath

LEMMA PaidPath == Path(Paid) /\ Paid[1] = "CREATING" /\ Paid[Len(Paid)] = "PAID"
<1>1. Path(<<"PAID">>) /\ Len(<<"PAID">>) = 1 /\ <<"PAID">>[1] = "PAID"
  BY ShortPaths, Transitions
<1>2. QED
  BY <1>1, FromUnpaid DEF Paid

LEMMA FromPaid ==
    ASSUME NEW m, Path(m), m[1] \in {"PREPARING", "REFUNDING"}
    PROVE  Path(Paid \o m) /\ (Paid \o m)[1] = "CREATING" /\ (Paid \o m)[Len(Paid \o m)] = m[Len(m)]
BY PaidPath, Transitions, LongerPath

LEMMA LegalLogs ==
    ASSUME NEW o, Path(o.logs), o.logs[1] = "CREATING", o.logs[Len(o.logs)] = o.status
    PROVE  LegalHistory(o)
BY DEF Path, LegalHistory

LEMMA FewElements ==
    /\ \A a : Elements(<<a>>) = {a}
    /\ \A a, b : Elements(<<a, b>>) = {a, b}
    /\ \A a, b, c : Elements(<<a, b, c>>) = {a, b, c}
BY DEF Elements

(* The items the orders name. *)
SeedItems ==
    {Item("combo", "standard", Combo("spicy", <<"fries", "medium">>, "cola")), Item("cola", "large", {<<"ice", "less">>}),
     Item("spicy", "double", {<<"spice", "mild">>, <<"addon", "cheese">>}), Item("fries", "large", {}),
     Item("grilled", "single", {<<"veggie", "no-tomato">>}), Item("popcorn", "share", {}),
     Item("fruit", "medium", {<<"ice", "no">>}), Item("beef", "single", {}), Item("cola", "medium", {<<"ice", "regular">>}),
     Item("combo", "standard", Combo("grilled", <<"popcorn", "small">>, "fruit")), Item("fries", "medium", {}),
     Item("spicy", "single", {<<"spice", "hot">>, <<"veggie", "pickles">>}), Item("popcorn", "small", {})}
OrderIsLegal(o) == LegalHistory(o) /\ Elements(o.items) \subseteq SeedItems

LEMMA Logs ==
    /\ Path(Paid \o <<"PREPARING", "READY", "COMPLETED">>) /\ (Paid \o <<"PREPARING", "READY", "COMPLETED">>)[1] = "CREATING"
    /\ Path(Paid \o <<"REFUNDING">>) /\ (Paid \o <<"REFUNDING">>)[1] = "CREATING"
    /\ Path(Paid \o <<"REFUNDING", "REFUNDED">>) /\ (Paid \o <<"REFUNDING", "REFUNDED">>)[1] = "CREATING"
<1>1. Path(<<"PREPARING", "READY", "COMPLETED">>)
  <2> DEFINE l == <<"PREPARING", "READY", "COMPLETED">>
  <2>1. l \in Seq(Statuses) /\ Len(l) = 3 /\ l[1] = "PREPARING" /\ l[2] = "READY" /\ l[3] = "COMPLETED"
    BY DEF Statuses
  <2> HIDE DEF l
  <2>2. QED
    BY <2>1, Transitions DEF Path, l
<1>2. QED
  BY <1>1, FromPaid, ShortPaths, Transitions

LEMMA PaidLogs ==
    /\ LET l == Paid \o <<"PREPARING", "READY", "COMPLETED">> IN l[Len(l)] = "COMPLETED"
    /\ LET l == Paid \o <<"REFUNDING">> IN l[Len(l)] = "REFUNDING"
    /\ LET l == Paid \o <<"REFUNDING", "REFUNDED">> IN l[Len(l)] = "REFUNDED"
<1>1. PICK n \in Nat : Len(Paid) = n /\ Paid \in Seq(Statuses)
  BY PaidPath DEF Path
<1>2. \A l \in Seq(Statuses) : Len(l) > 0 => (Paid \o l)[Len(Paid \o l)] = l[Len(l)]
  BY <1>1, ConcatProperties
<1>3. QED
  BY <1>2, Transitions

LEMMA UnpaidLogs ==
    ASSUME NEW s \in {"CANCELLED", "TIMED_OUT", "FAILED"}
    PROVE  LET l == Unpaid \o <<s>> IN Path(l) /\ l[1] = "CREATING" /\ l[Len(l)] = s
BY FromUnpaid, ShortPaths, Transitions

LEMMA FirstOrdersLegal == \A o \in Elements(FirstOrders) : OrderIsLegal(o)
<1>1. \A o \in Elements(FirstOrders) : o = FirstOrders[1] \/ o = FirstOrders[2] \/ o = FirstOrders[3]
  BY DEF FirstOrders, Elements
<1>2. /\ FirstOrders[1].logs = Paid /\ FirstOrders[1].status = "PAID"
      /\ FirstOrders[2].logs = Unpaid /\ FirstOrders[2].status = "PENDING_PAYMENT"
      /\ FirstOrders[3].logs = Paid \o <<"PREPARING", "READY", "COMPLETED">> /\ FirstOrders[3].status = "COMPLETED"
  BY DEF FirstOrders
<1>3. /\ Elements(FirstOrders[1].items) \subseteq SeedItems
      /\ Elements(FirstOrders[2].items) \subseteq SeedItems
      /\ Elements(FirstOrders[3].items) \subseteq SeedItems
  BY FewElements DEF FirstOrders, SeedItems
<1>4. LegalHistory(FirstOrders[1]) /\ LegalHistory(FirstOrders[2])
  BY <1>2, LegalLogs, PaidPath, UnpaidPath
<1>5. LegalHistory(FirstOrders[3])
  BY <1>2, LegalLogs, Logs, PaidLogs
<1>6. QED
  BY <1>1, <1>3, <1>4, <1>5 DEF OrderIsLegal

LEMMA RefundOrdersLegal == \A o \in Elements(RefundOrders) : OrderIsLegal(o)
<1>1. \A o \in Elements(RefundOrders) : o = RefundOrders[1] \/ o = RefundOrders[2]
  BY DEF RefundOrders, Elements
<1>2. /\ RefundOrders[1].logs = Paid \o <<"REFUNDING">> /\ RefundOrders[1].status = "REFUNDING"
      /\ RefundOrders[2].logs = Paid \o <<"REFUNDING", "REFUNDED">> /\ RefundOrders[2].status = "REFUNDED"
  BY DEF RefundOrders
<1>3. Elements(RefundOrders[1].items) \subseteq SeedItems /\ Elements(RefundOrders[2].items) \subseteq SeedItems
  BY FewElements DEF RefundOrders, SeedItems
<1>4. LegalHistory(RefundOrders[1]) /\ LegalHistory(RefundOrders[2])
  BY <1>2, LegalLogs, Logs, PaidLogs
<1>5. QED
  BY <1>1, <1>3, <1>4 DEF OrderIsLegal

LEMMA ClosedOrdersLegal == \A o \in Elements(ClosedOrders) : OrderIsLegal(o)
<1>1. \A o \in Elements(ClosedOrders) : o = ClosedOrders[1] \/ o = ClosedOrders[2] \/ o = ClosedOrders[3]
  BY DEF ClosedOrders, Elements
<1>2. /\ ClosedOrders[1].logs = Unpaid \o <<"CANCELLED">> /\ ClosedOrders[1].status = "CANCELLED"
      /\ ClosedOrders[2].logs = Unpaid \o <<"TIMED_OUT">> /\ ClosedOrders[2].status = "TIMED_OUT"
      /\ ClosedOrders[3].logs = Unpaid \o <<"FAILED">> /\ ClosedOrders[3].status = "FAILED"
  BY DEF ClosedOrders
<1>3. /\ Elements(ClosedOrders[1].items) \subseteq SeedItems
      /\ Elements(ClosedOrders[2].items) \subseteq SeedItems
      /\ Elements(ClosedOrders[3].items) \subseteq SeedItems
  BY FewElements DEF ClosedOrders, SeedItems
<1>4. LegalHistory(ClosedOrders[1]) /\ LegalHistory(ClosedOrders[2]) /\ LegalHistory(ClosedOrders[3])
  BY <1>2, LegalLogs, UnpaidLogs
<1>5. QED
  BY <1>1, <1>3, <1>4 DEF OrderIsLegal

LEMMA DemoOrdersLegal == \A o \in Elements(DemoOrders) : OrderIsLegal(o)
<1> DEFINE S == Elements(FirstOrders) \cup Elements(RefundOrders) \cup Elements(ClosedOrders)
<1>1. FirstOrders \in Seq(S) /\ RefundOrders \in Seq(S) /\ ClosedOrders \in Seq(S)
  <2>1. Len(FirstOrders) = 3 /\ Len(RefundOrders) = 2 /\ Len(ClosedOrders) = 3
    BY DEF FirstOrders, RefundOrders, ClosedOrders
  <2>2. DOMAIN FirstOrders = 1 .. 3 /\ DOMAIN RefundOrders = 1 .. 2 /\ DOMAIN ClosedOrders = 1 .. 3
    BY DEF FirstOrders, RefundOrders, ClosedOrders
  <2>3. /\ \A i \in 1 .. 3 : FirstOrders[i] \in S /\ ClosedOrders[i] \in S
        /\ \A i \in 1 .. 2 : RefundOrders[i] \in S
    BY <2>2 DEF Elements
  <2>4. /\ FirstOrders = [i \in 1 .. 3 |-> FirstOrders[i]] /\ ClosedOrders = [i \in 1 .. 3 |-> ClosedOrders[i]]
        /\ RefundOrders = [i \in 1 .. 2 |-> RefundOrders[i]]
    BY DEF FirstOrders, RefundOrders, ClosedOrders
  <2> HIDE DEF S
  <2>5. QED
    BY <2>3, <2>4
<1> HIDE DEF S
<1>2. FirstOrders \o RefundOrders \in Seq(S)
  BY <1>1, ConcatProperties
<1>3. Elements(DemoOrders) = Elements(FirstOrders) \cup Elements(RefundOrders) \cup Elements(ClosedOrders)
  <2>1. Elements(FirstOrders \o RefundOrders) = Elements(FirstOrders) \cup Elements(RefundOrders)
    BY <1>1, JoinedElements
  <2>2. Elements((FirstOrders \o RefundOrders) \o ClosedOrders) = Elements(FirstOrders \o RefundOrders) \cup Elements(ClosedOrders)
    BY <1>1, <1>2, JoinedElements
  <2>3. QED
    BY <2>1, <2>2 DEF DemoOrders
<1>4. QED
  BY <1>3, FirstOrdersLegal, RefundOrdersLegal, ClosedOrdersLegal

LEMMA ItemsAreKnown == ItemsOf(DemoOrders) \subseteq SeedItems
BY DemoOrdersLegal DEF ItemsOf, OrderIsLegal

LEMMA SkusKnown ==
    /\ DOMAIN SeedSkus = {"spicy", "grilled", "beef", "fries", "popcorn", "cola", "fruit", "combo"}
    /\ Elements(SeedSkus["spicy"]) = {"single", "double"} /\ Elements(SeedSkus["grilled"]) = {"single"}
    /\ Elements(SeedSkus["beef"]) = {"single"} /\ Elements(SeedSkus["fries"]) = {"medium", "large"}
    /\ Elements(SeedSkus["popcorn"]) = {"small", "share"} /\ Elements(SeedSkus["cola"]) = {"medium", "large"}
    /\ Elements(SeedSkus["fruit"]) = {"medium"} /\ Elements(SeedSkus["combo"]) = {"standard"}
BY FewElements DEF SeedSkus

LEMMA GroupsKnown ==
    /\ GroupOf("spice") = Modifiers.spice /\ GroupOf("veggie") = Modifiers.veggie /\ GroupOf("addon") = Modifiers.addon
    /\ GroupOf("ice") = Modifiers.ice /\ GroupOf("burger") = Components.burger /\ GroupOf("snack") = Components.snack
    /\ GroupOf("drink") = Components.drink
BY DEF GroupOf, Modifiers, Components

LEMMA AliasesKnown ==
    /\ {<<"ice", "less">>, <<"spice", "mild">>, <<"addon", "cheese">>, <<"veggie", "no-tomato">>, <<"ice", "no">>,
        <<"ice", "regular">>, <<"spice", "hot">>, <<"veggie", "pickles">>} \subseteq SelectionAliases
    /\ Combo("spicy", <<"fries", "medium">>, "cola") \subseteq SelectionAliases
    /\ Combo("grilled", <<"popcorn", "small">>, "fruit") \subseteq SelectionAliases
<1>1. {<<"ice", "less">>, <<"spice", "mild">>, <<"addon", "cheese">>, <<"veggie", "no-tomato">>, <<"ice", "no">>,
        <<"ice", "regular">>, <<"spice", "hot">>, <<"veggie", "pickles">>} \subseteq SelectionAliases
  BY DEF SelectionAliases
<1>2. /\ <<"spicy", "single">> \in Components.burger.options /\ <<"grilled", "single">> \in Components.burger.options
      /\ <<"fries", "medium">> \in Components.snack.options /\ <<"popcorn", "small">> \in Components.snack.options
      /\ <<"cola", "medium">> \in Components.drink.options /\ <<"fruit", "medium">> \in Components.drink.options
  BY DEF Components
<1>3. /\ \A x \in Components.burger.options : <<"burger", x>> \in SelectionAliases
      /\ \A x \in Components.snack.options : <<"snack", x>> \in SelectionAliases
      /\ \A x \in Components.drink.options : <<"drink", x>> \in SelectionAliases
  BY DEF SelectionAliases
<1>4. QED
  BY <1>1, <1>2, <1>3 DEF Combo

LEMMA ItemsResolve ==
    \A i \in SeedItems :
       i.product \in DOMAIN SeedSkus /\ i.sku \in Elements(SeedSkus[i.product]) /\ i.chosen \subseteq SelectionAliases
BY SkusKnown, AliasesKnown DEF SeedItems, Item

LEMMA SeedResolves == Resolvable
<1>1. \A c \in DOMAIN Components : \A o \in Components[c].options : o[2] \in Elements(SeedSkus[o[1]])
  BY SkusKnown DEF Components
<1>2. QED
  BY <1>1, ItemsAreKnown, ItemsResolve DEF Resolvable

(* Of group g, item i chooses option x and no other. *)
Chooses(i, g, x) == <<g, x>> \in i.chosen /\ \A c \in i.chosen : c[1] = g => c = <<g, x>>

(* And as many as it may choose. *)
Fits(i, g) ==
    \/ GroupOf(g).min = 0 /\ GroupOf(g).max \in Nat /\ \A c \in i.chosen : c[1] # g
    \/ /\ GroupOf(g).min \in {0, 1} /\ GroupOf(g).max \in {1, 2, 3}
       /\ \E x \in GroupOf(g).options : Chooses(i, g, x)

LEMMA OneOrNone ==
    ASSUME NEW i, \A c \in i.chosen : c[1] \in SeedBindings[i.product], \A g \in SeedBindings[i.product] : Fits(i, g)
    PROVE  LegalItem(i)
<1>1. ASSUME NEW g \in SeedBindings[i.product]
      PROVE  LET chosen == {c[2] : c \in {x \in i.chosen : x[1] = g}}
             IN chosen \subseteq GroupOf(g).options /\ Cardinality(chosen) \in GroupOf(g).min .. GroupOf(g).max
  <2> DEFINE chosen == {c[2] : c \in {x \in i.chosen : x[1] = g}}
  <2>1. CASE GroupOf(g).min = 0 /\ GroupOf(g).max \in Nat /\ \A c \in i.chosen : c[1] # g
    <3>1. chosen = {}
      BY <2>1
    <3>2. Cardinality(chosen) = 0
      BY <3>1, FS_EmptySet
    <3>3. QED
      BY <2>1, <3>1, <3>2
  <2>2. ASSUME GroupOf(g).min \in {0, 1}, GroupOf(g).max \in {1, 2, 3},
               NEW x \in GroupOf(g).options, Chooses(i, g, x)
        PROVE  chosen \subseteq GroupOf(g).options /\ Cardinality(chosen) \in GroupOf(g).min .. GroupOf(g).max
    <3>1. {y \in i.chosen : y[1] = g} = {<<g, x>>}
      BY <2>2 DEF Chooses
    <3>2. chosen = {x}
      <4>1. \A c : c \in {y \in i.chosen : y[1] = g} <=> c = <<g, x>>
        BY <3>1
      <4>2. <<g, x>>[2] = x
        OBVIOUS
      <4>3. QED
        BY <4>1, <4>2
    <3>3. Cardinality(chosen) = 1
      BY <3>2, FS_Singleton
    <3>4. QED
      BY <2>2, <3>2, <3>3
  <2>3. QED
    BY <1>1, <2>1, <2>2 DEF Fits
<1>2. QED
  BY <1>1 DEF LegalItem

LEMMA BindingsKnown ==
    /\ SeedBindings["spicy"] = {"spice", "veggie", "addon"} /\ SeedBindings["grilled"] = {"veggie", "addon"}
    /\ SeedBindings["beef"] = {} /\ SeedBindings["fries"] = {} /\ SeedBindings["popcorn"] = {}
    /\ SeedBindings["cola"] = {"ice"} /\ SeedBindings["fruit"] = {"ice"} /\ SeedBindings["combo"] = {"burger", "snack", "drink"}
BY DEF SeedBindings

LEMMA Limits ==
    /\ \A g \in {"veggie", "addon"} : GroupOf(g).min = 0 /\ GroupOf(g).max \in {2, 3}
    /\ \A g \in {"spice", "ice", "burger", "snack", "drink"} : GroupOf(g).min = 1 /\ GroupOf(g).max = 1
    /\ {"mild", "hot"} \subseteq GroupOf("spice").options /\ {"no-tomato", "pickles"} \subseteq GroupOf("veggie").options
    /\ "cheese" \in GroupOf("addon").options /\ {"regular", "less", "no"} \subseteq GroupOf("ice").options
    /\ {<<"spicy", "single">>, <<"grilled", "single">>} \subseteq GroupOf("burger").options
    /\ {<<"fries", "medium">>, <<"popcorn", "small">>} \subseteq GroupOf("snack").options
    /\ {<<"cola", "medium">>, <<"fruit", "medium">>} \subseteq GroupOf("drink").options
BY GroupsKnown DEF Modifiers, Components

LEMMA PlainItems ==
    ASSUME NEW p \in {"beef", "fries", "popcorn"}, NEW s PROVE LegalItem(Item(p, s, {}))
BY OneOrNone, BindingsKnown DEF Item

LEMMA Drinks ==
    ASSUME NEW p \in {"cola", "fruit"}, NEW s, NEW x \in {"regular", "less", "no"}
    PROVE  LegalItem(Item(p, s, {<<"ice", x>>}))
<1> DEFINE i == Item(p, s, {<<"ice", x>>})
<1>1. i.product = p /\ i.chosen = {<<"ice", x>>}
  BY DEF Item
<1> HIDE DEF i
<1>2. SeedBindings[i.product] = {"ice"}
  BY <1>1, BindingsKnown
<1>3. Chooses(i, "ice", x) /\ x \in GroupOf("ice").options
  BY <1>1, Limits DEF Chooses
<1>4. \A g \in SeedBindings[i.product] : Fits(i, g)
  BY <1>1, <1>2, <1>3, Limits DEF Fits
<1>5. \A c \in i.chosen : c[1] \in SeedBindings[i.product]
  BY <1>1, <1>2
<1>6. LegalItem(i)
  BY <1>4, <1>5, OneOrNone
<1>7. QED
  BY <1>6 DEF i

LEMMA Burgers ==
    /\ LegalItem(Item("spicy", "double", {<<"spice", "mild">>, <<"addon", "cheese">>}))
    /\ LegalItem(Item("spicy", "single", {<<"spice", "hot">>, <<"veggie", "pickles">>}))
    /\ LegalItem(Item("grilled", "single", {<<"veggie", "no-tomato">>}))
<1>1. LegalItem(Item("spicy", "double", {<<"spice", "mild">>, <<"addon", "cheese">>}))
  <2> DEFINE i == Item("spicy", "double", {<<"spice", "mild">>, <<"addon", "cheese">>})
  <2>1. SeedBindings[i.product] = {"spice", "veggie", "addon"} /\ i.chosen = {<<"spice", "mild">>, <<"addon", "cheese">>}
    BY BindingsKnown DEF Item
  <2> HIDE DEF i
  <2>2. Chooses(i, "spice", "mild") /\ Chooses(i, "addon", "cheese") /\ \A c \in i.chosen : c[1] # "veggie"
    BY <2>1 DEF Chooses
  <2>3. \A c \in i.chosen : c[1] \in SeedBindings[i.product]
    BY <2>1
  <2>4. \A g \in SeedBindings[i.product] : Fits(i, g)
    BY <2>1, <2>2, Limits DEF Fits
  <2>5. LegalItem(i)
    BY <2>3, <2>4, OneOrNone
  <2>6. QED
    BY <2>5 DEF i
<1>2. LegalItem(Item("spicy", "single", {<<"spice", "hot">>, <<"veggie", "pickles">>}))
  <2> DEFINE i == Item("spicy", "single", {<<"spice", "hot">>, <<"veggie", "pickles">>})
  <2>1. SeedBindings[i.product] = {"spice", "veggie", "addon"} /\ i.chosen = {<<"spice", "hot">>, <<"veggie", "pickles">>}
    BY BindingsKnown DEF Item
  <2> HIDE DEF i
  <2>2. Chooses(i, "spice", "hot") /\ Chooses(i, "veggie", "pickles") /\ \A c \in i.chosen : c[1] # "addon"
    BY <2>1 DEF Chooses
  <2>3. \A c \in i.chosen : c[1] \in SeedBindings[i.product]
    BY <2>1
  <2>4. \A g \in SeedBindings[i.product] : Fits(i, g)
    BY <2>1, <2>2, Limits DEF Fits
  <2>5. LegalItem(i)
    BY <2>3, <2>4, OneOrNone
  <2>6. QED
    BY <2>5 DEF i
<1>3. LegalItem(Item("grilled", "single", {<<"veggie", "no-tomato">>}))
  <2> DEFINE i == Item("grilled", "single", {<<"veggie", "no-tomato">>})
  <2>1. SeedBindings[i.product] = {"veggie", "addon"} /\ i.chosen = {<<"veggie", "no-tomato">>}
    BY BindingsKnown DEF Item
  <2> HIDE DEF i
  <2>2. Chooses(i, "veggie", "no-tomato") /\ \A c \in i.chosen : c[1] # "addon"
    BY <2>1 DEF Chooses
  <2>3. \A c \in i.chosen : c[1] \in SeedBindings[i.product]
    BY <2>1
  <2>4. \A g \in SeedBindings[i.product] : Fits(i, g)
    BY <2>1, <2>2, Limits DEF Fits
  <2>5. LegalItem(i)
    BY <2>3, <2>4, OneOrNone
  <2>6. QED
    BY <2>5 DEF i
<1>4. QED
  BY <1>1, <1>2, <1>3

LEMMA Combos ==
    ASSUME NEW b \in {"spicy", "grilled"}, NEW n \in {<<"fries", "medium">>, <<"popcorn", "small">>}, NEW d \in {"cola", "fruit"}
    PROVE  LegalItem(Item("combo", "standard", Combo(b, n, d)))
<1> DEFINE i == Item("combo", "standard", Combo(b, n, d)) x == <<b, "single">> y == <<d, "medium">>
<1>1. x \in GroupOf("burger").options /\ n \in GroupOf("snack").options /\ y \in GroupOf("drink").options
  BY Limits
<1>2. SeedBindings[i.product] = {"burger", "snack", "drink"} /\ i.chosen = {<<"burger", x>>, <<"snack", n>>, <<"drink", y>>}
  BY BindingsKnown DEF Item, Combo
<1> HIDE DEF i, x, y
<1>3. Chooses(i, "burger", x) /\ Chooses(i, "snack", n) /\ Chooses(i, "drink", y)
  BY <1>2 DEF Chooses
<1>4. \A c \in i.chosen : c[1] \in SeedBindings[i.product]
  BY <1>2
<1>5. \A g \in SeedBindings[i.product] : Fits(i, g)
  BY <1>1, <1>2, <1>3, Limits DEF Fits
<1>6. LegalItem(i)
  BY <1>4, <1>5, OneOrNone
<1>7. QED
  BY <1>6 DEF i

LEMMA ItemsAreLegal == \A i \in SeedItems : LegalItem(i)
BY PlainItems, Drinks, Burgers, Combos DEF SeedItems

LEMMA SeedInvHolds == Spec => []SeedInv
<1>1. Init => SeedInv
  <2> SUFFICES ASSUME Init PROVE SeedInv
    OBVIOUS
  <2>1. SeedTypeOK
    BY InstallStarts DEF InstallInv
  <2>2. statement = 0 /\ outcome = "none"
    BY DEF Init, SeedInit
  <2>3. QED
    BY <2>1, <2>2 DEF SeedInv, SeedRefusedForAReason, SeedReplacesTheStore
<1>2. SeedInv /\ [Next]_vars => SeedInv'
  BY SeedResolves, SeedSteps, OnlyTheSeed DEF vars
<1>3. QED
  BY <1>1, <1>2, PTL DEF Spec

(* A seed is refused only for what arrived meanwhile or a taken store code, *)
(* nothing older survives it, and the orders it writes are orders the       *)
(* service could have brought about.                                        *)
THEOREM SeedsAreSound == Spec => []SeedIsSound
<1>1. SeedInv => SeedIsSound
  <2>1. \A o \in Elements(DemoOrders) : LegalHistory(o)
    BY DemoOrdersLegal DEF OrderIsLegal
  <2>2. \A i \in ItemsOf(DemoOrders) : LegalItem(i)
    BY ItemsAreKnown, ItemsAreLegal
  <2>3. QED
    BY <2>1, <2>2 DEF SeedInv, SeedIsSound, SeededOrdersAreLegal
<1>2. QED
  BY <1>1, SeedInvHolds, PTL
=============================================================================

----------------------------- MODULE Deployment -----------------------------
(***************************************************************************)
(* The stacks of bin/springboot-app.ts on AWS: several shells run cdk      *)
(* deploy --all and cdk destroy --all, stack by stack in the order that    *)
(* references and addDependency give, with failures, rollbacks and         *)
(* commands that are interrupted while CloudFormation goes on.             *)
(*                                                                         *)
(* The custom resource of SqlStack is the contract that DBMigrator         *)
(* implements: its steps here are those of MigrationContract, joined with  *)
(* what happens to the stack around it and to the database under it.       *)
(***************************************************************************)
EXTENDS Integers

CONSTANTS
    None,           \* stands for no revision and no stack
    Revisions,      \* commits of the repository
    Scripts,        \* [Revisions -> sets of versions], data-migration/sql
    Template,       \* [Stacks -> [Revisions -> templates]], what cdk synthesizes
    UserScript,     \* the version that creates the application's user
    Shells,         \* places cdk is run from
    MaxCommands,    \* bound: commands that are started
    MaxFailures     \* bound: failed operations and tasks that die

\* The template of SqlStack names the archive of its scripts by a hash of them.
ASSUME DeploymentAssumption ==
    /\ None \notin Revisions
    /\ \A r \in Revisions : UserScript \in Scripts[r]
    /\ \A q, r \in Revisions :
           Template["Sql"][q] = Template["Sql"][r] => Scripts[q] = Scripts[r]
    /\ MaxCommands \in Nat /\ MaxFailures \in Nat

VARIABLES
    stacks,     \* per stack: its status, what it is and what it is to become
    resource,   \* the custom resource, see MigrationContract
    schema,     \* the versions recorded in the database that exists
    requested,  \* the revisions whose scripts were asked for
    tasks,      \* the revisions that have a running task
    cdk,        \* per shell: the command it runs
    issued,     \* commands started so far
    failures,   \* failures left
    overlapped  \* history: has somebody deployed while somebody destroyed?

Migrator == INSTANCE MigrationContract WITH Assets <- Revisions

migrator == <<resource, schema, requested>>
vars == <<stacks, migrator, tasks, cdk, issued, failures, overlapped>>

-----------------------------------------------------------------------------
(***************************************************************************)
(* What the source declares.                                               *)
(***************************************************************************)

Stacks == {"Foundation", "Vpc", "EC2Tester", "Database", "Sql", "App", "AppService"}

\* Stacks whose resources a stack refers to.  The database, for its network
\* (the bucket it is handed is never assigned, so nothing of Foundation):
DatabaseImports == {"Vpc"}
TesterImports   == {"Vpc"}
\* Mutation: the migration gets the cluster by the names of parameters.
SqlImportsByName == {"Foundation", "Vpc"}
\* the migration, for a log group and the key, the cluster and its secrets:
SqlImports == {"Foundation", "Vpc", "Database"}
\* the application, for a log group, the cluster and the user's secret:
AppImports == {"Foundation", "Vpc", "Database"}
\* its entry to the service network, for the key and the load balancer:
AppServiceImports == {"Foundation", "Vpc", "App"}

Imports ==
    [Foundation |-> {}, Vpc |-> {}, EC2Tester |-> TesterImports,
     Database |-> DatabaseImports, Sql |-> SqlImports, App |-> AppImports,
     AppService |-> AppServiceImports]

Path(prefix, context, name) == <<prefix, context, name>>

ParamNames ==
    [APP_LOG_GROUP        |-> Path("env", "logs", "application/demoapp"),
     FLYWAY_LOG_GROUP     |-> Path("env", "logs", "application/flyway-custom-resource"),
     KMS_ARN              |-> Path("env", "kms", "demoapp/arn"),
     KMS_ID               |-> Path("env", "kms", "demoapp/id"),
     PG_SG_ID             |-> Path("env", "security-groups", "postgres/demoapp/id"),
     ENDPOINT_SG_ID       |-> Path("env", "security-groups", "postgres/vpc-endpoints/id"),
     PG_ADMIN_SECRET      |-> Path("secret", "demoapp", "dbadmin"),
     DEMO_APP_USER_SECRET |-> Path("secret", "demoapp", "appuser2"),
     JDBC_URL             |-> Path("config", "shared", "jdbc/url"),
     JDBC_PORT            |-> Path("config", "shared", "jdbc/port"),
     JDBC_HOSTNAME        |-> Path("config", "shared", "jdbc/hostname"),
     JDBC_READER_HOSTNAME |-> Path("config", "shared", "jdbc/reader-hostname")]

\* Parameters and secrets that a stack creates under a fixed name,
FoundationWrites == {"APP_LOG_GROUP", "FLYWAY_LOG_GROUP", "KMS_ARN", "KMS_ID"}
VpcWrites        == {"ENDPOINT_SG_ID"}
DatabaseSecrets  == {"PG_ADMIN_SECRET", "DEMO_APP_USER_SECRET"}
DatabaseWrites   == {"PG_SG_ID", "JDBC_HOSTNAME", "JDBC_READER_HOSTNAME", "JDBC_PORT", "JDBC_URL"}

Writes ==
    [s \in Stacks |-> CASE s = "Foundation" -> FoundationWrites
                        [] s = "Vpc"        -> VpcWrites
                        [] s = "Database"   -> DatabaseWrites \cup DatabaseSecrets
                        [] OTHER            -> {}]

\* and parameters whose value is resolved whenever the stack is deployed.
DatabaseReads == {"KMS_ARN"}
SqlReads      == {"ENDPOINT_SG_ID"}
AppReads      == {"KMS_ARN"}

Reads ==
    [s \in Stacks |-> CASE s = "Database" -> DatabaseReads
                        [] s = "Sql"      -> SqlReads
                        [] s = "App"      -> AppReads
                        [] OTHER          -> {}]

\* Mutation: appStack.addDependency(sqlStack) is missing.
ExplicitWithoutSql ==
    [s \in Stacks |-> CASE s = "Database" -> {"Foundation"}
                        [] s = "Sql"      -> {"Database"}
                        [] OTHER          -> {}]

\* Mutation: dbStack.addDependency(foundationStack) is missing.
ExplicitWithoutFoundation ==
    [s \in Stacks |-> CASE s = "Sql" -> {"Database"}
                        [] s = "App" -> {"Sql"}
                        [] OTHER     -> {}]

\* addDependency.
Explicit ==
    [s \in Stacks |-> CASE s = "Database" -> {"Foundation"}
                        [] s = "Sql"      -> {"Database"}
                        [] s = "App"      -> {"Sql"}
                        [] OTHER          -> {}]

\* What cdk orders the stacks by: a parameter that is read by its name gives
\* no order.
Order(s) == Imports[s] \cup Explicit[s]

\* What a stack really needs another one for.
Sources(s) == Imports[s] \cup {t \in Stacks : Reads[s] \cap Writes[t] # {}}

-----------------------------------------------------------------------------
(***************************************************************************)
(* The stacks.  A stack that exists is named by the command that created   *)
(* it ("born"): a key, a parameter's value or a cluster is the same one    *)
(* only while its stack is.                                                *)
(***************************************************************************)

Absent == [revision |-> None, born |-> 0, saw |-> [t \in Stacks |-> 0]]

Exists(s) == stacks[s].now.born # 0

\* The values a stack gets of its sources when it is deployed.
Seen(s) == [t \in Stacks |-> IF t \in Sources(s) THEN stacks[t].now.born ELSE 0]

Busy == {"creating", "updating", "deleting"}

Taken(s) == {ParamNames[p] : p \in Writes[s]}

\* A change set is refused when an export or a parameter it needs is missing,
\* or a name it wants is taken.
Available(s) ==
    /\ \A t \in Sources(s) : Exists(t) /\ stacks[t].status # "deleting"
    /\ \A t \in Stacks \ {s} : Exists(t) => Taken(s) \cap Taken(t) = {}

\* The deletion of a stack is refused while another one imports from it.
InUse(s) == \E t \in Stacks : s \in Imports[t] /\ stacks[t].status # "none"

Become(s, status, now, next) ==
    stacks' = [stacks EXCEPT ![s] = [status |-> status, now |-> now, next |-> next]]

Idle == [goal |-> "idle", revision |-> None, number |-> 0, left |-> {}, at |-> None]

Init ==
    /\ stacks = [s \in Stacks |-> [status |-> "none", now |-> Absent, next |-> Absent]]
    /\ Migrator!Init
    /\ tasks = {}
    /\ cdk = [c \in Shells |-> Idle]
    /\ issued = 0
    /\ failures = MaxFailures
    /\ overlapped = FALSE

-----------------------------------------------------------------------------
(***************************************************************************)
(* cdk.                                                                    *)
(***************************************************************************)

Start(c, goal, r) ==
    /\ cdk[c].goal = "idle"
    /\ issued < MaxCommands
    /\ overlapped' = (overlapped \/ \E d \in Shells : cdk[d].goal \notin {"idle", goal})
    /\ issued' = issued + 1
    /\ cdk' = [cdk EXCEPT ![c] = [goal |-> goal, revision |-> r, number |-> issued + 1,
                                  left |-> Stacks, at |-> None]]
    /\ UNCHANGED <<stacks, migrator, tasks, failures>>

\* The stacks a command may take up next: a deploy goes up the order, a
\* destroy down.
Ready(c) ==
    {s \in cdk[c].left :
        IF cdk[c].goal = "deploy" THEN Order(s) \cap cdk[c].left = {}
                                  ELSE \A t \in cdk[c].left : s \notin Order(t)}

Done(c, s) == cdk' = [cdk EXCEPT ![c].left = @ \ {s}, ![c].at = None]

Stop(c) == cdk' = [cdk EXCEPT ![c] = Idle]

\* No changes: the template and the values it gets are those it has.
Current(c, s) ==
    /\ stacks[s].status = "live"
    /\ Template[s][stacks[s].now.revision] = Template[s][cdk[c].revision]
    /\ stacks[s].now.saw = Seen(s)

Deployable(c, s) == stacks[s].status \in {"none", "live"} /\ Available(s)

DeployStack(c, s) ==
    /\ cdk[c].goal = "deploy" /\ cdk[c].at = None /\ s \in Ready(c)
    /\ \/ /\ Current(c, s)
          /\ Done(c, s)
          /\ UNCHANGED <<stacks, migrator>>
       \/ /\ ~Current(c, s)
          /\ Deployable(c, s)
          /\ cdk' = [cdk EXCEPT ![c].at = s]
          /\ Become(s, IF Exists(s) THEN "updating" ELSE "creating", stacks[s].now,
                    [revision |-> cdk[c].revision, saw |-> Seen(s),
                     born |-> IF Exists(s) THEN stacks[s].now.born ELSE cdk[c].number])
          /\ IF s = "Sql" THEN Migrator!Deploy(cdk[c].revision) ELSE UNCHANGED migrator
       \/ /\ ~Current(c, s)
          /\ ~Deployable(c, s)
          /\ Stop(c)
          /\ UNCHANGED <<stacks, migrator>>
    /\ UNCHANGED <<tasks, issued, failures, overlapped>>

\* A stack that somebody else deletes is waited for.
DestroyStack(c, s) ==
    /\ cdk[c].goal = "destroy" /\ cdk[c].at = None /\ s \in Ready(c)
    /\ stacks[s].status # "deleting"
    /\ \/ /\ stacks[s].status = "none"
          /\ Done(c, s)
          /\ UNCHANGED <<stacks, migrator>>
       \/ /\ stacks[s].status \in {"live", "stuck", "deleteFailed"} /\ ~InUse(s)
          /\ cdk' = [cdk EXCEPT ![c].at = s]
          /\ Become(s, "deleting", stacks[s].now, Absent)
          /\ IF s = "Sql" THEN Migrator!Destroy ELSE UNCHANGED migrator
       \/ /\ stacks[s].status # "none"
          /\ stacks[s].status \in Busy \/ InUse(s)
          /\ Stop(c)
          /\ UNCHANGED <<stacks, migrator>>
    /\ UNCHANGED <<tasks, issued, failures, overlapped>>

\* The operation a command waits for is over; a failure ends the command.
Collect(c) ==
    LET s == cdk[c].at IN
    /\ s # None
    /\ stacks[s].status \notin Busy
    /\ IF \/ cdk[c].goal = "destroy" /\ stacks[s].status = "none"
          \/ /\ cdk[c].goal = "deploy" /\ stacks[s].status = "live"
             /\ stacks[s].now.revision = cdk[c].revision
         THEN Done(c, s)
         ELSE Stop(c)
    /\ UNCHANGED <<stacks, migrator, tasks, issued, failures, overlapped>>

End(c) ==
    /\ cdk[c].goal # "idle" /\ cdk[c].left = {}
    /\ Stop(c)
    /\ UNCHANGED <<stacks, migrator, tasks, issued, failures, overlapped>>

\* Ctrl-C: CloudFormation goes on with what it was asked for.
Interrupt(c) ==
    /\ cdk[c].goal # "idle" /\ cdk[c].left # {}
    /\ Stop(c)
    /\ UNCHANGED <<stacks, migrator, tasks, issued, failures, overlapped>>

-----------------------------------------------------------------------------
(***************************************************************************)
(* CloudFormation and ECS.                                                 *)
(***************************************************************************)

\* A deployment of the service is complete when a task of it is healthy; the
\* tasks of the one before are then stopped.
Deployed(s) ==
    /\ s # "Sql"
    /\ stacks[s].status \in {"creating", "updating"}
    /\ s = "App" => stacks[s].next.revision \in tasks
    /\ Become(s, "live", stacks[s].next, Absent)
    /\ tasks' = IF s = "App" THEN {stacks[s].next.revision} ELSE tasks
    /\ UNCHANGED <<migrator, cdk, issued, failures, overlapped>>

\* The schema goes with its cluster.
Deleted(s) ==
    /\ s # "Sql"
    /\ stacks[s].status = "deleting"
    /\ Become(s, "none", Absent, Absent)
    /\ tasks' = IF s = "App" THEN {} ELSE tasks
    /\ schema' = IF s = "Database" THEN {} ELSE schema
    /\ UNCHANGED <<resource, requested, cdk, issued, failures, overlapped>>

\* A failed creation is rolled back to nothing (cdk deletes what is left of
\* it), a failed update to what was there.
Failed(s) ==
    /\ s # "Sql"
    /\ failures > 0
    /\ \/ stacks[s].status = "creating" /\ Become(s, "none", Absent, Absent)
       \/ stacks[s].status = "updating" /\ Become(s, "live", stacks[s].now, Absent)
       \/ stacks[s].status = "deleting" /\ Become(s, "deleteFailed", stacks[s].now, Absent)
    /\ failures' = failures - 1
    /\ tasks' = IF s = "App" THEN tasks \cap {stacks[s].now.revision} ELSE tasks
    /\ UNCHANGED <<migrator, cdk, issued, overlapped>>

\* SqlStack is what its custom resource is.
SqlStatus ==
    [none |-> "none", live |-> "live",
     creating |-> "creating", createFailed |-> "creating",
     updating |-> "updating", updateFailed |-> "updating", rollingBack |-> "updating",
     rollbackFailed |-> "stuck", deleting |-> "deleting", deleteFailed |-> "deleteFailed"]

SqlBecomes(now) ==
    LET status == SqlStatus[resource'.status] IN
    Become("Sql", status, now, IF status \in Busy THEN stacks["Sql"].next ELSE Absent)

Migrated ==
    /\ Migrator!Succeed
    /\ SqlBecomes(CASE resource.status \in {"creating", "updating"} -> stacks["Sql"].next
                    [] resource.status = "deleting" -> Absent
                    [] OTHER -> stacks["Sql"].now)
    /\ UNCHANGED <<tasks, cdk, issued, failures, overlapped>>

\* Mutation: a migration that fails is reported as if it had succeeded.
MigrationFailedUnnoticed ==
    /\ failures > 0
    /\ Migrator!Fail
    /\ Become("Sql", "live", stacks["Sql"].next, Absent)
    /\ failures' = failures - 1
    /\ UNCHANGED <<tasks, cdk, issued, overlapped>>

MigrationFailed ==
    /\ failures > 0
    /\ Migrator!Fail
    /\ SqlBecomes(stacks["Sql"].now)
    /\ failures' = failures - 1
    /\ UNCHANGED <<tasks, cdk, issued, overlapped>>

\* CloudFormation rolls back by itself, once.
RollBackSql ==
    /\ \/ resource.status = "updateFailed" /\ Migrator!RollBack
       \/ resource.status = "createFailed" /\ Migrator!Destroy
    /\ SqlBecomes(stacks["Sql"].now)
    /\ UNCHANGED <<tasks, cdk, issued, failures, overlapped>>

\* After a failed rollback the stack is stuck until somebody continues it.
ContinueRollBack ==
    /\ resource.status = "rollbackFailed"
    /\ Migrator!RollBack
    /\ SqlBecomes(stacks["Sql"].now)
    /\ UNCHANGED <<tasks, cdk, issued, failures, overlapped>>

RunScript(v) ==
    /\ Exists("Database")
    /\ Migrator!Migrate(v)
    /\ UNCHANGED <<stacks, tasks, cdk, issued, failures, overlapped>>

\* A task comes up if its user can log in.
StartTask(r) ==
    /\ stacks["App"].status \in {"creating", "updating", "live"}
    /\ r \in {stacks["App"].now.revision, stacks["App"].next.revision} \ tasks
    /\ Exists("Database") /\ UserScript \in schema
    /\ tasks' = tasks \cup {r}
    /\ UNCHANGED <<stacks, migrator, cdk, issued, failures, overlapped>>

StopTask(r) ==
    /\ failures > 0
    /\ r \in tasks
    /\ tasks' = tasks \ {r}
    /\ failures' = failures - 1
    /\ UNCHANGED <<stacks, migrator, cdk, issued, overlapped>>

-----------------------------------------------------------------------------
Command(c) ==
    \/ \E s \in Stacks : DeployStack(c, s) \/ DestroyStack(c, s)
    \/ Collect(c)
    \/ End(c)

User(c) ==
    \/ \E r \in Revisions : Start(c, "deploy", r)
    \/ Start(c, "destroy", None)
    \/ Interrupt(c)

Operation(s) == Deployed(s) \/ Deleted(s) \/ Failed(s)

Migration ==
    \/ Migrated
    \/ MigrationFailed
    \/ RollBackSql
    \/ \E r \in Revisions : \E v \in Scripts[r] : RunScript(v)

Next ==
    \/ \E c \in Shells : Command(c) \/ User(c)
    \/ \E s \in Stacks : Operation(s)
    \/ Migration
    \/ ContinueRollBack
    \/ \E r \in Revisions : StartTask(r) \/ StopTask(r)

Spec == Init /\ [][Next]_vars

\* cdk, CloudFormation, the migration and ECS go on; users are free.
Fairness ==
    /\ \A c \in Shells : WF_vars(Command(c))
    /\ \A s \in Stacks : WF_vars(Operation(s))
    /\ WF_vars(Migration)
    /\ \A r \in Revisions : WF_vars(StartTask(r))

FairSpec == Spec /\ Fairness
-----------------------------------------------------------------------------
(***************************************************************************)
(* Properties.                                                             *)
(***************************************************************************)

Versions == UNION {Scripts[r] : r \in Revisions}

Commands == 0..MaxCommands

DeployedType ==
    [revision : Revisions \cup {None}, born : Commands, saw : [Stacks -> Commands]]

StackType ==
    [status : Busy \cup {"none", "live", "stuck", "deleteFailed"},
     now : DeployedType, next : DeployedType]

CommandType ==
    [goal : {"idle", "deploy", "destroy"}, revision : Revisions \cup {None},
     number : Commands, left : SUBSET Stacks, at : Stacks \cup {None}]

ResourceType ==
    [status : DOMAIN SqlStatus, asset : Revisions \cup {None}, target : Revisions \cup {None}]

\* Every variable has its type, and SqlStack the status of its resource (the
\* type invariant).
TypeOK ==
    /\ stacks \in [Stacks -> StackType]
    /\ resource \in ResourceType
    /\ stacks["Sql"].status = SqlStatus[resource.status]
    /\ schema \subseteq Versions
    /\ requested \subseteq Revisions
    /\ tasks \subseteq Revisions
    /\ cdk \in [Shells -> CommandType]
    /\ issued \in Commands
    /\ failures \in 0..MaxFailures
    /\ overlapped \in BOOLEAN

\* No task ever runs before the scripts of its revision, through failed and
\* repeated deploys, rollbacks, revisions that overtake each other in two
\* shells, and databases that are deleted and made anew: what
\* appStack.addDependency(sqlStack) is for (springboot-app.ts:98), as long as
\* nobody has deployed beside a destroy.
ServiceHasItsSchema == ~overlapped => \A r \in tasks : Scripts[r] \subseteq schema

\* Nor, as long, is what a stack got of another one, by reference or by the
\* name of a parameter, other than what that stack has: no database is ever
\* left with a key that is gone or was made anew (springboot-app.ts:66,
\* database-stack.ts:36-40), no service with an old cluster.
NothingStale ==
    ~overlapped => \A s \in Stacks : Exists(s) =>
        \A t \in Sources(s) : stacks[s].now.saw[t] = stacks[t].now.born

\* And as long, the order cdk derives is enough: no stack is refused because
\* something it needs is missing or its names are taken, and none because it
\* is in use (springboot-app.ts:66-98).
OrderSuffices ==
    ~overlapped => \A c \in Shells : cdk[c].at = None =>
        \A s \in Ready(c) :
            /\ cdk[c].goal = "deploy" /\ stacks[s].status \in {"none", "live"} => Available(s)
            /\ cdk[c].goal = "destroy" => ~InUse(s)

\* Even beside a destroy, the database behind SqlStack holds the scripts of
\* the revision SqlStack has: the migration refers to the cluster, so that
\* no destroy takes the schema from under it (flyway-dbmigrator.ts:117-139).
SqlIsMigrated ==
    Exists("Sql") => Scripts[stacks["Sql"].now.revision] \subseteq schema

\* Every command comes to an end, whatever fails on its way and whoever else
\* works on the same stacks, unless some deployed while others destroyed.
EveryCommandEnds ==
    \A c \in Shells : cdk[c].goal # "idle" ~> cdk[c].goal = "idle" \/ overlapped
=============================================================================

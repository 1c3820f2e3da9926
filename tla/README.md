# A verification project for springcloud-aws-example

The repository deploys a Spring Boot service on AWS with CDK, and the same
service locally with docker compose. Its own logic is not in the service (two
read-only queries) but in how the database gets migrated: a Lambda custom
resource that runs Flyway while CloudFormation creates, updates, rolls back and
deletes stacks, and a flyway container that does the same beside the compose
services; and in the order in which seven stacks are deployed around that
migration. All of it must come out right whatever is retried, restarted,
overlapped or half done, and that is hardly testable. This project models those protocols
in TLA+, checks them with TLC and proves the main results with TLAPS.

## Inventory

| Component | State | Operations | Talks to |
|---|---|---|---|
| `Custom::DBMigrator` handler (`flyway-lambda/`) | `/tmp` of each execution environment; `flyway_schema_history` in Aurora | `create`, `update`, `delete`; inside: secret, download, unzip, configure, validate, migrate | CloudFormation (requests and answers), Lambda (starts, retries, kills), S3, Secrets Manager, Flyway/Aurora |
| `DBMigrationConstruct`, `SqlStack` (`lib/flyway-dbmigrator.ts`, `lib/sql-stack.ts`) | the resource in its stack | deploy, roll back, destroy | declares the function, its 10 minutes, the archive's URL |
| Flyway (library) | the history | `validate`, `migrate` | the two callers above and below |
| Local deployment (`docker-compose.yml`, `prepare_credentials.sh`, `flyway-migrate.sh`, `application-*.yml`, `data-migration/sql`) | credentials, `./.database`, one state per container | up, down, new credentials, starts, crashes, restarts | shared files, TCP, restart policies |
| `PrototypeStagingStack` (`lib/app-staging-stack.ts`) | constructs created during synthesis; later a bucket and repositories | `addFile`, `addDockerImage`, `_synthesizeTemplate`; deploys; lifecycle rules | every other stack asks it for locations; S3, ECR |
| Stack order and parameters (`bin/`, `lib/foundation`, `vpc`, `database`, `names`) | the deployed stacks, their SSM parameters and secrets | deploy, update, roll back, destroy, each in dependency order | each other, by reference and by name |
| ECS service, load balancer (`lib/application-stack`, `application-service-stack`) | the running tasks | deployed and destroyed in their place; tasks start and stop | the migrated database |
| EC2 tester | none of its own | deployed and destroyed in its place | the network |
| Car service (`springboot-app/`) | `demoapp.cars`, read only | `GET /cars`, `GET /cars/{id}`, `YearConverter` | Aurora or Postgres |
| `lambdas/codebuild-trigger` | none | one S3 event | wired to nothing |
| InSpec profile (`verification/`), Envoy | none | assertions; static configuration | |

What is hard, and where: overlapping and retried invocations between Flyway's
`validate` and `migrate`; files that survive in a warm environment; answers to
requests CloudFormation has given up; rollbacks of the resource without a
rollback of the schema; containers started in any order and Postgres crashing
under a migration; credentials newer than the database they open; constructs
created on demand in any order; assets that expire while something still
refers to them; and commands of several shells that fail, are interrupted or
overtake each other half-way through the stacks. `PROJECT.json` lists each at its line, under `hazards`.

What makes each component correct:

* handler: an answer `SUCCESS` means that every script of the request's archive
  is in the history; every request gets an answer; an update keeps the
  resource's id, and a repeated create does not change it; a delete always goes through and leaves
  the database alone.
* local deployment: the migration container only stops for good on a migrated
  database, the whole comes up from any order of starts and crashes, and what
  is on the volume survives.
* staging stack: synthesis never fails because of the order in which assets
  are asked for, and every location it hands out will exist; what a deployed
  stack may read again is never removed.
* stacks: no task of the service runs before the scripts of its revision; what
  a stack got of another one is what that one has; the order `cdk` derives is
  enough; every command ends.

## Modules

| Module | Models | Extends |
|---|---|---|
| `Flyway` | pure rules of the schema history: pending, ignored, future, missing, changed, valid, next script | |
| `FlywayProofs` | a theorem about these rules | `Flyway` |
| `DBMigrator` | CloudFormation, Lambda and the handler | `Flyway` |
| `DBMigratorProofs`, `DispatchProofs` | theorems about the states and the steps of `DBMigrator` | `DBMigrator` |
| `ValidityProofs` | what is live is valid, for any assets | `DispatchProofs`, `FlywayProofs` |
| `MigrationContract` | what the custom resource promises its stack | |
| `ContractProofs` | `DBMigrator` implements `MigrationContract` | `DBMigratorProofs` |
| `Deployment` | the stacks of `bin`, `cdk` and the service's tasks | instance of `MigrationContract` |
| `DeploymentProofs` | theorems about `Deployment` | `Deployment` |
| `Compose` | the local deployment | `Flyway` |
| `ComposeProofs` | theorems about `Compose` | `Compose` |
| `StagingStack` | synthesis and deployment of the staging stack, lifecycle rules | |
| `StagingStackProofs` | theorems about `StagingStack` | `StagingStack` |
| `MC*` | instances for TLC | |

### Flyway

A script set is a function from versions to checksums, the history a sequence
of rows. `Valid` is `validate` with the states that `ignoreMigrationPatterns`
excuses: the handler sets only `pending`, which *replaces* the default
`*:future`; `flyway-migrate.sh` does so for its `validate`, while its `migrate`
validates with the default. The library itself is external: the operators say
what the two callers rely on. Undone, repeatable, failed and out-of-order
migrations do not occur with these options (Postgres runs script and row in
one transaction, `mixed` included for scripts as they are here).

### DBMigrator

| Model | Code |
|---|---|
| `stack`, `events` | the resource as CloudFormation holds it, and the requests it sent |
| `queue`, `retriesLeft`, `duplicates`, `crashes` | Lambda's asynchronous invocations |
| `run[e]`, `tmp[e]` | the invocation in environment `e`: where `execute` is, its unzipped directory, its answer; and the file `/tmp/<key>` of each archive |
| `rows`, `table`, `populated` | the history table, its existence, and whether the schema held something before |
| `Deliver` | `handleRequest`'s dispatch, with `create` (a new id at every delivery, `NewId`), `update`, `delete` |
| `FetchSecret`, `CreateFile`, `Download`, `Unzip` | `execute` up to the second `try`; all their exceptions escape |
| `Configure`, `Validate`, `Migrate`, `ApplyNext` | the second `try`; `Caught` is its `catch` |
| `Respond`, `Escape` | the answer, or the exception that leaves the handler |

An action ends where another invocation, a crash or a failure can come in:
`validate` and `migrate` are separate steps because no lock spans them, one
pass of `migrate`'s loop is one step because it holds the table's lock.
`EscapeAnswers` says whether the framework turns an exception that leaves
`create` or `update` into a `FAILED` answer or lets the invocation fail, so
that Lambda retries it: the repository does not fix it, so both are checked.
`Faults` selects what may fail. An exception without a message makes the
`catch` block throw (`mute`).

### MigrationContract

The resource as a stack may rely on it: a status, the asset it holds, the one
asked for, the versions recorded in the schema and the assets that were ever
asked for. `Succeed` needs every script of the asset (none, for a delete);
`Fail` changes nothing else; `Migrate` adds the next script of an asset that
was asked for, whenever it likes, because an invocation that CloudFormation
gave up may still be at work. There is no Lambda, retry, file or answer in it.
`DBMigrator` implements it under the mapping at its end: `resource` is the
`stack` without request and id, `schema` the versions of `rows` (a baseline row
counts as version 1, which is what writing it claims), `requested` the assets
of `events`.

### Deployment

| Model | Code |
|---|---|
| `Imports`, `Reads`, `Writes`, `ParamNames` | what each stack is handed (`bin`), what it looks up and creates under a fixed name (`lib/*-stack.ts`, `lib/names.ts`) |
| `Explicit` | the `addDependency` calls of `bin` |
| `Order`, `Sources` | what `cdk` orders by, and what a stack really needs: a parameter read by its name is in the second only |
| `stacks[s]` | CloudFormation's status, what the stack is (`now`) and is to become (`next`): its revision, the command that created it (`born`) and the ones that created what it refers to (`saw`) |
| `resource`, `schema`, `requested` | the custom resource of `SqlStack`, as in the contract |
| `tasks` | the revisions that have a running task |
| `cdk[c]` | the command of a shell: its goal, the stacks left, the one it waits for |
| `overlapped` | nothing in the code: remembers whether some shell ever deployed while another one destroyed; no guard reads it |
| `Start`, `DeployStack`, `DestroyStack`, `Collect`, `End`, `Interrupt` | `cdk deploy --all`, `cdk destroy --all` and Ctrl-C |
| `Deployed`, `Deleted`, `Failed` | the end of an operation on any stack but `SqlStack` |
| `Migrated`, `MigrationFailed`, `RollBackSql`, `ContinueRollBack`, `RunScript` | the same for `SqlStack`: steps of the contract, joined with the stack's |
| `StartTask`, `StopTask` | ECS |

`Deployment` is the composition: it uses the contract, not `DBMigrator`, so what
it shows holds for the handler by the refinement. `cdk` and CloudFormation are
external and taken as they work: a stack is updated when its template
(`Template`) or a value it is given has changed, and skipped otherwise; a change set is refused
when something it needs is missing or a name it wants is taken; a deletion is
refused while somebody imports from the stack; a stack that is being worked on
is refused to a second deploy; a failed creation ends as nothing (`cdk` deletes
what is left before it tries again), a failed update as what was there. A revision stands for a checkout; two of them
may give a stack the same template, and if it is that of `SqlStack` then the
scripts are the same, because the archive is named by a hash of them
(`DeploymentAssumption`). Parts of a stack are not told apart, and the staging
stack is not among the seven: `StagingStack` models it by itself, and unlike
them it can be refused after a destroy. Of the names in `names.ts`, those for the VPC's id,
the image repositories, the artifacts bucket and the Flyway project are
created by no stack, and the artifacts bucket handed on in `bin` is never
assigned, so they give no order and are left out.

A task comes up only when its user can log in, for which the user's script must
be in the schema; whether the rest of the scripts is there is what
`ServiceHasItsSchema` asks. The schema goes with its cluster when
`DatabaseStack` is deleted.

### Compose

Credentials are numbered by the run of `prepare_credentials.sh` that wrote
them (passwords and certificates change together). A client can log in when
Postgres has loaded the certificate that the client's `ca.crt` belongs to and
the password is the one in the data directory, which keeps the first root
password for ever and the user's password from when V2 ran. The flyway
container walks through `flyway-migrate.sh`; under `bash -e` the first failing
command ends it and `restart: on-failure` starts it again. The application is
modelled up to its first connection. Envoy is left out.

### StagingStack

Synthesis: `children` are the construct ids taken in the stack and
`stagingRepos` the names remembered; `AddFile` and `AddDockerImage` are called
in any order and number. Deployment: the staging stack first, then the assets,
then the application's stacks, which may fail; `running` is what they refer to.
The staging stack itself fails when it has to create a bucket or repository
whose fixed name is taken (`blocked`). As `bin` configures it, with RETAIN, that
is what follows a destroy, or an asset that leaves the application and comes
back; the rollback leaves what it had made until then behind too.
Lifecycle rules then remove what is old. Assets are named by their hash, so an
image never loses its tag.

## Runs

| Run | Question | States |
|---|---|---|
| `overlap` | two environments, three requests, two archives, one duplicate, one crash, one retry, SQL failures, abandoned requests: safety, the inductive invariant, is a request ever forgotten, does the resource keep its id, and is every step one the contract allows? | 5.95 M |
| `careless` | archives that edit, skip or drop scripts, every fault that still leaves an answer, a crash and its retry: is what is live valid, are all requests answered, do deletes complete? | 443 k |
| `warm` (violation) | no fault: do create and then update succeed? | |
| `compose` | three ups, two sets of credentials, two crashes: safety, and does it come up unless credentials were renewed? | 2.8 k |
| `compose_again`, `compose_hybrid` (violations) | the README's instructions a second time; the hybrid mode | |
| `deploy` | two shells, two revisions, two commands, two failures, interrupts: is the schema there before the service, is anything stale, is the order enough; and what holds beside a destroy? | 885 k |
| `deploy_ends` | one shell, two revisions, three commands, two failures, interrupts: does every command end, and is a key that was made anew missed by a stack? | 452 k |
| `staging_retain` | as in `bin`: what is kept, and is every location there? | 896 k |
| `staging_autodelete` | the construct's default removal policy, with colliding and missing names and a template at its limit: does synthesis fail for another reason? | 134 k |
| `staging_versions`, `staging_rollback` (violations) | what the comments say of image versions | |

Bounds. Two environments are enough for every overlap, since only the
environment's own file and the shared history matter to an invocation. Three
requests give create, failed update, rollback; or create, delete, create. One
retry stands for Lambda's two: the second retry meets the same file as the
first. Two scripts (three for careless archives) are enough to have a history
that is behind, level with, and ahead of an archive. In `Compose` three scripts
are the repository's own. In `StagingStack` two images of one name and one of
another, a runtime and a deploy-time file, two deployments and two days let an
asset be dropped, expire and return. In `Deployment` two commands of two shells
give a deploy beside a deploy of another revision, and a deploy or a destroy
that stopped half-way followed by either; two failures give a migration whose
rollback fails too. `deploy_ends` has three commands instead of the second
shell: an update after a deployment, a stack that is stuck and then destroyed,
and a deploy after a destroy that stopped half-way, which makes the key anew
(`NothingStale`); a command still finds stacks at work that it did not start
itself, those of a command that was interrupted. Liveness with two shells and
two revisions is beyond TLC here. Between the two revisions only the archive
and the application's image differ. In `overlap` the faults are those that
matter to a safety property when invocations overlap, failures of Flyway and
requests given up; the others end an invocation as a crash does, and are in
`careless`. Symmetry (over environments, over shells) is used where
only safety is checked.

`CHECK_DEADLOCK FALSE` is set for `Compose`, `StagingStack` and `Deployment`:
the user may stop, and at the bounds nothing is left to do. `DBMigrator` never stops:
an idle environment can always be retired.

Fairness. `DBMigrator`: Lambda starts every queued invocation, and a started
one takes its next step (each environment runs it to its end, or it is killed
after 10 minutes). Nobody is obliged to deploy, roll back or destroy, and
CloudFormation's own timeout is not assumed. In the `careless` run no event is
duplicated, and one invocation may crash at any step; its event is retried once,
perhaps in the environment it left a file in. Crashes that use up the retries
are left out: such a request is never answered, and then only CloudFormation's
hour ends the wait. For the same
reason that run sets `EscapeAnswers`: where the framework lets the exception
out of the function, a failed download is retried, can fail again (in the same
environment, on the file it left) until no retry remains, and the request then
stays open until CloudFormation gives up. `Compose`: the
Docker daemon starts what is wanted and restarts what its policy says, and
processes run. The user is free. `Deployment`: a running `cdk` process goes on,
CloudFormation ends what it began, a migration ends (the liveness of
`careless`, or CloudFormation's hour), and ECS tries to start what a deployment
wants. Nobody is bound to begin a command, nor to continue a rollback that
failed. A service whose tasks cannot start would keep its command waiting for
ever, so `EveryCommandEnds` rests on the order of the stacks too. It is claimed
up to the first deploy beside a destroy: after one, a service may wait for a
user who went with the database.

## Disagreements the runs show

* `warm`: `Files.createFile` (`DBMigratorHandler.java:189`) throws when an
  earlier invocation of the environment downloaded the same archive. A second
  update with the same archive, the rollback of a failed update, or Lambda's
  own retry is then answered `FAILED`, though nothing is wrong.
* `compose_again`: a second run of `prepare_credentials.sh` writes passwords
  that the database on the volume does not know.
* `compose_hybrid`: the profile `local` names a database and a user that
  nothing creates when only Postgres is started.
* `staging_versions`, `staging_rollback`: the count rule never selects a tagged
  image, and the age rule selects the running one too.

Two more are visible without a run. README.md:19 says that a CodeBuild job,
started by a Lambda trigger, populates the database; job and trigger are wired
to no stack, and the custom resource does it. The InSpec profile
(`verification/controls`) expects `SpringBootDemoFoundationStack`, the
repository `apps/demoapp` and the secrets `/secret/mysql/admin` and
`/secret/demoapp/appuser`; the code creates `FoundationStack`, no such
repository, `/secret/demoapp/dbadmin` and `/secret/demoapp/appuser2`.

## Proofs

`DBMigratorProofs` proves, for every value of the constants that
`DBMigratorAssumption` and `FlywayAssumption` allow:

* `TypeCorrect`: `TypeOK` and `StackOK` (the open request is the one last
  issued, of the type its status says);
* `IInvCorrect` and `LiveMeansMigratedAlways`, under `GrowingAssets`: each
  archive holds the scripts 1..n for some n.

The argument. `LiveMeansMigrated` is not inductive: an answer arrives steps
after the last script, so `AnswersAreTrue` carries "a `SUCCESS` that is under
way is already true", which needs that a directory holds all the scripts of
its archive (`WorksOnItsAsset`) and that a migration that finds nothing pending
has them all recorded. The latter is where growing archives come in: with
`HistoryDense` (row i is version i) nothing pending means the history is at
least as long as the archive. A baseline row keeps it dense because it stands
for version 1 and is only written into an empty table (`TableOK`). `StackOK`
ties the answer to the right archive, and rows are never removed, so what is
true stays true. `BaseInv` is the part that needs no assumption on archives.

With careless archives and overlapping invocations `LiveMeansMigrated` is not
claimed: an archive may lack a version that another one, migrated between this
one's `validate` and `migrate`, has. Without overlap the stronger `LiveIsValid`
holds; `careless` checks it and `ValidityProofs` proves it.

`ComposeProofs` proves, for any script directory (not only growing ones) and
any number of starts, crashes and new credentials:

* `ExitMeansMigratedAlways`, from an inductive invariant whose core is `NoneSkipped`: each script is recorded or
  pending. Only one container migrates, and always the oldest pending script,
  so none is passed over; when nothing is pending all are recorded, and
  `DoneMeansMigrated` carries that to the exit.
* `DataOutlivesContainersAlways`, an action property, from the same invariant:
  the user's password is only written with a script that was not yet recorded,
  hence when there was no user (`UserComesWithItsScript`; that script and row
  are one transaction is Postgres's and Flyway's doing and taken as given).
  `CredentialsRead` says that the password V2 uses is one that was written.

`DispatchProofs` proves what a step of `DBMigrator` may never do, for any
archives:

* `HistoryGrowsAlways` and `NoReplacementAlways`. To `BaseInv` it adds
  `Dispatched` (an invocation of a delete only ever answers; what answers an
  update with success carries the id of the request) and `IdSent` (the open
  request carries the id that the stack holds).
* `NoRequestForgottenAlways`, if each answer arrives (`"lost" \notin Faults`):
  an open request is queued, under way, or has no retry left. The invariant is
  inductive with `TypeOK` and `StackOK`, because an invocation leaves its
  environment in three ways only: it answers, it goes back to the queue, or it
  has used its last retry. Here CloudFormation may give up.

`FlywayProofs` proves of the rules themselves, for any script set and any
history, that running the next pending script keeps the history valid but for
what is still pending (`MigrateKeepsValid`).

`ValidityProofs` uses that for `LiveIsValid`, with nothing asked of the archives:
they may edit, skip or drop scripts. `HandlerWorksAlone`: up to the first event
that Lambda repeats, and if CloudFormation waits for its answers, at most one
event or invocation is there and it is for the open request; crashes, retries,
function errors and lost answers do not change that, since each of them ends an
invocation before its event is queued again. `ValidWork` then carries what
`validate` found: nobody else writes between it and `migrate`, `migrate` starts
with a `validate` of its own, each of its passes keeps the history valid, and
when nothing is pending any more it is valid without an excuse. That is
`LiveIsValidUntilRepeats`; `LiveIsValidAlways` is the case `MaxDuplicates = 0`.
Both assumptions are needed: Lambda delivers at least once, and a repeated event
or an abandoned request puts a second invocation between `validate` and
`migrate`. What holds through those is `LiveMeansMigrated`, for archives that
grow.

`ContractProofs` proves `ContractImplemented`, under `GrowingAssets`: the
initial state maps to the contract's, and with `IInv` every step maps to one of
the contract's or to none. Only an answer to the open request is visible, and
its success is true by `AnswersAreTrue`; a script that runs is one of an asset
that was asked for and, the history being dense, its next one. `ContractSuffices`
is the other half, for any archives: whatever keeps the contract also has
`LiveMeansMigrated`, so that `Deployment` may rely on the contract alone.

`DeploymentProofs` proves, for any revisions, shells, commands and failures, and
with no assumption but those on the constants:

* `TypeCorrect` and `SqlIsMigratedAlways`, whoever deploys and destroys at once;
* `ServiceHasItsSchemaAlways`, `NothingStaleAlways` and `OrderSufficesAlways`, as
  long as nobody has deployed while somebody else destroyed (`~overlapped`, a
  part of the three properties). Beyond that the first is false: a deploy that
  has passed `SqlStack` starts the service while another shell deletes the
  database and deploys it anew. The order of the stacks binds one process.

The argument has two layers over `Base`, which gives the shape of a stack in each
of its states and ties `SqlStack` to its resource. Both speak of what a stack
needs: `Needed(R)` says that it is there and stays as long as the stack is, and
`Fresh(R)` that what a stack saw of it, or is about to, is what there is.

The first layer, `ReferencesInv`, has `R` the references between stacks, and holds
always: CloudFormation itself refuses a stack whose references are not there
(`Available`) and a deletion of what is referred to (`InUse`). `SqlIsMigrated` comes
with it: scripts are only lost with the database, and `SqlStack` refers to that.
Were the cluster handed to it by name, `SqlIsMigrated` would fail.

The second layer, `OrderedInv`, has `R` everything a stack needs, the parameters
it reads by name included, which CloudFormation does not guard. There the order
of the commands has to do it: those under way have the same goal (`Alone`); a
deploy takes up a stack after those it comes after (`Ordered`); the stacks a
deploy has passed are there, and those a destroy has passed are not (`Progress`,
which needs `Alone`). `SchemaInv`
says that the scripts are in the schema for every deploy that has passed
`SqlStack`, and for every revision that the application's stack has or gets; it
is the first that carries the order of the stacks over to the second.

`StagingStackProofs` proves for any assets, names, limits and histories:
`TypeCorrect`; `ThrowsOnlyForItsInputAlways`, from `MemosAreTrue` (the role and
the key come with the bucket; the repositories there are, are those of the names
remembered); `LocationsExistAlways`, from its converse `MemosHaveConstructs` (each
name remembered has its repository, and what was asked for its place), under
either removal policy; and `RuntimeFilesKeptAlways` with RETAIN, since then only
lifecycle rules remove anything.

Only model-checked: liveness (`EveryRequestSettles`, `DeleteCompletes`,
`RecoversUnlessRenewed`, `EveryCommandEnds`), since fairness and ENABLED are out
of the prover's reach. Every invariant and every action property that a passing run
checks is proved, under the assumptions given here. No recursive operators are
used.

## Not modelled

* The resources inside a stack (listeners, target groups, health-check timing,
  subnets, security groups, IAM, key policies) and the bundling of the function:
  declarations without behaviour of their own.
* The snapshot that a deleted cluster leaves and the seven days after which its
  key goes: no code of the repository restores one.
* The content of scripts, secrets and answers; a rotation of secrets, which is
  commented out in the source.
* The Car service: two read-only queries, no state. `YearConverter` narrows to
  16 bits, but nothing writes a year through it.
* `codebuild-trigger`, which no stack deploys; the InSpec profile and Envoy,
  which have no behaviour to model.

## What could follow

`LiveIsValid` through repeated events would need a condition on archives
between "any" and "growing"; a restore from the final snapshot, once there is
code for it, belongs into `Deployment`.

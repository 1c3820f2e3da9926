----------------------------- MODULE DBMigrator -----------------------------
(***************************************************************************)
(* The custom resource Custom::DBMigrator: CloudFormation sends Create,    *)
(* Update and Delete requests, Lambda runs DBMigratorHandler for them in   *)
(* execution environments that are reused, and the handler copies the SQL  *)
(* asset to /tmp, unzips it and lets Flyway migrate the Aurora cluster.    *)
(*                                                                         *)
(* One action per step of the handler between two places where another     *)
(* invocation, a crash or a failure can come in.  CloudFormation and       *)
(* Lambda are external: they are modelled from how the construct           *)
(* lib/flyway-dbmigrator.ts and the handler use them.                      *)
(***************************************************************************)
EXTENDS Flyway

CONSTANTS
    Envs,           \* Lambda execution environments
    None,           \* stands for no asset
    Assets,         \* S3 assets (the object key is a hash of the content)
    Content,        \* [Assets -> ScriptSets], what each archive holds
    MaxRequests,    \* bound: requests CloudFormation sends
    Retries,        \* retries of an asynchronous invocation (Lambda: 2)
    MaxDuplicates,  \* bound: duplicate deliveries
    MaxCrashes,     \* bound: invocations killed or timed out (10 minutes)
    EscapeAnswers,  \* does the framework answer FAILED for an exception
                    \* that leaves create or update, or does the
                    \* invocation end in a function error?
    Faults,         \* what may fail, see AllFaults
    PopulatedSchemas \* may the schema hold tables before the first migration?

AllFaults == {"secret", "s3", "unzip", "config", "sql", "mute", "lost", "cfnTimeout"}

ASSUME DBMigratorAssumption ==
    /\ None \notin Assets
    /\ Content \in [Assets -> ScriptSets]
    /\ \A a \in Assets : DOMAIN Content[a] # {}
    /\ MaxRequests \in Nat /\ Retries \in Nat
    /\ MaxDuplicates \in Nat /\ MaxCrashes \in Nat
    /\ EscapeAnswers \in BOOLEAN
    /\ Faults \subseteq AllFaults
    /\ PopulatedSchemas \subseteq BOOLEAN

VARIABLES
    stack,      \* the resource as CloudFormation sees it
    events,     \* every request sent so far; its index names the request
    queue,      \* requests whose invocation Lambda has still to start
    retriesLeft,\* per request
    run,        \* per environment: the invocation it is executing
    tmp,        \* per environment and asset: the file /tmp/<key>
    rows,       \* flyway_schema_history of schema demoapp
    table,      \* does that table exist?
    populated,  \* does the schema hold tables that Flyway did not create?
    duplicates, \* duplicate deliveries left
    crashes     \* crashes left

cfnVars    == <<stack, events>>
lambdaVars == <<queue, retriesLeft, duplicates, crashes>>
dbVars     == <<rows, table, populated>>
vars == <<cfnVars, lambdaVars, run, tmp, dbVars>>

-----------------------------------------------------------------------------
Requests == 1..MaxRequests

NoFiles == [v \in {} |-> NoChecksum]

\* Physical ids: "DBMigrator-" and a random UUID, here what tells the
\* deliveries of a request apart, which is what Lambda has left for it.
Ids == (0..MaxRequests) \X (0..Retries) \X (0..MaxDuplicates)

NoId == <<0, 0, 0>>

NewId(r) == <<r, retriesLeft[r], duplicates>>

Idle == [pc |-> "idle", req |-> 0, dir |-> NoFiles, status |-> "NONE", pid |-> NoId]

Open == {"creating", "updating", "rollingBack", "deleting"}

\* CloudFormation holds the resource of an earlier success in these states.
Held == {"live", "updating", "updateFailed", "rollingBack", "rollbackFailed"}

Statuses == Open \cup Held \cup {"none", "createFailed", "deleteFailed"}

Steps == {"secret", "create", "download", "unzip", "config", "validate",
          "migrate", "apply", "respond", "escape"}

Init ==
    /\ stack = [status |-> "none", req |-> 0, asset |-> None, target |-> None, pid |-> NoId]
    /\ events = <<>>
    /\ queue = {}
    /\ retriesLeft = [r \in Requests |-> Retries]
    /\ run = [e \in Envs |-> Idle]
    /\ tmp = [e \in Envs |-> [a \in Assets |-> "absent"]]
    /\ rows = <<>>
    /\ table = FALSE
    /\ populated \in PopulatedSchemas
    /\ duplicates = MaxDuplicates
    /\ crashes = MaxCrashes

-----------------------------------------------------------------------------
(***************************************************************************)
(* CloudFormation.                                                         *)
(***************************************************************************)

Issue(status, type, a) ==
    /\ Len(events) < MaxRequests
    /\ events' = Append(events, [type |-> type, asset |-> a, pid |-> stack.pid])
    /\ queue' = queue \cup {Len(events) + 1}
    /\ stack' = [status |-> status, req |-> Len(events) + 1, asset |-> stack.asset,
                 target |-> a, pid |-> stack.pid]
    /\ UNCHANGED <<retriesLeft, duplicates, crashes, run, tmp, dbVars>>

\* cdk deploy: the first one creates the resource, a later one updates it;
\* the asset is the same when only the placeholders were edited.
Deploy(a) ==
    \/ stack.status = "none" /\ Issue("creating", "Create", a)
    \/ stack.status = "live" /\ Issue("updating", "Update", a)

\* A failed Update is rolled back by another Update, to the properties held.
RollBack ==
    /\ stack.status \in {"updateFailed", "rollbackFailed"}
    /\ Issue("rollingBack", "Update", stack.asset)

\* cdk destroy, and the rollback of a failed Create.
Destroy ==
    /\ stack.status \in {"live", "createFailed", "rollbackFailed", "deleteFailed"}
    /\ Issue("deleting", "Delete", stack.target)

\* The state an open request leaves, by the status of its answer.
After ==
    [creating    |-> [SUCCESS |-> "live", FAILED |-> "createFailed"],
     updating    |-> [SUCCESS |-> "live", FAILED |-> "updateFailed"],
     rollingBack |-> [SUCCESS |-> "live", FAILED |-> "rollbackFailed"],
     deleting    |-> [SUCCESS |-> "none", FAILED |-> "deleteFailed"]]

\* The resource, once the open request is answered: only a success changes
\* what is held, and a failed Create still leaves an id to delete.
Close(status, pid) ==
    LET success == status = "SUCCESS" IN
    [status |-> After[stack.status][status],
     req    |-> 0,
     asset  |-> IF ~success THEN stack.asset
                ELSE IF stack.status = "deleting" THEN None ELSE stack.target,
     target |-> stack.target,
     pid    |-> IF success \/ stack.status = "creating" THEN pid ELSE stack.pid]

\* No answer came within the hour CloudFormation waits; the invocations of
\* the request may still be under way, or not even started.
GiveUp ==
    /\ "cfnTimeout" \in Faults
    /\ stack.status \in Open
    /\ stack' = Close("FAILED", stack.pid)
    /\ UNCHANGED <<events, lambdaVars, run, tmp, dbVars>>

-----------------------------------------------------------------------------
(***************************************************************************)
(* Lambda.                                                                 *)
(***************************************************************************)

\* Mutation: update mints an id of its own, as create does.
DeliverMintingIds(r, e) ==
    /\ r \in queue
    /\ run[e].pc = "idle"
    /\ queue' = queue \ {r}
    /\ run' = [run EXCEPT ![e] =
                [pc     |-> IF events[r].type = "Delete" THEN "respond" ELSE "secret",
                 req    |-> r,
                 dir    |-> NoFiles,
                 status |-> IF events[r].type = "Delete" THEN "SUCCESS" ELSE "NONE",
                 pid    |-> NewId(r)]]
    /\ UNCHANGED <<cfnVars, retriesLeft, duplicates, crashes, tmp, dbVars>>

\* Mutation: delete goes through execute, like create and update.
DeliverExecutingDelete(r, e) ==
    /\ r \in queue
    /\ run[e].pc = "idle"
    /\ queue' = queue \ {r}
    /\ run' = [run EXCEPT ![e] =
                [pc |-> "secret", req |-> r, dir |-> NoFiles, status |-> "NONE",
                 pid |-> IF events[r].type = "Create" THEN NewId(r) ELSE events[r].pid]]
    /\ UNCHANGED <<cfnVars, retriesLeft, duplicates, crashes, tmp, dbVars>>

\* handleRequest dispatches on the request's type.  create mints an id at every
\* delivery, update and delete keep the one in the event, and delete does nothing more.
Deliver(r, e) ==
    /\ r \in queue
    /\ run[e].pc = "idle"
    /\ queue' = queue \ {r}
    /\ run' = [run EXCEPT ![e] =
                [pc     |-> IF events[r].type = "Delete" THEN "respond" ELSE "secret",
                 req    |-> r,
                 dir    |-> NoFiles,
                 status |-> IF events[r].type = "Delete" THEN "SUCCESS" ELSE "NONE",
                 pid    |-> IF events[r].type = "Create" THEN NewId(r) ELSE events[r].pid]]
    /\ UNCHANGED <<cfnVars, retriesLeft, duplicates, crashes, tmp, dbVars>>

\* Asynchronous events are delivered at least once.
Duplicate(r) ==
    /\ duplicates > 0
    /\ r \in 1..Len(events) \ queue
    /\ queue' = queue \cup {r}
    /\ duplicates' = duplicates - 1
    /\ UNCHANGED <<cfnVars, retriesLeft, crashes, run, tmp, dbVars>>

\* The invocation ends in a function error: Lambda retries the event, and
\* keeps the environment with what is in its /tmp.
FunctionError(e) ==
    LET r == run[e].req IN
    /\ run' = [run EXCEPT ![e] = Idle]
    /\ IF retriesLeft[r] > 0
         THEN /\ queue' = queue \cup {r}
              /\ retriesLeft' = [retriesLeft EXCEPT ![r] = @ - 1]
         ELSE UNCHANGED <<queue, retriesLeft>>

Crash(e) ==
    /\ crashes > 0
    /\ run[e].pc # "idle"
    /\ crashes' = crashes - 1
    /\ FunctionError(e)
    /\ UNCHANGED <<cfnVars, duplicates, tmp, dbVars>>

\* An idle environment is retired; the one started in its place is empty.
Recycle(e) ==
    /\ run[e].pc = "idle"
    /\ tmp' = [tmp EXCEPT ![e] = [a \in Assets |-> "absent"]]
    /\ UNCHANGED <<cfnVars, lambdaVars, run, dbVars>>

-----------------------------------------------------------------------------
(***************************************************************************)
(* DBMigratorHandler.                                                      *)
(***************************************************************************)

Asset(e) == events[run[e].req].asset

At(e, pc) == run[e].pc = pc

Goto(e, pc) == run' = [run EXCEPT ![e].pc = pc]

\* The file of the asset in this environment's /tmp.
WriteFile(e, content) ==
    tmp' = [tmp EXCEPT ![e] = [tmp[e] EXCEPT ![Asset(e)] = content]]

\* Mutation: the catch block builds its answer with the status of the try block.
CaughtAsSuccess(e) == run' = [run EXCEPT ![e].pc = "respond", ![e].status = "SUCCESS"]

\* Mutation: the catch block logs and returns.
CaughtInSilence(e) == run' = [run EXCEPT ![e] = Idle]

\* Mutation: the catch block builds its answer without a status.
CaughtWithoutStatus(e) == Goto(e, "respond")

\* The handler's own answer: caught exceptions are answered FAILED, unless
\* the exception has no message, which Map.of rejects in the catch block.
Answer(e, status) == run' = [run EXCEPT ![e].pc = "respond", ![e].status = status]

Caught(e) ==
    \/ Answer(e, "FAILED")
    \/ "mute" \in Faults /\ Goto(e, "escape")

\* The event's properties and the master secret are read outside any try.
FetchSecret(e) ==
    /\ At(e, "secret")
    /\ \/ Goto(e, "create")
       \/ "secret" \in Faults /\ Goto(e, "escape")
    /\ UNCHANGED <<cfnVars, lambdaVars, tmp, dbVars>>

\* Files.createFile throws when the file exists, and nothing ever removes it.
CreateFile(e) ==
    /\ At(e, "create")
    /\ IF tmp[e][Asset(e)] = "absent"
         THEN /\ WriteFile(e, "partial")
              /\ Goto(e, "download")
         ELSE /\ Goto(e, "escape")
              /\ UNCHANGED tmp
    /\ UNCHANGED <<cfnVars, lambdaVars, dbVars>>

\* Mutation: a failed download is logged and nothing is answered.
DownloadGivingUp(e) ==
    /\ At(e, "download")
    /\ \/ /\ WriteFile(e, "full")
          /\ Goto(e, "unzip")
       \/ /\ "s3" \in Faults
          /\ run' = [run EXCEPT ![e] = Idle]
          /\ UNCHANGED tmp
    /\ UNCHANGED <<cfnVars, lambdaVars, dbVars>>

\* A failed read of the object leaves the file behind.
Download(e) ==
    /\ At(e, "download")
    /\ \/ /\ WriteFile(e, "full")
          /\ Goto(e, "unzip")
       \/ /\ "s3" \in Faults
          /\ Goto(e, "escape")
          /\ UNCHANGED tmp
    /\ UNCHANGED <<cfnVars, lambdaVars, dbVars>>

\* Into a directory of its own; an entry that fails makes the whole fail.
Unzip(e) ==
    /\ At(e, "unzip")
    /\ \/ /\ tmp[e][Asset(e)] = "full"
          /\ run' = [run EXCEPT ![e].pc = "config", ![e].dir = Content[Asset(e)]]
       \/ "unzip" \in Faults /\ Goto(e, "escape")
    /\ UNCHANGED <<cfnVars, lambdaVars, tmp, dbVars>>

\* buildConfig, which also reads the secrets of the placeholders.
Configure(e) ==
    /\ At(e, "config")
    /\ \/ Goto(e, "validate")
       \/ "config" \in Faults /\ Caught(e)
    /\ UNCHANGED <<cfnVars, lambdaVars, tmp, dbVars>>

\* Mutation: Flyway's default is kept beside the pattern that is set.
IgnoreFuture == {"pending", "future"}

\* ignoreMigrationPatterns replaces Flyway's default, "*:future".
IgnorePatterns == {"pending"}

\* info and validate: they read the history without locking it.
Validate(e) ==
    /\ At(e, "validate")
    /\ \/ Valid(rows, run[e].dir, IgnorePatterns) /\ Goto(e, "migrate")
       \/ ~Valid(rows, run[e].dir, IgnorePatterns) /\ Caught(e)
       \/ "sql" \in Faults /\ Caught(e)
    /\ UNCHANGED <<cfnVars, lambdaVars, tmp, dbVars>>

\* Mutation: the baseline is written whether the table exists or not.
MigrateRebaselining(e) ==
    /\ At(e, "migrate")
    /\ Valid(rows, run[e].dir, IgnorePatterns)
    /\ Goto(e, "apply")
    /\ table' = TRUE
    /\ rows' = IF populated THEN Append(rows, BaselineRow) ELSE rows
    /\ UNCHANGED <<cfnVars, lambdaVars, tmp, populated>>

\* Mutation: cleanOnValidationError(true).
MigrateCleaning(e) ==
    /\ At(e, "migrate")
    /\ Goto(e, "apply")
    /\ table' = TRUE
    /\ rows' = IF Valid(rows, run[e].dir, IgnorePatterns) THEN rows ELSE <<>>
    /\ UNCHANGED <<cfnVars, lambdaVars, tmp, populated>>

\* migrate begins: it validates once more, then makes the history table,
\* with a baseline row in it if the schema already holds something.
Migrate(e) ==
    /\ At(e, "migrate")
    /\ \/ /\ Valid(rows, run[e].dir, IgnorePatterns)
          /\ Goto(e, "apply")
          /\ table' = TRUE
          /\ rows' = IF ~table /\ populated THEN <<BaselineRow>> ELSE rows
       \/ /\ \/ ~Valid(rows, run[e].dir, IgnorePatterns)
             \/ "sql" \in Faults
          /\ Caught(e)
          /\ UNCHANGED <<rows, table>>
    /\ UNCHANGED <<cfnVars, lambdaVars, tmp, populated>>

\* One pass of migrate's loop: under the lock of the history table, look for
\* the next pending script, run it and add its row, in one transaction.
ApplyNext(e) ==
    /\ At(e, "apply")
    /\ \/ \E v \in Pending(rows, run[e].dir) :
            /\ NextScript(rows, run[e].dir, v)
            /\ rows' = Append(rows, SqlRow(v, run[e].dir[v]))
            /\ UNCHANGED run
       \/ /\ Pending(rows, run[e].dir) = {}
          /\ Answer(e, "SUCCESS")
          /\ UNCHANGED rows
       \/ /\ "sql" \in Faults
          /\ Caught(e)
          /\ UNCHANGED rows
    /\ UNCHANGED <<cfnVars, lambdaVars, tmp, table, populated>>

\* Mutation: the answer of whatever request ends the open one.
RespondToAny(e) ==
    /\ At(e, "respond")
    /\ stack' = IF stack.status \in Open THEN Close(run[e].status, run[e].pid) ELSE stack
    /\ run' = [run EXCEPT ![e] = Idle]
    /\ UNCHANGED <<events, lambdaVars, tmp, dbVars>>

\* The answer is put to the response URL of the request, which CloudFormation
\* reads only while that request is open; a failed put is only logged.
Respond(e) ==
    /\ At(e, "respond")
    /\ \/ stack' = IF run[e].req = stack.req THEN Close(run[e].status, run[e].pid) ELSE stack
       \/ "lost" \in Faults /\ UNCHANGED stack
    /\ run' = [run EXCEPT ![e] = Idle]
    /\ UNCHANGED <<events, lambdaVars, tmp, dbVars>>

\* An exception leaves create or update.  The framework's own answer does not
\* carry the handler's id.
Escape(e) ==
    /\ At(e, "escape")
    /\ IF EscapeAnswers
         THEN /\ run' = [run EXCEPT ![e] =
                          [pc |-> "respond", req |-> run[e].req, dir |-> run[e].dir,
                           status |-> "FAILED", pid |-> NoId]]
              /\ UNCHANGED <<queue, retriesLeft>>
         ELSE FunctionError(e)
    /\ UNCHANGED <<cfnVars, duplicates, crashes, tmp, dbVars>>

-----------------------------------------------------------------------------
CloudFormation ==
    \/ \E a \in Assets : Deploy(a)
    \/ RollBack
    \/ Destroy
    \/ GiveUp

Lambda ==
    \/ \E r \in Requests, e \in Envs : Deliver(r, e)
    \/ \E r \in Requests : Duplicate(r)
    \/ \E e \in Envs : Crash(e) \/ Recycle(e)

Handler(e) ==
    \/ FetchSecret(e) \/ CreateFile(e) \/ Download(e) \/ Unzip(e)
    \/ Configure(e) \/ Validate(e) \/ Migrate(e) \/ ApplyNext(e)
    \/ Respond(e) \/ Escape(e)

Next == CloudFormation \/ Lambda \/ \E e \in Envs : Handler(e)

Spec == Init /\ [][Next]_vars

\* Lambda starts every queued invocation and lets a started one run; nobody
\* is bound to deploy, to destroy or to roll back.
Fairness ==
    /\ WF_vars(\E r \in Requests, e \in Envs : Deliver(r, e))
    /\ \A e \in Envs : WF_vars(Handler(e))

FairSpec == Spec /\ Fairness

-----------------------------------------------------------------------------
(***************************************************************************)
(* Properties.                                                             *)
(***************************************************************************)

StackType ==
    [status : Statuses, req : 0..MaxRequests, asset : Assets \cup {None},
     target : Assets \cup {None}, pid : Ids]

EventType ==
    [type : {"Create", "Update", "Delete"}, asset : Assets, pid : Ids]

RunType ==
    [pc : Steps \cup {"idle"}, req : 0..MaxRequests, dir : ScriptSets,
     status : {"NONE", "SUCCESS", "FAILED"}, pid : Ids]

\* Every variable has its type (the type invariant).
TypeOK ==
    /\ stack \in StackType
    /\ events \in Seq(EventType) /\ Len(events) <= MaxRequests
    /\ queue \subseteq 1..Len(events)
    /\ retriesLeft \in [Requests -> 0..Retries]
    /\ run \in [Envs -> RunType]
    /\ \A e \in Envs :
         /\ run[e].pc # "idle" => run[e].req \in 1..Len(events)
         /\ run[e].pc = "respond" => run[e].status # "NONE"
    /\ tmp \in [Envs -> [Assets -> {"absent", "partial", "full"}]]
    /\ rows \in Seq(Rows)
    /\ table \in BOOLEAN /\ populated \in BOOLEAN
    /\ duplicates \in 0..MaxDuplicates
    /\ crashes \in 0..MaxCrashes

Migrated(a) == DOMAIN Content[a] \subseteq Recorded(rows)

\* While CloudFormation holds the resource (live, or under or after an update
\* of it), every script of the asset it holds is in the history, whatever
\* duplicates, late invocations, crashes and abandoned requests did.  This is
\* what the handler's SUCCESS (DBMigratorHandler.java:134-142) promises to
\* the stacks deployed after it.  It needs assets that only ever append
\* scripts (GrowingAssets).
LiveMeansMigrated ==
    stack.status \in Held => Migrated(stack.asset)

\* Without duplicates and abandoned requests: what is live validates
\* against the scripts it was deployed with, so that nothing unknown, edited
\* or skipped is in the history.  In particular a rollback never reports
\* success over scripts that the failed update has left behind.
LiveIsValid ==
    stack.status = "live" => Valid(rows, Content[stack.asset], {})

\* The history only grows, and only an invocation of create or update for an
\* asset that holds the new script adds to it: Delete leaves the database be
\* (DBMigratorHandler.java:156-158).
HistoryGrows ==
    [][/\ Len(rows) <= Len(rows')
       /\ rows = SubSeq(rows', 1, Len(rows))
       /\ rows' # rows => \E e \in Envs :
            /\ run[e].pc \in {"migrate", "apply"}
            /\ events[run[e].req].type # "Delete"
            /\ Len(rows) = 0 \/ rows'[Len(rows')].version \in DOMAIN Content[Asset(e)]]_vars

\* Once CloudFormation has a physical id it stays, until the resource is gone:
\* an update or a rollback that changed it would be taken
\* for a replacement, and the old resource deleted.  That a Create which is
\* delivered again mints another id, and may answer with it later than with
\* the first one, must not matter (DBMigratorHandler.java:92, 100).
NoReplacement ==
    [][stack.status \notin {"none", "creating"} => stack'.pid = stack.pid]_vars

\* While CloudFormation waits for an answer, an event or an invocation of the
\* request is there to give it, until Lambda has used up its retries: nobody
\* else asks again.  It needs every put of an answer to arrive.
NoRequestForgotten ==
    stack.status \in Open =>
        \/ stack.req \in queue
        \/ \E e \in Envs : run[e].pc # "idle" /\ run[e].req = stack.req
        \/ retriesLeft[stack.req] = 0

\* Every request is answered, whatever step of the handler fails, as long as
\* the put of the answer arrives and Lambda has a retry left for each crash:
\* the retry may meet what the crashed invocation left in the environment.
EveryRequestSettles ==
    \A r \in Requests : stack.req = r ~> stack.req # r

\* A delete that was asked for removes the resource, whatever state earlier
\* invocations left the environments and the database in.
DeleteCompletes == stack.status = "deleting" ~> stack.status = "none"

\* DBMigraorHandlerTests.java:75 and :89: in a healthy system create and then
\* update, here for the same locations, are answered SUCCESS.
HealthyRequestsSucceed ==
    \A e \in Envs : run[e].pc = "respond" => run[e].status = "SUCCESS"

\* Each asset appends scripts to those of a shorter one.
GrowingAssets ==
    \A a \in Assets : \E n \in Versions : DOMAIN Content[a] = 1..n

\* What CloudFormation and the database make of the resource.
Contract == INSTANCE MigrationContract WITH
    Scripts   <- [a \in Assets |-> DOMAIN Content[a]],
    resource  <- [status |-> stack.status, asset |-> stack.asset, target |-> stack.target],
    schema    <- Recorded(rows),
    requested <- {events[i].asset : i \in 1..Len(events)}

\* With growing assets, all of CloudFormation, Lambda and the handler is just
\* the contract: whichever invocations overlap, repeat, crash or come late,
\* an operation of the resource only succeeds over its scripts, and only the
\* next script of an asset asked for ever enters the history
\* (DBMigratorHandler.java:90-158).
ImplementsContract == Contract!Spec
-----------------------------------------------------------------------------
(***************************************************************************)
(* The inductive invariant behind the safety properties.                   *)
(***************************************************************************)

RequestOf ==
    [creating |-> "Create", updating |-> "Update", rollingBack |-> "Update",
     deleting |-> "Delete"]

\* The resource is open for exactly the request it was last issued for.
StackOK ==
    /\ stack.status \in Open =>
         /\ stack.req \in 1..Len(events)
         /\ events[stack.req].type = RequestOf[stack.status]
         /\ events[stack.req].asset = stack.target
    /\ stack.status \notin Open => stack.req = 0
    /\ stack.status # "none" => stack.target \in Assets
    /\ stack.status \in Held => stack.asset \in Assets
    /\ stack.status = "rollingBack" => stack.target = stack.asset

\* A delete goes straight to its answer; a SUCCESS of another request is
\* only given once its scripts are in.
AnswersAreTrue ==
    \A e \in Envs : run[e].pc # "idle" =>
        IF events[run[e].req].type = "Delete"
          THEN run[e].pc = "respond"
          ELSE run[e].pc = "respond" /\ run[e].status = "SUCCESS" => Migrated(Asset(e))

\* The scripts on disk when Flyway is configured are all those of the asset
\* of the request being answered: neither a part of them nor those of an
\* asset an earlier invocation of the environment left in /tmp.
WorksOnItsAsset ==
    \A e \in Envs : run[e].pc \in {"config", "validate", "migrate", "apply"} =>
        /\ run[e].dir = Content[Asset(e)]
        /\ tmp[e][Asset(e)] = "full"

\* Nothing is in the history before its table exists, and nobody applies
\* scripts before that.
TableOK ==
    /\ ~table => rows = <<>>
    /\ \A e \in Envs : run[e].pc = "apply" => table

\* With growing assets the history is 1, 2, ... without a hole.
HistoryDense ==
    \A i \in 1..Len(rows) : rows[i].version = i

\* The invariant that the steps of Next preserve, and that implies the
\* safety properties above when the assets grow.
IInv ==
    /\ TypeOK
    /\ StackOK
    /\ TableOK
    /\ WorksOnItsAsset
    /\ HistoryDense
    /\ AnswersAreTrue
    /\ LiveMeansMigrated
=============================================================================

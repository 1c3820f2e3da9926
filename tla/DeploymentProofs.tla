-------------------------- MODULE DeploymentProofs --------------------------
(***************************************************************************)
(* Proofs about Deployment, for every value of its constants.              *)
(***************************************************************************)
EXTENDS Deployment, TLAPS

-----------------------------------------------------------------------------
(***************************************************************************)
(* The inductive invariant.                                                *)
(***************************************************************************)

Status(s) == stacks[s].status

\* What a stack is and becomes, as its status says.
Shape ==
    \A s \in Stacks :
        /\ Status(s) \in {"none", "creating"} => stacks[s].now = Absent
        /\ Status(s) \in {"live", "updating", "stuck"} => Exists(s)
        /\ s # "Sql" /\ Status(s) \in {"deleting", "deleteFailed"} => Exists(s)
        /\ Status(s) \in {"none", "live", "stuck", "deleteFailed"} => stacks[s].next = Absent
        /\ s # "Sql" /\ Status(s) \in {"creating", "updating"} => stacks[s].next.born # 0

\* SqlStack has the revision of its resource.
Link ==
    /\ stacks["Sql"].now.revision = resource.asset
    /\ resource.status \in {"creating", "updating"} =>
           /\ stacks["Sql"].next.revision = resource.target
           /\ stacks["Sql"].next.born # 0
    /\ resource.status = "rollingBack" => resource.target = resource.asset
    /\ resource.status # "none" => resource.target \in Revisions
    /\ resource.status \in {"live", "updating", "updateFailed", "rollingBack", "rollbackFailed"}
           => resource.asset \in Revisions

\* A command that runs has a number, and a deploy its revision.
Numbered ==
    \A c \in Shells :
        /\ cdk[c].goal # "idle" => cdk[c].number # 0
        /\ cdk[c].goal = "deploy" => cdk[c].revision \in Revisions

Base == TypeOK /\ Shape /\ Link /\ Numbered

\* Nobody deploys while somebody destroys.
Alone == \A c, d \in Shells : ~(cdk[c].goal = "deploy" /\ cdk[d].goal = "destroy")

\* A deploy takes up a stack after those the stack comes after.
Ordered ==
    \A c \in Shells : cdk[c].goal = "deploy" =>
        /\ \A s \in Stacks \ cdk[c].left : Order(s) \cap cdk[c].left = {}
        /\ cdk[c].at # None => Order(cdk[c].at) \cap cdk[c].left = {}

\* What a command has done stays done.
Progress ==
    \A c \in Shells : \A s \in Stacks \ cdk[c].left :
        /\ cdk[c].goal = "deploy" /\ s # "Sql" => Status(s) \in {"live", "updating"}
        /\ cdk[c].goal = "destroy" => Status(s) = "none"

\* A stack stays while another one needs it: R is what the stacks need each
\* other for.
Needed(R) ==
    \A t \in Stacks : Status(t) # "none" =>
        \A s \in R[t] : Status(s) \notin {"none", "creating", "deleting"}

\* What a stack got, or is about to get, of another one is still what that has.
Fresh(R) ==
    \A s \in Stacks :
        /\ s # "Sql" /\ Status(s) = "updating" => stacks[s].next.born = stacks[s].now.born
        /\ \A t \in R[s] :
               /\ Exists(s) => stacks[s].now.saw[t] = stacks[t].now.born
               /\ stacks[s].next.born # 0 => stacks[s].next.saw[t] = stacks[t].now.born

SourcesOf == [s \in Stacks |-> Sources(s)]

\* What CloudFormation itself sees to, whoever deploys and destroys.
ReferencesInv == Needed(Imports) /\ Fresh(Imports) /\ SqlIsMigrated

\* What needs that nobody deploys beside a destroy.
OrderInv == Alone /\ Ordered /\ Progress /\ Needed(SourcesOf)

\* The revisions the service may have tasks of.
Serving == {stacks["App"].now.revision, stacks["App"].next.revision} \cap Revisions

\* The scripts are there before the command or the service relies on them,
\* and stay.
SchemaInv ==
    /\ \A c \in Shells : cdk[c].goal = "deploy" /\ "Sql" \notin cdk[c].left =>
           Scripts[cdk[c].revision] \subseteq schema
    /\ \A r \in Serving : Scripts[r] \subseteq schema
    /\ tasks \subseteq Serving

OrderedInv == OrderInv /\ Fresh(SourcesOf) /\ SchemaInv

IInv == Base /\ ReferencesInv /\ (~overlapped => OrderedInv)

-----------------------------------------------------------------------------
(***************************************************************************)
(* Facts about what the source declares, and about Become.                 *)
(***************************************************************************)

\* The stacks whose parameters a stack reads.
LEMMA ReadsFacts ==
    /\ {t \in Stacks : Reads["Database"] \cap Writes[t] # {}} = {"Foundation"}
    /\ {t \in Stacks : Reads["Sql"] \cap Writes[t] # {}} = {"Vpc"}
    /\ {t \in Stacks : Reads["App"] \cap Writes[t] # {}} = {"Foundation"}
    /\ \A s \in Stacks \ {"Database", "Sql", "App"} : Reads[s] = {}
<1>1. /\ Reads["Database"] = {"KMS_ARN"} /\ Reads["App"] = {"KMS_ARN"}
      /\ Reads["Sql"] = {"ENDPOINT_SG_ID"}
      /\ \A s \in Stacks \ {"Database", "Sql", "App"} : Reads[s] = {}
  BY DEF Stacks, Reads, DatabaseReads, SqlReads, AppReads
<1>2. /\ \A t \in Stacks : "KMS_ARN" \in Writes[t] <=> t = "Foundation"
      /\ \A t \in Stacks : "ENDPOINT_SG_ID" \in Writes[t] <=> t = "Vpc"
  BY DEF Stacks, Writes, FoundationWrites, VpcWrites, DatabaseWrites, DatabaseSecrets
<1>3. "Foundation" \in Stacks /\ "Vpc" \in Stacks
  BY DEF Stacks
<1>. QED  BY <1>1, <1>2, <1>3

\* What each stack needs, and what it comes after.
LEMMA SourcesFacts ==
    /\ Sources("Foundation") = {} /\ Order("Foundation") = {}
    /\ Sources("Vpc") = {} /\ Order("Vpc") = {}
    /\ Sources("EC2Tester") = {"Vpc"} /\ Order("EC2Tester") = {"Vpc"}
    /\ Sources("Database") = {"Foundation", "Vpc"} /\ Order("Database") = {"Foundation", "Vpc"}
    /\ Sources("Sql") = {"Foundation", "Vpc", "Database"} /\ Order("Sql") = Sources("Sql")
    /\ Sources("App") = {"Foundation", "Vpc", "Database"}
    /\ Order("App") = {"Foundation", "Vpc", "Database", "Sql"}
    /\ Sources("AppService") = {"Foundation", "Vpc", "App"}
    /\ Order("AppService") = Sources("AppService")
<1>1. /\ Imports["Foundation"] = {} /\ Imports["Vpc"] = {}
      /\ Imports["EC2Tester"] = {"Vpc"} /\ Imports["Database"] = {"Vpc"}
      /\ Imports["Sql"] = {"Foundation", "Vpc", "Database"}
      /\ Imports["App"] = {"Foundation", "Vpc", "Database"}
      /\ Imports["AppService"] = {"Foundation", "Vpc", "App"}
  BY DEF Imports, TesterImports, DatabaseImports, SqlImports, AppImports, AppServiceImports
<1>2. /\ Explicit["Foundation"] = {} /\ Explicit["Vpc"] = {} /\ Explicit["EC2Tester"] = {}
      /\ Explicit["Database"] = {"Foundation"} /\ Explicit["Sql"] = {"Database"}
      /\ Explicit["App"] = {"Sql"} /\ Explicit["AppService"] = {}
  BY DEF Explicit, Stacks
<1>3. /\ Reads["Foundation"] = {} /\ Reads["Vpc"] = {} /\ Reads["EC2Tester"] = {}
      /\ Reads["AppService"] = {}
  BY ReadsFacts DEF Stacks
<1>. QED  BY <1>1, <1>2, <1>3, ReadsFacts DEF Sources, Order

\* The order cdk derives covers what a stack needs, by reference or by name.
LEMMA OrderFacts ==
    /\ \A s \in Stacks : Order(s) \subseteq Stacks /\ Sources(s) \subseteq Order(s)
    /\ \A s \in Stacks : "Sql" \notin Sources(s)
    /\ \A s, t \in Stacks : s \in Sources(t) =>
           s \in Imports[t] \/ (s = "Foundation" /\ t = "Database")
    /\ \A t \in Stacks : Imports[t] \subseteq Order(t)
<1>1. \A s \in Stacks : Order(s) \subseteq Stacks /\ Sources(s) \subseteq Order(s)
                        /\ "Sql" \notin Sources(s)
  BY SourcesFacts DEF Stacks
<1>2. \A s, t \in Stacks : s \in Sources(t) =>
           s \in Imports[t] \/ (s = "Foundation" /\ t = "Database")
  <2>1. \A t \in Stacks \ {"Database", "Sql", "App"} : Sources(t) \subseteq Imports[t]
    BY ReadsFacts DEF Sources
  <2>2. Sources("Sql") \subseteq Imports["Sql"] /\ Sources("App") \subseteq Imports["App"]
    BY SourcesFacts DEF Imports, SqlImports, AppImports
  <2>3. Sources("Database") \subseteq Imports["Database"] \cup {"Foundation"}
    BY SourcesFacts DEF Imports, DatabaseImports
  <2>. QED  BY <2>1, <2>2, <2>3
<1>. QED  BY <1>1, <1>2 DEF Order

\* No two stacks want the same name.
LEMMA NamesDiffer ==
    \A s, t \in Stacks : s # t => Taken(s) \cap Taken(t) = {}
BY DEF Stacks, Taken, ParamNames, Path, Writes, FoundationWrites, VpcWrites,
       DatabaseWrites, DatabaseSecrets

LEMMA AbsentFacts ==
    Absent \in DeployedType /\ Absent.born = 0 /\ Absent.revision = None
BY DeploymentAssumption DEF Absent, DeployedType, Commands

\* The values a stack gets are numbers of commands.
LEMMA SeenType ==
    ASSUME TypeOK, NEW s \in Stacks
    PROVE  Seen(s) \in [Stacks -> Commands]
BY DeploymentAssumption DEF TypeOK, StackType, DeployedType, Commands, Seen

\* One stack changes, and the others do not.
LEMMA BecomeFacts ==
    ASSUME stacks \in [Stacks -> StackType], NEW s \in Stacks,
           NEW status \in Busy \cup {"none", "live", "stuck", "deleteFailed"},
           NEW now \in DeployedType, NEW next \in DeployedType,
           Become(s, status, now, next)
    PROVE  /\ stacks' \in [Stacks -> StackType]
           /\ stacks'[s].status = status
           /\ stacks'[s].now = now
           /\ stacks'[s].next = next
           /\ \A t \in Stacks : t # s => stacks'[t] = stacks[t]
BY DEF Become, StackType

\* The status SqlStack has for each status of its resource.
LEMMA SqlStatusFacts ==
    /\ SqlStatus["none"] = "none" /\ SqlStatus["live"] = "live"
    /\ SqlStatus["creating"] = "creating" /\ SqlStatus["createFailed"] = "creating"
    /\ SqlStatus["updating"] = "updating" /\ SqlStatus["updateFailed"] = "updating"
    /\ SqlStatus["rollingBack"] = "updating" /\ SqlStatus["rollbackFailed"] = "stuck"
    /\ SqlStatus["deleting"] = "deleting" /\ SqlStatus["deleteFailed"] = "deleteFailed"
    /\ DOMAIN SqlStatus = {"none", "live", "creating", "createFailed", "updating",
           "updateFailed", "rollingBack", "rollbackFailed", "deleting", "deleteFailed"}
BY DEF SqlStatus

-----------------------------------------------------------------------------
(***************************************************************************)
(* Types and shape: one lemma for each action that changes a stack.        *)
(***************************************************************************)

LEMMA BaseInit == Init => Base
<1>. SUFFICES ASSUME Init  PROVE Base
  OBVIOUS
<1>0. overlapped \in BOOLEAN
  BY Zenon DEF Init
<1>1. TypeOK
  BY <1>0, AbsentFacts, SqlStatusFacts, DeploymentAssumption
  DEF Init, Migrator!Init, TypeOK, StackType, CommandType, ResourceType, Commands, Idle,
      Stacks, Busy
<1>2. Shape
  BY AbsentFacts DEF Init, Shape, Status
<1>3. Link
  BY AbsentFacts DEF Init, Migrator!Init, Link, Stacks
<1>4. Numbered
  BY DEF Init, Numbered, Idle
<1>. QED  BY <1>1, <1>2, <1>3, <1>4 DEF Base

\* The shells change nothing but their commands.
LEMMA BaseStart ==
    ASSUME Base, NEW c \in Shells, NEW goal \in {"deploy", "destroy"},
           NEW r \in Revisions \cup {None}, goal = "deploy" => r \in Revisions,
           Start(c, goal, r)
    PROVE  Base'
<1>1. issued + 1 \in Commands /\ issued + 1 # 0
  BY DeploymentAssumption DEF Base, TypeOK, Start, Commands
<1>2. cdk' \in [Shells -> CommandType]
  BY <1>1 DEF Base, TypeOK, Start, CommandType
<1>3. TypeOK'
  BY <1>1, <1>2 DEF Base, TypeOK, Start, migrator, Commands
<1>4. Shape' /\ Link'
  BY DEF Base, Start, migrator, Shape, Link, Status, Exists
<1>5. Numbered'
  BY <1>1 DEF Base, TypeOK, Start, Numbered
<1>. QED  BY <1>3, <1>4, <1>5 DEF Base

LEMMA BaseDone ==
    ASSUME Base, NEW c \in Shells, NEW s,
           \/ Done(c, s)
           \/ Stop(c)
           \/ s \in Stacks /\ cdk' = [cdk EXCEPT ![c].at = s]
    PROVE  cdk' \in [Shells -> CommandType] /\ Numbered'
<1>1. Idle \in CommandType
  BY DeploymentAssumption DEF Idle, CommandType, Commands
<1>2. cdk' \in [Shells -> CommandType]
  BY <1>1 DEF Base, TypeOK, Done, Stop, CommandType
<1>3. Numbered'
  BY DEF Base, TypeOK, Done, Stop, Numbered, Idle, CommandType
<1>. QED  BY <1>2, <1>3

LEMMA BaseCommand ==
    ASSUME Base, NEW c \in Shells, NEW s, Done(c, s) \/ Stop(c),
           UNCHANGED <<stacks, migrator, tasks, issued, failures, overlapped>>
    PROVE  Base'
<1>1. cdk' \in [Shells -> CommandType] /\ Numbered'
  BY BaseDone
<1>2. TypeOK'
  BY <1>1 DEF Base, TypeOK, migrator
<1>3. Shape' /\ Link'
  BY DEF Base, migrator, Shape, Link, Status, Exists
<1>. QED  BY <1>1, <1>2, <1>3 DEF Base

\* A deploy of a stack begins.
LEMMA BaseDeploy ==
    ASSUME Base, NEW c \in Shells, NEW s \in Stacks, DeployStack(c, s)
    PROVE  Base'
<1>. DEFINE next == [revision |-> cdk[c].revision, saw |-> Seen(s),
                     born |-> IF Exists(s) THEN stacks[s].now.born ELSE cdk[c].number]
            status == IF Exists(s) THEN "updating" ELSE "creating"
<1>1. CASE Done(c, s) /\ UNCHANGED <<stacks, migrator>>
  BY <1>1, BaseCommand DEF DeployStack
<1>2. CASE Stop(c) /\ UNCHANGED <<stacks, migrator>>
  BY <1>2, BaseCommand DEF DeployStack
<1>3. CASE /\ Deployable(c, s)
           /\ cdk' = [cdk EXCEPT ![c].at = s]
           /\ Become(s, status, stacks[s].now, next)
           /\ IF s = "Sql" THEN Migrator!Deploy(cdk[c].revision) ELSE UNCHANGED migrator
  <2>1. /\ cdk[c] \in CommandType /\ cdk[c].revision \in Revisions
        /\ cdk[c].number \in Commands /\ cdk[c].number # 0
    BY DEF Base, TypeOK, Numbered, DeployStack, CommandType
  <2>2. stacks \in [Stacks -> StackType] /\ stacks[s].now \in DeployedType
        /\ stacks[s].now.born \in Commands
    BY DEF Base, TypeOK, StackType, DeployedType
  <2>3. next \in DeployedType /\ next.born # 0 /\ next.revision = cdk[c].revision
    <3>1. Seen(s) \in [Stacks -> Commands]
      BY SeenType DEF Base
    <3>. QED  BY <2>1, <2>2, <3>1 DEF DeployedType, Exists
  <2>4. status \in {"creating", "updating"}
    OBVIOUS
  <2>. HIDE DEF next
  <2>5. /\ stacks' \in [Stacks -> StackType]
        /\ stacks'[s].status = status
        /\ stacks'[s].now = stacks[s].now /\ stacks'[s].next = next
        /\ \A t \in Stacks : t # s => stacks'[t] = stacks[t]
    <3>. HIDE DEF status
    <3>. QED  BY <1>3, <2>2, <2>3, <2>4, BecomeFacts DEF Busy
  <2>6. \/ /\ Status(s) = "none" /\ ~Exists(s)
           /\ status = "creating" /\ stacks[s].now = Absent
        \/ Status(s) = "live" /\ Exists(s) /\ status = "updating"
    <3>1. Status(s) = "none" \/ Status(s) = "live"
      BY <1>3 DEF Deployable, Status
    <3>2. Status(s) = "none" => stacks[s].now = Absent /\ ~Exists(s)
      BY AbsentFacts DEF Base, Shape, Exists
    <3>3. Status(s) = "live" => Exists(s)
      BY DEF Base, Shape
    <3>. QED  BY <3>1, <3>2, <3>3
  <2>7. cdk' \in [Shells -> CommandType] /\ Numbered'
    BY <1>3, BaseDone
  <2>8. UNCHANGED <<tasks, issued, failures, overlapped>>
    BY DEF DeployStack
  <2>9. CASE s # "Sql"
    <3>1. UNCHANGED <<resource, schema, requested>> /\ stacks'["Sql"] = stacks["Sql"]
      BY <1>3, <2>9, <2>5 DEF migrator, Stacks
    <3>2. TypeOK'
      BY <2>5, <2>7, <2>8, <3>1 DEF Base, TypeOK
    <3>3. Shape'
      BY <2>3, <2>5, <2>6, <2>9 DEF Base, Shape, Status, Exists
    <3>4. Link'
      BY <3>1 DEF Base, Link
    <3>. QED  BY <2>7, <3>2, <3>3, <3>4 DEF Base
  <2>10. CASE s = "Sql"
    <3>1. /\ resource.status \in DOMAIN SqlStatus
          /\ Status("Sql") = SqlStatus[resource.status]
          /\ resource \in ResourceType
      BY DEF Base, TypeOK, ResourceType, Status
    <3>2. /\ Status("Sql") = "none" => resource.status = "none"
          /\ Status("Sql") = "live" => resource.status = "live"
      BY <3>1, SqlStatusFacts
    <3>3. /\ resource' = [status |-> status, asset |-> resource.asset,
                          target |-> cdk[c].revision]
          /\ requested' = requested \cup {cdk[c].revision}
          /\ schema' = schema
      BY <1>3, <2>6, <2>10, <3>2 DEF Migrator!Deploy, Migrator!Request
    <3>4. resource' \in ResourceType
      BY <2>1, <2>4, <3>1, <3>3, SqlStatusFacts DEF ResourceType
    <3>5. stacks'["Sql"].status = SqlStatus[resource'.status]
      BY <2>4, <2>5, <2>10, <3>3, SqlStatusFacts
    <3>6. TypeOK'
      BY <2>1, <2>5, <2>7, <2>8, <3>3, <3>4, <3>5 DEF Base, TypeOK
    <3>7. Shape'
      BY <2>3, <2>5, <2>6, <2>10 DEF Base, Shape, Status, Exists
    <3>8. Link'
      BY <2>1, <2>3, <2>4, <2>5, <2>6, <2>10, <3>2, <3>3 DEF Base, Link
    <3>. QED  BY <2>7, <3>6, <3>7, <3>8 DEF Base
  <2>. QED  BY <2>9, <2>10
<1>. QED  BY <1>1, <1>2, <1>3 DEF DeployStack

\* The deletion of a stack begins.
LEMMA BaseDestroy ==
    ASSUME Base, NEW c \in Shells, NEW s \in Stacks, DestroyStack(c, s)
    PROVE  Base'
<1>1. CASE Done(c, s) /\ UNCHANGED <<stacks, migrator>>
  BY <1>1, BaseCommand DEF DestroyStack
<1>2. CASE Stop(c) /\ UNCHANGED <<stacks, migrator>>
  BY <1>2, BaseCommand DEF DestroyStack
<1>3. CASE /\ Status(s) \in {"live", "stuck", "deleteFailed"}
           /\ cdk' = [cdk EXCEPT ![c].at = s]
           /\ Become(s, "deleting", stacks[s].now, Absent)
           /\ IF s = "Sql" THEN Migrator!Destroy ELSE UNCHANGED migrator
  <2>1. stacks \in [Stacks -> StackType] /\ stacks[s].now \in DeployedType
    BY DEF Base, TypeOK, StackType
  <2>2. /\ stacks' \in [Stacks -> StackType]
        /\ stacks'[s].status = "deleting"
        /\ stacks'[s].now = stacks[s].now /\ stacks'[s].next = Absent
        /\ \A t \in Stacks : t # s => stacks'[t] = stacks[t]
    BY <1>3, <2>1, AbsentFacts, BecomeFacts DEF Busy
  <2>3. cdk' \in [Shells -> CommandType] /\ Numbered'
    BY <1>3, BaseDone
  <2>4. UNCHANGED <<tasks, issued, failures, overlapped>>
    BY DEF DestroyStack
  <2>5. Shape'
    BY <1>3, <2>2 DEF Base, Shape, Status, Exists
  <2>6. CASE s # "Sql"
    <3>1. UNCHANGED <<resource, schema, requested>> /\ stacks'["Sql"] = stacks["Sql"]
      BY <1>3, <2>2, <2>6 DEF migrator, Stacks
    <3>2. TypeOK'
      BY <2>2, <2>3, <2>4, <3>1 DEF Base, TypeOK
    <3>3. Link'
      BY <3>1 DEF Base, Link
    <3>. QED  BY <2>3, <2>5, <3>2, <3>3 DEF Base
  <2>7. CASE s = "Sql"
    <3>1. /\ resource' = [status |-> "deleting", asset |-> resource.asset,
                          target |-> resource.target]
          /\ requested' = requested \cup {resource.target}
          /\ schema' = schema
      BY <1>3, <2>7 DEF Migrator!Destroy, Migrator!Request
    <3>2. resource.target \in Revisions
      BY <1>3, <2>7 DEF Base, Link, Migrator!Destroy
    <3>3. resource' \in ResourceType
      BY <3>1, SqlStatusFacts DEF Base, TypeOK, ResourceType
    <3>4. TypeOK'
      BY <2>2, <2>3, <2>4, <2>7, <3>1, <3>2, <3>3, SqlStatusFacts DEF Base, TypeOK
    <3>5. Link'
      BY <2>2, <2>7, <3>1, <3>2 DEF Base, Link
    <3>. QED  BY <2>3, <2>5, <3>4, <3>5 DEF Base
  <2>. QED  BY <2>6, <2>7
<1>. QED  BY <1>1, <1>2, <1>3 DEF DestroyStack, Status

-----------------------------------------------------------------------------
(***************************************************************************)
(* CloudFormation and ECS.                                                 *)
(***************************************************************************)

\* A stack other than SqlStack ends an operation.
LEMMA BaseOperation ==
    ASSUME Base, NEW s \in Stacks, s # "Sql",
           NEW status \in {"none", "live", "deleteFailed"}, NEW now \in DeployedType,
           Become(s, status, now, Absent),
           status = "none" => now = Absent,
           status \in {"live", "deleteFailed"} => now.born # 0,
           UNCHANGED <<resource, requested, cdk, issued, overlapped>>,
           schema' \subseteq Versions, tasks' \subseteq Revisions,
           failures' \in 0..MaxFailures
    PROVE  Base'
<1>1. stacks \in [Stacks -> StackType]
  BY DEF Base, TypeOK
<1>2. /\ stacks' \in [Stacks -> StackType]
      /\ stacks'[s].status = status
      /\ stacks'[s].now = now /\ stacks'[s].next = Absent
      /\ \A t \in Stacks : t # s => stacks'[t] = stacks[t]
  BY <1>1, AbsentFacts, BecomeFacts DEF Busy
<1>3. stacks'["Sql"] = stacks["Sql"]
  BY <1>2 DEF Stacks
<1>4. TypeOK'
  BY <1>2, <1>3 DEF Base, TypeOK
<1>5. Shape'
  BY <1>2 DEF Base, Shape, Status, Exists
<1>6. Link' /\ Numbered'
  BY <1>3 DEF Base, Link, Numbered
<1>. QED  BY <1>4, <1>5, <1>6 DEF Base

LEMMA StackFacts ==
    ASSUME Base, NEW s \in Stacks
    PROVE  /\ stacks[s].now \in DeployedType /\ stacks[s].next \in DeployedType
           /\ stacks[s].now.revision \in Revisions \cup {None}
           /\ stacks[s].next.revision \in Revisions \cup {None}
           /\ stacks[s].now.born \in Commands /\ stacks[s].next.born \in Commands
BY DEF Base, TypeOK, StackType, DeployedType

LEMMA BaseDeployed ==
    ASSUME Base, NEW s \in Stacks, Deployed(s)
    PROVE  Base'
<1>1. s # "Sql" /\ Become(s, "live", stacks[s].next, Absent)
  BY DEF Deployed
<1>2. stacks[s].next.born # 0
  BY DEF Base, Shape, Status, Deployed
<1>3. UNCHANGED <<resource, schema, requested, cdk, issued, failures, overlapped>>
  BY DEF Deployed, migrator
<1>4. tasks' \subseteq Revisions
  BY DEF Base, TypeOK, Deployed
<1>5. schema' \subseteq Versions /\ failures' \in 0..MaxFailures
  BY <1>3 DEF Base, TypeOK
<1>. QED  BY <1>1, <1>2, <1>3, <1>4, <1>5, StackFacts, BaseOperation

LEMMA BaseDeleted ==
    ASSUME Base, NEW s \in Stacks, Deleted(s)
    PROVE  Base'
<1>1. s # "Sql" /\ Become(s, "none", Absent, Absent)
  BY DEF Deleted
<1>2. UNCHANGED <<resource, requested, cdk, issued, failures, overlapped>>
  BY DEF Deleted
<1>3. tasks' \subseteq Revisions /\ schema' \subseteq Versions /\ failures' \in 0..MaxFailures
  BY <1>2 DEF Base, TypeOK, Deleted
<1>. QED  BY <1>1, <1>2, <1>3, AbsentFacts, BaseOperation

LEMMA BaseFailed ==
    ASSUME Base, NEW s \in Stacks, Failed(s)
    PROVE  Base'
<1>1. s # "Sql"
  BY DEF Failed
<1>2. \/ Become(s, "none", Absent, Absent)
      \/ Status(s) = "updating" /\ Become(s, "live", stacks[s].now, Absent)
      \/ Status(s) = "deleting" /\ Become(s, "deleteFailed", stacks[s].now, Absent)
  BY DEF Failed, Status
<1>3. Status(s) \in {"updating", "deleting"} => stacks[s].now.born # 0
  BY <1>1 DEF Base, Shape, Exists
<1>4. UNCHANGED <<resource, schema, requested, cdk, issued, overlapped>>
  BY DEF Failed, migrator
<1>5. failures' \in 0..MaxFailures /\ tasks' \subseteq Revisions
  BY DeploymentAssumption DEF Base, TypeOK, Failed
<1>6. schema' \subseteq Versions
  BY <1>4 DEF Base, TypeOK
<1>. QED  BY <1>1, <1>2, <1>3, <1>4, <1>5, <1>6, AbsentFacts, StackFacts, BaseOperation

\* SqlStack follows its resource.
LEMMA BaseSqlBecomes ==
    ASSUME Base, NEW now \in DeployedType, SqlBecomes(now),
           resource' \in ResourceType, requested' \subseteq Revisions,
           now.revision = resource'.asset,
           resource'.status \in {"none", "creating", "createFailed"} => now = Absent,
           SqlStatus[resource'.status] \in {"live", "updating", "stuck"} => now.born # 0,
           resource'.status \in {"creating", "updating"} => resource' = resource,
           resource'.status = "rollingBack" => resource'.target = resource'.asset,
           resource'.status # "none" => resource'.target \in Revisions,
           resource'.status \in {"live", "updating", "updateFailed", "rollingBack", "rollbackFailed"}
               => resource'.asset \in Revisions,
           UNCHANGED <<cdk, issued, overlapped>>,
           schema' \subseteq Versions, tasks' \subseteq Revisions,
           failures' \in 0..MaxFailures
    PROVE  Base'
<1>. DEFINE status == SqlStatus[resource'.status]
            next == IF status \in Busy THEN stacks["Sql"].next ELSE Absent
<1>1. "Sql" \in Stacks /\ stacks \in [Stacks -> StackType]
  BY DEF Base, TypeOK, Stacks
<1>2. /\ resource'.status \in DOMAIN SqlStatus
      /\ status \in Busy \cup {"none", "live", "stuck", "deleteFailed"}
  BY SqlStatusFacts DEF ResourceType, Busy
<1>3. next \in DeployedType
  BY <1>1, AbsentFacts, StackFacts
<1>4. Become("Sql", status, now, next)
  BY DEF SqlBecomes
<1>5. /\ stacks' \in [Stacks -> StackType]
      /\ stacks'["Sql"].status = status
      /\ stacks'["Sql"].now = now /\ stacks'["Sql"].next = next
      /\ \A t \in Stacks : t # "Sql" => stacks'[t] = stacks[t]
  <2>. HIDE DEF status, next
  <2>. QED  BY <1>1, <1>2, <1>3, <1>4, BecomeFacts
<1>6. TypeOK'
  BY <1>5 DEF Base, TypeOK
<1>7. Shape'
  <2>1. /\ status \in {"none", "creating"} => now = Absent
        /\ status \in {"none", "live", "stuck", "deleteFailed"} => next = Absent
    BY <1>2, SqlStatusFacts DEF Busy
  <2>. HIDE DEF status, next
  <2>. QED  BY <1>5, <2>1 DEF Base, Shape, Status, Exists, status
<1>8. Link'
  BY <1>5, SqlStatusFacts DEF Base, Link, Busy
<1>9. Numbered'
  BY DEF Base, Numbered
<1>. QED  BY <1>6, <1>7, <1>8, <1>9 DEF Base

\* What the resource says of SqlStack.
LEMMA SqlFacts ==
    ASSUME Base
    PROVE  /\ "Sql" \in Stacks
           /\ resource \in ResourceType /\ resource.status \in DOMAIN SqlStatus
           /\ resource.asset \in Revisions \cup {None}
           /\ stacks["Sql"].now \in DeployedType /\ stacks["Sql"].next \in DeployedType
           /\ stacks["Sql"].now.revision = resource.asset
           /\ resource.status \in {"none", "creating", "createFailed"} => stacks["Sql"].now = Absent
           /\ resource.status \in {"live", "updating", "updateFailed", "rollingBack",
                                   "rollbackFailed"} => stacks["Sql"].now.born # 0
           /\ requested \subseteq Revisions /\ schema \subseteq Versions
           /\ tasks \subseteq Revisions /\ failures \in 0..MaxFailures
<1>1. "Sql" \in Stacks
  BY DEF Stacks
<1>2. resource \in ResourceType /\ Status("Sql") = SqlStatus[resource.status]
  BY DEF Base, TypeOK, Status
<1>3. resource.status \in DOMAIN SqlStatus /\ resource.asset \in Revisions \cup {None}
  BY <1>2 DEF ResourceType
<1>4. /\ resource.status \in {"none", "creating", "createFailed"} => stacks["Sql"].now = Absent
      /\ resource.status \in {"live", "updating", "updateFailed", "rollingBack",
                              "rollbackFailed"} => stacks["Sql"].now.born # 0
  BY <1>1, <1>2, SqlStatusFacts DEF Base, Shape, Exists
<1>5. stacks["Sql"].now.revision = resource.asset
  BY DEF Base, Link
<1>. QED  BY <1>1, <1>2, <1>3, <1>4, <1>5, StackFacts DEF Base, TypeOK

LEMMA BaseMigrated ==
    ASSUME Base, Migrated
    PROVE  Base'
<1>. DEFINE now == CASE resource.status \in {"creating", "updating"} -> stacks["Sql"].next
                     [] resource.status = "deleting" -> Absent
                     [] OTHER -> stacks["Sql"].now
<1>1. /\ resource.status \in {"creating", "updating", "rollingBack", "deleting"}
      /\ resource' = [status |-> IF resource.status = "deleting" THEN "none" ELSE "live",
                      asset  |-> IF resource.status = "deleting" THEN None ELSE resource.target,
                      target |-> resource.target]
      /\ schema' = schema /\ requested' = requested
  BY DEF Migrated, Migrator!Succeed, Migrator!Open
<1>2. UNCHANGED <<tasks, cdk, issued, failures, overlapped>> /\ SqlBecomes(now)
  BY DEF Migrated
<1>3. resource.target \in Revisions
  BY <1>1 DEF Base, Link
<1>4. resource' \in ResourceType
  BY <1>1, <1>3, SqlStatusFacts DEF ResourceType
<1>5. now \in DeployedType /\ now.revision = resource'.asset
  BY <1>1, SqlFacts, AbsentFacts DEF Base, Link
<1>6. /\ resource'.status = "none" => now = Absent
      /\ resource'.status = "live" => now.born # 0
  BY <1>1, SqlFacts DEF Base, Link
<1>. HIDE DEF now
<1>7. resource'.status \in {"none", "live"}
  BY <1>1
<1>. QED  BY <1>1, <1>2, <1>3, <1>4, <1>5, <1>6, <1>7, SqlFacts, SqlStatusFacts, BaseSqlBecomes

LEMMA BaseMigrationFailed ==
    ASSUME Base, MigrationFailed
    PROVE  Base'
<1>1. /\ \/ resource.status = "creating" /\ resource'.status = "createFailed"
         \/ resource.status = "updating" /\ resource'.status = "updateFailed"
         \/ resource.status = "rollingBack" /\ resource'.status = "rollbackFailed"
         \/ resource.status = "deleting" /\ resource'.status = "deleteFailed"
      /\ resource' = [status |-> resource'.status, asset |-> resource.asset,
                      target |-> resource.target]
      /\ schema' = schema /\ requested' = requested
  BY SqlFacts DEF MigrationFailed, Migrator!Fail, Migrator!Open, Migrator!Failed, ResourceType
<1>2. UNCHANGED <<tasks, cdk, issued, overlapped>> /\ SqlBecomes(stacks["Sql"].now)
  BY DEF MigrationFailed
<1>3. failures' \in 0..MaxFailures
  BY DeploymentAssumption, SqlFacts DEF MigrationFailed
<1>4. resource' \in ResourceType
  BY <1>1, SqlFacts, SqlStatusFacts DEF ResourceType
<1>5. resource'.asset = resource.asset /\ resource'.target = resource.target
  BY <1>1
<1>. QED  BY <1>1, <1>2, <1>3, <1>4, <1>5, SqlFacts, SqlStatusFacts, BaseSqlBecomes DEF Base, Link

LEMMA BaseRollBack ==
    ASSUME Base, RollBackSql \/ ContinueRollBack
    PROVE  Base'
<1>1. UNCHANGED <<tasks, cdk, issued, failures, overlapped>> /\ SqlBecomes(stacks["Sql"].now)
  BY DEF RollBackSql, ContinueRollBack
<1>2. CASE resource.status \in {"updateFailed", "rollbackFailed"} /\ Migrator!RollBack
  <2>1. /\ resource' = [status |-> "rollingBack", asset |-> resource.asset,
                        target |-> resource.asset]
        /\ requested' = requested \cup {resource.asset} /\ schema' = schema
    BY <1>2 DEF Migrator!RollBack, Migrator!Request
  <2>2. resource.asset \in Revisions
    BY <1>2 DEF Base, Link
  <2>3. resource' \in ResourceType
    BY <2>1, <2>2, SqlStatusFacts DEF ResourceType
  <2>. QED  BY <1>1, <1>2, <2>1, <2>2, <2>3, SqlFacts, SqlStatusFacts, BaseSqlBecomes
<1>3. CASE resource.status = "createFailed" /\ Migrator!Destroy
  <2>1. /\ resource' = [status |-> "deleting", asset |-> resource.asset,
                        target |-> resource.target]
        /\ requested' = requested \cup {resource.target} /\ schema' = schema
    BY <1>3 DEF Migrator!Destroy, Migrator!Request
  <2>2. resource.target \in Revisions
    BY <1>3 DEF Base, Link
  <2>3. resource' \in ResourceType
    BY <2>1, <2>2, SqlFacts, SqlStatusFacts DEF ResourceType
  <2>. QED  BY <1>1, <2>1, <2>2, <2>3, SqlFacts, SqlStatusFacts, BaseSqlBecomes
<1>. QED  BY <1>2, <1>3 DEF RollBackSql, ContinueRollBack

\* Scripts, tasks and what changes nothing of the stacks.
LEMMA BaseQuiet ==
    ASSUME Base, UNCHANGED <<stacks, resource, cdk, issued, overlapped>>,
           schema' \subseteq Versions, requested' \subseteq Revisions, tasks' \subseteq Revisions,
           failures' \in 0..MaxFailures
    PROVE  Base'
<1>1. TypeOK'
  BY DEF Base, TypeOK
<1>2. Shape' /\ Link' /\ Numbered'
  BY DEF Base, Shape, Status, Exists, Link, Numbered
<1>. QED  BY <1>1, <1>2 DEF Base

LEMMA BaseRunScript ==
    ASSUME Base, NEW r \in Revisions, NEW v \in Scripts[r], RunScript(v)
    PROVE  Base'
<1>1. /\ UNCHANGED <<stacks, tasks, cdk, issued, failures, overlapped>>
      /\ UNCHANGED <<resource, requested>> /\ schema' = schema \cup {v}
  BY DEF RunScript, Migrator!Migrate
<1>2. v \in Versions
  BY DEF Versions
<1>. QED  BY <1>1, <1>2, SqlFacts, BaseQuiet

LEMMA BaseTasks ==
    ASSUME Base, NEW r \in Revisions, StartTask(r) \/ StopTask(r)
    PROVE  Base'
<1>1. UNCHANGED <<stacks, resource, schema, requested, cdk, issued, overlapped>>
  BY DEF StartTask, StopTask, migrator
<1>2. tasks' \subseteq Revisions /\ failures' \in 0..MaxFailures
  BY DeploymentAssumption, SqlFacts DEF StartTask, StopTask
<1>. QED  BY <1>1, <1>2, SqlFacts, BaseQuiet

\* No step breaks the types, the shape or the link.
LEMMA BaseStep ==
    ASSUME Base, [Next]_vars
    PROVE  Base'
<1>1. ASSUME NEW c \in Shells, Command(c)  PROVE Base'
  <2>1. ASSUME NEW s \in Stacks, DeployStack(c, s) \/ DestroyStack(c, s)  PROVE Base'
    BY <2>1, BaseDeploy, BaseDestroy
  <2>2. CASE Collect(c) \/ End(c)
    BY <2>2, BaseCommand DEF Collect, End
  <2>. QED  BY <1>1, <2>1, <2>2 DEF Command
<1>2. ASSUME NEW c \in Shells, User(c)  PROVE Base'
  <2>1. CASE Interrupt(c)
    BY <2>1, BaseCommand DEF Interrupt
  <2>2. CASE (\E r \in Revisions : Start(c, "deploy", r)) \/ Start(c, "destroy", None)
    BY <2>2, BaseStart
  <2>. QED  BY <1>2, <2>1, <2>2 DEF User
<1>3. ASSUME NEW s \in Stacks, Operation(s)  PROVE Base'
  BY <1>3, BaseDeployed, BaseDeleted, BaseFailed DEF Operation
<1>4. CASE Migration
  BY <1>4, BaseMigrated, BaseMigrationFailed, BaseRollBack, BaseRunScript DEF Migration
<1>5. CASE ContinueRollBack
  BY <1>5, BaseRollBack
<1>6. CASE \E r \in Revisions : StartTask(r) \/ StopTask(r)
  BY <1>6, BaseTasks
<1>7. CASE UNCHANGED vars
  BY <1>7, SqlFacts, BaseQuiet DEF vars, migrator
<1>. QED  BY <1>1, <1>2, <1>3, <1>4, <1>5, <1>6, <1>7 DEF Next

\* Every variable keeps its type, and SqlStack always has the status of its
\* custom resource, through failures, rollbacks that fail and rollbacks that
\* are continued (springboot-app.ts, flyway-dbmigrator.ts:134-145).
THEOREM TypeCorrect == Spec => []TypeOK
<1>1. Spec => []Base
  BY BaseInit, BaseStep, PTL DEF Spec
<1>2. Base => TypeOK
  BY DEF Base
<1>. QED  BY <1>1, <1>2, PTL

-----------------------------------------------------------------------------
(***************************************************************************)
(* The order of the stacks, when nobody deploys while somebody destroys.   *)
(***************************************************************************)

\* What the steps of cdk make of a command.
LEMMA DoneFacts ==
    ASSUME Base, NEW c \in Shells, NEW s, Done(c, s)
    PROVE  /\ cdk'[c].goal = cdk[c].goal /\ cdk'[c].revision = cdk[c].revision
           /\ cdk'[c].left = cdk[c].left \ {s} /\ cdk'[c].at = None
           /\ \A d \in Shells : d # c => cdk'[d] = cdk[d]
BY DEF Base, TypeOK, CommandType, Done

LEMMA StopFacts ==
    ASSUME Base, NEW c \in Shells, Stop(c)
    PROVE  /\ cdk'[c].goal = "idle" /\ cdk'[c].at = None
           /\ \A d \in Shells : d # c => cdk'[d] = cdk[d]
BY DEF Base, TypeOK, CommandType, Stop, Idle

LEMMA TakeUpFacts ==
    ASSUME Base, NEW c \in Shells, NEW s \in Stacks, cdk' = [cdk EXCEPT ![c].at = s]
    PROVE  /\ cdk'[c].goal = cdk[c].goal /\ cdk'[c].revision = cdk[c].revision
           /\ cdk'[c].left = cdk[c].left /\ cdk'[c].at = s
           /\ \A d \in Shells : d # c => cdk'[d] = cdk[d]
BY DEF Base, TypeOK, CommandType

\* R is part of what the stacks need.
Referring(R) == \A t \in Stacks : R[t] \subseteq Sources(t)

LEMMA ReferringFacts ==
    /\ Referring(Imports) /\ Referring(SourcesOf)
    /\ \A t \in Stacks : SourcesOf[t] = Sources(t)
    /\ \A t \in Stacks : Sources(t) \subseteq Stacks \ {t, "Sql"}
<1>1. \A t \in Stacks : Imports[t] \subseteq Stacks
  BY DEF Imports, DatabaseImports, TesterImports, SqlImports, AppImports, AppServiceImports,
         Stacks
<1>2. \A t \in Stacks : Sources(t) \subseteq Stacks \ {t, "Sql"}
  BY SourcesFacts DEF Stacks
<1>. QED  BY <1>1, <1>2 DEF Referring, SourcesOf, Sources

\* The status of one stack changes, of one that exists.
LEMMA NeededMove ==
    ASSUME NEW R, Referring(R), Needed(R), NEW s \in Stacks, Status(s) # "none",
           \A t \in Stacks : t # s => Status(t)' = Status(t),
           s # "Sql" /\ Status(s) \notin {"creating", "deleting"} =>
               Status(s) = "updating" /\ Status(s)' = "live"
    PROVE  Needed(R)'
<1>. SUFFICES ASSUME NEW t \in Stacks, Status(t)' # "none", NEW u \in R[t]
              PROVE  Status(u)' \notin {"none", "creating", "deleting"}
  BY DEF Needed
<1>1. Status(t) # "none" /\ u \in Stacks /\ u # "Sql"
  BY ReferringFacts DEF Referring
<1>2. Status(u) \notin {"none", "creating", "deleting"}
  BY <1>1 DEF Needed
<1>. QED  BY <1>1, <1>2

\* A deploy makes of one stack one that is busy.
DeployBegins(c, s) ==
    /\ Deployable(c, s) /\ cdk[c].goal = "deploy"
    /\ cdk' = [cdk EXCEPT ![c].at = s]
    /\ \A t \in Stacks : t # s => stacks'[t] = stacks[t]
    /\ \/ Status(s) = "none" /\ Status(s)' = "creating"
       \/ Status(s) = "live" /\ Status(s)' = "updating"
    /\ stacks'[s].now = stacks[s].now
    /\ stacks'[s].next =
           [revision |-> cdk[c].revision, saw |-> Seen(s),
            born |-> IF Exists(s) THEN stacks[s].now.born ELSE cdk[c].number]

LEMMA DeployMoves ==
    ASSUME Base, NEW c \in Shells, NEW s \in Stacks, DeployStack(c, s)
    PROVE  /\ UNCHANGED <<schema, tasks>>
           /\ \/ stacks' = stacks /\ (Stop(c) \/ (Current(c, s) /\ Done(c, s)))
              \/ DeployBegins(c, s)
<1>. DEFINE next == [revision |-> cdk[c].revision, saw |-> Seen(s),
                     born |-> IF Exists(s) THEN stacks[s].now.born ELSE cdk[c].number]
<1>1. UNCHANGED <<schema, tasks>>
  BY DEF DeployStack, migrator, Migrator!Deploy, Migrator!Request
<1>2. CASE UNCHANGED <<stacks, migrator>> /\ (Stop(c) \/ (Current(c, s) /\ Done(c, s)))
  BY <1>1, <1>2
<1>3. CASE /\ Deployable(c, s)
           /\ cdk' = [cdk EXCEPT ![c].at = s]
           /\ Become(s, IF Exists(s) THEN "updating" ELSE "creating", stacks[s].now, next)
  <2>1. /\ Status(s)' = IF Exists(s) THEN "updating" ELSE "creating"
        /\ stacks'[s].now = stacks[s].now /\ stacks'[s].next = next
        /\ \A t \in Stacks : t # s => stacks'[t] = stacks[t]
    BY <1>3 DEF Base, TypeOK, Become, Status
  <2>2. Status(s) = "none" => ~Exists(s)
    BY AbsentFacts DEF Base, Shape, Exists
  <2>3. Status(s) = "live" => Exists(s)
    BY DEF Base, Shape
  <2>4. cdk[c].goal = "deploy"
    BY DEF DeployStack
  <2>. QED  BY <1>1, <1>3, <2>1, <2>2, <2>3, <2>4 DEF Deployable, Status, DeployBegins
<1>. QED  BY <1>1, <1>2, <1>3 DEF DeployStack

\* A destroy begins to delete one stack that nothing imports from.
DestroyBegins(c, s) ==
    /\ ~InUse(s) /\ cdk[c].goal = "destroy"
    /\ cdk' = [cdk EXCEPT ![c].at = s]
    /\ \A t \in Stacks : t # s => stacks'[t] = stacks[t]
    /\ Status(s) \in {"live", "stuck", "deleteFailed"} /\ Status(s)' = "deleting"
    /\ stacks'[s].now = stacks[s].now /\ stacks'[s].next = Absent

LEMMA DestroyMoves ==
    ASSUME Base, NEW c \in Shells, NEW s \in Stacks, DestroyStack(c, s)
    PROVE  /\ UNCHANGED <<schema, tasks>>
           /\ \/ stacks' = stacks /\ (Stop(c) \/ (Status(s) = "none" /\ Done(c, s)))
              \/ DestroyBegins(c, s)
<1>1. UNCHANGED <<schema, tasks>>
  BY DEF DestroyStack, migrator, Migrator!Destroy, Migrator!Request
<1>2. CASE UNCHANGED <<stacks, migrator>> /\ (Stop(c) \/ (Status(s) = "none" /\ Done(c, s)))
  BY <1>1, <1>2
<1>3. CASE /\ Status(s) \in {"live", "stuck", "deleteFailed"} /\ ~InUse(s)
           /\ cdk' = [cdk EXCEPT ![c].at = s]
           /\ Become(s, "deleting", stacks[s].now, Absent)
  BY <1>1, <1>3 DEF DestroyBegins, DestroyStack, Base, TypeOK, Become, Status
<1>. QED  BY <1>1, <1>2, <1>3 DEF DestroyStack, Status

LEMMA NeededDeploy ==
    ASSUME NEW R, Referring(R), Base, Needed(R), NEW c \in Shells, NEW s \in Stacks,
           DeployBegins(c, s)
    PROVE  Needed(R)'
<1>. SUFFICES ASSUME NEW t \in Stacks, Status(t)' # "none", NEW u \in R[t]
              PROVE  Status(u)' \notin {"none", "creating", "deleting"}
  BY DEF Needed
<1>1. u \in Stacks /\ u \in Sources(t)
  BY ReferringFacts DEF Referring
<1>2. \/ Status(s) = "none" /\ Status(s)' = "creating"
      \/ Status(s) = "live" /\ Status(s)' = "updating"
  BY DEF DeployBegins
<1>3. \A v \in Stacks : v # s => Status(v)' = Status(v)
  BY DEF DeployBegins, Status
<1>4. CASE t = s
  <2>1. Exists(u) /\ Status(u) # "deleting"
    BY <1>1, <1>4 DEF DeployBegins, Deployable, Available, Status
  <2>2. Status(u) \notin {"none", "creating"}
    BY <1>1, <2>1, AbsentFacts DEF Base, Shape, Exists
  <2>. QED  BY <1>1, <1>2, <1>3, <2>1, <2>2
<1>5. CASE t # s
  <2>1. Status(u) \notin {"none", "creating", "deleting"}
    BY <1>3, <1>5 DEF Needed
  <2>. QED  BY <1>1, <1>2, <1>3, <2>1
<1>. QED  BY <1>4, <1>5

LEMMA NeededDestroy ==
    ASSUME NEW R, Referring(R), Base, Needed(R), NEW c \in Shells, NEW s \in Stacks,
           DestroyBegins(c, s),
           \A t \in Stacks : s \in R[t] => Status(t) = "none"
    PROVE  Needed(R)'
<1>. SUFFICES ASSUME NEW t \in Stacks, Status(t)' # "none", NEW u \in R[t]
              PROVE  Status(u)' \notin {"none", "creating", "deleting"}
  BY DEF Needed
<1>1. u \in Stacks
  BY ReferringFacts DEF Referring
<1>2. Status(s) # "none" /\ \A v \in Stacks : v # s => Status(v)' = Status(v)
  BY DEF DestroyBegins, Status
<1>3. Status(t) # "none"
  BY <1>2
<1>4. u # s /\ Status(u) \notin {"none", "creating", "deleting"}
  BY <1>3 DEF Needed
<1>. QED  BY <1>1, <1>2, <1>4

\* A command starts.
LEMMA OrderStart ==
    ASSUME Base, OrderInv, ~overlapped', NEW c \in Shells, NEW goal \in {"deploy", "destroy"},
           NEW r, Start(c, goal, r)
    PROVE  OrderInv'
<1>1. /\ cdk'[c].goal = goal /\ cdk'[c].left = Stacks /\ cdk'[c].at = None
      /\ \A d \in Shells : d # c => cdk'[d] = cdk[d]
      /\ \A d \in Shells : cdk[d].goal \in {"idle", goal}
      /\ stacks' = stacks
  BY DEF Base, TypeOK, Start
<1>2. Alone'
  BY <1>1 DEF OrderInv, Alone
<1>3. Ordered'
  BY <1>1 DEF OrderInv, Ordered
<1>4. Progress'
  BY <1>1 DEF OrderInv, Progress, Status
<1>5. Needed(SourcesOf)'
  BY <1>1 DEF OrderInv, Needed, Status
<1>. QED  BY <1>2, <1>3, <1>4, <1>5 DEF OrderInv

\* A command has done with a stack.
LEMMA OrderDone ==
    ASSUME Base, OrderInv, NEW c \in Shells, NEW s \in Stacks, Done(c, s), stacks' = stacks,
           cdk[c].goal = "deploy" =>
               Order(s) \cap cdk[c].left = {} /\ (s # "Sql" => Status(s) = "live"),
           cdk[c].goal = "destroy" => Status(s) = "none"
    PROVE  OrderInv'
<1>1. Alone'
  BY DoneFacts DEF OrderInv, Alone
<1>2. Ordered'
  BY DoneFacts DEF OrderInv, Ordered
<1>3. Progress'
  BY DoneFacts DEF OrderInv, Progress, Status
<1>4. Needed(SourcesOf)'
  BY DEF OrderInv, Needed, Status
<1>. QED  BY <1>1, <1>2, <1>3, <1>4 DEF OrderInv

LEMMA OrderStop ==
    ASSUME Base, OrderInv, NEW c \in Shells, Stop(c), stacks' = stacks
    PROVE  OrderInv'
<1>1. Alone' /\ Ordered'
  BY StopFacts DEF OrderInv, Alone, Ordered
<1>2. Progress' /\ Needed(SourcesOf)'
  BY StopFacts DEF OrderInv, Progress, Needed, Status
<1>. QED  BY <1>1, <1>2 DEF OrderInv

\* The status of one stack changes, of one that exists.
LEMMA OrderMove ==
    ASSUME OrderInv, NEW s \in Stacks, Status(s) # "none", UNCHANGED cdk,
           \A t \in Stacks : t # s => Status(t)' = Status(t),
           s # "Sql" /\ Status(s) \notin {"creating", "deleting"} =>
               Status(s) = "updating" /\ Status(s)' = "live"
    PROVE  OrderInv'
<1>1. Alone' /\ Ordered'
  BY DEF OrderInv, Alone, Ordered
<1>2. Progress'
  BY DEF OrderInv, Progress
<1>3. Needed(SourcesOf)'
  BY NeededMove, ReferringFacts DEF OrderInv
<1>. QED  BY <1>1, <1>2, <1>3 DEF OrderInv

\* A deploy of a stack begins.
LEMMA OrderDeploy ==
    ASSUME Base, OrderInv, NEW c \in Shells, NEW s \in Stacks, DeployStack(c, s)
    PROVE  OrderInv'
<1>1. Order(s) \cap cdk[c].left = {} /\ s \in cdk[c].left /\ cdk[c].goal = "deploy"
  BY DEF DeployStack, Ready
<1>2. CASE stacks' = stacks /\ Current(c, s) /\ Done(c, s)
  BY <1>1, <1>2, OrderDone DEF Current, Status
<1>3. CASE stacks' = stacks /\ Stop(c)
  BY <1>3, OrderStop
<1>4. CASE DeployBegins(c, s)
  <2>1. /\ cdk' = [cdk EXCEPT ![c].at = s]
        /\ \A t \in Stacks : t # s => Status(t)' = Status(t)
        /\ \/ Status(s) = "none" /\ Status(s)' = "creating"
           \/ Status(s) = "live" /\ Status(s)' = "updating"
    BY <1>4 DEF DeployBegins, Status
  <2>2. Alone'
    BY <2>1, TakeUpFacts DEF OrderInv, Alone
  <2>3. Ordered'
    BY <1>1, <2>1, TakeUpFacts DEF OrderInv, Ordered
  <2>4. Progress'
    <3>. SUFFICES ASSUME NEW d \in Shells, NEW t \in Stacks \ cdk'[d].left
                  PROVE  /\ cdk'[d].goal = "deploy" /\ t # "Sql" => Status(t)' \in {"live", "updating"}
                         /\ cdk'[d].goal = "destroy" => Status(t)' = "none"
      BY DEF Progress
    <3>1. cdk'[d].goal = cdk[d].goal /\ cdk'[d].left = cdk[d].left
      BY <2>1, TakeUpFacts
    <3>2. cdk[d].goal = "deploy" /\ t # "Sql" => Status(t) \in {"live", "updating"}
      BY <3>1 DEF OrderInv, Progress
    <3>3. cdk[d].goal # "destroy"
      BY <1>1 DEF OrderInv, Alone
    <3>. QED  BY <2>1, <3>1, <3>2, <3>3
  <2>5. Needed(SourcesOf)'
    BY <1>4, NeededDeploy, ReferringFacts DEF OrderInv
  <2>. QED  BY <2>2, <2>3, <2>4, <2>5 DEF OrderInv
<1>. QED  BY <1>2, <1>3, <1>4, DeployMoves

\* The deletion of a stack begins: nothing needs it any more.
LEMMA OrderDestroy ==
    ASSUME Base, OrderInv, NEW c \in Shells, NEW s \in Stacks, DestroyStack(c, s)
    PROVE  OrderInv'
<1>1. /\ cdk[c].goal = "destroy"
      /\ \A t \in cdk[c].left : s \notin Order(t)
  BY DEF DestroyStack, Ready
<1>2. CASE stacks' = stacks /\ Status(s) = "none" /\ Done(c, s)
  BY <1>1, <1>2, OrderDone
<1>3. CASE stacks' = stacks /\ Stop(c)
  BY <1>3, OrderStop
<1>4. CASE DestroyBegins(c, s)
  <2>1. /\ cdk' = [cdk EXCEPT ![c].at = s]
        /\ Status(s) # "none" /\ \A t \in Stacks : t # s => Status(t)' = Status(t)
    BY <1>4 DEF DestroyBegins, Status
  <2>2. Alone'
    BY <2>1, TakeUpFacts DEF OrderInv, Alone
  <2>3. Ordered'
    BY <1>1, <2>1, TakeUpFacts DEF OrderInv, Ordered
  <2>4. Progress'
    <3>. SUFFICES ASSUME NEW d \in Shells, NEW t \in Stacks \ cdk'[d].left
                  PROVE  /\ cdk'[d].goal = "deploy" /\ t # "Sql" => Status(t)' \in {"live", "updating"}
                         /\ cdk'[d].goal = "destroy" => Status(t)' = "none"
      BY DEF Progress
    <3>1. cdk'[d].goal = cdk[d].goal /\ cdk'[d].left = cdk[d].left
      BY <2>1, TakeUpFacts
    <3>2. cdk[d].goal # "deploy"
      BY <1>1 DEF OrderInv, Alone
    <3>3. cdk[d].goal = "destroy" => Status(t) = "none"
      BY <3>1 DEF OrderInv, Progress
    <3>. QED  BY <2>1, <3>1, <3>2, <3>3
  <2>5. ASSUME NEW t \in Stacks, s \in SourcesOf[t]  PROVE Status(t) = "none"
    <3>1. s \in Sources(t)
      BY <2>5 DEF SourcesOf
    <3>2. CASE s \in Imports[t]
      BY <1>4, <3>2 DEF DestroyBegins, InUse, Status
    <3>3. CASE s \notin Imports[t]
      <4>1. s = "Foundation" /\ t = "Database"
        BY <3>1, <3>3, OrderFacts
      <4>2. s \in Order(t)
        BY <4>1, SourcesFacts
      <4>3. t \notin cdk[c].left
        BY <1>1, <4>2
      <4>. QED  BY <1>1, <2>5, <4>3 DEF OrderInv, Progress
    <3>. QED  BY <3>2, <3>3
  <2>6. Needed(SourcesOf)'
    BY <1>4, <2>5, NeededDestroy, ReferringFacts DEF OrderInv
  <2>. QED  BY <2>2, <2>3, <2>4, <2>6 DEF OrderInv
<1>. QED  BY <1>2, <1>3, <1>4, DestroyMoves

\* What one operation of CloudFormation changes of the stacks.
LEMMA OperationMoves ==
    ASSUME Base, NEW s \in Stacks, Operation(s)
    PROVE  /\ s # "Sql" /\ UNCHANGED <<resource, requested, cdk>>
           /\ \A t \in Stacks : t # s => stacks'[t] = stacks[t]
           /\ \/ /\ Status(s) \in {"creating", "updating"} /\ Status(s)' = "live"
                 /\ stacks'[s].now = stacks[s].next /\ stacks'[s].next = Absent
              \/ /\ Status(s) \in {"creating", "deleting"} /\ Status(s)' = "none"
                 /\ stacks'[s].now = Absent /\ stacks'[s].next = Absent
              \/ /\ Status(s) = "updating" /\ Status(s)' = "live"
                 /\ stacks'[s].now = stacks[s].now /\ stacks'[s].next = Absent
              \/ /\ Status(s) = "deleting" /\ Status(s)' = "deleteFailed"
                 /\ stacks'[s].now = stacks[s].now /\ stacks'[s].next = Absent
<1>. stacks \in [Stacks -> StackType]
  BY DEF Base, TypeOK
<1>1. CASE Deployed(s)
  BY <1>1 DEF Deployed, Become, Status, migrator
<1>2. CASE Deleted(s)
  BY <1>2 DEF Deleted, Become, Status
<1>3. CASE Failed(s)
  BY <1>3 DEF Failed, Become, Status, migrator
<1>. QED  BY <1>1, <1>2, <1>3 DEF Operation

\* What the custom resource changes of them: SqlStack, which exists.
LEMMA SqlMoves ==
    ASSUME Base, Migrated \/ MigrationFailed \/ RollBackSql \/ ContinueRollBack
    PROVE  /\ UNCHANGED <<schema, tasks, cdk>>
           /\ Status("Sql") # "none"
           /\ \A t \in Stacks : t # "Sql" => stacks'[t] = stacks[t]
           /\ Status("Sql")' = SqlStatus[resource'.status]
           /\ stacks'["Sql"].next \in {stacks["Sql"].next, Absent}
           /\ \/ stacks'["Sql"].now = stacks["Sql"].now
              \/ stacks'["Sql"].now = Absent
              \/ /\ resource.status \in {"creating", "updating"}
                 /\ stacks'["Sql"].now = stacks["Sql"].next
                 /\ Scripts[resource.target] \subseteq schema
<1>1. "Sql" \in Stacks /\ stacks \in [Stacks -> StackType]
  BY DEF Base, TypeOK, Stacks
<1>2. resource.status # "none" /\ resource.status # "live"
  BY DEF Migrated, MigrationFailed, RollBackSql, ContinueRollBack, Migrator!Succeed,
         Migrator!Fail, Migrator!Open
<1>3. Status("Sql") # "none"
  BY <1>2, SqlFacts, SqlStatusFacts DEF Base, TypeOK, Status
<1>4. UNCHANGED <<schema, tasks, cdk>>
  BY DEF Migrated, MigrationFailed, RollBackSql, ContinueRollBack, Migrator!Succeed,
         Migrator!Fail, Migrator!RollBack, Migrator!Destroy, Migrator!Request
<1>5. ASSUME NEW now, SqlBecomes(now)
      PROVE  /\ \A t \in Stacks : t # "Sql" => stacks'[t] = stacks[t]
             /\ Status("Sql")' = SqlStatus[resource'.status]
             /\ stacks'["Sql"].next \in {stacks["Sql"].next, Absent}
             /\ stacks'["Sql"].now = now
  <2>. DEFINE status == SqlStatus[resource'.status]
              next == IF status \in Busy THEN stacks["Sql"].next ELSE Absent
  <2>1. Become("Sql", status, now, next) /\ next \in {stacks["Sql"].next, Absent}
    BY <1>5 DEF SqlBecomes
  <2>. HIDE DEF status, next
  <2>2. /\ \A t \in Stacks : t # "Sql" => stacks'[t] = stacks[t]
        /\ stacks'["Sql"] = [status |-> status, now |-> now, next |-> next]
    BY <1>1, <2>1 DEF Become
  <2>. QED  BY <2>1, <2>2 DEF Status, status
<1>6. CASE Migrated
  <2>. DEFINE now == CASE resource.status \in {"creating", "updating"} -> stacks["Sql"].next
                       [] resource.status = "deleting" -> Absent
                       [] OTHER -> stacks["Sql"].now
  <2>1. SqlBecomes(now)
    BY <1>6 DEF Migrated
  <2>2. \/ now = stacks["Sql"].now \/ now = Absent
        \/ /\ resource.status \in {"creating", "updating"} /\ now = stacks["Sql"].next
           /\ Scripts[resource.target] \subseteq schema
    BY <1>6 DEF Migrated, Migrator!Succeed
  <2>. HIDE DEF now
  <2>. QED  BY <1>3, <1>4, <1>5, <2>1, <2>2
<1>7. CASE SqlBecomes(stacks["Sql"].now)
  BY <1>3, <1>4, <1>5, <1>7
<1>. QED  BY <1>6, <1>7 DEF MigrationFailed, RollBackSql, ContinueRollBack

LEMMA OrderInit == Init => OrderInv
BY DEF Init, OrderInv, Alone, Ordered, Progress, Needed, Status, Idle

LEMMA OrderStep ==
    ASSUME Base, OrderInv, ~overlapped', [Next]_vars
    PROVE  OrderInv'
<1>1. ASSUME NEW c \in Shells, Command(c)  PROVE OrderInv'
  <2>1. ASSUME NEW s \in Stacks, DeployStack(c, s) \/ DestroyStack(c, s)  PROVE OrderInv'
    BY <2>1, OrderDeploy, OrderDestroy
  <2>2. CASE Collect(c)
    <3>. DEFINE s == cdk[c].at
    <3>1. /\ s # None /\ s \in Stacks /\ stacks' = stacks
          /\ cdk[c].goal = "deploy" => Order(s) \cap cdk[c].left = {}
      BY <2>2 DEF Collect, Base, TypeOK, CommandType, OrderInv, Ordered
    <3>2. \/ /\ Done(c, s)
             /\ cdk[c].goal = "deploy" => Status(s) = "live"
             /\ cdk[c].goal = "destroy" => Status(s) = "none"
          \/ Stop(c)
      BY <2>2 DEF Collect, Status
    <3>. HIDE DEF s
    <3>. QED  BY <3>1, <3>2, OrderDone, OrderStop
  <2>3. CASE End(c)
    BY <2>3, OrderStop DEF End
  <2>. QED  BY <1>1, <2>1, <2>2, <2>3 DEF Command
<1>2. ASSUME NEW c \in Shells, User(c)  PROVE OrderInv'
  BY <1>2, OrderStart, OrderStop DEF User, Interrupt
<1>3. ASSUME NEW s \in Stacks, Operation(s)  PROVE OrderInv'
  <2>1. /\ s # "Sql" /\ Status(s) # "none" /\ UNCHANGED cdk
        /\ \A t \in Stacks : t # s => Status(t)' = Status(t)
        /\ Status(s) \notin {"creating", "deleting"} =>
               Status(s) = "updating" /\ Status(s)' = "live"
    BY <1>3, OperationMoves DEF Status
  <2>. QED  BY <2>1, OrderMove
<1>4. CASE Migrated \/ MigrationFailed \/ RollBackSql \/ ContinueRollBack
  <2>1. /\ Status("Sql") # "none" /\ UNCHANGED cdk /\ "Sql" \in Stacks
        /\ \A t \in Stacks : t # "Sql" => Status(t)' = Status(t)
    BY <1>4, SqlMoves, SqlFacts DEF Status
  <2>. QED  BY <2>1, OrderMove
<1>5. CASE UNCHANGED <<stacks, cdk>>
  <2>1. Alone' /\ Ordered'
    BY <1>5 DEF OrderInv, Alone, Ordered
  <2>2. Progress' /\ Needed(SourcesOf)'
    BY <1>5 DEF OrderInv, Progress, Needed, Status
  <2>. QED  BY <2>1, <2>2 DEF OrderInv
<1>. QED  BY <1>1, <1>2, <1>3, <1>4, <1>5
     DEF Next, Migration, RunScript, StartTask, StopTask, vars

-----------------------------------------------------------------------------
(***************************************************************************)
(* What stacks got of each other.                                          *)
(***************************************************************************)

LEMMA FreshInit ==
    ASSUME NEW R, Init
    PROVE  Fresh(R) /\ Needed(R)
BY AbsentFacts DEF Init, Fresh, Needed, Status, Exists

\* One stack changes, and keeps what it is for those that need it.
LEMMA FreshMove ==
    ASSUME NEW R, Referring(R), Base, Needed(R), Fresh(R), NEW s \in Stacks,
           \A t \in Stacks : t # s => stacks'[t] = stacks[t],
           s # "Sql" /\ Status(s) \notin {"none", "creating", "deleting"} =>
               stacks'[s].now.born = stacks[s].now.born,
           s # "Sql" /\ Status(s)' = "updating" =>
               stacks'[s].next.born = stacks'[s].now.born,
           \A t \in R[s] :
               /\ stacks'[s].now.born # 0 => stacks'[s].now.saw[t] = stacks[t].now.born
               /\ stacks'[s].next.born # 0 => stacks'[s].next.saw[t] = stacks[t].now.born
    PROVE  Fresh(R)'
<1>. SUFFICES ASSUME NEW u \in Stacks
              PROVE  /\ u # "Sql" /\ Status(u)' = "updating" =>
                            stacks'[u].next.born = stacks'[u].now.born
                     /\ \A t \in R[u] :
                          /\ Exists(u)' => stacks'[u].now.saw[t] = stacks'[t].now.born
                          /\ stacks'[u].next.born # 0 =>
                                 stacks'[u].next.saw[t] = stacks'[t].now.born
  BY DEF Fresh
<1>1. u # "Sql" /\ Status(u)' = "updating" => stacks'[u].next.born = stacks'[u].now.born
  BY DEF Fresh, Status
<1>2. ASSUME NEW t \in R[u]
      PROVE  /\ Exists(u)' => stacks'[u].now.saw[t] = stacks'[t].now.born
             /\ stacks'[u].next.born # 0 => stacks'[u].next.saw[t] = stacks'[t].now.born
  <2>1. t \in Stacks /\ t # "Sql" /\ t # u
    BY ReferringFacts DEF Referring
  <2>2. CASE u = s
    BY <2>1, <2>2 DEF Exists
  <2>3. CASE u # s /\ Status(u) = "none"
    <3>1. stacks'[u].now.born = 0 /\ stacks'[u].next.born = 0
      BY <2>3, AbsentFacts DEF Base, Shape
    <3>. QED  BY <3>1 DEF Exists
  <2>4. CASE u # s /\ Status(u) # "none"
    <3>1. Status(t) \notin {"none", "creating", "deleting"}
      BY <2>4 DEF Needed
    <3>2. stacks'[t].now.born = stacks[t].now.born
      BY <2>1, <3>1
    <3>. QED  BY <2>4, <3>2 DEF Fresh, Exists
  <2>. QED  BY <2>2, <2>3, <2>4
<1>. QED  BY <1>1, <1>2

LEMMA FreshDeploy ==
    ASSUME NEW R, Referring(R), Base, Needed(R), Fresh(R), NEW c \in Shells, NEW s \in Stacks,
           DeployBegins(c, s)
    PROVE  Fresh(R)'
<1>1. \A t \in R[s] : Seen(s)[t] = stacks[t].now.born
  BY ReferringFacts DEF Seen, Referring
<1>2. /\ Status(s)' = "updating" => stacks'[s].next.born = stacks'[s].now.born
      /\ stacks'[s].now = stacks[s].now /\ stacks'[s].next.saw = Seen(s)
  <2>1. Status(s)' = "updating" => Exists(s)
    BY DEF DeployBegins, Base, Shape
  <2>. QED  BY <2>1 DEF DeployBegins
<1>3. \A t \in R[s] :
         /\ stacks'[s].now.born # 0 => stacks'[s].now.saw[t] = stacks[t].now.born
         /\ stacks'[s].next.born # 0 => stacks'[s].next.saw[t] = stacks[t].now.born
  BY <1>1, <1>2 DEF Fresh, Exists
<1>4. \A t \in Stacks : t # s => stacks'[t] = stacks[t]
  BY DEF DeployBegins
<1>. QED  BY <1>2, <1>3, <1>4, FreshMove

LEMMA FreshDestroy ==
    ASSUME NEW R, Referring(R), Base, Needed(R), Fresh(R), NEW c \in Shells, NEW s \in Stacks,
           DestroyBegins(c, s)
    PROVE  Fresh(R)'
<1>1. \A t \in R[s] :
         /\ stacks'[s].now.born # 0 => stacks'[s].now.saw[t] = stacks[t].now.born
         /\ stacks'[s].next.born # 0 => stacks'[s].next.saw[t] = stacks[t].now.born
  BY AbsentFacts DEF DestroyBegins, Fresh, Exists
<1>. QED  BY <1>1, FreshMove DEF DestroyBegins

LEMMA FreshOperation ==
    ASSUME NEW R, Referring(R), Base, Needed(R), Fresh(R), NEW s \in Stacks, Operation(s)
    PROVE  Fresh(R)'
<1>1. Status(s)' # "updating" /\ stacks'[s].next.born = 0
  BY OperationMoves, AbsentFacts
<1>2. Status(s) \in {"creating", "updating"} /\ s # "Sql" => stacks[s].next.born # 0
  BY DEF Base, Shape
<1>3. Status(s) \notin {"none", "creating", "deleting"} =>
          stacks'[s].now.born = stacks[s].now.born
  BY <1>2, OperationMoves DEF Fresh
<1>4. \A t \in R[s] :
         stacks'[s].now.born # 0 => stacks'[s].now.saw[t] = stacks[t].now.born
  BY OperationMoves, AbsentFacts DEF Fresh, Exists
<1>. QED  BY <1>1, <1>3, <1>4, OperationMoves, FreshMove

LEMMA FreshSql ==
    ASSUME NEW R, Referring(R), Base, Needed(R), Fresh(R),
           Migrated \/ MigrationFailed \/ RollBackSql \/ ContinueRollBack
    PROVE  Fresh(R)'
<1>1. \A t \in R["Sql"] :
         /\ stacks'["Sql"].now.born # 0 => stacks'["Sql"].now.saw[t] = stacks[t].now.born
         /\ stacks'["Sql"].next.born # 0 => stacks'["Sql"].next.saw[t] = stacks[t].now.born
  BY SqlMoves, SqlFacts, AbsentFacts DEF Fresh, Exists
<1>. QED  BY <1>1, SqlMoves, SqlFacts, FreshMove

LEMMA FreshStep ==
    ASSUME NEW R, Referring(R), Base, Needed(R), Fresh(R), [Next]_vars
    PROVE  Fresh(R)'
<1>1. CASE UNCHANGED stacks
  BY <1>1 DEF Fresh, Status, Exists
<1>2. ASSUME NEW c \in Shells, NEW s \in Stacks, DeployStack(c, s)  PROVE Fresh(R)'
  BY <1>1, <1>2, DeployMoves, FreshDeploy
<1>3. ASSUME NEW c \in Shells, NEW s \in Stacks, DestroyStack(c, s)  PROVE Fresh(R)'
  BY <1>1, <1>3, DestroyMoves, FreshDestroy
<1>. QED  BY <1>1, <1>2, <1>3, FreshOperation, FreshSql
     DEF Next, Command, User, Start, Collect, End, Interrupt, Migration, RunScript,
         StartTask, StopTask, vars

\* A reference keeps what it refers to without the help of the shells.
LEMMA NeededImports ==
    ASSUME Base, Needed(Imports), [Next]_vars
    PROVE  Needed(Imports)'
<1>1. CASE UNCHANGED stacks
  BY <1>1 DEF Needed, Status
<1>2. ASSUME NEW c \in Shells, NEW s \in Stacks, DeployStack(c, s)  PROVE Needed(Imports)'
  BY <1>1, <1>2, DeployMoves, NeededDeploy, ReferringFacts
<1>3. ASSUME NEW c \in Shells, NEW s \in Stacks, DestroyStack(c, s)  PROVE Needed(Imports)'
  <2>1. CASE DestroyBegins(c, s)
    <3>1. \A t \in Stacks : s \in Imports[t] => Status(t) = "none"
      BY <2>1 DEF DestroyBegins, InUse, Status
    <3>. QED  BY <2>1, <3>1, NeededDestroy, ReferringFacts
  <2>. QED  BY <1>1, <1>3, <2>1, DestroyMoves
<1>4. ASSUME NEW s \in Stacks, Operation(s)  PROVE Needed(Imports)'
  <2>1. /\ s # "Sql" /\ Status(s) # "none"
        /\ \A t \in Stacks : t # s => Status(t)' = Status(t)
        /\ Status(s) \notin {"creating", "deleting"} =>
               Status(s) = "updating" /\ Status(s)' = "live"
    BY <1>4, OperationMoves DEF Status
  <2>. QED  BY <2>1, NeededMove, ReferringFacts
<1>5. CASE Migrated \/ MigrationFailed \/ RollBackSql \/ ContinueRollBack
  <2>1. /\ Status("Sql") # "none" /\ "Sql" \in Stacks
        /\ \A t \in Stacks : t # "Sql" => Status(t)' = Status(t)
    BY <1>5, SqlMoves, SqlFacts DEF Status
  <2>. QED  BY <2>1, NeededMove, ReferringFacts
<1>. QED  BY <1>1, <1>2, <1>3, <1>4, <1>5
     DEF Next, Command, User, Start, Collect, End, Interrupt, Migration, RunScript,
         StartTask, StopTask, vars

\* The schema behind SqlStack: only the end of the cluster takes scripts away.
LEMMA MigratedStep ==
    ASSUME Base, Needed(Imports), SqlIsMigrated, [Next]_vars
    PROVE  SqlIsMigrated'
<1>0. "Sql" \in Stacks
  BY DEF Stacks
<1>1. CASE schema \subseteq schema' /\ stacks'["Sql"].now = stacks["Sql"].now
  BY <1>1 DEF SqlIsMigrated, Exists
<1>2. CASE stacks'["Sql"].now = Absent
  BY <1>2, AbsentFacts DEF SqlIsMigrated, Exists
<1>3. ASSUME NEW c \in Shells, NEW s \in Stacks, DeployStack(c, s) \/ DestroyStack(c, s)
      PROVE  SqlIsMigrated'
  BY <1>0, <1>1, <1>3, DeployMoves, DestroyMoves DEF DeployBegins, DestroyBegins
<1>4. ASSUME NEW s \in Stacks, Operation(s)  PROVE SqlIsMigrated'
  <2>1. stacks'["Sql"] = stacks["Sql"]
    BY <1>0, <1>4, OperationMoves
  <2>2. CASE schema' = schema
    BY <1>1, <2>1, <2>2
  <2>3. CASE schema' # schema
    <3>1. Status("Database") = "deleting"
      BY <1>4, <2>3 DEF Operation, Deployed, Deleted, Failed, migrator, Status
    <3>2. Status("Sql") = "none"
      BY <1>0, <3>1 DEF Needed, Imports, SqlImports
    <3>. QED  BY <1>0, <1>2, <2>1, <3>2 DEF Base, Shape
  <2>. QED  BY <2>2, <2>3
<1>5. CASE Migrated \/ MigrationFailed \/ RollBackSql \/ ContinueRollBack
  <2>1. CASE /\ resource.status \in {"creating", "updating"}
             /\ stacks'["Sql"].now = stacks["Sql"].next
             /\ Scripts[resource.target] \subseteq schema
    <3>1. stacks["Sql"].next.revision = resource.target /\ schema' = schema
      BY <1>5, <2>1, SqlMoves DEF Base, Link
    <3>. QED  BY <2>1, <3>1 DEF SqlIsMigrated
  <2>. QED  BY <1>1, <1>2, <1>5, <2>1, SqlMoves
<1>6. ASSUME NEW v, RunScript(v)  PROVE SqlIsMigrated'
  BY <1>1, <1>6 DEF RunScript, Migrator!Migrate
<1>7. CASE UNCHANGED <<stacks, schema>>
  BY <1>1, <1>7
<1>. QED  BY <1>3, <1>4, <1>5, <1>6, <1>7
     DEF Next, Command, User, Start, Collect, End, Interrupt, Migration,
         StartTask, StopTask, vars, migrator

-----------------------------------------------------------------------------
(***************************************************************************)
(* The schema and the service.                                             *)
(***************************************************************************)

LEMMA SchemaInit == Init => SchemaInv
BY AbsentFacts, DeploymentAssumption
DEF Init, SchemaInv, Serving, Status, Stacks, Idle, Migrator!Init

\* Scripts are only added, the service is what it was.
LEMMA SchemaKept ==
    ASSUME SchemaInv, schema \subseteq schema',
           Serving' = Serving, tasks' \subseteq Serving,
           \A c \in Shells : cdk'[c].goal = "deploy" /\ "Sql" \notin cdk'[c].left =>
               \/ /\ cdk[c].goal = "deploy" /\ "Sql" \notin cdk[c].left
                  /\ cdk'[c].revision = cdk[c].revision
               \/ Scripts[cdk'[c].revision] \subseteq schema
    PROVE  SchemaInv'
<1>1. \A c \in Shells : cdk'[c].goal = "deploy" /\ "Sql" \notin cdk'[c].left =>
          Scripts[cdk'[c].revision] \subseteq schema'
  BY DEF SchemaInv
<1>2. \A r \in Serving' : Scripts[r] \subseteq schema'
  BY DEF SchemaInv
<1>. QED  BY <1>1, <1>2 DEF SchemaInv

LEMMA SchemaStart ==
    ASSUME Base, SchemaInv, NEW c \in Shells, NEW goal, NEW r, Start(c, goal, r)
    PROVE  SchemaInv'
<1>1. /\ cdk'[c].left = Stacks
      /\ \A d \in Shells : d # c => cdk'[d] = cdk[d]
      /\ UNCHANGED <<stacks, schema, tasks>>
  BY DEF Base, TypeOK, Start, migrator
<1>2. "Sql" \in Stacks /\ Serving' = Serving
  BY <1>1 DEF Stacks, Serving
<1>. QED  BY <1>1, <1>2, SchemaKept DEF SchemaInv

LEMMA SchemaDone ==
    ASSUME Base, SchemaInv, SqlIsMigrated, NEW c \in Shells, NEW s, UNCHANGED <<stacks, schema, tasks>>,
           \/ /\ Done(c, s)
              /\ cdk[c].goal = "deploy" /\ s = "Sql" =>
                     /\ Status(s) = "live"
                     /\ Scripts[stacks[s].now.revision] = Scripts[cdk[c].revision]
           \/ Stop(c)
    PROVE  SchemaInv'
<1>1. Serving' = Serving
  BY DEF Serving
<1>2. CASE Stop(c)
  BY <1>1, <1>2, StopFacts, SchemaKept DEF SchemaInv
<1>3. CASE /\ Done(c, s)
           /\ cdk[c].goal = "deploy" /\ s = "Sql" =>
                  /\ Status(s) = "live"
                  /\ Scripts[stacks[s].now.revision] = Scripts[cdk[c].revision]
  <2>1. cdk[c].goal = "deploy" /\ s = "Sql" => Scripts[cdk[c].revision] \subseteq schema
    BY <1>3 DEF SqlIsMigrated, Base, Shape, Stacks
  <2>. QED  BY <1>1, <1>3, <2>1, DoneFacts, SchemaKept DEF SchemaInv
<1>. QED  BY <1>2, <1>3

LEMMA SchemaDeploy ==
    ASSUME Base, OrderInv, SchemaInv, SqlIsMigrated, NEW c \in Shells, NEW s \in Stacks,
           DeployStack(c, s)
    PROVE  SchemaInv'
<1>1. UNCHANGED <<schema, tasks>>
  BY DeployMoves
<1>2. CASE stacks' = stacks /\ (Stop(c) \/ (Current(c, s) /\ Done(c, s)))
  <2>1. CASE Stop(c)
    BY <1>1, <1>2, <2>1, SchemaDone
  <2>2. CASE Current(c, s) /\ Done(c, s)
    <3>1. CASE s = "Sql"
      <4>1. Status(s) = "live" /\ Template[s][stacks[s].now.revision] = Template[s][cdk[c].revision]
        BY <2>2 DEF Current, Status
      <4>2. resource.status = "live"
        BY <3>1, <4>1 DEF Base, TypeOK, ResourceType, Status, SqlStatus
      <4>3. stacks[s].now.revision \in Revisions /\ cdk[c].revision \in Revisions
        BY <3>1, <4>2 DEF DeployStack, Base, Link, Numbered
      <4>. QED  BY <1>1, <1>2, <2>2, <3>1, <4>1, <4>3, SchemaDone, DeploymentAssumption
                DEF DeploymentAssumption
    <3>2. CASE s # "Sql"
      BY <1>1, <1>2, <2>2, <3>2, SchemaDone
    <3>. QED  BY <3>1, <3>2
  <2>. QED  BY <1>2, <2>1, <2>2
<1>3. CASE DeployBegins(c, s)
  <2>1. /\ stacks'[s].now = stacks[s].now
        /\ stacks'[s].next.revision = cdk[c].revision
        /\ \A t \in Stacks : t # s => stacks'[t] = stacks[t]
    BY <1>3 DEF DeployBegins
  <2>2. "App" \in Stacks
    BY DEF Stacks
  <2>3. \A d \in Shells : /\ cdk'[d].goal = cdk[d].goal /\ cdk'[d].left = cdk[d].left
                          /\ cdk'[d].revision = cdk[d].revision
    BY <1>3, TakeUpFacts DEF DeployBegins
  <2>4. CASE s # "App"
    <3>1. Serving' = Serving
      BY <2>1, <2>2, <2>4 DEF Serving
    <3>. QED  BY <1>1, <2>3, <3>1, SchemaKept DEF SchemaInv
  <2>5. CASE s = "App"
    <3>1. Scripts[cdk[c].revision] \subseteq schema
      <4>1. Order(s) \cap cdk[c].left = {} /\ cdk[c].goal = "deploy"
        BY DEF DeployStack, Ready
      <4>2. "Sql" \notin cdk[c].left
        BY <2>5, <4>1, SourcesFacts
      <4>. QED  BY <4>1, <4>2 DEF SchemaInv
    <3>2. stacks["App"].next.revision = None
      BY <1>3, <2>2, <2>5, AbsentFacts DEF DeployBegins, Base, Shape
    <3>3. Serving' \subseteq Serving \cup {cdk[c].revision} /\ Serving \subseteq Serving'
      BY <2>1, <2>5, <3>2, DeploymentAssumption DEF Serving
    <3>. QED  BY <1>1, <2>3, <3>1, <3>3 DEF SchemaInv
  <2>. QED  BY <2>4, <2>5
<1>. QED  BY <1>2, <1>3, DeployMoves

LEMMA SchemaDestroy ==
    ASSUME Base, SchemaInv, SqlIsMigrated, NEW c \in Shells, NEW s \in Stacks,
           DestroyStack(c, s)
    PROVE  SchemaInv'
<1>1. UNCHANGED <<schema, tasks>> /\ cdk[c].goal # "deploy"
  BY DestroyMoves DEF DestroyStack
<1>2. CASE (Done(c, s) \/ Stop(c)) /\ UNCHANGED stacks
  BY <1>1, <1>2, SchemaDone
<1>3. CASE DestroyBegins(c, s)
  <2>1. stacks[s].next = Absent
    BY <1>3 DEF DestroyBegins, Base, Shape
  <2>2. Serving' = Serving
    BY <1>3, <2>1 DEF DestroyBegins, Serving, Stacks
  <2>3. \A d \in Shells : /\ cdk'[d].goal = cdk[d].goal /\ cdk'[d].left = cdk[d].left
                          /\ cdk'[d].revision = cdk[d].revision
    BY <1>3, TakeUpFacts DEF DestroyBegins
  <2>. QED  BY <1>1, <2>2, <2>3, SchemaKept DEF SchemaInv
<1>. QED  BY <1>2, <1>3, DestroyMoves

\* While the database is deleted nothing relies on its schema.
LEMMA SchemaFree ==
    ASSUME Base, OrderInv, Status("Database") = "deleting"
    PROVE  /\ Status("Sql") = "none" /\ Status("App") = "none"
           /\ \A c \in Shells : cdk[c].goal = "deploy" => "Sql" \in cdk[c].left
<1>1. "Database" \in Stacks /\ "Sql" \in Stacks /\ "App" \in Stacks
  BY DEF Stacks
<1>2. Status("Sql") = "none" /\ Status("App") = "none"
  BY <1>1, SourcesFacts DEF OrderInv, Needed, SourcesOf
<1>3. ASSUME NEW c \in Shells, cdk[c].goal = "deploy", "Sql" \notin cdk[c].left  PROVE FALSE
  <2>1. "Database" \notin cdk[c].left
    BY <1>1, <1>3, SourcesFacts DEF OrderInv, Ordered
  <2>. QED  BY <1>1, <1>3, <2>1 DEF OrderInv, Progress
<1>. QED  BY <1>2, <1>3

LEMMA SchemaOperation ==
    ASSUME Base, OrderInv, SchemaInv, NEW s \in Stacks, Operation(s)
    PROVE  SchemaInv'
<1>1. "App" \in Stacks /\ cdk' = cdk
  BY OperationMoves DEF Stacks
<1>2. CASE s = "App"
  <2>1. schema' = schema /\ Serving' \subseteq Serving
    BY <1>2, OperationMoves, AbsentFacts, DeploymentAssumption
    DEF Operation, Deployed, Deleted, Failed, Serving, migrator
  <2>2. tasks' \subseteq Serving'
    <3>1. CASE Deployed(s)
      <4>1. tasks' = {stacks[s].next.revision} /\ stacks[s].next.revision \in tasks
        BY <1>2, <3>1 DEF Deployed
      <4>2. stacks'[s].now = stacks[s].next
        BY <3>1 DEF Deployed, Become, Base, TypeOK
      <4>. QED  BY <1>2, <4>1, <4>2 DEF Serving, SchemaInv
    <3>2. CASE Deleted(s)
      BY <1>2, <3>2 DEF Deleted
    <3>3. CASE Failed(s)
      <4>1. tasks' = tasks \cap {stacks[s].now.revision} /\ tasks \subseteq Revisions
        BY <1>2, <3>3, SqlFacts DEF Failed
      <4>2. \/ stacks[s].now.revision = None
            \/ stacks'[s].now.revision = stacks[s].now.revision
        BY <3>3, AbsentFacts DEF Failed, Become, Base, TypeOK, Shape, Status
      <4>. QED  BY <1>2, <4>1, <4>2, DeploymentAssumption DEF Serving
    <3>. QED  BY <3>1, <3>2, <3>3 DEF Operation
  <2>. QED  BY <1>1, <2>1, <2>2 DEF SchemaInv, Status
<1>3. CASE s = "Database" /\ Deleted(s)
  <2>1. Status("Database") = "deleting"
    BY <1>3 DEF Deleted, Status
  <2>2. stacks["App"].now = Absent /\ stacks["App"].next = Absent
    BY <1>1, <2>1, SchemaFree DEF Base, Shape
  <2>3. stacks'["App"] = stacks["App"] /\ tasks' = tasks
    BY <1>1, <1>3, OperationMoves DEF Deleted
  <2>4. Serving = {} /\ Serving' = {}
    BY <2>2, <2>3, AbsentFacts, DeploymentAssumption DEF Serving
  <2>. QED  BY <1>1, <2>1, <2>3, <2>4, SchemaFree DEF SchemaInv
<1>4. CASE s # "App" /\ ~(s = "Database" /\ Deleted(s))
  <2>1. schema' = schema /\ tasks' = tasks
    BY <1>4 DEF Operation, Deployed, Deleted, Failed, migrator
  <2>2. Serving' = Serving
    BY <1>1, <1>4, OperationMoves DEF Serving
  <2>. QED  BY <1>1, <2>1, <2>2, SchemaKept DEF SchemaInv
<1>. QED  BY <1>2, <1>3, <1>4

LEMMA SchemaSql ==
    ASSUME Base, SchemaInv, Migrated \/ MigrationFailed \/ RollBackSql \/ ContinueRollBack
    PROVE  SchemaInv'
<1>1. "App" \in Stacks /\ "App" # "Sql"
  BY DEF Stacks
<1>2. stacks'["App"] = stacks["App"] /\ UNCHANGED <<schema, tasks, cdk>>
  BY <1>1, SqlMoves
<1>3. Serving' = Serving
  BY <1>2 DEF Serving
<1>. QED  BY <1>2, <1>3, SchemaKept DEF SchemaInv

LEMMA SchemaStep ==
    ASSUME Base, OrderInv, SchemaInv, SqlIsMigrated, [Next]_vars
    PROVE  SchemaInv'
<1>1. ASSUME NEW c \in Shells, Command(c)  PROVE SchemaInv'
  <2>1. CASE Collect(c)
    <3>1. /\ UNCHANGED <<stacks, schema, tasks>>
          /\ \/ /\ Done(c, cdk[c].at)
                /\ cdk[c].goal = "deploy" =>
                       /\ Status(cdk[c].at) = "live"
                       /\ stacks[cdk[c].at].now.revision = cdk[c].revision
             \/ Stop(c)
      BY <2>1 DEF Collect, Status, migrator
    <3>. QED  BY <3>1, SchemaDone
  <2>2. CASE End(c)
    BY <2>2, SchemaDone DEF End, migrator
  <2>. QED  BY <1>1, <2>1, <2>2, SchemaDeploy, SchemaDestroy DEF Command
<1>2. ASSUME NEW c \in Shells, User(c)  PROVE SchemaInv'
  BY <1>2, SchemaStart, SchemaDone DEF User, Interrupt, migrator
<1>3. ASSUME NEW r \in Revisions, StartTask(r) \/ StopTask(r)  PROVE SchemaInv'
  <2>1. UNCHANGED <<stacks, schema, cdk>> /\ tasks' \subseteq Serving /\ Serving' = Serving
    BY <1>3 DEF StartTask, StopTask, Serving, SchemaInv, migrator
  <2>. QED  BY <2>1, SchemaKept DEF SchemaInv
<1>4. ASSUME NEW v, RunScript(v)  PROVE SchemaInv'
  <2>1. UNCHANGED <<stacks, tasks, cdk>> /\ schema \subseteq schema' /\ Serving' = Serving
    BY <1>4 DEF RunScript, Migrator!Migrate, Serving
  <2>. QED  BY <2>1, SchemaKept DEF SchemaInv
<1>5. CASE UNCHANGED vars
  BY <1>5, SchemaKept DEF vars, migrator, SchemaInv, Serving
<1>. QED  BY <1>1, <1>2, <1>3, <1>4, <1>5, SchemaOperation, SchemaSql DEF Next, Migration

-----------------------------------------------------------------------------
(***************************************************************************)
(* The theorems.                                                           *)
(***************************************************************************)

\* The history only ever says more.
LEMMA OverlappedStays ==
    ASSUME Base, [Next]_vars, ~overlapped'
    PROVE  ~overlapped
<1>1. ASSUME NEW c \in Shells, NEW goal, NEW r, Start(c, goal, r)  PROVE ~overlapped
  BY <1>1, Zenon DEF Start
<1>2. \A c \in Shells : Command(c) => overlapped' = overlapped
  BY DEF Command, DeployStack, DestroyStack, Collect, End
<1>3. \A s \in Stacks : Operation(s) => overlapped' = overlapped
  BY DEF Operation, Deployed, Deleted, Failed
<1>4. Migration \/ ContinueRollBack => overlapped' = overlapped
  BY DEF Migration, Migrated, MigrationFailed, RollBackSql, RunScript, ContinueRollBack
<1>5. \A r \in Revisions : (StartTask(r) \/ StopTask(r)) => overlapped' = overlapped
  BY DEF StartTask, StopTask
<1>. QED  BY <1>1, <1>2, <1>3, <1>4, <1>5 DEF Next, User, Interrupt, vars

LEMMA IInvInit == Init => IInv
<1>1. ASSUME Init  PROVE ReferencesInv
  <2>1. Needed(Imports) /\ Fresh(Imports)
    BY <1>1, FreshInit
  <2>2. SqlIsMigrated
    BY <1>1, AbsentFacts DEF Init, SqlIsMigrated, Exists, Stacks
  <2>. QED  BY <2>1, <2>2 DEF ReferencesInv
<1>2. Init => OrderedInv
  BY OrderInit, FreshInit, SchemaInit DEF OrderedInv
<1>. QED  BY BaseInit, <1>1, <1>2 DEF IInv

LEMMA IInvStep == IInv /\ [Next]_vars => IInv'
<1>. SUFFICES ASSUME IInv, [Next]_vars  PROVE IInv'
  OBVIOUS
<1>1. Base /\ ReferencesInv
  BY DEF IInv
<1>2. ReferencesInv'
  BY <1>1, NeededImports, FreshStep, MigratedStep, ReferringFacts DEF ReferencesInv
<1>3. ASSUME ~overlapped'  PROVE OrderedInv'
  <2>1. OrderInv /\ Fresh(SourcesOf) /\ SchemaInv
    BY <1>1, <1>3, OverlappedStays DEF IInv, OrderedInv
  <2>2. Needed(SourcesOf) /\ SqlIsMigrated
    BY <1>1, <2>1 DEF OrderInv, ReferencesInv
  <2>. QED  BY <1>1, <1>3, <2>1, <2>2, OrderStep, FreshStep, SchemaStep, ReferringFacts
            DEF OrderedInv
<1>. QED  BY <1>1, <1>2, <1>3, BaseStep DEF IInv

LEMMA IInvCorrect == Spec => []IInv
BY IInvInit, IInvStep, PTL DEF Spec

\* For any revisions, any number of shells, commands and failures, and beside
\* any destroy: the database behind SqlStack holds the scripts of the revision
\* SqlStack has (flyway-dbmigrator.ts:117-139).
THEOREM SqlIsMigratedAlways == Spec => []SqlIsMigrated
<1>1. IInv => SqlIsMigrated
  BY DEF IInv, ReferencesInv
<1>. QED  BY <1>1, IInvCorrect, PTL

\* As long as nobody has deployed beside a destroy, no task runs before the
\* scripts of its revision (springboot-app.ts:98).
THEOREM ServiceHasItsSchemaAlways == Spec => []ServiceHasItsSchema
<1>1. IInv => ServiceHasItsSchema
  BY DEF IInv, OrderedInv, SchemaInv, ServiceHasItsSchema
<1>. QED  BY <1>1, IInvCorrect, PTL

\* Nor, as long, does a stack hold an old value of another one, by reference
\* or by the name of a parameter (springboot-app.ts:66, database-stack.ts:36-40).
THEOREM NothingStaleAlways == Spec => []NothingStale
<1>1. IInv => NothingStale
  BY DEF IInv, OrderedInv, Fresh, SourcesOf, NothingStale
<1>. QED  BY <1>1, IInvCorrect, PTL

\* And as long, the order cdk derives never has a stack refused for what it
\* needs, for its names, or for what still needs it.
THEOREM OrderSufficesAlways == Spec => []OrderSuffices
<1>1. ASSUME IInv, ~overlapped, NEW c \in Shells, cdk[c].at = None, NEW s \in Ready(c)
      PROVE  /\ cdk[c].goal = "deploy" /\ stacks[s].status \in {"none", "live"} => Available(s)
             /\ cdk[c].goal = "destroy" => ~InUse(s)
  <2>1. s \in Stacks /\ cdk[c].left \subseteq Stacks
    BY <1>1 DEF Ready, IInv, Base, TypeOK, CommandType
  <2>2. ASSUME cdk[c].goal = "deploy"  PROVE Available(s)
    <3>1. Order(s) \cap cdk[c].left = {}
      BY <2>2 DEF Ready
    <3>2. ASSUME NEW t \in Sources(s)  PROVE Exists(t) /\ stacks[t].status # "deleting"
      <4>1. t \in Stacks \ cdk[c].left /\ t # "Sql"
        BY <2>1, <3>1, OrderFacts
      <4>2. Status(t) \in {"live", "updating"}
        BY <1>1, <2>2, <4>1 DEF IInv, OrderedInv, OrderInv, Progress
      <4>. QED  BY <1>1, <4>1, <4>2 DEF IInv, Base, Shape, Status
    <3>. QED  BY <2>1, <3>2, NamesDiffer DEF Available
  <2>3. ASSUME cdk[c].goal = "destroy"  PROVE ~InUse(s)
    <3>1. \A t \in cdk[c].left : s \notin Order(t)
      BY <2>3 DEF Ready
    <3>2. ASSUME NEW t \in Stacks, s \in Imports[t]  PROVE stacks[t].status = "none"
      <4>1. t \notin cdk[c].left
        BY <3>1, <3>2, OrderFacts
      <4>. QED  BY <1>1, <2>3, <4>1 DEF IInv, OrderedInv, OrderInv, Progress, Status
    <3>. QED  BY <3>2 DEF InUse
  <2>. QED  BY <2>2, <2>3
<1>2. IInv => OrderSuffices
  BY <1>1 DEF OrderSuffices
<1>. QED  BY <1>2, IInvCorrect, PTL
=============================================================================

-------------------------- MODULE DBMigratorProofs --------------------------
(***************************************************************************)
(* Proofs about DBMigrator, for every value of its constants.              *)
(***************************************************************************)
EXTENDS DBMigrator, TLAPS

-----------------------------------------------------------------------------
(***************************************************************************)
(* Facts about the data.                                                   *)
(***************************************************************************)

\* What Append makes of a sequence.
LEMMA AppendFacts ==
    ASSUME NEW S, NEW s \in Seq(S), NEW x \in S
    PROVE  /\ Append(s, x) \in Seq(S)
           /\ Len(Append(s, x)) = Len(s) + 1
           /\ \A i \in 1..Len(s) : Append(s, x)[i] = s[i]
           /\ Append(s, x)[Len(s) + 1] = x
OBVIOUS

\* The versions and the checksums of a script set are what their names say.
LEMMA ScriptSetFacts ==
    ASSUME NEW content \in ScriptSets
    PROVE  /\ DOMAIN content \subseteq Versions
           /\ \A v \in DOMAIN content : content[v] \in Checksums
BY DEF ScriptSets

\* The empty directory is a script set, and the archives are.
LEMMA ScriptSetsExist ==
    /\ NoChecksum \in Checksums
    /\ NoFiles \in ScriptSets
    /\ \A a \in Assets : Content[a] \in ScriptSets
<1>1. NoChecksum \in Checksums
  BY FlywayAssumption DEF NoChecksum
<1>2. NoFiles \in ScriptSets
  <2>1. NoFiles \in [{} -> Checksums]
    BY DEF NoFiles
  <2>. QED  BY <2>1 DEF ScriptSets
<1>3. \A a \in Assets : Content[a] \in ScriptSets
  BY DBMigratorAssumption
<1>. QED  BY <1>1, <1>2, <1>3

\* What migrate writes to the history are rows.
LEMMA RowFacts ==
    /\ BaselineRow \in Rows
    /\ \A v \in Versions, c \in Checksums : SqlRow(v, c) \in Rows
BY FlywayAssumption, ScriptSetsExist DEF BaselineRow, SqlRow, Rows, Versions

\* A file of an environment changes its state.
LEMMA WriteFileFacts ==
    ASSUME tmp \in [Envs -> [Assets -> {"absent", "partial", "full"}]],
           NEW e \in Envs, Asset(e) \in Assets,
           NEW content \in {"absent", "partial", "full"}, WriteFile(e, content)
    PROVE  /\ tmp' \in [Envs -> [Assets -> {"absent", "partial", "full"}]]
           /\ tmp'[e][Asset(e)] = content
           /\ \A f \in Envs : f # e => tmp'[f] = tmp[f]
<1>. DEFINE g == [tmp[e] EXCEPT ![Asset(e)] = content]
<1>1. g \in [Assets -> {"absent", "partial", "full"}] /\ g[Asset(e)] = content
  OBVIOUS
<1>2. tmp' = [tmp EXCEPT ![e] = g]
  BY DEF WriteFile
<1>. HIDE DEF g
<1>. QED  BY <1>1, <1>2

\* The ids that there are.
LEMMA IdFacts ==
    ASSUME TypeOK
    PROVE  /\ NoId \in Ids
           /\ \A r \in Requests : NewId(r) \in Ids
<1>1. MaxRequests \in Nat /\ Retries \in Nat /\ MaxDuplicates \in Nat
  BY DBMigratorAssumption
<1>2. NoId \in Ids
  BY <1>1 DEF NoId, Ids
<1>3. \A r \in Requests : NewId(r) \in Ids
  BY <1>1 DEF TypeOK, Requests, NewId, Ids
<1>. QED  BY <1>2, <1>3

\* An answer leaves the resource well typed, and not open.
LEMMA CloseFacts ==
    ASSUME stack \in StackType, StackOK, stack.status \in Open,
           NEW status \in {"SUCCESS", "FAILED"}, NEW pid \in Ids
    PROVE  /\ Close(status, pid) \in StackType
           /\ Close(status, pid).status \notin Open
           /\ Close(status, pid).req = 0
           /\ Close(status, pid).target = stack.target
           /\ Close(status, pid).status # "none" => Close(status, pid).target \in Assets
           /\ Close(status, pid).status \in Held => Close(status, pid).asset \in Assets
<1>0. MaxRequests \in Nat
  BY DBMigratorAssumption
<1>1. CASE stack.status = "creating"
  BY <1>0, <1>1 DEF Close, After, StackType, Statuses, Open, Held, StackOK
<1>2. CASE stack.status = "updating"
  BY <1>0, <1>2 DEF Close, After, StackType, Statuses, Open, Held, StackOK
<1>3. CASE stack.status = "rollingBack"
  BY <1>0, <1>3 DEF Close, After, StackType, Statuses, Open, Held, StackOK
<1>4. CASE stack.status = "deleting"
  BY <1>0, <1>4 DEF Close, After, StackType, Statuses, Open, Held, StackOK
<1>. QED  BY <1>1, <1>2, <1>3, <1>4 DEF Open

-----------------------------------------------------------------------------
(***************************************************************************)
(* Type correctness.  Alone it is not inductive: the asset of the next     *)
(* request is taken from the resource, so StackOK goes with it.            *)
(***************************************************************************)

\* Every step that leaves CloudFormation's state and the requests alone
\* keeps what StackOK says.
LEMMA StackFrame ==
    ASSUME StackOK, UNCHANGED cfnVars
    PROVE  StackOK'
BY DEF StackOK, cfnVars

\* Sending a request.
LEMMA IssueType ==
    ASSUME TypeOK, StackOK,
           NEW status \in Open, NEW a \in Assets,
           stack.status \notin Open,
           status = "rollingBack" => a = stack.asset,
           status \in Held => stack.asset \in Assets,
           Issue(status, RequestOf[status], a)
    PROVE  TypeOK' /\ StackOK'
<1>. DEFINE ev == [type |-> RequestOf[status], asset |-> a, pid |-> stack.pid]
            n == Len(events) + 1
<1>1. MaxRequests \in Nat
  BY DBMigratorAssumption
<1>2. ev \in EventType
  BY DEF TypeOK, StackType, EventType, Open, RequestOf
<1>3. /\ events' = Append(events, ev) /\ events' \in Seq(EventType)
      /\ Len(events') = n /\ n \in 1..MaxRequests
      /\ events'[n] = ev
      /\ queue' \subseteq 1..n
  <2>1. events \in Seq(EventType) /\ Len(events) \in Nat /\ Len(events) < MaxRequests
    BY DEF TypeOK, Issue
  <2>2. events' = Append(events, ev)
    BY DEF Issue
  <2>3. events' \in Seq(EventType) /\ Len(events') = n /\ events'[n] = ev
    <3>. HIDE DEF ev
    <3>. QED  BY <1>2, <2>1, <2>2, AppendFacts
  <2>4. n \in 1..MaxRequests
    BY <1>1, <2>1
  <2>5. queue' \subseteq 1..n
    <3>1. queue \subseteq 1..Len(events)
      BY DEF TypeOK
    <3>2. queue' = queue \cup {n}
      BY DEF Issue
    <3>3. SUFFICES ASSUME NEW q \in queue'  PROVE q \in 1..n
      OBVIOUS
    <3>4. CASE q \in 1..Len(events)
      BY <2>1, <3>4
    <3>5. CASE q = n
      BY <2>1, <3>5
    <3>. QED  BY <3>1, <3>2, <3>4, <3>5
  <2>. QED  BY <2>2, <2>3, <2>4, <2>5
<1>4. stack' = [status |-> status, req |-> n, asset |-> stack.asset,
                target |-> a, pid |-> stack.pid]
  BY DEF Issue
<1>5. stack' \in StackType
  BY <1>3, <1>4 DEF TypeOK, StackType, Statuses
<1>6. StackOK'
  BY <1>3, <1>4 DEF StackOK, TypeOK, StackType, Open, Held
<1>7. TypeOK'
  BY <1>1, <1>3, <1>5 DEF TypeOK, Issue, dbVars
<1>. QED  BY <1>6, <1>7

\* A function error.
LEMMA FunctionErrorType ==
    ASSUME TypeOK, NEW e \in Envs, run[e].pc # "idle", FunctionError(e),
           UNCHANGED events
    PROVE  /\ run' \in [Envs -> RunType]
           /\ \A f \in Envs : /\ run'[f].pc # "idle" => run'[f].req \in 1..Len(events')
                              /\ run'[f].pc = "respond" => run'[f].status # "NONE"
           /\ queue' \subseteq 1..Len(events')
           /\ retriesLeft' \in [Requests -> 0..Retries]
<1>1. MaxRequests \in Nat /\ Retries \in Nat
  BY DBMigratorAssumption
<1>2. Idle \in RunType
  BY <1>1, ScriptSetsExist, IdFacts DEF Idle, RunType
<1>3. run[e].req \in 1..Len(events) /\ run[e].req \in Requests
  BY <1>1 DEF TypeOK, Requests
<1>4. queue' \subseteq 1..Len(events')
  BY <1>3 DEF FunctionError, TypeOK
<1>5. retriesLeft' \in [Requests -> 0..Retries]
  <2>. DEFINE r == run[e].req
  <2>1. retriesLeft[r] \in 0..Retries /\ retriesLeft \in [Requests -> 0..Retries]
    BY <1>3 DEF TypeOK
  <2>2. CASE retriesLeft[r] > 0
    <3>1. retriesLeft' = [retriesLeft EXCEPT ![r] = retriesLeft[r] - 1]
      BY <2>2 DEF FunctionError
    <3>2. retriesLeft[r] - 1 \in 0..Retries
      BY <1>1, <2>1, <2>2
    <3>. QED  BY <2>1, <3>1, <3>2
  <2>3. CASE ~(retriesLeft[r] > 0)
    BY <2>1, <2>3 DEF FunctionError
  <2>. QED  BY <2>2, <2>3
<1>6. run' = [run EXCEPT ![e] = Idle]
  BY DEF FunctionError
<1>. QED  BY <1>2, <1>4, <1>5, <1>6 DEF TypeOK, Idle

\* Steps that change no more than the invocation, and leave it well typed.
LEMMA RunStepType ==
    ASSUME TypeOK, StackOK, NEW e \in Envs,
           run[e].pc # "idle",
           NEW r \in RunType, run' = [run EXCEPT ![e] = r],
           r.req = run[e].req \/ r = Idle,
           r.pc = "respond" => r.status # "NONE",
           UNCHANGED <<cfnVars, lambdaVars>>,
           tmp' \in [Envs -> [Assets -> {"absent", "partial", "full"}]],
           rows' \in Seq(Rows), table' \in BOOLEAN, populated' \in BOOLEAN
    PROVE  TypeOK' /\ StackOK'
<1>1. StackOK'
  BY StackFrame DEF lambdaVars
<1>2. /\ run' \in [Envs -> RunType]
      /\ \A f \in Envs : /\ run'[f].pc # "idle" => run'[f].req \in 1..Len(events)
                         /\ run'[f].pc = "respond" => run'[f].status # "NONE"
  BY DEF TypeOK, Idle
<1>3. TypeOK'
  BY <1>2 DEF TypeOK, cfnVars, lambdaVars
<1>. QED  BY <1>1, <1>3

\* What the handler can make of its invocation in a step is well typed.
LEMMA RunValues ==
    ASSUME TypeOK, NEW e \in Envs
    PROVE  /\ \A pc \in Steps : [run[e] EXCEPT !.pc = pc] \in RunType
           /\ \A st \in {"SUCCESS", "FAILED"} :
                [run[e] EXCEPT !.pc = "respond", !.status = st] \in RunType
           /\ [pc |-> "respond", req |-> run[e].req, dir |-> run[e].dir,
               status |-> "FAILED", pid |-> NoId] \in RunType
           /\ \A a \in Assets :
                [run[e] EXCEPT !.pc = "config", !.dir = Content[a]] \in RunType
           /\ Idle \in RunType
<1>1. run[e] \in RunType /\ MaxRequests \in Nat
  BY DBMigratorAssumption DEF TypeOK
<1>2. \A pc \in Steps : [run[e] EXCEPT !.pc = pc] \in RunType
  BY <1>1 DEF RunType
<1>3. \A st \in {"SUCCESS", "FAILED"} :
        [run[e] EXCEPT !.pc = "respond", !.status = st] \in RunType
  BY <1>1 DEF RunType, Steps
<1>4. [pc |-> "respond", req |-> run[e].req, dir |-> run[e].dir,
               status |-> "FAILED", pid |-> NoId] \in RunType
  BY <1>1, IdFacts DEF RunType, Steps
<1>5. \A a \in Assets : [run[e] EXCEPT !.pc = "config", !.dir = Content[a]] \in RunType
  BY <1>1, ScriptSetsExist DEF RunType, Steps
<1>6. Idle \in RunType
  BY <1>1, ScriptSetsExist, IdFacts DEF Idle, RunType
<1>. QED  BY <1>2, <1>3, <1>4, <1>5, <1>6

\* The initial state.
LEMMA TypeInit ==
    ASSUME Init
    PROVE  TypeOK /\ StackOK
<1>1. /\ MaxRequests \in Nat /\ Retries \in Nat
      /\ MaxDuplicates \in Nat /\ MaxCrashes \in Nat
      /\ populated \in BOOLEAN
  BY DBMigratorAssumption DEF Init
<1>1a. NoId \in Ids
  BY <1>1 DEF NoId, Ids
<1>2. stack \in StackType
  BY <1>1, <1>1a DEF Init, StackType, Statuses
<1>3. run \in [Envs -> RunType]
  BY <1>1, <1>1a, ScriptSetsExist DEF Init, Idle, RunType
<1>4. StackOK
  BY DEF Init, StackOK, Open, Held
<1>5. /\ events \in Seq(EventType) /\ Len(events) = 0
      /\ rows \in Seq(Rows)
  BY DEF Init
<1>6. /\ retriesLeft \in [Requests -> 0..Retries]
      /\ tmp \in [Envs -> [Assets -> {"absent", "partial", "full"}]]
      /\ queue = {} /\ table = FALSE
      /\ duplicates \in 0..MaxDuplicates /\ crashes \in 0..MaxCrashes
  BY <1>1 DEF Init
<1>7. \A e \in Envs : run[e].pc = "idle"
  BY DEF Init, Idle
<1>8. TypeOK
  <2>1. Len(events) <= MaxRequests /\ queue \subseteq 1..Len(events)
    BY <1>1, <1>5, <1>6
  <2>2. \A e \in Envs : /\ run[e].pc # "idle" => run[e].req \in 1..Len(events)
                        /\ run[e].pc = "respond" => run[e].status # "NONE"
    BY <1>7
  <2>3. table \in BOOLEAN
    BY <1>6
  <2>. QED  BY <1>1, <1>2, <1>3, <1>5, <1>6, <2>1, <2>2, <2>3 DEF TypeOK
<1>. QED  BY <1>4, <1>8

\* CloudFormation's steps.
LEMMA CloudFormationType ==
    ASSUME TypeOK, StackOK, CloudFormation
    PROVE  TypeOK' /\ StackOK'
<1>1. ASSUME NEW a \in Assets, Deploy(a)
      PROVE  TypeOK' /\ StackOK'
  <2>1. CASE stack.status = "none" /\ Issue("creating", "Create", a)
    <3>1. "creating" \in Open /\ RequestOf["creating"] = "Create" /\ "creating" \notin Held
      BY DEF Open, RequestOf, Held
    <3>. QED  BY <2>1, <3>1, IssueType DEF Open
  <2>2. CASE stack.status = "live" /\ Issue("updating", "Update", a)
    <3>1. "updating" \in Open /\ RequestOf["updating"] = "Update" /\ stack.asset \in Assets
      BY <2>2 DEF Open, RequestOf, Held, StackOK
    <3>. QED  BY <2>2, <3>1, IssueType DEF Open
  <2>. QED  BY <1>1, <2>1, <2>2 DEF Deploy
<1>2. CASE RollBack
  <2>1. "rollingBack" \in Open /\ RequestOf["rollingBack"] = "Update" /\ stack.asset \in Assets
    BY <1>2 DEF RollBack, Open, RequestOf, Held, StackOK
  <2>. QED  BY <1>2, <2>1, IssueType DEF RollBack, Open
<1>3. CASE Destroy
  <2>1. /\ "deleting" \in Open /\ RequestOf["deleting"] = "Delete"
        /\ stack.target \in Assets /\ "deleting" \notin Held
    BY <1>3 DEF Destroy, Open, RequestOf, Held, StackOK
  <2>. QED  BY <1>3, <2>1, IssueType DEF Destroy, Open
<1>4. CASE GiveUp
  <2>1. stack.pid \in Ids /\ stack \in StackType /\ stack.status \in Open
    BY <1>4 DEF TypeOK, StackType, GiveUp
  <2>2. stack' = Close("FAILED", stack.pid)
    BY <1>4 DEF GiveUp
  <2>3. stack' \in StackType /\ StackOK'
    <3>1. Close("FAILED", stack.pid).status # "rollingBack"
      BY <2>1, CloseFacts DEF Open
    <3>. QED  BY <2>1, <2>2, <3>1, CloseFacts DEF StackOK
  <2>4. TypeOK'
    BY <1>4, <2>3 DEF TypeOK, GiveUp, lambdaVars, dbVars
  <2>. QED  BY <2>3, <2>4
<1>. QED  BY <1>1, <1>2, <1>3, <1>4 DEF CloudFormation

\* Lambda's steps.
LEMMA LambdaType ==
    ASSUME TypeOK, StackOK, Lambda
    PROVE  TypeOK' /\ StackOK'
<1>1. ASSUME NEW r \in Requests, NEW e \in Envs, Deliver(r, e)
      PROVE  TypeOK' /\ StackOK'
  <2>. DEFINE v == [pc     |-> IF events[r].type = "Delete" THEN "respond" ELSE "secret",
                    req    |-> r,
                    dir    |-> NoFiles,
                    status |-> IF events[r].type = "Delete" THEN "SUCCESS" ELSE "NONE",
                    pid    |-> IF events[r].type = "Create" THEN NewId(r) ELSE events[r].pid]
  <2>1. MaxRequests \in Nat /\ r \in 1..Len(events) /\ r \in 0..MaxRequests
    BY <1>1, DBMigratorAssumption DEF Deliver, TypeOK, Requests
  <2>2. events[r].pid \in Ids
    <3>1. events[r] \in EventType
      BY <2>1 DEF TypeOK
    <3>. QED  BY <3>1 DEF EventType
  <2>3. v \in RunType /\ v.req = r /\ (v.pc = "respond" => v.status # "NONE")
    BY <2>1, <2>2, ScriptSetsExist, IdFacts DEF RunType, Steps
  <2>4. run' = [run EXCEPT ![e] = v]
    BY <1>1 DEF Deliver
  <2>5. /\ run' \in [Envs -> RunType]
        /\ \A f \in Envs : /\ run'[f].pc # "idle" => run'[f].req \in 1..Len(events)
                           /\ run'[f].pc = "respond" => run'[f].status # "NONE"
    <3>. HIDE DEF v
    <3>. QED  BY <2>1, <2>3, <2>4 DEF TypeOK
  <2>6. StackOK'
    BY <1>1, StackFrame DEF Deliver
  <2>7. TypeOK'
    BY <1>1, <2>5 DEF TypeOK, Deliver, cfnVars, dbVars
  <2>. QED  BY <2>6, <2>7
<1>2. ASSUME NEW r \in Requests, Duplicate(r)
      PROVE  TypeOK' /\ StackOK'
  <2>1. MaxDuplicates \in Nat /\ r \in 1..Len(events)
    BY <1>2, DBMigratorAssumption DEF Duplicate
  <2>2. StackOK'
    BY <1>2, StackFrame DEF Duplicate
  <2>3. TypeOK'
    BY <1>2, <2>1 DEF TypeOK, Duplicate, cfnVars, dbVars
  <2>. QED  BY <2>2, <2>3
<1>3. ASSUME NEW e \in Envs, Crash(e)
      PROVE  TypeOK' /\ StackOK'
  <2>1. StackOK'
    BY <1>3, StackFrame DEF Crash
  <2>2. /\ run' \in [Envs -> RunType]
        /\ \A f \in Envs : /\ run'[f].pc # "idle" => run'[f].req \in 1..Len(events')
                           /\ run'[f].pc = "respond" => run'[f].status # "NONE"
        /\ queue' \subseteq 1..Len(events')
        /\ retriesLeft' \in [Requests -> 0..Retries]
    BY <1>3, FunctionErrorType DEF Crash, cfnVars
  <2>3. crashes' \in 0..MaxCrashes
    BY <1>3, DBMigratorAssumption DEF Crash, TypeOK
  <2>4. TypeOK'
    BY <1>3, <2>2, <2>3 DEF TypeOK, Crash, cfnVars, dbVars
  <2>. QED  BY <2>1, <2>4
<1>4. ASSUME NEW e \in Envs, Recycle(e)
      PROVE  TypeOK' /\ StackOK'
  <2>1. StackOK'
    BY <1>4, StackFrame DEF Recycle
  <2>2. tmp' \in [Envs -> [Assets -> {"absent", "partial", "full"}]]
    BY <1>4 DEF Recycle, TypeOK
  <2>3. TypeOK'
    BY <1>4, <2>2 DEF TypeOK, Recycle, cfnVars, lambdaVars, dbVars
  <2>. QED  BY <2>1, <2>3
<1>. QED  BY <1>1, <1>2, <1>3, <1>4 DEF Lambda

\* A running invocation is for a request, and that is about an asset.
LEMMA AssetFacts ==
    ASSUME TypeOK, NEW e \in Envs, run[e].pc # "idle"
    PROVE  events[run[e].req] \in EventType /\ Asset(e) \in Assets
<1>1. events[run[e].req] \in EventType
  BY DEF TypeOK
<1>. QED  BY <1>1 DEF EventType, Asset

\* Steps that only move on, or answer.
LEMMA GotoType ==
    ASSUME TypeOK, StackOK, NEW e \in Envs, run[e].pc # "idle",
           \/ \E pc \in Steps \ {"respond"} : Goto(e, pc)
           \/ \E st \in {"SUCCESS", "FAILED"} : Answer(e, st)
           \/ Caught(e),
           UNCHANGED <<cfnVars, lambdaVars>>,
           tmp' \in [Envs -> [Assets -> {"absent", "partial", "full"}]],
           rows' \in Seq(Rows), table' \in BOOLEAN, populated' \in BOOLEAN
    PROVE  TypeOK' /\ StackOK'
<1>1. ASSUME NEW pc \in Steps \ {"respond"}, Goto(e, pc)
      PROVE  TypeOK' /\ StackOK'
  <2>. DEFINE r == [run[e] EXCEPT !.pc = pc]
  <2>1. r \in RunType /\ r.req = run[e].req /\ r.pc = pc
    BY RunValues DEF TypeOK, RunType
  <2>2. run' = [run EXCEPT ![e] = r]
    BY <1>1 DEF Goto
  <2>. HIDE DEF r
  <2>. QED  BY <2>1, <2>2, RunStepType
<1>2. ASSUME NEW st \in {"SUCCESS", "FAILED"}, Answer(e, st)
      PROVE  TypeOK' /\ StackOK'
  <2>. DEFINE r == [run[e] EXCEPT !.pc = "respond", !.status = st]
  <2>1. r \in RunType
    BY RunValues
  <2>2. r.req = run[e].req /\ r.status = st
    BY DEF TypeOK, RunType
  <2>3. run' = [run EXCEPT ![e] = r]
    BY <1>2 DEF Answer, TypeOK, RunType
  <2>. HIDE DEF r
  <2>. QED  BY <2>1, <2>2, <2>3, RunStepType
<1>. QED  BY <1>1, <1>2 DEF Caught, Steps

\* What an answer makes of the resource.
LEMMA RespondStack ==
    ASSUME TypeOK, StackOK, NEW e \in Envs, Respond(e)
    PROVE  stack' \in StackType /\ StackOK'
<1>1. CASE stack' = stack
  BY <1>1, StackFrame DEF Respond, TypeOK, cfnVars
<1>2. CASE run[e].req = stack.req /\ stack' = Close(run[e].status, run[e].pid)
  <2>1. /\ run[e].status \in {"SUCCESS", "FAILED"} /\ run[e].pid \in Ids
        /\ run[e].req \in 1..Len(events)
    BY <1>2 DEF TypeOK, RunType, Respond, At
  <2>2. stack.status \in Open /\ stack \in StackType
    BY <1>2, <2>1 DEF StackOK, TypeOK
  <2>3. Close(run[e].status, run[e].pid).status # "rollingBack"
    BY <2>1, <2>2, CloseFacts DEF Open
  <2>. QED  BY <1>2, <2>1, <2>2, <2>3, CloseFacts DEF StackOK
<1>. QED  BY <1>1, <1>2 DEF Respond

\* The handler's steps.
LEMMA HandlerType ==
    ASSUME TypeOK, StackOK, NEW e \in Envs, Handler(e)
    PROVE  TypeOK' /\ StackOK'
<1>. DEFINE TmpType == [Envs -> [Assets -> {"absent", "partial", "full"}]]
<1>1. CASE FetchSecret(e)
  <2>1. \E pc \in Steps \ {"respond"} : Goto(e, pc)
    BY <1>1 DEF FetchSecret, Steps
  <2>. QED  BY <1>1, <2>1, GotoType DEF FetchSecret, At, TypeOK, dbVars
<1>2. CASE CreateFile(e)
  <2>1. \E pc \in Steps \ {"respond"} : Goto(e, pc)
    BY <1>2 DEF CreateFile, Steps
  <2>2. tmp' \in TmpType
    <3>1. tmp \in TmpType /\ Asset(e) \in Assets
      BY <1>2, AssetFacts DEF CreateFile, At, TypeOK
    <3>2. tmp' = tmp \/ WriteFile(e, "partial")
      BY <1>2 DEF CreateFile
    <3>. QED  BY <3>1, <3>2, WriteFileFacts
  <2>. QED  BY <1>2, <2>1, <2>2, GotoType DEF CreateFile, At, TypeOK, dbVars
<1>3. CASE Download(e)
  <2>1. \E pc \in Steps \ {"respond"} : Goto(e, pc)
    BY <1>3 DEF Download, Steps
  <2>2. tmp' \in TmpType
    <3>1. tmp \in TmpType /\ Asset(e) \in Assets
      BY <1>3, AssetFacts DEF Download, At, TypeOK
    <3>2. tmp' = tmp \/ WriteFile(e, "full")
      BY <1>3 DEF Download
    <3>. QED  BY <3>1, <3>2, WriteFileFacts
  <2>. QED  BY <1>3, <2>1, <2>2, GotoType DEF Download, At, TypeOK, dbVars
<1>4. CASE Unzip(e)
  <2>1. CASE Goto(e, "escape")
    BY <1>4, <2>1, GotoType DEF Unzip, At, TypeOK, dbVars, Steps
  <2>2. CASE run' = [run EXCEPT ![e].pc = "config", ![e].dir = Content[Asset(e)]]
    <3>. DEFINE r == [run[e] EXCEPT !.pc = "config", !.dir = Content[Asset(e)]]
    <3>1. Asset(e) \in Assets
      BY <1>4, AssetFacts DEF Unzip, At
    <3>2. r \in RunType /\ r.req = run[e].req /\ r.pc = "config"
      BY <3>1, RunValues DEF TypeOK, RunType
    <3>3. run' = [run EXCEPT ![e] = r]
      BY <2>2 DEF TypeOK, RunType
    <3>. HIDE DEF r
    <3>. QED  BY <1>4, <3>2, <3>3, RunStepType DEF Unzip, At, TypeOK, dbVars
  <2>. QED  BY <1>4, <2>1, <2>2 DEF Unzip
<1>5. CASE Configure(e)
  BY <1>5, GotoType DEF Configure, At, TypeOK, dbVars, Steps
<1>6. CASE Validate(e)
  BY <1>6, GotoType DEF Validate, At, TypeOK, dbVars, Steps
<1>7. CASE Migrate(e)
  <2>1. rows' \in Seq(Rows) /\ table' \in BOOLEAN
    <3>1. <<BaselineRow>> \in Seq(Rows)
      BY RowFacts
    <3>. QED  BY <1>7, <3>1 DEF Migrate, TypeOK
  <2>2. (\E pc \in Steps \ {"respond"} : Goto(e, pc)) \/ Caught(e)
    BY <1>7 DEF Migrate, Steps
  <2>. QED  BY <1>7, <2>1, <2>2, GotoType DEF Migrate, At, TypeOK
<1>8. CASE ApplyNext(e)
  <2>1. ASSUME NEW v \in Pending(rows, run[e].dir),
               rows' = Append(rows, SqlRow(v, run[e].dir[v])), UNCHANGED run
        PROVE  TypeOK' /\ StackOK'
    <3>1. run[e].dir \in ScriptSets
      BY DEF TypeOK, RunType
    <3>2. v \in Versions /\ run[e].dir[v] \in Checksums
      BY <3>1, ScriptSetFacts DEF Pending
    <3>3. rows' \in Seq(Rows)
      BY <2>1, <3>2, RowFacts, AppendFacts DEF TypeOK
    <3>4. StackOK'
      BY <1>8, StackFrame DEF ApplyNext
    <3>. QED  BY <1>8, <2>1, <3>3, <3>4 DEF TypeOK, ApplyNext, cfnVars, lambdaVars
  <2>2. CASE UNCHANGED rows /\ (Answer(e, "SUCCESS") \/ Caught(e))
    BY <1>8, <2>2, GotoType DEF ApplyNext, At, TypeOK
  <2>. QED  BY <1>8, <2>1, <2>2 DEF ApplyNext
<1>9. CASE Respond(e)
  <2>1. stack' \in StackType /\ StackOK'
    BY <1>9, RespondStack
  <2>2. /\ run' \in [Envs -> RunType]
        /\ \A f \in Envs : /\ run'[f].pc # "idle" => run'[f].req \in 1..Len(events)
                           /\ run'[f].pc = "respond" => run'[f].status # "NONE"
    BY <1>9, RunValues DEF Respond, TypeOK, Idle
  <2>3. TypeOK'
    BY <1>9, <2>1, <2>2 DEF TypeOK, Respond, lambdaVars, dbVars
  <2>. QED  BY <2>1, <2>3
<1>10. CASE Escape(e)
  <2>1. StackOK'
    BY <1>10, StackFrame DEF Escape
  <2>2. CASE EscapeAnswers
    <3>. DEFINE r == [pc |-> "respond", req |-> run[e].req, dir |-> run[e].dir,
                      status |-> "FAILED", pid |-> NoId]
    <3>1. r \in RunType /\ r.req = run[e].req /\ r.status = "FAILED"
      BY RunValues
    <3>2. run' = [run EXCEPT ![e] = r] /\ UNCHANGED <<cfnVars, lambdaVars>>
      BY <1>10, <2>2 DEF Escape, lambdaVars
    <3>. HIDE DEF r
    <3>. QED  BY <1>10, <3>1, <3>2, RunStepType DEF Escape, At, TypeOK, dbVars
  <2>3. CASE ~EscapeAnswers
    <3>1. /\ run' \in [Envs -> RunType]
          /\ \A f \in Envs : /\ run'[f].pc # "idle" => run'[f].req \in 1..Len(events')
                             /\ run'[f].pc = "respond" => run'[f].status # "NONE"
          /\ queue' \subseteq 1..Len(events')
          /\ retriesLeft' \in [Requests -> 0..Retries]
      BY <1>10, <2>3, FunctionErrorType DEF Escape, At, cfnVars
    <3>. QED  BY <1>10, <2>1, <3>1 DEF TypeOK, Escape, cfnVars, dbVars
  <2>. QED  BY <2>2, <2>3
<1>. QED  BY <1>1, <1>2, <1>3, <1>4, <1>5, <1>6, <1>7, <1>8, <1>9, <1>10 DEF Handler

\* Every step keeps the types.
LEMMA TypeStep == TypeOK /\ StackOK /\ [Next]_vars => TypeOK' /\ StackOK'
<1>. SUFFICES ASSUME TypeOK, StackOK, [Next]_vars
              PROVE  TypeOK' /\ StackOK'
  OBVIOUS
<1>1. CASE Next
  BY <1>1, CloudFormationType, LambdaType, HandlerType DEF Next
<1>2. CASE UNCHANGED vars
  BY <1>2 DEF vars, cfnVars, lambdaVars, dbVars, TypeOK, StackOK
<1>. QED  BY <1>1, <1>2

\* Every variable always has its type, and the resource is open for exactly
\* the request it was last issued for.
THEOREM TypeCorrect == Spec => [](TypeOK /\ StackOK)
<1>1. Init => TypeOK /\ StackOK
  BY TypeInit
<1>2. TypeOK /\ StackOK /\ [Next]_vars => (TypeOK /\ StackOK)'
  BY TypeStep
<1>. QED  BY <1>1, <1>2, PTL DEF Spec

-----------------------------------------------------------------------------
(***************************************************************************)
(* What any step leaves alone.                                             *)
(***************************************************************************)

\* Requests that were sent are never rewritten.
LEMMA EventsKept ==
    ASSUME TypeOK, Next
    PROVE  \A i \in 1..Len(events) : events'[i] = events[i]
<1>1. CASE UNCHANGED events
  BY <1>1
<1>2. ASSUME NEW status, NEW type, NEW a, Issue(status, type, a)
      PROVE  \A i \in 1..Len(events) : events'[i] = events[i]
  <2>. DEFINE ev == [type |-> type, asset |-> a, pid |-> stack.pid]
  <2>1. events' = Append(events, ev) /\ events \in Seq(EventType)
    BY <1>2 DEF Issue, TypeOK
  <2>. HIDE DEF ev
  <2>. QED  BY <2>1
<1>3. CASE \E a \in Assets : Deploy(a)
  BY <1>2, <1>3 DEF Deploy
<1>4. CASE RollBack \/ Destroy
  BY <1>2, <1>4 DEF RollBack, Destroy
<1>5. CASE GiveUp
  BY <1>1, <1>5 DEF GiveUp
<1>6. CASE Lambda
  BY <1>1, <1>6 DEF Lambda, Deliver, Duplicate, Crash, Recycle, cfnVars
<1>7. CASE \E e \in Envs : Handler(e)
  BY <1>1, <1>7 DEF Handler, FetchSecret, CreateFile, Download, Unzip, Configure,
      Validate, Migrate, ApplyNext, Respond, Escape, cfnVars
<1>. QED  BY <1>3, <1>4, <1>5, <1>6, <1>7 DEF Next, CloudFormation

\* CloudFormation does not touch the environments and the database.
LEMMA CloudFormationFrame ==
    ASSUME CloudFormation
    PROVE  UNCHANGED <<run, tmp, dbVars>>
BY DEF CloudFormation, Deploy, RollBack, Destroy, GiveUp, Issue

\* A step of the handler stays in its environment.
LEMMA HandlerFrame ==
    ASSUME TypeOK, NEW e \in Envs, Handler(e)
    PROVE  \A f \in Envs : f # e => run'[f] = run[f] /\ tmp'[f] = tmp[f]
<1>1. ASSUME NEW r, run' = [run EXCEPT ![e] = r]
      PROVE  \A f \in Envs : f # e => run'[f] = run[f]
  BY <1>1 DEF TypeOK
<1>2. (\E r : run' = [run EXCEPT ![e] = r]) \/ run' = run
  <2>1. \A pc : Goto(e, pc) => run' = [run EXCEPT ![e] = [run[e] EXCEPT !.pc = pc]]
    BY DEF Goto, TypeOK
  <2>2. \A st : Answer(e, st) =>
          run' = [run EXCEPT ![e] = [run[e] EXCEPT !.pc = "respond", !.status = st]]
    BY DEF Answer, TypeOK, RunType
  <2>3. CASE FetchSecret(e) \/ CreateFile(e) \/ Download(e)
    BY <2>1, <2>3 DEF FetchSecret, CreateFile, Download
  <2>4. CASE Unzip(e)
    <3>1. CASE Goto(e, "escape")
      BY <2>1, <3>1
    <3>2. CASE run' = [run EXCEPT ![e].pc = "config", ![e].dir = Content[Asset(e)]]
      <4>1. run' = [run EXCEPT ![e] = [run[e] EXCEPT !.pc = "config", !.dir = Content[Asset(e)]]]
        BY <3>2 DEF TypeOK, RunType
      <4>. QED  BY <4>1
    <3>. QED  BY <2>4, <3>1, <3>2 DEF Unzip
  <2>5. CASE Configure(e) \/ Validate(e) \/ Migrate(e) \/ ApplyNext(e)
    BY <2>1, <2>2, <2>5 DEF Configure, Validate, Migrate, ApplyNext, Caught
  <2>6. CASE Respond(e) \/ Escape(e)
    BY <2>6 DEF Respond, Escape, FunctionError
  <2>. QED  BY <2>3, <2>4, <2>5, <2>6 DEF Handler
<1>3. \A f \in Envs : f # e => tmp'[f] = tmp[f]
  BY DEF Handler, FetchSecret, CreateFile, Download, Unzip, Configure, Validate,
      Migrate, ApplyNext, Respond, Escape, WriteFile, TypeOK
<1>. QED  BY <1>1, <1>2, <1>3

\* The three ways a step can treat the history: leave it, mark a baseline in
\* a table it makes, or apply the next script of the asset it works on.
LEMMA RowsStep ==
    ASSUME TypeOK, WorksOnItsAsset, Next
    PROVE  \/ rows' = rows
           \/ rows' = <<BaselineRow>> /\ ~table /\ table'
              /\ \E e \in Envs : run[e].pc = "migrate"
           \/ \E e \in Envs : /\ run[e].pc = "apply" /\ UNCHANGED <<table, events>>
                /\ \E v \in Pending(rows, Content[Asset(e)]) :
                     /\ NextScript(rows, Content[Asset(e)], v)
                     /\ rows' = Append(rows, SqlRow(v, Content[Asset(e)][v]))
<1>1. CASE CloudFormation
  BY <1>1, CloudFormationFrame DEF dbVars
<1>2. CASE Lambda
  BY <1>2 DEF Lambda, Deliver, Duplicate, Crash, Recycle, dbVars
<1>3. ASSUME NEW e \in Envs, Handler(e), rows' # rows
      PROVE  \/ rows' = <<BaselineRow>> /\ ~table /\ table'
                /\ run[e].pc = "migrate"
             \/ /\ run[e].pc = "apply" /\ UNCHANGED <<table, events>>
                /\ \E v \in Pending(rows, Content[Asset(e)]) :
                     /\ NextScript(rows, Content[Asset(e)], v)
                     /\ rows' = Append(rows, SqlRow(v, Content[Asset(e)][v]))
  <2>1. CASE Migrate(e)
    BY <1>3, <2>1 DEF Migrate, At
  <2>2. CASE ApplyNext(e)
    <3>1. run[e].dir = Content[Asset(e)]
      BY <2>2 DEF WorksOnItsAsset, ApplyNext, At
    <3>. QED  BY <1>3, <2>2, <3>1 DEF ApplyNext, At, cfnVars
  <2>3. CASE Migrate(e) \/ ApplyNext(e)
    BY <2>1, <2>2, <2>3
  <2>. QED  BY <1>3, <2>3 DEF Handler, FetchSecret, CreateFile, Download, Unzip,
              Configure, Validate, Respond, Escape, dbVars
<1>. QED  BY <1>1, <1>2, <1>3 DEF Next

\* The history table stays, once it exists.
LEMMA TableStays ==
    ASSUME TypeOK, Next
    PROVE  table => table'
<1>1. CASE CloudFormation
  BY <1>1, CloudFormationFrame DEF dbVars
<1>2. CASE Lambda
  BY <1>2 DEF Lambda, Deliver, Duplicate, Crash, Recycle, dbVars
<1>3. CASE \E e \in Envs : Handler(e)
  BY <1>3 DEF Handler, FetchSecret, CreateFile, Download, Unzip, Configure,
      Validate, Migrate, ApplyNext, Respond, Escape, dbVars
<1>. QED  BY <1>1, <1>2, <1>3 DEF Next

-----------------------------------------------------------------------------
(***************************************************************************)
(* What holds whatever the assets are.                                     *)
(***************************************************************************)

\* migrate makes the history table before it writes to the history.
LEMMA TableStep ==
    ASSUME TypeOK, WorksOnItsAsset, TableOK, Next
    PROVE  TableOK'
<1>1. ~table' => rows' = <<>>
  BY RowsStep, TableStays DEF TableOK
<1>2. ASSUME NEW f \in Envs, run'[f].pc = "apply"
      PROVE  table'
  <2>1. CASE run[f].pc = "apply"
    BY <2>1, TableStays DEF TableOK
  <2>2. CASE run[f].pc # "apply"
    <3>1. run'[f] # run[f]
      BY <1>2, <2>2
    <3>2. ~CloudFormation /\ ~Lambda
      BY <1>2, <3>1, CloudFormationFrame DEF Lambda, Deliver, Duplicate, Crash,
         Recycle, FunctionError, Idle, TypeOK
    <3>3. Handler(f)
      BY <3>1, <3>2, HandlerFrame DEF Next
    <3>4. CASE Migrate(f)
      BY <1>2, <3>4 DEF Migrate, Caught, Answer, Goto, TypeOK, RunType
    <3>5. CASE FetchSecret(f) \/ CreateFile(f) \/ Download(f) \/ Configure(f) \/ Validate(f)
      BY <1>2, <3>5 DEF FetchSecret, CreateFile, Download, Configure, Validate,
         Caught, Answer, Goto, TypeOK, RunType
    <3>6. CASE Unzip(f)
      BY <1>2, <3>6 DEF Unzip, Goto, TypeOK, RunType
    <3>7. CASE ApplyNext(f)
      BY <2>2, <3>7 DEF ApplyNext, At
    <3>8. CASE Respond(f)
      BY <1>2, <3>8 DEF Respond, Idle, TypeOK
    <3>9. CASE Escape(f)
      BY <1>2, <3>9 DEF Escape, FunctionError, Idle, TypeOK
    <3>. QED  BY <3>3, <3>4, <3>5, <3>6, <3>7, <3>8, <3>9 DEF Handler
  <2>. QED  BY <2>1, <2>2
<1>. QED  BY <1>1, <1>2 DEF TableOK

\* An invocation works on the asset of its request.
LEMMA WorksOnItsAssetStep ==
    ASSUME TypeOK, WorksOnItsAsset, Next
    PROVE  WorksOnItsAsset'
<1>. DEFINE Working == {"config", "validate", "migrate", "apply"}
<1>1. ASSUME NEW f \in Envs, run[f].pc \in Working, events'[run[f].req] = events[run[f].req],
             run'[f].req = run[f].req, run'[f].dir = run[f].dir, tmp'[f] = tmp[f]
      PROVE  run'[f].dir = Content[Asset(f)'] /\ tmp'[f][Asset(f)'] = "full"
  BY <1>1 DEF WorksOnItsAsset, Asset
<1>2. \A f \in Envs : run[f].pc # "idle" => events'[run[f].req] = events[run[f].req]
  BY EventsKept DEF TypeOK
<1>3. SUFFICES ASSUME NEW f \in Envs, run'[f].pc \in Working
               PROVE  run'[f].dir = Content[Asset(f)'] /\ tmp'[f][Asset(f)'] = "full"
  BY DEF WorksOnItsAsset
<1>4. CASE run'[f] = run[f] /\ tmp'[f] = tmp[f]
  BY <1>1, <1>2, <1>3, <1>4
<1>5. CASE CloudFormation
  BY <1>4, <1>5, CloudFormationFrame
<1>6. CASE Lambda
  <2>1. ASSUME NEW r \in Requests, NEW e \in Envs, Deliver(r, e)
        PROVE  run'[f] = run[f] /\ tmp'[f] = tmp[f]
    BY <1>3, <2>1 DEF Deliver, TypeOK
  <2>2. ASSUME NEW r \in Requests, Duplicate(r)
        PROVE  run'[f] = run[f] /\ tmp'[f] = tmp[f]
    BY <2>2 DEF Duplicate
  <2>3. ASSUME NEW e \in Envs, Crash(e)
        PROVE  run'[f] = run[f] /\ tmp'[f] = tmp[f]
    BY <1>3, <2>3 DEF Crash, FunctionError, TypeOK, Idle
  <2>4. ASSUME NEW e \in Envs, Recycle(e)
        PROVE  run'[f] = run[f] /\ tmp'[f] = tmp[f]
    BY <1>3, <2>4 DEF Recycle, TypeOK
  <2>. QED  BY <1>4, <1>6, <2>1, <2>2, <2>3, <2>4 DEF Lambda
<1>7. ASSUME NEW e \in Envs, Handler(e)
      PROVE  run'[f].dir = Content[Asset(f)'] /\ tmp'[f][Asset(f)'] = "full"
  <2>1. CASE f # e
    BY <1>4, <1>7, <2>1, HandlerFrame
  <2>2. CASE f = e /\ Unzip(e)
    <3>1. CASE run' = [run EXCEPT ![e].pc = "config", ![e].dir = Content[Asset(e)]]
               /\ tmp[e][Asset(e)] = "full"
      <4>1. run'[e].dir = Content[Asset(e)] /\ run'[e].req = run[e].req
        BY <3>1 DEF TypeOK, RunType
      <4>2. UNCHANGED <<events, tmp>>
        BY <2>2 DEF Unzip, cfnVars
      <4>3. Asset(e)' = Asset(e)
        BY <4>1, <4>2 DEF Asset
      <4>. QED  BY <2>2, <3>1, <4>1, <4>2, <4>3
    <3>2. CASE Goto(e, "escape")
      BY <1>3, <2>2, <3>2 DEF Goto, TypeOK
    <3>. QED  BY <2>2, <3>1, <3>2 DEF Unzip
  <2>3. CASE f = e /\ run[e].pc \in Working /\ ~Respond(e) /\ ~Escape(e)
    <3>1. Configure(e) \/ Validate(e) \/ Migrate(e) \/ ApplyNext(e)
      BY <1>7, <2>3 DEF Handler, FetchSecret, CreateFile, Download, Unzip, At
    <3>2. run'[e].req = run[e].req /\ run'[e].dir = run[e].dir
      BY <3>1 DEF Configure, Validate, Migrate, ApplyNext, Goto, Answer, Caught, TypeOK, RunType
    <3>3. UNCHANGED tmp
      BY <3>1 DEF Configure, Validate, Migrate, ApplyNext
    <3>. QED  BY <1>1, <1>2, <2>3, <3>2, <3>3
  <2>4. CASE f = e /\ (FetchSecret(e) \/ CreateFile(e) \/ Download(e) \/ Respond(e) \/ Escape(e))
    <3>1. CASE FetchSecret(e) \/ CreateFile(e) \/ Download(e)
      BY <1>3, <2>4, <3>1 DEF FetchSecret, CreateFile, Download, Goto, TypeOK, RunType
    <3>2. CASE Respond(e)
      BY <1>3, <2>4, <3>2 DEF Respond, Idle, TypeOK
    <3>3. CASE Escape(e)
      BY <1>3, <2>4, <3>3 DEF Escape, FunctionError, Idle, TypeOK
    <3>. QED  BY <2>4, <3>1, <3>2, <3>3
  <2>. QED  BY <1>7, <2>1, <2>2, <2>3, <2>4 DEF Handler, Configure, Validate, Migrate,
            ApplyNext, At
<1>. QED  BY <1>5, <1>6, <1>7 DEF Next

\* The parts of the invariant that need nothing of the assets.
BaseInv == TypeOK /\ StackOK /\ TableOK /\ WorksOnItsAsset

LEMMA BaseStep == BaseInv /\ [Next]_vars => BaseInv'
<1>1. CASE BaseInv /\ Next
  BY <1>1, TypeStep, TableStep, WorksOnItsAssetStep DEF BaseInv
<1>2. CASE BaseInv /\ UNCHANGED vars
  BY <1>2 DEF BaseInv, vars, cfnVars, lambdaVars, dbVars, TypeOK, StackOK, TableOK,
     WorksOnItsAsset, Asset
<1>. QED  BY <1>1, <1>2

LEMMA BaseInit == Init => BaseInv
<1>. SUFFICES ASSUME Init  PROVE BaseInv
  OBVIOUS
<1>1. TypeOK /\ StackOK
  BY TypeInit
<1>2. rows = <<>> /\ \A e \in Envs : run[e].pc = "idle"
  BY DEF Init, Idle
<1>3. TableOK /\ WorksOnItsAsset
  BY <1>2 DEF TableOK, WorksOnItsAsset
<1>. QED  BY <1>1, <1>3 DEF BaseInv

\* The base invariant holds in every reachable state.
THEOREM BaseCorrect == Spec => []BaseInv
<1>1. Init => BaseInv
  BY BaseInit
<1>2. BaseInv /\ [Next]_vars => BaseInv'
  BY BaseStep
<1>. QED  BY <1>1, <1>2, PTL DEF Spec

-----------------------------------------------------------------------------
(***************************************************************************)
(* What holds when every asset appends to the shorter ones.                *)
(***************************************************************************)

\* With a dense history, no pending script means that all are recorded.
LEMMA NothingPending ==
    ASSUME GrowingAssets, HistoryDense, rows \in Seq(Rows), NEW a \in Assets,
           Pending(rows, Content[a]) = {}
    PROVE  Migrated(a)
<1>1. PICK n \in Versions : DOMAIN Content[a] = 1..n
  BY DEF GrowingAssets
<1>2. n \in Nat /\ n >= 1 /\ n \in DOMAIN Content[a] /\ Len(rows) \in Nat
  BY <1>1, FlywayAssumption DEF Versions
<1>3. PICK i \in 1..Len(rows) : ~(rows[i].version < n)
  BY <1>2 DEF Pending
<1>4. n <= Len(rows)
  BY <1>2, <1>3 DEF HistoryDense
<1>5. \A v \in 1..n : v \in 1..Len(rows) /\ rows[v].version = v
  BY <1>2, <1>4 DEF HistoryDense
<1>. QED  BY <1>1, <1>5 DEF Migrated, Recorded

\* With a dense history, the next script of any asset extends it densely.
LEMMA DenseStep ==
    ASSUME GrowingAssets, TypeOK, WorksOnItsAsset, HistoryDense, Next
    PROVE  HistoryDense'
<1>1. CASE rows' = rows
  BY <1>1 DEF HistoryDense
<1>2. CASE rows' = <<BaselineRow>>
  <2>1. Len(rows') = 1 /\ rows'[1].version = 1
    BY <1>2 DEF BaselineRow
  <2>. QED  BY <2>1 DEF HistoryDense
<1>3. ASSUME NEW e \in Envs, run[e].pc = "apply",
             NEW v \in Pending(rows, Content[Asset(e)]),
             NextScript(rows, Content[Asset(e)], v),
             NEW row, row = SqlRow(v, Content[Asset(e)][v]), rows' = Append(rows, row)
      PROVE  HistoryDense'
  <2>1. Asset(e) \in Assets
    BY <1>3, AssetFacts
  <2>2. PICK n \in Versions : DOMAIN Content[Asset(e)] = 1..n
    BY <2>1 DEF GrowingAssets
  <2>3. rows \in Seq(Rows) /\ Len(rows) \in Nat /\ n \in Nat
    BY FlywayAssumption DEF TypeOK, Versions
  <2>4. v \in 1..n /\ \A i \in 1..Len(rows) : i < v
    BY <2>2 DEF Pending, HistoryDense
  <2>5. Len(rows) + 1 <= v
    BY <2>3, <2>4
  <2>6. Len(rows) + 1 \in Pending(rows, Content[Asset(e)])
    BY <2>2, <2>3, <2>4, <2>5 DEF Pending, HistoryDense
  <2>7. v = Len(rows) + 1
    BY <1>3, <2>3, <2>4, <2>5, <2>6 DEF NextScript
  <2>8. row.version = v
    BY <1>3 DEF SqlRow
  <2>9. /\ Len(rows') = Len(rows) + 1 /\ rows'[Len(rows) + 1] = row
        /\ \A i \in 1..Len(rows) : rows'[i] = rows[i]
    BY <1>3, <2>3
  <2>. QED  BY <2>3, <2>7, <2>8, <2>9 DEF HistoryDense
<1>. QED  BY <1>1, <1>2, <1>3, RowsStep

\* What is in the history stays there.
LEMMA RecordedStays ==
    ASSUME TypeOK, TableOK, WorksOnItsAsset, Next
    PROVE  Recorded(rows) \subseteq Recorded(rows')
<1>2. CASE rows' = rows
  BY <1>2
<1>3. CASE ~table
  BY <1>3 DEF TableOK, Recorded
<1>4. ASSUME NEW row, rows' = Append(rows, row)
      PROVE  Recorded(rows) \subseteq Recorded(rows')
  <2>1. rows \in Seq(Rows) /\ Len(rows) \in Nat
    BY DEF TypeOK
  <2>2. /\ Len(rows') = Len(rows) + 1
        /\ \A i \in 1..Len(rows) : i \in 1..Len(rows') /\ rows'[i] = rows[i]
    BY <1>4, <2>1
  <2>. QED  BY <2>2 DEF Recorded
<1>. QED  BY <1>2, <1>3, <1>4, RowsStep

\* A SUCCESS is only ever given for what is migrated.
LEMMA AnswersStep ==
    ASSUME GrowingAssets, TypeOK, TableOK, WorksOnItsAsset, HistoryDense,
           AnswersAreTrue, Next
    PROVE  AnswersAreTrue'
<1>. DEFINE True(f) ==
              IF events[run[f].req].type = "Delete"
                THEN run[f].pc = "respond"
                ELSE run[f].pc = "respond" /\ run[f].status = "SUCCESS" => Migrated(Asset(f))
<1>1. SUFFICES ASSUME NEW f \in Envs, run'[f].pc # "idle"
               PROVE  True(f)'
  BY DEF AnswersAreTrue
<1>2. run[f].pc # "idle" => True(f)
  BY DEF AnswersAreTrue
<1>3. run[f].pc # "idle" => events'[run[f].req] = events[run[f].req]
  BY EventsKept DEF TypeOK
<1>4. CASE run'[f] = run[f]
  <2>1. run[f].pc # "idle" /\ events'[run'[f].req] = events[run[f].req]
    BY <1>1, <1>3, <1>4
  <2>2. Asset(f)' = Asset(f)
    BY <2>1 DEF Asset
  <2>. QED  BY <1>2, <1>4, <2>1, <2>2, RecordedStays DEF Migrated
<1>5. CASE CloudFormation
  BY <1>4, <1>5, CloudFormationFrame
<1>6. CASE Lambda
  <2>1. ASSUME NEW r \in Requests, Deliver(r, f)
        PROVE  True(f)'
    <3>1. /\ run'[f].req = r /\ events' = events
          /\ run'[f].pc = IF events[r].type = "Delete" THEN "respond" ELSE "secret"
      BY <2>1 DEF Deliver, TypeOK, cfnVars
    <3>. QED  BY <3>1
  <2>2. ASSUME NEW r \in Requests, NEW e \in Envs, e # f, Deliver(r, e)
        PROVE  run'[f] = run[f]
    BY <2>2 DEF Deliver, TypeOK
  <2>3. ASSUME NEW r \in Requests, Duplicate(r)
        PROVE  run'[f] = run[f]
    BY <2>3 DEF Duplicate
  <2>4. ASSUME NEW e \in Envs, Crash(e) \/ Recycle(e)
        PROVE  run'[f] = run[f]
    BY <1>1, <2>4 DEF Crash, Recycle, FunctionError, TypeOK, Idle
  <2>. QED  BY <1>4, <1>6, <2>1, <2>2, <2>3, <2>4 DEF Lambda
<1>7. ASSUME NEW e \in Envs, e # f, Handler(e)
      PROVE  True(f)'
  BY <1>4, <1>7, HandlerFrame
<1>8. CASE Handler(f)
  <2>1. ASSUME ~Respond(f)
        PROVE  run[f].pc \in Steps \ {"respond"}
    BY <1>8, <2>1 DEF Handler, FetchSecret, CreateFile, Download, Unzip, Configure, Validate,
       Migrate, ApplyNext, Escape, At, Steps
  <2>2. ~Respond(f)
    BY <1>1 DEF Respond, Idle, TypeOK
  <2>3. run[f].pc # "idle" /\ run[f].pc # "respond"
    BY <2>1, <2>2 DEF Steps
  <2>4. events[run[f].req].type # "Delete"
    BY <1>2, <2>3
  <2>5. run'[f].req = run[f].req
    BY <1>1, <1>8, <2>2 DEF Handler, FetchSecret, CreateFile, Download, Unzip, Configure,
       Validate, Migrate, ApplyNext, Escape, FunctionError, Idle, Goto, Answer, Caught,
       TypeOK, RunType
  <2>6. events'[run'[f].req] = events[run[f].req] /\ Asset(f)' = Asset(f)
    BY <1>3, <2>3, <2>5 DEF Asset
  <2>7. SUFFICES ASSUME run'[f].pc = "respond", run'[f].status = "SUCCESS"
                 PROVE  Migrated(Asset(f))'
    BY <2>4, <2>6
  <2>8. ApplyNext(f) /\ Pending(rows, run[f].dir) = {}
    <3>1. CASE FetchSecret(f) \/ CreateFile(f) \/ Download(f)
      BY <2>7, <3>1 DEF FetchSecret, CreateFile, Download, Goto, TypeOK, RunType
    <3>2. CASE Unzip(f)
      BY <2>7, <3>2 DEF Unzip, Goto, TypeOK, RunType
    <3>3. CASE Configure(f) \/ Validate(f) \/ Migrate(f)
      BY <2>7, <3>3 DEF Configure, Validate, Migrate, Goto, Caught, Answer, TypeOK, RunType
    <3>4. CASE Escape(f)
      BY <2>7, <3>4 DEF Escape, FunctionError, Idle, TypeOK
    <3>5. CASE ApplyNext(f)
      BY <2>7, <3>5 DEF ApplyNext, At, Goto, Caught, Answer, TypeOK, RunType
    <3>. QED  BY <1>8, <2>2, <3>1, <3>2, <3>3, <3>4, <3>5 DEF Handler
  <2>9. run[f].dir = Content[Asset(f)] /\ Asset(f) \in Assets
    BY <2>8, <2>3, AssetFacts DEF WorksOnItsAsset, ApplyNext, At
  <2>10. Migrated(Asset(f))
    BY <2>8, <2>9, NothingPending DEF TypeOK
  <2>. QED  BY <2>6, <2>10, RecordedStays DEF Migrated
<1>. QED  BY <1>5, <1>6, <1>7, <1>8 DEF Next

\* A request leaves what is held to CloudFormation.
LEMMA IssueHolds ==
    ASSUME NEW status, NEW type, NEW a, Issue(status, type, a)
    PROVE  stack'.status = status /\ stack'.asset = stack.asset
BY DEF Issue

\* A failed answer too.
LEMMA FailureHolds ==
    ASSUME StackOK, stack.status \in Open, NEW pid, stack' = Close("FAILED", pid),
           stack'.status \in Held
    PROVE  stack.status \in Held /\ stack'.asset = stack.asset
BY DEF Close, After, Open, Held

\* What is held is migrated.
LEMMA LiveStep ==
    ASSUME TypeOK, StackOK, TableOK, WorksOnItsAsset, AnswersAreTrue, LiveMeansMigrated, Next
    PROVE  LiveMeansMigrated'
<1>1. SUFFICES ASSUME stack'.status \in Held
               PROVE  Migrated(stack.asset)'
  BY DEF LiveMeansMigrated
<1>2. CASE stack.status \in Held /\ stack'.asset = stack.asset
  BY <1>2, RecordedStays DEF LiveMeansMigrated, Migrated
<1>3. CASE UNCHANGED stack
  BY <1>1, <1>2, <1>3
<1>4. ASSUME NEW a \in Assets, Deploy(a)
      PROVE  Migrated(stack.asset)'
  <2>1. CASE stack.status = "none" /\ Issue("creating", "Create", a)
    <3>1. stack'.status = "creating"
      BY <2>1, IssueHolds
    <3>. QED  BY <1>1, <3>1 DEF Held
  <2>2. CASE stack.status = "live" /\ Issue("updating", "Update", a)
    <3>1. stack'.asset = stack.asset
      BY <2>2, IssueHolds
    <3>. QED  BY <1>2, <2>2, <3>1 DEF Held
  <2>. QED  BY <1>4, <2>1, <2>2 DEF Deploy
<1>5. CASE RollBack
  <2>1. stack'.asset = stack.asset
    BY <1>5, IssueHolds DEF RollBack
  <2>. QED  BY <1>2, <1>5, <2>1 DEF RollBack, Held
<1>5a. CASE Destroy
  <2>1. stack'.status = "deleting"
    BY <1>5a, IssueHolds DEF Destroy
  <2>. QED  BY <1>1, <2>1 DEF Held
<1>6. CASE GiveUp
  BY <1>1, <1>2, <1>6, FailureHolds DEF GiveUp
<1>7. CASE Lambda
  BY <1>3, <1>7 DEF Lambda, Deliver, Duplicate, Crash, Recycle, cfnVars
<1>8. ASSUME NEW e \in Envs, Respond(e)
      PROVE  Migrated(stack.asset)'
  <2>1. CASE UNCHANGED stack
    BY <1>3, <2>1
  <2>2. CASE run[e].req = stack.req /\ stack' = Close(run[e].status, run[e].pid)
    <3>1. /\ run[e].pc = "respond" /\ run[e].status \in {"SUCCESS", "FAILED"}
          /\ stack.req \in 1..Len(events)
      BY <1>8, <2>2 DEF Respond, At, TypeOK, RunType
    <3>2. stack.status \in Open
      BY <3>1 DEF StackOK
    <3>3. CASE run[e].status = "FAILED"
      BY <1>1, <1>2, <2>2, <3>2, <3>3, FailureHolds
    <3>4. CASE run[e].status = "SUCCESS"
      <4>1. /\ events[run[e].req].type = RequestOf[stack.status]
            /\ Asset(e) = stack.target
        BY <2>2, <3>2 DEF StackOK, Asset
      <4>2. stack.status # "deleting" /\ stack'.asset = stack.target
        BY <1>1, <2>2, <3>2, <3>4 DEF Close, After, Open, Held
      <4>3. events[run[e].req].type # "Delete"
        BY <3>2, <4>1, <4>2 DEF RequestOf, Open
      <4>4. Migrated(stack.target)
        BY <3>1, <3>4, <4>1, <4>3 DEF AnswersAreTrue
      <4>. QED  BY <4>2, <4>4, RecordedStays DEF Migrated
    <3>. QED  BY <3>1, <3>3, <3>4
  <2>. QED  BY <1>8, <2>1, <2>2 DEF Respond
<1>9. ASSUME NEW e \in Envs, Handler(e), ~Respond(e)
      PROVE  Migrated(stack.asset)'
  BY <1>3, <1>9 DEF Handler, FetchSecret, CreateFile, Download, Unzip, Configure,
     Validate, Migrate, ApplyNext, Escape, cfnVars
<1>10. CASE CloudFormation
  BY <1>4, <1>5, <1>5a, <1>6, <1>10 DEF CloudFormation
<1>11. CASE \E e \in Envs : Handler(e)
  BY <1>8, <1>9, <1>11
<1>. QED  BY <1>7, <1>10, <1>11 DEF Next

\* The inductive invariant is one.
THEOREM IInvCorrect ==
    ASSUME GrowingAssets
    PROVE  Spec => []IInv
<1>1. Init => IInv
  <2>. SUFFICES ASSUME Init  PROVE IInv
    OBVIOUS
  <2>1. rows = <<>> /\ stack.status = "none" /\ \A e \in Envs : run[e].pc = "idle"
    BY DEF Init, Idle
  <2>2. HistoryDense /\ AnswersAreTrue /\ LiveMeansMigrated
    BY <2>1 DEF HistoryDense, AnswersAreTrue, LiveMeansMigrated, Held
  <2>. QED  BY <2>2, BaseInit DEF BaseInv, IInv
<1>2. IInv /\ [Next]_vars => IInv'
  <2>1. CASE IInv /\ Next
    BY <2>1, TypeStep, TableStep, WorksOnItsAssetStep, DenseStep, AnswersStep, LiveStep DEF IInv
  <2>2. CASE IInv /\ UNCHANGED vars
    BY <2>2 DEF IInv, vars, cfnVars, lambdaVars, dbVars, TypeOK, StackOK, TableOK,
       WorksOnItsAsset, Asset, HistoryDense, AnswersAreTrue, LiveMeansMigrated, Migrated
  <2>. QED  BY <2>1, <2>2
<1>. QED  BY <1>1, <1>2, PTL DEF Spec

\* The promise of the custom resource: while CloudFormation holds it, the
\* scripts of the asset it holds are all in the history, whatever duplicate,
\* late, crashed or abandoned invocations do (DBMigratorHandler.java:134-142).
THEOREM LiveMeansMigratedAlways ==
    ASSUME GrowingAssets
    PROVE  Spec => []LiveMeansMigrated
<1>1. IInv => LiveMeansMigrated
  BY DEF IInv
<1>. QED  BY <1>1, IInvCorrect, PTL
=============================================================================

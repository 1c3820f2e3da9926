--------------------------- MODULE ValidityProofs ---------------------------
(***************************************************************************)
(* Proofs about what is live as long as Lambda has repeated no event and   *)
(* CloudFormation waits for every answer: the handler then works alone,    *)
(* and what its validate found still holds when it answers.  Nothing is    *)
(* asked of the assets, which may edit, skip or drop scripts.              *)
(***************************************************************************)
EXTENDS DispatchProofs, FlywayProofs

-----------------------------------------------------------------------------
\* Whatever is queued or under way is for the open request, and there is one
\* of it: an event that waits, or an invocation that runs.
Alone ==
    /\ \A r \in queue : stack.status \in Open /\ r = stack.req
    /\ \A e \in Envs : run[e].pc # "idle" =>
         /\ stack.status \in Open /\ run[e].req = stack.req
         /\ queue = {}
         /\ \A f \in Envs : run[f].pc # "idle" => f = e

\* What validate found goes on to hold while migrate works, and nothing has
\* to be excused when it is done.
ValidWork ==
    \A e \in Envs :
        /\ run[e].pc = "apply" => Valid(rows, Content[Asset(e)], IgnorePatterns)
        /\ /\ run[e].pc = "respond" /\ run[e].status = "SUCCESS"
           /\ events[run[e].req].type # "Delete"
           => Valid(rows, Content[Asset(e)], {})

\* Lambda has not repeated an event so far.
NoRepeats == duplicates = MaxDuplicates

ValidityInv == DispatchInv /\ (NoRepeats => Alone /\ ValidWork /\ LiveIsValid)

LEMMA ValidityInit == Init => ValidityInv
<1>. SUFFICES ASSUME Init  PROVE ValidityInv
  OBVIOUS
<1>1. DispatchInv
  BY DispatchInit
<1>2. \A e \in Envs : run[e].pc = "idle"
  BY DEF Init, Idle
<1>3. Alone /\ ValidWork /\ LiveIsValid
  BY <1>2 DEF Init, Alone, ValidWork, LiveIsValid
<1>. QED  BY <1>1, <1>3 DEF ValidityInv

-----------------------------------------------------------------------------
(***************************************************************************)
(* The handler works alone.                                                *)
(***************************************************************************)

\* A request is only sent when the last one is answered.
LEMMA IssueAlone ==
    ASSUME TypeOK, Alone, stack.status \notin Open,
           NEW status \in Open, NEW type, NEW a, Issue(status, type, a)
    PROVE  Alone'
<1>1. queue = {} /\ \A e \in Envs : run[e].pc = "idle"
  BY DEF Alone
<1>2. /\ queue' = {Len(events) + 1} /\ UNCHANGED run
      /\ stack'.status = status /\ stack'.req = Len(events) + 1
  BY <1>1 DEF Issue
<1>. QED  BY <1>1, <1>2 DEF Alone

\* The event of an invocation that ends in a function error waits again.
LEMMA FunctionErrorAlone ==
    ASSUME TypeOK, Alone, NEW e \in Envs, run[e].pc # "idle",
           FunctionError(e), UNCHANGED stack
    PROVE  Alone'
<1>1. /\ stack.status \in Open /\ run[e].req = stack.req /\ queue = {}
      /\ \A f \in Envs \ {e} : run[f].pc = "idle"
  BY DEF Alone
<1>2. \A f \in Envs : run'[f].pc = "idle"
  BY <1>1 DEF FunctionError, TypeOK, Idle
<1>3. queue' \subseteq {stack.req}
  BY <1>1 DEF FunctionError
<1>. QED  BY <1>1, <1>2, <1>3 DEF Alone

LEMMA LambdaAlone ==
    ASSUME UNCHANGED duplicates, TypeOK, Alone, Lambda
    PROVE  Alone'
<1>1. ASSUME NEW r \in Requests, NEW e \in Envs, Deliver(r, e)
      PROVE  Alone'
  <2>1. r \in queue
    BY <1>1 DEF Deliver
  <2>2. /\ stack.status \in Open /\ r = stack.req /\ queue = {r}
        /\ \A f \in Envs : run[f].pc = "idle"
    BY <2>1 DEF Alone
  <2>3. /\ queue' = {} /\ UNCHANGED stack
        /\ run'[e].req = r /\ \A f \in Envs \ {e} : run'[f] = run[f]
    BY <1>1, <2>2 DEF Deliver, cfnVars, TypeOK
  <2>. QED  BY <2>2, <2>3 DEF Alone
<1>2. ASSUME NEW r \in Requests, Duplicate(r)
      PROVE  FALSE
  BY <1>2 DEF Duplicate, TypeOK
<1>3. ASSUME NEW e \in Envs, Crash(e)
      PROVE  Alone'
  BY <1>3, FunctionErrorAlone DEF Crash, cfnVars
<1>4. ASSUME NEW e \in Envs, Recycle(e)
      PROVE  Alone'
  BY <1>4 DEF Recycle, cfnVars, lambdaVars, Alone
<1>. QED  BY <1>1, <1>2, <1>3, <1>4 DEF Lambda

LEMMA HandlerAlone ==
    ASSUME TypeOK, StackOK, Alone, NEW e \in Envs, Handler(e)
    PROVE  Alone'
<1>1. run[e].pc # "idle"
  BY DEF Handler, FetchSecret, CreateFile, Download, Unzip, Configure, Validate,
     Migrate, ApplyNext, Respond, Escape, At
<1>2. /\ stack.status \in Open /\ run[e].req = stack.req /\ queue = {}
      /\ \A f \in Envs \ {e} : run[f].pc = "idle"
  BY <1>1 DEF Alone
<1>3. \A f \in Envs \ {e} : run'[f].pc = "idle"
  BY <1>2, HandlerFrame
<1>4. CASE Respond(e)
  <2>1. run'[e].pc = "idle" /\ UNCHANGED queue
    BY <1>4 DEF Respond, lambdaVars, TypeOK, Idle
  <2>. QED  BY <1>2, <1>3, <2>1 DEF Alone
<1>5. CASE Escape(e) /\ FunctionError(e)
  BY <1>1, <1>5, FunctionErrorAlone DEF Escape, cfnVars
<1>6. CASE UNCHANGED <<stack, queue>>
  <2>1. run'[e].pc # "idle" => run'[e].req = run[e].req
    BY HandlerKeeps
  <2>. QED  BY <1>2, <1>3, <1>6, <2>1 DEF Alone
<1>7. Respond(e) \/ (Escape(e) /\ FunctionError(e)) \/ UNCHANGED <<stack, queue>>
  BY DEF Handler, FetchSecret, CreateFile, Download, Unzip, Configure, Validate,
     Migrate, ApplyNext, Escape, cfnVars, lambdaVars
<1>. QED  BY <1>4, <1>5, <1>6, <1>7

LEMMA AloneStep ==
    ASSUME UNCHANGED duplicates, "cfnTimeout" \notin Faults, TypeOK, StackOK, Alone, Next
    PROVE  Alone'
<1>1. CASE CloudFormation
  <2>1. ~GiveUp
    BY DEF GiveUp
  <2>2. ASSUME NEW a \in Assets, Deploy(a)
        PROVE  Alone'
    BY <2>2, IssueAlone DEF Deploy, Open
  <2>3. CASE RollBack
    BY <2>3, IssueAlone DEF RollBack, Open
  <2>4. CASE Destroy
    BY <2>4, IssueAlone DEF Destroy, Open
  <2>. QED  BY <1>1, <2>1, <2>2, <2>3, <2>4 DEF CloudFormation
<1>2. CASE Lambda
  BY <1>2, LambdaAlone
<1>3. CASE \E e \in Envs : Handler(e)
  BY <1>3, HandlerAlone
<1>. QED  BY <1>1, <1>2, <1>3 DEF Next

-----------------------------------------------------------------------------
(***************************************************************************)
(* What validate found still holds.                                        *)
(***************************************************************************)

\* The next step of the invocation under way.
LEMMA HandlerValid ==
    ASSUME BaseInv, ValidWork, NEW e \in Envs, Handler(e)
    PROVE  LET content == Content[Asset(e)] IN
           /\ run'[e].pc = "apply" => Valid(rows', content, IgnorePatterns)
           /\ run'[e].pc = "respond" /\ run'[e].status = "SUCCESS"
                => Valid(rows', content, {})
<1>. DEFINE content == Content[Asset(e)]
            Good == /\ run'[e].pc = "apply" => Valid(rows', content, IgnorePatterns)
                    /\ run'[e].pc = "respond" /\ run'[e].status = "SUCCESS"
                         => Valid(rows', content, {})
<1>. USE DEF BaseInv
<1>0. run[e].pc # "idle" => content \in ScriptSets
  BY AssetFacts, ScriptSetsExist
<1>1. ASSUME NEW pc, Goto(e, pc), pc \notin {"apply", "respond"}
      PROVE  Good
  BY <1>1 DEF Goto, TypeOK, RunType
<1>2. ASSUME Answer(e, "FAILED")
      PROVE  Good
  BY <1>2 DEF Answer, TypeOK, RunType
<1>3. CASE FetchSecret(e) \/ CreateFile(e) \/ Download(e)
  BY <1>1, <1>3 DEF FetchSecret, CreateFile, Download
<1>4. CASE Unzip(e)
  <2>1. CASE Goto(e, "escape")
    BY <1>1, <2>1
  <2>2. CASE run' = [run EXCEPT ![e].pc = "config", ![e].dir = Content[Asset(e)]]
    BY <2>2 DEF TypeOK, RunType
  <2>. QED  BY <1>4, <2>1, <2>2 DEF Unzip
<1>5. CASE Configure(e) \/ Validate(e)
  BY <1>1, <1>2, <1>5 DEF Configure, Validate, Caught
<1>6. CASE Migrate(e)
  <2>1. CASE Caught(e)
    BY <1>1, <1>2, <2>1 DEF Caught
  <2>2. CASE /\ Valid(rows, run[e].dir, IgnorePatterns)
             /\ Goto(e, "apply")
             /\ rows' = IF ~table /\ populated THEN <<BaselineRow>> ELSE rows
    <3>1. run[e].dir = content /\ content \in ScriptSets
      BY <1>0, <1>6 DEF Migrate, At, WorksOnItsAsset
    <3>2. Valid(rows', content, IgnorePatterns)
      BY <2>2, <3>1, BaselineIsValid DEF IgnorePatterns
    <3>3. run'[e].pc = "apply"
      BY <2>2 DEF Goto, TypeOK, RunType
    <3>. QED  BY <3>2, <3>3
  <2>. QED  BY <1>6, <2>1, <2>2 DEF Migrate
<1>7. CASE ApplyNext(e)
  <2>0. /\ run[e].dir = content /\ content \in ScriptSets /\ rows \in Seq(Rows)
        /\ Valid(rows, content, {"pending"}) /\ run[e].pc = "apply"
    BY <1>0, <1>7 DEF ApplyNext, At, WorksOnItsAsset, TypeOK, ValidWork, IgnorePatterns
  <2>1. CASE Caught(e)
    BY <1>1, <1>2, <2>1 DEF Caught
  <2>2. ASSUME NEW v \in Pending(rows, content), NextScript(rows, content, v),
               rows' = Append(rows, SqlRow(v, content[v])), UNCHANGED run
        PROVE  Good
    <3>1. Valid(rows', content, {"pending"})
      BY <2>0, <2>2, MigrateKeepsValid
    <3>. QED  BY <2>0, <2>2, <3>1 DEF IgnorePatterns
  <2>3. CASE Pending(rows, content) = {} /\ Answer(e, "SUCCESS") /\ UNCHANGED rows
    <3>1. Valid(rows', content, {})
      BY <2>0, <2>3, ValidWhenDone
    <3>2. run'[e].pc = "respond"
      BY <2>3 DEF Answer, TypeOK, RunType
    <3>. QED  BY <3>1, <3>2
  <2>. QED  BY <1>7, <2>0, <2>1, <2>2, <2>3 DEF ApplyNext
<1>8. CASE Respond(e)
  BY <1>8 DEF Respond, Idle, TypeOK
<1>9. CASE Escape(e)
  BY <1>9 DEF Escape, FunctionError, Idle, TypeOK
<1>. QED  BY <1>3, <1>4, <1>5, <1>6, <1>7, <1>8, <1>9 DEF Handler

LEMMA ValidWorkStep ==
    ASSUME BaseInv, Alone, ValidWork, Next
    PROVE  ValidWork'
<1>. USE DEF BaseInv
<1>0. \A f \in Envs : run[f].pc # "idle" => events'[run[f].req] = events[run[f].req]
  BY EventsKept DEF TypeOK
<1>1. ASSUME NEW f \in Envs, run'[f] = run[f], UNCHANGED rows
      PROVE  /\ run'[f].pc = "apply" => Valid(rows', Content[Asset(f)'], IgnorePatterns)
             /\ /\ run'[f].pc = "respond" /\ run'[f].status = "SUCCESS"
                /\ events'[run'[f].req].type # "Delete"
                => Valid(rows', Content[Asset(f)'], {})
  BY <1>0, <1>1 DEF ValidWork, Asset
<1>2. CASE CloudFormation
  BY <1>1, <1>2, CloudFormationFrame DEF dbVars, ValidWork
<1>3. CASE Lambda
  <2>. DEFINE Answers(f) == run'[f].pc = "respond" /\ events'[run'[f].req].type = "Delete"
  <2>1. UNCHANGED rows
    BY <1>3 DEF Lambda, Deliver, Duplicate, Crash, Recycle, dbVars
  <2>2. ASSUME NEW f \in Envs
        PROVE  run'[f] = run[f] \/ run'[f].pc \notin {"apply", "respond"} \/ Answers(f)
    <3>1. ASSUME NEW r \in Requests, NEW e \in Envs, Deliver(r, e)
          PROVE  run'[f] = run[f] \/ run'[f].pc \notin {"apply", "respond"} \/ Answers(f)
      <4>1. CASE f = e
        <5>1. run'[e].pc = IF events[r].type = "Delete" THEN "respond" ELSE "secret"
          BY <3>1 DEF Deliver, TypeOK
        <5>. QED  BY <3>1, <4>1, <5>1, DeliverDispatches
      <4>2. CASE f # e
        BY <3>1, <4>2, DeliverDispatches
      <4>. QED  BY <4>1, <4>2
    <3>2. ASSUME NEW e \in Envs, Crash(e)
          PROVE  run'[f] = run[f] \/ run'[f].pc = "idle"
      BY <3>2 DEF Crash, FunctionError, Idle, TypeOK
    <3>3. ASSUME (\E r \in Requests : Duplicate(r)) \/ (\E e \in Envs : Recycle(e))
          PROVE  run'[f] = run[f]
      BY <3>3 DEF Duplicate, Recycle
    <3>. QED  BY <1>3, <3>1, <3>2, <3>3 DEF Lambda
  <2>. QED  BY <1>1, <2>1, <2>2 DEF ValidWork
<1>4. ASSUME NEW e \in Envs, Handler(e)
      PROVE  ValidWork'
  <2>1. run[e].pc # "idle"
    BY <1>4 DEF Handler, FetchSecret, CreateFile, Download, Unzip, Configure, Validate,
       Migrate, ApplyNext, Respond, Escape, At
  <2>2. \A f \in Envs \ {e} : run'[f].pc = "idle"
    BY <1>4, <2>1, HandlerFrame DEF Alone
  <2>3. run'[e].pc # "idle" => Asset(e)' = Asset(e)
    BY <1>0, <1>4, <2>1, HandlerKeeps DEF Asset
  <2>4. /\ run'[e].pc = "apply" => Valid(rows', Content[Asset(e)'], IgnorePatterns)
        /\ run'[e].pc = "respond" /\ run'[e].status = "SUCCESS"
             => Valid(rows', Content[Asset(e)'], {})
    BY <1>4, <2>3, HandlerValid
  <2>. QED  BY <2>2, <2>4 DEF ValidWork
<1>. QED  BY <1>2, <1>3, <1>4 DEF Next

\* What goes live was validated by the answer that made it so, and nothing
\* touches the history until the next request.
LEMMA LiveValidStep ==
    ASSUME DispatchInv, Alone, ValidWork, LiveIsValid, Next
    PROVE  LiveIsValid'
<1>. USE DEF DispatchInv, BaseInv
<1>. SUFFICES ASSUME stack'.status = "live"
              PROVE  Valid(rows', Content[stack'.asset], {})
  BY DEF LiveIsValid
<1>1. ASSUME NEW status \in Open, NEW type, NEW a, Issue(status, type, a)
      PROVE  FALSE
  BY <1>1 DEF Issue, Open
<1>2. CASE stack' = stack
  <2>1. \A e \in Envs : run[e].pc = "idle"
    BY <1>2 DEF Alone, Open
  <2>2. UNCHANGED rows
    BY <2>1, RowsStep
  <2>. QED  BY <1>2, <2>2 DEF LiveIsValid
<1>3. CASE stack.status \in Open /\ stack' = Close("FAILED", stack.pid)
  BY <1>3 DEF Close, After, Open
<1>4. ASSUME NEW e \in Envs, run[e].pc = "respond", run[e].req = stack.req,
             stack' = Close(run[e].status, run[e].pid)
      PROVE  Valid(rows', Content[stack'.asset], {})
  <2>1. stack.status \in Open /\ run[e].status \in {"SUCCESS", "FAILED"}
    BY <1>4, AnswersTheOpenOne
  <2>2. run[e].status = "SUCCESS" /\ stack.status # "deleting"
    BY <1>4, <2>1 DEF Close, After, Open
  <2>3. events[run[e].req].type # "Delete" /\ Asset(e) = stack.target
    BY <1>4, <2>1, <2>2 DEF StackOK, RequestOf, Open, Asset
  <2>4. stack'.asset = stack.target
    BY <1>4, <2>2 DEF Close
  <2>5. \A f \in Envs : run[f].pc \notin {"migrate", "apply"}
    BY <1>4 DEF Alone
  <2>6. UNCHANGED rows
    BY <2>5, RowsStep
  <2>. QED  BY <1>4, <2>2, <2>3, <2>4, <2>6 DEF ValidWork
<1>. QED  BY <1>1, <1>2, <1>3, <1>4, StackStep

\* Repeats are only ever used up.
LEMMA RepeatsStay ==
    ASSUME TypeOK, Next, NoRepeats'
    PROVE  NoRepeats /\ UNCHANGED duplicates
<1>1. MaxDuplicates \in Nat /\ duplicates \in 0..MaxDuplicates
  BY DBMigratorAssumption DEF TypeOK
<1>2. duplicates' = duplicates \/ duplicates' = duplicates - 1
  BY DEF Next, CloudFormation, Deploy, RollBack, Destroy, Issue, GiveUp, Lambda, Deliver,
     Duplicate, Crash, Recycle, Handler, FetchSecret, CreateFile, Download, Unzip,
     Configure, Validate, Migrate, ApplyNext, Respond, Escape, lambdaVars
<1>. QED  BY <1>1, <1>2 DEF NoRepeats

LEMMA ValidityStep ==
    ASSUME "cfnTimeout" \notin Faults
    PROVE  ValidityInv /\ [Next]_vars => ValidityInv'
<1>. SUFFICES ASSUME ValidityInv, [Next]_vars  PROVE ValidityInv'
  OBVIOUS
<1>0. DispatchInv /\ DispatchInv'
  BY DispatchStep DEF ValidityInv
<1>1. CASE Next /\ NoRepeats'
  <2>1. NoRepeats /\ UNCHANGED duplicates
    BY <1>0, <1>1, RepeatsStay DEF DispatchInv, BaseInv
  <2>2. Alone /\ ValidWork /\ LiveIsValid
    BY <2>1 DEF ValidityInv
  <2>. QED  BY <1>0, <1>1, <2>1, <2>2, AloneStep, ValidWorkStep, LiveValidStep
            DEF ValidityInv, DispatchInv, BaseInv
<1>2. CASE UNCHANGED vars
  BY <1>0, <1>2 DEF ValidityInv, NoRepeats, Alone, ValidWork, LiveIsValid, Asset, vars,
     cfnVars, lambdaVars, dbVars
<1>. QED  BY <1>0, <1>1, <1>2 DEF ValidityInv

-----------------------------------------------------------------------------
\* While no event has been repeated there is never more than one invocation
\* at work, and it answers the open request: crashes, retries and lost
\* answers do not change that.
THEOREM HandlerWorksAlone ==
    ASSUME "cfnTimeout" \notin Faults
    PROVE  Spec => [](NoRepeats => Alone)
<1>1. ValidityInv => (NoRepeats => Alone)
  BY DEF ValidityInv
<1>. QED  BY <1>1, ValidityInit, ValidityStep, PTL DEF Spec

\* For any assets: what is live validates without an excuse against the
\* scripts it was deployed with, up to the first event that is repeated
\* (DBMigratorHandler.java:134-142).
THEOREM LiveIsValidUntilRepeats ==
    ASSUME "cfnTimeout" \notin Faults
    PROVE  Spec => [](NoRepeats => LiveIsValid)
<1>1. ValidityInv => (NoRepeats => LiveIsValid)
  BY DEF ValidityInv
<1>. QED  BY <1>1, ValidityInit, ValidityStep, PTL DEF Spec

\* In particular: if Lambda repeats none, what is live always validates.
THEOREM LiveIsValidAlways ==
    ASSUME MaxDuplicates = 0, "cfnTimeout" \notin Faults
    PROVE  Spec => []LiveIsValid
<1>1. ValidityInv => LiveIsValid
  BY DEF ValidityInv, DispatchInv, BaseInv, TypeOK, NoRepeats
<1>. QED  BY <1>1, ValidityInit, ValidityStep, PTL DEF Spec
=============================================================================

--------------------------- MODULE DispatchProofs ---------------------------
(***************************************************************************)
(* Proofs of the action properties of DBMigrator: what a step may never do *)
(* to the history and to the physical id.  Both come down to what          *)
(* handleRequest's dispatch gave an invocation at its beginning.           *)
(***************************************************************************)
EXTENDS DBMigratorProofs

-----------------------------------------------------------------------------
\* A delete is never on its way to the database, and whatever answers an
\* update (or a delete) with success carries the id of the request.
Dispatched ==
    \A e \in Envs : run[e].pc # "idle" =>
        /\ run[e].pc # "respond" => events[run[e].req].type # "Delete"
        /\ /\ events[run[e].req].type # "Create"
           /\ run[e].pc # "respond" \/ run[e].status # "FAILED"
           => run[e].pid = events[run[e].req].pid

\* The open request carries the id that the stack holds.
IdSent == stack.status \in Open => events[stack.req].pid = stack.pid

DispatchInv == BaseInv /\ Dispatched /\ IdSent

LEMMA DispatchInit == Init => DispatchInv
<1>. SUFFICES ASSUME Init  PROVE DispatchInv
  OBVIOUS
<1>1. BaseInv
  BY BaseInit
<1>2. Dispatched /\ IdSent
  BY DEF Init, Idle, Open, Dispatched, IdSent
<1>. QED  BY <1>1, <1>2 DEF DispatchInv

\* A step of the handler that does not end the invocation stays on its
\* request, and either keeps the id or answers FAILED.
LEMMA HandlerKeeps ==
    ASSUME TypeOK, NEW e \in Envs, Handler(e), run'[e].pc # "idle"
    PROVE  /\ run[e].pc \notin {"idle", "respond"}
           /\ run'[e].req = run[e].req
           /\ run'[e].pid = run[e].pid \/ (run'[e].pc = "respond" /\ run'[e].status = "FAILED")
<1>1. ASSUME NEW pc, Goto(e, pc)
      PROVE  run'[e].req = run[e].req /\ run'[e].pid = run[e].pid
  BY <1>1 DEF Goto, TypeOK, RunType
<1>2. ASSUME NEW status, Answer(e, status)
      PROVE  run'[e].req = run[e].req /\ run'[e].pid = run[e].pid
  BY <1>2 DEF Answer, TypeOK, RunType
<1>3. CASE FetchSecret(e) \/ CreateFile(e) \/ Download(e)
  BY <1>1, <1>3 DEF FetchSecret, CreateFile, Download, At
<1>4. CASE Unzip(e)
  BY <1>1, <1>4 DEF Unzip, At, TypeOK, RunType
<1>5. CASE Configure(e) \/ Validate(e) \/ Migrate(e) \/ ApplyNext(e)
  BY <1>1, <1>2, <1>5 DEF Configure, Validate, Migrate, ApplyNext, Caught, At
<1>6. CASE Respond(e)
  BY <1>6 DEF Respond, Idle, TypeOK
<1>7. CASE Escape(e)
  BY <1>7 DEF Escape, FunctionError, Idle, At, TypeOK
<1>. QED  BY <1>3, <1>4, <1>5, <1>6, <1>7 DEF Handler

\* An invocation that was delivered.
LEMMA DeliverDispatches ==
    ASSUME TypeOK, NEW r \in Requests, NEW e \in Envs, Deliver(r, e)
    PROVE  /\ run'[e].req = r
           /\ run'[e].pc # "respond" => events[r].type # "Delete"
           /\ events[r].type # "Create" => run'[e].pid = events[r].pid
           /\ \A f \in Envs \ {e} : run'[f] = run[f]
           /\ UNCHANGED events
BY DEF Deliver, TypeOK, cfnVars

LEMMA DispatchedStep ==
    ASSUME TypeOK, Dispatched, Next
    PROVE  Dispatched'
<1>1. \A f \in Envs : run[f].pc # "idle" => events'[run[f].req] = events[run[f].req]
  BY EventsKept DEF TypeOK
<1>. SUFFICES ASSUME NEW f \in Envs, run'[f].pc # "idle"
              PROVE  /\ run'[f].pc # "respond" => events'[run'[f].req].type # "Delete"
                     /\ /\ events'[run'[f].req].type # "Create"
                        /\ run'[f].pc # "respond" \/ run'[f].status # "FAILED"
                        => run'[f].pid = events'[run'[f].req].pid
  BY DEF Dispatched
<1>2. CASE run'[f] = run[f]
  BY <1>1, <1>2 DEF Dispatched
<1>3. CASE CloudFormation
  BY <1>2, <1>3, CloudFormationFrame
<1>4. CASE Lambda
  <2>1. ASSUME NEW r \in Requests, NEW e \in Envs, Deliver(r, e)
        PROVE  /\ run'[f].pc # "respond" => events'[run'[f].req].type # "Delete"
               /\ /\ events'[run'[f].req].type # "Create"
                  /\ run'[f].pc # "respond" \/ run'[f].status # "FAILED"
                  => run'[f].pid = events'[run'[f].req].pid
    <3>1. CASE f = e
      BY <2>1, <3>1, DeliverDispatches
    <3>2. CASE f # e
      BY <1>2, <2>1, <3>2, DeliverDispatches
    <3>. QED  BY <3>1, <3>2
  <2>2. ASSUME NEW e \in Envs, Crash(e)
        PROVE  run'[f] = run[f]
    BY <2>2 DEF Crash, FunctionError, Idle, TypeOK
  <2>3. CASE (\E r \in Requests : Duplicate(r)) \/ (\E e \in Envs : Recycle(e))
    BY <1>2, <2>3 DEF Duplicate, Recycle
  <2>. QED  BY <1>2, <1>4, <2>1, <2>2, <2>3 DEF Lambda
<1>5. ASSUME NEW e \in Envs, Handler(e)
      PROVE  /\ run'[f].pc # "respond" => events'[run'[f].req].type # "Delete"
             /\ /\ events'[run'[f].req].type # "Create"
                /\ run'[f].pc # "respond" \/ run'[f].status # "FAILED"
                => run'[f].pid = events'[run'[f].req].pid
  <2>1. CASE f # e
    BY <1>2, <1>5, <2>1, HandlerFrame
  <2>2. CASE f = e
    BY <1>1, <1>5, <2>2, HandlerKeeps DEF Dispatched
  <2>. QED  BY <2>1, <2>2
<1>. QED  BY <1>3, <1>4, <1>5 DEF Next

\* Only CloudFormation's own steps and answers change the stack.
LEMMA StackStep ==
    ASSUME TypeOK, Next
    PROVE  \/ \E status \in Open : \E type, a : Issue(status, type, a)
           \/ stack' = stack /\ UNCHANGED events
           \/ /\ stack.status \in Open /\ UNCHANGED events
              /\ stack' = Close("FAILED", stack.pid) /\ "cfnTimeout" \in Faults
           \/ /\ UNCHANGED events
              /\ \E e \in Envs : /\ run[e].pc = "respond" /\ run[e].req = stack.req
                                 /\ stack' = Close(run[e].status, run[e].pid)
<1>1. CASE CloudFormation
  BY <1>1 DEF CloudFormation, Deploy, RollBack, Destroy, GiveUp, Open
<1>2. CASE Lambda
  BY <1>2 DEF Lambda, Deliver, Duplicate, Crash, Recycle, cfnVars
<1>3. ASSUME NEW e \in Envs, Handler(e)
      PROVE  UNCHANGED events /\ (stack' = stack \/
                (/\ run[e].pc = "respond" /\ run[e].req = stack.req
                 /\ stack' = Close(run[e].status, run[e].pid)))
  BY <1>3 DEF Handler, FetchSecret, CreateFile, Download, Unzip, Configure, Validate,
      Migrate, ApplyNext, Respond, Escape, At, cfnVars
<1>. QED  BY <1>1, <1>2, <1>3 DEF Next

\* An answer closes the request it belongs to.
LEMMA AnswersTheOpenOne ==
    ASSUME TypeOK, StackOK, NEW e \in Envs, run[e].pc = "respond", run[e].req = stack.req
    PROVE  stack.status \in Open /\ run[e].status \in {"SUCCESS", "FAILED"}
           /\ run[e].pid \in Ids
<1>1. run[e].req \in 1..Len(events) /\ Len(events) \in Nat
  BY DEF TypeOK
<1>2. stack.status \in Open
  BY <1>1 DEF StackOK
<1>. QED  BY <1>2 DEF TypeOK, RunType

LEMMA IdSentStep ==
    ASSUME DispatchInv, Next
    PROVE  IdSent'
<1>. USE DEF DispatchInv, BaseInv
<1>1. ASSUME NEW status, NEW type, NEW a, Issue(status, type, a)
      PROVE  IdSent'
  <2>. DEFINE ev == [type |-> type, asset |-> a, pid |-> stack.pid]
  <2>1. events' = Append(events, ev) /\ events \in Seq(EventType)
    BY <1>1 DEF Issue, TypeOK
  <2>2. events'[Len(events) + 1] = ev
    <3>. HIDE DEF ev
    <3>. QED  BY <2>1
  <2>3. ev.pid = stack.pid
    OBVIOUS
  <2>4. stack'.req = Len(events) + 1 /\ stack'.pid = stack.pid
    BY <1>1 DEF Issue
  <2>. QED  BY <2>2, <2>3, <2>4 DEF IdSent
<1>2. CASE stack' = stack /\ UNCHANGED events
  BY <1>2 DEF IdSent
<1>3. CASE stack.status \in Open /\ stack' = Close("FAILED", stack.pid)
  <2>1. stack.pid \in Ids
    BY DEF TypeOK, StackType
  <2>2. Close("FAILED", stack.pid).status \notin Open
    BY <1>3, <2>1, CloseFacts DEF TypeOK
  <2>. QED  BY <1>3, <2>2 DEF IdSent
<1>4. ASSUME NEW e \in Envs, run[e].pc = "respond", run[e].req = stack.req,
             stack' = Close(run[e].status, run[e].pid)
      PROVE  IdSent'
  <2>1. stack.status \in Open /\ run[e].status \in {"SUCCESS", "FAILED"}
        /\ run[e].pid \in Ids
    BY <1>4, AnswersTheOpenOne
  <2>2. Close(run[e].status, run[e].pid).status \notin Open
    BY <2>1, CloseFacts DEF TypeOK
  <2>. QED  BY <1>4, <2>2 DEF IdSent
<1>. QED  BY <1>1, <1>2, <1>3, <1>4, StackStep

LEMMA DispatchStep == DispatchInv /\ [Next]_vars => DispatchInv'
<1>1. CASE DispatchInv /\ Next
  BY <1>1, BaseStep, DispatchedStep, IdSentStep DEF DispatchInv, BaseInv
<1>2. CASE DispatchInv /\ UNCHANGED vars
  BY <1>2, BaseStep DEF DispatchInv, Dispatched, IdSent, vars, cfnVars
<1>. QED  BY <1>1, <1>2

\* The invariant holds in every reachable state.
THEOREM DispatchCorrect == Spec => []DispatchInv
<1>. QED  BY DispatchInit, DispatchStep, PTL DEF Spec

-----------------------------------------------------------------------------
\* An id that the stack has received stays: only the answer to a Create
\* brings another one.
LEMMA IdStays ==
    ASSUME DispatchInv, [Next]_vars, stack.status \notin {"none", "creating"}
    PROVE  stack'.pid = stack.pid
<1>. USE DEF DispatchInv, BaseInv
<1>1. CASE UNCHANGED vars
  BY <1>1 DEF vars, cfnVars
<1>2. CASE \E status \in Open : \E type, a : Issue(status, type, a)
  BY <1>2 DEF Issue
<1>3. CASE stack' = Close("FAILED", stack.pid)
  BY <1>3 DEF Close
<1>4. ASSUME NEW e \in Envs, run[e].pc = "respond", run[e].req = stack.req,
             stack' = Close(run[e].status, run[e].pid)
      PROVE  stack'.pid = stack.pid
  <2>0. stack.status \in Open
    BY <1>4, AnswersTheOpenOne
  <2>1. events[run[e].req].type # "Create"
    BY <1>4, <2>0 DEF StackOK, Open, RequestOf
  <2>2. events[run[e].req].pid = stack.pid
    BY <1>4, <2>0 DEF IdSent
  <2>3. run[e].status = "SUCCESS" => run[e].pid = stack.pid
    BY <1>4, <2>1, <2>2 DEF Dispatched
  <2>. QED  BY <1>4, <2>3 DEF Close
<1>. QED  BY <1>1, <1>2, <1>3, <1>4, StackStep

\* Whatever is retried, duplicated or answered late: once the stack has the
\* id of a Create, neither another id that the same Create minted nor an
\* update, a rollback or a delete changes it, which CloudFormation would take
\* for a replacement (DBMigratorHandler.java:92, 100).
THEOREM NoReplacementAlways == Spec => NoReplacement
<1>1. DispatchInv /\ [Next]_vars =>
        [stack.status \notin {"none", "creating"} => stack'.pid = stack.pid]_vars
  BY IdStays
<1>. QED  BY <1>1, DispatchCorrect, PTL DEF Spec, NoReplacement

\* Adding a row keeps those there are.
LEMMA PrefixFacts ==
    ASSUME rows \in Seq(Rows), NEW row, rows' = Append(rows, row)
    PROVE  /\ Len(rows) <= Len(rows')
           /\ rows = SubSeq(rows', 1, Len(rows))
           /\ rows'[Len(rows')] = row
OBVIOUS

LEMMA RowsOnlyGrow ==
    ASSUME DispatchInv, Next
    PROVE  /\ Len(rows) <= Len(rows')
           /\ rows = SubSeq(rows', 1, Len(rows))
           /\ rows' # rows => \E e \in Envs :
                /\ run[e].pc \in {"migrate", "apply"}
                /\ events[run[e].req].type # "Delete"
                /\ Len(rows) = 0 \/ rows'[Len(rows')].version \in DOMAIN Content[Asset(e)]
<1>. USE DEF DispatchInv, BaseInv
<1>0. rows \in Seq(Rows)
  BY DEF TypeOK
<1>1. CASE rows' = rows
  BY <1>0, <1>1
<1>2. ASSUME NEW e \in Envs, run[e].pc \in {"migrate", "apply"}
      PROVE  events[run[e].req].type # "Delete"
  BY <1>2 DEF Dispatched
<1>3. ASSUME rows' = <<BaselineRow>>, ~table, NEW e \in Envs, run[e].pc = "migrate"
      PROVE  /\ Len(rows) <= Len(rows')
             /\ rows = SubSeq(rows', 1, Len(rows))
             /\ Len(rows) = 0
  BY <1>3 DEF TableOK
<1>4. ASSUME NEW e \in Envs, NEW v \in Pending(rows, Content[Asset(e)]),
             rows' = Append(rows, SqlRow(v, Content[Asset(e)][v]))
      PROVE  /\ Len(rows) <= Len(rows')
             /\ rows = SubSeq(rows', 1, Len(rows))
             /\ rows'[Len(rows')].version \in DOMAIN Content[Asset(e)]
  <2>1. /\ Len(rows) <= Len(rows')
        /\ rows = SubSeq(rows', 1, Len(rows))
        /\ rows'[Len(rows')] = SqlRow(v, Content[Asset(e)][v])
    BY <1>0, <1>4, PrefixFacts
  <2>2. SqlRow(v, Content[Asset(e)][v]).version = v
    BY DEF SqlRow
  <2>. QED  BY <2>1, <2>2 DEF Pending
<1>. QED  BY <1>1, <1>2, <1>3, <1>4, RowsStep

\* For any assets: the history only ever grows, by a script of an asset whose
\* create or update is under way, or by the baseline of an empty one.
THEOREM HistoryGrowsAlways == Spec => HistoryGrows
<1>1. ASSUME DispatchInv, [Next]_vars
      PROVE  [/\ Len(rows) <= Len(rows')
              /\ rows = SubSeq(rows', 1, Len(rows))
              /\ rows' # rows => \E e \in Envs :
                   /\ run[e].pc \in {"migrate", "apply"}
                   /\ events[run[e].req].type # "Delete"
                   /\ Len(rows) = 0 \/ rows'[Len(rows')].version \in DOMAIN Content[Asset(e)]]_vars
  BY <1>1, RowsOnlyGrow
<1>. QED  BY <1>1, DispatchCorrect, PTL DEF Spec, HistoryGrows

-----------------------------------------------------------------------------
(***************************************************************************)
(* Who gives the answer.                                                   *)
(***************************************************************************)

\* A step of the handler answers, ends in a function error, or goes on.
LEMMA HandlerGoesOn ==
    ASSUME TypeOK, NEW e \in Envs, Handler(e)
    PROVE  \/ Respond(e)
           \/ Escape(e) /\ FunctionError(e)
           \/ /\ run'[e].pc # "idle" /\ run'[e].req = run[e].req
              /\ UNCHANGED <<stack, queue, retriesLeft>>
<1>. DEFINE GoesOn == run'[e].pc # "idle" /\ run'[e].req = run[e].req
<1>1. ASSUME NEW pc, Goto(e, pc), pc # "idle"
      PROVE  GoesOn
  BY <1>1 DEF Goto, TypeOK, RunType
<1>2. ASSUME NEW status, Answer(e, status)
      PROVE  GoesOn
  BY <1>2 DEF Answer, TypeOK, RunType
<1>3. CASE FetchSecret(e) \/ CreateFile(e) \/ Download(e)
  BY <1>1, <1>3 DEF FetchSecret, CreateFile, Download, cfnVars, lambdaVars
<1>4. CASE Unzip(e)
  <2>1. UNCHANGED <<stack, queue, retriesLeft>>
    BY <1>4 DEF Unzip, cfnVars, lambdaVars
  <2>2. CASE Goto(e, "escape")
    BY <1>1, <2>1, <2>2
  <2>3. CASE run' = [run EXCEPT ![e].pc = "config", ![e].dir = Content[Asset(e)]]
    BY <2>1, <2>3 DEF TypeOK, RunType
  <2>. QED  BY <1>4, <2>2, <2>3 DEF Unzip
<1>5. CASE Configure(e) \/ Validate(e) \/ Migrate(e)
  BY <1>1, <1>2, <1>5 DEF Configure, Validate, Migrate, Caught, cfnVars, lambdaVars
<1>6. CASE ApplyNext(e)
  <2>1. UNCHANGED <<stack, queue, retriesLeft>>
    BY <1>6 DEF ApplyNext, cfnVars, lambdaVars
  <2>2. CASE UNCHANGED run
    BY <1>6, <2>1, <2>2 DEF ApplyNext, At
  <2>3. CASE Answer(e, "SUCCESS") \/ Caught(e)
    BY <1>1, <1>2, <2>1, <2>3 DEF Caught
  <2>. QED  BY <1>6, <2>2, <2>3 DEF ApplyNext
<1>7. CASE Escape(e) /\ ~FunctionError(e)
  <2>1. UNCHANGED <<stack, queue, retriesLeft>>
    BY <1>7 DEF Escape, cfnVars
  <2>2. run'[e].pc = "respond" /\ run'[e].req = run[e].req
    BY <1>7 DEF Escape, TypeOK
  <2>. QED  BY <2>1, <2>2
<1>. QED  BY <1>3, <1>4, <1>5, <1>6, <1>7 DEF Handler

\* A function error queues the event again, or was the last one allowed.
LEMMA FunctionErrorForgetsNone ==
    ASSUME TypeOK, StackOK, NoRequestForgotten, NEW e \in Envs, run[e].pc # "idle",
           FunctionError(e), UNCHANGED stack
    PROVE  NoRequestForgotten'
<1>. SUFFICES ASSUME stack.status \in Open
              PROVE  NoRequestForgotten'
  BY DEF NoRequestForgotten
<1>. DEFINE r == run[e].req
<1>0. /\ queue \subseteq queue'
      /\ \A f \in Envs \ {e} : run'[f] = run[f]
  BY DEF FunctionError, TypeOK
<1>1. CASE r = stack.req
  <2>1. CASE retriesLeft[r] > 0
    BY <1>1, <2>1 DEF FunctionError, NoRequestForgotten
  <2>2. CASE ~(retriesLeft[r] > 0)
    <3>1. r \in Requests /\ retriesLeft[r] \in Nat /\ UNCHANGED retriesLeft
      BY <2>2, DBMigratorAssumption DEF TypeOK, Requests, FunctionError
    <3>2. retriesLeft'[stack.req] = 0
      BY <1>1, <2>2, <3>1
    <3>. QED  BY <3>2 DEF NoRequestForgotten
  <2>. QED  BY <2>1, <2>2
<1>2. CASE r # stack.req
  <2>1. stack.req \in Requests
    BY DBMigratorAssumption DEF StackOK, TypeOK, Requests
  <2>2. retriesLeft'[stack.req] = retriesLeft[stack.req]
    BY <1>2, <2>1 DEF FunctionError, TypeOK
  <2>. QED  BY <1>0, <1>2, <2>2 DEF NoRequestForgotten
<1>. QED  BY <1>1, <1>2

LEMMA ForgottenStep ==
    ASSUME "lost" \notin Faults, TypeOK, StackOK, StackOK', NoRequestForgotten, Next
    PROVE  NoRequestForgotten'
<1>1. ASSUME NEW status, NEW type, NEW a, Issue(status, type, a)
      PROVE  NoRequestForgotten'
  BY <1>1 DEF Issue, NoRequestForgotten
<1>2. CASE CloudFormation
  <2>1. CASE GiveUp
    <3>1. stack'.status \notin Open
      BY <2>1, CloseFacts DEF GiveUp, TypeOK, StackType
    <3>. QED  BY <3>1 DEF NoRequestForgotten
  <2>. QED  BY <1>1, <1>2, <2>1 DEF CloudFormation, Deploy, RollBack, Destroy
<1>3. CASE Lambda
  <2>1. ASSUME NEW r \in Requests, NEW e \in Envs, Deliver(r, e)
        PROVE  NoRequestForgotten'
    <3>1. /\ run[e].pc = "idle" /\ queue' = queue \ {r} /\ UNCHANGED <<stack, retriesLeft>>
          /\ run'[e].pc # "idle" /\ run'[e].req = r
          /\ \A f \in Envs \ {e} : run'[f] = run[f]
      BY <2>1 DEF Deliver, TypeOK, cfnVars
    <3>. QED  BY <3>1 DEF NoRequestForgotten
  <2>2. ASSUME NEW e \in Envs, Crash(e)
        PROVE  NoRequestForgotten'
    BY <2>2, FunctionErrorForgetsNone DEF Crash, cfnVars
  <2>3. CASE (\E r \in Requests : Duplicate(r)) \/ (\E e \in Envs : Recycle(e))
    BY <2>3 DEF Duplicate, Recycle, cfnVars, lambdaVars, NoRequestForgotten
  <2>. QED  BY <1>3, <2>1, <2>2, <2>3 DEF Lambda
<1>4. ASSUME NEW e \in Envs, Handler(e)
      PROVE  NoRequestForgotten'
  <2>0. \A f \in Envs \ {e} : run'[f] = run[f]
    BY <1>4, HandlerFrame
  <2>1. CASE Respond(e)
    <3>1. UNCHANGED <<queue, retriesLeft>> /\ run[e].pc = "respond"
      BY <2>1 DEF Respond, lambdaVars, At
    <3>2. CASE run[e].req = stack.req
      <4>1. stack' = Close(run[e].status, run[e].pid)
        BY <2>1, <3>2 DEF Respond
      <4>2. stack'.status \notin Open
        BY <3>1, <3>2, <4>1, AnswersTheOpenOne, CloseFacts DEF TypeOK
      <4>. QED  BY <4>2 DEF NoRequestForgotten
    <3>3. CASE run[e].req # stack.req
      <4>1. UNCHANGED stack
        BY <2>1, <3>3 DEF Respond
      <4>. QED  BY <2>0, <3>1, <3>3, <4>1 DEF NoRequestForgotten
    <3>. QED  BY <3>2, <3>3
  <2>2. CASE Escape(e) /\ FunctionError(e)
    BY <2>2, FunctionErrorForgetsNone DEF Escape, At, cfnVars
  <2>3. CASE /\ run'[e].pc # "idle" /\ run'[e].req = run[e].req
             /\ UNCHANGED <<stack, queue, retriesLeft>>
    BY <2>0, <2>3 DEF NoRequestForgotten
  <2>. QED  BY <1>4, <2>1, <2>2, <2>3, HandlerGoesOn
<1>. QED  BY <1>2, <1>3, <1>4 DEF Next

\* CloudFormation never waits for an answer that nobody is left to give
\* while Lambda has a retry for the request: however invocations crash,
\* repeat or overlap, as long as each put of an answer arrives.
THEOREM NoRequestForgottenAlways ==
    ASSUME "lost" \notin Faults
    PROVE  Spec => []NoRequestForgotten
<1>1. Init => TypeOK /\ StackOK /\ NoRequestForgotten
  <2>1. Init => TypeOK /\ StackOK
    BY TypeInit
  <2>2. Init => NoRequestForgotten
    BY DEF Init, NoRequestForgotten, Open
  <2>. QED  BY <2>1, <2>2
<1>2. TypeOK /\ StackOK /\ NoRequestForgotten /\ [Next]_vars
        => (TypeOK /\ StackOK /\ NoRequestForgotten)'
  <2>1. CASE UNCHANGED vars
    BY <2>1, TypeStep DEF vars, cfnVars, lambdaVars, NoRequestForgotten
  <2>2. CASE Next
    BY <2>2, TypeStep, ForgottenStep
  <2>. QED  BY <2>1, <2>2
<1>. QED  BY <1>1, <1>2, PTL DEF Spec
=============================================================================

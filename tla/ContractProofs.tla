--------------------------- MODULE ContractProofs ---------------------------
(***************************************************************************)
(* DBMigrator implements MigrationContract: the initial state maps to an   *)
(* initial state, and every step to a step of the contract or to none.     *)
(***************************************************************************)
EXTENDS DBMigratorProofs


\* The initial state maps to the contract's.
LEMMA MapsInit == Init => Contract!Init
<1>. SUFFICES ASSUME Init  PROVE Contract!Init
  OBVIOUS
<1>1. Recorded(rows) = {} /\ {events[i].asset : i \in 1..Len(events)} = {}
  BY DEF Init, Recorded
<1>. QED  BY <1>1 DEF Init, Contract!Init

\* What leaves the resource, the requests and the history alone is a stutter.
LEMMA MapsStutter ==
    ASSUME UNCHANGED <<stack, events, rows>>
    PROVE  UNCHANGED Contract!vars
BY DEF Contract!vars, Recorded

\* Sending a request.
LEMMA MapsIssue ==
    ASSUME TypeOK, NEW status, NEW type, NEW a, Issue(status, type, a)
    PROVE  /\ {events'[i].asset : i \in 1..Len(events')}
                = {events[i].asset : i \in 1..Len(events)} \cup {a}
           /\ Recorded(rows)' = Recorded(rows)
           /\ stack'.status = status /\ stack'.asset = stack.asset /\ stack'.target = a
<1>. DEFINE ev == [type |-> type, asset |-> a, pid |-> stack.pid]
<1>1. events \in Seq(EventType) /\ events' = Append(events, ev)
  BY DEF TypeOK, Issue
<1>2. /\ Len(events) \in Nat /\ Len(events') = Len(events) + 1
      /\ \A i \in 1..Len(events) : events'[i] = events[i]
      /\ events'[Len(events) + 1] = ev
  <2>. HIDE DEF ev
  <2>. QED  BY <1>1
<1>3. ev.asset = a
  OBVIOUS
<1>4. {events'[i].asset : i \in 1..Len(events')}
        = {events[i].asset : i \in 1..Len(events)} \cup {a}
  <2>. HIDE DEF ev
  <2>1. 1..Len(events') = 1..Len(events) \cup {Len(events) + 1}
    BY <1>2
  <2>. QED  BY <1>2, <1>3, <2>1
<1>5. Recorded(rows)' = Recorded(rows)
  BY DEF Issue, dbVars, Recorded
<1>6. /\ stack'.status = status /\ stack'.asset = stack.asset /\ stack'.target = a
  BY DEF Issue
<1>. QED  BY <1>4, <1>5, <1>6

\* Ending the open request with a failure.
LEMMA MapsFailure ==
    ASSUME TypeOK, stack.status \in Open, NEW pid, stack' = Close("FAILED", pid),
           UNCHANGED <<events, rows>>
    PROVE  Contract!Fail
<1>1. Recorded(rows)' = Recorded(rows)
  BY DEF Recorded
<1>2. /\ stack'.status = Contract!Failed[stack.status]
      /\ stack'.asset = stack.asset /\ stack'.target = stack.target
  BY DEF Close, After, Open, Contract!Failed
<1>. QED  BY <1>1, <1>2 DEF Contract!Fail, Contract!Open, Open

\* Ending the open request with a success, once its scripts are in.
LEMMA MapsSuccess ==
    ASSUME TypeOK, StackOK, stack.status \in Open, NEW pid, stack' = Close("SUCCESS", pid),
           stack.status # "deleting" => Migrated(stack.target),
           UNCHANGED <<events, rows>>
    PROVE  Contract!Succeed
<1>1. Recorded(rows)' = Recorded(rows)
  BY DEF Recorded
<1>2. /\ stack'.status = IF stack.status = "deleting" THEN "none" ELSE "live"
      /\ stack'.asset = IF stack.status = "deleting" THEN None ELSE stack.target
      /\ stack'.target = stack.target
  BY DEF Close, After, Open
<1>3. stack.status # "deleting" =>
        [a \in Assets |-> DOMAIN Content[a]][stack.target] \subseteq Recorded(rows)
  BY DEF StackOK, Migrated, Open
<1>. QED  BY <1>1, <1>2, <1>3 DEF Contract!Succeed, Contract!Open, Open

\* An answer ends the request it is for, or nothing.
LEMMA MapsRespond ==
    ASSUME TypeOK, StackOK, AnswersAreTrue, NEW e \in Envs, Respond(e)
    PROVE  Contract!Succeed \/ Contract!Fail \/ UNCHANGED Contract!vars
<1>0. UNCHANGED <<events, rows>>
  BY DEF Respond, dbVars
<1>1. CASE UNCHANGED stack
  BY <1>0, <1>1, MapsStutter
<1>2. CASE run[e].req = stack.req /\ stack' = Close(run[e].status, run[e].pid)
  <2>1. /\ run[e].pc = "respond" /\ run[e].status \in {"SUCCESS", "FAILED"}
        /\ stack.req \in 1..Len(events)
    BY <1>2 DEF Respond, At, TypeOK, RunType
  <2>2. stack.status \in Open
    BY <2>1 DEF StackOK
  <2>3. CASE run[e].status = "FAILED"
    BY <1>0, <1>2, <2>2, <2>3, MapsFailure
  <2>4. CASE run[e].status = "SUCCESS"
    <3>1. stack.status # "deleting" => Migrated(stack.target)
      BY <1>2, <2>1, <2>2, <2>4 DEF AnswersAreTrue, StackOK, Asset, RequestOf, Open
    <3>. QED  BY <1>0, <1>2, <2>2, <2>4, <3>1, MapsSuccess
  <2>. QED  BY <2>1, <2>3, <2>4
<1>. QED  BY <1>1, <1>2 DEF Respond

\* What an invocation runs is an asset that was asked for.
LEMMA WasRequested ==
    ASSUME TypeOK, NEW e \in Envs, run[e].pc # "idle"
    PROVE  Asset(e) \in {events[i].asset : i \in 1..Len(events)}
BY DEF TypeOK, Asset

\* A new row, whose version extends a dense history, is a step of Migrate.
LEMMA MapsNewVersion ==
    ASSUME TypeOK, HistoryDense, NEW n, n \in Versions, NEW a \in Assets,
           DOMAIN Content[a] = 1..n,
           a \in {events[i].asset : i \in 1..Len(events)},
           NEW v \in 1..n, v = Len(rows) + 1,
           Recorded(rows') = Recorded(rows) \cup {v},
           UNCHANGED <<stack, events>>
    PROVE  \E b \in Assets : \E w \in DOMAIN Content[b] : Contract!Migrate(w)
<1>. DEFINE scripts == [b \in Assets |-> DOMAIN Content[b]]
<1>1. rows \in Seq(Rows) /\ Len(rows) \in Nat /\ n \in Nat
  BY FlywayAssumption DEF TypeOK, Versions
<1>2. Recorded(rows) = 1..Len(rows)
  BY <1>1 DEF Recorded, HistoryDense
<1>3. v \notin Recorded(rows)
  BY <1>1, <1>2
<1>4. v \in scripts[a] /\ \A w \in scripts[a] : w < v => w \in Recorded(rows)
  BY <1>1, <1>2
<1>5. Contract!Migrate(v)
  BY <1>3, <1>4 DEF Contract!Migrate
<1>. QED  BY <1>4, <1>5

\* The history grows by the contract's Migrate.
LEMMA MapsRows ==
    ASSUME GrowingAssets, IInv, Next, rows' # rows, UNCHANGED <<stack, events>>
    PROVE  \E b \in Assets : \E w \in DOMAIN Content[b] : Contract!Migrate(w)
<1>0. TypeOK /\ TableOK /\ WorksOnItsAsset /\ HistoryDense
  BY DEF IInv
<1>1. ASSUME NEW e \in Envs, run[e].pc = "migrate", rows' = <<BaselineRow>>, ~table
      PROVE  \E b \in Assets : \E w \in DOMAIN Content[b] : Contract!Migrate(w)
  <2>1. Asset(e) \in Assets /\ Asset(e) \in {events[i].asset : i \in 1..Len(events)}
    BY <1>0, <1>1, AssetFacts, WasRequested
  <2>2. PICK n \in Versions : DOMAIN Content[Asset(e)] = 1..n
    BY <2>1 DEF GrowingAssets
  <2>3. Len(rows) = 0 /\ Recorded(rows) = {}
    BY <1>0, <1>1 DEF TableOK, Recorded
  <2>4. Len(rows') = 1 /\ rows'[1].version = 1
    BY <1>1 DEF BaselineRow
  <2>5. Recorded(rows') = Recorded(rows) \cup {1}
    BY <2>3, <2>4 DEF Recorded
  <2>6. 1 \in 1..n
    BY <2>2, FlywayAssumption DEF Versions
  <2>. QED  BY <1>0, <2>1, <2>2, <2>3, <2>5, <2>6, MapsNewVersion
<1>2. ASSUME NEW e \in Envs, run[e].pc = "apply", NEW v \in Pending(rows, Content[Asset(e)]),
             NEW row, row = SqlRow(v, Content[Asset(e)][v]), rows' = Append(rows, row)
      PROVE  \E b \in Assets : \E w \in DOMAIN Content[b] : Contract!Migrate(w)
  <2>1. Asset(e) \in Assets /\ Asset(e) \in {events[i].asset : i \in 1..Len(events)}
    BY <1>0, <1>2, AssetFacts, WasRequested
  <2>2. PICK n \in Versions : DOMAIN Content[Asset(e)] = 1..n
    BY <2>1 DEF GrowingAssets
  <2>3. rows \in Seq(Rows) /\ Len(rows) \in Nat
    BY <1>0 DEF TypeOK
  <2>4. row.version = v
    BY <1>2 DEF SqlRow
  <2>5. /\ Len(rows') = Len(rows) + 1 /\ rows'[Len(rows) + 1] = row
        /\ \A i \in 1..Len(rows) : rows'[i] = rows[i]
    BY <1>2, <2>3
  <2>6. HistoryDense'
    BY <1>0, DenseStep
  <2>7. v = Len(rows) + 1
    BY <2>3, <2>4, <2>5, <2>6 DEF HistoryDense
  <2>8. Recorded(rows') = Recorded(rows) \cup {v}
    BY <2>3, <2>4, <2>5 DEF Recorded
  <2>9. v \in 1..n
    BY <2>2 DEF Pending
  <2>. QED  BY <1>0, <2>1, <2>2, <2>7, <2>8, <2>9, MapsNewVersion
<1>. QED  BY <1>0, <1>1, <1>2, RowsStep

\* Every step maps to a step of the contract, or to none.
LEMMA MapsStep ==
    ASSUME GrowingAssets, IInv, [Next]_vars
    PROVE  [Contract!Next]_(Contract!vars)
<1>0. TypeOK /\ StackOK /\ AnswersAreTrue
  BY DEF IInv
<1>1. CASE UNCHANGED vars
  BY <1>1, MapsStutter DEF vars, cfnVars, dbVars
<1>2. ASSUME NEW a \in Assets, Deploy(a)
      PROVE  Contract!Next
  <2>1. Contract!Deploy(a)
    BY <1>0, <1>2, MapsIssue DEF Deploy, Contract!Deploy, Contract!Request
  <2>. QED  BY <2>1 DEF Contract!Next
<1>3. CASE RollBack
  <2>1. Contract!RollBack
    BY <1>0, <1>3, MapsIssue DEF RollBack, Contract!RollBack, Contract!Request
  <2>. QED  BY <2>1 DEF Contract!Next
<1>4. CASE Destroy
  <2>1. Contract!Destroy
    BY <1>0, <1>4, MapsIssue DEF Destroy, Contract!Destroy, Contract!Request
  <2>. QED  BY <2>1 DEF Contract!Next
<1>5. CASE GiveUp
  <2>1. Contract!Fail
    BY <1>0, <1>5, MapsFailure DEF GiveUp, dbVars
  <2>. QED  BY <2>1 DEF Contract!Next
<1>6. CASE Lambda
  BY <1>6, MapsStutter DEF Lambda, Deliver, Duplicate, Crash, Recycle, cfnVars, dbVars
<1>7. ASSUME NEW e \in Envs, Respond(e)
      PROVE  [Contract!Next]_(Contract!vars)
  BY <1>0, <1>7, MapsRespond DEF Contract!Next
<1>8. ASSUME NEW e \in Envs, Handler(e), ~Respond(e)
      PROVE  [Contract!Next]_(Contract!vars)
  <2>1. UNCHANGED <<stack, events>>
    BY <1>8 DEF Handler, FetchSecret, CreateFile, Download, Unzip, Configure, Validate,
       Migrate, ApplyNext, Escape, cfnVars
  <2>2. CASE rows' = rows
    BY <2>1, <2>2, MapsStutter
  <2>3. CASE rows' # rows
    <3>1. Next
      BY <1>8 DEF Next
    <3>2. \E b \in Assets : \E w \in DOMAIN Content[b] : Contract!Migrate(w)
      BY <2>1, <2>3, <3>1, MapsRows
    <3>. QED  BY <3>2 DEF Contract!Next
  <2>. QED  BY <2>2, <2>3
<1>. QED  BY <1>1, <1>2, <1>3, <1>4, <1>5, <1>6, <1>7, <1>8 DEF Next, CloudFormation

\* When assets only append scripts, everything CloudFormation, Lambda and the
\* handler do together is the contract, for any number of environments,
\* requests, duplicates, crashes and retries, and for every kind of fault
\* (DBMigratorHandler.java:90-158).
THEOREM ContractImplemented ==
    ASSUME GrowingAssets
    PROVE  Spec => ImplementsContract
<1>1. Init => Contract!Init
  BY MapsInit
<1>2. IInv /\ [Next]_vars => [Contract!Next]_(Contract!vars)
  BY MapsStep
<1>. QED  BY <1>1, <1>2, IInvCorrect, PTL DEF Spec, Contract!Spec, ImplementsContract

-----------------------------------------------------------------------------
(***************************************************************************)
(* What the contract is worth.                                             *)
(***************************************************************************)

\* The resource has an asset of those there are, and asks for one.
Asked ==
    /\ stack.status \in Held => stack.asset \in Assets
    /\ stack.status # "none" => stack.target \in Assets

LEMMA AskedStep == Asked /\ [Contract!Next]_(Contract!vars) => Asked'
<1>. SUFFICES ASSUME Asked, [Contract!Next]_(Contract!vars)  PROVE Asked'
  OBVIOUS
<1>1. ASSUME NEW a \in Assets, Contract!Deploy(a)  PROVE Asked'
  BY <1>1 DEF Contract!Deploy, Contract!Request, Asked, Held
<1>2. CASE Contract!RollBack \/ Contract!Destroy
  BY <1>2 DEF Contract!RollBack, Contract!Destroy, Contract!Request, Asked, Held
<1>3. CASE Contract!Succeed
  BY <1>3 DEF Contract!Succeed, Contract!Open, Asked, Held
<1>4. CASE Contract!Fail
  BY <1>4 DEF Contract!Fail, Contract!Failed, Contract!Open, Asked, Held
<1>5. ASSUME NEW v, Contract!Migrate(v)  PROVE Asked'
  BY <1>5 DEF Contract!Migrate, Asked
<1>6. CASE UNCHANGED Contract!vars
  BY <1>6 DEF Contract!vars, Asked
<1>. QED  BY <1>1, <1>2, <1>3, <1>4, <1>5, <1>6 DEF Contract!Next

\* A step of the contract keeps the scripts of the asset the resource has.
LEMMA ContractStep ==
    Asked /\ LiveMeansMigrated /\ [Contract!Next]_(Contract!vars) => LiveMeansMigrated'
<1>. SUFFICES ASSUME Asked, LiveMeansMigrated, [Contract!Next]_(Contract!vars)
              PROVE  LiveMeansMigrated'
  OBVIOUS
<1>. DEFINE keeps == /\ Recorded(rows) \subseteq Recorded(rows)'
                     /\ stack'.status \in Held => /\ stack.status \in Held
                                                  /\ stack'.asset = stack.asset
<1>1. CASE keeps
  BY <1>1 DEF LiveMeansMigrated, Migrated
<1>2. ASSUME NEW a \in Assets, Contract!Deploy(a)  PROVE keeps
  BY <1>2 DEF Contract!Deploy, Contract!Request, Held
<1>3. CASE Contract!RollBack \/ Contract!Destroy
  <2>1. keeps
    BY <1>3 DEF Contract!RollBack, Contract!Destroy, Contract!Request, Held
  <2>. QED  BY <1>1, <2>1
<1>4. CASE Contract!Succeed
  <2>1. stack.status # "deleting" => stack.target \in Assets /\ Migrated(stack.target)
    BY <1>4 DEF Contract!Succeed, Contract!Open, Asked, Migrated
  <2>. QED  BY <1>4, <2>1 DEF Contract!Succeed, LiveMeansMigrated, Migrated, Held
<1>5. CASE Contract!Fail
  <2>1. \/ stack'.status \in {"createFailed", "deleteFailed"}
        \/ stack.status = "updating" /\ stack'.status = "updateFailed"
        \/ stack.status = "rollingBack" /\ stack'.status = "rollbackFailed"
    BY <1>5 DEF Contract!Fail, Contract!Failed, Contract!Open
  <2>2. keeps
    BY <1>5, <2>1 DEF Contract!Fail, Held
  <2>. QED  BY <1>1, <2>2
<1>6. ASSUME NEW v, Contract!Migrate(v)  PROVE keeps
  BY <1>6 DEF Contract!Migrate
<1>7. CASE UNCHANGED Contract!vars
  BY <1>1, <1>7 DEF Contract!vars
<1>. HIDE DEF keeps
<1>. QED  BY <1>1, <1>2, <1>3, <1>4, <1>5, <1>6, <1>7 DEF Contract!Next

\* The contract is enough for the stacks that rely on the resource, for any
\* assets, growing or not: whatever implements it keeps the promise.
THEOREM ContractSuffices == ImplementsContract => []LiveMeansMigrated
<1>1. Contract!Init => Asked /\ LiveMeansMigrated
  BY DEF Contract!Init, Asked, LiveMeansMigrated, Held
<1>. QED  BY <1>1, AskedStep, ContractStep, PTL DEF ImplementsContract, Contract!Spec
=============================================================================

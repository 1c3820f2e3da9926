---------------------------- MODULE ComposeProofs ----------------------------
(***************************************************************************)
(* Proofs about Compose, for every value of its constants.                 *)
(***************************************************************************)
EXTENDS Compose, TLAPS

-----------------------------------------------------------------------------
(***************************************************************************)
(* Facts about the history.                                                *)
(***************************************************************************)

\* What Append makes of a sequence.
LEMMA AppendFacts ==
    ASSUME NEW S, NEW s \in Seq(S), NEW x \in S
    PROVE  /\ Append(s, x) \in Seq(S)
           /\ Len(Append(s, x)) = Len(s) + 1
           /\ \A i \in 1..Len(s) : Append(s, x)[i] = s[i]
           /\ Append(s, x)[Len(s) + 1] = x
OBVIOUS

\* The row that a script leaves is a row, of its version.
LEMMA RowFacts ==
    ASSUME NEW v \in DOMAIN Scripts
    PROVE  /\ v \in Versions
           /\ SqlRow(v, Scripts[v]) \in Rows
           /\ SqlRow(v, Scripts[v]).version = v
<1>1. v \in Versions /\ Scripts[v] \in Checksums
  BY ComposeAssumption DEF ScriptSets
<1>. QED  BY <1>1 DEF SqlRow, Rows

\* A script that is run joins what is recorded.
LEMMA RecordedAppend ==
    ASSUME NEW rs \in Seq(Rows), NEW row \in Rows
    PROVE  Recorded(Append(rs, row)) = Recorded(rs) \cup {row.version}
<1>. DEFINE n == Len(rs)
            new == Append(rs, row)
<1>1. /\ n \in Nat /\ Len(new) = n + 1
      /\ \A i \in 1..n : new[i] = rs[i]
      /\ new[n + 1] = row
  BY AppendFacts
<1>. HIDE DEF new
<1>2. 1..(n + 1) = 1..n \cup {n + 1}
  BY <1>1
<1>3. \A v : v \in Recorded(new) => v \in Recorded(rs) \cup {row.version}
  BY <1>1, <1>2 DEF Recorded
<1>4. \A v : v \in Recorded(rs) => v \in Recorded(new)
  BY <1>1, <1>2 DEF Recorded
<1>5. row.version \in Recorded(new)
  BY <1>1, <1>2 DEF Recorded
<1>. QED  BY <1>3, <1>4, <1>5 DEF new

\* Each script has been run, or can still be run after all that were.
NoneSkipped(rs) == DOMAIN Scripts \subseteq Recorded(rs) \cup Pending(rs, Scripts)

\* Running the oldest pending script skips none.
LEMMA NoneSkippedAppend ==
    ASSUME NEW rs \in Seq(Rows), NoneSkipped(rs),
           NEW v \in Pending(rs, Scripts), NextScript(rs, Scripts, v)
    PROVE  NoneSkipped(Append(rs, SqlRow(v, Scripts[v])))
<1>. DEFINE row == SqlRow(v, Scripts[v])
            new == Append(rs, row)
<1>1. v \in DOMAIN Scripts /\ row \in Rows /\ row.version = v /\ v \in Int
  BY RowFacts DEF Pending, Versions
<1>. HIDE DEF row
<1>2. /\ Len(rs) \in Nat /\ Len(new) = Len(rs) + 1
      /\ \A i \in 1..Len(rs) : new[i] = rs[i]
      /\ new[Len(rs) + 1] = row
      /\ Recorded(new) = Recorded(rs) \cup {v}
  BY <1>1, AppendFacts, RecordedAppend
<1>. HIDE DEF new
<1>3. SUFFICES ASSUME NEW w \in DOMAIN Scripts  PROVE w \in Recorded(new) \cup Pending(new, Scripts)
  BY DEF NoneSkipped, new, row
<1>4. CASE w \in Recorded(rs) \/ w = v
  BY <1>2, <1>4
<1>5. CASE w \in Pending(rs, Scripts) /\ w # v
  <2>1. w \in Int /\ v < w
    BY <1>1, <1>5, RowFacts DEF NextScript, Versions
  <2>2. \A i \in 1..Len(new) : new[i].version < w
    BY <1>1, <1>2, <1>5, <2>1 DEF Pending
  <2>. QED  BY <2>2 DEF Pending
<1>. QED  BY <1>4, <1>5 DEF NoneSkipped

-----------------------------------------------------------------------------
(***************************************************************************)
(* The invariant.                                                          *)
(***************************************************************************)

\* Containers were only started once credentials had been written, and the
\* flyway container has read them when it comes to its first command.
CredentialsRead ==
    /\ up => credentials > 0
    /\ flyway.pc # "stopped" => credentials > 0
    /\ flyway.pc \notin {"stopped", "start", "exited"} => flyway.userPassword # 0

\* At the last command, and after it, every script is recorded.
DoneMeansMigrated ==
    flyway.pc \in {"info", "exited"} => DOMAIN Scripts \subseteq Recorded(data.rows)

\* A password of the application's user is set by its script alone, so that
\* no later script sets another one.
UserComesWithItsScript ==
    data.userPassword # 0 <=> UserScript \in Recorded(data.rows)

IInv ==
    /\ TypeOK
    /\ CredentialsRead
    /\ NoneSkipped(data.rows)
    /\ UserComesWithItsScript
    /\ DoneMeansMigrated

LEMMA IInvInit == Init => IInv
<1>. SUFFICES ASSUME Init  PROVE IInv
  OBVIOUS
<1>1. data.rows = <<>> /\ data.userPassword = 0 /\ flyway.pc = "stopped" /\ ~up
  BY DEF Init, Stopped
<1>2. TypeOK
  <2>1. <<>> \in Seq(Rows) /\ 0 \in Credentials
    BY ComposeAssumption DEF Credentials
  <2>2. data \in [initialised : BOOLEAN, rootPassword : Credentials,
                  userPassword : Credentials, rows : Seq(Rows)]
    BY <2>1 DEF Init
  <2>3. /\ postgres \in [state : {"stopped", "starting", "ready"}, certificate : Credentials]
        /\ app \in [state : {"stopped", "starting", "up", "exited"}, password : Credentials]
    BY <2>1 DEF Init
  <2>4. flyway \in [pc : {"stopped", "start", "validate", "migrate", "apply", "info", "exited"},
                    password : Credentials, userPassword : Credentials]
    BY <2>1 DEF Init, Stopped
  <2>5. credentials \in Credentials /\ up \in BOOLEAN
    BY <2>1 DEF Init
  <2>6. ups = 0 /\ crashes = MaxCrashes
    BY DEF Init
  <2>7. ups \in 0..MaxUps /\ crashes \in 0..MaxCrashes
    BY <2>6, ComposeAssumption
  <2>. QED  BY <2>2, <2>3, <2>4, <2>5, <2>7 DEF TypeOK
<1>3. Recorded(<<>>) = {} /\ Pending(<<>>, Scripts) = DOMAIN Scripts
  BY DEF Recorded, Pending
<1>4. NoneSkipped(data.rows) /\ UserComesWithItsScript
  BY <1>1, <1>3 DEF NoneSkipped, UserComesWithItsScript
<1>. QED  BY <1>1, <1>2, <1>4 DEF IInv, CredentialsRead, DoneMeansMigrated

\* The steps that leave the history and the passwords of the server alone,
\* and do not bring the flyway container to its last command.
LEMMA DataFrame ==
    ASSUME IInv, TypeOK',
           data'.rows = data.rows, data'.userPassword = data.userPassword,
           flyway'.pc \in {"info", "exited"} => flyway.pc \in {"info", "exited"},
           CredentialsRead'
    PROVE  IInv'
BY DEF IInv, NoneSkipped, UserComesWithItsScript, DoneMeansMigrated

LEMMA UserStep == IInv /\ User => IInv'
<1>. SUFFICES ASSUME IInv, User  PROVE IInv'
  OBVIOUS
<1>. USE ComposeAssumption
<1>1. CASE PrepareCredentials
  <2>1. TypeOK' /\ CredentialsRead'
    BY <1>1 DEF IInv, PrepareCredentials, TypeOK, CredentialsRead, Credentials
  <2>. QED  BY <1>1, <2>1, DataFrame DEF PrepareCredentials
<1>2. CASE ComposeUp
  <2>1. flyway'.pc \in {"start", flyway.pc} /\ TypeOK'
    BY <1>2 DEF IInv, ComposeUp, TypeOK, Credentials, Stopped
  <2>2. CredentialsRead'
    BY <1>2 DEF IInv, ComposeUp, TypeOK, CredentialsRead, Credentials, Stopped
  <2>. QED  BY <1>2, <2>1, <2>2, DataFrame DEF ComposeUp
<1>3. CASE ComposeDown
  <2>1. flyway'.pc = "stopped" /\ ~up'
    BY <1>3 DEF ComposeDown, Stopped
  <2>2. TypeOK'
    <3>1. 0 \in Credentials
      BY DEF Credentials
    <3>2. /\ flyway' \in [pc : {"stopped", "start", "validate", "migrate", "apply", "info", "exited"},
                         password : Credentials, userPassword : Credentials]
          /\ postgres' \in [state : {"stopped", "starting", "ready"}, certificate : Credentials]
          /\ app' \in [state : {"stopped", "starting", "up", "exited"}, password : Credentials]
      BY <1>3, <3>1 DEF ComposeDown, Stopped
    <3>. QED  BY <1>3, <3>2 DEF IInv, ComposeDown, TypeOK
  <2>3. CredentialsRead'
    BY <2>1 DEF CredentialsRead
  <2>. QED  BY <1>3, <2>1, <2>2, <2>3, DataFrame DEF ComposeDown
<1>. QED  BY <1>1, <1>2, <1>3 DEF User

LEMMA ServerStep == IInv /\ (StartPostgres \/ CrashPostgres \/ App) => IInv'
<1>. SUFFICES ASSUME IInv, StartPostgres \/ CrashPostgres \/ App  PROVE IInv'
  OBVIOUS
<1>. USE ComposeAssumption
<1>1. CASE StartPostgres
  <2>1. data'.rows = data.rows /\ data'.userPassword = data.userPassword
    BY <1>1 DEF IInv, StartPostgres, TypeOK
  <2>2. TypeOK' /\ CredentialsRead'
    BY <1>1 DEF IInv, StartPostgres, TypeOK, CredentialsRead, Credentials
  <2>. QED  BY <1>1, <2>1, <2>2, DataFrame DEF StartPostgres
<1>2. CASE CrashPostgres
  <2>1. TypeOK' /\ CredentialsRead'
    BY <1>2 DEF IInv, CrashPostgres, TypeOK, CredentialsRead, Credentials
  <2>. QED  BY <1>2, <2>1, DataFrame DEF CrashPostgres
<1>3. CASE App
  <2>1. TypeOK' /\ CredentialsRead' /\ UNCHANGED <<data, flyway>>
    BY <1>3 DEF IInv, App, StartApp, FailApp, RestartApp, TypeOK, CredentialsRead, Credentials
  <2>. QED  BY <2>1, DataFrame
<1>. QED  BY <1>1, <1>2, <1>3

LEMMA ApplyStep == IInv /\ FlywayApply => IInv'
<1>. SUFFICES ASSUME IInv, FlywayApply  PROVE IInv'
  OBVIOUS
<1>. USE ComposeAssumption
<1>1. CASE /\ Pending(data.rows, Scripts) = {}
           /\ FlywayGoto("info") /\ UNCHANGED data /\ UNCHANGED OthersOfFlyway
  <2>1. TypeOK' /\ CredentialsRead'
    BY <1>1 DEF IInv, FlywayApply, FlywayAt, FlywayGoto, TypeOK, CredentialsRead, Credentials, OthersOfFlyway
  <2>2. DoneMeansMigrated'
    BY <1>1 DEF IInv, NoneSkipped, DoneMeansMigrated
  <2>. QED  BY <1>1, <2>1, <2>2 DEF IInv, NoneSkipped, UserComesWithItsScript
<1>2. ASSUME NEW v \in Pending(data.rows, Scripts), NextScript(data.rows, Scripts, v),
             data' = [data EXCEPT
                 !.rows = Append(@, SqlRow(v, Scripts[v])),
                 !.userPassword = IF v = UserScript THEN flyway.userPassword ELSE @],
             UNCHANGED flyway, UNCHANGED OthersOfFlyway
      PROVE  IInv'
  <2>. DEFINE row == SqlRow(v, Scripts[v])
  <2>1. /\ v \in DOMAIN Scripts /\ row \in Rows /\ row.version = v
        /\ data.rows \in Seq(Rows)
    BY RowFacts DEF Pending, IInv, TypeOK
  <2>2. /\ data'.rows = Append(data.rows, row)
        /\ data'.userPassword = IF v = UserScript THEN flyway.userPassword ELSE data.userPassword
        /\ data'.initialised = data.initialised /\ data'.rootPassword = data.rootPassword
    BY <1>2 DEF IInv, TypeOK
  <2>3. data'.rows \in Seq(Rows) /\ Recorded(data'.rows) = Recorded(data.rows) \cup {v}
    <3>. HIDE DEF row
    <3>. QED  BY <2>1, <2>2, AppendFacts, RecordedAppend
  <2>4. flyway.pc = "apply" /\ flyway.userPassword # 0 /\ flyway.userPassword \in Credentials
    BY DEF FlywayApply, FlywayAt, IInv, CredentialsRead, TypeOK
  <2>5. TypeOK'
    <3>1. data' \in [initialised : BOOLEAN, rootPassword : Credentials,
                     userPassword : Credentials, rows : Seq(Rows)]
      <4>. HIDE DEF row
      <4>. DEFINE new == Append(data.rows, row)
                  pw == IF v = UserScript THEN flyway.userPassword ELSE data.userPassword
      <4>1. new \in Seq(Rows) /\ pw \in Credentials
        BY <2>1, <2>4, AppendFacts DEF IInv, TypeOK
      <4>2. data' = [data EXCEPT !.rows = new, !.userPassword = pw]
        BY <1>2 DEF row, IInv, TypeOK
      <4>. HIDE DEF new, pw
      <4>. QED  BY <4>1, <4>2 DEF IInv, TypeOK
    <3>. QED  BY <1>2, <3>1 DEF IInv, TypeOK, OthersOfFlyway, Credentials
  <2>6. NoneSkipped(data'.rows)
    BY <1>2, <2>1, <2>2, NoneSkippedAppend DEF IInv
  <2>7. UserComesWithItsScript'
    BY <2>2, <2>3, <2>4 DEF IInv, UserComesWithItsScript
  <2>8. CredentialsRead' /\ DoneMeansMigrated'
    BY <1>2, <2>4 DEF IInv, CredentialsRead, DoneMeansMigrated, OthersOfFlyway
  <2>. QED  BY <2>5, <2>6, <2>7, <2>8 DEF IInv, NoneSkipped
<1>. QED  BY <1>1, <1>2 DEF FlywayApply

LEMMA FlywayStep == IInv /\ FlywayContainer => IInv'
<1>. SUFFICES ASSUME IInv, FlywayContainer  PROVE IInv'
  OBVIOUS
<1>. USE ComposeAssumption
<1>1. CASE ReadPasswords
  <2>1. TypeOK' /\ CredentialsRead' /\ flyway'.pc = "validate"
    BY <1>1 DEF IInv, ReadPasswords, FlywayAt, TypeOK, CredentialsRead, Credentials, OthersOfFlyway
  <2>. QED  BY <1>1, <2>1, DataFrame DEF ReadPasswords
<1>2. CASE FlywayFails
  <2>1. TypeOK' /\ CredentialsRead' /\ flyway'.pc = "start"
    BY <1>2 DEF IInv, FlywayFails, FlywayAt, TypeOK, CredentialsRead, Credentials, OthersOfFlyway, Stopped
  <2>. QED  BY <1>2, <2>1, DataFrame DEF FlywayFails
<1>3. CASE FlywayValidate
  <2>1. TypeOK' /\ CredentialsRead' /\ flyway'.pc = "migrate"
    BY <1>3 DEF IInv, FlywayValidate, FlywayAt, FlywayGoto, TypeOK, CredentialsRead, Credentials, OthersOfFlyway
  <2>. QED  BY <1>3, <2>1, DataFrame DEF FlywayValidate
<1>4. CASE FlywayMigrate
  <2>1. TypeOK' /\ CredentialsRead' /\ flyway'.pc = "apply"
    BY <1>4 DEF IInv, FlywayMigrate, FlywayAt, FlywayGoto, TypeOK, CredentialsRead, Credentials, OthersOfFlyway
  <2>. QED  BY <1>4, <2>1, DataFrame DEF FlywayMigrate
<1>5. CASE FlywayInfo
  <2>1. TypeOK' /\ CredentialsRead' /\ flyway.pc = "info"
    BY <1>5 DEF IInv, FlywayInfo, FlywayAt, FlywayGoto, TypeOK, CredentialsRead, Credentials, OthersOfFlyway
  <2>. QED  BY <1>5, <2>1, DataFrame DEF FlywayInfo
<1>. QED  BY <1>1, <1>2, <1>3, <1>4, <1>5, ApplyStep DEF FlywayContainer

LEMMA IInvStep == IInv /\ [Next]_vars => IInv'
<1>1. CASE IInv /\ Next
  BY <1>1, UserStep, ServerStep, FlywayStep DEF Next
<1>2. CASE IInv /\ UNCHANGED vars
  BY <1>2 DEF vars, IInv, TypeOK, CredentialsRead, NoneSkipped, UserComesWithItsScript, DoneMeansMigrated
<1>. QED  BY <1>1, <1>2

\* The invariant holds in every reachable state.
THEOREM InvariantCorrect == Spec => []IInv
<1>. QED  BY IInvInit, IInvStep, PTL DEF Spec

\* For any script directory and however often Postgres crashes: the flyway
\* container ends well only on a database with all scripts
\* (flyway-migrate.sh:1-8).
THEOREM ExitMeansMigratedAlways == Spec => []ExitMeansMigrated
<1>1. IInv => ExitMeansMigrated
  BY DEF IInv, DoneMeansMigrated, ExitMeansMigrated
<1>. QED  BY <1>1, InvariantCorrect, PTL

\* What a step does to the data directory.
DataKept ==
    /\ data.rows = SubSeq(data'.rows, 1, Len(data.rows))
    /\ data.initialised => data'.rootPassword = data.rootPassword
    /\ data.userPassword # 0 => data'.userPassword = data.userPassword

LEMMA DataUnchanged == TypeOK /\ UNCHANGED data => DataKept
BY DEF TypeOK, DataKept

LEMMA ApplyKeepsData == IInv /\ FlywayApply => DataKept
<1>. SUFFICES ASSUME IInv, FlywayApply  PROVE DataKept
  OBVIOUS
<1>1. CASE UNCHANGED data
  BY <1>1, DataUnchanged DEF IInv
<1>2. ASSUME NEW v \in Pending(data.rows, Scripts),
             data' = [data EXCEPT
                 !.rows = Append(@, SqlRow(v, Scripts[v])),
                 !.userPassword = IF v = UserScript THEN flyway.userPassword ELSE @]
      PROVE  DataKept
  <2>. DEFINE row == SqlRow(v, Scripts[v])
  <2>1. v \in DOMAIN Scripts /\ row \in Rows /\ data.rows \in Seq(Rows)
    BY RowFacts DEF Pending, IInv, TypeOK
  <2>2. /\ data'.rows = Append(data.rows, row)
        /\ data'.userPassword = IF v = UserScript THEN flyway.userPassword ELSE data.userPassword
        /\ data'.rootPassword = data.rootPassword
    BY <1>2 DEF IInv, TypeOK
  <2>3. data.rows = SubSeq(Append(data.rows, row), 1, Len(data.rows))
    <3>. HIDE DEF row
    <3>. QED  BY <2>1
  <2>4. v \notin Recorded(data.rows)
    BY <2>1, RowFacts DEF Pending, Recorded, Versions
  <2>5. data.userPassword # 0 => v # UserScript
    BY <2>4 DEF IInv, UserComesWithItsScript
  <2>. QED  BY <2>2, <2>3, <2>5 DEF DataKept
<1>. QED  BY <1>1, <1>2 DEF FlywayApply

\* The other steps write the data directory only when Postgres initialises it.
LEMMA StepKeepsData == IInv /\ [Next]_vars => DataKept
<1>. SUFFICES ASSUME IInv, [Next]_vars  PROVE DataKept
  OBVIOUS
<1>1. CASE FlywayApply
  BY <1>1, ApplyKeepsData
<1>2. CASE StartPostgres
  <2>1. /\ data'.rows = data.rows /\ data'.userPassword = data.userPassword
        /\ data.initialised => data' = data
    BY <1>2 DEF StartPostgres, IInv, TypeOK
  <2>. QED  BY <2>1 DEF DataKept, IInv, TypeOK
<1>3. CASE \/ User \/ CrashPostgres \/ App \/ UNCHANGED vars
           \/ ReadPasswords \/ FlywayFails \/ FlywayValidate \/ FlywayMigrate \/ FlywayInfo
  <2>1. UNCHANGED data
    BY <1>3 DEF User, PrepareCredentials, ComposeUp, ComposeDown, CrashPostgres,
                App, StartApp, FailApp, RestartApp, ReadPasswords, FlywayFails,
                FlywayValidate, FlywayMigrate, FlywayInfo, vars
  <2>. QED  BY <2>1, DataUnchanged DEF IInv
<1>. QED  BY <1>1, <1>2, <1>3 DEF Next, FlywayContainer

\* No step takes from the volume: rows are only added, and a password that
\* is set stays (docker-compose.yml:107).
THEOREM DataOutlivesContainersAlways == Spec => DataOutlivesContainers
<1>1. IInv /\ [Next]_vars => [DataKept]_vars
  BY StepKeepsData
<1>. QED  BY <1>1, InvariantCorrect, PTL DEF Spec, DataOutlivesContainers, DataKept

\* Every variable keeps its type.
THEOREM TypeCorrect == Spec => []TypeOK
<1>1. IInv => TypeOK
  BY DEF IInv
<1>. QED  BY <1>1, InvariantCorrect, PTL
=============================================================================

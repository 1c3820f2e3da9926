------------------------------- MODULE Compose -------------------------------
(***************************************************************************)
(* The local deployment: docker-compose.yml starts Postgres on a database  *)
(* directory that outlives the containers, a flyway container that runs    *)
(* flyway-migrate.sh, and the Spring Boot application; the credentials all *)
(* three read are files that prepare_credentials.sh writes.                *)
(*                                                                         *)
(* depends_on only orders the starts, so each service finds the others in  *)
(* any state and relies on its restart policy.                             *)
(***************************************************************************)
EXTENDS Flyway

CONSTANTS
    Scripts,        \* data-migration/sql, a script set
    UserScript,     \* the version that creates the application's user
    Hybrid,         \* TRUE: only Postgres is started, the application runs
                    \* on the host with the profile "local"
    MaxPrepares,    \* bound: runs of prepare_credentials.sh
    MaxUps,         \* bound: docker compose up
    MaxCrashes      \* bound: crashes of Postgres

ASSUME ComposeAssumption ==
    /\ Scripts \in ScriptSets
    /\ UserScript \in DOMAIN Scripts
    /\ Hybrid \in BOOLEAN
    /\ MaxPrepares \in Nat /\ MaxUps \in Nat /\ MaxCrashes \in Nat

VARIABLES
    credentials,    \* how often ./credentials was written: names its content
    up,             \* are the services wanted?
    ups,            \* docker compose up, so far
    data,           \* ./.database: what Postgres keeps on the volume
    postgres,       \* the server: its state, and the certificate it loaded
    flyway,         \* the container: its step, and the passwords it read
    app,            \* the application: its state, and the password it read
    crashes         \* crashes of Postgres left

vars == <<credentials, up, ups, data, postgres, flyway, app, crashes>>

-----------------------------------------------------------------------------
Credentials == 0..MaxPrepares       \* 0: no such file, or no such user

\* The databases of the server: POSTGRES_DB is not set.
Databases == {"postgres"}

\* The database the application's profile names.
AppDatabase == IF Hybrid THEN "demoapp" ELSE "postgres"

Stopped == [pc |-> "stopped", password |-> 0, userPassword |-> 0]

Init ==
    /\ credentials = 0
    /\ up = FALSE
    /\ ups = 0
    /\ data = [initialised |-> FALSE, rootPassword |-> 0, userPassword |-> 0, rows |-> <<>>]
    /\ postgres = [state |-> "stopped", certificate |-> 0]
    /\ flyway = Stopped
    /\ app = [state |-> "stopped", password |-> 0]
    /\ crashes = MaxCrashes

-----------------------------------------------------------------------------
(***************************************************************************)
(* The user.                                                               *)
(***************************************************************************)

\* Every run writes new passwords and a new certificate authority, over the
\* files that running containers have mounted.
PrepareCredentials ==
    /\ credentials < MaxPrepares
    /\ credentials' = credentials + 1
    /\ UNCHANGED <<up, ups, data, postgres, flyway, app, crashes>>

ComposeUp ==
    /\ credentials > 0
    /\ ~up /\ ups < MaxUps
    /\ up' = TRUE
    /\ ups' = ups + 1
    /\ postgres' = [state |-> "starting", certificate |-> 0]
    /\ flyway' = IF Hybrid THEN flyway ELSE [Stopped EXCEPT !.pc = "start"]
    /\ app' = [state |-> "starting", password |-> 0]
    /\ UNCHANGED <<credentials, data, crashes>>

\* The containers stop; ./.database stays.
ComposeDown ==
    /\ up
    /\ up' = FALSE
    /\ postgres' = [state |-> "stopped", certificate |-> 0]
    /\ flyway' = Stopped
    /\ app' = [state |-> "stopped", password |-> 0]
    /\ UNCHANGED <<credentials, ups, data, crashes>>

-----------------------------------------------------------------------------
(***************************************************************************)
(* Postgres.                                                               *)
(***************************************************************************)

\* Mutation: the database directory is not mounted.
StartPostgresAfresh ==
    /\ postgres.state = "starting"
    /\ postgres' = [state |-> "ready", certificate |-> credentials]
    /\ data' = [initialised |-> TRUE, rootPassword |-> credentials, userPassword |-> 0,
                rows |-> <<>>]
    /\ UNCHANGED <<credentials, up, ups, flyway, app, crashes>>

\* The password file counts only while the directory is empty.
StartPostgres ==
    /\ postgres.state = "starting"
    /\ postgres' = [state |-> "ready", certificate |-> credentials]
    /\ data' = IF data.initialised THEN data
               ELSE [data EXCEPT !.initialised = TRUE, !.rootPassword = credentials]
    /\ UNCHANGED <<credentials, up, ups, flyway, app, crashes>>

\* restart: always.  Committed transactions survive.
CrashPostgres ==
    /\ postgres.state = "ready" /\ crashes > 0
    /\ postgres' = [state |-> "starting", certificate |-> 0]
    /\ crashes' = crashes - 1
    /\ UNCHANGED <<credentials, up, ups, data, flyway, app>>

\* A client that checks the server's certificate against the mounted ca.crt.
Reachable == postgres.state = "ready" /\ postgres.certificate = credentials

Login(password, known) == Reachable /\ password = known /\ known # 0

-----------------------------------------------------------------------------
(***************************************************************************)
(* The flyway container, whose entrypoint is flyway-migrate.sh.            *)
(***************************************************************************)

FlywayAt(pc) == flyway.pc = pc

FlywayGoto(pc) == flyway' = [flyway EXCEPT !.pc = pc]

FlywayLogin == Login(flyway.password, data.rootPassword)

OthersOfFlyway == <<credentials, up, ups, postgres, app, crashes>>

\* Mutation: FLYWAY_PASSWORD stays the path that the compose file gives
\* it, which is nobody's password.
ReadPasswordPath ==
    /\ FlywayAt("start")
    /\ flyway' = [pc |-> "validate", password |-> MaxPrepares + 1, userPassword |-> credentials]
    /\ UNCHANGED <<data, OthersOfFlyway>>

ReadPasswords ==
    /\ FlywayAt("start")
    /\ flyway' = [pc |-> "validate", password |-> credentials, userPassword |-> credentials]
    /\ UNCHANGED <<data, OthersOfFlyway>>

\* Mutation: the script is run without -e.
FlywayGoesOn ==
    /\ \/ FlywayAt("validate") /\ ~FlywayLogin /\ FlywayGoto("migrate")
       \/ FlywayAt("migrate") /\ ~FlywayLogin /\ FlywayGoto("info")
       \/ FlywayAt("apply") /\ ~Reachable /\ FlywayGoto("info")
       \/ FlywayAt("info") /\ ~FlywayLogin /\ flyway' = [Stopped EXCEPT !.pc = "start"]
    /\ UNCHANGED <<data, OthersOfFlyway>>

\* Mutation: restart: "no" on the flyway service.
FlywayGivesUp ==
    /\ \/ FlywayAt("validate") /\ ~FlywayLogin
       \/ FlywayAt("migrate") /\ ~FlywayLogin
       \/ FlywayAt("apply") /\ ~Reachable
       \/ FlywayAt("info") /\ ~FlywayLogin
    /\ flyway' = Stopped
    /\ UNCHANGED <<data, OthersOfFlyway>>

\* bash -e: the first command that fails ends the script, and restart:
\* on-failure starts it from the top.
FlywayFails ==
    /\ \/ FlywayAt("validate") /\ ~(FlywayLogin /\ Valid(data.rows, Scripts, {"pending"}))
       \/ FlywayAt("migrate") /\ ~(FlywayLogin /\ Valid(data.rows, Scripts, {"pending", "future"}))
       \/ FlywayAt("apply") /\ ~Reachable
       \/ FlywayAt("info") /\ ~FlywayLogin
    /\ flyway' = [Stopped EXCEPT !.pc = "start"]
    /\ UNCHANGED <<data, OthersOfFlyway>>

FlywayValidate ==
    /\ FlywayAt("validate") /\ FlywayLogin
    /\ Valid(data.rows, Scripts, {"pending"})
    /\ FlywayGoto("migrate")
    /\ UNCHANGED <<data, OthersOfFlyway>>

\* The history is in schema public, which nothing else uses: no baseline.
FlywayMigrate ==
    /\ FlywayAt("migrate") /\ FlywayLogin
    /\ Valid(data.rows, Scripts, {"pending", "future"})
    /\ FlywayGoto("apply")
    /\ UNCHANGED <<data, OthersOfFlyway>>

\* A script and its row are one transaction; V2 creates the user with the
\* password of the placeholder.
FlywayApply ==
    /\ FlywayAt("apply") /\ Reachable
    /\ \/ \E v \in Pending(data.rows, Scripts) :
            /\ NextScript(data.rows, Scripts, v)
            /\ data' = [data EXCEPT
                 !.rows = Append(@, SqlRow(v, Scripts[v])),
                 !.userPassword = IF v = UserScript THEN flyway.userPassword ELSE @]
            /\ UNCHANGED flyway
       \/ /\ Pending(data.rows, Scripts) = {}
          /\ FlywayGoto("info")
          /\ UNCHANGED data
    /\ UNCHANGED OthersOfFlyway

FlywayInfo ==
    /\ FlywayAt("info") /\ FlywayLogin
    /\ FlywayGoto("exited")
    /\ UNCHANGED <<data, OthersOfFlyway>>

-----------------------------------------------------------------------------
(***************************************************************************)
(* The application.                                                        *)
(***************************************************************************)

\* Start-up needs a connection of the application's user, nothing more.
CanConnect(password) ==
    /\ Login(password, data.userPassword)
    /\ AppDatabase \in Databases

StartApp ==
    /\ app.state = "starting"
    /\ CanConnect(credentials)
    /\ app' = [state |-> "up", password |-> credentials]
    /\ UNCHANGED <<credentials, up, ups, data, postgres, flyway, crashes>>

\* restart: always; the pool of one that is up outlives a lost connection.
FailApp ==
    /\ app.state = "starting"
    /\ ~CanConnect(credentials)
    /\ app' = [state |-> "exited", password |-> 0]
    /\ UNCHANGED <<credentials, up, ups, data, postgres, flyway, crashes>>

RestartApp ==
    /\ app.state = "exited"
    /\ app' = [state |-> "starting", password |-> 0]
    /\ UNCHANGED <<credentials, up, ups, data, postgres, flyway, crashes>>

-----------------------------------------------------------------------------
User == PrepareCredentials \/ ComposeUp \/ ComposeDown

FlywayContainer == ReadPasswords \/ FlywayFails \/ FlywayValidate \/ FlywayMigrate
                   \/ FlywayApply \/ FlywayInfo

App == StartApp \/ FailApp \/ RestartApp

Next == User \/ StartPostgres \/ CrashPostgres \/ FlywayContainer \/ App

Spec == Init /\ [][Next]_vars

\* The Docker daemon starts and restarts what is wanted, and what runs makes
\* progress; the user is free.
FairSpec == Spec /\ WF_vars(StartPostgres) /\ WF_vars(FlywayContainer) /\ WF_vars(App)

-----------------------------------------------------------------------------
(***************************************************************************)
(* Properties.                                                             *)
(***************************************************************************)

\* Every variable has its type (the type invariant).
TypeOK ==
    /\ credentials \in Credentials
    /\ up \in BOOLEAN
    /\ ups \in 0..MaxUps
    /\ data \in [initialised : BOOLEAN, rootPassword : Credentials,
                 userPassword : Credentials, rows : Seq(Rows)]
    /\ postgres \in [state : {"stopped", "starting", "ready"}, certificate : Credentials]
    /\ flyway \in [pc : {"stopped", "start", "validate", "migrate", "apply", "info", "exited"},
                   password : Credentials, userPassword : Credentials]
    /\ app \in [state : {"stopped", "starting", "up", "exited"}, password : Credentials]
    /\ crashes \in 0..MaxCrashes

\* The flyway container ends with exit code 0, after which nobody starts it
\* again, only when every script is in the history, however often Postgres
\* was absent or crashed under it (flyway-migrate.sh:1, docker-compose.yml:64).
ExitMeansMigrated ==
    flyway.pc = "exited" => DOMAIN Scripts \subseteq Recorded(data.rows)

\* What Postgres has on the volume outlives every restart: the history only
\* grows, and the passwords stay the ones that were first given.
DataOutlivesContainers ==
    [][/\ data.rows = SubSeq(data'.rows, 1, Len(data.rows))
       /\ data.initialised => data'.rootPassword = data.rootPassword
       /\ data.userPassword # 0 => data'.userPassword = data.userPassword]_vars

\* The application is up on a migrated database it can log in to.
Serving ==
    /\ app.state = "up"
    /\ Login(app.password, data.userPassword)
    /\ DOMAIN Scripts \subseteq Recorded(data.rows)

\* "Eventually, the application will stabilize" (README.md:82), after every
\* start and after every crash of Postgres, without an order of the starts.
Stabilises == up ~> (Serving \/ ~up)

\* New credentials were written since the directory took its passwords.
Renewed == data.initialised /\ credentials # data.rootPassword

\* Nothing but new credentials keeps the application from coming up: after
\* every start and every crash of Postgres, in whatever order the containers
\* find each other, the restart policies alone get it there.
RecoversUnlessRenewed == up ~> (Serving \/ ~up \/ Renewed)

\* README.md:61-67: with Postgres alone started, the application run from an
\* IDE with the profile "local" connects to the database.
HybridConnects == up ~> (app.state = "up" \/ ~up)
=============================================================================

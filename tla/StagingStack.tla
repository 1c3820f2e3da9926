---------------------------- MODULE StagingStack ----------------------------
(***************************************************************************)
(* PrototypeStagingStack: the stack that holds the bucket and the image    *)
(* repositories of the application's assets.  Its constructs come into     *)
(* being one by one, while the other stacks are synthesized and ask where  *)
(* to put their assets; what it deploys then decides how long S3 and ECR   *)
(* keep them.                                                              *)
(*                                                                         *)
(* cdk deploy, S3 and ECR are external: they are modelled from the         *)
(* template that the stack asks for.  No role is passed in (bin).          *)
(***************************************************************************)
EXTENDS Integers, FiniteSets, Functions

CONSTANTS
    Files, Images,  \* the assets, each named by the hash of its content
    DeployTime,     \* the files that are only needed while deploying
    Names,          \* names that image assets are given
    NameOf,         \* [Images -> Names \cup {Unnamed}]
    Unnamed,
    RepoOf,         \* [Names -> Repos]: generateRepoName
    Repos,
    MaxConstructs,  \* what a template of 51200 bytes holds
    AutoDelete,     \* autoDeleteStagingAssets
    FileLifetime,   \* deployTimeFileAssetLifetime
    MaxImageAge,    \* maxImageAge || 90
    VersionCount,   \* imageAssetVersionCount ?? 3
    MaxSynths,      \* bound: runs of cdk deploy
    MaxDays         \* bound

Assets == Files \cup Images

Roles == {"CdkFileRole", "CdkImageRole"}

Constructs == Roles \cup {"BucketKey", "CdkStagingBucket"} \cup Repos

ASSUME StagingAssumption ==
    /\ Files \cap Images = {}
    /\ DeployTime \subseteq Files
    /\ Unnamed \notin Names
    /\ NameOf \in [Images -> Names \cup {Unnamed}]
    /\ RepoOf \in [Names -> Repos]
    /\ Repos \cap (Roles \cup {"BucketKey", "CdkStagingBucket"}) = {}
    /\ AutoDelete \in BOOLEAN
    /\ {FileLifetime, MaxImageAge, VersionCount} \subseteq Nat \ {0}
    /\ {MaxConstructs, MaxSynths, MaxDays} \subseteq Nat

VARIABLES
    status,     \* of the cdk process
    children,   \* the construct ids that are taken in the stack
    stagingRepos, \* the names whose repository was created
    asked,      \* the assets whose location was asked for
    synths,     \* runs of cdk so far
    owned,      \* the bucket and repositories of the deployed staging stack
    existing,   \* the bucket and repositories there are
    stored,     \* the assets that are in them, and the day they were put there
    running,    \* the assets the deployed application refers to
    day

synthVars == <<children, stagingRepos, asked, synths>>
cloudVars == <<owned, existing, stored, running, day>>
vars == <<status, synthVars, cloudVars>>

-----------------------------------------------------------------------------
Stateful == {"CdkStagingBucket"} \cup Repos

Place(a) == IF a \in Files THEN "CdkStagingBucket" ELSE RepoOf[NameOf[a]]

Age(a) == day - stored[a]

Init ==
    /\ status = "idle"
    /\ children = {} /\ stagingRepos = {} /\ asked = {}
    /\ synths = 0
    /\ owned = {} /\ existing = {}
    /\ stored = [a \in {} |-> 0]
    /\ running = {}
    /\ day = 0

-----------------------------------------------------------------------------
(***************************************************************************)
(* Synthesis: one process of cdk, which starts from nothing.               *)
(***************************************************************************)

\* The factory and the constructor; once per environment.
Synth ==
    /\ status = "idle" /\ synths < MaxSynths
    /\ status' = "synthesizing"
    /\ synths' = synths + 1
    /\ children' = {} /\ stagingRepos' = {} /\ asked' = {}
    /\ UNCHANGED cloudVars

Throw ==
    /\ status' = "threw"
    /\ UNCHANGED <<children, stagingRepos>>

Ask(a) == asked' = asked \cup {a}

\* new Construct(this, id), for each of the ids: an id must be free among the
\* stack's children.  The names are remembered after that.
Create(ids, names) ==
    IF ids \cap children = {}
      THEN /\ children' = children \cup ids
           /\ stagingRepos' = stagingRepos \cup names
           /\ UNCHANGED status
      ELSE Throw

FileConstructs == {"CdkFileRole", "BucketKey", "CdkStagingBucket"}

\* Mutation: ensureFileRole is called for every file, as ensureImageRole is
\* for every image.
AddFileEnsuringRole(f) ==
    /\ status = "synthesizing"
    /\ Ask(f)
    /\ Create(FileConstructs, {})
    /\ UNCHANGED <<synths, cloudVars>>

\* addFile and getCreateBucket.  ensureFileRole has no memo of its own: that
\* the bucket is there stands for the role and the key.
AddFile(f) ==
    /\ status = "synthesizing"
    /\ Ask(f)
    /\ \/ "CdkStagingBucket" \in children /\ UNCHANGED <<status, children, stagingRepos>>
       \/ "CdkStagingBucket" \notin children /\ Create(FileConstructs, {})
    /\ UNCHANGED <<synths, cloudVars>>

\* What a first image of a name creates: the role only once (didImageRole).
ImageConstructs(name) == {RepoOf[name]} \cup ({"CdkImageRole"} \ children)

\* Mutation: one memo for the repositories of all names, as there is for the
\* role.
AddDockerImageOneMemo(i) ==
    /\ status = "synthesizing"
    /\ Ask(i)
    /\ \/ NameOf[i] = Unnamed /\ Throw
       \/ /\ NameOf[i] \in Names /\ stagingRepos # {}
          /\ UNCHANGED <<status, children, stagingRepos>>
       \/ /\ NameOf[i] \in Names /\ stagingRepos = {}
          /\ Create(ImageConstructs(NameOf[i]), {NameOf[i]})
    /\ UNCHANGED <<synths, cloudVars>>

\* addDockerImage and getCreateRepo: the memo is by asset name, the construct
\* id is the repository's name.
AddDockerImage(i) ==
    LET name == NameOf[i] IN
    /\ status = "synthesizing"
    /\ Ask(i)
    /\ \/ name = Unnamed /\ Throw
       \/ name \in stagingRepos /\ UNCHANGED <<status, children, stagingRepos>>
       \/ name \in Names \ stagingRepos /\ Create(ImageConstructs(name), {name})
    /\ UNCHANGED <<synths, cloudVars>>

\* _synthesizeTemplate: a template that is too large is no template.
SynthesizeTemplate ==
    /\ status = "synthesizing"
    /\ status' = IF Cardinality(children) > MaxConstructs THEN "threw" ELSE "assembled"
    /\ UNCHANGED <<synthVars, cloudVars>>

\* The process ends with the error.
Abort ==
    /\ status = "threw"
    /\ status' = "idle"
    /\ UNCHANGED <<synthVars, cloudVars>>

-----------------------------------------------------------------------------
(***************************************************************************)
(* cdk deploy: the staging stack, the assets, the application's stacks,    *)
(* which depend on the staging stack (dependencyStack).                    *)
(***************************************************************************)

Wanted == children \cap Stateful

\* The removal policy: what leaves the stack is deleted with what is in it,
\* or stays without an owner.
Removed(gone) == IF AutoDelete THEN gone ELSE {}

\* Mutation: the buckets and repositories go without being emptied.
LeftUnemptied(gone) == stored

\* What is left in the places that are not gone.
Left(gone) == Restrict(stored, {a \in DOMAIN stored : Place(a) \notin gone})

\* The names are fixed: what exists without being owned cannot be created.
\* Some of the others may have been by then; the rollback treats them by the
\* removal policy too.
DeployStaging ==
    /\ status = "assembled"
    /\ \/ /\ (Wanted \ owned) \cap existing = {}
          /\ owned' = Wanted
          /\ existing' = (existing \cup Wanted) \ Removed(owned \ Wanted)
          /\ stored' = Left(Removed(owned \ Wanted))
          /\ status' = "publishing"
       \/ /\ (Wanted \ owned) \cap existing # {}
          /\ status' = "blocked"
          /\ \E made \in SUBSET (Wanted \ existing) :
                existing' = existing \cup (made \ Removed(made))
          /\ UNCHANGED <<owned, stored>>
    /\ UNCHANGED <<synthVars, running, day>>

EndBlocked ==
    /\ status = "blocked"
    /\ status' = "idle"
    /\ UNCHANGED <<synthVars, cloudVars>>

\* An asset that is there already is not put again.
Publish(a) ==
    /\ status = "publishing"
    /\ a \in asked \ DOMAIN stored
    /\ Place(a) \in existing
    /\ stored' = [b \in DOMAIN stored \cup {a} |-> IF b = a THEN day ELSE stored[b]]
    /\ UNCHANGED <<status, synthVars, owned, existing, running, day>>

\* The application's stacks are updated, or fail and are rolled back.
UpdateApplication ==
    /\ status = "publishing"
    /\ asked \subseteq DOMAIN stored
    /\ status' = "idle"
    /\ running' \in {running, asked}
    /\ UNCHANGED <<synthVars, owned, existing, stored, day>>

\* cdk destroy: the staging stack goes last.
Destroy ==
    /\ status = "idle" /\ owned # {}
    /\ running' = {}
    /\ owned' = {}
    /\ existing' = existing \ Removed(owned)
    /\ stored' = Left(Removed(owned))
    /\ UNCHANGED <<status, synthVars, day>>

-----------------------------------------------------------------------------
(***************************************************************************)
(* Lifecycle rules.                                                        *)
(***************************************************************************)

NextDay ==
    /\ day < MaxDays
    /\ day' = day + 1
    /\ UNCHANGED <<status, synthVars, owned, existing, stored, running>>

\* Mutation: every file gets the prefix.
ExpiredFilesAll == {f \in DOMAIN stored \cap Files : Age(f) >= FileLifetime}

\* Only deploy-time files are put under the prefix of the expiration rule.
ExpiredFiles == {f \in DOMAIN stored \cap DeployTime : Age(f) >= FileLifetime}

\* No image loses its tag, which is its hash, to another.
Untagged == {}

\* Rule 90 counts untagged images only; rule 100 is by age, whatever the tag.
ExpiredImages ==
    {i \in DOMAIN stored \cap Images :
        \/ Age(i) >= MaxImageAge
        \/ i \in Untagged /\ Cardinality(Untagged) > VersionCount}

Expire(gone) ==
    /\ gone # {}
    /\ stored' = Restrict(stored, DOMAIN stored \ gone)
    /\ UNCHANGED <<status, synthVars, owned, existing, running, day>>

ExpireFiles == Expire(ExpiredFiles)

ExpireImages == Expire(ExpiredImages)

Next ==
    \/ Synth \/ (\E f \in Files : AddFile(f)) \/ (\E i \in Images : AddDockerImage(i))
    \/ SynthesizeTemplate \/ Abort
    \/ DeployStaging \/ EndBlocked \/ (\E a \in Assets : Publish(a))
    \/ UpdateApplication \/ Destroy
    \/ NextDay \/ ExpireFiles \/ ExpireImages

Spec == Init /\ [][Next]_vars

-----------------------------------------------------------------------------
(***************************************************************************)
(* Properties.                                                             *)
(***************************************************************************)

\* Every variable has its type (the type invariant).
TypeOK ==
    /\ status \in {"idle", "synthesizing", "threw", "assembled", "publishing", "blocked"}
    /\ children \subseteq Constructs
    /\ stagingRepos \subseteq Names
    /\ asked \subseteq Assets
    /\ synths \in 0..MaxSynths
    /\ owned \subseteq existing /\ existing \subseteq Stateful
    /\ DOMAIN stored \subseteq Assets
    /\ \A a \in DOMAIN stored : stored[a] \in 0..day /\ Place(a) \in existing
    /\ running \subseteq Assets
    /\ day \in 0..MaxDays

\* In whatever order the stacks ask for their assets, synthesis fails only for
\* an image without a name, a template that is too large, or two names of
\* images whose repositories would have the same name: no construct of the
\* staging stack is otherwise created twice (app-staging-stack.ts:317, 357, 426).
ThrowsOnlyForItsInput ==
    status = "threw" =>
        LET used == {NameOf[i] : i \in asked \cap Images} IN
        \/ Unnamed \in used
        \/ Cardinality(children) > MaxConstructs
        \/ \E m, n \in used : m # n /\ RepoOf[m] = RepoOf[n]

\* A file that may be read while the application runs, like the SQL archive
\* (sql-stack.ts:41), stays in the bucket as long as what is deployed refers
\* to it, through failed updates, rollbacks and changes of the staging stack:
\* the rollback of Custom::DBMigrator downloads it once more.
RuntimeFilesKept == running \cap (Files \ DeployTime) \subseteq DOMAIN stored

\* Wherever a stack was told to put an asset, in whatever order the stacks
\* asked, the bucket or repository is in the staging stack by the time cdk
\* publishes: the memos never answer for a construct that is not there
\* (app-staging-stack.ts:357, 426).  Otherwise no asset could be published, and
\* the application's stacks would never be updated.
LocationsExist == status = "publishing" => \A a \in asked : Place(a) \in owned

Versions(r) == {i \in DOMAIN stored \cap Images : Place(i) = r}

\* app-staging-stack.ts:105: "Once a repository has more than 3 image versions
\* stored, the oldest version will be discarded."
OldestDiscarded ==
    \A r \in Repos : Cardinality(Versions(r)) > VersionCount => ExpiredImages \cap Versions(r) # {}

\* app-staging-stack.ts:104, 107: previous versions "can be stored for rollback
\* purposes", "while maintaining a few previous versions": a repository with no
\* more than VersionCount versions does not lose the one that is running.
RunningVersionKept ==
    [][\A r \in Repos : Cardinality(Versions(r)) <= VersionCount =>
        running \cap Versions(r) \subseteq DOMAIN stored']_vars
=============================================================================

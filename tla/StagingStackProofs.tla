------------------------- MODULE StagingStackProofs -------------------------
(***************************************************************************)
(* Proofs about StagingStack, for any assets, names, limits and number of  *)
(* syntheses, deployments and days.                                        *)
(***************************************************************************)
EXTENDS StagingStack, TLAPS

-----------------------------------------------------------------------------
(***************************************************************************)
(* Types.                                                                  *)
(***************************************************************************)

\* What is taken away from the store leaves the rest as it is.
LEMMA RestrictFacts ==
    ASSUME NEW S, S \subseteq DOMAIN stored
    PROVE  /\ DOMAIN Restrict(stored, S) = S
           /\ \A a \in S : Restrict(stored, S)[a] = stored[a]
BY DEF Restrict

LEMMA LeftFacts ==
    ASSUME NEW gone
    PROVE  /\ DOMAIN Left(gone) = {a \in DOMAIN stored : Place(a) \notin gone}
           /\ \A a \in DOMAIN Left(gone) : Left(gone)[a] = stored[a]
BY DEF Left, Restrict

LEMMA TypeInit == Init => TypeOK
BY StagingAssumption DEF Init, TypeOK, StagingAssumption, Stateful

\* A construct that is created is one of the stack's, for a name that is one.
LEMMA CreateType ==
    ASSUME TypeOK, NEW ids, NEW names, ids \subseteq Constructs, names \subseteq Names,
           status = "synthesizing", Create(ids, names)
    PROVE  /\ status' \in {"synthesizing", "threw"}
           /\ children' \subseteq Constructs
           /\ stagingRepos' \subseteq Names
BY DEF TypeOK, Create, Throw

LEMMA FileConstructsType == FileConstructs \subseteq Constructs
BY DEF FileConstructs, Constructs, Roles

LEMMA ImageConstructsType ==
    ASSUME NEW name \in Names
    PROVE  ImageConstructs(name) \subseteq Constructs
BY StagingAssumption DEF StagingAssumption, ImageConstructs, Constructs, Roles

LEMMA SynthesisType ==
    ASSUME TypeOK,
           \/ Synth \/ (\E f \in Files : AddFile(f)) \/ (\E i \in Images : AddDockerImage(i))
           \/ SynthesizeTemplate \/ Abort
    PROVE  TypeOK'
<1>1. CASE Synth
  BY <1>1, StagingAssumption
     DEF Synth, TypeOK, StagingAssumption, cloudVars, Place, Stateful
<1>2. ASSUME NEW f \in Files, AddFile(f)
      PROVE  TypeOK'
  <2>1. /\ status' \in {"synthesizing", "threw"}
        /\ children' \subseteq Constructs
        /\ stagingRepos' \subseteq Names
    BY <1>2, CreateType, FileConstructsType DEF AddFile, TypeOK
  <2>2. asked' \subseteq Assets
    BY <1>2 DEF AddFile, Ask, TypeOK, Assets
  <2>. QED BY <1>2, <2>1, <2>2 DEF AddFile, TypeOK, cloudVars, Place
<1>3. ASSUME NEW i \in Images, AddDockerImage(i)
      PROVE  TypeOK'
  <2>1. /\ status' \in {"synthesizing", "threw"}
        /\ children' \subseteq Constructs
        /\ stagingRepos' \subseteq Names
    <3>1. CASE NameOf[i] \in Names \ stagingRepos /\ Create(ImageConstructs(NameOf[i]), {NameOf[i]})
      BY <1>3, <3>1, CreateType, ImageConstructsType DEF AddDockerImage
    <3>2. CASE Throw \/ UNCHANGED <<status, children, stagingRepos>>
      BY <1>3, <3>2 DEF AddDockerImage, Throw, TypeOK
    <3>. QED BY <1>3, <3>1, <3>2 DEF AddDockerImage
  <2>2. asked' \subseteq Assets
    BY <1>3 DEF AddDockerImage, Ask, TypeOK, Assets
  <2>. QED BY <1>3, <2>1, <2>2 DEF AddDockerImage, TypeOK, cloudVars, Place
<1>4. CASE SynthesizeTemplate \/ Abort
  BY <1>4 DEF SynthesizeTemplate, Abort, synthVars, cloudVars, TypeOK, Place
<1>. QED BY <1>1, <1>2, <1>3, <1>4

LEMMA DeployType ==
    ASSUME TypeOK, DeployStaging
    PROVE  TypeOK'
<1>1. Wanted \subseteq Stateful
  BY DEF Wanted
<1>2. CASE status' = "publishing" /\ owned' = Wanted
           /\ existing' = (existing \cup Wanted) \ Removed(owned \ Wanted)
           /\ stored' = Left(Removed(owned \ Wanted))
  <2>1. owned' \subseteq existing' /\ existing' \subseteq Stateful
    BY <1>1, <1>2 DEF Removed, TypeOK
  <2>2. /\ DOMAIN stored' \subseteq DOMAIN stored
        /\ \A a \in DOMAIN stored' : stored'[a] = stored[a] /\ Place(a) \notin Removed(owned \ Wanted)
    BY <1>2, LeftFacts
  <2>3. \A a \in DOMAIN stored' : Place(a) \in existing'
    BY <1>2, <2>2 DEF TypeOK
  <2>. QED BY <1>2, <2>1, <2>2, <2>3 DEF DeployStaging, synthVars, TypeOK, Place
<1>3. ASSUME status' = "blocked", UNCHANGED <<owned, stored>>,
             NEW made \in SUBSET (Wanted \ existing),
             existing' = existing \cup (made \ Removed(made))
      PROVE  TypeOK'
  <2>1. existing \subseteq existing' /\ existing' \subseteq Stateful
    BY <1>1, <1>3 DEF TypeOK
  <2>. QED BY <1>3, <2>1 DEF DeployStaging, synthVars, TypeOK, Place
<1>. QED BY <1>2, <1>3 DEF DeployStaging

LEMMA DestroyType ==
    ASSUME TypeOK, Destroy
    PROVE  TypeOK'
<1>1. /\ DOMAIN stored' \subseteq DOMAIN stored
      /\ \A a \in DOMAIN stored' : stored'[a] = stored[a] /\ Place(a) \notin Removed(owned)
  BY LeftFacts DEF Destroy
<1>2. \A a \in DOMAIN stored' : Place(a) \in existing'
  BY <1>1 DEF Destroy, TypeOK
<1>. QED BY <1>1, <1>2 DEF Destroy, synthVars, TypeOK, Place

LEMMA ExpireType ==
    ASSUME TypeOK, NEW gone, Expire(gone)
    PROVE  TypeOK'
BY RestrictFacts DEF Expire, TypeOK, synthVars, Place

LEMMA StoreType ==
    ASSUME TypeOK,
           \/ EndBlocked \/ (\E a \in Assets : Publish(a)) \/ UpdateApplication
           \/ NextDay \/ ExpireFiles \/ ExpireImages
    PROVE  TypeOK'
<1>1. CASE EndBlocked
  BY <1>1 DEF EndBlocked, synthVars, cloudVars, TypeOK, Place
<1>2. ASSUME NEW a \in Assets, Publish(a)
      PROVE  TypeOK'
  <2>1. /\ DOMAIN stored' = DOMAIN stored \cup {a}
        /\ \A b \in DOMAIN stored' : stored'[b] \in {day, stored[b]} /\ (b # a => stored'[b] = stored[b])
        /\ stored'[a] = day
    BY <1>2 DEF Publish
  <2>2. \A b \in DOMAIN stored' : stored'[b] \in 0..day /\ Place(b) \in existing
    BY <1>2, <2>1, StagingAssumption DEF Publish, TypeOK, StagingAssumption
  <2>. QED BY <1>2, <2>1, <2>2 DEF Publish, synthVars, TypeOK, Place
<1>3. CASE UpdateApplication
  BY <1>3 DEF UpdateApplication, synthVars, TypeOK, Place
<1>4. CASE NextDay
  BY <1>4, StagingAssumption DEF NextDay, synthVars, TypeOK, Place, StagingAssumption
<1>5. CASE ExpireFiles \/ ExpireImages
  BY <1>5, ExpireType DEF ExpireFiles, ExpireImages
<1>. QED BY <1>1, <1>2, <1>3, <1>4, <1>5

LEMMA TypeStep == TypeOK /\ [Next]_vars => TypeOK'
<1>. SUFFICES ASSUME TypeOK, [Next]_vars PROVE TypeOK'
  OBVIOUS
<1>1. CASE UNCHANGED vars
  BY <1>1 DEF vars, synthVars, cloudVars, TypeOK, Place
<1>2. CASE Next
  BY <1>2, SynthesisType, DeployType, DestroyType, StoreType DEF Next
<1>. QED BY <1>1, <1>2

\* Every variable keeps its type: in particular a stored asset is always in a
\* bucket or repository that exists, whatever is destroyed or left behind.
THEOREM TypeCorrect == Spec => []TypeOK
<1>. QED BY TypeInit, TypeStep, PTL DEF Spec

-----------------------------------------------------------------------------
(***************************************************************************)
(* Synthesis.                                                              *)
(***************************************************************************)

\* What the two memos rest on: the role and the key of the files come with the
\* bucket (getCreateBucket), and the repositories that exist are those of the
\* names remembered, which were all asked for (getCreateRepo).
MemosAreTrue ==
    /\ FileConstructs \cap children # {} => "CdkStagingBucket" \in children
    /\ children \cap Repos \subseteq {RepoOf[n] : n \in stagingRepos}
    /\ stagingRepos \subseteq {NameOf[i] : i \in asked \cap Images}

SynthInv == TypeOK /\ MemosAreTrue /\ ThrowsOnlyForItsInput

LEMMA SynthInit == Init => SynthInv
BY TypeInit DEF Init, SynthInv, MemosAreTrue, ThrowsOnlyForItsInput

\* Nothing of the synthesis changes.
SynthFrame == status' # "threw" /\ UNCHANGED <<children, stagingRepos, asked>>

LEMMA CloudFrame ==
    ASSUME DeployStaging \/ EndBlocked \/ (\E a \in Assets : Publish(a)) \/ UpdateApplication
             \/ Abort \/ Destroy
    PROVE  SynthFrame
BY DEF DeployStaging, EndBlocked, Publish, UpdateApplication, Abort, Destroy, SynthFrame,
       synthVars

LEMMA AddFileStep ==
    ASSUME SynthInv, NEW f \in Files, AddFile(f)
    PROVE  MemosAreTrue' /\ ThrowsOnlyForItsInput'
<1>1. status = "synthesizing" /\ asked' = asked \cup {f} /\ f \notin Images
  BY StagingAssumption DEF AddFile, Ask, StagingAssumption
<1>2. CASE "CdkStagingBucket" \in children /\ UNCHANGED <<status, children, stagingRepos>>
  BY <1>1, <1>2 DEF SynthInv, MemosAreTrue, ThrowsOnlyForItsInput
<1>3. CASE "CdkStagingBucket" \notin children /\ Create(FileConstructs, {})
  <2>1. FileConstructs \cap children = {}
    BY <1>3 DEF SynthInv, MemosAreTrue
  <2>2. children' = children \cup FileConstructs /\ stagingRepos' = stagingRepos /\ status' = status
    BY <1>3, <2>1 DEF Create
  <2>3. FileConstructs \cap Repos = {}
    BY StagingAssumption DEF StagingAssumption, FileConstructs, Roles
  <2>. QED BY <1>1, <2>2, <2>3
       DEF SynthInv, MemosAreTrue, ThrowsOnlyForItsInput, FileConstructs
<1>. QED BY <1>2, <1>3 DEF AddFile

LEMMA AddImageStep ==
    ASSUME SynthInv, NEW i \in Images, AddDockerImage(i)
    PROVE  MemosAreTrue' /\ ThrowsOnlyForItsInput'
<1>. DEFINE name == NameOf[i]
            used == {NameOf[j] : j \in asked' \cap Images}
<1>1. status = "synthesizing" /\ asked' = asked \cup {i} /\ name \in used
  BY DEF AddDockerImage, Ask
<1>2. CASE name = Unnamed /\ Throw
  BY <1>1, <1>2 DEF Throw, SynthInv, MemosAreTrue, ThrowsOnlyForItsInput
<1>3. CASE name \in stagingRepos /\ UNCHANGED <<status, children, stagingRepos>>
  BY <1>1, <1>3 DEF SynthInv, MemosAreTrue, ThrowsOnlyForItsInput
<1>4. CASE name \in Names \ stagingRepos /\ Create(ImageConstructs(name), {name})
  <2>1. RepoOf[name] \in Repos /\ "CdkImageRole" \notin Repos
        /\ RepoOf[name] \notin FileConstructs /\ "CdkImageRole" \notin FileConstructs
    BY <1>4, StagingAssumption DEF StagingAssumption, Roles, FileConstructs
  <2>2. CASE ImageConstructs(name) \cap children = {}
    <3>1. children' = children \cup ImageConstructs(name) /\ status' = status
          /\ stagingRepos' = stagingRepos \cup {name}
      BY <1>4, <2>2 DEF Create
    <3>. QED BY <1>1, <2>1, <3>1
         DEF SynthInv, MemosAreTrue, ThrowsOnlyForItsInput, ImageConstructs
  <2>3. CASE ImageConstructs(name) \cap children # {}
    <3>1. Throw
      BY <1>4, <2>3 DEF Create
    <3>2. RepoOf[name] \in children \cap Repos
      BY <2>1, <2>3 DEF ImageConstructs
    <3>3. PICK n \in stagingRepos : RepoOf[n] = RepoOf[name]
      BY <3>2 DEF SynthInv, MemosAreTrue
    <3>4. n # name /\ n \in used
      BY <1>1, <1>4, <3>3 DEF SynthInv, MemosAreTrue
    <3>. QED BY <1>1, <3>1, <3>3, <3>4 DEF Throw, SynthInv, MemosAreTrue, ThrowsOnlyForItsInput
  <2>. QED BY <2>2, <2>3
<1>. QED BY <1>2, <1>3, <1>4 DEF AddDockerImage

LEMMA SynthStep == SynthInv /\ [Next]_vars => SynthInv'
<1>. SUFFICES ASSUME SynthInv, [Next]_vars PROVE SynthInv'
  OBVIOUS
<1>. SUFFICES MemosAreTrue' /\ ThrowsOnlyForItsInput'
  BY TypeStep DEF SynthInv
<1>1. CASE Synth
  BY <1>1 DEF Synth, MemosAreTrue, ThrowsOnlyForItsInput
<1>2. CASE \E f \in Files : AddFile(f)
  BY <1>2, AddFileStep
<1>3. CASE \E i \in Images : AddDockerImage(i)
  BY <1>3, AddImageStep
<1>4. CASE SynthesizeTemplate
  BY <1>4 DEF SynthesizeTemplate, synthVars, SynthInv, MemosAreTrue, ThrowsOnlyForItsInput
<1>5. CASE SynthFrame
  BY <1>5 DEF SynthFrame, SynthInv, MemosAreTrue, ThrowsOnlyForItsInput
<1>6. CASE NextDay \/ ExpireFiles \/ ExpireImages \/ UNCHANGED vars
  BY <1>6 DEF NextDay, ExpireFiles, ExpireImages, Expire, vars, synthVars,
              SynthInv, MemosAreTrue, ThrowsOnlyForItsInput
<1>. QED BY <1>1, <1>2, <1>3, <1>4, <1>5, <1>6, CloudFrame DEF Next

\* Any assets, names and order: synthesis fails for a missing name, for names
\* whose repositories collide, or for the size of the template.
THEOREM ThrowsOnlyForItsInputAlways == Spec => []ThrowsOnlyForItsInput
<1>1. SynthInv => ThrowsOnlyForItsInput
  BY DEF SynthInv
<1>. QED BY <1>1, SynthInit, SynthStep, PTL DEF Spec

-----------------------------------------------------------------------------
(***************************************************************************)
(* Deployment.                                                             *)
(***************************************************************************)

\* What was asked for in this synthesis has its construct, by way of the memo
\* of the names.
MemosHaveConstructs ==
    /\ \A n \in stagingRepos : RepoOf[n] \in children
    /\ status \in {"synthesizing", "assembled"} =>
          \A a \in asked : Place(a) \in children \cap Stateful

LocationsInv == TypeOK /\ MemosHaveConstructs /\ LocationsExist

LEMMA LocationsAdd ==
    ASSUME LocationsInv,
           (\E f \in Files : AddFile(f)) \/ (\E i \in Images : AddDockerImage(i))
    PROVE  MemosHaveConstructs' /\ LocationsExist'
<1>1. ASSUME NEW f \in Files, AddFile(f)
      PROVE  MemosHaveConstructs' /\ LocationsExist'
  <2>1. Place(f) = "CdkStagingBucket"
    BY DEF Place
  <2>. Place(f) \in Stateful
    BY <2>1 DEF Stateful
  <2>2. asked' = asked \cup {f} /\ status = "synthesizing"
    BY <1>1 DEF AddFile, Ask
  <2>3. CASE "CdkStagingBucket" \in children /\ UNCHANGED <<status, children, stagingRepos>>
    BY <2>1, <2>2, <2>3 DEF LocationsInv, MemosHaveConstructs, LocationsExist, Place
  <2>4. CASE Create(FileConstructs, {})
    BY <2>1, <2>2, <2>4 DEF Create, Throw, FileConstructs, LocationsInv, MemosHaveConstructs,
       LocationsExist, Place
  <2>. QED BY <1>1, <2>3, <2>4 DEF AddFile
<1>2. ASSUME NEW i \in Images, AddDockerImage(i)
      PROVE  MemosHaveConstructs' /\ LocationsExist'
  <2>. DEFINE name == NameOf[i]
  <2>1. Place(i) = RepoOf[name]
    BY StagingAssumption DEF Place, StagingAssumption
  <2>. name \in Names => Place(i) \in Stateful
    BY <2>1, StagingAssumption DEF Stateful, StagingAssumption
  <2>. stagingRepos \subseteq Names
    BY DEF LocationsInv, TypeOK
  <2>2. asked' = asked \cup {i} /\ status = "synthesizing"
    BY <1>2 DEF AddDockerImage, Ask
  <2>3. CASE Throw
    BY <2>2, <2>3 DEF Throw, LocationsInv, MemosHaveConstructs, LocationsExist
  <2>4. CASE name \in stagingRepos /\ UNCHANGED <<status, children, stagingRepos>>
    BY <2>1, <2>2, <2>4 DEF LocationsInv, MemosHaveConstructs, LocationsExist, Place
  <2>5. CASE name \in Names /\ Create(ImageConstructs(name), {name})
    BY <2>1, <2>2, <2>5 DEF Create, Throw, ImageConstructs, LocationsInv, MemosHaveConstructs,
       LocationsExist, Place
  <2>. QED BY <1>2, <2>3, <2>4, <2>5 DEF AddDockerImage
<1>. QED BY <1>1, <1>2

LEMMA LocationsStep == LocationsInv /\ [Next]_vars => LocationsInv'
<1>. SUFFICES ASSUME LocationsInv, [Next]_vars
              PROVE  MemosHaveConstructs' /\ LocationsExist'
  BY TypeStep DEF LocationsInv
<1>1. CASE Synth
  BY <1>1 DEF Synth, MemosHaveConstructs, LocationsExist
<1>2. CASE SynthesizeTemplate
  BY <1>2 DEF SynthesizeTemplate, synthVars, LocationsInv, MemosHaveConstructs,
              LocationsExist, Place
<1>3. CASE DeployStaging
  BY <1>3 DEF DeployStaging, synthVars, Wanted, LocationsInv,
              MemosHaveConstructs, LocationsExist, Place
<1>4. CASE Destroy \/ Abort \/ EndBlocked \/ UpdateApplication
  BY <1>4 DEF Destroy, Abort, EndBlocked, UpdateApplication, synthVars, LocationsInv,
              MemosHaveConstructs, LocationsExist
<1>5. CASE (\E a \in Assets : Publish(a)) \/ NextDay \/ ExpireFiles \/ ExpireImages
           \/ UNCHANGED vars
  BY <1>5 DEF Publish, NextDay, ExpireFiles, ExpireImages, Expire, vars, synthVars, cloudVars,
              LocationsInv, MemosHaveConstructs, LocationsExist, Place
<1>. QED BY <1>1, <1>2, <1>3, <1>4, <1>5, LocationsAdd DEF Next

\* Under either removal policy, for any names and any order: every location
\* that was handed out is a bucket or repository the staging stack has when
\* the assets are published.
THEOREM LocationsExistAlways == Spec => []LocationsExist
<1>1. Init => LocationsInv
  BY TypeInit DEF Init, LocationsInv, MemosHaveConstructs, LocationsExist
<1>2. LocationsInv => LocationsExist
  BY DEF LocationsInv
<1>. QED BY <1>1, <1>2, LocationsStep, PTL DEF Spec

\* With RETAIN, what leaves the store is a deploy-time file or an old image.
LEMMA OnlyExpires ==
    ASSUME ~AutoDelete, TypeOK, Next
    PROVE  \A a \in DOMAIN stored \ DOMAIN stored' :
              a \in DeployTime \/ (a \in Images /\ Age(a) >= MaxImageAge)
<1>1. CASE DeployStaging \/ Destroy
  <2>1. DOMAIN Left({}) = DOMAIN stored
    BY LeftFacts
  <2>. QED BY <1>1, <2>1 DEF DeployStaging, Destroy, Removed
<1>2. CASE ExpireFiles
  BY <1>2, RestrictFacts DEF ExpireFiles, Expire, ExpiredFiles
<1>3. CASE ExpireImages
  BY <1>3, RestrictFacts DEF ExpireImages, Expire, ExpiredImages, Untagged
<1>4. CASE (\E a \in Assets : Publish(a)) \/ UpdateApplication \/ NextDay \/ EndBlocked
  BY <1>4 DEF Publish, UpdateApplication, NextDay, EndBlocked, cloudVars
<1>5. CASE Synth \/ (\E f \in Files : AddFile(f)) \/ (\E i \in Images : AddDockerImage(i))
           \/ SynthesizeTemplate \/ Abort
  BY <1>5 DEF Synth, AddFile, AddDockerImage, SynthesizeTemplate, Abort, cloudVars
<1>. QED BY <1>1, <1>2, <1>3, <1>4, <1>5 DEF Next

LEMMA RunningStep ==
    ASSUME Next
    PROVE  running' \subseteq running \/ (running' \subseteq DOMAIN stored /\ stored' = stored)
BY DEF Next, Synth, AddFile, AddDockerImage, SynthesizeTemplate, Abort, DeployStaging,
       EndBlocked, Publish, UpdateApplication, Destroy, NextDay, ExpireFiles, ExpireImages,
       Expire, cloudVars

\* As bin configures it, what is deployed never loses a file that it may read
\* again, for any lifetimes and any history of deployments.
THEOREM RuntimeFilesKeptAlways ==
    ASSUME ~AutoDelete
    PROVE  Spec => []RuntimeFilesKept
<1>1. Init => RuntimeFilesKept
  BY DEF Init, RuntimeFilesKept
<1>2. ASSUME TypeOK, RuntimeFilesKept, [Next]_vars
      PROVE  RuntimeFilesKept'
  <2>1. CASE UNCHANGED vars
    BY <1>2, <2>1 DEF vars, cloudVars, RuntimeFilesKept
  <2>2. CASE Next
    BY <1>2, <2>2, OnlyExpires, RunningStep, StagingAssumption
       DEF RuntimeFilesKept, StagingAssumption
  <2>. QED BY <1>2, <2>1, <2>2
<1>. QED BY <1>1, <1>2, TypeCorrect, PTL DEF Spec
=============================================================================

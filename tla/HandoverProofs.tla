--------------------------- MODULE HandoverProofs ---------------------------
(***************************************************************************)
(* Two processes of the operator on one cluster, the old one still at work *)
(* while its successor starts: what either tells, stores and marks stays   *)
(* what one alone would.                                                   *)
(*                                                                         *)
(* The invariant of Reconciler is cut in two for it. SharedInv is about    *)
(* the API server and the same for both. LocalInv is about the caches, the *)
(* queue and the work in hand of one process. A step of a process is a     *)
(* step of Reconciler and keeps both parts of its own invariant            *)
(* (SafeSteps). To the other process it is something that happened to the  *)
(* API server while it stood still: LeftBehind, and BehindSteps says that  *)
(* LocalInv survives it, since nothing in the API server goes back and     *)
(* every copy the other holds of a status that changed is outdated.        *)
(*                                                                         *)
(* The lemmas about one process hold of the new one as theorems of the     *)
(* instance NewP. Its operators are definitions of their own to the        *)
(* prover, so the lemmas Same... say once which are the same.              *)
(***************************************************************************)
EXTENDS HandoverInvariants, ReconcilerRefinement

\* The new process, with its invariant and what is proved of it.
NewP == INSTANCE ReconcilerRefinement WITH
  seenAB <- seenAB2, seenRA <- seenRA2, seenDB <- seenDB2, seenCB <- seenCB2,
  seenTR <- seenTR2, seenPR <- seenPR2, queue <- queue2, pc <- pc2, req <- req2,
  batch <- batch2, cur <- cur2, my <- my2, left <- left2, gav <- gav2

USE DEF vars, cluster, worker, api, caches, history

-----------------------------------------------------------------------------
(* The definitions of the instances that are the same.                     *)

LEMMA SameCardinality ==
  \A S : /\ NewP!Cardinality(S) = Cardinality(S)
         /\ NewProcess!Cardinality(S) = Cardinality(S)
         /\ NewP!IsFiniteSet(S) <=> IsFiniteSet(S)
BY DEF NewP!Cardinality, NewProcess!Cardinality, Cardinality, NewP!IsFiniteSet, IsFiniteSet

\* The types of the new process, as Handover and as the proofs have them.
LEMMA SameTypes ==
  /\ New!TypeOK <=> NewP!TypeOK
  /\ (New!TypeOK)' <=> (NewP!TypeOK)'
<1>1. New!TypeOK <=> NewP!TypeOK
  BY DEF New!TypeOK, NewP!TypeOK, New!ClusterTypeOK, NewP!ClusterTypeOK,
     New!WorkerTypeOK, NewP!WorkerTypeOK, New!Disturbances, NewP!Disturbances,
     New!Keys, NewP!Keys, New!CBKey, NewP!CBKey, New!ABKey, NewP!ABKey,
     New!TRKey, NewP!TRKey, New!PRKey, NewP!PRKey, New!NoRequest, NewP!NoRequest,
     New!BuildStates, NewP!BuildStates, New!Copies, NewP!Copies,
     New!ComponentBuildObjects, NewP!ComponentBuildObjects,
     New!ComponentBuildStates, NewP!ComponentBuildStates,
     New!EntryStates, NewP!EntryStates, New!TaskRuns, NewP!TaskRuns,
     New!PipelineRuns, NewP!PipelineRuns, New!RunStates, NewP!RunStates,
     New!Specs, NewP!Specs
<1> QED
  BY <1>1, PTL

\* Its invariant, as HandoverInv and as the proofs have it.
LEMMA SameLocal ==
  /\ NewProcess!LocalInv <=> NewP!LocalInv
  /\ (NewProcess!LocalInv)' <=> (NewP!LocalInv)'
<1>1. NewProcess!CachesAreOld <=> NewP!CachesAreOld
  BY Zenon DEF NewProcess!CachesAreOld, NewP!CachesAreOld,
     NewProcess!RebuiltArtifacts, NewP!RebuiltArtifacts
<1>2. \A c, obj : NewProcess!SoundVersion(c, obj) <=> NewP!SoundVersion(c, obj)
  <2>1. \A obj, past : NewProcess!Counted(obj, past) <=> NewP!Counted(obj, past)
    BY SameCardinality DEF NewProcess!Counted, NewP!Counted, NewProcess!Outstanding,
       NewP!Outstanding, NewProcess!Repeats, NewP!Repeats
  <2> QED
    BY <2>1 DEF NewProcess!SoundVersion, NewP!SoundVersion, NewProcess!Sound, NewP!Sound,
       NewProcess!SettledArtifacts, NewP!SettledArtifacts, NewProcess!Reached, NewP!Reached,
       NewProcess!Recorded, NewP!Recorded, NewProcess!Listed, NewP!Listed,
       NewProcess!EntriesSound, NewP!EntriesSound, NewProcess!Verdict, NewP!Verdict
<1>3. \A c, obj, rest : NewProcess!SoundWork(c, obj, rest) <=> NewP!SoundWork(c, obj, rest)
  <2>1. \A obj, past : NewProcess!Counted(obj, past) <=> NewP!Counted(obj, past)
    BY SameCardinality DEF NewProcess!Counted, NewP!Counted, NewProcess!Outstanding,
       NewP!Outstanding, NewProcess!Repeats, NewP!Repeats
  <2> QED
    BY <2>1 DEF NewProcess!SoundWork, NewP!SoundWork, NewProcess!SoundSoFar, NewP!SoundSoFar,
       NewProcess!SettledArtifacts, NewP!SettledArtifacts, NewProcess!Reached, NewP!Reached,
       NewProcess!Recorded, NewP!Recorded, NewProcess!EntriesSound, NewP!EntriesSound
<1>4. \A obj, stored : NewProcess!Reconsidered(obj, stored) <=> NewP!Reconsidered(obj, stored)
  BY DEF NewProcess!Reconsidered, NewP!Reconsidered, NewProcess!Recorded, NewP!Recorded,
     NewProcess!Listed, NewP!Listed
<1>5. NewProcess!CachedIsSound <=> NewP!CachedIsSound
  BY <1>2 DEF NewProcess!CachedIsSound, NewP!CachedIsSound
<1>6. NewProcess!BatchIsSound <=> NewP!BatchIsSound
  BY <1>2 DEF NewProcess!BatchIsSound, NewP!BatchIsSound
<1>7. NewProcess!WorkIsSound <=> NewP!WorkIsSound
  BY <1>2, <1>3, <1>4 DEF NewProcess!WorkIsSound, NewP!WorkIsSound
<1>8. NewProcess!LocalInv <=> NewP!LocalInv
  BY <1>1, <1>5, <1>6, <1>7 DEF NewProcess!LocalInv, NewP!LocalInv
<1> QED
  BY <1>8, PTL

\* The invariant of the API server mentions neither process.
LEMMA SameShared ==
  /\ SharedInv <=> NewP!SharedInv
  /\ SharedInv' <=> (NewP!SharedInv)'
<1>1. SettledArtifacts = NewP!SettledArtifacts /\ Reached = NewP!Reached
  BY DEF SettledArtifacts, NewP!SettledArtifacts, Reached, NewP!Reached
<1>2. \A c, obj : SoundVersion(c, obj) <=> NewP!SoundVersion(c, obj)
  <2>1. \A obj, past : Counted(obj, past) <=> NewP!Counted(obj, past)
    BY SameCardinality DEF Counted, NewP!Counted, Outstanding, NewP!Outstanding,
       Repeats, NewP!Repeats
  <2> QED
    BY <1>1, <2>1 DEF SoundVersion, NewP!SoundVersion, Sound, NewP!Sound, Recorded,
       NewP!Recorded, Listed, NewP!Listed, EntriesSound, NewP!EntriesSound, Verdict,
       NewP!Verdict
<1>3. MarksAreTrue <=> NewP!MarksAreTrue
  BY DEF MarksAreTrue, NewP!MarksAreTrue
<1>4. ReportsAreTrue <=> NewP!ReportsAreTrue
  BY <1>1 DEF ReportsAreTrue, NewP!ReportsAreTrue, Listed, NewP!Listed
<1>5. StoredIsSound <=> NewP!StoredIsSound
  BY <1>2 DEF StoredIsSound, NewP!StoredIsSound
<1>6. SharedInv <=> NewP!SharedInv
  BY <1>3, <1>4, <1>5 DEF SharedInv, NewP!SharedInv
<1> QED
  BY <1>6, PTL

\* What the new process does in Handover is a step of the instance.
LEMMA SameInit == New!Init => NewP!Init
BY Zenon DEF New!Init, NewP!Init, New!ClusterInit, NewP!ClusterInit,
   New!NewComponentBuild, NewP!NewComponentBuild, New!FirstSpec, NewP!FirstSpec,
   New!NothingLeft, NewP!NothingLeft, New!Copy, NewP!Copy, New!CBKey, NewP!CBKey, New!NoRequest, NewP!NoRequest, New!NoCopy, NewP!NoCopy, New!NoBatch,
   NewP!NoBatch

LEMMA SameWorker == New!Worker => NewP!Worker
BY Zenon DEF New!Worker, NewP!Worker, New!Handle, NewP!Handle, New!Loop, NewP!Loop,
   New!Finish, NewP!Finish, New!TakeComponentBuild, NewP!TakeComponentBuild,
   New!PickListed, NewP!PickListed, New!TakeArtifactBuild, NewP!TakeArtifactBuild,
   New!TakeRunningTaskRun, NewP!TakeRunningTaskRun, New!TakeEndedTaskRun,
   NewP!TakeEndedTaskRun, New!EndedTaskRunUnlisted, NewP!EndedTaskRunUnlisted,
   New!TakeRunningPipelineRun, NewP!TakeRunningPipelineRun,
   New!TakeFailedPipelineRun, NewP!TakeFailedPipelineRun,
   New!TakeSucceededPipelineRun, NewP!TakeSucceededPipelineRun, New!DispatchFails,
   NewP!DispatchFails, New!Take, NewP!Take, New!Start, NewP!Start, New!StartBatch,
   NewP!StartBatch, New!Ignore, NewP!Ignore, New!Annotate, NewP!Annotate, New!Spend,
   NewP!Spend, New!Return, NewP!Return, New!NoRequest, NewP!NoRequest, New!NoCopy,
   NewP!NoCopy, New!Copy, NewP!Copy, New!NewComponentBuild, NewP!NewComponentBuild,
   New!Outdated, NewP!Outdated, New!Outdate, NewP!Outdate, New!CBKey, NewP!CBKey,
   New!ABKey, NewP!ABKey, New!TRKey, NewP!TRKey, New!PRKey, NewP!PRKey,
   New!ConfigUnreadable, NewP!ConfigUnreadable, New!ConfigMissing,
   NewP!ConfigMissing, New!ConfigFound, NewP!ConfigFound, New!FoundArtifact,
   NewP!FoundArtifact, New!UnreadableArtifact, NewP!UnreadableArtifact,
   New!CreateArtifactBuild, NewP!CreateArtifactBuild, New!CreateArtifactBuildFails,
   NewP!CreateArtifactBuildFails, New!CreateArtifactBuildUnanswered,
   NewP!CreateArtifactBuildUnanswered, New!Enter, NewP!Enter, New!Entered,
   NewP!Entered, New!SeenEntry, NewP!SeenEntry, New!SeenDeployed, NewP!SeenDeployed,
   New!MayDeploy, NewP!MayDeploy, New!SeenDeploying, NewP!SeenDeploying,
   New!DeployArtifact, NewP!DeployArtifact, New!DeployNothing, NewP!DeployNothing,
   New!StillOutstanding, NewP!StillOutstanding, New!SettleSilently,
   NewP!SettleSilently, New!SettleAndNotify, NewP!SettleAndNotify, New!NotifyFails,
   NewP!NotifyFails, New!NotifyUnanswered, NewP!NotifyUnanswered, New!SaveStatus,
   NewP!SaveStatus, New!SaveStatusFails, NewP!SaveStatusFails, New!Settled,
   NewP!Settled, New!MustNotify, NewP!MustNotify, New!CreatePipelineRun,
   NewP!CreatePipelineRun, New!Verdict, NewP!Verdict, New!UpdateStatus,
   NewP!UpdateStatus, New!worker, NewP!worker, New!cluster, NewP!cluster, New!api,
   NewP!api, New!caches, NewP!caches, New!history, NewP!history, New!Unreached,
   NewP!Unreached, New!NothingLeft, NewP!NothingLeft

LEMMA SameSync == New!Sync => NewP!Sync
BY Zenon DEF New!Sync, NewP!Sync, New!SyncArtifactBuilds, NewP!SyncArtifactBuilds,
   New!SyncComponentBuilds, NewP!SyncComponentBuilds, New!SyncTaskRuns,
   NewP!SyncTaskRuns, New!SyncPipelineRuns, NewP!SyncPipelineRuns,
   New!SyncRebuiltArtifacts, NewP!SyncRebuiltArtifacts, New!SyncDependencyBuilds,
   NewP!SyncDependencyBuilds, New!RebuiltArtifacts, NewP!RebuiltArtifacts,
   New!CBKey, NewP!CBKey, New!ABKey, NewP!ABKey, New!TRKey, NewP!TRKey, New!PRKey,
   NewP!PRKey, New!News, NewP!News, New!Copy, NewP!Copy, New!api, NewP!api, New!history, NewP!history

\* The promise and the growth of the API server are about neither process.
LEMMA SamePromise ==
  [NewP!Promise!Next]_(NewP!Promise!vars) => [Promise!Next]_(Promise!vars)
BY DEF Promise!Next, NewP!Promise!Next, Promise!vars, NewP!Promise!vars,
   Promise!Requests, NewP!Promise!Requests, Request, NewP!Request, Listed, NewP!Listed,
   Promise!Ask, NewP!Promise!Ask, Promise!Judge, NewP!Promise!Judge,
   Promise!IsTrueOf, NewP!Promise!IsTrueOf, Promise!Tell, NewP!Promise!Tell,
   Promise!Deliver, NewP!Promise!Deliver, Promise!Resume, NewP!Promise!Resume,
   Promise!Acknowledge, NewP!Promise!Acknowledge, Promise!Break, NewP!Promise!Break,
   Promise!Publish, NewP!Promise!Publish, Promise!Mark, NewP!Promise!Mark

LEMMA SameGrowth ==
  /\ NewP!BuildsAdvance <=> BuildsAdvance
  /\ NewP!DeploymentsAdvance <=> DeploymentsAdvance
  /\ NewP!NotificationsStay <=> NotificationsStay
  /\ NewP!SpecsGrow <=> SpecsGrow
  /\ NewP!MarksKept <=> MarksKept
BY Zenon DEF NewP!BuildsAdvance, BuildsAdvance, NewP!DeploymentsAdvance, DeploymentsAdvance,
   NewP!NotificationsStay, NotificationsStay, NewP!SpecsGrow, SpecsGrow,
   NewP!MarksKept, MarksKept

\* The arrival of a process that has nothing in hand is a restart of it.
LEMMA SameRelist == New!Relist /\ NewWaits /\ UNCHANGED worker2 => NewP!Restart
BY DEF New!Relist, NewWaits, worker2, NewP!Restart, NewP!Relist, New!Spend, NewP!Spend,
  New!RebuiltArtifacts, NewP!RebuiltArtifacts, New!Copy, NewP!Copy, New!KeysOf, NewP!KeysOf,
  New!CBKey, NewP!CBKey, New!ABKey, NewP!ABKey, New!TRKey, NewP!TRKey, New!PRKey, NewP!PRKey,
  NewP!NoRequest, NewP!NoBatch, NewP!NoCopy, NoRequest, NoBatch, NoCopy, Copy,
  NewComponentBuild, NewP!NewComponentBuild, NothingLeft, NewP!NothingLeft,
  New!api, NewP!api, New!history, NewP!history

\* What the tasks and the pipelines do is the same for both.
LEMMA SameSettling == Settling /\ UNCHANGED own2 => NewP!Settling
BY DEF Settling, NewP!Settling, own2, CreateConfig, NewP!CreateConfig, BuildEnds, NewP!BuildEnds,
  TaskRunEnds, NewP!TaskRunEnds, PipelineRunEnds, NewP!PipelineRunEnds, Spend, NewP!Spend, NewP!caches, NewP!history

\* What is assumed of the constants, as the instance has it.
LEMMA SameAssumptions ==
  /\ NewP!IsFiniteSet(Artifacts)
  /\ BuiltBy \in [Artifacts -> DependencyBuilds]
  /\ Wanted \in [ComponentBuilds -> SUBSET Artifacts]
  /\ HasPR \subseteq ComponentBuilds
  /\ ConfigAtStart \in BOOLEAN
  /\ EditedSpecs \subseteq NewP!Specs
  /\ MaxTaskRuns \in Nat /\ MaxPipelineRuns \in Nat
  /\ Budget \in [NewP!Disturbances -> Nat]
  /\ Nobody \notin ComponentBuilds \cup Artifacts
BY SameCardinality, ArtifactsFinite, BuiltByType, WantedType, HasPRType, ConfigType,
   EditedSpecsType, BoundsType, NobodyType
DEF NewP!Disturbances, Disturbances, NewP!Specs, Specs

-----------------------------------------------------------------------------
(* A step of one process, as that process sees it.                         *)

LEMMA NewSteps ==
  ASSUME NewP!SafeInv, NewP!Next
  PROVE  /\ NewP!SafeInv'
         /\ BuildsAdvance /\ DeploymentsAdvance /\ NotificationsStay /\ SpecsGrow
         /\ MarksKept
         /\ [Promise!Next]_(Promise!vars)
<1>1. NewP!SafeInv'
  BY SameAssumptions, NewP!SafeSteps
<1>2. NewP!BuildsAdvance /\ NewP!DeploymentsAdvance /\ NewP!NotificationsStay /\ NewP!SpecsGrow
  BY SameAssumptions, NewP!ApiSteps
<1>3. NewP!MarksKept
  BY SameAssumptions, NewP!NotifiedSteps
<1>4. [NewP!Promise!Next]_(NewP!Promise!vars)
  BY SameAssumptions, NewP!NextPromise
<1> QED
  BY <1>1, <1>2, <1>3, <1>4, SameGrowth, SamePromise

LEMMA OldSteps ==
  ASSUME SafeInv, Next
  PROVE  /\ SafeInv'
         /\ BuildsAdvance /\ DeploymentsAdvance /\ NotificationsStay /\ SpecsGrow
         /\ MarksKept
         /\ [Promise!Next]_(Promise!vars)
BY SafeSteps, ApiSteps, NotifiedSteps, NextPromise

-----------------------------------------------------------------------------
(* A step of one process, as the other sees it.                            *)

LEMMA OldIsLeftBehind == OldStays => LeftBehind
BY DEF OldStays, LeftBehind, Aged, Behind, Stored, Overtaken

LEMMA NewIsLeftBehind == Arrived /\ NewStays => NewP!LeftBehind
BY DEF NewStays, NewP!LeftBehind, Aged, NewP!Behind, Stored, NewP!Overtaken,
       Outdated, NewP!Outdated

LEMMA SameApiTypes ==
  /\ TypeOK => NewP!ApiTypeOK
  /\ (TypeOK)' => (NewP!ApiTypeOK)'
  /\ NewP!TypeOK => ApiTypeOK
  /\ (NewP!TypeOK)' => ApiTypeOK'
<1>1. TypeOK => NewP!ApiTypeOK
  BY DEF TypeOK, ClusterTypeOK, NewP!ApiTypeOK, BuildStates, NewP!BuildStates,
     ComponentBuildObjects, NewP!ComponentBuildObjects, ComponentBuildStates,
     NewP!ComponentBuildStates, EntryStates, NewP!EntryStates, TaskRuns, NewP!TaskRuns,
     PipelineRuns, NewP!PipelineRuns, RunStates, NewP!RunStates, Disturbances,
     NewP!Disturbances, Specs, NewP!Specs
<1>2. NewP!TypeOK => ApiTypeOK
  BY DEF NewP!TypeOK, NewP!ClusterTypeOK, ApiTypeOK, BuildStates, NewP!BuildStates,
     ComponentBuildObjects, NewP!ComponentBuildObjects, ComponentBuildStates,
     NewP!ComponentBuildStates, EntryStates, NewP!EntryStates, TaskRuns, NewP!TaskRuns,
     PipelineRuns, NewP!PipelineRuns, RunStates, NewP!RunStates, Disturbances,
     NewP!Disturbances, Specs, NewP!Specs
<1> QED
  BY <1>1, <1>2, PTL

\* The old process waits while the new one works: it may go on afterwards.
LEMMA OldWaits ==
  ASSUME TypeOK, OldStays, (NewP!TypeOK)',
         BuildsAdvance, DeploymentsAdvance, NotificationsStay, SpecsGrow
  PROVE  TypeOK' /\ (LocalInv => LocalInv')
BY OldIsLeftBehind, SameApiTypes, BehindTypes, BehindSteps

\* The new process, once it has arrived, waits while the old one works.
LEMMA NewKeeps ==
  ASSUME NewP!TypeOK, Arrived, NewStays, TypeOK',
         BuildsAdvance, DeploymentsAdvance, NotificationsStay, SpecsGrow
  PROVE  (NewP!TypeOK)' /\ (NewP!LocalInv => (NewP!LocalInv)')
<1>1. NewP!LeftBehind /\ (NewP!ApiTypeOK)'
  BY NewIsLeftBehind, SameApiTypes
<1>2. (NewP!TypeOK)'
  BY <1>1, SameAssumptions, NewP!BehindTypes
<1>3. NewP!BuildsAdvance /\ NewP!DeploymentsAdvance /\ NewP!NotificationsStay /\ NewP!SpecsGrow
  BY SameGrowth
<1>4. NewP!LocalInv => (NewP!LocalInv)'
  BY <1>1, <1>3, SameAssumptions, NewP!BehindSteps
<1> QED
  BY <1>2, <1>4

\* Before it arrives it holds nothing that could be outdated.
LEMMA NewStillWaits ==
  ASSUME New!TypeOK, NewWaits, ~Arrived, NewStays, TypeOK'
  PROVE  (New!TypeOK)' /\ NewWaits'
<1>1. batch2' = batch2
  BY DEF NewStays, NewWaits, Aged, NoBatch
<1>2. my2' = my2
  BY NobodyType DEF NewStays, NewWaits, Stored
<1>3. UNCHANGED own2
  BY <1>1, <1>2 DEF NewStays, own2, worker2
<1>4. NewWaits'
  BY <1>3 DEF NewWaits, own2, worker2, NoRequest, NoBatch, NoCopy, NothingLeft
<1>5. ApiTypeOK'
  BY DEF TypeOK, ClusterTypeOK, ApiTypeOK
<1>6. (NewP!TypeOK)'
  <2>1. NewP!TypeOK /\ (NewP!ApiTypeOK)'
    BY SameTypes, SameApiTypes
  <2> QED
    BY <1>3, <2>1 DEF own2, worker2, NewP!TypeOK, NewP!ClusterTypeOK, NewP!WorkerTypeOK,
                      NewP!ApiTypeOK
<1> QED
  BY <1>4, <1>6, SameTypes

-----------------------------------------------------------------------------
(* Every step of the rollout keeps the invariant and the promise.          *)

Carried == HandoverInv' /\ MarksKept /\ [Promise!Next]_(Promise!vars)

\* The invariant as the lemmas of the two processes have it.
LEMMA BothProcesses ==
  /\ HandoverInv <=> /\ TypeOK /\ SharedInv /\ (~Arrived \/ pc # "idle" => LocalInv)
                     /\ NewP!TypeOK /\ NewP!SharedInv
                     /\ (Arrived => NewP!LocalInv) /\ (~Arrived => NewWaits)
  /\ HandoverInv' <=> /\ TypeOK' /\ SharedInv' /\ (~Arrived' \/ pc' # "idle" => LocalInv')
                      /\ (NewP!TypeOK)' /\ (NewP!SharedInv)'
                      /\ (Arrived' => (NewP!LocalInv)') /\ (~Arrived' => NewWaits')
BY SameTypes, SameLocal, SameShared DEF HandoverInv, HandoverTypeOK

\* The old process at work: its own lemmas, and NewKeeps for the new one.
LEMMA OldWorksKeeps ==
  ASSUME HandoverInv, OldWorks
  PROVE  Carried
<1>1. Next /\ NewStays /\ (Worker \/ Sync \/ Settling \/ IdleResync)
  BY DEF OldWorks, Next
<1>2. SafeInv
  <2>1. ~Arrived \/ pc # "idle"
    BY DEF OldWorks
  <2> QED
    BY <2>1, BothProcesses DEF SafeInv
<1>3. /\ SafeInv'
      /\ BuildsAdvance /\ DeploymentsAdvance /\ NotificationsStay /\ SpecsGrow
      /\ MarksKept
      /\ [Promise!Next]_(Promise!vars)
  BY <1>1, <1>2, OldSteps
<1>4. Arrived' <=> Arrived
  BY <1>1, <1>2, RestartsLeft DEF SafeInv, Arrived
<1>5. TypeOK' /\ SharedInv' /\ LocalInv' /\ (NewP!SharedInv)'
  BY <1>3, SameShared DEF SafeInv
<1>6. CASE Arrived
  <2>1. (NewP!TypeOK)' /\ (NewP!LocalInv)'
    BY <1>1, <1>3, <1>5, <1>6, BothProcesses, NewKeeps
  <2> QED
    BY <1>3, <1>4, <1>5, <1>6, <2>1, BothProcesses DEF Carried
<1>7. CASE ~Arrived
  <2>1. (New!TypeOK)' /\ NewWaits'
    BY <1>1, <1>5, <1>7, BothProcesses, SameTypes, NewStillWaits
  <2> QED
    BY <1>3, <1>4, <1>5, <1>7, <2>1, BothProcesses, SameTypes DEF Carried
<1> QED
  BY <1>6, <1>7

\* The new process at work: the same with the roles exchanged.
LEMMA NewWorksKeeps ==
  ASSUME HandoverInv, NewWorks
  PROVE  Carried
<1>1. /\ Arrived /\ OldStays
      /\ NewP!Next /\ (NewP!Worker \/ NewP!Sync \/ NewP!Settling \/ NewP!IdleResync)
  BY SameWorker, SameSync DEF NewWorks, NewP!Next, worker2, NewP!worker
<1>2. NewP!SafeInv
  BY <1>1, BothProcesses DEF NewP!SafeInv
<1>3. /\ NewP!SafeInv'
      /\ BuildsAdvance /\ DeploymentsAdvance /\ NotificationsStay /\ SpecsGrow
      /\ MarksKept
      /\ [Promise!Next]_(Promise!vars)
  BY <1>1, <1>2, NewSteps
<1>4. Arrived'
  <2>1. budget'["restart"] = budget["restart"]
    BY <1>1, <1>2, SameAssumptions, NewP!RestartsLeft DEF NewP!SafeInv
  <2> QED
    BY <1>1, <2>1 DEF Arrived
<1>5. (NewP!TypeOK)' /\ (NewP!SharedInv)' /\ (NewP!LocalInv)' /\ SharedInv'
  BY <1>3, SameShared DEF NewP!SafeInv
<1>6. TypeOK' /\ (LocalInv => LocalInv') /\ pc' = pc
  BY <1>1, <1>3, <1>5, BothProcesses, OldWaits DEF OldStays
<1> QED
  BY <1>1, <1>3, <1>4, <1>5, <1>6, BothProcesses DEF Carried

\* A step that changes none of this tells nobody anything.
LEMMA QuietSteps ==
  ASSUME UNCHANGED <<componentBuild, taskRuns, dependencyBuild, pipelineRuns, history>>
  PROVE  MarksKept /\ [Promise!Next]_(Promise!vars)
<1>1. MarksKept
  BY DEF MarksKept
<1>2. UNCHANGED promise
  BY SameApi
<1>3. UNCHANGED Promise!vars
  BY <1>2 DEF Promise!vars, promise, Asked, Requested, Published, Deployed, Judged, Told, Heard,
              Marked, Messages, Delivered
<1> QED
  BY <1>1, <1>3

\* The new process lists the cluster: it starts from what RestartKeeps says.
LEMMA ArriveKeeps ==
  ASSUME HandoverInv, Arrive
  PROVE  Carried
<1>1. /\ ~Arrived /\ NewWaits /\ UNCHANGED <<own, worker2>> /\ New!Relist
      /\ NewP!Restart /\ UNCHANGED <<api, history>>
  BY SameRelist DEF Arrive, HandoverInv, New!Relist, New!api, New!history
<1>2. SafeInv
  BY <1>1, BothProcesses DEF SafeInv
<1>3. (NewP!TypeOK)'
  <2>1. NewP!TypeOK /\ NewP!Next
    BY <1>1, BothProcesses DEF NewP!Next
  <2> QED
    BY <2>1, SameAssumptions, NewP!NextTypes
<1>4. (NewP!LocalInv)'
  <2>1. NewP!SharedInv /\ \A g \in Artifacts : artifactBuild[g] = "failed" => g \in broken
    BY <1>2, SameShared DEF SafeInv, LocalInv, CachesAreOld
  <2> QED
    BY <1>1, <2>1, SameAssumptions, NewP!RestartKeeps
\* The old process and the API server notice nothing.
<1>5. TypeOK'
  <2>1. ApiTypeOK'
    BY <1>3, SameApiTypes
  <2> QED
    BY <1>1, <1>2, <2>1, IdleProcessTypes DEF SafeInv, own
<1>6. SharedInv' /\ LocalInv'
  BY <1>1, <1>2, Undisturbed DEF SafeInv, own
<1>7. NewWaits'
  BY <1>1 DEF NewWaits, worker2, NoRequest, NoBatch, NoCopy
<1>8. MarksKept /\ [Promise!Next]_(Promise!vars)
  BY <1>1, QuietSteps
<1> QED
  BY <1>3, <1>4, <1>5, <1>6, <1>7, <1>8, BothProcesses, SameShared DEF Carried

\* The old process is gone: only the new one and the API server are left.
LEMMA LeaveKeeps ==
  ASSUME HandoverInv, Leave
  PROVE  Carried
<1>1. /\ Arrived /\ pc = "idle"
      /\ UNCHANGED <<artifactBuild, dependencyBuild, componentBuild, taskRuns,
                     pipelineRuns, config, budget, history>>
      /\ UNCHANGED worker /\ UNCHANGED own2
  BY DEF Leave
<1>2. Arrived' /\ pc' = "idle"
  BY <1>1 DEF Arrived
<1>3. SharedInv'
  BY <1>1, Undisturbed DEF HandoverInv
<1>4. (NewP!TypeOK)'
  <2>1. (NewP!ApiTypeOK)'
    BY <1>1, BothProcesses, SameApiTypes DEF NewP!ApiTypeOK
  <2>2. UNCHANGED <<NewP!caches, queue2, NewP!worker>>
    BY <1>1 DEF own2, worker2, NewP!caches, NewP!worker
  <2> QED
    BY <2>1, <2>2, BothProcesses, SameAssumptions, NewP!IdleProcessTypes
<1>5. (NewP!LocalInv)'
  <2>1. UNCHANGED <<NewP!api, NewP!history, NewP!caches, NewP!worker>>
    BY <1>1 DEF own2, worker2, NewP!api, NewP!caches, NewP!history, NewP!worker
  <2> QED
    BY <1>1, <2>1, BothProcesses, SameAssumptions, NewP!Undisturbed
<1>6. TypeOK'
  <2>1. ApiTypeOK'
    BY <1>4, SameApiTypes
  <2>2. /\ seenAB' \in [Artifacts -> BuildStates] /\ seenRA' \in SUBSET Artifacts
        /\ seenDB' \in [DependencyBuilds -> BOOLEAN] /\ queue' \in SUBSET Keys
        /\ seenCB' \in [ComponentBuilds -> Copies]
    BY FirstSpecTypes DEF Leave, BuildStates
  <2>3. /\ seenTR' \in [DependencyBuilds -> Seq(TaskRuns)]
        /\ \A d \in DependencyBuilds : Len(seenTR'[d]) <= MaxTaskRuns
        /\ seenPR' \in [ComponentBuilds -> Seq(PipelineRuns)]
        /\ \A c \in ComponentBuilds : Len(seenPR'[c]) <= MaxPipelineRuns
    BY Assumptions, EmptySeq DEF Leave
  <2>4. WorkerTypeOK'
    BY <1>1, WorkerUnchanged, BothProcesses DEF TypeOK
  <2> QED
    BY <2>1, <2>2, <2>3, <2>4 DEF TypeOK, ClusterTypeOK, ApiTypeOK
<1>7. MarksKept /\ [Promise!Next]_(Promise!vars)
  BY <1>1, QuietSteps
<1> QED
  BY <1>2, <1>3, <1>4, <1>5, <1>6, <1>7, BothProcesses, SameShared DEF Carried

\* The rest of the cluster moves: for each process that is a step like any other.
LEMMA SettlingKeeps ==
  ASSUME HandoverInv, Settling, UNCHANGED <<worker, own2>>
  PROVE  Carried
<1>1. Next /\ NewP!Next
  BY SameSettling DEF Next, NewP!Next, own2, worker2, NewP!worker
<1>2. Arrived' <=> Arrived
  BY BothProcesses, RestartsLeft DEF Arrived
<1>3. CASE Arrived
  <2>1. NewP!SafeInv
    BY <1>3, BothProcesses DEF NewP!SafeInv
  <2>2. /\ NewP!SafeInv'
        /\ BuildsAdvance /\ DeploymentsAdvance /\ NotificationsStay /\ SpecsGrow
        /\ MarksKept
        /\ [Promise!Next]_(Promise!vars)
    BY <1>1, <2>1, NewSteps
  <2>3. (NewP!TypeOK)' /\ (NewP!SharedInv)' /\ (NewP!LocalInv)' /\ SharedInv'
    BY <2>2, SameShared DEF NewP!SafeInv
  <2>4. TypeOK'
    BY <1>1, BothProcesses, NextTypes
  <2>5. pc # "idle" => LocalInv'
    BY <1>1, BothProcesses, SafeSteps DEF SafeInv
  <2> QED
    BY <1>2, <1>3, <2>2, <2>3, <2>4, <2>5, BothProcesses DEF Carried
<1>4. CASE ~Arrived
  <2>1. SafeInv
    BY <1>4, BothProcesses DEF SafeInv
  <2>2. /\ SafeInv'
        /\ BuildsAdvance /\ DeploymentsAdvance /\ NotificationsStay /\ SpecsGrow
        /\ MarksKept
        /\ [Promise!Next]_(Promise!vars)
    BY <1>1, <2>1, OldSteps
  <2>3. TypeOK' /\ SharedInv' /\ LocalInv' /\ (NewP!SharedInv)'
    BY <2>2, SameShared DEF SafeInv
  <2>4. (NewP!TypeOK)'
    BY <1>1, BothProcesses, SameAssumptions, NewP!NextTypes
  <2>5. NewWaits'
    BY <1>4, BothProcesses DEF NewWaits, own2, worker2, NoRequest, NoBatch, NoCopy
  <2> QED
    BY <1>2, <1>4, <2>2, <2>3, <2>4, <2>5, BothProcesses DEF Carried
<1> QED
  BY <1>3, <1>4

-----------------------------------------------------------------------------
(* The invariant is inductive, and what follows from it.                   *)

LEMMA HandoverInitInv == HandoverInit => HandoverInv
<1> SUFFICES ASSUME HandoverInit PROVE HandoverInv
  OBVIOUS
<1>1. SafeInv
  BY InitInv DEF HandoverInit, IInv
<1>2. NewP!SafeInv
  <2>1. NewP!Init
    BY SameInit DEF HandoverInit
  <2> QED
    BY <2>1, SameAssumptions, NewP!InitInv DEF NewP!IInv
<1>3. ~Arrived
  BY Assumptions DEF HandoverInit, Init, ClusterInit, Arrived, Disturbances
<1>4. NewWaits
  BY DEF HandoverInit, New!Init, NewWaits, New!NoRequest, New!NoBatch, New!NoCopy,
         New!NothingLeft, New!Copy, New!NewComponentBuild, NoRequest, NoBatch, NoCopy,
         NothingLeft, Copy, NewComponentBuild
<1> QED
  BY <1>1, <1>2, <1>3, <1>4, BothProcesses DEF SafeInv, NewP!SafeInv

\* Every step keeps the invariant and the marks, and is a step of the promise.
LEMMA HandoverSteps ==
  HandoverInv /\ [HandoverNext]_handoverVars =>
    /\ HandoverInv'
    /\ [MarksKept]_vars
    /\ [Promise!Next]_(Promise!vars)
<1> SUFFICES ASSUME HandoverInv, [HandoverNext]_handoverVars
             PROVE  Carried
  BY DEF Carried
<1>1. CASE HandoverNext
  BY <1>1, ArriveKeeps, OldWorksKeeps, NewWorksKeeps, LeaveKeeps, SettlingKeeps
     DEF HandoverNext
<1>2. CASE UNCHANGED handoverVars
  <2>1. UNCHANGED vars /\ UNCHANGED NewP!vars /\ UNCHANGED own2
    BY <1>2 DEF handoverVars, own2, worker2, NewP!vars, NewP!cluster, NewP!worker,
                NewP!api, NewP!caches, NewP!history
  <2>2. TypeOK' /\ SharedInv' /\ (LocalInv => LocalInv')
    BY <2>1, BothProcesses, NextTypes, Undisturbed
  <2>3. (NewP!TypeOK)'
    BY <2>1, BothProcesses, SameAssumptions, NewP!NextTypes
  <2>4. NewP!LocalInv => (NewP!LocalInv)'
    BY <2>1, SameAssumptions, NewP!Undisturbed
       DEF NewP!vars, NewP!cluster, NewP!api, NewP!caches, NewP!history, NewP!worker
  <2>5. (Arrived' <=> Arrived) /\ (NewWaits' <=> NewWaits) /\ pc' = pc
    BY <2>1 DEF Arrived, NewWaits, own2, worker2, NoRequest, NoBatch, NoCopy
  <2>6. MarksKept /\ [Promise!Next]_(Promise!vars)
    BY <2>1, QuietSteps
  <2> QED
    BY <2>2, <2>3, <2>4, <2>5, <2>6, BothProcesses, SameShared DEF Carried
<1> QED
  BY <1>1, <1>2

\* Through the whole rollout the API server is sound, the old process keeps its
\* invariant while it has work and the new one from its arrival on.
THEOREM HandoverInvariance == HandoverSpec => []HandoverInv
<1> QED
  BY HandoverInitInv, HandoverSteps, PTL DEF HandoverSpec

\* Both processes and what they share keep their types.
THEOREM HandoverTypeCorrect == HandoverSpec => []HandoverTypeOK
<1>1. HandoverInv => HandoverTypeOK
  BY DEF HandoverInv
<1> QED
  BY <1>1, HandoverInvariance, PTL

\* With two processes at work, a stored "Complete" still has every artifact of
\* the spec it was given on available, and a stored "Failed" one that failed.
THEOREM HandoverVerdicts == HandoverSpec => []VerdictIsEarned
<1>1. HandoverInv => VerdictIsEarned
  BY EarnedVerdicts DEF HandoverInv, HandoverTypeOK
<1> QED
  BY <1>1, HandoverInvariance, PTL

\* What either of them tells a pull request is true.
THEOREM HandoverReports == HandoverSpec => []ReportIsTrue
<1>1. HandoverInv => ReportIsTrue
  BY TrueReports DEF HandoverInv
<1> QED
  BY <1>1, HandoverInvariance, PTL

\* The status in the API server is consistent, and marked as notified only when
\* a notification succeeded, whichever of them stored it.
THEOREM HandoverStatus == HandoverSpec => [](StatusConsistent /\ NotifiedIsDelivered)
<1>1. HandoverInv => StatusConsistent /\ NotifiedIsDelivered
  BY SharedStatus DEF HandoverInv
<1> QED
  BY <1>1, HandoverInvariance, PTL

\* Neither takes a mark of the other back by saving an older copy.
THEOREM HandoverMarks == HandoverSpec => NotifiedIsKept
<1>1. HandoverInv /\ [HandoverNext]_handoverVars => [MarksKept]_vars
  BY HandoverSteps
<1> QED
  BY <1>1, HandoverInvariance, PTL DEF HandoverSpec, NotifiedIsKept, MarksKept

\* Together they implement BuildPromise, as one alone does.
THEOREM HandoverKeepsThePromise == HandoverSpec => PromiseKept
<1>1. HandoverInit => Promise!Init
  BY InitPromise DEF HandoverInit
<1>2. HandoverInv /\ [HandoverNext]_handoverVars => [Promise!Next]_(Promise!vars)
  BY HandoverSteps
<1> QED
  BY <1>1, <1>2, HandoverInvariance, PTL DEF HandoverSpec, PromiseKept, Promise!Spec

=============================================================================

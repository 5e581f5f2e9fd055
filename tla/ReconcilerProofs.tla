--------------------------- MODULE ReconcilerProofs ---------------------------
(***************************************************************************)
(* The safety of Reconciler, for all values of the constants: IInv is an   *)
(* inductive invariant, and implies that verdicts are earned, reports are  *)
(* true, statuses are consistent, and notifications and complete verdicts  *)
(* are kept. SafeInv is kept by each process whoever else works            *)
(* (SafeSteps, BehindSteps); EntriesAreSeen and FinishedStands need it to  *)
(* be the only one.                                                        *)
(***************************************************************************)
EXTENDS ReconcilerInvariants, ReconcilerTypes, FiniteSetTheorems

USE DEF vars, cluster, worker, api, caches, history

-----------------------------------------------------------------------------
(* What is known of the versions of a ComponentBuild, as operators.        *)

\* A sound version stays sound: all that it rests on may grow.
LEMMA SoundMonotone ==
  ASSUME NEW c, NEW obj, NEW past, NEW settled, NEW failed, NEW reached,
         NEW past1, NEW settled1, NEW failed1, NEW reached1,
         past \subseteq past1, settled \subseteq settled1,
         failed \subseteq failed1, reached \subseteq reached1,
         Sound(c, obj, past, settled, failed, reached)
  PROVE  Sound(c, obj, past1, settled1, failed1, reached1)
BY DEF Sound, EntriesSound, Counted

LEMMA SoFarMonotone ==
  ASSUME NEW c, NEW obj, NEW rest,
         NEW past, NEW settled, NEW failed, NEW reached,
         NEW past1, NEW settled1, NEW failed1, NEW reached1,
         past \subseteq past1, settled \subseteq settled1,
         failed \subseteq failed1, reached \subseteq reached1,
         SoundSoFar(c, obj, rest, past, settled, failed, reached)
  PROVE  SoundSoFar(c, obj, rest, past1, settled1, failed1, reached1)
BY DEF SoundSoFar, EntriesSound, Counted

LEMMA OutstandingFinite ==
  ASSUME NEW obj
  PROVE  IsFiniteSet(Outstanding(obj)) /\ Cardinality(Outstanding(obj)) \in Nat
<1>1. Outstanding(obj) \subseteq Artifacts
  BY DEF Outstanding
<1> QED
  BY <1>1, ArtifactsFinite, FS_Subset, FS_CardinalityType

LEMMA NoneOutstanding ==
  ASSUME NEW obj, obj.outstanding = 0, NEW past, Counted(obj, past)
  PROVE  Outstanding(obj) = {}
BY OutstandingFinite, FS_EmptySet DEF Counted

\* A ComponentBuild as it is created.
LEMMA NewIsSound ==
  ASSUME NEW c, NEW spec, NEW settled, NEW failed, NEW reached
  PROVE  Sound(c, NewComponentBuild(spec), {spec}, settled, failed, reached)
<1> DEFINE obj == NewComponentBuild(spec)
<1>1. /\ obj.spec = spec /\ obj.outstanding = 0
      /\ obj.state \notin {"InProgress", "Failed", "Complete"}
      /\ \A g \in Artifacts : obj.artifacts[g] = "none"
      /\ obj.notified = FALSE
  BY DEF NewComponentBuild
<1>2. Outstanding(obj) = {}
  BY <1>1 DEF Outstanding
<1>3. Cardinality(Outstanding(obj)) = 0
  BY <1>2, FS_EmptySet
<1> HIDE DEF obj
<1>4. Counted(obj, {spec})
  BY <1>1, <1>3 DEF Counted
<1>5. Sound(c, obj, {spec}, settled, failed, reached)
  BY <1>1, <1>4 DEF Sound, EntriesSound
<1> QED
  BY <1>5 DEF obj

\* An edit gives it another spec: what the status says is still of one it had.
LEMMA EditedIsSound ==
  ASSUME NEW obj \in ComponentBuildObjects, NEW spec,
         NEW c, NEW past, NEW settled, NEW failed, NEW reached, spec \in past,
         Sound(c, obj, past, settled, failed, reached)
  PROVE  Sound(c, [obj EXCEPT !.spec = spec], past, settled, failed, reached)
<1> DEFINE edited == [obj EXCEPT !.spec = spec]
<1>1. /\ edited.spec = spec /\ edited.state = obj.state
      /\ edited.outstanding = obj.outstanding /\ edited.artifacts = obj.artifacts
      /\ edited.notified = obj.notified
  BY DEF ComponentBuildObjects
<1>2. /\ Outstanding(edited) = Outstanding(obj) /\ Recorded(edited) = Recorded(obj)
      /\ Verdict(edited) = Verdict(obj)
  BY <1>1 DEF Outstanding, Recorded, Verdict
<1> HIDE DEF edited
<1>3. Sound(c, edited, past, settled, failed, reached)
  BY <1>1, <1>2 DEF Sound, EntriesSound, Counted
<1> QED
  BY <1>3 DEF edited

\* The success of a notification is recorded.
LEMMA NotifiedIsSound ==
  ASSUME NEW obj \in ComponentBuildObjects,
         NEW c, NEW past, NEW settled, NEW failed, NEW reached, c \in reached,
         Sound(c, obj, past, settled, failed, reached)
  PROVE  Sound(c, [obj EXCEPT !.notified = TRUE], past, settled, failed, reached)
<1> DEFINE told == [obj EXCEPT !.notified = TRUE]
<1>1. /\ told.spec = obj.spec /\ told.state = obj.state
      /\ told.outstanding = obj.outstanding /\ told.artifacts = obj.artifacts
  BY DEF ComponentBuildObjects
<1>2. /\ Outstanding(told) = Outstanding(obj) /\ Recorded(told) = Recorded(obj)
      /\ Verdict(told) = Verdict(obj)
  BY <1>1 DEF Outstanding, Recorded, Verdict
<1> HIDE DEF told
<1>3. Sound(c, told, past, settled, failed, reached)
  BY <1>1, <1>2 DEF Sound, EntriesSound, Counted
<1> QED
  BY <1>3 DEF told

\* The lack of a configuration is recorded.
LEMMA NoConfigIsSound ==
  ASSUME NEW obj \in ComponentBuildObjects,
         NEW c, NEW past, NEW settled, NEW failed, NEW reached,
         Sound(c, obj, past, settled, failed, reached)
  PROVE  Sound(c, [obj EXCEPT !.noConfig = TRUE], past, settled, failed, reached)
<1> DEFINE held == [obj EXCEPT !.noConfig = TRUE]
<1>1. /\ held.spec = obj.spec /\ held.state = obj.state
      /\ held.outstanding = obj.outstanding /\ held.artifacts = obj.artifacts
      /\ held.notified = obj.notified
  BY DEF ComponentBuildObjects
<1>2. /\ Outstanding(held) = Outstanding(obj) /\ Recorded(held) = Recorded(obj)
      /\ Verdict(held) = Verdict(obj)
  BY <1>1 DEF Outstanding, Recorded, Verdict
<1> HIDE DEF held
<1>3. Sound(c, held, past, settled, failed, reached)
  BY <1>1, <1>2 DEF Sound, EntriesSound, Counted
<1> QED
  BY <1>3 DEF held

\* The loop starts: the entries and their counter are reset together.
LEMMA ResetIsSoundSoFar ==
  ASSUME NEW obj \in ComponentBuildObjects,
         NEW c, NEW past, NEW settled, NEW failed, NEW reached,
         Sound(c, obj, past, settled, failed, reached)
  PROVE  SoundSoFar(c, [obj EXCEPT !.noConfig = FALSE, !.outstanding = 0,
                                !.artifacts = [g \in Artifacts |-> "none"]],
                    obj.spec.gavs, past, settled, failed, reached)
<1> DEFINE start == [obj EXCEPT !.noConfig = FALSE, !.outstanding = 0,
                                !.artifacts = [g \in Artifacts |-> "none"]]
<1>1. /\ start.spec = obj.spec /\ start.outstanding = 0
      /\ \A g \in Artifacts : start.artifacts[g] = "none"
      /\ start.notified = obj.notified
  BY DEF ComponentBuildObjects
<1>2. Outstanding(start) = {} /\ Recorded(start) = {}
  BY <1>1 DEF Outstanding, Recorded
<1>3. Cardinality(Outstanding(start)) = 0
  BY <1>2, FS_EmptySet
<1>4. obj.spec.gavs \in [Artifacts -> Nat]
  BY DEF ComponentBuildObjects, Specs
<1> HIDE DEF start
<1>5. Counted(start, past)
  BY <1>1, <1>3 DEF Counted
<1>6. SoundSoFar(c, start, obj.spec.gavs, past, settled, failed, reached)
  BY <1>1, <1>2, <1>4, <1>5 DEF SoundSoFar, Sound, EntriesSound
<1> QED
  BY <1>6 DEF start

\* The loop makes the entry of an artifact and counts it. Where there is one
\* already the spec lists the artifact twice, and the count may go ahead.
LEMMA EnteredIsCounted ==
  ASSUME NEW obj \in ComponentBuildObjects, NEW g \in Artifacts,
         NEW entry \in EntryStates \ {"none"}, NEW past, Counted(obj, past),
         g \in Recorded(obj) => \E spec \in past : Repeats(spec)
  PROVE  Counted(Entered(obj, g, entry), past)
<1> DEFINE next == Entered(obj, g, entry)
           counted == IF entry \in {"pending", "built"} THEN 1 ELSE 0
<1>1. /\ next.outstanding = obj.outstanding + counted
      /\ next.artifacts[g] = entry
      /\ \A h \in Artifacts \ {g} : next.artifacts[h] = obj.artifacts[h]
      /\ obj.outstanding \in Nat
  BY DEF Entered, ComponentBuildObjects
<1>2. /\ IsFiniteSet(Outstanding(obj)) /\ IsFiniteSet(Outstanding(next))
      /\ Cardinality(Outstanding(obj)) \in Nat
      /\ Cardinality(Outstanding(next)) \in Nat
  BY OutstandingFinite
<1>3. CASE g \in Recorded(obj)
  <2>1. Outstanding(next) \subseteq
          IF entry \in {"pending", "built"} THEN Outstanding(obj) \cup {g}
                                            ELSE Outstanding(obj)
    BY <1>1 DEF Outstanding
  <2>2. /\ Cardinality(Outstanding(obj) \cup {g})
             \in {Cardinality(Outstanding(obj)), Cardinality(Outstanding(obj)) + 1}
        /\ IsFiniteSet(Outstanding(obj) \cup {g})
    <3> DEFINE S == Outstanding(obj)
    <3>1. IsFiniteSet(S)
      BY <1>2
    <3> HIDE DEF S
    <3>2. /\ Cardinality(S \cup {g}) \in {Cardinality(S), Cardinality(S) + 1}
          /\ IsFiniteSet(S \cup {g})
      BY <3>1, FS_AddElement
    <3> QED
      BY <3>2 DEF S
  <2>3. Cardinality(Outstanding(next)) <= Cardinality(Outstanding(obj)) + counted
    <3>1. CASE entry \in {"pending", "built"}
      <4>1. /\ Cardinality(Outstanding(next)) <= Cardinality(Outstanding(obj) \cup {g})
            /\ Cardinality(Outstanding(obj) \cup {g}) \in Nat
        BY <2>1, <2>2, <3>1, FS_Subset, FS_CardinalityType
      <4> QED
        BY <1>2, <2>2, <3>1, <4>1
    <3>2. CASE entry \notin {"pending", "built"}
      <4>1. Cardinality(Outstanding(next)) <= Cardinality(Outstanding(obj))
        BY <1>2, <2>1, <3>2, FS_Subset
      <4> QED
        BY <1>2, <3>2, <4>1
    <3> QED
      BY <3>1, <3>2
  <2> HIDE DEF next
  <2> QED
    BY <1>1, <1>2, <1>3, <2>3 DEF Counted, next
<1>4. CASE g \notin Recorded(obj)
  <2>1. g \notin Outstanding(obj)
    BY <1>4 DEF Recorded, Outstanding
  <2>2. Outstanding(next) = IF entry \in {"pending", "built"}
                              THEN Outstanding(obj) \cup {g} ELSE Outstanding(obj)
    BY <1>1, <2>1 DEF Outstanding
  <2>3. Cardinality(Outstanding(obj) \cup {g}) = Cardinality(Outstanding(obj)) + 1
    BY <1>2, <2>1, FS_AddElement
  <2>4. Cardinality(Outstanding(next)) = Cardinality(Outstanding(obj)) + counted
    BY <1>2, <2>2, <2>3
  <2> HIDE DEF next
  <2> QED
    BY <1>1, <1>2, <2>4 DEF Counted, next
<1> QED
  BY <1>3, <1>4

\* One turn of the loop.
LEMMA EnteredIsSoundSoFar ==
  ASSUME NEW obj \in ComponentBuildObjects, NEW rest \in [Artifacts -> Nat],
         NEW g \in Artifacts, rest[g] > 0, NEW entry \in EntryStates \ {"none"},
         NEW c, NEW past, NEW settled, NEW failed, NEW reached,
         entry = "deployed" => g \in settled,
         entry = "failed" => g \in failed,
         SoundSoFar(c, obj, rest, past, settled, failed, reached)
  PROVE  SoundSoFar(c, Entered(obj, g, entry), [rest EXCEPT ![g] = @ - 1],
                    past, settled, failed, reached)
<1> DEFINE next == Entered(obj, g, entry)
           then == [rest EXCEPT ![g] = @ - 1]
<1>1. /\ next.spec = obj.spec /\ next.notified = obj.notified
      /\ next.artifacts[g] = entry
      /\ \A h \in Artifacts \ {g} : next.artifacts[h] = obj.artifacts[h]
  BY DEF Entered, ComponentBuildObjects
<1>2. /\ then[g] = rest[g] - 1 /\ rest[g] \in Nat
      /\ \A h \in Artifacts \ {g} : then[h] = rest[h]
  OBVIOUS
<1>3. obj.spec \in past /\ obj.spec.gavs \in [Artifacts -> Nat]
  BY DEF SoundSoFar, ComponentBuildObjects, Specs
<1>4. g \in Recorded(obj) => obj.spec.gavs[g] > 1
  BY <1>2, <1>3 DEF SoundSoFar
<1>5. Counted(next, past)
  BY <1>3, <1>4, EnteredIsCounted DEF SoundSoFar, Repeats
<1>6. Recorded(next) = Recorded(obj) \cup {g}
  BY <1>1 DEF Recorded, EntryStates
<1> HIDE DEF next, then
<1>7. \A h \in Artifacts : /\ then[h] <= next.spec.gavs[h]
                           /\ then[h] < next.spec.gavs[h] <=> h \in Recorded(next)
  <2> TAKE h \in Artifacts
  <2>1. CASE h = g
    BY <1>1, <1>2, <1>3, <1>6, <2>1 DEF SoundSoFar
  <2>2. CASE h # g
    BY <1>1, <1>2, <1>6, <2>2 DEF SoundSoFar
  <2> QED
    BY <2>1, <2>2
<1>8. EntriesSound(next, settled, failed)
  BY <1>1 DEF SoundSoFar, EntriesSound
<1>9. SoundSoFar(c, next, then, past, settled, failed, reached)
  BY <1>1, <1>3, <1>5, <1>7, <1>8 DEF SoundSoFar
<1> QED
  BY <1>9 DEF next, then

\* When the loop has ended there is an entry for all that the spec lists.
LEMMA EndedIsRecorded ==
  ASSUME NEW obj \in ComponentBuildObjects, NEW rest, \A g \in Artifacts : rest[g] = 0,
         NEW c, NEW past, NEW settled, NEW failed, NEW reached,
         SoundSoFar(c, obj, rest, past, settled, failed, reached)
  PROVE  Recorded(obj) = Listed(obj.spec)
BY DEF SoundSoFar, Recorded, Listed

\* The loop has ended with artifacts outstanding.
LEMMA InProgressIsSound ==
  ASSUME NEW obj \in ComponentBuildObjects, obj.outstanding > 0, NEW rest,
         NEW c, NEW past, NEW settled, NEW failed, NEW reached,
         SoundSoFar(c, obj, rest, past, settled, failed, reached)
  PROVE  Sound(c, [obj EXCEPT !.state = "InProgress", !.notified = FALSE],
               past, settled, failed, reached)
<1> DEFINE done == [obj EXCEPT !.state = "InProgress", !.notified = FALSE]
<1>1. /\ done.spec = obj.spec /\ done.state = "InProgress"
      /\ done.outstanding = obj.outstanding /\ done.artifacts = obj.artifacts
      /\ done.notified = FALSE
  BY DEF ComponentBuildObjects
<1>2. Outstanding(done) = Outstanding(obj)
  BY <1>1 DEF Outstanding
<1> HIDE DEF done
<1>3. Sound(c, done, past, settled, failed, reached)
  BY <1>1, <1>2 DEF Sound, SoundSoFar, EntriesSound, Counted
<1> QED
  BY <1>3 DEF done

\* The loop has ended with nothing outstanding: the verdict is earned.
LEMMA VerdictIsSound ==
  ASSUME NEW obj \in ComponentBuildObjects, obj.outstanding = 0,
         NEW rest, \A g \in Artifacts : rest[g] = 0,
         NEW c, NEW past, NEW settled, NEW failed, NEW reached,
         SoundSoFar(c, obj, rest, past, settled, failed, reached)
  PROVE  /\ Sound(c, [obj EXCEPT !.state = Verdict(obj)], past, settled,
                  failed, reached)
         /\ Verdict(obj) = "Complete" => Listed(obj.spec) \subseteq settled
         /\ Verdict(obj) = "Failed" => Listed(obj.spec) \cap failed # {}
<1> DEFINE done == [obj EXCEPT !.state = Verdict(obj)]
<1>1. /\ done.spec = obj.spec /\ done.state = Verdict(obj)
      /\ done.outstanding = 0 /\ done.artifacts = obj.artifacts
      /\ done.notified = obj.notified
  BY DEF ComponentBuildObjects
<1>2. /\ Outstanding(done) = Outstanding(obj) /\ Recorded(done) = Recorded(obj)
      /\ Verdict(done) = Verdict(obj)
  BY <1>1 DEF Outstanding, Recorded, Verdict
<1>3. Outstanding(obj) = {} /\ Recorded(obj) = Listed(obj.spec)
  BY NoneOutstanding, EndedIsRecorded DEF SoundSoFar
<1>4. ASSUME Verdict(obj) = "Complete", NEW g \in Listed(obj.spec) PROVE g \in settled
  <2>1. g \in Recorded(obj) /\ g \in Artifacts
    BY <1>3 DEF Recorded
  <2>2. obj.artifacts[g] \in EntryStates
    BY <2>1 DEF ComponentBuildObjects
  <2>3. obj.artifacts[g] = "deployed"
    BY <1>3, <1>4, <2>1, <2>2 DEF Outstanding, Recorded, Verdict, EntryStates
  <2> QED
    BY <2>1, <2>3 DEF SoundSoFar, EntriesSound
<1>5. ASSUME Verdict(obj) = "Failed" PROVE Listed(obj.spec) \cap failed # {}
  <2>1. PICK g \in Artifacts : obj.artifacts[g] = "failed"
    BY <1>5 DEF Verdict
  <2>2. g \in Recorded(obj)
    BY <2>1 DEF Recorded
  <2> QED
    BY <1>3, <2>1, <2>2 DEF SoundSoFar, EntriesSound
<1> HIDE DEF done
<1>6. Sound(c, done, past, settled, failed, reached)
  BY <1>1, <1>2, <1>3, VerdictTypes DEF Sound, SoundSoFar, EntriesSound, Counted
<1> QED
  BY <1>4, <1>5, <1>6 DEF done

-----------------------------------------------------------------------------
(* What every step of the system does to the objects and to the caches.    *)

\* The groups of steps, with what they leave alone.
LEMMA Frames ==
  /\ Handle => UNCHANGED <<artifactBuild, componentBuild, taskRuns, pipelineRuns,
                           config, caches, history>>
  /\ Loop => UNCHANGED <<dependencyBuild, componentBuild, pipelineRuns, config,
                         caches, history>>
  /\ Finish => UNCHANGED <<artifactBuild, dependencyBuild, taskRuns, config,
                           seenAB, seenRA, seenDB, seenTR, seenPR, history>>
  /\ Sync => UNCHANGED <<api, budget, history>>
  /\ Settling \/ (\E g \in Artifacts : RetryBuild(g)) =>
       UNCHANGED <<dependencyBuild, componentBuild, caches, queue, specs>>
<1>1. Handle => UNCHANGED <<artifactBuild, componentBuild, taskRuns, pipelineRuns,
                            config, caches, history>>
  BY DEF Handle, TakeComponentBuild, PickListed, TakeArtifactBuild,
         TakeRunningTaskRun, TakeEndedTaskRun, EndedTaskRunUnlisted,
         TakeRunningPipelineRun, TakeFailedPipelineRun, TakeSucceededPipelineRun, DispatchFails
<1>2. Loop => UNCHANGED <<dependencyBuild, componentBuild, pipelineRuns, config,
                          caches, history>>
  BY DEF Loop, ConfigUnreadable, ConfigMissing, ConfigFound, FoundArtifact,
         UnreadableArtifact, CreateArtifactBuild, CreateArtifactBuildFails,
         CreateArtifactBuildUnanswered, DeployArtifact, DeployNothing
<1>3. Finish => UNCHANGED <<artifactBuild, dependencyBuild, taskRuns, config,
                            seenAB, seenRA, seenDB, seenTR, seenPR, history>>
  BY DEF Finish, StillOutstanding, SettleSilently, SettleAndNotify, NotifyFails,
         NotifyUnanswered, SaveStatus, SaveStatusFails
<1>4. Sync => UNCHANGED <<api, budget, history>>
  BY DEF Sync, SyncArtifactBuilds, SyncComponentBuilds, SyncTaskRuns,
         SyncPipelineRuns, SyncRebuiltArtifacts, SyncDependencyBuilds
<1>5. Settling \/ (\E g \in Artifacts : RetryBuild(g)) =>
        UNCHANGED <<dependencyBuild, componentBuild, caches, queue, specs>>
  BY DEF Settling, CreateConfig, BuildEnds, TaskRunEnds, PipelineRunEnds, RetryBuild
<1> QED
  BY <1>1, <1>2, <1>3, <1>4, <1>5

\* The ArtifactBuilds: one that is complete stays so, one that fails is
\* remembered.
BuildsAdvance ==
  /\ broken \subseteq broken'
  /\ \A g \in Artifacts :
       /\ artifactBuild[g] = "complete" => artifactBuild'[g] = "complete"
       /\ artifactBuild'[g] = "failed" => artifactBuild[g] = "failed" \/ g \in broken'

LEMMA BuildSteps ==
  ASSUME TypeOK, Next
  PROVE  BuildsAdvance
<1>1. artifactBuild \in [Artifacts -> BuildStates]
  BY DEF TypeOK, ClusterTypeOK
<1>2. CASE UNCHANGED <<artifactBuild, broken>>
  BY <1>2 DEF BuildsAdvance
<1>3. CASE Loop
  <2>1. CASE UNCHANGED artifactBuild
    BY <1>2, <1>3, <2>1, Frames
  <2>2. CASE \E g \in Unreached : CreateArtifactBuild(g) \/ CreateArtifactBuildUnanswered(g)
    BY <1>1, <2>2
       DEF BuildsAdvance, CreateArtifactBuild, CreateArtifactBuildUnanswered
  <2> QED
    BY <1>3, <2>1, <2>2
       DEF Loop, ConfigUnreadable, ConfigMissing, ConfigFound, FoundArtifact,
           UnreadableArtifact, CreateArtifactBuildFails, DeployArtifact, DeployNothing
<1>4. CASE Settling \/ \E g \in Artifacts : RetryBuild(g)
  <2>1. CASE \E g \in Artifacts, o \in {"complete", "failed"} : BuildEnds(g, o)
    BY <1>1, <2>1 DEF BuildsAdvance, BuildEnds
  <2>2. CASE \E g \in Artifacts : RetryBuild(g)
    BY <1>1, <2>2 DEF BuildsAdvance, RetryBuild
  <2> QED
    BY <1>2, <1>4, <2>1, <2>2 DEF Settling, CreateConfig, TaskRunEnds, PipelineRunEnds
<1>5. CASE \/ \E c \in ComponentBuilds, spec \in EditedSpecs : Edit(c, spec)
           \/ Restart \/ IdleResync
  BY <1>2, <1>5 DEF Edit, EditSpec, Restart, Relist, IdleResync, Resync
<1> QED
  BY <1>2, <1>3, <1>4, <1>5, Frames DEF Next, Worker

\* The TaskRuns and the marks of the DependencyBuilds: runs are only added,
\* for a build of their own; a success is final; a mark stays and is only
\* made after a success.
DeploymentsAdvance ==
  \A d \in DependencyBuilds :
    /\ \A n \in DOMAIN taskRuns[d] :
         /\ n \in DOMAIN taskRuns'[d]
         /\ taskRuns'[d][n].gav = taskRuns[d][n].gav
         /\ taskRuns[d][n].status = "True" => taskRuns'[d][n].status = "True"
    /\ \A n \in DOMAIN taskRuns'[d] \ DOMAIN taskRuns[d] :
         BuiltBy[taskRuns'[d][n].gav] = d
    /\ dependencyBuild[d] => dependencyBuild'[d]
    /\ dependencyBuild'[d] =>
         \/ dependencyBuild[d]
         \/ \E n \in DOMAIN taskRuns[d] : taskRuns[d][n].status = "True"

LEMMA DeploymentSteps ==
  ASSUME TypeOK, CachesAreOld, MarksAreTrue, Next
  PROVE  DeploymentsAdvance
<1>1. /\ taskRuns \in [DependencyBuilds -> Seq(TaskRuns)]
      /\ dependencyBuild \in [DependencyBuilds -> BOOLEAN]
  BY DEF TypeOK, ClusterTypeOK
<1>2. CASE UNCHANGED <<taskRuns, dependencyBuild>>
  BY <1>2 DEF DeploymentsAdvance
<1>3. CASE Handle
  <2>1. ASSUME NEW d \in DependencyBuilds, NEW n \in DOMAIN seenTR[d],
               TakeEndedTaskRun(d, n) \/ EndedTaskRunUnlisted(d, n)
        PROVE  DeploymentsAdvance
    <3>1. CASE UNCHANGED dependencyBuild
      BY <1>2, <2>1, <3>1 DEF TakeEndedTaskRun, EndedTaskRunUnlisted
    <3>2. CASE dependencyBuild' = [dependencyBuild EXCEPT ![BuiltBy[seenTR[d][n].gav]] = TRUE]
               /\ seenTR[d][n].status = "True"
      <4>1. /\ n \in DOMAIN taskRuns[d]
            /\ taskRuns[d][n].status = "True"
            /\ BuiltBy[seenTR[d][n].gav] = d
        BY <3>2 DEF CachesAreOld, MarksAreTrue
      <4> QED
        BY <1>1, <2>1, <3>2, <4>1
           DEF TakeEndedTaskRun, EndedTaskRunUnlisted, DeploymentsAdvance
    <3> QED
      BY <2>1, <3>1, <3>2 DEF TakeEndedTaskRun, EndedTaskRunUnlisted, Annotate
  <2> QED
    BY <1>2, <1>3, <2>1
       DEF Handle, TakeComponentBuild, PickListed, TakeArtifactBuild,
           TakeRunningTaskRun, TakeRunningPipelineRun, TakeFailedPipelineRun,
           TakeSucceededPipelineRun, DispatchFails
<1>4. CASE Loop
  <2>1. CASE DeployArtifact
    <3> DEFINE e == BuiltBy[gav]
               run == [gav |-> gav, status |-> "Unknown"]
    <3>1. gav \in Artifacts /\ e \in DependencyBuilds
      BY <2>1, Assumptions DEF DeployArtifact, TypeOK, WorkerTypeOK
    <3>2. taskRuns[e] \in Seq(TaskRuns) /\ run \in TaskRuns
      BY <1>1, <3>1 DEF TaskRuns, RunStates
    <3>3. /\ DOMAIN taskRuns[e] = 1 .. Len(taskRuns[e])
          /\ DOMAIN Append(taskRuns[e], run) = 1 .. Len(taskRuns[e]) + 1
          /\ \A n \in 1 .. Len(taskRuns[e]) : Append(taskRuns[e], run)[n] = taskRuns[e][n]
          /\ Append(taskRuns[e], run)[Len(taskRuns[e]) + 1] = run
          /\ Len(taskRuns[e]) \in Nat
      BY <3>2, AppendProperties, LenProperties
    <3>4. /\ taskRuns' = [taskRuns EXCEPT ![e] = Append(taskRuns[e], run)]
          /\ UNCHANGED dependencyBuild
      BY <2>1 DEF DeployArtifact
    <3>5. taskRuns'[e] = Append(taskRuns[e], run)
      BY <1>1, <3>1, <3>4
    <3>6. \A d \in DependencyBuilds \ {e} : taskRuns'[d] = taskRuns[d]
      BY <1>1, <3>4
    <3>7. \A n \in DOMAIN taskRuns[e] : n \in DOMAIN taskRuns'[e]
                                        /\ taskRuns'[e][n] = taskRuns[e][n]
      BY <3>3, <3>5
    <3>8. \A n \in DOMAIN taskRuns'[e] \ DOMAIN taskRuns[e] :
            BuiltBy[taskRuns'[e][n].gav] = e
      <4>1. \A n \in DOMAIN taskRuns'[e] \ DOMAIN taskRuns[e] : taskRuns'[e][n] = run
        BY <3>3, <3>5
      <4> QED
        BY <4>1
    <3> HIDE DEF e, run
    <3> QED
      BY <3>4, <3>6, <3>7, <3>8 DEF DeploymentsAdvance
  <2> QED
    BY <1>2, <1>4, <2>1
       DEF Loop, ConfigUnreadable, ConfigMissing, ConfigFound, FoundArtifact,
           UnreadableArtifact, CreateArtifactBuild, CreateArtifactBuildFails,
           CreateArtifactBuildUnanswered, DeployNothing
<1>5. CASE Settling \/ \E g \in Artifacts : RetryBuild(g)
  <2>1. ASSUME NEW d \in DependencyBuilds, NEW n \in DOMAIN taskRuns[d],
               NEW s \in {"True", "False"}, TaskRunEnds(d, n, s)
        PROVE  DeploymentsAdvance
    <3>1. taskRuns[d] \in Seq(TaskRuns) /\ taskRuns[d][n] \in TaskRuns
      BY <1>1, LenProperties, ElementOfSeq
    <3> DEFINE ended == [taskRuns[d] EXCEPT ![n].status = s]
    <3>2. /\ taskRuns' = [taskRuns EXCEPT ![d] = ended]
          /\ taskRuns[d][n].status = "Unknown"
          /\ UNCHANGED dependencyBuild
      BY <2>1 DEF TaskRunEnds
    <3>3. /\ DOMAIN ended = DOMAIN taskRuns[d]
          /\ ended[n].gav = taskRuns[d][n].gav
          /\ \A m \in DOMAIN taskRuns[d] \ {n} : ended[m] = taskRuns[d][m]
      BY <3>1 DEF TaskRuns
    <3> HIDE DEF ended
    <3> QED
      BY <1>1, <3>2, <3>3 DEF DeploymentsAdvance
  <2> QED
    BY <1>2, <1>5, <2>1
       DEF Settling, CreateConfig, BuildEnds, PipelineRunEnds, RetryBuild
<1>6. CASE \/ \E c \in ComponentBuilds, spec \in EditedSpecs : Edit(c, spec)
           \/ Restart \/ IdleResync
  BY <1>2, <1>6 DEF Edit, EditSpec, Restart, Relist, IdleResync, Resync
<1> QED
  BY <1>2, <1>3, <1>4, <1>5, <1>6, Frames DEF Next, Worker

\* The notifications stay, and a success is final.
NotificationsStay ==
  \A c \in ComponentBuilds : \A n \in DOMAIN pipelineRuns[c] :
    /\ n \in DOMAIN pipelineRuns'[c]
    /\ pipelineRuns'[c][n].msg = pipelineRuns[c][n].msg
    /\ pipelineRuns'[c][n].about = pipelineRuns[c][n].about
    /\ pipelineRuns[c][n].status = "True" => pipelineRuns'[c][n].status = "True"

\* They are only added, one at a time, by CreatePipelineRun for the
\* ComponentBuild the worker is in.
NotificationsAdvance ==
  \A c \in ComponentBuilds :
    /\ \A n \in DOMAIN pipelineRuns[c] :
         /\ n \in DOMAIN pipelineRuns'[c]
         /\ pipelineRuns'[c][n].msg = pipelineRuns[c][n].msg
         /\ pipelineRuns'[c][n].about = pipelineRuns[c][n].about
         /\ pipelineRuns[c][n].status = "True" => pipelineRuns'[c][n].status = "True"
    /\ \A n \in DOMAIN pipelineRuns'[c] \ DOMAIN pipelineRuns[c] :
         /\ Settled /\ cur = c /\ my.obj.spec.pr
         /\ pipelineRuns'[c][n].msg = Verdict(my.obj)
         /\ pipelineRuns'[c][n].about = my.obj.spec

LEMMA NotificationSteps ==
  ASSUME TypeOK, Next
  PROVE  NotificationsAdvance
<1>1. pipelineRuns \in [ComponentBuilds -> Seq(PipelineRuns)]
  BY DEF TypeOK, ClusterTypeOK
<1>2. CASE UNCHANGED pipelineRuns
  BY <1>2 DEF NotificationsAdvance
<1>3. CASE Finish
  <2>1. ASSUME Settled, CreatePipelineRun(cur) PROVE NotificationsAdvance
    <3> DEFINE run == [msg |-> Verdict(my.obj), about |-> my.obj.spec,
                       status |-> "Unknown"]
    <3>1. cur \in ComponentBuilds /\ my.obj.spec \in Specs
      BY <2>1, CopyTypes DEF Settled, TypeOK, WorkerTypeOK, ComponentBuildObjects
    <3>2. pipelineRuns[cur] \in Seq(PipelineRuns) /\ run \in PipelineRuns
      BY <1>1, <3>1, VerdictTypes DEF PipelineRuns, RunStates
    <3>3. /\ DOMAIN pipelineRuns[cur] = 1 .. Len(pipelineRuns[cur])
          /\ DOMAIN Append(pipelineRuns[cur], run) = 1 .. Len(pipelineRuns[cur]) + 1
          /\ \A n \in 1 .. Len(pipelineRuns[cur]) :
               Append(pipelineRuns[cur], run)[n] = pipelineRuns[cur][n]
          /\ Append(pipelineRuns[cur], run)[Len(pipelineRuns[cur]) + 1] = run
          /\ Len(pipelineRuns[cur]) \in Nat
      BY <3>2, AppendProperties, LenProperties
    <3>4. /\ pipelineRuns' = [pipelineRuns EXCEPT ![cur] = Append(pipelineRuns[cur], run)]
          /\ my.obj.spec.pr
      BY <2>1 DEF CreatePipelineRun, MustNotify
    <3>5. pipelineRuns'[cur] = Append(pipelineRuns[cur], run)
      BY <1>1, <3>1, <3>4
    <3>6. \A c \in ComponentBuilds \ {cur} : pipelineRuns'[c] = pipelineRuns[c]
      BY <1>1, <3>4
    <3>7. \A n \in DOMAIN pipelineRuns[cur] :
            n \in DOMAIN pipelineRuns'[cur] /\ pipelineRuns'[cur][n] = pipelineRuns[cur][n]
      BY <3>3, <3>5
    <3>8. \A n \in DOMAIN pipelineRuns'[cur] \ DOMAIN pipelineRuns[cur] :
            /\ pipelineRuns'[cur][n].msg = Verdict(my.obj)
            /\ pipelineRuns'[cur][n].about = my.obj.spec
      <4>1. \A n \in DOMAIN pipelineRuns'[cur] \ DOMAIN pipelineRuns[cur] :
              pipelineRuns'[cur][n] = run
        BY <3>3, <3>5
      <4> QED
        BY <4>1
    <3> HIDE DEF run
    <3> QED
      BY <2>1, <3>4, <3>6, <3>7, <3>8 DEF NotificationsAdvance
  <2> QED
    BY <1>2, <1>3, <2>1
       DEF Finish, StillOutstanding, SettleSilently, SettleAndNotify, NotifyFails,
           NotifyUnanswered, SaveStatus, SaveStatusFails
<1>4. CASE Settling \/ \E g \in Artifacts : RetryBuild(g)
  <2>1. ASSUME NEW c \in ComponentBuilds, NEW n \in DOMAIN pipelineRuns[c],
               NEW s \in {"True", "False"}, PipelineRunEnds(c, n, s)
        PROVE  NotificationsAdvance
    <3>1. pipelineRuns[c] \in Seq(PipelineRuns) /\ pipelineRuns[c][n] \in PipelineRuns
      BY <1>1, LenProperties, ElementOfSeq
    <3> DEFINE ended == [pipelineRuns[c] EXCEPT ![n].status = s]
    <3>2. /\ pipelineRuns' = [pipelineRuns EXCEPT ![c] = ended]
          /\ pipelineRuns[c][n].status = "Unknown"
      BY <2>1 DEF PipelineRunEnds
    <3>3. /\ DOMAIN ended = DOMAIN pipelineRuns[c]
          /\ ended[n].msg = pipelineRuns[c][n].msg
          /\ ended[n].about = pipelineRuns[c][n].about
          /\ \A m \in DOMAIN pipelineRuns[c] \ {n} : ended[m] = pipelineRuns[c][m]
      BY <3>1 DEF PipelineRuns
    <3> HIDE DEF ended
    <3> QED
      BY <1>1, <3>2, <3>3 DEF NotificationsAdvance
  <2> QED
    BY <1>2, <1>4, <2>1
       DEF Settling, CreateConfig, BuildEnds, TaskRunEnds, RetryBuild
<1>5. CASE \/ \E c \in ComponentBuilds, spec \in EditedSpecs : Edit(c, spec)
           \/ Restart \/ IdleResync
  BY <1>2, <1>5 DEF Edit, EditSpec, Restart, Relist, IdleResync, Resync
<1> QED
  BY <1>2, <1>3, <1>4, <1>5, Frames DEF Next, Worker

\* The stored ComponentBuilds: they change when the worker saves its copy, and
\* when one is edited.
LEMMA ComponentBuildSteps ==
  ASSUME Next
  PROVE  \/ UNCHANGED componentBuild
         \/ SaveStatus
         \/ \E c \in ComponentBuilds, spec \in EditedSpecs : Edit(c, spec)
<1>1. Finish => SaveStatus \/ UNCHANGED componentBuild
  BY DEF Finish, StillOutstanding, SettleSilently, SettleAndNotify, NotifyFails,
         NotifyUnanswered, SaveStatusFails
<1>2. Restart \/ IdleResync => UNCHANGED componentBuild
  BY DEF Restart, Relist, IdleResync, Resync
<1> QED
  BY <1>1, <1>2, Frames DEF Next, Worker

\* The specs that there have been are not forgotten.
SpecsGrow == \A c \in ComponentBuilds : specs[c] \subseteq specs'[c]

LEMMA SpecSteps ==
  ASSUME TypeOK, Next
  PROVE  SpecsGrow
<1>1. CASE UNCHANGED specs
  BY <1>1 DEF SpecsGrow
<1>2. ASSUME NEW c \in ComponentBuilds, NEW spec \in EditedSpecs, Edit(c, spec)
      PROVE  SpecsGrow
  BY <1>2 DEF Edit, EditSpec, SpecsGrow, TypeOK, ClusterTypeOK
<1>3. CASE Restart \/ IdleResync
  BY <1>1, <1>3 DEF Restart, Relist, IdleResync, Resync
<1> QED
  BY <1>1, <1>2, <1>3, Frames DEF Next, Worker

\* The informers: a cache stays as it is, or becomes what the API server holds.
CachesMove ==
  /\ seenAB' \in {seenAB, artifactBuild'}
  /\ seenRA' \in {seenRA, RebuiltArtifacts'}
  /\ seenDB' \in {seenDB, dependencyBuild'}
  /\ seenTR' \in {seenTR, taskRuns'}
  /\ seenPR' \in {seenPR, pipelineRuns'}

LEMMA CacheSteps ==
  ASSUME Next
  PROVE  CachesMove
<1>1. CASE UNCHANGED <<seenAB, seenRA, seenDB, seenTR, seenPR>>
  BY <1>1 DEF CachesMove
<1>2. CASE Sync
  BY <1>2 DEF Sync, SyncArtifactBuilds, SyncComponentBuilds, SyncTaskRuns,
              SyncPipelineRuns, SyncRebuiltArtifacts, SyncDependencyBuilds,
              CachesMove, RebuiltArtifacts
<1>3. CASE Restart
  BY <1>3 DEF Restart, Relist, CachesMove, RebuiltArtifacts
<1>4. CASE IdleResync \/ \E c \in ComponentBuilds, spec \in EditedSpecs : Edit(c, spec)
  BY <1>1, <1>4 DEF Edit, EditSpec, IdleResync, Resync
<1> QED
  BY <1>1, <1>2, <1>3, <1>4, Frames DEF Next, Worker

LEMMA CachesInv ==
  ASSUME CachesAreOld, BuildsAdvance, DeploymentsAdvance, NotificationsStay,
         CachesMove
  PROVE  CachesAreOld'
<1>1. \A g \in Artifacts :
        /\ seenAB'[g] = "complete" => artifactBuild'[g] = "complete"
        /\ seenAB'[g] = "failed" \/ artifactBuild'[g] = "failed" => g \in broken'
  BY DEF CachesAreOld, BuildsAdvance, CachesMove
<1>2. seenRA' \subseteq RebuiltArtifacts'
  BY DEF CachesAreOld, BuildsAdvance, CachesMove, RebuiltArtifacts
<1>3. \A d \in DependencyBuilds : seenDB'[d] => dependencyBuild'[d]
  BY DEF CachesAreOld, DeploymentsAdvance, CachesMove
<1>4. \A d \in DependencyBuilds : \A n \in DOMAIN seenTR'[d] :
        /\ n \in DOMAIN taskRuns'[d]
        /\ seenTR'[d][n].gav = taskRuns'[d][n].gav
        /\ seenTR'[d][n].status = "True" => taskRuns'[d][n].status = "True"
  BY DEF CachesAreOld, DeploymentsAdvance, CachesMove
<1>5. \A c \in ComponentBuilds : \A n \in DOMAIN seenPR'[c] :
        /\ n \in DOMAIN pipelineRuns'[c]
        /\ seenPR'[c][n].status = "True" => pipelineRuns'[c][n].status = "True"
  BY DEF CachesAreOld, NotificationsStay, CachesMove
<1> QED
  BY <1>1, <1>2, <1>3, <1>4, <1>5 DEF CachesAreOld

LEMMA MarksInv ==
  ASSUME MarksAreTrue, DeploymentsAdvance
  PROVE  MarksAreTrue'
<1>1. ASSUME NEW d \in DependencyBuilds, NEW n \in DOMAIN taskRuns'[d]
      PROVE  BuiltBy[taskRuns'[d][n].gav] = d
  BY <1>1 DEF MarksAreTrue, DeploymentsAdvance
<1>2. ASSUME NEW d \in DependencyBuilds, dependencyBuild'[d]
      PROVE  \E n \in DOMAIN taskRuns'[d] : taskRuns'[d][n].status = "True"
  BY <1>2 DEF MarksAreTrue, DeploymentsAdvance
<1> QED
  BY <1>1, <1>2 DEF MarksAreTrue

\* All that a sound version rests on only grows.
Grows ==
  /\ SettledArtifacts \subseteq SettledArtifacts'
  /\ broken \subseteq broken'
  /\ Reached \subseteq Reached'
  /\ SpecsGrow

LEMMA GrowthSteps ==
  ASSUME BuildsAdvance, DeploymentsAdvance, NotificationsStay, SpecsGrow
  PROVE  Grows
<1>1. SettledArtifacts \subseteq SettledArtifacts'
  BY Assumptions DEF SettledArtifacts, BuildsAdvance, DeploymentsAdvance
<1>2. Reached \subseteq Reached'
  BY DEF Reached, NotificationsStay
<1> QED
  BY <1>1, <1>2 DEF Grows, BuildsAdvance

-----------------------------------------------------------------------------
(* The versions of the ComponentBuilds after a step: the stored and the    *)
(* cached ones.                                                            *)

SoundNext(c, obj) ==
  Sound(c, obj, specs'[c], SettledArtifacts', broken', Reached')

SoundWorkNext(c, obj, rest) ==
  SoundSoFar(c, obj, rest, specs'[c], SettledArtifacts', broken', Reached')

LEMMA VersionsGrow ==
  ASSUME Grows, NEW c \in ComponentBuilds, NEW obj
  PROVE  /\ SoundVersion(c, obj) => SoundNext(c, obj)
         /\ \A rest : SoundWork(c, obj, rest) => SoundWorkNext(c, obj, rest)
<1>1. specs[c] \subseteq specs'[c]
  BY DEF Grows, SpecsGrow
<1>2. SoundVersion(c, obj) => SoundNext(c, obj)
  BY <1>1, SoundMonotone DEF Grows, SoundVersion, SoundNext
<1>3. \A rest : SoundWork(c, obj, rest) => SoundWorkNext(c, obj, rest)
  BY <1>1, SoFarMonotone DEF Grows, SoundWork, SoundWorkNext
<1> QED
  BY <1>2, <1>3

LEMMA StoredInv ==
  ASSUME TypeOK, StoredIsSound, WorkIsSound, Grows, Next
  PROVE  StoredIsSound'
<1>1. componentBuild \in [ComponentBuilds -> ComponentBuildObjects]
  BY DEF TypeOK, ClusterTypeOK
<1>2. SUFFICES ASSUME NEW c \in ComponentBuilds
               PROVE  SoundNext(c, componentBuild'[c])
  BY DEF StoredIsSound, SoundVersion, SoundNext
<1>3. CASE componentBuild'[c] = componentBuild[c]
  BY <1>3, VersionsGrow DEF StoredIsSound
<1>4. CASE SaveStatus
  <2>1. SoundVersion(cur, my.obj) /\ cur \in ComponentBuilds
    BY <1>4 DEF SaveStatus, WorkIsSound, TypeOK, WorkerTypeOK
  <2>2. c # cur => componentBuild'[c] = componentBuild[c]
    BY <1>1, <1>4 DEF SaveStatus, UpdateStatus
  <2>3. componentBuild'[cur] = my.obj
    BY <1>1, <1>4, <2>1 DEF SaveStatus, UpdateStatus
  <2> QED
    BY <1>3, <2>1, <2>2, <2>3, VersionsGrow
<1>5. ASSUME NEW b \in ComponentBuilds, NEW spec \in EditedSpecs, Edit(b, spec)
      PROVE  SoundNext(c, componentBuild'[c])
  <2>1. CASE c # b
    <3>1. componentBuild'[c] = componentBuild[c]
      BY <1>1, <1>5, <2>1 DEF Edit, EditSpec
    <3> QED
      BY <1>3, <3>1
  <2>2. CASE c = b
    <3>1. /\ componentBuild'[c] = [componentBuild[c] EXCEPT !.spec = spec]
          /\ spec \in specs'[c]
      BY <1>1, <1>5, <2>2 DEF Edit, EditSpec, TypeOK, ClusterTypeOK
    <3>2. SoundNext(c, componentBuild[c])
      BY VersionsGrow DEF StoredIsSound
    <3> QED
      BY <1>1, <3>1, <3>2, EditedIsSound DEF SoundNext
  <2> QED
    BY <2>1, <2>2
<1> QED
  BY <1>3, <1>4, <1>5, ComponentBuildSteps

\* A copy that becomes outdated is worth what it was.
LEMMA OutdatedIsSound ==
  ASSUME NEW copy \in Copies
  PROVE  Outdated(copy).obj = copy.obj /\ Outdated(copy).fresh = FALSE
BY DEF Outdated, Copies

\* A cached version stays, is outdated, or becomes the stored one.
LEMMA CachedSteps ==
  ASSUME TypeOK, Next, NEW c \in ComponentBuilds
  PROVE  \/ seenCB'[c] = seenCB[c] /\ componentBuild'[c] = componentBuild[c]
         \/ seenCB'[c] = Outdated(seenCB[c])
         \/ /\ seenCB'[c] = Copy(componentBuild[c])
            /\ componentBuild'[c] = componentBuild[c]
<1>1. /\ componentBuild \in [ComponentBuilds -> ComponentBuildObjects]
      /\ seenCB \in [ComponentBuilds -> Copies]
  BY DEF TypeOK, ClusterTypeOK
<1>2. CASE SaveStatus
  <2>1. CASE my.obj = componentBuild[cur]
    BY <1>1, <1>2, <2>1 DEF SaveStatus, UpdateStatus
  <2>2. CASE my.obj # componentBuild[cur]
    <3>1. seenCB'[c] = IF c = cur THEN Outdated(seenCB[c]) ELSE seenCB[c]
      BY <1>1, <1>2, <2>2 DEF SaveStatus, UpdateStatus, Outdate
    <3>2. c # cur => componentBuild'[c] = componentBuild[c]
      BY <1>1, <1>2 DEF SaveStatus, UpdateStatus
    <3> QED
      BY <3>1, <3>2
  <2> QED
    BY <2>1, <2>2
<1>3. ASSUME NEW b \in ComponentBuilds, NEW spec \in EditedSpecs, Edit(b, spec)
      PROVE  \/ seenCB'[c] = seenCB[c] /\ componentBuild'[c] = componentBuild[c]
             \/ seenCB'[c] = Outdated(seenCB[c])
  BY <1>1, <1>3 DEF Edit, EditSpec
<1>4. CASE Sync
  <2>1. UNCHANGED componentBuild
    BY <1>4, Frames
  <2>2. UNCHANGED seenCB \/ seenCB' = [b \in ComponentBuilds |-> Copy(componentBuild[b])]
    BY <1>4 DEF Sync, SyncArtifactBuilds, SyncComponentBuilds, SyncTaskRuns,
                SyncPipelineRuns, SyncRebuiltArtifacts, SyncDependencyBuilds
  <2> QED
    BY <2>1, <2>2
<1>5. CASE Restart \/ IdleResync
  BY <1>5 DEF Restart, Relist, IdleResync, Resync
<1>6. CASE Finish
  <2>1. CASE UNCHANGED <<seenCB, componentBuild>>
    BY <2>1
  <2> QED
    BY <1>2, <1>6, <2>1
       DEF Finish, StillOutstanding, SettleSilently, SettleAndNotify, NotifyFails,
           NotifyUnanswered, SaveStatusFails
<1> QED
  BY <1>3, <1>4, <1>5, <1>6, Frames DEF Next, Worker

LEMMA CachedInv ==
  ASSUME TypeOK, StoredIsSound, CachedIsSound, Grows, Next
  PROVE  CachedIsSound'
<1>1. /\ componentBuild \in [ComponentBuilds -> ComponentBuildObjects]
      /\ seenCB \in [ComponentBuilds -> Copies]
  BY DEF TypeOK, ClusterTypeOK
<1>2. SUFFICES ASSUME NEW c \in ComponentBuilds
               PROVE  /\ SoundNext(c, seenCB'[c].obj)
                      /\ seenCB'[c].fresh => seenCB'[c].obj = componentBuild'[c]
  BY DEF CachedIsSound, SoundVersion, SoundNext
<1>3. CASE seenCB'[c] = seenCB[c] /\ componentBuild'[c] = componentBuild[c]
  BY <1>3, VersionsGrow DEF CachedIsSound
<1>4. CASE seenCB'[c] = Outdated(seenCB[c])
  BY ZenonT(40), <1>1, <1>4, OutdatedIsSound, VersionsGrow DEF CachedIsSound
<1>5. CASE seenCB'[c] = Copy(componentBuild[c]) /\ componentBuild'[c] = componentBuild[c]
  BY <1>5, VersionsGrow DEF StoredIsSound, Copy
<1> QED
  BY <1>3, <1>4, <1>5, CachedSteps

LEMMA ReportsInv ==
  ASSUME TypeOK, ReportsAreTrue, WorkIsSound, Grows, NotificationsAdvance
  PROVE  ReportsAreTrue'
<1> DEFINE True(run, c) ==
      /\ run.about \in specs'[c] /\ run.about.pr
      /\ run.msg = "Complete" => Listed(run.about) \subseteq SettledArtifacts'
      /\ run.msg = "Failed" => Listed(run.about) \cap broken' # {}
<1> SUFFICES ASSUME NEW c \in ComponentBuilds, NEW n \in DOMAIN pipelineRuns'[c]
             PROVE  True(pipelineRuns'[c][n], c)
  BY DEF ReportsAreTrue, Listed
<1>1. CASE n \in DOMAIN pipelineRuns[c]
  <2> DEFINE run == pipelineRuns[c][n]
  <2>1. /\ pipelineRuns'[c][n].msg = run.msg /\ pipelineRuns'[c][n].about = run.about
    BY <1>1 DEF NotificationsAdvance
  <2>2. /\ run.about \in specs[c] /\ run.about.pr
        /\ run.msg = "Complete" => Listed(run.about) \subseteq SettledArtifacts
        /\ run.msg = "Failed" => Listed(run.about) \cap broken # {}
    BY <1>1 DEF ReportsAreTrue
  <2> QED
    BY <2>1, <2>2 DEF Grows, SpecsGrow
<1>2. CASE n \notin DOMAIN pipelineRuns[c]
  <2>1. /\ Settled /\ cur = c /\ my.obj.spec.pr
        /\ pipelineRuns'[c][n].msg = Verdict(my.obj)
        /\ pipelineRuns'[c][n].about = my.obj.spec
    BY <1>2 DEF NotificationsAdvance
  <2>2. SoundSoFar(c, my.obj, left, specs[c], SettledArtifacts, broken, Reached)
    BY <2>1 DEF Settled, WorkIsSound, SoundWork
  <2>3. /\ my.obj \in ComponentBuildObjects /\ my.obj.outstanding = 0
        /\ \A g \in Artifacts : left[g] = 0
    BY <2>1, CopyTypes DEF Settled, Unreached, TypeOK, WorkerTypeOK
  <2>4. /\ Verdict(my.obj) = "Complete" => Listed(my.obj.spec) \subseteq SettledArtifacts
        /\ Verdict(my.obj) = "Failed" => Listed(my.obj.spec) \cap broken # {}
    BY <2>2, <2>3, VerdictIsSound
  <2> QED
    BY <2>1, <2>2, <2>4 DEF Grows, SpecsGrow, SoundSoFar
<1> QED
  BY <1>1, <1>2

-----------------------------------------------------------------------------
(* The listed versions and the one the worker is computing.                *)

Working == {"config", "artifacts", "deploy", "save"}

\* The list is left alone, and so is what the API server holds of it.
LEMMA BatchKept ==
  ASSUME TypeOK, BatchIsSound, Grows, UNCHANGED batch,
         pc' = "idle" => DOMAIN batch = {},
         \A c \in DOMAIN batch : componentBuild'[c] = componentBuild[c]
  PROVE  BatchIsSound'
<1>1. DOMAIN batch \subseteq ComponentBuilds
  BY DEF TypeOK, WorkerTypeOK
<1>2. \A c \in DOMAIN batch : SoundNext(c, batch[c].obj)
  BY <1>1, VersionsGrow DEF BatchIsSound
<1> QED
  BY <1>2 DEF BatchIsSound, SoundNext, SoundVersion

\* Between two ComponentBuilds the worker computes nothing.
LEMMA WorkDone ==
  ASSUME pc' \notin Working
  PROVE  WorkIsSound'
BY DEF WorkIsSound, Working

LEMMA ReturnKeeps ==
  ASSUME TypeOK, BatchIsSound, Grows, NEW err, Return(err),
         \A c \in DOMAIN batch : componentBuild'[c] = componentBuild[c]
  PROVE  BatchIsSound' /\ WorkIsSound'
<1>1. pc' \in {"idle", "batch"} /\ (pc' = "idle" => DOMAIN batch = {})
  BY DEF Return
<1>2. BatchIsSound'
  BY <1>1, BatchKept DEF Return
<1> QED
  BY <1>1, <1>2, WorkDone DEF Working

\* The worker starts on a sound version.
LEMMA StartKeeps ==
  ASSUME Grows, NEW c \in ComponentBuilds, NEW copy, Start(c, copy, "config"),
         SoundVersion(c, copy.obj), copy.fresh => copy.obj = componentBuild[c],
         UNCHANGED componentBuild, c \notin DOMAIN batch'
  PROVE  WorkIsSound'
<1>1. SoundNext(c, copy.obj)
  BY VersionsGrow
<1>2. pc' = "config" /\ cur' = c /\ my' = copy
  BY DEF Start
<1> QED
  BY <1>1, <1>2 DEF WorkIsSound, SoundVersion, SoundNext

LEMMA StartBatchKeeps ==
  ASSUME TypeOK, CachedIsSound, BatchIsSound, Grows, UNCHANGED componentBuild,
         pc = "idle", NEW key, NEW g, StartBatch(key, g)
  PROVE  BatchIsSound' /\ WorkIsSound'
<1> DEFINE mentioned == {c \in ComponentBuilds : seenCB[c].obj.artifacts[g] # "none"}
<1>1. CASE mentioned = {}
  <2>1. UNCHANGED worker
    BY <1>1 DEF StartBatch, Ignore
  <2> QED
    BY <2>1, BatchKept, WorkDone DEF Working, BatchIsSound
<1>2. CASE mentioned # {}
  <2>1. pc' = "batch" /\ batch' = [c \in mentioned |-> seenCB[c]]
    BY <1>2 DEF StartBatch
  <2>2. \A c \in mentioned : /\ SoundNext(c, seenCB[c].obj)
                             /\ seenCB[c].fresh => seenCB[c].obj = componentBuild'[c]
    BY VersionsGrow DEF CachedIsSound
  <2>3. BatchIsSound'
    BY <2>1, <2>2 DEF BatchIsSound, SoundNext, SoundVersion
  <2> QED
    BY <2>1, <2>3, WorkDone DEF Working
<1> QED
  BY <1>1, <1>2

LEMMA HandleKeeps ==
  ASSUME TypeOK, CachesAreOld, CachedIsSound, BatchIsSound, WorkIsSound, Grows, Handle
  PROVE  BatchIsSound' /\ WorkIsSound'
<1>1. UNCHANGED componentBuild
  BY Frames
<1>2. \A c \in ComponentBuilds : /\ SoundVersion(c, seenCB[c].obj)
                                 /\ seenCB[c].fresh => seenCB[c].obj = componentBuild[c]
  BY DEF CachedIsSound
\* A request for one ComponentBuild finds no list.
<1>3. ASSUME pc = "idle", UNCHANGED batch, pc' # "idle"
      PROVE  DOMAIN batch' = {} /\ BatchIsSound'
  BY <1>1, <1>3, BatchKept DEF BatchIsSound
<1>4. ASSUME pc = "idle", UNCHANGED worker PROVE BatchIsSound' /\ WorkIsSound'
  BY <1>1, <1>4, BatchKept, WorkDone DEF BatchIsSound, Working
<1>5. ASSUME NEW c \in ComponentBuilds, TakeComponentBuild(c)
      PROVE  BatchIsSound' /\ WorkIsSound'
  BY <1>1, <1>2, <1>3, <1>5, StartKeeps DEF TakeComponentBuild, Take, Start
<1>6. ASSUME NEW c \in ComponentBuilds, PickListed(c)
      PROVE  BatchIsSound' /\ WorkIsSound'
  <2>1. /\ SoundVersion(c, batch[c].obj)
        /\ batch[c].fresh => batch[c].obj = componentBuild[c]
        /\ batch' = [b \in DOMAIN batch \ {c} |-> batch[b]]
        /\ Start(c, batch[c], "config")
    BY <1>6 DEF PickListed, BatchIsSound
  <2>2. DOMAIN batch \subseteq ComponentBuilds
    BY DEF TypeOK, WorkerTypeOK
  <2>3. \A b \in DOMAIN batch' : /\ SoundNext(b, batch'[b].obj)
                                 /\ batch'[b].fresh => batch'[b].obj = componentBuild'[b]
    BY <1>1, <2>1, <2>2, VersionsGrow DEF BatchIsSound
  <2>4. BatchIsSound'
    BY <2>1, <2>3 DEF BatchIsSound, SoundNext, SoundVersion, Start
  <2> QED
    BY <1>1, <2>1, <2>4, StartKeeps
<1>7. ASSUME NEW g \in Artifacts, TakeArtifactBuild(g)
      PROVE  BatchIsSound' /\ WorkIsSound'
  BY <1>1, <1>7, StartBatchKeeps DEF TakeArtifactBuild, Take
<1>8. ASSUME NEW d \in DependencyBuilds, NEW n \in DOMAIN seenTR[d],
             TakeRunningTaskRun(d, n) \/ TakeEndedTaskRun(d, n)
      PROVE  BatchIsSound' /\ WorkIsSound'
  BY <1>1, <1>4, <1>8, StartBatchKeeps
     DEF TakeRunningTaskRun, TakeEndedTaskRun, Take, Ignore
<1>9. ASSUME NEW c \in ComponentBuilds, NEW n \in DOMAIN seenPR[c],
             TakeRunningPipelineRun(c, n)
      PROVE  BatchIsSound' /\ WorkIsSound'
  BY <1>4, <1>9 DEF TakeRunningPipelineRun, Take, Ignore
<1>10. ASSUME NEW c \in ComponentBuilds, NEW n \in DOMAIN seenPR[c],
              TakeFailedPipelineRun(c, n)
       PROVE  BatchIsSound' /\ WorkIsSound'
  BY <1>1, <1>2, <1>3, <1>10, StartKeeps DEF TakeFailedPipelineRun, Take, Start
<1>11. ASSUME NEW c \in ComponentBuilds, NEW n \in DOMAIN seenPR[c],
              TakeSucceededPipelineRun(c, n)
       PROVE  BatchIsSound' /\ WorkIsSound'
  <2> DEFINE told == [seenCB[c].obj EXCEPT !.notified = TRUE]
  <2>1. seenCB[c] \in Copies /\ seenCB[c].obj \in ComponentBuildObjects
    BY CopyTypes DEF TypeOK, ClusterTypeOK
  <2>2. /\ pc' = "save" /\ cur' = c /\ UNCHANGED batch /\ pc = "idle"
        /\ my'.obj = told /\ my'.fresh = seenCB[c].fresh
        /\ told.notified = TRUE
        /\ told.spec = seenCB[c].obj.spec /\ told.state = seenCB[c].obj.state
    BY <1>11, <2>1 DEF TakeSucceededPipelineRun, Take, Start, Copies, ComponentBuildObjects
  <2>3. c \in Reached
    BY <1>11 DEF TakeSucceededPipelineRun, CachesAreOld, Reached
  <2>4. SoundVersion(c, told)
    BY <1>2, <2>1, <2>3, NotifiedIsSound DEF SoundVersion
  <2> HIDE DEF told
  <2>5. SoundNext(c, told)
    BY <2>4, VersionsGrow
  <2>6. BatchIsSound' /\ c \notin DOMAIN batch'
    BY <1>3, <2>2
  <2>7. my'.fresh => /\ my'.obj.spec = componentBuild'[c].spec
                     /\ Reconsidered(my'.obj, componentBuild'[c])
    BY <1>1, <1>2, <2>2 DEF Reconsidered
  <2>8. WorkIsSound'
    BY <2>2, <2>5, <2>6, <2>7 DEF WorkIsSound, SoundNext, SoundVersion
  <2> QED
    BY <2>6, <2>8
<1>12. ASSUME NEW key \in queue, DispatchFails(key)
       PROVE  BatchIsSound' /\ WorkIsSound'
  BY <1>4, <1>12 DEF DispatchFails
<1>13. ASSUME NEW d \in DependencyBuilds, NEW n \in DOMAIN seenTR[d],
              EndedTaskRunUnlisted(d, n)
       PROVE  BatchIsSound' /\ WorkIsSound'
  BY <1>4, <1>13 DEF EndedTaskRunUnlisted
<1> QED
  BY <1>5, <1>6, <1>7, <1>8, <1>9, <1>10, <1>11, <1>12, <1>13 DEF Handle

\* The loop enters one more artifact, with an entry that what was seen bears out.
LEMMA EnterKeeps ==
  ASSUME TypeOK, WorkIsSound, Grows, pc = "artifacts", NEW g \in Unreached,
         NEW entry \in EntryStates \ {"none"}, Enter(g, entry),
         entry = "deployed" => g \in SettledArtifacts,
         entry = "failed" => g \in broken,
         pc' \in {"artifacts", "deploy"}, UNCHANGED componentBuild
  PROVE  WorkIsSound'
<1>1. /\ my \in Copies /\ my.obj \in ComponentBuildObjects
      /\ left \in [Artifacts -> Nat] /\ g \in Artifacts /\ left[g] > 0
      /\ cur \in ComponentBuilds
  BY CopyTypes DEF TypeOK, WorkerTypeOK, Unreached
<1> DEFINE next == Entered(my.obj, g, entry)
<1>2. /\ my'.obj = next /\ my'.fresh = my.fresh
      /\ left' = [left EXCEPT ![g] = @ - 1]
      /\ UNCHANGED <<cur, batch>>
  BY <1>1 DEF Enter, Copies
<1>3. next.spec = my.obj.spec /\ next.notified = my.obj.notified
  BY <1>1 DEF Entered, ComponentBuildObjects
<1>4. SoundWork(cur, my.obj, left)
  BY DEF WorkIsSound
<1>5. SoundWork(cur, next, left')
  BY <1>1, <1>2, <1>4, EnteredIsSoundSoFar DEF SoundWork
<1> HIDE DEF next
<1>6. SoundWorkNext(cur, next, left')
  BY <1>1, <1>5, VersionsGrow
<1> QED
  BY <1>2, <1>3, <1>6 DEF WorkIsSound, SoundWork, SoundWorkNext

LEMMA SeenEntryIsSound ==
  ASSUME CachesAreOld, NEW g \in Artifacts
  PROVE  /\ SeenEntry(g) \in EntryStates \ {"none"}
         /\ SeenEntry(g) = "deployed" => g \in SettledArtifacts /\ g \in SeenSettled
         /\ SeenEntry(g) = "failed" => g \in broken
<1>1. CASE seenAB[g] = "failed"
  BY <1>1 DEF SeenEntry, EntryStates, CachesAreOld
<1>2. CASE seenAB[g] = "complete"
  BY <1>2, Assumptions
     DEF SeenEntry, EntryStates, SeenDeployed, SettledArtifacts, SeenSettled, CachesAreOld
<1>3. CASE seenAB[g] \notin {"failed", "complete"}
  BY <1>3 DEF SeenEntry, EntryStates
<1> QED
  BY <1>1, <1>2, <1>3

LEMMA LoopKeeps ==
  ASSUME TypeOK, CachesAreOld, BatchIsSound, WorkIsSound, Grows, Loop
  PROVE  BatchIsSound' /\ WorkIsSound'
<1>1. UNCHANGED componentBuild
  BY Frames
<1>2. /\ my \in Copies /\ my.obj \in ComponentBuildObjects
      /\ Unreached \subseteq Artifacts
      /\ pc \in Working => cur \in ComponentBuilds
  BY CopyTypes DEF TypeOK, WorkerTypeOK, Working, Unreached
<1>3. ASSUME NEW err, Return(err) PROVE BatchIsSound' /\ WorkIsSound'
  BY <1>1, <1>3, ReturnKeeps
<1>4. ASSUME UNCHANGED batch, pc' # "idle" PROVE BatchIsSound'
  BY <1>1, <1>4, BatchKept
<1>5. ASSUME ConfigMissing PROVE BatchIsSound' /\ WorkIsSound'
  <2> DEFINE held == [my.obj EXCEPT !.noConfig = TRUE]
  <2>1. /\ pc = "config" /\ pc' = "save" /\ UNCHANGED <<cur, batch>>
        /\ my'.obj = held /\ my'.fresh = my.fresh
        /\ held.spec = my.obj.spec /\ held.state = my.obj.state
        /\ held.notified = my.obj.notified
    BY <1>2, <1>5 DEF ConfigMissing, Copies, ComponentBuildObjects
  <2>2. SoundVersion(cur, held)
    BY <1>2, <2>1, NoConfigIsSound DEF WorkIsSound, SoundVersion
  <2> HIDE DEF held
  <2>3. SoundNext(cur, held)
    BY <1>2, <2>1, <2>2, VersionsGrow DEF Working
  <2>4. my'.fresh => /\ my'.obj.spec = componentBuild'[cur].spec
                     /\ Reconsidered(my'.obj, componentBuild'[cur])
    BY <1>1, <2>1 DEF WorkIsSound, Reconsidered
  <2>5. cur \notin DOMAIN batch
    BY <2>1 DEF WorkIsSound
  <2>6. WorkIsSound'
    BY <2>1, <2>3, <2>4, <2>5 DEF WorkIsSound, SoundNext, SoundVersion
  <2> QED
    BY <1>4, <2>1, <2>6
<1>6. ASSUME ConfigFound PROVE BatchIsSound' /\ WorkIsSound'
  <2> DEFINE start == [my.obj EXCEPT !.noConfig = FALSE, !.outstanding = 0,
                                     !.artifacts = [g \in Artifacts |-> "none"]]
  <2>1. /\ pc = "config" /\ pc' = "artifacts" /\ UNCHANGED <<cur, batch>>
        /\ my'.obj = start /\ my'.fresh = my.fresh /\ left' = my.obj.spec.gavs
        /\ start.spec = my.obj.spec /\ start.notified = my.obj.notified
    BY <1>2, <1>6 DEF ConfigFound, Copies, ComponentBuildObjects
  <2>2. SoundWork(cur, start, my.obj.spec.gavs)
    BY <1>2, <2>1, ResetIsSoundSoFar DEF WorkIsSound, SoundVersion, SoundWork
  <2> HIDE DEF start
  <2>3. SoundWorkNext(cur, start, my.obj.spec.gavs)
    BY <1>2, <2>1, <2>2, VersionsGrow DEF Working
  <2>4. my'.fresh => /\ my'.obj.spec = componentBuild'[cur].spec
                     /\ my'.obj.notified = componentBuild'[cur].notified
    BY <1>1, <2>1 DEF WorkIsSound
  <2>5. cur \notin DOMAIN batch
    BY <2>1 DEF WorkIsSound
  <2>6. WorkIsSound'
    BY <2>1, <2>3, <2>4, <2>5 DEF WorkIsSound, SoundWork, SoundWorkNext
  <2> QED
    BY <1>4, <2>1, <2>6
<1>7. ASSUME NEW g \in Unreached, FoundArtifact(g) PROVE BatchIsSound' /\ WorkIsSound'
  <2>1. pc' \in {"artifacts", "deploy"} /\ UNCHANGED batch /\ pc = "artifacts"
    BY <1>7 DEF FoundArtifact, Enter
  <2>2. WorkIsSound'
    BY <1>1, <1>2, <1>7, <2>1, SeenEntryIsSound, EnterKeeps DEF FoundArtifact
  <2> QED
    BY <1>4, <2>1, <2>2
<1>8. ASSUME NEW g \in Unreached, UnreadableArtifact(g) PROVE BatchIsSound' /\ WorkIsSound'
  <2>1. pc' \in {"artifacts", "deploy"} /\ UNCHANGED batch /\ pc = "artifacts"
    BY <1>8 DEF UnreadableArtifact, Enter
  <2>2. WorkIsSound'
    BY <1>1, <1>8, <2>1, EnterKeeps DEF UnreadableArtifact, EntryStates
  <2> QED
    BY <1>4, <2>1, <2>2
<1>9. ASSUME NEW g \in Unreached, CreateArtifactBuild(g) PROVE BatchIsSound' /\ WorkIsSound'
  <2>1. pc' = "artifacts" /\ UNCHANGED batch /\ pc = "artifacts"
    BY <1>9 DEF CreateArtifactBuild, Enter
  <2>2. WorkIsSound'
    BY <1>1, <1>9, <2>1, EnterKeeps DEF CreateArtifactBuild, EntryStates
  <2> QED
    BY <1>4, <2>1, <2>2
<1>10. ASSUME DeployArtifact \/ DeployNothing PROVE BatchIsSound' /\ WorkIsSound'
  <2>1. /\ pc = "deploy" /\ pc' = "artifacts"
        /\ UNCHANGED <<batch, cur, my, left>>
    BY <1>10 DEF DeployArtifact, DeployNothing
  <2>2. SoundWorkNext(cur, my.obj, left)
    BY <1>2, <2>1, VersionsGrow DEF WorkIsSound, Working
  <2>3. WorkIsSound'
    BY <1>1, <2>1, <2>2 DEF WorkIsSound, SoundWork, SoundWorkNext
  <2> QED
    BY <1>4, <2>1, <2>3
<1> QED
  BY <1>3, <1>5, <1>6, <1>7, <1>8, <1>9, <1>10
     DEF Loop, ConfigUnreadable, CreateArtifactBuildFails, CreateArtifactBuildUnanswered

LEMMA FinishKeeps ==
  ASSUME TypeOK, BatchIsSound, WorkIsSound, Grows, Finish
  PROVE  BatchIsSound' /\ WorkIsSound'
<1>1. /\ my \in Copies /\ my.obj \in ComponentBuildObjects
      /\ pc \in Working => cur \in ComponentBuilds /\ cur \notin DOMAIN batch
  BY CopyTypes DEF TypeOK, WorkerTypeOK, Working, WorkIsSound
<1>2. ASSUME UNCHANGED <<batch, componentBuild>>, pc' # "idle" PROVE BatchIsSound'
  BY <1>2, BatchKept
<1>3. ASSUME NEW err, Return(err), UNCHANGED componentBuild
      PROVE  BatchIsSound' /\ WorkIsSound'
  BY <1>3, ReturnKeeps
<1>4. ASSUME StillOutstanding PROVE BatchIsSound' /\ WorkIsSound'
  <2> DEFINE done == [my.obj EXCEPT !.state = "InProgress", !.notified = FALSE]
  <2>1. /\ pc = "artifacts" /\ pc' = "save" /\ my.obj.outstanding > 0
        /\ UNCHANGED <<cur, batch, componentBuild>>
        /\ my'.obj = done /\ my'.fresh = my.fresh
        /\ done.spec = my.obj.spec /\ done.state = "InProgress" /\ ~done.notified
    BY <1>1, <1>4 DEF StillOutstanding, Copies, ComponentBuildObjects
  <2>2. SoundVersion(cur, done)
    BY <1>1, <2>1, InProgressIsSound DEF WorkIsSound, SoundWork, SoundVersion
  <2> HIDE DEF done
  <2>3. SoundNext(cur, done)
    BY <1>1, <2>1, <2>2, VersionsGrow DEF Working
  <2>4. my'.fresh => /\ my'.obj.spec = componentBuild'[cur].spec
                     /\ Reconsidered(my'.obj, componentBuild'[cur])
    BY <2>1 DEF WorkIsSound, Reconsidered
  <2>5. WorkIsSound'
    BY <1>1, <2>1, <2>3, <2>4 DEF WorkIsSound, SoundNext, SoundVersion, Working
  <2> QED
    BY <1>2, <2>1, <2>5
\* The two steps that give a verdict differ in the notification only.
<1>5. ASSUME Settled, pc' = "save", my' = [my EXCEPT !.obj.state = Verdict(my.obj)],
             UNCHANGED <<cur, batch, componentBuild>>
      PROVE  BatchIsSound' /\ WorkIsSound'
  <2> DEFINE done == [my.obj EXCEPT !.state = Verdict(my.obj)]
  <2>1. /\ pc = "artifacts" /\ my.obj.outstanding = 0
        /\ \A g \in Artifacts : left[g] = 0
        /\ my'.obj = done /\ my'.fresh = my.fresh
        /\ done.spec = my.obj.spec /\ done.artifacts = my.obj.artifacts
        /\ done.state \in {"Failed", "Complete"} /\ done.notified = my.obj.notified
    BY <1>1, <1>5, VerdictTypes
       DEF Settled, Unreached, Copies, ComponentBuildObjects, TypeOK, WorkerTypeOK
  <2>2. SoundSoFar(cur, my.obj, left, specs[cur], SettledArtifacts, broken, Reached)
    BY <2>1 DEF WorkIsSound, SoundWork
  <2>4. SoundVersion(cur, done)
    BY <1>1, <2>1, <2>2, VerdictIsSound DEF SoundVersion
  <2>5. Recorded(done) = Listed(done.spec)
    <3>1. Recorded(done) = Recorded(my.obj)
      BY <2>1 DEF Recorded
    <3> QED
      BY <1>1, <2>1, <2>2, <3>1, EndedIsRecorded
  <2> HIDE DEF done
  <2>6. SoundNext(cur, done)
    BY <1>1, <2>1, <2>4, VersionsGrow DEF Working
  <2>7. my'.fresh => /\ my'.obj.spec = componentBuild'[cur].spec
                     /\ Reconsidered(my'.obj, componentBuild'[cur])
    BY <1>5, <2>1, <2>5 DEF WorkIsSound, Reconsidered
  <2>8. WorkIsSound'
    BY <1>1, <1>5, <2>1, <2>6, <2>7 DEF WorkIsSound, SoundNext, SoundVersion, Working
  <2> QED
    BY <1>2, <1>5, <2>8
<1>6. ASSUME SettleSilently \/ SettleAndNotify PROVE BatchIsSound' /\ WorkIsSound'
  BY <1>5, <1>6 DEF SettleSilently, SettleAndNotify
<1>7. ASSUME SaveStatus PROVE BatchIsSound' /\ WorkIsSound'
  <2>1. cur \notin DOMAIN batch
    BY <1>1, <1>7 DEF SaveStatus, Working
  <2>2. \A c \in DOMAIN batch : componentBuild'[c] = componentBuild[c]
    BY <1>7, <2>1 DEF SaveStatus, UpdateStatus, TypeOK, ClusterTypeOK, WorkerTypeOK
  <2> QED
    BY <1>7, <2>2, ReturnKeeps DEF SaveStatus
<1> QED
  BY <1>3, <1>4, <1>6, <1>7
     DEF Finish, NotifyFails, NotifyUnanswered, SaveStatusFails

\* A step that is none of the worker's.
LEMMA OthersKeep ==
  ASSUME TypeOK, BatchIsSound, WorkIsSound, Grows, UNCHANGED <<worker, componentBuild>>
  PROVE  BatchIsSound' /\ WorkIsSound'
<1>1. BatchIsSound'
  BY BatchKept DEF BatchIsSound
<1>2. CASE pc \notin Working
  BY <1>1, <1>2, WorkDone
<1>3. CASE pc \in Working
  <2>1. cur \in ComponentBuilds
    BY <1>3 DEF Working, TypeOK, WorkerTypeOK
  <2>2. /\ pc \in {"config", "save"} => SoundNext(cur, my.obj)
        /\ pc \in {"artifacts", "deploy"} => SoundWorkNext(cur, my.obj, left)
    BY <2>1, VersionsGrow DEF WorkIsSound
  <2>3. WorkIsSound'
    BY <2>1, <2>2 DEF WorkIsSound, SoundNext, SoundVersion, SoundWork, SoundWorkNext
  <2> QED
    BY <1>1, <2>3
<1> QED
  BY <1>2, <1>3

-----------------------------------------------------------------------------
(* Someone else stores new versions of ComponentBuilds: the process does   *)
(* not move, and its copies of them are outdated. So it is when the        *)
(* analyser edits a spec, and when another process is at work.           *)

Overtaken == {c \in ComponentBuilds : componentBuild'[c] # componentBuild[c]}

Behind(held) ==
  [c \in DOMAIN held |-> IF c \in Overtaken THEN Outdated(held[c]) ELSE held[c]]

LeftBehind ==
  /\ UNCHANGED <<seenAB, seenRA, seenDB, seenTR, seenPR, queue, pc, req, cur, left, gav>>
  /\ seenCB' = Behind(seenCB)
  /\ batch' = Behind(batch)
  /\ my' = IF cur \in Overtaken THEN Outdated(my) ELSE my

\* What it holds is what it held; only, none of it is current any longer.
LEMMA BehindCopies ==
  ASSUME TypeOK, LeftBehind
  PROVE  /\ DOMAIN seenCB' = ComponentBuilds /\ DOMAIN batch' = DOMAIN batch
         /\ \A c \in ComponentBuilds :
              /\ seenCB'[c] \in Copies /\ seenCB'[c].obj = seenCB[c].obj
              /\ seenCB'[c].fresh => /\ seenCB[c].fresh
                                     /\ componentBuild'[c] = componentBuild[c]
         /\ \A c \in DOMAIN batch :
              /\ batch'[c] \in Copies /\ batch'[c].obj = batch[c].obj
              /\ batch'[c].fresh => /\ batch[c].fresh
                                    /\ componentBuild'[c] = componentBuild[c]
         /\ my' \in Copies /\ my'.obj = my.obj
         /\ my'.fresh /\ cur \in ComponentBuilds =>
              my.fresh /\ componentBuild'[cur] = componentBuild[cur]
<1>1. /\ seenCB \in [ComponentBuilds -> Copies] /\ my \in Copies
      /\ DOMAIN batch \subseteq ComponentBuilds
      /\ \A c \in DOMAIN batch : batch[c] \in Copies
  BY DEF TypeOK, ClusterTypeOK, WorkerTypeOK
<1>2. \A copy \in Copies : /\ Outdated(copy) \in Copies /\ Outdated(copy).obj = copy.obj
                           /\ ~Outdated(copy).fresh
  BY CopyTypes, OutdatedIsSound
<1>3. \A c \in ComponentBuilds : c \notin Overtaken => componentBuild'[c] = componentBuild[c]
  BY DEF Overtaken
<1>4. DOMAIN seenCB' = ComponentBuilds /\ DOMAIN batch' = DOMAIN batch
  BY <1>1 DEF LeftBehind, Behind
<1>5. ASSUME NEW c \in ComponentBuilds
      PROVE  /\ seenCB'[c] \in Copies /\ seenCB'[c].obj = seenCB[c].obj
             /\ seenCB'[c].fresh => /\ seenCB[c].fresh
                                    /\ componentBuild'[c] = componentBuild[c]
  BY <1>1, <1>2, <1>3 DEF LeftBehind, Behind
<1>6. ASSUME NEW c \in DOMAIN batch
      PROVE  /\ batch'[c] \in Copies /\ batch'[c].obj = batch[c].obj
             /\ batch'[c].fresh => /\ batch[c].fresh
                                   /\ componentBuild'[c] = componentBuild[c]
  BY <1>1, <1>2, <1>3 DEF LeftBehind, Behind
<1>7. /\ my' \in Copies /\ my'.obj = my.obj
      /\ my'.fresh /\ cur \in ComponentBuilds =>
           my.fresh /\ componentBuild'[cur] = componentBuild[cur]
  BY <1>1, <1>2, <1>3 DEF LeftBehind
<1> QED
  BY <1>4, <1>5, <1>6, <1>7

LEMMA BehindKeeps ==
  ASSUME TypeOK, CachedIsSound, BatchIsSound, WorkIsSound, Grows, LeftBehind
  PROVE  CachedIsSound' /\ BatchIsSound' /\ WorkIsSound'
<1>1. DOMAIN batch \subseteq ComponentBuilds /\ (pc \in Working => cur \in ComponentBuilds)
  BY DEF TypeOK, WorkerTypeOK, Working
<1>2. UNCHANGED <<pc, cur, left>>
  BY DEF LeftBehind
<1>3. CachedIsSound'
  <2>1. \A c \in ComponentBuilds : SoundNext(c, seenCB[c].obj)
    BY VersionsGrow DEF CachedIsSound
  <2> QED
    BY <2>1, BehindCopies DEF CachedIsSound, SoundNext, SoundVersion
<1>4. BatchIsSound'
  <2>1. \A c \in DOMAIN batch : SoundNext(c, batch[c].obj)
    BY <1>1, VersionsGrow DEF BatchIsSound
  <2> QED
    BY <1>2, <2>1, BehindCopies DEF BatchIsSound, SoundNext, SoundVersion
<1>5. CASE pc \notin Working
  BY <1>2, <1>3, <1>4, <1>5, WorkDone
<1>6. CASE pc \in Working
  <2>1. cur \in ComponentBuilds
    BY <1>1, <1>6
  <2>2. /\ pc \in {"config", "save"} => SoundNext(cur, my.obj)
        /\ pc \in {"artifacts", "deploy"} => SoundWorkNext(cur, my.obj, left)
    BY <2>1, VersionsGrow DEF WorkIsSound
  <2>3. /\ DOMAIN batch' = DOMAIN batch /\ my'.obj = my.obj
        /\ my'.fresh => my.fresh /\ componentBuild'[cur] = componentBuild[cur]
    BY <2>1, BehindCopies
  <2>4. WorkIsSound'
    BY <1>2, <2>1, <2>2, <2>3
       DEF WorkIsSound, SoundNext, SoundVersion, SoundWork, SoundWorkNext
  <2> QED
    BY <1>3, <1>4, <2>4
<1> QED
  BY <1>5, <1>6

\* The analyser is such a one: it gives a ComponentBuild another spec.
LEMMA EditLeavesBehind ==
  ASSUME TypeOK, NEW b \in ComponentBuilds, NEW spec \in EditedSpecs, Edit(b, spec)
  PROVE  LeftBehind
<1>1. /\ componentBuild \in [ComponentBuilds -> ComponentBuildObjects]
      /\ seenCB \in [ComponentBuilds -> Copies]
  BY DEF TypeOK, ClusterTypeOK
<1>2. Overtaken = {b}
  BY <1>1 DEF Edit, EditSpec, Overtaken, ComponentBuildObjects
<1>3. seenCB' = Behind(seenCB)
  BY <1>1, <1>2 DEF Edit, EditSpec, Behind
<1> QED
  BY <1>2, <1>3 DEF Edit, EditSpec, Outdate, LeftBehind, Behind

\* What the API server holds, and how often each disturbance may still happen.
ApiTypeOK ==
  /\ artifactBuild \in [Artifacts -> BuildStates]
  /\ dependencyBuild \in [DependencyBuilds -> BOOLEAN]
  /\ componentBuild \in [ComponentBuilds -> ComponentBuildObjects]
  /\ taskRuns \in [DependencyBuilds -> Seq(TaskRuns)]
  /\ \A d \in DependencyBuilds : Len(taskRuns[d]) <= MaxTaskRuns
  /\ pipelineRuns \in [ComponentBuilds -> Seq(PipelineRuns)]
  /\ \A c \in ComponentBuilds : Len(pipelineRuns[c]) <= MaxPipelineRuns
  /\ config \in BOOLEAN
  /\ budget \in [Disturbances -> Nat]
  /\ broken \in SUBSET Artifacts
  /\ specs \in [ComponentBuilds -> SUBSET Specs]

LEMMA BehindTypes ==
  ASSUME TypeOK, LeftBehind, ApiTypeOK'
  PROVE  TypeOK'
<1>1. UNCHANGED <<seenAB, seenRA, seenDB, seenTR, seenPR, queue, pc, req, cur, left, gav>>
  BY DEF LeftBehind
<1>2. seenCB' \in [ComponentBuilds -> Copies]
  BY BehindCopies DEF LeftBehind, Behind
<1>3. batch' \in [DOMAIN batch' -> Copies] /\ DOMAIN batch' = DOMAIN batch
  BY BehindCopies DEF LeftBehind, Behind
<1>4. my' \in Copies
  BY BehindCopies
<1>5. ClusterTypeOK'
  BY <1>1, <1>2 DEF TypeOK, ClusterTypeOK, ApiTypeOK
<1>6. WorkerTypeOK'
  BY <1>1, <1>3, <1>4 DEF TypeOK, WorkerTypeOK, Keys
<1> QED
  BY <1>5, <1>6 DEF TypeOK

LEMMA IdleProcessTypes ==
  ASSUME TypeOK, UNCHANGED <<caches, queue, worker>>, ApiTypeOK'
  PROVE  TypeOK'
<1>1. ClusterTypeOK'
  BY DEF TypeOK, ClusterTypeOK, ApiTypeOK
<1> QED
  BY <1>1, WorkerUnchanged DEF TypeOK

\* A process that is left behind by a step of another one loses nothing of what
\* it may rely on.
LEMMA BehindSteps ==
  ASSUME TypeOK, LocalInv, LeftBehind,
         BuildsAdvance, DeploymentsAdvance, NotificationsStay, SpecsGrow
  PROVE  LocalInv'
<1>1. CachesMove
  BY DEF CachesMove, LeftBehind
<1>2. CachesAreOld'
  BY <1>1, CachesInv DEF LocalInv
<1>3. Grows
  BY GrowthSteps
<1> QED
  BY <1>2, <1>3, BehindKeeps DEF LocalInv

\* Nothing but a new process uses up a "restart".
LEMMA RestartsLeft ==
  ASSUME TypeOK, Worker \/ Sync \/ Settling \/ IdleResync
  PROVE  budget'["restart"] = budget["restart"]
<1>1. budget \in [Disturbances -> Nat] /\ "restart" \in Disturbances
  BY DEF TypeOK, ClusterTypeOK, Disturbances
<1>2. ASSUME NEW kind, kind # "restart", Spend(kind)
      PROVE  budget'["restart"] = budget["restart"]
  BY <1>1, <1>2 DEF Spend
<1>3. UNCHANGED budget \/ \E kind : kind # "restart" /\ Spend(kind)
  <2>1. CASE Handle
    BY <2>1 DEF Handle, TakeComponentBuild, PickListed, TakeArtifactBuild,
         TakeRunningTaskRun, TakeEndedTaskRun, EndedTaskRunUnlisted, Annotate,
         TakeRunningPipelineRun, TakeFailedPipelineRun, TakeSucceededPipelineRun,
         DispatchFails
  <2>2. CASE Loop
    BY <2>2 DEF Loop, ConfigUnreadable, ConfigMissing, ConfigFound, FoundArtifact,
         UnreadableArtifact, CreateArtifactBuild, CreateArtifactBuildFails,
         CreateArtifactBuildUnanswered, DeployArtifact, DeployNothing
  <2>3. CASE Finish
    BY <2>3 DEF Finish, StillOutstanding, SettleSilently, SettleAndNotify, NotifyFails,
         NotifyUnanswered, SaveStatus, SaveStatusFails
  <2>4. CASE Settling
    BY <2>4 DEF Settling, CreateConfig, BuildEnds, TaskRunEnds, PipelineRunEnds
  <2>5. CASE IdleResync \/ Sync
    BY <2>5, Frames DEF IdleResync, Resync
  <2> QED
    BY <2>1, <2>2, <2>3, <2>4, <2>5 DEF Worker
<1> QED
  BY <1>2, <1>3

\* A new process knows what the API server holds, and nothing else.
LEMMA RestartKeeps ==
  ASSUME SharedInv, \A g \in Artifacts : artifactBuild[g] = "failed" => g \in broken,
         Restart
  PROVE  LocalInv'
<1>1. UNCHANGED <<artifactBuild, dependencyBuild, componentBuild, taskRuns,
                  pipelineRuns, config, history>>
  BY DEF Restart, Relist
<1>2. /\ seenAB' = artifactBuild /\ seenRA' = RebuiltArtifacts
      /\ seenDB' = dependencyBuild /\ seenTR' = taskRuns /\ seenPR' = pipelineRuns
  BY DEF Restart, Relist
<1>3. CachesAreOld'
  BY <1>1, <1>2 DEF CachesAreOld, RebuiltArtifacts
<1>4. SettledArtifacts' = SettledArtifacts /\ Reached' = Reached
  BY <1>1 DEF SettledArtifacts, Reached
<1>5. \A c \in ComponentBuilds : seenCB'[c].obj = componentBuild'[c]
  BY <1>1 DEF Restart, Relist, Copy
<1>6. CachedIsSound'
  BY <1>1, <1>4, <1>5 DEF SharedInv, StoredIsSound, CachedIsSound, SoundVersion
<1>7. BatchIsSound' /\ WorkIsSound'
  BY WorkDone DEF Restart, BatchIsSound, NoBatch, Working
<1> QED
  BY <1>3, <1>6, <1>7 DEF LocalInv

-----------------------------------------------------------------------------
(* What is entered as deployed was seen, in every version.                 *)

LEMMA NewHasNoEntries ==
  \A spec, g : g \in Artifacts => NewComponentBuild(spec).artifacts[g] = "none"
BY DEF NewComponentBuild

\* What the operator has seen of its caches it goes on seeing.
LEMMA SeenGrows ==
  ASSUME CachesAreOld, BuildsAdvance, DeploymentsAdvance, CachesMove
  PROVE  SeenSettled \subseteq SeenSettled'
<1>1. \A g \in Artifacts : seenAB[g] = "complete" => seenAB'[g] = "complete"
  BY DEF CachesAreOld, BuildsAdvance, CachesMove
<1>2. seenRA \subseteq seenRA'
  BY DEF CachesAreOld, BuildsAdvance, CachesMove, RebuiltArtifacts
<1>3. \A g \in Artifacts : seenDB[BuiltBy[g]] => seenDB'[BuiltBy[g]]
  BY Assumptions DEF CachesAreOld, DeploymentsAdvance, CachesMove
<1> QED
  BY <1>1, <1>2, <1>3 DEF SeenSettled

\* A version with the entries of one that is there.
Inherits(obj) ==
  \/ \E c \in ComponentBuilds : obj.artifacts = componentBuild[c].artifacts
  \/ \E c \in ComponentBuilds : obj.artifacts = seenCB[c].obj.artifacts
  \/ \E c \in DOMAIN batch : obj.artifacts = batch[c].obj.artifacts
  \/ obj.artifacts = my.obj.artifacts
  \/ \A g \in Artifacts : obj.artifacts[g] # "deployed"

LEMMA InheritedIsSeen ==
  ASSUME EntriesAreSeen, NEW obj, Inherits(obj)
  PROVE  OnlySeen(obj)
BY DEF EntriesAreSeen, OnlySeen, Inherits

LEMMA OutdatedInherits ==
  ASSUME TypeOK
  PROVE  /\ Outdated(my).obj = my.obj
         /\ \A c \in ComponentBuilds : Outdated(seenCB[c]).obj = seenCB[c].obj
         /\ \A c \in DOMAIN batch : Outdated(batch[c]).obj = batch[c].obj
BY OutdatedIsSound DEF TypeOK, ClusterTypeOK, WorkerTypeOK

\* The stored versions and the cached ones come from others.
LEMMA StoredInherit ==
  ASSUME TypeOK, Next, NEW c \in ComponentBuilds
  PROVE  Inherits(componentBuild'[c]) /\ Inherits(seenCB'[c].obj)
<1>1. /\ componentBuild \in [ComponentBuilds -> ComponentBuildObjects]
      /\ seenCB \in [ComponentBuilds -> Copies]
  BY DEF TypeOK, ClusterTypeOK
<1>2. Inherits(componentBuild'[c])
  <2>1. CASE UNCHANGED componentBuild
    BY <2>1 DEF Inherits
  <2>2. CASE SaveStatus
    BY <1>1, <2>2 DEF SaveStatus, UpdateStatus, Inherits
  <2>3. CASE \E b \in ComponentBuilds, spec \in EditedSpecs : Edit(b, spec)
    <3>1. componentBuild'[c].artifacts = componentBuild[c].artifacts
      BY <1>1, <2>3 DEF Edit, EditSpec, ComponentBuildObjects
    <3> QED
      BY <3>1 DEF Inherits
  <2> QED
    BY <2>1, <2>2, <2>3, ComponentBuildSteps
<1>3. Inherits(seenCB'[c].obj)
  <2>1. \/ seenCB'[c] = seenCB[c] \/ seenCB'[c] = Outdated(seenCB[c])
        \/ seenCB'[c] = Copy(componentBuild[c])
    BY <1>1, CachedSteps
  <2>2. Outdated(seenCB[c]).obj = seenCB[c].obj
    BY OutdatedInherits
  <2> QED
    BY <2>1, <2>2 DEF Inherits, Copy
<1> QED
  BY <1>2, <1>3

\* The versions the worker holds as well, but for the entry it makes.
LEMMA HeldInherit ==
  ASSUME TypeOK, Next
  PROVE  /\ \A c \in DOMAIN batch' : Inherits(batch'[c].obj)
         /\ \/ Inherits(my'.obj)
            \/ \E g \in Unreached : /\ FoundArtifact(g)
                              /\ my'.obj = Entered(my.obj, g, SeenEntry(g))
            \/ \E g \in Unreached, entry \in {"pending", "built"} :
                  my'.obj = Entered(my.obj, g, entry)
<1> DEFINE Held == \A c \in DOMAIN batch' : Inherits(batch'[c].obj)
<1>1. /\ my \in Copies /\ my.obj \in ComponentBuildObjects
      /\ DOMAIN batch \subseteq ComponentBuilds
      /\ \A c \in DOMAIN batch : batch[c] \in Copies /\ batch[c].obj \in ComponentBuildObjects
      /\ \A c \in ComponentBuilds : seenCB[c] \in Copies /\ seenCB[c].obj \in ComponentBuildObjects
  BY CopyTypes DEF TypeOK, ClusterTypeOK, WorkerTypeOK
<1>2. UNCHANGED batch => Held
  BY DEF Inherits
<1>3. UNCHANGED my => Inherits(my'.obj)
  BY DEF Inherits
<1>4. my' = NoCopy => Inherits(my'.obj)
  BY NewHasNoEntries DEF NoCopy, Copy, Inherits
<1>5. \A err : Return(err) => Held /\ Inherits(my'.obj)
  BY <1>2, <1>4 DEF Return
<1>6. \A obj : my'.obj = obj /\ obj.artifacts = my.obj.artifacts => Inherits(my'.obj)
  BY DEF Inherits
<1>7. CASE Handle
  <2>1. \A key, g : StartBatch(key, g) => Held /\ Inherits(my'.obj)
    <3> TAKE key, g
    <3> HAVE StartBatch(key, g)
    <3> DEFINE mentioned == {c \in ComponentBuilds : seenCB[c].obj.artifacts[g] # "none"}
    <3>1. CASE mentioned = {}
      BY <1>2, <1>3, <3>1 DEF StartBatch, Ignore
    <3>2. CASE mentioned # {}
      BY <1>3, <3>2 DEF StartBatch, Inherits
    <3> QED
      BY <3>1, <3>2
  <2>2. ASSUME NEW c \in DOMAIN batch, PickListed(c) PROVE Held /\ Inherits(my'.obj)
    BY <2>2 DEF PickListed, Start, Inherits
  <2>3. ASSUME NEW c \in ComponentBuilds, UNCHANGED batch,
               my' = seenCB[c] \/ my' = [seenCB[c] EXCEPT !.obj.notified = TRUE]
        PROVE  Held /\ Inherits(my'.obj)
    <3>1. my'.obj.artifacts = seenCB[c].obj.artifacts
      BY <1>1, <2>3 DEF Copies, ComponentBuildObjects
    <3> QED
      BY <1>2, <2>3, <3>1 DEF Inherits
  <2> QED
    BY <1>2, <1>3, <1>7, <2>1, <2>2, <2>3
       DEF Handle, TakeComponentBuild, PickListed, TakeArtifactBuild,
           TakeRunningTaskRun, TakeEndedTaskRun, EndedTaskRunUnlisted, Ignore, Start,
           TakeRunningPipelineRun, TakeFailedPipelineRun, TakeSucceededPipelineRun,
           DispatchFails
<1>8. CASE Loop
  <2>1. ASSUME NEW g \in Unreached, NEW entry, Enter(g, entry)
        PROVE  Held /\ my'.obj = Entered(my.obj, g, entry)
    BY <1>1, <1>2, <2>1 DEF Enter, Copies
  <2>2. ASSUME NEW g \in Unreached, FoundArtifact(g)
        PROVE  Held /\ FoundArtifact(g) /\ my'.obj = Entered(my.obj, g, SeenEntry(g))
    BY <2>1, <2>2 DEF FoundArtifact
  <2>3. ASSUME NEW g \in Unreached, UnreadableArtifact(g) \/ CreateArtifactBuild(g)
        PROVE  Held /\ \E entry \in {"pending", "built"} : my'.obj = Entered(my.obj, g, entry)
    BY <2>1, <2>3 DEF UnreadableArtifact, CreateArtifactBuild
  <2>4. CASE ConfigMissing
    <3>1. my'.obj.artifacts = my.obj.artifacts /\ UNCHANGED batch
      BY <1>1, <2>4 DEF ConfigMissing, Copies, ComponentBuildObjects
    <3> QED
      BY <1>2, <3>1 DEF Inherits
  <2>5. CASE ConfigFound
    <3>1. my'.obj.artifacts = [g \in Artifacts |-> "none"] /\ UNCHANGED batch
      BY <1>1, <2>5 DEF ConfigFound, Copies, ComponentBuildObjects
    <3> QED
      BY <1>2, <3>1 DEF Inherits
  <2>6. CASE ConfigUnreadable \/ (\E g \in Unreached : CreateArtifactBuildFails(g)
                                              \/ CreateArtifactBuildUnanswered(g))
    BY <1>5, <2>6
       DEF ConfigUnreadable, CreateArtifactBuildFails, CreateArtifactBuildUnanswered
  <2>7. CASE DeployArtifact \/ DeployNothing
    BY <1>2, <1>3, <2>7 DEF DeployArtifact, DeployNothing
  <2> QED
    BY <1>8, <2>2, <2>3, <2>4, <2>5, <2>6, <2>7 DEF Loop
<1>9. CASE Finish
  <2>1. CASE StillOutstanding \/ SettleSilently \/ SettleAndNotify
    <3>1. CASE StillOutstanding
      BY <1>1, <3>1 DEF StillOutstanding, Copies, ComponentBuildObjects, Inherits
    <3>2. CASE SettleSilently \/ SettleAndNotify
      <4>1. my' = [my EXCEPT !.obj.state = Verdict(my.obj)] /\ UNCHANGED batch
        BY <3>2 DEF SettleSilently, SettleAndNotify
      <4>2. my'.obj.artifacts = my.obj.artifacts
        BY <1>1, <4>1 DEF Copies, ComponentBuildObjects
      <4> QED
        BY <1>2, <4>1, <4>2 DEF Inherits
    <3> QED
      BY <2>1, <3>1, <3>2
  <2>2. CASE NotifyFails \/ NotifyUnanswered \/ SaveStatus \/ SaveStatusFails
    BY <1>5, <2>2 DEF NotifyFails, NotifyUnanswered, SaveStatus, SaveStatusFails
  <2> QED
    BY <1>9, <2>1, <2>2 DEF Finish
<1>10. ASSUME NEW b \in ComponentBuilds, NEW spec \in EditedSpecs, Edit(b, spec)
       PROVE  Held /\ Inherits(my'.obj)
  BY <1>10, OutdatedInherits DEF Edit, Outdate, Inherits
<1>11. CASE Restart
  BY <1>4, <1>11 DEF Restart, NoBatch
<1> QED
  BY <1>2, <1>3, <1>7, <1>8, <1>9, <1>10, <1>11 DEF Next, Worker, IdleResync

LEMMA SeenInv ==
  ASSUME SafeInv, EntriesAreSeen, Next
  PROVE  EntriesAreSeen'
<1> USE DEF SafeInv, SharedInv, LocalInv
<1>1. SeenSettled \subseteq SeenSettled'
  BY SeenGrows, BuildSteps, DeploymentSteps, CacheSteps
<1>2. ASSUME NEW obj, OnlySeen(obj)
      PROVE  \A g \in Artifacts : obj.artifacts[g] = "deployed" => g \in SeenSettled'
  BY <1>1, <1>2 DEF OnlySeen
<1>3. /\ \A c \in ComponentBuilds : /\ OnlySeen(componentBuild'[c])
                                    /\ OnlySeen(seenCB'[c].obj)
      /\ \A c \in DOMAIN batch' : OnlySeen(batch'[c].obj)
  BY StoredInherit, HeldInherit, InheritedIsSeen
<1>4. OnlySeen(my'.obj)
  <2>1. /\ my.obj \in ComponentBuildObjects /\ OnlySeen(my.obj)
        /\ Unreached \subseteq Artifacts
    BY CopyTypes DEF TypeOK, WorkerTypeOK, EntriesAreSeen, Unreached
  <2>2. ASSUME NEW g \in Unreached, NEW entry, my'.obj = Entered(my.obj, g, entry),
               entry = "deployed" => g \in SeenSettled
        PROVE  OnlySeen(my'.obj)
    BY <2>1, <2>2 DEF Entered, OnlySeen, ComponentBuildObjects
  <2>3. ASSUME NEW g \in Unreached, FoundArtifact(g), my'.obj = Entered(my.obj, g, SeenEntry(g))
        PROVE  OnlySeen(my'.obj)
    BY <2>1, <2>2, <2>3, SeenEntryIsSound
  <2> QED
    BY <2>2, <2>3, HeldInherit, InheritedIsSeen
<1> QED
  BY <1>2, <1>3, <1>4 DEF EntriesAreSeen, OnlySeen
-----------------------------------------------------------------------------
(* A finished ComponentBuild stands while every read is answered.          *)

\* A disturbance is only ever used up.
LEMMA BudgetSteps ==
  ASSUME TypeOK, Next
  PROVE  /\ budget'["read"] \in Nat /\ budget'["read"] <= budget["read"]
         /\ Spend("read") => budget'["read"] < budget["read"]
<1>1. budget \in [Disturbances -> Nat] /\ "read" \in Disturbances
  BY DEF TypeOK, ClusterTypeOK, Disturbances
<1>2. ASSUME NEW kind, Spend(kind)
      PROVE  /\ budget'["read"] \in Nat /\ budget'["read"] <= budget["read"]
             /\ kind = "read" => budget'["read"] < budget["read"]
  BY <1>1, <1>2 DEF Spend
<1>3. UNCHANGED budget \/ \E kind : Spend(kind)
  <2>1. CASE Handle
    BY <2>1 DEF Handle, TakeComponentBuild, PickListed, TakeArtifactBuild,
         TakeRunningTaskRun, TakeEndedTaskRun, EndedTaskRunUnlisted, Annotate,
         TakeRunningPipelineRun, TakeFailedPipelineRun, TakeSucceededPipelineRun,
         DispatchFails
  <2>2. CASE Loop
    BY <2>2 DEF Loop, ConfigUnreadable, ConfigMissing, ConfigFound, FoundArtifact,
         UnreadableArtifact, CreateArtifactBuild, CreateArtifactBuildFails,
         CreateArtifactBuildUnanswered, DeployArtifact, DeployNothing
  <2>3. CASE Finish
    BY <2>3 DEF Finish, StillOutstanding, SettleSilently, SettleAndNotify, NotifyFails,
         NotifyUnanswered, SaveStatus, SaveStatusFails
  <2>4. CASE Settling \/ \E g \in Artifacts : RetryBuild(g)
    BY <2>4 DEF Settling, CreateConfig, BuildEnds, TaskRunEnds, PipelineRunEnds, RetryBuild
  <2>5. CASE \/ \E c \in ComponentBuilds, spec \in EditedSpecs : Edit(c, spec)
             \/ Restart \/ IdleResync
    BY <2>5 DEF Edit, EditSpec, Restart, Relist, IdleResync, Resync
  <2> QED
    BY <2>1, <2>2, <2>3, <2>4, <2>5, Frames DEF Next, Worker
<1> QED
  BY <1>1, <1>2, <1>3

\* What a finished version lists was seen to be deployed.
LEMMA FinishedIsSeen ==
  ASSUME NEW c, NEW obj \in ComponentBuildObjects, Finished(obj), SoundVersion(c, obj),
         OnlySeen(obj)
  PROVE  Listed(obj.spec) \subseteq SeenSettled
<1>1. /\ Counted(obj, specs[c]) /\ obj.outstanding \in Nat /\ ~(obj.outstanding > 0)
      /\ Verdict(obj) = "Complete"
  BY DEF Finished, SoundVersion, Sound, ComponentBuildObjects
<1>2. Outstanding(obj) = {}
  BY <1>1, NoneOutstanding
<1>3. ASSUME NEW g \in Listed(obj.spec) PROVE g \in SeenSettled
  <2>1. g \in Artifacts /\ obj.artifacts[g] # "none" /\ obj.artifacts[g] \in EntryStates
    BY DEF Finished, Recorded, ComponentBuildObjects
  <2>2. obj.artifacts[g] = "deployed"
    BY <1>1, <1>2, <2>1 DEF Outstanding, Verdict, EntryStates
  <2> QED
    BY <2>1, <2>2 DEF OnlySeen
<1> QED
  BY <1>3

\* What FinishedStands says of the worker.
Stands ==
  /\ pc \in {"artifacts", "deploy"} =>
       /\ \A g \in Artifacts : my.obj.artifacts[g] \in {"none", "deployed"}
       /\ my.obj.outstanding = 0
  /\ pc = "save" => my.obj.state = "Complete"

LEMMA StandsInHandle ==
  ASSUME TypeOK, CachedIsSound, Handle, my'.fresh, Finished(componentBuild'[cur']),
         pc' \in {"artifacts", "deploy", "save"}, pc \notin {"artifacts", "deploy", "save"}
  PROVE  Stands'
<1>1. UNCHANGED componentBuild
  BY Frames
<1>2. PICK c \in ComponentBuilds : \E n \in DOMAIN seenPR[c] : TakeSucceededPipelineRun(c, n)
  BY DEF Handle, TakeComponentBuild, PickListed, TakeArtifactBuild,
         TakeRunningTaskRun, TakeEndedTaskRun, EndedTaskRunUnlisted, StartBatch, Start,
         TakeRunningPipelineRun, TakeFailedPipelineRun, DispatchFails, Ignore
<1>3. seenCB[c] \in Copies /\ seenCB[c].obj \in ComponentBuildObjects
  BY CopyTypes DEF TypeOK, ClusterTypeOK
<1>4. /\ pc' = "save" /\ cur' = c /\ my'.fresh = seenCB[c].fresh
      /\ my'.obj.state = seenCB[c].obj.state
  BY <1>2, <1>3 DEF TakeSucceededPipelineRun, Start, Copies, ComponentBuildObjects
<1> QED
  BY <1>1, <1>4 DEF Stands, CachedIsSound, Finished

LEMMA StandsInLoop ==
  ASSUME TypeOK, StoredIsSound, WorkIsSound, EntriesAreSeen, Loop, ~Spend("read"),
         my.fresh, Finished(componentBuild[cur]),
         pc \in {"artifacts", "deploy"} => Stands,
         pc' \in {"artifacts", "deploy", "save"}
  PROVE  Stands'
<1>1. /\ my \in Copies /\ my.obj \in ComponentBuildObjects
      /\ Unreached \subseteq Artifacts /\ left \in [Artifacts -> Nat]
      /\ pc \in {"config", "artifacts", "deploy"} => cur \in ComponentBuilds
  BY CopyTypes DEF TypeOK, WorkerTypeOK, Unreached
<1>2. \A err : ~Return(err)
  BY DEF Return
<1>3. CASE ConfigMissing
  BY <1>1, <1>3 DEF ConfigMissing, Stands, WorkIsSound, Finished, Copies,
                    ComponentBuildObjects
<1>4. CASE ConfigFound
  BY <1>1, <1>4 DEF ConfigFound, Stands, Copies, ComponentBuildObjects
<1>5. ASSUME NEW g \in Unreached, pc = "artifacts"
      PROVE  g \in SeenSettled
  <2>1. g \in Listed(componentBuild[cur].spec) /\ cur \in ComponentBuilds
    <3>1. /\ cur \in ComponentBuilds /\ my.obj.spec = componentBuild[cur].spec
          /\ g \in Artifacts /\ left[g] \in Nat /\ left[g] > 0
          /\ left[g] <= my.obj.spec.gavs[g]
      BY <1>1, <1>5 DEF WorkIsSound, SoundWork, SoundSoFar, Unreached
    <3>2. my.obj.spec.gavs[g] \in Nat
      BY <1>1, <3>1 DEF ComponentBuildObjects, Specs
    <3> QED
      BY <3>1, <3>2 DEF Listed
  <2> QED
    BY <2>1, FinishedIsSeen DEF StoredIsSound, EntriesAreSeen, TypeOK, ClusterTypeOK
<1>6. ASSUME NEW g \in Unreached, FoundArtifact(g) PROVE Stands'
  <2>1. SeenEntry(g) = "deployed"
    BY <1>5, <1>6 DEF FoundArtifact, SeenSettled, SeenEntry, SeenDeployed
  <2>2. my' = [my EXCEPT !.obj = Entered(my.obj, g, "deployed")] /\ pc = "artifacts"
        /\ pc' = "artifacts"
    BY <1>6, <2>1 DEF FoundArtifact, Enter
  <2>3. /\ my'.obj.artifacts = [my.obj.artifacts EXCEPT ![g] = "deployed"]
        /\ my'.obj.outstanding = my.obj.outstanding
    <3>1. my'.obj = Entered(my.obj, g, "deployed")
      BY <1>1, <2>2 DEF Copies
    <3>2. my.obj.outstanding \in Nat
      BY <1>1 DEF ComponentBuildObjects
    <3> QED
      BY <1>1, <3>1, <3>2 DEF Entered, ComponentBuildObjects
  <2>4. my.obj.artifacts \in [Artifacts -> EntryStates]
    BY <1>1 DEF ComponentBuildObjects
  <2> QED
    BY <2>2, <2>3, <2>4 DEF Stands
<1>7. ASSUME NEW g \in Unreached, CreateArtifactBuild(g) PROVE FALSE
  BY <1>5, <1>7 DEF CreateArtifactBuild, SeenSettled
<1>8. CASE DeployArtifact \/ DeployNothing
  BY <1>8 DEF DeployArtifact, DeployNothing, Stands
<1> QED
  BY <1>2, <1>3, <1>4, <1>6, <1>7, <1>8
     DEF Loop, ConfigUnreadable, UnreadableArtifact, CreateArtifactBuildFails,
         CreateArtifactBuildUnanswered

LEMMA StandsInFinish ==
  ASSUME TypeOK, WorkIsSound, Finish, pc \in {"artifacts", "deploy"} => Stands,
         pc' \in {"artifacts", "deploy", "save"}
  PROVE  Stands'
<1>1. my \in Copies /\ my.obj \in ComponentBuildObjects
  BY CopyTypes DEF TypeOK, WorkerTypeOK
<1>2. \A err : ~Return(err)
  BY DEF Return
<1>3. pc = "artifacts" => my.obj.outstanding = 0 /\ Verdict(my.obj) = "Complete"
  BY DEF Stands, Verdict
<1>4. CASE StillOutstanding
  BY <1>3, <1>4 DEF StillOutstanding
<1>5. CASE SettleSilently \/ SettleAndNotify
  BY <1>1, <1>3, <1>5 DEF SettleSilently, SettleAndNotify, Settled, Stands, Copies,
                          ComponentBuildObjects
<1> QED
  BY <1>2, <1>4, <1>5 DEF Finish, NotifyFails, NotifyUnanswered, SaveStatus, SaveStatusFails

LEMMA FinishedInv ==
  ASSUME TypeOK, StoredIsSound, CachedIsSound, WorkIsSound, EntriesAreSeen,
         FinishedStands, Next
  PROVE  FinishedStands'
<1>1. /\ budget["read"] \in Nat /\ Budget["read"] \in Nat
      /\ budget'["read"] \in Nat /\ budget'["read"] <= budget["read"]
      /\ Spend("read") => budget'["read"] < budget["read"]
      /\ budget["read"] <= Budget["read"]
  BY Assumptions, BudgetSteps
     DEF TypeOK, ClusterTypeOK, Disturbances, FinishedStands
<1>2. SUFFICES ASSUME pc' \in {"artifacts", "deploy", "save"}, my'.fresh,
                      Finished(componentBuild'[cur']), budget'["read"] = Budget["read"]
               PROVE  Stands'
  BY <1>1 DEF FinishedStands, Stands
<1>3. budget["read"] = Budget["read"] /\ ~Spend("read")
  BY <1>1, <1>2
<1>4. /\ pc \in {"artifacts", "deploy", "save"} /\ my.fresh
           /\ Finished(componentBuild[cur]) => Stands
  BY <1>3 DEF FinishedStands, Stands
<1>5. CASE Handle
  <2>1. pc \notin {"artifacts", "deploy", "save"}
    BY <1>5 DEF Handle, TakeComponentBuild, PickListed, TakeArtifactBuild,
         TakeRunningTaskRun, TakeEndedTaskRun, EndedTaskRunUnlisted, Take,
         TakeRunningPipelineRun, TakeFailedPipelineRun, TakeSucceededPipelineRun,
         DispatchFails
  <2> QED
    BY <1>2, <1>5, <2>1, StandsInHandle
\* The other steps of the worker leave the object and its copy as current as
\* they were.
<1>6. CASE Loop \/ Finish
  <2>1. ~\E err : Return(err)
    BY <1>2 DEF Return
  <2>2. UNCHANGED <<cur, componentBuild>> /\ my'.fresh = my.fresh
    <3>1. my \in Copies
      BY DEF TypeOK, WorkerTypeOK
    <3>2. CASE Loop
      BY <2>1, <3>1, <3>2
         DEF Loop, ConfigUnreadable, ConfigMissing, ConfigFound, FoundArtifact, Enter,
             UnreadableArtifact, CreateArtifactBuild, CreateArtifactBuildFails,
             CreateArtifactBuildUnanswered, DeployArtifact, DeployNothing, Copies
    <3>3. CASE Finish
      BY <2>1, <3>1, <3>3
         DEF Finish, StillOutstanding, SettleSilently, SettleAndNotify, NotifyFails,
             NotifyUnanswered, SaveStatus, SaveStatusFails, Copies
    <3> QED
      BY <1>6, <3>2, <3>3
  <2> QED
    BY <1>2, <1>3, <1>4, <1>6, <2>2, StandsInLoop, StandsInFinish
<1>7. CASE UNCHANGED <<worker, componentBuild>>
  BY <1>2, <1>4, <1>7 DEF Stands
<1>8. ASSUME NEW b \in ComponentBuilds, NEW spec \in EditedSpecs, Edit(b, spec)
      PROVE  Stands'
  <2>1. cur # b /\ my' = my /\ UNCHANGED <<pc, cur>>
    BY <1>2, <1>8, OutdatedIsSound DEF Edit, TypeOK, WorkerTypeOK
  <2>2. componentBuild'[cur] = componentBuild[cur]
    BY <1>2, <1>8, <2>1 DEF Edit, EditSpec, TypeOK, ClusterTypeOK, WorkerTypeOK
  <2> QED
    BY <1>2, <1>4, <2>1, <2>2 DEF Stands
<1>9. CASE Restart
  BY <1>2, <1>9 DEF Restart
<1> QED
  BY <1>5, <1>6, <1>7, <1>8, <1>9, Frames DEF Next, Worker, IdleResync, Resync

-----------------------------------------------------------------------------
(* The invariant is inductive.                                             *)

LEMMA InitInv == Init => IInv
<1> SUFFICES ASSUME Init PROVE IInv
  OBVIOUS
<1>1. TypeOK
  BY InitTypes
<1>2. /\ \A g \in Artifacts : artifactBuild[g] = "absent" /\ seenAB[g] = "absent"
      /\ \A d \in DependencyBuilds : /\ taskRuns[d] = <<>> /\ seenTR[d] = <<>>
                                     /\ ~dependencyBuild[d] /\ ~seenDB[d]
      /\ \A c \in ComponentBuilds : /\ pipelineRuns[c] = <<>> /\ seenPR[c] = <<>>
                                    /\ componentBuild[c] = NewComponentBuild(FirstSpec(c))
                                    /\ specs[c] = {FirstSpec(c)}
                                    /\ seenCB[c] = Copy(componentBuild[c])
      /\ seenRA = {}
  BY DEF Init, ClusterInit
<1>3. DOMAIN <<>> = {}
  OBVIOUS
<1>4. CachesAreOld
  BY <1>2, <1>3 DEF CachesAreOld
<1>5. MarksAreTrue /\ ReportsAreTrue
  BY <1>2, <1>3 DEF MarksAreTrue, ReportsAreTrue
<1>6. \A c \in ComponentBuilds : SoundVersion(c, componentBuild[c])
  BY <1>2, NewIsSound DEF SoundVersion
<1>7. StoredIsSound /\ CachedIsSound
  <2>1. \A c \in ComponentBuilds : seenCB[c].obj = componentBuild[c]
    BY DEF Init, ClusterInit, Copy
  <2> QED
    BY <1>6, <2>1 DEF StoredIsSound, CachedIsSound
<1>8. BatchIsSound /\ WorkIsSound
  BY DEF Init, BatchIsSound, WorkIsSound, NoBatch
<1>9. FinishedStands
  BY Assumptions DEF Init, ClusterInit, Disturbances, FinishedStands
<1>10. EntriesAreSeen
  BY NewHasNoEntries DEF Init, ClusterInit, EntriesAreSeen, OnlySeen, NoCopy, NoBatch, Copy
<1> QED
  BY <1>1, <1>4, <1>5, <1>7, <1>8, <1>9, <1>10 DEF IInv, SafeInv, SharedInv, LocalInv

\* Nothing changes for anyone who does not take part in the step.
LEMMA Undisturbed ==
  ASSUME UNCHANGED <<api, history>>
  PROVE  /\ SharedInv => SharedInv'
         /\ LocalInv /\ UNCHANGED <<caches, worker>> => LocalInv'
<1>1. SettledArtifacts' = SettledArtifacts /\ Reached' = Reached
  BY DEF SettledArtifacts, Reached
<1>2. \A c, obj : SoundVersion(c, obj)' <=> SoundVersion(c, obj)
  BY <1>1 DEF SoundVersion
<1>3. ASSUME SharedInv PROVE SharedInv'
  BY <1>1, <1>2, <1>3 DEF SharedInv, MarksAreTrue, ReportsAreTrue, StoredIsSound
<1>4. ASSUME LocalInv, UNCHANGED <<caches, worker>> PROVE LocalInv'
  <2>1. CachesAreOld'
    BY <1>4 DEF LocalInv, CachesAreOld, RebuiltArtifacts
  <2>2. CachedIsSound'
    BY <1>1, <1>4 DEF LocalInv, CachedIsSound, SoundVersion
  <2>3. BatchIsSound' /\ WorkIsSound'
    BY <1>1, <1>4 DEF LocalInv, BatchIsSound, WorkIsSound, SoundVersion, SoundWork
  <2> QED
    BY <2>1, <2>2, <2>3 DEF LocalInv
<1> QED
  BY <1>3, <1>4

LEMMA SafeSteps == SafeInv /\ [Next]_vars => SafeInv'
<1> SUFFICES ASSUME SafeInv, [Next]_vars PROVE SafeInv'
  OBVIOUS
<1> USE DEF SafeInv, SharedInv, LocalInv
<1>1. CASE UNCHANGED vars
  BY <1>1, NextTypes, Undisturbed
<1>2. CASE Next
  <2>1. TypeOK'
    BY <1>2, NextTypes
  <2>2. /\ BuildsAdvance /\ DeploymentsAdvance /\ SpecsGrow /\ CachesMove
        /\ NotificationsAdvance /\ NotificationsStay
    BY <1>2, BuildSteps, DeploymentSteps, NotificationSteps, SpecSteps, CacheSteps
       DEF NotificationsAdvance, NotificationsStay
  <2>3. CachesAreOld' /\ MarksAreTrue'
    BY <2>2, CachesInv, MarksInv
  <2>4. Grows
    BY <2>2, GrowthSteps
  <2>5. ReportsAreTrue' /\ StoredIsSound' /\ CachedIsSound'
    BY <1>2, <2>2, <2>4, ReportsInv, StoredInv, CachedInv
  <2>6. BatchIsSound' /\ WorkIsSound'
    <3>1. CASE Worker
      BY <2>4, <3>1, HandleKeeps, LoopKeeps, FinishKeeps DEF Worker
    <3>2. CASE (Sync \/ Settling \/ \E g \in Artifacts : RetryBuild(g))
               /\ UNCHANGED worker
      BY <2>4, <3>2, OthersKeep, Frames
    <3>3. CASE \E c \in ComponentBuilds, spec \in EditedSpecs : Edit(c, spec)
      BY <2>4, <3>3, EditLeavesBehind, BehindKeeps
    <3>4. CASE Restart
      BY <3>4, WorkDone DEF Restart, BatchIsSound, NoBatch, Working
    <3>5. CASE IdleResync
      BY <2>4, <3>5, OthersKeep DEF IdleResync, Resync
    <3> QED
      BY <1>2, <3>1, <3>2, <3>3, <3>4, <3>5 DEF Next
  <2> QED
    BY <2>1, <2>3, <2>5, <2>6
<1> QED
  BY <1>1, <1>2

LEMMA NextInv == IInv /\ [Next]_vars => IInv'
<1> SUFFICES ASSUME IInv, [Next]_vars PROVE IInv'
  OBVIOUS
<1> USE DEF IInv
<1>1. SafeInv'
  BY SafeSteps
<1>2. CASE UNCHANGED vars
  BY <1>1, <1>2 DEF EntriesAreSeen, OnlySeen, SeenSettled, FinishedStands
<1>3. CASE Next
  BY <1>1, <1>3, SeenInv, FinishedInv DEF SafeInv, SharedInv, LocalInv
<1> QED
  BY <1>2, <1>3

\* IInv is an invariant of the reconciler, whatever is lost, refused, retried,
\* edited or restarted on the way.
THEOREM Invariance == Spec => []IInv
<1> QED
  BY InitInv, NextInv, PTL DEF Spec

-----------------------------------------------------------------------------
(* What follows from it.                                                   *)

LEMMA SharedStatus ==
  ASSUME SharedInv
  PROVE  StatusConsistent /\ NotifiedIsDelivered
BY DEF SharedInv, StoredIsSound, SoundVersion, Sound, Counted, StatusConsistent,
       Outstanding, Reached, NotifiedIsDelivered

\* The stored counter, state and entries of a ComponentBuild always agree; where
\* it was made to list a GAV twice, the counter may be above the entries.
THEOREM StatusIsConsistent == Spec => []StatusConsistent
<1>1. IInv => StatusConsistent
  BY SharedStatus DEF IInv, SafeInv
<1> QED
  BY <1>1, Invariance, PTL

LEMMA SettledIsAvailable ==
  ASSUME MarksAreTrue, NEW g \in SettledArtifacts
  PROVE  Available(g)
<1>1. g \in Artifacts /\ BuiltBy[g] \in DependencyBuilds /\ dependencyBuild[BuiltBy[g]]
  BY Assumptions DEF SettledArtifacts
<1> QED
  BY <1>1 DEF MarksAreTrue, Available

LEMMA EarnedVerdicts ==
  ASSUME TypeOK, SharedInv
  PROVE  VerdictIsEarned
<1> SUFFICES ASSUME NEW c \in ComponentBuilds,
                    componentBuild[c].state \in {"Failed", "Complete"}
             PROVE  \E spec \in specs[c] :
                      /\ Listed(spec) = Recorded(componentBuild[c])
                      /\ componentBuild[c].state = "Complete" =>
                           \A g \in Listed(spec) : Available(g)
                      /\ componentBuild[c].state = "Failed" =>
                           \E g \in Listed(spec) \cap broken :
                             componentBuild[c].artifacts[g] = "failed"
  BY DEF VerdictIsEarned, Recorded
<1> DEFINE cb == componentBuild[c]
<1>1. /\ cb \in ComponentBuildObjects /\ MarksAreTrue
      /\ Sound(c, cb, specs[c], SettledArtifacts, broken, Reached)
  BY DEF SharedInv, StoredIsSound, SoundVersion, TypeOK, ClusterTypeOK
<1> HIDE DEF cb
<1>2. cb.state \in {"Failed", "Complete"}
  BY DEF cb
<1>3. PICK spec \in specs[c] : Recorded(cb) = Listed(spec)
  BY <1>1, <1>2 DEF Sound
<1>4. cb.state = Verdict(cb) /\ cb.outstanding = 0
  BY <1>1, <1>2 DEF Sound, ComponentBuildObjects
<1>5. Outstanding(cb) = {}
  BY <1>1, <1>4, NoneOutstanding DEF Sound
<1>6. ASSUME cb.state = "Complete", NEW g \in Listed(spec) PROVE Available(g)
  <2>1. g \in Artifacts /\ cb.artifacts[g] # "none" /\ cb.artifacts[g] \in EntryStates
    BY <1>1, <1>3 DEF Recorded, ComponentBuildObjects
  <2>2. cb.artifacts[g] = "deployed"
    BY <1>4, <1>5, <1>6, <2>1 DEF Outstanding, Verdict, EntryStates
  <2> QED
    BY <1>1, <2>1, <2>2, SettledIsAvailable DEF Sound, EntriesSound
<1>7. ASSUME cb.state = "Failed"
      PROVE  \E g \in Listed(spec) \cap broken : cb.artifacts[g] = "failed"
  <2>1. PICK g \in Artifacts : cb.artifacts[g] = "failed"
    BY <1>4, <1>7 DEF Verdict
  <2>2. g \in Recorded(cb) /\ g \in broken
    BY <1>1, <2>1 DEF Sound, EntriesSound, Recorded
  <2> QED
    BY <1>3, <2>1, <2>2
<1> QED
  BY <1>3, <1>6, <1>7 DEF cb

\* A stored verdict is one on a whole spec that the ComponentBuild has had:
\* "Complete" has every artifact of it available, "Failed" one whose build failed.
THEOREM VerdictsAreEarned == Spec => []VerdictIsEarned
<1>1. IInv => VerdictIsEarned
  BY EarnedVerdicts DEF IInv, SafeInv
<1> QED
  BY <1>1, Invariance, PTL

LEMMA TrueReports ==
  ASSUME SharedInv
  PROVE  ReportIsTrue
BY SettledIsAvailable DEF SharedInv, ReportsAreTrue, ReportIsTrue

\* A pull request is only told what is so, of a spec that named it.
THEOREM ReportsAreEarned == Spec => []ReportIsTrue
<1>1. IInv => ReportIsTrue
  BY TrueReports DEF IInv, SafeInv
<1> QED
  BY <1>1, Invariance, PTL

\* A stored ResultNotified stands for a notification that has succeeded.
THEOREM NotifiedMeansDelivered == Spec => []NotifiedIsDelivered
<1>1. IInv => NotifiedIsDelivered
  BY SharedStatus DEF IInv, SafeInv
<1> QED
  BY <1>1, Invariance, PTL

MarksKept ==
  \A c \in ComponentBuilds :
    componentBuild[c].notified /\ ~componentBuild'[c].notified =>
      componentBuild'[c].state = "InProgress"

LEMMA NotifiedSteps ==
  ASSUME SafeInv, Next
  PROVE  MarksKept
<1>1. componentBuild \in [ComponentBuilds -> ComponentBuildObjects]
  BY DEF SafeInv, TypeOK, ClusterTypeOK
<1>2. CASE SaveStatus
  <2>1. cur \in ComponentBuilds /\ Reconsidered(my.obj, componentBuild[cur])
    BY <1>2 DEF SaveStatus, UpdateStatus, SafeInv, LocalInv, TypeOK, WorkerTypeOK,
                WorkIsSound
  <2>2. componentBuild' = [componentBuild EXCEPT ![cur] = my.obj]
    BY <1>2 DEF SaveStatus, UpdateStatus
  <2> QED
    BY <1>1, <2>1, <2>2 DEF Reconsidered, MarksKept
<1>3. CASE \E c \in ComponentBuilds, spec \in EditedSpecs : Edit(c, spec)
  BY <1>1, <1>3 DEF Edit, EditSpec, ComponentBuildObjects, MarksKept
<1> QED
  BY <1>2, <1>3, ComponentBuildSteps DEF MarksKept

\* What any other process may rely on in a step of this one.
LEMMA ApiSteps ==
  ASSUME SafeInv, Next
  PROVE  BuildsAdvance /\ DeploymentsAdvance /\ NotificationsStay /\ SpecsGrow
<1> USE DEF SafeInv, SharedInv, LocalInv
<1> QED
  BY BuildSteps, DeploymentSteps, NotificationSteps, SpecSteps
     DEF NotificationsAdvance, NotificationsStay

\* No handler takes ResultNotified back by saving an older copy.
THEOREM NotifiedStays == Spec => NotifiedIsKept
<1>1. IInv /\ [Next]_vars => [MarksKept]_vars
  BY NotifiedSteps DEF IInv
<1> QED
  BY <1>1, Invariance, PTL DEF Spec, NotifiedIsKept, MarksKept

\* A complete ComponentBuild is not taken back, unless its spec lists more or a
\* read has failed: no stale cache, retry or restart makes the operator doubt it.
THEOREM CompleteStays == Spec => CompleteIsKept
<1> DEFINE Kept == \A c \in ComponentBuilds : LET cb == componentBuild[c] IN
                     cb.state = "Complete" /\ componentBuild'[c].state # "Complete" =>
                       \/ \E g \in Listed(cb.spec) : cb.artifacts[g] = "none"
                       \/ budget["read"] < Budget["read"]
<1>1. ASSUME IInv, Next PROVE Kept
  <2>1. /\ componentBuild \in [ComponentBuilds -> ComponentBuildObjects]
        /\ budget["read"] \in Nat /\ Budget["read"] \in Nat
    BY <1>1, Assumptions DEF IInv, SafeInv, TypeOK, ClusterTypeOK, Disturbances
  <2>2. CASE SaveStatus
    <3>1. ASSUME NEW c \in ComponentBuilds, componentBuild[c].state = "Complete",
                 componentBuild'[c].state # "Complete",
                 \A g \in Listed(componentBuild[c].spec) :
                   componentBuild[c].artifacts[g] # "none"
          PROVE  budget["read"] < Budget["read"]
      <4>1. pc = "save" /\ my.fresh /\ cur = c /\ my.obj.state # "Complete"
        BY <2>1, <2>2, <3>1 DEF SaveStatus, UpdateStatus
      <4>2. Finished(componentBuild[cur])
        BY <2>1, <3>1, <4>1 DEF Finished, Recorded, Listed, ComponentBuildObjects
      <4>3. FinishedStands
        BY <1>1 DEF IInv
      <4> QED
        BY <2>1, <4>1, <4>2, <4>3 DEF FinishedStands
    <3> QED
      BY <3>1
  <2>3. CASE \E c \in ComponentBuilds, spec \in EditedSpecs : Edit(c, spec)
    BY <2>1, <2>3 DEF Edit, EditSpec, ComponentBuildObjects
  <2> QED
    BY <1>1, <2>2, <2>3, ComponentBuildSteps
<1>2. IInv /\ [Next]_vars => [Kept]_vars
  BY <1>1
<1> QED
  BY <1>2, Invariance, PTL DEF Spec, CompleteIsKept

=============================================================================

--------------------------- MODULE ReconcilerTypes ---------------------------
(***************************************************************************)
(* Type correctness of Reconciler, for all values of the constants.        *)
(***************************************************************************)
EXTENDS Reconciler, SequenceTheorems, TLAPS

USE DEF vars, cluster, worker, api, caches, history

LEMMA Assumptions ==
  /\ BuiltBy \in [Artifacts -> DependencyBuilds]
  /\ Wanted \in [ComponentBuilds -> SUBSET Artifacts]
  /\ MaxTaskRuns \in Nat /\ MaxPipelineRuns \in Nat
  /\ Budget \in [Disturbances -> Nat]
BY BuiltByType, WantedType, BoundsType

LEMMA SpendType ==
  ASSUME NEW kind \in Disturbances, budget \in [Disturbances -> Nat], Spend(kind)
  PROVE  budget' \in [Disturbances -> Nat]
BY DEF Spend

LEMMA NewComponentBuildType ==
  ASSUME NEW spec \in Specs
  PROVE  /\ NewComponentBuild(spec) \in ComponentBuildObjects
         /\ Copy(NewComponentBuild(spec)) \in Copies
BY DEF NewComponentBuild, ComponentBuildObjects, EntryStates,
       ComponentBuildStates, Copy, Copies

\* The specs that there are before the first edit.
LEMMA FirstSpecTypes ==
  /\ \A c \in ComponentBuilds : FirstSpec(c) \in Specs
  /\ NothingLeft \in [Artifacts -> Nat]
  /\ NoCopy \in Copies
<1>1. /\ \A c \in ComponentBuilds : FirstSpec(c) \in Specs
      /\ NothingLeft \in [Artifacts -> Nat]
      /\ [gavs |-> NothingLeft, pr |-> FALSE] \in Specs
  BY DEF FirstSpec, NothingLeft, Specs
<1> QED
  BY <1>1, NewComponentBuildType DEF NoCopy

LEMMA CopyTypes ==
  ASSUME NEW copy \in Copies
  PROVE  /\ copy.obj \in ComponentBuildObjects
         /\ copy.fresh \in BOOLEAN
         /\ Outdated(copy) \in Copies
BY DEF Copies, Outdated

\* A run that ends is still a run of its sequence.
LEMMA TaskRunSequences ==
  ASSUME NEW s \in Seq(TaskRuns), NEW n \in DOMAIN s, NEW status \in RunStates
  PROVE  /\ [s EXCEPT ![n].status = status] \in Seq(TaskRuns)
         /\ Len([s EXCEPT ![n].status = status]) = Len(s)
<1> DEFINE e == [s[n] EXCEPT !.status = status]
<1>1. n \in 1 .. Len(s)
  BY LenProperties
<1>2. s[n] \in TaskRuns
  BY <1>1, ElementOfSeq
<1>3. e \in TaskRuns
  BY <1>2 DEF TaskRuns
<1>4. [s EXCEPT ![n].status = status] = [s EXCEPT ![n] = e]
  OBVIOUS
<1> QED
  BY <1>1, <1>3, <1>4, ExceptSeq

LEMMA PipelineRunSequences ==
  ASSUME NEW s \in Seq(PipelineRuns), NEW n \in DOMAIN s, NEW status \in RunStates
  PROVE  /\ [s EXCEPT ![n].status = status] \in Seq(PipelineRuns)
         /\ Len([s EXCEPT ![n].status = status]) = Len(s)
<1> DEFINE e == [s[n] EXCEPT !.status = status]
<1>1. n \in 1 .. Len(s)
  BY LenProperties
<1>2. s[n] \in PipelineRuns
  BY <1>1, ElementOfSeq
<1>3. e \in PipelineRuns
  BY <1>2 DEF PipelineRuns
<1>4. [s EXCEPT ![n].status = status] = [s EXCEPT ![n] = e]
  OBVIOUS
<1> QED
  BY <1>1, <1>3, <1>4, ExceptSeq

\* Every key that a step puts in the queue is a key.
LEMMA KeyTypes ==
  /\ \A c \in ComponentBuilds : CBKey(c) \in Keys
  /\ \A g \in Artifacts : ABKey(g) \in Keys
  /\ \A d \in DependencyBuilds, n \in 1 .. MaxTaskRuns : TRKey(d, n) \in Keys
  /\ \A c \in ComponentBuilds, n \in 1 .. MaxPipelineRuns : PRKey(c, n) \in Keys
BY DEF Keys

LEMMA RunDomains ==
  ASSUME ClusterTypeOK
  PROVE  /\ \A d \in DependencyBuilds :
              /\ DOMAIN taskRuns[d] \subseteq 1 .. MaxTaskRuns
              /\ DOMAIN seenTR[d] \subseteq 1 .. MaxTaskRuns
         /\ \A c \in ComponentBuilds :
              /\ DOMAIN pipelineRuns[c] \subseteq 1 .. MaxPipelineRuns
              /\ DOMAIN seenPR[c] \subseteq 1 .. MaxPipelineRuns
BY LenProperties, Assumptions DEF ClusterTypeOK

LEMMA KeysOfTypes ==
  ASSUME NEW ab, NEW tr, NEW pr,
         \A d \in DependencyBuilds : DOMAIN tr[d] \subseteq 1 .. MaxTaskRuns,
         \A c \in ComponentBuilds : DOMAIN pr[c] \subseteq 1 .. MaxPipelineRuns
  PROVE  KeysOf(ab, tr, pr) \subseteq Keys
<1> DEFINE cbs == {CBKey(c) : c \in ComponentBuilds}
           abs == {ABKey(g) : g \in {h \in Artifacts : ab[h] # "absent"}}
           trs == UNION {{TRKey(d, n) : n \in DOMAIN tr[d]} : d \in DependencyBuilds}
           prs == UNION {{PRKey(c, n) : n \in DOMAIN pr[c]} : c \in ComponentBuilds}
<1>1. cbs \subseteq Keys /\ abs \subseteq Keys
  BY KeyTypes
<1>2. trs \subseteq Keys /\ prs \subseteq Keys
  BY KeyTypes
<1>3. KeysOf(ab, tr, pr) = cbs \cup abs \cup trs \cup prs
  BY DEF KeysOf
<1> HIDE DEF cbs, abs, trs, prs
<1> QED
  BY <1>1, <1>2, <1>3

LEMMA IdleTypes ==
  ASSUME pc = "idle" /\ req = NoRequest /\ batch = NoBatch,
         cur = Nobody /\ my = NoCopy /\ left = NothingLeft /\ gav = Nobody
  PROVE  WorkerTypeOK
BY FirstSpecTypes DEF WorkerTypeOK, NoBatch

LEMMA InitTypes == Init => TypeOK
<1> SUFFICES ASSUME Init PROVE TypeOK
  OBVIOUS
<1> USE DEF Init, ClusterInit
<1>1. WorkerTypeOK
  BY IdleTypes
<1>2. queue \in SUBSET Keys
  BY KeyTypes
<1>3. /\ componentBuild \in [ComponentBuilds -> ComponentBuildObjects]
      /\ seenCB \in [ComponentBuilds -> Copies]
      /\ specs \in [ComponentBuilds -> SUBSET Specs]
  BY NewComponentBuildType, FirstSpecTypes
<1>4. <<>> \in Seq(TaskRuns) /\ <<>> \in Seq(PipelineRuns) /\ Len(<<>>) = 0
  OBVIOUS
<1> QED
  BY <1>1, <1>2, <1>3, <1>4, Assumptions, ConfigType
     DEF TypeOK, ClusterTypeOK, BuildStates

\* What the steps of the handlers make of the working copy is a copy again.
LEMMA EditedCopies ==
  ASSUME NEW copy \in Copies
  PROVE  /\ [copy EXCEPT !.obj.noConfig = TRUE] \in Copies
         /\ [copy EXCEPT !.obj.notified = TRUE] \in Copies
         /\ \A state \in ComponentBuildStates :
              [copy EXCEPT !.obj.state = state] \in Copies
         /\ [copy EXCEPT !.obj.state = "InProgress", !.obj.notified = FALSE] \in Copies
BY DEF Copies, ComponentBuildObjects, ComponentBuildStates

LEMMA ResetCopy ==
  ASSUME NEW copy \in Copies
  PROVE  [copy EXCEPT !.obj.noConfig = FALSE,
                      !.obj.outstanding = 0,
                      !.obj.artifacts = [g \in Artifacts |-> "none"]] \in Copies
BY DEF Copies, ComponentBuildObjects, EntryStates

LEMMA EnteredTypes ==
  ASSUME NEW obj \in ComponentBuildObjects,
         NEW g \in Artifacts, NEW entry \in EntryStates
  PROVE  /\ Entered(obj, g, entry) \in ComponentBuildObjects
         /\ \A copy \in Copies :
              copy.obj = obj =>
                [copy EXCEPT !.obj = Entered(obj, g, entry)] \in Copies
<1>1. [obj.artifacts EXCEPT ![g] = entry] \in [Artifacts -> EntryStates]
  BY DEF ComponentBuildObjects
<1>2. Entered(obj, g, entry) =
        [obj EXCEPT !.artifacts = [obj.artifacts EXCEPT ![g] = entry],
                    !.outstanding = obj.outstanding
                              + IF entry \in {"pending", "built"} THEN 1 ELSE 0]
  BY DEF Entered, ComponentBuildObjects
<1>3. obj.outstanding + (IF entry \in {"pending", "built"} THEN 1 ELSE 0) \in Nat
  BY DEF ComponentBuildObjects
<1>4. Entered(obj, g, entry) \in ComponentBuildObjects
  BY <1>1, <1>2, <1>3 DEF ComponentBuildObjects
<1> QED
  BY <1>4 DEF Copies

LEMMA OutdatedCopies ==
  ASSUME NEW c, NEW S, NEW held \in [S -> Copies]
  PROVE  Outdate(c, held) \in [S -> Copies]
BY CopyTypes DEF Outdate

LEMMA ReturnTypes ==
  ASSUME TypeOK, NEW err, Return(err)
  PROVE  WorkerTypeOK' /\ queue' \in SUBSET Keys
<1>1. NoCopy \in Copies /\ NothingLeft \in [Artifacts -> Nat]
  BY FirstSpecTypes
<1>2. req.kind \in {"CB", "PR"} => req \in Keys
  BY DEF TypeOK, WorkerTypeOK, NoRequest
<1> QED
  BY <1>1, <1>2 DEF Return, TypeOK, ClusterTypeOK, WorkerTypeOK

LEMMA ClusterUnchanged == ClusterTypeOK /\ UNCHANGED cluster => ClusterTypeOK'
BY DEF ClusterTypeOK

LEMMA WorkerUnchanged == WorkerTypeOK /\ UNCHANGED worker => WorkerTypeOK'
BY DEF WorkerTypeOK

-----------------------------------------------------------------------------
(* The steps of the others.                                                *)

LEMMA SettlingTypes ==
  ASSUME TypeOK, Settling \/ \E g \in Artifacts : RetryBuild(g)
  PROVE  ClusterTypeOK'
<1> USE DEF TypeOK, ClusterTypeOK
<1>1. ASSUME CreateConfig PROVE ClusterTypeOK'
  BY <1>1 DEF CreateConfig
<1>2. ASSUME NEW g \in Artifacts, NEW o \in {"complete", "failed"}, BuildEnds(g, o)
      PROVE  ClusterTypeOK'
  BY <1>2 DEF BuildEnds, BuildStates
<1>3. ASSUME NEW g \in Artifacts, RetryBuild(g) PROVE ClusterTypeOK'
  BY <1>3, SpendType DEF RetryBuild, BuildStates, Disturbances
<1>4. ASSUME NEW d \in DependencyBuilds, NEW n \in DOMAIN taskRuns[d],
             NEW s \in {"True", "False"}, TaskRunEnds(d, n, s)
      PROVE  ClusterTypeOK'
  <2>1. budget' \in [Disturbances -> Nat]
    BY <1>4, SpendType DEF TaskRunEnds, Disturbances
  <2>2. /\ [taskRuns[d] EXCEPT ![n].status = s] \in Seq(TaskRuns)
        /\ Len([taskRuns[d] EXCEPT ![n].status = s]) = Len(taskRuns[d])
    BY ZenonT(40), TaskRunSequences DEF RunStates
  <2>3. taskRuns' = [taskRuns EXCEPT ![d] = [taskRuns[d] EXCEPT ![n].status = s]]
    BY <1>4 DEF TaskRunEnds
  <2> QED
    BY <1>4, <2>1, <2>2, <2>3 DEF TaskRunEnds
<1>5. ASSUME NEW c \in ComponentBuilds, NEW n \in DOMAIN pipelineRuns[c],
             NEW s \in {"True", "False"}, PipelineRunEnds(c, n, s)
      PROVE  ClusterTypeOK'
  <2>1. budget' \in [Disturbances -> Nat]
    BY <1>5, SpendType DEF PipelineRunEnds, Disturbances
  <2>2. /\ [pipelineRuns[c] EXCEPT ![n].status = s] \in Seq(PipelineRuns)
        /\ Len([pipelineRuns[c] EXCEPT ![n].status = s]) = Len(pipelineRuns[c])
    BY ZenonT(40), PipelineRunSequences DEF RunStates
  <2>3. pipelineRuns' =
          [pipelineRuns EXCEPT ![c] = [pipelineRuns[c] EXCEPT ![n].status = s]]
    BY <1>5 DEF PipelineRunEnds
  <2> QED
    BY <1>5, <2>1, <2>2, <2>3 DEF PipelineRunEnds
<1> QED
  BY <1>1, <1>2, <1>3, <1>4, <1>5 DEF Settling

LEMMA SyncTypes ==
  ASSUME ClusterTypeOK, Sync
  PROVE  ClusterTypeOK'
<1>1. CASE SyncArtifactBuilds
  <2>1. queue' \in SUBSET Keys
    BY <1>1, KeyTypes DEF SyncArtifactBuilds, ClusterTypeOK
  <2> QED
    BY <1>1, <2>1 DEF SyncArtifactBuilds, ClusterTypeOK
<1>2. CASE SyncComponentBuilds
  <2>1. queue' \in SUBSET Keys
    BY <1>2, KeyTypes DEF SyncComponentBuilds, ClusterTypeOK
  <2>2. \A c \in ComponentBuilds : Copy(componentBuild[c]) \in Copies
    BY DEF ClusterTypeOK, Copy, Copies
  <2> QED
    BY <1>2, <2>1, <2>2 DEF SyncComponentBuilds, ClusterTypeOK
<1>3. CASE SyncTaskRuns
  <2>1. \A d \in DependencyBuilds : \A n \in News(taskRuns[d], seenTR[d]) :
          TRKey(d, n) \in Keys
    BY RunDomains, KeyTypes DEF News
  <2>2. queue' \in SUBSET Keys
    BY <1>3, <2>1 DEF SyncTaskRuns, ClusterTypeOK
  <2> QED
    BY <1>3, <2>2 DEF SyncTaskRuns, ClusterTypeOK
<1>4. CASE SyncPipelineRuns
  <2>1. \A c \in ComponentBuilds : \A n \in News(pipelineRuns[c], seenPR[c]) :
          PRKey(c, n) \in Keys
    BY RunDomains, KeyTypes DEF News
  <2>2. queue' \in SUBSET Keys
    BY <1>4, <2>1 DEF SyncPipelineRuns, ClusterTypeOK
  <2> QED
    BY <1>4, <2>2 DEF SyncPipelineRuns, ClusterTypeOK
<1>5. CASE SyncRebuiltArtifacts
  BY <1>5 DEF SyncRebuiltArtifacts, RebuiltArtifacts, ClusterTypeOK
<1>6. CASE SyncDependencyBuilds
  BY <1>6 DEF SyncDependencyBuilds, ClusterTypeOK
<1> QED
  BY <1>1, <1>2, <1>3, <1>4, <1>5, <1>6 DEF Sync

LEMMA IdleAgainTypes ==
  ASSUME pc' = "idle" /\ req' = NoRequest /\ batch' = NoBatch,
         cur' = Nobody /\ my' = NoCopy /\ left' = NothingLeft /\ gav' = Nobody
  PROVE  WorkerTypeOK'
BY FirstSpecTypes DEF WorkerTypeOK, NoBatch

LEMMA RestartTypes ==
  ASSUME TypeOK, Restart
  PROVE  TypeOK'
<1>1. WorkerTypeOK'
  BY IdleAgainTypes DEF Restart
<1>2. budget' \in [Disturbances -> Nat]
  BY SpendType DEF TypeOK, ClusterTypeOK, Restart, Relist, Disturbances
<1>3. queue' \in SUBSET Keys
  BY KeysOfTypes, RunDomains DEF TypeOK, Restart, Relist
<1> QED
  BY <1>1, <1>2, <1>3
     DEF TypeOK, ClusterTypeOK, Restart, Relist, RebuiltArtifacts, Copies, Copy

LEMMA ResyncTypes ==
  ASSUME TypeOK, IdleResync
  PROVE  TypeOK'
<1>1. queue' \in SUBSET Keys
  BY KeysOfTypes, RunDomains DEF TypeOK, IdleResync, Resync
<1> QED
  BY <1>1, WorkerUnchanged DEF TypeOK, ClusterTypeOK, IdleResync, Resync

LEMMA EditTypes ==
  ASSUME TypeOK, NEW c \in ComponentBuilds, NEW spec \in EditedSpecs, Edit(c, spec)
  PROVE  TypeOK'
<1>1. budget' \in [Disturbances -> Nat]
  BY SpendType DEF TypeOK, ClusterTypeOK, Edit, EditSpec, Disturbances
<1>2. componentBuild' \in [ComponentBuilds -> ComponentBuildObjects]
  <2>1. [componentBuild[c] EXCEPT !.spec = spec] \in ComponentBuildObjects
    BY EditedSpecsType, ZenonT(40) DEF TypeOK, ClusterTypeOK, ComponentBuildObjects
  <2>2. componentBuild' =
          [componentBuild EXCEPT ![c] = [componentBuild[c] EXCEPT !.spec = spec]]
    BY DEF Edit, EditSpec
  <2> QED
    BY <2>1, <2>2 DEF TypeOK, ClusterTypeOK
<1>3. seenCB' \in [ComponentBuilds -> Copies]
  BY CopyTypes DEF TypeOK, ClusterTypeOK, Edit, EditSpec
<1>4. specs' \in [ComponentBuilds -> SUBSET Specs]
  BY EditedSpecsType DEF TypeOK, ClusterTypeOK, Edit, EditSpec
<1>5. WorkerTypeOK'
  BY CopyTypes, OutdatedCopies DEF TypeOK, WorkerTypeOK, Edit, Outdate
<1> QED
  BY <1>1, <1>2, <1>3, <1>4, <1>5 DEF TypeOK, ClusterTypeOK, Edit, EditSpec

-----------------------------------------------------------------------------
(* The steps of the worker: dispatch.                                      *)

LEMMA StartTypes ==
  ASSUME TypeOK, NEW c \in ComponentBuilds, NEW copy \in Copies,
         NEW at \in {"config", "save"}, Start(c, copy, at),
         req' \in Keys, DOMAIN batch' \subseteq ComponentBuilds,
         batch' \in [DOMAIN batch' -> Copies]
  PROVE  WorkerTypeOK'
BY DEF Start, TypeOK, WorkerTypeOK

LEMMA StartBatchTypes ==
  ASSUME TypeOK, pc = "idle", NEW key \in Keys, NEW g, StartBatch(key, g)
  PROVE  WorkerTypeOK'
<1> DEFINE mentioned == {c \in ComponentBuilds : seenCB[c].obj.artifacts[g] # "none"}
<1>1. CASE mentioned = {}
  BY <1>1, WorkerUnchanged DEF StartBatch, Ignore, TypeOK
<1>2. CASE mentioned # {}
  <2>1. /\ pc' = "batch" /\ req' = key
        /\ batch' = [c \in mentioned |-> seenCB[c]]
        /\ UNCHANGED <<cur, my, left, gav>>
    BY <1>2 DEF StartBatch
  <2>2. DOMAIN batch' \subseteq ComponentBuilds /\ batch' \in [DOMAIN batch' -> Copies]
    BY <2>1 DEF TypeOK, ClusterTypeOK
  <2> QED
    BY <2>1, <2>2 DEF TypeOK, WorkerTypeOK
<1> QED
  BY <1>1, <1>2

LEMMA AnnotateTypes ==
  ASSUME TypeOK, NEW d \in DependencyBuilds, NEW n \in DOMAIN seenTR[d],
         Annotate(d, n)
  PROVE  /\ dependencyBuild' \in [DependencyBuilds -> BOOLEAN]
         /\ budget' \in [Disturbances -> Nat]
<1>1. "fault" \in Disturbances /\ "read" \in Disturbances
  BY DEF Disturbances
<1> QED
  BY <1>1, SpendType DEF Annotate, TypeOK, ClusterTypeOK

LEMMA HandleTypes ==
  ASSUME TypeOK, Handle
  PROVE  TypeOK'
<1>1. seenCB \in [ComponentBuilds -> Copies]
  BY DEF TypeOK, ClusterTypeOK
<1>2. DOMAIN batch \subseteq ComponentBuilds /\ batch \in [DOMAIN batch -> Copies]
  BY DEF TypeOK, WorkerTypeOK
<1>3. /\ \A d \in DependencyBuilds : \A n \in DOMAIN seenTR[d] : TRKey(d, n) \in Keys
      /\ \A c \in ComponentBuilds : \A n \in DOMAIN seenPR[c] : PRKey(c, n) \in Keys
  BY RunDomains, KeyTypes DEF TypeOK
\* Where only the queue shrinks, the cluster keeps its type.
<1>4. ASSUME NEW key, queue' = queue \ {key}, UNCHANGED <<api, caches, history, budget>>
      PROVE  ClusterTypeOK'
  BY <1>4 DEF TypeOK, ClusterTypeOK
<1>5. ASSUME NEW c \in ComponentBuilds, TakeComponentBuild(c) PROVE TypeOK'
  <2>1. WorkerTypeOK'
    BY <1>1, <1>2, <1>5, StartTypes, KeyTypes DEF TakeComponentBuild
  <2> QED
    BY <1>4, <1>5, <2>1 DEF TakeComponentBuild, Take, TypeOK
<1>6. ASSUME NEW c \in ComponentBuilds, PickListed(c) PROVE TypeOK'
  <2>1. batch[c] \in Copies
    BY <1>2, <1>6 DEF PickListed
  <2>2. /\ DOMAIN batch' \subseteq ComponentBuilds
        /\ batch' \in [DOMAIN batch' -> Copies]
    BY <1>2, <1>6 DEF PickListed
  <2>3. WorkerTypeOK'
    BY <1>6, <2>1, <2>2 DEF PickListed, Start, TypeOK, WorkerTypeOK
  <2> QED
    BY <1>6, <2>3, ClusterUnchanged DEF PickListed, TypeOK
<1>7. ASSUME NEW g \in Artifacts, TakeArtifactBuild(g) PROVE TypeOK'
  <2>1. WorkerTypeOK'
    BY <1>7, StartBatchTypes, KeyTypes DEF TakeArtifactBuild, Take
  <2> QED
    BY <1>4, <1>7, <2>1 DEF TakeArtifactBuild, Take, TypeOK
<1>8. ASSUME NEW d \in DependencyBuilds, NEW n \in DOMAIN seenTR[d],
             TakeRunningTaskRun(d, n)
      PROVE  TypeOK'
  BY <1>4, <1>8, WorkerUnchanged DEF TakeRunningTaskRun, Take, Ignore, TypeOK
<1>9. ASSUME NEW d \in DependencyBuilds, NEW n \in DOMAIN seenTR[d],
             TakeEndedTaskRun(d, n)
      PROVE  TypeOK'
  <2>1. WorkerTypeOK'
    BY <1>3, <1>9, StartBatchTypes DEF TakeEndedTaskRun, Take
  <2>2. ClusterTypeOK'
    BY <1>9, AnnotateTypes DEF TakeEndedTaskRun, Take, TypeOK, ClusterTypeOK
  <2> QED
    BY <2>1, <2>2 DEF TypeOK
<1>10. ASSUME NEW c \in ComponentBuilds, NEW n \in DOMAIN seenPR[c],
              TakeRunningPipelineRun(c, n)
       PROVE  TypeOK'
  BY <1>4, <1>10, WorkerUnchanged DEF TakeRunningPipelineRun, Take, Ignore, TypeOK
<1>11. ASSUME NEW c \in ComponentBuilds, NEW n \in DOMAIN seenPR[c],
              TakeFailedPipelineRun(c, n)
       PROVE  TypeOK'
  <2>1. WorkerTypeOK'
    BY <1>1, <1>2, <1>3, <1>11, StartTypes DEF TakeFailedPipelineRun
  <2> QED
    BY <1>4, <1>11, <2>1 DEF TakeFailedPipelineRun, Take, TypeOK
<1>12. ASSUME NEW c \in ComponentBuilds, NEW n \in DOMAIN seenPR[c],
              TakeSucceededPipelineRun(c, n)
       PROVE  TypeOK'
  <2>1. [seenCB[c] EXCEPT !.obj.notified = TRUE] \in Copies
    BY <1>1, EditedCopies
  <2>2. WorkerTypeOK'
    BY <1>2, <1>3, <1>12, <2>1, StartTypes DEF TakeSucceededPipelineRun
  <2> QED
    BY <1>4, <1>12, <2>2 DEF TakeSucceededPipelineRun, Take, TypeOK
<1>13. ASSUME NEW key \in queue, DispatchFails(key) PROVE TypeOK'
  <2>1. budget' \in [Disturbances -> Nat]
    BY <1>13, SpendType DEF DispatchFails, Disturbances, TypeOK, ClusterTypeOK
  <2> QED
    BY <1>13, <2>1, WorkerUnchanged DEF DispatchFails, TypeOK, ClusterTypeOK
<1>14. ASSUME NEW d \in DependencyBuilds, NEW n \in DOMAIN seenTR[d],
              EndedTaskRunUnlisted(d, n)
       PROVE  TypeOK'
  <2>1. budget' \in [Disturbances -> Nat]
    BY <1>14, SpendType DEF EndedTaskRunUnlisted, Disturbances, TypeOK, ClusterTypeOK
  <2> QED
    BY <1>14, <2>1, WorkerUnchanged DEF EndedTaskRunUnlisted, TypeOK, ClusterTypeOK
<1> QED
  BY <1>5, <1>6, <1>7, <1>8, <1>9, <1>10, <1>11, <1>12, <1>13, <1>14 DEF Handle

-----------------------------------------------------------------------------
(* The steps of the worker: the handler.                                   *)

LEMMA EnterTypes ==
  ASSUME TypeOK, pc = "artifacts", NEW g \in Unreached, NEW entry \in EntryStates,
         Enter(g, entry),
         \/ UNCHANGED <<pc, gav>>
         \/ pc' = "deploy" /\ gav' = g
  PROVE  WorkerTypeOK'
<1>1. g \in Artifacts /\ my \in Copies /\ my.obj \in ComponentBuildObjects
  BY CopyTypes DEF TypeOK, WorkerTypeOK, Unreached
<1>2. my' \in Copies
  BY <1>1, EnteredTypes DEF Enter
<1>3. left' \in [Artifacts -> Nat]
  BY DEF Enter, Unreached, TypeOK, WorkerTypeOK
<1> QED
  BY <1>1, <1>2, <1>3 DEF Enter, TypeOK, WorkerTypeOK

LEMMA SeenEntryTypes ==
  ASSUME NEW g PROVE SeenEntry(g) \in EntryStates
BY DEF SeenEntry, EntryStates

\* The worker goes on in the handler with another copy.
LEMMA HandlerTypes ==
  ASSUME TypeOK, pc \in {"config", "artifacts"}, pc' \in {"artifacts", "save"},
         my' \in Copies, left' \in [Artifacts -> Nat],
         UNCHANGED <<req, batch, cur, gav>>
  PROVE  WorkerTypeOK'
BY DEF TypeOK, WorkerTypeOK

LEMMA LoopTypes ==
  ASSUME TypeOK, Loop
  PROVE  TypeOK'
<1>1. my \in Copies /\ my.obj \in ComponentBuildObjects /\ left \in [Artifacts -> Nat]
  BY CopyTypes DEF TypeOK, WorkerTypeOK
<1>2. /\ "read" \in Disturbances /\ "fault" \in Disturbances
      /\ "lost" \in Disturbances
  BY DEF Disturbances
<1>3. ASSUME ConfigUnreadable PROVE TypeOK'
  <2>1. WorkerTypeOK' /\ queue' \in SUBSET Keys
    BY <1>3, ReturnTypes DEF ConfigUnreadable
  <2> QED
    BY <1>2, <1>3, <2>1, SpendType DEF ConfigUnreadable, TypeOK, ClusterTypeOK
<1>4. ASSUME ConfigMissing PROVE TypeOK'
  <2>1. WorkerTypeOK'
    BY <1>1, <1>4, EditedCopies, HandlerTypes DEF ConfigMissing
  <2> QED
    BY <1>4, <2>1, ClusterUnchanged DEF ConfigMissing, TypeOK
<1>5. ASSUME ConfigFound PROVE TypeOK'
  <2>1. my' \in Copies
    BY <1>1, <1>5, ResetCopy DEF ConfigFound
  <2>2. left' \in [Artifacts -> Nat]
    BY <1>1, <1>5 DEF ConfigFound, ComponentBuildObjects, Specs
  <2>3. WorkerTypeOK'
    BY <1>5, <2>1, <2>2, HandlerTypes DEF ConfigFound
  <2> QED
    BY <1>5, <2>3, ClusterUnchanged DEF ConfigFound, TypeOK
<1>6. ASSUME NEW g \in Unreached, FoundArtifact(g) PROVE TypeOK'
  <2>1. WorkerTypeOK'
    BY <1>6, EnterTypes, SeenEntryTypes DEF FoundArtifact
  <2> QED
    BY <1>6, <2>1, ClusterUnchanged DEF FoundArtifact, TypeOK
<1>7. ASSUME NEW g \in Unreached, UnreadableArtifact(g) PROVE TypeOK'
  <2>1. WorkerTypeOK'
    BY <1>7, EnterTypes DEF UnreadableArtifact, EntryStates
  <2> QED
    BY <1>2, <1>7, <2>1, SpendType DEF UnreadableArtifact, TypeOK, ClusterTypeOK
<1>8. ASSUME NEW g \in Unreached, CreateArtifactBuild(g) PROVE TypeOK'
  <2>1. WorkerTypeOK'
    BY <1>8, EnterTypes DEF CreateArtifactBuild, EntryStates
  <2> QED
    BY <1>8, <2>1 DEF CreateArtifactBuild, BuildStates, TypeOK, ClusterTypeOK
<1>9. ASSUME NEW g \in Unreached, CreateArtifactBuildFails(g) PROVE TypeOK'
  <2>1. WorkerTypeOK' /\ queue' \in SUBSET Keys
    BY <1>9, ReturnTypes DEF CreateArtifactBuildFails
  <2> QED
    BY <1>2, <1>9, <2>1, SpendType DEF CreateArtifactBuildFails, TypeOK, ClusterTypeOK
<1>10. ASSUME NEW g \in Unreached, CreateArtifactBuildUnanswered(g) PROVE TypeOK'
  <2>1. WorkerTypeOK' /\ queue' \in SUBSET Keys
    BY <1>10, ReturnTypes DEF CreateArtifactBuildUnanswered
  <2>2. budget' \in [Disturbances -> Nat]
    BY <1>2, <1>10, SpendType
       DEF CreateArtifactBuildUnanswered, TypeOK, ClusterTypeOK
  <2> QED
    BY <1>10, <2>1, <2>2
       DEF CreateArtifactBuildUnanswered, BuildStates, TypeOK, ClusterTypeOK
<1>11. ASSUME DeployArtifact PROVE TypeOK'
  <2>1. WorkerTypeOK'
    BY <1>11 DEF DeployArtifact, TypeOK, WorkerTypeOK
  <2>2. gav \in Artifacts /\ BuiltBy[gav] \in DependencyBuilds
    BY <1>11, Assumptions DEF DeployArtifact, TypeOK, WorkerTypeOK
  <2> DEFINE d == BuiltBy[gav]
             run == [gav |-> gav, status |-> "Unknown"]
  <2>3. run \in TaskRuns
    BY <2>2 DEF TaskRuns, RunStates
  <2>4. /\ taskRuns[d] \in Seq(TaskRuns)
        /\ Len(taskRuns[d]) < MaxTaskRuns
        /\ taskRuns' = [taskRuns EXCEPT ![d] = Append(taskRuns[d], run)]
    BY <1>11, <2>2 DEF DeployArtifact, TypeOK, ClusterTypeOK
  <2>5. /\ Append(taskRuns[d], run) \in Seq(TaskRuns)
        /\ Len(Append(taskRuns[d], run)) <= MaxTaskRuns
    BY <2>3, <2>4, Assumptions, AppendProperties, LenProperties
  <2>6. ClusterTypeOK'
    BY <1>11, <2>2, <2>4, <2>5 DEF DeployArtifact, TypeOK, ClusterTypeOK
  <2> QED
    BY <2>1, <2>6 DEF TypeOK
<1>12. ASSUME DeployNothing PROVE TypeOK'
  <2>1. WorkerTypeOK'
    BY <1>12 DEF DeployNothing, TypeOK, WorkerTypeOK
  <2>2. budget' \in [Disturbances -> Nat]
    BY <1>2, <1>12, SpendType DEF DeployNothing, TypeOK, ClusterTypeOK
  <2> QED
    BY <1>12, <2>1, <2>2 DEF DeployNothing, TypeOK, ClusterTypeOK
<1> QED
  BY <1>3, <1>4, <1>5, <1>6, <1>7, <1>8, <1>9, <1>10, <1>11, <1>12 DEF Loop

LEMMA VerdictTypes ==
  ASSUME NEW obj
  PROVE  Verdict(obj) \in {"Failed", "Complete"} /\ Verdict(obj) \in ComponentBuildStates
BY DEF Verdict, ComponentBuildStates

LEMMA CreatePipelineRunTypes ==
  ASSUME TypeOK, NEW c \in ComponentBuilds, CreatePipelineRun(c)
  PROVE  /\ pipelineRuns' \in [ComponentBuilds -> Seq(PipelineRuns)]
         /\ \A b \in ComponentBuilds : Len(pipelineRuns'[b]) <= MaxPipelineRuns
<1> DEFINE run == [msg |-> Verdict(my.obj), about |-> my.obj.spec,
                   status |-> "Unknown"]
<1>1. run \in PipelineRuns
  <2>1. my.obj.spec \in Specs
    BY CopyTypes DEF TypeOK, WorkerTypeOK, ComponentBuildObjects
  <2> QED
    BY <2>1, VerdictTypes DEF PipelineRuns, RunStates
<1>2. /\ pipelineRuns[c] \in Seq(PipelineRuns)
      /\ Len(pipelineRuns[c]) < MaxPipelineRuns
      /\ pipelineRuns' = [pipelineRuns EXCEPT ![c] = Append(pipelineRuns[c], run)]
  BY DEF CreatePipelineRun, TypeOK, ClusterTypeOK
<1>3. /\ Append(pipelineRuns[c], run) \in Seq(PipelineRuns)
      /\ Len(Append(pipelineRuns[c], run)) <= MaxPipelineRuns
  BY <1>1, <1>2, Assumptions, AppendProperties, LenProperties
<1> QED
  BY <1>2, <1>3 DEF TypeOK, ClusterTypeOK

LEMMA FinishTypes ==
  ASSUME TypeOK, Finish
  PROVE  TypeOK'
<1>1. my \in Copies /\ my.obj \in ComponentBuildObjects /\ left \in [Artifacts -> Nat]
  BY CopyTypes DEF TypeOK, WorkerTypeOK
<1>2. /\ "read" \in Disturbances /\ "fault" \in Disturbances
      /\ "lost" \in Disturbances
  BY DEF Disturbances
<1>3. pc \in {"artifacts", "save"} => cur \in ComponentBuilds
  BY DEF TypeOK, WorkerTypeOK
<1>4. [my EXCEPT !.obj.state = Verdict(my.obj)] \in Copies
  BY <1>1, EditedCopies, VerdictTypes
<1>5. ASSUME StillOutstanding PROVE TypeOK'
  <2>1. WorkerTypeOK'
    BY <1>1, <1>5, EditedCopies, HandlerTypes DEF StillOutstanding
  <2> QED
    BY <1>5, <2>1, ClusterUnchanged DEF StillOutstanding, TypeOK
<1>6. ASSUME SettleSilently PROVE TypeOK'
  <2>1. WorkerTypeOK'
    BY <1>1, <1>4, <1>6, HandlerTypes DEF SettleSilently, Settled
  <2> QED
    BY <1>6, <2>1, ClusterUnchanged DEF SettleSilently, TypeOK
<1>7. ASSUME SettleAndNotify PROVE TypeOK'
  <2>1. WorkerTypeOK'
    BY <1>1, <1>4, <1>7, HandlerTypes DEF SettleAndNotify, Settled
  <2>2. ClusterTypeOK'
    BY <1>3, <1>7, CreatePipelineRunTypes
       DEF SettleAndNotify, Settled, TypeOK, ClusterTypeOK
  <2> QED
    BY <2>1, <2>2 DEF TypeOK
<1>8. ASSUME NotifyFails PROVE TypeOK'
  <2>1. WorkerTypeOK' /\ queue' \in SUBSET Keys
    BY <1>8, ReturnTypes DEF NotifyFails
  <2>2. budget' \in [Disturbances -> Nat]
    BY <1>2, <1>8, SpendType DEF NotifyFails, TypeOK, ClusterTypeOK
  <2> QED
    BY <1>8, <2>1, <2>2 DEF NotifyFails, TypeOK, ClusterTypeOK
<1>9. ASSUME NotifyUnanswered PROVE TypeOK'
  <2>1. WorkerTypeOK' /\ queue' \in SUBSET Keys
    BY <1>9, ReturnTypes DEF NotifyUnanswered
  <2>2. budget' \in [Disturbances -> Nat]
    BY <1>2, <1>9, SpendType DEF NotifyUnanswered, TypeOK, ClusterTypeOK
  <2>3. ClusterTypeOK'
    BY <1>3, <1>9, <2>1, <2>2, CreatePipelineRunTypes
       DEF NotifyUnanswered, Settled, TypeOK, ClusterTypeOK
  <2> QED
    BY <2>1, <2>3 DEF TypeOK
<1>10. ASSUME SaveStatus PROVE TypeOK'
  <2>1. WorkerTypeOK' /\ queue' \in SUBSET Keys
    BY <1>10, ReturnTypes DEF SaveStatus
  <2>2. budget' \in [Disturbances -> Nat]
    BY <1>2, <1>10, SpendType DEF SaveStatus, TypeOK, ClusterTypeOK
  <2>3. componentBuild' \in [ComponentBuilds -> ComponentBuildObjects]
    BY <1>1, <1>10 DEF SaveStatus, UpdateStatus, TypeOK, ClusterTypeOK
  <2>4. seenCB' \in [ComponentBuilds -> Copies]
    BY <1>10, OutdatedCopies DEF SaveStatus, UpdateStatus, TypeOK, ClusterTypeOK
  <2> QED
    BY <1>10, <2>1, <2>2, <2>3, <2>4 DEF SaveStatus, TypeOK, ClusterTypeOK
<1>11. ASSUME SaveStatusFails PROVE TypeOK'
  <2>1. WorkerTypeOK' /\ queue' \in SUBSET Keys
    BY <1>11, ReturnTypes DEF SaveStatusFails
  <2>2. budget' \in [Disturbances -> Nat]
    BY <1>2, <1>11, SpendType DEF SaveStatusFails, TypeOK, ClusterTypeOK
  <2> QED
    BY <1>11, <2>1, <2>2 DEF SaveStatusFails, TypeOK, ClusterTypeOK
<1> QED
  BY <1>5, <1>6, <1>7, <1>8, <1>9, <1>10, <1>11 DEF Finish

-----------------------------------------------------------------------------

LEMMA NextTypes == TypeOK /\ [Next]_vars => TypeOK'
<1> SUFFICES ASSUME TypeOK, [Next]_vars PROVE TypeOK'
  OBVIOUS
<1>1. CASE UNCHANGED vars
  BY <1>1, ClusterUnchanged, WorkerUnchanged DEF TypeOK
<1>2. CASE Worker
  BY <1>2, HandleTypes, LoopTypes, FinishTypes DEF Worker
<1>3. CASE (Sync \/ Settling \/ \E g \in Artifacts : RetryBuild(g)) /\ UNCHANGED worker
  BY <1>3, SyncTypes, SettlingTypes, WorkerUnchanged DEF TypeOK
<1>4. CASE \E c \in ComponentBuilds, spec \in EditedSpecs : Edit(c, spec)
  BY <1>4, EditTypes
<1>5. CASE Restart
  BY <1>5, RestartTypes
<1>6. CASE IdleResync
  BY <1>6, ResyncTypes
<1> QED
  BY <1>1, <1>2, <1>3, <1>4, <1>5, <1>6 DEF Next

\* Every variable keeps its type: among others, the counter of outstanding
\* artifacts never goes below zero, no queue holds the key of a run that was
\* never created, and the worker is in a ComponentBuild whenever a step of
\* the handler uses one.
THEOREM TypeCorrect == Spec => []TypeOK
<1> QED
  BY InitTypes, NextTypes, PTL DEF Spec

=============================================================================

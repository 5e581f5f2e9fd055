----------------------------- MODULE Reconciler -----------------------------
(***************************************************************************)
(* The ComponentBuild reconciler of the Apheleia operator, step by step:   *)
(* one worker takes a key from the queue, dispatches on the kind of object *)
(* it names, and runs the handler to its end. Every read goes to the       *)
(* informer caches, every write to the API server, and the rest of the     *)
(* cluster may move between any two steps.                                 *)
(***************************************************************************)
EXTENDS Cluster

VARIABLES
  pc,     \* where the worker is
  req,    \* the request it handles
  batch,  \* the listed ComponentBuilds it has still to handle
  cur,    \* the ComponentBuild it handles
  my,     \* its working copy of cur
  left,   \* left[g]: the turns of the loop over my.obj.spec still to come for g
  gav     \* the artifact it is deploying

worker == <<pc, req, batch, cur, my, left, gav>>
vars == <<cluster, worker>>

NoRequest == [kind |-> "none", of |-> Nobody, n |-> 0]
NothingLeft == [g \in Artifacts |-> 0]
NoCopy == Copy(NewComponentBuild([gavs |-> NothingLeft, pr |-> FALSE]))
NoBatch == [c \in {} |-> NoCopy]

\* Mutant of Verdict: the loop over the failed entries is gone.
VerdictWithoutFailures(obj) == "Complete"

Verdict(obj) ==
  IF \E g \in Artifacts : obj.artifacts[g] = "failed"
    THEN "Failed" ELSE "Complete"

WorkerTypeOK ==
  /\ pc \in {"idle", "batch", "config", "artifacts", "deploy", "save"}
  /\ req \in Keys \cup {NoRequest}
  /\ DOMAIN batch \subseteq ComponentBuilds
  /\ batch \in [DOMAIN batch -> Copies]
  /\ cur \in ComponentBuilds \cup {Nobody}
  /\ my \in Copies
  /\ left \in [Artifacts -> Nat]
  /\ gav \in Artifacts \cup {Nobody}
  /\ pc \in {"config", "artifacts", "deploy", "save"} => cur \in ComponentBuilds
  /\ pc = "deploy" => gav \in Artifacts

TypeOK == ClusterTypeOK /\ WorkerTypeOK

Init ==
  /\ ClusterInit
  /\ pc = "idle" /\ req = NoRequest /\ batch = NoBatch
  /\ cur = Nobody /\ my = NoCopy /\ left = NothingLeft /\ gav = Nobody

-----------------------------------------------------------------------------
(* Control that the handlers share.                                        *)

\* The worker takes key and is about to do what its handler does.
Take(key) ==
  /\ pc = "idle"
  /\ key \in queue
  /\ queue' = queue \ {key}

\* The request ends without a call of handleComponentBuildReceived.
Ignore == UNCHANGED worker

\* The worker starts on ComponentBuild c with the given copy of it.
Start(c, copy, at) ==
  /\ pc' = at
  /\ cur' = c
  /\ my' = copy
  /\ UNCHANGED <<left, gav>>

\* The ComponentBuilds of the cache whose status mentions g are handled next.
StartBatch(key, g) ==
  LET mentioned == {c \in ComponentBuilds :
                      seenCB[c].obj.artifacts[g] # "none"}
  IN IF mentioned = {}
       THEN Ignore
       ELSE /\ pc' = "batch"
            /\ req' = key
            /\ batch' = [c \in mentioned |-> seenCB[c]]
            /\ UNCHANGED <<cur, my, left, gav>>

\* The handling of cur ends. Its error is returned, and then the request is
\* queued again, or it is logged when cur was one of a list.
Return(err) ==
  /\ cur' = Nobody /\ my' = NoCopy /\ left' = NothingLeft /\ gav' = Nobody
  /\ UNCHANGED batch
  /\ IF DOMAIN batch # {}
       THEN pc' = "batch" /\ UNCHANGED <<req, queue>>
       ELSE /\ pc' = "idle" /\ req' = NoRequest
            /\ queue' = IF err /\ req.kind \in {"CB", "PR"}
                          THEN queue \cup {req} ELSE queue

\* ComponentBuild c changes: no copy of it is current any longer.
Outdate(c, held) == [b \in DOMAIN held |->
                       IF b = c THEN Outdated(held[b]) ELSE held[b]]

-----------------------------------------------------------------------------
(* The four kinds of request.                                              *)

TakeComponentBuild(c) ==
  /\ Take(CBKey(c))
  /\ Start(c, seenCB[c], "config")
  /\ req' = CBKey(c)
  /\ UNCHANGED <<api, caches, history, budget, batch>>

TakeArtifactBuild(g) ==
  /\ Take(ABKey(g))
  /\ StartBatch(ABKey(g), g)
  /\ UNCHANGED <<api, caches, history, budget>>

TakeRunningTaskRun(d, n) ==
  /\ Take(TRKey(d, n))
  /\ seenTR[d][n].status = "Unknown"
  /\ Ignore
  /\ UNCHANGED <<api, caches, history, budget>>

\* Mutant of Annotate: any end of the TaskRun will do.
AnnotateUnconditionally(d, n) ==
  LET g == seenTR[d][n].gav IN
  IF g \in seenRA
    THEN \/ /\ dependencyBuild' = [dependencyBuild EXCEPT ![BuiltBy[g]] = TRUE]
            /\ UNCHANGED budget
         \/ Spend("fault") /\ UNCHANGED dependencyBuild
    ELSE UNCHANGED <<dependencyBuild, budget>>

\* A deploy TaskRun that has succeeded marks its DependencyBuild as deployed.
\* A read that fails on the way to it is not told from one that finds nothing;
\* an error of the update is logged and forgotten.
Annotate(d, n) ==
  LET g == seenTR[d][n].gav IN
  IF seenTR[d][n].status = "True" /\ g \in seenRA
    THEN \/ /\ dependencyBuild' = [dependencyBuild EXCEPT ![BuiltBy[g]] = TRUE]
            /\ UNCHANGED budget
         \/ (Spend("fault") \/ Spend("read")) /\ UNCHANGED dependencyBuild
    ELSE UNCHANGED <<dependencyBuild, budget>>

TakeEndedTaskRun(d, n) ==
  /\ Take(TRKey(d, n))
  /\ seenTR[d][n].status # "Unknown"
  /\ Annotate(d, n)
  /\ StartBatch(TRKey(d, n), seenTR[d][n].gav)
  /\ UNCHANGED <<artifactBuild, componentBuild, taskRuns, pipelineRuns,
                 config, caches, history>>

\* The ComponentBuilds cannot be listed after the annotation was made: the
\* request is queued again.
EndedTaskRunUnlisted(d, n) ==
  /\ pc = "idle"
  /\ TRKey(d, n) \in queue
  /\ seenTR[d][n].status = "True" /\ seenTR[d][n].gav \in seenRA
  /\ Spend("read")
  /\ dependencyBuild' = [dependencyBuild EXCEPT ![BuiltBy[seenTR[d][n].gav]] = TRUE]
  /\ UNCHANGED <<artifactBuild, componentBuild, taskRuns, pipelineRuns,
                 config, caches, history, queue, worker>>

TakeRunningPipelineRun(c, n) ==
  /\ Take(PRKey(c, n))
  /\ seenPR[c][n].status = "Unknown"
  /\ Ignore
  /\ UNCHANGED <<api, caches, history, budget>>

\* Mutant of TakeFailedPipelineRun: any end of the PipelineRun will do.
TakeFailedPipelineRunAsDone(c, n) ==
  /\ Take(PRKey(c, n))
  /\ seenPR[c][n].status = "False"
  /\ Start(c, [seenCB[c] EXCEPT !.obj.notified = TRUE], "save")
  /\ req' = PRKey(c, n)
  /\ UNCHANGED <<api, caches, history, budget, batch>>

TakeFailedPipelineRun(c, n) ==
  /\ Take(PRKey(c, n))
  /\ seenPR[c][n].status = "False"
  /\ Start(c, seenCB[c], "config")
  /\ req' = PRKey(c, n)
  /\ UNCHANGED <<api, caches, history, budget, batch>>

TakeSucceededPipelineRun(c, n) ==
  /\ Take(PRKey(c, n))
  /\ seenPR[c][n].status = "True"
  /\ Start(c, [seenCB[c] EXCEPT !.obj.notified = TRUE], "save")
  /\ req' = PRKey(c, n)
  /\ UNCHANGED <<api, caches, history, budget, batch>>

\* A read of the dispatch fails: the request is queued again.
DispatchFails(key) ==
  /\ pc = "idle"
  /\ key \in queue
  /\ Spend("read")
  /\ UNCHANGED <<api, caches, history, queue, worker>>

PickListed(c) ==
  /\ pc = "batch"
  /\ c \in DOMAIN batch
  /\ Start(c, batch[c], "config")
  /\ batch' = [b \in DOMAIN batch \ {c} |-> batch[b]]
  /\ UNCHANGED <<cluster, req>>

-----------------------------------------------------------------------------
(* handleComponentBuildReceived, up to the end of its loop.                *)

ConfigUnreadable ==
  /\ pc = "config"
  /\ Spend("read")
  /\ Return(TRUE)
  /\ UNCHANGED <<api, caches, history>>

ConfigMissing ==
  /\ pc = "config"
  /\ ~config
  /\ pc' = "save"
  /\ my' = [my EXCEPT !.obj.noConfig = TRUE]
  /\ UNCHANGED <<cluster, req, batch, cur, left, gav>>

\* Mutant of ConfigFound: the counter is not reset.
ConfigFoundKeepsCount ==
  /\ pc = "config"
  /\ config
  /\ pc' = "artifacts"
  /\ my' = [my EXCEPT !.obj.noConfig = FALSE,
                      !.obj.artifacts = [g \in Artifacts |-> "none"]]
  /\ left' = my.obj.spec.gavs
  /\ UNCHANGED <<cluster, req, batch, cur, gav>>

ConfigFound ==
  /\ pc = "config"
  /\ config
  /\ pc' = "artifacts"
  /\ my' = [my EXCEPT !.obj.noConfig = FALSE,
                      !.obj.outstanding = 0,
                      !.obj.artifacts = [g \in Artifacts |-> "none"]]
  /\ left' = my.obj.spec.gavs
  /\ UNCHANGED <<cluster, req, batch, cur, gav>>

\* What the loop has still to go through. Of a GAV that the spec lists twice it
\* makes the same entry twice, and may count it twice.
Unreached == {g \in Artifacts : left[g] > 0}

\* Mutant of Entered: the counter goes down.
EnteredCountingDown(obj, g, entry) ==
  [obj EXCEPT !.artifacts[g] = entry,
              !.outstanding = obj.outstanding
                                - IF entry \in {"pending", "built"} THEN 1 ELSE 0]

\* The loop enters g in the status, counts it and goes on.
Entered(obj, g, entry) ==
  [obj EXCEPT !.artifacts[g] = entry,
              !.outstanding = obj.outstanding
                                + IF entry \in {"pending", "built"} THEN 1 ELSE 0]

Enter(g, entry) ==
  /\ my' = [my EXCEPT !.obj = Entered(my.obj, g, entry)]
  /\ left' = [left EXCEPT ![g] = @ - 1]
  /\ UNCHANGED <<req, batch, cur>>

\* Is g marked as deployed, as far as getDependencyBuild can see?
SeenDeployed(g) == g \in seenRA /\ seenDB[BuiltBy[g]]

\* Mutants of SeenEntry: what is built is taken to be deployed; a failed build
\* is taken to be under way.
SeenEntryBuiltIsDone(g) ==
  CASE seenAB[g] = "failed" -> "failed"
    [] seenAB[g] = "complete" -> "deployed"
    [] OTHER -> "pending"
SeenEntryWithoutFailed(g) ==
  CASE seenAB[g] = "complete" -> IF SeenDeployed(g) THEN "deployed" ELSE "built"
    [] OTHER -> "pending"

\* artifactState of an ArtifactBuild that is there.
SeenEntry(g) ==
  CASE seenAB[g] = "failed" -> "failed"
    [] seenAB[g] = "complete" -> IF SeenDeployed(g) THEN "deployed" ELSE "built"
    [] OTHER -> "pending"

FoundArtifact(g) ==
  /\ pc = "artifacts"
  /\ g \in Unreached
  /\ seenAB[g] # "absent"
  /\ Enter(g, SeenEntry(g))
  /\ IF SeenEntry(g) = "built" THEN pc' = "deploy" /\ gav' = g
                               ELSE UNCHANGED <<pc, gav>>
  /\ UNCHANGED cluster

\* A read error other than NotFound: of the ArtifactBuild, and then the code
\* goes on with an empty one; or of what getDependencyBuild looks for, and
\* then the artifact counts as not deployed.
UnreadableArtifact(g) ==
  /\ pc = "artifacts"
  /\ g \in Unreached
  /\ Spend("read")
  /\ \/ Enter(g, "pending") /\ UNCHANGED <<pc, gav>>
     \/ /\ seenAB[g] = "complete"
        /\ Enter(g, "built") /\ pc' = "deploy" /\ gav' = g
  /\ UNCHANGED <<api, caches, history, queue>>

CreateArtifactBuild(g) ==
  /\ pc = "artifacts"
  /\ g \in Unreached
  /\ seenAB[g] = "absent"
  /\ artifactBuild[g] = "absent"
  /\ artifactBuild' = [artifactBuild EXCEPT ![g] = "building"]
  /\ Enter(g, "pending")
  /\ UNCHANGED <<dependencyBuild, componentBuild, taskRuns, pipelineRuns,
                 config, caches, history, queue, budget, pc, gav>>

\* The create fails: the object is there already, or the API server refuses.
CreateArtifactBuildFails(g) ==
  /\ pc = "artifacts"
  /\ g \in Unreached
  /\ seenAB[g] = "absent"
  /\ \/ artifactBuild[g] # "absent" /\ UNCHANGED budget
     \/ Spend("fault")
  /\ Return(TRUE)
  /\ UNCHANGED <<api, caches, history>>

\* The object is created, but the answer is an error.
CreateArtifactBuildUnanswered(g) ==
  /\ pc = "artifacts"
  /\ g \in Unreached
  /\ seenAB[g] = "absent"
  /\ artifactBuild[g] = "absent"
  /\ Spend("lost")
  /\ artifactBuild' = [artifactBuild EXCEPT ![g] = "building"]
  /\ Return(TRUE)
  /\ UNCHANGED <<dependencyBuild, componentBuild, taskRuns, pipelineRuns,
                 config, caches, history>>

-----------------------------------------------------------------------------
(* deployArtifact.                                                         *)

\* Mutant of SeenDeploying: a TaskRun that has ended counts as well.
SeenDeployingEver(d) == seenTR[d] # <<>>

\* Some deploy TaskRun of d is still running, as far as the cache knows.
SeenDeploying(d) == \E n \in DOMAIN seenTR[d] : seenTR[d][n].status = "Unknown"

MayDeploy(g) ==
  /\ g \in seenRA
  /\ ~seenDB[BuiltBy[g]]
  /\ ~SeenDeploying(BuiltBy[g])

DeployArtifact ==
  /\ pc = "deploy"
  /\ MayDeploy(gav)
  /\ Len(taskRuns[BuiltBy[gav]]) < MaxTaskRuns
  /\ taskRuns' = [taskRuns EXCEPT ![BuiltBy[gav]] =
                    Append(@, [gav |-> gav, status |-> "Unknown"])]
  /\ pc' = "artifacts" /\ gav' = Nobody
  /\ UNCHANGED <<artifactBuild, dependencyBuild, componentBuild, pipelineRuns,
                 config, caches, history, queue, budget, req, batch, cur, my, left>>

\* There is nothing to deploy, or it could not be done: the error is logged.
DeployNothing ==
  /\ pc = "deploy"
  /\ \/ ~MayDeploy(gav) /\ UNCHANGED budget
     \/ Spend("read")
     \/ /\ MayDeploy(gav)
        /\ \/ Len(taskRuns[BuiltBy[gav]]) = MaxTaskRuns /\ UNCHANGED budget
           \/ Spend("fault")
  /\ pc' = "artifacts" /\ gav' = Nobody
  /\ UNCHANGED <<api, caches, history, queue, req, batch, cur, my, left>>

-----------------------------------------------------------------------------
(* The end of handleComponentBuildReceived.                                *)

StillOutstanding ==
  /\ pc = "artifacts" /\ Unreached = {}
  /\ my.obj.outstanding > 0
  /\ pc' = "save"
  /\ my' = [my EXCEPT !.obj.state = "InProgress", !.obj.notified = FALSE]
  /\ UNCHANGED <<cluster, req, batch, cur, left, gav>>

\* Mutant of MustNotify: the check of the pull request is turned round.
MustNotifyNobody(c) ==
  /\ ~my.obj.notified
  /\ ~my.obj.spec.pr
  /\ \A n \in DOMAIN seenPR[c] : seenPR[c][n].status # "Unknown"

\* notifyResult has a PipelineRun to create for c: nobody was told yet, there
\* is a pull request, and no notification is known to be running.
MustNotify(c) ==
  /\ ~my.obj.notified
  /\ my.obj.spec.pr
  /\ \A n \in DOMAIN seenPR[c] : seenPR[c][n].status # "Unknown"

Settled == pc = "artifacts" /\ Unreached = {} /\ my.obj.outstanding = 0

SettleSilently ==
  /\ Settled
  /\ ~MustNotify(cur)
  /\ pc' = "save"
  /\ my' = [my EXCEPT !.obj.state = Verdict(my.obj)]
  /\ UNCHANGED <<cluster, req, batch, cur, left, gav>>

CreatePipelineRun(c) ==
  /\ MustNotify(c)
  /\ Len(pipelineRuns[c]) < MaxPipelineRuns
  /\ pipelineRuns' = [pipelineRuns EXCEPT ![c] =
                        Append(@, [msg |-> Verdict(my.obj), about |-> my.obj.spec,
                                  status |-> "Unknown"])]

SettleAndNotify ==
  /\ Settled
  /\ CreatePipelineRun(cur)
  /\ pc' = "save"
  /\ my' = [my EXCEPT !.obj.state = Verdict(my.obj)]
  /\ UNCHANGED <<artifactBuild, dependencyBuild, componentBuild, taskRuns,
                 config, caches, history, queue, budget, req, batch, cur, left, gav>>

NotifyFails ==
  /\ Settled
  /\ \/ ~my.obj.notified /\ my.obj.spec.pr /\ Spend("read")
     \/ /\ MustNotify(cur)
        /\ \/ Len(pipelineRuns[cur]) = MaxPipelineRuns /\ UNCHANGED budget
           \/ Spend("fault")
  /\ Return(TRUE)
  /\ UNCHANGED <<api, caches, history>>

\* The PipelineRun is created, but the answer is an error.
NotifyUnanswered ==
  /\ Settled
  /\ CreatePipelineRun(cur)
  /\ Spend("lost")
  /\ Return(TRUE)
  /\ UNCHANGED <<artifactBuild, dependencyBuild, componentBuild, taskRuns,
                 config, caches, history>>

\* Mutant of UpdateStatus: the resourceVersion of the copy is not checked.
UpdateStatusUnchecked ==
  /\ componentBuild' = [componentBuild EXCEPT
                          ![cur] = [my.obj EXCEPT !.spec = componentBuild[cur].spec]]
  /\ seenCB' = IF my.obj = componentBuild[cur] THEN seenCB
                                               ELSE Outdate(cur, seenCB)

\* Status().Update: the API server takes a copy that is current, and a copy
\* that changes nothing leaves no trace.
UpdateStatus ==
  /\ my.fresh
  /\ componentBuild' = [componentBuild EXCEPT ![cur] = my.obj]
  /\ seenCB' = IF my.obj = componentBuild[cur] THEN seenCB
                                               ELSE Outdate(cur, seenCB)

SaveStatus ==
  /\ pc = "save"
  /\ UpdateStatus
  /\ \/ Return(FALSE) /\ UNCHANGED budget
     \/ Return(TRUE) /\ Spend("lost")
  /\ UNCHANGED <<artifactBuild, dependencyBuild, taskRuns, pipelineRuns,
                 config, seenAB, seenRA, seenDB, seenTR, seenPR, history>>

SaveStatusFails ==
  /\ pc = "save"
  /\ \/ ~my.fresh /\ UNCHANGED budget
     \/ Spend("fault")
  /\ Return(TRUE)
  /\ UNCHANGED <<api, caches, history>>

-----------------------------------------------------------------------------
(* The specification.                                                      *)

Handle ==
  \/ \E c \in ComponentBuilds : TakeComponentBuild(c) \/ PickListed(c)
  \/ \E g \in Artifacts : TakeArtifactBuild(g)
  \/ \E d \in DependencyBuilds : \E n \in DOMAIN seenTR[d] :
       \/ TakeRunningTaskRun(d, n)
       \/ TakeEndedTaskRun(d, n)
       \/ EndedTaskRunUnlisted(d, n)
  \/ \E c \in ComponentBuilds : \E n \in DOMAIN seenPR[c] :
       \/ TakeRunningPipelineRun(c, n)
       \/ TakeFailedPipelineRun(c, n)
       \/ TakeSucceededPipelineRun(c, n)
  \/ \E key \in queue : DispatchFails(key)

Loop ==
  \/ ConfigUnreadable \/ ConfigMissing \/ ConfigFound
  \/ \E g \in Unreached :
       \/ FoundArtifact(g) \/ UnreadableArtifact(g)
       \/ CreateArtifactBuild(g) \/ CreateArtifactBuildFails(g)
       \/ CreateArtifactBuildUnanswered(g)
  \/ DeployArtifact \/ DeployNothing

Finish ==
  \/ StillOutstanding \/ SettleSilently \/ SettleAndNotify
  \/ NotifyFails \/ NotifyUnanswered
  \/ SaveStatus \/ SaveStatusFails

Worker == Handle \/ Loop \/ Finish

Sync ==
  \/ SyncArtifactBuilds \/ SyncComponentBuilds \/ SyncTaskRuns
  \/ SyncPipelineRuns \/ SyncRebuiltArtifacts \/ SyncDependencyBuilds

Edit(c, spec) ==
  /\ EditSpec(c, spec)
  /\ batch' = Outdate(c, batch)
  /\ my' = IF c = cur THEN Outdated(my) ELSE my
  /\ UNCHANGED <<pc, req, cur, left, gav>>

Restart ==
  /\ Relist
  /\ pc' = "idle" /\ req' = NoRequest /\ batch' = NoBatch
  /\ cur' = Nobody /\ my' = NoCopy /\ left' = NothingLeft /\ gav' = Nobody

IdleResync == pc = "idle" /\ Resync /\ UNCHANGED worker

\* What others finish without being asked to again.
Settling ==
  \/ CreateConfig
  \/ \E g \in Artifacts, o \in {"complete", "failed"} : BuildEnds(g, o)
  \/ \E d \in DependencyBuilds : \E n \in DOMAIN taskRuns[d] :
       \E s \in {"True", "False"} : TaskRunEnds(d, n, s)
  \/ \E c \in ComponentBuilds : \E n \in DOMAIN pipelineRuns[c] :
       \E s \in {"True", "False"} : PipelineRunEnds(c, n, s)

Next ==
  \/ Worker
  \/ (Sync \/ Settling \/ \E g \in Artifacts : RetryBuild(g)) /\ UNCHANGED worker
  \/ \E c \in ComponentBuilds, spec \in EditedSpecs : Edit(c, spec)
  \/ Restart
  \/ IdleResync

\* Every part of the system keeps going, a disturbance excepted: the worker
\* finishes what it started and takes what is queued, the informers deliver,
\* builds and runs end, the configuration is created and the caches resync.
\* The queue is first in, first out, and delays a key whose request has failed
\* behind the others: strong fairness for each key.
Fairness ==
  /\ WF_vars(Worker)
  /\ \A key \in Keys : SF_vars(Handle /\ key \in queue /\ key \notin queue')
  /\ WF_vars(SyncArtifactBuilds /\ UNCHANGED worker)
  /\ WF_vars(SyncComponentBuilds /\ UNCHANGED worker)
  /\ WF_vars(SyncTaskRuns /\ UNCHANGED worker)
  /\ WF_vars(SyncPipelineRuns /\ UNCHANGED worker)
  /\ WF_vars(SyncRebuiltArtifacts /\ UNCHANGED worker)
  /\ WF_vars(SyncDependencyBuilds /\ UNCHANGED worker)
  /\ WF_vars(Settling /\ UNCHANGED worker)
  /\ WF_vars(IdleResync)

Spec == Init /\ [][Next]_vars
FairSpec == Spec /\ Fairness

-----------------------------------------------------------------------------
(* Properties.                                                             *)

\* g is available: its build is marked as deployed, and a deploy TaskRun of
\* that build has succeeded.
Available(g) ==
  /\ dependencyBuild[BuiltBy[g]]
  /\ \E n \in DOMAIN taskRuns[BuiltBy[g]] :
       taskRuns[BuiltBy[g]][n].status = "True"

\* A verdict that the API server holds is one on a whole spec that the
\* ComponentBuild has had, and it is earned: "Complete" has every artifact of it
\* in the Maven repository, "Failed" lists one whose build did fail.
VerdictIsEarned ==
  \A c \in ComponentBuilds : LET cb == componentBuild[c] IN
    cb.state \in {"Failed", "Complete"} => \E spec \in specs[c] :
      /\ Listed(spec) = {g \in Artifacts : cb.artifacts[g] # "none"}
      /\ cb.state = "Complete" => \A g \in Listed(spec) : Available(g)
      /\ cb.state = "Failed" =>
           \E g \in Listed(spec) \cap broken : cb.artifacts[g] = "failed"

\* What a pull request is told is true, of a spec that named it: a notification
\* of success is only created when every artifact the worker has been through
\* is available, and one of failure only when a build of one has failed.
ReportIsTrue ==
  \A c \in ComponentBuilds : \A n \in DOMAIN pipelineRuns[c] :
    LET run == pipelineRuns[c][n] IN
    /\ run.about \in specs[c] /\ run.about.pr
    /\ run.msg = "Complete" => \A g \in Listed(run.about) : Available(g)
    /\ run.msg = "Failed" => Listed(run.about) \cap broken # {}

\* The counter, the state and the entries of a stored status agree, whichever
\* handler wrote it last and whatever copy it started from. The counter is that
\* of the entries, unless the ComponentBuild was made to list a GAV twice: each
\* time counts, and the cache may have moved on between the two.
StatusConsistent ==
  \A c \in ComponentBuilds :
    LET cb == componentBuild[c]
        entries == Cardinality({g \in Artifacts :
                                  cb.artifacts[g] \in {"pending", "built"}})
    IN /\ cb.outstanding >= entries
       /\ cb.outstanding > entries => \E spec \in specs[c] : Repeats(spec)
       /\ cb.state = "InProgress" <=> cb.outstanding > 0
       /\ cb.state \in {"Failed", "Complete"} => cb.state = Verdict(cb)

\* ResultNotified is only ever stored after a notification has succeeded.
NotifiedIsDelivered ==
  \A c \in ComponentBuilds :
    componentBuild[c].notified =>
      \E n \in DOMAIN pipelineRuns[c] : pipelineRuns[c][n].status = "True"

\* A stored ResultNotified is only taken back because artifacts are
\* outstanding again: no handler overwrites it from an older copy.
NotifiedIsKept ==
  [][\A c \in ComponentBuilds :
       componentBuild[c].notified /\ ~componentBuild'[c].notified =>
         componentBuild'[c].state = "InProgress"]_vars

\* A complete ComponentBuild is only taken back when its spec lists an artifact
\* that its status does not have, or when a read failed.
CompleteIsKept ==
  [][\A c \in ComponentBuilds : LET cb == componentBuild[c] IN
       cb.state = "Complete" /\ componentBuild'[c].state # "Complete" =>
         \/ \E g \in Listed(cb.spec) : cb.artifacts[g] = "none"
         \/ budget["read"] < Budget["read"]]_vars

\* Every ComponentBuild is settled in the end, whatever was lost on the way.
Settles ==
  \A c \in ComponentBuilds :
    <>[](componentBuild[c].state \in {"Failed", "Complete"})

\* Every pull request is told a result in the end.
Reports ==
  \A c \in ComponentBuilds :
    <>[](componentBuild[c].spec.pr => componentBuild[c].notified)

\* What a spec asks for, in the terms of BuildPromise.
Request(spec) == [needs |-> Listed(spec), pr |-> spec.pr]

\* The operator keeps the promise of BuildPromise.
Promise == INSTANCE BuildPromise WITH
  asked <- [c \in ComponentBuilds |-> Request(componentBuild[c].spec)],
  requests <- [c \in ComponentBuilds |-> {Request(spec) : spec \in specs[c]}],
  published <- {d \in DependencyBuilds :
                  \E n \in DOMAIN taskRuns[d] : taskRuns[d][n].status = "True"},
  deployed <- {d \in DependencyBuilds : dependencyBuild[d]},
  verdict <- [c \in ComponentBuilds |-> componentBuild[c].state],
  told <- [c \in ComponentBuilds |->
             {pipelineRuns[c][n].msg : n \in DOMAIN pipelineRuns[c]}],
  heard <- [c \in ComponentBuilds |->
              {pipelineRuns[c][n].msg : n \in {m \in DOMAIN pipelineRuns[c] :
                                         pipelineRuns[c][m].status = "True"}}],
  notified <- [c \in ComponentBuilds |-> componentBuild[c].notified]

PromiseKept == Promise!Spec

-----------------------------------------------------------------------------
(* What the code says of itself, and does not do.                          *)

\* "if there are still some outstanding we reset the notification state", so
\* that a later success sends "/retest Success all dependency builds have
\* completed.": where a complete ComponentBuild is marked as notified, that
\* message was sent.
CompleteIsRetested ==
  \A c \in ComponentBuilds :
    componentBuild[c].state = "Complete" /\ componentBuild[c].notified =>
      \E n \in DOMAIN pipelineRuns[c] : pipelineRuns[c][n].msg = "Complete"

=============================================================================

------------------------- MODULE ReconcilerRefinement -------------------------
(***************************************************************************)
(* Reconciler implements BuildPromise, for all values of the constants.    *)
(***************************************************************************)
EXTENDS ReconcilerProofs

USE DEF vars, cluster, worker, api, caches, history

-----------------------------------------------------------------------------
(* The state of BuildPromise, as Reconciler represents it.                 *)

Asked == [c \in ComponentBuilds |-> Request(componentBuild[c].spec)]
Requested == [c \in ComponentBuilds |-> {Request(spec) : spec \in specs[c]}]
Judged == [c \in ComponentBuilds |-> componentBuild[c].state]
Marked == [c \in ComponentBuilds |-> componentBuild[c].notified]

Published ==
  {d \in DependencyBuilds : \E n \in DOMAIN taskRuns[d] : taskRuns[d][n].status = "True"}
Deployed == {d \in DependencyBuilds : dependencyBuild[d]}

\* The messages of a sequence of notifications, and those that arrived.
Messages(runs) == {runs[n].msg : n \in DOMAIN runs}
Delivered(runs) ==
  {runs[n].msg : n \in {m \in DOMAIN runs : runs[m].status = "True"}}

Told == [c \in ComponentBuilds |-> Messages(pipelineRuns[c])]
Heard == [c \in ComponentBuilds |-> Delivered(pipelineRuns[c])]

promise ==
  <<Asked, Requested, broken, Published, Deployed, Judged, Told, Heard, Marked>>

LEMMA Mapping ==
  /\ Promise!vars = promise
  /\ Promise!Init <=> /\ Asked = [c \in ComponentBuilds |-> Promise!FirstRequest(c)]
                      /\ Requested = [c \in ComponentBuilds |-> {Promise!FirstRequest(c)}]
                      /\ broken = {} /\ Published = {} /\ Deployed = {}
                      /\ Judged = [c \in ComponentBuilds |-> ""]
                      /\ Told = [c \in ComponentBuilds |-> {}]
                      /\ Heard = [c \in ComponentBuilds |-> {}]
                      /\ Marked = [c \in ComponentBuilds |-> FALSE]
BY DEF Promise!vars, Promise!Init, promise, Asked, Requested, Published, Deployed,
       Judged, Told, Heard, Marked, Messages, Delivered

\* The steps of BuildPromise, in those terms.
LEMMA AskStep ==
  ASSUME NEW c \in ComponentBuilds, NEW request \in Promise!Requests,
         Asked' = [Asked EXCEPT ![c] = request],
         Requested' = [Requested EXCEPT ![c] = @ \cup {request}],
         UNCHANGED <<broken, Published, Deployed, Judged, Told, Heard, Marked>>
  PROVE  Promise!Next
<1>1. Promise!Ask(c, request)
  BY DEF Promise!Ask, Asked, Requested, Published, Deployed, Judged, Told, Heard, Marked,
         Messages, Delivered
<1> QED
  BY <1>1 DEF Promise!Next

LEMMA BreakStep ==
  ASSUME NEW g \in Artifacts,
         broken' = broken \cup {g},
         UNCHANGED <<Asked, Requested, Published, Deployed, Judged, Told, Heard, Marked>>
  PROVE  Promise!Next
<1>1. Promise!Break(g)
  BY DEF Promise!Break, Asked, Requested, Published, Deployed, Judged, Told, Heard,
         Marked, Messages, Delivered
<1> QED
  BY <1>1 DEF Promise!Next

LEMMA PublishStep ==
  ASSUME NEW d \in DependencyBuilds,
         Published' = Published \cup {d},
         UNCHANGED <<Asked, Requested, broken, Deployed, Judged, Told, Heard, Marked>>
  PROVE  Promise!Next
<1>1. Promise!Publish(d)
  BY DEF Promise!Publish, Asked, Requested, Published, Deployed, Judged, Told, Heard,
         Marked, Messages, Delivered
<1> QED
  BY <1>1 DEF Promise!Next

LEMMA MarkStep ==
  ASSUME NEW d \in DependencyBuilds,
         d \in Published,
         Deployed' = Deployed \cup {d},
         UNCHANGED <<Asked, Requested, broken, Published, Judged, Told, Heard, Marked>>
  PROVE  Promise!Next
<1>1. Promise!Mark(d)
  BY DEF Promise!Mark, Asked, Requested, Published, Deployed, Judged, Told, Heard,
         Marked, Messages, Delivered
<1> QED
  BY <1>1 DEF Promise!Next

LEMMA JudgeStep ==
  ASSUME NEW c \in ComponentBuilds, NEW v \in {"Complete", "Failed"},
         Promise!IsTrueOf(v, Asked[c].needs),
         Judged' = [Judged EXCEPT ![c] = v],
         UNCHANGED <<Asked, Requested, broken, Published, Deployed, Told, Heard, Marked>>
  PROVE  Promise!Next
<1>1. Promise!Judge(c, v)
  BY DEF Promise!Judge, Promise!IsTrueOf, Asked, Requested, Published, Deployed, Judged,
         Told, Heard, Marked, Messages, Delivered
<1> QED
  BY <1>1 DEF Promise!Next

LEMMA ResumeStep ==
  ASSUME NEW c \in ComponentBuilds,
         Judged' = [Judged EXCEPT ![c] = "InProgress"],
         Marked' = [Marked EXCEPT ![c] = FALSE],
         UNCHANGED <<Asked, Requested, broken, Published, Deployed, Told, Heard>>
  PROVE  Promise!Next
<1>1. Promise!Resume(c)
  BY DEF Promise!Resume, Asked, Requested, Published, Deployed, Judged, Told, Heard,
         Marked, Messages, Delivered
<1> QED
  BY <1>1 DEF Promise!Next

LEMMA TellStep ==
  ASSUME NEW c \in ComponentBuilds, NEW v \in {"Complete", "Failed"},
         NEW request \in Requested[c], request.pr,
         Promise!IsTrueOf(v, request.needs),
         Told' = [Told EXCEPT ![c] = @ \cup {v}],
         UNCHANGED <<Asked, Requested, broken, Published, Deployed, Judged, Heard, Marked>>
  PROVE  Promise!Next
<1>1. Promise!Tell(c, v, request)
  BY DEF Promise!Tell, Promise!IsTrueOf, Asked, Requested, Published, Deployed, Judged,
         Told, Heard, Marked, Messages, Delivered
<1> QED
  BY <1>1 DEF Promise!Next, Requested

LEMMA DeliverStep ==
  ASSUME NEW c \in ComponentBuilds, NEW v \in {"Complete", "Failed"},
         v \in Told[c],
         Heard' = [Heard EXCEPT ![c] = @ \cup {v}],
         UNCHANGED <<Asked, Requested, broken, Published, Deployed, Judged, Told, Marked>>
  PROVE  Promise!Next
<1>1. Promise!Deliver(c, v)
  BY DEF Promise!Deliver, Asked, Requested, Published, Deployed, Judged, Told, Heard,
         Marked, Messages, Delivered
<1> QED
  BY <1>1 DEF Promise!Next

LEMMA AcknowledgeStep ==
  ASSUME NEW c \in ComponentBuilds,
         Heard[c] # {},
         Marked' = [Marked EXCEPT ![c] = TRUE],
         UNCHANGED <<Asked, Requested, broken, Published, Deployed, Judged, Told, Heard>>
  PROVE  Promise!Next
<1>1. Promise!Acknowledge(c)
  BY DEF Promise!Acknowledge, Asked, Requested, Published, Deployed, Judged, Told, Heard,
         Marked, Messages, Delivered
<1> QED
  BY <1>1 DEF Promise!Next

\* A verdict on artifacts that are all settled, or one of which has failed.
LEMMA TrueOf ==
  ASSUME NEW v, NEW gs \in SUBSET Artifacts,
         \/ v = "Complete" /\ gs \subseteq SettledArtifacts
         \/ v = "Failed" /\ gs \cap broken # {}
  PROVE  Promise!IsTrueOf(v, gs)
<1>1. \A g \in SettledArtifacts : BuiltBy[g] \in Deployed
  BY Assumptions DEF SettledArtifacts, Deployed
<1> QED
  BY <1>1 DEF Promise!IsTrueOf, Deployed

-----------------------------------------------------------------------------
(* Which part of the promise a part of the state stands for.               *)

LEMMA SameComponentBuilds ==
  UNCHANGED <<componentBuild, specs>> => UNCHANGED <<Asked, Requested, Judged, Marked>>
BY DEF Asked, Requested, Judged, Marked

LEMMA SameTaskRuns == UNCHANGED taskRuns => UNCHANGED Published
BY DEF Published

LEMMA SameDependencyBuilds == UNCHANGED dependencyBuild => UNCHANGED Deployed
BY DEF Deployed

LEMMA SamePipelineRuns == UNCHANGED pipelineRuns => UNCHANGED <<Told, Heard>>
BY DEF Told, Heard

LEMMA SameApi ==
  UNCHANGED <<componentBuild, taskRuns, dependencyBuild, pipelineRuns, history>> =>
    UNCHANGED promise
BY SameComponentBuilds, SameTaskRuns, SameDependencyBuilds, SamePipelineRuns
   DEF promise
-----------------------------------------------------------------------------
(* Every step of Reconciler is a step of BuildPromise, or none.            *)

Kept == Promise!Next \/ UNCHANGED promise

\* The worker stores a status: a verdict on the whole spec, the way back to
\* InProgress, or the mark of a notification that was delivered.
LEMMA SaveStatusKeeps ==
  ASSUME SafeInv, SaveStatus
  PROVE  Kept
<1>1. /\ cur \in ComponentBuilds
      /\ componentBuild \in [ComponentBuilds -> ComponentBuildObjects]
      /\ my.obj \in ComponentBuildObjects
      /\ componentBuild' = [componentBuild EXCEPT ![cur] = my.obj]
      /\ Sound(cur, my.obj, specs[cur], SettledArtifacts, broken, Reached)
      /\ my.obj.spec = componentBuild[cur].spec
      /\ Reconsidered(my.obj, componentBuild[cur])
      /\ UNCHANGED <<taskRuns, dependencyBuild, pipelineRuns, history>>
  BY CopyTypes DEF SaveStatus, UpdateStatus, SafeInv, LocalInv, TypeOK, ClusterTypeOK,
                   WorkerTypeOK, WorkIsSound, SoundVersion
<1>2. /\ UNCHANGED <<Asked, Requested>>
      /\ Judged' = [Judged EXCEPT ![cur] = my.obj.state]
      /\ Marked' = [Marked EXCEPT ![cur] = my.obj.notified]
  BY <1>1 DEF Asked, Requested, Judged, Marked
<1>3. UNCHANGED <<broken, Published, Deployed, Told, Heard>>
  BY <1>1, SameTaskRuns, SameDependencyBuilds, SamePipelineRuns
<1>4. /\ Judged[cur] = componentBuild[cur].state
      /\ Marked[cur] = componentBuild[cur].notified
      /\ Asked[cur].needs = Listed(componentBuild[cur].spec)
      /\ Judged = [Judged EXCEPT ![cur] = Judged[cur]]
      /\ Marked = [Marked EXCEPT ![cur] = Marked[cur]]
  BY <1>1 DEF Judged, Marked, Asked, Request
<1>5. CASE my.obj.state = componentBuild[cur].state
           /\ (componentBuild[cur].notified => my.obj.notified)
  <2>1. UNCHANGED Judged
    BY <1>2, <1>4, <1>5
  <2>2. CASE my.obj.notified = componentBuild[cur].notified
    BY <1>2, <1>3, <1>4, <2>1, <2>2 DEF Kept, promise
  <2>3. CASE my.obj.notified # componentBuild[cur].notified
    <3>1. my.obj.notified = TRUE /\ cur \in Reached
      BY <1>1, <1>5, <2>3 DEF Sound, ComponentBuildObjects
    <3>2. Heard[cur] # {}
      BY <1>1, <3>1 DEF Reached, Heard, Delivered
    <3> QED
      BY <1>1, <1>2, <1>3, <2>1, <3>1, <3>2, AcknowledgeStep DEF Kept
  <2> QED
    BY <2>2, <2>3
<1>6. CASE my.obj.state = "InProgress" /\ ~my.obj.notified
  <2>1. Marked' = [Marked EXCEPT ![cur] = FALSE]
    BY <1>1, <1>2, <1>6 DEF ComponentBuildObjects
  <2> QED
    BY <1>1, <1>2, <1>3, <1>6, <2>1, ResumeStep DEF Kept
<1>7. CASE /\ my.obj.state \in {"Failed", "Complete"}
           /\ Recorded(my.obj) = Listed(my.obj.spec)
           /\ my.obj.notified = componentBuild[cur].notified
  <2>1. UNCHANGED Marked
    BY <1>2, <1>4, <1>7
  <2>2. /\ Verdict(my.obj) = my.obj.state
        /\ Counted(my.obj, specs[cur])
        /\ my.obj.outstanding = 0
    BY <1>1, <1>7 DEF Sound, ComponentBuildObjects
  <2>3. Outstanding(my.obj) = {}
    BY <2>2, NoneOutstanding
  <2>4. CASE my.obj.state = "Complete"
    <3>1. \A g \in Listed(my.obj.spec) : g \in Artifacts /\ my.obj.artifacts[g] = "deployed"
      BY <1>1, <1>7, <2>2, <2>3, <2>4
         DEF Recorded, Outstanding, Verdict, ComponentBuildObjects, EntryStates
    <3>2. Asked[cur].needs \subseteq SettledArtifacts
      BY <1>1, <1>4, <3>1 DEF Sound, EntriesSound
    <3>3. Promise!IsTrueOf("Complete", Asked[cur].needs)
      BY <1>4, <3>2, TrueOf DEF Listed
    <3> QED
      BY <1>1, <1>2, <1>3, <2>1, <2>4, <3>3, JudgeStep DEF Kept
  <2>5. CASE my.obj.state = "Failed"
    <3>1. PICK g \in Artifacts : my.obj.artifacts[g] = "failed"
      BY <2>2, <2>5 DEF Verdict
    <3>2. g \in Asked[cur].needs \cap broken
      BY <1>1, <1>4, <1>7, <3>1 DEF Sound, EntriesSound, Recorded
    <3>3. Promise!IsTrueOf("Failed", Asked[cur].needs)
      BY <1>4, <3>2, TrueOf DEF Listed
    <3> QED
      BY <1>1, <1>2, <1>3, <2>1, <2>5, <3>3, JudgeStep DEF Kept
  <2> QED
    BY <1>7, <2>4, <2>5
<1> QED
  BY <1>1, <1>5, <1>6, <1>7 DEF Reconsidered

\* A notification is created: the pull request is told a verdict that is so.
LEMMA NotificationKeeps ==
  ASSUME SafeInv, Settled, CreatePipelineRun(cur),
         UNCHANGED <<componentBuild, taskRuns, dependencyBuild, history>>
  PROVE  Kept
<1>1. /\ cur \in ComponentBuilds /\ my.obj \in ComponentBuildObjects
      /\ pipelineRuns \in [ComponentBuilds -> Seq(PipelineRuns)]
      /\ specs[cur] \subseteq Specs /\ left \in [Artifacts -> Nat]
      /\ \A g \in Artifacts : left[g] = 0
  BY CopyTypes, Assumptions DEF Settled, Unreached, SafeInv, TypeOK, ClusterTypeOK, WorkerTypeOK
<1> DEFINE v == Verdict(my.obj)
           run == [msg |-> v, about |-> my.obj.spec, status |-> "Unknown"]
           runs == pipelineRuns[cur]
           request == Request(my.obj.spec)
<1>2. /\ my.obj.spec.pr
      /\ pipelineRuns' = [pipelineRuns EXCEPT ![cur] = Append(runs, run)]
  BY DEF CreatePipelineRun, MustNotify
<1>3. v \in {"Complete", "Failed"} /\ run \in PipelineRuns /\ runs \in Seq(PipelineRuns)
  BY <1>1, VerdictTypes DEF PipelineRuns, RunStates, ComponentBuildObjects
<1>4. /\ DOMAIN runs = 1 .. Len(runs)
      /\ DOMAIN Append(runs, run) = 1 .. Len(runs) + 1
      /\ \A n \in 1 .. Len(runs) : Append(runs, run)[n] = runs[n]
      /\ Append(runs, run)[Len(runs) + 1] = run
      /\ Len(runs) \in Nat
  BY <1>3, AppendProperties, LenProperties
<1>5. run.msg = v /\ run.status = "Unknown"
  OBVIOUS
<1>6. SoundSoFar(cur, my.obj, left, specs[cur], SettledArtifacts, broken, Reached)
  BY DEF Settled, SafeInv, LocalInv, WorkIsSound, SoundWork
<1>7. request \in Requested[cur] /\ request.pr /\ Promise!IsTrueOf(v, request.needs)
  <2>1. /\ v = "Complete" => Listed(my.obj.spec) \subseteq SettledArtifacts
        /\ v = "Failed" => Listed(my.obj.spec) \cap broken # {}
    BY <1>1, <1>6, VerdictIsSound DEF Settled
  <2>2. my.obj.spec \in specs[cur]
    BY <1>6 DEF SoundSoFar
  <2>3. request.needs = Listed(my.obj.spec) /\ request.pr = my.obj.spec.pr
    BY DEF Request
  <2>4. Promise!IsTrueOf(v, request.needs)
    BY <1>3, <2>1, <2>3, TrueOf DEF Listed
  <2>5. request \in Requested[cur]
    BY <1>1, <2>2 DEF Requested
  <2> QED
    BY <1>2, <2>3, <2>4, <2>5
<1> HIDE DEF v, run, request
<1>8. Told' = [Told EXCEPT ![cur] = @ \cup {v}]
  <2>1. Messages(Append(runs, run)) = Messages(runs) \cup {v}
    BY <1>4, <1>5 DEF Messages
  <2> QED
    BY <1>1, <1>2, <2>1 DEF Told
<1>9. UNCHANGED Heard
  <2>1. {m \in DOMAIN Append(runs, run) : Append(runs, run)[m].status = "True"}
          = {m \in DOMAIN runs : runs[m].status = "True"}
    BY <1>4, <1>5
  <2>2. Delivered(Append(runs, run)) = Delivered(runs)
    BY <1>4, <2>1 DEF Delivered
  <2> QED
    BY <1>1, <1>2, <2>2 DEF Heard
<1>10. UNCHANGED <<Asked, Requested, broken, Published, Deployed, Judged, Marked>>
  BY SameComponentBuilds, SameTaskRuns, SameDependencyBuilds
<1> QED
  BY <1>1, <1>2, <1>3, <1>7, <1>8, <1>9, <1>10, TellStep DEF Kept

\* A deploy TaskRun is created, or ends.
LEMMA DeployKeeps ==
  ASSUME SafeInv, DeployArtifact
  PROVE  Kept
<1>1. gav \in Artifacts /\ BuiltBy[gav] \in DependencyBuilds
  BY Assumptions DEF DeployArtifact, SafeInv, TypeOK, WorkerTypeOK
<1> DEFINE e == BuiltBy[gav]
           run == [gav |-> gav, status |-> "Unknown"]
           runs == taskRuns[e]
<1>2. /\ taskRuns \in [DependencyBuilds -> Seq(TaskRuns)]
      /\ taskRuns' = [taskRuns EXCEPT ![e] = Append(runs, run)]
      /\ UNCHANGED <<componentBuild, dependencyBuild, pipelineRuns, history>>
  BY DEF DeployArtifact, SafeInv, TypeOK, ClusterTypeOK
<1>3. runs \in Seq(TaskRuns) /\ run \in TaskRuns /\ run.status = "Unknown"
  BY <1>1, <1>2 DEF TaskRuns, RunStates
<1>4. /\ DOMAIN runs = 1 .. Len(runs)
      /\ DOMAIN Append(runs, run) = 1 .. Len(runs) + 1
      /\ \A n \in 1 .. Len(runs) : Append(runs, run)[n] = runs[n]
      /\ Append(runs, run)[Len(runs) + 1] = run
      /\ Len(runs) \in Nat
  BY <1>3, AppendProperties, LenProperties
<1>5. (\E n \in DOMAIN Append(runs, run) : Append(runs, run)[n].status = "True")
        <=> \E n \in DOMAIN runs : runs[n].status = "True"
  BY <1>3, <1>4
<1> HIDE DEF run
<1>6. taskRuns'[e] = Append(runs, run) /\ \A d \in DependencyBuilds \ {e} : taskRuns'[d] = taskRuns[d]
  BY <1>1, <1>2
<1>7. UNCHANGED Published
  BY <1>5, <1>6 DEF Published
<1> QED
  BY <1>2, <1>7, SameComponentBuilds, SameDependencyBuilds, SamePipelineRuns
     DEF Kept, promise

LEMMA TaskRunEndsKeeps ==
  ASSUME SafeInv, NEW d \in DependencyBuilds, NEW n \in DOMAIN taskRuns[d],
         NEW s \in {"True", "False"}, TaskRunEnds(d, n, s)
  PROVE  Kept
<1>1. /\ taskRuns \in [DependencyBuilds -> Seq(TaskRuns)]
      /\ taskRuns[d] \in Seq(TaskRuns) /\ taskRuns[d][n] \in TaskRuns
  BY LenProperties, ElementOfSeq DEF SafeInv, TypeOK, ClusterTypeOK
<1> DEFINE ended == [taskRuns[d] EXCEPT ![n].status = s]
<1>2. /\ taskRuns' = [taskRuns EXCEPT ![d] = ended]
      /\ taskRuns[d][n].status = "Unknown"
      /\ UNCHANGED <<componentBuild, dependencyBuild, pipelineRuns, history>>
  BY DEF TaskRunEnds
<1>3. /\ DOMAIN ended = DOMAIN taskRuns[d]
      /\ ended[n].status = s
      /\ \A m \in DOMAIN taskRuns[d] \ {n} : ended[m] = taskRuns[d][m]
  BY <1>1 DEF TaskRuns
<1> HIDE DEF ended
<1>4. taskRuns'[d] = ended /\ \A e \in DependencyBuilds \ {d} : taskRuns'[e] = taskRuns[e]
  BY <1>1, <1>2
<1>5. UNCHANGED <<Asked, Requested, broken, Deployed, Judged, Told, Heard, Marked>>
  BY <1>2, SameComponentBuilds, SameDependencyBuilds, SamePipelineRuns
<1>6. CASE s = "True"
  <2>1. Published' = Published \cup {d}
    BY <1>3, <1>4, <1>6 DEF Published
  <2> QED
    BY <1>5, <2>1, PublishStep DEF Kept
<1>7. CASE s = "False"
  <2>1. UNCHANGED Published
    BY <1>2, <1>3, <1>4, <1>7 DEF Published
  <2> QED
    BY <1>5, <2>1 DEF Kept, promise
<1> QED
  BY <1>6, <1>7

LEMMA PipelineRunEndsKeeps ==
  ASSUME SafeInv, NEW c \in ComponentBuilds, NEW n \in DOMAIN pipelineRuns[c],
         NEW s \in {"True", "False"}, PipelineRunEnds(c, n, s)
  PROVE  Kept
<1>1. /\ pipelineRuns \in [ComponentBuilds -> Seq(PipelineRuns)]
      /\ pipelineRuns[c] \in Seq(PipelineRuns) /\ pipelineRuns[c][n] \in PipelineRuns
  BY LenProperties, ElementOfSeq DEF SafeInv, TypeOK, ClusterTypeOK
<1> DEFINE runs == pipelineRuns[c]
           ended == [runs EXCEPT ![n].status = s]
           heard == {m \in DOMAIN runs : runs[m].status = "True"}
           v == runs[n].msg
<1>2. /\ pipelineRuns' = [pipelineRuns EXCEPT ![c] = ended]
      /\ runs[n].status = "Unknown"
      /\ UNCHANGED <<componentBuild, taskRuns, dependencyBuild, history>>
  BY DEF PipelineRunEnds
<1>3. /\ DOMAIN ended = DOMAIN runs
      /\ ended[n].status = s
      /\ \A m \in DOMAIN runs \ {n} : ended[m] = runs[m]
      /\ \A m \in DOMAIN runs : ended[m].msg = runs[m].msg
      /\ v \in {"Complete", "Failed"}
  BY <1>1 DEF PipelineRuns
<1> HIDE DEF ended
<1>4. UNCHANGED Told
  <2>1. Messages(ended) = Messages(runs)
    BY <1>3 DEF Messages
  <2> QED
    BY <1>1, <1>2, <2>1 DEF Told
<1>5. UNCHANGED <<Asked, Requested, broken, Published, Deployed, Judged, Marked>>
  BY <1>2, SameComponentBuilds, SameDependencyBuilds, SameTaskRuns
<1>6. CASE s = "True"
  <2>1. {m \in DOMAIN ended : ended[m].status = "True"} = heard \cup {n}
    BY <1>3, <1>6
  <2>2. Delivered(ended) = Delivered(runs) \cup {v}
    <3>1. {ended[k].msg : k \in heard \cup {n}} = {runs[k].msg : k \in heard} \cup {v}
      BY <1>3
    <3> QED
      BY <2>1, <3>1 DEF Delivered
  <2>3. Heard' = [Heard EXCEPT ![c] = @ \cup {v}]
    BY <1>1, <1>2, <2>2 DEF Heard
  <2>4. v \in Told[c]
    BY DEF Told, Messages
  <2> QED
    BY <1>3, <1>4, <1>5, <2>3, <2>4, DeliverStep DEF Kept
<1>7. CASE s = "False"
  <2>1. {m \in DOMAIN ended : ended[m].status = "True"} = heard
    BY <1>2, <1>3, <1>7
  <2>2. Delivered(ended) = Delivered(runs)
    BY <1>3, <2>1 DEF Delivered
  <2>3. UNCHANGED Heard
    BY <1>1, <1>2, <2>2 DEF Heard
  <2> QED
    BY <1>4, <1>5, <2>3 DEF Kept, promise
<1> QED
  BY <1>6, <1>7

-----------------------------------------------------------------------------

LEMMA HandlePromise ==
  ASSUME SafeInv, Handle
  PROVE  Kept
<1>1. CASE UNCHANGED dependencyBuild
  BY <1>1, Frames, SameApi DEF Kept
<1>2. ASSUME NEW d \in DependencyBuilds, NEW n \in DOMAIN seenTR[d],
             TakeEndedTaskRun(d, n) \/ EndedTaskRunUnlisted(d, n),
             dependencyBuild' # dependencyBuild
      PROVE  Kept
  <2>1. /\ seenTR[d][n].status = "True"
        /\ dependencyBuild' = [dependencyBuild EXCEPT ![BuiltBy[seenTR[d][n].gav]] = TRUE]
    BY <1>2 DEF TakeEndedTaskRun, EndedTaskRunUnlisted, Annotate
  <2>2. /\ n \in DOMAIN taskRuns[d] /\ taskRuns[d][n].status = "True"
        /\ BuiltBy[seenTR[d][n].gav] = d
        /\ dependencyBuild \in [DependencyBuilds -> BOOLEAN]
    <3>1. CachesAreOld /\ MarksAreTrue /\ ClusterTypeOK
      BY DEF SafeInv, SharedInv, LocalInv, TypeOK
    <3>2. n \in DOMAIN taskRuns[d] /\ taskRuns[d][n].status = "True"
          /\ seenTR[d][n].gav = taskRuns[d][n].gav
      BY <2>1, <3>1 DEF CachesAreOld
    <3> QED
      BY <3>1, <3>2 DEF MarksAreTrue, ClusterTypeOK
  <2>3. d \in Published
    BY <2>2 DEF Published
  <2>4. Deployed' = Deployed \cup {d}
    BY <2>1, <2>2 DEF Deployed
  <2>5. UNCHANGED <<componentBuild, taskRuns, pipelineRuns, history>>
    BY <1>2 DEF TakeEndedTaskRun, EndedTaskRunUnlisted
  <2>6. UNCHANGED <<Asked, Requested, broken, Published, Judged, Told, Heard, Marked>>
    BY <2>5, SameComponentBuilds, SameTaskRuns, SamePipelineRuns
  <2> QED
    BY <2>3, <2>4, <2>6, MarkStep DEF Kept
<1> QED
  BY <1>1, <1>2
     DEF Handle, TakeComponentBuild, PickListed, TakeArtifactBuild, TakeRunningTaskRun,
         TakeRunningPipelineRun, TakeFailedPipelineRun, TakeSucceededPipelineRun,
         DispatchFails

LEMMA LoopPromise ==
  ASSUME SafeInv, Loop
  PROVE  Kept
<1>1. CASE UNCHANGED taskRuns
  BY <1>1, Frames, SameApi DEF Kept
<1> QED
  BY <1>1, DeployKeeps
     DEF Loop, ConfigUnreadable, ConfigMissing, ConfigFound, FoundArtifact,
         UnreadableArtifact, CreateArtifactBuild, CreateArtifactBuildFails,
         CreateArtifactBuildUnanswered, DeployNothing

LEMMA FinishPromise ==
  ASSUME SafeInv, Finish
  PROVE  Kept
<1>1. UNCHANGED <<taskRuns, dependencyBuild, history>>
  BY Frames
<1>2. CASE UNCHANGED <<componentBuild, pipelineRuns>>
  BY <1>1, <1>2, SameApi DEF Kept
<1>3. CASE SettleAndNotify \/ NotifyUnanswered
  BY <1>1, <1>3, NotificationKeeps DEF SettleAndNotify, NotifyUnanswered
<1> QED
  BY <1>2, <1>3, SaveStatusKeeps
     DEF Finish, StillOutstanding, SettleSilently, NotifyFails, SaveStatusFails

LEMMA SettlingPromise ==
  ASSUME SafeInv, Settling \/ \E g \in Artifacts : RetryBuild(g)
  PROVE  Kept
<1>1. ASSUME NEW g \in Artifacts, NEW o \in {"complete", "failed"}, BuildEnds(g, o)
      PROVE  Kept
  <2>1. /\ UNCHANGED <<componentBuild, taskRuns, dependencyBuild, pipelineRuns, specs>>
        /\ broken' = broken \cup {g} \/ UNCHANGED broken
    BY <1>1 DEF BuildEnds
  <2>2. UNCHANGED <<Asked, Requested, Published, Deployed, Judged, Told, Heard, Marked>>
    BY <2>1, SameComponentBuilds, SameTaskRuns, SameDependencyBuilds, SamePipelineRuns
  <2> QED
    BY <2>1, <2>2, BreakStep DEF Kept, promise
<1>2. CASE CreateConfig \/ \E g \in Artifacts : RetryBuild(g)
  BY <1>2, SameApi DEF CreateConfig, RetryBuild, Kept
<1> QED
  BY <1>1, <1>2, TaskRunEndsKeeps, PipelineRunEndsKeeps DEF Settling

LEMMA EditPromise ==
  ASSUME SafeInv, NEW c \in ComponentBuilds, NEW spec \in EditedSpecs, Edit(c, spec)
  PROVE  Kept
<1> DEFINE request == Request(spec)
<1>1. /\ componentBuild \in [ComponentBuilds -> ComponentBuildObjects]
      /\ specs \in [ComponentBuilds -> SUBSET Specs]
      /\ componentBuild' = [componentBuild EXCEPT ![c].spec = spec]
      /\ specs' = [specs EXCEPT ![c] = @ \cup {spec}]
      /\ UNCHANGED <<taskRuns, dependencyBuild, pipelineRuns, broken>>
  BY DEF Edit, EditSpec, SafeInv, TypeOK, ClusterTypeOK
<1>2. /\ Asked' = [Asked EXCEPT ![c] = request]
      /\ UNCHANGED <<Judged, Marked>>
  BY <1>1 DEF Asked, Judged, Marked, ComponentBuildObjects
<1>3. Requested' = [Requested EXCEPT ![c] = @ \cup {request}]
  BY <1>1 DEF Requested
<1>4. request \in Promise!Requests
  BY EditedSpecsType DEF Promise!Requests, Request, Listed, Specs
<1>5. UNCHANGED <<broken, Published, Deployed, Told, Heard>>
  BY <1>1, SameTaskRuns, SameDependencyBuilds, SamePipelineRuns
<1> QED
  BY <1>2, <1>3, <1>4, <1>5, AskStep DEF Kept

LEMMA NextPromise == SafeInv /\ [Next]_vars => [Promise!Next]_(Promise!vars)
<1> SUFFICES ASSUME SafeInv, [Next]_vars PROVE Kept
  BY DEF Kept, Promise!vars, promise, Asked, Requested, Published, Deployed, Judged, Told, Heard,
         Marked, Messages, Delivered
<1>1. CASE UNCHANGED <<componentBuild, taskRuns, dependencyBuild, pipelineRuns, history>>
  BY <1>1, SameApi DEF Kept
<1>2. CASE Worker
  BY <1>2, HandlePromise, LoopPromise, FinishPromise DEF Worker
<1>3. CASE Sync
  BY <1>1, <1>3, Frames
<1>4. CASE \E c \in ComponentBuilds, spec \in EditedSpecs : Edit(c, spec)
  BY <1>4, EditPromise
<1>5. CASE Restart \/ IdleResync
  BY <1>1, <1>5 DEF Restart, Relist, IdleResync, Resync
<1> QED
  BY <1>1, <1>2, <1>3, <1>4, <1>5, SettlingPromise DEF Next

LEMMA InitPromise == Init => Promise!Init
<1> SUFFICES ASSUME Init PROVE Promise!Init
  OBVIOUS
<1>1. DOMAIN <<>> = {}
  OBVIOUS
<1>2. /\ Asked = [c \in ComponentBuilds |-> Promise!FirstRequest(c)]
      /\ Requested = [c \in ComponentBuilds |-> {Promise!FirstRequest(c)}]
  <2>1. \A c \in ComponentBuilds : Listed(FirstSpec(c)) = Wanted[c]
    BY Assumptions DEF Listed, FirstSpec
  <2>2. \A c \in ComponentBuilds : Request(FirstSpec(c)) = Promise!FirstRequest(c)
    BY <2>1 DEF Request, FirstSpec, Promise!FirstRequest
  <2> QED
    BY <2>2 DEF Init, ClusterInit, NewComponentBuild, Asked, Requested
<1>3. Published = {} /\ Deployed = {}
  BY <1>1 DEF Init, ClusterInit, Published, Deployed
<1>4. /\ Judged = [c \in ComponentBuilds |-> ""]
      /\ Marked = [c \in ComponentBuilds |-> FALSE]
  BY DEF Init, ClusterInit, NewComponentBuild, Judged, Marked
<1>5. /\ Told = [c \in ComponentBuilds |-> {}]
      /\ Heard = [c \in ComponentBuilds |-> {}]
  BY <1>1 DEF Init, ClusterInit, Told, Heard, Messages, Delivered
<1> QED
  BY <1>2, <1>3, <1>4, <1>5, Mapping DEF Init, ClusterInit

\* Reconciler implements BuildPromise.
THEOREM KeepsItsPromise == Spec => PromiseKept
<1>1. IInv => SafeInv
  BY DEF IInv
<1> QED
  BY <1>1, InitPromise, NextPromise, Invariance, PTL DEF Spec, PromiseKept, Promise!Spec

============================================================

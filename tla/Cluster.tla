------------------------------ MODULE Cluster ------------------------------
(***************************************************************************)
(* What the Apheleia operator shares with the rest of a namespace: the     *)
(* Kubernetes objects it reads and writes, its informer caches of them,    *)
(* its work queue, and the steps of everybody else: the analyser that      *)
(* edits a ComponentBuild, the administrator, the JVM Build Service that   *)
(* settles ArtifactBuilds, Tekton that ends TaskRuns and PipelineRuns, and *)
(* the informers that bring the caches up to date.                         *)
(*                                                                         *)
(* The operator itself is module Reconciler, which EXTENDS this one.       *)
(***************************************************************************)
EXTENDS Naturals, Sequences, FiniteSets

CONSTANTS
  ComponentBuilds,   \* the ComponentBuild objects of the namespace
  Artifacts,         \* the GAVs they may list
  DependencyBuilds,  \* the JVM Build Service builds that produce them
  BuiltBy,           \* BuiltBy[g]: the DependencyBuild that produces g
  Wanted,            \* Wanted[c]: Spec.Artifacts of c when it is created
  HasPR,             \* the ComponentBuilds created with a Spec.PRURL
  ConfigAtStart,     \* is the apheleia-config map complete at the start?
  EditedSpecs,       \* bound: the specs that an edit may leave behind
  MaxTaskRuns,       \* bound: deploy TaskRuns per DependencyBuild
  MaxPipelineRuns,   \* bound: notification PipelineRuns per ComponentBuild
  Budget,            \* bound: how often each kind of disturbance happens
  Nobody             \* no object

Disturbances ==
  { "fault",    \* a write the API server refuses for a reason of its own
    "lost",     \* a write that is done, but whose answer is an error
    "read",     \* a cached read that returns an error other than NotFound
    "restart",  \* the operator process dies and starts again
    "trfail",   \* a deploy TaskRun fails
    "prfail",   \* a notification PipelineRun fails
    "retry",    \* a failed ArtifactBuild is sent back to the build service
    "edit" }    \* a run of the analyser changes the spec of a ComponentBuild

ASSUME ArtifactsFinite == IsFiniteSet(Artifacts)
ASSUME BuiltByType == BuiltBy \in [Artifacts -> DependencyBuilds]
ASSUME WantedType == Wanted \in [ComponentBuilds -> SUBSET Artifacts]
ASSUME HasPRType == HasPR \subseteq ComponentBuilds
ASSUME ConfigType == ConfigAtStart \in BOOLEAN
ASSUME BoundsType ==
  /\ MaxTaskRuns \in Nat /\ MaxPipelineRuns \in Nat
  /\ Budget \in [Disturbances -> Nat]
ASSUME NobodyType == Nobody \notin ComponentBuilds \cup Artifacts

VARIABLES
  artifactBuild,    \* artifactBuild[g]: the state of the ArtifactBuild of g
  dependencyBuild,  \* dependencyBuild[d]: is d annotated as deployed?
  componentBuild,   \* componentBuild[c]: the spec and the status of c
  taskRuns,         \* taskRuns[d]: the deploy TaskRuns labelled with d
  pipelineRuns,     \* pipelineRuns[c]: the notification PipelineRuns of c
  config,           \* is the apheleia-config map complete?
  seenAB, seenRA, seenDB, seenCB, seenTR, seenPR,  \* the informer caches
  queue,            \* the keys that wait in the controller's work queue
  budget,           \* the disturbances left
  broken,           \* history: the artifacts whose build has ever failed
  specs             \* history: specs[c], every spec that c has had

api == <<artifactBuild, dependencyBuild, componentBuild, taskRuns,
         pipelineRuns, config>>
caches == <<seenAB, seenRA, seenDB, seenCB, seenTR, seenPR>>
history == <<broken, specs>>
cluster == <<api, caches, queue, budget, history>>

-----------------------------------------------------------------------------
(* The objects.                                                            *)

\* "failed" stands for ArtifactBuildFailed and ArtifactBuildMissing,
\* "building" for every other state short of ArtifactBuildComplete.
BuildStates == {"absent", "building", "failed", "complete"}

\* One entry of Status.ArtifactState: its Built, Deployed and Failed flags,
\* or "none" where the map has no entry.
EntryStates == {"none", "pending", "built", "deployed", "failed"}

ComponentBuildStates == {"", "InProgress", "Failed", "Complete"}

RunStates == {"Unknown", "True", "False"}

\* Spec.Artifacts is a list and may name a GAV more than once: gavs[g] says how
\* often it names g. Its order is left out. pr: is Spec.PRURL set?
Specs == [gavs: [Artifacts -> Nat], pr: BOOLEAN]

ASSUME EditedSpecsType == EditedSpecs \subseteq Specs

Listed(spec) == {g \in Artifacts : spec.gavs[g] > 0}
Repeats(spec) == \E g \in Artifacts : spec.gavs[g] > 1

\* The spec with which the analyser creates c: each of its artifacts once.
FirstSpec(c) ==
  [gavs |-> [g \in Artifacts |-> IF g \in Wanted[c] THEN 1 ELSE 0],
   pr |-> c \in HasPR]

ComponentBuildObjects ==
  [spec: Specs, state: ComponentBuildStates, outstanding: Nat,
   artifacts: [Artifacts -> EntryStates], noConfig: BOOLEAN,
   notified: BOOLEAN]

\* A copy of a ComponentBuild: fresh says that its resourceVersion is still
\* the current one, which is what an update is checked against.
Copies == [obj: ComponentBuildObjects, fresh: BOOLEAN]
Copy(obj) == [obj |-> obj, fresh |-> TRUE]
Outdated(copy) == [copy EXCEPT !.fresh = FALSE]

TaskRuns == [gav: Artifacts, status: RunStates]

\* about is history: the spec that the worker has just been through.
PipelineRuns == [msg: {"Failed", "Complete"}, about: Specs, status: RunStates]

NewComponentBuild(spec) ==
  [spec |-> spec, state |-> "", outstanding |-> 0,
   artifacts |-> [g \in Artifacts |-> "none"], noConfig |-> FALSE,
   notified |-> FALSE]

\* The build service creates the RebuiltArtifact of g, owned by BuiltBy[g],
\* before it marks the ArtifactBuild of g complete.
RebuiltArtifacts == {g \in Artifacts : artifactBuild[g] = "complete"}

\* The requests of the work queue. A name of the code's queue is looked up as
\* every kind in turn; names of distinct kinds are taken to be distinct.
CBKey(c) == [kind |-> "CB", of |-> c, n |-> 0]
ABKey(g) == [kind |-> "AB", of |-> g, n |-> 0]
TRKey(d, n) == [kind |-> "TR", of |-> d, n |-> n]
PRKey(c, n) == [kind |-> "PR", of |-> c, n |-> n]

Keys == {CBKey(c) : c \in ComponentBuilds}
        \cup {ABKey(g) : g \in Artifacts}
        \cup {TRKey(d, n) : d \in DependencyBuilds, n \in 1 .. MaxTaskRuns}
        \cup {PRKey(c, n) : c \in ComponentBuilds, n \in 1 .. MaxPipelineRuns}

ClusterTypeOK ==
  /\ artifactBuild \in [Artifacts -> BuildStates]
  /\ dependencyBuild \in [DependencyBuilds -> BOOLEAN]
  /\ componentBuild \in [ComponentBuilds -> ComponentBuildObjects]
  /\ taskRuns \in [DependencyBuilds -> Seq(TaskRuns)]
  /\ \A d \in DependencyBuilds : Len(taskRuns[d]) <= MaxTaskRuns
  /\ pipelineRuns \in [ComponentBuilds -> Seq(PipelineRuns)]
  /\ \A c \in ComponentBuilds : Len(pipelineRuns[c]) <= MaxPipelineRuns
  /\ config \in BOOLEAN
  /\ seenAB \in [Artifacts -> BuildStates]
  /\ seenRA \in SUBSET Artifacts
  /\ seenDB \in [DependencyBuilds -> BOOLEAN]
  /\ seenCB \in [ComponentBuilds -> Copies]
  /\ seenTR \in [DependencyBuilds -> Seq(TaskRuns)]
  /\ \A d \in DependencyBuilds : Len(seenTR[d]) <= MaxTaskRuns
  /\ seenPR \in [ComponentBuilds -> Seq(PipelineRuns)]
  /\ \A c \in ComponentBuilds : Len(seenPR[c]) <= MaxPipelineRuns
  /\ queue \in SUBSET Keys
  /\ budget \in [Disturbances -> Nat]
  /\ broken \in SUBSET Artifacts
  /\ specs \in [ComponentBuilds -> SUBSET Specs]

\* The operator starts over ComponentBuilds that the analyser has created,
\* none of which has been handled.
ClusterInit ==
  /\ artifactBuild = [g \in Artifacts |-> "absent"]
  /\ dependencyBuild = [d \in DependencyBuilds |-> FALSE]
  /\ componentBuild = [c \in ComponentBuilds |-> NewComponentBuild(FirstSpec(c))]
  /\ taskRuns = [d \in DependencyBuilds |-> <<>>]
  /\ pipelineRuns = [c \in ComponentBuilds |-> <<>>]
  /\ config = ConfigAtStart
  /\ seenAB = artifactBuild
  /\ seenRA = {}
  /\ seenDB = dependencyBuild
  /\ seenCB = [c \in ComponentBuilds |-> Copy(componentBuild[c])]
  /\ seenTR = taskRuns
  /\ seenPR = pipelineRuns
  /\ queue = {CBKey(c) : c \in ComponentBuilds}
  /\ budget = Budget
  /\ broken = {}
  /\ specs = [c \in ComponentBuilds |-> {FirstSpec(c)}]

Spend(kind) ==
  /\ budget[kind] > 0
  /\ budget' = [budget EXCEPT ![kind] = @ - 1]

-----------------------------------------------------------------------------
(* The analyser and the administrator.                                     *)

\* AnalyserCommand of a run that found the ComponentBuild: it patches the list
\* as it is now with what it found lacking in the list it has read. Another run
\* may have added the same since, and the GAV is then listed twice. Only where
\* the list it has read repeats itself does it move and take out entries too,
\* by their position, whatever is there now.
Patches(c, spec) ==
  LET old == componentBuild[c].spec IN
  /\ spec.pr = old.pr
  /\ \E read \in specs[c] : \A g \in Artifacts :
       IF Repeats(read)
         THEN spec.gavs[g] <= old.gavs[g] + 1
         ELSE spec.gavs[g] \in {old.gavs[g],
                               old.gavs[g] + IF read.gavs[g] = 0 THEN 1 ELSE 0}

\* Of a run that found none: it replaces the one that another run has created
\* since by its own, with its artifacts once each, and its PR URL or none.
Replaces(spec) == ~Repeats(spec)

\* The status is a subresource, and stays as it is.
EditSpec(c, spec) ==
  /\ spec # componentBuild[c].spec
  /\ Patches(c, spec) \/ Replaces(spec)
  /\ Spend("edit")
  /\ componentBuild' = [componentBuild EXCEPT ![c].spec = spec]
  /\ specs' = [specs EXCEPT ![c] = @ \cup {spec}]
  /\ seenCB' = [seenCB EXCEPT ![c] = Outdated(@)]
  /\ UNCHANGED <<artifactBuild, dependencyBuild, taskRuns, pipelineRuns,
                 config, seenAB, seenRA, seenDB, seenTR, seenPR, queue, broken>>

CreateConfig ==
  /\ ~config
  /\ config' = TRUE
  /\ UNCHANGED <<artifactBuild, dependencyBuild, componentBuild, taskRuns,
                 pipelineRuns, caches, queue, budget, history>>

-----------------------------------------------------------------------------
(* The JVM Build Service and Tekton.                                       *)

BuildEnds(g, outcome) ==
  /\ artifactBuild[g] = "building"
  /\ artifactBuild' = [artifactBuild EXCEPT ![g] = outcome]
  /\ broken' = IF outcome = "failed" THEN broken \cup {g} ELSE broken
  /\ UNCHANGED <<dependencyBuild, componentBuild, taskRuns, pipelineRuns,
                 config, caches, queue, budget, specs>>

RetryBuild(g) ==
  /\ artifactBuild[g] = "failed"
  /\ Spend("retry")
  /\ artifactBuild' = [artifactBuild EXCEPT ![g] = "building"]
  /\ UNCHANGED <<dependencyBuild, componentBuild, taskRuns, pipelineRuns,
                 config, caches, queue, history>>

TaskRunEnds(d, n, status) ==
  /\ taskRuns[d][n].status = "Unknown"
  /\ taskRuns' = [taskRuns EXCEPT ![d][n].status = status]
  /\ \/ status = "True" /\ UNCHANGED budget
     \/ status = "False" /\ Spend("trfail")
  /\ UNCHANGED <<artifactBuild, dependencyBuild, componentBuild, pipelineRuns,
                 config, caches, queue, history>>

PipelineRunEnds(c, n, status) ==
  /\ pipelineRuns[c][n].status = "Unknown"
  /\ pipelineRuns' = [pipelineRuns EXCEPT ![c][n].status = status]
  /\ \/ status = "True" /\ UNCHANGED budget
     \/ status = "False" /\ Spend("prfail")
  /\ UNCHANGED <<artifactBuild, dependencyBuild, componentBuild, taskRuns,
                 config, caches, queue, history>>

-----------------------------------------------------------------------------
(* The informers: each kind is brought up to date on its own, at any time. *)
(* A cache is thus always what the API server held at some earlier moment. *)
(* The events of the watched kinds put the changed objects in the queue;   *)
(* RebuiltArtifacts and DependencyBuilds are not watched.                  *)

\* The positions where run sequence s has news that the older t has not.
News(s, t) == {n \in DOMAIN s : n \notin DOMAIN t \/ t[n] # s[n]}

SyncArtifactBuilds ==
  /\ seenAB # artifactBuild
  /\ seenAB' = artifactBuild
  /\ queue' = queue \cup {ABKey(g) : g \in {h \in Artifacts :
                                              seenAB[h] # artifactBuild[h]}}
  /\ UNCHANGED <<api, seenRA, seenDB, seenCB, seenTR, seenPR, budget, history>>

SyncComponentBuilds ==
  /\ \E c \in ComponentBuilds : ~seenCB[c].fresh
  /\ seenCB' = [c \in ComponentBuilds |-> Copy(componentBuild[c])]
  /\ queue' = queue \cup {CBKey(c) : c \in {b \in ComponentBuilds :
                                              ~seenCB[b].fresh}}
  /\ UNCHANGED <<api, seenAB, seenRA, seenDB, seenTR, seenPR, budget, history>>

SyncTaskRuns ==
  /\ seenTR # taskRuns
  /\ seenTR' = taskRuns
  /\ queue' = queue \cup UNION {{TRKey(d, n) : n \in News(taskRuns[d], seenTR[d])}
                                 : d \in DependencyBuilds}
  /\ UNCHANGED <<api, seenAB, seenRA, seenDB, seenCB, seenPR, budget, history>>

SyncPipelineRuns ==
  /\ seenPR # pipelineRuns
  /\ seenPR' = pipelineRuns
  /\ queue' = queue \cup UNION {{PRKey(c, n) :
                                   n \in News(pipelineRuns[c], seenPR[c])}
                                 : c \in ComponentBuilds}
  /\ UNCHANGED <<api, seenAB, seenRA, seenDB, seenCB, seenTR, budget, history>>

SyncRebuiltArtifacts ==
  /\ seenRA # RebuiltArtifacts
  /\ seenRA' = RebuiltArtifacts
  /\ UNCHANGED <<api, seenAB, seenDB, seenCB, seenTR, seenPR, queue, budget, history>>

SyncDependencyBuilds ==
  /\ seenDB # dependencyBuild
  /\ seenDB' = dependencyBuild
  /\ UNCHANGED <<api, seenAB, seenRA, seenCB, seenTR, seenPR, queue, budget, history>>

\* One key for every object of a watched kind that the cache holds.
KeysOf(ab, tr, pr) ==
  {CBKey(c) : c \in ComponentBuilds}
  \cup {ABKey(g) : g \in {h \in Artifacts : ab[h] # "absent"}}
  \cup (UNION {{TRKey(d, n) : n \in DOMAIN tr[d]} : d \in DependencyBuilds})
  \cup (UNION {{PRKey(c, n) : n \in DOMAIN pr[c]} : c \in ComponentBuilds})

\* The periodic resync of the informers, some ten hours apart: by then the
\* queue has been worked off.
Resync ==
  /\ queue = {}
  /\ queue' = KeysOf(seenAB, seenTR, seenPR)
  /\ UNCHANGED <<api, caches, budget, history>>

\* A new operator process lists every kind afresh and queues what it finds.
Relist ==
  /\ Spend("restart")
  /\ seenAB' = artifactBuild
  /\ seenRA' = RebuiltArtifacts
  /\ seenDB' = dependencyBuild
  /\ seenCB' = [c \in ComponentBuilds |-> Copy(componentBuild[c])]
  /\ seenTR' = taskRuns
  /\ seenPR' = pipelineRuns
  /\ queue' = KeysOf(artifactBuild, taskRuns, pipelineRuns)
  /\ UNCHANGED <<api, history>>

=============================================================================

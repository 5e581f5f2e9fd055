# Apheleia in TLA+

Apheleia rebuilds the Java dependencies of a component from source. A pipeline
analyses what a component was built with and writes the community artifacts it
finds into a `ComponentBuild`; an operator has each of them rebuilt by the JVM
Build Service, deploys the results to a Maven repository, and tells the pull
request of the component how it went. These modules model the analyser, the
operator, and the deploy and download commands, with what they share, and the client
code generated for the `ComponentBuild`; TLC checks them on small instances, and TLAPS
proves the main results for any instance.

Paths below are relative to the repository; `componentbuild.go` is
`pkg/reconciler/componentbuild/componentbuild.go`.

## 1. The parts of the system

| Part | Where | State | Operations | Correct when |
|---|---|---|---|---|
| Reconciler | `componentbuild.go` | none of its own: a working copy per request | one handler per kind of object: ComponentBuild, ArtifactBuild, TaskRun, PipelineRun | a status says what is so, whichever copy it was computed from; no verdict, deployment mark or notification without its cause; every ComponentBuild is settled and reported in the end |
| ComponentBuild | `pkg/apis/apheleia/v1alpha1/componentbuild_types.go` | spec (artifacts, PR URL); status (state, outstanding, artifact states, message, notified) | written by the analyser (spec) and the reconciler (status) | the fields of a stored status agree with each other |
| Watches, queue | `pkg/reconciler/componentbuild/controller.go` | informer caches, one work queue | events of four kinds queue the object's own name | nothing that matters is lost for good |
| Manager | `pkg/controller/controller.go`, `cmd/controller/main.go` | cache options, leader election | start, restart | a restart loses nothing, nor does a second process |
| Analyser command | `AnalyserCommand.java` and its helpers | the classes of the local repository, the jars to blame, tracking data | analyses, creates or edits a ComponentBuild, writes two bills | no class of the output is missed, nothing is made up, exit code 0 means clean, what was found stays in the ComponentBuild |
| Deploy command | `DeployCommand.java` | the image, the package versions of the repository, annotations | deletes old versions, deploys, annotates | success means deployed |
| Registry client | `OCIRegistryRepositoryClient.java` | a cache directory per image | pull, extract | a directory that is there is complete |
| Download sources | `DownloadSources.java` | the artifacts and images listed, the archive | reads a ComponentBuild, fetches sources | an archive that is finished has the sources of what was found and rebuilt |
| Informer factory | `pkg/client/informers` | a lock, the informer of each type, which are started | asked for an informer, starts them, waits for their caches | all share one informer, run once; what a wait says is true |
| Objects of the client | `pkg/client/listers`, the typed client, `zz_generated.deepcopy.go` | the memory that objects in the indexer, and handed out of it, refer to | hands out, copies, gets, creates, updates, patches | a copy is a value: writing to it changes nothing else |
| JVM Build Service, Tekton, API server | outside | ArtifactBuild, RebuiltArtifact, DependencyBuild; TaskRun, PipelineRun; resource versions | settle builds, end runs, refuse writes | assumed, see section 3 |

They interact through Kubernetes objects only. The operator writes to the API
server and reads from caches that informers bring up to date one kind at a time;
the events that go with it queue object names; `Reconcile` looks each name up as
every kind in turn and dispatches. A handler is thus a sequence of reads of
possibly old state and of writes, each of which may fail, with everybody else
moving in between.

What is hard here is what follows from that: statuses computed from old copies,
writes done before the status that mentions them (a PipelineRun is created first,
the status saved after), errors that are logged and forgotten, objects whose
changes are not watched (RebuiltArtifact, DependencyBuild, the ConfigMap), a run
that ends after the state it reports on has moved on, a restart between any
two writes, and two processes during a rollout. The analysers of a commit write one
object without knowing of each other, while its sources may be downloaded. In one process the cached objects are shared by
reference, and informers by whoever asks for them. `PROJECT.json` lists each hazard at its line, with the properties
aimed at it.

## 2. The modules

| Module | What it is |
|---|---|
| `Cluster` | The objects, caches, queue, and the steps of everybody but the operator |
| `Reconciler` | The operator's worker, step by step; the specification; the properties |
| `BuildPromise` | The abstract specification: what Apheleia promises, without caches, queue or retries |
| `ReconcilerInvariants` | The inductive invariant `IInv` |
| `ReconcilerTypes` | Proof of the type invariant |
| `ReconcilerProofs` | Proofs of the invariant and of the safety properties it implies |
| `ReconcilerRefinement` | Proof that `Reconciler` implements `BuildPromise` |
| `MCReconciler` | Small instances of `Reconciler` for TLC |
| `DeployTask` | The deploy command and the registry client it uses, several tasks at once; the specification; the properties |
| `DeployTaskInvariants` | The inductive invariant `DeployInv` |
| `DeployTaskProofs` | Proofs of the invariant and of what follows from it |
| `MCDeployTask` | A small instance of `DeployTask` for TLC |
| `Handover` | Two operator processes during a rollout: `Reconciler` twice, over one API server |
| `HandoverInvariants` | Its inductive invariant `HandoverInv` |
| `HandoverProofs` | Proofs of the invariant, and that two processes keep the promise of one |
| `MCHandover` | A small instance of `Handover` for TLC |
| `Analysis` | What the analyser makes of a build: pure operators |
| `Analyser` | Runs of the analyse command on builds of one commit, and the ComponentBuild they write; the specification; the properties |
| `DownloadSources` | Downloads of the sources of that ComponentBuild, next to the analysers |
| `AnalyserInvariants` | The inductive invariant `CommitInv` |
| `AnalyserProofs` | Proofs of the invariant and of the properties of both |
| `MCAnalyser` | Small instances of `Analyser` and `DownloadSources` for TLC |
| `InformerFactory` | The shared informer factory and its callers; the specification; the properties |
| `ValueCopies` | The abstract specification of the objects of the client: they are values |
| `ObjectMemory` | Those objects with the slices and maps they refer to; the specification; the properties |
| `ClientInvariants` | The inductive invariants `FactoryInv` and `MemoryInv` |
| `InformerFactoryProofs` | Proofs of `FactoryInv` and of what follows from it |
| `ObjectMemoryProofs` | Proofs of `MemoryInv`, and that `ObjectMemory` implements `ValueCopies` |
| `MCClient` | Small instances of `InformerFactory` and `ObjectMemory` for TLC |

`Reconciler` EXTENDS `Cluster`; the proofs EXTEND `Reconciler` through
`ReconcilerInvariants`. `DeployTask` is what happens inside a deploy TaskRun, which
in `Cluster` is the one step `TaskRunEnds`: a task that ends one that has run to `Succeed` here. `DownloadSources` EXTENDS `Analyser`, which EXTENDS
`Analysis`; a `Publish` of theirs is the step `Edit` of `Reconciler`, as a patch of what is
listed (`Patches`) or as the replacement of a ComponentBuild that another run has created
(`Replaces`), or it is the creation of a ComponentBuild before `Reconciler` begins. `Handover` EXTENDS `Reconciler` for the
old process and INSTANCEs it for the new one, so that a handler is written once; a
step of one that stores a ComponentBuild makes the copies the other holds old. Its proofs
EXTEND those of `Reconciler` and INSTANCE them in the same way.

`Reconciler` treats a ComponentBuild that a handler has read as a value of its own, next
to the cached one. `ValueCopies` is that assumption, and `ObjectMemory` justifies it: the
cache reader of controller-runtime hands out what `DeepCopyObject` makes, whose body is the
generated code. `InformerFactory` and `ObjectMemory` have no state in common; `MCClient`
explores each while the other stands still.

### State and code

- `artifactBuild[g]` is the ArtifactBuild of GAV `g`: absent, building, failed
  (`ArtifactBuildFailed` or `ArtifactBuildMissing`, which the code does not tell
  apart) or complete. Its RebuiltArtifact is there exactly when it is complete,
  as the build service creates the one before it sets the other.
- `dependencyBuild[d]` is the annotation `io.aphelia/deployed` of the
  DependencyBuild `d`; `BuiltBy[g]` is the owner of the RebuiltArtifact of `g`.
  Several artifacts may come out of one build.
- `componentBuild[c]` holds the spec and the whole status. `spec.gavs[g]` is how often the
  list `Spec.Artifacts` names `g`, `spec.pr` whether there is a PR URL. Two concurrent
  patches can add the same GAV, each to the end of the list; the loop then goes through it
  twice, makes the same entry of the status map twice, and may count it twice.
  An entry of `ArtifactState` is one of none, pending, built, deployed, failed;
  these are the combinations of its three flags that the code can write. The
  message is the flag `noConfig`, the only message the code sets.
- `taskRuns[d]`, `pipelineRuns[c]` are the runs with that label, in order of
  creation; a run is Unknown, True or False.
- `config`: is the `apheleia-config` map there with all three keys?
- `seenAB` ... `seenPR` are the informer caches. A cached copy of a
  ComponentBuild carries `fresh`: is its resourceVersion still the current one?
  It replaces the version number, which would only grow.
- `queue` holds the requests. A key that is queued while it is being handled
  stays queued, as in the work queue of client-go.
- `pc`, `req`, `batch`, `cur`, `my`, `left`, `gav` are the locals of the handlers; `left[g]`
  is how many turns of the loop are still to come for `g`.
- `broken`, `specs` and `about` are history: the artifacts that have failed to build, the
  specs that each ComponentBuild has had, and the spec that a PipelineRun reports on.

### Actions and code

| Actions | Code |
|---|---|
| `TakeComponentBuild`, `TakeArtifactBuild`, `TakeRunningTaskRun`, `TakeEndedTaskRun`, `EndedTaskRunUnlisted`, `Take...PipelineRun`, `DispatchFails` | `Reconcile` (53-112) and the beginnings of the handlers (311-426) |
| `PickListed` | the loop over the listed ComponentBuilds (318-327) |
| `ConfigUnreadable`, `ConfigMissing`, `ConfigFound` | 117-147 |
| `FoundArtifact`, `UnreadableArtifact`, `CreateArtifactBuild`, `...Fails`, `...Unanswered` | one turn of the loop over the spec (149-177), with `artifactState` and `getDependencyBuild` |
| `DeployArtifact`, `DeployNothing` | `deployArtifact` (272-310) |
| `StillOutstanding`, `SettleSilently`, `SettleAndNotify`, `NotifyFails`, `NotifyUnanswered` | 178-203 and `notifyResult` (208-270) |
| `SaveStatus`, `SaveStatusFails` | `Status().Update` (135, 204, 423) |
| `Restart` | the process dies and `main.go` starts again, over fresh caches |
| `BuildEnds`, `RetryBuild`, `TaskRunEnds`, `PipelineRunEnds`, `CreateConfig` | everybody else |
| `Edit` | `AnalyserCommand.java` 101-138, with whatever copies the operator has of the ComponentBuild |
| `Sync...`, `IdleResync` | the informers |

The deploy command (`DeployTask`, lines of `DeployCommand.java`, OCI for
`OCIRegistryRepositoryClient.java`): `annotation[r]` is the annotation of a
RebuiltArtifact, `repository[p][f]` the image digest that file `f` of package version
`p` came with, `task[t]` the locals of one run of the command, its temporary
directories among them.

| Actions | Code |
|---|---|
| `List` | the artifacts are listed and grouped by image (108-127) |
| `SkipImage`, `PullImage`, `UseDirectory`, `NoArtifacts`, `ImageMissing`, `LayerMissing` | the check of the annotations (130-147) and `extractImage` (OCI 110-204) |
| `DeletePackage`, `DeleteNothing` | the deletion of a package version and its throttling loop (157-190, 250-266) |
| `UploadFile`, `UploadRefused`, `EndWalk` | `system.deploy` (191-210) |
| `Mark`, `MarkGone`, `EndImage` | the annotations (222-235) |
| `Succeed`, `Fail` | the end of `run` (239-248), the end of the pod |

The analyser (`Analysis`, `Analyser`, lines of `AnalyserCommand.java`) and
`DownloadSources.java`: a build is a record of the options, of the jars of the local
repository with their class files, and of the class files of the output; a class file
is its name, its content and its mark, which the tracker library has put there or not.
`artifacts` is the spec of the one ComponentBuild, `run[a]` and `download[d]` are the
locals of a run, its exit code (`pc`) and its files (`sbom`, `bill`; `archive`).

| Definitions | Code |
|---|---|
| `Scanned`, `Billed`, `BuildGavs`, `Holders` | the walk over the local repository (161-226) |
| `Output`, `Suspects`, `Twins`, `Blamed`, `Additional`, `Multiples`, `MarkedCommunity` | the walks over the output (227-312), in `Scan` |
| `Resolve` | one turn of the loop over sets of jars, the smallest first (243-253, 313-325) |
| `AdditionalGavs`, `Conclude`, `ConcludeFails` | artifacts of jars, and the patterns (327-365), up to the check of the options (96) |
| `Get`, `ReadToEdit`, `Publish`, `PatchRefused` | `get`, `edit`, `createOrReplace` (99-138) |
| `WriteSbom`, `Exit` | the two bills and the exit code (142-147, 367-412) |
| `Fail` | the catch clause (148), or the end of the pod |
| `ReadBuild`, `ListRebuilt` | the ComponentBuild, then the RebuiltArtifacts (51-72) |
| `AddSources`, `SourcesMissing`, `Finish`, `DownloadFails` | the archive (73-92), and the exceptions |
| `Rebuilt`, `Lose` | the build service, and whoever deletes images and RebuiltArtifacts |

The informer factory (lines of `factory.go`, or of `componentbuild.go` next to it, IC): `lock`,
`informers` and `startedInformers` are its fields, `call[c]` the locals of a caller, `given`
and `res` what callers have been returned. `runs[i]` are the channels informer `i` was run
with, `indexer[i]` its store. `due` and `since` are history: what a caller had asked for when
it last called `Start`, and what has been on the server since `i` was started.

| Actions | Code |
|---|---|
| `CallInformerFor`, `FoundInformer`, `MakeInformer`, `RegisterInformer` | `InformerFor` (146-165), reached through `Informer` and `Lister` (IC 47-89) |
| `CallStart`, `Launch`, `SkipStarted`, `EndStart` | `Start` (110-120) |
| `CallWait`, `EndWait`, `WaitImmediately`, `BeginPolling`, `PollSynced`, `PollStopped` | `WaitForCacheSync` (123-142), and client-go's, which waits |
| `ListObjects`, `WatchEvent`, `Halt` | client-go, with the `ListFunc` and `WatchFunc` of IC 60-71 |
| `AddObject`, `RemoveObject`, `CloseChannel` | everybody else |

Objects (`ObjectMemory`): `slices` and `maps` are the memory, of which an object has one
address each; `cache` is the indexer, `held[u]` what a lister has handed to `u`, `copy[u]`
what it may write to. What nobody refers to is free to be allocated.

| Actions | Code |
|---|---|
| `Deliver`, `DeliverDeletion` | the informer, from the answers of list and watch |
| `Lookup` | `List` and `Get` of the listers (48-98) |
| `DeepCopy` | `zz_generated.deepcopy.go` (44-69, 105-113, 126-136) |
| `Get`, `Create`, `Update`, `UpdateStatus`, `Patch`, `Delete` | the typed client (66-194), with the server's answer |
| `WriteArtifacts`, `WriteState` | a handler writes to its copy |

The definitions that `PROJECT.json` marks as external model what is not code of Apheleia: the
API server, the JVM Build Service, Tekton, the registry, and the informers and the work queue
of client-go. Of client-go there is a copy in `vendor`; it is modelled from how the
operator uses it, and by what it documents.

A step of the worker ends at each write and at each read whose result another
process may change before it is used. Three outcomes of a write are told apart:
done; refused (`"fault"`); done, but answered with an error (`"lost"`). A read
may fail with an error other than NotFound (`"read"`).

### Simplifications

- One worker, which is the default of controller-runtime and what the code uses.
  One operator process, but in `Handover`.
- `Handover` has no `Edit` and no `RetryBuild`: the specs stay as they are during the
  rollout, and no failed build is retried.
- In `Handover` the new process lists everything at once, and from then on the old one
  only finishes the request it is at, over the caches it had: a pod that is being
  replaced gets its signal about then. How long both run in full is not bounded by
  the code; see section 5.
- The order of the list in a spec is left out, and the loop visits it in any order. The
  code visits a list in order, and the cached list of ComponentBuilds in any order.
- A patch adds to the list what the run found lacking in a list it had read, which may be
  any that there has been. `edit` addresses entries by position only where the list it read
  repeats itself and is to be made free of repetitions; as positions are left out, such a
  patch may take away any entries, and adds one of each GAV at most. A replacement may be
  of any spec without repetitions, with a PR URL or none, and is allowed at any time, not
  only to a run that began before the ComponentBuild was there. Both allow more than the
  code does.
- The ConfigMap is read live: it is not watched, and an old copy of it behaves
  like a map that is created later.
- Names of distinct kinds are taken to be distinct, so a key names one object.
- ComponentBuilds, ArtifactBuilds and runs are not deleted. A complete artifact is
  not rebuilt.
- A failed ArtifactBuild may be sent back to the build service (`RetryBuild`),
  which is what an administrator does with the rebuild annotation.
- Each informer takes over all of one kind at once. That a cache may hold any
  earlier state of its kind is kept, and so is every order between kinds.
- The periodic resync comes when the queue is empty and the worker idle. Its
  period is some ten hours and a request takes five minutes at most.
- A deploy TaskRun and a PipelineRun succeed or fail in `Reconciler`; what a deploy
  TaskRun does inside is `DeployTask`.
- In `DeployTask` all files of a package are alike and are uploaded in any order;
  checksums and Maven metadata are left out. The repository refuses to change a file
  of a version that is there, and the deletion of a version removes all its files:
  that is what CodeArtifact does, and why the code deletes first. RebuiltArtifacts
  may be deleted while tasks run, none is created after the start. The image of an
  artifact is taken not to change.
- `DeployCommand.java` (173, 194) deploys the files of a package whose names match a pattern, and
  passes over the others without a word. `Files` are those that match, and that a package is
  published means that those are.
- `OCIRegistryRepositoryClient.java` (114-120) tries once more when the registry answers 401,
  with the directory the first attempt has made, which may be unfinished. The second attempt
  is not modelled; that an unfinished directory is used again later (188) is.
- In `Analyser` all runs are of one commit, thus of one ComponentBuild, whose name is a
  hash of the URL and the tag; its PR URL is left out. `edit` is a JSON patch of what
  was added to the list that was read, which goes to the end of the list: that is
  what the client library of the build does without a resourceVersion. When the list
  was replaced by one that is not as long, the server refuses the patch; else it is
  applied. `createOrReplace` replaces whatever there is. The list is a set here: how often
  it names a GAV matters to the operator only, and is part of `Reconciler`.
- Which classes the tracker library takes for the output of the build itself is an
  input (`own`), since the library is not in the repository; so are marks. A jar has one
  unmarked class of a name, as an archive has.
- The place of a jar spells an artifact (`PathGav`), and the one above it another
  (`ParentGav`); for a Gradle cache the second is right, and the first, which the bill of
  the build uses, is not.
- In `InformerFactory` the loops over maps visit types in any order. An informer that is run
  lists and watches without failing for good; it notices a closed channel at any time after.
  Resync periods only repeat events, and are left out.
- In `ObjectMemory` the slice of artifacts and the map of their states are written to as a
  whole, and everything of an object that is copied by assignment is its name and revision.
  A user keeps what it has last got from a lister, and what it has last copied or received.
- In `DownloadSources` an image comes with the DependencyBuild that gives its archive entry
  a name: without either the command ends with an exception.

## 3. What TLC checks

The runs of the reconciler are `tlc -config Reconciler_<run>.cfg MCReconciler`, those
of the deploy command `tlc -config DeployTask_two.cfg MCDeployTask` (`deploy`) and
`DeployTask_all.cfg` (`deploy_all`), those of the analyser `tlc -config
Analyser_<run>.cfg MCAnalyser`, `tlc -config Client.cfg MCClient` (`client`), and `tlc -config
Handover.cfg MCHandover`. All but those
of the last row pass.

| Run | Question |
|---|---|
| `faults` | A crash, a refused write, a lost answer and a failing read, once each at any point: are statuses consistent, is complete kept, and the promise? |
| `failures` | A failing deploy TaskRun, a failing notification, a failing read anywhere, and a failed build that is retried while its failure is being reported: does anything count as deployed or notified without a success, is any report false, is a stored notification kept? |
| `shared` | Two ComponentBuilds have artifacts of one build and are handled in batches from listed copies, while the analysers of their commits patch and replace their specs at any point, so that an artifact comes, is listed twice, gives way to another and goes: does one handler overwrite what another has stored, is the counter explained, is a verdict only stored for the spec it is about? |
| `settles` | Is a ComponentBuild settled in the end, with a failing deployment, a failing read, a lost answer and a late configuration? |
| `recovers` | After a crash, a refused write and a failed notification, is the ComponentBuild settled and the pull request told? Also checks `IInv`. |
| `deploy` | Two deploy tasks, one for everything and one forced for one artifact, with a deletion that does not happen, a missing image or layer, a failure and a deleted artifact, once each at any point: is what they annotate, and what a successful one was asked for, published? |
| `handover` | A new operator process starts while the old one is anywhere in a request: does one overwrite what the other has stored, is a verdict earned, is the promise kept? |
| `commit` | One analyser on every small Maven or Gradle build: is what it finds right? Three analysers of a commit and a download of its sources, with a failing call or a lost image at any point: does what is found stay, and is it downloaded? Also checks `CommitInv`. |
| `client` | Two callers race for an informer, start and wait on two channels: do they share one, run once, and is what a wait says true? A handler copies and writes while the informer delivers: are copies values? Also checks `FactoryInv` and `MemoryInv`. |
| `doc_retest`, `deploy_all`, `doc_exit` | Sentences of the documentation and of comments that the code does not keep (section 5) |

The properties:

- `VerdictIsEarned`: a stored verdict is one on a whole spec that the ComponentBuild has
  had: complete only when everything in it is deployed, by a run that succeeded; failed
  only when something in it did fail. That it was the spec of the moment is part of
  `PromiseKept` (`Judge`); an analyser may have replaced it since.
- `ReportIsTrue`: the same of the messages sent to pull requests, of a spec that named
  the pull request. They are created before the status is stored, from a copy that may
  be old, and that store may then fail.
- `StatusConsistent`: counter, state and entries of a stored status agree. The counter
  is that of the entries, but for a ComponentBuild that was made to list a GAV twice:
  there it may be more, never less.
- `NotifiedIsDelivered`, `NotifiedIsKept`: the mark is set after a success only,
  and no handler overwrites it from an older copy.
- `CompleteIsKept`: complete is taken back only for an artifact the status does
  not have, or because a read failed. It rests on caches never going back.
- `PromiseKept`: the refinement of `BuildPromise`.
- `Settles`, `Reports`: liveness.
- `AnnotatedIsPublished`: an artifact annotated as deployed has all its packages
  published whole, from one image, or a task is at the package that is not (it is
  replacing it or has failed to). Two tasks may delete each other's uploads, so this
  is about what they leave together.
- `SuccessIsPublished`: the same of everything a task that has succeeded was asked
  for and could pull, what it skipped because of annotations read long before included.
  Both leave out digests of which a task has an unfinished directory (hazard at OCI
  188), and what a failed task was at: nothing in the code repairs either.

- `FindsAll`, `FindsOnly`, `ZeroMeansClean`, `SbomCovers`: what the analyser reports, its exit
  code and its bill, stated of the classes of the output and the jars they are copies of,
  not in the terms the analysis is made of. That no class is missed has to survive the
  choice among jars with the same class: a set of jars is dropped when one of them was
  added for another class.
- `BillIsComplete`: the bill of the build lists every downloaded jar and every mark.
- `ResultsStay`: what an analyser has written stays in the ComponentBuild. The exceptions
  are those of the code: a run that had found no ComponentBuild replaces the one that
  another has created since, also between the read and the patch of a third. The property
  thus says that nothing else loses a result; it does not say that this loss, which is a
  hazard of its own (`AnalyserCommand.java:101`), does not happen.
- `AllowedStaysOut`: whatever replaces or patches what, an artifact that every run
  allows is never in the ComponentBuild.
- `SourcesCover`: a download that ends well has the sources of everything that was
  found and rebuilt when it began, although the ComponentBuild, the RebuiltArtifacts and
  the images change under it, and none that nobody had asked for.

- `OneInformerEach`: all are given the informer that is registered, and it runs with one
  channel.
- `ListerIsTrue`: after a wait that has said so, the lister has every object there was when the
  informer was started and is still there, and none the options of the factory leave out.
- `WaitCovers`: a wait answers for all its caller had asked for before its last `Start`.
- `WaitEnds`: liveness. A wait ends, but for an informer that was stopped before its store was
  filled: `Start` does not run it again, since it is flagged as started, and a wait on
  another channel goes on until that one is closed.
- `CacheIsTrue`: an object in the indexer, or out of it, that has the current revision is what
  the server has, whatever handlers write to their copies.
- `ValuesKept`: the refinement of `ValueCopies`.

### Bounds

`Budget` says how often each kind of disturbance may happen: once or never, and twice for
the edits of `shared`, since a GAV is listed twice only after two patches. One is
enough to put it between any two steps; runs differ in which ones they combine.
`EditedSpecs` are the specs that an edit may leave behind: in `shared` those that list
one of two artifacts, once or twice.
`MaxTaskRuns` and `MaxPipelineRuns` bound the runs of one build and of one
ComponentBuild, which the code does not; at the bound a creation fails the way a refused
write does. Two is what it takes for a retry, for a second run started from an old
cache, and for an old run that ends late. The TaskRuns of a build are two in `settles`
only. In the liveness runs the bound is large enough for the budget, one more than the
failures of that kind that force a new run, or a false counterexample would stop at the
bound. The safety results do not depend on the bounds (section 4).

One or two ComponentBuilds and artifacts are enough for the interactions there
are: two ComponentBuilds meet in the batch and in a shared artifact, two artifacts
in a shared DependencyBuild. In `shared` both specs are empty at first (a component may have
nothing to rebuild), and nothing tells the two ComponentBuilds or the two artifacts apart:
they are symmetric there, where all properties are safety properties. Specs that list two
different artifacts, and edits together with pull requests, make that run too long (4.4 million
states for one ComponentBuild alone); the theorems of section 4 cover them, with any specs and
any number of edits. The other runs use no symmetry.

`deploy` has two tasks, since what one does to a package another is at needs no more;
two artifacts of one image, another image with the same digest (the directory is used
again), and a third image that has a package in common with them; two files per
package, so that an upload can be interrupted. The files are symmetric: nothing tells
them apart, and the properties of the run are invariants.

`commit` takes one analyser over all builds with three jars and up to two classes of two
contents, some jars built locally or named runners, some classes loose, marked or the
build's own: two jars with the same class are needed for a choice, a third for two
overlapping choices. The interleavings take three analysers, since the exception of
`ResultsStay` needs one that creates, one that replaces and one that patches between; two
of their artifacts are in one image. `handover` has one artifact and one run of each kind:
there the state is that of two processes.

`client` has one type, as the factory has, two callers and two channels, so that one of
them finds what the other is making, or stopping; two informers, so that a second one
could be made; one object that the options select and one they do not. `ObjectMemory` has one
name and one user, which is already two holders of one object, the indexer and the user, and
four cells: one each for the indexer, what is held and what is copied, and a new one.
`MaxRevision` is two, so that a copy can be old. The proofs are for any sizes.

Deadlock is checked for the reconciler and the client: the resync, or a caller, makes sure there is always a step.
It is not for the commands, which end, nor for `Handover`, where the old process ends and
the resync is left out once it has.

### Fairness

`FairSpec` assumes of the worker that it goes on with what it started and takes
what is queued (weak fairness), and that no key is handled forever without ever
leaving the queue while the others are neglected (strong fairness per key: the queue is
first in, first out, and a failing key is delayed behind the others). It assumes
of each informer that it delivers, of builds and runs that they end, of the
administrator that the configuration is made, and of the resync that it comes. No
disturbance is assumed to happen or not to happen: the budget makes them finite.

`FactoryFairness` assumes that a call of the factory goes on and that an informer that runs
lists its objects in the end. That a channel is closed is not assumed.

`Settles` needs the resync: RebuiltArtifacts, DependencyBuilds and the ConfigMap
are not watched, errors of a batch are dropped, and the event of an ArtifactBuild is
ignored while the cached status does not list it. Without the resync a
ComponentBuild can stay in progress for good.

## 4. What is proved

Of the reconciler, for any sets of objects (`Artifacts` finite), any specs, any `BuiltBy`, any bounds
and any budget, any edits included, from the assumptions named in `Cluster`:

| Theorem | Module |
|---|---|
| `TypeCorrect`: `Spec => []TypeOK` | `ReconcilerTypes` |
| `Invariance`: `Spec => []IInv` | `ReconcilerProofs` |
| `StatusIsConsistent`, `VerdictsAreEarned`, `ReportsAreEarned`, `NotifiedMeansDelivered`, `NotifiedStays`, `CompleteStays`: `Spec => CompleteIsKept` | `ReconcilerProofs` |
| `KeepsItsPromise`: `Spec => PromiseKept` | `ReconcilerRefinement` |

None of the safety properties is inductive as it stands: what is stored was
computed earlier, from copies that may have been old then, so a property of the
stored status says nothing of the next one. `IInv` says it of every version there
is - stored, cached, listed for the batch, and the one being computed, with a
weaker form (`SoundSoFar`) while the loop is under way: it records only what
is so, counts what it records, and is marked only when a notification
has succeeded. That remains so because all of it rests on things that only grow
(`Grows`, lemma `VersionsGrow`): artifacts built and deployed, artifacts
that have failed, notifications that have succeeded, and the specs that there have been.
The spec itself may shrink, as an analyser may replace it: what a version says is
therefore said of some spec in `specs[c]`, and only a step that starts from a current copy
is about the spec of the moment. `Counted` is where a spec that lists a GAV twice shows: the
counter is that of the entries, or some spec has repeated itself. `CachesAreOld` says
that a cache holds nothing that was never so, and `fresh` ties a copy to the
stored version, so that an update that is accepted starts from what it replaces
(`Reconsidered`). With that, `NotifiedIsKept` and the refinement follow step by
step. The refinement maps each abstract variable to a function of the concrete
ones; each step is a stutter, or one abstract step. An edit is `Ask`, which puts another
request in the place of the one before and keeps a history of them. `Judge` is bound to the
request of the moment. `Tell` is not: a PipelineRun is created before the copy it was computed
from is checked, so that all that can be promised of a message is that it is true of a
request that there has been, and that named the pull request.

`CompleteIsKept` speaks of a store that follows a loop over the whole spec, and needs what
`Finished` says of the middle of that loop: as long as the working copy is that of the
stored ComponentBuild, the stored one is complete, and no read has failed, every entry the
worker has been at is done again, as what made it done (a build that is deployed) stays in
the caches. A loop that ends without an artifact the status does not have thus ends
complete.

TLC checks `IInv` itself in run `recovers`. It is made of `SafeInv`, which a process keeps
whoever else is at work, and of two parts that hold of a single process only: `FinishedStands`,
for `CompleteIsKept`, and `EntriesAreSeen`, that an entry rests on what the caches have shown,
which another process with fresher caches need not wait for.

Of one rollout, from the same assumptions:

| Theorem | Module |
|---|---|
| `HandoverInvariance`: `HandoverSpec => []HandoverInv` | `HandoverProofs` |
| `HandoverTypeCorrect`, `HandoverVerdicts`, `HandoverReports`, `HandoverStatus` | `HandoverProofs` |
| `HandoverMarks`: `HandoverSpec => NotifiedIsKept` | `HandoverProofs` |
| `HandoverKeepsThePromise`: `HandoverSpec => PromiseKept` | `HandoverProofs` |

`SafeInv` is `SharedInv`, about the API server, and `LocalInv`, about the caches and the work of
one process. `HandoverInv` asks for the first once and for the second of each process: of the
old one until it has no more work, of the new one from its arrival on. What a process does is
a step of `Reconciler` and keeps its own `SafeInv` (`SafeSteps`), and with it the shared part.
To the other process it is `LeftBehind`: the process stands still, the API server has grown
(`ApiSteps`), and all copies of what was stored are outdated. `LocalInv` survives that
(`BehindSteps`), because a copy that is outdated only has to be sound, which growth does not
undo, and not to agree with what is stored; a save that starts from it is refused. This is
where the proof rests on the check of the resourceVersion. The arrival of the new process is
a restart over the same API server (`RestartKeeps`).

The lemmas about the new process are theorems of the instance `NewP` of `ReconcilerRefinement`.
The prover takes the operators of an instance for definitions of their own; the lemmas `Same...`
say which mean the same, and the assumptions on the constants are handed over by
`SameAssumptions`. `MCHandover` reaches `HandoverInv`, so that TLC can check it too: it holds
of the instance of `Handover.cfg` (2.1 million states), but takes longer than a run should, and
the run leaves it out.

Of the deploy command, for any number of tasks, any images, digests, packages and
files, from the assumptions named in `DeployTask`:

| Theorem | Module |
|---|---|
| `DeployTypeCorrect`: `Spec => []TypeOK` | `DeployTaskProofs` |
| `DeployInvariance`: `Spec => []DeployInv` | `DeployTaskProofs` |
| `AnnotationsAreTrue`, `SuccessIsTrue` | `DeployTaskProofs` |

Neither property is inductive: an annotation is written after the walk that earned
it, while other tasks delete and upload the same packages. What carries them is
`Kept(p)`: `p` is published, or some task holds it and all it has uploaded of it is
still there, or a task has failed at it. No step undoes it (`KeptStays`). A deletion
makes the deleting task the one that holds `p`; an upload changes no file that is
there, because the repository refuses that, so it harms no other task, and the last
one publishes. `DeployInv` says that everything a task has walked, annotated, read as
annotated or skipped rests on `Kept`. Run `deploy` checks it.

Of the analyser and the downloads, for any number of runs on any builds, any patterns and
images, from the assumptions named in `Analysis`, `Analyser` and `DownloadSources`:

| Theorem | Module |
|---|---|
| `Invariance`: `Spec => []CommitInv`, `TypeCorrect`: `Spec => []TypeOK` | `AnalyserProofs` |
| `NoneIsMissed`, `NoneIsMadeUp`, `ZeroIsClean`, `SbomIsComplete`, `BuildBillIsComplete` | `AnalyserProofs` |
| `AllowedIsKeptOut`, `DownloadCovers`, `ResultsSurvive`: `Spec => ResultsStay` | `AnalyserProofs` |

The first group speaks of the build, and needs an invariant about the middle of the
analysis: `Resolving` says that every class that comes from somewhere has a jar to blame
among the additional ones, or its set of jars is still to be resolved (`BlameIsKept`), and
that no jar is additional without a class (`Guilty`). `Conclude` turns that into `Known` and
`Accounts`, which are about artifacts, and stay because the run changes its results no
more. That classes and jars are those one would name without the analysis is lemma
`OriginsAreBlamed`. The second group speaks of the ComponentBuild. Its types are not
inductive: that a patch has a list to go to rests on a run having seen one (`WrittenInv`)
and on none ever being deleted. `DownloadInv` says of a download what holds of the
list it has read, since the ComponentBuild itself may be replaced at any time.

Of the generated client, for any numbers of types, informers, callers, channels, objects
and users, and memories of any size:

| Theorem | Module |
|---|---|
| `FactoryInvariance`: `FactorySpec => []FactoryInv` | `InformerFactoryProofs` |
| `OneForAll`, `ListersAreTrue`, `WaitsCover`: `FactorySpec => WaitCovers` | `InformerFactoryProofs` |
| `MemoryInvariance`: `MemorySpec => []MemoryInv` | `ObjectMemoryProofs` |
| `CachesAreTrue`, `CopiesAreValues`: `MemorySpec => ValuesKept` | `ObjectMemoryProofs` |

`FactoryInv` has to say what a caller in the middle of a call may rely on although others
move on. While it has the lock (`MutualExclusion`), nothing is registered or started by
others, so that a type it found without an informer still has none (`Asking`) and all that
is registered is before it or started (`Starting`). Once it has given the lock back, only
what grows helps: an informer once registered stays, and one once started does, so that
what was due is among what a wait collects later (`DueIsStarted`, `Waiting`). Lemma
`CallerKept` is the one place where this is said of the steps of others. The truth of a
lister goes through `Registered` and `RunOnce`: the informer a caller was given is the one
that was waited for, and it was run once, so that `since` is about that run.

`MemoryInv` is about references, the properties about contents. `CopiesAreApart` says that
what a user may write to has no cell in common with anything else in reach; what a lister
hands out does share the cells of the indexer. Two lemmas carry the rest: an allocation
takes cells that no live object has (`NewSliceIsFresh`, `NewMapIsFresh`), and an object is
worth the same as long as its cells are (`ValueKept`). Each step then either gives a user a
fresh object (`DecodedIsApart`, `DeepCopiedIsApart`) or writes to cells that are its own, and
that is an abstract step on values.

Model-checked only:

- `Settles`, `Reports` and `WaitEnds`: liveness and ENABLED are outside the prover's reach.

What a recursive definition computes for every input would be outside it too;
there is none so far, and RECURSIVE is not used.

## 5. Where code and documentation part

- `doc_retest`. "if there are still some outstanding we reset the notification state"
  (`componentbuild.go:200`), so that a later success is notified in its turn, with "/retest
  Success all dependency builds have completed." (246). While the notification of a failure
  runs, `notifyResult` returns without one of its own (223); the success of the running one
  then sets the mark that was reset (421), on a ComponentBuild that may be complete by
  now, or in progress. The `/retest` is never sent. (`docs/index.adoc:303` has the new
  Jenkins build as something still to be implemented, and so claims nothing.)
- `deploy_all`. The deploy command "will deploy all built artifacts in the namespace"
  (`docs/index.adoc:143-144`). An image that cannot be pulled is a line on the error
  stream (`DeployCommand.java:236`): the command succeeds, and the operator marks the
  build as deployed.

- `doc_exit`. "If this has no community dependencies then it will exit with a zero exit
  code" (`docs/index.adoc:299`). When two of the patterns of `--allowed-artifacts` match an
  artifact, `it.remove()` is called for it twice (`AnalyserCommand.java:359`), which is an
  exception: the command fails, and writes neither the ComponentBuild nor the bills.

Not runs of their own, but of the same kind:

- "first look for an existing TaskRun - If none are found create a new one" (213): the list
  comes from a cache (219) that need not hold the run just created, so that a second
  notification may be started while the first is running. `ReportIsTrue` and
  `NotifiedIsKept` hold of both.
- "deploy the results to a Maven repository when everything has been built"
  (`docs/index.adoc:131`, also 303): the code deploys each artifact as soon as it is
  built (`componentbuild.go:159`).
- The exceptions of `ResultsStay`: two analysers of a commit that both find no
  ComponentBuild overwrite each other (`AnalyserCommand.java:101-138`). For the operator
  this is a spec that is taken back after it was handled: until the ComponentBuild is
  handled again its status is about a spec that is no longer there, and what was
  deployed for it stays deployed.
- Two analysers that patch the list at once can list a GAV twice
  (`AnalyserCommand.java:104-112`): `Outstanding` is then more than the number of entries that
  are outstanding (`componentbuild.go:149-177`), until the GAV is deployed or fails.
- `CompleteIsKept` is not a property of `Handover`. When the old process is let go on for
  one more request, one can be found in which it has a current copy of the ComponentBuild
  and an older one of the DependencyBuild, and takes a complete ComponentBuild back to in
  progress.

## 6. Not modelled

- A complete artifact that is deleted and rebuilt under the same name, and ComponentBuilds
  that are deleted: the proofs rest on what has happened staying so, and nothing in the
  repository deletes these objects. The stale deploy TaskRun of such a build (366) is listed
  as a hazard without a property.
- Two operator processes that both go on without end, or with two runs of each kind: out
  of TLC's reach in the time a run should take.
- Which TaskRuns are cached (`Selector.Add` returns its result, `controller.go:74`): the
  handler ignores those it does not know. Owner references, and names that exist as
  several kinds.
- The wait for a CRD at the start, health checks, the constructors and fakes of the generated clientset, hashing and
  configuration records (no state, no control), wording of messages, logging and events,
  resource limits of the runs, and the shell steps of the pipelines.
- That `DeployTask` implements an abstract deployment in which a task publishes an image in
  one step: two tasks undo one another's packages for a while, so it does not.

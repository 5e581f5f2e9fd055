----------------------------- MODULE DeployTask -----------------------------
(***************************************************************************)
(* The deploy command, which the operator runs as a Tekton task and which  *)
(* can be run by hand. It pulls the images of RebuiltArtifacts from the    *)
(* image registry, replaces what the Maven repository has of their         *)
(* packages, and annotates the RebuiltArtifacts. Several of these tasks    *)
(* may run at once: they share the annotations and the repository, and     *)
(* nothing keeps them apart.                                               *)
(***************************************************************************)
EXTENDS Naturals

CONSTANTS
  Tasks,             \* the runs of the command
  Asked,             \* Asked[t]: the RebuiltArtifact t is run for, or All
  Forced,            \* the tasks that are run with --force
  RebuiltArtifacts,  \* those there are at the start
  Images,
  ImageOf,           \* ImageOf[r]: the image of r, or Nothing
  Digests,
  DigestOf,          \* DigestOf[i]: the digest of image i
  Packages,          \* the package versions (group, artifact, version)
  Contains,          \* Contains[e]: the packages in the images of digest e
  Files,             \* the files of a package version
  Budget,            \* bound: how often each kind of mishap happens
  All,               \* "--artifact all"
  Nothing            \* no image, no package, no file

Mishaps ==
  { "fault",    \* a call ends in an exception, or the pod dies
    "missing",  \* the registry does not have an image, or a layer of it
    "kept",     \* a package version is not deleted, and no error is raised
    "vanish" }  \* a RebuiltArtifact is deleted

ASSUME AskedType == Asked \in [Tasks -> RebuiltArtifacts \cup {All}]
ASSUME ForcedType == Forced \subseteq Tasks
ASSUME ImageOfType == ImageOf \in [RebuiltArtifacts -> Images \cup {Nothing}]
ASSUME DigestOfType == DigestOf \in [Images -> Digests]
ASSUME ContainsType == Contains \in [Digests -> SUBSET Packages]
ASSUME FilesType == Files # {}
ASSUME MishapsType == Budget \in [Mishaps -> Nat]
ASSUME NothingType == Nothing \notin Images \cup Digests \cup Packages

VARIABLES
  annotation,  \* annotation[r]: what is known of r as deployed
  repository,  \* repository[p][f]: the digest file f of package p came with
  task,        \* task[t]: where task t is, and its locals
  mishaps      \* the mishaps left

vars == <<annotation, repository, task, mishaps>>

\* "gone": there is no such RebuiltArtifact; "none": it has no annotation, or
\* one of an earlier version; "current": it has one of this version.
Annotations == {"gone", "none", "current"}

\* A task ends as "True" or "False", the status of its TaskRun. The directory
\* of a digest is on the task's own disk.
TaskStates ==
  [pc: {"start", "images", "walk", "upload", "mark", "True", "False"},
   listed: [RebuiltArtifacts -> Annotations],  \* as it was when listed
   todo: SUBSET Images,                        \* images not yet looked at
   image: Images \cup {Nothing},               \* the image it is at
   walk: SUBSET Packages,                      \* packages not yet visited
   pkg: Packages \cup {Nothing},               \* the package it is at
   files: SUBSET Files,                        \* files not yet uploaded
   marks: SUBSET RebuiltArtifacts,             \* not yet annotated
   dir: [Digests -> {"none", "part", "whole"}],
   unpulled: SUBSET Images]                    \* "Failed to download"

TypeOK ==
  /\ annotation \in [RebuiltArtifacts -> Annotations]
  /\ repository \in [Packages -> [Files -> Digests \cup {Nothing}]]
  /\ task \in [Tasks -> TaskStates]
  /\ \A t \in Tasks :
       /\ task[t].pc \in {"walk", "upload", "mark"} => task[t].image \in Images
       /\ task[t].pc = "upload" => task[t].pkg \in Packages
  /\ mishaps \in [Mishaps -> Nat]

\* Package p has all its files, of one digest.
Published(p) == \E e \in Digests : \A f \in Files : repository[p][f] = e

NewTask ==
  [pc |-> "start", listed |-> [r \in RebuiltArtifacts |-> "gone"], todo |-> {},
   image |-> Nothing, walk |-> {}, pkg |-> Nothing, files |-> {}, marks |-> {},
   dir |-> [e \in Digests |-> "none"], unpulled |-> {}]

\* The repository holds what earlier tasks have published, and the packages of
\* what is annotated among it.
Init ==
  /\ annotation \in [RebuiltArtifacts -> Annotations \ {"gone"}]
  /\ repository \in [Packages -> {[f \in Files |-> e] : e \in Digests \cup {Nothing}}]
  /\ \A p \in Packages, f \in Files :
       repository[p][f] # Nothing => p \in Contains[repository[p][f]]
  /\ \A r \in RebuiltArtifacts :
       annotation[r] = "current" /\ ImageOf[r] \in Images =>
         \A p \in Contains[DigestOf[ImageOf[r]]] : Published(p)
  /\ task = [t \in Tasks |-> NewTask]
  /\ mishaps = Budget

\* What is left of task t when it ends early: where it was, and the directories
\* it has used.
Broken(t) == [NewTask EXCEPT !.pc = "False", !.pkg = task[t].pkg, !.dir = task[t].dir]

Suffer(kind) ==
  /\ mishaps[kind] > 0
  /\ mishaps' = [mishaps EXCEPT ![kind] = @ - 1]

-----------------------------------------------------------------------------
(* Which images are handled.                                               *)

\* The RebuiltArtifacts are listed, or the one asked for is read.
List(t) ==
  LET seen == [r \in RebuiltArtifacts |->
                 IF Asked[t] \in {All, r} THEN annotation[r] ELSE "gone"]
  IN /\ task[t].pc = "start"
     /\ task' = [task EXCEPT
                   ![t].pc = "images",
                   ![t].listed = seen,
                   ![t].todo = {ImageOf[r] : r \in {q \in RebuiltArtifacts :
                                   seen[q] # "gone" /\ ImageOf[q] \in Images}}]
     /\ UNCHANGED <<annotation, repository, mishaps>>

\* The listed RebuiltArtifacts of image i.
ListedOf(t, i) ==
  {r \in RebuiltArtifacts : task[t].listed[r] # "gone" /\ ImageOf[r] = i}

MustDeploy(t, i) ==
  t \in Forced \/ \E r \in ListedOf(t, i) : task[t].listed[r] # "current"

\* Task t takes image i of those it has not looked at.
TakeImage(t, i) == task[t].pc = "images" /\ i \in task[t].todo

SkipImage(t, i) ==
  /\ TakeImage(t, i)
  /\ ~MustDeploy(t, i)
  /\ task' = [task EXCEPT ![t].todo = @ \ {i}]
  /\ UNCHANGED <<annotation, repository, mishaps>>

-----------------------------------------------------------------------------
(* The registry client.                                                    *)

\* All layers are pulled and extracted.
PullImage(t, i) ==
  /\ TakeImage(t, i) /\ MustDeploy(t, i)
  /\ task[t].dir[DigestOf[i]] = "none"
  /\ task' = [task EXCEPT ![t].pc = "walk", ![t].image = i, ![t].todo = @ \ {i},
                          ![t].dir[DigestOf[i]] = "whole",
                          ![t].walk = Contains[DigestOf[i]]]
  /\ UNCHANGED <<annotation, repository, mishaps>>

\* A directory of that digest is there: it is taken as it is, and what there is
\* of its packages is walked.
UseDirectory(t, i) ==
  /\ TakeImage(t, i) /\ MustDeploy(t, i)
  /\ \E ps \in SUBSET Contains[DigestOf[i]] :
       /\ \/ task[t].dir[DigestOf[i]] = "whole" /\ ps = Contains[DigestOf[i]]
          \/ task[t].dir[DigestOf[i]] = "part"
       /\ task' = [task EXCEPT ![t].pc = "walk", ![t].image = i,
                               ![t].todo = @ \ {i}, ![t].walk = ps]
  /\ UNCHANGED <<annotation, repository, mishaps>>

\* A directory that was not filled may have no artifacts to walk, which is an
\* exception.
NoArtifacts(t, i) ==
  /\ TakeImage(t, i) /\ MustDeploy(t, i)
  /\ task[t].dir[DigestOf[i]] = "part"
  /\ task' = [task EXCEPT ![t] = Broken(t)]
  /\ UNCHANGED <<annotation, repository, mishaps>>

\* The registry has no such image, does not let it be pulled, or it has not
\* three layers: the error stream gets a line, and the task goes on.
ImageMissing(t, i) ==
  /\ TakeImage(t, i) /\ MustDeploy(t, i)
  /\ Suffer("missing")
  /\ task' = [task EXCEPT ![t].todo = @ \ {i}, ![t].unpulled = @ \cup {i}]
  /\ UNCHANGED <<annotation, repository>>

\* The same for a layer, when the directory has been created.
LayerMissing(t, i) ==
  /\ TakeImage(t, i) /\ MustDeploy(t, i)
  /\ task[t].dir[DigestOf[i]] = "none"
  /\ Suffer("missing")
  /\ task' = [task EXCEPT ![t].todo = @ \ {i}, ![t].unpulled = @ \cup {i},
                          ![t].dir[DigestOf[i]] = "part"]
  /\ UNCHANGED <<annotation, repository>>

-----------------------------------------------------------------------------
(* What is done with an image.                                             *)

\* Task t comes to package p of its image.
Visit(t, p) ==
  /\ task[t].pc = "walk" /\ p \in task[t].walk
  /\ task' = [task EXCEPT ![t].pc = "upload", ![t].walk = @ \ {p},
                          ![t].pkg = p, ![t].files = Files]

DeletePackage(t, p) ==
  /\ Visit(t, p)
  /\ repository' = [repository EXCEPT ![p] = [f \in Files |-> Nothing]]
  /\ UNCHANGED <<annotation, mishaps>>

\* The deletion was throttled ten times, or its answer says that it was not
\* done: neither is an error.
DeleteNothing(t, p) ==
  /\ Visit(t, p)
  /\ Suffer("kept")
  /\ UNCHANGED <<annotation, repository>>

\* The repository has another file f of that package already.
Refused(t, f) ==
  repository[task[t].pkg][f] \notin {Nothing, DigestOf[task[t].image]}

\* Mutant of UploadFile: only one file of the package is uploaded.
UploadOneFile(t, f) ==
  /\ task[t].pc = "upload" /\ f \in task[t].files
  /\ ~Refused(t, f)
  /\ repository' = [repository EXCEPT ![task[t].pkg][f] = DigestOf[task[t].image]]
  /\ task' = [task EXCEPT ![t].files = {}, ![t].pc = "walk", ![t].pkg = Nothing]
  /\ UNCHANGED <<annotation, mishaps>>

UploadFile(t, f) ==
  /\ task[t].pc = "upload" /\ f \in task[t].files
  /\ ~Refused(t, f)
  /\ repository' = [repository EXCEPT ![task[t].pkg][f] = DigestOf[task[t].image]]
  /\ task' = [task EXCEPT ![t].files = @ \ {f},
                          ![t].pc = IF task[t].files = {f} THEN "walk" ELSE "upload",
                          ![t].pkg = IF task[t].files = {f} THEN Nothing ELSE @]
  /\ UNCHANGED <<annotation, mishaps>>

UploadRefused(t, f) ==
  /\ task[t].pc = "upload" /\ f \in task[t].files
  /\ Refused(t, f)
  /\ task' = [task EXCEPT ![t] = Broken(t)]
  /\ UNCHANGED <<annotation, repository, mishaps>>

\* Mutant of ToMark: every artifact that was listed.
ToMarkAll(t) == {r \in RebuiltArtifacts : task[t].listed[r] # "gone"}

ToMark(t) == ListedOf(t, task[t].image)

\* Mutant of EndWalk: the artifacts are annotated without waiting for the walk.
EndWalkAnytime(t) ==
  /\ task[t].pc = "walk"
  /\ task' = [task EXCEPT ![t].pc = "mark", ![t].marks = ToMark(t)]
  /\ UNCHANGED <<annotation, repository, mishaps>>

EndWalk(t) ==
  /\ task[t].pc = "walk" /\ task[t].walk = {}
  /\ task' = [task EXCEPT ![t].pc = "mark", ![t].marks = ToMark(t)]
  /\ UNCHANGED <<annotation, repository, mishaps>>

Mark(t, r) ==
  /\ task[t].pc = "mark" /\ r \in task[t].marks
  /\ annotation[r] # "gone"
  /\ annotation' = [annotation EXCEPT ![r] = "current"]
  /\ task' = [task EXCEPT ![t].marks = @ \ {r}]
  /\ UNCHANGED <<repository, mishaps>>

MarkGone(t, r) ==
  /\ task[t].pc = "mark" /\ r \in task[t].marks
  /\ annotation[r] = "gone"
  /\ task' = [task EXCEPT ![t] = Broken(t)]
  /\ UNCHANGED <<annotation, repository, mishaps>>

EndImage(t) ==
  /\ task[t].pc = "mark" /\ task[t].marks = {}
  /\ task' = [task EXCEPT ![t].pc = "images", ![t].image = Nothing]
  /\ UNCHANGED <<annotation, repository, mishaps>>

-----------------------------------------------------------------------------
(* The end of a task, and the build service.                               *)

Succeed(t) ==
  /\ task[t].pc = "images" /\ task[t].todo = {}
  /\ task' = [task EXCEPT ![t].pc = "True"]
  /\ UNCHANGED <<annotation, repository, mishaps>>

\* An exception anywhere, or the end of the pod: the task ends where it is.
Fail(t) ==
  /\ task[t].pc \notin {"True", "False"}
  /\ Suffer("fault")
  /\ task' = [task EXCEPT ![t] = Broken(t)]
  /\ UNCHANGED <<annotation, repository>>

Vanish(r) ==
  /\ annotation[r] # "gone"
  /\ Suffer("vanish")
  /\ annotation' = [annotation EXCEPT ![r] = "gone"]
  /\ UNCHANGED <<repository, task>>

Step(t) ==
  \/ List(t)
  \/ \E i \in task[t].todo :
       \/ SkipImage(t, i)
       \/ PullImage(t, i)
       \/ UseDirectory(t, i)
       \/ NoArtifacts(t, i)
       \/ ImageMissing(t, i)
       \/ LayerMissing(t, i)
  \/ \E p \in task[t].walk : DeletePackage(t, p) \/ DeleteNothing(t, p)
  \/ \E f \in task[t].files : UploadFile(t, f) \/ UploadRefused(t, f)
  \/ EndWalk(t)
  \/ \E r \in task[t].marks : Mark(t, r) \/ MarkGone(t, r)
  \/ EndImage(t)
  \/ Succeed(t)
  \/ Fail(t)

Next ==
  \/ \E t \in Tasks : Step(t)
  \/ \E r \in RebuiltArtifacts : Vanish(r)

Spec == Init /\ [][Next]_vars

-----------------------------------------------------------------------------
(* Properties.                                                             *)

\* Task t is between the deletion of p and the last upload of its files, or
\* has failed there.
IsAt(t, p) == task[t].pc \in {"upload", "False"} /\ task[t].pkg = p

\* What is missing of p, some task is working on or has failed at.
Accounted(p) == Published(p) \/ \E t \in Tasks : IsAt(t, p)

\* Some task has part of an image of digest e for the whole.
InPart(e) == \E t \in Tasks : task[t].dir[e] = "part"

\* A RebuiltArtifact is annotated as deployed only when all its packages are
\* published, and they stay so whatever other tasks do at the same time, but
\* for a package that one of them is replacing or has failed to replace.
AnnotatedIsPublished ==
  \A r \in RebuiltArtifacts :
    annotation[r] = "current" /\ ImageOf[r] \in Images =>
      LET e == DigestOf[ImageOf[r]] IN
      InPart(e) \/ \A p \in Contains[e] : Accounted(p)

\* A task that succeeds has left all packages published of every image it was
\* to deploy and could pull, those included that it skipped because of
\* annotations it had read at its start.
SuccessIsPublished ==
  \A t \in Tasks : task[t].pc = "True" =>
    \A r \in RebuiltArtifacts :
      task[t].listed[r] # "gone" /\ ImageOf[r] \in Images \ task[t].unpulled =>
        LET e == DigestOf[ImageOf[r]] IN
        InPart(e) \/ \A p \in Contains[e] : Accounted(p)

-----------------------------------------------------------------------------
(* What the documentation says, and the code does not do.                  *)

\* "This will deploy all built artifacts in the namespace to an AWS
\* CodeArtifact repo.": so a task for all of them does when it succeeds.
SuccessDeploysAll ==
  \A t \in Tasks : task[t].pc = "True" /\ Asked[t] = All =>
    \A r \in RebuiltArtifacts :
      task[t].listed[r] # "gone" /\ ImageOf[r] \in Images =>
        \A p \in Contains[DigestOf[ImageOf[r]]] : Accounted(p)

=============================================================================

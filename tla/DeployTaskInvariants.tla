------------------------ MODULE DeployTaskInvariants ------------------------
(***************************************************************************)
(* The inductive invariant of DeployTask. AnnotatedIsPublished is not      *)
(* inductive: an annotation is written after the walk that earned it, and  *)
(* meanwhile other tasks delete and upload the same packages. What makes   *)
(* it true is that a package, once published, never is without somebody    *)
(* who accounts for it: Kept is never undone.                              *)
(***************************************************************************)
EXTENDS DeployTask

\* Task t has p in its hands, and all it has uploaded of p is still there.
Holds(t, p) ==
  /\ task[t].pc = "upload" /\ task[t].pkg = p
  /\ \A f \in Files \ task[t].files : repository[p][f] = DigestOf[task[t].image]

\* Task t has failed while it was at p.
LeftAt(t, p) == task[t].pc = "False" /\ task[t].pkg = p

Kept(p) == Published(p) \/ \E t \in Tasks : Holds(t, p) \/ LeftAt(t, p)

Safe(e) == InPart(e) \/ \A p \in Contains[e] : Kept(p)

\* Artifact r has an image, and it is safe.
SafeImage(r) == ImageOf[r] \in Images => Safe(DigestOf[ImageOf[r]])

AtImage(t) == task[t].pc \in {"walk", "upload", "mark"}

\* The packages of an image that a task has left behind are kept.
WalkedIsKept ==
  \A t \in Tasks : AtImage(t) =>
    LET e == DigestOf[task[t].image] IN
    InPart(e) \/ \A p \in Contains[e] : p \in task[t].walk \/ Kept(p)

\* When a task annotates its walk is over, and it annotates its image only; when
\* it has succeeded it has looked at all images.
PhasesAreOver ==
  \A t \in Tasks :
    /\ task[t].pc = "mark" =>
         /\ task[t].walk = {}
         /\ \A r \in task[t].marks : ImageOf[r] = task[t].image
    /\ task[t].pc = "True" => task[t].todo = {}

CurrentIsSafe == \A r \in RebuiltArtifacts : annotation[r] = "current" => SafeImage(r)

ListedIsSafe ==
  \A t \in Tasks, r \in RebuiltArtifacts :
    task[t].listed[r] = "current" => SafeImage(r)

\* Whatever a task was to look at it still has before it, could not pull, is at,
\* or has dealt with.
DoneIsSafe ==
  \A t \in Tasks, r \in RebuiltArtifacts :
    task[t].pc # "start" /\ task[t].listed[r] # "gone" =>
      \/ ImageOf[r] \in task[t].todo \cup task[t].unpulled
      \/ AtImage(t) /\ ImageOf[r] = task[t].image
      \/ SafeImage(r)

\* Everything a task has published, annotated, read or skipped is accounted for,
\* at every moment and whatever the other tasks do.
DeployInv ==
  /\ TypeOK
  /\ WalkedIsKept
  /\ PhasesAreOver
  /\ CurrentIsSafe
  /\ ListedIsSafe
  /\ DoneIsSafe
=============================================================================

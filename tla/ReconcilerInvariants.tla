------------------------ MODULE ReconcilerInvariants ------------------------
(***************************************************************************)
(* The inductive invariant of Reconciler. It says what every version of a  *)
(* ComponentBuild is worth: the one the API server stores, the cached one, *)
(* the ones listed for a batch and the one the worker is computing. What a *)
(* version says stays true because everything it rests on only grows: the  *)
(* artifacts that are deployed, the artifacts that have failed, the pull   *)
(* requests that were reached, and the specs that there have been.         *)
(*                                                                         *)
(* SafeInv is what holds of an operator process whether or not there is    *)
(* another one at work; IInv is what holds of the only one.                *)
(***************************************************************************)
EXTENDS Reconciler

\* The artifacts that are built and marked as deployed.
SettledArtifacts ==
  {g \in Artifacts : artifactBuild[g] = "complete" /\ dependencyBuild[BuiltBy[g]]}

\* Those the operator has seen to be.
SeenSettled ==
  {g \in Artifacts : seenAB[g] = "complete" /\ g \in seenRA /\ seenDB[BuiltBy[g]]}

\* The ComponentBuilds one of whose notifications has succeeded.
Reached ==
  {c \in ComponentBuilds : \E n \in DOMAIN pipelineRuns[c] :
                             pipelineRuns[c][n].status = "True"}

Recorded(obj) == {g \in Artifacts : obj.artifacts[g] # "none"}
Outstanding(obj) == {g \in Artifacts : obj.artifacts[g] \in {"pending", "built"}}

\* The entries of obj rest on what is so.
EntriesSound(obj, settled, failed) ==
  \A g \in Artifacts :
    /\ obj.artifacts[g] = "deployed" => g \in settled
    /\ obj.artifacts[g] = "failed" => g \in failed

\* The counter of obj is that of its entries, as long as no spec repeats itself.
Counted(obj, past) ==
  /\ obj.outstanding >= Cardinality(Outstanding(obj))
  /\ obj.outstanding > Cardinality(Outstanding(obj)) =>
       \E spec \in past : Repeats(spec)

\* What a version obj of ComponentBuild c has, where past are the specs that c
\* has had, and the other sets are what its entries and its mark rest on.
Sound(c, obj, past, settled, failed, reached) ==
  /\ obj.spec \in past
  /\ EntriesSound(obj, settled, failed)
  /\ Counted(obj, past)
  /\ obj.state = "InProgress" <=> obj.outstanding > 0
  /\ obj.state \in {"Failed", "Complete"} =>
       /\ obj.state = Verdict(obj)
       /\ \E spec \in past : Recorded(obj) = Listed(spec)
  /\ obj.notified => c \in reached

\* The same of a version the loop over its spec is still computing: it has an
\* entry for what the loop has reached at least once.
SoundSoFar(c, obj, rest, past, settled, failed, reached) ==
  /\ obj.spec \in past
  /\ \A g \in Artifacts :
       /\ rest[g] <= obj.spec.gavs[g]
       /\ rest[g] < obj.spec.gavs[g] <=> g \in Recorded(obj)
  /\ EntriesSound(obj, settled, failed)
  /\ Counted(obj, past)
  /\ obj.notified => c \in reached

SoundVersion(c, obj) ==
  Sound(c, obj, specs[c], SettledArtifacts, broken, Reached)

SoundWork(c, obj, rest) ==
  SoundSoFar(c, obj, rest, specs[c], SettledArtifacts, broken, Reached)

\* What a status to be saved may change in the stored one: it records that a
\* notification was delivered, it takes everything back, or it gives a verdict
\* on every artifact of the spec.
Reconsidered(obj, stored) ==
  \/ obj.state = stored.state /\ (stored.notified => obj.notified)
  \/ obj.state = "InProgress" /\ ~obj.notified
  \/ /\ obj.state \in {"Failed", "Complete"} /\ Recorded(obj) = Listed(obj.spec)
     /\ obj.notified = stored.notified

\* The caches hold what was once so, and what the operator relies on in them
\* never ceases to be so.
CachesAreOld ==
  /\ \A g \in Artifacts :
       /\ seenAB[g] = "complete" => artifactBuild[g] = "complete"
       /\ seenAB[g] = "failed" \/ artifactBuild[g] = "failed" => g \in broken
  /\ seenRA \subseteq RebuiltArtifacts
  /\ \A d \in DependencyBuilds : seenDB[d] => dependencyBuild[d]
  /\ \A d \in DependencyBuilds : \A n \in DOMAIN seenTR[d] :
       /\ n \in DOMAIN taskRuns[d]
       /\ seenTR[d][n].gav = taskRuns[d][n].gav
       /\ seenTR[d][n].status = "True" => taskRuns[d][n].status = "True"
  /\ \A c \in ComponentBuilds : \A n \in DOMAIN seenPR[c] :
       /\ n \in DOMAIN pipelineRuns[c]
       /\ seenPR[c][n].status = "True" => pipelineRuns[c][n].status = "True"

\* A DependencyBuild is marked as deployed after a success of its own.
MarksAreTrue ==
  \A d \in DependencyBuilds :
    /\ \A n \in DOMAIN taskRuns[d] : BuiltBy[taskRuns[d][n].gav] = d
    /\ dependencyBuild[d] =>
         \E n \in DOMAIN taskRuns[d] : taskRuns[d][n].status = "True"

ReportsAreTrue ==
  \A c \in ComponentBuilds : \A n \in DOMAIN pipelineRuns[c] :
    LET run == pipelineRuns[c][n] IN
    /\ run.about \in specs[c] /\ run.about.pr
    /\ run.msg = "Complete" => Listed(run.about) \subseteq SettledArtifacts
    /\ run.msg = "Failed" => Listed(run.about) \cap broken # {}

StoredIsSound == \A c \in ComponentBuilds : SoundVersion(c, componentBuild[c])

CachedIsSound ==
  \A c \in ComponentBuilds :
    /\ SoundVersion(c, seenCB[c].obj)
    /\ seenCB[c].fresh => seenCB[c].obj = componentBuild[c]

BatchIsSound ==
  /\ pc = "idle" => DOMAIN batch = {}
  /\ \A c \in DOMAIN batch :
       /\ SoundVersion(c, batch[c].obj)
       /\ batch[c].fresh => batch[c].obj = componentBuild[c]

WorkIsSound ==
  /\ pc \in {"config", "artifacts", "deploy", "save"} => cur \notin DOMAIN batch
  /\ pc = "config" =>
       /\ SoundVersion(cur, my.obj)
       /\ my.fresh => my.obj = componentBuild[cur]
  /\ pc \in {"artifacts", "deploy"} =>
       /\ SoundWork(cur, my.obj, left)
       /\ my.fresh => /\ my.obj.spec = componentBuild[cur].spec
                      /\ my.obj.notified = componentBuild[cur].notified
  /\ pc = "save" =>
       /\ SoundVersion(cur, my.obj)
       /\ my.fresh => /\ my.obj.spec = componentBuild[cur].spec
                      /\ Reconsidered(my.obj, componentBuild[cur])

\* What the operator enters as deployed it has seen, in every version there is.
OnlySeen(obj) == \A g \in Artifacts : obj.artifacts[g] = "deployed" => g \in SeenSettled

EntriesAreSeen ==
  /\ \A c \in ComponentBuilds : OnlySeen(componentBuild[c]) /\ OnlySeen(seenCB[c].obj)
  /\ \A c \in DOMAIN batch : OnlySeen(batch[c].obj)
  /\ OnlySeen(my.obj)

\* Every artifact of cb is in its status, and is deployed.
Finished(cb) == cb.state = "Complete" /\ Listed(cb.spec) \subseteq Recorded(cb)

\* The worker that handles a finished ComponentBuild from a current copy, while
\* no read has failed, comes to the same verdict again.
FinishedStands ==
  /\ budget["read"] <= Budget["read"]
  /\ /\ pc \in {"artifacts", "deploy", "save"} /\ my.fresh
     /\ Finished(componentBuild[cur])
     /\ budget["read"] = Budget["read"]
     => /\ pc \in {"artifacts", "deploy"} =>
             /\ \A g \in Artifacts : my.obj.artifacts[g] \in {"none", "deployed"}
             /\ my.obj.outstanding = 0
        /\ pc = "save" => my.obj.state = "Complete"

\* What the API server holds, and what a process knows of it.
SharedInv == MarksAreTrue /\ ReportsAreTrue /\ StoredIsSound
LocalInv == CachesAreOld /\ CachedIsSound /\ BatchIsSound /\ WorkIsSound

SafeInv == TypeOK /\ SharedInv /\ LocalInv
IInv == SafeInv /\ EntriesAreSeen /\ FinishedStands

=============================================================================

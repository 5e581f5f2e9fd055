--------------------------- MODULE DownloadSources ---------------------------
(***************************************************************************)
(* The download-sources command, next to the analysers of the same commit: *)
(* it reads the ComponentBuild they write, and puts the sources of every   *)
(* artifact in it that was rebuilt into one archive. The images it takes   *)
(* them from are those of RebuiltArtifacts, which come and go meanwhile.   *)
(***************************************************************************)
EXTENDS Analyser

CONSTANTS
  Downloads,   \* the runs of the command
  Images,
  ImageOf      \* ImageOf[g]: the image the rebuilt artifact g is in

ASSUME ImageOfType == ImageOf \in [Gavs -> Images]

VARIABLES
  rebuilt,     \* the artifacts there is a RebuiltArtifact of
  registry,    \* the images the registry has, with their DependencyBuild
  download     \* download[d]: where d is, and its locals

namespace == <<rebuilt, registry>>
vars == <<analyserVars, namespace, download>>

DownloadStates ==
  [pc: {"start", "list", "images", "done", "failed"},
   wanted: SUBSET Gavs,        \* the artifacts of the ComponentBuild, as read
   earlier: SUBSET Analysers,  \* history: the analysers that had published then
   listed: SUBSET Gavs,        \* the artifacts it has found a RebuiltArtifact of
   todo: SUBSET Images,        \* the images not yet in the archive
   archive: SUBSET Images]     \* those that are

TypeOK ==
  /\ AnalyserTypeOK
  /\ rebuilt \in SUBSET Gavs /\ registry \in SUBSET Images
  /\ download \in [Downloads -> DownloadStates]

Init ==
  /\ AnalyserInit
  /\ rebuilt = {} /\ registry = {}
  /\ download = [d \in Downloads |->
                   [pc |-> "start", wanted |-> {}, earlier |-> {}, listed |-> {},
                    todo |-> {}, archive |-> {}]]

-----------------------------------------------------------------------------

ReadBuild(d) ==
  /\ download[d].pc = "start" /\ artifacts # NoBuild
  /\ download' = [download EXCEPT
                    ![d].pc = "list", ![d].wanted = artifacts,
                    ![d].earlier = {a \in Creators : /\ run[a].pc \in Published
                                                     /\ run[a].community \subseteq artifacts}]
  /\ UNCHANGED <<analyserVars, namespace>>

\* An artifact that is not rebuilt is an error in the log, no more.
ListRebuilt(d) ==
  /\ download[d].pc = "list"
  /\ download' = [download EXCEPT
                    ![d].pc = "images", ![d].listed = rebuilt,
                    ![d].todo = {ImageOf[g] : g \in download[d].wanted \cap rebuilt}]
  /\ UNCHANGED <<analyserVars, namespace>>

AddSources(d, i) ==
  /\ download[d].pc = "images"
  /\ i \in registry
  /\ download' = [download EXCEPT ![d].todo = @ \ {i}, ![d].archive = @ \cup {i}]
  /\ UNCHANGED <<analyserVars, namespace>>

\* Mutant of SourcesMissing: the image is left out, as the deploy command does.
SourcesMissingLeftOut(d, i) ==
  /\ download[d].pc = "images"
  /\ i \notin registry
  /\ download' = [download EXCEPT ![d].todo = @ \ {i}]
  /\ UNCHANGED <<analyserVars, namespace>>

\* The registry has no such image, or its DependencyBuild is gone: there is
\* nothing to extract, or no name to give it, which is an exception.
SourcesMissing(d, i) ==
  /\ download[d].pc = "images"
  /\ i \notin registry
  /\ download' = [download EXCEPT ![d].pc = "failed"]
  /\ UNCHANGED <<analyserVars, namespace>>

Finish(d) ==
  /\ download[d].pc = "images" /\ download[d].todo = {}
  /\ download' = [download EXCEPT ![d].pc = "done"]
  /\ UNCHANGED <<analyserVars, namespace>>

\* There is no ComponentBuild, configuration or secret, or a call fails: what is
\* in the archive stays there.
DownloadFails(d) ==
  /\ download[d].pc \in {"start", "list", "images"}
  /\ \/ download[d].pc = "start" /\ artifacts = NoBuild /\ UNCHANGED budget
     \/ budget > 0 /\ budget' = budget - 1
  /\ download' = [download EXCEPT ![d].pc = "failed"]
  /\ UNCHANGED <<build, artifacts, run, namespace>>

Download(d) ==
  \/ ReadBuild(d)
  \/ ListRebuilt(d)
  \/ \E i \in download[d].todo : AddSources(d, i) \/ SourcesMissing(d, i)
  \/ Finish(d)
  \/ DownloadFails(d)

-----------------------------------------------------------------------------
(* The build service and the registry.                                     *)

\* An artifact somebody wants is rebuilt, and its image is in the registry.
Rebuilt(g) ==
  /\ artifacts # NoBuild /\ g \in artifacts \ rebuilt
  /\ rebuilt' = rebuilt \cup {g}
  /\ registry' = registry \cup {ImageOf[g]}
  /\ UNCHANGED <<analyserVars, download>>

Lose ==
  /\ budget > 0 /\ budget' = budget - 1
  /\ \/ \E g \in rebuilt : rebuilt' = rebuilt \ {g} /\ UNCHANGED registry
     \/ \E i \in registry : registry' = registry \ {i} /\ UNCHANGED rebuilt
  /\ UNCHANGED <<build, artifacts, run, download>>

Next ==
  \/ AnalyserNext /\ UNCHANGED <<namespace, download>>
  \/ \E d \in Downloads : Download(d)
  \/ \E g \in Gavs : Rebuilt(g)
  \/ Lose

Spec == Init /\ [][Next]_vars

-----------------------------------------------------------------------------

\* A download that ends well has the sources of everything that the analyses
\* whose results stood in the ComponentBuild when it began had found, of that
\* which was rebuilt when it looked (DownloadSources.run). It has no sources of
\* what nobody had asked for.
SourcesCover ==
  \A d \in Downloads :
    download[d].pc = "done" =>
      /\ \A a \in download[d].earlier : \A g \in run[a].community \cap download[d].listed :
           ImageOf[g] \in download[d].archive
      /\ \A i \in download[d].archive :
           \E a \in Creators, g \in Gavs : ImageOf[g] = i /\ ~Allowed(build[a], g)

=============================================================================

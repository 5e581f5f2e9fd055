------------------------------ MODULE Analysis ------------------------------
(***************************************************************************)
(* What the analyse command makes of a build: which artifacts that were    *)
(* not rebuilt from source have left classes in its output. A class that   *)
(* was built by the build service carries its artifact and the source of   *)
(* it; of any other class the analyser looks for the jar of the local      *)
(* repository it has come from.                                            *)
(***************************************************************************)
EXTENDS Naturals

CONSTANTS
  Jars,            \* the places a jar may have in the local repository
  Classes, Bytes,  \* names and contents of class files
  Gavs, Sources,
  AllowedSources,  \* --allowed-sources
  Patterns,        \* what --allowed-artifacts may list
  Allows,          \* Allows[p]: the artifacts pattern p matches
  Untracked,       \* what a class file is marked with that has no mark
  Unknown,         \* the source "unknown"
  Community,       \* the source "community"
  ModuleInfo,      \* the name "module-info"
  PathGav,         \* PathGav[j]: the artifact the directories above j spell
  ParentGav,       \* ParentGav[j]: those above the directory of j
  LongDirs         \* the jars in a directory of 39 characters or more

TrackingData == [gav: Gavs, source: Sources]
ClassFiles == [name: Classes, bytes: Bytes, mark: TrackingData \cup {Untracked}]

\* A build, and how the command is called on it: the options, the local
\* repository it has used, and its output.
BuildType ==
  [gradle: BOOLEAN,                      \* --gradle
   create: BOOLEAN,                      \* --create-artifacts
   named: BOOLEAN,                       \* --git-url and --tag
   allowed: SUBSET Patterns,             \* --allowed-artifacts
   jars: SUBSET Jars,                    \* what is in the repository
   local: SUBSET Jars,                   \* in a directory with no downloads
   runners: SUBSET Jars,                 \* named -runner.jar
   content: [Jars -> SUBSET ClassFiles],
   loose: SUBSET ClassFiles,             \* class files of the output
   packed: SUBSET ClassFiles,            \* those in archives of it
   own: SUBSET Classes]                  \* what the tracker says it has made

ASSUME JarGavs == PathGav \in [Jars -> Gavs] /\ ParentGav \in [Jars -> Gavs]
ASSUME AllowsType == Allows \in [Patterns -> SUBSET Gavs]
ASSUME MarkType == Untracked \notin TrackingData
ASSUME SourceType ==
  AllowedSources \subseteq Sources /\ {Unknown, Community} \subseteq Sources

-----------------------------------------------------------------------------
(* The local repository.                                                   *)

\* The jars that are read: not those of a directory whose _remote.repositories
\* names no place a file of it was downloaded from.
Scanned(b) == b.jars \ (b.local \cup b.runners)

Marks(files) == {f.mark : f \in files} \ {Untracked}

\* Mutant of Billed: a jar that has any mark is not listed itself.
BilledByMarks(b, j) ==
  LET marks == Marks(b.content[j])
  IN IF marks = {} THEN {[gav |-> PathGav[j], source |-> Unknown]} ELSE marks

\* What jar j adds to the bill of the build: its marks, and itself as unknown
\* unless one of them names it.
Billed(b, j) ==
  LET marks == Marks(b.content[j])
  IN marks \cup {[gav |-> g, source |-> Unknown] :
                   g \in {PathGav[j]} \ {t.gav : t \in marks}}

BuildGavs(b) == UNION {Billed(b, j) : j \in Scanned(b)}

\* The jars that have an unmarked class of that name.
Holders(b, c) ==
  {j \in Scanned(b) : /\ c \notin b.own \cup {ModuleInfo}
                      /\ \E f \in b.content[j] : f.name = c /\ f.mark = Untracked}

\* Those that have the very class f.
Twins(b, f) == {j \in Holders(b, f.name) : f \in b.content[j]}

-----------------------------------------------------------------------------
(* The output.                                                             *)

Output(b) == b.loose \cup b.packed

\* The classes that come from somewhere else, with no mark.
Suspects(b) == {f \in Output(b) : f.mark = Untracked /\ Holders(b, f.name) # {}}

\* Mutant of Blamed: the contents of a class are not looked at.
BlamedByName(b, f) == Holders(b, f.name)

\* The jars class f may have come from: those that have the same class, or, if
\* none has, all that have one of that name. (The code does not compare when
\* there is one jar only, which comes to the same.)
Blamed(b, f) == IF Twins(b, f) = {} THEN Holders(b, f.name) ELSE Twins(b, f)

Additional(b) == {j \in Jars : \E f \in Suspects(b) : Blamed(b, f) = {j}}

\* Mutant of Multiples: a class in several jars is left unexplained.
MultiplesForgotten(b) == {}

Multiples(b) == {Blamed(b, f) : f \in Suspects(b)} \ {{j} : j \in Jars}

\* Marks of the output that name a source that is not allowed.
MarkedCommunity(b) == {t.gav : t \in {u \in Marks(Output(b)) : u.source \notin AllowedSources}}

-----------------------------------------------------------------------------
(* The artifact of a jar.                                                  *)

Nameable(b, j) == b.gradle => j \in LongDirs

GavOf(b, j) == IF b.gradle THEN ParentGav[j] ELSE PathGav[j]

MatchedBy(b, g) == {p \in b.allowed : g \in Allows[p]}
Allowed(b, g) == MatchedBy(b, g) # {}

=============================================================================

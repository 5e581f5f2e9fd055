------------------------------ MODULE Analyser ------------------------------
(***************************************************************************)
(* The analyse command. Runs of it analyse builds of one commit and write  *)
(* what they find into the ComponentBuild of that commit, each on its own: *)
(* two of them may be at it at the same time.                              *)
(***************************************************************************)
EXTENDS Analysis, FiniteSets

CONSTANTS
  Analysers,   \* the runs of the command there may be
  Cases,       \* those there are, and the build each is run on
  NoBuild,     \* there is no ComponentBuild
  Budget       \* bound: how many calls fail, and how many things are lost

ASSUME CasesType ==
  \A c \in Cases : DOMAIN c \subseteq Analysers /\ c \in [DOMAIN c -> BuildType]
ASSUME BudgetType == Budget \in Nat
ASSUME NoBuildType == NoBuild \notin SUBSET Gavs

VARIABLES
  build,      \* build[a]: what a is run on
  artifacts,  \* the artifacts of the ComponentBuild
  run,        \* run[a]: where a is, and its locals
  budget

analyserVars == <<build, artifacts, run, budget>>

Runs == DOMAIN build
Creators == {a \in Runs : build[a].create}

\* A run ends as "0" or "1", its exit code, or with an exception.
RunStates ==
  [pc: {"scan", "resolve", "get", "edit", "patch", "create", "sbom", "bill",
        "0", "1", "error"},
   additional: SUBSET Jars,
   multiples: SUBSET SUBSET Jars,
   tracking: SUBSET TrackingData,
   community: SUBSET Gavs,
   seen: SUBSET Gavs,              \* the artifacts it has read
   sbom: SUBSET TrackingData,
   bill: SUBSET TrackingData]

AnalyserTypeOK ==
  /\ Runs \subseteq Analysers /\ build \in [Runs -> BuildType]
  /\ artifacts = NoBuild \/ artifacts \subseteq Gavs
  /\ run \in [Runs -> RunStates]
  /\ budget \in Nat

AnalyserInit ==
  /\ build \in Cases
  /\ artifacts = NoBuild
  /\ run = [a \in Runs |->
              [pc |-> "scan", additional |-> {}, multiples |-> {}, tracking |-> {},
               community |-> {}, seen |-> {}, sbom |-> {}, bill |-> {}]]
  /\ budget = Budget

\* The end of run a with an exception.
Throw(a) == run' = [run EXCEPT ![a].pc = "error"]

-----------------------------------------------------------------------------
(* The analysis.                                                           *)

Scan(a) ==
  LET b == build[a]
  IN /\ run[a].pc = "scan"
     /\ run' = [run EXCEPT ![a].pc = "resolve",
                           ![a].additional = Additional(b),
                           ![a].multiples = Multiples(b),
                           ![a].tracking = Marks(Output(b)),
                           ![a].community = MarkedCommunity(b)]
     /\ UNCHANGED <<build, artifacts, budget>>

\* The smallest of the sets of jars comes first.
Resolve(a, s) ==
  /\ run[a].pc = "resolve"
  /\ \A other \in run[a].multiples : Cardinality(s) <= Cardinality(other)
  /\ run' = [run EXCEPT ![a].multiples = @ \ {s},
                        ![a].additional = IF @ \cap s = {} THEN @ \cup s ELSE @]
  /\ UNCHANGED <<build, artifacts, budget>>

\* The artifacts of the additional jars; a jar that cannot be named is left out.
AdditionalGavs(a) ==
  {GavOf(build[a], j) : j \in {i \in run[a].additional : Nameable(build[a], i)}}

Found(a) == run[a].community \cup AdditionalGavs(a)

Resolved(a) == run[a].pc = "resolve" /\ run[a].multiples = {}

\* Two patterns match one artifact: it is removed twice, which is an exception.
RemovedTwice(a) == \E g \in Found(a) : \E p, q \in MatchedBy(build[a], g) : p # q

\* Mutant of Conclude: the artifacts of jars are not added to the tracking data.
ConcludeMarksOnly(a) ==
  /\ Resolved(a) /\ ~RemovedTwice(a)
  /\ build[a].create => build[a].named
  /\ run' = [run EXCEPT ![a].pc = IF build[a].create THEN "get" ELSE "sbom",
                        ![a].community = {g \in Found(a) : ~Allowed(build[a], g)}]
  /\ UNCHANGED <<build, artifacts, budget>>

Conclude(a) ==
  /\ Resolved(a) /\ ~RemovedTwice(a)
  /\ build[a].create => build[a].named
  /\ run' = [run EXCEPT ![a].pc = IF build[a].create THEN "get" ELSE "sbom",
                        ![a].community = {g \in Found(a) : ~Allowed(build[a], g)},
                        ![a].tracking = @ \cup {[gav |-> g, source |-> Community] :
                                                  g \in AdditionalGavs(a)}]
  /\ UNCHANGED <<build, artifacts, budget>>

ConcludeFails(a) ==
  /\ Resolved(a)
  /\ RemovedTwice(a) \/ (build[a].create /\ ~build[a].named)
  /\ Throw(a)
  /\ UNCHANGED <<build, artifacts, budget>>

-----------------------------------------------------------------------------
(* The ComponentBuild.                                                     *)

\* Mutant of Get: it is not looked whether there is one.
GetUnchecked(a) ==
  /\ run[a].pc = "get"
  /\ run' = [run EXCEPT ![a].pc = "edit"]
  /\ UNCHANGED <<build, artifacts, budget>>

Get(a) ==
  /\ run[a].pc = "get"
  /\ run' = [run EXCEPT ![a].pc = IF artifacts = NoBuild THEN "create" ELSE "edit"]
  /\ UNCHANGED <<build, artifacts, budget>>

\* The edit reads the ComponentBuild once more.
ReadToEdit(a) ==
  /\ run[a].pc = "edit"
  /\ run' = [run EXCEPT ![a].pc = "patch", ![a].seen = artifacts]
  /\ UNCHANGED <<build, artifacts, budget>>

\* Mutant of Patched: what was read is written back.
PatchedFromCopy(a) == run[a].seen \cup run[a].community

\* It sends a patch: what it has added to what it has read.
Patched(a) == artifacts \cup (run[a].community \ run[a].seen)

\* Mutant of AllGavs: allowed artifacts are not left out.
AllGavsWithAllowed(a) == run[a].community \cup {t.gav : t \in run[a].tracking}

AllGavs(a) ==
  run[a].community \cup {g \in {t.gav : t \in run[a].tracking} : ~Allowed(build[a], g)}

\* What run a writes: a patch, or, where there was no ComponentBuild when it
\* looked, a new one, that takes the place of any that is there by now.
Write(a) ==
  \/ run[a].pc = "patch" /\ artifacts' = Patched(a)
  \/ run[a].pc = "create" /\ artifacts' = AllGavs(a)

Publish(a) ==
  /\ Write(a)
  /\ run' = [run EXCEPT ![a].pc = "sbom"]
  /\ UNCHANGED <<build, budget>>

\* The patch adds to the end of the list that was read: it is refused when that
\* has become shorter, or goes somewhere into another list.
PatchRefused(a) ==
  /\ run[a].pc = "patch" /\ ~(run[a].seen \subseteq artifacts)
  /\ Throw(a)
  /\ UNCHANGED <<build, artifacts, budget>>

-----------------------------------------------------------------------------
(* The end.                                                                *)

WriteSbom(a) ==
  /\ run[a].pc = "sbom"
  /\ run' = [run EXCEPT ![a].pc = "bill", ![a].sbom = run[a].tracking]
  /\ UNCHANGED <<build, artifacts, budget>>

\* Mutant of Exit: the exit code is not set.
ExitZero(a) ==
  /\ run[a].pc = "bill"
  /\ run' = [run EXCEPT ![a].pc = "0", ![a].bill = BuildGavs(build[a])]
  /\ UNCHANGED <<build, artifacts, budget>>

Exit(a) ==
  /\ run[a].pc = "bill"
  /\ run' = [run EXCEPT ![a].pc = IF run[a].community = {} THEN "0" ELSE "1",
                        ![a].bill = BuildGavs(build[a])]
  /\ UNCHANGED <<build, artifacts, budget>>

\* A call fails, or it is done and its answer is lost; a file cannot be read or
\* written; the pipeline is stopped.
Fail(a) ==
  /\ run[a].pc \notin {"0", "1", "error"}
  /\ budget > 0 /\ budget' = budget - 1
  /\ UNCHANGED artifacts \/ Write(a)
  /\ Throw(a)
  /\ UNCHANGED build

Analyse(a) ==
  \/ Scan(a)
  \/ \E s \in run[a].multiples : Resolve(a, s)
  \/ Conclude(a)
  \/ ConcludeFails(a)
  \/ Get(a)
  \/ ReadToEdit(a)
  \/ Publish(a)
  \/ PatchRefused(a)
  \/ WriteSbom(a)
  \/ Exit(a)
  \/ Fail(a)

AnalyserNext == \E a \in Runs : Analyse(a)

AnalyserSpec == AnalyserInit /\ [][AnalyserNext]_analyserVars

-----------------------------------------------------------------------------
(* Properties. What they say of a build is said of its jars and classes    *)
(* alone, not in the terms the analysis is made of.                        *)

\* The downloaded jars class f of the output may be a copy from.
Origins(b, f) ==
  IF f.mark = Untracked /\ f.name \notin b.own \cup {ModuleInfo}
  THEN {j \in b.jars \ (b.local \cup b.runners) : f \in b.content[j]}
  ELSE {}

Concluded == {"get", "edit", "patch", "create", "sbom", "bill", "0", "1"}
Published == {"sbom", "bill", "0", "1"}

Reported(a, g) == g \in run[a].community \/ Allowed(build[a], g)

\* No class is missed: when the analysis is over (AnalyserCommand.doAnalysis),
\* the artifact a class is marked with is reported, unless its source or the
\* artifact is allowed; of an unmarked class that some downloaded jars have, one
\* of those jars is, if it can be named.
FindsAll ==
  \A a \in Runs :
    run[a].pc \in Concluded =>
      /\ \A f \in Output(build[a]) :
           \/ f.mark = Untracked
           \/ f.mark.source \in AllowedSources
           \/ Reported(a, f.mark.gav)
      /\ \A f \in Output(build[a]) :
           \/ Origins(build[a], f) = {}
           \/ \E j \in Origins(build[a], f) :
                ~Nameable(build[a], j) \/ Reported(a, GavOf(build[a], j))

\* Nothing is made up (AnalyserCommand.doAnalysis): what is reported is not
\* allowed, and is the mark of a class of the output, or a downloaded jar with a
\* class of the output, or with one of the same name that no jar has as it is.
FindsOnly ==
  \A a \in Runs :
    run[a].pc \in Concluded =>
      \A g \in run[a].community :
        /\ ~Allowed(build[a], g)
        /\ \/ \E f \in Output(build[a]) :
                f.mark # Untracked /\ f.mark.gav = g /\ f.mark.source \notin AllowedSources
           \/ \E f \in Output(build[a]), j \in build[a].jars \ build[a].local :
                /\ g = GavOf(build[a], j)
                /\ \E c \in build[a].content[j] : c.name = f.name /\ c.mark = Untracked
                /\ f \in build[a].content[j] \/ Origins(build[a], f) = {}

\* The pipeline passes (exit code 0 at the end of AnalyserCommand.run) only with
\* an output every class of which is from an allowed source or artifact, or from
\* no downloaded jar, or from one that cannot be named.
ZeroMeansClean ==
  \A a \in Runs :
    run[a].pc = "0" =>
      \A f \in Output(build[a]) :
        /\ \/ f.mark = Untracked
           \/ f.mark.source \in AllowedSources
           \/ Allowed(build[a], f.mark.gav)
        /\ \/ Origins(build[a], f) = {}
           \/ \E j \in Origins(build[a], f) :
                ~Nameable(build[a], j) \/ Allowed(build[a], GavOf(build[a], j))

\* What a run has found is in the ComponentBuild once it has written it, and
\* stays there whatever others do at the same time (AnalyserCommand.run, edit and
\* createOrReplace). What can undo it is a run that had read that there was no
\* ComponentBuild and puts its own in the place, also between the read and the
\* patch of another.
ResultsStay ==
  [][\A a \in Creators :
       run'[a].pc \in Published =>
         \/ artifacts' # NoBuild /\ run'[a].community \subseteq artifacts'
         \/ \E b \in Creators \ {a} : run[b].pc = "create" /\ run'[b].pc # "create"
         \/ run[a].pc = "patch" /\ ~(run[a].seen \subseteq artifacts)
         \/ run[a].pc \in Published /\ ~(run[a].community \subseteq artifacts)]_analyserVars

\* An artifact all runs allow is never put into the ComponentBuild, although it
\* is in the tracking data a new ComponentBuild is made of.
AllowedStaysOut ==
  artifacts # NoBuild => \A g \in artifacts : \E a \in Creators : ~Allowed(build[a], g)

\* The bill of materials accounts for every class of the output, the allowed ones
\* included: "write the sbom including the community deps".
SbomCovers ==
  \A a \in Runs :
    run[a].pc \in {"bill", "0", "1"} =>
      \A f \in Output(build[a]) :
        /\ f.mark \in run[a].sbom \cup {Untracked}
        /\ \/ Origins(build[a], f) = {}
           \/ \E j \in Origins(build[a], f) :
                \/ ~Nameable(build[a], j)
                \/ GavOf(build[a], j) \in {t.gav : t \in run[a].sbom}

\* The bill of the build lists every downloaded jar by the artifact its place
\* spells, marked or not, and every mark of its classes.
BillIsComplete ==
  \A a \in Runs :
    run[a].pc \in {"0", "1"} =>
      \A j \in build[a].jars \ (build[a].local \cup build[a].runners) :
        /\ PathGav[j] \in {t.gav : t \in run[a].bill}
        /\ Marks(build[a].content[j]) \subseteq run[a].bill

\* "If this has no community dependencies then it will exit with a zero exit
\* code" (docs/index.adoc:299): an exception without a failing call means that
\* there is a community artifact that is not allowed, or no --git-url and --tag.
NoCommunityExitsZero ==
  \A a \in Runs :
    run[a].pc = "error" /\ budget = Budget /\ (build[a].create => build[a].named) =>
      \E g \in Found(a) : ~Allowed(build[a], g)

=============================================================================

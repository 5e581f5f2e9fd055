--------------------------- MODULE AnalyserProofs ---------------------------
(***************************************************************************)
(* Proofs about Analyser and DownloadSources, for any number of runs on    *)
(* any builds of one commit, and any number of downloads: types, the       *)
(* invariant CommitInv, and what follows from it.                          *)
(***************************************************************************)
EXTENDS AnalyserInvariants, TLAPS

-----------------------------------------------------------------------------
(* Lemmas about Analysis.                                                  *)

\* The marks of class files are tracking data.
LEMMA MarksAreData ==
  ASSUME NEW files \in SUBSET ClassFiles
  PROVE  Marks(files) \subseteq TrackingData
BY DEF Marks, ClassFiles

\* Only downloaded jars are looked at, and what is blamed is among them.
LEMMA BlamedAreJars ==
  ASSUME NEW b \in BuildType, NEW f
  PROVE  /\ Scanned(b) \subseteq Jars
         /\ Blamed(b, f) \subseteq Holders(b, f.name)
         /\ Holders(b, f.name) \subseteq Scanned(b)
BY DEF BuildType, Scanned, Holders, Twins, Blamed

LEMMA OutputIsFiles ==
  ASSUME NEW b \in BuildType
  PROVE  Output(b) \subseteq ClassFiles /\ Suspects(b) \subseteq Output(b)
BY DEF BuildType, Output, Suspects

\* A class that is suspect has a jar to blame.
LEMMA SomeoneIsBlamed ==
  ASSUME NEW b \in BuildType, NEW f \in Suspects(b)
  PROVE  Blamed(b, f) # {}
BY DEF Suspects, Blamed

\* A class some downloaded jars have is suspect, and it is they that are blamed.
LEMMA OriginsAreBlamed ==
  ASSUME NEW b \in BuildType, NEW f \in Output(b), Origins(b, f) # {}
  PROVE  f \in Suspects(b) /\ Blamed(b, f) = Origins(b, f)
<1>1. f.mark = Untracked /\ f.name \notin b.own \cup {ModuleInfo}
  BY DEF Origins
<1>2. Origins(b, f) = Twins(b, f)
  BY <1>1 DEF Origins, Twins, Holders, Scanned
<1>3. Holders(b, f.name) # {}
  BY <1>2 DEF Twins
<1> QED BY <1>1, <1>2, <1>3 DEF Suspects, Blamed

\* Each suspect class has its jar already, or a set of jars to be resolved.
LEMMA BlameIsKept ==
  ASSUME NEW b \in BuildType, NEW f \in Suspects(b)
  PROVE  Blamed(b, f) \in Multiples(b) \/ Blamed(b, f) \cap Additional(b) # {}
<1>1. CASE \E j \in Jars : Blamed(b, f) = {j}
  <2>1. PICK j \in Jars : Blamed(b, f) = {j}
    BY <1>1
  <2>2. j \in Additional(b)
    BY <2>1 DEF Additional
  <2> QED BY <2>1, <2>2
<1>2. CASE ~\E j \in Jars : Blamed(b, f) = {j}
  BY <1>2 DEF Multiples
<1> QED BY <1>1, <1>2

\* What the analysis starts from has the types it needs.
LEMMA ScanTypes ==
  ASSUME NEW b \in BuildType
  PROVE  /\ Additional(b) \subseteq Jars
         /\ Multiples(b) \subseteq SUBSET Jars
         /\ Marks(Output(b)) \subseteq TrackingData
         /\ MarkedCommunity(b) \subseteq Gavs
<1>1. Additional(b) \subseteq Jars
  BY DEF Additional
<1>2. Multiples(b) \subseteq SUBSET Jars
  BY BlamedAreJars DEF Multiples
<1>3. Marks(Output(b)) \subseteq TrackingData
  BY OutputIsFiles, MarksAreData
<1>4. MarkedCommunity(b) \subseteq Gavs
  BY <1>3 DEF MarkedCommunity, TrackingData
<1> QED BY <1>1, <1>2, <1>3, <1>4

LEMMA GavsOfJars ==
  ASSUME NEW b, NEW j \in Jars
  PROVE  PathGav[j] \in Gavs /\ GavOf(b, j) \in Gavs
BY JarGavs DEF GavOf

LEMMA BillType ==
  ASSUME NEW b \in BuildType
  PROVE  BuildGavs(b) \subseteq TrackingData
<1>1. ASSUME NEW j \in Scanned(b)
      PROVE  Billed(b, j) \subseteq TrackingData
  <2>1. j \in Jars /\ b.content[j] \subseteq ClassFiles
    BY BlamedAreJars DEF BuildType
  <2>2. Marks(b.content[j]) \subseteq TrackingData
    BY <2>1, MarksAreData
  <2>3. [gav |-> PathGav[j], source |-> Unknown] \in TrackingData
    BY <2>1, JarGavs, SourceType DEF TrackingData
  <2> QED BY <2>2, <2>3 DEF Billed
<1> QED BY <1>1 DEF BuildGavs

\* The bill names the artifact of every downloaded jar, and every mark.
LEMMA BillNamesAll ==
  ASSUME NEW b \in BuildType, NEW j \in Scanned(b)
  PROVE  /\ PathGav[j] \in GavsOf(BuildGavs(b))
         /\ Marks(b.content[j]) \subseteq BuildGavs(b)
<1> DEFINE marks == Marks(b.content[j])
<1>1. Billed(b, j) \subseteq BuildGavs(b)
  BY DEF BuildGavs
<1>2. marks \subseteq Billed(b, j)
  BY DEF Billed
<1>3. \E t \in Billed(b, j) : t.gav = PathGav[j]
  <2>1. CASE PathGav[j] \in {t.gav : t \in marks}
    BY <2>1, <1>2
  <2>2. CASE PathGav[j] \notin {t.gav : t \in marks}
    <3>1. [gav |-> PathGav[j], source |-> Unknown] \in Billed(b, j)
      BY <2>2 DEF Billed
    <3> QED BY <3>1
  <2> QED BY <2>1, <2>2
<1> QED BY <1>1, <1>2, <1>3 DEF GavsOf

-----------------------------------------------------------------------------
(* The analysis of one run.                                                *)

\* The local state of a run after a step of it, and of the others.
LEMMA OthersKeep ==
  ASSUME NEW x, build' = build, run'[x] = run[x]
  PROVE  RunInv(x)' = RunInv(x)
BY DEF RunInv, Resolving, Known, Reported

LEMMA KnownIsKept ==
  ASSUME NEW a, build' = build, run'[a].community = run[a].community
  PROVE  Known(a)' = Known(a)
BY DEF Known, Reported

\* What the walks over the repository and the output start the resolution with.
LEMMA ScanInv ==
  ASSUME TypeOK, NEW a \in Runs, Scan(a)
  PROVE  RunInv(a)'
<1> DEFINE b == build[a]
<1>1. b \in BuildType /\ run[a] \in RunStates
  BY DEF TypeOK, AnalyserTypeOK
<1>2. build' = build /\ run'[a].pc = "resolve"
  BY DEF Scan, TypeOK, AnalyserTypeOK, RunStates
<1>3. /\ run'[a].additional = Additional(b)
      /\ run'[a].multiples = Multiples(b)
      /\ run'[a].tracking = Marks(Output(b))
      /\ run'[a].community = MarkedCommunity(b)
  BY DEF Scan, TypeOK, AnalyserTypeOK, RunStates
<1>4. Guilty(b, Additional(b))
  BY DEF Guilty, Additional
<1>5. \A s \in Multiples(b) : Guilty(b, s) /\ s # {}
  BY SomeoneIsBlamed, <1>1 DEF Guilty, Multiples
<1>6. \A f \in Suspects(b) : Blamed(b, f) \in Multiples(b) \/ Blamed(b, f) \cap Additional(b) # {}
  BY BlameIsKept, <1>1
<1>7. Resolving(a)'
  BY <1>2, <1>3, <1>4, <1>5, <1>6 DEF Resolving
<1> QED BY <1>2, <1>7 DEF RunInv, Concluded, Writing, Ended

\* A set of jars is gone when one of its jars is additional.
LEMMA ResolveInv ==
  ASSUME TypeOK, NEW a \in Runs, RunInv(a), NEW s \in run[a].multiples, Resolve(a, s)
  PROVE  RunInv(a)'
<1> DEFINE b == build[a]
           more == IF run[a].additional \cap s = {} THEN run[a].additional \cup s
                   ELSE run[a].additional
<1>1. build' = build /\ run[a].pc = "resolve" /\ run'[a].pc = "resolve"
  BY DEF Resolve, TypeOK, AnalyserTypeOK, RunStates
<1>2. /\ run'[a].additional = more
      /\ run'[a].multiples = run[a].multiples \ {s}
      /\ run'[a].tracking = run[a].tracking
      /\ run'[a].community = run[a].community
  BY DEF Resolve, TypeOK, AnalyserTypeOK, RunStates
<1>3. Resolving(a)
  BY <1>1 DEF RunInv
<1>4. more \cap s # {} /\ run[a].additional \subseteq more
  BY <1>3 DEF Resolving
<1>5. Guilty(b, more)
  BY <1>3 DEF Resolving, Guilty
<1>6. \A f \in Suspects(b) :
        Blamed(b, f) \in run[a].multiples \ {s} \/ Blamed(b, f) \cap more # {}
  <2> HIDE DEF more
  <2> QED BY <1>3, <1>4 DEF Resolving
<1>7. Resolving(a)'
  <2> HIDE DEF more
  <2> QED BY <1>1, <1>2, <1>3, <1>5, <1>6 DEF Resolving
<1> QED BY <1>1, <1>7 DEF RunInv, Concluded, Writing, Ended

\* When every set is resolved, the artifacts of the additional jars are the
\* artifacts every suspect class is explained by.
LEMMA AllResolved ==
  ASSUME TypeOK, NEW a \in Runs, RunInv(a), Resolved(a)
  PROVE  /\ Resolving(a)
         /\ run[a].additional \subseteq Jars
         /\ AdditionalGavs(a) \subseteq Gavs
         /\ Found(a) \subseteq Gavs
         /\ \A f \in Suspects(build[a]) :
              \E j \in Blamed(build[a], f) :
                j \in Given(build[a], AdditionalGavs(a))
         /\ \A g \in AdditionalGavs(a) :
              \E f \in Suspects(build[a]) :
                \E j \in Blamed(build[a], f) : g = GavOf(build[a], j)
<1> DEFINE b == build[a]
<1>1. Resolving(a)
  BY DEF Resolved, RunInv
<1>2. run[a].additional \subseteq Jars /\ run[a].community \subseteq Gavs
  BY DEF TypeOK, AnalyserTypeOK, RunStates
<1>3. AdditionalGavs(a) \subseteq Gavs
  BY <1>2, GavsOfJars DEF AdditionalGavs
<1>4. \A f \in Suspects(b) : \E j \in Blamed(b, f) : j \in run[a].additional
  BY <1>1 DEF Resolving, Resolved
<1>5. \A j \in run[a].additional : j \in Given(b, AdditionalGavs(a))
  BY <1>2 DEF Given, AdditionalGavs
<1>6. \A j \in run[a].additional : \E f \in Suspects(b) : j \in Blamed(b, f)
  BY <1>1 DEF Resolving, Guilty
<1>7. \A g \in AdditionalGavs(a) : \E j \in run[a].additional : g = GavOf(b, j)
  BY DEF AdditionalGavs
<1>8. \A f \in Suspects(b) : \E j \in Blamed(b, f) : j \in Given(b, AdditionalGavs(a))
  BY <1>4, <1>5
<1>9. \A g \in AdditionalGavs(a) : \E f \in Suspects(b) : \E j \in Blamed(b, f) : g = GavOf(b, j)
  BY <1>6, <1>7
<1> QED BY <1>1, <1>2, <1>3, <1>8, <1>9 DEF Found

LEMMA ConcludeInv ==
  ASSUME TypeOK, NEW a \in Runs, RunInv(a), Conclude(a)
  PROVE  RunInv(a)'
<1> DEFINE b == build[a]
           new == {[gav |-> g, source |-> Community] : g \in AdditionalGavs(a)}
<1>1. /\ build' = build
      /\ run'[a].pc = IF b.create THEN "get" ELSE "sbom"
      /\ run'[a].community = {g \in Found(a) : ~Allowed(b, g)}
      /\ run'[a].tracking = run[a].tracking \cup new
  <2>1. CASE b.create
    BY <2>1 DEF Conclude, TypeOK, AnalyserTypeOK, RunStates
  <2>2. CASE ~b.create
    BY <2>2 DEF Conclude, TypeOK, AnalyserTypeOK, RunStates
  <2> QED BY <2>1, <2>2
<1>2. /\ Resolving(a)
      /\ AdditionalGavs(a) \subseteq Gavs
      /\ Found(a) \subseteq Gavs
      /\ \A f \in Suspects(b) : \E j \in Blamed(b, f) : j \in Given(b, AdditionalGavs(a))
      /\ \A g \in AdditionalGavs(a) :
           \E f \in Suspects(b) : \E j \in Blamed(b, f) : g = GavOf(b, j)
  BY AllResolved DEF Conclude
<1>3. \A g \in Found(a) : Reported(a, g)'
  BY <1>1 DEF Reported
<1>4. run[a].community = MarkedCommunity(b) /\ run[a].tracking = Marks(Output(b))
  BY <1>2 DEF Resolving
<1>5. \A g \in MarkedCommunity(b) : Reported(a, g)'
  BY <1>3, <1>4 DEF Found
<1>6. \A g \in AdditionalGavs(a) : Reported(a, g)'
  BY <1>3 DEF Found
<1>7. \A j \in Given(b, AdditionalGavs(a)) : j \in Given(b, {g \in Gavs : Reported(a, g)'})
  BY <1>2, <1>6 DEF Given
<1>8. Explained(b, Given(b, {g \in Gavs : Reported(a, g)'}))
  BY <1>2, <1>7 DEF Explained
<1>9. \A g \in run'[a].community :
        /\ ~Allowed(b, g)
        /\ \/ g \in MarkedCommunity(b)
           \/ \E f \in Suspects(b) : \E j \in Blamed(b, f) : g = GavOf(b, j)
  BY <1>1, <1>2, <1>4 DEF Found
<1>10. Known(a)'
  BY <1>1, <1>5, <1>8, <1>9 DEF Known
<1>11. Accounts(b, run'[a].tracking)
  <2>1. Marks(Output(b)) \subseteq run'[a].tracking
    BY <1>1, <1>4
  <2>2. ASSUME NEW g \in AdditionalGavs(a) PROVE g \in GavsOf(run'[a].tracking)
    <3>1. [gav |-> g, source |-> Community] \in run'[a].tracking
      BY <1>1
    <3>2. [gav |-> g, source |-> Community].gav = g
      OBVIOUS
    <3> QED BY <3>1, <3>2 DEF GavsOf
  <2>3. \A j \in Given(b, AdditionalGavs(a)) : j \in Given(b, GavsOf(run'[a].tracking))
    BY <2>2 DEF Given
  <2> QED BY <1>2, <2>1, <2>3 DEF Accounts, Explained
<1> QED BY <1>1, <1>10, <1>11 DEF RunInv, Concluded, Writing, Ended

\* From then on a run only carries what it knows to the files and the
\* ComponentBuild.
LEMMA AnalyseInv ==
  ASSUME TypeOK, NEW a \in Runs, RunInv(a), Analyse(a)
  PROVE  RunInv(a)'
<1> USE DEF TypeOK, AnalyserTypeOK, RunStates
<1>1. CASE Scan(a)
  BY <1>1, ScanInv
<1>2. ASSUME NEW s \in run[a].multiples, Resolve(a, s) PROVE RunInv(a)'
  BY <1>2, ResolveInv
<1>3. CASE Conclude(a)
  BY <1>3, ConcludeInv
<1>4. ASSUME Throw(a) PROVE RunInv(a)'
  <2>1. run'[a].pc = "error"
    BY <1>4 DEF Throw
  <2> QED BY <2>1 DEF RunInv, Concluded, Writing, Ended
<1>5. CASE Get(a)
  <2>1. /\ build' = build /\ run[a].pc = "get" /\ run'[a].pc \in {"create", "edit"}
        /\ run'[a].community = run[a].community /\ run'[a].tracking = run[a].tracking
    <3>1. CASE artifacts = NoBuild
      BY <1>5, <3>1 DEF Get
    <3>2. CASE artifacts # NoBuild
      BY <1>5, <3>2 DEF Get
    <3> QED BY <3>1, <3>2
  <2> QED BY <2>1, KnownIsKept DEF RunInv, Concluded, Writing, Ended
<1>6. CASE ReadToEdit(a)
  <2>1. /\ build' = build /\ run[a].pc = "edit" /\ run'[a].pc = "patch"
        /\ run'[a].community = run[a].community /\ run'[a].tracking = run[a].tracking
    BY <1>6 DEF ReadToEdit
  <2> QED BY <2>1, KnownIsKept DEF RunInv, Concluded, Writing, Ended
<1>7. CASE Publish(a)
  <2>1. /\ build' = build /\ run[a].pc \in {"patch", "create"} /\ run'[a].pc = "sbom"
        /\ run'[a].community = run[a].community /\ run'[a].tracking = run[a].tracking
    BY <1>7 DEF Publish, Write
  <2> QED BY <2>1, KnownIsKept DEF RunInv, Concluded, Writing, Ended
<1>8. CASE WriteSbom(a)
  <2>1. /\ build' = build /\ run[a].pc = "sbom" /\ run'[a].pc = "bill"
        /\ run'[a].community = run[a].community /\ run'[a].tracking = run[a].tracking
        /\ run'[a].sbom = run[a].tracking
    BY <1>8 DEF WriteSbom
  <2> QED BY <2>1, KnownIsKept DEF RunInv, Concluded, Writing, Ended
<1>9. CASE Exit(a)
  <2>1. /\ build' = build /\ run[a].pc = "bill"
        /\ (run'[a].pc = "0" /\ run[a].community = {}) \/ run'[a].pc = "1"
        /\ run'[a].community = run[a].community /\ run'[a].tracking = run[a].tracking
        /\ run'[a].sbom = run[a].sbom /\ run'[a].bill = BuildGavs(build[a])
    <3>1. CASE run[a].community = {}
      BY <1>9, <3>1 DEF Exit
    <3>2. CASE run[a].community # {}
      BY <1>9, <3>2 DEF Exit
    <3> QED BY <3>1, <3>2
  <2> QED BY <2>1, KnownIsKept DEF RunInv, Concluded, Writing, Ended
<1>10. CASE ConcludeFails(a) \/ PatchRefused(a) \/ Fail(a)
  BY <1>4, <1>10 DEF ConcludeFails, PatchRefused, Fail
<1> QED
  <2> HIDE DEF TypeOK, AnalyserTypeOK, RunStates
  <2> QED BY <1>1, <1>2, <1>3, <1>5, <1>6, <1>7, <1>8, <1>9, <1>10 DEF Analyse

-----------------------------------------------------------------------------
(* What is written.                                                        *)

\* What a run may write is of artifacts that it does not allow, and of what is
\* in the ComponentBuild already.
LEMMA WriteIsTyped ==
  ASSUME CommitInv, NEW a \in Runs, Write(a)
  PROVE  /\ artifacts' \subseteq Gavs /\ artifacts' # NoBuild
         /\ a \in Creators
         /\ \A g \in artifacts' :
              ~Allowed(build[a], g) \/ (artifacts # NoBuild /\ g \in artifacts)
<1>1. /\ run[a] \in RunStates /\ RunInv(a)
      /\ artifacts = NoBuild \/ artifacts \subseteq Gavs
  BY DEF CommitInv, TypeOK, AnalyserTypeOK
<1>2. Known(a) /\ build[a].create
  BY <1>1 DEF Write, RunInv, Concluded, Writing
<1>3. a \in Creators
  BY <1>2 DEF Creators
<1>4. run[a].community \subseteq Gavs /\ \A g \in run[a].community : ~Allowed(build[a], g)
  BY <1>1, <1>2 DEF RunStates, Known
<1>5. CASE run[a].pc = "patch" /\ artifacts' = Patched(a)
  <2>1. artifacts # NoBuild
    BY <1>3, <1>5 DEF CommitInv, WrittenInv
  <2>2. artifacts' \subseteq Gavs
    BY <1>1, <1>4, <1>5, <2>1 DEF Patched
  <2> QED BY <1>3, <1>4, <1>5, <2>1, <2>2, NoBuildType DEF Patched
<1>6. CASE run[a].pc = "create" /\ artifacts' = AllGavs(a)
  <2>1. \A t \in run[a].tracking : t.gav \in Gavs
    BY <1>1 DEF RunStates, TrackingData
  <2>2. artifacts' \subseteq Gavs
    BY <1>4, <1>6, <2>1 DEF AllGavs
  <2> QED BY <1>3, <1>4, <1>6, <2>2, NoBuildType DEF AllGavs
<1> QED BY <1>5, <1>6 DEF Write

\* A step of a run leaves the ComponentBuild alone, or writes it.
LEMMA AnalyseWrites ==
  ASSUME NEW a, Analyse(a)
  PROVE  (UNCHANGED artifacts \/ Write(a)) /\ build' = build
BY DEF Analyse, Scan, Resolve, Conclude, ConcludeFails, Get, ReadToEdit, Publish,
       PatchRefused, WriteSbom, Exit, Fail

\* It is a step of that run alone.
LEMMA AnalyseIsLocal ==
  ASSUME TypeOK, NEW a \in Runs, Analyse(a)
  PROVE  \A x \in Runs \ {a} : run'[x] = run[x]
BY DEF Analyse, Scan, Resolve, Conclude, ConcludeFails, Get, ReadToEdit, Publish,
       PatchRefused, WriteSbom, Exit, Fail, Throw, TypeOK, AnalyserTypeOK

\* Before it can know of a ComponentBuild, a run has found or written one.
LEMMA Advance ==
  ASSUME TypeOK, NEW a \in Creators, Analyse(a),
         run'[a].pc \in {"edit", "patch"} \cup Published
  PROVE  \/ artifacts # NoBuild /\ UNCHANGED artifacts
         \/ run[a].pc \in {"edit", "patch"} \cup Published
         \/ Publish(a)
<1> USE DEF TypeOK, AnalyserTypeOK, RunStates, Creators, Published
<1>1. ASSUME Throw(a) PROVE FALSE
  BY <1>1 DEF Throw
<1>2. ASSUME Conclude(a) PROVE FALSE
  BY <1>2 DEF Conclude
<1>3. ASSUME Get(a) PROVE artifacts # NoBuild /\ UNCHANGED artifacts
  BY <1>3 DEF Get
<1>4. ASSUME ReadToEdit(a) \/ WriteSbom(a) \/ Exit(a)
      PROVE  run[a].pc \in {"edit", "patch"} \cup Published
  BY <1>4 DEF ReadToEdit, WriteSbom, Exit
<1>5. ASSUME Scan(a) PROVE FALSE
  BY <1>5 DEF Scan
<1>6. ASSUME NEW s, Resolve(a, s) PROVE FALSE
  BY <1>6 DEF Resolve
<1> QED
  <2> HIDE DEF TypeOK, AnalyserTypeOK, RunStates, Creators, Published
  <2> QED BY <1>1, <1>2, <1>3, <1>4, <1>5, <1>6 DEF Analyse, ConcludeFails, PatchRefused, Fail

\* Once it has published its results a run does not change them.
LEMMA ResultsAreFinal ==
  ASSUME TypeOK, NEW a \in Runs, Analyse(a), run[a].pc \in Published \cup {"error"}
  PROVE  /\ run'[a].pc \in Published \cup {"error"}
         /\ run'[a].community = run[a].community
         /\ UNCHANGED artifacts
<1> USE DEF TypeOK, AnalyserTypeOK, RunStates, Published
<1>1. ASSUME Throw(a)
      PROVE  run'[a].pc = "error" /\ run'[a].community = run[a].community
  BY <1>1 DEF Throw
<1>2. CASE WriteSbom(a)
  BY <1>2 DEF WriteSbom
<1>3. CASE Exit(a)
  <2>1. CASE run[a].community = {}
    BY <1>3, <2>1 DEF Exit
  <2>2. CASE run[a].community # {}
    BY <1>3, <2>2 DEF Exit
  <2> QED BY <2>1, <2>2
<1>4. CASE Fail(a)
  BY <1>1, <1>4 DEF Fail, Write
<1> QED
  BY <1>2, <1>3, <1>4 DEF Analyse, Scan, Resolve, Conclude, ConcludeFails, Resolved, Get,
     ReadToEdit, Publish, Write, PatchRefused

\* A step of a run keeps its types.
LEMMA AnalyseType ==
  ASSUME CommitInv, NEW a \in Runs, Analyse(a)
  PROVE  AnalyserTypeOK'
<1> USE DEF CommitInv, TypeOK, AnalyserTypeOK
<1>1. build' = build /\ build[a] \in BuildType /\ run[a] \in RunStates
  BY AnalyseWrites
<1>2. artifacts' = NoBuild \/ artifacts' \subseteq Gavs
  BY AnalyseWrites, WriteIsTyped
<1>3. budget' \in Nat
  <2>1. ASSUME Fail(a) PROVE budget' \in Nat
    BY <2>1 DEF Fail
  <2>2. ~Fail(a) => UNCHANGED budget
    BY DEF Analyse, Scan, Resolve, Conclude, ConcludeFails, Get, ReadToEdit, Publish,
           PatchRefused, WriteSbom, Exit
  <2> QED BY <2>1, <2>2
<1>4. ASSUME Throw(a) PROVE run' \in [Runs -> RunStates]
  BY <1>1, <1>4 DEF Throw, RunStates
<1>5. ASSUME Scan(a) PROVE run' \in [Runs -> RunStates]
  <2>1. /\ Additional(build[a]) \in SUBSET Jars
        /\ Multiples(build[a]) \in SUBSET SUBSET Jars
        /\ Marks(Output(build[a])) \in SUBSET TrackingData
        /\ MarkedCommunity(build[a]) \in SUBSET Gavs
    BY <1>1, ScanTypes
  <2> DEFINE after == [run[a] EXCEPT !.pc = "resolve",
                                     !.additional = Additional(build[a]),
                                     !.multiples = Multiples(build[a]),
                                     !.tracking = Marks(Output(build[a])),
                                     !.community = MarkedCommunity(build[a])]
  <2>2. after \in RunStates
    BY <1>1, <2>1 DEF RunStates
  <2>3. run' = [run EXCEPT ![a] = after]
    BY <1>5 DEF Scan
  <2> HIDE DEF after
  <2> QED BY <2>2, <2>3
<1>6. ASSUME NEW s \in run[a].multiples, Resolve(a, s) PROVE run' \in [Runs -> RunStates]
  <2> DEFINE more == IF run[a].additional \cap s = {} THEN run[a].additional \cup s
                     ELSE run[a].additional
  <2>1. more \in SUBSET Jars
    BY <1>1 DEF RunStates
  <2>2. run' = [run EXCEPT ![a].multiples = run[a].multiples \ {s}, ![a].additional = more]
    BY <1>6 DEF Resolve
  <2> HIDE DEF more
  <2> QED BY <1>1, <2>1, <2>2 DEF RunStates
<1>7. ASSUME Conclude(a) PROVE run' \in [Runs -> RunStates]
  <2> DEFINE pc == IF build[a].create THEN "get" ELSE "sbom"
             community == {g \in Found(a) : ~Allowed(build[a], g)}
             tracking == run[a].tracking \cup {[gav |-> g, source |-> Community] :
                                                 g \in AdditionalGavs(a)}
  <2>1. Found(a) \subseteq Gavs /\ AdditionalGavs(a) \subseteq Gavs
    BY <1>7, AllResolved DEF Conclude
  <2>2. pc \in {"get", "sbom"} /\ community \in SUBSET Gavs
    BY <2>1
  <2>3. tracking \in SUBSET TrackingData
    BY <1>1, <2>1, SourceType DEF RunStates, TrackingData
  <2>4. run' = [run EXCEPT ![a].pc = pc, ![a].community = community, ![a].tracking = tracking]
    BY <1>7 DEF Conclude
  <2> HIDE DEF pc, community, tracking
  <2> QED BY <1>1, <2>2, <2>3, <2>4 DEF RunStates
<1>8. ASSUME Get(a) PROVE run' \in [Runs -> RunStates]
  <2>1. run' = [run EXCEPT ![a].pc = "create"] \/ run' = [run EXCEPT ![a].pc = "edit"]
    BY <1>8 DEF Get
  <2> QED BY <1>1, <2>1 DEF RunStates
<1>9. ASSUME ReadToEdit(a) PROVE run' \in [Runs -> RunStates]
  <2>1. artifacts \in SUBSET Gavs
    BY <1>9 DEF WrittenInv, Writing, RunInv, ReadToEdit, Creators
  <2> QED BY <1>1, <1>9, <2>1 DEF ReadToEdit, RunStates
<1>10. ASSUME Publish(a) PROVE run' \in [Runs -> RunStates]
  BY <1>1, <1>10 DEF Publish, RunStates
<1>11. ASSUME WriteSbom(a) PROVE run' \in [Runs -> RunStates]
  BY <1>1, <1>11 DEF WriteSbom, RunStates
<1>12. ASSUME Exit(a) PROVE run' \in [Runs -> RunStates]
  <2>1. \/ run' = [run EXCEPT ![a].pc = "0", ![a].bill = BuildGavs(build[a])]
        \/ run' = [run EXCEPT ![a].pc = "1", ![a].bill = BuildGavs(build[a])]
    BY <1>12 DEF Exit
  <2> QED BY <1>1, <2>1, BillType DEF RunStates
<1>13. run' \in [Runs -> RunStates]
  BY <1>4, <1>5, <1>6, <1>7, <1>8, <1>9, <1>10, <1>11, <1>12
     DEF Analyse, ConcludeFails, PatchRefused, Fail
<1> QED BY <1>1, <1>2, <1>3, <1>13 DEF Runs

-----------------------------------------------------------------------------
(* Steps of the runs and of the downloads.                                 *)

\* A step of a run keeps the invariant.
LEMMA AnalyserStep ==
  ASSUME CommitInv, NEW a \in Runs, Analyse(a), UNCHANGED <<namespace, download>>
  PROVE  CommitInv'
<1>1. TypeOK'
  BY AnalyseType DEF CommitInv, TypeOK, namespace
<1>2. TypeOK /\ RunInv(a) /\ build' = build /\ (UNCHANGED artifacts \/ Write(a))
  BY AnalyseWrites DEF CommitInv
<1>3. Runs' = Runs /\ Creators' = Creators
  BY <1>2 DEF Runs, Creators
<1>4. \A x \in Runs \ {a} : run'[x] = run[x]
  BY <1>2, AnalyseIsLocal
<1>5. \A x \in Runs : RunInv(x)'
  <2>1. RunInv(a)'
    BY <1>2, AnalyseInv
  <2>2. ASSUME NEW x \in Runs \ {a} PROVE RunInv(x)'
    BY <1>2, <1>4, OthersKeep DEF CommitInv
  <2> QED BY <2>1, <2>2
<1>6. WrittenInv'
  <2>1. artifacts # NoBuild => artifacts' # NoBuild
    BY <1>2, WriteIsTyped
  <2>2. ASSUME NEW x \in Creators, run'[x].pc \in {"edit", "patch"} \cup Published
        PROVE  artifacts' # NoBuild
    <3>1. CASE x = a
      <4>1. Publish(a) => artifacts' # NoBuild
        BY WriteIsTyped DEF Publish
      <4> QED BY <1>2, <2>1, <2>2, <3>1, <4>1, Advance DEF CommitInv, WrittenInv
    <3>2. CASE x # a
      BY <1>4, <2>1, <2>2, <3>2 DEF CommitInv, WrittenInv, Creators
    <3> QED BY <3>1, <3>2
  <2> QED BY <1>3, <2>2 DEF WrittenInv
<1>7. AllowedStaysOut'
  <2>1. ASSUME artifacts' # NoBuild, NEW g \in artifacts'
        PROVE  \E x \in Creators : ~Allowed(build[x], g)
    BY <1>2, <2>1, WriteIsTyped DEF CommitInv, AllowedStaysOut
  <2> QED BY <1>2, <1>3, <2>1 DEF AllowedStaysOut
<1>8. ASSUME NEW d \in Downloads PROVE DownloadInv(d)'
  <2>1. DownloadInv(d) /\ download' = download
    BY DEF CommitInv
  <2>2. ASSUME NEW x \in Creators, run[x].pc \in Published \cup {"error"}
        PROVE  run'[x].pc \in Published \cup {"error"} /\ run'[x].community = run[x].community
    BY <1>2, <1>4, <2>2, ResultsAreFinal DEF Creators
  <2> QED BY <1>2, <1>3, <2>1, <2>2 DEF DownloadInv
<1> QED BY <1>1, <1>3, <1>5, <1>6, <1>7, <1>8 DEF CommitInv

\* So does one that is of the downloads, of the build service or of the registry.
LEMMA OtherStep ==
  ASSUME CommitInv, TypeOK', UNCHANGED <<build, artifacts, run>>,
         \A d \in Downloads : DownloadInv(d)'
  PROVE  CommitInv'
<1>1. \A a \in Runs : RunInv(a)'
  BY OthersKeep DEF CommitInv
<1> QED BY <1>1 DEF CommitInv, WrittenInv, AllowedStaysOut, Runs, Creators

\* A download whose state is not changed knows what it knew.
LEMMA DownloadKept ==
  ASSUME NEW d, DownloadInv(d), UNCHANGED <<build, run>>, download'[d] = download[d]
  PROVE  DownloadInv(d)'
BY DEF DownloadInv, Creators, Runs

LEMMA DownloadStep ==
  ASSUME CommitInv, NEW d \in Downloads, Download(d)
  PROVE  CommitInv'
<1>1. /\ AnalyserTypeOK /\ WrittenInv /\ AllowedStaysOut /\ DownloadInv(d)
      /\ download[d] \in DownloadStates /\ download \in [Downloads -> DownloadStates]
      /\ rebuilt \in SUBSET Gavs /\ registry \in SUBSET Images
  BY DEF CommitInv, TypeOK
<1>2. ASSUME UNCHANGED <<build, artifacts, run, namespace>>, budget' \in Nat,
             download' = [download EXCEPT ![d] = download'[d]],
             download'[d] \in DownloadStates, DownloadInv(d)'
      PROVE  CommitInv'
  <2>1. TypeOK'
    BY <1>1, <1>2 DEF TypeOK, AnalyserTypeOK, Runs, namespace
  <2>2. ASSUME NEW x \in Downloads PROVE DownloadInv(x)'
    <3>1. CASE x = d
      BY <1>2, <3>1
    <3>2. CASE x # d
      BY <1>1, <1>2, <3>2, DownloadKept DEF CommitInv
    <3> QED BY <3>1, <3>2
  <2> QED BY <1>2, <2>1, <2>2, OtherStep
<1> USE DEF DownloadStates, analyserVars
<1>3. CASE ReadBuild(d)
  <2> DEFINE earlier == {a \in Creators : run[a].pc \in Published
                                            /\ run[a].community \subseteq artifacts}
  <2>1. earlier \in SUBSET Analysers /\ artifacts \in SUBSET Gavs
    BY <1>1, <1>3 DEF ReadBuild, AnalyserTypeOK, Creators
  <2>2. /\ download' = [download EXCEPT ![d].pc = "list", ![d].wanted = artifacts,
                                        ![d].earlier = earlier]
        /\ UNCHANGED <<build, artifacts, run, budget, namespace>>
        /\ download[d].pc = "start" /\ artifacts # NoBuild
    BY <1>3 DEF ReadBuild
  <2>3. \A a \in earlier : /\ a \in Creators /\ run[a].pc \in Published
                           /\ run[a].community \subseteq artifacts
    OBVIOUS
  <2> HIDE DEF earlier
  <2>4. /\ download' = [download EXCEPT ![d] = download'[d]]
        /\ download'[d] \in DownloadStates
        /\ download'[d].pc = "list" /\ download'[d].wanted = artifacts
        /\ download'[d].earlier = earlier
        /\ download'[d].todo = download[d].todo /\ download'[d].archive = download[d].archive
    BY <1>1, <2>1, <2>2
  <2>5. \A g \in artifacts : \E a \in Creators : ~Allowed(build[a], g)
    BY <1>1, <2>2 DEF AllowedStaysOut
  <2>6. DownloadInv(d)'
    BY <1>1, <2>2, <2>3, <2>4, <2>5 DEF DownloadInv, Creators, Runs
  <2> QED BY <1>1, <1>2, <2>2, <2>4, <2>6 DEF AnalyserTypeOK
<1>4. CASE ListRebuilt(d)
  <2> DEFINE todo == {ImageOf[g] : g \in download[d].wanted \cap rebuilt}
  <2>1. todo \in SUBSET Images
    BY <1>1, ImageOfType
  <2>2. /\ download' = [download EXCEPT ![d].pc = "images", ![d].listed = rebuilt,
                                        ![d].todo = todo]
        /\ UNCHANGED <<build, artifacts, run, budget, namespace>>
        /\ download[d].pc = "list"
    BY <1>4 DEF ListRebuilt
  <2>3. /\ \A g \in download[d].wanted \cap rebuilt : ImageOf[g] \in todo
        /\ \A i \in todo : \E g \in download[d].wanted : ImageOf[g] = i
    OBVIOUS
  <2> HIDE DEF todo
  <2>4. /\ download' = [download EXCEPT ![d] = download'[d]]
        /\ download'[d] \in DownloadStates
        /\ download'[d].pc = "images" /\ download'[d].listed = rebuilt
        /\ download'[d].todo = todo
        /\ download'[d].wanted = download[d].wanted /\ download'[d].earlier = download[d].earlier
        /\ download'[d].archive = download[d].archive
    BY <1>1, <2>1, <2>2
  <2>6. DownloadInv(d)'
    BY <1>1, <2>2, <2>3, <2>4 DEF DownloadInv, Creators, Runs
  <2> QED BY <1>1, <1>2, <2>2, <2>4, <2>6 DEF AnalyserTypeOK
<1>5. ASSUME NEW i \in download[d].todo, AddSources(d, i) PROVE CommitInv'
  <2>1. /\ download' = [download EXCEPT ![d].todo = download[d].todo \ {i},
                                        ![d].archive = download[d].archive \cup {i}]
        /\ UNCHANGED <<build, artifacts, run, budget, namespace>>
        /\ download[d].pc = "images"
    BY <1>5 DEF AddSources
  <2>2. /\ download' = [download EXCEPT ![d] = download'[d]]
        /\ download'[d] \in DownloadStates
        /\ download'[d].pc = "images" /\ download'[d].listed = download[d].listed
        /\ download'[d].wanted = download[d].wanted /\ download'[d].earlier = download[d].earlier
        /\ download'[d].todo = download[d].todo \ {i}
        /\ download'[d].archive = download[d].archive \cup {i}
    BY <1>1, <2>1
  <2>3. DownloadInv(d)'
    BY <1>1, <2>1, <2>2 DEF DownloadInv, Creators, Runs
  <2> QED BY <1>1, <1>2, <2>1, <2>2, <2>3 DEF AnalyserTypeOK
<1>6. ASSUME NEW i, SourcesMissing(d, i) PROVE CommitInv'
  <2>1. /\ download' = [download EXCEPT ![d].pc = "failed"]
        /\ UNCHANGED <<build, artifacts, run, budget, namespace>>
    BY <1>6 DEF SourcesMissing
  <2>2. DownloadInv(d)'
    BY <1>1, <2>1 DEF DownloadInv
  <2> QED BY <1>1, <1>2, <2>1, <2>2 DEF AnalyserTypeOK
<1>7. CASE Finish(d)
  <2>1. /\ download' = [download EXCEPT ![d].pc = "done"] /\ download[d].todo = {}
        /\ UNCHANGED <<build, artifacts, run, budget, namespace>>
        /\ download[d].pc = "images"
    BY <1>7 DEF Finish
  <2>2. DownloadInv(d)'
    BY <1>1, <2>1 DEF DownloadInv, Creators, Runs
  <2> QED BY <1>1, <1>2, <2>1, <2>2 DEF AnalyserTypeOK
<1>8. CASE DownloadFails(d)
  <2>1. /\ download' = [download EXCEPT ![d].pc = "failed"]
        /\ UNCHANGED <<build, artifacts, run, namespace>> /\ budget' \in Nat
    BY <1>1, <1>8 DEF DownloadFails, AnalyserTypeOK
  <2>2. DownloadInv(d)'
    BY <1>1, <2>1 DEF DownloadInv
  <2> QED BY <1>1, <1>2, <2>1, <2>2
<1> QED BY <1>3, <1>4, <1>5, <1>6, <1>7, <1>8 DEF Download

-----------------------------------------------------------------------------
(* Theorems.                                                               *)

LEMMA InitInv == Init => CommitInv
<1> SUFFICES ASSUME Init PROVE CommitInv
  OBVIOUS
<1> USE DEF Init, AnalyserInit
<1>1. build \in Cases /\ Runs \subseteq Analysers /\ build \in [Runs -> BuildType]
  BY CasesType DEF Runs
<1>2. \A a \in Runs : run[a].pc = "scan"
  OBVIOUS
<1>3. AnalyserTypeOK
  BY <1>1, BudgetType DEF AnalyserTypeOK, RunStates
<1>4. TypeOK
  BY <1>3 DEF TypeOK, DownloadStates
<1>5. \A a \in Runs : RunInv(a)
  BY <1>2 DEF RunInv, Concluded, Writing, Ended
<1>6. WrittenInv /\ AllowedStaysOut
  BY <1>2 DEF WrittenInv, AllowedStaysOut, Published, Creators
<1>7. \A d \in Downloads : DownloadInv(d)
  BY DEF DownloadInv
<1> QED BY <1>4, <1>5, <1>6, <1>7 DEF CommitInv

LEMMA NextInv == CommitInv /\ [Next]_vars => CommitInv'
<1> SUFFICES ASSUME CommitInv, [Next]_vars PROVE CommitInv'
  OBVIOUS
<1>1. CASE AnalyserNext /\ UNCHANGED <<namespace, download>>
  BY <1>1, AnalyserStep DEF AnalyserNext
<1>2. ASSUME NEW d \in Downloads, Download(d) PROVE CommitInv'
  BY <1>2, DownloadStep
<1>3. ASSUME UNCHANGED <<build, artifacts, run, download>>, TypeOK' PROVE CommitInv'
  <2>1. \A d \in Downloads : DownloadInv(d)'
    BY <1>3, DownloadKept DEF CommitInv
  <2> QED BY <1>3, <2>1, OtherStep
<1>4. ASSUME UNCHANGED <<build, artifacts, run, download>>, budget' \in Nat,
             rebuilt' \in SUBSET Gavs, registry' \in SUBSET Images
      PROVE  TypeOK'
  BY <1>4 DEF CommitInv, TypeOK, AnalyserTypeOK, Runs
<1>5. ASSUME NEW g \in Gavs, Rebuilt(g) PROVE CommitInv'
  BY <1>3, <1>4, <1>5, ImageOfType
     DEF Rebuilt, CommitInv, TypeOK, AnalyserTypeOK, analyserVars
<1>6. CASE Lose
  <2>1. rebuilt' \in SUBSET Gavs /\ registry' \in SUBSET Images /\ budget' \in Nat
    BY <1>6 DEF Lose, CommitInv, TypeOK, AnalyserTypeOK
  <2> QED BY <1>3, <1>4, <1>6, <2>1 DEF Lose
<1>7. CASE UNCHANGED vars
  BY <1>3, <1>4, <1>7 DEF vars, namespace, analyserVars, CommitInv, TypeOK, AnalyserTypeOK
<1> QED BY <1>1, <1>2, <1>5, <1>6, <1>7 DEF Next

\* Whatever the runs, downloads, losses and failing calls do to one another,
\* what each of them knows of its build and of the ComponentBuild stays so
\* (AnalyserCommand.run, doAnalysis, DownloadSources.run).
THEOREM Invariance == Spec => []CommitInv
BY InitInv, NextInv, PTL DEF Spec

\* Types; that a run that edits has read a list, and not that there is none,
\* is a part of it.
THEOREM TypeCorrect == Spec => []TypeOK
<1>1. CommitInv => TypeOK
  BY DEF CommitInv
<1> QED BY <1>1, Invariance, PTL

\* What everything a run knows means for the classes of the output.
LEMMA KnownExplains ==
  ASSUME NEW b \in BuildType, NEW G, Explained(b, Given(b, G)),
         NEW f \in Output(b), Origins(b, f) # {}
  PROVE  \E j \in Origins(b, f) : ~Nameable(b, j) \/ GavOf(b, j) \in G
<1>1. f \in Suspects(b) /\ Blamed(b, f) = Origins(b, f)
  BY OriginsAreBlamed
<1> QED BY <1>1 DEF Explained, Given

\* A class that is marked with a source that is not allowed is community.
LEMMA MarkIsCommunity ==
  ASSUME NEW b \in BuildType, NEW f \in Output(b), f.mark # Untracked,
         f.mark.source \notin AllowedSources
  PROVE  f.mark.gav \in MarkedCommunity(b)
BY DEF MarkedCommunity, Marks

LEMMA CommitFindsAll == CommitInv => FindsAll
<1> SUFFICES ASSUME CommitInv, NEW a \in Runs, run[a].pc \in Concluded, NEW f \in Output(build[a])
             PROVE  /\ \/ f.mark = Untracked
                       \/ f.mark.source \in AllowedSources
                       \/ Reported(a, f.mark.gav)
                    /\ \/ Origins(build[a], f) = {}
                       \/ \E j \in Origins(build[a], f) :
                            ~Nameable(build[a], j) \/ Reported(a, GavOf(build[a], j))
  BY DEF FindsAll
<1>1. build[a] \in BuildType /\ Known(a)
  BY DEF CommitInv, TypeOK, AnalyserTypeOK, RunInv
<1>2. \/ f.mark = Untracked
      \/ f.mark.source \in AllowedSources
      \/ Reported(a, f.mark.gav)
  BY <1>1, MarkIsCommunity DEF Known
<1>3. ASSUME Origins(build[a], f) # {}
      PROVE  \E j \in Origins(build[a], f) :
               ~Nameable(build[a], j) \/ Reported(a, GavOf(build[a], j))
  BY <1>1, <1>3, KnownExplains DEF Known
<1> QED BY <1>2, <1>3

\* No class of the output is missed.
THEOREM NoneIsMissed == Spec => []FindsAll
BY CommitFindsAll, Invariance, PTL

\* Exit code 0 is given to a clean output alone.
THEOREM ZeroIsClean == Spec => []ZeroMeansClean
<1>1. CommitInv => ZeroMeansClean
  <2> SUFFICES ASSUME CommitInv, NEW a \in Runs, run[a].pc = "0"
               PROVE  \A f \in Output(build[a]) :
                        /\ \/ f.mark = Untracked
                           \/ f.mark.source \in AllowedSources
                           \/ Allowed(build[a], f.mark.gav)
                        /\ \/ Origins(build[a], f) = {}
                           \/ \E j \in Origins(build[a], f) :
                                ~Nameable(build[a], j) \/ Allowed(build[a], GavOf(build[a], j))
    BY DEF ZeroMeansClean
  <2>1. run[a].community = {}
    BY DEF CommitInv, RunInv
  <2>2. FindsAll /\ run[a].pc \in Concluded
    BY CommitFindsAll DEF Concluded
  <2>3. \A g : Reported(a, g) <=> Allowed(build[a], g)
    BY <2>1 DEF Reported
  <2> QED BY <2>2, <2>3 DEF FindsAll
<1> QED BY <1>1, Invariance, PTL

\* Nothing is reported that no class of the output speaks for.
THEOREM NoneIsMadeUp == Spec => []FindsOnly
<1>1. CommitInv => FindsOnly
  <2> SUFFICES ASSUME CommitInv, NEW a \in Runs, run[a].pc \in Concluded,
                      NEW g \in run[a].community
               PROVE
                 /\ ~Allowed(build[a], g)
                 /\ \/ \E f \in Output(build[a]) :
                         f.mark # Untracked /\ f.mark.gav = g /\ f.mark.source \notin AllowedSources
                    \/ \E f \in Output(build[a]), j \in build[a].jars \ build[a].local :
                         /\ g = GavOf(build[a], j)
                         /\ \E c \in build[a].content[j] : c.name = f.name /\ c.mark = Untracked
                         /\ f \in build[a].content[j] \/ Origins(build[a], f) = {}
    BY DEF FindsOnly
  <2> DEFINE b == build[a]
  <2>1. b \in BuildType /\ Known(a)
    BY DEF CommitInv, TypeOK, AnalyserTypeOK, RunInv
  <2>2. CASE g \in MarkedCommunity(b)
    BY <2>1, <2>2 DEF Known, MarkedCommunity, Marks
  <2>3. ASSUME NEW f \in Suspects(b), NEW j \in Blamed(b, f), g = GavOf(b, j)
        PROVE  /\ f \in Output(b) /\ j \in b.jars \ b.local
               /\ \E c \in b.content[j] : c.name = f.name /\ c.mark = Untracked
               /\ f \in b.content[j] \/ Origins(b, f) = {}
    <3>1. f \in Output(b) /\ j \in Scanned(b) /\ j \in Holders(b, f.name)
      BY <2>1, OutputIsFiles, BlamedAreJars
    <3>2. \E c \in b.content[j] : c.name = f.name /\ c.mark = Untracked
      BY <3>1 DEF Holders
    <3>3. f \in b.content[j] \/ Origins(b, f) = {}
      BY <2>1, <3>1, OriginsAreBlamed DEF Origins
    <3> QED BY <3>1, <3>2, <3>3 DEF Scanned
  <2> QED BY <2>1, <2>2, <2>3 DEF Known
<1> QED BY <1>1, Invariance, PTL

\* The bill of materials accounts for every class.
THEOREM SbomIsComplete == Spec => []SbomCovers
<1>1. CommitInv => SbomCovers
  <2> SUFFICES ASSUME CommitInv, NEW a \in Runs, run[a].pc \in Ended, NEW f \in Output(build[a])
               PROVE  /\ f.mark \in run[a].sbom \cup {Untracked}
                      /\ \/ Origins(build[a], f) = {}
                         \/ \E j \in Origins(build[a], f) :
                              ~Nameable(build[a], j) \/ GavOf(build[a], j) \in GavsOf(run[a].sbom)
    BY DEF SbomCovers, Ended, GavsOf
  <2>1. build[a] \in BuildType /\ Accounts(build[a], run[a].sbom)
    BY DEF CommitInv, TypeOK, AnalyserTypeOK, RunInv
  <2>2. f.mark \in run[a].sbom \cup {Untracked}
    BY <2>1 DEF Accounts, Marks
  <2>3. ASSUME Origins(build[a], f) # {}
        PROVE  \E j \in Origins(build[a], f) :
                 ~Nameable(build[a], j) \/ GavOf(build[a], j) \in GavsOf(run[a].sbom)
    BY <2>1, <2>3, KnownExplains DEF Accounts
  <2> QED BY <2>2, <2>3
<1> QED BY <1>1, Invariance, PTL

\* The bill of the build lists every downloaded jar.
THEOREM BuildBillIsComplete == Spec => []BillIsComplete
<1>1. CommitInv => BillIsComplete
  <2> SUFFICES ASSUME CommitInv, NEW a \in Runs, run[a].pc \in {"0", "1"},
                      NEW j \in build[a].jars \ (build[a].local \cup build[a].runners)
               PROVE  /\ PathGav[j] \in GavsOf(run[a].bill)
                      /\ Marks(build[a].content[j]) \subseteq run[a].bill
    BY DEF BillIsComplete, GavsOf
  <2>1. build[a] \in BuildType /\ run[a].bill = BuildGavs(build[a]) /\ j \in Scanned(build[a])
    BY DEF CommitInv, TypeOK, AnalyserTypeOK, RunInv, Scanned
  <2> QED BY <2>1, BillNamesAll
<1> QED BY <1>1, Invariance, PTL

\* What everybody allows stays out of the ComponentBuild.
THEOREM AllowedIsKeptOut == Spec => []AllowedStaysOut
<1>1. CommitInv => AllowedStaysOut
  BY DEF CommitInv
<1> QED BY <1>1, Invariance, PTL

\* A finished download covers what the analyses before it had found.
THEOREM DownloadCovers == Spec => []SourcesCover
<1>1. CommitInv => SourcesCover
  <2> SUFFICES ASSUME CommitInv, NEW d \in Downloads, download[d].pc = "done"
               PROVE  /\ \A a \in download[d].earlier :
                           \A g \in run[a].community \cap download[d].listed :
                             ImageOf[g] \in download[d].archive
                      /\ \A i \in download[d].archive :
                           \E a \in Creators, g \in Gavs : ImageOf[g] = i /\ ~Allowed(build[a], g)
    BY DEF SourcesCover
  <2>1. DownloadInv(d) /\ download[d].wanted \subseteq Gavs
    BY DEF CommitInv, TypeOK, DownloadStates
  <2>2. \A a \in download[d].earlier : run[a].community \subseteq download[d].wanted
    BY <2>1 DEF DownloadInv
  <2>3. \A g \in download[d].wanted \cap download[d].listed : ImageOf[g] \in download[d].archive
    BY <2>1 DEF DownloadInv
  <2>4. \A i \in download[d].archive : \E g \in download[d].wanted : ImageOf[g] = i
    BY <2>1 DEF DownloadInv
  <2>5. \A g \in download[d].wanted : \E a \in Creators : ~Allowed(build[a], g)
    BY <2>1 DEF DownloadInv
  <2> QED BY <2>1, <2>2, <2>3, <2>4, <2>5
<1> QED BY <1>1, Invariance, PTL

\* A run that has come to the end of its own writing has its results there, if
\* what it had read was still there.
LEMMA PublishStays ==
  ASSUME CommitInv, NEW a \in Creators, Publish(a)
  PROVE  \/ artifacts' # NoBuild /\ run'[a].community \subseteq artifacts'
         \/ run[a].pc = "patch" /\ ~(run[a].seen \subseteq artifacts)
<1>1. run'[a].community = run[a].community
  BY DEF Publish, CommitInv, TypeOK, AnalyserTypeOK, RunStates, Creators
<1>2. artifacts' # NoBuild
  BY WriteIsTyped DEF Publish, Creators
<1>3. CASE run[a].pc = "patch" /\ artifacts' = Patched(a)
  BY <1>1, <1>2, <1>3 DEF Patched
<1>4. CASE run[a].pc = "create" /\ artifacts' = AllGavs(a)
  BY <1>1, <1>2, <1>4 DEF AllGavs
<1> QED BY <1>3, <1>4 DEF Publish, Write

\* A run that has published had done so before, or does it now.
LEMMA PublishedBefore ==
  ASSUME TypeOK, NEW a \in Creators, Analyse(a), run'[a].pc \in Published
  PROVE  run[a].pc \in Published \/ Publish(a)
<1> USE DEF TypeOK, AnalyserTypeOK, RunStates, Creators, Published
<1>1. ASSUME Throw(a) PROVE FALSE
  BY <1>1 DEF Throw
<1>2. ASSUME Conclude(a) PROVE FALSE
  BY <1>2 DEF Conclude
<1>3. ASSUME Get(a) PROVE FALSE
  BY <1>3 DEF Get
<1>4. ASSUME ReadToEdit(a) PROVE FALSE
  BY <1>4 DEF ReadToEdit
<1>5. ASSUME Scan(a) PROVE FALSE
  BY <1>5 DEF Scan
<1>6. ASSUME NEW s, Resolve(a, s) PROVE FALSE
  BY <1>6 DEF Resolve
<1>7. ASSUME WriteSbom(a) \/ Exit(a) PROVE run[a].pc \in Published
  BY <1>7 DEF WriteSbom, Exit
<1> QED
  <2> HIDE DEF TypeOK, AnalyserTypeOK, RunStates, Creators, Published
  <2> QED BY <1>1, <1>2, <1>3, <1>4, <1>5, <1>6, <1>7
             DEF Analyse, ConcludeFails, PatchRefused, Fail

\* Another run adds to the ComponentBuild, unless it puts its own in the place.
LEMMA OthersAdd ==
  ASSUME CommitInv, NEW b \in Runs, Analyse(b), artifacts # NoBuild
  PROVE  \/ artifacts' # NoBuild /\ artifacts \subseteq artifacts'
         \/ b \in Creators /\ run[b].pc = "create" /\ run'[b].pc # "create"
<1>1. CASE UNCHANGED artifacts
  BY <1>1
<1>2. CASE Write(b) /\ ~UNCHANGED artifacts
  <2>1. artifacts' # NoBuild /\ b \in Creators
    BY <1>2, WriteIsTyped
  <2>2. CASE run[b].pc = "patch" /\ artifacts' = Patched(b)
    BY <2>1, <2>2 DEF Patched
  <2>3. CASE run[b].pc = "create" /\ artifacts' = AllGavs(b)
    <3>1. Publish(b) \/ Fail(b)
      BY <1>2, <2>3 DEF Analyse, Scan, Resolve, Conclude, ConcludeFails, Get, ReadToEdit,
         PatchRefused, WriteSbom, Exit
    <3>2. run'[b].pc \in {"sbom", "error"}
      BY <3>1 DEF Publish, Fail, Throw, CommitInv, TypeOK, AnalyserTypeOK, RunStates
    <3> QED BY <2>1, <2>3, <3>2
  <2> QED BY <1>2, <2>2, <2>3 DEF Write
<1> QED BY <1>1, <1>2, AnalyseWrites

\* What one analysis has found survives what the others do, except in the cases
\* the property names.
THEOREM ResultsSurvive == Spec => ResultsStay
<1>1. ASSUME CommitInv, [Next]_vars, NEW a \in Creators, run'[a].pc \in Published
      PROVE  \/ artifacts' # NoBuild /\ run'[a].community \subseteq artifacts'
             \/ \E b \in Creators \ {a} : run[b].pc = "create" /\ run'[b].pc # "create"
             \/ run[a].pc = "patch" /\ ~(run[a].seen \subseteq artifacts)
             \/ run[a].pc \in Published /\ ~(run[a].community \subseteq artifacts)
  <2>1. TypeOK /\ a \in Runs
    BY <1>1 DEF CommitInv, Creators
  <2>2. run[a].pc \in Published => artifacts # NoBuild
    BY <1>1 DEF CommitInv, WrittenInv
  <2>3. CASE UNCHANGED <<artifacts, run>>
    BY <1>1, <2>2, <2>3
  <2>4. CASE Analyse(a)
    <3>1. CASE run[a].pc \in Published
      BY <2>1, <2>2, <2>4, <3>1, ResultsAreFinal
    <3>2. CASE Publish(a)
      BY <1>1, <3>2, PublishStays
    <3> QED BY <1>1, <2>1, <2>4, <3>1, <3>2, PublishedBefore
  <2>5. ASSUME NEW b \in Runs \ {a}, Analyse(b)
        PROVE  \/ artifacts' # NoBuild /\ run'[a].community \subseteq artifacts'
               \/ \E x \in Creators \ {a} : run[x].pc = "create" /\ run'[x].pc # "create"
               \/ run[a].pc \in Published /\ ~(run[a].community \subseteq artifacts)
    <3>1. run'[a] = run[a] /\ artifacts # NoBuild
      BY <1>1, <2>1, <2>2, <2>5, AnalyseIsLocal
    <3> QED BY <1>1, <2>5, <3>1, OthersAdd
  <2>6. \/ UNCHANGED <<artifacts, run>>
        \/ \E b \in Runs : Analyse(b)
    <3>1. \A d \in Downloads : Download(d) => UNCHANGED <<artifacts, run>>
      BY DEF Download, ReadBuild, ListRebuilt, AddSources, SourcesMissing, Finish,
             DownloadFails, analyserVars
    <3> QED BY <1>1, <3>1 DEF Next, AnalyserNext, Rebuilt, Lose, vars, analyserVars
  <2> QED BY <2>3, <2>4, <2>5, <2>6
<1>2. CommitInv /\ [Next]_vars =>
        [\A a \in Creators :
           run'[a].pc \in Published =>
             \/ artifacts' # NoBuild /\ run'[a].community \subseteq artifacts'
             \/ \E b \in Creators \ {a} : run[b].pc = "create" /\ run'[b].pc # "create"
             \/ run[a].pc = "patch" /\ ~(run[a].seen \subseteq artifacts)
             \/ run[a].pc \in Published /\ ~(run[a].community \subseteq artifacts)]_analyserVars
  BY <1>1
<1> QED BY <1>2, Invariance, PTL DEF Spec, ResultsStay

=============================================================================

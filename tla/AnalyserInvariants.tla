------------------------- MODULE AnalyserInvariants -------------------------
(***************************************************************************)
(* The inductive invariant of Analyser and DownloadSources: what a run     *)
(* knows at each of its stages, of its build and of the ComponentBuild.    *)
(***************************************************************************)
EXTENDS DownloadSources

Writing == {"edit", "patch", "create"}
Ended == {"bill", "0", "1"}

\* Every class that comes from somewhere has a jar to blame that is in S.
Explained(b, S) == \A f \in Suspects(b) : Blamed(b, f) \cap S # {}

\* Every jar of S is to blame for a class.
Guilty(b, S) == \A j \in S : \E f \in Suspects(b) : j \in Blamed(b, f)

\* The jars that give artifact g of G, or none.
Given(b, G) == {j \in Jars : ~Nameable(b, j) \/ GavOf(b, j) \in G}

GavsOf(tracking) == {t.gav : t \in tracking}

\* While the sets of jars are resolved one by one, none is forgotten.
Resolving(a) ==
  LET b == build[a]
  IN /\ run[a].tracking = Marks(Output(b))
     /\ run[a].community = MarkedCommunity(b)
     /\ Guilty(b, run[a].additional)
     /\ \A s \in run[a].multiples : Guilty(b, s) /\ s # {}
     /\ \A f \in Suspects(b) :
          Blamed(b, f) \in run[a].multiples \/ Blamed(b, f) \cap run[a].additional # {}

\* What was found is all there is, and nothing else.
Known(a) ==
  LET b == build[a]
  IN /\ Explained(b, Given(b, {g \in Gavs : Reported(a, g)}))
     /\ \A g \in MarkedCommunity(b) : Reported(a, g)
     /\ \A g \in run[a].community :
          /\ ~Allowed(b, g)
          /\ \/ g \in MarkedCommunity(b)
             \/ \E f \in Suspects(b) : \E j \in Blamed(b, f) : g = GavOf(b, j)

\* Tracking data that accounts for every class.
Accounts(b, tracking) ==
  /\ Marks(Output(b)) \subseteq tracking
  /\ Explained(b, Given(b, GavsOf(tracking)))

RunInv(a) ==
  /\ run[a].pc = "resolve" => Resolving(a)
  /\ run[a].pc \in Concluded => Known(a) /\ Accounts(build[a], run[a].tracking)
  /\ run[a].pc \in {"get"} \cup Writing => build[a].create
  /\ run[a].pc \in Ended => Accounts(build[a], run[a].sbom)
  /\ run[a].pc = "0" => run[a].community = {}
  /\ run[a].pc \in {"0", "1"} => run[a].bill = BuildGavs(build[a])

\* Where a run has seen or written a ComponentBuild, there is one.
WrittenInv ==
  \A a \in Creators :
    run[a].pc \in {"edit", "patch"} \cup Published => artifacts # NoBuild

DownloadInv(d) ==
  /\ download[d].pc \in {"list", "images", "done"} =>
       /\ \A a \in download[d].earlier :
            /\ a \in Creators /\ run[a].pc \in Published \cup {"error"}
            /\ run[a].community \subseteq download[d].wanted
       /\ \A g \in download[d].wanted : \E a \in Creators : ~Allowed(build[a], g)
  /\ download[d].pc \in {"images", "done"} =>
       \A g \in download[d].wanted \cap download[d].listed :
         ImageOf[g] \in download[d].todo \cup download[d].archive
  /\ \A i \in download[d].todo \cup download[d].archive :
       \E g \in download[d].wanted : ImageOf[g] = i
  /\ download[d].pc = "done" => download[d].todo = {}
  /\ download[d].pc = "start" => download[d].todo = {} /\ download[d].archive = {}
  /\ download[d].pc = "list" => download[d].todo = {} /\ download[d].archive = {}

\* The inductive invariant: what every analysis and download knows is so, and
\* stays so whatever the others do to the ComponentBuild (AnalyserCommand.run,
\* doAnalysis and DownloadSources.run).
CommitInv ==
  /\ TypeOK
  /\ \A a \in Runs : RunInv(a)
  /\ WrittenInv
  /\ AllowedStaysOut
  /\ \A d \in Downloads : DownloadInv(d)

=============================================================================

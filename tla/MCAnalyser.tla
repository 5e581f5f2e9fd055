----------------------------- MODULE MCAnalyser -----------------------------
(***************************************************************************)
(* Small instances of Analyser and DownloadSources: one run on every small *)
(* build, and two or three on a few builds of one commit, next to one      *)
(* download of its sources.                                                *)
(***************************************************************************)
EXTENDS AnalyserInvariants, TLC

CONSTANTS
  a1, a2, a3,         \* analysers
  j1, j2, j3,         \* jars of a Maven repository
  k1, k2,             \* jars of a Gradle cache
  X, Y, M,            \* classes, M is module-info
  h1, h2,             \* contents
  g1, g2, g3, odd,    \* artifacts; odd: what the scan makes of a Gradle path
  i1, i2              \* images

Unmarked(c, h) == [name |-> c, bytes |-> h, mark |-> Untracked]
Marked(c, g, source) == [name |-> c, bytes |-> h1, mark |-> [gav |-> g, source |-> source]]

Paths == j1 :> g1 @@ j2 :> g2 @@ j3 :> g3 @@ k1 :> odd @@ k2 :> odd
Parents == j1 :> odd @@ j2 :> odd @@ j3 :> odd @@ k1 :> g1 @@ k2 :> g2
Matches == "p" :> {g1} @@ "q" :> {g1, odd} @@ "r" :> {g3}
ImagesOf == g1 :> i1 @@ g2 :> i1 @@ g3 :> i2 @@ odd :> i2

\* A build that has nothing, and is called with no option.
NoOutput ==
  [gradle |-> FALSE, create |-> FALSE, named |-> FALSE, allowed |-> {},
   jars |-> {}, local |-> {}, runners |-> {}, content |-> [j \in Jars |-> {}],
   loose |-> {}, packed |-> {}, own |-> {}]

Holding(contents) == contents @@ [j \in Jars |-> {}]

Contents == {{}, {Unmarked(X, h1)}, {Unmarked(X, h2)}, {Unmarked(X, h1), Unmarked(Y, h1)}}
Packed == SUBSET {Unmarked(X, h1), Unmarked(Y, h1), Unmarked(X, h2)}

\* Three jars of a Maven repository, one of them perhaps built locally.
MavenBuilds ==
  { [NoOutput EXCEPT !.jars = {j1, j2, j3}, !.local = l, !.packed = out, !.allowed = {"r"},
                     !.content = Holding(j1 :> c1 @@ j2 :> c2 @@ j3 :> c3)] :
      l \in {{}, {j3}}, c1 \in Contents, c2 \in Contents, c3 \in Contents \ {{}}, out \in Packed }

\* Loose classes, which the tracker may or may not take for the build's own.
OwnBuilds ==
  { [NoOutput EXCEPT !.jars = {j1, j2}, !.runners = r, !.own = o, !.loose = {Unmarked(Y, h1)},
                     !.packed = {Unmarked(X, h1)}, !.content = Holding(j1 :> c1 @@ j2 :> c2)] :
      r \in {{}, {j2}}, c1 \in Contents, c2 \in Contents, o \in {{}, {Y}} }

\* Marked classes: rebuilt ones, and ones of the community in a rebuilt jar.
MarkedBuilds ==
  { [NoOutput EXCEPT !.jars = {j1, j2}, !.packed = out, !.allowed = {"r"}, !.create = TRUE,
                     !.named = TRUE,
                     !.content = Holding(j1 :> {Marked(X, g, "rebuilt")} @@ j2 :> {Unmarked(M, h1)})] :
      g \in {g1, g3},
      out \in SUBSET {Marked(X, g1, "rebuilt"), Marked(Y, g3, "other"), Unmarked(M, h1)} }

\* A Gradle cache, one jar of which is in a directory with a short name.
GradleBuilds ==
  { [NoOutput EXCEPT !.gradle = TRUE, !.jars = {k1, k2}, !.packed = out,
                     !.content = Holding(k1 :> c1 @@ k2 :> c2)] :
      c1 \in Contents, c2 \in Contents, out \in Packed }

AnyBuild == MavenBuilds \cup OwnBuilds \cup MarkedBuilds \cup GradleBuilds

\* A build of the commit with these class files in its output.
BuildWith(out, allowed) ==
  [NoOutput EXCEPT !.create = TRUE, !.named = TRUE, !.allowed = allowed, !.jars = {j1, j2},
                   !.packed = out,
                   !.content = Holding(j1 :> {Unmarked(X, h1)} @@ j2 :> {Unmarked(Y, h1)})]

Rebuilt3 == BuildWith({Marked(X, g3, "rebuilt")}, {"r"})
Community2 == BuildWith({Unmarked(Y, h1)}, {"p"})
Community12 == BuildWith({Unmarked(X, h1), Unmarked(Y, h1)}, {"r"})
Unnamed == [Community2 EXCEPT !.named = FALSE]

AnyCases ==
  {a1 :> b : b \in AnyBuild \cup {Unnamed}}
  \cup {a1 :> Rebuilt3 @@ a2 :> Community12 @@ a3 :> Community2}

\* One run that is given two patterns, both of which may match what it finds.
AllowedCases ==
  {a1 :> BuildWith(out, {"p", "q"}) : out \in {{Unmarked(X, h1)}, {Unmarked(Y, h1)}}}

=============================================================================

---------------------------- MODULE MCDeployTask ----------------------------
(***************************************************************************)
(* A small instance of DeployTask: two artifacts of one image, a third of  *)
(* another image with the same digest, a fourth of one that has a package  *)
(* in common with them.                                                    *)
(***************************************************************************)
EXTENDS DeployTaskInvariants, TLC

CONSTANTS t1, t2, r1, r2, r3, r4, i1, i2, i3, e1, e2, p1, p2, jar, pom

\* One task for everything; the other, with --force, for r4.
AllAndOne == t1 :> All @@ t2 :> r4
ImagesOf == r1 :> i1 @@ r2 :> i1 @@ r3 :> i2 @@ r4 :> i3
DigestsOf == i1 :> e1 @@ i2 :> e1 @@ i3 :> e2
SharedPackage == e1 :> {p1, p2} @@ e2 :> {p1}

AnyMishap == [kind \in Mishaps |-> 1]
Missing == [kind \in Mishaps |-> IF kind = "missing" THEN 1 ELSE 0]

FilesAlike == Permutations({jar, pom})
=============================================================================

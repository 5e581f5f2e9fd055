---------------------------- MODULE MCReconciler ----------------------------
(***************************************************************************)
(* Small instances of Reconciler.                                          *)
(***************************************************************************)
EXTENDS ReconcilerInvariants, TLC

CONSTANTS c1, c2, g1, g2, d1, d2

\* One disturbance of each of the given kinds.
OneOf(kinds) == [kind \in Disturbances |-> IF kind \in kinds THEN 1 ELSE 0]

\* Both artifacts come out of one build.
OneBuild == [g \in {g1, g2} |-> d1]
SoleBuild == [g \in {g1} |-> d1]

WantsOne == [c \in {c1} |-> {g1}]
BothWantNothing == [c \in {c1, c2} |-> {}]

\* A spec that lists one artifact, so many times, and has no pull request.
Lists(g, times) ==
  [gavs |-> [h \in {g1, g2} |-> IF h = g THEN times ELSE 0], pr |-> FALSE]
OnceOrTwice == {Lists(g, times) : g \in {g1, g2}, times \in {1, 2}}

AllAlike == Permutations({c1, c2}) \cup Permutations({g1, g2})

FaultsReadAndCrash == OneOf({"fault", "lost", "read", "restart"})
FailuresAndRetry == OneOf({"trfail", "prfail", "read", "retry"})
FaultCrashAndFailedReport == OneOf({"fault", "restart", "prfail"})
FailedDeployReadAndAnswer == OneOf({"trfail", "read", "lost"})
TwoEdits == [OneOf({}) EXCEPT !["edit"] = 2]
Retries == OneOf({"retry"})
=============================================================================

---------------------------- MODULE BuildPromise ----------------------------
(***************************************************************************)
(* What Apheleia promises to those who ask for a component to be rebuilt,  *)
(* without a word about caches, queues, keys or retries:                   *)
(*   - a build is marked as deployed only after a deployment of it has     *)
(*     succeeded, and is never unmarked;                                   *)
(*   - a component is declared complete only when everything asked of it   *)
(*     at that moment is deployed, and failed only when something asked    *)
(*     of it has failed to build;                                          *)
(*   - a pull request is told that its component is complete only when     *)
(*     everything some request that named it asked for is deployed, and    *)
(*     that it failed only when something of it did;                       *)
(*   - a component is marked as notified only when a message has reached   *)
(*     its pull request, and unmarked only when it is in progress again.   *)
(***************************************************************************)
CONSTANTS ComponentBuilds, Artifacts, DependencyBuilds, BuiltBy, Wanted, HasPR

VARIABLES
  asked,      \* asked[c]: what is asked of component c
  requests,   \* requests[c]: all that was ever asked of it
  broken,     \* the artifacts that have failed to build, once at least
  published,  \* the builds a deployment of which has succeeded
  deployed,   \* the builds that are marked as deployed
  verdict,    \* verdict[c]: what is said of component c
  told,       \* told[c]: the messages sent to the pull request of c
  heard,      \* heard[c]: those that reached it
  notified    \* notified[c]: is c marked as notified?

vars == <<asked, requests, broken, published, deployed, verdict, told, heard, notified>>

\* The artifacts needed, and whether a pull request is to be told.
Requests == [needs: SUBSET Artifacts, pr: BOOLEAN]
FirstRequest(c) == [needs |-> Wanted[c], pr |-> c \in HasPR]

Init ==
  /\ asked = [c \in ComponentBuilds |-> FirstRequest(c)]
  /\ requests = [c \in ComponentBuilds |-> {FirstRequest(c)}]
  /\ broken = {} /\ published = {} /\ deployed = {}
  /\ verdict = [c \in ComponentBuilds |-> ""]
  /\ told = [c \in ComponentBuilds |-> {}]
  /\ heard = [c \in ComponentBuilds |-> {}]
  /\ notified = [c \in ComponentBuilds |-> FALSE]

\* Another request takes the place of the one before.
Ask(c, request) ==
  /\ asked' = [asked EXCEPT ![c] = request]
  /\ requests' = [requests EXCEPT ![c] = @ \cup {request}]
  /\ UNCHANGED <<broken, published, deployed, verdict, told, heard, notified>>

Break(g) ==
  /\ broken' = broken \cup {g}
  /\ UNCHANGED <<asked, requests, published, deployed, verdict, told, heard, notified>>

Publish(d) ==
  /\ published' = published \cup {d}
  /\ UNCHANGED <<asked, requests, broken, deployed, verdict, told, heard, notified>>

Mark(d) ==
  /\ d \in published
  /\ deployed' = deployed \cup {d}
  /\ UNCHANGED <<asked, requests, broken, published, verdict, told, heard, notified>>

\* May "Complete" or "Failed" be said, when the artifacts are gs?
IsTrueOf(v, gs) ==
  \/ v = "Complete" /\ \A g \in gs : BuiltBy[g] \in deployed
  \/ v = "Failed" /\ gs \cap broken # {}

Judge(c, v) ==
  /\ IsTrueOf(v, asked[c].needs)
  /\ verdict' = [verdict EXCEPT ![c] = v]
  /\ UNCHANGED <<asked, requests, broken, published, deployed, told, heard, notified>>

Resume(c) ==
  /\ verdict' = [verdict EXCEPT ![c] = "InProgress"]
  /\ notified' = [notified EXCEPT ![c] = FALSE]
  /\ UNCHANGED <<asked, requests, broken, published, deployed, told, heard>>

Tell(c, v, request) ==
  /\ request \in requests[c] /\ request.pr
  /\ IsTrueOf(v, request.needs)
  /\ told' = [told EXCEPT ![c] = @ \cup {v}]
  /\ UNCHANGED <<asked, requests, broken, published, deployed, verdict, heard, notified>>

Deliver(c, v) ==
  /\ v \in told[c]
  /\ heard' = [heard EXCEPT ![c] = @ \cup {v}]
  /\ UNCHANGED <<asked, requests, broken, published, deployed, verdict, told, notified>>

Acknowledge(c) ==
  /\ heard[c] # {}
  /\ notified' = [notified EXCEPT ![c] = TRUE]
  /\ UNCHANGED <<asked, requests, broken, published, deployed, verdict, told, heard>>

Next ==
  \/ \E c \in ComponentBuilds :
       \/ \E request \in Requests : Ask(c, request)
       \/ \E v \in {"Complete", "Failed"} :
            \/ Judge(c, v) \/ Deliver(c, v)
            \/ \E request \in requests[c] : Tell(c, v, request)
       \/ Resume(c)
       \/ Acknowledge(c)
  \/ \E g \in Artifacts : Break(g)
  \/ \E d \in DependencyBuilds : Publish(d) \/ Mark(d)

Spec == Init /\ [][Next]_vars

=============================================================================

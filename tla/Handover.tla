------------------------------ MODULE Handover ------------------------------
(***************************************************************************)
(* The rollout of a new version of the operator: leader election is off by *)
(* default (main.go), so a new process works while the old one is still at *)
(* it. Each has caches, a queue and a worker of its own. What they share   *)
(* is the API server, and its check of the resourceVersion is all that     *)
(* keeps one from overwriting what the other has stored.                   *)
(*                                                                         *)
(* Bounds: once the new process has listed what there is, the old one only *)
(* finishes the request it has, with the caches it has; budget["restart"], *)
(* the number of rollouts, is one. The specs of the ComponentBuilds stay   *)
(* as they are meanwhile, and no failed build is retried.                  *)
(***************************************************************************)
EXTENDS Reconciler

VARIABLES
  seenAB2, seenRA2, seenDB2, seenCB2, seenTR2, seenPR2, queue2,  \* the new
  pc2, req2, batch2, cur2, my2, left2, gav2                      \* process's

own == <<caches, queue, worker>>
worker2 == <<pc2, req2, batch2, cur2, my2, left2, gav2>>
own2 == <<seenAB2, seenRA2, seenDB2, seenCB2, seenTR2, seenPR2, queue2, worker2>>
handoverVars == <<vars, own2>>

New == INSTANCE Reconciler WITH
  seenAB <- seenAB2, seenRA <- seenRA2, seenDB <- seenDB2, seenCB <- seenCB2,
  seenTR <- seenTR2, seenPR <- seenPR2, queue <- queue2, pc <- pc2, req <- req2,
  batch <- batch2, cur <- cur2, my <- my2, left <- left2, gav <- gav2

HandoverTypeOK == TypeOK /\ New!TypeOK

HandoverInit == Init /\ New!Init

Arrived == budget["restart"] < Budget["restart"]

-----------------------------------------------------------------------------

\* Mutant of Stored: the API server takes the copies of the other all the same.
StoredUnseen == {}

\* The ComponentBuilds that the step stores: no copy of them is current any more.
Stored == {c \in ComponentBuilds : componentBuild'[c] # componentBuild[c]}

Aged(held) == [c \in DOMAIN held |-> IF c \in Stored THEN Outdated(held[c]) ELSE held[c]]

\* A step of the new process, as the old one sees it, and the other way round.
OldStays ==
  /\ UNCHANGED <<seenAB, seenRA, seenDB, seenTR, seenPR, queue, pc, req, cur, left, gav>>
  /\ seenCB' = Aged(seenCB)
  /\ batch' = Aged(batch)
  /\ my' = IF cur \in Stored THEN Outdated(my) ELSE my

NewStays ==
  /\ UNCHANGED <<seenAB2, seenRA2, seenDB2, seenTR2, seenPR2, queue2, pc2, req2,
                 cur2, left2, gav2>>
  /\ seenCB2' = IF Arrived THEN Aged(seenCB2) ELSE seenCB2
  /\ batch2' = Aged(batch2)
  /\ my2' = IF cur2 \in Stored THEN Outdated(my2) ELSE my2

\* The new process lists what there is.
Arrive ==
  /\ ~Arrived
  /\ New!Relist
  /\ UNCHANGED <<own, worker2>>

OldWorks ==
  /\ \/ (Arrived => pc # "idle") /\ Worker
     \/ ~Arrived /\ Sync /\ UNCHANGED worker
     \/ ~Arrived /\ IdleResync
  /\ NewStays

NewWorks ==
  /\ Arrived
  /\ New!Worker \/ (New!Sync /\ UNCHANGED worker2)
  /\ OldStays

\* The old process is stopped; what it held is gone with it.
Leave ==
  /\ Arrived /\ pc = "idle"
  /\ seenAB' = [g \in Artifacts |-> "absent"] /\ seenRA' = {}
  /\ seenDB' = [d \in DependencyBuilds |-> FALSE]
  /\ seenCB' = [c \in ComponentBuilds |-> NoCopy]
  /\ seenTR' = [d \in DependencyBuilds |-> <<>>]
  /\ seenPR' = [c \in ComponentBuilds |-> <<>>]
  /\ queue' = {}
  /\ UNCHANGED <<api, budget, history, worker, own2>>

HandoverNext ==
  \/ Arrive
  \/ OldWorks
  \/ NewWorks
  \/ Leave
  \/ Settling /\ UNCHANGED <<worker, own2>>

HandoverSpec == HandoverInit /\ [][HandoverNext]_handoverVars

=============================================================================

------------------------- MODULE HandoverInvariants -------------------------
(***************************************************************************)
(* The inductive invariant of Handover: what the API server holds is sound *)
(* whoever stored it; the old process keeps the invariant of a process for *)
(* as long as it has work, and the new one from its arrival on. Till then  *)
(* the new one waits.                                                      *)
(***************************************************************************)
EXTENDS Handover, ReconcilerInvariants

NewProcess == INSTANCE ReconcilerInvariants WITH
  seenAB <- seenAB2, seenRA <- seenRA2, seenDB <- seenDB2, seenCB <- seenCB2,
  seenTR <- seenTR2, seenPR <- seenPR2, queue <- queue2, pc <- pc2, req <- req2,
  batch <- batch2, cur <- cur2, my <- my2, left <- left2, gav <- gav2

NewWaits ==
  /\ pc2 = "idle" /\ req2 = NoRequest /\ batch2 = NoBatch
  /\ cur2 = Nobody /\ my2 = NoCopy /\ left2 = NothingLeft /\ gav2 = Nobody

HandoverInv ==
  /\ HandoverTypeOK
  /\ SharedInv
  /\ ~Arrived \/ pc # "idle" => LocalInv
  /\ Arrived => NewProcess!LocalInv
  /\ ~Arrived => NewWaits

=============================================================================

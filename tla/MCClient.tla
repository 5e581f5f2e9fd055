------------------------------ MODULE MCClient ------------------------------
(***************************************************************************)
(* A small instance of InformerFactory and one of ObjectMemory.  They have *)
(* no state in common: one is explored while the other stands still.       *)
(***************************************************************************)
EXTENDS ClientInvariants

Init == FactoryInit /\ MemoryInit

Next ==
  \/ FactoryNext /\ MemoryInit /\ UNCHANGED memoryVars
  \/ MemoryNext /\ FactoryInit /\ UNCHANGED factoryVars

Spec == Init /\ [][Next]_<<factoryVars, memoryVars>> /\ FactoryFairness
=============================================================================

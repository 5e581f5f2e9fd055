----------------------------- MODULE ValueCopies -----------------------------
(***************************************************************************)
(* What the users of the client rely on, the handlers of the reconciler    *)
(* among them: a copy of an object is a value of its own.  Writing to it   *)
(* changes nothing else, and nothing else changes it, until it is sent to  *)
(* the API server.                                                         *)
(***************************************************************************)
CONSTANTS Names, Users, Contents, Values, Nil

VARIABLES store, cache, held, copy

copyVars == <<store, cache, held, copy>>

Init ==
  /\ store = [n \in Names |-> Nil]
  /\ cache = [n \in Names |-> Nil]
  /\ held = [u \in Users |-> Nil]
  /\ copy = [u \in Users |-> Nil]

\* The cache is brought up to date from the server, and from nowhere else.
Deliver(n) ==
  /\ cache' = [cache EXCEPT ![n] = store[n]]
  /\ UNCHANGED <<store, held, copy>>

Lookup(u, n) ==
  /\ held' = [held EXCEPT ![u] = cache[n]]
  /\ UNCHANGED <<store, cache, copy>>

Copy(u) ==
  /\ copy' = [copy EXCEPT ![u] = held[u]]
  /\ UNCHANGED <<store, cache, held>>

Fetch(u, n) ==
  /\ copy' = [copy EXCEPT ![u] = store[n]]
  /\ UNCHANGED <<store, cache, held>>

Write(u, v) ==
  /\ copy[u] # Nil
  /\ copy' = [copy EXCEPT ![u] = [@ EXCEPT !.artifacts = v]]
     \/ copy' = [copy EXCEPT ![u] = [@ EXCEPT !.state = v]]
  /\ UNCHANGED <<store, cache, held>>

\* What is stored comes back as a copy.
Store(u, n) ==
  /\ \E v \in Values :
       /\ store' = [store EXCEPT ![n] = v]
       /\ copy' = [copy EXCEPT ![u] = v]
  /\ UNCHANGED <<cache, held>>

Delete(n) ==
  /\ store' = [store EXCEPT ![n] = Nil]
  /\ UNCHANGED <<cache, held, copy>>

Next ==
  \/ \E n \in Names : Deliver(n) \/ Delete(n)
  \/ \E u \in Users, n \in Names : Lookup(u, n) \/ Fetch(u, n) \/ Store(u, n)
  \/ \E u \in Users : Copy(u) \/ \E v \in Contents : Write(u, v)

Spec == Init /\ [][Next]_copyVars
=============================================================================

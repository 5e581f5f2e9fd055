-------------------------- MODULE ClientInvariants --------------------------
(***************************************************************************)
(* The inductive invariants of InformerFactory and ObjectMemory.           *)
(***************************************************************************)
EXTENDS InformerFactory, ObjectMemory

\* Who is between taking and giving back the lock has it, and is alone there.
Locked(c) == call[c].at \in {"informerFor", "register", "start"}
MutualExclusion == \A c \in Callers : Locked(c) => lock = c

\* A caller that is about to register an informer has made one of the right
\* type that nobody else knows, and there is none registered yet.
Asking(c) ==
  LET t == call[c].type
      i == call[c].informer
  IN
  /\ At(c, "informerFor") => t \in Types
  /\ At(c, "register") => t \in Types /\ i \in Informers /\ kind[i] = t /\ informers[t] = None

\* An informer is registered for its type.
Registered ==
  /\ \A t \in Types : informers[t] # None => kind[informers[t]] = t
  /\ \A c \in Callers, t \in Types : given[c][t] # None => given[c][t] = informers[t]

\* Of the informers only those run that are flagged as started, with one
\* channel, and those flagged do run.
RunOnce ==
  /\ \A i \in Informers : runs[i] # {} =>
       kind[i] \in startedInformers /\ informers[kind[i]] = i
  /\ \A t \in startedInformers : informers[t] # None /\ runs[informers[t]] # {}
  /\ \A i \in Informers : \A ch1, ch2 \in runs[i] : ch1 = ch2

\* A store that is filled has all there was from the start on; only what is
\* there counts as having been there.
StoresAreTrue ==
  \A i \in Informers :
    /\ i \in synced => runs[i] # {} /\ since[i] \subseteq indexer[i]
    /\ indexer[i] \subseteq Selected
    /\ runs[i] # {} => since[i] \subseteq Listed(kind[i])

\* Start has before it what it has not started yet.
Starting(c) ==
  At(c, "start") =>
    /\ call[c].stop \in Channels
    /\ \A t \in Types :
         /\ call[c].todo[t] \in {informers[t], None}
         /\ informers[t] # None => call[c].todo[t] # None \/ t \in startedInformers

\* What a caller had asked for before its last Start is registered, and started
\* once that Start is over.
DueIsStarted(c) ==
  /\ \A t \in due[c] : informers[t] # None
  /\ At(c, "start") \/ due[c] \subseteq startedInformers

\* A wait has before it, or has answered, what is due.
Waiting(c) ==
  At(c, "wait") \/ At(c, "poll") =>
    /\ \A t \in Types : call[c].todo[t] \in {informers[t], None}
    /\ \A t \in due[c] : call[c].todo[t] # None \/ res[c][t] # "none"
Polling(c) == At(c, "poll") => call[c].type \in Types /\ call[c].todo[call[c].type] # None

\* It has only said of an informer whose store is filled that it is.
AnswersAreTrue ==
  \A c \in Callers, t \in Types : res[c][t] = "synced" => informers[t] \in synced

CallerInv(c) == Asking(c) /\ Starting(c) /\ DueIsStarted(c) /\ Waiting(c) /\ Polling(c)

FactoryInv ==
  /\ FactoryTypeOK
  /\ MutualExclusion
  /\ Registered
  /\ RunOnce
  /\ StoresAreTrue
  /\ AnswersAreTrue
  /\ \A c \in Callers : CallerInv(c)

-----------------------------------------------------------------------------
Apart(o, p) ==
  /\ o.artifacts # Nil => o.artifacts # p.artifacts
  /\ o.state # Nil => o.state # p.state

\* What a user may write to, nobody else has.
CopiesAreApart ==
  \A u \in Users : copy[u] # Nil =>
    /\ \A n \in Names : cache[n] # Nil => Apart(copy[u], cache[n])
    /\ \A v \in Users : held[v] # Nil => Apart(copy[u], held[v])
    /\ \A v \in Users \ {u} : copy[v] # Nil => Apart(copy[u], copy[v])

\* No object is newer than the server.
RevisionsAreOld ==
  /\ \A n \in Names : store[n] # Nil => store[n].name = n /\ store[n].rv <= revision
  /\ \A o \in Live : o.rv <= revision

MemoryInv ==
  /\ MemoryTypeOK
  /\ CopiesAreApart
  /\ RevisionsAreOld
  /\ CacheIsTrue
=============================================================================

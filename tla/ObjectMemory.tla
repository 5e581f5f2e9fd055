---------------------------- MODULE ObjectMemory ----------------------------
(***************************************************************************)
(* ComponentBuilds in the memory of a process.  An object holds a slice    *)
(* and a map, which are references: the store of an informer, what a       *)
(* lister hands out of it, and the copies handlers write to in place could *)
(* share them.  The generated DeepCopy and the typed client are what keeps *)
(* them apart.  All else there is in an object is copied by assignment.    *)
(***************************************************************************)
EXTENDS Naturals

CONSTANTS Names,        \* the names of ComponentBuilds
          Users,        \* the goroutines that use listers and the typed client
          Contents,     \* what a slice or a map may contain
          Empty,        \* the contents of an empty one
          Cells,        \* the addresses slices, and maps, may have
          Nil,          \* the nil pointer, slice and map
          MaxRevision   \* bound on the writes

Objects == [name : Names, rv : 1 .. MaxRevision,
            artifacts : Cells \union {Nil}, state : Cells \union {Nil}]
Values == [name : Names, rv : 1 .. MaxRevision, artifacts : Contents, state : Contents]

ASSUME EmptyAssumption == Empty \in Contents
ASSUME RevisionAssumption == MaxRevision \in Nat
ASSUME NilAssumption == Nil \notin Cells \union Objects \union Values

VARIABLES
  slices,    \* the contents of the slice at each address
  maps,      \* the contents of the map at each address
  store,     \* the objects of the API server
  revision,  \* its last resourceVersion
  cache,     \* the indexer of the informer
  held,      \* what a user has got from a lister
  copy       \* what a user has copied or received, and may write to

memoryVars == <<slices, maps, store, revision, cache, held, copy>>

MemoryTypeOK ==
  /\ slices \in [Cells -> Contents]
  /\ maps \in [Cells -> Contents]
  /\ store \in [Names -> Values \union {Nil}]
  /\ revision \in 0 .. MaxRevision
  /\ cache \in [Names -> Objects \union {Nil}]
  /\ held \in [Users -> Objects \union {Nil}]
  /\ copy \in [Users -> Objects \union {Nil}]

MemoryInit ==
  /\ slices = [a \in Cells |-> Empty]
  /\ maps = [a \in Cells |-> Empty]
  /\ store = [n \in Names |-> Nil]
  /\ revision = 0
  /\ cache = [n \in Names |-> Nil]
  /\ held = [u \in Users |-> Nil]
  /\ copy = [u \in Users |-> Nil]

-----------------------------------------------------------------------------
\* What nobody refers to is free, as the garbage collector has it; which of it
\* an allocation takes makes no difference.
Live == ({cache[n] : n \in Names} \union {held[u] : u \in Users}
                                 \union {copy[u] : u \in Users}) \ {Nil}
FreeSlices == Cells \ {o.artifacts : o \in Live}
FreeMaps == Cells \ {o.state : o \in Live}
NewSlice == CHOOSE a \in FreeSlices : TRUE
NewMap == CHOOSE a \in FreeMaps : TRUE

\* Contents written to a new slice, or map.  What stays free is forgotten.
AllocateSlice(v) ==
  LET free == FreeSlices IN
  /\ free # {}
  /\ slices' = [[a \in Cells |-> IF a \in free THEN Empty ELSE slices[a]]
                 EXCEPT ![NewSlice] = v]
AllocateMap(v) ==
  LET free == FreeMaps IN
  /\ free # {}
  /\ maps' = [[a \in Cells |-> IF a \in free THEN Empty ELSE maps[a]]
               EXCEPT ![NewMap] = v]

\* The contents of an object, given those of the memory.
Contained(field, memory) == IF field = Nil THEN Empty ELSE memory[field]
ValueIn(s, m, o) ==
  IF o = Nil THEN Nil
  ELSE [name |-> o.name, rv |-> o.rv,
        artifacts |-> Contained(o.artifacts, s), state |-> Contained(o.state, m)]
Artifacts(o) == Contained(o.artifacts, slices)
State(o) == Contained(o.state, maps)
ValueOf(o) == ValueIn(slices, maps, o)

\* The object of an answer: json leaves out, and decodes to nil, what is empty.
Decoded(v) ==
  [name |-> v.name, rv |-> v.rv,
   artifacts |-> IF v.artifacts = Empty THEN Nil ELSE NewSlice,
   state |-> IF v.state = Empty THEN Nil ELSE NewMap]

\* Mutants: a field that is only assigned.
DeepCopiedSharingState(o) ==
  [name |-> o.name, rv |-> o.rv,
   artifacts |-> IF o.artifacts = Nil THEN Nil ELSE NewSlice, state |-> o.state]
DeepCopiedSharingArtifacts(o) ==
  [name |-> o.name, rv |-> o.rv, artifacts |-> o.artifacts,
   state |-> IF o.state = Nil THEN Nil ELSE NewMap]

DeepCopied(o) ==
  [name |-> o.name, rv |-> o.rv,
   artifacts |-> IF o.artifacts = Nil THEN Nil ELSE NewSlice,
   state |-> IF o.state = Nil THEN Nil ELSE NewMap]

-----------------------------------------------------------------------------
(* Informer and lister: what a lister returns is what the indexer has, and    *)
(* "must be treated as read-only".                                            *)

Deliver(n) ==
  /\ store[n] # Nil
  /\ cache' = [cache EXCEPT ![n] = Decoded(store[n])]
  /\ AllocateSlice(store[n].artifacts)
  /\ AllocateMap(store[n].state)
  /\ UNCHANGED <<store, revision, held, copy>>

DeliverDeletion(n) ==
  /\ store[n] = Nil
  /\ cache' = [cache EXCEPT ![n] = Nil]
  /\ UNCHANGED <<slices, maps, store, revision, held, copy>>

Lookup(u, n) ==
  /\ cache[n] # Nil
  /\ held' = [held EXCEPT ![u] = cache[n]]
  /\ UNCHANGED <<slices, maps, store, revision, cache, copy>>

DeepCopy(u) ==
  /\ held[u] # Nil
  /\ copy' = [copy EXCEPT ![u] = DeepCopied(held[u])]
  /\ AllocateSlice(Artifacts(held[u]))
  /\ AllocateMap(State(held[u]))
  /\ UNCHANGED <<store, revision, cache, held>>

-----------------------------------------------------------------------------
(* A user writes to the slice or the map of its copy; a nil one must be made. *)

WriteArtifacts(u, v) ==
  /\ copy[u] # Nil
  /\ \/ /\ copy[u].artifacts # Nil
        /\ slices' = [slices EXCEPT ![copy[u].artifacts] = v]
        /\ UNCHANGED copy
     \/ /\ copy[u].artifacts = Nil
        /\ AllocateSlice(v)
        /\ copy' = [copy EXCEPT ![u].artifacts = NewSlice]
  /\ UNCHANGED <<maps, store, revision, cache, held>>

WriteState(u, v) ==
  /\ copy[u] # Nil
  /\ \/ /\ copy[u].state # Nil
        /\ maps' = [maps EXCEPT ![copy[u].state] = v]
        /\ UNCHANGED copy
     \/ /\ copy[u].state = Nil
        /\ AllocateMap(v)
        /\ copy' = [copy EXCEPT ![u].state = NewMap]
  /\ UNCHANGED <<slices, store, revision, cache, held>>

-----------------------------------------------------------------------------
(* The typed client: the server's answer is decoded into a new object.        *)

Receive(u, v) ==
  /\ copy' = [copy EXCEPT ![u] = Decoded(v)]
  /\ AllocateSlice(v.artifacts)
  /\ AllocateMap(v.state)
  /\ UNCHANGED <<cache, held>>

Get(u, n) ==
  /\ store[n] # Nil
  /\ Receive(u, store[n])
  /\ UNCHANGED <<store, revision>>

\* The server stores an object, under a new revision.
Store(u, n, artifacts, state) ==
  LET v == [name |-> n, rv |-> revision + 1, artifacts |-> artifacts, state |-> state] IN
  /\ revision < MaxRevision
  /\ revision' = revision + 1
  /\ store' = [store EXCEPT ![n] = v]
  /\ Receive(u, v)

Create(u, n, v) ==
  /\ store[n] = Nil
  /\ Store(u, n, v, Empty)

Current(o) == store[o.name] # Nil /\ store[o.name].rv = o.rv

\* The status is a subresource: Update leaves it alone, UpdateStatus writes it.
Update(u) ==
  /\ copy[u] # Nil
  /\ Current(copy[u])
  /\ Store(u, copy[u].name, Artifacts(copy[u]), store[copy[u].name].state)

UpdateStatus(u) ==
  /\ copy[u] # Nil
  /\ Current(copy[u])
  /\ Store(u, copy[u].name, store[copy[u].name].artifacts, State(copy[u]))

Patch(u, n, v) ==
  /\ store[n] # Nil
  /\ Store(u, n, v, store[n].state) \/ Store(u, n, store[n].artifacts, v)

Delete(n) ==
  /\ store[n] # Nil
  /\ store' = [store EXCEPT ![n] = Nil]
  /\ UNCHANGED <<slices, maps, revision, cache, held, copy>>

-----------------------------------------------------------------------------
MemoryNext ==
  \/ \E n \in Names : Deliver(n) \/ DeliverDeletion(n) \/ Delete(n)
  \/ \E u \in Users : DeepCopy(u) \/ Update(u) \/ UpdateStatus(u)
  \/ \E u \in Users, n \in Names : Lookup(u, n) \/ Get(u, n)
  \/ \E u \in Users, v \in Contents : WriteArtifacts(u, v) \/ WriteState(u, v)
  \/ \E u \in Users, n \in Names, v \in Contents : Create(u, n, v) \/ Patch(u, n, v)

MemorySpec == MemoryInit /\ [][MemoryNext]_memoryVars

-----------------------------------------------------------------------------
\* What the indexer has, and what a lister has handed out, is what the server
\* has or has had: an object of the current revision is the current object,
\* whatever handlers have written to their copies of it meanwhile.
IsTrue(o) == o # Nil /\ Current(o) => ValueOf(o) = store[o.name]
CacheIsTrue == (\A n \in Names : IsTrue(cache[n])) /\ (\A u \in Users : IsTrue(held[u]))

\* Every copy is a value of its own: the memory implements ValueCopies.  This
\* is what the model of the reconciler takes for granted of the ComponentBuild
\* a handler writes to while the informer it was read from goes on.
Cached == [n \in Names |-> ValueOf(cache[n])]
Held == [u \in Users |-> ValueOf(held[u])]
Copied == [u \in Users |-> ValueOf(copy[u])]
Abstract == INSTANCE ValueCopies WITH cache <- Cached, held <- Held, copy <- Copied

ValuesKept == Abstract!Spec
=============================================================================

------------------------- MODULE ObjectMemoryProofs -------------------------
(***************************************************************************)
(* Proofs about the copies of an object: that no handler can write to what *)
(* another, or the store of an informer, refers to, and that copies are    *)
(* therefore values, as ValueCopies has them.                              *)
(***************************************************************************)
EXTENDS ClientInvariants, TLAPS

USE EmptyAssumption, RevisionAssumption, NilAssumption

\* What an object is worth is what its cells contain.
LEMMA ValueKept ==
  ASSUME NEW o \in Objects \union {Nil}, NEW s, NEW m, NEW s2, NEW m2,
         o # Nil => (o.artifacts # Nil => s2[o.artifacts] = s[o.artifacts]),
         o # Nil => (o.state # Nil => m2[o.state] = m[o.state])
  PROVE  ValueIn(s2, m2, o) = ValueIn(s, m, o)
BY DEF ValueIn, Contained

LEMMA ValueType ==
  ASSUME NEW o \in Objects, NEW s \in [Cells -> Contents], NEW m \in [Cells -> Contents]
  PROVE  /\ ValueIn(s, m, o) \in Values
         /\ ValueIn(s, m, o) # Nil
         /\ ValueIn(s, m, o).name = o.name
         /\ ValueIn(s, m, o).rv = o.rv
         /\ ValueIn(s, m, o).artifacts = Contained(o.artifacts, s)
         /\ ValueIn(s, m, o).state = Contained(o.state, m)
<1>1. o # Nil
  OBVIOUS
<1>2. ValueIn(s, m, o) = [name |-> o.name, rv |-> o.rv, artifacts |-> Contained(o.artifacts, s),
                          state |-> Contained(o.state, m)]
  BY <1>1 DEF ValueIn
<1>3. Contained(o.artifacts, s) \in Contents /\ Contained(o.state, m) \in Contents
  BY DEF Contained, Objects
<1>4. ValueIn(s, m, o) \in Values
  BY <1>2, <1>3 DEF Objects, Values
<1> QED BY <1>2, <1>4

LEMMA ApartIsSymmetric ==
  ASSUME NEW o, NEW p, Apart(o, p)
  PROVE  Apart(p, o)
BY DEF Apart

LEMMA LiveTypes ==
  ASSUME MemoryTypeOK
  PROVE  /\ Live \subseteq Objects
         /\ \A n \in Names : cache[n] # Nil => cache[n] \in Live
         /\ \A u \in Users : held[u] # Nil => held[u] \in Live
         /\ \A u \in Users : copy[u] # Nil => copy[u] \in Live
BY DEF MemoryTypeOK, Live

-----------------------------------------------------------------------------
\* A new slice is nobody's, and what is somebody's is kept.
LEMMA NewSliceIsFresh ==
  ASSUME MemoryTypeOK, NEW v \in Contents, AllocateSlice(v)
  PROVE  /\ slices' \in [Cells -> Contents]
         /\ NewSlice \in Cells
         /\ NewSlice # Nil
         /\ slices'[NewSlice] = v
         /\ \A o \in Live : o.artifacts # NewSlice
         /\ \A o \in Live : o.artifacts # Nil => slices'[o.artifacts] = slices[o.artifacts]
<1> DEFINE a == NewSlice
           kept == [b \in Cells |-> IF b \in FreeSlices THEN Empty ELSE slices[b]]
<1>1. a \in FreeSlices
  BY DEF AllocateSlice, NewSlice
<1>2. slices' = [kept EXCEPT ![a] = v]
  BY DEF AllocateSlice
<1>3. a \in Cells /\ a # Nil /\ \A o \in Live : o.artifacts # a
  BY <1>1 DEF FreeSlices
<1>4. kept \in [Cells -> Contents]
  BY DEF MemoryTypeOK
<1>5. ASSUME NEW o \in Live, o.artifacts # Nil PROVE kept[o.artifacts] = slices[o.artifacts]
  <2>1. o.artifacts \in Cells /\ o.artifacts \notin FreeSlices
    BY <1>5, LiveTypes DEF Objects, FreeSlices
  <2> QED BY <2>1
<1> HIDE DEF a, kept
<1>6. slices' \in [Cells -> Contents] /\ slices'[a] = v
  BY <1>2, <1>3, <1>4
<1>7. ASSUME NEW o \in Live, o.artifacts # Nil PROVE slices'[o.artifacts] = slices[o.artifacts]
  <2>1. o.artifacts \in Cells
    BY <1>7, LiveTypes DEF Objects
  <2> QED BY <1>2, <1>3, <1>4, <1>5, <1>7, <2>1
<1> QED BY <1>3, <1>6, <1>7 DEF a

LEMMA NewMapIsFresh ==
  ASSUME MemoryTypeOK, NEW v \in Contents, AllocateMap(v)
  PROVE  /\ maps' \in [Cells -> Contents]
         /\ NewMap \in Cells
         /\ NewMap # Nil
         /\ maps'[NewMap] = v
         /\ \A o \in Live : o.state # NewMap
         /\ \A o \in Live : o.state # Nil => maps'[o.state] = maps[o.state]
<1> DEFINE a == NewMap
           kept == [b \in Cells |-> IF b \in FreeMaps THEN Empty ELSE maps[b]]
<1>1. a \in FreeMaps
  BY DEF AllocateMap, NewMap
<1>2. maps' = [kept EXCEPT ![a] = v]
  BY DEF AllocateMap
<1>3. a \in Cells /\ a # Nil /\ \A o \in Live : o.state # a
  BY <1>1 DEF FreeMaps
<1>4. kept \in [Cells -> Contents]
  BY DEF MemoryTypeOK
<1>5. ASSUME NEW o \in Live, o.state # Nil PROVE kept[o.state] = maps[o.state]
  <2>1. o.state \in Cells /\ o.state \notin FreeMaps
    BY <1>5, LiveTypes DEF Objects, FreeMaps
  <2> QED BY <2>1
<1> HIDE DEF a, kept
<1>6. maps' \in [Cells -> Contents] /\ maps'[a] = v
  BY <1>2, <1>3, <1>4
<1>7. ASSUME NEW o \in Live, o.state # Nil PROVE maps'[o.state] = maps[o.state]
  <2>1. o.state \in Cells
    BY <1>7, LiveTypes DEF Objects
  <2> QED BY <1>2, <1>3, <1>4, <1>5, <1>7, <2>1
<1> QED BY <1>3, <1>6, <1>7 DEF a

\* An object that stands is worth what it was before the step.
Stands(o) == ValueIn(slices', maps', o) = ValueOf(o)

\* A new object with both, and what the others are worth meanwhile.
LEMMA AllocationIsFresh ==
  ASSUME MemoryTypeOK, NEW v \in Contents, NEW w \in Contents,
         AllocateSlice(v), AllocateMap(w)
  PROVE  /\ slices' \in [Cells -> Contents]
         /\ maps' \in [Cells -> Contents]
         /\ \A o \in Live : Stands(o)
         /\ Stands(Nil)
<1>1. ASSUME NEW o \in Live PROVE Stands(o)
  BY <1>1, LiveTypes, NewSliceIsFresh, NewMapIsFresh, ValueKept DEF Stands, ValueOf
<1>2. Stands(Nil)
  BY DEF Stands, ValueOf, ValueIn
<1> QED BY <1>1, <1>2, NewSliceIsFresh, NewMapIsFresh

\* Decoding an answer makes an object that has nothing in common with others.
LEMMA DecodedIsApart ==
  ASSUME MemoryTypeOK, NEW v \in Values, AllocateSlice(v.artifacts), AllocateMap(v.state)
  PROVE  /\ Decoded(v) \in Objects
         /\ Decoded(v).name = v.name
         /\ Decoded(v).rv = v.rv
         /\ ValueIn(slices', maps', Decoded(v)) = v
         /\ \A o \in Live : Apart(Decoded(v), o)
<1>1. v.artifacts \in Contents /\ v.state \in Contents
  BY DEF Values
<1>2. Decoded(v) \in Objects /\ Decoded(v).name = v.name /\ Decoded(v).rv = v.rv
  BY <1>1, NewSliceIsFresh, NewMapIsFresh DEF Decoded, Objects, Values
<1>3. ValueIn(slices', maps', Decoded(v)) = v
  <2>1. /\ Contained(Decoded(v).artifacts, slices') = v.artifacts
        /\ Contained(Decoded(v).state, maps') = v.state
    BY <1>1, NewSliceIsFresh, NewMapIsFresh DEF Decoded, Contained
  <2>2. ValueIn(slices', maps', Decoded(v)) = [name |-> v.name, rv |-> v.rv,
                                             artifacts |-> v.artifacts, state |-> v.state]
    BY <1>2, <2>1 DEF ValueIn
  <2> QED BY <2>2 DEF Values
<1>4. ASSUME NEW o \in Live PROVE Apart(Decoded(v), o)
  BY <1>1, <1>4, NewSliceIsFresh, NewMapIsFresh DEF Apart, Decoded
<1> QED BY <1>2, <1>3, <1>4

\* So does the generated DeepCopy.
LEMMA DeepCopiedIsApart ==
  ASSUME MemoryTypeOK, NEW q \in Live, AllocateSlice(Artifacts(q)), AllocateMap(State(q))
  PROVE  /\ DeepCopied(q) \in Objects
         /\ DeepCopied(q).rv = q.rv
         /\ ValueIn(slices', maps', DeepCopied(q)) = ValueOf(q)
         /\ Artifacts(q) \in Contents
         /\ State(q) \in Contents
         /\ \A o \in Live : Apart(DeepCopied(q), o)
<1>1. q \in Objects /\ q # Nil
  BY LiveTypes
<1>2. Artifacts(q) \in Contents /\ State(q) \in Contents
  BY <1>1 DEF Artifacts, State, Contained, Objects, MemoryTypeOK
<1>3. DeepCopied(q) \in Objects /\ DeepCopied(q).name = q.name /\ DeepCopied(q).rv = q.rv
  BY <1>1, <1>2, NewSliceIsFresh, NewMapIsFresh DEF DeepCopied, Objects
<1>4. /\ Contained(DeepCopied(q).artifacts, slices') = Contained(q.artifacts, slices)
      /\ Contained(DeepCopied(q).state, maps') = Contained(q.state, maps)
  BY <1>2, NewSliceIsFresh, NewMapIsFresh DEF DeepCopied, Contained, Artifacts, State
<1>5. ValueIn(slices', maps', DeepCopied(q)) = ValueOf(q)
  BY <1>1, <1>3, <1>4 DEF ValueIn, ValueOf
<1>6. ASSUME NEW o \in Live PROVE Apart(DeepCopied(q), o)
  BY <1>2, <1>6, NewSliceIsFresh, NewMapIsFresh DEF Apart, DeepCopied
<1> QED BY <1>2, <1>3, <1>5, <1>6

-----------------------------------------------------------------------------
(* What the steps have in common *)

\* All a user, a lister or an indexer has stands when every live object does.
LEMMA AllStand ==
  ASSUME MemoryTypeOK, \A o \in Live : Stands(o), Stands(Nil)
  PROVE  /\ \A n \in Names : Stands(cache[n])
         /\ \A u \in Users : Stands(held[u])
         /\ \A u \in Users : Stands(copy[u])
<1>1. ASSUME NEW n \in Names PROVE Stands(cache[n])
  <2>1. cache[n] = Nil \/ cache[n] \in Live
    BY LiveTypes
  <2> QED BY <2>1
<1>2. ASSUME NEW u \in Users PROVE Stands(held[u])
  <2>1. held[u] = Nil \/ held[u] \in Live
    BY LiveTypes
  <2> QED BY <2>1
<1>3. ASSUME NEW u \in Users PROVE Stands(copy[u])
  <2>1. copy[u] = Nil \/ copy[u] \in Live
    BY LiveTypes
  <2> QED BY <2>1
<1> QED BY <1>1, <1>2, <1>3

\* A user has another copy, which nobody else refers to.
LEMMA CopyReplaced ==
  ASSUME MemoryInv, NEW u \in Users, NEW p \in Objects,
         copy' = [copy EXCEPT ![u] = p], UNCHANGED <<cache, held>>,
         \A n \in Names : Stands(cache[n]) /\ (cache[n] # Nil => Apart(p, cache[n])),
         \A w \in Users : Stands(held[w]) /\ (held[w] # Nil => Apart(p, held[w])),
         \A w \in Users \ {u} : Stands(copy[w]) /\ (copy[w] # Nil => Apart(p, copy[w]))
  PROVE  /\ copy' \in [Users -> Objects \union {Nil}]
         /\ CopiesAreApart'
         /\ Live' \subseteq Live \union {p}
         /\ Cached' = Cached
         /\ Held' = Held
         /\ Copied' = [Copied EXCEPT ![u] = ValueIn(slices', maps', p)]
<1>0. MemoryTypeOK
  BY DEF MemoryInv
<1>1. /\ copy' \in [Users -> Objects \union {Nil}]
      /\ copy'[u] = p
      /\ \A w \in Users \ {u} : copy'[w] = copy[w]
  BY <1>0 DEF MemoryTypeOK
<1>2. CopiesAreApart'
  <2> SUFFICES ASSUME NEW w \in Users, copy'[w] # Nil
               PROVE  /\ \A n \in Names : cache[n] # Nil => Apart(copy'[w], cache[n])
                      /\ \A x \in Users : held[x] # Nil => Apart(copy'[w], held[x])
                      /\ \A x \in Users \ {w} : copy'[x] # Nil => Apart(copy'[w], copy'[x])
    BY DEF CopiesAreApart, Apart
  <2>1. CASE w = u
    BY <1>1, <2>1
  <2>2. CASE w # u
    <3>1. copy'[w] = copy[w]
      BY <1>1, <2>2
    <3>2. Apart(copy[w], p)
      BY <2>2, <3>1, ApartIsSymmetric
    <3> QED BY <1>1, <2>2, <3>1, <3>2 DEF MemoryInv, CopiesAreApart
  <2> QED BY <2>1, <2>2
<1>3. Live' \subseteq Live \union {p}
  BY <1>1 DEF Live
<1>4. Cached' = Cached /\ Held' = Held
  BY DEF Cached, Held, Stands, ValueOf
<1>5. Copied' = [Copied EXCEPT ![u] = ValueIn(slices', maps', p)]
  BY <1>1 DEF Copied, Stands, ValueOf
<1> QED BY <1>1, <1>2, <1>3, <1>4, <1>5

\* The indexer is not made untrue by what happens to other objects, nor by a
\* new revision.
LEMMA CacheStaysTrue ==
  ASSUME MemoryInv, UNCHANGED <<cache, held>>,
         \A n \in Names : Stands(cache[n]),
         \A u \in Users : Stands(held[u]),
         \A n \in Names : store'[n] = store[n] \/ store'[n] = Nil \/ store'[n].rv = revision + 1
  PROVE  CacheIsTrue'
<1>1. ASSUME NEW o \in Live, Stands(o), Current(o) => ValueOf(o) = store[o.name],
             store'[o.name] # Nil, store'[o.name].rv = o.rv
      PROVE  ValueIn(slices', maps', o) = store'[o.name]
  <2>1. o \in Objects /\ o.rv <= revision
    BY LiveTypes DEF MemoryInv, RevisionsAreOld
  <2>2. o.rv # revision + 1
    BY <2>1 DEF MemoryInv, MemoryTypeOK, Objects
  <2>3. store'[o.name] = store[o.name]
    BY <1>1, <2>1, <2>2 DEF Objects
  <2> QED BY <1>1, <2>3 DEF Stands, Current
<1>2. ASSUME NEW n \in Names, cache[n] # Nil,
             store'[cache[n].name] # Nil, store'[cache[n].name].rv = cache[n].rv
      PROVE  ValueIn(slices', maps', cache[n]) = store'[cache[n].name]
  <2>1. cache[n] \in Live
    BY <1>2, LiveTypes DEF MemoryInv
  <2>2. Current(cache[n]) => ValueOf(cache[n]) = store[cache[n].name]
    BY <1>2 DEF MemoryInv, CacheIsTrue, IsTrue
  <2> QED BY <1>1, <1>2, <2>1, <2>2
<1>3. ASSUME NEW u \in Users, held[u] # Nil,
             store'[held[u].name] # Nil, store'[held[u].name].rv = held[u].rv
      PROVE  ValueIn(slices', maps', held[u]) = store'[held[u].name]
  <2>1. held[u] \in Live
    BY <1>3, LiveTypes DEF MemoryInv
  <2>2. Current(held[u]) => ValueOf(held[u]) = store[held[u].name]
    BY <1>3 DEF MemoryInv, CacheIsTrue, IsTrue
  <2> QED BY <1>1, <1>3, <2>1, <2>2
<1> QED BY <1>2, <1>3 DEF CacheIsTrue, IsTrue, Current, ValueOf

-----------------------------------------------------------------------------
(* The steps: each keeps the invariant, and does what ValueCopies says *)

\* A user receives an answer of the server.
LEMMA ReceiveKeeps ==
  ASSUME MemoryInv, NEW u \in Users, NEW v \in Values, Receive(u, v)
  PROVE  /\ slices' \in [Cells -> Contents]
         /\ maps' \in [Cells -> Contents]
         /\ copy' \in [Users -> Objects \union {Nil}]
         /\ CopiesAreApart'
         /\ \A o \in Live' : o \in Live \/ o.rv = v.rv
         /\ \A n \in Names : Stands(cache[n])
         /\ \A w \in Users : Stands(held[w])
         /\ Cached' = Cached
         /\ Held' = Held
         /\ Copied' = [Copied EXCEPT ![u] = v]
<1> DEFINE p == Decoded(v)
<1>0. MemoryTypeOK /\ v.artifacts \in Contents /\ v.state \in Contents
  BY DEF MemoryInv, Values
<1>1. /\ copy' = [copy EXCEPT ![u] = p]
      /\ AllocateSlice(v.artifacts)
      /\ AllocateMap(v.state)
      /\ UNCHANGED <<cache, held>>
  BY DEF Receive
<1>2. /\ slices' \in [Cells -> Contents]
      /\ maps' \in [Cells -> Contents]
      /\ \A n \in Names : Stands(cache[n])
      /\ \A w \in Users : Stands(held[w])
      /\ \A w \in Users : Stands(copy[w])
  BY <1>0, <1>1, AllocationIsFresh, AllStand
<1>3. /\ p \in Objects
      /\ p.rv = v.rv
      /\ ValueIn(slices', maps', p) = v
      /\ \A o \in Live : Apart(p, o)
  BY <1>0, <1>1, DecodedIsApart
<1> HIDE DEF p
<1>4. /\ \A n \in Names : cache[n] # Nil => Apart(p, cache[n])
      /\ \A w \in Users : held[w] # Nil => Apart(p, held[w])
      /\ \A w \in Users : copy[w] # Nil => Apart(p, copy[w])
  BY <1>0, <1>3, LiveTypes
<1>5. /\ copy' \in [Users -> Objects \union {Nil}]
      /\ CopiesAreApart'
      /\ Live' \subseteq Live \union {p}
      /\ Cached' = Cached
      /\ Held' = Held
      /\ Copied' = [Copied EXCEPT ![u] = v]
  BY <1>1, <1>2, <1>3, <1>4, CopyReplaced
<1> QED BY <1>2, <1>3, <1>5

\* The server stores an object and answers with it.
LEMMA StoreKeeps ==
  ASSUME MemoryInv, NEW u \in Users, NEW n \in Names, NEW artifacts \in Contents,
         NEW state \in Contents, Store(u, n, artifacts, state)
  PROVE  MemoryInv' /\ Abstract!Store(u, n)
<1> DEFINE v == [name |-> n, rv |-> revision + 1, artifacts |-> artifacts, state |-> state]
<1>0. MemoryTypeOK
  BY DEF MemoryInv
<1>1. /\ revision < MaxRevision
      /\ revision' = revision + 1
      /\ store' = [store EXCEPT ![n] = v]
      /\ Receive(u, v)
      /\ UNCHANGED <<cache, held>>
  BY DEF Store, Receive
<1>2. v \in Values /\ v.name = n /\ v.rv = revision + 1 /\ v # Nil
  <2>1. revision + 1 \in 1 .. MaxRevision
    BY <1>0, <1>1 DEF MemoryTypeOK
  <2> QED BY <2>1 DEF Values
<1> HIDE DEF v
<1>3. /\ slices' \in [Cells -> Contents]
      /\ maps' \in [Cells -> Contents]
      /\ copy' \in [Users -> Objects \union {Nil}]
      /\ CopiesAreApart'
      /\ \A o \in Live' : o \in Live \/ o.rv = v.rv
      /\ \A m \in Names : Stands(cache[m])
      /\ \A w \in Users : Stands(held[w])
      /\ Cached' = Cached
      /\ Held' = Held
      /\ Copied' = [Copied EXCEPT ![u] = v]
  BY <1>1, <1>2, ReceiveKeeps
<1>4. MemoryTypeOK'
  BY <1>0, <1>1, <1>2, <1>3 DEF MemoryTypeOK
<1>5. RevisionsAreOld'
  <2>1. \A m \in Names : store'[m] # Nil => store'[m].name = m /\ store'[m].rv <= revision'
    <3> SUFFICES ASSUME NEW m \in Names, store'[m] # Nil
                 PROVE  store'[m].name = m /\ store'[m].rv <= revision'
      OBVIOUS
    <3>1. CASE m = n
      BY <1>0, <1>1, <1>2, <3>1 DEF MemoryTypeOK
    <3>2. CASE m # n
      <4>1. store'[m] = store[m] /\ store[m] \in Values
        BY <1>0, <1>1, <3>2 DEF MemoryTypeOK
      <4>2. store[m].name = m /\ store[m].rv <= revision /\ store[m].rv \in Nat
        BY <4>1 DEF MemoryInv, RevisionsAreOld, Values
      <4> QED BY <1>0, <1>1, <4>1, <4>2 DEF MemoryTypeOK
    <3> QED BY <3>1, <3>2
  <2>2. ASSUME NEW o \in Live' PROVE o.rv <= revision'
    <3>1. CASE o \in Live
      <4>1. o.rv <= revision /\ o.rv \in Nat
        BY <1>0, <3>1, LiveTypes DEF MemoryInv, RevisionsAreOld, Objects
      <4> QED BY <1>0, <1>1, <4>1 DEF MemoryTypeOK
    <3>2. CASE o.rv = v.rv
      BY <1>0, <1>1, <1>2, <3>2 DEF MemoryTypeOK
    <3> QED BY <1>3, <3>1, <3>2
  <2> QED BY <2>1, <2>2 DEF RevisionsAreOld
<1>6. CacheIsTrue'
  <2>1. \A m \in Names : store'[m] = store[m] \/ store'[m] = Nil \/ store'[m].rv = revision + 1
    BY <1>0, <1>1, <1>2 DEF MemoryTypeOK
  <2> QED BY <1>1, <1>3, <2>1, CacheStaysTrue
<1>7. Abstract!Store(u, n)
  BY <1>1, <1>2, <1>3 DEF Abstract!Store
<1> QED BY <1>3, <1>4, <1>5, <1>6, <1>7 DEF MemoryInv

LEMMA GetKeeps ==
  ASSUME MemoryInv, NEW u \in Users, NEW n \in Names, Get(u, n)
  PROVE  MemoryInv' /\ Abstract!Fetch(u, n)
<1>0. MemoryTypeOK
  BY DEF MemoryInv
<1>1. Receive(u, store[n]) /\ UNCHANGED <<store, revision, cache, held>>
  BY DEF Get, Receive
<1>2. store[n] \in Values /\ store[n].rv <= revision
  BY <1>0 DEF Get, MemoryInv, MemoryTypeOK, RevisionsAreOld
<1>3. /\ slices' \in [Cells -> Contents]
      /\ maps' \in [Cells -> Contents]
      /\ copy' \in [Users -> Objects \union {Nil}]
      /\ CopiesAreApart'
      /\ \A o \in Live' : o \in Live \/ o.rv = store[n].rv
      /\ \A m \in Names : Stands(cache[m])
      /\ \A w \in Users : Stands(held[w])
      /\ Cached' = Cached
      /\ Held' = Held
      /\ Copied' = [Copied EXCEPT ![u] = store[n]]
  BY <1>1, <1>2, ReceiveKeeps
<1>4. MemoryTypeOK'
  BY <1>0, <1>1, <1>3 DEF MemoryTypeOK
<1>5. RevisionsAreOld'
  BY <1>1, <1>2, <1>3 DEF MemoryInv, RevisionsAreOld
<1>6. CacheIsTrue'
  BY <1>1, <1>3, CacheStaysTrue
<1>7. Abstract!Fetch(u, n)
  BY <1>1, <1>3 DEF Abstract!Fetch
<1> QED BY <1>3, <1>4, <1>5, <1>6, <1>7 DEF MemoryInv

\* The informer takes a new object in, which no copy has anything to do with.
LEMMA DeliverKeeps ==
  ASSUME MemoryInv, NEW n \in Names, Deliver(n)
  PROVE  MemoryInv' /\ Abstract!Deliver(n)
<1> DEFINE p == Decoded(store[n])
<1>0. MemoryTypeOK
  BY DEF MemoryInv
<1>1. /\ cache' = [cache EXCEPT ![n] = p]
      /\ AllocateSlice(store[n].artifacts)
      /\ AllocateMap(store[n].state)
      /\ UNCHANGED <<store, revision, held, copy>>
  BY DEF Deliver
<1>2. /\ store[n] \in Values /\ store[n].name = n /\ store[n].rv <= revision
      /\ store[n].artifacts \in Contents /\ store[n].state \in Contents
  BY <1>0 DEF Deliver, MemoryInv, MemoryTypeOK, RevisionsAreOld, Values
<1>3. /\ slices' \in [Cells -> Contents]
      /\ maps' \in [Cells -> Contents]
      /\ \A m \in Names : Stands(cache[m])
      /\ \A w \in Users : Stands(held[w])
      /\ \A w \in Users : Stands(copy[w])
  BY <1>0, <1>1, <1>2, AllocationIsFresh, AllStand
<1>4. /\ p \in Objects
      /\ p.name = n
      /\ p.rv = store[n].rv
      /\ ValueIn(slices', maps', p) = store[n]
      /\ \A o \in Live : Apart(p, o)
  BY <1>0, <1>1, <1>2, DecodedIsApart
<1> HIDE DEF p
<1>5. cache'[n] = p /\ \A m \in Names \ {n} : cache'[m] = cache[m]
  BY <1>0, <1>1 DEF MemoryTypeOK
<1>6. MemoryTypeOK'
  BY <1>0, <1>1, <1>3, <1>4 DEF MemoryTypeOK
<1>7. CopiesAreApart'
  <2> SUFFICES ASSUME NEW u \in Users, copy[u] # Nil, NEW m \in Names, cache'[m] # Nil
               PROVE  Apart(copy[u], cache'[m])
    BY <1>1 DEF MemoryInv, CopiesAreApart, Apart
  <2>1. CASE m = n
    <3>1. Apart(p, copy[u])
      BY <1>0, <1>4, LiveTypes
    <3> QED BY <1>5, <2>1, <3>1, ApartIsSymmetric
  <2>2. CASE m # n
    BY <1>5, <2>2 DEF MemoryInv, CopiesAreApart
  <2> QED BY <2>1, <2>2
<1>8. RevisionsAreOld'
  <2>1. Live' \subseteq Live \union {p}
    BY <1>1, <1>5 DEF Live
  <2> QED BY <1>1, <1>2, <1>4, <2>1 DEF MemoryInv, RevisionsAreOld
<1>9. CacheIsTrue'
  <2>1. ASSUME NEW m \in Names PROVE IsTrue(cache[m])'
    <3>1. CASE m = n
      BY <1>1, <1>2, <1>4, <1>5, <3>1 DEF IsTrue, ValueOf
    <3>2. CASE m # n
      <4>1. IsTrue(cache[m]) /\ Stands(cache[m]) /\ cache'[m] = cache[m]
        BY <1>3, <1>5, <3>2 DEF MemoryInv, CacheIsTrue
      <4> QED BY <1>1, <4>1 DEF IsTrue, Stands, Current, ValueOf
    <3> QED BY <3>1, <3>2
  <2>2. ASSUME NEW w \in Users PROVE IsTrue(held[w])'
    <3>1. IsTrue(held[w]) /\ Stands(held[w]) /\ held'[w] = held[w]
      BY <1>1, <1>3 DEF MemoryInv, CacheIsTrue
    <3> QED BY <1>1, <3>1 DEF IsTrue, Stands, Current, ValueOf
  <2> QED BY <2>1, <2>2 DEF CacheIsTrue
<1>10. Abstract!Deliver(n)
  <2>1. Cached' = [Cached EXCEPT ![n] = store[n]]
    BY <1>3, <1>4, <1>5 DEF Cached, Stands, ValueOf
  <2>2. Held' = Held /\ Copied' = Copied
    BY <1>1, <1>3 DEF Held, Copied, Stands, ValueOf
  <2> QED BY <1>1, <2>1, <2>2 DEF Abstract!Deliver
<1> QED BY <1>6, <1>7, <1>8, <1>9, <1>10 DEF MemoryInv

LEMMA DeliverDeletionKeeps ==
  ASSUME MemoryInv, NEW n \in Names, DeliverDeletion(n)
  PROVE  MemoryInv' /\ Abstract!Deliver(n)
<1>0. MemoryTypeOK
  BY DEF MemoryInv
<1>1. /\ store[n] = Nil
      /\ cache' = [cache EXCEPT ![n] = Nil]
      /\ UNCHANGED <<slices, maps, store, revision, held, copy>>
  BY DEF DeliverDeletion
<1>2. cache'[n] = Nil /\ \A m \in Names \ {n} : cache'[m] = cache[m]
  BY <1>0, <1>1 DEF MemoryTypeOK
<1>3. MemoryTypeOK'
  BY <1>0, <1>1 DEF MemoryTypeOK
<1>4. CopiesAreApart'
  BY <1>1, <1>2 DEF MemoryInv, CopiesAreApart
<1>5. RevisionsAreOld'
  <2>1. Live' \subseteq Live
    BY <1>1, <1>2 DEF Live
  <2> QED BY <1>1, <2>1 DEF MemoryInv, RevisionsAreOld
<1>6. CacheIsTrue'
  <2>1. ASSUME NEW m \in Names PROVE IsTrue(cache[m])'
    <3>1. cache'[m] = Nil \/ (IsTrue(cache[m]) /\ cache'[m] = cache[m])
      BY <1>2 DEF MemoryInv, CacheIsTrue
    <3> QED BY <1>1, <3>1 DEF IsTrue, Current, ValueOf
  <2>2. ASSUME NEW w \in Users PROVE IsTrue(held[w])'
    BY <1>1 DEF MemoryInv, CacheIsTrue, IsTrue, Current, ValueOf
  <2> QED BY <2>1, <2>2 DEF CacheIsTrue
<1>7. Abstract!Deliver(n)
  <2>1. Cached' = [Cached EXCEPT ![n] = store[n]]
    BY <1>1, <1>2 DEF Cached, ValueOf, ValueIn
  <2>2. Held' = Held /\ Copied' = Copied
    BY <1>1 DEF Held, Copied, ValueOf
  <2> QED BY <1>1, <2>1, <2>2 DEF Abstract!Deliver
<1> QED BY <1>3, <1>4, <1>5, <1>6, <1>7 DEF MemoryInv

\* A lister hands out what the indexer has, and no copy of it.
LEMMA LookupKeeps ==
  ASSUME MemoryInv, NEW u \in Users, NEW n \in Names, Lookup(u, n)
  PROVE  MemoryInv' /\ Abstract!Lookup(u, n)
<1>0. MemoryTypeOK
  BY DEF MemoryInv
<1>1. /\ cache[n] # Nil
      /\ held' = [held EXCEPT ![u] = cache[n]]
      /\ UNCHANGED <<slices, maps, store, revision, cache, copy>>
  BY DEF Lookup
<1>2. held'[u] = cache[n] /\ \A w \in Users \ {u} : held'[w] = held[w]
  BY <1>0, <1>1 DEF MemoryTypeOK
<1>3. MemoryTypeOK'
  BY <1>0, <1>1 DEF MemoryTypeOK
<1>4. CopiesAreApart'
  BY <1>1, <1>2 DEF MemoryInv, CopiesAreApart
<1>5. RevisionsAreOld'
  <2>1. Live' \subseteq Live
    BY <1>1, <1>2 DEF Live
  <2> QED BY <1>1, <2>1 DEF MemoryInv, RevisionsAreOld
<1>6. CacheIsTrue'
  <2>1. ASSUME NEW m \in Names PROVE IsTrue(cache[m])'
    BY <1>1 DEF MemoryInv, CacheIsTrue, IsTrue, Current, ValueOf
  <2>2. ASSUME NEW w \in Users PROVE IsTrue(held[w])'
    <3>1. IsTrue(held'[w])
      BY <1>2 DEF MemoryInv, CacheIsTrue
    <3> QED BY <1>1, <3>1 DEF IsTrue, Current, ValueOf
  <2> QED BY <2>1, <2>2 DEF CacheIsTrue
<1>7. Abstract!Lookup(u, n)
  <2>1. Held' = [Held EXCEPT ![u] = Cached[n]]
    <3>1. Cached[n] = ValueIn(slices, maps, cache[n])
      BY DEF Cached, ValueOf
    <3>2. ASSUME NEW w \in Users
          PROVE  ValueIn(slices, maps, held'[w]) =
                   IF w = u THEN Cached[n] ELSE ValueIn(slices, maps, held[w])
      BY <1>2, <3>1
    <3>3. Held' = [w \in Users |-> ValueIn(slices, maps, held'[w])]
      BY <1>1 DEF Held, ValueOf
    <3> QED BY <3>2, <3>3 DEF Held, ValueOf
  <2>2. Cached' = Cached /\ Copied' = Copied
    BY <1>1 DEF Cached, Copied, ValueOf
  <2> QED BY <1>1, <2>1, <2>2 DEF Abstract!Lookup
<1> QED BY <1>3, <1>4, <1>5, <1>6, <1>7 DEF MemoryInv

LEMMA DeleteKeeps ==
  ASSUME MemoryInv, NEW n \in Names, Delete(n)
  PROVE  MemoryInv' /\ Abstract!Delete(n)
<1>0. MemoryTypeOK
  BY DEF MemoryInv
<1>1. /\ store' = [store EXCEPT ![n] = Nil]
      /\ UNCHANGED <<slices, maps, revision, cache, held, copy>>
  BY DEF Delete
<1>2. MemoryTypeOK' /\ CopiesAreApart'
  BY <1>0, <1>1 DEF MemoryTypeOK, MemoryInv, CopiesAreApart
<1>3. RevisionsAreOld'
  BY <1>0, <1>1 DEF MemoryTypeOK, MemoryInv, RevisionsAreOld, Live
<1>4. CacheIsTrue'
  <2>1. \A m \in Names : store'[m] = store[m] \/ store'[m] = Nil
    BY <1>0, <1>1 DEF MemoryTypeOK
  <2>2. (\A m \in Names : Stands(cache[m])) /\ (\A w \in Users : Stands(held[w]))
    BY <1>1 DEF Stands, ValueOf
  <2> QED BY <1>1, <2>1, <2>2, CacheStaysTrue
<1>5. Abstract!Delete(n)
  <2>1. Cached' = Cached /\ Held' = Held /\ Copied' = Copied
    BY <1>1 DEF Cached, Held, Copied, ValueOf
  <2> QED BY <1>1, <2>1 DEF Abstract!Delete
<1> QED BY <1>2, <1>3, <1>4, <1>5 DEF MemoryInv

\* A user has another copy, or writes to its own, and the server knows nothing
\* of it.
LEMMA OwnCopyKeeps ==
  ASSUME MemoryInv, NEW u \in Users, NEW p \in Objects, p.rv <= revision,
         slices' \in [Cells -> Contents], maps' \in [Cells -> Contents],
         copy' = [copy EXCEPT ![u] = p], UNCHANGED <<store, revision, cache, held>>,
         \A n \in Names : Stands(cache[n]) /\ (cache[n] # Nil => Apart(p, cache[n])),
         \A w \in Users : Stands(held[w]) /\ (held[w] # Nil => Apart(p, held[w])),
         \A w \in Users \ {u} : Stands(copy[w]) /\ (copy[w] # Nil => Apart(p, copy[w]))
  PROVE  /\ MemoryInv'
         /\ UNCHANGED <<store, Cached, Held>>
         /\ Copied' = [Copied EXCEPT ![u] = ValueIn(slices', maps', p)]
<1>1. /\ copy' \in [Users -> Objects \union {Nil}]
      /\ CopiesAreApart'
      /\ Live' \subseteq Live \union {p}
      /\ Cached' = Cached
      /\ Held' = Held
      /\ Copied' = [Copied EXCEPT ![u] = ValueIn(slices', maps', p)]
  BY CopyReplaced
<1>2. MemoryTypeOK'
  BY <1>1 DEF MemoryInv, MemoryTypeOK
<1>3. RevisionsAreOld'
  BY <1>1 DEF MemoryInv, RevisionsAreOld
<1>4. CacheIsTrue'
  BY CacheStaysTrue
<1> QED BY <1>1, <1>2, <1>3, <1>4 DEF MemoryInv

LEMMA DeepCopyKeeps ==
  ASSUME MemoryInv, NEW u \in Users, DeepCopy(u)
  PROVE  MemoryInv' /\ Abstract!Copy(u)
<1> DEFINE p == DeepCopied(held[u])
<1>0. MemoryTypeOK
  BY DEF MemoryInv
<1>1. /\ held[u] # Nil
      /\ copy' = [copy EXCEPT ![u] = p]
      /\ AllocateSlice(Artifacts(held[u]))
      /\ AllocateMap(State(held[u]))
      /\ UNCHANGED <<store, revision, cache, held>>
  BY DEF DeepCopy
<1>2. held[u] \in Live /\ held[u].rv <= revision
  BY <1>0, <1>1, LiveTypes DEF MemoryInv, RevisionsAreOld
<1>3. /\ p \in Objects
      /\ p.rv = held[u].rv
      /\ ValueIn(slices', maps', p) = ValueOf(held[u])
      /\ Artifacts(held[u]) \in Contents
      /\ State(held[u]) \in Contents
      /\ \A o \in Live : Apart(p, o)
  BY <1>0, <1>1, <1>2, DeepCopiedIsApart
<1> HIDE DEF p
<1>4. /\ slices' \in [Cells -> Contents]
      /\ maps' \in [Cells -> Contents]
      /\ \A n \in Names : Stands(cache[n])
      /\ \A w \in Users : Stands(held[w])
      /\ \A w \in Users : Stands(copy[w])
  BY <1>0, <1>1, <1>3, AllocationIsFresh, AllStand
<1>5. /\ \A n \in Names : cache[n] # Nil => Apart(p, cache[n])
      /\ \A w \in Users : held[w] # Nil => Apart(p, held[w])
      /\ \A w \in Users : copy[w] # Nil => Apart(p, copy[w])
  BY <1>0, <1>3, LiveTypes
<1>6. /\ MemoryInv'
      /\ UNCHANGED <<store, Cached, Held>>
      /\ Copied' = [Copied EXCEPT ![u] = ValueOf(held[u])]
  BY <1>1, <1>2, <1>3, <1>4, <1>5, OwnCopyKeeps
<1>7. Held[u] = ValueOf(held[u])
  BY DEF Held
<1> QED BY <1>6, <1>7 DEF Abstract!Copy

\* A copy is written to in place, and is the only one to see it, or gets a
\* slice of its own.
LEMMA WriteArtifactsKeeps ==
  ASSUME MemoryInv, NEW u \in Users, NEW v \in Contents, WriteArtifacts(u, v)
  PROVE  MemoryInv' /\ Abstract!Write(u, v)
<1> DEFINE q == copy[u]
           others == ({cache[n] : n \in Names} \union {held[w] : w \in Users}
                       \union {copy[w] : w \in Users \ {u}}) \ {Nil}
<1>0. /\ MemoryTypeOK
      /\ q # Nil /\ q \in Objects /\ q.rv <= revision
      /\ UNCHANGED <<maps, store, revision, cache, held>>
  BY LiveTypes DEF MemoryInv, MemoryTypeOK, RevisionsAreOld, WriteArtifacts
<1>1. others \subseteq Live /\ q \in Live /\ \A o \in others : Apart(q, o)
  BY <1>0 DEF Live, MemoryInv, CopiesAreApart
<1>2. PICK p \in Objects :
        /\ p.name = q.name /\ p.rv = q.rv /\ p.state = q.state /\ p.artifacts # Nil
        /\ copy' = [copy EXCEPT ![u] = p]
        /\ slices' \in [Cells -> Contents]
        /\ slices'[p.artifacts] = v
        /\ \A o \in others : o.artifacts # p.artifacts
        /\ \A o \in others : o.artifacts # Nil => slices'[o.artifacts] = slices[o.artifacts]
  <2>1. CASE q.artifacts # Nil /\ slices' = [slices EXCEPT ![q.artifacts] = v] /\ UNCHANGED copy
    <3>1. q.artifacts \in Cells
      BY <1>0, <2>1 DEF Objects
    <3>2. slices' \in [Cells -> Contents] /\ slices'[q.artifacts] = v
      BY <1>0, <2>1, <3>1 DEF MemoryTypeOK
    <3>3. ASSUME NEW o \in others
          PROVE  /\ o.artifacts # q.artifacts
                 /\ o.artifacts # Nil => slices'[o.artifacts] = slices[o.artifacts]
      <4>1. o.artifacts # q.artifacts /\ o \in Objects
        BY <1>0, <1>1, <2>1, LiveTypes DEF Apart
      <4> QED BY <1>0, <2>1, <4>1 DEF MemoryTypeOK, Objects
    <3>4. copy' = [copy EXCEPT ![u] = q]
      BY <1>0, <2>1 DEF MemoryTypeOK
    <3> HIDE DEF q, others
    <3> QED BY <1>0, <2>1, <3>2, <3>3, <3>4
  <2>2. CASE q.artifacts = Nil /\ AllocateSlice(v) /\ copy' = [copy EXCEPT ![u].artifacts = NewSlice]
    <3> DEFINE p == [q EXCEPT !.artifacts = NewSlice]
    <3>1. /\ slices' \in [Cells -> Contents]
          /\ NewSlice \in Cells
          /\ NewSlice # Nil
          /\ slices'[NewSlice] = v
          /\ \A o \in Live : o.artifacts # NewSlice
          /\ \A o \in Live : o.artifacts # Nil => slices'[o.artifacts] = slices[o.artifacts]
      BY <1>0, <2>2, NewSliceIsFresh
    <3>2. copy' = [copy EXCEPT ![u] = p]
      BY <2>2
    <3>3. /\ p \in Objects /\ p.name = q.name /\ p.rv = q.rv /\ p.state = q.state
          /\ p.artifacts = NewSlice
      BY <1>0, <3>1 DEF Objects
    <3> HIDE DEF p, q, others
    <3> QED BY <1>1, <3>1, <3>2, <3>3
  <2> QED BY <2>1, <2>2 DEF WriteArtifacts
<1> HIDE DEF others
<1>3. ASSUME NEW o \in others PROVE Stands(o) /\ Apart(p, o)
  <2>1. o \in Objects
    BY <1>0, <1>1, LiveTypes
  <2>2. Stands(o)
    BY <1>0, <1>2, <2>1, ValueKept DEF Stands, ValueOf
  <2>3. Apart(p, o)
    BY <1>1, <1>2 DEF Apart
  <2> QED BY <2>2, <2>3
<1>4. Stands(Nil)
  BY DEF Stands, ValueOf, ValueIn
<1>5. /\ \A n \in Names : Stands(cache[n]) /\ (cache[n] # Nil => Apart(p, cache[n]))
      /\ \A w \in Users : Stands(held[w]) /\ (held[w] # Nil => Apart(p, held[w]))
      /\ \A w \in Users \ {u} : Stands(copy[w]) /\ (copy[w] # Nil => Apart(p, copy[w]))
  <2>1. /\ \A n \in Names : cache[n] = Nil \/ cache[n] \in others
        /\ \A w \in Users : held[w] = Nil \/ held[w] \in others
        /\ \A w \in Users \ {u} : copy[w] = Nil \/ copy[w] \in others
    BY DEF others
  <2> QED BY <1>3, <1>4, <2>1
<1>6. /\ MemoryInv'
      /\ UNCHANGED <<store, Cached, Held>>
      /\ Copied' = [Copied EXCEPT ![u] = ValueIn(slices', maps', p)]
  <2>1. maps' \in [Cells -> Contents] /\ p.rv <= revision
    BY <1>0, <1>2 DEF MemoryTypeOK
  <2> QED BY <1>0, <1>2, <1>5, <2>1, OwnCopyKeeps
<1>7. Copied[u] # Nil /\ ValueIn(slices', maps', p) = [Copied[u] EXCEPT !.artifacts = v]
  <2>1. Copied[u] = ValueIn(slices, maps, q)
    BY DEF Copied, ValueOf
  <2> HIDE DEF q
  <2>2. p # Nil
    OBVIOUS
  <2>3. ValueIn(slices', maps', p) = [name |-> q.name, rv |-> q.rv, artifacts |-> v,
                                      state |-> Contained(q.state, maps)]
    BY <1>0, <1>2, <2>2 DEF ValueIn, Contained
  <2>4. Copied[u] = [name |-> q.name, rv |-> q.rv, artifacts |-> Contained(q.artifacts, slices),
                     state |-> Contained(q.state, maps)]
    BY <1>0, <2>1 DEF ValueIn
  <2>5. Copied[u] # Nil
    BY <1>0, <2>1, ValueType DEF MemoryTypeOK
  <2> QED BY <2>3, <2>4, <2>5
<1>8. Copied' = [Copied EXCEPT ![u] = [@ EXCEPT !.artifacts = v]]
  BY <1>6, <1>7
<1> QED BY <1>6, <1>7, <1>8 DEF Abstract!Write

\* The same of its map.
LEMMA WriteStateKeeps ==
  ASSUME MemoryInv, NEW u \in Users, NEW v \in Contents, WriteState(u, v)
  PROVE  MemoryInv' /\ Abstract!Write(u, v)
<1> DEFINE q == copy[u]
           others == ({cache[n] : n \in Names} \union {held[w] : w \in Users}
                       \union {copy[w] : w \in Users \ {u}}) \ {Nil}
<1>0. /\ MemoryTypeOK
      /\ q # Nil /\ q \in Objects /\ q.rv <= revision
      /\ UNCHANGED <<slices, store, revision, cache, held>>
  BY LiveTypes DEF MemoryInv, MemoryTypeOK, RevisionsAreOld, WriteState
<1>1. others \subseteq Live /\ q \in Live /\ \A o \in others : Apart(q, o)
  BY <1>0 DEF Live, MemoryInv, CopiesAreApart
<1>2. PICK p \in Objects :
        /\ p.name = q.name /\ p.rv = q.rv /\ p.artifacts = q.artifacts /\ p.state # Nil
        /\ copy' = [copy EXCEPT ![u] = p]
        /\ maps' \in [Cells -> Contents]
        /\ maps'[p.state] = v
        /\ \A o \in others : o.state # p.state
        /\ \A o \in others : o.state # Nil => maps'[o.state] = maps[o.state]
  <2>1. CASE q.state # Nil /\ maps' = [maps EXCEPT ![q.state] = v] /\ UNCHANGED copy
    <3>1. q.state \in Cells
      BY <1>0, <2>1 DEF Objects
    <3>2. maps' \in [Cells -> Contents] /\ maps'[q.state] = v
      BY <1>0, <2>1, <3>1 DEF MemoryTypeOK
    <3>3. ASSUME NEW o \in others
          PROVE  /\ o.state # q.state
                 /\ o.state # Nil => maps'[o.state] = maps[o.state]
      <4>1. o.state # q.state /\ o \in Objects
        BY <1>0, <1>1, <2>1, LiveTypes DEF Apart
      <4> QED BY <1>0, <2>1, <4>1 DEF MemoryTypeOK, Objects
    <3>4. copy' = [copy EXCEPT ![u] = q]
      BY <1>0, <2>1 DEF MemoryTypeOK
    <3> HIDE DEF q, others
    <3> QED BY <1>0, <2>1, <3>2, <3>3, <3>4
  <2>2. CASE q.state = Nil /\ AllocateMap(v) /\ copy' = [copy EXCEPT ![u].state = NewMap]
    <3> DEFINE p == [q EXCEPT !.state = NewMap]
    <3>1. /\ maps' \in [Cells -> Contents]
          /\ NewMap \in Cells
          /\ NewMap # Nil
          /\ maps'[NewMap] = v
          /\ \A o \in Live : o.state # NewMap
          /\ \A o \in Live : o.state # Nil => maps'[o.state] = maps[o.state]
      BY <1>0, <2>2, NewMapIsFresh
    <3>2. copy' = [copy EXCEPT ![u] = p]
      BY <2>2
    <3>3. /\ p \in Objects /\ p.name = q.name /\ p.rv = q.rv /\ p.artifacts = q.artifacts
          /\ p.state = NewMap
      BY <1>0, <3>1 DEF Objects
    <3> HIDE DEF p, q, others
    <3> QED BY <1>1, <3>1, <3>2, <3>3
  <2> QED BY <2>1, <2>2 DEF WriteState
<1> HIDE DEF others
<1>3. ASSUME NEW o \in others PROVE Stands(o) /\ Apart(p, o)
  <2>1. o \in Objects
    BY <1>0, <1>1, LiveTypes
  <2>2. Stands(o)
    BY <1>0, <1>2, <2>1, ValueKept DEF Stands, ValueOf
  <2>3. Apart(p, o)
    BY <1>1, <1>2 DEF Apart
  <2> QED BY <2>2, <2>3
<1>4. Stands(Nil)
  BY DEF Stands, ValueOf, ValueIn
<1>5. /\ \A n \in Names : Stands(cache[n]) /\ (cache[n] # Nil => Apart(p, cache[n]))
      /\ \A w \in Users : Stands(held[w]) /\ (held[w] # Nil => Apart(p, held[w]))
      /\ \A w \in Users \ {u} : Stands(copy[w]) /\ (copy[w] # Nil => Apart(p, copy[w]))
  <2>1. /\ \A n \in Names : cache[n] = Nil \/ cache[n] \in others
        /\ \A w \in Users : held[w] = Nil \/ held[w] \in others
        /\ \A w \in Users \ {u} : copy[w] = Nil \/ copy[w] \in others
    BY DEF others
  <2> QED BY <1>3, <1>4, <2>1
<1>6. /\ MemoryInv'
      /\ UNCHANGED <<store, Cached, Held>>
      /\ Copied' = [Copied EXCEPT ![u] = ValueIn(slices', maps', p)]
  <2>1. slices' \in [Cells -> Contents] /\ p.rv <= revision
    BY <1>0, <1>2 DEF MemoryTypeOK
  <2> QED BY <1>0, <1>2, <1>5, <2>1, OwnCopyKeeps
<1>7. Copied[u] # Nil /\ ValueIn(slices', maps', p) = [Copied[u] EXCEPT !.state = v]
  <2>1. Copied[u] = ValueIn(slices, maps, q)
    BY DEF Copied, ValueOf
  <2> HIDE DEF q
  <2>2. p # Nil
    OBVIOUS
  <2>3. ValueIn(slices', maps', p) = [name |-> q.name, rv |-> q.rv,
                                      artifacts |-> Contained(q.artifacts, slices), state |-> v]
    BY <1>0, <1>2, <2>2 DEF ValueIn, Contained
  <2>4. Copied[u] = [name |-> q.name, rv |-> q.rv, artifacts |-> Contained(q.artifacts, slices),
                     state |-> Contained(q.state, maps)]
    BY <1>0, <2>1 DEF ValueIn
  <2>5. Copied[u] # Nil
    BY <1>0, <2>1, ValueType DEF MemoryTypeOK
  <2> QED BY <2>3, <2>4, <2>5
<1>8. Copied' = [Copied EXCEPT ![u] = [@ EXCEPT !.state = v]]
  BY <1>6, <1>7
<1> QED BY <1>6, <1>7, <1>8 DEF Abstract!Write

-----------------------------------------------------------------------------
(* All together *)

LEMMA MemoryInitInv == MemoryInit => MemoryInv /\ Abstract!Init
<1> SUFFICES ASSUME MemoryInit PROVE MemoryInv /\ Abstract!Init
  OBVIOUS
<1>1. MemoryTypeOK
  BY DEF MemoryInit, MemoryTypeOK
<1>2. Live = {}
  BY DEF MemoryInit, Live
<1>3. CopiesAreApart /\ RevisionsAreOld
  BY <1>2 DEF MemoryInit, CopiesAreApart, RevisionsAreOld
<1>4. CacheIsTrue
  BY DEF MemoryInit, CacheIsTrue, IsTrue
<1>5. Abstract!Init
  BY DEF MemoryInit, Abstract!Init, Cached, Held, Copied, ValueOf, ValueIn
<1> QED BY <1>1, <1>3, <1>4, <1>5 DEF MemoryInv

\* Create, Update, UpdateStatus and Patch store an object of their own making.
LEMMA ClientStores ==
  ASSUME MemoryInv, NEW u \in Users,
         \/ Update(u) \/ UpdateStatus(u)
         \/ \E n \in Names, v \in Contents : Create(u, n, v) \/ Patch(u, n, v)
  PROVE  MemoryInv' /\ \E n \in Names : Abstract!Store(u, n)
<1>0. MemoryTypeOK
  BY DEF MemoryInv
<1>1. PICK n \in Names, artifacts \in Contents, state \in Contents : Store(u, n, artifacts, state)
  <2>1. ASSUME copy[u] # Nil, Current(copy[u])
        PROVE  /\ copy[u].name \in Names
               /\ Artifacts(copy[u]) \in Contents
               /\ State(copy[u]) \in Contents
               /\ store[copy[u].name].artifacts \in Contents
               /\ store[copy[u].name].state \in Contents
    <3>1. copy[u] \in Objects
      BY <1>0, <2>1 DEF MemoryTypeOK
    <3>2. store[copy[u].name] \in Values
      BY <1>0, <2>1, <3>1 DEF MemoryTypeOK, Current, Objects
    <3> QED BY <1>0, <3>1, <3>2 DEF MemoryTypeOK, Objects, Values, Artifacts, State, Contained
  <2>2. CASE Update(u)
    BY <2>1, <2>2 DEF Update
  <2>3. CASE UpdateStatus(u)
    BY <2>1, <2>3 DEF UpdateStatus
  <2>4. ASSUME NEW n \in Names, NEW v \in Contents, Create(u, n, v)
        PROVE  Store(u, n, v, Empty)
    BY <2>4 DEF Create
  <2>5. ASSUME NEW n \in Names, NEW v \in Contents, Patch(u, n, v)
        PROVE  /\ store[n].artifacts \in Contents /\ store[n].state \in Contents
               /\ Store(u, n, v, store[n].state) \/ Store(u, n, store[n].artifacts, v)
    BY <1>0, <2>5 DEF Patch, MemoryTypeOK, Values
  <2> QED BY <2>2, <2>3, <2>4, <2>5
<1> QED BY <1>1, StoreKeeps

LEMMA MemoryStep ==
  ASSUME MemoryInv, MemoryNext
  PROVE  MemoryInv' /\ Abstract!Next
<1>1. ASSUME NEW n \in Names, Deliver(n) \/ DeliverDeletion(n) \/ Delete(n)
      PROVE  MemoryInv' /\ Abstract!Next
  BY <1>1, DeliverKeeps, DeliverDeletionKeeps, DeleteKeeps DEF Abstract!Next
<1>2. ASSUME NEW u \in Users, DeepCopy(u)
      PROVE  MemoryInv' /\ Abstract!Next
  BY <1>2, DeepCopyKeeps DEF Abstract!Next
<1>3. ASSUME NEW u \in Users, NEW n \in Names, Lookup(u, n) \/ Get(u, n)
      PROVE  MemoryInv' /\ Abstract!Next
  BY <1>3, LookupKeeps, GetKeeps DEF Abstract!Next
<1>4. ASSUME NEW u \in Users, NEW v \in Contents, WriteArtifacts(u, v) \/ WriteState(u, v)
      PROVE  MemoryInv' /\ Abstract!Next
  BY <1>4, WriteArtifactsKeeps, WriteStateKeeps DEF Abstract!Next
<1>5. ASSUME NEW u \in Users,
             \/ Update(u) \/ UpdateStatus(u)
             \/ \E n \in Names, v \in Contents : Create(u, n, v) \/ Patch(u, n, v)
      PROVE  MemoryInv' /\ Abstract!Next
  BY <1>5, ClientStores DEF Abstract!Next
<1> QED BY <1>1, <1>2, <1>3, <1>4, <1>5 DEF MemoryNext

LEMMA MemoryStutters ==
  ASSUME MemoryInv, UNCHANGED memoryVars
  PROVE  MemoryInv' /\ UNCHANGED Abstract!copyVars
<1>1. MemoryTypeOK' /\ CopiesAreApart'
  BY DEF MemoryInv, memoryVars, MemoryTypeOK, CopiesAreApart
<1>2. RevisionsAreOld'
  BY DEF MemoryInv, memoryVars, RevisionsAreOld, Live
<1>3. CacheIsTrue'
  BY DEF MemoryInv, memoryVars, CacheIsTrue, IsTrue, Current, ValueOf
<1>4. UNCHANGED Abstract!copyVars
  BY DEF memoryVars, Abstract!copyVars, Cached, Held, Copied, ValueOf
<1> QED BY <1>1, <1>2, <1>3, <1>4 DEF MemoryInv

\* What a user may write to, nobody else refers to, in memories of any size.
THEOREM MemoryInvariance == MemorySpec => []MemoryInv
<1>1. MemoryInit => MemoryInv
  BY MemoryInitInv
<1>2. MemoryInv /\ [MemoryNext]_memoryVars => MemoryInv'
  BY MemoryStep, MemoryStutters
<1> QED BY <1>1, <1>2, PTL DEF MemorySpec

\* The indexer and what listers have handed out stay what the server has sent
\* (zz_generated.deepcopy.go, DeepCopyInto; listers, Get).
THEOREM CachesAreTrue == MemorySpec => []CacheIsTrue
<1>1. MemoryInv => CacheIsTrue
  BY DEF MemoryInv
<1> QED BY <1>1, MemoryInvariance, PTL

\* Objects that are referred to and copied as the generated code does it
\* implement objects that are values.
THEOREM CopiesAreValues == MemorySpec => ValuesKept
<1>1. MemoryInit => Abstract!Init
  BY MemoryInitInv
<1>2. MemoryInv /\ [MemoryNext]_memoryVars => [Abstract!Next]_Abstract!copyVars
  BY MemoryStep, MemoryStutters
<1> QED BY <1>1, <1>2, MemoryInvariance, PTL DEF MemorySpec, ValuesKept, Abstract!Spec
=============================================================================

--------------------------- MODULE InformerFactory ---------------------------
(***************************************************************************)
(* The shared informer factory of the generated client                     *)
(* (pkg/client/informers/externalversions): callers ask it for the         *)
(* informer of a type, start what has been asked for, and wait until the   *)
(* caches are filled.  A mutex guards its two maps; the waiting is done    *)
(* without it.  What an informer does once it runs is client-go's, and     *)
(* modelled from how the factory uses it.                                  *)
(***************************************************************************)

CONSTANTS Types,      \* the types informers are asked for
          Informers,  \* the informers that may be made
          Callers,    \* the goroutines that use the factory
          Channels,   \* their stop channels
          ObjectNames, \* of any type
          Selected,   \* those the namespace and tweakListOptions let through
          None        \* no caller, no type, no informer, no channel

ASSUME NoneAssumption ==
  None \notin Types \union Informers \union Callers \union Channels
ASSUME SelectedAssumption == Selected \subseteq ObjectNames

VARIABLES
  lock,              \* who has f.lock
  informers,         \* f.informers: the informer of a type
  startedInformers,  \* f.startedInformers
  kind,              \* informer -> the type newFunc has made it for
  runs,              \* informer -> the stop channels Run was called with
  synced,            \* informers whose HasSynced is true
  halted,            \* informers that have noticed that they are to stop
  indexer,           \* informer -> the objects in its store
  server,            \* type -> the objects the API server has
  closed,            \* the channels that are closed
  call,              \* caller -> where it is in which call
  given,             \* caller -> type -> the informer it has been given
  res,               \* caller -> type -> what its last wait said
  due,               \* history: what a caller had asked for when it last called Start
  since              \* history: informer -> what has been there since Run

factoryVars == <<lock, informers, startedInformers, kind, runs, synced, halted,
                 indexer, server, closed, call, given, res, due, since>>

CallStates == {"idle", "informerFor", "register", "start", "wait", "poll"}
Calls == [at : CallStates, type : Types \union {None}, informer : Informers \union {None},
          stop : Channels \union {None}, todo : [Types -> Informers \union {None}]]
NoInformers == [t \in Types |-> None]
Idle == [at |-> "idle", type |-> None, informer |-> None, stop |-> None,
         todo |-> NoInformers]
About(t) == [Idle EXCEPT !.type = t]
Until(ch, todo) == [Idle EXCEPT !.stop = ch, !.todo = todo]

\* What the ListFunc and the WatchFunc of an informer of type t ask for.
Listed(t) == server[t] \intersect Selected
WatchedUntweaked(t) == server[t] \* mutant: the options are not applied
Watched(t) == server[t] \intersect Selected

FactoryTypeOK ==
  /\ lock \in Callers \union {None}
  /\ informers \in [Types -> Informers \union {None}]
  /\ startedInformers \subseteq Types
  /\ kind \in [Informers -> Types \union {None}]
  /\ runs \in [Informers -> SUBSET Channels]
  /\ synced \subseteq Informers
  /\ halted \subseteq Informers
  /\ indexer \in [Informers -> SUBSET ObjectNames]
  /\ server \in [Types -> SUBSET ObjectNames]
  /\ closed \subseteq Channels
  /\ call \in [Callers -> Calls]
  /\ given \in [Callers -> [Types -> Informers \union {None}]]
  /\ res \in [Callers -> [Types -> {"none", "synced", "stopped"}]]
  /\ due \in [Callers -> SUBSET Types]
  /\ since \in [Informers -> SUBSET ObjectNames]

FactoryInit ==
  /\ lock = None
  /\ informers = NoInformers
  /\ startedInformers = {}
  /\ kind = [i \in Informers |-> None]
  /\ runs = [i \in Informers |-> {}]
  /\ synced = {}
  /\ halted = {}
  /\ indexer = [i \in Informers |-> {}]
  /\ server = [t \in Types |-> {}]
  /\ closed = {}
  /\ call = [c \in Callers |-> Idle]
  /\ given = [c \in Callers |-> NoInformers]
  /\ res = [c \in Callers |-> [t \in Types |-> "none"]]
  /\ due = [c \in Callers |-> {}]
  /\ since = [i \in Informers |-> {}]

At(c, place) == call[c].at = place
Lock(c) == lock = None /\ lock' = c
Unlock == lock' = None
Enter(c, place, changes) ==
  /\ At(c, "idle")
  /\ call' = [call EXCEPT ![c] = [changes EXCEPT !.at = place]]
LeaveCall(c) == call' = [call EXCEPT ![c] = Idle]

informerVars == <<kind, runs, synced, halted, indexer, since>>
environment == <<server, closed>>

-----------------------------------------------------------------------------
(* InformerFor, which Informer, Lister and ForResource come to. *)

\* Mutant: the lock is not taken.
CallInformerForUnlocked(c, t) ==
  /\ Enter(c, "informerFor", About(t))
  /\ UNCHANGED <<lock, informers, startedInformers, informerVars, environment, given, res, due>>

CallInformerFor(c, t) ==
  /\ Enter(c, "informerFor", About(t))
  /\ Lock(c)
  /\ UNCHANGED <<informers, startedInformers, informerVars, environment, given, res, due>>

FoundInformer(c) ==
  LET t == call[c].type IN
  /\ At(c, "informerFor")
  /\ informers[t] # None
  /\ given' = [given EXCEPT ![c][t] = informers[t]]
  /\ LeaveCall(c)
  /\ Unlock
  /\ UNCHANGED <<informers, startedInformers, informerVars, environment, res, due>>

\* A call that has made informer i.
Makes(r, i) == [r EXCEPT !.at = "register", !.informer = i]

\* newFunc: which of the informers not yet made it is makes no difference.
MakeInformer(c) ==
  LET t == call[c].type
      i == CHOOSE j \in Informers : kind[j] = None
  IN
  /\ At(c, "informerFor")
  /\ informers[t] = None
  /\ \E j \in Informers : kind[j] = None
  /\ kind' = [kind EXCEPT ![i] = t]
  /\ call' = [call EXCEPT ![c] = Makes(call[c], i)]
  /\ UNCHANGED <<lock, informers, startedInformers, runs, synced, halted, indexer,
                 since, environment, given, res, due>>

RegisterInformer(c) ==
  LET t == call[c].type IN
  /\ At(c, "register")
  /\ informers' = [informers EXCEPT ![t] = call[c].informer]
  /\ given' = [given EXCEPT ![c][t] = call[c].informer]
  /\ LeaveCall(c)
  /\ Unlock
  /\ UNCHANGED <<startedInformers, informerVars, environment, res, due>>

-----------------------------------------------------------------------------
(* Start *)

CallStart(c, ch) ==
  /\ Enter(c, "start", Until(ch, informers))
  /\ Lock(c)
  /\ due' = [due EXCEPT ![c] = {t \in Types : given[c][t] # None}]
  /\ UNCHANGED <<informers, startedInformers, informerVars, environment, given, res>>

\* A call that has done with type t.
Without(r, t) == [r EXCEPT !.todo = [@ EXCEPT ![t] = None]]
Done(c, t) == call' = [call EXCEPT ![c] = Without(call[c], t)]

\* Mutant: startedInformers is not looked at.
LaunchAgain(c, t) ==
  LET i == call[c].todo[t] IN
  /\ At(c, "start")
  /\ i # None
  /\ runs' = [runs EXCEPT ![i] = @ \union {call[c].stop}]
  /\ since' = [since EXCEPT ![i] = Listed(t)]
  /\ startedInformers' = startedInformers \union {t}
  /\ Done(c, t)
  /\ UNCHANGED <<lock, informers, kind, synced, halted, indexer, environment, given, res, due>>

\* go informer.Run(stopCh): a channel that is closed already stops it at once.
Launch(c, t) ==
  LET i == call[c].todo[t]
      ch == call[c].stop
  IN
  /\ At(c, "start")
  /\ i # None
  /\ t \notin startedInformers
  /\ runs' = [runs EXCEPT ![i] = @ \union {ch}]
  /\ halted' = IF ch \in closed THEN halted \union {i} ELSE halted
  /\ since' = [since EXCEPT ![i] = Listed(t)]
  /\ startedInformers' = startedInformers \union {t}
  /\ Done(c, t)
  /\ UNCHANGED <<lock, informers, kind, synced, indexer, environment, given, res, due>>

SkipStarted(c, t) ==
  /\ At(c, "start")
  /\ call[c].todo[t] # None
  /\ t \in startedInformers
  /\ Done(c, t)
  /\ UNCHANGED <<lock, informers, startedInformers, informerVars, environment, given, res, due>>

\* Mutant: the loop is left early.
EndStartEarly(c) ==
  /\ At(c, "start")
  /\ LeaveCall(c)
  /\ Unlock
  /\ UNCHANGED <<informers, startedInformers, informerVars, environment, given, res, due>>

EndStart(c) ==
  /\ At(c, "start")
  /\ call[c].todo = NoInformers
  /\ LeaveCall(c)
  /\ Unlock
  /\ UNCHANGED <<informers, startedInformers, informerVars, environment, given, res, due>>

-----------------------------------------------------------------------------
(* WaitForCacheSync: the informers to wait for are collected under the lock,  *)
(* in one step here as nothing else is done in between.                       *)

StartedOrNot == informers \* mutant
Started == [t \in Types |-> IF t \in startedInformers THEN informers[t] ELSE None]

CallWait(c, ch) ==
  /\ lock = None
  /\ Enter(c, "wait", Until(ch, Started))
  /\ res' = [res EXCEPT ![c] = [t \in Types |-> "none"]]
  /\ UNCHANGED <<lock, informers, startedInformers, informerVars, environment, given, due>>

\* A call that waits for type t, and one that has its answer.
Asks(r, t) == [r EXCEPT !.at = "poll", !.type = t]
Answered(r, t) == [Without(r, t) EXCEPT !.at = "wait", !.type = None]

Answer(c, t, verdict) ==
  /\ res' = [res EXCEPT ![c][t] = verdict]
  /\ call' = [call EXCEPT ![c] = Answered(call[c], t)]
  /\ UNCHANGED <<lock, informers, startedInformers, informerVars, environment, given, due>>

\* The condition is looked at once before the stop channel is.
WaitImmediately(c, t) ==
  /\ At(c, "wait")
  /\ call[c].todo[t] # None
  /\ call[c].todo[t] \in synced
  /\ Answer(c, t, "synced")

BeginPolling(c, t) ==
  /\ At(c, "wait")
  /\ call[c].todo[t] # None
  /\ call[c].todo[t] \notin synced
  /\ call' = [call EXCEPT ![c] = Asks(call[c], t)]
  /\ UNCHANGED <<lock, informers, startedInformers, informerVars, environment, given, res, due>>

PollSynced(c) ==
  /\ At(c, "poll")
  /\ call[c].todo[call[c].type] \in synced
  /\ Answer(c, call[c].type, "synced")

\* The channel and the tick may be there together: either is taken.
PollStopped(c) ==
  /\ At(c, "poll")
  /\ call[c].stop \in closed
  /\ Answer(c, call[c].type, "stopped")

EndWait(c) ==
  /\ At(c, "wait")
  /\ call[c].todo = NoInformers
  /\ LeaveCall(c)
  /\ UNCHANGED <<lock, informers, startedInformers, informerVars, environment, given, res, due>>

-----------------------------------------------------------------------------
(* Informers, the API server, and whoever closes the channels. *)

factory == <<lock, informers, startedInformers, call, given, res, due>>

\* The first list fills the store.  It may still do so after the channel is
\* closed, up to when the informer notices.
ListObjects(i) ==
  /\ runs[i] # {}
  /\ i \notin synced \union halted
  /\ indexer' = [indexer EXCEPT ![i] = Listed(kind[i])]
  /\ synced' = synced \union {i}
  /\ UNCHANGED <<factory, kind, runs, halted, environment, since>>

WatchEvent(i) ==
  /\ i \in synced \ halted
  /\ indexer[i] # Watched(kind[i])
  /\ \E o \in ObjectNames :
       indexer' = [indexer EXCEPT ![i] = IF o \in Watched(kind[i]) THEN @ \union {o}
                                                                   ELSE @ \ {o}]
  /\ UNCHANGED <<factory, kind, runs, synced, halted, environment, since>>

Halt(i) ==
  /\ i \notin halted
  /\ runs[i] \intersect closed # {}
  /\ halted' = halted \union {i}
  /\ UNCHANGED <<factory, kind, runs, synced, indexer, environment, since>>

AddObject(t, o) ==
  /\ o \notin server[t]
  /\ server' = [server EXCEPT ![t] = @ \union {o}]
  /\ UNCHANGED <<factory, informerVars, closed>>

RemoveObject(t, o) ==
  /\ o \in server[t]
  /\ server' = [server EXCEPT ![t] = @ \ {o}]
  /\ since' = [i \in Informers |-> IF kind[i] = t THEN since[i] \ {o} ELSE since[i]]
  /\ UNCHANGED <<factory, kind, runs, synced, halted, indexer, closed>>

CloseChannel(ch) ==
  /\ ch \notin closed
  /\ closed' = closed \union {ch}
  /\ UNCHANGED <<factory, informerVars, server>>

-----------------------------------------------------------------------------
CallerStep(c) ==
  \/ FoundInformer(c) \/ MakeInformer(c) \/ RegisterInformer(c)
  \/ EndStart(c) \/ PollSynced(c) \/ PollStopped(c) \/ EndWait(c)
  \/ \E t \in Types : Launch(c, t) \/ SkipStarted(c, t)
                      \/ WaitImmediately(c, t) \/ BeginPolling(c, t)

CallerCalls(c) ==
  \/ \E t \in Types : CallInformerFor(c, t)
  \/ \E ch \in Channels : CallStart(c, ch) \/ CallWait(c, ch)

InformerStep(i) == ListObjects(i) \/ WatchEvent(i) \/ Halt(i)

EnvironmentStep ==
  \/ \E t \in Types, o \in ObjectNames : AddObject(t, o) \/ RemoveObject(t, o)
  \/ \E ch \in Channels : CloseChannel(ch)

FactoryNext ==
  \/ \E c \in Callers : CallerStep(c) \/ CallerCalls(c)
  \/ \E i \in Informers : InformerStep(i)
  \/ EnvironmentStep

FactorySpec == FactoryInit /\ [][FactoryNext]_factoryVars

\* A call once begun goes on, and an informer that runs lists its objects.
FactoryFairness ==
  /\ \A c \in Callers : WF_factoryVars(CallerStep(c))
  /\ WF_factoryVars(\E i \in Informers : ListObjects(i))

-----------------------------------------------------------------------------
\* However callers race for a type, all are given the same informer, the one
\* that Start runs and WaitForCacheSync asks (InformerFor, 143-164); and
\* however often Start is called, it runs an informer with one channel only
\* ("This allows Start() to be called multiple times safely", factory.go:46).
OneInformerEach ==
  /\ \A c \in Callers, t \in Types : given[c][t] \in {informers[t], None}
  /\ \A i \in Informers : \A ch1, ch2 \in runs[i] : ch1 = ch2

\* When a wait has said that the cache of a type is filled, the lister a caller
\* has of that type has every object that was there when the informer was
\* started and has not been deleted since, and none outside the namespace and
\* the tweaked options of the factory.  That goes through three maps, two
\* calls of the lock, and an informer that may have been asked for by another.
ListerIsTrue ==
  \A c \in Callers, t \in Types :
    res[c][t] = "synced" /\ given[c][t] # None =>
      /\ since[given[c][t]] \subseteq indexer[given[c][t]]
      /\ indexer[given[c][t]] \subseteq Selected

\* A wait says something of every type its caller had asked for before it last
\* called Start, although it collects what has been started only then and the
\* waiting is done without the lock.
WaitCovers ==
  [][\A c \in Callers :
       call[c].at = "wait" /\ call'[c].at = "idle" =>
         \A t \in due[c] : res[c][t] # "none"]_factoryVars

\* A wait ends, but for an informer that was stopped before its cache was
\* filled: Start does not run it again, and the wait has another channel.
Abandoned(c) ==
  /\ At(c, "poll")
  /\ call[c].stop \notin closed
  /\ call[c].todo[call[c].type] \in halted \ synced
WaitEnds ==
  \A c \in Callers : (At(c, "wait") \/ At(c, "poll")) ~> (At(c, "idle") \/ Abandoned(c))
=============================================================================

----------------------- MODULE InformerFactoryProofs ------------------------
(***************************************************************************)
(* Proofs about the informer factory: that everybody is given the same     *)
(* informers, that they run once, and that what a wait says of their       *)
(* caches is true and complete.                                            *)
(***************************************************************************)
EXTENDS ClientInvariants, TLAPS

USE NoneAssumption, SelectedAssumption

LEMMA IdleType == Idle \in Calls
BY DEF Idle, Calls, CallStates, NoInformers

\* The call of a caller after each of its steps.
LEMMA AboutType ==
  ASSUME NEW t \in Types
  PROVE  /\ About(t) \in Calls
         /\ About(t).type = t
BY DEF About, Idle, Calls, CallStates, NoInformers

LEMMA UntilType ==
  ASSUME NEW ch \in Channels, NEW todo \in [Types -> Informers \union {None}]
  PROVE  /\ Until(ch, todo) \in Calls
         /\ Until(ch, todo).stop = ch
         /\ Until(ch, todo).todo = todo
BY DEF Until, Idle, Calls, CallStates, NoInformers

LEMMA MakesType ==
  ASSUME NEW r \in Calls, NEW i \in Informers
  PROVE  /\ Makes(r, i) \in Calls
         /\ Makes(r, i).at = "register"
         /\ Makes(r, i).type = r.type
         /\ Makes(r, i).informer = i
BY DEF Calls, CallStates, Makes

LEMMA AsksType ==
  ASSUME NEW r \in Calls, NEW t \in Types
  PROVE  /\ Asks(r, t) \in Calls
         /\ Asks(r, t).at = "poll"
         /\ Asks(r, t).type = t
         /\ Asks(r, t).todo = r.todo
BY DEF Calls, CallStates, Asks

LEMMA WithoutType ==
  ASSUME NEW r \in Calls, NEW t
  PROVE  /\ Without(r, t) \in Calls
         /\ Without(r, t).at = r.at
         /\ Without(r, t).type = r.type
         /\ Without(r, t).stop = r.stop
         /\ Without(r, t).todo = [r.todo EXCEPT ![t] = None]
<1>1. r.todo \in [Types -> Informers \union {None}]
  BY DEF Calls
<1>2. [r.todo EXCEPT ![t] = None] \in [Types -> Informers \union {None}]
  BY <1>1
<1> QED BY <1>2 DEF Calls, Without

LEMMA AnsweredType ==
  ASSUME NEW r \in Calls, NEW t
  PROVE  /\ Answered(r, t) \in Calls
         /\ Answered(r, t).at = "wait"
         /\ Answered(r, t).stop = r.stop
         /\ Answered(r, t).todo = [r.todo EXCEPT ![t] = None]
<1> DEFINE Waits(p) == [p EXCEPT !.at = "wait", !.type = None]
<1>1. \A p \in Calls : /\ Waits(p) \in Calls /\ Waits(p).at = "wait"
                       /\ Waits(p).stop = p.stop /\ Waits(p).todo = p.todo
  BY DEF Calls, CallStates
<1>2. Answered(r, t) = Waits(Without(r, t))
  BY DEF Answered
<1>3. /\ Without(r, t) \in Calls
      /\ Without(r, t).stop = r.stop
      /\ Without(r, t).todo = [r.todo EXCEPT ![t] = None]
  BY WithoutType
<1> HIDE DEF Waits
<1> QED BY <1>1, <1>2, <1>3

LEMMA FactoryInitInv == FactoryInit => FactoryInv
<1> SUFFICES ASSUME FactoryInit PROVE FactoryInv
  OBVIOUS
<1>1. FactoryTypeOK
  BY IdleType DEF FactoryInit, FactoryTypeOK, NoInformers
<1>2. MutualExclusion /\ Registered /\ RunOnce /\ StoresAreTrue /\ AnswersAreTrue
  BY DEF FactoryInit, MutualExclusion, Locked, Registered, RunOnce, StoresAreTrue,
         AnswersAreTrue, Idle, NoInformers
<1>3. \A c \in Callers : CallerInv(c)
  BY DEF FactoryInit, CallerInv, Asking, Starting, DueIsStarted, Waiting, Polling, At, Idle
<1> QED BY <1>1, <1>2, <1>3 DEF FactoryInv

\* What the invariant says of a caller stays true while others register and
\* start informers, which they only do when the caller has not got the lock.
LEMMA CallerKept ==
  ASSUME FactoryInv, NEW d \in Callers,
         call'[d] = call[d], res'[d] = res[d], due'[d] = due[d],
         \A i \in Informers : kind[i] # None => kind'[i] = kind[i],
         \A t \in Types : informers[t] # None => informers'[t] = informers[t],
         startedInformers \subseteq startedInformers',
         Locked(d) => informers' = informers /\ startedInformers' = startedInformers
  PROVE  CallerInv(d)'
<1>0. FactoryTypeOK /\ CallerInv(d)
  BY DEF FactoryInv
<1>1. Asking(d)'
  BY <1>0 DEF FactoryTypeOK, CallerInv, Asking, At, Locked
<1>2. Starting(d)'
  BY <1>0 DEF FactoryTypeOK, CallerInv, Starting, At, Locked
<1>3. DueIsStarted(d)'
  BY <1>0 DEF FactoryTypeOK, CallerInv, DueIsStarted, At
<1>4. Waiting(d)'
  BY <1>0 DEF FactoryTypeOK, CallerInv, Waiting, At
<1>5. Polling(d)'
  BY <1>0 DEF FactoryTypeOK, CallerInv, Polling, At
<1> QED BY <1>1, <1>2, <1>3, <1>4, <1>5 DEF CallerInv

LEMMA InformerForInv ==
  ASSUME FactoryInv, NEW c \in Callers, NEW t \in Types, CallInformerFor(c, t)
  PROVE  FactoryInv'
<1>0. FactoryTypeOK /\ CallerInv(c) /\ At(c, "idle") /\ lock = None
  BY DEF FactoryInv, CallInformerFor, Enter, Lock
<1>1. /\ UNCHANGED <<informers, startedInformers, informerVars, environment, given, res, due>>
      /\ call' = [call EXCEPT ![c] = [About(t) EXCEPT !.at = "informerFor"]]
      /\ lock' = c
  BY DEF CallInformerFor, Enter, Lock
<1>2. FactoryTypeOK'
  BY <1>0, <1>1, IdleType DEF FactoryTypeOK, informerVars, environment, About, Calls, CallStates
<1>3. MutualExclusion'
  BY <1>0, <1>1 DEF FactoryInv, FactoryTypeOK, MutualExclusion, Locked
<1>4. Registered' /\ RunOnce' /\ StoresAreTrue' /\ AnswersAreTrue'
  BY <1>1 DEF FactoryInv, Registered, RunOnce, StoresAreTrue, AnswersAreTrue, informerVars,
              environment, Listed
<1>5. CallerInv(c)'
  BY <1>0, <1>1 DEF FactoryTypeOK, CallerInv, Asking, Starting, DueIsStarted, Waiting,
                    Polling, At, About, Idle
<1>6. ASSUME NEW d \in Callers \ {c} PROVE CallerInv(d)'
  BY <1>0, <1>1, CallerKept DEF FactoryTypeOK, informerVars
<1> QED BY <1>2, <1>3, <1>4, <1>5, <1>6 DEF FactoryInv

LEMMA FoundInv ==
  ASSUME FactoryInv, NEW c \in Callers, FoundInformer(c)
  PROVE  FactoryInv'
<1> DEFINE t == call[c].type
<1>0. FactoryTypeOK /\ CallerInv(c) /\ At(c, "informerFor") /\ t \in Types
  BY DEF FactoryInv, CallerInv, Asking, FoundInformer
<1>1. /\ UNCHANGED <<informers, startedInformers, informerVars, environment, res, due>>
      /\ call' = [call EXCEPT ![c] = Idle]
      /\ lock' = None
      /\ given' = [given EXCEPT ![c][t] = informers[t]]
  BY DEF FoundInformer, LeaveCall, Unlock
<1>2. FactoryTypeOK'
  BY <1>0, <1>1, IdleType DEF FactoryTypeOK, informerVars, environment
<1>3. MutualExclusion'
  BY <1>0, <1>1 DEF FactoryInv, FactoryTypeOK, MutualExclusion, Locked, Idle, At
<1>4. Registered'
  BY <1>0, <1>1 DEF FactoryInv, FactoryTypeOK, Registered, informerVars
<1>5. RunOnce' /\ StoresAreTrue' /\ AnswersAreTrue'
  BY <1>0, <1>1 DEF FactoryInv, RunOnce, StoresAreTrue, AnswersAreTrue, informerVars,
                    environment, Listed
<1>6. CallerInv(c)'
  BY <1>0, <1>1 DEF FactoryTypeOK, CallerInv, Asking, Starting, DueIsStarted, Waiting,
                    Polling, At, Idle
<1>7. ASSUME NEW d \in Callers \ {c} PROVE CallerInv(d)'
  BY <1>0, <1>1, CallerKept DEF FactoryTypeOK, informerVars
<1> QED BY <1>2, <1>3, <1>4, <1>5, <1>6, <1>7 DEF FactoryInv

LEMMA MakeInv ==
  ASSUME FactoryInv, NEW c \in Callers, MakeInformer(c)
  PROVE  FactoryInv'
<1> DEFINE t == call[c].type
           i == CHOOSE j \in Informers : kind[j] = None
<1>0. /\ FactoryTypeOK /\ CallerInv(c)
      /\ At(c, "informerFor") /\ t \in Types /\ informers[t] = None
      /\ i \in Informers /\ kind[i] = None
  BY DEF FactoryInv, CallerInv, Asking, MakeInformer
<1>1. /\ UNCHANGED <<lock, informers, startedInformers, runs, synced, halted, indexer, since,
                     environment, given, res, due>>
      /\ kind' = [kind EXCEPT ![i] = t]
      /\ call' = [call EXCEPT ![c] = Makes(call[c], i)]
  BY DEF MakeInformer
<1> HIDE DEF i
<1>2. FactoryTypeOK'
  <2>1. Makes(call[c], i) \in Calls
    BY <1>0, MakesType DEF FactoryTypeOK
  <2> QED BY <1>0, <1>1, <2>1 DEF FactoryTypeOK, environment
<1>a. /\ call'[c] = Makes(call[c], i)
      /\ call'[c].at = "register" /\ call'[c].type = t /\ call'[c].informer = i
      /\ \A d \in Callers \ {c} : call'[d] = call[d]
  BY <1>0, <1>1, MakesType DEF FactoryTypeOK
<1>3. MutualExclusion'
  BY <1>0, <1>1, <1>a DEF FactoryInv, MutualExclusion, Locked, At
<1>4. Registered' /\ RunOnce'
  BY <1>0, <1>1 DEF FactoryInv, FactoryTypeOK, Registered, RunOnce
<1>5. StoresAreTrue' /\ AnswersAreTrue'
  BY <1>0, <1>1 DEF FactoryInv, FactoryTypeOK, RunOnce, StoresAreTrue, AnswersAreTrue,
                    environment, Listed
<1>6. CallerInv(c)'
  BY <1>0, <1>1, <1>a DEF FactoryTypeOK, CallerInv, Asking, Starting, DueIsStarted, Waiting,
                    Polling, At
<1>7. ASSUME NEW d \in Callers \ {c} PROVE CallerInv(d)'
  BY <1>0, <1>1, <1>a, CallerKept DEF FactoryTypeOK
<1> QED BY <1>2, <1>3, <1>4, <1>5, <1>6, <1>7 DEF FactoryInv

LEMMA RegisterInv ==
  ASSUME FactoryInv, NEW c \in Callers, RegisterInformer(c)
  PROVE  FactoryInv'
<1> DEFINE t == call[c].type
           i == call[c].informer
<1>0. /\ FactoryTypeOK /\ CallerInv(c) /\ At(c, "register")
      /\ t \in Types /\ i \in Informers /\ kind[i] = t /\ informers[t] = None
  BY DEF FactoryInv, CallerInv, Asking, RegisterInformer
<1>1. /\ UNCHANGED <<startedInformers, informerVars, environment, res, due>>
      /\ call' = [call EXCEPT ![c] = Idle]
      /\ lock' = None
      /\ informers' = [informers EXCEPT ![t] = i]
      /\ given' = [given EXCEPT ![c][t] = i]
  BY DEF RegisterInformer, LeaveCall, Unlock
<1>2. FactoryTypeOK'
  BY <1>0, <1>1, IdleType DEF FactoryTypeOK, informerVars, environment
<1>3. MutualExclusion'
  BY <1>0, <1>1 DEF FactoryInv, FactoryTypeOK, MutualExclusion, Locked, Idle, At
<1>4. Registered' /\ RunOnce'
  BY <1>0, <1>1 DEF FactoryInv, FactoryTypeOK, Registered, RunOnce, informerVars
<1>5. StoresAreTrue' /\ AnswersAreTrue'
  BY <1>0, <1>1 DEF FactoryInv, FactoryTypeOK, StoresAreTrue, AnswersAreTrue, informerVars,
                    environment, Listed
<1>6. CallerInv(c)'
  BY <1>0, <1>1 DEF FactoryTypeOK, CallerInv, Asking, Starting, DueIsStarted, Waiting,
                    Polling, At, Idle
<1>7. ASSUME NEW d \in Callers \ {c} PROVE CallerInv(d)'
  <2>1. lock = c /\ ~ Locked(d)
    BY <1>0 DEF FactoryInv, MutualExclusion, Locked, At
  <2> QED BY <1>0, <1>1, <2>1, CallerKept DEF FactoryTypeOK, informerVars
<1> QED BY <1>2, <1>3, <1>4, <1>5, <1>6, <1>7 DEF FactoryInv

LEMMA StartInv ==
  ASSUME FactoryInv, NEW c \in Callers, NEW ch \in Channels, CallStart(c, ch)
  PROVE  FactoryInv'
<1>0. FactoryTypeOK /\ CallerInv(c) /\ At(c, "idle") /\ lock = None
  BY DEF FactoryInv, CallStart, Enter, Lock
<1>1. /\ UNCHANGED <<informers, startedInformers, informerVars, environment, given, res>>
      /\ call' = [call EXCEPT ![c] =
                    [Until(ch, informers) EXCEPT !.at = "start"]]
      /\ lock' = c
      /\ due' = [due EXCEPT ![c] = {t \in Types : given[c][t] # None}]
  BY DEF CallStart, Enter, Lock
<1>2. FactoryTypeOK'
  BY <1>0, <1>1, IdleType DEF FactoryTypeOK, informerVars, environment, Until, Calls, CallStates
<1>3. MutualExclusion'
  BY <1>0, <1>1 DEF FactoryInv, FactoryTypeOK, MutualExclusion, Locked
<1>4. Registered' /\ RunOnce' /\ StoresAreTrue' /\ AnswersAreTrue'
  BY <1>1 DEF FactoryInv, Registered, RunOnce, StoresAreTrue, AnswersAreTrue, informerVars,
              environment, Listed
<1>5. CallerInv(c)'
  BY <1>0, <1>1 DEF FactoryInv, Registered, FactoryTypeOK, CallerInv, Asking, Starting,
                    DueIsStarted, Waiting, Polling, At, Until, Idle
<1>6. ASSUME NEW d \in Callers \ {c} PROVE CallerInv(d)'
  BY <1>0, <1>1, CallerKept DEF FactoryTypeOK, informerVars
<1> QED BY <1>2, <1>3, <1>4, <1>5, <1>6 DEF FactoryInv

LEMMA LaunchInv ==
  ASSUME FactoryInv, NEW c \in Callers, NEW t \in Types, Launch(c, t)
  PROVE  FactoryInv'
<1> DEFINE i == call[c].todo[t]
           ch == call[c].stop
<1>0. /\ FactoryTypeOK /\ CallerInv(c) /\ At(c, "start") /\ t \notin startedInformers
      /\ i \in Informers /\ i = informers[t] /\ kind[i] = t /\ runs[i] = {} /\ i \notin synced
      /\ ch \in Channels
  <2>1. FactoryTypeOK /\ CallerInv(c) /\ At(c, "start") /\ t \notin startedInformers /\ i # None
    BY DEF FactoryInv, Launch
  <2>2. i = informers[t] /\ i \in Informers /\ kind[i] = t
    BY <2>1 DEF CallerInv, Starting, FactoryTypeOK, FactoryInv, Registered
  <2>3. runs[i] = {} /\ i \notin synced
    BY <2>1, <2>2 DEF FactoryInv, RunOnce, StoresAreTrue
  <2> QED BY <2>1, <2>2, <2>3 DEF CallerInv, Starting
<1>1. /\ UNCHANGED <<lock, informers, kind, synced, indexer, environment, given, res, due>>
      /\ call' = [call EXCEPT ![c] = Without(call[c], t)]
      /\ runs' = [runs EXCEPT ![i] = @ \union {ch}]
      /\ halted' = IF ch \in closed THEN halted \union {i} ELSE halted
      /\ since' = [since EXCEPT ![i] = Listed(t)]
      /\ startedInformers' = startedInformers \union {t}
  BY DEF Launch, Done
<1>a. /\ call'[c].at = "start" /\ call'[c].stop = ch /\ call'[c].todo = [call[c].todo EXCEPT ![t] = None]
      /\ \A d \in Callers \ {c} : call'[d] = call[d]
  <2>1. /\ call'[c] = Without(call[c], t)
        /\ \A d \in Callers \ {c} : call'[d] = call[d]
    BY <1>0, <1>1 DEF FactoryTypeOK
  <2> QED BY <1>0, <2>1, WithoutType DEF FactoryTypeOK, At
<1> HIDE DEF i, ch
<1>2. FactoryTypeOK'
  <2>1. Without(call[c], t) \in Calls
    BY <1>0, WithoutType DEF FactoryTypeOK
  <2>2. call' \in [Callers -> Calls]
    BY <1>0, <1>1, <2>1 DEF FactoryTypeOK
  <2>3. runs' \in [Informers -> SUBSET Channels] /\ halted' \subseteq Informers
    BY <1>0, <1>1 DEF FactoryTypeOK
  <2>4. since' \in [Informers -> SUBSET ObjectNames]
    BY <1>0, <1>1 DEF FactoryTypeOK, Listed
  <2> QED BY <1>0, <1>1, <2>2, <2>3, <2>4 DEF FactoryTypeOK, environment
<1>3. MutualExclusion'
  BY <1>0, <1>1, <1>a DEF FactoryInv, FactoryTypeOK, MutualExclusion, Locked, At
<1>4. Registered' /\ RunOnce'
  <2>1. /\ runs'[i] = {ch}
        /\ \A j \in Informers \ {i} : runs'[j] = runs[j]
    BY <1>0, <1>1 DEF FactoryTypeOK
  <2>2. Registered'
    BY <1>1 DEF FactoryInv, Registered
  <2>3. \A j \in Informers : runs'[j] # {} => kind'[j] \in startedInformers' /\ informers'[kind'[j]] = j
    BY <1>0, <1>1, <2>1 DEF FactoryInv, RunOnce
  <2>4. \A y \in startedInformers' : informers'[y] # None /\ runs'[informers'[y]] # {}
    <3> SUFFICES ASSUME NEW y \in startedInformers \union {t}
                 PROVE  informers[y] # None /\ runs'[informers[y]] # {}
      BY <1>1
    <3>1. CASE informers[y] = i
      BY <1>0, <2>1, <3>1
    <3>2. CASE y # t /\ informers[y] # i
      <4>1. informers[y] # None /\ runs[informers[y]] # {}
        BY <3>2 DEF FactoryInv, RunOnce
      <4>2. informers[y] \in Informers
        BY <3>2, <4>1 DEF FactoryInv, FactoryTypeOK
      <4> QED BY <2>1, <3>2, <4>1, <4>2
    <3> QED BY <1>0, <3>1, <3>2
  <2> QED BY <1>0, <2>1, <2>2, <2>3, <2>4 DEF FactoryInv, RunOnce
<1>5. StoresAreTrue' /\ AnswersAreTrue'
  BY <1>0, <1>1 DEF FactoryInv, FactoryTypeOK, StoresAreTrue, AnswersAreTrue, environment, Listed
<1>6. CallerInv(c)'
  BY <1>0, <1>1, <1>a DEF FactoryTypeOK, Calls, CallerInv, Asking, Starting, DueIsStarted,
                          Waiting, Polling, At
<1>7. ASSUME NEW d \in Callers \ {c} PROVE CallerInv(d)'
  <2>1. lock = c /\ ~ Locked(d)
    BY <1>0 DEF FactoryInv, MutualExclusion, Locked, At
  <2> QED BY <1>0, <1>1, <1>a, <2>1, CallerKept DEF FactoryTypeOK
<1> QED BY <1>2, <1>3, <1>4, <1>5, <1>6, <1>7 DEF FactoryInv

LEMMA SkipInv ==
  ASSUME FactoryInv, NEW c \in Callers, NEW t \in Types, SkipStarted(c, t)
  PROVE  FactoryInv'
<1>0. FactoryTypeOK /\ CallerInv(c) /\ At(c, "start") /\ t \in startedInformers
  BY DEF FactoryInv, SkipStarted
<1>1. /\ UNCHANGED <<lock, informers, startedInformers, informerVars, environment, given, res, due>>
      /\ call' = [call EXCEPT ![c] = Without(call[c], t)]
  BY DEF SkipStarted, Done
<1>2. /\ call'[c] = Without(call[c], t) /\ Without(call[c], t) \in Calls
      /\ call'[c].at = "start" /\ call'[c].stop = call[c].stop
      /\ call'[c].todo = [call[c].todo EXCEPT ![t] = None]
      /\ \A d \in Callers \ {c} : call'[d] = call[d]
  BY <1>0, <1>1, WithoutType DEF FactoryTypeOK, At
<1>3. FactoryTypeOK'
  BY <1>0, <1>1, <1>2 DEF FactoryTypeOK, informerVars, environment
<1>4. MutualExclusion'
  BY <1>0, <1>1, <1>2 DEF FactoryInv, MutualExclusion, Locked, At
<1>5. Registered' /\ RunOnce' /\ StoresAreTrue' /\ AnswersAreTrue'
  BY <1>1 DEF FactoryInv, Registered, RunOnce, StoresAreTrue, AnswersAreTrue, informerVars,
              environment, Listed
<1>6. CallerInv(c)'
  BY <1>0, <1>1, <1>2 DEF FactoryTypeOK, Calls, CallerInv, Asking, Starting, DueIsStarted,
                          Waiting, Polling, At
<1>7. ASSUME NEW d \in Callers \ {c} PROVE CallerInv(d)'
  BY <1>0, <1>1, <1>2, CallerKept DEF FactoryTypeOK, informerVars
<1> QED BY <1>3, <1>4, <1>5, <1>6, <1>7 DEF FactoryInv

LEMMA EndStartInv ==
  ASSUME FactoryInv, NEW c \in Callers, EndStart(c)
  PROVE  FactoryInv'
<1>0. FactoryTypeOK /\ CallerInv(c) /\ At(c, "start") /\ call[c].todo = NoInformers
  BY DEF FactoryInv, EndStart
<1>1. /\ UNCHANGED <<informers, startedInformers, informerVars, environment, given, res, due>>
      /\ call' = [call EXCEPT ![c] = Idle]
      /\ lock' = None
  BY DEF EndStart, LeaveCall, Unlock
<1>2. FactoryTypeOK'
  BY <1>0, <1>1, IdleType DEF FactoryTypeOK, informerVars, environment
<1>3. MutualExclusion'
  BY <1>0, <1>1 DEF FactoryInv, FactoryTypeOK, MutualExclusion, Locked, Idle, At
<1>4. Registered' /\ RunOnce' /\ StoresAreTrue' /\ AnswersAreTrue'
  BY <1>1 DEF FactoryInv, Registered, RunOnce, StoresAreTrue, AnswersAreTrue, informerVars,
              environment, Listed
<1>5. CallerInv(c)'
  <2>1. due[c] \subseteq startedInformers
    BY <1>0 DEF CallerInv, Starting, DueIsStarted, FactoryTypeOK, NoInformers
  <2> QED BY <1>0, <1>1, <2>1 DEF FactoryTypeOK, CallerInv, Asking, Starting, DueIsStarted,
                                  Waiting, Polling, At, Idle
<1>6. ASSUME NEW d \in Callers \ {c} PROVE CallerInv(d)'
  BY <1>0, <1>1, CallerKept DEF FactoryTypeOK, informerVars
<1> QED BY <1>2, <1>3, <1>4, <1>5, <1>6 DEF FactoryInv

LEMMA WaitInv ==
  ASSUME FactoryInv, NEW c \in Callers, NEW ch \in Channels, CallWait(c, ch)
  PROVE  FactoryInv'
<1> DEFINE r == [Until(ch, Started) EXCEPT !.at = "wait"]
<1>0. FactoryTypeOK /\ CallerInv(c) /\ At(c, "idle") /\ lock = None
  BY DEF FactoryInv, CallWait, Enter
<1>1. /\ UNCHANGED <<lock, informers, startedInformers, informerVars, environment, given, due>>
      /\ call' = [call EXCEPT ![c] = r]
      /\ res' = [res EXCEPT ![c] = [t \in Types |-> "none"]]
  BY DEF CallWait, Enter
<1>2. r \in Calls /\ r.at = "wait" /\ r.todo = Started
  <2>1. Started \in [Types -> Informers \union {None}]
    BY <1>0 DEF FactoryTypeOK, Started
  <2> QED BY <2>1 DEF Until, Idle, Calls, CallStates, NoInformers
<1> HIDE DEF r
<1>3. FactoryTypeOK'
  BY <1>0, <1>1, <1>2 DEF FactoryTypeOK, informerVars, environment
<1>4. MutualExclusion'
  BY <1>0, <1>1, <1>2 DEF FactoryInv, FactoryTypeOK, MutualExclusion, Locked
<1>5. Registered' /\ RunOnce' /\ StoresAreTrue'
  BY <1>1 DEF FactoryInv, Registered, RunOnce, StoresAreTrue, informerVars, environment, Listed
<1>6. AnswersAreTrue'
  BY <1>0, <1>1 DEF FactoryInv, FactoryTypeOK, AnswersAreTrue, informerVars
<1>7. CallerInv(c)'
  BY <1>0, <1>1, <1>2 DEF FactoryTypeOK, CallerInv, Asking, Starting, DueIsStarted, Waiting,
                          Polling, At, Started
<1>8. ASSUME NEW d \in Callers \ {c} PROVE CallerInv(d)'
  BY <1>0, <1>1, CallerKept DEF FactoryTypeOK, informerVars
<1> QED BY <1>3, <1>4, <1>5, <1>6, <1>7, <1>8 DEF FactoryInv

LEMMA AnswerInv ==
  ASSUME FactoryInv, NEW c \in Callers, NEW t \in Types, NEW verdict \in {"synced", "stopped"},
         At(c, "wait") \/ At(c, "poll"),
         verdict = "synced" => call[c].todo[t] \in synced,
         Answer(c, t, verdict)
  PROVE  FactoryInv'
<1> DEFINE r == Answered(call[c], t)
<1>0. FactoryTypeOK /\ CallerInv(c)
  BY DEF FactoryInv
<1>1. /\ UNCHANGED <<lock, informers, startedInformers, informerVars, environment, given, due>>
      /\ call' = [call EXCEPT ![c] = r]
      /\ res' = [res EXCEPT ![c][t] = verdict]
  BY DEF Answer
<1>2. r \in Calls /\ r.at = "wait" /\ r.todo = [call[c].todo EXCEPT ![t] = None]
  BY <1>0, AnsweredType DEF FactoryTypeOK
<1> HIDE DEF r
<1>3. /\ call'[c] = r
      /\ \A d \in Callers \ {c} : call'[d] = call[d] /\ res'[d] = res[d]
      /\ res'[c][t] = verdict
      /\ \A y \in Types \ {t} : res'[c][y] = res[c][y]
  BY <1>0, <1>1 DEF FactoryTypeOK
<1>4. FactoryTypeOK'
  BY <1>0, <1>1, <1>2 DEF FactoryTypeOK, informerVars, environment
<1>5. MutualExclusion'
  BY <1>0, <1>1, <1>2, <1>3 DEF FactoryInv, MutualExclusion, Locked
<1>6. Registered' /\ RunOnce' /\ StoresAreTrue'
  BY <1>1 DEF FactoryInv, Registered, RunOnce, StoresAreTrue, informerVars, environment, Listed
<1>7. AnswersAreTrue'
  <2>1. verdict = "synced" => informers[t] \in synced
    BY <1>0 DEF CallerInv, Waiting, FactoryTypeOK
  <2> QED BY <1>1, <1>3, <2>1 DEF FactoryInv, AnswersAreTrue, informerVars
<1>8. CallerInv(c)'
  <2>1. Asking(c)' /\ Starting(c)' /\ Polling(c)'
    BY <1>2, <1>3 DEF Asking, Starting, Polling, At
  <2>2. DueIsStarted(c)'
    BY <1>0, <1>1 DEF CallerInv, DueIsStarted, At
  <2>3. Waiting(c)'
    BY <1>0, <1>1, <1>2, <1>3 DEF FactoryTypeOK, Calls, CallerInv, Waiting, At
  <2> QED BY <2>1, <2>2, <2>3 DEF CallerInv
<1>9. ASSUME NEW d \in Callers \ {c} PROVE CallerInv(d)'
  BY <1>0, <1>1, <1>3, CallerKept DEF FactoryTypeOK, informerVars
<1> QED BY <1>4, <1>5, <1>6, <1>7, <1>8, <1>9 DEF FactoryInv

LEMMA PollInv ==
  ASSUME FactoryInv, NEW c \in Callers, NEW t \in Types, BeginPolling(c, t)
  PROVE  FactoryInv'
<1> DEFINE r == Asks(call[c], t)
<1>0. FactoryTypeOK /\ CallerInv(c) /\ At(c, "wait") /\ call[c].todo[t] # None
  BY DEF FactoryInv, BeginPolling
<1>1. /\ UNCHANGED <<lock, informers, startedInformers, informerVars, environment, given, res, due>>
      /\ call' = [call EXCEPT ![c] = r]
  BY DEF BeginPolling
<1>2. r \in Calls /\ r.at = "poll" /\ r.type = t /\ r.todo = call[c].todo
  BY <1>0, AsksType DEF FactoryTypeOK
<1> HIDE DEF r
<1>3. FactoryTypeOK'
  BY <1>0, <1>1, <1>2 DEF FactoryTypeOK, informerVars, environment
<1>4. MutualExclusion'
  BY <1>0, <1>1, <1>2 DEF FactoryInv, FactoryTypeOK, MutualExclusion, Locked
<1>5. Registered' /\ RunOnce' /\ StoresAreTrue' /\ AnswersAreTrue'
  BY <1>1 DEF FactoryInv, Registered, RunOnce, StoresAreTrue, AnswersAreTrue, informerVars,
              environment, Listed
<1>6. CallerInv(c)'
  BY <1>0, <1>1, <1>2 DEF FactoryTypeOK, CallerInv, Asking, Starting, DueIsStarted, Waiting,
                          Polling, At
<1>7. ASSUME NEW d \in Callers \ {c} PROVE CallerInv(d)'
  BY <1>0, <1>1, CallerKept DEF FactoryTypeOK, informerVars
<1> QED BY <1>3, <1>4, <1>5, <1>6, <1>7 DEF FactoryInv

LEMMA EndWaitInv ==
  ASSUME FactoryInv, NEW c \in Callers, EndWait(c)
  PROVE  FactoryInv'
<1>0. FactoryTypeOK /\ CallerInv(c) /\ At(c, "wait")
  BY DEF FactoryInv, EndWait
<1>1. /\ UNCHANGED <<lock, informers, startedInformers, informerVars, environment, given, res, due>>
      /\ call' = [call EXCEPT ![c] = Idle]
  BY DEF EndWait, LeaveCall
<1>2. FactoryTypeOK'
  BY <1>0, <1>1, IdleType DEF FactoryTypeOK, informerVars, environment
<1>3. MutualExclusion'
  BY <1>0, <1>1 DEF FactoryInv, FactoryTypeOK, MutualExclusion, Locked, Idle
<1>4. Registered' /\ RunOnce' /\ StoresAreTrue' /\ AnswersAreTrue'
  BY <1>1 DEF FactoryInv, Registered, RunOnce, StoresAreTrue, AnswersAreTrue, informerVars,
              environment, Listed
<1>5. CallerInv(c)'
  BY <1>0, <1>1 DEF FactoryTypeOK, CallerInv, Asking, Starting, DueIsStarted, Waiting,
                    Polling, At, Idle
<1>6. ASSUME NEW d \in Callers \ {c} PROVE CallerInv(d)'
  BY <1>0, <1>1, CallerKept DEF FactoryTypeOK, informerVars
<1> QED BY <1>2, <1>3, <1>4, <1>5, <1>6 DEF FactoryInv

\* Steps that leave the factory and its callers alone.
LEMMA FactoryKept ==
  ASSUME FactoryInv, UNCHANGED <<factory, kind, runs>>, synced \subseteq synced'
  PROVE  /\ MutualExclusion' /\ Registered' /\ RunOnce'
         /\ synced' \subseteq Informers => AnswersAreTrue'
         /\ \A c \in Callers : CallerInv(c)'
<1>1. MutualExclusion' /\ Registered' /\ RunOnce'
  BY DEF FactoryInv, factory, MutualExclusion, Locked, Registered, RunOnce
<1>2. AnswersAreTrue'
  BY DEF FactoryInv, factory, AnswersAreTrue
<1>3. \A c \in Callers : CallerInv(c)'
  BY CallerKept DEF factory
<1> QED BY <1>1, <1>2, <1>3

LEMMA ListInv ==
  ASSUME FactoryInv, NEW i \in Informers, ListObjects(i)
  PROVE  FactoryInv'
<1>1. FactoryTypeOK'
  BY DEF FactoryInv, FactoryTypeOK, ListObjects, factory, environment, Listed
<1>2. StoresAreTrue'
  BY DEF FactoryInv, FactoryTypeOK, ListObjects, factory, environment, StoresAreTrue, Listed
<1> QED BY <1>1, <1>2, FactoryKept DEF FactoryInv, FactoryTypeOK, ListObjects

LEMMA WatchInv ==
  ASSUME FactoryInv, NEW i \in Informers, WatchEvent(i)
  PROVE  FactoryInv'
<1>1. PICK o \in ObjectNames :
        indexer' = [indexer EXCEPT ![i] = IF o \in Watched(kind[i]) THEN @ \union {o} ELSE @ \ {o}]
  BY DEF WatchEvent
<1>2. FactoryTypeOK'
  BY <1>1 DEF FactoryInv, FactoryTypeOK, WatchEvent, factory, environment
<1>3. StoresAreTrue'
  BY <1>1 DEF FactoryInv, FactoryTypeOK, WatchEvent, factory, environment, StoresAreTrue, Listed, Watched
<1> QED BY <1>2, <1>3, FactoryKept DEF FactoryInv, FactoryTypeOK, WatchEvent

LEMMA HaltInv ==
  ASSUME FactoryInv, NEW i \in Informers, Halt(i)
  PROVE  FactoryInv'
<1>1. FactoryTypeOK' /\ StoresAreTrue'
  BY DEF FactoryInv, FactoryTypeOK, Halt, factory, environment, StoresAreTrue, Listed
<1> QED BY <1>1, FactoryKept DEF FactoryInv, FactoryTypeOK, Halt

LEMMA AddInv ==
  ASSUME FactoryInv, NEW t \in Types, NEW o \in ObjectNames, AddObject(t, o)
  PROVE  FactoryInv'
<1>1. FactoryTypeOK'
  BY DEF FactoryInv, FactoryTypeOK, AddObject, factory, informerVars
<1>2. StoresAreTrue'
  BY DEF FactoryInv, FactoryTypeOK, AddObject, factory, informerVars, StoresAreTrue, Listed
<1> QED BY <1>1, <1>2, FactoryKept DEF FactoryInv, FactoryTypeOK, AddObject, informerVars

LEMMA RemoveInv ==
  ASSUME FactoryInv, NEW t \in Types, NEW o \in ObjectNames, RemoveObject(t, o)
  PROVE  FactoryInv'
<1>1. FactoryTypeOK'
  BY DEF FactoryInv, FactoryTypeOK, RemoveObject, factory
<1>2. StoresAreTrue'
  BY DEF FactoryInv, FactoryTypeOK, RemoveObject, factory, StoresAreTrue, Listed
<1> QED BY <1>1, <1>2, FactoryKept DEF FactoryInv, FactoryTypeOK, RemoveObject

LEMMA CloseInv ==
  ASSUME FactoryInv, NEW ch \in Channels, CloseChannel(ch)
  PROVE  FactoryInv'
<1>1. FactoryTypeOK' /\ StoresAreTrue'
  BY DEF FactoryInv, FactoryTypeOK, CloseChannel, factory, informerVars, StoresAreTrue, Listed
<1> QED BY <1>1, FactoryKept DEF FactoryInv, FactoryTypeOK, CloseChannel, informerVars

\* A wait that answers has an informer before it that Start has run.
LEMMA WaitStepInv ==
  ASSUME FactoryInv, NEW c \in Callers,
         PollSynced(c) \/ PollStopped(c) \/ \E t \in Types : WaitImmediately(c, t)
  PROVE  FactoryInv'
<1>1. CASE PollSynced(c)
  <2>1. At(c, "poll") /\ call[c].type \in Types
    BY <1>1 DEF PollSynced, FactoryInv, CallerInv, Polling
  <2> QED BY <1>1, <2>1, AnswerInv DEF PollSynced
<1>2. CASE PollStopped(c)
  <2>1. At(c, "poll") /\ call[c].type \in Types
    BY <1>2 DEF PollStopped, FactoryInv, CallerInv, Polling
  <2> QED BY <1>2, <2>1, AnswerInv DEF PollStopped
<1>3. ASSUME NEW t \in Types, WaitImmediately(c, t) PROVE FactoryInv'
  BY <1>3, AnswerInv DEF WaitImmediately
<1> QED BY <1>1, <1>2, <1>3

LEMMA FactoryStutters ==
  ASSUME FactoryInv, UNCHANGED factoryVars
  PROVE  FactoryInv'
<1>1. FactoryTypeOK' /\ StoresAreTrue'
  BY DEF FactoryInv, factoryVars, FactoryTypeOK, StoresAreTrue, Listed
<1> QED BY <1>1, FactoryKept DEF FactoryInv, factoryVars, factory, FactoryTypeOK

LEMMA FactoryStepInv ==
  ASSUME FactoryInv, [FactoryNext]_factoryVars
  PROVE  FactoryInv'
<1>1. ASSUME NEW c \in Callers, CallerStep(c) PROVE FactoryInv'
  BY <1>1, FoundInv, MakeInv, RegisterInv, EndStartInv, EndWaitInv, LaunchInv, SkipInv,
     PollInv, WaitStepInv DEF CallerStep
<1>2. ASSUME NEW c \in Callers, CallerCalls(c) PROVE FactoryInv'
  BY <1>2, InformerForInv, StartInv, WaitInv DEF CallerCalls
<1>3. ASSUME NEW i \in Informers, InformerStep(i) PROVE FactoryInv'
  BY <1>3, ListInv, WatchInv, HaltInv DEF InformerStep
<1>4. CASE EnvironmentStep
  BY <1>4, AddInv, RemoveInv, CloseInv DEF EnvironmentStep
<1>5. CASE UNCHANGED factoryVars
  BY <1>5, FactoryStutters
<1> QED BY <1>1, <1>2, <1>3, <1>4, <1>5 DEF FactoryNext

\* The inductive invariant of the factory, whatever number of types, callers,
\* informers and channels there is.
THEOREM FactoryInvariance == FactorySpec => []FactoryInv
<1>1. FactoryInit => FactoryInv
  BY FactoryInitInv
<1>2. FactoryInv /\ [FactoryNext]_factoryVars => FactoryInv'
  BY FactoryStepInv
<1> QED BY <1>1, <1>2, PTL DEF FactorySpec

\* All callers are given the informer that is registered, and it runs with one
\* channel (factory.go, InformerFor and Start).
THEOREM OneForAll == FactorySpec => []OneInformerEach
<1>1. FactoryInv => OneInformerEach
  <2> HAVE FactoryInv
  <2>1. \A c \in Callers, t \in Types : given[c][t] \in {informers[t], None}
    <3> TAKE c \in Callers, t \in Types
    <3>1. given[c][t] # None => given[c][t] = informers[t]
      BY DEF FactoryInv, Registered
    <3> QED BY <3>1
  <2>2. \A i \in Informers : \A ch1, ch2 \in runs[i] : ch1 = ch2
    BY DEF FactoryInv, RunOnce
  <2> QED BY <2>1, <2>2 DEF OneInformerEach
<1> QED BY <1>1, FactoryInvariance, PTL

\* Where a wait has said so, the lister of a type is as full as it says
\* (factory.go, WaitForCacheSync).
THEOREM ListersAreTrue == FactorySpec => []ListerIsTrue
<1>1. FactoryInv => ListerIsTrue
  <2> SUFFICES ASSUME FactoryInv, NEW c \in Callers, NEW t \in Types,
                      res[c][t] = "synced", given[c][t] # None
               PROVE  /\ since[given[c][t]] \subseteq indexer[given[c][t]]
                      /\ indexer[given[c][t]] \subseteq Selected
    BY DEF ListerIsTrue
  <2>1. given[c][t] = informers[t] /\ informers[t] \in synced
    BY DEF FactoryInv, Registered, AnswersAreTrue
  <2> QED BY <2>1 DEF FactoryInv, FactoryTypeOK, StoresAreTrue
<1> QED BY <1>1, FactoryInvariance, PTL

\* A wait is only over when nothing is before it any more.
LEMMA EndsAWait ==
  ASSUME FactoryInv, FactoryNext, NEW c \in Callers,
         call[c].at = "wait", call'[c].at = "idle"
  PROVE  EndWait(c)
<1>0. call \in [Callers -> Calls]
  BY DEF FactoryInv, FactoryTypeOK
<1>1. ASSUME NEW d, NEW r, r.at # "idle", call' = [call EXCEPT ![d] = r]
      PROVE  FALSE
  BY <1>0, <1>1
<1>2. ASSUME NEW d \in Callers, d # c \/ ~ At(d, "wait"), call' = [call EXCEPT ![d] = Idle]
      PROVE  FALSE
  BY <1>0, <1>2 DEF At
<1>3. ASSUME NEW d \in Callers, NEW t, NEW verdict, Answer(d, t, verdict)
      PROVE  FALSE
  BY <1>0, <1>1, <1>3, AnsweredType DEF Answer
<1>4. ASSUME NEW d \in Callers, NEW t \in Types, BeginPolling(d, t)
      PROVE  FALSE
  BY <1>0, <1>1, <1>4, AsksType DEF BeginPolling
<1>5. ASSUME NEW d \in Callers, MakeInformer(d)
      PROVE  FALSE
  <2> DEFINE i == CHOOSE j \in Informers : kind[j] = None
  <2>1. call' = [call EXCEPT ![d] = Makes(call[d], i)] /\ i \in Informers
    BY <1>5 DEF MakeInformer
  <2> HIDE DEF i
  <2> QED BY <1>0, <1>1, <2>1, MakesType
<1>6. ASSUME NEW d \in Callers, NEW t \in Types, Launch(d, t) \/ SkipStarted(d, t)
      PROVE  FALSE
  <2>1. call' = [call EXCEPT ![d] = Without(call[d], t)] /\ call[d].at = "start"
    BY <1>6 DEF Launch, SkipStarted, Done, At
  <2>2. Without(call[d], t).at = "start"
    BY <1>0, <2>1, WithoutType
  <2> QED BY <1>1, <2>1, <2>2
<1>7. ASSUME NEW d \in Callers, CallerCalls(d)
      PROVE  FALSE
  <2>1. ASSUME NEW place \in {"informerFor", "start", "wait"}, NEW changes \in Calls,
               Enter(d, place, changes)
        PROVE  FALSE
    <3> DEFINE r == [changes EXCEPT !.at = place]
    <3>1. call' = [call EXCEPT ![d] = r]
      BY <2>1 DEF Enter
    <3>2. r.at = place
      BY DEF Calls
    <3> HIDE DEF r
    <3> QED BY <1>1, <3>1, <3>2
  <2>4. informers \in [Types -> Informers \union {None}] /\ Started \in [Types -> Informers \union {None}]
    BY DEF FactoryInv, FactoryTypeOK, Started
  <2>5. \A t \in Types : ~ CallInformerFor(d, t)
    BY <2>1, AboutType DEF CallInformerFor
  <2>6. \A ch \in Channels : ~ CallStart(d, ch)
    BY <2>1, <2>4, UntilType DEF CallStart
  <2>7. \A ch \in Channels : ~ CallWait(d, ch)
    BY <2>1, <2>4, UntilType DEF CallWait
  <2> QED BY <1>7, <2>5, <2>6, <2>7 DEF CallerCalls
<1>8. ASSUME NEW d \in Callers, CallerStep(d)
      PROVE  EndWait(c)
  <2>1. ~ FoundInformer(d) /\ ~ RegisterInformer(d) /\ ~ EndStart(d)
    BY <1>2 DEF FoundInformer, RegisterInformer, EndStart, LeaveCall, At
  <2>2. ~ PollSynced(d) /\ ~ PollStopped(d) /\ \A t \in Types : ~ WaitImmediately(d, t)
    BY <1>3 DEF PollSynced, PollStopped, WaitImmediately
  <2>3. EndWait(d)
    BY <1>4, <1>5, <1>6, <1>8, <2>1, <2>2 DEF CallerStep
  <2> QED BY <1>2, <2>3 DEF EndWait, LeaveCall
<1>9. ASSUME UNCHANGED call
      PROVE  FALSE
  BY <1>9
<1>10. ASSUME NEW i \in Informers, InformerStep(i) PROVE FALSE
  BY <1>9, <1>10 DEF InformerStep, ListObjects, WatchEvent, Halt, factory
<1>11. ~ EnvironmentStep
  BY <1>9 DEF EnvironmentStep, AddObject, RemoveObject, CloseChannel, factory
<1> QED BY <1>7, <1>8, <1>10, <1>11 DEF FactoryNext

\* A wait answers for every type its caller had asked for before its last Start
\* (factory.go, Start and WaitForCacheSync).
THEOREM WaitsCover == FactorySpec => WaitCovers
<1>1. FactoryInv /\ [FactoryNext]_factoryVars =>
        [\A c \in Callers :
           call[c].at = "wait" /\ call'[c].at = "idle" =>
             \A t \in due[c] : res[c][t] # "none"]_factoryVars
  <2> SUFFICES ASSUME FactoryInv, FactoryNext, NEW c \in Callers,
                      call[c].at = "wait", call'[c].at = "idle"
               PROVE  \A t \in due[c] : res[c][t] # "none"
    OBVIOUS
  <2>1. EndWait(c)
    BY EndsAWait
  <2> QED BY <2>1 DEF FactoryInv, FactoryTypeOK, CallerInv, Waiting, At, EndWait, NoInformers
<1> QED BY <1>1, FactoryInvariance, PTL DEF FactorySpec, WaitCovers
=============================================================================

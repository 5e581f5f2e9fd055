-------------------------- MODULE DeployTaskProofs --------------------------
(***************************************************************************)
(* For any tasks, images and packages: what the deploy command annotates,  *)
(* and what it leaves behind when it succeeds, is published. The central   *)
(* fact is KeptStays: a package that is published, or in the hands of a    *)
(* task, or left behind by one that failed, is one of these after every    *)
(* step, although any task may delete it.                                  *)
(***************************************************************************)
EXTENDS DeployTaskInvariants, TLAPS

Assumptions ==
  /\ Asked \in [Tasks -> RebuiltArtifacts \cup {All}]
  /\ ImageOf \in [RebuiltArtifacts -> Images \cup {Nothing}]
  /\ DigestOf \in [Images -> Digests]
  /\ Contains \in [Digests -> SUBSET Packages]
  /\ Nothing \notin Images \cup Digests \cup Packages

\* The assumptions on the constants, as one fact.
LEMMA AssumptionsHold == Assumptions
  BY AskedType, ImageOfType, DigestOfType, ContainsType, NothingType DEF Assumptions

-----------------------------------------------------------------------------
(* Types.                                                                  *)

\* A task that ends early keeps its type.
LEMMA BrokenType ==
  ASSUME NEW t \in Tasks, task[t] \in TaskStates
  PROVE  /\ Broken(t) \in TaskStates
         /\ Broken(t).pc = "False"
         /\ Broken(t).pkg = task[t].pkg
         /\ Broken(t).dir = task[t].dir
         /\ \A r \in RebuiltArtifacts : Broken(t).listed[r] = "gone"
  BY DEF Broken, NewTask, TaskStates, Annotations

\* The type invariant holds at the start.
LEMMA TypesInit == Init => TypeOK
<1> SUFFICES ASSUME Init PROVE TypeOK
  OBVIOUS
<1>1. NewTask \in TaskStates /\ NewTask.pc = "start"
  BY DEF NewTask, TaskStates, Annotations
<1>2. mishaps \in [Mishaps -> Nat]
  BY MishapsType DEF Init
<1>3. annotation \in [RebuiltArtifacts -> Annotations]
  BY DEF Init, Annotations
<1>4. repository \in [Packages -> [Files -> Digests \cup {Nothing}]]
  BY DEF Init
<1> QED
  BY <1>1, <1>2, <1>3, <1>4 DEF Init, TypeOK

\* A step of task t changes no other task, and leaves t well-typed.
LEMMA StepTypes ==
  ASSUME TypeOK, NEW t \in Tasks, Step(t)
  PROVE  /\ task' \in [Tasks -> TaskStates]
         /\ \A u \in Tasks \ {t} : task'[u] = task[u]
         /\ task'[t].pc \in {"walk", "upload", "mark"} => task'[t].image \in Images
         /\ task'[t].pc = "upload" => task'[t].pkg \in Packages
<1> DEFINE Goal ==
      /\ task' \in [Tasks -> TaskStates]
      /\ \A u \in Tasks \ {t} : task'[u] = task[u]
      /\ task'[t].pc \in {"walk", "upload", "mark"} => task'[t].image \in Images
      /\ task'[t].pc = "upload" => task'[t].pkg \in Packages
<1> USE AssumptionsHold DEF Assumptions
<1>t. /\ task \in [Tasks -> TaskStates]
      /\ task[t] \in TaskStates
      /\ task[t].pc \in {"walk", "upload", "mark"} => task[t].image \in Images
      /\ task[t].pc = "upload" => task[t].pkg \in Packages
  BY DEF TypeOK
<1>b. ASSUME task' = [task EXCEPT ![t] = Broken(t)] PROVE Goal
  BY <1>b, <1>t, BrokenType
<1>1. CASE List(t)
  <2>1. task[t].listed \in [RebuiltArtifacts -> Annotations]
    BY <1>t DEF TaskStates
  <2>2. annotation \in [RebuiltArtifacts -> Annotations]
    BY DEF TypeOK
  <2> DEFINE seen == [r \in RebuiltArtifacts |->
                        IF Asked[t] \in {All, r} THEN annotation[r] ELSE "gone"]
  <2>3. seen \in [RebuiltArtifacts -> Annotations]
    BY <2>2 DEF Annotations
  <2> DEFINE images == {ImageOf[r] : r \in {q \in RebuiltArtifacts :
                          seen[q] # "gone" /\ ImageOf[q] \in Images}}
  <2>4. images \in SUBSET Images
    OBVIOUS
  <2>5. task' = [task EXCEPT ![t].pc = "images", ![t].listed = seen, ![t].todo = images]
    BY <1>1 DEF List
  <2> HIDE DEF seen, images
  <2> QED
    BY <1>t, <2>3, <2>4, <2>5 DEF TaskStates
<1>2. ASSUME NEW i \in task[t].todo, SkipImage(t, i) PROVE Goal
  BY <1>2, <1>t DEF SkipImage, TakeImage, TaskStates
<1>3. ASSUME NEW i \in task[t].todo, PullImage(t, i) PROVE Goal
  <2>1. i \in Images /\ DigestOf[i] \in Digests /\ Contains[DigestOf[i]] \in SUBSET Packages
    BY <1>3, <1>t DEF TaskStates
  <2> QED
    BY <1>3, <1>t, <2>1 DEF PullImage, TakeImage, TaskStates
<1>4. ASSUME NEW i \in task[t].todo, UseDirectory(t, i) PROVE Goal
  <2>1. i \in Images /\ DigestOf[i] \in Digests /\ Contains[DigestOf[i]] \in SUBSET Packages
    BY <1>4, <1>t DEF TaskStates
  <2> QED
    BY <1>4, <1>t, <2>1 DEF UseDirectory, TakeImage, TaskStates
<1>5. ASSUME NEW i \in task[t].todo, NoArtifacts(t, i) PROVE Goal
  BY <1>5, <1>b DEF NoArtifacts
<1>6. ASSUME NEW i \in task[t].todo, ImageMissing(t, i) PROVE Goal
  <2>1. i \in Images /\ task[t].pc = "images"
    BY <1>6, <1>t DEF ImageMissing, TakeImage, TaskStates
  <2>2. task' = [task EXCEPT ![t].todo = @ \ {i}, ![t].unpulled = @ \cup {i}]
    BY <1>6 DEF ImageMissing
  <2> DEFINE after == [task[t] EXCEPT !.todo = @ \ {i}, !.unpulled = @ \cup {i}]
  <2>3. after \in TaskStates /\ after.pc = "images"
    BY <1>t, <2>1 DEF TaskStates
  <2>4. task' = [task EXCEPT ![t] = after]
    BY <2>2
  <2> HIDE DEF after
  <2> QED
    BY <1>t, <2>3, <2>4
<1>7. ASSUME NEW i \in task[t].todo, LayerMissing(t, i) PROVE Goal
  <2>1. i \in Images /\ DigestOf[i] \in Digests
    BY <1>7, <1>t DEF TaskStates
  <2> QED
    BY <1>7, <1>t, <2>1 DEF LayerMissing, TakeImage, TaskStates
<1>8. ASSUME NEW p \in task[t].walk, Visit(t, p) PROVE Goal
  <2>1. p \in Packages /\ task[t].pc = "walk" /\ task[t].image \in Images
    BY <1>8, <1>t DEF Visit, TaskStates
  <2>2. task' = [task EXCEPT ![t].pc = "upload", ![t].walk = @ \ {p},
                             ![t].pkg = p, ![t].files = Files]
    BY <1>8 DEF Visit
  <2> QED
    BY <1>t, <2>1, <2>2 DEF TaskStates
<1>9. ASSUME NEW f \in task[t].files, UploadFile(t, f) PROVE Goal
  <2>1. task' \in [Tasks -> TaskStates] /\ \A u \in Tasks \ {t} : task'[u] = task[u]
    BY ZenonT(40), <1>9, <1>t DEF UploadFile, TaskStates
  <2>2. task'[t].image = task[t].image
    BY <1>9, <1>t DEF UploadFile, TaskStates
  <2>3. task'[t].pc = "upload" => task'[t].pkg = task[t].pkg
    BY <1>9, <1>t DEF UploadFile, TaskStates
  <2>4. task[t].pc = "upload"
    BY <1>9 DEF UploadFile
  <2> QED
    BY <1>t, <2>1, <2>2, <2>3, <2>4
<1>10. ASSUME NEW f \in task[t].files, UploadRefused(t, f) PROVE Goal
  BY <1>10, <1>b DEF UploadRefused
<1>11. CASE EndWalk(t)
  <2>1. ToMark(t) \in SUBSET RebuiltArtifacts
    BY DEF ToMark, ListedOf
  <2> QED
    BY <1>11, <1>t, <2>1 DEF EndWalk, TaskStates
<1>12. ASSUME NEW r \in task[t].marks, Mark(t, r) PROVE Goal
  BY <1>12, <1>t DEF Mark, TaskStates
<1>13. ASSUME NEW r \in task[t].marks, MarkGone(t, r) PROVE Goal
  BY <1>13, <1>b DEF MarkGone
<1>14. CASE EndImage(t)
  BY <1>14, <1>t DEF EndImage, TaskStates
<1>15. CASE Succeed(t)
  BY <1>15, <1>t DEF Succeed, TaskStates
<1>16. CASE Fail(t)
  BY <1>16, <1>b DEF Fail
<1> QED
  BY <1>1, <1>2, <1>3, <1>4, <1>5, <1>6, <1>7, <1>8, <1>9, <1>10, <1>11, <1>12,
     <1>13, <1>14, <1>15, <1>16 DEF Step, DeletePackage, DeleteNothing

\* A step keeps the types of the annotations, the repository and the budget.
LEMMA SharedTypes ==
  ASSUME TypeOK, Next
  PROVE  /\ annotation' \in [RebuiltArtifacts -> Annotations]
         /\ repository' \in [Packages -> [Files -> Digests \cup {Nothing}]]
         /\ mishaps' \in [Mishaps -> Nat]
<1> DEFINE Goal ==
      /\ annotation' \in [RebuiltArtifacts -> Annotations]
      /\ repository' \in [Packages -> [Files -> Digests \cup {Nothing}]]
      /\ mishaps' \in [Mishaps -> Nat]
<1>t. /\ annotation \in [RebuiltArtifacts -> Annotations]
      /\ repository \in [Packages -> [Files -> Digests \cup {Nothing}]]
      /\ task \in [Tasks -> TaskStates]
      /\ mishaps \in [Mishaps -> Nat]
  BY DEF TypeOK
<1>s. ASSUME NEW kind \in Mishaps, Suffer(kind) PROVE mishaps' \in [Mishaps -> Nat]
  BY <1>s, <1>t DEF Suffer
<1>v. ASSUME NEW r \in RebuiltArtifacts, Vanish(r) PROVE Goal
  BY <1>v, <1>t, <1>s DEF Vanish, Mishaps, Annotations
<1>1. ASSUME NEW t \in Tasks, UNCHANGED <<annotation, repository, mishaps>> PROVE Goal
  BY <1>1, <1>t
<1>2. ASSUME NEW kind \in Mishaps, Suffer(kind), UNCHANGED <<annotation, repository>>
      PROVE Goal
  BY <1>2, <1>t, <1>s
<1>3. ASSUME NEW t \in Tasks, NEW p \in task[t].walk, DeletePackage(t, p) PROVE Goal
  <2>1. p \in Packages
    BY <1>3, <1>t DEF TaskStates
  <2> QED
    BY <1>3, <1>t, <2>1 DEF DeletePackage
<1>4. ASSUME NEW t \in Tasks, NEW f \in task[t].files, UploadFile(t, f) PROVE Goal
  <2>1. /\ task[t].pkg \in Packages
        /\ DigestOf[task[t].image] \in Digests
        /\ f \in Files
    BY <1>4, <1>t, AssumptionsHold DEF TypeOK, UploadFile, TaskStates, Assumptions
  <2> QED
    BY <1>4, <1>t, <2>1 DEF UploadFile
<1>5. ASSUME NEW t \in Tasks, NEW r \in task[t].marks, Mark(t, r) PROVE Goal
  BY <1>5, <1>t DEF Mark, Annotations, TaskStates
<1>6. ASSUME NEW t \in Tasks, Step(t) PROVE Goal
  <2>1. CASE \E p \in task[t].walk : DeletePackage(t, p)
    BY <2>1, <1>3
  <2>2. CASE \E f \in task[t].files : UploadFile(t, f)
    BY <2>2, <1>4
  <2>3. CASE \E r \in task[t].marks : Mark(t, r)
    BY <2>3, <1>5
  <2>4. CASE \/ \E i \in task[t].todo : ImageMissing(t, i) \/ LayerMissing(t, i)
             \/ \E p \in task[t].walk : DeleteNothing(t, p)
             \/ Fail(t)
    BY <2>4, <1>2 DEF ImageMissing, LayerMissing, DeleteNothing, Fail, Mishaps
  <2>5. CASE \/ List(t) \/ EndWalk(t) \/ EndImage(t) \/ Succeed(t)
             \/ \E i \in task[t].todo :
                  SkipImage(t, i) \/ PullImage(t, i) \/ UseDirectory(t, i)
                    \/ NoArtifacts(t, i)
             \/ \E f \in task[t].files : UploadRefused(t, f)
             \/ \E r \in task[t].marks : MarkGone(t, r)
    BY <2>5, <1>1 DEF List, EndWalk, EndImage, Succeed, SkipImage, PullImage,
       UseDirectory, NoArtifacts, UploadRefused, MarkGone
  <2> QED
    BY <1>6, <2>1, <2>2, <2>3, <2>4, <2>5 DEF Step
<1> QED
  BY <1>6, <1>v DEF Next

\* Every step keeps the types.
LEMMA TypesStep == TypeOK /\ [Next]_vars => TypeOK'
<1> SUFFICES ASSUME TypeOK, [Next]_vars PROVE TypeOK'
  OBVIOUS
<1>1. CASE UNCHANGED vars
  BY <1>1 DEF vars, TypeOK
<1>2. ASSUME NEW t \in Tasks, Step(t) PROVE TypeOK'
  <2>1. Next
    BY <1>2 DEF Next
  <2> QED
    BY <1>2, <2>1, StepTypes, SharedTypes DEF TypeOK
<1>3. ASSUME NEW r \in RebuiltArtifacts, Vanish(r) PROVE TypeOK'
  <2>1. Next
    BY <1>3 DEF Next
  <2> QED
    BY <1>3, <2>1, SharedTypes DEF TypeOK, Vanish
<1> QED
  BY <1>1, <1>2, <1>3 DEF Next

\* Every variable of the deploy command keeps its type.
THEOREM DeployTypeCorrect == Spec => []TypeOK
  BY TypesInit, TypesStep, PTL DEF Spec

-----------------------------------------------------------------------------
(* What is published stays accounted for.                                  *)

\* A step of a task that has no package in its hands, and that writes none.
LEMMA QuietStep ==
  ASSUME TypeOK, NEW t \in Tasks, Step(t), repository' = repository,
         task[t].pc \notin {"upload", "False"},
         NEW p \in Packages, Kept(p)
  PROVE  Kept(p)'
<1>1. CASE Published(p)
  BY <1>1 DEF Kept, Published
<1>2. ASSUME NEW u \in Tasks, Holds(u, p) \/ LeftAt(u, p) PROVE Kept(p)'
  <2>1. u # t
    BY <1>2 DEF Holds, LeftAt
  <2>2. task'[u] = task[u]
    BY <2>1, StepTypes
  <2>3. Holds(u, p)' \/ LeftAt(u, p)'
    BY <1>2, <2>2 DEF Holds, LeftAt
  <2> QED
    BY <2>3 DEF Kept
<1> QED
  BY <1>1, <1>2 DEF Kept

\* A task that ends early remains answerable for the package it was at.
LEMMA BrokenStep ==
  ASSUME TypeOK, NEW t \in Tasks, repository' = repository,
         task' = [task EXCEPT ![t] = Broken(t)],
         NEW p \in Packages, Kept(p)
  PROVE  Kept(p)'
<1>t. task \in [Tasks -> TaskStates]
  BY DEF TypeOK
<1>1. CASE Published(p)
  BY <1>1 DEF Kept, Published
<1>2. ASSUME NEW u \in Tasks, Holds(u, p) \/ LeftAt(u, p) PROVE Kept(p)'
  <2>1. CASE u = t
    <3>1. task'[t].pc = "False" /\ task'[t].pkg = task[t].pkg
      BY <1>t, BrokenType
    <3>2. LeftAt(t, p)'
      BY <1>2, <2>1, <3>1 DEF Holds, LeftAt
    <3> QED
      BY <3>2 DEF Kept
  <2>2. CASE u # t
    <3>1. task'[u] = task[u]
      BY <2>2, <1>t
    <3>2. Holds(u, p)' \/ LeftAt(u, p)'
      BY <1>2, <3>1 DEF Holds, LeftAt
    <3> QED
      BY <3>2 DEF Kept
  <2> QED
    BY <2>1, <2>2
<1> QED
  BY <1>1, <1>2 DEF Kept

\* A task that comes to a package has it in its hands, deleted or not.
LEMMA VisitTakesHold ==
  ASSUME TypeOK, NEW t \in Tasks, NEW p \in task[t].walk, Visit(t, p)
  PROVE  /\ Holds(t, p)'
         /\ task[t].pc = "walk"
         /\ p \in Packages
<1>t. task \in [Tasks -> TaskStates] /\ task[t] \in TaskStates
  BY DEF TypeOK
<1>1. task'[t].pc = "upload" /\ task'[t].pkg = p /\ task'[t].files = Files
  BY <1>t DEF Visit, TaskStates
<1> QED
  BY <1>1, <1>t DEF Holds, Visit, TaskStates

\* Deleting p takes nothing from the other packages, and p is in hand after it.
LEMMA DeleteKeeps ==
  ASSUME TypeOK, NEW t \in Tasks, NEW d \in task[t].walk, DeletePackage(t, d),
         NEW p \in Packages, Kept(p)
  PROVE  Kept(p)'
<1>1. Holds(t, d)' /\ task[t].pc = "walk" /\ d \in Packages
  BY VisitTakesHold DEF DeletePackage
<1>2. CASE p = d
  BY <1>1, <1>2 DEF Kept
<1>3. CASE p # d
  <2>1. repository'[p] = repository[p]
    BY <1>1, <1>3 DEF DeletePackage, TypeOK
  <2>2. CASE Published(p)
    BY <2>1, <2>2 DEF Kept, Published
  <2>3. ASSUME NEW u \in Tasks, Holds(u, p) \/ LeftAt(u, p) PROVE Kept(p)'
    <3>1. u # t
      BY <2>3, <1>1 DEF Holds, LeftAt
    <3>2. Step(t)
      BY DEF Step
    <3>3. task'[u] = task[u]
      BY <3>1, <3>2, StepTypes
    <3>4. Holds(u, p)' \/ LeftAt(u, p)'
      BY <2>3, <2>1, <3>3 DEF Holds, LeftAt
    <3> QED
      BY <3>4 DEF Kept
  <2> QED
    BY <2>2, <2>3 DEF Kept
<1> QED
  BY <1>2, <1>3

\* An upload changes no file that is there, whoever put it there, as the
\* repository refuses that; and the last one completes the package.
LEMMA UploadKeeps ==
  ASSUME TypeOK, NEW t \in Tasks, NEW f \in task[t].files, UploadFile(t, f),
         NEW p \in Packages, Kept(p)
  PROVE  Kept(p)'
<1> USE AssumptionsHold DEF Assumptions
<1> DEFINE q == task[t].pkg
           e == DigestOf[task[t].image]
<1>t. /\ task \in [Tasks -> TaskStates]
      /\ task[t] \in TaskStates
      /\ repository \in [Packages -> [Files -> Digests \cup {Nothing}]]
  BY DEF TypeOK
<1>u. task[t].pc = "upload" /\ q \in Packages /\ e \in Digests /\ f \in Files
  BY <1>t DEF TypeOK, UploadFile, TaskStates
<1>r. repository[q][f] \in {Nothing, e} /\ repository' = [repository EXCEPT ![q][f] = e]
  BY DEF UploadFile, Refused
<1>g. \A r \in Packages, g \in Files :
        repository[r][g] # Nothing => repository'[r][g] = repository[r][g]
  BY <1>t, <1>u, <1>r
<1>e. repository'[q][f] = e
  BY <1>t, <1>u, <1>r
<1>n. e # Nothing
  BY <1>u
<1>i. /\ task'[t].image = task[t].image
      /\ task'[t].files = task[t].files \ {f}
      /\ task[t].files # {f} => task'[t].pc = "upload" /\ task'[t].pkg = q
  BY <1>t DEF UploadFile, TaskStates
<1>1. CASE Published(p)
  <2>1. PICK a \in Digests : \A g \in Files : repository[p][g] = a
    BY <1>1 DEF Published
  <2>2. a # Nothing
    BY <2>1
  <2>3. \A g \in Files : repository'[p][g] = a
    BY <2>1, <2>2, <1>g
  <2> QED
    BY <2>3 DEF Kept, Published
<1>2. CASE Holds(t, p)
  <2>1. p = q /\ \A g \in Files \ task[t].files : repository[q][g] = e
    BY <1>2 DEF Holds
  <2>2. \A g \in Files \ (task[t].files \ {f}) : repository'[q][g] = e
    BY <2>1, <1>g, <1>e, <1>n, <1>u
  <2>3. CASE task[t].files = {f}
    <3>1. \A g \in Files : repository'[q][g] = e
      BY <2>2, <2>3
    <3> QED
      BY <3>1, <2>1, <1>u DEF Kept, Published
  <2>4. CASE task[t].files # {f}
    <3>1. Holds(t, p)'
      BY <2>4, <2>1, <2>2, <1>i DEF Holds
    <3> QED
      BY <3>1 DEF Kept
  <2> QED
    BY <2>3, <2>4
<1>3. ASSUME NEW u \in Tasks, u # t, Holds(u, p) \/ LeftAt(u, p) PROVE Kept(p)'
  <2>1. Step(t)
    BY DEF Step
  <2>2. task'[u] = task[u]
    BY <1>3, <2>1, StepTypes
  <2>3. CASE LeftAt(u, p)
    <3>1. LeftAt(u, p)'
      BY <2>2, <2>3 DEF LeftAt
    <3> QED
      BY <3>1 DEF Kept
  <2>4. CASE Holds(u, p)
    <3>1. task[u].image \in Images
      BY <2>4 DEF Holds, TypeOK
    <3>2. DigestOf[task[u].image] # Nothing
      BY <3>1
    <3>3. Holds(u, p)'
      BY <2>2, <2>4, <3>2, <1>g DEF Holds
    <3> QED
      BY <3>3 DEF Kept
  <2> QED
    BY <1>3, <2>3, <2>4
<1>4. ~LeftAt(t, p)
  BY <1>u DEF LeftAt
<1> QED
  BY <1>1, <1>2, <1>3, <1>4 DEF Kept

\* Every step keeps what is accounted for accounted for.
LEMMA KeptStays ==
  ASSUME TypeOK, [Next]_vars, NEW p \in Packages, Kept(p)
  PROVE  Kept(p)'
<1>1. CASE UNCHANGED <<repository, task>>
  BY <1>1 DEF Kept, Published, Holds, LeftAt
<1>2. ASSUME NEW t \in Tasks, Step(t) PROVE Kept(p)'
  <2>1. CASE \E d \in task[t].walk : DeletePackage(t, d)
    BY <2>1, DeleteKeeps
  <2>2. CASE \E f \in task[t].files : UploadFile(t, f)
    BY <2>2, UploadKeeps
  <2>3. CASE \/ \E i \in task[t].todo : NoArtifacts(t, i)
             \/ \E f \in task[t].files : UploadRefused(t, f)
             \/ \E r \in task[t].marks : MarkGone(t, r)
             \/ Fail(t)
    BY <2>3, BrokenStep DEF NoArtifacts, UploadRefused, MarkGone, Fail
  <2>4. CASE \/ List(t) \/ EndWalk(t) \/ EndImage(t) \/ Succeed(t)
             \/ \E i \in task[t].todo :
                  \/ SkipImage(t, i) \/ PullImage(t, i) \/ UseDirectory(t, i)
                  \/ ImageMissing(t, i) \/ LayerMissing(t, i)
             \/ \E d \in task[t].walk : DeleteNothing(t, d)
             \/ \E r \in task[t].marks : Mark(t, r)
    <3>1. repository' = repository /\ task[t].pc \notin {"upload", "False"}
      BY <2>4 DEF List, EndWalk, EndImage, Succeed, SkipImage, PullImage, UseDirectory,
         ImageMissing, LayerMissing, TakeImage, DeleteNothing, Visit, Mark
    <3> QED
      BY <1>2, <3>1, QuietStep
  <2> QED
    BY <1>2, <2>1, <2>2, <2>3, <2>4 DEF Step
<1>3. ASSUME NEW r \in RebuiltArtifacts, Vanish(r) PROVE Kept(p)'
  BY <1>3, <1>1 DEF Vanish
<1> QED
  BY <1>1, <1>2, <1>3 DEF Next, vars

\* A directory that was not filled stays so.
LEMMA PartStays ==
  ASSUME TypeOK, [Next]_vars, NEW e \in Digests, InPart(e)
  PROVE  InPart(e)'
<1>t. task \in [Tasks -> TaskStates]
  BY DEF TypeOK
<1>1. PICK u \in Tasks : task[u].dir[e] = "part"
  BY DEF InPart
<1>2. CASE UNCHANGED task
  BY <1>1, <1>2 DEF InPart
<1>3. ASSUME NEW t \in Tasks, Step(t), t # u PROVE InPart(e)'
  BY <1>1, <1>3, StepTypes DEF InPart
<1>4. ASSUME Step(u) PROVE task'[u].dir[e] = "part"
  <2>t. task[u] \in TaskStates
    BY <1>t
  <2>1. CASE task' = [task EXCEPT ![u] = Broken(u)]
    BY <1>1, <1>t, <2>1, BrokenType
  <2>2. ASSUME NEW i \in task[u].todo, PullImage(u, i) PROVE task'[u].dir[e] = "part"
    <3>1. i \in Images /\ DigestOf[i] \in Digests /\ DigestOf[i] # e
      BY <1>1, <2>2, <2>t, AssumptionsHold DEF PullImage, TaskStates, Assumptions
    <3> QED
      BY <1>1, <1>t, <2>t, <2>2, <3>1 DEF PullImage, TaskStates
  <2>3. ASSUME NEW i \in task[u].todo, LayerMissing(u, i) PROVE task'[u].dir[e] = "part"
    <3>1. i \in Images /\ DigestOf[i] \in Digests /\ DigestOf[i] # e
      BY <1>1, <2>3, <2>t, AssumptionsHold DEF LayerMissing, TaskStates, Assumptions
    <3> QED
      BY <1>1, <1>t, <2>t, <2>3, <3>1 DEF LayerMissing, TaskStates
  <2>4. CASE \/ List(u) \/ EndWalk(u) \/ EndImage(u) \/ Succeed(u)
             \/ \E i \in task[u].todo :
                  SkipImage(u, i) \/ UseDirectory(u, i) \/ ImageMissing(u, i)
             \/ \E p \in task[u].walk : Visit(u, p)
             \/ \E f \in task[u].files : UploadFile(u, f)
             \/ \E r \in task[u].marks : Mark(u, r)
    <3>0. CASE List(u)
      BY <1>1, <1>t, <2>t, <3>0 DEF List, TaskStates
    <3>1. CASE EndWalk(u) \/ EndImage(u) \/ Succeed(u)
      BY <1>1, <1>t, <2>t, <3>1 DEF EndWalk, EndImage, Succeed, TaskStates
    <3>2. ASSUME NEW i \in task[u].todo,
                 SkipImage(u, i) \/ UseDirectory(u, i) \/ ImageMissing(u, i)
          PROVE  task'[u].dir[e] = "part"
      BY <1>1, <1>t, <2>t, <3>2 DEF SkipImage, UseDirectory, ImageMissing, TaskStates
    <3>3. ASSUME NEW p \in task[u].walk, Visit(u, p) PROVE task'[u].dir[e] = "part"
      BY <1>1, <1>t, <2>t, <3>3 DEF Visit, TaskStates
    <3>4. ASSUME NEW f \in task[u].files, UploadFile(u, f) PROVE task'[u].dir[e] = "part"
      BY <1>1, <1>t, <2>t, <3>4 DEF UploadFile, TaskStates
    <3>5. ASSUME NEW r \in task[u].marks, Mark(u, r) PROVE task'[u].dir[e] = "part"
      BY <1>1, <1>t, <2>t, <3>5 DEF Mark, TaskStates
    <3> QED
      BY <2>4, <3>0, <3>1, <3>2, <3>3, <3>4, <3>5
  <2> QED
    BY <1>4, <2>1, <2>2, <2>3, <2>4 DEF Step, NoArtifacts, UploadRefused, MarkGone, Fail,
       DeletePackage, DeleteNothing
<1> QED
  BY <1>2, <1>3, <1>4 DEF InPart, Next, vars, Vanish

\* A digest whose packages are accounted for remains so.
LEMMA SafeStays ==
  ASSUME TypeOK, [Next]_vars, NEW e \in Digests, Safe(e)
  PROVE  Safe(e)'
  BY PartStays, KeptStays, AssumptionsHold DEF Safe, Assumptions

\* And so does an artifact.
LEMMA SafeImageStays ==
  ASSUME TypeOK, [Next]_vars, NEW r \in RebuiltArtifacts, SafeImage(r)
  PROVE  SafeImage(r)'
<1>1. ImageOf[r] \in Images => DigestOf[ImageOf[r]] \in Digests
  BY AssumptionsHold DEF Assumptions
<1> QED
  BY <1>1, SafeStays DEF SafeImage

-----------------------------------------------------------------------------
(* The invariant.                                                          *)

\* The invariant holds at the start.
LEMMA DeployInit == Init => DeployInv
<1> SUFFICES ASSUME Init PROVE DeployInv
  OBVIOUS
<1>1. TypeOK
  BY TypesInit
<1>2. \A t \in Tasks : /\ task[t].pc = "start"
                       /\ \A r \in RebuiltArtifacts : task[t].listed[r] = "gone"
  BY DEF Init, NewTask
<1>3. CurrentIsSafe
  BY DEF Init, CurrentIsSafe, SafeImage, Safe, Kept
<1> QED
  BY <1>1, <1>2, <1>3 DEF DeployInv, WalkedIsKept, PhasesAreOver, ListedIsSafe, DoneIsSafe,
     AtImage

\* When the walk of a task is over, the digest of its image is safe.
LEMMA WalkOverIsSafe ==
  ASSUME TypeOK, WalkedIsKept, NEW t \in Tasks, AtImage(t), task[t].walk = {}
  PROVE  Safe(DigestOf[task[t].image])
  BY DEF WalkedIsKept, Safe

\* A task walks all packages of its image, and what it has walked is kept.
LEMMA WalkedStep ==
  ASSUME TypeOK, [Next]_vars, WalkedIsKept
  PROVE  WalkedIsKept'
<1> USE AssumptionsHold DEF Assumptions
<1> DEFINE Walked(u) ==
      AtImage(u) =>
        \/ InPart(DigestOf[task[u].image])
        \/ \A p \in Contains[DigestOf[task[u].image]] : p \in task[u].walk \/ Kept(p)
<1>t. task \in [Tasks -> TaskStates]
  BY DEF TypeOK
<1>d. ASSUME NEW u \in Tasks, AtImage(u)
      PROVE  /\ DigestOf[task[u].image] \in Digests
             /\ Contains[DigestOf[task[u].image]] \subseteq Packages
  BY <1>d DEF TypeOK, AtImage
<1>s. ASSUME NEW u \in Tasks, AtImage(u), task'[u].image = task[u].image,
             \A p \in task[u].walk : p \in task'[u].walk \/ Kept(p)'
      PROVE  Walked(u)'
  BY <1>s, <1>d, PartStays, KeptStays DEF WalkedIsKept
<1>1. ASSUME NEW u \in Tasks, task'[u] = task[u] PROVE Walked(u)'
  BY <1>1, <1>s DEF AtImage
<1>2. ASSUME NEW t \in Tasks, Step(t) PROVE Walked(t)'
  <2>t. task[t] \in TaskStates
    BY <1>t
  <2>1. ASSUME NEW i \in task[t].todo, PullImage(t, i) PROVE Walked(t)'
    <3>1. task'[t].image = i /\ task'[t].walk = Contains[DigestOf[i]]
      BY <1>t, <2>t, <2>1 DEF PullImage, TaskStates
    <3> QED
      BY <3>1
  <2>2. ASSUME NEW i \in task[t].todo, UseDirectory(t, i) PROVE Walked(t)'
    <3>1. task'[t].image = i /\ task'[t].dir = task[t].dir
      BY <1>t, <2>t, <2>2 DEF UseDirectory, TaskStates
    <3>2. task[t].dir[DigestOf[i]] = "part" \/ task'[t].walk = Contains[DigestOf[i]]
      BY <1>t, <2>t, <2>2 DEF UseDirectory, TaskStates
    <3>3. task[t].dir[DigestOf[i]] = "part" => InPart(DigestOf[task[t].image])'
      BY <3>1 DEF InPart
    <3> QED
      BY <3>1, <3>2, <3>3
  <2>3. ASSUME NEW p \in task[t].walk, DeletePackage(t, p) \/ DeleteNothing(t, p)
        PROVE  Walked(t)'
    <3>1. Visit(t, p)
      BY <2>3 DEF DeletePackage, DeleteNothing
    <3>2. Holds(t, p)' /\ AtImage(t)
      BY <3>1, VisitTakesHold DEF AtImage
    <3>3. task'[t].image = task[t].image /\ task'[t].walk = task[t].walk \ {p}
      BY <1>t, <2>t, <3>1 DEF Visit, TaskStates
    <3>4. Kept(p)'
      BY <3>2 DEF Kept
    <3> QED
      BY <3>2, <3>3, <3>4, <1>s
  <2>4. CASE \/ EndWalk(t)
             \/ \E f \in task[t].files : UploadFile(t, f)
             \/ \E r \in task[t].marks : Mark(t, r)
    <3> DEFINE Same == /\ AtImage(t)
                       /\ task'[t].image = task[t].image
                       /\ task'[t].walk = task[t].walk
    <3>1. ASSUME EndWalk(t) PROVE Same
      BY <1>t, <2>t, <3>1 DEF EndWalk, AtImage, TaskStates
    <3>2. ASSUME NEW f \in task[t].files, UploadFile(t, f) PROVE Same
      BY <1>t, <2>t, <3>2 DEF UploadFile, AtImage, TaskStates
    <3>3. ASSUME NEW r \in task[t].marks, Mark(t, r) PROVE Same
      BY <1>t, <2>t, <3>3 DEF Mark, AtImage, TaskStates
    <3>4. Same
      BY <2>4, <3>1, <3>2, <3>3
    <3> QED
      BY <3>4, <1>s
  <2>5. CASE task' = [task EXCEPT ![t] = Broken(t)]
    BY <1>t, <2>5, BrokenType DEF AtImage
  <2>6. CASE \/ List(t) \/ EndImage(t) \/ Succeed(t)
             \/ \E i \in task[t].todo :
                  SkipImage(t, i) \/ ImageMissing(t, i) \/ LayerMissing(t, i)
    <3>0. ASSUME List(t) PROVE ~AtImage(t)'
      BY <1>t, <2>t, <3>0 DEF List, AtImage, TaskStates
    <3>1. ASSUME EndImage(t) \/ Succeed(t) PROVE ~AtImage(t)'
      BY <1>t, <2>t, <3>1 DEF EndImage, Succeed, AtImage, TaskStates
    <3>2. ASSUME NEW i \in task[t].todo,
                 SkipImage(t, i) \/ ImageMissing(t, i) \/ LayerMissing(t, i)
          PROVE  ~AtImage(t)'
      BY <1>t, <2>t, <3>2 DEF SkipImage, ImageMissing, LayerMissing, TakeImage, AtImage,
         TaskStates
    <3> QED
      BY <2>6, <3>0, <3>1, <3>2
  <2> QED
    BY <1>2, <2>1, <2>2, <2>3, <2>4, <2>5, <2>6
       DEF Step, NoArtifacts, UploadRefused, MarkGone, Fail
<1>3. ASSUME NEW t \in Tasks, Step(t), NEW u \in Tasks PROVE Walked(u)'
  BY <1>1, <1>2, <1>3, StepTypes
<1>4. ASSUME UNCHANGED task, NEW u \in Tasks PROVE Walked(u)'
  BY <1>1, <1>4
<1> QED
  BY <1>3, <1>4 DEF WalkedIsKept, Next, vars, Vanish

\* A task that annotates has finished its walk, and annotates its own image; one
\* that succeeds has no image left.
LEMMA PhasesStep ==
  ASSUME TypeOK, [Next]_vars, PhasesAreOver
  PROVE  PhasesAreOver'
<1> DEFINE Over(u) ==
      /\ task[u].pc = "mark" =>
           /\ task[u].walk = {}
           /\ \A r \in task[u].marks : ImageOf[r] = task[u].image
      /\ task[u].pc = "True" => task[u].todo = {}
<1>t. task \in [Tasks -> TaskStates]
  BY DEF TypeOK
<1>1. ASSUME NEW u \in Tasks, task'[u] = task[u] PROVE Over(u)'
  BY <1>1 DEF PhasesAreOver
<1>2. ASSUME NEW t \in Tasks, Step(t) PROVE Over(t)'
  <2>t. task[t] \in TaskStates
    BY <1>t
  <2>1. CASE EndWalk(t)
    BY <1>t, <2>t, <2>1 DEF EndWalk, ToMark, ListedOf, TaskStates
  <2>2. ASSUME NEW r \in task[t].marks, Mark(t, r) PROVE Over(t)'
    <3>1. /\ task'[t].walk = task[t].walk /\ task'[t].image = task[t].image
          /\ task'[t].marks \subseteq task[t].marks /\ task[t].pc = "mark"
          /\ task'[t].pc = "mark"
      BY <1>t, <2>t, <2>2 DEF Mark, TaskStates
    <3> QED
      BY <3>1 DEF PhasesAreOver
  <2>3. CASE task' = [task EXCEPT ![t] = Broken(t)]
    BY <1>t, <2>3, BrokenType
  <2>4. CASE List(t)
    BY <1>t, <2>t, <2>4 DEF List, TaskStates
  <2>5. CASE EndImage(t)
    BY <1>t, <2>t, <2>5 DEF EndImage, TaskStates
  <2>10. CASE Succeed(t)
    <3>1. task'[t].pc = "True" /\ task'[t].todo = task[t].todo /\ task[t].todo = {}
      BY <1>t, <2>t, <2>10 DEF Succeed, TaskStates
    <3> QED
      BY <3>1
  <2>6. ASSUME NEW i \in task[t].todo, PullImage(t, i) \/ UseDirectory(t, i)
        PROVE  task'[t].pc = "walk"
    BY <1>t, <2>t, <2>6 DEF PullImage, UseDirectory, TaskStates
  <2>7. ASSUME NEW i \in task[t].todo,
               SkipImage(t, i) \/ ImageMissing(t, i) \/ LayerMissing(t, i)
        PROVE  task'[t].pc = "images"
    BY <1>t, <2>t, <2>7 DEF SkipImage, ImageMissing, LayerMissing, TakeImage, TaskStates
  <2>8. ASSUME NEW p \in task[t].walk, Visit(t, p) PROVE task'[t].pc = "upload"
    BY <1>t, <2>t, <2>8 DEF Visit, TaskStates
  <2>9. ASSUME NEW f \in task[t].files, UploadFile(t, f) PROVE task'[t].pc \notin {"mark", "True"}
    BY <1>t, <2>t, <2>9 DEF UploadFile, TaskStates
  <2> QED
    BY <1>2, <2>1, <2>2, <2>3, <2>4, <2>5, <2>6, <2>7, <2>8, <2>9, <2>10
       DEF Step, NoArtifacts, UploadRefused, MarkGone, Fail, DeletePackage, DeleteNothing
<1>3. ASSUME NEW t \in Tasks, Step(t), NEW u \in Tasks PROVE Over(u)'
  BY <1>1, <1>2, <1>3, StepTypes
<1> QED
  BY <1>1, <1>3 DEF PhasesAreOver, Next, vars, Vanish

\* An artifact is annotated only behind the walk of its image, and what is
\* annotated stays safe.
LEMMA CurrentStep ==
  ASSUME DeployInv, [Next]_vars
  PROVE  CurrentIsSafe'
<1> USE DEF DeployInv
<1>1. ASSUME NEW r \in RebuiltArtifacts, annotation'[r] = "current" PROVE SafeImage(r)
  <2>t. /\ annotation \in [RebuiltArtifacts -> Annotations]
        /\ task \in [Tasks -> TaskStates]
    BY DEF TypeOK
  <2>1. CASE annotation[r] = "current"
    BY <2>1 DEF CurrentIsSafe
  <2>2. CASE annotation[r] # "current"
    <3>1. PICK t \in Tasks : Mark(t, r)
      <4>1. ~ UNCHANGED annotation
        BY <1>1, <2>2
      <4>2. ASSUME NEW q \in RebuiltArtifacts, Vanish(q) PROVE FALSE
        BY <1>1, <2>2, <4>2, <2>t DEF Vanish, Annotations
      <4>3. PICK t \in Tasks : Step(t)
        BY <4>1, <4>2 DEF Next, vars
      <4>4. PICK q \in task[t].marks : Mark(t, q)
        BY <4>1, <4>3 DEF Step, List, SkipImage, PullImage, UseDirectory, NoArtifacts,
           ImageMissing, LayerMissing, DeletePackage, DeleteNothing, UploadFile,
           UploadRefused, EndWalk, MarkGone, EndImage, Succeed, Fail
      <4>5. q = r
        BY <1>1, <2>2, <2>t, <4>4 DEF Mark
      <4> QED
        BY <4>4, <4>5
    <3>2. ImageOf[r] = task[t].image /\ AtImage(t) /\ task[t].walk = {}
      BY <3>1 DEF Mark, PhasesAreOver, AtImage
    <3>3. Safe(DigestOf[task[t].image])
      BY <3>2, WalkOverIsSafe
    <3> QED
      BY <3>2, <3>3 DEF SafeImage
  <2> QED
    BY <2>1, <2>2
<1> QED
  BY <1>1, SafeImageStays DEF CurrentIsSafe

\* What a task has read as annotated is safe, although it may be read no more.
LEMMA ListedStep ==
  ASSUME DeployInv, [Next]_vars
  PROVE  ListedIsSafe'
<1> USE DEF DeployInv
<1>t. task \in [Tasks -> TaskStates]
  BY DEF TypeOK
<1>1. ASSUME NEW u \in Tasks, NEW r \in RebuiltArtifacts, task'[u].listed[r] = "current"
      PROVE  SafeImage(r)
  <2>1. CASE task'[u].listed[r] = task[u].listed[r]
    BY <1>1, <2>1 DEF ListedIsSafe
  <2>2. CASE task'[u].listed[r] # task[u].listed[r]
    <3>t. task[u] \in TaskStates
      BY <1>t
    <3>1. PICK t \in Tasks : Step(t)
      BY <2>2 DEF Next, vars, Vanish
    <3>2. t = u
      BY <2>2, <3>1, StepTypes
    <3>3. CASE List(u)
      <4>1. task'[u].listed =
              [q \in RebuiltArtifacts |-> IF Asked[u] \in {All, q} THEN annotation[q] ELSE "gone"]
        BY <1>t, <3>t, <3>3 DEF List, TaskStates
      <4>2. annotation[r] = "current"
        BY <1>1, <4>1
      <4> QED
        BY <4>2 DEF CurrentIsSafe
    <3>4. task' # [task EXCEPT ![u] = Broken(u)]
      BY <1>1, <1>t, BrokenType
    <3>5. ASSUME NEW i \in task[u].todo,
                 \/ SkipImage(u, i) \/ PullImage(u, i) \/ UseDirectory(u, i)
                 \/ ImageMissing(u, i) \/ LayerMissing(u, i)
          PROVE  task'[u].listed = task[u].listed
      BY <1>t, <3>t, <3>5 DEF SkipImage, PullImage, UseDirectory, ImageMissing, LayerMissing,
         TaskStates
    <3>6. ASSUME NEW p \in task[u].walk, Visit(u, p) PROVE task'[u].listed = task[u].listed
      BY <1>t, <3>t, <3>6 DEF Visit, TaskStates
    <3>7. ASSUME NEW f \in task[u].files, UploadFile(u, f)
          PROVE  task'[u].listed = task[u].listed
      BY <1>t, <3>t, <3>7 DEF UploadFile, TaskStates
    <3>8. ASSUME NEW q \in task[u].marks, Mark(u, q) PROVE task'[u].listed = task[u].listed
      BY <1>t, <3>t, <3>8 DEF Mark, TaskStates
    <3>9. ASSUME EndWalk(u) \/ EndImage(u) \/ Succeed(u)
          PROVE  task'[u].listed = task[u].listed
      BY <1>t, <3>t, <3>9 DEF EndWalk, EndImage, Succeed, TaskStates
    <3> QED
      BY <2>2, <3>1, <3>2, <3>3, <3>4, <3>5, <3>6, <3>7, <3>8, <3>9
         DEF Step, NoArtifacts, UploadRefused, MarkGone, Fail, DeletePackage, DeleteNothing
  <2> QED
    BY <2>1, <2>2
<1> QED
  BY <1>1, SafeImageStays DEF ListedIsSafe

\* No image a task was to look at is forgotten.
LEMMA DoneStep ==
  ASSUME DeployInv, [Next]_vars
  PROVE  DoneIsSafe'
<1> USE DEF DeployInv
<1> DEFINE Ahead(u, r) == ImageOf[r] \in task[u].todo \cup task[u].unpulled
           Handled(u, r) == \/ Ahead(u, r)
                            \/ AtImage(u) /\ ImageOf[r] = task[u].image
                            \/ SafeImage(r)
           Done(u, r) == task[u].pc # "start" /\ task[u].listed[r] # "gone" => Handled(u, r)
<1>t. task \in [Tasks -> TaskStates]
  BY DEF TypeOK
<1>1. ASSUME NEW u \in Tasks, NEW r \in RebuiltArtifacts, task'[u] = task[u]
      PROVE  Done(u, r)'
  <2>1. Done(u, r)
    BY DEF DoneIsSafe
  <2>2. SafeImage(r) => SafeImage(r)'
    BY SafeImageStays
  <2> QED
    BY <1>1, <2>1, <2>2 DEF AtImage
<1>2. ASSUME NEW t \in Tasks, Step(t), NEW r \in RebuiltArtifacts PROVE Done(t, r)'
  <2>t. task[t] \in TaskStates
    BY <1>t
  <2>d. Done(t, r)
    BY DEF DoneIsSafe
  <2>s. SafeImage(r) => SafeImage(r)'
    BY SafeImageStays
  <2>1. CASE List(t)
    <3>1. /\ task'[t].todo = {ImageOf[q] : q \in {p \in RebuiltArtifacts :
               task'[t].listed[p] # "gone" /\ ImageOf[p] \in Images}}
      BY ZenonT(40), <1>t, <2>t, <2>1 DEF List, TaskStates
    <3>2. ImageOf[r] \notin Images => SafeImage(r)'
      BY DEF SafeImage
    <3> QED
      BY <3>1, <3>2
  <2>2. ASSUME NEW i \in task[t].todo, SkipImage(t, i) PROVE Done(t, r)'
    <3>1. /\ task'[t].listed = task[t].listed /\ task'[t].todo = task[t].todo \ {i}
          /\ task'[t].unpulled = task[t].unpulled /\ task[t].pc = "images"
      BY <1>t, <2>t, <2>2 DEF SkipImage, TakeImage, TaskStates
    <3>2. ASSUME ImageOf[r] = i, task[t].listed[r] # "gone" PROVE SafeImage(r)
      <4>1. task[t].listed[r] = "current"
        BY <2>2, <3>2 DEF SkipImage, MustDeploy, ListedOf
      <4> QED
        BY <4>1 DEF ListedIsSafe
    <3> QED
      BY <2>d, <2>s, <3>1, <3>2 DEF AtImage
  <2>3. ASSUME NEW i \in task[t].todo, PullImage(t, i) \/ UseDirectory(t, i)
        PROVE  Done(t, r)'
    <3>1. /\ task'[t].listed = task[t].listed /\ task'[t].todo = task[t].todo \ {i}
          /\ task'[t].unpulled = task[t].unpulled /\ task'[t].image = i
          /\ task'[t].pc = "walk" /\ task[t].pc = "images"
      BY <1>t, <2>t, <2>3 DEF PullImage, UseDirectory, TakeImage, TaskStates
    <3> QED
      BY <2>d, <2>s, <3>1 DEF AtImage
  <2>4. ASSUME NEW i \in task[t].todo, ImageMissing(t, i) \/ LayerMissing(t, i)
        PROVE  Done(t, r)'
    <3>1. /\ task'[t].listed = task[t].listed /\ task'[t].todo = task[t].todo \ {i}
          /\ task'[t].unpulled = task[t].unpulled \cup {i} /\ task[t].pc = "images"
      BY <1>t, <2>t, <2>4 DEF ImageMissing, LayerMissing, TakeImage, TaskStates
    <3> QED
      BY <2>d, <2>s, <3>1 DEF AtImage
  <2>5. ASSUME task'[t].listed = task[t].listed, task'[t].todo = task[t].todo,
               task'[t].unpulled = task[t].unpulled, task'[t].image = task[t].image,
               AtImage(t), AtImage(t)'
        PROVE  Done(t, r)'
    BY <2>5, <2>d, <2>s DEF AtImage
  <2>6. ASSUME NEW p \in task[t].walk, Visit(t, p) PROVE Done(t, r)'
    BY <1>t, <2>t, <2>5, <2>6 DEF Visit, AtImage, TaskStates
  <2>7. ASSUME NEW f \in task[t].files, UploadFile(t, f) PROVE Done(t, r)'
    BY <1>t, <2>t, <2>5, <2>7 DEF UploadFile, AtImage, TaskStates
  <2>8. CASE EndWalk(t)
    BY <1>t, <2>t, <2>5, <2>8 DEF EndWalk, AtImage, TaskStates
  <2>9. ASSUME NEW q \in task[t].marks, Mark(t, q) PROVE Done(t, r)'
    BY <1>t, <2>t, <2>5, <2>9 DEF Mark, AtImage, TaskStates
  <2>10. CASE EndImage(t)
    <3>1. /\ task'[t].listed = task[t].listed /\ task'[t].todo = task[t].todo
          /\ task'[t].unpulled = task[t].unpulled /\ task[t].pc = "mark"
      BY <1>t, <2>t, <2>10 DEF EndImage, TaskStates
    <3>2. Safe(DigestOf[task[t].image])
      BY <3>1, WalkOverIsSafe DEF PhasesAreOver, AtImage
    <3> QED
      BY <2>d, <2>s, <3>1, <3>2 DEF SafeImage
  <2>11. CASE Succeed(t)
    <3>1. /\ task'[t].listed = task[t].listed /\ task'[t].todo = task[t].todo
          /\ task'[t].unpulled = task[t].unpulled /\ task[t].pc = "images"
      BY <1>t, <2>t, <2>11 DEF Succeed, TaskStates
    <3> QED
      BY <2>d, <2>s, <3>1 DEF AtImage
  <2>12. CASE task' = [task EXCEPT ![t] = Broken(t)]
    BY <1>t, <2>12, BrokenType
  <2> QED
    BY <1>2, <2>1, <2>2, <2>3, <2>4, <2>6, <2>7, <2>8, <2>9, <2>10, <2>11, <2>12
       DEF Step, NoArtifacts, UploadRefused, MarkGone, Fail, DeletePackage, DeleteNothing
<1>3. ASSUME NEW t \in Tasks, Step(t), NEW u \in Tasks, NEW r \in RebuiltArtifacts
      PROVE  Done(u, r)'
  BY <1>1, <1>2, <1>3, StepTypes
<1> QED
  BY <1>1, <1>3 DEF DoneIsSafe, Next, vars, Vanish

\* In every reachable state, everything published, annotated, read or skipped is
\* accounted for.
THEOREM DeployInvariance == Spec => []DeployInv
<1>1. DeployInv /\ [Next]_vars => DeployInv'
  <2> SUFFICES ASSUME DeployInv, [Next]_vars PROVE DeployInv'
    OBVIOUS
  <2>1. TypeOK'
    BY TypesStep DEF DeployInv
  <2>2. WalkedIsKept' /\ PhasesAreOver'
    BY WalkedStep, PhasesStep DEF DeployInv
  <2>3. CurrentIsSafe' /\ ListedIsSafe' /\ DoneIsSafe'
    BY CurrentStep, ListedStep, DoneStep
  <2> QED
    BY <2>1, <2>2, <2>3 DEF DeployInv
<1> QED
  BY <1>1, DeployInit, PTL DEF Spec

-----------------------------------------------------------------------------
(* What follows from it.                                                   *)

\* What is kept is published, or some task is at it.
LEMMA KeptIsAccounted ==
  ASSUME NEW p, Kept(p)
  PROVE  Accounted(p)
  BY DEF Kept, Accounted, IsAt, Holds, LeftAt

\* Whatever tasks run at once, delete each other's packages, fail or are refused:
\* what is annotated as deployed is published, or some task is answerable for it.
THEOREM AnnotationsAreTrue == Spec => []AnnotatedIsPublished
<1>1. DeployInv => AnnotatedIsPublished
  BY KeptIsAccounted DEF DeployInv, CurrentIsSafe, SafeImage, Safe, AnnotatedIsPublished
<1> QED
  BY <1>1, DeployInvariance, PTL

\* A task that succeeds has everything published that it was asked for and could
\* pull, what it skipped included.
THEOREM SuccessIsTrue == Spec => []SuccessIsPublished
<1>1. DeployInv => SuccessIsPublished
  <2> SUFFICES ASSUME DeployInv, NEW t \in Tasks, task[t].pc = "True",
                      NEW r \in RebuiltArtifacts, task[t].listed[r] # "gone",
                      ImageOf[r] \in Images \ task[t].unpulled
               PROVE  LET e == DigestOf[ImageOf[r]] IN
                      InPart(e) \/ \A p \in Contains[e] : Accounted(p)
    BY DEF SuccessIsPublished
  <2>1. task[t].todo = {}
    BY DEF DeployInv, PhasesAreOver
  <2>2. SafeImage(r)
    BY <2>1 DEF DeployInv, DoneIsSafe, AtImage
  <2> QED
    BY <2>2, KeptIsAccounted DEF SafeImage, Safe
<1> QED
  BY <1>1, DeployInvariance, PTL
=============================================================================

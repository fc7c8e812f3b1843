------------------------- MODULE JobQueueUnitProofs -------------------------
(***************************************************************************)
(* The units of the semaphore of the job queue: there is one for each job  *)
(* that is due, for every number of threads, every set of job types and    *)
(* every limit.                                                            *)
(***************************************************************************)
EXTENDS JobQueueProofs

\* The provers of a step that names none, in the order they are tried.
USE SMT, Zenon, SMTT(30)

\* No thread is told to pause before the queue is destroyed.
Pausing == {"pausing", "deleting", "deleted"}

Queued(t) == {j \in jobSet : j.type = t}

\* JobTypeData::waiting counts the queued jobs.  A type only has deferred
\* ones while the others and the running ones reach its limit, so a thread
\* that may take a job of the type takes one that is not deferred.
Deferrals ==
    /\ waiting \in [JobTypes -> Nat] /\ deferred \in [JobTypes -> Nat]
    /\ \A t \in JobTypes :
          /\ waiting[t] = Cardinality(Queued(t))
          /\ deferred[t] <= waiting[t]
          /\ deferred[t] > 0 => waiting[t] - deferred[t] + running[t] >= Limit[t]

PauseLater ==
    /\ setter \in [step : {"idle", "add", "pause", "notify"}, left : Int, goal : Int]
    /\ numberOfThreads \in Int
    /\ main = "setup" => numberOfThreads = 0 /\ setter.step = "idle"
    /\ main \notin Pausing => /\ pauseCount = 0
                              /\ setter.step \in {"idle", "add"}
                              /\ \A w \in Threads : pc[w] \notin {"decrement", "undo"}

Balance ==
    /\ semaphore \in Nat
    /\ IsFiniteSet(Due)
    /\ UnitForEachJob

UnitInv == Deferrals /\ PauseLater /\ Balance

\* Due for any number of jobs of each type.
DueOf(d) == UNION {{t} \X (1 .. d[t]) : t \in JobTypes}
Free == [t \in JobTypes |-> waiting[t] - deferred[t]]

LEMMA DueOfAdds ==
    ASSUME NEW d \in [JobTypes -> Nat], NEW t \in JobTypes, NEW e,
           e = [d EXCEPT ![t] = @ + 1]
    PROVE  /\ DueOf(e) = DueOf(d) \cup {<<t, d[t] + 1>>}
           /\ <<t, d[t] + 1>> \notin DueOf(d)
<1>1. ASSUME NEW f \in [JobTypes -> Nat]
      PROVE  DueOf(f) = {p \in JobTypes \X Nat : p[2] \in 1 .. f[p[1]]}
  BY DEF DueOf
<1>2. e \in [JobTypes -> Nat]
  OBVIOUS
<1>3. /\ DueOf(e) = {p \in JobTypes \X Nat : p[2] \in 1 .. e[p[1]]}
      /\ DueOf(d) = {p \in JobTypes \X Nat : p[2] \in 1 .. d[p[1]]}
  BY Zenon, <1>1, <1>2
<1>4. ASSUME NEW p \in JobTypes \X Nat
      PROVE  p[2] \in 1 .. e[p[1]] <=> p[2] \in 1 .. d[p[1]] \/ p = <<t, d[t] + 1>>
  <2>1. p = <<p[1], p[2]>> /\ p[1] \in JobTypes /\ p[2] \in Nat /\ d[p[1]] \in Nat
    OBVIOUS
  <2>2. CASE p[1] = t
    <3>1. e[p[1]] = d[t] + 1
      BY <2>1, <2>2
    <3> QED BY <2>1, <2>2, <3>1
  <2>3. CASE p[1] # t
    <3>1. e[p[1]] = d[p[1]]
      BY <2>1, <2>3
    <3> QED BY <2>1, <2>3, <3>1
  <2> QED BY <2>2, <2>3
<1>5. <<t, d[t] + 1>> \in JobTypes \X Nat /\ d[t] + 1 \notin 1 .. d[t]
  OBVIOUS
<1> QED BY Zenon, <1>3, <1>4, <1>5

LEMMA DueOfMore ==
    ASSUME NEW d \in [JobTypes -> Nat], NEW t \in JobTypes, NEW e,
           e = [d EXCEPT ![t] = @ + 1], IsFiniteSet(DueOf(d))
    PROVE  IsFiniteSet(DueOf(e)) /\ Cardinality(DueOf(e)) = Cardinality(DueOf(d)) + 1
<1> DEFINE x == <<t, d[t] + 1>>
<1>1. DueOf(e) = DueOf(d) \cup {x} /\ x \notin DueOf(d)
  BY Zenon, DueOfAdds
<1> HIDE DEF x
<1>2. /\ IsFiniteSet(DueOf(d) \cup {x})
      /\ Cardinality(DueOf(d) \cup {x}) = Cardinality(DueOf(d)) + 1
  BY Zenon, <1>1, FS_AddElement
<1> QED BY Zenon, <1>1, <1>2

LEMMA DueOfFewer ==
    ASSUME NEW d \in [JobTypes -> Nat], NEW t \in JobTypes, NEW e,
           e = [d EXCEPT ![t] = @ + 1], IsFiniteSet(DueOf(e))
    PROVE  IsFiniteSet(DueOf(d)) /\ Cardinality(DueOf(d)) = Cardinality(DueOf(e)) - 1
<1> DEFINE x == <<t, d[t] + 1>>
<1>1. DueOf(e) = DueOf(d) \cup {x} /\ x \notin DueOf(d)
  BY Zenon, DueOfAdds
<1> HIDE DEF x
<1>2. DueOf(d) = DueOf(e) \ {x} /\ x \in DueOf(e)
  BY Zenon, <1>1
<1> QED BY ZenonT(30), <1>2, FS_RemoveElement

LEMMA DueGrows ==
    ASSUME NEW t \in JobTypes, Free \in [JobTypes -> Nat],
           Free' = [Free EXCEPT ![t] = @ + 1], IsFiniteSet(Due)
    PROVE  IsFiniteSet(Due') /\ Cardinality(Due') = Cardinality(Due) + 1
<1> SUFFICES ASSUME NEW d, d = Free, NEW e, e = Free'
             PROVE  IsFiniteSet(Due') /\ Cardinality(Due') = Cardinality(Due) + 1
  OBVIOUS
<1>1. Due = DueOf(d) /\ Due' = DueOf(e)
  BY DEF Due, DueOf, Free
<1>2. d \in [JobTypes -> Nat] /\ e = [d EXCEPT ![t] = @ + 1]
  OBVIOUS
<1> QED BY Zenon, <1>1, <1>2, DueOfMore

LEMMA DueShrinks ==
    ASSUME NEW t \in JobTypes, Free' \in [JobTypes -> Nat],
           Free = [Free' EXCEPT ![t] = @ + 1], IsFiniteSet(Due)
    PROVE  IsFiniteSet(Due') /\ Cardinality(Due') = Cardinality(Due) - 1
<1> SUFFICES ASSUME NEW d, d = Free', NEW e, e = Free
             PROVE  IsFiniteSet(Due') /\ Cardinality(Due') = Cardinality(Due) - 1
  OBVIOUS
<1>1. Due' = DueOf(d) /\ Due = DueOf(e)
  BY DEF Due, DueOf, Free
<1>2. d \in [JobTypes -> Nat] /\ e = [d EXCEPT ![t] = @ + 1]
  OBVIOUS
<1>3. IsFiniteSet(DueOf(e))
  BY <1>1
<1>4. IsFiniteSet(DueOf(d)) /\ Cardinality(DueOf(d)) = Cardinality(DueOf(e)) - 1
  BY ZenonT(30), <1>2, <1>3, DueOfFewer
<1> QED BY Zenon, <1>1, <1>4

LEMMA SameQueueKeeps ==
    ASSUME Deferrals, UNCHANGED <<jobSet, typeData>>
    PROVE  Deferrals' /\ Due' = Due
BY DEF Deferrals, Due, Queued, typeData

\* queueJob: one more that is due with one more unit, or neither.
LEMMA AddJobBalances ==
    ASSUME IInv, Deferrals, Balance, NEW type \in JobTypes, NEW body \in Bodies, addJob(type, body)
    PROVE  /\ Deferrals'
           /\ semaphore' \in Nat /\ IsFiniteSet(Due')
           /\ Cardinality(Due') - semaphore' = Cardinality(Due) - semaphore
<1> DEFINE new == [type |-> type, index |-> lastJob + 1, body |-> body]
<1>1. /\ waiting \in [JobTypes -> Nat] /\ deferred \in [JobTypes -> Nat]
      /\ running \in [JobTypes -> Nat] /\ running' = running
      /\ waiting' = [waiting EXCEPT ![type] = @ + 1]
      /\ IF waiting[type] + running[type] < Limit[type]
           THEN semaphore' = semaphore + 1 /\ deferred' = deferred
           ELSE semaphore' = semaphore /\ deferred' = [deferred EXCEPT ![type] = @ + 1]
      /\ jobSet' = jobSet \cup {new}
      /\ semaphore \in Nat /\ IsFiniteSet(Due) /\ Cardinality(Due) \in Nat
  BY FS_CardinalityType DEF addJob, queueJob, Deferrals, IInv, QueueType, Balance
<1>2. new \notin jobSet /\ IsFiniteSet(jobSet) /\ Limit \in [JobTypes -> Nat]
  BY JobTypesAssumption DEF IInv, OwnJobs, QueueType, Pool!Job
<1>3. ASSUME NEW t \in JobTypes
      PROVE  waiting'[t] = Cardinality(Queued(t)')
  <2>1. IsFiniteSet(Queued(t)) /\ waiting[t] = Cardinality(Queued(t))
    BY <1>2, FS_Subset DEF Queued, Deferrals
  <2>2. CASE t = type
    <3>1. Queued(t)' = Queued(t) \cup {new} /\ new \notin Queued(t)
      BY <1>1, <1>2, <2>2 DEF Queued
    <3>2. Cardinality(Queued(t)') = Cardinality(Queued(t)) + 1
      BY Zenon, <2>1, <3>1, FS_AddElement
    <3> QED BY <1>1, <2>1, <2>2, <3>2
  <2>3. CASE t # type
    <3>1. Queued(t)' = Queued(t)
      BY <1>1, <2>3 DEF Queued
    <3> QED BY <1>1, <2>1, <2>3, <3>1
  <2> QED BY <2>2, <2>3
<1>4. \A t \in JobTypes :
         /\ deferred'[t] <= waiting'[t]
         /\ deferred'[t] > 0 => waiting'[t] - deferred'[t] + running'[t] >= Limit[t]
  <2>1. \A t \in JobTypes :
           /\ deferred[t] <= waiting[t]
           /\ deferred[t] > 0 => waiting[t] - deferred[t] + running[t] >= Limit[t]
    BY DEF Deferrals
  <2>2. ASSUME NEW t \in JobTypes, t # type
        PROVE  waiting'[t] = waiting[t] /\ deferred'[t] = deferred[t] /\ running'[t] = running[t]
    BY <1>1, <2>2
  <2>3. waiting'[type] = waiting[type] + 1 /\ running'[type] = running[type]
    BY <1>1
  <2>4. \A t \in JobTypes : waiting[t] \in Nat /\ deferred[t] \in Nat /\ running[t] \in Nat /\ Limit[t] \in Nat
    BY Zenon, <1>1, <1>2
  <2>5. CASE waiting[type] + running[type] < Limit[type]
    <3>1. deferred'[type] = deferred[type]
      BY <1>1, <2>5
    <3> QED BY <1>2, <2>1, <2>2, <2>3, <2>4, <3>1
  <2>6. CASE ~(waiting[type] + running[type] < Limit[type])
    <3>1. deferred'[type] = deferred[type] + 1
      BY <1>1, <2>6
    <3> QED BY <1>2, <2>1, <2>2, <2>3, <2>6, <2>4, <3>1
  <2> QED BY <2>5, <2>6
<1>5. Deferrals'
  BY <1>1, <1>3, <1>4 DEF Deferrals
<1>6. Free \in [JobTypes -> Nat]
  BY <1>1 DEF Free, Deferrals
<1>7. \A t \in JobTypes : Free[t] = waiting[t] - deferred[t] /\ Free'[t] = waiting'[t] - deferred'[t]
  BY DEF Free
<1>8. CASE waiting[type] + running[type] < Limit[type]
  <2>1. Free' = [Free EXCEPT ![type] = @ + 1]
    <3>1. \A t \in JobTypes : Free'[t] = IF t = type THEN Free[t] + 1 ELSE Free[t]
      BY <1>1, <1>8, <1>7
    <3>2. Free = [t \in JobTypes |-> Free[t]] /\ Free' = [t \in JobTypes |-> Free'[t]]
      BY DEF Free
    <3> QED BY <3>1, <3>2
  <2>2. IsFiniteSet(Due') /\ Cardinality(Due') = Cardinality(Due) + 1
    BY Zenon, <1>1, <1>6, <2>1, DueGrows
  <2> QED BY <1>1, <1>5, <1>8, <2>2
<1>9. CASE ~(waiting[type] + running[type] < Limit[type])
  <2>1. \A t \in JobTypes : waiting'[t] - deferred'[t] = waiting[t] - deferred[t]
    BY <1>1, <1>9
  <2>2. Due' = Due
    BY <2>1 DEF Due
  <2> QED BY <1>1, <1>5, <1>9, <2>2
<1> QED BY <1>8, <1>9

\* A thread that takes a job takes one that is due.
LEMMA TakeJobBalances ==
    ASSUME IInv, Deferrals, Balance, NEW w \in Threads, TakeJob(w)
    PROVE  /\ Deferrals' /\ IsFiniteSet(Due')
           /\ Cardinality(Due') = Cardinality(Due) - 1
<1>1. PICK j \in Runnable :
        /\ jobSet' = jobSet \ {j}
        /\ waiting' = [waiting EXCEPT ![j.type] = @ - 1]
        /\ running' = [running EXCEPT ![j.type] = @ + 1]
  BY Zenon DEF TakeJob, getNextJob
<1> DEFINE type == j.type
<1>2. /\ waiting \in [JobTypes -> Nat] /\ deferred \in [JobTypes -> Nat]
      /\ running \in [JobTypes -> Nat] /\ deferred' = deferred
      /\ j \in jobSet /\ type \in JobTypes /\ running[type] < Limit[type]
      /\ IsFiniteSet(jobSet) /\ Limit \in [JobTypes -> Nat] /\ IsFiniteSet(Due)
  BY JobTypesAssumption DEF TakeJob, Deferrals, IInv, QueueType, Balance, Runnable, Pool!Job
<1>3. \A t \in JobTypes : IsFiniteSet(Queued(t)) /\ waiting[t] = Cardinality(Queued(t))
  BY <1>2, FS_Subset DEF Queued, Deferrals
<1>4. ASSUME NEW t \in JobTypes
      PROVE  waiting'[t] = Cardinality(Queued(t)') /\ waiting'[t] \in Nat
  <2>1. CASE t = type
    <3>1. Queued(t)' = Queued(t) \ {j} /\ j \in Queued(t)
      BY <1>1, <1>2, <2>1 DEF Queued
    <3>2. Cardinality(Queued(t)') = Cardinality(Queued(t)) - 1 /\ IsFiniteSet(Queued(t)')
      BY ZenonT(30), <1>3, <3>1, FS_RemoveElement
    <3> QED BY <1>1, <1>2, <1>3, <2>1, <3>2, FS_CardinalityType
  <2>2. CASE t # type
    <3>1. Queued(t)' = Queued(t)
      BY <1>1, <2>2 DEF Queued
    <3> QED BY <1>1, <1>2, <1>3, <2>2, <3>1
  <2> QED BY <2>1, <2>2
<1>5. \A t \in JobTypes :
           /\ deferred[t] <= waiting[t]
           /\ deferred[t] > 0 => waiting[t] - deferred[t] + running[t] >= Limit[t]
  BY DEF Deferrals
<1>6. waiting[type] > deferred[type]
  <2>1. waiting[type] - 1 \in Nat
    BY <1>1, <1>2, <1>4
  <2> QED BY <1>2, <1>5, <2>1
<1>7. \A t \in JobTypes :
         /\ deferred'[t] <= waiting'[t]
         /\ deferred'[t] > 0 => waiting'[t] - deferred'[t] + running'[t] >= Limit[t]
  BY <1>1, <1>2, <1>5, <1>6
<1>8. Deferrals'
  <2>1. waiting' \in [JobTypes -> Nat]
    BY <1>1, <1>2, <1>4
  <2> QED BY <1>2, <1>4, <1>7, <2>1 DEF Deferrals
<1>9. Free' \in [JobTypes -> Nat] /\ Free = [Free' EXCEPT ![type] = @ + 1]
  <2>1. \A t \in JobTypes : Free'[t] = waiting'[t] - deferred[t] /\ Free[t] = waiting[t] - deferred[t]
    BY <1>2 DEF Free
  <2>2. \A t \in JobTypes : Free'[t] \in Nat /\ Free[t] = IF t = type THEN Free'[t] + 1 ELSE Free'[t]
    BY <1>1, <1>2, <1>5, <1>6, <2>1
  <2>3. Free = [t \in JobTypes |-> Free[t]] /\ Free' = [t \in JobTypes |-> Free'[t]]
    BY DEF Free
  <2> QED BY Zenon, <2>2, <2>3
<1>10. IsFiniteSet(Due') /\ Cardinality(Due') = Cardinality(Due) - 1
  BY Zenon, <1>2, <1>9, DueShrinks
<1> QED BY <1>8, <1>10

\* finishJob: a deferred job becomes due with a unit of its own.
LEMMA FinishBalances ==
    ASSUME IInv, Deferrals, Balance, NEW w \in Threads, FinishTask(w)
    PROVE  /\ Deferrals'
           /\ semaphore' \in Nat /\ IsFiniteSet(Due')
           /\ Cardinality(Due') - semaphore' = Cardinality(Due) - semaphore
<1> DEFINE type == job[w].type
<1>1. /\ pc[w] = "finish"
      /\ IF deferred[type] > 0
           THEN deferred' = [deferred EXCEPT ![type] = @ - 1] /\ semaphore' = semaphore + 1
           ELSE deferred' = deferred /\ semaphore' = semaphore
      /\ running' = [running EXCEPT ![type] = @ - 1]
      /\ waiting' = waiting /\ jobSet' = jobSet
  BY DEF FinishTask, finishJob
<1>2. /\ waiting \in [JobTypes -> Nat] /\ deferred \in [JobTypes -> Nat]
      /\ running \in [JobTypes -> Nat] /\ Limit \in [JobTypes -> Nat]
      /\ semaphore \in Nat /\ IsFiniteSet(Due) /\ Cardinality(Due) \in Nat
  BY JobTypesAssumption, FS_CardinalityType DEF Deferrals, IInv, QueueType, Balance
<1>3. type \in JobTypes
  BY <1>1 DEF IInv, OwnJobs, Busy, Pool!Job
<1>4. \A t \in JobTypes :
           /\ waiting[t] = Cardinality(Queued(t))
           /\ deferred[t] <= waiting[t]
           /\ deferred[t] > 0 => waiting[t] - deferred[t] + running[t] >= Limit[t]
  BY DEF Deferrals
<1>5. \A t \in JobTypes :
         /\ waiting'[t] = Cardinality(Queued(t)')
         /\ deferred'[t] \in Nat
         /\ deferred'[t] <= waiting'[t]
         /\ deferred'[t] > 0 => waiting'[t] - deferred'[t] + running'[t] >= Limit[t]
  <2>1. \A t \in JobTypes : Queued(t)' = Queued(t)
    BY <1>1 DEF Queued
  <2> QED BY <1>1, <1>2, <1>3, <1>4, <2>1
<1>6. Deferrals'
  <2>1. deferred' \in [JobTypes -> Nat]
    BY <1>1, <1>2, <1>3
  <2> QED BY <1>1, <1>2, <1>5, <2>1 DEF Deferrals
<1>7. Free \in [JobTypes -> Nat]
  BY <1>2, <1>4 DEF Free
<1>8. CASE deferred[type] > 0
  <2>1. Free' = [Free EXCEPT ![type] = @ + 1]
    BY <1>1, <1>2, <1>3, <1>8 DEF Free
  <2>2. IsFiniteSet(Due') /\ Cardinality(Due') = Cardinality(Due) + 1
    BY Zenon, <1>2, <1>3, <1>7, <2>1, DueGrows
  <2> QED BY <1>1, <1>2, <1>6, <1>8, <2>2
<1>9. CASE ~(deferred[type] > 0)
  <2>1. Due' = Due
    BY <1>1, <1>9 DEF Due
  <2> QED BY <1>1, <1>2, <1>6, <1>9, <2>1
<1> QED BY <1>8, <1>9

-----------------------------------------------------------------------------
(* Each step keeps the balance *)

LEMMA HoldersFinite == IsFiniteSet(Holders) /\ Cardinality(Holders) \in Nat
BY ThreadsFinite, FS_Subset, FS_CardinalityType DEF Holders

\* Steps that neither touch the queue nor the semaphore.
LEMMA SameUnits ==
    ASSUME UnitInv, UNCHANGED <<jobSet, typeData, semaphore, main>>, Holders' = Holders
    PROVE  Deferrals' /\ Balance'
BY SameQueueKeeps DEF UnitInv, Balance, UnitForEachJob

\* Steps of a thread or the timer that addJob is part of.
LEMMA AddJobKeepsUnits ==
    ASSUME IInv, UnitInv, NEW type \in JobTypes, NEW body \in Bodies, addJob(type, body),
           Holders' = Holders, UNCHANGED main
    PROVE  Deferrals' /\ Balance'
<1>1. /\ Deferrals'
      /\ semaphore' \in Nat /\ IsFiniteSet(Due')
      /\ Cardinality(Due') - semaphore' = Cardinality(Due) - semaphore
  BY AddJobBalances DEF UnitInv
<1>2. semaphore \in Nat /\ Cardinality(Due) \in Nat /\ Cardinality(Due') \in Nat
  BY <1>1, FS_CardinalityType DEF UnitInv, Balance
<1>3. UnitForEachJob'
  BY <1>1, <1>2, HoldersFinite DEF UnitInv, Balance, UnitForEachJob
<1> QED BY <1>1, <1>3 DEF Balance

LEMMA WorkerStepKeepsUnits ==
    ASSUME IInv, UnitInv, NEW w \in Threads, WorkerStep(w)
    PROVE  UnitInv'
<1>1. /\ UNCHANGED <<jobSet, typeData, main, numberOfThreads, setter>>
      /\ RunStep(w)
  BY DEF WorkerStep, RunStep, Start, ResetAllPaused, WaitSemaphore, LoadPauseCount,
         DecrementPauseCount, UndoDecrement, PushPaused, Deactivate, SignalAllPaused, Wakeup,
         ownerVars, queueVars
<1>2. Deferrals' /\ Due' = Due
  BY <1>1, SameQueueKeeps DEF UnitInv
<1>3. pc \in [Threads -> PCs] /\ semaphore \in Nat /\ IsFiniteSet(Due)
  BY DEF IInv, QueueType, UnitInv, Balance
<1>4. CASE main \in Pausing
  <2>1. semaphore' \in Nat
    BY <1>1, <1>3 DEF RunStep, Start, ResetAllPaused, WaitSemaphore, LoadPauseCount,
         DecrementPauseCount, UndoDecrement, PushPaused, Deactivate, SignalAllPaused, Wakeup
  <2> QED BY <1>1, <1>2, <1>3, <1>4, <2>1
          DEF UnitInv, Balance, PauseLater, UnitForEachJob, Pausing
<1>5. CASE main \notin Pausing
  <2>1. pauseCount = 0 /\ \A v \in Threads : pc[v] \notin {"decrement", "undo"}
    BY <1>5 DEF UnitInv, PauseLater
  <2>2. CASE WaitSemaphore(w)
    <3>1. /\ pc[w] = "wait" /\ pc' = [pc EXCEPT ![w] = "check"]
          /\ semaphore > 0 /\ semaphore' = semaphore - 1 /\ pauseCount' = pauseCount
      BY <2>2 DEF WaitSemaphore, Goto, countVars
    <3>2. Holders' = Holders \cup {w} /\ w \notin Holders
      BY <1>3, <3>1 DEF Holders
    <3>3. Cardinality(Holders') = Cardinality(Holders) + 1
      BY Zenon, <3>2, HoldersFinite, FS_AddElement
    <3>4. Balance'
      BY <1>1, <1>2, <1>3, <3>1, <3>3, HoldersFinite DEF UnitInv, Balance, UnitForEachJob
    <3>5. PauseLater'
      BY <1>1, <1>3, <2>1, <3>1 DEF UnitInv, PauseLater
    <3> QED BY <1>2, <3>4, <3>5 DEF UnitInv
  <2>3. CASE ~WaitSemaphore(w)
    <3>1. /\ semaphore' = semaphore /\ pauseCount' = pauseCount
          /\ \E x \in PCs \ {"decrement", "undo"} :
                /\ pc' = [pc EXCEPT ![w] = x]
                /\ pc[w] \in {"check", "task"} <=> x \in {"check", "task"}
      BY <1>1, <2>1, <2>3
         DEF RunStep, Start, ResetAllPaused, LoadPauseCount, DecrementPauseCount,
             UndoDecrement, PushPaused, Deactivate, SignalAllPaused, Wakeup, Goto, countVars,
             PCs, InTask
    <3>2. Holders' = Holders /\ \A v \in Threads : pc'[v] \notin {"decrement", "undo"}
      BY <1>3, <2>1, <3>1 DEF Holders
    <3>3. PauseLater'
      BY <1>1, <3>1, <3>2 DEF UnitInv, PauseLater
    <3> QED BY <1>1, <3>1, <3>2, <3>3, SameUnits DEF UnitInv
  <2> QED BY <2>2, <2>3
<1> QED BY <1>4, <1>5

\* A thread that takes a job gives up the unit it holds.
LEMMA TakeJobKeepsUnits ==
    ASSUME IInv, UnitInv, NEW w \in Threads, TakeJob(w)
    PROVE  UnitInv'
<1>1. /\ pc[w] = "task" /\ pc' = [pc EXCEPT ![w] = "job"]
      /\ UNCHANGED <<semaphore, main, numberOfThreads, setter, pauseCount>>
  BY DEF TakeJob, Goto, poolButSemaphore, countVars, ownerVars
<1>2. Deferrals' /\ IsFiniteSet(Due') /\ Cardinality(Due') = Cardinality(Due) - 1
  BY TakeJobBalances DEF UnitInv
<1>3. pc \in [Threads -> PCs] /\ semaphore \in Nat /\ Cardinality(Due) \in Nat
  BY FS_CardinalityType DEF IInv, QueueType, UnitInv, Balance
<1>4. Holders' = Holders \ {w} /\ w \in Holders
  BY <1>1, <1>3 DEF Holders
<1>5. Cardinality(Holders') = Cardinality(Holders) - 1
  BY Zenon, <1>4, HoldersFinite, FS_RemoveElement
<1>6. Balance'
  BY <1>1, <1>2, <1>3, <1>5, HoldersFinite DEF UnitInv, Balance, UnitForEachJob
<1>7. PauseLater'
  BY <1>1, <1>3 DEF UnitInv, PauseLater
<1> QED BY <1>2, <1>6, <1>7 DEF UnitInv

LEMMA FinishKeepsUnits ==
    ASSUME IInv, UnitInv, NEW w \in Threads, FinishTask(w)
    PROVE  UnitInv'
<1>1. /\ pc[w] = "finish" /\ pc' = [pc EXCEPT ![w] = "wait"]
      /\ UNCHANGED <<main, numberOfThreads, setter, pauseCount>>
  BY DEF FinishTask, Goto, poolButSemaphore, countVars, ownerVars
<1>2. /\ Deferrals'
      /\ semaphore' \in Nat /\ IsFiniteSet(Due')
      /\ Cardinality(Due') - semaphore' = Cardinality(Due) - semaphore
  BY FinishBalances DEF UnitInv
<1>3. /\ pc \in [Threads -> PCs] /\ semaphore \in Nat
      /\ Cardinality(Due) \in Nat /\ Cardinality(Due') \in Nat
  BY <1>2, FS_CardinalityType DEF IInv, QueueType, UnitInv, Balance
<1>4. Holders' = Holders
  BY <1>1, <1>3 DEF Holders
<1>5. Balance'
  BY <1>1, <1>2, <1>3, <1>4, HoldersFinite DEF UnitInv, Balance, UnitForEachJob
<1>6. PauseLater'
  BY <1>1, <1>3 DEF UnitInv, PauseLater
<1> QED BY <1>2, <1>5, <1>6 DEF UnitInv

\* What a step of a job or of a caller leaves of the pool and the main thread.
PoolLeft ==
    /\ UNCHANGED <<main, numberOfThreads, setter, pauseCount>>
    /\ Holders' = Holders
    /\ \A w \in Threads : pc'[w] = pc[w] \/ pc'[w] = "finish"

LEMMA SetterTyped ==
    ASSUME PauseLater, SetterStep
    PROVE  /\ setter' \in [step : {"idle", "add", "pause", "notify"}, left : Int, goal : Int]
           /\ numberOfThreads' \in Int
           /\ setter.step = "add" => setter'.step \in {"idle", "add"}
<1> DEFINE Steps == {"idle", "add", "pause", "notify"}
<1>1. setter \in [step : Steps, left : Int, goal : Int] /\ numberOfThreads \in Int
  BY DEF PauseLater
<1>2. ASSUME NEW next \in Steps, setterAfter(next)
      PROVE  /\ setter' \in [step : Steps, left : Int, goal : Int]
             /\ numberOfThreads' \in Int
             /\ setter'.step \in {"idle", next}
  <2>1. CASE setter.left = 1
    BY <1>1, <1>2, <2>1 DEF setterAfter, idleSetter
  <2>2. CASE setter.left # 1
    <3>1. setter' = [step |-> next, left |-> setter.left - 1, goal |-> setter.goal]
      BY Zenon, <1>1, <1>2, <2>2 DEF setterAfter
    <3>2. numberOfThreads' = numberOfThreads
      BY <1>2, <2>2 DEF setterAfter
    <3> QED BY <1>1, <3>1, <3>2
  <2> QED BY <2>1, <2>2
<1>3. CASE AddThread
  BY <1>2, <1>3 DEF AddThread
<1>4. CASE RequestPause
  BY <1>1, <1>4 DEF RequestPause
<1>5. CASE NotifyPause
  BY <1>2, <1>5 DEF NotifyPause
<1> QED BY <1>3, <1>4, <1>5 DEF SetterStep

LEMMA PauseLaterKept == PauseLater /\ PoolLeft => PauseLater'
BY DEF PauseLater, PoolLeft

LEMMA RunJobKeepsUnits ==
    ASSUME IInv, UnitInv, NEW w \in Threads, RunJob(w)
    PROVE  UnitInv'
<1>1. /\ pc[w] = "job" /\ (pc' = pc \/ pc' = [pc EXCEPT ![w] = "finish"])
      /\ UNCHANGED <<main, numberOfThreads, setter, pauseCount>>
      /\ \/ addJob(TimerType, "plain")
         \/ UNCHANGED <<jobSet, typeData, semaphore>>
  BY DEF RunJob, RunPlain, RunParent, RunCounted, ResumeCoro, LeaveCoro, Goto,
         poolButSemaphore, countVars, ownerVars, queueVars
<1>2. pc \in [Threads -> PCs]
  BY DEF IInv, QueueType
<1>3. PoolLeft
  BY <1>1, <1>2 DEF PoolLeft, Holders
<1>4. PauseLater'
  BY <1>3, PauseLaterKept DEF UnitInv
<1>5. TimerType \in JobTypes /\ "plain" \in Bodies
  BY JobTypesAssumption DEF Bodies
<1>6. Deferrals' /\ Balance'
  BY <1>1, <1>3, <1>5, AddJobKeepsUnits, SameUnits DEF PoolLeft
<1> QED BY <1>4, <1>6 DEF UnitInv

LEMMA CallersKeepUnits ==
    ASSUME IInv, UnitInv,
           wrap \/ addCountedJob \/ unwrap \/ AddOtherJob \/ CreateCoro \/ PostCoro
    PROVE  UnitInv'
<1>1. /\ UNCHANGED <<pc, main, numberOfThreads, setter, pauseCount>>
      /\ \/ addJob(TimerType, "counted") \/ addJob(CoroType, "parent") \/ addJob(CoroType, "coro")
         \/ UNCHANGED <<jobSet, typeData, semaphore>>
  BY DEF wrap, addCountedJob, unwrap, AddOtherJob, CreateCoro, PostCoro, workerVars,
         poolButSemaphore, countVars, ownerVars, queueVars
<1>2. PoolLeft
  BY <1>1 DEF PoolLeft, Holders
<1>3. PauseLater'
  BY <1>2, PauseLaterKept DEF UnitInv
<1>4. {TimerType, CoroType} \subseteq JobTypes /\ {"counted", "parent", "coro"} \subseteq Bodies
  BY JobTypesAssumption DEF Bodies
<1>5. Deferrals' /\ Balance'
  BY <1>1, <1>2, <1>4, AddJobKeepsUnits, SameUnits DEF PoolLeft
<1> QED BY <1>3, <1>5 DEF UnitInv

\* The thread a call of setNumberOfThreads starts holds no unit.
LEMMA SetterKeepsUnits ==
    ASSUME IInv, UnitInv, setterStep
    PROVE  UnitInv'
<1>1. SetterStep /\ UNCHANGED <<jobSet, typeData, main>>
  BY DEF setterStep, queueVars
<1>2. Deferrals' /\ Due' = Due
  BY <1>1, SameQueueKeeps DEF UnitInv
<1>3. pc \in [Threads -> PCs] /\ semaphore \in Nat /\ IsFiniteSet(Due) /\ everyone \in Nat
  BY DEF IInv, QueueType, UnitInv, Balance
<1>4. CASE main \in Pausing
  <2>1. semaphore' \in Nat
    BY <1>1, <1>3 DEF SetterStep, AddThread, RequestPause, NotifyPause
  <2> QED BY <1>1, <1>2, <1>3, <1>4, <2>1, SetterTyped
          DEF UnitInv, Balance, PauseLater, UnitForEachJob, Pausing
<1>5. CASE main \notin Pausing
  <2>1. /\ pauseCount = 0 /\ setter.step = "add"
        /\ \A w \in Threads : pc[w] \notin {"decrement", "undo"}
    BY <1>1, <1>5 DEF UnitInv, PauseLater, SetterStep, AddThread, RequestPause, NotifyPause
  <2>2. AddThread
    BY <1>1, <2>1 DEF SetterStep, RequestPause, NotifyPause
  <2>3. UNCHANGED <<semaphore, pauseCount>> /\ setter'.step \in {"idle", "add"}
    BY <1>1, <2>1, <2>2, SetterTyped DEF AddThread, countVars, UnitInv
  <2>4. pc' = pc \/ (everyone < MaxThreads /\ pc' = [pc EXCEPT ![everyone + 1] = "start"])
    BY <2>2 DEF AddThread, Goto
  <2>5. everyone < MaxThreads => everyone + 1 \in Threads /\ pc[everyone + 1] \in {"none", "exited"}
    BY <1>3, MaxThreadsAssumption DEF Threads, IInv, OnlyCreated
  <2>6. Holders' = Holders /\ \A w \in Threads : pc'[w] \notin {"decrement", "undo"}
    BY <1>3, <2>1, <2>4, <2>5 DEF Holders
  <2>7. PauseLater'
    <3>1. main # "setup"
      BY <2>1 DEF UnitInv, PauseLater
    <3> QED BY <1>1, <2>1, <2>3, <2>6, <3>1, SetterTyped DEF UnitInv, PauseLater
  <2> QED BY <1>1, <2>3, <2>6, <2>7, SameUnits DEF UnitInv
<1> QED BY <1>4, <1>5

LEMMA DeletingKeepsUnits ==
    ASSUME IInv, UnitInv, deleteWorkers
    PROVE  UnitInv'
<1>1. /\ UNCHANGED <<jobSet, typeData, main, semaphore, numberOfThreads, setter, pc>>
      /\ main \in Pausing
  BY DEF deleteWorkers, ReleaseWorker, JoinWorker, queueVars, ownerVars, Pausing
<1>2. Holders' = Holders
  BY <1>1 DEF Holders
<1>3. PauseLater'
  BY <1>1 DEF UnitInv, PauseLater, Pausing
<1> QED BY <1>1, <1>2, <1>3, SameUnits DEF UnitInv

\* The first call of setNumberOfThreads adds threads; the one that asks them
\* to pause is that of ~Workers.
LEMMA MainKeepsUnits ==
    ASSUME IInv, UnitInv, mainMoves
    PROVE  UnitInv'
<1>1. /\ UNCHANGED <<jobSet, typeData, semaphore, pc, pauseCount, numberOfThreads>>
      /\ main' # "setup" /\ (main \in Pausing => main' \in Pausing)
  BY DEF mainMoves, setThreadCount, start, stopAsync, joinJobs, joined, stopChildren,
         onChildrenStopped, stop, pauseAllThreads, allThreadsPaused, deleted,
         setNumberOfThreads, workerVars, ownerVars, countVars, queueVars, mainGoto, Pausing
<1>2. Deferrals' /\ Due' = Due /\ Holders' = Holders
  BY <1>1, SameQueueKeeps DEF UnitInv, Holders
<1>3. Balance'
  BY <1>1, <1>2 DEF UnitInv, Balance, UnitForEachJob, Pausing
<1>4. PauseLater'
  <2>1. CASE setThreadCount
    <3>1. /\ main = "setup" /\ main' = "starting"
          /\ setter' = [step |-> "add", left |-> MaxThreads - numberOfThreads, goal |-> MaxThreads]
      BY <2>1, MaxThreadsAssumption
         DEF setThreadCount, setNumberOfThreads, mainGoto, UnitInv, PauseLater
    <3> QED BY <1>1, <3>1, MaxThreadsAssumption DEF UnitInv, PauseLater, Pausing
  <2>2. CASE pauseAllThreads
    <3>1. /\ main' = "pausing"
          /\ setter' \in {[step |-> "add", left |-> 0 - numberOfThreads, goal |-> 0],
                          [step |-> "pause", left |-> numberOfThreads - 0, goal |-> 0]}
      BY <2>2 DEF pauseAllThreads, setNumberOfThreads, mainGoto
    <3> QED BY <1>1, <3>1 DEF UnitInv, PauseLater, Pausing
  <2>3. CASE ~setThreadCount /\ ~pauseAllThreads
    <3>1. setter' = setter
      BY <2>3 DEF mainMoves, start, stopAsync, joinJobs, joined, stopChildren,
         onChildrenStopped, stop, allThreadsPaused, deleted, workerVars, ownerVars
    <3> QED BY <1>1, <3>1 DEF UnitInv, PauseLater
  <2> QED BY <2>1, <2>2, <2>3
<1> QED BY <1>2, <1>3, <1>4 DEF UnitInv

LEMMA UnitsInit == Init => UnitInv
<1> SUFFICES ASSUME Init PROVE UnitInv
  OBVIOUS
<1> USE DEF Init, WorkersInit
<1>1. \A t \in JobTypes : Queued(t) = {}
  BY DEF Queued
<1>2. Deferrals
  <2>1. \A t \in JobTypes : Cardinality(Queued(t)) = 0
    BY ZenonT(30), <1>1, FS_EmptySet
  <2> QED BY <2>1 DEF Deferrals
<1>3. Due = {} /\ Holders = {}
  BY DEF Due, Holders
<1>4. Balance
  BY <1>3, FS_EmptySet DEF Balance, UnitForEachJob
<1>5. PauseLater
  BY DEF PauseLater, idleSetter
<1> QED BY <1>2, <1>4, <1>5 DEF UnitInv

LEMMA UnitsStep == IInv /\ UnitInv /\ [Next]_vars => UnitInv'
<1> SUFFICES ASSUME IInv, UnitInv, [Next]_vars PROVE UnitInv'
  OBVIOUS
<1>1. CASE \E w \in Threads : WorkerStep(w) \/ TakeJob(w) \/ RunJob(w) \/ FinishTask(w)
  BY Zenon, <1>1, WorkerStepKeepsUnits, TakeJobKeepsUnits, RunJobKeepsUnits, FinishKeepsUnits
<1>2. CASE wrap \/ addCountedJob \/ unwrap \/ AddOtherJob \/ CreateCoro \/ PostCoro
  BY Zenon, <1>2, CallersKeepUnits
<1>3. CASE MainStep \/ stopAsync
  BY Zenon, <1>3, MainKeepsUnits, SetterKeepsUnits, DeletingKeepsUnits DEF MainStep, mainMoves
<1>4. CASE UNCHANGED vars
  <2>1. UNCHANGED <<jobSet, typeData, semaphore, main, pc, pauseCount, numberOfThreads, setter>>
    BY <1>4 DEF vars, workerVars, countVars, ownerVars, queueVars
  <2>2. PoolLeft
    BY <2>1 DEF PoolLeft, Holders
  <2> QED BY <2>1, <2>2, PauseLaterKept, SameUnits DEF UnitInv, PoolLeft
<1> QED BY Zenon, <1>1, <1>2, <1>3, <1>4 DEF Next

\* Whatever the interleaving of addJob, the threads and the jobs that end,
\* the semaphore and the threads that took a unit of it have exactly one
\* for each job that is queued and not deferred, until ~Workers.
THEOREM UnitForEachJobAlways == Spec => []UnitForEachJob
<1>1. UnitInv => UnitForEachJob
  BY DEF UnitInv, Balance
<1> QED BY <1>1, InitHolds, StepHolds, UnitsInit, UnitsStep, PTL DEF Spec
=============================================================================

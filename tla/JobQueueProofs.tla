--------------------------- MODULE JobQueueProofs ---------------------------
(***************************************************************************)
(* The job queue implements JobPool, for every number of threads, every    *)
(* set of job types and every limit; and JobCounter::join leaves no        *)
(* counted job.  The units of the semaphore are in JobQueueUnitProofs;     *)
(* liveness stays with TLC.                                                *)
(***************************************************************************)
EXTENDS JobQueue, FiniteSetTheorems, TLAPS

\* The provers of a step that names none, in the order they are tried.
USE SMT, Zenon, SMTT(30)

Busy == {w \in Threads : pc[w] \in {"job", "finish"}}
AtJob == {w \in Threads : pc[w] = "job"}
CountedJobs == {j \in jobSet \cup {job[w] : w \in AtJob} : j.body = "counted"}

Starting == {"setup", "starting", "running"}
BeforeJoin == Starting \cup {"onStop"}
Joined == {"children", "childrenStopped", "waitStopped", "stopped", "pausing",
           "deleting", "deleted"}
Childless == Joined \ {"children"}
Over == {"stopped", "pausing", "deleting", "deleted"}

QueueType ==
    /\ pc \in [Threads -> PCs]
    /\ job \in [Threads -> Pool!Job \cup {NoJob}]
    /\ jobSet \subseteq Pool!Job /\ IsFiniteSet(jobSet)
    /\ lastJob \in Nat
    /\ running \in [JobTypes -> Nat]
    /\ processCount \in Int /\ jobCount \in Int /\ nSuspend \in Int
    /\ everyone \in Nat

\* No thread that does not exist runs.
OnlyCreated == \A w \in Threads : w > everyone => pc[w] \in {"none", "exited"}

\* Each busy thread has a job of its own, taken out of m_jobSet.
OwnJobs ==
    /\ \A w \in Busy : job[w] \in Pool!Job /\ job[w] \notin jobSet /\ job[w].index <= lastJob
    /\ \A w, v \in Busy : w # v => job[w] # job[v]
    /\ \A j \in jobSet : j.index <= lastJob

\* m_processCount and JobTypeData::running count them.
CountsMatch ==
    /\ processCount = Cardinality(Executing)
    /\ \A t \in JobTypes : running[t] = Cardinality(Pool!OfType(Executing, t))

\* JobCounter counts the wrapper of the timer and the copies in the jobs.
CounterMatches ==
    jobCount = Cardinality(CountedJobs) + (IF timer = "idle" THEN 0 ELSE 1)

\* What each place of the main thread implies for the others.
StopOrder ==
    /\ main \in BeforeJoin \cup {"join"} \cup Joined
    /\ isStopping <=> main \notin Starting
    /\ waitForJobs <=> main \notin BeforeJoin
    /\ childrenStopped <=> main \in Childless
    /\ isStopped <=> main \in Over
    /\ main \in Joined => timer = "idle" /\ CountedJobs = {}
    /\ main \in Childless => coro \in {"none", "ended"}

Suspends == nSuspend = IF coro \in {"created", "posted", "suspended"} THEN 1 ELSE 0

\* m_stopped is only signalled when nothing is left, and nothing comes back.
StoppedIsQuiet ==
    /\ stoppedEvent \in BOOLEAN
    /\ stoppedEvent => main \in Childless /\ jobSet = {} /\ Executing = {} /\ nSuspend = 0
    /\ main \in Over => stoppedEvent

\* The inductive invariant.
IInv == /\ QueueType /\ OnlyCreated /\ OwnJobs /\ CountsMatch
        /\ CounterMatches /\ StopOrder /\ Suspends /\ StoppedIsQuiet

-----------------------------------------------------------------------------
(* Sets *)

LEMMA ThreadsFinite == IsFiniteSet(Threads) /\ Cardinality(Threads) = MaxThreads
BY MaxThreadsAssumption, FS_Interval DEF Threads

LEMMA ExecutingOfBusy == Executing = {job[w] : w \in Busy}
BY DEF Executing, Busy

\* There are at most as many jobs as threads that have them.
LEMMA ImageFinite ==
    ASSUME NEW S \in SUBSET Threads
    PROVE  /\ IsFiniteSet({job[w] : w \in S})
           /\ Cardinality({job[w] : w \in S}) <= Cardinality(S)
           /\ IsFiniteSet(S)
<1> DEFINE f == [w \in S |-> job[w]]
           T == {job[w] : w \in S}
<1>1. IsFiniteSet(S)
  BY ThreadsFinite, FS_Subset
<1>2. f \in Surjection(S, T)
  BY DEF Surjection
<1> HIDE DEF f
<1> QED BY <1>1, <1>2, FS_Surjection

LEMMA ExecutingFinite == IsFiniteSet(Executing)
BY Zenon, ImageFinite, ExecutingOfBusy DEF Busy

LEMMA CountedFinite == QueueType => IsFiniteSet(CountedJobs)
<1> SUFFICES ASSUME QueueType PROVE IsFiniteSet(CountedJobs)
  OBVIOUS
<1>1. IsFiniteSet({job[w] : w \in AtJob}) /\ IsFiniteSet(jobSet)
  BY Zenon, ImageFinite DEF AtJob, QueueType
<1>2. IsFiniteSet(jobSet \cup {job[w] : w \in AtJob})
  BY Zenon, <1>1, FS_Union
<1> QED BY <1>2, FS_Subset DEF CountedJobs

LEMMA InitHolds == Init => IInv
<1> SUFFICES ASSUME Init PROVE IInv
  OBVIOUS
<1> USE DEF Init, WorkersInit
<1>0. Busy = {} /\ AtJob = {} /\ Executing = {} /\ CountedJobs = {}
  BY DEF Busy, AtJob, Executing, CountedJobs
<1>1. QueueType /\ OnlyCreated /\ OwnJobs
  BY <1>0, FS_EmptySet DEF QueueType, OnlyCreated, OwnJobs, PCs
<1>2. CountsMatch
  <2>1. \A t \in JobTypes : Pool!OfType(Executing, t) = {}
    BY <1>0 DEF Pool!OfType
  <2> QED BY Zenon, <1>0, <2>1, FS_EmptySet DEF CountsMatch
<1>3. CounterMatches /\ Suspends
  BY <1>0, FS_EmptySet DEF CounterMatches, Suspends
<1>4. StopOrder /\ StoppedIsQuiet
  BY Zenon, <1>0 DEF StopOrder, StoppedIsQuiet, Starting, BeforeJoin, Joined, Childless, Over
<1> QED BY <1>1, <1>2, <1>3, <1>4 DEF IInv

-----------------------------------------------------------------------------
(* The four ways a step concerns the jobs: not at all, a job is added, one *)
(* is taken, one is finished.                                              *)

Leaves ==
    /\ UNCHANGED <<job, jobSet, lastJob, running, processCount>>
    /\ Busy' = Busy

Adds(type, body) ==
    /\ lastJob' = lastJob + 1
    /\ jobSet' = jobSet \cup {[type |-> type, index |-> lastJob + 1, body |-> body]}
    /\ UNCHANGED <<job, running, processCount>>
    /\ Busy' = Busy

Core == QueueType /\ OnlyCreated /\ OwnJobs /\ CountsMatch

\* What every step keeps of the threads and the counters.
PoolKept ==
    /\ pc' \in [Threads -> PCs] /\ everyone' \in Nat /\ OnlyCreated'
    /\ jobCount' \in Int /\ nSuspend' \in Int

LEMMA LeavesKeeps ==
    ASSUME Core, Leaves, PoolKept
    PROVE  Core' /\ Executing' = Executing
<1> USE DEF Core, Leaves
<1>1. Executing' = Executing
  BY ExecutingOfBusy DEF Executing, Busy
<1>2. QueueType'
  BY DEF QueueType, PoolKept, Pool!Job
<1>3. OwnJobs'
  BY DEF OwnJobs, Pool!Job
<1>4. CountsMatch'
  BY <1>1 DEF CountsMatch, Pool!OfType
<1> QED BY <1>1, <1>2, <1>3, <1>4 DEF PoolKept

LEMMA AddsKeeps ==
    ASSUME Core, NEW type \in JobTypes, NEW body \in Bodies, Adds(type, body), PoolKept
    PROVE  Core' /\ Executing' = Executing
<1> DEFINE new == [type |-> type, index |-> lastJob + 1, body |-> body]
<1> USE DEF Core, Adds
<1>0. lastJob \in Nat /\ new \in Pool!Job /\ new.index = lastJob + 1
  BY DEF QueueType, Pool!Job
<1>1. Executing' = Executing
  BY DEF Executing, Busy
<1>2. QueueType'
  BY Zenon, <1>0, FS_AddElement DEF QueueType, PoolKept, Pool!Job
<1>3. OwnJobs'
  <2>1. \A w \in Busy : /\ job[w] \in Pool!Job /\ job[w] \notin jobSet
                       /\ job[w].index <= lastJob /\ job[w].index \in Nat
    BY DEF OwnJobs, Pool!Job
  <2>2. \A j \in jobSet : j.index \in Nat /\ j.index <= lastJob
    BY DEF OwnJobs, QueueType, Pool!Job
  <2>3. \A w \in Busy' : /\ job'[w] \in Pool!Job /\ job'[w] \notin jobSet'
                        /\ job'[w].index <= lastJob'
    BY <1>0, <2>1
  <2>4. \A j \in jobSet' : j.index <= lastJob'
    BY <1>0, <2>2
  <2>5. \A w, v \in Busy' : w # v => job'[w] # job'[v]
    BY DEF OwnJobs
  <2> QED BY <2>3, <2>4, <2>5 DEF OwnJobs, Pool!Job
<1>4. CountsMatch'
  BY <1>1 DEF CountsMatch, Pool!OfType
<1> QED BY <1>1, <1>2, <1>3, <1>4 DEF PoolKept

LEMMA TakeKeeps ==
    ASSUME Core, NEW w \in Threads, TakeJob(w), PoolKept
    PROVE  /\ Core'
           /\ \E j \in Runnable :
                /\ \A i \in Runnable \ {j} : before(j, i)
                /\ job' = [job EXCEPT ![w] = j]
                /\ jobSet' = jobSet \ {j}
                /\ Executing' = Executing \cup {j}
                /\ Cardinality(Executing) < MaxThreads
<1> USE DEF Core
<1>1. PICK j \in Runnable :
        /\ \A i \in Runnable \ {j} : before(j, i)
        /\ job' = [job EXCEPT ![w] = j]
        /\ jobSet' = jobSet \ {j}
        /\ running' = [running EXCEPT ![j.type] = @ + 1]
  BY Zenon DEF TakeJob, getNextJob
<1>2. /\ pc[w] = "task" /\ pc' = [pc EXCEPT ![w] = "job"]
      /\ processCount' = processCount + 1 /\ UNCHANGED lastJob
  BY DEF TakeJob, Goto
<1>3. /\ j \in jobSet /\ j \in Pool!Job /\ j.type \in JobTypes
      /\ pc \in [Threads -> PCs] /\ job \in [Threads -> Pool!Job \cup {NoJob}]
  BY DEF Runnable, QueueType, Pool!Job
<1>4. w \notin Busy /\ Busy' = Busy \cup {w}
  BY <1>2, <1>3 DEF Busy
<1>5. /\ job'[w] = j
      /\ \A v \in Busy : job'[v] = job[v]
  BY <1>1, <1>3, <1>4 DEF Busy
<1>6. Executing' = Executing \cup {j} /\ j \notin Executing
  <2>1. Executing' = {job'[v] : v \in Busy'}
    BY DEF Executing, Busy
  <2>2. j \notin Executing
    BY <1>3, ExecutingOfBusy DEF OwnJobs
  <2> QED BY <1>4, <1>5, <2>1, <2>2, ExecutingOfBusy
<1>7. QueueType'
  BY <1>1, <1>2, <1>3, FS_RemoveElement DEF QueueType, PoolKept, Pool!Job
<1>8. OwnJobs'
  <2>1. \A v \in Busy' : /\ job'[v] \in Pool!Job /\ job'[v] \notin jobSet'
                        /\ job'[v].index <= lastJob'
    BY <1>1, <1>2, <1>3, <1>4, <1>5 DEF OwnJobs
  <2>2. \A v \in Busy : job[v] # j
    BY <1>3 DEF OwnJobs
  <2>3. \A u, v \in Busy' : u # v => job'[u] # job'[v]
    BY <1>4, <1>5, <2>2 DEF OwnJobs
  <2>4. \A i \in jobSet' : i.index <= lastJob'
    BY <1>1, <1>2 DEF OwnJobs
  <2> QED BY <2>1, <2>3, <2>4 DEF OwnJobs, Pool!Job
<1>9. CountsMatch'
  <2>1. processCount' = Cardinality(Executing')
    BY Zenon, <1>2, <1>6, ExecutingFinite, FS_AddElement DEF CountsMatch
  <2>2. ASSUME NEW t \in JobTypes
        PROVE  running'[t] = Cardinality(Pool!OfType(Executing, t)')
    <3> DEFINE old == Pool!OfType(Executing, t)
               new == Pool!OfType(Executing, t)'
    <3>1. IsFiniteSet(old) /\ running[t] = Cardinality(old) /\ j \notin old
      BY <1>6, ExecutingFinite, FS_Subset DEF CountsMatch, Pool!OfType
    <3>2. CASE j.type = t
      <4>1. new = old \cup {j}
        BY <1>6, <3>2 DEF Pool!OfType
      <4>2. running'[t] = running[t] + 1
        BY <1>1, <1>3, <3>2 DEF QueueType
      <4> SUFFICES running'[t] = Cardinality(new)
        OBVIOUS
      <4> HIDE DEF old, new
      <4> QED BY ZenonT(60), <3>1, <4>1, <4>2, FS_AddElement
    <3>3. CASE j.type # t
      <4>1. new = old
        BY <1>6, <3>3 DEF Pool!OfType
      <4>2. running'[t] = running[t]
        BY <1>1, <1>3, <3>3 DEF QueueType
      <4> QED BY <3>1, <4>1, <4>2
    <3> QED BY <3>2, <3>3
  <2> QED BY <2>1, <2>2 DEF CountsMatch
<1>10. Cardinality(Executing) < MaxThreads
  <2>1. Busy \subseteq Threads \ {w}
    BY <1>4 DEF Busy
  <2>2. IsFiniteSet(Threads \ {w}) /\ Cardinality(Threads \ {w}) = MaxThreads - 1
    BY ThreadsFinite, FS_RemoveElement
  <2>3. Cardinality(Busy) <= MaxThreads - 1
    BY <2>1, <2>2, FS_Subset
  <2>4. Cardinality(Executing) <= Cardinality(Busy) /\ IsFiniteSet(Busy)
    BY ImageFinite, ExecutingOfBusy DEF Busy
  <2>5. Cardinality(Executing) \in Nat /\ Cardinality(Busy) \in Nat
    BY <2>4, ExecutingFinite, FS_CardinalityType
  <2> QED BY <2>3, <2>4, <2>5, MaxThreadsAssumption
<1> QED BY Zenon, <1>1, <1>6, <1>7, <1>8, <1>9, <1>10 DEF PoolKept

LEMMA FinishKeeps ==
    ASSUME Core, NEW w \in Threads, FinishTask(w), PoolKept
    PROVE  /\ Core'
           /\ w \in Busy /\ job[w] \in Executing
           /\ Executing' = Executing \ {job[w]}
           /\ UNCHANGED jobSet
           /\ processCount - 1 = Cardinality(Executing')
<1> USE DEF Core
<1> DEFINE j == job[w]
<1>1. /\ pc[w] = "finish" /\ pc' = [pc EXCEPT ![w] = "wait"]
      /\ job' = [job EXCEPT ![w] = NoJob]
      /\ running' = [running EXCEPT ![j.type] = @ - 1]
      /\ processCount' = processCount - 1
      /\ UNCHANGED <<lastJob, jobSet>>
  BY DEF FinishTask, finishJob, Goto
<1>2. /\ pc \in [Threads -> PCs] /\ job \in [Threads -> Pool!Job \cup {NoJob}]
      /\ w \in Busy /\ j \in Executing
  BY <1>1, ExecutingOfBusy DEF QueueType, Busy
<1>3. j \in Pool!Job /\ j.type \in JobTypes
  BY <1>2 DEF OwnJobs, Pool!Job
<1>4. Busy' = Busy \ {w}
  BY <1>1, <1>2 DEF Busy
<1>5. \A v \in Busy' : job'[v] = job[v]
  BY <1>1, <1>2, <1>4 DEF Busy
<1>6. Executing' = Executing \ {j}
  <2>1. Executing' = {job'[v] : v \in Busy'}
    BY DEF Executing, Busy
  <2>2. \A v \in Busy : v # w => job[v] # j
    BY <1>2 DEF OwnJobs
  <2> QED BY <1>4, <1>5, <2>1, <2>2, ExecutingOfBusy
<1>7. IsFiniteSet(Executing) /\ Cardinality(Executing) \in Nat
  BY ExecutingFinite, FS_CardinalityType
<1>8. \A t \in JobTypes : running'[t] = Cardinality(Pool!OfType(Executing, t)') /\ running'[t] \in Nat
  <2> SUFFICES ASSUME NEW t \in JobTypes
               PROVE  running'[t] = Cardinality(Pool!OfType(Executing, t)') /\ running'[t] \in Nat
    OBVIOUS
  <2> DEFINE old == Pool!OfType(Executing, t)
             new == Pool!OfType(Executing, t)'
  <2>1. IsFiniteSet(old) /\ running[t] = Cardinality(old) /\ running[t] \in Nat
    BY <1>7, FS_Subset DEF CountsMatch, Pool!OfType, QueueType
  <2>2. CASE j.type = t
    <3>1. new = old \ {j} /\ j \in old
      BY <1>2, <1>6, <2>2 DEF Pool!OfType
    <3>2. running'[t] = running[t] - 1
      BY <1>1, <1>3, <2>2 DEF QueueType
    <3> SUFFICES running'[t] = Cardinality(new) /\ running'[t] \in Nat
      OBVIOUS
    <3> HIDE DEF old, new
    <3>3. Cardinality(new) = Cardinality(old) - 1 /\ IsFiniteSet(new)
      BY <2>1, <3>1, FS_RemoveElement
    <3> QED BY <2>1, <3>2, <3>3, FS_CardinalityType
  <2>3. CASE j.type # t
    <3>1. new = old
      BY <1>6, <2>3 DEF Pool!OfType
    <3>2. running'[t] = running[t]
      BY <1>1, <1>3, <2>3 DEF QueueType
    <3> QED BY <2>1, <3>1, <3>2
  <2> QED BY <2>2, <2>3
<1>9. processCount - 1 = Cardinality(Executing')
  BY Zenon, <1>2, <1>6, <1>7, FS_RemoveElement DEF CountsMatch
<1>10. CountsMatch'
  BY <1>1, <1>8, <1>9 DEF CountsMatch
<1>11. QueueType'
  <2>1. running' \in [JobTypes -> Nat]
    BY Zenon, <1>1, <1>8 DEF QueueType
  <2> QED BY <1>1, <1>2, <2>1 DEF QueueType, PoolKept, Pool!Job
<1>12. OwnJobs'
  BY <1>1, <1>4, <1>5 DEF OwnJobs, Pool!Job
<1> QED BY <1>1, <1>2, <1>6, <1>9, <1>10, <1>11, <1>12 DEF PoolKept

-----------------------------------------------------------------------------
(* The threads *)

\* A step of Worker::run moves a thread that exists and has no job.
LEMMA RunStepMoves ==
    ASSUME QueueType, OnlyCreated, NEW w \in Threads, RunStep(w)
    PROVE  /\ pc' \in [Threads -> PCs] /\ UNCHANGED everyone /\ OnlyCreated'
           /\ Busy' = Busy /\ AtJob' = AtJob
<1>1. /\ pc[w] \notin {"none", "exited", "job", "finish"}
      /\ UNCHANGED everyone
      /\ \E x \in PCs \ {"none", "job", "finish"} : pc' = [pc EXCEPT ![w] = x]
  BY DEF RunStep, Start, ResetAllPaused, WaitSemaphore, LoadPauseCount, DecrementPauseCount,
         UndoDecrement, PushPaused, Deactivate, SignalAllPaused, Wakeup, Goto, ownerVars,
         PCs, InTask
<1>2. pc \in [Threads -> PCs]
  BY DEF QueueType
<1>3. pc' \in [Threads -> PCs] /\ Busy' = Busy /\ AtJob' = AtJob
  BY <1>1, <1>2 DEF Busy, AtJob
<1>4. OnlyCreated'
  BY <1>1, <1>2 DEF OnlyCreated
<1> QED BY <1>1, <1>3, <1>4

\* setNumberOfThreads only starts a thread that does not exist.
LEMMA SetterMoves ==
    ASSUME QueueType, OnlyCreated, SetterStep \/ ReleaseWorker \/ JoinWorker
    PROVE  /\ pc' \in [Threads -> PCs] /\ everyone' \in Nat /\ OnlyCreated'
           /\ Busy' = Busy /\ AtJob' = AtJob
<1>0. pc \in [Threads -> PCs] /\ everyone \in Nat /\ Threads \subseteq Nat
  BY DEF QueueType, Threads
<1>1. CASE UNCHANGED <<everyone, pc>>
  BY <1>0, <1>1 DEF OnlyCreated, Busy, AtJob
<1>2. CASE everyone' = everyone + 1 /\ pc' = [pc EXCEPT ![everyone + 1] = "start"]
  <2>1. pc' \in [Threads -> PCs]
    BY Zenon, <1>0, <1>2 DEF PCs
  <2>2. \A v \in Threads : v # everyone + 1 => pc'[v] = pc[v]
    BY <1>0, <1>2
  <2>3. everyone + 1 \in Threads =>
          pc'[everyone + 1] = "start" /\ pc[everyone + 1] \in {"none", "exited"}
    BY <1>0, <1>2 DEF OnlyCreated
  <2>4. Busy' = Busy /\ AtJob' = AtJob
    BY <2>2, <2>3 DEF Busy, AtJob
  <2>5. OnlyCreated'
    BY <1>0, <1>2, <2>2 DEF OnlyCreated
  <2> QED BY <1>0, <1>2, <2>1, <2>4, <2>5
<1>3. CASE JoinWorker
  <2>1. /\ everyone > 0 /\ pc[everyone] = "exited"
        /\ everyone' = everyone - 1 /\ UNCHANGED pc
    BY <1>3 DEF JoinWorker
  <2>2. OnlyCreated'
    BY <1>0, <2>1 DEF OnlyCreated
  <2> QED BY <1>0, <2>1, <2>2 DEF Busy, AtJob
<1> QED BY <1>1, <1>2, <1>3 DEF SetterStep, AddThread, RequestPause, NotifyPause,
           ReleaseWorker, Goto, ownerVars

\* A thread that ends a job at "job" goes to "finish".
LEMMA ToFinish ==
    ASSUME QueueType, OnlyCreated, NEW w \in Threads, pc[w] = "job",
           pc' = [pc EXCEPT ![w] = "finish"], UNCHANGED everyone
    PROVE  /\ pc' \in [Threads -> PCs] /\ OnlyCreated'
           /\ Busy' = Busy /\ AtJob' = AtJob \ {w} /\ w \in Busy
<1>1. pc \in [Threads -> PCs]
  BY DEF QueueType
<1> QED BY <1>1 DEF OnlyCreated, Busy, AtJob, PCs, InTask

LEMMA FromTask ==
    ASSUME QueueType, OnlyCreated, NEW w \in Threads, pc[w] \in {"task", "finish"},
           NEW x \in {"job", "wait"}, pc' = [pc EXCEPT ![w] = x], UNCHANGED everyone
    PROVE  pc' \in [Threads -> PCs] /\ OnlyCreated'
<1>1. pc \in [Threads -> PCs]
  BY DEF QueueType
<1> QED BY <1>1 DEF OnlyCreated, PCs, InTask

-----------------------------------------------------------------------------
(* Each step keeps the invariant *)

Rest == CounterMatches /\ StopOrder /\ Suspends /\ StoppedIsQuiet

LEMMA CountedSame ==
    ASSUME UNCHANGED <<job, jobSet>>, AtJob' = AtJob
    PROVE  CountedJobs' = CountedJobs
BY DEF CountedJobs

LEMMA RestSame ==
    ASSUME Rest, CountedJobs' = CountedJobs, Executing' = Executing, jobSet' = jobSet,
           UNCHANGED <<callerVars, main, stopVars>>
    PROVE  Rest'
<1> USE DEF Rest, callerVars, counterVars, stopVars
<1>1. CounterMatches' /\ Suspends'
  BY DEF CounterMatches, Suspends
<1>2. StopOrder'
  BY DEF StopOrder
<1>3. StoppedIsQuiet'
  BY DEF StoppedIsQuiet
<1> QED BY <1>1, <1>2, <1>3

\* Steps of the pool alone.
LEMMA PoolStepKeeps ==
    ASSUME IInv,
           \/ \E w \in Threads : WorkerStep(w)
           \/ setterStep
           \/ deleteWorkers
           \/ UNCHANGED vars
    PROVE  IInv'
<1> USE DEF IInv
<1>1. /\ pc' \in [Threads -> PCs] /\ everyone' \in Nat /\ OnlyCreated'
      /\ Busy' = Busy /\ AtJob' = AtJob
  <2>1. CASE UNCHANGED vars
    BY <2>1 DEF vars, workerVars, ownerVars, QueueType, OnlyCreated, Busy, AtJob
  <2>2. QueueType /\ everyone \in Nat
    BY DEF QueueType
  <2> QED BY <2>1, <2>2, RunStepMoves, SetterMoves DEF WorkerStep, setterStep, deleteWorkers
<1>2. UNCHANGED <<queueVars, processCount, job, callerVars, main, stopVars>>
  BY DEF WorkerStep, setterStep, deleteWorkers, vars
<1>3. PoolKept /\ Leaves
  BY <1>1, <1>2 DEF PoolKept, Leaves, QueueType, queueVars, typeData, callerVars, counterVars
<1>4. Core' /\ Executing' = Executing
  BY <1>3, LeavesKeeps DEF Core
<1>5. CountedJobs' = CountedJobs /\ jobSet' = jobSet
  BY <1>1, <1>2, CountedSame DEF queueVars
<1>6. Rest'
  BY <1>2, <1>4, <1>5, RestSame DEF Rest
<1> QED BY <1>4, <1>6 DEF Core, Rest

LEMMA TakeJobKeeps ==
    ASSUME IInv, NEW w \in Threads, TakeJob(w)
    PROVE  IInv'
<1> USE DEF IInv
<1>1. /\ pc[w] = "task" /\ pc' = [pc EXCEPT ![w] = "job"]
      /\ UNCHANGED <<everyone, callerVars, main, stopVars>>
  BY DEF TakeJob, Goto, poolButSemaphore, ownerVars
<1>2. PoolKept
  BY Zenon, <1>1, FromTask DEF PoolKept, QueueType, callerVars, counterVars
<1>3. PICK j \in Runnable :
        /\ job' = [job EXCEPT ![w] = j]
        /\ jobSet' = jobSet \ {j}
        /\ Executing' = Executing \cup {j}
  BY <1>2, TakeKeeps DEF Core
<1>4. Core'
  BY <1>2, TakeKeeps DEF Core
<1>5. j \in jobSet /\ pc \in [Threads -> PCs] /\ job \in [Threads -> Pool!Job \cup {NoJob}]
  BY DEF Runnable, QueueType
<1>6. CountedJobs' = CountedJobs
  <2>1. AtJob' = AtJob \cup {w} /\ w \notin AtJob
    BY <1>1, <1>5 DEF AtJob
  <2>2. job'[w] = j /\ \A v \in AtJob : job'[v] = job[v]
    BY <1>3, <1>5, <2>1 DEF AtJob
  <2>3. {job'[v] : v \in AtJob'} = {job[v] : v \in AtJob} \cup {j}
    BY <2>1, <2>2
  <2>4. jobSet' \cup {job'[v] : v \in AtJob'} = jobSet \cup {job[v] : v \in AtJob}
    BY <1>3, <1>5, <2>3
  <2> QED BY <2>4 DEF CountedJobs
<1>7. ~stoppedEvent
  BY <1>5 DEF StoppedIsQuiet
<1>8. Rest'
  <2> USE DEF callerVars, counterVars, stopVars
  <2>1. CounterMatches' /\ Suspends'
    BY <1>1, <1>6 DEF CounterMatches, Suspends
  <2>2. StopOrder'
    BY <1>1, <1>6 DEF StopOrder
  <2>3. StoppedIsQuiet'
    BY <1>1, <1>7 DEF StoppedIsQuiet
  <2> QED BY <2>1, <2>2, <2>3 DEF Rest
<1> QED BY <1>4, <1>8 DEF Core, Rest

LEMMA FinishTaskKeeps ==
    ASSUME IInv, NEW w \in Threads, FinishTask(w)
    PROVE  IInv'
<1> USE DEF IInv
<1>1. /\ pc[w] = "finish" /\ pc' = [pc EXCEPT ![w] = "wait"]
      /\ job' = [job EXCEPT ![w] = NoJob]
      /\ stoppedEvent' = (stoppedEvent \/ (/\ isStopping /\ childrenStopped
                                           /\ processCount - 1 = 0 /\ jobSet = {}
                                           /\ nSuspend = 0))
      /\ UNCHANGED <<everyone, callerVars, main, isStopping, childrenStopped, isStopped>>
  BY DEF FinishTask, Goto, checkStopped, poolButSemaphore, ownerVars
<1>2. PoolKept
  BY Zenon, <1>1, FromTask DEF PoolKept, QueueType, callerVars, counterVars
<1>3. /\ Core'
      /\ Executing' \subseteq Executing /\ UNCHANGED jobSet
      /\ processCount - 1 = Cardinality(Executing')
  BY <1>2, FinishKeeps DEF Core
<1>4. pc \in [Threads -> PCs] /\ job \in [Threads -> Pool!Job \cup {NoJob}]
  BY DEF QueueType
<1>5. CountedJobs' = CountedJobs
  <2>1. AtJob' = AtJob /\ w \notin AtJob
    BY <1>1, <1>4 DEF AtJob
  <2>2. \A v \in AtJob : job'[v] = job[v]
    BY <1>1, <1>4, <2>1 DEF AtJob
  <2> QED BY <1>3, <2>1, <2>2 DEF CountedJobs
<1>6. processCount - 1 = 0 => Executing' = {}
  <2>1. IsFiniteSet(Executing')
    BY ExecutingFinite, FS_Subset, <1>3
  <2> QED BY <1>3, <2>1, FS_EmptySet
<1>7. Rest'
  <2> USE DEF callerVars, counterVars
  <2>1. CounterMatches' /\ Suspends'
    BY <1>1, <1>5 DEF CounterMatches, Suspends
  <2>2. StopOrder'
    BY <1>1, <1>5 DEF StopOrder
  <2>3. StoppedIsQuiet'
    <3>1. stoppedEvent' \in BOOLEAN
      BY <1>1
    <3>2. stoppedEvent => stoppedEvent'
      BY Zenon, <1>1
    <3>3. stoppedEvent' /\ ~stoppedEvent => main \in Childless /\ jobSet = {} /\ Executing' = {}
                                             /\ nSuspend = 0
      BY Zenon, <1>1, <1>6 DEF StopOrder
    <3> QED BY <1>1, <1>3, <3>1, <3>2, <3>3 DEF StoppedIsQuiet
  <2> QED BY <2>1, <2>2, <2>3 DEF Rest
<1> QED BY <1>3, <1>7 DEF Core, Rest

\* A job that is not counted ends, and has added at most a plain job.
LEMMA CountedAtFinish ==
    ASSUME QueueType, NEW w \in AtJob, job[w].body # "counted", AtJob' = AtJob \ {w},
           UNCHANGED job,
           jobSet' = jobSet \/ \E i : i.body # "counted" /\ jobSet' = jobSet \cup {i}
    PROVE  CountedJobs' = CountedJobs
BY DEF CountedJobs

LEMMA RunPlainKeeps ==
    ASSUME IInv, NEW w \in Threads, RunPlain(w)
    PROVE  IInv'
<1> USE DEF IInv
<1>1. /\ pc[w] = "job" /\ job[w].body = "plain" /\ pc' = [pc EXCEPT ![w] = "finish"]
      /\ UNCHANGED <<everyone, queueVars, processCount, job, callerVars, main, stopVars>>
  BY DEF RunPlain, Goto, poolButSemaphore, ownerVars
<1>2. /\ pc' \in [Threads -> PCs] /\ OnlyCreated'
      /\ Busy' = Busy /\ AtJob' = AtJob \ {w} /\ w \in AtJob
  BY ZenonT(60), <1>1, ToFinish DEF AtJob
<1>3. PoolKept /\ Leaves
  BY <1>1, <1>2 DEF PoolKept, Leaves, QueueType, queueVars, typeData, callerVars, counterVars
<1>4. Core' /\ Executing' = Executing
  BY Zenon, <1>3, LeavesKeeps DEF Core
<1>5. CountedJobs' = CountedJobs /\ jobSet' = jobSet
  BY ZenonT(30), <1>1, <1>2, CountedAtFinish DEF queueVars
<1>6. Rest'
  BY <1>1, <1>4, <1>5, RestSame DEF Rest
<1> QED BY <1>4, <1>6 DEF Core, Rest

LEMMA RunParentKeeps ==
    ASSUME IInv, NEW w \in Threads, RunParent(w)
    PROVE  IInv' /\ Adds(TimerType, "plain") /\ Executing' = Executing /\ Executing # {}
<1> USE DEF IInv
<1>1. /\ pc[w] = "job" /\ job[w].body = "parent" /\ pc' = [pc EXCEPT ![w] = "finish"]
      /\ lastJob' = lastJob + 1
      /\ jobSet' = jobSet \cup {[type |-> TimerType, index |-> lastJob + 1, body |-> "plain"]}
      /\ UNCHANGED <<everyone, running, processCount, job, callerVars, main, stopVars>>
  BY DEF RunParent, addJob, Goto, poolButSemaphore, ownerVars
<1>2. /\ pc' \in [Threads -> PCs] /\ OnlyCreated'
      /\ Busy' = Busy /\ AtJob' = AtJob \ {w} /\ w \in AtJob /\ w \in Busy
  BY ZenonT(60), <1>1, ToFinish DEF AtJob
<1>3. PoolKept /\ Adds(TimerType, "plain")
  BY <1>1, <1>2 DEF PoolKept, Adds, QueueType, callerVars, counterVars
<1>4. Core' /\ Executing' = Executing
  BY ZenonT(30), <1>3, AddsKeeps, JobTypesAssumption DEF Core, Bodies
<1>5. CountedJobs' = CountedJobs
  BY Zenon, <1>1, <1>2, CountedAtFinish
<1>6. Executing # {} /\ ~stoppedEvent
  BY ZenonT(30), <1>2, ExecutingOfBusy DEF StoppedIsQuiet
<1>7. Rest'
  <2> USE DEF callerVars, counterVars, stopVars
  <2>1. CounterMatches' /\ Suspends'
    BY ZenonT(60), <1>1, <1>5 DEF CounterMatches, Suspends
  <2>2. StopOrder'
    BY <1>1, <1>5 DEF StopOrder
  <2>3. StoppedIsQuiet'
    BY <1>1, <1>6 DEF StoppedIsQuiet
  <2> QED BY <2>1, <2>2, <2>3 DEF Rest
<1> QED BY <1>3, <1>4, <1>6, <1>7 DEF Core, Rest

LEMMA RunCountedKeeps ==
    ASSUME IInv, NEW w \in Threads, RunCounted(w)
    PROVE  IInv'
<1> USE DEF IInv
<1> DEFINE j == job[w]
<1>1. /\ pc[w] = "job" /\ j.body = "counted" /\ pc' = [pc EXCEPT ![w] = "finish"]
      /\ jobCount' = jobCount - 1
      /\ UNCHANGED <<everyone, queueVars, processCount, job, waitForJobs, timer, coro,
                     nSuspend, main, stopVars>>
  BY DEF RunCounted, Goto, poolButSemaphore, ownerVars
<1>2. /\ pc' \in [Threads -> PCs] /\ OnlyCreated'
      /\ Busy' = Busy /\ AtJob' = AtJob \ {w} /\ w \in AtJob
  BY ZenonT(60), <1>1, ToFinish DEF AtJob
<1>3. PoolKept /\ Leaves
  BY <1>1, <1>2 DEF PoolKept, Leaves, QueueType, queueVars, typeData
<1>4. Core' /\ Executing' = Executing
  BY <1>3, LeavesKeeps DEF Core
<1>5. CountedJobs' = CountedJobs \ {j} /\ j \in CountedJobs
  <2>1. j \notin jobSet /\ \A v \in AtJob : v # w => job[v] # j
    BY ZenonT(60), <1>2 DEF OwnJobs, AtJob, Busy
  <2> QED BY Zenon, <1>1, <1>2, <2>1 DEF CountedJobs, queueVars
<1>6. CounterMatches'
  <2>1. Cardinality(CountedJobs') = Cardinality(CountedJobs) - 1
    BY Zenon, <1>5, CountedFinite, FS_RemoveElement
  <2>2. Cardinality(CountedJobs) \in Nat
    BY CountedFinite, FS_CardinalityType
  <2> QED BY <1>1, <2>1, <2>2 DEF CounterMatches
<1>7. StopOrder' /\ Suspends'
  BY <1>1, <1>5 DEF StopOrder, Suspends, stopVars
<1>8. StoppedIsQuiet'
  BY Zenon, <1>1, <1>4 DEF StoppedIsQuiet, stopVars, queueVars
<1> QED BY <1>4, <1>6, <1>7, <1>8 DEF Core

\* The coroutine is resumed, or leaves its job.
LEMMA RunCoroKeeps ==
    ASSUME IInv, NEW w \in Threads, ResumeCoro(w) \/ LeaveCoro(w)
    PROVE  IInv' /\ Leaves /\ Executing' = Executing /\ Executing # {}
<1> USE DEF IInv
<1>1. /\ pc[w] = "job" /\ job[w].body = "coro"
      /\ UNCHANGED <<everyone, queueVars, processCount, job, counterVars, main, stopVars>>
      /\ UNCHANGED pc \/ pc' = [pc EXCEPT ![w] = "finish"]
  BY ZenonT(60) DEF ResumeCoro, LeaveCoro, Goto, poolButSemaphore, ownerVars
<1>2. /\ pc' \in [Threads -> PCs] /\ OnlyCreated'
      /\ Busy' = Busy /\ AtJob' \in {AtJob, AtJob \ {w}} /\ w \in AtJob /\ w \in Busy
  <2>1. CASE UNCHANGED pc
    BY <1>1, <2>1 DEF QueueType, OnlyCreated, Busy, AtJob
  <2>2. CASE pc' = [pc EXCEPT ![w] = "finish"]
    BY ZenonT(60), <1>1, <2>2, ToFinish DEF AtJob
  <2> QED BY <1>1, <2>1, <2>2
<1>3. /\ coro \in {"posted", "running"}
      /\ coro = "posted" => coro' = "running" /\ nSuspend' = nSuspend - 1
      /\ coro = "running" => \/ coro' = "suspended" /\ nSuspend' = nSuspend + 1
                             \/ coro' = "ended" /\ nSuspend' = nSuspend
  BY DEF ResumeCoro, LeaveCoro
<1>4. Suspends' /\ nSuspend' \in Int
  BY <1>3 DEF Suspends
<1>5. PoolKept /\ Leaves
  BY <1>1, <1>2, <1>4 DEF PoolKept, Leaves, QueueType, queueVars, typeData, counterVars
<1>6. Core' /\ Executing' = Executing
  BY <1>5, LeavesKeeps DEF Core
<1>7. CountedJobs' = CountedJobs
  BY Zenon, <1>1, <1>2, CountedAtFinish, CountedSame DEF queueVars
<1>8. main \notin Childless /\ ~stoppedEvent
  BY Zenon, <1>3 DEF StopOrder, StoppedIsQuiet
<1>9. CounterMatches' /\ StopOrder'
  BY ZenonT(60), <1>1, <1>7, <1>8 DEF CounterMatches, StopOrder, counterVars, stopVars
<1>10. StoppedIsQuiet'
  BY <1>1, <1>8 DEF StoppedIsQuiet, stopVars
<1>11. Executing # {}
  BY <1>2, ExecutingOfBusy
<1> QED BY Zenon, <1>4, <1>5, <1>6, <1>9, <1>10, <1>11 DEF Core

-----------------------------------------------------------------------------
(* The callers *)

\* The wrapper of addCountedJob is made and destroyed.
LEMMA TimerKeeps ==
    ASSUME IInv, wrap \/ unwrap
    PROVE  IInv' /\ Leaves /\ Executing' = Executing
<1> USE DEF IInv
<1>1. /\ UNCHANGED <<pc, everyone, queueVars, processCount, job, waitForJobs, coro,
                     nSuspend, main, stopVars>>
      /\ \/ timer = "idle" /\ ~waitForJobs /\ timer' = "wrapped" /\ jobCount' = jobCount + 1
         \/ timer = "added" /\ timer' = "idle" /\ jobCount' = jobCount - 1
  BY DEF wrap, unwrap, workerVars, ownerVars
<1>2. Busy' = Busy /\ AtJob' = AtJob /\ OnlyCreated'
  BY <1>1 DEF Busy, AtJob, OnlyCreated
<1>3. PoolKept /\ Leaves
  BY <1>1, <1>2 DEF PoolKept, Leaves, QueueType, queueVars, typeData
<1>4. Core' /\ Executing' = Executing
  BY <1>3, LeavesKeeps DEF Core
<1>5. CountedJobs' = CountedJobs
  BY <1>1, <1>2, CountedSame DEF queueVars
<1>6. main \notin Joined
  <2>1. CASE ~waitForJobs
    BY <2>1 DEF StopOrder, BeforeJoin, Starting, Joined
  <2>2. CASE timer = "added"
    BY <2>2 DEF StopOrder
  <2> QED BY <1>1, <2>1, <2>2
<1>7. CounterMatches' /\ Suspends'
  <2>1. Cardinality(CountedJobs) \in Nat
    BY CountedFinite, FS_CardinalityType
  <2> QED BY <1>1, <1>5, <2>1 DEF CounterMatches, Suspends
<1>8. StopOrder'
  BY <1>1, <1>6 DEF StopOrder, stopVars
<1>9. StoppedIsQuiet'
  BY <1>1, <1>4 DEF StoppedIsQuiet, stopVars, queueVars
<1> QED BY <1>3, <1>4, <1>7, <1>8, <1>9 DEF Core

LEMMA AddCountedJobKeeps ==
    ASSUME IInv, addCountedJob
    PROVE  /\ IInv' /\ Adds(TimerType, "counted") /\ Executing' = Executing
           /\ main \notin Childless
<1> USE DEF IInv
<1> DEFINE new == [type |-> TimerType, index |-> lastJob + 1, body |-> "counted"]
<1>1. /\ timer = "wrapped" /\ timer' = "added" /\ jobCount' = jobCount + 1
      /\ lastJob' = lastJob + 1 /\ jobSet' = jobSet \cup {new}
      /\ UNCHANGED <<pc, everyone, running, processCount, job, waitForJobs, coro,
                     nSuspend, main, stopVars>>
  BY DEF addCountedJob, addJob, poolButSemaphore, ownerVars
<1>2. Busy' = Busy /\ AtJob' = AtJob /\ OnlyCreated'
  BY <1>1 DEF Busy, AtJob, OnlyCreated
<1>3. PoolKept /\ Adds(TimerType, "counted")
  BY <1>1, <1>2 DEF PoolKept, Adds, QueueType
<1>4. Core' /\ Executing' = Executing
  BY <1>3, AddsKeeps, JobTypesAssumption DEF Core, Bodies
<1>5. main \notin Joined /\ ~stoppedEvent
  BY ZenonT(60), <1>1 DEF StopOrder, StoppedIsQuiet, Childless
<1>6. CountedJobs' = CountedJobs \cup {new} /\ new \notin CountedJobs
  <2>1. \A i \in jobSet \cup {job[w] : w \in AtJob} : i.index \in Nat /\ i.index <= lastJob
    BY DEF OwnJobs, QueueType, Pool!Job, AtJob, Busy
  <2>2. new.index = lastJob + 1 /\ new.body = "counted" /\ lastJob \in Nat
    BY DEF QueueType
  <2>3. new \notin CountedJobs
    BY <2>1, <2>2 DEF CountedJobs
  <2> QED BY <1>1, <1>2, <2>2, <2>3 DEF CountedJobs
<1>7. CounterMatches' /\ Suspends'
  <2>1. Cardinality(CountedJobs') = Cardinality(CountedJobs) + 1 /\ Cardinality(CountedJobs) \in Nat
    <3> HIDE DEF new
    <3> QED BY <1>6, CountedFinite, FS_AddElement, FS_CardinalityType
  <2> QED BY <1>1, <2>1 DEF CounterMatches, Suspends
<1>8. StopOrder'
  BY <1>1, <1>5 DEF StopOrder, stopVars
<1>9. StoppedIsQuiet'
  BY <1>1, <1>5 DEF StoppedIsQuiet, stopVars
<1> QED BY <1>3, <1>4, <1>5, <1>7, <1>8, <1>9 DEF Core, Childless

\* A job of another child, or of the coroutine.
LEMMA AddPlainKeeps ==
    ASSUME IInv, NEW body \in {"parent", "coro"},
           \/ AddOtherJob /\ body = "parent"
           \/ PostCoro /\ body = "coro"
    PROVE  /\ IInv' /\ Adds(CoroType, body) /\ Executing' = Executing
           /\ main \notin Childless
<1> USE DEF IInv
<1> DEFINE new == [type |-> CoroType, index |-> lastJob + 1, body |-> body]
<1>1. /\ lastJob' = lastJob + 1 /\ jobSet' = jobSet \cup {new}
      /\ UNCHANGED <<pc, everyone, running, processCount, job, counterVars, nSuspend,
                     main, stopVars>>
      /\ \/ ~childrenStopped /\ UNCHANGED coro
         \/ coro \in {"created", "suspended"} /\ coro' = "posted"
  BY DEF AddOtherJob, PostCoro, addJob, poolButSemaphore, ownerVars, callerVars
<1>2. Busy' = Busy /\ AtJob' = AtJob /\ OnlyCreated'
  BY <1>1 DEF Busy, AtJob, OnlyCreated
<1>3. PoolKept /\ Adds(CoroType, body)
  BY <1>1, <1>2 DEF PoolKept, Adds, QueueType, counterVars
<1>4. Core' /\ Executing' = Executing
  BY ZenonT(60), <1>3, AddsKeeps, JobTypesAssumption DEF Core, Bodies
<1>5. main \notin Childless /\ ~stoppedEvent
  BY <1>1 DEF StopOrder, StoppedIsQuiet
<1>6. CountedJobs' = CountedJobs
  BY <1>1, <1>2 DEF CountedJobs
<1>7. CounterMatches' /\ Suspends'
  BY ZenonT(60), <1>1, <1>6 DEF CounterMatches, Suspends, counterVars
<1>8. StopOrder'
  BY <1>1, <1>5, <1>6 DEF StopOrder, stopVars, counterVars
<1>9. StoppedIsQuiet'
  BY <1>1, <1>5 DEF StoppedIsQuiet, stopVars
<1> QED BY <1>3, <1>4, <1>5, <1>7, <1>8, <1>9 DEF Core

LEMMA CreateCoroKeeps ==
    ASSUME IInv, CreateCoro
    PROVE  IInv' /\ Leaves /\ Executing' = Executing /\ main \notin Childless
<1> USE DEF IInv
<1>1. /\ coro = "none" /\ coro' = "created" /\ nSuspend' = nSuspend + 1
      /\ main \in {"running", "onStop", "join"}
      /\ UNCHANGED <<pc, everyone, queueVars, processCount, job, counterVars, main, stopVars>>
  BY DEF CreateCoro, workerVars, ownerVars
<1>2. Busy' = Busy /\ AtJob' = AtJob /\ OnlyCreated'
  BY <1>1 DEF Busy, AtJob, OnlyCreated
<1>3. PoolKept /\ Leaves
  BY <1>1, <1>2 DEF PoolKept, Leaves, QueueType, queueVars, typeData, counterVars
<1>4. Core' /\ Executing' = Executing
  BY <1>3, LeavesKeeps DEF Core
<1>5. main \notin Childless /\ main \notin Joined /\ ~stoppedEvent
  BY <1>1 DEF Childless, Joined, StoppedIsQuiet
<1>6. CountedJobs' = CountedJobs
  BY <1>1, <1>2, CountedSame DEF queueVars
<1>7. CounterMatches' /\ Suspends'
  BY <1>1, <1>6 DEF CounterMatches, Suspends, counterVars
<1>8. StopOrder'
  BY <1>1, <1>5 DEF StopOrder, stopVars, counterVars
<1>9. StoppedIsQuiet'
  BY <1>1, <1>5 DEF StoppedIsQuiet, stopVars
<1> QED BY <1>3, <1>4, <1>5, <1>7, <1>8, <1>9 DEF Core

-----------------------------------------------------------------------------
(* The main thread *)

mainMoves ==
    \/ setThreadCount \/ start \/ stopAsync \/ joinJobs \/ joined \/ stopChildren
    \/ onChildrenStopped \/ stop \/ pauseAllThreads \/ allThreadsPaused \/ deleted

LEMMA MainKeeps ==
    ASSUME IInv, mainMoves
    PROVE  IInv' /\ Leaves /\ Executing' = Executing /\ UNCHANGED nSuspend
<1> USE DEF IInv
<1>1. /\ UNCHANGED <<pc, everyone, queueVars, processCount, job, jobCount, timer, coro, nSuspend>>
  BY Zenon DEF mainMoves, setThreadCount, start, stopAsync, joinJobs, joined, stopChildren,
         onChildrenStopped, stop, pauseAllThreads, allThreadsPaused, deleted,
         setNumberOfThreads, workerVars, ownerVars, callerVars, counterVars
<1>2. Busy' = Busy /\ AtJob' = AtJob /\ OnlyCreated'
  BY <1>1 DEF Busy, AtJob, OnlyCreated
<1>3. PoolKept /\ Leaves
  BY <1>1, <1>2 DEF PoolKept, Leaves, QueueType, queueVars, typeData
<1>4. Core' /\ Executing' = Executing
  BY <1>3, LeavesKeeps DEF Core
<1>5. CountedJobs' = CountedJobs
  BY <1>1, <1>2, CountedSame DEF queueVars
<1>6. CounterMatches' /\ Suspends'
  BY <1>1, <1>5 DEF CounterMatches, Suspends
<1>7. jobCount = 0 => timer = "idle" /\ CountedJobs = {}
  <2>1. Cardinality(CountedJobs) \in Nat /\ IsFiniteSet(CountedJobs)
    BY CountedFinite, FS_CardinalityType
  <2>2. jobCount = 0 => timer = "idle" /\ Cardinality(CountedJobs) = 0
    BY <2>1 DEF CounterMatches
  <2> QED BY <2>1, <2>2, FS_EmptySet
<1>8. processCount = 0 => Executing = {}
  BY ZenonT(60), ExecutingFinite, FS_EmptySet DEF CountsMatch
<1>9. StopOrder'
  <2> USE <1>1, <1>5, <1>7 DEF StopOrder, Starting, BeforeJoin, Joined, Childless, Over,
            mainGoto, stopVars, callerVars, counterVars
  <2>1. CASE setThreadCount
    BY <2>1 DEF setThreadCount
  <2>2. CASE start
    BY <2>2 DEF start
  <2>3. CASE stopAsync
    BY <2>3 DEF stopAsync
  <2>4. CASE joinJobs
    BY <2>4 DEF joinJobs
  <2>5. CASE joined
    BY <2>5 DEF joined
  <2>6. CASE stopChildren
    BY <2>6 DEF stopChildren
  <2>7. CASE onChildrenStopped
    BY <2>7 DEF onChildrenStopped
  <2>8. CASE stop
    BY <2>8 DEF stop
  <2>9. CASE pauseAllThreads \/ allThreadsPaused \/ deleted
    BY Zenon, <2>9 DEF pauseAllThreads, allThreadsPaused, deleted
  <2> HIDE <1>1, <1>5, <1>7 DEF StopOrder
  <2> QED BY ZenonT(60), <2>1, <2>2, <2>3, <2>4, <2>5, <2>6, <2>7, <2>8, <2>9 DEF mainMoves
<1>10. StoppedIsQuiet'
  <2> USE <1>1, <1>4, <1>8 DEF StoppedIsQuiet, Joined, Childless, Over, mainGoto, stopVars,
            queueVars
  <2>1. CASE setThreadCount \/ start
    BY <2>1 DEF setThreadCount, start
  <2>2. CASE stopAsync \/ joinJobs \/ joined \/ stopChildren
    BY <2>2 DEF stopAsync, joinJobs, joined, stopChildren
  <2>3. CASE onChildrenStopped
    <3>1. /\ main = "childrenStopped" /\ main' = "waitStopped"
          /\ stoppedEvent' = (stoppedEvent \/ (/\ isStopping /\ childrenStopped
                              /\ processCount = 0 /\ jobSet = {} /\ nSuspend = 0))
      BY <2>3 DEF onChildrenStopped, checkStopped
    <3> QED BY <3>1
  <2>4. CASE stop
    BY ZenonT(60), <2>4 DEF stop
  <2>5. CASE pauseAllThreads \/ allThreadsPaused \/ deleted
    BY <2>5 DEF pauseAllThreads, allThreadsPaused, deleted
  <2> QED BY ZenonT(60), <2>1, <2>2, <2>3, <2>4, <2>5 DEF mainMoves
<1> QED BY <1>1, <1>3, <1>4, <1>6, <1>9, <1>10 DEF Core

\* IInv is inductive.
LEMMA StepHolds == IInv /\ [Next]_vars => IInv'
<1> SUFFICES ASSUME IInv, [Next]_vars PROVE IInv'
  OBVIOUS
<1>1. CASE \E w \in Threads : WorkerStep(w) \/ TakeJob(w) \/ RunJob(w) \/ FinishTask(w)
  BY Zenon, <1>1, PoolStepKeeps, TakeJobKeeps, RunPlainKeeps, RunParentKeeps, RunCountedKeeps,
     RunCoroKeeps, FinishTaskKeeps DEF RunJob
<1>2. CASE wrap \/ addCountedJob \/ unwrap \/ AddOtherJob \/ CreateCoro \/ PostCoro
  BY <1>2, TimerKeeps, AddCountedJobKeeps, AddPlainKeeps, CreateCoroKeeps
<1>3. CASE MainStep \/ stopAsync
  BY <1>3, MainKeeps, PoolStepKeeps DEF MainStep, mainMoves
<1>4. CASE UNCHANGED vars
  BY <1>4, PoolStepKeeps
<1> QED BY <1>1, <1>2, <1>3, <1>4 DEF Next

\* Once JobCounter::join has returned, no counted job is queued or executed,
\* and none is being added.
THEOREM NoCountedJobEverAfterJoin == Spec => []NoCountedJobAfterJoin
<1>1. IInv => NoCountedJobAfterJoin
  <2> SUFFICES ASSUME IInv, main \notin {"setup", "starting", "running", "onStop", "join"}
               PROVE  /\ timer = "idle"
                      /\ \A j \in jobSet : j.body # "counted"
                      /\ \A w \in Threads : pc[w] = "job" => job[w].body # "counted"
    BY DEF NoCountedJobAfterJoin
  <2>1. timer = "idle" /\ CountedJobs = {}
    BY DEF IInv, StopOrder, BeforeJoin, Starting
  <2> QED BY <2>1 DEF CountedJobs, AtJob
<1> QED BY <1>1, InitHolds, StepHolds, PTL DEF Spec

-----------------------------------------------------------------------------
(* Refinement: each step is one of JobPool, or changes nothing it sees *)

LEMMA InitRefines == Init => Pool!PoolInit
BY DEF Init, WorkersInit, Pool!PoolInit, Executing

\* The assertion of JobQueue::addJob holds where jobs and coroutines call it.
LEMMA MayAdd ==
    ASSUME IInv, Executing # {} \/ main \notin Childless
    PROVE  Pool!MayAddJob
<1>1. ~isStopped
  BY DEF IInv, StopOrder, StoppedIsQuiet, Childless, Joined, Over
<1> QED BY <1>1 DEF IInv, StopOrder, Pool!MayAddJob

LEMMA AddRefines ==
    ASSUME Pool!MayAddJob, NEW type \in JobTypes, NEW body \in Bodies, Adds(type, body),
           Executing' = Executing, UNCHANGED <<nSuspend, stopVars>>
    PROVE  Pool!AddJob
BY DEF Pool!AddJob, Pool!addJob, Adds, stopVars, Pool!stopVars

\* JobPool counts with the same Cardinality.
LEMMA SameCardinality == \A S : Pool!Cardinality(S) = Cardinality(S)
BY DEF Pool!Cardinality, Cardinality

LEMMA TakeRefines ==
    ASSUME IInv, NEW w \in Threads, TakeJob(w)
    PROVE  \E j \in jobSet : Pool!BeginJob(j)
<1> USE DEF IInv
<1>1. /\ pc[w] = "task" /\ pc' = [pc EXCEPT ![w] = "job"]
      /\ UNCHANGED <<everyone, lastJob, callerVars, stopVars>>
  BY DEF TakeJob, Goto, poolButSemaphore, ownerVars
<1>2. PoolKept
  BY Zenon, <1>1, FromTask DEF PoolKept, QueueType, callerVars, counterVars
<1>3. PICK j \in Runnable :
        /\ \A i \in Runnable \ {j} : before(j, i)
        /\ jobSet' = jobSet \ {j}
        /\ Executing' = Executing \cup {j}
        /\ Cardinality(Executing) < MaxThreads
  BY <1>2, TakeKeeps DEF Core
<1>4. Runnable = Pool!Runnable
  <2>1. \A i \in jobSet : i.type \in JobTypes
    BY DEF QueueType, Pool!Job
  <2>2. \A i \in jobSet : running[i.type] = Cardinality(Pool!OfType(Executing, i.type))
    BY <2>1 DEF CountsMatch
  <2> QED BY <2>2, SameCardinality DEF Runnable, Pool!Runnable
<1>5. \A i \in Pool!Runnable \ {j} : Pool!before(j, i)
  BY <1>3, <1>4 DEF before, Pool!before
<1>6. UNCHANGED <<lastJob, nSuspend, Pool!stopVars>>
  BY <1>1 DEF callerVars, stopVars, Pool!stopVars
<1>7. j \in jobSet /\ j \in Pool!Runnable
  BY <1>4 DEF Runnable
<1>8. Pool!BeginJob(j)
  BY <1>3, <1>5, <1>6, <1>7, SameCardinality DEF Pool!BeginJob
<1> QED BY <1>7, <1>8

LEMMA FinishRefines ==
    ASSUME IInv, NEW w \in Threads, FinishTask(w)
    PROVE  \E j \in Executing : Pool!EndJob(j)
<1> USE DEF IInv
<1>1. /\ pc[w] = "finish" /\ pc' = [pc EXCEPT ![w] = "wait"]
      /\ UNCHANGED <<everyone, lastJob, callerVars, isStopping, childrenStopped, isStopped>>
  BY DEF FinishTask, Goto, poolButSemaphore, ownerVars
<1>2. PoolKept
  BY ZenonT(60), <1>1, FromTask DEF PoolKept, QueueType, callerVars, counterVars
<1>3. /\ job[w] \in Executing /\ Executing' = Executing \ {job[w]} /\ UNCHANGED jobSet
  BY <1>2, FinishKeeps DEF Core
<1> QED BY <1>1, <1>3 DEF Pool!EndJob, callerVars, Pool!stopVars

\* Steps of the threads and of the pool that JobPool does not see.
LEMMA HiddenRefines ==
    ASSUME IInv,
           \/ \E w \in Threads : WorkerStep(w) \/ RunPlain(w) \/ RunCounted(w)
           \/ setterStep \/ deleteWorkers
           \/ wrap \/ unwrap
           \/ UNCHANGED vars
    PROVE  UNCHANGED Pool!poolVars
<1> USE DEF IInv
<1>1. UNCHANGED <<queueVars, job, nSuspend, stopVars>>
  BY DEF WorkerStep, RunPlain, RunCounted, setterStep, deleteWorkers, wrap, unwrap, vars,
         callerVars
<1>2. Busy' = Busy
  <2>1. ASSUME NEW w \in Threads, RunPlain(w) \/ RunCounted(w)
        PROVE  Busy' = Busy
    BY <2>1, ToFinish DEF RunPlain, RunCounted, Goto, poolButSemaphore, ownerVars
  <2>2. CASE wrap \/ unwrap \/ UNCHANGED vars
    BY <2>2 DEF wrap, unwrap, vars, workerVars, Busy
  <2> QED BY ZenonT(60), <2>1, <2>2, RunStepMoves, SetterMoves DEF WorkerStep, setterStep, deleteWorkers
<1>3. Executing' = Executing
  BY Zenon, <1>1, <1>2 DEF Executing, Busy
<1> HIDE DEF IInv
<1>4. UNCHANGED <<lastJob, jobSet, nSuspend>> /\ UNCHANGED stopVars
  BY <1>1 DEF queueVars
<1> QED BY <1>3, <1>4 DEF Pool!poolVars, Pool!stopVars, stopVars

LEMMA CoroRefines ==
    ASSUME IInv, (\E w \in Threads : ResumeCoro(w) \/ LeaveCoro(w)) \/ CreateCoro
    PROVE  Pool!ChangeSuspended \/ UNCHANGED Pool!poolVars
<1>1. Leaves /\ Executing' = Executing /\ (Executing # {} \/ main \notin Childless)
  BY RunCoroKeeps, CreateCoroKeeps
<1>2. Pool!MayAddJob
  BY <1>1, MayAdd
<1>3. UNCHANGED stopVars /\ nSuspend' \in {nSuspend - 1, nSuspend, nSuspend + 1}
  BY DEF ResumeCoro, LeaveCoro, CreateCoro
<1> QED BY <1>1, <1>2, <1>3
        DEF Leaves, Pool!ChangeSuspended, Pool!poolVars, Pool!stopVars, stopVars

LEMMA MainRefines ==
    ASSUME IInv, mainMoves
    PROVE  Pool!StopAsync \/ Pool!ChildrenStop \/ Pool!Stop \/ UNCHANGED Pool!poolVars
<1>1. /\ UNCHANGED <<lastJob, jobSet, nSuspend>> /\ Executing' = Executing
  BY MainKeeps DEF Leaves
<1> USE <1>1 DEF mainGoto, Pool!poolVars, Pool!stopVars, stopVars
<1>2. CASE stopAsync
  <2>1. ~isStopping
    BY <1>2 DEF IInv, StopOrder, Starting, stopAsync
  <2> QED BY Zenon, <1>2, <2>1 DEF stopAsync, Pool!StopAsync
<1>3. CASE stopChildren
  <2>1. isStopping /\ ~childrenStopped
    BY <1>3 DEF IInv, StopOrder, Starting, Childless, Joined, stopChildren
  <2> QED BY Zenon, <1>3, <2>1 DEF stopChildren, Pool!ChildrenStop
<1>4. CASE stop
  <2>1. isStopping /\ childrenStopped /\ ~isStopped
    BY <1>4 DEF IInv, StopOrder, Starting, Childless, Joined, Over, stop
  <2>2. Pool!Quiet
    <3>1. StoppedIsQuiet /\ stoppedEvent
      BY <1>4 DEF IInv, stop
    <3> QED BY <3>1 DEF StoppedIsQuiet, Pool!Quiet
  <2> QED BY Zenon, <1>4, <2>1, <2>2 DEF stop, Pool!Stop
<1>5. CASE setThreadCount \/ start \/ joinJobs \/ joined \/ onChildrenStopped
           \/ pauseAllThreads \/ allThreadsPaused \/ deleted
  BY <1>5 DEF setThreadCount, start, joinJobs, joined, onChildrenStopped, pauseAllThreads,
              allThreadsPaused, deleted
<1> QED BY <1>2, <1>3, <1>4, <1>5 DEF mainMoves

LEMMA StepRefines == IInv /\ [Next]_vars => [Pool!PoolNext]_(Pool!poolVars)
<1> SUFFICES ASSUME IInv, [Next]_vars PROVE [Pool!PoolNext]_(Pool!poolVars)
  OBVIOUS
<1>1. ASSUME NEW w \in Threads, WorkerStep(w) \/ TakeJob(w) \/ RunJob(w) \/ FinishTask(w)
      PROVE  [Pool!PoolNext]_(Pool!poolVars)
  <2>1. CASE RunParent(w)
    <3>1. UNCHANGED <<nSuspend, stopVars>>
      BY <2>1 DEF RunParent, callerVars
    <3>2. Pool!MayAddJob
      BY <2>1, RunParentKeeps, MayAdd
    <3>3. Pool!AddJob
      BY <2>1, <3>1, <3>2, RunParentKeeps, AddRefines, JobTypesAssumption DEF Bodies
    <3> QED BY <3>3 DEF Pool!PoolNext
  <2> QED BY <1>1, <2>1, TakeRefines, FinishRefines, HiddenRefines, CoroRefines
          DEF RunJob, Pool!PoolNext
<1>2. CASE addCountedJob \/ AddOtherJob \/ PostCoro
  <2>1. UNCHANGED <<nSuspend, stopVars>>
    BY <1>2 DEF addCountedJob, AddOtherJob, PostCoro, callerVars
  <2>2. PICK type \in JobTypes, body \in Bodies :
          Adds(type, body) /\ Executing' = Executing /\ main \notin Childless
    BY <1>2, AddCountedJobKeeps, AddPlainKeeps, JobTypesAssumption DEF Bodies
  <2>3. Pool!AddJob
    BY <2>1, <2>2, MayAdd, AddRefines
  <2> QED BY <2>3 DEF Pool!PoolNext
<1>3. CASE wrap \/ unwrap \/ CreateCoro \/ UNCHANGED vars
  BY <1>3, HiddenRefines, CoroRefines DEF Pool!PoolNext
<1>4. CASE MainStep \/ stopAsync
  BY <1>4, MainRefines, HiddenRefines DEF MainStep, mainMoves, Pool!PoolNext
<1> QED BY <1>1, <1>2, <1>3, <1>4 DEF Next

\* The job queue over its threads does what JobPool promises: jobs start in
\* order and within their limits, are added only when the assertion of
\* addJob allows, and a stopped queue is empty with no coroutine suspended.
THEOREM JobQueueImplementsPool == Spec => PoolSpec
BY InitHolds, StepHolds, InitRefines, StepRefines, PTL DEF Spec, PoolSpec, Pool!PoolSpec

=============================================================================

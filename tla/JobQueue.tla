------------------------------ MODULE JobQueue ------------------------------
(***************************************************************************)
(* The job queue over its pool of threads: JobQueue.cpp, JobCounter.h, the *)
(* counting of Coro.ipp, and the order in which Stoppable.cpp stops them.  *)
(* A step is what the code does under one lock, or between two.            *)
(*                                                                         *)
(* The callers are a timer thread of NetworkOPs, which adds counted jobs,  *)
(* a thread of the server, which starts one coroutine, the jobs            *)
(* themselves, and the main thread, which stops everything and destroys    *)
(* the queue.                                                              *)
(***************************************************************************)
EXTENDS Workers, FiniteSets

CONSTANTS JobTypes, Limit,   \* as in JobPool
          TimerType,         \* the type of the counted jobs
          CoroType,          \* the type of the coroutine's jobs
          MaxJobs            \* bound: jobs added by the timer or by jobs

ASSUME JobTypesAssumption ==
    /\ JobTypes \subseteq Nat
    /\ Limit \in [JobTypes -> Nat \ {0}]
    /\ TimerType \in JobTypes /\ CoroType \in JobTypes

\* "counted" ends at once; "parent" adds a "plain" job before it ends.
Bodies == {"plain", "parent", "counted", "coro"}
NoJob == [type |-> 0, index |-> 0, body |-> "none"]

VARIABLES
    lastJob, jobSet, nSuspend,
    waiting, running, deferred,   \* JobTypeData of each type
    processCount,
    job,              \* the job each thread executes
    jobCount,         \* JobCounter::jobCount_
    waitForJobs,      \* JobCounter::waitForJobs_
    timer,            \* the timer thread in addCountedJob
    coro,             \* the coroutine
    main,             \* the main thread
    isStopping, childrenStopped, stoppedEvent, isStopped

typeData == <<waiting, running, deferred>>
queueVars == <<lastJob, jobSet, typeData>>
counterVars == <<jobCount, waitForJobs, timer>>
stopVars == <<isStopping, childrenStopped, stoppedEvent, isStopped>>
callerVars == <<counterVars, coro, nSuspend>>
vars == <<workerVars, queueVars, processCount, job, callerVars, main, stopVars>>

poolButSemaphore == <<countVars, ownerVars, paused, threadVars>>

Init ==
    /\ WorkersInit
    /\ lastJob = 0 /\ jobSet = {} /\ nSuspend = 0
    /\ waiting = [t \in JobTypes |-> 0]
    /\ running = [t \in JobTypes |-> 0]
    /\ deferred = [t \in JobTypes |-> 0]
    /\ processCount = 0
    /\ job = [w \in Threads |-> NoJob]
    /\ jobCount = 0 /\ waitForJobs = FALSE /\ timer = "idle"
    /\ coro = "none"
    /\ main = "setup"
    /\ isStopping = FALSE /\ childrenStopped = FALSE
    /\ stoppedEvent = FALSE /\ isStopped = FALSE

-----------------------------------------------------------------------------
(* Under m_mutex *)

before(i, j) == i.type > j.type \/ (i.type = j.type /\ i.index < j.index)

\* Mutant: a unit for every job, deferred or not.
queueJobAlwaysNotifies(type) ==
    /\ waiting' = [waiting EXCEPT ![type] = @ + 1]
    /\ semaphore' = semaphore + 1
    /\ deferred' = IF waiting[type] + running[type] < Limit[type]
                     THEN deferred ELSE [deferred EXCEPT ![type] = @ + 1]

\* The job is queued with a unit of the semaphore, or deferred.
queueJob(type) ==
    /\ waiting' = [waiting EXCEPT ![type] = @ + 1]
    /\ IF waiting[type] + running[type] < Limit[type]
         THEN semaphore' = semaphore + 1 /\ UNCHANGED deferred
         ELSE /\ deferred' = [deferred EXCEPT ![type] = @ + 1]
              /\ UNCHANGED semaphore

addJob(type, body) ==
    /\ lastJob' = lastJob + 1
    /\ jobSet' = jobSet \cup {[type |-> type, index |-> lastJob + 1, body |-> body]}
    /\ queueJob(type)
    /\ UNCHANGED running

\* Jobs of a type below its limit; getNextJob takes the first of them.
Runnable == {j \in jobSet : running[j.type] < Limit[j.type]}

getNextJob(w) ==
    \E j \in Runnable :
        /\ \A i \in Runnable \ {j} : before(j, i)
        /\ job' = [job EXCEPT ![w] = j]
        /\ jobSet' = jobSet \ {j}
        /\ waiting' = [waiting EXCEPT ![j.type] = @ - 1]
        /\ running' = [running EXCEPT ![j.type] = @ + 1]

\* Mutant: a finished job releases no deferred one.
finishJobForgetsDeferred(type) ==
    /\ running' = [running EXCEPT ![type] = @ - 1]
    /\ UNCHANGED <<deferred, semaphore>>

finishJob(type) ==
    /\ IF deferred[type] > 0
         THEN /\ deferred' = [deferred EXCEPT ![type] = @ - 1]
              /\ semaphore' = semaphore + 1
         ELSE UNCHANGED <<deferred, semaphore>>
    /\ running' = [running EXCEPT ![type] = @ - 1]

\* Mutant: queued jobs are not looked at.
checkStoppedIgnoresQueue(count) ==
    stoppedEvent' = (stoppedEvent \/ (/\ isStopping /\ childrenStopped
                                      /\ count = 0 /\ nSuspend = 0))

\* The last part of a step that leaves count calls of processTask.
checkStopped(count) ==
    stoppedEvent' = (stoppedEvent \/ (/\ isStopping /\ childrenStopped
                                      /\ count = 0 /\ jobSet = {} /\ nSuspend = 0))

-----------------------------------------------------------------------------
(* JobQueue::processTask *)

TakeJob(w) ==
    /\ pc[w] = "task"
    /\ getNextJob(w)
    /\ processCount' = processCount + 1
    /\ Goto(w, "job")
    /\ UNCHANGED <<semaphore, poolButSemaphore, lastJob, deferred, callerVars, main, stopVars>>

\* Job::doJob, and the destructor of the job, for each body.
RunPlain(w) ==
    /\ pc[w] = "job" /\ job[w].body = "plain"
    /\ Goto(w, "finish")
    /\ UNCHANGED <<semaphore, poolButSemaphore, queueVars, processCount, job,
                   callerVars, main, stopVars>>

RunParent(w) ==
    /\ pc[w] = "job" /\ job[w].body = "parent"
    /\ addJob(TimerType, "plain")
    /\ Goto(w, "finish")
    /\ UNCHANGED <<poolButSemaphore, processCount, job, callerVars, main, stopVars>>

\* ~CountedJob decrements the counter.
RunCounted(w) ==
    /\ pc[w] = "job" /\ job[w].body = "counted"
    /\ jobCount' = jobCount - 1
    /\ Goto(w, "finish")
    /\ UNCHANGED <<semaphore, poolButSemaphore, queueVars, processCount, job,
                   waitForJobs, timer, coro, nSuspend, main, stopVars>>

\* Coro::post, the lambda: the coroutine is no longer suspended.
ResumeCoro(w) ==
    /\ pc[w] = "job" /\ job[w].body = "coro"
    /\ coro = "posted"
    /\ nSuspend' = nSuspend - 1
    /\ coro' = "running"
    /\ UNCHANGED <<semaphore, poolButSemaphore, pc, queueVars, processCount, job,
                   counterVars, main, stopVars>>

\* Coro::yield, or the end of the function of the coroutine.
LeaveCoro(w) ==
    /\ pc[w] = "job" /\ job[w].body = "coro"
    /\ coro = "running"
    /\ \/ lastJob < MaxJobs /\ coro' = "suspended" /\ nSuspend' = nSuspend + 1
       \/ coro' = "ended" /\ UNCHANGED nSuspend
    /\ Goto(w, "finish")
    /\ UNCHANGED <<semaphore, poolButSemaphore, queueVars, processCount, job,
                   counterVars, main, stopVars>>

FinishTask(w) ==
    /\ pc[w] = "finish"
    /\ finishJob(job[w].type)
    /\ processCount' = processCount - 1
    /\ checkStopped(processCount - 1)
    /\ job' = [job EXCEPT ![w] = NoJob]
    /\ Goto(w, "wait")
    /\ UNCHANGED <<poolButSemaphore, lastJob, jobSet, waiting, callerVars, main,
                   isStopping, childrenStopped, isStopped>>

WorkerStep(w) == RunStep(w) /\ UNCHANGED <<queueVars, processCount, job, callerVars, main, stopVars>>

RunJob(w) == RunPlain(w) \/ RunParent(w) \/ RunCounted(w) \/ ResumeCoro(w) \/ LeaveCoro(w)

-----------------------------------------------------------------------------
(* The callers *)

\* Mutant: JobCounter::wrap does not look whether join was called.
wrapAfterJoin ==
    /\ timer = "idle"
    /\ main \notin {"setup", "starting"}
    /\ lastJob < MaxJobs
    /\ jobCount' = jobCount + 1
    /\ timer' = "wrapped"
    /\ UNCHANGED <<workerVars, queueVars, processCount, job, waitForJobs, coro, nSuspend, main, stopVars>>

\* JobQueue::addCountedJob: wrap, addJob with a copy of the wrapper, and the
\* end of the wrapper, each counted.
wrap ==
    /\ timer = "idle"
    /\ main \notin {"setup", "starting"}
    /\ lastJob < MaxJobs
    /\ ~waitForJobs
    /\ jobCount' = jobCount + 1
    /\ timer' = "wrapped"
    /\ UNCHANGED <<workerVars, queueVars, processCount, job, waitForJobs, coro, nSuspend, main, stopVars>>

addCountedJob ==
    /\ timer = "wrapped"
    /\ addJob(TimerType, "counted")
    /\ jobCount' = jobCount + 1
    /\ timer' = "added"
    /\ UNCHANGED <<poolButSemaphore, pc, processCount, job, waitForJobs, coro, nSuspend, main, stopVars>>

unwrap ==
    /\ timer = "added"
    /\ jobCount' = jobCount - 1
    /\ timer' = "idle"
    /\ UNCHANGED <<workerVars, queueVars, processCount, job, waitForJobs, coro, nSuspend, main, stopVars>>

\* A thread of another child, such as the overlay, adds a job.
AddOtherJob ==
    /\ main \notin {"setup", "starting"}
    /\ lastJob < MaxJobs
    /\ ~childrenStopped
    /\ addJob(CoroType, "parent")
    /\ UNCHANGED <<poolButSemaphore, pc, processCount, job, callerVars, main, stopVars>>

\* JobQueue::postCoro: the constructor yields, then post adds the first job.
\* The server takes no request once it is told to stop, after NetworkOPs.
CreateCoro ==
    /\ coro = "none"
    /\ lastJob < MaxJobs
    /\ main \in {"running", "onStop", "join"}
    /\ coro' = "created"
    /\ nSuspend' = nSuspend + 1
    /\ UNCHANGED <<workerVars, queueVars, processCount, job, counterVars, main, stopVars>>

\* Coro::post, by postCoro or by the event the coroutine waits for.
PostCoro ==
    /\ coro \in {"created", "suspended"}
    /\ coro' = "posted"
    /\ addJob(CoroType, "coro")
    /\ UNCHANGED <<poolButSemaphore, pc, processCount, job, counterVars, nSuspend, main, stopVars>>

-----------------------------------------------------------------------------
(* The main thread *)

mainGoto(from, to) == main = from /\ main' = to

setThreadCount ==
    /\ mainGoto("setup", "starting")
    /\ setNumberOfThreads(MaxThreads)
    /\ UNCHANGED <<queueVars, processCount, job, callerVars, stopVars>>

start ==
    /\ mainGoto("starting", "running")
    /\ setter = idleSetter
    /\ UNCHANGED <<workerVars, queueVars, processCount, job, callerVars, stopVars>>

stopAsync ==
    /\ mainGoto("running", "onStop")
    /\ isStopping' = TRUE
    /\ UNCHANGED <<workerVars, queueVars, processCount, job, callerVars,
                   childrenStopped, stoppedEvent, isStopped>>

\* NetworkOPs::onStop waits in JobCounter::join.
joinJobs ==
    /\ mainGoto("onStop", "join")
    /\ waitForJobs' = TRUE
    /\ UNCHANGED <<workerVars, queueVars, processCount, job, jobCount, timer, coro,
                   nSuspend, stopVars>>

joined ==
    /\ mainGoto("join", "children")
    /\ jobCount = 0
    /\ UNCHANGED <<workerVars, queueVars, processCount, job, callerVars, stopVars>>

\* Stoppable::stopRecursive of the queue.  The server has stopped when no
\* session is left; the coroutine holds its session until it ends.
stopChildren ==
    /\ mainGoto("children", "childrenStopped")
    /\ coro \in {"none", "ended"}
    /\ childrenStopped' = TRUE
    /\ UNCHANGED <<workerVars, queueVars, processCount, job, callerVars,
                   isStopping, stoppedEvent, isStopped>>

\* Mutant: an idle queue is left to the next job to notice the stop.
onChildrenStoppedLater ==
    /\ mainGoto("childrenStopped", "waitStopped")
    /\ UNCHANGED <<workerVars, queueVars, processCount, job, callerVars, stopVars>>

onChildrenStopped ==
    /\ mainGoto("childrenStopped", "waitStopped")
    /\ checkStopped(processCount)
    /\ UNCHANGED <<workerVars, queueVars, processCount, job, callerVars,
                   isStopping, childrenStopped, isStopped>>

stop ==
    /\ mainGoto("waitStopped", "stopped")
    /\ stoppedEvent
    /\ isStopped' = TRUE
    /\ UNCHANGED <<workerVars, queueVars, processCount, job, callerVars,
                   isStopping, childrenStopped, stoppedEvent>>

\* ~Workers: pauseAllThreadsAndWait, then deleteWorkers.
pauseAllThreads ==
    /\ mainGoto("stopped", "pausing")
    /\ setNumberOfThreads(0)
    /\ UNCHANGED <<queueVars, processCount, job, callerVars, stopVars>>

allThreadsPaused ==
    /\ mainGoto("pausing", "deleting")
    /\ setter = idleSetter /\ allPaused
    /\ UNCHANGED <<workerVars, queueVars, processCount, job, callerVars, stopVars>>

deleteWorkers ==
    /\ main = "deleting"
    /\ ReleaseWorker \/ JoinWorker
    /\ UNCHANGED <<queueVars, processCount, job, callerVars, main, stopVars>>

deleted ==
    /\ mainGoto("deleting", "deleted")
    /\ everyone = 0
    /\ UNCHANGED <<workerVars, queueVars, processCount, job, callerVars, stopVars>>

setterStep == SetterStep /\ UNCHANGED <<queueVars, processCount, job, callerVars, main, stopVars>>

MainStep ==
    \/ setThreadCount \/ start \/ setterStep
    \/ joinJobs \/ joined \/ stopChildren \/ onChildrenStopped \/ stop
    \/ pauseAllThreads \/ allThreadsPaused \/ deleteWorkers \/ deleted

Next ==
    \/ \E w \in Threads : WorkerStep(w) \/ TakeJob(w) \/ RunJob(w) \/ FinishTask(w)
    \/ wrap \/ addCountedJob \/ unwrap
    \/ AddOtherJob
    \/ CreateCoro \/ PostCoro
    \/ MainStep \/ stopAsync
    \/ main = "deleted" /\ UNCHANGED vars

Spec == Init /\ [][Next]_vars

\* Every thread keeps running, a job ends, and the event a coroutine waits
\* for happens.  Nobody has to add a job or to stop the daemon.
Fairness ==
    /\ \A w \in Threads : WF_vars(WorkerStep(w) \/ TakeJob(w) \/ RunJob(w) \/ FinishTask(w))
    /\ WF_vars(addCountedJob \/ unwrap)
    /\ WF_vars(PostCoro)
    /\ WF_vars(MainStep)

FairSpec == Spec /\ Fairness

-----------------------------------------------------------------------------
(* Properties *)

\* The counts of JobTypeData, JobCounter and processTask never go below
\* zero, and every queued job has an index handed out by addJob.
TypeOK ==
    /\ semaphore \in Nat /\ pauseCount \in Int /\ activeCount \in Int
    /\ pc \in [Threads -> PCs]
    /\ lastJob \in Nat
    /\ \A j \in jobSet : j.type \in JobTypes /\ j.index \in 1 .. lastJob /\ j.body \in Bodies
    /\ nSuspend \in Int
    /\ waiting \in [JobTypes -> Nat]
    /\ running \in [JobTypes -> Nat]
    /\ deferred \in [JobTypes -> Nat]
    /\ processCount \in Nat /\ jobCount \in Nat

Executing == {job[w] : w \in {v \in Threads : pc[v] \in {"job", "finish"}}}

\* Threads that took a unit of the semaphore and have not used it.
Holders == {w \in Threads : pc[w] \in {"check", "decrement", "undo", "task"}}

\* The jobs that are queued and not deferred, numbered within their type.
Due == UNION {{t} \X (1 .. waiting[t] - deferred[t]) : t \in JobTypes}

(* Until the threads are told to pause for good, there is a unit of the    *)
(* semaphore, or a thread that took one, for every job that is queued and  *)
(* not deferred: queueJob and finishJob lose no wakeup and give none away. *)
UnitForEachJob ==
    main \notin {"pausing", "deleting", "deleted"} =>
        semaphore + Cardinality(Holders) = Cardinality(Due)

(* Once JobCounter::join has returned in NetworkOPs::onStop, no counted    *)
(* job is queued or executed, and none will be added.                      *)
NoCountedJobAfterJoin ==
    main \notin {"setup", "starting", "running", "onStop", "join"} =>
        /\ timer = "idle"
        /\ \A j \in jobSet : j.body # "counted"
        /\ \A w \in Threads : pc[w] = "job" => job[w].body # "counted"

(* JobQueue implements JobPool: jobs start in order and within the limit   *)
(* of their type, addJob is only called when its assertion allows, and     *)
(* the queue has no job and no suspended coroutine when it has stopped.    *)
Pool == INSTANCE JobPool WITH executing <- Executing, PoolSize <- MaxThreads

PoolSpec == Pool!PoolSpec

(* "A job posted will always run to completion" (JobQueue.h).              *)
JobsRun ==
    \A i \in 1 .. MaxJobs :
        (lastJob >= i) ~> (lastJob >= i /\ \A j \in jobSet \cup Executing : j.index # i)

(* A queue told to stop stops, and its threads exit.                       *)
StopCompletes == isStopping ~> main = "deleted"

=============================================================================

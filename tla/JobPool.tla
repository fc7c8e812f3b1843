------------------------------ MODULE JobPool -------------------------------
(***************************************************************************)
(* What the job queue promises (core/JobQueue.h): "A job posted will       *)
(* always run to completion", in the order of the jobs and within the      *)
(* limit of each type, and "When the JobQueue stops, it waits for all jobs *)
(* and coroutines to finish".  JobQueue implements this over a pool of     *)
(* threads; PathRequests is built on it.                                   *)
(*                                                                         *)
(* What is asked of the callers is the assertion of JobQueue::addJob: a    *)
(* job is only added while the queue is busy or a child has not stopped.   *)
(***************************************************************************)
EXTENDS Integers, FiniteSets

CONSTANTS JobTypes,   \* JobType values; the larger runs first
          Limit,      \* JobTypeInfo::limit of each type
          Bodies,     \* what a job may do
          PoolSize    \* threads of the queue

ASSUME PoolAssumption ==
    /\ JobTypes \subseteq Nat
    /\ Limit \in [JobTypes -> Nat \ {0}]
    /\ PoolSize \in Nat \ {0}

VARIABLES
    lastJob,          \* index of the newest job
    jobSet,           \* jobs not started
    executing,        \* jobs being executed
    nSuspend,         \* suspended coroutines
    isStopping,       \* the root was told to stop
    childrenStopped,
    isStopped

stopVars == <<isStopping, childrenStopped, isStopped>>
poolVars == <<lastJob, jobSet, executing, nSuspend, stopVars>>

Job == [type : JobTypes, index : Nat \ {0}, body : Bodies]

PoolInit ==
    /\ lastJob = 0
    /\ jobSet = {}
    /\ executing = {}
    /\ nSuspend = 0
    /\ isStopping = FALSE
    /\ childrenStopped = FALSE
    /\ isStopped = FALSE

\* Job::operator<
before(i, j) == i.type > j.type \/ (i.type = j.type /\ i.index < j.index)

OfType(jobs, type) == {j \in jobs : j.type = type}

Runnable == {j \in jobSet : Cardinality(OfType(executing, j.type)) < Limit[j.type]}

MayAddJob == ~isStopped /\ (executing # {} \/ jobSet # {} \/ ~childrenStopped)

Quiet == jobSet = {} /\ executing = {} /\ nSuspend = 0

-----------------------------------------------------------------------------

addJob(type, body) ==
    /\ lastJob' = lastJob + 1
    /\ jobSet' = jobSet \cup {[type |-> type, index |-> lastJob + 1, body |-> body]}

AddJob ==
    /\ MayAddJob
    /\ \E type \in JobTypes, body \in Bodies : addJob(type, body)
    /\ UNCHANGED <<executing, nSuspend, stopVars>>

BeginJob(j) ==
    /\ Cardinality(executing) < PoolSize
    /\ j \in Runnable
    /\ \A i \in Runnable \ {j} : before(j, i)
    /\ jobSet' = jobSet \ {j}
    /\ executing' = executing \cup {j}
    /\ UNCHANGED <<lastJob, nSuspend, stopVars>>

EndJob(j) ==
    /\ j \in executing
    /\ executing' = executing \ {j}
    /\ UNCHANGED <<lastJob, jobSet, nSuspend, stopVars>>

\* A coroutine is created, yields or is resumed while the queue is in use.
ChangeSuspended ==
    /\ MayAddJob
    /\ nSuspend' \in {nSuspend - 1, nSuspend + 1}
    /\ UNCHANGED <<lastJob, jobSet, executing, stopVars>>

StopAsync ==
    /\ ~isStopping
    /\ isStopping' = TRUE
    /\ UNCHANGED <<lastJob, jobSet, executing, nSuspend, childrenStopped, isStopped>>

ChildrenStop ==
    /\ isStopping
    /\ ~childrenStopped
    /\ childrenStopped' = TRUE
    /\ UNCHANGED <<lastJob, jobSet, executing, nSuspend, isStopping, isStopped>>

Stop ==
    /\ isStopping /\ childrenStopped /\ ~isStopped
    /\ Quiet
    /\ isStopped' = TRUE
    /\ UNCHANGED <<lastJob, jobSet, executing, nSuspend, isStopping, childrenStopped>>

PoolNext ==
    \/ AddJob
    \/ \E j \in jobSet : BeginJob(j)
    \/ \E j \in executing : EndJob(j)
    \/ ChangeSuspended
    \/ StopAsync
    \/ ChildrenStop
    \/ Stop

PoolSpec == PoolInit /\ [][PoolNext]_poolVars

=============================================================================

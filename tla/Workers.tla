------------------------------ MODULE Workers ------------------------------
(***************************************************************************)
(* The thread pool of the job queue (core/impl/Workers.cpp, semaphore.h).  *)
(* Threads wait on one semaphore whose units are tasks or requests to      *)
(* pause.  Each atomic operation, semaphore call and event of the code is  *)
(* a step of its own, since nothing else orders the threads.               *)
(*                                                                         *)
(* What a thread does at "task", the call of processTask, is left to the   *)
(* module that extends this one; it leads back to "wait".                  *)
(*                                                                         *)
(* Workers are numbered in the order they are created.  m_everyone is a    *)
(* stack, so the last one is deleted first.                                *)
(***************************************************************************)
EXTENDS Integers, Sequences

CONSTANT MaxThreads    \* bound: threads the pool ever creates

ASSUME MaxThreadsAssumption == MaxThreads \in Nat \ {0}

Threads == 1 .. MaxThreads

VARIABLES
    semaphore,        \* units: pending tasks and requests to pause
    numberOfThreads,  \* threads wanted
    activeCount,
    pauseCount,       \* threads that still have to pause
    allPaused,        \* the event m_allPaused is signalled
    everyone,         \* number of threads created
    paused,           \* stack of paused threads
    wakeCount,        \* Worker::wakeCount_
    shouldExit,       \* Worker::shouldExit_
    pc,               \* where each thread is in Worker::run
    setter            \* the call of setNumberOfThreads in progress

countVars == <<activeCount, pauseCount, allPaused>>
threadVars == <<wakeCount, shouldExit>>
ownerVars == <<numberOfThreads, everyone, setter>>
workerVars == <<semaphore, countVars, ownerVars, paused, threadVars, pc>>

\* Inside processTask the extending module has steps of its own.
InTask == {"task", "job", "finish"}
PCs == {"none", "start", "reset", "wait", "check", "decrement", "undo",
        "pausing", "deactivate", "signal", "paused", "exited"} \cup InTask

idleSetter == [step |-> "idle", left |-> 0, goal |-> 0]

WorkersInit ==
    /\ semaphore = 0
    /\ numberOfThreads = 0
    /\ activeCount = 0
    /\ pauseCount = 0
    /\ allPaused = TRUE
    /\ everyone = 0
    /\ paused = <<>>
    /\ wakeCount = [w \in Threads |-> 0]
    /\ shouldExit = [w \in Threads |-> FALSE]
    /\ pc = [w \in Threads |-> "none"]
    /\ setter = idleSetter

Goto(w, step) == pc' = [pc EXCEPT ![w] = step]

-----------------------------------------------------------------------------
(* Worker::run *)

Start(w) ==
    /\ pc[w] = "start"
    /\ activeCount' = activeCount + 1
    /\ Goto(w, IF activeCount = 0 THEN "reset" ELSE "wait")
    /\ UNCHANGED <<semaphore, pauseCount, allPaused, ownerVars, paused, threadVars>>

ResetAllPaused(w) ==
    /\ pc[w] = "reset"
    /\ allPaused' = FALSE
    /\ Goto(w, "wait")
    /\ UNCHANGED <<semaphore, activeCount, pauseCount, ownerVars, paused, threadVars>>

WaitSemaphore(w) ==
    /\ pc[w] = "wait"
    /\ semaphore > 0
    /\ semaphore' = semaphore - 1
    /\ Goto(w, "check")
    /\ UNCHANGED <<countVars, ownerVars, paused, threadVars>>

LoadPauseCount(w) ==
    /\ pc[w] = "check"
    /\ Goto(w, IF pauseCount > 0 THEN "decrement" ELSE "task")
    /\ UNCHANGED <<semaphore, countVars, ownerVars, paused, threadVars>>

DecrementPauseCount(w) ==
    /\ pc[w] = "decrement"
    /\ pauseCount' = pauseCount - 1
    /\ Goto(w, IF pauseCount > 0 THEN "pausing" ELSE "undo")
    /\ UNCHANGED <<semaphore, activeCount, allPaused, ownerVars, paused, threadVars>>

UndoDecrement(w) ==
    /\ pc[w] = "undo"
    /\ pauseCount' = pauseCount + 1
    /\ Goto(w, "task")
    /\ UNCHANGED <<semaphore, activeCount, allPaused, ownerVars, paused, threadVars>>

PushPaused(w) ==
    /\ pc[w] = "pausing"
    /\ paused' = <<w>> \o paused
    /\ Goto(w, "deactivate")
    /\ UNCHANGED <<semaphore, countVars, ownerVars, threadVars>>

Deactivate(w) ==
    /\ pc[w] = "deactivate"
    /\ activeCount' = activeCount - 1
    /\ Goto(w, IF activeCount = 1 THEN "signal" ELSE "paused")
    /\ UNCHANGED <<semaphore, pauseCount, allPaused, ownerVars, paused, threadVars>>

SignalAllPaused(w) ==
    /\ pc[w] = "signal"
    /\ allPaused' = TRUE
    /\ Goto(w, "paused")
    /\ UNCHANGED <<semaphore, activeCount, pauseCount, ownerVars, paused, threadVars>>

\* [1]: the thread leaves its condition variable to go on or to exit.
Wakeup(w) ==
    /\ pc[w] = "paused"
    /\ wakeCount[w] > 0
    /\ wakeCount' = [wakeCount EXCEPT ![w] = @ - 1]
    /\ Goto(w, IF shouldExit[w] THEN "exited" ELSE "start")
    /\ UNCHANGED <<semaphore, countVars, ownerVars, paused, shouldExit>>

RunStep(w) ==
    \/ Start(w)
    \/ ResetAllPaused(w)
    \/ WaitSemaphore(w)
    \/ LoadPauseCount(w)
    \/ DecrementPauseCount(w)
    \/ UndoDecrement(w)
    \/ PushPaused(w)
    \/ Deactivate(w)
    \/ SignalAllPaused(w)
    \/ Wakeup(w)

-----------------------------------------------------------------------------
(* The thread that owns the pool *)

\* numberOfThreads becomes the goal when the loop over the difference ends.
setterAfter(next) ==
    IF setter.left = 1
      THEN /\ setter' = idleSetter
           /\ numberOfThreads' = setter.goal
      ELSE /\ setter' = [setter EXCEPT !.left = @ - 1, !.step = next]
           /\ UNCHANGED numberOfThreads

setNumberOfThreads(n) ==
    /\ setter = idleSetter
    /\ n # numberOfThreads
    /\ setter' = IF n > numberOfThreads
                   THEN [step |-> "add", left |-> n - numberOfThreads, goal |-> n]
                   ELSE [step |-> "pause", left |-> numberOfThreads - n, goal |-> n]
    /\ UNCHANGED <<semaphore, countVars, numberOfThreads, everyone, paused,
                   threadVars, pc>>

\* A paused thread is reused before a new one is created.
AddThread ==
    /\ setter.step = "add"
    /\ setterAfter("add")
    /\ \/ /\ paused # <<>>
          /\ paused' = Tail(paused)
          /\ wakeCount' = [wakeCount EXCEPT ![Head(paused)] = @ + 1]
          /\ UNCHANGED <<everyone, pc>>
       \/ /\ paused = <<>>
          /\ everyone < MaxThreads
          /\ everyone' = everyone + 1
          /\ Goto(everyone + 1, "start")
          /\ UNCHANGED <<paused, wakeCount>>
    /\ UNCHANGED <<semaphore, countVars, shouldExit>>

RequestPause ==
    /\ setter.step = "pause"
    /\ pauseCount' = pauseCount + 1
    /\ setter' = [setter EXCEPT !.step = "notify"]
    /\ UNCHANGED <<semaphore, activeCount, allPaused, numberOfThreads, everyone,
                   paused, threadVars, pc>>

NotifyPause ==
    /\ setter.step = "notify"
    /\ semaphore' = semaphore + 1
    /\ setterAfter("pause")
    /\ UNCHANGED <<countVars, everyone, paused, threadVars, pc>>

SetterStep == AddThread \/ RequestPause \/ NotifyPause

\* ~Worker of the last thread created: wake it to exit, then join it.
ReleaseWorker ==
    /\ everyone > 0
    /\ ~shouldExit[everyone]
    /\ wakeCount' = [wakeCount EXCEPT ![everyone] = @ + 1]
    /\ shouldExit' = [shouldExit EXCEPT ![everyone] = TRUE]
    /\ UNCHANGED <<semaphore, countVars, ownerVars, paused, pc>>

JoinWorker ==
    /\ everyone > 0
    /\ pc[everyone] = "exited"
    /\ everyone' = everyone - 1
    /\ UNCHANGED <<semaphore, countVars, numberOfThreads, setter, paused, threadVars, pc>>

=============================================================================

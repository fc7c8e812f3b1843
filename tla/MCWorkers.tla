----------------------------- MODULE MCWorkers ------------------------------
(* The pool alone: a caller that adds tasks while the owner changes the    *)
(* number of threads, and a callback that returns at once.                 *)
EXTENDS Workers

CONSTANTS Sizes,      \* numbers of threads the owner asks for
          MaxTasks,   \* bound: calls of addTask
          MaxSets     \* bound: calls of setNumberOfThreads

VARIABLES added, processed, sets

vars == <<workerVars, added, processed, sets>>

Init == WorkersInit /\ added = 0 /\ processed = 0 /\ sets = 0

addTask ==
    /\ added < MaxTasks
    /\ added' = added + 1
    /\ semaphore' = semaphore + 1
    /\ UNCHANGED <<countVars, ownerVars, paused, threadVars, pc, processed, sets>>

processTask(w) ==
    /\ pc[w] = "task"
    /\ processed' = processed + 1
    /\ Goto(w, "wait")
    /\ UNCHANGED <<semaphore, countVars, ownerVars, paused, threadVars, added, sets>>

Next ==
    \/ addTask
    \/ \E w \in Threads : processTask(w)
    \/ \E w \in Threads : RunStep(w) /\ UNCHANGED <<added, processed, sets>>
    \/ \E n \in Sizes : /\ sets < MaxSets
                        /\ setNumberOfThreads(n)
                        /\ sets' = sets + 1
                        /\ UNCHANGED <<added, processed>>
    \/ SetterStep /\ UNCHANGED <<added, processed, sets>>

Spec == Init /\ [][Next]_vars

(* Workers.h, Callback: "Each call to addTask will result in exactly one   *)
(* call to processTask": never more calls than tasks.                      *)
TasksProcessedOnce == processed <= added
=============================================================================

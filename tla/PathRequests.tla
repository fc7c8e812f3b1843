---------------------------- MODULE PathRequests ----------------------------
(***************************************************************************)
(* The deprecated path-finding command: a coroutine asks for paths and     *)
(* yields, and a job that searches paths posts it again.  The module       *)
(* composes Coro.ipp, CasinocoinPathFind.cpp, PathRequests.cpp and         *)
(* PathRequest.cpp, and the dispatch of LedgerMaster (updatePaths,         *)
(* newPFWork) over the job queue, taken as JobPool promises it.  A step is *)
(* what the code does under one lock, or between two.                      *)
(*                                                                         *)
(* A request is named by the coroutine that made it, lives as long as the  *)
(* coroutine, and is in requests_ as a weak pointer.  mLastIndex is 0 in   *)
(* every request: nothing in the code assigns it.  Requests of             *)
(* subscribers, which have no coroutine, are left out.                     *)
(***************************************************************************)
EXTENDS JobPool, Sequences

CONSTANTS Coros,      \* coroutines, one for each command received
          UpdateType, ClientType,   \* jtUPDATE_PF, jtCLIENT
          MaxLedger,  \* bound: sequence of the last validated ledger
          MissingNodes  \* whether a search may find the ledger incomplete

ASSUME PathAssumption ==
    /\ IsFiniteSet(Coros) /\ "update" \notin Coros
    /\ Bodies = Coros \cup {"update"}
    /\ UpdateType \in JobTypes /\ ClientType \in JobTypes
    /\ MaxLedger \in Nat

Indices == 1 .. (3 * Cardinality(Coros) + MaxLedger)

VARIABLES
    point,         \* where each coroutine is in its function
    owner,         \* the job that holds Coro::mutex_, 0 if none
    completion,    \* fCompletion of each request is set
    inProgress,    \* mInProgress of each request
    requests,      \* PathRequests::requests_
    pathFindThread, newRequest,         \* mPathFindThread, mPathFindNewRequest
    validSeq, pubSeq, pathSeq,          \* mValidLedger, mPubLedger, mPathLedger (0: none)
    needNetworkLedger,
    serverOpen,    \* the server accepts commands
    step,          \* where each executing job is
    local          \* the variables of updateAll in each executing job

coroVars == <<point, owner>>
requestVars == <<completion, inProgress, requests>>
ledgerVars == <<validSeq, pubSeq, pathSeq, needNetworkLedger, serverOpen>>
dispatchVars == <<pathFindThread, newRequest, ledgerVars>>
jobVars == <<step, local>>
vars == <<poolVars, coroVars, requestVars, dispatchVars, jobVars>>

noLocal == [left |-> <<>>, newOnly |-> FALSE, mustBreak |-> FALSE, count |-> 0]

Init ==
    /\ PoolInit
    /\ point = [c \in Coros |-> "none"]
    /\ owner = [c \in Coros |-> 0]
    /\ completion = [c \in Coros |-> FALSE]
    /\ inProgress = [c \in Coros |-> FALSE]
    /\ requests = <<>>
    /\ pathFindThread = 0
    /\ newRequest = FALSE
    /\ validSeq = 0 /\ pubSeq = 0 /\ pathSeq = 0
    /\ needNetworkLedger = TRUE
    /\ serverOpen = TRUE
    /\ step = [i \in Indices |-> "none"]
    /\ local = [i \in Indices |-> noLocal]

At(j, s) == j \in executing /\ step[j.index] = s
stepTo(j, s) == step' = [step EXCEPT ![j.index] = s]

-----------------------------------------------------------------------------
(* The job queue *)

Begin(j) ==
    /\ BeginJob(j)
    /\ stepTo(j, IF j.body = "update" THEN "update" ELSE "resume")
    /\ UNCHANGED <<coroVars, requestVars, dispatchVars, local>>

End(j) ==
    /\ At(j, "end")
    /\ EndJob(j)
    /\ stepTo(j, "none")
    /\ local' = [local EXCEPT ![j.index] = noLocal]
    /\ UNCHANGED <<coroVars, requestVars, dispatchVars>>

-----------------------------------------------------------------------------
(* Coro.ipp and the command *)

\* The session of a command is open until its coroutine is finished.
Finished(c) == point[c] \in {"none", "finished"}

\* JobQueue::postCoro: the constructor yields, then post.
createCoro(c) ==
    /\ point[c] = "none"
    /\ serverOpen
    /\ point' = [point EXCEPT ![c] = "created"]
    /\ nSuspend' = nSuspend + 1
    /\ UNCHANGED <<lastJob, jobSet, executing, stopVars, owner, requestVars, dispatchVars, jobVars>>

postCoro(c) ==
    /\ point[c] = "created"
    /\ point' = [point EXCEPT ![c] = "begin"]
    /\ addJob(ClientType, c)
    /\ UNCHANGED <<executing, nSuspend, stopVars, owner, requestVars, dispatchVars, jobVars>>

\* Mutant: the resumed coroutine stays counted as suspended.
resumeUncounted(j) ==
    /\ At(j, "resume")
    /\ stepTo(j, "lock")
    /\ UNCHANGED <<poolVars, coroVars, requestVars, dispatchVars, local>>

\* The lambda of post: count, take the mutex, switch to the coroutine.
resume(j) ==
    /\ At(j, "resume")
    /\ nSuspend' = nSuspend - 1
    /\ stepTo(j, "lock")
    /\ UNCHANGED <<lastJob, jobSet, executing, stopVars, coroVars, requestVars, dispatchVars, local>>

lockCoro(j) ==
    /\ At(j, "lock")
    /\ owner[j.body] = 0
    /\ owner' = [owner EXCEPT ![j.body] = j.index]
    /\ stepTo(j, "run")
    /\ UNCHANGED <<poolVars, point, requestVars, dispatchVars, local>>

\* doCasinocoinPathFind, no ledger given: refused, or the request is made.
findPath(j) ==
    /\ At(j, "run") /\ point[j.body] = "begin"
    /\ \/ /\ point' = [point EXCEPT ![j.body] = "return"]
          /\ UNCHANGED requestVars
       \/ /\ point' = [point EXCEPT ![j.body] = "inserted"]
          /\ requests' = Append(requests, j.body)
          /\ completion' = [completion EXCEPT ![j.body] = TRUE]
          /\ UNCHANGED inProgress
    /\ UNCHANGED <<poolVars, owner, dispatchVars, jobVars>>

\* LedgerMaster::newPFWork
newPFWork ==
    IF pathFindThread < 2
      THEN /\ pathFindThread' = pathFindThread + 1
           /\ addJob(UpdateType, "update")
      ELSE UNCHANGED <<pathFindThread, lastJob, jobSet>>

newPathRequest(j) ==
    /\ At(j, "run") /\ point[j.body] = "inserted"
    /\ point' = [point EXCEPT ![j.body] = "yielding"]
    /\ newRequest' = TRUE
    /\ newPFWork
    /\ UNCHANGED <<executing, nSuspend, stopVars, owner, requestVars, ledgerVars,
                   jobVars>>

\* Coro::yield: count, then switch back to the job, which drops the mutex.
\* A finished coroutine returns at once.
yield(j) ==
    /\ At(j, "run") /\ point[j.body] = "yielding"
    /\ point' = [point EXCEPT ![j.body] = "switching"]
    /\ nSuspend' = nSuspend + 1
    /\ UNCHANGED <<lastJob, jobSet, executing, stopVars, owner, requestVars, dispatchVars, jobVars>>

leaveCoro(j) ==
    /\ At(j, "run") /\ point[j.body] \in {"switching", "return", "finished"}
    /\ point' = [point EXCEPT ![j.body] = IF @ = "switching" THEN "waiting" ELSE "finished"]
    /\ owner' = [owner EXCEPT ![j.body] = 0]
    /\ stepTo(j, "end")
    /\ UNCHANGED <<poolVars, requestVars, dispatchVars, local>>

\* Back from yield: doStatus, and the function returns.
doStatus(j) ==
    /\ At(j, "run") /\ point[j.body] = "waiting"
    /\ point' = [point EXCEPT ![j.body] = "return"]
    /\ UNCHANGED <<poolVars, owner, requestVars, dispatchVars, jobVars>>

CoroStep(j) ==
    resume(j) \/ lockCoro(j) \/ findPath(j) \/ newPathRequest(j) \/ yield(j)
        \/ leaveCoro(j) \/ doStatus(j)

-----------------------------------------------------------------------------
(* LedgerMaster::updatePaths and PathRequests::updateAll *)

setLocal(j, l) == local' = [local EXCEPT ![j.index] = l]

needLedger(j) ==
    /\ At(j, "update")
    /\ IF needNetworkLedger
         THEN pathFindThread' = pathFindThread - 1 /\ stepTo(j, "end")
         ELSE UNCHANGED pathFindThread /\ stepTo(j, "loop")
    /\ UNCHANGED <<poolVars, coroVars, requestVars, newRequest, ledgerVars, local>>

\* Mutant: a thread that finds no work stays counted.
pickLedgerStaysCounted(j) ==
    /\ At(j, "loop")
    /\ \/ /\ ~isStopping /\ validSeq # 0 /\ pathSeq # validSeq
          /\ pathSeq' = validSeq
          /\ stepTo(j, "age")
       \/ /\ ~isStopping /\ (validSeq = 0 \/ pathSeq = validSeq) /\ newRequest
          /\ stepTo(j, "age")
          /\ UNCHANGED pathSeq
       \/ /\ isStopping \/ ((validSeq = 0 \/ pathSeq = validSeq) /\ ~newRequest)
          /\ stepTo(j, "end")
          /\ UNCHANGED pathSeq
    /\ UNCHANGED <<poolVars, coroVars, requestVars, pathFindThread, newRequest, validSeq,
                   pubSeq, needNetworkLedger, serverOpen, local>>

\* A stop leaves the loop and the count as it is.
pickLedger(j) ==
    /\ At(j, "loop")
    /\ \/ /\ isStopping
          /\ stepTo(j, "end")
          /\ UNCHANGED <<pathFindThread, pathSeq>>
       \/ /\ ~isStopping /\ validSeq # 0 /\ pathSeq # validSeq
          /\ pathSeq' = validSeq
          /\ stepTo(j, "age")
          /\ UNCHANGED pathFindThread
       \/ /\ ~isStopping /\ (validSeq = 0 \/ pathSeq = validSeq) /\ newRequest
          /\ stepTo(j, "age")
          /\ UNCHANGED <<pathFindThread, pathSeq>>
       \/ /\ ~isStopping /\ (validSeq = 0 \/ pathSeq = validSeq) /\ ~newRequest
          /\ pathFindThread' = pathFindThread - 1
          /\ stepTo(j, "end")
          /\ UNCHANGED pathSeq
    /\ UNCHANGED <<poolVars, coroVars, requestVars, newRequest, validSeq, pubSeq,
                   needNetworkLedger, serverOpen, local>>

\* The ledger may be more than a minute old, until the last one is valid.
checkAge(j) ==
    /\ At(j, "age")
    /\ \/ /\ validSeq < MaxLedger
          /\ setLocal(j, [noLocal EXCEPT !.count = pathFindThread])
          /\ stepTo(j, "decrement")
       \/ stepTo(j, "copy") /\ UNCHANGED local
    /\ UNCHANGED <<poolVars, coroVars, requestVars, dispatchVars>>

\* --mPathFindThread without the lock, a data race: it may undo what others
\* wrote since the count was read, or be undone by them.
decrementUnlocked(j) ==
    /\ At(j, "decrement")
    /\ pathFindThread' \in {local[j.index].count - 1} \cup
            (IF pathFindThread # local[j.index].count THEN {pathFindThread} ELSE {})
    /\ stepTo(j, "end")
    /\ UNCHANGED <<poolVars, coroVars, requestVars, newRequest, ledgerVars, local>>

copyRequests(j) ==
    /\ At(j, "copy")
    /\ setLocal(j, [noLocal EXCEPT !.left = requests])
    /\ stepTo(j, "flag")
    /\ UNCHANGED <<poolVars, coroVars, requestVars, dispatchVars>>

\* LedgerMaster::isNewPathRequest clears what it reads.
firstPass(j) ==
    /\ At(j, "flag")
    /\ setLocal(j, [local[j.index] EXCEPT !.newOnly = newRequest])
    /\ newRequest' = FALSE
    /\ stepTo(j, "each")
    /\ UNCHANGED <<poolVars, coroVars, requestVars, pathFindThread, ledgerVars>>

\* The weak pointer of a request whose coroutine returned is dangling.
Expired(c) == point[c] \in {"return", "finished"}

\* One request: PathRequest::needsUpdate, hasCompletion.
nextRequest(j) ==
    LET left == local[j.index].left IN
    /\ At(j, "each")
    /\ \/ /\ isStopping \/ left = <<>>
          /\ stepTo(j, "pass")
          /\ UNCHANGED inProgress
       \/ /\ ~isStopping /\ left # <<>> /\ Expired(Head(left))
          /\ stepTo(j, "remove")
          /\ UNCHANGED inProgress
       \/ /\ ~isStopping /\ left # <<>> /\ ~Expired(Head(left)) /\ inProgress[Head(left)]
          /\ stepTo(j, "next")
          /\ UNCHANGED inProgress
       \/ /\ ~isStopping /\ left # <<>> /\ ~Expired(Head(left)) /\ ~inProgress[Head(left)]
          /\ inProgress' = [inProgress EXCEPT ![Head(left)] = TRUE]
          /\ stepTo(j, IF completion[Head(left)] THEN "search" ELSE "remove")
    /\ UNCHANGED <<poolVars, coroVars, completion, requests, dispatchVars, local>>

\* doUpdate: done, or SHAMapMissingNode is caught by updatePaths.
doUpdate(j) ==
    /\ At(j, "search")
    /\ \/ stepTo(j, "complete") /\ UNCHANGED local
       \/ /\ MissingNodes /\ validSeq < MaxLedger
          /\ stepTo(j, "loop")
          /\ setLocal(j, noLocal)
    /\ UNCHANGED <<poolVars, coroVars, requestVars, dispatchVars>>

\* Mutant: the completion is called and kept.
updateCompleteKeepsCompletion(j) ==
    LET c == Head(local[j.index].left) IN
    /\ At(j, "complete")
    /\ inProgress' = [inProgress EXCEPT ![c] = FALSE]
    /\ IF completion[c] THEN addJob(ClientType, c) ELSE UNCHANGED <<lastJob, jobSet>>
    /\ stepTo(j, "remove")
    /\ UNCHANGED <<executing, nSuspend, stopVars, coroVars, completion, requests,
                   dispatchVars, local>>

\* PathRequest::updateComplete calls Coro::post.
updateComplete(j) ==
    LET c == Head(local[j.index].left) IN
    /\ At(j, "complete")
    /\ inProgress' = [inProgress EXCEPT ![c] = FALSE]
    /\ IF completion[c] THEN addJob(ClientType, c) ELSE UNCHANGED <<lastJob, jobSet>>
    /\ completion' = [completion EXCEPT ![c] = FALSE]
    /\ stepTo(j, "remove")
    /\ UNCHANGED <<executing, nSuspend, stopVars, coroVars, requests, dispatchVars, local>>

\* std::remove_if and erase.
Erase(s, gone) ==
    LET kept[n \in 0 .. Len(s)] ==
            IF n = 0 THEN <<>>
            ELSE IF s[n] \in gone THEN kept[n - 1] ELSE Append(kept[n - 1], s[n])
    IN kept[Len(s)]

removeRequest(j) ==
    /\ At(j, "remove")
    /\ requests' = Erase(requests, {c \in Coros : Expired(c)} \cup {Head(local[j.index].left)})
    /\ stepTo(j, "next")
    /\ UNCHANGED <<poolVars, coroVars, completion, inProgress, dispatchVars, local>>

afterRequest(j) ==
    LET l == local[j.index] IN
    /\ At(j, "next")
    /\ setLocal(j, [l EXCEPT !.left = Tail(@), !.mustBreak = ~l.newOnly /\ newRequest])
    /\ newRequest' = (newRequest /\ l.newOnly)
    /\ stepTo(j, IF ~l.newOnly /\ newRequest THEN "pass" ELSE "each")
    /\ UNCHANGED <<poolVars, coroVars, requestVars, pathFindThread, ledgerVars>>

\* Mutant: a pass over the new requests is the last one.
endPassAfterNewOnly(j) ==
    LET l == local[j.index] IN
    /\ At(j, "pass")
    /\ newRequest' = FALSE
    /\ setLocal(j, noLocal) /\ stepTo(j, "loop")
    /\ UNCHANGED <<poolVars, coroVars, requestVars, pathFindThread, ledgerVars>>

\* After a pass over the requests: another pass, unless this one was over
\* all of them and there is no new one.
endPass(j) ==
    LET l == local[j.index] IN
    /\ At(j, "pass")
    /\ newRequest' = (newRequest /\ l.mustBreak)
    /\ IF l.mustBreak \/ l.newOnly \/ newRequest
         THEN /\ setLocal(j, [l EXCEPT !.newOnly = l.mustBreak \/ newRequest])
              /\ stepTo(j, "again")
         ELSE setLocal(j, noLocal) /\ stepTo(j, "loop")
    /\ UNCHANGED <<poolVars, coroVars, requestVars, pathFindThread, ledgerVars>>

nextPass(j) ==
    /\ At(j, "again")
    /\ IF requests = <<>> \/ isStopping
         THEN setLocal(j, noLocal) /\ stepTo(j, "loop")
         ELSE /\ setLocal(j, [local[j.index] EXCEPT !.left = requests])
              /\ stepTo(j, "each")
    /\ UNCHANGED <<poolVars, coroVars, requestVars, dispatchVars>>

UpdateStep(j) ==
    needLedger(j) \/ pickLedger(j) \/ checkAge(j) \/ decrementUnlocked(j)
        \/ copyRequests(j) \/ firstPass(j) \/ nextRequest(j) \/ doUpdate(j)
        \/ updateComplete(j) \/ removeRequest(j) \/ afterRequest(j)
        \/ endPass(j) \/ nextPass(j)

-----------------------------------------------------------------------------
(* The ledgers, and the stop of the daemon *)

\* The last ledger of the instance is validated when no thread is about to
\* leave because of an old one: newPFWork would count that thread as working,
\* and the requests would wait for one more ledger.
setValidLedger ==
    /\ validSeq < MaxLedger
    /\ ~childrenStopped
    /\ validSeq + 1 = MaxLedger => \A j \in executing : ~At(j, "decrement")
    /\ validSeq' = validSeq + 1
    /\ UNCHANGED <<poolVars, coroVars, requestVars, pathFindThread, newRequest, pubSeq,
                   pathSeq, needNetworkLedger, serverOpen, jobVars>>

\* LedgerMaster::doAdvance, the end of publishing.
doAdvance ==
    /\ pubSeq < validSeq
    /\ MayAddJob
    /\ pubSeq' = validSeq
    /\ needNetworkLedger' = FALSE
    /\ newPFWork
    /\ UNCHANGED <<executing, nSuspend, stopVars, coroVars, requestVars, newRequest,
                   validSeq, pathSeq, serverOpen, jobVars>>

stopAsync ==
    /\ StopAsync
    /\ UNCHANGED <<coroVars, requestVars, dispatchVars, jobVars>>

\* ServerHandlerImp::onStop
closeServer ==
    /\ isStopping /\ serverOpen
    /\ serverOpen' = FALSE
    /\ UNCHANGED <<poolVars, coroVars, requestVars, pathFindThread, newRequest,
                   validSeq, pubSeq, pathSeq, needNetworkLedger, jobVars>>

\* The server has stopped when every session is gone.
stopChildren ==
    /\ ~serverOpen
    /\ \A c \in Coros : Finished(c)
    /\ ChildrenStop
    /\ UNCHANGED <<coroVars, requestVars, dispatchVars, jobVars>>

stop ==
    /\ Stop
    /\ UNCHANGED <<coroVars, requestVars, dispatchVars, jobVars>>

Next ==
    \/ \E j \in jobSet : Begin(j)
    \/ \E j \in executing : CoroStep(j) \/ UpdateStep(j) \/ End(j)
    \/ \E c \in Coros : createCoro(c) \/ postCoro(c)
    \/ setValidLedger \/ doAdvance
    \/ stopAsync \/ closeServer \/ stopChildren \/ stop
    \/ isStopped /\ UNCHANGED vars

Spec == Init /\ [][Next]_vars

\* Jobs start and run, the network validates ledgers, and the main thread
\* carries on with a stop.  Nobody has to send a command or to stop.
Fairness ==
    /\ WF_vars(\E j \in jobSet : Begin(j))
    /\ \A i \in Indices :
          WF_vars(\E j \in executing : j.index = i /\ (CoroStep(j) \/ UpdateStep(j) \/ End(j)))
    /\ \A c \in Coros : WF_vars(postCoro(c))
    /\ WF_vars(setValidLedger) /\ WF_vars(doAdvance)
    /\ WF_vars(closeServer \/ stopChildren \/ stop)

FairSpec == Spec /\ Fairness

-----------------------------------------------------------------------------
(* Properties *)

Jobs == jobSet \cup executing

Updaters == {j \in Jobs : j.body = "update"}

\* Every job is one that addJob made, and the two counters of path threads
\* and ledgers add no more jobs than the commands and ledgers account for.
TypeOK ==
    /\ Jobs \subseteq Job
    /\ lastJob \in Indices \cup {0}
    /\ nSuspend \in Int
    /\ point \in [Coros -> {"none", "created", "begin", "inserted", "yielding", "switching",
                            "waiting", "return", "finished"}]
    /\ owner \in [Coros -> Indices \cup {0}]
    /\ pathFindThread \in Int
    /\ requests \in Seq(Coros)

(* "Undefined behavior if called consecutively without a corresponding     *)
(* yield" (Coro::post): at most one job is there to resume a coroutine     *)
(* besides the one that is in it, and none once it has returned, although  *)
(* two threads may search paths for the same request.                      *)
PostedOncePerYield ==
    \A c \in Coros :
        LET resuming == {j \in Jobs : j.body = c /\ step[j.index] \in {"none", "resume", "lock"}}
        IN /\ Cardinality(resuming) <= 1
           /\ point[c] \in {"return", "finished"} => resuming = {}

(* nSuspend_, which checkStopped reads, counts the suspended coroutines    *)
(* whenever no job is executed, though a job may resume a coroutine        *)
(* before it yields.                                                       *)
SuspendedCounted ==
    executing = {} =>
        nSuspend = Cardinality({c \in Coros : point[c] \in {"created", "begin", "waiting"}})

(* mPathFindThread never keeps newPFWork from starting a job when there is *)
(* none, in spite of the unlocked decrement, while the daemon runs.        *)
PathFindRestarts == Updaters = {} /\ ~isStopping => pathFindThread < 2

(* The search for a request that threw: nobody will serve it again.        *)
Abandoned(c) ==
    /\ inProgress[c] /\ completion[c]
    /\ \A j \in executing : j.body = "update" /\ step[j.index] \in {"search", "complete"} =>
                             Head(local[j.index].left) # c

(* A coroutine that waits for paths is resumed and returns, unless the     *)
(* daemon stops or the search for it threw.                                *)
WaitingResumed ==
    \A c \in Coros :
        (point[c] = "waiting") ~> (point[c] = "finished" \/ isStopping \/ Abandoned(c))

(* "Coroutines that are suspended must be resumed, and run to completion"  *)
(* (JobQueue.h).                                                           *)
CoroutinesFinish == \A c \in Coros : (point[c] = "waiting") ~> (point[c] = "finished")

(* A stop completes unless a coroutine waits for paths.                    *)
StopCompletes ==
    isStopping ~> (isStopped \/ \E c \in Coros : point[c] = "waiting" /\ completion[c])

=============================================================================

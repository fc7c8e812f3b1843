----------------------------- MODULE LedgerSave -----------------------------
(***************************************************************************)
(* Saving validated ledgers to the SQL databases: pendSaveValidated and    *)
(* saveValidatedLedger (app/ledger/Ledger.cpp) over the PendingSaves       *)
(* tracker (app/ledger/PendingSaves.h) and the SF_SAVED flag of the        *)
(* HashRouter (app/misc/HashRouter.cpp).                                   *)
(*                                                                         *)
(* Any thread of the process may call pendSaveValidated, synchronously or  *)
(* not, or run a queued save job.  One action is one critical section of   *)
(* PendingSaves::mutex_ or HashRouter::mutex_, one SQL transaction, or one *)
(* call that adds a job; between two of them every other thread may run.   *)
(*                                                                         *)
(* Abstractions: a ledger is an opaque value with a sequence number.  The  *)
(* Ledgers table keeps, per sequence, the ledger whose row is there; the   *)
(* Transactions and AccountTransactions tables keep, per sequence, the     *)
(* ledger whose transactions were written.  The contents of rows, the      *)
(* node store and the job priorities are left out.                         *)
(***************************************************************************)
EXTENDS Naturals, FiniteSets

CONSTANTS
    Threads,       \* threads that save ledgers or run save jobs
    Ledgers,       \* validated ledgers that may be saved
    Seqs,          \* ledger sequence numbers
    SeqOf,         \* the sequence number of each ledger
    None,          \* no ledger
    MaxCalls,      \* bound: calls of pendSaveValidated in a behaviour
    MaxCrashes     \* bound: how often the process dies and restarts

ASSUME SeqOfAssumption == SeqOf \in [Ledgers -> Seqs]
ASSUME NoneAssumption == None \notin Ledgers
ASSUME BoundsAssumption == MaxCalls \in Nat /\ MaxCrashes \in Nat

VARIABLES
    flags,      \* ledgers whose SF_SAVED flag is set in the HashRouter
    map,        \* PendingSaves::map_: absent, scheduled (false), working (true)
    jobs,       \* number of queued save jobs per ledger
    pc,         \* where each thread is
    cur,        \* ledger the thread is saving
    sync,       \* isSynchronous of the thread's call (FALSE in a job)
    ledgerRow,  \* Ledgers table
    txRows,     \* Transactions and AccountTransactions tables
    failed,     \* sequences handed to failedSave since the process started
    calls, crashes

pendingVars == <<flags, map, jobs>>
threadVars == <<pc, cur, sync>>
dbVars == <<ledgerRow, txRows>>
boundVars == <<failed, calls, crashes>>
vars == <<flags, map, jobs, pc, cur, sync, ledgerRow, txRows,
          failed, calls, crashes>>

MapStates == {"absent", "scheduled", "working"}

\* The states of a thread inside saveValidatedLedger after startWork succeeded.
Writing == {"build", "deleteRow", "txns", "insert", "finish"}

PCs == {"idle", "pending", "shouldWork", "waiting", "dispatch", "startWork"}
           \cup Writing

seq(t) == SeqOf[cur[t]]

TypeOK ==
    /\ flags \subseteq Ledgers
    /\ map \in [Seqs -> MapStates]
    /\ jobs \in [Ledgers -> Nat]
    /\ pc \in [Threads -> PCs]
    /\ cur \in [Threads -> Ledgers \cup {None}]
    /\ sync \in [Threads -> BOOLEAN]
    /\ ledgerRow \in [Seqs -> Ledgers \cup {None}]
    /\ txRows \in [Seqs -> Ledgers \cup {None}]
    /\ failed \subseteq Seqs
    /\ calls \in Nat
    /\ crashes \in Nat
    /\ \A t \in Threads : pc[t] # "idle" => cur[t] \in Ledgers

(* The process starts with nothing tracked and an empty database.          *)
Init ==
    /\ flags = {}
    /\ map = [s \in Seqs |-> "absent"]
    /\ jobs = [l \in Ledgers |-> 0]
    /\ pc = [t \in Threads |-> "idle"]
    /\ cur = [t \in Threads |-> None]
    /\ sync = [t \in Threads |-> FALSE]
    /\ ledgerRow = [s \in Seqs |-> None]
    /\ txRows = [s \in Seqs |-> None]
    /\ failed = {}
    /\ calls = 0
    /\ crashes = 0

Goto(t, l) ==
    /\ pc' = [pc EXCEPT ![t] = l]
    /\ UNCHANGED <<cur, sync>>

\* The call or the job returns; its arguments are gone.
Return(t) ==
    /\ pc' = [pc EXCEPT ![t] = "idle"]
    /\ cur' = [cur EXCEPT ![t] = None]
    /\ sync' = [sync EXCEPT ![t] = FALSE]

\* A thread at pc idle starts a call or a job for ledger l.
Begin(t, label, l, s) ==
    /\ pc[t] = "idle"
    /\ pc' = [pc EXCEPT ![t] = label]
    /\ cur' = [cur EXCEPT ![t] = l]
    /\ sync' = [sync EXCEPT ![t] = s]

-----------------------------------------------------------------------------
(* pendSaveValidated *)

(* The call sets SF_SAVED.  If the flag was already set, an asynchronous   *)
(* call returns and a synchronous one goes on to ask whether the save is   *)
(* still pending.                                                          *)
PendSaveValidated(t, l, s) ==
    /\ calls < MaxCalls
    /\ calls' = calls + 1
    /\ flags' = flags \cup {l}
    /\ \/ /\ l \notin flags
          /\ Begin(t, "shouldWork", l, s)
       \/ /\ l \in flags
          /\ s
          /\ Begin(t, "pending", l, s)
       \/ /\ l \in flags
          /\ ~s
          /\ pc[t] = "idle"
          /\ UNCHANGED threadVars
    /\ UNCHANGED <<map, jobs, dbVars, failed, crashes>>

(* PendingSaves::pending, asked by a synchronous call.                     *)
CheckPending(t) ==
    /\ pc[t] = "pending"
    /\ \/ /\ map[seq(t)] = "absent"
          /\ Return(t)
       \/ /\ map[seq(t)] # "absent"
          /\ Goto(t, "shouldWork")
    /\ UNCHANGED <<pendingVars, dbVars, boundVars>>

(* PendingSaves::shouldWork: one pass of its loop under the mutex.         *)
ShouldWork(t) ==
    /\ pc[t] = "shouldWork"
    /\ \/ /\ map[seq(t)] = "absent"
          /\ map' = [map EXCEPT ![seq(t)] = "scheduled"]
          /\ Goto(t, IF sync[t] THEN "startWork" ELSE "dispatch")
       \/ /\ map[seq(t)] # "absent"
          /\ ~sync[t]
          /\ Return(t)
          /\ UNCHANGED map
       \/ /\ map[seq(t)] = "scheduled"
          /\ sync[t]
          /\ Goto(t, "startWork")
          /\ UNCHANGED map
       \/ /\ map[seq(t)] = "working"
          /\ sync[t]
          /\ Goto(t, "waiting")
          /\ UNCHANGED map
    /\ UNCHANGED <<flags, jobs, dbVars, boundVars>>

(* An asynchronous call hands the save to the job queue and returns.       *)
Dispatch(t) ==
    /\ pc[t] = "dispatch"
    /\ jobs' = [jobs EXCEPT ![cur[t]] = @ + 1]
    /\ Return(t)
    /\ UNCHANGED <<flags, map, dbVars, boundVars>>

(* A worker thread takes a queued save job.                                *)
RunJob(t, l) ==
    /\ jobs[l] > 0
    /\ jobs' = [jobs EXCEPT ![l] = @ - 1]
    /\ Begin(t, "startWork", l, FALSE)
    /\ UNCHANGED <<flags, map, dbVars, boundVars>>

-----------------------------------------------------------------------------
(* saveValidatedLedger *)

\* A startWork that does not look whether another thread is at work.
StartWorkUnchecked(t) ==
    /\ pc[t] = "startWork"
    /\ \/ /\ map[seq(t)] # "absent"
          /\ map' = [map EXCEPT ![seq(t)] = "working"]
          /\ Goto(t, "build")
       \/ /\ map[seq(t)] = "absent"
          /\ Return(t)
          /\ UNCHANGED map
    /\ UNCHANGED <<flags, jobs, dbVars, boundVars>>

\* A startWork that takes the entry away from the thread it refuses.
StartWorkDropsEntry(t) ==
    /\ pc[t] = "startWork"
    /\ \/ /\ map[seq(t)] = "scheduled"
          /\ map' = [map EXCEPT ![seq(t)] = "working"]
          /\ Goto(t, "build")
       \/ /\ map[seq(t)] # "scheduled"
          /\ map' = [map EXCEPT ![seq(t)] = "absent"]
          /\ Return(t)
    /\ UNCHANGED <<flags, jobs, dbVars, boundVars>>

(* PendingSaves::startWork; when it refuses, the save is abandoned and     *)
(* reported as done.                                                       *)
StartWork(t) ==
    /\ pc[t] = "startWork"
    /\ \/ /\ map[seq(t)] = "scheduled"
          /\ map' = [map EXCEPT ![seq(t)] = "working"]
          /\ Goto(t, "build")
       \/ /\ map[seq(t)] # "scheduled"
          /\ Return(t)
          /\ UNCHANGED map
    /\ UNCHANGED <<flags, jobs, dbVars, boundVars>>

(* Build the AcceptedLedger.  A missing node makes the save fail: the call *)
(* asks for the ledger again (failedSave) and goes straight to finishWork. *)
Build(t) ==
    /\ pc[t] = "build"
    /\ \/ /\ Goto(t, "deleteRow")
          /\ UNCHANGED failed
       \/ /\ Goto(t, "finish")
          /\ failed' = failed \cup {seq(t)}
    /\ UNCHANGED <<pendingVars, dbVars, calls, crashes>>

\* A save that leaves the old row of the Ledgers table in place.
SkipDeleteLedgerRow(t) ==
    /\ pc[t] = "deleteRow"
    /\ Goto(t, "txns")
    /\ UNCHANGED <<pendingVars, dbVars, boundVars>>

(* DELETE FROM Ledgers WHERE LedgerSeq = seq. *)
DeleteLedgerRow(t) ==
    /\ pc[t] = "deleteRow"
    /\ ledgerRow' = [ledgerRow EXCEPT ![seq(t)] = None]
    /\ Goto(t, "txns")
    /\ UNCHANGED <<pendingVars, txRows, boundVars>>

(* One transaction replaces every transaction row of the sequence.         *)
CommitTxns(t) ==
    /\ pc[t] = "txns"
    /\ txRows' = [txRows EXCEPT ![seq(t)] = cur[t]]
    /\ Goto(t, "insert")
    /\ UNCHANGED <<pendingVars, ledgerRow, boundVars>>

(* INSERT OR REPLACE INTO Ledgers. *)
InsertLedgerRow(t) ==
    /\ pc[t] = "insert"
    /\ ledgerRow' = [ledgerRow EXCEPT ![seq(t)] = cur[t]]
    /\ Goto(t, "finish")
    /\ UNCHANGED <<pendingVars, txRows, boundVars>>

\* A finishWork that erases the entry but wakes nobody.
FinishWorkSilently(t) ==
    /\ pc[t] = "finish"
    /\ map' = [map EXCEPT ![seq(t)] = "absent"]
    /\ Return(t)
    /\ UNCHANGED <<flags, jobs, dbVars, boundVars>>

\* A finishWork that takes the mark off the entry and keeps the entry.
FinishWorkKeepsEntry(t) ==
    /\ pc[t] = "finish"
    /\ map' = [map EXCEPT ![seq(t)] = "scheduled"]
    /\ pc' = [u \in Threads |->
                 IF u = t THEN "idle"
                 ELSE IF pc[u] = "waiting" THEN "shouldWork" ELSE pc[u]]
    /\ cur' = [cur EXCEPT ![t] = None]
    /\ sync' = [sync EXCEPT ![t] = FALSE]
    /\ UNCHANGED <<flags, jobs, dbVars, boundVars>>

(* PendingSaves::finishWork: erase the entry and wake every waiter, which  *)
(* runs the loop of shouldWork again.                                      *)
FinishWork(t) ==
    /\ pc[t] = "finish"
    /\ map' = [map EXCEPT ![seq(t)] = "absent"]
    /\ pc' = [u \in Threads |->
                 IF u = t THEN "idle"
                 ELSE IF pc[u] = "waiting" THEN "shouldWork" ELSE pc[u]]
    /\ cur' = [cur EXCEPT ![t] = None]
    /\ sync' = [sync EXCEPT ![t] = FALSE]
    /\ UNCHANGED <<flags, jobs, dbVars, boundVars>>

-----------------------------------------------------------------------------
(* Environment *)

(* An entry of the HashRouter ages out and takes its flag with it.         *)
ExpireFlag(l) ==
    /\ l \in flags
    /\ flags' = flags \ {l}
    /\ UNCHANGED <<map, jobs, threadVars, dbVars, boundVars>>

(* The process dies and is started again: memory is lost, the databases    *)
(* keep what was committed.                                                *)
Crash ==
    /\ crashes < MaxCrashes
    /\ crashes' = crashes + 1
    /\ flags' = {}
    /\ failed' = {}
    /\ map' = [s \in Seqs |-> "absent"]
    /\ jobs' = [l \in Ledgers |-> 0]
    /\ pc' = [t \in Threads |-> "idle"]
    /\ cur' = [t \in Threads |-> None]
    /\ sync' = [t \in Threads |-> FALSE]
    /\ UNCHANGED <<dbVars, calls>>

ThreadStep(t) ==
    \/ CheckPending(t)
    \/ ShouldWork(t)
    \/ Dispatch(t)
    \/ StartWork(t)
    \/ Build(t)
    \/ DeleteLedgerRow(t)
    \/ CommitTxns(t)
    \/ InsertLedgerRow(t)
    \/ FinishWork(t)

Next ==
    \/ \E t \in Threads :
          \/ \E l \in Ledgers, s \in BOOLEAN : PendSaveValidated(t, l, s)
          \/ \E l \in Ledgers : RunJob(t, l)
          \/ ThreadStep(t)
    \/ \E l \in Ledgers : ExpireFlag(l)
    \/ Crash

Spec == Init /\ [][Next]_vars

(* The scheduler runs every thread that can run, and the job queue runs    *)
(* every queued job (JobQueue.h: "A job posted will always run to          *)
(* completion").                                                           *)
Fairness ==
    /\ \A t \in Threads : WF_vars(ThreadStep(t))
    /\ \A l \in Ledgers : SF_vars(\E t \in Threads : RunJob(t, l))

FairSpec == Spec /\ Fairness

-----------------------------------------------------------------------------
(* Properties *)

(* PendingSaves lets one thread at a time write a ledger sequence, and the *)
(* entry is marked in progress exactly while that thread writes            *)
(* (PendingSaves::startWork, finishWork).                                  *)
OneWriter ==
    /\ \A t, u \in Threads :
          pc[t] \in Writing /\ pc[u] \in Writing /\ seq(t) = seq(u) => t = u
    /\ \A s \in Seqs :
          map[s] = "working" <=>
              \E t \in Threads : pc[t] \in Writing /\ seq(t) = s

(* Whatever saves are interleaved and wherever the process dies, a ledger  *)
(* with a row in the Ledgers table has its own transactions in the         *)
(* transaction tables (the order of the statements in                      *)
(* saveValidatedLedger).                                                   *)
RowsAgree ==
    \A s \in Seqs : ledgerRow[s] # None => txRows[s] = ledgerRow[s]

(* A pending entry never leaks: as long as a sequence is scheduled, some   *)
(* queued job or some thread will start the work.  A leaked entry would    *)
(* keep the sequence out of LedgerMaster::getValidatedRange forever.       *)
ScheduledHasOwner ==
    \A s \in Seqs :
        map[s] = "scheduled" =>
            \/ \E l \in Ledgers : SeqOf[l] = s /\ jobs[l] > 0
            \/ \E t \in Threads :
                  pc[t] \in {"dispatch", "startWork"} /\ seq(t) = s

(* SF_SAVED is set before anything is written, so the flag is a promise    *)
(* and not a record.  The promise is kept: unless a save of the sequence   *)
(* failed and was handed to failedSave, a flagged ledger's sequence has a  *)
(* row, or an entry in PendingSaves, or a thread between the flag and      *)
(* shouldWork.  A synchronous pendSaveValidated that returns early on the  *)
(* flag, or because startWork refused it, leaves the save in those hands.  *)
FlagIsKept ==
    \A l \in flags :
        \/ SeqOf[l] \in failed
        \/ ledgerRow[SeqOf[l]] # None
        \/ map[SeqOf[l]] # "absent"
        \/ \E t \in Threads : pc[t] = "shouldWork" /\ seq(t) = SeqOf[l]

(* Every thread inside pendSaveValidated or a save job gets out again, in  *)
(* particular the ones waiting in PendingSaves::shouldWork.                *)
CallsReturn ==
    \A t \in Threads : (pc[t] # "idle") ~> (pc[t] = "idle")

(* Ledger.cpp, pendSaveValidated: when a synchronous call finds SF_SAVED   *)
(* set and no pending entry, the save "is finished".                       *)
FinishedMeansSaved ==
    [][\A t \in Threads :
          /\ pc[t] = "pending"
          /\ pc'[t] = "idle"
          /\ crashes' = crashes
          => ledgerRow[seq(t)] # None]_vars

(* Ledger.cpp, saveValidatedLedger: when startWork refuses, "The save was  *)
(* completed synchronously".                                               *)
AbortedMeansCompleted ==
    [][\A t \in Threads :
          /\ pc[t] = "startWork"
          /\ pc'[t] = "idle"
          /\ crashes' = crashes
          => map[seq(t)] # "working"]_vars

=============================================================================

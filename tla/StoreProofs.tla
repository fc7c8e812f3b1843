---------------------------- MODULE StoreProofs -----------------------------
(***************************************************************************)
(* Proofs about what a node keeps: the rows of the validated ledgers       *)
(* (LedgerSave), for any threads, ledgers and sequences, and the           *)
(* validations (Validations), for every set of them that validators may    *)
(* send and every order in which they come.                                *)
(***************************************************************************)
EXTENDS LedgerSave, Validations, FiniteSetTheorems, TLAPS

\* The provers of a step that names none, in the order they are tried.
USE SMT, Zenon, SMTT(30)

-----------------------------------------------------------------------------
(* The rows of a ledger.  OneWriter and RowsAgree are not inductive alone: *)
(* a writer that has deleted the row of the Ledgers table relies on nobody *)
(* putting it back, and the one about to insert it relies on the           *)
(* transactions being its own.  RowPhases says so, and OneWriter is what   *)
(* keeps it true.                                                          *)

RowPhases ==
    \A t \in Threads :
        /\ pc[t] \in {"txns", "insert"} => ledgerRow[seq(t)] = None
        /\ pc[t] = "insert" => txRows[seq(t)] = cur[t]

\* What a thread that is about to erase the entry leaves behind.
FinishLeaves ==
    \A t \in Threads :
        pc[t] = "finish" => seq(t) \in failed \/ ledgerRow[seq(t)] # None

IInv ==
    /\ TypeOK /\ OneWriter
    /\ RowsAgree /\ RowPhases
    /\ ScheduledHasOwner
    /\ FlagIsKept /\ FinishLeaves

(* At the start nothing is tracked, nobody writes and no row exists.       *)
LEMMA InitIInv == Init => IInv
  BY SeqOfAssumption, NoneAssumption
     DEF Init, IInv, TypeOK, OneWriter, RowsAgree, RowPhases,
         ScheduledHasOwner, FlagIsKept, FinishLeaves, MapStates, PCs,
         Writing, seq

(* Every step of every thread, every expiry and every crash keeps the      *)
(* types.                                                                  *)
LEMMA TypeStep == TypeOK /\ [Next]_vars => TypeOK'
  <1> SUFFICES ASSUME TypeOK, [Next]_vars PROVE TypeOK'
    OBVIOUS
  <1> USE SeqOfAssumption, NoneAssumption
      DEF TypeOK, MapStates, PCs, Writing, seq, pendingVars, threadVars,
          dbVars, boundVars, Goto, Return, Begin
  <1>1. ASSUME NEW t \in Threads, NEW l \in Ledgers, NEW s \in BOOLEAN,
               PendSaveValidated(t, l, s)
        PROVE  TypeOK'
    BY <1>1 DEF PendSaveValidated
  <1>2. ASSUME NEW t \in Threads, NEW l \in Ledgers, RunJob(t, l)
        PROVE  TypeOK'
    BY <1>2 DEF RunJob
  <1>3. ASSUME NEW t \in Threads, CheckPending(t) PROVE TypeOK'
    BY ZenonT(60), <1>3 DEF CheckPending
  <1>4. ASSUME NEW t \in Threads, ShouldWork(t) PROVE TypeOK'
    BY ZenonT(60), <1>4 DEF ShouldWork
  <1>5. ASSUME NEW t \in Threads, Dispatch(t) PROVE TypeOK'
    BY <1>5 DEF Dispatch
  <1>6. ASSUME NEW t \in Threads, StartWork(t) PROVE TypeOK'
    BY ZenonT(60), <1>6 DEF StartWork
  <1>7. ASSUME NEW t \in Threads, Build(t) PROVE TypeOK'
    BY <1>7 DEF Build
  <1>8. ASSUME NEW t \in Threads, DeleteLedgerRow(t) PROVE TypeOK'
    BY <1>8 DEF DeleteLedgerRow
  <1>9. ASSUME NEW t \in Threads, CommitTxns(t) PROVE TypeOK'
    BY <1>9 DEF CommitTxns
  <1>10. ASSUME NEW t \in Threads, InsertLedgerRow(t) PROVE TypeOK'
    BY <1>10 DEF InsertLedgerRow
  <1>11. ASSUME NEW t \in Threads, FinishWork(t) PROVE TypeOK'
    BY <1>11 DEF FinishWork
  <1>12. ASSUME NEW l \in Ledgers, ExpireFlag(l) PROVE TypeOK'
    BY <1>12 DEF ExpireFlag
  <1>13. CASE Crash
    BY <1>13 DEF Crash
  <1>14. CASE UNCHANGED vars
    BY <1>14 DEF vars
  <1> QED
    BY <1>1, <1>2, <1>3, <1>4, <1>5, <1>6, <1>7, <1>8, <1>9, <1>10, <1>11,
       <1>12, <1>13, <1>14 DEF Next, ThreadStep

(* startWork hands a sequence to one thread, finishWork takes it back.     *)
LEMMA OneWriterStep == TypeOK /\ OneWriter /\ [Next]_vars => OneWriter'
  <1> SUFFICES ASSUME TypeOK, OneWriter, [Next]_vars PROVE OneWriter'
    OBVIOUS
  <1> USE SeqOfAssumption, NoneAssumption
      DEF TypeOK, MapStates, PCs, Writing, seq, pendingVars, threadVars,
          dbVars, boundVars, Goto, Return, Begin, OneWriter
  <1>1. ASSUME NEW t \in Threads, NEW l \in Ledgers, NEW s \in BOOLEAN, PendSaveValidated(t, l, s)
        PROVE  OneWriter'
    BY <1>1 DEF PendSaveValidated
  <1>2. ASSUME NEW t \in Threads, NEW l \in Ledgers, RunJob(t, l)
        PROVE  OneWriter'
    BY <1>2 DEF RunJob
  <1>3. ASSUME NEW t \in Threads, CheckPending(t)
        PROVE  OneWriter'
    BY <1>3 DEF CheckPending
  <1>4. ASSUME NEW t \in Threads, ShouldWork(t)
        PROVE  OneWriter'
    BY <1>4 DEF ShouldWork
  <1>5. ASSUME NEW t \in Threads, Dispatch(t)
        PROVE  OneWriter'
    BY <1>5 DEF Dispatch
  <1>6. ASSUME NEW t \in Threads, StartWork(t)
        PROVE  OneWriter'
    BY <1>6 DEF StartWork
  <1>7. ASSUME NEW t \in Threads, Build(t)
        PROVE  OneWriter'
    BY <1>7 DEF Build
  <1>8. ASSUME NEW t \in Threads, DeleteLedgerRow(t)
        PROVE  OneWriter'
    BY <1>8 DEF DeleteLedgerRow
  <1>9. ASSUME NEW t \in Threads, CommitTxns(t)
        PROVE  OneWriter'
    BY <1>9 DEF CommitTxns
  <1>10. ASSUME NEW t \in Threads, InsertLedgerRow(t)
        PROVE  OneWriter'
    BY <1>10 DEF InsertLedgerRow
  <1>11. ASSUME NEW t \in Threads, FinishWork(t)
        PROVE  OneWriter'
    BY <1>11 DEF FinishWork
  <1>12. ASSUME NEW l \in Ledgers, ExpireFlag(l)
        PROVE  OneWriter'
    BY <1>12 DEF ExpireFlag
  <1>13. CASE Crash
    BY <1>13 DEF Crash
  <1>14. CASE UNCHANGED vars
    BY <1>14 DEF vars
  <1> HIDE DEF TypeOK, MapStates, PCs, Writing, seq, pendingVars, threadVars,
          dbVars, boundVars, Goto, Return, Begin, OneWriter
  <1> QED
    BY Zenon, <1>1, <1>2, <1>3, <1>4, <1>5, <1>6, <1>7, <1>8, <1>9, <1>10, <1>11, <1>12, <1>13, <1>14
       DEF Next, ThreadStep

(* The order of the SQL statements, with no second writer, keeps the tables
   consistent. *)
LEMMA RowsStep == TypeOK /\ OneWriter /\ RowsAgree /\ RowPhases /\ [Next]_vars => (RowsAgree /\ RowPhases)'
  <1> SUFFICES ASSUME TypeOK, OneWriter, RowsAgree, RowPhases, [Next]_vars PROVE (RowsAgree /\ RowPhases)'
    OBVIOUS
  <1> USE SeqOfAssumption, NoneAssumption
      DEF TypeOK, MapStates, PCs, Writing, seq, pendingVars, threadVars,
          dbVars, boundVars, Goto, Return, Begin, OneWriter, RowsAgree,
          RowPhases
  <1>1. ASSUME NEW t \in Threads, NEW l \in Ledgers, NEW s \in BOOLEAN, PendSaveValidated(t, l, s)
        PROVE  (RowsAgree /\ RowPhases)'
    BY <1>1 DEF PendSaveValidated
  <1>2. ASSUME NEW t \in Threads, NEW l \in Ledgers, RunJob(t, l)
        PROVE  (RowsAgree /\ RowPhases)'
    BY <1>2 DEF RunJob
  <1>3. ASSUME NEW t \in Threads, CheckPending(t)
        PROVE  (RowsAgree /\ RowPhases)'
    BY <1>3 DEF CheckPending
  <1>4. ASSUME NEW t \in Threads, ShouldWork(t)
        PROVE  (RowsAgree /\ RowPhases)'
    BY <1>4 DEF ShouldWork
  <1>5. ASSUME NEW t \in Threads, Dispatch(t)
        PROVE  (RowsAgree /\ RowPhases)'
    BY <1>5 DEF Dispatch
  <1>6. ASSUME NEW t \in Threads, StartWork(t)
        PROVE  (RowsAgree /\ RowPhases)'
    BY <1>6 DEF StartWork
  <1>7. ASSUME NEW t \in Threads, Build(t)
        PROVE  (RowsAgree /\ RowPhases)'
    BY <1>7 DEF Build
  <1>8. ASSUME NEW t \in Threads, DeleteLedgerRow(t)
        PROVE  (RowsAgree /\ RowPhases)'
    BY <1>8 DEF DeleteLedgerRow
  <1>9. ASSUME NEW t \in Threads, CommitTxns(t)
        PROVE  (RowsAgree /\ RowPhases)'
    BY <1>9 DEF CommitTxns
  <1>10. ASSUME NEW t \in Threads, InsertLedgerRow(t)
        PROVE  (RowsAgree /\ RowPhases)'
    BY <1>10 DEF InsertLedgerRow
  <1>11. ASSUME NEW t \in Threads, FinishWork(t)
        PROVE  (RowsAgree /\ RowPhases)'
    BY <1>11 DEF FinishWork
  <1>12. ASSUME NEW l \in Ledgers, ExpireFlag(l)
        PROVE  (RowsAgree /\ RowPhases)'
    BY <1>12 DEF ExpireFlag
  <1>13. CASE Crash
    BY <1>13 DEF Crash
  <1>14. CASE UNCHANGED vars
    BY <1>14 DEF vars
  <1> HIDE DEF TypeOK, MapStates, PCs, Writing, seq, pendingVars, threadVars,
          dbVars, boundVars, Goto, Return, Begin, OneWriter, RowsAgree,
          RowPhases
  <1> QED
    BY Zenon, <1>1, <1>2, <1>3, <1>4, <1>5, <1>6, <1>7, <1>8, <1>9, <1>10, <1>11, <1>12, <1>13, <1>14
       DEF Next, ThreadStep

(* Only the owner of a scheduled entry can go away by starting the work.   *)
LEMMA ScheduledStep == TypeOK /\ OneWriter /\ ScheduledHasOwner /\ [Next]_vars => ScheduledHasOwner'
  <1> SUFFICES ASSUME TypeOK, OneWriter, ScheduledHasOwner, [Next]_vars PROVE ScheduledHasOwner'
    OBVIOUS
  <1> USE SeqOfAssumption, NoneAssumption
      DEF TypeOK, MapStates, PCs, Writing, seq, pendingVars, threadVars,
          dbVars, boundVars, Goto, Return, Begin, OneWriter,
          ScheduledHasOwner
  <1>1. ASSUME NEW t \in Threads, NEW l \in Ledgers, NEW s \in BOOLEAN, PendSaveValidated(t, l, s)
        PROVE  ScheduledHasOwner'
    BY <1>1 DEF PendSaveValidated
  <1>2. ASSUME NEW t \in Threads, NEW l \in Ledgers, RunJob(t, l)
        PROVE  ScheduledHasOwner'
    BY <1>2 DEF RunJob
  <1>3. ASSUME NEW t \in Threads, CheckPending(t)
        PROVE  ScheduledHasOwner'
    BY <1>3 DEF CheckPending
  <1>4. ASSUME NEW t \in Threads, ShouldWork(t)
        PROVE  ScheduledHasOwner'
    BY <1>4 DEF ShouldWork
  <1>5. ASSUME NEW t \in Threads, Dispatch(t)
        PROVE  ScheduledHasOwner'
    BY <1>5 DEF Dispatch
  <1>6. ASSUME NEW t \in Threads, StartWork(t)
        PROVE  ScheduledHasOwner'
    BY <1>6 DEF StartWork
  <1>7. ASSUME NEW t \in Threads, Build(t)
        PROVE  ScheduledHasOwner'
    BY <1>7 DEF Build
  <1>8. ASSUME NEW t \in Threads, DeleteLedgerRow(t)
        PROVE  ScheduledHasOwner'
    BY <1>8 DEF DeleteLedgerRow
  <1>9. ASSUME NEW t \in Threads, CommitTxns(t)
        PROVE  ScheduledHasOwner'
    BY <1>9 DEF CommitTxns
  <1>10. ASSUME NEW t \in Threads, InsertLedgerRow(t)
        PROVE  ScheduledHasOwner'
    BY <1>10 DEF InsertLedgerRow
  <1>11. ASSUME NEW t \in Threads, FinishWork(t)
        PROVE  ScheduledHasOwner'
    BY <1>11 DEF FinishWork
  <1>12. ASSUME NEW l \in Ledgers, ExpireFlag(l)
        PROVE  ScheduledHasOwner'
    BY <1>12 DEF ExpireFlag
  <1>13. CASE Crash
    BY <1>13 DEF Crash
  <1>14. CASE UNCHANGED vars
    BY <1>14 DEF vars
  <1> HIDE DEF TypeOK, MapStates, PCs, Writing, seq, pendingVars, threadVars,
          dbVars, boundVars, Goto, Return, Begin, OneWriter,
          ScheduledHasOwner
  <1> QED
    BY Zenon, <1>1, <1>2, <1>3, <1>4, <1>5, <1>6, <1>7, <1>8, <1>9, <1>10, <1>11, <1>12, <1>13, <1>14
       DEF Next, ThreadStep

(* Only finishWork erases an entry, and it leaves a row or a failed save.  *)
LEMMA FlagStep == TypeOK /\ OneWriter /\ FlagIsKept /\ FinishLeaves /\ [Next]_vars => (FlagIsKept /\ FinishLeaves)'
  <1> SUFFICES ASSUME TypeOK, OneWriter, FlagIsKept, FinishLeaves, [Next]_vars
               PROVE  (FlagIsKept /\ FinishLeaves)'
    OBVIOUS
  <1> USE SeqOfAssumption, NoneAssumption
      DEF TypeOK, MapStates, PCs, Writing, seq, pendingVars, threadVars,
          dbVars, boundVars, Goto, Return, Begin, OneWriter,
          FlagIsKept, FinishLeaves
  <1>1. ASSUME NEW t \in Threads, NEW l \in Ledgers, NEW s \in BOOLEAN, PendSaveValidated(t, l, s)
        PROVE  (FlagIsKept /\ FinishLeaves)'
    BY <1>1 DEF PendSaveValidated
  <1>2. ASSUME NEW t \in Threads, NEW l \in Ledgers, RunJob(t, l)
        PROVE  (FlagIsKept /\ FinishLeaves)'
    BY <1>2 DEF RunJob
  <1>3. ASSUME NEW t \in Threads, CheckPending(t)
        PROVE  (FlagIsKept /\ FinishLeaves)'
    BY <1>3 DEF CheckPending
  <1>4. ASSUME NEW t \in Threads, ShouldWork(t)
        PROVE  (FlagIsKept /\ FinishLeaves)'
    BY <1>4 DEF ShouldWork
  <1>5. ASSUME NEW t \in Threads, Dispatch(t)
        PROVE  (FlagIsKept /\ FinishLeaves)'
    BY <1>5 DEF Dispatch
  <1>6. ASSUME NEW t \in Threads, StartWork(t)
        PROVE  (FlagIsKept /\ FinishLeaves)'
    BY <1>6 DEF StartWork
  <1>7. ASSUME NEW t \in Threads, Build(t)
        PROVE  (FlagIsKept /\ FinishLeaves)'
    BY <1>7 DEF Build
  <1>8. ASSUME NEW t \in Threads, DeleteLedgerRow(t)
        PROVE  (FlagIsKept /\ FinishLeaves)'
    BY <1>8 DEF DeleteLedgerRow
  <1>9. ASSUME NEW t \in Threads, CommitTxns(t)
        PROVE  (FlagIsKept /\ FinishLeaves)'
    BY <1>9 DEF CommitTxns
  <1>10. ASSUME NEW t \in Threads, InsertLedgerRow(t)
        PROVE  (FlagIsKept /\ FinishLeaves)'
    BY <1>10 DEF InsertLedgerRow
  <1>11. ASSUME NEW t \in Threads, FinishWork(t)
        PROVE  (FlagIsKept /\ FinishLeaves)'
    BY <1>11 DEF FinishWork
  <1>12. ASSUME NEW l \in Ledgers, ExpireFlag(l)
        PROVE  (FlagIsKept /\ FinishLeaves)'
    BY <1>12 DEF ExpireFlag
  <1>13. CASE Crash
    BY <1>13 DEF Crash
  <1>14. CASE UNCHANGED vars
    BY <1>14 DEF vars
  <1> HIDE DEF TypeOK, MapStates, PCs, Writing, seq, pendingVars, threadVars,
          dbVars, boundVars, Goto, Return, Begin, OneWriter, FlagIsKept,
          FinishLeaves
  <1> QED
    BY Zenon, <1>1, <1>2, <1>3, <1>4, <1>5, <1>6, <1>7, <1>8, <1>9, <1>10, <1>11, <1>12, <1>13, <1>14
       DEF Next, ThreadStep

(* The inductive invariant: each part is kept by its own lemma. *)
LEMMA IInvStep == IInv /\ [Next]_vars => IInv'
  BY TypeStep, OneWriterStep, RowsStep, ScheduledStep, FlagStep DEF IInv

(* PendingSaves is a lock per sequence: whatever calls are interleaved, one
   thread at a time writes a sequence and the entry says so. *)
THEOREM OneWriterAlways == Spec => []OneWriter
  <1>1. IInv => OneWriter
    BY DEF IInv
  <1> QED
    BY InitIInv, IInvStep, <1>1, PTL DEF Spec

(* A row of the Ledgers table is always backed by the transactions of the
   same ledger, through every interleaving and every crash. *)
THEOREM RowsAgreeAlways == Spec => []RowsAgree
  <1>1. IInv => RowsAgree
    BY DEF IInv
  <1> QED
    BY InitIInv, IInvStep, <1>1, PTL DEF Spec

(* A pending entry always has somebody who will work on it. *)
THEOREM ScheduledAlwaysHasOwner == Spec => []ScheduledHasOwner
  <1>1. IInv => ScheduledHasOwner
    BY DEF IInv
  <1> QED
    BY InitIInv, IInvStep, <1>1, PTL DEF Spec

(* SF_SAVED is a kept promise, sequence by sequence: when a ledger is
   flagged, its sequence has a row, an entry in PendingSaves or a thread
   about to make one, or a save of that sequence was handed to failedSave. *)
THEOREM FlagAlwaysKept == Spec => []FlagIsKept
  <1>1. IInv => FlagIsKept
    BY DEF IInv
  <1> QED
    BY InitIInv, IInvStep, <1>1, PTL DEF Spec

(* Every variable of the save keeps its type, and a busy thread its ledger. *)
THEOREM TypeAlways == Spec => []TypeOK
  <1>1. IInv => TypeOK
    BY DEF IInv
  <1> QED
    BY InitIInv, IInvStep, <1>1, PTL DEF Spec

-----------------------------------------------------------------------------
(* The store of validations *)

\* A current validation is in the set of its ledger.
CurrentStored ==
    /\ IsFiniteSet(stored)
    /\ \A n \in Nodes : current[n] # NoValidation => current[n] \in stored

\* The inductive invariant.
StoreInv == ValidationsType /\ CurrentStored /\ StaleBeingWritten

-----------------------------------------------------------------------------
LEMMA SignedType ==
    ASSUME NEW m \in Messages
    PROVE  m.key \in Nat /\ m.seq \in Nat /\ m.time \in Nat /\ m.node \in Nodes
           /\ m # NoValidation
BY ValidationsAssumption DEF Nodes

LEMMA StoreInvInit == ValidationsInit => StoreInv
<1> SUFFICES ASSUME ValidationsInit PROVE StoreInv
  OBVIOUS
<1>1. ValidationsType
  BY Zenon DEF ValidationsInit, ValidationsType
<1>2. StaleBeingWritten
  BY DEF ValidationsInit, StaleBeingWritten
<1>3. CurrentStored
  BY FS_EmptySet DEF ValidationsInit, CurrentStored
<1> QED BY <1>1, <1>2, <1>3 DEF StoreInv

\* addValidation before its lock, and its outcomes under it.  A validation
\* that insert takes in is for another ledger than the current one of its
\* validator, so the erase of that one leaves it in its set.
LEMMA AddValidationKeeps ==
    ASSUME StoreInv, NEW m \in Messages, checkValidation(m) \/ addValidation(m)
    PROVE  StoreInv'
<1> USE DEF StoreInv
<1> DEFINE n == m.node
           c == current[n]
<1>0. n \in Nodes /\ m # NoValidation
  BY SignedType
<1>1. UNCHANGED <<now, signingKey, batch, written, flushing>> /\ adding' \subseteq Messages
  BY DEF checkValidation, addValidation, writerVars, ValidationsType
<1>2. /\ stored \subseteq Messages
      /\ current \in [Nodes -> Messages \cup {NoValidation}]
      /\ c # NoValidation => c \in stored /\ c.node = n
  BY <1>0 DEF ValidationsType, CurrentStored
<1>3. CASE UNCHANGED storeVars
  <2>1. UNCHANGED <<stored, current, stale, writing>>
    BY <1>3 DEF storeVars
  <2> QED BY <1>1, <2>1 DEF ValidationsType, CurrentStored, StaleBeingWritten
<1>4. CASE addFirst(m)
  <2>1. /\ stored' = stored \cup {m}
        /\ current' = [current EXCEPT ![n] = m]
        /\ UNCHANGED <<stale, writing>>
    BY <1>4 DEF addFirst
  <2>2. ValidationsType'
    BY <1>0, <1>1, <2>1 DEF ValidationsType
  <2>3. StaleBeingWritten'
    BY <1>1, <2>1 DEF StaleBeingWritten
  <2>4. CurrentStored'
    BY <1>0, <1>2, <2>1, FS_AddElement DEF CurrentStored
  <2> QED BY <2>2, <2>3, <2>4
<1>5. CASE mayInsert(m) /\ addNewer(m)
  <2>1. /\ c # NoValidation
        /\ stored' = withoutRevoked(stored \cup {m}, m, c)
        /\ current' = [current EXCEPT ![n] = m]
        /\ stale' = stale \cup {c}
        /\ writing' = TRUE
    BY Zenon, <1>5 DEF addNewer, makeStale, ValidationsType
  <2>2. stored' \subseteq stored \cup {m}
    BY <2>1 DEF withoutRevoked
  <2>3. ValidationsType'
    <3>1. current' \in [Nodes -> Messages \cup {NoValidation}]
      BY Zenon, <1>2, <2>1
    <3>2. \A j \in Nodes : current'[j] # NoValidation => current'[j].node = j
      BY <1>0, <1>2, <2>1 DEF ValidationsType
    <3> QED BY Zenon, <1>1, <1>2, <2>1, <2>2, <3>1, <3>2 DEF ValidationsType
  <2>4. StaleBeingWritten'
    BY <2>1 DEF StaleBeingWritten
  <2>5. CurrentStored'
    <3>1. IsFiniteSet(stored')
      BY Zenon, <2>2, FS_AddElement, FS_Subset DEF CurrentStored
    <3>2. m.ledger # c.ledger
      BY <1>2, <1>5, <2>1 DEF mayInsert, validationsOf
    <3>3. m \in stored'
      BY <2>1, <3>2 DEF withoutRevoked
    <3>4. ASSUME NEW j \in Nodes, current'[j] # NoValidation
          PROVE  current'[j] \in stored'
      <4>1. CASE j = n
        BY <1>2, <2>1, <3>3, <4>1
      <4>2. CASE j # n
        <5>1. current'[j] = current[j]
          BY <1>2, <2>1, <4>2
        <5>2. current[j] \in stored /\ current[j].node = j
          BY <3>4, <5>1 DEF CurrentStored, ValidationsType
        <5> QED BY <2>1, <4>2, <5>1, <5>2 DEF withoutRevoked
      <4> QED BY <4>1, <4>2
    <3> QED BY <3>1, <3>4 DEF CurrentStored
  <2> QED BY <2>3, <2>4, <2>5
<1>6. CASE addOlder(m)
  <2>1. stored' = stored \cup {m} /\ UNCHANGED <<current, stale, writing>>
    BY <1>6 DEF addOlder
  <2>2. ValidationsType' /\ StaleBeingWritten'
    BY <1>1, <2>1 DEF ValidationsType, StaleBeingWritten
  <2>3. CurrentStored'
    BY <2>1, FS_AddElement DEF CurrentStored
  <2> QED BY <2>2, <2>3
<1> QED BY <1>3, <1>4, <1>5, <1>6 DEF checkValidation, addValidation

\* getCurrentValidations takes out what has expired.
LEMMA GetCurrentKeeps ==
    ASSUME StoreInv, getCurrentValidations
    PROVE  StoreInv'
<1> USE DEF StoreInv
<1>1. /\ UNCHANGED <<now, signingKey, adding, stored, batch, written, flushing>>
      /\ current' = [n \in Nodes |-> IF n \in expired THEN NoValidation ELSE current[n]]
      /\ stale' = stale \cup {current[n] : n \in expired}
      /\ writing' = TRUE
  <2>1. removeExpired /\ UNCHANGED <<now, signingKey, adding, stored, writerVars>>
    BY DEF getCurrentValidations
  <2>2. {current[n] : n \in expired} # {}
    BY Zenon DEF getCurrentValidations
  <2>3. writing' = TRUE
    BY Zenon, <2>1, <2>2 DEF removeExpired, makeStale
  <2> QED BY <2>1, <2>3 DEF removeExpired, makeStale, writerVars
<1>2. \A n \in expired : n \in Nodes /\ current[n] \in Messages
  BY DEF expired, ValidationsType
<1>3. ValidationsType'
  BY <1>1, <1>2 DEF ValidationsType
<1>4. StaleBeingWritten'
  BY <1>1 DEF StaleBeingWritten
<1>5. CurrentStored'
  BY <1>1 DEF CurrentStored
<1> QED BY <1>3, <1>4, <1>5

\* The job that writes, and flush.
LEMMA WriterKeeps ==
    ASSUME StoreInv, writeStep \/ flush \/ flushed
    PROVE  StoreInv'
<1> USE DEF StoreInv
<1>1. CASE writeStep
  <2>1. UNCHANGED <<stored, current>>
    BY <1>1 DEF writeStep, takeStale, commitBatch, endWrite, storeVars, writerVars
  <2>2. ValidationsType' /\ StaleBeingWritten'
    BY Zenon, <1>1 DEF writeStep, takeStale, commitBatch, endWrite, storeVars, writerVars,
                ValidationsType, StaleBeingWritten
  <2> QED BY <2>1, <2>2 DEF CurrentStored
<1>2. CASE flush
  <2> DEFINE held == {current[n] : n \in {k \in Nodes : current[k] # NoValidation}}
  <2>1. /\ UNCHANGED <<now, signingKey, adding, stored, batch, written>>
        /\ current' = [n \in Nodes |-> NoValidation]
        /\ flushing' = "waiting"
        /\ stale' = stale \cup held
        /\ writing' = (writing \/ held # {})
    BY <1>2 DEF flush, makeStale
  <2>2. held \subseteq Messages
    BY DEF ValidationsType
  <2> HIDE DEF held
  <2>3. ValidationsType'
    BY <2>1, <2>2 DEF ValidationsType
  <2>4. StaleBeingWritten'
    BY Zenon, <2>1 DEF StaleBeingWritten
  <2> QED BY <2>1, <2>3, <2>4 DEF CurrentStored
<1>3. CASE flushed
  <2>1. /\ UNCHANGED <<now, signingKey, adding, stored, current, stale, writing, batch, written>>
        /\ flushing' = "done"
    BY <1>3 DEF flushed, storeVars
  <2> QED BY <2>1 DEF ValidationsType, StaleBeingWritten, CurrentStored
<1> QED BY <1>1, <1>2, <1>3

\* Sets that leave the cache, time and manifests.
LEMMA OthersKeep ==
    ASSUME StoreInv,
           \/ \E m \in Messages : sweep(m.ledger)
           \/ tick
           \/ \E n \in Nodes, m \in Messages : applyManifest(n, m.key)
           \/ UNCHANGED validationVars
    PROVE  StoreInv'
<1> USE DEF StoreInv
<1>0. /\ UNCHANGED <<adding, current, stale, writing, batch, written, flushing>>
      /\ stored' \subseteq stored
      /\ \A k \in stored : current[k.node] = k => k \in stored'
      /\ now' \in {now, now + 1}
      /\ \/ UNCHANGED signingKey
         \/ \E n \in Nodes, m \in Messages : signingKey' = [signingKey EXCEPT ![n] = m.key]
  BY DEF sweep, tick, applyManifest, validationVars, storeVars, writerVars, validationsOf
<1>1. now' \in Nat /\ signingKey' \in [Nodes -> Nat]
  BY <1>0, SignedType DEF ValidationsType
<1>2. ValidationsType' /\ StaleBeingWritten'
  BY <1>0, <1>1 DEF ValidationsType, StaleBeingWritten
<1>3. CurrentStored'
  <2>1. IsFiniteSet(stored')
    BY <1>0, FS_Subset DEF CurrentStored
  <2>2. ASSUME NEW n \in Nodes, current[n] # NoValidation PROVE current[n] \in stored'
    BY <1>0, <2>2 DEF CurrentStored, ValidationsType
  <2> QED BY <1>0, <2>1, <2>2 DEF CurrentStored
<1> QED BY <1>2, <1>3

\* StoreInv is inductive.
LEMMA StoreInvStep == StoreInv /\ [ValidationsNext]_validationVars => StoreInv'
BY AddValidationKeeps, GetCurrentKeeps, WriterKeeps, OthersKeep DEF ValidationsNext

\* mWriting is set as long as a stale validation is not in the database, so
\* the end of the wait in flush means that all are.
THEOREM StaleAlwaysBeingWritten == ValidationsSpec => []StaleBeingWritten
<1>1. StoreInv => StaleBeingWritten
  BY DEF StoreInv
<1> QED BY <1>1, StoreInvInit, StoreInvStep, PTL DEF ValidationsSpec

\* What consensusBuilt counts in mCurrentValidations checkAccept counts in the
\* set of the ledger, so that no ledger passes the first and fails the second,
\* whatever the validators sign and however late a thread gets mLock.
THEOREM CurrentAlwaysCounted == ValidationsSpec => []CurrentIsCounted
<1>1. StoreInv => CurrentIsCounted
  <2> SUFFICES ASSUME StoreInv, NEW ledger \in {m.ledger : m \in Messages}
               PROVE  Cardinality({m \in currentTrusted : m.ledger = ledger})
                        <= getTrustedValidationCount(ledger)
    BY DEF CurrentIsCounted
  <2> DEFINE voting == {m \in currentTrusted : m.ledger = ledger}
             counted == {m \in validationsOf(ledger) : isTrusted(m)}
  <2>1. ASSUME NEW n \in Nodes \ expired, current[n] # NoValidation, n \in Trusted
        PROVE  current[n] \in stored /\ isTrusted(current[n])
    BY <2>1 DEF StoreInv, ValidationsType, CurrentStored, isTrusted
  <2>2. voting \subseteq counted
    BY <2>1 DEF currentTrusted, validationsOf
  <2>3. IsFiniteSet(counted)
    BY FS_Subset DEF StoreInv, CurrentStored, validationsOf
  <2> QED BY <2>2, <2>3, FS_Subset DEF getTrustedValidationCount
<1> QED BY <1>1, StoreInvInit, StoreInvStep, PTL DEF ValidationsSpec

-----------------------------------------------------------------------------
\* No step loses a validation that was current or on its way.
LEMMA StepKeeps ==
    ASSUME StoreInv, ValidationsNext, NEW n \in Nodes
    PROVE  ({current[n]} \ {NoValidation}) \cup Recorded \subseteq {current'[n]} \cup Recorded'
<1> USE DEF StoreInv, Recorded
<1>0. current \in [Nodes -> Messages \cup {NoValidation}]
  BY DEF ValidationsType
<1>1. ASSUME NEW m \in Messages, checkValidation(m) \/ addValidation(m) PROVE
        ({current[n]} \ {NoValidation}) \cup Recorded \subseteq {current'[n]} \cup Recorded'
  <2>1. m.node \in Nodes /\ UNCHANGED <<batch, written>>
    BY <1>1, SignedType DEF checkValidation, addValidation, writerVars
  <2>2. CASE UNCHANGED storeVars
    BY <2>1, <2>2 DEF storeVars
  <2>3. CASE addFirst(m) \/ addNewer(m) \/ addOlder(m)
    BY <1>0, <2>1, <2>3 DEF addFirst, addNewer, addOlder, makeStale
  <2> QED BY <1>1, <2>2, <2>3 DEF checkValidation, addValidation
<1>2. CASE getCurrentValidations
  BY <1>0, <1>2 DEF getCurrentValidations, removeExpired, makeStale, writerVars
<1>3. CASE writeStep
  BY <1>3 DEF writeStep, takeStale, commitBatch, endWrite, storeVars, writerVars
<1>4. CASE flush
  BY <1>0, <1>4 DEF flush, makeStale
<1>5. CASE flushed
  BY <1>5 DEF flushed, storeVars
<1>6. CASE \/ \E m \in Messages : sweep(m.ledger)
           \/ tick
           \/ \E j \in Nodes, m \in Messages : applyManifest(j, m.key)
  BY <1>6 DEF sweep, tick, applyManifest, storeVars, writerVars
<1> QED BY <1>1, <1>2, <1>3, <1>4, <1>5, <1>6 DEF ValidationsNext

\* A validation that was current stays current or is on its way to the
\* database, through condWrite, doWrite and flush.
THEOREM ValidationsAlwaysKept == ValidationsSpec => ValidationsKept
<1>1. StoreInv /\ [ValidationsNext]_validationVars =>
        [\A n \in Nodes : ({current[n]} \ {NoValidation}) \cup Recorded
                             \subseteq {current'[n]} \cup Recorded']_validationVars
  BY StepKeeps
<1> QED BY <1>1, StoreInvInit, StoreInvStep, PTL DEF ValidationsSpec, ValidationsKept

=============================================================================

------------------------ MODULE PathRequestsProofs --------------------------
(***************************************************************************)
(* Proofs about PathRequests: a coroutine is posted at most once for each  *)
(* yield, nSuspend_ counts the suspended coroutines, and mPathFindThread   *)
(* never keeps the path finding from starting again, for any number of     *)
(* commands, ledgers and threads.  That a waiting coroutine is resumed is  *)
(* liveness and stays with TLC.                                            *)
(***************************************************************************)
EXTENDS PathRequestsJobProofs

\* The provers of a step that names none, in the order they are tried.
USE SMT, Zenon, SMTT(30)

-----------------------------------------------------------------------------
(* The coroutines *)

\* A step does not concern a coroutine.
Same(d) ==
    /\ Resuming(d)' = Resuming(d) /\ Locked(d)' = Locked(d) /\ Inside(d)' = Inside(d)
    /\ owner'[d] = owner[d] /\ point'[d] = point[d] /\ completion'[d] = completion[d]

One(b) == IF b THEN 1 ELSE 0

\* nSuspend_ changes as the sets it counts do.
Balance(c) ==
    nSuspend' = nSuspend + One(c \in Counted') - One(c \in Counted)
                         - One(c \in Resumed') + One(c \in Resumed)

\* A step concerns one coroutine, or none.
Effect(c) ==
    /\ \A d \in Coros : d # c => Same(d)
    /\ CoroOK(c)'
    /\ Balance(c)
Calm == UNCHANGED nSuspend /\ \A d \in Coros : Same(d)

LEMMA OneChanged ==
    ASSUME NEW A \in SUBSET Coros, NEW B \in SUBSET Coros, NEW c \in Coros,
           \A d \in Coros : d # c => (d \in A <=> d \in B)
    PROVE  /\ Cardinality(A) \in Nat /\ Cardinality(B) \in Nat
           /\ Cardinality(B) = Cardinality(A) + One(c \in B) - One(c \in A)
<1>1. IsFiniteSet(A) /\ IsFiniteSet(B) /\ Cardinality(A) \in Nat /\ Cardinality(B) \in Nat
  BY CorosNat
<1>2. CASE c \in A /\ c \in B
  <2>1. A = B
    BY <1>2
  <2> QED BY <1>1, <1>2, <2>1 DEF One
<1>3. CASE c \notin A /\ c \notin B
  <2>1. A = B
    BY <1>3
  <2> QED BY <1>1, <1>3, <2>1 DEF One
<1>4. CASE c \in A /\ c \notin B
  <2>1. B = A \ {c}
    BY <1>4
  <2>2. Cardinality(B) = Cardinality(A) - 1
    BY <1>1, <1>4, <2>1, FS_RemoveElement
  <2> QED BY <1>1, <1>4, <2>2 DEF One
<1>5. CASE c \notin A /\ c \in B
  <2>1. A = B \ {c}
    BY <1>5
  <2>2. Cardinality(A) = Cardinality(B) - 1
    BY <1>1, <1>5, <2>1, FS_RemoveElement
  <2> QED BY <1>1, <1>5, <2>2 DEF One
<1> QED BY <1>2, <1>3, <1>4, <1>5

LEMMA SameKept ==
    ASSUME NEW d \in Coros, Same(d)
    PROVE  /\ CoroOK(d) => CoroOK(d)'
           /\ d \in Counted <=> d \in Counted'
           /\ d \in Resumed <=> d \in Resumed'
<1>1. CoroOK(d) => CoroOK(d)'
  BY DEF Same, CoroOK
<1>2. d \in Counted <=> d \in Counted'
  BY DEF Same, Counted
<1>3. d \in Resumed <=> d \in Resumed'
  BY DEF Same, Resumed
<1> QED BY <1>1, <1>2, <1>3

LEMMA CalmKeeps ==
    ASSUME DataInv, CoroInv, SuspendInv, Calm
    PROVE  CoroInv' /\ SuspendInv'
<1>1. CoroInv'
  BY SameKept DEF Calm, CoroInv
<1>2. Counted' = Counted /\ Resumed' = Resumed
  <2>1. /\ Counted \subseteq Coros /\ Counted' \subseteq Coros
        /\ Resumed \subseteq Coros /\ Resumed' \subseteq Coros
    BY DEF Counted, Resumed
  <2> QED BY <2>1, SameKept DEF Calm
<1>3. SuspendInv'
  BY <1>2 DEF Calm, SuspendInv
<1> QED BY <1>1, <1>3

LEMMA EffectKeeps ==
    ASSUME DataInv, CoroInv, SuspendInv, NEW c \in Coros, Effect(c)
    PROVE  CoroInv' /\ SuspendInv'
<1>1. CoroInv'
  BY SameKept DEF Effect, CoroInv
<1>2. /\ Counted \in SUBSET Coros /\ Counted' \in SUBSET Coros
      /\ Resumed \in SUBSET Coros /\ Resumed' \in SUBSET Coros
  BY DEF Counted, Resumed
<1>3. \A d \in Coros : d # c => (d \in Counted <=> d \in Counted') /\ (d \in Resumed <=> d \in Resumed')
  BY SameKept DEF Effect
<1>4. /\ Cardinality(Counted) \in Nat /\ Cardinality(Counted') \in Nat
      /\ Cardinality(Counted') = Cardinality(Counted) + One(c \in Counted') - One(c \in Counted)
  BY <1>2, <1>3, OneChanged
<1>5. /\ Cardinality(Resumed) \in Nat /\ Cardinality(Resumed') \in Nat
      /\ Cardinality(Resumed') = Cardinality(Resumed) + One(c \in Resumed') - One(c \in Resumed)
  BY <1>2, <1>3, OneChanged
<1>6. nSuspend' = Cardinality(Counted') - Cardinality(Resumed')
  <2>1. /\ nSuspend \in Int /\ nSuspend = Cardinality(Counted) - Cardinality(Resumed)
        /\ nSuspend' = nSuspend + One(c \in Counted') - One(c \in Counted)
                                - One(c \in Resumed') + One(c \in Resumed)
    BY DEF DataInv, StateType, SuspendInv, Effect, Balance
  <2>2. /\ One(c \in Counted) \in Int /\ One(c \in Counted') \in Int
        /\ One(c \in Resumed) \in Int /\ One(c \in Resumed') \in Int
    BY DEF One
  <2> QED BY <1>4, <1>5, <2>1, <2>2
<1> QED BY <1>1, <1>6 DEF SuspendInv

\* A coroutine none of whose jobs moves.
LEMMA ViewsKept ==
    ASSUME NEW d,
           \A i \in Jobs : i.body = d => i \in Jobs' /\ step'[i.index] = step[i.index],
           \A i \in Jobs' : i.body = d => i \in Jobs
    PROVE  Resuming(d)' = Resuming(d) /\ Locked(d)' = Locked(d) /\ Inside(d)' = Inside(d)
<1>1. \A S : Doing(d, S)' = Doing(d, S)
  BY DEF Doing
<1> QED BY <1>1 DEF Resuming, Locked, Inside

\* A job moves.
LEMMA ViewsMoved ==
    ASSUME JobsInv, CountInv, NEW j \in Jobs, NEW s, stepTo(j, s), Jobs' = Jobs
    PROVE  /\ \A d \in Coros : d # j.body =>
                Resuming(d)' = Resuming(d) /\ Locked(d)' = Locked(d) /\ Inside(d)' = Inside(d)
           /\ \A i \in Jobs :
                /\ i \in Resuming(j.body)' <=>
                     IF i = j THEN s \in {"none", "resume", "lock"} ELSE i \in Resuming(j.body)
                /\ i \in Locked(j.body)' <=> IF i = j THEN s = "lock" ELSE i \in Locked(j.body)
                /\ i \in Inside(j.body)' <=> IF i = j THEN s = "run" ELSE i \in Inside(j.body)
<1>1. step'[j.index] = s /\ \A i \in Jobs : i # j => step'[i.index] = step[i.index]
  BY StepMoved
<1>2. \A d \in Coros : d # j.body =>
         Resuming(d)' = Resuming(d) /\ Locked(d)' = Locked(d) /\ Inside(d)' = Inside(d)
  BY <1>1, ViewsKept
<1>3. ASSUME NEW i \in Jobs, NEW S
      PROVE  i \in Doing(j.body, S)' <=> IF i = j THEN s \in S ELSE i \in Doing(j.body, S)
  BY <1>1, <1>3 DEF Doing
<1> QED BY <1>2, <1>3 DEF Resuming, Locked, Inside

\* A job is added for a coroutine.
LEMMA ViewsAdded ==
    ASSUME NEW n, NEW d, n.body = d, Jobs' = Jobs \cup {n}, step'[n.index] = "none", n \notin Jobs,
           \A i \in Jobs : i.body = d => step'[i.index] = step[i.index]
    PROVE  /\ Resuming(d)' = Resuming(d) \cup {n}
           /\ Locked(d)' = Locked(d) /\ Inside(d)' = Inside(d)
<1>1. \A S : "none" \in S => Doing(d, S)' = Doing(d, S) \cup {n}
  BY DEF Doing
<1>2. \A S : "none" \notin S => Doing(d, S)' = Doing(d, S)
  BY DEF Doing
<1> QED BY <1>1, <1>2 DEF Resuming, Locked, Inside

LEMMA ViewsSubset ==
    /\ \A d : Resuming(d) \subseteq Jobs /\ Locked(d) \subseteq Resuming(d) /\ Inside(d) \subseteq Jobs
    /\ \A d : Resuming(d)' \subseteq Jobs' /\ Locked(d)' \subseteq Resuming(d)' /\ Inside(d)' \subseteq Jobs'
BY DEF Resuming, Locked, Inside, Doing

LEMMA ResumeEffect ==
    ASSUME JobsInv, CountInv, DataInv, CoroInv, NEW j \in executing, resume(j)
    PROVE  j.body \in Coros /\ Effect(j.body)
<1> DEFINE c == j.body
<1>1. j \in Jobs /\ step[j.index] = "resume" /\ c \in Coros
  BY CoroJob DEF resume
<1>2. /\ stepTo(j, "lock") /\ Jobs' = Jobs /\ nSuspend' = nSuspend - 1
      /\ UNCHANGED <<point, owner, completion>>
  BY DEF resume, coroVars, requestVars, Jobs
<1>3. CoroOK(c) /\ nSuspend \in Int
  BY <1>1 DEF CoroInv, DataInv, StateType
<1>4. j \in Resuming(c) /\ j \notin Locked(c) /\ j \notin Inside(c)
  BY <1>1 DEF Resuming, Locked, Inside, Doing
<1>5. /\ Resuming(c)' = Resuming(c) /\ Inside(c)' = Inside(c) /\ Locked(c)' # {}
  BY <1>1, <1>2, <1>4, ViewsMoved, ViewsSubset
<1>6. \A d \in Coros : d # c => Same(d)
  BY <1>1, <1>2, ViewsMoved DEF Same
<1>7. CoroOK(c)'
  BY <1>2, <1>3, <1>5 DEF CoroOK
<1>8. c \notin Resumed
  <2>1. Locked(c) = {}
    BY <1>3, <1>4, ViewsSubset DEF CoroOK
  <2> QED BY <1>3, <1>4, <2>1 DEF Resumed, CoroOK
<1>9. c \in Resumed' /\ (c \in Counted <=> c \in Counted')
  BY <1>1, <1>2, <1>5 DEF Resumed, Counted
<1>10. Balance(c)
  BY <1>2, <1>3, <1>8, <1>9 DEF Balance, One
<1> QED BY <1>1, <1>6, <1>7, <1>10 DEF Effect

\* Whoever takes the mutex finds the coroutine suspended.
LEMMA LockEffect ==
    ASSUME JobsInv, CountInv, DataInv, CoroInv, NEW j \in executing, lockCoro(j)
    PROVE  j.body \in Coros /\ Effect(j.body)
<1> DEFINE c == j.body
<1>1. j \in Jobs /\ step[j.index] = "lock" /\ c \in Coros /\ j.index # 0
  BY CoroJob, JobFacts DEF lockCoro
<1>2. /\ stepTo(j, "run") /\ Jobs' = Jobs /\ owner[c] = 0
      /\ owner' = [owner EXCEPT ![c] = j.index]
      /\ UNCHANGED <<nSuspend, point, completion>>
  BY DEF lockCoro, requestVars, poolVars, Jobs
<1>3. CoroOK(c) /\ nSuspend \in Int /\ owner \in [Coros -> Indices \cup {0}]
  BY <1>1 DEF CoroInv, DataInv, StateType
<1>4. j \in Resuming(c) /\ j \in Locked(c)
  BY <1>1 DEF Resuming, Locked, Doing
<1>5. Inside(c) = {} /\ \A i \in Resuming(c) : i = j
  BY <1>2, <1>3, <1>4 DEF CoroOK
<1>6. Resuming(c)' = {} /\ Inside(c)' = {j} /\ Locked(c)' = {}
  <2>1. Resuming(c)' = {}
    BY <1>1, <1>2, <1>5, ViewsMoved, ViewsSubset
  <2>2. Inside(c)' = {j}
    BY <1>1, <1>2, <1>5, ViewsMoved, ViewsSubset
  <2> QED BY <2>1, <2>2, ViewsSubset
<1>7. \A d \in Coros : d # c => Same(d)
  BY <1>1, <1>2, <1>3, ViewsMoved DEF Same
<1>8. point[c] \in {"begin", "waiting"} /\ ~completion[c]
  BY <1>1, <1>3, <1>4, <1>5 DEF CoroOK, DataInv, StateType, Points
<1>9. CoroOK(c)'
  <2>1. owner'[c] # 0
    BY <1>1, <1>2, <1>3
  <2> QED BY <1>2, <1>6, <1>8, <2>1 DEF CoroOK
<1>10. c \in Resumed /\ c \in Resumed' /\ (c \in Counted <=> c \in Counted')
  BY <1>1, <1>2, <1>4, <1>6, <1>8 DEF Resumed, Counted
<1>11. Balance(c)
  BY <1>2, <1>3, <1>10 DEF Balance, One
<1> QED BY <1>1, <1>7, <1>9, <1>11 DEF Effect

\* The function of the coroutine goes on, in the job that is in it.
LEMMA InsideFacts ==
    ASSUME JobsInv, CountInv, DataInv, CoroInv, NEW j \in executing, At(j, "run")
    PROVE  /\ j.body \in Coros /\ j \in Jobs
           /\ Inside(j.body) = {j} /\ j \notin Resuming(j.body)
           /\ owner[j.body] # 0
           /\ CoroOK(j.body)
           /\ nSuspend \in Int
<1>1. j \in Jobs /\ step[j.index] = "run" /\ j.body \in Coros
  BY CoroJob
<1>2. j \in Inside(j.body) /\ j \notin Resuming(j.body)
  BY <1>1 DEF Resuming, Inside, Doing
<1>3. CoroOK(j.body) /\ nSuspend \in Int
  BY <1>1 DEF CoroInv, DataInv, StateType
<1>4. Inside(j.body) = {j} /\ owner[j.body] # 0
  BY <1>2, <1>3 DEF CoroOK
<1> QED BY <1>1, <1>2, <1>3, <1>4

LEMMA FindPathEffect ==
    ASSUME JobsInv, CountInv, DataInv, CoroInv, NEW j \in executing, findPath(j)
    PROVE  j.body \in Coros /\ Effect(j.body)
<1> DEFINE c == j.body
<1>1. /\ c \in Coros /\ j \in Jobs /\ Inside(c) = {j} /\ owner[c] # 0 /\ CoroOK(c)
      /\ nSuspend \in Int
  BY InsideFacts DEF findPath
<1>2. /\ point[c] = "begin" /\ Jobs' = Jobs /\ UNCHANGED <<step, owner, nSuspend>>
      /\ \/ point' = [point EXCEPT ![c] = "return"] /\ UNCHANGED completion
         \/ /\ point' = [point EXCEPT ![c] = "inserted"]
            /\ completion' = [completion EXCEPT ![c] = TRUE]
  BY DEF findPath, poolVars, jobVars, requestVars, Jobs
<1>3. \A d : Resuming(d)' = Resuming(d) /\ Locked(d)' = Locked(d) /\ Inside(d)' = Inside(d)
  BY <1>2, ViewsKept
<1>4. point \in [Coros -> Points] /\ completion \in [Coros -> BOOLEAN]
  BY DEF DataInv, StateType
<1>5. \A d \in Coros : d # c => Same(d)
  BY <1>1, <1>2, <1>3, <1>4 DEF Same
<1>6. Resuming(c) = {} /\ Locked(c) = {} /\ ~completion[c]
  BY <1>1, <1>2, ViewsSubset DEF CoroOK
<1>7. CoroOK(c)'
  BY <1>1, <1>2, <1>3, <1>4, <1>6 DEF CoroOK
<1>8. c \in Resumed /\ c \in Counted /\ c \notin Resumed' /\ c \notin Counted'
  BY <1>1, <1>2, <1>3, <1>4, <1>6 DEF Resumed, Counted
<1>9. Balance(c)
  BY <1>1, <1>2, <1>8 DEF Balance, One
<1> QED BY <1>1, <1>5, <1>7, <1>9 DEF Effect

LEMMA StatusEffect ==
    ASSUME JobsInv, CountInv, DataInv, CoroInv, NEW j \in executing, doStatus(j)
    PROVE  j.body \in Coros /\ Effect(j.body)
<1> DEFINE c == j.body
<1>1. /\ c \in Coros /\ j \in Jobs /\ Inside(c) = {j} /\ owner[c] # 0 /\ CoroOK(c)
      /\ nSuspend \in Int
  BY InsideFacts DEF doStatus
<1>2. /\ point[c] = "waiting" /\ Jobs' = Jobs /\ UNCHANGED <<step, owner, completion, nSuspend>>
      /\ point' = [point EXCEPT ![c] = "return"]
  BY DEF doStatus, poolVars, jobVars, requestVars, Jobs
<1>3. \A d : Resuming(d)' = Resuming(d) /\ Locked(d)' = Locked(d) /\ Inside(d)' = Inside(d)
  BY <1>2, ViewsKept
<1>4. point \in [Coros -> Points]
  BY DEF DataInv, StateType
<1>5. \A d \in Coros : d # c => Same(d)
  BY <1>1, <1>2, <1>3, <1>4 DEF Same
<1>6. Resuming(c) = {} /\ Locked(c) = {} /\ ~completion[c]
  BY <1>1, <1>2, ViewsSubset DEF CoroOK
<1>7. CoroOK(c)'
  BY <1>1, <1>2, <1>3, <1>4, <1>6 DEF CoroOK
<1>8. c \in Resumed /\ c \in Counted /\ c \notin Resumed' /\ c \notin Counted'
  BY <1>1, <1>2, <1>3, <1>4, <1>6 DEF Resumed, Counted
<1>9. Balance(c)
  BY <1>1, <1>2, <1>8 DEF Balance, One
<1> QED BY <1>1, <1>5, <1>7, <1>9 DEF Effect

\* The job that newPFWork adds is not one of a coroutine.
LEMMA AddsUpdate ==
    ASSUME JobsInv, CountInv, newPFWork, UNCHANGED <<executing, step>>
    PROVE  \A d \in Coros :
              Resuming(d)' = Resuming(d) /\ Locked(d)' = Locked(d) /\ Inside(d)' = Inside(d)
<1>1. ASSUME addJob(UpdateType, "update")
      PROVE  \E n : n.body = "update" /\ Jobs' = Jobs \cup {n}
  <2> DEFINE n == [type |-> UpdateType, index |-> lastJob + 1, body |-> "update"]
  <2>1. n.body = "update" /\ Jobs' = Jobs \cup {n}
    BY <1>1 DEF addJob, Jobs
  <2> HIDE DEF n
  <2> QED BY <2>1
<1>2. Jobs' = Jobs \/ \E n : n.body = "update" /\ Jobs' = Jobs \cup {n}
  BY <1>1, NewWork DEF Jobs
<1> QED BY <1>2, ViewsKept, PathAssumption

LEMMA RequestEffect ==
    ASSUME JobsInv, CountInv, DataInv, CoroInv, NEW j \in executing, newPathRequest(j)
    PROVE  j.body \in Coros /\ Effect(j.body)
<1> DEFINE c == j.body
<1>1. /\ c \in Coros /\ j \in Jobs /\ Inside(c) = {j} /\ owner[c] # 0 /\ CoroOK(c)
      /\ nSuspend \in Int
  BY InsideFacts DEF newPathRequest
<1>2. /\ point[c] = "inserted" /\ UNCHANGED <<owner, completion, nSuspend>>
      /\ point' = [point EXCEPT ![c] = "yielding"]
  BY DEF newPathRequest, requestVars
<1>3. \A d \in Coros :
         Resuming(d)' = Resuming(d) /\ Locked(d)' = Locked(d) /\ Inside(d)' = Inside(d)
  BY AddsUpdate DEF newPathRequest, jobVars
<1>4. point \in [Coros -> Points]
  BY DEF DataInv, StateType
<1>5. \A d \in Coros : d # c => Same(d)
  BY <1>1, <1>2, <1>3, <1>4 DEF Same
<1>6. CoroOK(c)'
  BY <1>1, <1>2, <1>3, <1>4 DEF CoroOK
<1>7. (c \in Resumed <=> c \in Resumed') /\ c \notin Counted /\ c \notin Counted'
  BY <1>1, <1>2, <1>3, <1>4 DEF Resumed, Counted
<1>8. Balance(c)
  BY <1>1, <1>2, <1>7 DEF Balance, One
<1> QED BY <1>1, <1>5, <1>6, <1>8 DEF Effect

LEMMA YieldEffect ==
    ASSUME JobsInv, CountInv, DataInv, CoroInv, NEW j \in executing, yield(j)
    PROVE  j.body \in Coros /\ Effect(j.body)
<1> DEFINE c == j.body
<1>1. /\ c \in Coros /\ j \in Jobs /\ Inside(c) = {j} /\ owner[c] # 0 /\ CoroOK(c)
      /\ nSuspend \in Int
  BY InsideFacts DEF yield
<1>2. /\ point[c] = "yielding" /\ Jobs' = Jobs /\ UNCHANGED <<step, owner, completion>>
      /\ point' = [point EXCEPT ![c] = "switching"] /\ nSuspend' = nSuspend + 1
  BY DEF yield, jobVars, requestVars, Jobs
<1>3. \A d : Resuming(d)' = Resuming(d) /\ Locked(d)' = Locked(d) /\ Inside(d)' = Inside(d)
  BY <1>2, ViewsKept
<1>4. point \in [Coros -> Points]
  BY DEF DataInv, StateType
<1>5. \A d \in Coros : d # c => Same(d)
  BY <1>1, <1>2, <1>3, <1>4 DEF Same
<1>6. CoroOK(c)'
  BY <1>1, <1>2, <1>3, <1>4 DEF CoroOK
<1>7. (c \in Resumed <=> c \in Resumed') /\ c \notin Counted /\ c \in Counted'
  BY <1>1, <1>2, <1>3, <1>4 DEF Resumed, Counted
<1>8. Balance(c)
  BY <1>1, <1>2, <1>7 DEF Balance, One
<1> QED BY <1>1, <1>5, <1>6, <1>8 DEF Effect

LEMMA LeaveEffect ==
    ASSUME JobsInv, CountInv, DataInv, CoroInv, NEW j \in executing, leaveCoro(j)
    PROVE  j.body \in Coros /\ Effect(j.body)
<1> DEFINE c == j.body
<1>1. /\ c \in Coros /\ j \in Jobs /\ Inside(c) = {j} /\ owner[c] # 0 /\ CoroOK(c)
      /\ j \notin Resuming(c) /\ nSuspend \in Int
  BY InsideFacts DEF leaveCoro
<1>2. point \in [Coros -> Points] /\ owner \in [Coros -> Indices \cup {0}]
  BY DEF DataInv, StateType
<1>3. /\ stepTo(j, "end") /\ Jobs' = Jobs /\ UNCHANGED <<completion, nSuspend>>
      /\ owner' = [owner EXCEPT ![c] = 0]
      /\ \/ point[c] = "switching" /\ point' = [point EXCEPT ![c] = "waiting"]
         \/ point[c] \in {"return", "finished"} /\ point' = [point EXCEPT ![c] = "finished"]
  BY Zenon, <1>1, <1>2 DEF leaveCoro, poolVars, requestVars, Jobs
<1>4. Resuming(c)' = Resuming(c) /\ Inside(c)' = {} /\ Locked(c)' = Locked(c)
  <2>0. Resuming(c) \subseteq Jobs /\ Resuming(c)' \subseteq Jobs
    BY <1>3, ViewsSubset
  <2>1. Resuming(c)' = Resuming(c)
    BY <1>1, <1>3, <2>0, ViewsMoved
  <2>2. Inside(c)' = {}
    BY <1>1, <1>3, ViewsMoved, ViewsSubset
  <2>3. j \notin Locked(c)
    BY <1>1, ViewsSubset
  <2>4. Locked(c) \subseteq Jobs /\ Locked(c)' \subseteq Jobs
    BY <1>3, ViewsSubset
  <2>5. Locked(c)' = Locked(c)
    BY <1>1, <1>3, <2>3, <2>4, ViewsMoved
  <2> QED BY <2>1, <2>2, <2>5
<1>5. \A d \in Coros : d # c => Same(d)
  BY <1>1, <1>2, <1>3, ViewsMoved DEF Same
<1>6. CoroOK(c)'
  BY <1>1, <1>2, <1>3, <1>4 DEF CoroOK
<1>7. (c \in Resumed <=> c \in Resumed') /\ (c \in Counted <=> c \in Counted')
  BY <1>1, <1>2, <1>3, <1>4 DEF Resumed, Counted
<1>8. Balance(c)
  BY <1>1, <1>3, <1>7 DEF Balance, One
<1> QED BY <1>1, <1>5, <1>6, <1>8 DEF Effect

LEMMA CreateEffect ==
    ASSUME JobsInv, CountInv, DataInv, CoroInv, NEW c \in Coros, createCoro(c)
    PROVE  Effect(c)
<1>1. CoroOK(c) /\ nSuspend \in Int /\ point \in [Coros -> Points]
  BY DEF CoroInv, DataInv, StateType
<1>2. /\ point[c] = "none" /\ Jobs' = Jobs /\ UNCHANGED <<step, owner, completion>>
      /\ point' = [point EXCEPT ![c] = "created"] /\ nSuspend' = nSuspend + 1
  BY DEF createCoro, jobVars, requestVars, Jobs
<1>3. \A d : Resuming(d)' = Resuming(d) /\ Locked(d)' = Locked(d) /\ Inside(d)' = Inside(d)
  BY <1>2, ViewsKept
<1>4. \A d \in Coros : d # c => Same(d)
  BY <1>1, <1>2, <1>3 DEF Same
<1>5. CoroOK(c)'
  BY <1>1, <1>2, <1>3 DEF CoroOK
<1>6. (c \in Resumed <=> c \in Resumed') /\ c \notin Counted /\ c \in Counted'
  BY <1>1, <1>2, <1>3 DEF Resumed, Counted
<1>7. Balance(c)
  BY <1>1, <1>2, <1>6 DEF Balance, One
<1> QED BY <1>4, <1>5, <1>7 DEF Effect

\* A job is added to resume a coroutine.
LEMMA PostViews ==
    ASSUME JobsInv, CountInv, CountInv', JobsInv', NEW c \in Coros, addJob(ClientType, c),
           UNCHANGED executing,
           \A i \in Jobs : i.body \in Coros => step'[i.index] = step[i.index]
    PROVE  /\ \A d \in Coros : d # c =>
                Resuming(d)' = Resuming(d) /\ Locked(d)' = Locked(d) /\ Inside(d)' = Inside(d)
           /\ \E n : Resuming(c)' = Resuming(c) \cup {n}
           /\ Locked(c)' = Locked(c) /\ Inside(c)' = Inside(c)
<1> DEFINE n == [type |-> ClientType, index |-> lastJob + 1, body |-> c]
<1>1. Jobs' = Jobs \cup {n} /\ n.body = c /\ n \in jobSet'
  BY DEF addJob, Jobs
<1>2. step'[n.index] = "none"
  BY <1>1 DEF JobsInv
<1>3. n \notin Jobs
  <2>1. \A j \in Jobs : j.index \in Nat /\ j.index <= lastJob
    BY JobFacts DEF JobsInv
  <2>2. n.index = lastJob + 1 /\ lastJob \in Nat
    BY DEF JobsInv
  <2> HIDE DEF n
  <2> QED BY <2>1, <2>2
<1> HIDE DEF n
<1>4. \A d \in Coros : d # c =>
         Resuming(d)' = Resuming(d) /\ Locked(d)' = Locked(d) /\ Inside(d)' = Inside(d)
  BY <1>1, ViewsKept
<1>5. Resuming(c)' = Resuming(c) \cup {n} /\ Locked(c)' = Locked(c) /\ Inside(c)' = Inside(c)
  BY <1>1, <1>2, <1>3, ViewsAdded
<1> QED BY Zenon, <1>4, <1>5

LEMMA PostEffect ==
    ASSUME JobsInv, CountInv, DataInv, CoroInv, CountInv', JobsInv', NEW c \in Coros, postCoro(c)
    PROVE  Effect(c)
<1>1. CoroOK(c) /\ nSuspend \in Int /\ point \in [Coros -> Points]
  BY DEF CoroInv, DataInv, StateType
<1>2. /\ point[c] = "created" /\ UNCHANGED <<step, owner, completion, nSuspend>>
      /\ point' = [point EXCEPT ![c] = "begin"]
  BY DEF postCoro, jobVars, requestVars
<1>3. /\ \A d \in Coros : d # c =>
           Resuming(d)' = Resuming(d) /\ Locked(d)' = Locked(d) /\ Inside(d)' = Inside(d)
      /\ \E n : Resuming(c)' = Resuming(c) \cup {n}
      /\ Locked(c)' = Locked(c) /\ Inside(c)' = Inside(c)
  BY Zenon, <1>2, PostViews DEF postCoro
<1>4. \A d \in Coros : d # c => Same(d)
  BY <1>1, <1>2, <1>3 DEF Same
<1>5. Resuming(c) = {} /\ Inside(c) = {} /\ Locked(c) = {} /\ ~completion[c]
  BY <1>1, <1>2, ViewsSubset DEF CoroOK
<1>6. CoroOK(c)'
  BY <1>1, <1>2, <1>3, <1>5 DEF CoroOK
<1>7. c \notin Resumed /\ c \notin Resumed' /\ c \in Counted /\ c \in Counted'
  BY <1>1, <1>2, <1>3, <1>5 DEF Resumed, Counted
<1>8. Balance(c)
  BY <1>1, <1>2, <1>7 DEF Balance, One
<1> QED BY <1>4, <1>6, <1>8 DEF Effect

\* The completion of a request is called once.
LEMMA CompleteEffect ==
    ASSUME JobsInv, CountInv, DataInv, CoroInv, CountInv', JobsInv',
           NEW j \in executing, updateComplete(j)
    PROVE  Calm \/ \E c \in Coros : Effect(c)
<1>1. PICK c \in Coros : c = Head(local[j.index].left)
  BY HeadIsCoro DEF updateComplete, At, OnRequest
<1>2. /\ completion' = [completion EXCEPT ![c] = FALSE]
      /\ IF completion[c] THEN addJob(ClientType, c) ELSE UNCHANGED <<lastJob, jobSet>>
      /\ stepTo(j, "remove")
      /\ UNCHANGED <<point, owner, executing, nSuspend>>
  BY <1>1 DEF updateComplete, coroVars
<1>3. j \in Jobs /\ j.body \notin Coros
  BY UpdateJob, PathAssumption DEF updateComplete, UpdateSteps
<1>4. \A i \in Jobs : i.body \in Coros => step'[i.index] = step[i.index]
  BY <1>2, <1>3, StepMoved
<1>5. /\ CoroOK(c) /\ nSuspend \in Int /\ point \in [Coros -> Points]
      /\ completion \in [Coros -> BOOLEAN]
  BY <1>1 DEF CoroInv, DataInv, StateType
<1>6. CASE ~completion[c]
  <2>1. Jobs' = Jobs /\ completion' = completion
    BY <1>1, <1>2, <1>5, <1>6 DEF Jobs
  <2>2. \A d \in Coros :
           Resuming(d)' = Resuming(d) /\ Locked(d)' = Locked(d) /\ Inside(d)' = Inside(d)
    BY <1>4, <2>1, ViewsKept
  <2>3. Calm
    BY Zenon, <1>2, <2>1, <2>2 DEF Calm, Same
  <2> QED BY <2>3
<1>7. CASE completion[c]
  <2>1. /\ \A d \in Coros : d # c =>
             Resuming(d)' = Resuming(d) /\ Locked(d)' = Locked(d) /\ Inside(d)' = Inside(d)
        /\ \E n : Resuming(c)' = Resuming(c) \cup {n}
        /\ Locked(c)' = Locked(c) /\ Inside(c)' = Inside(c)
    BY ZenonT(30), <1>1, <1>2, <1>4, <1>7, PostViews
  <2>2. \A d \in Coros : d # c => Same(d)
    BY <1>1, <1>2, <1>5, <2>1 DEF Same
  <2>3. /\ Resuming(c) = {} /\ ~completion'[c]
        /\ point[c] \in {"inserted", "yielding", "switching", "waiting"}
        /\ point[c] = "waiting" => Inside(c) = {}
    BY <1>1, <1>2, <1>5, <1>7 DEF CoroOK
  <2>4. CoroOK(c)'
    BY ZenonT(30), <1>1, <1>2, <1>5, <2>1, <2>3 DEF CoroOK
  <2>5. (c \in Resumed <=> c \in Resumed') /\ (c \in Counted <=> c \in Counted')
    BY <1>2, <2>1 DEF Resumed, Counted
  <2>6. Balance(c)
    BY <1>2, <1>5, <2>5 DEF Balance, One
  <2>7. Effect(c)
    BY <2>2, <2>4, <2>6 DEF Effect
  <2> QED BY <1>1, <2>7
<1> QED BY <1>6, <1>7

LEMMA CoroInvStep ==
    ASSUME JobsInv, CountInv, DataInv, CoroInv, SuspendInv, CountInv', JobsInv', [Next]_vars
    PROVE  CoroInv' /\ SuspendInv'
<1>0. SUFFICES Calm \/ \E c \in Coros : Effect(c)
  BY CalmKeeps, EffectKeeps
<1>1. ASSUME NEW j \in jobSet, Begin(j) PROVE Calm
  <2> DEFINE s == IF j.body = "update" THEN "update" ELSE "resume"
  <2>1. /\ stepTo(j, s) /\ j \in Jobs /\ Jobs' = Jobs /\ step[j.index] = "none"
        /\ UNCHANGED <<nSuspend, point, owner, completion>>
    BY <1>1, BeginKeepsJobs DEF Begin, BeginJob, coroVars, requestVars, JobsInv
  <2>2. step'[j.index] = s /\ \A i \in Jobs : i # j => step'[i.index] = step[i.index]
    BY <2>1, StepMoved
  <2>3. ASSUME NEW d \in Coros
        PROVE  Resuming(d)' = Resuming(d) /\ Locked(d)' = Locked(d) /\ Inside(d)' = Inside(d)
    <3>1. CASE j.body # d
      BY <2>1, <2>2, <3>1, ViewsKept
    <3>2. CASE j.body = d
      <4>1. s = "resume"
        BY <2>3, <3>2, PathAssumption
      <4> HIDE DEF s
      <4>2. \A i \in Jobs : step'[i.index] \in {"none", "resume", "lock"}
                             <=> step[i.index] \in {"none", "resume", "lock"}
        BY <2>1, <2>2, <4>1
      <4>3. \A i \in Jobs : /\ step'[i.index] = "lock" <=> step[i.index] = "lock"
                            /\ step'[i.index] = "run" <=> step[i.index] = "run"
        BY <2>1, <2>2, <4>1
      <4>4. Resuming(d)' = Resuming(d)
        BY <2>1, <4>2 DEF Resuming, Doing
      <4>5. Locked(d)' = Locked(d) /\ Inside(d)' = Inside(d)
        BY <2>1, <4>3 DEF Locked, Inside, Doing
      <4> QED BY <4>4, <4>5
    <3> QED BY <3>1, <3>2
  <2> QED BY <2>1, <2>3 DEF Calm, Same
<1>2. ASSUME NEW j \in executing, End(j) PROVE Calm
  <2>1. /\ UNCHANGED <<nSuspend, point, owner, completion>>
        /\ j \in Jobs /\ Jobs' = Jobs \ {j} /\ step[j.index] = "end"
        /\ \A i \in Jobs' : step'[i.index] = step[i.index]
    BY Zenon, <1>2, EndKeepsJobs DEF End, EndJob, coroVars, requestVars
  <2>2. \A d, S : "end" \notin S => Doing(d, S)' = Doing(d, S)
    BY <2>1 DEF Doing
  <2>3. \A d : Resuming(d)' = Resuming(d) /\ Locked(d)' = Locked(d) /\ Inside(d)' = Inside(d)
    BY <2>2 DEF Resuming, Locked, Inside
  <2> QED BY <2>1, <2>3 DEF Calm, Same
<1>3. ASSUME NEW j \in executing, CoroStep(j) PROVE \E c \in Coros : Effect(c)
  BY <1>3, ResumeEffect, LockEffect, FindPathEffect, StatusEffect, RequestEffect, YieldEffect,
     LeaveEffect DEF CoroStep
<1>4. ASSUME NEW j \in executing, UpdateStep(j) PROVE Calm \/ \E c \in Coros : Effect(c)
  <2>1. CASE updateComplete(j)
    BY <2>1, CompleteEffect
  <2>2. CASE UNCHANGED <<lastJob, jobSet, completion>>
    <3>1. /\ j \in Jobs /\ j.body \notin Coros /\ Jobs' = Jobs
          /\ \E s : stepTo(j, s)
          /\ UNCHANGED <<nSuspend, point, owner, completion>>
      BY <1>4, <2>2, UpdateStepMoves, PathAssumption DEF Jobs, coroVars
    <3>2. \A i \in Jobs : i.body \in Coros => step'[i.index] = step[i.index]
      BY <3>1, StepMoved
    <3>3. \A d \in Coros :
             Resuming(d)' = Resuming(d) /\ Locked(d)' = Locked(d) /\ Inside(d)' = Inside(d)
      BY <3>1, <3>2, ViewsKept
    <3> QED BY <3>1, <3>3 DEF Calm, Same
  <2> QED BY <1>4, <2>1, <2>2, UpdateStepMoves
<1>5. ASSUME NEW c \in Coros, createCoro(c) \/ postCoro(c) PROVE \E d \in Coros : Effect(d)
  BY <1>5, CreateEffect, PostEffect
<1>6. CASE doAdvance
  <2>1. \A d \in Coros :
           Resuming(d)' = Resuming(d) /\ Locked(d)' = Locked(d) /\ Inside(d)' = Inside(d)
    BY <1>6, AddsUpdate DEF doAdvance, jobVars
  <2> QED BY <1>6, <2>1 DEF doAdvance, coroVars, requestVars, Calm, Same
<1>7. CASE setValidLedger \/ stopAsync \/ closeServer \/ stopChildren \/ stop \/ UNCHANGED vars
  <2>1. UNCHANGED <<jobSet, executing, step, nSuspend, point, owner, completion>>
    BY <1>7
       DEF setValidLedger, stopAsync, closeServer, stopChildren, stop, StopAsync, ChildrenStop,
        Stop, vars, coroVars, requestVars, poolVars, jobVars
  <2>2. \A d : Resuming(d)' = Resuming(d) /\ Locked(d)' = Locked(d) /\ Inside(d)' = Inside(d)
    BY <2>1, ViewsKept DEF Jobs
  <2> QED BY <2>1, <2>2 DEF Calm, Same
<1> QED BY <1>1, <1>2, <1>3, <1>4, <1>5, <1>6, <1>7, NextSplit DEF Other

-----------------------------------------------------------------------------
(* mPathFindThread *)

CountsLow == \A i \in Indices : local[i].count <= 2

LEMMA WitnessKept ==
    ASSUME ThreadInv, CountsLow', UNCHANGED <<pathFindThread, isStopping>>,
           \A j \in Updaters : WillLower(j) => j \in Updaters' /\ WillLower(j)'
    PROVE  ThreadInv'
BY DEF ThreadInv, CountsLow

LEMMA LowerEnough ==
    ASSUME CountsLow', pathFindThread' \in Int, pathFindThread' < 2
    PROVE  ThreadInv'
BY DEF ThreadInv, CountsLow

\* The jobs that do not move will do what they would.
LEMMA OthersLower ==
    ASSUME JobsInv, CountInv, DataInv, NEW j \in Jobs, NEW s, stepTo(j, s), UNCHANGED executing,
           jobSet \subseteq jobSet',
           UNCHANGED local \/ \E l \in Locals : setLocal(j, l)
    PROVE  /\ j \in Updaters => j \in Updaters'
           /\ step'[j.index] = s
           /\ \A w \in Updaters \ {j} : WillLower(w) => w \in Updaters' /\ WillLower(w)'
<1>1. step'[j.index] = s /\ \A w \in Jobs : w # j => step'[w.index] = step[w.index]
  BY StepMoved
<1>2. \A w \in Jobs : w # j => local'[w.index] = local[w.index]
  BY LocalMoved DEF DataInv, LeftInv
<1>3. \A w \in Updaters : w \in Jobs /\ w \in Updaters'
  BY DEF Updaters, Jobs
<1>4. \A w \in Updaters \ {j} : WillLower(w) => WillLower(w)'
  BY <1>1, <1>2, <1>3 DEF WillLower
<1> QED BY <1>1, <1>3, <1>4

LEMMA CountsMoved ==
    ASSUME JobsInv, CountInv, DataInv, CountsLow, NEW j \in Jobs, NEW l \in Locals, setLocal(j, l),
           l.count <= 2
    PROVE  CountsLow'
<1>1. /\ local'[j.index] = l
      /\ \A i \in Indices : i # j.index => local'[i] = local[i]
  BY LocalMoved DEF DataInv, LeftInv
<1> QED BY <1>1 DEF CountsLow

\* A thread goes on and is not about to decrement the count without the lock.
LEMMA ThreadGoesOn ==
    ASSUME JobsInv, CountInv, DataInv, ThreadInv, NEW j \in executing,
           NEW s \in UpdateSteps \ {"end", "decrement"}, stepTo(j, s),
           UNCHANGED <<executing, pathFindThread, isStopping>>, jobSet \subseteq jobSet',
           UNCHANGED local \/ \E l \in Locals : setLocal(j, l) /\ l.count <= 2
    PROVE  ThreadInv'
<1>1. j \in Jobs /\ CountsLow
  BY DEF Jobs, ThreadInv, CountsLow
<1>2. CountsLow'
  <2>1. UNCHANGED local => CountsLow'
    BY <1>1 DEF CountsLow
  <2> QED BY <1>1, <2>1, CountsMoved
<1>3. /\ j \in Updaters => j \in Updaters'
      /\ step'[j.index] = s
      /\ \A w \in Updaters \ {j} : WillLower(w) => w \in Updaters' /\ WillLower(w)'
  BY <1>1, OthersLower
<1>4. WillLower(j)'
  BY <1>3 DEF WillLower
<1> QED BY <1>2, <1>3, <1>4, WitnessKept

LEMMA UpdateStepThread ==
    ASSUME JobsInv, CountInv, DataInv, ThreadInv, DataInv', NEW j \in executing, UpdateStep(j)
    PROVE  ThreadInv'
<1> DEFINE l == local[j.index]
<1>1. /\ UNCHANGED <<executing, isStopping>> /\ j \in Jobs /\ j.index \in Indices
      /\ jobSet \subseteq jobSet'
  BY UpdateStepMoves, JobFacts DEF stopVars, updateComplete, addJob
<1>2. /\ l \in Locals /\ l.left \in Seq(Coros) /\ l.newOnly \in BOOLEAN /\ l.mustBreak \in BOOLEAN
      /\ l.count \in Int /\ l.count <= 2
  <2>1. l \in Locals
    BY <1>1 DEF DataInv, LeftInv
  <2>2. l.count <= 2
    BY <1>1 DEF ThreadInv
  <2> QED BY <2>1, <2>2 DEF Locals
<1>3. /\ CountsLow /\ pathFindThread \in Int /\ pathFindThread <= 2 /\ pathFindThread' \in Int
      /\ requests \in Seq(Coros) /\ newRequest \in BOOLEAN
  BY DEF ThreadInv, CountsLow, DataInv, StateType
<1>4. UNCHANGED local => CountsLow'
  BY <1>3 DEF CountsLow
<1>5. ASSUME NEW s \in UpdateSteps \ {"end", "decrement"}, stepTo(j, s),
             UNCHANGED <<pathFindThread, local>>
      PROVE  ThreadInv'
  BY <1>1, <1>5, ThreadGoesOn
<1>6. ASSUME NEW s \in UpdateSteps \ {"end", "decrement"}, stepTo(j, s),
             UNCHANGED pathFindThread, NEW m \in Locals, setLocal(j, m), m.count <= 2
      PROVE  ThreadInv'
  BY <1>1, <1>6, ThreadGoesOn
<1>7. noLocal \in Locals /\ noLocal.count <= 2
  BY NoLocalType DEF noLocal
<1>11. CASE needLedger(j)
  <2>1. CASE needNetworkLedger
    <3>1. pathFindThread' < 2 /\ UNCHANGED local
      BY <1>3, <1>11, <2>1 DEF needLedger
    <3> QED BY <1>3, <1>4, <3>1, LowerEnough
  <2>2. CASE ~needNetworkLedger
    BY <1>5, <1>11, <2>2 DEF needLedger, UpdateSteps
  <2> QED BY <2>1, <2>2
<1>12. CASE pickLedger(j)
  <2>1. UNCHANGED local
    BY <1>12 DEF pickLedger
  <2>2. \/ isStopping /\ UNCHANGED pathFindThread
        \/ pathFindThread' = pathFindThread - 1
        \/ stepTo(j, "age") /\ UNCHANGED pathFindThread
    BY <1>12 DEF pickLedger
  <2>3. CASE isStopping /\ UNCHANGED pathFindThread
    BY <1>1, <1>3, <1>4, <2>1, <2>3 DEF ThreadInv, CountsLow
  <2>4. CASE pathFindThread' = pathFindThread - 1
    BY <1>3, <1>4, <2>1, <2>4, LowerEnough
  <2>5. CASE stepTo(j, "age") /\ UNCHANGED pathFindThread
    BY <1>5, <2>1, <2>5 DEF UpdateSteps
  <2> QED BY <2>2, <2>3, <2>4, <2>5
<1>13. CASE checkAge(j)
  <2>1. UNCHANGED pathFindThread
    BY <1>13 DEF checkAge, dispatchVars
  <2>2. CASE stepTo(j, "copy") /\ UNCHANGED local
    BY <1>5, <2>1, <2>2 DEF UpdateSteps
  <2> DEFINE m == [noLocal EXCEPT !.count = pathFindThread]
  <2>3. CASE setLocal(j, m) /\ stepTo(j, "decrement")
    <3>1. m \in Locals /\ m.count = pathFindThread
      BY Zenon, <1>3, <1>7 DEF noLocal, Locals
    <3>2. CountsLow'
      BY Zenon, <1>1, <1>3, <2>3, <3>1, CountsMoved
    <3>3. local'[j.index] = m
      BY <1>1, <2>3, <3>1, LocalMoved DEF DataInv, LeftInv
    <3> HIDE DEF m
    <3>4. /\ j \in Updaters => j \in Updaters'
          /\ step'[j.index] = "decrement"
          /\ \A w \in Updaters \ {j} : WillLower(w) => w \in Updaters' /\ WillLower(w)'
      BY <1>1, <2>3, <3>1, OthersLower
    <3>5. pathFindThread = 2 => WillLower(j)'
      BY <3>1, <3>3, <3>4 DEF WillLower
    <3>6. CASE pathFindThread = 2
      BY <1>1, <2>1, <3>2, <3>4, <3>5, <3>6, WitnessKept
    <3>7. CASE pathFindThread # 2
      BY <1>3, <2>1, <3>2, <3>7, LowerEnough
    <3> QED BY <3>6, <3>7
  <2> QED BY <1>13, <2>2, <2>3 DEF checkAge
<1>14. CASE decrementUnlocked(j)
  <2>1. /\ step[j.index] = "decrement" /\ stepTo(j, "end") /\ UNCHANGED local
        /\ \/ pathFindThread' = l.count - 1
           \/ pathFindThread' = pathFindThread /\ pathFindThread # l.count
    BY <1>14 DEF decrementUnlocked, At
  <2>2. CASE pathFindThread' < 2
    BY <1>3, <1>4, <2>1, <2>2, LowerEnough
  <2>3. CASE pathFindThread' = 2
    <3>1. pathFindThread = 2 /\ l.count # 2 /\ UNCHANGED pathFindThread
      BY <1>2, <2>1, <2>3
    <3>2. ~WillLower(j)
      BY <2>1, <3>1 DEF WillLower
    <3>3. \A w \in Updaters \ {j} : WillLower(w) => w \in Updaters' /\ WillLower(w)'
      BY <1>1, <2>1, OthersLower
    <3> QED BY <1>1, <1>4, <2>1, <3>1, <3>2, <3>3, WitnessKept
  <2>4. pathFindThread' <= 2
    BY <1>2, <1>3, <2>1
  <2> QED BY <1>3, <2>2, <2>3, <2>4
<1>15. CASE copyRequests(j)
  <2> DEFINE m == [noLocal EXCEPT !.left = requests]
  <2>1. m \in Locals /\ m.count <= 2
    BY ZenonT(30), <1>3, <1>7 DEF noLocal, Locals
  <2> HIDE DEF m
  <2>2. setLocal(j, m) /\ stepTo(j, "flag") /\ UNCHANGED pathFindThread
    BY <1>15 DEF copyRequests, dispatchVars, m
  <2> QED BY <1>6, <2>1, <2>2 DEF UpdateSteps
<1>16. CASE firstPass(j)
  <2> DEFINE m == [l EXCEPT !.newOnly = newRequest]
  <2>1. m \in Locals /\ m.count <= 2
    BY <1>2, <1>3 DEF Locals
  <2> HIDE DEF m
  <2>2. setLocal(j, m) /\ stepTo(j, "each") /\ UNCHANGED pathFindThread
    BY <1>16 DEF firstPass, m
  <2> QED BY <1>6, <2>1, <2>2 DEF UpdateSteps
<1>17. CASE nextRequest(j)
  <2>1. UNCHANGED <<local, pathFindThread>>
    BY <1>17 DEF nextRequest, dispatchVars
  <2>2. stepTo(j, "pass") \/ stepTo(j, "remove") \/ stepTo(j, "next") \/ stepTo(j, "search")
    BY <1>17 DEF nextRequest
  <2> QED BY <1>5, <2>1, <2>2 DEF UpdateSteps
<1>18. CASE doUpdate(j)
  <2>1. UNCHANGED pathFindThread
    BY <1>18 DEF doUpdate, dispatchVars
  <2>2. (stepTo(j, "complete") /\ UNCHANGED local) \/ (stepTo(j, "loop") /\ setLocal(j, noLocal))
    BY <1>18 DEF doUpdate
  <2> QED BY <1>5, <1>6, <1>7, <2>1, <2>2 DEF UpdateSteps
<1>19. CASE updateComplete(j) \/ removeRequest(j)
  <2>1. UNCHANGED <<local, pathFindThread>> /\ (stepTo(j, "remove") \/ stepTo(j, "next"))
    BY <1>19 DEF updateComplete, removeRequest, dispatchVars
  <2> QED BY <1>5, <2>1 DEF UpdateSteps
<1>21. CASE afterRequest(j)
  <2> DEFINE m == [l EXCEPT !.left = Tail(@), !.mustBreak = ~l.newOnly /\ newRequest]
  <2>1. l.left # <<>>
    BY <1>21 DEF afterRequest, At, DataInv, LeftInv, OnRequest
  <2>2. Tail(l.left) \in Seq(Coros)
    BY <1>2, <2>1
  <2>3. m \in Locals /\ m.count <= 2
    BY Zenon, <1>2, <1>3, <2>2 DEF Locals
  <2>4. /\ setLocal(j, m) /\ UNCHANGED pathFindThread
        /\ stepTo(j, "pass") \/ stepTo(j, "each")
    BY <1>21 DEF afterRequest
  <2> HIDE DEF m
  <2> QED BY <1>6, <2>3, <2>4 DEF UpdateSteps
<1>22. CASE endPass(j)
  <2> DEFINE m == [l EXCEPT !.newOnly = l.mustBreak \/ newRequest]
  <2>1. m \in Locals /\ m.count <= 2
    BY <1>2, <1>3 DEF Locals
  <2>2. /\ UNCHANGED pathFindThread
        /\ \/ setLocal(j, m) /\ stepTo(j, "again")
           \/ setLocal(j, noLocal) /\ stepTo(j, "loop")
    BY <1>22 DEF endPass
  <2> HIDE DEF m
  <2> QED BY <1>6, <1>7, <2>1, <2>2 DEF UpdateSteps
<1>23. CASE nextPass(j)
  <2> DEFINE m == [l EXCEPT !.left = requests]
  <2>1. m \in Locals /\ m.count <= 2
    BY <1>2, <1>3 DEF Locals
  <2>2. /\ UNCHANGED pathFindThread
        /\ \/ setLocal(j, m) /\ stepTo(j, "each")
           \/ setLocal(j, noLocal) /\ stepTo(j, "loop")
    BY <1>23 DEF nextPass, dispatchVars
  <2> HIDE DEF m
  <2> QED BY <1>6, <1>7, <2>1, <2>2 DEF UpdateSteps
<1> QED
  BY <1>11, <1>12, <1>13, <1>14, <1>15, <1>16, <1>17, <1>18, <1>19, <1>21, <1>22, <1>23
  DEF UpdateStep

\* Whoever raises the count adds a job that will lower it.
LEMMA WorkThread ==
    ASSUME JobsInv, DataInv, ThreadInv, JobsInv', newPFWork,
           UNCHANGED <<executing, step, local, isStopping>>
    PROVE  ThreadInv'
<1>1. /\ CountsLow' /\ pathFindThread \in Int /\ pathFindThread <= 2
  BY DEF ThreadInv, CountsLow, DataInv, StateType
<1>2. CASE UNCHANGED <<pathFindThread, lastJob, jobSet>>
  <2>1. \A j \in Updaters : WillLower(j) => j \in Updaters' /\ WillLower(j)'
    BY <1>2 DEF Updaters, Jobs, WillLower
  <2> QED BY <1>1, <1>2, <2>1, WitnessKept
<1>3. CASE pathFindThread' = pathFindThread + 1 /\ addJob(UpdateType, "update")
  <2>1. CASE pathFindThread' < 2
    BY <1>1, <1>3, <2>1, LowerEnough
  <2>2. CASE pathFindThread' = 2
    <3>1. PICK n \in jobSet' : n.body = "update"
      <4> DEFINE new == [type |-> UpdateType, index |-> lastJob + 1, body |-> "update"]
      <4>1. new \in jobSet' /\ new.body = "update"
        BY <1>3 DEF addJob
      <4> HIDE DEF new
      <4> QED BY <4>1
    <3>2. n \in Updaters' /\ step'[n.index] = "none"
      BY <3>1 DEF Updaters, Jobs, JobsInv
    <3>3. WillLower(n)'
      BY <3>2 DEF WillLower
    <3> QED BY <1>1, <2>2, <3>2, <3>3 DEF ThreadInv, CountsLow
  <2>3. pathFindThread' \in Int /\ pathFindThread' <= 2
    BY <1>1, <1>3, NewWork
  <2> QED BY <2>1, <2>2, <2>3
<1> QED BY <1>2, <1>3, NewWork

LEMMA ThreadStep ==
    ASSUME JobsInv, CountInv, DataInv, ThreadInv, JobsInv', DataInv', [Next]_vars
    PROVE  ThreadInv'
<1>0. CountsLow
  BY DEF ThreadInv, CountsLow
<1>1. ASSUME NEW j \in jobSet, Begin(j) PROVE ThreadInv'
  <2> DEFINE s == IF j.body = "update" THEN "update" ELSE "resume"
  <2>1. /\ stepTo(j, s) /\ j \in Jobs /\ Jobs' = Jobs
        /\ UNCHANGED <<pathFindThread, isStopping, local>>
    BY <1>1, BeginKeepsJobs DEF Begin, BeginJob, dispatchVars, stopVars
  <2>2. step'[j.index] = s /\ \A i \in Jobs : i # j => step'[i.index] = step[i.index]
    BY <2>1, StepMoved
  <2>3. s \notin {"end", "decrement"}
    OBVIOUS
  <2> HIDE DEF s
  <2>4. \A w \in Updaters : WillLower(w) => w \in Updaters' /\ WillLower(w)'
    BY <2>1, <2>2, <2>3 DEF Updaters, WillLower
  <2> QED BY <1>0, <2>1, <2>4, WitnessKept DEF CountsLow
<1>2. ASSUME NEW j \in executing, End(j) PROVE ThreadInv'
  <2>1. /\ setLocal(j, noLocal) /\ UNCHANGED <<pathFindThread, isStopping>>
        /\ j \in Jobs /\ Jobs' = Jobs \ {j} /\ step[j.index] = "end"
        /\ \A i \in Jobs' : step'[i.index] = step[i.index]
    BY ZenonT(30), <1>2, EndKeepsJobs DEF End, EndJob, setLocal, dispatchVars, stopVars
  <2>2. CountsLow'
    BY <1>0, <2>1, CountsMoved, NoLocalType DEF noLocal
  <2>3. \A i \in Jobs : i # j => local'[i.index] = local[i.index]
    BY <2>1, LocalMoved, NoLocalType DEF DataInv, LeftInv
  <2>4. \A w \in Updaters : WillLower(w) => w \in Updaters' /\ WillLower(w)'
    BY <2>1, <2>3 DEF Updaters, WillLower
  <2> QED BY ZenonT(30), <2>1, <2>2, <2>4, WitnessKept
<1>3. ASSUME UNCHANGED <<pathFindThread, isStopping, executing, local>>, jobSet \subseteq jobSet',
             \A i \in Jobs : i.body = "update" => step'[i.index] = step[i.index]
      PROVE  ThreadInv'
  <2>1. \A w \in Updaters : WillLower(w) => w \in Updaters' /\ WillLower(w)'
    BY <1>3 DEF Updaters, Jobs, WillLower
  <2> QED BY <1>0, <1>3, <2>1, WitnessKept DEF CountsLow
<1>4. ASSUME NEW j \in executing, CoroStep(j) PROVE ThreadInv'
  <2>1. /\ j \in Jobs /\ j.body \in Coros /\ UNCHANGED <<executing, isStopping, local>>
        /\ jobSet \subseteq jobSet'
    BY <1>4, CoroStepMoves DEF stopVars, Adds, addJob
  <2>2. CASE newPathRequest(j)
    BY <2>1, <2>2, WorkThread DEF newPathRequest, jobVars
  <2>3. CASE ~newPathRequest(j)
    <3>1. /\ UNCHANGED pathFindThread
          /\ \E s : UNCHANGED step \/ stepTo(j, s)
      BY <1>4, <2>3 DEF CoroStep, resume, lockCoro, findPath, yield, leaveCoro, doStatus,
          dispatchVars, jobVars
    <3>2. \A i \in Jobs : i.body = "update" => step'[i.index] = step[i.index]
      BY <2>1, <3>1, StepMoved, PathAssumption
    <3> QED BY <1>3, <2>1, <3>1, <3>2
  <2> QED BY <2>2, <2>3
<1>5. ASSUME NEW j \in executing, UpdateStep(j) PROVE ThreadInv'
  BY <1>5, UpdateStepThread
<1>6. ASSUME NEW c \in Coros, createCoro(c) \/ postCoro(c) PROVE ThreadInv'
  BY <1>3, <1>6 DEF createCoro, postCoro, addJob, jobVars, dispatchVars, stopVars
<1>7. CASE doAdvance
  BY <1>7, WorkThread DEF doAdvance, jobVars, stopVars
<1>8. CASE stopAsync
  <2>1. isStopping' = TRUE /\ UNCHANGED <<pathFindThread, local>>
    BY <1>8 DEF stopAsync, StopAsync, dispatchVars, jobVars
  <2> QED BY <2>1 DEF ThreadInv
<1>9. CASE setValidLedger \/ closeServer \/ stopChildren \/ stop \/ UNCHANGED vars
  <2>1. UNCHANGED <<pathFindThread, isStopping, executing, local, jobSet, step>>
    BY <1>9 DEF setValidLedger, closeServer, stopChildren, stop, ChildrenStop, Stop, vars,
        dispatchVars, poolVars, stopVars, jobVars
  <2> QED BY <1>3, <2>1
<1> QED BY <1>1, <1>2, <1>4, <1>5, <1>6, <1>7, <1>8, <1>9, NextSplit DEF Other

-----------------------------------------------------------------------------
(* The theorems *)

LEMMA PathInvInit == Init => PathInv
<1> SUFFICES ASSUME Init PROVE PathInv
  OBVIOUS
<1>1. /\ Jobs = {} /\ executing = {} /\ jobSet = {} /\ lastJob = 0
      /\ step = [i \in Indices |-> "none"]
  BY DEF Init, PoolInit, Jobs
<1>2. JobsInv
  BY <1>1 DEF JobsInv
<1>3. \A c \in Coros : point[c] = "none" /\ ~completion[c] /\ owner[c] = 0
  BY DEF Init
<1>4. CountInv
  <2>1. Posted = {} /\ Asked = {} /\ Answered = {}
    BY <1>3 DEF Posted, Asked, Answered
  <2> QED BY <1>1, <2>1, FS_EmptySet, CorosNat DEF CountInv, Init
<1>5. DataInv
  <2>1. LeftInv
    BY <1>1, NoLocalType DEF Init, LeftInv
  <2>2. point \in [Coros -> Points] /\ completion \in [Coros -> BOOLEAN]
    BY DEF Init, Points
  <2>3. owner \in [Coros -> Indices \cup {0}]
    BY DEF Init
  <2>4. requests \in Seq(Coros)
    BY DEF Init
  <2>5. nSuspend \in Int /\ pathFindThread \in Int
    BY DEF Init, PoolInit
  <2>6. newRequest \in BOOLEAN
    BY Zenon DEF Init
  <2> QED BY <2>1, <2>2, <2>3, <2>4, <2>5, <2>6 DEF DataInv, StateType
<1>6. \A d, S : Doing(d, S) = {}
  BY <1>1 DEF Doing
<1>7. CoroInv
  BY <1>3, <1>6 DEF CoroInv, CoroOK, Resuming, Inside
<1>8. SuspendInv
  <2>1. Counted = {} /\ Resumed = {}
    BY <1>3, <1>6 DEF Counted, Resumed, Locked, Inside
  <2> QED BY <2>1, FS_EmptySet DEF SuspendInv, Init, PoolInit
<1>9. ThreadInv
  BY DEF Init, ThreadInv, noLocal
<1> QED BY <1>2, <1>4, <1>5, <1>7, <1>8, <1>9 DEF PathInv

LEMMA PathInvStep == PathInv /\ [Next]_vars => PathInv'
<1> SUFFICES ASSUME PathInv, [Next]_vars PROVE PathInv'
  OBVIOUS
<1>1. JobsInv /\ CountInv /\ DataInv /\ CoroInv /\ SuspendInv /\ ThreadInv
  BY DEF PathInv
<1>2. CountInv'
  BY <1>1, CountStep
<1>3. JobsInv'
  BY <1>1, <1>2, JobsStep
<1>4. DataInv'
  BY <1>1, DataStep
<1>5. CoroInv' /\ SuspendInv'
  BY <1>1, <1>2, <1>3, CoroInvStep
<1>6. ThreadInv'
  BY <1>1, <1>3, <1>4, ThreadStep
<1> QED BY <1>2, <1>3, <1>4, <1>5, <1>6 DEF PathInv

\* Whatever the jobs, the coroutines and the stop do, the state keeps its
\* invariant.
THEOREM PathInvAlways == Spec => []PathInv
BY PathInvInit, PathInvStep, PTL DEF Spec

\* Every job is one that addJob made, and their number is bounded by the
\* commands and the ledgers.
THEOREM PathTypeAlways == Spec => []TypeOK
<1>1. PathInv => TypeOK
  <2> SUFFICES ASSUME PathInv PROVE TypeOK
    OBVIOUS
  <2>1. JobsInv /\ CountInv /\ DataInv
    BY DEF PathInv
  <2>2. Jobs \subseteq Job /\ lastJob \in Indices \cup {0}
    BY <2>1, JobFacts, IndexBound DEF JobsInv
  <2> QED BY <2>1, <2>2 DEF TypeOK, DataInv, StateType, Points
<1> QED BY <1>1, PathInvAlways, PTL

\* Coro::post is called once for each yield at most: one job at most is there
\* to resume a coroutine, and none after it returned, however many threads
\* search paths for it.
THEOREM PostedOnce == Spec => []PostedOncePerYield
<1>1. PathInv => PostedOncePerYield
  <2> SUFFICES ASSUME PathInv, NEW c \in Coros
               PROVE  /\ Cardinality(Resuming(c)) <= 1
                      /\ point[c] \in {"return", "finished"} => Resuming(c) = {}
    BY DEF PostedOncePerYield, Resuming, Doing
  <2>1. CoroOK(c)
    BY DEF PathInv, CoroInv
  <2>2. CASE Resuming(c) = {}
    BY <2>2, FS_EmptySet
  <2>3. ASSUME NEW j \in Resuming(c) PROVE Cardinality(Resuming(c)) <= 1
    <3>1. Resuming(c) = {j}
      BY <2>1, <2>3 DEF CoroOK
    <3>2. Cardinality({j}) = 1
      BY Zenon, FS_Singleton
    <3> QED BY <3>1, <3>2
  <2> QED BY <2>1, <2>2, <2>3 DEF CoroOK
<1> QED BY <1>1, PathInvAlways, PTL

\* What checkStopped reads in nSuspend_ when no job is executed is the number
\* of the suspended coroutines.
THEOREM SuspendedAlwaysCounted == Spec => []SuspendedCounted
<1>1. PathInv => SuspendedCounted
  <2> SUFFICES ASSUME PathInv, executing = {}
               PROVE  nSuspend =
                        Cardinality({c \in Coros : point[c] \in {"created", "begin", "waiting"}})
    BY DEF SuspendedCounted
  <2>1. ASSUME NEW c \in Coros PROVE Locked(c) = {} /\ Inside(c) = {}
    <3>1. \A j \in Jobs : step[j.index] = "none"
      BY DEF PathInv, JobsInv, Jobs
    <3> QED BY <3>1 DEF Locked, Inside, Doing
  <2>2. Resumed = {}
    BY <2>1 DEF Resumed
  <2>3. \A c \in Coros : point[c] # "switching"
    BY <2>1 DEF PathInv, CoroInv, CoroOK
  <2>4. Counted = {c \in Coros : point[c] \in {"created", "begin", "waiting"}}
    BY <2>3 DEF Counted
  <2>5. Cardinality(Counted) \in Nat /\ Cardinality(Resumed) = 0
    BY <2>2, CorosNat, FS_EmptySet DEF Counted
  <2>6. nSuspend = Cardinality(Counted) - Cardinality(Resumed)
    BY DEF PathInv, SuspendInv
  <2>7. nSuspend = Cardinality(Counted)
    BY <2>5, <2>6
  <2> QED BY <2>4, <2>7
<1> QED BY <1>1, PathInvAlways, PTL

\* newPFWork starts a job when there is none, in spite of the decrement of
\* mPathFindThread that updatePaths makes without the lock.
THEOREM PathFindAlwaysRestarts == Spec => []PathFindRestarts
<1>1. PathInv => PathFindRestarts
  <2> SUFFICES ASSUME PathInv, Updaters = {}, ~isStopping PROVE pathFindThread < 2
    BY DEF PathFindRestarts
  <2>1. pathFindThread \in Int /\ pathFindThread <= 2 /\ pathFindThread # 2
    BY DEF PathInv, DataInv, StateType, ThreadInv
  <2> QED BY <2>1
<1> QED BY <1>1, PathInvAlways, PTL

=============================================================================

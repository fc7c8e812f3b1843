---------------------- MODULE PathRequestsJobProofs -------------------------
(***************************************************************************)
(* The inductive invariant of PathRequests, and why every step keeps its   *)
(* first half: which jobs there are, how many, and the variables each job  *)
(* works with.  PathRequestsProofs has the rest and the theorems.          *)
(***************************************************************************)
EXTENDS PathRequests, FiniteSetTheorems, TLAPS

\* The provers of a step that names none, in the order they are tried.
USE SMT, Zenon, SMTT(30)

-----------------------------------------------------------------------------
(* What removeRequest leaves of requests_ *)

\* Induction on the indices of a sequence, from the least counterexample.
LEMMA PrefixesByInduction ==
    ASSUME NEW N \in Nat, NEW Good, 0 \in Good,
           \A n \in 1 .. N : n - 1 \in Good => n \in Good
    PROVE  N \in Good
<1> DEFINE Bad == {n \in 0 .. N : n \notin Good}
           R == {ss \in Nat \X Nat : ss[1] < ss[2]}
<1>1. IsWellFoundedOn(R, Nat)
  BY NatLessThanWellFounded DEF OpToRel
<1>2. ASSUME Bad # {} PROVE FALSE
  <2>1. Bad \subseteq Nat
    OBVIOUS
  <2>2. \A m, n \in Nat : m < n => <<m, n>> \in R
    OBVIOUS
  <2> HIDE DEF R
  <2>3. PICK n \in Bad : \A m \in Bad : ~(<<m, n>> \in R)
    <3> HIDE DEF Bad
    <3> QED BY Zenon, <1>1, <1>2, <2>1, WFMin
  <2>4. n \in 1 .. N /\ n - 1 \in 0 .. N /\ <<n - 1, n>> \in R
    BY <2>2
  <2> QED BY <2>3, <2>4
<1> QED BY <1>2

\* The function that Erase builds, on the first m elements.
Keeps(s, gone, m, f) ==
    f = [n \in 0 .. m |->
            IF n = 0 THEN <<>>
            ELSE IF s[n] \in gone THEN f[n - 1] ELSE Append(f[n - 1], s[n])]

LEMMA KeptAt ==
    ASSUME NEW s, NEW gone, NEW m, NEW f, Keeps(s, gone, m, f), NEW n \in 0 .. m
    PROVE  f[n] = IF n = 0 THEN <<>>
                  ELSE IF s[n] \in gone THEN f[n - 1] ELSE Append(f[n - 1], s[n])
<1> DEFINE e(k) == IF k = 0 THEN <<>>
                   ELSE IF s[k] \in gone THEN f[k - 1] ELSE Append(f[k - 1], s[k])
<1>1. f = [k \in 0 .. m |-> e(k)]
  BY Zenon DEF Keeps
<1> HIDE DEF e
<1>2. f[n] = e(n)
  BY <1>1
<1> QED BY Zenon, <1>2 DEF e

\* The recursion of Erase defines a function.
LEMMA KeptExists ==
    ASSUME NEW s, NEW gone, Len(s) \in Nat
    PROVE  \E f : Keeps(s, gone, Len(s), f)
<1> DEFINE Good == {m \in 0 .. Len(s) : \E f : Keeps(s, gone, m, f)}
<1>1. 0 \in Good
  <2> DEFINE f == [n \in 0 .. 0 |-> <<>>]
  <2>1. Keeps(s, gone, 0, f)
    BY DEF Keeps
  <2>2. 0 \in 0 .. Len(s)
    OBVIOUS
  <2> HIDE DEF f
  <2> QED BY <2>1, <2>2
<1>2. ASSUME NEW m \in 1 .. Len(s), m - 1 \in Good
      PROVE  m \in Good
  <2>1. PICK f : Keeps(s, gone, m - 1, f)
    BY <1>2
  <2> DEFINE g == [n \in 0 .. m |->
                      IF n < m THEN f[n]
                      ELSE IF s[m] \in gone THEN f[m - 1] ELSE Append(f[m - 1], s[m])]
  <2>2. ASSUME NEW n \in 0 .. m
        PROVE  g[n] = IF n = 0 THEN <<>>
                      ELSE IF s[n] \in gone THEN g[n - 1] ELSE Append(g[n - 1], s[n])
    <3>1. CASE n < m
      <4>1. f[n] = IF n = 0 THEN <<>>
                   ELSE IF s[n] \in gone THEN f[n - 1] ELSE Append(f[n - 1], s[n])
        BY <2>1, <3>1, KeptAt
      <4>2. g[n] = f[n] /\ (n # 0 => g[n - 1] = f[n - 1])
        BY <3>1
      <4> HIDE DEF g
      <4> QED BY <4>1, <4>2
    <3>2. CASE n = m
      BY <3>2
    <3> QED BY <3>1, <3>2
  <2>3. Keeps(s, gone, m, g)
    BY <2>2 DEF Keeps
  <2> HIDE DEF g
  <2> QED BY <2>3
<1> HIDE DEF Good
<1>3. Len(s) \in Good
  BY <1>1, <1>2, PrefixesByInduction
<1> QED BY <1>3 DEF Good

\* What is left of a sequence of coroutines is one.
LEMMA EraseType ==
    ASSUME NEW S, NEW s \in Seq(S), NEW gone
    PROVE  Erase(s, gone) \in Seq(S)
<1> DEFINE f == CHOOSE f : Keeps(s, gone, Len(s), f)
           Good == {m \in 0 .. Len(s) : f[m] \in Seq(S)}
<1>1. Len(s) \in Nat
  OBVIOUS
<1>2. Keeps(s, gone, Len(s), f)
  BY Zenon, <1>1, KeptExists
<1>3. Erase(s, gone) = f[Len(s)]
  BY Zenon DEF Erase, Keeps
<1> HIDE DEF f
<1>4. 0 \in Good
  <2>1. f[0] = <<>>
    BY <1>1, <1>2, KeptAt
  <2>2. f[0] \in Seq(S) /\ 0 \in 0 .. Len(s)
    BY <1>1, <2>1
  <2> QED BY Zenon, <2>2
<1>5. ASSUME NEW m \in 1 .. Len(s), m - 1 \in Good
      PROVE  m \in Good
  <2>1. f[m] = IF s[m] \in gone THEN f[m - 1] ELSE Append(f[m - 1], s[m])
    BY <1>2, KeptAt
  <2>2. s[m] \in S /\ f[m - 1] \in Seq(S)
    BY <1>5
  <2>3. f[m] \in Seq(S) /\ m \in 0 .. Len(s)
    BY <2>1, <2>2
  <2> QED BY Zenon, <2>3
<1> HIDE DEF Good
<1>6. Len(s) \in Good
  BY <1>1, <1>4, <1>5, PrefixesByInduction
<1> QED BY <1>3, <1>6 DEF Good

-----------------------------------------------------------------------------
(* The inductive invariant *)

Points == {"none", "created", "begin", "inserted", "yielding", "switching", "waiting",
           "return", "finished"}

CoroSteps == {"resume", "lock", "run", "end"}

UpdateSteps == {"update", "loop", "age", "decrement", "copy", "flag", "each", "search",
                "complete", "remove", "next", "pass", "again", "end"}

\* The jobs have indices of their own, and are where jobs of their kind are.
JobsInv ==
    /\ lastJob \in Nat
    /\ jobSet \subseteq Job /\ executing \subseteq Job
    /\ jobSet \cap executing = {}
    /\ \A j \in Jobs : j.index <= lastJob
    /\ \A i, j \in Jobs : i.index = j.index => i = j
    /\ step \in [Indices -> {"none"} \cup CoroSteps \cup UpdateSteps]
    /\ \A i \in Indices : i > lastJob => step[i] = "none"
    /\ \A j \in jobSet : step[j.index] = "none"
    /\ \A j \in executing :
          step[j.index] \in IF j.body = "update" THEN UpdateSteps ELSE CoroSteps

\* A job is added when a coroutine is posted first, when it asks for paths,
\* when it is answered, and when a ledger is published.
Posted == {c \in Coros : point[c] \notin {"none", "created"}}
Asked == {c \in Coros : point[c] \notin {"none", "created", "begin", "inserted"}}
Answered == {c \in Coros : point[c] \notin {"none", "created", "begin"} /\ ~completion[c]}

CountInv ==
    /\ pubSeq \in Nat /\ validSeq \in Nat
    /\ pubSeq <= validSeq /\ validSeq <= MaxLedger
    /\ lastJob <= Cardinality(Posted) + Cardinality(Asked) + Cardinality(Answered) + pubSeq

Locals == [left : Seq(Coros), newOnly : BOOLEAN, mustBreak : BOOLEAN, count : Int]

\* The steps at which a job is at the first of the requests it has left.
OnRequest == {"search", "complete", "remove", "next"}

LeftInv ==
    /\ local \in [Indices -> Locals]
    /\ \A j \in executing : step[j.index] \in OnRequest => local[j.index].left # <<>>

StateType ==
    /\ point \in [Coros -> Points]
    /\ owner \in [Coros -> Indices \cup {0}]
    /\ completion \in [Coros -> BOOLEAN]
    /\ requests \in Seq(Coros)
    /\ newRequest \in BOOLEAN
    /\ nSuspend \in Int
    /\ pathFindThread \in Int

DataInv == StateType /\ LeftInv

\* The jobs of a coroutine that are at one of some steps.
Doing(c, S) == {j \in Jobs : j.body = c /\ step[j.index] \in S}

Resuming(c) == Doing(c, {"none", "resume", "lock"})
Locked(c) == Doing(c, {"lock"})
Inside(c) == Doing(c, {"run"})

\* One job at most is in a coroutine and holds its mutex, and one at most is
\* there to resume it: none while its completion is to be called, before it
\* is posted, after it returned, and while it runs before it asked for paths
\* or after it was answered.
CoroOK(c) ==
    /\ owner[c] = 0 <=> Inside(c) = {}
    /\ \A i, j \in Inside(c) : i = j
    /\ \A i, j \in Resuming(c) : i = j
    /\ completion[c] => /\ point[c] \in {"inserted", "yielding", "switching", "waiting"}
                        /\ Resuming(c) = {}
    /\ point[c] \in {"none", "created", "finished"} => Inside(c) = {}
    /\ point[c] \in {"none", "created", "return", "finished"} => Resuming(c) = {}
    /\ point[c] \in {"inserted", "yielding", "switching", "return"} => Inside(c) # {}
    /\ point[c] \in {"begin", "waiting"} /\ Inside(c) # {} => Resuming(c) = {} /\ ~completion[c]

CoroInv == \A c \in Coros : CoroOK(c)

\* A coroutine counts as suspended from the moment it says so, until a job
\* that resumes it says so, which may be before the coroutine does.
Counted == {c \in Coros : point[c] \in {"created", "begin", "switching", "waiting"}}
Resumed == {c \in Coros : \/ Locked(c) # {}
                          \/ Inside(c) # {} /\ point[c] \in {"begin", "waiting"}}

SuspendInv == nSuspend = Cardinality(Counted) - Cardinality(Resumed)

\* When mPathFindThread is 2, some thread will write 1 or less: it has not
\* read the count yet, or it has read 2.
WillLower(j) ==
    /\ step[j.index] # "end"
    /\ step[j.index] = "decrement" => local[j.index].count = 2

ThreadInv ==
    /\ pathFindThread <= 2
    /\ \A i \in Indices : local[i].count <= 2
    /\ pathFindThread = 2 /\ ~isStopping => \E j \in Updaters : WillLower(j)

PathInv == JobsInv /\ CountInv /\ DataInv /\ CoroInv /\ SuspendInv /\ ThreadInv

-----------------------------------------------------------------------------
(* Facts about the state *)

LEMMA CorosNat ==
    /\ IsFiniteSet(Coros)
    /\ Cardinality(Coros) \in Nat
    /\ MaxLedger \in Nat
    /\ \A S \in SUBSET Coros : /\ IsFiniteSet(S)
                               /\ Cardinality(S) \in Nat
                               /\ Cardinality(S) <= Cardinality(Coros)
BY PathAssumption, FS_Subset, FS_CardinalityType

\* The counts account for the index of every job.
LEMMA CountBound ==
    ASSUME NEW P \in SUBSET Coros, NEW Q \in SUBSET Coros, NEW R \in SUBSET Coros,
           NEW n \in Nat, NEW pub \in Nat, NEW valid \in Nat, pub <= valid, valid <= MaxLedger,
           n <= Cardinality(P) + Cardinality(Q) + Cardinality(R) + pub
    PROVE  n <= 3 * Cardinality(Coros) + MaxLedger
<1>1. /\ Cardinality(P) \in Nat /\ Cardinality(P) <= Cardinality(Coros)
      /\ Cardinality(Q) \in Nat /\ Cardinality(Q) <= Cardinality(Coros)
      /\ Cardinality(R) \in Nat /\ Cardinality(R) <= Cardinality(Coros)
      /\ Cardinality(Coros) \in Nat /\ MaxLedger \in Nat
  BY CorosNat
<1> QED BY <1>1

LEMMA IndexBound ==
    ASSUME CountInv, lastJob \in Nat
    PROVE  /\ lastJob <= 3 * Cardinality(Coros) + MaxLedger
           /\ \A i \in Nat \ {0} : i <= lastJob => i \in Indices
           /\ lastJob \in Indices \cup {0}
<1>1. Posted \in SUBSET Coros /\ Asked \in SUBSET Coros /\ Answered \in SUBSET Coros
  BY DEF Posted, Asked, Answered
<1>2. lastJob <= 3 * Cardinality(Coros) + MaxLedger
  BY <1>1, CountBound DEF CountInv
<1> QED BY <1>2, CorosNat DEF Indices

LEMMA JobFacts ==
    ASSUME JobsInv, CountInv, NEW j \in Jobs
    PROVE  /\ j \in Job /\ j.index \in Indices /\ j.index \in Nat \ {0}
           /\ j.body \in Coros \cup {"update"}
           /\ j.body \in Coros <=> j.body # "update"
<1>1. j \in Job /\ j.index <= lastJob
  BY DEF JobsInv, Jobs
<1>2. j.index \in Nat \ {0} /\ j.body \in Bodies
  BY <1>1 DEF Job
<1> QED BY <1>1, <1>2, IndexBound, PathAssumption DEF JobsInv

\* A job at a step of a coroutine is one of a coroutine.
LEMMA CoroJob ==
    ASSUME JobsInv, CountInv, NEW j, NEW s \in {"resume", "lock", "run"}, At(j, s)
    PROVE  j \in executing /\ j \in Jobs /\ step[j.index] = s /\ j.body \in Coros
<1>1. j \in executing /\ j \in Jobs /\ step[j.index] = s
  BY DEF At, Jobs
<1>2. j.body # "update"
  BY <1>1 DEF JobsInv, UpdateSteps
<1> QED BY <1>1, <1>2, JobFacts

LEMMA UpdateJob ==
    ASSUME JobsInv, CountInv, NEW j, NEW s \in UpdateSteps \ {"end"}, At(j, s)
    PROVE  j \in executing /\ j \in Jobs /\ step[j.index] = s /\ j.body = "update"
<1>1. j \in executing /\ j \in Jobs /\ step[j.index] = s
  BY DEF At, Jobs
<1> QED BY <1>1 DEF JobsInv, CoroSteps, UpdateSteps

-----------------------------------------------------------------------------
(* The jobs *)

StepsOf(j) == IF j.body = "update" THEN UpdateSteps ELSE CoroSteps

\* What an action does to the queue and to the steps of the jobs.
Adds ==
    \/ UNCHANGED <<lastJob, jobSet>>
    \/ \E type \in JobTypes, body \in Bodies : addJob(type, body)
Moves ==
    \/ UNCHANGED step
    \/ \E j \in executing : \E s \in StepsOf(j) : stepTo(j, s)

LEMMA StepMoved ==
    ASSUME JobsInv, CountInv, NEW j \in Jobs, NEW s, stepTo(j, s)
    PROVE  /\ step'[j.index] = s
           /\ \A i \in Jobs : i # j => step'[i.index] = step[i.index]
           /\ \A i \in Indices : i # j.index => step'[i] = step[i]
<1>1. step \in [Indices -> {"none"} \cup CoroSteps \cup UpdateSteps]
  BY DEF JobsInv
<1>2. step'[j.index] = s /\ \A i \in Indices : i # j.index => step'[i] = step[i]
  BY <1>1, JobFacts DEF stepTo
<1>3. \A i \in Jobs : i.index \in Indices /\ (i # j => i.index # j.index)
  BY JobFacts DEF JobsInv
<1> QED BY <1>2, <1>3

LEMMA MovesKeep ==
    ASSUME JobsInv, CountInv, Moves
    PROVE  /\ step' \in [Indices -> {"none"} \cup CoroSteps \cup UpdateSteps]
           /\ \A i \in Indices : i > lastJob => step'[i] = "none"
           /\ \A j \in jobSet : step'[j.index] = "none"
           /\ \A j \in executing : step'[j.index] \in StepsOf(j)
<1>1. CASE UNCHANGED step
  BY <1>1 DEF JobsInv, StepsOf
<1>2. ASSUME NEW j \in executing, NEW s \in StepsOf(j), stepTo(j, s)
      PROVE  /\ step' \in [Indices -> {"none"} \cup CoroSteps \cup UpdateSteps]
             /\ \A i \in Indices : i > lastJob => step'[i] = "none"
             /\ \A i \in jobSet : step'[i.index] = "none"
             /\ \A i \in executing : step'[i.index] \in StepsOf(i)
  <2>1. j \in Jobs /\ j.index \in Indices /\ j.index <= lastJob /\ j.index \in Nat
    BY JobFacts DEF Jobs, JobsInv
  <2>2. /\ step'[j.index] = s
        /\ \A i \in Jobs : i # j => step'[i.index] = step[i.index]
        /\ \A i \in Indices : i # j.index => step'[i] = step[i]
    BY <1>2, <2>1, StepMoved
  <2>3. step' \in [Indices -> {"none"} \cup CoroSteps \cup UpdateSteps]
    BY Zenon, <1>2 DEF JobsInv, stepTo, StepsOf
  <2>4. \A i \in Indices : i > lastJob => step'[i] = "none"
    BY <2>1, <2>2 DEF JobsInv, Indices
  <2>5. \A i \in jobSet : step'[i.index] = "none"
    BY <2>2 DEF JobsInv, Jobs
  <2>6. \A i \in executing : step'[i.index] \in StepsOf(i)
    BY <2>2 DEF JobsInv, Jobs, StepsOf
  <2> QED BY <2>3, <2>4, <2>5, <2>6
<1> QED BY <1>1, <1>2 DEF Moves

LEMMA AddsKeepJobs ==
    ASSUME JobsInv, CountInv, lastJob' \in Indices \cup {0}, Adds, Moves, UNCHANGED executing
    PROVE  JobsInv'
<1>1. CASE UNCHANGED <<lastJob, jobSet>>
  BY <1>1, MovesKeep DEF JobsInv, Jobs, StepsOf
<1>2. ASSUME NEW type \in JobTypes, NEW body \in Bodies, addJob(type, body)
      PROVE  JobsInv'
  <2> DEFINE new == [type |-> type, index |-> lastJob + 1, body |-> body]
  <2>1. lastJob' = lastJob + 1 /\ jobSet' = jobSet \cup {new} /\ lastJob \in Nat
    BY <1>2 DEF addJob, JobsInv
  <2>2. new \in Job /\ new.index = lastJob'
    BY <2>1 DEF Job
  <2>3. \A j \in Jobs : j.index \in Nat /\ j.index <= lastJob
    BY JobFacts DEF JobsInv
  <2>4. Jobs' = Jobs \cup {new} /\ new \notin Jobs
    BY <2>1, <2>2, <2>3 DEF Jobs
  <2>5. step'[new.index] = "none"
    <3>1. lastJob' \in Indices /\ lastJob' > lastJob
      BY <2>1
    <3> QED BY <2>2, <3>1, MovesKeep
  <2> HIDE DEF new
  <2>6. jobSet' \subseteq Job /\ executing' \subseteq Job /\ jobSet' \cap executing' = {}
    BY <2>1, <2>2, <2>4 DEF JobsInv, Jobs
  <2>7. \A j \in Jobs' : j.index <= lastJob'
    BY <2>1, <2>2, <2>3, <2>4
  <2>8. \A i, j \in Jobs' : i.index = j.index => i = j
    BY <2>1, <2>2, <2>3, <2>4 DEF JobsInv
  <2>9. \A i \in Indices : i > lastJob' => step'[i] = "none"
    BY <2>1, MovesKeep DEF Indices
  <2>10. \A j \in jobSet' : step'[j.index] = "none"
    BY <2>1, <2>5, MovesKeep
  <2>11. \A j \in executing' : step'[j.index] \in StepsOf(j)
    BY MovesKeep
  <2>12. lastJob' \in Nat /\ step' \in [Indices -> {"none"} \cup CoroSteps \cup UpdateSteps]
    BY <2>1, MovesKeep
  <2> QED BY <2>6, <2>7, <2>8, <2>9, <2>10, <2>11, <2>12 DEF JobsInv, StepsOf
<1> QED BY <1>1, <1>2 DEF Adds

LEMMA BeginKeepsJobs ==
    ASSUME JobsInv, CountInv, NEW j \in jobSet, Begin(j)
    PROVE  JobsInv' /\ Jobs' = Jobs /\ j \in Jobs /\ j \notin executing
<1> DEFINE s == IF j.body = "update" THEN "update" ELSE "resume"
<1>1. /\ j \in Jobs /\ stepTo(j, s) /\ s \in StepsOf(j)
      /\ jobSet' = jobSet \ {j} /\ executing' = executing \cup {j}
      /\ lastJob' = lastJob
  BY DEF Begin, BeginJob, Jobs, StepsOf, CoroSteps, UpdateSteps
<1>2. Jobs' = Jobs /\ j \notin executing
  BY <1>1 DEF Jobs, JobsInv
<1> HIDE DEF s
<1>3. /\ step'[j.index] = s
      /\ \A i \in Jobs : i # j => step'[i.index] = step[i.index]
      /\ \A i \in Indices : i # j.index => step'[i] = step[i]
  BY <1>1, StepMoved
<1>4. step' \in [Indices -> {"none"} \cup CoroSteps \cup UpdateSteps]
  BY Zenon, <1>1 DEF JobsInv, stepTo, StepsOf
<1>5. \A i \in Indices : i > lastJob => step'[i] = "none"
  BY <1>1, <1>3, JobFacts DEF JobsInv, Indices
<1>6. \A i \in jobSet' : step'[i.index] = "none"
  BY <1>1, <1>3 DEF JobsInv, Jobs
<1>7. \A i \in executing' : step'[i.index] \in StepsOf(i)
  BY <1>1, <1>3 DEF JobsInv, Jobs, StepsOf
<1>8. jobSet' \subseteq Job /\ executing' \subseteq Job /\ jobSet' \cap executing' = {}
  BY <1>1 DEF JobsInv
<1> QED BY <1>1, <1>2, <1>4, <1>5, <1>6, <1>7, <1>8 DEF JobsInv, StepsOf

LEMMA EndKeepsJobs ==
    ASSUME JobsInv, CountInv, NEW j \in executing, End(j)
    PROVE  /\ JobsInv' /\ j \in Jobs /\ Jobs' = Jobs \ {j} /\ step[j.index] = "end"
           /\ \A i \in Jobs' : step'[i.index] = step[i.index]
<1>1. /\ j \in Jobs /\ stepTo(j, "none") /\ step[j.index] = "end"
      /\ jobSet' = jobSet /\ executing' = executing \ {j}
      /\ lastJob' = lastJob
  BY DEF End, EndJob, Jobs, At
<1>2. Jobs' = Jobs \ {j}
  BY <1>1 DEF Jobs, JobsInv
<1>3. /\ step'[j.index] = "none"
      /\ \A i \in Jobs : i # j => step'[i.index] = step[i.index]
      /\ \A i \in Indices : i # j.index => step'[i] = step[i]
  BY <1>1, StepMoved
<1>4. step' \in [Indices -> {"none"} \cup CoroSteps \cup UpdateSteps]
  BY Zenon, <1>1 DEF JobsInv, stepTo
<1>5. \A i \in Indices : i > lastJob => step'[i] = "none"
  BY <1>1, <1>3, JobFacts DEF JobsInv, Indices
<1>6. \A i \in jobSet' : step'[i.index] = "none"
  BY <1>1, <1>2, <1>3 DEF JobsInv, Jobs
<1>7. \A i \in executing' : step'[i.index] \in StepsOf(i)
  BY <1>1, <1>3 DEF JobsInv, Jobs, StepsOf
<1>8. jobSet' \subseteq Job /\ executing' \subseteq Job /\ jobSet' \cap executing' = {}
  BY <1>1 DEF JobsInv
<1>9. \A i \in Jobs' : step'[i.index] = step[i.index]
  BY <1>2, <1>3
<1>10. lastJob' \in Nat /\ \A i \in Jobs' : i.index <= lastJob'
  BY <1>1, <1>2 DEF JobsInv
<1>11. \A i, k \in Jobs' : i.index = k.index => i = k
  BY <1>2 DEF JobsInv
<1> QED BY <1>1, <1>2, <1>4, <1>5, <1>6, <1>7, <1>8, <1>9, <1>10, <1>11 DEF JobsInv, StepsOf

-----------------------------------------------------------------------------
(* The actions *)

\* newPFWork adds a job or nothing.
LEMMA NewWork ==
    ASSUME newPFWork
    PROVE  /\ Adds
           /\ \/ UNCHANGED <<pathFindThread, lastJob, jobSet>>
              \/ /\ pathFindThread < 2 /\ pathFindThread' = pathFindThread + 1
                 /\ addJob(UpdateType, "update")
BY PathAssumption DEF newPFWork, Adds

LEMMA CoroStepMoves ==
    ASSUME JobsInv, CountInv, NEW j \in executing, CoroStep(j)
    PROVE  /\ j \in Jobs /\ j.body \in Coros
           /\ Adds /\ Moves
           /\ UNCHANGED <<executing, stopVars, ledgerVars, local>>
<1>0. CoroSteps \subseteq StepsOf(j) \/ j.body = "update"
  BY DEF StepsOf
<1>1. CASE resume(j)
  <2>1. j \in Jobs /\ j.body \in Coros
    BY <1>1, CoroJob DEF resume
  <2>2. Moves
    BY <1>0, <1>1, <2>1, PathAssumption DEF resume, Moves, CoroSteps
  <2> QED BY <1>1, <2>1, <2>2 DEF resume, Adds, dispatchVars
<1>2. CASE lockCoro(j)
  <2>1. j \in Jobs /\ j.body \in Coros
    BY <1>2, CoroJob DEF lockCoro
  <2>2. Moves
    BY <1>0, <1>2, <2>1, PathAssumption DEF lockCoro, Moves, CoroSteps
  <2> QED BY <1>2, <2>1, <2>2 DEF lockCoro, Adds, dispatchVars, poolVars
<1>3. CASE findPath(j)
  <2>1. j \in Jobs /\ j.body \in Coros
    BY <1>3, CoroJob DEF findPath
  <2> QED BY <1>3, <2>1 DEF findPath, Adds, Moves, dispatchVars, poolVars, jobVars
<1>4. CASE newPathRequest(j)
  <2>1. j \in Jobs /\ j.body \in Coros
    BY <1>4, CoroJob DEF newPathRequest
  <2>2. Adds
    BY <1>4, NewWork DEF newPathRequest
  <2> QED BY <1>4, <2>1, <2>2 DEF newPathRequest, Moves, jobVars
<1>5. CASE yield(j)
  <2>1. j \in Jobs /\ j.body \in Coros
    BY <1>5, CoroJob DEF yield
  <2> QED BY <1>5, <2>1 DEF yield, Adds, Moves, dispatchVars, jobVars
<1>6. CASE leaveCoro(j)
  <2>1. j \in Jobs /\ j.body \in Coros
    BY <1>6, CoroJob DEF leaveCoro
  <2>2. Moves
    BY <1>0, <1>6, <2>1, PathAssumption DEF leaveCoro, Moves, CoroSteps
  <2> QED BY <1>6, <2>1, <2>2 DEF leaveCoro, Adds, dispatchVars, poolVars
<1>7. CASE doStatus(j)
  <2>1. j \in Jobs /\ j.body \in Coros
    BY <1>7, CoroJob DEF doStatus
  <2> QED BY <1>7, <2>1 DEF doStatus, Adds, Moves, dispatchVars, poolVars, jobVars
<1> QED BY <1>1, <1>2, <1>3, <1>4, <1>5, <1>6, <1>7 DEF CoroStep

\* The request a job is at is one of a coroutine.
LEMMA HeadIsCoro ==
    ASSUME JobsInv, CountInv, DataInv, NEW j \in executing,
           step[j.index] \in OnRequest
    PROVE  /\ local[j.index].left \in Seq(Coros) /\ local[j.index].left # <<>>
           /\ Head(local[j.index].left) \in Coros
           /\ Tail(local[j.index].left) \in Seq(Coros)
<1>1. j.index \in Indices
  BY JobFacts DEF Jobs
<1>2. local[j.index] \in Locals /\ local[j.index].left # <<>>
  BY <1>1 DEF DataInv, LeftInv
<1> QED BY <1>2 DEF Locals

\* A job that searches paths leaves the coroutines alone, except that
\* updateComplete posts one.
LEMMA UpdateStepMoves ==
    ASSUME JobsInv, CountInv, NEW j \in executing, UpdateStep(j)
    PROVE  /\ j \in Jobs /\ j.body = "update"
           /\ \E s \in UpdateSteps : stepTo(j, s)
           /\ UNCHANGED <<executing, nSuspend, stopVars, coroVars, validSeq, pubSeq>>
           /\ updateComplete(j) \/ UNCHANGED <<lastJob, jobSet, completion>>
<1>0. \A s \in UpdateSteps \ {"end"} : At(j, s) => j \in Jobs /\ j.body = "update"
  BY UpdateJob
<1> USE DEF UpdateSteps, poolVars, requestVars, dispatchVars, ledgerVars
<1>1. CASE needLedger(j)
  BY <1>0, <1>1 DEF needLedger
<1>2. CASE pickLedger(j)
  BY <1>0, <1>2 DEF pickLedger
<1>3. CASE checkAge(j)
  BY <1>0, <1>3 DEF checkAge
<1>4. CASE decrementUnlocked(j)
  BY <1>0, <1>4 DEF decrementUnlocked
<1>5. CASE copyRequests(j)
  BY <1>0, <1>5 DEF copyRequests
<1>6. CASE firstPass(j)
  BY <1>0, <1>6 DEF firstPass
<1>7. CASE nextRequest(j)
  BY <1>0, <1>7 DEF nextRequest
<1>8. CASE doUpdate(j)
  BY <1>0, <1>8 DEF doUpdate
<1>9. CASE updateComplete(j)
  BY <1>0, <1>9 DEF updateComplete
<1>10. CASE removeRequest(j)
  BY <1>0, <1>10 DEF removeRequest
<1>11. CASE afterRequest(j)
  BY <1>0, <1>11 DEF afterRequest
<1>12. CASE endPass(j)
  BY <1>0, <1>12 DEF endPass
<1>13. CASE nextPass(j)
  BY <1>0, <1>13 DEF nextPass
<1> QED
  BY <1>1, <1>2, <1>3, <1>4, <1>5, <1>6, <1>7, <1>8, <1>9, <1>10, <1>11, <1>12, <1>13
  DEF UpdateStep

\* What is neither the start nor the end of a job.
Other ==
    \/ \E j \in executing : CoroStep(j) \/ UpdateStep(j)
    \/ \E c \in Coros : createCoro(c) \/ postCoro(c)
    \/ setValidLedger \/ doAdvance
    \/ stopAsync \/ closeServer \/ stopChildren \/ stop
    \/ UNCHANGED vars

LEMMA NextSplit ==
    ASSUME [Next]_vars
    PROVE  \/ \E j \in jobSet : Begin(j)
           \/ \E j \in executing : End(j)
           \/ Other
BY DEF Next, Other

LEMMA OthersMove ==
    ASSUME JobsInv, CountInv, DataInv, Other
    PROVE  Adds /\ Moves /\ UNCHANGED executing
<1>1. ASSUME NEW j \in executing, CoroStep(j)
      PROVE  Adds /\ Moves /\ UNCHANGED executing
  BY <1>1, CoroStepMoves
<1>2. ASSUME NEW j \in executing, UpdateStep(j)
      PROVE  Adds /\ Moves /\ UNCHANGED executing
  <2>1. Moves
    BY <1>2, UpdateStepMoves DEF Moves, StepsOf
  <2>2. ASSUME updateComplete(j) PROVE Adds
    <3>1. Head(local[j.index].left) \in Bodies
      BY <2>2, HeadIsCoro, PathAssumption DEF updateComplete, At, OnRequest
    <3> QED BY <2>2, <3>1, PathAssumption DEF updateComplete, Adds
  <2>3. UNCHANGED <<lastJob, jobSet>> => Adds
    BY DEF Adds
  <2> QED BY <1>2, <2>1, <2>2, <2>3, UpdateStepMoves
<1>3. ASSUME NEW c \in Coros, createCoro(c)
      PROVE  Adds /\ Moves /\ UNCHANGED executing
  BY <1>3 DEF createCoro, Adds, Moves, jobVars
<1>4. ASSUME NEW c \in Coros, postCoro(c)
      PROVE  Adds /\ Moves /\ UNCHANGED executing
  BY <1>4, PathAssumption DEF postCoro, Adds, Moves, jobVars
<1>5. CASE setValidLedger
  BY <1>5 DEF setValidLedger, Adds, Moves, jobVars, poolVars
<1>6. CASE doAdvance
  BY <1>6, NewWork DEF doAdvance, Moves, jobVars
<1>7. CASE stopAsync
  BY <1>7 DEF stopAsync, StopAsync, Adds, Moves, jobVars
<1>8. CASE closeServer
  BY <1>8 DEF closeServer, Adds, Moves, jobVars, poolVars
<1>9. CASE stopChildren
  BY <1>9 DEF stopChildren, ChildrenStop, Adds, Moves, jobVars
<1>10. CASE stop
  BY <1>10 DEF stop, Stop, Adds, Moves, jobVars
<1>11. CASE UNCHANGED vars
  BY <1>11 DEF vars, Adds, Moves, jobVars, poolVars
<1> QED
  BY <1>1, <1>2, <1>3, <1>4, <1>5, <1>6, <1>7, <1>8, <1>9, <1>10, <1>11 DEF Other

-----------------------------------------------------------------------------
(* The number of jobs *)

LEMMA Grown ==
    ASSUME NEW A \in SUBSET Coros, NEW B \in SUBSET Coros, A \subseteq B
    PROVE  /\ Cardinality(A) \in Nat /\ Cardinality(B) \in Nat
           /\ Cardinality(A) <= Cardinality(B)
           /\ A # B => Cardinality(A) + 1 <= Cardinality(B)
<1>1. IsFiniteSet(B) /\ Cardinality(A) \in Nat /\ Cardinality(B) \in Nat
  BY CorosNat
<1> QED BY <1>1, FS_Subset

\* Coroutines are only posted, ask and are answered, and at most one of them
\* for each job that is added.
LEMMA CountKept ==
    ASSUME JobsInv, CountInv,
           Posted \subseteq Posted', Asked \subseteq Asked', Answered \subseteq Answered',
           UNCHANGED pubSeq, validSeq' \in Nat, validSeq <= validSeq', validSeq' <= MaxLedger,
           \/ lastJob' = lastJob
           \/ /\ lastJob' = lastJob + 1
              /\ Posted # Posted' \/ Asked # Asked' \/ Answered # Answered'
    PROVE  CountInv'
<1> DEFINE p == Cardinality(Posted)  pp == Cardinality(Posted')
           q == Cardinality(Asked)  qq == Cardinality(Asked')
           r == Cardinality(Answered)  rr == Cardinality(Answered')
<1>1. /\ Posted \in SUBSET Coros /\ Posted' \in SUBSET Coros
      /\ Asked \in SUBSET Coros /\ Asked' \in SUBSET Coros
      /\ Answered \in SUBSET Coros /\ Answered' \in SUBSET Coros
  BY DEF Posted, Asked, Answered
<1>2. p \in Nat /\ pp \in Nat /\ p <= pp /\ (Posted # Posted' => p + 1 <= pp)
  BY <1>1, Grown
<1>3. q \in Nat /\ qq \in Nat /\ q <= qq /\ (Asked # Asked' => q + 1 <= qq)
  BY <1>1, Grown
<1>4. r \in Nat /\ rr \in Nat /\ r <= rr /\ (Answered # Answered' => r + 1 <= rr)
  BY <1>1, Grown
<1>5. lastJob <= p + q + r + pubSeq /\ lastJob \in Nat /\ pubSeq \in Nat
  BY DEF CountInv, JobsInv
<1>6. lastJob' <= pp + qq + rr + pubSeq'
  <2> HIDE DEF p, pp, q, qq, r, rr
  <2> QED BY <1>2, <1>3, <1>4, <1>5
<1>7. pubSeq' \in Nat /\ pubSeq' <= validSeq'
  BY DEF CountInv
<1> QED BY <1>6, <1>7 DEF CountInv

LEMMA CountSame ==
    ASSUME CountInv, UNCHANGED <<point, completion, lastJob, pubSeq, validSeq>>
    PROVE  CountInv'
BY DEF CountInv, Posted, Asked, Answered

\* A coroutine goes on, and is not asked to complete what it did not ask for.
LEMMA PointMoved ==
    ASSUME DataInv, NEW c \in Coros, NEW p \in Points,
           point' = [point EXCEPT ![c] = p],
           c \in Posted => p \notin {"none", "created", "begin"},
           c \in Asked => p \notin {"none", "created", "begin", "inserted"},
           \/ UNCHANGED completion
           \/ point[c] = "begin" /\ completion' = [completion EXCEPT ![c] = TRUE]
    PROVE  /\ Posted \subseteq Posted' /\ Asked \subseteq Asked' /\ Answered \subseteq Answered'
           /\ c \notin Posted /\ p \notin {"none", "created"} => Posted # Posted'
           /\ c \notin Asked /\ p \notin {"none", "created", "begin", "inserted"} =>
                 Asked # Asked'
<1>1. point'[c] = p /\ \A d \in Coros : d # c => point'[d] = point[d]
  BY DEF DataInv, StateType
<1>2. \A d \in Coros : d # c => completion'[d] = completion[d]
  BY DEF DataInv, StateType
<1>3. Posted \subseteq Posted' /\ Asked \subseteq Asked'
  BY <1>1 DEF Posted, Asked
<1>4. c \in Answered => c \in Answered'
  BY <1>1 DEF Posted, Asked, Answered
<1>5. Answered \subseteq Answered'
  BY <1>1, <1>2, <1>4 DEF Answered
<1>6. c \notin Posted /\ p \notin {"none", "created"} => Posted # Posted'
  BY <1>1 DEF Posted
<1>7. c \notin Asked /\ p \notin {"none", "created", "begin", "inserted"} => Asked # Asked'
  BY <1>1 DEF Asked
<1> QED BY <1>3, <1>5, <1>6, <1>7

LEMMA CoroStepCounts ==
    ASSUME JobsInv, CountInv, DataInv, NEW j \in executing, CoroStep(j)
    PROVE  CountInv'
<1> DEFINE c == j.body
<1>0. /\ c \in Coros /\ UNCHANGED <<pubSeq, validSeq>>
      /\ validSeq' \in Nat /\ validSeq <= validSeq' /\ validSeq' <= MaxLedger
  BY CoroStepMoves DEF ledgerVars, CountInv
<1>1. CASE resume(j) \/ lockCoro(j)
  BY <1>0, <1>1, CountSame DEF resume, lockCoro, coroVars, requestVars, poolVars
<1> DEFINE Kept == Posted \subseteq Posted' /\ Asked \subseteq Asked' /\ Answered \subseteq Answered'
<1>2. CASE findPath(j)
  <2>1. /\ lastJob' = lastJob /\ point[c] = "begin"
        /\ \E p \in {"return", "inserted"} : point' = [point EXCEPT ![c] = p]
        /\ UNCHANGED completion \/ completion' = [completion EXCEPT ![c] = TRUE]
    BY <1>2 DEF findPath, poolVars, requestVars
  <2>2. Kept
    BY Zenon, <1>0, <2>1, PointMoved DEF Points, Posted, Asked
  <2> QED BY <1>0, <2>1, <2>2, CountKept
<1>3. CASE newPathRequest(j)
  <2>1. /\ point[c] = "inserted" /\ point' = [point EXCEPT ![c] = "yielding"]
        /\ UNCHANGED completion
        /\ lastJob' = lastJob \/ lastJob' = lastJob + 1
    BY <1>3, NewWork DEF newPathRequest, requestVars, addJob
  <2>2. Kept /\ Asked # Asked'
    BY Zenon, <1>0, <2>1, PointMoved DEF Points, Posted, Asked
  <2> QED BY <1>0, <2>1, <2>2, CountKept
<1>4. CASE yield(j)
  <2>1. /\ point' = [point EXCEPT ![c] = "switching"]
        /\ UNCHANGED completion /\ lastJob' = lastJob
    BY <1>4 DEF yield, requestVars
  <2>2. Kept
    BY Zenon, <1>0, <2>1, PointMoved DEF Points
  <2> QED BY <1>0, <2>1, <2>2, CountKept
<1>5. CASE leaveCoro(j)
  <2>1. /\ \E p \in {"waiting", "finished"} : point' = [point EXCEPT ![c] = p]
        /\ UNCHANGED completion /\ lastJob' = lastJob
    BY Zenon, <1>0, <1>5 DEF leaveCoro, requestVars, poolVars, DataInv, StateType
  <2>2. Kept
    BY Zenon, <1>0, <2>1, PointMoved DEF Points
  <2> QED BY <1>0, <2>1, <2>2, CountKept
<1>6. CASE doStatus(j)
  <2>1. /\ point' = [point EXCEPT ![c] = "return"]
        /\ UNCHANGED completion /\ lastJob' = lastJob
    BY <1>6 DEF doStatus, requestVars, poolVars
  <2>2. Kept
    BY Zenon, <1>0, <2>1, PointMoved DEF Points
  <2> QED BY <1>0, <2>1, <2>2, CountKept
<1> QED BY <1>1, <1>2, <1>3, <1>4, <1>5, <1>6 DEF CoroStep

LEMMA UpdateStepCounts ==
    ASSUME JobsInv, CountInv, DataInv, CoroInv, NEW j \in executing, UpdateStep(j)
    PROVE  CountInv'
<1>1. CASE UNCHANGED <<lastJob, jobSet, completion>>
  BY <1>1, UpdateStepMoves, CountSame DEF coroVars
<1>2. CASE updateComplete(j)
  <2> DEFINE c == Head(local[j.index].left)
  <2>1. c \in Coros
    BY <1>2, HeadIsCoro DEF updateComplete, At, OnRequest
  <2>2. /\ completion' = [completion EXCEPT ![c] = FALSE]
        /\ IF completion[c] THEN lastJob' = lastJob + 1 ELSE lastJob' = lastJob
        /\ UNCHANGED <<point, validSeq, pubSeq>>
    BY <1>2 DEF updateComplete, coroVars, dispatchVars, ledgerVars, addJob
  <2> HIDE DEF c
  <2>3. completion[c] => point[c] \in {"inserted", "yielding", "switching", "waiting"}
    BY <2>1 DEF CoroInv, CoroOK
  <2>4. /\ ~completion'[c]
        /\ \A d \in Coros : d # c => completion'[d] = completion[d]
    BY <2>1, <2>2 DEF DataInv, StateType
  <2>5. Posted = Posted' /\ Asked = Asked'
    BY <2>2 DEF Posted, Asked
  <2>6. Answered \subseteq Answered'
    BY <2>2, <2>4 DEF Answered
  <2>7. completion[c] => Answered # Answered'
    BY <2>1, <2>2, <2>3, <2>4 DEF Answered
  <2>8. validSeq' \in Nat /\ validSeq <= validSeq' /\ validSeq' <= MaxLedger
    BY <2>2 DEF CountInv
  <2> QED BY <2>2, <2>5, <2>6, <2>7, <2>8, CountKept
<1> QED BY <1>1, <1>2, UpdateStepMoves

LEMMA CountStep ==
    ASSUME JobsInv, CountInv, DataInv, CoroInv, [Next]_vars
    PROVE  CountInv'
<1>1. ASSUME NEW j \in jobSet, Begin(j) PROVE CountInv'
  BY <1>1, CountSame DEF Begin, BeginJob, coroVars, requestVars, dispatchVars, ledgerVars
<1>2. ASSUME NEW j \in executing, End(j) PROVE CountInv'
  BY <1>2, CountSame DEF End, EndJob, coroVars, requestVars, dispatchVars, ledgerVars
<1>3. ASSUME NEW c \in Coros, createCoro(c) PROVE CountInv'
  <2>1. /\ point' = [point EXCEPT ![c] = "created"] /\ point[c] = "none"
        /\ UNCHANGED <<completion, lastJob, validSeq, pubSeq>>
    BY <1>3 DEF createCoro, requestVars, dispatchVars, ledgerVars
  <2>2. Posted \subseteq Posted' /\ Asked \subseteq Asked' /\ Answered \subseteq Answered'
    BY Zenon, <2>1, PointMoved DEF Points, Posted, Asked
  <2>3. validSeq' \in Nat /\ validSeq <= validSeq' /\ validSeq' <= MaxLedger
    BY <2>1 DEF CountInv
  <2> QED BY <2>1, <2>2, <2>3, CountKept
<1>4. ASSUME NEW c \in Coros, postCoro(c) PROVE CountInv'
  <2>1. /\ point' = [point EXCEPT ![c] = "begin"] /\ point[c] = "created"
        /\ lastJob' = lastJob + 1
        /\ UNCHANGED <<completion, validSeq, pubSeq>>
    BY <1>4 DEF postCoro, addJob, requestVars, dispatchVars, ledgerVars
  <2>2. /\ Posted \subseteq Posted' /\ Asked \subseteq Asked' /\ Answered \subseteq Answered'
        /\ Posted # Posted'
    BY Zenon, <2>1, PointMoved DEF Points, Posted, Asked
  <2>3. validSeq' \in Nat /\ validSeq <= validSeq' /\ validSeq' <= MaxLedger
    BY <2>1 DEF CountInv
  <2> QED BY <2>1, <2>2, <2>3, CountKept
<1>5. CASE setValidLedger
  <2>1. /\ validSeq' = validSeq + 1 /\ validSeq < MaxLedger
        /\ UNCHANGED <<point, completion, lastJob, pubSeq>>
    BY <1>5 DEF setValidLedger, coroVars, requestVars, poolVars
  <2>2. Posted = Posted' /\ Asked = Asked' /\ Answered = Answered'
    BY <2>1 DEF Posted, Asked, Answered
  <2>3. validSeq' \in Nat /\ validSeq <= validSeq' /\ validSeq' <= MaxLedger
    BY <2>1, CorosNat DEF CountInv
  <2> QED BY <2>1, <2>2, <2>3, CountKept
<1>6. CASE doAdvance
  <2>1. /\ pubSeq' = validSeq /\ pubSeq < validSeq /\ UNCHANGED <<point, completion, validSeq>>
        /\ lastJob' = lastJob \/ lastJob' = lastJob + 1
    BY <1>6, NewWork DEF doAdvance, coroVars, requestVars, addJob
  <2>2. Posted = Posted' /\ Asked = Asked' /\ Answered = Answered'
    BY <2>1 DEF Posted, Asked, Answered
  <2>3. Posted \in SUBSET Coros /\ Asked \in SUBSET Coros /\ Answered \in SUBSET Coros
    BY DEF Posted, Asked, Answered
  <2>4. /\ Cardinality(Posted) \in Nat /\ Cardinality(Asked) \in Nat
        /\ Cardinality(Answered) \in Nat
    BY <2>3, CorosNat
  <2> QED BY <2>1, <2>2, <2>4 DEF CountInv, JobsInv
<1>7. CASE stopAsync \/ closeServer \/ stopChildren \/ stop \/ UNCHANGED vars
  <2>1. UNCHANGED <<point, completion, lastJob, pubSeq, validSeq>>
    BY <1>7 DEF stopAsync, closeServer, stopChildren, stop, StopAsync, ChildrenStop, Stop, vars,
        coroVars, requestVars, dispatchVars, ledgerVars, poolVars
  <2> QED BY <2>1, CountSame
<1>8. ASSUME NEW j \in executing, CoroStep(j) \/ UpdateStep(j) PROVE CountInv'
  BY <1>8, CoroStepCounts, UpdateStepCounts
<1> QED BY <1>1, <1>2, <1>3, <1>4, <1>5, <1>6, <1>7, <1>8, NextSplit DEF Other

LEMMA JobsStep ==
    ASSUME JobsInv, CountInv, DataInv, CountInv', [Next]_vars
    PROVE  JobsInv'
<1>1. CASE Other
  <2>1. Adds /\ Moves /\ UNCHANGED executing
    BY <1>1, OthersMove
  <2>2. lastJob' \in Nat
    BY <2>1 DEF Adds, addJob, JobsInv
  <2>3. lastJob' <= 3 * Cardinality(Coros) + MaxLedger
    <3>1. Posted' \in SUBSET Coros /\ Asked' \in SUBSET Coros /\ Answered' \in SUBSET Coros
      BY DEF Posted, Asked, Answered
    <3>2. /\ pubSeq' \in Nat /\ validSeq' \in Nat
          /\ pubSeq' <= validSeq' /\ validSeq' <= MaxLedger
          /\ lastJob' <= Cardinality(Posted') + Cardinality(Asked') + Cardinality(Answered')
                           + pubSeq'
      BY DEF CountInv
    <3> QED BY <2>2, <3>1, <3>2, CountBound
  <2>4. lastJob' \in Indices \cup {0}
    BY <2>2, <2>3, CorosNat DEF Indices
  <2> QED BY <2>1, <2>4, AddsKeepJobs
<1> QED BY <1>1, NextSplit, BeginKeepsJobs, EndKeepsJobs

-----------------------------------------------------------------------------
(* The variables of the jobs *)

LEMMA NoLocalType == noLocal \in Locals
BY DEF noLocal, Locals

LEMMA LocalMoved ==
    ASSUME JobsInv, CountInv, local \in [Indices -> Locals], NEW j \in Jobs,
           NEW l \in Locals, setLocal(j, l)
    PROVE  /\ local' \in [Indices -> Locals] /\ local'[j.index] = l
           /\ \A i \in Jobs : i # j => local'[i.index] = local[i.index]
           /\ \A i \in Indices : i # j.index => local'[i] = local[i]
<1>1. local' \in [Indices -> Locals] /\ local'[j.index] = l
      /\ \A i \in Indices : i # j.index => local'[i] = local[i]
  BY JobFacts DEF setLocal
<1>2. \A i \in Jobs : i.index \in Indices /\ (i # j => i.index # j.index)
  BY JobFacts DEF JobsInv
<1> QED BY <1>1, <1>2

\* A job moves and its variables change.
LEMMA LeftMoved ==
    ASSUME JobsInv, CountInv, LeftInv, NEW j \in executing, NEW s, stepTo(j, s),
           NEW l \in Locals, setLocal(j, l), s \in OnRequest => l.left # <<>>,
           UNCHANGED executing
    PROVE  LeftInv'
<1>1. j \in Jobs /\ \A i \in executing : i \in Jobs
  BY DEF Jobs
<1>2. /\ step'[j.index] = s
      /\ \A i \in Jobs : i # j => step'[i.index] = step[i.index]
  BY <1>1, StepMoved
<1>3. /\ local' \in [Indices -> Locals] /\ local'[j.index] = l
      /\ \A i \in Jobs : i # j => local'[i.index] = local[i.index]
  BY <1>1, LocalMoved DEF LeftInv
<1> QED BY <1>1, <1>2, <1>3 DEF LeftInv

\* A job moves and its variables stay.
LEMMA LeftStays ==
    ASSUME JobsInv, CountInv, LeftInv, NEW j \in executing, NEW s, stepTo(j, s),
           s \in OnRequest => local[j.index].left # <<>>,
           UNCHANGED <<executing, local>>
    PROVE  LeftInv'
<1>1. j \in Jobs /\ \A i \in executing : i \in Jobs
  BY DEF Jobs
<1>2. /\ step'[j.index] = s
      /\ \A i \in Jobs : i # j => step'[i.index] = step[i.index]
  BY <1>1, StepMoved
<1> QED BY <1>1, <1>2 DEF LeftInv

LEMMA CoroStepLeft ==
    ASSUME JobsInv, CountInv, LeftInv, NEW j \in executing, CoroStep(j)
    PROVE  LeftInv'
<1>1. UNCHANGED <<executing, local>>
  BY CoroStepMoves
<1>2. UNCHANGED step => LeftInv'
  BY <1>1 DEF LeftInv
<1>3. \A s \in {"lock", "run", "end"} : stepTo(j, s) => LeftInv'
  BY <1>1, LeftStays DEF OnRequest
<1>4. UNCHANGED step \/ stepTo(j, "lock") \/ stepTo(j, "run") \/ stepTo(j, "end")
  BY DEF CoroStep, resume, lockCoro, findPath, newPathRequest, yield, leaveCoro, doStatus, jobVars
<1> QED BY <1>2, <1>3, <1>4

LEMMA UpdateStepLeft ==
    ASSUME JobsInv, CountInv, DataInv, NEW j \in executing, UpdateStep(j)
    PROVE  LeftInv'
<1>0. LeftInv
  BY DEF DataInv
<1>1. UNCHANGED executing /\ j \in Jobs
  BY UpdateStepMoves
<1> DEFINE l == local[j.index]
<1>2. /\ l \in Locals /\ l.left \in Seq(Coros) /\ l.newOnly \in BOOLEAN /\ l.mustBreak \in BOOLEAN
      /\ l.count \in Int
  <2>1. l \in Locals
    BY <1>0, <1>1, JobFacts DEF LeftInv
  <2> QED BY <2>1 DEF Locals
<1>3. step[j.index] \in OnRequest => l.left # <<>> /\ Tail(l.left) \in Seq(Coros)
  <2>1. step[j.index] \in OnRequest => l.left # <<>>
    BY <1>0 DEF LeftInv
  <2> QED BY <1>2, <2>1
<1>4. ASSUME NEW s \in UpdateSteps \ OnRequest, stepTo(j, s), UNCHANGED local
      PROVE  LeftInv'
  BY <1>0, <1>1, <1>4, LeftStays
<1>5. ASSUME NEW s \in UpdateSteps \ OnRequest, NEW m \in Locals, stepTo(j, s), setLocal(j, m)
      PROVE  LeftInv'
  BY <1>0, <1>1, <1>5, LeftMoved
<1>6. ASSUME NEW s \in OnRequest, stepTo(j, s), UNCHANGED local, l.left # <<>>
      PROVE  LeftInv'
  BY <1>0, <1>1, <1>6, LeftStays
<1> USE DEF UpdateSteps, OnRequest
<1>11. CASE needLedger(j)
  BY <1>4, <1>11 DEF needLedger
<1>12. CASE pickLedger(j)
  BY <1>4, <1>12 DEF pickLedger
<1>13. CASE checkAge(j)
  <2>1. pathFindThread \in Int
    BY DEF DataInv, StateType
  <2>2. [noLocal EXCEPT !.count = pathFindThread] \in Locals
    BY Zenon, <2>1, NoLocalType DEF noLocal, Locals
  <2> QED BY <1>4, <1>5, <1>13, <2>2 DEF checkAge
<1>14. CASE decrementUnlocked(j)
  BY <1>4, <1>14 DEF decrementUnlocked
<1>15. CASE copyRequests(j)
  <2>1. requests \in Seq(Coros)
    BY DEF DataInv, StateType
  <2>2. [noLocal EXCEPT !.left = requests] \in Locals
    BY ZenonT(30), <2>1, NoLocalType DEF noLocal, Locals
  <2> QED BY <1>5, <1>15, <2>2 DEF copyRequests
<1>16. CASE firstPass(j)
  <2>1. [l EXCEPT !.newOnly = newRequest] \in Locals
    BY <1>2 DEF Locals, DataInv, StateType
  <2> QED BY <1>5, <1>16, <2>1 DEF firstPass
<1>17. CASE nextRequest(j)
  <2>1. UNCHANGED local
    BY <1>17 DEF nextRequest
  <2>2. \/ stepTo(j, "pass")
        \/ l.left # <<>> /\ (stepTo(j, "remove") \/ stepTo(j, "next") \/ stepTo(j, "search"))
    BY <1>17 DEF nextRequest
  <2> QED BY <1>4, <1>6, <2>1, <2>2
<1>18. CASE doUpdate(j)
  <2>1. step[j.index] = "search"
    BY <1>18 DEF doUpdate, At
  <2> QED BY <1>3, <1>5, <1>6, <1>18, <2>1, NoLocalType DEF doUpdate
<1>19. CASE updateComplete(j)
  <2>1. step[j.index] = "complete" /\ UNCHANGED local /\ stepTo(j, "remove")
    BY <1>19 DEF updateComplete, At
  <2> QED BY <1>3, <1>6, <2>1
<1>20. CASE removeRequest(j)
  <2>1. step[j.index] = "remove" /\ UNCHANGED local /\ stepTo(j, "next")
    BY <1>20 DEF removeRequest, At
  <2> QED BY <1>3, <1>6, <2>1
<1>21. CASE afterRequest(j)
  <2> DEFINE m == [l EXCEPT !.left = Tail(@), !.mustBreak = ~l.newOnly /\ newRequest]
  <2>1. step[j.index] = "next" /\ setLocal(j, m) /\ (stepTo(j, "pass") \/ stepTo(j, "each"))
    BY <1>21 DEF afterRequest, At
  <2>2. m \in Locals
    BY Zenon, <1>2, <1>3, <2>1 DEF Locals, DataInv, StateType
  <2> HIDE DEF m
  <2> QED BY <1>5, <2>1, <2>2
<1>22. CASE endPass(j)
  <2> DEFINE m == [l EXCEPT !.newOnly = l.mustBreak \/ newRequest]
  <2>1. m \in Locals
    BY <1>2 DEF Locals, DataInv, StateType
  <2>2. (setLocal(j, m) /\ stepTo(j, "again")) \/ (setLocal(j, noLocal) /\ stepTo(j, "loop"))
    BY <1>22 DEF endPass
  <2> HIDE DEF m
  <2> QED BY <1>5, <2>1, <2>2, NoLocalType
<1>23. CASE nextPass(j)
  <2> DEFINE m == [l EXCEPT !.left = requests]
  <2>1. m \in Locals
    BY <1>2 DEF Locals, DataInv, StateType
  <2>2. (setLocal(j, m) /\ stepTo(j, "each")) \/ (setLocal(j, noLocal) /\ stepTo(j, "loop"))
    BY <1>23 DEF nextPass
  <2> HIDE DEF m
  <2> QED BY <1>5, <2>1, <2>2, NoLocalType
<1> QED
  BY <1>11, <1>12, <1>13, <1>14, <1>15, <1>16, <1>17, <1>18, <1>19, <1>20, <1>21, <1>22, <1>23
  DEF UpdateStep

LEMMA LeftStep ==
    ASSUME JobsInv, CountInv, DataInv, [Next]_vars
    PROVE  LeftInv'
<1>0. LeftInv
  BY DEF DataInv
<1>1. ASSUME NEW j \in jobSet, Begin(j) PROVE LeftInv'
  <2>1. /\ j \in Jobs /\ UNCHANGED local /\ executing' = executing \cup {j}
        /\ \E s \in {"update", "resume"} : stepTo(j, s)
    BY <1>1 DEF Begin, BeginJob, Jobs
  <2>2. /\ step'[j.index] \in {"update", "resume"}
        /\ \A i \in Jobs : i # j => step'[i.index] = step[i.index]
    BY <2>1, StepMoved
  <2>3. \A i \in executing : i \in Jobs
    BY DEF Jobs
  <2> QED BY <1>0, <2>1, <2>2, <2>3 DEF LeftInv, OnRequest
<1>2. ASSUME NEW j \in executing, End(j) PROVE LeftInv'
  <2>1. /\ executing' = executing \ {j} /\ setLocal(j, noLocal)
        /\ j \in Jobs /\ Jobs' = Jobs \ {j}
        /\ \A i \in Jobs' : step'[i.index] = step[i.index]
    BY Zenon, <1>2, EndKeepsJobs DEF End, EndJob, setLocal
  <2>2. /\ local' \in [Indices -> Locals]
        /\ \A i \in Jobs : i # j => local'[i.index] = local[i.index]
    BY <1>0, <2>1, LocalMoved, NoLocalType DEF LeftInv
  <2>3. \A i \in executing' : i \in Jobs /\ i \in Jobs' /\ i # j /\ i \in executing
    BY <2>1 DEF Jobs
  <2> QED BY <1>0, <2>1, <2>2, <2>3 DEF LeftInv
<1>3. CASE UNCHANGED <<step, local, executing>>
  BY <1>0, <1>3 DEF LeftInv
<1>4. ASSUME NEW c \in Coros, createCoro(c) \/ postCoro(c) PROVE LeftInv'
  BY <1>3, <1>4 DEF createCoro, postCoro, jobVars
<1>5. CASE setValidLedger \/ doAdvance
  BY <1>3, <1>5 DEF setValidLedger, doAdvance, jobVars, poolVars
<1>6. CASE stopAsync \/ closeServer \/ stopChildren \/ stop \/ UNCHANGED vars
  BY <1>3, <1>6 DEF stopAsync, closeServer, stopChildren, stop, StopAsync, ChildrenStop, Stop,
     vars, jobVars, poolVars
<1>7. ASSUME NEW j \in executing, CoroStep(j) \/ UpdateStep(j) PROVE LeftInv'
  BY <1>0, <1>7, CoroStepLeft, UpdateStepLeft
<1> QED BY <1>1, <1>2, <1>4, <1>5, <1>6, <1>7, NextSplit DEF Other

LEMMA CoroStepType ==
    ASSUME JobsInv, CountInv, StateType, NEW j \in executing, CoroStep(j)
    PROVE  StateType'
<1>0. j.body \in Coros /\ j.index \in Indices
  BY CoroStepMoves, JobFacts
<1>1. CASE resume(j)
  BY <1>1 DEF resume, StateType, coroVars, requestVars, dispatchVars
<1>2. CASE lockCoro(j)
  BY <1>0, <1>2 DEF lockCoro, StateType, requestVars, dispatchVars, poolVars
<1>3. CASE findPath(j)
  <2>1. Append(requests, j.body) \in Seq(Coros)
    BY <1>0 DEF StateType
  <2> QED BY Zenon, <1>0, <1>3, <2>1
           DEF findPath, StateType, requestVars, dispatchVars, poolVars, Points
<1>4. CASE newPathRequest(j)
  <2>1. pathFindThread' \in Int
    BY <1>4, NewWork DEF newPathRequest, StateType
  <2> QED BY <1>0, <1>4, <2>1 DEF newPathRequest, StateType, requestVars, Points
<1>5. CASE yield(j)
  BY <1>0, <1>5 DEF yield, StateType, requestVars, dispatchVars, Points
<1>6. CASE leaveCoro(j)
  BY <1>0, <1>6 DEF leaveCoro, StateType, requestVars, dispatchVars, poolVars, Points
<1>7. CASE doStatus(j)
  BY <1>0, <1>7 DEF doStatus, StateType, requestVars, dispatchVars, poolVars, Points
<1> QED BY <1>1, <1>2, <1>3, <1>4, <1>5, <1>6, <1>7 DEF CoroStep

LEMMA UpdateStepType ==
    ASSUME JobsInv, CountInv, DataInv, StateType, NEW j \in executing, UpdateStep(j)
    PROVE  StateType'
<1>1. UNCHANGED <<point, owner, nSuspend>>
  BY UpdateStepMoves DEF coroVars
<1>2. completion' \in [Coros -> BOOLEAN]
  <2>1. CASE updateComplete(j)
    BY Zenon, <2>1 DEF updateComplete, StateType
  <2> QED BY <2>1, UpdateStepMoves DEF StateType
<1>3. requests' \in Seq(Coros)
  <2>1. CASE removeRequest(j)
    BY <2>1, EraseType DEF removeRequest, StateType
  <2>2. ~removeRequest(j) => UNCHANGED requests
    BY Zenon
       DEF UpdateStep, needLedger, pickLedger, checkAge, decrementUnlocked, copyRequests, firstPass,
       nextRequest, doUpdate, updateComplete, afterRequest, endPass, nextPass, requestVars
  <2> QED BY <2>1, <2>2 DEF StateType
<1>4. newRequest' \in BOOLEAN
  <2>1. j \in Jobs /\ j.index \in Indices
    BY UpdateStepMoves, JobFacts
  <2>2. local[j.index].newOnly \in BOOLEAN /\ local[j.index].mustBreak \in BOOLEAN
    BY <2>1 DEF DataInv, LeftInv, Locals
  <2>3. CASE firstPass(j) \/ afterRequest(j) \/ endPass(j)
    BY Zenon, <2>2, <2>3 DEF firstPass, afterRequest, endPass, StateType
  <2>4. ~(firstPass(j) \/ afterRequest(j) \/ endPass(j)) => UNCHANGED newRequest
    BY DEF UpdateStep, needLedger, pickLedger, checkAge, decrementUnlocked, copyRequests,
       nextRequest, doUpdate, updateComplete, removeRequest, nextPass, dispatchVars
  <2> QED BY <2>3, <2>4 DEF StateType
<1>5. pathFindThread' \in Int
  <2>1. j \in Jobs /\ j.index \in Indices
    BY UpdateStepMoves, JobFacts
  <2>2. local[j.index].count \in Int
    BY <2>1 DEF DataInv, LeftInv, Locals
  <2>3. CASE needLedger(j) \/ pickLedger(j) \/ decrementUnlocked(j)
    BY <2>2, <2>3 DEF needLedger, pickLedger, decrementUnlocked, StateType
  <2>4. ~(needLedger(j) \/ pickLedger(j) \/ decrementUnlocked(j)) => UNCHANGED pathFindThread
    BY Zenon DEF UpdateStep, checkAge, copyRequests, firstPass, nextRequest, doUpdate, updateComplete,
       removeRequest, afterRequest, endPass, nextPass, dispatchVars
  <2> QED BY <2>3, <2>4 DEF StateType
<1> QED BY <1>1, <1>2, <1>3, <1>4, <1>5 DEF StateType

LEMMA DataStep ==
    ASSUME JobsInv, CountInv, DataInv, [Next]_vars
    PROVE  DataInv'
<1>0. StateType
  BY DEF DataInv
<1>1. StateType'
  <2>1. ASSUME NEW j \in jobSet, Begin(j) PROVE StateType'
    BY <1>0, <2>1 DEF Begin, BeginJob, StateType, coroVars, requestVars, dispatchVars
  <2>2. ASSUME NEW j \in executing, End(j) PROVE StateType'
    BY <1>0, <2>2 DEF End, EndJob, StateType, coroVars, requestVars, dispatchVars
  <2>3. ASSUME NEW c \in Coros, createCoro(c) PROVE StateType'
    BY <1>0, <2>3 DEF createCoro, StateType, requestVars, dispatchVars, Points
  <2>4. ASSUME NEW c \in Coros, postCoro(c) PROVE StateType'
    BY <1>0, <2>4 DEF postCoro, StateType, requestVars, dispatchVars, Points
  <2>5. CASE setValidLedger
    BY <1>0, <2>5 DEF setValidLedger, StateType, coroVars, requestVars, poolVars
  <2>6. CASE doAdvance
    <3>1. pathFindThread' \in Int
      BY <1>0, <2>6, NewWork DEF doAdvance, StateType
    <3> QED BY <1>0, <2>6, <3>1 DEF doAdvance, StateType, coroVars, requestVars
  <2>7. CASE stopAsync \/ closeServer \/ stopChildren \/ stop \/ UNCHANGED vars
    <3>1. UNCHANGED <<point, owner, completion, requests, newRequest, nSuspend, pathFindThread>>
      BY <2>7 DEF stopAsync, closeServer, stopChildren, stop, StopAsync, ChildrenStop, Stop, vars,
          coroVars, requestVars, dispatchVars, poolVars
    <3> QED BY <1>0, <3>1 DEF StateType
  <2>8. ASSUME NEW j \in executing, CoroStep(j) \/ UpdateStep(j) PROVE StateType'
    BY <1>0, <2>8, CoroStepType, UpdateStepType
  <2> QED BY <2>1, <2>2, <2>3, <2>4, <2>5, <2>6, <2>7, <2>8, NextSplit DEF Other
<1>2. LeftInv'
  BY LeftStep
<1> QED BY <1>1, <1>2 DEF DataInv

=============================================================================

# casinocoind: formal models

TLA+ models of the parts of casinocoind in which threads, messages and time
interleave: consensus, validations, the advance of the validated ledger, the
saving of ledgers, the job queue and path finding. TLC runs check them on small
instances, and TLAPS proofs cover every value of the constants. Paths below are
relative to `src/src/casinocoin`.

## 1. The system

casinocoind is a peer of the CasinoCoin ledger network. Its parts, what state
they keep, and who calls whom:

| part | state | operations | called by |
| --- | --- | --- | --- |
| consensus round (`consensus/Consensus.h`) | phase, mode, prior ledger, peer positions, acquired sets, our position and disputes | startRound, peerProposal, gotTxSet, timerEntry, simulate | NetworkOPs, timer, InboundTransactions |
| disputed transaction (`consensus/DisputedTx.h`) | our vote, peers' votes, two counters | setVote, unVote, updateVote | consensus round |
| timing decisions (`consensus/LedgerTiming.*`) | none | pure functions | consensus round, doAccept |
| adaptor (`app/consensus/CCLConsensus.cpp`) | stored peer positions, ledger being acquired | storeProposal, proposals, onClose, onAccept, doAccept | consensus round, NetworkOPs |
| time keeper (`core/impl/TimeKeeper.cpp`) | close offset | closeTime, adjustCloseTime | doAccept |
| validations (`app/misc/Validations.cpp`) | current validation per node, sets per ledger, stale ones to write | addValidation, getCurrentValidations, doWrite, flush | overlay, consensus, shutdown |
| ledger master, inbound ledgers (`app/ledger/impl`) | valid, published and closed ledger, advance flags, acquisitions | checkAccept, consensusBuilt, tryAdvance, doAdvance, acquire | validations, doAccept, jobs |
| ledger save (`app/ledger/Ledger.cpp`, `PendingSaves.h`) | pending map, SQL tables | pendSaveValidated, saveValidatedLedger | LedgerMaster, jobs, RPC |
| job queue, workers, coroutines (`core/`) | job set, counts per type, semaphore, pause count, suspended coroutines | addJob, processTask, setNumberOfThreads, post, yield, onStop | everything |
| path requests (`app/paths/PathRequests.cpp`) | list of requests, path threads | makeLegacyPathRequest, updateAll, newPFWork | RPC, LedgerMaster |
| online deletion, transaction queue, open ledger, hash router, resource manager, peer finder | rotation state, queues, counts, expiring maps | | NetworkOPs, overlay |
| transaction engine, SHAMap, RPC, protocol | | | sequential computation and I/O |

What makes it hard: handlers of the round call each other under one recursive
lock; proposals, transaction sets, timer calls and changes of the preferred
ledger come in any order; the accept job reads the round without a lock; the
advance job drops its lock in the middle of its loop; a save races other saves
and crashes between SQL transactions; a stop races jobs, timers and coroutines.
`PROJECT.json` lists each hazard at its line.

## 2. Modules

| module | models |
| --- | --- |
| `LedgerTiming` | the parameters and pure functions of `LedgerTiming.h/.cpp` |
| `Avalanche` | the vote `updateVote` computes |
| `DisputedTx` | one `DisputedTx` object with its counters |
| `Consensus` | one node's round: every handler of `Consensus.h` but `simulate`, with the stored proposals of `CCLConsensus` and the sets `InboundTransactions` holds |
| `CloseTime` | the vote on the close time, the resolution and the close time of the ledger built, over several rounds |
| `TimeKeeper` | the close offset of a node over its rounds, and how doAccept adjusts it to the close times that reach it |
| `Validations` | the sets of validations, the current one of each validator, and the writing of stale ones |
| `LedgerMaster` | which ledger is valid, which is published, what is acquired: checkAccept, consensusBuilt, switchLCL, endConsensus and the advance job |
| `LedgerSave` | `pendSaveValidated`, `saveValidatedLedger`, `PendingSaves`, the SF_SAVED flag |
| `Workers` | the threads of `Workers.cpp`: semaphore, counters, pausing |
| `JobPool` | abstract: jobs are added, begin within their limits, and end |
| `JobQueue` | `JobQueue.cpp` over `Workers`, with `JobCounter`, the suspension count of `Coro` and the order of a stop |
| `PathRequests` | the path-finding command with its coroutine, `updateAll` and the dispatch in `LedgerMaster`, over `JobPool` |
| `MC*` | instances for TLC |
| `*Proofs` | theorems |

`Consensus` uses `LedgerTiming` and `Avalanche`; `JobQueue` composes `Workers`
with the queue and implements `JobPool`; `PathRequests` composes four classes on
top of `JobPool`; `LedgerMaster` composes validations, acquisitions, consensus and
the advance job. Type invariants are in the modules (that of `LedgerMaster` in
its proof module) and are proved with the other invariants where there are
proofs; the runs leave them out.

**Consensus.** Variables carry the names of the members without the trailing
underscore; `hasResult` says that `result_` is engaged, and `set`, `bowedOut`,
`disputes`, `compares`, `roundTime` are its members. Handlers run under `lock_`
and call each other: startRoundInternal may call handleWrongLedger,
playbackProposals and timerEntry, and handleWrongLedger may call
startRoundInternal. `todo` is the stack of calls that have still to return. An
entry point needs it empty; the steps `Acquire`, `Playback`, `Replay`,
`ReplayDone`, `FallingBehind` and `Phase` work it off. Only `storeProposal`,
which has a lock of its own, interleaves with them, so a proposal can be stored
while others are replayed. A dispute keeps the votes themselves; that the
counters agree with them is what `DisputedTx` shows.

Choices of the environment: which ledger the validations prefer (at every timer
call, at most `MaxViews` changes), whether that ledger can be acquired, which
positions are stale, how many peers have validated or finished, the clock
readings (`RoundTimes`, never backwards within a round), and the outcome of the
close-time vote. A position with one sequence number is signed once, and a
proposal passes the HashRouter once. `InboundTransactions::newRound`, which drops
sets more than three ledgers away, is not modelled: `available` only grows.

**CloseTime.** A position's close time is a clock reading, a time adopted in a
vote, or 0 for "agree to disagree". `leading` is a closed form of the loop over
`effCloseTimes`, and `voteLoop` is the loop itself; `VoteMatchesLoop` says that
they agree. Whether the transaction sets agree is a choice. A change of the prior
ledger in the middle of a round is left out, except for `LeaveConsensus`.

**TimeKeeper.** One node, over any number of rounds. Times are relative to what
its own clock shows when it closes the ledger of the round. A peer closes by its
own timer and clock, so its first proposal may report any distance (`Reports`), a
new one in every round, before or after we close, or not arrive. A step of our
clock only changes those distances. `leaveNetwork` is a change of the prior
ledger, which clears the reports and takes the node out of the round for the
adjustment; a round may also end without one because it failed.

**Validations.** A message is a signed validation. Nothing is assumed of what a
validator signs: ledgers and sequences may come again, under one key or two, with
any times. Messages arrive in any order, some more than once and some never.
addValidation looks at a validation (`checkValidation`) before it takes `mLock`,
so up to `MaxAdding` threads wait with validations that were current and known
when they were looked at. Other steps are critical sections of `mLock`; the job
that writes stale validations commits a batch outside it. The clock of the
daemon goes forward only. The set of a ledger leaves the cache (`sweep`) once its
validations have expired and are not current; the ten minutes of the cache are
longer than any validation is current, and the timer looks for expired ones every
second. Above 4096 sets the cache ages faster, which is left out.

**LedgerMaster.** A step is what the code does under `m_mutex`, or between two
releases of it: doAdvance releases it to look for ledgers, to publish and to
fetch history. Every validation starts a checkAccept call of its own. An
acquisition ends or fails at any time, and the job of `InboundLedger::done`
calls checkAccept; failed and unfinished ones that nobody has asked for are swept
(`InboundLedgers::sweep`), and one swept at work reports nothing. Rounds of
consensus build any child of the closed ledger, and may be restarted from another
ledger. Every round ends with `endConsensus`: checkLastClosedLedger counts the
newest validations, moves to the ledger with most of them if we have it and it is
compatible, and begins the next round. Ties, and the choice when there are no
validations, are decided by the identities of validators and peers, which the
model leaves open. A validation for the parent of our closed ledger, or one that
replaced a validation for it, counts for ours; which of two validations came
first is not kept, so any that may have replaced one may slip. The checkAccept
that consensusBuilt makes for a saved ledger is one more pending call, so it may
also come after the switch that follows it.

`fetchLedgers` may be stopped by an exception that findNewLedgersToPublish
catches, and `advanceThrows` ends the job as advanceThread does when doAdvance
throws: before or after setFullLedger completes the ledger, or in pubLedger.
Exceptions out of allocation elsewhere are left out. The history variables
`swept`, `thrown` and `unsent` let the properties name these cases, and
`abandoned` has the sequences of the rounds that the node left for another
ledger, until a ledger of that sequence is built.

Left out: the eviction of ledgers from the cache (`have` only grows), and a swept
acquisition that a running job still holds and completes. Quorums of the trusted
validators are taken to be on one chain (`QuorumsAgree`), and to be more than half
of the validators (`QuorumsMeet`, from the quorum that ValidatorList computes; a
smaller one set on the command line is not covered). A validator validates one
ledger of a sequence; ledgers without a quorum fork freely. Of `Validations` only the arrived and the newest validations are
kept; none expires and no key changes.

**LedgerSave.** One action is one critical section, one SQL transaction or one
added job. `Crash` loses everything but the tables. An exception of the database
that leaves saveValidatedLedger before finishWork is left out. Rows belong to a
sequence: saving a ledger also deletes and replaces rows by transaction
(`Ledger.cpp:907`), which takes rows of another sequence away when a transaction
is in two ledgers, and the model has no such transaction.

**Workers, JobQueue.** An action of `Workers` is one operation on the semaphore
or on an atomic counter, or one wait. `JobQueue` has the locked parts of addJob,
processTask and finishJob, a timer that adds counted jobs, a coroutine that
yields and is posted by an event, jobs that add jobs, and the stop: NetworkOPs
joins its counter, the queue waits until it is quiet, the threads are destroyed.
The refinement mapping to `JobPool` takes as executing the jobs of the threads
between getNextJob and finishJob.

**PathRequests.** A request is named by the coroutine that made it. A search may
find the ledger incomplete (`MissingNodes`). That the command is refused while
the validated ledger is old (`CasinocoinPathFind.cpp:55`) is one of the ways
`findPath` may return at once, whatever the ledger. The
decrement of `mPathFindThread` without the lock is a read and a write that may
interleave with others.

## 3. Runs

| run | shows | distinct states |
| --- | --- | --- |
| `disputes` | two peers, two transactions, one round: disputes, votes, sets and positions stay consistent in every order of events | 123,367 |
| `ledgers` | two rounds, two ledgers, one peer: restarts are clean, a node on the wrong ledger knows it, the accepted state is frozen, a node that left does not return, and the nested calls return | 259,286 |
| `disputed_tx` | counters follow the votes; we move only to a vote some peer holds | 486 |
| `close_time` | three peers, three ledgers: the vote is what the loop computes; an accepted close time has a majority from three participants on; the ledger's time is the agreed one or next to it; close times increase | 86,639 |
| `time_keeper` | three peers whose reports agree with our clock or do not, any of them lost: our close time stays within the reports, and once they stay within a second of our clock the offset returns to zero | 16,523 |
| `validations` | two validators, a change of key, expiry, threads that get the lock late: current validations are counted in their sets; none is lost before it is written; flush returns | 453,924 |
| `ledger_master` | five ledgers with a fork, a round of consensus: the valid ledger moves forward along one chain, and no ledger with a quorum is passed over when the round is over | 1,429,736 |
| `ledger_publish` | the same ledgers, with acquisitions that fail, are swept or come late and exceptions: clients get ledgers in order, no call of tryAdvance is lost | 713,736 |
| `ledger_save` | one writer per sequence, tables that agree through a crash, no lost entry, no flag without a save behind it, every call returns | 177,951 |
| `job_queue` | two threads, timer, coroutine, stop: no wakeup is lost, `JobPool` is implemented, every job runs, the stop completes | 114,623 |
| `path_requests` | a coroutine, up to two searching jobs, new ledgers, a stop: posted once per yield, resumed, and the racing thread count never blocks the dispatch | 232,369 |

One run shows that the code does not do what a comment of its own says
(`findings` in `PROJECT.json` quotes it): in `coro_stop`, when the daemon stops,
`updateAll` leaves its loop, and nobody posts a coroutine that waits for paths.
Its session stays open and the stop waits for it. In the behaviour that TLC
prints the stop comes before the request, so `updatePaths` leaves even earlier.

Further configurations stop at a counterexample. They document where a sentence
of a comment or an assert is stronger than the code:

- `MCConsensusWrongMode`: the preferred ledger changes to one that cannot be had
  and back; `handleWrongLedger` returns without resetting `mode_`, so the node
  stays in mode wrongLedger on the right ledger for the rest of the round.
- `MCConsensusVotes`: we move to a set a peer already proposes but that was not
  acquired; the peer's votes are not brought up to date.
- `MCConsensusAssert`: after a bow-out our set follows the votes without going
  into `acquired_`, and `gotTxSet` may deliver that very set.
- `MCCloseTimeAgreed`: `effCloseTime` is not idempotent. With resolution 30 and a
  prior ledger at 104 the effective time 105 of a clock reading 104 becomes 120
  when it is adopted and rounded again. `BuiltNearAgreed` is what does hold.
- `MCLedgerSaveFinished`, `MCLedgerSaveAborted`: a synchronous save reports
  success while nothing is written yet. `FlagIsKept` is what does hold: for the
  sequence of the flagged ledger a row or an entry remains, perhaps that of a
  competing ledger.
- `MCWorkers`: when the number of threads is lowered while tasks are pending, a
  unit of the semaphore meant for a pause may lead to a second processTask. The
  daemon sets the number once at the start and to zero when the queue is quiet.

**Bounds.** `disputes` has two peers and two transactions: a dispute needs two
sets, and a vote that outlives its voter needs a second voter to show. `ledgers`
has two ledgers and `MaxViews` changes between them, enough for "away and back"
twice, and two rounds, so that state of the first could leak into the second.
`RoundTimes` is 2 s and 290 s in `disputes`: past `LEDGER_MIN_CONSENSUS`, early
and late in the avalanche, since the first round counts with a previous round of
300 s. It is 1 s and 2 s, the two sides of `LEDGER_MIN_CONSENSUS`, in the others.
The remaining thresholds of the avalanche are in `disputed_tx`, with five peers.
`MaxStored` is 2 where the code keeps 10, so that the oldest position is pushed
out. The clock readings 104 and 106 of `CloseTime` fall on two sides of
multiples of several resolutions, and `LedgersAtEnds` starts at both ends of the
table. The reports of `time_keeper`, from seven seconds
before our clock to six after it, cross both thresholds of adjustCloseTime, and
its rounds are not bounded. In `validations` a validation is current for three of
four instants, so it may be early, current or expired; the messages have a change
of key between two validations for one sequence, and two threads may wait for the
lock, so that one checked under the old key is added under the new one. In the
two runs of `LedgerMaster`, `MaxGap` is 2 where the code has 100, so that both the
normal path and the skip happen, and the quorum is two of three. `ledger_master`
has a round and no failures, `ledger_publish` two failures and no round; with both
the instance is too large. `ledger_save` has two ledgers of one sequence, so writers
compete and overwrite. `job_queue` has two threads, a type with limit 1, so that
a job is deferred, and one without a limit that is reached; `path_requests` has a
pool of two, the number of path threads the code allows. `MaxSeq`, `MaxReceived`,
`MaxRounds`, `MaxLedgers`, `MaxCalls`, `MaxCrashes`, `MaxJobs`, `MaxTime`,
`MaxLedger` and `MaxFailures` only cut behaviours short; no guard of the code is
replaced by one, but for the last ledger of `path_requests` (see Fairness). Some
cases are left to the proofs: `disputes` has no change of the preferred ledger,
so `OurSetIsAcquired` of a node that bowed out is the theorem
OurSetAlwaysAcquired; `ledgers` has one peer and one proposal, so for
`PositionsAreCurrent` dead peers and the order of a replay are covered by
PositionsAlwaysCurrent. `MCConsensusVotes` and `MCConsensusAssert` use a state constraint
to reach their behaviour quickly; no run has one. Symmetry is used only in
runs without liveness. `CHECK_DEADLOCK FALSE` is set where a behaviour that has used
up its bounds stops; in `disputed_tx`, `time_keeper` and `job_queue` deadlock is
checked.

**Fairness.**

- `ledgers`: weak fairness of the steps of a call in progress. The thread that
  holds `lock_` goes on, and none of the calls blocks. `CallsReturn` holds because
  the preferred ledger changes a bounded number of times; a preference that flaps
  for ever inside one call would not let it return.
- `ledger_save`: weak fairness of each thread inside a call, and strong fairness
  of running a queued save job: the threads may be busy with other calls in
  between, and `JobQueue.h` promises that a job posted will always run. A waiter
  could starve if others started saves of the same sequence for ever; `MaxCalls`
  excludes that.
- `job_queue`: every thread keeps running, jobs end, the event a coroutine waits
  for happens, and the main thread goes on with a stop it began. Nobody has to
  add a job or to stop. `MaxJobs` excludes that a job starves behind jobs of a
  higher priority that keep coming. `StopCompletes` holds on the condition
  that a coroutine which yielded is posted (the contract in `JobQueue.h`);
  `coro_stop` shows that the path command does not keep it on a stop.
- `path_requests`: jobs begin and run, the network validates ledgers, and the main
  thread goes on with a stop. `WaitingResumed` leaves out a request whose search
  threw, and a stop. The last ledger that `MaxLedger` allows is not too old and is
  validated when no thread is about to leave: guards that stand for the next
  ledger of a network that goes on, and come from the bound, not from the code.
- `validations`: the write job runs, and flush polls every 100 ms.
- `time_keeper`: the timer closes and ends rounds and the next one starts (weak
  fairness), and those of a node that is with the network do not all fail (strong
  fairness of doAccept). What it hears is left open. `OffsetSettles` has as its
  condition that from some time on the node stays with the network and the
  reports that reach it are within a second of its clock; when peers go on
  reporting times farther away, the offset need not settle.

## 4. Proofs

| module | theorems |
| --- | --- |
| `ConsensusProofs` | TypeCorrect, AssertsHold, VotesMatchSetAlways, DifferencesAlwaysDisputed, VotersAlwaysHavePositions, PositionsAlwaysCurrent, OurSetAlwaysAcquired, WrongLedgerAlwaysKnown, AcceptedStateIsFrozen, NeverReturnsBeforeNextRound |
| `VoteProofs` | of `CloseTime`: CloseTimesAlwaysIncrease, ResolutionAlwaysABin, AgreedAlwaysMeansMajority, AlwaysBuiltNearAgreed, VoteAlwaysMatchesLoop; of `DisputedTx`: CountersAlwaysMatchVotes, VoteFollowsSomebody; of `TimeKeeper`: AdjustStaysBetween, OffsetShrinks, EstimateFollowed, OffsetAlwaysWithinReports, OffsetAlwaysApproaches |
| `StoreProofs` | of `LedgerSave`: OneWriterAlways, RowsAgreeAlways, ScheduledAlwaysHasOwner, FlagAlwaysKept, TypeAlways; of `Validations`: ValidationsAlwaysKept, StaleAlwaysBeingWritten, CurrentAlwaysCounted |
| `LedgerMasterProofs` | AlwaysSentInOrder, AdvanceNeverLost, ValidatedAlwaysForward, SavedValidationsAlwaysChecked |
| `JobQueueProofs` | JobQueueImplementsPool, NoCountedJobEverAfterJoin |
| `JobQueueUnitProofs` | UnitForEachJobAlways |
| `PathRequestsJobProofs` | lemmas: the inductive invariant of `PathRequests`, and its half about the jobs |
| `PathRequestsProofs` | PostedOnce, SuspendedAlwaysCounted, PathFindAlwaysRestarts, PathTypeAlways |

They hold for any constants that satisfy the named assumptions next to them: any
finite set of peers, any transactions, ledgers, clock readings and bounds; any
number of threads, job types, limits and coroutines; any close times that peers
report; any validations that validators sign; any tree of ledgers whose quorums
are on one chain and meet. Every invariant and every action property of the
passing runs is among the theorems. A leaf of a proof that names no prover is
tried with SMT, then with Zenon, then with SMT and more time (`USE` at the head
of each module).

*Consensus.* The inductive invariant `IInv` adds to the properties what relates
the stack of calls to the round: only a replay of proposals comes before an
`acquire` on the stack (`AcquireFirst`), a prior ledger other than the preferred one is either in
mode wrongLedger or has an `acquire` pending (`WrongLedgerPending`), an accepted
round has no `acquire` pending (`AcceptedIsSettled`), a node
that bowed out is not proposing (`BowedOutIsSilent`), and without a position
there are no disputes (`NoStanceNoDisputes`). The three dispute properties are
proved together as `DisputesOK`: that differences are disputed survives a change
of our set only because our votes match the set, and a new dispute starts with
our vote taken from the set. There is one step lemma per action.

*DisputedTx.* `TypeOK /\ CountersMatchVotes` is inductive. `VoteFollowsSomebody`
needs it: a counter that is not zero has a voter behind it.

*CloseTime.* `TypeOK` is inductive once `getNextLedgerTimeResolution` is known
to stay in the table; that close times increase follows from `effCloseTime`. The
majority rests on an arithmetic lemma about the rounded 75%. For
`VoteAlwaysMatchesLoop`, `Won` says what the loop should leave after some of the
times: nothing when none has enough votes, else the latest of those with the
most. It determines what is left (`WonOnce`), and an iteration with a later time
keeps it (`WonStep`); so the recursion of the loop has a solution, and every
solution is that.

*TimeKeeper.* Three theorems are about `adjustCloseTime` for every offset and every
estimate: the new close time is between the old one, the estimate and the clock;
an offset that is let go shrinks until it is zero; an estimate beyond one second
is followed. OffsetAlwaysWithinReports needs in addition that the average of any
set of close times is between the least and the greatest of them (`SumBetween`,
`QuotientBetween`), and that our own close time of the round is still the offset
when doAccept adjusts it (`KeeperInv`), so that the estimate leads to a time
within the reports (`EstimateWithin`). OffsetAlwaysApproaches is the safety part
of `OffsetSettles`.

*Validations.* The invariant `StoreInv` says that the current validation of a
validator is in the set of its ledger (`CurrentStored`), and that the write job is
there while anything waits for it (`StaleBeingWritten`). The first holds however
late a thread gets the lock: what addValidation erases is the validation it has
just replaced, in the set of another ledger, since with one of the validator in
the set nothing is inserted.

*LedgerMaster.* checkAccept does not ask whether a ledger descends from the valid
one; it relies on the trusted validators, and `QuorumsAgree` states what it relies
on: ledgers with a quorum are on one chain. A chain is defined as the least set of
ledgers that has the parents of its own, so that facts about chains (one ledger
for each sequence, none missing between two) are proved without recursion. The
invariant says that the published ledger is on the chain of the valid one
(`OnChain`), that what the job is about to publish follows the published ledger
and stays on the chain when the valid ledger moves on (`JobOnChain`), that the
published ledger is the last one sent, or one on which pubLedger threw, except
where a gap is skipped (`LastSent`), and that a job without new work has seen the
valid ledger and awaits what it did not find, unless an exception cut it short
(`JobIsFresh`); `NoLostAdvance` is the last of these when the job has ended.

`SavedValidationsChecked` has an invariant of its own (`SavedInv`): a ledger that
we have, after the valid one, with a quorum of the current validations is the
subject of a pending checkAccept, or of the sequence that is being built or whose
round is ending, or of one that was abandoned (`LookedAfter`). consensusBuilt asks
for more than a quorum and may pass such a ledger over. Then `endConsensus`
finds it: as it has the sequence we built it has no slips, so a quorum counts
for it, a ledger with as many would share a validator with it (`QuorumsMeet`), and
so it alone is preferred (`PrefersOverlooked`). By `QuorumsAgree` and what
mLastValidLedger can be (`LastValidInv`) it is compatible, and checkAccept takes
it. A round left for another ledger calls neither, so the property excepts its
sequence until a later round builds it. The run has one round, to stay small;
the theorem has any number.

*LedgerSave.* The properties are inductive together with `RowPhases`: a thread
that has deleted the row of its sequence and not yet inserted the new one finds
no row there, and one about to insert finds its own transactions. `RowsAgree`
needs it, and it needs `OneWriter`. `FlagIsKept` needs `FinishLeaves`: a thread
about to erase the pending entry has written the row or reported a failure.

*JobQueue.* Each step of the queue and of its threads is a step of `JobPool` or
leaves its variables alone. The invariant says that every busy thread has a job
of its own (`OwnJobs`), that the counts the code keeps are the numbers of such
jobs (`CountsMatch`), that the counter of NetworkOPs counts its jobs and the
wrapper in the timer (`CounterMatches`), and what each place of the main thread
implies for the others (`StopOrder`, `StoppedIsQuiet`). The limits of `JobPool`
follow from `CountsMatch`, and that addJob is never called on a stopped queue
from `StopOrder`. `UnitForEachJob` needs what finishJob relies on: a type has
deferred jobs only while its other queued jobs and its running ones reach its
limit (`Deferrals`). So the job a thread takes is never one of the deferred, and
the unit it used was that of a job that is due. `PauseLater` says that no unit is
used up as a pause before the threads are told to pause for good.

*PathRequests.* The invariant `PathInv` has six parts. Jobs have indices of their
own and are where jobs of their kind are (`JobsInv`), and there are no more of
them than the posts, requests, answers and ledgers that add one (`CountInv`), so
the bound on the indices is never met. At most one job is in a coroutine and at
most one is there to resume it, which exclude each other except between the call
of newPathRequest and the switch in yield; while the completion is to be called
none is there to resume it (`CoroInv`). `nSuspend` is the number of coroutines
that have said they suspend less those whose resuming job has said so, which may
be the earlier of the two (`SuspendInv`). When `mPathFindThread` is 2 while the
daemon runs, some job has not read it yet or has read 2, so that a lower value
will be written (`ThreadInv`): a lost update of the unlocked decrement leaves the
count too low, never too high for good.

What a recursive function computes (the loop of the vote, the sum of the close
times, `Erase`) is proved from a least counterexample: the proper subsets of a
finite set, and the numbers, are well-founded (`SubsetsByInduction`,
`PrefixesByInduction`), and that the recursion has a solution is a lemma each time.

Only model-checked: the liveness properties `CallsReturn` of `Consensus` and of
`LedgerSave`, `OffsetSettles`, `JobsRun`, `StopCompletes`, `WaitingResumed`,
`FlushReturns` and `StaleIsWritten`, since TLAPS does not prove liveness here; of
the last, StaleAlwaysBeingWritten is the safety part. `Workers` has no theorem of its own; `JobQueueProofs` and
`JobQueueUnitProofs` are about its threads as the queue uses them.

## 5. Observations

What the models brought up that no comment of the code speaks against:

- Two unexpired validations of one validator for one sequence can both be in the
  sets: with the old key for one ledger, with the new key for another, when a
  validation of the new key for a later sequence is added between them, or when a
  thread that checked the one under the old key gets the lock last. The code
  removes only the *current* validation under another key. What holds is
  `CurrentIsCounted`.
- consensusBuilt looks for ledgers with `> neededValidations` where checkAccept
  asks for `>=`. A ledger with exactly a quorum that it passes over is found by
  checkLastClosedLedger at the end of the same round (`SavedValidationsChecked`).
- A validated ledger is published only at the next call of tryAdvance when its
  acquisition failed, or was swept while it was at work, or when an exception
  ended the advance job: `NoLostAdvance` excepts these. advanceThread clears
  mAdvanceThread after an exception and does not look at mAdvanceWork.
- A ledger on which NetworkOPs::pubLedger throws is already mPubLedger and is not
  sent again: `SentInOrder` excepts it.
- A search for paths that throws SHAMapMissingNode leaves `mInProgress` set, and
  its coroutine waits for ever (`Abandoned`).
- `mLastIndex` of a path request is never assigned.
- A ledger published while both path threads leave on a ledger that is too old is
  not searched before the next one.
- `--mPathFindThread` without the lock may lose an update; `PathFindRestarts`
  shows that this never keeps a job from being started.
- The comments on VALIDATION_VALID_WALL, EARLY and LOCAL in
  `consensus/LedgerTiming.h` do not describe the comparisons `current()` makes.

## 6. Not modelled

Within the modelled parts: `Consensus::simulate` and `getJson`; the value of
`result_->state` (Yes or MovedOn) in an accepted round; applying transactions in
doAccept; `tryFill`, fetch packs, `fixMismatch` and held transactions of
LedgerMaster; requests, replies and timeouts inside one acquisition; expiry of
transaction sets; load monitoring and rendezvous of the job queue; path requests
of subscribers; the fees and percentages computed from validations.

Hazards without a property: the exact threshold of `checkConsensusReached`, which
matters for agreement between nodes and not within one; `beginConsensus` that does
not start a round when the parent ledger is missing; the request given up after
SHAMapMissingNode; the expiry of sets in `InboundTransactions::newRound`.

Whole parts, with the reason for each in `PROJECT.json`: cryptography,
serialization, sockets and RPC are I/O or pure computation without interleaving;
the transaction engine, payment paths, ledger views and SHAMap have data domains
out of TLC's reach, and the models use their values; amendments, fee voting and
the transaction queue are sequential code under one lock.

Most of the source tree is not casinocoind: sqlite, protobuf, rocksdb, beast,
soci, secp256k1 and other libraries are vendored in it and are by far the larger
part of its lines. They are not modelled; the models meet them as a database that
commits transactions, a clock, or a lock. Of casinocoind itself the models cover
the concurrent core, a small share of its lines.

## 7. Possible extensions

1. A network of nodes that run `Consensus` with lost and reordered proposals, and
   what their decisions have in common.
2. `Consensus` with the preferred ledger taken from `Validations` instead of a
   choice.
3. Online deletion with crashes between the steps of a rotation; the reference
   counts of the resource manager; the slot counts of the peer finder.

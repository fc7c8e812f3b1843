---------------------------- MODULE LedgerMaster ----------------------------
(***************************************************************************)
(* Which ledger is the last fully validated one, and which ledgers go to   *)
(* the clients (app/ledger/impl/LedgerMaster.cpp), composed with the       *)
(* acquisition of ledgers from peers and with the rounds of consensus.     *)
(* Of the store of validations (module Validations) it keeps what it asks  *)
(* of it: which validations of trusted validators have arrived, and the    *)
(* newest of each validator; none expires and no key changes.              *)
(*                                                                         *)
(* Validations arrive on job queue threads, in any order, some twice and   *)
(* some never; each current one starts a checkAccept call of its own.  The *)
(* consensus thread builds ledgers (onClose ... consensusBuilt) and        *)
(* switches to the network's last closed ledger.  One advance job at a     *)
(* time publishes.  A step is what the code does under m_mutex, or between *)
(* two reads of what other threads write.                                  *)
(***************************************************************************)
EXTENDS Integers, Sequences, FiniteSets, FiniteSetsExt

CONSTANTS Messages,     \* validations that trusted validators send: [node, ledger]
          Ledgers,      \* ledgers of the network
          NoLedger,
          SeqOf, Parent,   \* functions on Ledgers; NoLedger is the parent of the first
          Quorum,       \* ValidatorList::quorum
          MaxGap,       \* MAX_LEDGER_GAP
          FetchSize,    \* ledger_fetch_size_
          MaxFailures,  \* bound: acquisitions that fail or are swept, and exceptions
          MaxRounds     \* bound: rounds we close

ASSUME LedgersAssumption ==
    /\ NoLedger \notin Ledgers
    /\ SeqOf \in [Ledgers -> Nat \ {0}]
    /\ Parent \in [Ledgers -> Ledgers \cup {NoLedger}]
    /\ \A l \in Ledgers : Parent[l] # NoLedger => SeqOf[l] = SeqOf[Parent[l]] + 1
    /\ Quorum \in Nat \ {0} /\ MaxGap \in Nat \ {0} /\ FetchSize \in Nat \ {0, 1} /\ MaxFailures \in Nat
    /\ \A m \in Messages : m.ledger \in Ledgers
    /\ \A m, k \in Messages :
          m.node = k.node /\ SeqOf[m.ledger] = SeqOf[k.ledger] => m = k

\* The chain of a ledger: the least set with it and with the parents of its own.
HasParents(s) == \A l \in s : Parent[l] # NoLedger => Parent[l] \in s
Chain == [l \in Ledgers |->
            {k \in Ledgers : \A s \in SUBSET Ledgers : l \in s /\ HasParents(s) => k \in s}]

\* A quorum of validators will have validated the ledger.
Validated(l) == Cardinality({m \in Messages : m.ledger = l}) >= Quorum

\* What checkAccept relies on: quorums of the trusted validators, and the
\* ledger we start from, are on one chain.
ASSUME QuorumsAgree ==
    /\ IsFiniteSet(Messages)
    /\ \A l, k \in Ledgers :
          /\ Parent[l] = NoLedger \/ Validated(l)
          /\ Validated(k)
          /\ SeqOf[l] < SeqOf[k]
          => l \in Chain[k]

\* The quorum of ValidatorList is more than half of the listed validators.
ASSUME QuorumsMeet == Cardinality({m.node : m \in Messages}) < 2 * Quorum

VARIABLES
    arrived,        \* Validations: the validations in its sets
    validLedger,    \* mValidLedger, mValidLedgerSeq
    lastValid,      \* mLastValidLedger: it has a quorum, we may not have it
    pubLedger,      \* mPubLedger, mPubLedgerSeq
    buildingSeq,    \* mBuildingLedgerSeq
    have,           \* ledgers of mLedgerHistory and complete InboundLedgers
    complete,       \* mCompleteLedgers
    acquiring,      \* InboundLedgers at work
    failed,         \* InboundLedgers that gave up and are not swept yet
    swept,          \* history: ledgers swept incomplete and not acquired again since
    failures,       \* how many gave up, were swept at work, or threw
    checks,         \* checkAccept calls under way: [ledger, at]
    rounds,         \* how many rounds have closed
    builder,        \* the consensus thread: [at, ledger], ledger the one before or built
    abandoned,      \* history: sequences of rounds that were left and not built since
    advanceWork,    \* mAdvanceWork
    advance,        \* the advance job: [at, valid, ledgers]; "none": no mAdvanceThread
    thrown,         \* history: an exception cut the advance job's last pass short
    sent,           \* ledgers given to NetworkOPs::pubLedger
    unsent          \* history: published ledgers on which NetworkOPs::pubLedger threw

acceptVars == <<validLedger, lastValid>>
inboundVars == <<have, acquiring, failed, swept, failures>>
publishVars == <<complete, thrown, sent, unsent>>
advanceVars == <<advanceWork, advance>>
buildVars == <<buildingSeq, builder, rounds, abandoned>>
masterVars == <<acceptVars, pubLedger, inboundVars, publishVars, advanceVars, buildVars, checks>>
vars == <<arrived, masterVars>>

Seq0(l) == IF l = NoLedger THEN 0 ELSE SeqOf[l]
validSeq == Seq0(validLedger)
pubSeq == Seq0(pubLedger)

NoAdvance == [at |-> "none", valid |-> NoLedger, ledgers |-> <<>>]

\* A server in sync on the first ledger, or one that has just loaded it.
Init ==
    /\ arrived = {}
    /\ \E first \in {l \in Ledgers : Parent[l] = NoLedger} :
         /\ validLedger \in {first, NoLedger}
         /\ builder = [at |-> "open", ledger |-> first]
         /\ have = {first}
         /\ complete = {SeqOf[first]}
    /\ lastValid = validLedger
    /\ pubLedger = validLedger
    /\ buildingSeq = 0
    /\ acquiring = {} /\ failed = {} /\ swept = {} /\ failures = 0
    /\ checks = {}
    /\ rounds = 0 /\ abandoned = {}
    /\ advanceWork = FALSE
    /\ advance = NoAdvance
    /\ thrown = FALSE
    /\ sent = <<>> /\ unsent = {}

-----------------------------------------------------------------------------
(* What it asks of Validations *)

getTrustedValidationCount(l) == Cardinality({m \in arrived : m.ledger = l})

\* getCurrentTrustedValidations: the newest of each validator.
newer(m) == {k \in arrived : k.node = m.node /\ SeqOf[k.ledger] > SeqOf[m.ledger]}
currentTrusted == {m \in arrived : newer(m) = {}}

-----------------------------------------------------------------------------
(* What several handlers call *)

\* hashOfSeq: the ledger of that sequence on the chain of l.
hashOfSeq(l, seq) == CHOOSE k \in Chain[l] : SeqOf[k] = seq

\* areCompatible: one of the two is on the chain of the other; that of
\* mLastValidLedger, which we may not have, only looks at ledgers after it.
isCompatible(l) ==
    /\ validLedger # NoLedger => validLedger \in Chain[l] \/ l \in Chain[validLedger]
    /\ lastValid # NoLedger /\ SeqOf[l] >= SeqOf[lastValid] => lastValid \in Chain[l]

\* tryAdvance, after the valid ledger became valid.
tryAdvance(valid) ==
    /\ advanceWork' = TRUE
    /\ advance' = IF advance.at = "none" /\ valid # NoLedger
                    THEN [NoAdvance EXCEPT !.at = "find"] ELSE advance

\* InboundLedgers::acquire of ledgers that are not complete.
\* A failed one is not tried again before it is swept.
acquire(ls) ==
    LET new == ls \ (have \cup failed) IN
    /\ acquiring' = acquiring \cup new
    /\ swept' = swept \ new

\* Mutant: the sequence is not looked at again under m_mutex.
checkAcceptUnordered(l) ==
    IF getTrustedValidationCount(l) < Quorum
      THEN UNCHANGED <<validLedger, pubLedger, advanceVars>>
      ELSE /\ validLedger' = l
           /\ pubLedger' = IF pubLedger = NoLedger THEN l ELSE pubLedger
           /\ tryAdvance(l)

\* checkAccept(ledger), under m_mutex.
checkAccept(l) ==
    IF Seq0(l) <= validSeq \/ getTrustedValidationCount(l) < Quorum
      THEN UNCHANGED <<validLedger, pubLedger, advanceVars>>
      ELSE /\ validLedger' = l
           /\ pubLedger' = IF pubLedger = NoLedger THEN l ELSE pubLedger
           /\ tryAdvance(l)

startCheck(l) == checks' = checks \cup {[ledger |-> l, at |-> "count"]}
endCheck(c) == checks' = checks \ {c}
moveCheck(c, at) == checks' = (checks \ {c}) \cup {[c EXCEPT !.at = at]}

-----------------------------------------------------------------------------
(* A validation arrives; only the newest of its validator starts a check *)

addValidation(m) ==
    /\ m \notin arrived
    /\ arrived' = arrived \cup {m}
    /\ IF newer(m) = {} THEN startCheck(m.ledger) ELSE UNCHANGED checks
    /\ UNCHANGED <<acceptVars, pubLedger, inboundVars, publishVars, advanceVars, buildVars>>

-----------------------------------------------------------------------------
(* checkAccept(hash, seq) *)

\* What it does before it takes m_mutex to accept: the ledger could be the
\* one we are building; if we do not have it, it is fetched.
countValidations(c) ==
    LET seq == SeqOf[c.ledger] IN
    /\ c.at = "count"
    /\ lastValid' = IF /\ seq >= validSeq
                      /\ getTrustedValidationCount(c.ledger) >= Quorum
                      /\ seq > Seq0(lastValid)
                     THEN c.ledger ELSE lastValid
    /\ IF seq <= validSeq \/ seq = buildingSeq
         THEN endCheck(c) /\ UNCHANGED <<acquiring, swept>>
         ELSE /\ acquire({c.ledger})
              /\ IF c.ledger \in have THEN moveCheck(c, "accept") ELSE endCheck(c)
    /\ UNCHANGED <<arrived, validLedger, pubLedger, have, failed, failures, publishVars,
                   advanceVars, buildVars>>

acceptLedger(c) ==
    /\ c.at = "accept"
    /\ checkAccept(c.ledger)
    /\ endCheck(c)
    /\ UNCHANGED <<arrived, lastValid, inboundVars, publishVars, buildVars>>

\* The job of InboundLedger::done: checkAccept, and tryAdvance in any case.
acquisitionDone(c) ==
    LET accepted == ~(SeqOf[c.ledger] <= validSeq \/ getTrustedValidationCount(c.ledger) < Quorum)
    IN
    /\ c.at = "acquired"
    /\ IF accepted THEN checkAccept(c.ledger)
         ELSE tryAdvance(validLedger) /\ UNCHANGED <<validLedger, pubLedger>>
    /\ endCheck(c)
    /\ UNCHANGED <<arrived, lastValid, inboundVars, publishVars, buildVars>>

checkStep(c) == countValidations(c) \/ acceptLedger(c) \/ acquisitionDone(c)

-----------------------------------------------------------------------------
(* InboundLedger: external but for what it reports *)

acquired(l) ==
    /\ l \in acquiring
    /\ acquiring' = acquiring \ {l}
    /\ have' = have \cup {l}
    /\ checks' = checks \cup {[ledger |-> l, at |-> "acquired"]}
    /\ UNCHANGED <<arrived, acceptVars, pubLedger, failed, swept, failures, publishVars,
                   advanceVars, buildVars>>

acquireFails(l) ==
    /\ l \in acquiring /\ failures < MaxFailures
    /\ acquiring' = acquiring \ {l}
    /\ failed' = failed \cup {l}
    /\ failures' = failures + 1
    /\ UNCHANGED <<arrived, acceptVars, pubLedger, have, swept, publishVars, advanceVars,
                   buildVars, checks>>

\* InboundLedgers::sweep erases what nobody asked for in the last minute,
\* failed or still at work; one at work reports nothing.
sweep(l) ==
    /\ \/ l \in failed /\ UNCHANGED failures
       \/ l \in acquiring /\ failures < MaxFailures /\ failures' = failures + 1
    /\ failed' = failed \ {l}
    /\ acquiring' = acquiring \ {l}
    /\ swept' = swept \cup {l}
    /\ UNCHANGED <<arrived, acceptVars, pubLedger, have, publishVars, advanceVars,
                   buildVars, checks>>

-----------------------------------------------------------------------------
(* The consensus thread *)

onClose ==
    /\ builder.at \in {"open", "reopened"} /\ rounds < MaxRounds
    /\ \E l \in Ledgers : Parent[l] = builder.ledger
    /\ rounds' = rounds + 1
    /\ buildingSeq' = SeqOf[builder.ledger] + 1
    /\ builder' = [builder EXCEPT !.at = "building"]
    /\ UNCHANGED <<arrived, acceptVars, pubLedger, inboundVars, publishVars,
                   advanceVars, abandoned, checks>>

\* getCurrentValidations: ledgers of the unexpired validations from the cutoff on.
networkLedgers ==
    {m.ledger : m \in {k \in currentTrusted : SeqOf[k.ledger] >= validSeq}}

\* getPrevLedger and acquireLedger: the round starts again from l, and what
\* it was building is left in mBuildingLedgerSeq.
handleWrongLedger(l) ==
    /\ builder.at \in {"open", "reopened", "building"}
    /\ l \in networkLedgers \ {builder.ledger}
    /\ acquire({l})
    /\ IF l \in have
         THEN /\ builder' = [at |-> "reopened", ledger |-> l]
              /\ abandoned' = abandoned \cup ({buildingSeq} \ {0})
         ELSE UNCHANGED <<builder, abandoned>>
    /\ UNCHANGED <<arrived, acceptVars, pubLedger, have, failed,
                   failures, publishVars, advanceVars, buildingSeq, rounds, checks>>

\* consensusBuilt up to its call of checkAccept.
consensusBuilt(l) ==
    /\ builder.at = "building"
    /\ Parent[l] = builder.ledger
    /\ buildingSeq' = 0
    /\ abandoned' = abandoned \ {SeqOf[l]}
    /\ have' = have \cup {l}
    /\ builder' = [at |-> IF SeqOf[l] <= validSeq THEN "switch" ELSE "check", ledger |-> l]
    /\ UNCHANGED <<arrived, acceptVars, pubLedger, acquiring, failed, swept, failures,
                   publishVars, advanceVars, rounds, checks>>

checkBuilt ==
    /\ builder.at = "check"
    /\ checkAccept(builder.ledger)
    /\ builder' = [builder EXCEPT !.at = "collect"]
    /\ UNCHANGED <<arrived, lastValid, inboundVars, publishVars, buildingSeq,
                   rounds, abandoned, checks>>

\* The validations saved for other ledgers: valCount_ > neededValidations.
sufficient ==
    {l \in Ledgers :
        Cardinality({m \in currentTrusted : m.ledger = l}) > Quorum}

\* Its checkAccept(hash, seq) becomes a call like those of addValidation.
checkSaved ==
    LET better == {l \in sufficient : SeqOf[l] > validSeq} IN
    /\ builder.at = "collect"
    /\ IF SeqOf[builder.ledger] <= validSeq
            \/ better = {}
         THEN UNCHANGED checks
         ELSE \E l \in better : /\ \A k \in better : SeqOf[l] >= SeqOf[k]
                                /\ startCheck(l)
    /\ builder' = [builder EXCEPT !.at = "switch"]
    /\ UNCHANGED <<arrived, acceptVars, pubLedger, inboundVars,
                   publishVars, advanceVars, buildingSeq, rounds, abandoned>>

switchLCL ==
    /\ builder.at = "switch"
    /\ checkAccept(builder.ledger)
    /\ builder' = [builder EXCEPT !.at = "ended"]
    /\ UNCHANGED <<arrived, lastValid, inboundVars, publishVars, buildingSeq, rounds,
                   abandoned, checks>>

\* getCurrentValidations: a validation for the parent of our closed ledger
\* counts for ours, and so does one that replaced a validation for ours.
\* Which of two validations came first is not kept: slips are those that
\* replaced one.
maySlip == {m \in currentTrusted : \E k \in arrived : k.node = m.node /\ k.ledger = builder.ledger}
countsFor(m, slips) ==
    IF m \in slips \/ m.ledger = Parent[builder.ledger] THEN builder.ledger ELSE m.ledger
trustedValidations(l, slips) ==
    Cardinality({m \in currentTrusted : SeqOf[m.ledger] >= validSeq /\ countsFor(m, slips) = l})

\* ValidationCount: most validations; of as many, or without any, the node
\* identities of validators or of peers on it decide.
preferredLedgers(slips) ==
    LET votes == [l \in Ledgers |-> trustedValidations(l, slips)] IN
    {l \in Ledgers : \A k \in Ledgers : votes[k] <= votes[l]}

\* Mutant: the ledger we jump to is not checked.
switchLastClosedLedgerUnchecked(l) ==
    /\ UNCHANGED <<validLedger, pubLedger, advanceVars>>
    /\ builder' = [at |-> "open", ledger |-> l]

\* Its LedgerMaster::switchLCL, and the next round on l.
switchLastClosedLedger(l) ==
    /\ checkAccept(l)
    /\ builder' = [at |-> "open", ledger |-> l]

\* endConsensus, after every round: checkLastClosedLedger switches to the
\* preferred ledger, unless it is our own previous one, if we have it and it
\* is compatible, and the next round begins.
checkLastClosedLedger(l) ==
    LET switch == l \notin {builder.ledger, Parent[builder.ledger]} IN
    /\ IF switch THEN acquire({l}) ELSE UNCHANGED <<acquiring, swept>>
    /\ IF switch /\ l \in have /\ isCompatible(l)
         THEN switchLastClosedLedger(l)
         ELSE /\ builder' = [builder EXCEPT !.at = "open"]
              /\ UNCHANGED <<validLedger, pubLedger, advanceVars>>

endConsensus ==
    /\ builder.at = "ended"
    /\ \E slips \in SUBSET maySlip :
         \E l \in preferredLedgers(slips) : checkLastClosedLedger(l)
    /\ UNCHANGED <<arrived, lastValid, have, failed, failures,
                   publishVars, buildingSeq, rounds, abandoned, checks>>

builtStep == checkBuilt \/ checkSaved \/ switchLCL \/ endConsensus

-----------------------------------------------------------------------------
(* The advance job: doAdvance *)

\* Mutant: a gap one shorter is skipped.
findNewLedgersToPublishSkips ==
    /\ advance.at = "find"
    /\ advanceWork' = FALSE
    /\ IF validSeq >= pubSeq + MaxGap
         THEN /\ pubLedger' = validLedger
              /\ advance' = [NoAdvance EXCEPT !.at = "publish", !.ledgers = <<validLedger>>]
         ELSE /\ UNCHANGED pubLedger
              /\ advance' = IF validSeq <= pubSeq
                              THEN [NoAdvance EXCEPT !.at = "history"]
                              ELSE [NoAdvance EXCEPT !.at = "fetch", !.valid = validLedger]
    /\ thrown' = FALSE
    /\ UNCHANGED <<arrived, acceptVars, inboundVars, complete, sent, unsent, buildVars, checks>>

\* What doAdvance decides under m_mutex: after a gap, go on from the valid
\* ledger; nothing new, look at history; else look for what is between.
findNewLedgersToPublish ==
    /\ advance.at = "find"
    /\ advanceWork' = FALSE
    /\ IF validSeq > pubSeq + MaxGap
         THEN /\ pubLedger' = validLedger
              /\ advance' = [NoAdvance EXCEPT !.at = "publish", !.ledgers = <<validLedger>>]
         ELSE /\ UNCHANGED pubLedger
              /\ advance' = IF validSeq <= pubSeq
                              THEN [NoAdvance EXCEPT !.at = "history"]
                              ELSE [NoAdvance EXCEPT !.at = "fetch", !.valid = validLedger]
    /\ thrown' = FALSE
    /\ UNCHANGED <<arrived, acceptVars, inboundVars, complete, sent, unsent, buildVars, checks>>

\* Its unlocked loop: the ledgers up to the valid one, as far as we have
\* them; of the others, FetchSize - 1 are acquired.  When looking for one
\* throws, the loop ends before it and what it has found is published.
fetchLedgers ==
    LET valid == advance.valid IN
    /\ advance.at = "fetch"
    /\ \E end \in pubSeq .. SeqOf[valid] :
         LET seqs == pubSeq + 1 .. end
             ready == {s \in seqs : \A k \in pubSeq + 1 .. s : hashOfSeq(valid, k) \in have}
             missing == {s \in seqs : hashOfSeq(valid, s) \notin have}
             first == {s \in missing : Cardinality({k \in missing : k < s}) < FetchSize - 1}
         IN
         /\ \/ end = SeqOf[valid] /\ UNCHANGED <<thrown, failures>>
            \/ /\ end < SeqOf[valid] - 1 /\ failures < MaxFailures
               /\ thrown' = TRUE /\ failures' = failures + 1
         /\ acquire({hashOfSeq(valid, s) : s \in first})
         /\ advance' = IF ready = {} THEN [NoAdvance EXCEPT !.at = "history"]
                         ELSE [NoAdvance EXCEPT !.at = "publish",
                                 !.ledgers = [i \in 1 .. Cardinality(ready) |->
                                               hashOfSeq(valid, pubSeq + i)]]
    /\ UNCHANGED <<arrived, acceptVars, pubLedger, have, failed, complete, sent, unsent,
                   advanceWork, buildVars, checks>>

\* setFullLedger, setPubLedger and pubLedger of the next; after the last
\* one, look again.
publishLedger ==
    LET l == Head(advance.ledgers)
        last == Len(advance.ledgers) = 1
    IN
    /\ advance.at = "publish"
    /\ complete' = complete \cup {SeqOf[l]}
    /\ pubLedger' = l
    /\ sent' = Append(sent, l)
    /\ advanceWork' = (advanceWork \/ last)
    /\ advance' = IF last THEN [NoAdvance EXCEPT !.at = "find"]
                    ELSE [advance EXCEPT !.ledgers = Tail(@)]
    /\ UNCHANGED <<arrived, acceptVars, inboundVars, thrown, unsent, buildVars, checks>>

\* Mutant: the job ends whatever came in meanwhile.
loopAdvanceEnds(work) ==
    /\ advanceWork' = work
    /\ advance' = NoAdvance

\* doAdvance looks again when there is work, else mAdvanceThread is cleared.
loopAdvance(work) ==
    /\ advanceWork' = work
    /\ advance' = IF work THEN [NoAdvance EXCEPT !.at = "find"] ELSE NoAdvance

\* Not in sync, too busy, or nothing is missing.
skipHistory ==
    /\ advance.at = "history"
    /\ loopAdvance(advanceWork)
    /\ UNCHANGED <<arrived, acceptVars, pubLedger, inboundVars, publishVars, buildVars,
                   checks>>

\* prevMissing.
missingSeqs == {s \in 1 .. pubSeq - 1 : s \notin complete}

\* A ledger of history that is taken in or fetched.
fetchHistory ==
    LET missing == Max(missingSeqs)
        l == hashOfSeq(pubLedger, missing)
    IN
    /\ advance.at = "history"
    /\ validSeq = pubSeq /\ missingSeqs # {}
    /\ IF l \in have
         THEN /\ complete' = complete \cup {missing}
              /\ loopAdvance(TRUE)
              /\ UNCHANGED <<acquiring, swept>>
         ELSE /\ acquire({hashOfSeq(pubLedger, s) :
                           s \in {k \in 1 .. pubSeq : k \in missing - FetchSize + 1 .. missing}})
              /\ loopAdvance(advanceWork)
              /\ UNCHANGED complete
    /\ UNCHANGED <<arrived, acceptVars, pubLedger, have, failed, failures, thrown, sent,
                   unsent, buildVars, checks>>

\* advanceThread catches what doAdvance throws, and the job ends whatever
\* came in meanwhile: setFullLedger may throw before or after the ledger is
\* complete, and NetworkOPs::pubLedger after it is mPubLedger.
advanceThrows ==
    /\ advance.at \in {"publish", "history"} /\ failures < MaxFailures
    /\ failures' = failures + 1
    /\ thrown' = TRUE
    /\ advance' = NoAdvance
    /\ \/ UNCHANGED <<complete, pubLedger, unsent>>
       \/ /\ advance.at = "history" /\ missingSeqs # {}
          /\ hashOfSeq(pubLedger, Max(missingSeqs)) \in have
          /\ complete' = complete \cup {Max(missingSeqs)}
          /\ UNCHANGED <<pubLedger, unsent>>
       \/ /\ advance.at = "publish"
          /\ complete' = complete \cup {SeqOf[Head(advance.ledgers)]}
          /\ UNCHANGED <<pubLedger, unsent>>
       \/ /\ advance.at = "publish"
          /\ complete' = complete \cup {SeqOf[Head(advance.ledgers)]}
          /\ pubLedger' = Head(advance.ledgers)
          /\ unsent' = unsent \cup {pubLedger'}
    /\ UNCHANGED <<arrived, acceptVars, have, acquiring, failed, swept, sent, advanceWork,
                   buildVars, checks>>

advanceStep == findNewLedgersToPublish \/ fetchLedgers \/ publishLedger
               \/ skipHistory \/ fetchHistory \/ advanceThrows

-----------------------------------------------------------------------------
inboundStep(l) == acquired(l) \/ acquireFails(l)

Next ==
    \/ \E m \in Messages : addValidation(m)
    \/ \E c \in checks : checkStep(c)
    \/ \E l \in Ledgers : inboundStep(l) \/ sweep(l)
    \/ \E l \in Ledgers : handleWrongLedger(l) \/ consensusBuilt(l)
    \/ onClose \/ builtStep
    \/ advanceStep

Spec == Init /\ [][Next]_vars

-----------------------------------------------------------------------------
(* Properties *)

\* Whichever of the threads that call checkAccept comes first, the valid
\* ledger only moves to a descendant of itself that has a quorum.
ValidatedForward ==
    [][validLedger' # validLedger =>
         /\ validLedger # NoLedger => validLedger \in Chain[validLedger'] \ {validLedger'}
         /\ getTrustedValidationCount(validLedger') >= Quorum]_vars

\* pubLedger gives the clients each ledger after its parent, in whatever
\* order they were acquired; only a gap beyond MAX_LEDGER_GAP is skipped, and
\* a ledger on which it threw.
SentInOrder ==
    \A i \in 1 .. Len(sent) - 1 :
        \/ Parent[sent[i + 1]] \in unsent \cup {sent[i]}
        \/ SeqOf[sent[i + 1]] > SeqOf[sent[i]] + MaxGap

\* A job of InboundLedger::done for l will call tryAdvance.
WakesAdvance(l) ==
    \/ l \in acquiring
    \/ \E c \in checks : c.ledger = l /\ c.at = "acquired"

\* mAdvanceWork and mAdvanceThread lose no call of tryAdvance: when no
\* advance job is left and a valid ledger is not published, the next one to
\* publish is being acquired, or its last acquisition failed or was swept
\* before it was complete, or an exception cut the last pass of the job short.
NoLostAdvance ==
    LET next == hashOfSeq(validLedger, pubSeq + 1) IN
    advance.at = "none" /\ validSeq > pubSeq =>
        WakesAdvance(next) \/ next \in failed \cup swept \/ thrown

\* Between rounds, with no call under way, l could be the valid ledger: we
\* have it, and a quorum of the current validations is for it.
CurrentFor(l) == {m \in currentTrusted : m.ledger = l}
Quiet == checks = {} /\ builder.at = "open" /\ buildingSeq = 0
Overlooked(l) == l \in have /\ SeqOf[l] > validSeq /\ Cardinality(CurrentFor(l)) >= Quorum

\* A validation that came while its sequence was being built was set aside by
\* checkAccept(hash, seq).  When the round is over its ledger has been found
\* again: built, or one that consensusBuilt or checkLastClosedLedger prefers,
\* unless the round was abandoned for another ledger and none has built that
\* sequence since.
SavedValidationsChecked ==
    Quiet => \A l \in Ledgers : SeqOf[l] \notin abandoned => ~Overlooked(l)

=============================================================================

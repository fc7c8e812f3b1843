----------------------------- MODULE CloseTime ------------------------------
(***************************************************************************)
(* The close time of the ledgers one node builds, round after round: the   *)
(* resolution of a round (startRoundInternal), the vote on the close time  *)
(* (the second half of updateOurPositions), and the ledger doAccept builds *)
(* with the outcome.  Module Consensus has the rest of a round; here it is *)
(* a choice whether the transaction sets agree.                            *)
(*                                                                         *)
(* A position carries a close time: the clock reading of the node that     *)
(* closed, or the effective time it adopted in a vote, or 0 for "we agree  *)
(* to disagree".  Each participant counts with the effective close time of *)
(* its position.                                                           *)
(***************************************************************************)
EXTENDS LedgerTiming, FiniteSets

CONSTANTS
    Peers,            \* trusted nodes whose proposals reach us
    Self,             \* this node
    None,             \* no position
    FirstLedgers,     \* ledgers the node may start from
    ClockReadings,    \* sampled times at which the open ledger is closed
    PeerTimes,        \* sampled close times of the peers' positions
    PercentTimes,     \* sampled values of convergePercent_
    MaxLedgers        \* bound: ledgers built in a behaviour

bins == {ledgerPossibleTimeResolutions[i] : i \in 1..6}

Ledgers == [seq : Nat \ {0}, closeTime : Nat, resolution : bins, agree : BOOLEAN]

ASSUME PeersAssumption == Peers # {} /\ IsFiniteSet(Peers) /\ Self \notin Peers
ASSUME SampleAssumption == /\ FirstLedgers \subseteq Ledgers
                           /\ ClockReadings \subseteq Nat \ {0}
                           /\ PeerTimes \subseteq Nat
                           /\ PercentTimes \subseteq Nat
                           /\ None \notin Nat
ASSUME BoundAssumption == MaxLedgers \in Nat

VARIABLES
    ledger,              \* previousLedger_: what the round builds on
    phase,
    proposing,           \* mode_ == Mode::proposing
    closeResolution,     \* closeResolution_
    peerTimes,           \* the close time of each peerProposals_ entry
    ourTime,             \* result_->position.closeTime()
    consensusCloseTime,  \* of the last call of updateOurPositions
    agreed,              \* haveCloseTimeConsensus_
    built                \* bound: ledgers built

roundVars == <<proposing, closeResolution>>
voteVars == <<ourTime, consensusCloseTime, agreed>>
vars == <<ledger, phase, roundVars, peerTimes, voteVars, built>>

noTimes == [p \in Peers |-> None]

TypeOK ==
    /\ ledger \in Ledgers
    /\ phase \in {"open", "establish", "accepted"}
    /\ proposing \in BOOLEAN
    /\ closeResolution \in bins
    /\ peerTimes \in [Peers -> Nat \cup {None}]
    /\ ourTime \in Nat
    /\ consensusCloseTime \in Nat
    /\ agreed \in BOOLEAN
    /\ built \in Nat

nextResolution(l) ==
    getNextLedgerTimeResolution(l.resolution, l.agree, l.seq + 1)

\* The first round has been started.
Init ==
    /\ ledger \in FirstLedgers
    /\ phase = "open"
    /\ proposing \in BOOLEAN
    /\ closeResolution = nextResolution(ledger)
    /\ peerTimes = noTimes
    /\ ourTime = 0
    /\ consensusCloseTime = 0
    /\ agreed = FALSE
    /\ built = 0

----------------------------------------------------------------------------
(* The vote.                                                               *)

effective(time) == effCloseTime(time, closeResolution, ledger.closeTime)

\* Mutant: a percentage of the other participants.
participantsNeededDown(participants, percent) ==
    larger(1, (participants * percent - percent) \div 100)

\* How many of the participants must agree to reach a percentage.
participantsNeeded(participants, percent) ==
    larger(1, (participants * percent + percent \div 2) \div 100)

\* effCloseTimes: what each of the current peers stands for, and what we
\* stand for if we are proposing.
standing(current) ==
    [n \in current \cup (IF proposing THEN {Self} ELSE {}) |->
        effective(IF n = Self THEN ourTime ELSE peerTimes[n])]

votesFor(times, t) == Cardinality({n \in DOMAIN times : times[n] = t})

\* Mutant: the first of the times with the most votes.
leadingEarliest(times, threshVote) ==
    LET voted == {times[n] : n \in DOMAIN times}
    IN  {t \in voted :
           /\ votesFor(times, t) >= threshVote
           /\ \A u \in voted : \/ votesFor(times, u) < votesFor(times, t)
                               \/ votesFor(times, u) = votesFor(times, t) /\ t <= u}

(* The loop over effCloseTimes visits the times in ascending order and     *)
(* raises its threshold to the count of each time it takes.  So it ends    *)
(* with the latest of the times with the most votes, if they are enough.   *)
leading(times, threshVote) ==
    LET voted == {times[n] : n \in DOMAIN times}
    IN  {t \in voted :
           /\ votesFor(times, t) >= threshVote
           /\ \A u \in voted : \/ votesFor(times, u) < votesFor(times, t)
                               \/ votesFor(times, u) = votesFor(times, t) /\ u <= t}

latest(times) == CHOOSE t \in times : \A u \in times : u <= t

\* The body of the loop: a time with enough votes is taken and raises the
\* threshold; acc is what the times before it have left.
takeTime(times, threshConsensus, t, acc) ==
    IF votesFor(times, t) >= acc.thresh
      THEN [time |-> t, thresh |-> votesFor(times, t),
            agreed |-> acc.agreed \/ votesFor(times, t) >= threshConsensus]
      ELSE acc

\* The loop as the code has it, to check the closed form leading against.
voteLoop(times, threshVote, threshConsensus) ==
    LET voted == {times[n] : n \in DOMAIN times}
        loop[s \in SUBSET voted] ==
            IF s = {}
              THEN [time |-> 0, thresh |-> threshVote, agreed |-> FALSE]
              ELSE takeTime(times, threshConsensus, latest(s), loop[s \ {latest(s)}])
    IN  loop[voted]

\* The outcomes (there is one) of the vote of the current peers and us.
outcomes(current, percentTime) ==
    LET times == standing(current)
        participants == Cardinality(DOMAIN times)
        lead == leading(times, participantsNeeded(participants,
                                                  neededWeight(percentTime)))
        threshConsensus == participantsNeeded(participants, AV_CT_CONSENSUS_PCT)
    IN  IF current = {}
          THEN {[time |-> effective(ourTime), agreed |-> TRUE]}
        ELSE IF lead = {}
          THEN {[time |-> 0, agreed |-> FALSE]}
        ELSE {[time |-> t, agreed |-> votesFor(times, t) >= threshConsensus] :
                t \in lead}

----------------------------------------------------------------------------
PeerProposal(p, time) ==
    /\ phase # "accepted"
    /\ peerTimes' = [peerTimes EXCEPT ![p] = time]
    /\ UNCHANGED <<ledger, phase, roundVars, voteVars, built>>

\* The peer bows out.
PeerLeaves(p) ==
    /\ phase # "accepted"
    /\ peerTimes[p] # None
    /\ peerTimes' = [peerTimes EXCEPT ![p] = None]
    /\ UNCHANGED <<ledger, phase, roundVars, voteVars, built>>

\* leaveConsensus, when the network prefers another ledger we cannot get.
LeaveConsensus ==
    /\ phase # "accepted"
    /\ proposing
    /\ proposing' = FALSE
    /\ peerTimes' = noTimes
    /\ UNCHANGED <<ledger, phase, closeResolution, voteVars, built>>

closeLedger(now) ==
    /\ phase = "open"
    /\ phase' = "establish"
    /\ ourTime' = now
    /\ UNCHANGED <<ledger, roundVars, peerTimes, consensusCloseTime, agreed, built>>

\* Mutant: the vote moves our close time only together with our set.
phaseEstablishKeepsTime(percentTime, stale, refresh, haveConsensus) ==
    LET current == {p \in Peers \ stale : peerTimes[p] # None}
    IN  /\ phase = "establish"
        /\ peerTimes' = [p \in Peers |-> IF p \in stale THEN None
                                                        ELSE peerTimes[p]]
        /\ \E vote \in outcomes(current, percentTime) :
             /\ consensusCloseTime' = vote.time
             /\ agreed' = vote.agreed
             /\ ourTime' = IF refresh THEN vote.time ELSE ourTime
             /\ phase' = IF haveConsensus /\ vote.agreed THEN "accepted"
                                                         ELSE phase
        /\ UNCHANGED <<ledger, roundVars, built>>

(* phaseEstablish: the peers in stale have not renewed their positions;    *)
(* refresh says that our transaction set moved or our position is stale,   *)
(* haveConsensus that the transaction sets agree.                          *)
phaseEstablish(percentTime, stale, refresh, haveConsensus) ==
    LET current == {p \in Peers \ stale : peerTimes[p] # None}
    IN  /\ phase = "establish"
        /\ peerTimes' = [p \in Peers |-> IF p \in stale THEN None
                                                        ELSE peerTimes[p]]
        /\ \E vote \in outcomes(current, percentTime) :
             /\ consensusCloseTime' = vote.time
             /\ agreed' = vote.agreed
             /\ ourTime' = IF refresh \/ vote.time # effective(ourTime)
                             THEN vote.time ELSE ourTime
             /\ phase' = IF haveConsensus /\ vote.agreed THEN "accepted"
                                                         ELSE phase
        /\ UNCHANGED <<ledger, roundVars, built>>

\* Mutant: the agreed time is used as it is.
ledgerBuiltRaw ==
    [seq |-> ledger.seq + 1,
     closeTime |-> IF ourTime = 0 THEN ledger.closeTime + 1
                                  ELSE roundCloseTime(ourTime, closeResolution),
     resolution |-> closeResolution,
     agree |-> ourTime # 0]

\* The ledger that doAccept has buildLCL build.
ledgerBuilt ==
    [seq |-> ledger.seq + 1,
     closeTime |-> IF ourTime = 0 THEN ledger.closeTime + 1
                                  ELSE effective(ourTime),
     resolution |-> closeResolution,
     agree |-> ourTime # 0]

\* The job acceptLedger: doAccept, and endConsensus, which starts a round.
acceptLedger(propose) ==
    /\ phase = "accepted"
    /\ built < MaxLedgers
    /\ built' = built + 1
    /\ ledger' = ledgerBuilt
    /\ phase' = "open"
    /\ proposing' = propose
    /\ closeResolution' = nextResolution(ledgerBuilt)
    /\ peerTimes' = noTimes
    /\ ourTime' = 0
    /\ agreed' = FALSE
    /\ UNCHANGED consensusCloseTime

Next ==
    \/ \E p \in Peers, time \in PeerTimes : PeerProposal(p, time)
    \/ \E p \in Peers : PeerLeaves(p)
    \/ LeaveConsensus
    \/ \E now \in ClockReadings : closeLedger(now)
    \/ \E pct \in PercentTimes, stale \in SUBSET Peers,
          refresh, haveConsensus \in BOOLEAN :
           phaseEstablish(pct, stale, refresh, haveConsensus)
    \/ \E propose \in BOOLEAN : acceptLedger(propose)

Spec == Init /\ [][Next]_vars

----------------------------------------------------------------------------
(* Each ledger closes after the one before it, whatever our clock and the  *)
(* peers say and whether or not the close time was agreed on.              *)
CloseTimesIncrease ==
    [][ledger' # ledger => ledger'.closeTime > ledger.closeTime]_vars

(* The assert of getNextLedgerTimeResolution: the resolution of a ledger   *)
(* is one of the possible ones, also after many rounds at either end.      *)
ResolutionIsABin == closeResolution \in bins /\ ledger.resolution \in bins

(* The vote has one outcome, and it is the one the loop computes: raising  *)
(* the threshold on the way never leaves a time that a later one with      *)
(* fewer votes replaced, nor consensus found for a time that is not taken. *)
VoteMatchesLoop ==
    LET current == {p \in Peers : peerTimes[p] # None}
        times == standing(current)
        needed(percent) == participantsNeeded(Cardinality(DOMAIN times), percent)
    IN  phase = "establish" /\ current # {} =>
          \A pct \in PercentTimes :
            LET loop == voteLoop(times, needed(neededWeight(pct)),
                                 needed(AV_CT_CONSENSUS_PCT))
            IN  outcomes(current, pct) = {[time |-> loop.time, agreed |-> loop.agreed]}

(* participantsNeeded rounds 75% to a number of participants that may be   *)
(* less than 75% of them.  From three participants on it is still more     *)
(* than half of them, so two close times never both reach it.              *)
AgreedMeansMajority ==
    [][LET times == standing({p \in Peers : peerTimes'[p] # None})
       IN  phase # "accepted" /\ phase' = "accepted"
               /\ Cardinality(DOMAIN times) >= 3
           => 2 * votesFor(times, consensusCloseTime')
                  > Cardinality(DOMAIN times)]_vars

(* docs/consensus.qbk: nodes agree on the effective close time, which      *)
(* "allows servers to derive a common time for a ledger".  So a node that  *)
(* found a close time agreed on builds a ledger with that close time.      *)
BuiltAsAgreed ==
    [][ledger' # ledger /\ consensusCloseTime # 0
         => ledger'.closeTime = consensusCloseTime]_vars

(* What doAccept keeps of that.  A node that adopted the agreed effective  *)
(* time has effCloseTime applied to it a second time.  That leaves a       *)
(* multiple of the resolution alone; only a time that effCloseTime had     *)
(* raised to one second after the prior ledger is rounded away, and then   *)
(* by at most half the resolution and never back.                          *)
BuiltNearAgreed ==
    [][ledger' # ledger /\ consensusCloseTime # 0
         => \/ ledger'.closeTime = consensusCloseTime
            \/ /\ consensusCloseTime = ledger.closeTime + 1
               /\ ledger'.closeTime >= consensusCloseTime
               /\ ledger'.closeTime - consensusCloseTime
                      <= closeResolution \div 2]_vars
=============================================================================

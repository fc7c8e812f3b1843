----------------------------- MODULE TimeKeeper -----------------------------
(***************************************************************************)
(* The close offset of a node (core/impl/TimeKeeper.cpp) over its rounds   *)
(* of consensus, and the estimate that doAccept                            *)
(* (app/consensus/CCLConsensus.cpp) makes at the end of a round from its   *)
(* own close time and those of the first proposals that reached it         *)
(* (rawCloseTimes_).                                                       *)
(*                                                                         *)
(* Times are in seconds, relative to what our clock shows when we close    *)
(* the ledger of the round.  A peer closes by its own timer, with its own  *)
(* clock and offset, so what it reports may be any distance from ours, a   *)
(* new one in each round; it may also not reach us.  Our clock itself may  *)
(* be set between two rounds, which only changes the distances.            *)
(***************************************************************************)
EXTENDS Integers, FiniteSets, FiniteSetsExt

CONSTANTS
    Nodes, Us,  \* the nodes of the network, and this one
    Reports,    \* distances that the peers' close times may have
    NoTime      \* no close time in this round

ASSUME KeeperAssumption ==
    /\ IsFiniteSet(Nodes) /\ Us \in Nodes
    /\ Reports \subseteq Int
    /\ NoTime \notin Int

VARIABLES
    closeOffset,   \* closeOffset_
    roundPhase,    \* phase_
    withNetwork,   \* mode_ is proposing or observing
    raw            \* rawCloseTimes_: .self, and the peers whose time is in .peers

keeperVars == <<closeOffset, roundPhase, withNetwork, raw>>

(* The close offset is in whole seconds, a ledger being agreed on has been *)
(* closed at the time that our offset gives, and the peers report theirs.  *)
KeeperType ==
    /\ closeOffset \in Int
    /\ roundPhase \in {"open", "establish", "accepted"}
    /\ withNetwork \in BOOLEAN
    /\ raw \in [Nodes -> Int \cup {NoTime}]
    /\ \A p \in Nodes \ {Us} : raw[p] \in Reports \cup {NoTime}
    /\ roundPhase = "establish" => raw[Us] = closeOffset

noReports == [n \in Nodes |-> NoTime]

KeeperInit ==
    /\ closeOffset = 0
    /\ roundPhase = "open"
    /\ withNetwork = TRUE
    /\ raw = noReports

-----------------------------------------------------------------------------
\* Division by four, which truncates toward zero.
quarter(x) == IF x >= 0 THEN x \div 4 ELSE -((-x) \div 4)

\* Mutant: the offset is moved by the estimate and not by a quarter of it.
adjustCloseTimeAtOnce(offset, amount) ==
    IF amount > 1 THEN offset + amount + 3
    ELSE IF amount < -1 THEN offset + amount - 3
    ELSE quarter(offset * 3)

\* Mutant: an offset that is let go is rounded away from zero.
adjustCloseTimeRoundsUp(offset, amount) ==
    IF amount > 1 THEN offset + quarter(amount + 3)
    ELSE IF amount < -1 THEN offset + quarter(amount - 3)
    ELSE quarter(offset * 3 + (IF offset > 0 THEN 3 ELSE 0))

(* Large estimates are followed by a quarter; when there is none to speak  *)
(* of the offset goes back toward zero.                                    *)
adjustCloseTime(offset, amount) ==
    IF amount > 1 THEN offset + quarter(amount + 3)
    ELSE IF amount < -1 THEN offset + quarter(amount - 3)
    ELSE quarter(offset * 3)

(* The rounded average of our close time and those we heard of, relative   *)
(* to ours.                                                                *)
estimate ==
    LET voters == {n \in Nodes : raw[n] # NoTime}
        closeCount == Cardinality(voters)
        closeTotal == MapThenSumSet(LAMBDA p : raw[p], voters)
    IN  (closeTotal + closeCount \div 2) \div closeCount - raw[Us]

-----------------------------------------------------------------------------
(* Consensus::peerProposal: the first proposal of a peer, before or after  *)
(* we close.                                                               *)
initialProposal(p, time) ==
    /\ roundPhase # "accepted"
    /\ p # Us /\ raw[p] = NoTime
    /\ raw' = [raw EXCEPT ![p] = time]
    /\ UNCHANGED <<closeOffset, roundPhase, withNetwork>>

(* Consensus::closeLedger, at closeTime().                                 *)
closeLedgerNow ==
    /\ roundPhase = "open"
    /\ roundPhase' = "establish"
    /\ raw' = [raw EXCEPT ![Us] = closeOffset]
    /\ UNCHANGED <<closeOffset, withNetwork>>

(* Consensus::handleWrongLedger: we are not with the network for the rest  *)
(* of the round, and start it again when we have the ledger.               *)
leaveNetwork ==
    /\ roundPhase # "accepted"
    /\ withNetwork' = FALSE
    /\ \/ /\ raw' = [noReports EXCEPT ![Us] = raw[Us]]
          /\ UNCHANGED roundPhase
       \/ /\ raw' = noReports
          /\ roundPhase' = "open"
    /\ UNCHANGED closeOffset

(* The end of a round that we entered with the network.                    *)
doAccept ==
    /\ roundPhase = "establish" /\ withNetwork
    /\ roundPhase' = "accepted"
    /\ closeOffset' = adjustCloseTime(closeOffset, estimate)
    /\ UNCHANGED <<withNetwork, raw>>

(* The end of one that we did not, or that failed (MovedOn).               *)
acceptOnly ==
    /\ roundPhase = "establish"
    /\ roundPhase' = "accepted"
    /\ UNCHANGED <<closeOffset, withNetwork, raw>>

startRound ==
    /\ roundPhase = "accepted"
    /\ roundPhase' = "open"
    /\ withNetwork' = TRUE
    /\ raw' = noReports
    /\ UNCHANGED closeOffset

KeeperNext ==
    \/ \E p \in Nodes, time \in Reports : initialProposal(p, time)
    \/ closeLedgerNow
    \/ leaveNetwork
    \/ doAccept \/ acceptOnly
    \/ startRound

KeeperSpec == KeeperInit /\ [][KeeperNext]_keeperVars

(* The timer closes and ends rounds, and those of a node that is with the  *)
(* network do not all fail; what it hears is left open.                    *)
Fairness ==
    /\ WF_keeperVars(closeLedgerNow)
    /\ WF_keeperVars(doAccept \/ acceptOnly)
    /\ WF_keeperVars(startRound)
    /\ SF_keeperVars(doAccept)

FairSpec == KeeperSpec /\ Fairness

-----------------------------------------------------------------------------
(* adjustCloseTime never overshoots: over any number of rounds, and        *)
(* whatever proposals are lost, our close time stays between our own clock *)
(* and the farthest close times that peers reported.  The quarter of an    *)
(* estimate is rounded up and the offset that is let go is rounded down,   *)
(* on both sides of zero.                                                  *)
OffsetWithinReports ==
    \E low, high \in Reports \cup {0} : low <= closeOffset /\ closeOffset <= high

(* Every close time that reached us in this round is within a second of    *)
(* our clock.                                                              *)
ReportsAgree == \A p \in Nodes \ {Us} : raw[p] \in {NoTime} \cup -1 .. 1

(* doAccept then brings the offset strictly nearer to zero, and does not   *)
(* cross it ("push the close time towards our wall time").                 *)
Nearer ==
    \/ closeOffset = 0 /\ closeOffset' = 0
    \/ closeOffset > 0 /\ closeOffset' \in 0 .. closeOffset - 1
    \/ closeOffset < 0 /\ closeOffset' \in closeOffset + 1 .. 0
OffsetApproaches == [][doAccept /\ ReportsAgree => Nearer]_keeperVars

(* Once we stay with the network, and the reports that reach us stay       *)
(* within a second of our clock, the offset returns to zero and stays      *)
(* there: no rounding leaves a second behind.                              *)
OffsetSettles == <>[](withNetwork /\ ReportsAgree) => <>[](closeOffset = 0)
=============================================================================

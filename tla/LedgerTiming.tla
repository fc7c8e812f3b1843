---------------------------- MODULE LedgerTiming ----------------------------
(***************************************************************************)
(* The protocol parameters and the pure timing decisions of consensus      *)
(* (consensus/LedgerTiming.h and LedgerTiming.cpp).  Durations of rounds   *)
(* are in milliseconds, close times and resolutions in seconds; close time *)
(* 0 is the unset time_point{}, "we agree to disagree".                    *)
(***************************************************************************)
EXTENDS Integers

minimumConsensusPercentage == 80

ledgerPossibleTimeResolutions == <<10, 20, 30, 60, 90, 120>>

increaseLedgerTimeResolutionEvery == 8

decreaseLedgerTimeResolutionEvery == 1

LEDGER_IDLE_INTERVAL == 300 * 1000

LEDGER_MIN_CONSENSUS == 1950

LEDGER_MIN_CLOSE == 2000

AV_MIN_CONSENSUS_TIME == 5000

AV_CT_CONSENSUS_PCT == 75

tenMinutes == 600 * 1000

larger(a, b) == IF a < b THEN b ELSE a

(* AV_*_CONSENSUS_PCT as a function of the AV_*_CONSENSUS_TIME reached.     *)
neededWeight(percentTime) ==
    CASE percentTime < 50 -> 50
      [] percentTime >= 50 /\ percentTime < 85 -> 65
      [] percentTime >= 85 /\ percentTime < 200 -> 70
      [] percentTime >= 200 -> 95

(* The index of the bin in ledgerPossibleTimeResolutions.  Coarser bins    *)
(* have larger indices; an unknown resolution is left alone.               *)
getNextLedgerTimeResolution(previousResolution, previousAgree, ledgerSeq) ==
    LET res == ledgerPossibleTimeResolutions
        coarser == {i \in 1..5 : res[i] = previousResolution}
        finer == {i \in 2..6 : res[i] = previousResolution}
    IN  IF ~previousAgree /\ ledgerSeq % decreaseLedgerTimeResolutionEvery = 0
             /\ coarser # {}
          THEN res[(CHOOSE i \in coarser : TRUE) + 1]
        ELSE IF previousAgree
                  /\ ledgerSeq % increaseLedgerTimeResolutionEvery = 0
                  /\ finer # {}
          THEN res[(CHOOSE i \in finer : TRUE) - 1]
        ELSE previousResolution

roundCloseTime(closeTime, closeResolution) ==
    IF closeTime = 0
      THEN 0
      ELSE LET up == closeTime + closeResolution \div 2
           IN  up - (up % closeResolution)

effCloseTime(closeTime, resolution, priorCloseTime) ==
    IF closeTime = 0
      THEN 0
      ELSE larger(roundCloseTime(closeTime, resolution), priorCloseTime + 1)

shouldCloseLedger(anyTxs, prevProposers, closed, validated, prevRoundTime, sincePrevClose, openTime, idleInterval) ==
    \/ prevRoundTime < -1000
    \/ prevRoundTime > tenMinutes
    \/ sincePrevClose > tenMinutes
    \/ /\ ~anyTxs
       /\ \/ sincePrevClose >= idleInterval
          \/ closed > prevProposers \div 2
    \/ /\ anyTxs
       /\ \/ closed + validated > prevProposers \div 2
          \/ openTime >= LEDGER_MIN_CLOSE /\ openTime >= prevRoundTime \div 2

checkConsensusReached(agreeing, total, countSelf) ==
    LET self == IF countSelf THEN 1 ELSE 0
    IN  \/ total = 0
        \/ ((agreeing + self) * 100) \div (total + self)
               > minimumConsensusPercentage

checkConsensus(prevProposers, proposers, agree, finished, previousAgreeTime, agreeTime, proposing) ==
    IF \/ agreeTime <= LEDGER_MIN_CONSENSUS
       \/ /\ proposers < (prevProposers * 3) \div 4
          /\ agreeTime < previousAgreeTime + LEDGER_MIN_CONSENSUS
      THEN "No"
    ELSE IF checkConsensusReached(agree, proposers, proposing)
      THEN "Yes"
    ELSE IF checkConsensusReached(finished, proposers, FALSE)
      THEN "MovedOn"
    ELSE "No"
=============================================================================

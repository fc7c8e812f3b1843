----------------------------- MODULE MCConsensus -----------------------------
(* Instances of Consensus.  The readings of the round clock are on the two *)
(* sides of LEDGER_MIN_CONSENSUS, or early and late in the avalanche: the  *)
(* first round counts with a previous round of 300 s.                      *)
EXTENDS Consensus, TLC

CONSTANTS p1, p2, t1, t2, t3, l1, l2

OnePeer == {p1}
TwoPeers == {p1, p2}
OneTx == {t1}
TwoTxs == {t1, t2}
ThreeTxs == {t1, t2, t3}
OneLedger == {l1}
TwoLedgers == {l1, l2}

AnySetOfTwo == SUBSET TwoTxs
AnySetOfOne == SUBSET OneTx
AllThree == {ThreeTxs}

FirstRoundTimes == {2000, 290000}
ShortRoundTimes == {1000, 2000}

Ledgers == Permutations(TwoLedgers)

PeersAndTxs == Permutations(TwoPeers) \cup Permutations(TwoTxs)

\* Peers that never leave and whose positions all hold t3.
PeersAgreeOnT3 ==
    \A p \in Peers : \A i \in DOMAIN stored[p] :
        stored[p][i].seq # seqLeave /\ t3 \in stored[p][i].position

\* The same, in a round that starts on l1 while the peers propose for l2.
PeersOnOtherLedger ==
    /\ PeersAgreeOnT3
    /\ previousLedger = l1
    /\ views = 0 => prevLedgerID = l1
    /\ \A p \in Peers : \A i \in DOMAIN stored[p] : stored[p][i].prev = l2
=============================================================================

---------------------------- MODULE MCCloseTime -----------------------------
(***************************************************************************)
(* Small instances of CloseTime.                                           *)
(***************************************************************************)
EXTENDS CloseTime, TLC

CONSTANTS p1, p2, p3

TwoPeers == {p1, p2}
ThreePeers == {p1, p2, p3}

\* A ledger that closed just before the middle between two multiples of its
\* resolution, and ledgers at the ends of the table of resolutions.
LedgerAt103 == {[seq |-> 9, closeTime |-> 103, resolution |-> 30, agree |-> TRUE]}
LedgersAtEnds == {[seq |-> s, closeTime |-> 103, resolution |-> r, agree |-> a] :
                    s \in {6, 7}, r \in {10, 20, 90, 120}, a \in BOOLEAN}

Clock == {104, 106}
TimesOfPeers == {0, 104, 106}
Percents == {0, 50, 85, 200}
FewPercents == {0, 200}

Symmetry == Permutations(Peers)
=============================================================================

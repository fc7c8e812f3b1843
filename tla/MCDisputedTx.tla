---------------------------- MODULE MCDisputedTx ----------------------------
(* Five peers, and one sample of convergePercent_ for each threshold.      *)
EXTENDS DisputedTx, TLC

CONSTANTS p1, p2, p3, p4, p5

MCVoters == {p1, p2, p3, p4, p5}

MCConvergePercents == {0, 49, 50, 84, 85, 199, 200}
=============================================================================

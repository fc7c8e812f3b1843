---------------------------- MODULE MCLedgerSave ----------------------------
(* Two ledgers that compete for one sequence number.                       *)
EXTENDS LedgerSave

CONSTANTS l1, l2, t1, t2, t3

SameSeq == [l \in Ledgers |-> 1]
=============================================================================

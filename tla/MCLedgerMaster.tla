--------------------------- MODULE MCLedgerMaster ---------------------------
(***************************************************************************)
(* A chain of four ledgers with a fork at the second.                      *)
(***************************************************************************)
EXTENDS LedgerMaster, TLC

CONSTANTS n1, n2, n3, A1, A2, A3, A4, B2

MCLedgers == {A1, A2, A3, A4, B2}
MCSeqOf == (A1 :> 1) @@ (A2 :> 2) @@ (A3 :> 3) @@ (A4 :> 4) @@ (B2 :> 2)
MCParent == (A1 :> NoLedger) @@ (A2 :> A1) @@ (A3 :> A2) @@ (A4 :> A3) @@ (B2 :> A1)

MCMessages == {[node |-> n, ledger |-> A2] : n \in {n1, n2, n3}}
              \cup {[node |-> n, ledger |-> A4] : n \in {n1, n2}}

\* n1 and n2 send the same validations.
Symmetry == Permutations({n1, n2})

=============================================================================

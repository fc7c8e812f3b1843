--------------------------- MODULE MCValidations ----------------------------
(***************************************************************************)
(* n1 replaces its signing key and validates the second sequence with both *)
(* keys; n2 is listed, not trusted.                                        *)
(***************************************************************************)
EXTENDS Validations

CONSTANTS n1, n2, A2, A3, B2

validation(n, k, l, s, t) == [node |-> n, key |-> k, ledger |-> l, seq |-> s, time |-> t]

MCMessages ==
    {validation(n1, 1, B2, 2, 0), validation(n1, 2, A2, 2, 1), validation(n1, 2, A3, 3, 2),
     validation(n2, 1, A2, 2, 1)}

=============================================================================

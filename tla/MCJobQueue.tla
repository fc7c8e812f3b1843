----------------------------- MODULE MCJobQueue -----------------------------
(* Two threads, a type with limit 1 and a type without a limit that runs   *)
(* first.                                                                  *)
EXTENDS JobQueue

MCLimit == [t \in JobTypes |-> IF t = 1 THEN 1 ELSE 3]
=============================================================================

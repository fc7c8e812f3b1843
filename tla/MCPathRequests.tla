--------------------------- MODULE MCPathRequests ---------------------------
(* Two threads; path updates run before commands, as jtUPDATE_PF does      *)
(* before jtCLIENT, and neither type has a limit that is reached.          *)
EXTENDS PathRequests

MCLimit == [t \in JobTypes |-> 99]
MCBodies == Coros \cup {"update"}
=============================================================================

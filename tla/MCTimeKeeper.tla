---------------------------- MODULE MCTimeKeeper ----------------------------
(* Three peers that report times up to seven seconds from our clock.        *)
EXTENDS TimeKeeper

CONSTANTS us, n1, n2, n3

SomeReports == {-7, -1, 0, 1, 6}
=============================================================================

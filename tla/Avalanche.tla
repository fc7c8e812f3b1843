----------------------------- MODULE Avalanche ------------------------------
(***************************************************************************)
(* How a node votes on a disputed transaction (DisputedTx::updateVote).    *)
(* The percentage of yes votes a proposing node asks for grows with the    *)
(* time the round has taken.                                               *)
(***************************************************************************)
EXTENDS LedgerTiming, FiniteSets, FiniteSetsExt

Votes == {"yes", "no", "none"}

\* The vote a position casts that holds the disputed transaction, or not.
voteFor(votesYes) == IF votesYes THEN "yes" ELSE "no"

votersFor(votes, v) == {p \in DOMAIN votes : votes[p] = v}

(* The vote updateVote leaves behind.                                      *)
newPosition(ourVote, yays, nays, percentTime, proposing) ==
    IF (ourVote /\ nays = 0) \/ (~ourVote /\ yays = 0)
      THEN ourVote
    ELSE IF proposing
      THEN (yays * 100 + (IF ourVote THEN 100 ELSE 0)) \div (nays + yays + 1)
               > neededWeight(percentTime)
    ELSE yays > nays
=============================================================================

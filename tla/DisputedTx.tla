----------------------------- MODULE DisputedTx -----------------------------
(***************************************************************************)
(* One disputed transaction (consensus/DisputedTx.h): our vote, the votes  *)
(* of the peers, and the two counters yays_ and nays_ the code maintains   *)
(* by increments and decrements beside the map votes_.  The consensus      *)
(* object calls these operations in any order, under its lock.             *)
(***************************************************************************)
EXTENDS Avalanche

CONSTANTS
    Voters,          \* nodes whose votes are tracked
    ConvergePercents    \* sampled values of convergePercent_

ASSUME VotersAssumption == IsFiniteSet(Voters)
ASSUME PercentAssumption == ConvergePercents \subseteq Nat

VARIABLES
    ourVote,    \* ourVote_
    votes,      \* votes_: "none" when the peer has no entry
    yays, nays  \* yays_, nays_

disputeVars == <<ourVote, votes, yays, nays>>

DisputeType ==
    /\ ourVote \in BOOLEAN
    /\ votes \in [Voters -> Votes]
    /\ yays \in Int
    /\ nays \in Int

DisputeInit ==
    /\ ourVote \in BOOLEAN
    /\ votes = [p \in Voters |-> "none"]
    /\ yays = 0
    /\ nays = 0

----------------------------------------------------------------------------
\* Mutants: the same code with a mistake in it.

\* A changed vote is counted without taking the old one back.
setVoteForgetsOld(peer, votesYes) ==
    /\ votes' = [votes EXCEPT ![peer] = voteFor(votesYes)]
    /\ yays' = yays + (IF votesYes /\ votes[peer] # "yes" THEN 1 ELSE 0)
    /\ nays' = nays + (IF ~votesYes /\ votes[peer] # "no" THEN 1 ELSE 0)
    /\ UNCHANGED ourVote

\* The early returns for an unopposed vote are dropped.
updateVoteAlways(percentTime, proposing) ==
    /\ ourVote' = IF proposing
                    THEN (yays * 100 + (IF ourVote THEN 100 ELSE 0))
                             \div (nays + yays + 1) > 50
                    ELSE yays > nays
    /\ UNCHANGED <<votes, yays, nays>>

----------------------------------------------------------------------------
(* A new vote is counted, a changed one moves from one counter to the      *)
(* other, a repeated one changes nothing.                                  *)
setVote(peer, votesYes) ==
    /\ votes' = [votes EXCEPT ![peer] = voteFor(votesYes)]
    /\ CASE votes[peer] = "none" /\ votesYes ->
              yays' = yays + 1 /\ nays' = nays
         [] votes[peer] = "none" /\ ~votesYes ->
              yays' = yays /\ nays' = nays + 1
         [] votes[peer] = "no" /\ votesYes ->
              yays' = yays + 1 /\ nays' = nays - 1
         [] votes[peer] = "yes" /\ ~votesYes ->
              yays' = yays - 1 /\ nays' = nays + 1
         [] votes[peer] = voteFor(votesYes) -> UNCHANGED <<yays, nays>>
    /\ UNCHANGED ourVote

unVote(peer) ==
    /\ votes' = [votes EXCEPT ![peer] = "none"]
    /\ yays' = IF votes[peer] = "yes" THEN yays - 1 ELSE yays
    /\ nays' = IF votes[peer] = "no" THEN nays - 1 ELSE nays
    /\ UNCHANGED ourVote

updateVote(percentTime, proposing) ==
    /\ ourVote' = newPosition(ourVote, yays, nays, percentTime, proposing)
    /\ UNCHANGED <<votes, yays, nays>>

DisputeNext ==
    \/ \E p \in Voters, yes \in BOOLEAN : setVote(p, yes)
    \/ \E p \in Voters : unVote(p)
    \/ \E pct \in ConvergePercents, proposing \in BOOLEAN :
           updateVote(pct, proposing)

DisputeSpec == DisputeInit /\ [][DisputeNext]_disputeVars

----------------------------------------------------------------------------
(* The counters setVote and unVote maintain are the numbers of yes and no  *)
(* votes in votes_, so that neither is ever negative and the denominator   *)
(* in updateVote is positive, whatever the order of the calls.             *)
CountersMatchVotes ==
    /\ yays = Cardinality(votersFor(votes, "yes"))
    /\ nays = Cardinality(votersFor(votes, "no"))

(* updateVote never moves us away from a vote that no tracked peer opposes *)
(* and never moves us to a vote that no tracked peer holds.                *)
NeverAgainstEveryone ==
    [][ourVote' # ourVote =>
         \E p \in Voters : votes[p] = voteFor(ourVote')]_disputeVars
=============================================================================

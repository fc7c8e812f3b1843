------------------------------ MODULE Consensus ------------------------------
(***************************************************************************)
(* The consensus object of one node (consensus/Consensus.h) with the       *)
(* stored peer positions of CCLConsensus (app/consensus/CCLConsensus.cpp). *)
(*                                                                         *)
(* Every handler runs under the recursive mutex lock_, and handlers call   *)
(* each other: startRound may replay stored proposals and call timerEntry, *)
(* which may switch the ledger and start a round again.  The variable todo *)
(* is the stack of calls that are still to return while the lock is held;  *)
(* a handler that takes the lock needs it empty.  storeProposal has its    *)
(* own lock and runs at any time, so a proposal may be stored in the       *)
(* middle of a replay.                                                     *)
(*                                                                         *)
(* Abstractions: a transaction set is the set of its transactions and its  *)
(* own ID; a ledger is its ID; of our own proposal sequence number only    *)
(* "bowed out or not" is kept.  Clock readings are sampled from            *)
(* RoundTimes, which never run backwards within a round; staleness of a    *)
(* position, the answers of the validation store and of the ledger         *)
(* acquisition are nondeterministic.  The vote on the close time is in     *)
(* module CloseTime; here its outcome is a choice.                         *)
(***************************************************************************)
EXTENDS Avalanche, Sequences

CONSTANTS
    Peers,         \* trusted nodes whose proposals reach us
    Txs,           \* transactions
    LedgerIDs,     \* ledgers a round may build on
    None,          \* no proposal, no dispute
    seqLeave,      \* the sequence number of a bow-out proposal
    OpenSets,      \* transaction sets our open ledger may hold
    RoundTimes,    \* sampled readings of result_->roundTime, in ms
    MaxSeq,        \* bound: sequence number of a peer's proposal
    MaxStored,     \* peer positions kept per node: 10 in the code
    MaxReceived,   \* bound: proposals received in a behaviour
    MaxRounds,     \* bound: calls of startRound
    MaxViews       \* bound: changes of the preferred ledger

ASSUME PeersAssumption == IsFiniteSet(Peers)
ASSUME OpenSetsAssumption == OpenSets \subseteq SUBSET Txs
ASSUME TimesAssumption == RoundTimes \subseteq Nat
ASSUME BoundsAssumption ==
    /\ {MaxSeq, MaxReceived, MaxRounds, MaxViews} \subseteq Nat
    /\ MaxStored \in Nat \ {0}
    /\ seqLeave \in Nat
    /\ seqLeave > MaxSeq

TxSets == SUBSET Txs

\* The position of a bow-out is never read.
Proposals == [node : Peers, prev : LedgerIDs, seq : 0..MaxSeq,
              position : TxSets]
        \cup [node : Peers, prev : LedgerIDs, seq : {seqLeave},
              position : {{}}]

Disputes == [ourVote : BOOLEAN, votes : [Peers -> Votes]]

ASSUME NoneAssumption == None \notin Proposals /\ None \notin Disputes

VARIABLES
    phase, mode,
    prevLedgerID,    \* prevLedgerID_
    previousLedger,  \* previousLedger_.id()
    prevProposers, prevRoundTime,
    peerProposals,   \* peerProposals_
    deadNodes,
    acquired,        \* acquired_
    hasResult,       \* result_ is engaged; the next five are its members
    set, bowedOut, disputes, compares, roundTime,
    sent,            \* the last thing we proposed in this round
    todo,            \* calls still to return while lock_ is held
    playing,         \* proposals playbackProposals has still to process
    stored,          \* peerPositions_
    arriving,        \* stored proposals on their way to peerProposal
    available,       \* transaction sets InboundTransactions holds
    requested,       \* transaction sets it has been asked to acquire
    received, rounds, views

ledgerVars == <<prevLedgerID, previousLedger>>
prevRoundVars == <<prevProposers, prevRoundTime>>
peerVars == <<peerProposals, deadNodes>>
voteVars == <<disputes, compares>>
stanceVars == <<hasResult, set, bowedOut, roundTime>>
callVars == <<todo, playing>>
storeVars == <<stored, arriving, received>>
setVars == <<available, requested>>
boundVars == <<rounds, views>>
roundVars == <<phase, mode, ledgerVars, prevRoundVars, peerVars, acquired,
               stanceVars, voteVars, sent>>
envVars == <<storeVars, setVars, boundVars>>
vars == <<roundVars, callVars, envVars>>

noProposals == [p \in Peers |-> None]
noDisputes == [tx \in Txs |-> None]

proposing == mode = "proposing"

\* Peers with a current position.
peersIn(pp) == {p \in Peers : pp[p] # None}

Tasks == {"acquire", "playback", "replay", "fallingBehind", "phase"}

TypeOK ==
    /\ phase \in {"open", "establish", "accepted"}
    /\ mode \in {"proposing", "observing", "wrongLedger", "switchedLedger"}
    /\ prevLedgerID \in LedgerIDs
    /\ previousLedger \in LedgerIDs
    /\ prevProposers \in Nat
    /\ prevRoundTime \in Nat
    /\ peerProposals \in [Peers -> Proposals \cup {None}]
    /\ deadNodes \subseteq Peers
    /\ acquired \subseteq TxSets
    /\ hasResult \in BOOLEAN
    /\ set \in TxSets
    /\ bowedOut \in BOOLEAN
    /\ disputes \in [Txs -> Disputes \cup {None}]
    /\ compares \subseteq TxSets
    /\ roundTime \in Nat
    /\ sent \in {"nothing", "position", "bowOut"}
    /\ todo \in Seq(Tasks)
    /\ playing \subseteq Proposals
    /\ stored \in [Peers -> Seq(Proposals)]
    /\ arriving \subseteq Proposals
    /\ available \subseteq TxSets
    /\ requested \subseteq TxSets
    /\ {received, rounds, views} \subseteq Nat

(* The object is constructed with phase accepted and waits for startRound. *)
(* InboundTransactions always holds the empty set.                         *)
Init ==
    /\ phase = "accepted"
    /\ mode = "observing"
    /\ prevLedgerID \in LedgerIDs
    /\ previousLedger = prevLedgerID
    /\ prevProposers = 0
    /\ prevRoundTime = LEDGER_IDLE_INTERVAL
    /\ peerProposals = noProposals
    /\ deadNodes = {}
    /\ acquired = {}
    /\ hasResult = FALSE
    /\ set = {}
    /\ bowedOut = FALSE
    /\ disputes = noDisputes
    /\ compares = {}
    /\ roundTime = 0
    /\ sent = "nothing"
    /\ todo = <<>>
    /\ playing = {}
    /\ stored = [p \in Peers |-> <<>>]
    /\ arriving = {}
    /\ available = {{}}
    /\ requested = {}
    /\ received = 0
    /\ rounds = 0
    /\ views = 0

----------------------------------------------------------------------------
(* Disputes.  These are functions of the disputes so far (dis), the peer   *)
(* positions (pp) and the acquired sets (acq) at the time of the call.     *)

\* The votes of all peers whose positions we have the transactions of.
votesOn(tx, pp, acq) ==
    [p \in Peers |-> IF p \in peersIn(pp) /\ pp[p].position \in acq
                       THEN voteFor(tx \in pp[p].position)
                       ELSE "none"]

\* Mutant of createDisputes: only what the peer lacks is disputed.
createDisputesOneWay(s, others, dis, pp, acq) ==
    [tx \in Txs |->
        IF dis[tx] = None /\ \E o \in others : tx \in s \ o
          THEN [ourVote |-> TRUE, votes |-> votesOn(tx, pp, acq)]
          ELSE dis[tx]]

\* createDisputes for each of the sets others, none of them compared before.
createDisputes(s, others, dis, pp, acq) ==
    [tx \in Txs |->
        IF dis[tx] = None /\ \E o \in others : tx \in SymDiff(s, o)
          THEN [ourVote |-> tx \in s, votes |-> votesOn(tx, pp, acq)]
          ELSE dis[tx]]

\* setVote of the nodes, whose position is the set other, on every dispute.
setVotes(dis, nodes, other) ==
    [tx \in Txs |->
        IF dis[tx] = None
          THEN None
          ELSE [dis[tx] EXCEPT !.votes =
                  [p \in Peers |-> IF p \in nodes
                                     THEN voteFor(tx \in other) ELSE @[p]]]]

\* Mutant of unVotes: the votes stay.
unVotesForgotten(dis, nodes) == dis

\* unVote of the nodes on every dispute.
unVotes(dis, nodes) ==
    [tx \in Txs |->
        IF dis[tx] = None
          THEN None
          ELSE [dis[tx] EXCEPT !.votes =
                  [p \in Peers |-> IF p \in nodes THEN "none" ELSE @[p]]]]

updateDisputes(nodes, other, pp, acq) ==
    /\ compares' = compares \cup {other}
    /\ disputes' =
         setVotes(IF other \in compares
                    THEN disputes
                    ELSE createDisputes(set, {other}, disputes, pp, acq),
                  nodes, other)

gotTxSet(s, pp) ==
    LET nodes == {p \in peersIn(pp) : pp[p].position = s}
    IN  IF phase = "accepted" \/ s \in acquired
          THEN UNCHANGED <<acquired, voteVars>>
          ELSE /\ acquired' = acquired \cup {s}
               /\ IF hasResult /\ nodes # {}
                    THEN updateDisputes(nodes, s, pp, acquired \cup {s})
                    ELSE UNCHANGED voteVars

----------------------------------------------------------------------------
(* peerProposal, on a proposal q.                                          *)

\* Mutant: a proposal is taken while the ledger is being accepted.
ignoresProposalUnlessAccepted(q) ==
    \/ q.prev # prevLedgerID
    \/ q.node \in deadNodes
    \/ peerProposals[q.node] # None /\ q.seq <= peerProposals[q.node].seq

ignoresProposal(q) ==
    \/ phase = "accepted"
    \/ q.prev # prevLedgerID
    \/ q.node \in deadNodes
    \/ peerProposals[q.node] # None /\ q.seq <= peerProposals[q.node].seq

peerBowsOut(q) ==
    /\ peerProposals' = [peerProposals EXCEPT ![q.node] = None]
    /\ deadNodes' = deadNodes \cup {q.node}
    /\ disputes' = IF hasResult THEN unVotes(disputes, {q.node}) ELSE disputes
    /\ UNCHANGED <<acquired, compares, requested>>

peerTakesPosition(q) ==
    LET pp == [peerProposals EXCEPT ![q.node] = q]
    IN  /\ peerProposals' = pp
        /\ UNCHANGED deadNodes
        /\ IF q.position \in acquired
             THEN /\ UNCHANGED <<acquired, requested>>
                  /\ IF hasResult
                       THEN updateDisputes({q.node}, q.position, pp, acquired)
                       ELSE UNCHANGED voteVars
             ELSE IF q.position \in available
               THEN gotTxSet(q.position, pp) /\ UNCHANGED requested
               ELSE /\ requested' = requested \cup {q.position}
                    /\ UNCHANGED <<acquired, voteVars>>

peerProposal(q) ==
    IF ignoresProposal(q)
      THEN UNCHANGED <<peerVars, acquired, voteVars, requested>>
    ELSE IF q.seq = seqLeave
      THEN peerBowsOut(q)
    ELSE peerTakesPosition(q)

----------------------------------------------------------------------------
\* Mutant: result_ is not reset.
startRoundInternalKeepsResult(id, ledger, newMode, rest) ==
    /\ phase' = "open"
    /\ mode' = newMode
    /\ prevLedgerID' = id
    /\ previousLedger' = ledger
    /\ peerProposals' = noProposals
    /\ acquired' = {}
    /\ deadNodes' = {}
    /\ todo' = (IF ledger # id THEN <<"acquire">> ELSE <<>>)
                   \o <<"playback", "fallingBehind">> \o rest
    /\ UNCHANGED <<prevRoundVars, stanceVars, voteVars, playing, storeVars,
                   setVars>>

(* startRoundInternal, up to the calls it makes; rest is what its caller   *)
(* has still to do.                                                        *)
startRoundInternal(id, ledger, newMode, rest) ==
    /\ phase' = "open"
    /\ mode' = newMode
    /\ prevLedgerID' = id
    /\ previousLedger' = ledger
    /\ hasResult' = FALSE
    /\ set' = {}
    /\ bowedOut' = FALSE
    /\ roundTime' = 0
    /\ disputes' = noDisputes
    /\ compares' = {}
    /\ peerProposals' = noProposals
    /\ acquired' = {}
    /\ deadNodes' = {}
    /\ todo' = (IF ledger # id THEN <<"acquire">> ELSE <<>>)
                   \o <<"playback", "fallingBehind">> \o rest
    /\ UNCHANGED <<prevRoundVars, playing, storeVars, setVars>>

\* Mutant: the proposals of the old ledger stay.
switchViewKeepsProposals(net) ==
    LET bowsOut == proposing /\ hasResult /\ ~bowedOut
    IN  /\ prevLedgerID' = net
        /\ mode' = IF proposing THEN "observing" ELSE mode
        /\ bowedOut' = (bowedOut \/ bowsOut)
        /\ sent' = IF bowsOut THEN "bowOut" ELSE sent
        /\ disputes' = noDisputes
        /\ compares' = {}
        /\ deadNodes' = {}
        /\ UNCHANGED <<phase, previousLedger, prevRoundVars, peerProposals, acquired,
                       hasResult, set, roundTime, playing, storeVars,
                       setVars, rounds>>

(* The first half of handleWrongLedger, with leaveConsensus: the network   *)
(* prefers another ledger.                                                 *)
switchView(net) ==
    LET bowsOut == proposing /\ hasResult /\ ~bowedOut
    IN  /\ prevLedgerID' = net
        /\ mode' = IF proposing THEN "observing" ELSE mode
        /\ bowedOut' = (bowedOut \/ bowsOut)
        /\ sent' = IF bowsOut THEN "bowOut" ELSE sent
        /\ disputes' = noDisputes
        /\ compares' = {}
        /\ peerProposals' = noProposals
        /\ deadNodes' = {}
        /\ UNCHANGED <<phase, previousLedger, prevRoundVars, acquired, hasResult, set, roundTime,
                       playing, storeVars, setVars, rounds>>

(* timerEntry up to the end of checkLedger; then it handles the phase it   *)
(* finds when checkLedger has returned.                                    *)
timerEntry(rest) ==
    IF phase = "accepted"
      THEN /\ todo' = rest
           /\ UNCHANGED <<roundVars, playing, envVars>>
      ELSE \/ /\ todo' = (IF previousLedger # prevLedgerID
                            THEN <<"acquire">> ELSE <<>>)
                             \o <<"phase">> \o rest
              /\ UNCHANGED <<roundVars, playing, envVars>>
           \/ /\ views < MaxViews
              /\ views' = views + 1
              /\ \E net \in LedgerIDs \ {prevLedgerID} : switchView(net)
              /\ todo' = <<"playback", "acquire", "phase">> \o rest

----------------------------------------------------------------------------
(* phaseOpen and closeLedger.                                              *)

\* giveSet of a set we made: the request for it, if there is one, is dropped.
relaySet(s) ==
    /\ available' = available \cup {s}
    /\ requested' = requested \ {s}

\* Whether phaseOpen may find that it is time to close.  idleInterval is
\* always 300 s, since twice the coarsest resolution is less.
mayClose ==
    {shouldCloseLedger(any, prevProposers, Cardinality(peersIn(peerProposals)),
                       validated, prevRoundTime, since, open,
                       LEDGER_IDLE_INTERVAL) :
        any \in BOOLEAN, validated \in 0..Cardinality(Peers),
        since \in RoundTimes, open \in RoundTimes}

\* Mutant: the new position is not put into acquired_.
closeLedgerNotAcquired(s) ==
    /\ phase' = "establish"
    /\ hasResult' = TRUE
    /\ set' = s
    /\ roundTime' = 0
    /\ sent' = IF proposing THEN "position" ELSE sent
    /\ UNCHANGED <<bowedOut, acquired, voteVars, setVars>>

\* onClose builds our initial position s from the open ledger.
closeLedger(s) ==
    LET acq == acquired \cup {s}
        compared == {peerProposals[p].position : p \in peersIn(peerProposals)}
                        \cap acq
    IN  /\ phase' = "establish"
        /\ hasResult' = TRUE
        /\ set' = s
        /\ roundTime' = 0
        /\ acquired' = acq
        /\ IF s \in acquired THEN UNCHANGED setVars ELSE relaySet(s)
        /\ sent' = IF proposing THEN "position" ELSE sent
        /\ compares' = compared
        /\ disputes' = createDisputes(s, compared, disputes,
                                      peerProposals, acq)
        /\ UNCHANGED bowedOut

phaseOpen ==
    /\ \E close \in mayClose :
         IF close
           THEN \E s \in OpenSets : closeLedger(s)
           ELSE UNCHANGED <<phase, acquired, stanceVars, voteVars, sent,
                            setVars>>
    /\ UNCHANGED <<prevRoundVars, peerVars>>

----------------------------------------------------------------------------
(* phaseEstablish.                                                         *)

convergePercent(t) == (t * 100) \div larger(prevRoundTime,
                                            AV_MIN_CONSENSUS_TIME)

\* updateVote on every dispute.
updateVotes(dis, percentTime) ==
    [tx \in Txs |->
        IF dis[tx] = None
          THEN None
          ELSE [dis[tx] EXCEPT !.ourVote =
                  newPosition(dis[tx].ourVote,
                              Cardinality(votersFor(dis[tx].votes, "yes")),
                              Cardinality(votersFor(dis[tx].votes, "no")),
                              percentTime, proposing)]]

\* Mutant: the new set is not installed.
setVotedByNobody(dis) == set

\* The set that follows the votes of dis on the disputed transactions.
setVotedBy(dis) ==
    {tx \in Txs : IF dis[tx] = None THEN tx \in set ELSE dis[tx].ourVote}

\* The peers in stale have not renewed their positions; refresh says that the
\* consensus close time moved or that our own position is stale.
updateOurPositions(t, stale, refresh) ==
    LET dis == updateVotes(unVotes(disputes, stale), convergePercent(t))
        moves == refresh \/ \E tx \in Txs : /\ disputes[tx] # None
                                            /\ dis[tx].ourVote
                                                 # disputes[tx].ourVote
        newSet == IF moves THEN setVotedBy(dis) ELSE set
        shares == moves /\ ~bowedOut
    IN  /\ disputes' = dis
        /\ peerProposals' = [p \in Peers |-> IF p \in stale
                                               THEN None
                                               ELSE peerProposals[p]]
        /\ set' = newSet
        /\ acquired' = IF shares THEN acquired \cup {newSet} ELSE acquired
        /\ IF shares /\ newSet \notin acquired
             THEN relaySet(newSet) ELSE UNCHANGED setVars
        /\ sent' = IF shares /\ proposing THEN "position" ELSE sent
        /\ UNCHANGED <<compares, deadNodes, bowedOut, hasResult>>

\* haveConsensus and the end of phaseEstablish; closeTimeAgreed is the outcome
\* of the vote on the close time, and finished what the validations say.
checkForConsensus(t, closeTimeAgreed, finished) ==
    LET current == peersIn(peerProposals')
        agree == {p \in current : peerProposals'[p].position = set'}
        state == checkConsensus(prevProposers, Cardinality(current),
                                Cardinality(agree), finished,
                                prevRoundTime, t, proposing)
    IN  IF state = "No" \/ (current # {} /\ ~closeTimeAgreed)
          THEN UNCHANGED <<phase, prevRoundVars>>
          ELSE /\ phase' = "accepted"
               /\ prevProposers' = Cardinality(current)
               /\ prevRoundTime' = t

phaseEstablish ==
    \E t \in {u \in RoundTimes : u >= roundTime} :
        /\ roundTime' = t
        /\ IF t < LEDGER_MIN_CONSENSUS
             THEN UNCHANGED <<phase, prevRoundVars,
                              peerVars, acquired, hasResult, set, bowedOut,
                              voteVars, sent, setVars>>
             ELSE \E stale \in SUBSET peersIn(peerProposals),
                     refresh, agreed \in BOOLEAN,
                     finished \in 0..Cardinality(Peers) :
                    /\ updateOurPositions(t, stale, refresh)
                    /\ checkForConsensus(t, agreed, finished)

----------------------------------------------------------------------------
(* Entry points: they take lock_, so no call is in progress.               *)

\* A proposal of a trusted peer passes the HashRouter once; peers sign one
\* position per sequence number.
StoreProposal(q) ==
    /\ received < MaxReceived
    /\ \A i \in DOMAIN stored[q.node] :
           <<stored[q.node][i].prev, stored[q.node][i].seq>> # <<q.prev, q.seq>>
    /\ received' = received + 1
    /\ stored' = [stored EXCEPT ![q.node] =
                    Append(IF Len(@) >= MaxStored THEN Tail(@) ELSE @, q)]
    /\ arriving' = arriving \cup {q}
    /\ UNCHANGED <<roundVars, callVars, setVars, boundVars>>

PeerProposal(q) ==
    /\ todo = <<>>
    /\ arriving' = arriving \ {q}
    /\ peerProposal(q)
    /\ UNCHANGED <<phase, mode, ledgerVars, prevRoundVars, stanceVars, sent, callVars, stored,
                   received, available, boundVars>>

\* A set that was requested arrives: giveSet keeps it and mapComplete hands it
\* to gotTxSet.  A proposal that finds the set between the two has the effect
\* of one that comes after them.
GotTxSet(s) ==
    /\ todo = <<>>
    /\ requested' = requested \ {s}
    /\ available' = available \cup {s}
    /\ gotTxSet(s, peerProposals)
    /\ UNCHANGED <<phase, mode, ledgerVars, prevRoundVars, peerVars, stanceVars, sent, callVars,
                   storeVars, boundVars>>

\* beginConsensus, when the accepted ledger has been built or at start-up.
StartRound(id, ledger, propose) ==
    /\ todo = <<>>
    /\ phase = "accepted"
    /\ rounds < MaxRounds
    /\ rounds' = rounds + 1
    /\ sent' = "nothing"
    /\ startRoundInternal(id, ledger,
                          IF propose THEN "proposing" ELSE "observing", <<>>)
    /\ UNCHANGED views

TimerEntry ==
    /\ todo = <<>>
    /\ phase # "accepted"
    /\ timerEntry(<<>>)

----------------------------------------------------------------------------
(* Calls in progress, the innermost first.                                 *)

calling(task) == todo # <<>> /\ Head(todo) = task

\* Mutants: a failed acquisition goes unnoticed; the node proposes again on
\* the ledger it switched to.
AcquireKeepsMode ==
    /\ calling("acquire")
    /\ todo' = Tail(todo)
    /\ UNCHANGED <<roundVars, playing, envVars>>

AcquireResumes ==
    /\ calling("acquire")
    /\ startRoundInternal(prevLedgerID, prevLedgerID, "proposing", Tail(todo))
    /\ UNCHANGED <<sent, boundVars>>

\* The second half of handleWrongLedger.
Acquire ==
    /\ calling("acquire")
    /\ \/ /\ previousLedger # prevLedgerID
          /\ startRoundInternal(prevLedgerID, prevLedgerID, "switchedLedger",
                                Tail(todo))
          /\ UNCHANGED <<sent, boundVars>>
       \/ /\ mode' = IF previousLedger # prevLedgerID THEN "wrongLedger"
                                                      ELSE mode
          /\ todo' = Tail(todo)
          /\ UNCHANGED <<phase, ledgerVars, prevRoundVars, peerVars, acquired, stanceVars,
                         voteVars, sent, playing, storeVars, setVars,
                         boundVars>>

\* playbackProposals asks for the stored proposals for our ledger.
Playback ==
    /\ calling("playback")
    /\ playing' = {q \in UNION {{stored[p][i] : i \in DOMAIN stored[p]} :
                                   p \in Peers} : q.prev = prevLedgerID}
    /\ todo' = <<"replay">> \o Tail(todo)
    /\ UNCHANGED <<roundVars, envVars>>

\* Mutant: the loop does not advance.
ReplayAgain(q) ==
    /\ calling("replay")
    /\ peerProposal(q)
    /\ UNCHANGED <<phase, mode, ledgerVars, prevRoundVars, stanceVars, sent,
                   callVars, storeVars, available, boundVars>>

Replay(q) ==
    /\ calling("replay")
    /\ playing' = playing \ {q}
    /\ peerProposal(q)
    /\ UNCHANGED <<phase, mode, ledgerVars, prevRoundVars, stanceVars, sent, todo, storeVars,
                   available, boundVars>>

ReplayDone ==
    /\ calling("replay")
    /\ playing = {}
    /\ todo' = Tail(todo)
    /\ UNCHANGED <<roundVars, playing, envVars>>

\* The end of startRoundInternal.
FallingBehind ==
    /\ calling("fallingBehind")
    /\ IF Cardinality(peersIn(peerProposals)) > prevProposers \div 2
         THEN timerEntry(Tail(todo))
         ELSE /\ todo' = Tail(todo)
              /\ UNCHANGED <<roundVars, playing, envVars>>

\* The end of timerEntry.
Phase ==
    /\ calling("phase")
    /\ todo' = Tail(todo)
    /\ \/ phase = "open" /\ phaseOpen
       \/ phase = "establish" /\ phaseEstablish
       \/ /\ phase = "accepted"
          /\ UNCHANGED <<phase, prevRoundVars,
                         peerVars, acquired, stanceVars, voteVars, sent,
                         setVars>>
    /\ UNCHANGED <<mode, ledgerVars, playing, storeVars, boundVars>>

----------------------------------------------------------------------------
\* The part of Next that runs while lock_ is held.
InProgress ==
    \/ Acquire
    \/ Playback
    \/ \E q \in playing : Replay(q)
    \/ ReplayDone
    \/ FallingBehind
    \/ Phase

Next ==
    \/ \E q \in Proposals : StoreProposal(q)
    \/ \E q \in arriving : PeerProposal(q)
    \/ \E s \in requested : GotTxSet(s)
    \/ \E id, ledger \in LedgerIDs, propose \in BOOLEAN :
           StartRound(id, ledger, propose)
    \/ TimerEntry
    \/ InProgress

Spec == Init /\ [][Next]_vars

\* A thread that holds lock_ goes on: the calls it makes do not block.
FairSpec == Spec /\ WF_vars(InProgress)

----------------------------------------------------------------------------
(* The asserts of closeLedger, phaseEstablish, updateOurPositions and      *)
(* createDisputes on result_: an open round has no position yet, however   *)
(* often it was restarted, and a round in establish has one.               *)
PositionMatchesPhase ==
    /\ phase = "open" => ~hasResult
    /\ phase = "establish" => hasResult

(* Our vote on a disputed transaction says whether our set holds it, so    *)
(* that doAccept, which retries the transactions we voted against, never   *)
(* retries one that is in the ledger and never forgets one that is not.    *)
OurVotesMatchOurSet ==
    \A tx \in Txs : disputes[tx] # None => disputes[tx].ourVote = (tx \in set)

(* createDisputes skips the sets it has compared before.  That is right    *)
(* only if our set, which has changed since, still differs from them in    *)
(* disputed transactions alone.                                            *)
DifferencesAreDisputed ==
    \A o \in compares : \A tx \in SymDiff(set, o) : disputes[tx] # None

(* Only peers with a current position are counted on a dispute: no vote    *)
(* outlives a bow-out, a stale position or a change of ledger.             *)
VotersHavePositions ==
    \A tx \in Txs, p \in Peers :
        disputes[tx] # None /\ disputes[tx].votes[p] # "none"
            => peerProposals[p] # None

(* Every position counted in this round builds on the ledger we build on,  *)
(* and a peer that bowed out has none, also when its old proposals are     *)
(* replayed or arrive late.                                                *)
PositionsAreCurrent ==
    \A p \in Peers :
        peerProposals[p] # None =>
            /\ peerProposals[p].prev = prevLedgerID
            /\ peerProposals[p].seq # seqLeave
            /\ p \notin deadNodes

(* The comment in gotTxSet, "Our position is added to acquired_ as soon as *)
(* we create it", for a node that has not bowed out.                       *)
OurSetIsAcquired == hasResult /\ ~bowedOut => set \in acquired

(* Between two calls, a node whose prior ledger is not the one it should   *)
(* build on knows it: it neither proposes nor claims to be in sync.        *)
WrongLedgerIsKnown ==
    todo = <<>> /\ previousLedger # prevLedgerID => mode = "wrongLedger"

(* The comment in CCLConsensus::onAccept: "once a ledger is accepted,      *)
(* consensus will not touch any internal state until startRound is         *)
(* called".  The accept job reads this state without lock_.                *)
FrozenWhileAccepted ==
    [][phase = "accepted" /\ phase' = "accepted" =>
         UNCHANGED <<ledgerVars, mode, stanceVars, voteVars>>]_vars

(* A node that left the round, because the preferred ledger changed, takes *)
(* no part in it again: it sends no position after its bow-out, and it     *)
(* proposes again only when startRound is called.                          *)
NoReturnBeforeNextRound ==
    [][/\ sent = "bowOut" => sent' # "position"
       /\ mode' = "proposing" /\ mode # "proposing" => phase = "accepted"
       /\ mode \in {"wrongLedger", "switchedLedger"}
              /\ mode' \in {"proposing", "observing"} => phase = "accepted"]_vars

(* handleWrongLedger, startRoundInternal and timerEntry call each other,   *)
(* but as long as the preferred ledger does not change for ever, every     *)
(* call returns and lock_ is released.                                     *)
CallsReturn == todo # <<>> ~> todo = <<>>

----------------------------------------------------------------------------
(* Consensus.h on Mode::wrongLedger: "We have the wrong ledger and are     *)
(* attempting to acquire it"; docs/consensus.qbk: "Wrong Ledger indicates  *)
(* the node is not working on the correct prior ledger".                   *)
WrongLedgerModeMeansWrongLedger ==
    todo = <<>> /\ mode = "wrongLedger" => previousLedger # prevLedgerID

(* docs/consensus.qbk: calls to peerProposal or gotTxSet "will update the  *)
(* peer's vote for all disputed transactions".  So a peer whose position   *)
(* we have the transactions of is counted as that position votes.          *)
VotesFollowPositions ==
    \A tx \in Txs, p \in Peers :
        /\ phase = "establish"
        /\ disputes[tx] # None
        /\ peerProposals[p] # None
        /\ peerProposals[p].position \in acquired
        => disputes[tx].votes[p] = voteFor(tx \in peerProposals[p].position)

(* The assert in gotTxSet: a set acquired from the network is not the one  *)
(* we propose.                                                             *)
AcquiredSetDiffersFromOurs ==
    [][\A s \in acquired' \ acquired :
         hasResult /\ hasResult' /\ set' = set => s # set]_vars
=============================================================================

--------------------------- MODULE ConsensusProofs ---------------------------
(***************************************************************************)
(* Proofs about module Consensus, for any number of peers, transactions    *)
(* and ledgers, and without the bounds: the safety invariants and action   *)
(* properties the model-checking runs check on small instances.            *)
(***************************************************************************)
EXTENDS Consensus, FiniteSetTheorems, TLAPS

\* The provers of a step that names none, in the order they are tried.
USE SMT, Zenon, SMTT(30)

(* The invariants on disputes, for the set s, the disputes dis, the        *)
(* compared sets cmp and the peer positions pp.                            *)
DisputesOK(s, dis, cmp, pp) ==
    /\ s \in TxSets
    /\ dis \in [Txs -> Disputes \cup {None}]
    /\ cmp \subseteq TxSets
    /\ \A tx \in Txs : dis[tx] # None => dis[tx].ourVote = (tx \in s)
    /\ \A o \in cmp : \A tx \in SymDiff(s, o) : dis[tx] # None
    /\ \A tx \in Txs, p \in Peers :
          dis[tx] # None /\ dis[tx].votes[p] # "none" => pp[p] # None

PosType == [Peers -> Proposals \cup {None}]

LEMMA NoneProps ==
    /\ \A d \in Disputes : d # None
    /\ \A q \in Proposals : q # None
BY NoneAssumption

LEMMA DisputeFields ==
    \A d \in Disputes : /\ d.ourVote \in BOOLEAN
                        /\ d.votes \in [Peers -> Votes]
BY DEF Disputes

LEMMA ProposalFields ==
    \A q \in Proposals : /\ q.node \in Peers
                         /\ q.prev \in LedgerIDs
                         /\ q.seq \in Nat
                         /\ q.position \in TxSets
BY BoundsAssumption DEF Proposals, TxSets

\* Without disputes there is nothing to keep.
LEMMA NoDisputesOK ==
    ASSUME NEW s \in TxSets, NEW pp
    PROVE  DisputesOK(s, noDisputes, {}, pp)
BY DEF DisputesOK, noDisputes

\* More positions never hurt.
LEMMA MorePositionsOK ==
    ASSUME NEW s, NEW dis, NEW cmp, NEW pp, NEW pp2,
           DisputesOK(s, dis, cmp, pp),
           \A p \in Peers : pp[p] # None => pp2[p] # None
    PROVE  DisputesOK(s, dis, cmp, pp2)
BY DEF DisputesOK

LEMMA VotesOnType ==
    ASSUME NEW tx, NEW pp, NEW acq
    PROVE  /\ votesOn(tx, pp, acq) \in [Peers -> Votes]
           /\ \A p \in Peers : votesOn(tx, pp, acq)[p] # "none"
                                   => pp[p] # None
BY DEF votesOn, Votes, voteFor, peersIn

\* createDisputes disputes every difference, and votes as our set does.
LEMMA CreateDisputesOK ==
    ASSUME NEW s, NEW dis, NEW cmp, NEW pp, NEW acq,
           NEW others \in SUBSET TxSets,
           DisputesOK(s, dis, cmp, pp)
    PROVE  DisputesOK(s, createDisputes(s, others, dis, pp, acq),
                      cmp \cup others, pp)
<1> DEFINE new(tx) == [ourVote |-> tx \in s, votes |-> votesOn(tx, pp, acq)]
           res == createDisputes(s, others, dis, pp, acq)
<1>1. \A tx \in Txs : new(tx) \in Disputes
  BY VotesOnType DEF Disputes
<1>2. \A tx \in Txs :
         res[tx] = IF dis[tx] = None /\ \E o \in others : tx \in SymDiff(s, o)
                     THEN new(tx) ELSE dis[tx]
  BY DEF createDisputes
<1>3. res \in [Txs -> Disputes \cup {None}]
  BY <1>1 DEF createDisputes, DisputesOK
<1>4. ASSUME NEW tx \in Txs, res[tx] # None
      PROVE  res[tx].ourVote = (tx \in s)
  <2>1. CASE res[tx] = new(tx)
    <3>1. new(tx).ourVote = (tx \in s)
      OBVIOUS
    <3> QED BY <3>1, <2>1
  <2>2. CASE res[tx] = dis[tx]
    <3>1. dis[tx].ourVote = (tx \in s)
      BY <2>2, <1>4 DEF DisputesOK
    <3> QED BY <3>1, <2>2
  <2> QED BY <2>1, <2>2, <1>2
<1>5. ASSUME NEW o \in cmp \cup others, NEW tx \in SymDiff(s, o)
      PROVE  res[tx] # None
  <2>1. o \in TxSets /\ s \in TxSets
    BY DEF DisputesOK
  <2>2. tx \in Txs
    BY <2>1 DEF SymDiff, TxSets
  <2>3. CASE o \in cmp
    <3>1. dis[tx] # None
      BY <2>3 DEF DisputesOK
    <3> QED BY Zenon, <3>1, <2>2, <1>2
  <2>4. CASE o \in others
    <3>1. CASE dis[tx] = None
      <4>1. res[tx] = new(tx)
        BY <2>4, <3>1, <2>2, <1>2
      <4> QED BY <4>1, <2>2, <1>1, NoneProps
    <3>2. CASE dis[tx] # None
      BY Zenon, <3>2, <2>2, <1>2
    <3> QED BY <3>1, <3>2
  <2> QED BY <2>3, <2>4
<1>6. ASSUME NEW tx \in Txs, NEW p \in Peers,
             res[tx] # None, res[tx].votes[p] # "none"
      PROVE  pp[p] # None
  <2>1. CASE dis[tx] = None
    <3>1. res[tx] = new(tx)
      BY <2>1, <1>2, <1>6
    <3>2. res[tx].votes = votesOn(tx, pp, acq)
      BY <3>1
    <3> QED BY <3>2, <1>6, VotesOnType
  <2>2. CASE dis[tx] # None
    <3>1. res[tx] = dis[tx]
      BY Zenon, <2>2, <1>2
    <3> QED BY <3>1, <2>2, <1>6 DEF DisputesOK
  <2> QED BY <2>1, <2>2
<1>7. s \in TxSets /\ cmp \cup others \subseteq TxSets
  BY DEF DisputesOK
<1>8. DisputesOK(s, res, cmp \cup others, pp)
  <2> HIDE DEF res
  <2> QED BY <1>3, <1>4, <1>5, <1>6, <1>7 DEF DisputesOK
<1> QED BY <1>8

\* setVote keeps the invariants when the voters have positions.
LEMMA SetVotesOK ==
    ASSUME NEW s, NEW dis, NEW cmp, NEW pp, NEW other,
           NEW nodes \in SUBSET peersIn(pp),
           DisputesOK(s, dis, cmp, pp)
    PROVE  DisputesOK(s, setVotes(dis, nodes, other), cmp, pp)
<1> DEFINE res == setVotes(dis, nodes, other)
           new(tx) == [p \in Peers |-> IF p \in nodes
                                         THEN voteFor(tx \in other)
                                         ELSE dis[tx].votes[p]]
<1>1. ASSUME NEW tx \in Txs, dis[tx] # None
      PROVE  /\ res[tx] \in Disputes
             /\ res[tx].ourVote = dis[tx].ourVote
             /\ res[tx].votes = new(tx)
  <2>1. dis[tx] \in Disputes
    BY <1>1 DEF DisputesOK
  <2>2. res[tx] = [dis[tx] EXCEPT !.votes = new(tx)]
    BY <1>1 DEF setVotes
  <2>3. new(tx) \in [Peers -> Votes]
    BY <2>1, DisputeFields DEF voteFor, Votes
  <2> HIDE DEF new
  <2> QED BY <2>1, <2>2, <2>3 DEF Disputes
<1>2. \A tx \in Txs : dis[tx] = None => res[tx] = None
  BY DEF setVotes
<1>3. res \in [Txs -> Disputes \cup {None}]
  <2>1. \A tx \in Txs : res[tx] \in Disputes \cup {None}
    BY Zenon, <1>1, <1>2
  <2>2. res = [tx \in Txs |-> res[tx]]
    BY DEF setVotes
  <2> HIDE DEF res
  <2> QED BY <2>1, <2>2
<1>4. ASSUME NEW tx \in Txs, res[tx] # None
      PROVE  res[tx].ourVote = (tx \in s)
  BY Zenon, <1>4, <1>1, <1>2 DEF DisputesOK
<1>5. ASSUME NEW o \in cmp, NEW tx \in SymDiff(s, o)
      PROVE  res[tx] # None
  <2>1. dis[tx] # None
    BY DEF DisputesOK
  <2>2. tx \in Txs
    BY DEF DisputesOK, SymDiff, TxSets
  <2> QED BY Zenon, <2>1, <2>2, <1>1, NoneProps
<1>6. ASSUME NEW tx \in Txs, NEW p \in Peers,
             res[tx] # None, res[tx].votes[p] # "none"
      PROVE  pp[p] # None
  <2>1. dis[tx] # None /\ res[tx].votes[p] = new(tx)[p]
    BY Zenon, <1>6, <1>1, <1>2
  <2>2. CASE p \in nodes
    BY <2>2 DEF peersIn
  <2>3. CASE p \notin nodes
    BY <2>1, <2>3, <1>6 DEF DisputesOK
  <2> QED BY <2>2, <2>3
<1>7. s \in TxSets /\ cmp \subseteq TxSets
  BY DEF DisputesOK
<1>8. DisputesOK(s, res, cmp, pp)
  <2> HIDE DEF res
  <2> QED BY <1>3, <1>4, <1>5, <1>6, <1>7 DEF DisputesOK
<1> QED BY <1>8

\* unVote keeps the invariants when no other peer loses its position.
LEMMA UnVotesOK ==
    ASSUME NEW s, NEW dis, NEW cmp, NEW pp, NEW pp2, NEW nodes,
           DisputesOK(s, dis, cmp, pp),
           \A p \in Peers : p \notin nodes /\ pp[p] # None => pp2[p] # None
    PROVE  DisputesOK(s, unVotes(dis, nodes), cmp, pp2)
<1> DEFINE res == unVotes(dis, nodes)
           new(tx) == [p \in Peers |-> IF p \in nodes THEN "none"
                                                      ELSE dis[tx].votes[p]]
<1>1. ASSUME NEW tx \in Txs, dis[tx] # None
      PROVE  /\ res[tx] \in Disputes
             /\ res[tx].ourVote = dis[tx].ourVote
             /\ res[tx].votes = new(tx)
  <2>1. dis[tx] \in Disputes
    BY <1>1 DEF DisputesOK
  <2>2. res[tx] = [dis[tx] EXCEPT !.votes = new(tx)]
    BY <1>1 DEF unVotes
  <2>3. new(tx) \in [Peers -> Votes]
    BY <2>1, DisputeFields DEF Votes
  <2> HIDE DEF new
  <2> QED BY <2>1, <2>2, <2>3 DEF Disputes
<1>2. \A tx \in Txs : dis[tx] = None => res[tx] = None
  BY DEF unVotes
<1>3. res \in [Txs -> Disputes \cup {None}]
  <2>1. \A tx \in Txs : res[tx] \in Disputes \cup {None}
    BY Zenon, <1>1, <1>2
  <2>2. res = [tx \in Txs |-> res[tx]]
    BY DEF unVotes
  <2> HIDE DEF res
  <2> QED BY <2>1, <2>2
<1>4. ASSUME NEW tx \in Txs, res[tx] # None
      PROVE  res[tx].ourVote = (tx \in s)
  BY Zenon, <1>4, <1>1, <1>2 DEF DisputesOK
<1>5. ASSUME NEW o \in cmp, NEW tx \in SymDiff(s, o)
      PROVE  res[tx] # None
  <2>1. dis[tx] # None
    BY DEF DisputesOK
  <2>2. tx \in Txs
    BY DEF DisputesOK, SymDiff, TxSets
  <2> QED BY Zenon, <2>1, <2>2, <1>1, NoneProps
<1>6. ASSUME NEW tx \in Txs, NEW p \in Peers,
             res[tx] # None, res[tx].votes[p] # "none"
      PROVE  pp2[p] # None
  <2>1. dis[tx] # None /\ res[tx].votes[p] = new(tx)[p]
    BY Zenon, <1>6, <1>1, <1>2
  <2>2. p \notin nodes /\ dis[tx].votes[p] # "none"
    BY <2>1, <1>6
  <2> QED BY <2>1, <2>2 DEF DisputesOK
<1>7. s \in TxSets /\ cmp \subseteq TxSets
  BY DEF DisputesOK
<1>8. DisputesOK(s, res, cmp, pp2)
  <2> HIDE DEF res
  <2> QED BY <1>3, <1>4, <1>5, <1>6, <1>7 DEF DisputesOK
<1> QED BY <1>8

LEMMA NewPositionIsBoolean ==
    ASSUME NEW our \in BOOLEAN, NEW yes \in Nat, NEW no \in Nat,
           NEW pct \in Nat, NEW prop \in BOOLEAN
    PROVE  newPosition(our, yes, no, pct, prop) \in BOOLEAN
<1> DEFINE weight == (yes * 100 + (IF our THEN 100 ELSE 0)) \div (no + yes + 1)
<1>1. (weight > neededWeight(pct)) \in BOOLEAN
  OBVIOUS
<1>2. (yes > no) \in BOOLEAN
  OBVIOUS
<1> HIDE DEF weight
<1>3. CASE (our /\ no = 0) \/ (~our /\ yes = 0)
  <2>1. newPosition(our, yes, no, pct, prop) = our
    BY <1>3, Zenon DEF newPosition
  <2> QED BY <2>1
<1>4. CASE ~((our /\ no = 0) \/ (~our /\ yes = 0)) /\ prop
  <2>1. newPosition(our, yes, no, pct, prop) = (weight > neededWeight(pct))
    BY <1>4, Zenon DEF newPosition, weight
  <2> QED BY <2>1, <1>1
<1>5. CASE ~((our /\ no = 0) \/ (~our /\ yes = 0)) /\ ~prop
  <2>1. newPosition(our, yes, no, pct, prop) = (yes > no)
    BY <1>5, Zenon DEF newPosition
  <2> QED BY <2>1, <1>2
<1> QED BY <1>3, <1>4, <1>5

\* The number of votes of a kind is a natural number.
LEMMA VotersCounted ==
    ASSUME NEW vs \in [Peers -> Votes], NEW v
    PROVE  Cardinality(votersFor(vs, v)) \in Nat
<1>1. votersFor(vs, v) \subseteq Peers
  BY DEF votersFor
<1> QED BY <1>1, PeersAssumption, FS_Subset, FS_CardinalityType

\* updateVote changes nothing but our vote.
LEMMA UpdateVotesProps ==
    ASSUME NEW dis \in [Txs -> Disputes \cup {None}], NEW pct \in Nat
    PROVE  /\ updateVotes(dis, pct) \in [Txs -> Disputes \cup {None}]
           /\ \A tx \in Txs :
                 /\ dis[tx] = None <=> updateVotes(dis, pct)[tx] = None
                 /\ dis[tx] # None =>
                       /\ updateVotes(dis, pct)[tx].ourVote \in BOOLEAN
                       /\ updateVotes(dis, pct)[tx].votes = dis[tx].votes
<1> DEFINE res == updateVotes(dis, pct)
           new(tx) == newPosition(dis[tx].ourVote,
                              Cardinality(votersFor(dis[tx].votes, "yes")),
                              Cardinality(votersFor(dis[tx].votes, "no")),
                              pct, proposing)
<1>1. ASSUME NEW tx \in Txs, dis[tx] # None
      PROVE  /\ res[tx] \in Disputes
             /\ res[tx].ourVote \in BOOLEAN
             /\ res[tx].votes = dis[tx].votes
  <2>1. dis[tx] \in Disputes
    BY <1>1
  <2>2. res[tx] = [dis[tx] EXCEPT !.ourVote = new(tx)]
    BY <1>1 DEF updateVotes
  <2>3. new(tx) \in BOOLEAN
    BY Zenon, <2>1, DisputeFields, VotersCounted, NewPositionIsBoolean DEF proposing
  <2> HIDE DEF new
  <2> QED BY <2>1, <2>2, <2>3 DEF Disputes
<1>2. \A tx \in Txs : dis[tx] = None => res[tx] = None
  BY DEF updateVotes
<1>3. \A tx \in Txs : res[tx] \in Disputes \cup {None}
  BY <1>1, <1>2
<1>4. res = [tx \in Txs |-> res[tx]]
  BY DEF updateVotes
<1> HIDE DEF res
<1>5. res \in [Txs -> Disputes \cup {None}]
  BY <1>3, <1>4
<1>6. \A tx \in Txs : /\ dis[tx] = None <=> res[tx] = None
                      /\ dis[tx] # None =>
                            /\ res[tx].ourVote \in BOOLEAN
                            /\ res[tx].votes = dis[tx].votes
  BY <1>1, <1>2, NoneProps
<1> QED BY <1>5, <1>6 DEF res

\* unVote neither creates nor removes a dispute, nor moves our vote.
LEMMA UnVotesKeeps ==
    ASSUME NEW dis \in [Txs -> Disputes \cup {None}], NEW nodes,
           NEW tx \in Txs
    PROVE  /\ dis[tx] = None => unVotes(dis, nodes)[tx] = None
           /\ dis[tx] # None =>
                 unVotes(dis, nodes)[tx].ourVote = dis[tx].ourVote
<1>1. CASE dis[tx] = None
  BY <1>1 DEF unVotes
<1>2. CASE dis[tx] # None
  <2> DEFINE new == [p \in Peers |-> IF p \in nodes THEN "none"
                                                   ELSE dis[tx].votes[p]]
  <2>1. dis[tx] \in Disputes
    BY <1>2
  <2>2. unVotes(dis, nodes)[tx] = [dis[tx] EXCEPT !.votes = new]
    BY <1>2 DEF unVotes
  <2> HIDE DEF new
  <2> QED BY <1>2, <2>1, <2>2 DEF Disputes
<1> QED BY <1>1, <1>2

\* The set that follows our new votes agrees with them, and differs from our
\* old set in disputed transactions only.
LEMMA MovedSetOK ==
    ASSUME NEW dis, NEW cmp, NEW pp, NEW pct \in Nat,
           DisputesOK(set, dis, cmp, pp)
    PROVE  DisputesOK(setVotedBy(updateVotes(dis, pct)),
                      updateVotes(dis, pct), cmp, pp)
<1> DEFINE res == updateVotes(dis, pct)
           moved == setVotedBy(res)
<1>1. /\ res \in [Txs -> Disputes \cup {None}]
      /\ \A tx \in Txs : /\ dis[tx] = None <=> res[tx] = None
                         /\ dis[tx] # None =>
                               /\ res[tx].ourVote \in BOOLEAN
                               /\ res[tx].votes = dis[tx].votes
  BY UpdateVotesProps DEF DisputesOK
<1> HIDE DEF res
<1>2. moved \in TxSets
  BY DEF setVotedBy, TxSets
<1>3. ASSUME NEW tx \in Txs, res[tx] # None
      PROVE  res[tx].ourVote = (tx \in moved)
  <2>1. res[tx].ourVote \in BOOLEAN
    BY <1>1, <1>3
  <2>2. tx \in moved <=> res[tx].ourVote
    BY <1>3, Zenon DEF setVotedBy
  <2> HIDE DEF moved
  <2> QED BY <2>1, <2>2
<1>4. ASSUME NEW o \in cmp, NEW tx \in SymDiff(moved, o)
      PROVE  res[tx] # None
  <2>1. tx \in Txs
    BY <1>2 DEF SymDiff, TxSets, DisputesOK
  <2>2. SUFFICES ASSUME res[tx] = None
                 PROVE  FALSE
    OBVIOUS
  <2>3. tx \in moved <=> tx \in set
    BY <2>1, <2>2 DEF setVotedBy
  <2>4. tx \in SymDiff(set, o)
    BY <2>3 DEF SymDiff
  <2> QED BY <2>1, <2>2, <2>4, <1>1 DEF DisputesOK
<1>5. ASSUME NEW tx \in Txs, NEW p \in Peers,
             res[tx] # None, res[tx].votes[p] # "none"
      PROVE  pp[p] # None
  BY <1>1, <1>5 DEF DisputesOK
<1>6. cmp \subseteq TxSets
  BY DEF DisputesOK
<1>7. DisputesOK(moved, res, cmp, pp)
  <2> HIDE DEF moved
  <2> QED BY <1>1, <1>2, <1>3, <1>4, <1>5, <1>6 DEF DisputesOK
<1> QED BY <1>7 DEF res

\* If no vote moved, our old set will do.
LEMMA UnmovedSetOK ==
    ASSUME NEW dis, NEW cmp, NEW pp, NEW pct \in Nat,
           DisputesOK(set, dis, cmp, pp),
           \A tx \in Txs : dis[tx] # None =>
               updateVotes(dis, pct)[tx].ourVote = dis[tx].ourVote
    PROVE  DisputesOK(set, updateVotes(dis, pct), cmp, pp)
<1> DEFINE res == updateVotes(dis, pct)
<1>1. /\ res \in [Txs -> Disputes \cup {None}]
      /\ \A tx \in Txs : /\ dis[tx] = None <=> res[tx] = None
                         /\ dis[tx] # None => res[tx].votes = dis[tx].votes
  BY UpdateVotesProps DEF DisputesOK
<1>2. \A tx \in Txs : dis[tx] # None => res[tx].ourVote = dis[tx].ourVote
  OBVIOUS
<1> HIDE DEF res
<1>3. ASSUME NEW tx \in Txs, res[tx] # None
      PROVE  res[tx].ourVote = (tx \in set)
  BY <1>1, <1>2, <1>3 DEF DisputesOK
<1>4. ASSUME NEW o \in cmp, NEW tx \in SymDiff(set, o)
      PROVE  res[tx] # None
  <2>1. tx \in Txs
    BY DEF SymDiff, TxSets, DisputesOK
  <2> QED BY <2>1, <1>1 DEF DisputesOK
<1>5. ASSUME NEW tx \in Txs, NEW p \in Peers,
             res[tx] # None, res[tx].votes[p] # "none"
      PROVE  pp[p] # None
  BY <1>1, <1>5 DEF DisputesOK
<1>6. DisputesOK(set, res, cmp, pp)
  BY <1>1, <1>3, <1>4, <1>5 DEF DisputesOK
<1> QED BY <1>6 DEF res

----------------------------------------------------------------------------
(* The inductive invariant.                                                *)

\* Without a position there are no disputes.
NoStanceNoDisputes == ~hasResult => disputes = noDisputes /\ compares = {}

\* Only a replay of proposals comes before the acquisition of a ledger.
ordered(calls) ==
    \A i, j \in DOMAIN calls :
        i < j /\ calls[j] = "acquire" => calls[i] \in {"playback", "replay"}

acquires(calls) == \E i \in DOMAIN calls : calls[i] = "acquire"

AcquireFirst == ordered(todo)
acquirePending == acquires(todo)

\* A node on the wrong ledger knows it or is about to acquire the right one.
WrongLedgerPending ==
    previousLedger # prevLedgerID => mode = "wrongLedger" \/ acquirePending

\* No acquisition is pending when a ledger has been accepted.
AcceptedIsSettled == phase = "accepted" => ~acquirePending

\* A node that sent its bow-out does not propose.
BowedOutIsSilent == sent = "bowOut" => mode # "proposing"

IInv ==
    /\ TypeOK
    /\ PositionMatchesPhase
    /\ DisputesOK(set, disputes, compares, peerProposals)
    /\ NoStanceNoDisputes
    /\ PositionsAreCurrent
    /\ OurSetIsAcquired
    /\ AcquireFirst
    /\ WrongLedgerPending
    /\ AcceptedIsSettled
    /\ BowedOutIsSilent

LEMMA InitIInv == Init => IInv
<1> SUFFICES ASSUME Init PROVE IInv
  OBVIOUS
<1> USE DEF Init
<1>1. TypeOK
  <2>1. <<>> \in Seq(Tasks) /\ <<>> \in Seq(Proposals)
    OBVIOUS
  <2>2. LEDGER_IDLE_INTERVAL \in Nat
    BY DEF LEDGER_IDLE_INTERVAL
  <2>3. noProposals \in PosType
    BY DEF noProposals, PosType
  <2>4. noDisputes \in [Txs -> Disputes \cup {None}]
    BY DEF noDisputes
  <2>5. stored \in [Peers -> Seq(Proposals)]
    BY <2>1
  <2>6. {{}} \subseteq TxSets /\ {} \in TxSets
    BY DEF TxSets
  <2>7. {received, rounds, views} \subseteq Nat
    OBVIOUS
  <2> QED BY ZenonT(60), <2>1, <2>2, <2>3, <2>4, <2>5, <2>6, <2>7 DEF TypeOK, PosType
<1>2. DisputesOK(set, disputes, compares, peerProposals)
  BY NoDisputesOK DEF TxSets
<1>3. PositionsAreCurrent
  BY DEF PositionsAreCurrent, noProposals
<1>4. /\ PositionMatchesPhase /\ NoStanceNoDisputes /\ OurSetIsAcquired
      /\ AcquireFirst /\ WrongLedgerPending /\ AcceptedIsSettled
      /\ BowedOutIsSilent
  BY DEF PositionMatchesPhase, NoStanceNoDisputes, OurSetIsAcquired,
         AcquireFirst, WrongLedgerPending, AcceptedIsSettled,
         BowedOutIsSilent, acquirePending, ordered, acquires
<1> QED BY <1>1, <1>2, <1>3, <1>4 DEF IInv

----------------------------------------------------------------------------
(* What the handlers' common parts preserve.                               *)

LEMMA UpdateDisputesOK ==
    ASSUME NEW pp, NEW acq, NEW other \in TxSets,
           NEW nodes \in SUBSET peersIn(pp),
           DisputesOK(set, disputes, compares, pp),
           updateDisputes(nodes, other, pp, acq)
    PROVE  DisputesOK(set, disputes', compares', pp)
<1> DEFINE dis == IF other \in compares
                    THEN disputes
                    ELSE createDisputes(set, {other}, disputes, pp, acq)
<1>1. DisputesOK(set, dis, compares \cup {other}, pp)
  <2>1. CASE other \in compares
    <3>1. compares \cup {other} = compares
      BY <2>1
    <3> QED BY <2>1, <3>1
  <2>2. CASE other \notin compares
    <3>1. {other} \in SUBSET TxSets
      OBVIOUS
    <3> QED BY <2>2, <3>1, CreateDisputesOK
  <2> QED BY <2>1, <2>2
<1>2. disputes' = setVotes(dis, nodes, other) /\ compares' = compares \cup {other}
  BY DEF updateDisputes
<1> HIDE DEF dis
<1> QED BY <1>1, <1>2, SetVotesOK

LEMMA GotTxSetOK ==
    ASSUME NEW s \in TxSets, NEW pp,
           acquired \subseteq TxSets,
           DisputesOK(set, disputes, compares, pp),
           gotTxSet(s, pp)
    PROVE  /\ DisputesOK(set, disputes', compares', pp)
           /\ acquired \subseteq acquired'
           /\ acquired' \subseteq TxSets
           /\ ~hasResult => UNCHANGED voteVars
           /\ phase = "accepted" => UNCHANGED voteVars
<1> DEFINE nodes == {p \in peersIn(pp) : pp[p].position = s}
<1>1. CASE UNCHANGED <<acquired, voteVars>>
  BY <1>1 DEF voteVars
<1>2. CASE /\ phase # "accepted"
           /\ acquired' = acquired \cup {s}
           /\ hasResult
           /\ updateDisputes(nodes, s, pp, acquired \cup {s})
  <2>1. nodes \in SUBSET peersIn(pp)
    OBVIOUS
  <2> HIDE DEF nodes
  <2>2. DisputesOK(set, disputes', compares', pp)
    BY <1>2, <2>1, UpdateDisputesOK
  <2> QED BY <1>2, <2>2
<1>3. CASE acquired' = acquired \cup {s} /\ UNCHANGED voteVars
  BY <1>3 DEF voteVars
<1> QED BY <1>1, <1>2, <1>3 DEF gotTxSet

LEMMA PeerProposalOK ==
    ASSUME IInv, NEW q \in Proposals, peerProposal(q),
           UNCHANGED <<phase, prevLedgerID, hasResult, set, bowedOut>>
    PROVE  /\ DisputesOK(set, disputes, compares, peerProposals)'
           /\ peerProposals' \in PosType
           /\ deadNodes' \subseteq Peers
           /\ acquired \subseteq acquired'
           /\ acquired' \subseteq TxSets
           /\ requested' \subseteq TxSets
           /\ PositionsAreCurrent'
           /\ NoStanceNoDisputes'
           /\ phase = "accepted" => UNCHANGED voteVars
<1> DEFINE pp == [peerProposals EXCEPT ![q.node] = q]
<1>1. /\ peerProposals \in PosType /\ deadNodes \subseteq Peers
      /\ acquired \subseteq TxSets /\ requested \subseteq TxSets
      /\ DisputesOK(set, disputes, compares, peerProposals)
      /\ PositionsAreCurrent /\ NoStanceNoDisputes
      /\ compares \subseteq TxSets
  BY DEF IInv, TypeOK, PosType
<1>2. /\ q.node \in Peers /\ q.position \in TxSets
      /\ q # None
  BY ProposalFields, NoneProps
<1>3. CASE UNCHANGED <<peerVars, acquired, voteVars, requested>>
  BY <1>1, <1>3 DEF peerVars, voteVars, PositionsAreCurrent,
                    NoStanceNoDisputes
<1>4. CASE ~ignoresProposal(q) /\ peerBowsOut(q)
  <2> USE <1>4 DEF peerBowsOut
  <2>1. peerProposals' \in PosType
    BY <1>1, <1>2 DEF PosType
  <2>2. \A p \in Peers : p \notin {q.node} /\ peerProposals[p] # None
                            => peerProposals'[p] # None
    BY <1>1 DEF PosType
  <2>3. peerProposals'[q.node] = None
    BY <1>1, <1>2 DEF PosType
  <2>4. DisputesOK(set, unVotes(disputes, {q.node}), compares, peerProposals')
    BY Zenon, <1>1, <2>2, UnVotesOK
  <2>5. CASE hasResult
    <3>1. disputes' = unVotes(disputes, {q.node})
      BY <2>5
    <3>2. DisputesOK(set, disputes, compares, peerProposals)'
      BY <2>4, <3>1
    <3>3. NoStanceNoDisputes'
      BY <2>5 DEF NoStanceNoDisputes
    <3>4. PositionsAreCurrent'
      BY ZenonT(30), <1>1, <1>2, <2>3 DEF PositionsAreCurrent, PosType
    <3>5. phase # "accepted"
      BY DEF ignoresProposal
    <3> QED BY <1>1, <1>2, <2>1, <3>2, <3>3, <3>4, <3>5
  <2>6. CASE ~hasResult
    <3>1. disputes' = noDisputes /\ compares' = {} /\ UNCHANGED voteVars
      BY <2>6, <1>1 DEF NoStanceNoDisputes, voteVars
    <3>2. DisputesOK(set, disputes, compares, peerProposals)'
      <4>1. set \in TxSets
        BY <1>1 DEF DisputesOK
      <4>2. DisputesOK(set, noDisputes, {}, peerProposals')
        BY <4>1, NoDisputesOK
      <4> QED BY <3>1, <4>2
    <3>3. NoStanceNoDisputes'
      BY ZenonT(30), <3>1 DEF NoStanceNoDisputes
    <3>4. PositionsAreCurrent'
      BY <1>1, <1>2, <2>3 DEF PositionsAreCurrent, PosType
    <3> QED BY <1>1, <1>2, <2>1, <3>1, <3>2, <3>3, <3>4
  <2> QED BY <2>5, <2>6
<1>5. CASE ~ignoresProposal(q) /\ q.seq # seqLeave /\ peerTakesPosition(q)
  <2>1. pp \in PosType /\ pp[q.node] = q
    BY <1>1, <1>2 DEF PosType
  <2>2. DisputesOK(set, disputes, compares, pp)
    <3>1. \A p \in Peers : peerProposals[p] # None => pp[p] # None
      BY <1>1, <1>2 DEF PosType
    <3> HIDE DEF pp
    <3> QED BY <1>1, <3>1, MorePositionsOK
  <2>3. peerProposals' = pp /\ deadNodes' = deadNodes
    BY <1>5 DEF peerTakesPosition
  <2>4. phase # "accepted" /\ q.prev = prevLedgerID /\ q.node \notin deadNodes
    BY <1>5 DEF ignoresProposal
  <2>5. PositionsAreCurrent'
    BY <1>1, <1>2, <1>5, <2>3, <2>4 DEF PositionsAreCurrent, PosType
  <2>6. q.node \in peersIn(pp)
    BY ZenonT(60), <2>1, <1>2 DEF peersIn
  <2> HIDE DEF pp
  <2>7. CASE /\ UNCHANGED <<acquired, requested>>
             /\ hasResult /\ updateDisputes({q.node}, q.position, pp, acquired)
    <3>1. DisputesOK(set, disputes', compares', pp)
      BY ZenonT(30), <2>2, <2>6, <2>7, <1>2, UpdateDisputesOK
    <3> QED BY <1>1, <2>1, <2>3, <2>4, <2>5, <2>7, <3>1
            DEF NoStanceNoDisputes
  <2>8. CASE UNCHANGED <<acquired, voteVars, requested>>
    BY ZenonT(60), <1>1, <2>1, <2>2, <2>3, <2>4, <2>5, <2>8
       DEF NoStanceNoDisputes, voteVars
  <2>9. CASE gotTxSet(q.position, pp) /\ UNCHANGED requested
    <3>1. /\ DisputesOK(set, disputes', compares', pp)
          /\ acquired \subseteq acquired'
          /\ acquired' \subseteq TxSets
          /\ ~hasResult => UNCHANGED voteVars
      BY ZenonT(60), <1>1, <1>2, <2>2, <2>9, GotTxSetOK
    <3> QED BY <1>1, <2>1, <2>3, <2>4, <2>5, <2>9, <3>1
            DEF NoStanceNoDisputes, voteVars
  <2>10. CASE /\ requested' = requested \cup {q.position}
              /\ UNCHANGED <<acquired, voteVars>>
    BY <1>1, <1>2, <2>1, <2>2, <2>3, <2>4, <2>5, <2>10
       DEF NoStanceNoDisputes, voteVars
  <2> QED BY <1>5, <2>7, <2>8, <2>9, <2>10 DEF peerTakesPosition, pp, voteVars
<1> QED BY <1>3, <1>4, <1>5 DEF peerProposal

----------------------------------------------------------------------------
(* The stack of calls.                                                     *)

LEMMA CallReturns ==
    ASSUME NEW s \in Seq(Tasks), s # <<>>, ordered(s)
    PROVE  /\ Tail(s) \in Seq(Tasks)
           /\ ordered(Tail(s))
           /\ acquires(Tail(s)) => acquires(s)
           /\ Head(s) # "acquire" /\ acquires(s) => acquires(Tail(s))
           /\ acquires(Tail(s)) => Head(s) \in {"playback", "replay"}
<1>1. /\ Tail(s) \in Seq(Tasks)
      /\ DOMAIN s = 1..Len(s) /\ Len(s) \in Nat /\ Len(s) > 0
      /\ DOMAIN Tail(s) = 1..(Len(s) - 1)
      /\ \A i \in 1..(Len(s) - 1) : Tail(s)[i] = s[i + 1]
      /\ Head(s) = s[1]
  OBVIOUS
<1>2. ordered(Tail(s))
  BY <1>1 DEF ordered
<1>3. acquires(Tail(s)) => acquires(s)
  BY <1>1 DEF acquires
<1>4. ASSUME Head(s) # "acquire", acquires(s)
      PROVE  acquires(Tail(s))
  <2>1. PICK i \in 1..Len(s) : s[i] = "acquire"
    BY <1>1, <1>4 DEF acquires
  <2>2. i - 1 \in 1..(Len(s) - 1) /\ Tail(s)[i - 1] = "acquire"
    BY <1>1, <1>4, <2>1
  <2> QED BY <1>1, <2>2 DEF acquires
<1>5. ASSUME acquires(Tail(s))
      PROVE  Head(s) \in {"playback", "replay"}
  <2>1. PICK i \in 1..(Len(s) - 1) : Tail(s)[i] = "acquire"
    BY <1>1, <1>5 DEF acquires
  <2>2. 1 < i + 1 /\ i + 1 \in 1..Len(s) /\ s[i + 1] = "acquire"
    BY <1>1, <2>1
  <2> QED BY <1>1, <2>2 DEF ordered
<1> QED BY <1>1, <1>2, <1>3, <1>4, <1>5

LEMMA CallPushed ==
    ASSUME NEW s \in Seq(Tasks), NEW c \in Tasks, ordered(s),
           acquires(s) => c \in {"playback", "replay"}
    PROVE  /\ <<c>> \o s \in Seq(Tasks)
           /\ ordered(<<c>> \o s)
           /\ acquires(<<c>> \o s) <=> c = "acquire" \/ acquires(s)
<1> DEFINE t == <<c>> \o s
<1>1. /\ t \in Seq(Tasks)
      /\ DOMAIN s = 1..Len(s) /\ Len(s) \in Nat
      /\ DOMAIN t = 1..(Len(s) + 1)
      /\ t[1] = c
      /\ \A i \in 2..(Len(s) + 1) : t[i] = s[i - 1]
      /\ \A i \in 1..Len(s) : t[i + 1] = s[i]
  OBVIOUS
<1> HIDE DEF t
<1>2. ordered(t)
  <2> SUFFICES ASSUME NEW i \in DOMAIN t, NEW j \in DOMAIN t,
                      i < j, t[j] = "acquire"
               PROVE  t[i] \in {"playback", "replay"}
    BY DEF ordered
  <2>1. j \in 2..(Len(s) + 1) /\ s[j - 1] = "acquire" /\ j - 1 \in 1..Len(s)
    BY <1>1
  <2>2. CASE i = 1
    BY <2>1, <2>2, <1>1 DEF acquires
  <2>3. CASE i # 1
    <3>1. i - 1 \in 1..Len(s) /\ t[i] = s[i - 1] /\ i - 1 < j - 1
      BY <2>1, <2>3, <1>1
    <3> QED BY <2>1, <3>1, <1>1 DEF ordered
  <2> QED BY <2>2, <2>3
<1>3. ASSUME acquires(t)
      PROVE  c = "acquire" \/ acquires(s)
  <2>1. PICK i \in 1..(Len(s) + 1) : t[i] = "acquire"
    BY <1>1, <1>3 DEF acquires
  <2>2. CASE i = 1
    BY <2>1, <2>2, <1>1
  <2>3. CASE i # 1
    <3>1. i - 1 \in 1..Len(s) /\ s[i - 1] = "acquire"
      BY <2>1, <2>3, <1>1
    <3> QED BY <3>1, <1>1 DEF acquires
  <2> QED BY <2>2, <2>3
<1>4. ASSUME c = "acquire" \/ acquires(s)
      PROVE  acquires(t)
  <2>1. CASE c = "acquire"
    <3>1. 1 \in DOMAIN t /\ t[1] = "acquire"
      BY <2>1, <1>1
    <3> QED BY <3>1 DEF acquires
  <2>2. CASE acquires(s)
    <3>1. PICK i \in 1..Len(s) : s[i] = "acquire"
      BY <2>2, <1>1 DEF acquires
    <3>2. i + 1 \in DOMAIN t /\ t[i + 1] = "acquire"
      BY <3>1, <1>1
    <3> QED BY <3>2 DEF acquires
  <2> QED BY <1>4, <2>1, <2>2
<1> QED BY <1>1, <1>2, <1>3, <1>4 DEF t

\* The calls of startRoundInternal, timerEntry and handleWrongLedger.
LEMMA RoundCalls ==
    ASSUME NEW s \in Seq(Tasks), ordered(s), ~acquires(s), NEW b \in BOOLEAN,
           NEW calls, calls = (IF b THEN <<"acquire">> ELSE <<>>)
                                  \o <<"playback", "fallingBehind">> \o s
    PROVE  calls \in Seq(Tasks) /\ ordered(calls) /\ (acquires(calls) <=> b)
<1> DEFINE s1 == <<"fallingBehind">> \o s
           s2 == <<"playback">> \o s1
<1>0. {"acquire", "playback", "fallingBehind"} \subseteq Tasks
  BY DEF Tasks
<1>1. s1 \in Seq(Tasks) /\ ordered(s1) /\ ~acquires(s1)
  BY <1>0, CallPushed
<1>2. s2 \in Seq(Tasks) /\ ordered(s2) /\ ~acquires(s2)
  <2> HIDE DEF s1
  <2> QED BY <1>0, <1>1, CallPushed
<1>3. calls = IF b THEN <<"acquire">> \o s2 ELSE s2
  OBVIOUS
<1> HIDE DEF s2
<1>4. /\ <<"acquire">> \o s2 \in Seq(Tasks)
      /\ ordered(<<"acquire">> \o s2) /\ acquires(<<"acquire">> \o s2)
  BY <1>0, <1>2, CallPushed
<1> QED BY Zenon, <1>2, <1>3, <1>4

LEMMA TimerCalls ==
    ASSUME NEW s \in Seq(Tasks), ordered(s), ~acquires(s), NEW b \in BOOLEAN,
           NEW calls, calls = (IF b THEN <<"acquire">> ELSE <<>>)
                                  \o <<"phase">> \o s
    PROVE  calls \in Seq(Tasks) /\ ordered(calls) /\ (acquires(calls) <=> b)
<1> DEFINE s1 == <<"phase">> \o s
<1>0. {"acquire", "phase"} \subseteq Tasks
  BY DEF Tasks
<1>1. s1 \in Seq(Tasks) /\ ordered(s1) /\ ~acquires(s1)
  BY <1>0, CallPushed
<1>2. calls = IF b THEN <<"acquire">> \o s1 ELSE s1
  OBVIOUS
<1> HIDE DEF s1
<1>3. /\ <<"acquire">> \o s1 \in Seq(Tasks)
      /\ ordered(<<"acquire">> \o s1) /\ acquires(<<"acquire">> \o s1)
  BY <1>0, <1>1, CallPushed
<1> QED BY Zenon, <1>1, <1>2, <1>3

LEMMA SwitchCalls ==
    ASSUME NEW s \in Seq(Tasks), ordered(s), ~acquires(s),
           NEW calls, calls = <<"playback", "acquire", "phase">> \o s
    PROVE  calls \in Seq(Tasks) /\ ordered(calls) /\ acquires(calls)
<1> DEFINE s1 == <<"acquire">> \o <<"phase">> \o s
<1>0. "playback" \in Tasks
  BY DEF Tasks
<1>1. s1 \in Seq(Tasks) /\ ordered(s1) /\ acquires(s1)
  BY Zenon, TimerCalls
<1>2. calls = <<"playback">> \o s1
  OBVIOUS
<1> HIDE DEF s1
<1> QED BY Zenon, <1>0, <1>1, <1>2, CallPushed

----------------------------------------------------------------------------
(* Every action keeps the inductive invariant.                             *)

\* The parts of the invariant that are about the round only.
RoundInv ==
    /\ PositionMatchesPhase
    /\ DisputesOK(set, disputes, compares, peerProposals)
    /\ NoStanceNoDisputes
    /\ PositionsAreCurrent
    /\ OurSetIsAcquired
    /\ BowedOutIsSilent

RoundTypeOK ==
    /\ phase \in {"open", "establish", "accepted"}
    /\ mode \in {"proposing", "observing", "wrongLedger", "switchedLedger"}
    /\ prevLedgerID \in LedgerIDs
    /\ previousLedger \in LedgerIDs
    /\ prevProposers \in Nat
    /\ prevRoundTime \in Nat
    /\ peerProposals \in PosType
    /\ deadNodes \subseteq Peers
    /\ acquired \subseteq TxSets
    /\ hasResult \in BOOLEAN
    /\ bowedOut \in BOOLEAN
    /\ roundTime \in Nat
    /\ sent \in {"nothing", "position", "bowOut"}

EnvTypeOK ==
    /\ playing \subseteq Proposals
    /\ stored \in [Peers -> Seq(Proposals)]
    /\ arriving \subseteq Proposals
    /\ available \subseteq TxSets
    /\ requested \subseteq TxSets
    /\ received \in Nat /\ rounds \in Nat /\ views \in Nat

CallInv ==
    /\ todo \in Seq(Tasks)
    /\ AcquireFirst
    /\ WrongLedgerPending
    /\ AcceptedIsSettled

LEMMA IInvParts == IInv <=> RoundInv /\ RoundTypeOK /\ EnvTypeOK /\ CallInv
BY DEF IInv, TypeOK, RoundInv, RoundTypeOK, EnvTypeOK, CallInv, DisputesOK,
       PosType

LEMMA IInvFromParts ==
    ASSUME RoundInv', RoundTypeOK', EnvTypeOK', CallInv'
    PROVE  IInv'
BY DEF IInv, TypeOK, RoundInv, RoundTypeOK, EnvTypeOK, CallInv, DisputesOK,
       PosType

LEMMA RoundUnchanged ==
    ASSUME RoundInv, RoundTypeOK, UNCHANGED roundVars
    PROVE  RoundInv' /\ RoundTypeOK'
BY DEF roundVars, ledgerVars, prevRoundVars, peerVars, stanceVars, voteVars,
       RoundInv, RoundTypeOK, PositionMatchesPhase, NoStanceNoDisputes,
       PositionsAreCurrent, OurSetIsAcquired, BowedOutIsSilent

LEMMA EnvUnchanged ==
    ASSUME EnvTypeOK, UNCHANGED <<playing, envVars>>
    PROVE  EnvTypeOK'
BY DEF EnvTypeOK, envVars, storeVars, setVars, boundVars

LEMMA CallsUnchanged ==
    ASSUME CallInv, UNCHANGED <<todo, phase, mode, ledgerVars>>
    PROVE  CallInv'
BY Zenon DEF CallInv, AcquireFirst, WrongLedgerPending, AcceptedIsSettled,
       acquirePending, ledgerVars

LEMMA StoreProposalStep ==
    ASSUME IInv, NEW q \in Proposals, StoreProposal(q)
    PROVE  IInv'
<1> USE DEF StoreProposal
<1>1. RoundInv' /\ RoundTypeOK'
  BY ZenonT(30), IInvParts, RoundUnchanged
<1>2. CallInv'
  BY ZenonT(60), IInvParts, CallsUnchanged DEF callVars, roundVars
<1>3. EnvTypeOK'
  <2>1. q.node \in Peers
    BY Zenon, ProposalFields
  <2>2. stored[q.node] \in Seq(Proposals)
    BY Zenon, <2>1, IInvParts DEF EnvTypeOK
  <2>3. stored' \in [Peers -> Seq(Proposals)]
    <3> DEFINE old == stored[q.node]
               new == Append(IF Len(old) >= MaxStored THEN Tail(old) ELSE old, q)
    <3>1. CASE Len(old) >= MaxStored
      <4>1. old # <<>>
        BY <3>1, BoundsAssumption
      <4>2. Tail(old) \in Seq(Proposals)
        BY <4>1, <2>2
      <4> QED BY <3>1, <4>2, <2>1, IInvParts DEF EnvTypeOK
    <3>2. CASE ~(Len(old) >= MaxStored)
      BY <3>2, <2>1, <2>2, IInvParts DEF EnvTypeOK
    <3> QED BY ZenonT(60), <3>1, <3>2
  <2> QED BY <2>3, IInvParts
          DEF EnvTypeOK, callVars, setVars, boundVars
<1> QED BY ZenonT(30), <1>1, <1>2, <1>3, IInvFromParts

\* peerProposal, called for a proposal that arrives or is replayed.
LEMMA PeerProposalRound ==
    ASSUME IInv, NEW q \in Proposals, peerProposal(q),
           UNCHANGED <<phase, mode, ledgerVars, prevRoundVars, stanceVars, sent>>
    PROVE  RoundInv' /\ RoundTypeOK' /\ requested' \subseteq TxSets
<1> USE DEF ledgerVars, prevRoundVars, stanceVars
<1>1. /\ DisputesOK(set, disputes, compares, peerProposals)'
      /\ peerProposals' \in PosType
      /\ deadNodes' \subseteq Peers
      /\ acquired \subseteq acquired'
      /\ acquired' \subseteq TxSets
      /\ requested' \subseteq TxSets
      /\ PositionsAreCurrent'
      /\ NoStanceNoDisputes'
  BY PeerProposalOK
<1>2. PositionMatchesPhase' /\ OurSetIsAcquired' /\ BowedOutIsSilent'
  BY <1>1, IInvParts DEF RoundInv, PositionMatchesPhase, OurSetIsAcquired,
                         BowedOutIsSilent
<1>3. RoundInv'
  BY <1>1, <1>2 DEF RoundInv
<1>4. RoundTypeOK'
  BY <1>1, IInvParts DEF RoundTypeOK
<1> QED BY <1>1, <1>3, <1>4

LEMMA PeerProposalStep ==
    ASSUME IInv, NEW q \in arriving, PeerProposal(q)
    PROVE  IInv'
<1> USE DEF PeerProposal
<1>1. q \in Proposals
  BY IInvParts DEF EnvTypeOK
<1>2. RoundInv' /\ RoundTypeOK' /\ requested' \subseteq TxSets
  BY <1>1, PeerProposalRound
<1>3. CallInv'
  BY IInvParts, CallsUnchanged DEF callVars
<1>4. EnvTypeOK'
  BY <1>2, IInvParts DEF EnvTypeOK, callVars, boundVars
<1> QED BY <1>2, <1>3, <1>4, IInvFromParts

LEMMA ReplayStep ==
    ASSUME IInv, NEW q \in playing, Replay(q)
    PROVE  IInv'
<1> USE DEF Replay
<1>1. q \in Proposals
  BY IInvParts DEF EnvTypeOK
<1>2. RoundInv' /\ RoundTypeOK' /\ requested' \subseteq TxSets
  BY <1>1, PeerProposalRound
<1>3. CallInv'
  BY IInvParts, CallsUnchanged
<1>4. EnvTypeOK'
  BY <1>2, IInvParts DEF EnvTypeOK, storeVars, boundVars
<1> QED BY <1>2, <1>3, <1>4, IInvFromParts

LEMMA GotTxSetStep ==
    ASSUME IInv, NEW s \in requested, GotTxSet(s)
    PROVE  IInv'
<1> USE DEF GotTxSet, ledgerVars, prevRoundVars, stanceVars, peerVars
<1>1. s \in TxSets /\ acquired \subseteq TxSets
  BY IInvParts DEF EnvTypeOK, RoundTypeOK
<1>2. /\ DisputesOK(set, disputes', compares', peerProposals)
      /\ acquired \subseteq acquired'
      /\ acquired' \subseteq TxSets
      /\ ~hasResult => UNCHANGED voteVars
  BY <1>1, IInvParts, GotTxSetOK DEF RoundInv
<1>3. /\ PositionMatchesPhase' /\ OurSetIsAcquired' /\ BowedOutIsSilent'
      /\ PositionsAreCurrent' /\ NoStanceNoDisputes'
  BY <1>2, IInvParts DEF RoundInv, PositionMatchesPhase, OurSetIsAcquired,
        BowedOutIsSilent, PositionsAreCurrent, NoStanceNoDisputes, voteVars
<1>4. RoundInv'
  BY <1>2, <1>3 DEF RoundInv
<1>5. RoundTypeOK'
  BY <1>2, IInvParts DEF RoundTypeOK
<1>6. CallInv'
  BY IInvParts, CallsUnchanged DEF callVars
<1>7. EnvTypeOK'
  BY <1>1, IInvParts DEF EnvTypeOK, callVars, storeVars, boundVars
<1> QED BY <1>4, <1>5, <1>6, <1>7, IInvFromParts

LEMMA StartRoundRound ==
    ASSUME NEW id \in LedgerIDs, NEW ledger \in LedgerIDs,
           NEW newMode \in {"proposing", "observing", "switchedLedger"},
           NEW rest, IInv, startRoundInternal(id, ledger, newMode, rest),
           sent' = "nothing" \/ (sent' = sent /\ newMode = "switchedLedger")
    PROVE  RoundInv' /\ RoundTypeOK'
<1> USE DEF startRoundInternal
<1>1. DisputesOK(set, disputes, compares, peerProposals)'
  <2>1. {} \in TxSets
    BY DEF TxSets
  <2>2. DisputesOK({}, noDisputes, {}, peerProposals')
    BY <2>1, NoDisputesOK
  <2> QED BY <2>2
<1>2. PositionsAreCurrent'
  BY DEF PositionsAreCurrent, noProposals
<1>3. /\ PositionMatchesPhase' /\ OurSetIsAcquired'
      /\ BowedOutIsSilent' /\ NoStanceNoDisputes'
  BY DEF PositionMatchesPhase, OurSetIsAcquired, BowedOutIsSilent,
         NoStanceNoDisputes
<1>4. RoundInv'
  BY <1>1, <1>2, <1>3 DEF RoundInv
<1>5. RoundTypeOK'
  <2>1. noProposals \in PosType
    BY DEF noProposals, PosType
  <2>2. sent' \in {"nothing", "position", "bowOut"}
    BY IInvParts DEF RoundTypeOK
  <2> QED BY ZenonT(60), <2>1, <2>2, IInvParts DEF RoundTypeOK, prevRoundVars
<1> QED BY <1>4, <1>5

LEMMA StartRoundStep ==
    ASSUME IInv, NEW id \in LedgerIDs, NEW ledger \in LedgerIDs,
           NEW propose \in BOOLEAN, StartRound(id, ledger, propose)
    PROVE  IInv'
<1> DEFINE newMode == IF propose THEN "proposing" ELSE "observing"
<1>1. startRoundInternal(id, ledger, newMode, <<>>) /\ sent' = "nothing"
  BY DEF StartRound
<1>2. newMode \in {"proposing", "observing", "switchedLedger"}
  OBVIOUS
<1> HIDE DEF newMode
<1>3. RoundInv' /\ RoundTypeOK'
  BY <1>1, <1>2, StartRoundRound
<1>4. CallInv'
  <2>1. <<>> \in Seq(Tasks) /\ ordered(<<>>) /\ ~acquires(<<>>)
    BY DEF ordered, acquires
  <2>2. todo' \in Seq(Tasks) /\ ordered(todo') /\ (acquires(todo') <=> ledger # id)
    BY ZenonT(60), <1>1, <2>1, RoundCalls DEF startRoundInternal
  <2> QED BY <1>1, <2>2 DEF CallInv, AcquireFirst, WrongLedgerPending,
                            AcceptedIsSettled, acquirePending, startRoundInternal
<1>5. EnvTypeOK'
  BY <1>1, IInvParts DEF EnvTypeOK, StartRound, startRoundInternal, storeVars, setVars
<1> QED BY <1>3, <1>4, <1>5, IInvFromParts

\* The innermost call, which comes before the rest of the stack.
LEMMA CallingFacts ==
    ASSUME IInv, NEW task, calling(task)
    PROVE  /\ Tail(todo) \in Seq(Tasks)
           /\ ordered(Tail(todo))
           /\ acquires(Tail(todo)) => acquirePending
           /\ task # "acquire" /\ acquirePending => acquires(Tail(todo))
           /\ task \notin {"playback", "replay"} => ~acquires(Tail(todo))
           /\ task = "acquire" => acquirePending
<1>1. todo \in Seq(Tasks) /\ ordered(todo) /\ todo # <<>> /\ Head(todo) = task
  BY IInvParts DEF CallInv, AcquireFirst, calling
<1>2. task = "acquire" => acquires(todo)
  <2>1. 1 \in DOMAIN todo /\ todo[1] = Head(todo)
    BY <1>1
  <2> QED BY <1>1, <2>1 DEF acquires
<1> QED BY <1>1, <1>2, CallReturns DEF acquirePending

LEMMA AcquireStep ==
    ASSUME IInv, Acquire
    PROVE  IInv'
<1>0. /\ Tail(todo) \in Seq(Tasks)
      /\ ordered(Tail(todo))
      /\ ~acquires(Tail(todo))
  BY CallingFacts DEF Acquire
<1>1. CASE /\ startRoundInternal(prevLedgerID, prevLedgerID, "switchedLedger",
                                 Tail(todo))
           /\ UNCHANGED <<sent, boundVars>>
  <2>1. prevLedgerID \in LedgerIDs
    BY IInvParts DEF RoundTypeOK
  <2>2. RoundInv' /\ RoundTypeOK'
    BY <1>1, <2>1, StartRoundRound
  <2>3. todo' \in Seq(Tasks) /\ ordered(todo') /\ ~acquires(todo')
    BY ZenonT(60), <1>0, <1>1, RoundCalls DEF startRoundInternal
  <2>4. CallInv'
    BY <1>1, <2>3 DEF CallInv, AcquireFirst, WrongLedgerPending,
                      AcceptedIsSettled, acquirePending, startRoundInternal
  <2>5. EnvTypeOK'
    BY <1>1, IInvParts, EnvUnchanged DEF startRoundInternal, envVars
  <2> QED BY <2>2, <2>4, <2>5, IInvFromParts
<1>2. CASE /\ mode' = IF previousLedger # prevLedgerID THEN "wrongLedger"
                                                       ELSE mode
           /\ todo' = Tail(todo)
           /\ UNCHANGED <<phase, ledgerVars, prevRoundVars, peerVars, acquired,
                          stanceVars, voteVars, sent, playing, storeVars,
                          setVars, boundVars>>
  <2> USE <1>2 DEF ledgerVars, prevRoundVars, peerVars, stanceVars, voteVars
  <2>1. RoundInv'
    BY IInvParts DEF RoundInv, PositionMatchesPhase, NoStanceNoDisputes,
           PositionsAreCurrent, OurSetIsAcquired, BowedOutIsSilent
  <2>2. RoundTypeOK'
    BY IInvParts DEF RoundTypeOK
  <2>3. CallInv'
    BY <1>0, IInvParts DEF CallInv, AcquireFirst, WrongLedgerPending,
                           AcceptedIsSettled, acquirePending
  <2>4. EnvTypeOK'
    BY ZenonT(30), IInvParts, EnvUnchanged DEF envVars
  <2> QED BY <2>1, <2>2, <2>3, <2>4, IInvFromParts
<1> QED BY <1>1, <1>2 DEF Acquire

LEMMA PlaybackStep ==
    ASSUME IInv, Playback
    PROVE  IInv'
<1> USE DEF Playback
<1>1. RoundInv' /\ RoundTypeOK'
  BY IInvParts, RoundUnchanged
<1>2. CallInv'
  <2>0. calling("playback")
    OBVIOUS
  <2> HIDE DEF Playback
  <2>1. /\ Tail(todo) \in Seq(Tasks)
        /\ ordered(Tail(todo))
        /\ acquires(Tail(todo)) <=> acquirePending
    BY <2>0, CallingFacts
  <2> USE DEF Playback
  <2>2. "replay" \in Tasks
    BY DEF Tasks
  <2>3. todo' \in Seq(Tasks) /\ ordered(todo')
        /\ (acquires(todo') <=> acquires(Tail(todo)))
    BY ZenonT(60), <2>1, <2>2, CallPushed
  <2> QED BY ZenonT(60), <2>1, <2>3, IInvParts
          DEF CallInv, AcquireFirst, WrongLedgerPending, AcceptedIsSettled,
              acquirePending, roundVars, ledgerVars
<1>3. EnvTypeOK'
  <2>1. \A p \in Peers : \A i \in DOMAIN stored[p] : stored[p][i] \in Proposals
    BY IInvParts DEF EnvTypeOK
  <2>2. playing' \subseteq Proposals
    BY <2>1
  <2> QED BY <2>2, IInvParts DEF EnvTypeOK, envVars, storeVars, setVars, boundVars
<1> HIDE DEF Playback
<1> QED BY ZenonT(30), <1>1, <1>2, <1>3, IInvFromParts

LEMMA ReplayDoneStep ==
    ASSUME IInv, ReplayDone
    PROVE  IInv'
<1> USE DEF ReplayDone
<1>1. RoundInv' /\ RoundTypeOK'
  BY IInvParts, RoundUnchanged
<1>2. CallInv'
  <2>0. calling("replay")
    OBVIOUS
  <2> HIDE DEF ReplayDone
  <2>1. /\ Tail(todo) \in Seq(Tasks)
        /\ ordered(Tail(todo))
        /\ acquires(Tail(todo)) <=> acquirePending
    BY <2>0, CallingFacts
  <2> USE DEF ReplayDone
  <2> QED BY <2>1, IInvParts
          DEF CallInv, AcquireFirst, WrongLedgerPending, AcceptedIsSettled,
              acquirePending, roundVars, ledgerVars
<1>3. EnvTypeOK'
  BY IInvParts, EnvUnchanged
<1> QED BY <1>1, <1>2, <1>3, IInvFromParts

\* timerEntry, called by the timer or at the end of startRoundInternal.
LEMMA TimerEntryKeeps ==
    ASSUME IInv, NEW rest \in Seq(Tasks), ordered(rest), ~acquires(rest),
           ~acquirePending,
           timerEntry(rest)
    PROVE  IInv'
<1>1. CASE phase = "accepted" /\ todo' = rest
             /\ UNCHANGED <<roundVars, playing, envVars>>
  <2>1. RoundInv' /\ RoundTypeOK' /\ EnvTypeOK'
    BY ZenonT(30), <1>1, IInvParts, RoundUnchanged, EnvUnchanged
  <2>2. CallInv'
    BY <1>1, IInvParts
       DEF CallInv, AcquireFirst, WrongLedgerPending, AcceptedIsSettled,
           acquirePending, roundVars, ledgerVars
  <2> QED BY <2>1, <2>2, IInvFromParts
<1>2. CASE /\ phase # "accepted"
           /\ todo' = (IF previousLedger # prevLedgerID
                         THEN <<"acquire">> ELSE <<>>) \o <<"phase">> \o rest
           /\ UNCHANGED <<roundVars, playing, envVars>>
  <2>1. RoundInv' /\ RoundTypeOK' /\ EnvTypeOK'
    BY <1>2, IInvParts, RoundUnchanged, EnvUnchanged
  <2>2. todo' \in Seq(Tasks) /\ ordered(todo')
        /\ (acquires(todo') <=> previousLedger # prevLedgerID)
    BY ZenonT(60), <1>2, TimerCalls
  <2>3. CallInv'
    BY <1>2, <2>2 DEF CallInv, AcquireFirst, WrongLedgerPending,
           AcceptedIsSettled, acquirePending, roundVars, ledgerVars
  <2> QED BY <2>1, <2>3, IInvFromParts
<1>3. ASSUME phase # "accepted", NEW net \in LedgerIDs, switchView(net),
             views' = views + 1,
             todo' = <<"playback", "acquire", "phase">> \o rest
      PROVE  IInv'
  <2> USE <1>3 DEF switchView
  <2>1. todo' \in Seq(Tasks) /\ ordered(todo') /\ acquires(todo')
    BY ZenonT(60), SwitchCalls
  <2>2. CallInv'
    BY <2>1 DEF CallInv, AcquireFirst, WrongLedgerPending,
                AcceptedIsSettled, acquirePending
  <2>3. EnvTypeOK'
    BY IInvParts DEF EnvTypeOK, storeVars, setVars
  <2>4. RoundTypeOK'
    <3>1. noProposals \in PosType
      BY DEF noProposals, PosType
    <3> QED BY <3>1, IInvParts DEF RoundTypeOK, prevRoundVars
  <2>5. DisputesOK(set, disputes, compares, peerProposals)'
    <3>1. set \in TxSets
      BY IInvParts DEF RoundInv, DisputesOK
    <3>2. DisputesOK(set, noDisputes, {}, peerProposals')
      BY ZenonT(30), <3>1, NoDisputesOK
    <3> QED BY <3>2
  <2>6. PositionsAreCurrent'
    BY Zenon DEF PositionsAreCurrent, noProposals
  <2>7. /\ PositionMatchesPhase' /\ OurSetIsAcquired'
        /\ BowedOutIsSilent' /\ NoStanceNoDisputes'
    BY IInvParts DEF RoundInv, RoundTypeOK, PositionMatchesPhase, OurSetIsAcquired,
           BowedOutIsSilent, NoStanceNoDisputes, proposing
  <2>8. RoundInv'
    BY <2>5, <2>6, <2>7 DEF RoundInv
  <2> QED BY <2>2, <2>3, <2>4, <2>8, IInvFromParts
<1> QED BY <1>1, <1>2, <1>3 DEF timerEntry

LEMMA TimerEntryStep ==
    ASSUME IInv, TimerEntry
    PROVE  IInv'
<1>1. <<>> \in Seq(Tasks) /\ ordered(<<>>) /\ ~acquires(<<>>)
  BY DEF ordered, acquires
<1>2. ~acquirePending
  BY <1>1 DEF TimerEntry, acquirePending
<1> QED BY Zenon, <1>1, <1>2, TimerEntryKeeps DEF TimerEntry

LEMMA FallingBehindStep ==
    ASSUME IInv, FallingBehind
    PROVE  IInv'
<1>1. /\ Tail(todo) \in Seq(Tasks)
      /\ ordered(Tail(todo))
      /\ ~acquires(Tail(todo))
      /\ ~acquirePending
  BY CallingFacts DEF FallingBehind
<1>2. CASE timerEntry(Tail(todo))
  BY ZenonT(30), <1>1, <1>2, TimerEntryKeeps
<1>3. CASE todo' = Tail(todo) /\ UNCHANGED <<roundVars, playing, envVars>>
  <2>1. RoundInv' /\ RoundTypeOK' /\ EnvTypeOK'
    BY ZenonT(30), <1>3, IInvParts, RoundUnchanged, EnvUnchanged
  <2>2. CallInv'
    BY ZenonT(30), <1>1, <1>3, IInvParts
       DEF CallInv, AcquireFirst, WrongLedgerPending, AcceptedIsSettled,
           acquirePending, roundVars, ledgerVars
  <2> QED BY <2>1, <2>2, IInvFromParts
<1> QED BY <1>2, <1>3 DEF FallingBehind

LEMMA CloseLedgerKeeps ==
    ASSUME IInv, phase = "open", NEW s \in OpenSets, closeLedger(s),
           UNCHANGED <<mode, ledgerVars, prevRoundVars, peerVars>>
    PROVE  /\ RoundInv' /\ RoundTypeOK'
           /\ available' \subseteq TxSets /\ requested' \subseteq TxSets
<1> USE DEF closeLedger, ledgerVars, prevRoundVars, peerVars
<1> DEFINE acq == acquired \cup {s}
           compared == {peerProposals[p].position : p \in peersIn(peerProposals)}
                           \cap acq
<1>1. s \in TxSets /\ acq \subseteq TxSets
  BY ZenonT(30), OpenSetsAssumption, IInvParts DEF RoundTypeOK, TxSets
<1>2. compared \in SUBSET TxSets
  BY Zenon, <1>1
<1>3. disputes = noDisputes /\ compares = {} /\ ~hasResult
  BY Zenon, IInvParts DEF RoundInv, PositionMatchesPhase, NoStanceNoDisputes
<1>4. /\ compares' = {} \cup compared
      /\ disputes' = createDisputes(s, compared, noDisputes, peerProposals, acq)
      /\ acquired' = acq /\ set' = s
  BY ZenonT(30), <1>3
<1> HIDE DEF acq, compared, closeLedger
<1>5. DisputesOK(set, disputes, compares, peerProposals)'
  <2>1. DisputesOK(s, noDisputes, {}, peerProposals)
    BY <1>1, NoDisputesOK
  <2>2. DisputesOK(s, disputes', compares', peerProposals)
    BY <1>2, <1>4, <2>1, CreateDisputesOK
  <2> QED BY <1>4, <2>2
<1>6. /\ PositionMatchesPhase' /\ NoStanceNoDisputes' /\ PositionsAreCurrent'
      /\ OurSetIsAcquired'
  BY ZenonT(30), <1>4, IInvParts DEF closeLedger, RoundInv, PositionMatchesPhase, NoStanceNoDisputes,
         PositionsAreCurrent, OurSetIsAcquired, acq
<1>7. BowedOutIsSilent'
  BY ZenonT(30), IInvParts DEF closeLedger, RoundInv, BowedOutIsSilent, proposing
<1>8. RoundTypeOK'
  BY ZenonT(60), <1>1, <1>4, IInvParts DEF closeLedger, RoundTypeOK
<1>9. available' \subseteq TxSets /\ requested' \subseteq TxSets
  BY <1>1, IInvParts DEF closeLedger, EnvTypeOK, setVars, relaySet
<1> QED BY ZenonT(30), <1>5, <1>6, <1>7, <1>8, <1>9 DEF RoundInv

LEMMA PercentIsNat ==
    ASSUME NEW t \in Nat, prevRoundTime \in Nat
    PROVE  convergePercent(t) \in Nat
<1> DEFINE d == larger(prevRoundTime, AV_MIN_CONSENSUS_TIME)
<1>1. d \in Nat /\ d > 0
  BY DEF larger, AV_MIN_CONSENSUS_TIME
<1>2. t * 100 \in Nat
  OBVIOUS
<1> HIDE DEF d
<1>3. ASSUME NEW a \in Nat
      PROVE  a \div d \in Nat
  BY <1>1
<1> QED BY <1>2, <1>3 DEF convergePercent, d

LEMMA UpdateOurPositionsKeeps ==
    ASSUME IInv, phase = "establish", NEW t \in Nat,
           NEW stale \in SUBSET peersIn(peerProposals),
           NEW refresh \in BOOLEAN,
           updateOurPositions(t, stale, refresh)
    PROVE  /\ DisputesOK(set, disputes, compares, peerProposals)'
           /\ peerProposals' \in PosType
           /\ hasResult' = TRUE /\ bowedOut' = bowedOut
           /\ deadNodes' = deadNodes
           /\ \A p \in Peers : peerProposals'[p] \in {peerProposals[p], None}
           /\ acquired' \subseteq TxSets
           /\ ~bowedOut => set' \in acquired'
           /\ sent' \in {"position", sent} /\ (mode # "proposing" => sent' = sent)
           /\ available' \subseteq TxSets /\ requested' \subseteq TxSets
<1> USE DEF updateOurPositions
<1> DEFINE d1 == unVotes(disputes, stale)
           dis == updateVotes(d1, convergePercent(t))
           moves == refresh \/ \E tx \in Txs : /\ disputes[tx] # None
                                               /\ dis[tx].ourVote
                                                    # disputes[tx].ourVote
           newSet == IF moves THEN setVotedBy(dis) ELSE set
           shares == moves /\ ~bowedOut
<1>1. /\ peerProposals \in PosType /\ acquired \subseteq TxSets /\ set \in TxSets
      /\ DisputesOK(set, disputes, compares, peerProposals) /\ hasResult
      /\ available \subseteq TxSets /\ requested \subseteq TxSets
      /\ prevRoundTime \in Nat
      /\ disputes \in [Txs -> Disputes \cup {None}]
  BY IInvParts DEF RoundInv, RoundTypeOK, EnvTypeOK, PositionMatchesPhase,
                   DisputesOK
<1>2. convergePercent(t) \in Nat
  BY ZenonT(30), <1>1, PercentIsNat
<1>3. peerProposals' \in PosType
      /\ \A p \in Peers : /\ peerProposals'[p] \in {peerProposals[p], None}
                          /\ p \notin stale => peerProposals'[p] = peerProposals[p]
  BY ZenonT(30), <1>1 DEF PosType
<1>4. DisputesOK(set, d1, compares, peerProposals')
  BY ZenonT(30), <1>1, <1>3, UnVotesOK
<1>5. \A tx \in Txs :
         /\ disputes[tx] = None => d1[tx] = None
         /\ disputes[tx] # None => d1[tx].ourVote = disputes[tx].ourVote
  BY ZenonT(30), <1>1, UnVotesKeeps
<1> HIDE DEF d1
<1>6. DisputesOK(newSet, dis, compares, peerProposals')
  <2>1. CASE moves
    <3>1. newSet = setVotedBy(dis)
      BY ZenonT(30), <2>1
    <3> HIDE DEF newSet, moves
    <3> QED BY ZenonT(60), <3>1, <1>2, <1>4, MovedSetOK
  <2>2. CASE ~moves
    <3>1. newSet = set
      BY ZenonT(30), <2>2
    <3>2. \A tx \in Txs : d1[tx] # None => dis[tx].ourVote = d1[tx].ourVote
      BY ZenonT(30), <2>2, <1>5
    <3> HIDE DEF newSet, moves
    <3> QED BY ZenonT(60), <3>1, <3>2, <1>2, <1>4, UnmovedSetOK
  <2> QED BY ZenonT(30), <2>1, <2>2
<1>7. /\ disputes' = dis /\ set' = newSet
      /\ UNCHANGED <<compares, deadNodes, bowedOut, hasResult>>
      /\ acquired' = IF shares THEN acquired \cup {newSet} ELSE acquired
      /\ IF shares /\ newSet \notin acquired
           THEN relaySet(newSet) ELSE UNCHANGED setVars
      /\ sent' = IF shares /\ proposing THEN "position" ELSE sent
  BY ZenonT(30) DEF d1
<1>8. newSet = set \/ moves
  BY ZenonT(30)
<1> HIDE DEF dis, newSet, moves
<1>9. newSet \in TxSets
  BY ZenonT(30), <1>6 DEF DisputesOK
<1>10. ~bowedOut => set' \in acquired'
  BY ZenonT(30), <1>1, <1>7, <1>8, IInvParts DEF RoundInv, OurSetIsAcquired
<1>11. acquired' \subseteq TxSets
  BY ZenonT(30), <1>1, <1>7, <1>9
<1>12. available' \subseteq TxSets /\ requested' \subseteq TxSets
  BY ZenonT(30), <1>1, <1>7, <1>9 DEF relaySet, setVars
<1>13. sent' \in {"position", sent} /\ (mode # "proposing" => sent' = sent)
  BY ZenonT(60), <1>7 DEF proposing
<1> HIDE DEF updateOurPositions, shares
<1>14. DisputesOK(set, disputes, compares, peerProposals)'
  BY ZenonT(60), <1>6, <1>7
<1> QED BY ZenonT(60), <1>1, <1>3, <1>7, <1>10, <1>11, <1>12, <1>13, <1>14

LEMMA PhaseEstablishKeeps ==
    ASSUME IInv, phase = "establish", phaseEstablish,
           UNCHANGED <<mode, ledgerVars>>
    PROVE  /\ RoundInv' /\ RoundTypeOK'
           /\ available' \subseteq TxSets /\ requested' \subseteq TxSets
<1> USE DEF ledgerVars
<1>0. PICK t \in {u \in RoundTimes : u >= roundTime} :
        /\ roundTime' = t
        /\ IF t < LEDGER_MIN_CONSENSUS
             THEN UNCHANGED <<phase, prevRoundVars,
                              peerVars, acquired, hasResult, set, bowedOut,
                              voteVars, sent, setVars>>
             ELSE \E stale \in SUBSET peersIn(peerProposals),
                     refresh, agreed \in BOOLEAN,
                     finished \in 0..Cardinality(Peers) :
                    /\ updateOurPositions(t, stale, refresh)
                    /\ checkForConsensus(t, agreed, finished)
  BY DEF phaseEstablish
<1>1. t \in Nat
  BY TimesAssumption
<1>2. CASE UNCHANGED <<phase, prevRoundVars, peerVars, acquired, hasResult,
                       set, bowedOut, voteVars, sent, setVars>>
  <2> USE <1>2 DEF prevRoundVars, peerVars, voteVars, setVars
  <2>1. RoundInv'
    BY IInvParts DEF RoundInv, PositionMatchesPhase, NoStanceNoDisputes,
           PositionsAreCurrent, OurSetIsAcquired, BowedOutIsSilent
  <2>2. RoundTypeOK'
    BY <1>0, <1>1, IInvParts DEF RoundTypeOK
  <2> QED BY ZenonT(60), <2>1, <2>2, IInvParts DEF EnvTypeOK
<1>3. ASSUME NEW stale \in SUBSET peersIn(peerProposals),
             NEW refresh \in BOOLEAN, NEW agreed \in BOOLEAN,
             NEW finished \in 0..Cardinality(Peers),
             updateOurPositions(t, stale, refresh),
             checkForConsensus(t, agreed, finished)
      PROVE  /\ RoundInv' /\ RoundTypeOK'
             /\ available' \subseteq TxSets /\ requested' \subseteq TxSets
  <2>1. /\ DisputesOK(set, disputes, compares, peerProposals)'
        /\ peerProposals' \in PosType
        /\ hasResult' = TRUE /\ bowedOut' = bowedOut
        /\ deadNodes' = deadNodes
        /\ \A p \in Peers : peerProposals'[p] \in {peerProposals[p], None}
        /\ acquired' \subseteq TxSets
        /\ ~bowedOut => set' \in acquired'
        /\ sent' \in {"position", sent} /\ (mode # "proposing" => sent' = sent)
        /\ available' \subseteq TxSets /\ requested' \subseteq TxSets
    BY ZenonT(30), <1>1, <1>3, UpdateOurPositionsKeeps
  <2>2. /\ phase' \in {"establish", "accepted"}
        /\ prevProposers' \in Nat /\ prevRoundTime' \in Nat
    <3>1. Cardinality(peersIn(peerProposals')) \in Nat
      <4>1. peersIn(peerProposals') \subseteq Peers
        BY DEF peersIn
      <4> QED BY <4>1, PeersAssumption, FS_Subset, FS_CardinalityType
    <3>2. CASE UNCHANGED <<phase, prevRoundVars>>
      BY <3>2, IInvParts DEF RoundTypeOK, prevRoundVars
    <3>3. CASE /\ phase' = "accepted"
               /\ prevProposers' = Cardinality(peersIn(peerProposals'))
               /\ prevRoundTime' = t
      BY <1>1, <3>1, <3>3
    <3> QED BY ZenonT(60), <1>3, <3>2, <3>3 DEF checkForConsensus
  <2>3. PositionsAreCurrent'
    BY <2>1, IInvParts DEF RoundInv, PositionsAreCurrent
  <2>4. /\ PositionMatchesPhase' /\ NoStanceNoDisputes' /\ OurSetIsAcquired'
    BY ZenonT(60), <2>1, <2>2 DEF PositionMatchesPhase, NoStanceNoDisputes, OurSetIsAcquired
  <2>5. BowedOutIsSilent'
    BY ZenonT(30), <2>1, IInvParts DEF RoundInv, BowedOutIsSilent
  <2>6. RoundTypeOK'
    BY ZenonT(30), <1>0, <1>1, <2>1, <2>2, IInvParts DEF RoundTypeOK
  <2> QED BY ZenonT(60), <2>1, <2>3, <2>4, <2>5, <2>6 DEF RoundInv
<1> QED BY <1>0, <1>2, <1>3

LEMMA PhaseStep ==
    ASSUME IInv, Phase
    PROVE  IInv'
<1> USE DEF Phase
<1>0. /\ Tail(todo) \in Seq(Tasks)
      /\ ordered(Tail(todo))
      /\ ~acquires(Tail(todo))
      /\ ~acquirePending
  BY CallingFacts
<1>1. CallInv'
  BY ZenonT(30), <1>0, IInvParts DEF CallInv, AcquireFirst, WrongLedgerPending,
         AcceptedIsSettled, acquirePending, ledgerVars
<1>2. /\ RoundInv' /\ RoundTypeOK'
      /\ available' \subseteq TxSets /\ requested' \subseteq TxSets
  <2>1. CASE phase = "open" /\ phaseOpen
    <3>1. CASE UNCHANGED <<phase, acquired, stanceVars, voteVars, sent, setVars>>
      <4>1. UNCHANGED roundVars
        BY ZenonT(30), <2>1, <3>1 DEF phaseOpen, roundVars
      <4> QED BY ZenonT(30), <3>1, <4>1, IInvParts, RoundUnchanged DEF EnvTypeOK, setVars
    <3>2. ASSUME NEW s \in OpenSets, closeLedger(s)
          PROVE  /\ RoundInv' /\ RoundTypeOK'
                 /\ available' \subseteq TxSets /\ requested' \subseteq TxSets
      BY ZenonT(30), <2>1, <3>2, CloseLedgerKeeps DEF phaseOpen
    <3> QED BY ZenonT(30), <2>1, <3>1, <3>2 DEF phaseOpen
  <2>2. CASE phase = "establish" /\ phaseEstablish
    BY ZenonT(30), <2>2, PhaseEstablishKeeps
  <2>3. CASE UNCHANGED <<phase, prevRoundVars, peerVars, acquired, stanceVars,
                         voteVars, sent, setVars>>
    <3>1. UNCHANGED roundVars
      BY <2>3 DEF roundVars
    <3> QED BY ZenonT(30), <2>3, <3>1, IInvParts, RoundUnchanged DEF EnvTypeOK, setVars
  <2> QED BY ZenonT(30), <2>1, <2>2, <2>3
<1>3. EnvTypeOK'
  BY <1>2, IInvParts DEF EnvTypeOK, storeVars, boundVars
<1> QED BY <1>1, <1>2, <1>3, IInvFromParts

LEMMA IInvStep == IInv /\ [Next]_vars => IInv'
<1> SUFFICES ASSUME IInv, [Next]_vars
             PROVE  IInv'
  OBVIOUS
<1>1. CASE UNCHANGED vars
  <2>1. RoundInv' /\ RoundTypeOK' /\ EnvTypeOK' /\ CallInv'
    BY <1>1, IInvParts, RoundUnchanged, EnvUnchanged, CallsUnchanged
       DEF vars, callVars, roundVars
  <2> QED BY ZenonT(30), <2>1, IInvFromParts
<1>2. CASE InProgress
  BY <1>2, AcquireStep, PlaybackStep, ReplayStep, ReplayDoneStep,
     FallingBehindStep, PhaseStep DEF InProgress
<1> QED BY <1>1, <1>2, StoreProposalStep, PeerProposalStep, GotTxSetStep,
           StartRoundStep, TimerEntryStep DEF Next

----------------------------------------------------------------------------
(* The theorems.                                                           *)

(* Every variable keeps its type, through every nesting of calls.          *)
THEOREM TypeCorrect == Spec => []TypeOK
<1>1. IInv => TypeOK
  BY DEF IInv, DisputesOK
<1> QED BY InitIInv, IInvStep, <1>1, PTL DEF Spec

(* The asserts on result_ hold however often a round is restarted by        *)
(* handleWrongLedger: result_ is empty in open and engaged in establish.   *)
THEOREM AssertsHold == Spec => []PositionMatchesPhase
<1>1. IInv => PositionMatchesPhase
  BY ZenonT(30) DEF IInv, DisputesOK
<1> QED BY InitIInv, IInvStep, <1>1, PTL DEF Spec

(* Our vote on each disputed transaction always says whether our set holds *)
(* it: doAccept retries exactly the disputed transactions left out.        *)
THEOREM VotesMatchSetAlways == Spec => []OurVotesMatchOurSet
<1>1. IInv => OurVotesMatchOurSet
  BY ZenonT(30) DEF IInv, DisputesOK, OurVotesMatchOurSet
<1> QED BY InitIInv, IInvStep, <1>1, PTL DEF Spec

(* Skipping the sets compared before loses no dispute: our set moves at    *)
(* disputed transactions only.                                             *)
THEOREM DifferencesAlwaysDisputed == Spec => []DifferencesAreDisputed
<1>1. IInv => DifferencesAreDisputed
  BY ZenonT(30) DEF IInv, DisputesOK, DifferencesAreDisputed
<1> QED BY InitIInv, IInvStep, <1>1, PTL DEF Spec

(* No vote is counted for a peer that bowed out, went stale or built on    *)
(* another ledger.                                                         *)
THEOREM VotersAlwaysHavePositions == Spec => []VotersHavePositions
<1>1. IInv => VotersHavePositions
  BY ZenonT(30) DEF IInv, DisputesOK, VotersHavePositions
<1> QED BY InitIInv, IInvStep, <1>1, PTL DEF Spec

(* Every counted position builds on our ledger, from a peer that has not   *)
(* bowed out, whatever order proposals arrive and are replayed in.         *)
THEOREM PositionsAlwaysCurrent == Spec => []PositionsAreCurrent
<1>1. IInv => PositionsAreCurrent
  BY ZenonT(30) DEF IInv, DisputesOK
<1> QED BY InitIInv, IInvStep, <1>1, PTL DEF Spec

(* Until we bow out, our own set is in acquired_.                          *)
THEOREM OurSetAlwaysAcquired == Spec => []OurSetIsAcquired
<1>1. IInv => OurSetIsAcquired
  BY ZenonT(60) DEF IInv, DisputesOK
<1> QED BY InitIInv, IInvStep, <1>1, PTL DEF Spec

(* When lock_ is free, a node on the wrong ledger is in mode wrongLedger:  *)
(* an acquisition was tried on the way out.                                *)
THEOREM WrongLedgerAlwaysKnown == Spec => []WrongLedgerIsKnown
<1>1. IInv => WrongLedgerIsKnown
  BY DEF IInv, DisputesOK, WrongLedgerIsKnown, WrongLedgerPending, acquirePending, acquires
<1> QED BY InitIInv, IInvStep, <1>1, PTL DEF Spec

LEMMA FrozenStep ==
    ASSUME IInv, Next, phase = "accepted", phase' = "accepted"
    PROVE  UNCHANGED <<ledgerVars, mode, stanceVars, voteVars>>
<1> USE DEF ledgerVars, stanceVars, voteVars
<1>0. ~acquirePending
  BY IInvParts DEF CallInv, AcceptedIsSettled
<1>1. ASSUME NEW q \in Proposals, peerProposal(q), UNCHANGED <<phase, mode, ledgerVars, stanceVars>>
      PROVE  UNCHANGED voteVars
  BY <1>1, PeerProposalOK
<1>2. ASSUME NEW q \in Proposals, StoreProposal(q)
      PROVE  UNCHANGED <<ledgerVars, mode, stanceVars, voteVars>>
  BY ZenonT(60), <1>2 DEF StoreProposal, roundVars
<1>3. ASSUME NEW q \in arriving, PeerProposal(q)
      PROVE  UNCHANGED <<ledgerVars, mode, stanceVars, voteVars>>
  <2>1. q \in Proposals
    BY IInvParts DEF EnvTypeOK
  <2> QED BY <1>1, <1>3, <2>1 DEF PeerProposal
<1>4. ASSUME NEW s \in requested, GotTxSet(s)
      PROVE  UNCHANGED <<ledgerVars, mode, stanceVars, voteVars>>
  BY ZenonT(60), <1>4 DEF GotTxSet, gotTxSet
<1>5. ASSUME NEW id, NEW ledger, NEW propose, StartRound(id, ledger, propose)
      PROVE  FALSE
  BY <1>5 DEF StartRound, startRoundInternal
<1>6. CASE TimerEntry
  BY Zenon, <1>6 DEF TimerEntry
<1>7. CASE Acquire
  BY ZenonT(60), <1>0, <1>7, CallingFacts DEF Acquire
<1>8. CASE Playback
  BY <1>8 DEF Playback, roundVars
<1>9. ASSUME NEW q \in playing, Replay(q)
      PROVE  UNCHANGED <<ledgerVars, mode, stanceVars, voteVars>>
  <2>1. q \in Proposals
    BY IInvParts DEF EnvTypeOK
  <2> QED BY <1>1, <1>9, <2>1 DEF Replay
<1>10. CASE ReplayDone
  BY <1>10 DEF ReplayDone, roundVars
<1>11. CASE FallingBehind
  BY <1>11 DEF FallingBehind, timerEntry, roundVars
<1>12. CASE Phase
  BY <1>12 DEF Phase
<1> QED BY Zenon, <1>2, <1>3, <1>4, <1>5, <1>6, <1>7, <1>8, <1>9, <1>10, <1>11, <1>12
        DEF Next, InProgress

(* Once a ledger is accepted, no handler touches what the accept job reads *)
(* without lock_, until startRound is called.                              *)
THEOREM AcceptedStateIsFrozen == Spec => FrozenWhileAccepted
<1>1. IInv /\ [Next]_vars =>
        [phase = "accepted" /\ phase' = "accepted" =>
           UNCHANGED <<ledgerVars, mode, stanceVars, voteVars>>]_vars
  BY ZenonT(60), FrozenStep
<1> QED BY InitIInv, IInvStep, <1>1, PTL DEF Spec, FrozenWhileAccepted

\* Outside of startRound the mode only moves away from proposing.
LEMMA NoReturnStep ==
    ASSUME IInv, Next
    PROVE  /\ sent = "bowOut" => sent' # "position"
           /\ mode' = "proposing" /\ mode # "proposing" => phase = "accepted"
           /\ mode \in {"wrongLedger", "switchedLedger"}
                  /\ mode' \in {"proposing", "observing"} => phase = "accepted"
<1> DEFINE stays == mode' = mode /\ sent' = sent
<1> SUFFICES \/ stays
             \/ phase = "accepted" /\ sent' = "nothing"
             \/ sent' \in {sent, "bowOut"} /\ mode' = (IF proposing THEN "observing" ELSE mode)
             \/ sent' = sent /\ mode' \in {"wrongLedger", "switchedLedger"}
             \/ mode' = mode /\ (mode # "proposing" => sent' = sent)
  BY ZenonT(30), IInvParts DEF RoundInv, BowedOutIsSilent, proposing
<1>1. ASSUME NEW rest, timerEntry(rest)
      PROVE  stays \/ (sent' \in {sent, "bowOut"}
                         /\ mode' = (IF proposing THEN "observing" ELSE mode))
  BY <1>1 DEF timerEntry, switchView, roundVars
<1>2. CASE Acquire
  BY <1>2 DEF Acquire, startRoundInternal
<1>3. CASE Phase
  <2>1. mode' = mode
    BY <1>3 DEF Phase
  <2>2. mode # "proposing" => sent' = sent
    <3>1. CASE phaseOpen
      BY ZenonT(30), <3>1 DEF phaseOpen, closeLedger, proposing
    <3>2. ASSUME NEW t, NEW stale, NEW refresh,
                 updateOurPositions(t, stale, refresh)
          PROVE  mode # "proposing" => sent' = sent
      BY <3>2, ZenonT(60) DEF updateOurPositions, proposing
    <3>3. CASE phaseEstablish
      BY <3>2, <3>3 DEF phaseEstablish
    <3> QED BY <1>3, <3>1, <3>3 DEF Phase
  <2> QED BY <2>1, <2>2
<1>4. CASE FallingBehind
  BY <1>1, <1>4 DEF FallingBehind, roundVars
<1>5. CASE TimerEntry
  BY ZenonT(30), <1>1, <1>5 DEF TimerEntry
<1>6. CASE Playback \/ ReplayDone \/ \E q \in playing : Replay(q)
  <2>1. CASE Playback
    BY <2>1 DEF Playback, roundVars
  <2>2. CASE ReplayDone
    BY <2>2 DEF ReplayDone, roundVars
  <2>3. ASSUME NEW q \in playing, Replay(q)
        PROVE  stays
    BY ZenonT(60), <2>3 DEF Replay, roundVars
  <2> QED BY ZenonT(60), <1>6, <2>1, <2>2, <2>3
<1>7. CASE \/ \E q \in Proposals : StoreProposal(q)
           \/ \E q \in arriving : PeerProposal(q)
           \/ \E s \in requested : GotTxSet(s)
  BY <1>7 DEF StoreProposal, PeerProposal, GotTxSet, roundVars
<1>8. CASE \E id, ledger \in LedgerIDs, propose \in BOOLEAN :
             StartRound(id, ledger, propose)
  BY <1>8 DEF StartRound
<1> QED BY <1>2, <1>3, <1>4, <1>5, <1>6, <1>7, <1>8 DEF Next, InProgress

(* A node that left a round sends no position in it any more, and takes    *)
(* part again only when startRound is called.                              *)
THEOREM NeverReturnsBeforeNextRound == Spec => NoReturnBeforeNextRound
<1>1. IInv /\ [Next]_vars =>
        [/\ sent = "bowOut" => sent' # "position"
         /\ mode' = "proposing" /\ mode # "proposing" => phase = "accepted"
         /\ mode \in {"wrongLedger", "switchedLedger"}
                /\ mode' \in {"proposing", "observing"} => phase = "accepted"]_vars
  BY NoReturnStep
<1> QED BY InitIInv, IInvStep, <1>1, PTL DEF Spec, NoReturnBeforeNextRound
====

----------------------------- MODULE VoteProofs -----------------------------
(***************************************************************************)
(* Proofs about what the nodes vote on: the close time of a ledger         *)
(* (CloseTime), a disputed transaction (DisputedTx) and the offset of      *)
(* their close times (TimeKeeper); for any finite sets of nodes and any    *)
(* close times that they report.                                           *)
(***************************************************************************)
EXTENDS CloseTime, DisputedTx, TimeKeeper, FiniteSetTheorems, TLAPS

\* The provers of a step that names none, in the order they are tried.
USE SMT, Zenon, SMTT(30)

-----------------------------------------------------------------------------
(* Finite sets *)

\* Induction on the subsets of a finite set, from the least counterexample.
LEMMA SubsetsByInduction ==
    ASSUME NEW S, IsFiniteSet(S), NEW Good,
           \A T \in SUBSET S : (\A U \in SUBSET T : U # T => U \in Good) => T \in Good
    PROVE  \A T \in SUBSET S : T \in Good
<1> DEFINE Bad == {T \in SUBSET S : T \notin Good}
           R == StrictSubsetOrdering(S)
<1>1. FiniteSubsetsOf(S) = SUBSET S
  BY FS_Subset DEF FiniteSubsetsOf
<1>2. IsWellFoundedOn(R, SUBSET S)
  BY Zenon, <1>1, FS_StrictSubsetOrderingWellFounded
<1>3. ASSUME Bad # {} PROVE FALSE
  <2> HIDE DEF R, Bad
  <2>1. PICK T \in Bad : \A U \in Bad : ~(<<U, T>> \in R)
    <3>1. Bad \subseteq SUBSET S
      BY DEF Bad
    <3> QED BY <1>2, <1>3, <3>1, WFMin
  <2>2. T \in SUBSET S /\ T \notin Good
    BY DEF Bad
  <2>3. ASSUME NEW U \in SUBSET T, U # T PROVE U \in Good
    <3>1. U \in SUBSET S
      BY <2>2
    <3>2. <<U, T>> \in R
      BY <2>2, <2>3, <3>1 DEF R, StrictSubsetOrdering
    <3> QED BY <2>1, <3>1, <3>2 DEF Bad
  <2> QED BY <2>2, <2>3
<1> QED BY <1>3

\* Finitely many numbers have a least and a greatest.
LEMMA Extremes ==
    ASSUME NEW S, IsFiniteSet(S), S # {}, NEW f, \A x \in S : f[x] \in Int
    PROVE  \E lo, hi \in S : \A x \in S : f[lo] <= f[x] /\ f[x] <= f[hi]
<1> DEFINE Good ==
        {T \in SUBSET S :
            T # {} => \E lo, hi \in T : \A x \in T : f[lo] <= f[x] /\ f[x] <= f[hi]}
<1>1. ASSUME NEW T \in SUBSET S, \A U \in SUBSET T : U # T => U \in Good
      PROVE  T \in Good
  <2>1. CASE T = {}
    BY <2>1
  <2>2. ASSUME NEW y \in T PROVE T \in Good
    <3> DEFINE U == T \ {y}
    <3>1. U \in Good
      BY Zenon, <1>1
    <3>2. CASE U = {}
      <4>1. T = {y}
        BY <3>2
      <4> QED BY <4>1
    <3>3. CASE U # {}
      <4>1. PICK lo \in U, hi \in U : \A x \in U : f[lo] <= f[x] /\ f[x] <= f[hi]
        BY <3>1, <3>3
      <4> DEFINE a == IF f[y] < f[lo] THEN y ELSE lo
                 b == IF f[y] > f[hi] THEN y ELSE hi
      <4>2. a \in T /\ b \in T /\ \A x \in T : f[a] <= f[x] /\ f[x] <= f[b]
        BY <4>1
      <4> QED BY Zenon, <4>2
    <3> QED BY Zenon, <3>2, <3>3
  <2> QED BY <2>1, <2>2
<1> HIDE DEF Good
<1>2. S \in Good
  BY Zenon, <1>1, SubsetsByInduction
<1> QED BY <1>2 DEF Good

-----------------------------------------------------------------------------
(* The close time of a ledger *)

LEMMA BinsAre == bins = {10, 20, 30, 60, 90, 120}
BY DEF bins, ledgerPossibleTimeResolutions

\* Neither end of the table is overrun.
LEMMA NextIsABin ==
    ASSUME NEW r \in bins, NEW agree \in BOOLEAN, NEW seq \in Nat
    PROVE  getNextLedgerTimeResolution(r, agree, seq) \in bins
<1> DEFINE res == ledgerPossibleTimeResolutions
           coarser == {i \in 1..5 : res[i] = r}
           finer == {i \in 2..6 : res[i] = r}
<1>1. coarser # {} => res[(CHOOSE i \in coarser : TRUE) + 1] \in bins
  <2> SUFFICES ASSUME coarser # {}
               PROVE  res[(CHOOSE i \in coarser : TRUE) + 1] \in bins
    OBVIOUS
  <2> DEFINE k == CHOOSE i \in coarser : TRUE
  <2>1. k \in coarser
    OBVIOUS
  <2>2. k + 1 \in 1..6
    BY <2>1
  <2> HIDE DEF k
  <2> QED BY <2>2 DEF bins
<1>2. finer # {} => res[(CHOOSE i \in finer : TRUE) - 1] \in bins
  <2> SUFFICES ASSUME finer # {}
               PROVE  res[(CHOOSE i \in finer : TRUE) - 1] \in bins
    OBVIOUS
  <2> DEFINE k == CHOOSE i \in finer : TRUE
  <2>1. k \in finer
    OBVIOUS
  <2>2. k - 1 \in 1..6
    BY <2>1
  <2> HIDE DEF k
  <2> QED BY <2>2 DEF bins
<1> HIDE DEF coarser, finer, res
<1> QED BY <1>1, <1>2, Zenon DEF getNextLedgerTimeResolution, coarser, finer, res

LEMMA NextResolutionIsABin ==
    ASSUME NEW l \in Ledgers
    PROVE  nextResolution(l) \in bins
<1>1. l.resolution \in bins /\ l.agree \in BOOLEAN /\ l.seq + 1 \in Nat
  BY DEF Ledgers
<1> QED BY <1>1, NextIsABin DEF nextResolution

LEMMA RoundCloseTimeIsNat ==
    ASSUME NEW t \in Nat, NEW r \in bins
    PROVE  roundCloseTime(t, r) \in Nat
<1>1. r \in Nat /\ r > 0 /\ r \div 2 \in Nat
  BY BinsAre
<1>2. ASSUME NEW up \in Nat
      PROVE  up - (up % r) \in Nat
  BY <1>1
<1> QED BY <1>1, <1>2 DEF roundCloseTime

\* The effective close time of a position other than 0 is after the prior one.
LEMMA EffectiveIsLater ==
    ASSUME NEW t \in Nat, NEW r \in bins, NEW prior \in Nat
    PROVE  /\ effCloseTime(t, r, prior) \in Nat
           /\ t # 0 => effCloseTime(t, r, prior) > prior
BY RoundCloseTimeIsNat DEF effCloseTime, larger

LEMMA EffectiveIsNat ==
    ASSUME TypeOK, NEW t \in Nat
    PROVE  effective(t) \in Nat /\ (t # 0 => effective(t) > ledger.closeTime)
<1>1. closeResolution \in bins /\ ledger.closeTime \in Nat
  BY DEF TypeOK, Ledgers
<1> QED BY <1>1, EffectiveIsLater DEF effective

LEMMA LedgerBuiltType ==
    ASSUME TypeOK
    PROVE  ledgerBuilt \in Ledgers /\ ledgerBuilt.closeTime > ledger.closeTime
<1>1. /\ ledger.seq + 1 \in Nat \ {0} /\ ledger.closeTime \in Nat
      /\ closeResolution \in bins /\ ourTime \in Nat
  BY DEF TypeOK, Ledgers
<1> DEFINE time == IF ourTime = 0 THEN ledger.closeTime + 1
                                  ELSE effective(ourTime)
<1>2. time \in Nat /\ time > ledger.closeTime
  BY <1>1, EffectiveIsNat
<1>3. ledgerBuilt = [seq |-> ledger.seq + 1, closeTime |-> time,
                     resolution |-> closeResolution, agree |-> ourTime # 0]
  BY DEF ledgerBuilt
<1> HIDE DEF time
<1> QED BY <1>1, <1>2, <1>3 DEF Ledgers

LEMMA OutcomeType ==
    ASSUME TypeOK, NEW current \in SUBSET {p \in Peers : peerTimes[p] # None},
           NEW pct, NEW vote \in outcomes(current, pct)
    PROVE  vote.time \in Nat /\ vote.agreed \in BOOLEAN
<1> DEFINE times == standing(current)
           n == Cardinality(DOMAIN times)
           lead == leading(times, participantsNeeded(n, neededWeight(pct)))
<1>1. ASSUME NEW t \in lead
      PROVE  t \in Nat
  <2>1. PICK m \in DOMAIN times : t = times[m]
    BY DEF leading
  <2>2. CASE m = Self
    <3>1. ourTime \in Nat
      BY DEF TypeOK
    <3> QED BY <2>1, <2>2, <3>1, EffectiveIsNat DEF standing
  <2>3. CASE m # Self
    <3>1. m \in current /\ peerTimes[m] \in Nat
      BY <2>1, <2>3 DEF standing, TypeOK
    <3>2. t = effective(peerTimes[m])
      BY <2>1, <2>3 DEF standing
    <3> QED BY <3>1, <3>2, EffectiveIsNat
  <2> QED BY <2>2, <2>3
<1>2. effective(ourTime) \in Nat
  BY EffectiveIsNat DEF TypeOK
<1>3. CASE current = {}
  <2>1. vote = [time |-> effective(ourTime), agreed |-> TRUE]
    BY <1>3 DEF outcomes
  <2> QED BY <1>2, <2>1
<1>4. CASE current # {} /\ lead = {}
  <2>1. vote = [time |-> 0, agreed |-> FALSE]
    BY <1>4 DEF outcomes
  <2> QED BY <2>1
<1>5. CASE current # {} /\ lead # {}
  <2> DEFINE enough(t) == votesFor(times, t) >= participantsNeeded(n, AV_CT_CONSENSUS_PCT)
  <2>1. PICK t \in lead : vote = [time |-> t, agreed |-> enough(t)]
    BY <1>5, Zenon DEF outcomes
  <2>2. enough(t) \in BOOLEAN
    OBVIOUS
  <2> HIDE DEF enough, lead
  <2> QED BY <1>1, <2>1, <2>2
<1> QED BY <1>3, <1>4, <1>5

LEMMA InitTypeOK == Init => TypeOK
<1> SUFFICES ASSUME Init PROVE TypeOK
  OBVIOUS
<1>1. ledger \in Ledgers
  BY SampleAssumption DEF Init
<1>2. closeResolution \in bins
  BY <1>1, NextResolutionIsABin DEF Init
<1>3. noTimes \in [Peers -> Nat \cup {None}]
  BY DEF noTimes
<1> QED BY Zenon, <1>1, <1>2, <1>3 DEF Init, TypeOK

LEMMA TypeStep == TypeOK /\ [Next]_vars => TypeOK'
<1> SUFFICES ASSUME TypeOK, [Next]_vars PROVE TypeOK'
  OBVIOUS
<1>0. noTimes \in [Peers -> Nat \cup {None}]
  BY DEF noTimes
<1>1. ASSUME NEW p \in Peers, NEW time \in PeerTimes, PeerProposal(p, time)
      PROVE  TypeOK'
  BY <1>1, SampleAssumption DEF PeerProposal, TypeOK, roundVars, voteVars
<1>2. ASSUME NEW p \in Peers, PeerLeaves(p)
      PROVE  TypeOK'
  BY <1>2 DEF PeerLeaves, TypeOK, roundVars, voteVars
<1>3. CASE LeaveConsensus
  BY Zenon, <1>0, <1>3 DEF LeaveConsensus, TypeOK, voteVars
<1>4. ASSUME NEW now \in ClockReadings, closeLedger(now)
      PROVE  TypeOK'
  BY <1>4, SampleAssumption DEF closeLedger, TypeOK, roundVars
<1>5. ASSUME NEW pct \in PercentTimes, NEW stale \in SUBSET Peers,
             NEW refresh \in BOOLEAN, NEW haveConsensus \in BOOLEAN,
             phaseEstablish(pct, stale, refresh, haveConsensus)
      PROVE  TypeOK'
  <2> DEFINE current == {p \in Peers \ stale : peerTimes[p] # None}
  <2>1. PICK vote \in outcomes(current, pct) :
          /\ consensusCloseTime' = vote.time
          /\ agreed' = vote.agreed
          /\ ourTime' = IF refresh \/ vote.time # effective(ourTime)
                          THEN vote.time ELSE ourTime
          /\ phase' = IF haveConsensus /\ vote.agreed THEN "accepted" ELSE phase
    BY <1>5 DEF phaseEstablish
  <2>2. vote.time \in Nat /\ vote.agreed \in BOOLEAN
    BY <2>1, OutcomeType
  <2>3. peerTimes' \in [Peers -> Nat \cup {None}]
    BY <1>5 DEF phaseEstablish, TypeOK
  <2>4. UNCHANGED <<ledger, roundVars, built>>
    BY <1>5 DEF phaseEstablish
  <2> QED BY <2>1, <2>2, <2>3, <2>4 DEF TypeOK, roundVars
<1>6. ASSUME NEW propose \in BOOLEAN, acceptLedger(propose)
      PROVE  TypeOK'
  <2>1. ledgerBuilt \in Ledgers /\ nextResolution(ledgerBuilt) \in bins
    BY LedgerBuiltType, NextResolutionIsABin
  <2>2. /\ ledger' \in Ledgers /\ closeResolution' \in bins
        /\ peerTimes' \in [Peers -> Nat \cup {None}]
    BY <1>0, <1>6, <2>1 DEF acceptLedger
  <2>3. proposing' \in BOOLEAN /\ agreed' \in BOOLEAN
    BY <1>6, Zenon DEF acceptLedger
  <2>4. /\ phase' \in {"open", "establish", "accepted"}
        /\ ourTime' \in Nat /\ consensusCloseTime' \in Nat /\ built' \in Nat
    BY <1>6 DEF acceptLedger, TypeOK
  <2> QED BY <2>2, <2>3, <2>4 DEF TypeOK
<1>7. CASE UNCHANGED vars
  BY <1>7 DEF vars, TypeOK, roundVars, voteVars
<1> QED BY <1>1, <1>2, <1>3, <1>4, <1>5, <1>6, <1>7 DEF Next

(* The resolution never leaves the table, so that the assert of             *)
(* getNextLedgerTimeResolution holds in every round.                       *)
THEOREM ResolutionAlwaysABin == Spec => []ResolutionIsABin
<1>1. TypeOK => ResolutionIsABin
  BY DEF TypeOK, ResolutionIsABin, Ledgers
<1> QED BY InitTypeOK, TypeStep, <1>1, PTL DEF Spec

(* Every ledger closes later than its parent, whatever close times the     *)
(* clock and the peers offer and whatever the vote decides.                *)
THEOREM CloseTimesAlwaysIncrease == Spec => CloseTimesIncrease
<1>1. TypeOK /\ [Next]_vars =>
        [ledger' # ledger => ledger'.closeTime > ledger.closeTime]_vars
  <2> SUFFICES ASSUME TypeOK, Next, ledger' # ledger
               PROVE  ledger'.closeTime > ledger.closeTime
    OBVIOUS
  <2>1. ledger' = ledgerBuilt
    BY DEF Next, PeerProposal, PeerLeaves, LeaveConsensus, closeLedger,
           phaseEstablish, acceptLedger
  <2> QED BY <2>1, LedgerBuiltType
<1> QED BY InitTypeOK, TypeStep, <1>1, PTL DEF Spec, CloseTimesIncrease

\* The rounded 75% is more than half, from three participants on.
LEMMA ThresholdIsMajority ==
    ASSUME NEW n \in Nat, n >= 3
    PROVE  /\ participantsNeeded(n, AV_CT_CONSENSUS_PCT) \in Nat
           /\ 2 * participantsNeeded(n, AV_CT_CONSENSUS_PCT) > n
<1> DEFINE q == (n * 75 + 37) \div 100
<1>1. q \in Nat /\ 100 * q + 99 >= n * 75 + 37
  OBVIOUS
<1>2. 2 * q > n
  BY <1>1
<1>3. 75 \div 2 = 37
  OBVIOUS
<1>4. participantsNeeded(n, AV_CT_CONSENSUS_PCT) = IF 1 < q THEN q ELSE 1
  BY <1>3 DEF participantsNeeded, AV_CT_CONSENSUS_PCT, larger
<1> HIDE DEF q
<1> QED BY <1>1, <1>2, <1>4

(* From three participants on a round is accepted only with a close time   *)
(* that more than half of them stand for.                                  *)
THEOREM AgreedAlwaysMeansMajority == Spec => AgreedMeansMajority
<1> DEFINE times == standing({p \in Peers : peerTimes'[p] # None})
           n == Cardinality(DOMAIN times)
<1>1. ASSUME Next, phase # "accepted", phase' = "accepted", n >= 3
      PROVE  2 * votesFor(times, consensusCloseTime') > n
  <2>1. PICK pct \in PercentTimes, stale \in SUBSET Peers,
             refresh \in BOOLEAN, haveConsensus \in BOOLEAN :
               phaseEstablish(pct, stale, refresh, haveConsensus)
    BY <1>1 DEF Next, PeerProposal, PeerLeaves, LeaveConsensus, closeLedger,
                acceptLedger
  <2> DEFINE current == {p \in Peers \ stale : peerTimes[p] # None}
             enough(t) == votesFor(times, t) >= participantsNeeded(n, AV_CT_CONSENSUS_PCT)
             lead == leading(times, participantsNeeded(n, neededWeight(pct)))
  <2>2. {p \in Peers : peerTimes'[p] # None} = current
    BY <2>1 DEF phaseEstablish
  <2>3. times = standing(current)
    BY <2>2
  <2>4. PICK vote \in outcomes(current, pct) :
          consensusCloseTime' = vote.time /\ vote.agreed
    BY Zenon, <1>1, <2>1 DEF phaseEstablish
  <2>5. DOMAIN times = current \cup (IF proposing THEN {Self} ELSE {})
    BY <2>3 DEF standing
  <2>6. IsFiniteSet(DOMAIN times) /\ n \in Nat
    <3>1. IsFiniteSet(Peers \cup {Self})
      BY PeersAssumption, FS_AddElement
    <3>2. DOMAIN times \subseteq Peers \cup {Self}
      BY <2>5
    <3> QED BY <3>1, <3>2, FS_Subset, FS_CardinalityType
  <2>7. current # {}
    <3> SUFFICES ASSUME current = {} PROVE FALSE
      OBVIOUS
    <3>1. DOMAIN times \subseteq {Self}
      BY <2>5
    <3>2. IsFiniteSet({Self}) /\ Cardinality({Self}) = 1
      BY Zenon, FS_Singleton
    <3>3. n <= Cardinality({Self})
      BY <3>1, <3>2, FS_Subset
    <3> QED BY <1>1, <2>6, <3>2, <3>3
  <2>8. lead # {}
    <3> SUFFICES ASSUME lead = {} PROVE FALSE
      OBVIOUS
    <3>1. vote = [time |-> 0, agreed |-> FALSE]
      BY <2>3, <2>4, <2>7 DEF outcomes
    <3> QED BY <2>4, <3>1
  <2>9. PICK t \in lead : vote = [time |-> t, agreed |-> enough(t)]
    BY <2>3, <2>4, <2>7, <2>8, Zenon DEF outcomes
  <2>10. consensusCloseTime' = t /\ enough(t)
    BY <2>4, <2>9, Zenon
  <2>11. votesFor(times, t) \in Nat
    BY <2>6, FS_Subset, FS_CardinalityType DEF votesFor
  <2> HIDE DEF times, n
  <2>12. participantsNeeded(n, AV_CT_CONSENSUS_PCT) \in Nat
         /\ 2 * participantsNeeded(n, AV_CT_CONSENSUS_PCT) > n
    BY <1>1, <2>6, ThresholdIsMajority
  <2> QED BY <2>6, <2>10, <2>11, <2>12
<1>2. [Next]_vars =>
        [phase # "accepted" /\ phase' = "accepted" /\ n >= 3
           => 2 * votesFor(times, consensusCloseTime') > n]_vars
  <2> HIDE DEF times, n
  <2> QED BY <1>1
<1> QED BY <1>2, PTL DEF Spec, AgreedMeansMajority

\* Rounding a rounded time changes nothing, and rounding moves a time up by
\* at most half the resolution.
LEMMA RoundTwice ==
    ASSUME NEW t \in Nat, NEW r \in bins
    PROVE  /\ roundCloseTime(roundCloseTime(t, r), r) = roundCloseTime(t, r)
           /\ roundCloseTime(t, r) <= t + r \div 2
<1>1. r \in {10, 20, 30, 60, 90, 120}
  BY BinsAre
<1>2. CASE r = 10
  BY <1>2 DEF roundCloseTime
<1>3. CASE r = 20
  BY <1>3 DEF roundCloseTime
<1>4. CASE r = 30
  BY <1>4 DEF roundCloseTime
<1>5. CASE r = 60
  BY <1>5 DEF roundCloseTime
<1>6. CASE r = 90
  BY <1>6 DEF roundCloseTime
<1>7. CASE r = 120
  BY <1>7 DEF roundCloseTime
<1> QED BY <1>1, <1>2, <1>3, <1>4, <1>5, <1>6, <1>7

\* An effective time stays, or it is the earliest one allowed.
LEMMA EffectiveTwice ==
    ASSUME NEW t \in Nat, NEW r \in bins, NEW prior \in Nat,
           NEW e, e = effCloseTime(t, r, prior)
    PROVE  \/ effCloseTime(e, r, prior) = e
           \/ /\ e = prior + 1
              /\ effCloseTime(e, r, prior) >= e
              /\ effCloseTime(e, r, prior) <= e + r \div 2
<1> DEFINE x == roundCloseTime(t, r)
           y == roundCloseTime(prior + 1, r)
<1>0. r \div 2 \in Nat
  BY BinsAre
<1>1. x \in Nat /\ y \in Nat /\ r \div 2 \in Nat
  <2>1. prior + 1 \in Nat
    OBVIOUS
  <2> QED BY <1>0, <2>1, RoundCloseTimeIsNat
<1>2. roundCloseTime(x, r) = x /\ y <= prior + 1 + r \div 2
  BY RoundTwice
<1>3. e = IF t = 0 THEN 0 ELSE IF x < prior + 1 THEN prior + 1 ELSE x
  BY DEF effCloseTime, larger
<1>4. CASE t = 0
  BY <1>3, <1>4 DEF effCloseTime
<1>5. CASE t # 0 /\ x < prior + 1
  <2>1. e = prior + 1
    BY <1>3, <1>5
  <2>2. effCloseTime(e, r, prior) = IF y < prior + 1 THEN prior + 1 ELSE y
    BY <2>1 DEF effCloseTime, larger
  <2> HIDE DEF y
  <2> QED BY <1>1, <1>2, <2>1, <2>2
<1>6. CASE t # 0 /\ ~(x < prior + 1)
  <2>1. e = x /\ x # 0
    BY <1>1, <1>3, <1>6
  <2>2. effCloseTime(x, r, prior) = IF x < prior + 1 THEN prior + 1 ELSE x
    BY <1>2, <2>1 DEF effCloseTime, larger
  <2> HIDE DEF x
  <2> QED BY <1>6, <2>1, <2>2
<1> QED BY <1>4, <1>5, <1>6

\* What the vote decides is the effective time of somebody's position.
LEMMA OutcomeIsEffective ==
    ASSUME TypeOK, NEW current \in SUBSET {p \in Peers : peerTimes[p] # None},
           NEW pct, NEW vote \in outcomes(current, pct)
    PROVE  \E t \in Nat : vote.time = effective(t)
<1> DEFINE times == standing(current)
           n == Cardinality(DOMAIN times)
           lead == leading(times, participantsNeeded(n, neededWeight(pct)))
<1>0. ourTime \in Nat
  BY DEF TypeOK
<1>1. ASSUME NEW t \in lead
      PROVE  \E u \in Nat : t = effective(u)
  <2>1. PICK m \in DOMAIN times : t = times[m]
    BY DEF leading
  <2>2. CASE m = Self
    BY <1>0, <2>1, <2>2 DEF standing
  <2>3. CASE m # Self
    <3>1. m \in current /\ peerTimes[m] \in Nat
      BY <2>1, <2>3 DEF standing, TypeOK
    <3>2. t = effective(peerTimes[m])
      BY <2>1, <2>3 DEF standing
    <3> QED BY <3>1, <3>2
  <2> QED BY <2>2, <2>3
<1>2. CASE current = {}
  <2>1. vote = [time |-> effective(ourTime), agreed |-> TRUE]
    BY <1>2 DEF outcomes
  <2> QED BY <1>0, <2>1
<1>3. CASE current # {} /\ lead = {}
  <2>1. vote = [time |-> 0, agreed |-> FALSE]
    BY <1>3 DEF outcomes
  <2>2. effective(0) = 0
    BY DEF effective, effCloseTime
  <2> QED BY <2>1, <2>2
<1>4. CASE current # {} /\ lead # {}
  <2> DEFINE enough(t) == votesFor(times, t) >= participantsNeeded(n, AV_CT_CONSENSUS_PCT)
  <2>1. PICK t \in lead : vote = [time |-> t, agreed |-> enough(t)]
    BY <1>4, Zenon DEF outcomes
  <2> HIDE DEF enough, lead
  <2> QED BY <1>1, <2>1
<1> QED BY <1>2, <1>3, <1>4

\* The position of a node that may build: it stands for the agreed time, or
\* it is the agreed time and that is the earliest one allowed.
TimeAdopted ==
    phase = "accepted" /\ consensusCloseTime # 0 =>
        /\ ourTime # 0
        /\ \/ effective(ourTime) = consensusCloseTime
           \/ /\ consensusCloseTime = ledger.closeTime + 1
              /\ effective(ourTime) >= consensusCloseTime
              /\ effective(ourTime) <= consensusCloseTime + closeResolution \div 2

LEMMA TimeAdoptedStep == TypeOK /\ TimeAdopted /\ [Next]_vars => TimeAdopted'
<1> SUFFICES ASSUME TypeOK, TimeAdopted, [Next]_vars PROVE TimeAdopted'
  OBVIOUS
<1>0. /\ closeResolution \in bins /\ ledger.closeTime \in Nat
      /\ ourTime \in Nat
  BY DEF TypeOK, Ledgers
<1>1. ASSUME NEW p \in Peers, NEW time \in PeerTimes, PeerProposal(p, time)
      PROVE  TimeAdopted'
  BY <1>1 DEF PeerProposal, TimeAdopted, roundVars, voteVars
<1>2. ASSUME NEW p \in Peers, PeerLeaves(p)
      PROVE  TimeAdopted'
  BY <1>2 DEF PeerLeaves, TimeAdopted, roundVars, voteVars
<1>3. CASE LeaveConsensus
  BY <1>3 DEF LeaveConsensus, TimeAdopted, voteVars
<1>4. ASSUME NEW now \in ClockReadings, closeLedger(now)
      PROVE  TimeAdopted'
  BY <1>4 DEF closeLedger, TimeAdopted
<1>5. ASSUME NEW pct \in PercentTimes, NEW stale \in SUBSET Peers,
             NEW refresh \in BOOLEAN, NEW haveConsensus \in BOOLEAN,
             phaseEstablish(pct, stale, refresh, haveConsensus)
      PROVE  TimeAdopted'
  <2> DEFINE current == {p \in Peers \ stale : peerTimes[p] # None}
  <2>1. PICK vote \in outcomes(current, pct) :
          /\ consensusCloseTime' = vote.time
          /\ ourTime' = IF refresh \/ vote.time # effective(ourTime)
                          THEN vote.time ELSE ourTime
    BY <1>5 DEF phaseEstablish
  <2>2. PICK t \in Nat : vote.time = effective(t)
    BY <2>1, OutcomeIsEffective
  <2>3. UNCHANGED <<ledger, proposing, closeResolution>>
    BY <1>5 DEF phaseEstablish, roundVars
  <2>4. vote.time \in Nat
    BY <2>1, OutcomeType
  <2>5. effective(ourTime)' = effCloseTime(ourTime', closeResolution, ledger.closeTime)
    BY <2>3 DEF effective
  <2>6. CASE ourTime' = vote.time
    <3> DEFINE e == vote.time
               f == effCloseTime(e, closeResolution, ledger.closeTime)
    <3>1. e = effCloseTime(t, closeResolution, ledger.closeTime)
      BY <2>2 DEF effective
    <3>2. \/ f = e
          \/ /\ e = ledger.closeTime + 1
             /\ f >= e
             /\ f <= e + closeResolution \div 2
      BY <1>0, <3>1, EffectiveTwice
    <3>3. effective(ourTime)' = f
      BY <2>5, <2>6
    <3> HIDE DEF e, f
    <3> QED BY <2>1, <2>3, <2>6, <3>2, <3>3 DEF TimeAdopted, e
  <2>7. CASE ourTime' = ourTime /\ vote.time = effective(ourTime)
    <3>1. effective(ourTime)' = consensusCloseTime'
      BY <2>1, <2>3, <2>7 DEF effective
    <3>2. consensusCloseTime' # 0 => ourTime' # 0
      BY <2>1, <2>7 DEF effective, effCloseTime
    <3> QED BY <3>1, <3>2 DEF TimeAdopted
  <2> QED BY <2>1, <2>6, <2>7
<1>6. ASSUME NEW propose \in BOOLEAN, acceptLedger(propose)
      PROVE  TimeAdopted'
  BY <1>6 DEF acceptLedger, TimeAdopted
<1>7. CASE UNCHANGED vars
  BY <1>7 DEF vars, TimeAdopted, roundVars, voteVars, effective
<1> QED BY <1>1, <1>2, <1>3, <1>4, <1>5, <1>6, <1>7 DEF Next

(* A ledger built after a close time was agreed on has that close time, or *)
(* is off by at most half the resolution, forward, from the earliest time  *)
(* allowed.                                                                *)
THEOREM AlwaysBuiltNearAgreed == Spec => BuiltNearAgreed
<1>1. TypeOK /\ TimeAdopted /\ [Next]_vars =>
        [ledger' # ledger /\ consensusCloseTime # 0
           => \/ ledger'.closeTime = consensusCloseTime
              \/ /\ consensusCloseTime = ledger.closeTime + 1
                 /\ ledger'.closeTime >= consensusCloseTime
                 /\ ledger'.closeTime - consensusCloseTime
                        <= closeResolution \div 2]_vars
  <2> SUFFICES ASSUME TypeOK, TimeAdopted, Next, ledger' # ledger,
                      consensusCloseTime # 0
               PROVE  \/ ledger'.closeTime = consensusCloseTime
                      \/ /\ consensusCloseTime = ledger.closeTime + 1
                         /\ ledger'.closeTime >= consensusCloseTime
                         /\ ledger'.closeTime - consensusCloseTime
                                <= closeResolution \div 2
    OBVIOUS
  <2>1. ledger' = ledgerBuilt /\ phase = "accepted"
    BY DEF Next, PeerProposal, PeerLeaves, LeaveConsensus, closeLedger,
           phaseEstablish, acceptLedger
  <2>2. ledger'.closeTime = effective(ourTime)
    BY <2>1 DEF ledgerBuilt, TimeAdopted
  <2>3. /\ effective(ourTime) \in Nat /\ consensusCloseTime \in Nat
        /\ closeResolution \div 2 \in Nat
    BY EffectiveIsNat, BinsAre DEF TypeOK
  <2> QED BY <2>1, <2>2, <2>3 DEF TimeAdopted
<1>2. Init => TimeAdopted
  BY DEF Init, TimeAdopted
<1> QED BY InitTypeOK, TypeStep, TimeAdoptedStep, <1>1, <1>2, PTL
        DEF Spec, BuiltNearAgreed

-----------------------------------------------------------------------------
(* The loop of the vote *)

\* What the loop leaves after the times in s: nothing when none of them has
\* enough votes, else the latest of those with the most.
Won(times, threshVote, threshConsensus, s, acc) ==
    \/ /\ acc = [time |-> 0, thresh |-> threshVote, agreed |-> FALSE]
       /\ \A u \in s : votesFor(times, u) < threshVote
    \/ \E t \in s :
         /\ acc = [time |-> t, thresh |-> votesFor(times, t),
                   agreed |-> votesFor(times, t) >= threshConsensus]
         /\ votesFor(times, t) >= threshVote
         /\ \A u \in s : \/ votesFor(times, u) < votesFor(times, t)
                         \/ votesFor(times, u) = votesFor(times, t) /\ u <= t

LEMMA LatestIn ==
    ASSUME NEW s \in SUBSET Nat, IsFiniteSet(s), s # {}
    PROVE  latest(s) \in s /\ \A u \in s : u <= latest(s)
<1> DEFINE f == [x \in s |-> x]
<1>1. \A x \in s : f[x] \in Int
  OBVIOUS
<1> HIDE DEF f
<1>2. PICK lo \in s, hi \in s : \A x \in s : f[lo] <= f[x] /\ f[x] <= f[hi]
  BY <1>1, Extremes
<1>3. \E t \in s : \A u \in s : u <= t
  BY <1>2 DEF f
<1> QED BY Zenon, <1>3 DEF latest

\* What is left is determined by the times.
LEMMA WonOnce ==
    ASSUME NEW times, NEW threshVote \in Nat, NEW threshConsensus \in Nat,
           NEW s \in SUBSET Nat, \A u \in s : votesFor(times, u) \in Nat,
           NEW a, Won(times, threshVote, threshConsensus, s, a),
           NEW b, Won(times, threshVote, threshConsensus, s, b)
    PROVE  a = b
<1> DEFINE v(t) == votesFor(times, t)
           nothing == [time |-> 0, thresh |-> threshVote, agreed |-> FALSE]
           taken(t) == [time |-> t, thresh |-> v(t), agreed |-> v(t) >= threshConsensus]
           best(t) == /\ v(t) >= threshVote
                      /\ \A u \in s : v(u) < v(t) \/ (v(u) = v(t) /\ u <= t)
<1>1. ASSUME NEW t \in s, NEW u \in s, best(t), best(u) PROVE t = u
  <2>1. t \in Nat /\ u \in Nat /\ v(t) \in Nat /\ v(u) \in Nat
    OBVIOUS
  <2> HIDE DEF v
  <2> QED BY <1>1, <2>1
<1>2. ASSUME NEW t \in s, best(t), \A u \in s : v(u) < threshVote PROVE FALSE
  <2>1. v(t) \in Nat
    OBVIOUS
  <2> HIDE DEF v
  <2> QED BY <1>2, <2>1
<1>3. ASSUME NEW c, Won(times, threshVote, threshConsensus, s, c)
      PROVE  \/ c = nothing /\ \A u \in s : v(u) < threshVote
             \/ \E t \in s : c = taken(t) /\ best(t)
  BY Zenon, <1>3 DEF Won
<1> HIDE DEF v, nothing, taken, best
<1>4. \/ a = nothing /\ \A u \in s : v(u) < threshVote
      \/ \E t \in s : a = taken(t) /\ best(t)
  BY Zenon, <1>3
<1>5. \/ b = nothing /\ \A u \in s : v(u) < threshVote
      \/ \E t \in s : b = taken(t) /\ best(t)
  BY Zenon, <1>3
<1> QED BY Zenon, <1>1, <1>2, <1>4, <1>5

\* One iteration, with the latest of the times so far.
LEMMA WonStep ==
    ASSUME NEW times, NEW threshVote \in Nat, NEW threshConsensus \in Nat,
           NEW s \in SUBSET Nat, \A u \in s : votesFor(times, u) \in Nat,
           NEW m \in s, \A u \in s : u <= m,
           NEW acc, Won(times, threshVote, threshConsensus, s \ {m}, acc)
    PROVE  Won(times, threshVote, threshConsensus, s,
               takeTime(times, threshConsensus, m, acc))
<1> DEFINE v(t) == votesFor(times, t)
           next == takeTime(times, threshConsensus, m, acc)
<1> SUFFICES Won(times, threshVote, threshConsensus, s, next)
  OBVIOUS
<1>0. m \in Nat /\ v(m) \in Nat /\ \A u \in s : u \in Nat /\ v(u) \in Nat
  OBVIOUS
<1>1. CASE /\ acc = [time |-> 0, thresh |-> threshVote, agreed |-> FALSE]
           /\ \A u \in s \ {m} : v(u) < threshVote
  <2>1. CASE v(m) >= threshVote
    <3>1. next = [time |-> m, thresh |-> v(m), agreed |-> v(m) >= threshConsensus]
      BY <1>1, <2>1 DEF takeTime
    <3>2. \A u \in s : v(u) < v(m) \/ (v(u) = v(m) /\ u <= m)
      <4> HIDE DEF v
      <4> QED BY <1>0, <1>1, <2>1
    <3> HIDE DEF next
    <3> QED BY Zenon, <2>1, <3>1, <3>2 DEF Won
  <2>2. CASE ~(v(m) >= threshVote)
    <3>1. next = [time |-> 0, thresh |-> threshVote, agreed |-> FALSE]
      BY <1>1, <2>2 DEF takeTime
    <3>2. \A u \in s : v(u) < threshVote
      <4> HIDE DEF v
      <4> QED BY <1>0, <1>1, <2>2
    <3> HIDE DEF next
    <3> QED BY Zenon, <3>1, <3>2 DEF Won
  <2> QED BY <2>1, <2>2
<1>2. ASSUME NEW t \in s \ {m},
             acc = [time |-> t, thresh |-> v(t), agreed |-> v(t) >= threshConsensus],
             v(t) >= threshVote,
             \A u \in s \ {m} : v(u) < v(t) \/ (v(u) = v(t) /\ u <= t)
      PROVE  Won(times, threshVote, threshConsensus, s, next)
  <2>1. CASE v(m) >= v(t)
    <3>1. (v(t) >= threshConsensus \/ v(m) >= threshConsensus) <=> v(m) >= threshConsensus
      <4> HIDE DEF v
      <4> QED BY <1>0, <2>1
    <3>2. next = [time |-> m, thresh |-> v(m), agreed |-> v(m) >= threshConsensus]
      <4>1. next = [time |-> m, thresh |-> v(m),
                    agreed |-> (v(t) >= threshConsensus \/ v(m) >= threshConsensus)]
        BY <1>2, <2>1 DEF takeTime
      <4> HIDE DEF next
      <4> QED BY <3>1, <4>1
    <3>3. v(m) >= threshVote /\ \A u \in s : v(u) < v(m) \/ (v(u) = v(m) /\ u <= m)
      <4> HIDE DEF v
      <4> QED BY <1>0, <1>2, <2>1
    <3> HIDE DEF next
    <3> QED BY Zenon, <3>2, <3>3 DEF Won
  <2>2. CASE ~(v(m) >= v(t))
    <3>1. next = acc
      BY <1>2, <2>2 DEF takeTime
    <3>2. \A u \in s : v(u) < v(t) \/ (v(u) = v(t) /\ u <= t)
      <4> HIDE DEF v
      <4> QED BY <1>0, <1>2, <2>2
    <3> HIDE DEF next
    <3> QED BY Zenon, <1>2, <3>1, <3>2 DEF Won
  <2> QED BY <2>1, <2>2
<1> HIDE DEF next
<1>3. \/ /\ acc = [time |-> 0, thresh |-> threshVote, agreed |-> FALSE]
         /\ \A u \in s \ {m} : v(u) < threshVote
      \/ \E t \in s \ {m} :
           /\ acc = [time |-> t, thresh |-> v(t), agreed |-> v(t) >= threshConsensus]
           /\ v(t) >= threshVote
           /\ \A u \in s \ {m} : v(u) < v(t) \/ (v(u) = v(t) /\ u <= t)
  BY Zenon DEF Won
<1> QED BY Zenon, <1>1, <1>2, <1>3

\* The equation of the loop over the subsets of the times.
Loops(times, threshVote, threshConsensus, S, g) ==
    g = [s \in SUBSET S |->
            IF s = {}
              THEN [time |-> 0, thresh |-> threshVote, agreed |-> FALSE]
              ELSE takeTime(times, threshConsensus, latest(s), g[s \ {latest(s)}])]

\* The loop is defined, and leaves what it should.
LEMMA LoopWon ==
    ASSUME NEW times, NEW threshVote \in Nat, NEW threshConsensus \in Nat,
           NEW S \in SUBSET Nat, IsFiniteSet(S), \A u \in S : votesFor(times, u) \in Nat
    PROVE  /\ \E g : Loops(times, threshVote, threshConsensus, S, g)
           /\ \A g : Loops(times, threshVote, threshConsensus, S, g)
                       => Won(times, threshVote, threshConsensus, S, g[S])
<1> DEFINE W(s, acc) == Won(times, threshVote, threshConsensus, s, acc)
           nothing == [time |-> 0, thresh |-> threshVote, agreed |-> FALSE]
           rest(s) == s \ {latest(s)}
           take(s, acc) == takeTime(times, threshConsensus, latest(s), acc)
<1>1. ASSUME NEW s \in SUBSET S, s # {}
      PROVE  rest(s) \in SUBSET s /\ rest(s) # s /\ rest(s) \in SUBSET S
  <2>1. s \in SUBSET Nat /\ IsFiniteSet(s)
    BY FS_Subset
  <2> QED BY <1>1, <2>1, LatestIn
<1>2. ASSUME NEW s \in SUBSET S, s # {}, NEW acc, W(rest(s), acc)
      PROVE  W(s, take(s, acc))
  <2>1. s \in SUBSET Nat /\ IsFiniteSet(s) /\ \A u \in s : votesFor(times, u) \in Nat
    BY FS_Subset
  <2>2. latest(s) \in s /\ \A u \in s : u <= latest(s)
    BY <1>2, <2>1, LatestIn
  <2> QED BY <1>2, <2>1, <2>2, WonStep
<1>3. W({}, nothing)
  BY DEF Won
<1>4. ASSUME NEW s \in SUBSET S, NEW a, NEW b, W(s, a), W(s, b) PROVE a = b
  <2>1. s \in SUBSET Nat /\ \A u \in s : votesFor(times, u) \in Nat
    OBVIOUS
  <2> QED BY <1>4, <2>1, WonOnce
<1>5. ASSUME NEW g
      PROVE  Loops(times, threshVote, threshConsensus, S, g)
               <=> g = [s \in SUBSET S |-> IF s = {} THEN nothing ELSE take(s, g[rest(s)])]
  BY Zenon DEF Loops
<1> HIDE DEF W, nothing, rest, take
<1>6. \A s \in SUBSET S : \E acc : W(s, acc)
  <2> DEFINE Good == {s \in SUBSET S : \E acc : W(s, acc)}
  <2>1. ASSUME NEW T \in SUBSET S, \A U \in SUBSET T : U # T => U \in Good
        PROVE  T \in Good
    <3>1. CASE T = {}
      BY Zenon, <1>3, <3>1
    <3>2. CASE T # {}
      <4>1. rest(T) \in Good
        BY Zenon, <1>1, <2>1, <3>2
      <4> QED BY Zenon, <1>2, <3>2, <4>1
    <3> QED BY <3>1, <3>2
  <2> HIDE DEF Good
  <2>2. \A T \in SUBSET S : T \in Good
    BY Zenon, <2>1, SubsetsByInduction
  <2> QED BY <2>2 DEF Good
<1>7. \E g : Loops(times, threshVote, threshConsensus, S, g)
  <2> DEFINE result(s) == CHOOSE acc : W(s, acc)
             g == [s \in SUBSET S |-> result(s)]
  <2>1. \A s \in SUBSET S : W(s, result(s))
    BY Zenon, <1>6
  <2> HIDE DEF result
  <2>2. ASSUME NEW s \in SUBSET S
        PROVE  g[s] = IF s = {} THEN nothing ELSE take(s, g[rest(s)])
    <3>1. CASE s = {}
      BY Zenon, <1>3, <1>4, <2>1, <3>1
    <3>2. CASE s # {}
      <4>1. g[rest(s)] = result(rest(s)) /\ W(rest(s), result(rest(s)))
        BY Zenon, <1>1, <2>1, <3>2
      <4>2. W(s, take(s, result(rest(s))))
        BY Zenon, <1>2, <3>2, <4>1
      <4>3. result(s) = take(s, result(rest(s)))
        BY Zenon, <1>4, <2>1, <4>2
      <4> QED BY Zenon, <3>2, <4>1, <4>3
    <3> QED BY <3>1, <3>2
  <2>3. g = [s \in SUBSET S |-> IF s = {} THEN nothing ELSE take(s, g[rest(s)])]
    BY Zenon, <2>2
  <2> HIDE DEF g
  <2> QED BY Zenon, <1>5, <2>3
<1>8. ASSUME NEW g, Loops(times, threshVote, threshConsensus, S, g)
      PROVE  W(S, g[S])
  <2>1. g = [s \in SUBSET S |-> IF s = {} THEN nothing ELSE take(s, g[rest(s)])]
    BY Zenon, <1>5, <1>8
  <2> DEFINE Good == {s \in SUBSET S : W(s, g[s])}
  <2>2. ASSUME NEW T \in SUBSET S, \A U \in SUBSET T : U # T => U \in Good
        PROVE  T \in Good
    <3>1. CASE T = {}
      <4>1. g[T] = nothing
        BY Zenon, <2>1, <3>1
      <4> QED BY Zenon, <1>3, <3>1, <4>1
    <3>2. CASE T # {}
      <4>1. rest(T) \in Good
        BY Zenon, <1>1, <2>2, <3>2
      <4>2. g[T] = take(T, g[rest(T)])
        BY Zenon, <2>1, <3>2
      <4> QED BY Zenon, <1>2, <3>2, <4>1, <4>2
    <3> QED BY <3>1, <3>2
  <2> HIDE DEF Good
  <2>3. S \in Good
    BY Zenon, <2>2, SubsetsByInduction
  <2> QED BY <2>3 DEF Good
<1> QED BY Zenon, <1>7, <1>8 DEF W

LEMMA VoteLoopWon ==
    ASSUME NEW D, IsFiniteSet(D), NEW times \in [D -> Nat],
           NEW threshVote \in Nat, NEW threshConsensus \in Nat
    PROVE  Won(times, threshVote, threshConsensus, {times[n] : n \in DOMAIN times},
               voteLoop(times, threshVote, threshConsensus))
<1> DEFINE voted == {times[n] : n \in DOMAIN times}
           loop == CHOOSE g : Loops(times, threshVote, threshConsensus, voted, g)
<1> SUFFICES Won(times, threshVote, threshConsensus, voted,
                 voteLoop(times, threshVote, threshConsensus))
  OBVIOUS
<1>1. voted \in SUBSET Nat /\ IsFiniteSet(voted)
  <2>1. times \in Surjection(D, voted)
    BY DEF Surjection
  <2>2. IsFiniteSet(voted)
    BY <2>1, FS_Surjection
  <2> QED BY <2>2
<1>2. \A u \in voted : votesFor(times, u) \in Nat
  BY FS_Subset, FS_CardinalityType DEF votesFor
<1>3. voteLoop(times, threshVote, threshConsensus) = loop[voted]
  BY Zenon DEF voteLoop, Loops
<1> HIDE DEF voted
<1>4. Loops(times, threshVote, threshConsensus, voted, loop)
  BY Zenon, <1>1, <1>2, LoopWon
<1> HIDE DEF loop
<1> QED BY Zenon, <1>1, <1>2, <1>3, <1>4, LoopWon

LEMMA NeededType ==
    ASSUME NEW n \in Nat, NEW percent \in Nat
    PROVE  participantsNeeded(n, percent) \in Nat
<1>1. n * percent + percent \div 2 \in Nat
  OBVIOUS
<1>2. (n * percent + percent \div 2) \div 100 \in Nat
  BY <1>1
<1> QED BY <1>2 DEF participantsNeeded, larger

LEMMA StandingType ==
    ASSUME TypeOK, NEW current, current = {p \in Peers : peerTimes[p] # None}
    PROVE  \E D : IsFiniteSet(D) /\ standing(current) \in [D -> Nat]
<1> DEFINE D == current \cup (IF proposing THEN {Self} ELSE {})
           time(n) == effective(IF n = Self THEN ourTime ELSE peerTimes[n])
<1>1. IsFiniteSet(D)
  <2>1. IsFiniteSet(Peers \cup {Self})
    BY PeersAssumption, FS_AddElement
  <2>2. D \subseteq Peers \cup {Self}
    OBVIOUS
  <2> QED BY <2>1, <2>2, FS_Subset
<1>2. ASSUME NEW n \in D
      PROVE  time(n) \in Nat
  <2>1. (IF n = Self THEN ourTime ELSE peerTimes[n]) \in Nat
    BY DEF TypeOK
  <2> QED BY <2>1, EffectiveIsNat
<1>3. standing(current) = [n \in D |-> time(n)]
  BY DEF standing
<1> HIDE DEF D, time
<1>4. standing(current) \in [D -> Nat]
  BY <1>2, <1>3
<1> QED BY <1>1, <1>4

\* The closed form of the vote has the outcome of the loop.
LEMMA OutcomeOfLoop ==
    ASSUME TypeOK, NEW current, current = {p \in Peers : peerTimes[p] # None},
           current # {}, NEW pct \in Nat,
           NEW times, times = standing(current),
           NEW threshVote,
           threshVote = participantsNeeded(Cardinality(DOMAIN times), neededWeight(pct)),
           NEW threshConsensus,
           threshConsensus = participantsNeeded(Cardinality(DOMAIN times),
                                                AV_CT_CONSENSUS_PCT),
           NEW loop, loop = voteLoop(times, threshVote, threshConsensus)
    PROVE  outcomes(current, pct) = {[time |-> loop.time, agreed |-> loop.agreed]}
<1> DEFINE voted == {times[n] : n \in DOMAIN times}
           v(t) == votesFor(times, t)
           lead == leading(times, threshVote)
           best(t) == /\ v(t) >= threshVote
                      /\ \A u \in voted : v(u) < v(t) \/ (v(u) = v(t) /\ u <= t)
<1>1. PICK D : IsFiniteSet(D) /\ times \in [D -> Nat]
  BY StandingType
<1>2. Cardinality(DOMAIN times) \in Nat
  BY <1>1, FS_CardinalityType
<1>3. neededWeight(pct) \in Nat /\ AV_CT_CONSENSUS_PCT \in Nat
  BY DEF neededWeight, AV_CT_CONSENSUS_PCT
<1>4. threshVote \in Nat /\ threshConsensus \in Nat
  BY <1>2, <1>3, NeededType
<1>5. Won(times, threshVote, threshConsensus, voted, loop)
  BY <1>1, <1>4, VoteLoopWon
<1>6. \A u \in voted : u \in Nat /\ v(u) \in Nat
  <2>1. \A u \in voted : v(u) \in Nat
    BY <1>1, FS_Subset, FS_CardinalityType DEF votesFor
  <2> QED BY <1>1, <2>1
<1>7. lead = {t \in voted : best(t)}
  BY Zenon DEF leading
<1>8. outcomes(current, pct) =
        IF lead = {} THEN {[time |-> 0, agreed |-> FALSE]}
        ELSE {[time |-> t, agreed |-> v(t) >= threshConsensus] : t \in lead}
  BY Zenon DEF outcomes
<1> HIDE DEF lead
<1>9. CASE /\ loop = [time |-> 0, thresh |-> threshVote, agreed |-> FALSE]
           /\ \A u \in voted : v(u) < threshVote
  <2>1. lead = {}
    <3> HIDE DEF v, voted
    <3> QED BY <1>4, <1>6, <1>7, <1>9
  <2>2. loop.time = 0 /\ loop.agreed = FALSE
    BY <1>9
  <2> QED BY Zenon, <1>8, <2>1, <2>2
<1>10. ASSUME NEW t \in voted, best(t),
              loop = [time |-> t, thresh |-> v(t), agreed |-> v(t) >= threshConsensus]
       PROVE  outcomes(current, pct) = {[time |-> loop.time, agreed |-> loop.agreed]}
  <2>1. ASSUME NEW u \in voted, best(u) PROVE u = t
    <3> HIDE DEF v, voted
    <3> QED BY <1>6, <1>10, <2>1
  <2>2. lead = {t}
    <3> HIDE DEF best
    <3> QED BY <1>7, <1>10, <2>1
  <2>3. loop.time = t /\ loop.agreed = (v(t) >= threshConsensus)
    <3> DEFINE enough == v(t) >= threshConsensus
    <3>1. loop = [time |-> t, thresh |-> v(t), agreed |-> enough]
      BY <1>10
    <3> HIDE DEF v, enough
    <3>2. loop.time = t /\ loop.agreed = enough
      BY <3>1
    <3> QED BY <3>2 DEF enough
  <2>4. outcomes(current, pct) = {[time |-> t, agreed |-> v(t) >= threshConsensus]}
    <3> HIDE DEF v
    <3> QED BY <1>8, <2>2
  <2> QED BY Zenon, <2>3, <2>4
<1>11. \/ /\ loop = [time |-> 0, thresh |-> threshVote, agreed |-> FALSE]
          /\ \A u \in voted : v(u) < threshVote
       \/ \E t \in voted :
            /\ loop = [time |-> t, thresh |-> v(t), agreed |-> v(t) >= threshConsensus]
            /\ best(t)
  BY Zenon, <1>5 DEF Won
<1> HIDE DEF best, v, voted
<1> QED BY Zenon, <1>9, <1>10, <1>11

(* The vote has one outcome, that of the loop of updateOurPositions, for   *)
(* any number of peers and any close times.                                *)
THEOREM VoteAlwaysMatchesLoop == Spec => []VoteMatchesLoop
<1>1. TypeOK => VoteMatchesLoop
  <2> SUFFICES ASSUME TypeOK PROVE VoteMatchesLoop
    OBVIOUS
  <2> DEFINE current == {p \in Peers : peerTimes[p] # None}
             times == standing(current)
             needed(percent) == participantsNeeded(Cardinality(DOMAIN times), percent)
             vote(pct) == needed(neededWeight(pct))
             consensus == needed(AV_CT_CONSENSUS_PCT)
             loop(pct) == voteLoop(times, vote(pct), consensus)
  <2>1. ASSUME current # {}, NEW pct \in PercentTimes
        PROVE  outcomes(current, pct) = {[time |-> loop(pct).time,
                                          agreed |-> loop(pct).agreed]}
    <3>1. pct \in Nat
      BY SampleAssumption
    <3>2. /\ current = {p \in Peers : peerTimes[p] # None}
          /\ times = standing(current)
          /\ vote(pct) = participantsNeeded(Cardinality(DOMAIN times), neededWeight(pct))
          /\ consensus = participantsNeeded(Cardinality(DOMAIN times), AV_CT_CONSENSUS_PCT)
          /\ loop(pct) = voteLoop(times, vote(pct), consensus)
      OBVIOUS
    <3> HIDE DEF current, times, vote, consensus, loop
    <3> QED BY <2>1, <3>1, <3>2, OutcomeOfLoop
  <2> QED BY Zenon, <2>1 DEF VoteMatchesLoop
<1> QED BY InitTypeOK, TypeStep, <1>1, PTL DEF Spec

-----------------------------------------------------------------------------
(* The votes on a disputed transaction *)

DisputeInv == DisputeType /\ CountersMatchVotes

LEMMA VotersAreFinite ==
    ASSUME NEW vs \in [Voters -> Votes], NEW v
    PROVE  /\ IsFiniteSet(votersFor(vs, v))
           /\ Cardinality(votersFor(vs, v)) \in Nat
<1>1. votersFor(vs, v) \subseteq Voters
  BY DEF votersFor
<1> QED BY <1>1, VotersAssumption, FS_Subset, FS_CardinalityType

changed(vs, peer, new) == [vs EXCEPT ![peer] = new]

\* What one new vote does to the number of votes of each kind.
LEMMA CountAfterVote ==
    ASSUME NEW vs \in [Voters -> Votes], NEW peer \in Voters, NEW new,
           NEW after, after = changed(vs, peer, new), NEW v
    PROVE  /\ new = v /\ vs[peer] # v =>
                Cardinality(votersFor(after, v)) = Cardinality(votersFor(vs, v)) + 1
           /\ new # v /\ vs[peer] = v =>
                Cardinality(votersFor(after, v)) = Cardinality(votersFor(vs, v)) - 1
           /\ (new = v <=> vs[peer] = v) =>
                Cardinality(votersFor(after, v)) = Cardinality(votersFor(vs, v))
<1> DEFINE old == votersFor(vs, v)
           now == votersFor(after, v)
<1>0. IsFiniteSet(old)
  BY VotersAreFinite
<1>1. ASSUME new = v, vs[peer] # v
      PROVE  Cardinality(now) = Cardinality(old) + 1
  <2>1. now = old \cup {peer} /\ peer \notin old
    BY <1>1 DEF votersFor, changed
  <2> QED BY Zenon, <1>0, <2>1, FS_AddElement
<1>2. ASSUME new # v, vs[peer] = v
      PROVE  Cardinality(now) = Cardinality(old) - 1
  <2>1. now = old \ {peer} /\ peer \in old
    BY <1>2 DEF votersFor, changed
  <2> QED BY <1>0, <2>1, FS_RemoveElement
<1>3. ASSUME new = v <=> vs[peer] = v
      PROVE  Cardinality(now) = Cardinality(old)
  <2>1. now = old
    BY <1>3 DEF votersFor, changed
  <2> QED BY <2>1
<1> QED BY <1>1, <1>2, <1>3

\* The counts after the vote of the peer became new.
counted(peer, new) ==
    /\ new = "yes" /\ votes[peer] # "yes" =>
         Cardinality(votersFor(votes', "yes")) = yays + 1
    /\ new # "yes" /\ votes[peer] = "yes" =>
         Cardinality(votersFor(votes', "yes")) = yays - 1
    /\ (new = "yes" <=> votes[peer] = "yes") =>
         Cardinality(votersFor(votes', "yes")) = yays
    /\ new = "no" /\ votes[peer] # "no" =>
         Cardinality(votersFor(votes', "no")) = nays + 1
    /\ new # "no" /\ votes[peer] = "no" =>
         Cardinality(votersFor(votes', "no")) = nays - 1
    /\ (new = "no" <=> votes[peer] = "no") =>
         Cardinality(votersFor(votes', "no")) = nays

LEMMA CountersAfterVote ==
    ASSUME DisputeInv, NEW peer \in Voters, NEW new,
           votes' = changed(votes, peer, new)
    PROVE  counted(peer, new)
<1>1. votes \in [Voters -> Votes]
  BY DEF DisputeInv, DisputeType
<1>2. /\ yays = Cardinality(votersFor(votes, "yes"))
      /\ nays = Cardinality(votersFor(votes, "no"))
  BY DEF DisputeInv, CountersMatchVotes
<1> QED BY <1>1, <1>2, CountAfterVote DEF counted

LEMMA NewPositionIsBoolean ==
    ASSUME NEW our \in BOOLEAN, NEW yes \in Nat, NEW no \in Nat,
           NEW pct \in Nat, NEW prop \in BOOLEAN
    PROVE  newPosition(our, yes, no, pct, prop) \in BOOLEAN
<1> DEFINE weight == (yes * 100 + (IF our THEN 100 ELSE 0)) \div (no + yes + 1)
<1>1. (weight > neededWeight(pct)) \in BOOLEAN /\ (yes > no) \in BOOLEAN
  OBVIOUS
<1> HIDE DEF weight
<1>2. CASE (our /\ no = 0) \/ (~our /\ yes = 0)
  <2>1. newPosition(our, yes, no, pct, prop) = our
    BY <1>2, Zenon DEF newPosition
  <2> QED BY <2>1
<1>3. CASE ~((our /\ no = 0) \/ (~our /\ yes = 0)) /\ prop
  <2>1. newPosition(our, yes, no, pct, prop) = (weight > neededWeight(pct))
    BY <1>3, Zenon DEF newPosition, weight
  <2> QED BY <1>1, <2>1
<1>4. CASE ~((our /\ no = 0) \/ (~our /\ yes = 0)) /\ ~prop
  <2>1. newPosition(our, yes, no, pct, prop) = (yes > no)
    BY <1>4, Zenon DEF newPosition
  <2> QED BY <1>1, <2>1
<1> QED BY <1>2, <1>3, <1>4

LEMMA DisputeInvInit == DisputeInit => DisputeInv
<1> SUFFICES ASSUME DisputeInit PROVE DisputeInv
  OBVIOUS
<1>1. DisputeType
  BY DEF DisputeInit, DisputeType, Votes
<1>2. votersFor(votes, "yes") = {} /\ votersFor(votes, "no") = {}
  BY DEF DisputeInit, votersFor
<1> QED BY <1>1, <1>2, FS_EmptySet DEF DisputeInv, CountersMatchVotes, DisputeInit

LEMMA DisputeInvStep == DisputeInv /\ [DisputeNext]_disputeVars => DisputeInv'
<1> SUFFICES ASSUME DisputeInv, [DisputeNext]_disputeVars PROVE DisputeInv'
  OBVIOUS
<1>0. /\ ourVote \in BOOLEAN /\ votes \in [Voters -> Votes]
      /\ yays \in Nat /\ nays \in Nat
  BY VotersAreFinite DEF DisputeInv, DisputeType, CountersMatchVotes
<1>1. ASSUME NEW p \in Voters, NEW yes \in BOOLEAN, setVote(p, yes)
      PROVE  DisputeInv'
  <2>1. votes' = changed(votes, p, voteFor(yes))
    BY <1>1 DEF setVote, changed
  <2>2. counted(p, voteFor(yes))
    BY <2>1, CountersAfterVote
  <2>3. votes[p] \in {"yes", "no", "none"}
    BY <1>0 DEF Votes
  <2>4. CountersMatchVotes'
    <3>1. CASE yes
      BY Zenon, <1>0, <1>1, <2>2, <2>3, <3>1
         DEF setVote, voteFor, counted, CountersMatchVotes
    <3>2. CASE ~yes
      BY Zenon, <1>0, <1>1, <2>2, <2>3, <3>2
         DEF setVote, voteFor, counted, CountersMatchVotes
    <3> QED BY <3>1, <3>2
  <2>5. DisputeType'
    <3>1. votes' \in [Voters -> Votes] /\ ourVote' \in BOOLEAN
      BY <1>0, <1>1 DEF setVote, voteFor, Votes
    <3>2. yays' \in Int /\ nays' \in Int
      BY <2>4, <3>1, VotersAreFinite DEF CountersMatchVotes
    <3> QED BY <3>1, <3>2 DEF DisputeType
  <2> QED BY <2>4, <2>5 DEF DisputeInv
<1>2. ASSUME NEW p \in Voters, unVote(p)
      PROVE  DisputeInv'
  <2>1. votes' = changed(votes, p, "none")
    BY <1>2 DEF unVote, changed
  <2>2. counted(p, "none")
    BY <2>1, CountersAfterVote
  <2>3. CountersMatchVotes'
    BY <1>0, <1>2, <2>2 DEF unVote, counted, CountersMatchVotes
  <2>4. DisputeType'
    BY <1>0, <1>2 DEF unVote, Votes, DisputeType
  <2> QED BY <2>3, <2>4 DEF DisputeInv
<1>3. ASSUME NEW pct \in ConvergePercents, NEW propose \in BOOLEAN,
             updateVote(pct, propose)
      PROVE  DisputeInv'
  <2>1. ourVote' \in BOOLEAN
    BY <1>0, <1>3, PercentAssumption, NewPositionIsBoolean DEF updateVote
  <2> QED BY <1>3, <2>1 DEF updateVote, DisputeInv, DisputeType, CountersMatchVotes
<1>4. CASE UNCHANGED disputeVars
  BY <1>4 DEF disputeVars, DisputeInv, DisputeType, CountersMatchVotes
<1> QED BY <1>1, <1>2, <1>3, <1>4 DEF DisputeNext

(* yays_ and nays_ count the votes in votes_ exactly, whatever the order    *)
(* of setVote, unVote and updateVote and however many peers there are.     *)
THEOREM CountersAlwaysMatchVotes == DisputeSpec => []CountersMatchVotes
<1>1. DisputeInv => CountersMatchVotes
  BY DEF DisputeInv
<1> QED BY DisputeInvInit, DisputeInvStep, <1>1, PTL DEF DisputeSpec

\* A positive counter has a voter behind it.
LEMMA SomebodyVoted ==
    ASSUME NEW vs \in [Voters -> Votes], NEW v,
           Cardinality(votersFor(vs, v)) # 0
    PROVE  \E p \in Voters : vs[p] = v
<1>1. votersFor(vs, v) # {}
  BY FS_EmptySet
<1> QED BY <1>1 DEF votersFor

LEMMA UpdateVoteFollows ==
    ASSUME DisputeInv, NEW pct \in ConvergePercents, NEW propose \in BOOLEAN,
           updateVote(pct, propose), ourVote' # ourVote
    PROVE  \E p \in Voters : votes[p] = voteFor(ourVote')
<1>0. ourVote \in BOOLEAN /\ votes \in [Voters -> Votes]
      /\ yays \in Nat /\ nays \in Nat
  BY VotersAreFinite DEF DisputeInv, DisputeType, CountersMatchVotes
<1>1. ourVote' \in BOOLEAN
  BY <1>0, PercentAssumption, NewPositionIsBoolean DEF updateVote
<1>2. ~((ourVote /\ nays = 0) \/ (~ourVote /\ yays = 0))
  BY Zenon DEF updateVote, newPosition
<1>3. CASE ourVote
  <2>1. ~ourVote' /\ nays # 0
    BY Zenon, <1>0, <1>1, <1>2, <1>3
  <2>2. \E p \in Voters : votes[p] = "no"
    BY <1>0, <2>1, SomebodyVoted DEF DisputeInv, CountersMatchVotes
  <2> QED BY <2>1, <2>2 DEF voteFor
<1>4. CASE ~ourVote
  <2>1. ourVote' /\ yays # 0
    BY <1>0, <1>1, <1>2, <1>4
  <2>2. \E p \in Voters : votes[p] = "yes"
    BY <1>0, <2>1, SomebodyVoted DEF DisputeInv, CountersMatchVotes
  <2> QED BY <2>1, <2>2 DEF voteFor
<1> QED BY <1>3, <1>4

(* updateVote never moves our vote where no tracked peer stands, for every  *)
(* percentage of time elapsed and number of peers.                         *)
THEOREM VoteFollowsSomebody == DisputeSpec => NeverAgainstEveryone
<1>1. DisputeInv /\ [DisputeNext]_disputeVars =>
        [ourVote' # ourVote =>
           \E p \in Voters : votes[p] = voteFor(ourVote')]_disputeVars
  <2> SUFFICES ASSUME DisputeInv, DisputeNext, ourVote' # ourVote
               PROVE  \E p \in Voters : votes[p] = voteFor(ourVote')
    BY DEF disputeVars
  <2> QED BY Zenon, UpdateVoteFollows DEF DisputeNext, setVote, unVote
<1> QED BY DisputeInvInit, DisputeInvStep, <1>1, PTL DEF DisputeSpec, NeverAgainstEveryone

-----------------------------------------------------------------------------
(* The offset of the close times *)

\* Division by four moves toward zero and, from one on, moves.
LEMMA QuarterType ==
    ASSUME NEW x \in Int
    PROVE  /\ quarter(x) \in Int
           /\ x >= 0 => 4 * quarter(x) <= x /\ x < 4 * quarter(x) + 4
           /\ x < 0 => 4 * quarter(x) >= x /\ x > 4 * quarter(x) - 4
<1>1. CASE x >= 0
  BY <1>1 DEF quarter
<1>2. CASE x < 0
  <2> DEFINE y == -x
  <2>1. y \in Nat /\ quarter(x) = -(y \div 4)
    BY <1>2 DEF quarter
  <2>2. y \div 4 \in Int /\ 4 * (y \div 4) <= y /\ y < 4 * (y \div 4) + 4
    BY <2>1
  <2> QED BY <1>2, <2>1, <2>2
<1> QED BY <1>1, <1>2

(* adjustCloseTime moves a close time toward the estimated one or toward   *)
(* the clock, and never past either.                                       *)
THEOREM AdjustStaysBetween ==
    ASSUME NEW offset \in Int, NEW amount \in Int, NEW low \in Int, NEW high \in Int,
           \A t \in {0, offset, offset + amount} : low <= t /\ t <= high
    PROVE  /\ low <= adjustCloseTime(offset, amount)
           /\ adjustCloseTime(offset, amount) <= high
<1>1. CASE amount > 1
  <2>1. adjustCloseTime(offset, amount) = offset + quarter(amount + 3)
    BY <1>1 DEF adjustCloseTime
  <2>2. quarter(amount + 3) \in 0..amount
    BY <1>1, QuarterType
  <2> QED BY <2>1, <2>2
<1>2. CASE amount < -1
  <2>1. adjustCloseTime(offset, amount) = offset + quarter(amount - 3)
    BY <1>2 DEF adjustCloseTime
  <2>2. quarter(amount - 3) \in amount..0
    BY <1>2, QuarterType
  <2> QED BY <2>1, <2>2
<1>3. CASE ~(amount > 1) /\ ~(amount < -1)
  <2>1. adjustCloseTime(offset, amount) = quarter(offset * 3)
    BY <1>3 DEF adjustCloseTime
  <2>2. \/ quarter(offset * 3) \in 0..offset
        \/ quarter(offset * 3) \in offset..0
    <3>1. CASE offset >= 0
      BY <3>1, QuarterType
    <3>2. CASE offset < 0
      BY <3>2, QuarterType
    <3> QED BY <3>1, <3>2
  <2> QED BY <2>1, <2>2
<1> QED BY <1>1, <1>2, <1>3

(* An offset that is let go shrinks until it is zero: no rounding keeps it *)
(* where it is.                                                            *)
THEOREM OffsetShrinks ==
    ASSUME NEW offset \in Int, NEW amount \in -1..1
    PROVE  /\ offset > 0 => adjustCloseTime(offset, amount) \in 0..(offset - 1)
           /\ offset < 0 => adjustCloseTime(offset, amount) \in (offset + 1)..0
           /\ offset = 0 => adjustCloseTime(offset, amount) = 0
<1>1. adjustCloseTime(offset, amount) = quarter(offset * 3)
  BY DEF adjustCloseTime
<1> QED BY <1>1, QuarterType

(* A node that is off by more than a second moves toward the estimate.     *)
THEOREM EstimateFollowed ==
    ASSUME NEW offset \in Int, NEW amount \in Int
    PROVE  /\ amount > 1 => adjustCloseTime(offset, amount) > offset
           /\ amount < -1 => adjustCloseTime(offset, amount) < offset
<1>1. CASE amount > 1
  <2>1. adjustCloseTime(offset, amount) = offset + quarter(amount + 3)
    BY <1>1 DEF adjustCloseTime
  <2>2. quarter(amount + 3) \in Int /\ quarter(amount + 3) > 0
    BY <1>1, QuarterType
  <2> QED BY <1>1, <2>1, <2>2
<1>2. CASE amount < -1
  <2>1. adjustCloseTime(offset, amount) = offset + quarter(amount - 3)
    BY <1>2 DEF adjustCloseTime
  <2>2. quarter(amount - 3) \in Int /\ quarter(amount - 3) < 0
    BY <1>2, QuarterType
  <2> QED BY <1>2, <2>1, <2>2
<1>3. CASE ~(amount > 1) /\ ~(amount < -1)
  BY <1>3
<1> QED BY <1>1, <1>2, <1>3

-----------------------------------------------------------------------------
(* Sums: what doAccept adds up *)

\* The element that MapThenSumSet takes next, and the sums it builds.
Pick(s) == CHOOSE x \in s : TRUE

LEMMA PickIn == \A s : s # {} => Pick(s) \in s
BY DEF Pick

SumsUp(f, S, g) ==
    g = [s \in SUBSET S |-> IF s = {} THEN 0 ELSE f[Pick(s)] + g[s \ {Pick(s)}]]

LEMMA SumsUpAt ==
    ASSUME NEW f, NEW S, NEW g, SumsUp(f, S, g), NEW s \in SUBSET S
    PROVE  /\ s = {} => g[s] = 0
           /\ s # {} => g[s] = f[Pick(s)] + g[s \ {Pick(s)}]
BY Zenon DEF SumsUp

\* Two sums agree on the sets both are about.
LEMMA SumsAgree ==
    ASSUME NEW f, NEW A, NEW B, IsFiniteSet(A), NEW g, NEW h,
           SumsUp(f, A, g), SumsUp(f, B, h)
    PROVE  \A s \in SUBSET (A \cap B) : g[s] = h[s]
<1> DEFINE C == A \cap B
           Good == {s \in SUBSET C : g[s] = h[s]}
<1>1. IsFiniteSet(C)
  BY FS_Subset
<1>2. ASSUME NEW T \in SUBSET C, \A U \in SUBSET T : U # T => U \in Good
      PROVE  T \in Good
  <2>1. T \in SUBSET A /\ T \in SUBSET B
    OBVIOUS
  <2>2. CASE T = {}
    BY <2>1, <2>2, SumsUpAt
  <2>3. CASE T # {}
    <3>1. Pick(T) \in T
      BY <2>3, PickIn
    <3>2. T \ {Pick(T)} \in Good
      BY <1>2, <3>1
    <3>3. /\ g[T] = f[Pick(T)] + g[T \ {Pick(T)}]
          /\ h[T] = f[Pick(T)] + h[T \ {Pick(T)}]
      BY <2>1, <2>3, SumsUpAt
    <3> QED BY <3>2, <3>3
  <2> QED BY <2>2, <2>3
<1> HIDE DEF C, Good
<1>3. \A T \in SUBSET C : T \in Good
  BY Zenon, <1>1, <1>2, SubsetsByInduction
<1> QED BY <1>3 DEF C, Good

\* There is a sum over every finite set: that of a set from those of its
\* proper subsets.
LEMMA SumExists ==
    ASSUME NEW f, NEW S, IsFiniteSet(S)
    PROVE  \E g : SumsUp(f, S, g)
<1> DEFINE Good == {A \in SUBSET S : \E g : SumsUp(f, A, g)}
<1>1. ASSUME NEW T \in SUBSET S, \A U \in SUBSET T : U # T => U \in Good
      PROVE  T \in Good
  <2> DEFINE h(U) == CHOOSE g : SumsUp(f, U, g)
             rest(s) == s \ {Pick(s)}
             G == [s \in SUBSET T |->
                      IF s = {} THEN 0 ELSE f[Pick(s)] + h(rest(s))[rest(s)]]
  <2>1. ASSUME NEW U \in SUBSET T, U # T
        PROVE  SumsUp(f, U, h(U))
    <3>1. \E g : SumsUp(f, U, g)
      BY <1>1, <2>1
    <3> QED BY Zenon, <3>1
  <2> HIDE DEF h
  <2>2. ASSUME NEW s \in SUBSET T, s # {}
        PROVE  rest(s) \in SUBSET s /\ rest(s) # T /\ rest(s) \in SUBSET T
    BY <2>2, PickIn
  <2>3. ASSUME NEW U \in SUBSET T, U # T
        PROVE  G[U] = h(U)[U]
    <3>1. CASE U = {}
      <4>1. SumsUp(f, U, h(U))
        BY <2>1, <2>3
      <4>2. h(U)[U] = 0
        BY Zenon, <3>1, <4>1, SumsUpAt
      <4>3. G[U] = 0
        BY <3>1
      <4> QED BY <4>2, <4>3
    <3>2. CASE U # {}
      <4>1. G[U] = f[Pick(U)] + h(rest(U))[rest(U)]
        BY <3>2
      <4>2. h(U)[U] = f[Pick(U)] + h(U)[rest(U)]
        BY <2>1, <2>3, <3>2, SumsUpAt
      <4>3. SumsUp(f, U, h(U)) /\ SumsUp(f, rest(U), h(rest(U)))
        BY <2>1, <2>2, <2>3, <3>2
      <4>4. IsFiniteSet(U) /\ rest(U) \in SUBSET (U \cap rest(U))
        BY <2>2, <3>2, FS_Subset
      <4>5. h(U)[rest(U)] = h(rest(U))[rest(U)]
        BY <4>3, <4>4, SumsAgree
      <4> QED BY <4>1, <4>2, <4>5
    <3> QED BY <3>1, <3>2
  <2>4. ASSUME NEW s \in SUBSET T
        PROVE  G[s] = IF s = {} THEN 0 ELSE f[Pick(s)] + G[rest(s)]
    BY Zenon, <2>2, <2>3
  <2>5. SumsUp(f, T, G)
    BY Zenon, <2>4 DEF SumsUp
  <2> QED BY <2>5
<1> HIDE DEF Good
<1>2. S \in Good
  BY Zenon, <1>1, SubsetsByInduction
<1> QED BY <1>2 DEF Good

\* closeTotal in doAccept is the sum of the close times.
LEMMA TotalSumsUp ==
    ASSUME NEW S, IsFiniteSet(S)
    PROVE  \E g : SumsUp(raw, S, g) /\ MapThenSumSet(LAMBDA p : raw[p], S) = g[S]
<1> DEFINE total == CHOOSE g : SumsUp(raw, S, g)
<1>1. SumsUp(raw, S, total)
  BY Zenon, SumExists
<1>2. MapThenSumSet(LAMBDA p : raw[p], S) = total[S]
  BY Zenon DEF MapThenSumSet, MapThenFoldSet, SumsUp, Pick
<1> QED BY Zenon, <1>1, <1>2

\* A sum lies between the bounds of its terms, times their number.
LEMMA SumBetween ==
    ASSUME NEW S, IsFiniteSet(S), NEW f, NEW g, SumsUp(f, S, g),
           NEW low \in Int, NEW high \in Int,
           \A x \in S : f[x] \in Int /\ low <= f[x] /\ f[x] <= high
    PROVE  /\ g[S] \in Int
           /\ low * Cardinality(S) <= g[S] /\ g[S] <= high * Cardinality(S)
<1> DEFINE Good ==
        {T \in SUBSET S :
            /\ g[T] \in Int
            /\ low * Cardinality(T) <= g[T] /\ g[T] <= high * Cardinality(T)}
<1>1. ASSUME NEW T \in SUBSET S, \A U \in SUBSET T : U # T => U \in Good
      PROVE  T \in Good
  <2>2. CASE T = {}
    <3>1. g[T] = 0 /\ Cardinality(T) = 0
      BY Zenon, <2>2, SumsUpAt, FS_EmptySet
    <3> QED BY <3>1
  <2>3. CASE T # {}
    <3> DEFINE x == Pick(T)
               U == T \ {x}
    <3>1. x \in T
      BY <2>3, PickIn
    <3>2. U \in Good
      BY <1>1, <3>1
    <3>3. g[T] = f[x] + g[U]
      BY <2>3, SumsUpAt
    <3>4. IsFiniteSet(T)
      BY FS_Subset
    <3>5. /\ Cardinality(T) \in Nat /\ Cardinality(U) \in Nat
          /\ Cardinality(U) = Cardinality(T) - 1
      BY <3>1, <3>4, FS_RemoveElement, FS_CardinalityType
    <3>6. f[x] \in Int /\ low <= f[x] /\ f[x] <= high
      BY <3>1
    <3> HIDE DEF x, U
    <3>7. /\ low * Cardinality(T) = low * Cardinality(U) + low
          /\ high * Cardinality(T) = high * Cardinality(U) + high
          /\ low * Cardinality(U) \in Int /\ high * Cardinality(U) \in Int
      BY <3>5
    <3> QED BY <3>2, <3>3, <3>6, <3>7
  <2> QED BY <2>2, <2>3
<1> HIDE DEF Good
<1>2. S \in Good
  BY Zenon, <1>1, SubsetsByInduction
<1> QED BY <1>2 DEF Good

\* The rounded average lies where the values do.
LEMMA Quotient ==
    ASSUME NEW a \in Int, NEW c \in Nat \ {0}
    PROVE  a \div c \in Int /\ c * (a \div c) <= a /\ a < c * (a \div c) + c
OBVIOUS

LEMMA QuotientBetween ==
    ASSUME NEW total \in Int, NEW c \in Nat \ {0}, NEW low \in Int, NEW high \in Int,
           low * c <= total, total <= high * c
    PROVE  LET q == (total + c \div 2) \div c IN q \in Int /\ low <= q /\ q <= high
<1> DEFINE h == c \div 2
           q == (total + h) \div c
<1>1. h \in Int /\ 0 <= h /\ h < c
  OBVIOUS
<1>2. q \in Int /\ c * q <= total + h /\ total + h < c * q + c
  BY <1>1, Quotient
<1> HIDE DEF h, q
<1>3. ASSUME q < low PROVE FALSE
  <2>1. PICK d \in Nat : low = q + 1 + d
    <3>1. low - q - 1 \in Nat /\ low = q + 1 + (low - q - 1)
      BY <1>2, <1>3
    <3> QED BY <3>1
  <2>2. low * c = c * q + c + d * c /\ d * c \in Nat /\ c * q \in Int
    BY <1>2, <2>1
  <2> QED BY <1>1, <1>2, <2>2
<1>4. ASSUME q > high PROVE FALSE
  <2>1. PICK d \in Nat : q = high + 1 + d
    <3>1. q - high - 1 \in Nat /\ q = high + 1 + (q - high - 1)
      BY <1>2, <1>4
    <3> QED BY <3>1
  <2>2. c * q = high * c + c + d * c /\ d * c \in Nat /\ high * c \in Int
    BY <1>2, <2>1
  <2> QED BY <1>1, <1>2, <2>2
<1> QED BY <1>2, <1>3, <1>4 DEF h, q


\* The estimate is no further off than the close times it was made from.
LEMMA EstimateBetween ==
    ASSUME KeeperType, roundPhase = "establish"
    PROVE  /\ estimate \in Int
           /\ \E p, q \in Nodes :
                 /\ raw[p] \in Int /\ raw[p] <= closeOffset + estimate
                 /\ raw[q] \in Int /\ closeOffset + estimate <= raw[q]
<1> DEFINE voters == {n \in Nodes : raw[n] # NoTime}
           total == MapThenSumSet(LAMBDA p : raw[p], voters)
           count == Cardinality(voters)
           average == (total + count \div 2) \div count
<1>1. /\ voters \subseteq Nodes /\ \A p \in voters : raw[p] \in Int
      /\ raw[Us] = closeOffset /\ closeOffset \in Int /\ Us \in voters
  BY KeeperAssumption DEF KeeperType
<1>2. IsFiniteSet(voters) /\ count \in Nat \ {0}
  <2>1. IsFiniteSet(voters)
    BY <1>1, KeeperAssumption, FS_Subset
  <2>2. count \in Nat /\ count # 0
    BY <1>1, <2>1, FS_CardinalityType, FS_EmptySet
  <2> QED BY <2>1, <2>2
<1> HIDE DEF voters
<1>3. PICK lo \in voters, hi \in voters :
          \A p \in voters : raw[lo] <= raw[p] /\ raw[p] <= raw[hi]
  BY Zenon, <1>1, <1>2, Extremes
<1>4. PICK g : SumsUp(raw, voters, g) /\ total = g[voters]
  BY Zenon, <1>2, TotalSumsUp
<1>5. total \in Int /\ raw[lo] * count <= total /\ total <= raw[hi] * count
  <2> SUFFICES ASSUME NEW low \in Int, NEW high \in Int, low = raw[lo], high = raw[hi]
               PROVE  total \in Int /\ low * count <= total /\ total <= high * count
    BY Zenon, <1>1
  <2>1. \A p \in voters : raw[p] \in Int /\ low <= raw[p] /\ raw[p] <= high
    BY <1>1, <1>3
  <2>2. g[voters] \in Int /\ low * count <= g[voters] /\ g[voters] <= high * count
    BY Zenon, <1>2, <1>4, <2>1, SumBetween
  <2> QED BY Zenon, <1>4, <2>2
<1> HIDE DEF total, count
<1>6. average \in Int /\ raw[lo] <= average /\ average <= raw[hi]
  BY <1>1, <1>2, <1>5, QuotientBetween
<1>7. estimate = average - raw[Us]
  BY Zenon DEF estimate, total, count, voters
<1> HIDE DEF average
<1>8. closeOffset + estimate = average /\ estimate \in Int
  BY <1>1, <1>6, <1>7
<1> QED BY <1>1, <1>6, <1>8

LEMMA AdjustType ==
    ASSUME NEW offset \in Int, NEW amount \in Int
    PROVE  adjustCloseTime(offset, amount) \in Int
BY QuarterType DEF adjustCloseTime

\* The distance t is no farther than what peers reported, on either side.
Within(t) == \E low, high \in Reports \cup {0} : low <= t /\ t <= high

KeeperInv == KeeperType /\ Within(closeOffset)

LEMMA ReportsAreInt == Reports \cup {0} \subseteq Int
BY KeeperAssumption

LEMMA ZeroWithin == Within(0)
BY DEF Within

\* Three distances within the reports are within the same two of them.
LEMMA WithinTogether ==
    ASSUME NEW r \in Int, NEW s \in Int, NEW t \in Int, Within(r), Within(s), Within(t)
    PROVE  \E low, high \in Reports \cup {0} :
               /\ low <= r /\ low <= s /\ low <= t
               /\ r <= high /\ s <= high /\ t <= high
<1>1. PICK low \in Reports \cup {0} : low <= r /\ low <= s /\ low <= t
  BY ReportsAreInt DEF Within
<1>2. PICK high \in Reports \cup {0} : r <= high /\ s <= high /\ t <= high
  BY ReportsAreInt DEF Within
<1> QED BY <1>1, <1>2

\* The close time that the estimate gives is within the reports.
LEMMA EstimateWithin ==
    ASSUME KeeperInv, roundPhase = "establish"
    PROVE  Within(closeOffset + estimate)
<1>1. KeeperType /\ Within(closeOffset) /\ raw[Us] = closeOffset /\ closeOffset \in Int
  BY DEF KeeperInv, KeeperType
<1>2. ASSUME NEW p \in Nodes, raw[p] \in Int PROVE Within(raw[p])
  <2>1. CASE p = Us
    BY <1>1, <2>1
  <2>2. CASE p # Us
    <3>1. raw[p] \in Reports
      BY <1>1, <1>2, <2>2, KeeperAssumption DEF KeeperType
    <3>2. raw[p] <= raw[p]
      BY <1>2
    <3> QED BY <3>1, <3>2 DEF Within
  <2> QED BY <2>1, <2>2
<1>3. PICK p \in Nodes, q \in Nodes :
          /\ estimate \in Int
          /\ raw[p] \in Int /\ raw[p] <= closeOffset + estimate
          /\ raw[q] \in Int /\ closeOffset + estimate <= raw[q]
  BY <1>1, EstimateBetween
<1>4. Within(raw[p]) /\ Within(raw[q])
  BY <1>2, <1>3
<1>5. PICK low \in Reports \cup {0}, high \in Reports \cup {0} :
          low <= raw[p] /\ raw[q] <= high
  BY <1>4 DEF Within
<1>6. low <= closeOffset + estimate /\ closeOffset + estimate <= high
  BY <1>1, <1>3, <1>5, ReportsAreInt
<1> QED BY <1>6 DEF Within

LEMMA KeeperInvInit == KeeperInit => KeeperInv
<1> SUFFICES ASSUME KeeperInit PROVE KeeperInv
  OBVIOUS
<1>1. closeOffset = 0 /\ roundPhase = "open" /\ withNetwork \in BOOLEAN
  BY Zenon DEF KeeperInit
<1>2. raw \in [Nodes -> Int \cup {NoTime}] /\ \A p \in Nodes : raw[p] = NoTime
  BY DEF KeeperInit, noReports
<1>3. KeeperType
  BY <1>1, <1>2 DEF KeeperType
<1> QED BY <1>1, <1>3, ZeroWithin DEF KeeperInv

LEMMA KeeperInvStep == KeeperInv /\ [KeeperNext]_keeperVars => KeeperInv'
<1> SUFFICES ASSUME KeeperInv, [KeeperNext]_keeperVars PROVE KeeperInv'
  OBVIOUS
<1>0. KeeperType /\ Within(closeOffset) /\ closeOffset \in Int
  BY DEF KeeperInv, KeeperType
<1>1. ASSUME NEW p \in Nodes, NEW time \in Reports, initialProposal(p, time)
      PROVE  KeeperInv'
  <2>1. KeeperType'
    BY <1>0, <1>1, ReportsAreInt DEF initialProposal, KeeperType
  <2> QED BY <1>0, <1>1, <2>1 DEF initialProposal, KeeperInv, Within
<1>2. CASE closeLedgerNow
  <2>1. KeeperType'
    BY <1>0, <1>2, KeeperAssumption DEF closeLedgerNow, KeeperType
  <2> QED BY <1>0, <1>2, <2>1 DEF closeLedgerNow, KeeperInv, Within
<1>3. CASE leaveNetwork
  <2>1. KeeperType'
    BY <1>0, <1>3, KeeperAssumption DEF leaveNetwork, KeeperType, noReports
  <2> QED BY <1>0, <1>3, <2>1 DEF leaveNetwork, KeeperInv, Within
<1>4. CASE doAccept
  <2>1. /\ roundPhase = "establish" /\ roundPhase' = "accepted"
        /\ closeOffset' = adjustCloseTime(closeOffset, estimate)
        /\ UNCHANGED <<withNetwork, raw>>
    BY <1>4 DEF doAccept
  <2>2. estimate \in Int /\ Within(closeOffset + estimate)
    BY <1>0, <2>1, EstimateBetween, EstimateWithin
  <2>3. closeOffset' \in Int /\ KeeperType'
    BY <1>0, <2>1, <2>2, AdjustType DEF KeeperType
  <2>4. PICK low \in Reports \cup {0}, high \in Reports \cup {0} :
            \A t \in {0, closeOffset, closeOffset + estimate} : low <= t /\ t <= high
    <3>1. closeOffset + estimate \in Int
      BY <1>0, <2>2
    <3> QED BY <1>0, <2>2, <3>1, ZeroWithin, WithinTogether
  <2>5. low <= closeOffset' /\ closeOffset' <= high
    <3>1. low \in Int /\ high \in Int
      BY ReportsAreInt
    <3> QED BY Zenon, <1>0, <2>1, <2>2, <2>4, <3>1, AdjustStaysBetween
  <2>6. Within(closeOffset')
    BY <2>5 DEF Within
  <2> QED BY <2>3, <2>6 DEF KeeperInv, Within
<1>5. CASE acceptOnly
  <2>1. KeeperType'
    BY <1>0, <1>5 DEF acceptOnly, KeeperType
  <2> QED BY <1>0, <1>5, <2>1 DEF acceptOnly, KeeperInv, Within
<1>6. CASE startRound
  <2>1. KeeperType'
    BY <1>0, <1>6 DEF startRound, KeeperType, noReports
  <2> QED BY <1>0, <1>6, <2>1 DEF startRound, KeeperInv, Within
<1>7. CASE UNCHANGED keeperVars
  BY <1>7 DEF keeperVars, KeeperInv, KeeperType, Within
<1> QED BY <1>1, <1>2, <1>3, <1>4, <1>5, <1>6, <1>7 DEF KeeperNext

(* The close offset never leaves the range of what peers reported, however *)
(* many they are, whatever they report in each round and whichever         *)
(* proposals doAccept misses.                                              *)
THEOREM OffsetAlwaysWithinReports == KeeperSpec => []OffsetWithinReports
<1>1. KeeperInv => OffsetWithinReports
  BY DEF KeeperInv, OffsetWithinReports, Within
<1> QED BY <1>1, KeeperInvInit, KeeperInvStep, PTL DEF KeeperSpec

\* An estimate made from our offset and from reports within a second moves
\* the offset toward zero and not beyond.
LEMMA AdjustNearer ==
    ASSUME NEW offset \in Int, NEW amount \in Int
    PROVE  /\ offset > 0 /\ amount \in (-1 - offset) .. 0
                => adjustCloseTime(offset, amount) \in 0 .. (offset - 1)
           /\ offset < 0 /\ amount \in 0 .. (1 - offset)
                => adjustCloseTime(offset, amount) \in (offset + 1) .. 0
           /\ offset = 0 /\ amount \in -1 .. 1 => adjustCloseTime(offset, amount) = 0
<1>1. CASE amount \in -1 .. 1
  BY <1>1, OffsetShrinks
<1>2. CASE amount > 1
  <2>1. adjustCloseTime(offset, amount) = offset + quarter(amount + 3)
    BY <1>2 DEF adjustCloseTime
  <2>2. /\ quarter(amount + 3) \in Int
        /\ 4 * quarter(amount + 3) <= amount + 3 /\ amount + 3 < 4 * quarter(amount + 3) + 4
    BY <1>2, QuarterType
  <2> QED BY <1>2, <2>1, <2>2
<1>3. CASE amount < -1
  <2>1. adjustCloseTime(offset, amount) = offset + quarter(amount - 3)
    BY <1>3 DEF adjustCloseTime
  <2>2. /\ quarter(amount - 3) \in Int
        /\ 4 * quarter(amount - 3) >= amount - 3 /\ amount - 3 > 4 * quarter(amount - 3) - 4
    BY <1>3, QuarterType
  <2> QED BY <1>3, <2>1, <2>2
<1> QED BY <1>1, <1>2, <1>3

(* Whenever the reports that reached us are within a second of our clock,  *)
(* doAccept brings the offset strictly nearer to zero, from either side    *)
(* and without crossing it; so as many such rounds as the offset has       *)
(* seconds bring it there.                                                 *)
THEOREM OffsetAlwaysApproaches == KeeperSpec => OffsetApproaches
<1>1. ASSUME KeeperInv, doAccept, ReportsAgree PROVE Nearer
  <2>1. /\ KeeperType /\ closeOffset \in Int /\ raw[Us] = closeOffset
        /\ roundPhase = "establish"
        /\ closeOffset' = adjustCloseTime(closeOffset, estimate)
    BY <1>1 DEF KeeperInv, KeeperType, doAccept
  <2>2. PICK p \in Nodes, q \in Nodes :
            /\ estimate \in Int
            /\ raw[p] \in Int /\ raw[p] <= closeOffset + estimate
            /\ raw[q] \in Int /\ closeOffset + estimate <= raw[q]
    BY <2>1, EstimateBetween
  <2>3. ASSUME NEW n \in Nodes, raw[n] \in Int
        PROVE  raw[n] = closeOffset \/ raw[n] \in -1 .. 1
    <3>1. raw[n] # NoTime
      BY <2>3, KeeperAssumption
    <3>2. n # Us => raw[n] \in {NoTime} \cup -1 .. 1
      BY Zenon, <1>1 DEF ReportsAgree
    <3> QED BY <2>1, <3>1, <3>2
  <2>4. /\ raw[p] = closeOffset \/ raw[p] \in -1 .. 1
        /\ raw[q] = closeOffset \/ raw[q] \in -1 .. 1
    BY <2>2, <2>3
  <2>5. /\ closeOffset > 0 => estimate \in (-1 - closeOffset) .. 0
        /\ closeOffset < 0 => estimate \in 0 .. (1 - closeOffset)
        /\ closeOffset = 0 => estimate \in -1 .. 1
    BY <2>1, <2>2, <2>4
  <2>6. \/ closeOffset = 0 /\ closeOffset' = 0
        \/ closeOffset > 0 /\ closeOffset' \in 0 .. (closeOffset - 1)
        \/ closeOffset < 0 /\ closeOffset' \in (closeOffset + 1) .. 0
    BY <2>1, <2>2, <2>5, AdjustNearer
  <2> QED BY <2>6 DEF Nearer
<1>2. KeeperInv /\ [KeeperNext]_keeperVars => [doAccept /\ ReportsAgree => Nearer]_keeperVars
  BY <1>1
<1> QED BY <1>2, KeeperInvInit, KeeperInvStep, PTL DEF KeeperSpec, OffsetApproaches
=============================================================================

------------------------- MODULE LedgerMasterProofs -------------------------
(***************************************************************************)
(* The valid ledger moves forward, the clients get the ledgers in order,   *)
(* no call of tryAdvance is lost and no validation that was set aside is   *)
(* forgotten, for every network whose quorums are on one chain.            *)
(***************************************************************************)
EXTENDS LedgerMaster, FiniteSetTheorems, TLAPS

\* The provers of a step that names none, in the order they are tried.
USE SMT, Zenon, SMTT(30)

-----------------------------------------------------------------------------
(* Chains *)

\* A ledger is on its own chain, and so is the parent of a ledger on it.
LEMMA ChainBasics ==
    ASSUME NEW l \in Ledgers
    PROVE  /\ Chain[l] \subseteq Ledgers
           /\ l \in Chain[l]
           /\ HasParents(Chain[l])
<1>1. Chain[l] = {k \in Ledgers : \A s \in SUBSET Ledgers : l \in s /\ HasParents(s) => k \in s}
  BY DEF Chain
<1>2. ASSUME NEW k \in Chain[l], Parent[k] # NoLedger
      PROVE  Parent[k] \in Chain[l]
  <2>1. k \in Ledgers /\ Parent[k] \in Ledgers
    BY <1>1, <1>2, LedgersAssumption
  <2>2. ASSUME NEW s \in SUBSET Ledgers, l \in s, HasParents(s)
        PROVE  Parent[k] \in s
    BY <1>1, <1>2, <2>2 DEF HasParents
  <2> QED BY <1>1, <2>1, <2>2
<1> QED BY <1>1, <1>2 DEF HasParents

\* What is true of a ledger and goes from each ledger to its parent is true
\* of the chain.
LEMMA ChainInduction ==
    ASSUME NEW l \in Ledgers, NEW s \in SUBSET Ledgers, l \in s, HasParents(s)
    PROVE  Chain[l] \subseteq s
BY DEF Chain

\* The chain of a ledger contains those of the ledgers on it.
LEMMA ChainTransitive ==
    ASSUME NEW l \in Ledgers, NEW k \in Chain[l]
    PROVE  Chain[k] \subseteq Chain[l]
BY ChainBasics, ChainInduction

\* Sequences go down along a chain.
LEMMA ChainBelow ==
    ASSUME NEW l \in Ledgers, NEW k \in Chain[l]
    PROVE  k = l \/ SeqOf[k] < SeqOf[l]
<1> DEFINE s == {j \in Ledgers : j = l \/ SeqOf[j] < SeqOf[l]}
<1>1. HasParents(s)
  BY LedgersAssumption DEF HasParents
<1> HIDE DEF s
<1>2. s \in SUBSET Ledgers /\ l \in s
  BY DEF s
<1>3. k \in s
  BY <1>1, <1>2, ChainInduction
<1> QED BY <1>3 DEF s

\* Between a ledger of the chain and its head every sequence has a ledger
\* whose parent is on the chain too.
LEMMA ChainComplete ==
    ASSUME NEW l \in Ledgers, NEW k \in Chain[l],
           NEW seq \in SeqOf[k] + 1 .. SeqOf[l]
    PROVE  \E j \in Chain[l] : SeqOf[j] = seq /\ Parent[j] # NoLedger /\ Parent[j] \in Chain[l]
<1> DEFINE Found(n) == \E j \in Chain[l] :
                          SeqOf[j] = n /\ Parent[j] # NoLedger /\ Parent[j] \in Chain[l]
           s == {i \in Chain[l] : \A n \in SeqOf[i] + 1 .. SeqOf[l] : Found(n)}
<1>1. SeqOf[l] \in Nat /\ \A i \in Chain[l] : SeqOf[i] \in Nat
  BY ChainBasics, LedgersAssumption
<1>2. l \in s
  BY <1>1, ChainBasics
<1>3. ASSUME NEW i \in s, Parent[i] # NoLedger
      PROVE  Parent[i] \in s
  <2>1. i \in Chain[l] /\ i \in Ledgers /\ Parent[i] \in Chain[l]
    BY <1>3, ChainBasics DEF HasParents
  <2>2. SeqOf[i] = SeqOf[Parent[i]] + 1
    BY <1>3, <2>1, LedgersAssumption
  <2>3. Found(SeqOf[i])
    BY <1>3, <2>1
  <2>4. \A n \in SeqOf[i] + 1 .. SeqOf[l] : Found(n)
    BY <1>3
  <2> HIDE DEF Found
  <2>5. ASSUME NEW n \in SeqOf[Parent[i]] + 1 .. SeqOf[l]
        PROVE  Found(n)
    <3>1. n = SeqOf[i] \/ n \in SeqOf[i] + 1 .. SeqOf[l]
      BY <1>1, <2>1, <2>2
    <3> QED BY <2>3, <2>4, <3>1
  <2> QED BY <2>1, <2>5
<1>4. s \in SUBSET Ledgers /\ HasParents(s)
  BY <1>3, ChainBasics DEF HasParents
<1> HIDE DEF s
<1>5. k \in s
  BY <1>2, <1>4, ChainInduction
<1> QED BY <1>5 DEF s

\* All but its head are parents of ledgers on the chain.
LEMMA ChainChild ==
    ASSUME NEW l \in Ledgers, NEW k \in Chain[l], k # l
    PROVE  \E j \in Chain[l] : Parent[j] = k
<1> DEFINE s == {i \in Chain[l] : i = l \/ \E j \in Chain[l] : Parent[j] = i}
<1>1. l \in s /\ s \in SUBSET Ledgers /\ HasParents(s)
  BY ChainBasics DEF HasParents
<1> HIDE DEF s
<1>2. k \in s
  BY <1>1, ChainInduction
<1> QED BY <1>2 DEF s

\* A chain has one ledger of a sequence.
LEMMA ChainUnique ==
    ASSUME NEW l \in Ledgers, NEW i \in Chain[l], NEW j \in Chain[l], SeqOf[i] = SeqOf[j]
    PROVE  i = j
<1> DEFINE s == {k \in Chain[l] : \A c \in Chain[l] : SeqOf[c] = SeqOf[k] => c = k}
<1>1. \A k \in Chain[l] : k \in Ledgers /\ SeqOf[k] \in Nat
  BY ChainBasics, LedgersAssumption
<1>2. l \in s
  BY <1>1, ChainBasics, ChainBelow, LedgersAssumption
<1>3. ASSUME NEW k \in s, Parent[k] # NoLedger
      PROVE  Parent[k] \in s
  <2>1. k \in Chain[l] /\ k \in Ledgers /\ Parent[k] \in Chain[l]
    BY <1>3, ChainBasics DEF HasParents
  <2>2. SeqOf[k] = SeqOf[Parent[k]] + 1
    BY <1>3, <2>1, LedgersAssumption
  <2>3. ASSUME NEW c \in Chain[l], SeqOf[c] = SeqOf[Parent[k]]
        PROVE  c = Parent[k]
    <3>1. c # l
      BY <1>1, <2>1, <2>2, <2>3, ChainBelow, LedgersAssumption
    <3>2. PICK d \in Chain[l] : Parent[d] = c
      BY <3>1, ChainChild
    <3>3. SeqOf[d] = SeqOf[k]
      BY <1>1, <2>2, <2>3, <3>2, LedgersAssumption
    <3>4. d = k
      BY <1>3, <3>3
    <3> QED BY <3>2, <3>4
  <2> QED BY <2>1, <2>3
<1>4. s \in SUBSET Ledgers /\ HasParents(s)
  BY <1>3, ChainBasics DEF HasParents
<1> HIDE DEF s
<1>5. i \in s
  BY <1>2, <1>4, ChainInduction
<1> QED BY <1>5 DEF s

\* hashOfSeq finds the ledgers of the chain from a ledger on it to its head,
\* each after its parent.
LEMMA HashOfSeq ==
    ASSUME NEW l \in Ledgers, NEW k \in Chain[l]
    PROVE  /\ hashOfSeq(l, SeqOf[k]) = k
           /\ \A seq \in SeqOf[k] + 1 .. SeqOf[l] :
                 /\ hashOfSeq(l, seq) \in Chain[l]
                 /\ SeqOf[hashOfSeq(l, seq)] = seq
                 /\ Parent[hashOfSeq(l, seq)] = hashOfSeq(l, seq - 1)
<1>1. \A i \in Chain[l] : hashOfSeq(l, SeqOf[i]) = i
  BY ChainUnique DEF hashOfSeq
<1>2. ASSUME NEW seq \in SeqOf[k] + 1 .. SeqOf[l]
      PROVE  /\ hashOfSeq(l, seq) \in Chain[l]
             /\ SeqOf[hashOfSeq(l, seq)] = seq
             /\ Parent[hashOfSeq(l, seq)] = hashOfSeq(l, seq - 1)
  <2>1. PICK j \in Chain[l] : SeqOf[j] = seq /\ Parent[j] # NoLedger /\ Parent[j] \in Chain[l]
    BY ChainComplete
  <2>2. j \in Ledgers /\ SeqOf[Parent[j]] = seq - 1
    BY <2>1, ChainBasics, LedgersAssumption
  <2>3. hashOfSeq(l, seq) = j /\ hashOfSeq(l, seq - 1) = Parent[j]
    BY <1>1, <2>1, <2>2
  <2> QED BY <2>1, <2>3
<1> QED BY <1>1, <1>2

-----------------------------------------------------------------------------
(* The invariant *)

Places == {"none", "find", "fetch", "publish", "history"}

JobType ==
    /\ validLedger \in Ledgers \cup {NoLedger} /\ pubLedger \in Ledgers \cup {NoLedger}
    /\ advanceWork \in BOOLEAN
    /\ advance \in [at : Places, valid : Ledgers \cup {NoLedger}, ledgers : Seq(Ledgers)]
    /\ sent \in Seq(Ledgers)

MasterType ==
    /\ JobType
    /\ arrived \subseteq Messages
    /\ checks \subseteq [ledger : Ledgers, at : {"count", "accept", "acquired"}]
    /\ builder \in [at : {"open", "reopened", "building", "check", "collect", "switch", "ended"},
                   ledger : Ledgers]

\* The valid ledger is the first or has a quorum, and the published one is
\* on its chain.
OnChain ==
    /\ validLedger = NoLedger <=> pubLedger = NoLedger
    /\ validLedger # NoLedger => /\ Parent[validLedger] = NoLedger \/ Validated(validLedger)
                                 /\ pubLedger \in Chain[validLedger]

\* After a gap the job publishes what already is mPubLedger.
Skipping == advance.at = "publish" /\ advance.ledgers = <<pubLedger>>

\* What the job is about to publish follows the published ledger.
JobOnChain ==
    LET next == advance.ledgers IN
    /\ advance.at # "none" => validLedger # NoLedger
    /\ advance.at = "fetch" => /\ advance.valid \in Chain[validLedger]
                               /\ pubLedger \in Chain[advance.valid]
    /\ advance.at = "publish" =>
          /\ Len(next) > 0
          /\ \A i \in 1 .. Len(next) : next[i] \in Chain[validLedger]
          /\ \A i \in 1 .. Len(next) - 1 : Parent[next[i + 1]] = next[i]
          /\ Skipping \/ Parent[next[1]] = pubLedger

\* The published ledger is the last one sent, or one on which pubLedger threw,
\* but for a gap that the job skips, or was skipping when it threw.
Follows(last) ==
    /\ pubLedger # NoLedger /\ SeqOf[pubLedger] >= SeqOf[last]
    /\ \/ ~Skipping /\ pubLedger \in unsent \cup {last}
       \/ SeqOf[pubLedger] > SeqOf[last] + MaxGap
LastSent == sent # <<>> => Follows(sent[Len(sent)])

\* A ledger whose acquisition goes on, or ended without the ledger.
Awaited(l) == WakesAdvance(l) \/ l \in failed \cup swept

\* A job that has not been told of new work has seen the valid ledger, and
\* what it did not find is being acquired, unless an exception stopped it.
JobIsFresh ==
    /\ advance.at = "fetch" /\ ~advanceWork => advance.valid = validLedger
    /\ advance.at = "none" \/ (advance.at = "history" /\ ~advanceWork) =>
          \/ validSeq <= pubSeq
          \/ thrown
          \/ Awaited(hashOfSeq(validLedger, pubSeq + 1))

\* The inductive invariant.
IInv == MasterType /\ OnChain /\ JobOnChain /\ LastSent /\ SentInOrder /\ JobIsFresh

\* Facts about sequences of ledgers.
LEMMA Sequences ==
    /\ NoLedger \notin Ledgers
    /\ \A l \in Ledgers : SeqOf[l] \in Nat /\ SeqOf[l] > 0 /\ Seq0(l) = SeqOf[l]
    /\ Seq0(NoLedger) = 0
    /\ \A l \in Ledgers : Parent[l] # NoLedger => Parent[l] \in Ledgers /\ SeqOf[l] = SeqOf[Parent[l]] + 1
    /\ MaxGap \in Nat
BY LedgersAssumption DEF Seq0

\* The invariant holds for a server in sync and for one that has just started.
THEOREM InitIInv == Init => IInv
<1> SUFFICES ASSUME Init PROVE IInv
  OBVIOUS
<1> USE Sequences
<1>1. PICK first \in Ledgers : /\ Parent[first] = NoLedger
                               /\ validLedger \in {first, NoLedger}
                               /\ builder = [at |-> "open", ledger |-> first]
  BY DEF Init
<1>2. MasterType
  <2>1. advance \in [at : Places, valid : Ledgers \cup {NoLedger}, ledgers : Seq(Ledgers)]
    <3>1. <<>> \in Seq(Ledgers)
      OBVIOUS
    <3> QED BY <3>1 DEF Init, NoAdvance, Places
  <2>2. sent \in Seq(Ledgers)
    BY DEF Init
  <2> QED BY <1>1, <2>1, <2>2, Zenon DEF Init, MasterType, JobType
<1>3. OnChain
  BY <1>1, ChainBasics DEF Init, OnChain
<1>4. JobOnChain /\ LastSent /\ SentInOrder
  BY DEF Init, JobOnChain, LastSent, SentInOrder, NoAdvance
<1>5. JobIsFresh
  BY <1>1 DEF Init, JobIsFresh, NoAdvance, validSeq, pubSeq
<1> QED BY <1>2, <1>3, <1>4, <1>5 DEF IInv

-----------------------------------------------------------------------------
(* checkAccept *)

\* Validations that have arrived were sent.
LEMMA QuorumIsValidated ==
    ASSUME MasterType, NEW l \in Ledgers, getTrustedValidationCount(l) >= Quorum
    PROVE  Validated(l)
<1> DEFINE a == {m \in arrived : m.ledger = l}
           b == {m \in Messages : m.ledger = l}
<1>1. IsFiniteSet(Messages)
  BY QuorumsAgree
<1>2. IsFiniteSet(b)
  BY <1>1, FS_Subset
<1>3. a \subseteq b
  BY DEF MasterType
<1> HIDE DEF a, b
<1>4. IsFiniteSet(a) /\ Cardinality(a) <= Cardinality(b) /\ Cardinality(a) \in Nat /\ Cardinality(b) \in Nat
  BY <1>2, <1>3, FS_Subset, FS_CardinalityType
<1>5. Cardinality(a) >= Quorum /\ Quorum \in Nat
  BY LedgersAssumption DEF getTrustedValidationCount, a
<1>6. Cardinality(b) >= Quorum
  BY <1>4, <1>5
<1> QED BY <1>6 DEF Validated, b

\* A ledger that checkAccept accepts has the valid one on its chain.
LEMMA AcceptedOnChain ==
    ASSUME MasterType, OnChain, NEW l \in Ledgers, checkAccept(l), validLedger' # validLedger
    PROVE  /\ validLedger' = l /\ Validated(l)
           /\ getTrustedValidationCount(l) >= Quorum
           /\ validLedger # NoLedger => validLedger \in Chain[l] \ {l}
<1> USE Sequences
<1>1. /\ validLedger' = l
      /\ ~(SeqOf[l] <= validSeq \/ getTrustedValidationCount(l) < Quorum)
  BY DEF checkAccept
<1>0. getTrustedValidationCount(l) \in Nat /\ Quorum \in Nat
  <2>1. IsFiniteSet({m \in arrived : m.ledger = l})
    BY QuorumsAgree, FS_Subset DEF MasterType
  <2> QED BY <2>1, FS_CardinalityType, LedgersAssumption DEF getTrustedValidationCount
<1>2. getTrustedValidationCount(l) >= Quorum
  BY <1>0, <1>1
<1>3. Validated(l)
  BY <1>2, QuorumIsValidated
<1>4. ASSUME validLedger # NoLedger
      PROVE  validLedger \in Chain[l] /\ validLedger # l
  <2>1. validLedger \in Ledgers /\ SeqOf[validLedger] < SeqOf[l]
    BY <1>1, <1>4 DEF MasterType, JobType, validSeq
  <2>2. validLedger \in Chain[l]
    BY <1>3, <1>4, <2>1, QuorumsAgree DEF OnChain
  <2> QED BY <2>1, <2>2
<1> QED BY <1>1, <1>2, <1>3, <1>4

\* The part of the invariant about what is published.
Publishing == OnChain /\ JobOnChain /\ LastSent /\ SentInOrder

\* Steps that do not touch them.
LEMMA OthersPublish ==
    ASSUME JobType, Publishing, UNCHANGED <<validLedger, pubLedger, advanceVars, sent, unsent>>
    PROVE  JobType' /\ Publishing'
BY DEF JobType, Publishing, OnChain, JobOnChain, LastSent, Follows, SentInOrder, Skipping,
       advanceVars

\* An advance job that tryAdvance starts, or one that is told of new work.
LEMMA TryAdvancePublishes ==
    ASSUME JobType, Publishing, tryAdvance(validLedger), validLedger # NoLedger,
           UNCHANGED <<validLedger, pubLedger, sent, unsent>>
    PROVE  /\ JobType' /\ Publishing'
           /\ advanceWork' /\ advance'.at # "none" /\ (advance' = advance \/ advance'.at = "find")
<1> USE Sequences
<1>1. CASE advance.at = "none"
  <2>1. advance' = [at |-> "find", valid |-> NoLedger, ledgers |-> <<>>] /\ advanceWork' = TRUE
    BY <1>1 DEF tryAdvance, NoAdvance
  <2>2. JobType'
    <3>1. <<>> \in Seq(Ledgers)
      OBVIOUS
    <3> QED BY <2>1, <3>1 DEF JobType, Places
  <2>3. OnChain' /\ JobOnChain' /\ SentInOrder'
    BY <2>1 DEF Publishing, OnChain, JobOnChain, SentInOrder
  <2>4. LastSent'
    BY <1>1, <2>1 DEF Publishing, LastSent, Follows, Skipping
  <2> QED BY <2>1, <2>2, <2>3, <2>4 DEF Publishing
<1>2. CASE advance.at # "none"
  <2>1. advance' = advance /\ advanceWork' = TRUE
    BY <1>2 DEF tryAdvance
  <2>2. JobType' /\ Publishing'
    BY <2>1 DEF JobType, Publishing, OnChain, JobOnChain, LastSent, Follows, SentInOrder, Skipping
  <2> QED BY <1>2, <2>1, <2>2
<1> QED BY <1>1, <1>2

\* A ledger that becomes valid leaves the job what it has to publish.
LEMMA AcceptPublishes ==
    ASSUME MasterType, Publishing, NEW l \in Ledgers, checkAccept(l), UNCHANGED <<sent, unsent>>
    PROVE  /\ JobType' /\ Publishing'
           /\ \/ UNCHANGED <<validLedger, pubLedger, advanceVars>>
              \/ advanceWork' /\ advance'.at # "none"
<1> USE Sequences
<1>0. JobType
  BY DEF MasterType
<1>1. CASE Seq0(l) <= validSeq \/ getTrustedValidationCount(l) < Quorum
  BY <1>0, <1>1, OthersPublish DEF checkAccept
<1>2. CASE ~(Seq0(l) <= validSeq \/ getTrustedValidationCount(l) < Quorum)
  <2>1. /\ validLedger' = l
        /\ pubLedger' = IF pubLedger = NoLedger THEN l ELSE pubLedger
        /\ tryAdvance(l)
    BY <1>2 DEF checkAccept
  <2>2. validLedger' # validLedger
    BY <1>0, <1>2, <2>1 DEF validSeq, JobType
  <2>3. Validated(l) /\ (validLedger # NoLedger => validLedger \in Chain[l])
    BY <2>2, AcceptedOnChain DEF Publishing
  <2>4. validLedger # NoLedger => Chain[validLedger] \subseteq Chain[l]
    BY <2>3, ChainTransitive
  <2>5. OnChain'
    BY <2>1, <2>3, <2>4, ChainBasics DEF Publishing, OnChain
  <2>6. /\ advance' = IF advance.at = "none" THEN [NoAdvance EXCEPT !.at = "find"] ELSE advance
        /\ advanceWork' = TRUE
    BY <2>1 DEF tryAdvance
  <2>7. CASE advance.at = "none"
    <3>1. advance' = [at |-> "find", valid |-> NoLedger, ledgers |-> <<>>]
      BY <2>6, <2>7 DEF NoAdvance
    <3>2. JobType'
      <4>1. <<>> \in Seq(Ledgers)
        OBVIOUS
      <4>2. advance' \in [at : Places, valid : Ledgers \cup {NoLedger}, ledgers : Seq(Ledgers)]
        BY <3>1, <4>1 DEF Places
      <4>3. validLedger' \in Ledgers \cup {NoLedger} /\ pubLedger' \in Ledgers \cup {NoLedger}
        BY <1>0, <2>1 DEF JobType
      <4>4. sent' \in Seq(Ledgers)
        BY <1>0 DEF JobType
      <4> QED BY <1>0, <2>6, <4>2, <4>3, <4>4 DEF JobType
    <3>3. JobOnChain' /\ SentInOrder'
      BY <2>1, <3>1 DEF Publishing, JobOnChain, SentInOrder
    <3>4. ~Skipping /\ ~Skipping'
      BY <2>7, <3>1 DEF Skipping
    <3>5. sent # <<>> => pubLedger' = pubLedger
      BY <2>1 DEF Publishing, LastSent, Follows
    <3>6. LastSent'
      BY <3>4, <3>5 DEF Publishing, LastSent, Follows
    <3> QED BY <2>5, <2>6, <3>1, <3>2, <3>3, <3>6 DEF Publishing
  <2>8. CASE advance.at # "none"
    <3>1. validLedger # NoLedger /\ pubLedger # NoLedger
      BY <2>8 DEF Publishing, JobOnChain, OnChain
    <3>2. pubLedger' = pubLedger /\ advance' = advance
      BY <2>1, <2>6, <2>8, <3>1
    <3>3. JobType'
      BY <1>0, <2>1, <2>6, <3>2 DEF JobType
    <3>4. JobOnChain'
      BY <2>1, <2>4, <3>1, <3>2 DEF Publishing, JobOnChain, Skipping
    <3>5. LastSent' /\ SentInOrder'
      BY <3>2 DEF Publishing, LastSent, Follows, SentInOrder, Skipping
    <3> QED BY <2>5, <2>6, <2>8, <3>2, <3>3, <3>4, <3>5 DEF Publishing
  <2> QED BY <2>7, <2>8
<1> QED BY <1>1, <1>2

-----------------------------------------------------------------------------
(* The advance job *)

\* The job goes on from the published ledger, or after a gap from the valid one.
LEMMA FindKeeps ==
    ASSUME JobType, Publishing, findNewLedgersToPublish
    PROVE  JobType' /\ Publishing' /\ JobIsFresh'
<1> USE Sequences
<1>1. /\ UNCHANGED <<validLedger, sent, unsent>> /\ advanceWork' = FALSE
      /\ advance.at = "find"
  BY DEF findNewLedgersToPublish, acceptVars, publishVars
<1>2. /\ validLedger \in Ledgers /\ pubLedger \in Ledgers /\ pubLedger \in Chain[validLedger]
      /\ validSeq = SeqOf[validLedger] /\ pubSeq = SeqOf[pubLedger]
  BY <1>1 DEF Publishing, JobOnChain, OnChain, JobType, validSeq, pubSeq
<1>3. sent # <<>> => Follows(sent[Len(sent)]) /\ sent[Len(sent)] \in Ledgers
  BY DEF Publishing, LastSent, JobType
<1>4. /\ sent \in Seq(Ledgers) /\ <<>> \in Seq(Ledgers) /\ <<validLedger>> \in Seq(Ledgers)
      /\ Len(<<validLedger>>) = 1 /\ <<validLedger>>[1] = validLedger
  BY <1>2 DEF JobType
<1>5. CASE validSeq > pubSeq + MaxGap
  <2>1. /\ pubLedger' = validLedger
        /\ advance' = [at |-> "publish", valid |-> NoLedger, ledgers |-> <<validLedger>>]
    BY <1>5, Zenon DEF findNewLedgersToPublish, NoAdvance
  <2>2. JobType'
    BY <1>1, <1>2, <1>4, <2>1, Zenon DEF JobType, Places
  <2>3. Skipping'
    BY <1>1, <2>1 DEF Skipping
  <2>4. OnChain' /\ JobOnChain'
    BY <1>1, <1>2, <1>4, <2>1, <2>3, ChainBasics DEF Publishing, OnChain, JobOnChain
  <2>5. LastSent' /\ SentInOrder'
    BY <1>1, <1>2, <1>3, <1>5, <2>1, <2>3 DEF Publishing, LastSent, Follows, SentInOrder
  <2>6. JobIsFresh'
    BY <2>1 DEF JobIsFresh
  <2> QED BY <2>2, <2>4, <2>5, <2>6 DEF Publishing
<1>6. CASE ~(validSeq > pubSeq + MaxGap)
  <2>1. /\ pubLedger' = pubLedger
        /\ advance' = IF validSeq <= pubSeq
                        THEN [at |-> "history", valid |-> NoLedger, ledgers |-> <<>>]
                        ELSE [at |-> "fetch", valid |-> validLedger, ledgers |-> <<>>]
    BY <1>6, Zenon DEF findNewLedgersToPublish, NoAdvance
  <2>2. JobType'
    BY <1>1, <1>2, <1>4, <2>1, Zenon DEF JobType, Places
  <2>3. ~Skipping'
    BY <2>1 DEF Skipping
  <2>4. OnChain' /\ JobOnChain'
    BY <1>1, <1>2, <2>1, ChainBasics DEF Publishing, OnChain, JobOnChain
  <2>5. LastSent' /\ SentInOrder'
    BY <1>1, <1>3, <2>1, <2>3 DEF Publishing, LastSent, Follows, SentInOrder
  <2>6. JobIsFresh'
    BY <1>1, <1>2, <2>1 DEF JobIsFresh, validSeq, pubSeq
  <2> QED BY <2>2, <2>4, <2>5, <2>6 DEF Publishing
<1> QED BY <1>5, <1>6

\* A sequence with more than one ledger.
LEMMA LongSequence ==
    ASSUME NEW q \in Seq(Ledgers), Len(q) > 0, Len(q) # 1
    PROVE  q # <<>> /\ Len(q) \in Nat /\ Len(q) > 1
<1>1. Len(q) \in Nat
  OBVIOUS
<1>2. q # <<>>
  OBVIOUS
<1>3. \A n \in Nat : n > 0 /\ n # 1 => n > 1
  OBVIOUS
<1>4. Len(q) > 1
  BY <1>1, <1>3, Zenon
<1> QED BY <1>1, <1>2, <1>4

\* The rest of a sequence of ledgers, each after its parent.
LEMMA RestOfLedgers ==
    ASSUME NEW q \in Seq(Ledgers), Len(q) > 0, Len(q) # 1, NEW c,
           \A i \in 1 .. Len(q) : q[i] \in c,
           \A i \in 1 .. Len(q) - 1 : Parent[q[i + 1]] = q[i]
    PROVE  LET t == Tail(q) IN
           /\ t \in Seq(Ledgers) /\ Len(t) > 0
           /\ \A i \in 1 .. Len(t) : t[i] \in c
           /\ \A i \in 1 .. Len(t) - 1 : Parent[t[i + 1]] = t[i]
           /\ Parent[t[1]] = q[1] /\ t # <<q[1]>>
<1> DEFINE t == Tail(q)
<1>1. q # <<>> /\ Len(q) \in Nat /\ Len(q) > 1
  BY LongSequence
<1>2. t \in Seq(Ledgers) /\ Len(t) = Len(q) - 1
  BY <1>1
<1>3. \A i \in 1 .. Len(t) : t[i] = q[i + 1]
  BY <1>1, <1>2
<1> HIDE DEF t
<1>4. \A i \in 1 .. Len(t) : t[i] \in c
  BY <1>1, <1>2, <1>3
<1>5. \A i \in 1 .. Len(t) - 1 : Parent[t[i + 1]] = t[i]
  <2> TAKE i \in 1 .. Len(t) - 1
  <2>1. i \in 1 .. Len(t) /\ i + 1 \in 1 .. Len(t) /\ i + 1 \in 1 .. Len(q) - 1
    BY <1>1, <1>2
  <2> QED BY <1>3, <2>1
<1>6. t[1] = q[2] /\ 1 \in 1 .. Len(q) - 1 /\ q[1] \in Ledgers /\ q[2] \in Ledgers
  BY <1>1, <1>2, <1>3
<1>7. Parent[t[1]] = q[1]
  BY <1>6
<1>8. SeqOf[q[2]] = SeqOf[q[1]] + 1
  BY <1>6, <1>7, Sequences
<1>9. q[2] # q[1]
  BY <1>6, <1>8, Sequences
<1>10. t # <<q[1]>>
  BY <1>6, <1>9
<1>11. Len(t) > 0
  BY <1>1, <1>2
<1> QED BY <1>2, <1>4, <1>5, <1>7, <1>10, <1>11 DEF t

\* The next ledger is sent after its parent, or after a gap.
LEMMA PublishKeeps ==
    ASSUME JobType, Publishing, publishLedger
    PROVE  JobType' /\ Publishing' /\ JobIsFresh'
<1> USE Sequences
<1> DEFINE next == advance.ledgers
           l == Head(next)
<1>1. /\ UNCHANGED <<validLedger, unsent>> /\ pubLedger' = l /\ sent' = Append(sent, l)
      /\ advance.at = "publish"
      /\ advanceWork' = (advanceWork \/ Len(next) = 1)
      /\ advance' = IF Len(next) = 1 THEN [NoAdvance EXCEPT !.at = "find"]
                      ELSE [advance EXCEPT !.ledgers = Tail(@)]
  BY DEF publishLedger, acceptVars
<1> HIDE DEF l
<1>2. /\ validLedger \in Ledgers /\ pubLedger \in Ledgers
      /\ next \in Seq(Ledgers) /\ Len(next) > 0 /\ sent \in Seq(Ledgers)
      /\ \A i \in 1 .. Len(next) : next[i] \in Chain[validLedger]
      /\ \A i \in 1 .. Len(next) - 1 : Parent[next[i + 1]] = next[i]
      /\ Skipping \/ Parent[next[1]] = pubLedger
  BY <1>1 DEF Publishing, JobOnChain, OnChain, JobType
<1>3. l = next[1] /\ l \in Ledgers /\ l \in Chain[validLedger]
  BY <1>2 DEF l
<1> HIDE DEF next
<1>4. /\ sent' \in Seq(Ledgers) /\ Len(sent') = Len(sent) + 1 /\ sent'[Len(sent')] = l
      /\ \A i \in 1 .. Len(sent) : sent'[i] = sent[i]
      /\ Len(sent) \in Nat
  BY <1>1, <1>2, <1>3
<1>5. ASSUME sent # <<>>
      PROVE  LET last == sent[Len(sent)]
             IN  Parent[l] \in unsent \cup {last} \/ SeqOf[l] > SeqOf[last] + MaxGap
  <2>0. Follows(sent[Len(sent)]) /\ sent[Len(sent)] \in Ledgers
    BY <1>2, <1>5 DEF Publishing, LastSent
  <2>1. CASE Skipping
    <3>1. l = pubLedger
      BY <2>1, <1>3 DEF Skipping, next
    <3> QED BY <2>0, <2>1, <3>1 DEF Follows
  <2>2. CASE ~Skipping
    <3>1. Parent[l] = pubLedger /\ SeqOf[l] = SeqOf[pubLedger] + 1
      BY <1>2, <1>3, <2>2
    <3> QED BY <1>2, <1>3, <2>0, <3>1 DEF Follows
  <2> QED BY <2>1, <2>2
<1>6. SentInOrder'
  <2> SUFFICES ASSUME NEW i \in 1 .. Len(sent') - 1
               PROVE  \/ Parent[sent'[i + 1]] \in unsent \cup {sent'[i]}
                      \/ SeqOf[sent'[i + 1]] > SeqOf[sent'[i]] + MaxGap
    BY <1>1 DEF SentInOrder
  <2>1. CASE i = Len(sent)
    <3>1. sent # <<>> /\ sent'[i] = sent[Len(sent)] /\ sent'[i + 1] = l
      BY <1>2, <1>4, <2>1
    <3> QED BY <1>5, <3>1
  <2>2. CASE i # Len(sent)
    <3>1. i \in 1 .. Len(sent) - 1 /\ sent'[i] = sent[i] /\ sent'[i + 1] = sent[i + 1]
      BY <1>4, <2>2
    <3> QED BY <3>1 DEF Publishing, SentInOrder
  <2> QED BY <2>1, <2>2
<1>7. OnChain'
  BY <1>1, <1>2, <1>3 DEF Publishing, OnChain
<1>8. CASE Len(next) = 1
  <2>1. advance' = [at |-> "find", valid |-> NoLedger, ledgers |-> <<>>] /\ advanceWork' = TRUE
    BY <1>1, <1>8, Zenon DEF NoAdvance
  <2>2. JobType'
    <3>1. <<>> \in Seq(Ledgers)
      OBVIOUS
    <3>2. advance' \in [at : Places, valid : Ledgers \cup {NoLedger}, ledgers : Seq(Ledgers)]
      BY <2>1, <3>1 DEF Places
    <3> QED BY <1>1, <1>2, <1>3, <1>4, <2>1, <3>2 DEF JobType
  <2>3. JobOnChain' /\ JobIsFresh'
    BY <1>1, <1>2, <2>1 DEF JobOnChain, JobIsFresh
  <2>4. LastSent'
    BY <1>1, <1>3, <1>4, <2>1 DEF LastSent, Follows, Skipping
  <2> QED BY <1>6, <1>7, <2>2, <2>3, <2>4 DEF Publishing
<1>9. CASE Len(next) # 1
  <2>1. advance' = [advance EXCEPT !.ledgers = Tail(next)]
    BY <1>1, <1>9 DEF next
  <2>2. advance' = [at |-> "publish", valid |-> advance.valid, ledgers |-> Tail(next)]
    BY <1>1, <2>1, Zenon DEF JobType
  <2>3. /\ Tail(next) \in Seq(Ledgers) /\ Len(Tail(next)) > 0
        /\ \A i \in 1 .. Len(Tail(next)) : Tail(next)[i] \in Chain[validLedger]
        /\ \A i \in 1 .. Len(Tail(next)) - 1 : Parent[Tail(next)[i + 1]] = Tail(next)[i]
        /\ Parent[Tail(next)[1]] = l /\ Tail(next) # <<l>>
    BY <1>2, <1>3, <1>9, RestOfLedgers, ZenonT(60)
  <2>4. JobType'
    <3>1. advance.valid \in Ledgers \cup {NoLedger}
      BY DEF JobType
    <3>2. advance' \in [at : Places, valid : Ledgers \cup {NoLedger}, ledgers : Seq(Ledgers)]
      BY <2>2, <2>3, <3>1 DEF Places
    <3>3. advanceWork' \in BOOLEAN
      BY <1>1
    <3> QED BY <1>1, <1>2, <1>3, <1>4, <3>2, <3>3 DEF JobType
  <2>5. advance'.at = "publish" /\ advance'.ledgers = Tail(next)
    BY <2>2
  <2>6. ~Skipping'
    <3>1. Skipping' => Tail(next) = <<l>>
      BY <1>1, <2>5, Zenon DEF Skipping
    <3> QED BY <2>3, <3>1
  <2>7. JobOnChain'
    <3> DEFINE t == advance'.ledgers
    <3>1. /\ Len(t) > 0 /\ Parent[t[1]] = pubLedger'
          /\ \A i \in 1 .. Len(t) : t[i] \in Chain[validLedger']
          /\ \A i \in 1 .. Len(t) - 1 : Parent[t[i + 1]] = t[i]
      BY <1>1, <2>3, <2>5, ZenonT(60)
    <3>2. validLedger' # NoLedger
      BY <1>1, <1>2
    <3> QED BY <2>5, <3>1, <3>2 DEF JobOnChain
  <2>8. LastSent' /\ JobIsFresh'
    BY <1>1, <1>3, <1>4, <2>2, <2>6 DEF LastSent, Follows, JobIsFresh
  <2> QED BY <1>6, <1>7, <2>4, <2>7, <2>8 DEF Publishing
<1> QED BY <1>8, <1>9

\* The job that found something publishes the next ledgers of the chain.
LEMMA FetchPublishes ==
    ASSUME JobType, Publishing, fetchLedgers
    PROVE  JobType' /\ Publishing'
<1> USE Sequences
<1> DEFINE valid == advance.valid
<1>0. PICK end \in pubSeq .. SeqOf[valid] :
        LET ready == {s \in pubSeq + 1 .. end :
                        \A k \in pubSeq + 1 .. s : hashOfSeq(valid, k) \in have}
        IN  advance' = IF ready = {} THEN [NoAdvance EXCEPT !.at = "history"]
                         ELSE [NoAdvance EXCEPT !.at = "publish",
                                 !.ledgers = [i \in 1 .. Cardinality(ready) |->
                                               hashOfSeq(valid, pubSeq + i)]]
  BY Zenon DEF fetchLedgers
<1> DEFINE ready == {s \in pubSeq + 1 .. end :
                        \A k \in pubSeq + 1 .. s : hashOfSeq(valid, k) \in have}
           next == [i \in 1 .. Cardinality(ready) |-> hashOfSeq(valid, pubSeq + i)]
<1>1. /\ advance.at = "fetch"
      /\ UNCHANGED <<validLedger, pubLedger, advanceWork, sent, unsent>>
      /\ advance' = IF ready = {} THEN [NoAdvance EXCEPT !.at = "history"]
                      ELSE [NoAdvance EXCEPT !.at = "publish", !.ledgers = next]
  BY <1>0, Zenon DEF fetchLedgers, acceptVars
<1>2. /\ validLedger \in Ledgers /\ valid \in Chain[validLedger] /\ pubLedger \in Chain[valid]
      /\ valid \in Ledgers /\ pubLedger \in Ledgers
      /\ pubSeq = SeqOf[pubLedger] /\ pubSeq \in Nat /\ SeqOf[valid] \in Nat
  BY <1>1, ChainBasics DEF Publishing, JobOnChain, OnChain, JobType, pubSeq
<1>3. OnChain' /\ SentInOrder'
  BY <1>1 DEF Publishing, OnChain, SentInOrder
<1>4. LastSent /\ ~Skipping
  BY <1>1 DEF Publishing, Skipping
<1>5. ready \subseteq pubSeq + 1 .. SeqOf[valid]
  BY <1>0, <1>2
<1> HIDE DEF valid, ready
<1>6. CASE ready = {}
  <2>1. advance' = [at |-> "history", valid |-> NoLedger, ledgers |-> <<>>]
    BY <1>1, <1>6 DEF NoAdvance
  <2>2. JobType'
    <3>1. <<>> \in Seq(Ledgers)
      OBVIOUS
    <3>2. advance' \in [at : Places, valid : Ledgers \cup {NoLedger}, ledgers : Seq(Ledgers)]
      BY <2>1, <3>1 DEF Places
    <3> QED BY <1>1, <3>2 DEF JobType
  <2>3. JobOnChain'
    <3>1. advance'.at = "history"
      BY <2>1
    <3>2. validLedger' # NoLedger
      BY <1>1, <1>2
    <3> QED BY <3>1, <3>2 DEF JobOnChain
  <2>4. LastSent'
    <3>1. ~Skipping'
      BY <2>1 DEF Skipping
    <3> QED BY <1>1, <1>4, <3>1 DEF LastSent, Follows
  <2> QED BY <1>3, <2>2, <2>3, <2>4 DEF Publishing
<1>7. CASE ready # {}
  <2> DEFINE n == Cardinality(ready)
  <2>1. n \in Nat /\ n > 0 /\ pubSeq + n <= SeqOf[valid]
    <3>0. pubSeq + 1 \in Int /\ SeqOf[valid] \in Int
      BY <1>2
    <3>1. IsFiniteSet(pubSeq + 1 .. SeqOf[valid])
      BY <3>0, FS_Interval
    <3>2. Cardinality(pubSeq + 1 .. SeqOf[valid]) =
              IF pubSeq + 1 > SeqOf[valid] THEN 0 ELSE SeqOf[valid] - (pubSeq + 1) + 1
      BY <3>0, FS_Interval, Zenon
    <3>3. IsFiniteSet(ready) /\ n <= Cardinality(pubSeq + 1 .. SeqOf[valid])
      BY <1>5, <3>1, FS_Subset, Zenon
    <3>4. n \in Nat /\ n # 0
      BY <1>7, <3>3, FS_CardinalityType, FS_EmptySet
    <3> QED BY <1>2, <3>2, <3>3, <3>4
  <2> HIDE DEF n
  <2>2. ASSUME NEW i \in 1 .. n
        PROVE  /\ hashOfSeq(valid, pubSeq + i) \in Chain[valid]
               /\ Parent[hashOfSeq(valid, pubSeq + i)] = hashOfSeq(valid, pubSeq + i - 1)
    <3>1. pubSeq + i \in SeqOf[pubLedger] + 1 .. SeqOf[valid]
      BY <1>2, <2>1
    <3> QED BY <1>2, <3>1, HashOfSeq
  <2>3. hashOfSeq(valid, pubSeq) = pubLedger
    BY <1>2, HashOfSeq
  <2>4. Chain[valid] \subseteq Ledgers /\ Chain[valid] \subseteq Chain[validLedger]
    BY <1>2, ChainBasics, ChainTransitive
  <2>5. next = [i \in 1 .. n |-> hashOfSeq(valid, pubSeq + i)]
    BY DEF n
  <2> HIDE DEF next
  <2>6. next \in Seq(Ledgers) /\ Len(next) = n
    <3>1. \A i \in 1 .. n : hashOfSeq(valid, pubSeq + i) \in Ledgers
      BY <2>2, <2>4
    <3> QED BY <2>1, <2>5, <3>1
  <2>7. \A i \in 1 .. n : next[i] \in Chain[validLedger]
    BY <2>2, <2>4, <2>5
  <2>8. \A i \in 1 .. n - 1 : Parent[next[i + 1]] = next[i]
    <3> TAKE i \in 1 .. n - 1
    <3>1. /\ i \in 1 .. n /\ i + 1 \in 1 .. n
          /\ pubSeq + (i + 1) - 1 = pubSeq + i
      BY <1>2, <2>1
    <3>2. next[i + 1] = hashOfSeq(valid, pubSeq + (i + 1)) /\ next[i] = hashOfSeq(valid, pubSeq + i)
      BY <2>5, <3>1
    <3> QED BY <2>2, <3>1, <3>2
  <2>9. Parent[next[1]] = pubLedger
    <3>1. 1 \in 1 .. n /\ pubSeq + 1 - 1 = pubSeq
      BY <1>2, <2>1
    <3>2. next[1] = hashOfSeq(valid, pubSeq + 1)
      BY <2>5, <3>1
    <3> QED BY <2>2, <2>3, <3>1, <3>2
  <2>10. advance' = [at |-> "publish", valid |-> NoLedger, ledgers |-> next]
    BY <1>1, <1>7, Zenon DEF NoAdvance
  <2>11. advance'.at = "publish" /\ advance'.ledgers = next
    BY <2>10
  <2>12. JobType'
    <3>1. advance' \in [at : Places, valid : Ledgers \cup {NoLedger}, ledgers : Seq(Ledgers)]
      BY <2>6, <2>10 DEF Places
    <3> QED BY <1>1, <3>1 DEF JobType
  <2>13. JobOnChain'
    BY <1>1, <1>2, <2>1, <2>6, <2>7, <2>8, <2>9, <2>11 DEF JobOnChain
  <2>14. next # <<pubLedger>>
    <3>1. next[1] \in Ledgers
      <4>1. 1 \in 1 .. n
        BY <2>1
      <4> QED BY <1>2, <2>7, <4>1, ChainBasics
    <3>2. SeqOf[next[1]] = SeqOf[pubLedger] + 1
      BY <1>2, <2>9, <3>1
    <3>3. next[1] # pubLedger
      BY <1>2, <3>2
    <3> QED BY <3>3
  <2>15. LastSent'
    <3>1. ~Skipping'
      <4>1. Skipping' => next = <<pubLedger>>
        BY <1>1, <2>11 DEF Skipping
      <4> QED BY <2>14, <4>1
    <3> QED BY <1>1, <1>4, <3>1 DEF LastSent, Follows
  <2> QED BY <1>3, <2>12, <2>13, <2>15 DEF Publishing
<1> QED BY <1>6, <1>7

\* What is acquired, or was before, is awaited.
LEMMA AcquireAwaits ==
    ASSUME NEW ls, acquire(ls), UNCHANGED <<failed, checks>>
    PROVE  /\ \A l : Awaited(l) => Awaited(l)'
           /\ \A l \in ls : l \notin have => Awaited(l)'
BY Zenon DEF acquire, Awaited, WakesAdvance

\* What it did not find it acquires, unless that failed before or it was
\* stopped by an exception.
LEMMA FetchStaysFresh ==
    ASSUME MasterType, Publishing, JobIsFresh, fetchLedgers
    PROVE  JobIsFresh'
<1> USE Sequences
<1> DEFINE valid == advance.valid
<1>0. PICK end \in pubSeq .. SeqOf[valid] :
        LET seqs == pubSeq + 1 .. end
            ready == {s \in seqs : \A k \in pubSeq + 1 .. s : hashOfSeq(valid, k) \in have}
            missing == {s \in seqs : hashOfSeq(valid, s) \notin have}
            first == {s \in missing : Cardinality({k \in missing : k < s}) < FetchSize - 1}
        IN  /\ end = SeqOf[valid] \/ thrown'
            /\ acquire({hashOfSeq(valid, s) : s \in first})
            /\ advance'.at = IF ready = {} THEN "history" ELSE "publish"
  BY DEF fetchLedgers, NoAdvance
<1> DEFINE ready == {s \in pubSeq + 1 .. end :
                        \A k \in pubSeq + 1 .. s : hashOfSeq(valid, k) \in have}
           missing == {s \in pubSeq + 1 .. end : hashOfSeq(valid, s) \notin have}
           first == {s \in missing : Cardinality({k \in missing : k < s}) < FetchSize - 1}
<1>1. /\ advance.at = "fetch"
      /\ UNCHANGED <<validLedger, pubLedger, advanceWork, failed, checks>>
      /\ end = SeqOf[valid] \/ thrown'
      /\ acquire({hashOfSeq(valid, s) : s \in first})
      /\ advance'.at = IF ready = {} THEN "history" ELSE "publish"
  BY <1>0, Zenon DEF fetchLedgers, acceptVars
<1>2. CASE ready = {}
  <2>1. advance'.at = "history"
    BY <1>1, <1>2
  <2>2. SUFFICES ASSUME ~advanceWork', ~(validSeq' <= pubSeq'), ~thrown'
                 PROVE  Awaited(hashOfSeq(validLedger, pubSeq + 1))'
    BY <1>1, <2>1 DEF JobIsFresh, pubSeq
  <2>3. valid = validLedger /\ end = SeqOf[valid]
    BY <1>1, <2>2 DEF JobIsFresh
  <2>4. /\ validLedger \in Ledgers /\ pubLedger \in Ledgers
        /\ validSeq = SeqOf[valid] /\ pubSeq \in Nat /\ SeqOf[valid] \in Nat
        /\ pubSeq < SeqOf[valid]
    BY <1>1, <2>2, <2>3 DEF Publishing, JobOnChain, OnChain, MasterType, JobType, validSeq, pubSeq
  <2>5. pubSeq + 1 \in pubSeq + 1 .. end
    BY <2>3, <2>4
  <2>6. hashOfSeq(valid, pubSeq + 1) \notin have
    <3>1. \A k \in pubSeq + 1 .. pubSeq + 1 : k = pubSeq + 1
      BY <2>4
    <3> QED BY <1>2, <2>5, <3>1
  <2>7. pubSeq + 1 \in first
    <3>1. {k \in missing : k < pubSeq + 1} = {}
      BY <2>4
    <3>2. Cardinality({k \in missing : k < pubSeq + 1}) = 0
      BY <3>1, FS_EmptySet, Zenon
    <3>3. 0 < FetchSize - 1
      BY LedgersAssumption
    <3> QED BY <2>5, <2>6, <3>2, <3>3
  <2> HIDE DEF first
  <2>8. \A l \in {hashOfSeq(valid, s) : s \in first} : l \notin have => Awaited(l)'
    BY <1>1, AcquireAwaits
  <2> DEFINE n == hashOfSeq(valid, pubSeq + 1)
  <2>9. hashOfSeq(validLedger, pubSeq + 1)' = n
    BY <1>1, <2>3 DEF hashOfSeq, pubSeq
  <2>10. n \in {hashOfSeq(valid, s) : s \in first} /\ n \notin have
    BY <2>6, <2>7
  <2> HIDE DEF n
  <2>11. n \in acquiring' \/ (\E c \in checks' : c.ledger = n /\ c.at = "acquired")
         \/ n \in failed' \cup swept'
    BY <2>8, <2>10 DEF Awaited, WakesAdvance
  <2> QED BY <2>9, <2>11 DEF Awaited, WakesAdvance
<1>3. CASE ready # {}
  <2>1. advance'.at = "publish"
    BY <1>1, <1>3
  <2> QED BY <2>1 DEF JobIsFresh
<1> QED BY <1>2, <1>3

\* The job looks at history, and ends or looks again.
LEMMA HistoryKeeps ==
    ASSUME MasterType, Publishing, JobIsFresh, skipHistory \/ fetchHistory
    PROVE  JobType' /\ Publishing' /\ JobIsFresh'
<1> USE Sequences
<1>1. /\ advance.at = "history"
      /\ UNCHANGED <<validLedger, pubLedger, thrown, sent, unsent>>
      /\ \A l : Awaited(l) => Awaited(l)'
      /\ \E work \in {advanceWork, TRUE} : loopAdvance(work)
  <2>1. CASE skipHistory
    BY <2>1, Zenon DEF skipHistory, acceptVars, inboundVars, publishVars, Awaited, WakesAdvance
  <2>2. CASE fetchHistory
    <3>1. (UNCHANGED <<acquiring, swept>> \/ \E ls : acquire(ls)) /\ UNCHANGED <<failed, checks>>
      BY <2>2, Zenon DEF fetchHistory
    <3>2. \A l : Awaited(l) => Awaited(l)'
      BY <3>1, AcquireAwaits, Zenon DEF Awaited, WakesAdvance
    <3> QED BY <2>2, <3>2, Zenon DEF fetchHistory, acceptVars
  <2> QED BY <2>1, <2>2, Zenon
<1>2. PICK work \in {advanceWork, TRUE} : loopAdvance(work)
  BY <1>1, Zenon
<1>3. validLedger \in Ledgers /\ JobType
  BY <1>1 DEF MasterType, JobType, Publishing, JobOnChain
<1>4. LastSent /\ ~Skipping
  BY <1>1 DEF Publishing, Skipping
<1>5. /\ advanceWork' = work /\ work \in BOOLEAN
      /\ advance' = IF work THEN [at |-> "find", valid |-> NoLedger, ledgers |-> <<>>]
                      ELSE [at |-> "none", valid |-> NoLedger, ledgers |-> <<>>]
  <2>1. work \in BOOLEAN
    BY <1>2, <1>3, Zenon DEF JobType
  <2>2. NoAdvance = [at |-> "none", valid |-> NoLedger, ledgers |-> <<>>]
    BY DEF NoAdvance
  <2>3. [NoAdvance EXCEPT !.at = "find"] = [at |-> "find", valid |-> NoLedger, ledgers |-> <<>>]
    BY DEF NoAdvance
  <2> QED BY <1>2, <2>1, <2>2, <2>3, Zenon DEF loopAdvance
<1>6. JobType'
  <2>1. <<>> \in Seq(Ledgers)
    OBVIOUS
  <2>2. advance' \in [at : Places, valid : Ledgers \cup {NoLedger}, ledgers : Seq(Ledgers)]
    BY <1>5, <2>1 DEF Places
  <2> QED BY <1>1, <1>3, <1>5, <2>2 DEF JobType
<1>7. OnChain' /\ SentInOrder'
  BY <1>1 DEF Publishing, OnChain, SentInOrder
<1>8. advance'.at \in {"find", "none"} /\ (advance'.at = "none" => ~advanceWork)
  BY <1>2, <1>3, <1>5, ZenonT(60) DEF JobType
<1>9. JobOnChain'
  BY <1>1, <1>3, <1>8 DEF JobOnChain
<1>10. LastSent'
  <2>1. ~Skipping'
    BY <1>8 DEF Skipping
  <2> QED BY <1>1, <1>4, <2>1 DEF LastSent, Follows
<1>11. JobIsFresh'
  <2>1. /\ validSeq' = validSeq /\ pubSeq' = pubSeq
        /\ hashOfSeq(validLedger, pubSeq + 1)' = hashOfSeq(validLedger, pubSeq + 1)
    BY <1>1 DEF validSeq, pubSeq
  <2>2. advance'.at = "none" => validSeq <= pubSeq \/ thrown \/ Awaited(hashOfSeq(validLedger, pubSeq + 1))
    BY <1>1, <1>8 DEF JobIsFresh
  <2> DEFINE n == hashOfSeq(validLedger, pubSeq + 1)
  <2>3. Awaited(n) => Awaited(n)'
    BY <1>1, <2>1 DEF Awaited, WakesAdvance
  <2> QED BY <1>1, <1>8, <2>1, <2>2, <2>3 DEF JobIsFresh
<1> QED BY <1>6, <1>7, <1>9, <1>10, <1>11 DEF Publishing

\* A job that an exception ends leaves what it has published.
LEMMA ThrowKeeps ==
    ASSUME JobType, Publishing, advanceThrows
    PROVE  JobType' /\ Publishing' /\ JobIsFresh'
<1> USE Sequences
<1> DEFINE next == advance.ledgers
           l == Head(next)
<1>1. /\ UNCHANGED <<validLedger, sent, advanceWork>> /\ thrown'
      /\ advance.at \in {"publish", "history"}
      /\ advance' = NoAdvance /\ unsent \subseteq unsent'
      /\ \/ UNCHANGED pubLedger
         \/ advance.at = "publish" /\ pubLedger' = l /\ l \in unsent'
  BY DEF advanceThrows, acceptVars
<1>2. advance' = [at |-> "none", valid |-> NoLedger, ledgers |-> <<>>]
  BY <1>1 DEF NoAdvance
<1>3. /\ validLedger \in Ledgers /\ pubLedger \in Ledgers
      /\ \A q \in {sent} : q # <<>> => q[Len(q)] \in Ledgers
  BY <1>1 DEF Publishing, JobOnChain, OnChain, JobType
<1>4. ASSUME advance.at = "publish"
      PROVE  /\ l \in Ledgers /\ l \in Chain[validLedger]
             /\ (Skipping /\ l = pubLedger) \/ (~Skipping /\ Parent[l] = pubLedger)
  <2>1. /\ next \in Seq(Ledgers) /\ Len(next) > 0
        /\ \A i \in 1 .. Len(next) : next[i] \in Chain[validLedger]
        /\ Skipping \/ Parent[next[1]] = pubLedger
    BY <1>4 DEF Publishing, JobOnChain, JobType
  <2>2. l = next[1] /\ l \in Ledgers /\ l \in Chain[validLedger]
    BY <2>1
  <2>3. Skipping => next[1] = pubLedger
    BY DEF Skipping
  <2> QED BY <2>1, <2>2, <2>3
<1> HIDE DEF l
<1>5. pubLedger' \in Ledgers /\ pubLedger' \in Chain[validLedger]
  BY <1>1, <1>3, <1>4 DEF Publishing, OnChain
<1>6. JobType'
  <2>1. <<>> \in Seq(Ledgers)
    OBVIOUS
  <2>2. advance' \in [at : Places, valid : Ledgers \cup {NoLedger}, ledgers : Seq(Ledgers)]
    BY <1>2, <2>1 DEF Places
  <2> QED BY <1>1, <1>5, <2>2 DEF JobType
<1>7. OnChain' /\ JobOnChain' /\ SentInOrder' /\ JobIsFresh'
  <2>1. OnChain'
    BY <1>1, <1>3, <1>5 DEF Publishing, OnChain
  <2>2. JobOnChain' /\ JobIsFresh'
    BY <1>1, <1>2 DEF JobOnChain, JobIsFresh
  <2>3. SentInOrder'
    BY <1>1 DEF Publishing, SentInOrder
  <2> QED BY <2>1, <2>2, <2>3
<1>8. LastSent'
  <2> DEFINE last == sent[Len(sent)]
  <2> SUFFICES ASSUME sent # <<>> PROVE Follows(last)'
    BY <1>1 DEF LastSent
  <2>1. Follows(last) /\ last \in Ledgers /\ last' = last
    BY <1>1, <1>3 DEF Publishing, LastSent
  <2> HIDE DEF last
  <2>2. ~Skipping'
    BY <1>2 DEF Skipping
  <2>3. CASE UNCHANGED pubLedger
    BY <1>1, <2>1, <2>2, <2>3 DEF Follows
  <2>4. CASE advance.at = "publish" /\ pubLedger' = l /\ l \in unsent'
    <3>1. SeqOf[l] >= SeqOf[pubLedger]
      BY <1>3, <1>4, <2>4
    <3> QED BY <1>3, <1>4, <2>1, <2>2, <2>4, <3>1 DEF Follows
  <2> QED BY <1>1, <2>3, <2>4
<1> QED BY <1>6, <1>7, <1>8 DEF Publishing

\* Steps of others leave what is awaited.
LEMMA OthersStayFresh ==
    ASSUME JobIsFresh, UNCHANGED <<validLedger, pubLedger, advanceVars, thrown>>,
           \A l : Awaited(l) => Awaited(l)'
    PROVE  JobIsFresh'
<1> DEFINE l == hashOfSeq(validLedger, pubSeq + 1)
<1>1. l' = l /\ validSeq' = validSeq /\ pubSeq' = pubSeq
  BY DEF validSeq, pubSeq
<1>2. Awaited(l) => Awaited(l)'
  BY <1>1 DEF Awaited, WakesAdvance
<1> QED BY <1>1, <1>2 DEF JobIsFresh, advanceVars

-----------------------------------------------------------------------------
(* Every step *)

OtherType ==
    /\ arrived \subseteq Messages
    /\ checks \subseteq [ledger : Ledgers, at : {"count", "accept", "acquired"}]
    /\ builder \in [at : {"open", "reopened", "building", "check", "collect", "switch", "ended"},
                   ledger : Ledgers]

\* Handlers that leave the advance job alone.
LEMMA OtherSteps ==
    ASSUME IInv,
           \/ \E m \in Messages : addValidation(m)
           \/ \E c \in checks : countValidations(c)
           \/ \E l \in Ledgers : inboundStep(l) \/ sweep(l)
           \/ \E l \in Ledgers : handleWrongLedger(l) \/ consensusBuilt(l)
           \/ onClose \/ checkSaved
    PROVE  /\ OtherType'
           /\ UNCHANGED <<validLedger, pubLedger, advanceVars, sent, unsent, thrown>>
           /\ \A l : Awaited(l) => Awaited(l)'
<1> USE DEF acceptVars, inboundVars, publishVars, buildVars
<1>0. OtherType
  BY ZenonT(60) DEF IInv, MasterType, OtherType
<1>1. ASSUME NEW m \in Messages, addValidation(m)
      PROVE  /\ OtherType'
             /\ UNCHANGED <<validLedger, pubLedger, advanceVars, sent, unsent, thrown>>
             /\ \A l : Awaited(l) => Awaited(l)'
  <2>1. m.ledger \in Ledgers
    BY LedgersAssumption
  <2> QED BY <1>0, <1>1, <2>1 DEF addValidation, startCheck, OtherType, WakesAdvance, Awaited
<1>2. ASSUME NEW c \in checks, countValidations(c)
      PROVE  /\ OtherType'
             /\ UNCHANGED <<validLedger, pubLedger, advanceVars, sent, unsent, thrown>>
             /\ \A l : Awaited(l) => Awaited(l)'
  <2>1. /\ c.at = "count"
        /\ UNCHANGED <<arrived, validLedger, pubLedger, failed, advanceVars, sent, unsent, thrown, builder>>
        /\ endCheck(c) \/ moveCheck(c, "accept")
        /\ swept \subseteq swept' \cup acquiring' /\ acquiring \subseteq acquiring'
    BY <1>2 DEF countValidations, acquire
  <2>2. c \in [ledger : Ledgers, at : {"count", "accept", "acquired"}]
    BY <1>0 DEF OtherType
  <2>3. [c EXCEPT !.at = "accept"] \in [ledger : Ledgers, at : {"count", "accept", "acquired"}]
    BY <2>2
  <2>4. checks \ {c} \subseteq checks'
        /\ checks' \subseteq [ledger : Ledgers, at : {"count", "accept", "acquired"}]
    BY <1>0, <2>1, <2>3 DEF endCheck, moveCheck, OtherType
  <2>5. OtherType'
    BY <1>0, <2>1, <2>4 DEF OtherType
  <2>6. \A l : Awaited(l) => Awaited(l)'
    <3>1. \A d \in checks : d.at = "acquired" => d \in checks'
      BY <2>1, <2>4
    <3> QED BY <2>1, <3>1, Zenon DEF WakesAdvance, Awaited
  <2> QED BY <2>1, <2>5, <2>6
<1>3. ASSUME NEW l \in Ledgers, acquired(l)
      PROVE  /\ OtherType'
             /\ UNCHANGED <<validLedger, pubLedger, advanceVars, sent, unsent, thrown>>
             /\ \A k : Awaited(k) => Awaited(k)'
  <2> DEFINE c == [ledger |-> l, at |-> "acquired"]
  <2>1. c \in checks' /\ c.ledger = l /\ c.at = "acquired"
    BY <1>3 DEF acquired
  <2>2. \A k : Awaited(k) => Awaited(k)'
    BY <1>3, <2>1, Zenon DEF acquired, WakesAdvance, Awaited
  <2>3. OtherType'
    BY <1>0, <1>3 DEF acquired, OtherType
  <2> QED BY <1>0, <1>3, <2>2, <2>3 DEF acquired, OtherType
<1>4. ASSUME NEW l \in Ledgers, acquireFails(l) \/ sweep(l)
      PROVE  /\ OtherType'
             /\ UNCHANGED <<validLedger, pubLedger, advanceVars, sent, unsent, thrown>>
             /\ \A k : Awaited(k) => Awaited(k)'
  <2>1. /\ UNCHANGED <<arrived, checks, builder>>
        /\ UNCHANGED <<validLedger, pubLedger, advanceVars, sent, unsent, thrown>>
        /\ acquiring \cup failed \cup swept \subseteq acquiring' \cup failed' \cup swept'
    BY <1>4 DEF acquireFails, sweep
  <2>2. OtherType'
    BY <1>0, <2>1 DEF OtherType
  <2>3. \A k : Awaited(k) => Awaited(k)'
    BY <2>1, Zenon DEF WakesAdvance, Awaited
  <2> QED BY <2>1, <2>2, <2>3
<1>6. ASSUME NEW l \in Ledgers, handleWrongLedger(l)
      PROVE  /\ OtherType'
             /\ UNCHANGED <<validLedger, pubLedger, advanceVars, sent, unsent, thrown>>
             /\ \A k : Awaited(k) => Awaited(k)'
  <2>1. /\ UNCHANGED <<arrived, checks, failed>>
        /\ UNCHANGED <<validLedger, pubLedger, advanceVars, sent, unsent, thrown>>
        /\ acquire({l})
        /\ builder' \in {builder, [at |-> "reopened", ledger |-> l]}
    BY Zenon, <1>6 DEF handleWrongLedger
  <2>2. OtherType'
    BY <1>0, <2>1 DEF OtherType
  <2>3. \A k : Awaited(k) => Awaited(k)'
    BY <2>1, AcquireAwaits, Zenon
  <2> QED BY <2>1, <2>2, <2>3
<1>7. ASSUME NEW l \in Ledgers, consensusBuilt(l)
      PROVE  /\ OtherType'
             /\ UNCHANGED <<validLedger, pubLedger, advanceVars, sent, unsent, thrown>>
             /\ \A k : Awaited(k) => Awaited(k)'
  <2>1. /\ UNCHANGED <<arrived, checks, acquiring, failed, swept>>
        /\ UNCHANGED <<validLedger, pubLedger, advanceVars, sent, unsent, thrown>>
        /\ builder' \in [at : {"switch", "check"}, ledger : {l}]
    BY <1>7 DEF consensusBuilt
  <2>2. OtherType'
    BY <1>0, <2>1 DEF OtherType
  <2>3. \A k : Awaited(k) => Awaited(k)'
    BY <2>1, Zenon DEF WakesAdvance, Awaited
  <2> QED BY <2>1, <2>2, <2>3
<1>8. ASSUME onClose
      PROVE  /\ OtherType'
             /\ UNCHANGED <<validLedger, pubLedger, advanceVars, sent, unsent, thrown>>
             /\ \A k : Awaited(k) => Awaited(k)'
  BY <1>0, <1>8 DEF onClose, OtherType, WakesAdvance, Awaited
<1>9. ASSUME checkSaved
      PROVE  /\ OtherType'
             /\ UNCHANGED <<validLedger, pubLedger, advanceVars, sent, unsent, thrown>>
             /\ \A k : Awaited(k) => Awaited(k)'
  <2>1. \E l \in Ledgers : checks' \in {checks, checks \cup {[ledger |-> l, at |-> "count"]}}
    BY <1>0, <1>9, Zenon DEF checkSaved, startCheck, sufficient, OtherType
  <2>2. /\ checks \subseteq checks'
        /\ checks' \subseteq [ledger : Ledgers, at : {"count", "accept", "acquired"}]
    <3>1. PICK l \in Ledgers : checks' \in {checks, checks \cup {[ledger |-> l, at |-> "count"]}}
      BY <2>1
    <3>2. [ledger |-> l, at |-> "count"] \in [ledger : Ledgers, at : {"count", "accept", "acquired"}]
      OBVIOUS
    <3> QED BY <1>0, <3>1, <3>2 DEF OtherType
  <2> QED BY <1>0, <1>9, <2>2 DEF checkSaved, OtherType, WakesAdvance, Awaited
<1> QED BY <1>1, <1>2, <1>3, <1>4, <1>6, <1>7, <1>8, <1>9 DEF inboundStep

\* Handlers that call checkAccept(ledger).
LEMMA AcceptSteps ==
    ASSUME IInv,
           \/ \E c \in checks : acceptLedger(c) \/ acquisitionDone(c)
           \/ checkBuilt \/ switchLCL \/ endConsensus
    PROVE  /\ OtherType' /\ UNCHANGED <<sent, unsent, thrown>>
           /\ \/ /\ \E l \in Ledgers : checkAccept(l)
                 /\ \/ \A k : Awaited(k) => Awaited(k)'
                    \/ advanceWork' /\ advance'.at # "none"
              \/ /\ UNCHANGED <<validLedger, pubLedger, advanceVars>>
                 /\ \A k : Awaited(k) => Awaited(k)'
              \/ tryAdvance(validLedger) /\ UNCHANGED <<validLedger, pubLedger>>
<1> USE DEF acceptVars, inboundVars, publishVars, buildVars
<1>0. OtherType
  BY DEF IInv, MasterType, OtherType
<1>1. ASSUME NEW c \in checks, acceptLedger(c)
      PROVE  /\ OtherType' /\ UNCHANGED <<sent, unsent, thrown>>
             /\ checkAccept(c.ledger) /\ c.ledger \in Ledgers
             /\ \A k : Awaited(k) => Awaited(k)'
  BY Zenon, <1>0, <1>1 DEF acceptLedger, endCheck, OtherType, WakesAdvance, Awaited
<1>2. ASSUME NEW c \in checks, acquisitionDone(c)
      PROVE  /\ OtherType' /\ UNCHANGED <<sent, unsent, thrown>>
             /\ \/ checkAccept(c.ledger) /\ c.ledger \in Ledgers /\ advanceWork' /\ advance'.at # "none"
                \/ tryAdvance(validLedger) /\ UNCHANGED <<validLedger, pubLedger>>
  <2>1. c.ledger \in Ledgers /\ Seq0(c.ledger) = SeqOf[c.ledger]
    BY <1>0, Sequences DEF OtherType
  <2>2. OtherType' /\ UNCHANGED <<sent, unsent, thrown>>
    <3>1. checks' \subseteq checks /\ UNCHANGED <<arrived, builder, sent, unsent, thrown>>
      BY <1>2 DEF acquisitionDone, endCheck
    <3> QED BY <1>0, <3>1 DEF OtherType
  <2>3. CASE SeqOf[c.ledger] <= validSeq \/ getTrustedValidationCount(c.ledger) < Quorum
    <3>1. tryAdvance(validLedger) /\ UNCHANGED <<validLedger, pubLedger>>
      BY <1>2, <2>3, Zenon DEF acquisitionDone
    <3> QED BY <2>2, <3>1
  <2>4. CASE ~(SeqOf[c.ledger] <= validSeq \/ getTrustedValidationCount(c.ledger) < Quorum)
    <3>1. checkAccept(c.ledger)
      BY <1>2, <2>4 DEF acquisitionDone
    <3>2. tryAdvance(c.ledger)
      BY <2>1, <2>4, <3>1 DEF checkAccept
    <3>3. c.ledger # NoLedger
      BY <2>1, Sequences
    <3>4. advanceWork' /\ advance'.at # "none"
      BY <3>2, <3>3 DEF tryAdvance, NoAdvance
    <3> QED BY <2>1, <2>2, <3>1, <3>4, ZenonT(60)
  <2> QED BY ZenonT(60), <2>3, <2>4
<1>3. ASSUME endConsensus
      PROVE  /\ OtherType' /\ UNCHANGED <<sent, unsent, thrown>>
             /\ (\E l \in Ledgers : checkAccept(l)) \/ UNCHANGED <<validLedger, pubLedger, advanceVars>>
             /\ \A k : Awaited(k) => Awaited(k)'
  <2>1. PICK l \in Ledgers : checkLastClosedLedger(l)
    BY <1>3, Zenon DEF endConsensus, preferredLedgers
  <2>2. /\ UNCHANGED <<arrived, checks, failed, sent, unsent, thrown>>
        /\ acquire({l}) \/ UNCHANGED <<acquiring, swept>>
        /\ checkAccept(l) \/ UNCHANGED <<validLedger, pubLedger, advanceVars>>
        /\ builder' \in {[builder EXCEPT !.at = "open"], [at |-> "open", ledger |-> l]}
    BY <1>3, <2>1, Zenon DEF endConsensus, checkLastClosedLedger, switchLastClosedLedger
  <2>3. OtherType'
    BY <1>0, <2>2 DEF OtherType
  <2>4. \A k : Awaited(k) => Awaited(k)'
    BY <2>2, AcquireAwaits, Zenon DEF WakesAdvance, Awaited
  <2> QED BY <2>2, <2>3, <2>4
<1>4. ASSUME checkBuilt \/ switchLCL
      PROVE  /\ OtherType' /\ UNCHANGED <<sent, unsent, thrown>>
             /\ checkAccept(builder.ledger) /\ builder.ledger \in Ledgers
             /\ \A k : Awaited(k) => Awaited(k)'
  <2>1. CASE checkBuilt
    BY <1>0, <2>1 DEF checkBuilt, OtherType, WakesAdvance, Awaited
  <2>2. CASE switchLCL
    BY <1>0, <2>2 DEF switchLCL, OtherType, WakesAdvance, Awaited
  <2> QED BY <1>4, <2>1, <2>2
<1> QED BY <1>1, <1>2, <1>3, <1>4, Zenon

\* Every handler and every step of the advance job keeps the invariant.
THEOREM StepIInv == IInv /\ [Next]_vars => IInv'
<1> SUFFICES ASSUME IInv, [Next]_vars PROVE IInv'
  OBVIOUS
<1>0. MasterType /\ JobType /\ OtherType /\ Publishing /\ JobIsFresh
  BY DEF IInv, MasterType, OtherType, Publishing
<1> DEFINE Others == \/ \E m \in Messages : addValidation(m)
                     \/ \E c \in checks : countValidations(c)
                     \/ \E l \in Ledgers : inboundStep(l) \/ sweep(l)
                     \/ \E l \in Ledgers : handleWrongLedger(l) \/ consensusBuilt(l)
                     \/ onClose \/ checkSaved
           Accepts == \/ \E c \in checks : acceptLedger(c) \/ acquisitionDone(c)
                      \/ checkBuilt \/ switchLCL \/ endConsensus
<1>1. SUFFICES JobType' /\ OtherType' /\ Publishing' /\ JobIsFresh'
  BY DEF IInv, MasterType, OtherType, Publishing
<1>2. CASE Others
  <2>1. /\ OtherType'
        /\ UNCHANGED <<validLedger, pubLedger, advanceVars, sent, unsent, thrown>>
        /\ \A l : Awaited(l) => Awaited(l)'
    BY <1>2, OtherSteps DEF OtherType
  <2>2. JobType' /\ Publishing'
    BY <1>0, <2>1, OthersPublish
  <2>3. JobIsFresh'
    BY <1>0, <2>1, OthersStayFresh
  <2> QED BY <2>1, <2>2, <2>3
<1>3. CASE Accepts
  <2>1. /\ OtherType' /\ UNCHANGED <<sent, unsent, thrown>>
        /\ \/ /\ \E l \in Ledgers : checkAccept(l)
              /\ \/ \A k : Awaited(k) => Awaited(k)'
                 \/ advanceWork' /\ advance'.at # "none"
           \/ /\ UNCHANGED <<validLedger, pubLedger, advanceVars>>
              /\ \A k : Awaited(k) => Awaited(k)'
           \/ tryAdvance(validLedger) /\ UNCHANGED <<validLedger, pubLedger>>
    BY <1>3, AcceptSteps, Zenon
  <2>2. ASSUME UNCHANGED <<validLedger, pubLedger, advanceVars>>,
               \A k : Awaited(k) => Awaited(k)'
        PROVE  JobType' /\ Publishing' /\ JobIsFresh'
    <3>1. JobType' /\ Publishing'
      BY <1>0, <2>1, <2>2, OthersPublish
    <3>2. JobIsFresh'
      BY <1>0, <2>1, <2>2, OthersStayFresh
    <3> QED BY <3>1, <3>2
  <2>4. ASSUME NEW l \in Ledgers, checkAccept(l),
               \/ \A k : Awaited(k) => Awaited(k)'
               \/ advanceWork' /\ advance'.at # "none"
        PROVE  JobType' /\ Publishing' /\ JobIsFresh'
    <3>1. /\ JobType' /\ Publishing'
          /\ \/ UNCHANGED <<validLedger, pubLedger, advanceVars>>
             \/ advanceWork' /\ advance'.at # "none"
      BY <1>0, <2>1, <2>4, AcceptPublishes
    <3>2. CASE advanceWork' /\ advance'.at # "none"
      BY <3>1, <3>2 DEF JobIsFresh
    <3>3. CASE ~(advanceWork' /\ advance'.at # "none")
      BY <2>2, <2>4, <3>1, <3>3
    <3> QED BY <3>2, <3>3
  <2>5. ASSUME tryAdvance(validLedger), UNCHANGED <<validLedger, pubLedger>>
        PROVE  JobType' /\ Publishing' /\ JobIsFresh'
    <3>1. CASE validLedger # NoLedger
      <4>1. JobType' /\ Publishing' /\ advanceWork' /\ advance'.at # "none"
        BY <1>0, <2>1, <2>5, <3>1, TryAdvancePublishes
      <4> QED BY <4>1 DEF JobIsFresh
    <3>2. CASE validLedger = NoLedger
      <4>1. advance' = advance /\ advanceWork' = TRUE
        BY Zenon, <2>5, <3>2 DEF tryAdvance
      <4>2. JobType' /\ Publishing'
        BY ZenonT(60), <1>0, <2>1, <2>5, <4>1
           DEF JobType, Publishing, OnChain, JobOnChain, LastSent, Follows, SentInOrder, Skipping
      <4>3. validSeq' <= pubSeq'
        BY <1>0, <2>5, <3>2, Sequences DEF Publishing, OnChain, validSeq, pubSeq
      <4> QED BY <4>1, <4>2, <4>3 DEF JobIsFresh
    <3> QED BY <3>1, <3>2
  <2> QED BY <2>1, <2>2, <2>4, <2>5
<1>4. CASE advanceStep
  <2>1. OtherType'
    BY <1>0, <1>4, Zenon DEF advanceStep, findNewLedgersToPublish, fetchLedgers, publishLedger,
          skipHistory, fetchHistory, advanceThrows, OtherType, buildVars
  <2>2. JobType' /\ Publishing' /\ JobIsFresh'
    BY <1>0, <1>4, FindKeeps, FetchPublishes, FetchStaysFresh, PublishKeeps, HistoryKeeps, ThrowKeeps
       DEF advanceStep
  <2> QED BY <2>1, <2>2
<1>5. CASE UNCHANGED vars
  <2>1. /\ UNCHANGED <<validLedger, pubLedger, advanceVars, sent, unsent, thrown>>
        /\ UNCHANGED <<arrived, checks, builder, failed, acquiring, swept>>
    BY <1>5 DEF vars, masterVars, acceptVars, inboundVars, publishVars, buildVars
  <2>2. OtherType' /\ \A k : Awaited(k) => Awaited(k)'
    BY <1>0, <2>1 DEF OtherType, WakesAdvance, Awaited
  <2>3. JobType' /\ Publishing'
    BY <1>0, <2>1, OthersPublish
  <2>5. JobIsFresh'
    BY <1>0, <2>1, <2>2, OthersStayFresh
  <2> QED BY <2>2, <2>3, <2>5
<1>6. [Next]_vars => Others \/ Accepts \/ advanceStep \/ UNCHANGED vars
  BY DEF Next, checkStep, builtStep
<1> QED BY <1>2, <1>3, <1>4, <1>5, <1>6, Zenon

\* The invariant holds in every behaviour.
LEMMA AlwaysIInv == Spec => []IInv
BY InitIInv, StepIInv, PTL DEF Spec

-----------------------------------------------------------------------------
(* The theorems *)

(* pubLedger gives the clients each ledger after its parent, whatever the  *)
(* order of acquisitions and validations; only a gap of more than          *)
(* MAX_LEDGER_GAP ledgers is skipped (doAdvance), and ledgers on which     *)
(* NetworkOPs::pubLedger threw.                                            *)
THEOREM AlwaysSentInOrder == Spec => []SentInOrder
<1>1. IInv => SentInOrder
  BY DEF IInv
<1> QED BY <1>1, AlwaysIInv, PTL

(* mAdvanceWork and mAdvanceThread lose no call of tryAdvance: when the    *)
(* advance job has ended before the valid ledger is published, the next    *)
(* ledger is being acquired, or its own last acquisition failed or was     *)
(* swept, or an exception cut the last pass of that job short.             *)
THEOREM AdvanceNeverLost == Spec => []NoLostAdvance
<1>1. IInv => NoLostAdvance
  <2> SUFFICES ASSUME IInv, advance.at = "none", validSeq > pubSeq
               PROVE  thrown \/ Awaited(hashOfSeq(validLedger, pubSeq + 1))
    BY Zenon DEF NoLostAdvance, Awaited
  <2>1. ~(validSeq <= pubSeq)
    BY Sequences DEF IInv, MasterType, JobType, validSeq, pubSeq
  <2> QED BY <2>1 DEF IInv, JobIsFresh
<1> QED BY <1>1, AlwaysIInv, PTL

(* Whichever thread calls checkAccept first, the valid ledger only moves   *)
(* to a descendant of itself that has a quorum of validations.             *)
THEOREM ValidatedAlwaysForward == Spec => ValidatedForward
<1> DEFINE Forward == validLedger' # validLedger =>
              /\ validLedger # NoLedger => validLedger \in Chain[validLedger'] \ {validLedger'}
              /\ getTrustedValidationCount(validLedger') >= Quorum
<1>1. IInv /\ [Next]_vars => [Forward]_vars
  <2> SUFFICES ASSUME IInv, Next, validLedger' # validLedger
               PROVE  Forward
    BY DEF vars, masterVars, acceptVars
  <2>1. PICK l \in Ledgers : checkAccept(l)
    <3>1. \/ \E c \in checks : acceptLedger(c) \/ acquisitionDone(c)
          \/ checkBuilt \/ switchLCL \/ endConsensus
      <4>1. advanceStep => validLedger' = validLedger
        BY Zenon DEF advanceStep, findNewLedgersToPublish, fetchLedgers, publishLedger,
               skipHistory, fetchHistory, advanceThrows, acceptVars
      <4> QED BY <4>1, OtherSteps DEF Next, checkStep, builtStep
    <3> QED BY <3>1, AcceptSteps
  <2>2. /\ validLedger' = l /\ getTrustedValidationCount(l) >= Quorum
        /\ validLedger # NoLedger => validLedger \in Chain[l] \ {l}
    BY <2>1, AcceptedOnChain DEF IInv
  <2> QED BY <2>2
<1>2. ValidatedForward <=> [][Forward]_vars
  BY DEF ValidatedForward
<1> QED BY <1>1, <1>2, AlwaysIInv, PTL DEF Spec

-----------------------------------------------------------------------------
(* Validations that were set aside *)

\* What will look at ledger l again: a check, the round that is building its
\* sequence, or the searches after that round, of which the last one,
\* checkLastClosedLedger, no longer looks at the ledger we built.
LookedAfter(l) ==
    \/ \E c \in checks : c.ledger = l
    \/ SeqOf[l] \in abandoned
    \/ buildingSeq = SeqOf[l]
    \/ builder.at \in {"check", "collect", "switch"} /\ SeqOf[builder.ledger] = SeqOf[l]
    \/ builder.at = "ended" /\ SeqOf[builder.ledger] = SeqOf[l] /\ l # builder.ledger

\* mLastValidLedger has a quorum, or is the ledger we started from.
LastValidInv ==
    lastValid # NoLedger =>
        /\ lastValid \in Ledgers
        /\ Validated(lastValid) \/ (Parent[lastValid] = NoLedger /\ SeqOf[lastValid] <= validSeq)

\* A round that is left without an abandoned sequence is over.
SavedInv ==
    /\ builder.at = "building" => buildingSeq = SeqOf[builder.ledger] + 1
    /\ builder.at = "building" \/ buildingSeq = 0 \/ buildingSeq \in abandoned
    /\ \A l \in Ledgers : Overlooked(l) => LookedAfter(l)

LEMMA ValidSeqIsNat ==
    /\ MasterType => validSeq \in Nat
    /\ MasterType' => validSeq' \in Nat
<1>1. \A l \in Ledgers \cup {NoLedger} : Seq0(l) \in Nat
  BY Sequences
<1>2. ASSUME MasterType PROVE validSeq \in Nat
  <2>1. validLedger \in Ledgers \cup {NoLedger}
    BY <1>2 DEF MasterType, JobType
  <2> QED BY <1>1, <2>1 DEF validSeq
<1>3. ASSUME MasterType' PROVE validSeq' \in Nat
  <2>1. validLedger' \in Ledgers \cup {NoLedger}
    BY <1>3 DEF MasterType, JobType
  <2>2. validSeq' = Seq0(validLedger')
    BY DEF validSeq, Seq0
  <2> QED BY <1>1, <2>1, <2>2
<1> QED BY <1>2, <1>3

LEMMA CountsFinite ==
    ASSUME MasterType, NEW l
    PROVE  /\ IsFiniteSet(CurrentFor(l)) /\ Cardinality(CurrentFor(l)) \in Nat
           /\ getTrustedValidationCount(l) \in Nat
           /\ Cardinality(CurrentFor(l)) <= getTrustedValidationCount(l)
<1> DEFINE a == {m \in arrived : m.ledger = l}
<1>1. IsFiniteSet(a)
  BY QuorumsAgree, FS_Subset DEF MasterType
<1>2. CurrentFor(l) \subseteq a
  BY DEF CurrentFor, currentTrusted
<1>3. Cardinality(a) = getTrustedValidationCount(l)
  BY DEF getTrustedValidationCount
<1> HIDE DEF a
<1> QED BY <1>1, <1>2, <1>3, FS_Subset, FS_CardinalityType

\* Of one validation per validator, two sets of a quorum each meet.
LEMMA QuorumsIntersect ==
    ASSUME NEW a \in SUBSET Messages, NEW b \in SUBSET Messages,
           \A m, i \in a \cup b : m.node = i.node => m = i,
           Cardinality(a) >= Quorum, Cardinality(b) >= Quorum
    PROVE  a \cap b # {}
<1> SUFFICES ASSUME a \cap b = {} PROVE FALSE
  OBVIOUS
<1> DEFINE u == a \cup b
           voters == {m.node : m \in u}
           nodes == {m.node : m \in Messages}
           f == [m \in u |-> m.node]
           g == [m \in Messages |-> m.node]
<1>1. /\ IsFiniteSet(a) /\ IsFiniteSet(b)
      /\ Cardinality(a) \in Nat /\ Cardinality(b) \in Nat
  BY QuorumsAgree, FS_Subset, FS_CardinalityType
<1>2. IsFiniteSet(u) /\ Cardinality(u) = Cardinality(a) + Cardinality(b)
  <2>1. Cardinality(a \cap b) = 0
    BY FS_EmptySet
  <2>2. IsFiniteSet(u) /\ Cardinality(u) = Cardinality(a) + Cardinality(b) - Cardinality(a \cap b)
    BY <1>1, FS_Union
  <2> QED BY <1>1, <2>1, <2>2
<1>3. f \in Surjection(u, voters) /\ f \in Injection(u, voters)
  <2>1. f \in Surjection(u, voters)
    BY DEF Surjection
  <2>2. f \in Injection(u, voters)
    BY DEF Injection, IsInjective
  <2> QED BY <2>1, <2>2
<1>4. g \in Surjection(Messages, nodes)
  BY DEF Surjection
<1>5. voters \subseteq nodes
  OBVIOUS
<1>6. Cardinality(nodes) < 2 * Quorum /\ Quorum \in Nat
  BY QuorumsMeet, LedgersAssumption
<1> HIDE DEF u, voters, nodes, f, g
<1>7. IsFiniteSet(voters) /\ Cardinality(voters) = Cardinality(u)
  BY <1>2, <1>3, FS_Surjection
<1>8. IsFiniteSet(nodes) /\ Cardinality(nodes) \in Nat
  BY <1>4, QuorumsAgree, FS_Surjection, FS_CardinalityType
<1>9. Cardinality(voters) <= Cardinality(nodes)
  BY <1>5, <1>8, FS_Subset
<1> QED BY <1>1, <1>2, <1>6, <1>7, <1>8, <1>9

\* One ledger of a sequence has a quorum at most.
LEMMA OneValidated ==
    ASSUME NEW l \in Ledgers, NEW k \in Ledgers, SeqOf[l] = SeqOf[k], Validated(l), Validated(k)
    PROVE  l = k
<1> DEFINE a == {m \in Messages : m.ledger = l}
           b == {m \in Messages : m.ledger = k}
<1>1. a \in SUBSET Messages /\ b \in SUBSET Messages
  OBVIOUS
<1>2. \A m, i \in a \cup b : m.node = i.node => m = i
  BY LedgersAssumption
<1>3. Cardinality(a) >= Quorum /\ Cardinality(b) >= Quorum
  BY DEF Validated
<1>4. a \cap b # {} => l = k
  OBVIOUS
<1> HIDE DEF a, b
<1>5. a \cap b # {}
  BY <1>1, <1>2, <1>3, QuorumsIntersect
<1> QED BY <1>4, <1>5

\* The newest validations are of different validators.
LEMMA OneCurrent ==
    ASSUME MasterType, NEW m \in currentTrusted, NEW i \in currentTrusted, m.node = i.node
    PROVE  m = i
<1>1. m \in arrived /\ i \in arrived /\ newer(m) = {} /\ newer(i) = {}
  BY DEF currentTrusted
<1>2. m \in Messages /\ i \in Messages
  BY <1>1 DEF MasterType
<1>3. SeqOf[m.ledger] \in Nat /\ SeqOf[i.ledger] \in Nat
  BY <1>2, LedgersAssumption
<1>4. ~(SeqOf[m.ledger] > SeqOf[i.ledger]) /\ ~(SeqOf[i.ledger] > SeqOf[m.ledger])
  BY <1>1 DEF newer
<1>5. SeqOf[m.ledger] = SeqOf[i.ledger]
  BY <1>3, <1>4
<1> QED BY <1>2, <1>5, LedgersAssumption

\* checkLastClosedLedger prefers a ledger of the sequence we built that a
\* quorum of the current validations is for, if it is not the one we built.
LEMMA PrefersOverlooked ==
    ASSUME MasterType, NEW k \in Ledgers, Overlooked(k), SeqOf[k] = SeqOf[builder.ledger],
           k # builder.ledger, NEW slips \in SUBSET maySlip, NEW l \in preferredLedgers(slips)
    PROVE  l = k /\ k \notin {builder.ledger, Parent[builder.ledger]}
<1> DEFINE counted(j) == {m \in currentTrusted : SeqOf[m.ledger] >= validSeq /\ countsFor(m, slips) = j}
<1>0. builder.ledger \in Ledgers /\ validSeq \in Nat /\ SeqOf[k] \in Nat
  BY Sequences, ValidSeqIsNat DEF MasterType
<1>1. currentTrusted \subseteq arrived /\ currentTrusted \subseteq Messages
  BY DEF currentTrusted, MasterType
<1>2. k # Parent[builder.ledger]
  BY <1>0, Sequences
<1>3. CurrentFor(k) \subseteq counted(k)
  <2> SUFFICES ASSUME NEW m \in currentTrusted, m.ledger = k
               PROVE  SeqOf[m.ledger] >= validSeq /\ countsFor(m, slips) = k
    BY DEF CurrentFor
  <2>1. SeqOf[m.ledger] >= validSeq
    BY <1>0 DEF Overlooked
  <2>2. m \notin slips
    <3> SUFFICES ASSUME NEW i \in arrived, i.node = m.node, i.ledger = builder.ledger
                 PROVE  FALSE
      BY DEF maySlip
    <3>1. i \in Messages /\ m \in Messages
      BY <1>1 DEF MasterType
    <3>2. i = m
      BY <3>1, LedgersAssumption
    <3> QED BY <3>2
  <2> QED BY <1>2, <2>1, <2>2 DEF countsFor
<1>4. l \in Ledgers /\ Cardinality(counted(k)) <= Cardinality(counted(l))
  BY DEF preferredLedgers, trustedValidations
<1>5. counted(k) \subseteq currentTrusted /\ counted(l) \subseteq currentTrusted
  OBVIOUS
<1>6. counted(k) \cap counted(l) # {} => l = k
  OBVIOUS
<1>7. Cardinality(CurrentFor(k)) >= Quorum /\ Cardinality(CurrentFor(k)) \in Nat /\ Quorum \in Nat
  BY CountsFinite, LedgersAssumption DEF Overlooked
<1> HIDE DEF counted
<1>8. ASSUME NEW j \in {k, l}
      PROVE  IsFiniteSet(counted(j)) /\ Cardinality(counted(j)) \in Nat
  <2>1. counted(j) \subseteq Messages
    BY <1>1, <1>5
  <2> QED BY <2>1, QuorumsAgree, FS_Subset, FS_CardinalityType
<1>9. Cardinality(CurrentFor(k)) <= Cardinality(counted(k))
  BY <1>3, <1>8, FS_Subset
<1>10. Cardinality(counted(k)) >= Quorum /\ Cardinality(counted(l)) >= Quorum
  BY <1>4, <1>7, <1>8, <1>9
<1>11. \A m, i \in counted(k) \cup counted(l) : m.node = i.node => m = i
  BY <1>5, OneCurrent
<1>12. counted(k) \cap counted(l) # {}
  BY <1>1, <1>5, <1>10, <1>11, QuorumsIntersect
<1> QED BY <1>2, <1>6, <1>12

\* It is compatible with the ledgers we know to be valid.
LEMMA OverlookedIsCompatible ==
    ASSUME MasterType, OnChain, LastValidInv, NEW k \in Ledgers, Overlooked(k)
    PROVE  isCompatible(k)
<1>0. validSeq \in Nat /\ SeqOf[k] \in Nat /\ SeqOf[k] > validSeq
  BY Sequences, ValidSeqIsNat DEF Overlooked
<1>1. Validated(k)
  <2>1. getTrustedValidationCount(k) >= Quorum
    BY CountsFinite, LedgersAssumption DEF Overlooked
  <2> QED BY <2>1, QuorumIsValidated
<1>2. ASSUME validLedger # NoLedger PROVE validLedger \in Chain[k]
  <2>1. validLedger \in Ledgers /\ SeqOf[validLedger] < SeqOf[k]
    BY <1>0, <1>2, Sequences DEF MasterType, JobType, validSeq
  <2> QED BY <1>1, <1>2, <2>1, QuorumsAgree DEF OnChain
<1>3. ASSUME lastValid # NoLedger, SeqOf[k] >= SeqOf[lastValid] PROVE lastValid \in Chain[k]
  <2>1. lastValid \in Ledgers /\ SeqOf[lastValid] \in Nat
    BY <1>3, Sequences DEF LastValidInv
  <2>2. CASE SeqOf[lastValid] < SeqOf[k]
    BY <1>1, <1>3, <2>1, <2>2, QuorumsAgree DEF LastValidInv
  <2>3. CASE SeqOf[lastValid] = SeqOf[k]
    <3>1. Validated(lastValid)
      BY <1>0, <1>3, <2>3 DEF LastValidInv
    <3>2. lastValid = k
      BY <1>1, <2>1, <2>3, <3>1, OneValidated
    <3> QED BY <3>2, ChainBasics
  <2> QED BY <1>0, <1>3, <2>1, <2>2, <2>3
<1> QED BY <1>2, <1>3 DEF isCompatible

\* checkAccept never lowers the valid sequence, and reaches that of a ledger
\* with a quorum.
LEMMA AcceptRaises ==
    ASSUME MasterType, NEW l \in Ledgers, checkAccept(l)
    PROVE  /\ validSeq \in Nat /\ validSeq' \in Nat /\ validSeq' >= validSeq
           /\ Cardinality(CurrentFor(l)) >= Quorum => SeqOf[l] <= validSeq'
<1>1. SeqOf[l] \in Nat /\ Seq0(l) = SeqOf[l] /\ validSeq \in Nat
  BY Sequences DEF MasterType, JobType, validSeq
<1>2. CASE Seq0(l) <= validSeq \/ getTrustedValidationCount(l) < Quorum
  <2>1. validSeq' = validSeq
    BY <1>2 DEF checkAccept, validSeq
  <2>2. ASSUME Cardinality(CurrentFor(l)) >= Quorum
        PROVE  ~(getTrustedValidationCount(l) < Quorum)
    BY <2>2, CountsFinite, LedgersAssumption
  <2> QED BY <1>1, <1>2, <2>1, <2>2
<1>3. CASE ~(Seq0(l) <= validSeq \/ getTrustedValidationCount(l) < Quorum)
  <2>1. validSeq' = SeqOf[l]
    BY <1>1, <1>3 DEF checkAccept, validSeq, Seq0
  <2> QED BY <1>1, <1>3, <2>1
<1> QED BY <1>2, <1>3

\* Nothing is overlooked that was not before.
LEMMA NoneOverlooked ==
    ASSUME UNCHANGED arrived, have' \subseteq have, validSeq \in Nat, validSeq' \in Nat,
           validSeq' >= validSeq, NEW l \in Ledgers, Overlooked(l)'
    PROVE  Overlooked(l)
<1>1. l \in have /\ SeqOf[l] > validSeq' /\ SeqOf[l] \in Nat
  BY Sequences DEF Overlooked
<1>2. CurrentFor(l)' = CurrentFor(l)
  BY DEF CurrentFor, currentTrusted, newer
<1>3. Cardinality(CurrentFor(l)) >= Quorum
  BY <1>2 DEF Overlooked
<1>4. SeqOf[l] > validSeq
  BY <1>1
<1> QED BY <1>1, <1>3, <1>4 DEF Overlooked

\* Handlers that leave the consensus thread alone and lose no check of a
\* ledger that is not yet valid.
LEMMA OthersKeepSaved ==
    ASSUME SavedInv, UNCHANGED <<arrived, buildVars>>, have' \subseteq have,
           validSeq \in Nat, validSeq' \in Nat, validSeq' >= validSeq,
           \A c \in checks :
              \/ \E d \in checks' : d.ledger = c.ledger
              \/ SeqOf[c.ledger] = buildingSeq
              \/ ~Overlooked(c.ledger)'
    PROVE  SavedInv'
<1>1. UNCHANGED <<buildingSeq, builder, abandoned>>
  BY DEF buildVars
<1>2. ASSUME NEW l \in Ledgers, Overlooked(l)'
      PROVE  LookedAfter(l)'
  <2>1. LookedAfter(l)
    BY <1>2, NoneOverlooked DEF SavedInv
  <2>2. CASE \E c \in checks : c.ledger = l
    BY <1>1, <1>2, <2>2 DEF LookedAfter
  <2>3. CASE ~\E c \in checks : c.ledger = l
    BY <1>1, <2>1, <2>3 DEF LookedAfter
  <2> QED BY <2>2, <2>3
<1> QED BY <1>1, <1>2 DEF SavedInv

LEMMA AddKeepsSaved ==
    ASSUME MasterType, MasterType', SavedInv, NEW m \in Messages, addValidation(m)
    PROVE  SavedInv'
<1>1. /\ UNCHANGED <<validLedger, have, buildingSeq, builder, abandoned>>
      /\ arrived' = arrived \cup {m} /\ checks \subseteq checks'
      /\ newer(m) = {} => [ledger |-> m.ledger, at |-> "count"] \in checks'
  BY DEF addValidation, startCheck, acceptVars, inboundVars, buildVars
<1>2. ASSUME NEW l \in Ledgers, Overlooked(l)'
      PROVE  LookedAfter(l)'
  <2>1. CASE newer(m) = {} /\ m.ledger = l
    BY <1>1, <2>1 DEF LookedAfter
  <2>2. CASE ~(newer(m) = {} /\ m.ledger = l)
    <3>1. CurrentFor(l)' \subseteq CurrentFor(l)
      BY <1>1, <2>2 DEF CurrentFor, currentTrusted, newer
    <3>2. Cardinality(CurrentFor(l)') <= Cardinality(CurrentFor(l))
      BY <3>1, CountsFinite, FS_Subset
    <3>3. Cardinality(CurrentFor(l)') >= Quorum /\ SeqOf[l] > validSeq /\ l \in have
      BY <1>1, <1>2 DEF Overlooked, validSeq
    <3>4. Cardinality(CurrentFor(l)) \in Nat /\ Cardinality(CurrentFor(l)') \in Nat
      BY <3>1, CountsFinite, FS_Subset, FS_CardinalityType
    <3>5. Overlooked(l)
      BY <3>2, <3>3, <3>4, LedgersAssumption DEF Overlooked
    <3>6. LookedAfter(l)
      BY <3>5 DEF SavedInv
    <3> QED BY <1>1, <3>6 DEF LookedAfter
  <2> QED BY <2>1, <2>2
<1> QED BY <1>1, <1>2 DEF SavedInv

LEMMA CheckKeepsSaved ==
    ASSUME MasterType, MasterType', SavedInv, NEW c \in checks, checkStep(c)
    PROVE  SavedInv'
<1>0. c.ledger \in Ledgers /\ SeqOf[c.ledger] \in Nat /\ validSeq \in Nat /\ validSeq' \in Nat
  <2>1. c.ledger \in Ledgers
    BY DEF MasterType
  <2> QED BY <2>1, Sequences, ValidSeqIsNat
<1>1. ASSUME countValidations(c) PROVE SavedInv'
  <2>1. UNCHANGED <<arrived, buildVars, validSeq, have>>
    BY <1>1 DEF countValidations, validSeq
  <2>2. ASSUME NEW d \in checks
        PROVE  \/ \E e \in checks' : e.ledger = d.ledger
               \/ SeqOf[d.ledger] = buildingSeq
               \/ ~Overlooked(d.ledger)'
    <3>1. CASE d # c
      BY <1>1, <3>1 DEF countValidations, endCheck, moveCheck
    <3>2. CASE d = c /\ (SeqOf[c.ledger] <= validSeq \/ SeqOf[c.ledger] = buildingSeq)
      BY <1>0, <2>1, <3>2 DEF Overlooked
    <3>3. CASE d = c /\ ~(SeqOf[c.ledger] <= validSeq \/ SeqOf[c.ledger] = buildingSeq)
      <4>1. CASE c.ledger \in have
        <5>1. [c EXCEPT !.at = "accept"] \in checks'
          BY Zenon, <1>1, <3>3, <4>1 DEF countValidations, moveCheck
        <5>2. [c EXCEPT !.at = "accept"].ledger = c.ledger
          BY DEF MasterType
        <5> QED BY <3>3, <5>1, <5>2
      <4>2. CASE c.ledger \notin have
        BY <2>1, <3>3, <4>2 DEF Overlooked
      <4> QED BY <4>1, <4>2
    <3> QED BY <3>1, <3>2, <3>3
  <2> QED BY <1>0, <2>1, <2>2, OthersKeepSaved
<1>2. ASSUME acceptLedger(c) \/ acquisitionDone(c) PROVE SavedInv'
  <2>1. UNCHANGED <<arrived, buildVars, have>> /\ checks' = checks \ {c}
    BY <1>2 DEF acceptLedger, acquisitionDone, endCheck, inboundVars
  <2>2. validSeq' >= validSeq /\ (Cardinality(CurrentFor(c.ledger)) >= Quorum => SeqOf[c.ledger] <= validSeq')
    <3>1. CASE checkAccept(c.ledger)
      BY <1>0, <3>1, AcceptRaises
    <3>2. CASE ~checkAccept(c.ledger)
      <4>1. /\ SeqOf[c.ledger] <= validSeq \/ getTrustedValidationCount(c.ledger) < Quorum
            /\ validSeq' = validSeq
        BY <1>2, <3>2 DEF acceptLedger, acquisitionDone, validSeq
      <4>2. Cardinality(CurrentFor(c.ledger)) >= Quorum => ~(getTrustedValidationCount(c.ledger) < Quorum)
        BY CountsFinite, LedgersAssumption
      <4> QED BY <1>0, <4>1, <4>2
    <3> QED BY <3>1, <3>2
  <2>3. CurrentFor(c.ledger)' = CurrentFor(c.ledger)
    BY <2>1 DEF CurrentFor, currentTrusted, newer
  <2>4. ~Overlooked(c.ledger)'
    BY <1>0, <2>2, <2>3 DEF Overlooked
  <2>5. \A d \in checks : d \in checks' \/ d = c
    BY <2>1
  <2> QED BY <1>0, <2>1, <2>2, <2>4, <2>5, OthersKeepSaved
<1> QED BY <1>1, <1>2 DEF checkStep

LEMMA InboundKeepsSaved ==
    ASSUME MasterType, MasterType', SavedInv, NEW l \in Ledgers, inboundStep(l) \/ sweep(l)
    PROVE  SavedInv'
<1>0. validSeq \in Nat
  BY ValidSeqIsNat
<1>1. CASE acquired(l)
  <2>1. /\ UNCHANGED <<arrived, buildingSeq, builder, abandoned, validLedger>>
        /\ have' = have \cup {l} /\ checks' = checks \cup {[ledger |-> l, at |-> "acquired"]}
    BY <1>1 DEF acquired, acceptVars, buildVars
  <2>2. ASSUME NEW k \in Ledgers, Overlooked(k)'
        PROVE  LookedAfter(k)'
    <3>1. CASE k = l
      <4>1. [ledger |-> l, at |-> "acquired"] \in checks'
        BY <2>1
      <4> QED BY <3>1, <4>1 DEF LookedAfter
    <3>2. CASE k # l
      <4>1. CurrentFor(k)' = CurrentFor(k) /\ validSeq' = validSeq
        BY <2>1 DEF CurrentFor, currentTrusted, newer, validSeq
      <4>2. Overlooked(k)
        BY <2>1, <2>2, <3>2, <4>1 DEF Overlooked
      <4>3. LookedAfter(k)
        BY <4>2 DEF SavedInv
      <4> QED BY <2>1, <4>3 DEF LookedAfter
    <3> QED BY <3>1, <3>2
  <2> QED BY <2>1, <2>2 DEF SavedInv
<1>2. CASE acquireFails(l) \/ sweep(l)
  <2>1. UNCHANGED <<arrived, buildVars, have, checks, validSeq>>
    BY <1>2 DEF acquireFails, sweep, validSeq, acceptVars
  <2> QED BY <1>0, <2>1, OthersKeepSaved
<1> QED BY <1>1, <1>2 DEF inboundStep

LEMMA BuilderKeepsSaved ==
    ASSUME MasterType, MasterType', OnChain, LastValidInv, SavedInv,
           \/ \E l \in Ledgers : handleWrongLedger(l) \/ consensusBuilt(l)
           \/ onClose \/ builtStep
    PROVE  SavedInv'
<1>0. validSeq \in Nat /\ validSeq' \in Nat /\ builder.ledger \in Ledgers
  BY ValidSeqIsNat DEF MasterType
<1>1. ASSUME NEW l \in Ledgers, handleWrongLedger(l) PROVE SavedInv'
  <2>1. UNCHANGED <<arrived, have, checks, buildingSeq, validSeq>>
    BY <1>1 DEF handleWrongLedger, acceptVars, validSeq
  <2>2. builder.at \notin {"check", "collect", "switch", "ended"}
    BY <1>1 DEF handleWrongLedger
  <2>3. CASE l \in have
    <3>1. /\ builder' = [at |-> "reopened", ledger |-> l]
          /\ abandoned' = abandoned \cup ({buildingSeq} \ {0})
      BY Zenon, <1>1, <2>3 DEF handleWrongLedger
    <3>2. ASSUME NEW k \in Ledgers, Overlooked(k)'
          PROVE  LookedAfter(k)'
      <4>1. LookedAfter(k)
        BY <1>0, <2>1, <3>2, NoneOverlooked DEF SavedInv
      <4> QED BY <2>1, <2>2, <3>1, <4>1 DEF LookedAfter
    <3> QED BY <2>1, <3>1, <3>2 DEF SavedInv
  <2>4. CASE l \notin have
    <3>1. UNCHANGED buildVars
      BY Zenon, <1>1, <2>4 DEF handleWrongLedger, buildVars
    <3> QED BY <1>0, <2>1, <3>1, OthersKeepSaved
  <2> QED BY <2>3, <2>4
<1>2. ASSUME endConsensus PROVE SavedInv'
  <2>0. PICK slips \in SUBSET maySlip :
          \E l \in preferredLedgers(slips) : checkLastClosedLedger(l)
    BY <1>2, Zenon DEF endConsensus
  <2>1. PICK l \in preferredLedgers(slips) : checkLastClosedLedger(l)
    BY <2>0, Zenon
  <2>2. /\ UNCHANGED <<arrived, have, checks, buildingSeq, abandoned>>
        /\ builder.at = "ended"
    BY <1>2 DEF endConsensus
  <2>3. l \in Ledgers
    BY Zenon DEF preferredLedgers
  <2>4. builder'.at = "open"
    <3>1. builder' \in {[builder EXCEPT !.at = "open"], [at |-> "open", ledger |-> l]}
      BY <2>1, Zenon DEF checkLastClosedLedger, switchLastClosedLedger
    <3> QED BY <3>1 DEF MasterType
  <2>5. validSeq' >= validSeq
    <3>1. CASE checkAccept(l)
      BY <2>3, <3>1, AcceptRaises
    <3>2. CASE ~checkAccept(l)
      <4>1. validSeq' = validSeq
        BY Zenon, <2>1, <3>2 DEF checkLastClosedLedger, switchLastClosedLedger, validSeq
      <4> QED BY <1>0, <4>1
    <3> QED BY <3>1, <3>2
  <2>6. ASSUME NEW k \in Ledgers, Overlooked(k)'
        PROVE  LookedAfter(k)'
    <3>1. Overlooked(k) /\ LookedAfter(k)
      BY <1>0, <2>2, <2>5, <2>6, NoneOverlooked DEF SavedInv
    <3>2. CASE SeqOf[builder.ledger] = SeqOf[k] /\ k # builder.ledger
      <4>1. l = k /\ k \notin {builder.ledger, Parent[builder.ledger]}
        BY <3>1, <3>2, PrefersOverlooked
      <4>2. k \in have /\ isCompatible(k)
        BY <3>1, OverlookedIsCompatible DEF Overlooked
      <4>3. checkAccept(k)
        BY <2>1, <4>1, <4>2, Zenon DEF checkLastClosedLedger, switchLastClosedLedger
      <4>4. SeqOf[k] <= validSeq'
        BY <3>1, <4>3, AcceptRaises DEF Overlooked
      <4> QED BY <1>0, <2>6, <4>4, Sequences DEF Overlooked
    <3>3. CASE ~(SeqOf[builder.ledger] = SeqOf[k] /\ k # builder.ledger)
      BY <2>2, <2>4, <3>1, <3>3 DEF LookedAfter
    <3> QED BY <3>2, <3>3
  <2> QED BY <2>2, <2>4, <2>6 DEF SavedInv
<1>3. ASSUME NEW l \in Ledgers, consensusBuilt(l) PROVE SavedInv'
  <2>1. /\ UNCHANGED <<arrived, checks, validLedger>>
        /\ buildingSeq' = 0 /\ abandoned' = abandoned \ {SeqOf[l]} /\ have' = have \cup {l}
        /\ builder' = [at |-> IF SeqOf[l] <= validSeq THEN "switch" ELSE "check", ledger |-> l]
        /\ builder.at = "building" /\ Parent[l] = builder.ledger
    BY <1>3 DEF consensusBuilt, acceptVars
  <2>2. SeqOf[l] = buildingSeq /\ SeqOf[l] \in Nat
    BY <1>0, <2>1, Sequences DEF SavedInv
  <2>3. ASSUME NEW k \in Ledgers, Overlooked(k)'
        PROVE  LookedAfter(k)'
    <3>1. /\ k \in have \cup {l} /\ SeqOf[k] > validSeq
          /\ Cardinality(CurrentFor(k)) >= Quorum
      <4>1. CurrentFor(k)' = CurrentFor(k) /\ validSeq' = validSeq
        BY <2>1 DEF CurrentFor, currentTrusted, newer, validSeq
      <4> QED BY <2>1, <2>3, <4>1 DEF Overlooked
    <3>2. CASE SeqOf[k] = SeqOf[l]
      <4>1. ~(SeqOf[l] <= validSeq)
        BY <1>0, <2>2, <3>1, <3>2
      <4>2. builder'.at = "check" /\ builder'.ledger = l
        BY <2>1, <4>1
      <4> QED BY <3>2, <4>2 DEF LookedAfter
    <3>3. CASE SeqOf[k] # SeqOf[l]
      <4>1. LookedAfter(k)
        BY <3>1, <3>3 DEF SavedInv, Overlooked
      <4> QED BY <2>1, <2>2, <3>3, <4>1 DEF LookedAfter
    <3> QED BY <3>2, <3>3
  <2> QED BY <2>1, <2>3 DEF SavedInv
<1>4. ASSUME onClose PROVE SavedInv'
  <2>1. /\ UNCHANGED <<arrived, have, checks, validSeq, abandoned>>
        /\ buildingSeq' = SeqOf[builder.ledger] + 1
        /\ builder' = [builder EXCEPT !.at = "building"]
        /\ builder.at \in {"open", "reopened"}
    BY <1>4 DEF onClose, acceptVars, inboundVars, validSeq
  <2>2. builder'.at = "building" /\ builder'.ledger = builder.ledger
    BY <2>1 DEF MasterType
  <2>3. ASSUME NEW k \in Ledgers, Overlooked(k)'
        PROVE  LookedAfter(k)'
    <3>1. LookedAfter(k) /\ SeqOf[k] \in Nat /\ SeqOf[k] > 0
      BY <1>0, <2>1, <2>3, NoneOverlooked, Sequences DEF SavedInv
    <3> QED BY <2>1, <3>1 DEF LookedAfter, SavedInv
  <2> QED BY <2>1, <2>2, <2>3 DEF SavedInv
<1>5. ASSUME checkBuilt PROVE SavedInv'
  <2>1. /\ UNCHANGED <<arrived, have, checks, abandoned, buildingSeq>>
        /\ builder' = [builder EXCEPT !.at = "collect"]
        /\ builder.at = "check"
    BY <1>5 DEF checkBuilt, inboundVars
  <2>2. builder'.at = "collect" /\ builder'.ledger = builder.ledger
    BY <2>1 DEF MasterType
  <2>3. validSeq' >= validSeq
    BY <1>0, <1>5, AcceptRaises DEF checkBuilt
  <2>4. ASSUME NEW k \in Ledgers, Overlooked(k)'
        PROVE  LookedAfter(k)'
    <3>1. LookedAfter(k)
      BY <1>0, <2>1, <2>3, <2>4, NoneOverlooked DEF SavedInv
    <3> QED BY <2>1, <2>2, <3>1 DEF LookedAfter
  <2> QED BY <2>1, <2>2, <2>4 DEF SavedInv
<1>6. ASSUME checkSaved PROVE SavedInv'
  <2>1. /\ UNCHANGED <<arrived, have, validSeq, abandoned, buildingSeq>>
        /\ checks \subseteq checks'
        /\ builder' = [builder EXCEPT !.at = "switch"]
        /\ builder.at = "collect"
    BY <1>6 DEF checkSaved, startCheck, acceptVars, inboundVars, validSeq
  <2>2. builder'.at = "switch" /\ builder'.ledger = builder.ledger
    BY <2>1 DEF MasterType
  <2>3. ASSUME NEW k \in Ledgers, Overlooked(k)'
        PROVE  LookedAfter(k)'
    <3>1. LookedAfter(k)
      BY <1>0, <2>1, <2>3, NoneOverlooked DEF SavedInv
    <3> QED BY <2>1, <2>2, <3>1 DEF LookedAfter
  <2> QED BY <2>1, <2>2, <2>3 DEF SavedInv
<1>7. ASSUME switchLCL PROVE SavedInv'
  <2>1. /\ UNCHANGED <<arrived, have, checks, abandoned, buildingSeq>>
        /\ builder' = [builder EXCEPT !.at = "ended"]
        /\ builder.at = "switch"
    BY <1>7 DEF switchLCL, inboundVars
  <2>2. builder'.at = "ended" /\ builder'.ledger = builder.ledger
    BY <2>1 DEF MasterType
  <2>3. validSeq' >= validSeq
    BY <1>0, <1>7, AcceptRaises DEF switchLCL
  <2>4. ASSUME NEW k \in Ledgers, Overlooked(k)'
        PROVE  LookedAfter(k)'
    <3>1. Overlooked(k) /\ LookedAfter(k)
      BY <1>0, <2>1, <2>3, <2>4, NoneOverlooked DEF SavedInv
    <3>2. k # builder.ledger
      <4> SUFFICES ASSUME k = builder.ledger PROVE FALSE
        OBVIOUS
      <4>1. SeqOf[k] <= validSeq'
        BY <1>7, <3>1, AcceptRaises DEF switchLCL, Overlooked
      <4> QED BY <1>0, <2>4, <4>1, Sequences DEF Overlooked
    <3> QED BY <2>1, <2>2, <3>1, <3>2 DEF LookedAfter
  <2> QED BY <2>1, <2>2, <2>4 DEF SavedInv
<1> QED BY <1>1, <1>2, <1>3, <1>4, <1>5, <1>6, <1>7 DEF builtStep

\* mLastValidLedger is set to a ledger with a quorum, and the valid sequence
\* does not go down.
LEMMA CheckKeepsLastValid ==
    ASSUME MasterType, LastValidInv, NEW c \in checks, checkStep(c)
    PROVE  LastValidInv'
<1>0. c.ledger \in Ledgers /\ validSeq \in Nat
  BY ValidSeqIsNat DEF MasterType
<1>1. ASSUME countValidations(c) PROVE LastValidInv'
  <2>1. /\ UNCHANGED validSeq
        /\ \/ lastValid' = lastValid
           \/ lastValid' = c.ledger /\ getTrustedValidationCount(c.ledger) >= Quorum
    BY <1>1, Zenon DEF countValidations, validSeq
  <2>2. getTrustedValidationCount(c.ledger) >= Quorum => Validated(c.ledger)
    BY <1>0, QuorumIsValidated
  <2> QED BY <1>0, <2>1, <2>2 DEF LastValidInv
<1>2. ASSUME acceptLedger(c) \/ acquisitionDone(c) PROVE LastValidInv'
  <2>1. UNCHANGED lastValid
    BY <1>2 DEF acceptLedger, acquisitionDone
  <2>2. validSeq' >= validSeq /\ validSeq' \in Nat
    <3>1. CASE checkAccept(c.ledger)
      BY <1>0, <3>1, AcceptRaises
    <3>2. CASE ~checkAccept(c.ledger)
      <4>1. validSeq' = validSeq
        BY <1>2, <3>2 DEF acceptLedger, acquisitionDone, validSeq
      <4> QED BY <1>0, <4>1
    <3> QED BY <3>1, <3>2
  <2> QED BY <1>0, <2>1, <2>2, Sequences DEF LastValidInv
<1> QED BY <1>1, <1>2 DEF checkStep

LEMMA BuilderKeepsLastValid ==
    ASSUME MasterType, LastValidInv,
           \/ \E l \in Ledgers : handleWrongLedger(l) \/ consensusBuilt(l)
           \/ onClose \/ builtStep
    PROVE  LastValidInv'
<1>0. validSeq \in Nat /\ builder.ledger \in Ledgers
  BY ValidSeqIsNat DEF MasterType
<1>1. UNCHANGED lastValid
  BY Zenon DEF handleWrongLedger, consensusBuilt, onClose, builtStep, checkBuilt, checkSaved,
               switchLCL, endConsensus, acceptVars
<1>2. (\E l \in Ledgers : checkAccept(l)) \/ UNCHANGED validLedger
  <2>1. ASSUME endConsensus PROVE (\E l \in Ledgers : checkAccept(l)) \/ UNCHANGED validLedger
    <3>1. PICK l \in Ledgers : checkLastClosedLedger(l)
      BY <2>1, Zenon DEF endConsensus, preferredLedgers
    <3> QED BY <3>1, Zenon DEF checkLastClosedLedger, switchLastClosedLedger
  <2> QED BY <1>0, <2>1, Zenon DEF handleWrongLedger, consensusBuilt, onClose, builtStep,
            checkBuilt, checkSaved, switchLCL, acceptVars
<1>3. validSeq' >= validSeq /\ validSeq' \in Nat
  BY <1>0, <1>2, AcceptRaises DEF validSeq
<1> QED BY <1>0, <1>1, <1>3, Sequences DEF LastValidInv

LEMMA SavedStep ==
    IInv /\ IInv' /\ LastValidInv /\ SavedInv /\ [Next]_vars => SavedInv' /\ LastValidInv'
<1> SUFFICES ASSUME IInv, IInv', LastValidInv, SavedInv, [Next]_vars
             PROVE  SavedInv' /\ LastValidInv'
  OBVIOUS
<1>0. MasterType /\ MasterType' /\ OnChain /\ validSeq \in Nat /\ validSeq' \in Nat
  BY ValidSeqIsNat DEF IInv
<1>1. CASE advanceStep \/ UNCHANGED vars
  <2>1. UNCHANGED <<arrived, have, checks, buildVars, lastValid, validSeq>>
    <3>1. CASE advanceStep
      BY <3>1, Zenon DEF advanceStep, findNewLedgersToPublish, fetchLedgers, publishLedger,
                  skipHistory, fetchHistory, advanceThrows, acceptVars, inboundVars, validSeq
    <3>2. CASE UNCHANGED vars
      BY <3>2 DEF vars, masterVars, acceptVars, inboundVars, validSeq
    <3> QED BY <1>1, <3>1, <3>2
  <2>2. SavedInv'
    BY <1>0, <2>1, OthersKeepSaved
  <2> QED BY <2>1, <2>2 DEF LastValidInv
<1>2. ASSUME NEW m \in Messages, addValidation(m) PROVE SavedInv' /\ LastValidInv'
  <2>1. UNCHANGED <<lastValid, validSeq>>
    BY <1>2 DEF addValidation, acceptVars, validSeq
  <2> QED BY <1>0, <1>2, <2>1, AddKeepsSaved DEF LastValidInv
<1>3. ASSUME NEW c \in checks, checkStep(c) PROVE SavedInv' /\ LastValidInv'
  BY <1>0, <1>3, CheckKeepsSaved, CheckKeepsLastValid
<1>4. ASSUME NEW l \in Ledgers, inboundStep(l) \/ sweep(l) PROVE SavedInv' /\ LastValidInv'
  <2>1. UNCHANGED <<lastValid, validSeq>>
    BY <1>4 DEF inboundStep, acquired, acquireFails, sweep, acceptVars, validSeq
  <2> QED BY <1>0, <1>4, <2>1, InboundKeepsSaved DEF LastValidInv
<1>5. CASE \/ \E l \in Ledgers : handleWrongLedger(l) \/ consensusBuilt(l)
           \/ onClose \/ builtStep
  <2>1. SavedInv'
    BY Zenon, <1>0, <1>5, BuilderKeepsSaved
  <2> QED BY <1>0, <1>5, <2>1, BuilderKeepsLastValid
<1> QED BY Zenon, <1>1, <1>2, <1>3, <1>4, <1>5 DEF Next

LEMMA SavedInit == Init => SavedInv /\ LastValidInv
<1> SUFFICES ASSUME Init PROVE SavedInv /\ LastValidInv
  OBVIOUS
<1>1. arrived = {} /\ buildingSeq = 0 /\ builder.at = "open"
  BY DEF Init
<1>2. ASSUME NEW l \in Ledgers PROVE ~Overlooked(l)
  <2>1. CurrentFor(l) = {}
    BY <1>1 DEF CurrentFor, currentTrusted
  <2>2. Cardinality(CurrentFor(l)) = 0
    BY <2>1, FS_EmptySet
  <2> QED BY <2>2, LedgersAssumption DEF Overlooked
<1>3. LastValidInv
  BY Sequences DEF Init, LastValidInv, validSeq
<1> QED BY <1>1, <1>2, <1>3 DEF SavedInv

(* No validation that checkAccept(hash, seq) set aside is forgotten while  *)
(* the round for its sequence goes on: when the round is over and no call  *)
(* is under way, no ledger that we have and a quorum of the current        *)
(* validations is for is above the valid one, for any number of rounds,    *)
(* validators and ledgers: consensusBuilt or checkLastClosedLedger has     *)
(* found it, unless the round was abandoned.                               *)
THEOREM SavedValidationsAlwaysChecked == Spec => []SavedValidationsChecked
<1>1. IInv /\ SavedInv => SavedValidationsChecked
  <2> SUFFICES ASSUME MasterType, SavedInv, Quiet, NEW l \in Ledgers,
                      SeqOf[l] \notin abandoned, Overlooked(l)
               PROVE  FALSE
    BY DEF IInv, SavedValidationsChecked
  <2>1. LookedAfter(l) /\ SeqOf[l] > 0
    BY Sequences DEF SavedInv
  <2> QED BY <2>1 DEF Quiet, LookedAfter
<1>2. IInv /\ SavedInv /\ LastValidInv /\ [Next]_vars => SavedInv' /\ LastValidInv'
  BY StepIInv, SavedStep
<1>3. Spec => [](SavedInv /\ LastValidInv)
  BY AlwaysIInv, SavedInit, <1>2, PTL DEF Spec
<1> QED BY AlwaysIInv, <1>1, <1>3, PTL
=============================================================================

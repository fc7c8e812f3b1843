---------------------------- MODULE Validations -----------------------------
(***************************************************************************)
(* The store of validations (app/misc/Validations.cpp): the set of each    *)
(* ledger, the current validation of each validator, and the writing of    *)
(* the stale ones to the database by a job.  A step is what the code does  *)
(* under mLock; addValidation looks at the validation before it takes the  *)
(* lock, so threads with validations that passed wait for it.              *)
(*                                                                         *)
(* Validators sign with a key that a manifest replaces; only the newest    *)
(* key known is listed (ManifestCache).  Nothing is assumed of what they   *)
(* sign: a ledger or a sequence again, with one key or two, in any order.  *)
(***************************************************************************)
EXTENDS Integers, FiniteSets

CONSTANTS Messages,   \* validations validators send: [node, key, ledger, seq, time]
          Trusted,    \* validators of the UNL
          Listed,     \* validators of a published list, not of the UNL
          ValidEarly, ValidWall,   \* VALIDATION_VALID_EARLY, _WALL
          MaxAdding,  \* bound: threads in addValidation
          MaxTime     \* bound: the clock

NoValidation == [node |-> "none"]

ASSUME ValidationsAssumption ==
    /\ \A m \in Messages : m.key \in Nat /\ m.seq \in Nat \ {0} /\ m.time \in Nat
    /\ NoValidation \notin Messages
    /\ ValidEarly \in Nat /\ ValidWall \in Nat /\ MaxAdding \in Nat /\ MaxTime \in Nat

Nodes == {m.node : m \in Messages}

VARIABLES
    now,        \* TimeKeeper::closeTime
    signingKey, \* the newest key of each validator
    adding,     \* what threads are in addValidation with, about to take the lock
    stored,     \* mValidations: the validations in the sets of all ledgers
    current,    \* mCurrentValidations
    stale,      \* mStaleValidations
    writing,    \* mWriting
    batch,      \* what doWrite is writing, out of the lock
    written,    \* the database
    flushing    \* where the thread that stops the daemon is in flush

storeVars == <<stored, current, stale, writing>>
writerVars == <<batch, written, flushing>>
validationVars == <<now, signingKey, adding, storeVars, writerVars>>

ValidationsInit ==
    /\ now = 0
    /\ signingKey = [n \in Nodes |-> 1]
    /\ adding = {}
    /\ stored = {}
    /\ current = [n \in Nodes |-> NoValidation]
    /\ stale = {}
    /\ writing = FALSE
    /\ batch = {}
    /\ written = {}
    /\ flushing = "no"

\* Validations::current.  A validation is seen when it is received.
isCurrent(m) == m.time > now - ValidEarly /\ m.time < now + ValidWall

isTrusted(m) == m.node \in Trusted

\* ValidatorList::getTrustedKey or getListedKey finds the validator.
isKnown(m) == m.node \in Trusted \cup Listed /\ m.key = signingKey[m.node]

validationsOf(ledger) == {m \in stored : m.ledger = ledger}

getTrustedValidationCount(ledger) == Cardinality({m \in validationsOf(ledger) : isTrusted(m)})

\* Mutant: a job that is running is taken to see the new ones.
makeStaleUnnoticed(old) ==
    /\ stale' = stale \cup old
    /\ UNCHANGED writing

\* condWrite after a validation became stale: the job, once, and the flag.
makeStale(old) ==
    /\ stale' = stale \cup old
    /\ writing' = (writing \/ old # {})

\* Mutant: it is taken out of the set of the new one.
withoutRevokedWrongSet(all, m, old) ==
    IF old.seq = m.seq /\ m.key # old.key
      THEN {k \in all : ~(k.node = m.node /\ k.ledger = m.ledger)}
      ELSE all

\* A second validation for the same sequence, signed with another key,
\* takes the first one out of its set.
withoutRevoked(all, m, old) ==
    IF old.seq = m.seq /\ m.key # old.key
      THEN {k \in all : ~(k.node = m.node /\ k.ledger = old.ledger)}
      ELSE all

\* insert finds no entry of the validator in the set of the ledger.
mayInsert(m) == \A k \in validationsOf(m.ledger) : k.node # m.node

\* The locked part of addValidation; addOlder is not current.
addFirst(m) ==
    /\ current[m.node] = NoValidation
    /\ stored' = stored \cup {m}
    /\ current' = [current EXCEPT ![m.node] = m]
    /\ UNCHANGED <<stale, writing>>

\* Mutant: the old validation is overwritten.
addNewerDropsOld(m) ==
    LET old == current[m.node] IN
    /\ old # NoValidation
    /\ m.time > old.time \/ m.key # old.key
    /\ stored' = withoutRevoked(stored \cup {m}, m, old)
    /\ current' = [current EXCEPT ![m.node] = m]
    /\ UNCHANGED <<stale, writing>>

addNewer(m) ==
    LET old == current[m.node] IN
    /\ old # NoValidation
    /\ m.time > old.time \/ m.key # old.key
    /\ stored' = withoutRevoked(stored \cup {m}, m, old)
    /\ current' = [current EXCEPT ![m.node] = m]
    /\ makeStale({old})

addOlder(m) ==
    LET old == current[m.node] IN
    /\ old # NoValidation
    /\ m.time <= old.time /\ m.key = old.key
    /\ stored' = stored \cup {m}
    /\ UNCHANGED <<current, stale, writing>>

\* getCurrentTrustedValidations takes the expired ones out.
expired == {n \in Nodes : current[n] # NoValidation /\ ~isCurrent(current[n])}

removeExpired ==
    /\ current' = [n \in Nodes |-> IF n \in expired THEN NoValidation ELSE current[n]]
    /\ makeStale({current[n] : n \in expired})

getCurrentValidations ==
    /\ expired # {}
    /\ removeExpired
    /\ UNCHANGED <<now, signingKey, adding, stored, writerVars>>

currentTrusted == {current[n] : n \in {k \in Nodes \ expired :
                                        current[k] # NoValidation /\ k \in Trusted}}

-----------------------------------------------------------------------------
(* The job doWrite *)

takeStale ==
    /\ writing /\ batch = {}
    /\ stale # {}
    /\ batch' = stale
    /\ stale' = {}
    /\ UNCHANGED <<now, signingKey, adding, stored, current, writing, written, flushing>>

commitBatch ==
    /\ batch # {}
    /\ written' = written \cup batch
    /\ batch' = {}
    /\ UNCHANGED <<now, signingKey, adding, storeVars, flushing>>

\* Mutant: mWriting stays set.
endWriteStaysWriting ==
    /\ writing /\ batch = {}
    /\ stale = {}
    /\ UNCHANGED <<now, signingKey, adding, storeVars, writerVars>>

endWrite ==
    /\ writing /\ batch = {}
    /\ stale = {}
    /\ writing' = FALSE
    /\ UNCHANGED <<now, signingKey, adding, stored, current, stale, writerVars>>

\* flush: every current validation becomes stale, then the thread waits
\* until nothing is being written.
flush ==
    /\ flushing = "no"
    /\ makeStale({current[n] : n \in {k \in Nodes : current[k] # NoValidation}})
    /\ current' = [n \in Nodes |-> NoValidation]
    /\ flushing' = "waiting"
    /\ UNCHANGED <<now, signingKey, adding, stored, batch, written>>

flushed ==
    /\ flushing = "waiting" /\ ~writing
    /\ flushing' = "done"
    /\ UNCHANGED <<now, signingKey, adding, storeVars, batch, written>>

\* The set of a ledger leaves the cache ten minutes after its last use: its
\* validations have expired minutes ago, and getCurrentValidations, which
\* the timer calls every second, has found them.
sweep(ledger) ==
    /\ validationsOf(ledger) # {}
    /\ \A m \in validationsOf(ledger) : ~isCurrent(m) /\ current[m.node] # m
    /\ stored' = stored \ validationsOf(ledger)
    /\ UNCHANGED <<now, signingKey, adding, current, stale, writing, writerVars>>

-----------------------------------------------------------------------------
(* Time, and manifests *)

tick ==
    /\ now < MaxTime
    /\ now' = now + 1
    /\ UNCHANGED <<signingKey, adding, storeVars, writerVars>>

\* A manifest with a higher sequence replaces the key; a key with which the
\* validator signs nothing stands for its revocation.
applyManifest(n, key) ==
    /\ key > signingKey[n]
    /\ signingKey' = [signingKey EXCEPT ![n] = key]
    /\ UNCHANGED <<now, adding, storeVars, writerVars>>

-----------------------------------------------------------------------------
\* Validations arrive in any order, some more than once and some never.
\* addValidation before its lock.
checkValidation(m) ==
    /\ m \notin adding /\ Cardinality(adding) < MaxAdding
    /\ isCurrent(m) /\ isKnown(m)
    /\ adding' = adding \cup {m}
    /\ UNCHANGED <<now, signingKey, storeVars, writerVars>>

\* addValidation under its lock, whatever has happened since.
addValidation(m) ==
    /\ m \in adding
    /\ adding' = adding \ {m}
    /\ \/ ~mayInsert(m) /\ UNCHANGED storeVars
       \/ mayInsert(m) /\ (addFirst(m) \/ addNewer(m) \/ addOlder(m))
    /\ UNCHANGED <<now, signingKey, writerVars>>

writeStep == takeStale \/ commitBatch \/ endWrite

ValidationsNext ==
    \/ \E m \in Messages : checkValidation(m) \/ addValidation(m)
    \/ getCurrentValidations
    \/ writeStep
    \/ flush \/ flushed
    \/ \E m \in Messages : sweep(m.ledger)
    \/ tick
    \/ \E n \in Nodes, m \in Messages : applyManifest(n, m.key)

ValidationsSpec == ValidationsInit /\ [][ValidationsNext]_validationVars

\* The job runs, and flush looks again every 100 ms.
ValidationsFairSpec == ValidationsSpec /\ WF_validationVars(writeStep) /\ WF_validationVars(flushed)

-----------------------------------------------------------------------------
(* Properties *)

\* Only validations are stored, current, stale or written, each current one
\* in the entry of its validator.
ValidationsType ==
    /\ now \in Nat /\ signingKey \in [Nodes -> Nat] /\ adding \subseteq Messages
    /\ stored \subseteq Messages
    /\ current \in [Nodes -> Messages \cup {NoValidation}]
    /\ \A n \in Nodes : current[n] # NoValidation => current[n].node = n
    /\ stale \subseteq Messages /\ batch \subseteq Messages /\ written \subseteq Messages
    /\ writing \in BOOLEAN /\ flushing \in {"no", "waiting", "done"}

\* What consensusBuilt finds in mCurrentValidations checkAccept counts in
\* the set of the ledger, however late a thread gets the lock and whichever
\* key signed what it holds: no erase takes a vote away that is current.
CurrentIsCounted ==
    \A ledger \in {m.ledger : m \in Messages} :
        Cardinality({m \in currentTrusted : m.ledger = ledger}) <= getTrustedValidationCount(ledger)

\* condWrite and the end of doWrite miss no stale validation: so flush,
\* which waits for mWriting, returns with all of them in the database.
StaleBeingWritten == stale \cup batch # {} => writing

\* A validation that was current stays current or is on its way to the
\* database, and what is there stays.
Recorded == stale \cup batch \cup written
ValidationsKept ==
    [][\A n \in Nodes : ({current[n]} \ {NoValidation}) \cup Recorded
                         \subseteq {current'[n]} \cup Recorded']_validationVars

\* A stale validation is written.
StaleIsWritten == \A m \in Messages : m \in stale ~> m \in written

\* flush returns.
FlushReturns == flushing = "waiting" ~> flushing = "done"

=============================================================================

--------------------------- MODULE WindowLockProofs ---------------------------
(***************************************************************************)
(* Proofs about WindowLock for any number of processes, any reuse of pids, *)
(* either kind of mount and any number of charges.                         *)
(***************************************************************************)
EXTENDS WindowLock, TLAPS

\* The initial state is well typed.
LEMMA InitTypeOK == Init => TypeOK
  BY ProcAssumption, BoundAssumption
  DEF Init, TypeOK, Files, Charges, Phases, Alive, Starting, Holding, Ended

\* Every step of acquireLock and reclaimStaleLock keeps the state well typed.
LEMMA AcquireTypeOK ==
    ASSUME TypeOK, NEW p \in Proc, Start(p) \/ Acquire(p)
    PROVE  TypeOK'
<1> USE ProcAssumption
        DEF TypeOK, Goto, Phases, Alive, Starting, Holding, Ended,
            startVars, lockVars, storeVars
<1>1. CASE Start(p)  BY <1>1 DEF Start
<1>2. CASE PublishLink(p)  BY <1>2 DEF PublishLink
<1>3. CASE PublishCreate(p)  BY <1>3 DEF PublishCreate
<1>4. CASE PublishWrite(p)  BY <1>4 DEF PublishWrite
<1>5. CASE PublishTaken(p)  BY <1>5 DEF PublishTaken
<1>6. CASE ReadUnreadable(p)  BY <1>6 DEF ReadUnreadable
<1>7. CASE ReadHolder(p)  BY <1>7 DEF ReadHolder, Readable
<1>8. CASE ProbeAlive(p)  BY <1>8 DEF ProbeAlive
<1>9. CASE ProbeDead(p)  BY <1>9 DEF ProbeDead
<1>10. CASE RenameLost(p)  BY <1>10 DEF RenameLost, NextAttempt
<1>11. CASE RenameCarry(p)  BY <1>11 DEF RenameCarry
<1>12. CASE ExamineDiscard(p)  BY <1>12 DEF ExamineDiscard, NextAttempt
<1>13. CASE ExamineForeign(p)  BY <1>13 DEF ExamineForeign
<1>14. CASE RestoreLink(p)  BY <1>14 DEF RestoreLink
<1>15. CASE RestoreProbe(p)  BY <1>15 DEF RestoreProbe
<1>16. CASE RestoreRename(p)  BY <1>16 DEF RestoreRename
<1> QED
  BY <1>1, <1>2, <1>3, <1>4, <1>5, <1>6, <1>7, <1>8, <1>9, <1>10, <1>11, <1>12,
     <1>13, <1>14, <1>15, <1>16 DEF Acquire

\* Every step of load, record, persist, release, exit and crash does too.
LEMMA StoreTypeOK ==
    ASSUME TypeOK, NEW p \in Proc,
           \/ Load(p) \/ Record(p) \/ Persist(p) \/ ReleaseReady(p)
           \/ Release(p) \/ Exit(p) \/ Crash(p)
    PROVE  TypeOK'
<1> USE ProcAssumption, BoundAssumption
        DEF TypeOK, Goto, Phases, Alive, Starting, Holding, Ended, Files, Charges,
            startVars, lockVars, storeVars
<1>1. CASE LoadFile(p)  BY <1>1 DEF LoadFile
<1>2. CASE LoadMissing(p)  BY <1>2 DEF LoadMissing
<1>3. CASE LoadInit(p)  BY <1>3 DEF LoadInit
<1>4. CASE Record(p)  BY <1>4 DEF Record
<1>5. CASE PersistOwned(p)  BY <1>5 DEF PersistOwned
<1>6. CASE PersistFenced(p)  BY <1>6 DEF PersistFenced
<1>7. CASE Flush(p)  BY <1>7 DEF Flush
<1>8. CASE Commit(p)  BY <1>8 DEF Commit
<1>9. CASE CommitLost(p)  BY <1>9 DEF CommitLost
<1>10. CASE ReleaseReady(p)  BY <1>10 DEF ReleaseReady
<1>11. CASE ReleaseOwned(p)  BY <1>11 DEF ReleaseOwned
<1>12. CASE ReleaseDisowned(p)  BY <1>12 DEF ReleaseDisowned
<1>13. CASE ReleaseUnlink(p)  BY <1>13 DEF ReleaseUnlink
<1>14. CASE Exit(p)  BY <1>14 DEF Exit
<1>15. CASE Crash(p)  BY <1>15 DEF Crash
<1> QED
  BY <1>1, <1>2, <1>3, <1>4, <1>5, <1>6, <1>7, <1>8, <1>9, <1>10, <1>11, <1>12,
     <1>13, <1>14, <1>15 DEF Load, Persist, Rename, Release

\* Every step keeps the state well typed.
LEMMA NextTypeOK == TypeOK /\ [Next]_vars => TypeOK'
<1> SUFFICES ASSUME TypeOK, [Next]_vars PROVE TypeOK'
  OBVIOUS
<1>1. CASE UNCHANGED vars
  BY <1>1 DEF vars, TypeOK
<1>2. CASE OperatorRemoves
  BY <1>2 DEF OperatorRemoves, TypeOK, startVars, storeVars
<1>3. ASSUME NEW p \in Proc, Start(p) \/ Acquire(p) PROVE TypeOK'
  BY <1>3, AcquireTypeOK
<1>4. ASSUME NEW p \in Proc,
             \/ Load(p) \/ Record(p) \/ Persist(p) \/ ReleaseReady(p)
             \/ Release(p) \/ Exit(p) \/ Crash(p)
      PROVE  TypeOK'
  BY <1>4, StoreTypeOK
<1> QED
  BY <1>1, <1>2, <1>3, <1>4 DEF Next

\* Type correctness of the lock protocol, whatever processes, operators and
\* mounts do.
THEOREM TypeCorrect == Spec => []TypeOK
  BY InitTypeOK, NextTypeOK, PTL DEF Spec

-----------------------------------------------------------------------------
\* No process holds the store, or is starting, when the behaviour starts.
LEMMA InitSerial == Init => SerialInv
<1> SUFFICES ASSUME Init PROVE LockInv /\ LedgerInv
  BY InitTypeOK DEF SerialInv
<1>1. LockInv
  BY DEF Init, LockInv, Starting, Holding
<1>2. LedgerInv
  BY DEF Init, LedgerInv
<1> QED
  BY <1>1, <1>2

\* One starter at a time: a step of acquireLock keeps the lock invariant.
LEMMA AcquireLockInv ==
    ASSUME ~Concurrent, TypeOK, LockInv, NEW p \in Proc, Start(p) \/ Acquire(p)
    PROVE  LockInv'
<1> USE ProcAssumption, PidAssumption
        DEF TypeOK, LockInv, CarriedIsStale, PidAlive, Goto, Phases, Alive,
            Starting, Holding, Ended, startVars, lockVars, storeVars
<1>1. CASE Start(p)  BY <1>1 DEF Start
<1>2. CASE PublishLink(p)  BY <1>2 DEF PublishLink
<1>3. CASE PublishCreate(p)  BY <1>3 DEF PublishCreate
<1>4. CASE PublishWrite(p)  BY <1>4 DEF PublishWrite
<1>5. CASE PublishTaken(p)  BY <1>5 DEF PublishTaken
<1>6. CASE ReadUnreadable(p)  BY <1>6 DEF ReadUnreadable, Readable
<1>7. CASE ReadHolder(p)  BY <1>7 DEF ReadHolder, Readable
<1>8. CASE ProbeAlive(p)  BY <1>8 DEF ProbeAlive
<1>9. CASE ProbeDead(p)  BY <1>9 DEF ProbeDead
<1>10. CASE RenameLost(p)  BY <1>10 DEF RenameLost, NextAttempt
<1>11. CASE RenameCarry(p)  BY <1>11 DEF RenameCarry
<1>12. CASE ExamineDiscard(p)  BY <1>12 DEF ExamineDiscard, NextAttempt, CarriedIsStale
<1>13. CASE ExamineForeign(p)  BY <1>13 DEF ExamineForeign
<1>14. CASE RestoreLink(p)  BY <1>14 DEF RestoreLink
<1>15. CASE RestoreProbe(p)  BY <1>15 DEF RestoreProbe
<1>16. CASE RestoreRename(p)  BY <1>16 DEF RestoreRename
<1> QED
  BY <1>1, <1>2, <1>3, <1>4, <1>5, <1>6, <1>7, <1>8, <1>9, <1>10, <1>11,
     <1>12, <1>13, <1>14, <1>15, <1>16 DEF Acquire

\* A step of a holder, its exit and any crash keep the lock invariant.
LEMMA StoreLockInv ==
    ASSUME TypeOK, LockInv, NEW p \in Proc,
           \/ Load(p) \/ Record(p) \/ Persist(p) \/ ReleaseReady(p)
           \/ Release(p) \/ Exit(p) \/ Crash(p)
    PROVE  LockInv'
<1> USE ProcAssumption, PidAssumption
        DEF TypeOK, LockInv, CarriedIsStale, NotDisowned, PidAlive, Goto, Phases,
            Alive, Starting, Holding, Ended, startVars, lockVars, storeVars
<1>1. CASE LoadFile(p)  BY <1>1 DEF LoadFile
<1>2. CASE LoadMissing(p)  BY <1>2 DEF LoadMissing
<1>3. CASE LoadInit(p)  BY <1>3 DEF LoadInit
<1>4. CASE Record(p)  BY <1>4 DEF Record
<1>5. CASE PersistOwned(p)  BY <1>5 DEF PersistOwned
<1>6. CASE PersistFenced(p)  BY <1>6 DEF PersistFenced
<1>7. CASE Flush(p)  BY <1>7 DEF Flush
<1>8. CASE Commit(p)  BY <1>8 DEF Commit
<1>9. CASE CommitLost(p)  BY <1>9 DEF CommitLost
<1>10. CASE ReleaseReady(p)  BY <1>10 DEF ReleaseReady
<1>11. CASE ReleaseOwned(p)  BY <1>11 DEF ReleaseOwned
<1>12. CASE ReleaseDisowned(p)  BY <1>12 DEF ReleaseDisowned
<1>13. CASE ReleaseUnlink(p)  BY <1>13 DEF ReleaseUnlink
<1>14. CASE Exit(p)  BY <1>14 DEF Exit
<1>15. CASE Crash(p)  BY <1>15 DEF Crash
<1> QED
  BY <1>1, <1>2, <1>3, <1>4, <1>5, <1>6, <1>7, <1>8, <1>9, <1>10, <1>11,
     <1>12, <1>13, <1>14, <1>15 DEF Load, Persist, Rename, Release

\* Steps outside the store leave the ledger as it is.
LEMMA AcquireLedgerInv ==
    ASSUME TypeOK, LedgerInv, NEW p \in Proc, Start(p) \/ Acquire(p)
    PROVE  LedgerInv'
<1> USE DEF TypeOK, LedgerInv, Goto, startVars, lockVars, storeVars
<1>1. CASE Start(p)  BY <1>1 DEF Start
<1>2. CASE PublishLink(p)  BY <1>2 DEF PublishLink
<1>3. CASE PublishCreate(p)  BY <1>3 DEF PublishCreate
<1>4. CASE PublishWrite(p)  BY <1>4 DEF PublishWrite
<1>5. CASE PublishTaken(p)  BY <1>5 DEF PublishTaken
<1>6. CASE ReadUnreadable(p)  BY <1>6 DEF ReadUnreadable, Readable
<1>7. CASE ReadHolder(p)  BY <1>7 DEF ReadHolder, Readable
<1>8. CASE ProbeAlive(p)  BY <1>8 DEF ProbeAlive
<1>9. CASE ProbeDead(p)  BY <1>9 DEF ProbeDead
<1>10. CASE RenameLost(p)  BY <1>10 DEF RenameLost, NextAttempt
<1>11. CASE RenameCarry(p)  BY <1>11 DEF RenameCarry
<1>12. CASE ExamineDiscard(p)  BY <1>12 DEF ExamineDiscard, NextAttempt, CarriedIsStale
<1>13. CASE ExamineForeign(p)  BY <1>13 DEF ExamineForeign
<1>14. CASE RestoreLink(p)  BY <1>14 DEF RestoreLink
<1>15. CASE RestoreProbe(p)  BY <1>15 DEF RestoreProbe
<1>16. CASE RestoreRename(p)  BY <1>16 DEF RestoreRename
<1> QED
  BY <1>1, <1>2, <1>3, <1>4, <1>5, <1>6, <1>7, <1>8, <1>9, <1>10, <1>11,
     <1>12, <1>13, <1>14, <1>15, <1>16 DEF Acquire

\* A holder's step keeps every signed charge in the file and in its cache:
\* no other process is in the middle of a write.
LEMMA StoreLedgerInv ==
    ASSUME TypeOK, LockInv, LedgerInv, NEW p \in Proc,
           \/ Load(p) \/ Record(p) \/ Persist(p) \/ ReleaseReady(p)
           \/ Release(p) \/ Exit(p) \/ Crash(p)
    PROVE  LedgerInv'
<1>0. \A q \in Proc : pc[p] \in Holding /\ pc[q] \in Holding => q = p
  BY ProcAssumption DEF LockInv
<1> USE <1>0, BoundAssumption
        DEF TypeOK, LedgerInv, Files, Charges, Holding, Goto,
            startVars, lockVars, storeVars
<1>1. CASE LoadFile(p)  BY <1>1 DEF LoadFile
<1>2. CASE LoadMissing(p)  BY <1>2 DEF LoadMissing
<1>3. CASE LoadInit(p)  BY <1>3 DEF LoadInit
<1>4. CASE Record(p)  BY <1>4 DEF Record
<1>5. CASE PersistOwned(p)  BY <1>5 DEF PersistOwned
<1>6. CASE PersistFenced(p)  BY <1>6 DEF PersistFenced
<1>7. CASE Flush(p)  BY <1>7 DEF Flush
<1>8. CASE Commit(p)
  <2>1. /\ file'.present
        /\ file'.charges = cache[p]
    BY <1>8 DEF Commit
  <2>2. signed' \subseteq cache[p]
    BY <1>8 DEF Commit
  <2>3. \A q \in Proc : q # p => pc'[q] \notin Holding /\ pc'[q] = pc[q]
    BY <1>8 DEF Commit
  <2>4. pc'[p] = "ready" /\ cache' = cache
    BY <1>8 DEF Commit
  <2> QED
    BY <2>1, <2>2, <2>3, <2>4
<1>9. CASE CommitLost(p)  BY <1>9 DEF CommitLost
<1>10. CASE ReleaseReady(p)  BY <1>10 DEF ReleaseReady
<1>11. CASE ReleaseOwned(p)  BY <1>11 DEF ReleaseOwned
<1>12. CASE ReleaseDisowned(p)  BY <1>12 DEF ReleaseDisowned
<1>13. CASE ReleaseUnlink(p)  BY <1>13 DEF ReleaseUnlink
<1>14. CASE Exit(p)  BY <1>14 DEF Exit
<1>15. CASE Crash(p)  BY <1>15 DEF Crash
<1> QED
  BY <1>1, <1>2, <1>3, <1>4, <1>5, <1>6, <1>7, <1>8, <1>9, <1>10, <1>11,
     <1>12, <1>13, <1>14, <1>15 DEF Load, Persist, Rename, Release

\* SerialInv is inductive when starts are serialized and nobody deletes the
\* lock file of a running daemon.
LEMMA NextSerial ==
    ASSUME ~Concurrent, Operator # "any"
    PROVE  SerialInv /\ [Next]_vars => SerialInv'
<1> SUFFICES ASSUME TypeOK, LockInv, LedgerInv, [Next]_vars
             PROVE  LockInv' /\ LedgerInv'
  BY NextTypeOK DEF SerialInv
<1>1. CASE UNCHANGED vars
  BY <1>1 DEF vars, LockInv, LedgerInv, PidAlive, CarriedIsStale
<1>2. CASE OperatorRemoves
  BY <1>2, ProcAssumption
  DEF OperatorRemoves, TypeOK, LockInv, LedgerInv, PidAlive, CarriedIsStale,
      Phases, Alive, Starting, Holding, Ended, startVars, storeVars
<1>3. ASSUME NEW p \in Proc, Start(p) \/ Acquire(p) PROVE LockInv' /\ LedgerInv'
  BY <1>3, AcquireLockInv, AcquireLedgerInv
<1>4. ASSUME NEW p \in Proc,
             \/ Load(p) \/ Record(p) \/ Persist(p) \/ ReleaseReady(p)
             \/ Release(p) \/ Exit(p) \/ Crash(p)
      PROVE  LockInv' /\ LedgerInv'
  BY <1>4, StoreLockInv, StoreLedgerInv
<1> QED
  BY <1>1, <1>2, <1>3, <1>4 DEF Next

\* With daemons started one at a time and no hand on a live lock, the inductive
\* invariant holds for any number of daemons, crashes, exits and pid reuses.
THEOREM SerialStartsInvariant ==
    ASSUME ~Concurrent, Operator # "any"
    PROVE  Spec => []SerialInv
  BY InitSerial, NextSerial, PTL DEF Spec

\* ... so at most one process holds the window store at any time ...
THEOREM SerialStartsSingleHolder ==
    ASSUME ~Concurrent, Operator # "any"
    PROVE  Spec => []SingleHolder
<1>1. SerialInv => SingleHolder
  BY DEF SerialInv, LockInv, SingleHolder
<1> QED
  BY <1>1, SerialStartsInvariant, PTL

\* ... and no charge a signature was released for ever leaves the state file.
THEOREM SerialStartsChargesSurvive ==
    ASSUME ~Concurrent, Operator # "any"
    PROVE  Spec => []ChargesSurvive
<1>1. SerialInv => ChargesSurvive
  BY DEF SerialInv, LedgerInv, ChargesSurvive
<1> QED
  BY <1>1, SerialStartsInvariant, PTL

\* ... and the exit hook and release() only ever delete the lock of the process
\* that runs them.
THEOREM SerialStartsRemoval ==
    ASSUME ~Concurrent, Operator # "any"
    PROVE  Spec => RemovalIsByOwner
<1>1. SerialInv /\ [Next]_vars => [RemovalStep]_vars
  <2> SUFFICES ASSUME SerialInv, Next, NEW q \in Proc,
                      pc[q] \in Ended \cup Holding, pc'[q] # pc[q],
                      lock # None, lock' = None
               PROVE  lock = q
    BY DEF RemovalStep
  <2> USE DEF SerialInv, TypeOK, Goto, Starting, Holding, Ended
  <2>1. ASSUME NEW p \in Proc, Start(p) \/ Acquire(p) PROVE lock = q
    <3>1. p = q => pc[q] \in Starting \cup {"idle"}
      BY <2>1 DEF Start, Acquire, PublishLink, PublishCreate, PublishWrite,
         PublishTaken, ReadUnreadable, ReadHolder, ProbeAlive, ProbeDead,
         RenameLost, RenameCarry, RestoreLink, RestoreProbe, RestoreRename,
         NextAttempt
    <3>2. p # q => pc'[q] = pc[q]
      BY <2>1 DEF Start, Acquire, PublishLink, PublishCreate, PublishWrite,
         PublishTaken, ReadUnreadable, ReadHolder, ProbeAlive, ProbeDead,
         RenameLost, RenameCarry, RestoreLink, RestoreProbe, RestoreRename,
         ExamineDiscard, ExamineForeign, NextAttempt
    <3> QED
      BY <3>1, <3>2
  <2>2. ASSUME NEW p \in Proc,
               Load(p) \/ Record(p) \/ Persist(p) \/ ReleaseReady(p) \/ Crash(p)
        PROVE  lock = q
    BY <2>2 DEF Load, LoadFile, LoadMissing, LoadInit, Record, Persist, Rename, PersistOwned,
       PersistFenced, Flush, Commit, CommitLost, ReleaseReady, Crash, lockVars
  <2>3. ASSUME NEW p \in Proc, Release(p) \/ Exit(p) PROVE lock = q
    BY <2>3 DEF LockInv, Release, ReleaseOwned, ReleaseDisowned, ReleaseUnlink, Exit,
       lockVars
  <2>4. CASE OperatorRemoves
    BY <2>4 DEF OperatorRemoves
  <2> QED
    BY <2>1, <2>2, <2>3, <2>4 DEF Next
<1> QED
  BY <1>1, SerialStartsInvariant, PTL DEF Spec, RemovalIsByOwner

-----------------------------------------------------------------------------
(* That a crash leftover locks nobody out, with any number of daemons that   *)
(* start at once.                                                            *)

Newcomers == Proc \ Leftover

\* A starter that has created the lock file, or is gone.
Entered == \E p \in Newcomers : pc[p] \in Holding \cup {"write", "released", "dead"}

\* The crashed daemon's record is at the name: all are in their first attempt.
StaleAtName ==
    /\ lock \in Leftover
    /\ \A p \in Newcomers : /\ attempt[p] = 0 /\ pc[p] \notin {"examine", "refused"}
                            /\ pc[p] \in {"probe", "rename"} => seen[p] = PidOf[lock]

\* One starter carried it away, and will discard it.
StaleCarried ==
    /\ lock = None
    /\ \E p \in Newcomers :
        /\ pc[p] = "examine" /\ attempt[p] = 0
        /\ carried[p] \in Leftover /\ seen[p] = PidOf[carried[p]]
        /\ \A q \in Newcomers : pc[q] = "examine" => q = p

\* The name is free, and some starter is about to take it.
NameFree ==
    /\ lock = None
    /\ \E p \in Newcomers : pc[p] \in {"idle", "publish"}
    /\ \A p \in Newcomers : pc[p] # "examine"

\* Nobody has entered yet.
AtTheDoor ==
    /\ \A p \in Newcomers :
          pc[p] \in {"idle", "publish", "read", "probe", "rename", "examine", "refused"}
    /\ \A p \in Leftover : pc[p] = "dead" /\ written[p]
    /\ StaleAtName \/ StaleCarried \/ NameFree

DoorInv == TypeOK /\ (Entered \/ AtTheDoor)

\* Who has entered is never refused again.
LEMMA EnteredStays ==
    ASSUME TypeOK, Entered, [Next]_vars
    PROVE  Entered'
<1>1. PICK q \in Newcomers : pc[q] \in Holding \cup {"write", "released", "dead"}
  BY DEF Entered
<1> SUFFICES pc'[q] \in Holding \cup {"write", "released", "dead"}
  BY DEF Entered
<1> USE <1>1 DEF TypeOK, Goto, Holding, Ended, Starting, Newcomers
<1>2. CASE OperatorRemoves \/ UNCHANGED vars
  BY <1>2 DEF OperatorRemoves, vars
<1>3. ASSUME NEW p \in Proc, Start(p) \/ Acquire(p)
      PROVE  pc'[q] \in Holding \cup {"write", "released", "dead"}
  BY <1>3 DEF Start, Acquire, PublishLink, PublishCreate, PublishWrite, PublishTaken,
     ReadUnreadable, ReadHolder, ProbeAlive, ProbeDead, RenameLost, RenameCarry,
     ExamineDiscard, ExamineForeign, RestoreLink, RestoreProbe, RestoreRename, NextAttempt
<1>4. ASSUME NEW p \in Proc,
             \/ Load(p) \/ Record(p) \/ Persist(p) \/ ReleaseReady(p)
             \/ Release(p) \/ Exit(p) \/ Crash(p)
      PROVE  pc'[q] \in Holding \cup {"write", "released", "dead"}
  BY <1>4 DEF Load, LoadFile, LoadMissing, LoadInit, Record, Persist, PersistOwned,
     PersistFenced, Flush, Rename, Commit, CommitLost, ReleaseReady, Release, ReleaseOwned,
     ReleaseDisowned, ReleaseUnlink, Exit, Crash
<1> QED
  BY <1>2, <1>3, <1>4 DEF Next

\* The crashed daemon's pid is not in use.
OldPidsAreGone == \A l \in Leftover, p \in Newcomers : PidOf[l] # PidOf[p]

\* A record that is carried away is the stale one, and is carried once.
LEMMA DoorStep ==
    ASSUME Operator # "any", Newcomers # {}, OldPidsAreGone, TypeOK, AtTheDoor, [Next]_vars
    PROVE  Entered' \/ AtTheDoor'
<1> USE ProcAssumption DEF Newcomers
<1>1. \A l \in Leftover, q \in Proc : pc[q] \in Alive => PidOf[q] # PidOf[l]
  BY DEF AtTheDoor, PidAlive, OldPidsAreGone, Alive, Starting, Holding, Ended
<1>2. CASE UNCHANGED vars
  BY <1>2 DEF vars, AtTheDoor, StaleAtName, StaleCarried, NameFree
<1>3. CASE OperatorRemoves
  <2>1. \A p \in Newcomers : pc[p] = "idle"
    BY <1>3, SwitchAssumption DEF OperatorRemoves, AtTheDoor, Alive, Starting, Ended
  <2> QED
    BY <1>3, <2>1 DEF OperatorRemoves, startVars, AtTheDoor, NameFree
<1>4. ASSUME NEW p \in Proc,
             \/ Load(p) \/ Record(p) \/ Persist(p) \/ ReleaseReady(p)
             \/ Release(p) \/ Exit(p) \/ Crash(p)
      PROVE  Entered'
  <2>1. p \in Newcomers
    BY <1>4 DEF AtTheDoor, Load, LoadFile, LoadMissing, LoadInit, Record, Persist, PersistOwned,
       PersistFenced, Flush, Rename, Commit, CommitLost, ReleaseReady, Release, ReleaseOwned,
       ReleaseDisowned, ReleaseUnlink, Exit, Crash, Goto, Ended, Alive, Holding, Starting
  <2>2. pc'[p] = "dead"
    BY <1>4, <2>1 DEF AtTheDoor, Load, LoadFile, LoadMissing, LoadInit, Record, Persist,
       PersistOwned, PersistFenced, Flush, Rename, Commit, CommitLost, ReleaseReady, Release,
       ReleaseOwned, ReleaseDisowned, ReleaseUnlink, Exit, Crash, Goto, TypeOK
  <2> QED
    BY <2>1, <2>2 DEF Entered
<1>5. ASSUME NEW p \in Proc, Start(p) \/ Acquire(p)
      PROVE  Entered' \/ AtTheDoor'
  <2>1. p \in Newcomers
    BY <1>5 DEF AtTheDoor, Start, Acquire, PublishLink, PublishCreate, PublishWrite, PublishTaken,
       ReadUnreadable, ReadHolder, ProbeAlive, ProbeDead, RenameLost, RenameCarry,
       ExamineDiscard, ExamineForeign, RestoreLink, RestoreProbe, RestoreRename, NextAttempt, Goto
  <2>2. pc[p] \notin {"write", "restore", "clobber"}
    BY <2>1 DEF AtTheDoor
  <2>3. CASE PublishLink(p) \/ PublishCreate(p)
    BY <2>1, <2>3 DEF PublishLink, PublishCreate, Goto, TypeOK, Entered, Holding
  <2>4. CASE ReadUnreadable(p) \/ RenameLost(p)
    <3>1. lock = None
      BY <2>1, <2>4 DEF ReadUnreadable, RenameLost, Readable, AtTheDoor, StaleAtName, StaleCarried,
         NameFree
    <3>2. /\ \A q \in Proc : q # p => pc'[q] = pc[q] /\ attempt'[q] = attempt[q]
          /\ pc[p] \in {"read", "rename"} /\ pc'[p] \in {"refused", "publish"}
          /\ UNCHANGED <<lock, written, seen, carried>>
      BY <2>1, <2>4 DEF ReadUnreadable, RenameLost, NextAttempt, Goto, TypeOK, startVars, lockVars
    <3> QED
      BY <2>1, <3>1, <3>2 DEF AtTheDoor, StaleAtName, StaleCarried, NameFree
  <2>5. CASE Start(p) \/ PublishTaken(p) \/ ReadHolder(p) \/ ProbeDead(p)
    <3>1. /\ \A q \in Proc : q # p => pc'[q] = pc[q] /\ seen'[q] = seen[q]
          /\ UNCHANGED <<lock, written, attempt, carried>>
          /\ \/ pc[p] = "idle" /\ pc'[p] = "publish"
             \/ pc[p] = "publish" /\ pc'[p] = "read" /\ lock # None
             \/ pc[p] = "read" /\ pc'[p] = "probe" /\ lock # None /\ seen'[p] = PidOf[lock]
             \/ pc[p] = "probe" /\ pc'[p] = "rename" /\ seen'[p] = seen[p]
      BY <2>1, <2>5 DEF Start, PublishTaken, ReadHolder, ProbeDead, Readable, Goto, TypeOK,
         startVars, lockVars
    <3> QED
      BY <2>1, <3>1 DEF AtTheDoor, StaleAtName, StaleCarried, NameFree
  <2>6. CASE ProbeAlive(p)
    <3>1. lock = None
      <4>1. pc[p] = "probe" /\ PidAlive(seen[p])
        BY <2>6 DEF ProbeAlive, Goto
      <4>2. ~StaleAtName
        BY <1>1, <2>1, <4>1 DEF StaleAtName, PidAlive
      <4> QED
        BY <4>2 DEF AtTheDoor, StaleCarried, NameFree
    <3>2. /\ \A q \in Proc : q # p => pc'[q] = pc[q]
          /\ pc[p] = "probe" /\ pc'[p] = "refused"
          /\ UNCHANGED <<lock, written, seen, carried, attempt>>
      BY <2>1, <2>6 DEF ProbeAlive, Goto, TypeOK, startVars, lockVars
    <3> QED
      BY <2>1, <3>1, <3>2 DEF AtTheDoor, StaleAtName, StaleCarried, NameFree
  <2>7. CASE RenameCarry(p)
    <3>1. /\ \A q \in Proc : q # p => pc'[q] = pc[q]
          /\ pc[p] = "rename" /\ pc'[p] = "examine" /\ lock # None /\ lock' = None
          /\ carried'[p] = lock /\ UNCHANGED <<written, seen, attempt>>
      BY <2>1, <2>7 DEF RenameCarry, Goto, TypeOK
    <3>2. StaleAtName
      BY <3>1 DEF AtTheDoor, StaleCarried, NameFree
    <3>3. StaleCarried'
      <4>1. \A q \in Newcomers : pc'[q] = "examine" => q = p
        BY <3>1, <3>2 DEF StaleAtName
      <4>2. attempt'[p] = 0 /\ carried'[p] \in Leftover /\ seen'[p] = PidOf[carried'[p]]
        BY <2>1, <3>1, <3>2 DEF StaleAtName
      <4> QED
        BY <2>1, <3>1, <4>1, <4>2 DEF StaleCarried
    <3> QED
      BY <2>1, <3>1, <3>3 DEF AtTheDoor
  <2>8. CASE pc[p] = "examine" /\ (ExamineDiscard(p) \/ ExamineForeign(p))
    <3>1. /\ lock = None /\ attempt[p] = 0
          /\ carried[p] \in Leftover /\ seen[p] = PidOf[carried[p]]
          /\ \A q \in Newcomers : pc[q] = "examine" => q = p
      BY <2>1, <2>8 DEF AtTheDoor, StaleAtName, StaleCarried, NameFree
    <3>3. CarriedIsStale(p)
      BY <1>1, <3>1 DEF CarriedIsStale, AtTheDoor, PidAlive
    <3>2. /\ \A q \in Proc : q # p => pc'[q] = pc[q]
          /\ pc'[p] = "publish" /\ UNCHANGED <<lock, written>>
      BY <2>8, <3>1, <3>3 DEF ExamineDiscard, ExamineForeign, NextAttempt, Goto, TypeOK, lockVars
    <3> QED
      BY <2>1, <3>1, <3>2 DEF AtTheDoor, NameFree
  <2> QED
    BY <1>5, <2>2, <2>3, <2>4, <2>5, <2>6, <2>7, <2>8
       DEF Acquire, PublishWrite, RestoreLink, RestoreProbe, RestoreRename, Goto
<1> QED
  BY <1>2, <1>3, <1>4, <1>5 DEF Next

\* A crash leftover never locks everybody out (acquireLock, reclaimStaleLock):
\* for any number of daemons starting at once, with crashes and exits at every
\* step, as long as the crashed daemons' pids are not in use and no hand
\* deletes the lock of a running daemon.
THEOREM SomebodyGetsIn ==
    ASSUME Operator # "any", Newcomers # {}, OldPidsAreGone
    PROVE  Spec => []NotAllRefused
<1>1. Init => DoorInv
  BY InitTypeOK, ProcAssumption
  DEF Init, DoorInv, AtTheDoor, StaleAtName, StaleCarried, NameFree, Newcomers
<1>2. DoorInv /\ [Next]_vars => DoorInv'
  BY EnteredStays, DoorStep, NextTypeOK DEF DoorInv
<1>3. DoorInv => NotAllRefused
  BY DEF DoorInv, Entered, AtTheDoor, StaleAtName, StaleCarried, NameFree, NotAllRefused, Newcomers,
     Holding
<1> QED
  BY <1>1, <1>2, <1>3, PTL DEF Spec
===============================================================================

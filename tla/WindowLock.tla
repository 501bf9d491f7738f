------------------------------ MODULE WindowLock ------------------------------
(***************************************************************************)
(* The single-writer lock of the co-signer's window store                  *)
(* (cosigner/window_store.js) together with the part of the ledger         *)
(* (cosigner/window_store/window_ledger.js) the lock exists to protect:    *)
(* a cache read once at construction, and a state file rewritten wholesale *)
(* from that cache on every charge.                                        *)
(*                                                                         *)
(* One step is one file-system call: every process runs synchronous        *)
(* JavaScript, but nothing orders the calls of two processes.  A process   *)
(* is one incarnation of a daemon: it starts once, and it ends by leaving  *)
(* normally (the exit hook runs) or by crashing (it does not).  The lock   *)
(* file is identified with the process whose record it holds; `lock' is    *)
(* the directory entry, so a rename or an unlink moves or clears it        *)
(* whatever record it carries.                                             *)
(***************************************************************************)
EXTENDS Naturals

CONSTANTS
    Proc,        \* process incarnations
    PidOf,       \* the OS pid of each of them; a pid may be reused
    None,        \* "no directory entry" / "no pid"
    Leftover,    \* incarnations that ended before the behaviour starts
    HardLinks,   \* what a hardlink may do: succeed (TRUE), or fail on a mount that
                 \* cannot (FALSE, publishLock's fallback)
    Operator,    \* who deletes lock files by hand: "none", "careful", "any"
    Concurrent,  \* FALSE: a process starts only when no other is starting
    MaxCharges   \* bound on the number of record() calls

ASSUME ProcAssumption == None \notin Proc /\ Leftover \subseteq Proc
ASSUME PidAssumption == \A p \in Proc : PidOf[p] # None
ASSUME SwitchAssumption == /\ HardLinks \subseteq BOOLEAN
                           /\ Concurrent \in BOOLEAN
                           /\ Operator \in {"none", "careful", "any"}
ASSUME BoundAssumption == MaxCharges \in Nat

VARIABLES
    pc,        \* where each process is
    attempt,   \* acquireLock's loop counter
    seen,      \* the pid read from the lock file, or None
    carried,   \* the record this process renamed away, or None
    lock,      \* the record at the lock file's name, or None
    written,   \* whether a record has reached its lock file
    held,      \* the lock file is in the process's HELD_LOCKS
    cache,     \* the store's _usage, as the set of charges it holds
    charge,    \* the charge record() is writing, 0 for the initial persist
    tmp,       \* the shared <stateFile>.tmp: present and its charges
    file,      \* the state file: present and its charges
    issued,    \* charges handed out so far
    signed     \* charges whose record() returned: a signature left the daemon

lockVars == <<lock, written, held>>
startVars == <<attempt, seen, carried>>
storeVars == <<cache, charge, tmp, file, issued, signed>>
vars == <<pc, attempt, seen, carried, lock, written, held,
          cache, charge, tmp, file, issued, signed>>

Charges == 1..MaxCharges
Files == [present : BOOLEAN, charges : SUBSET Charges]

\* The phases of acquireLock and reclaimStaleLock.
Starting == {"publish", "write", "read", "probe", "rename", "examine",
             "restore", "clobber"}
\* The phases in which the process has taken the lock and not given it back.
Holding == {"load", "ready", "persist", "flush", "commit", "release", "unlink"}
\* The constructor threw, or the store was released.
Ended == {"refused", "failed", "released"}
Alive == Starting \cup Holding \cup Ended
Phases == {"idle", "dead"} \cup Alive

TypeOK ==
    /\ pc \in [Proc -> Phases]
    /\ attempt \in [Proc -> {0, 1}]
    /\ seen \in [Proc -> {PidOf[p] : p \in Proc} \cup {None}]
    /\ carried \in [Proc -> Proc \cup {None}]
    /\ lock \in Proc \cup {None}
    /\ written \in [Proc -> BOOLEAN]
    /\ held \in [Proc -> BOOLEAN]
    /\ cache \in [Proc -> SUBSET Charges]
    /\ charge \in [Proc -> Charges \cup {0}]
    /\ tmp \in Files
    /\ file \in Files
    /\ issued \in Charges \cup {0}
    /\ signed \subseteq Charges

Init ==
    /\ pc = [p \in Proc |-> IF p \in Leftover THEN "dead" ELSE "idle"]
    /\ attempt = [p \in Proc |-> 0]
    /\ seen = [p \in Proc |-> None]
    /\ carried = [p \in Proc |-> None]
    /\ lock \in Leftover \cup {None}
    /\ written = [p \in Proc |-> p \in Leftover]
    /\ held = [p \in Proc |-> FALSE]
    /\ cache = [p \in Proc |-> {}]
    /\ charge = [p \in Proc |-> 0]
    /\ tmp = [present |-> FALSE, charges |-> {}]
    /\ file \in {[present |-> b, charges |-> {}] : b \in BOOLEAN}
    /\ issued = 0
    /\ signed = {}

-----------------------------------------------------------------------------
\* kill(pid, 0): some process with this pid is running.
PidAlive(pid) == \E q \in Proc : pc[q] \in Alive /\ PidOf[q] = pid

Goto(p, from, to) == pc[p] = from /\ pc' = [pc EXCEPT ![p] = to]

\* A new process: the kernel gives it a pid no running process has.
Start(p) ==
    /\ Goto(p, "idle", "publish")
    /\ ~PidAlive(PidOf[p])
    /\ Concurrent \/ \A q \in Proc : pc[q] \notin Starting
    /\ UNCHANGED <<startVars, lockVars, storeVars>>

\* publishLock on a mount with hardlinks: the name appears with its record.
PublishLink(p) ==
    /\ TRUE \in HardLinks
    /\ Goto(p, "publish", "load")
    /\ lock = None
    /\ lock' = p
    /\ written' = [written EXCEPT ![p] = TRUE]
    /\ held' = [held EXCEPT ![p] = TRUE]
    /\ UNCHANGED <<startVars, storeVars>>

\* publishLock's fallback: open(lockFile, 'wx') creates the name empty ...
PublishCreate(p) ==
    /\ FALSE \in HardLinks
    /\ Goto(p, "publish", "write")
    /\ lock = None
    /\ lock' = p
    /\ UNCHANGED <<written, held, startVars, storeVars>>

\* ... and the record follows in a second call.
PublishWrite(p) ==
    /\ Goto(p, "write", "load")
    /\ written' = [written EXCEPT ![p] = TRUE]
    /\ held' = [held EXCEPT ![p] = TRUE]
    /\ UNCHANGED <<lock, startVars, storeVars>>

\* EEXIST: the name is taken.
PublishTaken(p) ==
    /\ Goto(p, "publish", "read")
    /\ lock # None
    /\ UNCHANGED <<startVars, lockVars, storeVars>>

\* The lock file exists and names a process.
Readable == lock # None /\ written[lock]

\* No record to read: the file is gone again, or it is still empty.
ReadUnreadable(p) ==
    /\ Goto(p, "read", "refused")
    /\ ~Readable
    /\ UNCHANGED <<startVars, lockVars, storeVars>>

ReadHolder(p) ==
    /\ Goto(p, "read", "probe")
    /\ Readable
    /\ seen' = [seen EXCEPT ![p] = PidOf[lock]]
    /\ UNCHANGED <<attempt, carried, lockVars, storeVars>>

ProbeAlive(p) ==
    /\ Goto(p, "probe", "refused")
    /\ PidAlive(seen[p])
    /\ UNCHANGED <<startVars, lockVars, storeVars>>

ProbeDead(p) ==
    /\ Goto(p, "probe", "rename")
    /\ ~PidAlive(seen[p])
    /\ UNCHANGED <<startVars, lockVars, storeVars>>

\* acquireLock's loop: two attempts, then WINDOW_STORE_LOCKED.
NextAttempt(p, from) ==
    IF attempt[p] = 0
    THEN Goto(p, from, "publish") /\ attempt' = [attempt EXCEPT ![p] = 1]
    ELSE Goto(p, from, "refused") /\ UNCHANGED attempt

\* reclaimStaleLock: another starter carried the file away first.
RenameLost(p) ==
    /\ lock = None
    /\ NextAttempt(p, "rename")
    /\ UNCHANGED <<seen, carried, lockVars, storeVars>>

\* reclaimStaleLock: carry away whatever is at the name now.
RenameCarry(p) ==
    /\ Goto(p, "rename", "examine")
    /\ lock # None
    /\ carried' = [carried EXCEPT ![p] = lock]
    /\ lock' = None
    /\ UNCHANGED <<attempt, seen, written, held, storeVars>>

\* Mutant: the carried record is taken for the stale one without a look.
CarriedIsStaleUnchecked(p) == TRUE

\* Mutant: the carried record is never the stale one.
CarriedIsStaleNever(p) == FALSE

\* The carried record is the dead holder that authorized the takeover.
CarriedIsStale(p) ==
    /\ written[carried[p]]
    /\ PidOf[carried[p]] = seen[p]
    /\ ~PidAlive(seen[p])

\* It is: delete it and go round the loop.
ExamineDiscard(p) ==
    /\ CarriedIsStale(p)
    /\ NextAttempt(p, "examine")
    /\ carried' = [carried EXCEPT ![p] = None]
    /\ UNCHANGED <<seen, lockVars, storeVars>>

ExamineForeign(p) ==
    /\ Goto(p, "examine", "restore")
    /\ ~CarriedIsStale(p)
    /\ UNCHANGED <<startVars, lockVars, storeVars>>

\* It is not: link it back unless the name was taken meanwhile, and refuse.
\* A carried file that cannot go back is unlinked, or left for the operator;
\* no process reads it again.
RestoreLink(p) ==
    /\ TRUE \in HardLinks \/ lock # None
    /\ Goto(p, "restore", "refused")
    /\ lock' = IF lock = None THEN carried[p] ELSE lock
    /\ carried' = [carried EXCEPT ![p] = None]
    /\ UNCHANGED <<attempt, seen, written, held, storeVars>>

\* Without hardlinks: existsSync(lockFile) is false ...
RestoreProbe(p) ==
    /\ FALSE \in HardLinks
    /\ lock = None
    /\ Goto(p, "restore", "clobber")
    /\ UNCHANGED <<startVars, lockVars, storeVars>>

\* ... and rename puts the record back over whatever appeared since.
RestoreRename(p) ==
    /\ Goto(p, "clobber", "refused")
    /\ lock' = carried[p]
    /\ carried' = [carried EXCEPT ![p] = None]
    /\ UNCHANGED <<attempt, seen, written, held, storeVars>>

-----------------------------------------------------------------------------
\* lockIsOurs() is not false: an empty record proves nothing either way.
NotDisowned(p) == lock # None /\ (written[lock] => lock = p)

\* Mutant: an existing state file is taken for an empty window.
LoadFileAsEmpty(p) ==
    /\ Goto(p, "load", "ready")
    /\ file.present
    /\ cache' = [cache EXCEPT ![p] = {}]
    /\ UNCHANGED <<charge, tmp, file, issued, signed, startVars, lockVars>>

\* load(): the state file exists and is cached for the store's lifetime.
LoadFile(p) ==
    /\ Goto(p, "load", "ready")
    /\ file.present
    /\ cache' = [cache EXCEPT ![p] = file.charges]
    /\ UNCHANGED <<charge, tmp, file, issued, signed, startVars, lockVars>>

\* load(): no state file and no init flag is WINDOW_STATE_MISSING.
LoadMissing(p) ==
    /\ Goto(p, "load", "release")
    /\ ~file.present
    /\ UNCHANGED <<startVars, lockVars, storeVars>>

\* load() with init: true creates an empty window and persists it.
LoadInit(p) ==
    /\ Goto(p, "load", "persist")
    /\ ~file.present
    /\ cache' = [cache EXCEPT ![p] = {}]
    /\ charge' = [charge EXCEPT ![p] = 0]
    /\ UNCHANGED <<tmp, file, issued, signed, startVars, lockVars>>

\* record(): assertLockOwned, then the row is pushed onto the cached array.
Record(p) ==
    /\ Goto(p, "ready", "persist")
    /\ issued < MaxCharges
    /\ NotDisowned(p)
    /\ issued' = issued + 1
    /\ charge' = [charge EXCEPT ![p] = issued']
    /\ cache' = [cache EXCEPT ![p] = @ \cup {issued'}]
    /\ UNCHANGED <<tmp, file, signed, startVars, lockVars>>

\* persist(): assertLockOwned again.
PersistOwned(p) ==
    /\ Goto(p, "persist", "flush")
    /\ NotDisowned(p)
    /\ UNCHANGED <<startVars, lockVars, storeVars>>

\* WINDOW_STORE_FENCED: record() throws and no signature is released; inside
\* the constructor the throw also releases the lock.  The row stays cached.
PersistFenced(p) ==
    /\ Goto(p, "persist", IF charge[p] = 0 THEN "release" ELSE "ready")
    /\ ~NotDisowned(p)
    /\ UNCHANGED <<startVars, lockVars, storeVars>>

\* persist(): the whole cache goes to <stateFile>.tmp ...
Flush(p) ==
    /\ Goto(p, "flush", "commit")
    /\ tmp' = [present |-> TRUE, charges |-> cache[p]]
    /\ UNCHANGED <<cache, charge, file, issued, signed, startVars, lockVars>>

\* ... and is renamed over the state file; record() returns.
Commit(p) ==
    /\ Goto(p, "commit", "ready")
    /\ tmp.present
    /\ file' = tmp
    /\ tmp' = [present |-> FALSE, charges |-> {}]
    /\ signed' = IF charge[p] = 0 THEN signed ELSE signed \cup {charge[p]}
    /\ UNCHANGED <<cache, charge, issued, startVars, lockVars>>

\* Another writer renamed the shared tmp first: ENOENT, record() throws.
CommitLost(p) ==
    /\ Goto(p, "commit", IF charge[p] = 0 THEN "release" ELSE "ready")
    /\ ~tmp.present
    /\ UNCHANGED <<startVars, lockVars, storeVars>>

Rename(p) == IF tmp.present THEN Commit(p) ELSE CommitLost(p)

\* release(): called by the constructor's catch and by cosigner-init-window.
ReleaseReady(p) ==
    /\ Goto(p, "ready", "release")
    /\ UNCHANGED <<startVars, lockVars, storeVars>>

ReleaseOwned(p) ==
    /\ Goto(p, "release", "unlink")
    /\ NotDisowned(p)
    /\ UNCHANGED <<startVars, lockVars, storeVars>>

ReleaseDisowned(p) ==
    /\ Goto(p, "release", "released")
    /\ ~NotDisowned(p)
    /\ held' = [held EXCEPT ![p] = FALSE]
    /\ UNCHANGED <<lock, written, startVars, storeVars>>

ReleaseUnlink(p) ==
    /\ Goto(p, "unlink", "released")
    /\ lock' = None
    /\ held' = [held EXCEPT ![p] = FALSE]
    /\ UNCHANGED <<written, startVars, storeVars>>

-----------------------------------------------------------------------------

\* The exit hook unlinks every name in HELD_LOCKS.
Exit(p) ==
    /\ pc[p] \in Ended \cup {"ready"}
    /\ pc' = [pc EXCEPT ![p] = "dead"]
    /\ lock' = IF held[p] THEN None ELSE lock
    /\ held' = [held EXCEPT ![p] = FALSE]
    /\ UNCHANGED <<written, startVars, storeVars>>

\* SIGKILL, power loss, or a signal with no handler: nothing runs.
Crash(p) ==
    /\ pc[p] \in Alive
    /\ pc' = [pc EXCEPT ![p] = "dead"]
    /\ carried' = [carried EXCEPT ![p] = None]
    /\ held' = [held EXCEPT ![p] = FALSE]
    /\ UNCHANGED <<attempt, seen, lock, written, storeVars>>

\* An operator deletes the lock file; a careful one first makes sure that no
\* daemon is running against the state file.
OperatorRemoves ==
    /\ \/ Operator = "any"
       \/ Operator = "careful" /\ \A p \in Proc : pc[p] \notin Alive
    /\ lock # None
    /\ lock' = None
    /\ UNCHANGED <<pc, written, held, startVars, storeVars>>

Acquire(p) ==
    \/ PublishLink(p) \/ PublishCreate(p) \/ PublishWrite(p) \/ PublishTaken(p)
    \/ ReadUnreadable(p) \/ ReadHolder(p) \/ ProbeAlive(p) \/ ProbeDead(p)
    \/ RenameLost(p) \/ RenameCarry(p)
    \/ pc[p] = "examine" /\ (ExamineDiscard(p) \/ ExamineForeign(p))
    \/ RestoreLink(p) \/ RestoreProbe(p) \/ RestoreRename(p)

Load(p) == LoadFile(p) \/ LoadMissing(p) \/ LoadInit(p)

Persist(p) ==
    PersistOwned(p) \/ PersistFenced(p) \/ Flush(p) \/ Rename(p)

Release(p) ==
    ReleaseOwned(p) \/ ReleaseDisowned(p) \/ ReleaseUnlink(p)

Next ==
    \/ \E p \in Proc :
          \/ Start(p) \/ Acquire(p) \/ Load(p) \/ Record(p) \/ Persist(p)
          \/ ReleaseReady(p) \/ Release(p) \/ Exit(p) \/ Crash(p)
    \/ OperatorRemoves

Spec == Init /\ [][Next]_vars

-----------------------------------------------------------------------------
\* Two live processes never hold the store at once: the lock "REFUSES to start
\* while another live process holds it" (window_store.js, header).
SingleHolder ==
    \A p, q \in Proc : pc[p] \in Holding /\ pc[q] \in Holding => p = q

\* Every charge a signature was released for is in the state file, whatever
\* crashes, restarts and takeovers happened since: no write from another
\* store's cache discards consumption history (window_ledger.js, persist).
ChargesSurvive == signed \subseteq file.charges

\* A lock a process still answers for disappears from its name only by that
\* process's own release or exit (window_store.js, release: "Only ever remove
\* a lock this instance still owns").  Renaming aside is reclaimStaleLock's
\* business and is not a removal.
RemovalStep ==
    \A p \in Proc :
        pc[p] \in Ended \cup Holding /\ pc'[p] # pc[p] /\ lock # None /\ lock' = None
            => lock = p

RemovalIsByOwner == [][RemovalStep]_vars

\* A crash leftover never locks everybody out: if nobody died and nobody gave
\* the store up, the starters are not all refused (acquireLock: "refusing to
\* start after a crash would turn a liveness blip into an operator-only
\* recovery").
NotAllRefused == ~ \A p \in Proc \ Leftover : pc[p] = "refused"

-----------------------------------------------------------------------------
(***************************************************************************)
(* Why the discipline works when daemons are started one at a time (a      *)
(* supervisor, a deploy script): the inductive argument.                   *)
(***************************************************************************)

\* The process that is starting, if any, is the only one that can publish, so
\* the record it saw stays the one at the name, or the name is free.
LockInv ==
    /\ \A p, q \in Proc : pc[p] \in Starting /\ pc[q] \in Starting => p = q
    /\ \A p \in Proc :
        /\ pc[p] \in Holding <=> held[p]
        /\ pc[p] \in Holding => lock = p /\ written[p]
        /\ pc[p] = "write" => lock = p
        /\ pc[p] \in {"probe", "rename"} /\ lock # None =>
              PidOf[lock] = seen[p] /\ written[lock]
        /\ pc[p] = "rename" => ~PidAlive(seen[p])
        /\ pc[p] = "examine" => lock = None /\ carried[p] # None /\ CarriedIsStale(p)
        /\ pc[p] \notin {"restore", "clobber"}

\* The cache of the one store that may write contains every signed charge.
LedgerInv ==
    /\ file.present \/ signed = {}
    /\ signed \subseteq file.charges
    /\ \A p \in Proc :
        /\ pc[p] \in {"ready", "persist", "flush", "commit"} => signed \subseteq cache[p]
        /\ pc[p] \in {"persist", "flush", "commit"} => charge[p] \in cache[p] \cup {0}
        /\ pc[p] = "commit" => tmp.present /\ tmp.charges = cache[p]

\* With starts serialized, and no hand deleting a live lock: the inductive
\* invariant behind SingleHolder, ChargesSurvive and RemovalIsByOwner.
SerialInv == TypeOK /\ LockInv /\ LedgerInv
=============================================================================

-------------------------------- MODULE Wal ---------------------------------
(***************************************************************************)
(* The write-ahead log of src/src/wal.rs: appends ordered by the caller's  *)
(* writer lock, group commit (one thread fsyncs, the rest wait on a        *)
(* condition variable and are covered by it), the two ways the log is      *)
(* reclaimed, and what a crash and the next open make of the file.         *)
(*                                                                         *)
(* Every critical section of `state: Mutex<WalState>` is one action; what  *)
(* runs outside it (the commit window's sleep, the fsync, the directory    *)
(* fsync after a rename) lies between two actions.                         *)
(*                                                                         *)
(* Abstractions.  A batch is its number in append order.  The file is the  *)
(* set of its frames, ordered by `seq`, which the code stamps in file      *)
(* order; `syncedTo` is the last sequence known to be on the platter.      *)
(* Byte counts, checksums and the magic are left out: recovery is modelled *)
(* by what it decides about a complete, a torn and a torn-then-overwritten *)
(* frame.                                                                  *)
(***************************************************************************)
EXTENDS Integers, FiniteSets

CONSTANTS
    Threads,        \* ingesting threads
    Window,         \* Config::wal_commit_window is set
    Faults,         \* the faults this instance may suffer (see FaultKinds)
    MaxAppends,     \* bound: batches ever appended
    MaxSequence,    \* bound: stamps ever handed out
    MaxEpoch,       \* bound: generations a checkpoint advances to
    MaxFaults       \* bound: faults, crashes included

FaultKinds ==
    {"kill",          \* the process dies, the page cache survives
     "power",         \* power loss while no rename awaits its directory fsync
     "power_rename",  \* power loss between a rename and its directory fsync
     "clone",         \* File::try_clone fails (descriptor limit)
     "fsync",         \* sync_data fails
     "short_write",   \* write_all fails part-way (disk full)
     "stage",         \* staging a rewrite fails before its rename
     "dirsync"}       \* the directory fsync after a rename fails

ASSUME WindowAssumption == Window \in BOOLEAN
ASSUME FaultsAssumption == Faults \subseteq FaultKinds
ASSUME BoundsAssumption ==
    MaxAppends \in Nat /\ MaxSequence \in Nat /\ MaxEpoch \in Nat /\ MaxFaults \in Nat

VARIABLES
    \* the file
    log,            \* frames of the published wal.log
    syncedTo,       \* frames of `log` with seq <= syncedTo are fsynced
    prior,          \* files a power loss may bring back: the rename is not yet durable
    inode,          \* how many times the published file was replaced
    \* WalState
    written_lsn, durable_lsn, syncing, epoch, sequence,
    \* threads
    pc, lsn, target, handle,
    renamed,        \* a rewrite holds the writer lock, its directory fsync pending
    \* bookkeeping
    status,         \* "up", "down", or "refused" by recovery
    base,           \* batches appended before this process opened the log
    settled,        \* batches in fsynced segments, or deleted on purpose
    acked,          \* batches whose commit returned Ok
    faults

file   == <<log, syncedTo, prior, inode>>
state  == <<written_lsn, durable_lsn, syncing, epoch, sequence>>
thread == <<pc, lsn, target, handle>>
ghost  == <<base, settled, acked>>
vars   == <<file, state, thread, renamed, status, ghost, faults>>

Frame == [seq : Nat, epoch : Nat, batches : SUBSET (Nat \ {0}), torn : BOOLEAN]

appended == base + written_lsn
BatchesOf(frames) == UNION {f.batches : f \in frames}
Durable == BatchesOf({f \in log : f.seq <= syncedTo})
LastSeq(frames) == IF frames = {} THEN 0
                   ELSE (CHOOSE f \in frames : \A g \in frames : g.seq <= f.seq).seq
LastEpoch(frames) == IF frames = {} THEN 0
                     ELSE (CHOOSE f \in frames : \A g \in frames : g.epoch <= f.epoch).epoch
Larger(a, b) == IF a >= b THEN a ELSE b

Fault(kind) == kind \in Faults /\ faults < MaxFaults /\ faults' = faults + 1

Init == /\ log = {} /\ syncedTo = 0 /\ prior = {} /\ inode = 0
        /\ written_lsn = 0 /\ durable_lsn = 0 /\ syncing = FALSE
        /\ epoch = 0 /\ sequence = 0
        /\ pc = [t \in Threads |-> "idle"]
        /\ lsn = [t \in Threads |-> 0]
        /\ target = [t \in Threads |-> 0]
        /\ handle = [t \in Threads |-> 0]
        /\ renamed = FALSE
        /\ status = "up"
        /\ base = 0 /\ settled = {} /\ acked = {}
        /\ faults = 0

-----------------------------------------------------------------------------
(* Appending, under the caller's writer lock.                              *)

WriterFree == status = "up" /\ ~renamed

Stamped(batches, torn) ==
    [seq |-> sequence + 1, epoch |-> epoch, batches |-> batches, torn |-> torn]

Append(t) ==
    /\ WriterFree /\ pc[t] = "idle"
    /\ appended < MaxAppends /\ sequence < MaxSequence
    /\ sequence' = sequence + 1
    /\ log' = log \cup {Stamped({appended + 1}, FALSE)}
    /\ written_lsn' = written_lsn + 1
    /\ lsn' = [lsn EXCEPT ![t] = written_lsn']
    /\ pc' = [pc EXCEPT ![t] = "commit"]
    /\ UNCHANGED <<syncedTo, prior, inode, durable_lsn, syncing, epoch, target, handle,
                   renamed, status, ghost, faults>>

\* write_all returns an error after some bytes landed: the stamp is consumed and
\* the bytes stay in the file, the batch is not admitted.
ShortWrite(t) ==
    /\ WriterFree /\ pc[t] = "idle" /\ sequence < MaxSequence
    /\ Fault("short_write")
    /\ sequence' = sequence + 1
    /\ log' = log \cup {Stamped({}, TRUE)}
    /\ UNCHANGED <<syncedTo, prior, inode, written_lsn, durable_lsn, syncing, epoch,
                   thread, renamed, status, ghost>>

-----------------------------------------------------------------------------
(* Group commit.                                                           *)

Up(t, at) == status = "up" /\ pc[t] = at

Woken_Nobody(f) == f
\* Condvar::notify_all, on a state in which the caller's own pc is `f`.
Woken(f) == [t \in Threads |-> IF f[t] = "waiting" THEN "commit" ELSE f[t]]

Acked(t) == acked \cup {base + lsn[t]}

\* The locals of commit are dead once it returns.
Forget(locals, t) == [locals EXCEPT ![t] = 0]

CommitReturn(t) ==
    /\ Up(t, "commit") /\ durable_lsn >= lsn[t]
    /\ pc' = [pc EXCEPT ![t] = "idle"]
    /\ acked' = Acked(t)
    /\ lsn' = Forget(lsn, t)
    /\ UNCHANGED <<file, state, target, handle, renamed, status, base, settled, faults>>

CommitWait(t) ==
    /\ Up(t, "commit") /\ durable_lsn < lsn[t] /\ syncing
    /\ pc' = [pc EXCEPT ![t] = "waiting"]
    /\ UNCHANGED <<file, state, lsn, target, handle, renamed, status, ghost, faults>>

CommitStart(t) ==
    /\ Up(t, "commit") /\ durable_lsn < lsn[t] /\ ~syncing
    /\ syncing' = TRUE
    /\ target' = [target EXCEPT ![t] = written_lsn]
    /\ handle' = [handle EXCEPT ![t] = inode]
    /\ pc' = [pc EXCEPT ![t] = IF Window THEN "window" ELSE "fsync"]
    /\ UNCHANGED <<file, written_lsn, durable_lsn, epoch, sequence, lsn, renamed, status,
                   ghost, faults>>

\* `state.syncing = true` precedes `try_clone()?`: an error leaves the flag set.
CommitStartFails(t) ==
    /\ Up(t, "commit") /\ durable_lsn < lsn[t] /\ ~syncing
    /\ Fault("clone")
    /\ syncing' = TRUE
    /\ pc' = [pc EXCEPT ![t] = "idle"]
    /\ lsn' = Forget(lsn, t)
    /\ UNCHANGED <<file, written_lsn, durable_lsn, epoch, sequence, target, handle,
                   renamed, status, ghost>>

\* The commit window: appends that landed during the sleep ride along.
Reclone(t) ==
    /\ Up(t, "window")
    /\ target' = [target EXCEPT ![t] = written_lsn]
    /\ handle' = [handle EXCEPT ![t] = inode]
    /\ pc' = [pc EXCEPT ![t] = "fsync"]
    /\ UNCHANGED <<file, state, lsn, renamed, status, ghost, faults>>

RecloneFails(t) ==
    /\ Up(t, "window") /\ Fault("clone")
    /\ pc' = [pc EXCEPT ![t] = "idle"]
    /\ lsn' = Forget(lsn, t) /\ target' = Forget(target, t) /\ handle' = Forget(handle, t)
    /\ UNCHANGED <<file, state, renamed, status, ghost>>

\* The fsync runs with no lock held, on the file the handle was cloned from;
\* it covers whatever that file holds by then.
Fsync(t) ==
    /\ Up(t, "fsync")
    /\ IF handle[t] = inode
         THEN syncedTo' = sequence /\ prior' = prior
         ELSE /\ syncedTo' = syncedTo
              /\ prior' = {IF p.inode = handle[t] THEN [p EXCEPT !.syncedTo = p.last] ELSE p
                             : p \in prior}
    /\ pc' = [pc EXCEPT ![t] = "synced"]
    /\ UNCHANGED <<log, inode, state, lsn, target, handle, renamed, status, ghost, faults>>

FsyncFails(t) ==
    /\ Up(t, "fsync") /\ Fault("fsync")
    /\ pc' = [pc EXCEPT ![t] = "failed"]
    /\ UNCHANGED <<file, state, lsn, target, handle, renamed, status, ghost>>

\* What was written before the sync began; later arrivals wait for the next one.
Covered_Late(t) == written_lsn
Covered(t) == target[t]

CommitFinish(t) ==
    /\ Up(t, "synced")
    /\ syncing' = FALSE
    /\ durable_lsn' = Larger(durable_lsn, Covered(t))
    /\ pc' = Woken([pc EXCEPT ![t] = "commit"])
    /\ target' = Forget(target, t) /\ handle' = Forget(handle, t)
    /\ UNCHANGED <<file, written_lsn, epoch, sequence, lsn, renamed, status, ghost, faults>>

CommitFail(t) ==
    /\ Up(t, "failed")
    /\ syncing' = FALSE
    /\ pc' = Woken([pc EXCEPT ![t] = "idle"])
    /\ lsn' = Forget(lsn, t) /\ target' = Forget(target, t) /\ handle' = Forget(handle, t)
    /\ UNCHANGED <<file, written_lsn, durable_lsn, epoch, sequence, renamed, status, ghost,
                   faults>>

-----------------------------------------------------------------------------
(* The caller's side: a seal publishes an fsynced segment that holds every *)
(* batch appended before its drain; a seal, an expiry, an erasure and a    *)
(* checkpoint then reclaim the log, all under the writer lock.             *)

Unsettled == BatchesOf(log) \ settled

Settle ==
    /\ status = "up" /\ Unsettled # {}
    /\ \E n \in Unsettled : settled' = settled \cup {b \in BatchesOf(log) : b <= n}
    /\ UNCHANGED <<file, state, thread, renamed, status, base, acked, faults>>

\* Truncation to the magic.
NothingUnsettled_Assumed == TRUE
NothingUnsettled == Unsettled = {}

Reset ==
    /\ WriterFree /\ log # {} /\ NothingUnsettled
    /\ log' = {}
    /\ syncedTo' = sequence
    /\ durable_lsn' = written_lsn
    /\ pc' = Woken(pc)
    /\ UNCHANGED <<prior, inode, written_lsn, syncing, epoch, sequence, lsn, target, handle,
                   renamed, status, ghost, faults>>

AdvanceEpoch(e) ==
    /\ status = "up" /\ e > epoch
    /\ epoch' = Larger(epoch, e)
    /\ UNCHANGED <<file, written_lsn, durable_lsn, syncing, sequence, thread, renamed, status,
                   ghost, faults>>

\* The survivors are the buffered spans no segment holds; an expiry or an
\* erasure that removes every one of them rewrites to a log with no frame.
SurvivorFrame(e) ==
    IF Unsettled = {} THEN {}
    ELSE {[seq |-> sequence + 1, epoch |-> Larger(epoch, e), batches |-> Unsettled,
           torn |-> FALSE]}

StampRewrite(e) ==
    /\ epoch' = Larger(epoch, e)
    /\ sequence' = IF Unsettled = {} THEN sequence ELSE sequence + 1

\* Staged, fsynced, renamed; the state is updated and the waiters released
\* before the directory fsync.
Rewrite(e) ==
    /\ WriterFree /\ log # {} /\ sequence < MaxSequence
    /\ StampRewrite(e)
    /\ log' = SurvivorFrame(e)
    /\ syncedTo' = sequence'
    /\ prior' = prior \cup {[log |-> log, syncedTo |-> syncedTo, last |-> sequence, inode |-> inode]}
    /\ inode' = inode + 1
    /\ durable_lsn' = written_lsn
    /\ pc' = Woken(pc)
    /\ renamed' = TRUE
    /\ UNCHANGED <<written_lsn, syncing, lsn, target, handle, status, ghost, faults>>

RewriteFails(e) ==
    /\ WriterFree /\ log # {} /\ sequence < MaxSequence
    /\ Fault("stage")
    /\ StampRewrite(e)
    /\ UNCHANGED <<file, written_lsn, durable_lsn, syncing, thread, renamed, status, ghost>>

DirectorySync ==
    /\ status = "up" /\ renamed
    /\ renamed' = FALSE
    /\ prior' = {}
    /\ UNCHANGED <<log, syncedTo, inode, state, thread, status, ghost, faults>>

DirectorySyncFails ==
    /\ status = "up" /\ renamed /\ Fault("dirsync")
    /\ renamed' = FALSE
    /\ UNCHANGED <<file, state, thread, status, ghost>>

-----------------------------------------------------------------------------
(* Crash, recovery and reopening.                                          *)

Die == /\ status = "up" /\ status' = "down"
       /\ pc' = [t \in Threads |-> "idle"]
       /\ lsn' = [t \in Threads |-> 0]
       /\ target' = [t \in Threads |-> 0]
       /\ handle' = [t \in Threads |-> 0]
       /\ renamed' = FALSE
       /\ UNCHANGED <<inode, state, ghost>>

Kill == Fault("kill") /\ Die /\ UNCHANGED <<log, syncedTo, prior>>

Power ==
    /\ Fault("power") /\ prior = {} /\ Die
    /\ \E n \in syncedTo..sequence : /\ log' = {f \in log : f.seq <= n}
                                     /\ syncedTo' = n
    /\ UNCHANGED prior

PowerDuringRename ==
    /\ Fault("power_rename") /\ Die
    /\ \E p \in prior : \E n \in p.syncedTo..p.last :
          /\ log' = {f \in p.log : f.seq <= n}
          /\ syncedTo' = n
    /\ prior' = {}

Torn == {f \in log : f.torn}
Intact == {f \in log : \A g \in Torn : f.seq < g.seq}

\* What replay trusts.  A torn frame ends the log when nothing follows it.  With
\* frames after it the declared length swallows them: replay refuses a checksum
\* that fails, or takes the rest for a torn tail when the length runs past the end.
Replayed(refuse) ==
    IF refuse THEN Torn # {} /\ \E f \in log : ~f.torn /\ f \notin Intact
    ELSE TRUE

Refuse ==
    /\ status = "down" /\ Replayed(TRUE)
    /\ status' = "refused"
    /\ UNCHANGED <<file, state, thread, renamed, ghost, faults>>

ResumeAfter_Restarted == 0
ResumeAfter == LastSeq(Intact)

\* Truncating a torn tail also syncs the file.
Open ==
    /\ status = "down" /\ Replayed(FALSE)
    /\ status' = "up"
    /\ log' = Intact
    /\ sequence' = ResumeAfter
    /\ syncedTo' = IF Torn = {} /\ syncedTo <= sequence' THEN syncedTo ELSE sequence'
    /\ epoch' = LastEpoch(Intact)
    /\ base' = appended
    /\ written_lsn' = 0 /\ durable_lsn' = 0 /\ syncing' = FALSE
    /\ UNCHANGED <<prior, inode, thread, renamed, settled, acked, faults>>

-----------------------------------------------------------------------------
CommitStep(t) == \/ CommitReturn(t) \/ CommitWait(t) \/ CommitStart(t)
                 \/ Reclone(t) \/ Fsync(t) \/ CommitFinish(t) \/ CommitFail(t)

CallerStep == \/ Settle \/ Reset \/ DirectorySync \/ DirectorySyncFails
              \/ \E e \in 0..MaxEpoch : AdvanceEpoch(e) \/ Rewrite(e) \/ RewriteFails(e)

RestartStep == Kill \/ Power \/ Open

Next == \/ \E t \in Threads : Append(t) \/ CommitStep(t) \/ FsyncFails(t)
        \/ CallerStep
        \/ RestartStep

Spec == Init /\ [][Next]_vars

\* The faults the log does not survive.  Spec leaves them out; a run that shows
\* what they break takes UnsafeSpec.
UnsafeFault ==
    \/ \E t \in Threads : ShortWrite(t) \/ CommitStartFails(t) \/ RecloneFails(t)
    \/ PowerDuringRename \/ Refuse

UnsafeSpec == Init /\ [][Next \/ UnsafeFault]_vars

\* A thread inside commit is scheduled, a pending directory fsync returns.
FairSpec == /\ Spec
            /\ \A t \in Threads : WF_vars(CommitStep(t))
            /\ WF_vars(DirectorySync)

-----------------------------------------------------------------------------
PC == {"idle", "commit", "waiting", "window", "fsync", "synced", "failed"}

\* Every variable stays in the range the code gives it.
TypeOK ==
    /\ log \subseteq Frame /\ syncedTo \in Nat /\ inode \in Nat
    /\ prior \subseteq [log : SUBSET Frame, syncedTo : Nat, last : Nat, inode : Nat]
    /\ written_lsn \in Nat /\ durable_lsn \in Nat /\ syncing \in BOOLEAN
    /\ epoch \in Nat /\ sequence \in Nat
    /\ pc \in [Threads -> PC]
    /\ lsn \in [Threads -> Nat] /\ target \in [Threads -> Nat] /\ handle \in [Threads -> Nat]
    /\ renamed \in BOOLEAN
    /\ status \in {"up", "down", "refused"}
    /\ base \in Nat /\ settled \subseteq Nat /\ acked \subseteq Nat
    /\ faults \in Nat

\* Group commit never acknowledges on another thread's promise: whatever
\* commit() returned Ok for is, in the file a restart reads, at or before the
\* fsynced prefix, or no longer needs the log (wal.rs commit, reset, rewrite).
AckedIsDurable == acked \subseteq settled \cup Durable

\* Stamps order the file for the life of the store: across rewrites, epoch
\* changes and restarts no two frames share a sequence, none is ahead of the
\* counter, and a later frame never carries an earlier epoch, so the tuple
\* order recovery compares with folded_through is the append order.
StampsFollowFileOrder ==
    /\ \A f, g \in log : /\ f.seq = g.seq => f = g
                         /\ f.seq < g.seq => f.epoch <= g.epoch
    /\ status = "up" => \A f \in log : f.seq <= sequence /\ f.epoch <= epoch

Syncer(t) == pc[t] \in {"window", "fsync", "synced", "failed"}

\* One fsync at a time, and a waiter always has somebody to wake it: a thread
\* sleeps on the condition variable only while another is between setting and
\* clearing `syncing` (wal.rs commit).
WaiterHasSyncer ==
    /\ \A t, u \in Threads : Syncer(t) /\ Syncer(u) => t = u
    /\ (\E t \in Threads : pc[t] = "waiting") => \E t \in Threads : Syncer(t)

\* Every thread that enters commit leaves it, with Ok or with an error: nobody
\* waits forever on a sync that already ended (wal.rs commit).
CommitReturns == \A t \in Threads : pc[t] # "idle" ~> pc[t] = "idle"

\* The log keeps its promise to its callers.
Contract == INSTANCE DurableLog
              WITH held <- BatchesOf(log), synced <- Durable
KeepsContract == Contract!Spec
=============================================================================

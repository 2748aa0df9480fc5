------------------------------- MODULE Store --------------------------------
(***************************************************************************)
(* The storage engine of src/src/lib.rs: concurrent ingest into the write  *)
(* buffer and the log, seals that drain the buffer into segment files with *)
(* no lock held, checkpoints that publish a generation, crashes and the    *)
(* open that recovers from them, in the three durability modes.            *)
(*                                                                         *)
(* One action per critical section: the writer and segments mutexes are    *)
(* held for exactly one action, the seal permit and the maintenance lock   *)
(* across several.  The log appears through what Wal.tla shows it to be: a *)
(* set of stamped frames of which a prefix is fsynced, one group fsync     *)
(* covering every commit that waits.                                       *)
(*                                                                         *)
(* Abstractions.  A span version is the number of the batch that carried   *)
(* it, which is also the identity of its buffer handle (`upsert` allocates *)
(* afresh every time).  Whether a flush bound is reached is left open, so  *)
(* a seal may follow any batch.  Files appear by one atomic rename.        *)
(***************************************************************************)
EXTENDS Versions, FiniteSets

CONSTANTS
    Ingesters,      \* threads calling ingest_batch
    Maintainer,     \* the thread that seals on age and checkpoints
    Modes,          \* the Durability a store may be configured with
    Faults,         \* the faults this instance may suffer (see FaultKinds)
    MaxBatches,     \* bound: batches admitted
    MaxGeneration,  \* bound: generations published
    MaxFaults       \* bound: faults, crashes included

Free == "free"
FaultKinds == {"kill",      \* the process dies, the page cache survives
               "power",     \* power loss: a suffix of the unsynced frames is gone
               "io",        \* a write, rename or fsync returns an error
               "current",   \* CURRENT was renamed, its directory fsync fails
               "reopen"}    \* not a failure: a restart may pick another mode

ASSUME ProcessAssumption == Maintainer \notin Ingesters /\ Free \notin Ingesters \cup {Maintainer}
ASSUME ModesAssumption == Modes \subseteq {"wal", "flushed", "buffered"} /\ Modes # {}
ASSUME FaultsAssumption == Faults \subseteq FaultKinds
ASSUME BoundsAssumption == {MaxBatches, MaxGeneration, MaxFaults} \subseteq Nat

Procs == Ingesters \cup {Maintainer}

VARIABLES
    \* on disk
    log, syncedTo,  \* frames of wal.log; those with at <= syncedTo are fsynced
    files,          \* segment files
    manifests,      \* generation -> the stamp its manifest folded through
    current,        \* the generation CURRENT names
    \* in memory
    mode, buffer, segments, nextSegment,
    epoch, sequence, durable,
    liveGeneration,
    \* threads
    pc, batch,      \* batch: the batch the thread is admitting
    permit,         \* holder of the `sealing` mutex
    drained,        \* what the permit's holder copied out of the buffer
    folded,         \* the fold point its checkpoint captured
    checkpointing,
    \* bookkeeping
    status, batches, lost, acked, faults

logFile == <<log, syncedTo>>
disk    == <<logFile, files, manifests, current>>
stamps  == <<epoch, sequence, durable>>
list    == <<segments, nextSegment>>
memory  == <<mode, buffer, list, stamps, liveGeneration>>
sealing == <<permit, drained, folded, checkpointing>>
thread  == <<pc, batch, sealing>>
history == <<batches, lost, acked>>
vars    == <<disk, memory, thread, status, history, faults>>

-----------------------------------------------------------------------------
(* Stamps and reads.                                                       *)

\* FoldedThrough: an epoch and a sequence, compared epoch first.
NoFold == [epoch |-> 0, seq |-> 0]
Position == [epoch |-> epoch, seq |-> sequence]
StampOf(frame) == [epoch |-> frame.epoch, seq |-> frame.at]
After(s, r) == s.epoch > r.epoch \/ (s.epoch = r.epoch /\ s.seq > r.seq)

\* A read holds the writer and the segments lock together: the buffer wins,
\* then the later segment.
Visible == Over(Resolve(segments), buffer)

Fault(kind) == kind \in Faults /\ faults < MaxFaults /\ faults' = faults + 1

Init ==
    /\ log = {} /\ syncedTo = 0 /\ files = {}
    /\ manifests = [g \in {1} |-> NoFold] /\ current = 1
    /\ mode \in Modes /\ buffer = Empty /\ segments = {} /\ nextSegment = 0
    /\ epoch = IF mode = "buffered" THEN 0 ELSE 1
    /\ sequence = 0 /\ durable = 0 /\ liveGeneration = 1
    /\ pc = [p \in Procs |-> "idle"] /\ batch = [p \in Procs |-> 0]
    /\ permit = Free /\ folded = NoFold /\ checkpointing = FALSE
    /\ drained = [row |-> Empty, at |-> 0, stamp |-> NoFold]
    /\ status = "up" /\ batches = <<>> /\ lost = {} /\ acked = {} /\ faults = 0

At(p, where) == status = "up" /\ pc[p] = where
Goto(p, where) == pc' = [pc EXCEPT ![p] = where]

-----------------------------------------------------------------------------
(* Ingest.                                                                 *)

Frame(row) == [at |-> sequence + 1, epoch |-> epoch, row |-> row]

\* The append and the upserts, in one writer-lock section.
Admit(t, ks) ==
    /\ At(t, "idle") /\ Len(batches) < MaxBatches
    /\ LET b == Len(batches) + 1
           row == [k \in Keys |-> IF k \in ks THEN b ELSE 0]
       IN  /\ batches' = Append(batches, ks)
           /\ batch' = [batch EXCEPT ![t] = b]
           /\ buffer' = Over(buffer, row)
           /\ IF mode = "buffered" THEN UNCHANGED <<log, sequence>>
              ELSE log' = log \cup {Frame(row)} /\ sequence' = sequence + 1
    /\ Goto(t, IF mode = "flushed" THEN "permit" ELSE "commit")
    /\ UNCHANGED <<syncedTo, files, manifests, current, mode, list, epoch, durable,
                   liveGeneration, sealing, status, lost, acked, faults>>

Waiting(t) == At(t, "commit") /\ mode # "buffered" /\ batch[t] > durable

\* One fsync covers everything written before it; see Wal.tla.
Sync ==
    /\ \E t \in Ingesters : Waiting(t)
    /\ syncedTo' = sequence
    /\ durable' = Len(batches)
    /\ UNCHANGED <<log, files, manifests, current, mode, buffer, list, epoch, sequence,
                   liveGeneration, thread, status, history, faults>>

CommitFails(t) ==
    /\ Waiting(t) /\ Fault("io")
    /\ Goto(t, "idle") /\ batch' = [batch EXCEPT ![t] = 0]
    /\ UNCHANGED <<disk, memory, sealing, status, history>>

Committed_Unsynced(t) == At(t, "commit")
Committed(t) == At(t, "commit") /\ ~Waiting(t)

\* The call returns Ok, after the tail publish.
Acknowledge(t) ==
    /\ Goto(t, "idle")
    /\ batch' = [batch EXCEPT ![t] = 0]
    /\ acked' = IF t \in Ingesters THEN acked \cup {batch[t]} ELSE acked

CommitAck(t) ==
    /\ Committed(t) /\ Acknowledge(t)
    /\ UNCHANGED <<disk, memory, sealing, status, batches, lost, faults>>

\* A flush bound was reached when the batch was upserted.
CommitSeal(t) ==
    /\ Committed(t) /\ Goto(t, "permit")
    /\ UNCHANGED <<disk, memory, batch, sealing, status, history, faults>>

-----------------------------------------------------------------------------
(* Seals.                                                                  *)

\* maintain_buffer: the buffer is past its age.
AgeSeal ==
    /\ At(Maintainer, "idle") /\ buffer # Empty /\ Goto(Maintainer, "permit")
    /\ UNCHANGED <<disk, memory, batch, sealing, status, history, faults>>

TakePermit(t) ==
    /\ At(t, "permit") /\ permit = Free
    /\ permit' = t /\ Goto(t, "drain")
    /\ UNCHANGED <<disk, memory, batch, drained, folded, checkpointing, status, history, faults>>

Checkpoints(t) == checkpointing /\ t = Maintainer

\* SealWait::SkipIfBusy: the running seal covers the buffer.
SkipSeal(t) ==
    /\ At(t, "permit") /\ permit # Free
    /\ t \in Ingesters => mode # "flushed"
    /\ ~Checkpoints(t)
    /\ Acknowledge(t)
    /\ UNCHANGED <<disk, memory, sealing, status, batches, lost, faults>>

\* The permit is dropped, and with it the locals of the seal or checkpoint.
Release(t) == /\ permit' = Free
              /\ checkpointing' = (checkpointing /\ t # Maintainer)
              /\ drained' = [row |-> Empty, at |-> 0, stamp |-> NoFold]
              /\ folded' = NoFold

DrainNothing(t) ==
    /\ At(t, "drain") /\ buffer = Empty
    /\ IF Checkpoints(t)
         THEN Goto(t, "position") /\ UNCHANGED <<batch, sealing, acked>>
         ELSE Acknowledge(t) /\ Release(t)
    /\ UNCHANGED <<disk, memory, status, batches, lost, faults>>

\* A copy of the handles, the fold point and the segment id, all under the
\* writer lock.
Drain(t) ==
    /\ At(t, "drain") /\ buffer # Empty
    /\ drained' = [row |-> buffer, at |-> nextSegment,
                   stamp |-> IF mode = "buffered" THEN NoFold ELSE Position]
    /\ nextSegment' = nextSegment + 1
    /\ Goto(t, "write")
    /\ UNCHANGED <<disk, mode, buffer, segments, stamps, liveGeneration, batch, permit,
                   folded, checkpointing, status, history, faults>>

Sealed == [at |-> drained.at, row |-> drained.row]

\* Temp file, fsync, rename, directory fsync: no lock held.
WriteSegment(t) ==
    /\ At(t, "write") /\ ~\E f \in files : f.at = drained.at
    /\ files' = files \cup {Sealed}
    /\ Goto(t, "publish")
    /\ UNCHANGED <<logFile, manifests, current, memory, batch, sealing, status, history, faults>>

Publish(t) ==
    /\ At(t, "publish")
    /\ segments' = segments \cup {Sealed}
    /\ Goto(t, "reconcile")
    /\ UNCHANGED <<disk, mode, buffer, nextSegment, stamps, liveGeneration, batch, sealing,
                   status, history, faults>>

\* The buffer without the handles just sealed.
Survivors == [k \in Keys |-> IF buffer[k] = drained.row[k] THEN 0 ELSE buffer[k]]

ResetLog == /\ log' = {} /\ syncedTo' = sequence /\ durable' = Len(batches)
            /\ UNCHANGED <<epoch, sequence>>

RewriteLog(row, e) ==
    /\ sequence' = sequence + 1
    /\ epoch' = Larger(epoch, e)
    /\ log' = {[at |-> sequence', epoch |-> epoch', row |-> row]}
    /\ syncedTo' = sequence' /\ durable' = Len(batches)

LeaveLog == UNCHANGED <<logFile, stamps>>

NothingLeft_Assumed == TRUE
NothingLeft == Survivors = Empty

\* With nothing left over the whole log goes.  With survivors it is rewritten
\* only past flush_wal_bytes, and otherwise left as it is.
ReclaimSealed ==
    IF mode = "buffered" THEN LeaveLog
    ELSE IF NothingLeft THEN ResetLog
    ELSE LeaveLog \/ RewriteLog(Survivors, 0)

FoldPoint_Late == Position
FoldPoint == drained.stamp

Reconcile(t) ==
    /\ At(t, "reconcile")
    /\ ReclaimSealed
    /\ buffer' = Survivors
    /\ IF Checkpoints(t)
         THEN /\ Goto(t, "manifest") /\ folded' = FoldPoint
              /\ UNCHANGED <<batch, permit, drained, checkpointing, acked>>
         ELSE Acknowledge(t) /\ Release(t)
    /\ UNCHANGED <<files, manifests, current, mode, list, liveGeneration, status, batches,
                   lost, faults>>

-----------------------------------------------------------------------------
(* Checkpoints, under the maintenance lock and the permit.                 *)

NextGeneration == Larger(liveGeneration, epoch) + 1

BeginCheckpoint ==
    /\ At(Maintainer, "idle") /\ NextGeneration <= MaxGeneration
    /\ Goto(Maintainer, "permit")
    /\ checkpointing' = TRUE
    /\ UNCHANGED <<disk, memory, batch, permit, drained, folded, status, history, faults>>

\* The drain found nothing: the fold point is taken under a fresh writer lock,
\* unless a batch slipped in.
FoldPosition ==
    /\ At(Maintainer, "position")
    /\ IF buffer = Empty \/ mode = "buffered"
         THEN /\ folded' = IF mode = "buffered" THEN NoFold ELSE Position
              /\ Goto(Maintainer, "manifest")
         ELSE Goto(Maintainer, "drain") /\ UNCHANGED folded
    /\ UNCHANGED <<disk, memory, batch, permit, drained, checkpointing, status, history, faults>>

WriteManifest ==
    /\ At(Maintainer, "manifest") 
    /\ manifests' = [g \in DOMAIN manifests \cup {NextGeneration} |->
                        IF g = NextGeneration THEN folded ELSE manifests[g]]
    /\ Goto(Maintainer, "current")
    /\ UNCHANGED <<logFile, files, current, memory, batch, sealing, status, history, faults>>

\* The rename and its directory fsync: the commit point.
PublishCurrent ==
    /\ At(Maintainer, "current")
    /\ current' = NextGeneration
    /\ liveGeneration' = NextGeneration
    /\ Goto(Maintainer, IF mode = "buffered" THEN "sweep" ELSE "epoch")
    /\ UNCHANGED <<logFile, files, manifests, mode, buffer, list, stamps, batch, sealing,
                   status, history, faults>>

AdvanceEpoch ==
    /\ At(Maintainer, "epoch")
    /\ epoch' = Larger(epoch, liveGeneration)
    /\ Goto(Maintainer, "reclaim")
    /\ UNCHANGED <<disk, mode, buffer, list, sequence, durable, liveGeneration, batch, sealing,
                   status, history, faults>>

ReclaimFolded ==
    /\ At(Maintainer, "reclaim")
    /\ IF buffer = Empty THEN ResetLog ELSE RewriteLog(buffer, liveGeneration)
    /\ Goto(Maintainer, "sweep")
    /\ UNCHANGED <<files, manifests, current, mode, buffer, list, liveGeneration, batch,
                   sealing, status, history, faults>>

SweepGenerations ==
    /\ At(Maintainer, "sweep")
    /\ manifests' = [g \in {h \in DOMAIN manifests : h >= liveGeneration} |-> manifests[g]]
    /\ Goto(Maintainer, "idle") /\ Release(Maintainer)
    /\ UNCHANGED <<logFile, files, current, memory, batch, status, history, faults>>

-----------------------------------------------------------------------------
(* Failures: the call returns its error and drops the permit.              *)

Fail_KeepsPermit(p) == /\ Goto(p, "idle") /\ batch' = [batch EXCEPT ![p] = 0]
                       /\ UNCHANGED sealing
Fail(p) == /\ Goto(p, "idle") /\ batch' = [batch EXCEPT ![p] = 0] /\ Release(p)

SealFails(p) ==
    /\ status = "up" /\ pc[p] \in {"write", "reconcile", "manifest", "current", "reclaim"}
    /\ mode = "buffered" => pc[p] # "reconcile"
    /\ Fault("io") /\ Fail(p)
    /\ UNCHANGED <<disk, memory, status, history>>

\* CURRENT already names the new generation, memory still the old one.
CurrentUnsynced ==
    /\ At(Maintainer, "current")
    /\ Fault("current") /\ Fail(Maintainer)
    /\ current' = NextGeneration
    /\ UNCHANGED <<logFile, files, manifests, memory, status, history>>

Die ==
    /\ status = "up" /\ status' = "down"
    /\ pc' = [p \in Procs |-> "idle"] /\ batch' = [p \in Procs |-> 0]
    /\ Release(Maintainer)
    /\ UNCHANGED <<files, manifests, current, memory, history>>

Kill == Fault("kill") /\ Die /\ UNCHANGED logFile

Power ==
    /\ Fault("power") /\ Die
    /\ \E n \in syncedTo..Larger(syncedTo, sequence) :
          log' = {f \in log : f.at <= n} /\ syncedTo' = n

\* The frames after the fold, upserted in order.
Replay(fold) == Resolve({f \in log : After(StampOf(f), fold)})

Highest == IF log = {} THEN NoFold
           ELSE StampOf(CHOOSE f \in log : \A g \in log : ~After(StampOf(g), StampOf(f)))

ResumeEpoch == Larger(current, Highest.epoch)
ResumeAfter(fold) == Larger(Highest.seq, fold.seq)

\* The log is replayed in order over the segments on disk; frames the live
\* generation folded are discarded by stamp.
Open(m) ==
    /\ status = "down" /\ status' = "up"
    /\ m = mode \/ "reopen" \in Faults
    /\ mode' = m
    /\ segments' = files
    /\ nextSegment' = IF files = {} THEN 0 ELSE Greatest({f.at : f \in files}) + 1
    /\ liveGeneration' = current
    /\ durable' = Len(batches)
    /\ LET fold == manifests[current] IN
       IF m = "buffered"
         THEN buffer' = Empty /\ epoch' = 0 /\ sequence' = 0 /\ UNCHANGED syncedTo
         ELSE /\ buffer' = Replay(fold)
              /\ epoch' = ResumeEpoch
              /\ sequence' = ResumeAfter(fold)
              /\ syncedTo' = IF syncedTo <= sequence' THEN syncedTo ELSE sequence'
    /\ LET recovered == Over(Resolve(files), buffer')
           last == Greatest({recovered[k] : k \in Keys})
       IN  lost' = lost \cup (last + 1)..Len(batches)
    /\ UNCHANGED <<log, files, manifests, current, thread, batches, acked, faults>>

-----------------------------------------------------------------------------
IngestStep(t) == CommitAck(t) \/ CommitSeal(t)

SealStep(p) == \/ TakePermit(p) \/ DrainNothing(p) \/ Drain(p)
               \/ WriteSegment(p) \/ Publish(p) \/ Reconcile(p)

CheckpointStep == \/ FoldPosition \/ WriteManifest \/ PublishCurrent \/ AdvanceEpoch
                  \/ ReclaimFolded \/ SweepGenerations

Next ==
    \/ \E t \in Ingesters : \/ \E ks \in (SUBSET Keys) \ {{}} : Admit(t, ks)
                            \/ IngestStep(t) \/ CommitFails(t)
    \/ Sync
    \/ \E p \in Procs : SealStep(p) \/ SkipSeal(p) \/ SealFails(p)
    \/ AgeSeal \/ BeginCheckpoint \/ CheckpointStep \/ CurrentUnsynced
    \/ Kill \/ Power \/ \E m \in Modes : Open(m)

Spec == Init /\ [][Next]_vars

FairSpec ==
    /\ Spec /\ WF_vars(Sync) /\ WF_vars(CheckpointStep)
    /\ \A t \in Ingesters : WF_vars(IngestStep(t))
    /\ \A p \in Procs : SF_vars(TakePermit(p)) /\ WF_vars(SealStep(p) \/ SkipSeal(p))

-----------------------------------------------------------------------------
PC == {"idle", "commit", "permit", "drain", "write", "publish", "reconcile",
       "position", "manifest", "current", "epoch", "reclaim", "sweep"}
Stamp == [epoch : Nat, seq : Nat]

TypeOK ==
    /\ log \subseteq [at : Nat, epoch : Nat, row : Row] /\ syncedTo \in Nat
    /\ files \subseteq [at : Nat, row : Row] /\ segments \subseteq [at : Nat, row : Row]
    /\ DOMAIN manifests \subseteq Nat /\ \A g \in DOMAIN manifests : manifests[g] \in Stamp
    /\ current \in Nat /\ liveGeneration \in Nat
    /\ mode \in Modes /\ buffer \in Row /\ nextSegment \in Nat
    /\ epoch \in Nat /\ sequence \in Nat /\ durable \in Nat
    /\ pc \in [Procs -> PC] /\ batch \in [Procs -> Nat]
    /\ permit \in Procs \cup {Free} /\ checkpointing \in BOOLEAN
    /\ drained \in [at : Nat, row : Row, stamp : Stamp] /\ folded \in Stamp
    /\ status \in {"up", "down"} /\ batches \in Seq(SUBSET Keys)
    /\ lost \subseteq Nat /\ acked \subseteq Nat /\ faults \in Nat

\* What the surviving batches say the store should show.
Expected == Newest(batches, lost)

\* Power loss included, no key ever reads older than the newest batch whose ingest
\* call returned Ok (lib.rs admit, open).
AckedSurvives ==
    status = "up" =>
        \A k \in Keys : Visible[k] >= Greatest({b \in acked : k \in batches[b]})

\* Every span a folded frame carries is in a segment file at that version or
\* newer, so discarding the frame loses nothing ...
FoldedIsSealed ==
    \A f \in log : ~After(StampOf(f), manifests[current]) =>
        \A k \in Keys : f.row[k] <= Resolve(files)[k]

\* ... and no frame will ever be stamped at or before the fold of the generation a
\* restart would read.
StampsPassFold ==
    status = "up" /\ mode # "buffered" =>
        After([epoch |-> epoch, seq |-> sequence + 1], manifests[current])

\* A replay that discards by stamp discards what was sealed and nothing that is
\* new, after any sequence of checkpoints, crashes and lost publications
\* (lib.rs checkpoint_locked, open; wal.rs append, rewrite).
FoldsLoseNothing == FoldedIsSealed /\ StampsPassFold

\* Every ingest call returns, and a checkpoint that began ends however many
\* batches slip in: whoever holds the seal permit gives it back, errors included
\* (lib.rs seal, checkpoint, admit).
CallsReturn ==
    /\ \A t \in Ingesters : pc[t] # "idle" ~> pc[t] = "idle"
    /\ checkpointing ~> ~checkpointing

\* The store keeps its promise to its clients: at every instant, in the middle of
\* any seal or checkpoint and after any restart of a killed process, each key
\* reads as its newest surviving version, and a restart recovers exactly a prefix
\* of the admissions (lib.rs admit, seal_with_permit, reconcile_after_publish,
\* open).
Promise == INSTANCE SpanStore
             WITH durable <- mode # "buffered",
                  shown <- IF status = "up" THEN Visible ELSE Expected
KeepsPromise == Promise!Spec
=============================================================================

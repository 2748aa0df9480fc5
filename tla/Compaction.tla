----------------------------- MODULE Compaction -----------------------------
(***************************************************************************)
(* How Traza rewrites the segments it has already published: merges and    *)
(* their journal, retention, the crashes that interrupt either, and the    *)
(* recovery that finishes an interrupted merge (src/src/lib.rs), beside    *)
(* ingest and seals.                                                       *)
(*                                                                         *)
(* The directory is modelled name by name.  `files` and `journals` are     *)
(* what the file system shows, `synced` what the last directory fsync made *)
(* durable; after a power loss each name that differs between the two      *)
(* shows either.  A kill keeps what the file system shows.                 *)
(*                                                                         *)
(* Abstractions.  A batch is in the log and acknowledged in the action     *)
(* that admits it (Wal.tla and Store.tla take that apart).  The cutoff of  *)
(* every retention pass retires the same batches, Stale.  A segment is as  *)
(* many bytes as it holds keys.  A journal and a segment file appear       *)
(* whole, by fsync, rename and directory fsync.  Each turn of the loop in  *)
(* compact_segments is a merge of its own.                                 *)
(***************************************************************************)
EXTENDS Versions, Tiering

CONSTANTS
    Stale,          \* batches whose spans end before the retention cutoff
    ReclaimOnSeal,  \* flush_wal_bytes is so small that every seal rewrites the log
    Faults,         \* the faults this instance may suffer (see FaultKinds)
    MaxBatches,     \* bound: batches admitted
    MaxSegments,    \* bound: segment ids claimed
    MaxFaults       \* bound: faults, crashes included

Free == "free"
FaultKinds == {"kill",      \* the process dies, the page cache survives
               "power",     \* power loss: unsynced directory entries may revert
               "write",     \* writing a segment fails
               "cleanup"}   \* an unlink or directory fsync of a merge fails

ASSUME StaleAssumption == Stale \subseteq Nat \ {0}
ASSUME ReclaimAssumption == ReclaimOnSeal \in BOOLEAN
ASSUME FaultsAssumption == Faults \subseteq FaultKinds
ASSUME BoundsAssumption == {MaxBatches, MaxSegments, MaxFaults} \subseteq Nat

VARIABLES
    files, journals,        \* segment files and merge journals on disk
    synced,                 \* both, as of the last directory fsync
    log, buffer,
    segments, nextSegment,
    permit,                 \* holder of the `sealing` mutex
    sealPc, drained,        \* the seal in flight and its segment
    pc,                     \* the holder of the maintenance lock, or the open
    merge,                  \* the merge it runs or recovers
    doomed,                 \* segment ids it is about to unlink
    todo,                   \* segments its retention pass has yet to rewrite
    status,                 \* "up" or "opening"
    batches,
    reached, retired,       \* batches the last retention pass covers, and covered
    faults

disk   == <<files, journals, synced>>
memory == <<log, buffer, segments, nextSegment>>
seal   == <<sealPc, drained>>
upkeep == <<pc, merge, doomed, todo>>
ghost  == <<batches, reached, retired>>
vars   == <<disk, memory, permit, seal, upkeep, status, ghost, faults>>

Visible == Over(Resolve(segments), buffer)

\* Segments are listed by id, oldest first.
Position(s, parts) == Cardinality({t \in parts : t.at <= s.at})
Listed(parts) ==
    [i \in 1..Cardinality(parts) |-> CHOOSE s \in parts : Position(s, parts) = i]

KeysOf(row) == {k \in Keys : row[k] # 0}
BytesOf(list) == [i \in DOMAIN list |-> Cardinality(KeysOf(list[i].row))]
Ids(parts) == {p.at : p \in parts}

Fault(kind) == kind \in Faults /\ faults < MaxFaults /\ faults' = faults + 1

NoSegment == [at |-> 0, row |-> Empty]
NoMerge == [groups |-> <<>>, first |-> 0, written |-> 0,
            journal |-> [inputs |-> {}, outputs |-> {}]]

Init ==
    /\ files = {} /\ journals = {} /\ synced = [files |-> {}, journals |-> {}]
    /\ log = <<>> /\ buffer = Empty /\ segments = {} /\ nextSegment = 0
    /\ permit = Free /\ sealPc = "idle" /\ drained = NoSegment
    /\ pc = "idle" /\ merge = NoMerge /\ doomed = {} /\ todo = {}
    /\ status = "up" /\ batches = <<>> /\ reached = 0 /\ retired = 0 /\ faults = 0

\* sync_directory: every entry of the directory, whoever changed it.
SyncDirectory == synced' = [files |-> files', journals |-> journals']

-----------------------------------------------------------------------------
(* Ingest and seals.                                                       *)

Ingest(ks) ==
    /\ status = "up" /\ Len(batches) < MaxBatches
    /\ LET row == [k \in Keys |-> IF k \in ks THEN Len(batches) + 1 ELSE 0]
       IN  log' = Append(log, row) /\ buffer' = Over(buffer, row)
    /\ batches' = Append(batches, ks)
    /\ UNCHANGED <<disk, segments, nextSegment, permit, seal, upkeep, status, reached,
                   retired, faults>>

Drain ==
    /\ status = "up" /\ sealPc = "idle" /\ permit = Free /\ buffer # Empty
    /\ nextSegment < MaxSegments
    /\ permit' = "sealer" /\ sealPc' = "write"
    /\ drained' = [at |-> nextSegment, row |-> buffer]
    /\ nextSegment' = nextSegment + 1
    /\ UNCHANGED <<disk, log, buffer, segments, upkeep, status, ghost, faults>>

WriteSegment ==
    /\ sealPc = "write" /\ sealPc' = "publish"
    /\ files' = files \cup {drained}
    /\ UNCHANGED <<journals, memory, permit, drained, upkeep, status, ghost, faults>>
    /\ SyncDirectory

EndSeal == sealPc' = "idle" /\ drained' = NoSegment /\ permit' = Free

SealFails ==
    /\ sealPc = "write" /\ Fault("write") /\ EndSeal
    /\ UNCHANGED <<disk, memory, upkeep, status, ghost>>

PublishSeal ==
    /\ sealPc = "publish" /\ sealPc' = "reconcile"
    /\ segments' = segments \cup {drained}
    /\ UNCHANGED <<disk, log, buffer, nextSegment, permit, drained, upkeep, status, ghost,
                   faults>>

Logged(row) == IF row = Empty THEN <<>> ELSE <<row>>

\* The buffer keeps what was admitted during the seal.  The log is emptied if
\* nothing is left over, and otherwise rewritten only past flush_wal_bytes.
Reconcile ==
    /\ sealPc = "reconcile" /\ EndSeal
    /\ buffer' = [k \in Keys |-> IF buffer[k] = drained.row[k] THEN 0 ELSE buffer[k]]
    /\ \/ log' = Logged(buffer')
       \/ buffer' # Empty /\ ~ReclaimOnSeal /\ log' = log
    /\ UNCHANGED <<disk, segments, nextSegment, upkeep, status, ghost, faults>>

-----------------------------------------------------------------------------
(* Merges.                                                                 *)

\* The lengths of the runs compact_segments and compact_shadowed may take.
Selected ==
    LET list == Listed(segments)
        sizes == BytesOf(list)
        shadowed == ShadowedTail(sizes, [i \in DOMAIN list |-> KeysOf(list[i].row)])
    IN  {TailRun(sizes), IF shadowed >= 2 THEN shadowed ELSE 0} \cap 1..Len(list)

LastSegments(n) == {s \in segments : Cardinality({t \in segments : s.at <= t.at}) <= n}

\* A run cut into consecutive groups.
Groups(run) ==
    LET starts == MergeChunks(BytesOf(Listed(run)))
        GroupOf(s) == Cardinality({i \in starts : i <= Position(s, run)})
    IN  [g \in 1..Cardinality(starts) |-> {s \in run : GroupOf(s) = g}]

Outputs == merge.journal.outputs
Pinned == UNION {merge.groups[i] : i \in DOMAIN merge.groups}

\* The permit is awaited: no seal holds an unpublished lower id.
SealOutstanding == permit # Free

\* The run and a contiguous block of ids, under the permit and the list's lock.
PinRun(n) ==
    /\ status = "up" /\ pc = "idle" /\ ~SealOutstanding
    /\ n \in Selected
    /\ LET groups == Groups(LastSegments(n))
           last == nextSegment + Len(groups)
       IN  /\ last <= MaxSegments
           /\ nextSegment' = last
           /\ merge' = [groups |-> groups, first |-> nextSegment, written |-> 0,
                        journal |-> [inputs |-> Ids(UNION {groups[i] : i \in DOMAIN groups}),
                                     outputs |-> nextSegment..last - 1]]
    /\ pc' = "journal"
    /\ UNCHANGED <<disk, log, buffer, segments, permit, seal, doomed, todo, status, ghost,
                   faults>>

WriteJournal ==
    /\ pc = "journal" /\ pc' = "write"
    /\ journals' = journals \cup {merge.journal}
    /\ UNCHANGED <<files, memory, permit, seal, merge, doomed, todo, status, ghost, faults>>
    /\ SyncDirectory

\* Last write wins within a group; across groups the ids carry the order.
Output(i) == [at |-> merge.first + i - 1, row |-> Resolve(merge.groups[i])]

WriteOutput ==
    /\ pc = "write"
    /\ LET i == merge.written + 1
       IN  /\ files' = files \cup {Output(i)}
           /\ merge' = [merge EXCEPT !.written = i]
           /\ pc' = IF i = Len(merge.groups) THEN "publish" ELSE "write"
    /\ UNCHANGED <<journals, memory, permit, seal, doomed, todo, status, ghost, faults>>
    /\ SyncDirectory

Orphans_Completed == merge.first..merge.first + merge.written - 1
Orphans == Outputs

\* The failed output may have reached its name, its directory fsync failing.
WriteFails ==
    /\ pc = "write" /\ Fault("write")
    /\ files' \in {files, files \cup {Output(merge.written + 1)}}
    /\ pc' = "unlink" /\ doomed' = Orphans
    /\ UNCHANGED <<journals, synced, memory, permit, seal, merge, todo, status, ghost>>

\* run_position: the pinned inputs are still one contiguous block.
Contiguous == \A s \in segments \ Pinned :
                 \/ \A p \in Pinned : s.at < p.at
                 \/ \A p \in Pinned : s.at > p.at

PublishMerge ==
    /\ pc = "publish" /\ Pinned \subseteq segments /\ Contiguous
    /\ segments' = (segments \ Pinned) \cup {Output(i) : i \in DOMAIN merge.groups}
    /\ pc' = "unlink" /\ doomed' = merge.journal.inputs
    /\ UNCHANGED <<disk, log, buffer, nextSegment, permit, seal, merge, todo, status, ghost,
                   faults>>

\* Inputs after a publication, outputs of a merge that failed, or either as
\* recovery decides; a name already gone is no error.
Unlink ==
    /\ pc = "unlink" /\ doomed # {}
    /\ LET id == CHOOSE d \in doomed : \A e \in doomed : d <= e
       IN  files' = {f \in files : f.at # id} /\ doomed' = doomed \ {id}
    /\ UNCHANGED <<journals, synced, memory, permit, seal, pc, merge, todo, status, ghost,
                   faults>>

SyncUnlinks ==
    /\ pc = "unlink" /\ doomed = {} /\ pc' = "unjournal"
    /\ UNCHANGED <<files, journals, memory, permit, seal, merge, doomed, todo, status, ghost,
                   faults>>
    /\ SyncDirectory

RemoveJournal ==
    /\ pc = "unjournal" /\ pc' = "resync"
    /\ journals' = journals \ {merge.journal}
    /\ UNCHANGED <<files, synced, memory, permit, seal, merge, doomed, todo, status, ghost,
                   faults>>

EndMerge == pc' = "idle" /\ merge' = NoMerge /\ doomed' = {}

SyncRemoval ==
    /\ pc = "resync" /\ EndMerge
    /\ UNCHANGED <<files, journals, memory, permit, seal, todo, status, ghost, faults>>
    /\ SyncDirectory

\* The error returns through `?`: the journal stays, and so does whatever the
\* merge had not unlinked.
CleanupFails ==
    /\ status = "up" /\ pc \in {"journal", "unlink", "unjournal"}
    /\ Fault("cleanup") /\ EndMerge
    /\ journals' = journals \cup {merge.journal}
    /\ UNCHANGED <<files, synced, memory, permit, seal, todo, status, ghost>>

-----------------------------------------------------------------------------
(* Retention.                                                              *)

Expired(b) == b \in Stale
Kept(row) == [k \in Keys |-> IF Expired(row[k]) THEN 0 ELSE row[k]]

LogAfterExpiry_Unchanged == log
\* The log is rewritten to the survivors if the buffer held anything expired.
LogAfterExpiry == IF Kept(buffer) # buffer THEN Logged(Kept(buffer)) ELSE log

\* The permit is held for the whole pass.  Log and buffer first.
BeginExpiry ==
    /\ status = "up" /\ pc = "idle" /\ permit = Free
    /\ permit' = "expiry" /\ pc' = "retire"
    /\ log' = LogAfterExpiry /\ buffer' = Kept(buffer)
    /\ todo' = {s \in segments : Kept(s.row) # s.row}
    /\ reached' = Len(batches)
    /\ UNCHANGED <<disk, segments, nextSegment, seal, merge, doomed, status, batches,
                   retired, faults>>

Oldest == CHOOSE s \in todo : \A t \in todo : s.at <= t.at
Survivors(s) == IF Kept(s.row) = Empty THEN {} ELSE {[s EXCEPT !.row = Kept(@)]}

\* The survivors are renamed onto the segment; a segment with none is unlinked.
RetireOnDisk ==
    /\ pc = "retire" /\ todo # {} /\ pc' = "replace"
    /\ files' = {f \in files : f.at # Oldest.at} \cup Survivors(Oldest)
    /\ UNCHANGED journals
    /\ IF Survivors(Oldest) = {} THEN UNCHANGED synced ELSE SyncDirectory
    /\ UNCHANGED <<memory, permit, seal, merge, doomed, todo, status, ghost, faults>>

\* The directory fsync of an unlink, then the live list.
RetireInMemory ==
    /\ pc = "replace" /\ pc' = "retire"
    /\ segments' = (segments \ {Oldest}) \cup Survivors(Oldest)
    /\ todo' = todo \ {Oldest}
    /\ UNCHANGED <<files, journals, log, buffer, nextSegment, permit, seal, merge, doomed,
                   status, ghost, faults>>
    /\ SyncDirectory

EndExpiry ==
    /\ pc = "retire" /\ todo = {} /\ pc' = "idle"
    /\ permit' = Free /\ retired' = reached
    /\ UNCHANGED <<disk, memory, seal, merge, doomed, todo, status, batches, reached, faults>>

ExpiryFails ==
    /\ pc = "retire" /\ todo # {} /\ Fault("write")
    /\ pc' = "idle" /\ todo' = {} /\ permit' = Free
    /\ UNCHANGED <<disk, memory, seal, merge, doomed, status, ghost>>

-----------------------------------------------------------------------------
(* Crashes and recovery.                                                   *)

Die ==
    /\ status' = "opening" /\ permit' = Free
    /\ sealPc' = "idle" /\ drained' = NoSegment
    /\ EndMerge /\ todo' = {}
    /\ UNCHANGED <<memory, ghost>>

Kill == Fault("kill") /\ Die /\ UNCHANGED disk

\* Each name shows what it showed before or after the changes not yet synced.
Reverts(now, was) ==
    {kept \in SUBSET (now \cup was) :
        /\ now \cap was \subseteq kept
        /\ \A f, g \in kept : f.at = g.at => f = g
        /\ Ids(now) \cap Ids(was) \subseteq Ids(kept)}

Power ==
    /\ Fault("power") /\ Die
    /\ files' \in Reverts(files, synced.files)
    /\ \E left \in SUBSET ((journals \ synced.journals) \cup (synced.journals \ journals)) :
          journals' = (journals \cap synced.journals) \cup left
    /\ SyncDirectory

First(j) == CHOOSE n \in j.outputs : \A o \in j.outputs : n <= o

Committed(j) == j.outputs \subseteq Ids(files)
Untouched(j) == j.inputs \subseteq Ids(files)

Direction_Forward(j) == j.inputs
\* Forward if every output is there, or deletion of the inputs had started.
Direction(j) == IF Committed(j) \/ ~Untouched(j) THEN j.inputs ELSE j.outputs

RecoverMerge ==
    /\ status = "opening" /\ pc = "idle" /\ journals # {}
    /\ LET j == CHOOSE j \in journals : \A o \in journals : First(j) <= First(o)
       IN  merge' = [NoMerge EXCEPT !.journal = j] /\ doomed' = Direction(j)
    /\ pc' = "unlink"
    /\ UNCHANGED <<disk, memory, permit, seal, todo, status, ghost, faults>>

\* Replay inserts the frames in their order.
Replayed == Resolve({[at |-> i, row |-> log[i]] : i \in DOMAIN log})

NextId == IF files = {} THEN 0 ELSE Greatest(Ids(files)) + 1

Open ==
    /\ status = "opening" /\ pc = "idle" /\ journals = {} /\ status' = "up"
    /\ segments' = files
    /\ nextSegment' = NextId
    /\ buffer' = Replayed
    /\ UNCHANGED <<disk, log, permit, seal, upkeep, ghost, faults>>

-----------------------------------------------------------------------------
Seal == Drain \/ WriteSegment \/ SealFails \/ PublishSeal \/ Reconcile

Merge == \/ \E n \in 1..MaxSegments : PinRun(n)
         \/ WriteJournal \/ WriteOutput \/ WriteFails \/ PublishMerge
         \/ Unlink \/ SyncUnlinks \/ RemoveJournal \/ SyncRemoval

Expire == BeginExpiry \/ RetireOnDisk \/ RetireInMemory \/ EndExpiry \/ ExpiryFails

Next == \/ \E ks \in (SUBSET Keys) \ {{}} : Ingest(ks)
        \/ Seal \/ Merge \/ Expire
        \/ Kill \/ Power \/ RecoverMerge \/ Open

Spec == Init /\ [][Next]_vars

\* With the failures recovery does not survive.
UnsafeSpec == Init /\ [][Next \/ CleanupFails]_vars

-----------------------------------------------------------------------------
Segment == [at : Nat, row : Row]
Journal == [inputs : SUBSET Nat, outputs : SUBSET Nat]

TypeOK ==
    /\ files \subseteq Segment /\ journals \subseteq Journal
    /\ synced.files \subseteq Segment /\ synced.journals \subseteq Journal
    /\ log \in Seq(Row) /\ buffer \in Row /\ segments \subseteq Segment
    /\ nextSegment \in 0..MaxSegments
    /\ permit \in {Free, "sealer", "expiry"}
    /\ sealPc \in {"idle", "write", "publish", "reconcile"} /\ drained \in Segment
    /\ pc \in {"idle", "journal", "write", "publish", "unlink", "unjournal", "resync",
               "retire", "replace"}
    /\ merge.groups \in Seq(SUBSET Segment) /\ merge.first \in Nat /\ merge.written \in Nat
    /\ merge.journal \in Journal
    /\ doomed \subseteq Nat /\ todo \subseteq Segment
    /\ status \in {"up", "opening"} /\ batches \in Seq(SUBSET Keys)
    /\ reached \in Nat /\ retired \in Nat /\ faults \in Nat

\* Each key reads as the newest version admitted, unless a retention pass was due
\* to remove that version: no merge, retention pass, crash or recovery, in any
\* order, loses it or lets an older version win (lib.rs merge_run,
\* expire_by_policy_locked, recover_merge).
ReadsNewest ==
    status = "up" =>
        \A k \in Keys :
            LET newest == Newest(batches, {})[k]
            IN  (Expired(newest) /\ newest <= reached) \/ Visible[k] = newest

\* What a completed retention pass removed never shows again, after any later
\* merge, crash and recovery (lib.rs expire_by_policy_locked).
ExpiredStaysGone ==
    status = "up" => \A k \in Keys : ~(Expired(Visible[k]) /\ Visible[k] <= retired)

\* Whenever maintenance is idle the directory holds the published segments (and
\* the one a seal is publishing) and no journal: no merge, retention
\* pass or recovery leaves a file that a restart would load or a journal it would
\* act on (lib.rs merge_run, recover_supersede_markers).
IdleLeavesNoTrace ==
    status = "up" /\ pc = "idle" =>
        /\ files = segments \cup (IF sealPc = "publish" THEN {drained} ELSE {})
        /\ journals = {}
=============================================================================

----------------------------- MODULE Directory -----------------------------
(***************************************************************************)
(* One data directory over the lives of the processes that open it: the    *)
(* lock (DirectoryLock), the working set, checkpoint manifests, pins, and  *)
(* restore (src/src/generation.rs; the pin operations and Store::restore   *)
(* of src/src/lib.rs).                                                     *)
(*                                                                         *)
(* The data is what a backup can get wrong.  An item stands for a span and *)
(* is ingested once; a sealed item is a segment file of its own.  The      *)
(* append-only logs are one file, the tombstone log, whose records are the *)
(* beginnings and the settlements of erasures; files that can be shared by *)
(* a hard link are told apart by inode only where sharing matters, which   *)
(* is that log.  A checkpoint is one step here (Store.tla takes it apart), *)
(* a purge too (Erasure.tla takes it apart).  Only processes die; the      *)
(* directory entries they made stay.  Generation numbers are left out:     *)
(* what a checkpoint names is what the working set holds at that step.     *)
(***************************************************************************)
EXTENDS DirectoryLock, Sequences, SequencesExt

CONSTANTS
    Items,       \* spans, one per segment file once sealed
    Labels,      \* pin labels
    Erasable,    \* the items that erasures may name
    MaxInstalls, \* bound: how many restores may begin
    MaxPins,     \* bound: how many pins may be begun
    InstallDies  \* may a process die in the middle of a restore?

VARIABLES
    segs,      \* the items in sealed segment files of the working set
    wal,       \* the items in wal.log, not yet folded into a generation
    inodes,    \* contents of the tombstone-log files, by inode
    live,      \* the inode of the working set's tombstone log
    pins,      \* what is left on disk of each published pin
    jobs,      \* what each process that holds the lock is doing
    ingested,  \* history: every item ever ingested
    promised,  \* history: what an open store must hold
    taken,     \* bound: pins begun
    installs   \* bound: restores begun

dirVars == <<segs, wal, inodes, live, pins, jobs, ingested, promised, taken, installs>>

vars == <<lockVars, dirVars>>

ASSUME DirectoryAssumption ==
    /\ IsFiniteSet(Labels) /\ None \notin Labels
    /\ Erasable \subseteq Items
    /\ MaxInstalls \in Nat
    /\ MaxPins \in Nat
    /\ InstallDies \in BOOLEAN

\* One inode for the first working set, one per pin, one per restore.
Inodes == 0 .. Cardinality(Labels) + MaxInstalls

Record == [kind: {"begin", "settle"}, item: Erasable]

\* A manifest: the files named and the length the log had when digested.
Manifest == [segs: SUBSET Items, log: Nat]

Pin == [man: Manifest \cup {None}, segs: SUBSET Items, log: Inodes, archive: BOOLEAN]

Idle == [op |-> "idle"]

Init ==
    /\ LockInit
    /\ segs = {}
    /\ wal = {}
    /\ inodes = [n \in Inodes |-> <<>>]
    /\ live = 0
    /\ pins = [l \in Labels |-> None]
    /\ jobs = [p \in Procs |-> Idle]
    /\ ingested = {}
    /\ promised = {}
    /\ taken = 0
    /\ installs = 0

Log == inodes[live]

Recorded(log, kind) == {i \in Erasable : [kind |-> kind, item |-> i] \in ToSet(log)}

Pending(log) == Recorded(log, "begin") \ Recorded(log, "settle")

UsedInodes == {live} \cup {pins[l].log : l \in {k \in Labels : pins[k] # None}}

FreshInode == CHOOSE n \in Inodes : n \notin UsedInodes

Doing(p, op) == pc[p] = "in" /\ jobs[p].op = op

Job(p, j) == jobs' = [jobs EXCEPT ![p] = j]

\* The maintenance mutex of the process: pins, purges and rewrites take turns.
MaintenanceFree(p) == Doing(p, "store")

----------------------------------------------------------------------------
(* The store.                                                              *)

\* Store::open with the lock held: adopt the directory if it has no CURRENT.
OpenStore(p) ==
    /\ Doing(p, "idle")
    /\ Job(p, [op |-> "store"])
    /\ UNCHANGED <<lockVars, segs, wal, inodes, live, pins, ingested, promised, taken, installs>>

Ingest(p, i) ==
    /\ pc[p] = "in" /\ jobs[p].op \in {"store", "pin"}
    /\ i \notin ingested
    /\ wal' = wal \cup {i}
    /\ ingested' = ingested \cup {i}
    /\ promised' = promised \cup {i}
    /\ UNCHANGED <<lockVars, segs, inodes, live, pins, jobs, taken, installs>>

\* checkpoint_locked: everything is sealed, a manifest names it, CURRENT moves
\* and the folded frames leave the log.
Checkpoint ==
    /\ segs' = segs \cup wal
    /\ wal' = {}

\* The erasure's begin record; the gate excludes an archive pin being taken.
BeginErasure(p, i) ==
    /\ pc[p] = "in"
    /\ \/ jobs[p].op = "store"
       \/ jobs[p].op = "pin" /\ ~jobs[p].archive
    /\ i \in (segs \cup wal) \ Recorded(Log, "begin")
    /\ inodes' = [inodes EXCEPT ![live] = Append(@, [kind |-> "begin", item |-> i])]
    /\ UNCHANGED <<lockVars, segs, wal, live, pins, jobs, ingested, promised, taken, installs>>

\* The purge rewrites the files without the subject, under the maintenance lock.
Purge(p, i) ==
    /\ MaintenanceFree(p)
    /\ i \in Pending(Log) \cap (segs \cup wal)
    /\ segs' = (segs \cup wal) \ {i}
    /\ wal' = {}
    /\ promised' = promised \ {i}
    /\ UNCHANGED <<lockVars, inodes, live, pins, jobs, ingested, taken, installs>>

SettleErasure(p, i) ==
    /\ pc[p] = "in" /\ jobs[p].op \in {"store", "pin"}
    /\ i \in Pending(Log) \ (segs \cup wal)
    /\ inodes' = [inodes EXCEPT ![live] = Append(@, [kind |-> "settle", item |-> i])]
    /\ UNCHANGED <<lockVars, segs, wal, live, pins, jobs, ingested, promised, taken, installs>>

----------------------------------------------------------------------------
(* Pins.                                                                   *)

\* pin_generation up to its checkpoint; the archive's pin first requires that
\* no erasure is pending (pin_for_object_archive).
StartPin(p, l, archive) ==
    /\ MaintenanceFree(p)
    /\ taken < MaxPins
    /\ taken' = taken + 1
    /\ archive => Pending(Log) = {}
    /\ Checkpoint
    /\ Job(p, [op |-> "pin", label |-> l, archive |-> archive,
               man |-> [segs |-> segs \cup wal, log |-> Len(Log)]])
    /\ UNCHANGED <<lockVars, inodes, live, pins, ingested, promised, installs>>

\* Mutant: the tombstone log is linked like the immutable files, and shared.
PinnedLog_Linked == live

\* copy_prefix: a file of the pin's own for what the manifest digested.
PinnedLog == FreshInode

\* The farm is built under a hidden name and renamed into place; a label that
\* exists refuses the pin after the checkpoint.  The archive's second look at
\* the pin's own log repeats what the gate has settled and is left out.
FinishPin(p) ==
    /\ Doing(p, "pin")
    /\ LET l == jobs[p].label IN
       IF pins[l] # None
       THEN UNCHANGED <<inodes, pins>>
       ELSE /\ inodes' = [inodes EXCEPT ![PinnedLog] = SubSeq(Log, 1, jobs[p].man.log)]
            /\ pins' = [pins EXCEPT ![l] = [man |-> jobs[p].man, segs |-> jobs[p].man.segs,
                                            log |-> PinnedLog, archive |-> jobs[p].archive]]
    /\ Job(p, [op |-> "store"])
    /\ UNCHANGED <<lockVars, segs, wal, live, ingested, promised, taken, installs>>

\* release_pin unlinks file after file, in no particular order: a process that
\* dies in between leaves a part of the pin under its name.
UnlinkSome(p, l) ==
    /\ pc[p] = "in" /\ jobs[p].op \in {"store", "pin"}
    /\ pins[l] # None
    /\ \/ \E i \in pins[l].segs : pins' = [pins EXCEPT ![l].segs = @ \ {i}]
       \/ pins[l].man # None /\ pins' = [pins EXCEPT ![l].man = None]
    /\ UNCHANGED <<lockVars, segs, wal, inodes, live, jobs, ingested, promised, taken, installs>>

ReleasePin(p, l) ==
    /\ pc[p] = "in" /\ jobs[p].op \in {"store", "pin"}
    /\ pins[l] # None
    /\ pins' = [pins EXCEPT ![l] = None]
    /\ UNCHANGED <<lockVars, segs, wal, inodes, live, jobs, ingested, promised, taken, installs>>

----------------------------------------------------------------------------
(* Restore.                                                                *)

\* verify_against: every file named is there, the log at least its prefix.
Verified(pin) ==
    /\ pin.man # None
    /\ pin.man.segs \subseteq pin.segs
    /\ Len(inodes[pin.log]) >= pin.man.log

\* install_staged verifies the staged files before it touches the directory.
BeginInstall(p, l) ==
    /\ Doing(p, "idle")
    /\ installs < MaxInstalls
    /\ pins[l] # None
    /\ Verified(pins[l])
    /\ installs' = installs + 1
    /\ Job(p, [op |-> "clear", pin |-> pins[l]])
    /\ UNCHANGED <<lockVars, segs, wal, inodes, live, pins, ingested, promised, taken>>

\* remove_working_set, one file per step; the last step also drops the log.
RemoveWorkingSet(p) ==
    /\ Doing(p, "clear")
    /\ IF segs # {}
       THEN \E i \in segs : segs' = segs \ {i} /\ UNCHANGED <<live, inodes, jobs>>
       ELSE /\ segs' = segs
            /\ live' = FreshInode
            /\ inodes' = [inodes EXCEPT ![FreshInode] = <<>>]
            /\ Job(p, [jobs[p] EXCEPT !.op = "copy"])
    /\ UNCHANGED <<lockVars, wal, pins, ingested, promised, taken, installs>>

\* Mutant: the log of the store being replaced is left to replay.
CopyStaged_KeepWal(p) ==
    /\ Doing(p, "copy")
    /\ segs' = segs \cup jobs[p].pin.man.segs
    /\ inodes' = [inodes EXCEPT ![live] = inodes[jobs[p].pin.log]]
    /\ Job(p, [jobs[p] EXCEPT !.op = "publish"])
    /\ UNCHANGED <<lockVars, wal, live, pins, ingested, promised, taken, installs>>

\* One manifested file per step; when all are there, the log too, and the old
\* wal.log is removed.
CopyStaged(p) ==
    /\ Doing(p, "copy")
    /\ LET pin == jobs[p].pin IN
       IF pin.man.segs \subseteq segs
       THEN /\ inodes' = [inodes EXCEPT ![live] = inodes[pin.log]]
            /\ wal' = {}
            /\ Job(p, [jobs[p] EXCEPT !.op = "publish"])
            /\ segs' = segs
       ELSE /\ \E i \in pin.man.segs \ segs : segs' = segs \cup {i}
            /\ UNCHANGED <<inodes, wal, jobs>>
    /\ UNCHANGED <<lockVars, live, pins, ingested, promised, taken, installs>>

\* The manifest of a generation above both lineages, then CURRENT.
PublishInstall(p) ==
    /\ Doing(p, "publish")
    /\ promised' = jobs[p].pin.man.segs
    /\ Job(p, [op |-> "done"])
    /\ UNCHANGED <<lockVars, segs, wal, inodes, live, pins, ingested, taken, installs>>

----------------------------------------------------------------------------
(* Processes.                                                              *)

AcquireLock(p) == Acquire(p) /\ UNCHANGED dirVars

\* The store is closed, or the restore hands the directory back before it opens it.
Close(p) ==
    /\ pc[p] = "in" /\ jobs[p].op \in {"store", "done"}
    /\ Drop(p)
    /\ Job(p, Idle)
    /\ UNCHANGED <<segs, wal, inodes, live, pins, ingested, promised, taken, installs>>

ProcessDies(p) ==
    /\ Die(p)
    /\ jobs[p].op \in {"clear", "copy", "publish"} => InstallDies
    /\ Job(p, Idle)
    /\ UNCHANGED <<segs, wal, inodes, live, pins, ingested, promised, taken, installs>>

Next ==
    \E p \in Procs :
        \/ AcquireLock(p) \/ Close(p) \/ ProcessDies(p)
        \/ OpenStore(p)
        \/ \E i \in Items : Ingest(p, i)
        \/ \E i \in Erasable : BeginErasure(p, i) \/ Purge(p, i) \/ SettleErasure(p, i)
        \/ \E l \in Labels, archive \in BOOLEAN : StartPin(p, l, archive)
        \/ FinishPin(p)
        \/ \E l \in Labels : UnlinkSome(p, l) \/ ReleasePin(p, l) \/ BeginInstall(p, l)
        \/ RemoveWorkingSet(p) \/ CopyStaged(p) \/ PublishInstall(p)

Spec == Init /\ [][Next]_vars

\* Opening runs to its end, the directory is opened again and again, and an
\* unnamed sentinel only grows older.
Fairness ==
    \A p \in Procs :
        /\ WF_vars(TryCreate(p) /\ UNCHANGED dirVars)
        /\ WF_vars((WritePid(p) \/ JudgeOwner(p) \/ ClaimSentinel(p) \/ NameSentinel(p)
                     \/ JudgeAlive(p) \/ ClearSentinel(p) \/ VerifyOwner(p) \/ RemoveStale(p)
                     \/ Retake(p) \/ RemoveSentinel(p)) /\ UNCHANGED dirVars)
        /\ SF_vars(JudgeCorpse(p) /\ UNCHANGED dirVars)

FairSpec == Spec /\ Fairness

----------------------------------------------------------------------------

TypeOK ==
    /\ LockTypeOK
    /\ segs \in SUBSET Items
    /\ wal \in SUBSET Items
    /\ inodes \in [Inodes -> Seq(Record)]
    /\ \A n \in Inodes : IsInjective(inodes[n])
    /\ live \in Inodes
    /\ \A l \in Labels : pins[l] # None => pins[l].man = None \/ pins[l].man.segs \in SUBSET Items
    /\ DOMAIN jobs = Procs
    /\ ingested \in SUBSET Items
    /\ promised \in SUBSET Items
    /\ taken \in 0 .. MaxPins
    /\ installs \in 0 .. MaxInstalls

(* A pin is a moment of the store that nothing edits: no erasure recorded  *)
(* in its log as settled has its span among the pin's files, and a pin     *)
(* taken for the archive has no span whose erasure was recorded at all     *)
(* (pin_generation, copy_prefix, pin_for_object_archive).                  *)
PinsAreHonest ==
    \A l \in Labels : pins[l] # None =>
        LET log == inodes[pins[l].log] IN
        /\ pins[l].segs \cap Recorded(log, "settle") = {}
        /\ pins[l].archive => pins[l].segs \cap Recorded(log, "begin") = {}

(* An open store holds exactly one lineage: what was ingested into it and  *)
(* not purged, or what the restored pin held and what came after; and it   *)
(* never records as settled the erasure of a span it still has             *)
(* (install_staged: "never a blend").                                      *)
OpenHoldsOneStore ==
    \A p \in Procs : pc[p] = "in" /\ jobs[p].op \in {"store", "pin"} =>
        /\ segs \cup wal = promised
        /\ promised \cap Recorded(Log, "settle") = {}
=============================================================================

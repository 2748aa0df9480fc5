--------------------------- MODULE DirectoryProof ---------------------------
(***************************************************************************)
(* What holds of one data directory, for any number of processes that      *)
(* open, close and die, and any number of spans, pins and restores, as     *)
(* long as nobody who holds the reclaim sentinel dies or takes ten seconds *)
(* to put its pid into it: one process owns the directory, a pin stays     *)
(* what it was when it was taken, and an open store holds one lineage.     *)
(* Without that assumption the first is false: see the divergences in the  *)
(* README.                                                                 *)
(*                                                                         *)
(* And of the opening that comes before, whatever older build left the     *)
(* directory and however often the opening is stopped or refuses: damaged  *)
(* bytes never pass for whole ones.                                        *)
(***************************************************************************)
EXTENDS Directory, Migration, TLAPS, FiniteSetTheorems, FunctionTheorems

\* Nobody leaves a sentinel behind, or leaves it unnamed for ten seconds.
SentinelsAreKept == CrashAt \cap Reclaiming = {} /\ ~Stalls

\* The sentinel is there exactly while its maker is between making and
\* removing it: hence at most one process reclaims.
SentinelHasOwner ==
    \A p \in Procs : pc[p] \in Reclaiming <=> sentinel # None /\ sentinel.by = p

\* The lock is its owner's for as long as the owner believes so.
OwnerHoldsLock == \A p \in Procs : pc[p] \in Owning => lock # None /\ lock.by = p

\* What a reclaimer is about to remove is a dead process's.
SwapsTheDead == \A p \in Procs : pc[p] = "swap" => lock # None /\ lock.by \in Dead

\* No sentinel is ever a corpse, so none is cleared by another process.
NobodyClears == \A p \in Procs : pc[p] # "clear"

LockInv ==
    /\ LockTypeOK
    /\ SentinelHasOwner
    /\ OwnerHoldsLock
    /\ SwapsTheDead
    /\ NobodyClears

(* Ownership is unique in every state of the strengthened invariant: the   *)
(* lock names one process.                                                 *)
LEMMA LockInvExcludes == LockInv => MutualExclusion
BY DEF LockInv, OwnerHoldsLock, MutualExclusion

(* The two files start absent and every process outside.                   *)
LEMMA LockInvInit == LockInit => LockInv
BY LockAssumption DEF LockInit, LockInv, LockTypeOK, SentinelHasOwner, OwnerHoldsLock,
   SwapsTheDead, NobodyClears, File, Places, Reclaiming, Owning, Dead

(* A sentinel nobody abandons is never judged a corpse (reclaim_sentinel). *)
LEMMA NoCorpse ==
    ASSUME LockInv, SentinelsAreKept, NEW p \in Procs, JudgeCorpse(p)
    PROVE  FALSE
<1>1. sentinel # None /\ sentinel.by \in Dead
  BY DEF JudgeCorpse, OwnerIsDead, MayBeOld, SentinelsAreKept
<1>2. pc[sentinel.by] = "dead" /\ sentinel.by \in Procs
  BY <1>1 DEF Dead
<1>3. pc[sentinel.by] \in Reclaiming
  BY <1>1, <1>2 DEF LockInv, SentinelHasOwner
<1> QED
  BY <1>2, <1>3 DEF Reclaiming

(* create_new makes a file of its maker, with no pid in it yet.            *)
LEMMA NewFile ==
    ASSUME NEW p \in Procs
    PROVE  /\ [by |-> p, named |-> FALSE] \in File
           /\ [by |-> p, named |-> FALSE].by = p
<1>1. [by |-> p, named |-> FALSE] \in File
  BY Zenon DEF File
<1>2. [by |-> p, named |-> FALSE].by = p
  BY Zenon
<1> QED
  BY <1>1, <1>2

(* Every step of an open, a close or a death keeps the invariant.          *)
LEMMA LockInvStep ==
    ASSUME LockInv, SentinelsAreKept, [LockNext]_lockVars
    PROVE  LockInv'
<1> USE LockAssumption DEF LockInv, LockTypeOK, SentinelHasOwner, OwnerHoldsLock,
        SwapsTheDead, NobodyClears, File, Places, Reclaiming, Owning, Dead, Goto
<1>1. CASE UNCHANGED lockVars
  BY <1>1 DEF lockVars
<1>2. ASSUME NEW p \in Procs, TryCreate(p) PROVE LockInv'
  <2>1. LockTypeOK'
    <3>1. CASE lock = None
      <4>1. lock' = [by |-> p, named |-> FALSE]
        BY <1>2, <3>1 DEF TryCreate
      <4>2. lock' \in File /\ lock'.by = p
        BY <4>1, NewFile
      <4> HIDE DEF File
      <4> QED
        BY <1>2, <3>1, <4>2 DEF TryCreate
    <3>2. CASE lock # None
      BY <1>2, <3>2 DEF TryCreate
    <3> QED
      BY <3>1, <3>2
  <2>2. SentinelHasOwner'
    BY <1>2 DEF TryCreate
  <2>3. OwnerHoldsLock'
    <3>1. CASE lock = None
      <4>1. lock' = [by |-> p, named |-> FALSE]
        BY <1>2, <3>1 DEF TryCreate
      <4>2. lock' \in File /\ lock'.by = p
        BY <4>1, NewFile
      <4> HIDE DEF File
      <4> QED
        BY <1>2, <3>1, <4>2 DEF TryCreate
    <3>2. CASE lock # None
      BY <1>2, <3>2 DEF TryCreate
    <3> QED
      BY <3>1, <3>2
  <2>4. SwapsTheDead'
    BY <1>2 DEF TryCreate
  <2>5. NobodyClears'
    BY <1>2 DEF TryCreate
  <2> QED
    BY <2>1, <2>2, <2>3, <2>4, <2>5
<1>3. ASSUME NEW p \in Procs, WritePid(p) PROVE LockInv'
  <2>1. LockTypeOK'
    BY <1>3 DEF WritePid
  <2>2. SentinelHasOwner'
    BY <1>3 DEF WritePid
  <2>3. OwnerHoldsLock'
    <3>1. lock \in File /\ lock.by = p /\ lock' = [lock EXCEPT !.named = TRUE]
      BY <1>3 DEF WritePid
    <3>2. lock' # None /\ lock'.by = lock.by
      BY <3>1
    <3>3. \A q \in Procs : q # p => pc'[q] = pc[q]
      BY <1>3 DEF WritePid
    <3> HIDE DEF File, LockTypeOK, SentinelHasOwner, SwapsTheDead, NobodyClears
    <3> QED
      BY <3>1, <3>2, <3>3
  <2>4. SwapsTheDead'
    BY <1>3 DEF WritePid
  <2>5. NobodyClears'
    BY <1>3 DEF WritePid
  <2> QED
    BY <2>1, <2>2, <2>3, <2>4, <2>5
<1>4. ASSUME NEW p \in Procs, WriteFails(p) PROVE LockInv'
  BY <1>4 DEF WriteFails
<1>5. ASSUME NEW p \in Procs, JudgeOwner(p) PROVE LockInv'
  BY <1>5 DEF JudgeOwner
<1>6. ASSUME NEW p \in Procs, ClaimSentinel(p) PROVE LockInv'
  <2>1. LockTypeOK'
    <3>1. CASE sentinel = None
      <4>1. sentinel' = [by |-> p, named |-> FALSE]
        BY <1>6, <3>1 DEF ClaimSentinel
      <4>2. sentinel' \in File /\ sentinel'.by = p
        BY <4>1, NewFile
      <4> HIDE DEF File
      <4> QED
        BY <1>6, <3>1, <4>2 DEF ClaimSentinel
    <3>2. CASE sentinel # None
      BY <1>6, <3>2 DEF ClaimSentinel
    <3> QED
      BY <3>1, <3>2
  <2>2. SentinelHasOwner'
    <3>1. CASE sentinel = None
      <4>1. sentinel' = [by |-> p, named |-> FALSE]
        BY <1>6, <3>1 DEF ClaimSentinel
      <4>2. sentinel' \in File /\ sentinel'.by = p
        BY <4>1, NewFile
      <4> HIDE DEF File
      <4> QED
        BY <1>6, <3>1, <4>2 DEF ClaimSentinel
    <3>2. CASE sentinel # None
      BY <1>6, <3>2 DEF ClaimSentinel
    <3> QED
      BY <3>1, <3>2
  <2>3. OwnerHoldsLock'
    BY <1>6 DEF ClaimSentinel
  <2>4. SwapsTheDead'
    BY <1>6 DEF ClaimSentinel
  <2>5. NobodyClears'
    BY <1>6 DEF ClaimSentinel
  <2> QED
    BY <2>1, <2>2, <2>3, <2>4, <2>5
<1>7. ASSUME NEW p \in Procs, NameSentinel(p) PROVE LockInv'
  <2>1. LockTypeOK'
    BY <1>7 DEF NameSentinel
  <2>2. SentinelHasOwner'
    <3>1. sentinel' = [sentinel EXCEPT !.named = TRUE] /\ sentinel \in File
      BY <1>7 DEF NameSentinel
    <3>2. sentinel' \in File /\ sentinel'.by = p
      BY <1>7, <3>1 DEF NameSentinel
    <3>3. pc[p] = "claiming" /\ sentinel.by = p /\ pc' = [pc EXCEPT ![p] = "verify"]
      BY <1>7 DEF NameSentinel
    <3> HIDE DEF File, LockTypeOK, OwnerHoldsLock, SwapsTheDead, NobodyClears
    <3>4. pc \in [Procs -> Places] /\ sentinel # None /\ sentinel' # None
      BY <3>1, <3>2 DEF File, LockTypeOK
    <3> QED
      BY <3>2, <3>3, <3>4
  <2>3. OwnerHoldsLock'
    BY <1>7 DEF NameSentinel
  <2>4. SwapsTheDead'
    BY <1>7 DEF NameSentinel
  <2>5. NobodyClears'
    BY <1>7 DEF NameSentinel
  <2> QED
    BY <2>1, <2>2, <2>3, <2>4, <2>5
<1>8. ASSUME NEW p \in Procs, JudgeCorpse(p) PROVE LockInv'
  BY <1>8, NoCorpse
<1>9. ASSUME NEW p \in Procs, JudgeAlive(p) PROVE LockInv'
  BY <1>9 DEF JudgeAlive
<1>10. ASSUME NEW p \in Procs, ClearSentinel(p) PROVE LockInv'
  BY <1>10 DEF ClearSentinel
<1>11. ASSUME NEW p \in Procs, VerifyOwner(p) PROVE LockInv'
  BY <1>11 DEF VerifyOwner, OwnerIsDead
<1>12. ASSUME NEW p \in Procs, RemoveStale(p) PROVE LockInv'
  BY <1>12 DEF RemoveStale
<1>13. ASSUME NEW p \in Procs, Retake(p) PROVE LockInv'
  <2>1. LockTypeOK'
    <3>1. CASE lock = None
      <4>1. lock' = [by |-> p, named |-> FALSE]
        BY <1>13, <3>1 DEF Retake
      <4>2. lock' \in File /\ lock'.by = p
        BY <4>1, NewFile
      <4> HIDE DEF File
      <4> QED
        BY <1>13, <3>1, <4>2 DEF Retake
    <3>2. CASE lock # None
      BY <1>13, <3>2 DEF Retake
    <3> QED
      BY <3>1, <3>2
  <2>2. SentinelHasOwner'
    BY <1>13 DEF Retake
  <2>3. OwnerHoldsLock'
    <3>1. CASE lock = None
      <4>1. lock' = [by |-> p, named |-> FALSE]
        BY <1>13, <3>1 DEF Retake
      <4>2. lock' \in File /\ lock'.by = p
        BY <4>1, NewFile
      <4> HIDE DEF File
      <4> QED
        BY <1>13, <3>1, <4>2 DEF Retake
    <3>2. CASE lock # None
      BY <1>13, <3>2 DEF Retake
    <3> QED
      BY <3>1, <3>2
  <2>4. SwapsTheDead'
    BY <1>13 DEF Retake
  <2>5. NobodyClears'
    BY <1>13 DEF Retake
  <2> QED
    BY <2>1, <2>2, <2>3, <2>4, <2>5
<1>14. ASSUME NEW p \in Procs, RemoveSentinel(p) PROVE LockInv'
  BY <1>14 DEF RemoveSentinel
<1>15. ASSUME NEW p \in Procs, Drop(p) PROVE LockInv'
  BY <1>15 DEF Drop
<1>16. ASSUME NEW p \in Procs, Die(p) PROVE LockInv'
  BY <1>16 DEF Die, SentinelsAreKept
<1> QED
  BY <1>1, <1>2, <1>3, <1>4, <1>5, <1>6, <1>7, <1>8, <1>9, <1>10, <1>11, <1>12, <1>13,
     <1>14, <1>15, <1>16 DEF LockNext, Acquire

(* The lock alone: exactly one process owns the directory, however many    *)
(* find the same dead owner (DirectoryLock::acquire).                      *)
THEOREM LockExcludes ==
    ASSUME SentinelsAreKept
    PROVE  LockSpec => []MutualExclusion
<1>1. LockInv /\ [LockNext]_lockVars => LockInv'
  BY LockInvStep
<1> QED
  BY <1>1, LockInvInit, LockInvExcludes, PTL DEF LockSpec

(* What a store does with the directory only ever moves the lock as the    *)
(* lock's own operations do.                                               *)
LEMMA StepsOfTheLock == [Next]_vars => [LockNext]_lockVars
<1> SUFFICES ASSUME [Next]_vars PROVE [LockNext]_lockVars
  OBVIOUS
<1>1. CASE UNCHANGED vars
  BY <1>1 DEF vars
<1>2. ASSUME NEW p \in Procs, AcquireLock(p) \/ Close(p) \/ ProcessDies(p)
      PROVE  [LockNext]_lockVars
  BY <1>2 DEF AcquireLock, Close, ProcessDies, LockNext
<1>3. ASSUME NEW p \in Procs, NEW i \in Items, Ingest(p, i)
      PROVE  [LockNext]_lockVars
  BY <1>3 DEF Ingest
<1>4. ASSUME NEW p \in Procs, NEW i \in Erasable,
             BeginErasure(p, i) \/ Purge(p, i) \/ SettleErasure(p, i)
      PROVE  [LockNext]_lockVars
  BY <1>4 DEF BeginErasure, Purge, SettleErasure
<1>5. ASSUME NEW p \in Procs, NEW l \in Labels, NEW archive \in BOOLEAN,
             StartPin(p, l, archive)
      PROVE  [LockNext]_lockVars
  BY <1>5 DEF StartPin
<1>6. ASSUME NEW p \in Procs, NEW l \in Labels,
             UnlinkSome(p, l) \/ ReleasePin(p, l) \/ BeginInstall(p, l)
      PROVE  [LockNext]_lockVars
  BY <1>6 DEF UnlinkSome, ReleasePin, BeginInstall
<1>7. ASSUME NEW p \in Procs,
             OpenStore(p) \/ FinishPin(p) \/ RemoveWorkingSet(p) \/ CopyStaged(p)
             \/ PublishInstall(p)
      PROVE  [LockNext]_lockVars
  BY <1>7 DEF OpenStore, FinishPin, RemoveWorkingSet, CopyStaged, PublishInstall
<1> QED
  BY <1>1, <1>2, <1>3, <1>4, <1>5, <1>6, <1>7 DEF Next

(* A directory: never two stores open on it at once (Store::open takes the *)
(* lock first and drops it last).                                          *)
THEOREM OneOwner ==
    ASSUME SentinelsAreKept
    PROVE  Spec => []MutualExclusion
<1>1. Init => LockInit
  BY DEF Init
<1> QED
  BY <1>1, StepsOfTheLock, LockExcludes, PTL DEF Spec, LockSpec

----------------------------------------------------------------------------
(* What is in the directory.                                               *)

Installing == {"clear", "copy", "publish"}

\* What of the type invariant the proofs of the data rest on.
Shaped ==
    /\ segs \subseteq ingested /\ wal \subseteq ingested /\ ingested \subseteq Items
    /\ inodes \in [Inodes -> Seq(Record)] /\ live \in Inodes
    /\ pins \in [Labels -> Pin \cup {None}]
    /\ jobs = [p \in Procs |-> jobs[p]]
    /\ installs \in Nat

\* Whoever is at work on the directory owns it.
WorksInside == \A p \in Procs : jobs[p].op # "idle" => pc[p] = "in"

\* Only what was ingested is ever erased.
ErasuresAreOfIngested ==
    \A n \in Inodes :
        Recorded(inodes[n], "begin") \cup Recorded(inodes[n], "settle") \subseteq ingested

\* A pin has a log of its own.
OwnLogs == \A l \in Labels : pins[l] # None => pins[l].log # live /\ pins[l].segs \subseteq ingested

\* Files beside a log that says nothing of them.
HonestWith(files, log, archive) ==
    /\ files \cap Recorded(log, "settle") = {}
    /\ archive => files \cap Recorded(log, "begin") = {}

\* The manifest of a pin being taken is honest with the log it digested, whatever
\* is appended behind that.
PinJob(job) ==
    /\ job.label \in Labels /\ job.archive \in BOOLEAN /\ job.man \in Manifest
    /\ job = [op |-> "pin", label |-> job.label, archive |-> job.archive, man |-> job.man]
    /\ job.man.segs \subseteq ingested
    /\ job.man.log <= Len(Log)
    /\ HonestWith(job.man.segs, SubSeq(Log, 1, job.man.log), job.archive)

\* A restore works from a pin that is there, through a directory that is emptied
\* first and then holds some, and at last all, of that pin.
InstallJob(job) ==
    /\ job = [op |-> job.op, pin |-> job.pin] /\ MaxInstalls # 0
    /\ \E l \in Labels : pins[l] # None /\ pins[l] = job.pin
    /\ job.pin.man # None /\ job.pin.man.segs \subseteq job.pin.segs
    /\ job.op = "copy" => segs \subseteq job.pin.man.segs /\ Log = <<>>
    /\ job.op = "publish" => segs = job.pin.man.segs /\ wal = {} /\ Log = inodes[job.pin.log]

JobsAreSound ==
    \A p \in Procs : /\ jobs[p].op \in {"idle", "store", "pin", "done"} \cup Installing
                     /\ jobs[p].op = "pin" => PinJob(jobs[p])
                     /\ jobs[p].op \in Installing => InstallJob(jobs[p])

\* The working set holds nothing whose erasure its log has settled.
SettledAreGone == (segs \cup wal) \cap Recorded(Log, "settle") = {}

\* The inductive invariant of the data, beside that of the lock.
DirInv == /\ Shaped /\ WorksInside /\ ErasuresAreOfIngested /\ OwnLogs /\ JobsAreSound
          /\ SettledAreGone /\ PinsAreHonest

\* Outside a restore the working set is what was promised.
OneLineage == (\A p \in Procs : jobs[p].op \notin Installing) => segs \cup wal = promised

----------------------------------------------------------------------------
(* What a log records.                                                     *)

(* What is recorded is somewhere in the log.                               *)
LEMMA RecordedIs ==
    ASSUME NEW log \in Seq(Record), NEW kind, NEW i
    PROVE  i \in Recorded(log, kind) <=>
              i \in Erasable /\ \E n \in 1 .. Len(log) : log[n] = [kind |-> kind, item |-> i]
BY DEF Recorded, ToSet

(* Records of different kinds, or of different items, are different.       *)
LEMMA RecordsDiffer ==
    \A k, l, i, j : [kind |-> k, item |-> i] = [kind |-> l, item |-> j] => k = l /\ i = j
OBVIOUS

(* An append records one more item, of its kind.                           *)
LEMMA AppendRecords ==
    ASSUME NEW log \in Seq(Record), NEW kind \in {"begin", "settle"}, NEW i \in Erasable
    PROVE  LET longer == Append(log, [kind |-> kind, item |-> i])
           IN  /\ longer \in Seq(Record) /\ Len(longer) = Len(log) + 1
               /\ \A n \in 0 .. Len(log) : SubSeq(longer, 1, n) = SubSeq(log, 1, n)
               /\ Recorded(longer, kind) = Recorded(log, kind) \cup {i}
               /\ \A k : k # kind => Recorded(longer, k) = Recorded(log, k)
<1> DEFINE r == [kind |-> kind, item |-> i]
<1> DEFINE longer == Append(log, r)
<1>1. r \in Record
  BY DEF Record
<1> HIDE DEF r
<1>2. longer \in Seq(Record) /\ Len(longer) = Len(log) + 1 /\ longer[Len(log) + 1] = r
  BY <1>1
<1>3. \A n \in 1 .. Len(log) : longer[n] = log[n]
  BY <1>1
<1>4. \A n \in 0 .. Len(log) : SubSeq(longer, 1, n) = SubSeq(log, 1, n)
  BY <1>1
<1>5. ASSUME NEW k, NEW j
      PROVE  j \in Recorded(longer, k) <=> j \in Recorded(log, k) \/ (k = kind /\ j = i)
  <2> HIDE DEF longer
  <2>1. j \in Recorded(longer, k) <=>
           j \in Erasable /\ \E n \in 1 .. Len(longer) : longer[n] = [kind |-> k, item |-> j]
    BY <1>2, RecordedIs
  <2>2. (\E n \in 1 .. Len(longer) : longer[n] = [kind |-> k, item |-> j]) <=>
           \/ \E n \in 1 .. Len(log) : log[n] = [kind |-> k, item |-> j]
           \/ r = [kind |-> k, item |-> j]
    BY <1>2, <1>3
  <2>3. r = [kind |-> k, item |-> j] <=> k = kind /\ j = i
    BY RecordsDiffer DEF r
  <2> QED
    BY <2>1, <2>2, <2>3, RecordedIs
<1>6. Recorded(longer, kind) = Recorded(log, kind) \cup {i}
  <2> HIDE DEF longer
  <2> QED
    BY <1>5
<1>7. ASSUME NEW k, k # kind PROVE Recorded(longer, k) = Recorded(log, k)
  <2> HIDE DEF longer
  <2> QED
    BY <1>5, <1>7 DEF Recorded
<1> QED
  BY <1>2, <1>4, <1>6, <1>7 DEF r

(* A prefix records no more than the whole, and the whole is a prefix.     *)
LEMMA PrefixRecords ==
    ASSUME NEW log \in Seq(Record), NEW n \in 0 .. Len(log)
    PROVE  /\ SubSeq(log, 1, n) \in Seq(Record)
           /\ \A k : Recorded(SubSeq(log, 1, n), k) \subseteq Recorded(log, k)
           /\ SubSeq(log, 1, Len(log)) = log
<1>1. SubSeq(log, 1, n) \in Seq(Record) /\ Len(SubSeq(log, 1, n)) = n
  OBVIOUS
<1>2. \A m \in 1 .. n : SubSeq(log, 1, n)[m] = log[m] /\ m \in 1 .. Len(log)
  OBVIOUS
<1>3. ASSUME NEW k, NEW i \in Recorded(SubSeq(log, 1, n), k) PROVE i \in Recorded(log, k)
  <2> DEFINE head == SubSeq(log, 1, n)
  <2> HIDE DEF head
  <2>1. head \in Seq(Record) /\ Len(head) = n /\ \A m \in 1 .. n : head[m] = log[m]
    BY <1>1, <1>2 DEF head
  <2>2. i \in Recorded(head, k)
    BY DEF head
  <2>3. i \in Erasable /\ \E m \in 1 .. n : head[m] = [kind |-> k, item |-> i]
    BY <2>1, <2>2, RecordedIs
  <2>4. \E m \in 1 .. Len(log) : log[m] = [kind |-> k, item |-> i]
    BY <1>2, <2>1, <2>3
  <2> QED
    BY <2>3, <2>4, RecordedIs
<1>4. SubSeq(log, 1, Len(log)) = log
  OBVIOUS
<1> QED
  BY <1>1, <1>3, <1>4

(* An empty log records nothing.                                           *)
LEMMA NothingRecorded == <<>> \in Seq(Record) /\ \A k : Recorded(<<>>, k) = {}
BY DEF Recorded, ToSet

(* There is always an inode that neither the working set nor a pin uses:   *)
(* one more than there are labels, and one for each restore.               *)
LEMMA FreshIs ==
    ASSUME Shaped, MaxInstalls # 0 \/ \E l \in Labels : pins[l] = None
    PROVE  FreshInode \in Inodes \ UsedInodes
<1> DEFINE Named == {l \in Labels : pins[l] # None}
<1> DEFINE LogsOf == {pins[l].log : l \in Named}
<1> DEFINE logOf == [l \in Named |-> pins[l].log]
<1>1. /\ IsFiniteSet(Labels) /\ IsFiniteSet(Named)
      /\ Cardinality(Labels) \in Nat /\ Cardinality(Named) \in Nat
      /\ Cardinality(Named) <= Cardinality(Labels)
      /\ Named # Labels => Cardinality(Named) # Cardinality(Labels)
  BY DirectoryAssumption, FS_Subset, FS_CardinalityType
<1>2. /\ IsFiniteSet(LogsOf) /\ Cardinality(LogsOf) <= Cardinality(Named)
      /\ Cardinality(LogsOf) \in Nat
  <2>1. logOf \in [Named -> LogsOf] /\ \A n \in LogsOf : \E l \in Named : logOf[l] = n
    OBVIOUS
  <2>2. logOf \in Surjection(Named, LogsOf)
    BY <2>1, Fun_IsSurj
  <2>3. IsFiniteSet(LogsOf) /\ Cardinality(LogsOf) <= Cardinality(Named)
    BY <1>1, <2>2, FS_Surjection
  <2> QED
    BY <2>3, FS_CardinalityType
<1>3. IsFiniteSet(UsedInodes) /\ Cardinality(UsedInodes) <= Cardinality(LogsOf) + 1
      /\ Cardinality(UsedInodes) \in Nat
  <2>1. UsedInodes = LogsOf \cup {live}
    BY DEF UsedInodes
  <2>2. IsFiniteSet(UsedInodes) /\ Cardinality(UsedInodes) <= Cardinality(LogsOf) + 1
    <3> HIDE DEF LogsOf
    <3>1. IsFiniteSet(LogsOf \cup {live})
          /\ Cardinality(LogsOf \cup {live}) \in {Cardinality(LogsOf), Cardinality(LogsOf) + 1}
      BY <1>2, FS_AddElement
    <3> QED
      BY <1>2, <2>1, <3>1
  <2> QED
    BY <2>2, FS_CardinalityType
<1>4. Cardinality(Inodes) = Cardinality(Labels) + MaxInstalls + 1 /\ MaxInstalls \in Nat
  BY <1>1, DirectoryAssumption, FS_Interval DEF Inodes
<1>5. MaxInstalls # 0 \/ Cardinality(Named) # Cardinality(Labels)
  BY <1>1
<1>6. Cardinality(UsedInodes) < Cardinality(Inodes)
  <2> HIDE DEF Named, LogsOf
  <2> QED
    BY <1>1, <1>2, <1>3, <1>4, <1>5
<1>7. ~(Inodes \subseteq UsedInodes)
  <2>1. ASSUME Inodes \subseteq UsedInodes PROVE Cardinality(Inodes) <= Cardinality(UsedInodes)
    BY <1>3, <2>1, FS_Subset
  <2>2. Cardinality(Inodes) \in Nat
    BY <1>1, <1>4
  <2> QED
    BY <1>3, <1>6, <2>1, <2>2
<1>8. \E n \in Inodes : n \notin UsedInodes
  BY <1>7
<1> QED
  BY <1>8 DEF FreshInode

----------------------------------------------------------------------------
(* Who is at work.                                                         *)

(* Nobody works on the directory beside its owner.                         *)
LEMMA WorksAlone ==
    ASSUME MutualExclusion, WorksInside, NEW p \in Procs, pc[p] = "in"
    PROVE  \A q \in Procs : q # p => jobs[q].op = "idle"
BY DEF MutualExclusion, WorksInside, Owning

(* A step that changes one process's job, of the process at work, is sound *)
(* if that job is.                                                         *)
LEMMA JobStep ==
    ASSUME NEW p \in Procs, \A q \in Procs : q # p => jobs'[q].op = "idle",
           jobs'[p].op \in {"idle", "store", "pin", "done"} \cup Installing,
           jobs'[p].op = "pin" => PinJob(jobs[p])',
           jobs'[p].op \in Installing => InstallJob(jobs[p])'
    PROVE  JobsAreSound'
BY DEF JobsAreSound, Installing

(* What a change of one job does.                                          *)
LEMMA JobIs ==
    ASSUME Shaped, NEW p \in Procs, NEW j, Job(p, j)
    PROVE  /\ jobs'[p] = j /\ \A q \in Procs : q # p => jobs'[q] = jobs[q]
           /\ jobs' = [q \in Procs |-> jobs'[q]]
BY DEF Shaped, Job

(* What holds of the files holds of them until they change.                *)
LEMMA FilesStay ==
    ASSUME DirInv, UNCHANGED <<segs, wal, inodes, live, pins, ingested>>, installs' \in Nat,
           jobs' = [p \in Procs |-> jobs'[p]], WorksInside', JobsAreSound'
    PROVE  DirInv'
<1> USE DEF DirInv
<1>1. Shaped'
  BY DEF Shaped, Pin, Manifest
<1>2. ErasuresAreOfIngested'
  BY DEF ErasuresAreOfIngested, Recorded
<1>3. OwnLogs'
  BY DEF OwnLogs
<1>4. SettledAreGone'
  BY DEF SettledAreGone, Recorded, Log
<1>5. PinsAreHonest'
  BY DEF PinsAreHonest, Recorded
<1> QED
  BY <1>1, <1>2, <1>3, <1>4, <1>5

(* A step that leaves the directory alone keeps what holds of it.          *)
LEMMA Untouched ==
    ASSUME DirInv, UNCHANGED <<segs, wal, inodes, live, pins, ingested, installs>>,
           jobs' = [p \in Procs |-> jobs'[p]], WorksInside',
           \A p \in Procs : jobs'[p] = jobs[p] \/ jobs'[p].op \in {"idle", "store", "done"}
    PROVE  DirInv'
<1> USE DEF DirInv
<1>1. Log' = Log /\ installs' \in Nat
  BY DEF Log, Shaped
<1>2. ASSUME NEW p \in Procs, jobs'[p] = jobs[p], jobs[p].op = "pin" PROVE PinJob(jobs[p])'
  <2>1. PinJob(jobs[p])
    BY <1>2 DEF JobsAreSound
  <2> QED
    BY <1>1, <1>2, <2>1 DEF PinJob, HonestWith, Recorded, Manifest
<1>3. ASSUME NEW p \in Procs, jobs'[p] = jobs[p], jobs[p].op \in Installing
      PROVE  InstallJob(jobs[p])'
  <2>1. InstallJob(jobs[p])
    BY <1>3 DEF JobsAreSound
  <2> QED
    BY <1>1, <1>3, <2>1 DEF InstallJob
<1>4. JobsAreSound'
  <2> SUFFICES ASSUME NEW p \in Procs
               PROVE  /\ jobs'[p].op \in {"idle", "store", "pin", "done"} \cup Installing
                      /\ jobs'[p].op = "pin" => PinJob(jobs[p])'
                      /\ jobs'[p].op \in Installing => InstallJob(jobs[p])'
    BY DEF JobsAreSound, Installing
  <2>1. CASE jobs'[p] = jobs[p]
    BY <1>2, <1>3, <2>1 DEF JobsAreSound
  <2>2. CASE jobs'[p].op \in {"idle", "store", "done"}
    BY <2>2 DEF Installing
  <2> QED
    BY <2>1, <2>2
<1> QED
  BY <1>1, <1>4, FilesStay

(* The lock: openings, closings and deaths leave the files as they are.    *)
LEMMA LockKeepsData ==
    ASSUME DirInv, LockTypeOK, NEW p \in Procs,
           AcquireLock(p) \/ Close(p) \/ ProcessDies(p) \/ OpenStore(p) \/ PublishInstall(p)
    PROVE  DirInv'
<1>0. Shaped /\ WorksInside
  BY DEF DirInv
<1>1. CASE AcquireLock(p)
  <2>1. UNCHANGED dirVars /\ Acquire(p)
    BY <1>1 DEF AcquireLock
  <2>2. pc[p] # "in" /\ \A q \in Procs : q # p => pc'[q] = pc[q]
    <3>1. pc[p] # "in" /\ \E at \in Places : Goto(p, at)
      BY <2>1 DEF Acquire, TryCreate, WritePid, WriteFails, JudgeOwner, ClaimSentinel, NameSentinel,
         JudgeCorpse, JudgeAlive, ClearSentinel, VerifyOwner, RemoveStale, Retake, RemoveSentinel,
         Places
    <3> QED
      BY <3>1 DEF Goto, LockTypeOK
  <2>3. WorksInside'
    BY <1>0, <2>1, <2>2 DEF WorksInside, dirVars
  <2> QED
    BY <1>0, <2>1, <2>3, Untouched DEF dirVars, Shaped
<1>2. CASE Close(p) \/ ProcessDies(p)
  <2>1. /\ Job(p, Idle) /\ UNCHANGED <<segs, wal, inodes, live, pins, ingested, installs>>
        /\ \E at \in {"out", "dead"} : Goto(p, at)
    BY <1>2 DEF Close, ProcessDies, Drop, Die
  <2>2. jobs'[p] = Idle /\ (\A q \in Procs : q # p => jobs'[q] = jobs[q])
        /\ jobs' = [q \in Procs |-> jobs'[q]]
    BY <1>0, <2>1, JobIs
  <2>3. \A q \in Procs : q # p => pc'[q] = pc[q]
    BY <2>1 DEF Goto, LockTypeOK
  <2>4. WorksInside' /\ jobs'[p].op = "idle"
    BY <1>0, <2>2, <2>3 DEF WorksInside, Idle
  <2> QED
    BY <2>1, <2>2, <2>4, Untouched
<1>3. CASE OpenStore(p) \/ PublishInstall(p)
  <2>1. /\ pc[p] = "in" /\ pc' = pc
        /\ UNCHANGED <<segs, wal, inodes, live, pins, ingested, installs>>
        /\ Job(p, [op |-> "store"]) \/ Job(p, [op |-> "done"])
    BY <1>3 DEF OpenStore, PublishInstall, Doing, lockVars
  <2>2. jobs'[p].op \in {"store", "done"} /\ (\A q \in Procs : q # p => jobs'[q] = jobs[q])
        /\ jobs' = [q \in Procs |-> jobs'[q]]
    BY <1>0, <2>1, JobIs
  <2>3. WorksInside'
    BY <1>0, <2>1, <2>2 DEF WorksInside
  <2> QED
    BY <2>1, <2>2, <2>3, Untouched
<1> QED
  BY <1>1, <1>2, <1>3

----------------------------------------------------------------------------
(* What the store does.                                                    *)

(* An ingest is of a new item (Store::ingest_batch).                       *)
LEMMA IngestKeeps ==
    ASSUME DirInv, MutualExclusion, NEW p \in Procs, NEW i \in Items, Ingest(p, i)
    PROVE  DirInv'
<1> USE DEF DirInv
<1>1. /\ pc[p] = "in" /\ pc' = pc /\ jobs[p].op \in {"store", "pin"}
      /\ i \notin ingested /\ wal' = wal \cup {i} /\ ingested' = ingested \cup {i}
      /\ UNCHANGED <<segs, inodes, live, pins, jobs, installs>>
  BY DEF Ingest, lockVars
<1>2. \A q \in Procs : q # p => jobs'[q].op = "idle"
  BY <1>1, WorksAlone
<1>3. Log' = Log /\ i \notin Recorded(Log, "settle")
  BY <1>1 DEF Log, ErasuresAreOfIngested, Shaped
<1>4. Shaped'
  BY <1>1 DEF Shaped, Pin, Manifest
<1>5. WorksInside' /\ ErasuresAreOfIngested'
  BY <1>1 DEF WorksInside, ErasuresAreOfIngested, Recorded
<1>6. OwnLogs' /\ PinsAreHonest'
  BY <1>1 DEF OwnLogs, PinsAreHonest, Recorded
<1>7. SettledAreGone'
  BY <1>1, <1>3 DEF SettledAreGone, Recorded
<1>8. jobs'[p].op = "pin" => PinJob(jobs[p])'
  <2>1. jobs[p].op = "pin" => PinJob(jobs[p])
    BY DEF JobsAreSound
  <2> QED
    BY <1>1, <1>3, <2>1 DEF PinJob, HonestWith, Recorded, Manifest
<1>9. JobsAreSound'
  BY <1>1, <1>2, <1>8, JobStep DEF Installing
<1> QED
  BY <1>4, <1>5, <1>6, <1>7, <1>9

(* The records of an erasure are appended to the working set's own log     *)
(* (ErasureLog::begin, settle).                                            *)
LEMMA LogGrows ==
    ASSUME DirInv, MutualExclusion, NEW p \in Procs, pc[p] = "in", jobs[p].op \in {"store", "pin"},
           NEW kind \in {"begin", "settle"}, NEW i \in Erasable, i \in ingested,
           kind = "settle" => i \notin segs \cup wal,
           inodes' = [inodes EXCEPT ![live] = Append(@, [kind |-> kind, item |-> i])],
           UNCHANGED <<pc, segs, wal, live, pins, jobs, ingested, installs>>
    PROVE  DirInv'
<1> USE DEF DirInv
<1>1. /\ inodes \in [Inodes -> Seq(Record)] /\ live \in Inodes
      /\ inodes'[live] = Append(Log, [kind |-> kind, item |-> i])
      /\ \A n \in Inodes : n # live => inodes'[n] = inodes[n]
      /\ Log \in Seq(Record) /\ Log' = inodes'[live]
  BY DEF Shaped, Log
<1>2. /\ Log' \in Seq(Record) /\ Len(Log') = Len(Log) + 1
      /\ \A n \in 0 .. Len(Log) : SubSeq(Log', 1, n) = SubSeq(Log, 1, n)
      /\ \A k : Recorded(Log', k) \subseteq Recorded(Log, k) \cup {i}
      /\ kind # "settle" => Recorded(Log', "settle") = Recorded(Log, "settle")
  <2> DEFINE longer == Append(Log, [kind |-> kind, item |-> i])
  <2>1. /\ Log' = longer /\ longer \in Seq(Record) /\ Len(longer) = Len(Log) + 1
        /\ \A n \in 0 .. Len(Log) : SubSeq(longer, 1, n) = SubSeq(Log, 1, n)
        /\ Recorded(longer, kind) = Recorded(Log, kind) \cup {i}
        /\ \A k : k # kind => Recorded(longer, k) = Recorded(Log, k)
    BY <1>1, AppendRecords
  <2> HIDE DEF longer
  <2>2. ASSUME NEW k PROVE Recorded(longer, k) \subseteq Recorded(Log, k) \cup {i}
    <3>1. CASE k = kind
      BY <2>1, <3>1
    <3>2. CASE k # kind
      BY <2>1, <3>2
    <3> QED
      BY <3>1, <3>2
  <2>3. kind # "settle" => Recorded(longer, "settle") = Recorded(Log, "settle")
    BY <2>1
  <2> QED
    BY <2>1, <2>2, <2>3
<1>3. Shaped'
  <2>1. inodes' \in [Inodes -> Seq(Record)]
    BY <1>1, <1>2
  <2> QED
    BY <2>1 DEF Shaped, Pin, Manifest
<1>4. ErasuresAreOfIngested'
  <2>1. ASSUME NEW n \in Inodes, NEW k
        PROVE  Recorded(inodes'[n], k) \subseteq Recorded(inodes[n], k) \cup {i}
    BY <1>1, <1>2 DEF Log
  <2>2. \A n \in Inodes, k \in {"begin", "settle"} : Recorded(inodes[n], k) \subseteq ingested
    BY DEF ErasuresAreOfIngested
  <2>3. \A n \in Inodes, k \in {"begin", "settle"} : Recorded(inodes'[n], k) \subseteq ingested'
    BY <2>1, <2>2
  <2>4. \A k : \A n \in Inodes : Recorded(inodes[n], k)' = Recorded(inodes'[n], k)
    BY DEF Recorded
  <2> QED
    BY <2>3, <2>4 DEF ErasuresAreOfIngested
<1>5. OwnLogs' /\ WorksInside'
  BY DEF OwnLogs, WorksInside
<1>6. PinsAreHonest'
  <2>1. ASSUME NEW l \in Labels, pins[l] # None PROVE inodes'[pins[l].log] = inodes[pins[l].log]
    <3>1. pins[l].log \in Inodes /\ pins[l].log # live
      BY <2>1 DEF Shaped, Pin, OwnLogs
    <3> QED
      BY <1>1, <3>1
  <2> QED
    BY <2>1 DEF PinsAreHonest, Recorded
<1>7. SettledAreGone'
  <2>1. (segs \cup wal) \cap Recorded(Log', "settle") = {}
    BY <1>2 DEF SettledAreGone
  <2> QED
    BY <2>1 DEF SettledAreGone, Recorded
<1>8. jobs'[p].op = "pin" => PinJob(jobs[p])'
  <2> SUFFICES ASSUME jobs[p].op = "pin" PROVE PinJob(jobs[p])'
    OBVIOUS
  <2>1. PinJob(jobs[p])
    BY DEF JobsAreSound
  <2>2. jobs[p].man.log \in 0 .. Len(Log) /\ jobs[p].man.log <= Len(Log')
    BY <1>1, <1>2, <2>1 DEF PinJob, Manifest
  <2>3. SubSeq(Log', 1, jobs[p].man.log) = SubSeq(Log, 1, jobs[p].man.log)
    BY <1>2, <2>2
  <2> QED
    BY <2>1, <2>2, <2>3 DEF PinJob, HonestWith, Recorded, Manifest
<1>9. JobsAreSound'
  <2>1. \A q \in Procs : q # p => jobs'[q].op = "idle"
    BY WorksAlone
  <2> QED
    BY <1>8, <2>1, JobStep DEF Installing
<1> QED
  BY <1>3, <1>4, <1>5, <1>6, <1>7, <1>9

(* So an erasure begins and settles.                                       *)
LEMMA ErasureKeeps ==
    ASSUME DirInv, MutualExclusion, NEW p \in Procs, NEW i \in Erasable,
           BeginErasure(p, i) \/ SettleErasure(p, i)
    PROVE  DirInv'
<1>1. Recorded(Log, "begin") \subseteq ingested /\ segs \cup wal \subseteq ingested
  BY DEF DirInv, Shaped, ErasuresAreOfIngested, Log
<1>2. CASE BeginErasure(p, i)
  BY <1>1, <1>2, LogGrows DEF BeginErasure, lockVars
<1>3. CASE SettleErasure(p, i)
  BY <1>1, <1>3, LogGrows DEF SettleErasure, Pending, lockVars
<1> QED
  BY <1>2, <1>3

(* A purge and a checkpoint add nothing to the working set (purge_subject, *)
(* checkpoint_locked).                                                     *)
LEMMA WorkingSetShrinks ==
    ASSUME DirInv, segs' \cup wal' \subseteq segs \cup wal,
           UNCHANGED <<inodes, live, pins, ingested, installs>>,
           WorksInside', JobsAreSound', jobs' = [q \in Procs |-> jobs'[q]]
    PROVE  DirInv'
<1> USE DEF DirInv
<1>1. Shaped'
  BY DEF Shaped, Pin, Manifest
<1>2. ErasuresAreOfIngested' /\ OwnLogs' /\ PinsAreHonest'
  BY DEF ErasuresAreOfIngested, OwnLogs, PinsAreHonest, Recorded
<1>3. SettledAreGone'
  BY DEF SettledAreGone, Recorded, Log
<1> QED
  BY <1>1, <1>2, <1>3

(* A purge keeps what holds of the directory.                              *)
LEMMA PurgeKeeps ==
    ASSUME DirInv, MutualExclusion, NEW p \in Procs, NEW i \in Erasable, Purge(p, i)
    PROVE  DirInv'
<1>1. /\ pc[p] = "in" /\ jobs[p].op = "store" /\ pc' = pc /\ jobs' = jobs
      /\ segs' \cup wal' \subseteq segs \cup wal
      /\ UNCHANGED <<inodes, live, pins, ingested, installs>>
  BY DEF Purge, MaintenanceFree, Doing, lockVars
<1>2. \A q \in Procs : q # p => jobs'[q].op = "idle"
  BY <1>1, WorksAlone DEF DirInv
<1>3. JobsAreSound'
  BY <1>1, <1>2, JobStep DEF Installing
<1> QED
  BY <1>1, <1>3, WorkingSetShrinks DEF DirInv, WorksInside, Shaped

----------------------------------------------------------------------------
(* Pins.                                                                   *)

(* A pin begins with a checkpoint, and its manifest with what that names.  *)
LEMMA StartPinKeeps ==
    ASSUME DirInv, MutualExclusion, NEW p \in Procs, NEW l \in Labels, NEW archive \in BOOLEAN,
           StartPin(p, l, archive)
    PROVE  DirInv'
<1> DEFINE man == [segs |-> segs \cup wal, log |-> Len(Log)]
<1> DEFINE job == [op |-> "pin", label |-> l, archive |-> archive, man |-> man]
<1>0. Shaped /\ WorksInside /\ Log \in Seq(Record)
  BY DEF DirInv, Shaped, Log
<1>1. /\ pc[p] = "in" /\ pc' = pc /\ segs' = segs \cup wal /\ wal' = {} /\ Job(p, job)
      /\ UNCHANGED <<inodes, live, pins, ingested, installs>>
      /\ archive => Pending(Log) = {}
  BY DEF StartPin, MaintenanceFree, Doing, Checkpoint, lockVars
<1>2. /\ jobs'[p] = job /\ jobs' = [q \in Procs |-> jobs'[q]]
      /\ \A q \in Procs : q # p => jobs'[q] = jobs[q]
  BY <1>0, <1>1, JobIs
<1>3. \A q \in Procs : q # p => jobs'[q].op = "idle"
  BY <1>0, <1>1, <1>2, WorksAlone
<1>4. PinJob(jobs[p])'
  <2>1. Len(Log) \in Nat /\ SubSeq(Log, 1, Len(Log)) = Log /\ Log' = Log
    <3>1. Len(Log) \in 0 .. Len(Log)
      BY <1>0
    <3> QED
      BY <1>0, <1>1, <3>1, PrefixRecords DEF Log
  <2>2. /\ man \in Manifest /\ man.segs = segs \cup wal /\ man.log = Len(Log)
        /\ man.segs \subseteq ingested
    BY <1>0, <2>1 DEF Manifest, Shaped
  <2>3. (segs \cup wal) \cap Recorded(Log, "settle") = {}
    BY DEF DirInv, SettledAreGone
  <2>4. archive => (segs \cup wal) \cap Recorded(Log, "begin") = {}
    BY <1>1, <2>3 DEF Pending
  <2>5. HonestWith(segs \cup wal, Log, archive)
    BY <2>3, <2>4 DEF HonestWith
  <2> HIDE DEF man
  <2>6. /\ jobs'[p].label = l /\ jobs'[p].archive = archive /\ jobs'[p].man = man
        /\ jobs'[p] = [op |-> "pin", label |-> jobs'[p].label, archive |-> jobs'[p].archive,
                       man |-> jobs'[p].man]
    BY <1>2
  <2>7. HonestWith(jobs'[p].man.segs, SubSeq(Log', 1, jobs'[p].man.log), jobs'[p].archive)
    BY <2>1, <2>2, <2>5, <2>6
  <2>8. Len(Log') = Len(Log) /\ Len(Log) <= Len(Log)
    BY <2>1
  <2> QED
    BY <1>1, <2>2, <2>6, <2>7, <2>8 DEF PinJob, HonestWith, Recorded, Manifest
<1>5. JobsAreSound' /\ WorksInside'
  <2>1. jobs'[p].op = "pin"
    BY <1>2
  <2>2. JobsAreSound'
    BY <1>3, <1>4, <2>1, JobStep DEF Installing
  <2>3. WorksInside'
    BY <1>1, <1>3 DEF WorksInside
  <2> QED
    BY <2>2, <2>3
<1> QED
  BY <1>1, <1>2, <1>5, WorkingSetShrinks

(* A new file, of an inode that nothing uses, leaves every log as it was.  *)
LEMMA NewLog ==
    ASSUME DirInv, MaxInstalls # 0 \/ \E l \in Labels : pins[l] = None, NEW log \in Seq(Record),
           \A k \in {"begin", "settle"} : Recorded(log, k) \subseteq ingested,
           inodes' = [inodes EXCEPT ![FreshInode] = log], ingested' = ingested
    PROVE  /\ FreshInode \in Inodes /\ FreshInode # live
           /\ inodes' \in [Inodes -> Seq(Record)] /\ inodes'[FreshInode] = log
           /\ inodes'[live] = Log
           /\ \A l \in Labels : pins[l] # None =>
                 pins[l].log # FreshInode /\ inodes'[pins[l].log] = inodes[pins[l].log]
           /\ ErasuresAreOfIngested'
<1> PICK fresh : fresh = FreshInode
  OBVIOUS
<1>0. Shaped /\ ErasuresAreOfIngested
  BY DEF DirInv
<1>1. fresh \in Inodes \ UsedInodes
  BY <1>0, FreshIs
<1>2. fresh # live /\ \A l \in Labels : pins[l] # None => pins[l].log # fresh
  BY <1>1 DEF UsedInodes
<1>3. /\ inodes' \in [Inodes -> Seq(Record)] /\ inodes'[fresh] = log
      /\ \A n \in Inodes : n # fresh => inodes'[n] = inodes[n]
  BY <1>0, <1>1 DEF Shaped
<1>4. \A l \in Labels : pins[l] # None => pins[l].log \in Inodes
  BY <1>0 DEF Shaped, Pin
<1>5. inodes'[live] = Log
  BY <1>0, <1>2, <1>3 DEF Shaped, Log
<1>6. ErasuresAreOfIngested'
  <2>1. \A n \in Inodes, k \in {"begin", "settle"} : Recorded(inodes[n], k) \subseteq ingested
    BY <1>0 DEF ErasuresAreOfIngested
  <2>2. \A n \in Inodes, k \in {"begin", "settle"} : Recorded(inodes'[n], k) \subseteq ingested'
    BY <1>3, <2>1
  <2>3. \A k : \A n \in Inodes : Recorded(inodes[n], k)' = Recorded(inodes'[n], k)
    BY DEF Recorded
  <2> QED
    BY <2>2, <2>3 DEF ErasuresAreOfIngested
<1> QED
  BY <1>1, <1>2, <1>3, <1>4, <1>5, <1>6

(* A pin appears with a log of its own, the prefix its manifest digested,  *)
(* or not at all if its label is taken (build_pin).                        *)
LEMMA FinishPinKeeps ==
    ASSUME DirInv, MutualExclusion, NEW p \in Procs, FinishPin(p)
    PROVE  DirInv'
<1> DEFINE job == jobs[p]
<1> DEFINE head == SubSeq(Log, 1, job.man.log)
<1>0. /\ Shaped /\ WorksInside /\ OwnLogs /\ PinsAreHonest
      /\ SettledAreGone /\ ErasuresAreOfIngested
      /\ Log \in Seq(Record) /\ PinJob(job)
  BY DEF DirInv, Shaped, Log, FinishPin, Doing, JobsAreSound
<1>1. /\ pc[p] = "in" /\ pc' = pc /\ Job(p, [op |-> "store"])
      /\ UNCHANGED <<segs, wal, live, ingested, installs>>
  BY DEF FinishPin, Doing, lockVars
<1>2. /\ jobs'[p].op = "store" /\ jobs' = [q \in Procs |-> jobs'[q]]
      /\ \A q \in Procs : q # p => jobs'[q] = jobs[q] /\ jobs'[q].op = "idle"
  BY <1>0, <1>1, JobIs, WorksAlone
<1>3. WorksInside' /\ JobsAreSound'
  BY <1>0, <1>1, <1>2, JobStep DEF WorksInside, Installing
<1>4. CASE pins[job.label] # None
  BY <1>1, <1>2, <1>3, <1>4, FilesStay DEF FinishPin, Shaped, DirInv
<1>5. CASE pins[job.label] = None
  <2> DEFINE pin == [man |-> job.man, segs |-> job.man.segs, log |-> FreshInode,
                     archive |-> job.archive]
  <2>1. /\ inodes' = [inodes EXCEPT ![FreshInode] = head]
        /\ pins' = [pins EXCEPT ![job.label] = pin]
    BY <1>5 DEF FinishPin, PinnedLog
  <2>2. /\ job.label \in Labels /\ job.man \in Manifest /\ job.archive \in BOOLEAN
        /\ job.man.segs \subseteq ingested /\ HonestWith(job.man.segs, head, job.archive)
        /\ job.man.log \in 0 .. Len(Log)
    BY <1>0 DEF PinJob, Manifest
  <2>3. /\ head \in Seq(Record)
        /\ \A k \in {"begin", "settle"} : Recorded(head, k) \subseteq ingested
    <3>1. head \in Seq(Record) /\ \A k : Recorded(head, k) \subseteq Recorded(Log, k)
      BY <1>0, <2>2, PrefixRecords
    <3>2. \A k \in {"begin", "settle"} : Recorded(Log, k) \subseteq ingested
      BY <1>0 DEF ErasuresAreOfIngested, Log, Shaped
    <3> QED
      BY <3>1, <3>2
  <2> HIDE DEF head
  <2>4. /\ FreshInode \in Inodes /\ FreshInode # live
        /\ inodes' \in [Inodes -> Seq(Record)] /\ inodes'[FreshInode] = head
        /\ inodes'[live] = Log
        /\ \A l \in Labels : pins[l] # None =>
              pins[l].log # FreshInode /\ inodes'[pins[l].log] = inodes[pins[l].log]
        /\ ErasuresAreOfIngested'
    BY <1>1, <1>5, <2>1, <2>2, <2>3, NewLog
  <2> PICK fresh : fresh = FreshInode
    OBVIOUS
  <2>5. /\ pin \in Pin /\ pin.log = fresh /\ pin.segs = job.man.segs /\ pin.archive = job.archive
        /\ pin.man = job.man
    BY <2>2, <2>4 DEF Pin, Manifest
  <2> HIDE DEF pin
  <2>6. /\ pins' \in [Labels -> Pin \cup {None}] /\ pins'[job.label] = pin
        /\ \A l \in Labels : l # job.label => pins'[l] = pins[l]
    BY <1>0, <2>1, <2>2, <2>5 DEF Shaped
  <2>7. Shaped'
    BY <1>0, <1>1, <1>2, <2>4, <2>6 DEF Shaped, Pin, Manifest
  <2>8. OwnLogs'
    BY <1>0, <1>1, <2>2, <2>4, <2>5, <2>6 DEF OwnLogs
  <2>9. SettledAreGone'
    BY <1>0, <1>1, <2>4 DEF SettledAreGone, Recorded, Log
  <2>10. PinsAreHonest'
    <3> SUFFICES ASSUME NEW l \in Labels, pins'[l] # None
                 PROVE  HonestWith(pins'[l].segs, inodes'[pins'[l].log], pins'[l].archive)
      BY DEF PinsAreHonest, HonestWith, Recorded
    <3>1. CASE l = job.label
      BY <2>2, <2>4, <2>5, <2>6, <3>1
    <3>2. CASE l # job.label
      <4>1. pins'[l] = pins[l] /\ inodes'[pins[l].log] = inodes[pins[l].log]
        BY <2>4, <2>6, <3>2
      <4>2. HonestWith(pins[l].segs, inodes[pins[l].log], pins[l].archive)
        BY <1>0, <4>1 DEF PinsAreHonest, HonestWith
      <4> QED
        BY <4>1, <4>2
    <3> QED
      BY <3>1, <3>2
  <2> QED
    BY <1>3, <2>4, <2>7, <2>8, <2>9, <2>10 DEF DirInv
<1> QED
  BY <1>4, <1>5

(* What is left of a pin is as honest as the pin was (release_pin).        *)
LEMMA PinsShrink ==
    ASSUME DirInv, MutualExclusion, NEW p \in Procs, pc[p] = "in", jobs[p].op \in {"store", "pin"},
           pins' \in [Labels -> Pin \cup {None}],
           \A l \in Labels : pins'[l] # None =>
               /\ pins[l] # None /\ pins'[l].log = pins[l].log /\ pins'[l].archive = pins[l].archive
               /\ pins'[l].segs \subseteq pins[l].segs,
           UNCHANGED <<pc, segs, wal, inodes, live, jobs, ingested, installs>>
    PROVE  DirInv'
<1> USE DEF DirInv
<1>1. Shaped' /\ WorksInside'
  BY DEF Shaped, Pin, Manifest, WorksInside
<1>2. ErasuresAreOfIngested' /\ SettledAreGone' /\ OwnLogs'
  BY DEF ErasuresAreOfIngested, SettledAreGone, OwnLogs, Recorded, Log
<1>3. PinsAreHonest'
  BY DEF PinsAreHonest, Recorded
<1>4. jobs'[p].op = "pin" => PinJob(jobs[p])'
  <2>1. jobs[p].op = "pin" => PinJob(jobs[p])
    BY DEF JobsAreSound
  <2>2. Log' = Log
    BY DEF Log
  <2> QED
    BY <2>1, <2>2 DEF PinJob, HonestWith, Recorded, Manifest
<1>5. JobsAreSound'
  <2>1. \A q \in Procs : q # p => jobs'[q].op = "idle"
    BY WorksAlone
  <2> QED
    BY <1>4, <2>1, JobStep DEF Installing
<1> QED
  BY <1>1, <1>2, <1>3, <1>5

(* A pin is released file by file, and then as a whole.                    *)
LEMMA ReleaseKeeps ==
    ASSUME DirInv, MutualExclusion, NEW p \in Procs, NEW l \in Labels,
           UnlinkSome(p, l) \/ ReleasePin(p, l)
    PROVE  DirInv'
<1>0. pins \in [Labels -> Pin \cup {None}]
  BY DEF DirInv, Shaped
<1>1. CASE UnlinkSome(p, l)
  <2>1. pins[l] \in Pin /\ pins[l] # None
    BY <1>0, <1>1 DEF UnlinkSome
  <2>2. ASSUME NEW i, pins' = [pins EXCEPT ![l].segs = @ \ {i}] PROVE DirInv'
    <3> DEFINE pin == [pins[l] EXCEPT !.segs = @ \ {i}]
    <3>1. /\ pin \in Pin /\ pin.log = pins[l].log /\ pin.archive = pins[l].archive
          /\ pin.segs \subseteq pins[l].segs
      BY <2>1 DEF Pin
    <3>2. pins' = [pins EXCEPT ![l] = pin]
      BY <2>2
    <3> HIDE DEF pin
    <3>3. /\ pins' \in [Labels -> Pin \cup {None}] /\ pins'[l] = pin
          /\ \A k \in Labels : k # l => pins'[k] = pins[k]
      BY <1>0, <3>1, <3>2
    <3> QED
      BY <1>1, <2>1, <3>1, <3>3, PinsShrink DEF UnlinkSome, lockVars
  <2>3. ASSUME pins' = [pins EXCEPT ![l].man = None] PROVE DirInv'
    <3> DEFINE pin == [pins[l] EXCEPT !.man = None]
    <3>1. /\ pin \in Pin /\ pin.log = pins[l].log /\ pin.archive = pins[l].archive
          /\ pin.segs \subseteq pins[l].segs
      BY <2>1 DEF Pin
    <3>2. pins' = [pins EXCEPT ![l] = pin]
      BY <2>3
    <3> HIDE DEF pin
    <3>3. /\ pins' \in [Labels -> Pin \cup {None}] /\ pins'[l] = pin
          /\ \A k \in Labels : k # l => pins'[k] = pins[k]
      BY <1>0, <3>1, <3>2
    <3> QED
      BY <1>1, <2>1, <3>1, <3>3, PinsShrink DEF UnlinkSome, lockVars
  <2> QED
    BY <1>1, <2>2, <2>3 DEF UnlinkSome
<1>2. CASE ReleasePin(p, l)
  <2>1. /\ pins' \in [Labels -> Pin \cup {None}] /\ pins'[l] = None
        /\ \A k \in Labels : k # l => pins'[k] = pins[k]
    BY <1>0, <1>2 DEF ReleasePin
  <2> QED
    BY <1>2, <2>1, PinsShrink DEF ReleasePin, lockVars
<1> QED
  BY <1>1, <1>2

----------------------------------------------------------------------------
(* Restore.                                                                *)

(* A restore begins with a whole pin in hand (install_staged verifies the  *)
(* staged files first).                                                    *)
LEMMA BeginInstallKeeps ==
    ASSUME DirInv, MutualExclusion, NEW p \in Procs, NEW l \in Labels, BeginInstall(p, l)
    PROVE  DirInv'
<1> DEFINE job == [op |-> "clear", pin |-> pins[l]]
<1>0. Shaped /\ WorksInside
  BY DEF DirInv
<1>1. /\ pc[p] = "in" /\ pc' = pc /\ Job(p, job) /\ installs' = installs + 1
      /\ installs < MaxInstalls /\ pins[l] # None
      /\ pins[l].man # None /\ pins[l].man.segs \subseteq pins[l].segs
      /\ UNCHANGED <<segs, wal, inodes, live, pins, ingested>>
  BY DEF BeginInstall, Verified, Doing, lockVars
<1>2. /\ jobs'[p] = job /\ jobs' = [q \in Procs |-> jobs'[q]]
      /\ \A q \in Procs : q # p => jobs'[q] = jobs[q] /\ jobs'[q].op = "idle"
  BY <1>0, <1>1, JobIs, WorksAlone
<1>3. MaxInstalls # 0 /\ installs' \in Nat
  BY <1>0, <1>1, DirectoryAssumption DEF Shaped
<1>4. InstallJob(jobs[p])'
  BY <1>1, <1>2, <1>3 DEF InstallJob
<1>5. WorksInside' /\ JobsAreSound'
  BY <1>0, <1>1, <1>2, <1>4, JobStep DEF WorksInside, Installing
<1> QED
  BY <1>1, <1>2, <1>3, <1>5, FilesStay

(* The working set is emptied file by file, the log last                   *)
(* (remove_working_set).                                                   *)
LEMMA RemoveWorkingSetKeeps ==
    ASSUME DirInv, MutualExclusion, NEW p \in Procs, RemoveWorkingSet(p)
    PROVE  DirInv'
<1> DEFINE job == jobs[p]
<1>0. /\ Shaped /\ WorksInside /\ OwnLogs /\ PinsAreHonest
      /\ job.op = "clear" /\ InstallJob(job)
  BY DEF DirInv, RemoveWorkingSet, Doing, JobsAreSound, Installing
<1>1. pc[p] = "in" /\ pc' = pc /\ UNCHANGED <<wal, pins, ingested, installs>>
  BY DEF RemoveWorkingSet, Doing, lockVars
<1>2. \A q \in Procs : q # p => jobs[q].op = "idle"
  BY <1>0, <1>1, WorksAlone
<1>3. CASE segs # {}
  <2>1. segs' \subseteq segs /\ UNCHANGED <<live, inodes, jobs>>
    BY <1>3 DEF RemoveWorkingSet
  <2>2. InstallJob(jobs[p])'
    BY <1>0, <1>1, <2>1 DEF InstallJob
  <2>3. WorksInside' /\ JobsAreSound' /\ jobs' = [q \in Procs |-> jobs'[q]]
    BY <1>0, <1>1, <1>2, <2>1, <2>2, JobStep DEF WorksInside, Installing, Shaped
  <2> QED
    BY <1>1, <2>1, <2>3, WorkingSetShrinks
<1>4. CASE segs = {}
  <2>1. /\ segs' = {} /\ live' = FreshInode
        /\ inodes' = [inodes EXCEPT ![FreshInode] = <<>>]
        /\ Job(p, [job EXCEPT !.op = "copy"])
    BY <1>4 DEF RemoveWorkingSet
  <2>2. /\ FreshInode \in Inodes
        /\ inodes' \in [Inodes -> Seq(Record)] /\ inodes'[FreshInode] = <<>>
        /\ \A l \in Labels : pins[l] # None =>
              pins[l].log # FreshInode /\ inodes'[pins[l].log] = inodes[pins[l].log]
        /\ ErasuresAreOfIngested'
    BY <1>0, <1>1, <2>1, NothingRecorded, NewLog DEF InstallJob
  <2>3. /\ jobs'[p].op = "copy" /\ jobs'[p].pin = job.pin
        /\ jobs'[p] = [op |-> jobs'[p].op, pin |-> jobs'[p].pin]
        /\ jobs' = [q \in Procs |-> jobs'[q]]
        /\ \A q \in Procs : q # p => jobs'[q] = jobs[q]
    <3>1. /\ jobs'[p] = [job EXCEPT !.op = "copy"] /\ jobs' = [q \in Procs |-> jobs'[q]]
          /\ \A q \in Procs : q # p => jobs'[q] = jobs[q]
      BY <1>0, <2>1, JobIs
    <3>2. job = [op |-> job.op, pin |-> job.pin]
      BY <1>0 DEF InstallJob
    <3>3. [job EXCEPT !.op = "copy"] = [op |-> "copy", pin |-> job.pin]
      BY <3>2
    <3> QED
      BY <3>1, <3>3
  <2> PICK fresh : fresh = FreshInode
    OBVIOUS
  <2>4. Log' = <<>>
    BY <2>1, <2>2 DEF Log
  <2>5. Shaped'
    BY <1>0, <1>1, <2>1, <2>2, <2>3 DEF Shaped, Pin, Manifest
  <2>6. OwnLogs' /\ PinsAreHonest'
    BY <1>0, <1>1, <2>1, <2>2 DEF OwnLogs, PinsAreHonest, Recorded
  <2>7. SettledAreGone'
    <3>1. Recorded(Log', "settle") = {}
      BY <2>4, NothingRecorded
    <3> QED
      BY <3>1 DEF SettledAreGone, Recorded
  <2>8. InstallJob(jobs[p])'
    BY <1>0, <1>1, <2>1, <2>3, <2>4 DEF InstallJob
  <2>9. WorksInside' /\ JobsAreSound'
    BY <1>0, <1>1, <1>2, <2>3, <2>8, JobStep DEF WorksInside, Installing
  <2> QED
    BY <2>2, <2>5, <2>6, <2>7, <2>9 DEF DirInv
<1> QED
  BY <1>3, <1>4

(* The pin's files are copied in, its log last and with the old frames     *)
(* removed (copy_staged).                                                  *)
LEMMA CopyStagedKeeps ==
    ASSUME DirInv, MutualExclusion, NEW p \in Procs, CopyStaged(p)
    PROVE  DirInv'
<1> DEFINE job == jobs[p]
<1> DEFINE pin == job.pin
<1>0. /\ Shaped /\ WorksInside /\ OwnLogs /\ PinsAreHonest /\ ErasuresAreOfIngested
      /\ job.op = "copy" /\ InstallJob(job) /\ segs \subseteq pin.man.segs /\ Log = <<>>
  BY DEF DirInv, CopyStaged, Doing, JobsAreSound, Installing, InstallJob
<1>1. pc[p] = "in" /\ pc' = pc /\ UNCHANGED <<live, pins, ingested, installs>>
  BY DEF CopyStaged, Doing, lockVars
<1>2. \A q \in Procs : q # p => jobs[q].op = "idle"
  BY <1>0, <1>1, WorksAlone
<1>3. PICK l \in Labels : pins[l] # None /\ pins[l] = pin
  BY <1>0 DEF InstallJob
<1>4. /\ pin.man.segs \subseteq pin.segs /\ pin.segs \subseteq ingested
      /\ pin.log \in Inodes /\ pin.log # live
      /\ pin.segs \cap Recorded(inodes[pin.log], "settle") = {}
  BY <1>0, <1>3 DEF InstallJob, OwnLogs, Shaped, Pin, PinsAreHonest
<1>5. CASE ~(pin.man.segs \subseteq segs)
  <2>1. PICK i \in pin.man.segs \ segs : segs' = segs \cup {i}
    BY <1>5 DEF CopyStaged
  <2>2. UNCHANGED <<inodes, wal, jobs>> /\ Log' = <<>>
    BY <1>0, <1>1, <1>5 DEF CopyStaged, Log
  <2>3. Shaped'
    BY <1>0, <1>1, <1>4, <2>1, <2>2 DEF Shaped, Pin, Manifest
  <2>4. ErasuresAreOfIngested' /\ OwnLogs' /\ PinsAreHonest' /\ WorksInside'
    BY <1>0, <1>1, <2>2 DEF ErasuresAreOfIngested, OwnLogs, PinsAreHonest, WorksInside, Recorded
  <2>5. SettledAreGone'
    <3>1. Recorded(Log', "settle") = {}
      BY <2>2, NothingRecorded
    <3> QED
      BY <3>1 DEF SettledAreGone, Recorded
  <2>6. InstallJob(jobs[p])'
    <3>1. segs' \subseteq pin.man.segs
      BY <1>0, <2>1
    <3> QED
      BY <1>0, <1>1, <2>2, <3>1 DEF InstallJob
  <2>7. JobsAreSound'
    BY <1>0, <1>2, <2>2, <2>6, JobStep DEF Installing
  <2> QED
    BY <2>3, <2>4, <2>5, <2>7 DEF DirInv
<1>6. CASE pin.man.segs \subseteq segs
  <2>1. /\ segs' = segs /\ segs = pin.man.segs /\ wal' = {}
        /\ inodes' = [inodes EXCEPT ![live] = inodes[pin.log]]
        /\ Job(p, [job EXCEPT !.op = "publish"])
    BY <1>0, <1>6 DEF CopyStaged
  <2>2. /\ jobs'[p].op = "publish" /\ jobs'[p].pin = pin
        /\ jobs'[p] = [op |-> jobs'[p].op, pin |-> jobs'[p].pin]
        /\ jobs' = [q \in Procs |-> jobs'[q]]
        /\ \A q \in Procs : q # p => jobs'[q] = jobs[q]
    <3>1. /\ jobs'[p] = [job EXCEPT !.op = "publish"] /\ jobs' = [q \in Procs |-> jobs'[q]]
          /\ \A q \in Procs : q # p => jobs'[q] = jobs[q]
      BY <1>0, <2>1, JobIs
    <3>2. job = [op |-> job.op, pin |-> job.pin]
      BY <1>0 DEF InstallJob
    <3>3. [job EXCEPT !.op = "publish"] = [op |-> "publish", pin |-> pin]
      BY <3>2
    <3> QED
      BY <3>1, <3>3
  <2>3. /\ inodes' \in [Inodes -> Seq(Record)] /\ inodes'[live] = inodes[pin.log]
        /\ \A n \in Inodes : n # live => inodes'[n] = inodes[n]
    BY <1>0, <1>4, <2>1 DEF Shaped
  <2>4. Log' = inodes[pin.log] /\ inodes'[pin.log] = inodes[pin.log]
    BY <1>1, <1>4, <2>3 DEF Log
  <2>5. Shaped'
    BY <1>0, <1>1, <2>1, <2>2, <2>3 DEF Shaped, Pin, Manifest
  <2>6. ErasuresAreOfIngested'
    <3>1. \A n \in Inodes, k \in {"begin", "settle"} : Recorded(inodes[n], k) \subseteq ingested
      BY <1>0 DEF ErasuresAreOfIngested
    <3>2. \A n \in Inodes, k \in {"begin", "settle"} : Recorded(inodes'[n], k) \subseteq ingested'
      BY <1>1, <1>4, <2>3, <3>1
    <3>3. \A k : \A n \in Inodes : Recorded(inodes[n], k)' = Recorded(inodes'[n], k)
      BY DEF Recorded
    <3> QED
      BY <3>2, <3>3 DEF ErasuresAreOfIngested
  <2>7. OwnLogs'
    BY <1>0, <1>1 DEF OwnLogs
  <2>8. PinsAreHonest'
    <3>1. ASSUME NEW k \in Labels, pins[k] # None PROVE inodes'[pins[k].log] = inodes[pins[k].log]
      <4>1. pins[k].log \in Inodes /\ pins[k].log # live
        BY <1>0, <3>1 DEF Shaped, Pin, OwnLogs
      <4> QED
        BY <2>3, <4>1
    <3> QED
      BY <1>0, <1>1, <3>1 DEF PinsAreHonest, Recorded
  <2>9. SettledAreGone'
    <3>1. (segs' \cup wal') \cap Recorded(Log', "settle") = {}
      BY <1>4, <2>1, <2>4
    <3> QED
      BY <3>1 DEF SettledAreGone, Recorded
  <2>10. InstallJob(jobs[p])'
    BY <1>0, <1>1, <1>3, <2>1, <2>2, <2>4 DEF InstallJob
  <2>11. WorksInside' /\ JobsAreSound'
    BY <1>0, <1>1, <1>2, <2>2, <2>10, JobStep DEF WorksInside, Installing
  <2> QED
    BY <2>5, <2>6, <2>7, <2>8, <2>9, <2>11 DEF DirInv
<1> QED
  BY <1>5, <1>6

----------------------------------------------------------------------------
(* The directory.                                                          *)

(* A new directory is empty.                                               *)
LEMMA DirInvInit == Init => DirInv
<1> SUFFICES ASSUME Init PROVE DirInv
  OBVIOUS
<1>1. /\ segs = {} /\ wal = {} /\ ingested = {} /\ live = 0 /\ installs = 0
      /\ inodes = [n \in Inodes |-> <<>>] /\ pins = [l \in Labels |-> None]
      /\ jobs = [p \in Procs |-> Idle]
  BY DEF Init
<1>2. 0 \in Inodes
  BY DirectoryAssumption, FS_CardinalityType DEF Inodes
<1>3. /\ inodes \in [Inodes -> Seq(Record)] /\ Log = <<>>
      /\ \A k : \A n \in Inodes : Recorded(inodes[n], k) = {}
  BY <1>1, <1>2, NothingRecorded DEF Log
<1>4. Shaped
  BY <1>1, <1>2, <1>3 DEF Shaped
<1>5. WorksInside /\ JobsAreSound
  BY <1>1 DEF WorksInside, JobsAreSound, Installing, Idle
<1>6. ErasuresAreOfIngested
  BY <1>3 DEF ErasuresAreOfIngested
<1>7. OwnLogs /\ PinsAreHonest
  BY <1>1 DEF OwnLogs, PinsAreHonest
<1>8. SettledAreGone
  BY <1>1 DEF SettledAreGone
<1> QED
  BY <1>4, <1>5, <1>6, <1>7, <1>8 DEF DirInv

(* Every step keeps what holds of the directory.                           *)
LEMMA DirInvStep ==
    ASSUME DirInv, LockTypeOK, MutualExclusion, [Next]_vars
    PROVE  DirInv'
<1>1. CASE UNCHANGED vars
  BY <1>1, Untouched DEF vars, lockVars, dirVars, DirInv, Shaped, WorksInside
<1>2. ASSUME NEW p \in Procs,
             AcquireLock(p) \/ Close(p) \/ ProcessDies(p) \/ OpenStore(p) \/ PublishInstall(p)
      PROVE  DirInv'
  BY <1>2, LockKeepsData
<1>3. ASSUME NEW p \in Procs, NEW i \in Items, Ingest(p, i) PROVE DirInv'
  BY <1>3, IngestKeeps
<1>4. ASSUME NEW p \in Procs, NEW i \in Erasable,
             BeginErasure(p, i) \/ Purge(p, i) \/ SettleErasure(p, i)
      PROVE  DirInv'
  BY <1>4, ErasureKeeps, PurgeKeeps
<1>5. ASSUME NEW p \in Procs, NEW l \in Labels, NEW archive \in BOOLEAN, StartPin(p, l, archive)
      PROVE  DirInv'
  BY <1>5, StartPinKeeps
<1>6. ASSUME NEW p \in Procs, FinishPin(p) PROVE DirInv'
  BY <1>6, FinishPinKeeps
<1>7. ASSUME NEW p \in Procs, NEW l \in Labels,
             UnlinkSome(p, l) \/ ReleasePin(p, l) \/ BeginInstall(p, l)
      PROVE  DirInv'
  BY <1>7, ReleaseKeeps, BeginInstallKeeps
<1>8. ASSUME NEW p \in Procs, RemoveWorkingSet(p) \/ CopyStaged(p) PROVE DirInv'
  BY <1>8, RemoveWorkingSetKeeps, CopyStagedKeeps
<1> QED
  BY <1>1, <1>2, <1>3, <1>4, <1>5, <1>6, <1>7, <1>8 DEF Next

(* Nobody restores in an empty directory.                                  *)
LEMMA OneLineageInit == Init => OneLineage
BY DEF Init, OneLineage

(* Every step keeps the working set at what was promised, as long as no    *)
(* process dies in the middle of a restore.                                *)
LEMMA OneLineageStep ==
    ASSUME ~InstallDies, DirInv, MutualExclusion, OneLineage, [Next]_vars
    PROVE  OneLineage'
<1>0. Shaped /\ WorksInside /\ JobsAreSound
  BY DEF DirInv
<1> DEFINE files == segs \cup wal
<1>1. CASE UNCHANGED vars
  BY <1>1 DEF vars, dirVars, OneLineage
<1>2. ASSUME NEW p \in Procs, AcquireLock(p) PROVE OneLineage'
  BY <1>2 DEF AcquireLock, dirVars, OneLineage
<1>3. ASSUME NEW p \in Procs, Close(p) \/ ProcessDies(p) \/ OpenStore(p) PROVE OneLineage'
  <2>1. /\ jobs[p].op \notin Installing /\ UNCHANGED <<segs, wal, promised>>
        /\ \E j : Job(p, j)
    BY <1>3 DEF Close, ProcessDies, OpenStore, Doing, Installing
  <2>2. \A q \in Procs : q # p => jobs'[q] = jobs[q]
    BY <1>0, <2>1, JobIs
  <2> QED
    BY <2>1, <2>2 DEF OneLineage
<1>4. ASSUME NEW p \in Procs, pc[p] = "in", jobs[p].op \in {"store", "pin"}
      PROVE  files = promised
  <2>1. \A q \in Procs : jobs[q].op \notin Installing
    BY <1>0, <1>4, WorksAlone DEF Installing
  <2> QED
    BY <2>1 DEF OneLineage
<1>5. ASSUME NEW p \in Procs, NEW i \in Items, Ingest(p, i) PROVE OneLineage'
  <2>1. files = promised /\ segs' = segs /\ wal' = wal \cup {i} /\ promised' = promised \cup {i}
    BY <1>4, <1>5 DEF Ingest
  <2> QED
    BY <2>1 DEF OneLineage
<1>6. ASSUME NEW p \in Procs, NEW i \in Erasable,
             BeginErasure(p, i) \/ Purge(p, i) \/ SettleErasure(p, i)
      PROVE  OneLineage'
  <2>1. files = promised
    BY <1>4, <1>6 DEF BeginErasure, Purge, SettleErasure, MaintenanceFree, Doing
  <2>2. \/ UNCHANGED <<segs, wal, promised>>
        \/ segs' = files \ {i} /\ wal' = {} /\ promised' = promised \ {i}
    BY <1>6 DEF BeginErasure, Purge, SettleErasure
  <2> QED
    BY <2>1, <2>2 DEF OneLineage
<1>7. ASSUME NEW p \in Procs, NEW l \in Labels, NEW archive \in BOOLEAN, StartPin(p, l, archive)
      PROVE  OneLineage'
  <2>1. files = promised /\ segs' = files /\ wal' = {} /\ promised' = promised
    BY <1>4, <1>7 DEF StartPin, MaintenanceFree, Doing, Checkpoint
  <2> QED
    BY <2>1 DEF OneLineage
<1>8. ASSUME NEW p \in Procs, NEW l \in Labels, UnlinkSome(p, l) \/ ReleasePin(p, l)
      PROVE  OneLineage'
  <2>1. files = promised /\ UNCHANGED <<segs, wal, promised>>
    BY <1>4, <1>8 DEF UnlinkSome, ReleasePin
  <2> QED
    BY <2>1 DEF OneLineage
<1>9. ASSUME NEW p \in Procs, FinishPin(p) PROVE OneLineage'
  <2>1. files = promised /\ UNCHANGED <<segs, wal, promised>>
    BY <1>4, <1>9 DEF FinishPin, Doing
  <2> QED
    BY <2>1 DEF OneLineage
<1>10. ASSUME NEW p \in Procs, jobs'[p].op \in Installing PROVE OneLineage'
  BY <1>10 DEF OneLineage
<1>11. ASSUME NEW p \in Procs, NEW l \in Labels, BeginInstall(p, l) PROVE OneLineage'
  <2>1. Job(p, [op |-> "clear", pin |-> pins[l]])
    BY <1>11 DEF BeginInstall
  <2>2. jobs'[p].op \in Installing
    BY <1>0, <2>1, JobIs DEF Installing
  <2> QED
    BY <1>10, <2>2
<1>12. ASSUME NEW p \in Procs, RemoveWorkingSet(p) \/ CopyStaged(p) PROVE OneLineage'
  <2>1. jobs[p].op \in Installing /\ InstallJob(jobs[p])
    BY <1>0, <1>12 DEF RemoveWorkingSet, CopyStaged, Doing, Installing, JobsAreSound
  <2>2. \/ jobs' = jobs
        \/ Job(p, [jobs[p] EXCEPT !.op = "copy"])
        \/ Job(p, [jobs[p] EXCEPT !.op = "publish"])
    BY <1>12 DEF RemoveWorkingSet, CopyStaged
  <2>3. jobs[p] = [op |-> jobs[p].op, pin |-> jobs[p].pin]
    BY <2>1 DEF InstallJob
  <2>4. /\ [jobs[p] EXCEPT !.op = "copy"].op = "copy"
        /\ [jobs[p] EXCEPT !.op = "publish"].op = "publish"
    BY <2>3
  <2>5. jobs'[p].op \in Installing
    BY <1>0, <2>1, <2>2, <2>4, JobIs DEF Installing
  <2> QED
    BY <1>10, <2>5
<1>13. ASSUME NEW p \in Procs, PublishInstall(p) PROVE OneLineage'
  <2>1. InstallJob(jobs[p]) /\ jobs[p].op = "publish"
    BY <1>0, <1>13 DEF PublishInstall, Doing, JobsAreSound, Installing
  <2>2. segs = jobs[p].pin.man.segs /\ wal = {}
    BY <2>1 DEF InstallJob
  <2>3. promised' = segs /\ segs' = segs /\ wal' = {}
    BY <1>13, <2>2 DEF PublishInstall
  <2> QED
    BY <2>3 DEF OneLineage
<1> QED
  BY <1>1, <1>2, <1>3, <1>5, <1>6, <1>7, <1>8, <1>9, <1>11, <1>12, <1>13 DEF Next

(* Outside a restore, an open store holds what was promised, and nothing   *)
(* that its own log has settled.                                           *)
LEMMA OneLineageHolds == DirInv /\ MutualExclusion /\ OneLineage => OpenHoldsOneStore
<1> SUFFICES ASSUME DirInv, MutualExclusion, OneLineage,
                    NEW p \in Procs, pc[p] = "in", jobs[p].op \in {"store", "pin"}
             PROVE  segs \cup wal = promised /\ promised \cap Recorded(Log, "settle") = {}
  BY DEF OpenHoldsOneStore
<1>1. \A q \in Procs : jobs[q].op \notin Installing
  BY WorksAlone DEF DirInv, Installing
<1>2. segs \cup wal = promised
  BY <1>1 DEF OneLineage
<1> QED
  BY <1>2 DEF DirInv, SettledAreGone

(* A pin is a moment of the store that nothing edits, whatever is ingested,*)
(* erased, pinned, released or restored after it, and wherever processes   *)
(* die, in the middle of a restore too (pin_generation, copy_prefix,       *)
(* pin_for_object_archive).                                                *)
THEOREM PinsStayHonest ==
    ASSUME SentinelsAreKept
    PROVE  Spec => []PinsAreHonest
<1>1. Init => LockInv /\ DirInv
  BY LockInvInit, DirInvInit DEF Init
<1>2. LockInv /\ DirInv /\ [Next]_vars => (LockInv /\ DirInv)'
  BY LockInvStep, StepsOfTheLock, LockInvExcludes, DirInvStep DEF LockInv
<1>3. DirInv => PinsAreHonest
  BY DEF DirInv
<1> QED
  BY <1>1, <1>2, <1>3, PTL DEF Spec

(* An open store is never a blend: it holds what was ingested into it and  *)
(* not purged, or the pin it was restored from and what came after, and    *)
(* nothing that its log records as erased (install_staged), as long as no  *)
(* process dies in the middle of a restore.                                *)
THEOREM NeverABlend ==
    ASSUME SentinelsAreKept, ~InstallDies
    PROVE  Spec => []OpenHoldsOneStore
<1>1. Init => LockInv /\ DirInv /\ OneLineage
  BY LockInvInit, DirInvInit, OneLineageInit DEF Init
<1>2. LockInv /\ DirInv /\ OneLineage /\ [Next]_vars => (LockInv /\ DirInv /\ OneLineage)'
  BY LockInvStep, StepsOfTheLock, LockInvExcludes, DirInvStep, OneLineageStep DEF LockInv
<1>3. LockInv /\ DirInv /\ OneLineage => OpenHoldsOneStore
  BY LockInvExcludes, OneLineageHolds
<1> QED
  BY <1>1, <1>2, <1>3, PTL DEF Spec

----------------------------------------------------------------------------
(* The opening of a directory of an older format.                           *)

\* A segment is the one there was, what the migration makes of it, or no valid one; and its
\* records are the same.
SegmentOk(file, original) ==
    file # Absent =>
        /\ original # Absent
        /\ SegmentFields \subseteq DOMAIN file
        /\ file.stream = original.stream
        /\ IsLegacy(file) => IsLegacy(original)
        /\ Validates(file) =>
              file \in {original, IF IsLegacy(original) THEN Converted(original) ELSE original}

Broken == {blob \in Blobs : ~blob.sound}

SlotOk(p, n, file) ==
    /\ n = "segment" => SegmentOk(file, originals[p].segment)
    /\ n = "blob" => file \in Rightful(p, n) \cup Broken
    /\ n = "manifest" /\ p # 0 =>
          \A m \in DOMAIN file.digests : m \in Listed(p) /\ file.digests[m] \in Rightful(p, m)

Formed(d) == DOMAIN d = DOMAIN originals /\ \A p \in DOMAIN originals : DOMAIN d[p] = Slots

AllOk(d) == \A p \in DOMAIN originals, n \in Slots : SlotOk(p, n, d[p][n])

\* A directory whose files are each in order, slot by slot.
Whole(d) == Formed(d) /\ AllOk(d)

\* What is on disk, what a loss of power would leave, and hence any mixture of the two; and
\* nothing of a blob that was not recognized comes as far as the manifest.
OpeningInv ==
    /\ originals \in Stores
    /\ place \in DOMAIN originals
    /\ Whole(disk) /\ Whole(durable)
    /\ phase \in {"shard", "manifest"} => ~IsNeither(disk[place].blob)

\* What there was at first may stand in its slot, and so may what migration makes of it.
LEMMA OriginalsStand ==
    ASSUME AbsentIsNoFile, StoresAreWhole, originals \in Stores,
           NEW p \in DOMAIN originals, NEW n \in Slots
    PROVE  SlotOk(p, n, originals[p][n]) /\ SlotOk(p, n, Current(p, n))
<1> DEFINE o == originals[p].segment
<1>1. /\ o # Absent => /\ SegmentFields \subseteq DOMAIN o
                       /\ IsLegacy(o) => Decoded(o) = o.stream
      /\ IsLegacy(o) => o # Absent
  BY DEF StoresAreWhole, AbsentIsNoFile, IsLegacy, VersionOf
<1>2. CASE n = "segment"
  <2>1. SegmentOk(o, o)
    BY <1>1 DEF SegmentOk
  <2>2. ASSUME IsLegacy(o) PROVE SegmentOk(Converted(o), o)
    <3>1. Converted(o) = Segment(V8, o.stream)
      BY <1>1, <2>2 DEF Converted
    <3>2. /\ Segment(V8, o.stream).version = V8 /\ Segment(V8, o.stream).stream = o.stream
          /\ SegmentFields \subseteq DOMAIN Segment(V8, o.stream)
      BY DEF Segment, SegmentFields
    <3> QED BY <1>1, <2>2, <3>1, <3>2 DEF SegmentOk, IsLegacy, VersionOf, V6, V7, V8
  <2> QED BY <1>2, <2>1, <2>2 DEF SlotOk, Current
<1>3. CASE n = "blob"
  BY <1>3 DEF SlotOk, Current, Rightful
<1>4. CASE n = "manifest"
  <2>1. Current(p, n) = originals[p][n]
    BY <1>4 DEF Current
  <2>2. p # 0 => \A m \in DOMAIN originals[p].manifest.digests :
            m \in Listed(p) /\ originals[p].manifest.digests[m] = originals[p][m]
    BY DEF StoresAreWhole
  <2> QED BY <1>4, <2>1, <2>2 DEF SlotOk, Rightful
<1> QED BY <1>2, <1>3, <1>4 DEF SlotOk

(* One rename keeps the directory in order if the file it puts is.          *)
LEMMA OnePut ==
    ASSUME Whole(disk), UNCHANGED originals,
           NEW p \in DOMAIN originals, NEW n \in Slots, NEW file, SlotOk(p, n, file),
           Put(p, n, file)
    PROVE  Whole(disk)'
<1>1. Formed(disk)'
  BY DEF Whole, Formed, Put
<1>2. ASSUME NEW q \in DOMAIN originals, NEW m \in Slots
      PROVE  disk'[q][m] = IF q = p /\ m = n THEN file ELSE disk[q][m]
  BY DEF Whole, Formed, Put
<1>3. ASSUME NEW q \in DOMAIN originals, NEW m \in Slots PROVE SlotOk(q, m, disk'[q][m])
  BY <1>2 DEF Whole, AllOk
<1>4. AllOk(disk)'
  BY <1>3 DEF AllOk, SlotOk, Rightful, Current
<1> QED BY <1>1, <1>4 DEF Whole

(* An fsync makes durable what is there.                                    *)
LEMMA OneSync ==
    ASSUME Whole(disk), Whole(durable), UNCHANGED <<disk, originals>>,
           NEW p \in DOMAIN originals, NEW names, Sync(p, names)
    PROVE  Whole(disk)' /\ Whole(durable)'
<1>1. Formed(durable)'
  BY DEF Whole, Formed, Sync
<1>2. ASSUME NEW q \in DOMAIN originals, NEW m \in Slots
      PROVE  durable'[q][m] \in {disk[q][m], durable[q][m]}
  BY DEF Whole, Formed, Sync
<1>3. ASSUME NEW q \in DOMAIN originals, NEW m \in Slots PROVE SlotOk(q, m, durable'[q][m])
  BY <1>2 DEF Whole, AllOk
<1>4. AllOk(durable)'
  BY <1>3 DEF AllOk, SlotOk, Rightful, Current
<1>5. Whole(disk)'
  BY DEF Whole, Formed, AllOk, SlotOk, Rightful, Current
<1> QED BY <1>1, <1>4, <1>5 DEF Whole

(* A step that touches no file.                                             *)
LEMMA NoFile ==
    ASSUME Whole(disk), Whole(durable), UNCHANGED <<disk, durable, originals>>
    PROVE  Whole(disk)' /\ Whole(durable)'
BY DEF Whole, Formed, AllOk, SlotOk, Rightful, Current

(* A mixture of files in order is in order, as a loss of power or an        *)
(* operator leaves one.                                                     *)
LEMMA OneMixture ==
    ASSUME Whole(disk), UNCHANGED originals, Formed(disk)', durable' = disk',
           \A q \in DOMAIN originals, m \in Slots : SlotOk(q, m, disk'[q][m])
    PROVE  Whole(disk)' /\ Whole(durable)'
BY DEF Whole, Formed, AllOk, SlotOk, Rightful, Current

(* The opening starts over what the older build left.                       *)
LEMMA OpeningInvInit == OldStoresAreWhole /\ OpeningInit => OpeningInv
<1> SUFFICES ASSUME OldStoresAreWhole, OpeningInit PROVE OpeningInv
  OBVIOUS
<1>1. originals \in Stores /\ disk = originals /\ durable = originals /\ place = 0 /\ phase = "down"
  BY DEF OpeningInit
<1>2. 0 \in DOMAIN originals
  BY <1>1, MigrationAssumption
<1>3. \A p \in DOMAIN originals : DOMAIN originals[p] = Slots
  BY <1>1 DEF OldStoresAreWhole, StoresAreWhole
<1>4. \A p \in DOMAIN originals, n \in Slots : SlotOk(p, n, originals[p][n])
  BY <1>1, OriginalsStand DEF OldStoresAreWhole
<1> QED BY <1>1, <1>2, <1>3, <1>4 DEF OpeningInv, Whole, Formed, AllOk

(* Adoption changes the log and the live manifest, of which nothing is      *)
(* asked.                                                                   *)
LEMMA AdoptionKeepsOrder ==
    ASSUME OpeningInv, AdoptLog \/ AdoptGeneration \/ Complete
    PROVE  OpeningInv'
<1>1. PICK n, file : n \in {"wal", "manifest"} /\ (Put(0, n, file) \/ UNCHANGED disk)
  BY DEF AdoptLog, AdoptGeneration, Complete
<1>2. UNCHANGED <<durable, originals, place>> /\ phase' \notin {"shard", "manifest"}
  BY DEF AdoptLog, AdoptGeneration, Complete, Proceed, OnlyRenames, Faulty
<1>3. 0 \in DOMAIN originals
  BY MigrationAssumption DEF OpeningInv
<1>4. SlotOk(0, n, file) /\ n \in Slots
  BY <1>1 DEF SlotOk, Slots, Names
<1>5. Whole(disk)'
  <2>1. CASE Put(0, n, file)
    BY <1>2, <1>3, <1>4, <2>1, OnePut DEF OpeningInv
  <2>2. CASE UNCHANGED disk
    BY <1>2, <2>2 DEF OpeningInv, Whole, Formed, AllOk, SlotOk, Rightful, Current
  <2> QED BY <1>1, <2>1, <2>2
<1>6. Whole(durable)'
  BY <1>2 DEF OpeningInv, Whole, Formed, AllOk, SlotOk, Rightful, Current
<1> QED BY <1>2, <1>5, <1>6 DEF OpeningInv

(* What the migration makes of a segment in order that decodes is what it   *)
(* makes of the original, which has the same records.                       *)
LEMMA ConversionIsFaithful ==
    ASSUME OldStoresAreWhole, originals \in Stores, NEW p \in DOMAIN originals,
           NEW file, SegmentOk(file, originals[p].segment), IsLegacy(file), Decoded(file) # Absent
    PROVE  SegmentOk(Converted(file), originals[p].segment)
<1> DEFINE o == originals[p].segment
<1>1. file # Absent
  BY DEF IsLegacy, VersionOf, OldStoresAreWhole, AbsentIsNoFile
<1>2. o # Absent /\ IsLegacy(o) /\ file.stream = o.stream
  BY <1>1 DEF SegmentOk
<1>3. Decoded(o) = o.stream
  BY <1>2 DEF OldStoresAreWhole, StoresAreWhole
<1>4. Decoded(file) = file.stream
  BY DEF Decoded
<1>5. Converted(file) = Converted(o) /\ Converted(o) = Segment(V8, o.stream)
  BY <1>2, <1>3, <1>4 DEF Converted
<1>6. /\ Segment(V8, o.stream).version = V8 /\ Segment(V8, o.stream).stream = o.stream
      /\ SegmentFields \subseteq DOMAIN Segment(V8, o.stream)
  BY DEF Segment, SegmentFields
<1> QED BY <1>2, <1>5, <1>6 DEF SegmentOk, IsLegacy, VersionOf, V6, V7, V8

(* migrate_segment.                                                         *)
LEMMA SegmentsKeepOrder ==
    ASSUME OldStoresAreWhole, OpeningInv, MigrateSegment
    PROVE  OpeningInv'
<1> DEFINE file == disk[place].segment
<1>1. UNCHANGED <<durable, originals, place>> /\ phase' \notin {"shard", "manifest"}
  BY DEF MigrateSegment, Proceed, Reject, OnlyRenames, OnlyReads, Faulty
<1>2. CASE IsLegacy(file) /\ Decoded(file) # Absent
  <2>1. SegmentOk(file, originals[place].segment)
    BY DEF OpeningInv, Whole, AllOk, SlotOk, Slots, Names
  <2>2. SegmentOk(Converted(file), originals[place].segment)
    BY <1>2, <2>1, ConversionIsFaithful DEF OpeningInv
  <2>3. SlotOk(place, "segment", Converted(file)) /\ "segment" \in Slots
    BY <2>2 DEF SlotOk, Slots, Names
  <2>4. Put(place, "segment", Converted(file))
    BY <1>2 DEF MigrateSegment
  <2>5. Whole(disk)'
    BY <1>1, <2>3, <2>4, OnePut DEF OpeningInv
  <2>6. Whole(durable)'
    BY <1>1 DEF OpeningInv, Whole, Formed, AllOk, SlotOk, Rightful, Current
  <2> QED BY <1>1, <2>5, <2>6 DEF OpeningInv
<1>3. CASE ~(IsLegacy(file) /\ Decoded(file) # Absent)
  <2>1. UNCHANGED <<disk, durable, originals>>
    BY <1>3 DEF MigrateSegment, OnlyReads, Faulty
  <2> QED BY <1>1, <2>1, NoFile DEF OpeningInv
<1> QED BY <1>2, <1>3

(* migrate_blob_tree: what it frames is the raw blob that there was.        *)
LEMMA BlobsKeepOrder ==
    ASSUME OldStoresAreWhole, OpeningInv, MigrateBlobs
    PROVE  OpeningInv'
<1> DEFINE blob == disk[place].blob
<1>1. UNCHANGED <<durable, originals, place>>
  BY DEF MigrateBlobs, Proceed, Reject, OnlyRenames, OnlyReads, Faulty
<1>2. "blob" \in Slots /\ SlotOk(place, "blob", blob)
  BY DEF OpeningInv, Whole, AllOk, Slots, Names
<1>3. CASE IsRaw(blob)
  <2>1. blob \in Rightful(place, "blob")
    BY <1>2, <1>3 DEF SlotOk, Broken, IsRaw
  <2>2. blob # Blob(V8)
    BY <1>3 DEF IsRaw, Blob, V6, V8
  <2>3. IsRaw(originals[place].blob)
    BY <1>3, <2>1, <2>2 DEF Rightful, Current
  <2>4. Blob(V8) \in Rightful(place, "blob") /\ ~IsNeither(Blob(V8))
    BY <2>3 DEF Rightful, Current, IsNeither, Blob
  <2>5. SlotOk(place, "blob", Blob(V8))
    BY <2>4 DEF SlotOk
  <2>6. Put(place, "blob", Blob(V8))
    BY <1>3 DEF MigrateBlobs
  <2>7. Whole(disk)' /\ disk'[place].blob = Blob(V8)
    <3>1. Whole(disk)'
      BY <1>1, <1>2, <2>5, <2>6, OnePut DEF OpeningInv
    <3> QED BY <1>2, <2>6, <3>1 DEF Put, OpeningInv, Whole, Formed
  <2>8. Whole(durable)'
    BY <1>1 DEF OpeningInv, Whole, Formed, AllOk, SlotOk, Rightful, Current
  <2> QED BY <1>1, <2>4, <2>7, <2>8 DEF OpeningInv
<1>4. CASE ~IsRaw(blob)
  <2>1. UNCHANGED <<disk, durable, originals>>
    BY <1>4 DEF MigrateBlobs, OnlyReads, Faulty
  <2>2. phase' \in {"shard", "manifest"} => ~IsNeither(blob)
    BY <1>4 DEF MigrateBlobs, Reject, Proceed
  <2> QED BY <1>1, <2>1, <2>2, NoFile DEF OpeningInv
<1> QED BY <1>3, <1>4

(* migrate_pin: a digest follows a file only if the file is what there was  *)
(* or what the migration made of it.                                        *)
LEMMA PinsKeepOrder ==
    ASSUME OldStoresAreWhole, OpeningInv, PinManifest
    PROVE  OpeningInv'
<1> DEFINE digests == ManifestAt(place).digests
           manifest == ManifestOver(V8, [n \in DOMAIN digests |->
                           IF n \in Moved(place) THEN disk[place][n] ELSE digests[n]])
<1>1. UNCHANGED <<durable, originals, place>> /\ phase' \notin {"shard"} /\ phase = "manifest"
  BY DEF PinManifest, Proceed, Reject, OnlyRenames, OnlyReads, Faulty
<1>2. phase' # "manifest"
  BY DEF PinManifest, Proceed, Reject
<1>3. Whole(durable)'
  BY <1>1 DEF OpeningInv, Whole, Formed, AllOk, SlotOk, Rightful, Current
<1>4. CASE UNCHANGED disk
  BY <1>1, <1>2, <1>4, NoFile DEF OpeningInv
<1>5. CASE Put(place, "manifest", manifest) /\ Unproven(place) = {}
  <2>1. \A n \in Slots : SlotOk(place, n, disk[place][n])
    BY DEF OpeningInv, Whole, AllOk
  <2>2. ASSUME place # 0, NEW n \in DOMAIN digests
        PROVE  n \in Listed(place) /\ digests[n] \in Rightful(place, n)
    BY <2>1, <2>2 DEF SlotOk, Slots, ManifestAt
  <2>3. ASSUME place # 0, NEW n \in Moved(place)
        PROVE  n \in Listed(place) /\ disk[place][n] \in Rightful(place, n)
    <3>1. n \in Listed(place) /\ n \notin {"notes", "temp"}
          /\ (n = "segment" => Validates(disk[place].segment))
      BY <1>5, <2>2, <2>3 DEF Moved, Unproven
    <3>2. n \in {"segment", "blob"}
      BY <2>3, <3>1 DEF Listed
    <3>3. CASE n = "segment"
      <4>1. SegmentOk(disk[place].segment, originals[place].segment)
        BY <2>1 DEF SlotOk, Slots, Names
      <4> QED BY <3>1, <3>3, <4>1 DEF SegmentOk, Validates, Rightful, Current
    <3>4. CASE n = "blob"
      <4>1. disk[place].blob \in Rightful(place, "blob") \cup Broken /\ ~IsNeither(disk[place].blob)
        BY <1>1, <2>1 DEF SlotOk, Slots, Names, OpeningInv
      <4>2. disk[place].blob \notin Broken
        BY <4>1 DEF Broken, IsNeither, OldStoresAreWhole, AbsentIsNoFile
      <4> QED BY <3>1, <3>4, <4>1, <4>2
    <3> QED BY <3>2, <3>3, <3>4
  <2>4. SlotOk(place, "manifest", manifest) /\ "manifest" \in Slots
    <3>1. DOMAIN manifest.digests = DOMAIN digests
          /\ \A n \in DOMAIN digests :
                manifest.digests[n] = IF n \in Moved(place) THEN disk[place][n] ELSE digests[n]
      BY DEF ManifestOver
    <3> QED BY <2>2, <2>3, <3>1 DEF SlotOk, Slots
  <2>5. Whole(disk)'
    BY <1>1, <1>5, <2>4, OnePut DEF OpeningInv
  <2> QED BY <1>1, <1>2, <1>3, <2>5 DEF OpeningInv
<1> QED BY <1>4, <1>5 DEF PinManifest, OnlyReads

(* The fsyncs.                                                              *)
LEMMA SyncsKeepOrder ==
    ASSUME OpeningInv, Logged \/ Adopted \/ SyncSegments \/ SyncShard \/ Pinned \/ Published
    PROVE  OpeningInv'
<1>1. UNCHANGED <<disk, originals, place>>
  BY DEF Logged, Adopted, SyncSegments, SyncShard, Pinned, Published, Proceed, OnlySyncs, Faulty
<1>2. UNCHANGED durable \/ \E p \in DOMAIN originals : \E names : Sync(p, names)
  BY MigrationAssumption
  DEF Logged, Adopted, SyncSegments, SyncShard, Pinned, Published, OpeningInv
<1>3. phase' \in {"shard", "manifest"} => phase = "shard"
  BY DEF Logged, Adopted, SyncSegments, SyncShard, Pinned, Published, Proceed
<1>4. Whole(disk)' /\ Whole(durable)'
  BY <1>1, <1>2, OneSync, NoFile DEF OpeningInv
<1> QED BY <1>1, <1>3, <1>4 DEF OpeningInv

(* The steps that only read, and the death of the process.                  *)
LEMMA ReadsKeepOrder ==
    ASSUME OpeningInv, Open \/ Scan \/ NextPlace \/ Kill
    PROVE  OpeningInv'
<1>1. UNCHANGED <<disk, durable, originals>>
  BY DEF Open, Scan, NextPlace, Kill, OnlyReads, Faulty
<1>2. phase' \notin {"shard", "manifest"}
  BY DEF Open, Scan, NextPlace, Kill, Proceed, ProceedTo, Reject
<1>3. place' \in DOMAIN originals
  BY MigrationAssumption
  DEF Open, Scan, NextPlace, Kill, Proceed, ProceedTo, Reject, OpeningInv, Whole, Formed, Pins,
      AllPlaces
<1> QED BY <1>1, <1>2, <1>3, NoFile DEF OpeningInv

(* A loss of power leaves each file as it is or as it was.                  *)
LEMMA PowerKeepsOrder ==
    ASSUME OpeningInv, LosePower
    PROVE  OpeningInv'
<1>1. UNCHANGED <<originals, place>> /\ phase' = "down" /\ durable' = disk'
  BY DEF LosePower
<1>2. DOMAIN disk' = DOMAIN originals
      /\ \A p \in DOMAIN originals : DOMAIN disk'[p] = Slots
                                     /\ \A n \in Slots : disk'[p][n] \in {disk[p][n], durable[p][n]}
  BY DEF LosePower, AllPlaces, OpeningInv, Whole, Formed
<1>3. \A p \in DOMAIN originals, n \in Slots : SlotOk(p, n, disk'[p][n])
  BY <1>2 DEF OpeningInv, Whole, AllOk
<1>4. Formed(disk)'
  BY <1>1, <1>2 DEF Formed
<1>5. Whole(disk)' /\ Whole(durable)'
  BY <1>1, <1>3, <1>4, OneMixture DEF OpeningInv
<1> QED BY <1>1, <1>5 DEF OpeningInv

(* An operator puts back what there was or what it is to become.            *)
LEMMA RepairKeepsOrder ==
    ASSUME OldStoresAreWhole, OpeningInv, Repair
    PROVE  OpeningInv'
<1>1. UNCHANGED <<originals, place>> /\ phase' = "down" /\ durable' = disk'
  BY DEF Repair
<1>2. DOMAIN disk' = DOMAIN originals
      /\ \A p \in DOMAIN originals :
            DOMAIN disk'[p] = Slots
            /\ \A n \in Slots : disk'[p][n] \in {disk[p][n], originals[p][n], Current(p, n)}
  BY DEF Repair, AllPlaces, OpeningInv, Whole, Formed
<1>3. \A p \in DOMAIN originals, n \in Slots : SlotOk(p, n, disk'[p][n])
  BY <1>2, OriginalsStand DEF OldStoresAreWhole, OpeningInv, Whole, AllOk
<1>4. Formed(disk)'
  BY <1>1, <1>2 DEF Formed
<1>5. Whole(disk)' /\ Whole(durable)'
  BY <1>1, <1>3, <1>4, OneMixture DEF OpeningInv
<1> QED BY <1>1, <1>5 DEF OpeningInv

(* Rot makes no valid segment of one, and of a blob none that is framed or  *)
(* raw.                                                                     *)
LEMMA RotKeepsOrder ==
    ASSUME OldStoresAreWhole, OpeningInv, NEW p \in AllPlaces, NEW n \in Names \ {"wal"}, Rot(p, n)
    PROVE  OpeningInv'
<1>1. UNCHANGED <<originals, place>> /\ phase' = "down" /\ p \in DOMAIN originals /\ n \in Slots
  BY DEF Rot, AllPlaces, OpeningInv, Whole, Formed, Slots
<1>2. PICK file \in IF n = "segment" THEN RottenSegments(disk[p][n])
                    ELSE {[disk[p][n] EXCEPT !.sound = FALSE]} :
          Put(p, n, file) /\ durable' = [durable EXCEPT ![p][n] = file]
  BY DEF Rot
<1>3. SlotOk(p, n, disk[p][n]) /\ disk[p][n] # Absent
  BY <1>1 DEF OpeningInv, Whole, AllOk, Rot
<1>4. SlotOk(p, n, file)
  <2>1. CASE n = "segment"
    <3> DEFINE old == disk[p][n]
    <3>1. SegmentOk(old, originals[p].segment)
      BY <1>3, <2>1 DEF SlotOk
    <3>2. SegmentFields \subseteq DOMAIN old
      BY <1>3, <3>1 DEF SegmentOk
    <3>3. file \in RottenSegments(old)
      BY <1>2, <2>1
    <3>4. \/ file = [old EXCEPT !.sound = FALSE]
          \/ file = [old EXCEPT !.version = Foreign]
          \/ IsLegacy(old) /\ file = [old EXCEPT !.index = Front(@)]
          \/ old.version = V7 /\ file = [old EXCEPT !.blocks[2].start = @ + 1]
      BY <3>3 DEF RottenSegments, OldStoresAreWhole
    <3>5. /\ DOMAIN file = DOMAIN old /\ file.stream = old.stream
          /\ file.version \in {old.version, Foreign}
          /\ ~(file.version = V8 /\ file.sound)
      BY <1>3, <3>2, <3>4 DEF SegmentFields, IsLegacy, VersionOf, V6, V7, V8, Foreign
    <3>6. ~Validates(file)
      BY <3>5 DEF Validates
    <3>7. IsLegacy(file) => IsLegacy(old)
      BY <1>3, <3>5 DEF IsLegacy, VersionOf, OldStoresAreWhole, AbsentIsNoFile, V6, V7, Foreign
    <3>8. SegmentOk(file, originals[p].segment)
      BY <1>3, <3>1, <3>2, <3>5, <3>6, <3>7 DEF SegmentOk
    <3> QED BY <2>1, <3>8 DEF SlotOk
  <2>2. CASE n = "blob"
    <3>1. disk[p][n] \in {originals[p].blob, Blob(V8)} \cup Broken
      BY <1>3, <2>2 DEF SlotOk, Rightful, Current
    <3>2. originals[p].blob \in {Absent, Blob(V6), Blob(V8)}
      BY <1>1 DEF OpeningInv, OldStoresAreWhole, StoresAreWhole
    <3>3. disk[p][n] \in Blobs
      <4>1. Blob(V6) \in Blobs /\ Blob(V8) \in Blobs /\ Broken \subseteq Blobs
        BY DEF Blob, Blobs, Broken
      <4> QED BY <1>3, <2>2, <3>1, <3>2, <4>1
    <3>4. file = [disk[p][n] EXCEPT !.sound = FALSE]
      BY <1>2, <2>2
    <3>5. file \in Blobs /\ ~file.sound
      BY <3>3, <3>4 DEF Blobs
    <3> QED BY <2>2, <3>5 DEF SlotOk, Broken
  <2>3. CASE n \notin {"segment", "blob"}
    BY <2>3 DEF SlotOk, Names
  <2> QED BY <2>1, <2>2, <2>3
<1>5. Whole(disk)'
  BY <1>1, <1>2, <1>4, OnePut DEF OpeningInv
<1>6. Whole(durable)'
  <2>1. Formed(durable)'
    BY <1>1, <1>2 DEF OpeningInv, Whole, Formed
  <2>2. ASSUME NEW q \in DOMAIN originals, NEW m \in Slots
        PROVE  durable'[q][m] = IF q = p /\ m = n THEN file ELSE durable[q][m]
    BY <1>2, <1>1 DEF OpeningInv, Whole, Formed
  <2>3. ASSUME NEW q \in DOMAIN originals, NEW m \in Slots PROVE SlotOk(q, m, durable'[q][m])
    BY <1>4, <2>2 DEF OpeningInv, Whole, AllOk
  <2>4. AllOk(durable)'
    BY <1>1, <2>3 DEF AllOk, SlotOk, Rightful, Current
  <2> QED BY <2>1, <2>4 DEF Whole
<1> QED BY <1>1, <1>5, <1>6 DEF OpeningInv

(* Every step of the opening, every fault and every repair keeps order.     *)
LEMMA OpeningInvStep ==
    ASSUME OldStoresAreWhole, OpeningInv, [OpeningNext]_openingVars
    PROVE  OpeningInv'
<1>1. CASE OpeningNext
  BY <1>1, AdoptionKeepsOrder, SegmentsKeepOrder, BlobsKeepOrder, PinsKeepOrder, SyncsKeepOrder,
     ReadsKeepOrder, PowerKeepsOrder, RepairKeepsOrder, RotKeepsOrder
  DEF OpeningNext, OpeningStep
<1>2. CASE UNCHANGED openingVars
  <2>1. UNCHANGED <<disk, durable, originals, place, phase>>
    BY <1>2 DEF openingVars
  <2> QED BY <2>1, NoFile DEF OpeningInv
<1> QED BY <1>1, <1>2

(* Order leaves no digest and no valid segment over other bytes than the    *)
(* rightful ones.                                                           *)
LEMMA OrderLaundersNothing ==
    ASSUME OldStoresAreWhole, OpeningInv
    PROVE  NothingLaundered
<1>1. ASSUME NEW p \in Pins, NEW n \in DOMAIN ManifestAt(p).digests
      PROVE  ManifestAt(p).digests[n] \in Rightful(p, n)
  <2>1. p \in DOMAIN originals /\ p # 0 /\ SlotOk(p, "manifest", disk[p].manifest)
    BY DEF Pins, AllPlaces, OpeningInv, Whole, Formed, AllOk, Slots
  <2> QED BY <1>1, <2>1 DEF SlotOk, ManifestAt
<1>2. ASSUME NEW p \in AllPlaces, Validates(disk[p].segment)
      PROVE  disk[p].segment \in Rightful(p, "segment")
  <2>1. SegmentOk(disk[p].segment, originals[p].segment)
    BY DEF AllPlaces, OpeningInv, Whole, Formed, AllOk, SlotOk, Slots, Names
  <2> QED BY <1>2, <2>1 DEF SegmentOk, Validates, Rightful, Current
<1> QED BY <1>1, <1>2 DEF NothingLaundered

(* Whatever stops an opening, and whatever rots between one and the next,   *)
(* no damaged bytes get a digest in a pin's manifest or a valid segment     *)
(* around them (migrate_segment, migrate_blob_tree, migrate_pin).           *)
THEOREM NothingIsLaundered ==
    ASSUME OldStoresAreWhole
    PROVE  OpeningSpec => []NothingLaundered
<1>1. OpeningInit => OpeningInv
  BY OpeningInvInit
<1>2. OpeningInv /\ [OpeningNext]_openingVars => OpeningInv'
  BY OpeningInvStep
<1>3. OpeningInv => NothingLaundered
  BY OrderLaundersNothing
<1> QED BY <1>1, <1>2, <1>3, PTL DEF OpeningSpec
=============================================================================

------------------------------ MODULE WalProof ------------------------------
(***************************************************************************)
(* Proofs about Wal.tla, for any set of threads, with or without a commit  *)
(* window, under any of the faults of Next and any bounds; and that it     *)
(* implements DurableLog.tla.                                              *)
(***************************************************************************)
EXTENDS Wal, TLAPS

\* Batches a crash cannot take from the store.
Safe == settled \cup Durable

\* This process's first n batches are safe.
Covers(n) == \A b \in (base + 1)..(base + n) : b \in Safe

LastOf(frames) == frames = {} \/ \E f \in frames : \A g \in frames : g.seq <= f.seq

\* Everything this process appended is in the log or no longer needs it.
Held == \A b \in (base + 1)..(base + written_lsn) : b \in settled \cup BatchesOf(log)

\* Every prefix of the log has a last frame, so recovery's CHOOSE is defined.
HasLast == \A n \in 0..sequence : LastOf({f \in log : f.seq <= n})

FileOrder ==
    /\ \A f \in log : f.seq <= sequence /\ f.epoch <= epoch /\ ~f.torn
    /\ \A f, g \in log : /\ (f.seq = g.seq => f = g)
                         /\ (f.seq < g.seq => f.epoch <= g.epoch)
    /\ syncedTo <= sequence
    /\ HasLast

\* A sync on a file that was replaced has nothing left to cover.
ThreadCovered(t) ==
    /\ pc[t] # "idle" => lsn[t] >= 1
    /\ pc[t] \in {"window", "fsync"} =>
          /\ target[t] <= written_lsn /\ handle[t] <= inode
          /\ handle[t] # inode => target[t] <= durable_lsn
    /\ pc[t] = "synced" => Covers(target[t])

\* What the two LSNs and a sync in flight stand for.
Coverage ==
    /\ acked \subseteq Safe
    /\ Covers(durable_lsn)
    /\ status = "up" => Held
    /\ \A t \in Threads : ThreadCovered(t)

\* The flag, the syncing thread and the waiters.
OneSyncer ==
    /\ status # "up" => \A t \in Threads : pc[t] = "idle"
    /\ status = "up" => (syncing <=> \E t \in Threads : Syncer(t))
    /\ WaiterHasSyncer

IInv == TypeOK /\ FileOrder /\ Coverage /\ OneSyncer

-----------------------------------------------------------------------------
(* Types.                                                                  *)

LEMMA TypeInit == Init => TypeOK
<1> SUFFICES ASSUME Init PROVE TypeOK
  OBVIOUS
<1>1. syncing \in BOOLEAN /\ renamed \in BOOLEAN
  BY Zenon DEF Init
<1>2. pc \in [Threads -> PC]
  BY DEF Init, PC
<1>. QED
  BY <1>1, <1>2 DEF Init, TypeOK

LEMMA TypeLog ==
  ASSUME TypeOK, NEW batches \in SUBSET (Nat \ {0}), NEW torn \in BOOLEAN
  PROVE  Stamped(batches, torn) \in Frame
  BY DEF TypeOK, Stamped, Frame

LEMMA UnsettledType == TypeOK => Unsettled \subseteq Nat \ {0}
  BY DEF TypeOK, Unsettled, BatchesOf, Frame

\* A log without torn frames is replayed whole, and resumes after its last frame.
LEMMA LastFrame ==
  ASSUME TypeOK, FileOrder
  PROVE  /\ Torn = {} /\ Intact = log
         /\ ResumeAfter \in 0..sequence /\ \A f \in log : f.seq <= ResumeAfter
         /\ LastEpoch(log) \in Nat /\ \A f \in log : f.epoch <= LastEpoch(log)
<1>1. Torn = {} /\ Intact = log
  BY Zenon DEF FileOrder, Torn, Intact
<1>2. \A f \in log : f.seq \in Nat /\ f.epoch \in Nat
  BY DEF TypeOK, Frame
<1>3. CASE log = {}
  BY <1>1, <1>3 DEF ResumeAfter, LastSeq, LastEpoch, TypeOK
<1>4. CASE log # {}
  <2>1. {f \in log : f.seq <= sequence} = log
    BY DEF FileOrder
  <2>2. sequence \in 0..sequence
    BY DEF TypeOK
  <2>3. PICK last \in log : \A g \in log : g.seq <= last.seq
    BY <1>4, <2>1, <2>2 DEF FileOrder, HasLast, LastOf
  <2>4. \A g \in log : g.epoch <= last.epoch
    <3>1. SUFFICES ASSUME NEW g \in log PROVE g.epoch <= last.epoch
      OBVIOUS
    <3>2. CASE g.seq = last.seq
      BY <1>2, <3>2 DEF FileOrder
    <3>3. CASE g.seq < last.seq
      BY <3>3 DEF FileOrder
    <3>. QED
      BY <1>2, <2>3, <3>2, <3>3
  <2>5. LET f == CHOOSE f \in log : \A g \in log : g.seq <= f.seq
        IN  f \in log /\ \A g \in log : g.seq <= f.seq
    BY <2>3
  <2>6. LET f == CHOOSE f \in log : \A g \in log : g.epoch <= f.epoch
        IN  f \in log /\ \A g \in log : g.epoch <= f.epoch
    BY <2>4
  <2>7. ResumeAfter \in 0..sequence /\ \A f \in log : f.seq <= ResumeAfter
    BY <1>1, <1>2, <1>4, <2>5 DEF ResumeAfter, LastSeq, FileOrder, TypeOK
  <2>8. LastEpoch(log) \in Nat /\ \A f \in log : f.epoch <= LastEpoch(log)
    BY <1>2, <1>4, <2>6 DEF LastEpoch
  <2>. QED
    BY <1>1, <2>7, <2>8
<1>. QED
  BY <1>3, <1>4

\* A step of Next keeps every variable in its range (the whole of wal.rs).
LEMMA TypeNext == TypeOK /\ FileOrder /\ [Next]_vars => TypeOK'
<1> SUFFICES ASSUME TypeOK, FileOrder, [Next]_vars PROVE TypeOK'
  OBVIOUS
<1> USE DEF TypeOK, file, state, thread, ghost
<1>1. ASSUME NEW t \in Threads, Append(t) PROVE TypeOK'
  <2>1. appended + 1 \in Nat \ {0}
    BY DEF appended
  <2>2. Stamped({appended + 1}, FALSE) \in Frame
    BY <2>1, TypeLog
  <2>3. log' \subseteq Frame
    BY <1>1, <2>2 DEF Append
  <2>4. pc' \in [Threads -> PC] /\ lsn' \in [Threads -> Nat]
    BY <1>1 DEF Append, PC
  <2>5. sequence' \in Nat /\ written_lsn' \in Nat
    BY <1>1 DEF Append
  <2>6. UNCHANGED <<syncedTo, prior, inode, durable_lsn, syncing, epoch, target, handle,
                    renamed, status, base, settled, acked, faults>>
    BY <1>1 DEF Append
  <2>. QED
    BY <2>3, <2>4, <2>5, <2>6
<1>2. ASSUME NEW t \in Threads, CommitStep(t) PROVE TypeOK'
  <2>1. CASE CommitReturn(t)
    <3>1. base + lsn[t] \in Nat
      OBVIOUS
    <3>2. acked' \subseteq Nat
      BY <2>1, <3>1 DEF CommitReturn, Acked
    <3>3. lsn' \in [Threads -> Nat] /\ pc' \in [Threads -> PC]
      BY <2>1 DEF CommitReturn, Forget, PC
    <3>. QED
      BY <2>1, <3>2, <3>3 DEF CommitReturn
  <2>2. CASE CommitWait(t)
    BY <2>2 DEF CommitWait, Up, PC
  <2>3. CASE CommitStart(t)
    BY <2>3 DEF CommitStart, Up, PC
  <2>4. CASE Reclone(t)
    BY <2>4 DEF Reclone, Up, PC
  <2>5. CASE Fsync(t)
    BY <2>5 DEF Fsync, Up, PC
  <2>6. CASE CommitFinish(t)
    BY <2>6 DEF CommitFinish, Up, Woken, Covered, Larger, Forget, PC
  <2>7. CASE CommitFail(t)
    BY <2>7 DEF CommitFail, Up, Woken, Forget, PC
  <2>. QED
    BY <1>2, <2>1, <2>2, <2>3, <2>4, <2>5, <2>6, <2>7 DEF CommitStep
<1>3. ASSUME NEW t \in Threads, FsyncFails(t) PROVE TypeOK'
  BY <1>3 DEF FsyncFails, Fault, Up, PC
<1>4. CASE CallerStep
  <2>1. CASE Settle
    BY <2>1 DEF Settle, BatchesOf, Frame
  <2>2. CASE Reset
    BY <2>2 DEF Reset, Woken, PC
  <2>3. CASE DirectorySync
    BY <2>3 DEF DirectorySync
  <2>4. CASE DirectorySyncFails
    <3>1. renamed' \in BOOLEAN
      BY <2>4, Zenon DEF DirectorySyncFails
    <3>. QED
      BY <2>4, <3>1 DEF DirectorySyncFails, Fault
  <2>5. ASSUME NEW e \in 0..MaxEpoch, AdvanceEpoch(e) PROVE TypeOK'
    BY <2>5, BoundsAssumption DEF AdvanceEpoch, Larger
  <2>6. ASSUME NEW e \in 0..MaxEpoch, Rewrite(e) PROVE TypeOK'
    <3>1. epoch' \in Nat /\ sequence' \in Nat
      BY <2>6, BoundsAssumption DEF Rewrite, StampRewrite, Larger
    <3>2. SurvivorFrame(e) \subseteq Frame
      <4>1. sequence + 1 \in Nat /\ Larger(epoch, e) \in Nat
        BY BoundsAssumption DEF Larger
      <4>2. [seq |-> sequence + 1, epoch |-> Larger(epoch, e), batches |-> Unsettled,
             torn |-> FALSE] \in Frame
        BY <4>1, UnsettledType, Zenon DEF Frame
      <4>. QED
        BY <4>2 DEF SurvivorFrame
    <3>3. prior' \subseteq [log : SUBSET Frame, syncedTo : Nat, last : Nat, inode : Nat]
      BY <2>6 DEF Rewrite
    <3>. QED
      BY <2>6, <3>1, <3>2, <3>3 DEF Rewrite, Woken, PC
  <2>7. ASSUME NEW e \in 0..MaxEpoch, RewriteFails(e) PROVE TypeOK'
    BY <2>7, BoundsAssumption DEF RewriteFails, StampRewrite, Fault, Larger
  <2>. QED
    BY <1>4, <2>1, <2>2, <2>3, <2>4, <2>5, <2>6, <2>7 DEF CallerStep
<1>5. CASE Kill
  <2>1. renamed' \in BOOLEAN
    BY <1>5, Zenon DEF Kill, Die
  <2>. QED
    BY <1>5, <2>1 DEF Kill, Die, Fault, PC
<1>6. CASE Power
  <2>1. renamed' \in BOOLEAN
    BY <1>6, Zenon DEF Power, Die
  <2>2. log' \subseteq Frame /\ syncedTo' \in Nat
    BY <1>6 DEF Power
  <2>. QED
    BY <1>6, <2>1, <2>2 DEF Power, Die, Fault, PC
<1>7. CASE Open
  <2>1. log' = log /\ sequence' \in Nat /\ epoch' \in Nat
    BY <1>7, LastFrame DEF Open
  <2>2. syncing' \in BOOLEAN
    BY <1>7, Zenon DEF Open
  <2>. QED
    BY <1>7, <2>1, <2>2 DEF Open, appended
<1>8. CASE UNCHANGED vars
  BY <1>8 DEF vars
<1>. QED
  BY <1>1, <1>2, <1>3, <1>4, <1>5, <1>6, <1>7, <1>8 DEF Next, RestartStep

-----------------------------------------------------------------------------
(* The order of the file.                                                  *)

LEMMA OrderInit == Init => FileOrder
<1> SUFFICES ASSUME Init PROVE FileOrder
  OBVIOUS
<1>1. log = {} /\ syncedTo = 0 /\ sequence = 0
  BY DEF Init
<1>. QED
  BY <1>1 DEF FileOrder, HasLast, LastOf

\* The same frames under counters that did not go back.
LEMMA OrderKept ==
  ASSUME TypeOK, TypeOK', FileOrder, log' = log,
         sequence <= sequence', epoch <= epoch', syncedTo' <= sequence'
  PROVE  FileOrder'
<1>0. \A f \in log : f.seq \in Nat /\ f.epoch \in Nat
  BY DEF TypeOK, Frame
<1>1. \A f \in log : f.seq <= sequence' /\ f.epoch <= epoch' /\ ~f.torn
  <2>1. sequence \in Nat /\ sequence' \in Nat /\ epoch \in Nat /\ epoch' \in Nat
    BY DEF TypeOK
  <2>2. \A f \in log : ~f.torn
    BY Zenon DEF FileOrder
  <2>. QED
    BY <1>0, <2>1, <2>2 DEF FileOrder
<1>2. HasLast'
  <2>1. SUFFICES ASSUME NEW n \in 0..sequence' PROVE LastOf({f \in log' : f.seq <= n})
    BY Zenon DEF HasLast
  <2>2. CASE n \in 0..sequence
    BY <2>1, <2>2, Zenon DEF FileOrder, HasLast
  <2>3. CASE n > sequence
    <3>1. {f \in log' : f.seq <= n} = {f \in log : f.seq <= sequence} /\ sequence \in 0..sequence
      BY <1>0, <2>1, <2>3 DEF FileOrder, TypeOK
    <3>. QED
      BY <3>1, Zenon DEF FileOrder, HasLast
  <2>. QED
    BY <2>2, <2>3 DEF TypeOK
<1>. QED
  BY <1>1, <1>2 DEF FileOrder

\* A new frame stamped past the counter keeps the order.
LEMMA OrderAppend ==
  ASSUME TypeOK, TypeOK', FileOrder, NEW f \in Frame,
         log' = log \cup {f}, sequence' = sequence + 1, epoch' = epoch, syncedTo' = syncedTo,
         f.seq = sequence + 1, f.epoch = epoch, ~f.torn
  PROVE  FileOrder'
<1>0. \A g \in log' : g.seq \in Nat /\ g.epoch \in Nat
  BY DEF TypeOK, Frame
<1>1. \A g \in log' : g.seq <= sequence' /\ g.epoch <= epoch' /\ ~g.torn
  <2>1. \A g \in log' : g.seq <= sequence' /\ g.epoch <= epoch'
    BY <1>0 DEF FileOrder, TypeOK
  <2>2. \A g \in log' : ~g.torn
    BY Zenon DEF FileOrder
  <2>. QED
    BY <2>1, <2>2
<1>2. \A g, h \in log' : (g.seq = h.seq => g = h) /\ (g.seq < h.seq => g.epoch <= h.epoch)
  <2>1. \A g \in log : g.seq < f.seq /\ g.epoch <= f.epoch
    BY <1>0 DEF FileOrder, TypeOK
  <2>. QED
    BY <1>0, <2>1 DEF FileOrder
<1>3. HasLast'
  <2>1. SUFFICES ASSUME NEW n \in 0..sequence' PROVE LastOf({g \in log' : g.seq <= n})
    BY Zenon DEF HasLast
  <2>2. CASE n \in 0..sequence
    <3>1. {g \in log' : g.seq <= n} = {g \in log : g.seq <= n}
      BY <1>0, <2>1, <2>2 DEF TypeOK
    <3>. QED
      BY <2>2, <3>1, Zenon DEF FileOrder, HasLast
  <2>3. CASE n = sequence + 1
    BY <1>0, <1>1, <2>1, <2>3 DEF LastOf
  <2>. QED
    BY <2>2, <2>3 DEF TypeOK
<1>. QED
  BY <1>1, <1>2, <1>3 DEF FileOrder, TypeOK

\* An empty log, or a single fresh frame.
LEMMA OrderSingle ==
  ASSUME TypeOK, TypeOK', NEW f, log' = {} \/ log' = {f},
         syncedTo' <= sequence',
         f \in log' => f.seq <= sequence' /\ f.epoch <= epoch' /\ ~f.torn
  PROVE  FileOrder'
<1>1. HasLast'
  <2>1. \A g, h \in log' : g = h
    BY Zenon
  <2>2. \A g \in log' : g.seq \in Nat
    BY DEF TypeOK, Frame
  <2>3. SUFFICES ASSUME NEW n \in 0..sequence' PROVE LastOf({g \in log' : g.seq <= n})
    BY Zenon DEF HasLast
  <2>. QED
    BY <2>1, <2>2, <2>3 DEF LastOf
<1>2. \A g, h \in log' : (g.seq = h.seq => g = h) /\ (g.seq < h.seq => g.epoch <= h.epoch)
  <2>1. \A g, h \in log' : g = h
    BY Zenon
  <2>2. \A g \in log' : g.seq \in Nat /\ g.epoch \in Nat
    BY DEF TypeOK, Frame
  <2>. QED
    BY <2>1, <2>2
<1>3. \A g \in log' : g.seq <= sequence' /\ g.epoch <= epoch' /\ ~g.torn
  BY Zenon
<1>. QED
  BY <1>1, <1>2, <1>3 DEF FileOrder

\* A prefix of the log, as power loss leaves it.
LEMMA OrderPrefix ==
  ASSUME TypeOK, TypeOK', FileOrder, NEW n \in syncedTo..sequence,
         log' = {f \in log : f.seq <= n}, syncedTo' = n, sequence' = sequence, epoch' = epoch
  PROVE  FileOrder'
<1>0. n \in 0..sequence /\ \A f \in log : f.seq \in Nat
  BY DEF TypeOK, Frame
<1>1. HasLast'
  <2>1. SUFFICES ASSUME NEW m \in 0..sequence' PROVE LastOf({g \in log' : g.seq <= m})
    BY Zenon DEF HasLast
  <2>2. CASE m <= n
    <3>1. {g \in log' : g.seq <= m} = {g \in log : g.seq <= m} /\ m \in 0..sequence
      BY <1>0, <2>1, <2>2
    <3>. QED
      BY <3>1, Zenon DEF FileOrder, HasLast
  <2>3. CASE m > n
    <3>1. {g \in log' : g.seq <= m} = {g \in log : g.seq <= n}
      BY <1>0, <2>1, <2>3
    <3>. QED
      BY <1>0, <3>1, Zenon DEF FileOrder, HasLast
  <2>. QED
    BY <1>0, <2>2, <2>3
<1>2. log' \subseteq log /\ syncedTo' <= sequence'
  BY <1>0
<1>. QED
  BY <1>1, <1>2, Zenon DEF FileOrder

\* A step of Next keeps the file in stamp order (wal.rs append, rewrite, recover).
LEMMA OrderNext == TypeOK /\ FileOrder /\ [Next]_vars => FileOrder'
<1> SUFFICES ASSUME TypeOK, FileOrder, [Next]_vars PROVE FileOrder'
  OBVIOUS
<1>0. TypeOK'
  BY TypeNext
<1>1. syncedTo \in Nat /\ sequence \in Nat /\ epoch \in Nat /\ syncedTo <= sequence
  BY DEF TypeOK, FileOrder
<1>2. ASSUME UNCHANGED <<log, syncedTo, sequence, epoch>> PROVE FileOrder'
  BY <1>0, <1>1, <1>2, OrderKept
<1>3. ASSUME NEW t \in Threads, Append(t) PROVE FileOrder'
  <2> DEFINE f == Stamped({appended + 1}, FALSE)
  <2>0. {appended + 1} \in SUBSET (Nat \ {0})
    BY DEF TypeOK, appended
  <2>1. f \in Frame
    BY <2>0, TypeLog
  <2>2. f.seq = sequence + 1 /\ f.epoch = epoch /\ ~f.torn
    BY Zenon DEF Stamped
  <2> HIDE DEF f
  <2>3. log' = log \cup {f} /\ sequence' = sequence + 1
    BY <1>3 DEF Append, f
  <2>4. epoch' = epoch /\ syncedTo' = syncedTo
    BY <1>3 DEF Append
  <2>. QED
    BY <1>0, <2>1, <2>2, <2>3, <2>4, OrderAppend, Zenon
<1>4. ASSUME NEW t \in Threads, CommitStep(t) PROVE FileOrder'
  <2>1. CASE Fsync(t)
    <3>1. log' = log /\ sequence' = sequence /\ epoch' = epoch
      BY <2>1 DEF Fsync, state
    <3>2. syncedTo' = sequence \/ syncedTo' = syncedTo
      BY <2>1 DEF Fsync
    <3>. QED
      BY <1>0, <1>1, <3>1, <3>2, OrderKept
  <2>2. CASE ~Fsync(t)
    BY <1>2, <1>4, <2>2
       DEF CommitStep, CommitReturn, CommitWait, CommitStart, Reclone, CommitFinish, CommitFail,
           file, state
  <2>. QED
    BY <2>1, <2>2
<1>5. ASSUME NEW t \in Threads, FsyncFails(t) PROVE FileOrder'
  BY <1>2, <1>5 DEF FsyncFails, file, state
<1>6. CASE CallerStep
  <2>1. CASE Settle \/ DirectorySync \/ DirectorySyncFails
    BY <1>2, <2>1 DEF Settle, DirectorySync, DirectorySyncFails, file, state
  <2>2. CASE Reset
    BY <1>0, <1>1, <2>2, OrderSingle DEF Reset
  <2>3. ASSUME NEW e \in 0..MaxEpoch, AdvanceEpoch(e) PROVE FileOrder'
    <3>1. log' = log /\ sequence' = sequence /\ syncedTo' = syncedTo /\ epoch <= epoch'
      BY <1>1, <2>3, BoundsAssumption DEF AdvanceEpoch, file, Larger
    <3>. QED
      BY <1>0, <1>1, <3>1, OrderKept
  <2>4. ASSUME NEW e \in 0..MaxEpoch, RewriteFails(e) PROVE FileOrder'
    <3>1. log' = log /\ syncedTo' = syncedTo /\ sequence <= sequence' /\ epoch <= epoch'
      BY <1>1, <2>4, BoundsAssumption DEF RewriteFails, StampRewrite, file, Larger
    <3>2. syncedTo' <= sequence'
      BY <1>0, <1>1, <3>1 DEF TypeOK
    <3>. QED
      BY <1>0, <3>1, <3>2, OrderKept
  <2>5. ASSUME NEW e \in 0..MaxEpoch, Rewrite(e) PROVE FileOrder'
    <3>1. syncedTo' = sequence' /\ sequence' \in Nat /\ epoch' \in Nat
      BY <1>0, <2>5 DEF Rewrite, TypeOK
    <3>2. CASE Unsettled = {}
      BY <1>0, <2>5, <3>1, <3>2, OrderSingle DEF Rewrite, SurvivorFrame
    <3>3. CASE Unsettled # {}
      <4> DEFINE f == [seq |-> sequence + 1, epoch |-> Larger(epoch, e),
                       batches |-> Unsettled, torn |-> FALSE]
      <4>1. log' = {f} /\ sequence' = sequence + 1 /\ epoch' = Larger(epoch, e)
        BY <2>5, <3>3 DEF Rewrite, SurvivorFrame, StampRewrite
      <4>2. f.seq = sequence' /\ f.epoch = epoch' /\ f.torn = FALSE
        BY <4>1, Zenon
      <4>3. f.seq <= sequence' /\ f.epoch <= epoch' /\ ~f.torn
        BY <3>1, <4>2
      <4> HIDE DEF f
      <4>. QED
        BY <1>0, <3>1, <4>1, <4>3, OrderSingle
    <3>. QED
      BY <3>2, <3>3
  <2>. QED
    BY <1>6, <2>1, <2>2, <2>3, <2>4, <2>5 DEF CallerStep
<1>7. CASE Kill
  BY <1>2, <1>7 DEF Kill, Die, state
<1>8. CASE Power
  <2>1. PICK n \in syncedTo..sequence : log' = {f \in log : f.seq <= n} /\ syncedTo' = n
    BY <1>8 DEF Power
  <2>. QED
    BY <1>0, <1>8, <2>1, OrderPrefix DEF Power, Die, state
<1>9. CASE Open
  <2>1. log' = log /\ sequence' \in 0..sequence /\ epoch' \in Nat
    BY <1>9, LastFrame DEF Open
  <2>2. \A f \in log : f.seq <= sequence' /\ f.epoch <= epoch'
    BY <1>9, LastFrame DEF Open
  <2>3. \A f, g \in log : (f.seq = g.seq => f = g) /\ (f.seq < g.seq => f.epoch <= g.epoch)
    BY DEF FileOrder
  <2>4. \A f \in log : ~f.torn
    BY Zenon DEF FileOrder
  <2>5. syncedTo' <= sequence'
    BY <1>1, <1>9, <2>1 DEF Open
  <2>6. HasLast'
    BY <1>1, <2>1 DEF FileOrder, HasLast
  <2>. QED
    BY <2>1, <2>2, <2>3, <2>4, <2>5, <2>6 DEF FileOrder
<1>10. CASE UNCHANGED vars
  BY <1>2, <1>10 DEF vars, file, state
<1>. QED
  BY <1>3, <1>4, <1>5, <1>6, <1>7, <1>8, <1>9, <1>10 DEF Next, RestartStep

-----------------------------------------------------------------------------
(* What is acknowledged is durable.                                        *)

LEMMA InBatches ==
  ASSUME NEW frames, NEW b
  PROVE  b \in BatchesOf(frames) <=> \E f \in frames : b \in f.batches
  BY DEF BatchesOf

LEMMA InDurable ==
  ASSUME NEW b
  PROVE  b \in Durable <=> \E f \in log : f.seq <= syncedTo /\ b \in f.batches
  BY DEF Durable, BatchesOf

\* No step of Next takes a safe batch away.
LEMMA SafeKept == TypeOK /\ FileOrder /\ [Next]_vars => Safe \subseteq Safe'
<1> SUFFICES ASSUME TypeOK, FileOrder, [Next]_vars PROVE Safe \subseteq Safe'
  OBVIOUS
<1>0. /\ syncedTo \in Nat /\ sequence \in Nat /\ syncedTo <= sequence
      /\ \A f \in log : f.seq \in Nat /\ f.seq <= sequence
  BY DEF TypeOK, FileOrder, Frame
<1>1. ASSUME settled \subseteq settled', log \subseteq log', syncedTo <= syncedTo', syncedTo' \in Nat
      PROVE  Safe \subseteq Safe'
  <2>1. SUFFICES ASSUME NEW b \in Durable PROVE b \in Durable'
    BY <1>1, Zenon DEF Safe
  <2>2. PICK f \in log : f.seq <= syncedTo /\ b \in f.batches
    BY InDurable
  <2>3. f \in log' /\ f.seq <= syncedTo'
    BY <1>0, <1>1, <2>2
  <2>. QED
    BY <2>2, <2>3, Zenon DEF Durable, BatchesOf
<1>2. ASSUME UNCHANGED <<settled, log, syncedTo>> PROVE Safe \subseteq Safe'
  BY <1>0, <1>1, <1>2
<1>3. ASSUME NEW t \in Threads, Append(t) PROVE Safe \subseteq Safe'
  <2>1. log \subseteq log' /\ settled' = settled /\ syncedTo' = syncedTo
    BY <1>3 DEF Append, ghost
  <2>. QED
    BY <1>0, <1>1, <2>1
<1>4. ASSUME NEW t \in Threads, CommitStep(t) PROVE Safe \subseteq Safe'
  <2>1. CASE Fsync(t)
    BY <1>0, <1>1, <2>1 DEF Fsync, ghost
  <2>2. CASE ~Fsync(t)
    BY <1>2, <1>4, <2>2
       DEF CommitStep, CommitReturn, CommitWait, CommitStart, Reclone, CommitFinish, CommitFail,
           file, ghost
  <2>. QED
    BY <2>1, <2>2
<1>5. ASSUME NEW t \in Threads, FsyncFails(t) PROVE Safe \subseteq Safe'
  BY <1>2, <1>5 DEF FsyncFails, file, ghost
<1>6. CASE CallerStep
  <2>1. CASE Settle
    BY <1>0, <1>1, <2>1 DEF Settle, file
  <2>2. CASE DirectorySync \/ DirectorySyncFails
    BY <1>2, <2>2 DEF DirectorySync, DirectorySyncFails, file, ghost
  <2>3. CASE Reset
    <3>1. BatchesOf(log) \subseteq settled /\ settled' = settled
      BY <2>3 DEF Reset, NothingUnsettled, Unsettled, ghost
    <3>. QED
      BY <3>1, InDurable, InBatches, Zenon DEF Safe
  <2>4. ASSUME NEW e \in 0..MaxEpoch, AdvanceEpoch(e) \/ RewriteFails(e)
        PROVE  Safe \subseteq Safe'
    BY <1>2, <2>4 DEF AdvanceEpoch, RewriteFails, file, ghost
  <2>5. ASSUME NEW e \in 0..MaxEpoch, Rewrite(e) PROVE Safe \subseteq Safe'
    <3>1. settled' = settled /\ log' = SurvivorFrame(e) /\ syncedTo' = sequence'
      BY <2>5 DEF Rewrite, ghost
    <3>2. SUFFICES ASSUME NEW b \in Durable, b \notin settled PROVE b \in Durable'
      BY <3>1, Zenon DEF Safe
    <3>3. b \in Unsettled
      BY <3>2, InDurable, InBatches, Zenon DEF Unsettled
    <3> DEFINE f == [seq |-> sequence + 1, epoch |-> Larger(epoch, e),
                     batches |-> Unsettled, torn |-> FALSE]
    <3>4. log' = {f} /\ sequence' = sequence + 1
      BY <2>5, <3>1, <3>3 DEF Rewrite, StampRewrite, SurvivorFrame
    <3>5. f.seq <= syncedTo' /\ b \in f.batches
      BY <1>0, <3>1, <3>3, <3>4
    <3>. QED
      BY <3>4, <3>5, Zenon DEF Durable, BatchesOf
  <2>. QED
    BY <1>6, <2>1, <2>2, <2>3, <2>4, <2>5 DEF CallerStep
<1>7. CASE Kill
  BY <1>2, <1>7 DEF Kill, Die, ghost
<1>8. CASE Power
  <2>1. PICK n \in syncedTo..sequence : log' = {f \in log : f.seq <= n} /\ syncedTo' = n
    BY <1>8 DEF Power
  <2>2. settled' = settled
    BY <1>8 DEF Power, Die, ghost
  <2>3. SUFFICES ASSUME NEW b \in Durable PROVE b \in Durable'
    BY <2>2, Zenon DEF Safe
  <2>4. PICK f \in log : f.seq <= syncedTo /\ b \in f.batches
    BY InDurable
  <2>5. f \in log' /\ f.seq <= syncedTo'
    BY <1>0, <2>1, <2>4
  <2>. QED
    BY <2>4, <2>5, Zenon DEF Durable, BatchesOf
<1>9. CASE Open
  <2>1. log' = log /\ settled' = settled /\ \A f \in log : f.seq <= sequence'
    BY <1>9, LastFrame DEF Open
  <2>2. syncedTo' = syncedTo \/ syncedTo' = sequence'
    BY <1>9 DEF Open
  <2>3. SUFFICES ASSUME NEW b \in Durable PROVE b \in Durable'
    BY <2>1, Zenon DEF Safe
  <2>4. PICK f \in log : f.seq <= syncedTo /\ b \in f.batches
    BY InDurable
  <2>5. f \in log' /\ f.seq <= syncedTo'
    BY <2>1, <2>2, <2>4
  <2>. QED
    BY <2>4, <2>5, Zenon DEF Durable, BatchesOf
<1>10. CASE UNCHANGED vars
  BY <1>2, <1>10 DEF vars, file, ghost
<1>. QED
  BY <1>3, <1>4, <1>5, <1>6, <1>7, <1>8, <1>9, <1>10 DEF Next, RestartStep

LEMMA CoversKept ==
  ASSUME Safe \subseteq Safe', base' = base, NEW n, NEW m, m = n, Covers(n)
  PROVE  \A b \in (base' + 1)..(base' + m) : b \in Safe'
  BY DEF Covers

LEMMA ThreadKept ==
  ASSUME TypeOK, TypeOK', Safe \subseteq Safe', base' = base, NEW t \in Threads, ThreadCovered(t),
         written_lsn <= written_lsn', durable_lsn <= durable_lsn', inode' = inode,
         lsn'[t] = lsn[t], target'[t] = target[t], handle'[t] = handle[t],
         pc'[t] = pc[t] \/ pc'[t] = "idle" \/ (pc[t] = "waiting" /\ pc'[t] = "commit")
  PROVE  ThreadCovered(t)'
<1>1. pc'[t] # "idle" => lsn'[t] >= 1
  BY DEF ThreadCovered
<1>2. pc'[t] \in {"window", "fsync"} =>
        /\ target'[t] <= written_lsn' /\ handle'[t] <= inode'
        /\ handle'[t] # inode' => target'[t] <= durable_lsn'
  BY DEF ThreadCovered, TypeOK
<1>3. pc'[t] = "synced" => \A b \in (base' + 1)..(base' + target'[t]) : b \in Safe'
  BY DEF ThreadCovered, Covers
<1>. QED
  BY <1>1, <1>2, <1>3 DEF ThreadCovered, Covers

\* Releasing the waiters leaves everybody else where they were.
LEMMA WokenKeeps ==
  ASSUME NEW f \in [Threads -> PC], NEW t \in Threads
  PROVE  Woken(f)[t] = f[t] \/ (f[t] = "waiting" /\ Woken(f)[t] = "commit")
  BY DEF Woken

LEMMA CoverageInit == Init => Coverage
<1> SUFFICES ASSUME Init PROVE Coverage
  OBVIOUS
<1>1. Covers(0) /\ Held
  BY DEF Init, Covers, Held
<1>2. \A t \in Threads : ThreadCovered(t)
  BY DEF Init, ThreadCovered
<1>. QED
  BY <1>1, <1>2 DEF Init, Coverage

\* A step of Next keeps the promise the LSNs stand for (wal.rs append, commit,
\* reset, rewrite, recover).
LEMMA CoverageNext == TypeOK /\ FileOrder /\ Coverage /\ OneSyncer /\ [Next]_vars => Coverage'
<1> SUFFICES ASSUME TypeOK, FileOrder, Coverage, OneSyncer, [Next]_vars PROVE Coverage'
  OBVIOUS
<1>0. TypeOK' /\ Safe \subseteq Safe'
  BY TypeNext, SafeKept
<1>1. /\ base \in Nat /\ written_lsn \in Nat /\ durable_lsn \in Nat /\ inode \in Nat
      /\ pc \in [Threads -> PC] /\ lsn \in [Threads -> Nat]
      /\ target \in [Threads -> Nat] /\ handle \in [Threads -> Nat]
  BY DEF TypeOK
<1>2. acked \subseteq Safe /\ Covers(durable_lsn) /\ \A t \in Threads : ThreadCovered(t)
  BY DEF Coverage
<1>3. ASSUME base' = base, durable_lsn' = durable_lsn PROVE Covers(durable_lsn)'
  BY <1>0, <1>2, <1>3 DEF Covers
<1>4. ASSUME base' = base, written_lsn' = written_lsn, log' = log, settled \subseteq settled',
             status' = status
      PROVE  (status = "up" => Held)'
  BY <1>4 DEF Coverage, Held
\* Steps that move one thread through commit.
<1>5. ASSUME NEW t \in Threads, acked' = acked,
             UNCHANGED <<base, durable_lsn, written_lsn, log, settled, status, inode>>,
             \A u \in Threads \ {t} :
                /\ lsn'[u] = lsn[u] /\ target'[u] = target[u] /\ handle'[u] = handle[u]
                /\ pc'[u] = pc[u] \/ (pc[u] = "waiting" /\ pc'[u] = "commit"),
             ThreadCovered(t)'
      PROVE  Coverage'
  <2>1. ASSUME NEW u \in Threads \ {t} PROVE ThreadCovered(u)'
    BY <1>0, <1>1, <1>2, <1>5, ThreadKept
  <2>2. \A u \in Threads : ThreadCovered(u)'
    BY <1>5, <2>1
  <2>3. acked' \subseteq Safe'
    BY <1>0, <1>2, <1>5
  <2>4. Covers(durable_lsn)' /\ (status = "up" => Held)'
    BY <1>3, <1>4, <1>5
  <2>. QED
    BY <2>2, <2>3, <2>4 DEF Coverage
\* Steps that leave every thread where it is, or wake the waiters.
<1>6. ASSUME base' = base, acked' = acked, inode' = inode,
             written_lsn <= written_lsn', durable_lsn' = durable_lsn,
             lsn' = lsn, target' = target, handle' = handle, pc' = pc,
             (status = "up" => Held)'
      PROVE  Coverage'
  <2>1. ASSUME NEW u \in Threads PROVE ThreadCovered(u)'
    BY <1>0, <1>1, <1>2, <1>6, ThreadKept
  <2>2. acked' \subseteq Safe' /\ Covers(durable_lsn)'
    BY <1>0, <1>2, <1>3, <1>6
  <2>. QED
    BY <1>6, <2>1, <2>2 DEF Coverage
<1>7. ASSUME NEW t \in Threads, Append(t) PROVE Coverage'
  <2>1. /\ UNCHANGED <<base, settled, acked, durable_lsn, inode, target, handle, status>>
        /\ written_lsn' = written_lsn + 1
        /\ lsn' = [lsn EXCEPT ![t] = written_lsn + 1] /\ pc' = [pc EXCEPT ![t] = "commit"]
        /\ log' = log \cup {Stamped({appended + 1}, FALSE)} /\ status = "up"
    BY <1>7 DEF Append, ghost, WriterFree
  <2>2. (status = "up" => Held)'
    <3>1. SUFFICES ASSUME NEW b \in (base' + 1)..(base' + written_lsn')
                   PROVE  b \in settled' \cup BatchesOf(log')
      BY Zenon DEF Held
    <3>2. CASE b = appended + 1
      <4>1. Stamped({appended + 1}, FALSE).batches = {appended + 1}
        BY Zenon DEF Stamped
      <4>. QED
        BY <2>1, <3>2, <4>1, Zenon DEF BatchesOf
    <3>3. CASE b # appended + 1
      <4>1. b \in settled \cup BatchesOf(log)
        BY <1>1, <2>1, <3>1, <3>3 DEF Coverage, Held, appended
      <4>. QED
        BY <2>1, <4>1, Zenon DEF BatchesOf
    <3>. QED
      BY <3>2, <3>3
  <2>3. ASSUME NEW u \in Threads PROVE ThreadCovered(u)'
    <3>1. CASE u = t
      BY <1>1, <2>1, <3>1 DEF ThreadCovered
    <3>2. CASE u # t
      BY <1>0, <1>1, <1>2, <2>1, <3>2, ThreadKept
    <3>. QED
      BY <3>1, <3>2
  <2>4. acked' \subseteq Safe' /\ Covers(durable_lsn)'
    BY <1>0, <1>2, <1>3, <2>1
  <2>. QED
    BY <2>2, <2>3, <2>4 DEF Coverage
<1>8. ASSUME NEW t \in Threads, CommitReturn(t) PROVE Coverage'
  <2>1. /\ UNCHANGED <<base, settled, log, written_lsn, durable_lsn, inode, target, handle, status>>
        /\ pc[t] = "commit" /\ lsn[t] <= durable_lsn
        /\ acked' = acked \cup {base + lsn[t]}
        /\ lsn' = [lsn EXCEPT ![t] = 0] /\ pc' = [pc EXCEPT ![t] = "idle"]
    BY <1>1, <1>8 DEF CommitReturn, Up, file, state, Acked, Forget
  <2>2. base + lsn[t] \in (base + 1)..(base + durable_lsn)
    BY <1>1, <1>2, <2>1 DEF ThreadCovered
  <2>3. acked' \subseteq Safe'
    BY <1>0, <1>2, <2>1, <2>2 DEF Covers
  <2>4. ASSUME NEW u \in Threads PROVE ThreadCovered(u)'
    <3>1. CASE u = t
      BY <1>1, <2>1, <3>1 DEF ThreadCovered
    <3>2. CASE u # t
      BY <1>0, <1>1, <1>2, <2>1, <3>2, ThreadKept
    <3>. QED
      BY <3>1, <3>2
  <2>5. Covers(durable_lsn)' /\ (status = "up" => Held)'
    BY <1>3, <1>4, <2>1
  <2>. QED
    BY <2>3, <2>4, <2>5 DEF Coverage
<1>9. ASSUME NEW t \in Threads, CommitWait(t) PROVE Coverage'
  <2>1. /\ UNCHANGED <<base, settled, acked, log, written_lsn, durable_lsn, inode, lsn, target,
                       handle, status>>
        /\ pc[t] = "commit" /\ pc' = [pc EXCEPT ![t] = "waiting"]
    BY <1>9 DEF CommitWait, Up, file, state, ghost
  <2>2. ThreadCovered(t)'
    BY <1>1, <1>2, <2>1 DEF ThreadCovered
  <2>. QED
    BY <1>1, <1>5, <2>1, <2>2
<1>10. ASSUME NEW t \in Threads, CommitStart(t) \/ Reclone(t) PROVE Coverage'
  <2>1. /\ UNCHANGED <<base, settled, acked, log, written_lsn, durable_lsn, inode, lsn, status>>
        /\ pc[t] \in {"commit", "window"}
        /\ \E where \in {"window", "fsync"} : pc' = [pc EXCEPT ![t] = where]
        /\ target' = [target EXCEPT ![t] = written_lsn] /\ handle' = [handle EXCEPT ![t] = inode]
    BY <1>10 DEF CommitStart, Reclone, Up, file, state, ghost
  <2>2. ThreadCovered(t)'
    BY <1>1, <1>2, <2>1 DEF ThreadCovered
  <2>. QED
    BY <1>1, <1>5, <2>1, <2>2
<1>11. ASSUME NEW t \in Threads, Fsync(t) PROVE Coverage'
  <2>1. /\ UNCHANGED <<base, settled, acked, log, sequence, written_lsn, durable_lsn, inode, lsn,
                       target, handle, status>>
        /\ status = "up" /\ pc[t] = "fsync" /\ pc' = [pc EXCEPT ![t] = "synced"]
        /\ handle[t] = inode => syncedTo' = sequence
    BY <1>11 DEF Fsync, Up, state, ghost
  <2>2. target[t] <= written_lsn /\ (handle[t] # inode => target[t] <= durable_lsn)
    BY <1>2, <2>1 DEF ThreadCovered
  <2>3. \A b \in (base + 1)..(base + target[t]) : b \in Safe'
    <3>1. CASE handle[t] = inode
      <4>1. BatchesOf(log) \subseteq Durable'
        BY <2>1, <3>1 DEF BatchesOf, Durable, FileOrder
      <4>2. settled \cup BatchesOf(log) \subseteq Safe'
        BY <2>1, <4>1, Zenon DEF Safe
      <4>3. \A b \in (base + 1)..(base + written_lsn) : b \in settled \cup BatchesOf(log)
        BY <2>1 DEF Coverage, Held
      <4>. QED
        BY <1>1, <2>2, <4>2, <4>3
    <3>2. CASE handle[t] # inode
      BY <1>0, <1>1, <1>2, <2>2, <3>2 DEF Covers
    <3>. QED
      BY <3>1, <3>2
  <2>4. ThreadCovered(t)'
    BY <1>1, <1>2, <2>1, <2>3 DEF ThreadCovered, Covers
  <2>. QED
    BY <1>1, <1>5, <2>1, <2>4
<1>12. ASSUME NEW t \in Threads, CommitFinish(t) PROVE Coverage'
  <2>1. /\ UNCHANGED <<base, settled, acked, log, written_lsn, inode, lsn, status>>
        /\ pc[t] = "synced" /\ pc' = Woken([pc EXCEPT ![t] = "commit"])
        /\ durable_lsn' = Larger(durable_lsn, target[t])
        /\ target' = [target EXCEPT ![t] = 0] /\ handle' = [handle EXCEPT ![t] = 0]
    BY <1>12 DEF CommitFinish, Up, file, ghost, Covered, Forget
  <2>2. durable_lsn <= durable_lsn'
    BY <1>1, <2>1 DEF Larger
  <2>3. Covers(durable_lsn)'
    BY <1>0, <1>2, <2>1 DEF ThreadCovered, Covers, Larger
  <2>4. ASSUME NEW u \in Threads PROVE ThreadCovered(u)'
    <3>1. [pc EXCEPT ![t] = "commit"] \in [Threads -> PC]
      BY <1>1 DEF PC
    <3>2. CASE u = t
      <4>1. pc'[u] = "commit"
        BY <1>1, <2>1, <3>1, <3>2, WokenKeeps
      <4>. QED
        BY <1>2, <2>1, <3>2, <4>1 DEF ThreadCovered
    <3>3. CASE u # t
      <4>1. pc'[u] = pc[u] \/ (pc[u] = "waiting" /\ pc'[u] = "commit")
        BY <1>1, <2>1, <3>1, <3>3, WokenKeeps, ZenonT(40)
      <4>2. lsn'[u] = lsn[u] /\ target'[u] = target[u] /\ handle'[u] = handle[u]
        BY <1>1, <2>1, <3>3
      <4>3. base' = base /\ written_lsn <= written_lsn' /\ inode' = inode /\ ThreadCovered(u)
        BY <1>1, <1>2, <2>1
      <4>. QED
        BY <1>0, <2>2, <4>1, <4>2, <4>3, ThreadKept
    <3>. QED
      BY <3>2, <3>3
  <2>5. acked' \subseteq Safe' /\ (status = "up" => Held)'
    BY <1>0, <1>2, <1>4, <2>1
  <2>. QED
    BY <2>3, <2>4, <2>5 DEF Coverage
<1>13. ASSUME NEW t \in Threads, CommitFail(t) PROVE Coverage'
  <2>1. /\ UNCHANGED <<base, settled, acked, log, written_lsn, durable_lsn, inode, status>>
        /\ pc' = Woken([pc EXCEPT ![t] = "idle"]) /\ lsn' = [lsn EXCEPT ![t] = 0]
        /\ target' = [target EXCEPT ![t] = 0] /\ handle' = [handle EXCEPT ![t] = 0]
    BY <1>13 DEF CommitFail, Up, file, ghost, Forget
  <2>2. [pc EXCEPT ![t] = "idle"] \in [Threads -> PC]
    BY <1>1 DEF PC
  <2>3. pc'[t] = "idle"
    BY <1>1, <2>1, <2>2, WokenKeeps
  <2>4. ASSUME NEW u \in Threads \ {t}
        PROVE  pc'[u] = pc[u] \/ (pc[u] = "waiting" /\ pc'[u] = "commit")
    <3>1. [pc EXCEPT ![t] = "idle"][u] = pc[u]
      BY <1>1
    <3>. QED
      BY <2>1, <3>1 DEF Woken
  <2>5. ThreadCovered(t)'
    BY <2>3 DEF ThreadCovered
  <2>6. \A u \in Threads \ {t} :
          lsn'[u] = lsn[u] /\ target'[u] = target[u] /\ handle'[u] = handle[u]
    BY <1>1, <2>1
  <2>. QED
    BY <1>5, <2>1, <2>4, <2>5, <2>6
<1>14. ASSUME NEW t \in Threads, FsyncFails(t) PROVE Coverage'
  <2>1. /\ UNCHANGED <<base, settled, acked, log, written_lsn, durable_lsn, inode, lsn, target,
                       handle, status>>
        /\ pc[t] = "fsync" /\ pc' = [pc EXCEPT ![t] = "failed"]
    BY <1>14 DEF FsyncFails, Up, file, state, ghost
  <2>2. ThreadCovered(t)'
    BY <1>1, <1>2, <2>1 DEF ThreadCovered
  <2>. QED
    BY <1>1, <1>5, <2>1, <2>2
<1>15. CASE CallerStep
  <2>1. CASE Settle
    <3>1. UNCHANGED <<base, acked, log, written_lsn, durable_lsn, inode, pc, lsn, target, handle,
                      status>> /\ settled \subseteq settled'
      BY <2>1 DEF Settle, file, state, thread
    <3>. QED
      BY <1>1, <1>4, <1>6, <3>1
  <2>2. CASE DirectorySync \/ DirectorySyncFails
    <3>1. UNCHANGED <<base, acked, settled, log, written_lsn, durable_lsn, inode, pc, lsn, target,
                      handle, status>>
      BY <2>2 DEF DirectorySync, DirectorySyncFails, file, state, thread, ghost
    <3>. QED
      BY <1>1, <1>4, <1>6, <3>1
  <2>3. ASSUME NEW e \in 0..MaxEpoch, AdvanceEpoch(e) \/ RewriteFails(e) PROVE Coverage'
    <3>1. UNCHANGED <<base, acked, settled, log, written_lsn, durable_lsn, inode, pc, lsn, target,
                      handle, status>>
      BY <2>3 DEF AdvanceEpoch, RewriteFails, file, thread, ghost
    <3>. QED
      BY <1>1, <1>4, <1>6, <3>1
  <2>4. ASSUME NEW e \in 0..MaxEpoch, Reset \/ Rewrite(e) PROVE Coverage'
    <3>1. /\ UNCHANGED <<base, acked, settled, written_lsn, lsn, target, handle, status>>
          /\ status = "up" /\ durable_lsn' = written_lsn /\ pc' = Woken(pc)
          /\ inode' \in {inode, inode + 1}
      BY <2>4 DEF Reset, Rewrite, WriterFree, ghost
    <3>2. BatchesOf(log) \subseteq Safe'
      <4>1. CASE Reset
        BY <4>1, Zenon DEF Reset, NothingUnsettled, Unsettled, Safe, ghost
      <4>2. CASE Rewrite(e)
        <5>1. SUFFICES ASSUME NEW b \in BatchesOf(log), b \notin settled PROVE b \in Durable'
          BY <3>1, Zenon DEF Safe
        <5>2. b \in Unsettled
          BY <5>1, Zenon DEF Unsettled
        <5> DEFINE f == [seq |-> sequence + 1, epoch |-> Larger(epoch, e),
                         batches |-> Unsettled, torn |-> FALSE]
        <5>3. log' = {f} /\ syncedTo' = sequence + 1
          BY <4>2, <5>2 DEF Rewrite, StampRewrite, SurvivorFrame
        <5>4. f.seq <= syncedTo' /\ b \in f.batches
          BY <5>2, <5>3 DEF TypeOK
        <5>. QED
          BY <5>3, <5>4, Zenon DEF Durable, BatchesOf
      <4>. QED
        BY <2>4, <4>1, <4>2
    <3>3. settled \cup BatchesOf(log) \subseteq Safe'
      BY <3>1, <3>2, Zenon DEF Safe
    <3>4. \A b \in (base + 1)..(base + written_lsn) : b \in Safe'
      BY <3>1, <3>3 DEF Coverage, Held
    <3>5. Covers(durable_lsn)'
      BY <3>1, <3>4 DEF Covers
    <3>6. (status = "up" => Held)'
      <4>1. Safe' \subseteq settled' \cup BatchesOf(log')
        BY Zenon DEF Safe, Durable, BatchesOf
      <4>. QED
        BY <3>1, <3>4, <4>1 DEF Held
    <3>7. durable_lsn <= durable_lsn' \/ durable_lsn > written_lsn
      BY <1>1, <3>1
    <3>8. ASSUME NEW u \in Threads PROVE ThreadCovered(u)'
      <4>1. pc'[u] = pc[u] \/ (pc[u] = "waiting" /\ pc'[u] = "commit")
        BY <1>1, <3>1, WokenKeeps
      <4>2. pc'[u] # "idle" => lsn'[u] >= 1
        BY <1>2, <3>1, <4>1 DEF ThreadCovered
      <4>3. pc'[u] \in {"window", "fsync"} =>
              /\ target'[u] <= written_lsn' /\ handle'[u] <= inode'
              /\ handle'[u] # inode' => target'[u] <= durable_lsn'
        BY <1>1, <1>2, <3>1, <4>1 DEF ThreadCovered
      <4>4. pc'[u] = "synced" => \A b \in (base' + 1)..(base' + target'[u]) : b \in Safe'
        BY <1>0, <1>2, <3>1, <4>1 DEF ThreadCovered, Covers
      <4>. QED
        BY <4>2, <4>3, <4>4 DEF ThreadCovered, Covers
    <3>9. acked' \subseteq Safe'
      BY <1>0, <1>2, <3>1
    <3>. QED
      BY <3>5, <3>6, <3>8, <3>9 DEF Coverage
  <2>5. 0 \in 0..MaxEpoch
    BY BoundsAssumption
  <2>. QED
    BY <1>15, <2>1, <2>2, <2>3, <2>4, <2>5 DEF CallerStep
<1>16. CASE Kill \/ Power
  <2>1. /\ UNCHANGED <<base, acked, settled, durable_lsn>>
        /\ status' = "down" /\ pc' = [t \in Threads |-> "idle"]
    BY <1>16 DEF Kill, Power, Die, state, ghost
  <2>2. ASSUME NEW u \in Threads PROVE ThreadCovered(u)'
    BY <2>1 DEF ThreadCovered
  <2>3. acked' \subseteq Safe' /\ Covers(durable_lsn)'
    BY <1>0, <1>2, <1>3, <2>1
  <2>. QED
    BY <2>1, <2>2, <2>3 DEF Coverage
<1>17. CASE Open
  <2>1. /\ status = "down" /\ base' = appended /\ written_lsn' = 0 /\ durable_lsn' = 0
        /\ acked' = acked /\ pc' = pc
    BY <1>17 DEF Open, thread
  <2>2. \A u \in Threads : pc'[u] = "idle"
    BY <2>1 DEF OneSyncer
  <2>3. (base' + 1)..(base' + 0) = {}
    BY <1>1, <2>1 DEF appended
  <2>4. Covers(durable_lsn)' /\ Held'
    BY <2>1, <2>3 DEF Covers, Held
  <2>5. acked' \subseteq Safe'
    BY <1>0, <1>2, <2>1
  <2>6. \A u \in Threads : ThreadCovered(u)'
    BY <2>2 DEF ThreadCovered
  <2>. QED
    BY <2>4, <2>5, <2>6 DEF Coverage
<1>18. CASE UNCHANGED vars
  <2>1. UNCHANGED <<base, acked, settled, log, written_lsn, durable_lsn, inode, pc, lsn, target,
                    handle, status>>
    BY <1>18 DEF vars, file, state, thread, ghost
  <2>. QED
    BY <1>1, <1>4, <1>6, <2>1
<1>. QED
  BY <1>7, <1>8, <1>9, <1>10, <1>11, <1>12, <1>13, <1>14, <1>15, <1>16, <1>17, <1>18
     DEF Next, CommitStep, RestartStep

-----------------------------------------------------------------------------
(* One thread syncs, and it clears the flag and wakes the rest.            *)

LEMMA SyncerInit == Init => OneSyncer
  BY DEF Init, OneSyncer, WaiterHasSyncer, Syncer

\* One step of commit by t: the flag follows t in and out of the sync.
LEMMA SyncerStep ==
  ASSUME TypeOK, TypeOK', OneSyncer, NEW t \in Threads, status = "up", status' = "up",
         \/ /\ syncing' = syncing /\ (Syncer(t) <=> Syncer(t)') /\ pc[t] # "waiting"
            /\ pc'[t] = "waiting" => syncing
            /\ \A u \in Threads \ {t} : pc'[u] = pc[u]
         \/ /\ ~syncing /\ syncing' /\ Syncer(t)'
            /\ \A u \in Threads \ {t} : pc'[u] = pc[u]
         \/ /\ Syncer(t) /\ ~syncing' /\ ~Syncer(t)' /\ pc'[t] # "waiting"
            /\ \A u \in Threads \ {t} : pc'[u] = IF pc[u] = "waiting" THEN "commit" ELSE pc[u]
  PROVE  OneSyncer'
  BY DEF OneSyncer, WaiterHasSyncer, Syncer

\* A step of Next keeps one syncer and no orphan waiter (wal.rs commit).
LEMMA SyncerNext == TypeOK /\ FileOrder /\ OneSyncer /\ [Next]_vars => OneSyncer'
<1> SUFFICES ASSUME TypeOK, FileOrder, OneSyncer, [Next]_vars PROVE OneSyncer'
  OBVIOUS
<1>0. TypeOK' /\ pc \in [Threads -> PC]
  BY TypeNext DEF TypeOK
<1>1. ASSUME UNCHANGED <<pc, syncing, status>> PROVE OneSyncer'
  BY <1>1 DEF OneSyncer, WaiterHasSyncer, Syncer
<1>2. ASSUME UNCHANGED <<syncing, status>>, pc' = Woken(pc), status = "up" PROVE OneSyncer'
  <2>1. \A t \in Threads : (Syncer(t)' <=> Syncer(t)) /\ pc'[t] # "waiting"
    BY <1>0, <1>2 DEF Woken, Syncer
  <2>. QED
    BY <1>2, <2>1 DEF OneSyncer, WaiterHasSyncer
<1>3. ASSUME NEW t \in Threads, Append(t) PROVE OneSyncer'
  <2>1. /\ syncing' = syncing /\ status = "up" /\ status' = "up"
        /\ pc[t] = "idle" /\ pc' = [pc EXCEPT ![t] = "commit"]
    BY <1>3 DEF Append, WriterFree
  <2>. QED
    BY <1>0, <2>1, SyncerStep DEF Syncer
<1>4. ASSUME NEW t \in Threads, CommitStep(t) \/ FsyncFails(t) PROVE OneSyncer'
  <2>1. CASE CommitReturn(t) \/ CommitWait(t)
    <3>1. /\ syncing' = syncing /\ status = "up" /\ status' = "up" /\ pc[t] = "commit"
          /\ pc' = [pc EXCEPT ![t] = "idle"] \/ (pc' = [pc EXCEPT ![t] = "waiting"] /\ syncing)
      BY <2>1 DEF CommitReturn, CommitWait, Up, state
    <3>. QED
      BY <1>0, <3>1, SyncerStep DEF Syncer
  <2>2. CASE CommitStart(t)
    <3>1. /\ ~syncing /\ syncing' /\ status = "up" /\ status' = "up"
          /\ \E where \in {"window", "fsync"} : pc' = [pc EXCEPT ![t] = where]
      BY <2>2 DEF CommitStart, Up
    <3>. QED
      BY <1>0, <3>1, SyncerStep DEF Syncer
  <2>3. CASE Reclone(t) \/ Fsync(t) \/ FsyncFails(t)
    <3>1. /\ syncing' = syncing /\ status = "up" /\ status' = "up" /\ Syncer(t)
          /\ \E where \in {"fsync", "synced", "failed"} : pc' = [pc EXCEPT ![t] = where]
      BY <2>3 DEF Reclone, Fsync, FsyncFails, Up, state, Syncer
    <3>. QED
      BY <1>0, <3>1, SyncerStep DEF Syncer
  <2>4. CASE CommitFinish(t) \/ CommitFail(t)
    <3>1. /\ ~syncing' /\ status = "up" /\ status' = "up" /\ Syncer(t)
          /\ \E where \in {"commit", "idle"} : pc' = Woken([pc EXCEPT ![t] = where])
      BY <2>4 DEF CommitFinish, CommitFail, Up, Syncer
    <3>2. /\ pc'[t] \in {"commit", "idle"}
          /\ \A u \in Threads \ {t} : pc'[u] = IF pc[u] = "waiting" THEN "commit" ELSE pc[u]
      BY <1>0, <3>1 DEF Woken
    <3>. QED
      BY <1>0, <3>1, <3>2, SyncerStep DEF Syncer
  <2>. QED
    BY <1>4, <2>1, <2>2, <2>3, <2>4 DEF CommitStep
<1>5. CASE CallerStep
  <2>1. ASSUME NEW e \in 0..MaxEpoch, Reset \/ Rewrite(e) PROVE OneSyncer'
    BY <1>2, <2>1 DEF Reset, Rewrite, WriterFree
  <2>2. ASSUME NEW e \in 0..MaxEpoch, AdvanceEpoch(e) \/ RewriteFails(e) PROVE OneSyncer'
    BY <1>1, <2>2 DEF AdvanceEpoch, RewriteFails, thread
  <2>3. CASE Settle \/ DirectorySync \/ DirectorySyncFails
    BY <1>1, <2>3 DEF Settle, DirectorySync, DirectorySyncFails, thread, state
  <2>4. 0 \in 0..MaxEpoch
    BY BoundsAssumption
  <2>. QED
    BY <1>5, <2>1, <2>2, <2>3, <2>4 DEF CallerStep
<1>6. CASE Kill \/ Power
  BY <1>6 DEF Kill, Power, Die, OneSyncer, WaiterHasSyncer, Syncer
<1>7. CASE Open
  <2>1. status = "down" /\ status' = "up" /\ ~syncing' /\ pc' = pc
    BY <1>7 DEF Open, thread
  <2>. QED
    BY <2>1 DEF OneSyncer, WaiterHasSyncer, Syncer
<1>8. CASE UNCHANGED vars
  BY <1>1, <1>8 DEF vars, thread, state
<1>. QED
  BY <1>3, <1>4, <1>5, <1>6, <1>7, <1>8 DEF Next, RestartStep

-----------------------------------------------------------------------------
(* The theorems.                                                           *)

\* IInv is inductive.
LEMMA Inductive == /\ Init => IInv
                   /\ IInv /\ [Next]_vars => IInv'
<1>1. Init => IInv
  BY TypeInit, OrderInit, CoverageInit, SyncerInit DEF IInv
<1>2. IInv /\ [Next]_vars => IInv'
  BY TypeNext, OrderNext, CoverageNext, SyncerNext, Zenon DEF IInv
<1>. QED
  BY <1>1, <1>2

THEOREM Invariance == Spec => []IInv
  BY Inductive, PTL DEF Spec

\* Every variable of the log keeps its range (wal.rs).
THEOREM TypeCorrect == Spec => []TypeOK
<1>1. IInv => TypeOK
  BY DEF IInv
<1>. QED
  BY <1>1, Invariance, PTL

\* Whatever commit() returned Ok for is fsynced in the file a restart reads, or no
\* longer needs the log, for any number of threads, batches, crashes and restarts
\* (wal.rs commit, reset, rewrite, recover).
THEOREM AckedDurable == Spec => []AckedIsDurable
<1>1. IInv => AckedIsDurable
  BY DEF IInv, Coverage, Safe, AckedIsDurable
<1>. QED
  BY <1>1, Invariance, PTL

\* The order of stamps is the order of the file, across rewrites, epochs and
\* restarts (wal.rs append, rewrite, recover).
THEOREM StampOrder == Spec => []StampsFollowFileOrder
<1>1. IInv => StampsFollowFileOrder
  BY DEF IInv, FileOrder, StampsFollowFileOrder
<1>. QED
  BY <1>1, Invariance, PTL

\* Nobody sleeps on the condition variable without a thread that will wake it, and
\* two threads never sync at once (wal.rs commit).
THEOREM NoOrphanWaiter == Spec => []WaiterHasSyncer
<1>1. IInv => WaiterHasSyncer
  BY DEF IInv, OneSyncer
<1>. QED
  BY <1>1, Invariance, PTL

-----------------------------------------------------------------------------
(* Wal.tla implements DurableLog.tla: every step of the log, with its      *)
(* file, its fsyncs and its threads, is a step of the contract or leaves   *)
(* what the contract speaks of unchanged.                                  *)

Prefix(n) == BatchesOf({f \in log : f.seq <= n})

\* A prefix of the file in stamp order is a prefix of the batches in append order.
PrefixOrder ==
    /\ BatchesOf(log) \subseteq 1..appended
    /\ \A n \in 0..sequence : \E m \in 0..appended : Prefix(n) = {b \in BatchesOf(log) : b <= m}

RInv == IInv /\ PrefixOrder

-----------------------------------------------------------------------------
LEMMA WholeSet ==
  ASSUME NEW S, NEW m, \A b \in S : b <= m
  PROVE  {b \in S : b <= m} = S
  BY Zenon

LEMMA PrefixInit == Init => PrefixOrder
<1> SUFFICES ASSUME Init PROVE PrefixOrder
  OBVIOUS
<1>1. log = {} /\ sequence = 0 /\ appended = 0
  BY DEF Init, appended
<1>2. BatchesOf(log) = {} /\ \A n \in 0..sequence : Prefix(n) = {}
  BY <1>1 DEF BatchesOf, Prefix
<1>. QED
  BY <1>1, <1>2 DEF PrefixOrder

\* The file is left alone, whatever the counters do.
LEMMA PrefixKept ==
  ASSUME TypeOK, TypeOK', FileOrder, PrefixOrder, log' = log, appended' = appended
  PROVE  PrefixOrder'
<1>0. /\ appended \in Nat /\ sequence \in Nat /\ sequence' \in Nat
      /\ \A f \in log : f.seq \in Nat /\ f.seq <= sequence
  BY DEF TypeOK, FileOrder, Frame, appended
<1>1. SUFFICES ASSUME NEW n \in 0..sequence'
               PROVE  \E m \in 0..appended : Prefix(n)' = {b \in BatchesOf(log) : b <= m}
  BY DEF PrefixOrder
<1>2. Prefix(n)' = Prefix(n)
  BY DEF Prefix
<1>3. CASE n \in 0..sequence
  BY <1>2, <1>3 DEF PrefixOrder
<1>4. CASE n > sequence
  <2>1. {f \in log : f.seq <= n} = log
    BY <1>0, <1>4
  <2>2. Prefix(n) = BatchesOf(log)
    BY <2>1 DEF Prefix
  <2>3. BatchesOf(log) = {b \in BatchesOf(log) : b <= appended}
    BY <1>0 DEF PrefixOrder
  <2>. QED
    BY <1>0, <1>2, <2>2, <2>3
<1>. QED
  BY <1>0, <1>3, <1>4

LEMMA StampedBatches ==
  ASSUME NEW batches, NEW torn
  PROVE  Stamped(batches, torn).seq = sequence + 1 /\ Stamped(batches, torn).batches = batches
  BY Zenon DEF Stamped

\* A frame past the counter, carrying the next batch.
LEMMA PrefixAppend ==
  ASSUME TypeOK, TypeOK', FileOrder, PrefixOrder, NEW t \in Threads, Append(t)
  PROVE  PrefixOrder' /\ BatchesOf(log') = BatchesOf(log) \cup {appended'} /\ appended' = appended + 1
<1> DEFINE f == Stamped({appended + 1}, FALSE)
<1>0. /\ appended \in Nat /\ sequence \in Nat
      /\ \A g \in log : g.seq \in Nat /\ g.seq <= sequence
  BY DEF TypeOK, FileOrder, Frame, appended
<1>1. log' = log \cup {f} /\ sequence' = sequence + 1 /\ appended' = appended + 1
  BY DEF Append, appended, ghost, TypeOK
<1>2. f.seq = sequence + 1 /\ f.batches = {appended + 1}
  BY StampedBatches
<1> HIDE DEF f
<1>3. BatchesOf(log') = BatchesOf(log) \cup {appended'}
  BY <1>1, <1>2 DEF BatchesOf
<1>4. BatchesOf(log') \subseteq 1..appended'
  <2>1. \A b \in BatchesOf(log) : b \in 1..appended
    BY DEF PrefixOrder
  <2>2. \A b \in 1..appended : b \in 1..appended'
    BY <1>0, <1>1
  <2>3. appended' \in 1..appended'
    BY <1>0, <1>1
  <2>. QED
    BY <1>3, <2>1, <2>2, <2>3, Zenon
<1>5. ASSUME NEW n \in 0..sequence'
      PROVE  \E m \in 0..appended' : Prefix(n)' = {b \in BatchesOf(log') : b <= m}
  <2>1. CASE n \in 0..sequence
    <3>1. {g \in log' : g.seq <= n} = {g \in log : g.seq <= n}
      BY <1>0, <1>1, <1>2, <2>1
    <3>2. Prefix(n)' = Prefix(n)
      BY <3>1 DEF Prefix
    <3>3. PICK m \in 0..appended : Prefix(n) = {b \in BatchesOf(log) : b <= m}
      BY <2>1 DEF PrefixOrder
    <3>4. ~(appended' <= m)
      BY <1>0, <1>1
    <3>5. {b \in BatchesOf(log') : b <= m} = {b \in BatchesOf(log) : b <= m}
      BY <1>3, <3>4, Zenon
    <3>6. Prefix(n)' = {b \in BatchesOf(log') : b <= m}
      BY <3>2, <3>3, <3>5
    <3>. QED
      BY <1>0, <1>1, <3>6
  <2>2. CASE n = sequence + 1
    <3>1. {g \in log' : g.seq <= n} = log'
      BY <1>0, <1>1, <1>2, <2>2
    <3>2. Prefix(n)' = BatchesOf(log')
      BY <3>1 DEF Prefix
    <3>3. appended' \in 0..appended' /\ \A b \in BatchesOf(log') : b <= appended'
      BY <1>0, <1>1, <1>4
    <3>. QED
      BY <3>2, <3>3, WholeSet
  <2>. QED
    BY <1>0, <1>1, <2>1, <2>2
<1>. QED
  BY <1>1, <1>3, <1>4, <1>5 DEF PrefixOrder

\* One frame, or none, past the counter.
LEMMA PrefixRewrite ==
  ASSUME TypeOK, TypeOK', PrefixOrder, NEW e \in 0..MaxEpoch, Rewrite(e)
  PROVE  /\ PrefixOrder' /\ BatchesOf(log') = Unsettled /\ Durable' = Unsettled
         /\ appended' = appended
<1>0. appended \in Nat /\ sequence \in Nat /\ sequence' \in Nat /\ appended' = appended
  BY DEF TypeOK, Rewrite, appended, ghost
<1>1. log' = SurvivorFrame(e) /\ syncedTo' = sequence'
  BY DEF Rewrite
<1>2. Unsettled \subseteq 1..appended
  BY DEF PrefixOrder, Unsettled
<1>3. CASE Unsettled = {}
  <2>1. log' = {}
    BY <1>1, <1>3 DEF SurvivorFrame
  <2>2. BatchesOf(log') = {} /\ Durable' = {} /\ \A n \in 0..sequence' : Prefix(n)' = {}
    BY <2>1 DEF BatchesOf, Durable, Prefix
  <2>. QED
    BY <1>0, <1>3, <2>2 DEF PrefixOrder
<1>4. CASE Unsettled # {}
  <2> DEFINE f == [seq |-> sequence + 1, epoch |-> Larger(epoch, e), batches |-> Unsettled,
                   torn |-> FALSE]
  <2>1. log' = {f} /\ sequence' = sequence + 1
    BY <1>1, <1>4 DEF SurvivorFrame, Rewrite, StampRewrite
  <2>2. f.seq = sequence' /\ f.batches = Unsettled
    BY <2>1
  <2> HIDE DEF f
  <2>3. BatchesOf(log') = Unsettled
    BY <2>1, <2>2 DEF BatchesOf
  <2>4. {g \in log' : g.seq <= syncedTo'} = log'
    BY <1>0, <1>1, <2>1, <2>2
  <2>5. Durable' = Unsettled
    BY <2>3, <2>4 DEF Durable
  <2>6. ASSUME NEW n \in 0..sequence'
        PROVE  \E m \in 0..appended' : Prefix(n)' = {b \in BatchesOf(log') : b <= m}
    <3>1. CASE n = sequence'
      <4>1. Prefix(n)' = Unsettled
        BY <1>1, <2>5, <3>1 DEF Durable, Prefix
      <4>2. appended' \in 0..appended' /\ \A b \in Unsettled : b <= appended'
        BY <1>0, <1>2
      <4>. QED
        BY <2>3, <4>1, <4>2, WholeSet
    <3>2. CASE n < sequence'
      <4>1. {g \in log' : g.seq <= n} = {}
        BY <1>0, <2>1, <2>2, <3>2
      <4>2. Prefix(n)' = {}
        BY <4>1 DEF Prefix, BatchesOf
      <4>3. \A b \in Unsettled : ~(b <= 0)
        BY <1>0, <1>2
      <4>. QED
        BY <1>0, <2>3, <4>2, <4>3
    <3>. QED
      BY <1>0, <3>1, <3>2
  <2>. QED
    BY <1>0, <1>2, <2>3, <2>5, <2>6 DEF PrefixOrder
<1>. QED
  BY <1>3, <1>4

\* A prefix of the file, as power loss leaves it.
LEMMA PrefixPower ==
  ASSUME TypeOK, TypeOK', FileOrder, PrefixOrder, Power
  PROVE  /\ PrefixOrder' /\ appended' = appended
         /\ \E m \in 0..appended : BatchesOf(log') = {b \in BatchesOf(log) : b <= m}
<1>0. /\ appended \in Nat /\ sequence \in Nat /\ appended' = appended /\ sequence' = sequence
      /\ syncedTo \in Nat
  BY DEF TypeOK, Power, Die, appended, state, ghost
<1>1. PICK k \in syncedTo..sequence : log' = {f \in log : f.seq <= k}
  BY DEF Power
<1>2. k \in 0..sequence /\ BatchesOf(log') = Prefix(k)
  BY <1>0, <1>1 DEF Prefix
<1>3. PICK m \in 0..appended : BatchesOf(log') = {b \in BatchesOf(log) : b <= m}
  BY <1>2 DEF PrefixOrder
<1>4. BatchesOf(log') \subseteq 1..appended'
  BY <1>0, <1>3 DEF PrefixOrder
<1>5. ASSUME NEW n \in 0..sequence'
      PROVE  \E j \in 0..appended' : Prefix(n)' = {b \in BatchesOf(log') : b <= j}
  <2>1. CASE n <= k
    <3>1. {f \in log' : f.seq <= n} = {f \in log : f.seq <= n}
      <4>1. \A f \in log : f.seq <= n => f.seq <= k
        BY <1>2, <2>1 DEF TypeOK, Frame
      <4>. QED
        BY <1>1, <4>1, Zenon
    <3>2. PICK j \in 0..appended : Prefix(n)' = {b \in BatchesOf(log) : b <= j}
      BY <1>0, <3>1 DEF PrefixOrder, Prefix
    <3>3. Prefix(n)' \subseteq BatchesOf(log')
      BY DEF Prefix, BatchesOf
    <3>4. Prefix(n)' = {b \in BatchesOf(log') : b <= j}
      BY <1>3, <3>2, <3>3
    <3>. QED
      BY <1>0, <3>4
  <2>2. CASE n > k
    <3>1. {f \in log' : f.seq <= n} = log'
      <4>1. \A f \in log : f.seq <= k => f.seq <= n
        BY <1>2, <2>2 DEF TypeOK, Frame
      <4>. QED
        BY <1>1, <4>1, Zenon
    <3>2. Prefix(n)' = BatchesOf(log')
      BY <3>1 DEF Prefix
    <3>3. appended' \in 0..appended' /\ \A b \in BatchesOf(log') : b <= appended'
      BY <1>0, <1>4
    <3>. QED
      BY <3>2, <3>3, WholeSet
  <2>. QED
    BY <1>0, <1>2, <2>1, <2>2
<1>. QED
  BY <1>0, <1>3, <1>4, <1>5 DEF PrefixOrder

\* A restart replays the whole file and counts on from it.
LEMMA PrefixOpen ==
  ASSUME TypeOK, TypeOK', FileOrder, PrefixOrder, Open
  PROVE  /\ PrefixOrder' /\ appended' = appended
         /\ log' = log /\ Durable' = Durable
<1>0. /\ appended \in Nat /\ sequence \in Nat
      /\ log' = log /\ sequence' \in 0..sequence /\ \A f \in log : f.seq <= sequence'
  BY LastFrame DEF TypeOK, Open, appended
<1>1. appended' = appended
  BY <1>0 DEF Open, appended, TypeOK
<1>2. Durable' = Durable
  <2>1. CASE syncedTo' = syncedTo
    BY <1>0, <2>1 DEF Durable
  <2>2. CASE syncedTo' = sequence' /\ syncedTo > sequence'
    <3>1. \A f \in log : f.seq <= syncedTo /\ f.seq <= syncedTo'
      BY <1>0, <2>2 DEF TypeOK, Frame
    <3>2. {f \in log : f.seq <= syncedTo} = log /\ {f \in log' : f.seq <= syncedTo'} = log
      BY <1>0, <3>1
    <3>. QED
      BY <3>2 DEF Durable
  <2>. QED
    BY <2>1, <2>2, LastFrame DEF Open, TypeOK
<1>3. ASSUME NEW n \in 0..sequence'
      PROVE  \E m \in 0..appended' : Prefix(n)' = {b \in BatchesOf(log') : b <= m}
  <2>1. n \in 0..sequence /\ Prefix(n)' = Prefix(n)
    BY <1>0 DEF Prefix
  <2>. QED
    BY <1>0, <1>1, <2>1 DEF PrefixOrder
<1>. QED
  BY <1>0, <1>1, <1>2, <1>3 DEF PrefixOrder

-----------------------------------------------------------------------------
(* Steps.                                                                  *)

Mapped == <<appended, BatchesOf(log), Durable, settled, acked>>

\* Steps that leave the file, the fsynced prefix and the acknowledgements alone.
LEMMA Quiet ==
  ASSUME TypeOK, TypeOK', FileOrder, PrefixOrder, UNCHANGED <<log, syncedTo, appended, settled, acked>>
  PROVE  PrefixOrder' /\ UNCHANGED Mapped
<1>1. PrefixOrder'
  BY PrefixKept
<1>2. Durable' = Durable /\ BatchesOf(log') = BatchesOf(log)
  BY DEF Durable
<1>. QED
  BY <1>1, <1>2 DEF Mapped

\* A step of the log is a step of the contract, or changes nothing it speaks of.
LEMMA Simulation ==
  ASSUME RInv, [Next]_vars
  PROVE  PrefixOrder' /\ (Contract!Next \/ UNCHANGED Mapped)
<1>0. /\ TypeOK /\ TypeOK' /\ FileOrder /\ FileOrder' /\ Coverage /\ OneSyncer /\ PrefixOrder
      /\ Safe \subseteq Safe'
  BY TypeNext, OrderNext, SafeKept, Zenon DEF RInv, IInv
<1> HIDE DEF RInv
<1>1. Durable \subseteq BatchesOf(log) /\ Durable' \subseteq BatchesOf(log')
  BY Zenon DEF Durable, BatchesOf
<1>2. ASSUME NEW t \in Threads, Append(t) PROVE PrefixOrder' /\ Contract!Next
  <2>1. PrefixOrder' /\ BatchesOf(log') = BatchesOf(log) \cup {appended'} /\ appended' = appended + 1
    BY <1>0, <1>2, PrefixAppend
  <2> DEFINE f == Stamped({appended + 1}, FALSE)
  <2>2. log' = log \cup {f} /\ UNCHANGED <<syncedTo, settled, acked>>
    <3>1. UNCHANGED <<syncedTo, settled, acked>>
      BY <1>2 DEF Append, ghost
    <3>. QED
      BY <1>2, <3>1, Zenon DEF Append
  <2>f. f.seq = sequence + 1
    BY StampedBatches
  <2> HIDE DEF f
  <2>3. ~(f.seq <= syncedTo)
    BY <1>0, <2>f DEF TypeOK, FileOrder
  <2>4. {g \in log' : g.seq <= syncedTo'} = {g \in log : g.seq <= syncedTo}
    BY <2>2, <2>3, Zenon
  <2>5. Durable' = Durable
    BY <2>4 DEF Durable
  <2>. QED
    BY <2>1, <2>2, <2>5 DEF Contract!Next, Contract!Append
<1>3. ASSUME NEW t \in Threads, CommitReturn(t) PROVE PrefixOrder' /\ Contract!Next
  <2>1. /\ UNCHANGED <<file, base, written_lsn, settled>> /\ acked' = acked \cup {base + lsn[t]}
        /\ pc[t] = "commit" /\ durable_lsn >= lsn[t]
    BY <1>3 DEF CommitReturn, Up, state, Acked
  <2>2. base + lsn[t] \in (base + 1)..(base + durable_lsn)
    BY <1>0, <2>1 DEF TypeOK, Coverage, ThreadCovered
  <2>3. base + lsn[t] \in settled \cup Durable
    BY <1>0, <2>2 DEF Coverage, Covers, Safe
  <2>4. UNCHANGED <<log, syncedTo, appended>>
    BY <2>1 DEF file, appended
  <2>5. Durable' = Durable
    BY <2>4 DEF Durable
  <2>6. PrefixOrder'
    BY <1>0, <2>4, PrefixKept
  <2>7. Contract!Acknowledge
    BY <2>1, <2>3, <2>4, <2>5 DEF Contract!Acknowledge
  <2>. QED
    BY <2>6, <2>7 DEF Contract!Next
<1>4. ASSUME NEW t \in Threads, Fsync(t) PROVE PrefixOrder' /\ Contract!Next
  <2>1. UNCHANGED <<log, appended, settled, acked>>
    BY <1>4 DEF Fsync, state, ghost, appended
  <2>2. syncedTo <= syncedTo' /\ syncedTo' \in Nat
    BY <1>0, <1>4 DEF Fsync, TypeOK, FileOrder
  <2>3. \A f \in log : f.seq <= syncedTo => f.seq <= syncedTo'
    BY <1>0, <2>2 DEF TypeOK, Frame
  <2>4. Durable \subseteq Durable'
    BY <2>1, <2>3, Zenon DEF Durable, BatchesOf
  <2>5. PrefixOrder'
    BY <1>0, <2>1, PrefixKept
  <2>6. Contract!Sync
    BY <1>1, <2>1, <2>4 DEF Contract!Sync
  <2>. QED
    BY <2>5, <2>6 DEF Contract!Next
<1>5. ASSUME NEW t \in Threads, \/ CommitWait(t) \/ CommitStart(t) \/ Reclone(t) \/ CommitFinish(t)
                                \/ CommitFail(t) \/ FsyncFails(t)
      PROVE  PrefixOrder' /\ UNCHANGED Mapped
  <2>1. UNCHANGED <<log, syncedTo, appended, settled, acked>>
    BY <1>5 DEF CommitWait, CommitStart, Reclone, CommitFinish, CommitFail, FsyncFails, file, state,
                ghost, appended
  <2>. QED
    BY <1>0, <2>1, Quiet
<1>6. CASE Settle
  <2>1. UNCHANGED <<log, syncedTo, appended, acked>>
    BY <1>6 DEF Settle, file, state, appended
  <2>2. settled \subseteq settled' /\ settled' \subseteq settled \cup BatchesOf(log)
    BY <1>6, Zenon DEF Settle
  <2>3. PrefixOrder' /\ Durable' = Durable
    BY <1>0, <2>1, PrefixKept DEF Durable
  <2>. QED
    BY <2>1, <2>2, <2>3 DEF Contract!Next, Contract!Settle
<1>7. CASE Reset
  <2>1. /\ UNCHANGED <<appended, settled, acked>> /\ log' = {} /\ BatchesOf(log) \ settled = {}
    BY <1>7 DEF Reset, NothingUnsettled, Unsettled, ghost, appended
  <2>2. BatchesOf(log') = {} /\ Durable' = {} /\ \A n \in 0..sequence' : Prefix(n)' = {}
    BY <2>1, Zenon DEF Durable, BatchesOf, Prefix
  <2>3. appended \in Nat
    BY <1>0 DEF TypeOK, appended
  <2>4. PrefixOrder'
    BY <2>1, <2>2, <2>3 DEF PrefixOrder
  <2>5. Contract!Reclaim
    BY <2>1, <2>2 DEF Contract!Reclaim
  <2>. QED
    BY <2>4, <2>5 DEF Contract!Next
<1>8. ASSUME NEW e \in 0..MaxEpoch, Rewrite(e) PROVE PrefixOrder' /\ Contract!Next
  <2>1. /\ PrefixOrder' /\ BatchesOf(log') = Unsettled /\ Durable' = Unsettled /\ appended' = appended
    BY <1>0, <1>8, PrefixRewrite
  <2>2. UNCHANGED <<settled, acked>>
    BY <1>8 DEF Rewrite, ghost
  <2>3. Contract!Reclaim
    BY <2>1, <2>2 DEF Contract!Reclaim, Unsettled
  <2>. QED
    BY <2>1, <2>3 DEF Contract!Next
<1>9. ASSUME NEW e \in 0..MaxEpoch, AdvanceEpoch(e) \/ RewriteFails(e)
      PROVE  PrefixOrder' /\ UNCHANGED Mapped
  <2>1. UNCHANGED <<log, syncedTo, appended, settled, acked>>
    BY <1>9 DEF AdvanceEpoch, RewriteFails, file, ghost, appended
  <2>. QED
    BY <1>0, <2>1, Quiet
<1>10. CASE DirectorySync \/ DirectorySyncFails \/ Kill
  <2>1. UNCHANGED <<log, syncedTo, appended, settled, acked>>
    BY <1>10 DEF DirectorySync, DirectorySyncFails, Kill, Die, file, state, ghost, appended
  <2>. QED
    BY <1>0, <2>1, Quiet
<1>11. CASE Power
  <2>1. /\ PrefixOrder' /\ appended' = appended
        /\ \E m \in 0..appended : BatchesOf(log') = {b \in BatchesOf(log) : b <= m}
    BY <1>0, <1>11, PrefixPower
  <2>2. UNCHANGED <<settled, acked>>
    BY <1>11 DEF Power, Die, ghost
  <2>3. Durable \subseteq Durable'
    <3>1. PICK n \in syncedTo..sequence : log' = {f \in log : f.seq <= n} /\ syncedTo' = n
      BY <1>11 DEF Power
    <3>2. \A f \in log : f.seq <= syncedTo => f.seq <= n
      BY <1>0 DEF TypeOK, Frame
    <3>. QED
      BY <3>1, <3>2, Zenon DEF Durable, BatchesOf
  <2>4. Contract!Crash
    BY <1>1, <2>1, <2>2, <2>3 DEF Contract!Crash
  <2>. QED
    BY <2>1, <2>4 DEF Contract!Next
<1>12. CASE Open
  <2>1. PrefixOrder' /\ appended' = appended /\ log' = log /\ Durable' = Durable
    BY <1>0, <1>12, PrefixOpen
  <2>2. UNCHANGED <<settled, acked>>
    BY <1>12 DEF Open
  <2>. QED
    BY <2>1, <2>2 DEF Mapped
<1>13. CASE UNCHANGED vars
  <2>1. UNCHANGED <<log, syncedTo, appended, settled, acked>>
    BY <1>13 DEF vars, file, state, ghost, appended
  <2>. QED
    BY <1>0, <2>1, Quiet
<1>. QED
  BY <1>2, <1>3, <1>4, <1>5, <1>6, <1>7, <1>8, <1>9, <1>10, <1>11, <1>12, <1>13
     DEF Next, CommitStep, CallerStep, RestartStep

LEMMA SimulationInit == Init => Contract!Init
<1> SUFFICES ASSUME Init PROVE Contract!Init
  OBVIOUS
<1>1. log = {} /\ settled = {} /\ acked = {} /\ appended = 0
  BY DEF Init, appended
<1>2. BatchesOf(log) = {} /\ Durable = {}
  BY <1>1 DEF BatchesOf, Durable
<1>. QED
  BY <1>1, <1>2 DEF Contract!Init

\* The log keeps the contract its callers rely on: acknowledged batches are held and
\* fsynced or need the log no more, and a crash takes a suffix of what was appended,
\* never a hole in it (wal.rs).
THEOREM ImplementsContract == Spec => KeepsContract
<1>1. Init => RInv
  BY Inductive, PrefixInit DEF RInv
<1>2. RInv /\ [Next]_vars => RInv'
  BY Inductive, Simulation DEF RInv
<1>3. RInv /\ [Next]_vars => [Contract!Next]_Contract!vars
  <2>1. ASSUME RInv, [Next]_vars PROVE [Contract!Next]_Contract!vars
    BY <2>1, Simulation DEF Mapped, Contract!vars
  <2>. QED
    BY <2>1
<1>. QED
  BY <1>1, <1>2, <1>3, SimulationInit, PTL DEF Spec, KeepsContract, Contract!Spec
=============================================================================
